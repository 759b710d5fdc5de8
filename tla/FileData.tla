------------------------------ MODULE FileData ------------------------------
(***************************************************************************)
(* The bytes of one file: the loops of fs_read and fs_write over its       *)
(* blocks, one block per step, with the buffer they copy through, and      *)
(* fs_truncate, whose blocks later writes take again with the old bytes in *)
(* them.  Each block_read and block_write may fail.  FileSystem says which *)
(* file a block belongs to; here is what it holds.                         *)
(*                                                                         *)
(* One call at a time, and no other file: what other files have taken is   *)
(* taken from the start.  Stops and remounts are DiskSteps'.               *)
(*                                                                         *)
(* A definition marked "changed" is a slip such code invites; nothing uses *)
(* it, and TLC shows that the properties below would notice it.            *)
(***************************************************************************)
EXTENDS Integers, Sequences, FiniteSets

CONSTANTS
  Blocks,      \* the blocks that are free while the file is empty
  BlockSize,   \* FS_BLOCK_SIZE, in bytes
  MaxSize,     \* bound: no call goes beyond this offset
  UInt32,      \* the modulus of uint32_t
  Byte,        \* the values of a byte
  Junk,        \* a byte of a local array that nothing has been put in
  Buffers      \* the data that callers write

ASSUME DataAssumption ==
  /\ Blocks \subseteq Nat \ {0} /\ IsFiniteSet(Blocks)
  /\ BlockSize \in Nat \ {0} /\ MaxSize \in Nat
  /\ UInt32 \in Nat /\ UInt32 > Cardinality(Blocks) + MaxSize
  /\ Junk \notin Byte /\ Buffers \subseteq Seq(Byte)

VARIABLES
  image,     \* the bytes of each block
  ino,       \* the inode on disk: the file's size and its pointers, as far as set
  marked,    \* the blocks whose bit is set in memory
  call,      \* the call under way, with the variables of its handler
  answer,    \* what the last call returned
  torn       \* has a truncate failed after it had cleared bits?

vars == <<image, ino, marked, call, answer, torn>>

Idle == [op |-> "idle"]
NoAnswer == [code |-> "none"]
Error(e) == [code |-> e]
BytesRead(s) == [code |-> "ok", bytes |-> s]
Count(n) == [code |-> "ok", count |-> n]

Offsets == 0 .. MaxSize
InBlock == 0 .. BlockSize - 1
CeilDiv(n) == (n + BlockSize - 1) \div BlockSize
Inode == [size : Offsets, ptrs : Seq(Blocks)]

TypeOK ==
  /\ image \in [Blocks -> [InBlock -> Byte]]
  /\ ino \in Inode /\ Len(ino.ptrs) = CeilDiv(ino.size)
  /\ marked \subseteq Blocks /\ torn \in BOOLEAN
  /\ \/ call = Idle
     \/ call \in [op : {"read"}, off : Offsets, want : Offsets, len : Offsets, got : Seq(Byte)]
     \/ call \in [op : {"write", "save"}, off : Offsets, data : Buffers, done : Offsets,
                  ino : Inode, grows : BOOLEAN]
  /\ \/ answer.code \in {"none", "EINVAL", "ENOSPC", "EIO"}
     \/ answer.code = "ok" /\ answer \in [code : {"ok"}, bytes : Seq(Byte)]
                                \cup [code : {"ok"}, count : Offsets]

Init ==
  /\ \E v \in Byte : image = [b \in Blocks |-> [k \in InBlock |-> v]]
  /\ ino = [size |-> 0, ptrs |-> <<>>] /\ marked = {}
  /\ call = Idle /\ answer = NoAnswer /\ torn = FALSE

-----------------------------------------------------------------------------
(* The arithmetic of the two loops: where the next byte lies, and how many *)
(* bytes go from or to that block.                                         *)

Smaller(m, n) == IF m < n THEN m ELSE n
Larger(m, n) == IF m > n THEN m ELSE n
block_index(pos) == pos \div BlockSize + 1         \* (ptrs is counted from 1)
block_offset(pos) == pos % BlockSize
chunk_ToLast(pos, left) ==                         \* changed: to the last byte
  Smaller(left, BlockSize - 1 - block_offset(pos))
chunk(pos, left) == Smaller(left, BlockSize - block_offset(pos))

Returns(a) == call' = Idle /\ answer' = a

-----------------------------------------------------------------------------
(* fs_read *)

clipped(off, len) ==
  IF off >= ino.size THEN 0 ELSE Smaller(len, ino.size - off)

begin_read(off, len) ==
  /\ call = Idle /\ answer' = NoAnswer
  /\ call' = [op |-> "read", off |-> off, want |-> len, len |-> clipped(off, len),
              got |-> <<>>]
  /\ UNCHANGED <<image, ino, marked, torn>>

ReadBlock ==
  /\ call.op = "read" /\ Len(call.got) < call.len
  /\ LET pos == call.off + Len(call.got)
         block == image[ino.ptrs[block_index(pos)]]
         copied == [k \in 1 .. chunk(pos, call.len - Len(call.got)) |->
                      block[block_offset(pos) + k - 1]]
     IN call' = [call EXCEPT !.got = @ \o copied]
  /\ UNCHANGED <<image, ino, marked, answer, torn>>

ReadReturns ==
  /\ call.op = "read" /\ Len(call.got) >= call.len
  /\ Returns(BytesRead(call.got))
  /\ UNCHANGED <<image, ino, marked, torn>>

ReadFails ==
  /\ call.op = "read" /\ Len(call.got) < call.len
  /\ Returns(Error("EIO"))
  /\ UNCHANGED <<image, ino, marked, torn>>

-----------------------------------------------------------------------------
(* fs_write *)

Free == Blocks \ marked
NewBlocksNeeded(end) == (CeilDiv(end) - CeilDiv(ino.size)) % UInt32

\* The lowest n free blocks, in increasing order.
Allocated(n) ==
  CHOOSE s \in [1 .. n -> Free] :
    /\ \A h, k \in 1 .. n : h < k => s[h] < s[k]
    /\ \A b \in Free : (\E k \in 1 .. n : b < s[k]) => b \in {s[k] : k \in 1 .. n}

begin_write(off, data) ==
  LET end == off + Len(data)
      need == NewBlocksNeeded(end)
  IN
  /\ call = Idle
  /\ \/ off > ino.size /\ Returns(Error("EINVAL")) /\ UNCHANGED marked
     \/ /\ off <= ino.size /\ need > Cardinality(Free)
        /\ Returns(Error("ENOSPC")) /\ marked' = Blocks
     \/ /\ off <= ino.size /\ need <= Cardinality(Free)
        /\ marked' = marked \cup {Allocated(need)[k] : k \in 1 .. need}
        /\ call' = [op |-> "write", off |-> off, data |-> data, done |-> 0,
                    ino |-> [ino EXCEPT !.ptrs = @ \o Allocated(need)],
                    grows |-> CeilDiv(end) > CeilDiv(ino.size)]
        /\ answer' = NoAnswer
  /\ UNCHANGED <<image, ino, torn>>

\* The buffer a block is written from: read first unless all of it is replaced.
Buffer_NotRead(b, from, n) ==            \* changed: read only if it does not start at 0
  IF from > 0 THEN image[b] ELSE [k \in InBlock |-> Junk]
Buffer(b, from, n) ==
  IF from > 0 \/ n < BlockSize THEN image[b] ELSE [k \in InBlock |-> Junk]

\* The block of the next byte, and what is to be written to it.
Target == call.ino.ptrs[block_index(call.off + call.done)]
Left == Len(call.data) - call.done
Chunk == chunk(call.off + call.done, Left)
Filled ==
  LET from == block_offset(call.off + call.done) IN
  [k \in InBlock |->
     IF k \in from .. from + Chunk - 1 THEN call.data[call.done + k - from + 1]
     ELSE Buffer(Target, from, Chunk)[k]]

WriteBlock ==
  /\ call.op = "write" /\ Left > 0
  /\ image' = [image EXCEPT ![Target] = Filled]
  /\ call' = [call EXCEPT !.done = @ + Chunk]
  /\ UNCHANGED <<ino, marked, answer, torn>>

\* block_read fails, or block_write, having written the first n bytes.
WriteBlockFails ==
  /\ call.op = "write" /\ Left > 0
  /\ \E n \in 0 .. BlockSize :
       image' = [image EXCEPT ![Target] = [k \in InBlock |-> IF k < n THEN Filled[k] ELSE @[k]]]
  /\ Returns(Error("EIO"))
  /\ UNCHANGED <<ino, marked, torn>>

NewSize_Sum == ino.size + Len(call.data)          \* changed: as if it always appended
NewSize == Larger(ino.size, call.off + Len(call.data))

WriteInode ==
  /\ call.op = "write" /\ Left = 0
  /\ ino' = [call.ino EXCEPT !.size = NewSize]
  /\ IF call.grows THEN call' = [call EXCEPT !.op = "save"] /\ UNCHANGED answer
     ELSE Returns(Count(call.done))
  /\ UNCHANGED <<image, marked, torn>>

\* (The inode, most of whose block is not used, is written whole or not at all.)
WriteInodeFails ==
  /\ call.op = "write" /\ Left = 0
  /\ ino' \in {ino, [call.ino EXCEPT !.size = NewSize]}
  /\ Returns(Error("EIO"))
  /\ UNCHANGED <<image, marked, torn>>

\* The bitmap, whose copy on disk nothing here reads.
SaveMap ==
  /\ call.op = "save"
  /\ Returns(Count(call.done)) \/ Returns(Error("EIO"))
  /\ UNCHANGED <<image, ino, marked, torn>>

-----------------------------------------------------------------------------
(* fs_truncate to 0, the only length it accepts *)

fs_truncate ==
  /\ call = Idle /\ UNCHANGED <<image, call>>
  /\ marked' = marked \ {ino.ptrs[k] : k \in 1 .. CeilDiv(ino.size)}
  /\ \/ /\ ino' = [size |-> 0, ptrs |-> <<>>]
        /\ answer' \in {Count(0), Error("EIO")} /\ UNCHANGED torn
     \/ /\ UNCHANGED ino                        \* the inode cannot be written
        /\ answer' = Error("EIO") /\ torn' = (torn \/ ino.size > 0)

-----------------------------------------------------------------------------

Continues == ReadBlock \/ ReadReturns \/ WriteBlock \/ WriteInode \/ SaveMap

Next ==
  \/ \E off, len \in Offsets : begin_read(off, len)
  \/ \E off \in Offsets, data \in Buffers :
       off + Len(data) <= MaxSize /\ begin_write(off, data)
  \/ Continues \/ ReadFails \/ WriteBlockFails \/ WriteInodeFails
  \/ fs_truncate

\* A handler that was called runs on, block by block; nobody has to call one.
Spec == Init /\ [][Next]_vars /\ WF_vars(Continues)

-----------------------------------------------------------------------------
(* Properties *)

\* The file as inode and blocks have it on disk.
Content ==
  [p \in 1 .. ino.size |-> image[ino.ptrs[block_index(p - 1)]][block_offset(p - 1)]]

CallUnderWay ==
  CASE call.op = "read" -> [op |-> "read", off |-> call.off, len |-> call.want]
    [] call.op \in {"write", "save"} -> [op |-> "write", off |-> call.off, data |-> call.data]
    [] OTHER -> [op |-> "none"]

Flat == INSTANCE FlatFile WITH content <- Content, call <- CallUnderWay

\* What is read is what was written, at every offset and length, across blocks and
\* within them, whatever the blocks held before, and whatever failed before.
ImplementsFlatFile == Flat!FlatSpec

\* Each call returns: each turn of the two loops brings it nearer to its end.
EveryCallReturns == call.op # "idle" ~> call.op = "idle"
=============================================================================
