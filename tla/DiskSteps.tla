----------------------------- MODULE DiskSteps ------------------------------
(***************************************************************************)
(* The handlers of FileSystem as the sequences of steps they are: changes  *)
(* of the bitmap in memory and calls of block_write, one at a time.        *)
(* Between any two of them the process can stop, and is then mounted       *)
(* again; any block_write can fail, and the handler returns EIO, having    *)
(* undone its changes or not, as the code does; and with more than one     *)
(* thread, as fuse_main has them, calls interleave.                        *)
(*                                                                         *)
(* A handler reads what it needs, and finds its free blocks, in the step   *)
(* that begins it (a lock of the kernel keeps others off the directories   *)
(* and inodes it reads), and this step decides what it will write.         *)
(*                                                                         *)
(* A definition marked "changed" is a slip such code invites; nothing uses *)
(* it, and TLC shows that the properties below would notice it.            *)
(***************************************************************************)
EXTENDS FileSystemTree, SequencesExt

CONSTANTS
  Threads,     \* the threads of fuse_main: one with -s and in the unit tests
  MaxFaults    \* bound: stops, failing writes and failing mounts

ASSUME StepsAssumption == Threads # {} /\ MaxFaults \in Nat

VARIABLES
  todo,      \* todo[t]: what the call of t has yet to do, empty between calls
  op,        \* op[t]: which call it is
  result,    \* result[t]: what it will return
  loaded,    \* loaded[t]: the bytes of the bitmap bit_set or bit_clear has read
  locks,     \* locks[t]: the inodes the kernel has locked for it
  mount,     \* what fs_init has read of superblock and bitmap
  faults,    \* the faults so far
  risk,      \* history: has a fault hit a place where the code has no answer?
  moved      \* history: the threads whose call has changed the tree

vars_steps == <<vars, tree, todo, op, result, loaded, locks, mount, faults, risk, moved>>

Mounts == {"down", "ok", "no_map", "no_super"}
Ops == {"none", "create", "mkdir", "unlink", "rmdir", "rename", "setattr",
        "truncate", "write"}

SetBits(S) == [do |-> "set", bits |-> S]
ClearBits(S) == [do |-> "clear", bits |-> S]
Put(b, c) == [do |-> "put", at |-> b, what |-> c, undo |-> {}]
PutOrUndo(b, c, S) == [Put(b, c) EXCEPT !.undo = S]
Save == [do |-> "save"]

Step ==
  [do : {"set", "clear"}, bits : SUBSET Blocks] \cup {Save}
    \cup [do : {"put"}, at : Blocks, what : Content, undo : SUBSET Blocks]

StepsTypeOK ==
  /\ TypeOK
  /\ \A t \in Threads : \A k \in DOMAIN todo[t] : todo[t][k] \in Step
  /\ op \in [Threads -> Ops] /\ result \in [Threads -> Codes]
  /\ \A t \in Threads : loaded[t] \in {<<>>} \cup {<<S>> : S \in SUBSET (0 .. DiskSize - 1)}
  /\ locks \in [Threads -> SUBSET Blocks]
  /\ mount \in Mounts /\ faults \in 0 .. MaxFaults /\ risk \in BOOLEAN
  /\ moved \subseteq Threads

Idle(t) == todo[t] = <<>>
AllIdle == \A t \in Threads : Idle(t)

StepsInit ==
  /\ TreeInit
  /\ todo = [t \in Threads |-> <<>>] /\ op = [t \in Threads |-> "none"]
  /\ result = [t \in Threads |-> "ok"] /\ loaded = [t \in Threads |-> <<>>]
  /\ locks = [t \in Threads |-> {}]
  /\ mount = "ok" /\ faults = 0 /\ risk = FALSE /\ moved = {}

-----------------------------------------------------------------------------
(* Beginning a call.  The kernel calls fs_create, fs_mkdir, fs_unlink,     *)
(* fs_rmdir and fs_rename with the directory locked, and fs_unlink,        *)
(* fs_rmdir, fs_chmod, fs_utime, fs_truncate and fs_write with the inode.  *)

Begin(t, name, held, steps, code) ==
  /\ Idle(t) /\ mount # "down"
  /\ \A u \in Threads : locks[u] \cap held = {}
  /\ todo' = [todo EXCEPT ![t] = steps]
  /\ op' = [op EXCEPT ![t] = name]
  /\ result' = [result EXCEPT ![t] = code]
  /\ locks' = [locks EXCEPT ![t] = held]
  /\ UNCHANGED <<vars, loaded, mount, faults, risk>>

\* A call that is refused returns before it has changed anything.  (Looking for
\* a free block without a bitmap does not return, see Stop.)
Refused(t) ==
  /\ Idle(t) /\ mount # "down"
  /\ \/ \E d \in Addressable, n \in Names :
          \/ PathFails(d, n) \/ fs_create(d, n) \/ fs_mkdir(d, n)
          \/ fs_unlink(d, n) \/ fs_rmdir(d, n)
          \/ \E e \in Addressable, m \in Names : fs_rename(d, n, e, m)
     \/ \E i \in Addressable :
          \/ \E len \in 0 .. MaxSize : fs_truncate(i, len)
          \/ \E off, len \in 0 .. MaxSize : off + len <= MaxSize /\ fs_write(i, off, len)
  /\ ret' # "ok" /\ UNCHANGED <<disk, map_blk, bitmap>>
  /\ ret' = "ENOSPC" => mount # "no_map"
  /\ UNCHANGED <<todo, op, result, loaded, locks, mount, faults, risk>>

PutEntry(d, p, e) == Put(BlockAt(d, p), SetEntry(disk, BlockAt(d, p), p[2], e)[BlockAt(d, p)])

\* The new entry, unless the directory is full.
AddSteps(d, n, i) ==
  IF FreeSlots(d) = {} THEN <<>>
  ELSE <<PutEntry(d, CHOOSE p \in FirstOf(FreeSlots(d)) : TRUE, NewEntry(i, n))>>

Unless(full, d) == IF FreeSlots(d) = {} THEN full ELSE "ok"

CreateSteps_EntryFirst(d, n, i) ==      \* changed: linked before the map is saved
  <<SetBits({i}), PutOrUndo(i, AnInode("file", 0, NullPtrs), {i})>> \o AddSteps(d, n, i) \o <<Save>>
CreateSteps(d, n, i) ==
  <<SetBits({i}), Save, PutOrUndo(i, AnInode("file", 0, NullPtrs), {i})>> \o AddSteps(d, n, i)

MkdirSteps(d, n, i, b) ==
  <<SetBits({i, b}), Save,
    PutOrUndo(i, AnInode("dir", BlockSize, FirstPtr(b)), {i, b}),
    PutOrUndo(b, Entries(NoEntries), {i, b})>> \o AddSteps(d, n, i)

begin_create(t, d, n) ==
  /\ IsDir(d) /\ ~HasName(d, n)
  /\ \E i \in FirstFree :
       Begin(t, "create", {d}, CreateSteps(d, n, i), Unless("ENOSPC", d))

begin_mkdir(t, d, n) ==
  /\ IsDir(d) /\ ~HasName(d, n)
  /\ \E i \in FirstFree : \E b \in SecondFree(i) :
       Begin(t, "mkdir", {d}, MkdirSteps(d, n, i, b), Unless("EOPNOTSUPP", d))

\* unlink and rmdir: the entry goes, and then the bits.
RemoveSteps_BitsFirst(d, p, bits) == <<ClearBits(bits), PutEntry(d, p, NoEntry), Save>>  \* changed
RemoveSteps(d, p, bits) == <<PutEntry(d, p, NoEntry), ClearBits(bits), Save>>

begin_unlink(t, d, n) ==
  \E p \in FirstMatch(d, n) :
    LET i == EntryAt(d, p).inode IN
    /\ ~IsDir(i)
    /\ Begin(t, "unlink", {d, i},
             RemoveSteps(d, p, BlocksOf(read_inode(i)) \cup {i}), "ok")

begin_rmdir(t, d, n) ==
  \E p \in FirstMatch(d, n) :
    LET i == EntryAt(d, p).inode IN
    /\ IsDir(i) /\ SeenEmpty(i)
    /\ Begin(t, "rmdir", {d, i},
             RemoveSteps(d, p, {read_inode(i).ptrs[0], i}), "ok")

RenameSteps_RemoveFirst(d, q, n) ==     \* changed: the old entry goes before the new comes
  <<PutEntry(d, q, NoEntry), PutEntry(d, q, NewEntry(EntryAt(d, q).inode, n))>>
RenameSteps(d, q, n) == <<PutEntry(d, q, NewEntry(EntryAt(d, q).inode, n))>>

begin_rename(t, d, n1, n2) ==
  \E p \in FirstMatch(d, n1) :
    /\ ~DestinationSeen(d, p, n1, n2)
    /\ \E q \in SourceEntry(d, p, n1) :
         Begin(t, "rename", {d}, RenameSteps(d, q, n2), "ok")

\* chmod and utime.
begin_setattr(t, i) == Begin(t, "setattr", {i}, <<Put(i, read_inode(i))>>, "ok")

TruncateSteps_Unsaved(i, bits) ==        \* changed: block 1 is not written
  (IF bits = {} THEN <<>> ELSE <<ClearBits(bits)>>) \o <<Put(i, Emptied(read_inode(i)))>>
TruncateSteps(i, bits) ==
  (IF bits = {} THEN <<>> ELSE <<ClearBits(bits)>>) \o <<Put(i, Emptied(read_inode(i))), Save>>

begin_truncate(t, i) ==
  /\ ~IsDir(i)
  /\ Begin(t, "truncate", {i}, TruncateSteps(i, BlocksOf(read_inode(i))), "ok")

\* The blocks of data in the order of the file, then the inode, then the map.
WriteSteps_InodeFirst(i, ino, off, len, new) ==       \* changed
  LET img == Written(i, ino, off, len)
      k == off \div BlockSize
  IN (IF new = {} THEN <<>> ELSE <<SetBits(new)>>) \o <<Put(i, img[i])>>
       \o [j \in 1 .. Cardinality(Touched(off, len)) |->
             Put(ino.ptrs[k + j - 1], img[ino.ptrs[k + j - 1]])]
       \o (IF new = {} THEN <<>> ELSE <<Save>>)
WriteSteps(i, ino, off, len, new) ==
  LET img == Written(i, ino, off, len)
      k == off \div BlockSize
  IN (IF new = {} THEN <<>> ELSE <<SetBits(new)>>)
       \o [j \in 1 .. Cardinality(Touched(off, len)) |->
             Put(ino.ptrs[k + j - 1], img[ino.ptrs[k + j - 1]])]
       \o <<Put(i, img[i])>> \o (IF new = {} THEN <<>> ELSE <<Save>>)

begin_write(t, i, off, len) ==
  LET ino == read_inode(i)
      need == NewBlocksNeeded(ino, off + len)
  IN
  /\ ~IsDir(i) /\ off <= ino.size
  /\ \/ /\ need > Cardinality(FreeBlocks) /\ FreeBlocks # {}
        /\ Begin(t, "write", {i}, <<SetBits(FreeBlocks)>>, "ENOSPC")
     \/ /\ need <= Cardinality(FreeBlocks)
        /\ \E new \in Allocations(need) :
             Begin(t, "write", {i},
                   WriteSteps(i, Extended(ino, new), off, len, {new[k] : k \in DOMAIN new}), "ok")

Call(t) ==
  \/ \E d \in Addressable, n \in Names :
       \/ begin_create(t, d, n) \/ begin_mkdir(t, d, n)
       \/ begin_unlink(t, d, n) \/ begin_rmdir(t, d, n)
       \/ \E m \in Names : begin_rename(t, d, n, m)
  \/ \E i \in Addressable :
       \/ begin_setattr(t, i) \/ begin_truncate(t, i)
       \/ \E off, len \in 0 .. MaxSize : off + len <= MaxSize /\ begin_write(t, i, off, len)

-----------------------------------------------------------------------------
(* The steps of a call *)

\* The call goes on with rest; when nothing is left it returns code.
Continue(t, rest, code) ==
  /\ todo' = [todo EXCEPT ![t] = rest]
  /\ result' = [result EXCEPT ![t] = code]
  /\ op' = [op EXCEPT ![t] = IF rest = <<>> THEN "none" ELSE @]
  /\ locks' = [locks EXCEPT ![t] = IF rest = <<>> THEN {} ELSE @]
  /\ ret' = IF rest = <<>> THEN code ELSE ret

Ready(t, whats) == todo[t] # <<>> /\ Head(todo[t]).do \in whats
Goes(t) == Continue(t, Tail(todo[t]), result[t])

\* bit_set and bit_clear change a byte, which they read and then write.
Load(t) ==
  /\ Ready(t, {"set", "clear"}) /\ mount = "ok" /\ loaded[t] = <<>>
  /\ loaded' = [loaded EXCEPT ![t] = <<bitmap>>]
  /\ UNCHANGED <<vars, todo, op, result, locks, mount, faults, risk>>

SameBytes(S) == {b \in 0 .. DiskSize - 1 : \E c \in S : b \div 8 = c \div 8}

Changed(h, map) == IF h.do = "set" THEN map \cup h.bits ELSE map \ h.bits

Store(t) ==
  /\ Ready(t, {"set", "clear"}) /\ loaded[t] # <<>>
  /\ LET h == Head(todo[t])
         bytes == SameBytes(h.bits)
     IN bitmap' = (bitmap \ bytes) \cup (Changed(h, loaded[t][1]) \cap bytes)
  /\ loaded' = [loaded EXCEPT ![t] = <<>>]
  /\ Goes(t)
  /\ UNCHANGED <<disk, map_blk, mount, faults, risk>>

\* block_write of a block, and of the bitmap.
PutBlock(t) ==
  /\ Ready(t, {"put"})
  /\ disk' = [disk EXCEPT ![Head(todo[t]).at] = Head(todo[t]).what]
  /\ Goes(t)
  /\ UNCHANGED <<map_blk, bitmap, loaded, mount, faults, risk>>

SaveBitmap(t) ==
  /\ Ready(t, {"save"}) /\ mount = "ok"
  /\ map_blk' = bitmap
  /\ Goes(t)
  /\ UNCHANGED <<disk, bitmap, loaded, mount, faults, risk>>

Fault == faults < MaxFaults /\ faults' = faults + 1

\* Where an error or a stop leaves blocks of the tree that the map does not mark:
\* a write that has written the inode of a file that grew, but not the map, and
\* a truncate that has cleared bits and could not write the inode.
Window(t) == op[t] = "write" /\ Ready(t, {"save"})
UnansweredPut(t, done) ==
  \/ op[t] = "write" /\ done /\ Len(todo[t]) = 2 /\ todo[t][2] = Save
  \/ op[t] = "truncate" /\ ~done /\ BlocksOf(read_inode(Head(todo[t]).at)) # {}

\* A block_write fails, or the block_read of the same block before it: nothing is
\* written, or (by a short write) the block up to behind what the call changes.
PutFails(t) ==
  /\ Ready(t, {"put"}) /\ Fault
  /\ LET h == Head(todo[t]) IN
     \E done \in BOOLEAN :
       /\ disk' = IF done THEN [disk EXCEPT ![h.at] = h.what] ELSE disk
       /\ risk' = (risk \/ UnansweredPut(t, done))
       /\ Continue(t, IF h.undo = {} THEN <<>> ELSE <<ClearBits(h.undo), Save>>, "EIO")
  /\ UNCHANGED <<map_blk, bitmap, loaded, mount>>

SaveFails(t) ==
  /\ Ready(t, {"save"}) /\ Fault
  /\ \E k \in 0 .. DiskSize :
       map_blk' = {b \in bitmap : b \div 8 < k} \cup {b \in map_blk : b \div 8 >= k}
  /\ risk' = (risk \/ Window(t))
  /\ Continue(t, <<>>, "EIO")
  /\ UNCHANGED <<disk, bitmap, loaded, mount>>

\* Without a bitmap there is nothing to write: write(2) answers EFAULT.
SaveNothing(t) ==
  /\ Ready(t, {"save"}) /\ mount # "ok"
  /\ Continue(t, <<>>, "EIO")
  /\ UNCHANGED <<disk, map_blk, bitmap, loaded, mount, faults, risk>>

-----------------------------------------------------------------------------
(* The process stops: it is unmounted, it is killed during a call, or a    *)
(* handler follows the null pointer bitmap after fs_init has failed.       *)
(* fs_init reports nothing, so that the file system is mounted also when   *)
(* it could not read.                                                      *)

Stop ==
  /\ mount # "down" /\ mount' = "down"
  /\ IF mount = "ok" /\ ~AllIdle THEN Fault ELSE UNCHANGED faults
  /\ risk' = (risk \/ \E t \in Threads : Window(t))
  /\ todo' = [t \in Threads |-> <<>>] /\ op' = [t \in Threads |-> "none"]
  /\ loaded' = [t \in Threads |-> <<>>] /\ locks' = [t \in Threads |-> {}]
  /\ bitmap' = map_blk
  /\ UNCHANGED <<disk, map_blk, ret, result>>

Mount ==
  /\ mount = "down" /\ mount' = "ok"
  /\ bitmap' = map_blk
  /\ UNCHANGED <<disk, map_blk, ret, todo, op, result, loaded, locks, faults, risk>>

\* Without the superblock disk_size is 0, and no loop finds a free block: the
\* bitmap then counts as full.
MountFails ==
  /\ mount = "down" /\ Fault
  /\ mount' \in {"no_map", "no_super"}
  /\ bitmap' = 0 .. DiskSize - 1
  /\ UNCHANGED <<disk, map_blk, ret, todo, op, result, loaded, locks, risk>>

\* The step is one of t's.
Acts(t) == todo'[t] # todo[t]

StepsNext ==
  /\ \/ \E t \in Threads :
          \/ Refused(t) \/ Call(t)
          \/ Load(t) \/ Store(t) \/ PutBlock(t) \/ SaveBitmap(t)
          \/ PutFails(t) \/ SaveFails(t) \/ SaveNothing(t)
     \/ Stop \/ Mount \/ MountFails
  /\ tree' = IF disk' = disk THEN tree ELSE [i \in Linked' |-> NodeOf(i)']
  /\ moved' = {t \in Threads : /\ todo'[t] # <<>>
                               /\ t \in moved \/ (Acts(t) /\ tree' # tree)}

StepsSpec == StepsInit /\ [][StepsNext]_vars_steps

-----------------------------------------------------------------------------
(* Properties.  After a fault in a place for which the code has no answer  *)
(* (risk) nothing is promised; everywhere else:                            *)

\* Used, as tree has it.
UsedNow == UNION {Held(i) : i \in DOMAIN tree}

\* At any step of any call, the map on disk marks what the tree uses: the process
\* may stop, and whatever is mounted again will not hand those blocks out.
StopIsSafe == ~risk /\ (\A t \in Threads : ~Window(t)) => UsedNow \subseteq map_blk

\* Between calls the bitmap in memory offers no block of the tree, also after
\* calls that failed half way and undid their bits, or did not.
NothingUsedIsOffered == ~risk /\ AllIdle => UsedNow \subseteq bitmap

\* The order of the writes of a call is such that the tree is sound after each.
SoundThroughout == ~risk => NoSharedBlocks /\ SingleLink /\ BlocksHoldTheirKind

\* Wherever a call stops or fails, the caller finds the tree as before the call or
\* as after it: each change of the tree is one operation of Namespace, made by one
\* block_write, and a call that has made its change makes no other.
ChangeIsWhole == ~risk' /\ tree' # tree => Abstract!Next /\ \A t \in moved : ~Acts(t)
CallsAreAtomic == [][ChangeIsWhole]_tree

\* What the call of the only thread comes to if nothing fails from here on.
After(s, h) ==
  CASE h.do \in {"set", "clear"} -> [s EXCEPT !.bitmap = Changed(h, s.bitmap)]
    [] h.do = "put" -> [s EXCEPT !.disk[h.at] = h.what]
    [] h.do = "save" -> [s EXCEPT !.map_blk = s.bitmap]
Outcome ==
  FoldLeft(After, [disk |-> disk, map_blk |-> map_blk, bitmap |-> bitmap],
           todo[CHOOSE t \in Threads : TRUE])
Answer == IF AllIdle THEN ret ELSE result[CHOOSE t \in Threads : TRUE]

Whole == INSTANCE FileSystem WITH
  disk <- Outcome.disk, map_blk <- Outcome.map_blk, bitmap <- Outcome.bitmap,
  ret <- Answer

\* The steps of a call that nothing disturbs add up to FileSystem's action: seen
\* with every begun call carried to its end, this is FileSystem.
UndisturbedCallsAreWhole ==
  [][mount = "ok" /\ mount' = "ok" /\ faults' = faults /\ <<Outcome, Answer>>' # <<Outcome, Answer>>
       => Whole!Next]_<<Outcome, Answer>>
=============================================================================
