----------------------------- MODULE FileSystem -----------------------------
(***************************************************************************)
(* The file system of homework.c with one action per FUSE operation: a     *)
(* handler runs from its first line to its return without being disturbed, *)
(* which is how the unit tests and a single-threaded mount call it, and no *)
(* block_read or block_write fails.                                        *)
(*                                                                         *)
(* A path is abstracted to the pair (parent inode, last name) the handler  *)
(* gets from translate and resolve_path; a path that stops earlier is      *)
(* NoSuchPath.  File contents are abstracted to the file a data block was  *)
(* written through; the permission bits, uid, gid and the times are left   *)
(* out.  Paths are not "/" where a last name is needed: the kernel answers *)
(* those calls itself.                                                     *)
(*                                                                         *)
(* A definition marked "changed" is a slip such code invites; nothing uses *)
(* it, and TLC shows that the properties below would notice it.            *)
(***************************************************************************)
EXTENDS Integers, FiniteSets

CONSTANTS
  DiskSize,    \* superblock.disk_size: blocks in the image
  BlockSize,   \* FS_BLOCK_SIZE, in the units file sizes are counted in
  NPtrs,       \* entries of fs_inode.ptrs
  DirSlots,    \* struct fs_dirent entries in a block
  UInt32,      \* the modulus of uint32_t
  MaxSize,     \* bound: no write ends beyond this size, no size exceeds it
  Names,       \* names a caller uses as the last component of a path
  NoName,      \* the name of an entry that is not valid
  Stored,      \* Stored[n]: what strncpy keeps of the name n
  WideDir      \* does the image hold a directory of two blocks (disk1.in)?

Root == 2                          \* path lookup begins at inode 2
RootBlock == DiskSize - 1          \* where gen-disk puts the root's entries
Blocks == 2 .. DiskSize - 1        \* what the allocator may hand out
PtrIndex == 0 .. NPtrs - 1
Slots == 0 .. DirSlots - 1

ASSUME DiskAssumption ==
  /\ DiskSize \in Nat /\ DiskSize >= 7
  /\ BlockSize \in Nat \ {0} /\ DirSlots \in Nat \ {0}
  /\ NPtrs \in Nat /\ NPtrs >= DiskSize      \* 1019 pointers, 400 blocks
  /\ MaxSize \in Nat /\ BlockSize <= MaxSize /\ MaxSize <= NPtrs * BlockSize
  /\ UInt32 \in Nat /\ UInt32 > DiskSize + MaxSize
  /\ WideDir \in BOOLEAN /\ (WideDir => MaxSize >= 2 * BlockSize)

ASSUME NameAssumption ==
  /\ Names # {} /\ NoName \notin Names
  /\ Stored \in [Names -> Names]
  /\ \A n \in Names : Stored[Stored[n]] = Stored[n]

VARIABLES
  disk,      \* what each block of the image holds
  map_blk,   \* block 1 of the image: the blocks it marks as used
  bitmap,    \* the copy of block 1 in memory, which the allocator scans
  ret        \* what the last operation returned

vars == <<disk, map_blk, bitmap, ret>>

-----------------------------------------------------------------------------
(* What a block holds *)

Entry == [inode : {0} \cup Blocks, name : Names \cup {NoName}]
NoEntry == [inode |-> 0, name |-> NoName]            \* valid = 0
NoEntries == [s \in Slots |-> NoEntry]

NullPtrs == [k \in PtrIndex |-> 0]
FirstPtr(b) == [NullPtrs EXCEPT ![0] = b]

InodeBlock == [kind : {"inode"}, type : {"none", "file", "dir"},
               size : 0 .. MaxSize, ptrs : [PtrIndex -> {0} \cup Blocks]]
DirBlock == [kind : {"entries"}, ent : [Slots -> Entry]]
DataBlock == [kind : {"data"}, of : Blocks]
Zeros == [kind |-> "zeros"]
Content == InodeBlock \cup DirBlock \cup DataBlock \cup {Zeros}

AnInode(t, sz, ps) == [kind |-> "inode", type |-> t, size |-> sz, ptrs |-> ps]
Entries(es) == [kind |-> "entries", ent |-> es]
Data(i) == [kind |-> "data", of |-> i]

Codes == {"ok", "ENOENT", "ENOTDIR", "EISDIR", "EEXIST", "ENOTEMPTY",
          "EINVAL", "ENOSPC", "EOPNOTSUPP", "EIO"}

TypeOK ==
  /\ disk \in [Blocks -> Content]
  /\ map_blk \in SUBSET (0 .. DiskSize - 1)
  /\ bitmap \in SUBSET (0 .. DiskSize - 1)
  /\ ret \in Codes

-----------------------------------------------------------------------------
(* Reading blocks.  Any block can be read as an inode or as entries: one   *)
(* of another kind reads as an inode of no type, or as no valid entry.     *)

read_inode(i) ==
  IF disk[i].kind = "inode" THEN disk[i] ELSE AnInode("none", 0, NullPtrs)

IsDir(i) == read_inode(i).type = "dir"
ReadEntries(c) == IF c.kind = "entries" THEN c.ent ELSE NoEntries
Valid(e) == e.inode # 0

\* The position <<j, k>> is slot k of a directory's j-th block.
Positions(i) == (0 .. (read_inode(i).size \div BlockSize) - 1) \X Slots
BlockAt(i, p) == read_inode(i).ptrs[p[1]]
EntryAt(i, p) == ReadEntries(disk[BlockAt(i, p)])[p[2]]
Before(p, q) == p[1] < q[1] \/ (p[1] = q[1] /\ p[2] < q[2])

\* The first of a set of positions in scan order: one element, or none.
FirstOf(S) == {p \in S : \A q \in S : ~Before(q, p)}

ValidAt(i) == {p \in Positions(i) : Valid(EntryAt(i, p))}
Matches(i, n) == {p \in ValidAt(i) : EntryAt(i, p).name = n}
FreeSlots(i) == Positions(i) \ ValidAt(i)
FirstMatch(i, n) == IF IsDir(i) THEN FirstOf(Matches(i, n)) ELSE {}

CeilDiv(n) == (n + BlockSize - 1) \div BlockSize
BlocksOf_RoundedDown(ino) ==             \* changed: a partial block is missed
  {ino.ptrs[k] : k \in 0 .. (ino.size \div BlockSize) - 1} \ {0}
BlocksOf(ino) == {ino.ptrs[k] : k \in 0 .. CeilDiv(ino.size) - 1} \ {0}

-----------------------------------------------------------------------------
(* The tree.  An inode is linked when entries lead to it from the root,    *)
(* and addressable when some path names it: translate takes the first of   *)
(* two entries with the same name.                                         *)

LinkedChildren(i) ==
  IF IsDir(i) THEN {EntryAt(i, p).inode : p \in ValidAt(i)} ELSE {}
NamedChildren(i) ==
  UNION {{EntryAt(i, p).inode : p \in FirstMatch(i, n)} : n \in Names}

\* The least set of blocks that holds the root and what edges lead to from it.
Closed(S, edges) == Root \in S /\ \A e \in edges : e[1] \in S => e[2] \in S
Closure(edges) ==
  {b \in Blocks : \A S \in SUBSET Blocks : Closed(S, edges) => b \in S}

Links == UNION {{i} \X LinkedChildren(i) : i \in Blocks}
NamedLinks == UNION {{i} \X NamedChildren(i) : i \in Blocks}

\* (Binding the edges to a variable makes TLC compute them once.)
Linked == UNION {Closure(edges) : edges \in {Links}}
Addressable == UNION {Closure(edges) : edges \in {NamedLinks}}

-----------------------------------------------------------------------------
(* Allocation: the lowest clear bit from 2 on. *)

FreeBlocks == Blocks \ bitmap
Least(S) == {b \in S : \A c \in S : b <= c}          \* one element, or none
FirstFree == Least(FreeBlocks)
SecondFree_Same(b) == Least(FreeBlocks)  \* changed: the first block is found again
SecondFree(b) == Least(FreeBlocks \ {b})

\* The n lowest free blocks in increasing order (n at most their number).
Allocations(n) ==
  {new \in [0 .. n - 1 -> FreeBlocks] :
     /\ \A h, k \in 0 .. n - 1 : h < k => new[h] < new[k]
     /\ \A b \in FreeBlocks : \A k \in 0 .. n - 1 :
          b < new[k] => \E h \in 0 .. k - 1 : new[h] = b}

-----------------------------------------------------------------------------
(* The initial image, as gen-disk.py builds it: a root of one block, and   *)
(* with WideDir a directory of two blocks in it, like /dir2 of disk1.in.   *)

SetEntry(dk, x, k, e) ==
  [dk EXCEPT ![x] = Entries([ReadEntries(@) EXCEPT ![k] = e])]
NewEntry(i, n) == [inode |-> i, name |-> Stored[n]]

NarrowImage ==
  [b \in Blocks |->
     CASE b = Root      -> AnInode("dir", BlockSize, FirstPtr(RootBlock))
       [] b = RootBlock -> Entries(NoEntries)
       [] OTHER         -> Zeros]

WideImage(n) ==
  SetEntry([NarrowImage EXCEPT
              ![3] = AnInode("dir", 2 * BlockSize, [FirstPtr(4) EXCEPT ![1] = 5]),
              ![4] = Entries(NoEntries),
              ![5] = Entries(NoEntries)],
           RootBlock, 0, NewEntry(3, n))

Init ==
  /\ IF WideDir
     THEN /\ \E n \in Names : disk = WideImage(n)
          /\ map_blk = {0, 1, Root, 3, 4, 5, RootBlock}
     ELSE /\ disk = NarrowImage
          /\ map_blk = {0, 1, Root, RootBlock}
  /\ bitmap = map_blk
  /\ ret = "ok"

-----------------------------------------------------------------------------
(* The handlers *)

Fails(e) == ret' = e /\ UNCHANGED <<disk, map_blk, bitmap>>

\* translate stops at the name n below d: any operation then returns its error.
PathFails(d, n) ==
  \/ ~IsDir(d) /\ Fails("ENOTDIR")
  \/ IsDir(d) /\ FirstMatch(d, n) = {} /\ Fails("ENOENT")

HasName_ShortScan(d, n) ==               \* changed: the last slot is not compared
  \E p \in ValidAt(d) : EntryAt(d, p).name = n /\ p[2] < DirSlots - 1
HasName(d, n) == \E p \in ValidAt(d) : EntryAt(d, p).name = n

\* dk is the image the handler has written so far; the entry goes to the first
\* free slot, and a full directory is answered after everything else is done.
AddEntry(dk, d, n, i, full) ==
  \/ /\ FreeSlots(d) = {}
     /\ disk' = dk /\ ret' = full
  \/ \E p \in FirstOf(FreeSlots(d)) :
       /\ disk' = SetEntry(dk, BlockAt(d, p), p[2], NewEntry(i, n))
       /\ ret' = "ok"

SaveMap_Early == map_blk' = bitmap         \* changed: written before the bits change
SaveMap == map_blk' = bitmap'

fs_create(d, n) ==
  \/ ~IsDir(d) /\ Fails("ENOTDIR")
  \/ IsDir(d) /\ HasName(d, n) /\ Fails("EEXIST")
  \/ IsDir(d) /\ ~HasName(d, n) /\ FirstFree = {} /\ Fails("ENOSPC")
  \/ /\ IsDir(d) /\ ~HasName(d, n)
     /\ \E i \in FirstFree :
          /\ bitmap' = bitmap \cup {i} /\ SaveMap
          /\ AddEntry([disk EXCEPT ![i] = AnInode("file", 0, NullPtrs)],
                      d, n, i, "ENOSPC")

NewDir(i, b) ==
  [disk EXCEPT ![i] = AnInode("dir", BlockSize, FirstPtr(b)),
               ![b] = Entries(NoEntries)]

fs_mkdir(d, n) ==
  \/ ~IsDir(d) /\ Fails("ENOTDIR")
  \/ IsDir(d) /\ HasName(d, n) /\ Fails("EEXIST")
  \/ IsDir(d) /\ ~HasName(d, n) /\ Cardinality(FreeBlocks) < 2 /\ Fails("ENOSPC")
  \/ /\ IsDir(d) /\ ~HasName(d, n)
     /\ \E i \in FirstFree : \E b \in SecondFree(i) :
          /\ bitmap' = bitmap \cup {i, b} /\ SaveMap
          /\ AddEntry(NewDir(i, b), d, n, i, "EOPNOTSUPP")

ClearedEntry_Kept(d, p) == disk            \* changed: the entry stays valid
ClearedEntry(d, p) == SetEntry(disk, BlockAt(d, p), p[2], NoEntry)

fs_unlink(d, n) ==
  \E p \in FirstMatch(d, n) :
    LET i == EntryAt(d, p).inode IN
    \/ IsDir(i) /\ Fails("EISDIR")
    \/ /\ ~IsDir(i)
       /\ disk' = ClearedEntry(d, p)
       /\ bitmap' = bitmap \ (BlocksOf(read_inode(i)) \cup {i}) /\ SaveMap
       /\ ret' = "ok"

\* "directory will have only one block": no other is scanned, or freed.
SeenEmpty_ShortScan(i) ==                \* changed: the last slot is not looked at
  \A k \in Slots \ {DirSlots - 1} : ~Valid(EntryAt(i, <<0, k>>))
SeenEmpty(i) == \A k \in Slots : ~Valid(EntryAt(i, <<0, k>>))

fs_rmdir(d, n) ==
  \E p \in FirstMatch(d, n) :
    LET i == EntryAt(d, p).inode IN
    \/ ~IsDir(i) /\ Fails("ENOTDIR")
    \/ IsDir(i) /\ ~SeenEmpty(i) /\ Fails("ENOTEMPTY")
    \/ /\ IsDir(i) /\ SeenEmpty(i)
       /\ disk' = ClearedEntry(d, p)
       /\ bitmap' = bitmap \ {read_inode(i).ptrs[0], i} /\ SaveMap
       /\ ret' = "ok"

\* The scan keeps the last source entry of the first block that has one, and
\* has then seen the destination only in that block or an earlier one.
SourceEntry(d, p, n) ==
  {q \in Matches(d, n) : q[1] = p[1] /\ \A r \in Matches(d, n) : r[1] = q[1] => r[2] <= q[2]}
DestinationSeen(d, p, n1, n2) == n1 # n2 /\ \E q \in Matches(d, n2) : q[1] <= p[1]

fs_rename(d1, n1, d2, n2) ==
  \/ FirstMatch(d1, n1) = {} /\ Fails("ENOENT")
  \/ FirstMatch(d1, n1) # {} /\ d1 # d2 /\ Fails("EINVAL")
  \/ /\ d1 = d2
     /\ \E p \in FirstMatch(d1, n1) :
          \/ DestinationSeen(d1, p, n1, n2) /\ Fails("EEXIST")
          \/ /\ ~DestinationSeen(d1, p, n1, n2)
             /\ \E q \in SourceEntry(d1, p, n1) :
                  disk' = SetEntry(disk, BlockAt(d1, q), q[2],
                                   NewEntry(EntryAt(d1, q).inode, n2))
             /\ ret' = "ok" /\ UNCHANGED <<map_blk, bitmap>>

\* chmod and utime write the inode back as they read it, attributes aside.
RewriteInode(i) ==
  /\ disk' = [disk EXCEPT ![i] = read_inode(i)]
  /\ ret' = "ok" /\ UNCHANGED <<map_blk, bitmap>>
fs_chmod(i) == RewriteInode(i)
fs_utime(i) == RewriteInode(i)

Emptied_KeepsSize(ino) == [ino EXCEPT !.ptrs = NullPtrs]   \* changed: size stays
Emptied(ino) == [ino EXCEPT !.size = 0, !.ptrs = NullPtrs]

fs_truncate(i, len) ==
  \/ len # 0 /\ Fails("EINVAL")
  \/ len = 0 /\ IsDir(i) /\ Fails("EISDIR")
  \/ /\ len = 0 /\ ~IsDir(i)
     /\ bitmap' = bitmap \ BlocksOf(read_inode(i)) /\ SaveMap
     /\ disk' = [disk EXCEPT ![i] = Emptied(read_inode(i))]
     /\ ret' = "ok"

\* fs_write.  The subtraction is of two uint32_t: writing into the middle of a
\* file asks for almost 2^32 blocks, and the loop then stops on a full bitmap.
NewBlocksNeeded(ino, end) == (CeilDiv(end) - CeilDiv(ino.size)) % UInt32
NewSize_Sum(ino, off, len) == ino.size + len     \* changed: as if it always appended
NewSize(ino, off, len) == IF off + len > ino.size THEN off + len ELSE ino.size
Touched(off, len) ==
  IF len = 0 THEN {} ELSE off \div BlockSize .. (off + len - 1) \div BlockSize

\* The allocated blocks go behind the ones the file has.
Extended(ino, new) ==
  LET c == CeilDiv(ino.size)
  IN [ino EXCEPT !.ptrs = [k \in PtrIndex |->
        IF k - c \in DOMAIN new THEN new[k - c] ELSE ino.ptrs[k]]]

Written(i, ino, off, len) ==
  LET data == {ino.ptrs[k] : k \in Touched(off, len)}
      filled == [b \in Blocks |-> IF b \in data THEN Data(i) ELSE disk[b]]
  IN [filled EXCEPT ![i] = [ino EXCEPT !.size = NewSize(ino, off, len)]]

\* Saved only when the file has grown by a block.
MapAfterWrite_Never(new) == map_blk              \* changed: block 1 is not written
MapAfterWrite(new) == IF new = 0 THEN map_blk ELSE bitmap'

fs_write(i, off, len) ==
  LET ino == read_inode(i)
      need == NewBlocksNeeded(ino, off + len)
  IN
  \/ IsDir(i) /\ Fails("EISDIR")
  \/ ~IsDir(i) /\ off > ino.size /\ Fails("EINVAL")
  \/ /\ ~IsDir(i) /\ off <= ino.size
     /\ need > Cardinality(FreeBlocks)
     /\ bitmap' = bitmap \cup Blocks                \* the bits stay set
     /\ ret' = "ENOSPC" /\ UNCHANGED <<disk, map_blk>>
  \/ /\ ~IsDir(i) /\ off <= ino.size
     /\ need <= Cardinality(FreeBlocks)
     /\ \E new \in Allocations(need) :
          /\ bitmap' = bitmap \cup {new[k] : k \in 0 .. need - 1}
          /\ disk' = Written(i, Extended(ino, new), off, len)
     /\ map_blk' = MapAfterWrite(need)
     /\ ret' = "ok"

\* The file system is mounted again: everything in memory is read from block 1.
fs_init == bitmap' = map_blk /\ ret' = "ok" /\ UNCHANGED <<disk, map_blk>>

\* What getattr reports of an inode, and readdir of each entry of a directory.
setstat(ino) == [type |-> ino.type, size |-> ino.size, blocks |-> CeilDiv(ino.size)]
fs_getattr(i) == setstat(read_inode(i))
fs_readdir(d) ==
  [p \in ValidAt(d) |->
     [name |-> EntryAt(d, p).name, stat |-> fs_getattr(EntryAt(d, p).inode)]]

Next ==
  \/ fs_init
  \/ \E d \in Addressable, n \in Names :
       \/ PathFails(d, n) \/ fs_create(d, n) \/ fs_mkdir(d, n)
       \/ fs_unlink(d, n) \/ fs_rmdir(d, n)
       \/ \E e \in Addressable, m \in Names : fs_rename(d, n, e, m)
  \/ \E i \in Addressable :
       \/ fs_chmod(i) \/ fs_utime(i)
       \/ \E len \in 0 .. MaxSize : fs_truncate(i, len)
       \/ \E off, len \in 0 .. MaxSize : off + len <= MaxSize /\ fs_write(i, off, len)

Spec == Init /\ [][Next]_vars

-----------------------------------------------------------------------------
(* Properties *)

LinkedFiles == {i \in Linked : read_inode(i).type = "file"}
LinkedDirs == {i \in Linked : IsDir(i)}
Held(i) == {i} \cup BlocksOf(read_inode(i))
Used == UNION {Held(i) : i \in Linked}
EntriesTo(i) ==
  UNION {{d} \X {p \in ValidAt(d) : EntryAt(d, p).inode = i} : d \in LinkedDirs}

\* The bitmap on disk marks every block the tree uses: after a remount at any
\* time the allocator cannot hand out a block of a file or directory.
ReferencedIsMarkedOnDisk == Used \subseteq map_blk

\* A bit is set in memory before it is set on disk and cleared there no later:
\* the copy in memory never offers a block that the disk has marked.
SavedBitsAreSet == map_blk \subseteq bitmap

\* No block belongs to two inodes of the tree, or twice to one, or is another.
NoSharedBlocks ==
  /\ \A i, j \in Linked : i # j => Held(i) \cap Held(j) = {}
  /\ \A i \in Linked :
       LET ino == read_inode(i) IN
       \A h, k \in 0 .. CeilDiv(ino.size) - 1 :
         ino.ptrs[h] # i /\ (ino.ptrs[h] = ino.ptrs[k] => h = k)

\* The directories form a tree: one entry leads to each inode but the root.
SingleLink ==
  /\ EntriesTo(Root) = {}
  /\ \A i \in Linked \ {Root} : Cardinality(EntriesTo(i)) = 1

\* What a linked inode points to was written as that: a directory's blocks hold
\* entries, a file's blocks hold bytes written to this file, none is missing.
BlocksHoldTheirKind ==
  /\ LinkedFiles \cup LinkedDirs = Linked
  /\ \A d \in LinkedDirs : \A b \in BlocksOf(read_inode(d)) : disk[b].kind = "entries"
  /\ \A f \in LinkedFiles :
       LET ino == read_inode(f) IN
       \A k \in PtrIndex :
         IF k < CeilDiv(ino.size) THEN ino.ptrs[k] # 0 /\ disk[ino.ptrs[k]] = Data(f)
         ELSE ino.ptrs[k] = 0

\* No directory has two entries of one name (EEXIST of create, mkdir, rename).
NamesUnique ==
  \A d \in LinkedDirs : \A p, q \in ValidAt(d) :
    p # q => EntryAt(d, p).name # EntryAt(d, q).name

\* What readdir lists can be used: each name it gives leads, by the walk of
\* translate, to an inode with the attributes listed, and st_blocks counts the
\* blocks that inode holds.
ListingsAreTrue ==
  \A d \in LinkedDirs : \A p \in ValidAt(d) :
    LET listed == fs_readdir(d)[p] IN
    \E q \in FirstMatch(d, listed.name) :
      LET i == EntryAt(d, q).inode IN
      /\ listed.stat = fs_getattr(i)
      /\ listed.stat.blocks = Cardinality(BlocksOf(read_inode(i)))

\* A directory that leaves the tree had no entry (ENOTEMPTY of rmdir).
RemovedDirsWereEmpty == [][\A d \in LinkedDirs : d \in Linked' \/ ValidAt(d) = {}]_vars

\* Writing inside a file takes no new block, so it does not fail (the code means
\* to ask for 0 blocks where the new end lies below the file's).
OverwritingSucceeds ==
  [][\A i \in LinkedFiles : \A off, len \in 0 .. MaxSize :
       off + len <= read_inode(i).size /\ fs_write(i, off, len) => ret' = "ok"]_vars

\* Only a failing call loses blocks: what a call that succeeds leaves marked is
\* used by the tree, or was lost before.
Lost == (bitmap \ {0, 1}) \ Used
SuccessLosesNothing == [][ret' = "ok" => Lost' \subseteq Lost]_vars
=============================================================================
