-------------------------- MODULE FileSystemProofs --------------------------
(***************************************************************************)
(* Theorems about FileSystem, for every size of the disk, of its blocks    *)
(* and of its directories, and every set of names.                         *)
(***************************************************************************)
EXTENDS FileSystem, TLAPS

USE DEF Blocks, PtrIndex, Slots, Root, RootBlock

-----------------------------------------------------------------------------
(* Lemmas about what a block holds *)

\* Whatever block is read as an inode, the result has an inode's fields.
LEMMA ReadInodeType ==
  ASSUME disk \in [Blocks -> Content], NEW i \in Blocks
  PROVE  read_inode(i) \in InodeBlock
<1>1. CASE disk[i].kind = "inode"
  <2>1. disk[i] \in Content
    OBVIOUS
  <2>2. disk[i] \in InodeBlock
    BY <1>1, <2>1 DEF Content, InodeBlock, DirBlock, DataBlock, Zeros
  <2> QED BY <1>1, <2>2 DEF read_inode
<1>2. CASE disk[i].kind # "inode"
  <2>1. NullPtrs \in [PtrIndex -> {0} \cup Blocks]
    BY DEF NullPtrs
  <2>2. 0 \in 0 .. MaxSize
    BY DiskAssumption
  <2> QED BY <1>2, <2>1, <2>2 DEF read_inode, AnInode, InodeBlock
<1> QED BY <1>1, <1>2

\* An inode built from well-typed fields is one.
LEMMA AnInodeType ==
  ASSUME NEW t \in {"none", "file", "dir"}, NEW sz \in 0 .. MaxSize,
         NEW ps \in [PtrIndex -> {0} \cup Blocks]
  PROVE  AnInode(t, sz, ps) \in Content
BY DEF AnInode, InodeBlock, Content

\* Whatever block is read as entries, the result is an entry for every slot.
LEMMA ReadEntriesType ==
  ASSUME NEW c \in Content
  PROVE  ReadEntries(c) \in [Slots -> Entry]
<1>1. CASE c.kind = "entries"
  <2>1. c \in DirBlock
    BY <1>1 DEF Content, InodeBlock, DirBlock, DataBlock, Zeros
  <2> QED BY <1>1, <2>1 DEF ReadEntries, DirBlock
<1>2. CASE c.kind # "entries"
  BY <1>2 DEF ReadEntries, NoEntries, NoEntry, Entry
<1> QED BY <1>1, <1>2

\* Setting one entry of an image gives an image.
LEMMA SetEntryType ==
  ASSUME NEW dk \in [Blocks -> Content], NEW x, NEW k \in Slots, NEW e \in Entry
  PROVE  SetEntry(dk, x, k, e) \in [Blocks -> Content]
<1>1. ASSUME x \in Blocks
      PROVE  Entries([ReadEntries(dk[x]) EXCEPT ![k] = e]) \in Content
  <2>1. [ReadEntries(dk[x]) EXCEPT ![k] = e] \in [Slots -> Entry]
    BY <1>1, ReadEntriesType
  <2> QED BY <2>1 DEF Entries, DirBlock, Content
<1> QED BY <1>1 DEF SetEntry

\* The entry create, mkdir and rename write is an entry.
LEMMA NewEntryType ==
  ASSUME NEW i \in {0} \cup Blocks, NEW n \in Names
  PROVE  NewEntry(i, n) \in Entry
BY NameAssumption DEF NewEntry, Entry

\* Operations reach only blocks of the image.
LEMMA AddressableBlocks == Addressable \subseteq Blocks
BY DEF Addressable, Closure

\* A directory's valid entries, and its free ones, stand in slots.
LEMMA PositionSlots ==
  ASSUME NEW i, NEW p \in Positions(i)
  PROVE  p[2] \in Slots
BY DEF Positions
-----------------------------------------------------------------------------
(* Type correctness *)

DiskType == disk \in [Blocks -> Content]
MapTypes == map_blk \in SUBSET (0 .. DiskSize - 1) /\ bitmap \in SUBSET (0 .. DiskSize - 1)

\* The images gen-disk builds are images.
LEMMA InitType == Init => TypeOK
<1> SUFFICES ASSUME Init PROVE TypeOK
  OBVIOUS
<1> USE DiskAssumption
<1>1. /\ Entries(NoEntries) \in Content /\ Zeros \in Content
      /\ \A c \in Blocks : FirstPtr(c) \in [PtrIndex -> {0} \cup Blocks]
  BY DEF Entries, NoEntries, NoEntry, Entry, DirBlock, Content, Zeros, FirstPtr, NullPtrs
<1>2. AnInode("dir", BlockSize, FirstPtr(RootBlock)) \in Content
  BY <1>1, AnInodeType
<1>3. NarrowImage \in [Blocks -> Content]
  BY <1>1, <1>2 DEF NarrowImage
<1>4. ASSUME WideDir, NEW n \in Names
      PROVE  WideImage(n) \in [Blocks -> Content]
  <2>1. [FirstPtr(4) EXCEPT ![1] = 5] \in [PtrIndex -> {0} \cup Blocks]
    BY <1>1
  <2>2. 2 * BlockSize \in 0 .. MaxSize
    BY <1>4
  <2>3. AnInode("dir", 2 * BlockSize, [FirstPtr(4) EXCEPT ![1] = 5]) \in Content
    BY <2>1, <2>2, AnInodeType
  <2> DEFINE dk ==
        [NarrowImage EXCEPT
           ![3] = AnInode("dir", 2 * BlockSize, [FirstPtr(4) EXCEPT ![1] = 5]),
           ![4] = Entries(NoEntries), ![5] = Entries(NoEntries)]
  <2>4. dk \in [Blocks -> Content]
    BY <1>1, <1>3, <2>3
  <2>5. NewEntry(3, n) \in Entry /\ 0 \in Slots
    BY NewEntryType
  <2>6. WideImage(n) = SetEntry(dk, RootBlock, 0, NewEntry(3, n))
    BY DEF WideImage
  <2> HIDE DEF dk
  <2> QED BY <2>4, <2>5, <2>6, SetEntryType
<1> QED BY <1>3, <1>4 DEF Init, TypeOK, Codes

\* An allocated block is a block of the image.
LEMMA FreeTypes ==
  /\ FreeBlocks \subseteq Blocks /\ FirstFree \subseteq Blocks
  /\ \A b : SecondFree(b) \subseteq Blocks
BY DEF FreeBlocks, FirstFree, SecondFree, Least

\* The last step of create and mkdir leaves an image.
LEMMA AddEntryType ==
  ASSUME NEW dk \in [Blocks -> Content], NEW d, NEW n \in Names, NEW i \in Blocks,
         NEW full \in {"ENOSPC", "EOPNOTSUPP"}, AddEntry(dk, d, n, i, full)
  PROVE  disk' \in [Blocks -> Content] /\ ret' \in Codes
<1>1. CASE disk' = dk /\ ret' = full
  BY <1>1 DEF Codes
<1>2. CASE \E p \in FirstOf(FreeSlots(d)) :
             /\ disk' = SetEntry(dk, BlockAt(d, p), p[2], NewEntry(i, n))
             /\ ret' = "ok"
  <2>1. PICK p \in FirstOf(FreeSlots(d)) :
             /\ disk' = SetEntry(dk, BlockAt(d, p), p[2], NewEntry(i, n))
             /\ ret' = "ok"
    BY <1>2
  <2>2. p[2] \in Slots
    BY PositionSlots DEF FirstOf, FreeSlots
  <2> QED BY <2>1, <2>2, NewEntryType, SetEntryType DEF Codes
<1> QED BY <1>1, <1>2 DEF AddEntry
LEMMA FailsType == ASSUME TypeOK, NEW e \in Codes, Fails(e) PROVE TypeOK'
BY DEF TypeOK, Fails

LEMMA PathFailsType == ASSUME TypeOK, NEW d, NEW n, PathFails(d, n) PROVE TypeOK'
BY FailsType DEF PathFails, Codes

LEMMA CreateType ==
  ASSUME TypeOK, NEW d, NEW n \in Names, fs_create(d, n)
  PROVE  TypeOK'
<1>1. ASSUME NEW e \in {"ENOTDIR", "EEXIST", "ENOSPC"}, Fails(e) PROVE TypeOK'
  BY <1>1, FailsType DEF Codes
<1>2. ASSUME NEW i \in FirstFree,
             bitmap' = bitmap \cup {i}, SaveMap,
             AddEntry([disk EXCEPT ![i] = AnInode("file", 0, NullPtrs)], d, n, i, "ENOSPC")
      PROVE  TypeOK'
  <2>1. i \in Blocks
    BY <1>2, FreeTypes
  <2>2. AnInode("file", 0, NullPtrs) \in Content
    BY DiskAssumption, AnInodeType DEF NullPtrs
  <2>3. [disk EXCEPT ![i] = AnInode("file", 0, NullPtrs)] \in [Blocks -> Content]
    BY <2>2 DEF TypeOK
  <2>4. disk' \in [Blocks -> Content] /\ ret' \in Codes
    BY <1>2, <2>1, <2>3, AddEntryType
  <2> QED BY <1>2, <2>1, <2>4, DiskAssumption DEF TypeOK, SaveMap
<1> QED BY <1>1, <1>2 DEF fs_create

LEMMA MkdirType ==
  ASSUME TypeOK, NEW d, NEW n \in Names, fs_mkdir(d, n)
  PROVE  TypeOK'
<1>1. ASSUME NEW e \in {"ENOTDIR", "EEXIST", "ENOSPC"}, Fails(e) PROVE TypeOK'
  BY <1>1, FailsType DEF Codes
<1>2. ASSUME NEW i \in FirstFree, NEW b \in SecondFree(i),
             bitmap' = bitmap \cup {i, b}, SaveMap,
             AddEntry(NewDir(i, b), d, n, i, "EOPNOTSUPP")
      PROVE  TypeOK'
  <2>1. i \in Blocks /\ b \in Blocks
    BY <1>2, FreeTypes
  <2>2. FirstPtr(b) \in [PtrIndex -> {0} \cup Blocks]
    BY <2>1 DEF FirstPtr, NullPtrs
  <2>3. AnInode("dir", BlockSize, FirstPtr(b)) \in Content
    BY <2>2, DiskAssumption, AnInodeType
  <2>4. Entries(NoEntries) \in Content
    BY DEF Entries, NoEntries, NoEntry, Entry, DirBlock, Content
  <2>5. NewDir(i, b) \in [Blocks -> Content]
    BY <2>3, <2>4 DEF NewDir, TypeOK
  <2>6. disk' \in [Blocks -> Content] /\ ret' \in Codes
    BY <1>2, <2>1, <2>5, AddEntryType
  <2> QED BY <1>2, <2>1, <2>6, DiskAssumption DEF TypeOK, SaveMap
<1> QED BY <1>1, <1>2 DEF fs_mkdir

\* unlink and rmdir clear an entry of a directory.
LEMMA ClearedEntryType ==
  ASSUME TypeOK, NEW d, NEW n, NEW p \in FirstMatch(d, n)
  PROVE  ClearedEntry(d, p) \in [Blocks -> Content]
<1>1. p[2] \in Slots
  BY PositionSlots DEF FirstMatch, FirstOf, Matches, ValidAt
<1>2. NoEntry \in Entry
  BY DEF NoEntry, Entry
<1> QED BY <1>1, <1>2, SetEntryType DEF ClearedEntry, TypeOK

LEMMA UnlinkType == ASSUME TypeOK, NEW d, NEW n, fs_unlink(d, n) PROVE TypeOK'
<1>1. ASSUME Fails("EISDIR") PROVE TypeOK'
  BY <1>1, FailsType DEF Codes
<1>2. ASSUME NEW p \in FirstMatch(d, n), NEW S,
             disk' = ClearedEntry(d, p), bitmap' = bitmap \ S, SaveMap, ret' = "ok"
      PROVE  TypeOK'
  BY <1>2, ClearedEntryType DEF TypeOK, SaveMap, Codes
<1> QED BY <1>1, <1>2 DEF fs_unlink

LEMMA RmdirType == ASSUME TypeOK, NEW d, NEW n, fs_rmdir(d, n) PROVE TypeOK'
<1>1. ASSUME NEW e \in {"ENOTDIR", "ENOTEMPTY"}, Fails(e) PROVE TypeOK'
  BY <1>1, FailsType DEF Codes
<1>2. ASSUME NEW p \in FirstMatch(d, n), NEW S,
             disk' = ClearedEntry(d, p), bitmap' = bitmap \ S, SaveMap, ret' = "ok"
      PROVE  TypeOK'
  BY <1>2, ClearedEntryType DEF TypeOK, SaveMap, Codes
<1> QED BY <1>1, <1>2 DEF fs_rmdir
LEMMA RenameType ==
  ASSUME TypeOK, NEW d1, NEW n1 \in Names, NEW d2, NEW n2 \in Names,
         fs_rename(d1, n1, d2, n2)
  PROVE  TypeOK'
<1>1. ASSUME NEW e \in {"ENOENT", "EINVAL", "EEXIST"}, Fails(e) PROVE TypeOK'
  BY <1>1, FailsType DEF Codes
<1>2. ASSUME NEW p \in FirstMatch(d1, n1),
             \E q \in SourceEntry(d1, p, n1) :
               disk' = SetEntry(disk, BlockAt(d1, q), q[2],
                                NewEntry(EntryAt(d1, q).inode, n2)),
             ret' = "ok", UNCHANGED <<map_blk, bitmap>>
      PROVE  TypeOK'
  <2>1. PICK q \in SourceEntry(d1, p, n1) :
               disk' = SetEntry(disk, BlockAt(d1, q), q[2],
                                NewEntry(EntryAt(d1, q).inode, n2))
    BY <1>2
  <2>2. q[2] \in Slots
    BY PositionSlots DEF SourceEntry, Matches, ValidAt
  <2>3. CASE BlockAt(d1, q) \in Blocks
    <3>1. EntryAt(d1, q) \in Entry
      BY <2>2, <2>3, ReadEntriesType DEF EntryAt, TypeOK
    <3>2. NewEntry(EntryAt(d1, q).inode, n2) \in Entry
      BY <3>1, NewEntryType DEF Entry
    <3>3. disk' \in [Blocks -> Content]
      BY <2>1, <2>2, <3>2, SetEntryType DEF TypeOK
    <3> QED BY <1>2, <3>3 DEF TypeOK, Codes
  <2>4. CASE BlockAt(d1, q) \notin Blocks
    <3>1. disk' = disk
      BY <2>1, <2>4 DEF SetEntry, TypeOK
    <3> QED BY <1>2, <3>1 DEF TypeOK, Codes
  <2> QED BY <2>3, <2>4
<1> QED BY <1>1, <1>2 DEF fs_rename

LEMMA RewriteType == ASSUME TypeOK, NEW i \in Blocks, RewriteInode(i) PROVE TypeOK'
<1>1. read_inode(i) \in Content
  BY ReadInodeType DEF Content, TypeOK
<1> QED BY <1>1 DEF RewriteInode, TypeOK, Codes

LEMMA TruncateType ==
  ASSUME TypeOK, NEW i \in Blocks, NEW len, fs_truncate(i, len)
  PROVE  TypeOK'
<1>1. ASSUME NEW e \in {"EINVAL", "EISDIR"}, Fails(e) PROVE TypeOK'
  BY <1>1, FailsType DEF Codes
<1>2. ASSUME bitmap' = bitmap \ BlocksOf(read_inode(i)), SaveMap,
             disk' = [disk EXCEPT ![i] = Emptied(read_inode(i))], ret' = "ok"
      PROVE  TypeOK'
  <2>1. Emptied(read_inode(i)) \in InodeBlock
    <3>1. read_inode(i) \in InodeBlock
      BY ReadInodeType DEF TypeOK
    <3>2. NullPtrs \in [PtrIndex -> {0} \cup Blocks] /\ 0 \in 0 .. MaxSize
      BY DiskAssumption DEF NullPtrs
    <3> QED BY <3>1, <3>2 DEF Emptied, InodeBlock
  <2>2. disk' \in [Blocks -> Content]
    BY <1>2, <2>1 DEF Content, TypeOK
  <2> QED BY <1>2, <2>2 DEF TypeOK, SaveMap, Codes
<1> QED BY <1>1, <1>2 DEF fs_truncate

\* The inode a write leaves: its new pointers are blocks, its size in bounds.
LEMMA WrittenType ==
  ASSUME TypeOK, NEW i \in Blocks, NEW off \in 0 .. MaxSize, NEW len \in 0 .. MaxSize,
         off + len <= MaxSize, NEW n \in Nat, NEW new \in [0 .. n - 1 -> FreeBlocks]
  PROVE  Written(i, Extended(read_inode(i), new), off, len) \in [Blocks -> Content]
<1> DEFINE ino == read_inode(i)
           c == CeilDiv(ino.size)
           ps == [k \in PtrIndex |-> IF k - c \in DOMAIN new THEN new[k - c] ELSE ino.ptrs[k]]
           ext == [ino EXCEPT !.ptrs = ps]
           end == [ext EXCEPT !.size = NewSize(ext, off, len)]
<1>1. ino \in InodeBlock
  BY ReadInodeType DEF TypeOK
<1>2. ps \in [PtrIndex -> {0} \cup Blocks]
  BY <1>1, FreeTypes DEF InodeBlock
<1>3. ext \in InodeBlock
  BY <1>1, <1>2 DEF InodeBlock
<1> HIDE DEF ext
<1>4. NewSize(ext, off, len) \in 0 .. MaxSize
  BY <1>3 DEF NewSize, InodeBlock
<1>5. end \in InodeBlock
  BY <1>3, <1>4 DEF InodeBlock
<1> DEFINE data == {ext.ptrs[k] : k \in Touched(off, len)}
           filled == [b \in Blocks |-> IF b \in data THEN Data(i) ELSE disk[b]]
<1>6. filled \in [Blocks -> Content]
  BY DEF Data, DataBlock, Content, TypeOK
<1>7. Extended(ino, new) = ext
  BY DEF Extended, ext
<1>8. Written(i, ext, off, len) = [filled EXCEPT ![i] = end]
  BY DEF Written
<1> HIDE DEF filled, end, ino
<1>9. [filled EXCEPT ![i] = end] \in [Blocks -> Content]
  BY <1>5, <1>6 DEF Content
<1> QED BY <1>7, <1>8, <1>9 DEF ino

LEMMA WriteType ==
  ASSUME TypeOK, NEW i \in Blocks, NEW off \in 0 .. MaxSize, NEW len \in 0 .. MaxSize,
         off + len <= MaxSize, fs_write(i, off, len)
  PROVE  TypeOK'
<1> DEFINE ino == read_inode(i)
           need == NewBlocksNeeded(ino, off + len)
<1>1. ASSUME NEW e \in {"EISDIR", "EINVAL"}, Fails(e) PROVE TypeOK'
  BY <1>1, FailsType DEF Codes
<1>2. ASSUME bitmap' = bitmap \cup Blocks, ret' = "ENOSPC", UNCHANGED <<disk, map_blk>>
      PROVE  TypeOK'
  BY <1>2, DiskAssumption DEF TypeOK, Codes
<1>3. ASSUME NEW new \in Allocations(need),
             bitmap' = bitmap \cup {new[k] : k \in 0 .. need - 1},
             disk' = Written(i, Extended(ino, new), off, len),
             map_blk' = MapAfterWrite(need), ret' = "ok"
      PROVE  TypeOK'
  <2>1. need \in Nat
    <3>1. ino.size \in Nat /\ off + len \in Nat
      BY ReadInodeType, DiskAssumption DEF InodeBlock, TypeOK
    <3>2. CeilDiv(off + len) \in Int /\ CeilDiv(ino.size) \in Int
      BY <3>1, DiskAssumption DEF CeilDiv
    <3> QED BY <3>2, DiskAssumption DEF NewBlocksNeeded
  <2>2. new \in [0 .. need - 1 -> FreeBlocks]
    BY DEF Allocations
  <2> HIDE DEF need, ino
  <2>3. disk' \in [Blocks -> Content]
    BY <1>3, <2>1, <2>2, WrittenType DEF ino
  <2>4. {new[k] : k \in 0 .. need - 1} \subseteq 0 .. DiskSize - 1
    <3>1. \A k \in 0 .. need - 1 : new[k] \in Blocks
      BY <2>2, FreeTypes
    <3>2. Blocks \subseteq 0 .. DiskSize - 1
      BY DiskAssumption
    <3> QED BY <3>1, <3>2
  <2> QED BY <1>3, <2>3, <2>4 DEF TypeOK, MapAfterWrite, Codes
<1> QED BY <1>1, <1>2, <1>3 DEF fs_write

LEMMA NextType == TypeOK /\ [Next]_vars => TypeOK'
<1> SUFFICES ASSUME TypeOK, [Next]_vars PROVE TypeOK'
  OBVIOUS
<1>1. CASE UNCHANGED vars
  BY <1>1 DEF vars, TypeOK
<1>2. CASE fs_init
  BY <1>2 DEF fs_init, TypeOK, Codes
<1>3. ASSUME NEW d \in Addressable, NEW n \in Names,
             PathFails(d, n) \/ fs_create(d, n) \/ fs_mkdir(d, n)
             \/ fs_unlink(d, n) \/ fs_rmdir(d, n)
      PROVE  TypeOK'
  BY <1>3, PathFailsType, CreateType, MkdirType, UnlinkType, RmdirType
<1>4. ASSUME NEW d \in Addressable, NEW n \in Names, NEW e \in Addressable, NEW m \in Names,
             fs_rename(d, n, e, m)
      PROVE  TypeOK'
  BY <1>4, RenameType
<1>5. ASSUME NEW i \in Addressable, fs_chmod(i) \/ fs_utime(i) PROVE TypeOK'
  BY <1>5, AddressableBlocks, RewriteType DEF fs_chmod, fs_utime
<1>6. ASSUME NEW i \in Addressable, NEW len \in 0 .. MaxSize, fs_truncate(i, len)
      PROVE  TypeOK'
  BY <1>6, AddressableBlocks, TruncateType
<1>7. ASSUME NEW i \in Addressable, NEW off \in 0 .. MaxSize, NEW len \in 0 .. MaxSize,
             off + len <= MaxSize, fs_write(i, off, len)
      PROVE  TypeOK'
  BY <1>7, AddressableBlocks, WriteType
<1> QED BY <1>1, <1>2, <1>3, <1>4, <1>5, <1>6, <1>7 DEF Next

\* Every block of the image always holds an inode, entries, a file's bytes or
\* zeros, with pointers into the image, sizes in bounds and names of the caller's.
THEOREM TypeCorrect == Spec => []TypeOK
BY InitType, NextType, PTL DEF Spec

-----------------------------------------------------------------------------
(* The bitmap in memory and block 1 *)

LEMMA NextSaved == SavedBitsAreSet /\ [Next]_vars => SavedBitsAreSet'
<1> SUFFICES ASSUME SavedBitsAreSet, [Next]_vars PROVE SavedBitsAreSet'
  OBVIOUS
<1>1. ASSUME map_blk' = bitmap' PROVE SavedBitsAreSet'
  BY <1>1 DEF SavedBitsAreSet
<1>2. ASSUME map_blk' = map_blk, bitmap \subseteq bitmap' PROVE SavedBitsAreSet'
  BY <1>2 DEF SavedBitsAreSet
<1>3. CASE UNCHANGED vars
  BY <1>2, <1>3 DEF vars
<1>4. CASE fs_init
  BY <1>1, <1>4 DEF fs_init
<1>5. ASSUME NEW d, NEW n, PathFails(d, n) PROVE SavedBitsAreSet'
  BY <1>2, <1>5 DEF PathFails, Fails
<1>6. ASSUME NEW d, NEW n,
             fs_create(d, n) \/ fs_mkdir(d, n) \/ fs_unlink(d, n) \/ fs_rmdir(d, n)
      PROVE  SavedBitsAreSet'
  BY <1>1, <1>2, <1>6 DEF fs_create, fs_mkdir, fs_unlink, fs_rmdir, Fails, SaveMap
<1>7. ASSUME NEW d, NEW n, NEW e, NEW m, fs_rename(d, n, e, m) PROVE SavedBitsAreSet'
  BY <1>2, <1>7 DEF fs_rename, Fails
<1>8. ASSUME NEW i, NEW len, fs_chmod(i) \/ fs_utime(i) \/ fs_truncate(i, len)
      PROVE  SavedBitsAreSet'
  BY <1>1, <1>2, <1>8 DEF fs_chmod, fs_utime, RewriteInode, fs_truncate, Fails, SaveMap
<1>9. ASSUME NEW i, NEW off, NEW len, fs_write(i, off, len) PROVE SavedBitsAreSet'
  BY <1>1, <1>2, <1>9 DEF fs_write, Fails, MapAfterWrite
<1> QED BY <1>3, <1>4, <1>5, <1>6, <1>7, <1>8, <1>9 DEF Next

\* The copy of block 1 in memory never offers a block the disk has marked.
THEOREM SavedBitsAlwaysSet == Spec => []SavedBitsAreSet
<1>1. Init => SavedBitsAreSet
  BY DEF Init, SavedBitsAreSet
<1> QED BY <1>1, NextSaved, PTL DEF Spec
=============================================================================
