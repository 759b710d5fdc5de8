------------------------ MODULE FileSystemIntegrity -------------------------
(***************************************************************************)
(* The disk stays consistent: what the tree uses is marked on disk, has    *)
(* one owner, and is what its pointer says, for images of every size.      *)
(*                                                                         *)
(* The invariants speak of Linked, the least set closed under the entries  *)
(* on disk, and computing how a call changes a least set is awkward.  The  *)
(* inductive invariant says instead that some set that contains the root   *)
(* and is closed under entries is sound.  A step gives the next such set:  *)
(* with the new inode, or without the removed one.  Linked lies in every   *)
(* closed set, so what is sound for the set is sound for Linked.           *)
(***************************************************************************)
EXTENDS FileSystemProofs, FiniteSetTheorems

USE DEF Blocks, PtrIndex, Slots, Root, RootBlock

BlockCount(i) == CeilDiv(read_inode(i).size)
PtrAt(i, k) == read_inode(i).ptrs[k]
Indices(i) == 0 .. BlockCount(i) - 1

OwnBlocks(i) ==
  \A k \in Indices(i) :
    /\ PtrAt(i, k) \in Blocks /\ PtrAt(i, k) # i
    /\ \A h \in Indices(i) : PtrAt(i, h) = PtrAt(i, k) => h = k

RightKind(i) ==
  IF IsDir(i)
  THEN 0 \in Indices(i) /\ \A k \in Indices(i) : disk[PtrAt(i, k)].kind = "entries"
  ELSE \A k \in PtrIndex :
         IF k < BlockCount(i) THEN disk[PtrAt(i, k)] = Data(i) ELSE PtrAt(i, k) = 0

WellFormed(i) ==
  /\ disk[i].kind = "inode" /\ read_inode(i).type \in {"file", "dir"}
  /\ OwnBlocks(i) /\ RightKind(i)

Rooted(S) == S \subseteq Blocks /\ Root \in S /\ IsDir(Root)
Marked(S) == \A i \in S : Held(i) \subseteq map_blk
Disjoint(S) == \A i, j \in S : i # j => Held(i) \cap Held(j) = {}
EntriesStay(S) ==
  \A i \in S : IsDir(i) => \A p \in ValidAt(i) :
    EntryAt(i, p).inode \in S /\ EntryAt(i, p).inode # Root
OneEntryEach(S) ==
  \A i, j \in S : IsDir(i) /\ IsDir(j) =>
    \A p \in ValidAt(i), q \in ValidAt(j) :
      EntryAt(i, p).inode = EntryAt(j, q).inode => i = j /\ p = q

\* Shape is about the disk alone, and Marked about what the map says of it.
Shape(S) ==
  /\ Rooted(S) /\ (\A i \in S : WellFormed(i))
  /\ Disjoint(S) /\ EntriesStay(S) /\ OneEntryEach(S)
Sound(S) == Shape(S) /\ Marked(S)

Integrity == TypeOK /\ SavedBitsAreSet /\ \E S \in SUBSET Blocks : Sound(S)

-----------------------------------------------------------------------------
(* What a call does to a sound set: it leaves it alone, changes one file,  *)
(* or writes one entry of one directory, by which an inode joins the set,  *)
(* leaves it, or gets another name.                                        *)

SameNode(i) ==
  /\ WellFormed(i)' /\ read_inode(i)' = read_inode(i)
  /\ IsDir(i) => \A p \in Positions(i) : EntryAt(i, p)' = EntryAt(i, p)

Kept(S) ==
  /\ Sound(S)' /\ \A i \in S : SameNode(i)
  /\ ret' = "ok" => bitmap' \subseteq bitmap

FileChangedTo(S, f, size) ==
  /\ Sound(S)' /\ \A i \in S \ {f} : SameNode(i)
  /\ ~IsDir(f) /\ ~IsDir(f)'
  /\ bitmap' \ Held(f)' \subseteq bitmap \ Held(f)
  /\ read_inode(f)'.size = size /\ (size = 0 \/ size >= read_inode(f).size)
FileChanged(S) == \E f \in S, size \in 0 .. MaxSize : FileChangedTo(S, f, size)

\* create, mkdir, unlink, rmdir and rename write one slot of a directory, after
\* writing at most blocks that S does not hold.
SlotWritten(S, d, p, e) ==
  /\ d \in S /\ IsDir(d) /\ p \in Positions(d) /\ e \in Entry
  /\ \E dk \in [Blocks -> Content] :
       /\ \A i \in S : \A x \in Held(i) : dk[x] = disk[x]
       /\ disk' = SetEntry(dk, BlockAt(d, p), p[2], e)

\* A new file has no bytes, a new directory one block and no entries.
Fresh(b) ==
  IF IsDir(b) THEN ValidAt(b) = {} /\ BlockCount(b) = 1 ELSE read_inode(b).size = 0

AddedAs(S, d, n, b, t) ==
  /\ \E p \in FreeSlots(d) : SlotWritten(S, d, p, NewEntry(b, n))
  /\ ~HasName(d, n)
  /\ Sound(S \cup {b})' /\ Fresh(b)' /\ read_inode(b)'.type = t
  /\ bitmap' = bitmap \cup Held(b)'
Added(S) ==
  \E d \in S, n \in Names, b \in Blocks \ S, t \in {"file", "dir"} : AddedAs(S, d, n, b, t)

RemovedAt(S, d, p, x) ==
  /\ x = EntryAt(d, p).inode
  /\ SlotWritten(S, d, p, NoEntry)
  /\ Sound(S \ {x})'
  /\ IF IsDir(x) THEN SeenEmpty(x) /\ bitmap' = bitmap \ {PtrAt(x, 0), x}
     ELSE bitmap' = bitmap \ Held(x)
Removed(S) == \E d, x \in S : \E p \in ValidAt(d) : RemovedAt(S, d, p, x)

RenamedAt(S, d, p, n) ==
  /\ SlotWritten(S, d, p, NewEntry(EntryAt(d, p).inode, n))
  /\ BlockCount(d) = 1 => n = EntryAt(d, p).name \/ ~HasName(d, n)
  /\ Sound(S)' /\ bitmap' = bitmap
Renamed(S) == \E d \in S, n \in Names : \E p \in ValidAt(d) : RenamedAt(S, d, p, n)

Change(S) == Kept(S) \/ FileChanged(S) \/ Added(S) \/ Removed(S) \/ Renamed(S)

-----------------------------------------------------------------------------
(* Arithmetic of block counts *)

LEMMA DivBounds ==
  ASSUME NEW n \in Nat, NEW m \in Nat \ {0}
  PROVE  n \div m \in Nat /\ (n \div m) * m <= n /\ n < (n \div m) * m + m
OBVIOUS

\* The k-th block of a size is there when the size exceeds k blocks.
LEMMA CeilDivLess ==
  ASSUME NEW n \in Nat, NEW k \in Nat
  PROVE  CeilDiv(n) \in Nat /\ (k < CeilDiv(n) <=> k * BlockSize < n)
<1> DEFINE q == CeilDiv(n)
<1>1. /\ BlockSize \in Nat \ {0} /\ q \in Nat
      /\ q * BlockSize <= n + BlockSize - 1 /\ n < q * BlockSize + 1
  BY DivBounds, DiskAssumption DEF CeilDiv
<1> HIDE DEF q
<1>2. ASSUME k < q PROVE k * BlockSize < n
  <2>1. (k + 1) * BlockSize <= q * BlockSize
    BY <1>1, <1>2
  <2> QED BY <2>1, <1>1
<1>3. ASSUME q <= k PROVE n <= k * BlockSize
  <2>1. q * BlockSize <= k * BlockSize
    BY <1>1, <1>3
  <2> QED BY <2>1, <1>1
<1> QED BY <1>1, <1>2, <1>3 DEF q

LEMMA InodeFields ==
  ASSUME TypeOK, NEW i \in Blocks
  PROVE  /\ read_inode(i).size \in 0 .. MaxSize
         /\ BlockCount(i) \in 0 .. NPtrs
         /\ Indices(i) \subseteq PtrIndex
         /\ \A k \in PtrIndex : PtrAt(i, k) \in {0} \cup Blocks
<1>1. read_inode(i) \in InodeBlock
  BY ReadInodeType DEF TypeOK
<1>2. read_inode(i).size \in 0 .. MaxSize /\ read_inode(i).ptrs \in [PtrIndex -> {0} \cup Blocks]
  BY <1>1 DEF InodeBlock
<1>3. BlockCount(i) \in Nat /\ ~(NPtrs < BlockCount(i))
  <2>1. read_inode(i).size \in Nat /\ read_inode(i).size <= NPtrs * BlockSize
    BY <1>2, DiskAssumption
  <2>2. ~(NPtrs * BlockSize < read_inode(i).size)
    BY <2>1, DiskAssumption
  <2> QED BY <2>1, <2>2, CeilDivLess, DiskAssumption DEF BlockCount
<1>4. BlockCount(i) \in 0 .. NPtrs /\ Indices(i) \subseteq PtrIndex
  BY <1>3, DiskAssumption DEF Indices
<1>5. \A k \in PtrIndex : PtrAt(i, k) \in {0} \cup Blocks
  BY <1>2 DEF PtrAt
<1> QED BY <1>2, <1>4, <1>5

\* A position of a directory is a slot of one of the blocks it counts.
LEMMA PositionParts ==
  ASSUME TypeOK, NEW i \in Blocks, NEW p \in Positions(i)
  PROVE  p[1] \in Indices(i) /\ p[2] \in Slots /\ p = <<p[1], p[2]>>
<1> DEFINE s == read_inode(i).size
           f == s \div BlockSize
<1>1. s \in Nat
  BY InodeFields
<1>2. f \in Nat /\ f * BlockSize <= s /\ BlockSize \in Nat \ {0}
  BY <1>1, DivBounds, DiskAssumption
<1>3. p \in (0 .. f - 1) \X Slots
  BY DEF Positions
<1> HIDE DEF f, s
<1>4. p[1] \in 0 .. f - 1 /\ p[2] \in Slots /\ p = <<p[1], p[2]>>
  BY <1>3
<1>5. p[1] * BlockSize < s
  <2>1. (p[1] + 1) * BlockSize <= f * BlockSize
    BY <1>2, <1>4
  <2> QED BY <2>1, <1>1, <1>2, <1>4
<1>6. p[1] < CeilDiv(s) /\ CeilDiv(s) \in Nat
  BY <1>1, <1>2, <1>4, <1>5, CeilDivLess
<1> QED BY <1>2, <1>4, <1>6 DEF Indices, BlockCount, s
-----------------------------------------------------------------------------
(* What a sound set says of one inode *)

LEMMA HeldParts ==
  ASSUME TypeOK, NEW i \in Blocks, OwnBlocks(i)
  PROVE  /\ Held(i) = {i} \cup {PtrAt(i, k) : k \in Indices(i)}
         /\ Held(i) \subseteq Blocks
BY DEF Held, BlocksOf, OwnBlocks, PtrAt, Indices, BlockCount

LEMMA PositionBlock ==
  ASSUME TypeOK, NEW i \in Blocks, WellFormed(i), IsDir(i), NEW p \in Positions(i)
  PROVE  /\ BlockAt(i, p) \in Held(i) /\ BlockAt(i, p) # i /\ BlockAt(i, p) \in Blocks
         /\ disk[BlockAt(i, p)].kind = "entries"
         /\ EntryAt(i, p) \in Entry
         /\ p[2] \in Slots
<1>1. p[1] \in Indices(i) /\ p[2] \in Slots /\ BlockAt(i, p) = PtrAt(i, p[1])
  BY PositionParts DEF BlockAt, PtrAt
<1>2. /\ BlockAt(i, p) \in Held(i) /\ BlockAt(i, p) # i /\ BlockAt(i, p) \in Blocks
      /\ disk[BlockAt(i, p)].kind = "entries"
  BY <1>1, HeldParts DEF WellFormed, OwnBlocks, RightKind
<1>3. EntryAt(i, p) \in Entry
  BY <1>1, <1>2, ReadEntriesType DEF EntryAt, TypeOK
<1> QED BY <1>1, <1>2, <1>3

\* Two positions of one directory in the same block are in the same part of it.
LEMMA SameBlock ==
  ASSUME TypeOK, NEW i \in Blocks, WellFormed(i),
         NEW p \in Positions(i), NEW q \in Positions(i),
         BlockAt(i, p) = BlockAt(i, q), p[2] = q[2]
  PROVE  p = q
<1>1. p[1] \in Indices(i) /\ q[1] \in Indices(i) /\ p = <<p[1], p[2]>> /\ q = <<q[1], q[2]>>
  BY PositionParts
<1>2. p[1] = q[1]
  BY <1>1 DEF BlockAt, PtrAt, WellFormed, OwnBlocks
<1> QED BY <1>1, <1>2

LEMMA ShapeParts ==
  ASSUME NEW S, Shape(S), NEW i \in S
  PROVE  i \in Blocks /\ WellFormed(i)
BY DEF Shape, Rooted

LEMMA SoundParts ==
  ASSUME NEW S, Sound(S), NEW i \in S
  PROVE  i \in Blocks /\ WellFormed(i) /\ Held(i) \subseteq map_blk
BY DEF Sound, Shape, Rooted, Marked

\* Linked, and what paths can reach, lie in every such set.
LEMMA ShapeHoldsLinked ==
  ASSUME NEW S, Shape(S)
  PROVE  Linked \subseteq S /\ Addressable \subseteq S
<1>1. \A i \in S : LinkedChildren(i) \subseteq S
  BY DEF LinkedChildren, Shape, EntriesStay
<1>2. \A i \in S : NamedChildren(i) \subseteq S
  <2>1. \A i, n : FirstMatch(i, n) \subseteq IF IsDir(i) THEN ValidAt(i) ELSE {}
    BY DEF FirstMatch, FirstOf, Matches
  <2> QED BY <2>1 DEF NamedChildren, Shape, EntriesStay
<1>3. Closed(S, Links)
  BY <1>1 DEF Closed, Links, Shape, Rooted
<1>4. Closed(S, NamedLinks)
  BY <1>2 DEF Closed, NamedLinks, Shape, Rooted
<1>5. S \in SUBSET Blocks
  BY DEF Shape, Rooted
<1> QED BY <1>3, <1>4, <1>5 DEF Linked, Addressable, Closure

-----------------------------------------------------------------------------
(* What a step leaves alone *)

\* An inode whose block is unchanged reads the same.
LEMMA SameInode ==
  ASSUME NEW i, disk'[i] = disk[i]
  PROVE  /\ read_inode(i)' = read_inode(i) /\ IsDir(i)' = IsDir(i)
         /\ Held(i)' = Held(i) /\ Positions(i)' = Positions(i)
         /\ Indices(i)' = Indices(i) /\ OwnBlocks(i)' = OwnBlocks(i)
         /\ BlockCount(i)' = BlockCount(i)
         /\ \A p : BlockAt(i, p)' = BlockAt(i, p)
         /\ \A k : PtrAt(i, k)' = PtrAt(i, k)
<1>1. read_inode(i)' = read_inode(i)
  BY DEF read_inode
<1> QED BY <1>1 DEF IsDir, Held, Positions, Indices, OwnBlocks, BlockCount, PtrAt, BlockAt

\* An inode none of whose blocks changed is as it was, with all its entries.
LEMMA SameHeld ==
  ASSUME TypeOK, NEW i \in Blocks, WellFormed(i), \A x \in Held(i) : disk'[x] = disk[x]
  PROVE  SameNode(i)
<1>1. disk'[i] = disk[i]
  BY DEF Held
<1>2. \A k \in Indices(i) : disk'[PtrAt(i, k)] = disk[PtrAt(i, k)]
  BY HeldParts DEF WellFormed
<1>3. RightKind(i)'
  <2>1. CASE IsDir(i)
    BY <1>1, <1>2, <2>1, SameInode DEF RightKind, WellFormed
  <2>2. CASE ~IsDir(i)
    <3>1. \A k \in PtrIndex : k < BlockCount(i) => k \in Indices(i)
      BY InodeFields, DiskAssumption DEF Indices
    <3>2. \A k \in PtrIndex :
            IF k < BlockCount(i) THEN disk'[PtrAt(i, k)] = Data(i) ELSE PtrAt(i, k) = 0
      BY <1>2, <2>2, <3>1 DEF RightKind, WellFormed
    <3>3. ~IsDir(i)' /\ BlockCount(i)' = BlockCount(i) /\ \A k : PtrAt(i, k)' = PtrAt(i, k)
      BY <1>1, <2>2, SameInode
    <3> QED BY <3>2, <3>3 DEF RightKind, Data
  <2> QED BY <2>1, <2>2
<1>4. WellFormed(i)'
  BY <1>1, <1>3, SameInode DEF WellFormed
<1>5. ASSUME IsDir(i), NEW p \in Positions(i) PROVE EntryAt(i, p)' = EntryAt(i, p)
  <2>1. disk'[BlockAt(i, p)] = disk[BlockAt(i, p)] /\ BlockAt(i, p)' = BlockAt(i, p)
    BY <1>1, <1>5, PositionBlock, SameInode
  <2> QED BY <2>1 DEF EntryAt, ReadEntries
<1> QED BY <1>1, <1>4, <1>5, SameInode DEF SameNode

LEMMA SameNodeParts ==
  ASSUME NEW i, SameNode(i)
  PROVE  /\ WellFormed(i)' /\ IsDir(i)' = IsDir(i) /\ Held(i)' = Held(i)
         /\ Positions(i)' = Positions(i) /\ BlockCount(i)' = BlockCount(i)
         /\ IsDir(i) => /\ ValidAt(i)' = ValidAt(i)
                        /\ \A p \in ValidAt(i) : EntryAt(i, p)' = EntryAt(i, p)
<1>1. read_inode(i)' = read_inode(i) /\ WellFormed(i)'
  BY DEF SameNode
<1>2. IsDir(i)' = IsDir(i) /\ Held(i)' = Held(i) /\ Positions(i)' = Positions(i)
      /\ BlockCount(i)' = BlockCount(i)
  BY <1>1 DEF IsDir, Held, Positions, BlockCount
<1>3. ASSUME IsDir(i)
      PROVE  ValidAt(i)' = ValidAt(i) /\ \A p \in ValidAt(i) : EntryAt(i, p)' = EntryAt(i, p)
  BY <1>2, <1>3 DEF SameNode, ValidAt, Valid
<1> QED BY <1>1, <1>2, <1>3

\* Where one slot is written, nothing else in the tree changes.
LEMMA SlotWrite ==
  ASSUME TypeOK, NEW S, Shape(S), NEW d, NEW p, NEW e, SlotWritten(S, d, p, e)
  PROVE  \A i \in S :
           /\ WellFormed(i)' /\ IsDir(i)' = IsDir(i) /\ Held(i)' = Held(i)
           /\ Positions(i)' = Positions(i) /\ read_inode(i)' = read_inode(i)
           /\ IsDir(i) => \A q \in Positions(i) :
                EntryAt(i, q)' = IF i = d /\ q = p THEN e ELSE EntryAt(i, q)
<1>1. PICK dk \in [Blocks -> Content] :
           /\ \A i \in S : \A x \in Held(i) : dk[x] = disk[x]
           /\ disk' = SetEntry(dk, BlockAt(d, p), p[2], e)
  BY DEF SlotWritten
<1>2. d \in S /\ IsDir(d) /\ p \in Positions(d) /\ e \in Entry
  BY DEF SlotWritten
<1> DEFINE b == BlockAt(d, p)
<1>3. d \in Blocks /\ WellFormed(d)
  BY <1>2, ShapeParts
<1>4. /\ b \in Held(d) /\ b # d /\ b \in Blocks /\ disk[b].kind = "entries" /\ p[2] \in Slots
  BY <1>2, <1>3, PositionBlock
<1>5. \A i \in S : \A x \in Held(i) : x \in Blocks /\ dk[x] = disk[x]
  BY <1>1, ShapeParts, HeldParts DEF WellFormed
<1> HIDE DEF b
<1>6. \A x \in Blocks : disk'[x] = IF x = b THEN Entries([ReadEntries(dk[b]) EXCEPT ![p[2]] = e])
                                   ELSE dk[x]
  BY <1>1, <1>4 DEF SetEntry, b
<1>7. /\ disk'[b].kind = "entries"
      /\ \A k \in Slots : disk'[b].ent[k] = IF k = p[2] THEN e ELSE disk[b].ent[k]
  <2>1. dk[b] = disk[b] /\ disk[b] \in Content
    BY <1>2, <1>4, <1>5 DEF TypeOK
  <2>2. ReadEntries(dk[b]) = disk[b].ent /\ disk[b].ent \in [Slots -> Entry]
    BY <1>4, <2>1, ReadEntriesType DEF ReadEntries
  <2> DEFINE es == [ReadEntries(dk[b]) EXCEPT ![p[2]] = e]
  <2>3. \A k \in Slots : es[k] = IF k = p[2] THEN e ELSE disk[b].ent[k]
    BY <2>2
  <2>4. disk'[b] = Entries(es)
    BY <1>4, <1>6
  <2> HIDE DEF es
  <2>5. disk'[b].kind = "entries" /\ disk'[b].ent = es
    BY <2>4 DEF Entries
  <2> QED BY <2>3, <2>5
<1>8. ASSUME NEW i \in S, i # d
      PROVE  SameNode(i)
  <2>1. i \in Blocks /\ WellFormed(i) /\ i \in Held(i)
    BY ShapeParts DEF Held
  <2>2. b \notin Held(i)
    BY <1>2, <1>4, <1>8 DEF Shape, Disjoint
  <2>3. \A x \in Held(i) : disk'[x] = disk[x]
    BY <1>5, <1>6, <2>2
  <2> QED BY <2>1, <2>3, SameHeld
<1>9. /\ WellFormed(d)' /\ IsDir(d)' = IsDir(d) /\ Held(d)' = Held(d)
      /\ Positions(d)' = Positions(d) /\ read_inode(d)' = read_inode(d)
      /\ \A q \in Positions(d) : EntryAt(d, q)' = IF q = p THEN e ELSE EntryAt(d, q)
  <2>1. \A x \in Held(d) : x # b => disk'[x] = disk[x]
    BY <1>2, <1>5, <1>6
  <2>2. disk'[d] = disk[d]
    BY <1>4, <2>1 DEF Held
  <2>3. /\ IsDir(d)' /\ Indices(d)' = Indices(d) /\ \A k : PtrAt(d, k)' = PtrAt(d, k)
        /\ \A q : BlockAt(d, q)' = BlockAt(d, q)
    BY <1>2, <2>2, SameInode
  <2>4. \A k \in Indices(d) : disk'[PtrAt(d, k)].kind = "entries"
    <3> SUFFICES ASSUME NEW k \in Indices(d) PROVE disk'[PtrAt(d, k)].kind = "entries"
      OBVIOUS
    <3>1. PtrAt(d, k) \in Held(d) /\ disk[PtrAt(d, k)].kind = "entries"
      BY <1>2, <1>3, HeldParts DEF WellFormed, RightKind
    <3> QED BY <1>7, <2>1, <3>1
  <2>5. WellFormed(d)'
    BY <1>3, <2>2, <2>3, <2>4, SameInode DEF WellFormed, RightKind
  <2>6. ASSUME NEW q \in Positions(d)
        PROVE  EntryAt(d, q)' = IF q = p THEN e ELSE EntryAt(d, q)
    <3>1. /\ BlockAt(d, q) \in Held(d) /\ disk[BlockAt(d, q)].kind = "entries"
          /\ q[2] \in Slots
      BY <1>2, <1>3, PositionBlock
    <3>2. CASE BlockAt(d, q) # b
      <4>1. q # p /\ disk'[BlockAt(d, q)] = disk[BlockAt(d, q)]
        BY <2>1, <3>1, <3>2 DEF b
      <4> QED BY <2>3, <4>1 DEF EntryAt, ReadEntries
    <3>3. CASE BlockAt(d, q) = b
      <4>1. EntryAt(d, q)' = disk'[b].ent[q[2]] /\ EntryAt(d, q) = disk[b].ent[q[2]]
        BY <1>4, <1>7, <2>3, <3>3 DEF EntryAt, ReadEntries
      <4>2. q[2] = p[2] <=> q = p
        BY <1>2, <1>3, <3>3, SameBlock DEF b
      <4> QED BY <1>7, <3>1, <4>1, <4>2
    <3> QED BY <3>2, <3>3
  <2> QED BY <1>2, <2>2, <2>5, <2>6, SameInode
<1> QED BY <1>8, <1>9, SameNodeParts DEF SameNode
-----------------------------------------------------------------------------
(* The next such set, by kinds of step *)

\* A step that touches no block of the set keeps it.
LEMMA KeepShape ==
  ASSUME TypeOK, NEW S, Shape(S), \A i \in S : \A x \in Held(i) : disk'[x] = disk[x]
  PROVE  Shape(S)' /\ \A i \in S : SameNode(i)
<1>0. ASSUME NEW i \in S PROVE SameNode(i)
  BY ShapeParts, SameHeld
<1>1. ASSUME NEW i \in S
      PROVE  /\ WellFormed(i)' /\ IsDir(i)' = IsDir(i) /\ Held(i)' = Held(i)
             /\ IsDir(i) => /\ ValidAt(i)' = ValidAt(i)
                            /\ \A p \in ValidAt(i) : EntryAt(i, p)' = EntryAt(i, p)
  BY <1>0, SameNodeParts
<1>2. Rooted(S)' /\ (\A i \in S : WellFormed(i)') /\ Disjoint(S)'
  BY <1>1 DEF Shape, Rooted, Disjoint
<1>3. EntriesStay(S)'
  BY <1>1 DEF Shape, EntriesStay
<1>4. OneEntryEach(S)'
  BY <1>1 DEF Shape, OneEntryEach
<1> QED BY <1>0, <1>2, <1>3, <1>4 DEF Shape

LEMMA KeepSound ==
  ASSUME TypeOK, NEW S, Sound(S),
         \A x \in Blocks \cap map_blk : disk'[x] = disk[x], map_blk \subseteq map_blk'
  PROVE  Sound(S)' /\ \A i \in S : SameNode(i)
<1>1. \A i \in S : \A x \in Held(i) : disk'[x] = disk[x]
  BY SoundParts, HeldParts DEF WellFormed
<1>2. Shape(S)' /\ \A i \in S : SameNode(i)
  BY <1>1, KeepShape DEF Sound
<1>3. Marked(S)'
  BY <1>2, SameNodeParts DEF Sound, Marked
<1> QED BY <1>2, <1>3 DEF Sound

\* Removing an entry: the inode it led to leaves the set with its blocks.
LEMMA RemoveShape ==
  ASSUME TypeOK, NEW S, Shape(S), NEW d, NEW p,
         SlotWritten(S, d, p, NoEntry), p \in ValidAt(d), NEW x, x = EntryAt(d, p).inode
  PROVE  Shape(S \ {x})'
<1> DEFINE T == S \ {x}
<1>1. d \in S /\ IsDir(d)
  BY DEF SlotWritten
<1>2. x \in S /\ x # Root
  BY <1>1 DEF Shape, EntriesStay
<1>3. ASSUME NEW i \in T
      PROVE  /\ WellFormed(i)' /\ IsDir(i)' = IsDir(i) /\ Held(i)' = Held(i)
             /\ IsDir(i) => \A q \in ValidAt(i)' :
                  /\ q \in ValidAt(i) /\ EntryAt(i, q)' = EntryAt(i, q)
                  /\ EntryAt(i, q).inode # x
  <2>1. /\ WellFormed(i)' /\ IsDir(i)' = IsDir(i) /\ Held(i)' = Held(i)
        /\ Positions(i)' = Positions(i)
        /\ IsDir(i) => \A q \in Positions(i) :
             EntryAt(i, q)' = IF i = d /\ q = p THEN NoEntry ELSE EntryAt(i, q)
    BY SlotWrite
  <2>2. ASSUME IsDir(i), NEW q \in ValidAt(i)'
        PROVE  /\ q \in ValidAt(i) /\ EntryAt(i, q)' = EntryAt(i, q)
               /\ EntryAt(i, q).inode # x
    <3>1. q \in Positions(i) /\ EntryAt(i, q)'.inode # 0
      BY <2>1 DEF ValidAt, Valid
    <3>2. ~(i = d /\ q = p) /\ EntryAt(i, q)' = EntryAt(i, q)
      BY <2>1, <2>2, <3>1 DEF NoEntry
    <3>3. q \in ValidAt(i)
      BY <3>1, <3>2 DEF ValidAt, Valid
    <3> QED BY <1>1, <2>2, <3>2, <3>3 DEF Shape, OneEntryEach
  <2> QED BY <2>1, <2>2
<1>4. Rooted(T)' /\ (\A i \in T : WellFormed(i)') /\ Disjoint(T)'
  BY <1>2, <1>3 DEF Shape, Rooted, Disjoint
<1>5. EntriesStay(T)'
  BY <1>3 DEF Shape, EntriesStay
<1>6. OneEntryEach(T)'
  BY <1>3 DEF Shape, OneEntryEach
<1> QED BY <1>4, <1>5, <1>6 DEF Shape

LEMMA RemoveSound ==
  ASSUME TypeOK, SavedBitsAreSet, NEW S, Sound(S), NEW d, NEW p,
         SlotWritten(S, d, p, NoEntry), p \in ValidAt(d),
         NEW x, x = EntryAt(d, p).inode,
         NEW R, R \subseteq Held(x), map_blk' = bitmap \ R
  PROVE  Sound(S \ {x})'
<1>1. Shape(S \ {x})'
  BY RemoveShape DEF Sound
<1>2. d \in S /\ IsDir(d)
  BY DEF SlotWritten
<1>3. x \in S
  BY <1>2 DEF Sound, Shape, EntriesStay
<1>4. ASSUME NEW i \in S \ {x} PROVE Held(i)' \subseteq bitmap \ R
  <2>1. Held(i) \subseteq bitmap /\ Held(i) \cap Held(x) = {}
    BY <1>3 DEF Sound, Shape, Marked, Disjoint, SavedBitsAreSet
  <2>2. Held(i)' = Held(i)
    BY SlotWrite DEF Sound
  <2> QED BY <2>1, <2>2
<1> QED BY <1>1, <1>4 DEF Sound, Marked

\* Adding an entry for a new inode, which is well formed, has no entries, and was
\* made of blocks of no other: it joins the set.
LEMMA AddShape ==
  ASSUME TypeOK, NEW S, Shape(S), NEW d, NEW p, NEW e,
         SlotWritten(S, d, p, e), p \notin ValidAt(d), NEW b \in Blocks, e.inode = b,
         WellFormed(b)', \A i \in S : Held(b)' \cap Held(i) = {}, IsDir(b)' => ValidAt(b)' = {}
  PROVE  Shape(S \cup {b})'
<1> DEFINE T == S \cup {b}
<1>1. d \in S /\ IsDir(d) /\ p \in Positions(d)
  BY DEF SlotWritten
<1>2. b \in Held(b)' /\ \A i \in S : i \in Held(i)
  BY DEF Held
<1>3. b \notin S /\ b # Root
  BY <1>2 DEF Shape, Rooted
<1>4. ASSUME NEW i \in S
      PROVE  /\ WellFormed(i)' /\ IsDir(i)' = IsDir(i) /\ Held(i)' = Held(i)
             /\ IsDir(i) => \A q \in ValidAt(i)' :
                  IF i = d /\ q = p THEN EntryAt(i, q)'.inode = b
                  ELSE q \in ValidAt(i) /\ EntryAt(i, q)' = EntryAt(i, q)
  <2>1. /\ WellFormed(i)' /\ IsDir(i)' = IsDir(i) /\ Held(i)' = Held(i)
        /\ Positions(i)' = Positions(i)
        /\ IsDir(i) => \A q \in Positions(i) :
             EntryAt(i, q)' = IF i = d /\ q = p THEN e ELSE EntryAt(i, q)
    BY SlotWrite
  <2> QED BY <2>1 DEF ValidAt, Valid
<1>5. Rooted(T)' /\ \A i \in T : WellFormed(i)'
  BY <1>4 DEF Shape, Rooted
<1>6. Disjoint(T)'
  BY <1>4 DEF Shape, Disjoint
<1>7. EntriesStay(T)'
  BY <1>3, <1>4 DEF Shape, EntriesStay
<1>8. OneEntryEach(T)'
  <2> SUFFICES ASSUME NEW i \in T, NEW j \in T, IsDir(i)', IsDir(j)',
                      NEW q \in ValidAt(i)', NEW r \in ValidAt(j)',
                      EntryAt(i, q)'.inode = EntryAt(j, r)'.inode
               PROVE  i = j /\ q = r
    BY DEF OneEntryEach
  <2>1. i \in S /\ j \in S /\ IsDir(i) /\ IsDir(j)
    BY <1>4
  <2>2. CASE i = d /\ q = p
    BY <1>3, <1>4, <2>1, <2>2 DEF Shape, EntriesStay
  <2>3. CASE j = d /\ r = p
    BY <1>3, <1>4, <2>1, <2>3 DEF Shape, EntriesStay
  <2>4. CASE ~(i = d /\ q = p) /\ ~(j = d /\ r = p)
    <3>1. /\ q \in ValidAt(i) /\ r \in ValidAt(j)
          /\ EntryAt(i, q).inode = EntryAt(j, r).inode
      BY <1>4, <2>1, <2>4
    <3> QED BY <2>1, <3>1 DEF Shape, OneEntryEach
  <2> QED BY <2>2, <2>3, <2>4
<1> QED BY <1>5, <1>6, <1>7, <1>8 DEF Shape

LEMMA AddSound ==
  ASSUME TypeOK, SavedBitsAreSet, NEW S, Sound(S), NEW d, NEW p, NEW e,
         SlotWritten(S, d, p, e), p \notin ValidAt(d),
         NEW b \in Blocks, e.inode = b,
         WellFormed(b)', Held(b)' \cap bitmap = {}, IsDir(b)' => ValidAt(b)' = {},
         bitmap \cup Held(b)' \subseteq map_blk'
  PROVE  Sound(S \cup {b})'
<1>1. \A i \in S : Held(i) \subseteq bitmap
  BY SoundParts DEF SavedBitsAreSet
<1>2. Shape(S \cup {b})'
  BY <1>1, AddShape DEF Sound
<1>3. \A i \in S : Held(i)' = Held(i)
  BY SlotWrite DEF Sound
<1>4. Marked(S \cup {b})'
  BY <1>1, <1>3 DEF Marked
<1> QED BY <1>2, <1>4 DEF Sound

\* Giving an entry another name changes neither the set nor the links.
LEMMA RenameShape ==
  ASSUME TypeOK, NEW S, Shape(S), NEW d, NEW p, NEW e,
         SlotWritten(S, d, p, e), p \in ValidAt(d), e.inode = EntryAt(d, p).inode
  PROVE  Shape(S)'
<1>1. d \in S /\ IsDir(d)
  BY DEF SlotWritten
<1>2. ASSUME NEW i \in S
      PROVE  /\ WellFormed(i)' /\ IsDir(i)' = IsDir(i) /\ Held(i)' = Held(i)
             /\ IsDir(i) => \A q \in ValidAt(i)' :
                  q \in ValidAt(i) /\ EntryAt(i, q)'.inode = EntryAt(i, q).inode
  <2>1. /\ WellFormed(i)' /\ IsDir(i)' = IsDir(i) /\ Held(i)' = Held(i)
        /\ Positions(i)' = Positions(i)
        /\ IsDir(i) => \A q \in Positions(i) :
             EntryAt(i, q)' = IF i = d /\ q = p THEN e ELSE EntryAt(i, q)
    BY SlotWrite
  <2> QED BY <2>1 DEF ValidAt, Valid
<1>3. Rooted(S)' /\ (\A i \in S : WellFormed(i)') /\ Disjoint(S)'
  BY <1>2 DEF Shape, Rooted, Disjoint
<1>4. EntriesStay(S)'
  BY <1>2 DEF Shape, EntriesStay
<1>5. OneEntryEach(S)'
  BY <1>2 DEF Shape, OneEntryEach
<1> QED BY <1>3, <1>4, <1>5 DEF Shape

LEMMA RenameSound ==
  ASSUME TypeOK, NEW S, Sound(S), NEW d, NEW p, NEW e,
         SlotWritten(S, d, p, e), p \in ValidAt(d), e.inode = EntryAt(d, p).inode,
         map_blk' = map_blk
  PROVE  Sound(S)'
<1>1. Shape(S)'
  BY RenameShape DEF Sound
<1>2. \A i \in S : Held(i)' = Held(i)
  BY SlotWrite DEF Sound
<1> QED BY <1>1, <1>2 DEF Sound, Marked

\* Writing a file: its inode and blocks change, no other inode's do.
LEMMA FileShape ==
  ASSUME TypeOK, NEW S, Shape(S), NEW f \in S, ~IsDir(f), ~IsDir(f)', WellFormed(f)',
         \A i \in S \ {f} : Held(i) \cap Held(f)' = {} /\ \A x \in Held(i) : disk'[x] = disk[x]
  PROVE  Shape(S)' /\ \A i \in S \ {f} : SameNode(i)
<1>0. ASSUME NEW i \in S \ {f} PROVE SameNode(i)
  BY ShapeParts, SameHeld
<1>1. ASSUME NEW i \in S \ {f}
      PROVE  /\ WellFormed(i)' /\ IsDir(i)' = IsDir(i) /\ Held(i)' = Held(i)
             /\ IsDir(i) => /\ ValidAt(i)' = ValidAt(i)
                            /\ \A p \in ValidAt(i) : EntryAt(i, p)' = EntryAt(i, p)
  BY <1>0, SameNodeParts
<1>2. Rooted(S)' /\ \A i \in S : WellFormed(i)'
  BY <1>1 DEF Shape, Rooted
<1>3. Disjoint(S)'
  BY <1>1 DEF Shape, Disjoint
<1>4. EntriesStay(S)'
  BY <1>1 DEF Shape, EntriesStay
<1>5. OneEntryEach(S)'
  BY <1>1 DEF Shape, OneEntryEach
<1> QED BY <1>0, <1>2, <1>3, <1>4, <1>5 DEF Shape

LEMMA FileSound ==
  ASSUME TypeOK, NEW S, Sound(S), NEW f \in S, ~IsDir(f), ~IsDir(f)', WellFormed(f)',
         Held(f)' \subseteq map_blk',
         \A i \in S \ {f} : /\ Held(i) \subseteq map_blk' /\ Held(i) \cap Held(f)' = {}
                            /\ \A x \in Held(i) : disk'[x] = disk[x]
  PROVE  Sound(S)' /\ \A i \in S \ {f} : SameNode(i)
<1>1. Shape(S)' /\ \A i \in S \ {f} : SameNode(i)
  BY FileShape DEF Sound
<1>2. Marked(S)'
  BY <1>1, SameNodeParts DEF Marked
<1> QED BY <1>1, <1>2 DEF Sound
-----------------------------------------------------------------------------
(* Every call is one of these changes *)

LEMMA KeepNext ==
  ASSUME TypeOK, NEW S \in SUBSET Blocks, Sound(S),
         \A x \in Blocks \cap map_blk : disk'[x] = disk[x], map_blk \subseteq map_blk',
         ret' = "ok" => bitmap' \subseteq bitmap
  PROVE  Kept(S)
BY KeepSound DEF Kept

LEMMA FailsNext ==
  ASSUME TypeOK, NEW S \in SUBSET Blocks, Sound(S), NEW e, Fails(e)
  PROVE  Kept(S)
BY KeepNext DEF Fails

\* Blocks the bitmap marks include what a sound set holds.
LEMMA SoundHeld ==
  ASSUME TypeOK, SavedBitsAreSet, NEW S, Sound(S), NEW dk, \A x \in Blocks \cap bitmap : dk[x] = disk[x]
  PROVE  \A i \in S : \A x \in Held(i) : dk[x] = disk[x]
BY SoundParts, HeldParts DEF WellFormed, SavedBitsAreSet

\* A free block is not held by a sound set, and what a directory holds is not free.
LEMMA FreeApart ==
  ASSUME TypeOK, SavedBitsAreSet, NEW S, Sound(S), NEW d \in S, IsDir(d),
         NEW p \in Positions(d)
  PROVE  BlockAt(d, p) \in bitmap /\ BlockAt(d, p) \in Blocks
BY SoundParts, PositionBlock DEF SavedBitsAreSet

LEMMA FreeSlotParts ==
  ASSUME NEW d, NEW p \in FirstOf(FreeSlots(d))
  PROVE  p \in Positions(d) /\ p \notin ValidAt(d)
BY DEF FirstOf, FreeSlots

LEMMA FirstFreeParts ==
  /\ \A i \in FirstFree : i \in Blocks /\ i \notin bitmap
  /\ \A i : \A b \in SecondFree(i) : b \in Blocks /\ b \notin bitmap /\ b # i
BY DEF FirstFree, SecondFree, Least, FreeBlocks

\* A new file: no size, no block.
LEMMA NewFile ==
  ASSUME NEW i \in Blocks, disk'[i].kind = "inode", disk'[i].type = "file",
         disk'[i].size = 0, disk'[i].ptrs = NullPtrs
  PROVE  WellFormed(i)' /\ Held(i)' = {i} /\ ~IsDir(i)'
<1>1. /\ read_inode(i)'.type = "file" /\ read_inode(i)'.size = 0
      /\ read_inode(i)'.ptrs = NullPtrs
  BY DEF read_inode
<1>2. CeilDiv(0) = 0
  BY CeilDivLess, DiskAssumption
<1>3. BlockCount(i)' = 0 /\ Indices(i)' = {} /\ BlocksOf(read_inode(i)') = {}
  BY <1>1, <1>2 DEF BlockCount, Indices, BlocksOf
<1>4. Held(i)' = {i} /\ ~IsDir(i)' /\ OwnBlocks(i)'
  BY <1>1, <1>3 DEF Held, IsDir, OwnBlocks
<1>5. \A k \in PtrIndex : PtrAt(i, k)' = 0 /\ ~(k < BlockCount(i)')
  <2>1. \A k \in PtrIndex : NullPtrs[k] = 0
    BY DEF NullPtrs
  <2>2. \A k : PtrAt(i, k)' = NullPtrs[k]
    BY <1>1 DEF PtrAt
  <2>3. \A k \in PtrIndex : ~(k < 0)
    OBVIOUS
  <2> QED BY <1>3, <2>1, <2>2, <2>3
<1> QED BY <1>1, <1>4, <1>5 DEF WellFormed, RightKind

\* A new directory: one block, no entry.
LEMMA NewDirectory ==
  ASSUME NEW i \in Blocks, NEW b \in Blocks, b # i,
         disk'[i] = AnInode("dir", BlockSize, FirstPtr(b)), disk'[b] = Entries(NoEntries)
  PROVE  /\ WellFormed(i)' /\ Held(i)' = {i, b}
         /\ IsDir(i)' /\ ValidAt(i)' = {} /\ BlockCount(i)' = 1
<1>1. /\ disk'[i].kind = "inode" /\ read_inode(i)'.type = "dir"
      /\ read_inode(i)'.size = BlockSize /\ read_inode(i)'.ptrs = FirstPtr(b)
  BY DEF read_inode, AnInode
<1>2. CeilDiv(BlockSize) = 1 /\ BlockSize \div BlockSize = 1
  <2>1. BlockSize \in Nat /\ 0 < BlockSize
    BY DiskAssumption
  <2>2. 0 < CeilDiv(BlockSize) /\ ~(1 < CeilDiv(BlockSize)) /\ CeilDiv(BlockSize) \in Nat
    BY <2>1, CeilDivLess
  <2>3. BlockSize \div BlockSize = 1
    BY <2>1
  <2> QED BY <2>2, <2>3
<1>3. BlockCount(i)' = 1 /\ Indices(i)' = {0}
  BY <1>1, <1>2 DEF BlockCount, Indices
<1>4. PtrAt(i, 0)' = b
  BY <1>1, DiskAssumption DEF PtrAt, FirstPtr, NullPtrs
<1>5. Held(i)' = {i, b}
  <2>1. BlocksOf(read_inode(i)') = {read_inode(i)'.ptrs[k] : k \in {0}} \ {0}
    BY <1>1, <1>2 DEF BlocksOf
  <2>2. BlocksOf(read_inode(i)') = {b}
    BY <1>4, <2>1 DEF PtrAt
  <2> QED BY <2>2 DEF Held
<1>6. WellFormed(i)'
  BY <1>1, <1>3, <1>4 DEF WellFormed, OwnBlocks, RightKind, IsDir, Entries
<1>7. ValidAt(i)' = {}
  <2>1. \A p \in Positions(i)' : p[1] = 0 /\ p[2] \in Slots
    BY <1>1, <1>2 DEF Positions
  <2>2. \A p \in Positions(i)' : EntryAt(i, p)' = NoEntry
    <3>1. disk'[b].kind = "entries" /\ disk'[b].ent = NoEntries
      BY DEF Entries
    <3>2. \A k \in Slots : NoEntries[k] = NoEntry
      BY DEF NoEntries
    <3>3. \A p \in Positions(i)' : BlockAt(i, p)' = b
      BY <1>4, <2>1 DEF BlockAt, PtrAt
    <3>4. \A p \in Positions(i)' : EntryAt(i, p)' = NoEntries[p[2]]
      BY <3>1, <3>3 DEF EntryAt, ReadEntries
    <3> QED BY <2>1, <3>2, <3>4
  <2> QED BY <2>2 DEF ValidAt, Valid, NoEntry
<1> QED BY <1>1, <1>3, <1>5, <1>6, <1>7 DEF IsDir

LEMMA CreateNext ==
  ASSUME TypeOK, SavedBitsAreSet, NEW S \in SUBSET Blocks, Sound(S),
         NEW d \in S, NEW n \in Names, fs_create(d, n)
  PROVE  IF ret' = "ok" THEN \E b \in Blocks \ S : AddedAs(S, d, n, b, "file") ELSE Kept(S)
<1> DEFINE Done == \E b \in Blocks \ S : AddedAs(S, d, n, b, "file")
           Answer == IF ret' = "ok" THEN Done ELSE Kept(S)
<1>1. ASSUME NEW e \in Codes \ {"ok"}, Fails(e) PROVE Answer
  BY <1>1, FailsNext DEF Fails
<1>2. ASSUME IsDir(d), NEW i \in FirstFree,
             bitmap' = bitmap \cup {i}, SaveMap,
             ~HasName(d, n),
             AddEntry([disk EXCEPT ![i] = AnInode("file", 0, NullPtrs)], d, n, i, "ENOSPC")
      PROVE  Answer
  <2> DEFINE dk == [disk EXCEPT ![i] = AnInode("file", 0, NullPtrs)]
  <2>1. i \in Blocks /\ i \notin bitmap /\ map_blk' = bitmap \cup {i}
    BY <1>2, FirstFreeParts DEF SaveMap
  <2>2. dk \in [Blocks -> Content] /\ \A x \in Blocks \cap bitmap : dk[x] = disk[x]
    <3>1. AnInode("file", 0, NullPtrs) \in Content
      BY DiskAssumption, AnInodeType DEF NullPtrs
    <3> QED BY <2>1, <3>1 DEF TypeOK
  <2>3. dk[i] = AnInode("file", 0, NullPtrs)
    BY <2>1 DEF TypeOK
  <2>4. AddEntry(dk, d, n, i, "ENOSPC")
    BY <1>2
  <2> HIDE DEF dk
  <2>5. CASE disk' = dk /\ ret' # "ok"
    BY <2>1, <2>2, <2>5, KeepNext DEF SavedBitsAreSet
  <2>6. ASSUME NEW p \in FirstOf(FreeSlots(d)),
               disk' = SetEntry(dk, BlockAt(d, p), p[2], NewEntry(i, n)), ret' = "ok"
        PROVE  Answer
    <3>1. p \in Positions(d) /\ p \notin ValidAt(d) /\ p \in FreeSlots(d)
      BY <2>6, FreeSlotParts DEF FirstOf
    <3>2. NewEntry(i, n) \in Entry /\ NewEntry(i, n).inode = i
      BY <2>1, NewEntryType DEF NewEntry
    <3>3. SlotWritten(S, d, p, NewEntry(i, n))
      BY <1>2, <2>2, <2>6, <3>1, <3>2, SoundHeld DEF SlotWritten
    <3>4. disk'[i] = AnInode("file", 0, NullPtrs)
      BY <1>2, <2>1, <2>2, <2>3, <2>6, <3>1, FreeApart DEF SetEntry
    <3>5. WellFormed(i)' /\ Held(i)' = {i} /\ ~IsDir(i)'
      BY <2>1, <3>4, NewFile DEF AnInode
    <3>6. Sound(S \cup {i})'
      BY <2>1, <3>1, <3>2, <3>3, <3>5, AddSound
    <3>7. Fresh(i)'
      BY <3>4, <3>5 DEF Fresh, read_inode, AnInode
    <3>8. i \notin S
      BY <2>1, SoundParts DEF Held, SavedBitsAreSet
    <3>9. read_inode(i)'.type = "file"
      BY <3>4 DEF read_inode, AnInode
    <3>10. AddedAs(S, d, n, i, "file")
      BY <1>2, <2>1, <3>1, <3>3, <3>5, <3>6, <3>7, <3>9 DEF AddedAs
    <3> QED BY <2>1, <2>6, <3>8, <3>10
  <2> QED BY <2>4, <2>5, <2>6 DEF AddEntry
<1> HIDE DEF Done
<1>3. Answer
  BY <1>1, <1>2 DEF fs_create, Codes
<1> QED BY <1>3 DEF Done

LEMMA MkdirNext ==
  ASSUME TypeOK, SavedBitsAreSet, NEW S \in SUBSET Blocks, Sound(S),
         NEW d \in S, NEW n \in Names, fs_mkdir(d, n)
  PROVE  IF ret' = "ok" THEN \E b \in Blocks \ S : AddedAs(S, d, n, b, "dir") ELSE Kept(S)
<1> DEFINE Done == \E b \in Blocks \ S : AddedAs(S, d, n, b, "dir")
           Answer == IF ret' = "ok" THEN Done ELSE Kept(S)
<1>1. ASSUME NEW e \in Codes \ {"ok"}, Fails(e) PROVE Answer
  BY <1>1, FailsNext DEF Fails
<1>2. ASSUME IsDir(d), NEW i \in FirstFree, NEW b \in SecondFree(i),
             bitmap' = bitmap \cup {i, b}, SaveMap,
             ~HasName(d, n),
             AddEntry(NewDir(i, b), d, n, i, "EOPNOTSUPP")
      PROVE  Answer
  <2> DEFINE dk == NewDir(i, b)
  <2>1. /\ i \in Blocks /\ i \notin bitmap /\ b \in Blocks /\ b \notin bitmap /\ b # i
        /\ map_blk' = bitmap \cup {i, b}
    BY <1>2, FirstFreeParts DEF SaveMap
  <2>2. dk \in [Blocks -> Content] /\ \A x \in Blocks \cap bitmap : dk[x] = disk[x]
    <3>1. FirstPtr(b) \in [PtrIndex -> {0} \cup Blocks]
      BY <2>1 DEF FirstPtr, NullPtrs
    <3>2. AnInode("dir", BlockSize, FirstPtr(b)) \in Content
      BY <3>1, DiskAssumption, AnInodeType
    <3>3. Entries(NoEntries) \in Content
      BY DEF Entries, NoEntries, NoEntry, Entry, DirBlock, Content
    <3> QED BY <2>1, <3>2, <3>3 DEF TypeOK, NewDir
  <2>3. dk[i] = AnInode("dir", BlockSize, FirstPtr(b)) /\ dk[b] = Entries(NoEntries)
    BY <2>1 DEF TypeOK, NewDir
  <2>4. AddEntry(dk, d, n, i, "EOPNOTSUPP")
    BY <1>2
  <2> HIDE DEF dk
  <2>5. CASE disk' = dk /\ ret' # "ok"
    BY <2>1, <2>2, <2>5, KeepNext DEF SavedBitsAreSet
  <2>6. ASSUME NEW p \in FirstOf(FreeSlots(d)),
               disk' = SetEntry(dk, BlockAt(d, p), p[2], NewEntry(i, n)), ret' = "ok"
        PROVE  Answer
    <3>1. p \in Positions(d) /\ p \notin ValidAt(d) /\ p \in FreeSlots(d)
      BY <2>6, FreeSlotParts DEF FirstOf
    <3>2. NewEntry(i, n) \in Entry /\ NewEntry(i, n).inode = i
      BY <2>1, NewEntryType DEF NewEntry
    <3>3. SlotWritten(S, d, p, NewEntry(i, n))
      <4>1. \A j \in S : \A x \in Held(j) : dk[x] = disk[x]
        BY <2>2, SoundHeld
      <4> QED BY <1>2, <2>2, <2>6, <3>1, <3>2, <4>1 DEF SlotWritten
    <3>4. /\ disk'[i] = AnInode("dir", BlockSize, FirstPtr(b))
          /\ disk'[b] = Entries(NoEntries)
      BY <1>2, <2>1, <2>2, <2>3, <2>6, <3>1, FreeApart DEF SetEntry
    <3>5. /\ WellFormed(i)' /\ Held(i)' = {i, b}
          /\ IsDir(i)' /\ ValidAt(i)' = {} /\ BlockCount(i)' = 1
      BY <2>1, <3>4, NewDirectory
    <3>6. Sound(S \cup {i})'
      BY <2>1, <3>1, <3>2, <3>3, <3>5, AddSound
    <3>7. Fresh(i)'
      BY <3>5 DEF Fresh
    <3>8. i \notin S
      BY <2>1, SoundParts DEF Held, SavedBitsAreSet
    <3>9. read_inode(i)'.type = "dir"
      BY <3>4 DEF read_inode, AnInode
    <3>10. AddedAs(S, d, n, i, "dir")
      BY <1>2, <2>1, <3>1, <3>3, <3>5, <3>6, <3>7, <3>9 DEF AddedAs
    <3> QED BY <2>1, <2>6, <3>8, <3>10
  <2> QED BY <2>4, <2>5, <2>6 DEF AddEntry
<1> HIDE DEF Done
<1>3. Answer
  BY <1>1, <1>2 DEF fs_mkdir, Codes
<1> QED BY <1>3 DEF Done

\* The inode an entry of a sound set leads to is of the set.
LEMMA MatchInode ==
  ASSUME NEW S, Sound(S), NEW d \in S, NEW n, NEW p \in FirstMatch(d, n)
  PROVE  EntryAt(d, p).inode \in S
BY DEF FirstMatch, FirstOf, Matches, Sound, Shape, EntriesStay

\* unlink and rmdir, once they have decided to remove the entry at p.
LEMMA RemoveNext ==
  ASSUME TypeOK, SavedBitsAreSet, NEW S \in SUBSET Blocks, Sound(S),
         NEW d \in S, NEW n, NEW p \in FirstMatch(d, n),
         disk' = ClearedEntry(d, p), SaveMap,
         NEW R, R \subseteq Held(EntryAt(d, p).inode), bitmap' = bitmap \ R,
         LET x == EntryAt(d, p).inode
         IN  IF IsDir(x) THEN SeenEmpty(x) /\ R = {PtrAt(x, 0), x} ELSE R = Held(x)
  PROVE  \E x \in S : RemovedAt(S, d, p, x)
<1>1. IsDir(d) /\ p \in ValidAt(d) /\ p \in Positions(d)
  BY DEF FirstMatch, FirstOf, Matches, ValidAt
<1>2. NoEntry \in Entry
  BY DEF NoEntry, Entry
<1>3. SlotWritten(S, d, p, NoEntry)
  BY <1>1, <1>2 DEF SlotWritten, ClearedEntry, TypeOK
<1>4. PICK x \in S : x = EntryAt(d, p).inode
  BY MatchInode
<1>5. Sound(S \ {x})'
  BY <1>1, <1>3, <1>4, RemoveSound DEF SaveMap
<1>6. IF IsDir(x) THEN SeenEmpty(x) /\ bitmap' = bitmap \ {PtrAt(x, 0), x}
      ELSE bitmap' = bitmap \ Held(x)
  BY <1>4
<1> QED BY <1>1, <1>3, <1>4, <1>5, <1>6 DEF RemovedAt

LEMMA UnlinkNext ==
  ASSUME TypeOK, SavedBitsAreSet, NEW S \in SUBSET Blocks, Sound(S),
         NEW d \in S, NEW n, fs_unlink(d, n)
  PROVE  IF ret' = "ok"
         THEN \E p \in FirstMatch(d, n), x \in S : RemovedAt(S, d, p, x) /\ ~IsDir(x)
         ELSE Kept(S)
<1>1. CASE Fails("EISDIR")
  BY <1>1, FailsNext DEF Fails
<1>2. ASSUME NEW p \in FirstMatch(d, n), disk' = ClearedEntry(d, p), SaveMap,
             ~IsDir(EntryAt(d, p).inode),
             bitmap' = bitmap \ (BlocksOf(read_inode(EntryAt(d, p).inode))
                                 \cup {EntryAt(d, p).inode})
      PROVE  \E x \in S : RemovedAt(S, d, p, x) /\ ~IsDir(x)
  <2>1. PICK R : R = Held(EntryAt(d, p).inode)
    OBVIOUS
  <2>2. bitmap' = bitmap \ R
    BY <1>2, <2>1 DEF Held
  <2>3. PICK x \in S : RemovedAt(S, d, p, x)
    BY <1>2, <2>1, <2>2, RemoveNext
  <2> QED BY <1>2, <2>3 DEF RemovedAt
<1> QED BY <1>1, <1>2 DEF fs_unlink

LEMMA RmdirNext ==
  ASSUME TypeOK, SavedBitsAreSet, NEW S \in SUBSET Blocks, Sound(S),
         NEW d \in S, NEW n, fs_rmdir(d, n)
  PROVE  IF ret' = "ok"
         THEN \E p \in FirstMatch(d, n), x \in S : RemovedAt(S, d, p, x) /\ IsDir(x)
         ELSE Kept(S)
<1>1. ASSUME NEW e \in {"ENOTDIR", "ENOTEMPTY"}, Fails(e) PROVE Kept(S) /\ ret' # "ok"
  BY <1>1, FailsNext DEF Fails
<1>2. ASSUME NEW p \in FirstMatch(d, n), IsDir(EntryAt(d, p).inode),
             SeenEmpty(EntryAt(d, p).inode), disk' = ClearedEntry(d, p), SaveMap,
             bitmap' = bitmap \ {read_inode(EntryAt(d, p).inode).ptrs[0], EntryAt(d, p).inode}
      PROVE  \E x \in S : RemovedAt(S, d, p, x) /\ IsDir(x)
  <2> DEFINE x == EntryAt(d, p).inode
  <2>1. x \in Blocks /\ WellFormed(x)
    BY <1>2, MatchInode, SoundParts
  <2>2. PtrAt(x, 0) \in Held(x)
    BY <1>2, <2>1, HeldParts DEF WellFormed, RightKind
  <2>3. PICK R : R = {read_inode(x).ptrs[0], x}
    OBVIOUS
  <2>4. R \subseteq Held(EntryAt(d, p).inode)
    BY <2>2, <2>3 DEF PtrAt, Held
  <2>5. bitmap' = bitmap \ R /\ R = {PtrAt(x, 0), x}
    BY <1>2, <2>3 DEF PtrAt
  <2>6. PICK y \in S : RemovedAt(S, d, p, y)
    BY <1>2, <2>4, <2>5, RemoveNext
  <2> QED BY <1>2, <2>6 DEF RemovedAt
<1> QED BY <1>1, <1>2 DEF fs_rmdir

\* In a directory of one block, the scan of rename sees every entry.
LEMMA OneBlockSeen ==
  ASSUME TypeOK, NEW d \in Blocks, BlockCount(d) = 1, NEW n1, NEW n2,
         NEW p \in ValidAt(d), ~DestinationSeen(d, p, n1, n2)
  PROVE  n1 = n2 \/ ~HasName(d, n2)
<1>1. \A q \in Positions(d) : q[1] = 0
  BY PositionParts DEF Indices
<1>2. \A q \in ValidAt(d) : q[1] <= p[1]
  BY <1>1 DEF ValidAt
<1> QED BY <1>2 DEF DestinationSeen, HasName, Matches

LEMMA RenameNext ==
  ASSUME TypeOK, SavedBitsAreSet, NEW S \in SUBSET Blocks, Sound(S),
         NEW d1 \in S, NEW n1, NEW d2, NEW n2 \in Names, fs_rename(d1, n1, d2, n2)
  PROVE  IF ret' = "ok"
         THEN d1 = d2 /\ \E q \in Matches(d1, n1) : IsDir(d1) /\ RenamedAt(S, d1, q, n2)
         ELSE Kept(S)
<1>1. ASSUME NEW e \in {"ENOENT", "EINVAL", "EEXIST"}, Fails(e)
      PROVE  Kept(S) /\ ret' # "ok"
  BY <1>1, FailsNext DEF Fails
<1>2. ASSUME NEW p \in FirstMatch(d1, n1), NEW q \in SourceEntry(d1, p, n1),
             disk' = SetEntry(disk, BlockAt(d1, q), q[2], NewEntry(EntryAt(d1, q).inode, n2)),
             ~DestinationSeen(d1, p, n1, n2), UNCHANGED <<map_blk, bitmap>>
      PROVE  q \in Matches(d1, n1) /\ IsDir(d1) /\ RenamedAt(S, d1, q, n2)
  <2> DEFINE e == NewEntry(EntryAt(d1, q).inode, n2)
  <2>1. IsDir(d1) /\ q \in ValidAt(d1) /\ q \in Positions(d1)
    BY <1>2 DEF FirstMatch, SourceEntry, Matches, ValidAt
  <2>2. e \in Entry /\ e.inode = EntryAt(d1, q).inode
    <3>1. EntryAt(d1, q) \in Entry
      BY <2>1, SoundParts, PositionBlock
    <3> QED BY <3>1, NewEntryType DEF NewEntry, Entry
  <2>3. SlotWritten(S, d1, q, e)
    BY <1>2, <2>1, <2>2 DEF SlotWritten, TypeOK
  <2> HIDE DEF e
  <2>4. PICK f : f = e
    OBVIOUS
  <2>5. Sound(S)'
    BY <1>2, <2>1, <2>2, <2>3, <2>4, RenameSound
  <2>6. BlockCount(d1) = 1 => n2 = EntryAt(d1, q).name \/ ~HasName(d1, n2)
    <3>1. p \in ValidAt(d1) /\ EntryAt(d1, q).name = n1 /\ d1 \in Blocks
      BY <1>2 DEF FirstMatch, FirstOf, SourceEntry, Matches
    <3> QED BY <1>2, <3>1, OneBlockSeen
  <2>7. SlotWritten(S, d1, q, NewEntry(EntryAt(d1, q).inode, n2))
    BY <2>3 DEF e
  <2>8. q \in Matches(d1, n1)
    BY <1>2 DEF SourceEntry
  <2> QED BY <1>2, <2>1, <2>5, <2>6, <2>7, <2>8 DEF RenamedAt
<1> QED BY <1>1, <1>2 DEF fs_rename

LEMMA RewriteNext ==
  ASSUME TypeOK, NEW S \in SUBSET Blocks, Sound(S), NEW i \in S, RewriteInode(i)
  PROVE  Kept(S)
<1>1. disk[i].kind = "inode"
  BY SoundParts DEF WellFormed
<1>2. \A x \in Blocks : disk'[x] = disk[x]
  BY <1>1 DEF RewriteInode, read_inode, TypeOK
<1>3. map_blk' = map_blk /\ bitmap' = bitmap
  BY DEF RewriteInode
<1> QED BY <1>2, <1>3, KeepNext

\* What a call on the file f may change: f's inode and blocks of its own.
LEMMA OthersApart ==
  ASSUME TypeOK, NEW S, Sound(S), NEW f \in S, NEW i \in S \ {f}, NEW x \in Held(i)
  PROVE  x \in Blocks /\ x # f /\ x \notin Held(f) /\ x \in map_blk
<1>1. i \in Blocks /\ WellFormed(i) /\ Held(i) \subseteq map_blk /\ f \in Held(f)
  BY SoundParts DEF Held
<1>2. Held(i) \cap Held(f) = {} /\ Held(i) \subseteq Blocks
  BY <1>1, HeldParts DEF Sound, Shape, Disjoint, WellFormed
<1> QED BY <1>1, <1>2

LEMMA TruncateNext ==
  ASSUME TypeOK, SavedBitsAreSet, NEW S \in SUBSET Blocks, Sound(S),
         NEW f \in S, NEW len, fs_truncate(f, len)
  PROVE  IF ret' = "ok" THEN FileChangedTo(S, f, 0) ELSE Kept(S)
<1>1. ASSUME NEW e \in {"EINVAL", "EISDIR"}, Fails(e) PROVE Kept(S) /\ ret' # "ok"
  BY <1>1, FailsNext DEF Fails
<1>2. ASSUME ~IsDir(f), bitmap' = bitmap \ BlocksOf(read_inode(f)), SaveMap,
             disk' = [disk EXCEPT ![f] = Emptied(read_inode(f))]
      PROVE  FileChangedTo(S, f, 0)
  <2>1. f \in Blocks /\ WellFormed(f) /\ f \in map_blk
    BY SoundParts DEF Held
  <2>2. PICK ino \in InodeBlock : ino = read_inode(f) /\ ino.type = "file"
    BY <1>2, <2>1, ReadInodeType DEF TypeOK, WellFormed, IsDir
  <2>3. /\ disk'[f].kind = "inode" /\ disk'[f].type = "file"
        /\ disk'[f].size = 0 /\ disk'[f].ptrs = NullPtrs
    <3>1. disk'[f] = Emptied(ino)
      BY <1>2, <2>1, <2>2 DEF TypeOK
    <3> QED BY <2>2, <3>1 DEF Emptied, InodeBlock
  <2>4. WellFormed(f)' /\ Held(f)' = {f} /\ ~IsDir(f)'
    BY <2>1, <2>3, NewFile
  <2>5. \A x \in Blocks : x # f => disk'[x] = disk[x]
    BY <1>2 DEF TypeOK
  <2>6. f \in map_blk'
    <3>1. f \notin BlocksOf(read_inode(f))
      BY <2>1 DEF WellFormed, OwnBlocks, BlocksOf, PtrAt, Indices, BlockCount
    <3> QED BY <1>2, <2>1, <3>1 DEF SaveMap, SavedBitsAreSet
  <2>7. \A i \in S \ {f} : /\ Held(i) \subseteq map_blk' /\ Held(i) \cap Held(f)' = {}
                           /\ \A x \in Held(i) : disk'[x] = disk[x]
    BY <1>2, <2>4, <2>5, OthersApart DEF SaveMap, SavedBitsAreSet, Held
  <2>8. Sound(S)' /\ \A i \in S \ {f} : SameNode(i)
    <3>1. Held(f)' \subseteq map_blk'
      BY <2>4, <2>6
    <3> QED BY <1>2, <2>4, <2>7, <3>1, FileSound
  <2>9. read_inode(f)'.size = 0
    BY <2>3 DEF read_inode
  <2>10. bitmap' \ Held(f)' \subseteq bitmap \ Held(f)
    BY <1>2, <2>4 DEF Held
  <2> QED BY <1>2, <2>4, <2>8, <2>9, <2>10 DEF FileChangedTo
<1> QED BY <1>1, <1>2 DEF fs_truncate

-----------------------------------------------------------------------------
(* fs_write *)

LEMMA ModBelow ==
  ASSUME NEW n \in Nat, NEW m \in Nat, n < m
  PROVE  n % m = n
OBVIOUS

LEMMA ModOfNegative ==
  ASSUME NEW n \in Nat \ {0}, NEW m \in Nat, n < m
  PROVE  (0 - n) % m = m - n
OBVIOUS

LEMMA CeilDivGrows ==
  ASSUME NEW n \in Nat, NEW m \in Nat, n <= m
  PROVE  CeilDiv(n) <= CeilDiv(m) /\ CeilDiv(m) <= m
<1>1. CeilDiv(n) \in Nat /\ CeilDiv(m) \in Nat /\ BlockSize \in Nat \ {0}
  BY CeilDivLess, DiskAssumption
<1>2. ~(CeilDiv(m) < CeilDiv(n))
  BY <1>1, CeilDivLess
<1>3. m <= m * BlockSize
  BY <1>1
<1>4. ~(m < CeilDiv(m))
  BY <1>1, <1>3, CeilDivLess
<1> QED BY <1>1, <1>2, <1>4

LEMMA FreeCount ==
  Cardinality(FreeBlocks) \in Nat /\ Cardinality(FreeBlocks) <= DiskSize
<1>1. IsFiniteSet(Blocks) /\ Cardinality(Blocks) <= DiskSize
  BY FS_Interval, DiskAssumption
<1>2. FreeBlocks \in SUBSET Blocks
  BY DEF FreeBlocks
<1>3. IsFiniteSet(FreeBlocks) /\ Cardinality(FreeBlocks) <= Cardinality(Blocks)
  BY <1>1, <1>2, FS_Subset
<1>4. Cardinality(FreeBlocks) \in Nat /\ Cardinality(Blocks) \in Nat
  BY <1>1, <1>3, FS_CardinalityType
<1> QED BY <1>1, <1>3, <1>4, DiskAssumption

\* A write that finds enough free blocks is not one whose demand wrapped around.
LEMMA NoWrap ==
  ASSUME NEW sz \in 0 .. MaxSize, NEW end \in 0 .. MaxSize,
         NEW need, need = (CeilDiv(end) - CeilDiv(sz)) % UInt32,
         need <= Cardinality(FreeBlocks)
  PROVE  need \in Nat /\ CeilDiv(end) = CeilDiv(sz) + need
<1> DEFINE a == CeilDiv(end)
           c == CeilDiv(sz)
<1>1. a \in Nat /\ c \in Nat /\ a <= MaxSize /\ c <= MaxSize
  BY CeilDivLess, CeilDivGrows, DiskAssumption
<1>2. UInt32 \in Nat /\ UInt32 > DiskSize + MaxSize /\ DiskSize \in Nat /\ MaxSize \in Nat
  BY DiskAssumption
<1>3. need <= DiskSize
  <2>1. need \in Int
    BY <1>1, <1>2
  <2> QED BY <1>2, <2>1, FreeCount
<1>4. need = (a - c) % UInt32
  OBVIOUS
<1> HIDE DEF a, c
<1>5. CASE c <= a
  <2>1. need = a - c
    BY <1>1, <1>2, <1>4, <1>5, ModBelow
  <2> QED BY <1>1, <1>5, <2>1 DEF a, c
<1>6. CASE a < c
  <2>1. PICK n \in Nat \ {0} : n = c - a /\ a - c = 0 - n /\ n < UInt32
    BY <1>1, <1>2, <1>6
  <2>2. need = UInt32 - n
    BY <1>2, <1>4, <2>1, ModOfNegative
  <2> QED BY <1>1, <1>2, <1>3, <2>1, <2>2
<1> QED BY <1>1, <1>5, <1>6

\* The bytes written lie below their end, and reach every block behind the file's.
LEMMA TouchedBlocks ==
  ASSUME NEW off \in Nat, NEW len \in Nat
  PROVE  /\ \A k \in Touched(off, len) : k \in Nat /\ k * BlockSize < off + len
         /\ \A k \in Nat : off <= k * BlockSize /\ k * BlockSize < off + len
              => k \in Touched(off, len)
<1> BlockSize \in Nat \ {0}
  BY DiskAssumption
<1>1. CASE len = 0
  BY <1>1 DEF Touched
<1>2. CASE len # 0
  <2> DEFINE q == off \div BlockSize
             r == (off + len - 1) \div BlockSize
  <2>1. off + len - 1 \in Nat
    BY <1>2
  <2>2. /\ q \in Nat /\ q * BlockSize <= off /\ off < q * BlockSize + BlockSize
        /\ r \in Nat /\ r * BlockSize <= off + len - 1
        /\ off + len - 1 < r * BlockSize + BlockSize
    BY <2>1, DivBounds
  <2>3. Touched(off, len) = q .. r
    BY <1>2 DEF Touched
  <2> HIDE DEF q, r
  <2>4. ASSUME NEW k \in Nat, k <= r PROVE k * BlockSize <= r * BlockSize
    BY <2>2, <2>4
  <2>5. ASSUME NEW k \in Nat, off <= k * BlockSize, k * BlockSize < off + len
        PROVE  q <= k /\ k <= r
    <3>1. ASSUME k < q PROVE FALSE
      <4>1. (k + 1) * BlockSize <= q * BlockSize
        BY <2>2, <3>1
      <4> QED BY <2>2, <2>5, <4>1
    <3>2. ASSUME r < k PROVE FALSE
      <4>1. (r + 1) * BlockSize <= k * BlockSize
        BY <2>2, <3>2
      <4> QED BY <2>2, <2>5, <4>1
    <3> QED BY <2>2, <3>1, <3>2
  <2>6. ASSUME NEW k \in q .. r PROVE k \in Nat /\ k * BlockSize < off + len
    BY <2>2, <2>4
  <2> QED BY <2>2, <2>3, <2>5, <2>6
<1> QED BY <1>1, <1>2

\* The pointers of an inode that was given the blocks of new.
LEMMA ExtendedParts ==
  ASSUME NEW ino \in InodeBlock, NEW n \in Nat, NEW new \in [0 .. n - 1 -> FreeBlocks],
         NEW c, c = CeilDiv(ino.size), NEW ext, ext = Extended(ino, new)
  PROVE  /\ ext \in InodeBlock /\ ext.type = ino.type /\ ext.size = ino.size
         /\ \A k \in PtrIndex : ext.ptrs[k] = IF k - c \in 0 .. n - 1 THEN new[k - c]
                                              ELSE ino.ptrs[k]
<1> DEFINE ps == [k \in PtrIndex |-> IF k - c \in DOMAIN new THEN new[k - c] ELSE ino.ptrs[k]]
<1>1. ps \in [PtrIndex -> {0} \cup Blocks]
  BY FreeTypes DEF InodeBlock
<1>2. \A k \in PtrIndex : ps[k] = IF k - c \in 0 .. n - 1 THEN new[k - c] ELSE ino.ptrs[k]
  OBVIOUS
<1>3. ext = [ino EXCEPT !.ptrs = ps]
  BY DEF Extended
<1> HIDE DEF ps
<1>4. ext \in InodeBlock /\ ext.type = ino.type /\ ext.size = ino.size /\ ext.ptrs = ps
  BY <1>1, <1>3 DEF InodeBlock
<1> QED BY <1>2, <1>4

\* The image after the bytes and the inode were written.
LEMMA WrittenParts ==
  ASSUME TypeOK, NEW f \in Blocks, NEW ino \in InodeBlock, NEW off \in Nat, NEW len \in Nat,
         off + len <= MaxSize, disk' = Written(f, ino, off, len)
  PROVE  /\ disk'[f].kind = "inode" /\ disk'[f].type = ino.type
         /\ disk'[f].ptrs = ino.ptrs /\ disk'[f].size = NewSize(ino, off, len)
         /\ \A x \in Blocks \ {f} :
              disk'[x] = IF \E k \in Touched(off, len) : x = ino.ptrs[k] THEN Data(f)
                         ELSE disk[x]
<1> DEFINE data == {ino.ptrs[k] : k \in Touched(off, len)}
           filled == [b \in Blocks |-> IF b \in data THEN Data(f) ELSE disk[b]]
           end == [ino EXCEPT !.size = NewSize(ino, off, len)]
<1>1. disk' = [filled EXCEPT ![f] = end]
  BY DEF Written
<1>2. \A x \in Blocks : filled[x] = IF x \in data THEN Data(f) ELSE disk[x]
  OBVIOUS
<1>3. disk'[f] = end /\ \A x \in Blocks \ {f} : disk'[x] = filled[x]
  BY <1>1
<1>4. /\ end.kind = "inode" /\ end.type = ino.type
      /\ end.ptrs = ino.ptrs /\ end.size = NewSize(ino, off, len)
  BY DEF InodeBlock
<1> HIDE DEF filled, end
<1> QED BY <1>2, <1>3, <1>4

\* What a write makes of the inode: a pointer to each block of new behind those
\* the file has.
Grown(f, ino, new) ==
  /\ ino \in InodeBlock /\ ino.type = "file" /\ ino.size >= read_inode(f).size
  /\ new = {ino.ptrs[k] : k \in BlockCount(f) .. CeilDiv(ino.size) - 1}
  /\ \A h, k \in BlockCount(f) .. CeilDiv(ino.size) - 1 : ino.ptrs[h] = ino.ptrs[k] => h = k
  /\ \A k \in PtrIndex :
       /\ k < BlockCount(f) => ino.ptrs[k] = PtrAt(f, k)
       /\ ~(k < CeilDiv(ino.size)) => ino.ptrs[k] = 0

\* What fs_write computes from the inode: ext, with the new pointers, and ino, with
\* the new size. It writes no block but the file's, and all of the new ones.
Planned(f, off, len, new, ext, ino) ==
  /\ ext = Extended(read_inode(f), new)
  /\ ino = Written(f, ext, off, len)[f]
  /\ ino.ptrs = ext.ptrs /\ Grown(f, ino, {new[k] : k \in DOMAIN new})
  /\ \A k \in Touched(off, len) : k \in 0 .. CeilDiv(ino.size) - 1
  /\ \A k \in BlockCount(f) .. CeilDiv(ino.size) - 1 : k \in Touched(off, len)

LEMMA WriteGrows ==
  ASSUME TypeOK, NEW f \in Blocks, WellFormed(f), ~IsDir(f),
         NEW off \in 0 .. MaxSize, NEW len \in 0 .. MaxSize,
         off + len <= MaxSize, off <= read_inode(f).size,
         NEW need, need = NewBlocksNeeded(read_inode(f), off + len),
         need <= Cardinality(FreeBlocks), NEW new \in Allocations(need)
  PROVE  /\ need \in Nat /\ new \in [0 .. need - 1 -> FreeBlocks]
         /\ \E ext, ino \in InodeBlock : Planned(f, off, len, new, ext, ino)
<1>1. PICK added : added = {new[k] : k \in DOMAIN new}
  OBVIOUS
<1>2. PICK old \in InodeBlock : old = read_inode(f) /\ old.type = "file"
  BY ReadInodeType DEF TypeOK, WellFormed, IsDir
<1>3. PICK sz \in 0 .. MaxSize, c \in 0 .. NPtrs :
        sz = old.size /\ c = CeilDiv(sz) /\ c = BlockCount(f)
  BY <1>2, InodeFields DEF BlockCount
<1> off \in Nat /\ len \in Nat /\ off + len \in 0 .. MaxSize
  BY DiskAssumption
<1>4. need \in Nat /\ CeilDiv(off + len) = c + need
  <2>1. need = (CeilDiv(off + len) - CeilDiv(sz)) % UInt32
    BY <1>2, <1>3 DEF NewBlocksNeeded
  <2>2. need \in Nat /\ CeilDiv(off + len) = CeilDiv(sz) + need
    BY <2>1, NoWrap
  <2> QED BY <1>3, <2>2
<1>5. /\ new \in [0 .. need - 1 -> FreeBlocks]
      /\ \A h, k \in 0 .. need - 1 : h < k => new[h] < new[k]
  BY DEF Allocations
<1>6. PICK ext \in InodeBlock :
        /\ ext = Extended(old, new) /\ ext.type = old.type /\ ext.size = sz
        /\ \A k \in PtrIndex : ext.ptrs[k] = IF k - c \in 0 .. need - 1 THEN new[k - c]
                                             ELSE old.ptrs[k]
  <2>1. PICK ext : ext = Extended(old, new)
    OBVIOUS
  <2>2. /\ ext \in InodeBlock /\ ext.type = old.type /\ ext.size = old.size
        /\ \A k \in PtrIndex : ext.ptrs[k] = IF k - c \in 0 .. need - 1 THEN new[k - c]
                                             ELSE old.ptrs[k]
    <3>1. c = CeilDiv(old.size) /\ need \in Nat /\ new \in [0 .. need - 1 -> FreeBlocks]
      BY <1>3, <1>4, <1>5
    <3> HIDE <1>3
    <3> QED BY SMTT(30), <2>1, <3>1, ExtendedParts
  <2>3. ext.size = sz
    BY <1>3, <2>2
  <2> QED BY <2>1, <2>2, <2>3
<1>7. PICK ns \in 0 .. MaxSize :
        ns = NewSize(ext, off, len) /\ ns = IF off + len > sz THEN off + len ELSE sz
  BY <1>6, DiskAssumption DEF NewSize
\* The new size has as many blocks as the file had and was given.
<1>8. CeilDiv(ns) = c + need /\ c + need <= NPtrs
  <2>1. CeilDiv(ns) = c + need
    <3>1. CASE off + len > sz
      BY <1>4, <1>7, <3>1
    <3>2. CASE off + len <= sz
      <4>1. CeilDiv(off + len) <= CeilDiv(sz)
        BY <3>2, CeilDivGrows, DiskAssumption
      <4>2. need = 0
        BY <1>3, <1>4, <4>1
      <4>3. ns = sz /\ c = c + need
        BY <1>3, <1>7, <3>2, <4>2
      <4> QED BY <1>3, <4>3
    <3> QED BY <3>1, <3>2, DiskAssumption
  <2>2. ~(NPtrs < CeilDiv(ns))
    BY <1>7, CeilDivLess, DiskAssumption
  <2> QED BY <1>4, <2>1, <2>2, DiskAssumption
<1>9. PICK ino \in InodeBlock :
        /\ ino = Written(f, ext, off, len)[f]
        /\ ino.type = "file" /\ ino.ptrs = ext.ptrs /\ ino.size = ns
  <2>1. PICK ino : ino = [ext EXCEPT !.size = ns]
    OBVIOUS
  <2>2. ext.type = "file"
    BY <1>2, <1>6
  <2>3. ino \in InodeBlock /\ ino.type = ext.type /\ ino.ptrs = ext.ptrs /\ ino.size = ns
    BY <2>1 DEF InodeBlock
  <2>4. Written(f, ext, off, len)[f] = ino
    BY <1>7, <2>1 DEF Written
  <2> QED BY <2>1, <2>2, <2>3, <2>4
<1>10. BlockCount(f) .. CeilDiv(ino.size) - 1 = c .. c + need - 1
       /\ 0 .. CeilDiv(ino.size) - 1 = 0 .. c + need - 1
  <2>1. BlockCount(f) = c /\ CeilDiv(ino.size) = c + need
    BY <1>3, <1>8, <1>9
  <2>2. need \in Nat
    BY <1>4
  <2> HIDE <1>4
  <2>3. \A m, e : m = c /\ e = c + need =>
          m .. e - 1 = c .. c + need - 1 /\ 0 .. e - 1 = 0 .. c + need - 1
    BY <2>2
  <2> QED BY <2>1, <2>3, Zenon
<1>11. ASSUME NEW k \in c .. c + need - 1
       PROVE  k \in PtrIndex /\ k - c \in 0 .. need - 1 /\ ino.ptrs[k] = new[k - c]
  <2>1. k \in PtrIndex /\ k - c \in 0 .. need - 1
    BY <1>3, <1>4, <1>8, DiskAssumption
  <2> QED BY <1>6, <1>9, <2>1
<1>12. added = {ino.ptrs[k] : k \in c .. c + need - 1}
  <2>1. ASSUME NEW k \in 0 .. need - 1
        PROVE  c + k \in c .. c + need - 1 /\ new[k] = ino.ptrs[c + k]
    <3>1. c + k \in c .. c + need - 1 /\ (c + k) - c = k
      BY <1>3, <1>4
    <3> QED BY <1>11, <3>1
  <2> QED BY <1>1, <1>5, <1>11, <2>1
<1>13. ASSUME NEW h \in c .. c + need - 1, NEW k \in c .. c + need - 1, ino.ptrs[h] = ino.ptrs[k]
       PROVE  h = k
  <2>1. new[h - c] = new[k - c] /\ h - c \in 0 .. need - 1 /\ k - c \in 0 .. need - 1
    BY <1>11, <1>13
  <2>2. new[h - c] \in Int
    BY <1>5, <2>1, DiskAssumption DEF FreeBlocks
  <2>3. ~(h - c < k - c) /\ ~(k - c < h - c)
    BY <1>5, <2>1, <2>2
  <2> QED BY <1>3, <2>3
<1>14. ASSUME NEW k \in PtrIndex
       PROVE  /\ k < c => ino.ptrs[k] = PtrAt(f, k)
              /\ ~(k < c + need) => ino.ptrs[k] = 0
  <2>1. k \in Int /\ (k < c \/ ~(k < c + need) => k - c \notin 0 .. need - 1)
    BY <1>3, <1>4, DiskAssumption
  <2>2. k < c \/ ~(k < c + need) => ino.ptrs[k] = PtrAt(f, k)
    BY <1>2, <1>6, <1>9, <2>1 DEF PtrAt
  <2>3. ~(k < c + need) => PtrAt(f, k) = 0
    <3>1. ~(k < c + need) => ~(k < c)
      BY <1>3, <1>4, <2>1
    <3> QED BY <1>3, <3>1 DEF WellFormed, RightKind
  <2> QED BY <2>2, <2>3
<1>15. Grown(f, ino, added)
  <2>1. ino.size >= read_inode(f).size
    BY <1>2, <1>3, <1>7, <1>9, DiskAssumption
  <2> QED BY <1>3, <1>8, <1>9, <1>10, <1>12, <1>13, <1>14, <2>1 DEF Grown
\* Every new block is written, and no byte behind the file.
<1>16. \A k \in c .. c + need - 1 : k \in Touched(off, len)
  <2> SUFFICES ASSUME NEW k \in c .. c + need - 1 PROVE k \in Touched(off, len)
    OBVIOUS
  <2>1. k \in Nat /\ ~(k < CeilDiv(sz)) /\ k < CeilDiv(off + len) /\ sz \in Nat /\ off + len \in Nat
    BY <1>3, <1>4, DiskAssumption
  <2>2. ~(k * BlockSize < sz) /\ k * BlockSize < off + len
    BY <2>1, CeilDivLess
  <2>3. off <= k * BlockSize
    BY <1>2, <1>3, <2>1, <2>2, DiskAssumption
  <2> QED BY <2>1, <2>2, <2>3, TouchedBlocks, DiskAssumption
<1>17. \A k \in Touched(off, len) : k \in 0 .. c + need - 1
  <2> SUFFICES ASSUME NEW k \in Touched(off, len) PROVE k \in 0 .. c + need - 1
    OBVIOUS
  <2>1. k \in Nat /\ k * BlockSize < off + len /\ off + len \in Nat
    <3>1. off \in Nat /\ len \in Nat /\ off + len \in Nat
      BY DiskAssumption
    <3> QED BY <3>1, TouchedBlocks
  <2>2. k < CeilDiv(off + len)
    BY <2>1, CeilDivLess
  <2> QED BY <1>3, <1>4, <2>1, <2>2
<1>18. Planned(f, off, len, new, ext, ino)
  BY <1>1, <1>2, <1>6, <1>9, <1>10, <1>15, <1>16, <1>17 DEF Planned
<1> QED BY <1>4, <1>5, <1>18

\* The file is whole once its inode is written, if its new blocks are.
LEMMA GrownFile ==
  ASSUME TypeOK, NEW f \in Blocks, WellFormed(f), ~IsDir(f),
         NEW ino, NEW new \in SUBSET Blocks, new \cap Held(f) = {}, Grown(f, ino, new),
         disk'[f] = ino, \A x \in (Held(f) \ {f}) \cup new : disk'[x] = Data(f)
  PROVE  /\ WellFormed(f)' /\ ~IsDir(f)' /\ Held(f)' = Held(f) \cup new
         /\ read_inode(f)'.size >= read_inode(f).size
<1>1. PICK c \in 0 .. NPtrs : c = BlockCount(f)
  BY InodeFields
<1>2. PICK e \in 0 .. NPtrs : e = CeilDiv(ino.size) /\ c <= e
  <2>1. ino.size \in 0 .. MaxSize /\ read_inode(f).size \in 0 .. MaxSize
    BY InodeFields DEF Grown, InodeBlock
  <2>2. ino.size >= read_inode(f).size /\ ino.size \in Nat /\ read_inode(f).size \in Nat
    BY <2>1, DiskAssumption DEF Grown
  <2>3. CeilDiv(ino.size) \in Nat /\ ~(NPtrs < CeilDiv(ino.size))
    BY <2>1, <2>2, CeilDivLess, DiskAssumption
  <2>4. CeilDiv(read_inode(f).size) <= CeilDiv(ino.size)
    BY <2>2, CeilDivGrows
  <2>5. CeilDiv(ino.size) \in 0 .. NPtrs
    BY <2>3, DiskAssumption
  <2> QED BY <1>1, <2>4, <2>5 DEF BlockCount
<1>3. /\ read_inode(f)' = ino /\ ~IsDir(f)' /\ disk'[f].kind = "inode" /\ ino.type = "file"
      /\ \A k : PtrAt(f, k)' = ino.ptrs[k]
  <2>1. ino.kind = "inode" /\ ino.type = "file"
    BY DEF Grown, InodeBlock
  <2>2. read_inode(f)' = ino
    BY <2>1 DEF read_inode
  <2> QED BY <2>1, <2>2 DEF IsDir, PtrAt
<1>4. BlockCount(f)' = e /\ Indices(f)' = 0 .. e - 1 /\ Indices(f) = 0 .. c - 1
  BY <1>1, <1>2, <1>3 DEF BlockCount, Indices
<1>5. new = {ino.ptrs[k] : k \in c .. e - 1}
      /\ \A h, k \in c .. e - 1 : ino.ptrs[h] = ino.ptrs[k] => h = k
  BY <1>1, <1>2 DEF Grown
<1>6. \A k \in PtrIndex : /\ k < c => ino.ptrs[k] = PtrAt(f, k)
                          /\ ~(k < e) => ino.ptrs[k] = 0
  BY <1>1, <1>2 DEF Grown
\* A pointer is one the file had or a new one, by its index.
<1>7. ASSUME NEW k \in 0 .. c - 1
      PROVE  /\ ino.ptrs[k] = PtrAt(f, k) /\ k \in Indices(f)
             /\ ino.ptrs[k] \in Blocks /\ ino.ptrs[k] # f /\ ino.ptrs[k] \in Held(f)
  <2>1. k \in Indices(f) /\ k \in PtrIndex /\ k < c
    BY <1>1, <1>4, DiskAssumption
  <2>2. PtrAt(f, k) \in Blocks /\ PtrAt(f, k) # f /\ PtrAt(f, k) \in Held(f)
    BY <2>1, HeldParts DEF WellFormed, OwnBlocks
  <2> QED BY <1>6, <2>1, <2>2
<1>8. ASSUME NEW k \in c .. e - 1
      PROVE  ino.ptrs[k] \in new /\ ino.ptrs[k] \in Blocks /\ ino.ptrs[k] \notin Held(f)
  BY <1>5
<1>9. \A k \in 0 .. e - 1 : k \in 0 .. c - 1 \/ k \in c .. e - 1
  BY <1>1, <1>2
<1>10. f \in Held(f)
  BY DEF Held
<1>11. OwnBlocks(f)'
  <2>1. ASSUME NEW k \in 0 .. e - 1, NEW h \in 0 .. e - 1, ino.ptrs[h] = ino.ptrs[k]
        PROVE  h = k
    <3>1. CASE h \in 0 .. c - 1 /\ k \in 0 .. c - 1
      BY <1>7, <2>1, <3>1 DEF WellFormed, OwnBlocks
    <3>2. CASE h \in c .. e - 1 /\ k \in c .. e - 1
      BY <1>5, <2>1, <3>2
    <3> QED BY <1>7, <1>8, <1>9, <2>1, <3>1, <3>2
  <2>2. \A k \in 0 .. e - 1 : ino.ptrs[k] \in Blocks /\ ino.ptrs[k] # f
    BY <1>7, <1>8, <1>9, <1>10
  <2> QED BY SMTT(30), <1>3, <1>4, <2>1, <2>2 DEF OwnBlocks
<1>12. RightKind(f)'
  <2>1. \A k \in 0 .. e - 1 : disk'[ino.ptrs[k]] = Data(f)
    BY <1>7, <1>8, <1>9
  <2>2. \A k \in PtrIndex : k < e => k \in 0 .. e - 1
    BY DiskAssumption
  <2>3. \A k \in PtrIndex : IF k < e THEN disk'[ino.ptrs[k]] = Data(f) ELSE ino.ptrs[k] = 0
    BY <1>6, <2>1, <2>2
  <2> QED BY <1>3, <1>4, <2>3 DEF RightKind, Data
<1>13. WellFormed(f)'
  BY <1>3, <1>11, <1>12 DEF WellFormed
<1>14. Held(f)' = {f} \cup {ino.ptrs[k] : k \in 0 .. e - 1}
  <2>1. BlocksOf(read_inode(f)') = {PtrAt(f, k)' : k \in Indices(f)'} \ {0}
    BY DEF BlocksOf, PtrAt, Indices, BlockCount
  <2>2. BlocksOf(read_inode(f)') = {ino.ptrs[k] : k \in 0 .. e - 1} \ {0}
    BY <1>3, <1>4, <2>1
  <2>3. \A k \in 0 .. e - 1 : ino.ptrs[k] # 0
    BY <1>7, <1>8, <1>9
  <2> QED BY <2>2, <2>3 DEF Held
<1>15. Held(f) = {f} \cup {ino.ptrs[k] : k \in 0 .. c - 1}
  <2>1. Held(f) = {f} \cup {PtrAt(f, k) : k \in 0 .. c - 1}
    BY <1>4, HeldParts DEF WellFormed
  <2> QED BY <1>7, <2>1
<1>16. Held(f)' = Held(f) \cup new
  <2>1. 0 .. e - 1 = (0 .. c - 1) \cup (c .. e - 1)
    BY <1>1, <1>2
  <2> QED BY <1>5, <1>14, <1>15, <2>1
<1>17. read_inode(f)'.size >= read_inode(f).size
  BY <1>3 DEF Grown
<1> QED BY <1>3, <1>13, <1>16, <1>17

LEMMA WriteSuccess ==
  ASSUME TypeOK, SavedBitsAreSet, NEW S \in SUBSET Blocks, Sound(S),
         NEW f \in S, ~IsDir(f), NEW off \in 0 .. MaxSize, NEW len \in 0 .. MaxSize,
         off + len <= MaxSize, off <= read_inode(f).size,
         NEW need, need = NewBlocksNeeded(read_inode(f), off + len),
         need <= Cardinality(FreeBlocks), NEW new \in Allocations(need),
         bitmap' = bitmap \cup {new[k] : k \in 0 .. need - 1},
         disk' = Written(f, Extended(read_inode(f), new), off, len),
         map_blk' = MapAfterWrite(need)
  PROVE  FileChangedTo(S, f, NewSize(read_inode(f), off, len))
<1>1. f \in Blocks /\ WellFormed(f) /\ Held(f) \subseteq map_blk /\ f \in Held(f)
  BY SoundParts DEF Held
<1>2. PICK added : added = {new[k] : k \in 0 .. need - 1}
  OBVIOUS
<1>3. need \in Nat /\ new \in [0 .. need - 1 -> FreeBlocks]
  BY <1>1, WriteGrows
<1>4. PICK ext, ino \in InodeBlock : Planned(f, off, len, new, ext, ino)
  BY <1>1, WriteGrows
<1>5. /\ ext = Extended(read_inode(f), new) /\ ino = Written(f, ext, off, len)[f]
      /\ ino.ptrs = ext.ptrs /\ Grown(f, ino, added)
      /\ \A k \in Touched(off, len) : k \in 0 .. CeilDiv(ino.size) - 1
      /\ \A k \in BlockCount(f) .. CeilDiv(ino.size) - 1 : k \in Touched(off, len)
  BY <1>2, <1>3, <1>4 DEF Planned
<1>6. /\ disk'[f].kind = "inode" /\ disk'[f].type = ext.type
      /\ disk'[f].ptrs = ext.ptrs /\ disk'[f].size = NewSize(ext, off, len)
      /\ \A x \in Blocks \ {f} :
           disk'[x] = IF \E k \in Touched(off, len) : x = ext.ptrs[k] THEN Data(f)
                      ELSE disk[x]
  <2>1. off \in Nat /\ len \in Nat /\ disk' = Written(f, ext, off, len)
    BY <1>5, DiskAssumption
  <2> QED BY SMTT(30), <1>1, <2>1, WrittenParts
<1>7. disk'[f] = ino /\ read_inode(f)'.size = ino.size
  <2>1. disk' = Written(f, ext, off, len)
    BY <1>5
  <2>2. disk'[f] = ino
    BY <1>5, <2>1
  <2>3. ino.kind = "inode"
    BY DEF InodeBlock
  <2> QED BY <2>2, <2>3 DEF read_inode
<1>8. added \in SUBSET Blocks /\ added \cap bitmap = {}
  BY <1>3, <1>2 DEF FreeBlocks
<1>9. added \cap Held(f) = {}
  BY <1>1, <1>8 DEF SavedBitsAreSet
\* Every block of the file is written, or held its bytes already.
<1>10. PICK c \in 0 .. NPtrs, e \in Nat : c = BlockCount(f) /\ e = CeilDiv(ino.size)
  <2>1. ino.size \in Nat
    BY DiskAssumption DEF InodeBlock
  <2> QED BY <1>1, <2>1, InodeFields, CeilDivLess
<1>11. \A k \in Indices(f) : /\ k \in PtrIndex /\ ext.ptrs[k] = PtrAt(f, k)
                             /\ disk[PtrAt(f, k)] = Data(f)
  <2> SUFFICES ASSUME NEW k \in Indices(f)
               PROVE  /\ k \in PtrIndex /\ ext.ptrs[k] = PtrAt(f, k)
                      /\ disk[PtrAt(f, k)] = Data(f)
    OBVIOUS
  <2>1. k \in PtrIndex /\ k < BlockCount(f)
    BY <1>1, <1>10, InodeFields, DiskAssumption DEF Indices
  <2> QED BY <1>1, <1>5, <2>1 DEF Grown, WellFormed, RightKind
<1>12. \A x \in (Held(f) \ {f}) \cup added : disk'[x] = Data(f)
  <2>1. ASSUME NEW x \in Held(f), x # f PROVE disk'[x] = Data(f)
    <3>1. PICK k \in Indices(f) : x = PtrAt(f, k)
      BY <1>1, <2>1, HeldParts DEF WellFormed
    <3>2. x \in Blocks /\ disk[x] = Data(f)
      BY <1>1, <1>11, <3>1 DEF WellFormed, OwnBlocks
    <3> QED BY <1>6, <2>1, <3>2
  <2>2. ASSUME NEW x \in added PROVE disk'[x] = Data(f)
    <3>1. PICK k \in BlockCount(f) .. CeilDiv(ino.size) - 1 : x = ext.ptrs[k]
      BY <1>5 DEF Grown
    <3>2. k \in Touched(off, len) /\ x \in Blocks /\ x # f
      BY <1>1, <1>5, <1>8, <1>9, <3>1
    <3> QED BY <1>6, <3>1, <3>2
  <2> QED BY <2>1, <2>2
<1>13. /\ WellFormed(f)' /\ ~IsDir(f)' /\ Held(f)' = Held(f) \cup added
       /\ read_inode(f)'.size >= read_inode(f).size
  BY <1>1, <1>5, <1>7, <1>8, <1>9, <1>12, GrownFile
<1>14. map_blk \subseteq map_blk' /\ added \subseteq map_blk'
  <2>1. CASE need = 0
    <3>1. added = {}
      BY <1>2, <2>1
    <3> QED BY <2>1, <3>1 DEF MapAfterWrite
  <2>2. CASE need # 0
    BY <1>2, <2>2 DEF MapAfterWrite, SavedBitsAreSet
  <2> QED BY <2>1, <2>2
<1>15. \A k \in Touched(off, len) : ext.ptrs[k] \in Held(f) \cup added
  <2> SUFFICES ASSUME NEW k \in Touched(off, len) PROVE ext.ptrs[k] \in Held(f) \cup added
    OBVIOUS
  <2>1. k \in 0 .. c - 1 \/ k \in c .. e - 1
    <3>1. k \in 0 .. e - 1
      BY <1>5, <1>10
    <3> HIDE <1>10
    <3> QED BY <3>1, DiskAssumption
  <2>2. k \in c .. e - 1 => ext.ptrs[k] \in added
    BY <1>5, <1>10 DEF Grown
  <2>3. ASSUME k \in 0 .. c - 1 PROVE ext.ptrs[k] \in Held(f)
    <3>1. k \in Indices(f)
      BY <1>10, <2>3 DEF Indices
    <3> QED BY <1>1, <1>11, <3>1, HeldParts DEF WellFormed
  <2> QED BY <2>1, <2>2, <2>3
<1>16. ASSUME NEW i \in S \ {f}
       PROVE  /\ Held(i) \subseteq map_blk' /\ Held(i) \cap Held(f)' = {}
              /\ \A x \in Held(i) : disk'[x] = disk[x]
  <2>1. \A x \in Held(i) : x \in Blocks /\ x # f /\ x \notin Held(f) /\ x \in map_blk
    BY OthersApart
  <2>2. \A x \in Held(i) : x \notin Held(f)'
    BY <1>8, <1>13, <2>1 DEF SavedBitsAreSet
  <2> QED BY <1>6, <1>13, <1>14, <1>15, <2>1, <2>2
<1>17. Sound(S)' /\ \A i \in S \ {f} : SameNode(i)
  BY <1>1, <1>13, <1>14, <1>16, FileSound
<1>18. bitmap' \ Held(f)' \subseteq bitmap \ Held(f)
  BY <1>2, <1>13
<1>19. read_inode(f)'.size = NewSize(read_inode(f), off, len)
  <2>1. disk'[f].size = NewSize(ext, off, len) /\ ext.size = read_inode(f).size
    <3>1. read_inode(f) \in InodeBlock
      BY <1>1, ReadInodeType DEF TypeOK
    <3> QED BY <1>5, <1>6, <3>1 DEF Extended, InodeBlock
  <2> QED BY <1>6, <2>1 DEF NewSize, read_inode
<1> QED BY <1>13, <1>17, <1>18, <1>19 DEF FileChangedTo

LEMMA WriteNext ==
  ASSUME TypeOK, SavedBitsAreSet, NEW S \in SUBSET Blocks, Sound(S),
         NEW f \in S, NEW off \in 0 .. MaxSize, NEW len \in 0 .. MaxSize,
         off + len <= MaxSize, fs_write(f, off, len)
  PROVE  IF ret' = "ok" THEN FileChangedTo(S, f, NewSize(read_inode(f), off, len))
         ELSE Kept(S)
<1>1. ASSUME NEW e \in {"EISDIR", "EINVAL"}, Fails(e) PROVE Kept(S) /\ ret' # "ok"
  BY <1>1, FailsNext DEF Fails
<1>2. ASSUME UNCHANGED <<disk, map_blk>>, ret' # "ok" PROVE Kept(S)
  BY <1>2, KeepNext
<1>3. PICK need : need = NewBlocksNeeded(read_inode(f), off + len)
  OBVIOUS
<1>4. ASSUME ~IsDir(f), off <= read_inode(f).size, need <= Cardinality(FreeBlocks),
             NEW new \in Allocations(need),
             bitmap' = bitmap \cup {new[k] : k \in 0 .. need - 1},
             disk' = Written(f, Extended(read_inode(f), new), off, len),
             map_blk' = MapAfterWrite(need)
      PROVE  FileChangedTo(S, f, NewSize(read_inode(f), off, len))
  BY <1>3, <1>4, WriteSuccess
<1> QED BY <1>1, <1>2, <1>3, <1>4 DEF fs_write

-----------------------------------------------------------------------------
(* The images gen-disk.py builds are sound *)

LEMMA DivOfMultiple ==
  ASSUME NEW m \in Nat, NEW n \in Nat \ {0}
  PROVE  (m * n) \div n = m
OBVIOUS

\* A directory of m blocks: where its entries are.
LEMMA DirectoryShape ==
  ASSUME NEW i \in Blocks, NEW m \in 1 .. NPtrs,
         disk[i].kind = "inode", disk[i].type = "dir", disk[i].size = m * BlockSize,
         \A k \in 0 .. m - 1 :
           /\ disk[i].ptrs[k] \in Blocks /\ disk[i].ptrs[k] # i
           /\ disk[disk[i].ptrs[k]].kind = "entries"
           /\ \A h \in 0 .. m - 1 : disk[i].ptrs[h] = disk[i].ptrs[k] => h = k
  PROVE  /\ WellFormed(i) /\ IsDir(i) /\ BlockCount(i) = m
         /\ Held(i) = {i} \cup {disk[i].ptrs[k] : k \in 0 .. m - 1}
         /\ Positions(i) = (0 .. m - 1) \X Slots
         /\ \A p : BlockAt(i, p) = disk[i].ptrs[p[1]]
<1>1. read_inode(i) = disk[i] /\ IsDir(i)
  BY DEF read_inode, IsDir
<1>2. m \in Nat /\ m # 0 /\ BlockSize \in Nat \ {0} /\ m * BlockSize \in Nat
  BY DiskAssumption
<1>3. (m * BlockSize) \div BlockSize = m
  BY <1>2, DivOfMultiple
<1>4. CeilDiv(m * BlockSize) = m
  <2>1. \A k \in Nat : k < m => k * BlockSize < m * BlockSize
    <3> SUFFICES ASSUME NEW k \in Nat, k < m PROVE k * BlockSize < m * BlockSize
      OBVIOUS
    <3>1. (k + 1) * BlockSize <= m * BlockSize
      BY <1>2
    <3> QED BY <1>2, <3>1
  <2>2. CeilDiv(m * BlockSize) \in Nat /\ ~(m < CeilDiv(m * BlockSize))
    BY <1>2, CeilDivLess
  <2>3. ~(CeilDiv(m * BlockSize) < m)
    <3>1. \A k \in Nat : k < CeilDiv(m * BlockSize) <=> k * BlockSize < m * BlockSize
      BY <1>2, CeilDivLess
    <3>2. m - 1 \in Nat /\ m - 1 < m
      BY <1>2
    <3>3. m - 1 < CeilDiv(m * BlockSize)
      BY <2>1, <3>1, <3>2
    <3> QED BY <1>2, <2>2, <3>3
  <2> QED BY <1>2, <2>2, <2>3
<1>5. BlockCount(i) = m /\ Indices(i) = 0 .. m - 1 /\ \A k : PtrAt(i, k) = disk[i].ptrs[k]
  BY <1>1, <1>4 DEF BlockCount, Indices, PtrAt
<1>6. OwnBlocks(i)
  BY <1>5 DEF OwnBlocks
<1>7. RightKind(i)
  BY <1>1, <1>2, <1>5 DEF RightKind
<1>8. WellFormed(i)
  BY <1>1, <1>6, <1>7 DEF WellFormed
<1>9. Held(i) = {i} \cup {disk[i].ptrs[k] : k \in 0 .. m - 1}
  <2>1. BlocksOf(read_inode(i)) = {disk[i].ptrs[k] : k \in 0 .. m - 1} \ {0}
    BY <1>1, <1>4 DEF BlocksOf
  <2>2. \A k \in 0 .. m - 1 : disk[i].ptrs[k] # 0
    OBVIOUS
  <2> QED BY <2>1, <2>2 DEF Held
<1>10. Positions(i) = (0 .. m - 1) \X Slots
  BY <1>1, <1>3 DEF Positions
<1> QED BY <1>1, <1>5, <1>8, <1>9, <1>10 DEF BlockAt

LEMMA NarrowSound ==
  ASSUME disk = NarrowImage, map_blk = {0, 1, Root, RootBlock}
  PROVE  Sound({Root}) /\ ValidAt(Root) = {} /\ BlockCount(Root) = 1
<1> USE DiskAssumption
<1>1. Root \in Blocks /\ RootBlock \in Blocks /\ RootBlock # Root
  OBVIOUS
<1>2. /\ disk[Root] = AnInode("dir", BlockSize, FirstPtr(RootBlock))
      /\ disk[RootBlock] = Entries(NoEntries)
  BY DEF NarrowImage
<1>3. /\ disk[Root].kind = "inode" /\ disk[Root].type = "dir"
      /\ disk[Root].size = BlockSize /\ disk[Root].ptrs[0] = RootBlock
  BY <1>2 DEF AnInode, FirstPtr, NullPtrs
<1>4. disk[RootBlock].kind = "entries" /\ disk[RootBlock].ent = NoEntries
  BY <1>2 DEF Entries
<1>5. /\ WellFormed(Root) /\ IsDir(Root) /\ BlockCount(Root) = 1
      /\ Held(Root) = {Root, RootBlock}
      /\ Positions(Root) = (0 .. 0) \X Slots
      /\ \A p : BlockAt(Root, p) = disk[Root].ptrs[p[1]]
  <2>1. 1 * BlockSize = BlockSize /\ 1 \in 1 .. NPtrs /\ 0 .. 1 - 1 = {0} /\ 0 .. 0 = {0}
    OBVIOUS
  <2> QED BY <1>1, <1>3, <1>4, <2>1, DirectoryShape
<1>6. ValidAt(Root) = {}
  <2>1. ASSUME NEW p \in Positions(Root) PROVE EntryAt(Root, p) = NoEntry
    <3>1. p[1] = 0 /\ p[2] \in Slots
      BY <1>5
    <3>2. EntryAt(Root, p) = NoEntries[p[2]]
      BY <1>3, <1>4, <1>5, <3>1 DEF EntryAt, ReadEntries
    <3> QED BY <3>1, <3>2 DEF NoEntries
  <2> QED BY <2>1 DEF ValidAt, Valid, NoEntry
<1> QED BY <1>1, <1>5, <1>6
        DEF Sound, Shape, Rooted, Marked, Disjoint, EntriesStay, OneEntryEach

LEMMA WideSound ==
  ASSUME NEW n \in Names, WideDir, disk = WideImage(n),
         map_blk = {0, 1, Root, 3, 4, 5, RootBlock}
  PROVE  Sound({Root, 3}) /\ \A i \in {Root, 3} : \A p, q \in ValidAt(i) : p = q
<1>1. DiskSize \in Nat /\ DiskSize >= 7 /\ NPtrs \in Nat /\ NPtrs >= 7 /\ BlockSize \in Nat
  BY DiskAssumption
<1>2. /\ Root \in Blocks /\ RootBlock \in Blocks /\ RootBlock \notin {0, 1, Root, 3, 4, 5}
      /\ 3 \in Blocks /\ 4 \in Blocks /\ 5 \in Blocks
  BY <1>1
<1> DEFINE wide == AnInode("dir", 2 * BlockSize, [FirstPtr(4) EXCEPT ![1] = 5])
           none == Entries(NoEntries)
           narrow == [NarrowImage EXCEPT ![3] = wide, ![4] = none, ![5] = none]
<1>3. /\ DOMAIN narrow = Blocks
      /\ narrow[Root] = AnInode("dir", BlockSize, FirstPtr(RootBlock))
      /\ narrow[RootBlock] = Entries(NoEntries)
      /\ narrow[3] = wide /\ narrow[4] = none /\ narrow[5] = none
  <2>1. /\ DOMAIN NarrowImage = Blocks
        /\ NarrowImage[Root] = AnInode("dir", BlockSize, FirstPtr(RootBlock))
        /\ NarrowImage[RootBlock] = Entries(NoEntries)
    BY <1>2 DEF NarrowImage
  <2> HIDE DEF wide, none
  <2> QED BY <1>2, <2>1
<1>4. disk = SetEntry(narrow, RootBlock, 0, NewEntry(3, n))
  BY DEF WideImage
<1> HIDE DEF narrow
<1>5. /\ disk[Root] = AnInode("dir", BlockSize, FirstPtr(RootBlock))
      /\ disk[3] = AnInode("dir", 2 * BlockSize, [FirstPtr(4) EXCEPT ![1] = 5])
      /\ disk[4] = Entries(NoEntries) /\ disk[5] = Entries(NoEntries)
      /\ disk[RootBlock] = Entries([ReadEntries(narrow[RootBlock]) EXCEPT ![0] = NewEntry(3, n)])
  BY <1>2, <1>3, <1>4 DEF SetEntry
<1>6. /\ disk[4].kind = "entries" /\ disk[4].ent = NoEntries
      /\ disk[5].kind = "entries" /\ disk[5].ent = NoEntries
      /\ disk[RootBlock].kind = "entries"
      /\ disk[RootBlock].ent = [NoEntries EXCEPT ![0] = NewEntry(3, n)]
  BY <1>3, <1>5 DEF Entries, ReadEntries
<1>7. /\ disk[Root].kind = "inode" /\ disk[Root].type = "dir"
      /\ disk[Root].size = BlockSize /\ disk[Root].ptrs[0] = RootBlock
  BY <1>1, <1>5 DEF AnInode, FirstPtr, NullPtrs
<1>8. /\ disk[3].kind = "inode" /\ disk[3].type = "dir" /\ disk[3].size = 2 * BlockSize
      /\ disk[3].ptrs[0] = 4 /\ disk[3].ptrs[1] = 5
  BY <1>1, <1>5 DEF AnInode, FirstPtr, NullPtrs
<1>9. /\ WellFormed(Root) /\ IsDir(Root) /\ Held(Root) = {Root, RootBlock}
      /\ Positions(Root) = (0 .. 0) \X Slots
      /\ \A p : BlockAt(Root, p) = disk[Root].ptrs[p[1]]
  <2>1. 1 * BlockSize = BlockSize /\ 1 \in 1 .. NPtrs /\ 0 .. 1 - 1 = {0} /\ 0 .. 0 = {0}
    BY <1>1
  <2> QED BY <1>2, <1>6, <1>7, <2>1, DirectoryShape
<1>10. /\ WellFormed(3) /\ IsDir(3) /\ Held(3) = {3, 4, 5}
       /\ Positions(3) = (0 .. 1) \X Slots
       /\ \A p : BlockAt(3, p) = disk[3].ptrs[p[1]]
  <2>1. 2 \in 1 .. NPtrs /\ 0 .. 2 - 1 = {0, 1} /\ 0 .. 1 = {0, 1}
    BY <1>1
  <2>2. \A k \in 0 .. 2 - 1 :
          /\ disk[3].ptrs[k] \in Blocks /\ disk[3].ptrs[k] # 3
          /\ disk[disk[3].ptrs[k]].kind = "entries"
          /\ \A h \in 0 .. 2 - 1 : disk[3].ptrs[h] = disk[3].ptrs[k] => h = k
    BY <1>2, <1>6, <1>8, <2>1
  <2>3. {disk[3].ptrs[k] : k \in 0 .. 2 - 1} = {4, 5}
    BY <1>8, <2>1
  <2>4. /\ WellFormed(3) /\ IsDir(3)
        /\ Held(3) = {3} \cup {disk[3].ptrs[k] : k \in 0 .. 2 - 1}
        /\ Positions(3) = (0 .. 2 - 1) \X Slots
        /\ \A p : BlockAt(3, p) = disk[3].ptrs[p[1]]
    BY <1>2, <1>8, <2>1, <2>2, DirectoryShape
  <2> QED BY <2>1, <2>3, <2>4
<1>11. \A k \in Slots : NoEntries[k] = NoEntry
  BY DEF NoEntries
<1>12. ValidAt(3) = {}
  <2>1. ASSUME NEW p \in Positions(3) PROVE EntryAt(3, p) = NoEntry
    <3>1. p[1] \in {0, 1} /\ p[2] \in Slots
      BY <1>10
    <3>2. EntryAt(3, p) = NoEntries[p[2]]
      BY <1>6, <1>8, <1>10, <3>1 DEF EntryAt, ReadEntries
    <3> QED BY <1>11, <3>1, <3>2
  <2> QED BY <2>1 DEF ValidAt, Valid, NoEntry
<1>13. ASSUME NEW p \in ValidAt(Root) PROVE p = <<0, 0>> /\ EntryAt(Root, p).inode = 3
  <2>1. p \in Positions(Root) /\ EntryAt(Root, p).inode # 0
    BY <1>13 DEF ValidAt, Valid
  <2>2. p[1] = 0 /\ p[2] \in Slots /\ p = <<p[1], p[2]>>
    BY <1>9, <2>1
  <2>3. PICK es : es = [NoEntries EXCEPT ![0] = NewEntry(3, n)]
    OBVIOUS
  <2>4. EntryAt(Root, p) = es[p[2]]
    <3>1. BlockAt(Root, p) = RootBlock
      BY <1>7, <1>9, <2>2
    <3>2. ReadEntries(disk[RootBlock]) = es
      BY <1>6, <2>3 DEF ReadEntries
    <3> QED BY <3>1, <3>2 DEF EntryAt
  <2>5. CASE p[2] = 0
    <3>1. es[0] = NewEntry(3, n)
      BY <2>2, <2>3, <2>5 DEF NoEntries
    <3> QED BY <2>2, <2>4, <2>5, <3>1 DEF NewEntry
  <2>6. CASE p[2] # 0
    <3>1. es[p[2]] = NoEntry
      BY <1>11, <2>2, <2>3, <2>6 DEF NoEntries
    <3> QED BY <2>1, <2>4, <3>1 DEF NoEntry
  <2> QED BY <2>5, <2>6
<1>14. Rooted({Root, 3}) /\ \A i \in {Root, 3} : WellFormed(i)
  BY <1>2, <1>9, <1>10 DEF Rooted
<1>15. Marked({Root, 3}) /\ Disjoint({Root, 3})
  <2>1. Held(Root) \cap Held(3) = {}
    BY <1>1, <1>9, <1>10
  <2>2. Held(Root) \subseteq map_blk /\ Held(3) \subseteq map_blk
    BY <1>9, <1>10
  <2> QED BY <2>1, <2>2 DEF Marked, Disjoint
<1>16. EntriesStay({Root, 3})
  BY <1>12, <1>13 DEF EntriesStay
<1>17. OneEntryEach({Root, 3})
  BY <1>12, <1>13 DEF OneEntryEach
<1> QED BY <1>12, <1>13, <1>14, <1>15, <1>16, <1>17 DEF Sound, Shape

-----------------------------------------------------------------------------
(* The invariant holds in every reachable state *)

\* No directory of these images has two entries, and most have only the root.
LEMMA InitSound ==
  ASSUME Init
  PROVE  \E S \in SUBSET Blocks :
           /\ Sound(S) /\ \A i \in S : \A p, q \in ValidAt(i) : p = q
           /\ ~WideDir => S = {Root} /\ BlockCount(Root) = 1 /\ ValidAt(Root) = {}
<1>1. {Root} \in SUBSET Blocks /\ {Root, 3} \in SUBSET Blocks
  BY DiskAssumption
<1>2. CASE WideDir
  BY <1>1, <1>2, WideSound DEF Init
<1>3. CASE ~WideDir
  BY <1>1, <1>3, NarrowSound DEF Init
<1> QED BY <1>2, <1>3

LEMMA InitIntegrity == Init => Integrity
<1> SUFFICES ASSUME Init PROVE Integrity
  OBVIOUS
<1>1. \E S \in SUBSET Blocks : Sound(S)
  BY InitSound
<1>2. SavedBitsAreSet
  BY DEF Init, SavedBitsAreSet
<1> QED BY <1>1, <1>2, InitType DEF Integrity

\* A file's new size is one a file can have.
LEMMA NewSizeType ==
  ASSUME TypeOK, NEW f \in Blocks, NEW off \in 0 .. MaxSize, NEW len \in 0 .. MaxSize,
         off + len <= MaxSize
  PROVE  NewSize(read_inode(f), off, len) \in 0 .. MaxSize
<1>1. read_inode(f).size \in 0 .. MaxSize
  BY ReadInodeType DEF TypeOK, InodeBlock
<1> QED BY <1>1, DiskAssumption DEF NewSize

\* Every call is one of the changes, and one that fails changes nothing.
LEMMA NextChange ==
  ASSUME TypeOK, SavedBitsAreSet, NEW S \in SUBSET Blocks, Sound(S), [Next]_vars
  PROVE  Change(S) /\ (ret' # "ok" => Kept(S))
<1>1. Addressable \subseteq S
  BY ShapeHoldsLinked DEF Sound
<1>2. CASE UNCHANGED vars
  BY <1>2, KeepNext DEF vars, Change
<1>3. CASE fs_init
  BY <1>3, KeepNext DEF fs_init, SavedBitsAreSet, Change
<1> DEFINE Answer == IF ret' = "ok" THEN Change(S) ELSE Kept(S)
<1>4. ASSUME NEW d \in S, NEW n \in Names, PathFails(d, n) PROVE Answer
  BY <1>4, FailsNext DEF PathFails, Change
<1>5. ASSUME NEW d \in S, NEW n \in Names, fs_create(d, n) \/ fs_mkdir(d, n) PROVE Answer
  BY <1>5, CreateNext, MkdirNext DEF Change, Added
<1>6. ASSUME NEW d \in S, NEW n \in Names, fs_unlink(d, n) \/ fs_rmdir(d, n) PROVE Answer
  <2>1. ASSUME NEW p \in FirstMatch(d, n), NEW x \in S, RemovedAt(S, d, p, x)
        PROVE  Change(S)
    <3>1. p \in ValidAt(d)
      BY DEF FirstMatch, FirstOf, Matches
    <3> QED BY <2>1, <3>1 DEF Change, Removed
  <2> HIDE DEF Change
  <2> QED BY <1>6, <2>1, UnlinkNext, RmdirNext
<1>7. ASSUME NEW d \in S, NEW n \in Names, NEW e \in S, NEW m \in Names,
             fs_rename(d, n, e, m)
      PROVE  Answer
  <2>1. ASSUME NEW q \in Matches(d, n), RenamedAt(S, d, q, m) PROVE Change(S)
    BY <2>1 DEF Change, Renamed, Matches
  <2> QED BY <1>7, <2>1, RenameNext
<1>8. ASSUME NEW i \in S, fs_chmod(i) \/ fs_utime(i) PROVE Answer
  BY <1>8, RewriteNext DEF fs_chmod, fs_utime, Change
<1>9. ASSUME NEW i \in S, NEW len \in 0 .. MaxSize, fs_truncate(i, len) PROVE Answer
  <2>1. 0 \in 0 .. MaxSize
    BY DiskAssumption
  <2> QED BY <1>9, <2>1, TruncateNext DEF Change, FileChanged
<1>10. ASSUME NEW i \in S, NEW off \in 0 .. MaxSize, NEW len \in 0 .. MaxSize,
              off + len <= MaxSize, fs_write(i, off, len)
       PROVE  Answer
  BY <1>10, WriteNext, NewSizeType DEF Change, FileChanged
<1> HIDE DEF Answer
<1>11. CASE Next /\ ~fs_init
  <2>1. Answer
    BY <1>1, <1>4, <1>5, <1>6, <1>7, <1>8, <1>9, <1>10, <1>11 DEF Next
  <2> QED BY <2>1 DEF Answer, Change
<1> QED BY <1>2, <1>3, <1>11

LEMMA ChangeSound ==
  ASSUME NEW S \in SUBSET Blocks, Change(S)
  PROVE  \E T \in SUBSET Blocks : Sound(T)'
<1>1. CASE Kept(S)
  BY <1>1 DEF Kept
<1>2. CASE FileChanged(S)
  BY <1>2 DEF FileChanged, FileChangedTo
<1>3. CASE Added(S)
  BY <1>3 DEF Added, AddedAs
<1>4. CASE Removed(S)
  BY <1>4 DEF Removed, RemovedAt
<1>5. CASE Renamed(S)
  BY <1>5 DEF Renamed, RenamedAt
<1> QED BY <1>1, <1>2, <1>3, <1>4, <1>5 DEF Change

LEMMA IntegrityNext ==
  ASSUME Integrity, [Next]_vars
  PROVE  Integrity'
<1>1. PICK S \in SUBSET Blocks : Sound(S)
  BY DEF Integrity
<1>2. TypeOK /\ SavedBitsAreSet
  BY DEF Integrity
<1>3. PICK T \in SUBSET Blocks : Sound(T)'
  <2>1. Change(S)
    BY <1>1, <1>2, NextChange
  <2> QED BY <2>1, ChangeSound
<1> QED BY <1>2, <1>3, NextType, NextSaved DEF Integrity

\* In every reachable state some sound set of inodes holds the tree.
THEOREM IntegrityHolds == Spec => []Integrity
<1>1. Integrity /\ [Next]_vars => Integrity'
  BY IntegrityNext
<1> QED BY InitIntegrity, <1>1, PTL DEF Spec

-----------------------------------------------------------------------------
(* What it says of the tree *)

\* All that is said of the tree below, but for its marks, is about the disk.
Shaped == TypeOK /\ \E S \in SUBSET Blocks : Shape(S)

LEMMA IntegrityShaped == Integrity => Shaped
BY DEF Integrity, Shaped, Sound

LEMMA LinkedShape ==
  ASSUME Shaped
  PROVE  /\ TypeOK
         /\ \A i \in Linked : i \in Blocks /\ WellFormed(i)
         /\ Disjoint(Linked) /\ OneEntryEach(Linked)
         /\ \A d \in Linked : IsDir(d) => \A p \in ValidAt(d) :
              EntryAt(d, p).inode \in Blocks \ {Root}
<1>1. PICK S \in SUBSET Blocks : Shape(S)
  BY DEF Shaped
<1>2. Linked \subseteq S
  BY <1>1, ShapeHoldsLinked
<1>3. \A i \in Linked : i \in Blocks /\ WellFormed(i)
  BY <1>1, <1>2, ShapeParts
<1>4. Disjoint(Linked) /\ OneEntryEach(Linked)
  BY <1>1, <1>2 DEF Shape, Disjoint, OneEntryEach
<1>5. \A d \in Linked : IsDir(d) => \A p \in ValidAt(d) :
        EntryAt(d, p).inode \in Blocks \ {Root}
  BY <1>1, <1>2 DEF Shape, Rooted, EntriesStay
<1> QED BY <1>3, <1>4, <1>5 DEF Shaped

LEMMA LinkedMarked ==
  ASSUME Integrity, NEW i \in Linked
  PROVE  Held(i) \subseteq map_blk
<1>1. PICK S \in SUBSET Blocks : Sound(S)
  BY DEF Integrity
<1>2. Linked \subseteq S
  BY <1>1, ShapeHoldsLinked DEF Sound
<1> QED BY <1>1, <1>2, SoundParts

\* Linked is closed, and nothing smaller is: an inode is linked by an entry.
LEMMA LinkedByEntry ==
  ASSUME Shaped, NEW i \in Linked, i # Root
  PROVE  \E d \in Linked : IsDir(d) /\ \E p \in ValidAt(d) : EntryAt(d, p).inode = i
<1>1. Linked = Closure(Links)
  BY DEF Linked
<1>2. \A e \in Links : /\ e[1] \in Blocks /\ IsDir(e[1])
                       /\ \E p \in ValidAt(e[1]) : EntryAt(e[1], p).inode = e[2]
  BY DEF Links, LinkedChildren
<1>3. SUFFICES ASSUME \A e \in Links : e[1] \in Linked => e[2] # i
               PROVE  FALSE
  BY <1>2
<1> DEFINE T == Linked \ {i}
<1>4. Root \in Linked
  <2>1. Root \in Blocks
    BY DiskAssumption
  <2> QED BY <1>1, <2>1 DEF Closure, Closed
<1>5. ASSUME NEW e \in Links, e[1] \in T PROVE e[2] \in T
  <2>1. e[2] \in Linked
    <3>1. e[2] \in Blocks
      <4>1. PICK p \in ValidAt(e[1]) : EntryAt(e[1], p).inode = e[2]
        BY <1>2
      <4> QED BY <1>2, <1>5, <4>1, LinkedShape
    <3> QED BY <1>1, <1>5, <3>1 DEF Closure, Closed
  <2> QED BY <1>3, <1>5, <2>1
<1>6. Closed(T, Links) /\ T \in SUBSET Blocks
  BY <1>1, <1>4, <1>5 DEF Closed, Closure
<1> QED BY <1>1, <1>6 DEF Closure

LEMMA MarkedOnDisk == Integrity => ReferencedIsMarkedOnDisk
BY LinkedMarked DEF ReferencedIsMarkedOnDisk, Used

LEMMA OneOwner == Shaped => NoSharedBlocks
<1> SUFFICES ASSUME Shaped PROVE NoSharedBlocks
  OBVIOUS
<1>1. \A i, j \in Linked : i # j => Held(i) \cap Held(j) = {}
  BY LinkedShape DEF Disjoint
<1>2. ASSUME NEW i \in Linked,
             NEW h \in 0 .. CeilDiv(read_inode(i).size) - 1,
             NEW k \in 0 .. CeilDiv(read_inode(i).size) - 1
      PROVE  /\ read_inode(i).ptrs[h] # i
             /\ read_inode(i).ptrs[h] = read_inode(i).ptrs[k] => h = k
  BY LinkedShape DEF WellFormed, OwnBlocks, PtrAt, Indices, BlockCount
<1> QED BY <1>1, <1>2 DEF NoSharedBlocks

LEMMA RightKinds == Shaped => BlocksHoldTheirKind
<1> SUFFICES ASSUME Shaped PROVE BlocksHoldTheirKind
  OBVIOUS
<1>1. LinkedFiles \cup LinkedDirs = Linked
  BY LinkedShape DEF LinkedFiles, LinkedDirs, IsDir, WellFormed
<1>2. ASSUME NEW d \in LinkedDirs, NEW b \in BlocksOf(read_inode(d))
      PROVE  disk[b].kind = "entries"
  BY LinkedShape DEF LinkedDirs, WellFormed, RightKind, BlocksOf, PtrAt, Indices, BlockCount
<1>3. ASSUME NEW f \in LinkedFiles, NEW k \in PtrIndex
      PROVE  LET ino == read_inode(f)
             IN IF k < CeilDiv(ino.size) THEN ino.ptrs[k] # 0 /\ disk[ino.ptrs[k]] = Data(f)
                ELSE ino.ptrs[k] = 0
  <2>1. f \in Blocks /\ WellFormed(f) /\ ~IsDir(f) /\ TypeOK
    BY LinkedShape DEF LinkedFiles, IsDir
  <2>2. k < BlockCount(f) => k \in Indices(f)
    BY <2>1, InodeFields, DiskAssumption DEF Indices
  <2>3. k \in Indices(f) => PtrAt(f, k) # 0
    BY <2>1, DiskAssumption DEF WellFormed, OwnBlocks
  <2>4. IF k < BlockCount(f) THEN PtrAt(f, k) # 0 /\ disk[PtrAt(f, k)] = Data(f)
        ELSE PtrAt(f, k) = 0
    BY <2>1, <2>2, <2>3 DEF WellFormed, RightKind
  <2> QED BY <2>4 DEF PtrAt, BlockCount
<1> QED BY <1>1, <1>2, <1>3 DEF BlocksHoldTheirKind

LEMMA OneLink == Shaped => SingleLink
<1> SUFFICES ASSUME Shaped PROVE SingleLink
  OBVIOUS
<1>1. \A i : \A e \in EntriesTo(i) :
        /\ e = <<e[1], e[2]>> /\ e[1] \in Linked /\ IsDir(e[1])
        /\ e[2] \in ValidAt(e[1]) /\ EntryAt(e[1], e[2]).inode = i
  BY DEF EntriesTo, LinkedDirs
<1>2. EntriesTo(Root) = {}
  BY <1>1, LinkedShape
<1>3. ASSUME NEW i \in Linked \ {Root} PROVE Cardinality(EntriesTo(i)) = 1
  <2>1. PICK d \in Linked : IsDir(d) /\ \E p \in ValidAt(d) : EntryAt(d, p).inode = i
    BY LinkedByEntry
  <2>2. PICK p \in ValidAt(d) : EntryAt(d, p).inode = i
    BY <2>1
  <2>3. <<d, p>> \in EntriesTo(i)
    BY <2>1, <2>2 DEF EntriesTo, LinkedDirs
  <2>4. \A e \in EntriesTo(i) : e = <<d, p>>
    BY <1>1, <2>1, <2>2, LinkedShape DEF OneEntryEach
  <2>5. EntriesTo(i) = {<<d, p>>}
    BY <2>3, <2>4
  <2> QED BY <2>5, FS_Singleton
<1> QED BY <1>2, <1>3 DEF SingleLink

\* At any time block 1 marks every block the tree uses, so that a remount cannot
\* hand out a block of a file or directory.
THEOREM AlwaysMarkedOnDisk == Spec => []ReferencedIsMarkedOnDisk
BY IntegrityHolds, MarkedOnDisk, PTL

\* No block of the tree is two inodes', twice one inode's, or itself an inode.
THEOREM NeverShared == Spec => []NoSharedBlocks
BY IntegrityHolds, IntegrityShaped, OneOwner, PTL

\* A directory's blocks hold entries; a file's hold what was written to the file.
THEOREM AlwaysTheirKind == Spec => []BlocksHoldTheirKind
BY IntegrityHolds, IntegrityShaped, RightKinds, PTL

\* The directories are a tree: one entry leads to each inode but the root.
THEOREM AlwaysATree == Spec => []SingleLink
BY IntegrityHolds, IntegrityShaped, OneLink, PTL
=============================================================================
