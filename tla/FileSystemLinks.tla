-------------------------- MODULE FileSystemLinks ---------------------------
(***************************************************************************)
(* What a call does to the tree itself: which inodes stay linked, and      *)
(* which entries the directories have.  Linked is itself a sound set, so   *)
(* the changes of FileSystemIntegrity apply to it, and a call links or     *)
(* unlinks exactly the inode it adds or removes.                           *)
(*                                                                         *)
(* Some results are about names that fit into a directory entry, and about *)
(* images without a directory of several blocks: with a longer name, or    *)
(* with such a directory, the code does something else, as TLC shows.      *)
(***************************************************************************)
EXTENDS FileSystemIntegrity

USE DEF Blocks, PtrIndex, Slots, Root, RootBlock

NamesFit == \A n \in Names : Stored[n] = n

-----------------------------------------------------------------------------
(* Linked and its changes *)

LEMMA RootLinked == Root \in Linked /\ Linked \subseteq Blocks
<1>1. Root \in Blocks
  BY DiskAssumption
<1> QED BY <1>1 DEF Linked, Closure, Closed

\* Entries of a linked directory lead to linked inodes.
LEMMA LinkedClosed ==
  ASSUME Shaped, NEW d \in Linked, IsDir(d), NEW p \in ValidAt(d)
  PROVE  EntryAt(d, p).inode \in Linked
<1>1. EntryAt(d, p).inode \in Blocks /\ d \in Blocks
  BY LinkedShape
<1>2. <<d, EntryAt(d, p).inode>> \in Links
  BY <1>1 DEF Links, LinkedChildren
<1>3. d \in Closure(Links) /\ Linked = Closure(Links)
  BY DEF Linked
<1>4. EntryAt(d, p).inode \in Closure(Links)
  <2>1. ASSUME NEW S \in SUBSET Blocks, Closed(S, Links)
        PROVE  EntryAt(d, p).inode \in S
    BY <1>2, <1>3, <2>1 DEF Closure, Closed
  <2> QED BY <1>1, <2>1 DEF Closure
<1> QED BY <1>3, <1>4

LEMMA LinkedIsShape == Shaped => Shape(Linked) /\ Linked \in SUBSET Blocks
<1> SUFFICES ASSUME Shaped PROVE Shape(Linked)
  BY RootLinked
<1>1. PICK S \in SUBSET Blocks : Shape(S)
  BY DEF Shaped
<1>2. Rooted(Linked)
  BY <1>1, RootLinked DEF Shape, Rooted
<1>3. EntriesStay(Linked)
  BY LinkedShape, LinkedClosed DEF EntriesStay
<1> QED BY <1>2, <1>3, LinkedShape DEF Shape

LEMMA LinkedIsSound == Integrity => Sound(Linked) /\ Linked \in SUBSET Blocks
BY LinkedIsShape, IntegrityShaped, LinkedMarked DEF Sound, Marked

\* What a step leaves linked: all inodes but those of X, if only inodes of X
\* lose entries, or are what a lost entry led to.
LEMMA LinkedStay ==
  ASSUME Shaped, NEW X, Root \notin X,
         \A i \in Linked : i \in X => LinkedChildren(i) \subseteq X,
         \A i \in Linked \ X : LinkedChildren(i) \subseteq LinkedChildren(i)' \cup X
  PROVE  Linked \ X \subseteq Linked'
<1>1. Linked = Closure(Links) /\ Linked' = Closure(Links)'
  BY DEF Linked
<1>2. ASSUME NEW C \in SUBSET Blocks, Closed(C, Links')
      PROVE  Linked \ X \subseteq C
  <2> DEFINE D == (C \cap Linked) \cup (X \cap Linked)
  <2>1. Root \in D
    BY <1>2, RootLinked DEF Closed
  <2>2. ASSUME NEW e \in Links, e[1] \in D PROVE e[2] \in D
    <3>1. PICK d \in Blocks : \E x : x \in LinkedChildren(d) /\ e = <<d, x>>
      BY DEF Links
    <3> PICK x : x \in LinkedChildren(d) /\ e = <<d, x>>
      BY <3>1
    <3>2. d \in Linked /\ x \in Linked
      BY <2>2, <3>1, LinkedClosed DEF LinkedChildren
    <3>3. CASE d \in X
      BY <3>1, <3>2, <3>3
    <3>4. CASE d \notin X
      <4>1. x \in X \/ x \in LinkedChildren(d)'
        BY <3>1, <3>2, <3>4
      <4>2. x \in LinkedChildren(d)' => <<d, x>> \in Links'
        BY <3>1 DEF Links
      <4>3. d \in C
        BY <2>2, <3>1, <3>4
      <4>4. <<d, x>> \in Links' => x \in C
        BY <1>2, <4>3 DEF Closed
      <4> QED BY <3>1, <3>2, <4>1, <4>2, <4>4
    <3> QED BY <3>3, <3>4
  <2>3. D \in SUBSET Blocks /\ Closed(D, Links)
    BY <2>1, <2>2, RootLinked DEF Closed
  <2>4. Linked \subseteq D
    BY <1>1, <2>3 DEF Closure
  <2> QED BY <2>4
<1>3. \A i \in Linked \ X : i \in Blocks /\ i \in Closure(Links')
  BY <1>2, RootLinked DEF Closure
<1> QED BY <1>1, <1>3 DEF Closure

LEMMA ShapeHoldsLinkedNext == \A T : Shape(T)' => Linked' \subseteq T
<1>1. \A T : Shape(T) => Linked \subseteq T
  BY ShapeHoldsLinked
<1>2. (\A T : Shape(T) => Linked \subseteq T)'
  BY <1>1, PTL
<1> QED BY <1>2

LEMMA SoundHoldsLinkedNext == \A T : Sound(T)' => Linked' \subseteq T
BY ShapeHoldsLinkedNext DEF Sound

\* What a written slot does to the nodes of the set.
LEMMA SlotEntries ==
  ASSUME TypeOK, NEW S, Shape(S), NEW d, NEW p, NEW e, SlotWritten(S, d, p, e)
  PROVE  /\ d \in S /\ IsDir(d) /\ p \in Positions(d)
         /\ \A i \in S : WellFormed(i)' /\ read_inode(i)' = read_inode(i)
         /\ \A i \in S \ {d} : SameNode(i)
         /\ ValidAt(d)' = IF e.inode # 0 THEN ValidAt(d) \cup {p} ELSE ValidAt(d) \ {p}
         /\ \A q \in Positions(d) : EntryAt(d, q)' = IF q = p THEN e ELSE EntryAt(d, q)
<1>1. d \in S /\ IsDir(d) /\ p \in Positions(d)
  BY DEF SlotWritten
<1>2. \A i \in S : WellFormed(i)' /\ read_inode(i)' = read_inode(i)
  BY SlotWrite
<1>3. \A i \in S \ {d} : SameNode(i)
  BY SlotWrite DEF SameNode
<1>4. /\ Positions(d)' = Positions(d)
      /\ \A q \in Positions(d) : EntryAt(d, q)' = IF q = p THEN e ELSE EntryAt(d, q)
  BY <1>1, SlotWrite
<1>5. ValidAt(d)' = IF e.inode # 0 THEN ValidAt(d) \cup {p} ELSE ValidAt(d) \ {p}
  BY <1>1, <1>4 DEF ValidAt, Valid
<1> QED BY <1>1, <1>2, <1>3, <1>4, <1>5

LEMMA NewEntryFits ==
  ASSUME NamesFit, NEW i, NEW n \in Names
  PROVE  NewEntry(i, n).name = n /\ NewEntry(i, n).inode = i
BY DEF NamesFit, NewEntry

\* An inode that reads the same is a directory, and has its blocks, as before.
LEMMA SameRead ==
  ASSUME NEW i, read_inode(i)' = read_inode(i)
  PROVE  /\ IsDir(i)' = IsDir(i) /\ Held(i)' = Held(i)
         /\ Positions(i)' = Positions(i) /\ BlockCount(i)' = BlockCount(i)
BY DEF IsDir, Held, Positions, BlockCount

-----------------------------------------------------------------------------
(* Names in a directory *)

DistinctNames(d) ==
  \A p, q \in ValidAt(d) : p # q => EntryAt(d, p).name # EntryAt(d, q).name

\* In a directory of one block the scans of create, mkdir and rename see all.
NamesApart ==
  \A d \in Linked : IsDir(d) /\ BlockCount(d) = 1 => DistinctNames(d)

LEMMA SameNames ==
  ASSUME NEW d, SameNode(d), IsDir(d)
  PROVE  DistinctNames(d)' = DistinctNames(d)
BY SameNodeParts DEF DistinctNames

LEMMA NamesNext ==
  ASSUME Integrity, NamesFit, NamesApart, [Next]_vars
  PROVE  NamesApart'
<1>1. PICK S \in SUBSET Blocks : S = Linked
  BY RootLinked
<1>2. Sound(S) /\ Shape(S) /\ TypeOK /\ SavedBitsAreSet
  BY <1>1, LinkedIsSound DEF Integrity, Sound
<1>3. ASSUME NEW d \in S, SameNode(d), IsDir(d)', BlockCount(d)' = 1
      PROVE  DistinctNames(d)'
  <2>1. IsDir(d) /\ BlockCount(d) = 1
    BY <1>3, SameNodeParts
  <2> QED BY <1>1, <1>3, <2>1, SameNames DEF NamesApart
<1>4. SUFFICES ASSUME NEW d \in Linked', IsDir(d)', BlockCount(d)' = 1
               PROVE  DistinctNames(d)'
  BY DEF NamesApart
<1>5. CASE Kept(S)
  BY <1>3, <1>4, <1>5, SoundHoldsLinkedNext DEF Kept
<1>6. CASE FileChanged(S)
  BY <1>3, <1>4, <1>6, SoundHoldsLinkedNext DEF FileChanged, FileChangedTo
<1>7. CASE Added(S)
  <2>1. PICK c \in S, n \in Names, b \in Blocks \ S :
          /\ \E p \in FreeSlots(c) : SlotWritten(S, c, p, NewEntry(b, n))
          /\ ~HasName(c, n) /\ Sound(S \cup {b})' /\ Fresh(b)'
    BY <1>7 DEF Added, AddedAs
  <2>2. PICK p \in FreeSlots(c) : SlotWritten(S, c, p, NewEntry(b, n))
    BY <2>1
  <2>3. PICK e : e = NewEntry(b, n) /\ e.name = n /\ e.inode = b /\ b # 0
    <3>1. NewEntry(b, n).name = n /\ NewEntry(b, n).inode = b /\ b # 0
      BY NewEntryFits, DiskAssumption
    <3> QED BY <3>1
  <2>4. /\ \A i \in S : read_inode(i)' = read_inode(i)
        /\ \A i \in S \ {c} : SameNode(i)
        /\ ValidAt(c)' = ValidAt(c) \cup {p}
        /\ \A q \in Positions(c) : EntryAt(c, q)' = IF q = p THEN e ELSE EntryAt(c, q)
        /\ IsDir(c)
    <3>1. SlotWritten(S, c, p, e)
      BY <2>2, <2>3
    <3> QED BY <1>2, <2>3, <3>1, SlotEntries
  <2>5. CASE d = b
    BY <1>4, <2>1, <2>5 DEF Fresh, DistinctNames
  <2>6. CASE d = c
    <3>1. DistinctNames(c)
      BY <1>1, <1>4, <2>4, <2>6, SameRead DEF NamesApart
    <3>2. \A q \in ValidAt(c) : q # p /\ q \in Positions(c) /\ EntryAt(c, q).name # n
      BY <2>1, <2>2 DEF FreeSlots, HasName, ValidAt
    <3>3. p \in Positions(c)
      BY DEF FreeSlots
    <3> QED BY <2>3, <2>4, <2>6, <3>1, <3>2, <3>3 DEF DistinctNames
  <2>7. d \in S \cup {b}
    BY <1>4, <2>1, SoundHoldsLinkedNext
  <2> QED BY <1>3, <1>4, <2>4, <2>5, <2>6, <2>7
<1>8. CASE Removed(S)
  <2>0. PICK c \in S, x \in S :
          \E p \in ValidAt(c) : SlotWritten(S, c, p, NoEntry) /\ Sound(S \ {x})'
    BY <1>8 DEF Removed, RemovedAt
  <2>1. PICK p \in ValidAt(c) :
          p \in ValidAt(c) /\ SlotWritten(S, c, p, NoEntry) /\ Sound(S \ {x})'
    BY <2>0
  <2>2. PICK e : e = NoEntry /\ e.inode = 0
    <3>1. NoEntry.inode = 0
      BY DEF NoEntry
    <3> QED BY <3>1
  <2>3. /\ \A i \in S : read_inode(i)' = read_inode(i)
        /\ \A i \in S \ {c} : SameNode(i)
        /\ ValidAt(c)' = ValidAt(c) \ {p}
        /\ \A q \in Positions(c) : EntryAt(c, q)' = IF q = p THEN e ELSE EntryAt(c, q)
        /\ IsDir(c)
    <3>1. SlotWritten(S, c, p, e)
      BY <2>1, <2>2
    <3> QED BY <1>2, <2>2, <3>1, SlotEntries
  <2>4. CASE d = c
    <3>1. DistinctNames(c)
      BY <1>1, <1>4, <2>3, <2>4, SameRead DEF NamesApart
    <3> QED BY <2>3, <2>4, <3>1 DEF DistinctNames, ValidAt
  <2>5. d \in S \ {x}
    BY <1>4, <2>1, SoundHoldsLinkedNext
  <2> QED BY <1>3, <1>4, <2>3, <2>4, <2>5
<1>9. CASE Renamed(S)
  <2>1. PICK c \in S, n \in Names : \E p \in ValidAt(c) :
          /\ SlotWritten(S, c, p, NewEntry(EntryAt(c, p).inode, n))
          /\ BlockCount(c) = 1 => n = EntryAt(c, p).name \/ ~HasName(c, n)
          /\ Sound(S)'
    BY <1>9 DEF Renamed, RenamedAt
  <2>2. PICK p \in ValidAt(c) :
          /\ SlotWritten(S, c, p, NewEntry(EntryAt(c, p).inode, n))
          /\ BlockCount(c) = 1 => n = EntryAt(c, p).name \/ ~HasName(c, n)
          /\ Sound(S)'
    BY <2>1
  <2>3. PICK e : /\ e = NewEntry(EntryAt(c, p).inode, n)
                 /\ e.name = n /\ e.inode # 0
    <3>1. PICK x : x = EntryAt(c, p).inode /\ x # 0
      BY <2>2 DEF ValidAt, Valid
    <3>2. NewEntry(x, n).name = n /\ NewEntry(x, n).inode = x
      BY NewEntryFits
    <3> QED BY <3>1, <3>2
  <2>4. /\ \A i \in S : read_inode(i)' = read_inode(i)
        /\ \A i \in S \ {c} : SameNode(i)
        /\ ValidAt(c)' = ValidAt(c) \cup {p}
        /\ \A q \in Positions(c) : EntryAt(c, q)' = IF q = p THEN e ELSE EntryAt(c, q)
        /\ IsDir(c)
    <3>1. SlotWritten(S, c, p, e)
      BY <2>2, <2>3
    <3> QED BY <1>2, <2>3, <3>1, SlotEntries
  <2>5. CASE d = c
    <3>1. DistinctNames(c) /\ BlockCount(c) = 1
      BY <1>1, <1>4, <2>4, <2>5, SameRead DEF NamesApart
    <3>2. \A q \in ValidAt(c) : q # p => EntryAt(c, q).name # n
      BY <2>2, <3>1 DEF HasName, DistinctNames
    <3>3. ValidAt(c)' = ValidAt(c) /\ \A q \in ValidAt(c) : q \in Positions(c)
      BY <2>4 DEF ValidAt
    <3> QED BY <2>3, <2>4, <2>5, <3>1, <3>2, <3>3 DEF DistinctNames
  <2>6. d \in S
    BY <1>4, <2>2, SoundHoldsLinkedNext
  <2> QED BY <1>3, <1>4, <2>4, <2>5, <2>6
<1> QED BY <1>2, <1>5, <1>6, <1>7, <1>8, <1>9, NextChange DEF Change

-----------------------------------------------------------------------------
(* What becomes of the set of linked inodes, while no directory is wider   *)
(* than the code takes care of                                             *)

OneBlockDirs == \A d \in Linked : IsDir(d) => BlockCount(d) = 1

LEMMA NodeChildren == ASSUME NEW i, SameNode(i) PROVE LinkedChildren(i)' = LinkedChildren(i)
BY SameNodeParts DEF LinkedChildren

\* A file has no children, so that nothing is unlinked when it changes.
LEMMA LinkedKept ==
  ASSUME Shaped, NEW S, S = Linked, Shape(S)', \A i \in S : IsDir(i) => SameNode(i)
  PROVE  Linked' = S
<1>1. Linked' \subseteq S
  BY ShapeHoldsLinkedNext
<1>2. \A i \in S : LinkedChildren(i) \subseteq LinkedChildren(i)'
  BY NodeChildren DEF LinkedChildren
<1>3. Linked \ {} \subseteq Linked'
  <2> DEFINE X == {}
  <2>1. Root \notin X /\ \A i \in Linked : i \in X => LinkedChildren(i) \subseteq X
    OBVIOUS
  <2>2. \A i \in Linked \ X : LinkedChildren(i) \subseteq LinkedChildren(i)' \cup X
    BY <1>2
  <2> HIDE DEF X
  <2>3. Linked \ X \subseteq Linked'
    BY <2>1, <2>2, LinkedStay
  <2> QED BY <2>3 DEF X
<1> QED BY <1>1, <1>3

\* Writing a valid entry unlinks nothing if it leads where the old one led.
LEMMA LinkedAfterWrite ==
  ASSUME Shaped, NEW S, S = Linked,
         NEW d, NEW p, NEW e, SlotWritten(S, d, p, e), e.inode # 0,
         p \in ValidAt(d) => EntryAt(d, p).inode = e.inode
  PROVE  S \subseteq Linked' /\ (e.inode \in Blocks => e.inode \in Linked')
<1>0. TypeOK /\ Shape(S)
  BY LinkedIsShape DEF Shaped
<1>1. /\ d \in S /\ IsDir(d) /\ p \in Positions(d)
      /\ \A i \in S : WellFormed(i)' /\ read_inode(i)' = read_inode(i)
      /\ \A i \in S \ {d} : SameNode(i)
      /\ ValidAt(d)' = ValidAt(d) \cup {p}
      /\ \A q \in Positions(d) : EntryAt(d, q)' = IF q = p THEN e ELSE EntryAt(d, q)
  BY <1>0, SlotEntries
<1>2. IsDir(d)' /\ \A q \in ValidAt(d) : q \in Positions(d)
  BY <1>1, SameRead DEF ValidAt
<1>3. LinkedChildren(d) \subseteq LinkedChildren(d)' /\ e.inode \in LinkedChildren(d)'
  BY <1>1, <1>2 DEF LinkedChildren
<1>4. \A i \in S : LinkedChildren(i) \subseteq LinkedChildren(i)'
  BY <1>1, <1>3, NodeChildren
<1>5. S \subseteq Linked'
  <2> DEFINE X == {}
  <2>1. Root \notin X /\ \A i \in Linked : i \in X => LinkedChildren(i) \subseteq X
    OBVIOUS
  <2>2. \A i \in Linked \ X : LinkedChildren(i) \subseteq LinkedChildren(i)' \cup X
    BY <1>4
  <2> HIDE DEF X
  <2>3. Linked \ X \subseteq Linked'
    BY <2>1, <2>2, LinkedStay
  <2> QED BY <2>3 DEF X
<1>6. ASSUME e.inode \in Blocks PROVE e.inode \in Linked'
  <2>1. Linked' = Closure(Links')
    BY DEF Linked, Closure, Closed
  <2>2. d \in Closure(Links') /\ d \in Blocks
    BY <1>1, <1>5, <2>1 DEF Closure
  <2>3. <<d, e.inode>> \in Links'
    BY <1>3, <2>2 DEF Links
  <2> QED BY <1>6, <2>1, <2>2, <2>3 DEF Closure, Closed
<1> QED BY <1>5, <1>6

LEMMA LinkedAdded ==
  ASSUME Shaped, NEW S, S = Linked, NEW b \in Blocks \ S, Shape(S \cup {b})',
         NEW d, NEW n \in Names, NEW p \in FreeSlots(d), SlotWritten(S, d, p, NewEntry(b, n))
  PROVE  Linked' = S \cup {b}
<1>1. PICK e : e = NewEntry(b, n) /\ e.inode = b
  <2>1. NewEntry(b, n).inode = b
    BY DEF NewEntry
  <2> QED BY <2>1
<1>2. SlotWritten(S, d, p, e) /\ e.inode # 0 /\ p \notin ValidAt(d)
  BY <1>1, DiskAssumption DEF FreeSlots
<1>3. S \subseteq Linked' /\ b \in Linked'
  BY <1>1, <1>2, LinkedAfterWrite
<1> QED BY <1>3, ShapeHoldsLinkedNext

LEMMA LinkedRenamed ==
  ASSUME Shaped, NEW S, S = Linked, Shape(S)',
         NEW d, NEW n, NEW p \in ValidAt(d),
         SlotWritten(S, d, p, NewEntry(EntryAt(d, p).inode, n))
  PROVE  Linked' = S
<1>1. PICK e : e = NewEntry(EntryAt(d, p).inode, n) /\ e.inode = EntryAt(d, p).inode
  <2>1. PICK x : x = EntryAt(d, p).inode
    OBVIOUS
  <2>2. NewEntry(x, n).inode = x
    BY DEF NewEntry
  <2> QED BY <2>1, <2>2
<1>2. SlotWritten(S, d, p, e) /\ e.inode # 0
  BY <1>1 DEF ValidAt, Valid
<1>3. S \subseteq Linked'
  BY <1>1, <1>2, LinkedAfterWrite
<1> QED BY <1>3, ShapeHoldsLinkedNext

\* A directory of one block in which rmdir sees no entry has none.
LEMMA SeenEmptyIsEmpty ==
  ASSUME Shaped, NEW x \in Linked, IsDir(x) => SeenEmpty(x) /\ BlockCount(x) = 1
  PROVE  LinkedChildren(x) = {} /\ (IsDir(x) => ValidAt(x) = {})
<1>1. ASSUME IsDir(x), NEW q \in ValidAt(x) PROVE FALSE
  <2>1. q \in Positions(x) /\ EntryAt(x, q).inode # 0 /\ x \in Blocks /\ TypeOK
    BY <1>1, LinkedShape DEF ValidAt, Valid
  <2>2. q[1] \in Indices(x) /\ q[2] \in Slots /\ q = <<q[1], q[2]>>
    BY <2>1, PositionParts
  <2>3. q[1] = 0
    BY <1>1, <2>2 DEF Indices
  <2>4. q = <<0, q[2]>>
    BY <2>2, <2>3
  <2>5. ~Valid(EntryAt(x, <<0, q[2]>>))
    BY <1>1, <2>2 DEF SeenEmpty
  <2> QED BY <2>1, <2>4, <2>5 DEF Valid
<1> QED BY <1>1 DEF LinkedChildren

LEMMA LinkedRemoved ==
  ASSUME Shaped, NEW S, S = Linked, NEW x \in S, Shape(S \ {x})',
         IsDir(x) => SeenEmpty(x) /\ BlockCount(x) = 1,
         NEW d, NEW p \in ValidAt(d), EntryAt(d, p).inode = x,
         SlotWritten(S, d, p, NoEntry)
  PROVE  Linked' = S \ {x}
<1>0. TypeOK /\ Shape(S)
  BY LinkedIsShape DEF Shaped
<1>1. PICK e : e = NoEntry /\ e.inode = 0
  <2>1. NoEntry.inode = 0
    BY DEF NoEntry
  <2> QED BY <2>1
<1>2. /\ d \in S /\ IsDir(d) /\ p \in Positions(d)
      /\ \A i \in S : WellFormed(i)' /\ read_inode(i)' = read_inode(i)
      /\ \A i \in S \ {d} : SameNode(i)
      /\ ValidAt(d)' = ValidAt(d) \ {p}
      /\ \A q \in Positions(d) : EntryAt(d, q)' = IF q = p THEN e ELSE EntryAt(d, q)
  <2>1. SlotWritten(S, d, p, e)
    BY <1>1
  <2> QED BY <1>0, <1>1, <2>1, SlotEntries
<1>3. IsDir(d)' /\ \A q \in ValidAt(d) : q \in Positions(d)
  BY <1>2, SameRead DEF ValidAt
<1>4. LinkedChildren(d) \subseteq LinkedChildren(d)' \cup {x}
  BY <1>2, <1>3 DEF LinkedChildren
<1>5. \A i \in S \ {x} : LinkedChildren(i) \subseteq LinkedChildren(i)' \cup {x}
  BY <1>2, <1>4, NodeChildren
<1>6. Root # x
  BY <1>0, <1>2 DEF Shape, EntriesStay
<1>7. LinkedChildren(x) = {}
  BY SeenEmptyIsEmpty
<1>8. S \ {x} \subseteq Linked'
  <2> DEFINE X == {x}
  <2>1. Root \notin X /\ \A i \in Linked : i \in X => LinkedChildren(i) \subseteq X
    BY <1>6, <1>7
  <2>2. \A i \in Linked \ X : LinkedChildren(i) \subseteq LinkedChildren(i)' \cup X
    BY <1>5
  <2> HIDE DEF X
  <2>3. Linked \ X \subseteq Linked'
    BY <2>1, <2>2, LinkedStay
  <2> QED BY <2>3 DEF X
<1> QED BY <1>8, ShapeHoldsLinkedNext

-----------------------------------------------------------------------------
(* No directory gets a second block: a new one has one block, and nothing  *)
(* but create and truncate, which are for files, changes a size.           *)

\* What a call does to Linked.
LinkedChange(S) ==
  \/ Kept(S) /\ Linked' = S
  \/ FileChanged(S) /\ Linked' = S
  \/ \E d \in S, n \in Names, b \in Blocks \ S :
       /\ \E p \in FreeSlots(d) : SlotWritten(S, d, p, NewEntry(b, n))
       /\ ~HasName(d, n) /\ Linked' = S \cup {b}
       /\ Fresh(b)' /\ bitmap' = bitmap \cup Held(b)'
       /\ WellFormed(b)' /\ Held(b)' \subseteq Blocks
  \/ \E d, x \in S : \E p \in ValidAt(d) :
       /\ x = EntryAt(d, p).inode /\ SlotWritten(S, d, p, NoEntry)
       /\ Linked' = S \ {x} /\ LinkedChildren(x) = {}
       /\ bitmap' = bitmap \ Held(x)
  \/ Renamed(S) /\ Linked' = S

LEMMA HeldOfDirectory ==
  ASSUME Shaped, NEW x \in Linked, BlockCount(x) = 1
  PROVE  Held(x) = {PtrAt(x, 0), x}
<1>1. TypeOK /\ x \in Blocks /\ OwnBlocks(x)
  BY LinkedShape DEF WellFormed
<1>2. Indices(x) = {0}
  BY DEF Indices
<1> QED BY <1>1, <1>2, HeldParts

LEMMA HeldNext == TypeOK' => \A i \in Blocks : WellFormed(i)' => Held(i)' \subseteq Blocks
<1>1. TypeOK => \A i \in Blocks : WellFormed(i) => Held(i) \subseteq Blocks
  BY HeldParts DEF WellFormed
<1>2. (TypeOK => \A i \in Blocks : WellFormed(i) => Held(i) \subseteq Blocks)'
  BY <1>1, PTL
<1> QED BY <1>2

\* What a call that adds, removes, renames or changes a file links and unlinks.
LEMMA LinkedOfAdded ==
  ASSUME Integrity, TypeOK', NEW S \in SUBSET Blocks, S = Linked, NEW d \in S, NEW n \in Names,
         NEW b \in Blocks \ S, NEW t, AddedAs(S, d, n, b, t)
  PROVE  Linked' = S \cup {b} /\ WellFormed(b)' /\ Held(b)' \subseteq Blocks
<1>1. Linked' = S \cup {b}
  BY IntegrityShaped, LinkedAdded DEF AddedAs, Sound
<1>2. WellFormed(b)' /\ Held(b)' \subseteq Blocks
  BY HeldNext DEF AddedAs, Sound, Shape
<1> QED BY <1>1, <1>2

LEMMA LinkedOfRemoved ==
  ASSUME Integrity, OneBlockDirs, NEW S \in SUBSET Blocks, S = Linked, NEW d \in S, NEW x \in S,
         NEW p \in ValidAt(d), RemovedAt(S, d, p, x)
  PROVE  Linked' = S \ {x} /\ LinkedChildren(x) = {} /\ bitmap' = bitmap \ Held(x)
<1>1. IsDir(x) => SeenEmpty(x) /\ BlockCount(x) = 1
  BY DEF OneBlockDirs, RemovedAt
<1>2. Linked' = S \ {x} /\ LinkedChildren(x) = {}
  BY <1>1, IntegrityShaped, LinkedRemoved, SeenEmptyIsEmpty DEF RemovedAt, Sound
<1>3. bitmap' = bitmap \ Held(x)
  BY <1>1, IntegrityShaped, HeldOfDirectory DEF RemovedAt
<1> QED BY <1>2, <1>3

LEMMA LinkedOfRenamed ==
  ASSUME Integrity, NEW S \in SUBSET Blocks, S = Linked, NEW d \in S, NEW n \in Names,
         NEW p \in ValidAt(d), RenamedAt(S, d, p, n)
  PROVE  Linked' = S
BY IntegrityShaped, LinkedRenamed DEF RenamedAt, Sound

LEMMA LinkedOfFile ==
  ASSUME Integrity, NEW S \in SUBSET Blocks, S = Linked, NEW f \in S, NEW size,
         FileChangedTo(S, f, size)
  PROVE  Linked' = S
<1>1. Shape(S)' /\ \A i \in S : IsDir(i) => SameNode(i)
  BY DEF FileChangedTo, Sound
<1> QED BY <1>1, IntegrityShaped, LinkedKept

LEMMA LinkedOfKept ==
  ASSUME Integrity, NEW S \in SUBSET Blocks, S = Linked, Kept(S)
  PROVE  Linked' = S
BY IntegrityShaped, LinkedKept DEF Kept, Sound

LEMMA LinkedNext ==
  ASSUME Integrity, OneBlockDirs, [Next]_vars, NEW S \in SUBSET Blocks, S = Linked
  PROVE  LinkedChange(S)
<1>0. TypeOK /\ SavedBitsAreSet /\ Sound(S)
  BY LinkedIsSound DEF Integrity
<1>1. TypeOK'
  BY <1>0, NextType
<1>2. CASE Kept(S)
  BY <1>2, LinkedOfKept DEF LinkedChange
<1>3. CASE FileChanged(S)
  <2>1. Linked' = S
    BY <1>3, LinkedOfFile DEF FileChanged
  <2> QED BY <1>3, <2>1 DEF LinkedChange
<1>4. CASE Added(S)
  <2>1. PICK d \in S, n \in Names, b \in Blocks \ S, t \in {"file", "dir"} : AddedAs(S, d, n, b, t)
    BY <1>4 DEF Added
  <2>2. Linked' = S \cup {b} /\ WellFormed(b)' /\ Held(b)' \subseteq Blocks
    BY <1>1, <2>1, LinkedOfAdded
  <2> QED BY <2>1, <2>2 DEF LinkedChange, AddedAs
<1>5. CASE Removed(S)
  <2>1. PICK d \in S, x \in S : \E p \in ValidAt(d) : RemovedAt(S, d, p, x)
    BY <1>5 DEF Removed
  <2>2. PICK p \in ValidAt(d) : RemovedAt(S, d, p, x)
    BY <2>1
  <2>3. Linked' = S \ {x} /\ LinkedChildren(x) = {} /\ bitmap' = bitmap \ Held(x)
    BY <2>2, LinkedOfRemoved
  <2> QED BY <2>2, <2>3 DEF LinkedChange, RemovedAt
<1>6. CASE Renamed(S)
  <2>1. Linked' = S
    BY <1>6, LinkedOfRenamed DEF Renamed
  <2> QED BY <1>6, <2>1 DEF LinkedChange
<1>7. Change(S)
  BY <1>0, NextChange
<1> QED BY <1>2, <1>3, <1>4, <1>5, <1>6, <1>7 DEF Change

LEMMA OneBlockNext ==
  ASSUME Integrity, OneBlockDirs, [Next]_vars
  PROVE  OneBlockDirs'
<1>0. PICK S \in SUBSET Blocks : S = Linked
  BY RootLinked
<1>1. TypeOK /\ Shape(S) /\ LinkedChange(S)
  BY <1>0, LinkedIsSound, LinkedNext DEF Integrity, Sound
<1>2. SUFFICES ASSUME NEW d \in Linked', IsDir(d)' PROVE BlockCount(d)' = 1
  BY DEF OneBlockDirs
<1>3. ASSUME d \in S, read_inode(d)' = read_inode(d) PROVE BlockCount(d)' = 1
  BY <1>0, <1>2, <1>3, SameRead DEF OneBlockDirs
<1>4. ASSUME NEW c, NEW p, NEW e, SlotWritten(S, c, p, e), d \in S
      PROVE  BlockCount(d)' = 1
  BY <1>1, <1>3, <1>4, SlotEntries
<1>5. CASE Kept(S) /\ Linked' = S
  BY <1>2, <1>3, <1>5 DEF Kept, SameNode
<1>6. CASE FileChanged(S) /\ Linked' = S
  BY <1>2, <1>3, <1>6 DEF FileChanged, FileChangedTo, SameNode
<1>7. CASE Renamed(S) /\ Linked' = S
  BY <1>2, <1>4, <1>7 DEF Renamed, RenamedAt
<1>8. ASSUME NEW c, NEW b, NEW n, Linked' = S \cup {b}, Fresh(b)',
             \E p \in FreeSlots(c) : SlotWritten(S, c, p, NewEntry(b, n))
      PROVE  BlockCount(d)' = 1
  BY <1>2, <1>4, <1>8 DEF Fresh
<1>9. ASSUME NEW c, NEW x, NEW p, Linked' = S \ {x}, SlotWritten(S, c, p, NoEntry)
      PROVE  BlockCount(d)' = 1
  BY <1>2, <1>4, <1>9
<1> QED BY <1>1, <1>5, <1>6, <1>7, <1>8, <1>9 DEF LinkedChange

LEMMA InitOneBlock == Init /\ ~WideDir => Linked = {Root} /\ OneBlockDirs
<1> SUFFICES ASSUME Init, ~WideDir PROVE Linked = {Root} /\ OneBlockDirs
  OBVIOUS
<1>1. Sound({Root}) /\ BlockCount(Root) = 1
  BY InitSound
<1>2. Linked \subseteq {Root}
  BY <1>1, ShapeHoldsLinked DEF Sound
<1> QED BY <1>1, <1>2, RootLinked DEF OneBlockDirs

LEMMA InitNames == Init => NamesApart
<1> SUFFICES ASSUME Init, NEW d \in Linked PROVE DistinctNames(d)
  BY DEF NamesApart
<1>1. PICK S \in SUBSET Blocks : Sound(S) /\ \A i \in S : \A p, q \in ValidAt(i) : p = q
  BY InitSound
<1> QED BY <1>1, ShapeHoldsLinked DEF Sound, DistinctNames

-----------------------------------------------------------------------------
(* What that says of names, listings and lost blocks *)

\* What the code assumes of its images, and keeps true if it was.
Tidy == Integrity /\ OneBlockDirs

LEMMA TidyHolds == ASSUME ~WideDir PROVE Spec => []Tidy
<1>1. Init => Tidy
  BY InitIntegrity, InitOneBlock DEF Tidy
<1>2. Integrity /\ [Next]_vars => Integrity'
  BY IntegrityNext
<1>3. Tidy /\ [Next]_vars => Tidy'
  BY <1>2, OneBlockNext DEF Tidy
<1> QED BY <1>1, <1>3, PTL DEF Spec

\* In a directory of one block no two entries have the same name: whatever the
\* calls, and also on an image with wider directories, the scan of create,
\* mkdir and rename does not miss a name there.
THEOREM NamesStayApart == ASSUME NamesFit PROVE Spec => []NamesApart
<1>1. Init => NamesApart
  BY InitNames
<1>2. Integrity /\ NamesApart /\ [Next]_vars => NamesApart'
  BY NamesNext
<1> QED BY <1>1, <1>2, IntegrityHolds, PTL DEF Spec

\* No two entries of any directory have the same name, if names fit into an
\* entry and the image has no directory of several blocks to begin with.
THEOREM NamesAlwaysUnique == ASSUME NamesFit, ~WideDir PROVE Spec => []NamesUnique
<1>1. Tidy /\ NamesApart => NamesUnique
  BY DEF Tidy, OneBlockDirs, NamesApart, DistinctNames, NamesUnique, LinkedDirs
<1> QED BY <1>1, TidyHolds, NamesStayApart, PTL

\* st_blocks is the number of blocks an inode holds: its pointers are distinct.
LEMMA BlocksCounted ==
  ASSUME Shaped, NEW i \in Linked
  PROVE  Cardinality(BlocksOf(read_inode(i))) = BlockCount(i)
<1>1. TypeOK /\ i \in Blocks /\ OwnBlocks(i) /\ BlockCount(i) \in Nat
  BY LinkedShape, InodeFields, DiskAssumption DEF WellFormed
<1> DEFINE T == BlocksOf(read_inode(i))
           f == [k \in Indices(i) |-> PtrAt(i, k)]
<1>2. T = {PtrAt(i, k) : k \in Indices(i)}
  BY <1>1, DiskAssumption DEF BlocksOf, PtrAt, Indices, BlockCount, OwnBlocks
<1>3. f \in Bijection(Indices(i), T)
  BY <1>1, <1>2 DEF OwnBlocks, Bijection, Injection, Surjection, IsInjective
<1>4. ExistsBijection(Indices(i), T)
  BY <1>3 DEF ExistsBijection
<1>5. IsFiniteSet(Indices(i)) /\ Cardinality(Indices(i)) = BlockCount(i)
  <2>1. 0 \in Int /\ BlockCount(i) - 1 \in Int
    BY <1>1
  <2>2. IsFiniteSet(0 .. BlockCount(i) - 1)
        /\ Cardinality(0 .. BlockCount(i) - 1) =
             IF 0 > BlockCount(i) - 1 THEN 0 ELSE (BlockCount(i) - 1) - 0 + 1
    BY <2>1, FS_Interval
  <2> QED BY <1>1, <2>2 DEF Indices
<1> QED BY <1>4, <1>5, FS_Bijection

\* The walk of translate takes the one entry a name has.
LEMMA FirstOfOne ==
  ASSUME TypeOK, NEW d \in Blocks, IsDir(d), DistinctNames(d), NEW p \in ValidAt(d)
  PROVE  FirstMatch(d, EntryAt(d, p).name) = {p}
<1>1. Matches(d, EntryAt(d, p).name) = {p}
  BY DEF Matches, DistinctNames
<1>2. ~Before(p, p)
  <2>1. p[1] \in Int /\ p[2] \in Int
    BY PositionParts, InodeFields, DiskAssumption DEF ValidAt, Indices
  <2> QED BY <2>1 DEF Before
<1> QED BY <1>1, <1>2 DEF FirstMatch, FirstOf

LEMMA TrueListings == Shaped /\ NamesUnique => ListingsAreTrue
<1> SUFFICES ASSUME Shaped, NamesUnique, NEW d \in LinkedDirs, NEW p \in ValidAt(d)
             PROVE  LET listed == fs_readdir(d)[p] IN
                    \E q \in FirstMatch(d, listed.name) :
                      LET i == EntryAt(d, q).inode IN
                      /\ listed.stat = fs_getattr(i)
                      /\ listed.stat.blocks = Cardinality(BlocksOf(read_inode(i)))
  BY DEF ListingsAreTrue
<1>1. d \in Linked /\ IsDir(d) /\ DistinctNames(d)
  BY DEF LinkedDirs, NamesUnique, DistinctNames
<1>2. p \in FirstMatch(d, EntryAt(d, p).name)
  BY <1>1, LinkedShape, FirstOfOne
<1>3. PICK i : i = EntryAt(d, p).inode /\ i \in Linked
  BY <1>1, LinkedClosed
<1>4. fs_readdir(d)[p] = [name |-> EntryAt(d, p).name, stat |-> fs_getattr(i)]
  BY <1>3 DEF fs_readdir
<1>5. fs_getattr(i).blocks = Cardinality(BlocksOf(read_inode(i)))
  BY <1>3, BlocksCounted DEF fs_getattr, setstat, BlockCount
<1> QED BY <1>2, <1>3, <1>4, <1>5

\* What readdir lists can be used, and has the attributes it was listed with.
THEOREM ListingsAlwaysTrue == ASSUME NamesFit, ~WideDir PROVE Spec => []ListingsAreTrue
BY IntegrityHolds, IntegrityShaped, NamesAlwaysUnique, TrueListings, PTL

LEMMA LosesNothingNext ==
  ASSUME Tidy, [Next]_vars, ret' = "ok"
  PROVE  Lost' \subseteq Lost
<1>0. PICK S \in SUBSET Blocks : S = Linked
  BY RootLinked
<1>1. TypeOK /\ Shape(S) /\ LinkedChange(S)
  BY <1>0, LinkedIsSound, LinkedNext DEF Tidy, Integrity, Sound
<1>2. SUFFICES ASSUME NEW x, x \in bitmap', x \notin {0, 1}, \A i \in Linked' : x \notin Held(i)'
               PROVE  x \in bitmap /\ \A i \in S : x \notin Held(i)
  BY <1>0 DEF Lost, Used
<1>3. ASSUME NEW i \in S \cap Linked', read_inode(i)' = read_inode(i)
      PROVE  x \notin Held(i)
  BY <1>2, <1>3, SameRead
<1>4. ASSUME NEW c, NEW p, NEW e, SlotWritten(S, c, p, e)
      PROVE  \A i \in S \cap Linked' : x \notin Held(i)
  BY <1>1, <1>3, <1>4, SlotEntries
<1>5. CASE Kept(S) /\ Linked' = S
  BY <1>2, <1>3, <1>5 DEF Kept, SameNode
<1>6. CASE FileChanged(S) /\ Linked' = S
  <2>1. PICK f \in S : /\ \A i \in S \ {f} : SameNode(i)
                       /\ bitmap' \ Held(f)' \subseteq bitmap \ Held(f)
    BY <1>6 DEF FileChanged, FileChangedTo
  <2>2. x \in bitmap /\ x \notin Held(f)
    BY <1>2, <1>6, <2>1
  <2>3. \A i \in S \ {f} : x \notin Held(i)
    BY <1>3, <1>6, <2>1 DEF SameNode
  <2> QED BY <2>2, <2>3
<1>7. CASE Renamed(S) /\ Linked' = S
  BY <1>2, <1>4, <1>7 DEF Renamed, RenamedAt
<1>8. ASSUME NEW c, NEW b, NEW n, Linked' = S \cup {b}, bitmap' = bitmap \cup Held(b)',
             \E p \in FreeSlots(c) : SlotWritten(S, c, p, NewEntry(b, n))
      PROVE  x \in bitmap /\ \A i \in S : x \notin Held(i)
  BY <1>2, <1>4, <1>8
<1>9. ASSUME NEW c, NEW y, NEW p, Linked' = S \ {y}, SlotWritten(S, c, p, NoEntry),
             bitmap' = bitmap \ Held(y)
      PROVE  x \in bitmap /\ \A i \in S : x \notin Held(i)
  BY <1>2, <1>4, <1>9
<1> QED BY <1>1, <1>5, <1>6, <1>7, <1>8, <1>9 DEF LinkedChange

\* A call that succeeds leaves no block marked that the tree does not use, but
\* those that failing calls had lost before: what create, mkdir and write take
\* becomes part of the tree, and what unlink, rmdir and truncate drop is freed.
THEOREM NothingIsLost == ASSUME ~WideDir PROVE Spec => SuccessLosesNothing
<1>1. Tidy /\ [Next]_vars => [ret' = "ok" => Lost' \subseteq Lost]_vars
  BY LosesNothingNext
<1> QED BY <1>1, TidyHolds, PTL DEF Spec, SuccessLosesNothing

LEMMA RemovedEmptyNext ==
  ASSUME Tidy, [Next]_vars, NEW d \in LinkedDirs
  PROVE  d \in Linked' \/ ValidAt(d) = {}
<1>0. PICK S \in SUBSET Blocks : S = Linked
  BY RootLinked
<1>1. LinkedChange(S) /\ d \in S /\ IsDir(d)
  BY <1>0, LinkedNext DEF Tidy, LinkedDirs
<1>2. LinkedChildren(d) = {} => ValidAt(d) = {}
  BY <1>1 DEF LinkedChildren
<1> QED BY <1>1, <1>2 DEF LinkedChange

\* A directory that leaves the tree had no entry, on an image on which rmdir's
\* look at the first block is a look at all of them.
THEOREM RemovedDirsAreEmpty == ASSUME ~WideDir PROVE Spec => RemovedDirsWereEmpty
<1>1. Tidy /\ [Next]_vars => [\A d \in LinkedDirs : d \in Linked' \/ ValidAt(d) = {}]_vars
  BY RemovedEmptyNext
<1> QED BY <1>1, TidyHolds, PTL DEF Spec, RemovedDirsWereEmpty
=============================================================================
