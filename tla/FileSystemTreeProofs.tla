------------------------ MODULE FileSystemTreeProofs ------------------------
(***************************************************************************)
(* FileSystem implements Namespace: the initial tree is one of Namespace,  *)
(* and every step is a step of Namespace or leaves the tree alone.  The    *)
(* changes of FileSystemLinks map one to one: what is kept is a stutter, a *)
(* file that changes is truncated or written, and a slot that is written   *)
(* creates, removes or renames.                                            *)
(***************************************************************************)
EXTENDS FileSystemTree, FileSystemLinks

USE DEF Blocks

TreeIsSeen == tree = [i \in Linked |-> NodeOf(i)]

EntrySet(i) == {<<EntryAt(i, p).name, EntryAt(i, p).inode>> : p \in ValidAt(i)}

LEMMA NodeParts ==
  ASSUME NEW i
  PROVE  /\ NodeOf(i).type = read_inode(i).type
         /\ NodeOf(i).length = IF IsDir(i) THEN 0 ELSE read_inode(i).size
         /\ NodeOf(i).entries = IF IsDir(i) THEN EntrySet(i) ELSE {}
         /\ NodeOf(i) = [type |-> read_inode(i).type,
                         length |-> IF IsDir(i) THEN 0 ELSE read_inode(i).size,
                         entries |-> IF IsDir(i) THEN EntrySet(i) ELSE {}]
BY DEF NodeOf, EntrySet

LEMMA SameNodeOf == ASSUME NEW i, SameNode(i) PROVE NodeOf(i)' = NodeOf(i)
<1>1. read_inode(i)' = read_inode(i) /\ IsDir(i)' = IsDir(i)
  BY SameNodeParts DEF SameNode
<1>2. IsDir(i) => EntrySet(i)' = EntrySet(i)
  BY SameNodeParts DEF EntrySet
<1> QED BY <1>1, <1>2 DEF NodeOf, EntrySet

LEMMA InitTree ==
  ASSUME ~WideDir, TreeInit
  PROVE  Abstract!Init
<1>1. TypeOK /\ Linked = {Root} /\ tree = [i \in Linked |-> NodeOf(i)]
  BY InitType, InitOneBlock DEF TreeInit
<1>2. IsDir(Root) /\ ValidAt(Root) = {} /\ Root \in Blocks
  BY InitSound DEF TreeInit, Sound, Shape, Rooted
<1>3. NodeOf(Root) = [type |-> "dir", length |-> 0, entries |-> {}]
  BY <1>2, NodeParts DEF EntrySet, IsDir
<1>4. tree = [i \in {Root} |-> [type |-> "dir", length |-> 0, entries |-> {}]]
  BY <1>1, <1>3
<1>5. [type |-> "dir", length |-> 0, entries |-> {}] \in Abstract!Node
  BY DiskAssumption DEF Abstract!Node
<1>6. {Root} \in SUBSET Blocks /\ tree \in [{Root} -> Abstract!Node]
  BY <1>2, <1>4, <1>5
<1> QED BY <1>4, <1>6 DEF Abstract!Init, Abstract!IsTree, Abstract!TypeOf

-----------------------------------------------------------------------------
(* One lemma per kind of change *)

\* Before and after a step: what the tree has at each inode.
LEMMA TreeParts ==
  ASSUME TreeIsSeen, TreeIsSeen', NEW S, S = Linked
  PROVE  /\ DOMAIN tree = S /\ \A i \in S : tree[i] = NodeOf(i)
         /\ tree' = [i \in Linked' |-> NodeOf(i)']
BY DEF TreeIsSeen

LEMMA KeptStep ==
  ASSUME TreeIsSeen, TreeIsSeen', NEW S, S = Linked, Linked' = S, \A i \in S : SameNode(i)
  PROVE  tree' = tree
BY SameNodeOf DEF TreeIsSeen

LEMMA ReadTypeNext == TypeOK' => \A i \in Blocks : read_inode(i)' \in InodeBlock
<1>1. TypeOK => \A i \in Blocks : read_inode(i) \in InodeBlock
  BY ReadInodeType DEF TypeOK
<1>2. (TypeOK => \A i \in Blocks : read_inode(i) \in InodeBlock)'
  BY <1>1, PTL
<1> QED BY <1>2

\* A file's length is its new size afterwards.
LEMMA FileStep ==
  ASSUME Shaped, TypeOK', TreeIsSeen, TreeIsSeen', NEW S \in SUBSET Blocks, S = Linked, Linked' = S,
         NEW f \in S, NEW s, s = read_inode(f)'.size, s = 0 \/ s >= read_inode(f).size,
         ~IsDir(f), ~IsDir(f)', WellFormed(f)', \A i \in S \ {f} : SameNode(i)
  PROVE  /\ f \in DOMAIN tree /\ tree' = [tree EXCEPT ![f].length = s]
         /\ Abstract!TypeOf(f) = "file" /\ tree[f].length = read_inode(f).size
         /\ s = 0 \/ s >= tree[f].length
         /\ s \in 0 .. MaxSize /\ tree[f].length \in 0 .. MaxSize
<1>1. /\ WellFormed(f)' /\ \A i \in S \ {f} : SameNode(i)
      /\ ~IsDir(f) /\ ~IsDir(f)' /\ read_inode(f)'.size = s
      /\ s = 0 \/ s >= read_inode(f).size
  OBVIOUS
<1>2. f \in Blocks /\ WellFormed(f) /\ WellFormed(f)' /\ TypeOK
  BY <1>1, LinkedShape
<1>3. /\ NodeOf(f) = [type |-> "file", length |-> read_inode(f).size, entries |-> {}]
      /\ NodeOf(f)' = [type |-> "file", length |-> s, entries |-> {}]
  BY <1>1, <1>2 DEF NodeOf, WellFormed, IsDir
<1>4. read_inode(f).size \in 0 .. MaxSize /\ s \in 0 .. MaxSize
  <2>1. read_inode(f) \in InodeBlock /\ read_inode(f)' \in InodeBlock
    BY <1>2, ReadTypeNext, ReadInodeType DEF TypeOK
  <2> QED BY <1>1, <2>1 DEF InodeBlock
<1>5. tree' = [tree EXCEPT ![f].length = s]
  <2>1. \A i \in S \ {f} : NodeOf(i)' = tree[i]
    BY <1>1, SameNodeOf, TreeParts
  <2>2. NodeOf(f)' = [tree[f] EXCEPT !.length = s]
    BY <1>3, TreeParts
  <2>3. tree' = [i \in S |-> IF i = f THEN [tree[f] EXCEPT !.length = s] ELSE tree[i]]
    BY <2>1, <2>2, TreeParts
  <2> QED BY <2>3, TreeParts
<1>6. f \in DOMAIN tree /\ Abstract!TypeOf(f) = "file" /\ tree[f].length = read_inode(f).size
  BY <1>3, TreeParts DEF Abstract!TypeOf
<1> QED BY <1>1, <1>4, <1>5, <1>6

\* A write that ends at end.
LEMMA WriteStep ==
  ASSUME NEW f \in DOMAIN tree, NEW s, NEW end,
         tree' = [tree EXCEPT ![f].length = s],
         s = IF end > tree[f].length THEN end ELSE tree[f].length
  PROVE  Abstract!Write(f, end)
BY DEF Abstract!Write

\* So a file that changes alone is truncated or written.
LEMMA FileIsNext ==
  ASSUME NEW f \in DOMAIN tree, NEW s, tree' = [tree EXCEPT ![f].length = s],
         Abstract!TypeOf(f) = "file", s \in 0 .. MaxSize, tree[f].length \in 0 .. MaxSize,
         s = 0 \/ s >= tree[f].length
  PROVE  Abstract!Next
<1>1. s = 0 => Abstract!Truncate(f)
  BY DEF Abstract!Truncate
<1>2. s >= tree[f].length => Abstract!Write(f, s)
  <2>1. s >= tree[f].length => s = IF s > tree[f].length THEN s ELSE tree[f].length
    BY DiskAssumption
  <2> QED BY <2>1, WriteStep
<1> QED BY <1>1, <1>2 DEF Abstract!Next

\* The entries of d but the one at p.
OtherEntries(d, p) == {<<EntryAt(d, q).name, EntryAt(d, q).inode>> : q \in ValidAt(d) \ {p}}

\* What a written slot does to the nodes of the tree.
LEMMA SlotNodes ==
  ASSUME Shaped, NEW S, S = Linked, NEW d, NEW p, NEW e, SlotWritten(S, d, p, e)
  PROVE  /\ d \in S /\ \A i \in S \ {d} : NodeOf(i)' = NodeOf(i)
         /\ NodeOf(d) = [type |-> "dir", length |-> 0, entries |-> EntrySet(d)]
         /\ NodeOf(d)' = [type |-> "dir", length |-> 0, entries |->
               IF e.inode # 0 THEN OtherEntries(d, p) \cup {<<e.name, e.inode>>}
               ELSE OtherEntries(d, p)]
<1>1. TypeOK /\ Shape(S)
  BY LinkedIsShape DEF Shaped
<1>2. /\ d \in S /\ IsDir(d) /\ p \in Positions(d)
      /\ \A i \in S : read_inode(i)' = read_inode(i)
      /\ \A i \in S \ {d} : SameNode(i)
      /\ ValidAt(d)' = IF e.inode # 0 THEN ValidAt(d) \cup {p} ELSE ValidAt(d) \ {p}
      /\ \A q \in Positions(d) : EntryAt(d, q)' = IF q = p THEN e ELSE EntryAt(d, q)
  BY <1>1, SlotEntries
<1>3. IsDir(d)' /\ \A q \in ValidAt(d) : q \in Positions(d)
  BY <1>2, SameRead DEF ValidAt
<1>4. EntrySet(d)' = IF e.inode # 0 THEN OtherEntries(d, p) \cup {<<e.name, e.inode>>}
                     ELSE OtherEntries(d, p)
  <2>1. \A q \in ValidAt(d) \ {p} : EntryAt(d, q)' = EntryAt(d, q)
    BY <1>2, <1>3
  <2>2. EntryAt(d, p)' = e
    BY <1>2
  <2>3. CASE e.inode # 0
    BY <1>2, <2>1, <2>2, <2>3 DEF EntrySet, OtherEntries
  <2>4. CASE e.inode = 0
    BY <1>2, <2>1, <2>4 DEF EntrySet, OtherEntries
  <2> QED BY <2>3, <2>4
<1>5. /\ NodeOf(d) = [type |-> "dir", length |-> 0, entries |-> EntrySet(d)]
      /\ NodeOf(d)' = [type |-> "dir", length |-> 0, entries |-> EntrySet(d)']
  BY <1>2, <1>3 DEF NodeOf, EntrySet, IsDir
<1> QED BY <1>2, <1>4, <1>5, SameNodeOf

\* An inode has one entry: the other entries are those that are not the same.
LEMMA OtherEntriesParts ==
  ASSUME Shaped, NEW d \in Linked, IsDir(d), NEW p \in ValidAt(d)
  PROVE  /\ <<EntryAt(d, p).name, EntryAt(d, p).inode>> \in EntrySet(d)
         /\ OtherEntries(d, p) = EntrySet(d) \ {<<EntryAt(d, p).name, EntryAt(d, p).inode>>}
<1>1. \A q \in ValidAt(d) : EntryAt(d, q).inode = EntryAt(d, p).inode => q = p
  BY LinkedShape DEF OneEntryEach
<1> QED BY <1>1 DEF EntrySet, OtherEntries

\* The node of a directory after its entries became es.
LEMMA TreeWith ==
  ASSUME NEW S, TreeIsSeen, S = Linked, NEW d \in S, NEW es,
         NodeOf(d) = [type |-> "dir", length |-> 0, entries |-> EntrySet(d)]
  PROVE  /\ tree[d].entries = EntrySet(d) /\ tree[d].type = "dir"
         /\ \A i \in S : Abstract!With(d, es)[i] =
              IF i = d THEN [type |-> "dir", length |-> 0, entries |-> es] ELSE NodeOf(i)
         /\ DOMAIN Abstract!With(d, es) = S
<1>1. tree = [i \in S |-> NodeOf(i)]
  BY DEF TreeIsSeen
<1>2. Abstract!With(d, es) = [tree EXCEPT ![d] = [tree[d] EXCEPT !.entries = es]]
  BY <1>1 DEF Abstract!With
<1>3. [tree[d] EXCEPT !.entries = es] = [type |-> "dir", length |-> 0, entries |-> es]
  BY <1>1
<1> QED BY <1>1, <1>2, <1>3

LEMMA CreateStep ==
  ASSUME NamesFit, Shaped, TreeIsSeen, TreeIsSeen', NEW S \in SUBSET Blocks, S = Linked,
         NEW d \in S, NEW n \in Names, NEW b \in Blocks \ S, NEW p \in FreeSlots(d),
         SlotWritten(S, d, p, NewEntry(b, n)), ~HasName(d, n),
         Linked' = S \cup {b}, Fresh(b)', WellFormed(b)', NEW t, t = read_inode(b)'.type
  PROVE  d \in DOMAIN tree /\ t \in {"file", "dir"} /\ Abstract!Create(d, n, t)
<1>1. PICK e : e = NewEntry(b, n) /\ e.name = n /\ e.inode = b /\ e.inode # 0
  <2>1. NewEntry(b, n).name = n /\ NewEntry(b, n).inode = b /\ b # 0
    BY NewEntryFits, DiskAssumption
  <2> QED BY <2>1
<1>2. OtherEntries(d, p) = EntrySet(d)
  <2>1. p \notin ValidAt(d)
    BY DEF FreeSlots
  <2> QED BY <2>1 DEF OtherEntries, EntrySet
<1> DEFINE es == EntrySet(d) \cup {<<n, b>>}
<1>3. /\ \A i \in S \ {d} : NodeOf(i)' = NodeOf(i)
      /\ NodeOf(d) = [type |-> "dir", length |-> 0, entries |-> EntrySet(d)]
      /\ NodeOf(d)' = [type |-> "dir", length |-> 0, entries |-> es]
  <2>1. SlotWritten(S, d, p, e)
    BY <1>1
  <2> HIDE DEF es
  <2>2. es = OtherEntries(d, p) \cup {<<e.name, e.inode>>}
    BY <1>1, <1>2 DEF es
  <2> QED BY <1>1, <2>1, <2>2, SlotNodes
<1>4. NodeOf(b)' = Abstract!EmptyNode(t) /\ t \in {"file", "dir"}
  <2>1. t \in {"file", "dir"}
    BY DEF WellFormed
  <2>2. CASE IsDir(b)'
    <3>1. NodeOf(b)' = [type |-> t, length |-> 0, entries |-> {}]
      BY <2>2 DEF NodeOf, Fresh
    <3> QED BY <2>1, <3>1 DEF Abstract!EmptyNode
  <2>3. CASE ~IsDir(b)'
    <3>1. NodeOf(b)' = [type |-> t, length |-> 0, entries |-> {}]
      BY <2>3 DEF NodeOf, Fresh
    <3> QED BY <2>1, <3>1 DEF Abstract!EmptyNode
  <2> QED BY <2>2, <2>3
<1>5. /\ DOMAIN tree = S /\ tree[d].type = "dir" /\ tree[d].entries = EntrySet(d)
      /\ \A i \in S : Abstract!With(d, es)[i] = NodeOf(i)'
  <2> HIDE DEF es
  <2> QED BY <1>3, TreeWith, TreeParts
<1>6. n \notin Abstract!NamesIn(d)
  BY <1>5 DEF Abstract!NamesIn, EntrySet, HasName
<1>7. tree' = [j \in S \cup {b} |-> IF j = b THEN Abstract!EmptyNode(t)
                                   ELSE Abstract!With(d, es)[j]]
  <2> HIDE DEF es
  <2> QED BY <1>4, <1>5, TreeParts
<1>8. Abstract!Create(d, n, t)
  <2>1. b \in Blocks \ DOMAIN tree
    BY <1>5
  <2> QED BY <1>5, <1>6, <1>7, <2>1 DEF Abstract!Create, Abstract!TypeOf
<1> QED BY <1>4, <1>5, <1>8

LEMMA RemoveStep ==
  ASSUME Shaped, TreeIsSeen, TreeIsSeen', NEW S \in SUBSET Blocks, S = Linked,
         NEW d \in S, NEW x \in S, NEW p \in ValidAt(d), x = EntryAt(d, p).inode,
         SlotWritten(S, d, p, NoEntry), Linked' = S \ {x}, LinkedChildren(x) = {}
  PROVE  /\ d \in DOMAIN tree
         /\ \E e \in tree[d].entries :
              /\ e[1] = EntryAt(d, p).name /\ Abstract!TypeOf(e[2]) = read_inode(x).type
              /\ Abstract!Remove(d, e)
<1> DEFINE old == <<EntryAt(d, p).name, EntryAt(d, p).inode>>
           es == EntrySet(d) \ {old}
<1>1. PICK e : e = NoEntry /\ e.inode = 0
  <2>1. NoEntry.inode = 0
    BY DEF NoEntry
  <2> QED BY <2>1
<1>2. IsDir(d) /\ old \in EntrySet(d) /\ OtherEntries(d, p) = EntrySet(d) \ {old}
  BY OtherEntriesParts DEF SlotWritten
<1>3. /\ \A i \in S \ {d} : NodeOf(i)' = NodeOf(i)
      /\ NodeOf(d) = [type |-> "dir", length |-> 0, entries |-> EntrySet(d)]
      /\ NodeOf(d)' = [type |-> "dir", length |-> 0, entries |-> es]
  <2>1. SlotWritten(S, d, p, e)
    BY <1>1
  <2> HIDE DEF old
  <2> QED BY <1>1, <1>2, <2>1, SlotNodes
<1>4. /\ DOMAIN tree = S /\ tree[d].entries = EntrySet(d)
      /\ \A i \in S : Abstract!With(d, es)[i] = NodeOf(i)'
  <2> HIDE DEF es
  <2> QED BY <1>3, TreeWith, TreeParts
<1>5. tree[x].entries = {}
  <2>1. tree[x].entries = IF IsDir(x) THEN EntrySet(x) ELSE {}
    BY TreeParts, NodeParts
  <2>2. IsDir(x) => ValidAt(x) = {}
    BY DEF LinkedChildren
  <2>3. ValidAt(x) = {} => EntrySet(x) = {}
    BY DEF EntrySet
  <2> QED BY <2>1, <2>2, <2>3
<1>6. old[1] = EntryAt(d, p).name /\ old[2] = x
  OBVIOUS
<1> HIDE DEF old
<1>7. tree' = [j \in S \ {x} |-> Abstract!With(d, es)[j]]
  BY <1>4, TreeParts
<1>8. Abstract!Remove(d, old)
  BY <1>4, <1>5, <1>6, <1>7 DEF Abstract!Remove
<1>9. Abstract!TypeOf(x) = read_inode(x).type
  BY TreeParts, NodeParts DEF Abstract!TypeOf
<1> QED BY <1>2, <1>4, <1>6, <1>8, <1>9

LEMMA RenameStep ==
  ASSUME NamesFit, Shaped, OneBlockDirs, TreeIsSeen, TreeIsSeen',
         NEW S \in SUBSET Blocks, S = Linked, Linked' = S,
         NEW d \in S, NEW n \in Names, NEW p \in ValidAt(d),
         SlotWritten(S, d, p, NewEntry(EntryAt(d, p).inode, n)),
         BlockCount(d) = 1 => n = EntryAt(d, p).name \/ ~HasName(d, n)
  PROVE  /\ d \in DOMAIN tree
         /\ \E e \in tree[d].entries : e[1] = EntryAt(d, p).name /\ Abstract!Rename(d, e, n)
<1>2. /\ SlotWritten(S, d, p, NewEntry(EntryAt(d, p).inode, n))
      /\ BlockCount(d) = 1 => n = EntryAt(d, p).name \/ ~HasName(d, n)
  OBVIOUS
<1>3. PICK x : x = EntryAt(d, p).inode /\ x # 0
  BY <1>2 DEF ValidAt, Valid
<1>4. PICK e : e = NewEntry(x, n) /\ e.name = n /\ e.inode = x
  BY NewEntryFits
<1> DEFINE old == <<EntryAt(d, p).name, EntryAt(d, p).inode>>
           es == (EntrySet(d) \ {old}) \cup {<<n, x>>}
<1>5. IsDir(d) /\ old \in EntrySet(d) /\ OtherEntries(d, p) = EntrySet(d) \ {old}
  BY <1>2, OtherEntriesParts DEF SlotWritten
<1>6. n = old[1] \/ ~HasName(d, n)
  BY <1>2, <1>5 DEF OneBlockDirs
<1>7. old[1] = EntryAt(d, p).name /\ old[2] = x
  BY <1>3
<1> HIDE DEF old
<1>8. /\ \A i \in S \ {d} : NodeOf(i)' = NodeOf(i)
      /\ NodeOf(d) = [type |-> "dir", length |-> 0, entries |-> EntrySet(d)]
      /\ NodeOf(d)' = [type |-> "dir", length |-> 0, entries |-> es]
  <2>1. SlotWritten(S, d, p, e)
    BY <1>2, <1>3, <1>4
  <2> HIDE DEF es
  <2>2. es = OtherEntries(d, p) \cup {<<e.name, e.inode>>}
    BY <1>4, <1>5 DEF es
  <2> QED BY <1>3, <1>4, <2>1, <2>2, SlotNodes
<1>9. /\ DOMAIN tree = S /\ tree[d].entries = EntrySet(d)
      /\ \A i \in S : Abstract!With(d, es)[i] = NodeOf(i)'
      /\ DOMAIN Abstract!With(d, es) = S
  <2> HIDE DEF es
  <2> QED BY <1>8, TreeWith, TreeParts
<1>10. n = old[1] \/ n \notin Abstract!NamesIn(d)
  BY <1>6, <1>9 DEF Abstract!NamesIn, EntrySet, HasName
<1>11. tree' = Abstract!With(d, es)
  <2> HIDE DEF es
  <2>1. Abstract!With(d, es) = [i \in S |-> Abstract!With(d, es)[i]]
    BY <1>9 DEF Abstract!With
  <2> QED BY <1>9, <2>1, TreeParts
<1>12. Abstract!Rename(d, old, n)
  BY <1>7, <1>9, <1>10, <1>11 DEF Abstract!Rename
<1> QED BY <1>5, <1>7, <1>9, <1>12

LEMMA TreeStep ==
  ASSUME NamesFit, Tidy, [Next]_vars, TreeIsSeen, TreeIsSeen'
  PROVE  [Abstract!Next]_tree
<1>0. PICK S \in SUBSET Blocks : S = Linked
  BY RootLinked
<1>1. Shaped /\ OneBlockDirs /\ TypeOK' /\ LinkedChange(S)
  BY <1>0, NextType, LinkedNext, IntegrityShaped DEF Tidy, Integrity
<1>2. CASE Kept(S) /\ Linked' = S
  BY <1>0, <1>2, KeptStep DEF Kept
<1>3. CASE FileChanged(S) /\ Linked' = S
  <2>1. PICK f \in S, s \in 0 .. MaxSize : FileChangedTo(S, f, s)
    BY <1>3 DEF FileChanged
  <2>2. /\ f \in DOMAIN tree /\ tree' = [tree EXCEPT ![f].length = s]
        /\ Abstract!TypeOf(f) = "file" /\ tree[f].length \in 0 .. MaxSize
        /\ s = 0 \/ s >= tree[f].length
    BY <1>0, <1>1, <1>3, <2>1, FileStep DEF FileChangedTo, Sound, Shape
  <2> QED BY <2>2, FileIsNext
<1>4. CASE Renamed(S) /\ Linked' = S
  <2>1. PICK d \in S, n \in Names : \E p \in ValidAt(d) : RenamedAt(S, d, p, n)
    BY <1>4 DEF Renamed
  <2>2. d \in DOMAIN tree /\ \E e \in tree[d].entries : Abstract!Rename(d, e, n)
    BY <1>0, <1>1, <1>4, <2>1, RenameStep DEF RenamedAt
  <2> QED BY <2>2 DEF Abstract!Next
<1>5. ASSUME NEW d \in S, NEW n \in Names, NEW b \in Blocks \ S, NEW p \in FreeSlots(d),
             SlotWritten(S, d, p, NewEntry(b, n)), ~HasName(d, n),
             Linked' = S \cup {b}, Fresh(b)', WellFormed(b)'
      PROVE  Abstract!Next
  <2>1. PICK t : t = read_inode(b)'.type
    OBVIOUS
  <2>2. d \in DOMAIN tree /\ t \in {"file", "dir"} /\ Abstract!Create(d, n, t)
    BY <1>0, <1>1, <1>5, <2>1, CreateStep
  <2> QED BY <2>2 DEF Abstract!Next
<1>6. ASSUME NEW d \in S, NEW x \in S, NEW p \in ValidAt(d), x = EntryAt(d, p).inode,
             SlotWritten(S, d, p, NoEntry), Linked' = S \ {x}, LinkedChildren(x) = {}
      PROVE  Abstract!Next
  <2>1. d \in DOMAIN tree /\ \E e \in tree[d].entries : Abstract!Remove(d, e)
    BY <1>0, <1>1, <1>6, RemoveStep
  <2> QED BY <2>1 DEF Abstract!Next
<1> QED BY <1>1, <1>2, <1>3, <1>4, <1>5, <1>6 DEF LinkedChange

LEMMA AddedStep ==
  ASSUME NamesFit, Tidy, Next, TreeIsSeen, TreeIsSeen', NEW S \in SUBSET Blocks, S = Linked,
         NEW d \in S, NEW n \in Names, NEW b \in Blocks \ S, NEW t, AddedAs(S, d, n, b, t)
  PROVE  Abstract!Create(d, n, t)
<1>1. Integrity /\ Shaped /\ TypeOK'
  BY NextType, IntegrityShaped DEF Tidy, Integrity
<1>2. Linked' = S \cup {b} /\ WellFormed(b)'
  BY <1>1, LinkedOfAdded
<1>3. PICK p \in FreeSlots(d) : SlotWritten(S, d, p, NewEntry(b, n))
  BY DEF AddedAs
<1> QED BY <1>1, <1>2, <1>3, CreateStep DEF AddedAs

LEMMA RemovedStep ==
  ASSUME Tidy, Next, TreeIsSeen, TreeIsSeen', NEW S \in SUBSET Blocks, S = Linked,
         NEW d \in S, NEW n, NEW p \in FirstMatch(d, n), NEW x \in S, RemovedAt(S, d, p, x)
  PROVE  \E e \in Named(d, n) :
           Abstract!TypeOf(e[2]) = read_inode(x).type /\ Abstract!Remove(d, e)
<1>1. Integrity /\ Shaped /\ OneBlockDirs
  BY IntegrityShaped DEF Tidy
<1>2. p \in ValidAt(d) /\ EntryAt(d, p).name = n
  BY DEF FirstMatch, FirstOf, Matches
<1>3. Linked' = S \ {x} /\ LinkedChildren(x) = {}
  BY <1>1, <1>2, LinkedOfRemoved
<1>4. \E e \in tree[d].entries :
        /\ e[1] = EntryAt(d, p).name /\ Abstract!TypeOf(e[2]) = read_inode(x).type
        /\ Abstract!Remove(d, e)
  BY <1>1, <1>2, <1>3, RemoveStep DEF RemovedAt
<1> QED BY <1>2, <1>4 DEF Named

LEMMA RenamedStep ==
  ASSUME NamesFit, Tidy, Next, TreeIsSeen, TreeIsSeen', NEW S \in SUBSET Blocks, S = Linked,
         NEW d \in S, NEW n, NEW m \in Names, NEW q \in Matches(d, n), RenamedAt(S, d, q, m)
  PROVE  \E e \in Named(d, n) : Abstract!Rename(d, e, m)
<1>1. Integrity /\ Shaped /\ OneBlockDirs
  BY IntegrityShaped DEF Tidy
<1>2. q \in ValidAt(d) /\ EntryAt(d, q).name = n
  BY DEF Matches
<1>3. Linked' = S
  BY <1>1, <1>2, LinkedOfRenamed
<1>4. \E e \in tree[d].entries : e[1] = EntryAt(d, q).name /\ Abstract!Rename(d, e, m)
  BY <1>1, <1>2, <1>3, RenameStep DEF RenamedAt
<1> QED BY <1>2, <1>4 DEF Named

\* A handler's answer and the tree.
LEMMA AnswerStep ==
  ASSUME NamesFit, Tidy, Next, TreeIsSeen, TreeIsSeen'
  PROVE  AnswerIsTrue
<1>0. PICK S \in SUBSET Blocks : S = Linked
  BY RootLinked
<1>1. Integrity /\ Shaped /\ TypeOK /\ SavedBitsAreSet /\ TypeOK' /\ Sound(S)
  BY <1>0, NextType, LinkedIsSound, IntegrityShaped DEF Tidy, Integrity
<1>2. Addressable \subseteq S
  BY <1>1, ShapeHoldsLinked DEF Sound
<1>3. Kept(S) => tree' = tree
  BY <1>0, <1>1, LinkedOfKept, KeptStep DEF Kept
<1>4. ret' # "ok" => tree' = tree
  BY <1>1, <1>3, NextChange
<1>5. fs_init => tree' = tree
  BY <1>1, <1>3, KeepNext DEF fs_init, SavedBitsAreSet
<1>6. ASSUME ret' = "ok" PROVE DirectoryCallDone
  <2> SUFFICES ASSUME NEW d \in S, NEW n \in Names
        PROVE  /\ fs_create(d, n) => Abstract!Create(d, n, "file")
               /\ fs_mkdir(d, n) => Abstract!Create(d, n, "dir")
               /\ fs_unlink(d, n) => \E e \in Named(d, n) :
                    Abstract!TypeOf(e[2]) = "file" /\ Abstract!Remove(d, e)
               /\ fs_rmdir(d, n) => \E e \in Named(d, n) :
                    Abstract!TypeOf(e[2]) = "dir" /\ Abstract!Remove(d, e)
               /\ \A d2 \in Addressable, m \in Names : fs_rename(d, n, d2, m) =>
                    d2 = d /\ \E e \in Named(d, n) : Abstract!Rename(d, e, m)
    BY <1>2 DEF DirectoryCallDone
  <2>1. ASSUME fs_create(d, n) PROVE Abstract!Create(d, n, "file")
    BY <1>0, <1>1, <1>6, <2>1, CreateNext, AddedStep
  <2>2. ASSUME fs_mkdir(d, n) PROVE Abstract!Create(d, n, "dir")
    BY <1>0, <1>1, <1>6, <2>2, MkdirNext, AddedStep
  <2>3. \A x \in S : read_inode(x).type = IF IsDir(x) THEN "dir" ELSE "file"
    BY <1>0, <1>1, LinkedShape DEF WellFormed, IsDir
  <2>4. ASSUME fs_unlink(d, n)
        PROVE  \E e \in Named(d, n) : Abstract!TypeOf(e[2]) = "file" /\ Abstract!Remove(d, e)
    BY <1>0, <1>1, <1>6, <2>3, <2>4, UnlinkNext, RemovedStep
  <2>5. ASSUME fs_rmdir(d, n)
        PROVE  \E e \in Named(d, n) : Abstract!TypeOf(e[2]) = "dir" /\ Abstract!Remove(d, e)
    BY <1>0, <1>1, <1>6, <2>3, <2>5, RmdirNext, RemovedStep
  <2>6. ASSUME NEW d2 \in Addressable, NEW m \in Names, fs_rename(d, n, d2, m)
        PROVE  d2 = d /\ \E e \in Named(d, n) : Abstract!Rename(d, e, m)
    BY <1>0, <1>1, <1>6, <2>6, RenameNext, RenamedStep
  <2> QED BY <2>1, <2>2, <2>4, <2>5, <2>6
<1>7. ASSUME ret' = "ok" PROVE FileCallDone
  <2> SUFFICES ASSUME NEW i \in S
        PROVE  /\ \A len \in 0 .. MaxSize :
                    fs_truncate(i, len) => len = 0 /\ Abstract!Truncate(i)
               /\ \A off, len \in 0 .. MaxSize :
                    off + len <= MaxSize /\ fs_write(i, off, len) => Abstract!Write(i, off + len)
               /\ fs_chmod(i) \/ fs_utime(i) => tree' = tree
    BY <1>2 DEF FileCallDone
  <2>1. ASSUME NEW len \in 0 .. MaxSize, fs_truncate(i, len)
        PROVE  len = 0 /\ Abstract!Truncate(i)
    <3>1. len = 0
      BY <1>7, <2>1 DEF fs_truncate, Fails
    <3>2. FileChangedTo(S, i, 0)
      BY <1>1, <1>7, <2>1, TruncateNext
    <3>3. Linked' = S
      BY <1>0, <1>1, <3>2, LinkedOfFile
    <3>4. tree' = [tree EXCEPT ![i].length = 0]
      BY <1>0, <1>1, <3>2, <3>3, FileStep DEF FileChangedTo, Sound, Shape
    <3> QED BY <3>1, <3>4 DEF Abstract!Truncate
  <2>2. ASSUME NEW off \in 0 .. MaxSize, NEW len \in 0 .. MaxSize,
               off + len <= MaxSize, fs_write(i, off, len)
        PROVE  Abstract!Write(i, off + len)
    <3>1. PICK s : s = NewSize(read_inode(i), off, len)
      OBVIOUS
    <3>2. FileChangedTo(S, i, s)
      BY <1>1, <1>7, <2>2, <3>1, WriteNext
    <3>3. Linked' = S
      BY <1>0, <1>1, <3>2, LinkedOfFile
    <3>4. /\ i \in DOMAIN tree /\ tree' = [tree EXCEPT ![i].length = s]
          /\ tree[i].length = read_inode(i).size
      BY <1>0, <1>1, <3>2, <3>3, FileStep DEF FileChangedTo, Sound, Shape
    <3>5. s = IF off + len > tree[i].length THEN off + len ELSE tree[i].length
      BY <3>1, <3>4 DEF NewSize
    <3> QED BY <3>4, <3>5, WriteStep
  <2>3. ASSUME fs_chmod(i) \/ fs_utime(i) PROVE tree' = tree
    BY <1>1, <1>3, <2>3, RewriteNext DEF fs_chmod, fs_utime
  <2> QED BY <2>1, <2>2, <2>3
<1> QED BY <1>4, <1>5, <1>6, <1>7 DEF AnswerIsTrue

-----------------------------------------------------------------------------
(* The two theorems *)

LEMMA SeenNext ==
  ASSUME Tidy, TreeIsSeen, [TreeNext]_<<vars, tree>>
  PROVE  TreeIsSeen'
<1>1. CASE TreeNext
  BY <1>1 DEF TreeNext, TreeIsSeen
<1>2. CASE UNCHANGED <<vars, tree>>
  <2>1. PICK S \in SUBSET Blocks : S = Linked
    BY RootLinked
  <2>2. Shaped /\ TypeOK /\ Shape(S) /\ UNCHANGED vars
    BY <1>2, <2>1, LinkedIsShape, IntegrityShaped DEF Tidy, Integrity
  <2>3. Shape(S)' /\ \A i \in S : SameNode(i)
    BY <2>2, KeepShape DEF vars
  <2>4. Linked' = S
    BY <2>1, <2>2, <2>3, LinkedKept
  <2> QED BY <1>2, <2>1, <2>3, <2>4, SameNodeOf DEF TreeIsSeen
<1> QED BY <1>1, <1>2

LEMMA TreeAlwaysSeen ==
  ASSUME ~WideDir
  PROVE  TreeSpec => [](Tidy /\ TreeIsSeen)
<1>1. TreeInit => TreeIsSeen /\ Init
  BY DEF TreeInit, TreeIsSeen
<1>2. [TreeNext]_<<vars, tree>> => [Next]_vars
  BY DEF TreeNext
<1>3. Tidy /\ TreeIsSeen /\ [TreeNext]_<<vars, tree>> => TreeIsSeen'
  BY SeenNext
<1>4. TreeSpec => Spec
  BY <1>1, <1>2, PTL DEF TreeSpec, Spec
<1>5. Spec => []Tidy
  BY TidyHolds
<1> QED BY <1>1, <1>3, <1>4, <1>5, PTL DEF TreeSpec

\* Whatever the calls and their answers, the tree that entries lead to from the
\* root changes by one operation of Namespace at a time, whole and at once.
THEOREM ImplementsTheNamespace ==
  ASSUME NamesFit, ~WideDir
  PROVE  TreeSpec => ImplementsNamespace
<1>1. TreeInit => Abstract!Init
  BY InitTree
<1>2. Tidy /\ TreeIsSeen /\ TreeIsSeen' /\ [TreeNext]_<<vars, tree>> => [Abstract!Next]_tree
  BY TreeStep DEF TreeNext
<1>3. TreeSpec => [](Tidy /\ TreeIsSeen)
  BY TreeAlwaysSeen
<1>4. TreeSpec => Abstract!Spec
  BY <1>1, <1>2, <1>3, PTL DEF TreeSpec, Abstract!Spec
<1> QED BY <1>4 DEF ImplementsNamespace

\* A call that answers with an error has left the tree as it was; one that
\* answers ok has done to it what Namespace says this very call does.
THEOREM AnswersAlwaysTrue ==
  ASSUME NamesFit, ~WideDir
  PROVE  TreeSpec => AnswersAreTrue
<1>1. Tidy /\ TreeIsSeen /\ TreeIsSeen' /\ [TreeNext]_<<vars, tree>>
        => [AnswerIsTrue]_<<vars, tree>>
  BY AnswerStep DEF TreeNext
<1>2. TreeSpec => [](Tidy /\ TreeIsSeen)
  BY TreeAlwaysSeen
<1> QED BY <1>1, <1>2, PTL DEF TreeSpec, AnswersAreTrue
=============================================================================
