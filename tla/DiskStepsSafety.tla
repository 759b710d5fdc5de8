-------------------------- MODULE DiskStepsSafety ---------------------------
(***************************************************************************)
(* With one thread (the -s of fuse_main, and the unit tests), for images   *)
(* of every size and every number of stops and of failing writes: what     *)
(* DiskSteps says of stops, of the bitmap and of the tree holds in every   *)
(* state, and each call changes the tree in one write.                     *)
(*                                                                         *)
(* The invariant says where in its plan a call is.  Either no step that is *)
(* left changes the tree, or exactly one does, and what that step needs is *)
(* done or comes before it in the plan: blocks the tree does not use hold  *)
(* what they must, and their bits are set and saved.  The plan is only     *)
(* looked at from the step the call has reached, so that a step that was   *)
(* taken leaves the same statement about the rest.                         *)
(***************************************************************************)
EXTENDS DiskStepsProofs, FileSystemTreeProofs

USE DEF Blocks, PtrIndex, Slots, Root, RootBlock

\* The step h leaves the tree alone, and so does undoing it.
KeepsTree(h) ==
  /\ h.do = "clear" => h.bits \cap Used = {}
  /\ h.do = "put" => (h.at \notin Used \/ h.what = disk[h.at]) /\ h.undo \cap Used = {}
Quiet(s) == \A k \in DOMAIN s : KeepsTree(s[k])

\* Before step c of the plan s, block x holds v ...
WillBe(s, c, x, v) ==
  /\ disk[x] = v \/ \E k \in 1 .. c - 1 : s[k].do = "put" /\ s[k].at = x
  /\ \A k \in 1 .. c - 1 : s[k].do = "put" /\ s[k].at = x => s[k].what = v
\* ... the bits of N are set in the bitmap, and are set on disk.
WillBeSet(s, c, N) == (N \subseteq bitmap /\ mount = "ok") \/ \E k \in 1 .. c - 1 : s[k] = SetBits(N)
WillBeSaved(s, c, N) ==
  \/ N \subseteq bitmap /\ N \subseteq map_blk
  \/ \E k \in 1 .. c - 1 : /\ s[k] = Save
                           /\ N \subseteq bitmap \/ \E j \in 1 .. k - 1 : s[j] = SetBits(N)

IsNew(s, c, i, b) ==
  \/ b = i /\ WillBe(s, c, i, AnInode("file", 0, NullPtrs))
  \/ /\ b # i /\ WillBe(s, c, i, AnInode("dir", BlockSize, FirstPtr(b)))
     /\ WillBe(s, c, b, Entries(NoEntries))

\* Step c, and no step before it, changes the tree: it adds, removes or renames an
\* entry, or writes the inode of a file.
Adds(s, c) ==
  /\ Len(s) = c
  /\ \E d \in Linked, n \in Names : \E p \in FreeSlots(d) : \E i, b \in Blocks \ Used :
       /\ IsDir(d) /\ ~HasName(d, n)
       /\ s[c] = PutEntry(d, p, NewEntry(i, n))
       /\ IsNew(s, c, i, b) /\ WillBeSaved(s, c, {i, b})
Removes(s, c) ==
  /\ c = 1
  /\ \E d \in Linked : \E p \in ValidAt(d) : \E x \in Linked : \E R \in SUBSET Held(x) :
       /\ x = EntryAt(d, p).inode /\ IsDir(d) /\ (IsDir(x) => SeenEmpty(x))
       /\ s = <<PutEntry(d, p, NoEntry), ClearBits(R), Save>>
Renames(s, c) ==
  /\ c = 1
  /\ \E d \in Linked, n \in Names : \E p \in ValidAt(d) :
       /\ IsDir(d) /\ (BlockCount(d) = 1 => n = EntryAt(d, p).name \/ ~HasName(d, n))
       /\ s = <<PutEntry(d, p, NewEntry(EntryAt(d, p).inode, n))>>
Grows(s, c, name) ==
  /\ name = "write"
  /\ \E f \in Linked : \E ino \in InodeBlock : \E new \in SUBSET (Blocks \ Used) :
       /\ ~IsDir(f) /\ s[c] = Put(f, ino) /\ Grown(f, ino, new)
       /\ \A x \in new : WillBe(s, c, x, Data(f))
       /\ IF new = {} THEN Len(s) = c
          ELSE Len(s) = c + 1 /\ s[c + 1] = Save /\ WillBeSet(s, c, new)

Pending(s, name) ==
  \E c \in DOMAIN s :
    /\ \A k \in 1 .. c - 1 : KeepsTree(s[k]) /\ s[k].do # "clear"
    /\ Adds(s, c) \/ Removes(s, c) \/ Renames(s, c) \/ Grows(s, c, name)

\* truncate clears the bits of the blocks before the file gives them up.
Truncating(s, name) ==
  /\ name = "truncate"
  /\ \E f \in Linked :
       LET B == BlocksOf(read_inode(f))
           e == Put(f, Emptied(read_inode(f)))
       IN /\ ~IsDir(f)
          /\ \/ s = <<ClearBits(B), e, Save>> /\ Used \subseteq bitmap
             \/ s = <<e, Save>> /\ Used \subseteq bitmap \cup B

\* The plan of a call, as far as it has got.
Working(s, name) ==
  \/ Used \subseteq bitmap /\ (Quiet(s) \/ Pending(s, name))
  \/ Truncating(s, name)

\* The blocks of a file that has grown are in the tree, and not yet in the map on disk.
Late(s, name) == s = <<Save>> /\ name = "write" /\ mount = "ok"

Safe(s, name) ==
  /\ Shape(Linked) /\ Working(s, name)
  /\ Used \subseteq map_blk \/ Late(s, name)
  /\ WideDir \/ OneBlockDirs

SafeInv(t) ==
  /\ StepsInv /\ TreeIsSeen
  /\ mount = "down" => todo[t] = <<>>
  /\ loaded[t] = <<>> \/ (loaded[t] = <<bitmap>> /\ mount = "ok")
  /\ ~risk => Safe(todo[t], op[t])

-----------------------------------------------------------------------------
(* What a write does to the tree.  Of each write: the tree takes a step of *)
(* Namespace, or none.                                                     *)

TreeSteps ==
  /\ Shape(Linked)'
  /\ OneBlockDirs => OneBlockDirs'
  /\ NamesFit /\ OneBlockDirs /\ TreeIsSeen /\ TreeIsSeen' => tree' = tree \/ Abstract!Next

LEMMA UsedParts ==
  ASSUME Shaped
  PROVE  Used \subseteq Blocks /\ \A i \in Linked : i \in Held(i) /\ Held(i) \subseteq Used
<1>1. \A i \in Linked : i \in Blocks /\ WellFormed(i) /\ TypeOK
  BY LinkedShape
<1>2. \A i \in Linked : i \in Held(i) /\ Held(i) \subseteq Blocks
  BY <1>1, HeldParts DEF WellFormed, Held
<1> QED BY <1>2 DEF Used

\* A directory's entries are in blocks the tree uses, and lead to inodes of the tree.
LEMMA LinkedDirectory ==
  ASSUME Shaped, NEW d \in Linked, IsDir(d), NEW p \in Positions(d)
  PROVE  /\ BlockAt(d, p) \in Used /\ BlockAt(d, p) \in Blocks
         /\ EntryAt(d, p) \in Entry /\ p[2] \in Slots
<1>1. d \in Blocks /\ WellFormed(d) /\ TypeOK
  BY LinkedShape
<1> QED BY <1>1, UsedParts, PositionBlock

LEMMA SameDirs ==
  ASSUME NEW S, S = Linked, Linked' \subseteq S, \A i \in S : IsDir(i)' => SameNode(i)
  PROVE  OneBlockDirs => OneBlockDirs'
BY SameNodeParts DEF OneBlockDirs

\* A write to a block the tree does not use, or of what a block holds, is no step of it.
LEMMA TreeStays ==
  ASSUME Shaped, \A x \in Used : disk'[x] = disk[x]
  PROVE  /\ Linked' = Linked /\ Used' = Used /\ TreeSteps
         /\ TreeIsSeen /\ TreeIsSeen' => tree' = tree
<1>1. PICK S \in SUBSET Blocks : S = Linked
  BY RootLinked
<1>2. TypeOK /\ Shape(S)
  BY <1>1, LinkedIsShape DEF Shaped
<1>3. Shape(S)' /\ \A i \in S : SameNode(i)
  BY <1>1, <1>2, UsedParts, KeepShape
<1>4. Linked' = S
  BY <1>1, <1>3, LinkedKept
<1>5. Used' = Used
  BY <1>1, <1>3, <1>4, SameNodeParts DEF Used
<1>6. TreeIsSeen /\ TreeIsSeen' => tree' = tree
  BY <1>1, <1>3, <1>4, KeptStep
<1>7. OneBlockDirs => OneBlockDirs'
  BY <1>1, <1>3, <1>4, SameDirs
<1> QED BY <1>1, <1>3, <1>4, <1>5, <1>6, <1>7 DEF TreeSteps

\* PutEntry writes one slot of a directory of the tree.
LEMMA EntryWritten ==
  ASSUME Shaped, NEW S, S = Linked, NEW d \in S, IsDir(d), NEW p \in Positions(d), NEW e \in Entry,
         NEW h, h = PutEntry(d, p, e), disk' = [disk EXCEPT ![h.at] = h.what]
  PROVE  /\ SlotWritten(S, d, p, e)
         /\ \A x \in Blocks \ Used : disk'[x] = disk[x]
<1>1. BlockAt(d, p) \in Used /\ BlockAt(d, p) \in Blocks /\ disk \in [Blocks -> Content]
  BY LinkedDirectory DEF Shaped, TypeOK
<1>2. PICK x, c : x = BlockAt(d, p) /\ c = SetEntry(disk, x, p[2], e)
  OBVIOUS
<1>3. h.at = x /\ h.what = c[x]
  BY <1>2 DEF PutEntry, Put
<1>4. disk' = c
  BY <1>1, <1>2, <1>3 DEF SetEntry
<1>5. \A y \in Blocks \ Used : disk'[y] = disk[y]
  BY <1>1, <1>2, <1>3
<1> QED BY <1>1, <1>2, <1>4, <1>5 DEF SlotWritten

\* What an inode and its block are before an entry leads to it.
Made(i, b) ==
  \/ b = i /\ disk[i] = AnInode("file", 0, NullPtrs)
  \/ /\ b # i /\ disk[i] = AnInode("dir", BlockSize, FirstPtr(b))
     /\ disk[b] = Entries(NoEntries)

LEMMA MadeWhole ==
  ASSUME NEW i \in Blocks, NEW b \in Blocks, Made(i, b), disk'[i] = disk[i], disk'[b] = disk[b]
  PROVE  /\ WellFormed(i)' /\ Held(i)' = {i, b} /\ Fresh(i)'
         /\ IsDir(i)' => ValidAt(i)' = {} /\ BlockCount(i)' = 1
<1>1. CASE b = i /\ disk[i] = AnInode("file", 0, NullPtrs)
  <2>1. /\ disk'[i].kind = "inode" /\ disk'[i].type = "file"
        /\ disk'[i].size = 0 /\ disk'[i].ptrs = NullPtrs
    BY <1>1 DEF AnInode
  <2>2. read_inode(i)'.size = 0
    BY <2>1 DEF read_inode
  <2> QED BY <1>1, <2>1, <2>2, NewFile DEF Fresh
<1>2. CASE /\ b # i /\ disk[i] = AnInode("dir", BlockSize, FirstPtr(b))
           /\ disk[b] = Entries(NoEntries)
  BY <1>2, NewDirectory DEF Fresh
<1> QED BY <1>1, <1>2 DEF Made

LEMMA EntryAdded ==
  ASSUME Shaped, NEW d \in Linked, NEW n \in Names, NEW p \in FreeSlots(d),
         IsDir(d), ~HasName(d, n), NEW i \in Blocks \ Used, NEW b \in Blocks \ Used, Made(i, b),
         NEW h, h = PutEntry(d, p, NewEntry(i, n)), disk' = [disk EXCEPT ![h.at] = h.what]
  PROVE  TreeSteps /\ Used' = Used \cup {i, b}
<1>1. PICK S \in SUBSET Blocks : S = Linked
  BY RootLinked
<1>2. TypeOK /\ Shape(S) /\ p \in Positions(d) /\ p \notin ValidAt(d)
  BY <1>1, LinkedIsShape DEF Shaped, FreeSlots
<1>3. PICK e \in Entry : e = NewEntry(i, n) /\ e.inode = i
  BY NewEntryType DEF NewEntry
<1>4. SlotWritten(S, d, p, e) /\ \A x \in Blocks \ Used : disk'[x] = disk[x]
  BY <1>1, <1>2, <1>3, EntryWritten
<1>5. /\ WellFormed(i)' /\ Held(i)' = {i, b} /\ Fresh(i)'
      /\ IsDir(i)' => ValidAt(i)' = {} /\ BlockCount(i)' = 1
  BY <1>4, MadeWhole
<1>6. \A j \in S : Held(i)' \cap Held(j) = {}
  BY <1>1, <1>5, UsedParts
<1>7. Shape(S \cup {i})'
  BY <1>2, <1>3, <1>4, <1>5, <1>6, AddShape
<1>8. i \in Blocks \ S
  BY <1>1, UsedParts
<1>9. SlotWritten(S, d, p, NewEntry(i, n))
  BY <1>3, <1>4
<1>10. Linked' = S \cup {i}
  BY <1>1, <1>7, <1>8, <1>9, LinkedAdded
<1>11. \A j \in S : Held(j)' = Held(j) /\ IsDir(j)' = IsDir(j) /\ BlockCount(j)' = BlockCount(j)
  BY <1>2, <1>4, SlotWrite, SameRead
<1>12. Used' = Used \cup {i, b}
  BY <1>1, <1>5, <1>10, <1>11 DEF Used
<1>13. OneBlockDirs => OneBlockDirs'
  BY <1>1, <1>5, <1>10, <1>11 DEF OneBlockDirs
<1>14. ASSUME NamesFit, TreeIsSeen, TreeIsSeen' PROVE Abstract!Next
  <2>1. PICK t : t = read_inode(i)'.type
    OBVIOUS
  <2>2. d \in DOMAIN tree /\ t \in {"file", "dir"} /\ Abstract!Create(d, n, t)
    BY <1>1, <1>5, <1>8, <1>9, <1>10, <1>14, <2>1, CreateStep
  <2> QED BY <2>2 DEF Abstract!Next
<1> QED BY <1>7, <1>10, <1>12, <1>13, <1>14 DEF TreeSteps

LEMMA ShapedNext == \A T \in SUBSET Blocks : TypeOK' /\ Shape(T)' => Shape(Linked)'
<1>1. \A T \in SUBSET Blocks : TypeOK /\ Shape(T) => Shape(Linked)
  BY LinkedIsShape DEF Shaped
<1>2. (\A T \in SUBSET Blocks : TypeOK /\ Shape(T) => Shape(Linked))'
  BY <1>1, PTL
<1> QED BY <1>2

LEMMA EntryRemoved ==
  ASSUME Shaped, TypeOK', NEW d \in Linked, NEW p \in ValidAt(d),
         NEW x \in Linked, x = EntryAt(d, p).inode, IsDir(d), IsDir(x) => SeenEmpty(x),
         NEW h, h = PutEntry(d, p, NoEntry), disk' = [disk EXCEPT ![h.at] = h.what]
  PROVE  TreeSteps /\ Used' \subseteq Used \ Held(x)
<1>1. PICK S \in SUBSET Blocks : S = Linked
  BY RootLinked
<1>2. TypeOK /\ Shape(S) /\ p \in Positions(d)
  BY <1>1, LinkedIsShape DEF Shaped, ValidAt
<1>3. NoEntry \in Entry
  BY DEF NoEntry, Entry
<1>4. SlotWritten(S, d, p, NoEntry)
  BY <1>1, <1>2, <1>3, EntryWritten
<1>5. Shape(S \ {x})' /\ Linked' \subseteq S \ {x}
  BY <1>1, <1>2, <1>4, RemoveShape, ShapeHoldsLinkedNext
<1>6. \A j \in S : Held(j)' = Held(j) /\ IsDir(j)' = IsDir(j) /\ BlockCount(j)' = BlockCount(j)
  BY <1>2, <1>4, SlotWrite, SameRead
<1>7. Used' \subseteq Used \ Held(x)
  BY <1>1, <1>2, <1>5, <1>6 DEF Used, Shape, Disjoint
<1>8. OneBlockDirs => OneBlockDirs'
  BY <1>1, <1>5, <1>6 DEF OneBlockDirs
<1>9. Shape(Linked)'
  BY <1>5, ShapedNext
<1>10. ASSUME OneBlockDirs, TreeIsSeen, TreeIsSeen' PROVE Abstract!Next
  <2>1. IsDir(x) => SeenEmpty(x) /\ BlockCount(x) = 1
    BY <1>10 DEF OneBlockDirs
  <2>2. Linked' = S \ {x} /\ LinkedChildren(x) = {}
    BY <1>1, <1>4, <1>5, <2>1, LinkedRemoved, SeenEmptyIsEmpty
  <2>3. d \in DOMAIN tree /\ \E e \in tree[d].entries : Abstract!Remove(d, e)
    BY <1>1, <1>4, <1>10, <2>2, RemoveStep
  <2> QED BY <2>3 DEF Abstract!Next
<1> QED BY <1>7, <1>8, <1>9, <1>10 DEF TreeSteps

LEMMA EntryRenamed ==
  ASSUME Shaped, NEW d \in Linked, NEW n \in Names, NEW p \in ValidAt(d), IsDir(d),
         BlockCount(d) = 1 => n = EntryAt(d, p).name \/ ~HasName(d, n),
         NEW h, h = PutEntry(d, p, NewEntry(EntryAt(d, p).inode, n)),
         disk' = [disk EXCEPT ![h.at] = h.what]
  PROVE  TreeSteps /\ Used' = Used
<1>1. PICK S \in SUBSET Blocks : S = Linked
  BY RootLinked
<1>2. TypeOK /\ Shape(S) /\ p \in Positions(d)
  BY <1>1, LinkedIsShape DEF Shaped, ValidAt
<1>3. PICK e \in Entry : e = NewEntry(EntryAt(d, p).inode, n) /\ e.inode = EntryAt(d, p).inode
  <2>1. EntryAt(d, p).inode \in Blocks
    BY <1>1, LinkedShape
  <2> QED BY <2>1, NewEntryType DEF NewEntry
<1>4. SlotWritten(S, d, p, e)
  BY <1>1, <1>2, <1>3, EntryWritten
<1>5. SlotWritten(S, d, p, NewEntry(EntryAt(d, p).inode, n))
  BY <1>3, <1>4
<1>6. Shape(S)'
  BY <1>2, <1>3, <1>4, RenameShape
<1>7. Linked' = S
  BY <1>1, <1>5, <1>6, LinkedRenamed
<1>8. \A j \in S : Held(j)' = Held(j) /\ IsDir(j)' = IsDir(j) /\ BlockCount(j)' = BlockCount(j)
  BY <1>2, <1>4, SlotWrite, SameRead
<1>9. Used' = Used
  BY <1>1, <1>7, <1>8 DEF Used
<1>10. OneBlockDirs => OneBlockDirs'
  BY <1>1, <1>7, <1>8 DEF OneBlockDirs
<1>11. ASSUME NamesFit, OneBlockDirs, TreeIsSeen, TreeIsSeen' PROVE Abstract!Next
  <2>1. d \in DOMAIN tree /\ \E old \in tree[d].entries : Abstract!Rename(d, old, n)
    BY <1>1, <1>5, <1>7, <1>11, RenameStep
  <2> QED BY <2>1 DEF Abstract!Next
<1> QED BY <1>6, <1>7, <1>9, <1>10, <1>11 DEF TreeSteps

\* A file of the tree that is written alone.
LEMMA FileWritten ==
  ASSUME Shaped, TypeOK', NEW f \in Linked, ~IsDir(f), ~IsDir(f)', WellFormed(f)',
         NEW N, N \cap Used = {}, Held(f)' \subseteq Held(f) \cup N,
         \A x \in Used \ {f} : disk'[x] = disk[x],
         read_inode(f)'.size = 0 \/ read_inode(f)'.size >= read_inode(f).size
  PROVE  TreeSteps /\ Used' \subseteq (Used \ Held(f)) \cup Held(f)'
<1>1. PICK S \in SUBSET Blocks : S = Linked
  BY RootLinked
<1>2. TypeOK /\ Shape(S)
  BY <1>1, LinkedIsShape DEF Shaped
<1>3. ASSUME NEW i \in S \ {f}
      PROVE  Held(i) \cap Held(f)' = {} /\ \A x \in Held(i) : disk'[x] = disk[x]
  <2>1. Held(i) \cap Held(f) = {} /\ Held(i) \subseteq Used /\ f \in Held(f)
    BY <1>1, <1>2, UsedParts DEF Shape, Disjoint
  <2> QED BY <2>1
<1>4. Shape(S)' /\ \A i \in S \ {f} : SameNode(i)
  BY <1>1, <1>2, <1>3, FileShape
<1>5. Linked' = S
  BY <1>1, <1>4, LinkedKept
<1>6. Used' \subseteq (Used \ Held(f)) \cup Held(f)'
  <2>1. \A i \in S \ {f} : Held(i)' = Held(i) /\ Held(i) \cap Held(f) = {}
    BY <1>1, <1>2, <1>4, SameNodeParts DEF Shape, Disjoint
  <2> QED BY <1>1, <1>5, <2>1 DEF Used
<1>7. OneBlockDirs => OneBlockDirs'
  BY <1>1, <1>4, <1>5, SameNodeParts DEF OneBlockDirs
<1>8. ASSUME TreeIsSeen, TreeIsSeen' PROVE Abstract!Next
  <2>1. PICK s : s = read_inode(f)'.size
    OBVIOUS
  <2>2. /\ f \in DOMAIN tree /\ tree' = [tree EXCEPT ![f].length = s]
        /\ Abstract!TypeOf(f) = "file" /\ s \in 0 .. MaxSize /\ tree[f].length \in 0 .. MaxSize
        /\ s = 0 \/ s >= tree[f].length
    BY <1>1, <1>4, <1>5, <1>8, <2>1, FileStep
  <2> QED BY <2>2, FileIsNext
<1> QED BY <1>4, <1>5, <1>6, <1>7, <1>8 DEF TreeSteps

LEMMA InodeGrown ==
  ASSUME Shaped, TypeOK', NEW f \in Linked, ~IsDir(f), NEW ino \in InodeBlock,
         NEW new \in SUBSET (Blocks \ Used), Grown(f, ino, new),
         \A x \in new : disk[x] = Data(f),
         NEW h, h = Put(f, ino), disk' = [disk EXCEPT ![h.at] = h.what]
  PROVE  TreeSteps /\ Used' \subseteq Used \cup new
<1>1. TypeOK /\ f \in Blocks /\ WellFormed(f) /\ f \in Used /\ f \in Held(f) /\ Held(f) \subseteq Used
  BY LinkedShape, UsedParts
<1>2. disk' = [disk EXCEPT ![f] = ino]
  BY DEF Put
<1>3. disk'[f] = ino /\ \A x \in Blocks \ {f} : disk'[x] = disk[x]
  BY <1>1, <1>2 DEF TypeOK
<1>4. \A x \in (Held(f) \ {f}) \cup new : disk'[x] = Data(f)
  <2>1. \A x \in Held(f) \ {f} : disk[x] = Data(f)
    <3>1. Held(f) = {f} \cup {PtrAt(f, k) : k \in Indices(f)} /\ Indices(f) \subseteq PtrIndex
      BY <1>1, HeldParts, InodeFields DEF WellFormed
    <3>2. \A k \in Indices(f) : disk[PtrAt(f, k)] = Data(f)
      BY <1>1, <3>1, InodeFields DEF WellFormed, RightKind, Indices
    <3> QED BY <3>1, <3>2
  <2>2. Held(f) \subseteq Blocks
    BY <1>1, UsedParts
  <2> QED BY <1>1, <1>3, <2>1, <2>2
<1>5. new \cap Held(f) = {} /\ new \in SUBSET Blocks
  BY <1>1
<1>6. /\ WellFormed(f)' /\ ~IsDir(f)' /\ Held(f)' = Held(f) \cup new
      /\ read_inode(f)'.size >= read_inode(f).size
  BY <1>1, <1>3, <1>4, <1>5, GrownFile
<1>7. \A x \in Used \ {f} : disk'[x] = disk[x]
  BY <1>3, UsedParts
<1>8. new \cap Used = {}
  OBVIOUS
<1>9. TreeSteps /\ Used' \subseteq (Used \ Held(f)) \cup Held(f)'
  BY <1>6, <1>7, <1>8, FileWritten
<1> QED BY <1>1, <1>6, <1>9

LEMMA InodeEmptied ==
  ASSUME Shaped, TypeOK', NEW f \in Linked, ~IsDir(f),
         NEW h, h = Put(f, Emptied(read_inode(f))), disk' = [disk EXCEPT ![h.at] = h.what]
  PROVE  TreeSteps /\ Used' \subseteq Used \ BlocksOf(read_inode(f))
<1>1. TypeOK /\ f \in Blocks /\ WellFormed(f) /\ f \in Used /\ f \in Held(f) /\ Held(f) \subseteq Used
  BY LinkedShape, UsedParts
<1>2. PICK e : e = Emptied(read_inode(f)) /\ disk' = [disk EXCEPT ![f] = e]
  BY DEF Put
<1>3. disk'[f] = e /\ \A x \in Blocks \ {f} : disk'[x] = disk[x]
  BY <1>1, <1>2 DEF TypeOK
<1>4. read_inode(f) = disk[f] /\ disk[f] \in InodeBlock /\ disk[f].type = "file"
  BY <1>1, ReadInodeType DEF TypeOK, WellFormed, read_inode, IsDir
<1>5. e.kind = "inode" /\ e.type = "file" /\ e.size = 0 /\ e.ptrs = NullPtrs
  BY <1>2, <1>4 DEF Emptied, InodeBlock
<1>6. WellFormed(f)' /\ Held(f)' = {f} /\ ~IsDir(f)'
  BY <1>1, <1>3, <1>5, NewFile
<1>7. read_inode(f)'.size = 0
  BY <1>3, <1>5 DEF read_inode
<1>8. \A x \in Used \ {f} : disk'[x] = disk[x]
  BY <1>3, UsedParts
<1>9. TreeSteps /\ Used' \subseteq (Used \ Held(f)) \cup Held(f)'
  <2>1. {} \cap Used = {} /\ Held(f)' \subseteq Held(f) \cup {}
    BY <1>1, <1>6
  <2> QED BY <1>6, <1>7, <1>8, <2>1, FileWritten
<1>10. f \notin BlocksOf(read_inode(f)) /\ BlocksOf(read_inode(f)) \subseteq Held(f)
  BY <1>1, HeldParts DEF WellFormed, OwnBlocks, Held, BlocksOf, Indices, PtrAt, BlockCount
<1> QED BY <1>1, <1>6, <1>9, <1>10

-----------------------------------------------------------------------------
(* Steps that leave the blocks of the tree as they are.                    *)

LEMMA PutEntryParts ==
  ASSUME TypeOK, NEW d, NEW p, BlockAt(d, p) \in Blocks, NEW e
  PROVE  PutEntry(d, p, e) =
           [do |-> "put", at |-> BlockAt(d, p), undo |-> {},
            what |-> Entries([ReadEntries(disk[BlockAt(d, p)]) EXCEPT ![p[2]] = e])]
<1>1. PICK x \in Blocks : x = BlockAt(d, p)
  OBVIOUS
<1>2. SetEntry(disk, x, p[2], e)[x] = Entries([ReadEntries(disk[x]) EXCEPT ![p[2]] = e])
  BY <1>1 DEF SetEntry, TypeOK
<1> QED BY <1>1, <1>2 DEF PutEntry, Put

LEMMA PutEntryPartsNext ==
  TypeOK' => \A d, p, e : BlockAt(d, p)' \in Blocks =>
    PutEntry(d, p, e)' =
      [do |-> "put", at |-> BlockAt(d, p)', undo |-> {},
       what |-> Entries([ReadEntries(disk'[BlockAt(d, p)']) EXCEPT ![p[2]] = e])]
<1>1. TypeOK => \A d, p, e : BlockAt(d, p) \in Blocks =>
        PutEntry(d, p, e) =
          [do |-> "put", at |-> BlockAt(d, p), undo |-> {},
           what |-> Entries([ReadEntries(disk[BlockAt(d, p)]) EXCEPT ![p[2]] = e])]
  BY PutEntryParts
<1>2. (TypeOK => \A d, p, e : BlockAt(d, p) \in Blocks =>
        PutEntry(d, p, e) =
          [do |-> "put", at |-> BlockAt(d, p), undo |-> {},
           what |-> Entries([ReadEntries(disk[BlockAt(d, p)]) EXCEPT ![p[2]] = e])])'
  BY <1>1, PTL
<1> QED BY <1>2

LEMMA NodeStays ==
  ASSUME Shaped, NEW i \in Linked, \A x \in Used : disk'[x] = disk[x]
  PROVE  /\ read_inode(i)' = read_inode(i) /\ IsDir(i)' = IsDir(i) /\ BlockCount(i)' = BlockCount(i)
         /\ BlocksOf(read_inode(i))' = BlocksOf(read_inode(i))
<1>1. i \in Used
  BY UsedParts
<1>2. disk'[i] = disk[i]
  BY <1>1
<1> QED BY <1>2, SameInode

LEMMA DirectoryStays ==
  ASSUME Shaped, TypeOK', NEW d \in Linked, IsDir(d), \A x \in Used : disk'[x] = disk[x]
  PROVE  /\ FreeSlots(d)' = FreeSlots(d)
         /\ \A n : HasName(d, n)' = HasName(d, n)
         /\ \A p \in Positions(d) : \A e : PutEntry(d, p, e)' = PutEntry(d, p, e)
<1>1. TypeOK /\ d \in Blocks /\ WellFormed(d) /\ d \in Held(d) /\ Held(d) \subseteq Used
  BY LinkedShape, UsedParts
<1>2. SameNode(d)
  BY <1>1, SameHeld
<1>3. /\ ValidAt(d)' = ValidAt(d) /\ Positions(d)' = Positions(d)
      /\ \A p \in ValidAt(d) : EntryAt(d, p)' = EntryAt(d, p)
  BY <1>2, SameNodeParts
<1>4. ASSUME NEW p \in Positions(d), NEW e PROVE PutEntry(d, p, e)' = PutEntry(d, p, e)
  <2>1. PICK x : x = BlockAt(d, p) /\ x \in Used /\ x \in Blocks
    BY <1>4, LinkedDirectory
  <2>2. BlockAt(d, p)' = x
    BY <1>1, <2>1, SameInode
  <2>3. disk'[x] = disk[x]
    BY <2>1
  <2>4. PICK c : c = disk[x] /\ c = disk'[x]
    BY <2>3
  <2>5. PutEntry(d, p, e) = [do |-> "put", at |-> x, undo |-> {},
                             what |-> Entries([ReadEntries(c) EXCEPT ![p[2]] = e])]
    BY <1>1, <2>1, <2>4, PutEntryParts
  <2>6. PutEntry(d, p, e)' = [do |-> "put", at |-> x, undo |-> {},
                              what |-> Entries([ReadEntries(c) EXCEPT ![p[2]] = e])]
    BY <2>1, <2>2, <2>4, PutEntryPartsNext
  <2> QED BY <2>5, <2>6
<1> QED BY <1>3, <1>4 DEF FreeSlots, HasName

-----------------------------------------------------------------------------
(* A call takes the next step of its plan.                                 *)

Does(h) ==
  /\ disk' = IF h.do = "put" THEN [disk EXCEPT ![h.at] = h.what] ELSE disk
  /\ bitmap' = IF h.do \in {"set", "clear"} THEN Changed(h, bitmap) ELSE bitmap
  /\ map_blk' = IF h.do = "save" THEN bitmap ELSE map_blk
  /\ mount' = mount /\ (h.do # "put" => mount = "ok")

LEMMA StepParts ==
  ASSUME NEW h \in PlanStep
  PROVE  /\ h.do \in {"set", "clear", "put", "save"}
         /\ h.do \in {"set", "clear"} => h.bits \in SUBSET Blocks
         /\ h.do = "save" => h = Save
         /\ h.do = "put" => h.at \in Blocks /\ h.undo \in SUBSET Blocks
BY DEF PlanStep, Step, Save

LEMMA PlanParts ==
  ASSUME NEW s \in Seq(PlanStep), s # <<>>
  PROVE  /\ Len(s) \in Nat \ {0} /\ DOMAIN s = 1 .. Len(s)
         /\ Head(s) = s[1] /\ \A k \in 1 .. Len(s) : s[k] \in PlanStep
         /\ Tail(s) \in Seq(PlanStep) /\ Len(Tail(s)) = Len(s) - 1
         /\ DOMAIN Tail(s) = 1 .. Len(s) - 1
         /\ \A k \in 1 .. Len(s) - 1 : Tail(s)[k] = s[k + 1]
         /\ \A k \in 2 .. Len(s) : Tail(s)[k - 1] = s[k]
OBVIOUS

\* A step that keeps the tree, and what it leaves as it was.
LEMMA KeepingStep ==
  ASSUME Shaped, NEW h \in PlanStep, KeepsTree(h), Does(h)
  PROVE  /\ \A x \in Used : disk'[x] = disk[x]
         /\ TreeSteps /\ Linked' = Linked /\ Used' = Used
         /\ h.do # "clear" => bitmap \subseteq bitmap'
         /\ Used \subseteq bitmap => Used' \subseteq bitmap'
<1>1. disk \in [Blocks -> Content] /\ Used \subseteq Blocks
  BY UsedParts DEF Shaped, TypeOK
<1>2. \A x \in Used : disk'[x] = disk[x]
  <2>1. CASE h.do = "put"
    <3>1. h.at \notin Used \/ h.what = disk[h.at]
      BY <2>1 DEF KeepsTree
    <3>2. disk' = [disk EXCEPT ![h.at] = h.what]
      BY <2>1 DEF Does
    <3> QED BY <1>1, <3>1, <3>2
  <2>2. CASE h.do # "put"
    BY <2>2 DEF Does
  <2> QED BY <2>1, <2>2
<1>3. TreeSteps /\ Linked' = Linked /\ Used' = Used
  BY <1>2, TreeStays
<1>4. h.do # "clear" => bitmap \subseteq bitmap'
  BY StepParts DEF Does, Changed
<1>5. Used \subseteq bitmap => Used \subseteq bitmap'
  BY <1>4, StepParts DEF Does, Changed, KeepsTree
<1> QED BY <1>2, <1>3, <1>4, <1>5

LEMMA StillKeeps ==
  ASSUME Used' \subseteq Used, \A x \in Used : disk'[x] = disk[x], NEW g, KeepsTree(g)
  PROVE  KeepsTree(g)'
BY DEF KeepsTree

\* What a plan will do before step c, once its first step is done.
LEMMA WillBeNext ==
  ASSUME Shaped, NEW s \in Seq(PlanStep), s # <<>>, NEW h, h = s[1], Does(h), NEW r, r = Tail(s),
         NEW c \in 2 .. Len(s), NEW x \in Blocks, NEW v, WillBe(s, c, x, v)
  PROVE  WillBe(r, c - 1, x, v)'
<1>1. \A k \in 1 .. Len(s) - 1 : r[k] = s[k + 1]
  BY PlanParts
<1>2. Len(s) \in Nat /\ c - 1 \in Nat /\ 1 \in 1 .. c - 1
  BY PlanParts
<1>3. \A k \in 1 .. c - 1 - 1 : r[k].do = "put" /\ r[k].at = x => r[k].what = v
  <2> SUFFICES ASSUME NEW k \in 1 .. c - 1 - 1, r[k].do = "put", r[k].at = x PROVE r[k].what = v
    OBVIOUS
  <2>1. k + 1 \in 1 .. c - 1 /\ r[k] = s[k + 1]
    BY <1>1, <1>2
  <2> QED BY <2>1 DEF WillBe
<1>4. disk'[x] = v \/ \E k \in 1 .. c - 1 - 1 : r[k].do = "put" /\ r[k].at = x
  <2>1. CASE h.do = "put" /\ h.at = x
    <3>1. h.what = v
      BY <1>2, <2>1 DEF WillBe
    <3>2. disk' = [disk EXCEPT ![x] = v] /\ disk \in [Blocks -> Content]
      BY <2>1, <3>1 DEF Does, Shaped, TypeOK
    <3> QED BY <3>2
  <2>2. CASE ~(h.do = "put" /\ h.at = x)
    <3>1. disk'[x] = disk[x]
      BY <2>2 DEF Does, Shaped, TypeOK
    <3>2. ASSUME NEW k \in 1 .. c - 1, s[k].do = "put", s[k].at = x
          PROVE  \E j \in 1 .. c - 1 - 1 : r[j].do = "put" /\ r[j].at = x
      <4>1. k # 1
        BY <2>2, <3>2
      <4>2. k - 1 \in 1 .. c - 1 - 1 /\ k - 1 + 1 = k
        BY <1>2, <4>1
      <4>3. r[k - 1] = s[k]
        BY <1>1, <1>2, <4>2
      <4> QED BY <3>2, <4>2, <4>3
    <3> QED BY <3>1, <3>2 DEF WillBe
  <2> QED BY <2>1, <2>2
<1> QED BY <1>3, <1>4 DEF WillBe

LEMMA WillBeSetNext ==
  ASSUME NEW s \in Seq(PlanStep), s # <<>>, NEW h, h = s[1], Does(h), h.do # "clear", NEW r, r = Tail(s),
         NEW c \in 2 .. Len(s), NEW N, WillBeSet(s, c, N)
  PROVE  WillBeSet(r, c - 1, N)'
<1>1. \A k \in 1 .. Len(s) - 1 : r[k] = s[k + 1]
  BY PlanParts
<1>2. Len(s) \in Nat /\ h \in PlanStep
  BY PlanParts
<1>3. bitmap \subseteq bitmap' /\ mount' = mount
  BY <1>2, StepParts DEF Does, Changed
<1>4. ASSUME NEW k \in 1 .. c - 1, s[k] = SetBits(N)
      PROVE  \/ N \subseteq bitmap' /\ mount' = "ok"
             \/ \E j \in 1 .. c - 1 - 1 : r[j] = SetBits(N)
  <2>1. CASE k = 1
    BY <1>4, <2>1 DEF Does, Changed, SetBits
  <2>2. CASE k # 1
    <3>1. k - 1 \in 1 .. c - 1 - 1 /\ r[k - 1] = s[k]
      BY <1>1, <1>2, <2>2
    <3> QED BY <1>4, <3>1
  <2> QED BY <2>1, <2>2
<1> QED BY <1>3, <1>4 DEF WillBeSet

LEMMA WillBeSavedNext ==
  ASSUME NEW s \in Seq(PlanStep), s # <<>>, NEW h, h = s[1], Does(h), h.do # "clear", NEW r, r = Tail(s),
         NEW c \in 2 .. Len(s), NEW N, WillBeSaved(s, c, N)
  PROVE  WillBeSaved(r, c - 1, N)'
<1>1. \A k \in 1 .. Len(s) - 1 : r[k] = s[k + 1]
  BY PlanParts
<1>2. Len(s) \in Nat /\ h \in PlanStep
  BY PlanParts
<1>3. bitmap \subseteq bitmap'
  BY <1>2, StepParts DEF Does, Changed
<1>4. ASSUME N \subseteq bitmap, N \subseteq map_blk PROVE N \subseteq bitmap' /\ N \subseteq map_blk'
  BY <1>3, <1>4 DEF Does
<1>5. ASSUME NEW k \in 1 .. c - 1, s[k] = Save,
             N \subseteq bitmap \/ \E j \in 1 .. k - 1 : s[j] = SetBits(N)
      PROVE  WillBeSaved(r, c - 1, N)'
  <2>1. CASE k = 1
    <3>1. N \subseteq bitmap
      BY <1>5, <2>1
    <3>2. map_blk' = bitmap
      BY <1>5, <2>1 DEF Does, Save
    <3> QED BY <1>3, <3>1, <3>2 DEF WillBeSaved
  <2>2. CASE k # 1
    <3>1. k - 1 \in 1 .. c - 1 - 1 /\ r[k - 1] = s[k]
      BY <1>1, <1>2, <2>2
    <3>2. ASSUME NEW j \in 1 .. k - 1, s[j] = SetBits(N)
          PROVE  N \subseteq bitmap' \/ \E i \in 1 .. k - 1 - 1 : r[i] = SetBits(N)
      <4>1. CASE j = 1
        BY <3>2, <4>1 DEF Does, Changed, SetBits
      <4>2. CASE j # 1
        <5>1. j - 1 \in 1 .. k - 1 - 1 /\ r[j - 1] = s[j]
          BY <1>1, <1>2, <4>2
        <5> QED BY <3>2, <5>1
      <4> QED BY <4>1, <4>2
    <3>3. N \subseteq bitmap' \/ \E i \in 1 .. k - 1 - 1 : r[i] = SetBits(N)
      BY <1>3, <1>5, <3>2
    <3> QED BY <1>5, <3>1, <3>3 DEF WillBeSaved
  <2> QED BY <2>1, <2>2
<1> QED BY <1>4, <1>5 DEF WillBeSaved

LEMMA AddsNext ==
  ASSUME Shaped, TypeOK', NEW s \in Seq(PlanStep), s # <<>>, NEW h, h = s[1], Does(h), KeepsTree(h),
         h.do # "clear", NEW r, r = Tail(s), NEW c \in 2 .. Len(s), Adds(s, c)
  PROVE  Adds(r, c - 1)'
<1>1. Len(s) = c /\ Len(r) = c - 1 /\ r[c - 1] = s[c] /\ h \in PlanStep
  BY PlanParts DEF Adds
<1>2. PICK d \in Linked, n \in Names : \E p \in FreeSlots(d) : \E i, b \in Blocks \ Used :
        /\ IsDir(d) /\ ~HasName(d, n) /\ s[c] = PutEntry(d, p, NewEntry(i, n))
        /\ IsNew(s, c, i, b) /\ WillBeSaved(s, c, {i, b})
  BY DEF Adds
<1>3. PICK p \in FreeSlots(d) : \E i, b \in Blocks \ Used :
        /\ IsDir(d) /\ ~HasName(d, n) /\ s[c] = PutEntry(d, p, NewEntry(i, n))
        /\ IsNew(s, c, i, b) /\ WillBeSaved(s, c, {i, b})
  BY <1>2
<1>4. PICK i \in Blocks \ Used, b \in Blocks \ Used :
        /\ IsDir(d) /\ ~HasName(d, n) /\ s[c] = PutEntry(d, p, NewEntry(i, n))
        /\ IsNew(s, c, i, b) /\ WillBeSaved(s, c, {i, b})
  BY <1>3
<1>5. (\A x \in Used : disk'[x] = disk[x]) /\ Linked' = Linked /\ Used' = Used
  BY <1>1, KeepingStep
<1>6. IsDir(d)' /\ p \in FreeSlots(d)' /\ ~HasName(d, n)'
  BY <1>4, <1>5, NodeStays, DirectoryStays
<1>7. PICK e : e = NewEntry(i, n)
  OBVIOUS
<1>8. r[c - 1] = PutEntry(d, p, e)'
  <2>1. p \in Positions(d)
    BY DEF FreeSlots
  <2>2. PutEntry(d, p, e)' = PutEntry(d, p, e)
    BY <1>4, <1>5, <2>1, DirectoryStays
  <2> QED BY <1>1, <1>4, <1>7, <2>2
<1>9. r[c - 1] = PutEntry(d, p, NewEntry(i, n))'
  BY <1>7, <1>8 DEF NewEntry, PutEntry
<1>10. WillBeSaved(r, c - 1, {i, b})'
  BY <1>1, <1>4, WillBeSavedNext
<1>11. IsNew(r, c - 1, i, b)'
  BY <1>4, WillBeNext DEF IsNew
<1>12. d \in Linked' /\ i \in Blocks \ Used' /\ b \in Blocks \ Used'
  BY <1>5
<1> QED BY <1>1, <1>6, <1>9, <1>10, <1>11, <1>12 DEF Adds

LEMMA GrowsNext ==
  ASSUME Shaped, TypeOK', NEW s \in Seq(PlanStep), s # <<>>, NEW h, h = s[1], Does(h), KeepsTree(h),
         h.do # "clear", NEW r, r = Tail(s), NEW c \in 2 .. Len(s), NEW name, Grows(s, c, name)
  PROVE  Grows(r, c - 1, name)'
<1>1. /\ Len(s) \in Nat /\ Len(r) = Len(s) - 1 /\ h \in PlanStep /\ r[c - 1] = s[c]
      /\ Len(s) = c + 1 => r[c - 1 + 1] = s[c + 1]
  <2>1. /\ Len(s) \in Nat /\ Len(r) = Len(s) - 1 /\ h \in PlanStep
        /\ \A k \in 1 .. Len(s) - 1 : r[k] = s[k + 1]
    BY PlanParts
  <2>2. PICK b : b = c - 1
    OBVIOUS
  <2>3. b \in 1 .. Len(s) - 1 /\ b + 1 = c
    BY <2>1, <2>2
  <2>4. r[b] = s[c]
    BY <2>1, <2>3
  <2>5. Len(s) = c + 1 => r[c - 1 + 1] = s[c + 1]
    <3> SUFFICES ASSUME Len(s) = c + 1 PROVE r[c - 1 + 1] = s[c + 1]
      OBVIOUS
    <3>1. c \in 1 .. Len(s) - 1 /\ c - 1 + 1 = c
      BY <2>1
    <3> QED BY <2>1, <3>1
  <2> QED BY <2>1, <2>2, <2>4, <2>5
<1>2. PICK f \in Linked : \E ino \in InodeBlock : \E new \in SUBSET (Blocks \ Used) :
        /\ ~IsDir(f) /\ s[c] = Put(f, ino) /\ Grown(f, ino, new)
        /\ \A x \in new : WillBe(s, c, x, Data(f))
        /\ IF new = {} THEN Len(s) = c
           ELSE Len(s) = c + 1 /\ s[c + 1] = Save /\ WillBeSet(s, c, new)
  BY DEF Grows
<1>3. PICK ino \in InodeBlock : \E new \in SUBSET (Blocks \ Used) :
        /\ ~IsDir(f) /\ s[c] = Put(f, ino) /\ Grown(f, ino, new)
        /\ \A x \in new : WillBe(s, c, x, Data(f))
        /\ IF new = {} THEN Len(s) = c
           ELSE Len(s) = c + 1 /\ s[c + 1] = Save /\ WillBeSet(s, c, new)
  BY <1>2
<1>4. PICK new \in SUBSET (Blocks \ Used) :
        /\ ~IsDir(f) /\ s[c] = Put(f, ino) /\ Grown(f, ino, new)
        /\ \A x \in new : WillBe(s, c, x, Data(f))
        /\ IF new = {} THEN Len(s) = c
           ELSE Len(s) = c + 1 /\ s[c + 1] = Save /\ WillBeSet(s, c, new)
  BY <1>3
<1>5. (\A x \in Used : disk'[x] = disk[x]) /\ Linked' = Linked /\ Used' = Used
  BY <1>1, KeepingStep
<1>6. read_inode(f)' = read_inode(f) /\ ~IsDir(f)' /\ BlockCount(f)' = BlockCount(f)
  BY <1>4, <1>5, NodeStays
<1>7. Grown(f, ino, new)'
  <2>1. \A k : PtrAt(f, k)' = PtrAt(f, k)
    BY <1>6 DEF PtrAt
  <2> QED BY <1>4, <1>6, <2>1 DEF Grown
<1>8. \A x \in new : WillBe(r, c - 1, x, Data(f))'
  BY <1>4, WillBeNext
<1>9. r[c - 1] = Put(f, ino)
  BY <1>1, <1>4
<1>10. IF new = {} THEN Len(r) = c - 1
       ELSE Len(r) = c - 1 + 1 /\ r[c - 1 + 1] = Save /\ WillBeSet(r, c - 1, new)'
  <2>1. CASE new = {}
    BY <1>1, <1>4, <2>1
  <2>2. CASE new # {}
    <3>1. Len(s) = c + 1 /\ s[c + 1] = Save /\ WillBeSet(s, c, new)
      BY <1>4, <2>2
    <3>2. WillBeSet(r, c - 1, new)'
      BY <3>1, WillBeSetNext
    <3>3. Len(r) = c - 1 + 1 /\ r[c - 1 + 1] = Save
      BY <1>1, <3>1
    <3> QED BY <2>2, <3>2, <3>3
  <2> QED BY <2>1, <2>2
<1>11. f \in Linked' /\ new \in SUBSET (Blocks \ Used')
  BY <1>5
<1>12. name = "write"
  BY DEF Grows
<1> QED BY <1>6, <1>7, <1>8, <1>9, <1>10, <1>11, <1>12 DEF Grows

\* The plan of a call whose first step keeps the tree, once it has taken it.
LEMMA QuietNext ==
  ASSUME Shaped, NEW s \in Seq(PlanStep), s # <<>>, NEW h, h = s[1], Does(h), NEW r, r = Tail(s), Quiet(s)
  PROVE  Quiet(r)'
<1>1. h \in PlanStep /\ KeepsTree(h) /\ \A k \in DOMAIN r : KeepsTree(r[k])
  BY PlanParts DEF Quiet
<1>2. (\A x \in Used : disk'[x] = disk[x]) /\ Used' = Used
  BY <1>1, KeepingStep
<1>3. ASSUME NEW k \in DOMAIN r PROVE KeepsTree(r[k])'
  BY <1>1, <1>2, <1>3, StillKeeps
<1> QED BY <1>3 DEF Quiet

LEMMA PendingNext ==
  ASSUME Shaped, TypeOK', NEW s \in Seq(PlanStep), s # <<>>, NEW h, h = s[1], Does(h), NEW r, r = Tail(s),
         NEW name, NEW c \in 2 .. Len(s),
         \A k \in 1 .. c - 1 : KeepsTree(s[k]) /\ s[k].do # "clear",
         Adds(s, c) \/ Removes(s, c) \/ Renames(s, c) \/ Grows(s, c, name)
  PROVE  KeepsTree(h) /\ h.do # "clear" /\ Pending(r, name)'
<1>1. /\ Len(s) \in Nat /\ DOMAIN r = 1 .. Len(s) - 1 /\ h \in PlanStep
      /\ \A k \in 1 .. Len(s) - 1 : r[k] = s[k + 1]
  BY PlanParts
<1>2. KeepsTree(h) /\ h.do # "clear"
  OBVIOUS
<1>3. (\A x \in Used : disk'[x] = disk[x]) /\ Used' = Used
  BY <1>1, <1>2, KeepingStep
<1>4. Adds(r, c - 1)' \/ Grows(r, c - 1, name)'
  <2>1. Adds(s, c) \/ Grows(s, c, name)
    BY <1>1 DEF Removes, Renames
  <2>2. Adds(s, c) => Adds(r, c - 1)'
    BY <1>2, AddsNext
  <2>3. Grows(s, c, name) => Grows(r, c - 1, name)'
    BY <1>2, GrowsNext
  <2> QED BY <2>1, <2>2, <2>3
<1>5. ASSUME NEW k \in 1 .. c - 1 - 1 PROVE KeepsTree(r[k])' /\ r[k].do # "clear"
  <2>1. k + 1 \in 1 .. c - 1 /\ r[k] = s[k + 1]
    BY <1>1
  <2>2. KeepsTree(r[k]) /\ r[k].do # "clear"
    BY <2>1
  <2> QED BY <1>3, <2>2, StillKeeps
<1>6. c - 1 \in DOMAIN r
  BY <1>1
<1> QED BY <1>2, <1>4, <1>5, <1>6 DEF Pending

-----------------------------------------------------------------------------
(* The step that changes the tree.                                         *)

LEMMA NothingBefore ==
  ASSUME NEW s
  PROVE  /\ \A x, v : WillBe(s, 1, x, v) => disk[x] = v
         /\ \A N : WillBeSaved(s, 1, N) => N \subseteq bitmap /\ N \subseteq map_blk
         /\ \A N : WillBeSet(s, 1, N) => N \subseteq bitmap /\ mount = "ok"
<1>1. 1 .. 1 - 1 = {}
  OBVIOUS
<1> QED BY <1>1 DEF WillBe, WillBeSaved, WillBeSet

\* What it leaves: the blocks of the tree are marked in memory and on disk, or the
\* only step that is left is to save their bits.
Committed(r, name) ==
  \/ Used' \subseteq bitmap /\ Used' \subseteq map_blk /\ Quiet(r)'
  \/ Used' \subseteq bitmap /\ r = <<Save>> /\ name = "write" /\ mount = "ok"

LEMMA AddCommits ==
  ASSUME Shaped, Used \subseteq bitmap, Used \subseteq map_blk, NEW s \in Seq(PlanStep), s # <<>>,
         NEW h, h = s[1], disk' = [disk EXCEPT ![h.at] = h.what], NEW name, Adds(s, 1)
  PROVE  h.do = "put" /\ h.undo = {} /\ TreeSteps /\ Committed(Tail(s), name)
<1>1. PICK d \in Linked, n \in Names : \E p \in FreeSlots(d) : \E i, b \in Blocks \ Used :
        /\ IsDir(d) /\ ~HasName(d, n) /\ h = PutEntry(d, p, NewEntry(i, n))
        /\ IsNew(s, 1, i, b) /\ WillBeSaved(s, 1, {i, b})
  BY DEF Adds
<1>2. PICK p \in FreeSlots(d) : \E i, b \in Blocks \ Used :
        /\ IsDir(d) /\ ~HasName(d, n) /\ h = PutEntry(d, p, NewEntry(i, n))
        /\ IsNew(s, 1, i, b) /\ WillBeSaved(s, 1, {i, b})
  BY <1>1
<1>3. PICK i \in Blocks \ Used, b \in Blocks \ Used :
        /\ IsDir(d) /\ ~HasName(d, n) /\ h = PutEntry(d, p, NewEntry(i, n))
        /\ IsNew(s, 1, i, b) /\ WillBeSaved(s, 1, {i, b})
  BY <1>2
<1>4. Made(i, b) /\ {i, b} \subseteq bitmap /\ {i, b} \subseteq map_blk
  BY <1>3, NothingBefore DEF Made, IsNew
<1>5. TreeSteps /\ Used' = Used \cup {i, b}
  BY <1>3, <1>4, EntryAdded
<1>6. h.do = "put" /\ h.undo = {}
  BY <1>3 DEF PutEntry, Put
<1>7. DOMAIN Tail(s) = {}
  BY PlanParts DEF Adds
<1> QED BY <1>4, <1>5, <1>6, <1>7 DEF Committed, Quiet

LEMMA RemoveCommits ==
  ASSUME Shaped, TypeOK', Used \subseteq bitmap, Used \subseteq map_blk, NEW s \in Seq(PlanStep), s # <<>>,
         NEW h, h = s[1], disk' = [disk EXCEPT ![h.at] = h.what], NEW name, Removes(s, 1)
  PROVE  h.do = "put" /\ h.undo = {} /\ TreeSteps /\ Committed(Tail(s), name)
<1>1. PICK d \in Linked : \E p \in ValidAt(d) : \E x \in Linked : \E R \in SUBSET Held(x) :
        /\ x = EntryAt(d, p).inode /\ IsDir(d) /\ (IsDir(x) => SeenEmpty(x))
        /\ s = <<PutEntry(d, p, NoEntry), ClearBits(R), Save>>
  BY DEF Removes
<1>2. PICK p \in ValidAt(d), x \in Linked : \E R \in SUBSET Held(x) :
        /\ x = EntryAt(d, p).inode /\ IsDir(d) /\ (IsDir(x) => SeenEmpty(x))
        /\ s = <<PutEntry(d, p, NoEntry), ClearBits(R), Save>>
  BY <1>1
<1>3. PICK R \in SUBSET Held(x) :
        /\ x = EntryAt(d, p).inode /\ IsDir(d) /\ (IsDir(x) => SeenEmpty(x))
        /\ s = <<PutEntry(d, p, NoEntry), ClearBits(R), Save>>
  BY <1>2
<1>4. h = PutEntry(d, p, NoEntry)
  BY <1>3
<1>5. TreeSteps /\ Used' \subseteq Used \ Held(x)
  BY <1>3, <1>4, EntryRemoved
<1>6. h.do = "put" /\ h.undo = {}
  BY <1>4 DEF PutEntry, Put
<1>7. Tail(s) = <<ClearBits(R), Save>>
  BY <1>3
<1>8. Quiet(<<ClearBits(R), Save>>)'
  <2>1. KeepsTree(ClearBits(R))'
    BY <1>5 DEF KeepsTree, ClearBits
  <2>2. KeepsTree(Save)'
    BY DEF KeepsTree, Save
  <2>3. DOMAIN <<ClearBits(R), Save>> = {1, 2}
    OBVIOUS
  <2> QED BY <2>1, <2>2, <2>3 DEF Quiet
<1> QED BY <1>5, <1>6, <1>7, <1>8 DEF Committed

LEMMA RenameCommits ==
  ASSUME Shaped, Used \subseteq bitmap, Used \subseteq map_blk, NEW s \in Seq(PlanStep), s # <<>>,
         NEW h, h = s[1], disk' = [disk EXCEPT ![h.at] = h.what], NEW name, Renames(s, 1)
  PROVE  h.do = "put" /\ h.undo = {} /\ TreeSteps /\ Committed(Tail(s), name)
<1>1. PICK d \in Linked, n \in Names : \E p \in ValidAt(d) :
        /\ IsDir(d) /\ (BlockCount(d) = 1 => n = EntryAt(d, p).name \/ ~HasName(d, n))
        /\ s = <<PutEntry(d, p, NewEntry(EntryAt(d, p).inode, n))>>
  BY DEF Renames
<1>2. PICK p \in ValidAt(d) :
        /\ IsDir(d) /\ (BlockCount(d) = 1 => n = EntryAt(d, p).name \/ ~HasName(d, n))
        /\ s = <<PutEntry(d, p, NewEntry(EntryAt(d, p).inode, n))>>
  BY <1>1
<1>3. h = PutEntry(d, p, NewEntry(EntryAt(d, p).inode, n))
  BY <1>2
<1>4. TreeSteps /\ Used' = Used
  BY <1>2, <1>3, EntryRenamed
<1>5. h.do = "put" /\ h.undo = {}
  BY <1>3 DEF PutEntry, Put
<1>6. DOMAIN Tail(s) = {}
  BY <1>2, PlanParts
<1> QED BY <1>4, <1>5, <1>6 DEF Committed, Quiet

LEMMA GrowCommits ==
  ASSUME Shaped, TypeOK', Used \subseteq bitmap, Used \subseteq map_blk, NEW s \in Seq(PlanStep), s # <<>>,
         NEW h, h = s[1], disk' = [disk EXCEPT ![h.at] = h.what], NEW name, Grows(s, 1, name)
  PROVE  h.do = "put" /\ h.undo = {} /\ TreeSteps /\ Committed(Tail(s), name)
<1>1. PICK f \in Linked : \E ino \in InodeBlock : \E new \in SUBSET (Blocks \ Used) :
        /\ ~IsDir(f) /\ h = Put(f, ino) /\ Grown(f, ino, new)
        /\ \A x \in new : WillBe(s, 1, x, Data(f))
        /\ IF new = {} THEN Len(s) = 1 ELSE Len(s) = 2 /\ s[2] = Save /\ WillBeSet(s, 1, new)
  BY DEF Grows
<1>2. PICK ino \in InodeBlock : \E new \in SUBSET (Blocks \ Used) :
        /\ ~IsDir(f) /\ h = Put(f, ino) /\ Grown(f, ino, new)
        /\ \A x \in new : WillBe(s, 1, x, Data(f))
        /\ IF new = {} THEN Len(s) = 1 ELSE Len(s) = 2 /\ s[2] = Save /\ WillBeSet(s, 1, new)
  BY <1>1
<1>3. PICK new \in SUBSET (Blocks \ Used) :
        /\ ~IsDir(f) /\ h = Put(f, ino) /\ Grown(f, ino, new)
        /\ \A x \in new : WillBe(s, 1, x, Data(f))
        /\ IF new = {} THEN Len(s) = 1 ELSE Len(s) = 2 /\ s[2] = Save /\ WillBeSet(s, 1, new)
  BY <1>2
<1>4. \A x \in new : disk[x] = Data(f)
  BY <1>3, NothingBefore
<1>5. TreeSteps /\ Used' \subseteq Used \cup new
  BY <1>3, <1>4, InodeGrown
<1>6. h.do = "put" /\ h.undo = {}
  BY <1>3 DEF Put
<1>7. Committed(Tail(s), name)
  <2>1. CASE new = {}
    <3>1. DOMAIN Tail(s) = {}
      BY <1>3, <2>1, PlanParts
    <3> QED BY <1>5, <2>1, <3>1 DEF Committed, Quiet
  <2>2. CASE new # {}
    <3>1. Len(s) = 2 /\ s[2] = Save /\ new \subseteq bitmap /\ mount = "ok"
      BY <1>3, <2>2, NothingBefore
    <3>2. Tail(s) \in Seq(PlanStep) /\ Len(Tail(s)) = 1 /\ Tail(s)[1] = Save
      BY <3>1, PlanParts
    <3>3. <<Save>> \in Seq(PlanStep) /\ Len(<<Save>>) = 1 /\ <<Save>>[1] = Save
      BY BitSteps
    <3>4. Tail(s) = <<Save>>
      <4>1. \A a, b \in Seq(PlanStep) : Len(a) = 1 /\ Len(b) = 1 /\ a[1] = b[1] => a = b
        <5> TAKE a, b \in Seq(PlanStep)
        <5> HAVE Len(a) = 1 /\ Len(b) = 1 /\ a[1] = b[1]
        <5>1. \A i \in 1 .. Len(a) : a[i] = b[i]
          OBVIOUS
        <5> QED BY <5>1, SeqEqual
      <4> QED BY <3>2, <3>3, <4>1
    <3> QED BY <1>5, <3>1, <3>4 DEF Committed, Grows
  <2> QED BY <2>1, <2>2
<1> QED BY <1>5, <1>6, <1>7

LEMMA Commits ==
  ASSUME Shaped, TypeOK', Used \subseteq bitmap, Used \subseteq map_blk, NEW s \in Seq(PlanStep), s # <<>>,
         NEW h, h = s[1], disk' = [disk EXCEPT ![h.at] = h.what], NEW name,
         Adds(s, 1) \/ Removes(s, 1) \/ Renames(s, 1) \/ Grows(s, 1, name)
  PROVE  h.do = "put" /\ h.undo = {} /\ TreeSteps /\ Committed(Tail(s), name)
<1>1. CASE Adds(s, 1)
  BY <1>1, AddCommits
<1>2. CASE Removes(s, 1)
  BY <1>2, RemoveCommits
<1>3. CASE Renames(s, 1)
  BY <1>3, RenameCommits
<1>4. CASE Grows(s, 1, name)
  BY <1>4, GrowCommits
<1> QED BY <1>1, <1>2, <1>3, <1>4

\* A truncated file gives up its blocks, whose bits are clear already.
LEMMA TruncateCommits ==
  ASSUME Shaped, TypeOK', NEW f \in Linked, ~IsDir(f), NEW B, B = BlocksOf(read_inode(f)),
         Used \subseteq bitmap \cup B, Used \subseteq map_blk,
         NEW h, h = Put(f, Emptied(read_inode(f))), disk' = [disk EXCEPT ![h.at] = h.what]
  PROVE  /\ h.do = "put" /\ h.undo = {} /\ TreeSteps
         /\ Used' \subseteq bitmap /\ Used' \subseteq map_blk
<1>1. TreeSteps /\ Used' \subseteq Used \ B
  BY InodeEmptied
<1> QED BY <1>1 DEF Put

\* Where a plan stands: at a step that keeps the tree, or at the one that changes it.
LEMMA WhereItStands ==
  ASSUME NEW s \in Seq(PlanStep), s # <<>>, NEW name, Working(s, name)
  PROVE  \/ Used \subseteq bitmap /\ Quiet(s)
         \/ /\ Used \subseteq bitmap
            /\ \E c \in 2 .. Len(s) :
                 /\ \A k \in 1 .. c - 1 : KeepsTree(s[k]) /\ s[k].do # "clear"
                 /\ Adds(s, c) \/ Removes(s, c) \/ Renames(s, c) \/ Grows(s, c, name)
         \/ /\ Used \subseteq bitmap
            /\ Adds(s, 1) \/ Removes(s, 1) \/ Renames(s, 1) \/ Grows(s, 1, name)
         \/ Truncating(s, name)
<1>1. ASSUME Pending(s, name)
      PROVE  \/ \E c \in 2 .. Len(s) :
                  /\ \A k \in 1 .. c - 1 : KeepsTree(s[k]) /\ s[k].do # "clear"
                  /\ Adds(s, c) \/ Removes(s, c) \/ Renames(s, c) \/ Grows(s, c, name)
             \/ Adds(s, 1) \/ Removes(s, 1) \/ Renames(s, 1) \/ Grows(s, 1, name)
  <2>1. PICK c \in 1 .. Len(s) :
          /\ \A k \in 1 .. c - 1 : KeepsTree(s[k]) /\ s[k].do # "clear"
          /\ Adds(s, c) \/ Removes(s, c) \/ Renames(s, c) \/ Grows(s, c, name)
    BY <1>1, PlanParts DEF Pending
  <2>2. CASE c = 1
    BY <2>1, <2>2
  <2>3. CASE c # 1
    <3>1. c \in 2 .. Len(s)
      BY <2>3, PlanParts
    <3> QED BY <2>1, <3>1
  <2> QED BY <2>2, <2>3
<1> QED BY <1>1 DEF Working

\* The two places of a truncate.
LEMMA TruncatePlaces ==
  ASSUME NEW s, NEW name, Truncating(s, name)
  PROVE  name = "truncate" /\ \E f \in Linked : \E B, e :
           /\ B = BlocksOf(read_inode(f)) /\ e = Put(f, Emptied(read_inode(f))) /\ ~IsDir(f)
           /\ \/ s = <<ClearBits(B), e, Save>> /\ Used \subseteq bitmap
              \/ s = <<e, Save>> /\ Used \subseteq bitmap \cup B
BY DEF Truncating

LEMMA NotLate == ASSUME NEW s, NEW name, s[1].do # "save" PROVE ~Late(s, name)
BY DEF Late, Save

LEMMA LastQuiet == ASSUME NEW s, s = <<>> \/ s = <<Save>> PROVE Quiet(s)
<1>1. KeepsTree(Save)
  BY DEF KeepsTree, Save
<1>2. \A k \in DOMAIN s : s[k] = Save
  OBVIOUS
<1> QED BY <1>1, <1>2 DEF Quiet

LEMMA LastQuietNext == \A s : s = <<>> \/ s = <<Save>> => Quiet(s)'
<1>1. \A s : s = <<>> \/ s = <<Save>> => Quiet(s)
  BY LastQuiet
<1>2. (\A s : s = <<>> \/ s = <<Save>> => Quiet(s))'
  BY <1>1, PTL
<1> QED BY <1>2

LEMMA PutEntryIsPut ==
  ASSUME NEW d, NEW p, NEW e
  PROVE  PutEntry(d, p, e).do = "put" /\ PutEntry(d, p, e).undo = {}
BY DEF PutEntry, Put

LEMMA CommitIsPut ==
  ASSUME NEW s, NEW name, Adds(s, 1) \/ Removes(s, 1) \/ Renames(s, 1) \/ Grows(s, 1, name)
  PROVE  s[1].do = "put" /\ s[1].undo = {}
<1>1. Adds(s, 1) => \E d, p, e : s[1] = PutEntry(d, p, e)
  BY DEF Adds
<1>2. Removes(s, 1) => \E d, p, e : s[1] = PutEntry(d, p, e)
  <2> SUFFICES ASSUME NEW d, NEW p, NEW R, s = <<PutEntry(d, p, NoEntry), ClearBits(R), Save>>
               PROVE  s[1] = PutEntry(d, p, NoEntry)
    BY DEF Removes
  <2> QED OBVIOUS
<1>3. Renames(s, 1) => \E d, p, e : s[1] = PutEntry(d, p, e)
  <2> SUFFICES ASSUME NEW d, NEW p, NEW e, s = <<PutEntry(d, p, e)>> PROVE s[1] = PutEntry(d, p, e)
    BY DEF Renames
  <2> QED OBVIOUS
<1>4. Grows(s, 1, name) => s[1].do = "put" /\ s[1].undo = {}
  BY DEF Grows, Put
<1> QED BY <1>1, <1>2, <1>3, <1>4, PutEntryIsPut

LEMMA DoesPut == ASSUME NEW h, Does(h), h.do = "put"
  PROVE  disk' = [disk EXCEPT ![h.at] = h.what] /\ bitmap' = bitmap /\ map_blk' = map_blk
BY DEF Does

\* A step of the plan is taken.
LEMMA StepSafe ==
  ASSUME Shaped, TypeOK', NEW s \in Seq(PlanStep), s # <<>>, Does(s[1]), NEW name, Safe(s, name),
         NEW r, r = Tail(s), NEW m, r # <<>> => m = name
  PROVE  TreeSteps /\ Safe(r, m)'
<1>1. PICK h \in PlanStep : h = s[1]
  BY PlanParts
<1>2. /\ Shape(Linked) /\ Working(s, name) /\ (WideDir \/ OneBlockDirs)
      /\ Used \subseteq map_blk \/ (s = <<Save>> /\ name = "write" /\ mount = "ok")
  BY DEF Safe, Late
<1>3. ASSUME KeepsTree(h), Used \subseteq bitmap, Quiet(r)' \/ (r # <<>> /\ Pending(r, name)')
      PROVE  TreeSteps /\ Safe(r, m)'
  <2>1. TreeSteps /\ Used' = Used /\ Used' \subseteq bitmap'
    BY <1>1, <1>3, KeepingStep
  <2>2. Used' \subseteq map_blk'
    <3>1. CASE Used \subseteq map_blk
      BY <1>1, <1>3, <2>1, <3>1 DEF Does
    <3>2. CASE s = <<Save>>
      BY <1>1, <1>3, <2>1, <3>2 DEF Does, Save
    <3> QED BY <1>2, <3>1, <3>2
  <2>3. Working(r, m)'
    BY <1>3, <2>1 DEF Working
  <2> QED BY <1>2, <2>1, <2>2, <2>3 DEF Safe, TreeSteps
<1>4. CASE Used \subseteq bitmap /\ Quiet(s)
  <2>1. KeepsTree(h) /\ Quiet(r)'
    BY <1>1, <1>4, PlanParts, QuietNext DEF Quiet
  <2> QED BY <1>3, <1>4, <2>1
<1>5. ASSUME Used \subseteq bitmap, NEW c \in 2 .. Len(s),
             \A k \in 1 .. c - 1 : KeepsTree(s[k]) /\ s[k].do # "clear",
             Adds(s, c) \/ Removes(s, c) \/ Renames(s, c) \/ Grows(s, c, name)
      PROVE  TreeSteps /\ Safe(r, m)'
  <2>1. KeepsTree(h) /\ Pending(r, name)'
    BY <1>1, <1>5, PendingNext
  <2>2. r # <<>>
    BY PlanParts
  <2> QED BY <1>3, <1>5, <2>1, <2>2
<1>6. ASSUME Used \subseteq bitmap, Adds(s, 1) \/ Removes(s, 1) \/ Renames(s, 1) \/ Grows(s, 1, name)
      PROVE  TreeSteps /\ Safe(r, m)'
  <2>1. h.do = "put"
    BY <1>1, <1>6, CommitIsPut
  <2>2. Used \subseteq map_blk
    BY <1>1, <1>2, <2>1 DEF Save
  <2>3. disk' = [disk EXCEPT ![h.at] = h.what] /\ bitmap' = bitmap /\ map_blk' = map_blk
    BY <1>1, <2>1, DoesPut
  <2>4. TreeSteps /\ Committed(r, name)
    BY <1>1, <1>6, <2>2, <2>3, Commits
  <2>5. CASE Used' \subseteq bitmap /\ Used' \subseteq map_blk /\ Quiet(r)'
    BY <1>2, <2>3, <2>4, <2>5 DEF Safe, Working, TreeSteps
  <2>6. CASE Used' \subseteq bitmap /\ r = <<Save>> /\ name = "write" /\ mount = "ok"
    <3>1. m = name /\ mount' = "ok"
      <4>1. r # <<>> /\ mount' = mount
        BY <2>6 DEF Does
      <4> QED BY <2>6, <4>1
    <3>2. Quiet(r)'
      BY <2>6, LastQuietNext
    <3> QED BY <1>2, <2>3, <2>4, <2>6, <3>1, <3>2 DEF Safe, Working, Late, TreeSteps
  <2> QED BY <2>4, <2>5, <2>6 DEF Committed
<1>7. CASE Truncating(s, name)
  <2>1. PICK f \in Linked : \E B, e :
          /\ B = BlocksOf(read_inode(f)) /\ e = Put(f, Emptied(read_inode(f))) /\ ~IsDir(f)
          /\ \/ s = <<ClearBits(B), e, Save>> /\ Used \subseteq bitmap
             \/ s = <<e, Save>> /\ Used \subseteq bitmap \cup B
    BY <1>7, TruncatePlaces
  <2>2. PICK B, e :
          /\ B = BlocksOf(read_inode(f)) /\ e = Put(f, Emptied(read_inode(f))) /\ ~IsDir(f)
          /\ \/ s = <<ClearBits(B), e, Save>> /\ Used \subseteq bitmap
             \/ s = <<e, Save>> /\ Used \subseteq bitmap \cup B
    BY <2>1
  <2>3. CASE s = <<ClearBits(B), e, Save>> /\ Used \subseteq bitmap
    <3>1. h = ClearBits(B) /\ r = <<e, Save>> /\ m = "truncate"
      BY <1>1, <1>7, <2>3, TruncatePlaces
    <3>2. disk' = disk /\ bitmap' = bitmap \ B /\ map_blk' = map_blk
      BY <1>1, <3>1 DEF Does, ClearBits, Changed
    <3>3. Used \subseteq map_blk
      BY <1>1, <1>2, <3>1 DEF ClearBits, Save
    <3>4. TreeSteps /\ Linked' = Linked /\ Used' = Used
      BY <3>2, TreeStays
    <3>5. read_inode(f)' = read_inode(f) /\ IsDir(f)' = IsDir(f)
      BY <3>2, SameInode
    <3>6. B = BlocksOf(read_inode(f))' /\ e = Put(f, Emptied(read_inode(f)))'
      BY <2>2, <3>5 DEF BlocksOf, Emptied, Put
    <3>7. Truncating(r, m)'
      BY <2>2, <2>3, <3>1, <3>2, <3>4, <3>5, <3>6 DEF Truncating
    <3> QED BY <1>2, <3>2, <3>3, <3>4, <3>7 DEF Safe, Working, TreeSteps
  <2>4. CASE s = <<e, Save>> /\ Used \subseteq bitmap \cup B
    <3>1. h = e /\ r = <<Save>> /\ h.do = "put"
      BY <1>1, <2>2, <2>4 DEF Put
    <3>2. Used \subseteq map_blk
      BY <1>1, <1>2, <3>1 DEF Save
    <3>3. disk' = [disk EXCEPT ![h.at] = h.what] /\ bitmap' = bitmap /\ map_blk' = map_blk
      BY <1>1, <3>1, DoesPut
    <3>4. TreeSteps /\ Used' \subseteq bitmap /\ Used' \subseteq map_blk
      BY <2>2, <2>4, <3>1, <3>2, <3>3, TruncateCommits
    <3>5. Quiet(r)'
      BY <3>1, LastQuietNext
    <3> QED BY <1>2, <3>3, <3>4, <3>5 DEF Safe, Working, TreeSteps
  <2> QED BY <2>2, <2>3, <2>4
<1> QED BY <1>2, <1>4, <1>5, <1>6, <1>7, WhereItStands

-----------------------------------------------------------------------------
(* Steps that fail, and steps that write nothing.                          *)

LEMMA FailedSafe ==
  ASSUME Shape(Linked)', WideDir \/ OneBlockDirs', Used' \subseteq bitmap', Used' \subseteq map_blk',
         NEW U, U \cap Used' = {}, NEW rest, rest = IF U = {} THEN <<>> ELSE <<ClearBits(U), Save>>,
         NEW m
  PROVE  Safe(rest, m)'
<1>1. KeepsTree(ClearBits(U))' /\ KeepsTree(Save)'
  BY DEF KeepsTree, ClearBits, Save
<1>2. DOMAIN rest \subseteq {1, 2} /\ (rest # <<>> => rest[1] = ClearBits(U) /\ rest[2] = Save)
  OBVIOUS
<1>3. Quiet(rest)'
  BY <1>1, <1>2 DEF Quiet
<1> QED BY <1>3 DEF Safe, Working

LEMMA PutHeadSafe ==
  ASSUME Shaped, TypeOK', NEW s \in Seq(PlanStep), s # <<>>, NEW name, Safe(s, name),
         NEW h, h = s[1], h.do = "put", disk' = [disk EXCEPT ![h.at] = h.what],
         bitmap' = bitmap, map_blk' = map_blk, mount' = mount
  PROVE  TreeSteps
<1>1. Does(s[1])
  BY DEF Does
<1> QED BY <1>1, StepSafe

\* The block was written, and the call learns of a failure all the same.
LEMMA WrittenPutFails ==
  ASSUME Shaped, TypeOK', NEW s \in Seq(PlanStep), s # <<>>, NEW name, Safe(s, name),
         NEW h, h = s[1], h.do = "put", disk' = [disk EXCEPT ![h.at] = h.what],
         bitmap' = bitmap, map_blk' = map_blk, mount' = mount,
         ~(name = "write" /\ Len(s) = 2 /\ s[2] = Save),
         NEW rest, rest = IF h.undo = {} THEN <<>> ELSE <<ClearBits(h.undo), Save>>, NEW m
  PROVE  Safe(rest, m)'
<1>1. Used \subseteq map_blk /\ Working(s, name) /\ (WideDir \/ OneBlockDirs) /\ h \in PlanStep
  BY NotLate, PlanParts DEF Safe
<1>2. Shape(Linked)' /\ (WideDir \/ OneBlockDirs')
  BY <1>1, PutHeadSafe DEF TreeSteps
<1>3. Does(h)
  BY DEF Does
<1>4. ASSUME KeepsTree(h), Used \subseteq bitmap
      PROVE  Used' \subseteq bitmap /\ Used' \subseteq map_blk /\ h.undo \cap Used' = {}
  BY <1>1, <1>3, <1>4, KeepingStep DEF KeepsTree
<1>5. Used' \subseteq bitmap /\ Used' \subseteq map_blk /\ h.undo \cap Used' = {}
  <2>1. CASE Used \subseteq bitmap /\ Quiet(s)
    BY <1>4, <2>1, PlanParts DEF Quiet
  <2>2. ASSUME Used \subseteq bitmap, NEW c \in 2 .. Len(s),
               \A k \in 1 .. c - 1 : KeepsTree(s[k]) /\ s[k].do # "clear"
        PROVE  Used' \subseteq bitmap /\ Used' \subseteq map_blk /\ h.undo \cap Used' = {}
    <3>1. 1 \in 1 .. c - 1
      BY PlanParts
    <3> QED BY <1>4, <2>2, <3>1
  <2>3. ASSUME Used \subseteq bitmap, Adds(s, 1) \/ Removes(s, 1) \/ Renames(s, 1) \/ Grows(s, 1, name)
        PROVE  Used' \subseteq bitmap /\ Used' \subseteq map_blk /\ h.undo \cap Used' = {}
    <3>1. h.undo = {} /\ Committed(Tail(s), name)
      BY <1>1, <2>3, Commits
    <3>2. Tail(s) # <<Save>> \/ name # "write"
      <4>1. ASSUME Tail(s) = <<Save>> PROVE Len(s) = 2 /\ s[2] = Save
        <5>1. Len(<<Save>>) = 1 /\ <<Save>>[1] = Save
          OBVIOUS
        <5>2. \A r : r = Tail(s) /\ Len(r) = 1 => Len(s) = 2 /\ s[2] = r[1]
          <6> SUFFICES ASSUME NEW r, r = Tail(s), Len(r) = 1 PROVE Len(s) = 2 /\ s[2] = r[1]
            OBVIOUS
          <6>1. Len(s) = 2
            BY PlanParts
          <6>2. PICK k \in 2 .. Len(s) : k = 2
            BY <6>1
          <6>3. r[k - 1] = s[k] /\ k - 1 = 1
            BY <6>2, PlanParts
          <6> QED BY <6>1, <6>2, <6>3
        <5> QED BY <4>1, <5>1, <5>2
      <4> QED BY <4>1
    <3> QED BY <3>1, <3>2 DEF Committed
  <2>4. CASE Truncating(s, name)
    <3>1. PICK f \in Linked : \E B, e :
            /\ B = BlocksOf(read_inode(f)) /\ e = Put(f, Emptied(read_inode(f))) /\ ~IsDir(f)
            /\ \/ s = <<ClearBits(B), e, Save>> /\ Used \subseteq bitmap
               \/ s = <<e, Save>> /\ Used \subseteq bitmap \cup B
      BY <2>4, TruncatePlaces
    <3>2. PICK B, e :
            /\ B = BlocksOf(read_inode(f)) /\ e = Put(f, Emptied(read_inode(f))) /\ ~IsDir(f)
            /\ \/ s = <<ClearBits(B), e, Save>> /\ Used \subseteq bitmap
               \/ s = <<e, Save>> /\ Used \subseteq bitmap \cup B
      BY <3>1
    <3>3. s = <<e, Save>> /\ Used \subseteq bitmap \cup B
      BY <3>2 DEF ClearBits
    <3>4. h = e
      BY <3>3
    <3> QED BY <1>1, <3>2, <3>3, <3>4, TruncateCommits
  <2> QED BY <1>1, <2>1, <2>2, <2>3, <2>4, WhereItStands
<1> QED BY <1>2, <1>5, FailedSafe

\* Nothing was written.
LEMMA UnwrittenPutFails ==
  ASSUME Shaped, NEW s \in Seq(PlanStep), s # <<>>, NEW name, Safe(s, name),
         NEW h, h = s[1], h.do = "put", disk' = disk, bitmap' = bitmap, map_blk' = map_blk,
         ~(name = "truncate" /\ BlocksOf(read_inode(h.at)) # {}),
         NEW rest, rest = IF h.undo = {} THEN <<>> ELSE <<ClearBits(h.undo), Save>>, NEW m
  PROVE  Safe(rest, m)'
<1>1. Used \subseteq map_blk /\ Working(s, name) /\ (WideDir \/ OneBlockDirs)
  BY NotLate DEF Safe
<1>2. TreeSteps /\ Used' = Used
  BY TreeStays
<1>3. KeepsTree(h) => h.undo \cap Used = {}
  BY DEF KeepsTree
<1>4. Used \subseteq bitmap /\ h.undo \cap Used = {}
  <2>1. CASE Used \subseteq bitmap /\ Quiet(s)
    BY <1>3, <2>1, PlanParts DEF Quiet
  <2>2. ASSUME Used \subseteq bitmap, NEW c \in 2 .. Len(s),
               \A k \in 1 .. c - 1 : KeepsTree(s[k]) /\ s[k].do # "clear"
        PROVE  Used \subseteq bitmap /\ h.undo \cap Used = {}
    <3>1. 1 \in 1 .. c - 1
      BY PlanParts
    <3> QED BY <1>3, <2>2, <3>1
  <2>3. ASSUME Used \subseteq bitmap, Adds(s, 1) \/ Removes(s, 1) \/ Renames(s, 1) \/ Grows(s, 1, name)
        PROVE  Used \subseteq bitmap /\ h.undo \cap Used = {}
    BY <2>3, CommitIsPut
  <2>4. CASE Truncating(s, name)
    <3>1. PICK f \in Linked : \E B, e :
            /\ B = BlocksOf(read_inode(f)) /\ e = Put(f, Emptied(read_inode(f))) /\ ~IsDir(f)
            /\ \/ s = <<ClearBits(B), e, Save>> /\ Used \subseteq bitmap
               \/ s = <<e, Save>> /\ Used \subseteq bitmap \cup B
      BY <2>4, TruncatePlaces
    <3>2. PICK B, e :
            /\ B = BlocksOf(read_inode(f)) /\ e = Put(f, Emptied(read_inode(f))) /\ ~IsDir(f)
            /\ \/ s = <<ClearBits(B), e, Save>> /\ Used \subseteq bitmap
               \/ s = <<e, Save>> /\ Used \subseteq bitmap \cup B
      BY <3>1
    <3>3. s = <<e, Save>> /\ Used \subseteq bitmap \cup B
      BY <3>2 DEF ClearBits
    <3>4. h = e /\ name = "truncate"
      BY <2>4, <3>3, TruncatePlaces
    <3>5. h.undo = {} /\ h.at = f
      BY <3>2, <3>4 DEF Put
    <3>6. B = {}
      BY <3>2, <3>4, <3>5
    <3> QED BY <3>3, <3>5, <3>6
  <2> QED BY <1>1, <2>1, <2>2, <2>3, <2>4, WhereItStands
<1>5. Shape(Linked)' /\ (WideDir \/ OneBlockDirs') /\ Used' \subseteq bitmap' /\ Used' \subseteq map_blk'
  BY <1>1, <1>2, <1>4 DEF TreeSteps
<1> QED BY <1>2, <1>4, <1>5, FailedSafe

LEMMA NodePartsNext ==
  \A i : NodeOf(i)' = [type |-> read_inode(i)'.type,
                       length |-> IF IsDir(i)' THEN 0 ELSE read_inode(i)'.size,
                       entries |-> IF IsDir(i)' THEN EntrySet(i)' ELSE {}]
<1>1. \A i : NodeOf(i) = [type |-> read_inode(i).type,
                          length |-> IF IsDir(i) THEN 0 ELSE read_inode(i).size,
                          entries |-> IF IsDir(i) THEN EntrySet(i) ELSE {}]
  BY NodeParts
<1>2. (\A i : NodeOf(i) = [type |-> read_inode(i).type,
                           length |-> IF IsDir(i) THEN 0 ELSE read_inode(i).size,
                           entries |-> IF IsDir(i) THEN EntrySet(i) ELSE {}])'
  BY <1>1, PTL
<1> QED BY <1>2

\* Where nothing is written, everything said of a plan is said of it still.
LEMMA SameTree ==
  ASSUME disk' = disk
  PROVE  /\ \A i : read_inode(i)' = read_inode(i) /\ IsDir(i)' = IsDir(i) /\ BlockCount(i)' = BlockCount(i)
         /\ \A i : ValidAt(i)' = ValidAt(i) /\ FreeSlots(i)' = FreeSlots(i) /\ Held(i)' = Held(i)
         /\ \A i, p : EntryAt(i, p)' = EntryAt(i, p)
         /\ \A i, n : HasName(i, n)' = HasName(i, n)
         /\ \A i, p, e : PutEntry(i, p, e)' = PutEntry(i, p, e)
         /\ Linked' = Linked /\ Used' = Used /\ \A i : NodeOf(i)' = NodeOf(i)
<1>1. \A i : /\ read_inode(i)' = read_inode(i) /\ IsDir(i)' = IsDir(i) /\ BlockCount(i)' = BlockCount(i)
             /\ Positions(i)' = Positions(i) /\ Held(i)' = Held(i)
             /\ \A p : BlockAt(i, p)' = BlockAt(i, p)
  BY SameInode
<1>2. \A i, p : EntryAt(i, p)' = EntryAt(i, p)
  BY <1>1 DEF EntryAt
<1>3. \A i : ValidAt(i)' = ValidAt(i)
  BY <1>1, <1>2 DEF ValidAt
<1>4. \A i : FreeSlots(i)' = FreeSlots(i) /\ \A n : HasName(i, n)' = HasName(i, n)
  BY <1>1, <1>2, <1>3 DEF FreeSlots, HasName
<1>5. \A i, p, e : PutEntry(i, p, e)' = PutEntry(i, p, e)
  BY <1>1 DEF PutEntry, SetEntry, Put
<1>6. Linked' = Linked
  <2>1. \A i : LinkedChildren(i)' = LinkedChildren(i)
    BY <1>1, <1>2, <1>3 DEF LinkedChildren
  <2>2. Links' = Links
    BY <2>1 DEF Links
  <2> QED BY <2>2 DEF Linked
<1>7. Used' = Used
  BY <1>1, <1>6 DEF Used
<1>8. \A i : NodeOf(i)' = NodeOf(i)
  <2>1. \A i : EntrySet(i)' = EntrySet(i)
    BY <1>2, <1>3 DEF EntrySet
  <2> QED BY <1>1, <2>1, NodeParts, NodePartsNext
<1> QED BY <1>1, <1>2, <1>3, <1>4, <1>5, <1>6, <1>7, <1>8

LEMMA SamePending ==
  ASSUME disk' = disk, map_blk' = map_blk, bitmap' = bitmap, mount' = mount, NEW s, NEW name,
         Pending(s, name)
  PROVE  Pending(s, name)'
<1>1. PICK c \in DOMAIN s :
        /\ \A k \in 1 .. c - 1 : KeepsTree(s[k]) /\ s[k].do # "clear"
        /\ Adds(s, c) \/ Removes(s, c) \/ Renames(s, c) \/ Grows(s, c, name)
  BY DEF Pending
<1>2. Used' = Used /\ Linked' = Linked
  BY SameTree
<1>3. \A k \in 1 .. c - 1 : KeepsTree(s[k])' /\ s[k].do # "clear"
  BY <1>1, <1>2 DEF KeepsTree
<1>4. \A x, v : WillBe(s, c, x, v) => WillBe(s, c, x, v)'
  BY DEF WillBe
<1>5. \A N : (WillBeSaved(s, c, N) => WillBeSaved(s, c, N)') /\ (WillBeSet(s, c, N) => WillBeSet(s, c, N)')
  BY DEF WillBeSaved, WillBeSet
<1>6. Adds(s, c) => Adds(s, c)'
  <2>1. \A i, b : IsNew(s, c, i, b) => IsNew(s, c, i, b)'
    BY <1>4 DEF IsNew
  <2>2. \A d, p, i, n : PutEntry(d, p, NewEntry(i, n))' = PutEntry(d, p, NewEntry(i, n))
    <3>1. \A d, p, e : PutEntry(d, p, e)' = PutEntry(d, p, e)
      BY SameTree
    <3> TAKE d, p, i, n
    <3>2. PICK e : e = NewEntry(i, n)
      OBVIOUS
    <3>3. PutEntry(d, p, NewEntry(i, n)) = PutEntry(d, p, e)
      BY <3>2
    <3>4. PutEntry(d, p, NewEntry(i, n))' = PutEntry(d, p, e)'
      BY <3>2 DEF NewEntry, PutEntry
    <3> QED BY <3>1, <3>3, <3>4
  <2> SUFFICES ASSUME Adds(s, c) PROVE Adds(s, c)'
    OBVIOUS
  <2>3. PICK d \in Linked, n \in Names : \E p \in FreeSlots(d) : \E i, b \in Blocks \ Used :
          /\ IsDir(d) /\ ~HasName(d, n) /\ s[c] = PutEntry(d, p, NewEntry(i, n))
          /\ IsNew(s, c, i, b) /\ WillBeSaved(s, c, {i, b})
    BY DEF Adds
  <2>4. PICK p \in FreeSlots(d) : \E i, b \in Blocks \ Used :
          /\ IsDir(d) /\ ~HasName(d, n) /\ s[c] = PutEntry(d, p, NewEntry(i, n))
          /\ IsNew(s, c, i, b) /\ WillBeSaved(s, c, {i, b})
    BY <2>3
  <2>5. PICK i \in Blocks \ Used, b \in Blocks \ Used :
          /\ IsDir(d) /\ ~HasName(d, n) /\ s[c] = PutEntry(d, p, NewEntry(i, n))
          /\ IsNew(s, c, i, b) /\ WillBeSaved(s, c, {i, b})
    BY <2>4
  <2>6. /\ IsDir(d)' /\ ~HasName(d, n)' /\ s[c] = PutEntry(d, p, NewEntry(i, n))'
        /\ IsNew(s, c, i, b)' /\ WillBeSaved(s, c, {i, b})' /\ p \in FreeSlots(d)'
    BY <1>5, <2>1, <2>2, <2>5, SameTree
  <2>7. d \in Linked' /\ i \in Blocks \ Used' /\ b \in Blocks \ Used' /\ Len(s) = c
    BY <1>2 DEF Adds
  <2> QED BY <2>6, <2>7 DEF Adds
<1>7. Removes(s, c) => Removes(s, c)'
  <2> SUFFICES ASSUME Removes(s, c) PROVE Removes(s, c)'
    OBVIOUS
  <2>1. PICK d \in Linked : \E p \in ValidAt(d) : \E x \in Linked : \E R \in SUBSET Held(x) :
          /\ x = EntryAt(d, p).inode /\ IsDir(d) /\ (IsDir(x) => SeenEmpty(x))
          /\ s = <<PutEntry(d, p, NoEntry), ClearBits(R), Save>>
    BY DEF Removes
  <2>2. PICK p \in ValidAt(d), x \in Linked : \E R \in SUBSET Held(x) :
          /\ x = EntryAt(d, p).inode /\ IsDir(d) /\ (IsDir(x) => SeenEmpty(x))
          /\ s = <<PutEntry(d, p, NoEntry), ClearBits(R), Save>>
    BY <2>1
  <2>3. PICK R \in SUBSET Held(x) :
          /\ x = EntryAt(d, p).inode /\ IsDir(d) /\ (IsDir(x) => SeenEmpty(x))
          /\ s = <<PutEntry(d, p, NoEntry), ClearBits(R), Save>>
    BY <2>2
  <2>4. SeenEmpty(x)' = SeenEmpty(x) /\ EntryAt(d, p)' = EntryAt(d, p)
    BY SameTree DEF SeenEmpty
  <2>5. s = <<PutEntry(d, p, NoEntry)', ClearBits(R), Save>>
    BY <2>3, SameTree
  <2>6. /\ x = EntryAt(d, p)'.inode /\ IsDir(d)' /\ (IsDir(x)' => SeenEmpty(x)')
        /\ p \in ValidAt(d)' /\ R \in SUBSET Held(x)'
    BY <2>3, <2>4, SameTree
  <2>7. c = 1 /\ d \in Linked' /\ x \in Linked'
    BY <1>2 DEF Removes
  <2> QED BY <2>5, <2>6, <2>7 DEF Removes
<1>8. Renames(s, c) => Renames(s, c)'
  <2> SUFFICES ASSUME Renames(s, c) PROVE Renames(s, c)'
    OBVIOUS
  <2>1. PICK d \in Linked, n \in Names : \E p \in ValidAt(d) :
          /\ IsDir(d) /\ (BlockCount(d) = 1 => n = EntryAt(d, p).name \/ ~HasName(d, n))
          /\ s = <<PutEntry(d, p, NewEntry(EntryAt(d, p).inode, n))>>
    BY DEF Renames
  <2>2. PICK p \in ValidAt(d) :
          /\ IsDir(d) /\ (BlockCount(d) = 1 => n = EntryAt(d, p).name \/ ~HasName(d, n))
          /\ s = <<PutEntry(d, p, NewEntry(EntryAt(d, p).inode, n))>>
    BY <2>1
  <2>3. EntryAt(d, p)' = EntryAt(d, p) /\ BlockAt(d, p)' = BlockAt(d, p)
    BY SameTree, SameInode
  <2>4. s = <<PutEntry(d, p, NewEntry(EntryAt(d, p).inode, n))'>>
    BY <2>2, <2>3 DEF PutEntry, Put, SetEntry, NewEntry
  <2> QED BY <1>2, <2>2, <2>3, <2>4, SameTree DEF Renames
<1>9. Grows(s, c, name) => Grows(s, c, name)'
  <2>1. \A f, ino, new : Grown(f, ino, new) => Grown(f, ino, new)'
    BY SameTree DEF Grown, PtrAt
  <2> QED BY <1>2, <1>4, <1>5, <2>1, SameTree DEF Grows
<1> QED BY <1>1, <1>3, <1>6, <1>7, <1>8, <1>9 DEF Pending

LEMMA SameWorking ==
  ASSUME disk' = disk, map_blk' = map_blk, bitmap' = bitmap, mount' = mount, NEW s, NEW name,
         Working(s, name)
  PROVE  Working(s, name)'
<1>1. Used' = Used /\ Linked' = Linked /\ \A i : read_inode(i)' = read_inode(i) /\ IsDir(i)' = IsDir(i)
  BY SameTree
<1>2. Quiet(s) => Quiet(s)'
  BY <1>1, StillKeeps DEF Quiet
<1>3. Truncating(s, name) => Truncating(s, name)'
  <2> SUFFICES ASSUME Truncating(s, name) PROVE Truncating(s, name)'
    OBVIOUS
  <2>1. PICK f \in Linked : \E B, e :
          /\ B = BlocksOf(read_inode(f)) /\ e = Put(f, Emptied(read_inode(f))) /\ ~IsDir(f)
          /\ \/ s = <<ClearBits(B), e, Save>> /\ Used \subseteq bitmap
             \/ s = <<e, Save>> /\ Used \subseteq bitmap \cup B
    BY TruncatePlaces
  <2>2. PICK B, e :
          /\ B = BlocksOf(read_inode(f)) /\ e = Put(f, Emptied(read_inode(f))) /\ ~IsDir(f)
          /\ \/ s = <<ClearBits(B), e, Save>> /\ Used \subseteq bitmap
             \/ s = <<e, Save>> /\ Used \subseteq bitmap \cup B
    BY <2>1
  <2>3. B = BlocksOf(read_inode(f))' /\ e = Put(f, Emptied(read_inode(f)))' /\ name = "truncate"
    BY <1>1, <2>2 DEF BlocksOf, Emptied, Put, Truncating
  <2> QED BY <1>1, <2>2, <2>3 DEF Truncating
<1> QED BY <1>1, <1>2, <1>3, SamePending DEF Working

LEMMA SameSafe ==
  ASSUME Shaped, disk' = disk, map_blk' = map_blk, bitmap' = bitmap, mount' = mount, NEW s, NEW name,
         Safe(s, name)
  PROVE  Safe(s, name)'
<1>1. TreeSteps /\ Used' = Used
  BY TreeStays
<1>2. Working(s, name)'
  BY SameWorking DEF Safe
<1> QED BY <1>1, <1>2 DEF Safe, Late, TreeSteps

\* Between calls.
LEMMA IdleSafe ==
  ASSUME NEW name
  PROVE  Safe(<<>>, name) <=> /\ Shape(Linked) /\ Used \subseteq bitmap /\ Used \subseteq map_blk
                              /\ WideDir \/ OneBlockDirs
<1>1. ~Truncating(<<>>, name) /\ ~Late(<<>>, name)
  BY DEF Truncating, Late
<1>2. Quiet(<<>>)
  BY LastQuiet
<1>3. ~Pending(<<>>, name)
  BY DEF Pending
<1> QED BY <1>1, <1>2, <1>3 DEF Safe, Working

-----------------------------------------------------------------------------
(* The plans that calls begin with.                                        *)

LEMMA BuiltSteps ==
  /\ \A S : SetBits(S).do = "set" /\ KeepsTree(SetBits(S)) /\ Save.do = "save" /\ KeepsTree(Save)
  /\ \A b, c, U : /\ PutOrUndo(b, c, U).do = "put" /\ PutOrUndo(b, c, U).at = b
                  /\ PutOrUndo(b, c, U).what = c /\ PutOrUndo(b, c, U).undo = U
                  /\ b \notin Used /\ U \cap Used = {} => KeepsTree(PutOrUndo(b, c, U))
<1>1. ASSUME NEW b, NEW c, NEW U
      PROVE  /\ PutOrUndo(b, c, U).do = "put" /\ PutOrUndo(b, c, U).at = b
             /\ PutOrUndo(b, c, U).what = c /\ PutOrUndo(b, c, U).undo = U
  BY DEF PutOrUndo, Put
<1>2. \A S : SetBits(S).do = "set" /\ KeepsTree(SetBits(S)) /\ Save.do = "save" /\ KeepsTree(Save)
  BY DEF KeepsTree, SetBits, Save
<1> QED BY <1>1, <1>2 DEF KeepsTree

LEMMA FreeIsUnused ==
  ASSUME Used \subseteq bitmap
  PROVE  /\ \A i \in FirstFree : i \in Blocks \ Used
         /\ \A i : \A b \in SecondFree(i) : b \in Blocks \ Used /\ b # i
         /\ FreeBlocks \subseteq Blocks \ Used
BY FirstFreeParts DEF FreeBlocks

LEMMA AddParts ==
  ASSUME Shaped, NEW d \in Linked, NEW n, NEW i
  PROVE  \/ AddSteps(d, n, i) = <<>>
         \/ \E p \in FreeSlots(d) : AddSteps(d, n, i) = <<PutEntry(d, p, NewEntry(i, n))>>
<1>1. CASE FreeSlots(d) = {}
  BY <1>1 DEF AddSteps
<1>2. CASE FreeSlots(d) # {}
  <2>1. TypeOK /\ d \in Blocks
    BY LinkedShape
  <2>2. FirstOf(FreeSlots(d)) # {}
    BY <1>2, <2>1, FirstExists DEF FreeSlots
  <2>3. (CHOOSE p \in FirstOf(FreeSlots(d)) : TRUE) \in FreeSlots(d)
    BY <2>2 DEF FirstOf
  <2> QED BY <1>2, <2>3 DEF AddSteps
<1> QED BY <1>1, <1>2

LEMMA Appended ==
  ASSUME NEW S, NEW u \in Seq(S), NEW e \in S, NEW s, s = u \o <<e>>
  PROVE  /\ Len(s) = Len(u) + 1 /\ DOMAIN s = 1 .. Len(u) + 1
         /\ \A k \in 1 .. Len(u) : s[k] = u[k]
         /\ s[Len(u) + 1] = e
<1>1. PICK w : w = <<e>>
  OBVIOUS
<1>2. w \in Seq(S) /\ Len(w) = 1 /\ w[1] = e
  BY <1>1
<1>3. Len(u) \in Nat /\ s = u \o w
  BY <1>1
<1>4. s \in Seq(S) /\ Len(s) = Len(u) + 1
  BY <1>2, <1>3, ConcatProperties
<1>5. \A k \in 1 .. Len(u) : s[k] = u[k]
  BY <1>2, <1>3, ConcatProperties
<1>6. s[Len(u) + 1] = w[1]
  BY <1>2, <1>3, ConcatProperties
<1> QED BY <1>2, <1>3, <1>4, <1>5, <1>6

LEMMA CreateWorks ==
  ASSUME Shaped, Used \subseteq bitmap, NEW d \in Linked, NEW n \in Names, IsDir(d), ~HasName(d, n),
         NEW i \in FirstFree
  PROVE  Working(CreateSteps(d, n, i), "create")
<1>1. PICK v : v = AnInode("file", 0, NullPtrs)
  OBVIOUS
<1>2. PICK s1, s2, s3 : s1 = SetBits({i}) /\ s2 = Save /\ s3 = PutOrUndo(i, v, {i})
  OBVIOUS
<1>3. i \in Blocks \ Used
  BY FreeIsUnused
<1>4. /\ KeepsTree(s1) /\ KeepsTree(s2) /\ KeepsTree(s3)
      /\ s1.do = "set" /\ s2.do = "save" /\ s3.do = "put" /\ s3.at = i /\ s3.what = v
  <2>1. {i} \cap Used = {}
    BY <1>3
  <2> QED BY <1>2, <1>3, <2>1, BuiltSteps
<1>5. CreateSteps(d, n, i) = <<s1, s2, s3>> \o AddSteps(d, n, i)
  BY <1>1, <1>2 DEF CreateSteps
<1>6. CASE AddSteps(d, n, i) = <<>>
  <2>1. CreateSteps(d, n, i) = <<s1, s2, s3>>
    BY <1>5, <1>6
  <2>2. Quiet(<<s1, s2, s3>>)
    BY <1>4 DEF Quiet
  <2> QED BY <2>1, <2>2 DEF Working
<1>7. ASSUME NEW p \in FreeSlots(d), AddSteps(d, n, i) = <<PutEntry(d, p, NewEntry(i, n))>>
      PROVE  Working(CreateSteps(d, n, i), "create")
  <2>1. PICK e : e = PutEntry(d, p, NewEntry(i, n))
    OBVIOUS
  <2>2. PICK u : u = <<s1, s2, s3>>
    OBVIOUS
  <2>3. PICK s : s = CreateSteps(d, n, i) /\ s = u \o <<e>>
    BY <1>5, <1>7, <2>1, <2>2
  <2>4. /\ Len(s) = 4 /\ DOMAIN s = 1 .. 4
        /\ s[1] = s1 /\ s[2] = s2 /\ s[3] = s3 /\ s[4] = e
    <3>1. u \in Seq({s1, s2, s3, e}) /\ Len(u) = 3 /\ u[1] = s1 /\ u[2] = s2 /\ u[3] = s3
      BY <2>2
    <3>2. /\ Len(s) = Len(u) + 1 /\ DOMAIN s = 1 .. Len(u) + 1 /\ s[Len(u) + 1] = e
          /\ \A k \in 1 .. Len(u) : s[k] = u[k]
      <4>1. PICK S : S = {s1, s2, s3, e}
        OBVIOUS
      <4>2. u \in Seq(S) /\ e \in S
        BY <3>1, <4>1
      <4> QED BY <2>3, <4>2, Appended
    <3>3. 1 \in 1 .. 3 /\ 2 \in 1 .. 3 /\ 3 \in 1 .. 3 /\ 3 + 1 = 4
      OBVIOUS
    <3> QED BY <3>1, <3>2, <3>3
  <2>5. \A k \in 1 .. 4 - 1 : k = 1 \/ k = 2 \/ k = 3
    OBVIOUS
  <2>6. WillBe(s, 4, i, v)
    BY <1>4, <2>4, <2>5 DEF WillBe
  <2>7. WillBeSaved(s, 4, {i, i})
    <3>1. s[2] = Save /\ s[1] = SetBits({i, i}) /\ 2 \in 1 .. 4 - 1 /\ 1 \in 1 .. 2 - 1
      BY <1>2, <2>4
    <3> QED BY <3>1 DEF WillBeSaved
  <2>8. IsNew(s, 4, i, i)
    BY <1>1, <2>6 DEF IsNew
  <2>9. Adds(s, 4)
    BY <1>3, <1>7, <2>1, <2>4, <2>7, <2>8 DEF Adds
  <2>10. \A k \in 1 .. 4 - 1 : KeepsTree(s[k]) /\ s[k].do # "clear"
    BY <1>4, <2>4, <2>5
  <2>11. Pending(s, "create")
    BY <2>4, <2>9, <2>10 DEF Pending
  <2> QED BY <2>3, <2>11 DEF Working
<1> QED BY <1>6, <1>7, AddParts

LEMMA MkdirWorks ==
  ASSUME Shaped, Used \subseteq bitmap, NEW d \in Linked, NEW n \in Names, IsDir(d), ~HasName(d, n),
         NEW i \in FirstFree, NEW b \in SecondFree(i)
  PROVE  Working(MkdirSteps(d, n, i, b), "mkdir")
<1>1. PICK v, w : v = AnInode("dir", BlockSize, FirstPtr(b)) /\ w = Entries(NoEntries)
  OBVIOUS
<1>2. PICK s1, s2, s3, s4 :
        /\ s1 = SetBits({i, b}) /\ s2 = Save
        /\ s3 = PutOrUndo(i, v, {i, b}) /\ s4 = PutOrUndo(b, w, {i, b})
  OBVIOUS
<1>3. i \in Blocks \ Used /\ b \in Blocks \ Used /\ b # i
  BY FreeIsUnused
<1>4. /\ KeepsTree(s1) /\ KeepsTree(s2) /\ KeepsTree(s3) /\ KeepsTree(s4)
      /\ s1.do = "set" /\ s2.do = "save"
      /\ s3.do = "put" /\ s3.at = i /\ s3.what = v /\ s4.do = "put" /\ s4.at = b /\ s4.what = w
  <2>1. {i, b} \cap Used = {}
    BY <1>3
  <2> QED BY <1>2, <1>3, <2>1, BuiltSteps
<1>5. MkdirSteps(d, n, i, b) = <<s1, s2, s3, s4>> \o AddSteps(d, n, i)
  BY <1>1, <1>2 DEF MkdirSteps
<1>6. CASE AddSteps(d, n, i) = <<>>
  <2>1. MkdirSteps(d, n, i, b) = <<s1, s2, s3, s4>>
    BY <1>5, <1>6
  <2>2. Quiet(<<s1, s2, s3, s4>>)
    BY <1>4 DEF Quiet
  <2> QED BY <2>1, <2>2 DEF Working
<1>7. ASSUME NEW p \in FreeSlots(d), AddSteps(d, n, i) = <<PutEntry(d, p, NewEntry(i, n))>>
      PROVE  Working(MkdirSteps(d, n, i, b), "mkdir")
  <2>1. PICK e : e = PutEntry(d, p, NewEntry(i, n))
    OBVIOUS
  <2>2. PICK u : u = <<s1, s2, s3, s4>>
    OBVIOUS
  <2>3. PICK s : s = MkdirSteps(d, n, i, b) /\ s = u \o <<e>>
    BY <1>5, <1>7, <2>1, <2>2
  <2>4. /\ Len(s) = 5 /\ DOMAIN s = 1 .. 5
        /\ s[1] = s1 /\ s[2] = s2 /\ s[3] = s3 /\ s[4] = s4 /\ s[5] = e
    <3>1. /\ u \in Seq({s1, s2, s3, s4, e}) /\ Len(u) = 4
          /\ u[1] = s1 /\ u[2] = s2 /\ u[3] = s3 /\ u[4] = s4
      BY <2>2
    <3>2. /\ Len(s) = Len(u) + 1 /\ DOMAIN s = 1 .. Len(u) + 1 /\ s[Len(u) + 1] = e
          /\ \A k \in 1 .. Len(u) : s[k] = u[k]
      <4>1. PICK S : S = {s1, s2, s3, s4, e}
        OBVIOUS
      <4>2. u \in Seq(S) /\ e \in S
        BY <3>1, <4>1
      <4> QED BY <2>3, <4>2, Appended
    <3>3. 1 \in 1 .. 4 /\ 2 \in 1 .. 4 /\ 3 \in 1 .. 4 /\ 4 \in 1 .. 4 /\ 4 + 1 = 5
      OBVIOUS
    <3> QED BY <3>1, <3>2, <3>3
  <2>5. \A k \in 1 .. 5 - 1 : k = 1 \/ k = 2 \/ k = 3 \/ k = 4
    OBVIOUS
  <2>6. WillBe(s, 5, i, v) /\ WillBe(s, 5, b, w)
    BY <1>3, <1>4, <2>4, <2>5 DEF WillBe
  <2>7. WillBeSaved(s, 5, {i, b})
    <3>1. s[2] = Save /\ s[1] = SetBits({i, b}) /\ 2 \in 1 .. 5 - 1 /\ 1 \in 1 .. 2 - 1
      BY <1>2, <2>4
    <3> QED BY <3>1 DEF WillBeSaved
  <2>8. IsNew(s, 5, i, b)
    BY <1>1, <1>3, <2>6 DEF IsNew
  <2>9. Adds(s, 5)
    BY <1>3, <1>7, <2>1, <2>4, <2>7, <2>8 DEF Adds
  <2>10. \A k \in 1 .. 5 - 1 : KeepsTree(s[k]) /\ s[k].do # "clear"
    BY <1>4, <2>4, <2>5
  <2>11. Pending(s, "mkdir")
    BY <2>4, <2>9, <2>10 DEF Pending
  <2> QED BY <2>3, <2>11 DEF Working
<1> QED BY <1>6, <1>7, AddParts

LEMMA CommitsAtOnce ==
  ASSUME Used \subseteq bitmap, NEW s, 1 \in DOMAIN s, NEW name,
         Adds(s, 1) \/ Removes(s, 1) \/ Renames(s, 1) \/ Grows(s, 1, name)
  PROVE  Working(s, name)
<1>1. 1 .. 1 - 1 = {}
  OBVIOUS
<1> QED BY <1>1 DEF Working, Pending

LEMMA MatchParts ==
  ASSUME NEW d, NEW n, NEW p \in FirstMatch(d, n)
  PROVE  IsDir(d) /\ p \in ValidAt(d)
BY DEF FirstMatch, FirstOf, Matches

LEMMA RemoveWorks ==
  ASSUME Shaped, Used \subseteq bitmap, NEW d \in Linked, IsDir(d), NEW p \in ValidAt(d),
         NEW x, x = EntryAt(d, p).inode, IsDir(x) => SeenEmpty(x), NEW R \in SUBSET Held(x), NEW name
  PROVE  Working(RemoveSteps(d, p, R), name)
<1>1. x \in Linked
  BY LinkedClosed
<1>2. PICK e : e = PutEntry(d, p, NoEntry)
  OBVIOUS
<1>3. PICK s : s = <<e, ClearBits(R), Save>>
  OBVIOUS
<1>4. s = RemoveSteps(d, p, R)
  BY <1>2, <1>3 DEF RemoveSteps
<1>5. 1 \in DOMAIN s
  BY <1>3
<1>6. Removes(s, 1)
  BY <1>1, <1>2, <1>3 DEF Removes
<1> QED BY <1>4, <1>5, <1>6, CommitsAtOnce

\* A directory of the tree holds its first block.
LEMMA FirstBlockHeld ==
  ASSUME Shaped, NEW x \in Linked, IsDir(x)
  PROVE  {read_inode(x).ptrs[0], x} \subseteq Held(x)
<1>1. TypeOK /\ x \in Blocks /\ WellFormed(x)
  BY LinkedShape
<1>2. 0 \in Indices(x) /\ PtrAt(x, 0) = read_inode(x).ptrs[0]
  BY <1>1 DEF WellFormed, RightKind, PtrAt
<1> QED BY <1>1, <1>2, HeldParts DEF WellFormed

LEMMA RenameWorks ==
  ASSUME Shaped, Used \subseteq bitmap, NEW d \in Linked, NEW n1, NEW n2 \in Names,
         NEW p \in FirstMatch(d, n1), ~DestinationSeen(d, p, n1, n2), NEW q \in SourceEntry(d, p, n1)
  PROVE  Working(<<PutEntry(d, q, NewEntry(EntryAt(d, q).inode, n2))>>, "rename")
<1>1. TypeOK /\ d \in Blocks
  BY LinkedShape
<1>2. q \in ValidAt(d) /\ EntryAt(d, q).name = n1 /\ IsDir(d) /\ p \in ValidAt(d)
  BY MatchParts DEF SourceEntry, Matches
<1>3. BlockCount(d) = 1 => n2 = EntryAt(d, q).name \/ ~HasName(d, n2)
  BY <1>1, <1>2, OneBlockSeen
<1>4. PICK e : e = PutEntry(d, q, NewEntry(EntryAt(d, q).inode, n2))
  OBVIOUS
<1>5. PICK s : s = <<e>>
  OBVIOUS
<1>6. 1 \in DOMAIN s
  BY <1>5
<1>7. Renames(s, 1)
  BY <1>2, <1>3, <1>4, <1>5 DEF Renames
<1> QED BY <1>4, <1>5, <1>6, <1>7, CommitsAtOnce

LEMMA SetattrWorks ==
  ASSUME Shaped, Used \subseteq bitmap, NEW i \in Linked, NEW name
  PROVE  Working(<<Put(i, read_inode(i))>>, name)
<1>1. read_inode(i) = disk[i]
  BY LinkedShape DEF WellFormed, read_inode
<1>2. KeepsTree(Put(i, read_inode(i)))
  BY <1>1 DEF KeepsTree, Put
<1>3. Quiet(<<Put(i, read_inode(i))>>)
  BY <1>2 DEF Quiet
<1> QED BY <1>3 DEF Working

LEMMA Prefixed == \A a, b, c : <<a>> \o <<b, c>> = <<a, b, c>>
<1> TAKE a, b, c
<1>1. PICK S, u, w, r : S = {a, b, c} /\ u = <<a>> /\ w = <<b, c>> /\ r = <<a, b, c>>
  OBVIOUS
<1>2. /\ u \in Seq(S) /\ Len(u) = 1 /\ u[1] = a
      /\ w \in Seq(S) /\ Len(w) = 2 /\ w[1] = b /\ w[2] = c
      /\ r \in Seq(S) /\ Len(r) = 3 /\ r[1] = a /\ r[2] = b /\ r[3] = c
  BY <1>1
<1>3. /\ u \o w \in Seq(S) /\ Len(u \o w) = Len(u) + Len(w)
      /\ \A i \in 1 .. Len(u) + Len(w) : (u \o w)[i] = IF i <= Len(u) THEN u[i] ELSE w[i - Len(u)]
  <2> HIDE <1>1
  <2> QED BY <1>2, ConcatProperties
<1>4. \A i \in 1 .. 3 : (u \o w)[i] = r[i]
  <2>1. \A i \in 1 .. 3 : i = 1 \/ i = 2 \/ i = 3
    OBVIOUS
  <2> HIDE <1>1
  <2> QED BY <1>2, <1>3, <2>1
<1>5. u \o w = r
  <2> HIDE <1>1
  <2>1. PICK y : y = u \o w
    OBVIOUS
  <2>2. y \in Seq(S) /\ Len(y) = Len(r) /\ \A i \in 1 .. Len(y) : y[i] = r[i]
    BY <1>2, <1>3, <1>4, <2>1
  <2> QED BY <1>2, <2>1, <2>2, SeqEqual
<1> QED BY <1>1, <1>5

LEMMA TruncateWorks ==
  ASSUME Shaped, Used \subseteq bitmap, NEW f \in Linked, ~IsDir(f)
  PROVE  Working(TruncateSteps(f, BlocksOf(read_inode(f))), "truncate")
<1>1. PICK B, e : B = BlocksOf(read_inode(f)) /\ e = Put(f, Emptied(read_inode(f)))
  OBVIOUS
<1>2. PICK s : s = TruncateSteps(f, B)
  OBVIOUS
<1>3. CASE B = {}
  <2>1. s = <<>> \o <<e, Save>>
    BY <1>1, <1>2, <1>3 DEF TruncateSteps
  <2>2. s = <<e, Save>>
    BY <2>1
  <2>3. Used \subseteq bitmap \cup B
    OBVIOUS
  <2>4. Truncating(s, "truncate")
    BY <1>1, <2>2, <2>3 DEF Truncating
  <2> QED BY <1>1, <1>2, <2>4 DEF Working
<1>4. CASE B # {}
  <2>1. PICK c : c = ClearBits(B)
    OBVIOUS
  <2>2. s = <<c>> \o <<e, Save>>
    BY <1>1, <1>2, <1>4, <2>1 DEF TruncateSteps
  <2>3. s = <<c, e, Save>>
    BY <2>2, Prefixed
  <2>4. Truncating(s, "truncate")
    BY <1>1, <2>1, <2>3 DEF Truncating
  <2> QED BY <1>1, <1>2, <2>4 DEF Working
<1> QED BY <1>3, <1>4

LEMMA FullWriteWorks ==
  ASSUME Used \subseteq bitmap, NEW name
  PROVE  Working(<<SetBits(FreeBlocks)>>, name)
<1>1. KeepsTree(SetBits(FreeBlocks))
  BY BuiltSteps
<1>2. Quiet(<<SetBits(FreeBlocks)>>)
  BY <1>1 DEF Quiet
<1> QED BY <1>2 DEF Working

-----------------------------------------------------------------------------
(* The plan of a write: the bits, the blocks of data, the inode, the map.  *)

LEMMA TouchedFinite ==
  ASSUME NEW off \in Nat, NEW len \in Nat
  PROVE  Cardinality(Touched(off, len)) \in Nat
<1>1. IsFiniteSet(Touched(off, len))
  <2>1. CASE len = 0
    BY <2>1, FS_EmptySet DEF Touched
  <2>2. CASE len # 0
    <3>1. off + len - 1 \in Nat /\ BlockSize \in Nat \ {0}
      BY <2>2, DiskAssumption
    <3>2. off \div BlockSize \in Int /\ (off + len - 1) \div BlockSize \in Int
      BY <3>1, DivBounds
    <3> QED BY <2>2, <3>2, FS_Interval DEF Touched
  <2> QED BY <2>1, <2>2
<1> QED BY <1>1, FS_CardinalityType

LEMMA TouchedOrder ==
  ASSUME NEW off \in Nat, NEW len \in Nat, NEW k \in Touched(off, len)
  PROVE  \E j \in 1 .. Cardinality(Touched(off, len)) : k = (off \div BlockSize) + j - 1
<1>1. len # 0 /\ off + len - 1 \in Nat /\ BlockSize \in Nat \ {0}
  BY DiskAssumption DEF Touched
<1>2. PICK a, b \in Int : a = off \div BlockSize /\ b = (off + len - 1) \div BlockSize
  BY <1>1, DivBounds
<1>3. Touched(off, len) = a .. b
  BY <1>1, <1>2 DEF Touched
<1>4. k \in a .. b
  BY <1>3
<1>5. Cardinality(Touched(off, len)) = b - a + 1
  <2>1. a <= b
    BY <1>4
  <2>2. Cardinality(a .. b) = b - a + 1
    BY <2>1, FS_Interval
  <2> QED BY <1>3, <2>2
<1>6. PICK j : j = k - a + 1
  OBVIOUS
<1>7. j \in 1 .. b - a + 1 /\ k = a + j - 1
  BY <1>4, <1>6
<1> QED BY <1>2, <1>5, <1>7

LEMMA JoinedTwo ==
  ASSUME NEW S, NEW u \in Seq(S), NEW v \in Seq(S), NEW w, w = u \o v
  PROVE  /\ w \in Seq(S) /\ Len(w) = Len(u) + Len(v)
         /\ \A k \in 1 .. Len(u) + Len(v) : w[k] = IF k <= Len(u) THEN u[k] ELSE v[k - Len(u)]
BY ConcatProperties

LEMMA JoinedParts ==
  ASSUME NEW S, NEW A \in Seq(S), NEW D \in Seq(S), NEW P \in S, NEW Z \in Seq(S),
         NEW s, s = A \o D \o <<P>> \o Z, NEW a, a = Len(A), NEW n, n = Len(D), NEW z, z = Len(Z)
  PROVE  /\ a \in Nat /\ n \in Nat /\ z \in Nat
         /\ Len(s) = a + n + 1 + z /\ DOMAIN s = 1 .. a + n + 1 + z
         /\ \A k \in 1 .. a : s[k] = A[k]
         /\ \A k \in a + 1 .. a + n : s[k] = D[k - a]
         /\ s[a + n + 1] = P
         /\ \A k \in 1 .. z : s[a + n + 1 + k] = Z[k]
<1>1. PICK w : w = <<P>>
  OBVIOUS
<1>2. w \in Seq(S) /\ Len(w) = 1 /\ w[1] = P
  BY <1>1
<1>3. a \in Nat /\ n \in Nat /\ z \in Nat
  OBVIOUS
<1>4. PICK u : u = A \o D
  OBVIOUS
<1>5. /\ u \in Seq(S) /\ Len(u) = a + n
      /\ \A k \in 1 .. a + n : u[k] = IF k <= a THEN A[k] ELSE D[k - a]
  BY <1>4, ConcatProperties
<1>6. PICK v : v = u \o w
  OBVIOUS
<1>7. /\ v \in Seq(S) /\ Len(v) = a + n + 1
      /\ \A k \in 1 .. a + n + 1 : v[k] = IF k <= a + n THEN u[k] ELSE w[k - (a + n)]
  <2>1. /\ v \in Seq(S) /\ Len(v) = Len(u) + Len(w)
        /\ \A k \in 1 .. Len(u) + Len(w) : v[k] = IF k <= Len(u) THEN u[k] ELSE w[k - Len(u)]
    <3>1. u \in Seq(S) /\ w \in Seq(S)
      BY <1>2, <1>5
    <3> QED BY <1>6, <3>1, JoinedTwo
  <2>2. Len(u) = a + n /\ Len(w) = 1
    BY <1>2, <1>5
  <2> HIDE <1>2, <1>5, <1>6
  <2> QED BY <2>1, <2>2
<1>8. s = v \o Z
  BY <1>1, <1>4, <1>6
<1>9. /\ s \in Seq(S) /\ Len(s) = a + n + 1 + z
      /\ \A k \in 1 .. a + n + 1 + z : s[k] = IF k <= a + n + 1 THEN v[k] ELSE Z[k - (a + n + 1)]
  <2>1. /\ s \in Seq(S) /\ Len(s) = Len(v) + Len(Z)
        /\ \A k \in 1 .. Len(v) + Len(Z) : s[k] = IF k <= Len(v) THEN v[k] ELSE Z[k - Len(v)]
    <3>1. v \in Seq(S) /\ Z \in Seq(S)
      BY <1>7
    <3>2. PICK x : x = v \o Z
      OBVIOUS
    <3>3. /\ x \in Seq(S) /\ Len(x) = Len(v) + Len(Z)
          /\ \A k \in 1 .. Len(v) + Len(Z) : x[k] = IF k <= Len(v) THEN v[k] ELSE Z[k - Len(v)]
      BY ONLY <3>1, <3>2, JoinedTwo
    <3>4. s = x
      BY <1>8, <3>2
    <3> HIDE <3>2
    <3> QED BY ONLY <3>3, <3>4
  <2>2. Len(v) = a + n + 1 /\ Len(Z) = z
    BY <1>7
  <2> HIDE <1>7, <1>8
  <2> QED BY <2>1, <2>2
<1>10. ASSUME NEW k \in 1 .. a PROVE s[k] = A[k]
  <2>1. k \in 1 .. a + n /\ k \in 1 .. a + n + 1 /\ k \in 1 .. a + n + 1 + z /\ k <= a /\ k <= a + n
        /\ k <= a + n + 1
    BY <1>3
  <2> QED BY <1>5, <1>7, <1>9, <2>1
<1>11. ASSUME NEW k \in a + 1 .. a + n PROVE s[k] = D[k - a]
  <2>1. k \in 1 .. a + n /\ k \in 1 .. a + n + 1 /\ k \in 1 .. a + n + 1 + z /\ ~(k <= a) /\ k <= a + n
        /\ k <= a + n + 1
    BY <1>3
  <2> QED BY <1>5, <1>7, <1>9, <2>1
<1>12. s[a + n + 1] = P
  <2>1. PICK m : m = a + n + 1
    OBVIOUS
  <2>2. m \in 1 .. a + n + 1 /\ m \in 1 .. a + n + 1 + z /\ ~(m <= a + n) /\ m <= a + n + 1
        /\ m - (a + n) = 1
    BY <1>3, <2>1
  <2>3. s[m] = P
    BY <1>2, <1>7, <1>9, <2>2
  <2> QED BY <2>1, <2>3
<1>13. ASSUME NEW k \in 1 .. z PROVE s[a + n + 1 + k] = Z[k]
  <2>1. PICK m : m = a + n + 1 + k
    OBVIOUS
  <2>2. m \in 1 .. a + n + 1 + z /\ ~(m <= a + n + 1) /\ m - (a + n + 1) = k
    BY <1>3, <2>1
  <2>3. s[m] = Z[k]
    BY <1>9, <2>2
  <2> QED BY <2>1, <2>3
<1> QED BY <1>3, <1>9, <1>10, <1>11, <1>12, <1>13

\* What a write puts into the blocks it touches.
DataOnly(f, ext, img, off, len) ==
  \A k \in Touched(off, len) : LET x == ext.ptrs[k] IN img[x] = Data(f) /\ KeepsTree(Put(x, img[x]))

LEMMA DataStep ==
  ASSUME Shaped, NEW f \in Linked, ~IsDir(f), NEW off \in Nat, NEW len \in Nat, NEW new, NEW bits,
         bits \subseteq Blocks \ Used, NEW ext \in InodeBlock, NEW ino \in InodeBlock,
         Planned(f, off, len, new, ext, ino), Grown(f, ino, bits), NEW img, img = Written(f, ext, off, len)
  PROVE  DataOnly(f, ext, img, off, len)
<1> SUFFICES ASSUME NEW k \in Touched(off, len), NEW x, x = ext.ptrs[k]
             PROVE  img[x] = Data(f) /\ KeepsTree(Put(x, img[x]))
  BY DEF DataOnly
<1>1. TypeOK /\ f \in Blocks /\ WellFormed(f) /\ f \in Held(f) /\ Held(f) \subseteq Used
  BY LinkedShape, UsedParts
<1>2. PICK c \in 0 .. NPtrs, e \in Nat : c = BlockCount(f) /\ e = CeilDiv(ino.size) /\ e <= NPtrs
  <2>1. BlockCount(f) \in 0 .. NPtrs
    BY <1>1, InodeFields
  <2>2. ino.size \in Nat /\ ino.size <= NPtrs * BlockSize /\ NPtrs \in Nat /\ NPtrs * BlockSize \in Nat
    BY DiskAssumption DEF InodeBlock
  <2>3. CeilDiv(ino.size) \in Nat /\ ~(NPtrs < CeilDiv(ino.size))
    BY <2>2, CeilDivLess
  <2> QED BY <2>1, <2>2, <2>3
<1>3. k \in 0 .. e - 1 /\ k \in PtrIndex
  <2>1. k \in 0 .. e - 1
    BY <1>2 DEF Planned
  <2> QED BY <1>2, <2>1, DiskAssumption
<1>4. x = ino.ptrs[k]
  BY DEF Planned
<1>5. x \in Blocks /\ x # f /\ (x \notin Used \/ disk[x] = Data(f))
  <2>1. CASE k < c
    <3>1. x = PtrAt(f, k) /\ k \in Indices(f)
      BY <1>2, <1>3, <1>4, <2>1 DEF Planned, Grown, Indices
    <3>2. x \in Blocks /\ x # f
      BY <1>1, <3>1 DEF WellFormed, OwnBlocks
    <3>3. disk[x] = Data(f)
      BY <1>1, <1>2, <1>3, <2>1, <3>1 DEF WellFormed, RightKind
    <3> QED BY <3>2, <3>3
  <2>2. CASE ~(k < c)
    <3>1. k \in c .. e - 1
      BY <1>2, <1>3, <2>2
    <3>2. x \in bits
      BY <1>2, <1>4, <3>1 DEF Planned, Grown
    <3> QED BY <1>1, <3>2
  <2> QED BY <2>1, <2>2
<1>6. img[x] = Data(f)
  <2>1. PICK data : data = {ext.ptrs[j] : j \in Touched(off, len)}
    OBVIOUS
  <2>2. PICK filled : filled = [b \in Blocks |-> IF b \in data THEN Data(f) ELSE disk[b]]
    OBVIOUS
  <2>3. PICK last : img = [filled EXCEPT ![f] = last]
    BY <2>1, <2>2 DEF Written
  <2>4. x \in data
    BY <2>1
  <2> QED BY <1>5, <2>2, <2>3, <2>4
<1> QED BY <1>5, <1>6 DEF KeepsTree, Put

LEMMA PlannedWorks ==
  ASSUME Shaped, Used \subseteq bitmap, NEW f \in Linked, ~IsDir(f), NEW off \in Nat, NEW len \in Nat,
         NEW new, NEW bits, bits = {new[k] : k \in DOMAIN new}, bits \subseteq Blocks \ Used,
         NEW ext \in InodeBlock, NEW ino \in InodeBlock, Planned(f, off, len, new, ext, ino)
  PROVE  Working(WriteSteps(f, Extended(read_inode(f), new), off, len, bits), "write")
<1>5. PICK img : img = Written(f, ext, off, len)
  OBVIOUS
<1>6. PICK T : T = Touched(off, len)
  OBVIOUS
<1>7. PICK n : n = Cardinality(T)
  OBVIOUS
<1>8. PICK D : D = [j \in 1 .. n |-> Put(ext.ptrs[(off \div BlockSize) + j - 1],
                                         img[ext.ptrs[(off \div BlockSize) + j - 1]])]
  OBVIOUS
<1>9. PICK P : P = Put(f, ino)
  OBVIOUS
<1>10. PICK A, Z : /\ A = IF bits = {} THEN <<>> ELSE <<SetBits(bits)>>
                   /\ Z = IF bits = {} THEN <<>> ELSE <<Save>>
  OBVIOUS
<1>11. PICK s : s = WriteSteps(f, Extended(read_inode(f), new), off, len, bits)
  OBVIOUS
<1>12. s = A \o D \o <<P>> \o Z
  <2>1. ino = img[f] /\ ext = Extended(read_inode(f), new)
    BY <1>5 DEF Planned
  <2> QED BY <1>5, <1>6, <1>7, <1>8, <1>9, <1>10, <1>11, <2>1 DEF WriteSteps
<1>13. n \in Nat
  BY <1>6, <1>7, TouchedFinite
<1>14. \A j \in 1 .. n : \E k \in T : D[j] = Put(ext.ptrs[k], img[ext.ptrs[k]])
  <2> SUFFICES ASSUME NEW j \in 1 .. n
               PROVE  \E k \in T : D[j] = Put(ext.ptrs[k], img[ext.ptrs[k]])
    OBVIOUS
  <2>1. PICK k : k = (off \div BlockSize) + j - 1
    OBVIOUS
  <2>2. k \in T
    BY <1>6, <1>7, <2>1, TouchedCount
  <2>3. D[j] = Put(ext.ptrs[k], img[ext.ptrs[k]])
    BY <1>8, <2>1
  <2> QED BY <2>2, <2>3
<1>15. \A k \in T : \E j \in 1 .. n : D[j] = Put(ext.ptrs[k], img[ext.ptrs[k]])
  <2> SUFFICES ASSUME NEW k \in T
               PROVE  \E j \in 1 .. n : D[j] = Put(ext.ptrs[k], img[ext.ptrs[k]])
    OBVIOUS
  <2>1. PICK j \in 1 .. n : k = (off \div BlockSize) + j - 1
    BY <1>6, <1>7, TouchedOrder
  <2>2. D[j] = Put(ext.ptrs[k], img[ext.ptrs[k]])
    BY <1>8, <2>1
  <2> QED BY <2>2
<1>16. PICK a, z : a = Len(A) /\ z = Len(Z)
  OBVIOUS
<1>17. PICK S : S = {SetBits(bits), Save, P} \cup {D[j] : j \in 1 .. n}
  OBVIOUS
<1>18. A \in Seq(S) /\ D \in Seq(S) /\ P \in S /\ Z \in Seq(S) /\ Len(D) = n
  <2>1. \A x \in S : <<x>> \in Seq(S)
    OBVIOUS
  <2>2. <<>> \in Seq(S)
    OBVIOUS
  <2>3. A \in Seq(S) /\ Z \in Seq(S)
    BY <1>10, <1>17, <2>1, <2>2
  <2>4. D \in [1 .. n -> S]
    BY <1>8, <1>17
  <2>5. D \in Seq(S) /\ Len(D) = n
    <3> HIDE <1>8
    <3> QED BY <1>13, <2>4, SeqDef
  <2> QED BY <1>17, <2>3, <2>5
<1>19. /\ Len(s) = a + n + 1 + z /\ DOMAIN s = 1 .. a + n + 1 + z
       /\ \A k \in 1 .. a : s[k] = A[k]
       /\ \A k \in a + 1 .. a + n : s[k] = D[k - a]
       /\ s[a + n + 1] = P /\ a \in Nat /\ z \in Nat
       /\ \A k \in 1 .. z : s[a + n + 1 + k] = Z[k]
  <2> HIDE <1>8, <1>9, <1>10, <1>11, <1>17
  <2>1. A \in Seq(S) /\ D \in Seq(S) /\ P \in S /\ Z \in Seq(S)
    BY <1>18
  <2>2. s = A \o D \o <<P>> \o Z
    BY <1>12
  <2>3. a = Len(A) /\ z = Len(Z) /\ n = Len(D)
    BY <1>16, <1>18
  <2> HIDE <1>12, <1>13, <1>14, <1>15, <1>16, <1>18
  <2> QED BY <2>1, <2>2, <2>3, JoinedParts
<1>20. /\ bits = {} => a = 0 /\ z = 0
       /\ bits # {} => a = 1 /\ z = 1 /\ A[1] = SetBits(bits) /\ Z[1] = Save
  BY <1>10, <1>16
<1> HIDE <1>8, <1>9, <1>10, <1>17
<1>21. PICK c : c = a + n + 1
  OBVIOUS
<1>22. c \in DOMAIN s /\ c - 1 = a + n /\ s[c] = P
  BY <1>13, <1>19, <1>21
<1>23. \A k \in 1 .. c - 1 : s[k] = SetBits(bits) \/ \E j \in 1 .. n : s[k] = D[j]
  <2> SUFFICES ASSUME NEW k \in 1 .. c - 1
               PROVE  s[k] = SetBits(bits) \/ \E j \in 1 .. n : s[k] = D[j]
    OBVIOUS
  <2>1. CASE k \in 1 .. a
    <3>1. a = 1 /\ k = 1 /\ A[1] = SetBits(bits)
      BY <1>20, <2>1
    <3> QED BY <1>19, <2>1, <3>1
  <2>2. CASE k \notin 1 .. a
    <3>1. k \in a + 1 .. a + n /\ k - a \in 1 .. n
      BY <1>13, <1>19, <1>22, <2>2
    <3> QED BY <1>19, <3>1
  <2> QED BY <2>1, <2>2
<1>24. \A k \in T : img[ext.ptrs[k]] = Data(f) /\ KeepsTree(Put(ext.ptrs[k], img[ext.ptrs[k]]))
  <2>1. Grown(f, ino, bits)
    BY DEF Planned
  <2>2. DataOnly(f, ext, img, off, len)
    BY <1>5, <2>1, DataStep
  <2> QED BY <1>6, <2>2 DEF DataOnly
<1>25. ASSUME NEW k \in 1 .. c - 1
       PROVE  /\ KeepsTree(s[k]) /\ s[k].do # "clear"
              /\ s[k].do = "put" => s[k].what = Data(f)
  <2>1. CASE s[k] = SetBits(bits)
    BY <2>1, BuiltSteps
  <2>2. CASE \E j \in 1 .. n : s[k] = D[j]
    <3>1. PICK m \in T : s[k] = Put(ext.ptrs[m], img[ext.ptrs[m]])
      BY <1>14, <2>2
    <3>2. s[k].do = "put" /\ s[k].what = img[ext.ptrs[m]]
      BY <3>1 DEF Put
    <3> QED BY <1>24, <3>1, <3>2
  <2> QED BY <1>23, <2>1, <2>2
<1>26. ASSUME NEW x \in bits PROVE WillBe(s, c, x, Data(f))
  <2>1. PICK k \in T : x = ext.ptrs[k]
    BY <1>6 DEF Planned, Grown
  <2>2. PICK j \in 1 .. n : D[j] = Put(x, img[x])
    BY <1>15, <2>1
  <2>3. PICK m : m = a + j
    OBVIOUS
  <2>4. m \in 1 .. c - 1 /\ m \in a + 1 .. a + n /\ m - a = j
    BY <1>13, <1>19, <1>22, <2>3
  <2>5. s[m] = Put(x, img[x])
    BY <1>19, <2>2, <2>4
  <2>6. s[m].do = "put" /\ s[m].at = x
    BY <2>5 DEF Put
  <2> QED BY <1>25, <2>4, <2>6 DEF WillBe
<1>27. IF bits = {} THEN Len(s) = c
       ELSE Len(s) = c + 1 /\ s[c + 1] = Save /\ WillBeSet(s, c, bits)
  <2>1. CASE bits = {}
    <3>1. a = 0 /\ z = 0
      BY <1>20, <2>1
    <3>2. Len(s) = a + n + 1 + z
      BY <1>19
    <3>3. Len(s) = c
      BY <1>13, <1>21, <3>1, <3>2
    <3> QED BY <2>1, <3>3
  <2>2. CASE bits # {}
    <3>1. Len(s) = c + 1
      BY <1>13, <1>19, <1>20, <1>21, <2>2
    <3>2. s[c + 1] = Save
      BY <1>19, <1>20, <1>21, <2>2
    <3>3. 1 \in 1 .. a /\ 1 \in 1 .. c - 1
      BY <1>13, <1>20, <1>21, <2>2
    <3>4. s[1] = SetBits(bits)
      BY <1>19, <1>20, <2>2, <3>3
    <3>5. WillBeSet(s, c, bits)
      BY <3>3, <3>4 DEF WillBeSet
    <3> QED BY <2>2, <3>1, <3>2, <3>5
  <2> QED BY <2>1, <2>2
<1>28. Grown(f, ino, bits) /\ s[c] = Put(f, ino)
  BY <1>9, <1>22 DEF Planned
<1>29. Grows(s, c, "write")
  BY <1>26, <1>27, <1>28 DEF Grows
<1>30. Pending(s, "write")
  BY <1>22, <1>25, <1>29 DEF Pending
<1> QED BY <1>11, <1>30 DEF Working

LEMMA WriteWorks ==
  ASSUME Shaped, Used \subseteq bitmap, NEW f \in Linked, ~IsDir(f),
         NEW off \in 0 .. MaxSize, NEW len \in 0 .. MaxSize, off + len <= MaxSize,
         off <= read_inode(f).size, NEW need, need = NewBlocksNeeded(read_inode(f), off + len),
         need <= Cardinality(FreeBlocks), NEW new \in Allocations(need),
         NEW bits, bits = {new[k] : k \in DOMAIN new}
  PROVE  Working(WriteSteps(f, Extended(read_inode(f), new), off, len, bits), "write")
<1> off \in Nat /\ len \in Nat
  BY DiskAssumption
<1>1. TypeOK /\ f \in Blocks /\ WellFormed(f)
  BY LinkedShape
<1>2. /\ need \in Nat /\ new \in [0 .. need - 1 -> FreeBlocks]
      /\ \E ext, ino \in InodeBlock : Planned(f, off, len, new, ext, ino)
  BY <1>1, WriteGrows
<1>3. PICK ext, ino \in InodeBlock : Planned(f, off, len, new, ext, ino)
  BY <1>2
<1>4. bits \subseteq Blocks \ Used
  BY <1>2, FreeIsUnused
<1> QED BY <1>3, <1>4, PlannedWorks

-----------------------------------------------------------------------------
(* Beginning a call *)

LEMMA SafeAt ==
  ASSUME NEW t, NEW s, NEW m, s = todo'[t], m = op'[t], Safe(s, m)'
  PROVE  Safe(todo[t], op[t])'
OBVIOUS

LEMMA BeginSafe ==
  ASSUME Shaped, StepsInv, NEW t \in Threads, NEW name, NEW held, NEW steps, NEW code,
         Begin(t, name, held, steps, code), Safe(todo[t], op[t]), Working(steps, name)
  PROVE  Safe(todo[t], op[t])'
<1>1. /\ disk' = disk /\ map_blk' = map_blk /\ bitmap' = bitmap /\ mount' = mount
      /\ todo[t] = <<>> /\ todo'[t] = steps /\ op'[t] = name
  BY DEF Begin, Idle, StepsInv, Plans, CallTypes, vars
<1>2. Safe(<<>>, op[t])
  BY <1>1
<1>3. Shape(Linked) /\ Used \subseteq bitmap /\ Used \subseteq map_blk /\ (WideDir \/ OneBlockDirs)
  BY <1>2, IdleSafe
<1>4. Safe(steps, name)
  BY <1>3 DEF Safe
<1>5. Safe(steps, name)'
  BY <1>1, <1>4, SameSafe
<1> QED BY <1>1, <1>5, SafeAt

LEMMA CallSafe ==
  ASSUME Shaped, StepsInv, NEW t \in Threads, Call(t), Safe(todo[t], op[t])
  PROVE  Safe(todo[t], op[t])'
<1>1. Addressable \subseteq Linked /\ Shape(Linked)
  BY ShapeHoldsLinked DEF Safe
<1>2. ASSUME Idle(t) PROVE Used \subseteq bitmap
  <2>1. Safe(<<>>, op[t])
    BY <1>2 DEF Idle
  <2> QED BY <2>1, IdleSafe
<1>3. ASSUME NEW name, NEW held, NEW steps, NEW code, Begin(t, name, held, steps, code)
      PROVE  Idle(t)
  BY <1>3 DEF Begin
<1>4. ASSUME NEW name, NEW held, NEW steps, NEW code, Begin(t, name, held, steps, code),
             Working(steps, name)
      PROVE  Safe(todo[t], op[t])'
  BY <1>4, BeginSafe
<1>5. ASSUME NEW d \in Linked, NEW n \in Names, begin_create(t, d, n)
      PROVE  Safe(todo[t], op[t])'
  <2>1. PICK i \in FirstFree : /\ IsDir(d) /\ ~HasName(d, n)
                               /\ Begin(t, "create", {d}, CreateSteps(d, n, i), Unless("ENOSPC", d))
    BY <1>5 DEF begin_create
  <2>2. Working(CreateSteps(d, n, i), "create")
    BY <1>2, <1>3, <2>1, CreateWorks
  <2> QED BY <1>4, <2>1, <2>2
<1>6. ASSUME NEW d \in Linked, NEW n \in Names, begin_mkdir(t, d, n)
      PROVE  Safe(todo[t], op[t])'
  <2>1. PICK i \in FirstFree : \E b \in SecondFree(i) :
          /\ IsDir(d) /\ ~HasName(d, n)
          /\ Begin(t, "mkdir", {d}, MkdirSteps(d, n, i, b), Unless("EOPNOTSUPP", d))
    BY <1>6 DEF begin_mkdir
  <2>2. PICK b \in SecondFree(i) :
          /\ IsDir(d) /\ ~HasName(d, n)
          /\ Begin(t, "mkdir", {d}, MkdirSteps(d, n, i, b), Unless("EOPNOTSUPP", d))
    BY <2>1
  <2>3. Working(MkdirSteps(d, n, i, b), "mkdir")
    BY <1>2, <1>3, <2>2, MkdirWorks
  <2> QED BY <1>4, <2>2, <2>3
<1>7. ASSUME NEW d \in Linked, NEW n \in Names, begin_unlink(t, d, n)
      PROVE  Safe(todo[t], op[t])'
  <2>1. PICK p \in FirstMatch(d, n) :
          LET i == EntryAt(d, p).inode IN
          /\ ~IsDir(i)
          /\ Begin(t, "unlink", {d, i}, RemoveSteps(d, p, BlocksOf(read_inode(i)) \cup {i}), "ok")
    BY <1>7 DEF begin_unlink
  <2>2. PICK i, R : /\ i = EntryAt(d, p).inode /\ R = BlocksOf(read_inode(i)) \cup {i}
                    /\ ~IsDir(i) /\ Begin(t, "unlink", {d, i}, RemoveSteps(d, p, R), "ok")
    BY <2>1
  <2>3. IsDir(d) /\ p \in ValidAt(d) /\ R \in SUBSET Held(i)
    BY <2>2, MatchParts DEF Held
  <2>4. Working(RemoveSteps(d, p, R), "unlink")
    BY <1>2, <1>3, <2>2, <2>3, RemoveWorks
  <2> QED BY <1>4, <2>2, <2>4
<1>8. ASSUME NEW d \in Linked, NEW n \in Names, begin_rmdir(t, d, n)
      PROVE  Safe(todo[t], op[t])'
  <2>1. PICK p \in FirstMatch(d, n) :
          LET i == EntryAt(d, p).inode IN
          /\ IsDir(i) /\ SeenEmpty(i)
          /\ Begin(t, "rmdir", {d, i}, RemoveSteps(d, p, {read_inode(i).ptrs[0], i}), "ok")
    BY <1>8 DEF begin_rmdir
  <2>2. PICK i, R : /\ i = EntryAt(d, p).inode /\ R = {read_inode(i).ptrs[0], i}
                    /\ IsDir(i) /\ SeenEmpty(i)
                    /\ Begin(t, "rmdir", {d, i}, RemoveSteps(d, p, R), "ok")
    BY <2>1
  <2>3. IsDir(d) /\ p \in ValidAt(d)
    BY MatchParts
  <2>4. i \in Linked
    BY <1>1, <2>2, <2>3 DEF Shape, EntriesStay
  <2>5. R \in SUBSET Held(i)
    BY <2>2, <2>4, FirstBlockHeld
  <2>6. Working(RemoveSteps(d, p, R), "rmdir")
    BY <1>2, <1>3, <2>2, <2>3, <2>5, RemoveWorks
  <2> QED BY <1>4, <2>2, <2>6
<1>9. ASSUME NEW d \in Linked, NEW n \in Names, NEW m \in Names, begin_rename(t, d, n, m)
      PROVE  Safe(todo[t], op[t])'
  <2>1. PICK p \in FirstMatch(d, n) :
          /\ ~DestinationSeen(d, p, n, m)
          /\ \E q \in SourceEntry(d, p, n) :
               Begin(t, "rename", {d}, <<PutEntry(d, q, NewEntry(EntryAt(d, q).inode, m))>>, "ok")
    BY <1>9 DEF begin_rename, RenameSteps
  <2>2. PICK q \in SourceEntry(d, p, n) :
          Begin(t, "rename", {d}, <<PutEntry(d, q, NewEntry(EntryAt(d, q).inode, m))>>, "ok")
    BY <2>1
  <2>3. Working(<<PutEntry(d, q, NewEntry(EntryAt(d, q).inode, m))>>, "rename")
    BY <1>2, <1>3, <2>1, <2>2, RenameWorks
  <2> QED BY <1>4, <2>2, <2>3
<1>10. ASSUME NEW i \in Linked, begin_setattr(t, i)
       PROVE  Safe(todo[t], op[t])'
  <2>1. Begin(t, "setattr", {i}, <<Put(i, read_inode(i))>>, "ok")
    BY <1>10 DEF begin_setattr
  <2>2. Working(<<Put(i, read_inode(i))>>, "setattr")
    BY <1>2, <1>3, <2>1, SetattrWorks
  <2> QED BY <1>4, <2>1, <2>2
<1>11. ASSUME NEW i \in Linked, begin_truncate(t, i)
       PROVE  Safe(todo[t], op[t])'
  <2>1. /\ ~IsDir(i)
        /\ Begin(t, "truncate", {i}, TruncateSteps(i, BlocksOf(read_inode(i))), "ok")
    BY <1>11 DEF begin_truncate
  <2>2. Working(TruncateSteps(i, BlocksOf(read_inode(i))), "truncate")
    BY <1>2, <1>3, <2>1, TruncateWorks
  <2> QED BY <1>4, <2>1, <2>2
<1>12. ASSUME NEW i \in Linked, NEW off \in 0 .. MaxSize, NEW len \in 0 .. MaxSize,
              off + len <= MaxSize, begin_write(t, i, off, len)
       PROVE  Safe(todo[t], op[t])'
  <2>1. PICK need : need = NewBlocksNeeded(read_inode(i), off + len)
    OBVIOUS
  <2>2. ~IsDir(i) /\ off <= read_inode(i).size
    BY <1>12 DEF begin_write
  <2>3. CASE Begin(t, "write", {i}, <<SetBits(FreeBlocks)>>, "ENOSPC")
    <3>1. Working(<<SetBits(FreeBlocks)>>, "write")
      BY <1>2, <1>3, <2>3, FullWriteWorks
    <3> QED BY <1>4, <2>3, <3>1
  <2>4. CASE /\ need <= Cardinality(FreeBlocks)
             /\ \E new \in Allocations(need) :
                  Begin(t, "write", {i},
                        WriteSteps(i, Extended(read_inode(i), new), off, len,
                                   {new[k] : k \in DOMAIN new}), "ok")
    <3>1. PICK new \in Allocations(need) :
            Begin(t, "write", {i},
                  WriteSteps(i, Extended(read_inode(i), new), off, len,
                             {new[k] : k \in DOMAIN new}), "ok")
      BY <2>4
    <3>2. PICK bits : bits = {new[k] : k \in DOMAIN new}
      OBVIOUS
    <3>3. Begin(t, "write", {i}, WriteSteps(i, Extended(read_inode(i), new), off, len, bits), "ok")
      BY <3>1, <3>2
    <3>4. Working(WriteSteps(i, Extended(read_inode(i), new), off, len, bits), "write")
      BY <1>2, <1>3, <1>12, <2>1, <2>2, <2>4, <3>2, <3>3, WriteWorks
    <3> QED BY <1>4, <3>3, <3>4
  <2> QED BY <1>12, <2>1, <2>3, <2>4 DEF begin_write
<1> QED
  BY <1>1, <1>5, <1>6, <1>7, <1>8, <1>9, <1>10, <1>11, <1>12 DEF Call

-----------------------------------------------------------------------------
(* The steps of a call, and the faults *)

LEMMA SafeShaped ==
  ASSUME NEW t, StepsInv, Safe(todo[t], op[t])
  PROVE  Shaped
BY DEF StepsInv, Safe, Shaped, Shape, Rooted

\* A call that is over, or cut short, leaves nothing behind.
LEMMA SettledSafe ==
  ASSUME Shaped, WideDir \/ OneBlockDirs, disk' = disk, Used \subseteq bitmap', Used \subseteq map_blk',
         NEW t, todo'[t] = <<>>
  PROVE  Safe(todo[t], op[t])'
<1>1. TreeSteps /\ Used' = Used
  BY TreeStays
<1>2. Shape(Linked)' /\ (WideDir \/ OneBlockDirs')
  BY <1>1 DEF TreeSteps
<1>3. PICK U, m : U = {} /\ m = op'[t]
  OBVIOUS
<1>4. PICK rest : rest = IF U = {} THEN <<>> ELSE <<ClearBits(U), Save>>
  OBVIOUS
<1>5. rest = <<>>
  BY <1>3, <1>4
<1>6. U \cap Used' = {} /\ Used' \subseteq bitmap' /\ Used' \subseteq map_blk'
  BY <1>1, <1>3
<1>7. Safe(rest, m)'
  BY <1>2, <1>4, <1>6, FailedSafe
<1> QED BY <1>3, <1>5, <1>7, SafeAt

LEMMA ContinueParts ==
  ASSUME StepsInv, NEW t \in Threads, NEW rest, NEW code, Continue(t, rest, code)
  PROVE  todo'[t] = rest /\ (rest # <<>> => op'[t] = op[t])
BY DEF Continue, StepsInv, Plans, CallTypes

LEMMA ReadyPlan ==
  ASSUME StepsInv, NEW t \in Threads, NEW whats, Ready(t, whats)
  PROVE  /\ todo[t] \in Seq(PlanStep) /\ todo[t] # <<>> /\ Head(todo[t]) = todo[t][1]
         /\ todo[t][1] \in PlanStep /\ todo[t][1].do \in whats
<1>1. todo[t] \in Seq(PlanStep) /\ todo[t] # <<>> /\ Head(todo[t]).do \in whats
  BY DEF StepsInv, Plans, Ready
<1> QED BY <1>1, PlanParts

\* A step of the plan is taken.
LEMMA GoesSafe ==
  ASSUME StepsInv, TypeOK', NEW t \in Threads, NEW whats, Ready(t, whats), Goes(t), Does(todo[t][1]),
         Safe(todo[t], op[t])
  PROVE  TreeSteps /\ Safe(todo[t], op[t])'
<1>1. Shaped
  BY SafeShaped
<1>2. PICK s, r, m : s = todo[t] /\ r = Tail(s) /\ m = op'[t]
  OBVIOUS
<1>3. s \in Seq(PlanStep) /\ s # <<>> /\ Does(s[1]) /\ Safe(s, op[t])
  BY <1>2, ReadyPlan
<1>4. todo'[t] = r /\ (r # <<>> => m = op[t])
  BY <1>2, ContinueParts DEF Goes
<1>5. TreeSteps /\ Safe(r, m)'
  BY <1>1, <1>2, <1>3, <1>4, StepSafe
<1> QED BY <1>2, <1>4, <1>5, SafeAt

LEMMA StoreDoes ==
  ASSUME NEW t \in Threads, SafeInv(t), Store(t)
  PROVE  Does(todo[t][1])
<1>1. PICK h : h = todo[t][1]
  OBVIOUS
<1>2. Head(todo[t]) = h /\ h \in PlanStep /\ h.do \in {"set", "clear"}
  BY <1>1, ReadyPlan DEF Store, SafeInv
<1>3. h.bits \in SUBSET Blocks
  BY <1>2, StepParts
<1>4. loaded[t] = <<bitmap>> /\ mount = "ok"
  BY DEF Store, SafeInv
<1>5. PICK bytes : bytes = SameBytes(h.bits)
  OBVIOUS
<1>6. bitmap' = (bitmap \ bytes) \cup (Changed(h, bitmap) \cap bytes)
  BY <1>2, <1>4, <1>5 DEF Store
<1>7. h.bits \subseteq bytes
  BY <1>3, <1>5, DiskAssumption DEF SameBytes
<1>8. bitmap' = Changed(h, bitmap)
  BY <1>6, <1>7 DEF Changed
<1> QED BY <1>1, <1>2, <1>4, <1>8 DEF Does, Store

LEMMA PutDoes ==
  ASSUME NEW t \in Threads, SafeInv(t), PutBlock(t)
  PROVE  Does(todo[t][1])
<1>1. Head(todo[t]) = todo[t][1] /\ todo[t][1].do = "put"
  BY ReadyPlan DEF PutBlock, SafeInv
<1> QED BY <1>1 DEF Does, PutBlock

LEMMA SaveDoes ==
  ASSUME NEW t \in Threads, SafeInv(t), SaveBitmap(t)
  PROVE  Does(todo[t][1])
<1>1. Head(todo[t]) = todo[t][1] /\ todo[t][1].do = "save"
  BY ReadyPlan DEF SaveBitmap, SafeInv
<1> QED BY <1>1 DEF Does, SaveBitmap

\* A block_write that fails where the code has an answer to it.
LEMMA PutFailsSafe ==
  ASSUME NEW t \in Threads, SafeInv(t), ~risk, ~risk', TypeOK', PutFails(t)
  PROVE  TreeSteps /\ Safe(todo[t], op[t])'
<1>1. PICK s, h, name, m : s = todo[t] /\ h = s[1] /\ name = op[t] /\ m = op'[t]
  OBVIOUS
<1>2. StepsInv /\ Safe(s, name) /\ Shaped
  BY <1>1, SafeShaped DEF SafeInv
<1>3. s \in Seq(PlanStep) /\ s # <<>> /\ Head(todo[t]) = h /\ h \in PlanStep /\ h.do = "put"
  BY <1>1, <1>2, ReadyPlan DEF PutFails
<1>4. PICK rest : rest = IF h.undo = {} THEN <<>> ELSE <<ClearBits(h.undo), Save>>
  OBVIOUS
<1>5. PICK done \in BOOLEAN :
        /\ disk' = IF done THEN [disk EXCEPT ![h.at] = h.what] ELSE disk
        /\ risk' = (risk \/ UnansweredPut(t, done))
        /\ Continue(t, rest, "EIO")
  BY <1>3, <1>4 DEF PutFails
<1>6. bitmap' = bitmap /\ map_blk' = map_blk /\ mount' = mount /\ ~UnansweredPut(t, done)
  BY <1>5 DEF PutFails
<1>7. todo'[t] = rest
  BY <1>2, <1>5, ContinueParts
<1>8. CASE done
  <2>1. disk' = [disk EXCEPT ![h.at] = h.what]
    BY <1>5, <1>8
  <2>2. ~(name = "write" /\ Len(s) = 2 /\ s[2] = Save)
    BY <1>1, <1>6, <1>8 DEF UnansweredPut
  <2>3. TreeSteps
    BY <1>1, <1>2, <1>3, <1>6, <2>1, PutHeadSafe
  <2>4. Safe(rest, m)'
    BY <1>1, <1>2, <1>3, <1>4, <1>6, <2>1, <2>2, WrittenPutFails
  <2> QED BY <1>1, <1>7, <2>3, <2>4, SafeAt
<1>9. CASE ~done
  <2>1. disk' = disk
    BY <1>5, <1>9
  <2>2. ~(name = "truncate" /\ BlocksOf(read_inode(h.at)) # {})
    BY <1>1, <1>3, <1>6, <1>9 DEF UnansweredPut
  <2>3. TreeSteps
    BY <1>2, <2>1, TreeStays
  <2>4. Safe(rest, m)'
    BY <1>1, <1>2, <1>3, <1>4, <1>6, <2>1, <2>2, UnwrittenPutFails
  <2> QED BY <1>1, <1>7, <2>3, <2>4, SafeAt
<1> QED BY <1>8, <1>9

\* A plan whose next step is to save the bitmap has not touched what it gives back,
\* and only a write still has the tree ahead of the map.
LEMMA BeforeSaving ==
  ASSUME NEW s, NEW name, Safe(s, name), s # <<>>, s[1].do = "save", ~Late(s, name)
  PROVE  Used \subseteq bitmap /\ Used \subseteq map_blk
<1>1. ~Truncating(s, name)
  <2> SUFFICES ASSUME Truncating(s, name) PROVE FALSE
    OBVIOUS
  <2>1. PICK f \in Linked : \E B, e :
          /\ B = BlocksOf(read_inode(f)) /\ e = Put(f, Emptied(read_inode(f))) /\ ~IsDir(f)
          /\ \/ s = <<ClearBits(B), e, Save>> /\ Used \subseteq bitmap
             \/ s = <<e, Save>> /\ Used \subseteq bitmap \cup B
    BY TruncatePlaces
  <2>2. PICK B, e :
          /\ B = BlocksOf(read_inode(f)) /\ e = Put(f, Emptied(read_inode(f))) /\ ~IsDir(f)
          /\ \/ s = <<ClearBits(B), e, Save>> /\ Used \subseteq bitmap
             \/ s = <<e, Save>> /\ Used \subseteq bitmap \cup B
    BY <2>1
  <2>3. s[1] = ClearBits(B) \/ s[1] = e
    BY <2>2
  <2> QED BY <2>2, <2>3 DEF ClearBits, Put
<1> QED BY <1>1 DEF Safe, Working

LEMMA LateIsWindow ==
  ASSUME NEW t, Late(todo[t], op[t])
  PROVE  Window(t)
<1>1. PICK s : s = todo[t]
  OBVIOUS
<1>2. s = <<Save>> /\ op[t] = "write"
  BY <1>1 DEF Late
<1>3. s # <<>> /\ Head(s) = Save
  BY <1>2
<1> QED BY <1>1, <1>2, <1>3 DEF Window, Ready, Save

LEMMA SaveFailsSafe ==
  ASSUME NEW t \in Threads, SafeInv(t), ~risk, ~risk', SaveFails(t) \/ SaveNothing(t)
  PROVE  TreeSteps /\ Safe(todo[t], op[t])'
<1>1. StepsInv /\ Safe(todo[t], op[t]) /\ Shaped
  BY SafeShaped DEF SafeInv
<1>2. disk' = disk /\ bitmap' = bitmap /\ todo'[t] = <<>>
  <2>1. PICK rest : rest = <<>>
    OBVIOUS
  <2>2. Continue(t, rest, "EIO")
    BY <2>1 DEF SaveFails, SaveNothing
  <2> QED BY <1>1, <2>1, <2>2, ContinueParts DEF SaveFails, SaveNothing
<1>3. ~Late(todo[t], op[t])
  BY LateIsWindow DEF SaveFails, SaveNothing, Late
<1>4. todo[t] # <<>> /\ todo[t][1].do = "save"
  BY <1>1, ReadyPlan DEF SaveFails, SaveNothing
<1>5. Used \subseteq bitmap /\ Used \subseteq map_blk
  BY <1>1, <1>3, <1>4, BeforeSaving
<1>6. Used \subseteq map_blk'
  <2>1. CASE SaveNothing(t)
    BY <1>5, <2>1 DEF SaveNothing
  <2>2. CASE SaveFails(t)
    <3>1. PICK k \in 0 .. DiskSize :
            map_blk' = {b \in bitmap : b \div 8 < k} \cup {b \in map_blk : b \div 8 >= k}
      BY <2>2 DEF SaveFails
    <3>2. Used \subseteq Blocks
      BY <1>1, UsedParts
    <3>3. ASSUME NEW x \in Used PROVE x \in map_blk'
      <4>1. x \in Nat /\ x \div 8 \in Int /\ k \in Int
        BY <3>2, <3>3, DiskAssumption
      <4>2. x \div 8 < k \/ x \div 8 >= k
        BY <4>1
      <4> QED BY <1>5, <3>1, <3>3, <4>2
    <3> QED BY <3>3
  <2> QED BY <2>1, <2>2
<1>7. TreeSteps
  BY <1>1, <1>2, TreeStays
<1>8. Safe(todo[t], op[t])'
  BY <1>1, <1>2, <1>5, <1>6, SettledSafe DEF Safe
<1> QED BY <1>7, <1>8

LEMMA StopSafe ==
  ASSUME NEW t \in Threads, SafeInv(t), ~risk, ~risk', Stop
  PROVE  TreeSteps /\ Safe(todo[t], op[t])'
<1>1. StepsInv /\ Safe(todo[t], op[t]) /\ Shaped
  BY SafeShaped DEF SafeInv
<1>2. disk' = disk /\ bitmap' = map_blk /\ map_blk' = map_blk /\ todo'[t] = <<>>
  BY DEF Stop
<1>3. ~Late(todo[t], op[t])
  BY LateIsWindow DEF Stop
<1>4. Used \subseteq bitmap' /\ Used \subseteq map_blk'
  BY <1>1, <1>2, <1>3 DEF Safe
<1>5. TreeSteps
  BY <1>1, <1>2, TreeStays
<1>6. Safe(todo[t], op[t])'
  BY <1>1, <1>2, <1>4, SettledSafe DEF Safe
<1> QED BY <1>5, <1>6

LEMMA MountSafe ==
  ASSUME NEW t \in Threads, SafeInv(t), ~risk, Mount \/ MountFails
  PROVE  TreeSteps /\ Safe(todo[t], op[t])'
<1>1. StepsInv /\ Safe(todo[t], op[t]) /\ Shaped
  BY SafeShaped DEF SafeInv
<1>2. todo[t] = <<>> /\ todo' = todo /\ disk' = disk /\ map_blk' = map_blk
  BY DEF SafeInv, Mount, MountFails
<1>3. Safe(<<>>, op[t])
  BY <1>1, <1>2
<1>4. Used \subseteq map_blk /\ (WideDir \/ OneBlockDirs)
  BY <1>3, IdleSafe
<1>5. Used \subseteq bitmap'
  <2>1. CASE Mount
    BY <1>4, <2>1 DEF Mount
  <2>2. CASE MountFails
    <3>1. Used \subseteq Blocks /\ bitmap' = 0 .. DiskSize - 1
      BY <1>1, <2>2, UsedParts DEF MountFails
    <3> QED BY <3>1, DiskAssumption
  <2> QED BY <2>1, <2>2
<1>6. TreeSteps
  BY <1>1, <1>2, TreeStays
<1>7. Used \subseteq map_blk' /\ todo'[t] = <<>>
  BY <1>2, <1>4
<1>8. Safe(todo[t], op[t])'
  BY <1>1, <1>2, <1>4, <1>5, <1>7, SettledSafe
<1> QED BY <1>6, <1>8

\* What leaves disk, maps and plan alone leaves everything as it was.
LEMMA RestingSafe ==
  ASSUME NEW t \in Threads, SafeInv(t), ~risk, disk' = disk, map_blk' = map_blk, bitmap' = bitmap,
         mount' = mount, todo' = todo, op' = op
  PROVE  TreeSteps /\ Safe(todo[t], op[t])'
<1>1. StepsInv /\ Safe(todo[t], op[t]) /\ Shaped
  BY SafeShaped DEF SafeInv
<1>2. PICK s, m : s = todo[t] /\ m = op[t]
  OBVIOUS
<1>3. Safe(s, m)'
  BY <1>1, <1>2, SameSafe
<1>4. TreeSteps
  BY <1>1, TreeStays
<1> QED BY <1>2, <1>3, <1>4, SafeAt

\* Beginning a call changes its plan alone.
OnlyPlans ==
  /\ mount # "down" /\ mount' = mount /\ risk' = risk /\ loaded' = loaded
  /\ disk' = disk /\ map_blk' = map_blk /\ bitmap' = bitmap

LEMMA CallParts == ASSUME NEW t, Call(t) PROVE OnlyPlans
<1>1. ASSUME NEW name, NEW held, NEW steps, NEW code, Begin(t, name, held, steps, code)
      PROVE  OnlyPlans
  BY <1>1 DEF Begin, OnlyPlans, vars
<1>2. ASSUME NEW d, NEW n, begin_create(t, d, n) \/ begin_mkdir(t, d, n) PROVE OnlyPlans
  BY <1>1, <1>2 DEF begin_create, begin_mkdir
<1>3. ASSUME NEW d, NEW n, begin_unlink(t, d, n) \/ begin_rmdir(t, d, n) PROVE OnlyPlans
  BY <1>1, <1>3 DEF begin_unlink, begin_rmdir
<1>4. ASSUME NEW d, NEW n, NEW m, begin_rename(t, d, n, m) PROVE OnlyPlans
  BY <1>1, <1>4 DEF begin_rename
<1>5. ASSUME NEW i, begin_setattr(t, i) \/ begin_truncate(t, i) PROVE OnlyPlans
  BY <1>1, <1>5 DEF begin_setattr, begin_truncate
<1>6. ASSUME NEW i, NEW off, NEW len, begin_write(t, i, off, len) PROVE OnlyPlans
  BY <1>1, <1>6 DEF begin_write
<1> QED BY <1>2, <1>3, <1>4, <1>5, <1>6 DEF Call

LEMMA RiskStays == ASSUME StepsNext PROVE risk => risk'
<1> SUFFICES ASSUME risk PROVE risk'
  OBVIOUS
<1>1. ASSUME NEW t, Call(t) PROVE risk'
  BY <1>1, CallParts DEF OnlyPlans
<1>2. ASSUME NEW t, Refused(t) \/ Load(t) \/ Store(t) \/ PutBlock(t) \/ SaveBitmap(t) \/ SaveNothing(t)
      PROVE  risk'
  BY <1>2 DEF Refused, Load, Store, PutBlock, SaveBitmap, SaveNothing
<1>3. ASSUME NEW t, PutFails(t) PROVE risk'
  <2>1. PICK done \in BOOLEAN : risk' = (risk \/ UnansweredPut(t, done))
    BY <1>3 DEF PutFails
  <2> QED BY <2>1
<1>4. ASSUME NEW t, SaveFails(t) PROVE risk'
  BY <1>4 DEF SaveFails
<1>5. Stop \/ Mount \/ MountFails => risk'
  BY DEF Stop, Mount, MountFails
<1> QED BY <1>1, <1>2, <1>3, <1>4, <1>5 DEF StepsNext

\* The only thread takes a step.
LEMMA StepsSafely ==
  ASSUME NEW t, Threads = {t}, SafeInv(t), StepsNext, ~risk'
  PROVE  ~risk /\ TreeSteps /\ Safe(todo[t], op[t])'
<1>1. t \in Threads /\ StepsInv
  BY DEF SafeInv
<1>2. TypeOK'
  BY <1>1, StepsNextType DEF StepsInv
<1>3. ~risk
  BY RiskStays
<1>4. Safe(todo[t], op[t]) /\ Shaped
  BY <1>1, <1>3, SafeShaped DEF SafeInv
<1>5. ASSUME Refused(t) \/ Load(t) PROVE TreeSteps /\ Safe(todo[t], op[t])'
  <2>1. /\ disk' = disk /\ map_blk' = map_blk /\ bitmap' = bitmap
        /\ mount' = mount /\ todo' = todo /\ op' = op
    BY <1>5 DEF Refused, Load, vars
  <2> QED BY <1>1, <1>3, <2>1, RestingSafe
<1>6. ASSUME Call(t) PROVE TreeSteps /\ Safe(todo[t], op[t])'
  <2>1. disk' = disk
    BY <1>6, CallParts DEF OnlyPlans
  <2>2. TreeSteps
    BY <1>4, <2>1, TreeStays
  <2>3. Safe(todo[t], op[t])'
    BY <1>1, <1>4, <1>6, CallSafe
  <2> QED BY <2>2, <2>3
<1>7. ASSUME NEW whats, Ready(t, whats), Goes(t), Does(todo[t][1])
      PROVE  TreeSteps /\ Safe(todo[t], op[t])'
  BY <1>1, <1>2, <1>4, <1>7, GoesSafe
<1>8. ASSUME Store(t) PROVE TreeSteps /\ Safe(todo[t], op[t])'
  BY <1>1, <1>7, <1>8, StoreDoes DEF Store
<1>9. ASSUME PutBlock(t) PROVE TreeSteps /\ Safe(todo[t], op[t])'
  BY <1>1, <1>7, <1>9, PutDoes DEF PutBlock
<1>10. ASSUME SaveBitmap(t) PROVE TreeSteps /\ Safe(todo[t], op[t])'
  BY <1>1, <1>7, <1>10, SaveDoes DEF SaveBitmap
<1>11. ASSUME PutFails(t) PROVE TreeSteps /\ Safe(todo[t], op[t])'
  BY <1>1, <1>2, <1>3, <1>11, PutFailsSafe
<1>12. ASSUME SaveFails(t) \/ SaveNothing(t) PROVE TreeSteps /\ Safe(todo[t], op[t])'
  BY <1>1, <1>3, <1>12, SaveFailsSafe
<1>13. ASSUME Stop PROVE TreeSteps /\ Safe(todo[t], op[t])'
  BY <1>1, <1>3, <1>13, StopSafe
<1>14. ASSUME Mount \/ MountFails PROVE TreeSteps /\ Safe(todo[t], op[t])'
  BY <1>1, <1>3, <1>14, MountSafe
<1>15. \/ Refused(t) \/ Call(t) \/ Load(t) \/ Store(t) \/ PutBlock(t) \/ SaveBitmap(t)
       \/ PutFails(t) \/ SaveFails(t) \/ SaveNothing(t) \/ Stop \/ Mount \/ MountFails
  BY DEF StepsNext
<1> QED
  BY <1>3, <1>5, <1>6, <1>8, <1>9, <1>10, <1>11, <1>12, <1>13, <1>14, <1>15

LEMMA TreeSeenNext ==
  ASSUME TreeIsSeen, StepsNext
  PROVE  TreeIsSeen'
<1>1. TreeIsSeen' <=> tree' = [i \in Linked' |-> NodeOf(i)']
  BY DEF TreeIsSeen
<1>2. CASE disk' = disk
  <2>1. Linked' = Linked /\ \A i : NodeOf(i)' = NodeOf(i)
    BY <1>2, SameTree
  <2> QED BY <1>1, <1>2, <2>1 DEF TreeIsSeen, StepsNext
<1>3. CASE disk' # disk
  BY <1>1, <1>3 DEF StepsNext
<1> QED BY <1>2, <1>3

LEMMA SafeNext ==
  ASSUME NEW t, Threads = {t}, SafeInv(t), [StepsNext]_vars_steps
  PROVE  SafeInv(t)'
<1>1. t \in Threads /\ StepsInv /\ StepsInv'
  BY StepsNextType DEF SafeInv
<1>2. CASE UNCHANGED vars_steps
  <2>1. /\ disk' = disk /\ map_blk' = map_blk /\ bitmap' = bitmap /\ tree' = tree /\ risk' = risk
        /\ mount' = mount /\ todo' = todo /\ op' = op /\ loaded' = loaded
    BY <1>2 DEF vars_steps, vars
  <2>2. TreeIsSeen'
    <3>1. TreeIsSeen' <=> tree' = [i \in Linked' |-> NodeOf(i)']
      BY DEF TreeIsSeen
    <3>2. Linked' = Linked /\ \A i : NodeOf(i)' = NodeOf(i)
      BY <2>1, SameTree
    <3> QED BY <2>1, <3>1, <3>2 DEF TreeIsSeen, SafeInv
  <2>3. ~risk' => Safe(todo[t], op[t])'
    BY <1>1, <2>1, RestingSafe
  <2> QED BY <1>1, <2>1, <2>2, <2>3 DEF SafeInv
<1>3. CASE StepsNext
  <2>1. TreeIsSeen'
    BY <1>3, TreeSeenNext DEF SafeInv
  <2>2. ~risk' => Safe(todo[t], op[t])'
    BY <1>3, StepsSafely
  <2>3. /\ mount' = "down" => todo'[t] = <<>>
        /\ loaded'[t] = <<>> \/ (loaded'[t] = <<bitmap'>> /\ mount' = "ok")
    <3>1. CASE Call(t)
      <4>1. mount # "down" /\ mount' = mount /\ loaded' = loaded /\ bitmap' = bitmap
        BY <3>1, CallParts DEF OnlyPlans
      <4> QED BY <4>1 DEF SafeInv
    <3>2. CASE Refused(t)
      BY <3>2 DEF Refused, SafeInv
    <3>3. CASE Load(t)
      BY <1>1, <3>3 DEF Load, SafeInv, StepsInv, CallTypes, vars
    <3>4. CASE Store(t)
      BY <1>1, <3>4 DEF Store, SafeInv, StepsInv, CallTypes
    <3>5. CASE PutBlock(t) \/ SaveBitmap(t) \/ PutFails(t) \/ SaveFails(t) \/ SaveNothing(t)
      <4>1. mount # "down" /\ mount' = mount /\ loaded' = loaded /\ bitmap' = bitmap
        BY <3>5 DEF PutBlock, SaveBitmap, PutFails, SaveFails, SaveNothing, Ready, SafeInv
      <4> QED BY <4>1 DEF SafeInv
    <3>6. CASE Stop
      BY <1>1, <3>6 DEF Stop
    <3>7. CASE Mount \/ MountFails
      BY <3>7 DEF Mount, MountFails, SafeInv
    <3> QED BY <1>3, <3>1, <3>2, <3>3, <3>4, <3>5, <3>6, <3>7 DEF StepsNext
  <2> QED BY <1>1, <2>1, <2>2, <2>3 DEF SafeInv
<1> QED BY <1>2, <1>3

-----------------------------------------------------------------------------
(* The theorems *)

LEMMA SafeInit ==
  ASSUME NEW t, Threads = {t}, StepsInit
  PROVE  SafeInv(t)
<1>1. StepsInv /\ Integrity /\ t \in Threads
  BY StepsInitType, InitIntegrity DEF StepsInit, TreeInit
<1>2. Shaped /\ SavedBitsAreSet /\ Used \subseteq map_blk
  BY <1>1, IntegrityShaped, MarkedOnDisk DEF Integrity, ReferencedIsMarkedOnDisk
<1>3. Shape(Linked)
  BY <1>2, LinkedIsShape DEF Shaped
<1>4. WideDir \/ OneBlockDirs
  BY InitOneBlock DEF StepsInit, TreeInit
<1>5. Used \subseteq bitmap
  BY <1>2 DEF SavedBitsAreSet
<1>6. Safe(<<>>, op[t])
  BY <1>2, <1>3, <1>4, <1>5, IdleSafe
<1>7. todo[t] = <<>> /\ loaded[t] = <<>>
  BY <1>1 DEF StepsInit
<1>8. TreeIsSeen
  BY DEF StepsInit, TreeInit, TreeIsSeen
<1> QED BY <1>1, <1>6, <1>7, <1>8 DEF SafeInv

LEMMA SafeAlways ==
  ASSUME NEW t, Threads = {t}
  PROVE  StepsSpec => []SafeInv(t)
<1>1. StepsInit => SafeInv(t)
  BY SafeInit
<1>2. SafeInv(t) /\ [StepsNext]_vars_steps => SafeInv(t)'
  BY SafeNext
<1> QED BY <1>1, <1>2, PTL DEF StepsSpec

LEMMA SeenUsed ==
  ASSUME TreeIsSeen
  PROVE  UsedNow = Used
BY DEF TreeIsSeen, UsedNow, Used

\* Whenever the process stops, the bitmap on disk (block_write of block 1) marks every
\* block of the tree, unless it stops where fs_write has yet to save it.
THEOREM StopsAreSafe ==
  ASSUME NEW t, Threads = {t}
  PROVE  StepsSpec => []StopIsSafe
<1>1. SafeInv(t) => StopIsSafe
  <2> SUFFICES ASSUME SafeInv(t), ~risk, \A u \in Threads : ~Window(u) PROVE UsedNow \subseteq map_blk
    BY DEF StopIsSafe
  <2>1. Safe(todo[t], op[t]) /\ ~Late(todo[t], op[t])
    BY LateIsWindow DEF SafeInv
  <2> QED BY <2>1, SeenUsed DEF Safe, SafeInv
<1> QED BY <1>1, SafeAlways, PTL

\* Between calls find_free_block offers no block of the tree, whatever calls have failed
\* half way and undone their bits, and however often fs_init has read the bitmap again.
THEOREM UsedIsNeverOffered ==
  ASSUME NEW t, Threads = {t}
  PROVE  StepsSpec => []NothingUsedIsOffered
<1>1. SafeInv(t) => NothingUsedIsOffered
  <2> SUFFICES ASSUME SafeInv(t), ~risk, AllIdle PROVE UsedNow \subseteq bitmap
    BY DEF NothingUsedIsOffered
  <2>1. todo[t] = <<>> /\ Safe(todo[t], op[t])
    BY DEF SafeInv, AllIdle, Idle
  <2>2. Safe(<<>>, op[t])
    BY <2>1
  <2> QED BY <2>2, IdleSafe, SeenUsed DEF SafeInv
<1> QED BY <1>1, SafeAlways, PTL

\* After each block_write of each call, and after each stop and each write that failed,
\* no block has two owners, every inode has one entry, and every block its kind.
THEOREM SoundAtEveryStep ==
  ASSUME NEW t, Threads = {t}
  PROVE  StepsSpec => []SoundThroughout
<1>1. SafeInv(t) => SoundThroughout
  <2> SUFFICES ASSUME SafeInv(t), ~risk
               PROVE  NoSharedBlocks /\ SingleLink /\ BlocksHoldTheirKind
    BY DEF SoundThroughout
  <2>1. Shaped
    BY SafeShaped DEF SafeInv
  <2> QED BY <2>1, OneOwner, OneLink, RightKinds
<1> QED BY <1>1, SafeAlways, PTL

-----------------------------------------------------------------------------
(* A call changes the tree once: after its change no step that is left     *)
(* changes the tree.                                                       *)

MovedInv(t) == t \in moved => todo[t] # <<>> /\ (~risk => Quiet(todo[t]))

\* The step of a plan that changes the tree, and what is left behind it.
LEMMA ChangeIsLast ==
  ASSUME Shaped, TypeOK', TreeIsSeen, TreeIsSeen', tree' # tree,
         NEW s \in Seq(PlanStep), s # <<>>, NEW h, h = s[1], h.do = "put",
         disk' = [disk EXCEPT ![h.at] = h.what], NEW name, Safe(s, name)
  PROVE  ~Quiet(s) /\ h.undo = {} /\ Quiet(Tail(s))'
<1>1. h \in PlanStep /\ 1 \in DOMAIN s /\ Len(s) \in Nat
  BY PlanParts
<1>2. ~KeepsTree(h)
  <2>1. SUFFICES ASSUME KeepsTree(h) PROVE FALSE
    OBVIOUS
  <2>2. \A x \in Used : disk'[x] = disk[x]
    BY <2>1, UsedParts DEF KeepsTree, Shaped, TypeOK
  <2> QED BY <2>2, TreeStays
<1>3. ~Quiet(s)
  BY <1>1, <1>2 DEF Quiet
<1>4. ~ \E c \in 2 .. Len(s) : \A k \in 1 .. c - 1 : KeepsTree(s[k]) /\ s[k].do # "clear"
  <2>1. \A c \in 2 .. Len(s) : 1 \in 1 .. c - 1
    BY <1>1
  <2> QED BY <1>2, <2>1
<1>5. ~Late(s, name) /\ Working(s, name) /\ Used \subseteq map_blk
  BY NotLate DEF Safe
<1>6. CASE /\ Used \subseteq bitmap
           /\ Adds(s, 1) \/ Removes(s, 1) \/ Renames(s, 1) \/ Grows(s, 1, name)
  <2>1. h.undo = {} /\ Committed(Tail(s), name)
    BY <1>5, <1>6, Commits
  <2> QED BY <1>3, <2>1, LastQuietNext DEF Committed
<1>7. CASE Truncating(s, name)
  <2>1. PICK f \in Linked : \E B, e :
          /\ B = BlocksOf(read_inode(f)) /\ e = Put(f, Emptied(read_inode(f))) /\ ~IsDir(f)
          /\ \/ s = <<ClearBits(B), e, Save>> /\ Used \subseteq bitmap
             \/ s = <<e, Save>> /\ Used \subseteq bitmap \cup B
    BY <1>7, TruncatePlaces
  <2>2. PICK B, e :
          /\ e = Put(f, Emptied(read_inode(f)))
          /\ s = <<ClearBits(B), e, Save>> \/ s = <<e, Save>>
    BY <2>1
  <2>3. ClearBits(B).do # "put" /\ e.undo = {}
    BY <2>2 DEF ClearBits, Put
  <2>4. s = <<e, Save>> /\ h = e
    BY <2>2, <2>3
  <2>5. Tail(s) = <<Save>>
    BY <2>4
  <2> QED BY <1>3, <2>3, <2>4, <2>5, LastQuietNext
<1> QED BY <1>3, <1>4, <1>5, <1>6, <1>7, WhereItStands

LEMMA CallIsIdle == ASSUME NEW t, Call(t) PROVE Idle(t)
<1>1. ASSUME NEW name, NEW held, NEW steps, NEW code, Begin(t, name, held, steps, code)
      PROVE  Idle(t)
  BY <1>1 DEF Begin
<1>2. ASSUME NEW d, NEW n, begin_create(t, d, n) \/ begin_mkdir(t, d, n) PROVE Idle(t)
  BY <1>1, <1>2 DEF begin_create, begin_mkdir
<1>3. ASSUME NEW d, NEW n, begin_unlink(t, d, n) \/ begin_rmdir(t, d, n) PROVE Idle(t)
  BY <1>1, <1>3 DEF begin_unlink, begin_rmdir
<1>4. ASSUME NEW d, NEW n, NEW m, begin_rename(t, d, n, m) PROVE Idle(t)
  BY <1>1, <1>4 DEF begin_rename
<1>5. ASSUME NEW i, begin_setattr(t, i) \/ begin_truncate(t, i) PROVE Idle(t)
  BY <1>1, <1>5 DEF begin_setattr, begin_truncate
<1>6. ASSUME NEW i, NEW off, NEW len, begin_write(t, i, off, len) PROVE Idle(t)
  BY <1>1, <1>6 DEF begin_write
<1> QED BY <1>2, <1>3, <1>4, <1>5, <1>6 DEF Call

\* Only a block_write, whole or failing, changes the tree.
LEMMA PutMoves ==
  ASSUME NEW t, Threads = {t}, StepsNext, disk' # disk
  PROVE  PutBlock(t) \/ PutFails(t)
<1>1. Call(t) => disk' = disk
  BY CallParts DEF OnlyPlans
<1>2. Refused(t) \/ Load(t) \/ Store(t) \/ SaveBitmap(t) \/ SaveFails(t) \/ SaveNothing(t)
        => disk' = disk
  BY DEF Refused, Load, Store, SaveBitmap, SaveFails, SaveNothing, vars
<1>3. Stop \/ Mount \/ MountFails => disk' = disk
  BY DEF Stop, Mount, MountFails
<1> QED BY <1>1, <1>2, <1>3 DEF StepsNext

\* The write of a plan's first step, which goes on, or ends the call.
LEMMA PutIsWritten ==
  ASSUME NEW t \in Threads, StepsInv, PutBlock(t) \/ PutFails(t), NEW s, s = todo[t]
  PROVE  /\ s \in Seq(PlanStep) /\ s # <<>> /\ s[1].do = "put" /\ s[1] \in PlanStep
         /\ disk' = [disk EXCEPT ![s[1].at] = s[1].what] \/ disk' = disk
         /\ \/ PutBlock(t) /\ todo'[t] = Tail(s)
            \/ todo'[t] = IF s[1].undo = {} THEN <<>> ELSE <<ClearBits(s[1].undo), Save>>
<1>1. s \in Seq(PlanStep) /\ s # <<>> /\ Head(todo[t]) = s[1] /\ s[1].do = "put" /\ s[1] \in PlanStep
  BY ReadyPlan DEF PutBlock, PutFails
<1>2. CASE PutBlock(t)
  <2>1. PICK rest : rest = Tail(s)
    OBVIOUS
  <2>2. todo'[t] = rest
    BY <1>2, <2>1, ContinueParts DEF PutBlock, Goes
  <2> QED BY <1>1, <1>2, <2>1, <2>2 DEF PutBlock
<1>3. CASE PutFails(t)
  <2>1. PICK rest : rest = IF s[1].undo = {} THEN <<>> ELSE <<ClearBits(s[1].undo), Save>>
    OBVIOUS
  <2>2. Continue(t, rest, "EIO")
    BY <1>1, <1>3, <2>1 DEF PutFails
  <2>3. todo'[t] = rest
    BY <2>2, ContinueParts
  <2> QED BY <1>1, <1>3, <2>1, <2>3 DEF PutFails
<1> QED BY <1>2, <1>3

\* A call that has made its change makes no other.
LEMMA MovesOnce ==
  ASSUME NEW t, Threads = {t}, SafeInv(t), SafeInv(t)', MovedInv(t), StepsNext, ~risk', tree' # tree
  PROVE  t \notin moved \/ ~Acts(t)
<1>1. SUFFICES ASSUME t \in moved PROVE FALSE
  OBVIOUS
<1>2. PICK s : s = todo[t]
  OBVIOUS
<1>3. /\ StepsInv /\ Shaped /\ TypeOK' /\ TreeIsSeen /\ TreeIsSeen'
      /\ Safe(s, op[t]) /\ Quiet(s) /\ t \in Threads
  BY <1>1, <1>2, RiskStays, SafeShaped DEF SafeInv, StepsInv, MovedInv
<1>4. disk' # disk
  BY DEF StepsNext
<1>5. s \in Seq(PlanStep) /\ s # <<>> /\ s[1].do = "put" /\ disk' = [disk EXCEPT ![s[1].at] = s[1].what]
  BY <1>2, <1>3, <1>4, PutMoves, PutIsWritten
<1> QED BY <1>3, <1>5, ChangeIsLast

\* What is left of a quiet plan is quiet, also when a write fails.
LEMMA QuietStays ==
  ASSUME NEW t, Threads = {t}, SafeInv(t), SafeInv(t)', StepsNext, ~risk', t \in moved,
         MovedInv(t), todo'[t] # <<>>
  PROVE  Quiet(todo[t])'
<1>1. PICK s : s = todo[t]
  OBVIOUS
<1>2. /\ t \in Threads /\ StepsInv /\ Shaped /\ TypeOK' /\ Safe(s, op[t])
      /\ s # <<>> /\ Quiet(s) /\ s \in Seq(PlanStep)
  BY <1>1, RiskStays, SafeShaped DEF SafeInv, StepsInv, MovedInv, Plans
<1>3. ASSUME NEW r, r = Tail(s), Does(s[1]), todo'[t] = r PROVE Quiet(todo[t])'
  <2>1. Quiet(r)'
    BY <1>2, <1>3, QuietNext
  <2> QED BY <1>3, <2>1 DEF Quiet, KeepsTree
<1>4. ASSUME disk' = disk, todo'[t] = s PROVE Quiet(todo[t])'
  <2>1. Used' = Used
    BY <1>2, <1>4, TreeStays
  <2>2. \A k \in DOMAIN s : KeepsTree(s[k])'
    BY <1>2, <1>4, <2>1, StillKeeps DEF Quiet
  <2> QED BY <1>4, <2>2 DEF Quiet, KeepsTree
<1>5. CASE Store(t) \/ PutBlock(t) \/ SaveBitmap(t)
  <2>1. PICK r : r = Tail(s)
    OBVIOUS
  <2>2. Does(s[1])
    BY <1>1, <1>2, <1>5, StoreDoes, PutDoes, SaveDoes
  <2>3. todo'[t] = r
    BY <1>1, <1>2, <1>5, <2>1, ContinueParts DEF Store, PutBlock, SaveBitmap, Goes
  <2> QED BY <1>3, <2>1, <2>2, <2>3
<1>6. CASE PutFails(t)
  <2>1. PICK h, U : h = s[1] /\ U = h.undo
    OBVIOUS
  <2>2. /\ h \in PlanStep /\ h.do = "put"
        /\ disk' = [disk EXCEPT ![h.at] = h.what] \/ disk' = disk
        /\ PutBlock(t) \/ todo'[t] = <<ClearBits(U), Save>>
    <3>1. /\ s[1] \in PlanStep /\ s[1].do = "put"
          /\ disk' = [disk EXCEPT ![s[1].at] = s[1].what] \/ disk' = disk
          /\ \/ PutBlock(t) /\ todo'[t] = Tail(s)
             \/ todo'[t] = IF s[1].undo = {} THEN <<>> ELSE <<ClearBits(s[1].undo), Save>>
      BY <1>1, <1>2, <1>6, PutIsWritten
    <3> QED BY <2>1, <3>1
  <2>3. KeepsTree(h)
    BY <1>2, <2>1, PlanParts DEF Quiet
  <2>4. \A x \in Used : disk'[x] = disk[x]
    BY <1>2, <2>2, <2>3, UsedParts DEF KeepsTree, Shaped, TypeOK
  <2>5. Used' = Used /\ U \cap Used = {}
    BY <1>2, <2>1, <2>2, <2>3, <2>4, TreeStays DEF KeepsTree
  <2>6. CASE todo'[t] = <<ClearBits(U), Save>>
    <3>1. \A k \in DOMAIN todo'[t] : todo'[t][k] = ClearBits(U) \/ todo'[t][k] = Save
      BY <2>6
    <3> QED BY <2>5, <3>1 DEF Quiet, KeepsTree, ClearBits, Save
  <2> QED BY <1>5, <2>2, <2>6
<1>7. CASE Refused(t) \/ Load(t)
  BY <1>1, <1>4, <1>7 DEF Refused, Load, vars
<1>8. ~Call(t)
  BY <1>1, <1>2, CallIsIdle DEF Idle
<1>9. ~(SaveFails(t) \/ SaveNothing(t))
  <2>1. PICK rest : rest = <<>>
    OBVIOUS
  <2>2. SaveFails(t) \/ SaveNothing(t) => Continue(t, rest, "EIO")
    BY <2>1 DEF SaveFails, SaveNothing
  <2> QED BY <1>2, <2>1, <2>2, ContinueParts
<1>10. ~(Stop \/ Mount \/ MountFails)
  BY <1>1, <1>2 DEF Stop, Mount, MountFails, SafeInv
<1> QED BY <1>5, <1>6, <1>7, <1>8, <1>9, <1>10 DEF StepsNext

LEMMA MovedNext ==
  ASSUME NEW t, Threads = {t}, SafeInv(t), SafeInv(t)', MovedInv(t), [StepsNext]_vars_steps
  PROVE  MovedInv(t)'
<1>1. CASE UNCHANGED vars_steps
  <2>1. disk' = disk /\ todo' = todo /\ moved' = moved /\ risk' = risk
    BY <1>1 DEF vars_steps, vars
  <2>2. Used' = Used
    BY <2>1, SameTree
  <2>3. Quiet(todo[t]) => Quiet(todo[t])'
    BY <2>1, <2>2 DEF Quiet, KeepsTree
  <2> QED BY <2>1, <2>3 DEF MovedInv
<1>2. CASE StepsNext
  <2>1. SUFFICES ASSUME t \in moved' PROVE todo'[t] # <<>> /\ (~risk' => Quiet(todo[t])')
    BY DEF MovedInv
  <2>2. todo'[t] # <<>> /\ (t \in moved \/ tree' # tree)
    BY <1>2, <2>1 DEF StepsNext
  <2>3. ASSUME ~risk', t \notin moved PROVE Quiet(todo[t])'
    <3>1. PICK s, r : s = todo[t] /\ r = Tail(s)
      OBVIOUS
    <3>2. disk' # disk
      BY <1>2, <2>2, <2>3 DEF StepsNext
    <3>3. /\ t \in Threads /\ StepsInv /\ Shaped /\ TypeOK' /\ TreeIsSeen /\ TreeIsSeen'
          /\ Safe(s, op[t])
      BY <1>2, <2>3, <3>1, RiskStays, SafeShaped DEF SafeInv, StepsInv
    <3>4. /\ s \in Seq(PlanStep) /\ s # <<>> /\ s[1].do = "put"
          /\ disk' = [disk EXCEPT ![s[1].at] = s[1].what]
          /\ todo'[t] = r \/ todo'[t] = IF s[1].undo = {} THEN <<>> ELSE <<ClearBits(s[1].undo), Save>>
      BY <1>2, <3>1, <3>2, <3>3, PutMoves, PutIsWritten
    <3>5. s[1].undo = {} /\ Quiet(r)'
      BY <2>2, <2>3, <3>1, <3>3, <3>4, ChangeIsLast
    <3>6. todo'[t] = r
      BY <2>2, <3>4, <3>5
    <3> QED BY <3>5, <3>6 DEF Quiet, KeepsTree
  <2> QED BY <1>2, <2>2, <2>3, QuietStays
<1> QED BY <1>1, <1>2

\* The tree changes as Namespace says, whole calls at a time: of the block_writes of a
\* call one makes all of its change and no other changes the tree, so that a call that
\* stops or fails has done all of what it promises or nothing.
THEOREM CallsChangeTheTreeAtOnce ==
  ASSUME NEW t, Threads = {t}, NamesFit, ~WideDir
  PROVE  StepsSpec => CallsAreAtomic
<1>1. SafeInv(t) /\ SafeInv(t)' /\ MovedInv(t) /\ StepsTypeOK /\ [StepsNext]_vars_steps
        => [ChangeIsWhole]_tree
  <2> SUFFICES ASSUME SafeInv(t), SafeInv(t)', MovedInv(t), [StepsNext]_vars_steps,
                      moved \subseteq Threads, ~risk', tree' # tree
               PROVE  Abstract!Next /\ \A u \in moved : ~Acts(u)
    BY DEF StepsTypeOK, ChangeIsWhole
  <2>1. StepsNext
    BY DEF vars_steps
  <2>2. ~risk /\ TreeSteps
    BY <2>1, StepsSafely
  <2>3. OneBlockDirs /\ TreeIsSeen /\ TreeIsSeen'
    BY <2>2 DEF SafeInv, Safe
  <2>4. Abstract!Next
    BY <2>2, <2>3 DEF TreeSteps
  <2>5. \A u \in moved : ~Acts(u)
    BY <2>1, MovesOnce
  <2> QED BY <2>4, <2>5
<1>2. StepsSpec => []SafeInv(t) /\ [][StepsNext]_vars_steps
  BY SafeAlways, PTL DEF StepsSpec
<1>3. StepsInit => MovedInv(t)
  BY DEF StepsInit, MovedInv
<1>4. SafeInv(t) /\ SafeInv(t)' /\ MovedInv(t) /\ [StepsNext]_vars_steps => MovedInv(t)'
  BY MovedNext
<1> QED BY <1>1, <1>2, <1>3, <1>4, StepsTypeCorrect, PTL DEF StepsSpec, CallsAreAtomic
=============================================================================
