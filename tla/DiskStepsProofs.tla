--------------------------- MODULE DiskStepsProofs ---------------------------
(***************************************************************************)
(* A theorem about DiskSteps, for every number of threads and of faults,   *)
(* also those where the code has no answer: every block a handler writes   *)
(* is a block of the image, and what it writes there is what a block can   *)
(* hold.                                                                   *)
(*                                                                         *)
(* The block numbers in a handler's plan come from inodes on disk, and     *)
(* those were written by the plans of earlier calls, whole, cut short by a *)
(* stop, or on top of each other by two threads.  So the invariant is that *)
(* all inodes have the pointers their sizes need, on disk and in plans.    *)
(***************************************************************************)
EXTENDS DiskSteps, FileSystemIntegrity, SequenceTheorems

USE DEF Blocks, PtrIndex, Slots, Root, RootBlock

\* A pointer for each block of the size, and rmdir takes the first of a directory unseen.
HasItsBlocks(ino) ==
  /\ \A k \in 0 .. CeilDiv(ino.size) - 1 : ino.ptrs[k] \in Blocks
  /\ ino.type = "dir" => ino.ptrs[0] \in Blocks
Usable(c) == c.kind = "inode" => HasItsBlocks(c)

PlanStep == {s \in Step : s.do = "put" => Usable(s.what)}

Loads == {<<>>} \cup {<<S>> : S \in SUBSET (0 .. DiskSize - 1)}
CallTypes ==
  /\ op \in [Threads -> Ops] /\ result \in [Threads -> Codes]
  /\ loaded \in [Threads -> Loads] /\ locks \in [Threads -> SUBSET Blocks]
MountTypes == mount \in Mounts /\ faults \in 0 .. MaxFaults /\ risk \in BOOLEAN

DiskUsable == \A b \in Blocks : Usable(disk[b])
Plans == todo \in [Threads -> Seq(PlanStep)]

StepsInv == TypeOK /\ DiskUsable /\ Plans /\ CallTypes /\ MountTypes

LEMMA InvType == StepsInv /\ moved \subseteq Threads => StepsTypeOK
<1> SUFFICES ASSUME StepsInv, moved \subseteq Threads PROVE StepsTypeOK
  OBVIOUS
<1>1. ASSUME NEW t \in Threads, NEW k \in DOMAIN todo[t] PROVE todo[t][k] \in Step
  <2>1. todo[t] \in Seq(PlanStep)
    BY DEF StepsInv, Plans
  <2>2. todo[t][k] \in PlanStep
    BY <2>1, ElementOfSeq, LenProperties
  <2> QED BY <2>2 DEF PlanStep
<1> QED BY <1>1 DEF StepsInv, StepsTypeOK, CallTypes, MountTypes, Loads

-----------------------------------------------------------------------------
(* Steps of a plan *)

LEMMA BitSteps ==
  /\ \A S \in SUBSET Blocks : SetBits(S) \in PlanStep /\ ClearBits(S) \in PlanStep
  /\ Save \in PlanStep
BY DEF PlanStep, Step, SetBits, ClearBits, Save

LEMMA PutSteps ==
  ASSUME NEW b \in Blocks, NEW c \in Content, Usable(c), NEW S \in SUBSET Blocks
  PROVE  Put(b, c) \in PlanStep /\ PutOrUndo(b, c, S) \in PlanStep
<1>1. Put(b, c) = [do |-> "put", at |-> b, what |-> c, undo |-> {}]
  BY DEF Put
<1>2. PutOrUndo(b, c, S) = [do |-> "put", at |-> b, what |-> c, undo |-> S]
  BY <1>1 DEF PutOrUndo
<1> QED BY <1>1, <1>2 DEF PlanStep, Step

LEMMA PutParts ==
  ASSUME NEW h \in PlanStep, h.do = "put"
  PROVE  h.at \in Blocks /\ h.what \in Content /\ Usable(h.what) /\ h.undo \in SUBSET Blocks
BY DEF PlanStep, Step, Save

LEMMA NoPointersNeeded == ASSUME NEW c, c.kind # "inode" PROVE Usable(c)
BY DEF Usable

\* A size of m whole blocks has no block behind the m-th.
LEMMA WholeBlocks ==
  ASSUME NEW m \in Nat, NEW k \in 0 .. CeilDiv(m * BlockSize) - 1
  PROVE  k \in 0 .. m - 1
<1>1. BlockSize \in Nat \ {0} /\ m * BlockSize \in Nat
  BY DiskAssumption
<1>2. CeilDiv(m * BlockSize) \in Nat
  BY <1>1, CeilDivLess
<1>3. k \in Nat /\ k < CeilDiv(m * BlockSize)
  BY <1>2
<1>4. k * BlockSize < m * BlockSize
  BY <1>1, <1>3, CeilDivLess
<1>5. ASSUME m <= k PROVE FALSE
  <2>1. m * BlockSize <= k * BlockSize
    BY <1>1, <1>3, <1>5
  <2> QED BY <1>1, <1>3, <1>4, <2>1
<1> QED BY <1>3, <1>5

LEMMA EmptyHasItsBlocks == ASSUME NEW ino, ino.size = 0, ino.type # "dir" PROVE HasItsBlocks(ino)
<1>1. \A k \in 0 .. CeilDiv(0 * BlockSize) - 1 : FALSE
  BY WholeBlocks
<1>2. 0 * BlockSize = 0
  BY DiskAssumption
<1> QED BY <1>1, <1>2 DEF HasItsBlocks

\* What is read as an inode can be used as one, whatever the block holds.
LEMMA ReadUsable ==
  ASSUME TypeOK, DiskUsable, NEW i \in Blocks
  PROVE  /\ read_inode(i) \in InodeBlock /\ read_inode(i) \in Content
         /\ HasItsBlocks(read_inode(i)) /\ Usable(read_inode(i))
<1>1. read_inode(i) \in InodeBlock /\ read_inode(i) \in Content
  BY ReadInodeType DEF TypeOK, Content
<1>2. ASSUME disk[i].kind = "inode" PROVE HasItsBlocks(read_inode(i))
  <2>1. read_inode(i) = disk[i] /\ Usable(disk[i])
    BY <1>2 DEF DiskUsable, read_inode
  <2> QED BY <1>2, <2>1 DEF Usable
<1>3. ASSUME disk[i].kind # "inode" PROVE HasItsBlocks(read_inode(i))
  <2>1. read_inode(i).size = 0 /\ read_inode(i).type # "dir"
    BY <1>3 DEF read_inode, AnInode
  <2> QED BY <2>1, EmptyHasItsBlocks
<1> QED BY <1>1, <1>2, <1>3 DEF Usable

\* The entries of a directory are in blocks of the image.
LEMMA PositionUsable ==
  ASSUME TypeOK, DiskUsable, NEW d \in Blocks, NEW p \in Positions(d)
  PROVE  /\ BlockAt(d, p) \in Blocks /\ p[2] \in Slots /\ EntryAt(d, p) \in Entry
         /\ \A e \in Entry : PutEntry(d, p, e) \in PlanStep
<1>1. p[1] \in Indices(d) /\ p[2] \in Slots
  BY PositionParts
<1>2. BlockAt(d, p) \in Blocks
  BY <1>1, ReadUsable DEF HasItsBlocks, BlockAt, Indices, BlockCount
<1>3. disk \in [Blocks -> Content]
  BY DEF TypeOK
<1>4. EntryAt(d, p) \in Entry
  BY <1>1, <1>2, <1>3, ReadEntriesType DEF EntryAt
<1>5. ASSUME NEW e \in Entry PROVE PutEntry(d, p, e) \in PlanStep
  <2>1. PICK b \in Blocks : b = BlockAt(d, p)
    BY <1>2
  <2>2. PICK c : c = SetEntry(disk, b, p[2], e)[b]
    OBVIOUS
  <2>3. c \in Content
    <3>1. SetEntry(disk, b, p[2], e) \in [Blocks -> Content]
      BY <1>1, <1>3, SetEntryType
    <3> QED BY <2>2, <3>1
  <2>4. c.kind = "entries"
    BY <1>3, <2>2 DEF SetEntry, Entries
  <2>5. PutEntry(d, p, e) = Put(b, c)
    BY <2>1, <2>2 DEF PutEntry
  <2> QED BY <2>3, <2>4, <2>5, NoPointersNeeded, PutSteps
<1> QED BY <1>1, <1>2, <1>4, <1>5

\* An entry that was found is one of the directory, and leads into the image.
LEMMA MatchUsable ==
  ASSUME TypeOK, DiskUsable, NEW d \in Blocks, NEW n, NEW p \in Matches(d, n)
  PROVE  p \in Positions(d) /\ EntryAt(d, p).inode \in Blocks
<1>1. p \in Positions(d) /\ EntryAt(d, p).inode # 0
  BY DEF Matches, ValidAt, Valid
<1> QED BY <1>1, PositionUsable DEF Entry

-----------------------------------------------------------------------------
(* Plans *)

LEMMA ShortPlans ==
  /\ <<>> \in Seq(PlanStep)
  /\ \A a \in PlanStep : <<a>> \in Seq(PlanStep)
  /\ \A a, b \in PlanStep : <<a, b>> \in Seq(PlanStep)
  /\ \A a, b, c \in PlanStep : <<a, b, c>> \in Seq(PlanStep)
  /\ \A a, b, c, d \in PlanStep : <<a, b, c, d>> \in Seq(PlanStep)
<1> QED OBVIOUS

LEMMA JoinedPlans ==
  \A s, u \in Seq(PlanStep) : s \o u \in Seq(PlanStep)
BY ConcatProperties

LEMMA FreeBits ==
  /\ FirstFree \subseteq Blocks /\ FreeBlocks \in SUBSET Blocks
  /\ \A i : SecondFree(i) \subseteq Blocks
BY FreeTypes

\* Every set of numbers has a least one, and every set of positions a first.
LEMMA LeastOf ==
  ASSUME NEW T \in SUBSET Nat, T # {}
  PROVE  \E x \in T : \A y \in T : x <= y
<1>1. PICK x \in T : \A y \in T : ~ (<<y, x>> \in OpToRel(<, Nat))
  BY NatLessThanWellFounded, WFMin
<1>2. ASSUME NEW y \in T PROVE x <= y
  <2>1. x \in Nat /\ y \in Nat
    OBVIOUS
  <2>2. ~ (y < x)
    BY <1>1, <2>1 DEF OpToRel
  <2> QED BY <2>1, <2>2
<1> QED BY <1>2

LEMMA FirstExists ==
  ASSUME TypeOK, NEW d \in Blocks, NEW S \in SUBSET Positions(d), S # {}
  PROVE  FirstOf(S) # {}
<1>1. \A p \in S : p[1] \in Nat /\ p[2] \in Nat
  <2> SUFFICES ASSUME NEW p \in S PROVE p[1] \in Nat /\ p[2] \in Nat
    OBVIOUS
  <2>1. p[1] \in PtrIndex /\ p[2] \in Slots
    BY PositionParts, InodeFields
  <2> QED BY <2>1, DiskAssumption
<1>2. PICK j \in {p[1] : p \in S} : \A h \in {p[1] : p \in S} : j <= h
  <2>1. {p[1] : p \in S} \in SUBSET Nat /\ {p[1] : p \in S} # {}
    BY <1>1
  <2> QED BY <2>1, LeastOf
<1> DEFINE R == {p \in S : p[1] = j}
<1>3. PICK k \in {p[2] : p \in R} : \A h \in {p[2] : p \in R} : k <= h
  <2>1. {p[2] : p \in R} \in SUBSET Nat /\ {p[2] : p \in R} # {}
    BY <1>1, <1>2
  <2> QED BY <2>1, LeastOf
<1>4. PICK p \in S : p[1] = j /\ p[2] = k
  BY <1>3
<1>5. ASSUME NEW q \in S PROVE ~Before(q, p)
  <2>1. j <= q[1] /\ (q[1] = j => k <= q[2])
    BY <1>2, <1>3
  <2> QED BY <1>1, <1>4, <2>1 DEF Before
<1> QED BY <1>5 DEF FirstOf

LEMMA AddPlan ==
  ASSUME TypeOK, DiskUsable, NEW d \in Blocks, NEW n \in Names, NEW i \in Blocks
  PROVE  AddSteps(d, n, i) \in Seq(PlanStep)
<1>1. CASE FreeSlots(d) = {}
  BY <1>1, ShortPlans DEF AddSteps
<1>2. CASE FreeSlots(d) # {}
  <2>1. FreeSlots(d) \in SUBSET Positions(d)
    BY DEF FreeSlots
  <2>2. PICK p : p = CHOOSE q \in FirstOf(FreeSlots(d)) : TRUE
    OBVIOUS
  <2>3. p \in FirstOf(FreeSlots(d))
    BY <1>2, <2>1, <2>2, FirstExists
  <2>4. p \in Positions(d)
    BY <2>1, <2>3 DEF FirstOf
  <2>5. PutEntry(d, p, NewEntry(i, n)) \in PlanStep
    BY <2>4, PositionUsable, NewEntryType
  <2>6. AddSteps(d, n, i) = <<PutEntry(d, p, NewEntry(i, n))>>
    BY <1>2, <2>2 DEF AddSteps
  <2> QED BY <2>5, <2>6, ShortPlans
<1> QED BY <1>1, <1>2

LEMMA CreatePlan ==
  ASSUME TypeOK, DiskUsable, NEW d \in Blocks, NEW n \in Names, NEW i \in Blocks
  PROVE  CreateSteps(d, n, i) \in Seq(PlanStep)
<1>1. PICK c : c = AnInode("file", 0, NullPtrs)
  OBVIOUS
<1>2. c \in Content /\ c.size = 0 /\ c.type # "dir"
  <2>1. NullPtrs \in [PtrIndex -> {0} \cup Blocks] /\ 0 \in 0 .. MaxSize
    BY DiskAssumption DEF NullPtrs
  <2> QED BY <1>1, <2>1, AnInodeType DEF AnInode
<1>3. Usable(c)
  BY <1>2, EmptyHasItsBlocks DEF Usable
<1>4. PutOrUndo(i, c, {i}) \in PlanStep /\ SetBits({i}) \in PlanStep /\ Save \in PlanStep
  BY <1>2, <1>3, PutSteps, BitSteps
<1>5. <<SetBits({i}), Save, PutOrUndo(i, c, {i})>> \in Seq(PlanStep)
  BY <1>4, ShortPlans
<1> QED BY <1>1, <1>5, AddPlan, JoinedPlans DEF CreateSteps

LEMMA MkdirPlan ==
  ASSUME TypeOK, DiskUsable, NEW d \in Blocks, NEW n \in Names, NEW i \in Blocks, NEW b \in Blocks
  PROVE  MkdirSteps(d, n, i, b) \in Seq(PlanStep)
<1>1. PICK c : c = AnInode("dir", BlockSize, FirstPtr(b))
  OBVIOUS
<1>2. PICK e : e = Entries(NoEntries)
  OBVIOUS
<1>3. c \in Content /\ c.size = 1 * BlockSize /\ c.ptrs[0] = b
  <2>1. FirstPtr(b) \in [PtrIndex -> {0} \cup Blocks] /\ FirstPtr(b)[0] = b
    BY DiskAssumption DEF NullPtrs, FirstPtr
  <2>2. BlockSize \in 0 .. MaxSize /\ 1 * BlockSize = BlockSize
    BY DiskAssumption
  <2> QED BY <1>1, <2>1, <2>2, AnInodeType DEF AnInode
<1>4. HasItsBlocks(c)
  <2>1. \A k \in 0 .. CeilDiv(1 * BlockSize) - 1 : k \in 0 .. 1 - 1
    BY WholeBlocks
  <2>2. \A k \in 0 .. CeilDiv(1 * BlockSize) - 1 : k = 0
    BY <2>1
  <2> QED BY <1>3, <2>2 DEF HasItsBlocks
<1>5. e \in Content /\ e.kind = "entries"
  BY <1>2 DEF Entries, NoEntries, NoEntry, Entry, DirBlock, Content
<1>6. PutOrUndo(i, c, {i, b}) \in PlanStep /\ PutOrUndo(b, e, {i, b}) \in PlanStep
  BY <1>3, <1>4, <1>5, NoPointersNeeded, PutSteps DEF Usable
<1>7. <<SetBits({i, b}), Save, PutOrUndo(i, c, {i, b}), PutOrUndo(b, e, {i, b})>>
        \in Seq(PlanStep)
  BY <1>6, BitSteps, ShortPlans
<1> QED BY <1>1, <1>2, <1>7, AddPlan, JoinedPlans DEF MkdirSteps

LEMMA RemovePlan ==
  ASSUME TypeOK, DiskUsable, NEW d \in Blocks, NEW p \in Positions(d), NEW bits \in SUBSET Blocks
  PROVE  RemoveSteps(d, p, bits) \in Seq(PlanStep)
<1>1. NoEntry \in Entry
  BY DEF NoEntry, Entry
<1>2. PutEntry(d, p, NoEntry) \in PlanStep
  BY <1>1, PositionUsable
<1> QED BY <1>2, BitSteps, ShortPlans DEF RemoveSteps

LEMMA BlocksOfType ==
  ASSUME TypeOK, NEW i \in Blocks
  PROVE  BlocksOf(read_inode(i)) \in SUBSET Blocks
<1>1. \A k \in Indices(i) : PtrAt(i, k) \in {0} \cup Blocks
  BY InodeFields
<1> QED BY <1>1 DEF BlocksOf, PtrAt, Indices, BlockCount

LEMMA TruncatePlan ==
  ASSUME TypeOK, DiskUsable, NEW i \in Blocks, ~IsDir(i)
  PROVE  TruncateSteps(i, BlocksOf(read_inode(i))) \in Seq(PlanStep)
<1>1. PICK c : c = Emptied(read_inode(i))
  OBVIOUS
<1>2. c \in Content /\ c.size = 0 /\ c.type # "dir"
  <2>1. read_inode(i) \in InodeBlock
    BY ReadUsable
  <2>2. NullPtrs \in [PtrIndex -> {0} \cup Blocks] /\ 0 \in 0 .. MaxSize
    BY DiskAssumption DEF NullPtrs
  <2>3. c \in InodeBlock /\ c.size = 0 /\ c.type = read_inode(i).type
    BY <1>1, <2>1, <2>2 DEF Emptied, InodeBlock
  <2> QED BY <2>3 DEF Content, IsDir
<1>3. Put(i, c) \in PlanStep
  BY <1>2, EmptyHasItsBlocks, PutSteps DEF Usable
<1>4. <<Put(i, c), Save>> \in Seq(PlanStep)
  BY <1>3, BitSteps, ShortPlans
<1>5. (IF BlocksOf(read_inode(i)) = {} THEN <<>> ELSE <<ClearBits(BlocksOf(read_inode(i)))>>)
        \in Seq(PlanStep)
  BY BlocksOfType, BitSteps, ShortPlans
<1> QED BY <1>1, <1>4, <1>5, JoinedPlans DEF TruncateSteps

\* The number of blocks a write touches, and where they are in the file.
LEMMA TouchedCount ==
  ASSUME NEW off \in Nat, NEW len \in Nat, NEW j \in 1 .. Cardinality(Touched(off, len))
  PROVE  /\ Cardinality(Touched(off, len)) \in Nat
         /\ (off \div BlockSize) + j - 1 \in Touched(off, len)
<1> DEFINE q == off \div BlockSize
           r == (off + len - 1) \div BlockSize
<1>1. BlockSize \in Nat \ {0}
  BY DiskAssumption
<1>2. CASE len = 0
  <2>1. Touched(off, len) = {}
    BY <1>2 DEF Touched
  <2> QED BY <2>1, FS_EmptySet
<1>3. CASE len # 0
  <2>1. Touched(off, len) = q .. r
    BY <1>3 DEF Touched
  <2>2. q \in Nat /\ r \in Nat
    <3>1. off + len - 1 \in Nat
      BY <1>3
    <3> QED BY <1>1, <3>1, DivBounds
  <2> HIDE DEF q, r
  <2>3. Cardinality(q .. r) = IF q > r THEN 0 ELSE r - q + 1
    BY <2>2, FS_Interval
  <2>4. j \in 1 .. Cardinality(q .. r)
    BY <2>1
  <2>5. q <= r /\ j \in 1 .. r - q + 1
    BY <2>2, <2>3, <2>4
  <2>6. q + j - 1 \in q .. r /\ r - q + 1 \in Nat
    BY <2>2, <2>5
  <2> QED BY <2>1, <2>3, <2>5, <2>2, <2>6 DEF q
<1> QED BY <1>2, <1>3

\* The plan of a write that finds its blocks, wherever the file's size came from.
LEMMA WritePlan ==
  ASSUME TypeOK, DiskUsable, NEW f \in Blocks, ~IsDir(f),
         NEW off \in 0 .. MaxSize, NEW len \in 0 .. MaxSize, off + len <= MaxSize,
         NEW need, need = NewBlocksNeeded(read_inode(f), off + len),
         need <= Cardinality(FreeBlocks), NEW new \in Allocations(need),
         NEW bits \in SUBSET Blocks
  PROVE  WriteSteps(f, Extended(read_inode(f), new), off, len, bits) \in Seq(PlanStep)
<1>1. PICK ino \in InodeBlock : ino = read_inode(f) /\ HasItsBlocks(ino)
  BY ReadUsable
<1>2. PICK sz \in 0 .. MaxSize : sz = ino.size
  BY DEF InodeBlock
<1> off \in Nat /\ len \in Nat /\ off + len \in 0 .. MaxSize
  BY DiskAssumption
<1>3. PICK c \in Nat : c = CeilDiv(sz)
  BY <1>2, CeilDivLess, DiskAssumption
<1>4. need \in Nat /\ CeilDiv(off + len) = c + need
  <2>1. need = (CeilDiv(off + len) - CeilDiv(sz)) % UInt32
    BY <1>1, <1>2 DEF NewBlocksNeeded
  <2>2. need \in Nat /\ CeilDiv(off + len) = CeilDiv(sz) + need
    BY <2>1, NoWrap
  <2> QED BY <1>3, <2>2
<1>5. new \in [0 .. need - 1 -> FreeBlocks]
  BY DEF Allocations
<1>6. PICK ext \in InodeBlock :
        /\ ext = Extended(ino, new) /\ ext.size = sz /\ ext.type # "dir"
        /\ \A k \in PtrIndex : ext.ptrs[k] = IF k - c \in 0 .. need - 1 THEN new[k - c]
                                             ELSE ino.ptrs[k]
  <2>1. c = CeilDiv(ino.size)
    BY <1>2, <1>3
  <2>2. PICK ext : ext = Extended(ino, new)
    OBVIOUS
  <2>3. /\ ext \in InodeBlock /\ ext.type = ino.type /\ ext.size = ino.size
        /\ \A k \in PtrIndex : ext.ptrs[k] = IF k - c \in 0 .. need - 1 THEN new[k - c]
                                             ELSE ino.ptrs[k]
    <3>1. need \in Nat
      BY <1>4
    <3> QED BY SMTT(30), <1>5, <2>1, <2>2, <3>1, ExtendedParts
  <2> QED BY <1>1, <1>2, <2>2, <2>3 DEF IsDir
<1>7. c + need <= NPtrs
  <2>1. NPtrs \in Nat /\ MaxSize <= NPtrs * BlockSize /\ MaxSize \in Nat
        /\ NPtrs * BlockSize \in Nat
    BY DiskAssumption
  <2>2. ~(NPtrs * BlockSize < off + len)
    BY <2>1
  <2>3. ~(NPtrs < CeilDiv(off + len))
    BY <2>1, <2>2, CeilDivLess
  <2> QED BY <1>3, <1>4, <2>1, <2>3
<1>8. \A k \in 0 .. c + need - 1 : ext.ptrs[k] \in Blocks
  <2> SUFFICES ASSUME NEW k \in 0 .. c + need - 1 PROVE ext.ptrs[k] \in Blocks
    OBVIOUS
  <2>1. k \in PtrIndex
    BY <1>3, <1>4, <1>7, DiskAssumption
  <2>2. CASE k \in 0 .. c - 1
    <3>1. ~(k - c \in 0 .. need - 1)
      BY <1>3, <2>2
    <3>2. ino.ptrs[k] \in Blocks
      BY <1>1, <1>2, <1>3, <2>2 DEF HasItsBlocks
    <3> QED BY <1>6, <2>1, <3>1, <3>2
  <2>3. CASE k \notin 0 .. c - 1
    <3>1. k - c \in 0 .. need - 1
      BY <1>3, <1>4, <2>3
    <3>2. new[k - c] \in Blocks
      BY <1>5, <3>1, FreeBits
    <3> QED BY <1>6, <2>1, <3>1, <3>2
  <2> QED BY <2>2, <2>3
<1>9. PICK img \in [Blocks -> Content] : img = Written(f, ext, off, len)
  BY <1>1, <1>4, <1>5, <1>6, WrittenType
<1>10. \A b \in Blocks : Usable(img[b])
  <2> DEFINE data == {ext.ptrs[k] : k \in Touched(off, len)}
             filled == [b \in Blocks |-> IF b \in data THEN Data(f) ELSE disk[b]]
             end == [ext EXCEPT !.size = NewSize(ext, off, len)]
  <2>1. img = [filled EXCEPT ![f] = end]
    BY <1>9 DEF Written
  <2>2. end.ptrs = ext.ptrs /\ end.type = ext.type /\ end.size = NewSize(ext, off, len)
    BY DEF InodeBlock
  <2>3. \A b \in Blocks : filled[b] = Data(f) \/ filled[b] = disk[b]
    OBVIOUS
  <2>4. \A b \in Blocks : img[b] = IF b = f THEN end ELSE filled[b]
    BY <2>1
  <2> HIDE DEF filled, end
  <2>5. HasItsBlocks(end)
    <3>1. end.size = sz \/ end.size = off + len
      BY <1>6, <2>2 DEF NewSize
    <3>2. PICK m : m = CeilDiv(end.size)
      OBVIOUS
    <3>3. m = c \/ m = c + need
      <4>1. CASE end.size = sz
        BY <1>3, <3>2, <4>1
      <4>2. CASE end.size = off + len
        <5>1. m = CeilDiv(off + len)
          BY <3>2, <4>2
        <5> QED BY <1>4, <5>1
      <4> QED BY <3>1, <4>1, <4>2
    <3>4. \A k \in 0 .. m - 1 : k \in 0 .. c + need - 1
      <4>1. c \in Nat /\ need \in Nat
        BY <1>4
      <4> HIDE <1>4, <3>2
      <4> QED BY <3>3, <4>1
    <3>5. \A k \in 0 .. m - 1 : end.ptrs[k] \in Blocks
      BY <1>8, <2>2, <3>4
    <3> QED BY <1>6, <2>2, <3>2, <3>5 DEF HasItsBlocks
  <2>6. ASSUME NEW b \in Blocks, b # f PROVE Usable(img[b])
    <3>1. img[b] = Data(f) \/ img[b] = disk[b]
      BY <2>3, <2>4, <2>6
    <3>2. Usable(Data(f)) /\ Usable(disk[b])
      BY NoPointersNeeded DEF Data, DiskUsable
    <3> QED BY <3>1, <3>2
  <2> QED BY <2>4, <2>5, <2>6 DEF Usable
<1>11. PICK n \in Nat : n = Cardinality(Touched(off, len))
  <2>1. IsFiniteSet(Touched(off, len))
    <3>1. CASE len = 0
      BY <3>1, FS_EmptySet DEF Touched
    <3>2. CASE len # 0
      <4>1. off + len - 1 \in Nat /\ BlockSize \in Nat \ {0}
        BY <3>2, DiskAssumption
      <4>2. off \div BlockSize \in Int /\ (off + len - 1) \div BlockSize \in Int
        BY <4>1, DivBounds
      <4> QED BY <3>2, <4>2, FS_Interval DEF Touched
    <3> QED BY <3>1, <3>2
  <2> QED BY <2>1, FS_CardinalityType
<1> DEFINE at(j) == ext.ptrs[(off \div BlockSize) + j - 1]
           puts == [j \in 1 .. n |-> Put(at(j), img[at(j)])]
<1>12. puts \in Seq(PlanStep)
  <2>1. ASSUME NEW j \in 1 .. n PROVE Put(at(j), img[at(j)]) \in PlanStep
    <3>1. PICK k : k = (off \div BlockSize) + j - 1
      OBVIOUS
    <3>2. k \in Touched(off, len)
      BY <1>11, <3>1, TouchedCount
    <3>3. k \in Nat /\ k * BlockSize < off + len
      BY <3>2, TouchedBlocks
    <3>4. k < CeilDiv(off + len)
      BY <3>3, CeilDivLess
    <3>5. ext.ptrs[k] \in Blocks
      BY SMTT(30), <1>3, <1>4, <1>8, <3>3, <3>4
    <3>6. Put(ext.ptrs[k], img[ext.ptrs[k]]) \in PlanStep
      BY <1>9, <1>10, <3>5, PutSteps
    <3> QED BY <3>1, <3>6
  <2> HIDE DEF at
  <2>2. puts \in [1 .. n -> PlanStep]
    BY <2>1
  <2> HIDE DEF puts
  <2> QED BY <2>2, SeqDef
<1>13. <<Put(f, img[f])>> \in Seq(PlanStep)
  <2>1. Put(f, img[f]) \in PlanStep
    BY <1>9, <1>10, PutSteps
  <2> QED BY <2>1, ShortPlans
<1>14. /\ (IF bits = {} THEN <<>> ELSE <<SetBits(bits)>>) \in Seq(PlanStep)
       /\ (IF bits = {} THEN <<>> ELSE <<Save>>) \in Seq(PlanStep)
  BY BitSteps, ShortPlans
<1>15. WriteSteps(f, ext, off, len, bits)
         = (IF bits = {} THEN <<>> ELSE <<SetBits(bits)>>) \o puts \o <<Put(f, img[f])>>
             \o (IF bits = {} THEN <<>> ELSE <<Save>>)
  BY <1>9, <1>11 DEF WriteSteps
<1> HIDE DEF puts
<1> QED BY <1>1, <1>6, <1>12, <1>13, <1>14, <1>15, JoinedPlans

-----------------------------------------------------------------------------
(* Beginning a call *)

LEMMA BeginType ==
  ASSUME StepsInv, NEW t \in Threads, NEW name \in Ops, NEW held \in SUBSET Blocks,
         NEW steps \in Seq(PlanStep), NEW code \in Codes, Begin(t, name, held, steps, code)
  PROVE  StepsInv'
<1>1. /\ UNCHANGED <<disk, map_blk, bitmap, ret, loaded, mount, faults, risk>>
      /\ todo' = [todo EXCEPT ![t] = steps] /\ op' = [op EXCEPT ![t] = name]
      /\ result' = [result EXCEPT ![t] = code] /\ locks' = [locks EXCEPT ![t] = held]
  BY DEF Begin, vars
<1>2. TypeOK' /\ DiskUsable' /\ MountTypes'
  BY <1>1 DEF StepsInv, TypeOK, DiskUsable, MountTypes
<1>3. Plans'
  BY <1>1 DEF StepsInv, Plans
<1>4. CallTypes'
  BY <1>1 DEF StepsInv, CallTypes
<1> QED BY <1>2, <1>3, <1>4 DEF StepsInv

\* A call that is refused is one of FileSystem's steps, and writes nothing.
LEMMA RefusedType == ASSUME StepsInv, NEW t \in Threads, Refused(t) PROVE StepsInv'
<1>1. Next
  BY DEF Refused, Next
<1>2. TypeOK'
  BY <1>1, NextType DEF StepsInv
<1>3. UNCHANGED <<disk, todo, op, result, loaded, locks, mount, faults, risk>>
  BY DEF Refused
<1> QED BY <1>2, <1>3 DEF StepsInv, DiskUsable, Plans, CallTypes, MountTypes

LEMMA CreateBegins ==
  ASSUME StepsInv, NEW t \in Threads, NEW d \in Blocks, NEW n \in Names, begin_create(t, d, n)
  PROVE  StepsInv'
<1>1. PICK i \in FirstFree :
        Begin(t, "create", {d}, CreateSteps(d, n, i), Unless("ENOSPC", d))
  BY DEF begin_create
<1>2. CreateSteps(d, n, i) \in Seq(PlanStep)
  BY FreeBits, CreatePlan DEF StepsInv
<1>3. "create" \in Ops /\ {d} \in SUBSET Blocks /\ Unless("ENOSPC", d) \in Codes
  BY DEF Ops, Unless, Codes
<1> QED BY <1>1, <1>2, <1>3, BeginType

LEMMA MkdirBegins ==
  ASSUME StepsInv, NEW t \in Threads, NEW d \in Blocks, NEW n \in Names, begin_mkdir(t, d, n)
  PROVE  StepsInv'
<1>1. PICK i \in FirstFree, b \in UNION {SecondFree(j) : j \in FirstFree} :
        Begin(t, "mkdir", {d}, MkdirSteps(d, n, i, b), Unless("EOPNOTSUPP", d))
  BY DEF begin_mkdir
<1>2. MkdirSteps(d, n, i, b) \in Seq(PlanStep)
  BY FreeBits, MkdirPlan DEF StepsInv
<1>3. "mkdir" \in Ops /\ {d} \in SUBSET Blocks /\ Unless("EOPNOTSUPP", d) \in Codes
  BY DEF Ops, Unless, Codes
<1> QED BY <1>1, <1>2, <1>3, BeginType

LEMMA FirstMatchUsable ==
  ASSUME StepsInv, NEW d \in Blocks, NEW n, NEW p \in FirstMatch(d, n)
  PROVE  p \in Positions(d) /\ EntryAt(d, p).inode \in Blocks
<1>1. p \in Matches(d, n)
  BY DEF FirstMatch, FirstOf
<1> QED BY <1>1, MatchUsable DEF StepsInv

LEMMA UnlinkBegins ==
  ASSUME StepsInv, NEW t \in Threads, NEW d \in Blocks, NEW n \in Names, begin_unlink(t, d, n)
  PROVE  StepsInv'
<1>1. PICK p \in FirstMatch(d, n) :
        LET i == EntryAt(d, p).inode IN
          Begin(t, "unlink", {d, i}, RemoveSteps(d, p, BlocksOf(read_inode(i)) \cup {i}), "ok")
  BY DEF begin_unlink
<1>2. PICK i \in Blocks : i = EntryAt(d, p).inode
  BY FirstMatchUsable
<1>3. BlocksOf(read_inode(i)) \cup {i} \in SUBSET Blocks
  BY BlocksOfType DEF StepsInv
<1>4. RemoveSteps(d, p, BlocksOf(read_inode(i)) \cup {i}) \in Seq(PlanStep)
  BY <1>3, FirstMatchUsable, RemovePlan DEF StepsInv
<1>5. "unlink" \in Ops /\ {d, i} \in SUBSET Blocks /\ "ok" \in Codes
  BY DEF Ops, Codes
<1> QED BY <1>1, <1>2, <1>4, <1>5, BeginType

LEMMA RmdirBegins ==
  ASSUME StepsInv, NEW t \in Threads, NEW d \in Blocks, NEW n \in Names, begin_rmdir(t, d, n)
  PROVE  StepsInv'
<1>1. PICK p \in FirstMatch(d, n) :
        LET i == EntryAt(d, p).inode IN
          /\ IsDir(i) /\ SeenEmpty(i)
          /\ Begin(t, "rmdir", {d, i}, RemoveSteps(d, p, {read_inode(i).ptrs[0], i}), "ok")
  BY DEF begin_rmdir
<1>2. PICK i \in Blocks : i = EntryAt(d, p).inode
  BY FirstMatchUsable
<1>3. {read_inode(i).ptrs[0], i} \in SUBSET Blocks
  <2>1. read_inode(i).type = "dir"
    BY <1>1, <1>2 DEF IsDir
  <2> QED BY <2>1, ReadUsable DEF HasItsBlocks, StepsInv
<1>4. RemoveSteps(d, p, {read_inode(i).ptrs[0], i}) \in Seq(PlanStep)
  BY <1>3, FirstMatchUsable, RemovePlan DEF StepsInv
<1>5. "rmdir" \in Ops /\ {d, i} \in SUBSET Blocks /\ "ok" \in Codes
  BY DEF Ops, Codes
<1> QED BY <1>1, <1>2, <1>4, <1>5, BeginType

LEMMA RenameBegins ==
  ASSUME StepsInv, NEW t \in Threads, NEW d \in Blocks, NEW n \in Names, NEW m \in Names,
         begin_rename(t, d, n, m)
  PROVE  StepsInv'
<1>1. PICK p \in FirstMatch(d, n), q \in Matches(d, n) :
        Begin(t, "rename", {d}, <<PutEntry(d, q, NewEntry(EntryAt(d, q).inode, m))>>, "ok")
  BY DEF begin_rename, SourceEntry, RenameSteps
<1>2. q \in Positions(d) /\ EntryAt(d, q).inode \in Blocks
  BY MatchUsable DEF StepsInv
<1>3. PutEntry(d, q, NewEntry(EntryAt(d, q).inode, m)) \in PlanStep
  BY <1>2, PositionUsable, NewEntryType DEF StepsInv
<1>4. <<PutEntry(d, q, NewEntry(EntryAt(d, q).inode, m))>> \in Seq(PlanStep)
  BY <1>3, ShortPlans
<1>5. "rename" \in Ops /\ {d} \in SUBSET Blocks /\ "ok" \in Codes
  BY DEF Ops, Codes
<1> QED BY <1>1, <1>4, <1>5, BeginType

LEMMA SetattrBegins ==
  ASSUME StepsInv, NEW t \in Threads, NEW i \in Blocks, begin_setattr(t, i)
  PROVE  StepsInv'
<1>1. Put(i, read_inode(i)) \in PlanStep
  BY ReadUsable, PutSteps DEF StepsInv
<1>2. <<Put(i, read_inode(i))>> \in Seq(PlanStep)
  BY <1>1, ShortPlans
<1>3. "setattr" \in Ops /\ {i} \in SUBSET Blocks /\ "ok" \in Codes
  BY DEF Ops, Codes
<1> QED BY <1>2, <1>3, BeginType DEF begin_setattr

LEMMA TruncateBegins ==
  ASSUME StepsInv, NEW t \in Threads, NEW i \in Blocks, begin_truncate(t, i)
  PROVE  StepsInv'
<1>1. TruncateSteps(i, BlocksOf(read_inode(i))) \in Seq(PlanStep)
  BY TruncatePlan DEF begin_truncate, StepsInv
<1>2. "truncate" \in Ops /\ {i} \in SUBSET Blocks /\ "ok" \in Codes
  BY DEF Ops, Codes
<1> QED BY <1>1, <1>2, BeginType DEF begin_truncate

LEMMA WriteBegins ==
  ASSUME StepsInv, NEW t \in Threads, NEW f \in Blocks,
         NEW off \in 0 .. MaxSize, NEW len \in 0 .. MaxSize, off + len <= MaxSize,
         begin_write(t, f, off, len)
  PROVE  StepsInv'
<1>1. PICK need : need = NewBlocksNeeded(read_inode(f), off + len)
  OBVIOUS
<1>2. "write" \in Ops /\ {f} \in SUBSET Blocks /\ "ok" \in Codes /\ "ENOSPC" \in Codes
  BY DEF Ops, Codes
<1>3. ASSUME Begin(t, "write", {f}, <<SetBits(FreeBlocks)>>, "ENOSPC") PROVE StepsInv'
  <2>1. <<SetBits(FreeBlocks)>> \in Seq(PlanStep)
    BY FreeBits, BitSteps, ShortPlans
  <2> QED BY <1>2, <1>3, <2>1, BeginType
<1>4. ASSUME ~IsDir(f), need <= Cardinality(FreeBlocks), NEW new \in Allocations(need),
             Begin(t, "write", {f},
                   WriteSteps(f, Extended(read_inode(f), new), off, len,
                              {new[k] : k \in DOMAIN new}), "ok")
      PROVE  StepsInv'
  <2>1. {new[k] : k \in DOMAIN new} \in SUBSET Blocks
    <3>1. new \in [0 .. need - 1 -> FreeBlocks]
      BY DEF Allocations
    <3>2. \A k \in DOMAIN new : new[k] \in Blocks
      BY <3>1, FreeBits
    <3> QED BY <3>2
  <2>2. WriteSteps(f, Extended(read_inode(f), new), off, len, {new[k] : k \in DOMAIN new})
          \in Seq(PlanStep)
    BY <1>1, <1>4, <2>1, WritePlan DEF StepsInv
  <2> QED BY <1>2, <1>4, <2>2, BeginType
<1> QED BY <1>1, <1>3, <1>4 DEF begin_write

LEMMA CallType == ASSUME StepsInv, NEW t \in Threads, Call(t) PROVE StepsInv'
<1>1. ASSUME NEW d \in Addressable, NEW n \in Names,
             \/ begin_create(t, d, n) \/ begin_mkdir(t, d, n)
             \/ begin_unlink(t, d, n) \/ begin_rmdir(t, d, n)
             \/ \E m \in Names : begin_rename(t, d, n, m)
      PROVE  StepsInv'
  BY <1>1, AddressableBlocks, CreateBegins, MkdirBegins, UnlinkBegins, RmdirBegins, RenameBegins
<1>2. ASSUME NEW i \in Addressable,
             \/ begin_setattr(t, i) \/ begin_truncate(t, i)
             \/ \E off, len \in 0 .. MaxSize : off + len <= MaxSize /\ begin_write(t, i, off, len)
      PROVE  StepsInv'
  BY <1>2, AddressableBlocks, SetattrBegins, TruncateBegins, WriteBegins
<1> QED BY <1>1, <1>2 DEF Call

-----------------------------------------------------------------------------
(* The steps of a call *)

LEMMA ReadyParts ==
  ASSUME StepsInv, NEW t \in Threads, NEW whats, Ready(t, whats)
  PROVE  /\ Head(todo[t]) \in PlanStep /\ Head(todo[t]).do \in whats
         /\ Tail(todo[t]) \in Seq(PlanStep)
<1>1. todo[t] \in Seq(PlanStep) /\ todo[t] # <<>>
  BY DEF StepsInv, Plans, Ready
<1> QED BY <1>1, HeadTailProperties DEF Ready

LEMMA ContinueType ==
  ASSUME StepsInv, NEW t \in Threads, NEW rest \in Seq(PlanStep), NEW code \in Codes,
         Continue(t, rest, code)
  PROVE  /\ Plans' /\ ret' \in Codes
         /\ loaded' \in [Threads -> Loads] => CallTypes'
<1>1. Plans'
  BY DEF Continue, StepsInv, Plans
<1>2. ret' \in Codes
  BY DEF Continue, StepsInv, TypeOK
<1>3. op' \in [Threads -> Ops]
  <2>1. (IF rest = <<>> THEN "none" ELSE op[t]) \in Ops /\ op \in [Threads -> Ops]
    BY DEF StepsInv, CallTypes, Ops
  <2>2. op' = [op EXCEPT ![t] = IF rest = <<>> THEN "none" ELSE op[t]]
    BY <2>1 DEF Continue
  <2> QED BY <2>1, <2>2
<1>4. locks' \in [Threads -> SUBSET Blocks]
  <2>1. (IF rest = <<>> THEN {} ELSE locks[t]) \in SUBSET Blocks
        /\ locks \in [Threads -> SUBSET Blocks]
    BY DEF StepsInv, CallTypes
  <2>2. locks' = [locks EXCEPT ![t] = IF rest = <<>> THEN {} ELSE locks[t]]
    BY <2>1 DEF Continue
  <2> QED BY <2>1, <2>2
<1>5. result' \in [Threads -> Codes]
  BY DEF Continue, StepsInv, CallTypes
<1> QED BY <1>1, <1>2, <1>3, <1>4, <1>5 DEF CallTypes

LEMMA GoesType ==
  ASSUME StepsInv, NEW t \in Threads, NEW whats, Ready(t, whats), Goes(t)
  PROVE  /\ Plans' /\ ret' \in Codes
         /\ loaded' \in [Threads -> Loads] => CallTypes'
<1>1. result[t] \in Codes
  BY DEF StepsInv, CallTypes
<1> QED BY <1>1, ReadyParts, ContinueType DEF Goes

LEMMA LoadType == ASSUME StepsInv, NEW t \in Threads, Load(t) PROVE StepsInv'
<1>1. /\ UNCHANGED <<disk, map_blk, bitmap, ret, todo, op, result, locks, mount, faults, risk>>
      /\ loaded' = [loaded EXCEPT ![t] = <<bitmap>>]
  BY DEF Load, vars
<1>2. <<bitmap>> \in Loads
  BY DEF StepsInv, TypeOK, Loads
<1>3. CallTypes'
  BY <1>1, <1>2 DEF StepsInv, CallTypes
<1>4. TypeOK' /\ DiskUsable' /\ Plans' /\ MountTypes'
  BY <1>1 DEF StepsInv, TypeOK, DiskUsable, Plans, MountTypes
<1> QED BY <1>3, <1>4 DEF StepsInv

LEMMA StoreType == ASSUME StepsInv, NEW t \in Threads, Store(t) PROVE StepsInv'
<1>1. /\ UNCHANGED <<disk, map_blk, mount, faults, risk>> /\ Goes(t)
      /\ Ready(t, {"set", "clear"}) /\ loaded' = [loaded EXCEPT ![t] = <<>>]
  BY DEF Store
<1>2. bitmap' \in SUBSET (0 .. DiskSize - 1)
  <2>1. PICK B \in SUBSET (0 .. DiskSize - 1) : \E X : bitmap' = (bitmap \ B) \cup (X \cap B)
    BY DEF Store, SameBytes
  <2> QED BY <2>1 DEF StepsInv, TypeOK
<1>3. loaded' \in [Threads -> Loads]
  BY <1>1 DEF StepsInv, CallTypes, Loads
<1>4. Plans' /\ ret' \in Codes /\ CallTypes'
  BY <1>1, <1>3, GoesType
<1>5. TypeOK' /\ DiskUsable' /\ MountTypes'
  BY <1>1, <1>2, <1>4 DEF StepsInv, TypeOK, DiskUsable, MountTypes
<1> QED BY <1>4, <1>5 DEF StepsInv

\* A block the plan names gets the content the plan says, or keeps its own.
LEMMA PutDisk ==
  ASSUME StepsInv, NEW h \in PlanStep, h.do = "put",
         disk' = [disk EXCEPT ![h.at] = h.what] \/ disk' = disk
  PROVE  disk' \in [Blocks -> Content] /\ DiskUsable'
<1>1. h.at \in Blocks /\ h.what \in Content /\ Usable(h.what)
  BY PutParts
<1>2. disk \in [Blocks -> Content] /\ \A b \in Blocks : Usable(disk[b])
  BY DEF StepsInv, TypeOK, DiskUsable
<1>3. disk' \in [Blocks -> Content]
  BY <1>1, <1>2
<1>4. \A b \in Blocks : disk'[b] = disk[b] \/ disk'[b] = h.what
  <2>1. CASE disk' = [disk EXCEPT ![h.at] = h.what]
    BY <1>1, <1>2, <2>1
  <2>2. CASE disk' = disk
    BY <2>2
  <2> QED BY <2>1, <2>2
<1> QED BY <1>1, <1>2, <1>3, <1>4 DEF DiskUsable

LEMMA PutBlockType == ASSUME StepsInv, NEW t \in Threads, PutBlock(t) PROVE StepsInv'
<1>1. /\ UNCHANGED <<map_blk, bitmap, loaded, mount, faults, risk>>
      /\ Goes(t) /\ Ready(t, {"put"})
      /\ disk' = [disk EXCEPT ![Head(todo[t]).at] = Head(todo[t]).what]
  BY DEF PutBlock
<1>2. disk' \in [Blocks -> Content] /\ DiskUsable'
  <2>1. PICK h : h = Head(todo[t])
    OBVIOUS
  <2>2. h \in PlanStep /\ h.do = "put"
    BY <1>1, <2>1, ReadyParts
  <2>3. disk' = [disk EXCEPT ![h.at] = h.what]
    BY <1>1, <2>1
  <2> QED BY <2>2, <2>3, PutDisk
<1>3. Plans' /\ ret' \in Codes /\ CallTypes'
  <2>1. loaded' \in [Threads -> Loads]
    BY <1>1 DEF StepsInv, CallTypes
  <2> QED BY <1>1, <2>1, GoesType
<1> QED BY <1>1, <1>2, <1>3 DEF StepsInv, TypeOK, MountTypes

LEMMA SaveType ==
  ASSUME StepsInv, NEW t \in Threads, SaveBitmap(t) \/ SaveNothing(t)
  PROVE  StepsInv'
<1>1. /\ UNCHANGED <<disk, bitmap, loaded, mount, faults, risk>> /\ map_blk' \in {bitmap, map_blk}
      /\ Ready(t, {"save"}) /\ (Goes(t) \/ Continue(t, <<>>, "EIO"))
  BY DEF SaveBitmap, SaveNothing
<1>2. <<>> \in Seq(PlanStep) /\ "EIO" \in Codes
  BY ShortPlans DEF Codes
<1>3. Plans' /\ ret' \in Codes /\ CallTypes'
  BY <1>1, <1>2, GoesType, ContinueType DEF StepsInv, CallTypes
<1> QED BY <1>1, <1>3 DEF StepsInv, TypeOK, DiskUsable, MountTypes

LEMMA FaultType == ASSUME StepsInv, Fault PROVE faults' \in 0 .. MaxFaults
BY StepsAssumption DEF Fault, StepsInv, MountTypes

LEMMA PutFailsType == ASSUME StepsInv, NEW t \in Threads, PutFails(t) PROVE StepsInv'
<1>1. PICK h : h = Head(todo[t])
  OBVIOUS
<1>2. /\ UNCHANGED <<map_blk, bitmap, loaded, mount>> /\ Fault /\ Ready(t, {"put"})
      /\ disk' = [disk EXCEPT ![h.at] = h.what] \/ disk' = disk
      /\ \E done \in BOOLEAN : risk' = (risk \/ UnansweredPut(t, done))
      /\ Continue(t, IF h.undo = {} THEN <<>> ELSE <<ClearBits(h.undo), Save>>, "EIO")
  BY <1>1 DEF PutFails
<1>3. h \in PlanStep /\ h.do = "put"
  BY <1>1, <1>2, ReadyParts
<1>4. disk' \in [Blocks -> Content] /\ DiskUsable'
  BY <1>2, <1>3, PutDisk
<1>5. (IF h.undo = {} THEN <<>> ELSE <<ClearBits(h.undo), Save>>) \in Seq(PlanStep)
  BY <1>3, PutParts, BitSteps, ShortPlans
<1>6. Plans' /\ ret' \in Codes /\ CallTypes'
  BY <1>2, <1>5, ContinueType DEF StepsInv, CallTypes, Codes
<1>7. MountTypes'
  <2>1. risk' \in BOOLEAN
    BY <1>2
  <2> QED BY <1>2, <2>1, FaultType DEF StepsInv, MountTypes
<1> QED BY <1>2, <1>4, <1>6, <1>7 DEF StepsInv, TypeOK

LEMMA SaveFailsType == ASSUME StepsInv, NEW t \in Threads, SaveFails(t) PROVE StepsInv'
<1>1. /\ UNCHANGED <<disk, bitmap, loaded, mount>> /\ Fault
      /\ map_blk' \subseteq bitmap \cup map_blk
      /\ risk' = (risk \/ Window(t)) /\ Continue(t, <<>>, "EIO")
  BY DEF SaveFails
<1>2. Plans' /\ ret' \in Codes /\ CallTypes'
  BY <1>1, ShortPlans, ContinueType DEF StepsInv, CallTypes, Codes
<1>3. MountTypes'
  <2>1. risk' \in BOOLEAN
    BY <1>1
  <2> QED BY <1>1, <2>1, FaultType DEF StepsInv, MountTypes
<1> QED BY <1>1, <1>2, <1>3 DEF StepsInv, TypeOK, DiskUsable

LEMMA StopType == ASSUME StepsInv, Stop PROVE StepsInv'
<1>1. /\ UNCHANGED <<disk, map_blk, ret, result>> /\ bitmap' = map_blk /\ mount' = "down"
      /\ todo' = [t \in Threads |-> <<>>] /\ op' = [t \in Threads |-> "none"]
      /\ loaded' = [t \in Threads |-> <<>>] /\ locks' = [t \in Threads |-> {}]
  BY DEF Stop
<1>2. faults' \in 0 .. MaxFaults /\ risk' \in BOOLEAN
  BY FaultType DEF Stop, StepsInv, MountTypes
<1>3. Plans' /\ CallTypes'
  BY <1>1, ShortPlans DEF Plans, CallTypes, Ops, Loads, StepsInv
<1> QED BY <1>1, <1>2, <1>3 DEF StepsInv, TypeOK, DiskUsable, MountTypes, Mounts

LEMMA MountType == ASSUME StepsInv, Mount \/ MountFails PROVE StepsInv'
<1>1. /\ UNCHANGED <<disk, map_blk, ret, todo, op, result, loaded, locks, risk>>
      /\ mount' \in Mounts /\ bitmap' \in {map_blk, 0 .. DiskSize - 1}
  BY DEF Mount, MountFails, Mounts
<1>2. faults' \in 0 .. MaxFaults
  BY FaultType DEF Mount, MountFails, StepsInv, MountTypes
<1>3. TypeOK'
  BY <1>1 DEF StepsInv, TypeOK
<1> QED BY <1>1, <1>2, <1>3 DEF StepsInv, DiskUsable, Plans, CallTypes, MountTypes

-----------------------------------------------------------------------------
(* Type correctness *)

LEMMA InitUsable == ASSUME Init PROVE DiskUsable
<1> USE DiskAssumption
<1>1. Usable(Zeros) /\ Usable(Entries(NoEntries))
  BY NoPointersNeeded DEF Zeros, Entries
<1>2. ASSUME NEW m \in Nat, NEW ps, NEW sz, sz = m * BlockSize, ps[0] \in Blocks,
             \A k \in 0 .. m - 1 : ps[k] \in Blocks
      PROVE  Usable(AnInode("dir", sz, ps))
  <2>1. \A k \in 0 .. CeilDiv(sz) - 1 : k \in 0 .. m - 1
    BY <1>2, WholeBlocks
  <2>2. AnInode("dir", sz, ps).size = sz /\ AnInode("dir", sz, ps).ptrs = ps
    BY DEF AnInode
  <2> QED BY <1>2, <2>1, <2>2 DEF Usable, HasItsBlocks
<1>3. \A b \in Blocks : Usable(NarrowImage[b])
  <2>1. FirstPtr(RootBlock)[0] = RootBlock /\ RootBlock \in Blocks /\ BlockSize = 1 * BlockSize
    BY DEF FirstPtr, NullPtrs
  <2>2. \A k \in 0 .. 1 - 1 : FirstPtr(RootBlock)[k] \in Blocks
    BY <2>1
  <2>3. Usable(AnInode("dir", BlockSize, FirstPtr(RootBlock)))
    BY <1>2, <2>1, <2>2
  <2> QED BY <1>1, <2>3 DEF NarrowImage
<1>4. ASSUME NEW n \in Names, NEW b \in Blocks PROVE Usable(WideImage(n)[b])
  <2> DEFINE ps == [FirstPtr(4) EXCEPT ![1] = 5]
             top == AnInode("dir", 2 * BlockSize, ps)
             dk == [NarrowImage EXCEPT ![3] = top, ![4] = Entries(NoEntries),
                                       ![5] = Entries(NoEntries)]
  <2>1. ps[0] = 4 /\ ps[1] = 5 /\ 4 \in Blocks /\ 5 \in Blocks
    BY DEF FirstPtr, NullPtrs
  <2> HIDE DEF ps
  <2>2. \A k \in 0 .. 2 - 1 : ps[k] \in Blocks
    BY <2>1
  <2>3. Usable(top)
    BY <1>2, <2>1, <2>2
  <2>4. WideImage(n) = SetEntry(dk, RootBlock, 0, NewEntry(3, n))
    BY DEF WideImage, ps
  <2>5. DOMAIN NarrowImage = Blocks
    BY DEF NarrowImage
  <2> HIDE DEF top
  <2>6. dk[b] \in {NarrowImage[b], top, Entries(NoEntries)}
    BY <2>5
  <2>7. DOMAIN dk = Blocks
    BY <2>5
  <2> HIDE DEF dk
  <2>8. WideImage(n)[b] = dk[b] \/ \E es : WideImage(n)[b] = Entries(es)
    BY <2>4, <2>7 DEF SetEntry
  <2>9. \A es : Usable(Entries(es))
    BY NoPointersNeeded DEF Entries
  <2> QED BY <1>1, <1>3, <2>3, <2>6, <2>8, <2>9
<1> QED BY <1>3, <1>4 DEF Init, DiskUsable

LEMMA StepsInitType == StepsInit => StepsInv
<1> SUFFICES ASSUME StepsInit PROVE StepsInv
  OBVIOUS
<1>1. Init
  BY DEF StepsInit, TreeInit
<1>2. TypeOK /\ DiskUsable
  BY <1>1, InitType, InitUsable
<1>3. Plans
  BY ShortPlans DEF StepsInit, Plans
<1>4. CallTypes
  <2>1. "none" \in Ops /\ "ok" \in Codes /\ <<>> \in Loads
    BY DEF Ops, Codes, Loads
  <2> QED BY <2>1 DEF StepsInit, CallTypes
<1>5. MountTypes
  <2>1. mount \in Mounts /\ risk \in BOOLEAN
    BY DEF StepsInit, Mounts
  <2>2. faults \in 0 .. MaxFaults
    <3>1. faults = 0 /\ MaxFaults \in Nat
      BY StepsAssumption DEF StepsInit
    <3> QED BY <3>1
  <2> QED BY <2>1, <2>2 DEF MountTypes
<1> QED BY <1>2, <1>3, <1>4, <1>5 DEF StepsInv

LEMMA StepsNextType == StepsInv /\ [StepsNext]_vars_steps => StepsInv'
<1> SUFFICES ASSUME StepsInv, [StepsNext]_vars_steps PROVE StepsInv'
  OBVIOUS
<1>1. CASE UNCHANGED vars_steps
  BY <1>1 DEF vars_steps, vars, StepsInv, TypeOK, DiskUsable, Plans, CallTypes, MountTypes
<1>2. ASSUME NEW t \in Threads,
             \/ Refused(t) \/ Call(t)
             \/ Load(t) \/ Store(t) \/ PutBlock(t) \/ SaveBitmap(t)
             \/ PutFails(t) \/ SaveFails(t) \/ SaveNothing(t)
      PROVE  StepsInv'
  BY <1>2, RefusedType, CallType, LoadType, StoreType, PutBlockType, SaveType,
     PutFailsType, SaveFailsType
<1>3. CASE Stop \/ Mount \/ MountFails
  BY <1>3, StopType, MountType
<1> QED BY <1>1, <1>2, <1>3 DEF StepsNext

\* With any number of threads, whatever stops or fails and however often: what create,
\* mkdir, unlink, rmdir, rename, truncate and write put on the disk goes to a block of
\* the image, never to block 0 through a pointer that is not set, and is an inode, entries
\* or data. (Two threads can give one block to two files; even then.)
THEOREM StepsTypeCorrect == StepsSpec => []StepsTypeOK
<1>1. StepsInit => moved \subseteq Threads
  BY DEF StepsInit
<1>2. moved \subseteq Threads /\ [StepsNext]_vars_steps => (moved \subseteq Threads)'
  BY DEF StepsNext, vars_steps
<1> QED BY <1>1, <1>2, StepsInitType, StepsNextType, InvType, PTL DEF StepsSpec
=============================================================================
