--------------------------- MODULE PathWalkProofs ---------------------------
(***************************************************************************)
(* What PathWalk's two readings of a path agree on, for every tree, every  *)
(* path and every limit on components.                                     *)
(*                                                                         *)
(* Descend is a recursive function over the names.  That it exists, and    *)
(* what it returns when a name is appended, is shown first, by the least   *)
(* length that would be an exception.  The invariant then relates the      *)
(* walk of translate, the stack it keeps and the names resolve_path keeps: *)
(* none of the three properties is inductive without the others.           *)
(***************************************************************************)
EXTENDS PathWalk, SequenceTheorems, WellFoundedInduction, TLAPS

\* Every set of numbers has a least one: the form of induction used here.
LEMMA LeastOf ==
  ASSUME NEW T \in SUBSET Nat, T # {}
  PROVE  \E x \in T : \A y \in T : x <= y
<1>1. PICK x \in T : \A y \in T : ~ (<<y, x>> \in OpToRel(<, Nat))
  BY NatLessThanWellFounded, WFMin
<1>2. ASSUME NEW y \in T PROVE x <= y
  <2>1. x \in Nat /\ y \in Nat
    OBVIOUS
  <2>2. ~ (y < x)
    BY <1>1, <2>1 DEF OpToRel
  <2> QED BY <2>1, <2>2
<1> QED BY <1>2

IsWay(at, names, n) ==
  at = [k \in 0 .. n |-> IF k = 0 THEN Start ELSE MeansNext(at[k - 1], names[k])]

LEMMA WayParts ==
  ASSUME NEW names, NEW n \in Nat, NEW at, IsWay(at, names, n)
  PROVE  /\ at[0] = Start
         /\ \A k \in 1 .. n : at[k] = MeansNext(at[k - 1], names[k])
<1>1. \A k \in 0 .. n : at[k] = IF k = 0 THEN Start ELSE MeansNext(at[k - 1], names[k])
  BY DEF IsWay
<1> QED BY <1>1

LEMMA WayExists == ASSUME NEW names, NEW n \in Nat PROVE \E at : IsWay(at, names, n)
<1> DEFINE T == {m \in Nat : ~ \E at : IsWay(at, names, m)}
<1>1. SUFFICES ASSUME T # {} PROVE FALSE
  OBVIOUS
<1>2. PICK m \in T : \A y \in T : m <= y
  BY <1>1, LeastOf
<1>3. CASE m = 0
  <2> DEFINE at == [k \in 0 .. 0 |-> Start]
  <2>1. at = [k \in 0 .. 0 |-> IF k = 0 THEN Start ELSE MeansNext(at[k - 1], names[k])]
    OBVIOUS
  <2> QED BY <1>2, <1>3, <2>1 DEF IsWay
<1>4. CASE m # 0
  <2>1. m - 1 \in Nat /\ m \in Nat /\ m - 1 \notin T
    BY <1>2, <1>4
  <2>2. PICK at : IsWay(at, names, m - 1)
    BY <2>1
  <2>3. \A k \in 0 .. m - 1 : at[k] = IF k = 0 THEN Start ELSE MeansNext(at[k - 1], names[k])
    BY <2>1, <2>2, WayParts
  <2> DEFINE to == [k \in 0 .. m |-> IF k = 0 THEN Start ELSE MeansNext(at[k - 1], names[k])]
  <2>4. \A k \in 0 .. m - 1 : to[k] = at[k]
    BY <2>1, <2>3
  <2>5. \A k \in 0 .. m : k # 0 => k - 1 \in 0 .. m - 1
    BY <2>1
  <2>6. to = [k \in 0 .. m |-> IF k = 0 THEN Start ELSE MeansNext(to[k - 1], names[k])]
    BY <2>4, <2>5
  <2> HIDE DEF to
  <2> QED BY <1>2, <2>6 DEF IsWay
<1> QED BY <1>3, <1>4

\* Two ways agree as far as their names do.
LEMMA WaysAgree ==
  ASSUME NEW s, NEW t, NEW m \in Nat, NEW n \in Nat, m <= n, NEW at, NEW to,
         IsWay(at, s, m), IsWay(to, t, n), \A k \in 1 .. m : s[k] = t[k]
  PROVE  at[m] = to[m]
<1> DEFINE T == {k \in 0 .. m : at[k] # to[k]}
<1>1. SUFFICES ASSUME T # {} PROVE FALSE
  OBVIOUS
<1>2. PICK k \in T : \A y \in T : k <= y
  <2>1. T \in SUBSET Nat
    OBVIOUS
  <2> QED BY <1>1, <2>1, LeastOf
<1>3. k \in 0 .. m /\ k \in 0 .. n /\ at[k] # to[k]
  OBVIOUS
<1>4. CASE k = 0
  BY <1>3, <1>4, WayParts
<1>5. CASE k # 0
  <2>1. k \in 1 .. m /\ k \in 1 .. n /\ k - 1 \in 0 .. m /\ k - 1 \notin T
    BY <1>2, <1>3, <1>5
  <2>2. at[k - 1] = to[k - 1]
    BY <2>1
  <2>3. at[k] = MeansNext(at[k - 1], s[k]) /\ to[k] = MeansNext(to[k - 1], t[k])
    BY <2>1, WayParts
  <2> QED BY <1>3, <2>1, <2>2, <2>3
<1> QED BY <1>4, <1>5

LEMMA WayIsWay == ASSUME NEW names, Len(names) \in Nat PROVE IsWay(Way(names), names, Len(names))
<1>1. Way(names) = CHOOSE at : IsWay(at, names, Len(names))
  BY DEF Way, IsWay
<1> QED BY <1>1, WayExists

LEMMA WayNext ==
  \A names : Len(names) \in Nat => IsWay(Way(names), names, Len(names))'
<1>1. \A names : Len(names) \in Nat => IsWay(Way(names), names, Len(names))
  BY WayIsWay
<1>2. (\A names : Len(names) \in Nat => IsWay(Way(names), names, Len(names)))'
  BY <1>1, PTL
<1> QED BY <1>2

\* What Descend computes, by the last name of the sequence.
LEMMA DescendEmpty == Descend(<<>>) = Start
BY WayIsWay, WayParts DEF Descend

LEMMA DescendAppend ==
  ASSUME NEW S, NEW names \in Seq(S), NEW c \in S
  PROVE  Descend(Append(names, c)) = MeansNext(Descend(names), c)
<1> DEFINE more == Append(names, c)
           n == Len(names)
<1>1. /\ n \in Nat /\ Len(more) = n + 1 /\ more[n + 1] = c
      /\ \A k \in 1 .. n : names[k] = more[k]
  OBVIOUS
<1> HIDE DEF more, n
<1>2. IsWay(Way(names), names, n) /\ IsWay(Way(more), more, n + 1)
  BY <1>1, WayIsWay DEF n
<1>3. Way(names)[n] = Way(more)[n]
  BY <1>1, <1>2, WaysAgree
<1>4. Way(more)[n + 1] = MeansNext(Way(more)[n], c)
  <2>1. n + 1 \in 1 .. n + 1 /\ (n + 1) - 1 = n /\ n + 1 \in Nat
    BY <1>1
  <2> QED BY <1>1, <1>2, <2>1, WayParts
<1> QED BY <1>1, <1>3, <1>4 DEF Descend, more, n

LEMMA DescendSame ==
  ASSUME tree' = tree
  PROVE  \A names : Len(names) \in Nat => Descend(names)' = Descend(names)
<1>1. \A d, n : Lookup(d, n)' = Lookup(d, n)
  BY DEF Lookup
<1>2. \A d, c : Destinations(d, c)' = Destinations(d, c)
  BY <1>1 DEF Destinations
<1>3. \A w, c : MeansNext(w, c)' = MeansNext(w, c)
  BY <1>2 DEF MeansNext, Fault
<1>4. \A names : Len(names) \in Nat => IsWay(Way(names), names, Len(names))'
  BY WayNext
<1>5. \A at, names, n : IsWay(at, names, n)' = IsWay(at, names, n)
  BY <1>3 DEF IsWay, Start
<1> SUFFICES ASSUME NEW names, Len(names) \in Nat PROVE Descend(names)' = Descend(names)
  OBVIOUS
<1>6. IsWay(Way(names)', names, Len(names)) /\ IsWay(Way(names), names, Len(names))
  BY <1>4, <1>5, WayIsWay
<1>7. Way(names)'[Len(names)] = Way(names)[Len(names)]
  BY <1>6, WaysAgree
<1> QED BY <1>7 DEF Descend

-----------------------------------------------------------------------------
(* Types: the stack has an inode at every level translate can go back to *)

State == [inum : Inodes, err : Codes]

LevelsBounded ==
  /\ stack_pos <= Len(path) /\ Len(resolved) <= Len(path)
  /\ \A k \in 0 .. stack_pos : parent_stack[k] \in Inodes

TypeInv == TypeOK /\ LevelsBounded

LEMMA TreeParts ==
  ASSUME TypeOK
  PROVE  /\ tree \in Tree /\ Root \in tree.dirs /\ Root \in Inodes /\ tree.parent[Root] = Root
         /\ tree.parent \in [Inodes -> Inodes]
         /\ \A x, y \in Inodes \ {Root} :
              tree.parent[x] = tree.parent[y] /\ tree.name[x] = tree.name[y] => x = y
BY WalkAssumption DEF TypeOK, Tree

LEMMA MeansType ==
  ASSUME TypeOK, NEW w \in State, NEW c \in Component
  PROVE  MeansNext(w, c) \in State
<1>1. Destinations(w.inum, c) \subseteq Inodes
  BY TreeParts DEF Destinations, Lookup, State
<1>2. CASE w.err = "ok" /\ w.inum \in tree.dirs /\ Destinations(w.inum, c) # {}
  <2>1. PICK x : x = (CHOOSE y \in Destinations(w.inum, c) : TRUE) /\ x \in Inodes
    BY <1>1, <1>2
  <2>2. MeansNext(w, c) = [w EXCEPT !.inum = x]
    BY <1>2, <2>1 DEF MeansNext
  <2> QED BY <2>1, <2>2 DEF State
<1>3. CASE ~(w.err = "ok" /\ w.inum \in tree.dirs /\ Destinations(w.inum, c) # {})
  BY <1>3 DEF MeansNext, Fault, State, Codes
<1> QED BY <1>2, <1>3

LEMMA InitTypeInv == Init => TypeInv
<1> SUFFICES ASSUME Init PROVE TypeInv
  OBVIOUS
<1>1. Root \in Inodes /\ Trees \subseteq Tree /\ MaxComponents \in Nat \ {0}
  BY WalkAssumption
<1>2. TypeOK
  BY <1>1 DEF Init, TypeOK, Start, Codes, StackIndex
<1>3. LevelsBounded
  BY <1>1 DEF Init, LevelsBounded, StackIndex
<1> QED BY <1>2, <1>3 DEF TypeInv

LEMMA NextTypeInv == TypeInv /\ [Next]_vars => TypeInv'
<1> SUFFICES ASSUME TypeInv, [Next]_vars PROVE TypeInv'
  OBVIOUS
<1> USE DEF TypeInv
<1>0. MaxComponents \in Nat \ {0} /\ Names \subseteq Component
  BY WalkAssumption DEF Component
<1>1. ASSUME NEW c \in Component, NextComponent(c)
      PROVE  /\ tree' \in Trees /\ path' \in Seq(Component) /\ Len(path') = Len(path) + 1
             /\ meant' \in State
  <2>1. meant' \in State
    BY <1>1, MeansType DEF NextComponent, TypeOK, State
  <2> QED BY <1>1, <2>1 DEF NextComponent, TypeOK
<1>2. CASE UNCHANGED vars
  BY <1>2 DEF vars, TypeOK, LevelsBounded
<1>3. ASSUME NEW c \in Component, NextComponent(c),
             UNCHANGED <<inum, err, parent_stack, stack_pos, resolved, ups, overrun>>
      PROVE  TypeInv'
  BY <1>0, <1>1, <1>3 DEF TypeOK, LevelsBounded, State, StackIndex
<1>4. CASE Dot
  BY <1>3, <1>4 DEF Dot, Seen, Component
<1>5. ASSUME NEW c \in Component, CutOff(c) PROVE TypeInv'
  BY <1>3, <1>5 DEF CutOff
<1>6. ASSUME NEW n \in Names, Name(n) PROVE TypeInv'
  <2>1. /\ tree' \in Trees /\ path' \in Seq(Component) /\ Len(path') = Len(path) + 1
        /\ meant' \in State
    BY <1>0, <1>1, <1>6 DEF Name, Seen
  <2>2. /\ Len(path) < MaxComponents /\ ups' = ups
        /\ resolved' \in Seq(Names) /\ Len(resolved') = Len(resolved) + 1
    BY <1>6 DEF Name, Seen, TypeOK
  <2>3. ASSUME NEW e \in Codes, Returned(e) PROVE TypeInv'
    BY <1>0, <2>1, <2>2, <2>3 DEF Returned, TypeOK, LevelsBounded, State, StackIndex
  <2>4. ASSUME inum' \in Lookup(inum, n), Pushed, UNCHANGED <<err, overrun>>
        PROVE  TypeInv'
    <3>1. inum' \in Inodes
      BY <2>4 DEF Lookup
    <3>2. /\ parent_stack' \in [StackIndex -> Inodes \cup {NoInode}]
          /\ \A k \in 0 .. stack_pos' : parent_stack'[k] \in Inodes
      BY SMTT(30), <1>0, <2>4 DEF Pushed, TypeOK, LevelsBounded, StackIndex
    <3>3. stack_pos' \in StackIndex /\ stack_pos' <= Len(path')
      BY <1>0, <2>1, <2>2, <2>4 DEF Pushed, TypeOK, LevelsBounded, StackIndex
    <3> QED BY <2>1, <2>2, <2>4, <3>1, <3>2, <3>3 DEF TypeOK, LevelsBounded, State
  <2>5. "ENOTDIR" \in Codes /\ "ENOENT" \in Codes /\ err \in Codes
    BY DEF Codes, TypeOK
  <2>6. ASSUME Overrun PROVE TypeInv'
    <3>1. stack_pos \in Int /\ stack_pos <= Len(path')
      BY <1>0, <2>1 DEF TypeOK, LevelsBounded, StackIndex
    <3>2. overrun' \subseteq {MaxComponents}
      BY <1>0, <2>6 DEF Overrun, TypeOK, StackIndex
    <3> QED BY <2>1, <2>2, <2>6, <3>1, <3>2 DEF Overrun, TypeOK, LevelsBounded, State
  <2> QED BY <1>6, <2>3, <2>4, <2>5, <2>6 DEF Name, TranslateName
<1>7. CASE DotDot
  <2>1. /\ tree' \in Trees /\ path' \in Seq(Component) /\ Len(path') = Len(path) + 1
        /\ meant' \in State
    BY <1>1, <1>7 DEF DotDot, Seen, Component
  <2>2. resolved' \in Seq(Names) /\ Len(resolved') <= Len(path')
    <3>1. CASE resolved = <<>>
      BY <1>7, <2>1, <3>1 DEF DotDot, StruckOut, TypeOK
    <3>2. CASE resolved # <<>>
      <4>1. resolved' = SubSeq(resolved, 1, Len(resolved) - 1)
        BY <1>7, <3>2 DEF DotDot, StruckOut, Front
      <4>2. resolved \in Seq(Names) /\ Len(resolved) \in Nat \ {0}
        BY <3>2, EmptySeq DEF TypeOK
      <4> QED BY <2>1, <4>1, <4>2 DEF LevelsBounded, TypeOK
    <3> QED BY <3>1, <3>2
  <2>3. ups' \subseteq 0 .. MaxComponents
    <3>1. ups' = ups \cup {Len(resolved)} /\ Len(path) < MaxComponents
      BY <1>7 DEF DotDot, Seen
    <3>2. Len(resolved) \in Nat /\ Len(path) \in Nat /\ Len(resolved) <= Len(path)
      BY DEF TypeOK, LevelsBounded
    <3>3. Len(resolved) \in 0 .. MaxComponents
      BY <1>0, <3>1, <3>2
    <3> QED BY <3>1, <3>3 DEF TypeOK
  <2>4. inum' \in Inodes /\ stack_pos' \in 0 .. stack_pos
    <3>1. CASE err = "ok" /\ stack_pos > 0
      <4>1. stack_pos - 1 \in 0 .. stack_pos
        BY <1>0, <3>1 DEF TypeOK, StackIndex
      <4> QED BY <1>7, <3>1, <4>1 DEF DotDot, TranslateUp, Popped, LevelsBounded, TypeOK
    <3>2. CASE ~(err = "ok" /\ stack_pos > 0)
      BY <1>0, <1>7, <3>2 DEF DotDot, TranslateUp, TypeOK, StackIndex
    <3> QED BY <3>1, <3>2
  <2>5. stack_pos' \in StackIndex
    BY <1>0, <2>4 DEF TypeOK, StackIndex
  <2> QED BY <1>0, <1>7, <2>1, <2>2, <2>3, <2>4, <2>5
          DEF DotDot, TypeOK, LevelsBounded, State, StackIndex
<1> QED BY <1>2, <1>4, <1>5, <1>6, <1>7 DEF Next

\* Every variable of the walk has its type: while the one push behind the array
\* that overrun records has not happened, every push and every pop of translate's
\* stack is of an element the array has, and no pop reads one that was not written.
THEOREM WalkTypeCorrect == Spec => []TypeOK
<1>1. TypeInv => TypeOK
  BY DEF TypeInv
<1> QED BY InitTypeInv, NextTypeInv, <1>1, PTL DEF Spec

-----------------------------------------------------------------------------
(* Where translate stands is where the names resolve_path kept lead        *)

WalkInv ==
  /\ TypeInv /\ parent_stack[0] = Root
  /\ FreesWhatItUnlinks /\ StackIsTheWayDown /\ TranslateFindsIt

LEMMA MeansName ==
  ASSUME TypeOK, NEW n \in Names, NEW d \in tree.dirs, NEW x \in Lookup(d, n)
  PROVE  MeansNext([inum |-> d, err |-> "ok"], n) = [inum |-> x, err |-> "ok"]
<1>1. n # "." /\ n # ".."
  BY WalkAssumption
<1>2. Destinations(d, n) = Lookup(d, n)
  BY <1>1 DEF Destinations
<1>3. Lookup(d, n) = {x}
  BY TreeParts DEF Lookup
<1> DEFINE w == [inum |-> d, err |-> "ok"]
<1>4. w.err = "ok" /\ w.inum = d
  OBVIOUS
<1>5. MeansNext(w, n) = [w EXCEPT !.inum = CHOOSE y \in {x} : TRUE]
  <2>1. Destinations(w.inum, n) = {x}
    BY <1>2, <1>3, <1>4
  <2> HIDE DEF w
  <2> QED BY <1>4, <2>1 DEF MeansNext
<1>6. (CHOOSE y \in {x} : TRUE) = x
  OBVIOUS
<1> QED BY <1>5, <1>6

\* A name that is found leads to an entry of the directory it was looked up in.
LEMMA MeansFound ==
  ASSUME TypeOK, NEW n \in Names, NEW d, NEW x,
         MeansNext([inum |-> d, err |-> "ok"], n) = [inum |-> x, err |-> "ok"]
  PROVE  d \in tree.dirs /\ x \in Lookup(d, n)
<1> DEFINE w == [inum |-> d, err |-> "ok"]
<1>1. w.err = "ok" /\ w.inum = d /\ n # "." /\ n # ".."
  BY WalkAssumption
<1>2. d \in tree.dirs
  <2>1. CASE d \notin tree.dirs
    <3>1. MeansNext(w, n) = [w EXCEPT !.err = "ENOTDIR"]
      BY <1>1, <2>1 DEF MeansNext, Fault
    <3> QED BY <3>1
  <2> QED BY <2>1
<1>3. Destinations(d, n) = Lookup(d, n)
  BY <1>1 DEF Destinations
<1>4. Lookup(d, n) # {}
  <2>1. CASE Lookup(d, n) = {}
    <3>1. MeansNext(w, n) = [w EXCEPT !.err = "ENOENT"]
      BY <1>1, <1>2, <1>3, <2>1 DEF MeansNext, Fault
    <3> QED BY <3>1
  <2> QED BY <2>1
<1>5. PICK y \in Lookup(d, n) : TRUE
  BY <1>4
<1>6. x = y
  <2>1. [inum |-> x, err |-> "ok"] = [inum |-> y, err |-> "ok"]
    <3> HIDE DEF w
    <3>1. y \in Lookup(d, n) /\ d \in tree.dirs
      BY <1>2, <1>5
    <3>2. MeansNext([inum |-> d, err |-> "ok"], n) = [inum |-> y, err |-> "ok"]
      BY <3>1, MeansName
    <3> QED BY <3>2
  <2>2. [inum |-> x, err |-> "ok"].inum = [inum |-> y, err |-> "ok"].inum
    BY <2>1
  <2> QED BY <2>2
<1> QED BY <1>2, <1>5, <1>6

LEMMA DotsStay ==
  ASSUME TypeOK, NEW c, path' = Append(path, c)
  PROVE  (c \in {".", ".."} \/ HasDots) => HasDots'
<1>1. path \in Seq(Component) /\ Len(path) \in Nat
  BY DEF TypeOK
<1>2. c \in Range(Append(path, c)) /\ Range(path) \subseteq Range(Append(path, c))
  BY <1>1 DEF Range
<1> QED BY <1>2 DEF HasDots

\* No property depends on what comes after a path was found not to exist, or on
\* the components that are cut off.
LEMMA SameWalk ==
  ASSUME WalkInv, tree' = tree, UNCHANGED <<inum, err, parent_stack, stack_pos, resolved, ups, overrun>>
  PROVE  /\ parent_stack'[0] = Root /\ FreesWhatItUnlinks' /\ StackIsTheWayDown'
         /\ Shallow' = Shallow
<1>1. Len(resolved) \in Nat
  BY DEF WalkInv, TypeInv, TypeOK
<1>2. Descend(resolved)' = Descend(resolved)
  BY <1>1, DescendSame
<1>3. FreesWhatItUnlinks'
  BY <1>2 DEF WalkInv, FreesWhatItUnlinks, Shallow
<1>4. \A k \in 1 .. stack_pos :
        Descend(SubSeq(resolved, 1, k - 1))' = Descend(SubSeq(resolved, 1, k - 1))
  <2> SUFFICES ASSUME NEW k \in 1 .. stack_pos
               PROVE  Descend(SubSeq(resolved, 1, k - 1))' = Descend(SubSeq(resolved, 1, k - 1))
    OBVIOUS
  <2>1. Len(SubSeq(resolved, 1, k - 1)) \in Nat
    BY DEF WalkInv, TypeInv, TypeOK
  <2> QED BY <2>1, DescendSame
<1>5. StackIsTheWayDown'
  BY <1>4 DEF WalkInv, StackIsTheWayDown, Shallow
<1> QED BY <1>3, <1>5 DEF WalkInv, Shallow

\* "..", from the root or from the first level, leads to the root.
LEMMA UpToRoot ==
  ASSUME WalkInv, DotDot, Shallow', overrun = {}, err = "ok"
  PROVE  /\ inum' = Root /\ stack_pos' = 0 /\ resolved' = <<>>
         /\ inum \in tree.dirs => tree.parent[inum] = Root
<1>1. TypeOK /\ resolved \in Seq(Names) /\ stack_pos = Len(resolved)
  BY DEF WalkInv, TypeInv, TypeOK, StackIsTheWayDown
<1>2. Len(resolved) \in {0, 1} /\ Shallow
  BY DEF DotDot, Shallow
<1>3. Descend(resolved) = [inum |-> inum, err |-> "ok"]
  BY <1>2 DEF WalkInv, FreesWhatItUnlinks
<1>4. CASE Len(resolved) = 0
  <2>1. resolved = <<>>
    BY <1>1, <1>4, EmptySeq
  <2>2. [inum |-> inum, err |-> "ok"] = Start
    BY <1>3, <2>1, DescendEmpty
  <2>3. inum = Root
    BY <2>2 DEF Start
  <2> QED BY <1>1, <1>4, <2>1, <2>3, TreeParts DEF DotDot, TranslateUp, StruckOut
<1>5. CASE Len(resolved) = 1
  <2>1. PICK n \in Names : resolved = Append(<<>>, n)
    <3>1. resolved[1] \in Names /\ resolved = Append(<<>>, resolved[1])
      BY <1>1, <1>5
    <3> QED BY <3>1
  <2>2. <<>> \in Seq(Names)
    BY EmptySeq
  <2>3. MeansNext(Start, n) = [inum |-> inum, err |-> "ok"]
    BY <1>3, <2>1, <2>2, DescendAppend, DescendEmpty
  <2>4. inum \in Lookup(Root, n)
    BY <1>1, <2>3, MeansFound DEF Start
  <2>5. tree.parent[inum] = Root
    BY <2>4 DEF Lookup
  <2>6. resolved' = <<>>
    BY <1>1, <1>5 DEF DotDot, StruckOut, Front
  <2> QED BY <1>1, <1>5, <2>5, <2>6 DEF DotDot, TranslateUp, Popped, WalkInv
<1> QED BY <1>2, <1>4, <1>5

LEMMA UpNext ==
  ASSUME WalkInv, TypeInv', DotDot
  PROVE  WalkInv'
<1>1. /\ TypeOK /\ TypeOK' /\ meant \in State /\ Len(path') = Len(path) + 1
      /\ tree' = tree /\ path' = Append(path, "..") /\ meant' = MeansNext(meant, "..")
      /\ err' = err /\ parent_stack' = parent_stack /\ overrun' = overrun
  BY DEF WalkInv, TypeInv, TypeOK, DotDot, Seen, NextComponent, State
<1>2. Shallow' => Shallow
  BY DEF DotDot, Shallow
<1>3. FreesWhatItUnlinks'
  <2> SUFFICES ASSUME Shallow', overrun = {}, err = "ok"
               PROVE  Descend(resolved)' = [inum |-> inum', err |-> "ok"]
    BY <1>1 DEF FreesWhatItUnlinks
  <2>1. inum' = Root /\ resolved' = <<>> /\ Len(<<>>) \in Nat
    BY UpToRoot
  <2>2. Descend(<<>>)' = Descend(<<>>)
    BY <1>1, <2>1, DescendSame
  <2> QED BY <2>1, <2>2, DescendEmpty DEF Start
<1>4. StackIsTheWayDown'
  <2> SUFFICES ASSUME err = "ok", overrun = {}
               PROVE  /\ stack_pos' = Len(resolved')
                      /\ Shallow' => stack_pos' = 0
    BY <1>1 DEF StackIsTheWayDown
  <2>1. stack_pos' = Len(resolved')
    <3>1. resolved \in Seq(Names) /\ stack_pos = Len(resolved) /\ Len(resolved) \in Nat
      BY <1>1 DEF WalkInv, TypeOK, StackIsTheWayDown
    <3>2. CASE resolved = <<>>
      BY <3>1, <3>2 DEF DotDot, StruckOut, TranslateUp
    <3>3. CASE resolved # <<>>
      <4>1. Len(resolved) \in Nat \ {0} /\ resolved' = SubSeq(resolved, 1, Len(resolved) - 1)
        BY <3>1, <3>3, EmptySeq DEF DotDot, StruckOut, Front
      <4>2. Len(resolved') = Len(resolved) - 1
        BY <3>1, <4>1
      <4> QED BY <3>1, <4>1, <4>2 DEF DotDot, TranslateUp
    <3> QED BY <3>2, <3>3
  <2> QED BY <2>1, UpToRoot
<1>5. TranslateFindsIt'
  <2> SUFFICES ASSUME Whole', Shallow', overrun' = {}
               PROVE  (Agrees \/ (meant.err = "ENOTDIR" /\ HasDots))'
    BY DEF TranslateFindsIt
  <2>1. HasDots' /\ (Agrees \/ meant.err = "ENOTDIR")
    <3>1. HasDots'
      BY <1>1, DotsStay
    <3>2. Len(path) \in Nat /\ MaxComponents \in Nat
      BY <1>1, WalkAssumption DEF TypeOK
    <3>3. Whole /\ Shallow
      BY <1>1, <1>2, <3>2 DEF Whole
    <3> QED BY <1>1, <3>1, <3>3 DEF WalkInv, TranslateFindsIt
  <2>2. CASE meant.err # "ok"
    <3>1. meant' = meant
      BY <1>1, <2>2 DEF MeansNext
    <3> QED BY <1>1, <2>1, <2>2, <3>1 DEF Agrees
  <2>3. CASE meant.err = "ok"
    <3>1. err = "ok" /\ meant.inum = inum
      BY <2>1, <2>3 DEF Agrees
    <3>2. inum' = Root /\ (inum \in tree.dirs => tree.parent[inum] = Root)
      BY <1>1, <3>1, UpToRoot
    <3>3. CASE inum \notin tree.dirs
      <4>1. meant' = [meant EXCEPT !.err = "ENOTDIR"]
        BY <1>1, <2>3, <3>1, <3>3 DEF MeansNext, Fault
      <4> QED BY <1>1, <2>1, <4>1 DEF State
    <3>4. CASE inum \in tree.dirs
      <4>1. Destinations(meant.inum, "..") = {Root}
        BY <3>1, <3>2, <3>4 DEF Destinations
      <4>2. meant' = [meant EXCEPT !.inum = Root]
        <5>1. (CHOOSE x \in {Root} : TRUE) = Root
          OBVIOUS
        <5> QED BY <1>1, <2>3, <3>1, <3>4, <4>1, <5>1 DEF MeansNext
      <4> QED BY <1>1, <2>3, <3>1, <3>2, <4>2 DEF Agrees, State
    <3> QED BY <3>3, <3>4
  <2> QED BY <2>2, <2>3
<1> QED BY <1>1, <1>3, <1>4, <1>5 DEF WalkInv

LEMMA DotNext ==
  ASSUME WalkInv, TypeInv', Dot
  PROVE  WalkInv'
<1>1. /\ TypeOK /\ meant \in State /\ Len(path') = Len(path) + 1
      /\ tree' = tree /\ path' = Append(path, ".") /\ meant' = MeansNext(meant, ".")
      /\ UNCHANGED <<inum, err, parent_stack, stack_pos, resolved, ups, overrun>>
  BY DEF WalkInv, TypeInv, TypeOK, Dot, Seen, NextComponent, State
<1>2. /\ parent_stack'[0] = Root /\ FreesWhatItUnlinks' /\ StackIsTheWayDown'
      /\ Shallow' = Shallow
  BY <1>1, SameWalk
<1>3. TranslateFindsIt'
  <2> SUFFICES ASSUME Whole', Shallow', overrun' = {}
               PROVE  (Agrees \/ (meant.err = "ENOTDIR" /\ HasDots))'
    BY DEF TranslateFindsIt
  <2>1. HasDots' /\ (Agrees \/ meant.err = "ENOTDIR")
    <3>1. HasDots'
      BY <1>1, DotsStay
    <3>2. Len(path) \in Nat /\ MaxComponents \in Nat
      BY <1>1, WalkAssumption DEF TypeOK
    <3>3. Whole /\ Shallow
      BY <1>1, <1>2, <3>2 DEF Whole
    <3> QED BY <1>1, <3>1, <3>3 DEF WalkInv, TranslateFindsIt
  <2>2. CASE meant.err # "ok"
    <3>1. meant' = meant
      BY <1>1, <2>2 DEF MeansNext
    <3> QED BY <1>1, <2>1, <2>2, <3>1 DEF Agrees
  <2>3. CASE meant.err = "ok" /\ meant.inum \notin tree.dirs
    <3>1. meant' = [meant EXCEPT !.err = "ENOTDIR"]
      BY <1>1, <2>3 DEF MeansNext, Fault
    <3> QED BY <1>1, <2>1, <3>1 DEF State
  <2>4. CASE meant.err = "ok" /\ meant.inum \in tree.dirs
    <3>1. Destinations(meant.inum, ".") = {meant.inum}
      BY DEF Destinations
    <3>2. (CHOOSE x \in {meant.inum} : TRUE) = meant.inum
      OBVIOUS
    <3>3. meant' = [meant EXCEPT !.inum = meant.inum]
      BY <1>1, <2>4, <3>1, <3>2 DEF MeansNext
    <3>4. meant' = meant
      BY <1>1, <3>3 DEF State
    <3> QED BY <1>1, <2>1, <2>4, <3>4 DEF Agrees
  <2> QED BY <2>2, <2>3, <2>4
<1> QED BY <1>2, <1>3 DEF WalkInv

LEMMA CutNext ==
  ASSUME WalkInv, TypeInv', NEW c, CutOff(c)
  PROVE  WalkInv'
<1>1. /\ parent_stack'[0] = Root /\ FreesWhatItUnlinks' /\ StackIsTheWayDown'
  BY SameWalk DEF CutOff, NextComponent
<1>2. ~Whole'
  <2>1. Len(path) \in Nat /\ MaxComponents \in Nat /\ path \in Seq(Component)
    BY WalkAssumption DEF WalkInv, TypeInv, TypeOK
  <2>2. Len(path') = Len(path) + 1 /\ Len(path) >= MaxComponents
    BY <2>1 DEF CutOff, NextComponent
  <2> QED BY <2>1, <2>2 DEF Whole
<1> QED BY <1>1, <1>2 DEF WalkInv, TranslateFindsIt

LEMMA StutterNext ==
  ASSUME WalkInv, TypeInv', UNCHANGED vars
  PROVE  WalkInv'
<1>1. /\ parent_stack'[0] = Root /\ FreesWhatItUnlinks' /\ StackIsTheWayDown'
      /\ Shallow' = Shallow
  BY SameWalk DEF vars
<1> QED BY <1>1 DEF WalkInv, TranslateFindsIt, Whole, Agrees, HasDots, vars

\* The name was found: translate and resolve_path both go one level down.
LEMMA NameFound ==
  ASSUME WalkInv, TypeInv', NEW n \in Names, Name(n), err' = "ok", overrun' = {}
  PROVE  FreesWhatItUnlinks' /\ StackIsTheWayDown'
<1>1. /\ TypeOK /\ resolved \in Seq(Names) /\ Len(resolved) \in Nat /\ tree' = tree
      /\ resolved' = Append(resolved, n) /\ Len(resolved') = Len(resolved) + 1 /\ ups' = ups
  BY DEF WalkInv, TypeInv, TypeOK, Name, Seen, NextComponent
<1>2. /\ err = "ok" /\ inum \in tree.dirs /\ inum' \in Lookup(inum, n)
      /\ Pushed /\ overrun = {}
  BY DEF Name, TranslateName, Returned, Overrun
<1>3. stack_pos = Len(resolved) /\ (Shallow' => Shallow)
  BY <1>1, <1>2 DEF WalkInv, StackIsTheWayDown, Shallow
<1>4. Shallow => Descend(resolved) = [inum |-> inum, err |-> "ok"]
  BY <1>2 DEF WalkInv, FreesWhatItUnlinks
<1>5. FreesWhatItUnlinks'
  <2> SUFFICES ASSUME Shallow PROVE Descend(resolved)' = [inum |-> inum', err |-> "ok"]
    BY <1>3 DEF FreesWhatItUnlinks
  <2>1. Descend(Append(resolved, n)) = MeansNext([inum |-> inum, err |-> "ok"], n)
    BY <1>1, <1>4, DescendAppend
  <2>2. Descend(Append(resolved, n)) = [inum |-> inum', err |-> "ok"]
    BY <1>1, <1>2, <2>1, MeansName
  <2>3. Descend(resolved)' = Descend(Append(resolved, n))
    BY <1>1, DescendSame
  <2> QED BY <2>2, <2>3
<1>6. StackIsTheWayDown'
  <2> SUFFICES ASSUME Shallow', NEW k \in 1 .. stack_pos'
               PROVE  parent_stack'[k] = Descend(SubSeq(resolved, 1, k - 1))'.inum
    BY <1>1, <1>2, <1>3 DEF StackIsTheWayDown, Pushed
  <2>0. k \in 1 .. stack_pos + 1 /\ k \in StackIndex /\ stack_pos \in Nat
    BY <1>1, <1>2, WalkAssumption DEF TypeOK, StackIndex, Pushed
  <2>1. SubSeq(resolved', 1, k - 1) = SubSeq(resolved, 1, k - 1)
    BY <1>1, <1>3, <2>0
  <2>2. Len(SubSeq(resolved, 1, k - 1)) \in Nat
    BY <1>1, <2>0
  <2>3. Descend(SubSeq(resolved, 1, k - 1))' = Descend(SubSeq(resolved, 1, k - 1))
    BY <1>1, <2>1, <2>2, DescendSame
  <2>4. CASE k = stack_pos + 1
    <3>1. SubSeq(resolved, 1, k - 1) = resolved
      BY <1>1, <1>3, <2>0, <2>4
    <3>2. parent_stack'[k] = inum
      BY <1>1, <1>2, <2>0, <2>4 DEF Pushed, TypeOK
    <3>3. Descend(resolved) = [inum |-> inum, err |-> "ok"]
      BY <1>3, <1>4
    <3>4. PICK s : s = SubSeq(resolved, 1, k - 1) /\ s = resolved
      BY <3>1
    <3>5. Descend(s).inum = inum
      <4>1. Descend(s) = Descend(resolved)
        BY <3>4
      <4>2. [inum |-> inum, err |-> "ok"].inum = inum
        OBVIOUS
      <4> QED BY <3>3, <4>1, <4>2
    <3>6. Descend(SubSeq(resolved, 1, k - 1)).inum = inum
      BY <3>4, <3>5
    <3> QED BY <2>3, <3>2, <3>6
  <2>5. CASE k \in 1 .. stack_pos
    <3>1. parent_stack'[k] = parent_stack[k]
      <4>1. k # stack_pos + 1 /\ DOMAIN parent_stack = StackIndex
        BY <1>1, <2>0, <2>5 DEF TypeOK
      <4> QED BY <1>2, <2>0, <4>1 DEF Pushed
    <3>2. parent_stack[k] = Descend(SubSeq(resolved, 1, k - 1)).inum
      BY <1>2, <1>3, <2>5 DEF WalkInv, StackIsTheWayDown
    <3> QED BY <2>3, <3>1, <3>2
  <2> QED BY <2>0, <2>4, <2>5
<1> QED BY <1>5, <1>6

LEMMA NameNext ==
  ASSUME WalkInv, TypeInv', NEW n \in Names, Name(n)
  PROVE  WalkInv'
<1>1. /\ TypeOK /\ meant \in State /\ Len(path') = Len(path) + 1
      /\ tree' = tree /\ path' = Append(path, n) /\ meant' = MeansNext(meant, n)
      /\ ups' = ups
  BY DEF WalkInv, TypeInv, TypeOK, Name, Seen, NextComponent, State
<1>2. FreesWhatItUnlinks' /\ StackIsTheWayDown'
  BY NameFound DEF FreesWhatItUnlinks, StackIsTheWayDown
<1>3. parent_stack'[0] = Root
  <2>1. MaxComponents \in Nat \ {0} /\ stack_pos \in Nat /\ 0 \in StackIndex
    BY <1>1, WalkAssumption DEF TypeOK, StackIndex
  <2> QED BY <1>1, <2>1 DEF WalkInv, Name, TranslateName, Returned, Pushed, Overrun, TypeOK
<1>4. TranslateFindsIt'
  <2> SUFFICES ASSUME Whole', Shallow', overrun' = {}
               PROVE  (Agrees \/ (meant.err = "ENOTDIR" /\ HasDots))'
    BY DEF TranslateFindsIt
  <2>1. Agrees \/ (meant.err = "ENOTDIR" /\ HasDots)
    <3>1. Len(path) \in Nat /\ MaxComponents \in Nat
      BY <1>1, WalkAssumption DEF TypeOK
    <3>2. Whole /\ Shallow
      BY <1>1, <3>1 DEF Whole, Shallow
    <3>3. overrun = {}
      BY DEF Name, TranslateName, Returned, Overrun
    <3> QED BY <3>2, <3>3 DEF WalkInv, TranslateFindsIt
  <2>2. CASE meant.err # "ok"
    <3>1. meant' = meant
      BY <1>1, <2>2 DEF MeansNext
    <3>2. CASE Agrees
      <4>1. err' = err
        BY <2>2, <3>2 DEF Agrees, Name, TranslateName, Returned
      <4> QED BY <2>2, <3>1, <3>2, <4>1 DEF Agrees
    <3>3. CASE meant.err = "ENOTDIR" /\ HasDots
      BY <1>1, <3>1, <3>3, DotsStay
    <3> QED BY <2>1, <3>2, <3>3
  <2>3. CASE meant.err = "ok"
    <3>1. err = "ok" /\ meant.inum = inum
      BY <2>1, <2>3 DEF Agrees
    <3>2. meant = [inum |-> inum, err |-> "ok"]
      BY <1>1, <2>3, <3>1 DEF State
    <3>3. Destinations(inum, n) = Lookup(inum, n)
      BY WalkAssumption DEF Destinations
    <3>4. CASE inum \notin tree.dirs
      <4>1. meant' = [meant EXCEPT !.err = "ENOTDIR"]
        BY <1>1, <3>1, <2>3, <3>4 DEF MeansNext, Fault
      <4>2. err' = "ENOTDIR"
        BY <3>1, <3>4 DEF Name, TranslateName, Returned
      <4> QED BY <3>2, <4>1, <4>2 DEF Agrees
    <3>5. CASE inum \in tree.dirs /\ Lookup(inum, n) = {}
      <4>1. meant' = [meant EXCEPT !.err = "ENOENT"]
        BY <1>1, <2>3, <3>1, <3>3, <3>5 DEF MeansNext, Fault
      <4>2. err' = "ENOENT"
        BY <3>1, <3>5 DEF Name, TranslateName, Returned, Overrun
      <4> QED BY <3>2, <4>1, <4>2 DEF Agrees
    <3>6. CASE inum \in tree.dirs /\ Lookup(inum, n) # {}
      <4>1. inum' \in Lookup(inum, n) /\ err' = "ok"
        BY <3>1, <3>6 DEF Name, TranslateName, Overrun
      <4>2. meant' = [inum |-> inum', err |-> "ok"]
        BY <1>1, <3>2, <3>6, <4>1, MeansName
      <4> QED BY <4>1, <4>2 DEF Agrees
    <3> QED BY <3>4, <3>5, <3>6
  <2> QED BY <2>2, <2>3
<1> QED BY <1>2, <1>3, <1>4 DEF WalkInv

-----------------------------------------------------------------------------
(* The theorems *)

LEMMA InitWalkInv == Init => WalkInv
<1> SUFFICES ASSUME Init PROVE WalkInv
  OBVIOUS
<1>1. TypeInv
  BY InitTypeInv
<1>2. parent_stack[0] = Root
  BY WalkAssumption DEF Init, StackIndex
<1>3. FreesWhatItUnlinks
  BY DescendEmpty DEF Init, FreesWhatItUnlinks, Start
<1>4. StackIsTheWayDown
  BY DEF Init, StackIsTheWayDown
<1>5. TranslateFindsIt
  BY DEF Init, TranslateFindsIt, Agrees, Start
<1> QED BY <1>1, <1>2, <1>3, <1>4, <1>5 DEF WalkInv

LEMMA WalkInvHolds == Spec => []WalkInv
<1>1. WalkInv /\ [Next]_vars => WalkInv'
  <2> SUFFICES ASSUME WalkInv, [Next]_vars PROVE WalkInv'
    OBVIOUS
  <2>1. TypeInv'
    BY NextTypeInv DEF WalkInv
  <2> QED BY <2>1, DotNext, UpNext, NameNext, CutNext, StutterNext DEF Next
<1> QED BY InitWalkInv, <1>1, PTL DEF Spec

\* Whatever the tree and the path: while ".." starts no deeper than the first
\* level, translate finds what the path means, or says why it means nothing.
THEOREM WalkFinds == Spec => []TranslateFindsIt
<1>1. WalkInv => TranslateFindsIt
  BY DEF WalkInv
<1> QED BY <1>1, WalkInvHolds, PTL

\* The inode unlink and rmdir free is the one the entry they clear leads to.
THEOREM WalkFreesWhatItUnlinks == Spec => []FreesWhatItUnlinks
<1>1. WalkInv => FreesWhatItUnlinks
  BY DEF WalkInv
<1> QED BY <1>1, WalkInvHolds, PTL

\* The stack holds the way down, and is as high as what resolve_path keeps.
THEOREM WalkStack == Spec => []StackIsTheWayDown
<1>1. WalkInv => StackIsTheWayDown
  BY DEF WalkInv
<1> QED BY <1>1, WalkInvHolds, PTL
=============================================================================
