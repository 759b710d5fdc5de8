------------------------------ MODULE PathWalk ------------------------------
(***************************************************************************)
(* How homework.c finds what a path names.  translate walks down from the  *)
(* root and keeps a stack for "..".  create, mkdir, unlink, rmdir and      *)
(* rename also call resolve_path, which strikes out "." and ".." by their  *)
(* spelling, and then translate the parent: unlink and rmdir free the      *)
(* inode translate found, and clear the entry of the last name resolved.   *)
(*                                                                         *)
(* The path grows by one component per step, and a step runs the body of   *)
(* either loop on it: in each state the variables are what the two         *)
(* functions return for the path so far.  The tree does not change         *)
(* meanwhile.  Reading an inode or a block does not fail.                  *)
(***************************************************************************)
EXTENDS Naturals, SequencesExt

CONSTANTS
  Inodes, Root,      \* inode numbers, and the root's
  NoInode,           \* what is in an element of parent_stack nobody has written
  Names,             \* what directory entries are called
  MaxComponents,     \* MAX_PATH_LEN: components pathparse keeps
  MaxPath,           \* bound: components of the paths tried
  Trees              \* the trees tried

\* parent and name place an inode in the tree: its entry is in a directory.
Tree ==
  {t \in [dirs : SUBSET Inodes, parent : [Inodes -> Inodes], name : [Inodes -> Names]] :
     /\ Root \in t.dirs /\ t.parent[Root] = Root
     /\ \A x, y \in Inodes \ {Root} :
          /\ t.parent[x] \in t.dirs
          /\ t.parent[x] = t.parent[y] /\ t.name[x] = t.name[y] => x = y}

ASSUME WalkAssumption ==
  /\ Root \in Inodes /\ NoInode \notin Inodes /\ Trees \subseteq Tree
  /\ MaxComponents \in Nat \ {0} /\ MaxPath \in Nat
  /\ {".", ".."} \cap Names = {}

VARIABLES
  tree,          \* the directories and files of the image
  path,          \* the components of the path
  inum, err,     \* translate: current_inum and what it would return
  parent_stack, stack_pos,
  resolved,      \* resolve_path: the names it keeps
  meant,         \* history: what the path means
  ups,           \* history: the levels below the root from which ".." went up
  overrun        \* history: the indices behind parent_stack that were written

vars == <<tree, path, inum, err, parent_stack, stack_pos, resolved, meant, ups, overrun>>

Component == Names \cup {".", ".."}
Codes == {"ok", "ENOENT", "ENOTDIR"}
StackIndex == 0 .. MaxComponents - 1

TypeOK ==
  /\ tree \in Trees /\ path \in Seq(Component)
  /\ inum \in Inodes /\ err \in Codes
  /\ parent_stack \in [StackIndex -> Inodes \cup {NoInode}]
  /\ stack_pos \in StackIndex
  /\ resolved \in Seq(Names)
  /\ meant \in [inum : Inodes, err : Codes] /\ ups \subseteq 0 .. MaxComponents
  /\ overrun \subseteq {MaxComponents}

-----------------------------------------------------------------------------
(* What a path means: each component is looked up in a directory. *)

Lookup(d, n) == {x \in Inodes \ {Root} : tree.parent[x] = d /\ tree.name[x] = n}

Destinations(d, c) ==
  CASE c = "."  -> {d}
    [] c = ".." -> {tree.parent[d]}
    [] OTHER    -> Lookup(d, c)

Fault(w, e) == [w EXCEPT !.err = e]
MeansNext(w, c) ==
  CASE w.err # "ok" -> w
    [] w.err = "ok" /\ w.inum \notin tree.dirs -> Fault(w, "ENOTDIR")
    [] w.err = "ok" /\ w.inum \in tree.dirs /\ Destinations(w.inum, c) = {} ->
         Fault(w, "ENOENT")
    [] OTHER -> [w EXCEPT !.inum = CHOOSE x \in Destinations(w.inum, c) : TRUE]

Start == [inum |-> Root, err |-> "ok"]

\* Where names lead from the root: translate on a path without "." and "..".
Way(names) ==
  LET at[k \in 0 .. Len(names)] ==
        IF k = 0 THEN Start ELSE MeansNext(at[k - 1], names[k])
  IN at
Descend(names) == Way(names)[Len(names)]

-----------------------------------------------------------------------------
Init ==
  /\ tree \in Trees /\ path = <<>>
  /\ inum = Root /\ err = "ok"
  /\ parent_stack = [k \in StackIndex |-> IF k = 0 THEN Root ELSE NoInode]
  /\ stack_pos = 0
  /\ resolved = <<>>
  /\ meant = Start /\ ups = {} /\ overrun = {}

NextComponent(c) ==
  /\ Len(path) < MaxPath
  /\ path' = Append(path, c) /\ meant' = MeansNext(meant, c)
  /\ UNCHANGED tree

\* pathparse stops after MaxComponents; neither loop sees the rest of the path.
CutOff(c) ==
  /\ Len(path) >= MaxComponents /\ NextComponent(c)
  /\ UNCHANGED <<inum, err, parent_stack, stack_pos, resolved, ups, overrun>>

Seen(c) == Len(path) < MaxComponents /\ NextComponent(c)

Dot == Seen(".") /\ UNCHANGED <<inum, err, parent_stack, stack_pos, resolved, ups, overrun>>

Returned(e) == err' = e /\ UNCHANGED <<inum, parent_stack, stack_pos, overrun>>

Pushed_Early ==                                    \* changed: one element too low
  /\ stack_pos + 1 \in StackIndex /\ stack_pos' = stack_pos + 1
  /\ parent_stack' = [parent_stack EXCEPT ![stack_pos] = inum]
Pushed ==
  /\ stack_pos + 1 \in StackIndex /\ stack_pos' = stack_pos + 1
  /\ parent_stack' = [parent_stack EXCEPT ![stack_pos + 1] = inum]

\* The push of a path's tenth name: the array has ten elements and the root is in
\* the first.  Undefined behaviour, so translate may return anything.
Overrun ==
  /\ stack_pos + 1 \notin StackIndex /\ overrun' = overrun \cup {stack_pos + 1}
  /\ inum' \in Inodes /\ err' \in Codes
  /\ UNCHANGED <<parent_stack, stack_pos>>

\* translate on a name: the inode it stands at is read, and must be a directory.
TranslateName(n) ==
  \/ err # "ok" /\ Returned(err)
  \/ err = "ok" /\ inum \notin tree.dirs /\ Returned("ENOTDIR")
  \/ err = "ok" /\ inum \in tree.dirs /\ Lookup(inum, n) = {} /\ Returned("ENOENT")
  \/ /\ err = "ok" /\ inum \in tree.dirs
     /\ inum' \in Lookup(inum, n) /\ Pushed /\ UNCHANGED <<err, overrun>>
  \/ err = "ok" /\ inum \in tree.dirs /\ Lookup(inum, n) # {} /\ Overrun

Name(n) ==
  /\ Seen(n) /\ TranslateName(n)
  /\ resolved' = Append(resolved, n) /\ UNCHANGED ups

\* translate on "..": stack_pos is decreased, and then the element read is the one
\* below that of the directory it leaves.
Popped_NotRead == UNCHANGED inum                   \* changed: the stack is not read
Popped_Above == inum' = parent_stack[stack_pos + 1] \* changed: read on the wrong side
Popped == inum' = parent_stack[stack_pos - 1]

TranslateUp ==
  \/ (err # "ok" \/ stack_pos = 0) /\ UNCHANGED <<inum, stack_pos>>
  \/ err = "ok" /\ stack_pos > 0 /\ Popped /\ stack_pos' = stack_pos - 1

StruckOut_Kept == resolved                             \* changed: ".." strikes out nothing
StruckOut == IF resolved = <<>> THEN <<>> ELSE Front(resolved)

DotDot ==
  /\ Seen("..") /\ TranslateUp /\ UNCHANGED <<err, parent_stack, overrun>>
  /\ resolved' = StruckOut
  /\ ups' = ups \cup {Len(resolved)}

Next == Dot \/ DotDot \/ (\E n \in Names : Name(n)) \/ (\E c \in Component : CutOff(c))

Spec == Init /\ [][Next]_vars

-----------------------------------------------------------------------------
(* Properties *)

Whole == Len(path) <= MaxComponents
Shallow == ups \subseteq {0, 1}          \* ".." came at most one level below the root
HasDots == {".", ".."} \cap Range(path) # {}

Agrees == err = meant.err /\ (err = "ok" => inum = meant.inum)

\* translate finds what a path means, or the error that says why it means
\* nothing, as long as ".." starts no deeper than the first level and the stack was
\* not overrun.  The exception is that "." and ".." behind a file are not refused.
TranslateFindsIt ==
  Whole /\ Shallow /\ overrun = {} => Agrees \/ (meant.err = "ENOTDIR" /\ HasDots)

\* The two readings of such a path name one file: the inode unlink and rmdir free
\* is the one the entry they clear leads to, even where the path was cut.
FreesWhatItUnlinks ==
  Shallow /\ overrun = {} /\ err = "ok" => Descend(resolved) = [inum |-> inum, err |-> "ok"]

\* The stack holds the way from the root to where translate stands, each element
\* the parent of the next level, and is as high as what resolve_path keeps.
StackIsTheWayDown ==
  err = "ok" /\ overrun = {} =>
    /\ stack_pos = Len(resolved)
    /\ Shallow => \A k \in 1 .. stack_pos :
         parent_stack[k] = Descend(SubSeq(resolved, 1, k - 1)).inum

\* ".." goes to the parent of a directory, on every level.
DotDotIsTheParent ==
  Whole /\ overrun = {} /\ meant.err = "ok" => err = "ok" /\ inum = meant.inum

\* A component that does not exist is reported.
MissingIsReported == Shallow /\ overrun = {} /\ meant.err = "ENOENT" => err = "ENOENT"

\* parent_stack keeps the parents of any path pathparse can return: no push is
\* behind it.
StackHoldsThePath == overrun = {}
=============================================================================
