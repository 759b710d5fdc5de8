----------------------------- MODULE Namespace ------------------------------
(***************************************************************************)
(* What the calls of homework.c promise their callers: a tree of files and *)
(* directories in which every call that succeeds takes effect at once and  *)
(* as a whole, and every call that fails, reads, or only touches           *)
(* attributes changes nothing.  Blocks, bitmaps and inodes do not appear.  *)
(***************************************************************************)
EXTENDS Integers, FiniteSets

CONSTANTS Ids, RootId, Names, MaxSize

VARIABLE tree     \* the nodes that exist, by their ids

Node == [type : {"file", "dir"}, length : 0 .. MaxSize, entries : SUBSET (Names \X Ids)]
EmptyNode(t) == [type |-> t, length |-> 0, entries |-> {}]

IsTree == \E S \in SUBSET Ids : tree \in [S -> Node]

TypeOf(i) == tree[i].type
NamesIn(d) == {e[1] : e \in tree[d].entries}
With(d, es) == [tree EXCEPT ![d].entries = es]

Init ==
  /\ IsTree
  /\ RootId \in DOMAIN tree /\ TypeOf(RootId) = "dir"
  /\ \A i \in DOMAIN tree \ {RootId} :
       /\ tree[i] = EmptyNode("dir")
       /\ \E n \in Names : <<n, i>> \in tree[RootId].entries

\* create and mkdir: the parent is a directory without an entry n.
Create(d, n, t) ==
  /\ TypeOf(d) = "dir" /\ n \notin NamesIn(d)
  /\ \E i \in Ids \ DOMAIN tree :
       tree' = [j \in DOMAIN tree \cup {i} |->
                  IF j = i THEN EmptyNode(t)
                  ELSE With(d, tree[d].entries \cup {<<n, i>>})[j]]

\* unlink and rmdir: the entry and its node go, and a directory is empty.
Remove(d, e) ==
  /\ tree[e[2]].entries = {}
  /\ tree' = [j \in DOMAIN tree \ {e[2]} |-> With(d, tree[d].entries \ {e})[j]]

Rename(d, e, n) ==
  /\ n = e[1] \/ n \notin NamesIn(d)
  /\ tree' = With(d, (tree[d].entries \ {e}) \cup {<<n, e[2]>>})

\* truncate empties a file; a write up to end makes it longer, or leaves its length.
Truncate(i) == tree' = [tree EXCEPT ![i].length = 0]
Write(i, end) == tree' = [tree EXCEPT ![i].length = IF end > @ THEN end ELSE @]

Next ==
  \/ \E d \in DOMAIN tree, n \in Names, t \in {"file", "dir"} : Create(d, n, t)
  \/ \E d \in DOMAIN tree : \E e \in tree[d].entries :
       \/ Remove(d, e)
       \/ \E n \in Names : Rename(d, e, n)
  \/ \E i \in DOMAIN tree :
       TypeOf(i) = "file" /\ (Truncate(i) \/ \E end \in 0 .. MaxSize : Write(i, end))

Spec == Init /\ [][Next]_tree
=============================================================================
