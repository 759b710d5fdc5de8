----------------------------- MODULE MCPathWalk -----------------------------
(* Small trees for PathWalk: inode numbers grow downwards from the root. *)
EXTENDS PathWalk

CONSTANT MaxInode

SmallInodes == 2 .. MaxInode

\* A file or directory for every shape, every pair of names and every place; the
\* numbers order a tree without losing a shape.
SmallTrees ==
  {t \in Tree :
     /\ \A x \in Inodes \ {Root} : t.parent[x] < x
     /\ t.name[Root] = CHOOSE n \in Names : TRUE}
=============================================================================
