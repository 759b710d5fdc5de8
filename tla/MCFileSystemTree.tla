-------------------------- MODULE MCFileSystemTree --------------------------
(* Small instances of FileSystemTree. *)
EXTENDS FileSystemTree, TLC

CONSTANTS a, b

KeepNames == [n \in Names |-> n]
SameNames == Permutations(Names)

\* A block the tree does not use is written whole before it is read again, no
\* step reads ret, and tree is a function of the blocks the tree uses.
SeenState == <<[x \in Used |-> disk[x]], map_blk, bitmap>>
=============================================================================
