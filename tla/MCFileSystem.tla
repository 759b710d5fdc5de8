---------------------------- MODULE MCFileSystem ----------------------------
(* Small instances of FileSystem: names and what strncpy makes of them. *)
EXTENDS FileSystem

CONSTANTS a, b, long

KeepNames == [n \in Names |-> n]

CutLong == [n \in Names |-> IF n = long THEN a ELSE n]
\* A block the tree does not use is written whole before it is read again, and
\* no step reads ret: states that differ in nothing else behave alike.
SeenState == <<[x \in Used |-> disk[x]], map_blk, bitmap>>
=============================================================================
