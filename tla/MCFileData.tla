---------------------------- MODULE MCFileData ------------------------------
(* A small instance of FileData. *)
EXTENDS FileData

\* Everything a caller may write, up to the largest size.
AllBuffers == UNION {[1 .. n -> Byte] : n \in Offsets}

\* Nothing is promised after a truncate has failed half way: the blocks of the
\* file are then free to be taken again.
Followed == ~torn
=============================================================================
