---------------------------- MODULE MCDiskSteps -----------------------------
(* Small instances of DiskSteps. *)
EXTENDS DiskSteps

CONSTANTS a, b, t1, t2

KeepNames == [n \in Names |-> n]
SameNames == Permutations(Names)
SameNamesAndThreads == Permutations(Names) \cup Permutations(Threads)

\* The view of MCFileSystem, with what a call has yet to do.  The view leaves out
\* the blocks a call has written and not linked yet: todo says which they are.
SeenState ==
  <<[x \in UsedNow |-> disk[x]], map_blk, bitmap, todo, op, loaded, mount, faults, risk,
    moved>>

\* Nothing is promised after an unanswered fault: those states are not followed.
Followed == ~risk
=============================================================================
