--------------------------- MODULE FileSystemTree ---------------------------
(***************************************************************************)
(* FileSystem with a history variable: the tree a caller sees.  It is a    *)
(* function of the disk, kept as a variable so that TLC computes it once   *)
(* per state, and through it FileSystem implements Namespace.              *)
(***************************************************************************)
EXTENDS FileSystem

VARIABLE tree

NodeOf(i) ==
  LET ino == read_inode(i)
  IN [type |-> ino.type,
      length |-> IF IsDir(i) THEN 0 ELSE ino.size,
      entries |-> IF IsDir(i)
                  THEN {<<EntryAt(i, p).name, EntryAt(i, p).inode>> : p \in ValidAt(i)}
                  ELSE {}]

TreeInit == Init /\ tree = [i \in Linked |-> NodeOf(i)]
TreeNext == Next /\ tree' = [i \in Linked' |-> NodeOf(i)']
TreeSpec == TreeInit /\ [][TreeNext]_<<vars, tree>>

Abstract == INSTANCE Namespace WITH Ids <- Blocks, RootId <- Root

\* Whatever calls are made, the tree of linked inodes changes by one operation of
\* Namespace at a time, whole and at once, and begins as a fresh one.
ImplementsNamespace == Abstract!Spec

Named(d, n) == {e \in tree[d].entries : e[1] = n}

DirectoryCallDone ==
  \A d \in Addressable, n \in Names :
    /\ fs_create(d, n) => Abstract!Create(d, n, "file")
    /\ fs_mkdir(d, n) => Abstract!Create(d, n, "dir")
    /\ fs_unlink(d, n) =>
         \E e \in Named(d, n) : Abstract!TypeOf(e[2]) = "file" /\ Abstract!Remove(d, e)
    /\ fs_rmdir(d, n) =>
         \E e \in Named(d, n) : Abstract!TypeOf(e[2]) = "dir" /\ Abstract!Remove(d, e)
    /\ \A d2 \in Addressable, m \in Names : fs_rename(d, n, d2, m) =>
         d2 = d /\ \E e \in Named(d, n) : Abstract!Rename(d, e, m)

FileCallDone ==
  \A i \in Addressable :
    /\ \A len \in 0 .. MaxSize : fs_truncate(i, len) => len = 0 /\ Abstract!Truncate(i)
    /\ \A off, len \in 0 .. MaxSize :
         off + len <= MaxSize /\ fs_write(i, off, len) => Abstract!Write(i, off + len)
    /\ fs_chmod(i) \/ fs_utime(i) => tree' = tree

AnswerIsTrue ==
  IF ret' = "ok"
  THEN DirectoryCallDone /\ FileCallDone /\ (fs_init => tree' = tree)
  ELSE tree' = tree

\* The answer of a call says what became of the tree: a call that fails, at
\* whatever point, leaves it as it was, and one that succeeds has done what
\* Namespace says this call does to the names and the inode it was given.
AnswersAreTrue == [][AnswerIsTrue]_<<vars, tree>>
=============================================================================
