# A verification project for the CS 5600 file system

The repository is a FUSE file system in one C file (`src/homework.c`) over an
image of 4096-byte blocks: block 0 the superblock, block 1 a bitmap of used
blocks, and then inodes, directory blocks and data blocks, each one block long.
This directory models it in TLA+, checks the models with TLC on small images,
and proves with TLAPS what holds for images of every size.

## 1. The system

| Part | State it keeps | Operations | Modelled in |
|---|---|---|---|
| Block device, `misc.c` | the image file, one descriptor with one offset | `block_read`, `block_write`, `block_init` | the variable `disk` of FileSystem (whole blocks, no failure); failing and partial writes in DiskSteps and FileData |
| Mount, `fs_init` | `superblock`, `bitmap` in memory | read both from the image | `fs_init` of FileSystem; `Stop`, `Mount`, `MountFails` of DiskSteps |
| Allocator, in `create`, `mkdir`, `write` | `bitmap`, block 1 | first clear bit from 2 on; set; clear; save | `FirstFree`, `SecondFree`, `Allocations`, `SaveMap`; byte by byte in DiskSteps |
| Paths: `pathparse`, `translate`, `resolve_path` | none | a path to an inode; a path to its parent and last name | PathWalk; FileSystem sees (parent inode, last name) |
| Operations that change the image | none between calls | `create`, `mkdir`, `unlink`, `rmdir`, `rename`, `chmod`, `utime`, `truncate`, `write` | one action each in FileSystem; one step per block write in DiskSteps; `write` and `truncate` with their bytes in FileData |
| Operations that only read | none | `getattr`, `readdir`, `read`, `statfs` | `fs_getattr`, `fs_readdir` of FileSystem; `read` in FileData; `statfs` is not modelled |
| Driver, `hw3fuse.c` | none | `main` hands `fs_ops` to `fuse_main` | the `Threads` of DiskSteps; argument parsing is not modelled |
| Image builder, `gen-disk.py` | none | an image from `disk1.in` or `disk2.in` | the initial states |
| Image printer, `read-img.py` | none | prints an image | not modelled |

Components share three things: the image, the bitmap in memory (a global that
the allocator changes and the handlers save), and the offset of the descriptor.
Nothing else lives between two calls: each handler walks its path from the root
again. `unlink`, `rmdir` and `rename` walk twice, once with `translate` to the
inode and once with `resolve_path` and `translate` to the parent, and combine
the results.

What is hard here, and what would make each part correct:

- **Allocator.** A block must not be given out twice, by bits that were not set,
  not saved before a remount, or cleared for a block in use; a call that
  succeeds must not lose blocks. First-fit scans are repeated in three handlers,
  and the bitmap is changed in memory and saved later.
- **Directories.** Handlers scan the blocks of a directory for names, free slots
  and emptiness, each in its own loop, some over all blocks and `rmdir` over the
  first. Names must be unique, every file linked once, and a directory that is
  removed empty.
- **Files.** Sizes, block counts (`ceil`) and pointers must agree; the unsigned
  arithmetic of `write` and `statfs` has edges.
- **Order of writes.** A handler writes several blocks; a stop or an I/O error
  between two of them leaves what was written. `write` saves the bitmap last.
- **Threads.** `fuse_main` calls handlers from several threads unless `-s` is
  given, and the code has no lock.
- **Paths.** `translate` and `resolve_path` interpret `..` each in its own way,
  and both stop at ten components.

`PROJECT.json` lists each of these hazards at its line with the properties that
cover it.

## 2. The modules

**Namespace** is the specification: what the comments on the operations promise a
caller. Its one variable is a tree of nodes; `Create`, `Remove`, `Rename`,
`Truncate` and `Write` each change it at once. It knows no blocks and no errors:
a call that fails is a step that changes nothing.

**FileSystem** is the code. `disk` maps the blocks from 2 on to what they hold
(an inode, directory entries, file data, or zeros), `map_blk` is block 1,
`bitmap` its copy in memory, and `ret` what the last call returned. There is one
action per handler, with the error returns of the handler as disjuncts in the
order of the code, and every write of the handler in the same step. Choices of
the model:

- A path is the pair (parent, last name) that every handler derives from it. The
  parent ranges over `Addressable`: the inodes that a walk from the root can
  reach when it takes the first entry with a name. A path whose walk stops
  early is `PathFails`.
- An invalid directory entry is `NoEntry`: the code never looks at the rest of an
  entry whose valid bit is clear.
- A data block holds `Data(i)` after it was written through the file `i`; which
  bytes is left out. Permission bits, owner and times are left out.
- `Stored[n]` is what `strncpy` keeps of the name `n`. Names that fit are stored
  as they are.
- A block read as the wrong thing is an inode of no type, or holds no valid
  entry. In the reachable states that does not happen (`BlocksHoldTheirKind`).
- The calls that need a last name are not made on `/`. The kernel answers them
  itself; the code would index `resolved_components[-1]`.
- `fs_init` is a remount between two calls: `bitmap` is read from block 1 again.

`Linked` is the set of inodes that entries lead to from the root, as the
intersection of all sets that contain the root and are closed under "has an
entry for". Written this way, and not as a recursion, it can be used in proofs.

Definitions whose comment says "changed" are slips that such code invites (a scan
that ends one slot early, a map saved before its bits change). No action uses
them. `PROJECT.json` pairs each with the definition it replaces and the property
that TLC then finds violated.

**FileSystemTree** adds the history variable `tree`, the tree of the linked inodes
with names, kinds and lengths, and states two properties. `ImplementsNamespace`: the behaviours
of FileSystem, seen through `tree`, are behaviours of Namespace. It sees the tree alone, and
neither which call was made nor what it returned. `AnswersAreTrue` does: a step in
which `ret` becomes an error leaves the tree, and one in which a call returns 0 is the
operation of Namespace for that call, with its directory, names, kind or length.

**MCFileSystem** and **MCFileSystemTree** give `Stored` a value and define the view.
Two states that agree on the bitmaps and on the blocks the tree uses are one
state for TLC: other blocks are written whole before they are read again, and no
step reads `ret`. The view divides the number of states by about a hundred. In MCFileSystemTree the
names are symmetric: no definition orders them, and the properties are safety properties.

**FlatFile** is the specification of a file's bytes, from the comments on `read`,
`write` and `truncate`: a sequence of bytes, a call under way, and the answer of the
last one. While a write is under way, and when it fails, the bytes it covers may be
old or new; no other byte changes, and the file grows by all of a write or by none.

**FileData** is the loops of `fs_read` and `fs_write` for one file, one block per step, with
the inode copy and the buffer (`block_data`) as the code has them, and `fs_truncate`. The
first-fit scan takes blocks of an earlier life of the file again, with the old bytes
in them; a byte of the buffer that nothing was put in is `Junk`. Every
`block_read` and `block_write` can fail, a write of data also after some of its bytes.
`Content` is the file as inode and blocks have it on disk, and `ImplementsFlatFile` says
that the behaviours, seen through it, are behaviours of FlatFile. `torn` becomes true when a
truncate fails after it has cleared bits (see below); those states are not followed.
**MCFileData** gives a caller every sequence of up to four bytes to write.

**DiskSteps** runs the handlers of FileSystem one step at a time. The step that begins a call
(`begin_create` and so on) does what the handler does before it changes anything: it
reads the directories and inodes and finds the free blocks, and it leaves in `todo` what
the handler will do: set bits, write a block, save the bitmap, in the order of
the code (`CreateSteps`, `MkdirSteps`, `RemoveSteps`, `TruncateSteps`, `WriteSteps`). That these plans can be made in
advance rests on the inode locks of the kernel (`Begin`), which keep other calls from
the same directory and the same file; the bitmap is *not* locked, and so a change of bits is
two steps, `Load` and `Store`, of whole bytes. Then:

- `PutFails` and `SaveFails` are a `block_write` that fails, having written
  nothing, all that the call changes, or (of block 1) some bytes. `PutOrUndo` marks the
  writes after which `create` and `mkdir` clear their bits again; the others just return EIO.
  A failing `block_read` between two writes is a failing write that wrote nothing; before
  the first, it changes nothing at all.
- `Stop` ends the process between any two steps, `Mount` starts it again, and `MountFails` is a
  mount whose `fs_init` could not read the superblock (`disk_size` is 0: everything looks
  full) or the bitmap (it stays NULL: what follows it ends in `Stop` or EIO). `fs_init` reports
  neither.
- `risk` records a fault where the code has no answer. There are two such places.
  A `write` that makes a file longer writes the inode before the bitmap (`1261`, `1267`): a stop
  or an error between the two leaves blocks of the file unmarked on disk (`Window`);
  `read-img.py` prints such blocks as "(NOT ALLOCATED)". And a `truncate` clears the bits in memory
  before it writes the inode (`1099`, `1108`): if that write fails, the file keeps its blocks and
  the allocator offers them. Nothing is promised after either; everything the
  properties say, they say of all other faults.
- `moved`, a history variable, holds the threads whose call has changed the tree, from that step to the
  end of the call. `CallsAreAtomic` needs it to say that a call makes no second change.
- `Outcome` is the disk and the bitmap as they will be when the begun call is done.
  `UndisturbedCallsAreWhole` says that, seen through it, the steps are FileSystem's
  actions: what FileSystem does at once is what the code does step by step when no fault
  comes between. It connects the two levels, and with them FileSystem's proofs and
  DiskSteps' runs.

**MCDiskSteps** has the view (as in MCFileSystem, with `todo`), the constraint that states after a
`risk` are not followed, and the symmetry of names and threads. The symmetry is sound:
no definition orders names or threads, and the properties checked with it are
safety properties.

**PathWalk** is the walk itself. The path grows by one component per step, and the step
runs the bodies of the loops of `translate` and `resolve_path` on it, so that every
state holds what the two return for the path so far. The tree is chosen at the
start and stays. `parent_stack`, `stack_pos`, `inum` and `err` are `translate`'s,
`resolved` is the list `resolve_path` builds; components behind the tenth
(`MaxComponents`) change neither. `Overrun` is the push for which the array has no element
(`225`): the tenth name, when it is found, goes into `parent_stack[10]` of ten elements. What that
overwrites is undefined, so `inum` and `err` may be anything afterwards. Three history variables serve the
properties: `meant` is what the path means by the comment at `homework.c:104` (each component is looked up
in a directory), `ups` the levels from which `..` went up, and `overrun` the indices behind the array that
were written. All the properties but the types are of walks that have not overrun the stack. **MCPathWalk**
lists the trees.

The theorems are in modules of their own: **FileSystemProofs** (types and the saved bitmap),
**FileSystemIntegrity** (the tree on disk is sound) and **FileSystemLinks** (what each call does to
the linked inodes) about FileSystem, **FileSystemTreeProofs** about the refinement of Namespace,
**PathWalkProofs** about PathWalk, **DiskStepsProofs** (types) and **DiskStepsSafety** (stops, faults and the
order of the writes) about DiskSteps, and **FileDataProofs** about FileData and its refinement of FlatFile.

## 3. What is checked

Image of `fs_core`: eight blocks, of which 2 (root), 7 (its entries) and the two
metadata blocks are used, so four are free. That is enough for a directory (two
blocks), a file in it and a block of data at once; for a full disk, for a full
directory (two slots, two names plus the entries of a sub-directory), for files of
zero, one and two blocks with a partial last one, and for every error return but
the ones noted below. Block size is 2 units, so there are sizes that do not fill
a block. `UInt32` is 64 instead of 2^32: what matters is only that it exceeds the
number of blocks.

| Run | What it asks | Result |
|---|---|---|
| `fs_core` | all invariants, `ListingsAreTrue`, `SuccessLosesNothing`, `ImplementsNamespace`, `AnswersAreTrue`, on a fresh image with names that fit | holds |
| `fs_wide` | the integrity invariants (not the types again) with a two-block directory and a name that is cut | holds |
| `fs_long_names` | `NamesUnique` with a name longer than 26 characters | violated |
| `fs_rmdir_wide` | `RemovedDirsWereEmpty` with a two-block directory | violated |
| `fs_overwrite` | `OverwritingSucceeds` | violated |
| `walk_shallow` | where `..` comes at most one level below the root and the stack is not overrun: `TranslateFindsIt`, `FreesWhatItUnlinks`, `StackIsTheWayDown` | holds |
| `walk_dotdot` | `DotDotIsTheParent`, on every level | violated |
| `walk_cut` | `MissingIsReported`, for paths of every length | violated |
| `walk_overrun` | `StackHoldsThePath`, for paths of every length | violated |
| `steps_faults` | one thread, any two faults: `StopIsSafe`, `NothingUsedIsOffered`, `SoundThroughout`, `CallsAreAtomic`, `UndisturbedCallsAreWhole` | holds |
| `threads_alloc` | `NoSharedBlocks` with two threads and no faults | violated |
| `file_data` | one file of up to four bytes in blocks of two: `ImplementsFlatFile`, `EveryCallReturns` | holds |

In `fs_wide` a block has one slot, so that the two-block directory can fill its
first block, be used in its second, and be emptied in its first alone; three
blocks are free.

The four `walk` runs take all trees of four (three in the violated runs) inodes below the
root with two names, and all paths of one component more than are kept: four
levels are enough to go down to the limit, and to go up from every level and down
again. `walk_shallow` is what FileSystem's abstraction of a path rests on:
`FreesWhatItUnlinks` says that the inode and the entry of `unlink` and `rmdir`, which
they find in two walks, belong together. `TranslateFindsIt` has one exception: `.`
and `..` behind a file are accepted, where the comment asks for ENOTDIR.

`steps_faults` has three free blocks of one unit each, two names and two slots: a directory
and a file, a file of two blocks, a full disk and a full directory all occur, and two faults
are one more than a call needs to go wrong, so that what a fault has left (an entry
removed with its bits still set, a mount without a bitmap) meets a second
one. `threads_alloc` is the same image with files of at most one block; two threads are
enough for any race between two calls. `file_data` has three blocks for a file of at most
two, so that the file is given blocks in every order with every content; sizes and
offsets go from 0 to 4, over two block boundaries. A value of `UInt32` above seven makes
the unsigned subtraction wrap as it does in 2^32.

The invariants of FileSystem, in the order of what depends on what:

- `ReferencedIsMarkedOnDisk`: the bitmap *on disk* marks every inode and block the
  tree uses, so a remount at any time is safe. It depends on every handler saving
  the map when it has to, in particular on the condition at `homework.c:1266`.
- `SavedBitsAreSet`: what the disk marks is marked in memory. The converse fails:
  a write that runs out of space leaves bits set only in memory.
- `NoSharedBlocks`, `SingleLink`, `BlocksHoldTheirKind`: the linked inodes form a
  tree, no block has two owners, and every pointer leads to a block that was
  written as what the pointer says, a file's to data written through that file.
- `NamesUnique`: no directory has two entries of one name.
- `ListingsAreTrue`: every name that `readdir` lists leads, by the walk of `translate`, to an inode
  with the listed attributes, and `st_blocks` is the number of blocks the inode holds.
- `SuccessLosesNothing` (a step property): a call that returns 0 leaves no block
  marked that the tree does not use and that was not lost before. Calls that fail
  do lose blocks: `create` and `mkdir` in a full directory, `write` on a full disk.
- `ImplementsNamespace` and `AnswersAreTrue` (section 2). `create` and `mkdir` in a full directory fail after
  they have written blocks, and `unlink` frees bits after it has cleared the entry; the caller must be told
  what became of the tree in each case.

The properties of DiskSteps (all but `UndisturbedCallsAreWhole` of every fault without `risk`):

- `StopIsSafe`: after every step of every call, the bitmap on disk marks what the tree
  uses. It is `ReferencedIsMarkedOnDisk` between the block writes of a call, and depends on
  their order: bits are saved before an entry leads to what they stand for, and
  cleared after no entry does.
- `NothingUsedIsOffered`: between calls the bitmap in memory offers no block of the tree. Calls that
  fail half way clear their bits again, or leave them; neither may free a block in use.
- `SoundThroughout`: the tree is sound (no shared blocks, one link, blocks of the right kind) after
  every single write.
- `CallsAreAtomic`: whatever stops or fails, and wherever, the tree of the caller changes only by
  whole operations of Namespace, and a call that has made its change takes no other step that changes
  the tree: in each handler one write changes the tree, and the others prepare it or clean up. A rename
  that cleared the old entry and then wrote the new one would make two operations of Namespace, and
  violate it.

And of FileData: `ImplementsFlatFile` (above), and `EveryCallReturns`, a liveness property under weak
fairness of `Continues`. That fairness says that a handler that was called runs on. It runs in a thread
of its own, takes no lock and waits for nothing but the file system that holds the image, so this is
what the operating system gives it. Calls themselves, failures and truncations are not fair:
nobody has to make them, and a call must return also when nothing fails.

The seven violated properties are disagreements between the code and its own
comments and tests; `findings` in `PROJECT.json` quotes the lines.

- Names of more than 26 characters are compared whole and stored cut
  (`homework.c:468`, `535`): each `create` adds another entry of the same cut name,
  and the name that was created is not found.
- `rmdir` looks at the first block only (`809`). `disk1.in` builds a directory of
  two blocks; when its first block has been emptied, it is removed with what the
  second holds.
- `write` computes the blocks it needs by unsigned subtraction (`1202`). A write into an
  earlier block than the file's last returns ENOSPC and leaves the bitmap in
  memory full until the next mount.
- `..` reads the stack one element too low (`194`): from two levels below the root it goes
  to the root. `unlink` of a path with such a `..` frees one inode and clears the entry
  of another, because `resolve_path` does it right.
- A path of more than ten components names what its first ten name (`151`).
- A path of ten names, all but the last of which are directories and the last of which exists, writes
  behind the end of `parent_stack` (`225`). `unittest-2.c:380` takes such a path, and passes where the compiler
  leaves room behind the array.
- Two threads take the same free block: finding a clear bit and setting it are not one step
  (`1215`-`1226`, and the same in `create` and `mkdir`), and no lock is held. `fuse_main` has several
  threads unless `-s` is given, and the documented command does not give it.

Deadlock is checked in `file_data`. In the other runs it is not: FileSystem and DiskSteps have no end and no
step waits for another (`fs_init`, `Stop` and `Mount` are always possible, and a thread waits only for
the lock of a call that can go on), and a walk ends where the path does. But for `EveryCallReturns`
the properties are safety properties of calls that the caller is free not to make, and need no fairness.

## 4. What is proved

FileSystemProofs, from `DiskAssumption` (at least seven blocks, no more blocks
than an inode has pointers, sizes within the pointers, `UInt32` larger than any
block count) and `NameAssumption` (`Stored` maps names to names and is idempotent):

- `TypeCorrect`: `Spec => []TypeOK`. `TypeOK` is inductive. There is a lemma for each
  action, and lemmas for the helpers they share: `SetEntryType` for the one slot
  that create, mkdir, unlink, rmdir and rename write, `WrittenType` for the inode
  and blocks of a write. The step that is not obvious is rename, which copies an
  inode number out of a block: either the directory's pointer leads into the
  image, and the number came from a well-typed entry, or nothing is written.
- `SavedBitsAlwaysSet`: `Spec => []SavedBitsAreSet`, also inductive: every action
  either saves the map after its last change of the bits, or leaves the map alone
  and only sets bits, or is `fs_init`.

FileSystemIntegrity, from the same assumptions, proves `AlwaysMarkedOnDisk`, `NeverShared`,
`AlwaysTheirKind` and `AlwaysATree`: the invariants `ReferencedIsMarkedOnDisk`,
`NoSharedBlocks`, `BlocksHoldTheirKind` and `SingleLink`, for images, directories and
files of every size. None of them is inductive alone. An unmarked block of the tree
would be handed out again and shared; a shared block would be written as two
things; a block of the wrong kind would be read as entries that lead anywhere; and
an inode with two entries would stay linked when one of them, and its bits, are
removed. So they are proved together, in this way:

- They speak of `Linked`, a least set, which a step changes in ways that are hard to
  compute. `Integrity` says instead that *some* set `S` is `Sound`: it contains the
  root, is closed under entries, no two entries lead to the same member and none to
  the root, its members are well formed, and their blocks are disjoint (all this is
  `Shape`, which is about the disk alone) and marked on disk (`Marked`). With `TypeOK`
  and `SavedBitsAreSet` this is inductive.
- Each call gives the next set: `S` with the new inode (`AddShape`, `AddSound`), without
  the removed one (`RemoveShape`, `RemoveSound`), or `S` itself (`RenameShape`, `FileShape`,
  `KeepShape` and their `Sound` forms). The lemmas on `Shape` need no bitmap, so that they
  serve single writes as well as whole calls.
  The first three rest on `SlotWrite`: writing one slot of one directory, and blocks
  that were free, changes no other entry and no other inode. `RemoveShape` uses that
  entries are unique to know that no other entry leads to the removed inode. A
  directory that is removed with entries in its second block (`fs_rmdir_wide`) takes its
  descendants out of `Linked`, and leaves them in `S`: they are lost, not damaged.
- `NoWrap` is the argument about `write`. Its demand for blocks is a difference taken
  modulo 2^32; when it wraps around it exceeds the blocks of any image, so a write
  that finds its blocks is one that did not wrap, and the size it leaves has exactly
  as many blocks as the file had and was given.
- `Linked` lies in every closed set, hence in `S` (`ShapeHoldsLinked`), so three of the
  invariants follow at once. `SingleLink` also needs that some entry leads to each
  linked inode: without it, `Linked` minus that inode would be closed
  (`LinkedByEntry`).

FileSystemLinks and FileSystemTreeProofs go from "some sound set holds the tree" to what each call
does to the tree.

- Every step of FileSystem is a `Change(S)` of a sound set: nothing of it changes (`Kept`), one file does
  (`FileChanged`), one entry is added with its inode (`Added`), removed (`Removed`) or renamed
  (`Renamed`). `NextChange` classifies the actions once; every theorem about steps is then proved
  for five kinds of change and not for each of the handlers.
- `Linked` is itself sound, so a change can be taken as a change of `Linked`. `LinkedNext` says what
  becomes of it: it stays, gains the new inode, or loses the removed one.
- `NamesStayApart`: no two entries of a directory *of one block* have the same name; the scans of
  `create`, `mkdir` and `rename` then see all of it. `NamesAlwaysUnique` (`NamesUnique`) and
  `ListingsAlwaysTrue` (`ListingsAreTrue`) follow where all directories have one block, which the
  handlers never change (`OneBlockDirs`).
- `NothingIsLost` (`SuccessLosesNothing`) and `RemovedDirsAreEmpty`, by comparing the change of the bitmap
  with that of `Linked`.
- `ImplementsTheNamespace`: `TreeSpec => ImplementsNamespace`, with a simulation lemma for each kind
  of change (`FileStep`, `CreateStep`, `RemoveStep`, `RenameStep`).
- `AnswersAlwaysTrue`: `TreeSpec => AnswersAreTrue`. Here the kind of change is not enough, as it must be the
  change of the call that was made: `AddedStep`, `RemovedStep` and `RenamedStep` keep the directory,
  the name and the type of the entry, and `AnswerStep` takes each handler to its operation of Namespace,
  and each error return to an unchanged tree.

These theorems have one or both of two hypotheses, for which an image can be made or a call be made that
breaks them. `NamesFit` says that `Stored` is the identity: names are at most 26 characters. `~WideDir`
says that the image has no directory of more than one block to begin with (`mkdir` makes none). Without the first,
`fs_long_names` violates `NamesUnique`, and without the second, `fs_rmdir_wide` violates `RemovedDirsWereEmpty`. The theorems of
FileSystemProofs and FileSystemIntegrity hold without them.

PathWalkProofs, for every tree, every number of components and every path: `WalkTypeCorrect`,
`WalkFinds` (`TranslateFindsIt`), `WalkFreesWhatItUnlinks` and `WalkStack`. `WalkTypeCorrect` says that `stack_pos` is
always an element of the array and that the only index written behind it is `MaxComponents`; the other
three claim nothing of a walk after that write. These three are proved together, as parts of the invariant `WalkInv`:
`translate`'s stack and `resolve_path`'s list are both the way down, so that a `..` which pops both
leaves them in step. Of walks in which a `..` starts below the first level nothing is claimed but the types and
the height of the stack. That a longer list of names leads where the shorter one leads, and one step further, is an
induction over its length; it is done by least counterexample, as the induction theorems of the library
cannot be used (below).

FileDataProofs, from `DataAssumption`, for every block size, number of blocks and image, and for any
failures: `BytesTypeCorrect`, `BytesAreThoseWritten` (`Spec /\ []~torn => ImplementsFlatFile`) and
`BlocksStayOwn`. No fairness is assumed.

- Blocks and bytes: which block a byte lies in, that a chunk of a loop lies in one block, that
  `ceil(size / BlockSize)` grows with the size (`PlaceNear`, `CeilDivGrows` and others); that the subtraction of
  `write` does not wrap when the blocks are found (`NoWrap`, as above); and that the first-fit scan, when
  it finds enough bits, takes distinct free blocks (`LowestExists`, `AllocatedBlocks`).
- `Fits` is inductive in all states: `TypeOK`, and the loop variables of a read or a write under way lie
  inside file, buffer and pointers. `DataInv` adds, where no truncate has failed half way (`torn`), that the
  pointers are distinct and marked, that the bytes read so far are the file's, and that the bytes written so far
  are in place. TLC checked both on the instance of `file_data` before they were proved.
- A block written by a write changes bytes of the file in one range only (`WrittenPlaces`): the block is
  a pointer's, and no other pointer's. With it each step maps to a step of FlatFile or a stutter (`DataStep`).
- The hypothesis `[]~torn` is the constraint of the run (`Followed`). Behind a torn truncate the
  conclusion is false: the file's blocks can be taken a second time.

DiskStepsProofs, from the assumptions of FileSystemProofs and at least one thread: `StepsTypeCorrect`
(`StepsSpec => []StepsTypeOK`), for every number of threads and faults, and also behind a fault that
set `risk`. `StepsTypeOK` says of a plan that it writes blocks of the image. Those block numbers come from the
pointers of inodes, so it is not inductive; in `StepsInv` every inode, on disk and in a plan
that is still to be carried out, has a pointer for each block of its size, and a directory has its
first one (`HasItsBlocks`). Every plan is built from such inodes and leaves such inodes (`CreatePlan`,
`MkdirPlan`, `RemovePlan`, `TruncatePlan`, `WritePlan`), and so does a plan that is cut short anywhere.
Nothing is said of who owns a block: two threads can give one block to two files.

DiskStepsSafety, from the same assumptions and `Threads = {t}` (with two threads `threads_alloc` violates
the conclusions): `StopsAreSafe` (`StopIsSafe`), `UsedIsNeverOffered` (`NothingUsedIsOffered`), `SoundAtEveryStep`
(`SoundThroughout`) and `CallsChangeTheTreeAtOnce` (`CallsAreAtomic`; this one also from `NamesFit` and
`~WideDir`, as Namespace is only implemented there). They hold for every image and
every number of stops, failing writes and failing mounts.

The properties speak of the disk, and what the disk will be like after the next step depends on what
is left in `todo`. The invariant `SafeInv` therefore says where in its plan the call is; it was checked by TLC
on the instance of `steps_faults` before it was proved. Unless a fault has set `risk`, the linked inodes have `Shape`,
the map on disk marks what they use (or only a `write` has its last `Save` ahead, `Late`), and of what is
left to do one of three things holds (`Working`):

- `Quiet`: no step that is left changes the tree. Each writes a block that the tree does not use, or what
  that block holds already; clears bits that the tree does not need; or sets or saves bits.
- `Pending`: exactly one step will change it, and all before it are quiet. It adds an entry
  (`Adds`), removes one (`Removes`), renames one (`Renames`) or writes the inode of a file
  (`Grows`), and what it needs is true now or will be made true by a step before it: the new blocks
  hold an empty inode, an empty directory or data (`WillBe`), and their bits are set (`WillBeSet`) and
  saved (`WillBeSaved`). With the order of two writes swapped, this is what fails.
- `Truncating`: `truncate` clears the bits of a file's blocks before the file gives them up. This is the one
  time when a block of the tree is not marked in memory.

All of it is said of the sequence that is left, and none of how far the call has got, so that after a
step the same is said of the tail: `QuietNext` and `PendingNext` for a step before the change, `Commits` for
the change itself (with the `Shape` lemmas and the simulation lemmas of FileSystemTreeProofs),
and `StepSafe` for all. `CreateWorks`, `MkdirWorks`, `RemoveWorks`, `RenameWorks`, `SetattrWorks`, `TruncateWorks` and `WriteWorks`
prove it of the plans the handlers begin with. A plan that is cut short leaves `Quiet` work or none:
`WrittenPutFails` and `UnwrittenPutFails` are a `block_write` that fails after and before it has written, each with
the exception that `UnansweredPut` makes; `SaveFailsSafe` and `StopSafe` have the exception that `Window`
makes. That the proof needs just these exceptions shows that the two places described under `risk` (section 2) are
the only ones where a fault costs more than lost blocks.

`SafeInv` says that a step before the change leaves the tree and that the change is one operation. That there
is no second change is `MovedInv`: a thread in `moved` has something left to do, and all of it is `Quiet`.
`ChangeIsLast` is what happens at the change: what is left behind it is `Quiet`, and the changing write has no bits to clear if it
fails, so that a call cut short there ends. `QuietStays` carries it to the end of the call, and
`MovesOnce` concludes that a step of a call in `moved` does not change the tree.

## 5. What is only model-checked

- `UndisturbedCallsAreWhole` (`steps_faults`). `Outcome` folds over the rest of a plan, which for `write` is of any
  length. What such a fold computes is an induction over data, and needs a theorem with an operator for a
  parameter, which none of the provers can instantiate.
- `EveryCallReturns` (`file_data`): liveness under fairness is out of the prover's reach, as is `ENABLED`.
- The seven violated properties: TLC shows a behaviour of a small instance, and there is nothing to prove.

Every other property that a run checks is stated by a theorem of section 4. What is left to extend is in
section 6.

## 6. Not modelled

- The seek and the transfer of `block_read` and `block_write` as two steps. All threads share one
  descriptor, so any two transfers that overlap can hit each other's block; nothing that the other
  modules say would survive it, and nothing in the code bounds it.
- Two calls on one directory or one file at a time: the kernel holds the lock of the directory or the
  inode for the whole of a call, and DiskSteps takes that as given (`Begin`).
- A write of an inode or of directory entries that stops inside the block. `PutFails` writes such a block whole or not at all,
  where a short `write` (`misc.c:57`) or a stop can leave a part; of block 1, `SaveFails` has the parts, and of file data
  `WriteBlockFails` has them.
- Files longer than the pointers of an inode (1019 blocks). `write` does not check the index (`1227`). The images
  `gen-disk.py` builds have at most 400 blocks; `DiskAssumption` says that the pointers are enough.
- `statfs`. It subtracts the two metadata blocks twice (`1302`): the count of free blocks is two too small, as
  `unittest-1.c:191-193` expects it, and wraps around with fewer than two free blocks. That is one
  expression over the bitmap, on which no order of calls has an influence.
- Times, owners and permission bits; running out of memory; the 256-byte buffers for parent paths.
- The formatting of `read-img.py`, the parsing of `gen-disk.py`, `main`'s arguments, `block_init`: they change
  nothing the properties speak of. Memory leaks of path components do not affect the image.
