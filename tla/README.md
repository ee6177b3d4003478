# Verification of testfs

testfs is a small Unix-like file system in a disk image. A program, `testfs`, opens the image,
runs one command (`touch a`, `write a text`, `rm a`, ...) and exits; `mktestfs` makes an empty
image. This directory holds TLA+ models of testfs, the configurations that check them with TLC, and
proofs for TLAPS of every invariant that the runs check.
The repository has no documentation and no tests: what it promises is in its comments, its
assertions and in `checkfs`, the command that verifies an image.

## The system

| Part | Source | State | Operations |
|---|---|---|---|
| free maps | `bitmap.c`, `super.c:171-231` | two bitmaps (inodes, blocks) in memory and on the disk | allocate first fit, release; each writes one block of the map |
| blocks | `super.c:235-255`, `block.c` | data blocks | allocate (the caller's buffer is zeroed), free (zeroed on the disk, then unmarked) |
| checksums | `csum.c` | a table in memory and on the disk | put (table and one disk block), verify |
| inodes | `inode.c` | dinodes on the disk; a hash table of inodes in memory with a count and a dirty flag | get, put, sync, create, remove, read, write and truncate data |
| directories | `dir.c:24-305` | entries `{length, inode, name}` in the data of an inode, none across a block boundary | next, find, write, add, remove an entry |
| paths | `dir.c:311-560` | the current directory | split the path to create, walk a path |
| commands | `dir.c`, `file.c`, `super.c:257-312` | - | touch, mkdir, rm, write, owrite; cd, pwd, ls, lsr, stat, cat, catr, oread; checkfs |
| transactions | `tx.c` | one flag | start and commit, which assert that they are paired |
| programs | `testfs.c`, `testfs_single_argument.c`, `mktestfs.c` | the command line | one command; the empty image |

The parts interact by calls, all in one thread. A command finds its inodes by path, holds them
(the count), changes them in memory (the dirty flag), and syncs and puts them at its end. A data
write allocates blocks, and each allocation writes the free map; it writes the block and then its
checksum; the dinode that refers to the blocks is written only when the command syncs it. An entry
of a directory is data of the directory, so `touch` and `rm` are data writes too.

What is hard here is not concurrency but the order of the disk writes and the paths on which
something fails: a command is up to some dozens of writes, it may run out of blocks or inodes at
any of them, an assertion may stop it half way, a crash may end it between any two, and nothing
repairs the image afterwards: the flag of `tx.c` undoes nothing.

What makes each part correct:

- free maps: memory and disk never drift apart; a number is given out once until it comes back.
- blocks and inodes: no block in two places, none marked that nothing uses, none missing below a
  file's size; a failed operation gives back what it took; a block is zero when it is allocated,
  on the disk as well.
- dirty flags: no change is lost, and nothing dirty is put.
- checksums: an entry for every block, up to date when the command ends.
- directories: what was added is found, what was removed is not, and no entry is damaged by another.
- inodes in memory: one count for each pointer that will be put, none left at the end, and the
  caller's current directory back after every walk.
- commands: the names are a tree and a path means the same file to all of them; a reader of the
  image finds what was asked for, or what was there before.

`PROJECT.json` lists the hazards at their lines in the code.

## The modules

| Module | What it is |
|---|---|
| `IdPool` | abstract: a pool of numbers that gives out the least one not in use |
| `Freemap` | a free map in memory and on the disk, its operations, crashes; implements `IdPool` |
| `FreemapProofs` | its proofs, for every size of the map |
| `Volume` | abstract: files, directories and commands that are asked for and answered |
| `FileStore` | inodes, blocks, free maps and checksums under the five commands that change them; implements `Volume` |
| `FileStoreInv` | the inductive invariants of `FileStore`: who holds a block, the tree on the disk, what is never lost |
| `FileStoreOwnership` | proofs: the types, dirty flags, who holds a block |
| `FileStoreDisk` | lemmas: what an inode has of its size, in memory and on the disk |
| `FileStoreConsistency` | proofs: every command keeps to its plan, and with it the tree |
| `FileStoreSafety` | proofs: crashes, assertions, checksums, what a directory keeps |
| `FileStoreAccount` | proofs: nothing marked is forgotten, and `checkfs` finds nothing |
| `Directory` | abstract: a set of names, changed by one entry at a time |
| `DirLayout` | the data of one directory, entry by entry and block by block; implements `Directory` |
| `DirLayoutProofs` | its proofs, for every set of names, every length of them and every block size |
| `Namespace` | abstract: a tree of names, what a path means in it, what each command needs to succeed |
| `Session` | a process and its command from the command line to the end of `main`: paths, counts of inodes, transactions; implements `Namespace` |
| `SessionProofs` | its proofs, for every number of inodes and every set of command lines |
| `MCFreemap`, `MCFileStore`, `MCDirLayout`, `MCSession` | the modules TLC starts from |

The three detailed modules divide one program by what a step is. In `FileStore` it is a write of a
disk block, and an entry of a directory is one cell; in `DirLayout` it is a write of a block of one
directory, down to the length of an entry; in `Session` it is a call that takes, puts or changes an
inode, and the tree is a value. Where one module leaves a choice open another has it: that an entry
may find no room is a choice of `Session` and computed in `FileStore`; the name of a create is new
in `FileStore`, and `DirLayout` and `Session` decide whether it is.

### Freemap

A word is the set of its bits that are set. `Alloc` and `Free` change one bit in memory
(`bitmap_alloc`, `bitmap_unmark`) and leave one block of the map `pending`; `WriteBack` writes it
(`testfs_write_inode_freemap`, `testfs_write_block_freemap`). `Close` writes the whole map, `Crash`
loses what is in memory. `FileStore` relies on the result: there a map is the set of numbers
marked on the disk, changed by one atomic write, and the copy in memory is left out, as is the
rewriting of both maps by `testfs_close_super_block`, which changes nothing.

### FileStore

`imap`, `bmap`, `dino`, `blk` and `summed` are the disk; `mem` and `dirty` are the inodes in
memory. A command is a list of calls (`todo`): write data, truncate, release the inode number,
sync. `StartWrite`, `StartCreate` and `StartRemove` set the list that `cmd_write` and `cmd_owrite`,
`testfs_create_file_or_dir` and `cmd_rm` would make, `onfail` the list they make when a write
fails. Each call runs in steps, one for every write of a disk block in the order of the code:

- `testfs_write_data`: `BeginWrite`, then for each block `MapExisting`, `MapDirect` or
  `MapIndirect`/`ReadIndirect`, `MapChild`/`NoChild`, `WriteIndirect`; then `StoreData` and
  `StoreCsum` (`StoreLastCsum` ends the call). `MapFails` and `WriteIndirectFails` are the error
  path, which raises the size to cover what was written and makes a truncation the next call.
- `testfs_truncate_data`: `TruncNothing`, or `BeginTrunc`, then `ZeroDirect` and `UnmarkDirect` for
  each direct block, then `TruncDirectOnly`, or `LoadIndirect`, `ZeroChild` and `UnmarkChild` for
  each child, and `ZeroIndirect`/`UnmarkIndirect` or `KeepIndirect`.
- `ReleaseInode` and `SyncInode`; `CreateInode`, `NoInode` and `NoInodeBlock` take the inode number
  of a create, and so do `LeftoversAssert` and `LeftoversExist`, where the number is that of an
  inode whose removal was cut short and whose old data `testfs_add_dirent` takes for entries.

An assertion of the code that can fail is in `Violated`, under the place it stands; `AssertionFails`
ends the process there, with everything in memory lost and the disk as it is. So does `Crash`,
between any two writes. `Exit` is the end of `main`, which asserts that every inode is clean.

A command starts on whatever image there is: nothing in the code looks at the image first. A process
that dies between `testfs_free_block` (`inode.c:389`) and `testfs_sync_inode` leaves an inode that
refers to blocks which are not marked. The next `rm` of that file aborts at `bitmap.c:119`; after a
create that was given one of the blocks it frees a block of another file. `Intact` says that no
inode a path leads to is damaged like this and that no number is free whose dinode is not zeroed;
it guards nothing. `hurt` remembers that a command has started on an image that was not `Intact`.
From then on the code keeps little of what it promises, and the properties say which of it:
`TypeOK`, `UnsyncedIsDirty` and the two assertions of a truncation about the blocks an inode holds
itself are kept on every image, the others until `hurt`.

Abstractions:

- A cell is what the code handles as a unit: a block number, a directory entry, a piece of a file.
  An indirect block holds as many block numbers as a data block has cells.
- A directory entry is one cell: names have one length and are not kept. The name of a create is
  new; commands that are refused for their name or path change nothing and are left out, as are the
  commands that only read. `touch` with several names is several creates.
- The checksum table is the set of blocks whose entry matches what they hold.
- A write of a block is atomic, and writes reach the disk in order: the image is opened with
  `O_SYNC`, and the seek after each write flushes it. A device error ends the process like a crash.
- `time` stamps and the write of the super block are left out; nothing reads them.
- On a damaged image a file may have an indirect block that is by now data of another one, and in it
  numbers that are none of a data block. A negative one passes for an error (`MapFails`); with
  another one the process aborts at `super.c:252` or `bitmap.c:116` when it frees the block, and at
  `csum.c:38` when it writes one beyond the map. What lies outside the data blocks (super block, maps,
  inodes) is not kept in `blk`: that a write through such a number lands there first is left out.
  `block_nr` is the block a write has mapped, since the data written may be what it was mapped by.
- A command that has to read a directory with a block missing (`HasItsBlocks`) aborts at
  `inode.c:314` before it has changed anything, and is left out like the refused ones.
- What `testfs_add_dirent` finds in the data of an old inode is one of three: an entry that is not
  all below the size (`inode.c:304`), the name it is to add, or the end, where it adds the entry.
  Removed entries among the old data, which it would use again, are left out.

Bounds: `MaxCmds` and `MaxCrashes`. An entry that follows padding is never removed
(`k % BlockSize # 0` in `StartRemove`): there the code writes at the wrong offset (`dir.c:259`), in
the bytes of entries. That removal is in `DirLayout`, which has the bytes.

Fairness: `WF_vars(Step)`, where `Step` is whatever the running process does next. There is one
process, it never waits for another and performs only blocking calls, so it goes on unless it
dies; no command has to be started and no crash has to happen.

### DirLayout

`cells` and `dsize` are the disk: the data of one directory and its size; `size` is the size in
memory. An entry is a cell with its length, a cell with the inode number and the cells of its name;
a removed entry has the number -1, padding is cells of 0. `Dirent` is `testfs_next_dirent`, with
both of its jumps to the next block: for a header that would touch the end of its block, and for a
length that reads 0. It keeps apart where the search stood (`from`, the code's `p_offset`) and where
the entry is (`at`). `Dirents` is the loop over it. `Slot` is the search of `testfs_add_dirent`,
`WriteDirent` the two writes of `testfs_write_dirent`, `StartRemove` is `testfs_remove_dirent`.
`WriteBlock` is one disk write of `testfs_write_data`, `Sync` the write of the inode; the process
may die before each (`Crash`). Blocks below the size on the disk then keep what was written to them;
the others are lost, since the inode on the disk does not refer to them.

Two things break the order of entries, and the code prevents neither. The check of a name's length
(`dir.c:368`) reads a global that is always 0 (`namelen`), so a name may be too long for a block: its
entry spans blocks, and the padding before it may pass over the end of one. And a removal writes at
`p_offset`, which for an entry behind padding is in the padding (`Rewrite`). Both are in the model.
`spoiled` remembers that a name which does not fit was written, or an entry behind padding removed.
A name `Fits` if its entry lies within a block and ends before the end of it: one that would end just
there is moved (`Crosses`), and at the start of a block it still would.

After that the readers meet cells that are no entries, and the model has what they do then: a length
of 0 in the next block too gives an entry without a name, and the code compares the name with memory
it has not written (`Nameless`, `odd`: any of them may be taken for it); an entry that is not all
below the size stops the process at `inode.c:304` (`Lose`, `AssertionFails`). Abstracted is what a
misread cell means: a cell of a name that is read as a length or a number counts as the name's own
number, and a negative length ends the search. The number a create is given is the first that no
entry names; once `spoiled` it is any, since a removal may then have freed a number whose entry is
still there.

Bounds: `MaxCmds` commands, and a directory of at most `Limit` cells, in the guard of `Proceed`.
A write always finds room: what happens when it does not is in `FileStore`.

### Session

One process after the other, each with one command line. `Launch` is `main` up to the call of the
command, in either program: they split the line differently (`testfs_single_argument` leaves a
blank at its end), only one of them returns at once after `quit`, and `testfs` hands its first
argument to KLEE, which fails without one and may otherwise make it any shorter word, the empty one
included. An argument is a sequence of `Characters`. `count`, `dirty`, `tx` and the pointers `cur`,
`back`, `inode` and those on `stack` are the memory of the process; `tree` is what the disk holds.

- `Lookup`, `Walk`, `WalkEnd` are `testfs_dir_name_to_inode_nr`: `walk` keeps the rest of the path
  and where the walk began, `WalkOn` replaces the current directory, `WalkEnd` restores it.
- Each command is an action of its name that checks the arguments and starts the walk, and a
  `...Found` action for the rest. `NextArg` is the loop of touch, stat and cat over their arguments.
- touch and mkdir: `Create` splits the path and changes directory (`CdFound`), `CreateLookup` opens
  the transaction, `CreateInode`, `CreateEmptyDir`, `AddDirent`, `Created`; or `Undo` and
  `CreateFailed`, and from both ends `ComeBack`.
- rm: `cmd_rm`, `RemoveDirent` with the test that a directory is empty (`Occupants`), `RemoveInode`.
- ls, lsr, checkfs and catr keep a `stack` of calls, each with the entries it has still to visit, in
  any order. `cmd_catr` and what follows it has the pointers of the code: `tmp` is `tmp_inode`,
  `cin` the child that is the current directory of the nested call.
- A pointer to an inode whose count has come to 0 becomes `Freed`. Using it kills the process, there
  (`"freed"`) or at its end, by the inode that is still counted (`"left"`). `Kill` is also what a
  failed assertion does; `fault` names it.

Abstractions: the tree changes when the entry is written; the dinodes, the order of the disk writes
and deaths between them are in the other two modules. A write of data, an entry or a new directory
may fail for want of room whenever it likes; a write that would make the file too large (`-EFBIG`) is
in `FileStore`. A range is valid or not, as it likes. `CheckEntry` marks the inodes `checkfs` visits; it
leaves out that `bitmap_mark` finds one marked already, which `TreeSound` excludes, and the pass over
the blocks, which is `FsckClean` in `FileStore`. A recursion that
grows deeper than `MaxDepth` (the tree of 4 inodes has depth 3) has no end.

No fairness is stated: every property is one of safety, and the check for deadlock shows that a
process always has a next step (which also covers the assertions of `tx.c`).

## The runs

| Run | Constants | Checks |
|---|---|---|
| `freemap` | 2 disk blocks of 2 words of 2 bits | `TypeOK`, `OneAhead`, `ImplementsPool` |
| `filestore` | 3 inodes, 7 blocks of 4 cells, 2 direct; 5 commands | `TypeOK`, `FsckClean`, `ChecksumsKeepUp`, `UnsyncedIsDirty`, `FreeBlocksAreZero`, `OnlyKnownFaults`, `NothingHeldTwice`, `EntriesFit`, `Consistency`, `Accounted`, `ImplementsVolume`, `Terminates` |
| `filestore_crash` | an inode map of 4 bits for 3 inodes, 8 blocks of 4 cells with checksums for 7, 1 direct; 4 commands, 2 crashes | `FsckClean`, `CrashSafe`, `NamedAreMarked`, `FreeBlocksAreZero`, `OnlyKnownFaults`, `ImplementsVolume` |
| `dirlayout` | blocks of 14 cells; names of 2, 2, 2, 3 and 20 cells; 5 commands, any of which may die | `TypeOK`, `WholeEntries`, `ImplementsDirectory` |
| `session` | 4 inodes; 13 paths and the empty one; both programs | `TypeOK`, `CountsBalance`, `OnlyKnownFaults`, `ComesBack`, `TreeSound`, `ImplementsNamespace` |
| `indirect_left`, `parent_dirty`, `owrite_offset` | as `filestore` | one finding each |
| `csum_range` | as `filestore_crash` | one finding |
| `remove_padded` | as `dirlayout`, with 6 commands | one finding |
| `catr_lost`, `abs_name` | as `session`, with 3 inodes | one finding each |

- `FsckClean`: after any commands, failed ones included, `checkfs` finds nothing, as long as no
  process died. `CrashSafe` says what a death between two writes may leave: nothing shared, nothing
  unmarked, nothing missing, except in the one inode being cut back or removed (`Window`), whose
  blocks are freed on the disk before its dinode is written. It is said of processes that started on
  an undamaged image, as are `NamedAreMarked`, `FreeBlocksAreZero`, `NothingHeldTwice`, `EntriesFit` and
  `Consistency`.
- `ImplementsVolume`: a reader of the image finds after each command what `Volume` says. "ok" means
  the command was done; "err" that the file kept its length and the directories are as before (a
  failed write may have replaced a prefix of what it was to write); a death changes only the files
  the command is about. A step is held to this unless a command has started on a damaged image
  (`hurt'`): such a command may free or overwrite blocks of another file.
- `OnlyKnownFaults` of `FileStore`: the assertions `inode.c:388` and `inode.c:399`, that an inode has the
  blocks of its size it holds itself, do not fail on any image that crashes leave and whatever has
  run on it since. `inode.c:231`, `304` and `403`, `super.c:252`, `bitmap.c:116` and `bitmap.c:119` fail
  only once a command has started on a damaged image; `304`, `403` and `bitmap.c:119` then do, in
  `filestore_crash`, the other three need more commands or larger numbers than it has. The others are the findings below, and `inode.c:84`.
- `FreeBlocksAreZero` is what lets `testfs_alloc_block` zero only the buffer of its caller.
- `NothingHeldTwice`, `EntriesFit`, `Consistency` and `Accounted` are the invariants behind these, from
  `FileStoreInv`: no two inodes a process works on hold the same block, at any step; every directory
  keeps its last cell of a block free, and no entry is written over a name; a command keeps to its
  plan of calls while the disk has of each inode what the process has, or less; and every number and
  block that is marked is in use, about to be, or about to be given back.
- `NamedAreMarked`: an inode that an entry on the disk names is never free on the disk, so no later
  create is given the number of a name that is still there; this is what the order of the calls of
  rm is for. It has a type, unless the command that names it has still to write it, or died.
- `WholeEntries`: the chain of entries ends where the directory ends, on the disk and in memory, and
  each lies in one block, so that it is changed by one disk write.
- `ImplementsDirectory`: a name is there from one instant of its create to one instant of its
  removal, exactly once, and a process that dies has done all of its command or none. Both hold until
  the data is `spoiled`; `TypeOK` holds after that too.
- `CountsBalance`: the count of every inode is the number of pointers that will put it. `ComesBack`:
  on every way out of a command the current directory is the caller's and no transaction is open.
  `OnlyKnownFaults` of `Session` names every way a process can be killed and the only cases in which
  it is; `TreeSound` is the shape of the tree between two commands.
- `ImplementsNamespace`: the walk, which moves the current directory from inode to inode, finds what
  `Resolve` reads from the path alone; names change where the path says; and a command answers "ok"
  only if what it needs is there, and "err" only if it is not (or for want of room).

The bounds: with 2 direct blocks of 4 cells a length of 8 ends exactly on the last direct block and
13 reaches two children of the indirect block; an offset of 5 starts inside a block. Five commands
on 7 blocks run out of blocks at every place of a write, a mkdir and a create. With 1 direct
block, 21 is beyond the largest file (`-EFBIG`), and 9 and 4 are in the indirect and on the direct
block. `InodeBits` is 3 in one run, so that the map is what runs out, and 4 in the other, where,
as in `testfs.h` (512 bits, 256 inodes), the inode table does; `MaxCsums` likewise (1024 bits, 960
entries). Two files and the root directory are enough for blocks to pass from one to another. Two
crashes and four commands are enough to make a file, to die while it is cut back, to give its blocks
to another, and to run a command on either.

In `dirlayout` an empty directory has room for one more entry in its first block, and the second
block for three; the lengths 2 and 3 make entries that end one cell before the end of a block, where
no header fits, and entries that would end on it, and are moved. Five commands put entries in two
blocks, use removed ones again and remove one behind padding and go on; the entry of 20 cells spans
two blocks or three. In `session`, three files besides the root give a directory in a
directory and a file beside it, and a disk without a free inode; the 13 paths
have up to three components, with `.`, `..`, an empty component, a slash at the front or the end. The
number of commands is not bounded: the run covers every sequence of them.

Deadlock is not checked in the runs of `FileStore` and `DirLayout`: after the last command the system
stops. `Terminates` shows that `FileStore` stops nowhere else.

## What is proved

Every invariant of the passing runs is a theorem of its specification, and so are two of the four
refinements. The assumptions are those of the constants, `FreemapAssumption`,
`FileStoreAssumption`, `DirLayoutAssumption` with `DotsFit` (the entries `.` and `..` fit in a block),
and `SessionAssumption`. The bounds `MaxCmds`, `MaxCrashes` and
`Limit` are constants like the others: a theorem holds for every value of them.

### Freemap

For every size of words, blocks and maps:

- `TypeCorrect` and `InStep`, from the inductive invariant `TypeOK /\ OneAhead`. `OneAhead` names
  the bit by which memory is ahead of the disk; only with it is it known that writing one block
  brings the whole disk up to date (`DiskCatchesUp`). The arithmetic is in `BlockOfWord`: the block
  computed from a bit's number is the one its word lies in.
- `Refinement`: `Spec => Pool!Spec`. `WriteBack` is the step of the pool, and every other step a
  stutter. `ScanIsFirstFit` shows that the scan by words and bits finds the least number.

### FileStore

For every geometry of the disk, every request, every sequence of commands and every crash. The
invariants of 2 to 4 hold until a command starts on a damaged image: they are proved as
`hurt \/ ...`, and what starts a new process on an undamaged image after a death is that `Intact` and
what `CrashSafe` leaves give them back. Those of 1 and `OwnInvariant` hold on every image. Each layer
is inductive only on top of the ones before it:

1. `TypeCorrect`, and `NoChangeLost` (`UnsyncedIsDirty`): every step that changes an inode sets the
   flag (`SetInodeFlags`), only `SyncInode` clears it.
2. `OwnershipInvariant`. A free block is zero because it was zeroed before it was unmarked and
   nothing wrote to it since; nothing wrote to it because what is written is held, and what is held
   is marked; and what is held is known to be marked only if no two inodes hold the same block. So
   `Ownership` says all of it at once, at every step of a call, with the children of an indirect
   block taken from the buffer while the disk does not have them (`HeldAt`). From it follow
   `FreeIsZero` (`FreeBlocksAreZero`) and `HeldOnce` (`NothingHeldTwice`).
3. `ConsistencyInvariant` (`Consistency`). Directories name marked numbers, each once (`NamesSound`);
   that stays so because a command makes its calls in the order of its plan (`Doing`: what has been
   done when just so many calls are left); the disk has of every inode what the process has or less,
   unless the inode is being cut back (`DiskBehind`). `Reachable` is the least set that is closed
   under the names of its directories, so that a step which adds or removes one name changes it by
   one inode.
4. What follows from the three, and what needs one more invariant on top of them: `NamesAreMarked`,
   `CrashesAreSafe`; `SumsInvariant`; `DirectoriesHaveDots`, and with it `EntriesAreKept` (`EntriesFit`), since names are
   read from the third cell on; and `FreshBlocksAreZero`. `OwnInvariant` is about every image: an inode
   has its direct blocks and its indirect block as far as its size needs them (`OwnBlocks`), because
   what a crash leaves of an inode is what some sync wrote, whatever the maps say. With it
   `FaultsAreKnown` (`OnlyKnownFaults`) has `inode.c:388` and `inode.c:399` on any image; the other
   assertions follow from 2 and 3 until `hurt`.
5. `AccountInvariant` (`Accounted`): the other direction of `Ownership`. A marked number is named, or
   the plan of the command names it or gives it back; a marked block is held, within the size of
   its inode, but for the one that is just being mapped. It needs all of the above, since a number
   is forgotten when its name is overwritten. With `Summed` it gives `ImagesAreClean` (`FsckClean`), and
   with that, that a command starts on a damaged image only after a process has died (`hurt => died`);
   so what is said "as long as no process has died", `ChecksumsAreKept` (`ChecksumsKeepUp`) too, holds
   without a hypothesis.

### DirLayout

For all names, lengths, block sizes and bounds, with names that fit in no block and removals behind
padding among the steps:

- `DirTypeCorrect` (`TypeOK`) in every state, spoiled or not: what is written stays below `Limit`, by the
  guard of `Proceed` for every write that is still to come (`InBounds`), however the entries read.
- `EntriesInOrder`: `spoiled \/ DirInv` is an invariant. The entries read from the disk up to its size are a chain
  of whole ones with different names (`InOrder`), and the writes a command has still to make are those
  of one entry in a place where they fit, a removal, or none (`Pending`); so whichever of the writes
  is the last before a death, what is read afterwards is the chain before or the chain after.
- From it `EntriesAreWhole` (`WholeEntries`) and `DirectoryImplemented` (`ImplementsDirectory`), both up
  to the step that spoils the data: the step of `Directory` is the write of the entry's block under the size on
  the disk, or the write of the size, and every other step is a stutter.
- The readers walk a chain whose length is that of the data. What they find is proved with a minimum
  (`LeastNat`) and its consequence `Downwards` in place of an induction over the data.

### Session

For every number of inodes, every set of command lines and either program:

1. `WhereInvariant`: what the pointers, the walk and the calls are in each stage of a command (`Stage`).
   The rest needs it to know which step a process can make.
2. `StandingInvariant`: the tree is sound between two commands and within them, up to the one inode
   that a create has not yet named or an `rm` no longer names (`Pending...`), it has no cycle (there is
   a rank that grows along every entry), and what a process walks from or will visit is in use.
   `TreesAreSound` (`TreeSound`) is what it says between commands.
3. `CountedInvariant`. For all commands but `catr` the count of an inode is the number of pointers to
   it (`Balanced`). `catr` with a path may free the inode that its caller's pointer is to, so no such
   equation holds; `CatrHolds` says that what is spare, beyond what the nested calls will still put,
   never becomes negative. Together they give `TypeInvariant` (`TypeOK`: no count is negative).
4. `CatrHereInvariant`: a `catr` without an argument looks up `.`, which stays where it is, so its calls
   are a chain of directories and its counts exact. With `Balanced` this is `CountsAreBalanced`
   (`CountsBalance`) and `CommandsComeBack` (`ComesBack`).
5. `DeepInvariant`: every nested call is on a directory further down the tree. Since the tree has a
   rank, no directory is in two calls, and by `NotEndless` (the calls inject into the inodes)
   there are never more of them than inodes: `MaxDepth` is never reached, whatever it is.
6. `FaultsAreListed` (`OnlyKnownFaults`): every step that kills a process is gone through, and each of
   the deaths is excluded by one of the above or is in the list.

`SessionAssumption` asks that `MaxDepth` is at least the number of inodes. The code has no such
bound; with a smaller one the model would report an endless recursion where there is none.

### Only model-checked

- `ImplementsVolume` and `ImplementsNamespace`. The meaning of a path in `Namespace` is a recursive
  function over its characters, to be compared with a walk by steps over its components; the content
  of a file in `Volume` is compared with the writes of a command block by block.
- `Terminates`: liveness under fairness is beyond TLAPS.
- That a state is no deadlock (`session`, `freemap`): TLAPS has no rules for `ENABLED`.

## Where the code and its text differ

1. `indirect_left`: a write that gets an indirect block but no data block keeps the indirect block
   (`inode.c:163-181`). The truncation of the error path, or a later one, aborts at `inode.c:415`.
2. `parent_dirty`: when a new entry finds no block, the parent directory is left dirty
   (`dir.c:403`) and the process aborts at `inode.c:240`.
3. `owrite_offset`: "Verify the validity of the specified offset" (`file.c:173`) lets an offset
   beyond the end through; `inode.c:343` aborts.
4. `csum_range`: "number of data blocks cannot exceed size of checksum table" (`super.c:45`); the
   block map can (`csum.c:38` aborts).

5. `remove_padded`: "Only the inode_nr corresponding to the file or directory to be deleted are set
   to -1" (`dir.c:240`); of the first entry behind padding the removal writes a copy into the padding
   (`dir.c:259`, `dir.c:283`) and leaves the entry, whose inode is then freed.
6. `catr_lost`: "assume there are no entries in the inode hash table" (`super.c:144`); after a `catr`
   of a path that is not found from a child directory, the root is left there and `main` puts an
   inode that is freed (`file.c:86-93`).
7. `abs_name`: the path is set to "/" by increasing the offset (`dir.c:335-340`), which also shifts
   the new name (`dir.c:361`): `touch /foo` creates `oo`, `touch /a` an entry without a name.

The model `Session` also follows the code where no text contradicts it: ls, stat or catr of a path
through a file abort (`dir.c:31`, `dir.c:469`); `testfs` dies on a known command without an argument
(`testfs.c:133`); catr of `/` or `..` from a child nests without end; in `testfs_single_argument` the
size of an `oread` ends in a blank and is never accepted. `OnlyKnownFaults` and `Split` name these.

## Not modelled

- `list.h` (from the Linux kernel) and the buckets of the hash table: an inode in memory is found by
  its number. The build files.
- The KLEE hooks, but for the first argument that `testfs` makes symbolic. `klee_make_symbolic` in
  `testfs_create_file_or_dir` (`dir.c:323`) changes a variable that nothing reads.
- The checksum function (`csum.c:44-59`) and the symbolic reads of `block.c`.
- Options, usage messages, and the fixed buffers of 50 and 1000 bytes of the two `main` functions.
- Failures of `malloc`, some of which leave buffers or inodes behind.
- The width of the offset of `owrite` (`file.c:187`, a `long` passed as an `int`).
- What a write through a wild block number does to the super block, the maps or the inodes, on an
  image that a crash has damaged; and what misread cells mean, in a directory that is `spoiled`
  (see `FileStore` and `DirLayout`).
- The recursion of `testfs_pwd`: every command starts in the root directory.
- The steps of `mktestfs`; the image it makes is where the modules start.

## Plan

The modules, runs and proofs above are what was planned, in this order: `Freemap`, `FileStore` with
`Volume`, `DirLayout`, `Session`, their runs, then their proofs. What could follow:

1. The width of offsets in `FileStore`.
2. The two refinements that are only model-checked.
