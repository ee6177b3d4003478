----------------------------- MODULE FileStoreInv ----------------------------
(***************************************************************************)
(* What the process knows and the disk does not show: the inductive        *)
(* invariants from which the properties of FileStore are proved.           *)
(* Ownership is about who holds a block, Consistent about the tree on the *)
(* disk and how far a command has come, Accounted about what is never lost. *)
(* FileStoreOwnership, FileStoreConsistency and FileStoreAccount prove them; *)
(* here are the definitions, which TLC can evaluate too.                   *)
(***************************************************************************)
EXTENDS FileStore

WriteSteps == {"map", "child", "indirect", "store", "csum"}
TruncSteps == {"zero", "unmark", "zerochild", "unmarkchild", "unmarkindirect"}

\* The steps between which ibuf, and not the disk, has the children of the current inode.
Loaded == {"child", "indirect", "zerochild", "unmarkchild"}

\* The block that inode i holds at place s, as the process knows it.
Table(i) == IF pc \in Loaded /\ i = Cur.in THEN ibuf ELSE blk[mem[i].ind]
HeldAt(i, s) ==
  IF s = -1 THEN mem[i].ind
  ELSE IF s < NrDirect THEN mem[i].direct[s]
  ELSE IF mem[i].ind = 0 THEN 0 ELSE Table(i)[s - NrDirect]

\* What the inodes of P hold is marked, and held once.
Owned(P) ==
  /\ \A i \in P, s \in Places : HeldAt(i, s) # 0 => HeldAt(i, s) \in bmap
  /\ \A i, j \in P : \A s, t \in Places :
       HeldAt(i, s) # 0 /\ HeldAt(i, s) = HeldAt(j, t) => i = j /\ s = t

\* The inodes the command still works on.
Targets(calls) == {calls[k].in : k \in DOMAIN calls}
Acting         == Targets(todo) \cup Targets(onfail)

\* Where the process stands in the current call.
StandsInWrite ==
  /\ pc \in WriteSteps => todo # <<>> /\ Cur.op = "write" /\ at < Cur.n
                            /\ Cur.off <= Inode.size
  /\ pc \in {"child", "indirect"} => NrDirect <= Log /\ Inode.ind # 0
  /\ pc \in {"child", "indirect", "store", "csum"} => Log < NrLogical
  /\ pc = "child" => ibuf = blk[Inode.ind] /\ Mapped = 0
  /\ pc = "csum" => block_nr = Mapped
StandsInTrunc ==
  /\ pc \in TruncSteps => todo # <<>> /\ Cur.op = "trunc" /\ Cur.off < Inode.size
  /\ pc \in {"zero", "unmark"} => First <= at /\ at <= MaxOf(First, NrDirect)
  /\ pc = "unmark" => MoreDirect /\ Inode.direct[at] # 0
  /\ pc \in {"zerochild", "unmarkchild", "unmarkindirect"} => Inode.ind # 0 /\ FirstChild <= at
  /\ pc = "unmarkchild" => MoreChildren /\ ibuf[at] \in Phys
  /\ pc = "unmarkindirect" => First <= NrDirect
StandsBetween ==
  /\ pc \in {"idle", "create"} => todo = <<>> /\ onfail = <<>> /\ dirty = {} /\ mem = dino
  /\ pc = "create" => Intact /\ job.in \in Reachable /\ dino[job.in].type = "dir"
  /\ pc \in {"idle", "create", "ready"} => at = 0
Stands == StandsInWrite /\ StandsInTrunc /\ StandsBetween

\* A block is zero when its mark is taken away.
Zeroed ==
  /\ pc = "unmark" => blk[Inode.direct[at]] = Zero
  /\ pc = "unmarkchild" => blk[ibuf[at]] = Zero
  /\ pc = "unmarkindirect" => blk[Inode.ind] = Zero

\* The calls a command makes: it writes something, and it never releases the root.
\* Once a write has failed it writes no more.
SafeCalls == {c \in Call : /\ c.op = "write" => c.n > 0
                           /\ c.op = "release" => c.in # 0}
FailCalls == {c \in SafeCalls : c.op # "write"}
Planned   == todo \in Seq(SafeCalls) /\ onfail \in Seq(FailCalls)

\* The root directory is there.
RootStays == 0 \in imap /\ mem[0].type = "dir" /\ dino[0].type = "dir"

\* As long as a process runs, no two of its inodes hold the same block, whatever it has
\* allocated, freed and loaded, and every block it holds is marked.
NoBlockTwice == Owned(Acting)

\* A block that is not marked is zero on the disk.
FreeAreZero == \A b \in Phys \ bmap : blk[b] = Zero

\* All of this is needed to keep any of it: a block is found zero because it was zeroed
\* before it was freed, and nothing wrote to it since, because nothing that is held is free.
Ownership ==
  Planned /\ Stands /\ Zeroed /\ RootStays /\ NoBlockTwice /\ FreeAreZero

\* The cells an inode has to have blocks for, while it is written and otherwise.
Extent(i) ==
  IF pc \in WriteSteps /\ i = Cur.in THEN MaxOf(mem[i].size, Cur.off + at) ELSE mem[i].size

\* The blocks that a truncation has freed and the size still covers.
Cleared(i, l) ==
  /\ pc \in TruncSteps /\ i = Cur.in /\ First <= l
  /\ pc \in {"zero", "unmark"} => l < at
  /\ pc \in {"zerochild", "unmarkchild"} => l < NrDirect + at
Filled(P) ==
  \A i \in P : \A l \in 0 .. (Blocks(Extent(i)) - 1) :
    l < NrLogical /\ (HeldAt(i, l) # 0 \/ Cleared(i, l))

-----------------------------------------------------------------------------
(* What is on the disk, against what the process holds in memory.          *)

\* The directories that checkfs finds on the disk.
Dirs == {d \in Reachable : dino[d].type = "dir"}

\* The cells of a directory as the process has them, up to the one it has just written.
MemCell(i, k) ==
  LET b == HeldAt(i, k \div BlockSize) IN IF b \in Phys THEN blk[b][k % BlockSize] ELSE 0
Known(d) ==
  2 .. ((IF pc = "csum" /\ d = Cur.in THEN MaxOf(mem[d].size, Cur.off + Cur.n)
                                     ELSE mem[d].size) - 1)
Named(x) == \E d \in Dirs : \E k \in Known(d) : MemCell(d, k) = x + 1

\* The inodes that matter while a command runs.
Live == Reachable \cup Acting

\* What the disk has of an inode, the process has too, and the size on the disk is covered.
OnDisk(i) ==
  /\ \A s \in Places : RefAt(dino[i], s) \in {0, HeldAt(i, s)}
  /\ HasItsBlocks(dino[i])

\* An inode that is being cut back or removed, and written when that is done.
Closing(i) == Window(i) /\ \E k \in DOMAIN todo : todo[k] = SyncCall(i)

\* A directory is never cut back, nor its number given back, while a path leads to it.
DirsKept ==
  \A d \in Dirs : mem[d].type = "dir" /\ dino[d].size <= mem[d].size /\ OnDisk(d)

\* A directory names marked inodes, each once, and none of them is the root; a name that
\* the size on the disk does not cover yet is that of the new inode.
NewName(d, x) ==
  /\ dino[x] = Blank /\ Len(todo) >= 2
  /\ todo[Len(todo) - 1] = SyncCall(d) /\ todo[Len(todo)] = SyncCall(x)
NamesSound ==
  /\ \A d \in Dirs : \A k \in Known(d) : MemCell(d, k) > 0 =>
       LET x == MemCell(d, k) - 1
       IN  x \in Inodes \cap imap /\ x # 0 /\ (k < dino[d].size \/ NewName(d, x))
  /\ \A c, d \in Dirs : \A j \in Known(c), k \in Known(d) :
       MemCell(c, j) > 0 /\ MemCell(c, j) = MemCell(d, k) => c = d /\ j = k

DiskBehind    == \A i \in Live : OnDisk(i) \/ Closing(i)
UnmarkedBlank ==
  \A i \in Inodes \ imap : mem[i] = Blank /\ (dino[i] = Blank \/ Closing(i))
-----------------------------------------------------------------------------
(* How far a command has come: the calls that are left, counted from the   *)
(* last, and what holds when just these are left.                          *)

Is(c, op, i) == c.op = op /\ c.in = i

\* cmd_write and cmd_owrite.
Writing(i) ==
  LET m == Len(todo)
  IN  /\ m \in 1 .. 3
      /\ todo[m] = SyncCall(i)
      /\ m >= 2 => Is(todo[m - 1], "trunc", i)
      /\ m = 3 => Is(Cur, "write", i) /\ onfail = <<SyncCall(i)>>
      /\ m < 3 => i \in dirty
      /\ i \in imap /\ mem[i].type # "dir" /\ mem[i].type = dino[i].type
      /\ died \/ dino[i].type # "none"

\* cmd_rm: the entry is there until it is erased, then no other names the inode.
Removing(i) ==
  LET m == Len(todo)
  IN  /\ m \in 1 .. 5 /\ i # 0
      /\ todo[m] = SyncCall(0)
      /\ m >= 2 => todo[m - 1] = SyncCall(i)
      /\ m >= 3 => todo[m - 2] = ReleaseCall(i) /\ i \in imap
      /\ m >= 4 => todo[m - 3] = TruncCall(i, 0)
      /\ m = 5 => Is(Cur, "write", 0) /\ Cur.n = 1 /\ Cur.val = Removed /\ onfail = <<>>
      /\ IF m = 5 /\ pc # "csum" THEN Cur.off \in Known(0) /\ MemCell(0, Cur.off) = i + 1
                                 ELSE m >= 2 => ~Named(i)
      /\ m < 5 => 0 \in dirty
      /\ m = 2 => i \in dirty

\* testfs_create_file_or_dir: the entries of the new directory and the padding come
\* before the entry that names the new inode.
Creating(p, i) ==
  LET m == Len(todo)
  IN  /\ m >= 1 /\ i # 0 /\ i # p
      /\ todo[m] = SyncCall(i)
      /\ m >= 2 => todo[m - 1] = SyncCall(p)
      /\ m >= 3 => /\ Is(todo[m - 2], "write", p) /\ todo[m - 2].n = 1
                   /\ todo[m - 2].val = i + 1
                   /\ onfail = <<TruncCall(i, 0), ReleaseCall(i), SyncCall(i)>>
      /\ \A k \in 1 .. (m - 3) :
           /\ todo[k].n = 1
           /\ \/ Is(todo[k], "write", i) /\ todo[k].off < 2
              \/ Is(todo[k], "write", p) /\ todo[k].val = 0
      /\ m > 3 \/ (m = 3 /\ pc # "csum") => ~Named(i)
      /\ m = 2 => p \in dirty
      /\ p \in imap /\ mem[p].type = "dir" /\ dino[p].type = "dir"
      /\ i \in imap /\ i \in dirty /\ dino[i] = Blank
      /\ mem[i].type # "none" /\ (mem[i].type = "dir" => mem[i].size <= 2)

\* The same, when a write has failed.
Undoing(i) ==
  LET m == Len(todo)
  IN  /\ m \in 1 .. 4 /\ i # 0
      /\ todo[m] = SyncCall(i)
      /\ m >= 2 => todo[m - 1] = ReleaseCall(i) /\ i \in imap
      /\ m >= 3 => todo[m - 2] = TruncCall(i, 0)
      /\ m = 4 => /\ Cur.op = "trunc"
                  /\ Cur.in = i \/ (pc = "ready" /\ Inode.size <= Cur.off)
      /\ i \in dirty /\ ~Named(i)

\* A directory is cut back to the size that it has.
StandsStill ==
  Len(todo) = 1 /\ Cur.op = "trunc" /\ pc = "ready" /\ Inode.size <= Cur.off

Doing ==
  todo # <<>> =>
    \/ \E i \in Inodes : Writing(i) \/ Removing(i) \/ Undoing(i)
    \/ \E p, i \in Inodes : Creating(p, i)
    \/ StandsStill

\* Every inode that checkfs finds has its type, or is about to get it.
Typed ==
  ~died => \A i \in Reachable : \/ dino[i].type # "none"
                                \/ todo # <<>> /\ todo[Len(todo)] = SyncCall(i)

\* As long as no process has died, the direct blocks have their checksums, but the one
\* that is new or has just been written, or that is zeroed and about to be freed.
Unsummed(i, l) ==
  /\ todo # <<>> /\ i = Cur.in
  /\ \/ pc = "store" /\ l = Log /\ dino[i].direct[l] = 0
     \/ pc = "csum" /\ l = Log
     \/ pc = "unmark" /\ l = at
Summed ==
  ~died => \A i \in Live, l \in 0 .. (NrDirect - 1) :
    mem[i].direct[l] \in summed \cup {0} \/ Unsummed(i, l)

\* Together: while a process runs, and when it is gone.
WhileRunning == Owned(Live) /\ Filled(Live) /\ DiskBehind /\ UnmarkedBlank
Consistent  == DirsKept /\ NamesSound /\ Doing /\ Typed /\ (pc # "idle" => WhileRunning)
-----------------------------------------------------------------------------
(* What is never forgotten as long as no process has died: a number that   *)
(* is marked is used or about to be given back, and so is a block.         *)

Releasing(x) == \E k \in DOMAIN todo : todo[k] = ReleaseCall(x)

\* An inode that is created, until the directory that names it is written.
Arriving(p, x) ==
  LET m == Len(todo)
  IN  /\ m >= 2 /\ todo[m - 1] = SyncCall(p) /\ todo[m] = SyncCall(x)
      /\ m = 2 \/ (m = 3 /\ pc = "csum") => \E k \in Known(p) : MemCell(p, k) = x + 1

NumbersKept == \A x \in imap \ Reachable : Releasing(x) \/ \E p \in Dirs : Arriving(p, x)
BlocksKept  == \A b \in bmap : \E i \in Live, s \in Places : HeldAt(i, s) = b

\* An inode has no block beyond its size, but the one that is being mapped, and what
\* a truncation has freed is gone.
Mapping(i, l) == pc \in {"indirect", "store", "csum"} /\ i = Cur.in /\ l = Log
Tight(P) ==
  \A i \in P : \A l \in 0 .. (NrLogical - 1) :
    HeldAt(i, l) # 0 => (l < Blocks(Extent(i)) /\ ~Cleared(i, l)) \/ Mapping(i, l)

\* It has an indirect block only if it has all the direct ones.
Wanted(P) ==
  \A i \in P : mem[i].ind # 0 =>
    NrDirect * BlockSize <= Extent(i) \/ (pc \in TruncSteps /\ i = Cur.in)

\* What is released is empty, and so is a directory that is removed.
EmptyFirst ==
  todo # <<>> =>
    /\ Cur.op = "release" => Inode.size = 0
    /\ \A i \in Dirs : Len(todo) = 5 /\ todo[3] = ReleaseCall(i) =>
         \A k \in Known(i) : ~(MemCell(i, k) > 0)

\* A block that has just been taken is zero, as the buffer is that stands for it, from the
\* moment it is referred to until it is written.
FreshIsZero ==
  /\ fresh => pc = "store" /\ Mapped \in Phys /\ blk[Mapped] = Zero
  /\ pc = "indirect" /\ ibuf[Log - NrDirect] # 0 => blk[ibuf[Log - NrDirect]] = Zero

\* A directory has its entries "." and ".." before a path leads to it.
DotsFirst ==
  /\ \A d \in Dirs : dino[d].size >= 2
  /\ \A i \in Inodes :
       todo # <<>> /\ todo[Len(todo)] = SyncCall(i) /\ mem[i].type = "dir" =>
         \/ mem[i].size >= 2
         \/ Releasing(i)
         \/ \E n \in DOMAIN todo : Is(todo[n], "write", i) /\ todo[n].off = 1

\* A directory has no entry in the last cell of a block, and a new one is written where
\* there is no name.
Spare(c) ==
  c.op = "write" /\ c.in \in Dirs =>
    /\ c.off >= 2
    /\ c.val # 0 => (c.off + 1) % BlockSize # 0
    /\ c.val # Removed => \A k \in Known(c.in) : MemCell(c.in, k) > 0 => k # c.off
EntriesPlaced ==
  /\ \A d \in Dirs : \A k \in Known(d) : MemCell(d, k) # 0 => (k + 1) % BlockSize # 0
  /\ \A n \in DOMAIN todo : (n = 1 /\ pc = "csum") \/ Spare(todo[n])

Accounted ==
  ~died => /\ WhileRunning /\ NumbersKept /\ BlocksKept
           /\ Tight(Live) /\ Wanted(Live) /\ EmptyFirst
-----------------------------------------------------------------------------
(* What holds on any image whatsoever: the blocks an inode holds itself    *)
(* are there, whoever else holds them and whatever is in them.             *)

\* The direct blocks that n cells of an inode need, and the indirect one if they need it.
HasOwn(d, n) ==
  /\ \A l \in 0 .. (NrDirect - 1) : l < Blocks(n) => d.direct[l] # 0
  /\ Blocks(n) > NrDirect => d.ind # 0

\* In memory, but for what a truncation has freed.
KeepsOwn(i) ==
  /\ \A l \in 0 .. (NrDirect - 1) :
       l < Blocks(Extent(i)) => mem[i].direct[l] # 0 \/ Cleared(i, l)
  /\ Blocks(Extent(i)) > NrDirect => mem[i].ind # 0

\* Where the process is in the call it makes.
AtWork ==
  /\ pc \in WriteSteps => todo # <<>> /\ Cur.op = "write" /\ Cur.off <= Inode.size
  /\ pc \in {"child", "indirect"} => NrDirect <= Log /\ Inode.ind # 0
  /\ pc \in {"store", "csum"} =>
       IF Log < NrDirect THEN Inode.direct[Log] # 0 ELSE Inode.ind # 0
  /\ pc \in TruncSteps => todo # <<>> /\ Cur.op = "trunc" /\ Cur.off < Inode.size
  /\ pc \in {"zero", "unmark"} => First <= at
  /\ pc = "unmarkindirect" => First <= NrDirect
  /\ pc \in {"idle", "create", "ready"} => at = 0
OwnBlocks == \A i \in Inodes : HasOwn(dino[i], dino[i].size) /\ KeepsOwn(i)
-----------------------------------------------------------------------------
(* What the runs check of these: they hold as long as no command has       *)
(* started on an image that a death has damaged.                           *)

\* As long as a process runs, no two of its inodes hold the same block, whatever it has
\* allocated, freed and loaded, and every block it holds is marked.
NothingHeldTwice == ~hurt => NoBlockTwice

\* The tree is whole and every command keeps to its plan.
Consistency == ~hurt => Consistent

\* No directory has an entry in the last cell of a block, and none is written over a name.
EntriesFit == ~hurt => EntriesPlaced
=============================================================================
