----------------------------- MODULE FileStore ------------------------------
(***************************************************************************)
(* The storage core of the file system: inodes, data blocks, the two free  *)
(* maps and the checksum table, under the commands that change them        *)
(* (touch, mkdir, write, owrite, rm).  A process runs one command and      *)
(* exits; every write of a disk block is a step of its own, and the        *)
(* process may die between any two, by a crash or by a failed assertion.   *)
(*                                                                         *)
(* A cell stands for what the code handles as a unit: a block number in an *)
(* indirect block, an entry in a directory, a piece of data in a file.     *)
(* A directory entry is the number of the inode it names plus one, or      *)
(* Removed; a cell that holds 0 is padding.  Names are abstracted: every   *)
(* file has one name, new names are new, and all have the same length.     *)
(***************************************************************************)
EXTENDS Integers, Sequences, FiniteSets

CONSTANTS
  NrInodes,         \* inodes the inode blocks have room for
  InodeBits,        \* bits of the inode free map
  BlockBits,        \* bits of the block free map
  MaxCsums,         \* MAX_NR_CSUMS
  NrDirect,         \* NR_DIRECT_BLOCKS
  BlockSize,        \* cells of a block; NR_INDIRECT_BLOCKS, as a number fills a cell
  DataStart,        \* data_blocks_start
  Offsets, Lengths, \* offsets and lengths of the writes that are asked for
  MaxCmds,          \* bound: commands of a behaviour
  MaxCrashes        \* bound: crashes of a behaviour

ASSUME FileStoreAssumption ==
  /\ NrInodes \in Nat \ {0} /\ InodeBits \in Nat \ {0}
  /\ BlockBits \in Nat \ {0} /\ MaxCsums \in Nat \ {0}
  /\ NrDirect \in Nat \ {0} /\ BlockSize \in Nat \ {0, 1, 2}
  /\ DataStart \in Nat \ {0}
  /\ Offsets \subseteq Nat /\ Lengths \subseteq Nat \ {0}
  /\ MaxCmds \in Nat /\ MaxCrashes \in Nat

VARIABLES
  \* on the disk
  imap, bmap,       \* the marked inode numbers and block numbers
  dino,             \* struct dinode of every inode
  blk,              \* the data blocks
  summed,           \* blocks whose checksum table entry is that of what they hold
  \* in the process
  mem,              \* struct inode: the dinodes in memory
  dirty,            \* inodes with I_FLAGS_DIRTY
  pc,               \* where the current call stands
  todo,             \* the calls the command has still to make, the current one first
  onfail,           \* the calls it makes instead of the rest when a write fails
  failed,           \* a write of the command has failed
  at,               \* buf_offset in a write, the loop variable i in a truncation
  fresh,            \* the block just mapped is new: its buffer is zero
  ibuf,             \* the buffer that holds the indirect block
  block_nr,         \* the block a write has written and not yet summed
  \* of the command
  job,              \* the command being run, or NoJob
  ret,              \* how the last command ended
  before,           \* what the files held when it started (a history variable)
  died,             \* a process has died in the middle of a command, now or earlier
  hurt,             \* a command has started on an image that was not Intact
  ncmd, ncrash      \* commands started and crashes so far

disk    == <<imap, bmap, dino, blk, summed>>
plan    == <<todo, onfail, failed>>
regs    == <<at, fresh, ibuf, block_nr>>
command == <<job, ret, before, died, hurt, ncmd, ncrash>>
vars    == <<disk, mem, dirty, pc, plan, regs, command>>
-----------------------------------------------------------------------------
Inodes     == 0 .. (NrInodes - 1)
Phys       == DataStart .. (DataStart + BlockBits - 1)
Cells      == 0 .. (BlockSize - 1)
NrIndirect == BlockSize
NrLogical  == NrDirect + NrIndirect
Zero       == [c \in Cells |-> 0]
Removed    == -1

Types  == {"none", "file", "dir"}
Dinode == [type : Types, size : Nat,
           direct : [0 .. (NrDirect - 1) -> Phys \cup {0}], ind : Phys \cup {0}]
Blank  == [type |-> "none", size |-> 0,
           direct |-> [l \in 0 .. (NrDirect - 1) |-> 0], ind |-> 0]

\* The calls a command is made of: testfs_write_data of n cells that all hold val,
\* testfs_truncate_data to off, the rest of testfs_remove_inode, testfs_sync_inode.
Call  == [op : {"write", "trunc", "release", "sync"}, in : Inodes,
          off : Nat, n : Nat, val : Int]
WriteCall(i, off, n, val) == [op |-> "write", in |-> i, off |-> off, n |-> n, val |-> val]
TruncCall(i, size)        == [op |-> "trunc", in |-> i, off |-> size, n |-> 0, val |-> 0]
ReleaseCall(i)            == [op |-> "release", in |-> i, off |-> 0, n |-> 0, val |-> 0]
SyncCall(i)               == [op |-> "sync", in |-> i, off |-> 0, n |-> 0, val |-> 0]

Job   == [op : {"none", "write", "touch", "mkdir", "rm"}, in : Inodes,
          off : Nat, n : Nat, val : Int]
NoJob == [op |-> "none", in |-> 0, off |-> 0, n |-> 0, val |-> 0]

Steps == {"idle", "create", "ready", "map", "child", "indirect", "store", "csum",
          "zero", "unmark", "zerochild", "unmarkchild", "unmarkindirect"}

\* The assertions of the code that a command may reach, by the place they stand.
Sites == {"inode.c:84", "inode.c:231", "inode.c:240", "inode.c:304", "inode.c:343",
          "inode.c:388", "inode.c:399", "inode.c:403", "inode.c:415", "csum.c:38",
          "super.c:252", "bitmap.c:116", "bitmap.c:119"}

TypeOK ==
  /\ imap \subseteq 0 .. (InodeBits - 1)
  /\ bmap \subseteq Phys
  /\ dino \in [Inodes -> Dinode]
  /\ blk \in [Phys -> [Cells -> Int]]
  /\ summed \subseteq Phys
  /\ mem \in [Inodes -> Dinode]
  /\ dirty \subseteq Inodes
  /\ pc \in Steps
  /\ todo \in Seq(Call) /\ onfail \in Seq(Call) /\ failed \in BOOLEAN
  /\ at \in Nat /\ fresh \in BOOLEAN /\ ibuf \in [Cells -> Int] /\ block_nr \in Phys \cup {0}
  /\ job \in Job /\ ret \in {"ok", "err", "crash"} \cup Sites
  /\ died \in BOOLEAN /\ hurt \in BOOLEAN /\ ncmd \in Nat /\ ncrash \in Nat
-----------------------------------------------------------------------------
\* MAX and DIVROUNDUP
MaxOf(a, b) == IF a >= b THEN a ELSE b
Blocks(n)   == (n + BlockSize - 1) \div BlockSize

\* testfs_get_block: the physical block behind logical block l, 0 if there is none.
BlockAt(d, l) ==
  IF l < NrDirect THEN d.direct[l]
  ELSE IF d.ind = 0 THEN 0 ELSE blk[d.ind][l - NrDirect]

\* What a file holds at cell k, and in full.
CellAt(d, k) ==
  LET b == BlockAt(d, k \div BlockSize)
  IN  IF b \in Phys THEN blk[b][k % BlockSize] ELSE 0
Content(d) == [k \in 1 .. d.size |-> CellAt(d, k - 1)]

\* testfs_next_dirent, over all offsets: the positions of the entries of a directory
\* after "." and "..", those that were removed and those that name an inode.
LiveSlots(d)    == {k \in 2 .. (d.size - 1) : CellAt(d, k) > 0}
RemovedSlots(d) == {k \in 2 .. (d.size - 1) : CellAt(d, k) = Removed}
Children(d)     == {CellAt(d, k) - 1 : k \in LiveSlots(d)}

\* The inodes testfs_checkfs visits from the root directory: those in every set that
\* holds the root and, with a directory, the inodes of its entries.
Reachable ==
  LET kids == [i \in Inodes |-> IF dino[i].type = "dir" THEN Children(dino[i]) ELSE {}]
      Closed(S) == 0 \in S /\ \A i \in S : kids[i] \cap Inodes \subseteq S
  IN  {i \in Inodes : \A S \in SUBSET Inodes : Closed(S) => i \in S}

\* The block numbers an inode holds; -1 is the place of i_indirect.
Places      == -1 .. (NrLogical - 1)
RefAt(d, s) == IF s = -1 THEN d.ind ELSE BlockAt(d, s)
Refs(d)     == {RefAt(d, s) : s \in Places} \ {0}

\* The inodes of I, as they are on the disk, hold blocks that are marked, each of them once.
Sound(I) ==
  /\ \A i \in I : Refs(dino[i]) \subseteq bmap
  /\ \A i \in I : \A s, t \in Places :
       s # t /\ RefAt(dino[i], s) # 0 => RefAt(dino[i], s) # RefAt(dino[i], t)
  /\ \A i, j \in I : i # j => Refs(dino[i]) \cap Refs(dino[j]) = {}

\* Every block below its size is there.
HasItsBlocks(d) == \A l \in 0 .. (Blocks(d.size) - 1) : l < NrLogical /\ BlockAt(d, l) # 0

\* An image on which no command meets a block that is missing or that is not its own.
Intact ==
  /\ Sound(Reachable)
  /\ \A i \in Reachable : HasItsBlocks(dino[i])
  /\ \A i \in Inodes \ imap : dino[i] = Blank

View(d) ==
  [type |-> d.type, data |-> IF d.type = "dir" THEN Children(d) ELSE Content(d)]

\* The files as a reader finds them on the disk.
DiskFiles ==
  LET live == Reachable
  IN  [i \in Inodes |-> IF i \in live THEN View(dino[i]) ELSE View(Blank)]
-----------------------------------------------------------------------------
\* The image mktestfs makes: the root directory with its two entries, in one block.
RootInode ==
  [Blank EXCEPT !.type = "dir", !.size = 2, !.direct = [@ EXCEPT ![0] = DataStart]]

Init ==
  /\ imap = {0} /\ bmap = {DataStart}
  /\ dino = [i \in Inodes |-> IF i = 0 THEN RootInode ELSE Blank]
  /\ blk = [b \in Phys |-> IF b = DataStart THEN [c \in Cells |-> IF c < 2 THEN 1 ELSE 0]
                           ELSE Zero]
  /\ summed = {b \in Phys : b - DataStart < MaxCsums}
  /\ mem = dino /\ dirty = {} /\ pc = "idle"
  /\ todo = <<>> /\ onfail = <<>> /\ failed = FALSE
  /\ at = 0 /\ fresh = FALSE /\ ibuf = Zero /\ block_nr = 0
  /\ job = NoJob /\ ret = "ok" /\ before = <<>>
  /\ died = FALSE /\ hurt = FALSE /\ ncmd = 0 /\ ncrash = 0
-----------------------------------------------------------------------------
Running(step, op) == pc = step /\ todo # <<>> /\ Head(todo).op = op

Cur   == Head(todo)
Inode == mem[Cur.in]

SetInodeUnflagged(d) ==                                 \* mutant
  /\ mem' = [mem EXCEPT ![Cur.in] = d]
  /\ UNCHANGED dirty

SetInode(d) ==
  /\ mem' = [mem EXCEPT ![Cur.in] = d]
  /\ dirty' = dirty \cup {Cur.in}

SetNoInode == UNCHANGED <<mem, dirty>>

\* The call returns and the next one begins.
Return ==
  /\ todo' = Tail(todo)
  /\ pc' = "ready" /\ at' = 0 /\ fresh' = FALSE /\ ibuf' = Zero /\ block_nr' = 0
  /\ UNCHANGED <<onfail, failed>>

\* write_blocks of one data block, and what it does to the block's checksum.
WriteBlock(b, cells) ==
  /\ blk' = [blk EXCEPT ![b] = cells]
  /\ summed' = IF blk[b] = cells THEN summed ELSE summed \ {b}

\* zero_blocks, with which testfs_free_block begins.
LeaveBlock(b) == UNCHANGED <<blk, summed>>              \* mutant
ZeroBlock(b)  == WriteBlock(b, Zero)

\* testfs_alloc_block: first fit, marked on the disk before it is used.
Unmarked(b) == bmap                                     \* mutant
WithMark(b) == bmap \cup {b}
Alloc(b) ==
  /\ b \in Phys \ bmap
  /\ \A other \in Phys \ bmap : b <= other
  /\ bmap' = WithMark(b)

Full == bmap = Phys

\* The process is gone, and what it had in memory with it.
Gone ==
  /\ mem' = dino' /\ dirty' = {} /\ pc' = "idle"
  /\ todo' = <<>> /\ onfail' = <<>> /\ failed' = FALSE
  /\ at' = 0 /\ fresh' = FALSE /\ ibuf' = Zero /\ block_nr' = 0
  /\ job' = NoJob /\ before' = <<>>
  /\ UNCHANGED <<hurt, ncmd>>
-----------------------------------------------------------------------------
\* testfs_write_data: the loop maps a block, writes it and writes its checksum.
Log    == (Cur.off + at) \div BlockSize
Mapped == BlockAt(Inode, Log)
IgnoringOffset == IF Cur.n - at <= BlockSize THEN Cur.n - at ELSE BlockSize   \* mutant
Copied == LET left == Cur.n - at
              room == BlockSize - ((Cur.off + at) % BlockSize)
          IN  IF left <= room THEN left ELSE room

BeginWrite ==
  /\ Running("ready", "write")
  /\ Cur.off <= Inode.size
  /\ pc' = "map"
  /\ UNCHANGED <<disk, mem, dirty, plan, regs, command>>

\* testfs_allocate_block, when the block is there.
MapExisting ==
  /\ Running("map", "write")
  /\ Log < NrLogical /\ Mapped > 0
  /\ pc' = "store"
  /\ UNCHANGED <<disk, mem, dirty, plan, regs, command>>

MapDirect ==
  /\ Running("map", "write")
  /\ Log < NrDirect /\ Mapped = 0
  /\ \E b \in Phys :
       /\ Alloc(b)
       /\ SetInode([Inode EXCEPT !.direct = [@ EXCEPT ![Log] = b]])
  /\ pc' = "store" /\ fresh' = TRUE
  /\ UNCHANGED <<imap, dino, blk, summed, plan, at, ibuf, block_nr, command>>

\* The first block beyond the direct ones needs the indirect block too.
MapIndirect ==
  /\ Running("map", "write")
  /\ NrDirect <= Log /\ Log < NrLogical /\ Inode.ind = 0
  /\ \E b \in Phys :
       /\ Alloc(b)
       /\ SetInode([Inode EXCEPT !.ind = b])
  /\ pc' = "child" /\ ibuf' = Zero
  /\ UNCHANGED <<imap, dino, blk, summed, plan, at, fresh, block_nr, command>>

ReadIndirect ==
  /\ Running("map", "write")
  /\ NrDirect <= Log /\ Log < NrLogical /\ Inode.ind # 0 /\ Mapped = 0
  /\ pc' = "child" /\ ibuf' = blk[Inode.ind]
  /\ UNCHANGED <<disk, mem, dirty, plan, at, fresh, block_nr, command>>

MapChild ==
  /\ Running("child", "write")
  /\ \E b \in Phys :
       /\ Alloc(b)
       /\ ibuf' = [ibuf EXCEPT ![Log - NrDirect] = b]
  /\ pc' = "indirect"
  /\ SetNoInode
  /\ UNCHANGED <<imap, dino, blk, summed, plan, at, fresh, block_nr, command>>

\* Without a data block the indirect block is still written.
NoChild ==
  /\ Running("child", "write")
  /\ Full
  /\ pc' = "indirect"
  /\ UNCHANGED <<disk, mem, dirty, plan, regs, command>>

WriteIndirect ==
  /\ Running("indirect", "write")
  /\ ibuf[Log - NrDirect] # 0
  /\ WriteBlock(Inode.ind, ibuf)
  /\ pc' = "store" /\ fresh' = TRUE /\ ibuf' = Zero
  /\ SetNoInode
  /\ UNCHANGED <<imap, bmap, dino, plan, at, block_nr, command>>

\* The error path: the size covers what was written, then the file is cut back.
NotCovered == Inode.size                            \* mutant
Covered    == MaxOf(Inode.size, Cur.off + at)
CutToStart == <<TruncCall(Cur.in, Cur.off)>>        \* mutant
CutBack    == <<TruncCall(Cur.in, Inode.size)>>
Fail ==
  /\ SetInode([Inode EXCEPT !.size = Covered])
  /\ todo' = CutBack \o onfail
  /\ onfail' = <<>> /\ failed' = TRUE
  /\ pc' = "ready" /\ at' = 0 /\ ibuf' = Zero
  /\ UNCHANGED <<fresh, block_nr>>

\* -EFBIG, -ENOSPC from the first allocation, or what was read for a block number is
\* negative and passes for an error.
MapFails ==
  /\ Running("map", "write")
  /\ \/ Log < NrLogical => Mapped < 0
     \/ Full /\ Log < NrDirect /\ Mapped = 0
     \/ Full /\ Log >= NrDirect /\ Inode.ind = 0
  /\ Fail
  /\ UNCHANGED <<disk, command>>

WriteIndirectFails ==
  /\ Running("indirect", "write")
  /\ ibuf[Log - NrDirect] = 0
  /\ WriteBlock(Inode.ind, ibuf)
  /\ Fail
  /\ UNCHANGED <<imap, bmap, dino, command>>

StoreData ==
  /\ Running("store", "write")
  /\ Mapped \in Phys
  /\ LET first == (Cur.off + at) % BlockSize
         old   == IF fresh THEN Zero ELSE blk[Mapped]
     IN  WriteBlock(Mapped, [c \in Cells |-> IF first <= c /\ c < first + Copied
                                             THEN Cur.val ELSE old[c]])
  /\ pc' = "csum" /\ fresh' = FALSE /\ block_nr' = Mapped
  /\ SetNoInode
  /\ UNCHANGED <<imap, bmap, dino, plan, at, ibuf, command>>

\* testfs_put_csum, and the loop goes on.
SumLastOnly == IF at + Copied = Cur.n THEN summed \cup {block_nr} ELSE summed  \* mutant
WithSum     == summed \cup {block_nr}
Stay        == at                                                           \* mutant
Advance     == at + Copied

StoreCsum ==
  /\ Running("csum", "write")
  /\ block_nr \in Phys /\ block_nr - DataStart < MaxCsums
  /\ at + Copied < Cur.n
  /\ summed' = WithSum
  /\ pc' = "map" /\ at' = Advance /\ block_nr' = 0
  /\ SetNoInode
  /\ UNCHANGED <<imap, bmap, dino, blk, plan, fresh, ibuf, command>>

StoreLastCsum ==
  /\ Running("csum", "write")
  /\ block_nr \in Phys /\ block_nr - DataStart < MaxCsums
  /\ at + Copied = Cur.n
  /\ summed' = WithSum
  /\ SetInode([Inode EXCEPT !.size = MaxOf(@, Cur.off + Cur.n)])
  /\ Return
  /\ UNCHANGED <<imap, bmap, dino, blk, command>>
-----------------------------------------------------------------------------
\* testfs_truncate_data: at runs over the direct blocks, then over the children of
\* the indirect block; a block is zeroed on the disk, then unmarked.
FirstRoundedDown == Cur.off \div BlockSize                       \* mutant
First            == Blocks(Cur.off)
UnclampedChild   == First - NrDirect                             \* mutant
FirstChild       == MaxOf(First - NrDirect, 0)
End              == Blocks(Inode.size)
MoreDirect       == at < End /\ at < NrDirect
OneMoreChild     == at <= End - NrDirect /\ at < NrIndirect      \* mutant
MoreChildren     == at < End - NrDirect /\ at < NrIndirect

TruncNothing ==
  /\ Running("ready", "trunc")
  /\ Inode.size <= Cur.off
  /\ Return
  /\ UNCHANGED <<disk, mem, dirty, command>>

BeginTrunc ==
  /\ Running("ready", "trunc")
  /\ Inode.size > Cur.off
  /\ pc' = "zero" /\ at' = First
  /\ UNCHANGED <<disk, mem, dirty, plan, fresh, ibuf, block_nr, command>>

ZeroDirect ==
  /\ Running("zero", "trunc")
  /\ MoreDirect /\ Inode.direct[at] # 0
  /\ ZeroBlock(Inode.direct[at])
  /\ pc' = "unmark"
  /\ SetNoInode
  /\ UNCHANGED <<imap, bmap, dino, plan, regs, command>>

UnmarkDirect ==
  /\ Running("unmark", "trunc")
  /\ Inode.direct[at] \in bmap
  /\ bmap' = bmap \ {Inode.direct[at]}
  /\ SetInode([Inode EXCEPT !.direct = [@ EXCEPT ![at] = 0]])
  /\ pc' = "zero" /\ at' = at + 1
  /\ UNCHANGED <<imap, dino, blk, summed, plan, fresh, ibuf, block_nr, command>>

TruncDirectOnly ==
  /\ Running("zero", "trunc")
  /\ ~MoreDirect /\ End <= NrDirect /\ Inode.ind = 0
  /\ SetInode([Inode EXCEPT !.size = Cur.off])
  /\ Return
  /\ UNCHANGED <<disk, command>>

LoadIndirect ==
  /\ Running("zero", "trunc")
  /\ ~MoreDirect /\ End > NrDirect /\ Inode.ind # 0
  /\ pc' = "zerochild" /\ ibuf' = blk[Inode.ind] /\ at' = FirstChild
  /\ UNCHANGED <<disk, mem, dirty, plan, fresh, block_nr, command>>

ZeroChild ==
  /\ Running("zerochild", "trunc")
  /\ MoreChildren /\ ibuf[at] \in Phys
  /\ ZeroBlock(ibuf[at])
  /\ pc' = "unmarkchild"
  /\ SetNoInode
  /\ UNCHANGED <<imap, bmap, dino, plan, regs, command>>

UnmarkChild ==
  /\ Running("unmarkchild", "trunc")
  /\ ibuf[at] \in bmap
  /\ bmap' = bmap \ {ibuf[at]}
  /\ ibuf' = [ibuf EXCEPT ![at] = 0]
  /\ pc' = "zerochild" /\ at' = at + 1
  /\ SetNoInode
  /\ UNCHANGED <<imap, dino, blk, summed, plan, fresh, block_nr, command>>

\* No child is left: the indirect block goes too.
ZeroIndirect ==
  /\ Running("zerochild", "trunc")
  /\ ~MoreChildren /\ First <= NrDirect
  /\ ZeroBlock(Inode.ind)
  /\ pc' = "unmarkindirect"
  /\ SetNoInode
  /\ UNCHANGED <<imap, bmap, dino, plan, regs, command>>

UnmarkIndirect ==
  /\ Running("unmarkindirect", "trunc")
  /\ Inode.ind \in bmap
  /\ bmap' = bmap \ {Inode.ind}
  /\ SetInode([Inode EXCEPT !.ind = 0, !.size = Cur.off])
  /\ Return
  /\ UNCHANGED <<imap, dino, blk, summed, command>>

\* Some are: the indirect block is written without the others.
KeepIndirect ==
  /\ Running("zerochild", "trunc")
  /\ ~MoreChildren /\ First > NrDirect
  /\ WriteBlock(Inode.ind, ibuf)
  /\ SetInode([Inode EXCEPT !.size = Cur.off])
  /\ Return
  /\ UNCHANGED <<imap, bmap, dino, command>>
-----------------------------------------------------------------------------
\* The end of testfs_remove_inode: the inode is zeroed in memory and its number given
\* back; the call after this one writes it.
ReleaseInode ==
  /\ Running("ready", "release")
  /\ Cur.in \in imap
  /\ imap' = imap \ {Cur.in}
  /\ SetInode(Blank)
  /\ Return
  /\ UNCHANGED <<bmap, dino, blk, summed, command>>

SyncInode ==
  /\ Running("ready", "sync")
  /\ Cur.in \in dirty
  /\ dino' = [dino EXCEPT ![Cur.in] = Inode]
  /\ dirty' = dirty \ {Cur.in}
  /\ Return
  /\ UNCHANGED <<imap, bmap, blk, summed, mem, command>>
-----------------------------------------------------------------------------
\* A command starts on whatever image there is; hurt remembers that it was a damaged one.
CanStart == pc = "idle" /\ ncmd < MaxCmds

Start(request) ==
  /\ job' = request /\ before' = DiskFiles /\ ncmd' = ncmd + 1
  /\ hurt' = (hurt \/ ~Intact)
  /\ UNCHANGED <<disk, mem, dirty, failed, regs, ret, died, ncrash>>

\* cmd_write (at offset 0) and cmd_owrite.
StartWrite(i, off, n) ==
  LET val == ncmd + 1
  IN  /\ CanStart
      /\ i \in Reachable /\ dino[i].type # "dir"
      /\ Start([op |-> "write", in |-> i, off |-> off, n |-> n, val |-> val])
      /\ todo' = <<WriteCall(i, off, n, val), TruncCall(i, off + n), SyncCall(i)>>
      /\ onfail' = <<SyncCall(i)>>
      /\ pc' = "ready"

\* testfs_create_file_or_dir, for a name that directory p does not have yet: all of p is
\* read to know that.
StartCreate(op, p) ==
  /\ CanStart
  /\ p \in Reachable /\ dino[p].type = "dir" /\ HasItsBlocks(dino[p])
  /\ Start([op |-> op, in |-> p, off |-> 0, n |-> 0, val |-> 0])
  /\ pc' = "create"
  /\ UNCHANGED <<todo, onfail>>

Unpadded(d, off, entry) == <<WriteCall(d, off, 1, entry)>>                \* mutant

\* testfs_write_dirent at offset off: an entry that would touch the end of its block
\* goes to the next one, behind padding.
WriteDirent(d, off, entry) ==
  IF (off + 1) \div BlockSize > off \div BlockSize
  THEN <<WriteCall(d, off, 1, 0), WriteCall(d, off + 1, 1, entry)>>
  ELSE <<WriteCall(d, off, 1, entry)>>

\* testfs_add_dirent: the first removed entry, or the end of the directory.
IsFreeSlot(d, k) ==
  IF RemovedSlots(d) = {} THEN k = d.size
  ELSE k \in RemovedSlots(d) /\ \A other \in RemovedSlots(d) : k <= other

\* The rest of testfs_create_file_or_dir, once it has its inode, the data of which ends
\* at cell s: a new one is empty.
CreateCalls(p, i, type, s, k) ==
  (IF type = "dir" THEN WriteDirent(i, s, i + 1) \o WriteDirent(i, s + 1, p + 1) ELSE <<>>)
    \o WriteDirent(p, k, i + 1) \o <<SyncCall(p), SyncCall(i)>>
UndoCreate(i) == <<TruncCall(i, 0), ReleaseCall(i), SyncCall(i)>>

\* testfs_create_inode: the number is marked on the disk, then the inode is read.
TakeNumber(i) ==
  /\ pc = "create"
  /\ i \in (0 .. (InodeBits - 1)) \ imap
  /\ \A other \in (0 .. (InodeBits - 1)) \ imap : i <= other
  /\ imap' = imap \cup {i}

CreateInode ==
  LET type == IF job.op = "mkdir" THEN "dir" ELSE "file"
  IN  /\ \E i \in Inodes :
           /\ TakeNumber(i)
           /\ mem' = [mem EXCEPT ![i].type = type]
           /\ dirty' = dirty \cup {i}
           /\ \E k \in 0 .. mem[job.in].size :
                /\ IsFreeSlot(mem[job.in], k)
                /\ todo' = CreateCalls(job.in, i, type, mem[i].size, k)
           /\ onfail' = UndoCreate(i)
      /\ pc' = "ready"
      /\ UNCHANGED <<bmap, dino, blk, summed, failed, regs, command>>

NoInode ==
  /\ pc = "create"
  /\ imap = 0 .. (InodeBits - 1)
  /\ failed' = TRUE /\ pc' = "ready"
  /\ UNCHANGED <<disk, mem, dirty, todo, onfail, regs, command>>

\* testfs_inode_to_block_nr asserts that the inode blocks have the number.
NoInodeBlock ==
  /\ \E i \in (0 .. (InodeBits - 1)) \ Inodes : TakeNumber(i)
  /\ ret' = "inode.c:84" /\ died' = TRUE
  /\ UNCHANGED <<bmap, dino, blk, summed, ncrash>>
  /\ Gone

\* The number is that of an inode whose removal was cut short: testfs_add_dirent reads what
\* the old inode held.  It comes to an entry that is not all below the size, or it takes
\* something for the entry it is to add (-EEXIST); or it finds the end, as in CreateInode.
LeftoversAssert ==
  /\ job.op = "mkdir"
  /\ \E i \in Inodes : TakeNumber(i) /\ mem[i].size > 0
  /\ ret' = "inode.c:304" /\ died' = TRUE
  /\ UNCHANGED <<bmap, dino, blk, summed, ncrash>>
  /\ Gone

LeftoversExist ==
  /\ job.op = "mkdir"
  /\ \E i \in Inodes :
       /\ TakeNumber(i) /\ mem[i].size > 0
       /\ mem' = [mem EXCEPT ![i].type = "dir"]
       /\ dirty' = dirty \cup {i}
       /\ todo' = UndoCreate(i)
  /\ failed' = TRUE /\ pc' = "ready"
  /\ UNCHANGED <<bmap, dino, blk, summed, onfail, regs, command>>

ReleasedFirst(i, k) ==                                                    \* mutant
  <<TruncCall(i, 0), ReleaseCall(i), SyncCall(i), WriteCall(0, k, 1, Removed), SyncCall(0)>>

\* The calls of cmd_rm, once testfs_remove_dirent has found entry k, which names i.
RemoveCalls(i, k) ==
  <<WriteCall(0, k, 1, Removed), TruncCall(i, 0), ReleaseCall(i), SyncCall(i), SyncCall(0)>>

\* cmd_rm, of the file behind entry k of the root directory, not an entry that
\* follows padding (bound).
StartRemove(k) ==
  LET i == CellAt(dino[0], k) - 1
  IN  /\ CanStart
      /\ k \in LiveSlots(dino[0]) /\ i \in Inodes /\ k % BlockSize # 0
      /\ dino[i].type = "dir" => LiveSlots(dino[i]) = {} /\ HasItsBlocks(dino[i])
      /\ Start([op |-> "rm", in |-> i, off |-> 0, n |-> 0, val |-> 0])
      /\ todo' = RemoveCalls(i, k)
      /\ onfail' = <<>>
      /\ pc' = "ready"
-----------------------------------------------------------------------------
\* main: the process exits, and every inode it holds must be clean.
Exit ==
  /\ pc = "ready" /\ todo = <<>> /\ dirty = {}
  /\ ret' = IF failed THEN "err" ELSE "ok"
  /\ UNCHANGED <<disk, died, ncrash>>
  /\ Gone

\* The assertions that can fail where the command stands.  On a damaged image a file may
\* have an indirect block that is not its own any more, and in it numbers that are none of
\* a data block; what such a number is read or written as, before the assertion that stops
\* the process, is outside the data blocks and not kept here.
Violated(site) ==
  CASE site = "inode.c:343" -> Running("ready", "write") /\ Cur.off > Inode.size
    [] site = "csum.c:38"   ->
         \/ Running("csum", "write") /\ block_nr - DataStart >= MaxCsums
         \/ Running("store", "write") /\ Mapped \notin Phys
    [] site = "inode.c:388" -> Running("zero", "trunc") /\ MoreDirect /\ Inode.direct[at] = 0
    [] site = "inode.c:399" -> Running("zero", "trunc") /\ ~MoreDirect
                                 /\ End > NrDirect /\ Inode.ind = 0
    [] site = "inode.c:415" -> Running("zero", "trunc") /\ ~MoreDirect
                                 /\ End <= NrDirect /\ Inode.ind # 0
    [] site = "inode.c:403" -> Running("zerochild", "trunc") /\ MoreChildren /\ ibuf[at] <= 0
    [] site = "super.c:252"  -> Running("zerochild", "trunc") /\ MoreChildren
                                  /\ 0 < ibuf[at] /\ ibuf[at] < DataStart
    [] site = "bitmap.c:116" -> Running("zerochild", "trunc") /\ MoreChildren
                                  /\ DataStart + BlockBits <= ibuf[at]
    [] site = "bitmap.c:119" ->
         \/ Running("unmark", "trunc") /\ Inode.direct[at] \notin bmap
         \/ Running("unmarkchild", "trunc") /\ ibuf[at] \notin bmap
         \/ Running("unmarkindirect", "trunc") /\ Inode.ind \notin bmap
         \/ Running("ready", "release") /\ Cur.in \notin imap
    [] site = "inode.c:231" -> Running("ready", "sync") /\ Cur.in \notin dirty
    [] site = "inode.c:240" -> pc = "ready" /\ todo = <<>> /\ dirty # {}
    [] OTHER -> FALSE

AssertionFails ==
  /\ \E site \in Sites : Violated(site) /\ ret' = site
  /\ died' = TRUE
  /\ UNCHANGED <<disk, ncrash>>
  /\ Gone

Crash ==
  /\ pc # "idle" /\ ncrash < MaxCrashes
  /\ ncrash' = ncrash + 1 /\ ret' = "crash" /\ died' = TRUE
  /\ UNCHANGED disk
  /\ Gone
-----------------------------------------------------------------------------
WriteStep ==
  \/ BeginWrite \/ MapExisting \/ MapDirect \/ MapIndirect \/ ReadIndirect \/ MapChild
  \/ NoChild \/ WriteIndirect \/ MapFails \/ WriteIndirectFails
  \/ StoreData \/ StoreCsum \/ StoreLastCsum

TruncStep ==
  \/ TruncNothing \/ BeginTrunc \/ ZeroDirect \/ UnmarkDirect \/ TruncDirectOnly
  \/ LoadIndirect \/ ZeroChild \/ UnmarkChild \/ ZeroIndirect \/ UnmarkIndirect
  \/ KeepIndirect

\* What the process does next, whatever it is.
Step ==
  \/ WriteStep \/ TruncStep \/ ReleaseInode \/ SyncInode
  \/ CreateInode \/ NoInode \/ NoInodeBlock \/ LeftoversAssert \/ LeftoversExist
  \/ Exit \/ AssertionFails

Command ==
  \/ \E i \in Inodes, off \in Offsets, n \in Lengths : StartWrite(i, off, n)
  \/ \E op \in {"touch", "mkdir"}, p \in Inodes : StartCreate(op, p)
  \/ \E k \in 2 .. (NrLogical * BlockSize - 1) : StartRemove(k)

Next == Command \/ Step \/ Crash

\* A process that has started a command is never descheduled for good.
Spec == Init /\ [][Next]_vars /\ WF_vars(Step)
-----------------------------------------------------------------------------
\* testfs_check_inode: the data blocks it counts and the blocks it marks; it stops at
\* the first place that holds no block.
Counted(d) == {l \in 0 .. (NrLogical - 1) : \A m \in 0 .. l : BlockAt(d, m) # 0}
Visited(d) == {BlockAt(d, l) : l \in Counted(d)}
                \cup (IF NrDirect - 1 \in Counted(d) THEN {d.ind} \ {0} ELSE {})

\* As long as every process has run to its end, whatever failed on the way for want of
\* room, checkfs finds nothing: no block is used twice, the two maps mark what the tree
\* from the root directory uses and nothing else, every file has the blocks of its size,
\* and the checksums it verifies hold.
FsckClean ==
  pc = "idle" /\ ~died =>
    /\ Intact
    /\ imap = Reachable
    /\ bmap = UNION {Visited(dino[i]) : i \in Reachable}
    /\ \A i \in Reachable :
         /\ dino[i].type \in {"file", "dir"}
         /\ Cardinality(Counted(dino[i])) = Blocks(dino[i].size)
         /\ {dino[i].direct[l] : l \in 0 .. (NrDirect - 1)} \ {0} \subseteq summed

\* An inode that is being cut back or removed and is not yet written.
Window(i) ==
  todo # <<>> /\ Cur.op \in {"trunc", "release", "sync"} /\ Cur.in = i

\* As long as no command has started on a damaged image: wherever between two disk writes
\* the process dies, what it leaves on the disk has no block in two places, no reference
\* to a block that is not marked and no block missing, except in the one inode that is
\* being cut back: blocks are marked before they are referred to, and referred to before
\* the size covers them.
CrashSafe ==
  pc # "idle" /\ ~hurt =>
    LET others == {i \in Reachable : ~Window(i)}
    IN  /\ Sound(others)
        /\ \A i \in others : HasItsBlocks(dino[i])
        /\ \A i \in Inodes \ imap : Window(i) \/ dino[i] = Blank

\* Wherever a process dies, a directory entry on the disk names an inode number that is
\* marked: the number is taken before the entry is written and given back after the entry
\* is erased (dir.c:405, dir.c:783).  The inode itself has its type, unless the process
\* that creates it has still to write it, or died before it did.  It is so as long as no
\* command has started on a damaged image.
NamedAreMarked ==
  ~hurt =>
    \A i \in Reachable :
      /\ i \in imap
      /\ \/ dino[i].type # "none"
         \/ died
         \/ todo # <<>> /\ todo[Len(todo)] = SyncCall(i)

\* The checksum table lags behind by the one block that has just been written.
ChecksumsKeepUp ==
  ~died =>
    \A i \in Reachable, l \in 0 .. (NrDirect - 1) :
      dino[i].direct[l] \in summed \cup {0}
        \/ Window(i)
        \/ (pc = "csum" /\ dino[i].direct[l] = block_nr)

\* A change to an inode in memory is never lost: testfs_sync_inode is still to come.
UnsyncedIsDirty == \A i \in Inodes : mem[i] # dino[i] => i \in dirty

\* A block that is not marked is zero on the disk, so a new file never shows what an
\* old one held, even when an allocation relies on it, as long as no command has started
\* on a damaged image (one that still has a block it has freed may write to it).
FreeBlocksAreZero == ~hurt => \A b \in Phys \ bmap : blk[b] = Zero

\* These assertions hold: of the blocks of its size an inode has all that it holds itself,
\* on any image that crashes leave and whatever ran on it since; and as long as no command
\* has started on a damaged image, an inode is dirty when it is written, a file has all its
\* blocks, what is freed is a block and was marked, and a new directory is empty.
OnlyKnownFaults ==
  /\ ret \notin {"inode.c:388", "inode.c:399"}
  /\ ret \in {"inode.c:231", "inode.c:304", "inode.c:403", "super.c:252", "bitmap.c:116",
             "bitmap.c:119"} => hurt

\* Every command ends, with an answer or with the death of its process.
Terminates == (pc # "idle") ~> (pc = "idle")

\* The abstract file system this one implements, up to the answer of each command.
Request ==
  [op : {"write"}, in : Inodes, off : Offsets, n : Lengths, val : 1 .. MaxCmds]
    \cup [op : {"touch", "mkdir", "rm"}, in : Inodes, off : {0}, n : {0}, val : {0}]

V == INSTANCE Volume WITH
       Ids <- Inodes, Requests <- Request,
       files <- IF pc = "idle" THEN DiskFiles ELSE before,
       req <- job,
       ret <- IF ret \in {"ok", "err"} THEN ret ELSE "died"

\* A command that answers "ok" did what was asked, one that answers "err" left the file
\* its length, and no command, not even one that dies, touches any other file, as long as
\* no command has started on a damaged image.
ImplementsVolume == V!Init /\ [][V!Next \/ hurt']_V!vars
-----------------------------------------------------------------------------
\* What the code says of itself and does not keep.

\* inode.c:415: a file that ends within its direct blocks has no indirect block.
TruncateFindsNoIndirect == ret # "inode.c:415"

\* inode.c:240: an inode that is put is not dirty.
InodesPutClean == ret # "inode.c:240"

\* file.c:173: the offset of owrite is verified before it is used (inode.c:343).
OffsetVerified == ret # "inode.c:343"

\* super.c:45: there is a checksum table entry for every data block (csum.c:38).
ChecksumForEveryBlock == ret # "csum.c:38"
=============================================================================
