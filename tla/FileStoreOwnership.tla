-------------------------- MODULE FileStoreOwnership -------------------------
(***************************************************************************)
(* What is proved of FileStore for every value of its constants: the types *)
(* of its variables and that no change of an inode is lost, and then who   *)
(* holds a block: that Ownership of FileStoreInv holds, and that free      *)
(* blocks are zero for that reason.                                        *)
(***************************************************************************)
EXTENDS FileStoreInv, TLAPS

-----------------------------------------------------------------------------
\* The sizes of things, from the assumption on the constants.
LEMMA Sizes ==
  /\ 0 \in Inodes /\ 0 \in Cells /\ 0 \notin Phys
  /\ Phys \subseteq Int /\ Inodes \subseteq Nat
  /\ NrDirect \in Nat /\ NrIndirect \in Nat /\ BlockSize \in Nat \ {0}
BY FileStoreAssumption DEF FileStoreAssumption, Inodes, Cells, Phys, NrIndirect

\* DIVROUNDUP of a size is a number of blocks.
LEMMA BlocksNat == ASSUME NEW n \in Nat PROVE Blocks(n) \in Nat
BY FileStoreAssumption DEF FileStoreAssumption, Blocks

\* The offset in the buffer is a number.
LEMMA AdvanceNat ==
  ASSUME TypeOK, todo # <<>>
  PROVE  at + Copied \in Nat
<1>1. Cur \in Call
  BY DEF TypeOK, Cur
<1>2. /\ Cur.off \in Nat /\ Cur.n \in Nat /\ at \in Nat
  BY <1>1 DEF TypeOK, Call
<1>3. (Cur.off + at) % BlockSize < BlockSize /\ (Cur.off + at) % BlockSize \in Nat
  BY <1>2, Sizes
<1>4. BlockSize - ((Cur.off + at) % BlockSize) \in Nat
  BY <1>3, Sizes
<1>. QED
  BY <1>2, <1>4 DEF Copied

\* The current call and the inode it works on.
LEMMA Current ==
  ASSUME TypeOK, todo # <<>>
  PROVE  /\ Cur \in Call /\ Tail(todo) \in Seq(Call)
         /\ Cur.in \in Inodes /\ Cur.off \in Nat /\ Cur.n \in Nat /\ Cur.val \in Int
         /\ Inode \in Dinode
<1>1. Cur \in Call /\ Tail(todo) \in Seq(Call)
  BY DEF TypeOK, Cur
<1>2. /\ Cur.in \in Inodes /\ Cur.off \in Nat /\ Cur.n \in Nat /\ Cur.val \in Int
  BY <1>1 DEF Call
<1>. QED
  BY <1>1, <1>2 DEF TypeOK, Inode

\* What the helpers keep of the types.
LEMMA SetInodeType ==
  ASSUME TypeOK, todo # <<>>, NEW d \in Dinode, SetInode(d)
  PROVE  mem' \in [Inodes -> Dinode] /\ dirty' \subseteq Inodes
BY Current DEF TypeOK, SetInode

\* Writing a block of numbers.
LEMMA WriteBlockType ==
  ASSUME TypeOK, NEW b, NEW cells \in [Cells -> Int], WriteBlock(b, cells)
  PROVE  blk' \in [Phys -> [Cells -> Int]] /\ summed' \subseteq Phys
BY DEF TypeOK, WriteBlock

\* Zeroing a block.
LEMMA ZeroBlockType ==
  ASSUME TypeOK, NEW b, ZeroBlock(b)
  PROVE  blk' \in [Phys -> [Cells -> Int]] /\ summed' \subseteq Phys
<1>1. Zero \in [Cells -> Int]
  BY DEF Zero
<1>. QED
  BY <1>1, WriteBlockType DEF ZeroBlock

\* Setting a cell of a block.
LEMMA SetCellType ==
  ASSUME NEW f \in [Cells -> Int], NEW x, NEW y \in Int
  PROVE  [f EXCEPT ![x] = y] \in [Cells -> Int]
OBVIOUS

\* An allocated block is one of the data blocks.
LEMMA AllocType ==
  ASSUME TypeOK, NEW b \in Phys, Alloc(b)
  PROVE  bmap' \subseteq Phys /\ b \in Int
BY Sizes DEF TypeOK, Alloc, WithMark

\* The next call begins as it should.
LEMMA ReturnType ==
  ASSUME TypeOK, todo # <<>>, Return
  PROVE  /\ pc' \in Steps /\ todo' \in Seq(Call) /\ onfail' \in Seq(Call)
         /\ failed' \in BOOLEAN /\ at' \in Nat /\ fresh' \in BOOLEAN
         /\ ibuf' \in [Cells -> Int] /\ block_nr' \in Phys \cup {0}
<1>1. todo' \in Seq(Call)
  BY Current DEF Return
<1>2. Zero \in [Cells -> Int]
  BY DEF Zero
<1>. QED
  BY <1>1, <1>2 DEF TypeOK, Return, Steps

\* Nothing is left of a process that is gone.
LEMMA GoneType ==
  ASSUME TypeOK, Gone, dino' \in [Inodes -> Dinode]
  PROVE  /\ mem' \in [Inodes -> Dinode] /\ dirty' \subseteq Inodes
         /\ pc' \in Steps /\ todo' \in Seq(Call) /\ onfail' \in Seq(Call)
         /\ failed' \in BOOLEAN /\ at' \in Nat /\ fresh' \in BOOLEAN
         /\ ibuf' \in [Cells -> Int] /\ block_nr' \in Phys \cup {0}
         /\ job' \in Job /\ hurt' \in BOOLEAN /\ ncmd' \in Nat
<1>1. <<>> \in Seq(Call)
  OBVIOUS
<1>2. NoJob \in Job
  BY Sizes DEF NoJob, Job
<1>3. Zero \in [Cells -> Int]
  BY DEF Zero
<1>. QED
  BY <1>1, <1>2, <1>3 DEF TypeOK, Gone, Steps

\* The calls a command makes are calls.
LEMMA CallsType ==
  /\ \A i \in Inodes, off, n \in Nat, val \in Int : WriteCall(i, off, n, val) \in Call
  /\ \A i \in Inodes, size \in Nat : TruncCall(i, size) \in Call
  /\ \A i \in Inodes : ReleaseCall(i) \in Call /\ SyncCall(i) \in Call
BY DEF Call, WriteCall, TruncCall, ReleaseCall, SyncCall

\* testfs_write_dirent makes calls.
LEMMA WriteDirentType ==
  ASSUME NEW d \in Inodes, NEW off \in Nat, NEW entry \in Int
  PROVE  WriteDirent(d, off, entry) \in Seq(Call)
<1>1. /\ WriteCall(d, off, 1, 0) \in Call /\ WriteCall(d, off + 1, 1, entry) \in Call
      /\ WriteCall(d, off, 1, entry) \in Call
  BY CallsType
<1>. QED
  BY <1>1 DEF WriteDirent

\* So does testfs_create_file_or_dir.
LEMMA CreateCallsType ==
  ASSUME NEW p \in Inodes, NEW i \in Inodes, NEW type, NEW s \in Nat, NEW k \in Nat
  PROVE  CreateCalls(p, i, type, s, k) \in Seq(Call)
<1>1. i + 1 \in Int /\ p + 1 \in Int /\ s + 1 \in Nat
  BY Sizes
<1>2. /\ WriteDirent(i, s, i + 1) \in Seq(Call) /\ WriteDirent(i, s + 1, p + 1) \in Seq(Call)
      /\ WriteDirent(p, k, i + 1) \in Seq(Call)
  BY <1>1, WriteDirentType
<1>3. <<SyncCall(p), SyncCall(i)>> \in Seq(Call)
  BY CallsType
<1>. QED
  BY <1>2, <1>3 DEF CreateCalls

\* The error path keeps the types.
LEMMA FailType ==
  ASSUME TypeOK, todo # <<>>, Fail
  PROVE  /\ mem' \in [Inodes -> Dinode] /\ dirty' \subseteq Inodes
         /\ pc' \in Steps /\ todo' \in Seq(Call) /\ onfail' \in Seq(Call)
         /\ failed' \in BOOLEAN /\ at' \in Nat /\ fresh' \in BOOLEAN
         /\ ibuf' \in [Cells -> Int] /\ block_nr' \in Phys \cup {0}
<1>1. Covered \in Nat /\ Inode.size \in Nat
  BY Current DEF Covered, MaxOf, Dinode, TypeOK
<1>2. [Inode EXCEPT !.size = Covered] \in Dinode
  BY <1>1, Current DEF Dinode
<1>3. mem' \in [Inodes -> Dinode] /\ dirty' \subseteq Inodes
  BY <1>2, SetInodeType DEF Fail
<1>4. TruncCall(Cur.in, Inode.size) \in Call
  BY <1>1, Current, CallsType
<1>5. CutBack \in Seq(Call)
  BY <1>4 DEF CutBack
<1>6. todo' \in Seq(Call) /\ onfail' \in Seq(Call)
  BY <1>5 DEF Fail, TypeOK
<1>7. Zero \in [Cells -> Int]
  BY DEF Zero
<1>. QED
  BY <1>3, <1>6, <1>7 DEF TypeOK, Fail, Steps

\* Every step of a write keeps the types.
LEMMA WriteStepType == ASSUME TypeOK, WriteStep PROVE TypeOK'
<1>a. ASSUME todo # <<>> PROVE at + Copied \in Nat
  BY <1>a, AdvanceNat
<1>1. CASE BeginWrite
  BY <1>1 DEF TypeOK, BeginWrite, disk, plan, regs, command, Steps
<1>2. CASE MapExisting
  BY <1>2 DEF TypeOK, MapExisting, disk, plan, regs, command, Steps
<1>3. CASE MapDirect
  <2>. todo # <<>>
    BY <1>3 DEF MapDirect, Running
  <2>1. PICK b \in Phys :
          Alloc(b) /\ SetInode([Inode EXCEPT !.direct = [@ EXCEPT ![Log] = b]])
    BY <1>3 DEF MapDirect
  <2>2. [Inode EXCEPT !.direct = [@ EXCEPT ![Log] = b]] \in Dinode
    BY Current DEF Dinode
  <2>3. mem' \in [Inodes -> Dinode] /\ dirty' \subseteq Inodes
    BY <2>1, <2>2, SetInodeType
  <2>4. bmap' \subseteq Phys
    BY <2>1, AllocType
  <2>. QED
    BY <1>3, <2>3, <2>4 DEF TypeOK, MapDirect, plan, command, Steps
<1>4. CASE MapIndirect
  <2>. todo # <<>>
    BY <1>4 DEF MapIndirect, Running
  <2>1. PICK b \in Phys : Alloc(b) /\ SetInode([Inode EXCEPT !.ind = b])
    BY <1>4 DEF MapIndirect
  <2>2. [Inode EXCEPT !.ind = b] \in Dinode
    BY Current DEF Dinode
  <2>3. mem' \in [Inodes -> Dinode] /\ dirty' \subseteq Inodes
    BY <2>1, <2>2, SetInodeType
  <2>4. bmap' \subseteq Phys
    BY <2>1, AllocType
  <2>. QED
    BY <1>4, <2>3, <2>4 DEF TypeOK, MapIndirect, plan, command, Steps, Zero
<1>5. CASE ReadIndirect
  <2>. todo # <<>>
    BY <1>5 DEF ReadIndirect, Running
  <2>1. Inode.ind \in Phys
    BY <1>5, Current DEF ReadIndirect, Dinode
  <2>. QED
    BY <1>5, <2>1 DEF TypeOK, ReadIndirect, disk, plan, command, Steps
<1>6. CASE MapChild
  <2>1. PICK b \in Phys : Alloc(b) /\ ibuf' = [ibuf EXCEPT ![Log - NrDirect] = b]
    BY <1>6 DEF MapChild
  <2>2. bmap' \subseteq Phys /\ b \in Int
    BY <2>1, AllocType
  <2>3. ibuf' \in [Cells -> Int]
    BY <2>1, <2>2 DEF TypeOK
  <2>. QED
    BY <1>6, <2>2, <2>3 DEF TypeOK, MapChild, SetNoInode, plan, command, Steps
<1>7. CASE NoChild
  BY <1>7 DEF TypeOK, NoChild, disk, plan, regs, command, Steps
<1>8. CASE WriteIndirect
  <2>1. blk' \in [Phys -> [Cells -> Int]] /\ summed' \subseteq Phys
    BY <1>8, WriteBlockType DEF WriteIndirect, TypeOK
  <2>. QED
    BY <1>8, <2>1 DEF TypeOK, WriteIndirect, SetNoInode, plan, command, Steps, Zero
<1>9. CASE MapFails
  <2>1. todo # <<>> /\ Fail
    BY <1>9 DEF MapFails, Running
  <2>. QED
    BY <1>9, <2>1, FailType DEF TypeOK, MapFails, disk, command
<1>10. CASE WriteIndirectFails
  <2>1. todo # <<>> /\ Fail
    BY <1>10 DEF WriteIndirectFails, Running
  <2>2. blk' \in [Phys -> [Cells -> Int]] /\ summed' \subseteq Phys
    BY <1>10, WriteBlockType DEF WriteIndirectFails, TypeOK
  <2>. QED
    BY <1>10, <2>1, <2>2, FailType DEF TypeOK, WriteIndirectFails, command
<1>11. CASE StoreData
  <2>. todo # <<>>
    BY <1>11 DEF StoreData, Running
  <2>. DEFINE first == (Cur.off + at) % BlockSize
              old   == IF fresh THEN Zero ELSE blk[Mapped]
              new   == [c \in Cells |-> IF first <= c /\ c < first + Copied
                                        THEN Cur.val ELSE old[c]]
  <2>1. old \in [Cells -> Int]
    BY <1>11 DEF StoreData, TypeOK, Zero
  <2>2. new \in [Cells -> Int]
    <3>. HIDE DEF old, first
    <3>. QED  BY <2>1, Current
  <2>3. WriteBlock(Mapped, new)
    BY <1>11 DEF StoreData
  <2>4. blk' \in [Phys -> [Cells -> Int]] /\ summed' \subseteq Phys
    <3>. HIDE DEF new
    <3>. QED  BY <2>2, <2>3, WriteBlockType
  <2>. QED
    BY <1>11, <2>4 DEF TypeOK, StoreData, SetNoInode, plan, command, Steps
<1>12. CASE StoreCsum
  <2>1. todo # <<>> /\ at' \in Nat
    BY <1>12, <1>a DEF StoreCsum, Running, Advance
  <2>2. summed' \subseteq Phys
    BY <1>12 DEF StoreCsum, WithSum, TypeOK
  <2>. QED
    BY <1>12, <2>1, <2>2 DEF TypeOK, StoreCsum, SetNoInode, plan, command, Steps
<1>13. CASE StoreLastCsum
  <2>. todo # <<>>
    BY <1>13 DEF StoreLastCsum, Running
  <2>1. MaxOf(Inode.size, Cur.off + Cur.n) \in Nat
    BY Current DEF MaxOf, Dinode
  <2>2. [Inode EXCEPT !.size = MaxOf(@, Cur.off + Cur.n)] \in Dinode
    BY <2>1, Current DEF Dinode
  <2>3. mem' \in [Inodes -> Dinode] /\ dirty' \subseteq Inodes
    BY <1>13, <2>2, SetInodeType DEF StoreLastCsum
  <2>4. summed' \subseteq Phys
    BY <1>13 DEF StoreLastCsum, WithSum, TypeOK
  <2>5. Return
    BY <1>13 DEF StoreLastCsum
  <2>. QED
    BY <1>13, <2>3, <2>4, <2>5, ReturnType DEF TypeOK, StoreLastCsum, command
<1>. QED
  BY <1>1, <1>2, <1>3, <1>4, <1>5, <1>6, <1>7, <1>8, <1>9, <1>10, <1>11, <1>12, <1>13
     DEF WriteStep
-----------------------------------------------------------------------------

\* Every step of a truncation keeps the types.
LEMMA TruncStepType == ASSUME TypeOK, TruncStep PROVE TypeOK'
<1>a. ASSUME todo # <<>> PROVE First \in Nat /\ FirstChild \in Nat
  <2>1. First \in Nat
    BY <1>a, Current, BlocksNat DEF First
  <2>. QED
    BY <2>1, Sizes DEF FirstChild, MaxOf
<1>b. ASSUME todo # <<>>
      PROVE  /\ [Inode EXCEPT !.size = Cur.off] \in Dinode
             /\ [Inode EXCEPT !.ind = 0, !.size = Cur.off] \in Dinode
             /\ [Inode EXCEPT !.direct = [@ EXCEPT ![at] = 0]] \in Dinode
  BY <1>b, Current DEF Dinode
<1>1. CASE TruncNothing
  <2>1. todo # <<>> /\ Return
    BY <1>1 DEF TruncNothing, Running
  <2>. QED
    BY <1>1, <2>1, ReturnType DEF TypeOK, TruncNothing, disk, command
<1>2. CASE BeginTrunc
  BY <1>2, <1>a DEF TypeOK, BeginTrunc, Running, disk, plan, command, Steps
<1>3. CASE ZeroDirect
  <2>1. blk' \in [Phys -> [Cells -> Int]] /\ summed' \subseteq Phys
    BY <1>3, ZeroBlockType DEF ZeroDirect
  <2>. QED
    BY <1>3, <2>1 DEF TypeOK, ZeroDirect, SetNoInode, plan, regs, command, Steps
<1>4. CASE UnmarkDirect
  <2>1. todo # <<>>
    BY <1>4 DEF UnmarkDirect, Running
  <2>2. mem' \in [Inodes -> Dinode] /\ dirty' \subseteq Inodes
    BY <1>4, <2>1, <1>b, SetInodeType DEF UnmarkDirect
  <2>. QED
    BY <1>4, <2>2 DEF TypeOK, UnmarkDirect, plan, command, Steps
<1>5. CASE TruncDirectOnly
  <2>1. todo # <<>> /\ Return
    BY <1>5 DEF TruncDirectOnly, Running
  <2>2. mem' \in [Inodes -> Dinode] /\ dirty' \subseteq Inodes
    BY <1>5, <2>1, <1>b, SetInodeType DEF TruncDirectOnly
  <2>. QED
    BY <1>5, <2>1, <2>2, ReturnType DEF TypeOK, TruncDirectOnly, disk, command
<1>6. CASE LoadIndirect
  <2>1. todo # <<>>
    BY <1>6 DEF LoadIndirect, Running
  <2>2. Inode.ind \in Phys
    BY <1>6, <2>1, Current DEF LoadIndirect, Dinode
  <2>. QED
    BY <1>6, <1>a, <2>1, <2>2 DEF TypeOK, LoadIndirect, disk, plan, command, Steps
<1>7. CASE ZeroChild
  <2>1. blk' \in [Phys -> [Cells -> Int]] /\ summed' \subseteq Phys
    BY <1>7, ZeroBlockType DEF ZeroChild
  <2>. QED
    BY <1>7, <2>1 DEF TypeOK, ZeroChild, SetNoInode, plan, regs, command, Steps
<1>8. CASE UnmarkChild
  <2>1. ibuf' \in [Cells -> Int] /\ at' \in Nat
    <3>1. ibuf \in [Cells -> Int] /\ at \in Nat
      BY DEF TypeOK
    <3>2. ibuf' = [ibuf EXCEPT ![at] = 0]
      BY <1>8 DEF UnmarkChild
    <3>3. at' = at + 1
      BY <1>8 DEF UnmarkChild
    <3>4. ibuf' \in [Cells -> Int]
      BY <3>1, <3>2, SetCellType
    <3>. QED
      BY <3>1, <3>3, <3>4
  <2>2. bmap' \subseteq Phys
    BY <1>8 DEF TypeOK, UnmarkChild
  <2>. QED
    BY <1>8, <2>1, <2>2 DEF TypeOK, UnmarkChild, SetNoInode, plan, command, Steps
<1>9. CASE ZeroIndirect
  <2>1. blk' \in [Phys -> [Cells -> Int]] /\ summed' \subseteq Phys
    BY <1>9, ZeroBlockType DEF ZeroIndirect
  <2>. QED
    BY <1>9, <2>1 DEF TypeOK, ZeroIndirect, SetNoInode, plan, regs, command, Steps
<1>10. CASE UnmarkIndirect
  <2>1. todo # <<>> /\ Return
    BY <1>10 DEF UnmarkIndirect, Running
  <2>2. mem' \in [Inodes -> Dinode] /\ dirty' \subseteq Inodes
    BY <1>10, <2>1, <1>b, SetInodeType DEF UnmarkIndirect
  <2>. QED
    BY <1>10, <2>1, <2>2, ReturnType DEF TypeOK, UnmarkIndirect, command
<1>11. CASE KeepIndirect
  <2>1. todo # <<>> /\ Return
    BY <1>11 DEF KeepIndirect, Running
  <2>2. mem' \in [Inodes -> Dinode] /\ dirty' \subseteq Inodes
    BY <1>11, <2>1, <1>b, SetInodeType DEF KeepIndirect
  <2>3. blk' \in [Phys -> [Cells -> Int]] /\ summed' \subseteq Phys
    BY <1>11, WriteBlockType DEF KeepIndirect, TypeOK
  <2>. QED
    BY <1>11, <2>1, <2>2, <2>3, ReturnType DEF TypeOK, KeepIndirect, command
<1>. QED
  BY <1>1, <1>2, <1>3, <1>4, <1>5, <1>6, <1>7, <1>8, <1>9, <1>10, <1>11 DEF TruncStep

\* A blank dinode is a dinode.
LEMMA BlankType == Blank \in Dinode
BY DEF Blank, Dinode, Types

\* So does every other step of the process.
LEMMA StepType == ASSUME TypeOK, Step PROVE TypeOK'
<1>1. CASE WriteStep
  BY <1>1, WriteStepType
<1>2. CASE TruncStep
  BY <1>2, TruncStepType
<1>3. CASE ReleaseInode
  <2>1. todo # <<>> /\ Return
    BY <1>3 DEF ReleaseInode, Running
  <2>2. mem' \in [Inodes -> Dinode] /\ dirty' \subseteq Inodes
    BY <1>3, <2>1, BlankType, SetInodeType DEF ReleaseInode
  <2>. QED
    BY <1>3, <2>1, <2>2, ReturnType DEF TypeOK, ReleaseInode, command
<1>4. CASE SyncInode
  <2>1. todo # <<>> /\ Return
    BY <1>4 DEF SyncInode, Running
  <2>2. dino' \in [Inodes -> Dinode] /\ dirty' \subseteq Inodes
    BY <1>4, <2>1, Current DEF SyncInode, TypeOK
  <2>. QED
    BY <1>4, <2>1, <2>2, ReturnType DEF TypeOK, SyncInode, command
<1>5. CASE CreateInode
  <2>. DEFINE type == IF job.op = "mkdir" THEN "dir" ELSE "file"
  <2>1. PICK i \in Inodes :
          /\ TakeNumber(i)
          /\ mem' = [mem EXCEPT ![i].type = type]
          /\ dirty' = dirty \cup {i}
          /\ \E k \in 0 .. mem[job.in].size :
               /\ IsFreeSlot(mem[job.in], k)
               /\ todo' = CreateCalls(job.in, i, type, mem[i].size, k)
          /\ onfail' = UndoCreate(i)
    BY <1>5 DEF CreateInode
  <2>2. job.in \in Inodes /\ mem[i].size \in Nat
    BY DEF TypeOK, Job, Dinode
  <2>3. todo' \in Seq(Call)
    BY <2>1, <2>2, CreateCallsType
  <2>4. onfail' \in Seq(Call)
    BY <2>1, CallsType DEF UndoCreate
  <2>5. mem' \in [Inodes -> Dinode] /\ dirty' \subseteq Inodes
    <3>1. mem[i] \in Dinode /\ type \in Types
      BY DEF TypeOK, Types
    <3>2. [mem[i] EXCEPT !.type = type] \in Dinode
      <4>. HIDE DEF type
      <4>. QED  BY <3>1 DEF Dinode
    <3>3. mem' = [mem EXCEPT ![i] = [mem[i] EXCEPT !.type = type]]
      BY <2>1 DEF TypeOK
    <3>. QED
      BY <2>1, <3>2, <3>3 DEF TypeOK
  <2>6. imap' \subseteq 0 .. (InodeBits - 1)
    BY <2>1 DEF TypeOK, TakeNumber
  <2>7. /\ pc' = "ready"
        /\ UNCHANGED <<bmap, dino, blk, summed, failed, regs, command>>
    BY <1>5 DEF CreateInode
  <2>. QED
    BY <2>3, <2>4, <2>5, <2>6, <2>7 DEF TypeOK, regs, command, Steps
<1>6. CASE NoInode
  BY <1>6 DEF TypeOK, NoInode, disk, regs, command, Steps
<1>7. CASE NoInodeBlock
  <2>1. dino' \in [Inodes -> Dinode] /\ Gone
    BY <1>7 DEF NoInodeBlock, TypeOK
  <2>2. imap' \subseteq 0 .. (InodeBits - 1)
    BY <1>7 DEF TypeOK, NoInodeBlock, TakeNumber
  <2>3. ret' \in Sites /\ died' \in BOOLEAN
        /\ UNCHANGED <<bmap, dino, blk, summed, ncrash>>
    BY <1>7 DEF NoInodeBlock, Sites
  <2>. QED
    BY <2>1, <2>2, <2>3, GoneType DEF TypeOK
<1>10. CASE LeftoversAssert
  <2>1. dino' \in [Inodes -> Dinode] /\ Gone
    BY <1>10 DEF LeftoversAssert, TypeOK
  <2>2. imap' \subseteq 0 .. (InodeBits - 1)
    BY <1>10 DEF TypeOK, LeftoversAssert, TakeNumber
  <2>3. ret' \in Sites /\ died' \in BOOLEAN
        /\ UNCHANGED <<bmap, dino, blk, summed, ncrash>>
    BY <1>10 DEF LeftoversAssert, Sites
  <2>. QED
    BY <2>1, <2>2, <2>3, GoneType DEF TypeOK
<1>11. CASE LeftoversExist
  <2>1. PICK i \in Inodes :
          /\ TakeNumber(i)
          /\ mem' = [mem EXCEPT ![i].type = "dir"]
          /\ dirty' = dirty \cup {i}
          /\ todo' = UndoCreate(i)
    BY <1>11 DEF LeftoversExist
  <2>2. todo' \in Seq(Call)
    BY <2>1, CallsType DEF UndoCreate
  <2>3. mem' \in [Inodes -> Dinode] /\ dirty' \subseteq Inodes
    <3>1. [mem[i] EXCEPT !.type = "dir"] \in Dinode
      BY DEF TypeOK, Dinode, Types
    <3>2. mem' = [mem EXCEPT ![i] = [mem[i] EXCEPT !.type = "dir"]]
      BY <2>1 DEF TypeOK
    <3>. QED
      BY <2>1, <3>1, <3>2 DEF TypeOK
  <2>4. imap' \subseteq 0 .. (InodeBits - 1)
    BY <2>1 DEF TypeOK, TakeNumber
  <2>5. failed' = TRUE /\ pc' = "ready"
        /\ UNCHANGED <<bmap, dino, blk, summed, onfail, regs, command>>
    BY <1>11 DEF LeftoversExist
  <2>. QED
    BY <2>2, <2>3, <2>4, <2>5 DEF TypeOK, regs, command, Steps
<1>8. CASE Exit
  <2>1. dino' \in [Inodes -> Dinode] /\ Gone
    BY <1>8 DEF Exit, TypeOK, disk
  <2>2. ret' \in {"ok", "err"} /\ UNCHANGED <<disk, died, ncrash>>
    BY <1>8 DEF Exit
  <2>. QED
    BY <2>1, <2>2, GoneType DEF TypeOK, disk
<1>9. CASE AssertionFails
  <2>1. dino' \in [Inodes -> Dinode] /\ Gone
    BY <1>9 DEF AssertionFails, TypeOK, disk
  <2>2. ret' \in Sites /\ died' \in BOOLEAN /\ UNCHANGED <<disk, ncrash>>
    BY <1>9 DEF AssertionFails
  <2>. QED
    BY <2>1, <2>2, GoneType DEF TypeOK, disk
<1>. QED
  BY <1>1, <1>2, <1>3, <1>4, <1>5, <1>6, <1>7, <1>8, <1>9, <1>10, <1>11 DEF Step

\* And so does a command that starts.
LEMMA CommandType == ASSUME TypeOK, Command PROVE TypeOK'
<1>. ncmd + 1 \in Nat
  BY DEF TypeOK
<1>1. ASSUME NEW i \in Inodes, NEW off \in Offsets, NEW n \in Lengths, StartWrite(i, off, n)
      PROVE  TypeOK'
  <2>1. off \in Nat /\ n \in Nat /\ off + n \in Nat /\ ncmd + 1 \in Int
    BY FileStoreAssumption DEF FileStoreAssumption, TypeOK
  <2>2. /\ WriteCall(i, off, n, ncmd + 1) \in Call /\ TruncCall(i, off + n) \in Call
        /\ SyncCall(i) \in Call
    BY <2>1, CallsType
  <2>3. todo' \in Seq(Call) /\ onfail' \in Seq(Call) /\ pc' \in Steps
    BY <1>1, <2>2 DEF StartWrite, Steps
  <2>4. job' \in Job /\ ncmd' \in Nat /\ hurt' \in BOOLEAN
    BY <1>1, <2>1 DEF StartWrite, Start, Job, TypeOK
  <2>. QED
    BY <1>1, <2>3, <2>4 DEF TypeOK, StartWrite, Start, disk, regs
<1>2. ASSUME NEW op \in {"touch", "mkdir"}, NEW p \in Inodes, StartCreate(op, p)
      PROVE  TypeOK'
  <2>1. job' \in Job /\ ncmd' \in Nat /\ hurt' \in BOOLEAN
    BY <1>2 DEF StartCreate, Start, Job, TypeOK
  <2>. QED
    BY <1>2, <2>1 DEF TypeOK, StartCreate, Start, disk, regs, Steps
<1>3. ASSUME NEW k \in 2 .. (NrLogical * BlockSize - 1), StartRemove(k)
      PROVE  TypeOK'
  <2>. DEFINE i == CellAt(dino[0], k) - 1
  <2>1. i \in Inodes /\ 0 \in Inodes /\ k \in Nat /\ Removed \in Int
    BY <1>3, Sizes DEF StartRemove, Removed
  <2>. HIDE DEF i
  <2>2. /\ WriteCall(0, k, 1, Removed) \in Call /\ TruncCall(i, 0) \in Call
        /\ ReleaseCall(i) \in Call /\ SyncCall(i) \in Call /\ SyncCall(0) \in Call
    BY <2>1, CallsType
  <2>3. /\ todo' = <<WriteCall(0, k, 1, Removed), TruncCall(i, 0), ReleaseCall(i),
                     SyncCall(i), SyncCall(0)>>
        /\ Start([op |-> "rm", in |-> i, off |-> 0, n |-> 0, val |-> 0])
        /\ onfail' = <<>> /\ pc' = "ready"
    BY <1>3 DEF StartRemove, RemoveCalls, i
  <2>4. todo' \in Seq(Call) /\ onfail' \in Seq(Call) /\ pc' \in Steps
    BY <2>2, <2>3 DEF Steps
  <2>5. job' \in Job /\ ncmd' \in Nat /\ hurt' \in BOOLEAN
    BY <2>1, <2>3 DEF Start, Job, TypeOK
  <2>. QED
    BY <2>3, <2>4, <2>5 DEF TypeOK, Start, disk, regs
<1>. QED
  BY <1>1, <1>2, <1>3 DEF Command

\* A crash keeps the types.
LEMMA CrashType == ASSUME TypeOK, Crash PROVE TypeOK'
<1>1. dino' \in [Inodes -> Dinode] /\ Gone
  BY DEF Crash, TypeOK, disk
<1>2. ret' = "crash" /\ died' \in BOOLEAN /\ ncrash' \in Nat /\ UNCHANGED disk
  BY DEF Crash, TypeOK
<1>. QED
  BY <1>1, <1>2, GoneType DEF TypeOK, disk

\* The new image has the types.
LEMMA InitType == Init => TypeOK
<1>. SUFFICES ASSUME Init PROVE TypeOK
  OBVIOUS
<1>1. RootInode \in Dinode
  <2>1. DataStart \in Phys
    BY FileStoreAssumption DEF FileStoreAssumption, Phys
  <2>2. Blank.direct \in [0 .. (NrDirect - 1) -> Phys \cup {0}]
    BY DEF Blank
  <2>3. [Blank.direct EXCEPT ![0] = DataStart] \in [0 .. (NrDirect - 1) -> Phys \cup {0}]
    BY <2>1, <2>2
  <2>. QED
    BY <2>3, BlankType DEF RootInode, Dinode, Types
<1>2. dino \in [Inodes -> Dinode] /\ mem \in [Inodes -> Dinode]
  BY <1>1, BlankType DEF Init
<1>3. blk \in [Phys -> [Cells -> Int]] /\ ibuf \in [Cells -> Int]
  BY DEF Init, Zero
<1>4. imap \subseteq 0 .. (InodeBits - 1) /\ bmap \subseteq Phys
  BY FileStoreAssumption DEF FileStoreAssumption, Init, Phys
<1>5. job \in Job
  BY Sizes DEF Init, NoJob, Job
<1>6. todo \in Seq(Call) /\ onfail \in Seq(Call)
  BY DEF Init
<1>7. summed \subseteq Phys /\ dirty \subseteq Inodes /\ pc \in Steps
  BY DEF Init, Steps
<1>8. /\ failed \in BOOLEAN /\ at \in Nat /\ fresh \in BOOLEAN
      /\ ret \in {"ok", "err", "crash"} /\ died \in BOOLEAN
      /\ block_nr = 0 /\ hurt \in BOOLEAN
      /\ ncmd \in Nat /\ ncrash \in Nat
  BY DEF Init
<1>. QED
  BY <1>2, <1>3, <1>4, <1>5, <1>6, <1>7, <1>8 DEF TypeOK

\* Every variable of the storage core keeps its type, through every command, every
\* failure and every crash.
THEOREM TypeCorrect == Spec => []TypeOK
<1>1. Init => TypeOK
  BY InitType
<1>2. TypeOK /\ [Next]_vars => TypeOK'
  <2>1. ASSUME TypeOK, Next PROVE TypeOK'
    BY <2>1, StepType, CommandType, CrashType DEF Next
  <2>2. ASSUME TypeOK, UNCHANGED vars PROVE TypeOK'
    BY <2>2 DEF TypeOK, vars, disk, plan, regs, command
  <2>. QED
    BY <2>1, <2>2
<1>. QED
  BY <1>1, <1>2, PTL DEF Spec
-----------------------------------------------------------------------------
\* An inode that is set in memory is flagged, so no change can be missed.
LEMMA SetInodeFlags ==
  ASSUME TypeOK, UnsyncedIsDirty, NEW d, SetInode(d), UNCHANGED dino
  PROVE  UnsyncedIsDirty'
BY DEF TypeOK, UnsyncedIsDirty, SetInode

\* A step that leaves the inodes and their flags alone loses no change.
LEMMA KeepsFlags ==
  ASSUME UnsyncedIsDirty, UNCHANGED <<mem, dirty, dino>>
  PROVE  UnsyncedIsDirty'
BY DEF UnsyncedIsDirty

\* Nothing is left in memory that the disk does not have.
LEMMA GoneFlags == ASSUME Gone PROVE UnsyncedIsDirty'
BY DEF Gone, UnsyncedIsDirty

\* Nor does a step of a write.
LEMMA WriteStepFlags ==
  ASSUME TypeOK, UnsyncedIsDirty, WriteStep PROVE UnsyncedIsDirty'
<1>1. CASE BeginWrite \/ MapExisting \/ ReadIndirect \/ NoChild
  BY <1>1, KeepsFlags DEF BeginWrite, MapExisting, ReadIndirect, NoChild, disk
<1>2. CASE MapDirect
  BY <1>2, SetInodeFlags DEF MapDirect
<1>3. CASE MapIndirect
  BY <1>3, SetInodeFlags DEF MapIndirect
<1>4. CASE MapChild \/ WriteIndirect \/ StoreData \/ StoreCsum
  BY <1>4, KeepsFlags DEF MapChild, WriteIndirect, StoreData, StoreCsum, SetNoInode
<1>5. CASE MapFails
  BY <1>5, SetInodeFlags DEF MapFails, Fail, disk
<1>6. CASE WriteIndirectFails
  BY <1>6, SetInodeFlags DEF WriteIndirectFails, Fail
<1>7. CASE StoreLastCsum
  BY <1>7, SetInodeFlags DEF StoreLastCsum
<1>. QED
  BY <1>1, <1>2, <1>3, <1>4, <1>5, <1>6, <1>7 DEF WriteStep

\* Nor does a step of a truncation.
LEMMA TruncStepFlags ==
  ASSUME TypeOK, UnsyncedIsDirty, TruncStep PROVE UnsyncedIsDirty'
<1>1. CASE TruncNothing \/ BeginTrunc \/ LoadIndirect
  BY <1>1, KeepsFlags DEF TruncNothing, BeginTrunc, LoadIndirect, disk
<1>2. CASE ZeroDirect \/ ZeroChild \/ UnmarkChild \/ ZeroIndirect
  BY <1>2, KeepsFlags DEF ZeroDirect, ZeroChild, UnmarkChild, ZeroIndirect, SetNoInode
<1>3. CASE UnmarkDirect
  BY <1>3, SetInodeFlags DEF UnmarkDirect
<1>4. CASE TruncDirectOnly
  BY <1>4, SetInodeFlags DEF TruncDirectOnly, disk
<1>5. CASE UnmarkIndirect
  BY <1>5, SetInodeFlags DEF UnmarkIndirect
<1>6. CASE KeepIndirect
  BY <1>6, SetInodeFlags DEF KeepIndirect
<1>. QED
  BY <1>1, <1>2, <1>3, <1>4, <1>5, <1>6 DEF TruncStep

\* Nor does any step of a process.
LEMMA StepFlags == ASSUME TypeOK, UnsyncedIsDirty, Step PROVE UnsyncedIsDirty'
<1>1. CASE ReleaseInode
  BY <1>1, SetInodeFlags DEF ReleaseInode
<1>2. CASE SyncInode
  BY <1>2 DEF SyncInode, TypeOK, UnsyncedIsDirty, Inode
<1>3. CASE CreateInode
  BY <1>3 DEF CreateInode, TypeOK, UnsyncedIsDirty
<1>4. CASE NoInode
  BY <1>4, KeepsFlags DEF NoInode, disk
<1>5. CASE NoInodeBlock \/ LeftoversAssert \/ Exit \/ AssertionFails
  BY <1>5, GoneFlags DEF NoInodeBlock, LeftoversAssert, Exit, AssertionFails
<1>6. CASE LeftoversExist
  BY <1>6 DEF LeftoversExist, TypeOK, UnsyncedIsDirty
<1>. QED
  BY <1>1, <1>2, <1>3, <1>4, <1>5, <1>6, WriteStepFlags, TruncStepFlags DEF Step

\* Nor does a command that begins.
LEMMA CommandFlags == ASSUME UnsyncedIsDirty, Command PROVE UnsyncedIsDirty'
BY KeepsFlags DEF Command, StartWrite, StartCreate, StartRemove, Start, disk

\* No change to an inode in memory is lost for want of a flag: wherever a command
\* stands, an inode that differs from its place on the disk is marked to be written.
THEOREM NoChangeLost == Spec => []UnsyncedIsDirty
<1>1. Init => UnsyncedIsDirty
  BY DEF Init, UnsyncedIsDirty
<1>2. TypeOK /\ UnsyncedIsDirty /\ [Next]_vars => UnsyncedIsDirty'
  <2>1. ASSUME TypeOK, UnsyncedIsDirty, Next PROVE UnsyncedIsDirty'
    BY <2>1, StepFlags, CommandFlags, GoneFlags DEF Next, Crash
  <2>2. ASSUME UnsyncedIsDirty, UNCHANGED vars PROVE UnsyncedIsDirty'
    BY <2>2, KeepsFlags DEF vars, disk
  <2>. QED
    BY <2>1, <2>2
<1>. QED
  BY <1>1, <1>2, TypeCorrect, PTL DEF Spec

-----------------------------------------------------------------------------
(* Who holds a block.                                                      *)

\* The places of an inode, those of its direct blocks among them.
LEMMA PlacesInt ==
  /\ Places \subseteq Int /\ -1 \in Places
  /\ \A l \in 0 .. (NrDirect - 1) : l \in Places
  /\ \A c \in Cells : NrDirect + c \in Places /\ (NrDirect + c) - NrDirect = c
  /\ \A s \in Places : s >= NrDirect => s - NrDirect \in Cells
  /\ \A s \in Places : s # -1 /\ s < NrDirect => s \in 0 .. (NrDirect - 1)
  /\ NrLogical = NrDirect + BlockSize /\ NrLogical \in Nat
BY Sizes DEF Places, NrLogical, NrIndirect, Cells

\* The place of a direct block.
LEMMA DirectPlace ==
  ASSUME NEW l \in Nat, l < NrDirect
  PROVE  l \in 0 .. (NrDirect - 1) /\ l \in Places /\ l # -1
<1>1. l \in 0 .. (NrDirect - 1) /\ l # -1
  BY Sizes
<1>. QED
  BY <1>1, PlacesInt

\* The place of a child of the indirect block.
LEMMA ChildPlace ==
  ASSUME NEW c \in Nat, c < BlockSize
  PROVE  /\ c \in Cells /\ NrDirect + c \in Places /\ (NrDirect + c) - NrDirect = c
         /\ NrDirect + c >= NrDirect /\ NrDirect + c # -1
<1>1. c \in Cells
  BY Sizes DEF Cells
<1>. QED
  BY <1>1, PlacesInt, Sizes

\* The logical block that a call is at.
LEMMA LogNat == ASSUME TypeOK, todo # <<>> PROVE Log \in Nat
<1>1. Cur.off \in Nat /\ at \in Nat
  BY Current DEF TypeOK
<1>. QED
  BY <1>1, Sizes DEF Log

\* What an inode holds, place by place.
LEMMA HeldCases ==
  ASSUME NEW i, NEW s \in Places
  PROVE  /\ s = -1 => HeldAt(i, s) = mem[i].ind
         /\ s # -1 /\ s < NrDirect => HeldAt(i, s) = mem[i].direct[s]
         /\ s >= NrDirect /\ mem[i].ind = 0 => HeldAt(i, s) = 0
         /\ s >= NrDirect /\ mem[i].ind # 0 => HeldAt(i, s) = Table(i)[s - NrDirect]
<1>1. s >= NrDirect => s # -1 /\ ~(s < NrDirect)
  BY PlacesInt, Sizes
<1>. QED
  BY <1>1, Zenon DEF HeldAt

\* Block numbers are numbers, and 0 is none of them.
LEMMA BlockNumbers == \A b \in Phys \cup {0} : b \in Int /\ (b # 0 => b \in Phys)
BY FileStoreAssumption DEF FileStoreAssumption, Phys

-----------------------------------------------------------------------------
(* How a step may change what is held.                                     *)

\* Nothing new is held and no mark is taken away.
LEMMA KeepsHeld ==
  ASSUME NEW P, Owned(P), bmap \subseteq bmap',
         \A i \in P, s \in Places : HeldAt(i, s)' \in {0, HeldAt(i, s)}
  PROVE  Owned(P)'
BY DEF Owned

\* A block that was not marked is held at place t of inode j.
LEMMA GainsHeld ==
  ASSUME NEW P, Owned(P), NEW j, NEW t, NEW b, b \notin bmap, bmap' = bmap \cup {b},
         HeldAt(j, t)' = b,
         \A i \in P, s \in Places : i # j \/ s # t => HeldAt(i, s)' \in {0, HeldAt(i, s)}
  PROVE  Owned(P)'
BY DEF Owned

\* The block held at place t of inode j loses its mark and is not held any more.
LEMMA LosesHeld ==
  ASSUME NEW P, Owned(P), NEW j \in P, NEW t \in Places,
         HeldAt(j, t) # 0, bmap' = bmap \ {HeldAt(j, t)}, HeldAt(j, t)' = 0,
         \A i \in P, s \in Places : HeldAt(i, s)' \in {0, HeldAt(i, s)}
  PROVE  Owned(P)'
BY DEF Owned

\* A data block that is written is not the indirect block of any inode.
LEMMA DataNotIndirect ==
  ASSUME TypeOK, NEW P, Owned(P), NEW j \in P, NEW t \in Places, t # -1,
         HeldAt(j, t) # 0
  PROVE  \A i \in P : mem[i].ind # HeldAt(j, t)
<1>. SUFFICES ASSUME NEW i \in P, mem[i].ind = HeldAt(j, t) PROVE FALSE
  OBVIOUS
<1>1. HeldAt(i, -1) = HeldAt(j, t) /\ -1 \in Places
  BY PlacesInt DEF HeldAt
<1>. QED
  BY <1>1 DEF Owned

\* No two inodes have the same indirect block.
LEMMA IndirectNotShared ==
  ASSUME NEW P, Owned(P), NEW i \in P, NEW j \in P, i # j, mem[i].ind # 0
  PROVE  mem[j].ind # mem[i].ind
BY PlacesInt DEF Owned, HeldAt

\* When references and tables stay what they were, so does what is held.
LEMMA SameHeld ==
  ASSUME NEW P,
         \A i \in P : /\ mem'[i].ind = mem[i].ind /\ mem'[i].direct = mem[i].direct
                      /\ mem[i].ind # 0 => Table(i)' = Table(i)
  PROVE  \A i \in P, s \in Places : HeldAt(i, s)' = HeldAt(i, s)
<1>. SUFFICES ASSUME NEW i \in P, NEW s \in Places PROVE HeldAt(i, s)' = HeldAt(i, s)
  OBVIOUS
<1>. QED
  BY Zenon DEF HeldAt

\* An inode of which only the size or the type is set keeps what it holds.
LEMMA SetSize ==
  ASSUME TypeOK, todo # <<>>, NEW n, SetInode([Inode EXCEPT !.size = n])
  PROVE  \A i \in Inodes : mem'[i].ind = mem[i].ind /\ mem'[i].direct = mem[i].direct
<1>1. Cur.in \in Inodes /\ Inode \in Dinode
  BY Current
<1>. QED
  BY <1>1 DEF SetInode, TypeOK, Inode, Dinode

\* The steps of a write that map no new block.
LEMMA WriteKeepsHeld ==
  ASSUME TypeOK, Stands, NEW P \in SUBSET Inodes, Owned(P), todo # <<>>, Cur.in \in P,
         \/ BeginWrite \/ MapExisting \/ ReadIndirect \/ NoChild \/ WriteIndirect
         \/ MapFails \/ WriteIndirectFails \/ StoreData \/ StoreCsum \/ StoreLastCsum
  PROVE  \A i \in P, s \in Places : HeldAt(i, s)' = HeldAt(i, s)
<1>0. Cur.in \in Inodes /\ P \subseteq Inodes
  BY Current
<1>1. CASE BeginWrite \/ MapExisting
  <2>1. mem' = mem /\ blk' = blk /\ pc \notin Loaded /\ pc' \notin Loaded
    BY <1>1 DEF BeginWrite, MapExisting, Running, disk, Loaded
  <2>. QED
    BY <2>1, SameHeld DEF Table
<1>2. CASE ReadIndirect
  <2>1. /\ mem' = mem /\ blk' = blk /\ todo' = todo
        /\ pc \notin Loaded /\ ibuf' = blk[mem[Cur.in].ind]
    BY <1>2 DEF ReadIndirect, Running, disk, plan, Loaded, Inode
  <2>. QED
    BY <2>1, SameHeld DEF Table, Cur
<1>3. CASE NoChild
  <2>1. /\ mem' = mem /\ blk' = blk /\ todo' = todo /\ ibuf' = ibuf
        /\ pc \in Loaded /\ pc' \in Loaded
    BY <1>3 DEF NoChild, Running, disk, plan, regs, Loaded
  <2>. QED
    BY <2>1, SameHeld DEF Table, Cur
<1>4. CASE WriteIndirect
  <2>1. /\ mem' = mem /\ blk' = [blk EXCEPT ![mem[Cur.in].ind] = ibuf]
        /\ pc \in Loaded /\ pc' \notin Loaded /\ mem[Cur.in].ind # 0
    BY <1>4 DEF WriteIndirect, WriteBlock, SetNoInode, Running, Loaded, Inode, Stands, StandsInWrite
  <2>2. mem[Cur.in].ind \in Phys
    BY <1>0, <2>1 DEF TypeOK, Dinode
  <2>3. \A i \in P : mem[i].ind # 0 => Table(i)' = Table(i)
    BY <1>0, <2>1, <2>2, IndirectNotShared DEF Table, TypeOK
  <2>. QED
    BY <2>1, <2>3, SameHeld
<1>5. CASE MapFails
  <2>1. /\ SetInode([Inode EXCEPT !.size = Covered])
        /\ blk' = blk /\ pc \notin Loaded /\ pc' \notin Loaded
    BY <1>5 DEF MapFails, Fail, Running, disk, Loaded
  <2>. QED
    BY <1>0, <2>1, SetSize, SameHeld DEF Table
<1>6. CASE WriteIndirectFails
  <2>1. /\ SetInode([Inode EXCEPT !.size = Covered])
        /\ blk' = [blk EXCEPT ![mem[Cur.in].ind] = ibuf]
        /\ pc \in Loaded /\ pc' \notin Loaded /\ mem[Cur.in].ind # 0
    BY <1>6 DEF WriteIndirectFails, WriteBlock, Fail, Running, Loaded, Inode, Stands, StandsInWrite
  <2>2. mem[Cur.in].ind \in Phys
    BY <1>0, <2>1 DEF TypeOK, Dinode
  <2>3. \A i \in Inodes : mem'[i].ind = mem[i].ind /\ mem'[i].direct = mem[i].direct
    BY <2>1, SetSize
  <2>4. \A i \in P : mem[i].ind # 0 => Table(i)' = Table(i)
    BY <1>0, <2>1, <2>2, <2>3, IndirectNotShared DEF Table, TypeOK
  <2>. QED
    BY <1>0, <2>3, <2>4, SameHeld
<1>7. CASE StoreData
  <2>1. /\ mem' = mem /\ pc \notin Loaded /\ pc' \notin Loaded
        /\ \E cells : blk' = [blk EXCEPT ![Mapped] = cells]
        /\ Mapped \in Phys /\ Log < NrLogical
    BY <1>7 DEF StoreData, SetNoInode, WriteBlock, Running, Loaded, Stands, StandsInWrite
  <2>2. Log \in Places /\ Log # -1
    BY <2>1, LogNat, PlacesInt DEF Places
  <2>3. HeldAt(Cur.in, Log) = Mapped
    BY <2>1, <2>2, LogNat, Zenon DEF HeldAt, Table, Mapped, BlockAt, Inode
  <2>4. Mapped # 0
    BY <2>1, BlockNumbers, Sizes
  <2>5. \A i \in P : mem[i].ind # Mapped
    BY <2>2, <2>3, <2>4, DataNotIndirect
  <2>6. \A i \in P : mem[i].ind # 0 => Table(i)' = Table(i)
    BY <1>0, <2>1, <2>5 DEF Table, TypeOK, Dinode
  <2>. QED
    BY <2>1, <2>6, SameHeld
<1>8. CASE StoreCsum
  <2>1. mem' = mem /\ blk' = blk /\ pc \notin Loaded /\ pc' \notin Loaded
    BY <1>8 DEF StoreCsum, SetNoInode, Running, Loaded
  <2>. QED
    BY <2>1, SameHeld DEF Table
<1>9. CASE StoreLastCsum
  <2>1. /\ SetInode([Inode EXCEPT !.size = MaxOf(@, Cur.off + Cur.n)])
        /\ blk' = blk /\ pc \notin Loaded /\ pc' \notin Loaded
    BY <1>9 DEF StoreLastCsum, Return, Running, Loaded
  <2>. QED
    BY <1>0, <2>1, SetSize, SameHeld DEF Table
<1>. QED
  BY <1>1, <1>2, <1>3, <1>4, <1>5, <1>6, <1>7, <1>8, <1>9

\* testfs_alloc_block returns a block that was not marked.
LEMMA AllocMarks ==
  ASSUME NEW b, Alloc(b)
  PROVE  b \notin bmap /\ bmap' = bmap \cup {b}
BY DEF Alloc, WithMark

\* What is held at place s, as a case of its own for each part of an inode.
LEMMA HeldNext ==
  ASSUME NEW i, NEW s \in Places
  PROVE  /\ s = -1 => HeldAt(i, s)' = mem'[i].ind
         /\ s # -1 /\ s < NrDirect => HeldAt(i, s)' = mem'[i].direct[s]
         /\ s >= NrDirect /\ mem'[i].ind = 0 => HeldAt(i, s)' = 0
         /\ s >= NrDirect /\ mem'[i].ind # 0 => HeldAt(i, s)' = Table(i)'[s - NrDirect]
<1>1. s >= NrDirect => s # -1 /\ ~(s < NrDirect)
  BY PlacesInt, Sizes
<1>. QED
  BY <1>1, Zenon DEF HeldAt

\* A place is that of the indirect block, of a direct block or of a child.
LEMMA PlaceCases ==
  ASSUME NEW s \in Places
  PROVE  \/ s = -1
         \/ s # -1 /\ s < NrDirect /\ s \in 0 .. (NrDirect - 1)
         \/ s >= NrDirect /\ s # -1 /\ s - NrDirect \in Cells
BY PlacesInt, Sizes

\* The steps of a write that map one: what the current inode holds at one place was
\* not marked, and nothing else changes.
LEMMA WriteMaps ==
  ASSUME TypeOK, Stands, NEW P \in SUBSET Inodes, todo # <<>>, NEW j \in P, j = Cur.in,
         MapDirect \/ MapIndirect \/ MapChild
  PROVE  \E t \in Places, b \in Phys :
           /\ b \notin bmap /\ bmap' = bmap \cup {b}
           /\ HeldAt(j, t) = 0 /\ HeldAt(j, t)' = b
           /\ t = -1 \/ (t = Log /\ (MapDirect \/ MapChild))
           /\ \A i \in P, s \in Places : i # j \/ s # t => HeldAt(i, s)' = HeldAt(i, s)
<1>0. j \in Inodes /\ P \subseteq Inodes /\ Inode \in Dinode /\ Inode = mem[j]
  BY Current DEF Inode
<1>. PICK log \in Nat : log = Log
  BY LogNat
<1>1. CASE MapDirect
  <2>1. PICK b \in Phys : Alloc(b) /\ SetInode([Inode EXCEPT !.direct = [@ EXCEPT ![log] = b]])
    BY <1>1 DEF MapDirect
  <2>2. /\ blk' = blk /\ pc \notin Loaded /\ pc' \notin Loaded /\ log < NrDirect
    BY <1>1 DEF MapDirect, Running, Loaded, plan
  <2>3. log \in 0 .. (NrDirect - 1) /\ log \in Places /\ log # -1
    BY <2>2, PlacesInt, Sizes
  <2>4. /\ mem'[j].direct = [mem[j].direct EXCEPT ![log] = b]
        /\ \A i \in P : mem'[i].ind = mem[i].ind
        /\ \A i \in P : i # j => mem'[i].direct = mem[i].direct
    BY <1>0, <2>1 DEF SetInode, TypeOK, Dinode
  <2>5. /\ mem'[j].direct[log] = b
        /\ \A l \in 0 .. (NrDirect - 1) : l # log => mem'[j].direct[l] = mem[j].direct[l]
    BY <1>0, <2>3, <2>4 DEF TypeOK, Dinode
  <2>6. \A i : Table(i)' = blk[mem'[i].ind] /\ Table(i) = blk[mem[i].ind]
    BY <2>2 DEF Table
  <2>7. HeldAt(j, log) = 0 /\ HeldAt(j, log)' = b
    <3>1. mem[j].direct[log] = 0
      BY <1>0, <1>1, <2>2 DEF MapDirect, Mapped, BlockAt
    <3>. QED
      BY <2>2, <2>3, <2>5, <3>1, HeldNext, HeldCases
  <2>8. ASSUME NEW i \in P, NEW s \in Places, i # j \/ s # log
        PROVE  HeldAt(i, s)' = HeldAt(i, s)
    <3>1. CASE s = -1
      BY <2>4, <3>1, HeldNext, HeldCases
    <3>2. CASE s # -1 /\ s < NrDirect /\ s \in 0 .. (NrDirect - 1)
      <4>1. mem'[i].direct[s] = mem[i].direct[s]
        <5>1. CASE i # j
          BY <2>4, <5>1
        <5>2. CASE i = j /\ s # log
          BY <2>5, <3>2, <5>2
        <5>. QED
          BY <2>8, <5>1, <5>2
      <4>. QED
        BY <3>2, <4>1, HeldNext, HeldCases
    <3>3. CASE s >= NrDirect
      BY <2>4, <2>6, <3>3, HeldNext, HeldCases
    <3>. QED
      BY <3>1, <3>2, <3>3, PlaceCases
  <2>9. b \notin bmap /\ bmap' = bmap \cup {b}
    BY <2>1, AllocMarks
  <2>. QED
    BY <1>1, <2>3, <2>7, <2>8, <2>9
<1>2. CASE MapIndirect
  <2>1. PICK b \in Phys : Alloc(b) /\ SetInode([Inode EXCEPT !.ind = b])
    BY <1>2 DEF MapIndirect
  <2>2. /\ blk' = blk /\ pc \notin Loaded /\ todo' = todo /\ ibuf' = Zero
        /\ pc' \in Loaded /\ mem[j].ind = 0
    BY <1>0, <1>2 DEF MapIndirect, Running, Loaded, plan
  <2>3. /\ mem'[j].ind = b
        /\ \A i \in P : mem'[i].direct = mem[i].direct
        /\ \A i \in P : i # j => mem'[i].ind = mem[i].ind
    BY <1>0, <2>1 DEF SetInode, TypeOK, Dinode
  <2>4. /\ Table(j)' = Zero
        /\ \A i \in P : i # j => Table(i)' = Table(i)
    BY <2>2, <2>3 DEF Table, Cur
  <2>5. -1 \in Places /\ HeldAt(j, -1) = 0 /\ HeldAt(j, -1)' = b
    BY <2>2, <2>3, PlacesInt, HeldNext, HeldCases
  <2>6. ASSUME NEW i \in P, NEW s \in Places, i # j \/ s # -1
        PROVE  HeldAt(i, s)' = HeldAt(i, s)
    <3>1. CASE i # j
      <4>1. mem[i].ind # 0 => Table(i)' = Table(i)
        BY <2>4, <3>1
      <4>. QED
        BY <2>3, <3>1, <4>1, PlaceCases, HeldNext, HeldCases
    <3>2. CASE i = j /\ s < NrDirect /\ s # -1
      BY <2>3, <3>2, HeldNext, HeldCases
    <3>3. CASE i = j /\ s >= NrDirect
      <4>1. Zero[s - NrDirect] = 0
        BY <3>3, PlacesInt DEF Zero
      <4>2. HeldAt(i, s)' = 0
        BY <2>4, <3>3, <4>1, HeldNext
      <4>. QED
        BY <2>2, <3>3, <4>2, HeldCases
    <3>. QED
      BY <2>6, <3>1, <3>2, <3>3, PlaceCases
  <2>7. b \notin bmap /\ bmap' = bmap \cup {b}
    BY <2>1, AllocMarks
  <2>. QED
    BY <2>5, <2>6, <2>7
<1>3. CASE MapChild
  <2>1. PICK b \in Phys : Alloc(b) /\ ibuf' = [ibuf EXCEPT ![log - NrDirect] = b]
    BY <1>3 DEF MapChild
  <2>2. /\ blk' = blk /\ pc \in Loaded /\ todo' = todo /\ mem' = mem
        /\ pc' \in Loaded /\ mem[j].ind # 0 /\ NrDirect <= log /\ log < NrLogical
    BY <1>0, <1>3 DEF MapChild, SetNoInode, Running, Loaded, plan, Stands, StandsInWrite
  <2>3. log - NrDirect \in Cells /\ log \in Places /\ log # -1 /\ log >= NrDirect
    BY <2>2, PlacesInt, Sizes DEF Places, Cells
  <2>4. /\ ibuf'[log - NrDirect] = b
        /\ \A c \in Cells : c # log - NrDirect => ibuf'[c] = ibuf[c]
    BY <2>1, <2>3 DEF TypeOK
  <2>5. /\ Table(j)' = ibuf' /\ Table(j) = ibuf
        /\ \A i \in P : i # j => Table(i)' = Table(i)
    BY <2>2 DEF Table, Cur
  <2>6. HeldAt(j, log) = 0 /\ HeldAt(j, log)' = b
    <3>1. ibuf = blk[mem[j].ind] /\ Mapped = 0
      BY <1>0, <1>3 DEF MapChild, Running, Stands, StandsInWrite
    <3>2. ~(log < NrDirect)
      BY <2>3, Sizes
    <3>3. ibuf[log - NrDirect] = 0
      BY <1>0, <2>2, <3>1, <3>2, Zenon DEF Mapped, BlockAt
    <3>. QED
      BY <2>2, <2>3, <2>4, <2>5, <3>3, HeldNext, HeldCases
  <2>7. ASSUME NEW i \in P, NEW s \in Places, i # j \/ s # log
        PROVE  HeldAt(i, s)' = HeldAt(i, s)
    <3>1. CASE i # j
      BY <2>2, <2>5, <3>1, PlaceCases, HeldNext, HeldCases
    <3>2. CASE i = j /\ s < NrDirect
      BY <2>2, <3>2, PlaceCases, HeldNext, HeldCases
    <3>3. CASE i = j /\ s >= NrDirect
      <4>1. s - NrDirect \in Cells /\ s - NrDirect # log - NrDirect
        BY <2>7, <3>3, PlacesInt, Sizes
      <4>. QED
        BY <2>2, <2>4, <2>5, <3>3, <4>1, HeldNext, HeldCases
    <3>. QED
      BY <3>1, <3>2, <3>3, PlacesInt, Sizes
  <2>8. b \notin bmap /\ bmap' = bmap \cup {b}
    BY <2>1, AllocMarks
  <2>. QED
    BY <1>3, <2>3, <2>6, <2>7, <2>8
<1>. QED
  BY <1>1, <1>2, <1>3
-----------------------------------------------------------------------------
\* The steps of a truncation that free nothing: a block that is zeroed is a data block,
\* so it holds no block numbers, unless it is the indirect block itself.
LEMMA TruncKeepsHeld ==
  ASSUME TypeOK, Stands, NEW P \in SUBSET Inodes, Owned(P), todo # <<>>,
         NEW j \in P, j = Cur.in,
         \/ TruncNothing \/ BeginTrunc \/ ZeroDirect \/ TruncDirectOnly \/ LoadIndirect
         \/ ZeroChild \/ KeepIndirect
  PROVE  \A i \in P, s \in Places : HeldAt(i, s)' = HeldAt(i, s)
<1>0. j \in Inodes /\ P \subseteq Inodes /\ Inode \in Dinode /\ Inode = mem[j] /\ at \in Nat
  BY Current DEF Inode, TypeOK
<1>1. CASE TruncNothing \/ BeginTrunc
  <2>1. mem' = mem /\ blk' = blk /\ pc \notin Loaded /\ pc' \notin Loaded
    BY <1>1 DEF TruncNothing, BeginTrunc, Return, Running, disk, Loaded
  <2>. QED
    BY <2>1, SameHeld DEF Table
<1>2. CASE ZeroDirect
  <2>1. /\ mem' = mem /\ pc \notin Loaded /\ pc' \notin Loaded
        /\ blk' = [blk EXCEPT ![mem[j].direct[at]] = Zero]
        /\ at < NrDirect /\ mem[j].direct[at] # 0
    BY <1>0, <1>2 DEF ZeroDirect, SetNoInode, ZeroBlock, WriteBlock, Running, Loaded, MoreDirect
  <2>2. at \in 0 .. (NrDirect - 1) /\ at \in Places /\ at # -1
    BY <1>0, <2>1, DirectPlace
  <2>3. HeldAt(j, at) = mem[j].direct[at]
    BY <2>1, <2>2, HeldCases
  <2>4. \A i \in P : mem[i].ind # mem[j].direct[at]
    BY <2>1, <2>2, <2>3, DataNotIndirect
  <2>5. \A i \in P : mem[i].ind # 0 => Table(i)' = Table(i)
    BY <1>0, <2>1, <2>4 DEF Table, TypeOK, Dinode
  <2>. QED
    BY <2>1, <2>5, SameHeld
<1>3. CASE TruncDirectOnly
  <2>1. /\ SetInode([Inode EXCEPT !.size = Cur.off])
        /\ blk' = blk /\ pc \notin Loaded /\ pc' \notin Loaded
    BY <1>3 DEF TruncDirectOnly, Return, Running, disk, Loaded
  <2>. QED
    BY <1>0, <2>1, SetSize, SameHeld DEF Table
<1>4. CASE LoadIndirect
  <2>1. /\ mem' = mem /\ blk' = blk /\ todo' = todo
        /\ pc \notin Loaded /\ ibuf' = blk[mem[Cur.in].ind]
    BY <1>4 DEF LoadIndirect, Running, disk, plan, Loaded, Inode
  <2>. QED
    BY <2>1, SameHeld DEF Table, Cur
<1>5. CASE ZeroChild
  <2>1. /\ mem' = mem /\ pc \in Loaded /\ pc' \in Loaded /\ todo' = todo /\ ibuf' = ibuf
        /\ blk' = [blk EXCEPT ![ibuf[at]] = Zero]
        /\ at < BlockSize /\ ibuf[at] \in Phys /\ mem[j].ind # 0
    BY <1>0, <1>5 DEF ZeroChild, SetNoInode, ZeroBlock, WriteBlock, Running, Loaded,
       MoreChildren, NrIndirect, plan, regs, Stands, StandsInTrunc
  <2>2. at \in Cells /\ NrDirect + at \in Places /\ (NrDirect + at) - NrDirect = at
        /\ NrDirect + at # -1 /\ NrDirect + at >= NrDirect
    BY <1>0, <2>1, ChildPlace
  <2>3. HeldAt(j, NrDirect + at) = ibuf[at]
    <3>1. Table(j) = ibuf
      BY <2>1 DEF Table
    <3>. QED
      BY <2>1, <2>2, <3>1, HeldCases
  <2>4. \A i \in P : mem[i].ind # ibuf[at]
    BY <2>1, <2>2, <2>3, DataNotIndirect, Sizes
  <2>5. \A i \in P : mem[i].ind # 0 => Table(i)' = Table(i)
    BY <1>0, <2>1, <2>4 DEF Table, TypeOK, Dinode, Cur
  <2>. QED
    BY <2>1, <2>5, SameHeld
<1>6. CASE KeepIndirect
  <2>1. /\ SetInode([Inode EXCEPT !.size = Cur.off])
        /\ blk' = [blk EXCEPT ![mem[j].ind] = ibuf]
        /\ pc \in Loaded /\ pc' \notin Loaded /\ mem[j].ind # 0
    BY <1>0, <1>6 DEF KeepIndirect, WriteBlock, Return, Running, Loaded, Stands, StandsInTrunc
  <2>2. mem[j].ind \in Phys
    BY <1>0, <2>1 DEF TypeOK, Dinode
  <2>3. \A i \in Inodes : mem'[i].ind = mem[i].ind /\ mem'[i].direct = mem[i].direct
    BY <2>1, SetSize
  <2>4. \A i \in P : mem[i].ind # 0 => Table(i)' = Table(i)
    BY <1>0, <2>1, <2>2, <2>3, IndirectNotShared DEF Table, TypeOK
  <2>. QED
    BY <1>0, <2>3, <2>4, SameHeld
<1>. QED
  BY <1>1, <1>2, <1>3, <1>4, <1>5, <1>6

\* An inode whose indirect block is zero, or is none, holds no children.
LEMMA NoTable ==
  ASSUME NEW P, NEW j, mem'[j].direct = mem[j].direct,
         mem'[j].ind # 0 => Table(j)' = Zero,
         \A i \in P : i # j => /\ mem'[i] = mem[i]
                               /\ mem[i].ind # 0 => Table(i)' = Table(i)
  PROVE  \A i \in P, s \in Places :
           /\ i # j \/ (s # -1 /\ s < NrDirect) => HeldAt(i, s)' = HeldAt(i, s)
           /\ i = j /\ s >= NrDirect => HeldAt(i, s)' = 0
<1>. SUFFICES ASSUME NEW i \in P, NEW s \in Places
              PROVE  /\ i # j \/ (s # -1 /\ s < NrDirect) => HeldAt(i, s)' = HeldAt(i, s)
                     /\ i = j /\ s >= NrDirect => HeldAt(i, s)' = 0
  OBVIOUS
<1>1. CASE i # j
  BY <1>1, PlaceCases, HeldNext, HeldCases
<1>2. CASE i = j /\ s < NrDirect
  <2>1. ~(s >= NrDirect)
    BY <1>2, PlacesInt, Sizes
  <2>. QED
    BY <1>2, <2>1, HeldNext, HeldCases
<1>3. CASE i = j /\ s >= NrDirect
  <2>1. Zero[s - NrDirect] = 0
    BY <1>3, PlacesInt DEF Zero
  <2>2. ~(s < NrDirect)
    BY <1>3, PlacesInt, Sizes
  <2>. QED
    BY <1>3, <2>1, <2>2, HeldNext
<1>. QED
  BY <1>1, <1>2, <1>3, PlacesInt, Sizes

\* A direct block is freed: the inode holds it no more, and everything else it did.
LEMMA FreesDirect ==
  ASSUME TypeOK, Stands, NEW P \in SUBSET Inodes, todo # <<>>, NEW j \in P, j = Cur.in,
         UnmarkDirect
  PROVE  \E k \in Places :
           /\ k = at /\ HeldAt(j, k) # 0 /\ HeldAt(j, k)' = 0 /\ bmap' = bmap \ {HeldAt(j, k)}
           /\ \A i \in P, s \in Places : i # j \/ s # k => HeldAt(i, s)' = HeldAt(i, s)
<1>1. j \in Inodes /\ P \subseteq Inodes /\ Inode \in Dinode /\ Inode = mem[j] /\ at \in Nat
  BY Current DEF Inode, TypeOK
<1>. PICK k \in Nat : k = at
  BY <1>1
<1>2. /\ SetInode([Inode EXCEPT !.direct = [@ EXCEPT ![k] = 0]])
      /\ bmap' = bmap \ {mem[j].direct[k]}
      /\ blk' = blk /\ pc \notin Loaded /\ pc' \notin Loaded
      /\ k < NrDirect /\ mem[j].direct[k] # 0
  BY <1>1 DEF UnmarkDirect, Running, Loaded, Stands, StandsInTrunc, MoreDirect
<1>3. k \in 0 .. (NrDirect - 1) /\ k \in Places /\ k # -1
  BY <1>2, DirectPlace
<1>4. /\ mem'[j].direct = [mem[j].direct EXCEPT ![k] = 0]
      /\ \A i \in P : mem'[i].ind = mem[i].ind
      /\ \A i \in P : i # j => mem'[i].direct = mem[i].direct
  BY <1>1, <1>2 DEF SetInode, TypeOK, Dinode
<1>5. /\ mem'[j].direct[k] = 0
      /\ \A l \in 0 .. (NrDirect - 1) : l # k => mem'[j].direct[l] = mem[j].direct[l]
  BY <1>1, <1>3, <1>4 DEF TypeOK, Dinode
<1>6. \A i : Table(i)' = blk[mem'[i].ind] /\ Table(i) = blk[mem[i].ind]
  BY <1>2 DEF Table
<1>7. HeldAt(j, k)' = 0 /\ HeldAt(j, k) = mem[j].direct[k]
  BY <1>2, <1>3, <1>5, HeldNext, HeldCases
<1>8. ASSUME NEW i \in P, NEW s \in Places, i # j \/ s # k
      PROVE  HeldAt(i, s)' = HeldAt(i, s)
  <2>1. CASE s = -1
    BY <1>4, <2>1, HeldNext, HeldCases
  <2>2. CASE s # -1 /\ s < NrDirect /\ s \in 0 .. (NrDirect - 1)
    <3>1. CASE i # j
      BY <1>4, <2>2, <3>1, HeldNext, HeldCases
    <3>2. CASE i = j /\ s # k
      BY <1>5, <2>2, <3>2, HeldNext, HeldCases
    <3>. QED
      BY <1>8, <3>1, <3>2
  <2>3. CASE s >= NrDirect
    BY <1>4, <1>6, <2>3, HeldNext, HeldCases
  <2>. QED
    BY <2>1, <2>2, <2>3, PlaceCases
<1>. QED
  BY <1>2, <1>3, <1>7, <1>8

\* A child of the indirect block is freed.
LEMMA FreesChild ==
  ASSUME TypeOK, Stands, NEW P \in SUBSET Inodes, todo # <<>>, NEW j \in P, j = Cur.in,
         UnmarkChild
  PROVE  \E t \in Places :
           /\ t = NrDirect + at
           /\ HeldAt(j, t) # 0 /\ HeldAt(j, t)' = 0 /\ bmap' = bmap \ {HeldAt(j, t)}
           /\ \A i \in P, s \in Places : i # j \/ s # t => HeldAt(i, s)' = HeldAt(i, s)
<1>1. j \in Inodes /\ P \subseteq Inodes /\ Inode \in Dinode /\ Inode = mem[j] /\ at \in Nat
  BY Current DEF Inode, TypeOK
<1>. PICK k \in Nat : k = at
  BY <1>1
<1>2. /\ mem' = mem /\ blk' = blk /\ pc \in Loaded /\ pc' \in Loaded /\ todo' = todo
      /\ ibuf' = [ibuf EXCEPT ![k] = 0] /\ bmap' = bmap \ {ibuf[k]}
      /\ k < BlockSize /\ ibuf[k] \in Phys /\ mem[j].ind # 0
  BY <1>1 DEF UnmarkChild, SetNoInode, Running, Loaded, MoreChildren, NrIndirect, plan,
     Stands, StandsInTrunc
<1>3. /\ k \in Cells /\ NrDirect + k \in Places /\ (NrDirect + k) - NrDirect = k
      /\ NrDirect + k # -1 /\ NrDirect + k >= NrDirect
  BY <1>1, <1>2, ChildPlace
<1>. PICK t \in Places : t = NrDirect + k
  BY <1>3
<1>4. /\ ibuf'[k] = 0
      /\ \A c \in Cells : c # k => ibuf'[c] = ibuf[c]
  BY <1>2, <1>3 DEF TypeOK
<1>5. /\ Table(j) = ibuf /\ Table(j)' = ibuf'
      /\ \A i \in P : i # j => Table(i)' = Table(i)
  BY <1>2 DEF Table, Cur
<1>6. HeldAt(j, t) = ibuf[k] /\ HeldAt(j, t)' = 0
  <2>1. HeldAt(j, t) = Table(j)[k]
    BY <1>2, <1>3, HeldCases
  <2>2. HeldAt(j, t)' = Table(j)'[k]
    BY <1>2, <1>3, HeldNext
  <2>. QED
    BY <1>4, <1>5, <2>1, <2>2
<1>7. ASSUME NEW i \in P, NEW s \in Places, i # j \/ s # t
      PROVE  HeldAt(i, s)' = HeldAt(i, s)
  <2>1. CASE i # j \/ s = -1 \/ s < NrDirect
    BY <1>2, <1>5, <2>1, PlaceCases, HeldNext, HeldCases
  <2>2. CASE i = j /\ s >= NrDirect
    <3>1. s - NrDirect \in Cells /\ s - NrDirect # k
      BY <1>1, <1>7, <2>2, PlacesInt, Sizes
    <3>2. HeldAt(i, s) = ibuf[s - NrDirect]
      BY <1>2, <1>5, <2>2, HeldCases
    <3>3. HeldAt(i, s)' = ibuf'[s - NrDirect]
      BY <1>2, <1>5, <2>2, HeldNext
    <3>. QED
      BY <1>4, <3>1, <3>2, <3>3
  <2>. QED
    BY <2>1, <2>2, PlaceCases
<1>8. ibuf[k] # 0
  BY <1>2, Sizes
<1>. QED
  BY <1>2, <1>6, <1>7, <1>8

\* The indirect block is zeroed: none of its children is left.
LEMMA FreesTable ==
  ASSUME TypeOK, Stands, NEW P \in SUBSET Inodes, Owned(P), todo # <<>>,
         NEW j \in P, j = Cur.in, ZeroIndirect
  PROVE  /\ bmap' = bmap
         /\ \A i \in P, s \in Places :
              /\ i # j \/ s < NrDirect => HeldAt(i, s)' = HeldAt(i, s)
              /\ i = j /\ s >= NrDirect => HeldAt(i, s)' = 0
<1>1. j \in Inodes /\ P \subseteq Inodes /\ Inode \in Dinode /\ Inode = mem[j]
  BY Current DEF Inode, TypeOK
<1>2. /\ mem' = mem /\ bmap' = bmap /\ blk' = [blk EXCEPT ![mem[j].ind] = Zero]
      /\ pc \in Loaded /\ pc' \notin Loaded /\ mem[j].ind # 0
  BY <1>1 DEF ZeroIndirect, SetNoInode, ZeroBlock, WriteBlock, Running, Loaded,
     Stands, StandsInTrunc
<1>3. mem[j].ind \in Phys
  BY <1>1, <1>2 DEF TypeOK, Dinode
<1>4. /\ Table(j)' = Zero
      /\ \A i \in P : i # j /\ mem[i].ind # 0 => Table(i)' = Table(i)
  BY <1>1, <1>2, <1>3, IndirectNotShared DEF Table, TypeOK
<1>5. \A i \in P, s \in Places :
        /\ i # j \/ (s # -1 /\ s < NrDirect) => HeldAt(i, s)' = HeldAt(i, s)
        /\ i = j /\ s >= NrDirect => HeldAt(i, s)' = 0
  BY <1>2, <1>4, NoTable
<1>6. HeldAt(j, -1)' = HeldAt(j, -1)
  BY <1>2, PlacesInt, HeldNext, HeldCases
<1>. QED
  BY <1>2, <1>5, <1>6

\* The indirect block is freed.
LEMMA FreesIndirect ==
  ASSUME TypeOK, Stands, NEW P \in SUBSET Inodes, todo # <<>>, NEW j \in P, j = Cur.in,
         UnmarkIndirect
  PROVE  /\ HeldAt(j, -1) # 0 /\ HeldAt(j, -1)' = 0 /\ bmap' = bmap \ {HeldAt(j, -1)}
         /\ \A i \in P, s \in Places :
              /\ i # j \/ (s # -1 /\ s < NrDirect) => HeldAt(i, s)' = HeldAt(i, s)
              /\ i = j /\ (s = -1 \/ s >= NrDirect) => HeldAt(i, s)' = 0
<1>1. j \in Inodes /\ P \subseteq Inodes /\ Inode \in Dinode /\ Inode = mem[j]
  BY Current DEF Inode, TypeOK
<1>2. /\ SetInode([Inode EXCEPT !.ind = 0, !.size = Cur.off])
      /\ bmap' = bmap \ {mem[j].ind} /\ blk' = blk
      /\ pc \notin Loaded /\ pc' \notin Loaded /\ mem[j].ind # 0
  BY <1>1 DEF UnmarkIndirect, Return, Running, Loaded, Stands, StandsInTrunc
<1>3. /\ mem'[j].direct = mem[j].direct /\ mem'[j].ind = 0
      /\ \A i \in P : i # j => mem'[i] = mem[i]
  BY <1>1, <1>2 DEF SetInode, TypeOK, Dinode
<1>4. /\ mem'[j].ind # 0 => Table(j)' = Zero
      /\ \A i \in P : i # j => /\ mem'[i] = mem[i]
                               /\ mem[i].ind # 0 => Table(i)' = Table(i)
  BY <1>2, <1>3 DEF Table
<1>5. \A i \in P, s \in Places :
        /\ i # j \/ (s # -1 /\ s < NrDirect) => HeldAt(i, s)' = HeldAt(i, s)
        /\ i = j /\ s >= NrDirect => HeldAt(i, s)' = 0
  <2>. SUFFICES ASSUME NEW i \in P, NEW s \in Places
                PROVE  /\ i # j \/ (s # -1 /\ s < NrDirect) => HeldAt(i, s)' = HeldAt(i, s)
                       /\ i = j /\ s >= NrDirect => HeldAt(i, s)' = 0
    OBVIOUS
  <2>1. CASE i # j
    BY <1>4, <2>1, PlaceCases, HeldNext, HeldCases
  <2>2. CASE i = j /\ s # -1 /\ s < NrDirect
    BY <1>3, <2>2, PlaceCases, HeldNext, HeldCases
  <2>3. CASE i = j /\ s >= NrDirect
    <3>1. HeldAt(i, s)' = 0
      BY <1>3, <2>3, HeldNext
    <3>2. ~(s < NrDirect)
      BY <2>3, PlacesInt, Sizes
    <3>. QED
      BY <2>3, <3>1, <3>2
  <2>4. \A t \in Places : t = -1 \/ t < NrDirect \/ t >= NrDirect
    BY PlacesInt, Sizes
  <2>5. CASE i = j /\ s = -1
    BY <2>5, Sizes
  <2>. QED
    BY <2>1, <2>2, <2>3, <2>4, <2>5
<1>6. -1 \in Places /\ HeldAt(j, -1) = mem[j].ind /\ HeldAt(j, -1)' = 0
  BY <1>3, PlacesInt, HeldNext, HeldCases
<1>. QED
  BY <1>2, <1>5, <1>6

\* A step that frees a block takes it out of the one place that holds it.
LEMMA TruncFrees ==
  ASSUME TypeOK, Stands, NEW P \in SUBSET Inodes, Owned(P), todo # <<>>,
         NEW j \in P, j = Cur.in,
         UnmarkDirect \/ UnmarkChild \/ ZeroIndirect \/ UnmarkIndirect
  PROVE  Owned(P)'
<1>1. CASE UnmarkDirect
  <2>1. PICK k \in Places :
           /\ HeldAt(j, k) # 0 /\ HeldAt(j, k)' = 0 /\ bmap' = bmap \ {HeldAt(j, k)}
           /\ \A i \in P, s \in Places : i # j \/ s # k => HeldAt(i, s)' = HeldAt(i, s)
    BY <1>1, FreesDirect
  <2>2. \A i \in P, s \in Places : HeldAt(i, s)' \in {0, HeldAt(i, s)}
    BY <2>1
  <2>. QED
    BY <2>1, <2>2, LosesHeld
<1>2. CASE UnmarkChild
  <2>1. PICK k \in Places :
           /\ HeldAt(j, k) # 0 /\ HeldAt(j, k)' = 0 /\ bmap' = bmap \ {HeldAt(j, k)}
           /\ \A i \in P, s \in Places : i # j \/ s # k => HeldAt(i, s)' = HeldAt(i, s)
    BY <1>2, FreesChild
  <2>2. \A i \in P, s \in Places : HeldAt(i, s)' \in {0, HeldAt(i, s)}
    BY <2>1
  <2>. QED
    BY <2>1, <2>2, LosesHeld
<1>3. CASE ZeroIndirect
  <2>1. \A i \in P, s \in Places : HeldAt(i, s)' \in {0, HeldAt(i, s)}
    <3>1. \A s \in Places : s < NrDirect \/ s >= NrDirect
      BY PlacesInt, Sizes
    <3>. QED
      BY <1>3, <3>1, FreesTable
  <2>. QED
    BY <1>3, <2>1, FreesTable, KeepsHeld
<1>4. CASE UnmarkIndirect
  <2>1. /\ HeldAt(j, -1) # 0 /\ HeldAt(j, -1)' = 0 /\ bmap' = bmap \ {HeldAt(j, -1)}
        /\ \A i \in P, s \in Places : HeldAt(i, s)' \in {0, HeldAt(i, s)}
    BY <1>4, FreesIndirect, PlaceCases
  <2>. QED
    BY <2>1, PlacesInt, LosesHeld
<1>. QED
  BY <1>1, <1>2, <1>3, <1>4
-----------------------------------------------------------------------------
\* The steps between the calls that touch data: an inode that is released holds nothing
\* any more, one that is written or created holds what it held.
LEMMA BetweenKeepsHeld ==
  ASSUME TypeOK, Stands, NEW P \in SUBSET Inodes, todo # <<>> => Cur.in \in P,
         ReleaseInode \/ SyncInode \/ CreateInode \/ NoInode
  PROVE  \A i \in P, s \in Places : HeldAt(i, s)' \in {0, HeldAt(i, s)}
<1>1. CASE ReleaseInode
  <2>. PICK j \in P : j = Cur.in
    BY <1>1 DEF ReleaseInode, Running
  <2>1. /\ SetInode(Blank) /\ blk' = blk /\ pc \notin Loaded /\ pc' \notin Loaded
    BY <1>1 DEF ReleaseInode, Return, Running, Loaded
  <2>2. mem'[j] = Blank /\ \A i \in P : i # j => mem'[i] = mem[i]
    BY <2>1 DEF SetInode, TypeOK
  <2>3. \A i : i # j /\ i \in P => Table(i)' = Table(i)
    BY <2>1, <2>2 DEF Table
  <2>. SUFFICES ASSUME NEW i \in P, NEW s \in Places PROVE HeldAt(i, s)' \in {0, HeldAt(i, s)}
    OBVIOUS
  <2>4. CASE i # j
    BY <2>2, <2>3, <2>4, PlaceCases, HeldNext, HeldCases
  <2>5. CASE i = j
    <3>1. mem'[i].ind = 0 /\ \A l \in 0 .. (NrDirect - 1) : mem'[i].direct[l] = 0
      <4>1. Blank.ind = 0 /\ \A l \in 0 .. (NrDirect - 1) : Blank.direct[l] = 0
        BY DEF Blank
      <4>. QED
        BY <2>2, <2>5, <4>1
    <3>. QED
      BY <3>1, PlaceCases, HeldNext
  <2>. QED
    BY <2>4, <2>5
<1>2. CASE SyncInode \/ NoInode
  <2>1. mem' = mem /\ blk' = blk /\ pc \notin Loaded /\ pc' \notin Loaded
    BY <1>2 DEF SyncInode, NoInode, Return, Running, disk, Loaded
  <2>. QED
    BY <2>1, SameHeld DEF Table
<1>3. CASE CreateInode
  <2>1. PICK i \in Inodes, type \in {"file", "dir"} : mem' = [mem EXCEPT ![i].type = type]
    BY <1>3, Zenon DEF CreateInode
  <2>2. blk' = blk /\ pc \notin Loaded /\ pc' \notin Loaded
    BY <1>3 DEF CreateInode, TakeNumber, Loaded
  <2>3. \A x \in P : mem'[x].ind = mem[x].ind /\ mem'[x].direct = mem[x].direct
    BY <2>1 DEF TypeOK, Dinode
  <2>. QED
    BY <2>2, <2>3, SameHeld DEF Table
<1>. QED
  BY <1>1, <1>2, <1>3

\* What any inodes hold stays marked and held once, as long as the inode that the
\* process works on is among them.
LEMMA OwnedStep ==
  ASSUME TypeOK, Stands, NEW P \in SUBSET Inodes, Owned(P), todo # <<>> => Cur.in \in P,
         \/ WriteStep \/ TruncStep \/ ReleaseInode \/ SyncInode \/ CreateInode \/ NoInode
  PROVE  Owned(P)'
<1>1. CASE \/ BeginWrite \/ MapExisting \/ ReadIndirect \/ NoChild \/ WriteIndirect
           \/ MapFails \/ WriteIndirectFails \/ StoreData \/ StoreCsum \/ StoreLastCsum
  <2>1. todo # <<>> /\ bmap' = bmap
    BY <1>1 DEF BeginWrite, MapExisting, ReadIndirect, NoChild, WriteIndirect, MapFails,
       WriteIndirectFails, StoreData, StoreCsum, StoreLastCsum, Running, disk
  <2>2. \A i \in P, s \in Places : HeldAt(i, s)' = HeldAt(i, s)
    BY <1>1, <2>1, WriteKeepsHeld
  <2>. QED
    BY <2>1, <2>2, KeepsHeld
<1>2. CASE MapDirect \/ MapIndirect \/ MapChild
  <2>. PICK j \in P : j = Cur.in
    BY <1>2 DEF MapDirect, MapIndirect, MapChild, Running
  <2>. todo # <<>>
    BY <1>2 DEF MapDirect, MapIndirect, MapChild, Running
  <2>1. PICK t \in Places, b \in Phys :
          /\ b \notin bmap /\ bmap' = bmap \cup {b}
          /\ HeldAt(j, t)' = b
          /\ \A i \in P, s \in Places : i # j \/ s # t => HeldAt(i, s)' = HeldAt(i, s)
    BY <1>2, WriteMaps
  <2>. QED
    BY <2>1, GainsHeld
<1>3. CASE \/ TruncNothing \/ BeginTrunc \/ ZeroDirect \/ TruncDirectOnly \/ LoadIndirect
           \/ ZeroChild \/ KeepIndirect
  <2>1. todo # <<>> /\ bmap' = bmap
    BY <1>3 DEF TruncNothing, BeginTrunc, ZeroDirect, TruncDirectOnly, LoadIndirect,
       ZeroChild, KeepIndirect, Running, disk
  <2>. PICK j \in P : j = Cur.in
    BY <2>1
  <2>2. \A i \in P, s \in Places : HeldAt(i, s)' = HeldAt(i, s)
    BY <1>3, <2>1, TruncKeepsHeld
  <2>. QED
    BY <2>1, <2>2, KeepsHeld
<1>4. CASE UnmarkDirect \/ UnmarkChild \/ ZeroIndirect \/ UnmarkIndirect
  <2>1. todo # <<>>
    BY <1>4 DEF UnmarkDirect, UnmarkChild, ZeroIndirect, UnmarkIndirect, Running
  <2>. PICK j \in P : j = Cur.in
    BY <2>1
  <2>. QED
    BY <1>4, <2>1, TruncFrees
<1>5. CASE ReleaseInode \/ SyncInode \/ CreateInode \/ NoInode
  <2>1. bmap' = bmap
    BY <1>5 DEF ReleaseInode, SyncInode, CreateInode, NoInode, disk
  <2>2. \A i \in P, s \in Places : HeldAt(i, s)' \in {0, HeldAt(i, s)}
    BY <1>5, BetweenKeepsHeld
  <2>. QED
    BY <2>1, <2>2, KeepsHeld
<1>. QED
  BY <1>1, <1>2, <1>3, <1>4, <1>5 DEF WriteStep, TruncStep
-----------------------------------------------------------------------------
\* On a sound image the inodes in memory hold each of their blocks once.
LEMMA SoundOwned ==
  ASSUME mem = dino, pc \notin Loaded, NEW I, Sound(I)
  PROVE  Owned(I)
<1>1. \A i \in I, s \in Places : HeldAt(i, s) = RefAt(dino[i], s)
  BY Zenon DEF HeldAt, Table, RefAt, BlockAt
<1>2. \A i \in I, s \in Places : HeldAt(i, s) # 0 => HeldAt(i, s) \in Refs(dino[i])
  BY <1>1 DEF Refs
<1>. QED
  BY <1>1, <1>2 DEF Sound, Owned

\* A blank inode holds nothing.
LEMMA BlankOwned ==
  ASSUME NEW P, Owned(P), NEW j, mem[j] = Blank
  PROVE  Owned(P \cup {j})
<1>1. \A s \in Places : HeldAt(j, s) = 0
  <2>. SUFFICES ASSUME NEW s \in Places PROVE HeldAt(j, s) = 0
    OBVIOUS
  <2>1. mem[j].ind = 0 /\ \A l \in 0 .. (NrDirect - 1) : mem[j].direct[l] = 0
    BY DEF Blank
  <2>. QED
    BY <2>1, PlaceCases, HeldCases
<1>. QED
  BY <1>1 DEF Owned

\* What is held once among some inodes is held once among fewer.
LEMMA OwnedSubset == ASSUME NEW P, Owned(P), NEW Q \in SUBSET P PROVE Owned(Q)
BY DEF Owned

\* The same in the next state.
LEMMA OwnedSubsetNext == ASSUME NEW P, Owned(P)', NEW Q \in SUBSET P PROVE Owned(Q)'
BY DEF Owned

\* The current call is one of those the command still makes.
LEMMA CurActs == ASSUME TypeOK, todo # <<>> PROVE Cur.in \in Acting /\ Acting \subseteq Inodes
<1>1. 1 \in DOMAIN todo /\ Cur = todo[1]
  BY DEF TypeOK, Cur
<1>2. \A k \in DOMAIN todo : todo[k] \in Call
  BY DEF TypeOK
<1>3. \A k \in DOMAIN onfail : onfail[k] \in Call
  BY DEF TypeOK
<1>4. \A c \in Call : c.in \in Inodes
  BY DEF Call
<1>. QED
  BY <1>1, <1>2, <1>3, <1>4 DEF Acting, Targets

\* A command never takes up an inode after its first call.
LEMMA ActingShrinks ==
  ASSUME TypeOK, \/ WriteStep \/ TruncStep \/ ReleaseInode \/ SyncInode
  PROVE  Acting' \subseteq Acting
<1>1. CASE todo' = todo /\ onfail' = onfail
  BY <1>1 DEF Acting, Targets
<1>2. CASE todo # <<>> /\ Return
  <2>1. /\ todo' = Tail(todo) /\ onfail' = onfail
    BY <1>2 DEF Return
  <2>2. Targets(Tail(todo)) \subseteq Targets(todo)
    BY <1>2 DEF Targets, TypeOK
  <2>. QED
    BY <2>1, <2>2 DEF Acting, Targets
<1>3. CASE todo # <<>> /\ Fail
  <2>1. todo' = <<TruncCall(Cur.in, Inode.size)>> \o onfail /\ onfail' = <<>>
    BY <1>3 DEF Fail, CutBack
  <2>2. Targets(<<TruncCall(Cur.in, Inode.size)>> \o onfail) \subseteq {Cur.in} \cup Targets(onfail)
    BY DEF Targets, TypeOK, TruncCall
  <2>3. Targets(<<>>) = {}
    BY DEF Targets
  <2>. QED
    BY <1>3, <2>1, <2>2, <2>3, CurActs, SMTT(30) DEF Acting, Targets
<1>. QED
  BY <1>1, <1>2, <1>3 DEF WriteStep, TruncStep, ReleaseInode, SyncInode,
     BeginWrite, MapExisting, MapDirect, MapIndirect, ReadIndirect, MapChild, NoChild,
     WriteIndirect, MapFails, WriteIndirectFails, StoreData, StoreCsum, StoreLastCsum,
     TruncNothing, BeginTrunc, ZeroDirect, UnmarkDirect, TruncDirectOnly, LoadIndirect,
     ZeroChild, UnmarkChild, ZeroIndirect, UnmarkIndirect, KeepIndirect, Running, plan
-----------------------------------------------------------------------------
\* The calls of a command that are left are calls it planned.
LEMMA PlannedCur == ASSUME Planned, todo # <<>> PROVE Cur \in SafeCalls
BY DEF Planned, Cur

\* The calls that are left were left before, or come from the error path.
LEMMA PlannedStep ==
  ASSUME TypeOK, Planned, WriteStep \/ TruncStep \/ ReleaseInode \/ SyncInode
  PROVE  Planned'
<1>1. CASE todo' = todo /\ onfail' = onfail
  BY <1>1 DEF Planned
<1>2. CASE todo # <<>> /\ Return
  BY <1>2 DEF Planned, Return
<1>3. CASE todo # <<>> /\ Fail
  <2>1. TruncCall(Cur.in, Inode.size) \in Call
    BY <1>3, Current, CallsType DEF Dinode
  <2>2. TruncCall(Cur.in, Inode.size) \in SafeCalls
    BY <2>1 DEF SafeCalls, TruncCall
  <2>3. onfail \in Seq(SafeCalls)
    BY DEF Planned, FailCalls
  <2>4. todo' = <<TruncCall(Cur.in, Inode.size)>> \o onfail /\ onfail' = <<>>
    BY <1>3 DEF Fail, CutBack
  <2>. HIDE DEF SafeCalls
  <2>. QED
    BY <2>2, <2>3, <2>4 DEF Planned
<1>. QED
  BY <1>1, <1>2, <1>3 DEF WriteStep, TruncStep, ReleaseInode, SyncInode,
     BeginWrite, MapExisting, MapDirect, MapIndirect, ReadIndirect, MapChild, NoChild,
     WriteIndirect, MapFails, WriteIndirectFails, StoreData, StoreCsum, StoreLastCsum,
     TruncNothing, BeginTrunc, ZeroDirect, UnmarkDirect, TruncDirectOnly, LoadIndirect,
     ZeroChild, UnmarkChild, ZeroIndirect, UnmarkIndirect, KeepIndirect, Running, plan

\* The calls of each command.
LEMMA SafeCallTypes ==
  /\ \A i \in Inodes, off, n \in Nat, val \in Int :
       n > 0 => WriteCall(i, off, n, val) \in SafeCalls
  /\ \A i \in Inodes, size \in Nat : TruncCall(i, size) \in FailCalls
  /\ \A i \in Inodes : SyncCall(i) \in FailCalls
  /\ \A i \in Inodes : i # 0 => ReleaseCall(i) \in FailCalls
  /\ FailCalls \subseteq SafeCalls
BY CallsType DEF SafeCalls, FailCalls, WriteCall, TruncCall, SyncCall, ReleaseCall

\* The calls that write an entry write something.
LEMMA WriteDirentSafe ==
  ASSUME NEW d \in Inodes, NEW off \in Nat, NEW entry \in Int
  PROVE  WriteDirent(d, off, entry) \in Seq(SafeCalls)
<1>1. /\ WriteCall(d, off, 1, 0) \in SafeCalls /\ WriteCall(d, off + 1, 1, entry) \in SafeCalls
      /\ WriteCall(d, off, 1, entry) \in SafeCalls
  BY SafeCallTypes
<1>. QED
  BY <1>1 DEF WriteDirent

\* The calls of a creation, when the new inode is blank.
NewCalls(p, i, type, k) ==
  (IF type = "dir" THEN WriteDirent(i, 0, i + 1) \o WriteDirent(i, 1, p + 1) ELSE <<>>)
    \o WriteDirent(p, k, i + 1) \o <<SyncCall(p), SyncCall(i)>>

\* So do those of a creation, and they release nothing.
LEMMA NewCallsSafe ==
  ASSUME NEW p \in Inodes, NEW i \in Inodes, NEW type, NEW k \in Nat
  PROVE  NewCalls(p, i, type, k) \in Seq(SafeCalls)
<1>1. i + 1 \in Int /\ p + 1 \in Int
  BY Sizes
<1>2. /\ WriteDirent(i, 0, i + 1) \in Seq(SafeCalls)
      /\ WriteDirent(i, 1, p + 1) \in Seq(SafeCalls)
      /\ WriteDirent(p, k, i + 1) \in Seq(SafeCalls)
  BY <1>1, WriteDirentSafe
<1>3. <<SyncCall(p), SyncCall(i)>> \in Seq(SafeCalls)
  BY SafeCallTypes
<1>. QED
  BY <1>2, <1>3 DEF NewCalls

\* On the image a creation has started on, an inode whose number is not taken is blank.
LEMMA NewNumber ==
  ASSUME Stands, NEW i \in Inodes, TakeNumber(i)
  PROVE  mem[i] = Blank /\ mem[i].size = 0
<1>1. i \notin imap /\ pc = "create"
  BY DEF TakeNumber
<1>2. mem[i] = Blank
  BY <1>1 DEF Stands, StandsBetween, Intact
<1>. QED
  BY <1>2 DEF Blank

\* So nothing is found in it,
LEMMA NoLeftovers == ASSUME Stands PROVE ~LeftoversAssert /\ ~LeftoversExist
<1>. SUFFICES ASSUME NEW i \in Inodes, TakeNumber(i), mem[i].size > 0 PROVE FALSE
  BY DEF LeftoversAssert, LeftoversExist
<1>1. mem[i].size = 0
  BY NewNumber
<1>. QED
  BY <1>1

\* and its own entries come first.
LEMMA NewInode ==
  ASSUME Stands, CreateInode
  PROVE  LET type == IF job.op = "mkdir" THEN "dir" ELSE "file"
         IN  \E i \in Inodes :
               /\ TakeNumber(i) /\ mem[i] = Blank
               /\ mem' = [mem EXCEPT ![i].type = type]
               /\ dirty' = dirty \cup {i}
               /\ \E k \in 0 .. mem[job.in].size :
                    /\ IsFreeSlot(mem[job.in], k)
                    /\ todo' = NewCalls(job.in, i, type, k)
               /\ onfail' = <<TruncCall(i, 0), ReleaseCall(i), SyncCall(i)>>
<1>. DEFINE type == IF job.op = "mkdir" THEN "dir" ELSE "file"
<1>1. PICK i \in Inodes :
        /\ TakeNumber(i)
        /\ mem' = [mem EXCEPT ![i].type = type]
        /\ dirty' = dirty \cup {i}
        /\ \E k \in 0 .. mem[job.in].size :
             /\ IsFreeSlot(mem[job.in], k)
             /\ todo' = CreateCalls(job.in, i, type, mem[i].size, k)
        /\ onfail' = UndoCreate(i)
  BY DEF CreateInode
<1>. HIDE DEF type
<1>2. mem[i] = Blank /\ mem[i].size = 0
  BY <1>1, NewNumber
<1>3. PICK k \in 0 .. mem[job.in].size :
        IsFreeSlot(mem[job.in], k) /\ todo' = CreateCalls(job.in, i, type, mem[i].size, k)
  BY <1>1
<1>4. todo' = CreateCalls(job.in, i, type, 0, k)
  BY <1>2, <1>3
<1>5. todo' = NewCalls(job.in, i, type, k)
  <2>1. 0 + 1 = 1
    OBVIOUS
  <2>. QED
    BY <1>4, <2>1, Zenon DEF CreateCalls, NewCalls
<1>6. onfail' = <<TruncCall(i, 0), ReleaseCall(i), SyncCall(i)>>
  BY <1>1 DEF UndoCreate
<1>7. /\ TakeNumber(i) /\ mem[i] = Blank
      /\ mem' = [mem EXCEPT ![i].type = type]
      /\ dirty' = dirty \cup {i}
      /\ \E n \in 0 .. mem[job.in].size :
           IsFreeSlot(mem[job.in], n) /\ todo' = NewCalls(job.in, i, type, n)
  BY <1>1, <1>2, <1>3, <1>5
<1>. QED
  BY <1>6, <1>7, Zenon DEF type
-----------------------------------------------------------------------------
\* A write and a truncation change no type, no inode number and no inode on the disk.
LEMMA DataStepKeeps ==
  ASSUME TypeOK, WriteStep \/ TruncStep
  PROVE  /\ imap' = imap /\ dino' = dino /\ command' = command
         /\ \A i \in Inodes : mem'[i].type = mem[i].type
         /\ \A i \in Inodes : i # Cur.in => mem'[i] = mem[i]
         /\ todo # <<>>
<1>1. /\ imap' = imap /\ dino' = dino /\ command' = command /\ todo # <<>>
  BY DEF WriteStep, TruncStep,
     BeginWrite, MapExisting, MapDirect, MapIndirect, ReadIndirect, MapChild, NoChild,
     WriteIndirect, MapFails, WriteIndirectFails, StoreData, StoreCsum, StoreLastCsum,
     TruncNothing, BeginTrunc, ZeroDirect, UnmarkDirect, TruncDirectOnly, LoadIndirect,
     ZeroChild, UnmarkChild, ZeroIndirect, UnmarkIndirect, KeepIndirect, Running, disk
<1>2. \/ mem' = mem
      \/ \E n : SetInode([Inode EXCEPT !.size = n])
      \/ \E n : SetInode([Inode EXCEPT !.ind = n])
      \/ \E n : SetInode([Inode EXCEPT !.direct = n])
      \/ \E n : SetInode([Inode EXCEPT !.ind = 0, !.size = n])
  BY DEF WriteStep, TruncStep, SetNoInode, Fail,
     BeginWrite, MapExisting, MapDirect, MapIndirect, ReadIndirect, MapChild, NoChild,
     WriteIndirect, MapFails, WriteIndirectFails, StoreData, StoreCsum, StoreLastCsum,
     TruncNothing, BeginTrunc, ZeroDirect, UnmarkDirect, TruncDirectOnly, LoadIndirect,
     ZeroChild, UnmarkChild, ZeroIndirect, UnmarkIndirect, KeepIndirect
<1>3. \A i \in Inodes : mem'[i].type = mem[i].type
  <2>1. Cur.in \in Inodes /\ Inode \in Dinode /\ Inode = mem[Cur.in]
    BY <1>1, Current DEF Inode
  <2>2. mem' = mem \/ \E d : mem' = [mem EXCEPT ![Cur.in] = d] /\ d.type = Inode.type
    <3>. PICK d \in Dinode : d = Inode
      BY <2>1
    <3>1. \A n : /\ [d EXCEPT !.size = n].type = d.type /\ [d EXCEPT !.ind = n].type = d.type
                 /\ [d EXCEPT !.direct = n].type = d.type
                 /\ [d EXCEPT !.ind = 0, !.size = n].type = d.type
      BY DEF Dinode
    <3>2. \A e : SetInode(e) /\ e.type = Inode.type
                => \E f : mem' = [mem EXCEPT ![Cur.in] = f] /\ f.type = Inode.type
      BY Zenon DEF SetInode
    <3>3. CASE mem' = mem
      BY <3>3
    <3>4. CASE \E n : \/ SetInode([Inode EXCEPT !.size = n])
                      \/ SetInode([Inode EXCEPT !.ind = n])
                      \/ SetInode([Inode EXCEPT !.direct = n])
                      \/ SetInode([Inode EXCEPT !.ind = 0, !.size = n])
      BY <3>1, <3>2, <3>4, Zenon
    <3>. QED
      BY <1>2, <3>3, <3>4, Zenon
  <2>. QED
    BY <2>1, <2>2 DEF TypeOK
<1>4. \A i \in Inodes : i # Cur.in => mem'[i] = mem[i]
  BY <1>2 DEF SetInode, TypeOK
<1>. QED
  BY <1>1, <1>3, <1>4

\* Nobody removes the root directory.
LEMMA RootStep ==
  ASSUME TypeOK, Planned, Stands, RootStays, Step
  PROVE  RootStays'
<1>1. CASE WriteStep \/ TruncStep
  BY <1>1, DataStepKeeps, Sizes DEF RootStays
<1>2. CASE ReleaseInode
  <2>1. Cur.in # 0
    <3>1. todo # <<>> /\ Cur.op = "release"
      BY <1>2 DEF ReleaseInode, Running, Cur
    <3>. QED
      BY <3>1, PlannedCur DEF SafeCalls
  <2>. QED
    BY <1>2, <2>1, Sizes DEF ReleaseInode, SetInode, RootStays, TypeOK
<1>3. CASE SyncInode
  BY <1>3, Sizes, Current DEF SyncInode, RootStays, TypeOK, Inode
<1>4. CASE CreateInode
  <2>1. PICK i \in Inodes, type \in {"file", "dir"} : TakeNumber(i) /\ mem' = [mem EXCEPT ![i].type = type]
    BY <1>4, Zenon DEF CreateInode
  <2>2. i # 0 /\ imap' = imap \cup {i}
    BY <2>1 DEF TakeNumber, RootStays
  <2>3. mem'[0] = mem[0]
    BY <2>1, <2>2, Sizes DEF TypeOK
  <2>. QED
    BY <1>4, <2>2, <2>3 DEF CreateInode, RootStays
<1>5. CASE NoInode
  BY <1>5 DEF NoInode, RootStays, disk
<1>6. CASE NoInodeBlock
  BY <1>6 DEF NoInodeBlock, Gone, RootStays, TakeNumber
<1>7. CASE Exit \/ AssertionFails
  BY <1>7 DEF Exit, AssertionFails, Gone, RootStays, disk
<1>. QED
  BY <1>1, <1>2, <1>3, <1>4, <1>5, <1>6, <1>7, NoLeftovers DEF Step
-----------------------------------------------------------------------------
\* A call that goes on is the same call.
LEMMA SameCall == todo' = todo => Cur' = Cur
BY DEF Cur

\* Where the process stands between two calls, and when it is gone.
LEMMA StandsAtReady ==
  ASSUME pc' = "ready", at' = 0
  PROVE  Stands'
BY DEF Stands, StandsInWrite, StandsInTrunc, StandsBetween, WriteSteps, TruncSteps

\* A process that is gone stands nowhere.
LEMMA StandsGone == ASSUME Gone PROVE Stands'
BY DEF Gone, Stands, StandsInWrite, StandsInTrunc, StandsBetween, WriteSteps, TruncSteps

\* The block that a write stores its data in is not the table that has its number.
LEMMA MappedStays ==
  ASSUME TypeOK, Stands, NoBlockTwice, StoreData
  PROVE  Mapped' = Mapped
<1>1. /\ todo # <<>> /\ pc = "store" /\ pc' = "csum" /\ todo' = todo /\ at' = at
      /\ Log < NrLogical
  BY DEF StoreData, Running, plan, Stands, StandsInWrite
<1>. PICK P \in SUBSET Inodes : P = Acting
  BY <1>1, CurActs
<1>. PICK j \in P : j = Cur.in
  BY <1>1, CurActs
<1>. PICK log \in Nat : log = Log
  BY <1>1, LogNat
<1>2. log \in Places /\ log # -1
  BY <1>1, PlacesInt DEF Places
<1>3. HeldAt(j, log)' = HeldAt(j, log)
  BY <1>1, <1>2, WriteKeepsHeld DEF NoBlockTwice
<1>4. Cur' = Cur /\ Log' = Log
  BY <1>1, SameCall DEF Log
<1>5. HeldAt(j, log) = Mapped
  BY <1>1, <1>2, Zenon DEF HeldAt, Table, Mapped, BlockAt, Inode, Loaded
<1>6. HeldAt(j, log)' = Mapped'
  <2>1. pc' \notin Loaded /\ Inode' = mem'[j]
    BY <1>1, <1>4 DEF Loaded, Inode
  <2>2. HeldAt(j, log)' = IF log < NrDirect THEN mem'[j].direct[log]
                          ELSE IF mem'[j].ind = 0 THEN 0 ELSE blk'[mem'[j].ind][log - NrDirect]
    BY <1>2, <2>1, Zenon DEF HeldAt, Table
  <2>3. Mapped' = IF log < NrDirect THEN mem'[j].direct[log]
                  ELSE IF mem'[j].ind = 0 THEN 0 ELSE blk'[mem'[j].ind][log - NrDirect]
    BY <1>4, <2>1, Zenon DEF Mapped, BlockAt
  <2>. QED
    BY <2>2, <2>3
<1>. QED
  BY <1>3, <1>5, <1>6

\* What a write sums is the block that it has just written.
LEMMA SumsMapped ==
  ASSUME Stands, StoreCsum \/ StoreLastCsum
  PROVE  /\ block_nr = Mapped /\ Mapped \in Phys /\ Mapped - DataStart < MaxCsums
         /\ summed' = summed \cup {Mapped}
<1>1. block_nr = Mapped
  BY DEF StoreCsum, StoreLastCsum, Running, Stands, StandsInWrite
<1>. QED
  BY <1>1 DEF StoreCsum, StoreLastCsum, WithSum

\* Where it stands in a write.
LEMMA StandsWrite ==
  ASSUME TypeOK, Planned, Stands, NoBlockTwice, FreeAreZero, WriteStep
  PROVE  Stands'
<1>0. /\ todo # <<>> /\ Cur.in \in Inodes /\ Inode \in Dinode /\ Inode = mem[Cur.in]
      /\ Cur.off \in Nat /\ Cur.n \in Nat /\ at \in Nat
  BY DataStepKeeps, Current DEF Inode, TypeOK
<1>1. CASE BeginWrite
  <2>1. Cur.op = "write" /\ pc = "ready" /\ Cur.off <= Inode.size
    BY <1>1 DEF BeginWrite, Running, Cur
  <2>2. at = 0 /\ Cur.n > 0
    BY <1>0, <2>1, PlannedCur DEF Stands, StandsBetween, SafeCalls
  <2>3. pc' = "map" /\ todo' = todo /\ mem' = mem /\ at' = at
    BY <1>1 DEF BeginWrite, plan, regs
  <2>. QED
    BY <1>0, <2>1, <2>2, <2>3, SameCall DEF Stands, StandsInWrite, StandsInTrunc,
       StandsBetween, WriteSteps, TruncSteps, Inode
<1>2. CASE MapExisting
  <2>1. Cur.op = "write" /\ pc = "map" /\ Log < NrLogical
    BY <1>2 DEF MapExisting, Running, Cur
  <2>2. pc' = "store" /\ todo' = todo /\ mem' = mem /\ at' = at
    BY <1>2 DEF MapExisting, plan, regs
  <2>. QED
    BY <1>0, <2>1, <2>2, SameCall DEF Stands, StandsInWrite, StandsInTrunc,
       StandsBetween, WriteSteps, TruncSteps, Inode, Log
<1>3. CASE MapDirect
  <2>1. Cur.op = "write" /\ pc = "map" /\ Log < NrDirect
    BY <1>3 DEF MapDirect, Running, Cur
  <2>2. /\ pc' = "store" /\ todo' = todo /\ at' = at
        /\ \E b : mem' = [mem EXCEPT ![Cur.in] = [Inode EXCEPT !.direct = b]]
    BY <1>3 DEF MapDirect, plan, SetInode
  <2>3. mem'[Cur.in].size = Inode.size
    BY <1>0, <2>2 DEF TypeOK, Dinode
  <2>4. Log < NrLogical
    BY <1>0, <2>1, LogNat, PlacesInt, Sizes
  <2>. QED
    BY <1>0, <2>1, <2>2, <2>3, <2>4, SameCall DEF Stands, StandsInWrite, StandsInTrunc,
       StandsBetween, WriteSteps, TruncSteps, Inode, Log
<1>4. CASE MapIndirect
  <2>1. Cur.op = "write" /\ pc = "map" /\ Log < NrLogical /\ NrDirect <= Log
    BY <1>4 DEF MapIndirect, Running, Cur
  <2>2. PICK b \in Phys : Alloc(b) /\ SetInode([Inode EXCEPT !.ind = b])
    BY <1>4 DEF MapIndirect
  <2>3. pc' = "child" /\ todo' = todo /\ at' = at /\ ibuf' = Zero /\ blk' = blk
    BY <1>4 DEF MapIndirect, plan
  <2>4. mem'[Cur.in].size = Inode.size /\ mem'[Cur.in].ind = b /\ b # 0
    BY <1>0, <2>2, Sizes DEF SetInode, TypeOK, Dinode
  <2>5. blk[b] = Zero
    BY <2>2, AllocMarks DEF FreeAreZero
  <2>6. Inode' = mem'[Cur.in] /\ Log' = Log /\ Cur' = Cur
    BY <2>3, SameCall DEF Inode, Log
  <2>7. Mapped' = 0
    <3>1. Log - NrDirect \in Cells /\ ~(Log < NrDirect)
      BY <1>0, <2>1, LogNat, PlacesInt, Sizes DEF Cells
    <3>2. Zero[Log - NrDirect] = 0
      BY <3>1 DEF Zero
    <3>. QED
      BY <2>3, <2>4, <2>5, <2>6, <3>1, <3>2 DEF Mapped, BlockAt
  <2>. QED
    BY <1>0, <2>1, <2>3, <2>4, <2>5, <2>6, <2>7 DEF Stands, StandsInWrite, StandsInTrunc,
       StandsBetween, WriteSteps, TruncSteps
<1>5. CASE ReadIndirect
  <2>1. /\ Cur.op = "write" /\ pc = "map" /\ Log < NrLogical /\ NrDirect <= Log
        /\ Inode.ind # 0 /\ Mapped = 0
    BY <1>5 DEF ReadIndirect, Running, Cur
  <2>2. /\ pc' = "child" /\ todo' = todo /\ mem' = mem /\ at' = at /\ blk' = blk
        /\ ibuf' = blk[Inode.ind]
    BY <1>5 DEF ReadIndirect, plan, disk
  <2>3. Inode' = Inode /\ Log' = Log /\ Cur' = Cur /\ Mapped' = Mapped
    BY <2>2, SameCall DEF Inode, Log, Mapped, BlockAt
  <2>. QED
    BY <1>0, <2>1, <2>2, <2>3 DEF Stands, StandsInWrite, StandsInTrunc,
       StandsBetween, WriteSteps, TruncSteps
<1>6. CASE MapChild \/ NoChild
  <2>1. Cur.op = "write" /\ pc = "child"
    BY <1>6 DEF MapChild, NoChild, Running, Cur
  <2>2. pc' = "indirect" /\ todo' = todo /\ mem' = mem /\ at' = at
    BY <1>6 DEF MapChild, NoChild, plan, regs, SetNoInode
  <2>. QED
    BY <1>0, <2>1, <2>2, SameCall DEF Stands, StandsInWrite, StandsInTrunc,
       StandsBetween, WriteSteps, TruncSteps, Inode, Log
<1>7. CASE WriteIndirect
  <2>1. Cur.op = "write" /\ pc = "indirect"
    BY <1>7 DEF WriteIndirect, Running, Cur
  <2>2. pc' = "store" /\ todo' = todo /\ mem' = mem /\ at' = at
    BY <1>7 DEF WriteIndirect, plan, SetNoInode
  <2>. QED
    BY <1>0, <2>1, <2>2, SameCall DEF Stands, StandsInWrite, StandsInTrunc,
       StandsBetween, WriteSteps, TruncSteps, Inode, Log
<1>8. CASE StoreData
  <2>1. Cur.op = "write" /\ pc = "store"
    BY <1>8 DEF StoreData, Running, Cur
  <2>2. pc' = "csum" /\ todo' = todo /\ mem' = mem /\ at' = at
    BY <1>8 DEF StoreData, plan, SetNoInode
  <2>3. block_nr' = Mapped'
    BY <1>8, MappedStays DEF StoreData
  <2>. QED
    BY <1>0, <2>1, <2>2, <2>3, SameCall DEF Stands, StandsInWrite, StandsInTrunc,
       StandsBetween, WriteSteps, TruncSteps, Inode, Log
<1>9. CASE StoreCsum
  <2>1. Cur.op = "write" /\ pc = "csum" /\ at + Copied < Cur.n
    BY <1>9 DEF StoreCsum, Running, Cur
  <2>2. pc' = "map" /\ todo' = todo /\ mem' = mem /\ at' = at + Copied
    BY <1>9 DEF StoreCsum, plan, SetNoInode, Advance
  <2>. QED
    BY <1>0, <2>1, <2>2, SameCall DEF Stands, StandsInWrite, StandsInTrunc,
       StandsBetween, WriteSteps, TruncSteps, Inode
<1>10. CASE MapFails \/ WriteIndirectFails \/ StoreLastCsum
  BY <1>10, StandsAtReady DEF MapFails, WriteIndirectFails, StoreLastCsum, Fail, Return
<1>. QED
  BY <1>1, <1>2, <1>3, <1>4, <1>5, <1>6, <1>7, <1>8, <1>9, <1>10 DEF WriteStep

\* And in a truncation.
LEMMA StandsTrunc ==
  ASSUME TypeOK, Stands, TruncStep
  PROVE  Stands'
<1>0. /\ todo # <<>> /\ Cur.in \in Inodes /\ Inode \in Dinode /\ Inode = mem[Cur.in]
      /\ Cur.off \in Nat /\ at \in Nat /\ First \in Nat /\ FirstChild \in Nat
      /\ NrDirect \in Nat
  <2>1. /\ todo # <<>> /\ Cur.in \in Inodes /\ Inode \in Dinode /\ Inode = mem[Cur.in]
        /\ Cur.off \in Nat /\ at \in Nat
    BY DataStepKeeps, Current DEF Inode, TypeOK
  <2>2. First \in Nat
    BY <2>1, BlocksNat DEF First
  <2>. QED
    BY <2>1, <2>2, Sizes DEF FirstChild, MaxOf
<1>1. CASE TruncNothing \/ TruncDirectOnly \/ UnmarkIndirect \/ KeepIndirect
  BY <1>1, StandsAtReady DEF TruncNothing, TruncDirectOnly, UnmarkIndirect, KeepIndirect, Return
<1>2. CASE BeginTrunc
  <2>1. Cur.op = "trunc" /\ Inode.size > Cur.off
    BY <1>2 DEF BeginTrunc, Running, Cur
  <2>2. pc' = "zero" /\ todo' = todo /\ mem' = mem /\ at' = First
    BY <1>2 DEF BeginTrunc, plan
  <2>3. Inode' = Inode /\ First' = First /\ Cur' = Cur
    BY <2>2, SameCall DEF Inode, First
  <2>4. First <= MaxOf(First, NrDirect) /\ Cur.off < Inode.size
    BY <1>0, <2>1 DEF MaxOf, Dinode
  <2>. QED
    BY <1>0, <2>1, <2>2, <2>3, <2>4 DEF Stands, StandsInWrite, StandsInTrunc,
       StandsBetween, WriteSteps, TruncSteps, MaxOf
<1>3. CASE ZeroDirect
  <2>1. /\ pc = "zero" /\ MoreDirect /\ Inode.direct[at] # 0
        /\ pc' = "unmark" /\ todo' = todo /\ mem' = mem /\ at' = at
    BY <1>3 DEF ZeroDirect, Running, plan, regs, SetNoInode
  <2>2. Inode' = Inode /\ First' = First /\ Cur' = Cur /\ MoreDirect' = MoreDirect
    BY <2>1, SameCall DEF Inode, First, MoreDirect, End
  <2>. QED
    BY <1>0, <2>1, <2>2 DEF Stands, StandsInWrite, StandsInTrunc,
       StandsBetween, WriteSteps, TruncSteps, MaxOf
<1>4. CASE UnmarkDirect
  <2>1. /\ pc = "unmark" /\ pc' = "zero" /\ todo' = todo /\ at' = at + 1
        /\ \E b : mem' = [mem EXCEPT ![Cur.in] = [Inode EXCEPT !.direct = b]]
    BY <1>4 DEF UnmarkDirect, Running, plan, SetInode
  <2>2. Inode'.size = Inode.size /\ First' = First /\ Cur' = Cur
    BY <1>0, <2>1, SameCall DEF Inode, First, TypeOK, Dinode
  <2>3. First <= at /\ at < NrDirect
    BY <2>1 DEF Stands, StandsInTrunc, MoreDirect
  <2>4. First <= at + 1 /\ at + 1 <= MaxOf(First, NrDirect)
    BY <1>0, <2>3 DEF MaxOf
  <2>. QED
    BY <1>0, <2>1, <2>2, <2>4 DEF Stands, StandsInWrite, StandsInTrunc,
       StandsBetween, WriteSteps, TruncSteps, MaxOf
<1>5. CASE LoadIndirect
  <2>1. /\ pc = "zero" /\ pc' = "zerochild" /\ todo' = todo /\ at' = FirstChild /\ mem' = mem
        /\ Inode.ind # 0
    BY <1>5 DEF LoadIndirect, Running, plan
  <2>2. Inode' = Inode /\ FirstChild' = FirstChild /\ Cur' = Cur
    BY <2>1, SameCall DEF Inode, FirstChild, First
  <2>. QED
    BY <1>0, <2>1, <2>2 DEF Stands, StandsInWrite, StandsInTrunc,
       StandsBetween, WriteSteps, TruncSteps
<1>6. CASE ZeroChild
  <2>1. /\ pc = "zerochild" /\ pc' = "unmarkchild" /\ todo' = todo /\ at' = at /\ mem' = mem
        /\ ibuf' = ibuf /\ MoreChildren /\ ibuf[at] \in Phys
    BY <1>6 DEF ZeroChild, Running, plan, regs, SetNoInode
  <2>2. /\ Inode' = Inode /\ FirstChild' = FirstChild /\ Cur' = Cur
        /\ MoreChildren' = MoreChildren
    BY <2>1, SameCall DEF Inode, FirstChild, First, MoreChildren, End
  <2>. QED
    BY <1>0, <2>1, <2>2 DEF Stands, StandsInWrite, StandsInTrunc,
       StandsBetween, WriteSteps, TruncSteps
<1>7. CASE UnmarkChild
  <2>1. /\ pc = "unmarkchild" /\ pc' = "zerochild" /\ todo' = todo /\ at' = at + 1
        /\ mem' = mem
    BY <1>7 DEF UnmarkChild, Running, plan, SetNoInode
  <2>2. Inode' = Inode /\ FirstChild' = FirstChild /\ Cur' = Cur
    BY <2>1, SameCall DEF Inode, FirstChild, First
  <2>3. FirstChild <= at + 1
    BY <1>0, <2>1 DEF Stands, StandsInTrunc
  <2>. QED
    BY <1>0, <2>1, <2>2, <2>3 DEF Stands, StandsInWrite, StandsInTrunc,
       StandsBetween, WriteSteps, TruncSteps
<1>8. CASE ZeroIndirect
  <2>1. /\ pc = "zerochild" /\ pc' = "unmarkindirect" /\ todo' = todo /\ at' = at
        /\ mem' = mem /\ First <= NrDirect
    BY <1>8 DEF ZeroIndirect, Running, plan, regs, SetNoInode
  <2>2. Inode' = Inode /\ FirstChild' = FirstChild /\ Cur' = Cur /\ First' = First
    BY <2>1, SameCall DEF Inode, FirstChild, First
  <2>. QED
    BY <1>0, <2>1, <2>2 DEF Stands, StandsInWrite, StandsInTrunc,
       StandsBetween, WriteSteps, TruncSteps
<1>. QED
  BY <1>1, <1>2, <1>3, <1>4, <1>5, <1>6, <1>7, <1>8 DEF TruncStep

\* And in every other step of the process.
LEMMA StandsStep ==
  ASSUME TypeOK, Planned, Stands, NoBlockTwice, FreeAreZero, Step
  PROVE  Stands'
<1>1. CASE ReleaseInode \/ SyncInode
  BY <1>1, StandsAtReady DEF ReleaseInode, SyncInode, Return
<1>2. CASE CreateInode \/ NoInode
  <2>1. pc = "create" /\ pc' = "ready" /\ at' = at
    BY <1>2 DEF CreateInode, NoInode, TakeNumber, regs
  <2>. QED
    BY <2>1, StandsAtReady DEF Stands, StandsBetween
<1>3. CASE NoInodeBlock \/ Exit \/ AssertionFails
  BY <1>3, StandsGone DEF NoInodeBlock, Exit, AssertionFails
<1>. QED
  BY <1>1, <1>2, <1>3, StandsWrite, StandsTrunc, NoLeftovers DEF Step
-----------------------------------------------------------------------------
\* A block that is about to lose its mark stays zero until it has lost it.
LEMMA ZeroedStep ==
  ASSUME TypeOK, Stands, Step
  PROVE  Zeroed'
<1>1. CASE ZeroDirect
  <2>1. /\ Cur.in \in Inodes /\ Inode \in Dinode /\ at \in Nat /\ todo' = todo
        /\ mem' = mem /\ at' = at /\ pc' = "unmark"
        /\ blk' = [blk EXCEPT ![Inode.direct[at]] = Zero]
        /\ Inode.direct[at] # 0 /\ at < NrDirect
    BY <1>1, Current DEF ZeroDirect, Running, plan, regs, SetNoInode, ZeroBlock, WriteBlock,
       MoreDirect, TypeOK
  <2>2. Inode.direct[at] \in Phys
    BY <2>1, DirectPlace DEF Dinode
  <2>3. Inode' = Inode
    BY <2>1, SameCall DEF Inode
  <2>. QED
    BY <2>1, <2>2, <2>3 DEF Zeroed, TypeOK
<1>2. CASE ZeroChild
  <2>1. /\ mem' = mem /\ at' = at /\ ibuf' = ibuf /\ pc' = "unmarkchild"
        /\ blk' = [blk EXCEPT ![ibuf[at]] = Zero]
        /\ ibuf[at] \in Phys
    BY <1>2 DEF ZeroChild, regs, SetNoInode, ZeroBlock, WriteBlock
  <2>. QED
    BY <2>1 DEF Zeroed, TypeOK
<1>3. CASE ZeroIndirect
  <2>1. /\ Cur.in \in Inodes /\ Inode \in Dinode /\ todo' = todo
        /\ mem' = mem /\ pc' = "unmarkindirect" /\ Inode.ind # 0
        /\ blk' = [blk EXCEPT ![Inode.ind] = Zero]
    BY <1>3, Current DEF ZeroIndirect, Running, plan, SetNoInode, ZeroBlock, WriteBlock,
       Stands, StandsInTrunc
  <2>2. Inode.ind \in Phys /\ Inode' = Inode
    BY <2>1, SameCall DEF Inode, Dinode
  <2>. QED
    BY <2>1, <2>2 DEF Zeroed, TypeOK
<1>4. CASE ~(ZeroDirect \/ ZeroChild \/ ZeroIndirect)
  <2>1. pc' \notin {"unmark", "unmarkchild", "unmarkindirect"}
    BY <1>4, NoLeftovers DEF Step, WriteStep, TruncStep, Return, Fail, Gone,
     BeginWrite, MapExisting, MapDirect, MapIndirect, ReadIndirect, MapChild, NoChild,
     WriteIndirect, MapFails, WriteIndirectFails, StoreData, StoreCsum, StoreLastCsum,
     TruncNothing, BeginTrunc, UnmarkDirect, TruncDirectOnly, LoadIndirect,
     UnmarkChild, UnmarkIndirect, KeepIndirect, ReleaseInode, SyncInode, CreateInode,
     NoInode, NoInodeBlock, Exit, AssertionFails
  <2>. QED
    BY <2>1 DEF Zeroed
<1>. QED
  BY <1>1, <1>2, <1>3, <1>4

\* What the current inode holds at the place that a write is at, and its indirect
\* block, are marked.
LEMMA CurOwned ==
  ASSUME TypeOK, NoBlockTwice, todo # <<>>
  PROVE  /\ Inode.ind # 0 => Inode.ind \in bmap
         /\ pc \notin Loaded /\ Log < NrLogical /\ Mapped # 0 => Mapped \in bmap
<1>. PICK j \in Acting : j = Cur.in
  BY CurActs
<1>. PICK log \in Nat : log = Log
  BY LogNat
<1>1. -1 \in Places /\ HeldAt(j, -1) = Inode.ind
  BY PlacesInt, HeldCases DEF Inode
<1>2. ASSUME pc \notin Loaded, log < NrLogical
      PROVE  log \in Places /\ HeldAt(j, log) = Mapped
  <2>1. log \in Places /\ log # -1
    BY <1>2, PlacesInt DEF Places
  <2>. QED
    BY <1>2, <2>1, Zenon DEF HeldAt, Table, Mapped, BlockAt, Inode
<1>. QED
  BY <1>1, <1>2 DEF NoBlockTwice, Owned

\* A block that is not marked is zero: it was when its mark was taken away, and only
\* blocks that are marked are written.
LEMMA FreeZeroStep ==
  ASSUME TypeOK, Stands, Zeroed, NoBlockTwice, FreeAreZero, Step
  PROVE  FreeAreZero'
<1>1. ASSUME NEW b \in bmap, NEW cells, WriteBlock(b, cells), bmap' = bmap
      PROVE  FreeAreZero'
  BY <1>1 DEF FreeAreZero, WriteBlock, TypeOK
<1>2. ASSUME NEW b, ZeroBlock(b), bmap' = bmap
      PROVE  FreeAreZero'
  BY <1>2 DEF FreeAreZero, ZeroBlock, WriteBlock, TypeOK
<1>3. ASSUME blk' = blk, bmap \subseteq bmap'
      PROVE  FreeAreZero'
  BY <1>3 DEF FreeAreZero
<1>4. ASSUME NEW b, blk[b] = Zero, blk' = blk, bmap' = bmap \ {b}
      PROVE  FreeAreZero'
  BY <1>4 DEF FreeAreZero
<1>5. CASE WriteIndirect \/ WriteIndirectFails \/ KeepIndirect
  <2>1. /\ todo # <<>> /\ Inode.ind # 0 /\ bmap' = bmap
        /\ WriteBlock(Inode.ind, ibuf)
    BY <1>5 DEF WriteIndirect, WriteIndirectFails, KeepIndirect, Running, Stands,
       StandsInWrite, StandsInTrunc
  <2>2. Inode.ind \in bmap
    BY <2>1, CurOwned
  <2>. QED
    BY <1>1, <2>1, <2>2
<1>6. CASE StoreData
  <2>1. /\ todo # <<>> /\ Mapped \in Phys /\ bmap' = bmap /\ pc \notin Loaded
        /\ Log < NrLogical
        /\ \E cells : WriteBlock(Mapped, cells)
    BY <1>6 DEF StoreData, Running, Loaded, Stands, StandsInWrite
  <2>2. Mapped \in bmap
    BY <2>1, CurOwned, Sizes
  <2>. QED
    BY <1>1, <2>1, <2>2
<1>7. CASE ZeroDirect \/ ZeroChild \/ ZeroIndirect
  BY <1>2, <1>7 DEF ZeroDirect, ZeroChild, ZeroIndirect
<1>8. CASE UnmarkDirect
  BY <1>4, <1>8 DEF UnmarkDirect, Running, Zeroed
<1>9. CASE UnmarkChild
  BY <1>4, <1>9 DEF UnmarkChild, Running, Zeroed
<1>10. CASE UnmarkIndirect
  BY <1>4, <1>10 DEF UnmarkIndirect, Running, Zeroed
<1>11. CASE MapDirect \/ MapIndirect \/ MapChild
  BY <1>3, <1>11 DEF MapDirect, MapIndirect, MapChild, Alloc, WithMark
<1>12. CASE \/ BeginWrite \/ MapExisting \/ ReadIndirect \/ NoChild \/ MapFails \/ StoreCsum
            \/ StoreLastCsum \/ TruncNothing \/ BeginTrunc \/ TruncDirectOnly \/ LoadIndirect
  BY <1>3, <1>12 DEF BeginWrite, MapExisting, ReadIndirect, NoChild, MapFails, StoreCsum,
     StoreLastCsum, TruncNothing, BeginTrunc, TruncDirectOnly, LoadIndirect, disk
<1>13. CASE \/ ReleaseInode \/ SyncInode \/ CreateInode \/ NoInode \/ NoInodeBlock \/ Exit
            \/ AssertionFails
  BY <1>3, <1>13 DEF ReleaseInode, SyncInode, CreateInode, NoInode, NoInodeBlock, Exit,
     AssertionFails, disk
<1>. QED
  BY <1>5, <1>6, <1>7, <1>8, <1>9, <1>10, <1>11, <1>12, <1>13, NoLeftovers
     DEF Step, WriteStep, TruncStep
-----------------------------------------------------------------------------
\* An inode that is created held nothing, one that is written or removed is reachable.
LEMMA CreateOwned ==
  ASSUME TypeOK, Stands, CreateInode
  PROVE  NoBlockTwice'
<1>1. PICK i \in Inodes, type \in {"file", "dir"}, k \in Nat :
        /\ TakeNumber(i) /\ i \notin imap
        /\ mem' = [mem EXCEPT ![i].type = type]
        /\ todo' = NewCalls(job.in, i, type, k)
        /\ onfail' = <<TruncCall(i, 0), ReleaseCall(i), SyncCall(i)>>
        /\ k \in Nat
  <2>1. \A n : \A k \in 0 .. n : k \in Nat
    OBVIOUS
  <2>. QED
    BY <2>1, NewInode DEF TakeNumber
<1>2. /\ pc = "create" /\ todo = <<>> /\ mem = dino /\ Intact /\ job.in \in Reachable
      /\ pc \notin Loaded
  BY DEF CreateInode, TakeNumber, Stands, StandsBetween, Loaded
<1>3. Reachable \subseteq Inodes /\ mem[i] = Blank
  BY <1>1, <1>2 DEF Reachable, Intact
<1>4. Owned(Reachable)
  BY <1>2, SoundOwned DEF Intact
<1>. PICK p \in Inodes : p = job.in
  BY <1>2, <1>3
<1>. PICK P \in SUBSET Inodes : P = Reachable \cup {i}
  BY <1>3
<1>5. Owned(P)'
  <2>1. Owned(P)
    BY <1>3, <1>4, BlankOwned
  <2>. QED
    BY <1>2, <2>1, OwnedStep
<1>6. Targets(NewCalls(p, i, type, k)) \subseteq {p, i}
  <2>. DEFINE S == {c \in Call : c.in \in {p, i}}
  <2>1. /\ \A off, n \in Nat, val \in Int :
             WriteCall(i, off, n, val) \in S /\ WriteCall(p, off, n, val) \in S
        /\ SyncCall(i) \in S /\ SyncCall(p) \in S
    BY CallsType DEF WriteCall, SyncCall
  <2>. HIDE DEF S
  <2>2. \A off \in Nat, e \in Int :
          WriteDirent(i, off, e) \in Seq(S) /\ WriteDirent(p, off, e) \in Seq(S)
    BY <2>1 DEF WriteDirent
  <2>3. i + 1 \in Int /\ p + 1 \in Int
    BY Sizes
  <2>4. NewCalls(p, i, type, k) \in Seq(S)
    <3>1. /\ WriteDirent(i, 0, i + 1) \in Seq(S) /\ WriteDirent(i, 1, p + 1) \in Seq(S)
          /\ WriteDirent(p, k, i + 1) \in Seq(S)
      BY <1>1, <2>2, <2>3
    <3>2. <<SyncCall(p), SyncCall(i)>> \in Seq(S)
      BY <2>1
    <3>. QED
      BY <3>1, <3>2 DEF NewCalls
  <2>5. \A c \in S : c.in \in {p, i}
    BY DEF S
  <2>. QED
    BY <2>4, <2>5 DEF Targets
<1>7. Targets(<<TruncCall(i, 0), ReleaseCall(i), SyncCall(i)>>) \subseteq {i}
  BY DEF Targets, TruncCall, ReleaseCall, SyncCall
<1>8. PICK Q \in SUBSET P : Q = Acting'
  <2>1. todo' = NewCalls(p, i, type, k)
    BY <1>1
  <2>2. Targets(todo)' \subseteq {p, i} /\ Targets(onfail)' \subseteq {i}
    BY <1>1, <1>6, <1>7, <2>1 DEF Targets
  <2>3. {p, i} \subseteq P
    BY <1>2
  <2>. QED
    BY <2>2, <2>3 DEF Acting
<1>. QED
  BY <1>5, <1>8, OwnedSubsetNext DEF NoBlockTwice, Owned

\* No step of a command makes two of its inodes hold the same block.
LEMMA OwnershipStep ==
  ASSUME TypeOK, Stands, NoBlockTwice, Step
  PROVE  NoBlockTwice'
<1>1. CASE WriteStep \/ TruncStep \/ ReleaseInode \/ SyncInode
  <2>1. todo # <<>>
    BY <1>1, DataStepKeeps DEF ReleaseInode, SyncInode, Running
  <2>. PICK P \in SUBSET Inodes : P = Acting
    BY <2>1, CurActs
  <2>2. Owned(P)'
    BY <1>1, <2>1, CurActs, OwnedStep DEF NoBlockTwice
  <2>3. PICK Q \in SUBSET P : Q = Acting'
    BY <1>1, ActingShrinks
  <2>. QED
    BY <2>2, <2>3, OwnedSubsetNext DEF NoBlockTwice, Owned
<1>2. CASE CreateInode
  BY <1>2, CreateOwned
<1>3. CASE NoInode
  <2>1. todo' = <<>> /\ onfail' = <<>>
    BY <1>3 DEF NoInode, Stands, StandsBetween
  <2>. QED
    BY <2>1 DEF NoBlockTwice, Acting, Targets, Owned
<1>4. CASE NoInodeBlock \/ Exit \/ AssertionFails
  <2>1. todo' = <<>> /\ onfail' = <<>>
    BY <1>4 DEF NoInodeBlock, Exit, AssertionFails, Gone
  <2>. QED
    BY <2>1 DEF NoBlockTwice, Acting, Targets, Owned
<1>. QED
  BY <1>1, <1>2, <1>3, <1>4, NoLeftovers DEF Step
-----------------------------------------------------------------------------
\* A command changes nothing but its plan when it starts.
LEMMA CommandStarts ==
  ASSUME Command, ~hurt'
  PROVE  /\ CanStart /\ Intact /\ UNCHANGED <<imap, bmap, dino, blk, summed, mem, dirty, at>>
         /\ pc' \in {"ready", "create"} /\ ret' = ret
BY DEF Command, StartWrite, StartCreate, StartRemove, Start, disk, regs

\* What is intact stays so while the disk is not written.
LEMMA SameDisk ==
  ASSUME UNCHANGED <<imap, bmap, dino, blk>>
  PROVE  Reachable' = Reachable /\ Intact' = Intact
<1>1. Reachable' = Reachable
  BY DEF Reachable, Children, LiveSlots, CellAt, BlockAt
<1>2. \A d : BlockAt(d, 0)' = BlockAt(d, 0)
  BY DEF BlockAt
<1>. QED
  BY <1>1 DEF Intact, Sound, Refs, RefAt, BlockAt, HasItsBlocks

\* What a command asks of the calls it starts with.
LEMMA CommandPlan ==
  ASSUME TypeOK, RootStays, Stands, Command, ~hurt'
  PROVE  Planned' /\ Acting' \subseteq Reachable
<1>0. /\ Reachable \subseteq Inodes /\ pc = "idle"
      /\ todo = <<>> /\ onfail = <<>> /\ dino[0].type = "dir" /\ 0 \in Reachable
  BY CommandStarts, Sizes DEF Reachable, CanStart, Stands, StandsBetween, RootStays
<1>e. \A S : <<>> \in Seq(S)
  OBVIOUS
<1>1. ASSUME NEW i \in Inodes, NEW off \in Offsets, NEW n \in Lengths, StartWrite(i, off, n)
      PROVE  Planned' /\ Acting' \subseteq Reachable
  <2>1. /\ todo' = <<WriteCall(i, off, n, ncmd + 1), TruncCall(i, off + n), SyncCall(i)>>
        /\ onfail' = <<SyncCall(i)>> /\ i \in Reachable
    BY <1>1 DEF StartWrite
  <2>2. off \in Nat /\ n \in Nat /\ n > 0 /\ off + n \in Nat /\ ncmd + 1 \in Int
    BY FileStoreAssumption DEF FileStoreAssumption, TypeOK
  <2>3. /\ WriteCall(i, off, n, ncmd + 1) \in SafeCalls /\ TruncCall(i, off + n) \in SafeCalls
        /\ SyncCall(i) \in FailCalls /\ SyncCall(i) \in SafeCalls
    BY <2>2, SafeCallTypes
  <2>4. Planned'
    BY <2>1, <2>3 DEF Planned
  <2>5. Acting' \subseteq Reachable
    BY <2>1 DEF Acting, Targets, WriteCall, TruncCall, SyncCall
  <2>. QED
    BY <2>4, <2>5
<1>2. ASSUME NEW op \in {"touch", "mkdir"}, NEW p \in Inodes, StartCreate(op, p)
      PROVE  Planned' /\ Acting' \subseteq Reachable
  BY <1>0, <1>e, <1>2 DEF StartCreate, Planned, Acting, Targets
<1>3. ASSUME NEW k \in 2 .. (NrLogical * BlockSize - 1), StartRemove(k)
      PROVE  Planned' /\ Acting' \subseteq Reachable
  <2>. PICK i \in Inodes : i = CellAt(dino[0], k) - 1
    BY <1>3 DEF StartRemove
  <2>1. /\ todo' = <<WriteCall(0, k, 1, Removed), TruncCall(i, 0), ReleaseCall(i),
                     SyncCall(i), SyncCall(0)>>
        /\ onfail' = <<>>
        /\ k \in LiveSlots(dino[0])
        /\ dino[i].type = "dir" => LiveSlots(dino[i]) = {}
    BY <1>3 DEF StartRemove, RemoveCalls
  <2>2. i # 0 /\ k \in Nat
    BY <1>0, <2>1
  <2>3. i \in Reachable
    <3>1. i \in Children(dino[0])
      BY <2>1 DEF Children
    <3>. QED
      BY <1>0, <3>1, Sizes DEF Reachable
  <2>4. /\ WriteCall(0, k, 1, Removed) \in SafeCalls /\ TruncCall(i, 0) \in SafeCalls
        /\ SyncCall(i) \in SafeCalls /\ SyncCall(0) \in SafeCalls
        /\ ReleaseCall(i) \in SafeCalls
    <3>1. Removed \in Int /\ 0 \in Inodes /\ 1 \in Nat /\ 0 \in Nat /\ 1 > 0
      BY Sizes DEF Removed
    <3>. QED
      BY <2>2, <3>1, SafeCallTypes
  <2>5. Planned'
    BY <1>e, <2>1, <2>4 DEF Planned
  <2>6. Acting' \subseteq Reachable
    BY <1>0, <2>1, <2>3 DEF Acting, Targets, WriteCall, TruncCall, SyncCall, ReleaseCall
  <2>. QED
    BY <2>5, <2>6
<1>. QED
  BY <1>1, <1>2, <1>3 DEF Command

\* A command starts with inodes that own what they hold.
LEMMA OwnershipCommand ==
  ASSUME TypeOK, Ownership, Command, ~hurt'
  PROVE  Ownership'
<1>1. /\ pc = "idle" /\ Intact /\ mem = dino /\ at = 0
      /\ UNCHANGED <<imap, bmap, dino, blk, mem, at>>
      /\ pc' \in {"ready", "create"}
  BY CommandStarts DEF CanStart, Ownership, Stands, StandsBetween
<1>2. Planned' /\ Acting' \subseteq Reachable
  BY CommandPlan DEF Ownership
<1>3. RootStays' /\ FreeAreZero' /\ Zeroed'
  BY <1>1 DEF Ownership, RootStays, FreeAreZero, Zeroed
<1>4. NoBlockTwice'
  <2>. PICK P \in SUBSET Inodes : P = Reachable
    BY DEF Reachable
  <2>1. Owned(P)
    BY <1>1, SoundOwned DEF Intact, Loaded
  <2>2. \A i \in P, s \in Places : HeldAt(i, s)' = HeldAt(i, s)
    BY <1>1, SameHeld DEF Table, Loaded
  <2>3. Owned(P)'
    BY <1>1, <2>1, <2>2, KeepsHeld
  <2>4. PICK Q \in SUBSET P : Q = Acting'
    BY <1>2
  <2>. QED
    BY <2>3, <2>4, OwnedSubsetNext DEF NoBlockTwice, Owned
<1>5. Stands'
  <2>1. CASE pc' = "ready"
    BY <1>1, <2>1, StandsAtReady
  <2>2. CASE pc' = "create"
    <3>1. PICK op \in {"touch", "mkdir"}, p \in Inodes : StartCreate(op, p)
      BY <2>2 DEF Command, StartWrite, StartRemove
    <3>2. /\ todo' = <<>> /\ onfail' = <<>> /\ dirty' = {} /\ mem' = dino' /\ at' = 0
          /\ job'.in \in Reachable /\ dino'[job'.in].type = "dir"
      BY <1>1, <3>1, CommandStarts DEF StartCreate, Start, Ownership, Stands, StandsBetween
    <3>3. Intact' /\ Reachable' = Reachable
      BY <1>1, SameDisk
    <3>. QED
      BY <2>2, <3>2, <3>3 DEF Stands, StandsInWrite, StandsInTrunc, StandsBetween,
         WriteSteps, TruncSteps
  <2>. QED
    BY <1>1, <2>1, <2>2
<1>. QED
  BY <1>2, <1>3, <1>4, <1>5 DEF Ownership

\* A process that is gone owns nothing; the free blocks stay as they were.
LEMMA OwnershipGone ==
  ASSUME RootStays, FreeAreZero, Gone, UNCHANGED <<bmap, blk, dino>>, imap \subseteq imap'
  PROVE  Ownership'
<1>1. todo' = <<>> /\ onfail' = <<>> /\ pc' = "idle" /\ mem' = dino
  BY DEF Gone
<1>2. \A S : <<>> \in Seq(S)
  OBVIOUS
<1>3. Planned' /\ NoBlockTwice'
  BY <1>1, <1>2 DEF Planned, NoBlockTwice, Acting, Targets, Owned
<1>4. RootStays' /\ FreeAreZero' /\ Zeroed'
  BY <1>1 DEF RootStays, FreeAreZero, Zeroed
<1>. QED
  BY <1>3, <1>4, StandsGone DEF Ownership

\* On the new image the root directory holds the one block that is marked.
LEMMA OwnershipInit == Init => Ownership
<1>. SUFFICES ASSUME Init PROVE Ownership
  OBVIOUS
<1>1. \A S : <<>> \in Seq(S)
  OBVIOUS
<1>2. Planned /\ NoBlockTwice /\ Zeroed
  BY <1>1 DEF Init, Planned, NoBlockTwice, Acting, Targets, Owned, Zeroed
<1>3. FreeAreZero
  BY DEF Init, FreeAreZero
<1>4. RootStays
  BY Sizes DEF Init, RootStays, RootInode, Blank
<1>5. Stands
  BY DEF Init, Stands, StandsInWrite, StandsInTrunc, StandsBetween, WriteSteps, TruncSteps
<1>. QED
  BY <1>2, <1>3, <1>4, <1>5 DEF Ownership

\* Every step of a process keeps its plan.
LEMMA PlanStep ==
  ASSUME TypeOK, Planned, RootStays, Stands, Step
  PROVE  Planned'
<1>e. \A S : <<>> \in Seq(S)
  OBVIOUS
<1>1. CASE CreateInode
  <2>1. PICK i \in Inodes, type \in {"file", "dir"}, k \in Nat :
          /\ i \notin imap
          /\ todo' = NewCalls(job.in, i, type, k)
          /\ onfail' = <<TruncCall(i, 0), ReleaseCall(i), SyncCall(i)>>
          /\ k \in Nat
    <3>1. \A n : \A k \in 0 .. n : k \in Nat
      OBVIOUS
    <3>. QED
      BY <1>1, <3>1, NewInode DEF TakeNumber
  <2>2. i # 0 /\ job.in \in Inodes
    BY <2>1 DEF RootStays, TypeOK, Job
  <2>3. todo' \in Seq(SafeCalls)
    BY <2>1, <2>2, NewCallsSafe
  <2>4. /\ TruncCall(i, 0) \in FailCalls /\ SyncCall(i) \in FailCalls
        /\ ReleaseCall(i) \in FailCalls
    BY <2>2, SafeCallTypes
  <2>. QED
    BY <2>1, <2>3, <2>4 DEF Planned
<1>2. CASE NoInode
  BY <1>2 DEF NoInode, Planned
<1>3. CASE NoInodeBlock \/ Exit \/ AssertionFails
  BY <1>e, <1>3 DEF NoInodeBlock, Exit, AssertionFails, Gone, Planned
<1>. QED
  BY <1>1, <1>2, <1>3, PlannedStep, NoLeftovers DEF Step

\* Through every command, failure and crash.
LEMMA OwnershipNext == ASSUME TypeOK, Ownership, Next, ~hurt' PROVE Ownership'
<1>1. CASE Command
  BY <1>1, OwnershipCommand
<1>2. CASE Step
  BY <1>2, PlanStep, StandsStep, ZeroedStep, RootStep, OwnershipStep, FreeZeroStep
     DEF Ownership
<1>3. CASE Crash
  BY <1>3, OwnershipGone DEF Crash, Ownership, disk
<1>. QED
  BY <1>1, <1>2, <1>3 DEF Next

\* A step that changes nothing keeps it.
LEMMA OwnershipSame == ASSUME Ownership, UNCHANGED vars PROVE Ownership'
<1>1. UNCHANGED <<imap, bmap, dino, blk, mem, dirty, pc, todo, onfail, at, ibuf, job>>
  BY DEF vars, disk, plan, regs, command
<1>. UNCHANGED block_nr
  BY DEF vars, regs
<1>2. Reachable' = Reachable /\ Intact' = Intact
  BY <1>1, SameDisk
<1>3. Planned' /\ RootStays' /\ Zeroed' /\ FreeAreZero'
  BY <1>1 DEF Ownership, Planned, RootStays, Zeroed, FreeAreZero, Inode, Cur
<1>4. Stands'
  <2>1. StandsBetween'
    BY <1>1, <1>2 DEF Ownership, Stands, StandsBetween
  <2>2. StandsInWrite'
    BY <1>1 DEF Ownership, Stands, StandsInWrite, Inode, Cur, Log, Mapped, BlockAt
  <2>3. StandsInTrunc'
    BY <1>1 DEF Ownership, Stands, StandsInTrunc, Inode, Cur, First, FirstChild, MoreDirect,
       MoreChildren, End
  <2>. QED
    BY <2>1, <2>2, <2>3 DEF Stands
<1>5. NoBlockTwice'
  BY <1>1 DEF Ownership, NoBlockTwice, Owned, Acting, Targets, HeldAt, Table, Cur
<1>. QED
  BY <1>3, <1>4, <1>5 DEF Ownership

\* A write and a truncation have no part in that.
LEMMA DataStepHurt == ASSUME WriteStep \/ TruncStep PROVE hurt' = hurt
BY DEF WriteStep, TruncStep, command,
   BeginWrite, MapExisting, MapDirect, MapIndirect, ReadIndirect, MapChild, NoChild,
   WriteIndirect, MapFails, WriteIndirectFails, StoreData, StoreCsum, StoreLastCsum,
   TruncNothing, BeginTrunc, ZeroDirect, UnmarkDirect, TruncDirectOnly, LoadIndirect,
   ZeroChild, UnmarkChild, ZeroIndirect, UnmarkIndirect, KeepIndirect

\* A process that is hurt stays so.
LEMMA HurtStays == ASSUME Next PROVE hurt => hurt'
BY DataStepHurt, Zenon DEF Next, Step, Command, StartWrite, StartCreate, StartRemove, Start,
   ReleaseInode, SyncInode, CreateInode, NoInode, NoInodeBlock, LeftoversAssert,
   LeftoversExist, Exit, AssertionFails, Crash, Gone, command

\* As long as no command has started on a damaged image, the process knows where it stands
\* and what it holds, whatever happens to it.
THEOREM OwnershipInvariant == Spec => [](hurt \/ Ownership)
<1>1. Init => Ownership
  BY OwnershipInit
<1>2. TypeOK /\ (hurt \/ Ownership) /\ [Next]_vars => (hurt \/ Ownership)'
  <2>1. ASSUME UNCHANGED vars PROVE hurt' = hurt
    BY <2>1 DEF vars, command
  <2>. QED
    BY <2>1, OwnershipNext, OwnershipSame, HurtStays
<1>. QED
  BY <1>1, <1>2, TypeCorrect, PTL DEF Spec

\* No block is ever handed out that a file still has, and what is handed out is zero:
\* a file never shows what an old one held, though testfs_alloc_block clears only the
\* caller's buffer and testfs_alloc_block_indirect writes no empty indirect block.  It is
\* so until a command starts on a damaged image.
THEOREM FreeIsZero == Spec => []FreeBlocksAreZero
<1>1. hurt \/ Ownership => FreeBlocksAreZero
  BY DEF Ownership, FreeAreZero, FreeBlocksAreZero
<1>. QED
  BY <1>1, OwnershipInvariant, PTL

\* While a command runs, no two of its inodes hold the same block, and what they hold
\* is marked on the disk, after any number of crashes, until a command starts on an image
\* that one of them has damaged.
THEOREM HeldOnce == Spec => []NothingHeldTwice
<1>1. hurt \/ Ownership => NothingHeldTwice
  BY DEF Ownership, NothingHeldTwice
<1>. QED
  BY <1>1, OwnershipInvariant, PTL
==============================================================================
