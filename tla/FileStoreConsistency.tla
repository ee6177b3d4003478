------------------------ MODULE FileStoreConsistency ------------------------
(***************************************************************************)
(* That a command keeps to its plan, step by step, and with it the tree on *)
(* the disk: the steps of the calls, the start of a command and the end of *)
(* a process keep FileStoreInv's Consistent, which is an invariant.       *)
(***************************************************************************)
EXTENDS FileStoreDisk
-----------------------------------------------------------------------------
(* The call a command is at, and those it has left.                        *)

\* The current call is the first of those that are left.
LEMMA CurFirst ==
  ASSUME TypeOK, todo # <<>>
  PROVE  Cur = todo[1] /\ Len(todo) \in Nat /\ Len(todo) >= 1
<1>1. todo \in Seq(Call)
  BY DEF TypeOK
<1>. QED
  BY <1>1 DEF Cur

\* The calls that are told apart by their operation and their inode.
LEMMA CallOps ==
  /\ \A i : SyncCall(i).op = "sync" /\ SyncCall(i).in = i
  /\ \A i : ReleaseCall(i).op = "release" /\ ReleaseCall(i).in = i
  /\ \A i, n : TruncCall(i, n).op = "trunc" /\ TruncCall(i, n).in = i /\ TruncCall(i, n).off = n
  /\ \A i, j : SyncCall(i) = SyncCall(j) => i = j
BY DEF SyncCall, ReleaseCall, TruncCall

\* Where in its plan a command writes.
LEMMA WritePlan ==
  ASSUME TypeOK, Doing, todo # <<>>, Cur.op = "write"
  PROVE  \E i \in Inodes :
           \/ Writing(i) /\ Len(todo) = 3 /\ Cur.in = i
           \/ Removing(i) /\ Len(todo) = 5 /\ Cur.in = 0 /\ Cur.n = 1 /\ Cur.val = Removed
           \/ \E p \in Inodes :
                /\ Creating(p, i) /\ Len(todo) >= 3 /\ Cur.n = 1
                /\ \/ Len(todo) = 3 /\ Cur.in = p /\ Cur.val = i + 1
                   \/ Len(todo) > 3 /\ Cur.in = i /\ Cur.off < 2
                   \/ Len(todo) > 3 /\ Cur.in = p /\ Cur.val = 0
<1>. PICK m \in Nat : m = Len(todo) /\ m >= 1 /\ Cur = todo[1]
  BY CurFirst
<1>1. CASE StandsStill
  BY <1>1 DEF StandsStill
<1>2. ASSUME NEW i \in Inodes, Writing(i)
      PROVE  Len(todo) = 3 /\ Cur.in = i
  BY <1>2, CallOps DEF Writing, Is
<1>3. ASSUME NEW i \in Inodes, Removing(i)
      PROVE  Len(todo) = 5 /\ Cur.in = 0 /\ Cur.n = 1 /\ Cur.val = Removed
  <2>1. m # 1 /\ m # 2 /\ m # 3 /\ m # 4
    BY <1>3, CallOps DEF Removing
  <2>. QED
    BY <1>3, <2>1, SMTT(30) DEF Removing, Is
<1>4. ASSUME NEW i \in Inodes, Undoing(i)
      PROVE  FALSE
  BY <1>4, CallOps DEF Undoing
<1>5. ASSUME NEW i \in Inodes, NEW p \in Inodes, Creating(p, i)
      PROVE  /\ Len(todo) >= 3 /\ Cur.n = 1
             /\ \/ Len(todo) = 3 /\ Cur.in = p /\ Cur.val = i + 1
                \/ Len(todo) > 3 /\ Cur.in = i /\ Cur.off < 2
                \/ Len(todo) > 3 /\ Cur.in = p /\ Cur.val = 0
  <2>1. m # 1 /\ m # 2
    BY <1>5, CallOps DEF Creating
  <2>2. CASE m = 3
    BY <1>5, <2>2 DEF Creating, Is
  <2>3. CASE m > 3
    <3>1. 1 \in 1 .. (m - 3)
      BY <2>3
    <3>. QED
      BY <1>5, <2>3, <3>1 DEF Creating, Is
  <2>. QED
    BY <2>1, <2>2, <2>3
<1>. QED
  BY <1>1, <1>2, <1>3, <1>4, <1>5 DEF Doing

\* Where in its plan a command cuts an inode back.
LEMMA TruncPlan ==
  ASSUME TypeOK, Doing, todo # <<>>, Cur.op = "trunc"
  PROVE  \/ StandsStill
         \/ \E i \in Inodes :
              \/ Writing(i) /\ Len(todo) = 2 /\ Cur.in = i
              \/ Removing(i) /\ Len(todo) = 4 /\ Cur.in = i
              \/ Undoing(i) /\ Len(todo) = 3 /\ Cur.in = i
              \/ /\ Undoing(i) /\ Len(todo) = 4
                 /\ Cur.in = i \/ (pc = "ready" /\ Inode.size <= Cur.off)
<1>. PICK m \in Nat : m = Len(todo) /\ m >= 1 /\ Cur = todo[1]
  BY CurFirst
<1>2. ASSUME NEW i \in Inodes, Writing(i)
      PROVE  Len(todo) = 2 /\ Cur.in = i
  BY <1>2, CallOps DEF Writing, Is
<1>3. ASSUME NEW i \in Inodes, Removing(i)
      PROVE  Len(todo) = 4 /\ Cur.in = i
  <2>1. m # 1 /\ m # 2 /\ m # 3 /\ m # 5
    BY <1>3, CallOps, SMTT(30) DEF Removing, Is
  <2>. QED
    BY <1>3, <2>1, CallOps, SMTT(30) DEF Removing
<1>4. ASSUME NEW i \in Inodes, Undoing(i)
      PROVE  \/ Len(todo) = 3 /\ Cur.in = i
             \/ Len(todo) = 4 /\ (Cur.in = i \/ (pc = "ready" /\ Inode.size <= Cur.off))
  BY <1>4, CallOps DEF Undoing
<1>5. ASSUME NEW i \in Inodes, NEW p \in Inodes, Creating(p, i)
      PROVE  FALSE
  <2>1. m # 1 /\ m # 2 /\ m # 3
    BY <1>5, CallOps DEF Creating, Is
  <2>2. 1 \in 1 .. (m - 3)
    BY <2>1
  <2>. QED
    BY <1>5, <2>2 DEF Creating, Is
<1>. QED
  BY <1>2, <1>3, <1>4, <1>5 DEF Doing

\* Where in its plan a command gives a number back.
LEMMA ReleasePlan ==
  ASSUME TypeOK, Doing, todo # <<>>, Cur.op = "release"
  PROVE  \E i \in Inodes : /\ Cur.in = i
                           /\ \/ Removing(i) /\ Len(todo) = 3
                              \/ Undoing(i) /\ Len(todo) = 2
<1>. PICK m \in Nat : m = Len(todo) /\ m >= 1 /\ Cur = todo[1]
  BY CurFirst
<1>1. ~StandsStill
  BY DEF StandsStill
<1>2. ASSUME NEW i \in Inodes, Writing(i)
      PROVE  FALSE
  BY <1>2, CallOps DEF Writing, Is
<1>3. ASSUME NEW i \in Inodes, Removing(i)
      PROVE  Len(todo) = 3 /\ Cur.in = i
  <2>1. m # 1 /\ m # 2
    BY <1>3, CallOps DEF Removing
  <2>2. m # 4
    BY <1>3, CallOps DEF Removing
  <2>3. m # 5
    BY <1>3 DEF Removing, Is
  <2>4. m \in 1 .. 5
    BY <1>3 DEF Removing
  <2>5. m = 3
    BY <2>1, <2>2, <2>3, <2>4
  <2>. QED
    BY <1>3, <2>5, CallOps DEF Removing
<1>4. ASSUME NEW i \in Inodes, Undoing(i)
      PROVE  Len(todo) = 2 /\ Cur.in = i
  BY <1>4, CallOps DEF Undoing
<1>5. ASSUME NEW i \in Inodes, NEW p \in Inodes, Creating(p, i)
      PROVE  FALSE
  <2>1. m # 1 /\ m # 2 /\ m # 3
    BY <1>5, CallOps DEF Creating, Is
  <2>2. 1 \in 1 .. (m - 3)
    BY <2>1
  <2>. QED
    BY <1>5, <2>2 DEF Creating, Is
<1>. QED
  BY <1>1, <1>2, <1>3, <1>4, <1>5 DEF Doing

\* Where in its plan a command writes an inode.
LEMMA SyncPlan ==
  ASSUME TypeOK, Doing, todo # <<>>, Cur.op = "sync"
  PROVE  \E i \in Inodes :
           \/ Writing(i) /\ Len(todo) = 1 /\ Cur.in = i
           \/ Removing(i) /\ Len(todo) = 1 /\ Cur.in = 0
           \/ Removing(i) /\ Len(todo) = 2 /\ Cur.in = i
           \/ Undoing(i) /\ Len(todo) = 1 /\ Cur.in = i
           \/ \E p \in Inodes : /\ Creating(p, i)
                                /\ \/ Len(todo) = 1 /\ Cur.in = i
                                   \/ Len(todo) = 2 /\ Cur.in = p
<1>. PICK m \in Nat : m = Len(todo) /\ m >= 1 /\ Cur = todo[1]
  BY CurFirst
<1>1. ~StandsStill
  BY DEF StandsStill
<1>2. ASSUME NEW i \in Inodes, Writing(i)
      PROVE  Len(todo) = 1 /\ Cur.in = i
  BY <1>2, CallOps DEF Writing, Is
<1>3. ASSUME NEW i \in Inodes, Removing(i)
      PROVE  (Len(todo) = 1 /\ Cur.in = 0) \/ (Len(todo) = 2 /\ Cur.in = i)
  <2>1. m # 3 /\ m # 4 /\ m # 5
    BY <1>3, CallOps DEF Removing, Is
  <2>2. m \in {1, 2}
    BY <1>3, <2>1, SMTT(30) DEF Removing
  <2>. QED
    BY <1>3, <2>2, CallOps DEF Removing
<1>4. ASSUME NEW i \in Inodes, Undoing(i)
      PROVE  Len(todo) = 1 /\ Cur.in = i
  BY <1>4, CallOps DEF Undoing
<1>5. ASSUME NEW i \in Inodes, NEW p \in Inodes, Creating(p, i)
      PROVE  (Len(todo) = 1 /\ Cur.in = i) \/ (Len(todo) = 2 /\ Cur.in = p)
  <2>1. m # 3
    BY <1>5, CallOps DEF Creating, Is
  <2>2. ~(m > 3)
    <3>. SUFFICES ASSUME m > 3 PROVE FALSE
      OBVIOUS
    <3>1. 1 \in 1 .. (m - 3)
      OBVIOUS
    <3>. QED
      BY <1>5, <3>1 DEF Creating, Is
  <2>. QED
    BY <1>5, <2>1, <2>2, CallOps DEF Creating
<1>. QED
  BY <1>1, <1>2, <1>3, <1>4, <1>5 DEF Doing
-----------------------------------------------------------------------------
(* What a write or a truncation may do to a directory.                     *)

\* A data step is a step of a write or of a truncation.
LEMMA DataCall ==
  ASSUME TypeOK, WriteStep \/ TruncStep
  PROVE  /\ todo # <<>> /\ Cur.in \in Inodes
         /\ WriteStep => Cur.op = "write" /\ ~TruncStep
         /\ TruncStep => Cur.op = "trunc"
         /\ TruncStep /\ pc = "ready" => BeginTrunc \/ TruncNothing
<1>1. todo # <<>> /\ Cur.in \in Inodes
  BY DataStepKeeps, Current
<1>2. WriteStep => Cur.op = "write"
  BY DEF WriteStep, BeginWrite, MapExisting, MapDirect, MapIndirect, ReadIndirect, MapChild,
     NoChild, WriteIndirect, MapFails, WriteIndirectFails, StoreData, StoreCsum, StoreLastCsum,
     Running, Cur
<1>3. TruncStep => Cur.op = "trunc"
  BY DEF TruncStep, TruncNothing, BeginTrunc, ZeroDirect, UnmarkDirect, TruncDirectOnly,
     LoadIndirect, ZeroChild, UnmarkChild, ZeroIndirect, UnmarkIndirect, KeepIndirect,
     Running, Cur
<1>4. TruncStep /\ pc = "ready" => BeginTrunc \/ TruncNothing
  BY DEF TruncStep, ZeroDirect, UnmarkDirect, TruncDirectOnly,
     LoadIndirect, ZeroChild, UnmarkChild, ZeroIndirect, UnmarkIndirect, KeepIndirect, Running
<1>. QED
  BY <1>1, <1>2, <1>3, <1>4

\* What is left of a removal, and the inode that is removed.
LEMMA RemovingLeft ==
  ASSUME NEW i, Removing(i), NEW m \in Nat, m = Len(todo)
  PROVE  /\ m \in 1 .. 5 /\ i # 0 /\ todo[m] = SyncCall(0)
         /\ m >= 2 => todo[m - 1] = SyncCall(i)
         /\ m >= 3 => todo[m - 2] = ReleaseCall(i) /\ i \in imap
         /\ m >= 4 => todo[m - 3] = TruncCall(i, 0)
         /\ m = 5 => Is(Cur, "write", 0) /\ Cur.n = 1 /\ Cur.val = Removed /\ onfail = <<>>
         /\ m = 5 /\ pc # "csum" => Cur.off \in Known(0) /\ MemCell(0, Cur.off) = i + 1
         /\ m >= 2 /\ (m < 5 \/ pc = "csum") => ~Named(i)
         /\ m < 5 => 0 \in dirty
         /\ m = 2 => i \in dirty
<1>1. /\ m \in 1 .. 5 /\ i # 0 /\ todo[m] = SyncCall(0)
      /\ m >= 2 => todo[m - 1] = SyncCall(i)
      /\ m >= 3 => todo[m - 2] = ReleaseCall(i) /\ i \in imap
      /\ m >= 4 => todo[m - 3] = TruncCall(i, 0)
      /\ m = 5 => Is(Cur, "write", 0) /\ Cur.n = 1 /\ Cur.val = Removed /\ onfail = <<>>
      /\ m < 5 => 0 \in dirty
      /\ m = 2 => i \in dirty
  BY Zenon DEF Removing
<1>2. IF m = 5 /\ pc # "csum" THEN Cur.off \in Known(0) /\ MemCell(0, Cur.off) = i + 1
                               ELSE m >= 2 => ~Named(i)
  BY Zenon DEF Removing
<1>3. CASE m = 5 /\ pc # "csum"
  BY <1>1, <1>2, <1>3
<1>4. CASE ~(m = 5 /\ pc # "csum")
  <2>1. m >= 2 => ~Named(i)
    BY <1>2, <1>4, Zenon
  <2>. QED
    BY <1>1, <1>4, <2>1
<1>. QED
  BY <1>3, <1>4

\* Sizes are numbers.
LEMMA SizeNat == ASSUME TypeOK, NEW i \in Inodes PROVE mem[i].size \in Nat /\ dino[i].size \in Nat
BY DEF TypeOK, Dinode

\* Nothing but a directory entry is written to a directory, one cell at a time.
LEMMA DirWrite ==
  ASSUME TypeOK, Doing, DirsKept, WriteStep, Cur.in \in Dirs
  PROVE  Cur.n = 1
<1>1. todo # <<>> /\ Cur.op = "write"
  BY DataCall
<1>. PICK i \in Inodes :
       \/ Writing(i) /\ Len(todo) = 3 /\ Cur.in = i
       \/ Removing(i) /\ Len(todo) = 5 /\ Cur.in = 0 /\ Cur.n = 1 /\ Cur.val = Removed
       \/ \E p \in Inodes : /\ Creating(p, i) /\ Len(todo) >= 3 /\ Cur.n = 1
  BY <1>1, WritePlan
<1>2. ~(Writing(i) /\ Cur.in = i)
  BY DEF Writing, DirsKept
<1>. QED
  BY <1>2

\* A step of a truncation that does something is of an inode that has its number still,
\* that no path leads to if it is a directory, and that is written afterwards.
LEMMA TruncOf ==
  ASSUME TypeOK, Stands, Doing, DirsKept, TruncStep, ~TruncNothing
  PROVE  Cur.in \notin Dirs /\ Cur.in \in imap /\ Closing(Cur.in)
<1>1. todo # <<>> /\ Cur.op = "trunc" /\ Cur.in \in Inodes
  BY DataCall
<1>2. ~(pc = "ready" /\ Inode.size <= Cur.off)
  <2>. SUFFICES ASSUME pc = "ready", Inode.size <= Cur.off PROVE FALSE
    OBVIOUS
  <2>1. BeginTrunc
    BY DataCall
  <2>2. Inode.size > Cur.off
    BY <2>1 DEF BeginTrunc
  <2>. QED
    BY <1>1, <2>2, Current, SizeNat DEF Inode
<1>. PICK i \in Inodes :
              \/ Writing(i) /\ Len(todo) = 2 /\ Cur.in = i
              \/ Removing(i) /\ Len(todo) = 4 /\ Cur.in = i
              \/ Undoing(i) /\ Len(todo) \in {3, 4} /\ Cur.in = i
  BY <1>1, <1>2, TruncPlan DEF StandsStill
<1>. PICK m \in Nat : m = Len(todo)
  BY <1>1, CurFirst
<1>3. Cur.in = i /\ i \in imap
  BY RemovingLeft DEF Writing, Undoing
<1>4. i \notin Dirs
  <2>1. CASE Writing(i)
    BY <2>1 DEF Writing, DirsKept
  <2>2. CASE (Removing(i) /\ Len(todo) = 4) \/ Undoing(i)
    <3>1. ~Named(i) /\ i # 0
      <4>1. CASE Removing(i) /\ m = 4
        BY <4>1, RemovingLeft
      <4>2. CASE Undoing(i)
        BY <4>2 DEF Undoing
      <4>. QED
        BY <2>2, <4>1, <4>2
    <3>2. i \notin Reachable
      BY <3>1, ReachableNamed
    <3>. QED
      BY <3>2 DEF Dirs
  <2>. QED
    BY <2>1, <2>2
<1>5. \E k \in DOMAIN todo : todo[k] = SyncCall(i)
  <2>. DOMAIN todo = 1 .. m
    BY DEF TypeOK
  <2>1. CASE Writing(i) /\ m = 2
    BY <2>1 DEF Writing
  <2>2. CASE Removing(i) /\ m = 4
    <3>1. todo[3] = SyncCall(i) /\ 3 \in DOMAIN todo
      BY <2>2, RemovingLeft
    <3>. QED
      BY <3>1
  <2>3. CASE Undoing(i) /\ m \in {3, 4}
    BY <2>3 DEF Undoing
  <2>. QED
    BY <2>1, <2>2, <2>3
<1>. QED
  BY <1>1, <1>3, <1>4, <1>5 DEF Closing, Window

\* A write is of an inode that has its number.
LEMMA WriteOf ==
  ASSUME TypeOK, RootStays, Doing, WriteStep
  PROVE  Cur.in \in imap
<1>1. todo # <<>> /\ Cur.op = "write"
  BY DataCall
<1>. PICK i \in Inodes :
       \/ Writing(i) /\ Len(todo) = 3 /\ Cur.in = i
       \/ Removing(i) /\ Len(todo) = 5 /\ Cur.in = 0
       \/ \E p \in Inodes : /\ Creating(p, i)
                            /\ Cur.in \in {p, i}
  <2>1. \E i \in Inodes :
           \/ Writing(i) /\ Len(todo) = 3 /\ Cur.in = i
           \/ Removing(i) /\ Len(todo) = 5 /\ Cur.in = 0 /\ Cur.n = 1 /\ Cur.val = Removed
           \/ \E p \in Inodes :
                /\ Creating(p, i) /\ Len(todo) >= 3 /\ Cur.n = 1
                /\ \/ Len(todo) = 3 /\ Cur.in = p /\ Cur.val = i + 1
                   \/ Len(todo) > 3 /\ Cur.in = i /\ Cur.off < 2
                   \/ Len(todo) > 3 /\ Cur.in = p /\ Cur.val = 0
    BY <1>1, WritePlan
  <2>. QED
    BY <2>1
<1>. QED
  BY DEF Writing, Creating, RootStays

\* The name that is stored in a directory is that of the inode being made, which has no
\* other, and which is written when the directory is.
LEMMA StoresName ==
  ASSUME TypeOK, Stands, RootStays, Doing, DirsKept, StoreData, Cur.in \in Dirs, Cur.val > 0
  PROVE  \E x \in Inodes : /\ Cur.val = x + 1 /\ Cur.val - 1 = x /\ x \in imap /\ x # 0
                           /\ ~Named(x) /\ NewName(Cur.in, x) /\ x \in Acting
<1>1. todo # <<>> /\ Cur.op = "write" /\ pc = "store"
  BY DataCall DEF WriteStep, StoreData, Running
<1>. PICK i \in Inodes :
       \/ Writing(i) /\ Len(todo) = 3 /\ Cur.in = i
       \/ Removing(i) /\ Len(todo) = 5 /\ Cur.val = Removed
       \/ \E p \in Inodes :
            /\ Creating(p, i) /\ Len(todo) >= 3
            /\ \/ Len(todo) = 3 /\ Cur.in = p /\ Cur.val = i + 1
               \/ Cur.in = i
               \/ Cur.val = 0
  <2>1. \E i \in Inodes :
           \/ Writing(i) /\ Len(todo) = 3 /\ Cur.in = i
           \/ Removing(i) /\ Len(todo) = 5 /\ Cur.in = 0 /\ Cur.n = 1 /\ Cur.val = Removed
           \/ \E p \in Inodes :
                /\ Creating(p, i) /\ Len(todo) >= 3 /\ Cur.n = 1
                /\ \/ Len(todo) = 3 /\ Cur.in = p /\ Cur.val = i + 1
                   \/ Len(todo) > 3 /\ Cur.in = i /\ Cur.off < 2
                   \/ Len(todo) > 3 /\ Cur.in = p /\ Cur.val = 0
    BY <1>1, WritePlan
  <2>. QED
    BY <2>1
<1>2. ~(Writing(i) /\ Cur.in = i)
  BY DEF Writing, DirsKept
<1>3. Cur.val # Removed /\ Cur.val # 0
  BY DEF Removed
<1>. PICK p \in Inodes : Creating(p, i) /\ (Cur.in = i \/ (Len(todo) = 3 /\ Cur.in = p /\ Cur.val = i + 1))
  BY <1>2, <1>3
<1>4. dino[i] = Blank /\ i \in imap /\ i # 0
  BY DEF Creating
<1>5. Cur.in # i
  BY <1>4 DEF Blank, Dirs
<1>6. ~Named(i) /\ todo[2] = SyncCall(p) /\ todo[3] = SyncCall(i)
  BY <1>1, <1>5 DEF Creating
<1>7. NewName(p, i)
  BY <1>4, <1>5, <1>6 DEF NewName
<1>8. i \in Acting
  <2>1. 3 \in DOMAIN todo
    BY <1>5 DEF TypeOK
  <2>. QED
    BY <1>6, <2>1, CallOps DEF Acting, Targets
<1>. QED
  BY <1>4, <1>5, <1>6, <1>7, <1>8, Sizes
-----------------------------------------------------------------------------
(* The names in the directories, when a write or a truncation makes a step.*)

\* A command runs, and the invariants hold.
Busy == TypeOK /\ Ownership /\ Consistent /\ pc # "idle"

\* What is known while a process runs.
LEMMA BusyFacts ==
  ASSUME Busy
  PROVE  /\ TypeOK /\ Planned /\ Stands /\ RootStays /\ FreeAreZero
         /\ DirsKept /\ NamesSound /\ Doing /\ Typed
         /\ Owned(Live) /\ Filled(Live) /\ DiskBehind /\ UnmarkedBlank
         /\ Live \subseteq Inodes /\ Acting \subseteq Live /\ Reachable \subseteq Live
         /\ Dirs \subseteq Reachable /\ Dirs \subseteq Inodes /\ Reachable \subseteq Inodes
         /\ todo # <<>> => Cur.in \in Acting /\ Cur.in \in Live
         /\ Reachable \subseteq imap
<1>1. /\ TypeOK /\ Planned /\ Stands /\ RootStays /\ FreeAreZero
      /\ DirsKept /\ NamesSound /\ Doing /\ Typed
      /\ Owned(Live) /\ Filled(Live) /\ DiskBehind /\ UnmarkedBlank
  BY DEF Busy, Ownership, Consistent, WhileRunning
<1>2. Acting \subseteq Inodes
  <2>1. todo \in Seq(Call) /\ onfail \in Seq(Call)
    BY <1>1 DEF TypeOK
  <2>2. \A c \in Call : c.in \in Inodes
    BY DEF Call
  <2>. QED
    BY <2>1, <2>2 DEF Acting, Targets
<1>3. todo # <<>> => Cur.in \in Acting
  BY <1>1, CurActs
<1>4. Reachable \subseteq imap
  BY <1>1, ReachableMarked
<1>. QED
  BY <1>1, <1>2, <1>3, <1>4, ReachBasics DEF Live

\* A data step keeps the names of a directory, but where it stores one.
LEMMA NamesKept ==
  ASSUME Busy, WriteStep \/ TruncStep, ~(StoreData /\ Cur.in \in Dirs), NEW d \in Dirs
  PROVE  /\ Known(d)' = Known(d)
         /\ \A k \in Known(d) : MemCell(d, k)' = MemCell(d, k)
<1>0. /\ TypeOK /\ Stands /\ Owned(Live) /\ Filled(Live) /\ Live \subseteq Inodes /\ d \in Live
      /\ DirsKept /\ Doing
  BY BusyFacts
<1>. PICK j : j = Cur.in
  OBVIOUS
<1>1. j \in Live /\ todo # <<>>
  BY BusyFacts, DataCall
<1>2. CASE d # j
  BY <1>0, <1>1, <1>2, NamesOther
<1>3. CASE d = j /\ WriteStep
  <2>1. Cur.n = 1 /\ ~StoreData
    BY <1>0, <1>3, DirWrite
  <2>. QED
    BY <1>0, <1>1, <1>3, <2>1, NamesBefore
<1>4. CASE d = j /\ TruncStep
  <2>1. TruncNothing
    BY <1>0, <1>4, TruncOf
  <2>2. pc = "ready" /\ pc' = "ready" /\ mem' = mem /\ blk' = blk
    BY <2>1 DEF TruncNothing, Running, Return, disk
  <2>3. Known(d) = 2 .. (mem[d].size - 1) /\ Known(d)' = 2 .. (mem'[d].size - 1)
    BY <2>2, Zenon DEF Known
  <2>4. \A s : HeldAt(d, s)' = HeldAt(d, s)
    BY <2>2, Zenon DEF HeldAt, Table, Loaded
  <2>. QED
    BY <2>2, <2>3, <2>4, SameCell
<1>. QED
  BY <1>2, <1>3, <1>4

\* The names of a directory after a data step are those before, and the one stored.
LEMMA NamesData ==
  ASSUME Busy, WriteStep \/ TruncStep, NEW d \in Dirs, NEW k \in Known(d)'
  PROVE  \/ /\ k \in Known(d) /\ MemCell(d, k)' \in {MemCell(d, k), 0}
            /\ ~(StoreData /\ d = Cur.in /\ k = Cur.off)
         \/ StoreData /\ d = Cur.in /\ k = Cur.off /\ MemCell(d, k)' = Cur.val
<1>0. /\ TypeOK /\ Stands /\ Owned(Live) /\ Filled(Live) /\ Live \subseteq Inodes /\ d \in Live
      /\ DirsKept /\ Doing
  BY BusyFacts
<1>. PICK j : j = Cur.in
  OBVIOUS
<1>1. j \in Live /\ todo # <<>>
  BY BusyFacts, DataCall
<1>2. CASE ~(StoreData /\ j \in Dirs)
  BY <1>2, NamesKept
<1>3. CASE d # j
  BY <1>0, <1>1, <1>3, NamesOther
<1>4. CASE d = j /\ StoreData
  <2>1. Cur.n = 1
    BY <1>0, <1>4, DirWrite DEF WriteStep
  <2>2. \/ k = Cur.off /\ MemCell(j, k)' = Cur.val
        \/ k # Cur.off /\ k \in Known(j) /\ MemCell(j, k)' \in {MemCell(j, k), 0}
    BY <1>0, <1>1, <1>4, <2>1, NamesStored
  <2>. QED
    BY <1>4, <2>2
<1>. QED
  BY <1>2, <1>3, <1>4

\* A name that is there afterwards was there before, or is the one that was stored.
LEMMA NamedData ==
  ASSUME Busy, WriteStep \/ TruncStep, Dirs' \subseteq Dirs, NEW x \in Inodes, Named(x)'
  PROVE  \/ Named(x)
         \/ StoreData /\ Cur.in \in Dirs /\ Cur.val = x + 1
<1>. PICK d \in Dirs : \E k \in Known(d)' : MemCell(d, k)' = x + 1
  BY DEF Named
<1>1. PICK k \in Known(d)' : MemCell(d, k)' = x + 1
  OBVIOUS
<1>2. x + 1 # 0
  BY Sizes
<1>. QED
  BY <1>1, <1>2, NamesData DEF Named

\* A data step keeps a directory and what the disk has of it.
LEMMA DirOnDisk ==
  ASSUME Busy, WriteStep \/ TruncStep, NEW d \in Dirs
  PROVE  /\ mem'[d].type = "dir" /\ dino'[d] = dino[d] /\ OnDisk(d)'
         /\ dino[d].size <= mem'[d].size /\ mem'[d].size \in Nat /\ dino[d].size \in Nat
<1>0. /\ TypeOK /\ Stands /\ Owned(Live) /\ Filled(Live) /\ Live \subseteq Inodes /\ d \in Live
      /\ DirsKept /\ Doing /\ d \in Inodes /\ OnDisk(d) /\ TypeOK'
      /\ mem[d].type = "dir" /\ dino[d].size <= mem[d].size
  BY BusyFacts, WriteStepType, TruncStepType DEF DirsKept
<1>. PICK j : j = Cur.in
  OBVIOUS
<1>1. j \in Live /\ todo # <<>> /\ j \in Inodes
  BY BusyFacts, DataCall
<1>2. mem'[d].type = "dir" /\ dino' = dino /\ (d # j => mem'[d] = mem[d])
  BY <1>0, DataStepKeeps
<1>3. d # j \/ WriteStep \/ TruncNothing
  BY <1>0, TruncOf
<1>4. OnDisk(d)'
  BY <1>0, <1>1, <1>3, OnDiskData
<1>5. mem[d].size <= mem'[d].size /\ mem'[d].size \in Nat /\ mem[d].size \in Nat
      /\ dino[d].size \in Nat
  <2>1. mem[d].size \in Nat /\ dino[d].size \in Nat
    BY <1>0, SizeNat
  <2>2. CASE d # j
    BY <1>2, <2>1, <2>2
  <2>3. CASE d = j /\ WriteStep
    BY <1>0, <2>1, <2>3, WriteSizes
  <2>4. CASE TruncNothing
    BY <2>1, <2>4 DEF TruncNothing
  <2>. QED
    BY <1>3, <2>2, <2>3, <2>4
<1>. QED
  BY <1>0, <1>2, <1>4, <1>5

\* The tree gains at most the inode whose name is stored, and loses what is erased.
LEMMA ReachData ==
  ASSUME Busy, WriteStep \/ TruncStep
  PROVE  /\ \A x \in Reachable' : x \in Reachable \/ (/\ StoreData /\ Cur.in \in Dirs
                                                      /\ Cur.val = x + 1 /\ dino[x] = Blank
                                                      /\ x \in Acting)
         /\ Dirs' \subseteq Dirs
<1>0. /\ TypeOK /\ Stands /\ RootStays /\ DirsKept /\ NamesSound /\ Doing /\ TypeOK'
      /\ dino' = dino
  BY BusyFacts, WriteStepType, TruncStepType, DataStepKeeps
<1>. DEFINE New == {x \in Inodes : StoreData /\ Cur.in \in Dirs /\ Cur.val = x + 1}
            S   == Reachable \cup New
<1>1. \A x \in New : dino[x] = Blank /\ x \in Acting
  <2>. SUFFICES ASSUME NEW x \in New PROVE dino[x] = Blank /\ x \in Acting
    OBVIOUS
  <2>1. x + 1 > 0 /\ x \in Nat
    BY Sizes
  <2>2. PICK y \in Inodes : Cur.val - 1 = y /\ NewName(Cur.in, y) /\ y \in Acting
    BY <1>0, <2>1, StoresName
  <2>3. y = x
    BY <2>1, <2>2
  <2>. QED
    BY <2>2, <2>3 DEF NewName
<1>2. S \in SUBSET Inodes /\ 0 \in S
  BY ReachBasics
<1>3. ASSUME NEW d \in S, dino'[d].type = "dir"
      PROVE  Children(dino[d])' \cap Inodes \subseteq S
  <2>1. d \in Dirs
    <3>1. dino[d] # Blank
      BY <1>0, <1>3 DEF Blank
    <3>. QED
      BY <1>0, <1>1, <1>3, <3>1 DEF Dirs
  <2>. SUFFICES ASSUME NEW k \in 2 .. (dino[d].size - 1), CellAt(dino[d], k)' > 0,
                       CellAt(dino[d], k)' - 1 \in Inodes
                PROVE  CellAt(dino[d], k)' - 1 \in S
    BY <1>0 DEF Children, LiveSlots
  <2>2. /\ OnDisk(d)' /\ dino[d].size <= mem'[d].size /\ mem'[d].size \in Nat
        /\ dino[d].size \in Nat /\ d \in Inodes
    BY <2>1, DirOnDisk, ReachBasics
  <2>3. k \in Nat /\ k < dino[d].size /\ k \in 2 .. (mem'[d].size - 1)
    BY <2>2
  <2>4. CellAt(dino[d], k)' = MemCell(d, k)'
    BY <1>0, <2>2, <2>3, DiskCellNext
  <2>. PICK v : v = MemCell(d, k)'
    OBVIOUS
  <2>5. k \in Known(d) /\ CellAt(dino[d], k) = MemCell(d, k)
    BY <1>0, <2>1, DirCell
  <2>6. k \in Known(d)'
    <3>1. pc' = "csum" => StoreData
      BY DEF WriteStep, TruncStep, BeginWrite, MapExisting, MapDirect, MapIndirect,
         ReadIndirect, MapChild, NoChild, WriteIndirect, MapFails, WriteIndirectFails,
         StoreCsum, StoreLastCsum, TruncNothing, BeginTrunc, ZeroDirect, UnmarkDirect,
         TruncDirectOnly, LoadIndirect, ZeroChild, UnmarkChild, ZeroIndirect, UnmarkIndirect,
         KeepIndirect, Fail, Return
    <3>2. CASE pc' = "csum" /\ d = Cur'.in
      <4>1. Known(d)' = 2 .. (MaxOf(mem'[d].size, Cur'.off + Cur'.n) - 1)
        BY <3>2, Zenon DEF Known
      <4>2. Cur' = Cur /\ todo # <<>>
        <5>1. todo' = todo
          BY <3>1, <3>2 DEF StoreData, plan
        <5>. QED
          BY <1>0, <5>1, SameCall, DataCall
      <4>3. Cur.off \in Nat /\ Cur.n \in Nat
        BY <1>0, <4>2, Current
      <4>. QED
        BY <2>2, <2>3, <4>1, <4>2, <4>3 DEF MaxOf
    <3>3. CASE ~(pc' = "csum" /\ d = Cur'.in)
      <4>1. Known(d)' = 2 .. (mem'[d].size - 1)
        BY <3>3, Zenon DEF Known
      <4>. QED
        BY <2>3, <4>1
    <3>. QED
      BY <3>2, <3>3
  <2>7. CASE v = MemCell(d, k)
    <3>1. v = CellAt(dino[d], k) /\ v > 0 /\ v - 1 \in Inodes
      BY <2>4, <2>5, <2>7
    <3>2. k \in LiveSlots(dino[d])
      BY <3>1 DEF LiveSlots
    <3>3. v - 1 \in Reachable
      BY <2>1, <3>1, <3>2, ReachKid
    <3>. QED
      BY <2>4, <3>3
  <2>8. CASE StoreData /\ d = Cur.in /\ v = Cur.val
    <3>1. Cur.val \in Int
      BY <1>0, DataCall, Current
    <3>. QED
      BY <2>1, <2>4, <2>8, <3>1
  <2>. QED
    BY <2>1, <2>4, <2>6, <2>7, <2>8, NamesData
<1>4. Reachable' \subseteq S
  <2>. HIDE DEF S
  <2>. QED
    BY <1>2, <1>3, ReachInsideNext
<1>5. Dirs' \subseteq Dirs
  <2>1. \A d \in Inodes : dino[d].type = "dir" => dino[d] # Blank
    BY DEF Blank
  <2>. QED
    BY <1>0, <1>1, <1>4, <2>1 DEF Dirs
<1>. QED
  BY <1>1, <1>4, <1>5
-----------------------------------------------------------------------------
(* How the calls that are left change.                                     *)

\* The first call is done.
LEMMA TailLeft ==
  ASSUME TypeOK, todo # <<>>, todo' = Tail(todo), NEW m \in Nat, m = Len(todo)
  PROVE  /\ m >= 1 /\ Len(todo') = m - 1 /\ DOMAIN todo = 1 .. m /\ DOMAIN todo' = 1 .. (m - 1)
         /\ \A k \in 1 .. (m - 1) : todo'[k] = todo[k + 1]
         /\ m = 1 => todo' = <<>>
         /\ m > 1 => todo' # <<>> /\ Cur' = todo[2]
<1>1. todo \in Seq(Call) /\ todo' \in Seq(Call) /\ todo # <<>>
  BY DEF TypeOK
<1>2. m >= 1 /\ Len(todo') = m - 1 /\ DOMAIN todo = 1 .. m /\ DOMAIN todo' = 1 .. (m - 1)
  BY <1>1
<1>3. \A k \in 1 .. (m - 1) : todo'[k] = todo[k + 1]
  BY <1>1
<1>4. m = 1 => todo' = <<>>
  BY <1>1, <1>2
<1>5. m > 1 => todo' # <<>> /\ Cur' = todo[2]
  <2>. SUFFICES ASSUME m > 1 PROVE todo' # <<>> /\ Cur' = todo[2]
    OBVIOUS
  <2>1. todo' # <<>> /\ 1 \in 1 .. (m - 1)
    BY <1>2
  <2>2. Head(todo') = todo'[1]
    BY <1>1, <2>1
  <2>. QED
    BY <1>3, <2>1, <2>2 DEF Cur
<1>. QED
  BY <1>2, <1>3, <1>4, <1>5

\* How a write or a truncation leaves the plan: as it is, without its first call, or with
\* what is to be done when a write has failed.
LEMMA DataPlan ==
  ASSUME TypeOK, Stands, WriteStep \/ TruncStep
  PROVE  /\ dirty \subseteq dirty' /\ dirty' \subseteq dirty \cup {Cur.in}
         /\ mem' # mem => Cur.in \in dirty'
         /\ \/ todo' = todo /\ onfail' = onfail /\ Cur' = Cur /\ ~TruncNothing
            \/ /\ todo' = Tail(todo) /\ onfail' = onfail /\ pc' = "ready"
               /\ ~StoreData /\ (WriteStep => StoreLastCsum) /\ (TruncNothing \/ Cur.in \in dirty')
            \/ /\ MapFails \/ WriteIndirectFails
               /\ todo' = CutBack \o onfail /\ onfail' = <<>> /\ pc' = "ready"
               /\ Cur.in \in dirty'
<1>1. CASE MapFails \/ WriteIndirectFails
  BY <1>1 DEF MapFails, WriteIndirectFails, Fail, SetInode
<1>2. CASE StoreLastCsum \/ TruncNothing \/ TruncDirectOnly \/ UnmarkIndirect \/ KeepIndirect
  <2>1. /\ todo' = Tail(todo) /\ onfail' = onfail /\ pc' = "ready"
        /\ \/ mem' = mem /\ dirty' = dirty /\ TruncNothing
           \/ dirty' = dirty \cup {Cur.in}
    BY <1>2 DEF StoreLastCsum, TruncNothing, TruncDirectOnly, UnmarkIndirect, KeepIndirect,
       Return, SetInode
  <2>2. ~StoreData /\ (WriteStep => StoreLastCsum)
    BY <1>2, <2>1, DataCall DEF StoreData, TruncStep
  <2>. QED
    BY <2>1, <2>2
<1>3. CASE \/ BeginWrite \/ MapExisting \/ MapDirect \/ MapIndirect \/ ReadIndirect \/ MapChild
           \/ NoChild \/ WriteIndirect \/ StoreData \/ StoreCsum
           \/ BeginTrunc \/ ZeroDirect \/ UnmarkDirect
           \/ LoadIndirect \/ ZeroChild \/ UnmarkChild \/ ZeroIndirect
  <2>1. /\ todo' = todo /\ onfail' = onfail
        /\ \/ mem' = mem /\ dirty' = dirty
           \/ dirty' = dirty \cup {Cur.in}
    BY <1>3 DEF BeginWrite, MapExisting, MapDirect, MapIndirect, ReadIndirect, MapChild,
       NoChild, WriteIndirect, StoreData, StoreCsum, BeginTrunc, ZeroDirect, UnmarkDirect,
       LoadIndirect, ZeroChild, UnmarkChild, ZeroIndirect, SetInode, SetNoInode, plan
  <2>2. ~TruncNothing
    <3>. SUFFICES ASSUME TruncNothing PROVE FALSE
      OBVIOUS
    <3>1. todo # <<>> /\ todo \in Seq(Call) /\ todo' = Tail(todo)
      BY DEF TruncNothing, Running, Return, TypeOK
    <3>2. Len(todo') = Len(todo) - 1 /\ Len(todo) \in Nat
      BY <3>1
    <3>. QED
      BY <2>1, <3>2
  <2>. QED
    BY <2>1, <2>2, SameCall
<1>. QED
  BY <1>1, <1>2, <1>3 DEF WriteStep, TruncStep

\* What is written last stays to be written last.
LEMMA TailKeepsLast ==
  ASSUME TypeOK, todo # <<>>, todo' = Tail(todo), Cur.op # "sync", NEW i,
         todo[Len(todo)] = SyncCall(i)
  PROVE  todo' # <<>> /\ todo'[Len(todo')] = SyncCall(i)
<1>. PICK m \in Nat : m = Len(todo) /\ m >= 1 /\ Cur = todo[1]
  BY CurFirst
<1>1. m # 1
  BY CallOps
<1>2. todo' # <<>> /\ Len(todo') = m - 1 /\ \A k \in 1 .. (m - 1) : todo'[k] = todo[k + 1]
  BY <1>1, TailLeft
<1>3. todo'[m - 1] = todo[m]
  BY <1>1, <1>2
<1>. QED
  BY <1>2, <1>3

\* A name that is new stays so when a call other than a sync returns.
LEMMA TailKeepsName ==
  ASSUME TypeOK, todo # <<>>, todo' = Tail(todo), Cur.op # "sync", NEW d, NEW x,
         NewName(d, x), dino'[x] = dino[x]
  PROVE  NewName(d, x)'
<1>. PICK m \in Nat : m = Len(todo) /\ m >= 1 /\ Cur = todo[1]
  BY CurFirst
<1>1. m >= 2 /\ todo[m - 1] = SyncCall(d) /\ todo[m] = SyncCall(x) /\ dino[x] = Blank
  BY DEF NewName
<1>2. m # 2
  BY <1>1, CallOps
<1>3. Len(todo') = m - 1 /\ \A k \in 1 .. (m - 1) : todo'[k] = todo[k + 1]
  BY TailLeft
<1>4. todo'[m - 1] = todo[m] /\ todo'[m - 2] = todo[m - 1]
  BY <1>1, <1>2, <1>3
<1>. QED
  BY <1>1, <1>2, <1>3, <1>4 DEF NewName, Blank, SyncCall

\* After a truncation or a release, the inode is still to be written, and nothing else is
\* done to it before.
LEMMA TailKeepsClosing ==
  ASSUME TypeOK, Doing, todo # <<>>, todo' = Tail(todo), NEW i, Closing(i)
  PROVE  Closing(i)' \/ Cur.op = "sync"
<1>. PICK m \in Nat : m = Len(todo) /\ m >= 1 /\ Cur = todo[1]
  BY CurFirst
<1>0. /\ DOMAIN todo = 1 .. m /\ DOMAIN todo' = 1 .. (m - 1)
      /\ \A k \in 1 .. (m - 1) : todo'[k] = todo[k + 1]
      /\ m > 1 => todo' # <<>> /\ Cur' = todo[2]
  BY TailLeft
<1>1. Cur.op \in {"trunc", "release", "sync"} /\ Cur.in = i
  BY DEF Closing, Window
<1>2. PICK k \in 1 .. m : todo[k] = SyncCall(i)
  BY <1>0 DEF Closing
<1>. SUFFICES ASSUME Cur.op # "sync", m > 1, k > 1
              PROVE  Cur'.op \in {"trunc", "release", "sync"} /\ Cur'.in = i
  <2>1. k > 1 \/ Cur.op = "sync"
    BY <1>2, CallOps
  <2>. SUFFICES ASSUME Cur.op # "sync" PROVE Closing(i)'
    OBVIOUS
  <2>2. m > 1 /\ k > 1
    BY <1>2, <2>1
  <2>3. k - 1 \in 1 .. (m - 1) /\ todo'[k - 1] = todo[k]
    BY <1>0, <1>2, <2>2
  <2>4. SyncCall(i)' = SyncCall(i)
    BY DEF SyncCall
  <2>. QED
    BY <1>0, <1>2, <2>2, <2>3, <2>4 DEF Closing, Window
<1>3. CASE Cur.op = "release"
  <2>1. PICK n \in Inodes : Cur.in = n /\ \/ Removing(n) /\ m = 3
                                          \/ Undoing(n) /\ m = 2
    BY <1>3, ReleasePlan
  <2>2. CASE Removing(n) /\ m = 3
    <3>1. todo[2] = SyncCall(n)
      BY <2>2, RemovingLeft
    <3>. QED
      BY <1>0, <1>1, <2>1, <3>1, CallOps
  <2>3. CASE Undoing(n) /\ m = 2
    <3>1. todo[2] = SyncCall(n)
      BY <2>3 DEF Undoing
    <3>. QED
      BY <1>0, <1>1, <2>1, <3>1, CallOps
  <2>. QED
    BY <2>1, <2>2, <2>3
<1>4. CASE Cur.op = "trunc"
  <2>1. m # 1
    OBVIOUS
  <2>2. PICK n \in Inodes : \/ Writing(n) /\ m = 2 /\ Cur.in = n
                            \/ Removing(n) /\ m = 4 /\ Cur.in = n
                            \/ Undoing(n) /\ m = 3 /\ Cur.in = n
                            \/ Undoing(n) /\ m = 4
    BY <1>4, TruncPlan DEF StandsStill
  <2>3. CASE Writing(n) /\ m = 2 /\ Cur.in = n
    <3>1. todo[2] = SyncCall(n)
      BY <2>3 DEF Writing
    <3>. QED
      BY <1>0, <1>1, <2>3, <3>1, CallOps
  <2>4. CASE Removing(n) /\ m = 4 /\ Cur.in = n
    <3>1. todo[2] = ReleaseCall(n)
      BY <2>4, RemovingLeft
    <3>. QED
      BY <1>0, <1>1, <2>4, <3>1, CallOps
  <2>5. CASE Undoing(n) /\ m = 3 /\ Cur.in = n
    <3>1. todo[2] = ReleaseCall(n)
      BY <2>5 DEF Undoing
    <3>. QED
      BY <1>0, <1>1, <2>5, <3>1, CallOps
  <2>6. CASE Undoing(n) /\ m = 4
    <3>1. todo[4] = SyncCall(n) /\ todo[3] = ReleaseCall(n) /\ todo[2] = TruncCall(n, 0)
      BY <2>6 DEF Undoing
    <3>2. k # 2 /\ k # 3
      BY <1>2, <3>1, CallOps
    <3>3. k = 4
      BY <2>6, <3>2
    <3>4. n = i
      BY <1>2, <3>1, <3>3, CallOps
    <3>. QED
      BY <1>0, <2>6, <3>1, <3>4, CallOps
  <2>. QED
    BY <2>2, <2>3, <2>4, <2>5, <2>6
<1>. QED
  BY <1>1, <1>3, <1>4

\* After a failed write come the cut and what is to be done then.
LEMMA CutLeft ==
  ASSUME TypeOK, todo # <<>>, todo' = CutBack \o onfail, NEW n \in Nat, n = Len(onfail)
  PROVE  /\ Len(todo') = n + 1 /\ todo' # <<>> /\ Cur' = TruncCall(Cur.in, Inode.size)
         /\ todo'[1] = Cur' /\ \A k \in 1 .. n : todo'[k + 1] = onfail[k]
<1>. DEFINE c == TruncCall(Cur.in, Inode.size)
<1>1. c \in Call
  BY Current, CallsType DEF Dinode
<1>2. <<c>> \in Seq(Call) /\ Len(<<c>>) = 1 /\ <<c>>[1] = c
  BY <1>1
<1>3. onfail \in Seq(Call)
  BY DEF TypeOK
<1>4. todo' = <<c>> \o onfail /\ todo' \in Seq(Call)
  BY <1>2, <1>3 DEF CutBack
<1>5. Len(todo') = n + 1 /\ todo'[1] = c /\ \A k \in 1 .. n : todo'[k + 1] = onfail[k]
  <2>. HIDE DEF c
  <2>. QED
    BY <1>2, <1>3, <1>4
<1>6. todo' # <<>> /\ Head(todo') = todo'[1]
  BY <1>4, <1>5
<1>. QED
  BY <1>5, <1>6 DEF Cur

\* The commands in which a write may fail, and what they do then.
LEMMA FailPlan ==
  ASSUME Busy, MapFails \/ WriteIndirectFails
  PROVE  /\ todo # <<>> /\ Cur.op = "write" /\ pc \in {"map", "indirect"}
         /\ mem'[Cur.in].size = MaxOf(mem[Cur.in].size, Cur.off + at)
         /\ \E i \in Inodes :
              \/ Writing(i) /\ Len(todo) = 3 /\ Cur.in = i /\ onfail = <<SyncCall(i)>>
              \/ /\ Removing(i) /\ Len(todo) = 5 /\ Cur.in = 0 /\ onfail = <<>>
                 /\ mem'[Cur.in].size = Inode.size
              \/ \E p \in Inodes : Creating(p, i) /\ Len(todo) >= 3
                   /\ onfail = <<TruncCall(i, 0), ReleaseCall(i), SyncCall(i)>>
                   /\ ~Named(i) /\ mem'[Cur.in].size = Inode.size
<1>0. TypeOK /\ Stands /\ Doing /\ WriteStep
  BY BusyFacts DEF WriteStep
<1>1. todo # <<>> /\ Cur.op = "write" /\ pc \in {"map", "indirect"}
  BY <1>0, DataCall DEF MapFails, WriteIndirectFails, Running
<1>. PICK j \in Inodes : j = Cur.in
  BY <1>0, DataCall
<1>. PICK m \in Nat : m = Len(todo) /\ m >= 1 /\ Cur = todo[1]
  BY <1>0, <1>1, CurFirst
<1>2. mem'[Cur.in].size = MaxOf(mem[Cur.in].size, Cur.off + at)
  <2>1. mem' = [mem EXCEPT ![j] = [Inode EXCEPT !.size = Covered]] /\ Inode = mem[j]
    BY DEF MapFails, WriteIndirectFails, Fail, SetInode, Inode
  <2>2. mem'[j] = [mem[j] EXCEPT !.size = Covered] /\ mem[j] \in Dinode
    BY <1>0, <2>1 DEF TypeOK
  <2>3. mem'[j].size = Covered
    BY <2>2 DEF Dinode
  <2>. QED
    BY <2>1, <2>3 DEF Covered
<1>3. Cur.n = 1 => mem'[Cur.in].size = Inode.size
  <2>1. ~StoreLastCsum
    BY <1>1 DEF StoreLastCsum, Running
  <2>. QED
    BY <1>0, <2>1, WriteSizes DEF Inode
<1>. PICK i \in Inodes :
           \/ Writing(i) /\ m = 3 /\ Cur.in = i
           \/ Removing(i) /\ m = 5 /\ Cur.in = 0 /\ Cur.n = 1 /\ Cur.val = Removed
           \/ \E p \in Inodes : /\ Creating(p, i) /\ m >= 3 /\ Cur.n = 1
  <2>. HIDE DEF Writing, Removing, Creating
  <2>1. \E i \in Inodes :
           \/ Writing(i) /\ Len(todo) = 3 /\ Cur.in = i
           \/ Removing(i) /\ Len(todo) = 5 /\ Cur.in = 0 /\ Cur.n = 1 /\ Cur.val = Removed
           \/ \E p \in Inodes :
                /\ Creating(p, i) /\ Len(todo) >= 3 /\ Cur.n = 1
                /\ \/ Len(todo) = 3 /\ Cur.in = p /\ Cur.val = i + 1
                   \/ Len(todo) > 3 /\ Cur.in = i /\ Cur.off < 2
                   \/ Len(todo) > 3 /\ Cur.in = p /\ Cur.val = 0
    BY <1>0, <1>1, WritePlan
  <2>. QED
    BY <2>1
<1>4. CASE Writing(i) /\ m = 3 /\ Cur.in = i
  <2>1. onfail = <<SyncCall(i)>>
    BY <1>4 DEF Writing
  <2>. QED
    BY <1>1, <1>2, <1>4, <2>1
<1>5. CASE Removing(i) /\ m = 5 /\ Cur.in = 0 /\ Cur.n = 1
  <2>1. onfail = <<>>
    BY <1>5, RemovingLeft
  <2>. QED
    BY <1>1, <1>2, <1>3, <1>5, <2>1
<1>6. ASSUME NEW p \in Inodes, Creating(p, i), m >= 3, Cur.n = 1
      PROVE  onfail = <<TruncCall(i, 0), ReleaseCall(i), SyncCall(i)>> /\ ~Named(i)
  BY <1>1, <1>6 DEF Creating
<1>. QED
  BY <1>1, <1>2, <1>3, <1>4, <1>5, <1>6

\* No name is new then.
LEMMA FailNoName ==
  ASSUME Busy, MapFails \/ WriteIndirectFails, NEW x \in Inodes, NEW d, NewName(d, x), Named(x)
  PROVE  FALSE
<1>0. TypeOK /\ Stands /\ Doing /\ DirsKept /\ NamesSound
  BY BusyFacts
<1>1. todo # <<>> /\ x # 0
  BY <1>0, FailPlan, NamedReachable
<1>. PICK m \in Nat : m = Len(todo) /\ m >= 1 /\ Cur = todo[1]
  BY <1>0, <1>1, CurFirst
<1>2. todo[m - 1] = SyncCall(d) /\ todo[m] = SyncCall(x)
  BY DEF NewName
<1>. PICK i \in Inodes :
              \/ Writing(i) /\ m = 3
              \/ Removing(i) /\ m = 5
              \/ \E p \in Inodes : Creating(p, i) /\ m >= 3 /\ ~Named(i)
  BY FailPlan
<1>3. CASE Writing(i) /\ m = 3
  <2>1. todo[m - 1].op = "trunc"
    BY <1>3 DEF Writing, Is
  <2>. QED
    BY <1>2, <2>1, CallOps
<1>4. CASE Removing(i) /\ m = 5
  <2>1. todo[m] = SyncCall(0)
    BY <1>4, RemovingLeft
  <2>. QED
    BY <1>1, <1>2, <2>1, CallOps
<1>5. ASSUME NEW p \in Inodes, Creating(p, i), m >= 3, ~Named(i) PROVE FALSE
  <2>1. todo[m] = SyncCall(i)
    BY <1>5 DEF Creating
  <2>. QED
    BY <1>2, <1>5, <2>1, CallOps
<1>. QED
  BY <1>3, <1>4, <1>5
-----------------------------------------------------------------------------
(* A write or a truncation keeps the disk as the plan has it.              *)

\* No data step cuts a directory back.
LEMMA DirsKeptData ==
  ASSUME Busy, WriteStep \/ TruncStep
  PROVE  DirsKept'
<1>1. Dirs' \subseteq Dirs
  BY ReachData
<1>2. \A d \in Dirs : /\ mem'[d].type = "dir" /\ dino'[d] = dino[d] /\ OnDisk(d)'
                      /\ dino[d].size <= mem'[d].size
  BY DirOnDisk
<1>. QED
  BY <1>1, <1>2, Zenon DEF DirsKept

\* A name that is new stays so, until its directory is written.
LEMMA NewNameData ==
  ASSUME Busy, WriteStep \/ TruncStep, NEW d \in Dirs, NEW x \in Inodes, Named(x), NewName(d, x)
  PROVE  NewName(d, x)'
<1>0. TypeOK /\ Stands /\ dino' = dino /\ todo # <<>> /\ Cur.op # "sync"
  BY BusyFacts, DataCall, DataStepKeeps
<1>1. CASE todo' = todo
  BY <1>0, <1>1 DEF NewName, Blank, SyncCall
<1>2. CASE todo' = Tail(todo)
  BY <1>0, <1>2, TailKeepsName
<1>3. CASE MapFails \/ WriteIndirectFails
  BY <1>3, FailNoName
<1>. QED
  BY <1>0, <1>1, <1>2, <1>3, DataPlan

\* A data step stores no name that is there already, and none of an inode not marked.
LEMMA NamesSoundData ==
  ASSUME Busy, WriteStep \/ TruncStep
  PROVE  NamesSound'
<1>0. /\ TypeOK /\ Stands /\ RootStays /\ Doing /\ DirsKept /\ NamesSound
      /\ imap' = imap /\ dino' = dino /\ Dirs' \subseteq Dirs /\ Dirs \subseteq Inodes
  BY BusyFacts, DataStepKeeps, ReachData
<1>1. ASSUME NEW d \in Dirs', NEW k \in Known(d)', MemCell(d, k)' > 0
      PROVE  \E x : /\ x = MemCell(d, k)' - 1
                    /\ x \in Inodes \cap imap /\ x # 0 /\ (k < dino[d].size \/ NewName(d, x)')
  <2>0. d \in Dirs
    BY <1>0
  <2>1. CASE k \in Known(d) /\ MemCell(d, k)' = MemCell(d, k)
    <3>. PICK x : x = MemCell(d, k) - 1
      OBVIOUS
    <3>1. x \in Inodes \cap imap /\ x # 0 /\ (k < dino[d].size \/ NewName(d, x))
      BY <1>0, <1>1, <2>0, <2>1 DEF NamesSound
    <3>2. Named(x)
      <4>1. k \in Nat
        BY <1>0, <2>0, <2>1, KnownBasics
      <4>2. MemCell(d, k) \in Int
        BY <1>0, <4>1, MemCellInt
      <4>. QED
        BY <2>0, <2>1, <4>2 DEF Named
    <3>3. NewName(d, x) => NewName(d, x)'
      BY <2>0, <3>1, <3>2, NewNameData
    <3>. QED
      BY <2>1, <3>1, <3>3
  <2>2. CASE StoreData /\ d = Cur.in /\ MemCell(d, k)' = Cur.val
    <3>. PICK v : v = Cur.val
      OBVIOUS
    <3>1. PICK x \in Inodes : /\ v = x + 1 /\ v - 1 = x /\ x \in imap /\ x # 0
                              /\ NewName(d, x)
      BY <1>0, <1>1, <2>0, <2>2, StoresName
    <3>2. todo' = todo
      BY <2>2 DEF StoreData, plan
    <3>3. NewName(d, x)'
      BY <1>0, <3>1, <3>2 DEF NewName, Blank, SyncCall
    <3>. QED
      BY <2>2, <3>1, <3>3
  <2>. QED
    BY <1>1, <2>0, <2>1, <2>2, NamesData
<1>2. ASSUME NEW c \in Dirs', NEW d \in Dirs', NEW j \in Known(c)', NEW k \in Known(d)',
             MemCell(c, j)' > 0, MemCell(c, j)' = MemCell(d, k)'
      PROVE  c = d /\ j = k
  <2>. PICK v : v = MemCell(c, j)'
    OBVIOUS
  <2>0. c \in Dirs /\ d \in Dirs /\ v > 0
    BY <1>0, <1>2
  <2>1. \/ j \in Known(c) /\ v = MemCell(c, j)
        \/ StoreData /\ c = Cur.in /\ j = Cur.off /\ v = Cur.val
    BY <2>0, <1>2, NamesData
  <2>2. \/ k \in Known(d) /\ v = MemCell(d, k)
        \/ StoreData /\ d = Cur.in /\ k = Cur.off /\ v = Cur.val
    BY <2>0, <1>2, NamesData
  <2>3. CASE j \in Known(c) /\ v = MemCell(c, j) /\ k \in Known(d) /\ v = MemCell(d, k)
    BY <1>0, <2>0, <2>3 DEF NamesSound
  <2>4. StoreData /\ Cur.in \in Dirs /\ v = Cur.val =>
          ~ \E e \in Dirs : \E l \in Known(e) : v = MemCell(e, l)
    <3>. SUFFICES ASSUME StoreData, Cur.in \in Dirs, v = Cur.val
                  PROVE  ~ \E e \in Dirs : \E l \in Known(e) : v = MemCell(e, l)
      OBVIOUS
    <3>1. PICK x \in Inodes : v = x + 1 /\ ~Named(x)
      BY <1>0, <2>0, StoresName
    <3>. QED
      BY <3>1 DEF Named
  <2>. QED
    BY <2>0, <2>1, <2>2, <2>3, <2>4
<1>. QED
  BY <1>0, <1>1, <1>2 DEF NamesSound

\* A data step writes no block that the disk refers to, but in the inode it cuts back.
LEMMA DiskBehindData ==
  ASSUME Busy, WriteStep \/ TruncStep
  PROVE  Live' \subseteq Live /\ DiskBehind' /\ UnmarkedBlank' /\ Owned(Live)' /\ Filled(Live)'
<1>0. /\ TypeOK /\ Stands /\ RootStays /\ Doing /\ DirsKept /\ NamesSound /\ DiskBehind
      /\ UnmarkedBlank /\ Owned(Live) /\ Filled(Live) /\ Live \subseteq Inodes
      /\ imap' = imap /\ dino' = dino /\ todo # <<>> /\ Cur.op # "sync" /\ Cur.in \in Live
      /\ \A i \in Inodes : i # Cur.in => mem'[i] = mem[i]
  BY BusyFacts, DataStepKeeps, DataCall
<1>. PICK P : P = Live
  OBVIOUS
<1>. PICK j : j = Cur.in
  OBVIOUS
<1>1. Live' \subseteq P
  <2>1. Acting' \subseteq Acting
    BY <1>0, ActingShrinks
  <2>2. Reachable' \subseteq Reachable \cup Acting
    BY ReachData
  <2>. QED
    BY <2>1, <2>2 DEF Live
<1>2. ASSUME NEW i, Closing(i)
      PROVE  Closing(i)'
  <2>1. Cur.op # "write"
    BY <1>2 DEF Closing, Window
  <2>2. TruncStep
    BY <1>0, <2>1, DataCall
  <2>3. CASE todo' = todo
    BY <1>2, <2>3, SameCall DEF Closing, Window, SyncCall
  <2>4. CASE todo' = Tail(todo)
    BY <1>0, <1>2, <2>4, TailKeepsClosing
  <2>5. ~MapFails /\ ~WriteIndirectFails
    BY <1>0, <2>1, DataCall DEF WriteStep
  <2>. QED
    BY <1>0, <2>3, <2>4, <2>5, DataPlan
<1>3. DiskBehind'
  <2>. SUFFICES ASSUME NEW i \in P PROVE OnDisk(i)' \/ Closing(i)'
    BY <1>1 DEF DiskBehind
  <2>1. CASE OnDisk(i) /\ (i # j \/ WriteStep \/ TruncNothing)
    BY <1>0, <2>1, OnDiskData
  <2>2. CASE i = j /\ TruncStep /\ ~TruncNothing
    <3>1. Closing(i)
      BY <1>0, <2>2, TruncOf
    <3>. QED
      BY <1>2, <3>1
  <2>3. CASE Closing(i)
    BY <1>2, <2>3
  <2>4. OnDisk(i) \/ Closing(i)
    BY <1>0 DEF DiskBehind
  <2>. QED
    BY <2>1, <2>2, <2>3, <2>4
<1>4. UnmarkedBlank'
  <2>. SUFFICES ASSUME NEW i \in Inodes \ imap
                PROVE  mem'[i] = Blank /\ (dino[i] = Blank \/ Closing(i)')
    BY <1>0 DEF UnmarkedBlank, Blank
  <2>1. mem[i] = Blank /\ (dino[i] = Blank \/ Closing(i))
    BY <1>0 DEF UnmarkedBlank
  <2>2. i = Cur.in => TruncNothing
    BY <1>0, WriteOf, TruncOf
  <2>3. TruncNothing => mem' = mem
    BY DEF TruncNothing
  <2>. QED
    BY <1>0, <1>2, <2>1, <2>2, <2>3
<1>5. Owned(P)' /\ Filled(P)'
  BY <1>0, OwnedStep, FilledStep
<1>6. Owned(Live)' /\ Filled(Live)'
  <2>. PICK Q : Q = Live'
    OBVIOUS
  <2>1. Q \in SUBSET P
    BY <1>1
  <2>2. Owned(Q)' /\ Filled(Q)'
    BY <1>5, <2>1, OwnedSubsetNext, FilledSubsetNext
  <2>. QED
    BY <2>2 DEF Owned, Filled
<1>. QED
  BY <1>1, <1>3, <1>4, <1>6

\* A data step makes nothing reachable.
LEMMA TypedData ==
  ASSUME Busy, WriteStep \/ TruncStep
  PROVE  Typed'
<1>0. /\ TypeOK /\ Stands /\ RootStays /\ Doing /\ DirsKept /\ NamesSound /\ Typed
      /\ dino' = dino /\ todo # <<>> /\ Cur.op # "sync" /\ died' = died
  BY BusyFacts, DataStepKeeps, DataCall DEF command
<1>. SUFFICES ASSUME ~died, NEW x \in Reachable', dino[x].type = "none"
              PROVE  todo' # <<>> /\ todo'[Len(todo')] = SyncCall(x)
  BY <1>0 DEF Typed, SyncCall
<1>. PICK m \in Nat : m = Len(todo) /\ m >= 1 /\ Cur = todo[1]
  BY <1>0, CurFirst
<1>1. todo[m] = SyncCall(x)
  <2>1. CASE x \in Reachable
    BY <1>0, <2>1 DEF Typed
  <2>2. CASE x \notin Reachable
    <3>1. StoreData /\ Cur.in \in Dirs /\ Cur.val = x + 1 /\ x \in Acting
      BY <2>2, ReachData
    <3>2. x \in Inodes
      BY <3>1, BusyFacts
    <3>3. x + 1 > 0 /\ x \in Nat
      BY <3>2, Sizes
    <3>. PICK v : v = Cur.val
      OBVIOUS
    <3>4. PICK y \in Inodes : v = y + 1 /\ v - 1 = y /\ NewName(Cur.in, y)
      BY <1>0, <3>1, <3>3, StoresName
    <3>5. y = x
      BY <3>1, <3>3, <3>4
    <3>. QED
      BY <3>4, <3>5 DEF NewName
  <2>. QED
    BY <2>1, <2>2
<1>2. CASE todo' = todo
  BY <1>0, <1>1, <1>2
<1>3. CASE todo' = Tail(todo)
  BY <1>0, <1>1, <1>3, TailKeepsLast
<1>4. CASE (MapFails \/ WriteIndirectFails) /\ todo' = CutBack \o onfail
  <2>. PICK n \in Nat : n = Len(onfail)
    BY <1>0 DEF TypeOK
  <2>1. Len(todo') = n + 1 /\ todo' # <<>> /\ \A k \in 1 .. n : todo'[k + 1] = onfail[k]
    BY <1>0, <1>4, CutLeft
  <2>2. x # 0
    BY <1>0 DEF RootStays
  <2>. PICK i \in Inodes :
              \/ Writing(i) /\ m = 3 /\ onfail = <<SyncCall(i)>>
              \/ Removing(i) /\ m = 5
              \/ \E p \in Inodes : Creating(p, i) /\ m >= 3
                   /\ onfail = <<TruncCall(i, 0), ReleaseCall(i), SyncCall(i)>>
    BY <1>4, FailPlan
  <2>3. CASE Writing(i) /\ m = 3 /\ onfail = <<SyncCall(i)>>
    <3>1. todo[3] = SyncCall(i)
      BY <2>3 DEF Writing
    <3>2. n = 1 /\ onfail[1] = SyncCall(i)
      BY <2>3
    <3>3. todo'[2] = onfail[1]
      BY <2>1, <3>2
    <3>. QED
      BY <1>1, <2>1, <2>3, <3>1, <3>2, <3>3
  <2>4. CASE Removing(i) /\ m = 5
    <3>1. todo[m] = SyncCall(0)
      BY <2>4, RemovingLeft
    <3>. QED
      BY <1>1, <2>2, <3>1, CallOps, ZenonT(30)
  <2>5. ASSUME NEW p \in Inodes, Creating(p, i), m >= 3,
               onfail = <<TruncCall(i, 0), ReleaseCall(i), SyncCall(i)>>
        PROVE  todo'[Len(todo')] = SyncCall(x)
    <3>1. todo[m] = SyncCall(i)
      BY <2>5 DEF Creating
    <3>2. n = 3 /\ onfail[3] = SyncCall(i)
      BY <2>5
    <3>3. todo'[4] = onfail[3]
      BY <2>1, <3>2
    <3>. QED
      BY <1>1, <2>1, <3>1, <3>2, <3>3
  <2>. QED
    BY <2>1, <2>3, <2>4, <2>5
<1>. QED
  BY <1>0, <1>2, <1>3, <1>4, DataPlan
-----------------------------------------------------------------------------
(* A write or a truncation keeps the plan, call by call.                   *)

\* What it takes to be writing in the next state.
LEMMA WritingNext ==
  ASSUME NEW i, NEW m \in Nat, m = Len(todo'), m \in 1 .. 3, todo'[m] = SyncCall(i),
         m >= 2 => Is(todo'[m - 1], "trunc", i),
         m = 3 => Is(Cur', "write", i) /\ onfail' = <<SyncCall(i)>>,
         m < 3 => i \in dirty',
         i \in imap', mem'[i].type # "dir", mem'[i].type = dino'[i].type,
         died' \/ dino'[i].type # "none"
  PROVE  Writing(i)'
BY DEF Writing, SyncCall, Is

\* What it takes to be removing in the next state.
LEMMA RemovingNext ==
  ASSUME NEW i, NEW m \in Nat, m = Len(todo'), m \in 1 .. 5, i # 0, todo'[m] = SyncCall(0),
         m >= 2 => todo'[m - 1] = SyncCall(i),
         m >= 3 => todo'[m - 2] = ReleaseCall(i) /\ i \in imap',
         m >= 4 => todo'[m - 3] = TruncCall(i, 0),
         m = 5 => Is(Cur', "write", 0) /\ Cur'.n = 1 /\ Cur'.val = Removed /\ onfail' = <<>>,
         m = 5 /\ pc' # "csum" => Cur'.off \in Known(0)' /\ MemCell(0, Cur.off)' = i + 1,
         m >= 2 /\ (m < 5 \/ pc' = "csum") => ~Named(i)',
         m < 5 => 0 \in dirty',
         m = 2 => i \in dirty'
  PROVE  Removing(i)'
<1>1. IF m = 5 /\ pc' # "csum" THEN Cur'.off \in Known(0)' /\ MemCell(0, Cur.off)' = i + 1
                               ELSE m >= 2 => ~Named(i)'
  OBVIOUS
<1>2. /\ SyncCall(i)' = SyncCall(i) /\ SyncCall(0)' = SyncCall(0)
      /\ ReleaseCall(i)' = ReleaseCall(i) /\ TruncCall(i, 0)' = TruncCall(i, 0)
      /\ Is(Cur, "write", 0)' = Is(Cur', "write", 0) /\ Removed' = Removed
  BY DEF SyncCall, ReleaseCall, TruncCall, Is, Removed
<1>. QED
  BY <1>1, <1>2, Zenon DEF Removing

\* What is left of a creation, by the number of calls that are left.
LEMMA CreatingLeft ==
  ASSUME NEW p, NEW i, Creating(p, i), NEW m \in Nat, m = Len(todo)
  PROVE  /\ m >= 1 /\ i # 0 /\ i # p /\ todo[m] = SyncCall(i)
         /\ m >= 2 => todo[m - 1] = SyncCall(p)
         /\ m >= 3 => /\ Is(todo[m - 2], "write", p) /\ todo[m - 2].n = 1
                      /\ todo[m - 2].val = i + 1
                      /\ onfail = <<TruncCall(i, 0), ReleaseCall(i), SyncCall(i)>>
         /\ \A k \in 1 .. (m - 3) :
              /\ todo[k].n = 1
              /\ \/ Is(todo[k], "write", i) /\ todo[k].off < 2
                 \/ Is(todo[k], "write", p) /\ todo[k].val = 0
         /\ m > 3 \/ (m = 3 /\ pc # "csum") => ~Named(i)
         /\ m = 2 => p \in dirty
         /\ p \in imap /\ mem[p].type = "dir" /\ dino[p].type = "dir"
         /\ i \in imap /\ i \in dirty /\ dino[i] = Blank
         /\ mem[i].type # "none" /\ (mem[i].type = "dir" => mem[i].size <= 2)
BY Zenon DEF Creating

\* What it takes to be creating in the next state.
LEMMA CreatingNext ==
  ASSUME NEW p, NEW i, NEW m \in Nat, m = Len(todo'),
         m >= 1, i # 0, i # p, todo'[m] = SyncCall(i),
         m >= 2 => todo'[m - 1] = SyncCall(p),
         m >= 3 => /\ Is(todo'[m - 2], "write", p) /\ todo'[m - 2].n = 1
                   /\ todo'[m - 2].val = i + 1
                   /\ onfail' = <<TruncCall(i, 0), ReleaseCall(i), SyncCall(i)>>,
         \A k \in 1 .. (m - 3) :
              /\ todo'[k].n = 1
              /\ \/ Is(todo'[k], "write", i) /\ todo'[k].off < 2
                 \/ Is(todo'[k], "write", p) /\ todo'[k].val = 0,
         m > 3 \/ (m = 3 /\ pc' # "csum") => ~Named(i)',
         m = 2 => p \in dirty',
         p \in imap', mem'[p].type = "dir", dino'[p].type = "dir",
         i \in imap', i \in dirty', dino'[i] = Blank,
         mem'[i].type # "none", mem'[i].type = "dir" => mem'[i].size <= 2
  PROVE  Creating(p, i)'
<1>1. /\ SyncCall(i)' = SyncCall(i) /\ SyncCall(p)' = SyncCall(p) /\ Blank' = Blank
      /\ ReleaseCall(i)' = ReleaseCall(i) /\ TruncCall(i, 0)' = TruncCall(i, 0)
  BY DEF SyncCall, ReleaseCall, TruncCall, Blank
<1>2. \A k, j : Is(todo[k], "write", j)' = Is(todo'[k], "write", j)
  BY DEF Is
<1>3. <<TruncCall(i, 0), ReleaseCall(i), SyncCall(i)>>'
        = <<TruncCall(i, 0), ReleaseCall(i), SyncCall(i)>>
  BY <1>1
<1>. QED
  BY <1>1, <1>2, <1>3, Zenon DEF Creating

\* What it takes to be undoing a creation in the next state.
LEMMA UndoingNext ==
  ASSUME NEW i, NEW m \in Nat, m = Len(todo'), m \in 1 .. 4, i # 0, todo'[m] = SyncCall(i),
         m >= 2 => todo'[m - 1] = ReleaseCall(i) /\ i \in imap',
         m >= 3 => todo'[m - 2] = TruncCall(i, 0),
         m = 4 => /\ Cur'.op = "trunc"
                  /\ Cur'.in = i \/ (pc' = "ready" /\ mem'[Cur'.in].size <= Cur'.off),
         i \in dirty', ~Named(i)'
  PROVE  Undoing(i)'
<1>1. /\ SyncCall(i)' = SyncCall(i) /\ ReleaseCall(i)' = ReleaseCall(i)
      /\ TruncCall(i, 0)' = TruncCall(i, 0) /\ Inode' = mem'[Cur'.in]
  BY DEF SyncCall, ReleaseCall, TruncCall, Inode
<1>. QED
  BY <1>1, Zenon DEF Undoing

\* When the name of an inode is not stored, it stays unnamed.
LEMMA UnnamedData ==
  ASSUME Busy, WriteStep \/ TruncStep, NEW x \in Inodes, ~Named(x),
         ~(StoreData /\ Cur.in \in Dirs /\ Cur.val = x + 1)
  PROVE  ~Named(x)'
BY NamedData, ReachData

\* The name in the root directory that a removal erases was its only one.
LEMMA ErasesName ==
  ASSUME Busy, StoreData, NEW i \in Inodes, Removing(i), Len(todo) = 5
  PROVE  ~Named(i)'
<1>0. /\ TypeOK /\ RootStays /\ NamesSound /\ pc = "store" /\ WriteStep
      /\ Dirs' \subseteq Dirs
  BY BusyFacts, ReachData DEF StoreData, Running, WriteStep
<1>. PICK m \in Nat : m = Len(todo) /\ m = 5
  OBVIOUS
<1>1. /\ Cur.in = 0 /\ Cur.val = Removed /\ Cur.off \in Known(0) /\ MemCell(0, Cur.off) = i + 1
  BY <1>0, RemovingLeft DEF Is
<1>2. 0 \in Dirs /\ i + 1 > 0 /\ i + 1 # Removed
  BY <1>0, ReachBasics, Sizes DEF RootStays, Dirs, Removed
<1>. SUFFICES ASSUME NEW d \in Dirs', NEW k \in Known(d)', MemCell(d, k)' = i + 1
              PROVE  FALSE
  BY DEF Named
<1>3. d \in Dirs
  BY <1>0
<1>. PICK v : v = MemCell(d, k)'
  OBVIOUS
<1>4. ~(d = Cur.in /\ k = Cur.off)
  <2>. SUFFICES ASSUME d = Cur.in, k = Cur.off PROVE FALSE
    OBVIOUS
  <2>1. v = Cur.val
    BY <1>0, <1>3, NamesData
  <2>. QED
    BY <1>1, <1>2, <2>1
<1>5. k \in Known(d) /\ v = MemCell(d, k)
  BY <1>0, <1>2, <1>3, <1>4, NamesData
<1>. QED
  BY <1>0, <1>1, <1>2, <1>3, <1>4, <1>5 DEF NamesSound

\* A step within a call.
LEMMA DoingSame ==
  ASSUME Busy, WriteStep \/ TruncStep, todo' = todo, onfail' = onfail, ~TruncNothing
  PROVE  Doing'
<1>0. /\ TypeOK /\ Stands /\ RootStays /\ Doing /\ todo # <<>> /\ Cur' = Cur
      /\ imap' = imap /\ dino' = dino /\ died' = died /\ dirty \subseteq dirty'
      /\ \A i \in Inodes : mem'[i].type = mem[i].type
      /\ \A i \in Inodes : i # Cur.in => mem'[i] = mem[i]
  BY BusyFacts, DataStepKeeps, DataCall, DataPlan, SameCall DEF command
<1>. PICK m \in Nat : m = Len(todo) /\ m >= 1 /\ Cur = todo[1]
  BY <1>0, CurFirst
<1>a. ~StoreLastCsum
  <2>. SUFFICES ASSUME StoreLastCsum PROVE FALSE
    OBVIOUS
  <2>1. todo' = Tail(todo)
    BY DEF StoreLastCsum, Return
  <2>2. Len(todo') = m - 1
    BY <1>0, <2>1, TailLeft
  <2>. QED
    BY <2>2
<1>b. pc' = "csum" <=> StoreData
  <2>1. pc' = "csum" => StoreData
    BY DEF WriteStep, TruncStep, BeginWrite, MapExisting, MapDirect, MapIndirect,
       ReadIndirect, MapChild, NoChild, WriteIndirect, MapFails, WriteIndirectFails,
       StoreCsum, StoreLastCsum, TruncNothing, BeginTrunc, ZeroDirect, UnmarkDirect,
       TruncDirectOnly, LoadIndirect, ZeroChild, UnmarkChild, ZeroIndirect, UnmarkIndirect,
       KeepIndirect, Fail, Return
  <2>2. StoreData => pc' = "csum"
    BY DEF StoreData
  <2>. QED
    BY <2>1, <2>2
<1>c. ASSUME Cur.n = 1, Cur.op = "write"
      PROVE  /\ pc # "csum" /\ WriteStep /\ mem'[Cur.in].size = mem[Cur.in].size
             /\ StoreData \/ pc' # "csum"
  <2>1. WriteStep
    BY <1>0, <1>c, DataCall
  <2>2. ~StoreCsum /\ mem'[Cur.in].size = mem[Cur.in].size
    BY <1>0, <1>a, <1>c, <2>1, DataCall, WriteSizes
  <2>3. pc # "csum"
    BY <1>a, <2>1, <2>2 DEF WriteStep, BeginWrite, MapExisting, MapDirect, MapIndirect,
       ReadIndirect, MapChild, NoChild, WriteIndirect, MapFails, WriteIndirectFails,
       StoreData, Running
  <2>. QED
    BY <1>b, <2>1, <2>2, <2>3
<1>d. ASSUME NEW i \in Inodes, Writing(i) PROVE Writing(i)'
  BY <1>0, <1>d DEF Writing, Is, SyncCall
<1>e. ASSUME NEW i \in Inodes, Removing(i) PROVE Removing(i)'
  <2>1. m = 5 => Cur.n = 1 /\ Cur.op = "write" /\ Cur.val = Removed
    BY <1>e, RemovingLeft DEF Is
  <2>2. Cur.op = "write" => m = 5
    BY <1>e, RemovingLeft, CallOps
  <2>3. i + 1 > 0 /\ i + 1 # Removed
    BY Sizes DEF Removed
  <2>4. m = 5 /\ pc' # "csum" => Cur.off \in Known(0)' /\ MemCell(0, Cur.off)' = i + 1
    <3>. SUFFICES ASSUME m = 5, pc' # "csum"
                  PROVE  Cur.off \in Known(0)' /\ MemCell(0, Cur.off)' = i + 1
      OBVIOUS
    <3>1. Cur.off \in Known(0) /\ MemCell(0, Cur.off) = i + 1
      BY <1>c, <1>e, <2>1, RemovingLeft
    <3>2. 0 \in Dirs
      BY <1>0, ReachBasics DEF RootStays, Dirs
    <3>. PICK k : k = Cur.off
      OBVIOUS
    <3>3. Known(0)' = Known(0) /\ MemCell(0, k)' = MemCell(0, k)
      BY <1>b, <3>1, <3>2, NamesKept
    <3>4. MemCell(0, Cur.off)' = MemCell(0, k)'
      BY <1>0, Zenon DEF MemCell
    <3>. QED
      BY <3>1, <3>3, <3>4
  <2>5. m >= 2 /\ (m < 5 \/ pc' = "csum") => ~Named(i)'
    <3>1. CASE m = 5 /\ pc' = "csum"
      BY <1>b, <1>e, <3>1, ErasesName
    <3>2. ASSUME m < 5, m >= 2
          PROVE  ~Named(i)'
      <4>1. ~Named(i)
        BY <1>e, <3>2, RemovingLeft
      <4>2. m # 5
        <5>1. \A n \in Nat : n < 5 => n # 5
          OBVIOUS
        <5>. QED
          BY <3>2, <5>1, Zenon
      <4>3. StoreData => Cur.op = "write"
        BY DEF StoreData, Running, Cur
      <4>4. ~StoreData
        BY <2>2, <4>2, <4>3, Zenon
      <4>. QED
        BY <4>1, <4>4, UnnamedData
    <3>3. m \in 1 .. 5
      BY <1>e, RemovingLeft
    <3>. QED
      BY <3>1, <3>2, <3>3
  <2>6. /\ m \in 1 .. 5 /\ i # 0 /\ todo'[m] = SyncCall(0)
        /\ m >= 2 => todo'[m - 1] = SyncCall(i)
        /\ m >= 3 => todo'[m - 2] = ReleaseCall(i) /\ i \in imap'
        /\ m >= 4 => todo'[m - 3] = TruncCall(i, 0)
        /\ m = 5 => Is(Cur', "write", 0) /\ Cur'.n = 1 /\ Cur'.val = Removed /\ onfail' = <<>>
        /\ m < 5 => 0 \in dirty'
        /\ m = 2 => i \in dirty'
    BY <1>0, <1>e, RemovingLeft
  <2>. QED
    BY <1>0, <2>4, <2>5, <2>6, RemovingNext, SMTT(30)
<1>f. ASSUME NEW i \in Inodes, NEW p \in Inodes, Creating(p, i) PROVE Creating(p, i)'
  <2>0. PICK k \in 1 .. m :
          /\ Cur = todo[k] /\ (k <= m - 3 \/ (k = m - 2 /\ m = 3))
          /\ WriteStep /\ Cur.n = 1 /\ Cur.op = "write"
    <3>1. ~TruncStep
      <4>1. m >= 3 => Cur.op = "write"
        <5>1. m > 3 => 1 \in 1 .. (m - 3)
          OBVIOUS
        <5>. QED
          BY <1>f, <5>1, CreatingLeft DEF Is
      <4>2. m < 3 => Cur.op = "sync"
        <5>1. m < 3 => m = 1 \/ m = 2
          OBVIOUS
        <5>. QED
          BY <1>f, <5>1, CreatingLeft, CallOps
      <4>. QED
        BY <1>0, <4>1, <4>2, DataCall
    <3>2. WriteStep /\ Cur.op = "write"
      BY <1>0, <3>1, DataCall
    <3>3. m >= 3
      <4>1. m < 3 => m = 1 \/ m = 2
        OBVIOUS
      <4>. QED
        BY <1>f, <3>2, <4>1, CreatingLeft, CallOps
    <3>4. m > 3 => 1 \in 1 .. (m - 3)
      OBVIOUS
    <3>5. Cur.n = 1
      BY <1>f, <3>3, <3>4, CreatingLeft
    <3>. QED
      BY <3>2, <3>3, <3>5
  <2>1. m > 3 \/ (m = 3 /\ pc' # "csum") => ~Named(i)'
    <3>. SUFFICES ASSUME m > 3 \/ (m = 3 /\ pc' # "csum") PROVE ~Named(i)'
      OBVIOUS
    <3>1. ~Named(i)
      BY <1>c, <1>f, <2>0, CreatingLeft
    <3>2. ~(StoreData /\ Cur.in \in Dirs /\ Cur.val = i + 1)
      <4>1. CASE m = 3
        BY <1>b, <4>1
      <4>2. CASE m > 3
        <5>1. Cur.in = i \/ Cur.val = 0
          BY <1>f, <2>0, <4>2, CreatingLeft DEF Is
        <5>2. i \notin Dirs /\ i + 1 # 0
          BY <1>f, CreatingLeft, Sizes DEF Dirs, Blank
        <5>. QED
          BY <5>1, <5>2
      <4>. QED
        BY <4>1, <4>2
    <3>. QED
      BY <3>1, <3>2, UnnamedData
  <2>2. mem'[i].type = "dir" => mem'[i].size <= 2
    BY <1>0, <1>c, <1>f, <2>0, CreatingLeft
  <2>3. /\ m >= 1 /\ i # 0 /\ i # p /\ todo'[m] = SyncCall(i)
        /\ m >= 2 => todo'[m - 1] = SyncCall(p)
        /\ m >= 3 => /\ Is(todo'[m - 2], "write", p) /\ todo'[m - 2].n = 1
                      /\ todo'[m - 2].val = i + 1
                      /\ onfail' = <<TruncCall(i, 0), ReleaseCall(i), SyncCall(i)>>
        /\ \A q \in 1 .. (m - 3) :
              /\ todo'[q].n = 1
              /\ \/ Is(todo'[q], "write", i) /\ todo'[q].off < 2
                 \/ Is(todo'[q], "write", p) /\ todo'[q].val = 0
        /\ m = 2 => p \in dirty'
        /\ p \in imap' /\ mem'[p].type = "dir" /\ dino'[p].type = "dir"
        /\ i \in imap' /\ i \in dirty' /\ dino'[i] = Blank
        /\ mem'[i].type # "none"
    <3>1. /\ m >= 1 /\ i # 0 /\ i # p /\ todo[m] = SyncCall(i)
          /\ m >= 2 => todo[m - 1] = SyncCall(p)
          /\ m = 2 => p \in dirty
          /\ p \in imap /\ mem[p].type = "dir" /\ dino[p].type = "dir"
          /\ i \in imap /\ i \in dirty /\ dino[i] = Blank /\ mem[i].type # "none"
      BY <1>f, CreatingLeft
    <3>2. /\ m >= 3 => /\ Is(todo[m - 2], "write", p) /\ todo[m - 2].n = 1
                        /\ todo[m - 2].val = i + 1
                        /\ onfail = <<TruncCall(i, 0), ReleaseCall(i), SyncCall(i)>>
          /\ \A q \in 1 .. (m - 3) :
                /\ todo[q].n = 1
                /\ \/ Is(todo[q], "write", i) /\ todo[q].off < 2
                   \/ Is(todo[q], "write", p) /\ todo[q].val = 0
      BY <1>f, CreatingLeft
    <3>. QED
      BY <1>0, <3>1, <3>2
  <2>. QED
    BY <1>0, <2>1, <2>2, <2>3, CreatingNext
<1>g. ASSUME NEW i \in Inodes, Undoing(i) PROVE Undoing(i)'
  <2>1. Cur.op # "write"
    BY <1>g, CallOps DEF Undoing
  <2>2. TruncStep /\ ~StoreData
    BY <1>0, <2>1, DataCall DEF WriteStep
  <2>3. ~(pc = "ready" /\ Inode.size <= Cur.off)
    <3>. SUFFICES ASSUME pc = "ready", Inode.size <= Cur.off PROVE FALSE
      OBVIOUS
    <3>1. Inode.size > Cur.off
      BY <1>0, <2>2, DataCall DEF BeginTrunc
    <3>. QED
      BY <1>0, <3>1, DataCall, Current, SizeNat DEF Inode
  <2>4. ~Named(i)'
    BY <1>g, <2>2, UnnamedData DEF Undoing
  <2>5. /\ m \in 1 .. 4 /\ i # 0 /\ todo'[m] = SyncCall(i)
        /\ m >= 2 => todo'[m - 1] = ReleaseCall(i) /\ i \in imap'
        /\ m >= 3 => todo'[m - 2] = TruncCall(i, 0)
        /\ m = 4 => Cur'.op = "trunc" /\ Cur'.in = i
        /\ i \in dirty'
    BY <1>0, <1>g, <2>3 DEF Undoing
  <2>. QED
    BY <1>0, <2>4, <2>5, UndoingNext
<1>h. ~StandsStill
  <2>. SUFFICES ASSUME StandsStill PROVE FALSE
    OBVIOUS
  <2>1. Cur.op = "trunc" /\ pc = "ready" /\ Inode.size <= Cur.off
    BY DEF StandsStill
  <2>2. BeginTrunc
    BY <1>0, <2>1, DataCall
  <2>3. Inode.size > Cur.off
    BY <2>2 DEF BeginTrunc
  <2>. QED
    BY <1>0, <2>1, <2>3, DataCall, Current, SizeNat DEF Inode
<1>. QED
  BY <1>0, <1>d, <1>e, <1>f, <1>g, <1>h DEF Doing

\* A call that ends.
LEMMA DoingTail ==
  ASSUME Busy, WriteStep \/ TruncStep, todo' = Tail(todo), onfail' = onfail,
         ~StoreData, WriteStep => StoreLastCsum, TruncNothing \/ Cur.in \in dirty',
         dirty \subseteq dirty'
  PROVE  Doing'
<1>0. /\ TypeOK /\ Stands /\ RootStays /\ Doing /\ todo # <<>>
      /\ imap' = imap /\ dino' = dino /\ died' = died
      /\ \A i \in Inodes : mem'[i].type = mem[i].type
      /\ \A i \in Inodes : i # Cur.in => mem'[i] = mem[i]
      /\ Cur.op \in {"write", "trunc"}
      /\ Cur.op = "write" => /\ WriteStep /\ StoreLastCsum /\ pc = "csum" /\ Cur.in \in dirty'
                             /\ Cur.in \in Inodes
  <2>1. TypeOK /\ Stands /\ RootStays /\ Doing
    BY BusyFacts
  <2>2. /\ imap' = imap /\ dino' = dino /\ command' = command /\ todo # <<>>
        /\ \A i \in Inodes : mem'[i].type = mem[i].type
        /\ \A i \in Inodes : i # Cur.in => mem'[i] = mem[i]
    BY <2>1, DataStepKeeps
  <2>3. Cur.op \in {"write", "trunc"} /\ (TruncStep => Cur.op = "trunc") /\ Cur.in \in Inodes
    BY <2>1, DataCall
  <2>4. StoreLastCsum => pc = "csum"
    BY DEF StoreLastCsum, Running
  <2>5. TruncNothing => TruncStep
    BY DEF TruncStep
  <2>. QED
    BY <2>1, <2>2, <2>3, <2>4, <2>5 DEF command
<1>. PICK m \in Nat : m = Len(todo) /\ m >= 1 /\ Cur = todo[1]
  BY <1>0, CurFirst
<1>1. Len(todo') = m - 1 /\ \A k \in 1 .. (m - 1) : todo'[k] = todo[k + 1]
  BY <1>0, TailLeft
<1>u. ASSUME NEW i \in Inodes, ~Named(i) PROVE ~Named(i)'
  BY <1>u, UnnamedData
<1>d. ASSUME NEW i \in Inodes, Writing(i) PROVE Writing(i)'
  <2>1. /\ m \in {1, 2, 3} /\ todo[m] = SyncCall(i)
        /\ m >= 2 => Is(todo[m - 1], "trunc", i)
        /\ m = 3 => Is(Cur, "write", i)
        /\ m < 3 => i \in dirty
        /\ i \in imap /\ mem[i].type # "dir" /\ mem[i].type = dino[i].type
        /\ died \/ dino[i].type # "none"
    BY <1>d DEF Writing
  <2>2. m # 1
    BY <1>0, <2>1, CallOps
  <2>3. m = 3 => i \in dirty'
    BY <1>0, <2>1 DEF Is
  <2>4. m - 1 \in 1 .. 2 /\ m - 1 \in Nat /\ todo'[m - 1] = todo[m] /\ i \in dirty'
    BY <1>1, <2>1, <2>2, <2>3
  <2>5. m - 1 >= 2 => todo'[(m - 1) - 1] = todo[m - 1]
    BY <1>1, <2>1
  <2>6. died' \/ dino'[i].type # "none"
    BY <1>0, <2>1
  <2>. PICK n \in Nat : n = m - 1
    BY <2>4
  <2>. QED
    BY <1>0, <1>1, <2>1, <2>4, <2>5, <2>6, WritingNext
<1>e. ASSUME NEW i \in Inodes, Removing(i) PROVE Removing(i)'
  <2>1. m \in {4, 5}
    <3>1. m \in 1 .. 5 /\ m # 1 /\ m # 2 /\ m # 3
      <4>1. /\ m \in 1 .. 5 /\ todo[m] = SyncCall(0)
            /\ m >= 2 => todo[m - 1] = SyncCall(i)
            /\ m >= 3 => todo[m - 2] = ReleaseCall(i)
        BY <1>e, RemovingLeft
      <4>2. Cur # SyncCall(0) /\ Cur # SyncCall(i) /\ Cur # ReleaseCall(i)
        BY <1>0, CallOps
      <4>3. m # 1
        BY <4>1, <4>2
      <4>4. m # 2
        BY <4>1, <4>2
      <4>5. m # 3
        BY <4>1, <4>2
      <4>. QED
        BY <4>1, <4>3, <4>4, <4>5
    <3>. QED
      BY <3>1
  <2>. PICK n \in {3, 4} : n = m - 1 /\ m = n + 1
    BY <2>1
  <2>2. i # 0 /\ i \in imap /\ todo[m] = SyncCall(0) /\ todo[m - 1] = SyncCall(i)
        /\ todo[m - 2] = ReleaseCall(i) /\ todo[m - 3] = TruncCall(i, 0)
    BY <1>e, <2>1, RemovingLeft, SMTT(30)
  <2>3. todo'[n] = SyncCall(0) /\ todo'[n - 1] = SyncCall(i) /\ todo'[n - 2] = ReleaseCall(i)
        /\ (n = 4 => todo'[n - 3] = TruncCall(i, 0)) /\ Len(todo') = n
    BY <1>1, <2>2
  <2>4. 0 \in dirty'
    BY <1>0, <1>e, <2>1, RemovingLeft DEF Is
  <2>5. ~Named(i)
    <3>1. m = 5 => pc = "csum"
      BY <1>0, <1>e, RemovingLeft DEF Is
    <3>2. m >= 2 /\ (m < 5 \/ m = 5)
      BY <2>1
    <3>. QED
      BY <1>e, <3>1, <3>2, RemovingLeft
  <2>6. ~Named(i)'
    BY <1>u, <2>5
  <2>7. /\ n \in Nat /\ n \in 1 .. 5 /\ n < 5
        /\ n >= 2 => todo'[n - 1] = SyncCall(i)
        /\ n >= 3 => todo'[n - 2] = ReleaseCall(i) /\ i \in imap'
        /\ n >= 4 => todo'[n - 3] = TruncCall(i, 0)
        /\ n # 5 /\ n # 2
    <3>1. n \in Nat /\ n \in 1 .. 5 /\ n < 5 /\ n # 5 /\ n # 2
      <4>1. \A q \in {3, 4} : q \in Nat /\ q \in 1 .. 5 /\ q < 5 /\ q # 5 /\ q # 2
        OBVIOUS
      <4>. QED
        BY <4>1, Zenon
    <3>2. i \in imap'
      BY <1>0, <2>2
    <3>3. n >= 4 => n = 4
      BY <3>1
    <3>. QED
      BY <2>3, <3>1, <3>2, <3>3, Zenon
  <2>. QED
    BY <2>2, <2>3, <2>4, <2>6, <2>7, RemovingNext
<1>f. ASSUME NEW i \in Inodes, NEW p \in Inodes, Creating(p, i) PROVE Creating(p, i)'
  <2>1. /\ m >= 1 /\ i # 0 /\ i # p /\ todo[m] = SyncCall(i)
        /\ m >= 2 => todo[m - 1] = SyncCall(p)
        /\ p \in imap /\ mem[p].type = "dir" /\ dino[p].type = "dir"
        /\ i \in imap /\ i \in dirty /\ dino[i] = Blank /\ mem[i].type # "none"
        /\ mem[i].type = "dir" => mem[i].size <= 2
    BY <1>f, CreatingLeft
  <2>2. /\ m >= 3 => /\ Is(todo[m - 2], "write", p) /\ todo[m - 2].n = 1
                     /\ todo[m - 2].val = i + 1
                     /\ onfail = <<TruncCall(i, 0), ReleaseCall(i), SyncCall(i)>>
        /\ \A k \in 1 .. (m - 3) :
              /\ todo[k].n = 1
              /\ \/ Is(todo[k], "write", i) /\ todo[k].off < 2
                 \/ Is(todo[k], "write", p) /\ todo[k].val = 0
    BY <1>f, CreatingLeft
  <2>3. m # 1 /\ m # 2
    BY <1>0, <2>1, CallOps
  <2>. PICK n \in Nat : n = m - 1 /\ m = n + 1 /\ n >= 2
    BY <2>3
  <2>4. todo'[n] = todo[m] /\ todo'[n - 1] = todo[m - 1] /\ Len(todo') = n
        /\ (n >= 3 => todo'[n - 2] = todo[m - 2])
        /\ \A k \in 1 .. (n - 3) : todo'[k] = todo[k + 1] /\ k + 1 \in 1 .. (m - 3)
    BY <1>1
  <2>5. \A k \in 1 .. (n - 3) :
              /\ todo'[k].n = 1
              /\ \/ Is(todo'[k], "write", i) /\ todo'[k].off < 2
                 \/ Is(todo'[k], "write", p) /\ todo'[k].val = 0
    BY <2>2, <2>4
  <2>6. n >= 3 => /\ Is(todo'[n - 2], "write", p) /\ todo'[n - 2].n = 1
                  /\ todo'[n - 2].val = i + 1
                  /\ onfail' = <<TruncCall(i, 0), ReleaseCall(i), SyncCall(i)>>
    BY <2>2, <2>4
  <2>7. n >= 3 => ~Named(i)'
    <3>. SUFFICES ASSUME n >= 3 PROVE ~Named(i)
      BY <1>u
    <3>1. m > 3
      OBVIOUS
    <3>. QED
      BY <1>f, <3>1, CreatingLeft
  <2>8. Cur.op = "write" /\ Cur.n = 1 /\ (Cur.in = i => Cur.off < 2) /\ (n = 2 => Cur.in = p)
    <3>1. CASE m = 3
      BY <2>1, <2>2, <3>1 DEF Is
    <3>2. CASE m > 3
      <4>1. 1 \in 1 .. (m - 3) /\ n # 2
        BY <3>2
      <4>2. Cur.n = 1 /\ \/ Is(Cur, "write", i) /\ Cur.off < 2
                         \/ Is(Cur, "write", p)
        BY <2>2, <4>1
      <4>. QED
        BY <2>1, <4>1, <4>2 DEF Is
    <3>. QED
      BY <3>1, <3>2
  <2>9. n = 2 => p \in dirty'
    BY <1>0, <2>8
  <2>10. mem'[i].type = "dir" => mem'[i].size <= 2
    <3>1. CASE Cur.in # i
      BY <1>0, <2>1, <3>1
    <3>2. CASE Cur.in = i
      <4>1. mem'[i].size = MaxOf(mem[i].size, Cur.off + 1) /\ mem[i].size \in Nat
        BY <1>0, <2>8, <3>2, WriteSizes
      <4>2. Cur.off \in Nat
        BY <1>0, Current
      <4>. QED
        BY <1>0, <2>1, <2>8, <3>2, <4>1, <4>2 DEF MaxOf
    <3>. QED
      BY <3>1, <3>2
  <2>11. /\ n >= 1 /\ todo'[n] = SyncCall(i) /\ (n >= 2 => todo'[n - 1] = SyncCall(p))
         /\ n > 3 \/ (n = 3 /\ pc' # "csum") => ~Named(i)'
         /\ p \in imap' /\ mem'[p].type = "dir" /\ dino'[p].type = "dir"
         /\ i \in imap' /\ i \in dirty' /\ dino'[i] = Blank /\ mem'[i].type # "none"
    BY <1>0, <2>1, <2>3, <2>4, <2>7
  <2>12. Len(todo') = n /\ i # 0 /\ i # p
    BY <2>1, <2>4
  <2>. QED
    BY <2>5, <2>6, <2>9, <2>10, <2>11, <2>12, CreatingNext
<1>g. ASSUME NEW i \in Inodes, Undoing(i) PROVE Undoing(i)'
  <2>1. /\ m \in {3, 4} /\ i # 0 /\ todo[m] = SyncCall(i) /\ i \in imap
        /\ todo[m - 1] = ReleaseCall(i) /\ todo[m - 2] = TruncCall(i, 0)
        /\ i \in dirty /\ ~Named(i)
    <3>1. m \in 1 .. 4 /\ m # 1 /\ m # 2
      BY <1>0, <1>g, CallOps DEF Undoing
    <3>2. m \in {3, 4}
      BY <3>1
    <3>. QED
      BY <1>g, <3>2 DEF Undoing
  <2>. PICK n \in {2, 3} : n = m - 1 /\ m = n + 1
    BY <2>1
  <2>2. todo'[n] = SyncCall(i) /\ todo'[n - 1] = ReleaseCall(i)
        /\ (n = 3 => todo'[n - 2] = TruncCall(i, 0)) /\ Len(todo') = n
    BY <1>1, <2>1
  <2>3. ~Named(i)'
    BY <1>u, <2>1
  <2>4. /\ n \in Nat /\ n \in 1 .. 4 /\ n # 4
        /\ n >= 2 => todo'[n - 1] = ReleaseCall(i) /\ i \in imap'
        /\ n >= 3 => todo'[n - 2] = TruncCall(i, 0)
        /\ i \in dirty'
    <3>1. n \in Nat /\ n \in 1 .. 4 /\ n # 4
      <4>1. \A q \in {2, 3} : q \in Nat /\ q \in 1 .. 4 /\ q # 4
        OBVIOUS
      <4>. QED
        BY <4>1, Zenon
    <3>2. i \in imap' /\ i \in dirty'
      BY <1>0, <2>1
    <3>. QED
      BY <2>2, <3>1, <3>2
  <2>. QED
    BY <2>1, <2>2, <2>3, <2>4, UndoingNext
<1>h. StandsStill => todo' = <<>>
  BY <1>0, TailLeft DEF StandsStill
<1>. QED
  BY <1>0, <1>d, <1>e, <1>f, <1>g, <1>h DEF Doing

\* A write that fails.
LEMMA DoingCut ==
  ASSUME Busy, MapFails \/ WriteIndirectFails, todo' = CutBack \o onfail, pc' = "ready",
         Cur.in \in dirty', dirty \subseteq dirty'
  PROVE  Doing'
<1>0. /\ TypeOK /\ Stands /\ WriteStep /\ todo # <<>> /\ Cur.in \in Inodes
      /\ imap' = imap /\ dino' = dino /\ died' = died
      /\ \A i \in Inodes : mem'[i].type = mem[i].type
  BY BusyFacts, DataStepKeeps, DataCall DEF WriteStep, command
<1>. PICK m \in Nat : m = Len(todo) /\ m >= 1 /\ Cur = todo[1]
  BY <1>0, CurFirst
<1>. PICK n \in Nat : n = Len(onfail)
  <2>1. onfail \in Seq(Call)
    BY <1>0 DEF TypeOK
  <2>. QED
    BY <2>1
<1>1. /\ Len(todo') = n + 1 /\ todo' # <<>> /\ Cur' = TruncCall(Cur.in, Inode.size)
      /\ todo'[1] = Cur' /\ \A k \in 1 .. n : todo'[k + 1] = onfail[k]
  BY <1>0, CutLeft
<1>. PICK i \in Inodes :
              \/ Writing(i) /\ m = 3 /\ Cur.in = i /\ onfail = <<SyncCall(i)>>
              \/ /\ Removing(i) /\ m = 5 /\ Cur.in = 0 /\ onfail = <<>>
                 /\ mem'[Cur.in].size = Inode.size
              \/ \E p \in Inodes : Creating(p, i) /\ m >= 3
                   /\ onfail = <<TruncCall(i, 0), ReleaseCall(i), SyncCall(i)>>
                   /\ ~Named(i) /\ mem'[Cur.in].size = Inode.size
  BY FailPlan
<1>2. Inode.size \in Nat
  BY <1>0, Current DEF Dinode
<1>3. CASE Writing(i) /\ m = 3 /\ Cur.in = i /\ onfail = <<SyncCall(i)>>
  <2>1. n = 1 /\ onfail[1] = SyncCall(i)
    BY <1>3
  <2>2. Len(todo') = 2 /\ todo'[2] = SyncCall(i) /\ Is(todo'[1], "trunc", i)
    BY <1>1, <1>3, <2>1, CallOps DEF Is
  <2>3. /\ i \in imap /\ mem[i].type # "dir" /\ mem[i].type = dino[i].type
        /\ died \/ dino[i].type # "none"
    BY <1>3 DEF Writing
  <2>4. Writing(i)'
    <3>1. died' \/ dino'[i].type # "none"
      BY <1>0, <2>3
    <3>. QED
      BY <1>0, <1>3, <2>2, <2>3, <3>1, WritingNext
  <2>. QED
    BY <2>4 DEF Doing
<1>4. CASE Cur.in = 0 /\ onfail = <<>> /\ mem'[Cur.in].size = Inode.size
  <2>1. Len(todo') = 1 /\ Cur'.op = "trunc" /\ Cur'.in = 0 /\ Cur'.off = Inode.size
    BY <1>1, <1>4, CallOps
  <2>2. Inode' = mem'[0]
    BY <2>1, Zenon DEF Inode
  <2>3. StandsStill'
    BY <1>2, <1>4, <2>1, <2>2 DEF StandsStill
  <2>. QED
    BY <2>3 DEF Doing
<1>5. ASSUME NEW p \in Inodes, Creating(p, i), m >= 3,
             onfail = <<TruncCall(i, 0), ReleaseCall(i), SyncCall(i)>>,
             ~Named(i), mem'[Cur.in].size = Inode.size
      PROVE  Doing'
  <2>1. /\ n = 3 /\ onfail[1] = TruncCall(i, 0) /\ onfail[2] = ReleaseCall(i)
        /\ onfail[3] = SyncCall(i)
    BY <1>5
  <2>2. /\ Len(todo') = 4 /\ todo'[4] = SyncCall(i) /\ todo'[3] = ReleaseCall(i)
        /\ todo'[2] = TruncCall(i, 0)
    BY <1>1, <2>1
  <2>3. Cur'.op = "trunc" /\ Cur'.in = Cur.in /\ Cur'.off = Inode.size
    BY <1>1, CallOps
  <2>4. mem'[Cur'.in].size <= Cur'.off
    BY <1>2, <1>5, <2>3
  <2>5. i # 0 /\ i \in imap /\ i \in dirty
    BY <1>5, CreatingLeft
  <2>6. ~StoreData
    BY DEF MapFails, WriteIndirectFails, StoreData, Running
  <2>7. ~Named(i)'
    BY <1>0, <1>5, <2>6, UnnamedData
  <2>8. Undoing(i)'
    <3>. PICK q \in Nat : q = 4
      OBVIOUS
    <3>1. /\ q = Len(todo') /\ q \in 1 .. 4 /\ todo'[q] = SyncCall(i)
          /\ q >= 2 => todo'[q - 1] = ReleaseCall(i) /\ i \in imap'
          /\ q >= 3 => todo'[q - 2] = TruncCall(i, 0)
          /\ i \in dirty' /\ i # 0
      BY <1>0, <2>2, <2>5
    <3>2. q = 4 => /\ Cur'.op = "trunc"
                   /\ Cur'.in = i \/ (pc' = "ready" /\ mem'[Cur'.in].size <= Cur'.off)
      BY <2>3, <2>4
    <3>. QED
      BY <2>7, <3>1, <3>2, UndoingNext
  <2>. QED
    BY <2>8 DEF Doing
<1>. QED
  BY <1>3, <1>4, <1>5

\* A data step keeps to the plan, or turns to the calls of the error path.
LEMMA DoingData ==
  ASSUME Busy, WriteStep \/ TruncStep
  PROVE  Doing'
<1>1. TypeOK /\ Stands
  BY BusyFacts
<1>. QED
  BY <1>1, DataPlan, DoingSame, DoingTail, DoingCut

-----------------------------------------------------------------------------
(* Steps that write no data block.                                         *)

\* An inode that is left alone between two calls holds what it held and names what it named.
LEMMA QuietHeld ==
  ASSUME NEW i, pc \notin Loaded \cup {"csum"}, pc' \notin Loaded \cup {"csum"},
         blk' = blk, mem'[i] = mem[i]
  PROVE  /\ \A s : HeldAt(i, s)' = HeldAt(i, s)
         /\ Known(i)' = Known(i)
         /\ \A k : MemCell(i, k)' = MemCell(i, k)
<1>0. pc \notin Loaded /\ pc # "csum" /\ pc' \notin Loaded /\ pc' # "csum"
  OBVIOUS
<1>1. \A s : HeldAt(i, s)' = HeldAt(i, s)
  BY <1>0, Zenon DEF HeldAt, Table
<1>2. Known(i)' = Known(i)
  BY <1>0, Zenon DEF Known
<1>3. ASSUME NEW k PROVE MemCell(i, k)' = MemCell(i, k)
  BY <1>1, SameCell
<1>. QED
  BY <1>1, <1>2, <1>3

\* checkfs reads the inodes and the blocks.
LEMMA ReachSame ==
  ASSUME dino' = dino, blk' = blk
  PROVE  Reachable' = Reachable /\ Dirs' = Dirs
<1>1. Reachable' = Reachable
  BY DEF Reachable, Children, LiveSlots, CellAt, BlockAt
<1>. QED
  BY <1>1 DEF Dirs

\* Names stay sound when every directory keeps its names, and none is new but an empty one.
LEMMA NamesStay ==
  ASSUME TypeOK, Stands, NamesSound,
         \A d \in Dirs' : \/ d \in Dirs /\ Known(d)' = Known(d) /\ \A k : MemCell(d, k)' = MemCell(d, k)
                          \/ Known(d)' = {},
         \A d \in Dirs, x \in Inodes : \A k \in Known(d) :
           /\ d \in Dirs' /\ MemCell(d, k) = x + 1 /\ x \in imap
           /\ k < dino[d].size \/ NewName(d, x)
           => x \in imap' /\ (k < dino'[d].size \/ NewName(d, x)')
  PROVE  NamesSound'
<1>1. ASSUME NEW d \in Dirs', NEW k \in Known(d)', MemCell(d, k)' > 0
      PROVE  \E x : /\ x = MemCell(d, k)' - 1
                    /\ x \in Inodes \cap imap' /\ x # 0 /\ (k < dino'[d].size \/ NewName(d, x)')
  <2>0. d \in Dirs /\ d \in Inodes /\ k \in Known(d) /\ MemCell(d, k)' = MemCell(d, k)
    BY <1>1, ReachBasics
  <2>1. k \in Nat
    BY <2>0, KnownBasics
  <2>2. MemCell(d, k) \in Int
    BY <2>1, MemCellInt
  <2>. PICK x \in Int : x = MemCell(d, k) - 1 /\ MemCell(d, k) = x + 1
    BY <2>2
  <2>3. x \in Inodes \cap imap /\ x # 0 /\ (k < dino[d].size \/ NewName(d, x))
    BY <1>1, <2>0 DEF NamesSound
  <2>4. x \in imap' /\ (k < dino'[d].size \/ NewName(d, x)')
    BY <1>1, <2>0, <2>3
  <2>. QED
    BY <2>0, <2>3, <2>4
<1>2. ASSUME NEW c \in Dirs', NEW d \in Dirs', NEW j \in Known(c)', NEW k \in Known(d)',
             MemCell(c, j)' > 0, MemCell(c, j)' = MemCell(d, k)'
      PROVE  c = d /\ j = k
  <2>1. /\ c \in Dirs /\ j \in Known(c) /\ MemCell(c, j)' = MemCell(c, j)
        /\ d \in Dirs /\ k \in Known(d) /\ MemCell(d, k)' = MemCell(d, k)
    BY <1>2
  <2>. QED
    BY <1>2, <2>1 DEF NamesSound
<1>. QED
  BY <1>1, <1>2 DEF NamesSound

\* A release is the removal of a file that no directory names any more, or the undoing of
\* a creation that named none.
LEMMA ReleaseFacts ==
  ASSUME Busy, ReleaseInode
  PROVE  \E i \in Inodes :
           /\ Cur.in = i /\ Cur.op = "release" /\ i # 0 /\ i \in imap /\ ~Named(i)
           /\ i \notin Reachable /\ pc = "ready" /\ todo # <<>>
           /\ mem' = [mem EXCEPT ![i] = Blank] /\ dirty' = dirty \cup {i} /\ imap' = imap \ {i}
           /\ todo' = Tail(todo) /\ pc' = "ready" /\ dino' = dino /\ blk' = blk /\ died' = died
           /\ Closing(i)'
           /\ Doing'
<1>1. TypeOK /\ Stands /\ Doing /\ DirsKept /\ todo # <<>> /\ Cur.op = "release" /\ pc = "ready"
  BY BusyFacts DEF ReleaseInode, Running, Cur
<1>. PICK m \in Nat : m = Len(todo) /\ m >= 1 /\ Cur = todo[1]
  BY <1>1, CurFirst
<1>. PICK i \in Inodes : Cur.in = i /\ \/ Removing(i) /\ m = 3
                                       \/ Undoing(i) /\ m = 2
  BY <1>1, ReleasePlan
<1>2. /\ mem' = [mem EXCEPT ![i] = Blank] /\ dirty' = dirty \cup {i} /\ imap' = imap \ {i}
      /\ todo' = Tail(todo) /\ pc' = "ready" /\ dino' = dino /\ blk' = blk /\ died' = died
      /\ i \in imap
  BY DEF ReleaseInode, SetInode, Return, command
<1>3. Len(todo') = m - 1 /\ \A k \in 1 .. (m - 1) : todo'[k] = todo[k + 1]
  BY <1>1, <1>2, TailLeft
<1>4. i # 0 /\ ~Named(i)
  BY <1>1, RemovingLeft DEF Undoing
<1>5. i \notin Reachable
  BY <1>1, <1>4, ReachableNamed
<1>6. ~Named(i)'
  <2>1. Dirs' = Dirs
    BY <1>2, ReachSame
  <2>2. ASSUME NEW d \in Dirs PROVE Known(d)' = Known(d) /\ \A k : MemCell(d, k)' = MemCell(d, k)
    <3>1. mem'[d] = mem[d] /\ pc \notin Loaded \cup {"csum"} /\ pc' \notin Loaded \cup {"csum"}
      <4>1. d # i /\ d \in Inodes
        BY <1>5, BusyFacts
      <4>. QED
        BY <1>1, <1>2, <4>1 DEF TypeOK, Loaded
    <3>. QED
      BY <1>2, <3>1, QuietHeld
  <2>. QED
    BY <1>4, <2>1, <2>2, Zenon DEF Named
<1>7. CASE Removing(i) /\ m = 3
  <2>1. todo[3] = SyncCall(0) /\ todo[2] = SyncCall(i) /\ 0 \in dirty
    BY <1>7, RemovingLeft
  <2>2. Len(todo') = 2 /\ todo'[1] = SyncCall(i) /\ todo'[2] = SyncCall(0)
    BY <1>3, <1>7, <2>1
  <2>3. Removing(i)'
    <3>. PICK q \in Nat : q = 2
      OBVIOUS
    <3>1. /\ q = Len(todo') /\ q \in 1 .. 5 /\ todo'[q] = SyncCall(0)
          /\ todo'[q - 1] = SyncCall(i) /\ ~(q >= 3) /\ ~(q >= 4) /\ q # 5
          /\ 0 \in dirty' /\ i \in dirty'
      BY <1>2, <2>1, <2>2
    <3>. QED
      BY <1>4, <1>6, <3>1, RemovingNext
  <2>4. Closing(i)'
    <3>1. todo' \in Seq(Call) /\ todo' # <<>>
      BY <1>1, <1>2, <2>2, Current
    <3>2. Cur' = SyncCall(i) /\ 1 \in DOMAIN todo'
      BY <2>2, <3>1 DEF Cur
    <3>. QED
      BY <2>2, <3>1, <3>2, CallOps DEF Closing, Window
  <2>. QED
    BY <1>1, <1>2, <1>4, <1>5, <2>3, <2>4 DEF Doing
<1>8. CASE Undoing(i) /\ m = 2
  <2>1. todo[2] = SyncCall(i)
    BY <1>8 DEF Undoing
  <2>2. Len(todo') = 1 /\ todo'[1] = SyncCall(i)
    BY <1>3, <1>8, <2>1
  <2>3. Undoing(i)'
    <3>. PICK q \in Nat : q = 1
      OBVIOUS
    <3>1. /\ q = Len(todo') /\ q \in 1 .. 4 /\ todo'[q] = SyncCall(i)
          /\ ~(q >= 2) /\ ~(q >= 3) /\ q # 4 /\ i \in dirty'
      BY <1>2, <2>2
    <3>. QED
      BY <1>4, <1>6, <3>1, UndoingNext
  <2>4. Closing(i)'
    <3>1. todo' \in Seq(Call) /\ todo' # <<>>
      BY <1>1, <1>2, <2>2, Current
    <3>2. Cur' = SyncCall(i) /\ 1 \in DOMAIN todo'
      BY <2>2, <3>1 DEF Cur
    <3>. QED
      BY <2>2, <3>1, <3>2, CallOps DEF Closing, Window
  <2>. QED
    BY <1>1, <1>2, <1>4, <1>5, <2>3, <2>4 DEF Doing
<1>. QED
  BY <1>7, <1>8

\* Giving back a number that no directory names keeps everything.
LEMMA ReleaseConsistent ==
  ASSUME Busy, ReleaseInode
  PROVE  Consistent' /\ Live' \subseteq Live
<1>. PICK i \in Inodes :
       /\ Cur.in = i /\ Cur.op = "release" /\ i # 0 /\ i \in imap /\ ~Named(i)
       /\ i \notin Reachable /\ pc = "ready" /\ todo # <<>>
       /\ mem' = [mem EXCEPT ![i] = Blank] /\ dirty' = dirty \cup {i} /\ imap' = imap \ {i}
       /\ todo' = Tail(todo) /\ pc' = "ready" /\ dino' = dino /\ blk' = blk /\ died' = died
       /\ Closing(i)' /\ Doing'
  BY ReleaseFacts
<1>0. /\ TypeOK /\ Stands /\ Doing /\ DirsKept /\ NamesSound /\ DiskBehind /\ UnmarkedBlank /\ Typed
      /\ Live \subseteq Inodes /\ Dirs \subseteq Inodes /\ Dirs \subseteq Reachable
      /\ Owned(Live) /\ Filled(Live) /\ Cur.in \in Live
  BY BusyFacts
<1>1. Reachable' = Reachable /\ Dirs' = Dirs
  BY ReachSame
<1>2. mem \in [Inodes -> Dinode] /\ mem'[i] = Blank /\ \A j \in Inodes : j # i => mem'[j] = mem[j]
  BY <1>0 DEF TypeOK
<1>3. ASSUME NEW j \in Inodes, j # i
      PROVE  /\ \A s : HeldAt(j, s)' = HeldAt(j, s)
             /\ Known(j)' = Known(j)
             /\ \A k : MemCell(j, k)' = MemCell(j, k)
             /\ OnDisk(j) => OnDisk(j)'
             /\ ~Closing(j)
  <2>1. /\ \A s : HeldAt(j, s)' = HeldAt(j, s)
        /\ Known(j)' = Known(j)
        /\ \A k : MemCell(j, k)' = MemCell(j, k)
    <3>1. pc \notin Loaded \cup {"csum"} /\ pc' \notin Loaded \cup {"csum"}
      BY DEF Loaded
    <3>. QED
      BY <1>2, <1>3, <3>1, QuietHeld
  <2>2. OnDisk(j) => OnDisk(j)'
    BY <2>1, SameOnDisk
  <2>3. ~Closing(j)
    BY <1>3 DEF Closing, Window
  <2>. QED
    BY <2>1, <2>2, <2>3
<1>4. \A d \in Dirs : d # i /\ d \in Inodes
  BY <1>0
<1>5. DirsKept'
  <2>. SUFFICES ASSUME NEW d \in Dirs
                PROVE  mem'[d].type = "dir" /\ dino'[d].size <= mem'[d].size /\ OnDisk(d)'
    BY <1>1 DEF DirsKept
  <2>. QED
    BY <1>0, <1>2, <1>3, <1>4 DEF DirsKept
<1>6. NamesSound'
  <2>1. ASSUME NEW d \in Dirs, NEW x \in Inodes, NEW k \in Known(d), MemCell(d, k) = x + 1, x \in imap,
               k < dino[d].size \/ NewName(d, x)
        PROVE  x \in imap' /\ (k < dino'[d].size \/ NewName(d, x)')
    <3>1. x # i
      BY <2>1 DEF Named
    <3>2. NewName(d, x) => NewName(d, x)'
      BY <1>0, TailKeepsName
    <3>. QED
      BY <2>1, <3>1, <3>2
  <2>2. \A d \in Dirs : Known(d)' = Known(d) /\ \A k : MemCell(d, k)' = MemCell(d, k)
    BY <1>3, <1>4
  <2>. QED
    BY <1>0, <1>1, <2>1, <2>2, NamesStay
<1>7. Live' \subseteq Live
  BY <1>0, <1>1, ActingShrinks DEF Live
<1>8. DiskBehind'
  <2>. SUFFICES ASSUME NEW j \in Live PROVE OnDisk(j)' \/ Closing(j)'
    BY <1>7 DEF DiskBehind
  <2>1. j = i \/ (j \in Inodes /\ j # i)
    BY <1>0
  <2>. QED
    BY <1>0, <1>3, <2>1 DEF DiskBehind
<1>9. UnmarkedBlank'
  <2>. SUFFICES ASSUME NEW j \in Inodes \ imap'
                PROVE  mem'[j] = Blank /\ (dino'[j] = Blank \/ Closing(j)')
    BY DEF UnmarkedBlank
  <2>1. CASE j # i
    BY <1>0, <1>2, <1>3, <2>1 DEF UnmarkedBlank
  <2>. QED
    BY <1>2, <2>1
<1>10. Typed'
  <2>. SUFFICES ASSUME ~died, NEW x \in Reachable
                PROVE  \/ dino'[x].type # "none"
                       \/ todo' # <<>> /\ todo'[Len(todo')] = SyncCall(x)
    BY <1>1 DEF Typed
  <2>. QED
    BY <1>0, TailKeepsLast DEF Typed
<1>11. Owned(Live)' /\ Filled(Live)'
  <2>. PICK P \in SUBSET Inodes : P = Live
    BY <1>0
  <2>. PICK Q \in SUBSET P : Q = Live'
    BY <1>7
  <2>1. Owned(P)' /\ Filled(P)'
    BY <1>0, OwnedStep, FilledStep
  <2>2. Owned(Q)' /\ Filled(Q)'
    BY <2>1, OwnedSubsetNext, FilledSubsetNext
  <2>. QED
    BY <2>2 DEF Owned, Filled
<1>. QED
  BY <1>5, <1>6, <1>7, <1>8, <1>9, <1>10, <1>11 DEF Consistent, WhileRunning

\* What a sync writes: an inode that no path leads to and none will, a file, a new
\* directory that is still empty, or a directory of the tree.
LEMMA SyncFacts ==
  ASSUME Busy, SyncInode
  PROVE  \E p \in Inodes :
           /\ Cur.in = p /\ Cur = SyncCall(p) /\ pc = "ready" /\ todo # <<>>
           /\ mem' = mem /\ dino' = [dino EXCEPT ![p] = mem[p]] /\ dirty' = dirty \ {p}
           /\ imap' = imap /\ todo' = Tail(todo) /\ pc' = "ready" /\ blk' = blk /\ died' = died
           /\ Len(todo) \in {1, 2}
           /\ Named(p) \/ p \in Reachable =>
                /\ mem[p].type = "dir" => p \in Dirs \/ mem[p].size <= 2
                /\ died \/ mem[p].type # "none"
<1>1. /\ TypeOK /\ Stands /\ RootStays /\ Doing /\ DirsKept /\ NamesSound /\ todo # <<>>
      /\ Cur.op = "sync" /\ pc = "ready"
  BY BusyFacts DEF SyncInode, Running, Cur
<1>. PICK m \in Nat : m = Len(todo) /\ m >= 1 /\ Cur = todo[1]
  BY <1>1, CurFirst
<1>. PICK i \in Inodes :
           \/ Writing(i) /\ m = 1 /\ Cur.in = i
           \/ Removing(i) /\ m = 1 /\ Cur.in = 0
           \/ Removing(i) /\ m = 2 /\ Cur.in = i
           \/ Undoing(i) /\ m = 1 /\ Cur.in = i
           \/ \E p \in Inodes : /\ Creating(p, i)
                                /\ \/ m = 1 /\ Cur.in = i
                                   \/ m = 2 /\ Cur.in = p
  BY <1>1, SyncPlan
<1>. PICK p \in Inodes : p = Cur.in
  BY <1>1, Current
<1>2. /\ mem' = mem /\ dino' = [dino EXCEPT ![p] = mem[p]] /\ dirty' = dirty \ {p}
      /\ imap' = imap /\ todo' = Tail(todo) /\ pc' = "ready" /\ blk' = blk /\ died' = died
  BY DEF SyncInode, Return, command, Inode
<1>3. Cur = SyncCall(p)
  BY CallOps DEF Writing, Removing, Undoing, Creating
<1>4. 0 \in Dirs
  BY <1>1, ReachBasics DEF RootStays, Dirs
<1>5. ASSUME ~Named(i) PROVE i \notin Reachable \/ i = 0
  BY <1>1, <1>5, ReachableNamed
<1>6. ASSUME Named(p) \/ p \in Reachable
      PROVE  /\ mem[p].type = "dir" => p \in Dirs \/ mem[p].size <= 2
             /\ died \/ mem[p].type # "none"
  <2>1. CASE Writing(i) /\ m = 1 /\ p = i
    BY <2>1 DEF Writing
  <2>2. CASE Removing(i) /\ m = 1 /\ p = 0
    BY <1>1, <1>4, <2>2 DEF RootStays
  <2>3. CASE Removing(i) /\ m = 2 /\ p = i
    BY <1>5, <1>6, <2>3, RemovingLeft
  <2>4. CASE Undoing(i) /\ m = 1 /\ p = i
    BY <1>5, <1>6, <2>4 DEF Undoing
  <2>5. ASSUME NEW q \in Inodes, Creating(q, i), m = 1, p = i
        PROVE  /\ mem[p].type = "dir" => p \in Dirs \/ mem[p].size <= 2
               /\ died \/ mem[p].type # "none"
    BY <2>5, CreatingLeft
  <2>6. ASSUME NEW q \in Inodes, Creating(q, i), m = 2, p = q
        PROVE  /\ mem[p].type = "dir" => p \in Dirs \/ mem[p].size <= 2
               /\ died \/ mem[p].type # "none"
    <3>1. mem[p].type = "dir" /\ dino[p].type = "dir"
      BY <2>6, CreatingLeft
    <3>2. p \in Reachable
      <4>. SUFFICES ASSUME Named(p) PROVE p \in Reachable
        BY <1>6
      <4>1. dino[p] # Blank
        BY <3>1 DEF Blank
      <4>. QED
        BY <1>1, <4>1, NamedReachable DEF NewName
    <3>. QED
      BY <3>1, <3>2 DEF Dirs
  <2>. QED
    BY <2>1, <2>2, <2>3, <2>4, <2>5, <2>6
<1>7. m \in {1, 2}
  OBVIOUS
<1>. QED
  BY <1>1, <1>2, <1>3, <1>6, <1>7

\* A sync is the last step of a plan, or the next to last.
LEMMA DoingSync ==
  ASSUME Busy, SyncInode
  PROVE  Doing'
<1>. PICK p \in Inodes :
           /\ Cur.in = p /\ Cur = SyncCall(p) /\ pc = "ready" /\ todo # <<>>
           /\ mem' = mem /\ dino' = [dino EXCEPT ![p] = mem[p]] /\ dirty' = dirty \ {p}
           /\ imap' = imap /\ todo' = Tail(todo) /\ pc' = "ready" /\ blk' = blk /\ died' = died
           /\ Len(todo) \in {1, 2}
  BY SyncFacts
<1>1. TypeOK /\ Stands /\ RootStays /\ Doing /\ Cur.op = "sync"
  BY BusyFacts, CallOps
<1>. PICK m \in Nat : m = Len(todo) /\ m >= 1 /\ Cur = todo[1]
  BY <1>1, CurFirst
<1>2. Len(todo') = m - 1 /\ (\A k \in 1 .. (m - 1) : todo'[k] = todo[k + 1]) /\ (m = 1 => todo' = <<>>)
  BY <1>1, TailLeft
<1>3. CASE m = 1
  BY <1>2, <1>3 DEF Doing
<1>4. CASE m = 2
  <2>0. Len(todo') = 1 /\ todo'[1] = todo[2]
    BY <1>2, <1>4, SMTT(30)
  <2>. PICK i \in Inodes : \/ Removing(i) /\ p = i
                           \/ \E q \in Inodes : Creating(q, i) /\ p = q
    BY <1>1, <1>4, SyncPlan
  <2>a. \E n \in Nat : /\ n = 1 /\ n \in 1 .. 5 /\ n >= 1 /\ n # 5 /\ n # 2 /\ ~(n > 3 \/ n = 3)
                       /\ ~(n >= 2) /\ ~(n >= 3) /\ ~(n >= 4) /\ \A k \in 1 .. (n - 3) : FALSE
    OBVIOUS
  <2>. PICK n \in Nat : /\ n = 1 /\ n \in 1 .. 5 /\ n >= 1 /\ n # 5 /\ n # 2 /\ ~(n > 3 \/ n = 3)
                        /\ ~(n >= 2) /\ ~(n >= 3) /\ ~(n >= 4) /\ \A k \in 1 .. (n - 3) : FALSE
    BY <2>a, Zenon
  <2>b. n = Len(todo') /\ todo'[n] = todo[2]
    BY <2>0, Zenon
  <2>1. CASE Removing(i) /\ p = i
    <3>1. todo[2] = SyncCall(0) /\ 0 \in dirty /\ i # 0
      BY <1>4, <2>1, RemovingLeft
    <3>2. todo'[n] = SyncCall(0) /\ 0 \in dirty'
      BY <2>b, <2>1, <3>1
    <3>3. Removing(i)'
      BY <2>b, <3>1, <3>2, RemovingNext, Zenon
    <3>. QED
      BY <3>3 DEF Doing
  <2>2. ASSUME NEW q \in Inodes, Creating(q, i), p = q
        PROVE  Doing'
    <3>1. /\ i # 0 /\ i # q /\ todo[2] = SyncCall(i)
          /\ q \in imap /\ mem[q].type = "dir" /\ dino[q].type = "dir"
          /\ i \in imap /\ i \in dirty /\ dino[i] = Blank
          /\ mem[i].type # "none" /\ (mem[i].type = "dir" => mem[i].size <= 2)
      BY <1>4, <2>2, CreatingLeft
    <3>2. dino'[i] = Blank /\ dino'[q].type = "dir" /\ i \in dirty'
      BY <1>1, <2>2, <3>1 DEF TypeOK
    <3>3. todo'[n] = SyncCall(i)
      BY <2>b, <3>1
    <3>4. Creating(q, i)'
      BY <2>b, <3>1, <3>2, <3>3, CreatingNext, Zenon
    <3>. QED
      BY <3>4 DEF Doing
  <2>. QED
    BY <2>1, <2>2
<1>. QED
  BY <1>3, <1>4

\* An inode that is written has on the disk what it has in memory.
LEMMA SyncOnDisk ==
  ASSUME Busy, NEW p \in Live, dino' = [dino EXCEPT ![p] = mem[p]], mem' = mem, blk' = blk,
         pc = "ready", pc' = "ready"
  PROVE  OnDisk(p)'
<1>1. TypeOK /\ Live \subseteq Inodes /\ Filled(Live)
  BY BusyFacts
<1>2. dino'[p] = mem[p] /\ mem[p].size \in Nat
  BY <1>1, SizeNat DEF TypeOK
<1>3. ASSUME NEW s \in Places, s # -1
      PROVE  BlockAt(dino[p], s)' = HeldAt(p, s) /\ HeldAt(p, s)' = HeldAt(p, s)
  <2>1. HeldAt(p, s)' = HeldAt(p, s)
    BY <1>1, QuietHeld DEF Loaded
  <2>2. HeldAt(p, s) = IF s < NrDirect THEN mem[p].direct[s]
                       ELSE IF mem[p].ind = 0 THEN 0 ELSE blk[mem[p].ind][s - NrDirect]
    BY <1>3, Zenon DEF HeldAt, Table, Loaded
  <2>3. BlockAt(dino[p], s)' = IF s < NrDirect THEN mem[p].direct[s]
                       ELSE IF mem[p].ind = 0 THEN 0 ELSE blk[mem[p].ind][s - NrDirect]
    <3>1. BlockAt(dino[p], s)' = IF s < NrDirect THEN dino'[p].direct[s]
                       ELSE IF dino'[p].ind = 0 THEN 0 ELSE blk'[dino'[p].ind][s - NrDirect]
      BY DEF BlockAt
    <3>. QED
      BY <1>2, <3>1
  <2>. QED
    BY <2>1, <2>2, <2>3
<1>4. ASSUME NEW s \in Places PROVE RefAt(dino[p], s)' \in {0, HeldAt(p, s)'}
  <2>1. CASE s = -1
    BY <1>2, <2>1 DEF RefAt, HeldAt
  <2>2. CASE s # -1
    BY <1>3, <2>2 DEF RefAt
  <2>. QED
    BY <2>1, <2>2
<1>5. ASSUME NEW l \in 0 .. (Blocks(mem[p].size) - 1)
      PROVE  l < NrLogical /\ BlockAt(dino[p], l)' # 0
  <2>1. Extent(p) = mem[p].size /\ ~Cleared(p, l)
    BY DEF Extent, Cleared, WriteSteps, TruncSteps
  <2>2. l < NrLogical /\ HeldAt(p, l) # 0
    BY <1>1, <2>1 DEF Filled
  <2>3. Blocks(mem[p].size) \in Nat
    BY <1>2, BlocksNat
  <2>4. l \in Places /\ l # -1
    BY <2>2, <2>3, LogicalPlace
  <2>. QED
    BY <1>3, <2>2, <2>4
<1>6. HasItsBlocks(dino[p])'
  BY <1>2, <1>5 DEF HasItsBlocks, Blocks
<1>. QED
  BY <1>4, <1>6 DEF OnDisk

\* After a sync no path leads further than a name did, and a directory that is new has
\* no names yet.
LEMMA SyncReach ==
  ASSUME Busy, SyncInode
  PROVE  /\ \A x \in Reachable' : Named(x) \/ x \in Reachable
         /\ \A d \in Dirs' : d \in Dirs \/ (d = Cur.in /\ mem[d].size <= 2)
<1>0. /\ TypeOK /\ Stands /\ RootStays /\ DirsKept /\ NamesSound
      /\ Reachable \subseteq Inodes /\ Dirs \subseteq Inodes /\ 0 \in Reachable
  BY BusyFacts, ReachBasics
<1>. PICK p \in Inodes :
           /\ Cur.in = p /\ Cur = SyncCall(p) /\ pc = "ready" /\ todo # <<>>
           /\ mem' = mem /\ dino' = [dino EXCEPT ![p] = mem[p]] /\ dirty' = dirty \ {p}
           /\ imap' = imap /\ todo' = Tail(todo) /\ pc' = "ready" /\ blk' = blk /\ died' = died
           /\ Len(todo) \in {1, 2}
           /\ Named(p) \/ p \in Reachable =>
                /\ mem[p].type = "dir" => p \in Dirs \/ mem[p].size <= 2
                /\ died \/ mem[p].type # "none"
  BY SyncFacts
<1>1. dino'[p] = mem[p] /\ \A d \in Inodes : d # p => dino'[d] = dino[d]
  BY <1>0 DEF TypeOK
<1>. DEFINE S == {x \in Inodes : Named(x) \/ x \in Reachable}
<1>2. ASSUME NEW d \in S, dino'[d].type = "dir"
      PROVE  d \in Dirs \/ (d = p /\ mem[d].size <= 2)
  <2>1. CASE d = p
    BY <1>1, <1>2, <2>1
  <2>2. CASE d # p
    <3>1. dino[d].type = "dir"
      BY <1>1, <1>2, <2>2
    <3>2. d \in Reachable
      BY <1>0, <3>1, NamedReachable DEF NewName, Blank
    <3>. QED
      BY <3>1, <3>2 DEF Dirs
  <2>. QED
    BY <2>1, <2>2
<1>3. ASSUME NEW d \in S, dino'[d].type = "dir" PROVE Children(dino[d])' \cap Inodes \subseteq S
  <2>. SUFFICES ASSUME NEW k, k \in 2 .. (dino'[d].size - 1), CellAt(dino[d], k)' > 0,
                       NEW x \in Inodes, x = CellAt(dino[d], k)' - 1
                PROVE  x \in S
    BY DEF Children, LiveSlots
  <2>1. CASE d = p
    <3>0. mem[p].size \in Nat /\ dino'[d].size = mem[p].size
      BY <1>0, <1>1, <2>1, SizeNat
    <3>1. d \in Dirs
      BY <1>2, <1>3, <2>1, <3>0
    <3>2. k \in Known(d) /\ k \in Nat
      BY <1>0, <2>1, <3>0, KnownBasics
    <3>3. OnDisk(p)' /\ TypeOK'
      <4>1. p \in Live
        BY <2>1, <3>1, BusyFacts
      <4>2. Step
        BY DEF Step
      <4>. QED
        BY <1>0, <4>1, <4>2, SyncOnDisk, StepType
    <3>4. CellAt(dino[p], k)' = MemCell(p, k)'
      BY <2>1, <3>0, <3>2, <3>3, DiskCellNext
    <3>5. MemCell(p, k)' = MemCell(p, k)
      BY QuietHeld DEF Loaded
    <3>6. MemCell(d, k) \in Int
      BY <1>0, <3>2, MemCellInt
    <3>7. MemCell(d, k) = x + 1
      BY <2>1, <3>4, <3>5, <3>6
    <3>. QED
      BY <3>1, <3>2, <3>7 DEF Named
  <2>2. CASE d # p
    <3>0. dino'[d] = dino[d] /\ d \in Dirs
      BY <1>1, <1>2, <1>3, <2>2
    <3>1. CellAt(dino[d], k)' = CellAt(dino[d], k) /\ d \in Dirs
      <4>1. ASSUME NEW l PROVE BlockAt(dino[d], l)' = BlockAt(dino[d], l)
        <5>1. BlockAt(dino[d], l)' = IF l < NrDirect THEN dino'[d].direct[l]
                ELSE IF dino'[d].ind = 0 THEN 0 ELSE blk'[dino'[d].ind][l - NrDirect]
          BY DEF BlockAt
        <5>. QED
          BY <3>0, <5>1 DEF BlockAt
      <4>. QED
        BY <3>0, <4>1 DEF CellAt
    <3>2. k \in LiveSlots(dino[d])
      BY <3>0, <3>1 DEF LiveSlots
    <3>3. x \in Reachable
      BY <3>1, <3>2, ReachKid
    <3>. QED
      BY <3>3
  <2>. QED
    BY <2>1, <2>2
<1>4. Reachable' \subseteq S
  <2>1. 0 \in S /\ S \in SUBSET Inodes
    BY <1>0
  <2>. HIDE DEF S
  <2>. QED
    BY <1>3, <2>1, ReachInsideNext
<1>5. \A d \in Dirs' : d \in Dirs \/ (d = p /\ mem[d].size <= 2)
  BY <1>2, <1>4 DEF Dirs
<1>. QED
  BY <1>4, <1>5

\* Writing an inode to the disk keeps everything.
LEMMA SyncConsistent ==
  ASSUME Busy, SyncInode
  PROVE  Consistent' /\ Live' \subseteq Live
<1>0. /\ TypeOK /\ Stands /\ RootStays /\ Doing /\ DirsKept /\ NamesSound /\ DiskBehind
      /\ UnmarkedBlank /\ Typed /\ Owned(Live) /\ Filled(Live) /\ Cur.in \in Live
      /\ Live \subseteq Inodes /\ Reachable \subseteq Live /\ Acting \subseteq Live
      /\ Dirs \subseteq Inodes
  BY BusyFacts DEF SyncInode, Running
<1>. PICK p \in Inodes :
           /\ Cur.in = p /\ Cur = SyncCall(p) /\ pc = "ready" /\ todo # <<>>
           /\ mem' = mem /\ dino' = [dino EXCEPT ![p] = mem[p]] /\ dirty' = dirty \ {p}
           /\ imap' = imap /\ todo' = Tail(todo) /\ pc' = "ready" /\ blk' = blk /\ died' = died
           /\ Len(todo) \in {1, 2}
           /\ Named(p) \/ p \in Reachable =>
                /\ mem[p].type = "dir" => p \in Dirs \/ mem[p].size <= 2
                /\ died \/ mem[p].type # "none"
  BY SyncFacts
<1>1. dino'[p] = mem[p] /\ \A d \in Inodes : d # p => dino'[d] = dino[d]
  BY <1>0 DEF TypeOK
<1>2. /\ \A x \in Reachable' : Named(x) \/ x \in Reachable
      /\ \A d \in Dirs' : d \in Dirs \/ (d = p /\ mem[d].size <= 2)
      /\ Reachable' \subseteq Inodes /\ Dirs' \subseteq Inodes
  BY SyncReach, ReachBasics DEF Dirs, Reachable
<1>3. ASSUME NEW j \in Inodes
      PROVE  /\ \A s : HeldAt(j, s)' = HeldAt(j, s)
             /\ Known(j)' = Known(j)
             /\ \A k : MemCell(j, k)' = MemCell(j, k)
             /\ OnDisk(j) /\ j # p => OnDisk(j)'
             /\ j # p => ~Closing(j)
  <2>1. /\ \A s : HeldAt(j, s)' = HeldAt(j, s)
        /\ Known(j)' = Known(j)
        /\ \A k : MemCell(j, k)' = MemCell(j, k)
    <3>1. pc \notin Loaded \cup {"csum"} /\ pc' \notin Loaded \cup {"csum"}
      BY DEF Loaded
    <3>. QED
      BY <3>1, QuietHeld
  <2>2. OnDisk(j) /\ j # p => OnDisk(j)'
    BY <1>1, <2>1, SameOnDisk
  <2>3. j # p => ~Closing(j)
    BY DEF Closing, Window
  <2>. QED
    BY <2>1, <2>2, <2>3
<1>4. OnDisk(p)'
  BY <1>0, SyncOnDisk
<1>5. ASSUME NEW x \in Inodes, NEW d, NewName(d, x)
      PROVE  d = p /\ x \in Acting /\ Len(todo) = 2 /\ todo[2] = SyncCall(x)
  <2>0. \A n \in {1, 2} : n >= 2 => n = 2 /\ n - 1 = 1
    OBVIOUS
  <2>1. Len(todo) = 2 /\ todo[1] = SyncCall(d) /\ todo[2] = SyncCall(x)
    BY <1>5, <2>0, Zenon DEF NewName
  <2>2. todo[1] = Cur /\ 2 \in DOMAIN todo
    <3>1. todo \in Seq(Call)
      BY <1>0 DEF TypeOK
    <3>. QED
      BY <1>0, <2>1, <3>1, CurFirst
  <2>3. x \in Acting
    BY <2>1, <2>2, CallOps DEF Acting, Targets
  <2>4. d = p
    BY <2>1, <2>2, CallOps, Zenon
  <2>. QED
    BY <2>1, <2>3, <2>4
<1>6. \A x \in Reachable' : x \in Live
  BY <1>0, <1>2, <1>5, NamedReachable
<1>7. Live' \subseteq Live
  BY <1>0, <1>6, ActingShrinks DEF Live
<1>8. DirsKept'
  <2>. SUFFICES ASSUME NEW d \in Dirs'
                PROVE  mem'[d].type = "dir" /\ dino'[d].size <= mem'[d].size /\ OnDisk(d)'
    BY DEF DirsKept
  <2>1. CASE d = p
    <3>1. dino'[d].type = "dir" /\ mem[p].size \in Nat
      BY <1>0, SizeNat DEF Dirs
    <3>. QED
      BY <1>1, <1>4, <2>1, <3>1
  <2>2. CASE d # p
    BY <1>0, <1>1, <1>2, <1>3, <2>2 DEF DirsKept
  <2>. QED
    BY <2>1, <2>2
<1>9. NamesSound'
  <2>1. ASSUME NEW d \in Dirs, NEW x \in Inodes, NEW k \in Known(d),
               k < dino[d].size \/ NewName(d, x)
        PROVE  k < dino'[d].size
    <3>0. k \in Nat /\ mem[d].size \in Nat /\ dino[d].size \in Nat
      BY <1>0, KnownBasics, SizeNat
    <3>1. CASE d = p
      <4>1. Known(d) = 2 .. (mem[d].size - 1)
        BY <1>0, KnownBasics
      <4>. QED
        BY <1>1, <3>0, <3>1, <4>1
    <3>2. CASE d # p
      BY <1>0, <1>1, <1>5, <2>1, <3>2
    <3>. QED
      BY <3>1, <3>2
  <2>2. ASSUME NEW d \in Dirs'
        PROVE  \/ d \in Dirs /\ Known(d)' = Known(d) /\ \A k : MemCell(d, k)' = MemCell(d, k)
               \/ Known(d)' = {}
    <3>1. CASE d \in Dirs
      BY <1>0, <1>3, <3>1
    <3>2. CASE d = p /\ mem[d].size <= 2
      <4>1. Known(d) = 2 .. (mem[d].size - 1) /\ mem[d].size \in Nat
        BY <1>0, <3>2, KnownBasics
      <4>2. Known(d) = {}
        BY <3>2, <4>1
      <4>. QED
        BY <1>3, <3>2, <4>2
    <3>. QED
      BY <1>2, <3>1, <3>2
  <2>. QED
    BY <1>0, <2>1, <2>2, NamesStay
<1>10. DiskBehind'
  <2>. SUFFICES ASSUME NEW j \in Live PROVE OnDisk(j)' \/ Closing(j)'
    BY <1>7 DEF DiskBehind
  <2>. QED
    BY <1>0, <1>3, <1>4 DEF DiskBehind
<1>11. UnmarkedBlank'
  <2>. SUFFICES ASSUME NEW j \in Inodes \ imap
                PROVE  mem'[j] = Blank /\ (dino'[j] = Blank \/ Closing(j)')
    BY DEF UnmarkedBlank
  <2>. QED
    BY <1>0, <1>1, <1>3 DEF UnmarkedBlank
<1>12. Typed'
  <2>. SUFFICES ASSUME ~died, NEW x \in Reachable'
                PROVE  \/ dino'[x].type # "none"
                       \/ todo' # <<>> /\ todo'[Len(todo')] = SyncCall(x)
    BY DEF Typed
  <2>. PICK m \in Nat : m = Len(todo) /\ m >= 1 /\ Cur = todo[1]
    BY <1>0, CurFirst
  <2>0. x \in Inodes /\ (Named(x) \/ x \in Reachable)
    BY <1>2
  <2>1. CASE x = p
    BY <1>1, <2>0, <2>1
  <2>2. CASE x # p
    <3>1. dino[x].type # "none" \/ todo[m] = SyncCall(x)
      <4>1. CASE x \in Reachable
        BY <1>0, <4>1 DEF Typed
      <4>2. CASE \E d \in Dirs : NewName(d, x)
        BY <4>2 DEF NewName
      <4>. QED
        BY <1>0, <2>0, <4>1, <4>2, NamedReachable
    <3>2. CASE dino[x].type # "none"
      BY <1>1, <2>0, <2>2, <3>2
    <3>3. CASE todo[m] = SyncCall(x)
      <4>1. m # 1
        BY <2>2, <3>3, CallOps
      <4>2. m = 2
        <5>1. m \in {1, 2}
          OBVIOUS
        <5>. QED
          BY <4>1, <5>1
      <4>3. todo' # <<>> /\ Len(todo') = 1 /\ todo'[1] = todo[2]
        <5>1. m > 1 /\ m - 1 = 1 /\ 1 \in 1 .. (m - 1) /\ 1 + 1 = 2
          BY <4>2
        <5>2. /\ Len(todo') = m - 1 /\ \A k \in 1 .. (m - 1) : todo'[k] = todo[k + 1]
              /\ m > 1 => todo' # <<>>
          BY <1>0, TailLeft
        <5>. QED
          BY <5>1, <5>2, Zenon
      <4>. QED
        BY <3>3, <4>2, <4>3
    <3>. QED
      BY <3>1, <3>2, <3>3
  <2>. QED
    BY <2>1, <2>2
<1>13. Owned(Live)' /\ Filled(Live)'
  <2>. PICK P \in SUBSET Inodes : P = Live
    BY <1>0
  <2>. PICK Q \in SUBSET P : Q = Live'
    BY <1>7
  <2>1. Owned(P)' /\ Filled(P)'
    BY <1>0, OwnedStep, FilledStep
  <2>2. Owned(Q)' /\ Filled(Q)'
    BY <2>1, OwnedSubsetNext, FilledSubsetNext
  <2>. QED
    BY <2>2 DEF Owned, Filled
<1>. QED
  BY <1>7, <1>8, <1>9, <1>10, <1>11, <1>12, <1>13, DoingSync DEF Consistent, WhileRunning

\* The entries of a new directory fit into its first block.
LEMMA FirstEntries ==
  ASSUME NEW i, NEW e
  PROVE  /\ WriteDirent(i, 0, e) = <<WriteCall(i, 0, 1, e)>>
         /\ WriteDirent(i, 1, e) = <<WriteCall(i, 1, 1, e)>>
<1>1. \A n \in {0, 1, 2} : n \div BlockSize = 0
  BY FileStoreAssumption
<1>2. (0 + 1) \div BlockSize = 0 /\ (1 + 1) \div BlockSize = 0 /\ 0 \div BlockSize = 0
      /\ 1 \div BlockSize = 0
  BY <1>1
<1>. QED
  BY <1>2 DEF WriteDirent

\* Three sequences joined, counted from the end.
Ends(q, x, w, s, t) ==
  /\ Len(q) \in Nat /\ Len(q) >= 3
  /\ q[Len(q)] = t /\ q[Len(q) - 1] = s /\ q[Len(q) - 2] = w[Len(w)]
  /\ \A j \in 1 .. (Len(q) - 3) : \/ \E k \in 1 .. Len(x) : q[j] = x[k]
                                  \/ \E k \in 1 .. (Len(w) - 1) : q[j] = w[k]

\* What calls come where when the three parts of a creation are put together.
LEMMA Joined ==
  ASSUME NEW S, NEW x \in Seq(S), NEW w \in Seq(S), NEW s \in S, NEW t \in S, Len(w) >= 1,
         NEW q, q = x \o w \o <<s, t>>
  PROVE  Ends(q, x, w, s, t)
<1>. PICK a \in Nat, b \in Nat : a = Len(x) /\ b = Len(w) /\ b >= 1
  OBVIOUS
<1>1. PICK y \in Seq(S) : /\ y = x \o w /\ Len(y) = a + b
                 /\ \A j \in 1 .. a : y[j] = x[j]
                 /\ \A l \in 1 .. b : y[a + l] = w[l]
  <2>1. x \o w \in Seq(S) /\ Len(x \o w) = a + b
    OBVIOUS
  <2>2. \A j \in 1 .. a : (x \o w)[j] = x[j]
    OBVIOUS
  <2>3. ASSUME NEW j \in 1 .. b PROVE (x \o w)[a + j] = w[j]
    OBVIOUS
  <2>. QED
    BY <2>1, <2>2, <2>3
<1>2. <<s, t>> \in Seq(S) /\ Len(<<s, t>>) = 2
  OBVIOUS
<1>3. q = y \o <<s, t>>
  BY <1>1
<1>4. Len(q) = a + b + 2 /\ q[a + b + 2] = t /\ q[a + b + 1] = s /\ \A j \in 1 .. (a + b) : q[j] = y[j]
  BY <1>1, <1>2, <1>3
<1>. PICK m \in Nat : m = a + b + 2
  OBVIOUS
<1>5. m >= 3 /\ m - 1 = a + b + 1 /\ m - 2 = a + b /\ a + b \in 1 .. (a + b) /\ b \in 1 .. b
  OBVIOUS
<1>6. q[m] = t /\ q[m - 1] = s /\ q[m - 2] = w[b] /\ m = Len(q)
  <2>1. q[m - 2] = w[b]
    <3>1. q[m - 2] = y[a + b] /\ y[a + b] = w[b]
      BY <1>1, <1>4, <1>5
    <3>. QED
      BY <3>1
  <2>. QED
    BY <1>4, <1>5, <2>1
<1>7. ASSUME NEW j \in 1 .. (m - 3) PROVE (\E k \in 1 .. a : q[j] = x[k]) \/ (\E k \in 1 .. (b - 1) : q[j] = w[k])
  <2>1. CASE j <= a
    BY <1>1, <1>4, <2>1
  <2>2. CASE j > a
    <3>a. (j - a) \in 1 .. (b - 1) /\ j = a + (j - a)
      BY <2>2
    <3>b. \A k \in 1 .. (b - 1) : k \in 1 .. b
      OBVIOUS
    <3>. PICK k \in 1 .. (b - 1) : j = a + k /\ k \in 1 .. b
      BY <3>a, <3>b
    <3>0. y[a + k] = w[k]
      BY <1>1
    <3>1. j \in 1 .. (a + b) /\ y[j] = w[k]
      BY <3>0
    <3>2. q[j] = w[k]
      BY <1>4, <3>1
    <3>. QED
      BY <3>2
  <2>. QED
    BY <2>1, <2>2
<1>. QED
  BY <1>5, <1>6, <1>7 DEF Ends

\* What testfs_create_file_or_dir calls, counted from the last call.
Creation(calls, p, i) ==
  \E m \in Nat :
    /\ m = Len(calls) /\ m >= 3
    /\ calls[m] = SyncCall(i) /\ calls[m - 1] = SyncCall(p)
    /\ \E off \in Nat : calls[m - 2] = WriteCall(p, off, 1, i + 1)
    /\ \A j \in 1 .. (m - 3) :
         \E off \in Nat, v \in Int :
           \/ calls[j] = WriteCall(i, off, 1, v) /\ off < 2
           \/ calls[j] = WriteCall(p, off, 1, 0)

\* The calls of testfs_create_file_or_dir have the shape of a creation.
LEMMA CreatePlan ==
  ASSUME NEW p \in Inodes, NEW i \in Inodes, NEW type, NEW k \in Nat,
         NEW calls, calls = NewCalls(p, i, type, k)
  PROVE  Creation(calls, p, i)
<1>. DEFINE a == WriteCall(i, 0, 1, i + 1)
            b == WriteCall(i, 1, 1, p + 1)
            c == WriteCall(p, k, 1, 0)
            d == WriteCall(p, k + 1, 1, i + 1)
            e == WriteCall(p, k, 1, i + 1)
<1>0. i + 1 \in Int /\ p + 1 \in Int /\ k + 1 \in Nat
  BY Sizes
<1>1. a \in Call /\ b \in Call /\ SyncCall(p) \in Call /\ SyncCall(i) \in Call
  BY <1>0, CallsType
<1>2. \E x \in Seq(Call), w \in Seq(Call) :
        /\ calls = x \o w \o <<SyncCall(p), SyncCall(i)>>
        /\ \A j \in 1 .. Len(x) : x[j] \in {a, b}
        /\ w = <<c, d>> \/ w = <<e>>
  <2>. DEFINE x == IF type = "dir" THEN <<a>> \o <<b>> ELSE <<>>
              w == WriteDirent(p, k, i + 1)
  <2>1. x \in Seq({a, b})
    <3>. HIDE DEF a, b
    <3>1. <<a>> \in Seq({a, b}) /\ <<b>> \in Seq({a, b}) /\ <<>> \in Seq({a, b})
      OBVIOUS
    <3>2. <<a>> \o <<b>> \in Seq({a, b})
      BY <3>1
    <3>. QED
      BY <3>1, <3>2
  <2>2. x \in Seq(Call) /\ \A j \in 1 .. Len(x) : x[j] \in {a, b}
    <3>. HIDE DEF x, a, b
    <3>. QED
      BY <1>1, <2>1
  <2>3. w \in Seq(Call) /\ (w = <<c, d>> \/ w = <<e>>)
    BY <1>0, WriteDirentType DEF WriteDirent
  <2>4. calls = x \o w \o <<SyncCall(p), SyncCall(i)>>
    BY FirstEntries DEF NewCalls
  <2>. QED
    BY <2>2, <2>3, <2>4
<1>. HIDE DEF a, b, c, d, e
<1>. PICK x \in Seq(Call), w \in Seq(Call) :
        /\ calls = x \o w \o <<SyncCall(p), SyncCall(i)>>
        /\ \A j \in 1 .. Len(x) : x[j] \in {a, b}
        /\ w = <<c, d>> \/ w = <<e>>
  BY <1>2
<1>3. /\ Len(w) >= 1 /\ w[Len(w)] \in {d, e}
      /\ \A j \in 1 .. (Len(w) - 1) : w[j] = c
  <2>1. CASE w = <<c, d>>
    BY <2>1
  <2>2. CASE w = <<e>>
    BY <2>2
  <2>. QED
    BY <2>1, <2>2
<1>4. PICK m \in Nat :
        /\ m = Len(calls) /\ m >= 3
        /\ calls[m] = SyncCall(i) /\ calls[m - 1] = SyncCall(p) /\ calls[m - 2] \in {d, e}
        /\ \A j \in 1 .. (m - 3) : calls[j] \in {a, b, c}
  <2>0. /\ Len(calls) \in Nat /\ Len(calls) >= 3
        /\ calls[Len(calls)] = SyncCall(i) /\ calls[Len(calls) - 1] = SyncCall(p)
        /\ calls[Len(calls) - 2] = w[Len(w)]
        /\ \A j \in 1 .. (Len(calls) - 3) :
             \/ \E l \in 1 .. Len(x) : calls[j] = x[l]
             \/ \E l \in 1 .. (Len(w) - 1) : calls[j] = w[l]
    <3>1. calls = x \o w \o <<SyncCall(p), SyncCall(i)>>
      OBVIOUS
    <3>2. x \in Seq(Call) /\ w \in Seq(Call) /\ SyncCall(p) \in Call /\ SyncCall(i) \in Call
      BY <1>1
    <3>3. Len(w) >= 1
      BY <1>3
    <3>4. Ends(calls, x, w, SyncCall(p), SyncCall(i))
      BY <3>1, <3>2, <3>3, Joined
    <3>. QED
      BY <3>4 DEF Ends
  <2>1. PICK m \in Nat :
           /\ m = Len(calls) /\ m >= 3
           /\ calls[m] = SyncCall(i) /\ calls[m - 1] = SyncCall(p)
           /\ calls[m - 2] = w[Len(w)]
           /\ \A j \in 1 .. (m - 3) : \/ \E l \in 1 .. Len(x) : calls[j] = x[l]
                                      \/ \E l \in 1 .. (Len(w) - 1) : calls[j] = w[l]
    BY <2>0
  <2>2. ASSUME NEW j \in 1 .. (m - 3) PROVE calls[j] \in {a, b, c}
    <3>1. CASE \E l \in 1 .. Len(x) : calls[j] = x[l]
      BY <3>1
    <3>2. CASE \E l \in 1 .. (Len(w) - 1) : calls[j] = w[l]
      BY <1>3, <3>2
    <3>. QED
      BY <2>1, <3>1, <3>2
  <2>. QED
    BY <1>3, <2>1, <2>2
<1>5. \E off \in Nat : calls[m - 2] = WriteCall(p, off, 1, i + 1)
  BY <1>0, <1>4 DEF d, e
<1>6. ASSUME NEW j \in 1 .. (m - 3)
      PROVE  \E off \in Nat, v \in Int : \/ calls[j] = WriteCall(i, off, 1, v) /\ off < 2
                                         \/ calls[j] = WriteCall(p, off, 1, 0)
  <2>1. calls[j] \in {a, b, c}
    BY <1>4
  <2>2. CASE calls[j] = a
    <3>. PICK v \in Int, off \in Nat : v = i + 1 /\ off = 0 /\ off < 2
      BY <1>0
    <3>1. calls[j] = WriteCall(i, off, 1, v)
      BY <2>2 DEF a
    <3>. QED
      BY <3>1
  <2>3. CASE calls[j] = b
    <3>. PICK v \in Int, off \in Nat : v = p + 1 /\ off = 1 /\ off < 2
      BY <1>0
    <3>1. calls[j] = WriteCall(i, off, 1, v)
      BY <2>3 DEF b
    <3>. QED
      BY <3>1
  <2>4. CASE calls[j] = c
    <3>. WITNESS k \in Nat, 0 \in Int
    <3>. QED
      BY <2>4 DEF c
  <2>. QED
    BY <2>1, <2>2, <2>3, <2>4
<1>. QED
  BY <1>4, <1>5, <1>6 DEF Creation

\* A new inode: it has its number and its type, and neither a block nor a name.
LEMMA CreateFacts ==
  ASSUME TypeOK, Ownership, Consistent, CreateInode
  PROVE  \E p, i \in Inodes :
           /\ pc = "create" /\ todo = <<>> /\ onfail = <<>> /\ mem = dino /\ p \in Dirs
           /\ i # 0 /\ i # p /\ i \notin imap /\ i \notin Reachable /\ ~Named(i)
           /\ dino[i] = Blank /\ mem[i] = Blank
           /\ mem' \in [Inodes -> Dinode] /\ \A j \in Inodes : j # i => mem'[j] = mem[j]
           /\ mem'[i].type # "none" /\ mem'[i].size = 0
           /\ imap' = imap \cup {i} /\ i \in dirty' /\ dino' = dino /\ blk' = blk /\ died' = died
           /\ onfail' = <<TruncCall(i, 0), ReleaseCall(i), SyncCall(i)>> /\ pc' = "ready"
           /\ \E k \in Nat : todo' = NewCalls(p, i, mem'[i].type, k)
<1>0. TypeOK /\ Stands /\ RootStays /\ DirsKept /\ NamesSound
  BY DEF Ownership, Consistent
<1>1. PICK i \in Inodes, k \in Nat, type \in {"file", "dir"} :
        /\ i \notin imap /\ imap' = imap \cup {i} /\ pc = "create"
        /\ mem' = [mem EXCEPT ![i].type = type] /\ dirty' = dirty \cup {i}
        /\ todo' = NewCalls(job.in, i, type, k)
        /\ onfail' = <<TruncCall(i, 0), ReleaseCall(i), SyncCall(i)>>
        /\ dino' = dino /\ blk' = blk /\ died' = died /\ pc' = "ready"
  <2>1. \A n : \A k \in 0 .. n : k \in Nat
    OBVIOUS
  <2>. QED
    BY <1>0, <2>1, NewInode DEF CreateInode, TakeNumber, command
<1>2. /\ todo = <<>> /\ onfail = <<>> /\ mem = dino /\ Intact /\ job.in \in Reachable
      /\ dino[job.in].type = "dir"
  BY <1>0, <1>1 DEF Stands, StandsBetween
<1>. PICK p \in Inodes : p = job.in
  BY <1>2, ReachBasics
<1>3. p \in Dirs
  BY <1>2 DEF Dirs
<1>4. i \notin Reachable /\ i # 0 /\ i # p
  BY <1>0, <1>1, <1>2, <1>3, ReachableMarked, ReachBasics
<1>5. ~Named(i)
  BY <1>0, <1>1, NamedReachable
<1>6. dino[i] = Blank /\ mem[i] = Blank
  BY <1>1, <1>2 DEF Intact
<1>7. /\ mem' \in [Inodes -> Dinode] /\ \A j \in Inodes : j # i => mem'[j] = mem[j]
      /\ mem'[i].type = type /\ mem'[i].size = 0
  <2>1. mem \in [Inodes -> Dinode]
    BY <1>0 DEF TypeOK
  <2>2. [mem[i] EXCEPT !.type = type] \in Dinode
    BY <2>1 DEF Dinode, Types
  <2>3. mem'[i] = [mem[i] EXCEPT !.type = type]
    BY <1>1, <2>1
  <2>4. mem'[i].type = type /\ mem'[i].size = mem[i].size
    BY <2>1, <2>3 DEF Dinode
  <2>5. mem[i].size = 0
    BY <1>6 DEF Blank
  <2>. QED
    BY <1>1, <2>1, <2>2, <2>4, <2>5
<1>8. todo' = NewCalls(p, i, mem'[i].type, k)
  BY <1>1, <1>7
<1>. QED
  BY <1>1, <1>2, <1>3, <1>4, <1>5, <1>6, <1>7, <1>8

\* A command that has nothing left to do cuts back, releases or creates nothing.
LEMMA NothingLeft ==
  ASSUME todo = <<>>
  PROVE  (\A i : ~Closing(i)) /\ (\A d, x : ~NewName(d, x))
BY DEF Closing, Window, NewName

\* A new inode keeps everything, and the calls that follow are its creation.
LEMMA CreateConsistent ==
  ASSUME TypeOK, Ownership, Consistent, CreateInode
  PROVE  Consistent' /\ \A j \in Live' : j \in Live \/ mem[j] = Blank
<1>. PICK p \in Inodes, i \in Inodes :
           /\ pc = "create" /\ todo = <<>> /\ onfail = <<>> /\ mem = dino /\ p \in Dirs
           /\ i # 0 /\ i # p /\ i \notin imap /\ i \notin Reachable /\ ~Named(i)
           /\ dino[i] = Blank /\ mem[i] = Blank
           /\ mem' \in [Inodes -> Dinode] /\ \A j \in Inodes : j # i => mem'[j] = mem[j]
           /\ mem'[i].type # "none" /\ mem'[i].size = 0
           /\ imap' = imap \cup {i} /\ i \in dirty' /\ dino' = dino /\ blk' = blk /\ died' = died
           /\ onfail' = <<TruncCall(i, 0), ReleaseCall(i), SyncCall(i)>> /\ pc' = "ready"
           /\ \E type, k : k \in Nat /\ todo' = NewCalls(p, i, type, k)
  BY CreateFacts
<1>0. /\ Busy /\ TypeOK /\ Stands /\ RootStays /\ Doing /\ DirsKept /\ NamesSound /\ DiskBehind
      /\ UnmarkedBlank /\ Typed /\ Owned(Live) /\ Filled(Live) /\ Reachable \subseteq Live
      /\ Live \subseteq Inodes /\ Dirs \subseteq Reachable /\ Reachable \subseteq Inodes
      /\ Reachable \subseteq imap
  <2>1. Busy
    BY DEF Busy
  <2>. QED
    BY <2>1, BusyFacts
<1>1. Reachable' = Reachable /\ Dirs' = Dirs
  BY ReachSame
<1>2. (\A j : ~Closing(j)) /\ (\A d, x : ~NewName(d, x))
  BY NothingLeft
<1>3. PICK m \in Nat :
           /\ m = Len(todo') /\ m >= 3
           /\ todo'[m] = SyncCall(i) /\ todo'[m - 1] = SyncCall(p)
           /\ \E off \in Nat : todo'[m - 2] = WriteCall(p, off, 1, i + 1)
           /\ \A j \in 1 .. (m - 3) :
                \E off \in Nat, v \in Int :
                  \/ todo'[j] = WriteCall(i, off, 1, v) /\ off < 2
                  \/ todo'[j] = WriteCall(p, off, 1, 0)
  <2>. PICK type, k, calls : k \in Nat /\ calls = todo' /\ calls = NewCalls(p, i, type, k)
    OBVIOUS
  <2>1. Creation(calls, p, i)
    BY CreatePlan
  <2>2. Creation(todo', p, i)
    BY <2>1
  <2>. QED
    BY <2>2 DEF Creation
<1>4. ASSUME NEW j \in Inodes, j # i
      PROVE  /\ \A s : HeldAt(j, s)' = HeldAt(j, s)
             /\ Known(j)' = Known(j)
             /\ \A k : MemCell(j, k)' = MemCell(j, k)
             /\ OnDisk(j) => OnDisk(j)'
  <2>1. /\ \A s : HeldAt(j, s)' = HeldAt(j, s)
        /\ Known(j)' = Known(j)
        /\ \A k : MemCell(j, k)' = MemCell(j, k)
    <3>1. pc \notin Loaded \cup {"csum"} /\ pc' \notin Loaded \cup {"csum"}
      BY DEF Loaded
    <3>. QED
      BY <1>4, <3>1, QuietHeld
  <2>2. OnDisk(j) => OnDisk(j)'
    BY <2>1, SameOnDisk
  <2>. QED
    BY <2>1, <2>2
<1>5. \A d \in Dirs : d # i /\ d \in Inodes
  BY <1>0
<1>6. DirsKept'
  <2>. SUFFICES ASSUME NEW d \in Dirs
                PROVE  mem'[d].type = "dir" /\ dino'[d].size <= mem'[d].size /\ OnDisk(d)'
    BY <1>1 DEF DirsKept
  <2>. QED
    BY <1>0, <1>4, <1>5 DEF DirsKept
<1>7. NamesSound'
  <2>1. \A d \in Dirs : Known(d)' = Known(d) /\ \A k : MemCell(d, k)' = MemCell(d, k)
    BY <1>4, <1>5
  <2>. QED
    BY <1>0, <1>1, <1>2, <2>1, NamesStay
<1>8. ~Named(i)'
  <2>1. \A d \in Dirs : Known(d)' = Known(d) /\ \A k : MemCell(d, k)' = MemCell(d, k)
    BY <1>4, <1>5
  <2>. QED
    BY <1>1, <2>1, Zenon, SMTT(30) DEF Named
<1>9. Doing'
  <2>1. /\ Is(todo'[m - 2], "write", p) /\ todo'[m - 2].n = 1 /\ todo'[m - 2].val = i + 1
    BY <1>3 DEF WriteCall, Is
  <2>2. ASSUME NEW k \in 1 .. (m - 3)
        PROVE  /\ todo'[k].n = 1
               /\ \/ Is(todo'[k], "write", i) /\ todo'[k].off < 2
                  \/ Is(todo'[k], "write", p) /\ todo'[k].val = 0
    <3>. PICK off \in Nat, v \in Int : \/ todo'[k] = WriteCall(i, off, 1, v) /\ off < 2
                                       \/ todo'[k] = WriteCall(p, off, 1, 0)
      BY <1>3
    <3>. QED
      BY DEF WriteCall, Is
  <2>3. m >= 1 /\ m # 2
    BY <1>3
  <2>4. p \in imap' /\ mem'[p].type = "dir" /\ dino'[p].type = "dir" /\ p \in Inodes
    BY <1>0 DEF Dirs
  <2>5. mem'[i].size <= 2 /\ i \in imap' /\ dino'[i] = Blank
    OBVIOUS
  <2>6. Creating(p, i)'
    BY <1>3, <1>8, <2>1, <2>2, <2>3, <2>4, <2>5, CreatingNext, ZenonT(60)
  <2>. QED
    BY <2>6 DEF Doing
<1>10. Acting' \subseteq {p, i}
  <2>1. todo' \in Seq(Call) /\ onfail' \in Seq(Call)
    <3>1. TypeOK'
      BY <1>0, StepType DEF Step
    <3>. QED
      BY <3>1 DEF TypeOK
  <2>a. ASSUME NEW k \in 1 .. (m - 3) PROVE todo'[k].in \in {p, i}
    <3>. PICK off \in Nat, v \in Int : \/ todo'[k] = WriteCall(i, off, 1, v)
                                       \/ todo'[k] = WriteCall(p, off, 1, 0)
      BY <1>3
    <3>. QED
      BY DEF WriteCall
  <2>2. \A k \in 1 .. m : k = m \/ k = m - 1 \/ k = m - 2 \/ k \in 1 .. (m - 3)
    OBVIOUS
  <2>3. ASSUME NEW k \in 1 .. m PROVE todo'[k].in \in {p, i}
    <3>1. CASE k \in 1 .. (m - 3)
      BY <2>a, <3>1
    <3>2. CASE k = m - 2
      BY <1>3, <3>2 DEF WriteCall
    <3>3. CASE k = m \/ k = m - 1
      BY <1>3, <3>3, CallOps
    <3>. QED
      BY <2>2, <3>1, <3>2, <3>3
  <2>4. Targets(todo') \subseteq {p, i}
    BY <1>3, <2>1, <2>3 DEF Targets
  <2>5. Targets(onfail') \subseteq {p, i}
    BY DEF Targets, TruncCall, ReleaseCall, SyncCall
  <2>. QED
    BY <2>4, <2>5 DEF Acting, Targets
<1>11. Live' \subseteq Reachable \cup {i}
  BY <1>0, <1>1, <1>10 DEF Live
<1>12. DiskBehind'
  <2>. SUFFICES ASSUME NEW j \in Reachable \cup {i} PROVE OnDisk(j)'
    BY <1>11 DEF DiskBehind
  <2>1. CASE j # i
    BY <1>0, <1>2, <1>4, <2>1 DEF DiskBehind
  <2>2. CASE j = i
    <3>1. \A s \in Places : RefAt(dino[i], s)' = 0
      <4>. SUFFICES ASSUME NEW s \in Places PROVE RefAt(dino[i], s)' = 0
        OBVIOUS
      <4>1. BlockAt(dino[i], s)' = IF s < NrDirect THEN dino'[i].direct[s]
              ELSE IF dino'[i].ind = 0 THEN 0 ELSE blk'[dino'[i].ind][s - NrDirect]
        BY DEF BlockAt
      <4>2. dino'[i].ind = 0 /\ \A l \in 0 .. (NrDirect - 1) : dino'[i].direct[l] = 0
        <5>1. Blank.ind = 0 /\ \A l \in 0 .. (NrDirect - 1) : Blank.direct[l] = 0
          BY DEF Blank
        <5>. QED
          BY <5>1
      <4>3. BlockAt(dino[i], s)' = 0 \/ s = -1
        <5>1. \/ s = -1 \/ ~(s < NrDirect)
              \/ s < NrDirect /\ s \in 0 .. (NrDirect - 1)
          BY PlaceCases, PlacesInt, FileStoreAssumption
        <5>. QED
          BY <4>1, <4>2, <5>1
      <4>. QED
        BY <4>2, <4>3, Zenon DEF RefAt
    <3>2. HasItsBlocks(dino[i])'
      <4>1. Blocks(dino'[i].size) = 0
        BY NoBlocks DEF Blank
      <4>2. \A l \in 0 .. (0 - 1) : FALSE
        OBVIOUS
      <4>. QED
        BY <4>1, <4>2 DEF HasItsBlocks, Blocks
    <3>. QED
      BY <2>2, <3>1, <3>2 DEF OnDisk
  <2>. QED
    BY <2>1, <2>2
<1>13. UnmarkedBlank'
  <2>. SUFFICES ASSUME NEW j \in Inodes \ imap'
                PROVE  mem'[j] = Blank /\ (dino'[j] = Blank \/ Closing(j)')
    BY DEF UnmarkedBlank
  <2>. QED
    BY <1>0, <1>2 DEF UnmarkedBlank
<1>14. Typed'
  BY <1>0, <1>1 DEF Typed
<1>15. Owned(Live)' /\ Filled(Live)'
  <2>. PICK R \in SUBSET Inodes : R = Reachable
    BY <1>0
  <2>0. Owned(R) /\ Filled(R)
    <3>1. R \in SUBSET Live
      BY <1>0
    <3>. QED
      BY <1>0, <3>1, OwnedSubset, FilledSubset
  <2>. PICK P \in SUBSET Inodes : P = R \cup {i}
    OBVIOUS
  <2>. PICK Q \in SUBSET P : Q = Live'
    BY <1>11
  <2>1. Owned(P) /\ Filled(P)
    BY <2>0, BlankOwned, BlankFilled DEF WriteSteps
  <2>2. Owned(P)' /\ Filled(P)'
    BY <1>0, <2>1, OwnedStep, FilledStep
  <2>3. Owned(Q)' /\ Filled(Q)'
    BY <2>2, OwnedSubsetNext, FilledSubsetNext
  <2>. QED
    BY <2>3 DEF Owned, Filled
<1>16. \A j \in Live' : j \in Live \/ mem[j] = Blank
  BY <1>0, <1>11
<1>. QED
  BY <1>6, <1>7, <1>9, <1>12, <1>13, <1>14, <1>15, <1>16 DEF Consistent, WhileRunning

\* A step that writes nothing, between two calls of a command that has none left.
LEMMA QuietKeeps ==
  ASSUME TypeOK, Stands, DirsKept, NamesSound, Typed, todo = <<>>,
         UNCHANGED <<imap, dino, blk, mem, died>>,
         pc \notin Loaded \cup {"csum"}, pc' \notin Loaded \cup {"csum"}
  PROVE  /\ Reachable' = Reachable /\ Dirs' = Dirs
         /\ \A i : /\ \A s : HeldAt(i, s)' = HeldAt(i, s)
                   /\ Known(i)' = Known(i)
                   /\ \A k : MemCell(i, k)' = MemCell(i, k)
                   /\ OnDisk(i) => OnDisk(i)'
         /\ DirsKept' /\ NamesSound' /\ Typed'
<1>1. Reachable' = Reachable /\ Dirs' = Dirs
  BY ReachSame
<1>2. (\A j : ~Closing(j)) /\ (\A d, x : ~NewName(d, x))
  BY NothingLeft
<1>3. ASSUME NEW i
      PROVE  /\ \A s : HeldAt(i, s)' = HeldAt(i, s)
             /\ Known(i)' = Known(i)
             /\ \A k : MemCell(i, k)' = MemCell(i, k)
             /\ OnDisk(i) => OnDisk(i)'
  <2>1. /\ \A s : HeldAt(i, s)' = HeldAt(i, s)
        /\ Known(i)' = Known(i)
        /\ \A k : MemCell(i, k)' = MemCell(i, k)
    BY QuietHeld
  <2>. QED
    BY <2>1, SameOnDisk
<1>4. DirsKept'
  <2>. SUFFICES ASSUME NEW d \in Dirs
                PROVE  mem'[d].type = "dir" /\ dino'[d].size <= mem'[d].size /\ OnDisk(d)'
    BY <1>1 DEF DirsKept
  <2>. QED
    BY <1>3 DEF DirsKept
<1>5. NamesSound'
  BY <1>1, <1>2, <1>3, NamesStay
<1>6. Typed'
  BY <1>1 DEF Typed
<1>. QED
  BY <1>1, <1>3, <1>4, <1>5, <1>6

\* Without an inode the command is over.
LEMMA NoInodeConsistent ==
  ASSUME Busy, NoInode
  PROVE  Consistent' /\ Live' \subseteq Live
<1>0. /\ TypeOK /\ Stands /\ DirsKept /\ NamesSound /\ Typed /\ DiskBehind /\ UnmarkedBlank
      /\ Owned(Live) /\ Filled(Live) /\ Live \subseteq Inodes
  BY BusyFacts
<1>1. /\ pc = "create" /\ todo = <<>> /\ onfail = <<>> /\ todo' = <<>> /\ onfail' = <<>>
      /\ UNCHANGED <<imap, dino, blk, mem, died>> /\ pc' = "ready"
      /\ pc \notin Loaded \cup {"csum"} /\ pc' \notin Loaded \cup {"csum"}
  BY <1>0 DEF NoInode, Stands, StandsBetween, disk, command, Loaded
<1>2. /\ Reachable' = Reachable
      /\ \A i : OnDisk(i) => OnDisk(i)'
      /\ DirsKept' /\ NamesSound' /\ Typed'
  BY <1>0, <1>1, QuietKeeps
<1>3. Doing'
  BY <1>1 DEF Doing
<1>4. Live' = Live
  BY <1>1, <1>2 DEF Live, Acting, Targets
<1>5. \A j : ~Closing(j)
  BY <1>1, NothingLeft
<1>6. DiskBehind' /\ UnmarkedBlank'
  BY <1>0, <1>1, <1>2, <1>4, <1>5 DEF DiskBehind, UnmarkedBlank
<1>7. Owned(Live)' /\ Filled(Live)'
  <2>. PICK P \in SUBSET Inodes : P = Live
    BY <1>0
  <2>1. Owned(P) /\ Filled(P)
    BY <1>0
  <2>2. Owned(P)' /\ Filled(P)'
    BY <1>0, <1>1, <2>1, OwnedStep, FilledStep
  <2>. QED
    BY <1>4, <2>2 DEF Owned, Filled
<1>. QED
  BY <1>2, <1>3, <1>4, <1>6, <1>7 DEF Consistent, WhileRunning

\* The plan of a command, as it starts.
LEMMA DoingCommand ==
  ASSUME TypeOK, Ownership, Consistent, Command, ~hurt'
  PROVE  Doing'
<1>0. /\ TypeOK /\ Stands /\ RootStays /\ DirsKept /\ NamesSound /\ Typed
  BY DEF Ownership, Consistent
<1>1. /\ pc = "idle" /\ todo = <<>> /\ Intact /\ mem = dino
      /\ UNCHANGED <<imap, dino, blk, mem, died, dirty>>
      /\ pc \notin Loaded \cup {"csum"} /\ pc' \notin Loaded \cup {"csum"} /\ pc' # "csum"
  <2>1. died' = died
    BY DEF Command, StartWrite, StartCreate, StartRemove, Start
  <2>2. pc = "idle" /\ pc' \in {"ready", "create"} /\ UNCHANGED <<imap, dino, blk, mem, dirty>> /\ Intact
    BY CommandStarts DEF CanStart
  <2>. QED
    BY <1>0, <2>1, <2>2 DEF Stands, StandsBetween, Loaded
<1>2. /\ Reachable' = Reachable /\ Dirs' = Dirs
      /\ \A i : Known(i)' = Known(i) /\ \A k : MemCell(i, k)' = MemCell(i, k)
  BY <1>0, <1>1, QuietKeeps
<1>3. Reachable \subseteq imap /\ Reachable \subseteq Inodes
  BY <1>0, ReachableMarked, ReachBasics
<1>4. ASSUME NEW i \in Inodes, NEW off \in Offsets, NEW n \in Lengths, StartWrite(i, off, n)
      PROVE  Doing'
  <2>1. /\ todo' = <<WriteCall(i, off, n, ncmd + 1), TruncCall(i, off + n), SyncCall(i)>>
        /\ onfail' = <<SyncCall(i)>> /\ i \in Reachable /\ dino[i].type # "dir"
    BY <1>4 DEF StartWrite
  <2>. PICK m \in Nat : m = 3 /\ m \in 1 .. 3 /\ m - 1 = 2 /\ ~(m < 3)
    OBVIOUS
  <2>2. m = Len(todo') /\ todo'[m] = SyncCall(i) /\ todo'[m - 1] = TruncCall(i, off + n)
        /\ Cur' = WriteCall(i, off, n, ncmd + 1)
    BY <2>1 DEF Cur
  <2>3. Is(todo'[m - 1], "trunc", i) /\ Is(Cur', "write", i)
    BY <2>2, CallOps DEF Is, WriteCall
  <2>4. died' \/ dino'[i].type # "none"
    BY <1>0, <1>1, <2>1 DEF Typed
  <2>5. Writing(i)'
    BY <1>1, <1>3, <2>1, <2>2, <2>3, <2>4, WritingNext
  <2>. QED
    BY <2>5 DEF Doing
<1>5. ASSUME NEW op \in {"touch", "mkdir"}, NEW p \in Inodes, StartCreate(op, p)
      PROVE  Doing'
  BY <1>1, <1>5 DEF StartCreate, Doing
<1>6. ASSUME NEW k \in 2 .. (NrLogical * BlockSize - 1), StartRemove(k)
      PROVE  Doing'
  <2>. PICK i \in Inodes : i = CellAt(dino[0], k) - 1
    BY <1>6 DEF StartRemove
  <2>1. todo' = RemoveCalls(i, k) /\ onfail' = <<>> /\ k \in LiveSlots(dino[0])
    BY <1>6 DEF StartRemove
  <2>2. 0 \in Dirs
    BY <1>0, ReachBasics DEF RootStays, Dirs
  <2>3. k \in 2 .. (dino[0].size - 1) /\ k \in Nat /\ CellAt(dino[0], k) > 0
    BY <2>1 DEF LiveSlots
  <2>4. k \in Known(0) /\ CellAt(dino[0], k) = MemCell(0, k)
    BY <1>0, <2>2, <2>3, DirCell
  <2>5. MemCell(0, k) > 0 /\ MemCell(0, k) = i + 1 /\ i = MemCell(0, k) - 1
    BY <2>3, <2>4, MemCellInt
  <2>6. i \in imap /\ i # 0
    BY <1>0, <2>2, <2>4, <2>5 DEF NamesSound
  <2>. PICK m \in Nat : /\ m = 5 /\ m \in 1 .. 5 /\ m - 1 = 4 /\ m - 2 = 3 /\ m - 3 = 2
                        /\ ~(m < 5) /\ m # 2
    OBVIOUS
  <2>7. /\ m = Len(todo') /\ todo'[m] = SyncCall(0) /\ todo'[m - 1] = SyncCall(i)
        /\ todo'[m - 2] = ReleaseCall(i) /\ todo'[m - 3] = TruncCall(i, 0)
        /\ Cur' = WriteCall(0, k, 1, Removed)
    BY <2>1 DEF RemoveCalls, Cur
  <2>8. Is(Cur', "write", 0) /\ Cur'.n = 1 /\ Cur'.val = Removed /\ Cur'.off = k
    BY <2>7 DEF Is, WriteCall
  <2>9. Cur'.off \in Known(0)' /\ MemCell(0, Cur.off)' = i + 1
    <3>1. k \in Known(0)' /\ MemCell(0, k)' = i + 1
      BY <1>2, <2>4, <2>5
    <3>2. MemCell(0, Cur.off)' = MemCell(0, k)'
      BY <2>8, Zenon DEF MemCell
    <3>. QED
      BY <2>8, <3>1, <3>2
  <2>10. Removing(i)'
    BY <1>1, <2>1, <2>6, <2>7, <2>8, <2>9, RemovingNext
  <2>. QED
    BY <2>10 DEF Doing
<1>. QED
  BY <1>4, <1>5, <1>6 DEF Command

\* A command starts with what the disk has.
LEMMA CommandConsistent ==
  ASSUME TypeOK, Ownership, Consistent, Command, ~hurt'
  PROVE  Consistent' /\ Live' \subseteq Reachable
<1>0. /\ TypeOK /\ Stands /\ RootStays /\ DirsKept /\ NamesSound /\ Typed
  BY DEF Ownership, Consistent
<1>1. /\ pc = "idle" /\ todo = <<>> /\ Intact /\ mem = dino
      /\ UNCHANGED <<imap, bmap, dino, blk, mem, died>> /\ pc' \in {"ready", "create"}
      /\ pc \notin Loaded \cup {"csum"} /\ pc' \notin Loaded \cup {"csum"}
  <2>1. died' = died
    BY DEF Command, StartWrite, StartCreate, StartRemove, Start
  <2>2. /\ pc = "idle" /\ pc' \in {"ready", "create"} /\ UNCHANGED <<imap, bmap, dino, blk, mem>>
        /\ Intact
    BY CommandStarts DEF CanStart
  <2>. QED
    BY <1>0, <2>1, <2>2 DEF Stands, StandsBetween, Loaded
<1>2. /\ Reachable' = Reachable
      /\ \A i : (\A s : HeldAt(i, s)' = HeldAt(i, s)) /\ (OnDisk(i) => OnDisk(i)')
      /\ DirsKept' /\ NamesSound' /\ Typed'
  BY <1>0, <1>1, QuietKeeps
<1>3. Live' \subseteq Reachable
  BY <1>0, <1>2, CommandPlan DEF Live
<1>. PICK R \in SUBSET Inodes : R = Reachable
  BY ReachBasics
<1>. PICK Q \in SUBSET R : Q = Live'
  BY <1>3
<1>4. Owned(Live)'
  <2>1. Owned(R)
    BY <1>1, SoundOwned DEF Intact
  <2>2. Owned(R)'
    BY <1>1, <1>2, <2>1, KeepsHeld
  <2>3. Owned(Q)'
    BY <2>2, OwnedSubsetNext
  <2>. QED
    BY <2>3 DEF Owned
<1>5. \A i \in R : \A l \in 0 .. (Blocks(mem[i].size) - 1) :
        l < NrLogical /\ HeldAt(i, l) # 0
  <2>1. pc \notin WriteSteps \cup Loaded /\ pc \notin TruncSteps
    BY <1>1 DEF WriteSteps, TruncSteps, Loaded
  <2>2. Filled(R)
    BY <1>0, <1>1, <2>1, IntactFilled DEF Intact
  <2>3. \A i : Extent(i) = mem[i].size /\ \A l : ~Cleared(i, l)
    BY <2>1 DEF Extent, Cleared
  <2>. QED
    BY <2>2, <2>3 DEF Filled
<1>6. Filled(Live)'
  <2>1. \A i : Extent(i)' = mem[i].size
    BY <1>1 DEF Extent, WriteSteps
  <2>2. \A i \in Q : \A l \in 0 .. (Blocks(Extent(i)') - 1) : l < NrLogical /\ HeldAt(i, l)' # 0
    BY <1>2, <1>5, <2>1
  <2>3. Filled(Q)'
    BY <2>2 DEF Filled, Blocks
  <2>. QED
    BY <2>3 DEF Filled
<1>7. DiskBehind'
  <2>. SUFFICES ASSUME NEW i \in R PROVE OnDisk(i)
    BY <1>2, <1>3 DEF DiskBehind
  <2>1. pc \notin Loaded
    BY <1>1
  <2>2. \A s \in Places : RefAt(dino[i], s) = HeldAt(i, s)
    BY <1>1, <2>1, Zenon DEF RefAt, HeldAt, BlockAt, Table
  <2>. QED
    BY <1>1, <2>2 DEF OnDisk, Intact
<1>8. UnmarkedBlank'
  BY <1>1 DEF UnmarkedBlank, Intact
<1>. QED
  BY <1>2, <1>3, <1>4, <1>6, <1>7, <1>8, DoingCommand DEF Consistent, WhileRunning

\* What is left of a process that is gone is what the disk has: in a directory, what the
\* process had of it, up to the size on the disk.
LEMMA GoneConsistent ==
  ASSUME TypeOK, Stands, DirsKept, NamesSound, Typed, TypeOK', Gone, UNCHANGED <<dino, blk>>,
         imap \subseteq imap', died' \/ (died' = died /\ todo = <<>>)
  PROVE  /\ Consistent' /\ Dirs' = Dirs
         /\ \A d \in Dirs : \A k : k \in Known(d)' =>
              k \in Known(d) /\ MemCell(d, k)' = MemCell(d, k)
<1>0. /\ pc' = "idle" /\ todo' = <<>> /\ mem' = dino
      /\ pc' \notin Loaded /\ pc' # "csum"
  BY DEF Gone, Loaded
<1>1. Reachable' = Reachable /\ Dirs' = Dirs /\ Dirs \subseteq Inodes
  BY ReachSame, ReachBasics
<1>2. ASSUME NEW d \in Dirs PROVE OnDisk(d)'
  <2>1. ASSUME NEW s \in Places PROVE RefAt(dino[d], s)' = HeldAt(d, s)'
    <3>1. BlockAt(dino[d], s)' = IF s < NrDirect THEN dino[d].direct[s]
                       ELSE IF dino[d].ind = 0 THEN 0 ELSE blk[dino[d].ind][s - NrDirect]
      BY DEF BlockAt
    <3>2. HeldAt(d, s)' = IF s = -1 THEN dino[d].ind ELSE IF s < NrDirect THEN dino[d].direct[s]
                       ELSE IF dino[d].ind = 0 THEN 0 ELSE blk[dino[d].ind][s - NrDirect]
      BY <1>0, Zenon DEF HeldAt, Table
    <3>3. RefAt(dino[d], s)' = IF s = -1 THEN dino[d].ind ELSE BlockAt(dino[d], s)'
      BY DEF RefAt
    <3>. QED
      BY <3>1, <3>2, <3>3
  <2>2. HasItsBlocks(dino[d])
    BY DEF DirsKept, OnDisk
  <2>3. HasItsBlocks(dino[d])'
    BY <2>2 DEF HasItsBlocks, BlockAt, Blocks
  <2>. QED
    BY <2>1, <2>3 DEF OnDisk
<1>3. ASSUME NEW d \in Dirs, NEW k \in Known(d)'
      PROVE  k \in Known(d) /\ MemCell(d, k)' = MemCell(d, k) /\ k < dino[d].size
  <2>1. k \in 2 .. (dino[d].size - 1)
    BY <1>0, Zenon DEF Known
  <2>2. /\ k \in Known(d) /\ k \in Nat /\ k < dino[d].size
        /\ CellAt(dino[d], k) = MemCell(d, k)
    BY <2>1, DirCell
  <2>3. CellAt(dino[d], k)' = MemCell(d, k)'
    BY <1>1, <1>2, <2>2, DiskCellNext
  <2>4. CellAt(dino[d], k)' = CellAt(dino[d], k)
    BY DEF CellAt, BlockAt
  <2>. QED
    BY <2>2, <2>3, <2>4
<1>4. DirsKept'
  <2>. SUFFICES ASSUME NEW d \in Dirs
                PROVE  mem'[d].type = "dir" /\ dino'[d].size <= mem'[d].size /\ OnDisk(d)'
    BY <1>1 DEF DirsKept
  <2>1. dino[d].size \in Nat
    BY <1>1, SizeNat
  <2>. QED
    BY <1>0, <1>2, <2>1 DEF Dirs
<1>5. NamesSound'
  <2>1. ASSUME NEW d \in Dirs', NEW k \in Known(d)', MemCell(d, k)' > 0
        PROVE  \E x : /\ x = MemCell(d, k)' - 1
                      /\ x \in Inodes \cap imap' /\ x # 0
                      /\ (k < dino'[d].size \/ NewName(d, x)')
    <3>1. /\ d \in Dirs /\ k \in Known(d) /\ MemCell(d, k)' = MemCell(d, k) /\ k < dino[d].size
      BY <1>1, <1>3, <2>1
    <3>. PICK x : x = MemCell(d, k) - 1
      OBVIOUS
    <3>2. x \in Inodes \cap imap /\ x # 0
      BY <2>1, <3>1 DEF NamesSound
    <3>. QED
      BY <3>1, <3>2
  <2>2. ASSUME NEW c \in Dirs', NEW d \in Dirs', NEW j \in Known(c)', NEW k \in Known(d)',
               MemCell(c, j)' > 0, MemCell(c, j)' = MemCell(d, k)'
        PROVE  c = d /\ j = k
    <3>1. /\ c \in Dirs /\ j \in Known(c) /\ MemCell(c, j)' = MemCell(c, j)
          /\ d \in Dirs /\ k \in Known(d) /\ MemCell(d, k)' = MemCell(d, k)
      BY <1>1, <1>3, <2>2
    <3>2. MemCell(c, j) > 0 /\ MemCell(c, j) = MemCell(d, k)
      BY <2>2, <3>1
    <3>. QED
      BY <3>1, <3>2 DEF NamesSound
  <2>. QED
    BY <2>1, <2>2 DEF NamesSound
<1>6. Doing' /\ (pc' # "idle" => WhileRunning')
  BY <1>0 DEF Doing
<1>7. Typed'
  BY <1>1 DEF Typed
<1>. QED
  BY <1>1, <1>3, <1>4, <1>5, <1>6, <1>7 DEF Consistent

\* The new image: the root directory, which names nothing and has its first block.
LEMMA NewImage ==
  ASSUME Init
  PROVE  /\ dino = [i \in Inodes |-> IF i = 0 THEN RootInode ELSE Blank] /\ mem = dino
         /\ 0 \in Inodes /\ pc = "idle" /\ todo = <<>>
         /\ dino[0].type = "dir" /\ dino[0].size = 2 /\ dino[0].direct[0] = DataStart
         /\ Known(0) = {} /\ Reachable \subseteq {0} /\ OnDisk(0)
<1>0. /\ dino = [i \in Inodes |-> IF i = 0 THEN RootInode ELSE Blank] /\ mem = dino
      /\ 0 \in Inodes /\ pc = "idle" /\ todo = <<>>
  BY Sizes DEF Init
<1>1. /\ dino[0].type = "dir" /\ dino[0].size = 2 /\ dino[0].direct[0] = DataStart
      /\ dino[0] \in Dinode
  <2>1. RootInode.type = "dir" /\ RootInode.size = 2 /\ RootInode.direct[0] = DataStart
    BY FileStoreAssumption DEF RootInode, Blank
  <2>2. TypeOK
    BY InitType
  <2>. QED
    BY <1>0, <2>1, <2>2 DEF TypeOK
<1>2. ~(\E k : k \in 2 .. (2 - 1))
  OBVIOUS
<1>3. Known(0) = {}
  <2>1. Known(0) = 2 .. (2 - 1)
    BY <1>0, <1>1, Zenon DEF Known
  <2>. QED
    BY <1>2, <2>1
<1>4. Reachable \subseteq {0}
  <2>1. Children(dino[0]) = {}
    BY <1>1, <1>2 DEF Children, LiveSlots
  <2>. QED
    BY <1>0, <2>1, ReachInside
<1>5. OnDisk(0)
  <2>1. \A s \in Places : RefAt(dino[0], s) = HeldAt(0, s)
    BY <1>0, Zenon DEF RefAt, HeldAt, BlockAt, Table, Loaded
  <2>2. Blocks(2) <= 1 /\ Blocks(2) \in Nat
    BY BlocksAtMost, BlocksNat, FileStoreAssumption
  <2>3. ASSUME NEW l \in 0 .. (Blocks(2) - 1) PROVE l < NrLogical /\ BlockAt(dino[0], l) # 0
    <3>1. l = 0 /\ 0 < NrDirect /\ 0 < NrLogical
      BY <2>2, <2>3, PlacesInt, FileStoreAssumption
    <3>2. DataStart # 0
      BY FileStoreAssumption
    <3>. QED
      BY <1>1, <3>1, <3>2 DEF BlockAt
  <2>4. Blocks(dino[0].size) = Blocks(2)
    BY <1>1
  <2>5. HasItsBlocks(dino[0])
    BY <2>3, <2>4 DEF HasItsBlocks
  <2>. QED
    BY <2>1, <2>5 DEF OnDisk
<1>. QED
  BY <1>0, <1>1, <1>3, <1>4, <1>5

\* It is what the directories and the process have of it.
LEMMA ConsistencyInit == Init => Consistent
<1>. SUFFICES ASSUME Init PROVE Consistent
  OBVIOUS
<1>0. /\ mem = dino /\ pc = "idle" /\ todo = <<>>
      /\ dino[0].type = "dir" /\ dino[0].size = 2
      /\ Known(0) = {} /\ Reachable \subseteq {0} /\ OnDisk(0)
  BY NewImage
<1>1. Dirs \subseteq {0} /\ \A d \in Dirs : d = 0
  BY <1>0 DEF Dirs
<1>2. DirsKept
  <2>1. mem[0].type = "dir" /\ dino[0].size <= mem[0].size
    BY <1>0
  <2>. QED
    BY <1>0, <1>1, <2>1, Zenon DEF DirsKept
<1>3. NamesSound
  BY <1>0, <1>1 DEF NamesSound
<1>4. Typed
  BY <1>0 DEF Typed
<1>. QED
  BY <1>0, <1>2, <1>3, <1>4 DEF Consistent, Doing

\* A step that changes nothing keeps it.
LEMMA ConsistencySame == ASSUME Consistent, UNCHANGED vars PROVE Consistent'
<1>1. UNCHANGED <<imap, bmap, dino, blk, mem, dirty, pc, todo, onfail, at, ibuf, died>>
  BY DEF vars, disk, plan, regs, command
<1>2. Reachable' = Reachable /\ Dirs' = Dirs
  BY <1>1, ReachSame
<1>3. Cur' = Cur
  BY <1>1, SameCall
<1>4. Live' = Live
  BY <1>1, <1>2 DEF Live, Acting, Targets
<1>5. \A i, s : HeldAt(i, s)' = HeldAt(i, s)
  BY <1>1, <1>3, Zenon DEF HeldAt, Table
<1>6. \A i : Known(i)' = Known(i) /\ \A k : MemCell(i, k)' = MemCell(i, k)
  BY <1>1, <1>3, <1>5, Zenon DEF Known, MemCell
<1>7. \A i : /\ Named(i)' <=> Named(i)
             /\ OnDisk(i)' <=> OnDisk(i)
             /\ Closing(i)' <=> Closing(i)
             /\ \A d : NewName(d, i)' <=> NewName(d, i)
  <2>1. \A i : Named(i)' <=> Named(i)
    BY <1>2, <1>6, Zenon DEF Named
  <2>2. \A i : OnDisk(i)' <=> OnDisk(i)
    BY <1>1, <1>5 DEF OnDisk, RefAt, BlockAt, HasItsBlocks, Blocks
  <2>3. \A i : Closing(i)' <=> Closing(i)
    BY <1>1, <1>3 DEF Closing, Window
  <2>4. \A i, d : NewName(d, i)' <=> NewName(d, i)
    BY <1>1 DEF NewName
  <2>. QED
    BY <2>1, <2>2, <2>3, <2>4
<1>8. DirsKept' /\ Typed'
  BY <1>1, <1>2, <1>7 DEF Consistent, DirsKept, Typed
<1>9. NamesSound'
  <2>1. ASSUME NEW d \in Dirs', NEW k \in Known(d)', MemCell(d, k)' > 0
        PROVE  \E x : /\ x = MemCell(d, k)' - 1
                      /\ x \in Inodes \cap imap' /\ x # 0
                      /\ (k < dino'[d].size \/ NewName(d, x)')
    <3>1. d \in Dirs /\ k \in Known(d) /\ MemCell(d, k)' = MemCell(d, k)
      BY <1>2, <1>6, <2>1
    <3>. PICK x : x = MemCell(d, k) - 1
      OBVIOUS
    <3>2. x \in Inodes \cap imap /\ x # 0 /\ (k < dino[d].size \/ NewName(d, x))
      BY <2>1, <3>1 DEF Consistent, NamesSound
    <3>. QED
      BY <1>1, <1>7, <3>1, <3>2
  <2>2. ASSUME NEW c \in Dirs', NEW d \in Dirs', NEW j \in Known(c)', NEW k \in Known(d)',
               MemCell(c, j)' > 0, MemCell(c, j)' = MemCell(d, k)'
        PROVE  c = d /\ j = k
    BY <1>2, <1>6, <2>2 DEF Consistent, NamesSound
  <2>. QED
    BY <2>1, <2>2 DEF NamesSound
<1>10. Doing'
  <2>1. \A i : Writing(i)' <=> Writing(i)
    BY <1>1, <1>3 DEF Writing
  <2>2. \A i : Removing(i)' <=> Removing(i)
    <3>. PICK k : k = Cur.off
      OBVIOUS
    <3>1. Known(0)' = Known(0) /\ MemCell(0, Cur.off)' = MemCell(0, Cur.off)
      <4>1. MemCell(0, Cur.off)' = MemCell(0, k)'
        BY <1>3, Zenon DEF MemCell
      <4>. QED
        BY <1>6, <4>1
    <3>. QED
      BY <1>1, <1>3, <1>7, <3>1 DEF Removing
  <2>3. \A i : Undoing(i)' <=> Undoing(i)
    BY <1>1, <1>3, <1>7 DEF Undoing, Inode
  <2>4. \A p, i : Creating(p, i)' <=> Creating(p, i)
    BY <1>1, <1>3, <1>7 DEF Creating
  <2>5. StandsStill' <=> StandsStill
    BY <1>1, <1>3 DEF StandsStill, Inode
  <2>. QED
    BY <1>1, <2>1, <2>2, <2>3, <2>4, <2>5 DEF Consistent, Doing
<1>11. pc' # "idle" => WhileRunning'
  <2>. SUFFICES ASSUME pc # "idle" PROVE WhileRunning'
    BY <1>1
  <2>0. Owned(Live) /\ Filled(Live) /\ DiskBehind /\ UnmarkedBlank
    BY DEF Consistent, WhileRunning
  <2>1. Owned(Live)'
    BY <1>1, <1>4, <1>5, <2>0 DEF Owned
  <2>2. Filled(Live)'
    <3>1. \A i : Extent(i)' = Extent(i) /\ \A l : Cleared(i, l)' <=> Cleared(i, l)
      BY <1>1, <1>3 DEF Extent, Cleared, First, Blocks
    <3>. QED
      BY <1>4, <1>5, <2>0, <3>1 DEF Filled, Blocks
  <2>3. DiskBehind' /\ UnmarkedBlank'
    BY <1>1, <1>4, <1>7, <2>0 DEF DiskBehind, UnmarkedBlank
  <2>. QED
    BY <2>1, <2>2, <2>3 DEF WhileRunning
<1>. QED
  BY <1>8, <1>9, <1>10, <1>11 DEF Consistent

\* Through every command, failure and crash.
LEMMA ConsistencyNext ==
  ASSUME TypeOK, Ownership, Consistent, Next, ~hurt' PROVE Consistent'
<1>0. /\ TypeOK /\ Stands /\ DirsKept /\ NamesSound /\ Typed
      /\ pc # "idle" => Busy
  BY DEF Ownership, Consistent, Busy
<1>1. CASE Command
  BY <1>1, CommandConsistent
<1>2. CASE WriteStep \/ TruncStep
  <2>1. Busy
    <3>1. pc # "idle"
      BY <1>2 DEF WriteStep, TruncStep, Running, BeginWrite, MapExisting, MapDirect, MapIndirect,
         ReadIndirect, MapChild, NoChild, WriteIndirect, MapFails, WriteIndirectFails, StoreData,
         StoreCsum, StoreLastCsum, TruncNothing, BeginTrunc, ZeroDirect, UnmarkDirect,
         TruncDirectOnly, LoadIndirect, ZeroChild, UnmarkChild, ZeroIndirect, UnmarkIndirect,
         KeepIndirect
    <3>. QED
      BY <1>0, <3>1
  <2>. QED
    BY <1>2, <2>1, DirsKeptData, NamesSoundData, DoingData, TypedData, DiskBehindData
       DEF Consistent, WhileRunning
<1>3. CASE ReleaseInode
  BY <1>0, <1>3, ReleaseConsistent DEF ReleaseInode, Running
<1>4. CASE SyncInode
  BY <1>0, <1>4, SyncConsistent DEF SyncInode, Running
<1>5. CASE CreateInode
  BY <1>5, CreateConsistent
<1>6. CASE NoInode
  BY <1>0, <1>6, NoInodeConsistent DEF NoInode
<1>7. CASE NoInodeBlock \/ Exit \/ AssertionFails
  <2>1. TypeOK'
    BY <1>7, StepType DEF Step
  <2>2. /\ Gone /\ UNCHANGED <<dino, blk>> /\ imap \subseteq imap'
        /\ died' \/ (died' = died /\ todo = <<>>)
    BY <1>7 DEF NoInodeBlock, TakeNumber, Exit, AssertionFails, disk
  <2>. QED
    BY <1>0, <2>1, <2>2, GoneConsistent
<1>8. CASE Crash
  <2>1. TypeOK'
    BY <1>8, CrashType
  <2>2. Gone /\ UNCHANGED <<dino, blk>> /\ imap \subseteq imap' /\ died'
    BY <1>8 DEF Crash, disk
  <2>. QED
    BY <1>0, <2>1, <2>2, GoneConsistent
<1>. QED
  BY <1>0, <1>1, <1>2, <1>3, <1>4, <1>5, <1>6, <1>7, <1>8, NoLeftovers DEF Next, Step

\* Whatever happens, until a command starts on a damaged image the directories name marked
\* inodes, each once, what the disk has of an inode the process has too, and what a process
\* works on has the blocks of its size.
THEOREM ConsistencyInvariant == Spec => []Consistency
<1>1. Init => Consistency
  BY ConsistencyInit DEF Consistency
<1>2. /\ TypeOK /\ (hurt \/ Ownership) /\ Consistency /\ [Next]_vars
      => Consistency'
  <2>1. ASSUME UNCHANGED vars PROVE hurt' = hurt
    BY <2>1 DEF vars, command
  <2>. QED
    BY <2>1, ConsistencyNext, ConsistencySame, HurtStays DEF Consistency
<1>. QED
  BY <1>1, <1>2, TypeCorrect, OwnershipInvariant, PTL DEF Spec
=============================================================================
