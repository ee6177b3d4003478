-------------------------- MODULE FileStoreAccount ---------------------------
(***************************************************************************)
(* That nothing is forgotten: as long as no process has died, a marked     *)
(* inode number is named or about to be given back, a marked block is held *)
(* by such an inode within its size, and so checkfs finds nothing.         *)
(***************************************************************************)
EXTENDS FileStoreSafety, FiniteSetTheorems
-----------------------------------------------------------------------------
(* What a path leads to stays where it is.                                 *)

\* A step leaves every name of a directory where it was, but the one it writes over.
LEMMA NamesStayData ==
  ASSUME Busy, FreshIsZero, WriteStep \/ TruncStep, NEW d \in Dirs, NEW k \in Known(d)
  PROVE  /\ k \in Known(d)'
         /\ MemCell(d, k)' = MemCell(d, k) \/ (StoreData /\ d = Cur.in /\ k = Cur.off)
<1>0. /\ TypeOK /\ Stands /\ Owned(Live) /\ Filled(Live) /\ Live \subseteq Inodes /\ d \in Live
      /\ DirsKept /\ Doing
  BY BusyFacts
<1>. PICK j : j = Cur.in
  OBVIOUS
<1>1. j \in Live /\ todo # <<>>
  BY BusyFacts, DataCall
<1>2. CASE ~(StoreData /\ j \in Dirs)
  BY <1>2, NamesKept
<1>3. CASE d # j
  BY <1>0, <1>1, <1>3, NamesOther
<1>4. CASE d = j /\ StoreData
  <2>1. Cur.n = 1
    BY <1>0, <1>4, DirWrite DEF WriteStep
  <2>2. /\ pc = "store" /\ pc' = "csum" /\ Cur' = Cur /\ mem' = mem /\ mem[j].size \in Nat
        /\ Cur.off \in Nat
    BY <1>0, <1>1, <1>4, Current, SizeNat DEF StoreData, Running, SetNoInode, plan, Cur
  <2>3. Known(j) = 2 .. (mem[j].size - 1) /\ Known(j)' = 2 .. (MaxOf(mem[j].size, Cur.off + 1) - 1)
    BY <2>1, <2>2, Zenon DEF Known
  <2>4. k \in Known(j)'
    BY <1>4, <2>2, <2>3 DEF MaxOf
  <2>5. ~fresh \/ blk[Mapped] = Zero
    BY DEF FreshIsZero
  <2>6. \/ k = Cur.off
        \/ MemCell(j, k)' = MemCell(j, k)
    BY <1>0, <1>1, <1>4, <2>1, <2>4, <2>5, NamesStored
  <2>. QED
    BY <1>4, <2>4, <2>6
<1>. QED
  BY <1>2, <1>3, <1>4

\* Only the call that erases the name of inode x takes it from the tree.
LEMMA ReachStays ==
  ASSUME Busy, TypeOK', FreshIsZero, EntriesPlaced, EmptyFirst, WriteStep \/ TruncStep,
         NEW x \in Reachable
  PROVE  x \in Reachable' \/ (StoreData /\ Removing(x) /\ Len(todo) = 5)
<1>0. /\ TypeOK /\ Stands /\ DirsKept /\ NamesSound /\ Doing /\ Dirs \subseteq Inodes
      /\ Reachable \subseteq Inodes
  BY BusyFacts
<1>1. ASSUME NEW d \in Dirs, NEW y \in Children(dino[d]) \cap Inodes,
             ~(StoreData /\ Cur.in = d /\ Removing(y) /\ Len(todo) = 5)
      PROVE  y \in Children(dino[d])'
  <2>. PICK k \in Known(d) : /\ k \in Nat /\ k < dino[d].size /\ k >= 2
                             /\ MemCell(d, k) = y + 1 /\ MemCell(d, k) > 0
    BY <1>0, ChildKnown
  <2>1. dino'[d] = dino[d] /\ OnDisk(d)'
    BY DirOnDisk
  <2>2. MemCell(d, k)' = y + 1
    <3>. SUFFICES ASSUME StoreData, d = Cur.in, k = Cur.off PROVE FALSE
      BY NamesStayData
    <3>1. WriteStep /\ todo # <<>> /\ Cur.op = "write" /\ pc = "store"
      BY DataCall, <1>0 DEF WriteStep, StoreData, Running
    <3>. PICK i \in Inodes :
           \/ Writing(i) /\ Len(todo) = 3 /\ Cur.in = i
           \/ Removing(i) /\ Len(todo) = 5 /\ Cur.in = 0 /\ Cur.n = 1 /\ Cur.val = Removed
           \/ \E p \in Inodes :
                /\ Creating(p, i) /\ Len(todo) >= 3 /\ Cur.n = 1
                /\ \/ Len(todo) = 3 /\ Cur.in = p /\ Cur.val = i + 1
                   \/ Len(todo) > 3 /\ Cur.in = i /\ Cur.off < 2
                   \/ Len(todo) > 3 /\ Cur.in = p /\ Cur.val = 0
      BY <1>0, <3>1, WritePlan
    <3>2. CASE Writing(i) /\ Cur.in = i
      BY <1>0, <3>2 DEF Writing, DirsKept
    <3>3. CASE Removing(i) /\ Len(todo) = 5 /\ Cur.in = 0
      <4>1. MemCell(0, Cur.off) = i + 1
        BY <3>1, <3>3 DEF Removing
      <4>2. i = y
        BY <3>3, <4>1 DEF Inodes
      <4>. QED
        BY <1>1, <3>3, <4>2
    <3>4. ASSUME NEW p \in Inodes, Creating(p, i), Len(todo) >= 3, Cur.n = 1,
                 \/ Len(todo) = 3 /\ Cur.in = p /\ Cur.val = i + 1
                 \/ Len(todo) > 3 /\ Cur.in = i /\ Cur.off < 2
                 \/ Len(todo) > 3 /\ Cur.in = p /\ Cur.val = 0
          PROVE  FALSE
      <4>1. dino[i] = Blank
        BY <3>4, CreatingLeft
      <4>2. Cur.in # i
        BY <1>0, <4>1 DEF Blank, Dirs
      <4>3. Cur.val # Removed
        BY <3>4, <4>2 DEF Removed, Inodes
      <4>4. Spare(Cur)
        <5>1. Cur = todo[1] /\ 1 \in DOMAIN todo /\ pc # "csum"
          BY <1>0, <3>1, CurFirst DEF TypeOK
        <5>. QED
          BY <5>1, Zenon DEF EntriesPlaced
      <4>5. MemCell(d, k) > 0 => k # Cur.off
        BY <3>1, <4>3, <4>4 DEF Spare
      <4>. QED
        BY <4>5
    <3>. QED
      BY <3>2, <3>3, <3>4
  <2>. QED
    BY <1>0, <2>1, <2>2, ChildNext
<1>2. CASE StoreData /\ \E i \in Inodes : Removing(i) /\ Len(todo) = 5
  <2>. PICK i \in Inodes : Removing(i) /\ Len(todo) = 5
    BY <1>2
  <2>1. todo[3] = ReleaseCall(i) /\ todo # <<>>
    BY <1>0, <1>2, RemovingLeft, DataCall DEF WriteStep
  <2>2. ASSUME NEW d \in Dirs, NEW y \in Children(dino[d]) \cap Inodes
        PROVE  d # i /\ (y = i \/ y \in Children(dino[d])')
    <3>1. d # i
      <4>. PICK k \in Known(d) : MemCell(d, k) > 0
        BY <1>0, ChildKnown
      <4>. QED
        BY <1>2, <2>1 DEF EmptyFirst
    <3>2. ASSUME y # i PROVE y \in Children(dino[d])'
      <4>1. ~Removing(y)
        <5>1. SUFFICES ASSUME Removing(y) PROVE FALSE
          OBVIOUS
        <5>2. todo[3] = ReleaseCall(y)
          BY <1>0, <5>1, RemovingLeft
        <5>3. ReleaseCall(y) = ReleaseCall(i)
          BY <2>1, <5>2
        <5>4. ReleaseCall(y).in = y /\ ReleaseCall(i).in = i
          BY CallOps
        <5>. QED
          BY <3>2, <5>3, <5>4
      <4>. QED
        BY <1>1, <4>1
    <3>. QED
      BY <3>1, <3>2
  <2>3. Reachable \subseteq Reachable' \cup {i}
    <3>. PICK X \in SUBSET Inodes : X = {i}
      OBVIOUS
    <3>1. \A d \in Dirs : /\ dino'[d].type = "dir"
                          /\ \A y \in Children(dino[d]) \cap Inodes :
                               d \notin X /\ (y \in X \/ y \in Children(dino[d])')
      BY <2>2, DirOnDisk DEF Dirs
    <3>. QED
      BY <3>1, ReachGrows
  <2>. QED
    BY <1>2, <2>3
<1>3. CASE ~(StoreData /\ \E i \in Inodes : Removing(i) /\ Len(todo) = 5)
  <2>. PICK X \in SUBSET Inodes : X = {}
    OBVIOUS
  <2>1. \A d \in Dirs : /\ dino'[d].type = "dir"
                        /\ \A y \in Children(dino[d]) \cap Inodes :
                             d \notin X /\ (y \in X \/ y \in Children(dino[d])')
    BY <1>1, <1>3, DirOnDisk DEF Dirs
  <2>2. Reachable \subseteq Reachable' \cup X
    BY <2>1, ReachGrows
  <2>. QED
    BY <2>2
<1>. QED
  BY <1>2, <1>3

-----------------------------------------------------------------------------
(* Inode numbers.                                                          *)

\* An inode about to be named is that of a creation.
LEMMA ArrivingCreates ==
  ASSUME Busy, NEW p \in Inodes, NEW x \in Inodes, x \notin Reachable, Arriving(p, x)
  PROVE  Creating(p, x)
<1>t. TypeOK
  BY BusyFacts
<1>. PICK m \in Nat : m = Len(todo)
  BY <1>t DEF TypeOK
<1>0. m >= 2 /\ todo[m - 1] = SyncCall(p) /\ todo[m] = SyncCall(x) /\ todo # <<>>
  BY DEF Arriving
<1>1. ASSUME NEW i \in Inodes, Writing(i) PROVE FALSE
  <2>1. Is(todo[m - 1], "trunc", i)
    BY <1>0, <1>1 DEF Writing
  <2>. QED
    BY <1>0, <2>1, CallOps DEF Is
<1>2. ASSUME NEW i \in Inodes, Removing(i) PROVE FALSE
  BY <1>0, <1>2, RemovingLeft, CallOps, BusyFacts, ReachBasics
<1>3. ASSUME NEW i \in Inodes, Undoing(i) PROVE FALSE
  <2>1. todo[m - 1] = ReleaseCall(i)
    BY <1>0, <1>3 DEF Undoing
  <2>. QED
    BY <1>0, <2>1, CallOps
<1>4. ASSUME NEW q \in Inodes, NEW i \in Inodes, Creating(q, i) PROVE q = p /\ i = x
  BY <1>0, <1>4, CreatingLeft, CallOps
<1>5. ~StandsStill
  BY <1>0 DEF StandsStill
<1>. QED
  BY <1>0, <1>1, <1>2, <1>3, <1>4, <1>5, BusyFacts DEF Doing

\* A number about to be given back is that of an inode removed, or of one whose creation
\* has failed.
LEMMA ReleasingWhere ==
  ASSUME Busy, NEW x \in Inodes, Releasing(x)
  PROVE  Removing(x) \/ Undoing(x)
<1>. PICK m \in Nat : m = Len(todo)
  BY BusyFacts DEF TypeOK
<1>. PICK k \in 1 .. m : todo[k] = ReleaseCall(x)
  BY BusyFacts DEF Releasing, TypeOK
<1>0. /\ todo # <<>> /\ TypeOK /\ Doing /\ Cur = todo[1]
      /\ todo[k].op = "release" /\ todo[k].in = x /\ m >= 1
  BY BusyFacts, CurFirst, CallOps
<1>1. ASSUME NEW i \in Inodes, Writing(i) PROVE FALSE
  <2>1. /\ m \in 1 .. 3 /\ todo[m] = SyncCall(i)
        /\ m >= 2 => Is(todo[m - 1], "trunc", i)
        /\ m = 3 => Is(Cur, "write", i)
    BY <1>1 DEF Writing
  <2>2. k # m
    BY <1>0, <2>1, CallOps
  <2>3. k # m - 1
    BY <1>0, <2>1, <2>2 DEF Is
  <2>4. k = 1 /\ m = 3
    BY <2>1, <2>2, <2>3
  <2>. QED
    BY <1>0, <2>1, <2>4 DEF Is
<1>2. ASSUME NEW i \in Inodes, Removing(i) PROVE i = x
  <2>1. /\ m \in 1 .. 5 /\ todo[m] = SyncCall(0)
        /\ m >= 2 => todo[m - 1] = SyncCall(i)
        /\ m >= 3 => todo[m - 2] = ReleaseCall(i)
        /\ m >= 4 => todo[m - 3] = TruncCall(i, 0)
        /\ m = 5 => Is(Cur, "write", 0)
    BY <1>2, RemovingLeft
  <2>2. k # m
    BY <1>0, <2>1, CallOps
  <2>3. k # m - 1
    BY <1>0, <2>1, <2>2, CallOps
  <2>4. k # m - 3
    BY <1>0, <2>1, <2>2, <2>3, CallOps
  <2>5. k = m - 2 \/ (k = 1 /\ m = 5)
    BY <2>1, <2>2, <2>3, <2>4, SMTT(30)
  <2>6. ~(k = 1 /\ m = 5)
    BY <1>0, <2>1 DEF Is
  <2>. QED
    BY <1>0, <2>1, <2>5, <2>6, CallOps
<1>3. ASSUME NEW i \in Inodes, Undoing(i) PROVE i = x
  <2>1. /\ m \in 1 .. 4 /\ todo[m] = SyncCall(i)
        /\ m >= 2 => todo[m - 1] = ReleaseCall(i)
        /\ m >= 3 => todo[m - 2] = TruncCall(i, 0)
        /\ m = 4 => Cur.op = "trunc"
    BY <1>3 DEF Undoing
  <2>2. k # m
    BY <1>0, <2>1, CallOps
  <2>3. k # m - 2
    BY <1>0, <2>1, <2>2, CallOps
  <2>4. k = m - 1 \/ (k = 1 /\ m = 4)
    BY <2>1, <2>2, <2>3
  <2>5. ~(k = 1 /\ m = 4)
    BY <1>0, <2>1
  <2>. QED
    BY <1>0, <2>1, <2>4, <2>5, CallOps
<1>4. ASSUME NEW q \in Inodes, NEW i \in Inodes, Creating(q, i) PROVE FALSE
  <2>1. /\ m >= 1 /\ todo[m] = SyncCall(i)
        /\ m >= 2 => todo[m - 1] = SyncCall(q)
        /\ m >= 3 => Is(todo[m - 2], "write", q)
        /\ \A n \in 1 .. (m - 3) : Is(todo[n], "write", i) \/ Is(todo[n], "write", q)
    BY <1>4, CreatingLeft
  <2>2. k # m
    BY <1>0, <2>1, CallOps
  <2>3. k # m - 1
    BY <1>0, <2>1, <2>2, CallOps
  <2>4. k # m - 2
    BY <1>0, <2>1, <2>2, <2>3 DEF Is
  <2>5. k \in 1 .. (m - 3)
    BY <2>2, <2>3, <2>4
  <2>. QED
    BY <1>0, <2>1, <2>5 DEF Is
<1>5. ~StandsStill
  BY <1>0 DEF StandsStill
<1>. QED
  BY <1>0, <1>1, <1>2, <1>3, <1>4, <1>5 DEF Doing

\* Every marked number is that of an inode.
LEMMA KeptNumbers ==
  ASSUME TypeOK, NumbersKept
  PROVE  imap \subseteq Inodes
<1>. SUFFICES ASSUME NEW x \in imap, x \notin Reachable PROVE x \in Inodes
  BY ReachBasics
<1>1. \A k \in DOMAIN todo : todo[k].in \in Inodes
  <2>1. \A k \in DOMAIN todo : todo[k] \in Call
    BY DEF TypeOK
  <2>2. \A c \in Call : c.in \in Inodes
    BY DEF Call
  <2>. QED
    BY <2>1, <2>2
<1>2. CASE Releasing(x)
  BY <1>1, <1>2, CallOps DEF Releasing
<1>3. ASSUME NEW p, Arriving(p, x) PROVE x \in Inodes
  <2>. PICK m \in Nat : m = Len(todo) /\ DOMAIN todo = 1 .. m
    BY DEF TypeOK
  <2>1. m >= 2 /\ todo[m] = SyncCall(x) /\ m \in DOMAIN todo
    BY <1>3 DEF Arriving
  <2>. QED
    BY <1>1, <2>1, CallOps
<1>. QED
  BY <1>2, <1>3 DEF NumbersKept

\* A call that writes or cuts back loses no number: the name of a removed inode is erased
\* when the call that gives its number back is still to come.
LEMMA NumbersData ==
  ASSUME Busy, TypeOK', FreshIsZero, DotsFirst, EntriesPlaced, EmptyFirst, NumbersKept,
         WriteStep \/ TruncStep
  PROVE  NumbersKept'
<1>0. /\ TypeOK /\ Stands /\ Doing /\ DirsKept /\ NamesSound /\ imap' = imap /\ dino' = dino
      /\ todo # <<>> /\ Cur = todo[1] /\ Cur.op \in {"write", "trunc"} /\ Dirs \subseteq Inodes
      /\ Reachable \subseteq Inodes
  BY BusyFacts, DataStepKeeps, DataCall, CurFirst
<1>. PICK m \in Nat : m = Len(todo)
  BY <1>0 DEF TypeOK
<1>t. todo' = Tail(todo) =>
        /\ m >= 1 /\ Len(todo') = m - 1 /\ DOMAIN todo = 1 .. m /\ DOMAIN todo' = 1 .. (m - 1)
        /\ \A k \in 1 .. (m - 1) : todo'[k] = todo[k + 1]
  BY <1>0, TailLeft
<1>1. ASSUME NEW x \in imap \ Reachable', x \in Inodes
      PROVE  Releasing(x)' \/ \E p \in Dirs' : Arriving(p, x)'
  <2>1. CASE x \in Reachable
    <3>1. StoreData /\ Removing(x) /\ Len(todo) = 5
      BY <1>1, <2>1, ReachStays
    <3>2. todo' = todo /\ todo[3] = ReleaseCall(x) /\ 3 \in DOMAIN todo
      BY <1>0, <3>1, RemovingLeft DEF StoreData, plan, TypeOK
    <3>. QED
      BY <3>2 DEF Releasing
  <2>2. CASE Releasing(x) /\ x \notin Reachable
    <3>. PICK k \in DOMAIN todo : todo[k] = ReleaseCall(x)
      BY <2>2 DEF Releasing
    <3>1. k # 1 /\ DOMAIN todo = 1 .. m
      BY <1>0, CallOps DEF TypeOK
    <3>2. CASE todo' = todo
      BY <3>2 DEF Releasing
    <3>3. CASE todo' = Tail(todo)
      <4>1. k - 1 \in 1 .. (m - 1) /\ (k - 1) + 1 = k
        BY <3>1
      <4>2. k - 1 \in DOMAIN todo' /\ todo'[k - 1] = ReleaseCall(x)
        BY <1>t, <3>3, <4>1, Zenon
      <4>. QED
        BY <4>2 DEF Releasing
    <3>4. CASE MapFails \/ WriteIndirectFails
      <4>1. Cur.op = "write" /\ pc # "csum"
        BY <3>4, FailPlan
      <4>2. CASE Removing(x)
        <5>0. /\ m \in 1 .. 5
              /\ m >= 2 => todo[m - 1] = SyncCall(x)
              /\ m >= 3 => todo[m - 2] = ReleaseCall(x)
              /\ m >= 4 => todo[m - 3] = TruncCall(x, 0)
              /\ todo[m] = SyncCall(0) /\ x # 0
              /\ m = 5 /\ pc # "csum" => Cur.off \in Known(0) /\ MemCell(0, Cur.off) = x + 1
          BY <4>2, RemovingLeft
        <5>1. m = 5
          BY <1>0, <4>1, <5>0, CallOps, SMTT(30)
        <5>2. Named(x)
          <6>1. 0 \in Dirs
            BY BusyFacts, ReachBasics DEF RootStays, Dirs
          <6>. QED
            BY <4>1, <5>0, <5>1, <6>1, Zenon DEF Named
        <5>. PICK d \in Dirs : NewName(d, x)
          BY <1>0, <1>1, <2>2, <5>2, NamedReachable
        <5>. QED
          BY <5>0, CallOps DEF NewName
      <4>3. CASE Undoing(x)
        <5>1. /\ m \in 1 .. 4 /\ todo[m] = SyncCall(x)
              /\ m >= 2 => todo[m - 1] = ReleaseCall(x)
              /\ m >= 3 => todo[m - 2] = TruncCall(x, 0)
              /\ m = 4 => Cur.op = "trunc"
          BY <4>3 DEF Undoing
        <5>. QED
          BY <1>0, <4>1, <5>1, CallOps
      <4>. QED
        BY <1>1, <2>2, <4>2, <4>3, ReleasingWhere
    <3>. QED
      BY <1>0, <3>2, <3>3, <3>4, DataPlan
  <2>3. ASSUME NEW p \in Dirs, Arriving(p, x), x \notin Reachable
        PROVE  Releasing(x)' \/ \E q \in Dirs' : Arriving(q, x)'
    <3>0. Creating(p, x) /\ p \in Inodes
      BY <1>0, <1>1, <2>3, ArrivingCreates
    <3>1. /\ m >= 2 /\ todo[m - 1] = SyncCall(p) /\ todo[m] = SyncCall(x) /\ x # 0
          /\ m >= 3 => /\ Is(todo[m - 2], "write", p) /\ todo[m - 2].n = 1
                       /\ todo[m - 2].val = x + 1
                       /\ onfail = <<TruncCall(x, 0), ReleaseCall(x), SyncCall(x)>>
      BY <2>3, <3>0, CreatingLeft DEF Arriving
    <3>2. m >= 3
      BY <1>0, <3>1, CallOps
    <3>3. p \in Dirs'
      <4>1. ~Removing(p)
        <5>. SUFFICES ASSUME Removing(p) PROVE FALSE
          OBVIOUS
        <5>. QED
          BY <3>1, RemovingLeft, CallOps
      <4>2. p \in Reachable'
        BY <4>1, ReachStays DEF Dirs
      <4>. QED
        BY <1>0, <4>2 DEF Dirs
    <3>4. CASE todo' = todo
      <4>1. ASSUME m = 3, pc' = "csum"
            PROVE  \E k \in Known(p)' : MemCell(p, k)' = x + 1
        <5>1. StoreData /\ pc = "store"
          <6>1. WriteStep => pc' # "csum" \/ (StoreData /\ pc = "store")
            BY DEF WriteStep, BeginWrite, MapExisting, MapDirect, MapIndirect,
               ReadIndirect, MapChild, NoChild, WriteIndirect, MapFails, WriteIndirectFails,
               StoreData, StoreCsum, StoreLastCsum, Running, Fail, Return
          <6>2. TruncStep => pc' # "csum"
            BY DEF TruncStep, TruncNothing, BeginTrunc, ZeroDirect, UnmarkDirect,
               TruncDirectOnly, LoadIndirect, ZeroChild, UnmarkChild, ZeroIndirect,
               UnmarkIndirect, KeepIndirect, Return
          <6>. QED
            BY <4>1, <6>1, <6>2
        <5>2. Cur.in = p /\ Cur.n = 1 /\ Cur.val = x + 1 /\ Cur.op = "write"
          BY <1>0, <3>1, <4>1 DEF Is
        <5>3. Cur.off >= 2 /\ Cur.off \in Nat
          <6>1. Spare(Cur)
            <7>1. Cur = todo[1] /\ 1 \in DOMAIN todo /\ pc # "csum"
              BY <1>0, <3>2, <5>1 DEF TypeOK
            <7>. QED
              BY <7>1, Zenon DEF EntriesPlaced
          <6>. QED
            BY <1>0, <5>2, <6>1, Current DEF Spare
        <5>. PICK k : k = Cur.off
          OBVIOUS
        <5>4. k \in Known(p)'
          <6>1. Known(p)' = 2 .. (MaxOf(mem[p].size, Cur.off + 1) - 1)
            <7>1. mem' = mem /\ Cur' = Cur
              BY <3>4, <5>1 DEF StoreData, SetNoInode, Cur
            <7>. QED
              BY <4>1, <5>2, <7>1, Zenon DEF Known
          <6>2. mem[p].size \in Nat
            BY <1>0, SizeNat
          <6>. QED
            BY <5>3, <6>1, <6>2 DEF MaxOf
        <5>5. MemCell(p, k)' = x + 1
          <6>. PICK P : P = Live
            OBVIOUS
          <6>1. Owned(P) /\ Filled(P) /\ P \in SUBSET Inodes /\ p \in P
            BY <5>2, BusyFacts
          <6>2. \/ k = Cur.off /\ MemCell(p, k)' = Cur.val
                \/ k # Cur.off
            BY <1>0, <5>1, <5>2, <5>4, <6>1, NamesStored
          <6>. QED
            BY <5>2, <6>2
        <5>. QED
          BY <5>4, <5>5
      <4>2. Arriving(p, x)'
        BY <3>1, <3>2, <3>4, <4>1 DEF Arriving
      <4>. QED
        BY <3>3, <4>2
    <3>5. CASE todo' = Tail(todo) /\ pc' = "ready" /\ ~StoreData /\ (WriteStep => StoreLastCsum)
      <4>1. Len(todo') = m - 1 /\ todo'[(m - 1) - 1] = SyncCall(p) /\ todo'[m - 1] = SyncCall(x)
        <5>1. /\ m - 1 \in 1 .. (m - 1) /\ (m - 1) + 1 = m
              /\ (m - 1) - 1 \in 1 .. (m - 1) /\ ((m - 1) - 1) + 1 = m - 1
          BY <3>2
        <5>. QED
          BY <1>t, <3>1, <3>5, <5>1, Zenon
      <4>2. ASSUME m = 3
            PROVE  \E k \in Known(p)' : MemCell(p, k)' = x + 1
        <5>1. m = 3 /\ Cur.op = "write"
          <6>1. m - 2 = 1 /\ m >= 3
            BY <4>2
          <6>2. Is(todo[1], "write", p)
            BY <3>1, <6>1
          <6>. QED
            BY <1>0, <4>2, <6>2 DEF Is
        <5>2. WriteStep /\ StoreLastCsum
          <6>1. WriteStep
            BY <1>0, <5>1, DataCall
          <6>. QED
            BY <3>5, <6>1
        <5>3. pc = "csum"
          BY <5>2 DEF StoreLastCsum, Running
        <5>. PICK k \in Known(p) : MemCell(p, k) = x + 1
          BY <2>3, <5>1, <5>3 DEF Arriving
        <5>4. Known(p)' = Known(p) /\ MemCell(p, k)' = MemCell(p, k)
          BY <3>5, NamesKept
        <5>. QED
          BY <5>4
      <4>3. Arriving(p, x)'
        <5>1. m - 1 >= 2 /\ pc' # "csum" /\ (m - 1 = 2 => m = 3)
          BY <3>2, <3>5
        <5>. QED
          BY <4>1, <4>2, <5>1 DEF Arriving
      <4>. QED
        BY <3>3, <4>3
    <3>6. CASE MapFails \/ WriteIndirectFails
      <4>1. todo' = CutBack \o onfail /\ onfail = <<TruncCall(x, 0), ReleaseCall(x), SyncCall(x)>>
        BY <3>1, <3>2, <3>6 DEF MapFails, WriteIndirectFails, Fail
      <4>2. onfail[2] = ReleaseCall(x) /\ Len(onfail) = 3
        BY <4>1
      <4>3. Len(todo') = 4 /\ todo'[2 + 1] = ReleaseCall(x)
        BY <1>0, <4>1, <4>2, CutLeft
      <4>4. 3 \in DOMAIN todo'
        BY <4>3 DEF TypeOK
      <4>. QED
        BY <4>3, <4>4 DEF Releasing
    <3>. QED
      BY <1>0, <3>4, <3>5, <3>6, DataPlan
  <2>. QED
    BY <1>1, <2>1, <2>2, <2>3 DEF NumbersKept
<1>2. imap \subseteq Inodes
  BY <1>0, KeptNumbers
<1>. QED
  BY <1>0, <1>1, <1>2 DEF NumbersKept

\* Giving a number back leaves the others as they were.
LEMMA NumbersRelease ==
  ASSUME Busy, NumbersKept, ReleaseInode
  PROVE  NumbersKept'
<1>0. TypeOK /\ Dirs \subseteq Inodes /\ Reachable \subseteq Inodes
  BY BusyFacts
<1>. PICK i \in Inodes :
       /\ Cur.in = i /\ Cur.op = "release" /\ todo # <<>> /\ imap' = imap \ {i}
       /\ todo' = Tail(todo) /\ dino' = dino /\ blk' = blk
  BY ReleaseFacts
<1>. PICK m \in Nat : m = Len(todo)
  BY <1>0 DEF TypeOK
<1>t. /\ m >= 1 /\ Len(todo') = m - 1 /\ DOMAIN todo = 1 .. m /\ DOMAIN todo' = 1 .. (m - 1)
      /\ \A k \in 1 .. (m - 1) : todo'[k] = todo[k + 1]
  BY <1>0, TailLeft
<1>f. Cur = todo[1]
  BY <1>0, CurFirst
<1>1. Reachable' = Reachable /\ Dirs' = Dirs
  BY ReachSame
<1>2. ASSUME NEW x \in imap, x # i, x \notin Reachable PROVE Releasing(x)'
  <2>1. CASE Releasing(x)
    <3>. PICK k \in 1 .. m : todo[k] = ReleaseCall(x)
      BY <1>t, <2>1 DEF Releasing
    <3>1. k # 1
      BY <1>2, <1>f, CallOps
    <3>2. k - 1 \in 1 .. (m - 1) /\ (k - 1) + 1 = k
      BY <3>1
    <3>3. k - 1 \in DOMAIN todo' /\ todo'[k - 1] = ReleaseCall(x)
      BY <1>t, <3>2, Zenon
    <3>. QED
      BY <3>3 DEF Releasing
  <2>2. ASSUME NEW p \in Dirs, Arriving(p, x) PROVE FALSE
    <3>1. x \in Inodes
      BY <1>0, <1>2, KeptNumbers
    <3>2. Creating(p, x)
      BY <1>0, <1>2, <2>2, <3>1, ArrivingCreates
    <3>3. /\ m >= 2 /\ todo[m - 1] = SyncCall(p) /\ todo[m] = SyncCall(x)
          /\ m >= 3 => Is(todo[m - 2], "write", p)
          /\ \A k \in 1 .. (m - 3) : Is(todo[k], "write", x) \/ Is(todo[k], "write", p)
      BY <2>2, <3>2, CreatingLeft DEF Arriving
    <3>4. m # 2
      BY <1>f, <3>3, CallOps
    <3>5. m # 3
      BY <1>f, <3>3 DEF Is
    <3>6. 1 \in 1 .. (m - 3)
      BY <3>3, <3>4, <3>5
    <3>. QED
      BY <1>f, <3>3, <3>6 DEF Is
  <2>. QED
    BY <1>2, <2>1, <2>2 DEF NumbersKept
<1>. QED
  BY <1>1, <1>2 DEF NumbersKept

\* What a path led to before an inode is written, one leads to afterwards.
LEMMA SyncGrows ==
  ASSUME Busy, TypeOK', SyncInode
  PROVE  Reachable \subseteq Reachable'
<1>0. TypeOK /\ Stands /\ DirsKept /\ Dirs \subseteq Inodes /\ Dirs \subseteq Live
  BY BusyFacts DEF Live
<1>. PICK p \in Inodes :
       /\ Cur.in = p /\ pc = "ready" /\ mem' = mem /\ dino' = [dino EXCEPT ![p] = mem[p]]
       /\ pc' = "ready" /\ blk' = blk
  BY SyncFacts
<1>1. dino'[p] = mem[p] /\ \A d \in Inodes : d # p => dino'[d] = dino[d]
  BY <1>0 DEF TypeOK
<1>2. \A j : /\ \A s : HeldAt(j, s)' = HeldAt(j, s)
             /\ \A k : MemCell(j, k)' = MemCell(j, k)
  <2>1. pc \notin Loaded \cup {"csum"} /\ pc' \notin Loaded \cup {"csum"}
    BY DEF Loaded
  <2>. QED
    BY <2>1, QuietHeld
<1>3. ASSUME NEW d \in Dirs
      PROVE  dino'[d].type = "dir" /\ dino[d].size <= dino'[d].size /\ OnDisk(d)'
  <2>1. mem[d].type = "dir" /\ dino[d].size <= mem[d].size /\ OnDisk(d) /\ d \in Inodes
        /\ dino[d].type = "dir" /\ d \in Live /\ dino[d].size \in Nat
    BY <1>0, SizeNat DEF DirsKept, Dirs
  <2>2. CASE d = p
    BY <1>1, <2>1, <2>2, SyncOnDisk
  <2>3. CASE d # p
    BY <1>1, <1>2, <2>1, <2>3, SameOnDisk
  <2>. QED
    BY <2>2, <2>3
<1>4. ASSUME NEW d \in Dirs, NEW y \in Children(dino[d]) \cap Inodes
      PROVE  y \in Children(dino[d])'
  <2>. PICK k \in Known(d) : k \in Nat /\ k < dino[d].size /\ k >= 2 /\ MemCell(d, k) = y + 1
    BY <1>0, ChildKnown
  <2>1. MemCell(d, k)' = y + 1
    BY <1>2
  <2>2. k < dino'[d].size
    BY <1>0, <1>3, SizeNat DEF TypeOK
  <2>. QED
    BY <1>0, <1>3, <2>1, <2>2, ChildNext
<1>. PICK X \in SUBSET Inodes : X = {}
  OBVIOUS
<1>5. \A d \in Dirs : /\ dino'[d].type = "dir"
                      /\ \A y \in Children(dino[d]) \cap Inodes :
                           d \notin X /\ (y \in X \/ y \in Children(dino[d])')
  BY <1>3, <1>4
<1>6. Reachable \subseteq Reachable' \cup X
  BY <1>5, ReachGrows
<1>. QED
  BY <1>6

\* When the directory is written, a path leads to the inode it names.
LEMMA NumbersSync ==
  ASSUME Busy, TypeOK', NumbersKept, SyncInode
  PROVE  NumbersKept'
<1>0. TypeOK /\ Stands /\ DirsKept /\ Dirs \subseteq Inodes /\ Dirs \subseteq Live
  BY BusyFacts DEF Live
<1>. PICK q \in Inodes :
       /\ Cur.in = q /\ Cur = SyncCall(q) /\ pc = "ready" /\ todo # <<>>
       /\ mem' = mem /\ dino' = [dino EXCEPT ![q] = mem[q]]
       /\ imap' = imap /\ todo' = Tail(todo) /\ pc' = "ready" /\ blk' = blk
       /\ Len(todo) \in {1, 2}
  BY SyncFacts
<1>. PICK m \in Nat : m = Len(todo)
  BY <1>0 DEF TypeOK
<1>t. /\ m >= 1 /\ Len(todo') = m - 1 /\ DOMAIN todo = 1 .. m /\ DOMAIN todo' = 1 .. (m - 1)
      /\ \A k \in 1 .. (m - 1) : todo'[k] = todo[k + 1]
  BY <1>0, TailLeft
<1>f. Cur = todo[1]
  BY <1>0, CurFirst
<1>1. Reachable \subseteq Reachable'
  BY SyncGrows
<1>2. ASSUME NEW x \in imap, x \notin Reachable' PROVE Releasing(x)'
  <2>1. CASE Releasing(x)
    <3>. PICK k \in 1 .. m : todo[k] = ReleaseCall(x)
      BY <1>t, <2>1 DEF Releasing
    <3>0. todo[k].op = "release" /\ Cur.op = "sync"
      BY CallOps
    <3>1. k # 1
      BY <1>f, <3>0
    <3>2. k - 1 \in 1 .. (m - 1) /\ (k - 1) + 1 = k
      BY <3>1
    <3>3. k - 1 \in DOMAIN todo' /\ todo'[k - 1] = ReleaseCall(x)
      BY <1>t, <3>2, Zenon
    <3>. QED
      BY <3>3 DEF Releasing
  <2>2. ASSUME NEW p \in Dirs, Arriving(p, x) PROVE FALSE
    <3>0. x \in Inodes /\ p \in Inodes
      BY <1>0, KeptNumbers
    <3>1. m = 2 /\ todo[1] = SyncCall(p)
      <4>1. m >= 2 /\ todo[m - 1] = SyncCall(p)
        BY <2>2 DEF Arriving
      <4>2. m = 2 /\ m - 1 = 1
        BY <4>1
      <4>. QED
        BY <4>1, <4>2
    <3>2. p = q
      BY <1>f, <3>1, CallOps
    <3>. PICK k \in Known(p) : MemCell(p, k) = x + 1
      BY <2>2, <3>1 DEF Arriving
    <3>3. k \in Nat /\ k >= 2 /\ k < mem[p].size
      BY <1>0, <3>0, SizeNat, KnownBasics
    <3>4. dino'[p] = mem[p] /\ OnDisk(p)'
      BY <1>0, <3>0, <3>2, SyncOnDisk DEF TypeOK
    <3>5. MemCell(p, k)' = x + 1
      <4>1. pc \notin Loaded \cup {"csum"} /\ pc' \notin Loaded \cup {"csum"}
        BY DEF Loaded
      <4>. QED
        BY <4>1, QuietHeld
    <3>6. x \in Children(dino[p])'
      BY <3>0, <3>3, <3>4, <3>5, ChildNext
    <3>7. p \in Reachable' /\ dino'[p].type = "dir"
      BY <1>0, <1>1, <3>4 DEF Dirs, DirsKept
    <3>. QED
      BY <1>2, <3>0, <3>6, <3>7, ReachKidNext
  <2>. QED
    BY <1>1, <1>2, <2>1, <2>2 DEF NumbersKept
<1>. QED
  BY <1>2 DEF NumbersKept

\* Between two commands every marked number is in use.
LEMMA NumbersUsed ==
  ASSUME NumbersKept, todo = <<>>
  PROVE  imap \subseteq Reachable
<1>1. (\A x : ~Releasing(x)) /\ (\A p, x : ~Arriving(p, x))
  BY DEF Releasing, Arriving
<1>. QED
  BY <1>1 DEF NumbersKept

\* Nor does a step that leaves the disk alone when no call is left.
LEMMA NumbersQuiet ==
  ASSUME NumbersKept, todo = <<>>, imap' = imap, dino' = dino, blk' = blk
  PROVE  NumbersKept'
<1>1. Reachable' = Reachable
  BY ReachSame
<1>. QED
  BY <1>1, NumbersUsed DEF NumbersKept

\* A new inode is marked, and the directory that will name it is still to be written.
LEMMA NumbersCreate ==
  ASSUME TypeOK, Ownership, Consistent, NumbersKept, CreateInode
  PROVE  NumbersKept'
<1>. PICK p, i \in Inodes :
       /\ todo = <<>> /\ p \in Dirs /\ imap' = imap \cup {i} /\ dino' = dino /\ blk' = blk
       /\ pc' = "ready" /\ \E k \in Nat : todo' = NewCalls(p, i, mem'[i].type, k)
  BY CreateFacts
<1>1. Reachable' = Reachable /\ Dirs' = Dirs
  BY ReachSame
<1>2. Creation(todo', p, i)
  <2>. PICK type : type = mem'[i].type
    OBVIOUS
  <2>. PICK k \in Nat : todo' = NewCalls(p, i, type, k)
    OBVIOUS
  <2>. PICK calls : calls = NewCalls(p, i, type, k)
    OBVIOUS
  <2>1. Creation(calls, p, i)
    BY CreatePlan
  <2>. QED
    BY <2>1
<1>3. Arriving(p, i)'
  <2>. PICK m \in Nat : /\ m = Len(todo') /\ m >= 3
                        /\ todo'[m] = SyncCall(i) /\ todo'[m - 1] = SyncCall(p)
    BY <1>2 DEF Creation
  <2>1. m >= 2 /\ m # 2 /\ pc' # "csum"
    OBVIOUS
  <2>. QED
    BY <2>1 DEF Arriving
<1>. QED
  BY <1>1, <1>3, NumbersUsed DEF NumbersKept

-----------------------------------------------------------------------------
(* Blocks.                                                                 *)

\* An inode that holds a block is in use.
LEMMA HolderIsLive ==
  ASSUME TypeOK', UnmarkedBlank', NumbersKept', NEW i \in Inodes, NEW s \in Places,
         HeldAt(i, s)' # 0
  PROVE  i \in Live'
<1>1. i \in imap'
  <2>. SUFFICES ASSUME i \notin imap' PROVE FALSE
    OBVIOUS
  <2>1. mem'[i] = Blank
    BY DEF UnmarkedBlank
  <2>2. Blank.ind = 0 /\ \A l \in 0 .. (NrDirect - 1) : Blank.direct[l] = 0
    BY DEF Blank
  <2>. QED
    BY <2>1, <2>2, HeldNext, PlaceCases
<1>2. CASE Releasing(i)'
  <2>1. i \in Targets(todo)'
    BY <1>2, CallOps DEF Releasing, Targets
  <2>. QED
    BY <2>1 DEF Live, Acting
<1>3. ASSUME NEW p, Arriving(p, i)' PROVE i \in Live'
  <2>. PICK m \in Nat : m = Len(todo') /\ DOMAIN todo' = 1 .. m
    BY DEF TypeOK
  <2>1. m \in DOMAIN todo' /\ todo'[m] = SyncCall(i)
    BY <1>3 DEF Arriving
  <2>2. i \in Targets(todo)'
    BY <2>1, CallOps DEF Targets
  <2>. QED
    BY <2>2 DEF Live, Acting
<1>. QED
  BY <1>1, <1>2, <1>3 DEF NumbersKept, Live

\* A marked block that some inode holds is held by one in use.
LEMMA BlocksHeld ==
  ASSUME TypeOK', UnmarkedBlank', NumbersKept',
         \A b \in bmap' : \E i \in Inodes, s \in Places : HeldAt(i, s)' = b
  PROVE  BlocksKept'
<1>. SUFFICES ASSUME NEW b \in bmap' PROVE \E i \in Live', s \in Places : HeldAt(i, s)' = b
  BY DEF BlocksKept
<1>1. b # 0
  BY Sizes DEF TypeOK
<1>. PICK i \in Inodes, s \in Places : HeldAt(i, s)' = b
  OBVIOUS
<1>. QED
  BY <1>1, HolderIsLive

\* When a truncation has freed the children, the indirect block has none left.
LEMMA NoChildLeft ==
  ASSUME TypeOK, Stands, Zeroed, NEW P \in SUBSET Inodes, Tight(P), NEW j \in P, j = Cur.in,
         ZeroIndirect \/ UnmarkIndirect, NEW s \in Places, s >= NrDirect
  PROVE  HeldAt(j, s) = 0
<1>1. CASE UnmarkIndirect
  <2>1. pc = "unmarkindirect" /\ blk[Inode.ind] = Zero /\ pc \notin Loaded
    BY <1>1 DEF UnmarkIndirect, Running, Zeroed, Loaded
  <2>2. Table(j) = Zero /\ s - NrDirect \in Cells
    BY <2>1, PlacesInt DEF Table, Inode
  <2>3. Zero[s - NrDirect] = 0
    BY <2>2 DEF Zero
  <2>. QED
    BY <2>2, <2>3, HeldCases
<1>2. CASE ZeroIndirect
  <2>0. pc = "zerochild" /\ ~MoreChildren /\ First <= NrDirect /\ todo # <<>>
    BY <1>2 DEF ZeroIndirect, Running
  <2>1. s \in 0 .. (NrLogical - 1) /\ s \in Nat /\ s < NrLogical
    BY FileStoreAssumption, PlacesInt DEF Places
  <2>. SUFFICES ASSUME HeldAt(j, s) # 0 PROVE FALSE
    OBVIOUS
  <2>2. s < Blocks(Extent(j)) /\ ~Cleared(j, s)
    BY <2>0, <2>1 DEF Tight, Mapping
  <2>3. Extent(j) = mem[j].size /\ mem[j].size \in Nat /\ Cur.off \in Nat
    BY <2>0, SizeNat, Current DEF Extent, WriteSteps
  <2>4. s < End /\ End \in Nat /\ First \in Nat /\ at \in Nat
    BY <2>2, <2>3, BlocksNat DEF End, Inode, First, TypeOK
  <2>5. First <= s
    BY <2>0, <2>1, <2>4, FileStoreAssumption
  <2>6. s < NrDirect + at
    BY <2>0, <2>1, <2>4, FileStoreAssumption DEF MoreChildren, NrLogical, NrIndirect
  <2>. QED
    BY <2>0, <2>2, <2>5, <2>6 DEF Cleared, TruncSteps
<1>. QED
  BY <1>1, <1>2

\* A step on data marks the block it gives to the inode and unmarks the one it takes away.
LEMMA BlocksData ==
  ASSUME Busy, TypeOK', UnmarkedBlank', NumbersKept', BlocksKept, Tight(Live),
         WriteStep \/ TruncStep
  PROVE  BlocksKept'
<1>. PICK P : P = Live
  OBVIOUS
<1>. PICK j \in P : j = Cur.in
  BY BusyFacts, DataCall
<1>0. /\ TypeOK /\ Stands /\ P \in SUBSET Inodes /\ Owned(P) /\ Tight(P) /\ todo # <<>>
      /\ j \in Inodes /\ bmap \subseteq Phys /\ 0 \notin Phys /\ Zeroed
  BY BusyFacts, DataCall, Sizes DEF TypeOK, Busy, Ownership
<1>1. \A b \in bmap : \E i \in P, s \in Places : HeldAt(i, s) = b
  BY DEF BlocksKept
<1>2. CASE bmap' = bmap /\ \A i \in P, s \in Places : HeldAt(i, s)' = HeldAt(i, s)
  BY <1>0, <1>1, <1>2, BlocksHeld
<1>3. CASE MapDirect \/ MapIndirect \/ MapChild
  <2>. PICK t \in Places, b \in Phys :
         /\ b \notin bmap /\ bmap' = bmap \cup {b} /\ HeldAt(j, t) = 0 /\ HeldAt(j, t)' = b
         /\ \A i \in P, s \in Places : i # j \/ s # t => HeldAt(i, s)' = HeldAt(i, s)
    BY <1>0, <1>3, WriteMaps
  <2>1. ASSUME NEW c \in bmap' PROVE \E i \in Inodes, s \in Places : HeldAt(i, s)' = c
    <3>1. CASE c = b
      BY <1>0, <3>1
    <3>2. CASE c \in bmap
      <4>. PICK i \in P, s \in Places : HeldAt(i, s) = c
        BY <1>1, <3>2
      <4>1. i # j \/ s # t
        BY <1>0, <3>2
      <4>. QED
        BY <1>0, <4>1
    <3>. QED
      BY <3>1, <3>2
  <2>. QED
    BY <2>1, BlocksHeld
<1>4. ASSUME NEW t \in Places, HeldAt(j, t) # 0, bmap' = bmap \ {HeldAt(j, t)},
             \A i \in P, s \in Places : i # j \/ s # t => HeldAt(i, s)' = HeldAt(i, s)
      PROVE  BlocksKept'
  <2>1. ASSUME NEW c \in bmap' PROVE \E i \in Inodes, s \in Places : HeldAt(i, s)' = c
    <3>1. c \in bmap /\ c # HeldAt(j, t)
      BY <1>4
    <3>. PICK i \in P, s \in Places : HeldAt(i, s) = c
      BY <1>1, <3>1
    <3>2. i # j \/ s # t
      BY <3>1
    <3>. QED
      BY <1>0, <1>4, <3>2
  <2>. QED
    BY <2>1, BlocksHeld
<1>5. CASE UnmarkDirect
  <2>. PICK t \in Places :
         /\ HeldAt(j, t) # 0 /\ bmap' = bmap \ {HeldAt(j, t)}
         /\ \A i \in P, s \in Places : i # j \/ s # t => HeldAt(i, s)' = HeldAt(i, s)
    BY <1>0, <1>5, FreesDirect
  <2>. QED
    BY <1>4
<1>6. CASE UnmarkChild
  <2>. PICK t \in Places :
         /\ HeldAt(j, t) # 0 /\ bmap' = bmap \ {HeldAt(j, t)}
         /\ \A i \in P, s \in Places : i # j \/ s # t => HeldAt(i, s)' = HeldAt(i, s)
    BY <1>0, <1>6, FreesChild
  <2>. QED
    BY <1>4
<1>7. CASE ZeroIndirect
  <2>1. /\ bmap' = bmap
        /\ \A i \in P, s \in Places :
             /\ i # j \/ s < NrDirect => HeldAt(i, s)' = HeldAt(i, s)
             /\ i = j /\ s >= NrDirect => HeldAt(i, s)' = 0
    BY <1>0, <1>7, FreesTable
  <2>2. \A s \in Places : s >= NrDirect => HeldAt(j, s) = 0
    BY <1>0, <1>7, NoChildLeft
  <2>3. \A s \in Places : s < NrDirect \/ s >= NrDirect
    BY FileStoreAssumption, PlacesInt
  <2>4. \A i \in P, s \in Places : HeldAt(i, s)' = HeldAt(i, s)
    BY <2>1, <2>2, <2>3
  <2>. QED
    BY <1>2, <2>1, <2>4
<1>8. CASE UnmarkIndirect
  <2>1. /\ HeldAt(j, -1) # 0 /\ bmap' = bmap \ {HeldAt(j, -1)} /\ -1 \in Places
        /\ \A i \in P, s \in Places :
             /\ i # j \/ (s # -1 /\ s < NrDirect) => HeldAt(i, s)' = HeldAt(i, s)
             /\ i = j /\ (s = -1 \/ s >= NrDirect) => HeldAt(i, s)' = 0
    BY <1>0, <1>8, FreesIndirect, PlacesInt
  <2>2. \A s \in Places : s >= NrDirect => HeldAt(j, s) = 0
    BY <1>0, <1>8, NoChildLeft
  <2>3. \A s \in Places : s < NrDirect \/ s >= NrDirect
    BY FileStoreAssumption, PlacesInt
  <2>4. \A i \in P, s \in Places : i # j \/ s # -1 => HeldAt(i, s)' = HeldAt(i, s)
    BY <2>1, <2>2, <2>3
  <2>. PICK t \in Places : t = -1
    BY <2>1
  <2>. QED
    BY <1>4, <2>1, <2>4
<1>9. CASE \/ BeginWrite \/ MapExisting \/ ReadIndirect \/ NoChild \/ WriteIndirect
           \/ MapFails \/ WriteIndirectFails \/ StoreData \/ StoreCsum \/ StoreLastCsum
  <2>1. \A i \in P, s \in Places : HeldAt(i, s)' = HeldAt(i, s)
    BY <1>0, <1>9, WriteKeepsHeld
  <2>2. bmap' = bmap
    BY <1>9 DEF BeginWrite, MapExisting, ReadIndirect, NoChild, WriteIndirect, MapFails,
       WriteIndirectFails, StoreData, StoreCsum, StoreLastCsum, disk
  <2>. QED
    BY <1>2, <2>1, <2>2
<1>10. CASE \/ TruncNothing \/ BeginTrunc \/ ZeroDirect \/ TruncDirectOnly \/ LoadIndirect
            \/ ZeroChild \/ KeepIndirect
  <2>1. \A i \in P, s \in Places : HeldAt(i, s)' = HeldAt(i, s)
    BY <1>0, <1>10, TruncKeepsHeld
  <2>2. bmap' = bmap
    BY <1>10 DEF TruncNothing, BeginTrunc, ZeroDirect, TruncDirectOnly, LoadIndirect,
       ZeroChild, KeepIndirect, disk
  <2>. QED
    BY <1>2, <2>1, <2>2
<1>. QED
  BY <1>3, <1>5, <1>6, <1>7, <1>8, <1>9, <1>10 DEF WriteStep, TruncStep

\* A write stores into the blocks it maps before it advances.
LEMMA TightWrite ==
  ASSUME TypeOK, Stands, NEW P \in SUBSET Inodes, Owned(P), Tight(P), NEW j \in P, j = Cur.in,
         WriteStep
  PROVE  Tight(P)'
<1>0. /\ todo # <<>> /\ P \subseteq Inodes /\ j \in Inodes /\ pc \notin TruncSteps
      /\ pc' \notin TruncSteps /\ Cur.off \in Nat /\ at \in Nat /\ Cur.n \in Nat
  <2>1. pc \notin TruncSteps /\ pc' \notin TruncSteps
    BY DEF WriteStep, BeginWrite, MapExisting, MapDirect, MapIndirect, ReadIndirect, MapChild,
       NoChild, WriteIndirect, MapFails, WriteIndirectFails, StoreData, StoreCsum,
       StoreLastCsum, Fail, Return, Running, TruncSteps
  <2>. QED
    BY <2>1, DataStepKeeps, Current DEF TypeOK
<1>. SUFFICES ASSUME NEW i \in P, NEW l \in 0 .. (NrLogical - 1), HeldAt(i, l)' # 0
              PROVE  (l < Blocks(Extent(i)') /\ ~Cleared(i, l)') \/ Mapping(i, l)'
  BY DEF Tight, Blocks
<1>1. l \in Nat /\ l < NrLogical /\ l \in Places /\ l # -1
  <2>1. l \in Nat /\ l < NrLogical
    BY PlacesInt
  <2>. QED
    BY <2>1, LogicalPlace
<1>2. ~Cleared(i, l)'
  BY <1>0 DEF Cleared
<1>. PICK e \in Nat : e = Extent(i)
  BY <1>0, ExtentNat
<1>3. /\ Extent(i)' \in Nat /\ e <= Extent(i)'
      /\ i = j /\ pc = "csum" => Cur.off + at + Copied <= Extent(i)'
  <2>1. mem[i].size \in Nat /\ at + Copied \in Nat
    BY <1>0, SizeNat, AdvanceNat
  <2>2. CASE i = Cur.in /\ pc = "csum" /\ Extent(i)' = MaxOf(mem[i].size, Cur.off + at + Copied)
    <3>1. e = MaxOf(mem[i].size, Cur.off + at)
      BY <2>2 DEF Extent, WriteSteps
    <3>2. at < Cur.n /\ Copied \in Nat
      BY <1>0, <2>2, CopiedFits DEF Stands, StandsInWrite, WriteSteps
    <3>. QED
      BY <1>0, <2>1, <2>2, <3>1, <3>2, SMTT(30) DEF MaxOf
  <2>3. CASE Extent(i)' = Extent(i) /\ ~(i = j /\ pc = "csum")
    BY <2>3
  <2>4. CASE i = j /\ pc = "csum"
    <3>1. StoreCsum \/ StoreLastCsum
      BY <2>4 DEF WriteStep, BeginWrite, MapExisting, MapDirect, MapIndirect, ReadIndirect,
         MapChild, NoChild, WriteIndirect, MapFails, WriteIndirectFails, StoreData, Running
    <3>2. at < Cur.n /\ Copied \in Nat
      BY <1>0, <2>4, CopiedFits DEF Stands, StandsInWrite, WriteSteps
    <3>3. e = MaxOf(mem[i].size, Cur.off + at)
      BY <2>4 DEF Extent, WriteSteps
    <3>4. CASE StoreCsum
      <4>1. mem' = mem /\ at' = at + Copied /\ pc' = "map" /\ Cur' = Cur
        BY <3>4, SameCall DEF StoreCsum, SetNoInode, Advance, plan
      <4>2. Extent(i)' = MaxOf(mem[i].size, Cur.off + (at + Copied))
        BY <2>4, <4>1 DEF Extent, WriteSteps
      <4>. QED
        BY <1>0, <2>1, <3>2, <3>3, <4>2, SMTT(30) DEF MaxOf
    <3>5. CASE StoreLastCsum
      <4>1. pc' = "ready" /\ at + Copied = Cur.n
        BY <3>5 DEF StoreLastCsum, Return
      <4>2. mem'[j].size = MaxOf(mem[j].size, Cur.off + Cur.n)
        BY <1>0, <3>5 DEF StoreLastCsum, SetInode, Inode, TypeOK, Dinode
      <4>3. Extent(i)' = MaxOf(mem[i].size, Cur.off + Cur.n)
        BY <2>4, <4>1, <4>2 DEF Extent, WriteSteps
      <4>. QED
        BY <1>0, <2>1, <3>2, <3>3, <4>1, <4>3, SMTT(30) DEF MaxOf
    <3>. QED
      BY <3>1, <3>4, <3>5
  <2>. QED
    BY <1>0, <2>2, <2>3, <2>4, ExtentWrite
<1>. PICK f \in Nat : f = Extent(i)'
  BY <1>3
<1>4. l < Blocks(e) => l < Blocks(f)
  BY <1>1, <1>3, BlocksGrow, BlocksNat
<1>5. HeldAt(i, l) # 0 => l < Blocks(e) \/ Mapping(i, l)
  BY DEF Tight
<1>. SUFFICES l < Blocks(f) \/ Mapping(i, l)'
  BY <1>2
<1>6. CASE MapDirect \/ MapIndirect \/ MapChild
  <2>. PICK t \in Places, b \in Phys :
         /\ t = -1 \/ (t = Log /\ (MapDirect \/ MapChild))
         /\ \A k \in P, s \in Places : k # j \/ s # t => HeldAt(k, s)' = HeldAt(k, s)
    BY <1>0, <1>6, WriteMaps
  <2>1. CASE i # j \/ l # t
    <3>1. HeldAt(i, l) # 0 /\ ~Mapping(i, l)
      BY <1>1, <1>6, <2>1 DEF Mapping, MapDirect, MapIndirect, MapChild, Running
    <3>. QED
      BY <1>4, <1>5, <3>1
  <2>2. CASE i = j /\ l = t
    <3>1. l = Log /\ pc' \in {"indirect", "store"} /\ todo' = todo /\ at' = at
      BY <1>1, <2>2 DEF MapDirect, MapChild, plan
    <3>2. Cur' = Cur /\ Log' = l
      BY <3>1 DEF Log, Cur
    <3>. QED
      BY <2>2, <3>1, <3>2 DEF Mapping
  <2>. QED
    BY <2>1, <2>2
<1>7. CASE ~(MapDirect \/ MapIndirect \/ MapChild)
  <2>1. HeldAt(i, l) # 0
    <3>1. HeldAt(i, l)' = HeldAt(i, l)
      BY <1>0, <1>1, <1>7, WriteKeepsHeld DEF WriteStep
    <3>. QED
      BY <3>1
  <2>. SUFFICES ASSUME Mapping(i, l) PROVE l < Blocks(f) \/ Mapping(i, l)'
    BY <1>4, <1>5, <2>1
  <2>2. pc \in {"indirect", "store", "csum"} /\ i = j /\ l = Log
    BY DEF Mapping
  <2>3. CASE WriteIndirect \/ StoreData
    <3>1. pc' \in {"store", "csum"} /\ todo' = todo /\ at' = at
      BY <2>3 DEF WriteIndirect, StoreData, plan
    <3>2. Cur' = Cur /\ Log' = l
      BY <2>2, <3>1 DEF Log, Cur
    <3>. QED
      BY <2>2, <3>1, <3>2 DEF Mapping
  <2>4. CASE WriteIndirectFails
    <3>1. /\ pc = "indirect" /\ NrDirect <= Log
          /\ ibuf[Log - NrDirect] = 0
          /\ \A s \in Places : s >= NrDirect => HeldAt(j, s) = ibuf[s - NrDirect]
      BY <1>0, <2>4, StoresTable DEF WriteIndirectFails, Running, Stands, StandsInWrite
    <3>2. l >= NrDirect
      BY <1>1, <2>2, <3>1, FileStoreAssumption
    <3>. QED
      BY <1>1, <2>1, <2>2, <3>1, <3>2
  <2>5. CASE StoreCsum \/ StoreLastCsum
    <3>1. pc = "csum" /\ at < Cur.n
      BY <2>5 DEF StoreCsum, StoreLastCsum, Running, Stands, StandsInWrite, WriteSteps
    <3>2. Cur.off + at + Copied <= f
      BY <1>3, <2>2, <3>1
    <3>3. Copied \in Nat \ {0}
      BY <1>0, <3>1, CopiedFits
    <3>4. Cur.off + at < f /\ Cur.off + at \in Nat
      BY <1>0, <3>2, <3>3
    <3>5. (Cur.off + at) \div BlockSize < Blocks(f)
      BY <3>4, CellBlock
    <3>. QED
      BY <2>2, <3>5 DEF Log
  <2>6. CASE BeginWrite \/ MapExisting \/ ReadIndirect \/ NoChild \/ MapFails
    BY <2>2, <2>6 DEF BeginWrite, MapExisting, ReadIndirect, NoChild, MapFails, Running
  <2>. QED
    BY <1>7, <2>3, <2>4, <2>5, <2>6 DEF WriteStep
<1>. QED
  BY <1>6, <1>7

\* A truncation frees everything from the block where it starts to the last one.
LEMMA TightTrunc ==
  ASSUME TypeOK, Stands, NEW P \in SUBSET Inodes, Owned(P), Tight(P), NEW j \in P, j = Cur.in,
         TruncStep
  PROVE  Tight(P)'
<1>0. /\ todo # <<>> /\ P \subseteq Inodes /\ j \in Inodes /\ mem[j].size \in Nat
      /\ pc \notin WriteSteps /\ pc' \notin WriteSteps /\ NrDirect \in Nat
  BY DataStepKeeps, TruncMoves, SizeNat, Sizes
<1>1. \A i \in P : Extent(i) = mem[i].size /\ Extent(i)' = mem'[i].size
  BY <1>0 DEF Extent
<1>2. /\ \/ pc' \in TruncSteps /\ todo' = todo /\ mem'[j].size = mem[j].size
         \/ pc' = "ready" /\ mem'[j].size = Cur.off /\ pc \in TruncSteps
         \/ pc' = "ready" /\ TruncNothing
  BY TruncMoves
<1>. SUFFICES ASSUME NEW i \in P, NEW l \in 0 .. (NrLogical - 1), HeldAt(i, l)' # 0
              PROVE  l < Blocks(mem'[i].size) /\ ~Cleared(i, l)'
  BY <1>1 DEF Tight, Blocks
<1>3. l \in Nat /\ l < NrLogical /\ l \in Places /\ l # -1
  <2>1. l \in Nat /\ l < NrLogical
    BY PlacesInt
  <2>. QED
    BY <2>1, LogicalPlace
<1>4. HeldAt(i, l) # 0 => l < Blocks(mem[i].size) /\ ~Cleared(i, l)
  BY <1>0, <1>1 DEF Tight, Mapping, WriteSteps
<1>5. CASE i # j
  <2>1. mem'[i] = mem[i] /\ HeldAt(i, l)' = HeldAt(i, l)
    BY <1>0, <1>3, <1>5, OthersSame
  <2>2. ~Cleared(i, l)'
    <3>1. pc' \in TruncSteps => Cur' = Cur
      BY <1>2, SameCall DEF TruncSteps
    <3>. QED
      BY <1>5, <3>1 DEF Cleared
  <2>. QED
    BY <1>4, <2>1, <2>2
<1>. SUFFICES ASSUME i = j PROVE l < Blocks(mem'[j].size) /\ ~Cleared(j, l)'
  BY <1>5
<1>. PICK off \in Nat : off = Cur.off
  BY <1>0, Current
<1>. PICK k \in Nat : k = at
  BY DEF TypeOK
<1>. PICK first \in Nat : first = First /\ first = Blocks(off)
  BY <1>0, BlocksNat DEF First
<1>. PICK end \in Nat : end = Blocks(mem[j].size)
  BY <1>0, BlocksNat
<1>6. end = End
  BY DEF End, Inode
<1>7. HeldAt(j, l) # 0 =>
        /\ l < end
        /\ ~(/\ pc \in TruncSteps /\ first <= l
             /\ pc \in {"zero", "unmark"} => l < k
             /\ pc \in {"zerochild", "unmarkchild"} => l < NrDirect + k)
  BY <1>4 DEF Cleared
<1>8. ASSUME pc' = "ready" PROVE ~Cleared(j, l)'
  BY <1>8 DEF Cleared, TruncSteps
<1>9. ASSUME todo' = todo
      PROVE  Cleared(j, l)' => /\ pc' \in TruncSteps /\ first <= l
                               /\ pc' \in {"zero", "unmark"} => l < at'
                               /\ pc' \in {"zerochild", "unmarkchild"} => l < NrDirect + at'
  <2>1. Cur' = Cur /\ First' = first
    BY <1>9 DEF Cur, First, Blocks
  <2>. QED
    BY <2>1 DEF Cleared
<1>10. CASE TruncNothing
  <2>1. HeldAt(j, l)' = HeldAt(j, l)
    BY <1>0, <1>3, <1>10, TruncKeepsHeld
  <2>2. mem' = mem /\ pc' = "ready"
    BY <1>10 DEF TruncNothing, Return
  <2>. QED
    BY <1>7, <1>8, <2>1, <2>2
<1>11. CASE BeginTrunc
  <2>1. HeldAt(j, l)' = HeldAt(j, l)
    BY <1>0, <1>3, <1>11, TruncKeepsHeld
  <2>2. mem' = mem /\ pc' = "zero" /\ at' = first /\ todo' = todo
    BY <1>11 DEF BeginTrunc, plan
  <2>. QED
    BY <1>3, <1>7, <1>9, <2>1, <2>2
<1>12. CASE ZeroDirect
  <2>1. HeldAt(j, l)' = HeldAt(j, l)
    BY <1>0, <1>3, <1>12, TruncKeepsHeld
  <2>2. mem' = mem /\ pc = "zero" /\ pc' = "unmark" /\ at' = k /\ todo' = todo
    BY <1>12 DEF ZeroDirect, plan, regs, Running, SetNoInode
  <2>. QED
    BY <1>7, <1>9, <2>1, <2>2 DEF TruncSteps
<1>13. CASE UnmarkDirect
  <2>1. \A s \in Places : s # k => HeldAt(j, s)' = HeldAt(j, s)
    BY <1>0, <1>13, FreesDirect
  <2>2. \A t \in Places : t = k => HeldAt(j, t)' = 0
    BY <1>0, <1>13, FreesDirect
  <2>3. l # k /\ HeldAt(j, l) # 0
    BY <1>3, <2>1, <2>2
  <2>4. pc = "unmark" /\ pc' = "zero" /\ at' = k + 1 /\ todo' = todo
    BY <1>13 DEF UnmarkDirect, Running, plan
  <2>5. mem'[j].size = mem[j].size
    BY <1>2, <2>4
  <2>6. l < k + 1 => l < k
    BY <1>3, <2>3
  <2>. QED
    BY <1>7, <1>9, <2>3, <2>4, <2>5, <2>6 DEF TruncSteps
<1>14. CASE LoadIndirect
  <2>1. HeldAt(j, l)' = HeldAt(j, l)
    BY <1>0, <1>3, <1>14, TruncKeepsHeld
  <2>2. /\ mem' = mem /\ pc = "zero" /\ pc' = "zerochild" /\ todo' = todo
        /\ ~(k < end /\ k < NrDirect) /\ at' = MaxOf(first - NrDirect, 0)
    BY <1>6, <1>14 DEF LoadIndirect, Running, plan, MoreDirect, FirstChild
  <2>3. l < end /\ ~(first <= l /\ l < k)
    BY <1>7, <2>1, <2>2 DEF TruncSteps
  <2>4. ~(first <= l /\ l < NrDirect + at')
    BY <1>0, <1>3, <2>2, <2>3 DEF MaxOf
  <2>. QED
    BY <1>9, <2>2, <2>3, <2>4
<1>15. CASE ZeroChild
  <2>1. HeldAt(j, l)' = HeldAt(j, l)
    BY <1>0, <1>3, <1>15, TruncKeepsHeld
  <2>2. mem' = mem /\ pc = "zerochild" /\ pc' = "unmarkchild" /\ at' = k /\ todo' = todo
    BY <1>15 DEF ZeroChild, plan, regs, Running, SetNoInode
  <2>. QED
    BY <1>7, <1>9, <2>1, <2>2 DEF TruncSteps
<1>16. CASE UnmarkChild
  <2>1. \A s \in Places : s # NrDirect + k => HeldAt(j, s)' = HeldAt(j, s)
    BY <1>0, <1>16, FreesChild
  <2>2. \A t \in Places : t = NrDirect + k => HeldAt(j, t)' = 0
    BY <1>0, <1>16, FreesChild
  <2>3. l # NrDirect + k /\ HeldAt(j, l) # 0
    BY <1>3, <2>1, <2>2
  <2>4. pc = "unmarkchild" /\ pc' = "zerochild" /\ at' = k + 1 /\ todo' = todo
    BY <1>16 DEF UnmarkChild, Running, plan
  <2>5. mem'[j].size = mem[j].size
    BY <1>2, <2>4
  <2>6. l < NrDirect + (k + 1) => l < NrDirect + k
    BY <1>0, <1>3, <2>3
  <2>. QED
    BY <1>7, <1>9, <2>3, <2>4, <2>5, <2>6 DEF TruncSteps
<1>17. CASE ZeroIndirect
  <2>1. /\ l < NrDirect => HeldAt(j, l)' = HeldAt(j, l)
        /\ l >= NrDirect => HeldAt(j, l)' = 0
    BY <1>0, <1>3, <1>17, FreesTable
  <2>2. mem' = mem /\ pc = "zerochild" /\ pc' = "unmarkindirect" /\ todo' = todo
    BY <1>17 DEF ZeroIndirect, plan, Running, SetNoInode
  <2>3. l < NrDirect /\ HeldAt(j, l) # 0
    BY <1>0, <1>3, <2>1
  <2>4. l < end /\ ~(first <= l)
    BY <1>0, <1>3, <1>7, <2>2, <2>3 DEF TruncSteps
  <2>. QED
    BY <1>9, <2>2, <2>4
<1>18. CASE UnmarkIndirect
  <2>1. /\ l < NrDirect => HeldAt(j, l)' = HeldAt(j, l)
        /\ l >= NrDirect => HeldAt(j, l)' = 0
    BY <1>0, <1>3, <1>18, FreesIndirect
  <2>2. pc = "unmarkindirect" /\ pc' = "ready"
    BY <1>18 DEF UnmarkIndirect, Running, Return
  <2>3. mem'[j].size = off
    BY <1>2, <1>18, <2>2 DEF TruncNothing, Running, TruncSteps
  <2>4. l < NrDirect /\ HeldAt(j, l) # 0
    BY <1>0, <1>3, <2>1
  <2>5. l < first
    BY <1>3, <1>7, <2>2, <2>4 DEF TruncSteps
  <2>. QED
    BY <1>8, <2>2, <2>3, <2>5
<1>19. CASE TruncDirectOnly
  <2>1. HeldAt(j, l)' = HeldAt(j, l)
    BY <1>0, <1>3, <1>19, TruncKeepsHeld
  <2>2. pc = "zero" /\ pc' = "ready" /\ ~(k < end /\ k < NrDirect) /\ end <= NrDirect
    BY <1>6, <1>19 DEF TruncDirectOnly, Running, Return, MoreDirect
  <2>3. mem'[j].size = off
    BY <1>2, <2>2 DEF TruncNothing, Running, TruncSteps
  <2>4. l < end /\ ~(first <= l /\ l < k)
    BY <1>7, <2>1, <2>2 DEF TruncSteps
  <2>5. l < first
    BY <1>0, <1>3, <2>2, <2>4
  <2>. QED
    BY <1>8, <2>2, <2>3, <2>5
<1>20. CASE KeepIndirect
  <2>1. HeldAt(j, l)' = HeldAt(j, l)
    BY <1>0, <1>3, <1>20, TruncKeepsHeld
  <2>2. /\ pc = "zerochild" /\ pc' = "ready"
        /\ ~(k < end - NrDirect /\ k < NrIndirect)
    BY <1>6, <1>20 DEF KeepIndirect, Running, Return, MoreChildren
  <2>3. mem'[j].size = off
    BY <1>2, <2>2 DEF TruncNothing, Running, TruncSteps
  <2>4. l < end /\ ~(first <= l /\ l < NrDirect + k)
    BY <1>7, <2>1, <2>2 DEF TruncSteps
  <2>5. l < first
    BY <1>0, <1>3, <2>2, <2>4, FileStoreAssumption DEF NrIndirect, NrLogical
  <2>. QED
    BY <1>8, <2>2, <2>3, <2>5
<1>. QED
  BY <1>10, <1>11, <1>12, <1>13, <1>14, <1>15, <1>16, <1>17, <1>18, <1>19, <1>20 DEF TruncStep

\* The indirect block is mapped for a cell beyond the direct blocks, and goes with the last
\* of its children.
LEMMA WantedData ==
  ASSUME TypeOK, Stands, NEW P \in SUBSET Inodes, Owned(P), Wanted(P), NEW j \in P, j = Cur.in,
         WriteStep \/ TruncStep
  PROVE  Wanted(P)'
<1>0. /\ todo # <<>> /\ j \in Inodes /\ P \subseteq Inodes /\ NrDirect * BlockSize \in Nat
      /\ NrDirect \in Nat /\ BlockSize \in Nat /\ Cur.off \in Nat /\ at \in Nat
      /\ mem[j] \in Dinode /\ Inode = mem[j]
  <2>1. \A a, b \in Nat : a * b \in Nat
    OBVIOUS
  <2>. QED
    BY <2>1, Sizes, DataCall, Current DEF TypeOK, Inode
<1>1. ASSUME NEW i \in P, i # j, mem'[i].ind # 0 PROVE NrDirect * BlockSize <= Extent(i)'
  <2>1. mem'[i] = mem[i] /\ NrDirect * BlockSize <= Extent(i)
    BY <1>0, <1>1, DataStepKeeps DEF Wanted
  <2>2. CASE WriteStep
    BY <1>1, <2>1, <2>2, ExtentWrite
  <2>3. CASE TruncStep
    <3>1. pc \notin WriteSteps /\ pc' \notin WriteSteps
      BY <2>3, TruncMoves
    <3>. QED
      BY <2>1, <3>1 DEF Extent
  <2>. QED
    BY <2>2, <2>3
<1>2. ASSUME mem'[j].ind # 0
      PROVE  NrDirect * BlockSize <= Extent(j)' \/ (pc' \in TruncSteps /\ j = Cur'.in)
  <2>1. CASE WriteStep /\ ~MapIndirect
    <3>1. mem'[j].ind = mem[j].ind
      <4>1. \/ mem' = mem
            \/ \E d : SetInode([Inode EXCEPT !.direct = d])
            \/ \E n : SetInode([Inode EXCEPT !.size = n])
        BY <2>1 DEF WriteStep, BeginWrite, MapExisting, MapDirect, ReadIndirect, MapChild,
           NoChild, WriteIndirect, MapFails, WriteIndirectFails, StoreData, StoreCsum,
           StoreLastCsum, Fail, SetNoInode
      <4>2. \A d : SetInode(d) => mem'[j] = d
        BY DEF SetInode, TypeOK
      <4>3. /\ \A d : [Inode EXCEPT !.direct = d].ind = mem[j].ind
            /\ \A n : [Inode EXCEPT !.size = n].ind = mem[j].ind
        BY <1>0 DEF Dinode
      <4>. QED
        BY <4>1, <4>2, <4>3
    <3>2. pc \notin TruncSteps
      BY <2>1 DEF WriteStep, BeginWrite, MapExisting, MapDirect, ReadIndirect, MapChild,
         NoChild, WriteIndirect, MapFails, WriteIndirectFails, StoreData, StoreCsum,
         StoreLastCsum, Running, TruncSteps
    <3>3. NrDirect * BlockSize <= Extent(j)
      BY <1>2, <3>1, <3>2 DEF Wanted
    <3>4. Extent(j) \in Nat /\ Extent(j)' \in Nat /\ Extent(j) <= Extent(j)'
      <4>1. Extent(j) \in Nat /\ mem[j].size \in Nat
        BY ExtentNat
      <4>2. CASE Extent(j)' = Extent(j)
        BY <4>1, <4>2
      <4>3. CASE pc = "csum" /\ Extent(j)' = MaxOf(mem[j].size, Cur.off + at + Copied)
        <5>1. Extent(j) = MaxOf(mem[j].size, Cur.off + at)
          BY <4>3 DEF Extent, WriteSteps
        <5>2. Copied \in Nat
          BY <1>0, <4>3, CopiedFits DEF Stands, StandsInWrite, WriteSteps
        <5>. QED
          BY <1>0, <4>1, <4>3, <5>1, <5>2 DEF MaxOf
      <4>. QED
        BY <2>1, <4>2, <4>3, ExtentWrite
    <3>. QED
      BY <1>0, <3>3, <3>4
  <2>2. CASE MapIndirect
    <3>1. /\ NrDirect <= Log /\ pc' = "child" /\ todo' = todo /\ at' = at
      BY <2>2 DEF MapIndirect, plan
    <3>2. Cur' = Cur
      BY <3>1, SameCall
    <3>. PICK n \in Nat : n = mem'[j].size
      <4>1. \E b : SetInode([Inode EXCEPT !.ind = b])
        BY <2>2 DEF MapIndirect
      <4>2. \A d : SetInode(d) => mem'[j] = d
        BY DEF SetInode, TypeOK
      <4>3. \A b : [Inode EXCEPT !.ind = b].size = mem[j].size
        BY <1>0 DEF Dinode
      <4>. QED
        BY <4>1, <4>2, <4>3, SizeNat
    <3>3. Extent(j)' = MaxOf(n, Cur.off + at)
      BY <3>1, <3>2 DEF Extent, WriteSteps
    <3>4. Cur.off + at \in Nat
      BY <1>0
    <3>. PICK q, r \in Nat : /\ q = (Cur.off + at) \div BlockSize
                             /\ Cur.off + at = BlockSize * q + r /\ BlockSize * q \in Nat
      BY <3>4, Division
    <3>5. BlockSize * NrDirect <= BlockSize * q
      <4>1. NrDirect <= q
        BY <3>1 DEF Log
      <4>2. NrDirect \in Int /\ q \in Int
        BY <1>0
      <4>. QED
        BY <4>1, <4>2, Grows
    <3>6. NrDirect * BlockSize <= Cur.off + at
      BY <1>0, <3>5
    <3>. QED
      BY <1>0, <3>3, <3>4, <3>6, SMTT(30) DEF MaxOf
  <2>3. CASE TruncStep
    <3>1. CASE pc' \in TruncSteps /\ todo' = todo
      BY <3>1, SameCall
    <3>2. CASE TruncNothing
      <4>1. mem' = mem /\ pc = "ready" /\ pc' = "ready"
        BY <3>2 DEF TruncNothing, Running, Return
      <4>2. Extent(j)' = Extent(j)
        BY <4>1 DEF Extent, WriteSteps
      <4>. QED
        BY <1>2, <4>1, <4>2 DEF Wanted, TruncSteps
    <3>3. CASE pc' = "ready" /\ mem'[j].size = Cur.off /\ pc \in TruncSteps
      <4>1. TruncDirectOnly \/ UnmarkIndirect \/ KeepIndirect
        BY <2>3, <3>3 DEF TruncStep, TruncNothing, BeginTrunc, ZeroDirect, UnmarkDirect,
           LoadIndirect, ZeroChild, UnmarkChild, ZeroIndirect, Running, TruncSteps
      <4>2. CASE TruncDirectOnly
        <5>1. mem'[j].ind = 0
          <6>1. \E n : SetInode([Inode EXCEPT !.size = n]) /\ Inode.ind = 0
            BY <4>2 DEF TruncDirectOnly
          <6>2. \A d : SetInode(d) => mem'[j] = d
            BY DEF SetInode, TypeOK
          <6>3. \A n : [Inode EXCEPT !.size = n].ind = mem[j].ind
            BY <1>0 DEF Dinode
          <6>. QED
            BY <1>0, <6>1, <6>2, <6>3
        <5>. QED
          BY <1>2, <5>1
      <4>3. CASE UnmarkIndirect
        <5>1. HeldAt(j, -1)' = 0
          BY <1>0, <4>3, FreesIndirect
        <5>2. HeldAt(j, -1)' = mem'[j].ind
          BY HeldNext, PlacesInt
        <5>. QED
          BY <1>2, <5>1, <5>2
      <4>4. CASE KeepIndirect
        <5>1. Blocks(Cur.off) > NrDirect
          BY <4>4 DEF KeepIndirect, First
        <5>2. ~(Cur.off <= BlockSize * NrDirect)
          <6>. PICK z \in Nat : z = Cur.off
            BY <1>0
          <6>1. Blocks(z) \in Nat /\ Blocks(z) > NrDirect
            BY <5>1, BlocksNat
          <6>2. NrDirect \in Nat
            BY FileStoreAssumption
          <6>3. z <= BlockSize * NrDirect => Blocks(z) <= NrDirect
            BY <6>2, BlocksAtMost, Zenon
          <6>. QED
            BY <6>1, <6>2, <6>3
        <5>3. Extent(j)' = Cur.off
          BY <3>3 DEF Extent, WriteSteps
        <5>. QED
          BY <1>0, <5>2, <5>3
      <4>. QED
        BY <4>1, <4>2, <4>3, <4>4
    <3>. QED
      BY <2>3, <3>1, <3>2, <3>3, TruncMoves
  <2>. QED
    BY <2>1, <2>2, <2>3
<1>. QED
  BY <1>1, <1>2 DEF Wanted

-----------------------------------------------------------------------------
(* What is released is empty.                                              *)

\* What is cut back to nothing before it is released is empty.
LEMMA EmptyData ==
  ASSUME Busy, EmptyFirst, WriteStep \/ TruncStep
  PROVE  EmptyFirst'
<1>0. /\ TypeOK /\ Stands /\ Doing /\ todo # <<>> /\ Cur = todo[1] /\ Cur.op \in {"write", "trunc"}
      /\ Dirs \subseteq Inodes /\ Dirs' \subseteq Dirs
      /\ WriteStep => Cur.op = "write"
      /\ TruncStep => Cur.op = "trunc"
  BY BusyFacts, DataCall, CurFirst, ReachData
<1>. PICK m \in Nat : m = Len(todo)
  BY <1>0 DEF TypeOK
<1>d. DOMAIN todo = 1 .. m
  BY <1>0 DEF TypeOK
<1>1. CASE todo' = todo /\ Cur' = Cur
  <2>1. Cur'.op # "release"
    BY <1>0, <1>1
  <2>2. ASSUME NEW i \in Dirs', m = 5, todo[3] = ReleaseCall(i), NEW k \in Known(i)'
        PROVE  ~(MemCell(i, k)' > 0)
    <3>1. Removing(i)
      <4>1. Releasing(i)
        BY <1>d, <2>2 DEF Releasing
      <4>2. ~Undoing(i)
        BY <2>2 DEF Undoing
      <4>. QED
        BY <1>0, <4>1, <4>2, ReleasingWhere
    <3>2. CASE k \in Known(i) /\ MemCell(i, k)' \in {MemCell(i, k), 0}
      <4>1. ~(MemCell(i, k) > 0)
        BY <1>0, <2>2, <3>2 DEF EmptyFirst
      <4>. QED
        BY <3>2, <4>1
    <3>3. CASE MemCell(i, k)' = Cur.val
      <4>1. Cur.val = Removed
        BY <2>2, <3>1, RemovingLeft
      <4>. QED
        BY <3>3, <4>1 DEF Removed
    <3>. QED
      BY <1>0, <3>2, <3>3, NamesData
  <2>. QED
    BY <1>1, <2>1, <2>2 DEF EmptyFirst
<1>2. CASE todo' = Tail(todo) /\ pc' = "ready"
  <2>t. /\ m >= 1 /\ Len(todo') = m - 1
        /\ \A k \in 1 .. (m - 1) : todo'[k] = todo[k + 1]
        /\ m = 1 => todo' = <<>>
        /\ m > 1 => Cur' = todo[2]
    BY <1>0, <1>2, TailLeft
  <2>1. ASSUME m > 1, Cur'.op = "release" PROVE mem'[Cur'.in].size = 0
    <3>0. todo[2].op = "release"
      BY <2>t, <2>1
    <3>1. ASSUME NEW i \in Inodes, Cur = TruncCall(i, 0), Cur'.in = i, TruncStep
          PROVE  mem'[Cur'.in].size = 0
      <4>1. Cur.in = i /\ Cur.off = 0
        BY <3>1, CallOps
      <4>2. CASE TruncNothing
        <5>1. mem' = mem /\ mem[i].size <= 0
          BY <4>1, <4>2 DEF TruncNothing, Inode
        <5>. QED
          BY <1>0, <3>1, <5>1, SizeNat
      <4>3. CASE ~TruncNothing
        <5>1. mem'[i].size = Cur.off
          BY <1>0, <1>2, <3>1, <4>1, <4>3, TruncMoves DEF TruncSteps
        <5>. QED
          BY <3>1, <4>1, <5>1
      <4>. QED
        BY <4>2, <4>3
    <3>2. CASE TruncStep
      <4>0. Cur.op = "trunc"
        BY <1>0, <3>2
      <4>1. CASE StandsStill
        BY <2>1, <4>1 DEF StandsStill
      <4>2. ASSUME NEW i \in Inodes, Writing(i), Len(todo) = 2 PROVE FALSE
        BY <3>0, <4>2, CallOps DEF Writing
      <4>3. ASSUME NEW i \in Inodes, Removing(i), Len(todo) = 4 PROVE mem'[Cur'.in].size = 0
        <5>1. todo[4 - 2] = ReleaseCall(i) /\ todo[4 - 3] = TruncCall(i, 0)
          BY <4>3, RemovingLeft
        <5>2. todo[2] = ReleaseCall(i) /\ todo[1] = TruncCall(i, 0)
          BY <5>1
        <5>3. Cur'.in = i
          BY <2>t, <2>1, <5>2, CallOps
        <5>. QED
          BY <1>0, <3>1, <3>2, <5>2, <5>3
      <4>4. ASSUME NEW i \in Inodes, Undoing(i), Len(todo) = 3 PROVE mem'[Cur'.in].size = 0
        <5>1. todo[3 - 1] = ReleaseCall(i) /\ todo[3 - 2] = TruncCall(i, 0)
          BY <4>4 DEF Undoing
        <5>2. todo[2] = ReleaseCall(i) /\ todo[1] = TruncCall(i, 0)
          BY <5>1
        <5>3. Cur'.in = i
          BY <2>t, <2>1, <5>2, CallOps
        <5>. QED
          BY <1>0, <3>1, <3>2, <5>2, <5>3
      <4>5. ASSUME NEW i \in Inodes, Undoing(i), Len(todo) = 4 PROVE FALSE
        <5>1. todo[4 - 2] = TruncCall(i, 0)
          BY <4>5 DEF Undoing
        <5>2. todo[2] = TruncCall(i, 0)
          BY <5>1
        <5>. QED
          BY <3>0, <5>2, CallOps
      <4>. QED
        BY <1>0, <4>0, <4>1, <4>2, <4>3, <4>4, <4>5, TruncPlan
    <3>3. CASE WriteStep
      <4>0. Cur.op = "write"
        BY <1>0, <3>3
      <4>1. ASSUME NEW i \in Inodes, Writing(i), Len(todo) = 3 PROVE FALSE
        <5>1. Is(todo[3 - 1], "trunc", i)
          BY <4>1 DEF Writing
        <5>. QED
          BY <3>0, <5>1 DEF Is
      <4>2. ASSUME NEW i \in Inodes, Removing(i), Len(todo) = 5 PROVE FALSE
        <5>1. todo[5 - 3] = TruncCall(i, 0)
          BY <4>2, RemovingLeft
        <5>2. todo[2] = TruncCall(i, 0)
          BY <5>1
        <5>. QED
          BY <3>0, <5>2, CallOps
      <4>3. ASSUME NEW i \in Inodes, NEW p \in Inodes, Creating(p, i), Len(todo) >= 3
            PROVE  FALSE
        <5>1. /\ m >= 3 /\ todo[m - 1] = SyncCall(p) /\ Is(todo[m - 2], "write", p)
              /\ \A k \in 1 .. (m - 3) : Is(todo[k], "write", i) \/ Is(todo[k], "write", p)
          BY <4>3, CreatingLeft
        <5>2. m # 3
          <6>. SUFFICES ASSUME m = 3 PROVE FALSE
            OBVIOUS
          <6>1. m - 1 = 2
            OBVIOUS
          <6>2. todo[2] = SyncCall(p)
            BY <5>1, <6>1
          <6>. QED
            BY <3>0, <6>2, CallOps
        <5>3. m # 4
          <6>. SUFFICES ASSUME m = 4 PROVE FALSE
            OBVIOUS
          <6>1. m - 2 = 2
            OBVIOUS
          <6>2. Is(todo[2], "write", p)
            BY <5>1, <6>1
          <6>. QED
            BY <3>0, <6>2 DEF Is
        <5>4. 2 \in 1 .. (m - 3)
          BY <5>1, <5>2, <5>3
        <5>. QED
          BY <3>0, <5>1, <5>4 DEF Is
      <4>. QED
        BY <1>0, <4>0, <4>1, <4>2, <4>3, WritePlan
    <3>. QED
      BY <3>2, <3>3
  <2>2. ASSUME NEW i \in Dirs', Len(todo') = 5, todo'[3] = ReleaseCall(i) PROVE FALSE
    <3>1. m = 6 /\ 4 \in DOMAIN todo /\ todo[4] = ReleaseCall(i)
      <4>0. \A q \in Nat : q - 1 = 5 => q = 6
        OBVIOUS
      <4>2. m - 1 = 5
        BY <2>t, <2>2, Zenon
      <4>3. m = 6
        BY <4>0, <4>2
      <4>1. m = 6 /\ 3 \in 1 .. (m - 1) /\ 3 + 1 = 4
        BY <4>3
      <4>. QED
        BY <1>d, <2>t, <2>2, <4>1
    <3>2. Removing(i) \/ Undoing(i)
      <4>1. Releasing(i)
        BY <3>1 DEF Releasing
      <4>. QED
        BY <1>0, <4>1, ReleasingWhere
    <3>. QED
      BY <3>1, <3>2 DEF Removing, Undoing
  <2>3. todo' # <<>> => m > 1
    BY <2>t
  <2>. QED
    BY <2>1, <2>2, <2>3 DEF EmptyFirst, Inode
<1>3. CASE (MapFails \/ WriteIndirectFails) /\ todo' = CutBack \o onfail
  <2>. PICK n \in Nat : n = Len(onfail) /\ n < 4
    <3>2. \/ onfail = <<>> \/ \E i : onfail = <<SyncCall(i)>>
          \/ \E i : onfail = <<TruncCall(i, 0), ReleaseCall(i), SyncCall(i)>>
      BY <1>3, FailPlan
    <3>3. Len(onfail) \in {0, 1, 3}
      <4>1. CASE onfail = <<>>
        BY <4>1
      <4>2. ASSUME NEW i, onfail = <<SyncCall(i)>> PROVE Len(onfail) \in {0, 1, 3}
        BY <4>2
      <4>3. ASSUME NEW i, onfail = <<TruncCall(i, 0), ReleaseCall(i), SyncCall(i)>>
            PROVE  Len(onfail) \in {0, 1, 3}
        BY <4>3
      <4>. QED
        BY <3>2, <4>1, <4>2, <4>3, Zenon
    <3>4. \A n \in {0, 1, 3} : n \in Nat /\ n < 4
      OBVIOUS
    <3>. QED
      BY <3>3, <3>4, Zenon
  <2>1. Len(todo') = n + 1 /\ Cur' = TruncCall(Cur.in, Inode.size)
    BY <1>0, <1>3, CutLeft
  <2>2. Cur'.op # "release" /\ Len(todo') # 5
    BY <2>1, CallOps
  <2>. QED
    BY <2>2 DEF EmptyFirst
<1>. QED
  BY <1>0, <1>1, <1>2, <1>3, DataPlan

\* The same after a release or a sync.
LEMMA EmptyBetween ==
  ASSUME Busy, ReleaseInode \/ SyncInode
  PROVE  EmptyFirst'
<1>0. /\ TypeOK /\ Doing /\ todo # <<>> /\ todo' = Tail(todo) /\ Cur.op \in {"release", "sync"}
      /\ ReleaseInode => Cur.op = "release"
      /\ SyncInode => Cur.op = "sync"
  BY BusyFacts DEF ReleaseInode, SyncInode, Running, Return, Cur
<1>. PICK m \in Nat : m = Len(todo)
  BY <1>0 DEF TypeOK
<1>t. /\ m >= 1 /\ Len(todo') = m - 1
      /\ m = 1 => todo' = <<>>
      /\ m > 1 => Cur' = todo[2]
  BY <1>0, TailLeft
<1>1. m <= 3 /\ (m > 1 => todo[2].op = "sync")
  <2>1. CASE ReleaseInode
    <3>. PICK i \in Inodes : (Removing(i) /\ m = 3) \/ (Undoing(i) /\ m = 2)
      BY <1>0, <2>1, ReleasePlan
    <3>1. CASE Removing(i) /\ m = 3
      <4>1. todo[3 - 1] = SyncCall(i)
        BY <3>1, RemovingLeft
      <4>2. todo[2] = SyncCall(i)
        BY <4>1
      <4>. QED
        BY <3>1, <4>2, CallOps
    <3>2. CASE Undoing(i) /\ m = 2
      <4>1. todo[2] = SyncCall(i)
        BY <3>2 DEF Undoing
      <4>. QED
        BY <3>2, <4>1, CallOps
    <3>. QED
      BY <3>1, <3>2
  <2>2. CASE SyncInode
    <3>1. Len(todo) \in {1, 2}
      BY <2>2, SyncFacts
    <3>2. ASSUME m = 2 PROVE todo[2].op = "sync"
      <4>. PICK i \in Inodes : Removing(i) \/ \E p \in Inodes : Creating(p, i)
        BY <1>0, <2>2, <3>2, SyncPlan
      <4>1. CASE Removing(i)
        <5>1. todo[2] = SyncCall(0)
          BY <3>2, <4>1, RemovingLeft
        <5>. QED
          BY <5>1, CallOps
      <4>2. ASSUME NEW p \in Inodes, Creating(p, i) PROVE todo[2].op = "sync"
        <5>1. todo[2] = SyncCall(i)
          BY <3>2, <4>2, CreatingLeft
        <5>. QED
          BY <5>1, CallOps
      <4>. QED
        BY <4>1, <4>2
    <3>3. m <= 3 /\ (m > 1 => m = 2)
      <4>1. \A n \in {1, 2} : n <= 3 /\ (n > 1 => n = 2)
        OBVIOUS
      <4>. QED
        BY <3>1, <4>1, Zenon
    <3>. QED
      BY <3>2, <3>3
  <2>. QED
    BY <2>1, <2>2
<1>2. todo' # <<>> => Cur'.op # "release" /\ Len(todo') # 5
  <2>1. \A q \in Nat : q >= 1 /\ q <= 3 => q - 1 # 5 /\ (q = 1 \/ q > 1)
    OBVIOUS
  <2>2. m - 1 # 5 /\ (m = 1 \/ m > 1)
    BY <1>t, <1>1, <2>1
  <2>. QED
    BY <1>t, <1>1, <2>2
<1>. QED
  BY <1>2 DEF EmptyFirst

\* A command that creates releases nothing yet.
LEMMA EmptyCreate ==
  ASSUME TypeOK, Ownership, Consistent, CreateInode
  PROVE  EmptyFirst'
<1>. PICK p, i \in Inodes : \E k \in Nat : todo' = NewCalls(p, i, mem'[i].type, k)
  BY CreateFacts
<1>1. Creation(todo', p, i)
  <2>. PICK type : type = mem'[i].type
    OBVIOUS
  <2>. PICK k \in Nat : todo' = NewCalls(p, i, type, k)
    OBVIOUS
  <2>. PICK calls : calls = NewCalls(p, i, type, k)
    OBVIOUS
  <2>1. Creation(calls, p, i)
    BY CreatePlan
  <2>. QED
    BY <2>1
<1>. PICK m \in Nat :
       /\ m = Len(todo') /\ m >= 3
       /\ todo'[m] = SyncCall(i) /\ todo'[m - 1] = SyncCall(p)
       /\ \E off \in Nat : todo'[m - 2] = WriteCall(p, off, 1, i + 1)
       /\ \A j \in 1 .. (m - 3) :
            \E off \in Nat, v \in Int :
              \/ todo'[j] = WriteCall(i, off, 1, v) /\ off < 2
              \/ todo'[j] = WriteCall(p, off, 1, 0)
  BY <1>1 DEF Creation
<1>2. \A j, off, n, v : WriteCall(j, off, n, v).op = "write"
  BY DEF WriteCall
<1>3. \A n \in 1 .. m : todo'[n].op # "release"
  <2>. SUFFICES ASSUME NEW n \in 1 .. m PROVE todo'[n].op # "release"
    OBVIOUS
  <2>1. CASE n = m
    BY <2>1, CallOps
  <2>2. CASE n = m - 1
    BY <2>2, CallOps
  <2>3. CASE n = m - 2
    BY <1>2, <2>3
  <2>4. CASE n \in 1 .. (m - 3)
    <3>. PICK off \in Nat, v \in Int : \/ todo'[n] = WriteCall(i, off, 1, v)
                                       \/ todo'[n] = WriteCall(p, off, 1, 0)
      BY <2>4
    <3>1. WriteCall(i, off, 1, v).op # "release" /\ WriteCall(p, off, 1, 0).op # "release"
      BY DEF WriteCall
    <3>. QED
      BY <3>1
  <2>5. n = m \/ n = m - 1 \/ n = m - 2 \/ n \in 1 .. (m - 3)
    OBVIOUS
  <2>. QED
    BY <2>1, <2>2, <2>3, <2>4, <2>5
<1>4. todo'[1].op # "release" /\ todo'[3].op # "release"
  <2>1. 1 \in 1 .. m /\ 3 \in 1 .. m
    OBVIOUS
  <2>. QED
    BY <1>3, <2>1
<1>5. todo' # <<>> => Cur'.op # "release"
  BY <1>4 DEF Cur
<1>6. \A x : todo'[3] # ReleaseCall(x)
  BY <1>4, CallOps
<1>. QED
  BY <1>5, <1>6 DEF EmptyFirst

\* cmd_rm finds a directory empty before it removes it.
LEMMA EmptyCommand ==
  ASSUME TypeOK, Ownership, Consistent, Command, ~hurt'
  PROVE  EmptyFirst'
<1>0. /\ pc = "idle" /\ UNCHANGED <<imap, bmap, dino, blk, summed, mem, dirty, at>>
      /\ pc' \in {"ready", "create"} /\ Stands /\ DirsKept
  BY CommandStarts DEF CanStart, Ownership, Consistent
<1>1. todo = <<>> /\ mem = dino
  BY <1>0 DEF Stands, StandsBetween
<1>2. ASSUME NEW i \in Inodes, NEW off, NEW n, StartWrite(i, off, n) PROVE EmptyFirst'
  <2>1. /\ Len(todo') = 3 /\ Cur' = WriteCall(i, off, n, ncmd + 1)
    BY <1>2 DEF StartWrite, Cur
  <2>2. Cur'.op = "write" /\ Len(todo') # 5
    BY <2>1 DEF WriteCall
  <2>. QED
    BY <2>2 DEF EmptyFirst
<1>3. ASSUME NEW op, NEW p, StartCreate(op, p) PROVE EmptyFirst'
  BY <1>1, <1>3 DEF StartCreate, EmptyFirst
<1>4. ASSUME NEW k, StartRemove(k) PROVE EmptyFirst'
  <2>. PICK i \in Inodes : i = CellAt(dino[0], k) - 1
    BY <1>4 DEF StartRemove
  <2>0. todo' = RemoveCalls(i, k) /\ (dino[i].type = "dir" => LiveSlots(dino[i]) = {})
    BY <1>4 DEF StartRemove
  <2>1. todo'[3] = ReleaseCall(i) /\ Cur' = WriteCall(0, k, 1, Removed)
    BY <2>0 DEF RemoveCalls, Cur
  <2>2. Cur'.op = "write"
    BY <2>1 DEF WriteCall
  <2>3. ASSUME NEW x \in Dirs', todo'[3] = ReleaseCall(x), NEW l \in Known(x)'
        PROVE  ~(MemCell(x, l)' > 0)
    <3>1. x = i
      <4>1. ReleaseCall(x) = ReleaseCall(i)
        BY <2>1, <2>3
      <4>2. ReleaseCall(x).in = x /\ ReleaseCall(i).in = i
        BY CallOps
      <4>. QED
        BY <4>1, <4>2
    <3>2. i \in Dirs /\ l \in Known(i) /\ MemCell(i, l)' = MemCell(i, l)
      <4>1. Dirs' = Dirs
        BY <1>0, ReachSame
      <4>2. pc \notin Loaded \cup {"csum"} /\ pc' \notin Loaded \cup {"csum"}
        BY <1>0 DEF Loaded
      <4>3. Known(i)' = Known(i) /\ MemCell(i, l)' = MemCell(i, l)
        BY <1>0, <4>2, QuietHeld
      <4>. QED
        BY <2>3, <3>1, <4>1, <4>3
    <3>3. l \in 2 .. (dino[i].size - 1)
      BY <1>0, <1>1, <3>2 DEF Known
    <3>4. CellAt(dino[i], l) = MemCell(i, l)
      BY <1>0, <3>2, <3>3, DirCell
    <3>5. l \notin LiveSlots(dino[i])
      BY <2>0, <3>2 DEF Dirs
    <3>. QED
      <4>1. ~(CellAt(dino[i], l) > 0)
        BY <3>3, <3>5 DEF LiveSlots
      <4>. QED
        BY <3>1, <3>2, <3>4, <4>1
  <2>. QED
    BY <2>2, <2>3 DEF EmptyFirst
<1>. QED
  BY <1>2, <1>3, <1>4 DEF Command

-----------------------------------------------------------------------------
(* All accounts together.                                                  *)

\* A blank inode holds no block.
LEMMA BlankHoldsNothing ==
  ASSUME NEW i, mem[i] = Blank
  PROVE  \A s \in Places : HeldAt(i, s) = 0
<1>1. Blank.ind = 0 /\ \A l \in 0 .. (NrDirect - 1) : Blank.direct[l] = 0
  BY DEF Blank
<1>. QED
  BY <1>1, HeldCases, PlaceCases

\* Nor will it in the next state.
LEMMA BlankHoldsNothingNext ==
  ASSUME NEW i, mem'[i] = Blank
  PROVE  \A s \in Places : HeldAt(i, s)' = 0
<1>1. Blank.ind = 0 /\ \A l \in 0 .. (NrDirect - 1) : Blank.direct[l] = 0
  BY DEF Blank
<1>. QED
  BY <1>1, HeldNext, PlaceCases

\* A step that moves no block keeps the accounts of the blocks.
LEMMA AccountQuiet ==
  ASSUME TypeOK', UnmarkedBlank', NumbersKept', BlocksKept, Tight(Live), Wanted(Live),
         pc \notin WriteSteps \cup TruncSteps, pc' \notin WriteSteps \cup TruncSteps,
         blk' = blk, bmap' = bmap, Live \subseteq Inodes,
         \A i \in Inodes : \/ mem'[i] = mem[i]
                           \/ \A s \in Places : HeldAt(i, s) = 0 /\ HeldAt(i, s)' = 0,
         \A i \in Live' : i \in Live \/ \A s \in Places : HeldAt(i, s)' = 0
  PROVE  BlocksKept' /\ Tight(Live)' /\ Wanted(Live)'
<1>0. pc \notin Loaded \cup {"csum"} /\ pc' \notin Loaded \cup {"csum"}
  BY DEF Loaded, WriteSteps, TruncSteps
<1>1. ASSUME NEW i, mem'[i] = mem[i] PROVE \A s \in Places : HeldAt(i, s)' = HeldAt(i, s)
  BY <1>0, <1>1, QuietHeld
<1>2. \A i \in Inodes, s \in Places : HeldAt(i, s)' = HeldAt(i, s)
  BY <1>1
<1>3. BlocksKept'
  <2>1. ASSUME NEW b \in bmap' PROVE \E i \in Inodes, s \in Places : HeldAt(i, s)' = b
    <3>. PICK i \in Live, s \in Places : HeldAt(i, s) = b
      BY DEF BlocksKept
    <3>. QED
      BY <1>2
  <2>. QED
    BY <2>1, BlocksHeld
<1>4. ASSUME NEW i \in Live', NEW s \in Places, HeldAt(i, s)' # 0
      PROVE  /\ i \in Live /\ HeldAt(i, s) # 0
             /\ Extent(i)' = Extent(i) /\ (\A l : ~Cleared(i, l)') /\ ~Mapping(i, s)
  <2>1. i \in Live /\ i \in Inodes /\ HeldAt(i, s) # 0 /\ mem'[i] = mem[i]
    BY <1>2, <1>4
  <2>2. Extent(i)' = Extent(i)
    BY <2>1 DEF Extent
  <2>3. (\A l : ~Cleared(i, l)') /\ ~Mapping(i, s)
    BY DEF Cleared, Mapping, WriteSteps
  <2>. QED
    BY <2>1, <2>2, <2>3
<1>5. Tight(Live)'
  <2>. SUFFICES ASSUME NEW i \in Live', NEW l \in 0 .. (NrLogical - 1), HeldAt(i, l)' # 0
                PROVE  l < Blocks(Extent(i)') /\ ~Cleared(i, l)'
    BY DEF Tight, Blocks
  <2>1. l \in Nat /\ l < NrLogical
    BY PlacesInt
  <2>2. l \in Places
    BY <2>1, LogicalPlace
  <2>3. i \in Live /\ HeldAt(i, l) # 0 /\ Extent(i)' = Extent(i) /\ ~Cleared(i, l)'
        /\ ~Mapping(i, l)
    BY <1>4, <2>2
  <2>4. l < Blocks(Extent(i))
    BY <2>3 DEF Tight
  <2>. QED
    BY <2>3, <2>4
<1>6. Wanted(Live)'
  <2>. SUFFICES ASSUME NEW i \in Live', mem'[i].ind # 0
                PROVE  NrDirect * BlockSize <= Extent(i)'
    BY DEF Wanted
  <2>1. -1 \in Places
    BY PlacesInt
  <2>2. HeldAt(i, -1)' # 0
    BY <2>1, HeldNext
  <2>3. i \in Live /\ HeldAt(i, -1) # 0 /\ Extent(i)' = Extent(i)
    BY <1>4, <2>1, <2>2
  <2>4. mem[i].ind # 0
    BY <2>1, <2>3, HeldCases
  <2>. QED
    BY <2>3, <2>4 DEF Wanted
<1>. QED
  BY <1>3, <1>5, <1>6

\* A call that writes or cuts back leaves every number and every block accounted for.
LEMMA AccountData ==
  ASSUME Busy, TypeOK', FreshIsZero, DotsFirst, EntriesPlaced, ~died, Accounted,
         WriteStep \/ TruncStep
  PROVE  Accounted'
<1>0. /\ TypeOK /\ Stands /\ Owned(Live) /\ Live \subseteq Inodes /\ Cur.in \in Live
      /\ NumbersKept /\ BlocksKept /\ Tight(Live) /\ Wanted(Live) /\ EmptyFirst
  BY BusyFacts, DataCall DEF Accounted
<1>1. Live' \subseteq Live /\ DiskBehind' /\ UnmarkedBlank' /\ Owned(Live)' /\ Filled(Live)'
  BY DiskBehindData
<1>2. NumbersKept'
  BY <1>0, NumbersData
<1>3. BlocksKept'
  BY <1>0, <1>1, <1>2, BlocksData
<1>4. EmptyFirst'
  BY <1>0, EmptyData
<1>5. Tight(Live)' /\ Wanted(Live)'
  <2>. PICK P : P = Live
    OBVIOUS
  <2>. PICK j : j = Cur.in
    OBVIOUS
  <2>. PICK Q : Q = Live'
    OBVIOUS
  <2>1. Owned(P) /\ Tight(P) /\ Wanted(P) /\ P \in SUBSET Inodes /\ j \in P /\ Q \subseteq P
    BY <1>0, <1>1
  <2>2. Tight(P)'
    BY <1>0, <2>1, TightWrite, TightTrunc
  <2>3. Wanted(P)'
    BY <1>0, <2>1, WantedData
  <2>4. Tight(Q)' /\ Wanted(Q)'
    BY <2>1, <2>2, <2>3 DEF Tight, Wanted
  <2>. QED
    BY <2>4 DEF Tight, Wanted
<1>. QED
  BY <1>1, <1>2, <1>3, <1>4, <1>5 DEF Accounted, WhileRunning

\* What is released holds nothing: it is empty.
LEMMA ReleasedHoldsNothing ==
  ASSUME Busy, Tight(Live), Wanted(Live), EmptyFirst, ReleaseInode, NEW s \in Places
  PROVE  HeldAt(Cur.in, s) = 0
<1>. PICK j : j = Cur.in
  OBVIOUS
<1>0. /\ todo # <<>> /\ Cur.op = "release" /\ pc = "ready" /\ mem[j].size = 0
      /\ j \in Live /\ TypeOK
  BY BusyFacts, CurActs DEF ReleaseInode, Running, Cur, Inode, EmptyFirst, Live
<1>1. Extent(j) = 0 /\ ~Mapping(j, s)
  BY <1>0 DEF Extent, WriteSteps, Mapping
<1>2. NrDirect \in Nat /\ BlockSize \in Nat /\ NrDirect > 0 /\ BlockSize > 0
  BY FileStoreAssumption
<1>3. NrDirect * BlockSize > 0
  BY <1>2
<1>4. mem[j].ind = 0
  BY <1>0, <1>1, <1>2, <1>3 DEF Wanted, TruncSteps
<1>5. CASE s = -1
  BY <1>4, <1>5, HeldCases
<1>6. CASE s # -1
  <2>1. s \in 0 .. (NrLogical - 1)
    BY <1>6, PlacesInt DEF Places
  <2>2. ~(s < Blocks(0))
    BY <2>1, NoBlocks
  <2>. QED
    BY <1>0, <1>1, <2>1, <2>2 DEF Tight
<1>. QED
  BY <1>5, <1>6

\* The number of a removed inode is given back when nothing is left of it.
LEMMA AccountRelease ==
  ASSUME Busy, TypeOK', ~died, Accounted, ReleaseInode
  PROVE  Accounted'
<1>0. /\ NumbersKept /\ BlocksKept /\ Tight(Live) /\ Wanted(Live) /\ EmptyFirst
      /\ Live \subseteq Inodes
  BY BusyFacts DEF Accounted
<1>1. PICK j \in Inodes : /\ Cur.in = j /\ pc = "ready" /\ mem' = [mem EXCEPT ![j] = Blank]
                          /\ pc' = "ready" /\ blk' = blk
  BY ReleaseFacts
<1>2. Consistent' /\ Live' \subseteq Live
  BY ReleaseConsistent
<1>3. WhileRunning'
  BY <1>1, <1>2 DEF Consistent
<1>4. NumbersKept'
  BY <1>0, NumbersRelease
<1>5. \A s \in Places : HeldAt(j, s) = 0
  BY <1>0, <1>1, ReleasedHoldsNothing
<1>6. \A s \in Places : HeldAt(j, s)' = 0
  <2>1. mem'[j] = Blank
    BY <1>1 DEF Busy, TypeOK
  <2>. QED
    BY <2>1, BlankHoldsNothingNext
<1>7. \A i \in Inodes : \/ mem'[i] = mem[i]
                        \/ \A s \in Places : HeldAt(i, s) = 0 /\ HeldAt(i, s)' = 0
  BY <1>1, <1>5, <1>6
<1>8. bmap' = bmap /\ pc \notin WriteSteps \cup TruncSteps /\ pc' \notin WriteSteps \cup TruncSteps
  BY <1>1 DEF ReleaseInode, WriteSteps, TruncSteps
<1>9. BlocksKept' /\ Tight(Live)' /\ Wanted(Live)'
  BY <1>0, <1>1, <1>2, <1>3, <1>4, <1>7, <1>8, AccountQuiet DEF WhileRunning
<1>10. EmptyFirst'
  BY EmptyBetween
<1>. QED
  BY <1>3, <1>4, <1>9, <1>10 DEF Accounted

\* A path that a written directory opens leads to an inode the command works on.
LEMMA AccountSync ==
  ASSUME Busy, TypeOK', ~died, Accounted, SyncInode
  PROVE  Accounted'
<1>0. /\ NumbersKept /\ BlocksKept /\ Tight(Live) /\ Wanted(Live) /\ Live \subseteq Inodes
  BY BusyFacts DEF Accounted
<1>1. pc = "ready" /\ mem' = mem /\ pc' = "ready" /\ blk' = blk /\ bmap' = bmap
  BY SyncFacts DEF SyncInode
<1>2. Consistent' /\ Live' \subseteq Live
  BY SyncConsistent
<1>3. WhileRunning'
  BY <1>1, <1>2 DEF Consistent
<1>4. NumbersKept'
  BY <1>0, NumbersSync
<1>5. pc \notin WriteSteps \cup TruncSteps /\ pc' \notin WriteSteps \cup TruncSteps
  BY <1>1 DEF WriteSteps, TruncSteps
<1>6. BlocksKept' /\ Tight(Live)' /\ Wanted(Live)'
  BY <1>0, <1>1, <1>2, <1>3, <1>4, <1>5, AccountQuiet DEF WhileRunning
<1>7. EmptyFirst'
  BY EmptyBetween
<1>. QED
  BY <1>3, <1>4, <1>6, <1>7 DEF Accounted

\* A new inode holds nothing.
LEMMA AccountCreate ==
  ASSUME TypeOK, Ownership, Consistent, TypeOK', ~died, Accounted, CreateInode
  PROVE  Accounted'
<1>0. NumbersKept /\ BlocksKept /\ Tight(Live) /\ Wanted(Live) /\ Live \subseteq Inodes
  <2>1. Busy
    BY DEF CreateInode, TakeNumber, Busy
  <2>. QED
    BY <2>1, BusyFacts DEF Accounted
<1>1. PICK p, i \in Inodes :
        /\ pc = "create" /\ todo = <<>> /\ mem[i] = Blank
        /\ \A j \in Inodes : j # i => mem'[j] = mem[j]
        /\ blk' = blk /\ pc' = "ready"
  BY CreateFacts
<1>2. Consistent' /\ \A j \in Live' : j \in Live \/ mem[j] = Blank
  BY CreateConsistent
<1>3. WhileRunning'
  BY <1>1, <1>2 DEF Consistent
<1>4. NumbersKept'
  BY <1>0, NumbersCreate
<1>5. \A s \in Places : HeldAt(i, s) = 0
  BY <1>1, BlankHoldsNothing
<1>6. \A j \in Inodes, s \in Places : HeldAt(j, s)' \in {0, HeldAt(j, s)}
  <2>. PICK P : P = Inodes
    OBVIOUS
  <2>. QED
    BY <1>1, BetweenKeepsHeld DEF Ownership
<1>7. \A j \in Inodes : \/ mem'[j] = mem[j]
                        \/ \A s \in Places : HeldAt(j, s) = 0 /\ HeldAt(j, s)' = 0
  BY <1>1, <1>5, <1>6
<1>8. \A j \in Live' : j \in Live \/ \A s \in Places : HeldAt(j, s)' = 0
  <2>. SUFFICES ASSUME NEW j \in Live', mem[j] = Blank
                PROVE  \A s \in Places : HeldAt(j, s)' = 0
    BY <1>2
  <2>1. j \in Inodes
    BY LiveNext
  <2>2. \A s \in Places : HeldAt(j, s) = 0
    BY BlankHoldsNothing
  <2>. QED
    BY <1>6, <2>1, <2>2
<1>9. bmap' = bmap /\ pc \notin WriteSteps \cup TruncSteps /\ pc' \notin WriteSteps \cup TruncSteps
  BY <1>1 DEF CreateInode, WriteSteps, TruncSteps
<1>10. BlocksKept' /\ Tight(Live)' /\ Wanted(Live)'
  BY <1>0, <1>1, <1>3, <1>4, <1>7, <1>8, <1>9, AccountQuiet DEF WhileRunning
<1>11. EmptyFirst'
  BY EmptyCreate
<1>. QED
  BY <1>3, <1>4, <1>10, <1>11 DEF Accounted

\* The inodes in use are inodes.
LEMMA LiveInodes == ASSUME TypeOK PROVE Live \subseteq Inodes
<1>0. \A c \in Call : c.in \in Inodes
  BY DEF Call
<1>1. (\A k \in DOMAIN todo : todo[k].in \in Inodes) /\ \A k \in DOMAIN onfail : onfail[k].in \in Inodes
  BY <1>0 DEF TypeOK
<1>. QED
  BY <1>1, ReachBasics DEF Live, Acting, Targets

\* A command begins, or finds no number left, and nothing is taken or given back.
LEMMA AccountStart ==
  ASSUME TypeOK, Ownership, Consistent, TypeOK', ~died, Accounted, Command \/ NoInode,
         Command => ~hurt'
  PROVE  Accounted'
<1>0. /\ NumbersKept /\ BlocksKept /\ Tight(Live) /\ Wanted(Live) /\ Live \subseteq Inodes
  BY LiveInodes DEF Accounted
<1>1. /\ UNCHANGED <<imap, bmap, dino, blk, mem>> /\ pc \in {"idle", "create"}
      /\ pc' \in {"ready", "create"} /\ todo = <<>>
  BY CommandStarts DEF NoInode, CanStart, disk, Ownership, Stands, StandsBetween
<1>2. Consistent' /\ Live' \subseteq Live /\ EmptyFirst'
  <2>1. CASE Command
    BY <2>1, CommandConsistent, EmptyCommand DEF Live
  <2>2. CASE NoInode
    <3>1. todo' = <<>> /\ pc # "idle"
      BY <1>1, <2>2 DEF NoInode
    <3>. QED
      BY <2>2, <3>1, NoInodeConsistent DEF Busy, EmptyFirst
  <2>. QED
    BY <2>1, <2>2
<1>3. WhileRunning'
  BY <1>1, <1>2 DEF Consistent
<1>4. NumbersKept'
  BY <1>0, <1>1, NumbersQuiet
<1>5. pc \notin WriteSteps \cup TruncSteps /\ pc' \notin WriteSteps \cup TruncSteps
  BY <1>1 DEF WriteSteps, TruncSteps
<1>6. BlocksKept' /\ Tight(Live)' /\ Wanted(Live)'
  BY <1>0, <1>1, <1>2, <1>3, <1>4, <1>5, AccountQuiet DEF WhileRunning
<1>. QED
  BY <1>2, <1>3, <1>4, <1>6 DEF Accounted

\* The process exits: what it had in memory is what the disk has.
LEMMA AccountExit ==
  ASSUME TypeOK, Ownership, Consistent, UnsyncedIsDirty, TypeOK', ~died, Accounted, Exit
  PROVE  Accounted'
<1>0. /\ NumbersKept /\ BlocksKept /\ Tight(Live) /\ Wanted(Live) /\ WhileRunning
      /\ Live \subseteq Inodes
  BY LiveInodes DEF Accounted
<1>1. /\ UNCHANGED <<imap, bmap, dino, blk>> /\ pc = "ready" /\ pc' = "idle"
      /\ todo = <<>> /\ todo' = <<>> /\ onfail' = <<>> /\ dirty = {} /\ mem' = dino'
  BY DEF Exit, Gone, disk
<1>2. \A i \in Inodes : mem'[i] = mem[i]
  BY <1>1 DEF UnsyncedIsDirty
<1>3. pc \notin WriteSteps \cup TruncSteps /\ pc' \notin WriteSteps \cup TruncSteps
      /\ pc \notin Loaded \cup {"csum"} /\ pc' \notin Loaded \cup {"csum"}
  BY <1>1 DEF WriteSteps, TruncSteps, Loaded
<1>4. Live' \subseteq Live
  BY <1>1, ReachSame DEF Live, Acting, Targets
<1>5. ASSUME NEW i \in Live'
      PROVE  /\ i \in Live /\ i \in Inodes /\ \A s : HeldAt(i, s)' = HeldAt(i, s)
             /\ Extent(i)' = Extent(i) /\ (\A l : ~Cleared(i, l) /\ ~Cleared(i, l)')
  <2>1. i \in Live /\ i \in Inodes /\ mem'[i] = mem[i]
    BY <1>0, <1>2, <1>4
  <2>2. \A s : HeldAt(i, s)' = HeldAt(i, s)
    BY <1>1, <1>3, <2>1, QuietHeld
  <2>3. Extent(i)' = Extent(i)
    BY <1>3, <2>1 DEF Extent
  <2>4. \A l : ~Cleared(i, l) /\ ~Cleared(i, l)'
    BY <1>3 DEF Cleared
  <2>. QED
    BY <2>1, <2>2, <2>3, <2>4
<1>6. Owned(Live)'
  BY <1>0, <1>1, <1>5 DEF WhileRunning, Owned
<1>7. Filled(Live)'
  BY <1>0, <1>5 DEF WhileRunning, Filled, Blocks
<1>8. DiskBehind'
  <2>. SUFFICES ASSUME NEW i \in Live' PROVE OnDisk(i)'
    BY DEF DiskBehind
  <2>1. OnDisk(i)
    BY <1>0, <1>1, <1>5, NothingLeft DEF WhileRunning, DiskBehind
  <2>. QED
    BY <1>1, <1>5, <2>1, SameOnDisk
<1>9. UnmarkedBlank'
  BY <1>0, <1>1, <1>2, NothingLeft DEF WhileRunning, UnmarkedBlank, Blank
<1>10. NumbersKept'
  BY <1>0, <1>1, NumbersQuiet
<1>11. BlocksKept' /\ Tight(Live)' /\ Wanted(Live)'
  BY <1>0, <1>1, <1>2, <1>3, <1>4, <1>9, <1>10, AccountQuiet
<1>12. EmptyFirst'
  BY <1>1 DEF EmptyFirst
<1>. QED
  BY <1>6, <1>7, <1>8, <1>9, <1>10, <1>11, <1>12 DEF Accounted, WhileRunning

\* Nothing is lost sight of as long as no process dies.
LEMMA AccountNext ==
  ASSUME TypeOK, Ownership, Consistent, UnsyncedIsDirty, FreshIsZero, DotsFirst, EntriesPlaced,
         Accounted, TypeOK', Next, ~hurt'
  PROVE  Accounted'
<1>. SUFFICES ASSUME ~died' PROVE Accounted'
  BY DEF Accounted
<1>1. CASE Command \/ NoInode
  <2>1. ~died
    BY <1>1 DEF Command, StartWrite, StartCreate, StartRemove, Start, NoInode, command
  <2>. QED
    BY <1>1, <2>1, AccountStart
<1>2. CASE WriteStep \/ TruncStep
  <2>1. Busy
    BY <1>2, DataBusy
  <2>2. ~died
    BY <1>2, <2>1, DataStepKeeps DEF command, Busy
  <2>. QED
    BY <1>2, <2>1, <2>2, AccountData
<1>3. CASE ReleaseInode \/ SyncInode
  <2>1. Busy /\ ~died
    BY <1>3 DEF ReleaseInode, SyncInode, Running, command, Busy
  <2>. QED
    BY <1>3, <2>1, AccountRelease, AccountSync
<1>4. CASE CreateInode
  BY <1>4, AccountCreate DEF CreateInode, command
<1>5. CASE Exit
  BY <1>5, AccountExit DEF Exit
<1>6. CASE NoInodeBlock \/ AssertionFails \/ Crash
  BY <1>6 DEF NoInodeBlock, AssertionFails, Crash
<1>. QED
  BY <1>1, <1>2, <1>3, <1>4, <1>5, <1>6, NoLeftovers DEF Next, Step, Ownership

\* The new image: the root directory and its block are all there is.
LEMMA AccountInit == Init => Accounted
<1>. SUFFICES ASSUME Init PROVE Accounted
  OBVIOUS
<1>0. /\ dino = [i \in Inodes |-> IF i = 0 THEN RootInode ELSE Blank] /\ mem = dino
      /\ 0 \in Inodes /\ pc = "idle" /\ todo = <<>> /\ onfail = <<>>
      /\ dino[0].type = "dir" /\ dino[0].size = 2 /\ dino[0].direct[0] = DataStart
      /\ Reachable \subseteq {0} /\ OnDisk(0) /\ imap = {0} /\ bmap = {DataStart}
  BY NewImage DEF Init
<1>1. mem[0].ind = 0 /\ \A l \in 0 .. (NrDirect - 1) : mem[0].direct[l] # 0 => l = 0
  <2>1. Blank.ind = 0 /\ Blank.direct = [l \in 0 .. (NrDirect - 1) |-> 0]
    BY DEF Blank
  <2>2. RootInode.ind = Blank.ind /\ RootInode.direct = [Blank.direct EXCEPT ![0] = DataStart]
    BY DEF RootInode, Blank
  <2>3. mem[0] = RootInode
    BY <1>0
  <2>. QED
    BY <2>1, <2>2, <2>3
<1>2. Live = {0}
  BY <1>0, ReachBasics DEF Live, Acting, Targets
<1>3. 0 \in Places /\ HeldAt(0, 0) = DataStart
  <2>1. 0 \in Places /\ 0 < NrDirect
    BY PlacesInt, FileStoreAssumption
  <2>. QED
    BY <1>0, <2>1, HeldCases
<1>4. ASSUME NEW s \in Places, HeldAt(0, s) # 0 PROVE s = 0
  <2>1. s # -1
    BY <1>1, <1>4, HeldCases
  <2>2. s < NrDirect
    <3>1. s < NrDirect \/ s >= NrDirect
      BY PlacesInt, FileStoreAssumption
    <3>. QED
      BY <1>1, <1>4, <3>1, HeldCases
  <2>3. s \in 0 .. (NrDirect - 1)
    <3>1. NrDirect \in Nat /\ NrLogical \in Int
      BY FileStoreAssumption DEF NrLogical, NrIndirect
    <3>. QED
      BY <2>1, <2>2, <3>1 DEF Places
  <2>4. HeldAt(0, s) = mem[0].direct[s]
    BY <2>1, <2>2, HeldCases
  <2>. QED
    BY <1>1, <1>4, <2>3, <2>4
<1>5. Extent(0) = 2 /\ (\A l : ~Cleared(0, l))
  BY <1>0 DEF Extent, Cleared, WriteSteps, TruncSteps
<1>6. Owned(Live)
  BY <1>0, <1>2, <1>3, <1>4 DEF Owned
<1>7. Filled(Live)
  <2>1. ASSUME NEW l \in 0 .. (Blocks(2) - 1) PROVE l < NrLogical /\ HeldAt(0, l) # 0
    <3>1. l < NrLogical /\ BlockAt(dino[0], l) # 0
      BY <1>0 DEF OnDisk, HasItsBlocks
    <3>2. l \in Nat
      BY BlocksNat
    <3>3. l \in Places /\ l # -1
      BY <3>1, <3>2, LogicalPlace
    <3>4. RefAt(dino[0], l) = BlockAt(dino[0], l)
      BY <3>3 DEF RefAt
    <3>. QED
      BY <1>0, <3>1, <3>3, <3>4 DEF OnDisk
  <2>. QED
    BY <1>2, <1>5, <2>1 DEF Filled
<1>8. DiskBehind /\ UnmarkedBlank
  BY <1>0, <1>2 DEF DiskBehind, UnmarkedBlank
<1>9. NumbersKept /\ BlocksKept
  BY <1>0, <1>2, <1>3, ReachBasics DEF NumbersKept, BlocksKept
<1>10. Tight(Live)
  <2>1. 0 < Blocks(2)
    <3>1. 0 \div BlockSize = 0
      BY FileStoreAssumption
    <3>2. 0 \in Nat /\ 2 \in Nat /\ 0 < 2
      OBVIOUS
    <3>. QED
      BY <3>1, <3>2, CellBlock
  <2>2. \A l \in 0 .. (NrLogical - 1) : l \in Places
    BY LogicalPlace, PlacesInt
  <2>. QED
    BY <1>2, <1>4, <1>5, <2>1, <2>2 DEF Tight
<1>11. Wanted(Live) /\ EmptyFirst
  BY <1>0, <1>1, <1>2 DEF Wanted, EmptyFirst
<1>. QED
  BY <1>6, <1>7, <1>8, <1>9, <1>10, <1>11 DEF Accounted, WhileRunning

\* A step that changes nothing keeps it.
LEMMA AccountSame == ASSUME Accounted, UNCHANGED vars PROVE Accounted'
<1>1. UNCHANGED <<imap, bmap, dino, blk, mem, dirty, pc, todo, onfail, at, ibuf, died>>
  BY DEF vars, disk, plan, regs, command
<1>2. Reachable' = Reachable /\ Dirs' = Dirs
  BY <1>1, ReachSame
<1>3. Cur' = Cur
  BY <1>1, SameCall
<1>4. Live' = Live
  BY <1>1, <1>2 DEF Live, Acting, Targets
<1>5. \A i, s : HeldAt(i, s)' = HeldAt(i, s)
  BY <1>1, <1>3, Zenon DEF HeldAt, Table
<1>6. \A i : Known(i)' = Known(i) /\ \A k : MemCell(i, k)' = MemCell(i, k)
  BY <1>1, <1>3, <1>5, Zenon DEF Known, MemCell
<1>7. \A i : /\ OnDisk(i)' <=> OnDisk(i)
             /\ Closing(i)' <=> Closing(i)
             /\ Extent(i)' = Extent(i)
             /\ \A l : (Cleared(i, l)' <=> Cleared(i, l)) /\ (Mapping(i, l)' <=> Mapping(i, l))
  <2>1. \A i : OnDisk(i)' <=> OnDisk(i)
    BY <1>1, <1>5 DEF OnDisk, RefAt, BlockAt, HasItsBlocks, Blocks
  <2>2. \A i : Closing(i)' <=> Closing(i)
    BY <1>1, <1>3 DEF Closing, Window
  <2>3. \A i : Extent(i)' = Extent(i) /\ \A l : Cleared(i, l)' <=> Cleared(i, l)
    BY <1>1, <1>3 DEF Extent, Cleared, First, Blocks
  <2>4. \A i, l : Mapping(i, l)' <=> Mapping(i, l)
    BY <1>1, <1>3 DEF Mapping, Log
  <2>. QED
    BY <2>1, <2>2, <2>3, <2>4
<1>8. WhileRunning => WhileRunning'
  <2>. SUFFICES ASSUME WhileRunning PROVE WhileRunning'
    OBVIOUS
  <2>0. Owned(Live) /\ Filled(Live) /\ DiskBehind /\ UnmarkedBlank
    BY DEF WhileRunning
  <2>1. Owned(Live)'
    BY <1>1, <1>4, <1>5, <2>0 DEF Owned
  <2>2. Filled(Live)'
    BY <1>4, <1>5, <1>7, <2>0 DEF Filled, Blocks
  <2>3. DiskBehind' /\ UnmarkedBlank'
    BY <1>1, <1>4, <1>7, <2>0 DEF DiskBehind, UnmarkedBlank
  <2>. QED
    BY <2>1, <2>2, <2>3 DEF WhileRunning
<1>9. NumbersKept => NumbersKept'
  <2>1. \A x : Releasing(x)' <=> Releasing(x)
    BY <1>1 DEF Releasing
  <2>2. \A p, x : Arriving(p, x)' <=> Arriving(p, x)
    BY <1>1, <1>6 DEF Arriving
  <2>. QED
    BY <1>1, <1>2, <2>1, <2>2 DEF NumbersKept
<1>10. BlocksKept => BlocksKept'
  BY <1>1, <1>4, <1>5 DEF BlocksKept
<1>11. Tight(Live) => Tight(Live)'
  BY <1>4, <1>5, <1>7 DEF Tight, Blocks
<1>12. Wanted(Live) => Wanted(Live)'
  BY <1>1, <1>3, <1>4, <1>7 DEF Wanted
<1>13. EmptyFirst => EmptyFirst'
  BY <1>1, <1>2, <1>3, <1>6 DEF EmptyFirst, Inode
<1>. QED
  BY <1>1, <1>8, <1>9, <1>10, <1>11, <1>12, <1>13 DEF Accounted

\* Where no process runs, memory and disk are the same, and so is what they hold.
LEMMA AtRest ==
  ASSUME TypeOK, Ownership, Accounted, pc = "idle", ~died, NEW i \in Reachable
  PROVE  /\ Live = Reachable /\ i \in Inodes /\ mem[i] = dino[i] /\ todo = <<>>
         /\ Extent(i) = dino[i].size /\ OnDisk(i)
         /\ \A s \in Places : RefAt(dino[i], s) = HeldAt(i, s)
<1>1. todo = <<>> /\ onfail = <<>> /\ mem = dino
  BY DEF Ownership, Stands, StandsBetween
<1>2. Live = Reachable
  BY <1>1 DEF Live, Acting, Targets
<1>3. Extent(i) = dino[i].size
  BY <1>1 DEF Extent, WriteSteps
<1>4. OnDisk(i)
  BY <1>1, <1>2, NothingLeft DEF Accounted, WhileRunning, DiskBehind
<1>5. \A s \in Places : RefAt(dino[i], s) = HeldAt(i, s)
  BY <1>1, Zenon DEF RefAt, HeldAt, BlockAt, Table, Loaded
<1>. QED
  BY <1>1, <1>2, <1>3, <1>4, <1>5, ReachBasics

\* Then checkfs counts the blocks that the size of an inode covers.
LEMMA CountedBlocks ==
  ASSUME TypeOK, Ownership, Accounted, pc = "idle", ~died, NEW i \in Reachable
  PROVE  /\ Counted(dino[i]) = 0 .. (Blocks(dino[i].size) - 1)
         /\ Blocks(dino[i].size) \in Nat
         /\ \A l \in Counted(dino[i]) :
              l \in Places /\ HeldAt(i, l) = BlockAt(dino[i], l) /\ HeldAt(i, l) # 0
<1>0. /\ Live = Reachable /\ i \in Inodes /\ Extent(i) = dino[i].size /\ OnDisk(i)
      /\ \A s \in Places : RefAt(dino[i], s) = HeldAt(i, s)
  BY AtRest
<1>1. dino[i].size \in Nat /\ Blocks(dino[i].size) \in Nat
  BY <1>0, SizeNat, BlocksNat
<1>2. ASSUME NEW l \in Nat, l < NrLogical
      PROVE  l \in Places /\ HeldAt(i, l) = BlockAt(dino[i], l)
  BY <1>0, <1>2, LogicalPlace DEF RefAt
<1>3. ASSUME NEW l \in Nat, l < Blocks(dino[i].size)
      PROVE  l < NrLogical /\ BlockAt(dino[i], l) # 0
  BY <1>0, <1>1, <1>3 DEF OnDisk, HasItsBlocks
<1>4. ASSUME NEW l \in Nat, l < NrLogical, BlockAt(dino[i], l) # 0
      PROVE  l < Blocks(dino[i].size)
  <2>1. l \in 0 .. (NrLogical - 1) /\ HeldAt(i, l) # 0
    BY <1>2, <1>4, PlacesInt
  <2>2. ~Mapping(i, l)
    BY DEF Mapping
  <2>. QED
    BY <1>0, <2>1, <2>2 DEF Accounted, Tight
<1>5. NrLogical \in Int
  BY FileStoreAssumption DEF NrLogical, NrIndirect
<1>6. ASSUME NEW l \in Counted(dino[i])
      PROVE  l \in Nat /\ l < NrLogical /\ BlockAt(dino[i], l) # 0
  <2>1. l \in Nat /\ l < NrLogical /\ l \in 0 .. l
    BY <1>5 DEF Counted
  <2>. QED
    BY <2>1 DEF Counted
<1>7. ASSUME NEW l \in 0 .. (Blocks(dino[i].size) - 1)
      PROVE  l \in Counted(dino[i])
  <2>1. l \in Nat /\ l < Blocks(dino[i].size)
    BY <1>1
  <2>2. l \in 0 .. (NrLogical - 1)
    BY <1>3, <1>5, <2>1
  <2>3. ASSUME NEW m \in 0 .. l PROVE BlockAt(dino[i], m) # 0
    BY <1>1, <1>3, <2>1
  <2>. QED
    BY <2>2, <2>3 DEF Counted
<1>8. Counted(dino[i]) = 0 .. (Blocks(dino[i].size) - 1)
  <2>1. ASSUME NEW l \in Counted(dino[i]) PROVE l \in 0 .. (Blocks(dino[i].size) - 1)
    <3>1. l \in Nat /\ l < Blocks(dino[i].size)
      BY <1>4, <1>6
    <3>. QED
      BY <1>1, <3>1
  <2>. QED
    BY <1>7, <2>1
<1>. QED
  BY <1>1, <1>2, <1>6, <1>8

\* It visits every place that holds a block.
LEMMA VisitedBlocks ==
  ASSUME TypeOK, Ownership, Accounted, pc = "idle", ~died, NEW i \in Reachable
  PROVE  \A b : b \in Visited(dino[i]) <=> b # 0 /\ \E s \in Places : HeldAt(i, s) = b
<1>0. /\ Live = Reachable /\ i \in Inodes /\ mem[i] = dino[i] /\ Extent(i) = dino[i].size
      /\ \A s \in Places : RefAt(dino[i], s) = HeldAt(i, s)
  BY AtRest
<1>1. /\ Counted(dino[i]) = 0 .. (Blocks(dino[i].size) - 1) /\ Blocks(dino[i].size) \in Nat
      /\ \A l \in Counted(dino[i]) :
           l \in Places /\ HeldAt(i, l) = BlockAt(dino[i], l) /\ HeldAt(i, l) # 0
  BY CountedBlocks
<1>2. -1 \in Places /\ HeldAt(i, -1) = dino[i].ind
  BY <1>0, PlacesInt, HeldCases
<1>3. ASSUME NEW b \in Visited(dino[i]) PROVE b # 0 /\ \E s \in Places : HeldAt(i, s) = b
  BY <1>1, <1>2, <1>3 DEF Visited
<1>4. ASSUME NEW s \in Places, HeldAt(i, s) # 0 PROVE HeldAt(i, s) \in Visited(dino[i])
  <2>1. CASE s # -1
    <3>1. s \in 0 .. (NrLogical - 1)
      BY <2>1, PlacesInt DEF Places
    <3>2. ~Mapping(i, s)
      BY DEF Mapping
    <3>3. s < Blocks(dino[i].size)
      BY <1>0, <1>4, <3>1, <3>2 DEF Accounted, Tight
    <3>4. s \in Counted(dino[i])
      BY <1>1, <3>1, <3>3
    <3>. QED
      BY <1>1, <3>4 DEF Visited
  <2>2. CASE s = -1
    <3>1. dino[i].ind # 0 /\ HeldAt(i, s) = dino[i].ind
      BY <1>2, <1>4, <2>2
    <3>2. NrDirect * BlockSize <= dino[i].size
      BY <1>0, <3>1 DEF Accounted, Wanted, TruncSteps
    <3>3. NrDirect - 1 < Blocks(dino[i].size)
      <4>0. /\ NrDirect \in Nat /\ NrDirect > 0 /\ BlockSize \in Nat /\ BlockSize > 0
            /\ dino[i].size \in Nat
        BY <1>0, SizeNat, FileStoreAssumption
      <4>. PICK k : k = NrDirect - 1
        OBVIOUS
      <4>1. k \in Nat /\ NrDirect = k + 1
        BY <4>0
      <4>2. NrDirect * BlockSize = BlockSize * k + BlockSize
        BY <4>0, <4>1
      <4>3. dino[i].size <= BlockSize * Blocks(dino[i].size)
        BY <4>0, BlocksCover
      <4>4. CASE Blocks(dino[i].size) <= k
        <5>1. BlockSize * Blocks(dino[i].size) <= BlockSize * k
          BY <1>1, <4>0, <4>1, <4>4
        <5>2. BlockSize * Blocks(dino[i].size) \in Nat /\ BlockSize * k \in Nat
          BY <1>1, <4>0, <4>1
        <5>. QED
          BY <3>2, <4>0, <4>2, <4>3, <5>1, <5>2
      <4>. QED
        BY <1>1, <4>0, <4>1, <4>4
    <3>4. NrDirect - 1 \in Counted(dino[i])
      BY <1>1, <3>3, FileStoreAssumption
    <3>. QED
      BY <3>1, <3>4 DEF Visited
  <2>. QED
    BY <2>1, <2>2
<1>. QED
  BY <1>3, <1>4

\* So checkfs finds nothing.
LEMMA CleanAtRest ==
  ASSUME TypeOK, Ownership, Consistent, Summed, Accounted
  PROVE  FsckClean
<1>. SUFFICES ASSUME pc = "idle", ~died PROVE FsckClean
  BY DEF FsckClean
<1>0. /\ todo = <<>> /\ mem = dino /\ Live = Reachable /\ Reachable \subseteq Inodes
  <2>1. mem = dino
    BY DEF Ownership, Stands, StandsBetween
  <2>2. 0 \in Reachable
    BY ReachBasics
  <2>3. todo = <<>> /\ Live = Reachable
    BY <2>2, AtRest
  <2>. QED
    BY <2>1, <2>3, ReachBasics
<1>1. Intact
  <2>1. Sound(Reachable)
    <3>. PICK P : P = Live
      OBVIOUS
    <3>1. Owned(P) /\ P \in SUBSET P /\ \A i \in P : OnDisk(i)
      BY <1>0, AtRest DEF Accounted, WhileRunning
    <3>. QED
      BY <1>0, <3>1, SoundOnDisk
  <2>2. \A i \in Reachable : HasItsBlocks(dino[i])
    BY AtRest DEF OnDisk
  <2>3. \A i \in Inodes \ imap : dino[i] = Blank
    BY <1>0 DEF Accounted, WhileRunning, UnmarkedBlank
  <2>. QED
    BY <2>1, <2>2, <2>3 DEF Intact
<1>2. imap = Reachable
  <2>1. Reachable \subseteq imap
    BY ReachableMarked DEF Ownership, Consistent
  <2>. QED
    BY <1>0, <2>1, NumbersUsed DEF Accounted
<1>3. bmap = UNION {Visited(dino[i]) : i \in Reachable}
  <2>1. ASSUME NEW b \in bmap PROVE \E i \in Reachable : b \in Visited(dino[i])
    <3>1. b # 0
      BY BlockNumbers, FileStoreAssumption DEF TypeOK, Phys
    <3>2. PICK i \in Live, s \in Places : HeldAt(i, s) = b
      BY DEF Accounted, BlocksKept
    <3>. QED
      BY <1>0, <3>1, <3>2, VisitedBlocks
  <2>2. ASSUME NEW i \in Reachable, NEW b \in Visited(dino[i]) PROVE b \in bmap
    <3>1. PICK s \in Places : HeldAt(i, s) = b /\ b # 0
      BY VisitedBlocks
    <3>. QED
      BY <1>0, <3>1 DEF Accounted, WhileRunning, Owned
  <2>. QED
    BY <2>1, <2>2
<1>4. ASSUME NEW i \in Reachable
      PROVE  /\ dino[i].type \in {"file", "dir"}
             /\ Cardinality(Counted(dino[i])) = Blocks(dino[i].size)
             /\ {dino[i].direct[l] : l \in 0 .. (NrDirect - 1)} \ {0} \subseteq summed
  <2>1. dino[i].type \in {"file", "dir"}
    <3>1. dino[i].type # "none"
      BY <1>0 DEF Consistent, Typed
    <3>2. dino[i] \in Dinode
      BY <1>0 DEF TypeOK
    <3>. QED
      BY <3>1, <3>2 DEF Dinode, Types
  <2>2. Cardinality(Counted(dino[i])) = Blocks(dino[i].size)
    <3>1. Counted(dino[i]) = 0 .. (Blocks(dino[i].size) - 1) /\ Blocks(dino[i].size) \in Nat
      BY CountedBlocks
    <3>2. ASSUME NEW n \in Nat PROVE Cardinality(0 .. (n - 1)) = n
      <4>1. Cardinality(0 .. (n - 1)) = IF 0 > n - 1 THEN 0 ELSE (n - 1) - 0 + 1
        BY FS_Interval
      <4>. QED
        BY <4>1
    <3>. QED
      BY <3>1, <3>2
  <2>3. ASSUME NEW l \in 0 .. (NrDirect - 1), dino[i].direct[l] # 0
        PROVE  dino[i].direct[l] \in summed
    <3>1. ~Unsummed(i, l)
      BY <1>0 DEF Unsummed
    <3>. QED
      BY <1>0, <2>3, <3>1 DEF Summed
  <2>. QED
    BY <2>1, <2>2, <2>3
<1>. QED
  BY <1>1, <1>2, <1>3, <1>4 DEF FsckClean

\* No command starts on a damaged image but after a death: while no process has died, the
\* next command finds what checkfs finds, and that is nothing.
LEMMA HurtByDeath ==
  ASSUME TypeOK, hurt \/ Ownership, Consistency, hurt \/ Summed, hurt \/ Accounted,
         hurt => died, Next
  PROVE  hurt' => died'
<1>1. CASE Command
  <2>1. ASSUME ~died PROVE Intact
    <3>1. pc = "idle"
      BY <1>1 DEF Command, StartWrite, StartCreate, StartRemove, CanStart
    <3>. QED
      BY <2>1, <3>1, CleanAtRest DEF Consistency, FsckClean
  <2>2. died' = died /\ hurt' = (hurt \/ ~Intact)
    BY <1>1 DEF Command, StartWrite, StartCreate, StartRemove, Start
  <2>. QED
    BY <2>1, <2>2
<1>2. CASE WriteStep \/ TruncStep
  BY <1>2, DataStepKeeps DEF command
<1>3. CASE Crash \/ Exit \/ AssertionFails \/ NoInodeBlock \/ LeftoversAssert
  BY <1>3 DEF Crash, Exit, AssertionFails, NoInodeBlock, LeftoversAssert, Gone
<1>4. CASE ReleaseInode \/ SyncInode \/ CreateInode \/ NoInode \/ LeftoversExist
  BY <1>4 DEF ReleaseInode, SyncInode, CreateInode, NoInode, LeftoversExist, command
<1>. QED
  BY <1>1, <1>2, <1>3, <1>4 DEF Next, Step

\* As long as no process has died, every number that is marked is that of an inode a path
\* leads to, or one that a command has still to name or to give back; every block that is
\* marked is held by an inode in use, at a place its size covers; what is released is empty;
\* and no command has started on a damaged image.
THEOREM AccountInvariant == Spec => []((hurt \/ Accounted) /\ (hurt => died))
<1>1. Init => (hurt \/ Accounted) /\ (hurt => died)
  BY AccountInit DEF Init
<1>2. /\ TypeOK /\ (hurt \/ Ownership) /\ Consistency /\ UnsyncedIsDirty
      /\ (hurt \/ FreshIsZero) /\ (hurt \/ DotsFirst) /\ EntriesFit /\ (hurt \/ Summed)
      /\ (hurt \/ Accounted) /\ (hurt => died) /\ TypeOK' /\ [Next]_vars
      => ((hurt \/ Accounted) /\ (hurt => died))'
  <2>1. ASSUME UNCHANGED vars PROVE hurt' = hurt /\ died' = died
    BY <2>1 DEF vars, command
  <2>. QED
    BY <2>1, AccountNext, AccountSame, HurtByDeath, HurtStays DEF Consistency, EntriesFit
<1>. QED
  BY <1>1, <1>2, TypeCorrect, OwnershipInvariant, ConsistencyInvariant, NoChangeLost,
     FreshBlocksAreZero, DirectoriesHaveDots, EntriesAreKept, SumsInvariant, PTL DEF Spec

\* As long as no process has died, checkfs finds nothing between two commands: whatever
\* failed on the way, no block is used twice, no number and no block is lost, every file
\* has the blocks of its size, and the checksums it verifies hold.
THEOREM ImagesAreClean == Spec => []FsckClean
<1>1. /\ TypeOK /\ (hurt \/ Ownership) /\ Consistency /\ (hurt \/ Summed)
      /\ (hurt \/ Accounted) /\ (hurt => died)
      => FsckClean
  BY CleanAtRest DEF Consistency, FsckClean
<1>. QED
  BY <1>1, TypeCorrect, OwnershipInvariant, ConsistencyInvariant, SumsInvariant,
     AccountInvariant, PTL

\* As long as no process has died, the checksum table lags behind by the block that has
\* just been written and no other.
THEOREM ChecksumsAreKept == Spec => []ChecksumsKeepUp
<1>1. /\ TypeOK /\ (hurt \/ Ownership) /\ Consistency /\ (hurt \/ Summed) /\ (hurt => died)
      => ChecksumsKeepUp
  BY SumsOnDisk DEF Consistency, ChecksumsKeepUp
<1>. QED
  BY <1>1, TypeCorrect, OwnershipInvariant, ConsistencyInvariant, SumsInvariant,
     AccountInvariant, PTL
=============================================================================
