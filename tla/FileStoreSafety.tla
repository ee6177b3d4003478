-------------------------- MODULE FileStoreSafety ---------------------------
(***************************************************************************)
(* What FileStore promises, from the invariants Ownership and Consistent,  *)
(* most of it until a command starts on an image that a crash has damaged: *)
(* what the disk holds wherever the process dies, which assertions of the  *)
(* code do not fail, that every block a checksum is verified of has it,    *)
(* that a new block shows nothing of its past, and what a directory keeps. *)
(***************************************************************************)
EXTENDS FileStoreConsistency
-----------------------------------------------------------------------------
\* What a directory names is marked, and has its type unless it is being created.
LEMMA MarkedNames ==
  ASSUME TypeOK, Ownership, Consistent
  PROVE  NamedAreMarked
<1>1. Reachable \subseteq imap
  BY ReachableMarked DEF Ownership, Consistent
<1>. QED
  BY <1>1 DEF NamedAreMarked, Consistent, Typed

\* Until a command starts on a damaged image: wherever a process dies, a directory entry on
\* the disk names an inode number that is marked, and the inode has its type, or the process
\* that creates it has still to write it.
THEOREM NamesAreMarked == Spec => []NamedAreMarked
<1>1. TypeOK /\ (hurt \/ Ownership) /\ Consistency => NamedAreMarked
  BY MarkedNames DEF Consistency, NamedAreMarked
<1>. QED
  BY <1>1, TypeCorrect, OwnershipInvariant, ConsistencyInvariant, PTL

\* What the disk has of an inode is part of what the process holds.
LEMMA SoundOnDisk ==
  ASSUME NEW P, Owned(P), NEW I \in SUBSET P, \A i \in I : OnDisk(i)
  PROVE  Sound(I)
<1>1. \A i \in I, s \in Places : RefAt(dino[i], s) \in {0, HeldAt(i, s)} /\ i \in P
  BY DEF OnDisk
<1>2. \A i \in I : Refs(dino[i]) \subseteq bmap
  BY <1>1 DEF Refs, Owned
<1>3. ASSUME NEW i \in I, NEW j \in I, NEW s \in Places, NEW t \in Places,
             RefAt(dino[i], s) # 0, RefAt(dino[i], s) = RefAt(dino[j], t)
      PROVE  i = j /\ s = t
  <2>1. HeldAt(i, s) # 0 /\ HeldAt(i, s) = HeldAt(j, t) /\ i \in P /\ j \in P
    BY <1>1, <1>3
  <2>. QED
    BY <2>1 DEF Owned
<1>4. \A i \in I : \A s, t \in Places :
        s # t /\ RefAt(dino[i], s) # 0 => RefAt(dino[i], s) # RefAt(dino[i], t)
  BY <1>3
<1>5. \A i, j \in I : i # j => Refs(dino[i]) \cap Refs(dino[j]) = {}
  <2>. SUFFICES ASSUME NEW i \in I, NEW j \in I, NEW b, b \in Refs(dino[i]), b \in Refs(dino[j])
                PROVE  i = j
    OBVIOUS
  <2>. PICK s \in Places, t \in Places :
         b = RefAt(dino[i], s) /\ b = RefAt(dino[j], t) /\ b # 0
    BY DEF Refs
  <2>1. RefAt(dino[i], s) # 0 /\ RefAt(dino[i], s) = RefAt(dino[j], t)
    OBVIOUS
  <2>. QED
    BY <1>3, <2>1, Zenon
<1>. QED
  BY <1>2, <1>4, <1>5 DEF Sound

\* A process that dies leaves what the process had written of each of its inodes.
LEMMA SafeToCrash ==
  ASSUME TypeOK, Ownership, Consistent
  PROVE  CrashSafe
<1>. SUFFICES ASSUME pc # "idle" PROVE CrashSafe
  BY DEF CrashSafe
<1>0. Busy
  BY DEF Busy
<1>1. /\ Owned(Live) /\ DiskBehind /\ UnmarkedBlank /\ Reachable \subseteq Live
      /\ \A i : Closing(i) => Window(i)
  BY <1>0, BusyFacts DEF Closing
<1>. PICK I \in SUBSET Live : I = {i \in Reachable : ~Window(i)}
  BY <1>1
<1>2. \A i \in I : OnDisk(i)
  BY <1>1 DEF DiskBehind
<1>3. Sound(I)
  <2>. PICK P : P = Live
    OBVIOUS
  <2>. QED
    BY <1>1, <1>2, SoundOnDisk
<1>4. \A i \in I : HasItsBlocks(dino[i])
  BY <1>2 DEF OnDisk
<1>5. \A i \in Inodes \ imap : Window(i) \/ dino[i] = Blank
  BY <1>1 DEF UnmarkedBlank
<1>. QED
  BY <1>3, <1>4, <1>5 DEF CrashSafe

\* Until a command starts on a damaged image: wherever between two disk writes the process
\* dies, what it leaves on the disk has no block in two places, no reference to a block that
\* is not marked and no block missing, except in the one inode that is being cut back.
THEOREM CrashesAreSafe == Spec => []CrashSafe
<1>1. TypeOK /\ (hurt \/ Ownership) /\ Consistency => CrashSafe
  BY SafeToCrash DEF Consistency, CrashSafe
<1>. QED
  BY <1>1, TypeCorrect, OwnershipInvariant, ConsistencyInvariant, PTL
-----------------------------------------------------------------------------
(* What holds on any image: an inode has the blocks that it holds itself.  *)

\* Between two calls there is no place to be at.
LEMMA AtRestWork ==
  ASSUME pc' \in {"idle", "create", "ready"}, at' = 0
  PROVE  AtWork'
BY DEF AtWork, WriteSteps, TruncSteps

\* An inode that does not change, when it is not the one that is worked on.
LEMMA OwnElse ==
  ASSUME NEW i \in Inodes, KeepsOwn(i), mem'[i] = mem[i],
         i # Cur.in \/ pc \notin WriteSteps \cup TruncSteps,
         (i # Cur.in)' \/ pc' \notin WriteSteps \cup TruncSteps
  PROVE  KeepsOwn(i)'
<1>1. Extent(i) = mem[i].size /\ Extent(i)' = mem[i].size
  BY DEF Extent
<1>2. \A l : ~Cleared(i, l)
  BY DEF Cleared
<1>. QED
  BY <1>1, <1>2 DEF KeepsOwn, Blocks

\* What the process works on, and with what.
LEMMA WorkFacts ==
  ASSUME TypeOK, WriteStep \/ TruncStep, NEW j \in Inodes, j = Cur.in
  PROVE  /\ todo # <<>> /\ Inode = mem[j] /\ mem \in [Inodes -> Dinode] /\ mem[j] \in Dinode
         /\ at \in Nat /\ Log \in Nat /\ mem[j].size \in Nat /\ Cur.off \in Nat
         /\ mem[j].direct \in [0 .. (NrDirect - 1) -> Phys \cup {0}]
         /\ \A d : SetInode(d) => mem'[j] = d
         /\ \A b \in Phys : b # 0
<1>1. todo # <<>> /\ Inode = mem[j] /\ mem \in [Inodes -> Dinode] /\ mem[j] \in Dinode
  BY DataStepKeeps DEF TypeOK, Inode
<1>2. at \in Nat /\ Log \in Nat /\ Cur.off \in Nat
  BY <1>1, Current, LogNat DEF TypeOK
<1>. QED
  BY <1>1, <1>2, Sizes DEF Dinode, SetInode

\* A write takes no block from its inode.
LEMMA WriteKeepsOwn ==
  ASSUME TypeOK, WriteStep, NEW j \in Inodes, j = Cur.in
  PROVE  /\ \A l \in 0 .. (NrDirect - 1) : mem[j].direct[l] # 0 => mem'[j].direct[l] # 0
         /\ mem[j].ind # 0 => mem'[j].ind # 0
<1>0. /\ Inode = mem[j] /\ mem[j] \in Dinode /\ \A d : SetInode(d) => mem'[j] = d
      /\ \A b \in Phys : b # 0
      /\ mem[j].direct \in [0 .. (NrDirect - 1) -> Phys \cup {0}]
  BY WorkFacts
<1>1. CASE MapDirect
  <2>. PICK b \in Phys : SetInode([Inode EXCEPT !.direct = [@ EXCEPT ![Log] = b]])
    BY <1>1 DEF MapDirect
  <2>1. mem'[j] = [mem[j] EXCEPT !.direct = [@ EXCEPT ![Log] = b]]
    BY <1>0
  <2>2. mem'[j].direct = [mem[j].direct EXCEPT ![Log] = b] /\ mem'[j].ind = mem[j].ind
    BY <1>0, <2>1 DEF Dinode
  <2>. QED
    BY <1>0, <2>2
<1>2. CASE MapIndirect
  <2>. PICK b \in Phys : SetInode([Inode EXCEPT !.ind = b])
    BY <1>2 DEF MapIndirect
  <2>1. mem'[j] = [mem[j] EXCEPT !.ind = b]
    BY <1>0
  <2>. QED
    BY <1>0, <2>1 DEF Dinode
<1>3. CASE MapFails \/ WriteIndirectFails \/ StoreLastCsum
  <2>. PICK n : SetInode([Inode EXCEPT !.size = n])
    BY <1>3 DEF MapFails, WriteIndirectFails, Fail, StoreLastCsum
  <2>1. mem'[j] = [mem[j] EXCEPT !.size = n]
    BY <1>0
  <2>. QED
    BY <1>0, <2>1 DEF Dinode
<1>4. CASE \/ BeginWrite \/ MapExisting \/ ReadIndirect \/ MapChild \/ NoChild \/ WriteIndirect
           \/ StoreData \/ StoreCsum
  BY <1>4 DEF BeginWrite, MapExisting, ReadIndirect, MapChild, NoChild, WriteIndirect,
     StoreData, StoreCsum, SetNoInode
<1>. QED
  BY <1>1, <1>2, <1>3, <1>4 DEF WriteStep

\* A write maps a block before it counts it.
LEMMA OwnWrite ==
  ASSUME TypeOK, AtWork, WriteStep, NEW j \in Inodes, j = Cur.in, KeepsOwn(j)
  PROVE  KeepsOwn(j)'
<1>0. /\ todo # <<>> /\ Inode = mem[j] /\ at \in Nat /\ mem[j].size \in Nat /\ Cur.off \in Nat
      /\ pc \notin TruncSteps
  BY WorkFacts DEF WriteStep, BeginWrite, MapExisting, MapDirect, MapIndirect, ReadIndirect,
     MapChild, NoChild, WriteIndirect, MapFails, WriteIndirectFails, StoreData, StoreCsum,
     StoreLastCsum, Running, TruncSteps
<1>1. /\ \A l \in 0 .. (NrDirect - 1) : mem[j].direct[l] # 0 => mem'[j].direct[l] # 0
      /\ mem[j].ind # 0 => mem'[j].ind # 0
  BY WriteKeepsOwn
<1>2. \A l : ~Cleared(j, l)
  BY <1>0 DEF Cleared
<1>3. CASE Extent(j)' = Extent(j)
  BY <1>1, <1>2, <1>3 DEF KeepsOwn, Blocks
<1>4. CASE pc = "csum" /\ Extent(j)' = MaxOf(mem[j].size, Cur.off + at + Copied)
  <2>. PICK log \in Nat : log = Log
    BY <1>0, WorkFacts
  <2>1. Extent(j) = MaxOf(mem[j].size, Cur.off + at) /\ Cur.off + at \in Nat
    BY <1>0, <1>4 DEF Extent, WriteSteps
  <2>2. Extent(j) \in Nat /\ mem[j].size <= Extent(j) /\ Cur.off + at <= Extent(j)
    BY <1>0, <2>1 DEF MaxOf
  <2>. PICK m \in Nat : m = Blocks(Extent(j))
    BY <2>2, BlocksNat
  <2>3. Blocks(mem[j].size) <= m /\ Blocks(Cur.off + at) <= m
    BY <1>0, <2>1, <2>2, BlocksGrow
  <2>4. log <= m
    BY <2>1, <2>3, QuotientBlocks, BlocksNat DEF Log
  <2>5. Blocks(Cur.off + at + Copied) <= log + 1 /\ Cur.off + at + Copied \in Nat
    BY <1>0, CopiedWithin
  <2>6. Extent(j)' \in {mem[j].size, Cur.off + at + Copied}
    BY <1>4 DEF MaxOf
  <2>. PICK e \in Nat : e = Blocks(Extent(j)')
    BY <1>0, <2>5, <2>6, BlocksNat
  <2>7. e <= m \/ e <= log + 1
    BY <2>3, <2>5, <2>6
  <2>8. IF log < NrDirect THEN mem[j].direct[log] # 0 ELSE mem[j].ind # 0
    BY <1>0, <1>4 DEF AtWork
  <2>9. ASSUME NEW l \in 0 .. (NrDirect - 1), l < e
        PROVE  mem'[j].direct[l] # 0
    <3>1. l < m \/ l = log
      BY <2>4, <2>7, <2>9
    <3>2. mem[j].direct[l] # 0
      BY <1>2, <2>8, <2>9, <3>1, Sizes DEF KeepsOwn
    <3>. QED
      BY <1>1, <3>2
  <2>10. ASSUME e > NrDirect PROVE mem'[j].ind # 0
    <3>1. m > NrDirect \/ ~(log < NrDirect)
      BY <2>7, <2>10, Sizes
    <3>. QED
      BY <1>1, <2>8, <3>1 DEF KeepsOwn
  <2>11. Blocks(Extent(j))' = e
    BY DEF Blocks
  <2>. QED
    BY <2>9, <2>10, <2>11 DEF KeepsOwn
<1>. QED
  BY <1>0, <1>3, <1>4, ExtentMoves DEF AtWork

\* The place a write is at when it goes on.
LEMMA AtWorkWrite ==
  ASSUME TypeOK, AtWork, WriteStep
  PROVE  AtWork'
<1>. PICK j \in Inodes : j = Cur.in
  BY DataCall
<1>0. /\ Inode = mem[j] /\ mem[j] \in Dinode /\ Log \in Nat /\ mem[j].size \in Nat
      /\ \A d : SetInode(d) => mem'[j] = d
      /\ \A b \in Phys : b # 0
      /\ mem[j].direct \in [0 .. (NrDirect - 1) -> Phys \cup {0}] /\ todo # <<>>
      /\ NrDirect \in Nat
  BY WorkFacts, Sizes
<1>1. CASE \/ MapFails \/ WriteIndirectFails \/ StoreLastCsum
  BY <1>1, AtRestWork DEF MapFails, WriteIndirectFails, Fail, StoreLastCsum, Return
<1>2. CASE \/ BeginWrite \/ MapExisting \/ MapDirect \/ MapIndirect \/ ReadIndirect \/ MapChild
           \/ NoChild \/ WriteIndirect \/ StoreData
  <2>1. todo' = todo /\ at' = at /\ Cur.op = "write" /\ Cur.off <= Inode.size
    BY <1>2 DEF BeginWrite, MapExisting, MapDirect, MapIndirect, ReadIndirect, MapChild,
       NoChild, WriteIndirect, StoreData, plan, regs, Running, Cur, AtWork, WriteSteps
  <2>2. Cur' = Cur /\ Log' = Log /\ Inode' = mem'[j]
    BY <2>1 DEF Cur, Log, Inode
  <2>3. CASE BeginWrite
    BY <2>1, <2>2, <2>3, <1>0 DEF BeginWrite, AtWork, WriteSteps, TruncSteps
  <2>4. CASE MapExisting
    <3>1. IF Log < NrDirect THEN mem[j].direct[Log] # 0 ELSE mem[j].ind # 0
      BY <1>0, <2>4 DEF MapExisting, Mapped, BlockAt
    <3>. QED
      BY <1>0, <2>1, <2>2, <2>4, <3>1 DEF MapExisting, AtWork, WriteSteps, TruncSteps
  <2>5. CASE MapDirect
    <3>. PICK b \in Phys : SetInode([Inode EXCEPT !.direct = [@ EXCEPT ![Log] = b]])
      BY <2>5 DEF MapDirect
    <3>1. mem'[j] = [mem[j] EXCEPT !.direct = [@ EXCEPT ![Log] = b]]
      BY <1>0
    <3>2. mem'[j].direct = [mem[j].direct EXCEPT ![Log] = b] /\ mem'[j].size = mem[j].size
      BY <1>0, <3>1 DEF Dinode
    <3>3. pc' = "store" /\ Log < NrDirect
      BY <2>5 DEF MapDirect
    <3>4. mem'[j].direct[Log] # 0
      BY <1>0, <3>2, <3>3
    <3>. QED
      BY <1>0, <2>1, <2>2, <3>2, <3>3, <3>4 DEF AtWork, WriteSteps, TruncSteps
  <2>6. CASE MapIndirect
    <3>. PICK b \in Phys : SetInode([Inode EXCEPT !.ind = b])
      BY <2>6 DEF MapIndirect
    <3>1. mem'[j] = [mem[j] EXCEPT !.ind = b]
      BY <1>0
    <3>2. mem'[j].ind # 0 /\ mem'[j].size = mem[j].size
      BY <1>0, <3>1 DEF Dinode
    <3>3. pc' = "child" /\ NrDirect <= Log
      BY <2>6 DEF MapIndirect
    <3>. QED
      BY <1>0, <2>1, <2>2, <3>2, <3>3 DEF AtWork, WriteSteps, TruncSteps
  <2>7. CASE ReadIndirect \/ MapChild \/ NoChild
    <3>1. /\ mem' = mem /\ pc' \in {"child", "indirect"} /\ NrDirect <= Log /\ mem[j].ind # 0
      BY <1>0, <2>7 DEF ReadIndirect, MapChild, NoChild, SetNoInode, Running, AtWork
    <3>. QED
      BY <1>0, <2>1, <2>2, <3>1 DEF AtWork, WriteSteps, TruncSteps
  <2>8. CASE WriteIndirect
    <3>1. mem' = mem /\ pc' = "store" /\ ~(Log < NrDirect) /\ mem[j].ind # 0
      BY <1>0, <2>8 DEF WriteIndirect, SetNoInode, Running, AtWork
    <3>. QED
      BY <1>0, <2>1, <2>2, <3>1 DEF AtWork, WriteSteps, TruncSteps
  <2>9. CASE StoreData
    <3>1. /\ mem' = mem /\ pc' = "csum"
          /\ IF Log < NrDirect THEN mem[j].direct[Log] # 0 ELSE mem[j].ind # 0
      BY <1>0, <2>9 DEF StoreData, SetNoInode, Running, AtWork
    <3>. QED
      BY <1>0, <2>1, <2>2, <3>1 DEF AtWork, WriteSteps, TruncSteps
  <2>. QED
    BY <1>2, <2>3, <2>4, <2>5, <2>6, <2>7, <2>8, <2>9
<1>3. CASE StoreCsum
  <2>1. /\ todo' = todo /\ mem' = mem /\ pc' = "map" /\ Cur.op = "write"
        /\ Cur.off <= Inode.size
    BY <1>3 DEF StoreCsum, SetNoInode, plan, Running, Cur, AtWork, WriteSteps
  <2>2. Cur' = Cur /\ Inode' = Inode
    BY <2>1 DEF Cur, Inode
  <2>. QED
    BY <1>0, <2>1, <2>2 DEF AtWork, WriteSteps, TruncSteps
<1>. QED
  BY <1>1, <1>2, <1>3 DEF WriteStep

\* A truncation takes the blocks that the new size does not cover, and counts them no more.
LEMMA OwnTrunc ==
  ASSUME TypeOK, AtWork, TruncStep, NEW j \in Inodes, j = Cur.in, KeepsOwn(j)
  PROVE  KeepsOwn(j)'
<1>0. /\ todo # <<>> /\ Inode = mem[j] /\ mem[j] \in Dinode /\ at \in Nat /\ Cur.off \in Nat
      /\ mem[j].size \in Nat /\ NrDirect \in Nat /\ First \in Nat
      /\ \A d : SetInode(d) => mem'[j] = d
      /\ pc \notin WriteSteps /\ pc' \notin WriteSteps
  BY WorkFacts, TruncMoves, Sizes, BlocksNat DEF First
<1>1. Extent(j) = mem[j].size /\ Extent(j)' = mem'[j].size
  BY <1>0 DEF Extent
<1>2. CASE TruncNothing
  <2>1. mem'[j] = mem[j] /\ pc = "ready" /\ pc' = "ready"
    BY <1>2 DEF TruncNothing, Running, Return
  <2>. QED
    BY <2>1, OwnElse DEF WriteSteps, TruncSteps
<1>3. CASE BeginTrunc \/ ZeroDirect \/ LoadIndirect \/ ZeroChild \/ UnmarkChild \/ ZeroIndirect
  <2>1. mem' = mem /\ todo' = todo
    BY <1>3 DEF BeginTrunc, ZeroDirect, LoadIndirect, ZeroChild, UnmarkChild, ZeroIndirect,
       SetNoInode, plan
  <2>2. Cur' = Cur /\ First' = First
    BY <2>1 DEF Cur, First, Blocks
  <2>3. ASSUME NEW l \in 0 .. (NrDirect - 1), Cleared(j, l)
        PROVE  Cleared(j, l)'
    <3>1. First <= l /\ pc # "ready" /\ (pc \in {"zero", "unmark"} => l < at)
      BY <2>3 DEF Cleared, TruncSteps
    <3>2. CASE ZeroDirect
      BY <2>2, <3>1, <3>2 DEF ZeroDirect, Running, regs, Cleared, TruncSteps
    <3>3. CASE LoadIndirect \/ ZeroChild \/ UnmarkChild \/ ZeroIndirect
      <4>1. /\ pc' \in {"zerochild", "unmarkchild", "unmarkindirect"} /\ at' \in Nat
        <5>1. FirstChild \in Nat
          BY <1>0 DEF FirstChild, MaxOf
        <5>. QED
          BY <1>0, <3>3, <5>1 DEF LoadIndirect, ZeroChild, UnmarkChild, ZeroIndirect, regs
      <4>. QED
        BY <1>0, <2>2, <3>1, <4>1 DEF Cleared, TruncSteps
    <3>. QED
      BY <1>3, <3>1, <3>2, <3>3 DEF BeginTrunc, Running
  <2>. QED
    BY <1>1, <2>1, <2>3 DEF KeepsOwn, Blocks
<1>4. CASE UnmarkDirect
  <2>1. /\ SetInode([Inode EXCEPT !.direct = [@ EXCEPT ![at] = 0]]) /\ todo' = todo
        /\ pc = "unmark" /\ pc' = "zero" /\ at' = at + 1
    BY <1>4 DEF UnmarkDirect, Running, plan
  <2>2. mem'[j] = [mem[j] EXCEPT !.direct = [@ EXCEPT ![at] = 0]]
    BY <1>0, <2>1
  <2>3. /\ mem'[j].direct = [mem[j].direct EXCEPT ![at] = 0] /\ mem'[j].ind = mem[j].ind
        /\ mem'[j].size = mem[j].size
    BY <1>0, <2>2 DEF Dinode
  <2>4. Cur' = Cur /\ First' = First /\ First <= at
    BY <2>1 DEF Cur, First, Blocks, AtWork
  <2>5. \A l \in 0 .. (NrDirect - 1) :
          /\ Cleared(j, l) => Cleared(j, l)'
          /\ l = at => Cleared(j, l)'
    BY <1>0, <2>1, <2>4 DEF Cleared, TruncSteps
  <2>6. \A l \in 0 .. (NrDirect - 1) : l # at => mem'[j].direct[l] = mem[j].direct[l]
    BY <1>0, <2>3 DEF Dinode
  <2>. QED
    BY <1>1, <2>3, <2>5, <2>6 DEF KeepsOwn, Blocks
<1>5. CASE TruncDirectOnly \/ UnmarkIndirect \/ KeepIndirect
  <2>1. /\ pc \in TruncSteps /\ pc' = "ready" /\ Cur.off < mem[j].size
        /\ mem'[j].size = Cur.off
    <3>1. pc \in TruncSteps /\ pc' = "ready"
      BY <1>5 DEF TruncDirectOnly, UnmarkIndirect, KeepIndirect, Return, Running, TruncSteps
    <3>2. ~TruncNothing
      BY <3>1 DEF TruncNothing, Running, TruncSteps
    <3>3. mem'[j].size = Cur.off
      BY <3>1, <3>2, TruncMoves DEF TruncSteps
    <3>. QED
      BY <1>0, <3>1, <3>3 DEF AtWork
  <2>2. mem'[j].direct = mem[j].direct
    <3>1. CASE UnmarkIndirect
      BY <1>0, <3>1 DEF UnmarkIndirect, Dinode
    <3>2. CASE TruncDirectOnly \/ KeepIndirect
      BY <1>0, <3>2 DEF TruncDirectOnly, KeepIndirect, Dinode
    <3>. QED
      BY <1>5, <3>1, <3>2
  <2>. PICK m, n \in Nat : m = Blocks(mem[j].size) /\ n = Blocks(Cur.off)
    BY <1>0, BlocksNat
  <2>3. n <= m /\ First = n
    BY <1>0, <2>1, BlocksGrow DEF First
  <2>4. \A l \in 0 .. (NrDirect - 1) : l < n => l < m /\ ~Cleared(j, l)
    BY <2>3 DEF Cleared
  <2>5. ASSUME n > NrDirect PROVE mem'[j].ind # 0
    <3>1. mem[j].ind # 0
      BY <1>0, <1>1, <2>3, <2>5 DEF KeepsOwn
    <3>2. ~UnmarkIndirect
      BY <1>0, <2>3, <2>5 DEF UnmarkIndirect, Running, AtWork
    <3>3. ~TruncDirectOnly
      BY <1>0, <2>3, <2>5 DEF TruncDirectOnly, End
    <3>4. mem'[j].ind = mem[j].ind
      BY <1>0, <1>5, <3>2, <3>3 DEF KeepIndirect, Dinode
    <3>. QED
      BY <3>1, <3>4
  <2>6. Blocks(Extent(j))' = n
    BY <1>1, <2>1 DEF Blocks
  <2>7. \A l \in 0 .. (NrDirect - 1) : l < n => mem'[j].direct[l] # 0
    BY <1>1, <2>2, <2>4 DEF KeepsOwn
  <2>. QED
    BY <2>5, <2>6, <2>7 DEF KeepsOwn
<1>. QED
  BY <1>2, <1>3, <1>4, <1>5 DEF TruncStep

\* The place a truncation is at when it goes on.
LEMMA AtWorkTrunc ==
  ASSUME TypeOK, AtWork, TruncStep
  PROVE  AtWork'
<1>. PICK j \in Inodes : j = Cur.in
  BY DataCall
<1>0. /\ Inode = mem[j] /\ mem[j].size \in Nat /\ at \in Nat /\ Cur.off \in Nat
      /\ First \in Nat
  BY WorkFacts, BlocksNat DEF First
<1>1. CASE TruncNothing \/ TruncDirectOnly \/ UnmarkIndirect \/ KeepIndirect
  BY <1>1, AtRestWork DEF TruncNothing, TruncDirectOnly, UnmarkIndirect, KeepIndirect, Return
<1>2. CASE \/ BeginTrunc \/ ZeroDirect \/ UnmarkDirect \/ LoadIndirect \/ ZeroChild \/ UnmarkChild
           \/ ZeroIndirect
  <2>1. /\ pc' \in TruncSteps /\ todo' = todo /\ mem'[j].size = mem[j].size
        /\ pc' \notin WriteSteps
    <3>1. pc' # "ready"
      BY <1>2 DEF BeginTrunc, ZeroDirect, UnmarkDirect, LoadIndirect, ZeroChild, UnmarkChild,
         ZeroIndirect
    <3>. QED
      BY <3>1, TruncMoves
  <2>2. Cur' = Cur /\ Inode' = mem'[j] /\ First' = First
    BY <2>1 DEF Cur, Inode, First, Blocks
  <2>3. Cur.op = "trunc" /\ Cur.off < mem[j].size /\ todo # <<>>
    BY <1>0, <1>2 DEF BeginTrunc, ZeroDirect, UnmarkDirect, LoadIndirect, ZeroChild,
       UnmarkChild, ZeroIndirect, Running, Cur, AtWork, TruncSteps
  <2>4. /\ pc' \in {"zero", "unmark"} => First <= at'
        /\ pc' = "unmarkindirect" => First <= NrDirect
    BY <1>0, <1>2 DEF BeginTrunc, ZeroDirect, UnmarkDirect, LoadIndirect, ZeroChild,
       UnmarkChild, ZeroIndirect, Running, AtWork, regs
  <2>. QED
    BY <2>1, <2>2, <2>3, <2>4 DEF AtWork, WriteSteps, TruncSteps
<1>. QED
  BY <1>1, <1>2 DEF TruncStep

\* A write or a truncation leaves every inode its own blocks.
LEMMA OwnData ==
  ASSUME TypeOK, AtWork, OwnBlocks, WriteStep \/ TruncStep
  PROVE  AtWork' /\ OwnBlocks'
<1>. PICK j \in Inodes : j = Cur.in
  BY DataCall
<1>1. dino' = dino /\ \A i \in Inodes : i # j => mem'[i] = mem[i]
  BY DataStepKeeps
<1>2. pc' \in WriteSteps \cup TruncSteps => Cur' = Cur
  <2>1. CASE WriteStep
    BY <2>1 DEF WriteStep, BeginWrite, MapExisting, MapDirect, MapIndirect, ReadIndirect,
       MapChild, NoChild, WriteIndirect, MapFails, WriteIndirectFails, StoreData, StoreCsum,
       StoreLastCsum, Fail, Return, WriteSteps, TruncSteps, plan, Cur
  <2>2. CASE TruncStep
    BY <2>2, TruncMoves DEF WriteSteps, TruncSteps, Cur
  <2>. QED
    BY <2>1, <2>2
<1>3. ASSUME NEW i \in Inodes PROVE KeepsOwn(i)'
  <2>1. KeepsOwn(i)
    BY DEF OwnBlocks
  <2>2. CASE i = j
    BY <2>1, <2>2, OwnWrite, OwnTrunc
  <2>3. CASE i # j
    BY <1>1, <1>2, <2>1, <2>3, OwnElse
  <2>. QED
    BY <2>2, <2>3
<1>. QED
  BY <1>1, <1>3, AtWorkWrite, AtWorkTrunc DEF OwnBlocks, HasOwn, Blocks

\* A process that is gone has in memory what the disk has.
LEMMA OwnGone ==
  ASSUME OwnBlocks, Gone, dino' = dino
  PROVE  AtWork' /\ OwnBlocks'
<1>1. pc' = "idle" /\ at' = 0 /\ mem' = dino
  BY DEF Gone
<1>2. ASSUME NEW i \in Inodes PROVE KeepsOwn(i)'
  <2>1. Extent(i)' = dino[i].size
    BY <1>1 DEF Extent, WriteSteps
  <2>2. HasOwn(dino[i], dino[i].size)
    BY DEF OwnBlocks
  <2>. QED
    BY <1>1, <2>1, <2>2 DEF KeepsOwn, HasOwn, Blocks
<1>. QED
  BY <1>1, <1>2, AtRestWork DEF OwnBlocks, HasOwn, Blocks

\* Between the writes and the truncations an inode is written, emptied, or gets its type.
LEMMA OwnBetween ==
  ASSUME TypeOK, AtWork, OwnBlocks,
         ReleaseInode \/ SyncInode \/ CreateInode \/ LeftoversExist \/ NoInode
  PROVE  AtWork' /\ OwnBlocks'
<1>1. pc \in {"ready", "create"} /\ pc' = "ready" /\ at = 0 /\ at' = 0
  BY DEF ReleaseInode, SyncInode, CreateInode, LeftoversExist, NoInode, Running, TakeNumber,
     Return, regs, AtWork
<1>2. ASSUME NEW i \in Inodes
      PROVE  /\ Extent(i) = mem[i].size /\ Extent(i)' = mem'[i].size
             /\ \A l : ~Cleared(i, l)
             /\ HasOwn(dino[i], dino[i].size) /\ HasOwn(mem[i], mem[i].size)
  <2>1. Extent(i) = mem[i].size /\ Extent(i)' = mem'[i].size /\ \A l : ~Cleared(i, l)
    BY <1>1 DEF Extent, Cleared, WriteSteps, TruncSteps
  <2>. QED
    BY <2>1 DEF OwnBlocks, KeepsOwn, HasOwn
<1>3. ASSUME NEW i \in Inodes
      PROVE  /\ dino'[i] \in {dino[i], mem[i]}
             /\ \/ mem'[i] = Blank
                \/ /\ mem'[i].size = mem[i].size /\ mem'[i].direct = mem[i].direct
                   /\ mem'[i].ind = mem[i].ind
  <2>0. mem \in [Inodes -> Dinode] /\ dino \in [Inodes -> Dinode]
    BY DEF TypeOK
  <2>1. CASE ReleaseInode
    BY <2>0, <2>1 DEF ReleaseInode, SetInode
  <2>2. CASE SyncInode
    BY <2>0, <2>2 DEF SyncInode, Inode
  <2>3. CASE NoInode
    BY <2>3 DEF NoInode, disk
  <2>4. CASE CreateInode \/ LeftoversExist
    <3>1. dino' = dino /\ \E x \in Inodes : \E type : mem' = [mem EXCEPT ![x].type = type]
      BY <2>4 DEF CreateInode, LeftoversExist
    <3>. QED
      BY <2>0, <3>1 DEF Dinode
  <2>. QED
    BY <2>1, <2>2, <2>3, <2>4
<1>4. HasOwn(Blank, Blank.size)
  <2>1. Blank.size = 0
    BY DEF Blank
  <2>. QED
    BY <2>1, NoBlocks, Sizes DEF HasOwn
<1>5. ASSUME NEW i \in Inodes
      PROVE  HasOwn(mem'[i], mem'[i].size) /\ HasOwn(dino'[i], dino'[i].size)
  BY <1>2, <1>3, <1>4 DEF HasOwn
<1>6. ASSUME NEW i \in Inodes
      PROVE  KeepsOwn(i)'
  BY <1>2, <1>5 DEF KeepsOwn, HasOwn, Blocks
<1>. QED
  BY <1>1, <1>5, <1>6, AtRestWork DEF OwnBlocks, HasOwn, Blocks

\* Through every command, failure and crash, on any image.
LEMMA OwnNext ==
  ASSUME TypeOK, AtWork, OwnBlocks, Next
  PROVE  AtWork' /\ OwnBlocks'
<1>1. CASE Command
  <2>1. /\ mem' = mem /\ dino' = dino /\ pc = "idle" /\ pc' \in {"ready", "create"}
        /\ at = 0 /\ at' = 0
    BY <1>1 DEF Command, StartWrite, StartCreate, StartRemove, CanStart, Start, disk, regs, AtWork
  <2>2. \A i \in Inodes : KeepsOwn(i)'
    BY <2>1, OwnElse DEF OwnBlocks, WriteSteps, TruncSteps
  <2>. QED
    BY <2>1, <2>2, AtRestWork DEF OwnBlocks, HasOwn, Blocks
<1>2. CASE WriteStep \/ TruncStep
  BY <1>2, OwnData
<1>3. CASE ReleaseInode \/ SyncInode \/ CreateInode \/ LeftoversExist \/ NoInode
  BY <1>3, OwnBetween
<1>4. CASE NoInodeBlock \/ LeftoversAssert \/ Exit \/ AssertionFails \/ Crash
  BY <1>4, OwnGone DEF NoInodeBlock, LeftoversAssert, Exit, AssertionFails, Crash, disk
<1>. QED
  BY <1>1, <1>2, <1>3, <1>4 DEF Next, Step

\* At first the root directory has its one block.
LEMMA OwnInit == Init => AtWork /\ OwnBlocks
<1>. SUFFICES ASSUME Init PROVE AtWork /\ OwnBlocks
  OBVIOUS
<1>1. AtWork
  BY DEF Init, AtWork, WriteSteps, TruncSteps
<1>2. Blank.size = 0 /\ Blocks(0) = 0 /\ NrDirect \in Nat \ {0}
  BY NoBlocks, FileStoreAssumption DEF Blank
<1>3. RootInode.size = 2 /\ RootInode.direct[0] # 0
  <2>1. Blank.direct = [k \in 0 .. (NrDirect - 1) |-> 0]
    BY DEF Blank
  <2>2. RootInode.direct = [Blank.direct EXCEPT ![0] = DataStart] /\ RootInode.size = 2
    BY DEF RootInode, Blank
  <2>. QED
    BY <1>2, <2>1, <2>2, FileStoreAssumption
<1>4. Blocks(2) <= 1 /\ Blocks(2) \in Nat
  <2>1. 2 <= BlockSize * 1
    BY FileStoreAssumption
  <2>. QED
    BY <2>1, BlocksAtMost, BlocksNat
<1>5. HasOwn(Blank, Blank.size) /\ HasOwn(RootInode, RootInode.size)
  BY <1>2, <1>3, <1>4 DEF HasOwn
<1>6. ASSUME NEW i \in Inodes
      PROVE  HasOwn(dino[i], dino[i].size) /\ mem[i] = dino[i] /\ Extent(i) = mem[i].size
  <2>1. mem = dino /\ pc = "idle" /\ dino[i] \in {RootInode, Blank}
    BY DEF Init
  <2>. QED
    BY <1>5, <2>1 DEF Extent, WriteSteps
<1>7. \A i \in Inodes : KeepsOwn(i)
  BY <1>6 DEF KeepsOwn, HasOwn
<1>. QED
  BY <1>1, <1>6, <1>7 DEF OwnBlocks

\* Whatever crashes have left and commands have made of it since, an inode has all the
\* blocks of its size that it holds itself, on the disk and, but for what a truncation has
\* freed, in memory.
THEOREM OwnInvariant == Spec => [](AtWork /\ OwnBlocks)
<1>1. AtWork /\ OwnBlocks /\ UNCHANGED vars => (AtWork /\ OwnBlocks)'
  <2>. SUFFICES ASSUME AtWork, OwnBlocks, UNCHANGED vars PROVE AtWork' /\ OwnBlocks'
    OBVIOUS
  <2>1. UNCHANGED <<dino, mem, pc, todo, at>>
    BY DEF vars, disk, plan, regs
  <2>2. Cur' = Cur /\ Log' = Log /\ Inode' = Inode /\ First' = First
    BY <2>1 DEF Cur, Log, Inode, First, Blocks
  <2>3. AtWork'
    BY <2>1, <2>2 DEF AtWork
  <2>4. \A i : Extent(i)' = Extent(i) /\ \A l : Cleared(i, l)' = Cleared(i, l)
    BY <2>1, <2>2 DEF Extent, Cleared
  <2>. QED
    BY <2>1, <2>3, <2>4 DEF OwnBlocks, HasOwn, KeepsOwn, Blocks
<1>2. TypeOK /\ AtWork /\ OwnBlocks /\ [Next]_vars => (AtWork /\ OwnBlocks)'
  BY <1>1, OwnNext
<1>. QED
  BY <1>2, OwnInit, TypeCorrect, PTL DEF Spec
-----------------------------------------------------------------------------
(* The assertions that cannot fail.                                        *)

\* inode.c:388 and inode.c:399: the direct blocks of the size are there, and so is the
\* indirect one if the size needs it; on any image.
LEMMA OwnIsThere ==
  ASSUME TypeOK, OwnBlocks, Running("zero", "trunc")
  PROVE  /\ MoreDirect => Inode.direct[at] # 0
         /\ End > NrDirect => Inode.ind # 0
<1>0. todo # <<>> /\ pc = "zero" /\ at \in Nat /\ NrDirect \in Nat
  BY Sizes DEF Running, TypeOK
<1>. PICK j \in Inodes : j = Cur.in
  BY <1>0, Current
<1>1. Extent(j) = mem[j].size /\ KeepsOwn(j) /\ Inode = mem[j]
  BY <1>0 DEF Extent, WriteSteps, OwnBlocks, Inode
<1>2. ~Cleared(j, at)
  BY <1>0 DEF Cleared
<1>3. MoreDirect => at \in 0 .. (NrDirect - 1) /\ at < End
  BY <1>0 DEF MoreDirect
<1>. QED
  BY <1>1, <1>2, <1>3 DEF KeepsOwn, End

\* inode.c:403, super.c:252 and bitmap.c:116: a child that the size covers is there, and
\* it is a data block.
LEMMA ChildIsThere ==
  ASSUME Busy, Running("zerochild", "trunc"), MoreChildren
  PROVE  ibuf[at] \in Phys
<1>0. /\ TypeOK /\ Stands /\ Filled(Live) /\ Owned(Live) /\ Cur.in \in Live /\ todo # <<>>
      /\ pc = "zerochild" /\ at \in Nat /\ at < BlockSize
  BY BusyFacts DEF Running, TypeOK, MoreChildren, NrIndirect
<1>. PICK j : j = Cur.in
  OBVIOUS
<1>1. Extent(j) = mem[j].size
  BY <1>0 DEF Extent, WriteSteps
<1>2. End \in Nat /\ NrDirect \in Nat /\ End = Blocks(mem[j].size)
  BY <1>0, Current, BlocksNat, Sizes DEF End, Inode, Dinode
<1>. PICK l \in Nat : l = NrDirect + at
  BY <1>0, <1>2
<1>3. l \in 0 .. (Blocks(Extent(j)) - 1)
  BY <1>0, <1>1, <1>2 DEF MoreChildren
<1>4. HeldAt(j, l) # 0 \/ Cleared(j, l)
  BY <1>0, <1>3 DEF Filled
<1>5. ~Cleared(j, l)
  BY <1>0, <1>2 DEF Cleared
<1>6. HeldAt(j, l) = ibuf[at] /\ l \in Places
  <2>1. l \in Places /\ l - NrDirect = at /\ l >= NrDirect
    BY <1>0, ChildPlace
  <2>2. mem[j].ind # 0
    BY <1>0 DEF Stands, StandsInTrunc, Inode
  <2>3. Table(j) = ibuf
    BY <1>0 DEF Table, Loaded
  <2>. QED
    BY <2>1, <2>2, <2>3, HeldCases
<1>7. ibuf[at] \in bmap
  BY <1>0, <1>4, <1>5, <1>6 DEF Owned
<1>8. bmap \subseteq Phys
  BY <1>0 DEF TypeOK
<1>. QED
  BY <1>7, <1>8

\* bitmap.c:119: a block that is freed is marked.
LEMMA FreedIsMarked ==
  ASSUME Busy
  PROVE  /\ Running("unmark", "trunc") => Inode.direct[at] \in bmap
         /\ Running("unmarkchild", "trunc") => ibuf[at] \in bmap
         /\ Running("unmarkindirect", "trunc") => Inode.ind \in bmap
<1>0. /\ TypeOK /\ Stands /\ Owned(Live) /\ at \in Nat
      /\ todo # <<>> => Cur.in \in Live
  BY BusyFacts DEF TypeOK
<1>. PICK j : j = Cur.in
  OBVIOUS
<1>1. ASSUME Running("unmark", "trunc") PROVE Inode.direct[at] \in bmap
  <2>1. MoreDirect /\ Inode.direct[at] # 0 /\ todo # <<>>
    BY <1>0, <1>1 DEF Stands, StandsInTrunc, Running
  <2>2. at \in Places /\ HeldAt(j, at) = mem[j].direct[at]
    BY <1>0, <2>1, DirectPlace, HeldCases DEF MoreDirect
  <2>. QED
    BY <1>0, <2>1, <2>2 DEF Owned, Inode
<1>2. ASSUME Running("unmarkchild", "trunc") PROVE ibuf[at] \in bmap
  <2>1. /\ MoreChildren /\ ibuf[at] \in Phys /\ todo # <<>> /\ mem[j].ind # 0
        /\ pc = "unmarkchild"
    BY <1>0, <1>2 DEF Stands, StandsInTrunc, Running, Inode
  <2>. PICK l : l = NrDirect + at
    OBVIOUS
  <2>2. l \in Places /\ l - NrDirect = at /\ l >= NrDirect
    BY <1>0, <2>1, ChildPlace DEF MoreChildren, NrIndirect
  <2>3. Table(j) = ibuf
    BY <2>1 DEF Table, Loaded
  <2>4. HeldAt(j, l) = ibuf[at]
    BY <2>1, <2>2, <2>3, HeldCases
  <2>5. ibuf[at] # 0
    BY <2>1, Sizes
  <2>. QED
    BY <1>0, <2>1, <2>2, <2>4, <2>5 DEF Owned
<1>3. ASSUME Running("unmarkindirect", "trunc") PROVE Inode.ind \in bmap
  <2>1. mem[j].ind # 0 /\ todo # <<>>
    BY <1>0, <1>3 DEF Stands, StandsInTrunc, Running, Inode
  <2>2. -1 \in Places /\ HeldAt(j, -1) = mem[j].ind
    BY PlacesInt, HeldCases
  <2>. QED
    BY <1>0, <2>1, <2>2 DEF Owned, Inode
<1>. QED
  BY <1>1, <1>2, <1>3

\* inode.c:231 and bitmap.c:119: the plan of the command has it so.
LEMMA SyncedIsDirty ==
  ASSUME Busy
  PROVE  /\ Running("ready", "sync") => Cur.in \in dirty
         /\ Running("ready", "release") => Cur.in \in imap
<1>0. TypeOK /\ Doing
  BY BusyFacts
<1>1. ASSUME Running("ready", "sync") PROVE Cur.in \in dirty
  <2>0. todo # <<>> /\ Cur.op = "sync"
    BY <1>1 DEF Running, Cur
  <2>. PICK m \in Nat : m = Len(todo)
    BY <1>0, <2>0, CurFirst
  <2>. PICK i \in Inodes :
           \/ Writing(i) /\ m = 1 /\ Cur.in = i
           \/ Removing(i) /\ m = 1 /\ Cur.in = 0
           \/ Removing(i) /\ m = 2 /\ Cur.in = i
           \/ Undoing(i) /\ m = 1 /\ Cur.in = i
           \/ \E p \in Inodes : /\ Creating(p, i)
                                /\ \/ m = 1 /\ Cur.in = i
                                   \/ m = 2 /\ Cur.in = p
    BY <1>0, <2>0, SyncPlan
  <2>1. CASE Writing(i) /\ m = 1 /\ Cur.in = i
    BY <2>1 DEF Writing
  <2>2. CASE Removing(i) /\ m = 1 /\ Cur.in = 0
    BY <2>2, RemovingLeft
  <2>5. CASE Removing(i) /\ m = 2 /\ Cur.in = i
    BY <2>5, RemovingLeft
  <2>3. CASE Undoing(i) /\ m = 1 /\ Cur.in = i
    BY <2>3 DEF Undoing
  <2>4. CASE \E p \in Inodes : /\ Creating(p, i)
                               /\ \/ m = 1 /\ Cur.in = i
                                  \/ m = 2 /\ Cur.in = p
    <3>. PICK p \in Inodes : /\ Creating(p, i)
                             /\ \/ m = 1 /\ Cur.in = i
                                \/ m = 2 /\ Cur.in = p
      BY <2>4
    <3>1. i \in dirty /\ (m = 2 => p \in dirty)
      BY CreatingLeft
    <3>. QED
      BY <3>1
  <2>. QED
    BY <2>1, <2>2, <2>3, <2>4, <2>5, Zenon
<1>2. ASSUME Running("ready", "release") PROVE Cur.in \in imap
  <2>0. todo # <<>> /\ Cur.op = "release"
    BY <1>2 DEF Running, Cur
  <2>. PICK m \in Nat : m = Len(todo)
    BY <1>0, <2>0, CurFirst
  <2>. PICK i \in Inodes : Cur.in = i /\ \/ Removing(i) /\ m = 3
                                         \/ Undoing(i) /\ m = 2
    BY <1>0, <2>0, ReleasePlan
  <2>1. CASE Removing(i) /\ m = 3
    BY <2>1, RemovingLeft
  <2>2. CASE Undoing(i) /\ m = 2
    BY <2>2 DEF Undoing
  <2>. QED
    BY <2>1, <2>2
<1>. QED
  BY <1>1, <1>2

\* Until a command starts on a damaged image these assertions hold.
LEMMA SoundFaults ==
  ASSUME TypeOK, Ownership, Consistent, NEW site, Violated(site)
  PROVE  site \notin {"inode.c:231", "inode.c:304", "inode.c:403", "super.c:252",
                     "bitmap.c:116", "bitmap.c:119"}
<1>1. CASE site \in {"inode.c:403", "super.c:252", "bitmap.c:116"}
  <2>1. /\ Running("zerochild", "trunc") /\ MoreChildren
        /\ \/ ibuf[at] <= 0
           \/ 0 < ibuf[at] /\ ibuf[at] < DataStart
           \/ DataStart + BlockBits <= ibuf[at]
    BY <1>1 DEF Violated
  <2>2. ibuf[at] \in Phys
    BY <2>1, ChildIsThere DEF Busy, Running
  <2>. QED
    BY <2>1, <2>2, FileStoreAssumption DEF Phys
<1>2. CASE site = "bitmap.c:119"
  <2>1. \/ Running("unmark", "trunc") /\ Inode.direct[at] \notin bmap
        \/ Running("unmarkchild", "trunc") /\ ibuf[at] \notin bmap
        \/ Running("unmarkindirect", "trunc") /\ Inode.ind \notin bmap
        \/ Running("ready", "release") /\ Cur.in \notin imap
    BY <1>2 DEF Violated
  <2>2. Busy
    BY <2>1 DEF Busy, Running
  <2>. QED
    BY <2>1, <2>2, FreedIsMarked, SyncedIsDirty
<1>3. CASE site = "inode.c:231"
  <2>1. Running("ready", "sync") /\ Cur.in \notin dirty
    BY <1>3 DEF Violated
  <2>2. Busy
    BY <2>1 DEF Busy, Running
  <2>. QED
    BY <2>1, <2>2, SyncedIsDirty
<1>4. CASE site = "inode.c:304"
  BY <1>4 DEF Violated
<1>. QED
  BY <1>1, <1>2, <1>3, <1>4

\* A step that fails no assertion.
LEMMA NoFault ==
  ASSUME Next, ~AssertionFails, ~LeftoversAssert
  PROVE  ret' \in {ret, "ok", "err", "crash", "inode.c:84"}
<1>1. CASE Command
  BY <1>1 DEF Command, StartWrite, StartCreate, StartRemove, Start
<1>2. CASE WriteStep \/ TruncStep
  BY <1>2, DataStepKeeps DEF WriteStep, TruncStep, command, BeginWrite, MapExisting, MapDirect,
     MapIndirect, ReadIndirect, MapChild, NoChild, WriteIndirect, MapFails, WriteIndirectFails,
     StoreData, StoreCsum, StoreLastCsum, TruncNothing, BeginTrunc, ZeroDirect, UnmarkDirect,
     TruncDirectOnly, LoadIndirect, ZeroChild, UnmarkChild, ZeroIndirect, UnmarkIndirect,
     KeepIndirect
<1>3. CASE ReleaseInode \/ SyncInode \/ CreateInode \/ NoInode \/ LeftoversExist
  BY <1>3 DEF command, ReleaseInode, SyncInode, CreateInode, NoInode, LeftoversExist
<1>4. CASE NoInodeBlock \/ Exit \/ Crash
  BY <1>4 DEF NoInodeBlock, Exit, Crash
<1>. QED
  BY <1>1, <1>2, <1>3, <1>4 DEF Next, Step

\* The assertions that are left out here hold wherever the process stands.
LEMMA FaultsStep ==
  ASSUME TypeOK, hurt \/ (Ownership /\ Consistent), AtWork, OwnBlocks, OnlyKnownFaults, Next
  PROVE  OnlyKnownFaults'
<1>1. CASE AssertionFails
  <2>. PICK site \in Sites : Violated(site) /\ ret' = site
    BY <1>1 DEF AssertionFails
  <2>1. site # "inode.c:388" /\ site # "inode.c:399"
    BY OwnIsThere DEF Violated
  <2>2. hurt' = hurt
    BY <1>1 DEF AssertionFails, Gone
  <2>. QED
    BY <2>1, <2>2, SoundFaults DEF OnlyKnownFaults
<1>2. CASE LeftoversAssert
  <2>1. hurt /\ hurt' = hurt /\ ret' = "inode.c:304"
    BY <1>2, NoLeftovers DEF LeftoversAssert, Gone, Ownership
  <2>. QED
    BY <2>1 DEF OnlyKnownFaults
<1>3. CASE ~AssertionFails /\ ~LeftoversAssert
  BY <1>3, NoFault, HurtStays DEF OnlyKnownFaults
<1>. QED
  BY <1>1, <1>2, <1>3

\* On any image, whatever crashes have left and whatever ran on it since, a truncation finds
\* the direct blocks and the indirect block of the size (inode.c:388, inode.c:399); and until
\* a command starts on a damaged image, an inode is dirty when it is written, a file has all
\* its blocks, what is freed is a block and was marked, and a new directory is empty.
THEOREM FaultsAreKnown == Spec => []OnlyKnownFaults
<1>1. Init => OnlyKnownFaults
  BY DEF Init, OnlyKnownFaults
<1>2. OnlyKnownFaults /\ UNCHANGED vars => OnlyKnownFaults'
  BY DEF OnlyKnownFaults, vars, command
<1>3. /\ TypeOK /\ (hurt \/ Ownership) /\ Consistency /\ AtWork /\ OwnBlocks /\ OnlyKnownFaults
      /\ [Next]_vars
      => OnlyKnownFaults'
  BY <1>2, FaultsStep DEF Consistency
<1>. QED
  BY <1>1, <1>3, TypeCorrect, OwnershipInvariant, ConsistencyInvariant, OwnInvariant, PTL DEF Spec
-----------------------------------------------------------------------------
(* The checksum table.                                                     *)

\* The only direct blocks whose checksum a step invalidates are the one it writes data
\* to and the one it zeroes.
LEMMA SumsLost ==
  ASSUME TypeOK, Stands, NEW j \in Inodes, j = Cur.in, WriteStep \/ TruncStep, NEW b \in summed
  PROVE  \/ b \in summed'
         \/ \E t \in Places : /\ HeldAt(j, t) = b
                              /\ t < NrDirect /\ t # -1 =>
                                   \/ StoreData /\ t = Log
                                   \/ ZeroDirect /\ t = at
<1>0. /\ todo # <<>> /\ Inode = mem[j] /\ at \in Nat
      /\ Inode.ind \in Phys \cup {0} /\ Inode.direct \in [0 .. (NrDirect - 1) -> Phys \cup {0}]
  BY DataStepKeeps, Current DEF Inode, Dinode, TypeOK
<1>. PICK k \in Nat : k = at
  BY <1>0
<1>1. CASE WriteIndirect \/ WriteIndirectFails \/ ZeroIndirect \/ KeepIndirect
  <2>1. Inode.ind # 0 /\ (b \in summed' \/ b = Inode.ind)
    BY <1>1 DEF WriteIndirect, WriteIndirectFails, ZeroIndirect, KeepIndirect, WriteBlock,
       ZeroBlock, Running, Stands, StandsInWrite, StandsInTrunc
  <2>2. HeldAt(j, -1) = Inode.ind /\ -1 \in Places
    BY <1>0, PlacesInt, HeldCases
  <2>. QED
    BY <2>1, <2>2
<1>2. CASE StoreData
  <2>. PICK log \in Nat : log = Log
    BY <1>0, LogNat
  <2>1. Mapped \in Phys /\ (b \in summed' \/ b = Mapped) /\ pc = "store"
    BY <1>2 DEF StoreData, WriteBlock, Running
  <2>2. log \in Places /\ HeldAt(j, log) = Mapped
    BY <1>0, <2>1, StoresMapped
  <2>. QED
    BY <1>2, <2>1, <2>2
<1>3. CASE ZeroDirect
  <2>1. k < NrDirect /\ (b \in summed' \/ b = Inode.direct[k])
    BY <1>3 DEF ZeroDirect, ZeroBlock, WriteBlock, MoreDirect
  <2>2. k \in Places /\ HeldAt(j, k) = Inode.direct[k]
    BY <1>0, <2>1, DirectPlace, HeldCases
  <2>. QED
    BY <1>3, <2>1, <2>2
<1>4. CASE ZeroChild
  <2>1. k < BlockSize /\ (b \in summed' \/ b = ibuf[k]) /\ pc \in Loaded /\ mem[j].ind # 0
    BY <1>0, <1>4 DEF ZeroChild, ZeroBlock, WriteBlock, MoreChildren, NrIndirect, Running,
       Loaded, Stands, StandsInTrunc
  <2>. PICK t \in Places : t = NrDirect + k /\ t - NrDirect = k /\ t >= NrDirect
    BY <2>1, ChildPlace
  <2>2. HeldAt(j, t) = ibuf[k]
    BY <2>1, HeldCases DEF Table
  <2>3. ~(t < NrDirect)
    BY PlacesInt, FileStoreAssumption
  <2>. QED
    BY <2>1, <2>2, <2>3
<1>5. CASE \/ BeginWrite \/ MapExisting \/ MapDirect \/ MapIndirect \/ ReadIndirect \/ MapChild
           \/ NoChild \/ MapFails
           \/ TruncNothing \/ BeginTrunc \/ UnmarkDirect \/ TruncDirectOnly \/ LoadIndirect
           \/ UnmarkChild \/ UnmarkIndirect
  BY <1>5 DEF BeginWrite, MapExisting, MapDirect, MapIndirect, ReadIndirect, MapChild,
     NoChild, MapFails, TruncNothing, BeginTrunc, UnmarkDirect,
     TruncDirectOnly, LoadIndirect, UnmarkChild, UnmarkIndirect, disk
<1>6. CASE StoreCsum \/ StoreLastCsum
  BY <1>6 DEF StoreCsum, StoreLastCsum, WithSum
<1>. QED
  BY <1>1, <1>2, <1>3, <1>4, <1>5, <1>6 DEF WriteStep, TruncStep

\* What a step makes of a direct block of the current inode.
LEMMA DirectStep ==
  ASSUME TypeOK, Stands, NEW j \in Inodes, j = Cur.in, WriteStep \/ TruncStep,
         NEW l \in 0 .. (NrDirect - 1)
  PROVE  \/ /\ mem'[j].direct[l] = mem[j].direct[l]
            /\ pc \notin {"store", "csum", "unmark"} \/ (l # Log /\ pc # "unmark")
                 \/ (l # at /\ pc = "unmark")
         \/ mem'[j].direct[l] = 0
         \/ MapDirect /\ l = Log /\ Mapped = 0 /\ mem[j].direct[l] = 0
         \/ StoreData /\ l = Log
         \/ l = Log /\ mem'[j].direct[l] \in summed'
<1>0. /\ todo # <<>> /\ Inode = mem[j] /\ Inode \in Dinode /\ at \in Nat /\ Log \in Nat
      /\ mem \in [Inodes -> Dinode]
      /\ Inode.direct \in [0 .. (NrDirect - 1) -> Phys \cup {0}]
  BY DataStepKeeps, Current, LogNat DEF Inode, Dinode, TypeOK
<1>1. CASE MapDirect
  <2>. PICK b \in Phys : mem' = [mem EXCEPT ![j] = [Inode EXCEPT !.direct = [@ EXCEPT ![Log] = b]]]
    BY <1>1 DEF MapDirect, SetInode
  <2>1. mem'[j].direct = [Inode.direct EXCEPT ![Log] = b]
    BY <1>0 DEF Dinode
  <2>2. pc = "map" /\ Mapped = 0 /\ Log < NrDirect
    BY <1>1 DEF MapDirect, Running
  <2>3. CASE l = Log
    <3>1. mem[j].direct[l] = 0
      BY <1>0, <2>2, <2>3 DEF Mapped, BlockAt
    <3>. QED
      BY <1>1, <2>2, <2>3, <3>1
  <2>4. CASE l # Log
    BY <1>0, <2>1, <2>2, <2>4
  <2>. QED
    BY <2>3, <2>4
<1>2. CASE StoreData
  <2>1. mem' = mem /\ pc = "store"
    BY <1>2 DEF StoreData, SetNoInode, Running
  <2>. QED
    BY <1>2, <2>1
<1>3. CASE StoreCsum \/ StoreLastCsum
  <2>1. Mapped \in summed' /\ pc = "csum"
    BY <1>3, SumsMapped DEF StoreCsum, StoreLastCsum, Running
  <2>3. mem'[j].direct = mem[j].direct
    <3>1. CASE StoreCsum
      BY <3>1 DEF StoreCsum, SetNoInode
    <3>2. CASE StoreLastCsum
      BY <1>0, <3>2 DEF StoreLastCsum, SetInode, Dinode
    <3>. QED
      BY <1>3, <3>1, <3>2
  <2>2. l = Log => Mapped = mem[j].direct[l]
    BY <1>0, FileStoreAssumption DEF Mapped, BlockAt
  <2>. QED
    BY <2>1, <2>2, <2>3
<1>4. CASE UnmarkDirect
  <2>1. mem'[j].direct = [Inode.direct EXCEPT ![at] = 0] /\ pc = "unmark"
    BY <1>0, <1>4 DEF UnmarkDirect, SetInode, Running, Dinode
  <2>. QED
    BY <1>0, <2>1
<1>5. CASE \/ BeginWrite \/ MapExisting \/ ReadIndirect \/ MapChild \/ NoChild \/ WriteIndirect
           \/ TruncNothing \/ BeginTrunc \/ ZeroDirect \/ LoadIndirect \/ ZeroChild \/ UnmarkChild
           \/ ZeroIndirect
  <2>1. mem' = mem /\ pc \notin {"store", "csum", "unmark"}
    BY <1>5 DEF BeginWrite, MapExisting, ReadIndirect, MapChild, NoChild, WriteIndirect,
       TruncNothing, BeginTrunc, ZeroDirect, LoadIndirect, ZeroChild, UnmarkChild, ZeroIndirect,
       SetNoInode, Running
  <2>. QED
    BY <2>1
<1>6. CASE \/ MapIndirect \/ MapFails \/ WriteIndirectFails
           \/ TruncDirectOnly \/ UnmarkIndirect \/ KeepIndirect
  <2>1. mem'[j].direct = mem[j].direct /\ pc \notin {"store", "csum", "unmark"}
    <3>1. CASE MapIndirect
      BY <1>0, <3>1 DEF MapIndirect, SetInode, Running, Dinode
    <3>2. CASE MapFails \/ WriteIndirectFails
      BY <1>0, <3>2 DEF MapFails, WriteIndirectFails, Fail, SetInode, Running, Dinode
    <3>3. CASE TruncDirectOnly
      BY <1>0, <3>3 DEF TruncDirectOnly, SetInode, Running, Dinode
    <3>4. CASE UnmarkIndirect
      BY <1>0, <3>4 DEF UnmarkIndirect, SetInode, Running, Dinode
    <3>5. CASE KeepIndirect
      BY <1>0, <3>5 DEF KeepIndirect, SetInode, Running, Dinode
    <3>. QED
      BY <1>6, <3>1, <3>2, <3>3, <3>4, <3>5
  <2>. QED
    BY <2>1
<1>. QED
  BY <1>1, <1>2, <1>3, <1>4, <1>5, <1>6 DEF WriteStep, TruncStep

\* The direct blocks of the inode that a step writes or truncates.
LEMMA SummedCurrent ==
  ASSUME Busy, ~died, Summed, WriteStep \/ TruncStep, NEW j \in Inodes, j = Cur.in,
         NEW l \in 0 .. (NrDirect - 1)
  PROVE  mem'[j].direct[l] \in summed' \cup {0} \/ Unsummed(j, l)'
<1>0. /\ TypeOK /\ Stands /\ Owned(Live) /\ todo # <<>> /\ j \in Live
      /\ mem[j].direct[l] \in Phys \cup {0} /\ DiskBehind
      /\ mem[j].direct[l] \in summed \cup {0} \/ Unsummed(j, l)
  BY BusyFacts, DataStepKeeps DEF Summed, TypeOK, Dinode
<1>p. l \in Places /\ l < NrDirect /\ l # -1 /\ l \in Nat
  BY DirectPlace, FileStoreAssumption
<1>h. HeldAt(j, l) = mem[j].direct[l]
  BY <1>p, HeldCases
<1>1. CASE StoreData /\ l = Log
  <2>1. pc' = "csum" /\ todo' = todo /\ at' = at
    BY <1>1 DEF StoreData, plan
  <2>. QED
    BY <1>0, <1>1, <2>1 DEF Unsummed, Log, Cur
<1>2. CASE ZeroDirect /\ l = at
  <2>1. pc' = "unmark" /\ todo' = todo /\ at' = at
    BY <1>2 DEF ZeroDirect, plan, regs
  <2>. QED
    BY <1>0, <1>2, <2>1 DEF Unsummed, Cur
<1>3. CASE /\ mem'[j].direct[l] = mem[j].direct[l]
           /\ pc \notin {"store", "csum", "unmark"} \/ (l # Log /\ pc # "unmark")
                \/ (l # at /\ pc = "unmark")
  <2>1. ~Unsummed(j, l)
    BY <1>3 DEF Unsummed
  <2>. PICK b : b = mem[j].direct[l]
    OBVIOUS
  <2>2. CASE b \in summed
    <3>1. ASSUME NEW t \in Places, HeldAt(j, t) = b,
                 t < NrDirect /\ t # -1 => (StoreData /\ t = Log) \/ (ZeroDirect /\ t = at)
          PROVE  (StoreData /\ l = Log) \/ (ZeroDirect /\ l = at)
      <4>1. t = l
        <5>1. b # 0
          BY <1>0, <2>2, BlockNumbers, FileStoreAssumption DEF TypeOK, Phys
        <5>. QED
          BY <1>0, <1>p, <1>h, <3>1, <5>1 DEF Owned
      <4>. QED
        BY <1>p, <3>1, <4>1
    <3>2. b \in summed' \/ (StoreData /\ l = Log) \/ (ZeroDirect /\ l = at)
      BY <1>0, <2>2, <3>1, SumsLost
    <3>. QED
      BY <1>3, <1>1, <1>2, <3>2
  <2>. QED
    BY <1>0, <1>3, <2>1, <2>2
<1>4. CASE mem'[j].direct[l] = 0
  BY <1>4
<1>5. CASE MapDirect /\ l = Log /\ Mapped = 0 /\ mem[j].direct[l] = 0
  <2>1. ~Closing(j)
    BY <1>5 DEF MapDirect, Running, Cur, Closing, Window
  <2>2. RefAt(dino[j], l) \in {0, HeldAt(j, l)}
    BY <1>0, <1>p, <2>1 DEF DiskBehind, OnDisk
  <2>3. dino[j].direct[l] = 0
    BY <1>5, <1>p, <1>h, <2>2 DEF RefAt, BlockAt
  <2>4. pc' = "store" /\ todo' = todo /\ at' = at /\ dino' = dino
    BY <1>5 DEF MapDirect, plan
  <2>5. Unsummed(j, l)'
    BY <1>0, <1>5, <2>3, <2>4 DEF Unsummed, Log, Cur
  <2>. QED
    BY <2>5
<1>6. CASE l = Log /\ mem'[j].direct[l] \in summed'
  BY <1>6
<1>. QED
  BY <1>0, <1>1, <1>2, <1>3, <1>4, <1>5, <1>6, DirectStep

\* A step of the process takes no block of those it holds from the checksum table, but
\* the one it is about to enter or to free.
LEMMA SummedData ==
  ASSUME Busy, ~died, Summed, WriteStep \/ TruncStep
  PROVE  Summed'
<1>0. /\ TypeOK /\ Stands /\ Owned(Live) /\ todo # <<>> /\ Cur.in \in Live
      /\ Live \subseteq Inodes /\ Live' \subseteq Live
  BY BusyFacts, DataStepKeeps, DiskBehindData
<1>. PICK P \in SUBSET Inodes : P = Live
  BY <1>0
<1>. PICK j \in P : j = Cur.in
  BY <1>0
<1>1. ASSUME NEW i \in P, NEW l \in 0 .. (NrDirect - 1), i # j
      PROVE  mem'[i].direct[l] \in summed' \cup {0}
  <2>1. l \in Places /\ l < NrDirect /\ l # -1
    BY DirectPlace, FileStoreAssumption
  <2>2. mem'[i] = mem[i] /\ HeldAt(i, l) = mem[i].direct[l]
    BY <1>0, <1>1, <2>1, OthersSame, HeldCases
  <2>3. mem[i].direct[l] \in summed \cup {0}
    BY <1>1 DEF Summed, Unsummed
  <2>. PICK b : b = mem[i].direct[l]
    OBVIOUS
  <2>4. CASE b = 0
    BY <2>2, <2>4
  <2>5. CASE b # 0
    <3>1. \A t \in Places : HeldAt(j, t) # b
      BY <1>0, <1>1, <2>1, <2>2, <2>5 DEF Owned
    <3>2. b \in summed /\ j \in Inodes
      BY <2>3, <2>5
    <3>3. b \in summed'
      BY <1>0, <3>1, <3>2, SumsLost
    <3>. QED
      BY <2>2, <3>3
  <2>. QED
    BY <2>4, <2>5
<1>2. \A l \in 0 .. (NrDirect - 1) : mem'[j].direct[l] \in summed' \cup {0} \/ Unsummed(j, l)'
  BY SummedCurrent
<1>. QED
  BY <1>0, <1>1, <1>2 DEF Summed

\* The inodes of a command are inodes.
LEMMA LiveNext == ASSUME TypeOK' PROVE Live' \subseteq Inodes
<1>0. \A c \in Call : c.in \in Inodes
  BY DEF Call
<1>1. \A k \in DOMAIN todo' : todo'[k].in \in Inodes
  BY <1>0 DEF TypeOK
<1>2. \A k \in DOMAIN onfail' : onfail'[k].in \in Inodes
  BY <1>0 DEF TypeOK
<1>3. Reachable' \subseteq Inodes
  BY DEF Reachable
<1>. QED
  BY <1>1, <1>2, <1>3 DEF Live, Acting, Targets

\* Between the writes and the truncations no data block changes hands.
LEMMA SummedBetween ==
  ASSUME Busy, Summed, ~died, ReleaseInode \/ SyncInode \/ CreateInode \/ NoInode
  PROVE  Summed'
<1>0. /\ TypeOK /\ Ownership /\ Consistent /\ mem \in [Inodes -> Dinode] /\ Live \subseteq Inodes
  BY BusyFacts DEF Busy, TypeOK
<1>1. summed' = summed /\ pc \in {"ready", "create"}
  BY DEF ReleaseInode, SyncInode, CreateInode, NoInode, Running, disk, TakeNumber
<1>2. \A i, l : ~Unsummed(i, l)
  BY <1>1 DEF Unsummed
<1>3. \A i \in Live' : i \in Live \/ mem[i] = Blank
  BY <1>0, ReleaseConsistent, SyncConsistent, NoInodeConsistent, CreateConsistent
<1>4. ASSUME NEW i \in Inodes, NEW l \in 0 .. (NrDirect - 1)
      PROVE  mem'[i].direct[l] \in {0, mem[i].direct[l]}
  <2>1. CASE ReleaseInode
    <3>1. Blank.direct[l] = 0
      BY DEF Blank
    <3>. QED
      BY <1>0, <2>1, <3>1 DEF ReleaseInode, SetInode
  <2>2. CASE SyncInode \/ NoInode
    BY <2>2 DEF SyncInode, NoInode
  <2>3. CASE CreateInode
    BY <1>0, <2>3 DEF CreateInode, Dinode
  <2>. QED
    BY <2>1, <2>2, <2>3
<1>5. ASSUME NEW i \in Live', NEW l \in 0 .. (NrDirect - 1)
      PROVE  mem[i].direct[l] \in summed \cup {0} /\ i \in Inodes
  <2>1. CASE i \in Live
    BY <1>0, <1>2, <2>1 DEF Summed
  <2>2. CASE i \notin Live
    <3>1. mem[i] = Blank /\ Blank.direct[l] = 0
      BY <1>3, <2>2 DEF Blank
    <3>2. i \in Inodes
      <4>1. Live' \subseteq Inodes
        BY <1>0, StepType, LiveNext DEF Step
      <4>. QED
        BY <4>1
    <3>. QED
      BY <3>1, <3>2
  <2>. QED
    BY <2>1, <2>2
<1>. QED
  BY <1>1, <1>4, <1>5 DEF Summed

\* Through every command, failure and crash.
LEMMA SummedNext ==
  ASSUME TypeOK, Ownership, Consistent, UnsyncedIsDirty, Summed, Next, ~hurt'
  PROVE  Summed'
<1>. SUFFICES ASSUME ~died' PROVE Summed'
  BY DEF Summed
<1>1. CASE Command
  <2>1. mem' = mem /\ summed' = summed /\ pc = "idle" /\ died' = died
    BY <1>1, CommandStarts DEF CanStart, Command, StartWrite, StartCreate, StartRemove, Start
  <2>2. \A i, l : ~Unsummed(i, l)
    BY <2>1 DEF Unsummed
  <2>3. Live' \subseteq Live
    BY <1>1, CommandConsistent DEF Live
  <2>. QED
    BY <2>1, <2>2, <2>3 DEF Summed
<1>2. CASE WriteStep \/ TruncStep
  <2>1. pc # "idle" /\ died' = died
    <3>1. pc # "idle"
      BY <1>2 DEF WriteStep, TruncStep, Running, BeginWrite, MapExisting, MapDirect, MapIndirect,
         ReadIndirect, MapChild, NoChild, WriteIndirect, MapFails, WriteIndirectFails, StoreData,
         StoreCsum, StoreLastCsum, TruncNothing, BeginTrunc, ZeroDirect, UnmarkDirect,
         TruncDirectOnly, LoadIndirect, ZeroChild, UnmarkChild, ZeroIndirect, UnmarkIndirect,
         KeepIndirect
    <3>. QED
      BY <1>2, <3>1, DataStepKeeps DEF command
  <2>. QED
    BY <1>2, <2>1, SummedData DEF Busy
<1>3. CASE ReleaseInode \/ SyncInode \/ CreateInode \/ NoInode
  <2>1. pc # "idle" /\ died' = died
    BY <1>3 DEF ReleaseInode, SyncInode, CreateInode, NoInode, Running, TakeNumber, command
  <2>. QED
    BY <1>3, <2>1, SummedBetween DEF Busy
<1>4. CASE Exit
  <2>1. /\ todo = <<>> /\ todo' = <<>> /\ onfail' = <<>> /\ dirty = {} /\ mem' = dino
        /\ dino' = dino /\ blk' = blk /\ summed' = summed /\ died' = died
    BY <1>4 DEF Exit, Gone, disk
  <2>2. \A i, l : ~Unsummed(i, l)
    BY <2>1 DEF Unsummed
  <2>3. \A i \in Inodes : mem[i] = dino[i]
    BY <2>1 DEF UnsyncedIsDirty
  <2>4. Live' \subseteq Reachable /\ Reachable \subseteq Inodes /\ Reachable \subseteq Live
    BY <2>1, ReachSame, ReachBasics DEF Live, Acting, Targets
  <2>. QED
    BY <2>1, <2>2, <2>3, <2>4 DEF Summed
<1>5. CASE NoInodeBlock \/ AssertionFails \/ Crash
  BY <1>5 DEF NoInodeBlock, AssertionFails, Crash
<1>6. Stands
  BY DEF Ownership
<1>. QED
  BY <1>1, <1>2, <1>3, <1>4, <1>5, <1>6, NoLeftovers DEF Next, Step

\* All direct blocks have their checksums at first: the root directory's has, if the
\* table has an entry at all.
LEMMA SummedInit == Init => Summed
<1>. SUFFICES ASSUME Init PROVE Summed
  OBVIOUS
<1>1. DataStart \in summed
  BY FileStoreAssumption DEF Init, Phys
<1>2. ASSUME NEW i \in Inodes, NEW l \in 0 .. (NrDirect - 1)
      PROVE  mem[i].direct[l] \in {0, DataStart}
  <2>1. Blank.direct = [k \in 0 .. (NrDirect - 1) |-> 0]
    BY DEF Blank
  <2>2. RootInode.direct = [Blank.direct EXCEPT ![0] = DataStart]
    BY DEF RootInode, Blank
  <2>3. mem[i] \in {RootInode, Blank}
    BY DEF Init
  <2>. QED
    BY <2>1, <2>2, <2>3
<1>3. Live \subseteq Inodes
  BY InitType, CurActs DEF Init, Live, Acting, Targets, Reachable
<1>. QED
  BY <1>1, <1>2, <1>3 DEF Summed

\* What the process knows of the checksums shows on the disk.
LEMMA SumsOnDisk ==
  ASSUME TypeOK, Ownership, Consistent, Summed
  PROVE  ChecksumsKeepUp
<1>. SUFFICES ASSUME ~died, NEW i \in Reachable, NEW l \in 0 .. (NrDirect - 1)
              PROVE  \/ dino[i].direct[l] \in summed \cup {0}
                     \/ Window(i)
                     \/ pc = "csum" /\ dino[i].direct[l] = block_nr
  BY DEF ChecksumsKeepUp
<1>0. i \in Live /\ (mem[i].direct[l] \in summed \cup {0} \/ Unsummed(i, l))
  BY DEF Summed, Live
<1>p. l \in Places /\ l < NrDirect /\ l # -1
  BY DirectPlace, FileStoreAssumption
<1>1. CASE pc = "idle"
  <2>1. mem = dino /\ todo = <<>>
    BY <1>1 DEF Ownership, Stands, StandsBetween
  <2>. QED
    BY <1>0, <2>1 DEF Unsummed
<1>2. CASE pc # "idle" /\ ~Window(i)
  <2>1. dino[i].direct[l] \in {0, mem[i].direct[l]}
    <3>1. OnDisk(i)
      BY <1>0, <1>2 DEF Consistent, WhileRunning, DiskBehind, Closing
    <3>2. RefAt(dino[i], l) \in {0, HeldAt(i, l)}
      BY <1>p, <3>1 DEF OnDisk
    <3>. QED
      BY <1>p, <3>2, HeldCases DEF RefAt, BlockAt
  <2>2. CASE Unsummed(i, l)
    <3>1. CASE pc = "store"
      BY <2>2, <3>1 DEF Unsummed
    <3>2. CASE pc = "csum"
      <4>1. l = Log /\ i = Cur.in
        BY <2>2, <3>2 DEF Unsummed
      <4>2. block_nr = mem[i].direct[l]
        BY <1>p, <3>2, <4>1 DEF Mapped, BlockAt, Inode, Ownership, Stands, StandsInWrite
      <4>. QED
        BY <2>1, <3>2, <4>2
    <3>3. CASE pc = "unmark"
      BY <1>2, <2>2, <3>3 DEF Unsummed, Window, Ownership, Stands, StandsInTrunc, TruncSteps
    <3>. QED
      BY <2>2, <3>1, <3>2, <3>3 DEF Unsummed
  <2>. QED
    BY <1>0, <2>1, <2>2
<1>. QED
  BY <1>1, <1>2

\* Nothing changes when nothing happens.
LEMMA SummedSame == ASSUME Summed, UNCHANGED vars PROVE Summed'
<1>1. /\ Reachable' = Reachable /\ todo' = todo /\ onfail' = onfail /\ pc' = pc /\ at' = at
      /\ dino' = dino /\ mem' = mem /\ summed' = summed /\ died' = died
  BY ReachSame DEF vars, disk, plan, regs, command
<1>2. Live' = Live /\ Cur' = Cur
  BY <1>1 DEF Live, Acting, Targets, Cur
<1>3. \A i, l : Unsummed(i, l)' = Unsummed(i, l)
  BY <1>1, <1>2 DEF Unsummed, Log
<1>. QED
  BY <1>1, <1>2, <1>3 DEF Summed

\* As long as no process has died, a direct block in use has its checksum, but the one
\* that is new, has just been written, or is about to be freed.
THEOREM SumsInvariant == Spec => [](hurt \/ Summed)
<1>1. Init => Summed
  BY SummedInit
<1>2. /\ TypeOK /\ (hurt \/ Ownership) /\ Consistency /\ UnsyncedIsDirty /\ (hurt \/ Summed)
      /\ [Next]_vars
      => (hurt \/ Summed)'
  <2>1. ASSUME UNCHANGED vars PROVE hurt' = hurt
    BY <2>1 DEF vars, command
  <2>. QED
    BY <2>1, SummedNext, SummedSame, HurtStays DEF Consistency
<1>. QED
  BY <1>1, <1>2, TypeCorrect, OwnershipInvariant, ConsistencyInvariant, NoChangeLost, PTL DEF Spec
-----------------------------------------------------------------------------
\* A process that writes or truncates is at work.
LEMMA DataBusy ==
  ASSUME TypeOK, Ownership, Consistent, WriteStep \/ TruncStep
  PROVE  Busy
<1>1. pc # "idle"
  BY DEF WriteStep, TruncStep, Running, BeginWrite, MapExisting, MapDirect, MapIndirect,
     ReadIndirect, MapChild, NoChild, WriteIndirect, MapFails, WriteIndirectFails, StoreData,
     StoreCsum, StoreLastCsum, TruncNothing, BeginTrunc, ZeroDirect, UnmarkDirect,
     TruncDirectOnly, LoadIndirect, ZeroChild, UnmarkChild, ZeroIndirect, UnmarkIndirect,
     KeepIndirect
<1>. QED
  BY <1>1 DEF Busy
-----------------------------------------------------------------------------
(* A new block is zero until it is written.                                *)

\* A step of a call that leaves the flag and does not map a block.
LEMMA FreshStays ==
  ASSUME FreshIsZero, fresh' = fresh \/ ~fresh', pc # "store" \/ ~fresh', pc' # "indirect"
  PROVE  FreshIsZero'
BY DEF FreshIsZero

\* The blocks that testfs_allocate_block takes.
LEMMA FreshMapped ==
  ASSUME TypeOK, Stands, NoBlockTwice, FreeAreZero, FreshIsZero,
         MapDirect \/ MapChild \/ NoChild \/ WriteIndirect
  PROVE  FreshIsZero'
<1>. PICK j \in Acting : j = Cur.in /\ j \in Inodes /\ todo # <<>> /\ Inode = mem[j]
  BY CurActs DEF MapDirect, MapChild, NoChild, WriteIndirect, Running, Inode
<1>. PICK log \in Nat : log = Log
  BY LogNat
<1>0. /\ ibuf \in [Cells -> Int] /\ mem \in [Inodes -> Dinode]
      /\ Inode.direct \in [0 .. (NrDirect - 1) -> Phys \cup {0}]
  BY DEF TypeOK, Dinode
<1>1. CASE MapDirect
  <2>. PICK b \in Phys \ bmap :
         mem' = [mem EXCEPT ![j] = [Inode EXCEPT !.direct = [@ EXCEPT ![log] = b]]]
    BY <1>1 DEF MapDirect, Alloc, SetInode
  <2>1. /\ pc' = "store" /\ blk' = blk /\ todo' = todo /\ at' = at /\ log < NrDirect
    BY <1>1 DEF MapDirect, plan
  <2>2. mem'[j].direct[log] = b
    BY <1>0, <2>1, FileStoreAssumption DEF Dinode
  <2>3. Cur' = Cur /\ Log' = log
    BY <2>1 DEF Cur, Log
  <2>4. Mapped' = b
    BY <2>1, <2>2, <2>3 DEF Mapped, BlockAt, Inode
  <2>. QED
    BY <2>1, <2>4 DEF FreshIsZero, FreeAreZero
<1>2. CASE MapChild
  <2>. PICK b \in Phys \ bmap : ibuf' = [ibuf EXCEPT ![log - NrDirect] = b]
    BY <1>2 DEF MapChild, Alloc
  <2>1. /\ pc = "child" /\ pc' = "indirect" /\ blk' = blk /\ todo' = todo /\ at' = at
        /\ fresh' = fresh
    BY <1>2 DEF MapChild, Running, plan
  <2>2. Cur' = Cur /\ Log' = log
    BY <2>1 DEF Cur, Log
  <2>3. log - NrDirect \in Cells
    BY <2>1, FileStoreAssumption DEF Stands, StandsInWrite, NrLogical, NrIndirect, Cells
  <2>4. ibuf'[log - NrDirect] = b
    BY <1>0, <2>3
  <2>. QED
    BY <2>1, <2>2, <2>4 DEF FreshIsZero, FreeAreZero
<1>3. CASE NoChild
  <2>1. /\ pc = "child" /\ pc' = "indirect" /\ blk' = blk /\ todo' = todo /\ at' = at
        /\ fresh' = fresh /\ ibuf' = ibuf
    BY <1>3 DEF NoChild, Running, plan, regs, disk
  <2>2. Cur' = Cur /\ Log' = log
    BY <2>1 DEF Cur, Log
  <2>3. ibuf[log - NrDirect] = 0
    BY <2>1, FileStoreAssumption DEF Stands, StandsInWrite, Mapped, BlockAt
  <2>. QED
    BY <2>1, <2>2, <2>3 DEF FreshIsZero
<1>4. CASE WriteIndirect
  <2>. PICK c : c = ibuf[log - NrDirect]
    OBVIOUS
  <2>1. /\ pc = "indirect" /\ pc' = "store" /\ todo' = todo /\ at' = at /\ mem' = mem
        /\ c # 0 /\ NrDirect <= log /\ log < NrLogical /\ mem[j].ind # 0
    BY <1>4 DEF WriteIndirect, Running, plan, SetNoInode, Stands, StandsInWrite
  <2>2. Cur' = Cur /\ Log' = log
    BY <2>1 DEF Cur, Log
  <2>3. /\ HeldAt(j, -1) = mem[j].ind /\ mem[j].ind \in Phys
        /\ blk' = [blk EXCEPT ![mem[j].ind] = ibuf] /\ blk'[mem[j].ind] = ibuf
        /\ \A s \in Places : s >= NrDirect => HeldAt(j, s) = ibuf[s - NrDirect]
    BY <1>4, StoresTable
  <2>4. log \in Places /\ log # -1 /\ -1 \in Places
    BY <2>1, LogicalPlace, PlacesInt
  <2>5. c \in bmap /\ c # mem[j].ind
    BY <2>1, <2>3, <2>4 DEF NoBlockTwice, Owned
  <2>6. c \in Phys /\ blk'[c] = Zero
    BY <2>1, <2>3, <2>5 DEF FreshIsZero, TypeOK
  <2>7. Mapped' = c
    BY <2>1, <2>2, <2>3, FileStoreAssumption DEF Mapped, BlockAt, Inode
  <2>. QED
    BY <2>1, <2>6, <2>7 DEF FreshIsZero
<1>. QED
  BY <1>1, <1>2, <1>3, <1>4

\* Through every command, failure and crash.
LEMMA FreshNext ==
  ASSUME TypeOK, Stands, NoBlockTwice, FreeAreZero, FreshIsZero, Next
  PROVE  FreshIsZero'
<1>1. CASE MapDirect \/ MapChild \/ NoChild \/ WriteIndirect
  BY <1>1, FreshMapped
<1>2. CASE \/ BeginWrite \/ MapExisting \/ MapIndirect \/ ReadIndirect \/ StoreData \/ StoreCsum
           \/ StoreLastCsum \/ MapFails \/ WriteIndirectFails
  BY <1>2, FreshStays DEF BeginWrite, MapExisting, MapIndirect, ReadIndirect, StoreData, StoreCsum,
     StoreLastCsum, MapFails, WriteIndirectFails, Running, Return, Fail, regs
<1>3. CASE TruncStep
  BY <1>3, FreshStays DEF TruncStep, TruncNothing, BeginTrunc, ZeroDirect, UnmarkDirect,
     TruncDirectOnly, LoadIndirect, ZeroChild, UnmarkChild, ZeroIndirect, UnmarkIndirect,
     KeepIndirect, Running, Return, regs
<1>4. CASE ReleaseInode \/ SyncInode \/ CreateInode \/ NoInode
  BY <1>4, FreshStays DEF ReleaseInode, SyncInode, CreateInode, NoInode, TakeNumber, Running,
     Return, regs
<1>5. CASE NoInodeBlock \/ Exit \/ AssertionFails \/ Crash
  BY <1>5, FreshStays DEF NoInodeBlock, Exit, AssertionFails, Crash, Gone
<1>6. CASE Command
  BY <1>6, FreshStays DEF Command, StartWrite, StartCreate, StartRemove, CanStart, Start, regs
<1>. QED
  BY <1>1, <1>2, <1>3, <1>4, <1>5, <1>6, NoLeftovers DEF Next, Step, WriteStep
-----------------------------------------------------------------------------
(* A number that is marked is used or about to be given back.              *)

\* An entry of a directory leads on, in the next state.
LEMMA ReachKidNext ==
  ASSUME NEW d \in Reachable', dino'[d].type = "dir", NEW x \in Inodes, x \in Children(dino[d])'
  PROVE  x \in Reachable'
BY DEF Reachable

\* What was reachable still is, but for X, when no directory loses an entry but for X and
\* the directories of X are empty.
LEMMA ReachGrows ==
  ASSUME NEW X \in SUBSET Inodes,
         \A d \in Dirs : /\ dino'[d].type = "dir"
                         /\ \A x \in Children(dino[d]) \cap Inodes :
                              d \notin X /\ (x \in X \/ x \in Children(dino[d])')
  PROVE  Reachable \subseteq Reachable' \cup X
<1>. PICK S \in SUBSET Inodes : S = Reachable \cap (Reachable' \cup X)
  BY ReachBasics
<1>1. 0 \in S
  BY ReachBasics DEF Reachable
<1>2. ASSUME NEW d \in S, dino[d].type = "dir", NEW x \in Children(dino[d]) \cap Inodes
      PROVE  x \in S
  <2>1. d \in Dirs /\ x \in Reachable
    BY <1>2 DEF Dirs, Reachable
  <2>2. d \in Reachable' /\ dino'[d].type = "dir" /\ (x \in X \/ x \in Children(dino[d])')
    BY <1>2, <2>1
  <2>3. x \in X \/ x \in Reachable'
    BY <2>2, ReachKidNext
  <2>. QED
    BY <2>1, <2>3
<1>3. Reachable \subseteq S
  BY <1>1, <1>2, ReachInside
<1>. QED
  BY <1>3

\* The entries of a directory on the disk are among those that the process knows.
LEMMA ChildKnown ==
  ASSUME TypeOK, Stands, DirsKept, NEW d \in Dirs, NEW x \in Children(dino[d])
  PROVE  \E k \in Known(d) : /\ k \in Nat /\ k < dino[d].size /\ k >= 2
                             /\ MemCell(d, k) = x + 1 /\ MemCell(d, k) > 0
<1>. PICK k \in LiveSlots(dino[d]) : x = CellAt(dino[d], k) - 1
  BY DEF Children
<1>1. k \in 2 .. (dino[d].size - 1) /\ CellAt(dino[d], k) > 0
  BY DEF LiveSlots
<1>2. k \in Known(d) /\ k \in Nat /\ k < dino[d].size /\ CellAt(dino[d], k) = MemCell(d, k)
  BY <1>1, DirCell
<1>3. CellAt(dino[d], k) \in Int
  BY <1>2, CellInt
<1>. QED
  BY <1>1, <1>2, <1>3

\* An entry that the process keeps within the size on the disk is an entry of the directory.
LEMMA ChildNext ==
  ASSUME TypeOK', NEW d \in Inodes, OnDisk(d)', NEW k \in Nat, k >= 2, k < dino'[d].size,
         NEW x \in Inodes, MemCell(d, k)' = x + 1
  PROVE  x \in Children(dino[d])'
<1>1. CellAt(dino[d], k)' = x + 1
  BY DiskCellNext
<1>2. dino' \in [Inodes -> Dinode] /\ x \in Nat
  BY Sizes DEF TypeOK
<1>3. dino'[d].size \in Nat
  BY <1>2 DEF Dinode
<1>4. k \in 2 .. (dino'[d].size - 1) /\ x + 1 > 0 /\ x = (x + 1) - 1
  BY <1>2, <1>3
<1>. QED
  BY <1>1, <1>4 DEF Children, LiveSlots
-----------------------------------------------------------------------------
(* A new entry is written where there is no name.                          *)

\* Between the writes and the truncations no directory gets or loses a name in memory.
LEMMA NamesBetween ==
  ASSUME TypeOK, Ownership, Consistent, TypeOK',
         \/ ReleaseInode \/ SyncInode \/ CreateInode \/ NoInode \/ Command
         \/ NoInodeBlock \/ Exit \/ AssertionFails \/ Crash, Command => ~hurt',
         NEW d \in Dirs', NEW k \in Known(d)'
  PROVE  d \in Dirs /\ k \in Known(d) /\ MemCell(d, k)' = MemCell(d, k)
<1>0. /\ TypeOK /\ Stands /\ DirsKept /\ NamesSound /\ Typed /\ Dirs \subseteq Reachable
      /\ Dirs \subseteq Inodes
  BY ReachBasics DEF Ownership, Consistent
<1>q. ASSUME d \in Dirs, pc \notin Loaded \cup {"csum"}, pc' \notin Loaded \cup {"csum"},
             blk' = blk, mem'[d] = mem[d]
      PROVE  d \in Dirs /\ k \in Known(d) /\ MemCell(d, k)' = MemCell(d, k)
  BY <1>q, QuietHeld
<1>1. CASE ReleaseInode
  <2>1. Busy
    BY <1>1 DEF Busy, ReleaseInode, Running
  <2>. PICK i \in Inodes :
         /\ i \notin Reachable /\ pc = "ready" /\ mem' = [mem EXCEPT ![i] = Blank]
         /\ pc' = "ready" /\ dino' = dino /\ blk' = blk
    BY <1>1, <2>1, ReleaseFacts
  <2>2. d \in Dirs
    BY ReachSame
  <2>. QED
    BY <1>0, <1>q, <2>2 DEF Loaded, TypeOK
<1>2. CASE SyncInode
  <2>1. Busy
    BY <1>2 DEF Busy, SyncInode, Running
  <2>2. /\ Cur.in \in Inodes /\ pc = "ready" /\ mem' = mem /\ pc' = "ready" /\ blk' = blk
    BY <2>1, <1>2, SyncFacts
  <2>3. d \in Dirs \/ (d = Cur.in /\ mem[d].size <= 2)
    BY <1>2, <2>1, SyncReach
  <2>4. d \in Dirs
    <3>1. Known(d)' = 2 .. (mem[d].size - 1)
      BY <2>2, Zenon DEF Known
    <3>2. d \in Inodes => mem[d].size \in Nat
      BY SizeNat
    <3>. QED
      BY <2>2, <2>3, <3>1, <3>2
  <2>. QED
    BY <1>q, <2>2, <2>4 DEF Loaded
<1>3. CASE CreateInode
  <2>. PICK i \in Inodes :
         /\ pc = "create" /\ i \notin Reachable /\ \A j \in Inodes : j # i => mem'[j] = mem[j]
         /\ dino' = dino /\ blk' = blk /\ pc' = "ready"
    BY <1>3, CreateFacts
  <2>1. d \in Dirs
    BY ReachSame
  <2>. QED
    BY <1>0, <1>q, <2>1 DEF Loaded
<1>4. CASE NoInode \/ Command
  <2>1. /\ todo = <<>> /\ UNCHANGED <<imap, dino, blk, mem, died>>
        /\ pc \notin Loaded \cup {"csum"} /\ pc' \notin Loaded \cup {"csum"}
    <3>1. CASE NoInode
      BY <1>0, <3>1 DEF NoInode, Stands, StandsBetween, disk, command, Loaded
    <3>2. CASE Command
      <4>1. died' = died
        BY <3>2 DEF Command, StartWrite, StartCreate, StartRemove, Start
      <4>. QED
        BY <1>0, <3>2, <4>1, CommandStarts DEF CanStart, Stands, StandsBetween, Loaded
    <3>. QED
      BY <1>4, <3>1, <3>2
  <2>. QED
    BY <1>0, <2>1, QuietKeeps
<1>5. CASE NoInodeBlock \/ Exit \/ AssertionFails \/ Crash
  <2>1. /\ Gone /\ UNCHANGED <<dino, blk>> /\ imap \subseteq imap'
        /\ died' \/ (died' = died /\ todo = <<>>)
    BY <1>5 DEF NoInodeBlock, TakeNumber, Exit, AssertionFails, Crash, disk
  <2>. QED
    BY <1>0, <2>1, GoneConsistent
<1>. QED
  BY <1>1, <1>2, <1>3, <1>4, <1>5

\* The entries stay as they are, and the calls that are left write none.
LEMMA EntriesQuiet ==
  ASSUME EntriesPlaced,
         \A d \in Dirs' : \A k \in Known(d)' :
           d \in Dirs /\ k \in Known(d) /\ MemCell(d, k)' = MemCell(d, k),
         \A n \in DOMAIN todo' : todo'[n].op # "write" \/ todo'[n].in \notin Dirs' \/ Spare(todo[n])'
  PROVE  EntriesPlaced'
<1>1. \A d \in Dirs' : \A k \in Known(d)' : MemCell(d, k)' # 0 => (k + 1) % BlockSize # 0
  BY DEF EntriesPlaced
<1>2. ASSUME NEW n \in DOMAIN todo' PROVE Spare(todo[n])'
  BY DEF Spare
<1>. QED
  BY <1>1, <1>2 DEF EntriesPlaced

\* The calls after a release or a sync write no data.
LEMMA OnlySyncs ==
  ASSUME Busy, ReleaseInode \/ SyncInode, NEW n \in DOMAIN todo'
  PROVE  todo'[n].op # "write"
<1>0. TypeOK /\ Doing /\ todo # <<>> /\ todo' = Tail(todo)
  BY BusyFacts DEF ReleaseInode, SyncInode, Running, Return
<1>. PICK m \in Nat : m = Len(todo)
  BY <1>0, CurFirst
<1>1. DOMAIN todo' = 1 .. (m - 1) /\ \A k \in 1 .. (m - 1) : todo'[k] = todo[k + 1]
  BY <1>0, TailLeft
<1>2. CASE ReleaseInode
  <2>. PICK i \in Inodes : \/ Removing(i) /\ m = 3
                           \/ Undoing(i) /\ m = 2
    BY <1>0, <1>2, ReleasePlan DEF ReleaseInode, Running, Cur
  <2>1. CASE Removing(i) /\ m = 3
    <3>1. todo[3] = SyncCall(0) /\ todo[2] = SyncCall(i)
      BY <2>1 DEF Removing
    <3>. QED
      BY <1>1, <2>1, <3>1, CallOps
  <2>2. CASE Undoing(i) /\ m = 2
    <3>1. todo[2] = SyncCall(i)
      BY <2>2 DEF Undoing
    <3>. QED
      BY <1>1, <2>2, <3>1, CallOps
  <2>. QED
    BY <2>1, <2>2
<1>3. CASE SyncInode
  <2>1. m \in {1, 2}
    BY <1>3, SyncFacts
  <2>2. CASE m = 1
    BY <1>1, <2>2
  <2>3. CASE m = 2
    <3>1. \E i : todo[2] = SyncCall(i)
      <4>1. Cur.op = "sync"
        BY <1>3 DEF SyncInode, Running, Cur
      <4>. QED
        BY <1>0, <2>3, <4>1, SyncPlan DEF Removing, Creating
    <3>. QED
      BY <1>1, <2>3, <3>1, CallOps
  <2>. QED
    BY <2>1, <2>2, <2>3
<1>. QED
  BY <1>2, <1>3

-----------------------------------------------------------------------------
(* The entries "." and "..".                                               *)

\* Only a write or the undoing of a creation is under way when the last call is to write
\* a directory that is new.
LEMMA LastDir ==
  ASSUME Busy, WriteStep \/ TruncStep, NEW i \in Inodes, todo[Len(todo)] = SyncCall(i),
         mem[i].type = "dir"
  PROVE  \/ i = 0
         \/ WriteStep /\ Cur.n = 1 /\ Len(todo) >= 3
         \/ TruncStep /\ Len(todo) >= 3 /\ todo[Len(todo) - 1] = ReleaseCall(i)
<1>0. TypeOK /\ Doing /\ Len(todo) \in Nat
  BY BusyFacts, DataCall, CurFirst
<1>. PICK m \in Nat : m = Len(todo)
  BY <1>0
<1>1. CASE WriteStep
  <2>. PICK x \in Inodes :
         \/ Writing(x) /\ m = 3
         \/ Removing(x)
         \/ \E p \in Inodes : Creating(p, x) /\ m >= 3 /\ Cur.n = 1
    BY <1>0, <1>1, DataCall, WritePlan
  <2>1. CASE Writing(x)
    BY <2>1, CallOps, ZenonT(30) DEF Writing
  <2>2. CASE Removing(x)
    BY <2>2, RemovingLeft, CallOps
  <2>. QED
    BY <1>1, <2>1, <2>2
<1>2. CASE TruncStep
  <2>1. \/ StandsStill
        \/ \E x \in Inodes : \/ Writing(x)
                             \/ Removing(x)
                             \/ Undoing(x) /\ m >= 3
    BY <1>0, <1>2, DataCall, TruncPlan
  <2>2. CASE StandsStill
    <3>1. m = 1 /\ Cur.op = "trunc" /\ Cur = todo[1]
      BY <1>0, <2>2, DataCall, CurFirst DEF StandsStill
    <3>. QED
      BY <3>1, CallOps
  <2>3. ASSUME NEW x \in Inodes, Writing(x) PROVE FALSE
    BY <2>3, CallOps, ZenonT(30) DEF Writing
  <2>4. ASSUME NEW x \in Inodes, Removing(x) PROVE i = 0
    BY <2>4, RemovingLeft, CallOps
  <2>5. ASSUME NEW x \in Inodes, Undoing(x), m >= 3
        PROVE  todo[m - 1] = ReleaseCall(i)
    <3>1. todo[m] = SyncCall(x) /\ todo[m - 1] = ReleaseCall(x)
      BY <2>5 DEF Undoing
    <3>2. x = i
      BY <3>1, CallOps, ZenonT(30)
    <3>. QED
      BY <3>1, <3>2
  <2>. QED
    BY <1>2, <2>1, <2>2, <2>3, <2>4, <2>5
<1>. QED
  BY <1>1, <1>2

\* A data step: a directory grows, or is cut back when no path leads to it.
LEMMA DotsData ==
  ASSUME Busy, DotsFirst, TypeOK', WriteStep \/ TruncStep
  PROVE  DotsFirst'
<1>0. /\ TypeOK /\ Stands /\ Dirs' \subseteq Dirs /\ dino' = dino /\ RootStays
      /\ todo # <<>> /\ \A i \in Inodes : mem'[i].type = mem[i].type /\ mem'[i].size \in Nat
      /\ \A i \in Inodes : i # Cur.in => mem'[i] = mem[i]
  BY BusyFacts, ReachData, DataStepKeeps DEF TypeOK, Dinode
<1>. PICK m \in Nat : m = Len(todo)
  BY <1>0, CurFirst
<1>1. \A d \in Dirs' : dino'[d].size >= 2
  BY <1>0 DEF DotsFirst
<1>r. mem'[0].size >= 2
  <2>1. 0 \in Dirs
    BY <1>0, ReachBasics DEF RootStays, Dirs
  <2>2. dino[0].size >= 2
    BY <2>1 DEF DotsFirst
  <2>. QED
    BY <2>1, <2>2, DirOnDisk
<1>2. ASSUME NEW i \in Inodes, todo' # <<>>, todo'[Len(todo')] = SyncCall(i),
             mem'[i].type = "dir"
      PROVE  \/ mem'[i].size >= 2
             \/ Releasing(i)'
             \/ \E n \in DOMAIN todo' : Is(todo'[n], "write", i) /\ todo'[n].off = 1
  <2>1. CASE MapFails \/ WriteIndirectFails
    <3>. PICK x \in Inodes :
           \/ Writing(x) /\ Len(todo) = 3 /\ onfail = <<SyncCall(x)>>
           \/ onfail = <<>>
           \/ onfail = <<TruncCall(x, 0), ReleaseCall(x), SyncCall(x)>>
      BY <2>1, FailPlan
    <3>1. todo' = CutBack \o onfail
      BY <2>1 DEF MapFails, WriteIndirectFails, Fail
    <3>. PICK l \in Nat : l = Len(onfail)
      BY <1>0 DEF TypeOK
    <3>2. /\ Len(todo') = l + 1 /\ todo'[1].op = "trunc"
          /\ \A k \in 1 .. l : todo'[k + 1] = onfail[k]
      BY <1>0, <3>1, CutLeft, CallOps
    <3>3. CASE Writing(x) /\ onfail = <<SyncCall(x)>>
      <4>1. l = 1 /\ onfail[1] = SyncCall(x) /\ mem[x].type # "dir"
        BY <3>3 DEF Writing
      <4>2. todo'[1 + 1] = SyncCall(x)
        BY <3>2, <4>1
      <4>. QED
        BY <1>0, <1>2, <3>2, <4>1, <4>2, CallOps
    <3>4. CASE onfail = <<>>
      BY <1>2, <3>2, <3>4, CallOps
    <3>5. CASE onfail = <<TruncCall(x, 0), ReleaseCall(x), SyncCall(x)>>
      <4>1. l = 3 /\ onfail[2] = ReleaseCall(x) /\ onfail[3] = SyncCall(x)
        BY <3>5
      <4>2. todo'[2 + 1] = ReleaseCall(x) /\ todo'[3 + 1] = SyncCall(x) /\ Len(todo') = 4
        BY <3>2, <4>1
      <4>3. i = x
        BY <1>2, <4>2, CallOps
      <4>4. 3 \in DOMAIN todo'
        BY <4>2 DEF TypeOK
      <4>. QED
        BY <4>2, <4>3, <4>4 DEF Releasing
    <3>. QED
      BY <3>3, <3>4, <3>5
  <2>2. CASE todo' = todo
    <3>1. \/ i = 0
          \/ WriteStep
          \/ TruncStep /\ m >= 3 /\ todo[m - 1] = ReleaseCall(i)
      BY <1>0, <1>2, <2>2, LastDir
    <3>2. CASE WriteStep
      <4>1. mem'[i].size >= mem[i].size
        BY <1>0, <3>2, WriteSizes, SizeNat
      <4>2. \/ mem[i].size >= 2
            \/ Releasing(i)
            \/ \E n \in DOMAIN todo : Is(todo[n], "write", i) /\ todo[n].off = 1
        BY <1>0, <1>2, <2>2 DEF DotsFirst
      <4>3. Releasing(i)' = Releasing(i)
        BY <2>2 DEF Releasing
      <4>. QED
        BY <1>0, <2>2, <4>1, <4>2, <4>3, SizeNat
    <3>3. CASE TruncStep /\ m >= 3 /\ todo[m - 1] = ReleaseCall(i)
      <4>1. m - 1 \in DOMAIN todo'
        BY <1>0, <2>2, <3>3 DEF TypeOK
      <4>. QED
        BY <2>2, <3>3, <4>1 DEF Releasing
    <3>. QED
      BY <1>r, <3>1, <3>2, <3>3
  <2>3. CASE todo' = Tail(todo) /\ (WriteStep => StoreLastCsum)
    <3>0. /\ m > 1 /\ Len(todo') = m - 1 /\ DOMAIN todo = 1 .. m /\ DOMAIN todo' = 1 .. (m - 1)
          /\ \A k \in 1 .. (m - 1) : todo'[k] = todo[k + 1]
      BY <1>0, <1>2, <2>3, TailLeft
    <3>1. todo[m] = SyncCall(i)
      <4>1. m - 1 \in 1 .. (m - 1) /\ (m - 1) + 1 = m
        BY <3>0
      <4>. QED
        BY <1>2, <3>0, <4>1, Zenon
    <3>2. \/ i = 0
          \/ WriteStep /\ Cur.n = 1
          \/ TruncStep /\ m >= 3 /\ todo[m - 1] = ReleaseCall(i)
      BY <1>0, <1>2, <3>1, LastDir
    <3>3. CASE WriteStep /\ Cur.n = 1
      <4>0. Cur = todo[1] /\ Cur.op = "write"
        BY <1>0, <3>3, CurFirst, DataCall
      <4>1. mem'[i].size >= mem[i].size
        BY <1>0, <3>3, WriteSizes, SizeNat
      <4>2. \/ mem[i].size >= 2
            \/ Releasing(i)
            \/ \E n \in DOMAIN todo : Is(todo[n], "write", i) /\ todo[n].off = 1
        BY <1>0, <1>2, <3>1 DEF DotsFirst
      <4>3. ASSUME NEW n \in DOMAIN todo, n # 1
            PROVE  n - 1 \in DOMAIN todo' /\ todo'[n - 1] = todo[n]
        <5>1. n - 1 \in 1 .. (m - 1) /\ (n - 1) + 1 = n
          BY <3>0, <4>3
        <5>. QED
          BY <3>0, <5>1, Zenon
      <4>4. CASE Releasing(i)
        <5>. PICK n \in DOMAIN todo : todo[n] = ReleaseCall(i)
          BY <4>4 DEF Releasing
        <5>. QED
          BY <4>0, <4>3, CallOps DEF Releasing
      <4>5. ASSUME NEW n \in DOMAIN todo, Is(todo[n], "write", i), todo[n].off = 1
            PROVE  \/ mem'[i].size >= 2
                   \/ \E k \in DOMAIN todo' : Is(todo'[k], "write", i) /\ todo'[k].off = 1
        <5>1. CASE n = 1
          <6>1. i = Cur.in /\ Cur.off = 1
            BY <4>0, <4>5, <5>1 DEF Is
          <6>2. mem'[i].size = MaxOf(mem[i].size, 1 + 1)
            BY <1>0, <2>3, <3>3, <6>1, WriteSizes
          <6>. QED
            BY <1>0, <6>2, SizeNat DEF MaxOf
        <5>2. CASE n # 1
          BY <4>3, <4>5, <5>2
        <5>. QED
          BY <5>1, <5>2
      <4>. QED
        BY <1>0, <4>1, <4>2, <4>4, <4>5, SizeNat
    <3>4. CASE TruncStep /\ m >= 3 /\ todo[m - 1] = ReleaseCall(i)
      <4>1. m - 2 \in 1 .. (m - 1) /\ (m - 2) + 1 = m - 1
        BY <3>4
      <4>2. m - 2 \in DOMAIN todo' /\ todo'[m - 2] = ReleaseCall(i)
        BY <3>0, <3>4, <4>1, Zenon
      <4>. QED
        BY <4>2 DEF Releasing
    <3>. QED
      BY <1>r, <3>2, <3>3, <3>4
  <2>. QED
    BY <1>0, <2>1, <2>2, <2>3, DataPlan
<1>. QED
  BY <1>1, <1>2 DEF DotsFirst

\* The directory that is released is not reachable.
LEMMA DotsRelease ==
  ASSUME Busy, DotsFirst, ReleaseInode
  PROVE  DotsFirst'
<1>0. TypeOK /\ Doing /\ RootStays /\ 0 \in Dirs
  BY BusyFacts, ReachBasics DEF RootStays, Dirs
<1>. PICK i \in Inodes :
       /\ Cur.in = i /\ Cur.op = "release" /\ todo # <<>>
       /\ mem' = [mem EXCEPT ![i] = Blank] /\ todo' = Tail(todo) /\ dino' = dino /\ blk' = blk
  BY ReleaseFacts
<1>. PICK m \in Nat : m = Len(todo)
  BY <1>0, CurFirst
<1>1. Dirs' = Dirs
  BY ReachSame
<1>2. ASSUME NEW x \in Inodes, todo' # <<>>, todo'[Len(todo')] = SyncCall(x),
             mem'[x].type = "dir"
      PROVE  mem'[x].size >= 2
  <2>1. x # i /\ mem'[x] = mem[x]
    BY <1>0, <1>2 DEF TypeOK, Blank
  <2>2. todo[m] = SyncCall(x)
    <3>1. /\ m > 1 /\ Len(todo') = m - 1 /\ \A k \in 1 .. (m - 1) : todo'[k] = todo[k + 1]
      BY <1>0, <1>2, TailLeft
    <3>2. m - 1 \in 1 .. (m - 1) /\ (m - 1) + 1 = m
      BY <3>1
    <3>. QED
      BY <1>2, <3>1, <3>2, Zenon
  <2>. PICK y \in Inodes : Cur.in = y /\ (Removing(y) \/ (Undoing(y) /\ Len(todo) = 2))
    BY <1>0, ReleasePlan
  <2>3. CASE Removing(y)
    <3>1. x = 0
      BY <2>2, <2>3, RemovingLeft, CallOps
    <3>2. dino[0].size >= 2 /\ dino[0].size <= mem[0].size
      BY <1>0, BusyFacts DEF DotsFirst, DirsKept
    <3>. QED
      BY <1>0, <2>1, <3>1, <3>2, SizeNat
  <2>4. CASE Undoing(y) /\ Len(todo) = 2
    <3>1. todo[m] = SyncCall(y)
      BY <2>4 DEF Undoing
    <3>2. SyncCall(x) = SyncCall(y) /\ i = y
      BY <2>2, <3>1, Zenon
    <3>. QED
      BY <2>1, <3>2, CallOps
  <2>. QED
    BY <2>3, <2>4
<1>. QED
  BY <1>1, <1>2 DEF DotsFirst

\* The directory that becomes reachable has its entries.
LEMMA DotsSync ==
  ASSUME Busy, DotsFirst, SyncInode
  PROVE  DotsFirst'
<1>0. TypeOK /\ Doing /\ DirsKept /\ NamesSound /\ Stands
  BY BusyFacts
<1>. PICK p \in Inodes :
       /\ Cur.in = p /\ Cur = SyncCall(p) /\ pc = "ready" /\ todo # <<>>
       /\ mem' = mem /\ dino' = [dino EXCEPT ![p] = mem[p]]
       /\ todo' = Tail(todo) /\ Len(todo) \in {1, 2}
  BY SyncFacts
<1>. PICK m \in {1, 2} : m = Len(todo)
  OBVIOUS
<1>f. Cur = todo[1] /\ Cur.op = "sync"
  BY <1>0, CurFirst, CallOps
<1>1. ASSUME NEW d \in Dirs'
      PROVE  dino'[d].size >= 2
  <2>0. /\ \A x \in Reachable' : Named(x) \/ x \in Reachable
        /\ d \in Dirs \/ d = p
    BY SyncReach
  <2>1. CASE d \in Dirs
    <3>1. d \in Inodes /\ dino[d].size >= 2 /\ dino[d].size <= mem[d].size
      BY <1>0, <2>1, ReachBasics DEF DotsFirst, DirsKept
    <3>. QED
      BY <1>0, <3>1, SizeNat DEF TypeOK
  <2>2. CASE d = p /\ d \notin Dirs
    <3>1. d \in Reachable' /\ dino'[d].type = "dir" /\ dino'[d] = mem[d]
      BY <1>0, <2>2 DEF Dirs, TypeOK
    <3>2. Named(d) \/ d \in Reachable
      BY <2>0, <3>1
    <3>. PICK i \in Inodes :
           \/ Writing(i) /\ Len(todo) = 1 /\ Cur.in = i
           \/ Removing(i) /\ Len(todo) = 1 /\ Cur.in = 0
           \/ Removing(i) /\ Len(todo) = 2 /\ Cur.in = i
           \/ Undoing(i) /\ Len(todo) = 1 /\ Cur.in = i
           \/ \E q \in Inodes : /\ Creating(q, i)
                                /\ \/ Len(todo) = 1 /\ Cur.in = i
                                   \/ Len(todo) = 2 /\ Cur.in = q
      BY <1>0, <1>f, SyncPlan
    <3>3. CASE Writing(i) /\ Cur.in = i
      BY <2>2, <3>1, <3>3 DEF Writing
    <3>4. CASE Cur.in = 0
      BY <2>2, <3>4, BusyFacts, ReachBasics DEF RootStays, Dirs
    <3>5. ASSUME Named(i), Cur.in = i, (Removing(i) /\ Len(todo) = 2) \/ Undoing(i)
          PROVE  FALSE
      <4>1. CASE Removing(i) /\ Len(todo) = 2
        BY <3>5, <4>1, RemovingLeft
      <4>2. CASE Undoing(i)
        BY <3>5, <4>2 DEF Undoing
      <4>. QED
        BY <3>5, <4>1, <4>2
    <3>6. ASSUME d \in Reachable, d # 0 PROVE Named(d)
      BY <1>0, <3>6, ReachableNamed
    <3>7. ASSUME NEW q \in Inodes, Creating(q, i), Len(todo) = 1, Cur.in = i
          PROVE  mem[d].size >= 2
      <4>1. todo[Len(todo)] = SyncCall(d)
        BY <2>2, <3>7, <1>f
      <4>2. ~Releasing(d) /\ ~(\E n \in DOMAIN todo : Is(todo[n], "write", d))
        <5>1. DOMAIN todo = {1}
          BY <1>0, <3>7 DEF TypeOK
        <5>. QED
          BY <1>f, <5>1, CallOps DEF Releasing, Is
      <4>. QED
        BY <2>2, <3>1, <4>1, <4>2 DEF DotsFirst
    <3>8. ASSUME NEW q \in Inodes, Creating(q, i), Len(todo) = 2, Cur.in = q
          PROVE  d \in Dirs
      <4>1. dino[d].type = "dir"
        BY <2>2, <3>8, CreatingLeft
      <4>2. d \in Reachable
        <5>1. CASE Named(d)
          <6>1. d \in Reachable \/ \E c \in Dirs : NewName(c, d)
            BY <1>0, <2>2, <5>1, NamedReachable
          <6>. QED
            BY <4>1, <6>1 DEF NewName, Blank
        <5>. QED
          BY <3>2, <5>1
      <4>. QED
        BY <4>1, <4>2 DEF Dirs
    <3>. QED
      BY <2>2, <3>1, <3>2, <3>3, <3>4, <3>5, <3>6, <3>7, <3>8
  <2>. QED
    BY <2>0, <2>1, <2>2
<1>2. ASSUME NEW x \in Inodes, todo' # <<>>, todo'[Len(todo')] = SyncCall(x),
             mem'[x].type = "dir"
      PROVE  \/ mem'[x].size >= 2
             \/ Releasing(x)'
             \/ \E n \in DOMAIN todo' : Is(todo'[n], "write", x) /\ todo'[n].off = 1
  <2>1. /\ m = 2 /\ Len(todo') = 1 /\ todo'[1] = todo[2]
        /\ DOMAIN todo = 1 .. 2 /\ DOMAIN todo' = 1 .. 1
    <3>1. /\ m >= 1 /\ Len(todo') = m - 1 /\ DOMAIN todo = 1 .. m /\ DOMAIN todo' = 1 .. (m - 1)
          /\ \A k \in 1 .. (m - 1) : todo'[k] = todo[k + 1]
          /\ m = 1 => todo' = <<>>
      BY <1>0, TailLeft
    <3>2. 1 \in 1 .. (2 - 1) /\ 1 + 1 = 2
      OBVIOUS
    <3>. QED
      BY <1>2, <3>1, <3>2
  <2>2. todo[Len(todo)] = SyncCall(x)
    BY <1>2, <2>1
  <2>3. \/ mem[x].size >= 2
        \/ Releasing(x)
        \/ \E n \in DOMAIN todo : Is(todo[n], "write", x) /\ todo[n].off = 1
    BY <1>2, <2>2 DEF DotsFirst
  <2>4. \A n \in DOMAIN todo : todo[n].op = "sync"
    BY <1>f, <2>1, <2>2, CallOps
  <2>. QED
    BY <2>3, <2>4, CallOps DEF Releasing, Is
<1>. QED
  BY <1>1, <1>2 DEF DotsFirst

\* A new directory: the second of its entries is among the calls.
LEMMA DotsCreate ==
  ASSUME TypeOK, Ownership, Consistent, DotsFirst, CreateInode
  PROVE  DotsFirst'
<1>. PICK p \in Inodes, i \in Inodes :
       /\ mem = dino /\ dino' = dino /\ blk' = blk
       /\ \A j \in Inodes : j # i => mem'[j] = mem[j]
       /\ \E k \in Nat : todo' = NewCalls(p, i, mem'[i].type, k)
  BY CreateFacts
<1>. PICK k \in Nat : todo' = NewCalls(p, i, mem'[i].type, k)
  OBVIOUS
<1>0. Dirs' = Dirs
  BY ReachSame
<1>. PICK calls, type : calls = todo' /\ type = mem'[i].type
  OBVIOUS
<1>1. calls = NewCalls(p, i, type, k)
  OBVIOUS
<1>2. calls[Len(calls)] = SyncCall(i)
  BY <1>1, CreatePlan DEF Creation
<1>3. ASSUME type = "dir"
      PROVE  2 \in DOMAIN calls /\ calls[2] = WriteCall(i, 1, 1, p + 1)
  <2>1. p + 1 \in Int /\ i + 1 \in Int
    BY Sizes
  <2>2. /\ WriteDirent(i, 0, i + 1) = <<WriteCall(i, 0, 1, i + 1)>>
        /\ WriteDirent(i, 1, p + 1) = <<WriteCall(i, 1, 1, p + 1)>>
    BY FirstEntries
  <2>. PICK w : w = WriteDirent(p, k, i + 1)
    OBVIOUS
  <2>3. w \in Seq(Call) /\ <<SyncCall(p), SyncCall(i)>> \in Seq(Call)
    BY <2>1, WriteDirentType, CallsType
  <2>. PICK a, b, u, v : /\ a = WriteCall(i, 0, 1, i + 1) /\ b = WriteCall(i, 1, 1, p + 1)
                         /\ u = <<a>> /\ v = <<b>>
    OBVIOUS
  <2>4. calls = u \o v \o w \o <<SyncCall(p), SyncCall(i)>>
    BY <1>1, <1>3, <2>2, Zenon DEF NewCalls
  <2>5. a \in Call /\ b \in Call
    BY <2>1, CallsType
  <2>6. u \in Seq(Call) /\ v \in Seq(Call) /\ Len(u) = 1 /\ Len(v) = 1 /\ v[1] = b
    BY <2>5
  <2>. PICK q \in Seq(Call) : q = u \o v /\ Len(q) = 2 /\ q[2] = b
    <3>1. u \o v \in Seq(Call) /\ Len(u \o v) = 2
      BY <2>6
    <3>2. (u \o v)[2] = b
      BY <2>6
    <3>. QED
      BY <3>1, <3>2
  <2>7. calls = q \o w \o <<SyncCall(p), SyncCall(i)>>
    BY <2>4
  <2>8. 2 \in DOMAIN calls /\ calls[2] = q[2]
    BY <2>3, <2>7
  <2>. QED
    BY <2>8
<1>4. ASSUME NEW x \in Inodes, calls[Len(calls)] = SyncCall(x), mem'[x].type = "dir"
      PROVE  \E n \in DOMAIN calls : Is(calls[n], "write", x) /\ calls[n].off = 1
  <2>1. x = i
    <3>1. SyncCall(x) = SyncCall(i)
      BY <1>2, <1>4
    <3>. QED
      BY <3>1, CallOps, Zenon
  <2>. QED
    BY <1>3, <1>4, <2>1 DEF Is, WriteCall
<1>. QED
  BY <1>0, <1>4 DEF DotsFirst

\* A command that starts changes no directory.
LEMMA DotsCommand ==
  ASSUME TypeOK, Ownership, Consistent, DotsFirst, Command, ~hurt'
  PROVE  DotsFirst'
<1>0. /\ dino' = dino /\ mem' = mem /\ Dirs' = Dirs /\ mem = dino /\ todo = <<>> /\ 0 \in Dirs
  <2>1. UNCHANGED <<dino, blk, mem>> /\ pc = "idle"
    BY CommandStarts DEF CanStart
  <2>. QED
    BY <2>1, ReachSame, ReachBasics DEF Ownership, Stands, StandsBetween, RootStays, Dirs
<1>1. ASSUME NEW x \in Inodes, todo' # <<>>, todo'[Len(todo')] = SyncCall(x),
             mem[x].type = "dir"
      PROVE  mem[x].size >= 2
  <2>1. ASSUME NEW i \in Inodes, NEW off \in Offsets, NEW l \in Lengths, StartWrite(i, off, l)
        PROVE  FALSE
    <3>1. /\ todo' = <<WriteCall(i, off, l, ncmd + 1), TruncCall(i, off + l), SyncCall(i)>>
          /\ dino[i].type # "dir"
      BY <2>1 DEF StartWrite
    <3>2. todo'[Len(todo')] = SyncCall(i)
      BY <3>1
    <3>. QED
      BY <1>0, <1>1, <3>1, <3>2, CallOps
  <2>2. ASSUME NEW op \in {"touch", "mkdir"}, NEW p \in Inodes, StartCreate(op, p)
        PROVE  FALSE
    BY <1>0, <1>1, <2>2 DEF StartCreate
  <2>3. ASSUME NEW k \in 2 .. (NrLogical * BlockSize - 1), StartRemove(k)
        PROVE  x = 0
    <3>. PICK i : todo' = <<WriteCall(0, k, 1, Removed), TruncCall(i, 0), ReleaseCall(i),
                            SyncCall(i), SyncCall(0)>>
      BY <2>3 DEF StartRemove, RemoveCalls
    <3>1. todo'[Len(todo')] = SyncCall(0)
      OBVIOUS
    <3>. QED
      BY <1>1, <3>1, CallOps
  <2>. QED
    BY <1>0, <2>1, <2>2, <2>3 DEF Command, DotsFirst
<1>. QED
  BY <1>0, <1>1 DEF DotsFirst

\* Through every command, failure and crash.
LEMMA DotsNext ==
  ASSUME TypeOK, Ownership, Consistent, DotsFirst, TypeOK', Next, ~hurt'
  PROVE  DotsFirst'
<1>1. CASE Command
  BY <1>1, DotsCommand
<1>2. CASE WriteStep \/ TruncStep
  BY <1>2, DataBusy, DotsData
<1>3. CASE CreateInode
  BY <1>3, DotsCreate
<1>4. CASE ReleaseInode \/ SyncInode
  <2>1. Busy
    BY <1>4 DEF Busy, ReleaseInode, SyncInode, Running
  <2>. QED
    BY <1>4, <2>1, DotsRelease, DotsSync
<1>5. CASE NoInode \/ NoInodeBlock \/ Exit \/ AssertionFails \/ Crash
  <2>1. todo' = <<>>
    <3>1. CASE NoInode
      BY <3>1 DEF NoInode, Ownership, Stands, StandsBetween
    <3>2. CASE NoInodeBlock \/ Exit \/ AssertionFails \/ Crash
      BY <3>2 DEF NoInodeBlock, Exit, AssertionFails, Crash, Gone
    <3>. QED
      BY <1>5, <3>1, <3>2
  <2>2. dino' = dino /\ blk' = blk
    BY <1>5 DEF NoInode, NoInodeBlock, Exit, AssertionFails, Crash, disk
  <2>3. Dirs' = Dirs
    BY <2>2, ReachSame
  <2>. QED
    BY <2>1, <2>2, <2>3 DEF DotsFirst
<1>. QED
  BY <1>1, <1>2, <1>3, <1>4, <1>5, NoLeftovers DEF Next, Step, Ownership

\* The root directory has its entries at first.
LEMMA DotsInit == Init => DotsFirst
<1>. SUFFICES ASSUME Init PROVE DotsFirst
  OBVIOUS
<1>1. Dirs \subseteq {0} /\ dino[0].size = 2
  <2>1. \A i \in Inodes : i # 0 => dino[i].type # "dir"
    BY DEF Init, Blank
  <2>2. dino[0].size = 2
    BY Sizes DEF Init, RootInode, Blank
  <2>. QED
    BY <2>1, <2>2, ReachBasics DEF Dirs
<1>. QED
  BY <1>1 DEF Init, DotsFirst

\* Nothing changes when nothing happens.
LEMMA DotsSame == ASSUME DotsFirst, UNCHANGED vars PROVE DotsFirst'
<1>1. Dirs' = Dirs
  BY ReachSame DEF vars, disk
<1>. QED
  BY <1>1 DEF vars, disk, plan, DotsFirst, Releasing

\* Whatever fails and wherever a process dies, until a command starts on a damaged image, a
\* directory that a path leads to has its two entries, "." and "..": they are written before
\* the entry that names it (dir.c:395).
THEOREM DirectoriesHaveDots == Spec => [](hurt \/ DotsFirst)
<1>1. /\ TypeOK /\ (hurt \/ Ownership) /\ Consistency /\ (hurt \/ DotsFirst) /\ TypeOK'
      /\ [Next]_vars
      => (hurt \/ DotsFirst)'
  <2>1. ASSUME UNCHANGED vars PROVE hurt' = hurt
    BY <2>1 DEF vars, command
  <2>. QED
    BY <2>1, DotsNext, DotsSame, HurtStays DEF Consistency
<1>. QED
  BY <1>1, DotsInit, TypeCorrect, OwnershipInvariant, ConsistencyInvariant, PTL DEF Spec

\* The cell after the last one of a block begins the next block, and the one after that
\* does not.
LEMMA NextCells ==
  ASSUME NEW off \in Nat
  PROVE  /\ (off + 1) \div BlockSize > off \div BlockSize => (off + 2) % BlockSize # 0
         /\ ~((off + 1) \div BlockSize > off \div BlockSize) => (off + 1) % BlockSize # 0
         /\ (off + 1) % BlockSize # 0 => ~((off + 1) \div BlockSize > off \div BlockSize)
<1>0. BlockSize \in Nat /\ BlockSize >= 3 /\ off + 1 \in Nat /\ off + 2 \in Nat
  BY FileStoreAssumption
<1>1. PICK q, r \in Nat : /\ q = off \div BlockSize /\ off = BlockSize * q + r /\ r < BlockSize
                          /\ BlockSize * q \in Nat
  BY Division
<1>2. PICK u, v \in Nat : /\ u = (off + 1) \div BlockSize /\ v = (off + 1) % BlockSize
                          /\ off + 1 = BlockSize * u + v /\ v < BlockSize /\ BlockSize * u \in Nat
  BY <1>0, Division
<1>3. PICK w, z \in Nat : /\ w = (off + 2) \div BlockSize /\ z = (off + 2) % BlockSize
                          /\ off + 2 = BlockSize * w + z /\ z < BlockSize /\ BlockSize * w \in Nat
  BY <1>0, Division
<1>4. /\ BlockSize * (q + 1) = BlockSize * q + BlockSize
      /\ BlockSize * (u + 1) = BlockSize * u + BlockSize
  BY <1>0
<1>5. ASSUME v = 0 PROVE u > q
  <2>1. ~(BlockSize * u <= BlockSize * q)
    BY <1>1, <1>2, <1>5
  <2>2. u <= q => BlockSize * u <= BlockSize * q
    BY Grows
  <2>. QED
    BY <2>1, <2>2
<1>6. ASSUME u > q PROVE v = 0 /\ z # 0
  <2>1. BlockSize * (q + 1) <= BlockSize * u
    BY <1>6, Grows
  <2>2. v = 0
    BY <1>0, <1>1, <1>2, <1>4, <2>1
  <2>3. ASSUME z = 0 PROVE FALSE
    <3>1. ~(BlockSize * w <= BlockSize * u)
      BY <1>2, <1>3, <2>2, <2>3
    <3>2. w <= u => BlockSize * w <= BlockSize * u
      BY Grows
    <3>3. u + 1 <= w
      BY <3>1, <3>2
    <3>4. BlockSize * (u + 1) <= BlockSize * w
      BY <3>3, Grows
    <3>. QED
      BY <1>0, <1>2, <1>3, <1>4, <2>2, <2>3, <3>4
  <2>. QED
    BY <2>2, <2>3
<1>. QED
  BY <1>1, <1>2, <1>3, <1>5, <1>6

\* The calls that make an inode write into its directory what testfs_write_dirent does.
DirentCall(c, p, i, k) ==
  IF (k + 1) \div BlockSize > k \div BlockSize
  THEN c = WriteCall(p, k, 1, 0) \/ c = WriteCall(p, k + 1, 1, i + 1)
  ELSE c = WriteCall(p, k, 1, i + 1)
\* The writes of a creation are those of the new inode and of the entry that names it.
LEMMA CreationWrites ==
  ASSUME NEW p \in Inodes, NEW i \in Inodes, NEW type, NEW k \in Nat,
         NEW calls, calls = NewCalls(p, i, type, k), NEW n \in DOMAIN calls
  PROVE  calls[n].op # "write" \/ calls[n].in = i \/ DirentCall(calls[n], p, i, k)
<1>. PICK S \in SUBSET Call :
       S = {c \in Call : c.op # "write" \/ c.in = i \/ DirentCall(c, p, i, k)}
  OBVIOUS
<1>1. i + 1 \in Int /\ p + 1 \in Int /\ k + 1 \in Nat
  BY Sizes
<1>2. WriteCall(i, 0, 1, i + 1) \in S /\ WriteCall(i, 1, 1, p + 1) \in S
  <2>1. WriteCall(i, 0, 1, i + 1) \in Call /\ WriteCall(i, 1, 1, p + 1) \in Call
    BY <1>1, CallsType
  <2>. QED
    BY <2>1 DEF WriteCall
<1>3. SyncCall(p) \in S /\ SyncCall(i) \in S
  BY CallsType, CallOps
<1>4. WriteDirent(p, k, i + 1) \in Seq(S)
  <2>1. /\ WriteCall(p, k, 1, 0) \in Call /\ WriteCall(p, k + 1, 1, i + 1) \in Call
        /\ WriteCall(p, k, 1, i + 1) \in Call
    BY <1>1, CallsType
  <2>2. CASE (k + 1) \div BlockSize > k \div BlockSize
    <3>0. /\ DirentCall(WriteCall(p, k, 1, 0), p, i, k)
          /\ DirentCall(WriteCall(p, k + 1, 1, i + 1), p, i, k)
      BY <2>2, Zenon DEF DirentCall
    <3>1. WriteCall(p, k, 1, 0) \in S /\ WriteCall(p, k + 1, 1, i + 1) \in S
      BY <2>1, <3>0
    <3>2. <<WriteCall(p, k, 1, 0), WriteCall(p, k + 1, 1, i + 1)>> \in Seq(S)
      BY <3>1
    <3>3. WriteDirent(p, k, i + 1) = <<WriteCall(p, k, 1, 0), WriteCall(p, k + 1, 1, i + 1)>>
      BY <2>2 DEF WriteDirent
    <3>. QED
      BY <3>2, <3>3
  <2>3. CASE ~((k + 1) \div BlockSize > k \div BlockSize)
    <3>0. DirentCall(WriteCall(p, k, 1, i + 1), p, i, k)
      BY <2>3, Zenon DEF DirentCall
    <3>1. <<WriteCall(p, k, 1, i + 1)>> \in Seq(S)
      BY <2>1, <3>0
    <3>2. WriteDirent(p, k, i + 1) = <<WriteCall(p, k, 1, i + 1)>>
      BY <2>3 DEF WriteDirent
    <3>. QED
      BY <3>1, <3>2
  <2>. QED
    BY <2>2, <2>3
<1>5. WriteDirent(i, 0, i + 1) \in Seq(S) /\ WriteDirent(i, 1, p + 1) \in Seq(S)
  <2>1. <<WriteCall(i, 0, 1, i + 1)>> \in Seq(S) /\ <<WriteCall(i, 1, 1, p + 1)>> \in Seq(S)
    BY <1>2
  <2>. QED
    BY <2>1, FirstEntries
<1>6. calls \in Seq(S)
  BY <1>3, <1>4, <1>5 DEF NewCalls
<1>7. calls[n] \in S
  BY <1>6
<1>. QED
  BY <1>7

\* A data step leaves a call spare, unless it stores a name at its place.
LEMMA SpareData ==
  ASSUME Busy, WriteStep \/ TruncStep, NEW c, Spare(c),
         ~(StoreData /\ c.in = Cur.in /\ c.off = Cur.off /\ Cur.val > 0)
  PROVE  Spare(c)'
<1>1. Dirs' \subseteq Dirs
  BY ReachData
<1>2. ASSUME c.in \in Dirs, NEW k \in Known(c.in)', k = c.off, MemCell(c.in, k)' > 0
      PROVE  k \in Known(c.in) /\ MemCell(c.in, k) > 0
  <2>1. \/ k \in Known(c.in) /\ MemCell(c.in, k)' \in {MemCell(c.in, k), 0}
        \/ StoreData /\ c.in = Cur.in /\ k = Cur.off /\ MemCell(c.in, k)' = Cur.val
    BY <1>2, NamesData
  <2>. QED
    BY <1>2, <2>1
<1>. QED
  BY <1>1, <1>2 DEF Spare

\* Where StoreData writes a name into a directory, no call that is left writes after it.
LEMMA LastWrite ==
  ASSUME Busy, StoreData, Cur.in \in Dirs, Cur.val > 0, NEW n \in DOMAIN todo, n # 1
  PROVE  todo[n].op # "write"
<1>0. TypeOK /\ Doing /\ DirsKept /\ Dirs \subseteq Inodes /\ todo # <<>> /\ Cur.op = "write"
  BY BusyFacts DEF StoreData, Running, Cur
<1>1. DOMAIN todo = 1 .. Len(todo) /\ Len(todo) \in Nat
  BY <1>0 DEF TypeOK
<1>. PICK i \in Inodes :
       \/ Writing(i) /\ Len(todo) = 3 /\ Cur.in = i
       \/ Removing(i) /\ Len(todo) = 5 /\ Cur.in = 0 /\ Cur.n = 1 /\ Cur.val = Removed
       \/ \E p \in Inodes :
            /\ Creating(p, i) /\ Len(todo) >= 3 /\ Cur.n = 1
            /\ \/ Len(todo) = 3 /\ Cur.in = p /\ Cur.val = i + 1
               \/ Len(todo) > 3 /\ Cur.in = i /\ Cur.off < 2
               \/ Len(todo) > 3 /\ Cur.in = p /\ Cur.val = 0
  BY <1>0, WritePlan
<1>2. ~(Writing(i) /\ Cur.in = i)
  BY <1>0 DEF Writing, DirsKept
<1>3. Cur.val # Removed /\ Cur.val # 0
  BY DEF Removed
<1>. PICK p \in Inodes :
       /\ Creating(p, i)
       /\ Len(todo) = 3 \/ (Len(todo) > 3 /\ Cur.in = i)
  BY <1>2, <1>3
<1>4. CASE Cur.in = i
  <2>1. dino[i] = Blank /\ dino[i].type = "dir"
    BY <1>4 DEF Creating, Dirs
  <2>. QED
    BY <2>1 DEF Blank
<1>5. CASE Len(todo) = 3
  <2>1. todo[3] = SyncCall(i) /\ todo[2] = SyncCall(p)
    BY <1>5 DEF Creating
  <2>2. n = 2 \/ n = 3
    BY <1>1, <1>5
  <2>. QED
    BY <2>1, <2>2, CallOps
<1>. QED
  BY <1>4, <1>5

\* A data step.
LEMMA EntriesData ==
  ASSUME Busy, EntriesPlaced, WriteStep \/ TruncStep
  PROVE  EntriesPlaced'
<1>0. /\ TypeOK /\ Stands /\ Planned /\ Doing /\ DirsKept /\ Dirs' \subseteq Dirs
      /\ Dirs \subseteq Inodes /\ todo # <<>>
  BY BusyFacts, ReachData, DataCall
<1>1. /\ DOMAIN todo = 1 .. Len(todo) /\ Len(todo) \in Nat /\ 1 \in DOMAIN todo /\ Cur = todo[1]
  BY <1>0 DEF TypeOK, Cur
<1>2. ASSUME NEW d \in Dirs', NEW k \in Known(d)', MemCell(d, k)' # 0
      PROVE  (k + 1) % BlockSize # 0
  <2>1. \/ k \in Known(d) /\ MemCell(d, k) # 0
        \/ StoreData /\ d = Cur.in /\ k = Cur.off /\ Cur.val # 0
    BY <1>0, <1>2, NamesData
  <2>2. CASE k \in Known(d) /\ MemCell(d, k) # 0
    BY <1>0, <2>2 DEF EntriesPlaced
  <2>3. CASE StoreData /\ d = Cur.in /\ k = Cur.off /\ Cur.val # 0
    <3>1. pc # "csum" /\ Cur.op = "write"
      BY <2>3 DEF StoreData, Running, Cur
    <3>2. Spare(todo[1])
      BY <1>1, <3>1 DEF EntriesPlaced
    <3>. QED
      BY <1>0, <1>1, <2>3, <3>1, <3>2 DEF Spare
  <2>. QED
    BY <2>1, <2>2, <2>3
<1>3. ASSUME NEW n \in DOMAIN todo', ~(n = 1 /\ pc' = "csum")
      PROVE  Spare(todo[n])'
  <2>1. CASE todo' = todo
    <3>. PICK c : c = todo[n]
      OBVIOUS
    <3>1. c.in \in Dirs => ~StoreCsum \/ n # 1
      <4>. SUFFICES ASSUME c.in \in Dirs, StoreCsum, n = 1 PROVE FALSE
        OBVIOUS
      <4>1. WriteStep /\ Cur.in \in Dirs /\ Cur.in \in Inodes
        BY <1>0, <1>1 DEF WriteStep
      <4>2. Cur.n = 1
        BY <1>0, <4>1, DirWrite
      <4>. QED
        BY <1>0, <4>1, <4>2, WriteSizes
    <3>2. c.in \notin Dirs \/ Spare(c)
      <4>1. CASE n # 1 \/ pc # "csum"
        BY <1>3, <2>1, <4>1 DEF EntriesPlaced
      <4>2. CASE n = 1 /\ pc = "csum"
        <5>1. StoreCsum \/ StoreLastCsum
          BY <4>2 DEF WriteStep, TruncStep, Running, BeginWrite, MapExisting, MapDirect,
             MapIndirect, ReadIndirect, MapChild, NoChild, WriteIndirect, MapFails,
             WriteIndirectFails, StoreData, TruncNothing, BeginTrunc, ZeroDirect, UnmarkDirect,
             TruncDirectOnly, LoadIndirect, ZeroChild, UnmarkChild, ZeroIndirect, UnmarkIndirect,
             KeepIndirect
        <5>2. ~StoreLastCsum
          <6>. SUFFICES ASSUME StoreLastCsum PROVE FALSE
            OBVIOUS
          <6>1. todo' = Tail(todo)
            BY DEF StoreLastCsum, Return
          <6>2. Len(todo') = Len(todo) - 1
            BY <1>0, <1>1, <6>1, TailLeft
          <6>. QED
            BY <1>1, <2>1, <6>2
        <5>. QED
          BY <3>1, <4>2, <5>1, <5>2
      <4>. QED
        BY <4>1, <4>2
    <3>3. c.in \notin Dirs \/ c.op # "write" \/ Spare(c)'
      <4>. SUFFICES ASSUME c.in \in Dirs, c.op = "write" PROVE Spare(c)'
        OBVIOUS
      <4>1. ~(StoreData /\ c.in = Cur.in /\ c.off = Cur.off /\ Cur.val > 0)
        <5>. SUFFICES ASSUME StoreData, c.in = Cur.in, Cur.val > 0 PROVE FALSE
          OBVIOUS
        <5>1. n # 1
          BY <1>3 DEF StoreData
        <5>. QED
          BY <2>1, <5>1, LastWrite
      <4>. QED
        BY <3>2, <4>1, SpareData
    <3>4. Spare(c)'
      BY <1>0, <3>3 DEF Spare
    <3>. QED
      BY <2>1, <3>4 DEF Spare
  <2>2. CASE todo' = Tail(todo) /\ ~StoreData
    <3>. PICK c : c = todo'[n]
      OBVIOUS
    <3>. PICK m \in Nat : m = Len(todo)
      BY <1>1
    <3>0. DOMAIN todo' = 1 .. (m - 1) /\ \A k \in 1 .. (m - 1) : todo'[k] = todo[k + 1]
      BY <1>0, <2>2, TailLeft
    <3>. PICK o \in 1 .. m : o = n + 1 /\ o # 1 /\ n \in 1 .. (m - 1)
      BY <3>0
    <3>1. c = todo[o] /\ o \in DOMAIN todo
      BY <1>1, <3>0
    <3>2. Spare(c)
      BY <3>1 DEF EntriesPlaced
    <3>3. Spare(c)'
      BY <2>2, <3>2, SpareData
    <3>. QED
      BY <3>3 DEF Spare
  <2>3. CASE todo' = CutBack \o onfail
    <3>1. todo'[n].op # "write"
      <4>1. onfail \in Seq(FailCalls) /\ Len(onfail) \in Nat
        BY <1>0 DEF Planned
      <4>2. /\ Len(todo') = Len(onfail) + 1 /\ todo'[1] = TruncCall(Cur.in, Inode.size)
            /\ \A k \in 1 .. Len(onfail) : todo'[k + 1] = onfail[k]
        BY <1>0, <2>3, <4>1, CutLeft
      <4>3. DOMAIN todo' = 1 .. Len(todo')
        <5>1. CutBack \in Seq(Call)
          BY <1>0, Current, SizeNat, CallsType DEF CutBack, Inode
        <5>. QED
          BY <1>0, <2>3, <5>1 DEF TypeOK
      <4>4. CASE n = 1
        BY <4>2, <4>4, CallOps
      <4>5. CASE n # 1
        <5>. PICK l \in Nat : l = Len(onfail) /\ n \in 1 .. (l + 1)
          BY <4>1, <4>2, <4>3
        <5>1. PICK k \in 1 .. Len(onfail) : n = k + 1
          <6>1. n - 1 \in 1 .. l /\ n = (n - 1) + 1
            BY <4>5
          <6>. QED
            BY <6>1
        <5>2. onfail[k] \in FailCalls
          BY <4>1
        <5>. QED
          BY <4>2, <5>1, <5>2 DEF FailCalls
      <4>. QED
        BY <4>4, <4>5
    <3>. QED
      BY <3>1 DEF Spare
  <2>. QED
    BY <1>0, <2>1, <2>2, <2>3, DataPlan
<1>. QED
  BY <1>2, <1>3 DEF EntriesPlaced

\* testfs_add_dirent: the slot it takes holds no name, nor does the one behind the padding.
LEMMA EntriesCreate ==
  ASSUME TypeOK, Ownership, Consistent, DotsFirst, EntriesPlaced, TypeOK', CreateInode
  PROVE  EntriesPlaced'
<1>0. /\ TypeOK /\ Stands /\ DirsKept /\ RootStays /\ NamesSound /\ pc = "create" /\ mem = dino
      /\ Dirs' = Dirs /\ Dirs \subseteq Inodes
  BY ReachSame, ReachBasics, CreateFacts DEF Ownership, Consistent
<1>. PICK p \in Dirs : p = job.in
  BY <1>0 DEF Stands, StandsBetween, Dirs
<1>. PICK i \in Inodes, k \in 0 .. mem[p].size :
       /\ i \notin imap /\ IsFreeSlot(mem[p], k)
       /\ \E type : todo' = NewCalls(p, i, type, k)
  <2>1. \E i \in Inodes : /\ i \notin imap
                          /\ \E k \in 0 .. mem[p].size :
                               /\ IsFreeSlot(mem[p], k)
                               /\ \E type : todo' = NewCalls(p, i, type, k)
    BY <1>0, NewInode DEF TakeNumber
  <2>. QED
    BY <2>1
<1>. PICK type : todo' = NewCalls(p, i, type, k)
  OBVIOUS
<1>1. i \notin Dirs
  BY <1>0, ReachableMarked DEF Dirs
<1>c. ~Command
  BY <1>0 DEF Command, StartWrite, StartCreate, StartRemove, CanStart
<1>2. \A d \in Dirs' : \A o \in Known(d)' :
        d \in Dirs /\ o \in Known(d) /\ MemCell(d, o)' = MemCell(d, o)
  BY <1>c, NamesBetween
<1>3. mem[p].size \in Nat /\ k \in Nat /\ Known(p) = 2 .. (mem[p].size - 1)
  <2>1. mem[p].size \in Nat
    BY <1>0, SizeNat
  <2>2. Known(p) = 2 .. (mem[p].size - 1)
    BY <1>0, Zenon DEF Known
  <2>. QED
    BY <2>1, <2>2
<1>d. mem[p].size >= 2 /\ k >= 2
  <2>1. mem[p].size >= 2
    BY <1>0 DEF DotsFirst
  <2>2. k = mem[p].size \/ k \in RemovedSlots(mem[p])
    BY DEF IsFreeSlot
  <2>. QED
    BY <2>1, <2>2 DEF RemovedSlots
<1>4. \/ k = mem[p].size
      \/ /\ k \in Known(p) /\ ~(MemCell(p, k) > 0)
         /\ ~((k + 1) \div BlockSize > k \div BlockSize)
  <2>. SUFFICES ASSUME k # mem[p].size
                PROVE  /\ k \in Known(p) /\ ~(MemCell(p, k) > 0)
                       /\ ~((k + 1) \div BlockSize > k \div BlockSize)
    OBVIOUS
  <2>1. k \in 2 .. (dino[p].size - 1) /\ CellAt(dino[p], k) = Removed
    BY <1>0 DEF IsFreeSlot, RemovedSlots
  <2>2. k \in Known(p) /\ MemCell(p, k) = Removed
    BY <1>0, <2>1, DirCell
  <2>3. (k + 1) % BlockSize # 0 /\ ~(MemCell(p, k) > 0)
    <3>1. Removed # 0 /\ ~(Removed > 0)
      BY DEF Removed
    <3>. QED
      BY <2>2, <3>1 DEF EntriesPlaced
  <2>. QED
    BY <1>3, <2>2, <2>3, NextCells
<1>5. ASSUME NEW n \in DOMAIN todo'
      PROVE  todo'[n].op # "write" \/ todo'[n].in \notin Dirs' \/ Spare(todo[n])'
  <2>. PICK c : c = todo'[n]
    OBVIOUS
  <2>. PICK calls : calls = todo'
    OBVIOUS
  <2>. SUFFICES ASSUME DirentCall(c, p, i, k) PROVE Spare(c)'
    <3>1. c.op # "write" \/ c.in = i \/ DirentCall(c, p, i, k)
      <4>1. calls = NewCalls(p, i, type, k) /\ n \in DOMAIN calls /\ c = calls[n]
        BY Zenon
      <4>. QED
        BY <1>0, <1>3, <4>1, CreationWrites
    <3>2. todo'[n].op = c.op /\ todo'[n].in = c.in
      OBVIOUS
    <3>. QED
      BY <1>0, <1>1, <3>1, <3>2 DEF Spare
  <2>1. \/ /\ (k + 1) \div BlockSize > k \div BlockSize
           /\ \/ c = WriteCall(p, k, 1, 0)
              \/ c = WriteCall(p, k + 1, 1, i + 1)
        \/ /\ ~((k + 1) \div BlockSize > k \div BlockSize)
           /\ c = WriteCall(p, k, 1, i + 1)
    BY Zenon DEF DirentCall
  <2>2. /\ c.in = p /\ (c.off = k \/ c.off = k + 1)
        /\ (c.val = 0 /\ c.off = k) \/ (c.off + 1) % BlockSize # 0
        /\ c.off = k \/ (k + 1) \div BlockSize > k \div BlockSize
    <3>1. CASE c = WriteCall(p, k, 1, 0)
      BY <3>1 DEF WriteCall
    <3>2. CASE c = WriteCall(p, k + 1, 1, i + 1) /\ (k + 1) \div BlockSize > k \div BlockSize
      <4>1. c.in = p /\ c.off = k + 1 /\ (k + 1) + 1 = k + 2
        BY <1>3, <3>2 DEF WriteCall
      <4>. QED
        BY <1>3, <3>2, <4>1, NextCells
    <3>3. CASE c = WriteCall(p, k, 1, i + 1) /\ ~((k + 1) \div BlockSize > k \div BlockSize)
      <4>1. c.in = p /\ c.off = k
        BY <3>3 DEF WriteCall
      <4>. QED
        BY <1>3, <3>3, <4>1, NextCells
    <3>. QED
      BY <2>1, <3>1, <3>2, <3>3
  <2>3. ASSUME NEW o \in Known(p)', MemCell(p, o)' > 0
        PROVE  o # c.off
    <3>1. o \in Known(p) /\ MemCell(p, o) > 0
      BY <1>0, <1>2, <2>3
    <3>. QED
      BY <1>3, <1>4, <2>2, <3>1
  <2>4. c.off >= 2
    BY <1>3, <1>d, <2>2
  <2>. QED
    BY <1>0, <2>2, <2>3, <2>4 DEF Spare
<1>. QED
  BY <1>2, <1>5, EntriesQuiet

\* The calls a command starts with write into no directory, but the one that erases a name.
LEMMA EntriesCommand ==
  ASSUME TypeOK, Ownership, Consistent, EntriesPlaced, TypeOK', Command, ~hurt'
  PROVE  EntriesPlaced'
<1>0. /\ TypeOK /\ Stands /\ DirsKept /\ RootStays /\ Dirs' = Dirs /\ todo = <<>> /\ 0 \in Dirs
  <2>1. UNCHANGED <<dino, blk>> /\ pc = "idle"
    BY CommandStarts DEF CanStart
  <2>. QED
    BY <2>1, ReachSame, ReachBasics DEF Ownership, Consistent, Stands, StandsBetween, RootStays, Dirs
<1>1. \A d \in Dirs' : \A k \in Known(d)' :
        d \in Dirs /\ k \in Known(d) /\ MemCell(d, k)' = MemCell(d, k)
  BY NamesBetween
<1>2. ASSUME NEW n \in DOMAIN todo'
      PROVE  todo'[n].op # "write" \/ todo'[n].in \notin Dirs' \/ Spare(todo[n])'
  <2>1. ASSUME NEW i \in Inodes, NEW off \in Offsets, NEW l \in Lengths, StartWrite(i, off, l)
        PROVE  todo'[n].op # "write" \/ todo'[n].in \notin Dirs'
    <3>1. /\ todo' = <<WriteCall(i, off, l, ncmd + 1), TruncCall(i, off + l), SyncCall(i)>>
          /\ i \notin Dirs
      BY <2>1 DEF StartWrite, Dirs
    <3>2. todo'[n].in = i
      BY <3>1 DEF WriteCall, TruncCall, SyncCall
    <3>. QED
      BY <1>0, <3>1, <3>2
  <2>2. ASSUME NEW op \in {"touch", "mkdir"}, NEW p \in Inodes, StartCreate(op, p)
        PROVE  FALSE
    BY <1>0, <2>2 DEF StartCreate
  <2>3. ASSUME NEW k \in 2 .. (NrLogical * BlockSize - 1), StartRemove(k)
        PROVE  todo'[n].op # "write" \/ Spare(todo[n])'
    <3>. PICK i : i = CellAt(dino[0], k) - 1
      OBVIOUS
    <3>1. /\ todo' = <<WriteCall(0, k, 1, Removed), TruncCall(i, 0), ReleaseCall(i),
                       SyncCall(i), SyncCall(0)>>
          /\ k \in LiveSlots(dino[0])
      BY <2>3 DEF StartRemove, RemoveCalls
    <3>. PICK c : c = todo'[n]
      OBVIOUS
    <3>2. c.op # "write" \/ c = WriteCall(0, k, 1, Removed)
      BY <3>1 DEF TruncCall, ReleaseCall, SyncCall
    <3>3. (k + 1) % BlockSize # 0
      <4>1. k \in 2 .. (dino[0].size - 1) /\ CellAt(dino[0], k) # 0
        BY <3>1 DEF LiveSlots
      <4>2. k \in Known(0) /\ MemCell(0, k) # 0
        BY <1>0, <4>1, DirCell
      <4>. QED
        BY <1>0, <4>2 DEF EntriesPlaced
    <3>4. c.op # "write" \/ Spare(c)'
      BY <3>2, <3>3 DEF Spare, WriteCall
    <3>. QED
      BY <3>4 DEF Spare
  <2>. QED
    BY <2>1, <2>2, <2>3 DEF Command
<1>. QED
  BY <1>1, <1>2, EntriesQuiet

\* Through every command, failure and crash.
LEMMA EntriesNext ==
  ASSUME TypeOK, Ownership, Consistent, DotsFirst, EntriesPlaced, TypeOK', Next, ~hurt'
  PROVE  EntriesPlaced'
<1>1. CASE Command
  BY <1>1, EntriesCommand
<1>2. CASE WriteStep \/ TruncStep
  <2>1. Busy
    BY <1>2, DataBusy
  <2>. QED
    BY <1>2, <2>1, EntriesData
<1>3. CASE CreateInode
  BY <1>3, EntriesCreate
<1>4. CASE ReleaseInode \/ SyncInode
  <2>1. Busy
    BY <1>4 DEF Busy, ReleaseInode, SyncInode, Running
  <2>2. \A d \in Dirs' : \A k \in Known(d)' :
          d \in Dirs /\ k \in Known(d) /\ MemCell(d, k)' = MemCell(d, k)
    BY <1>4, NamesBetween
  <2>3. \A n \in DOMAIN todo' : todo'[n].op # "write"
    BY <1>4, <2>1, OnlySyncs
  <2>. QED
    BY <2>2, <2>3, EntriesQuiet
<1>5. CASE NoInode \/ NoInodeBlock \/ Exit \/ AssertionFails \/ Crash
  <2>1. todo' = <<>>
    <3>1. CASE NoInode
      BY <3>1 DEF NoInode, Ownership, Stands, StandsBetween
    <3>2. CASE NoInodeBlock \/ Exit \/ AssertionFails \/ Crash
      BY <3>2 DEF NoInodeBlock, Exit, AssertionFails, Crash, Gone
    <3>. QED
      BY <1>5, <3>1, <3>2
  <2>2. \A d \in Dirs' : \A k \in Known(d)' :
          d \in Dirs /\ k \in Known(d) /\ MemCell(d, k)' = MemCell(d, k)
    BY <1>5, NamesBetween
  <2>. QED
    BY <2>1, <2>2, EntriesQuiet
<1>. QED
  BY <1>1, <1>2, <1>3, <1>4, <1>5, NoLeftovers DEF Next, Step, Ownership

\* The root directory has no entry besides the two at first.
LEMMA EntriesInit == Init => EntriesPlaced
<1>. SUFFICES ASSUME Init PROVE EntriesPlaced
  OBVIOUS
<1>1. Dirs \subseteq {0}
  <2>1. \A i \in Inodes : i # 0 => dino[i].type # "dir"
    BY DEF Init, Blank
  <2>. QED
    BY <2>1, ReachBasics DEF Dirs
<1>2. Known(0) = {}
  <2>1. mem[0].size = 2 /\ pc = "idle"
    BY Sizes DEF Init, RootInode, Blank
  <2>. QED
    BY <2>1 DEF Known
<1>3. DOMAIN todo = {}
  BY DEF Init
<1>. QED
  BY <1>1, <1>2, <1>3 DEF EntriesPlaced

\* Nothing changes when nothing happens.
LEMMA EntriesSame == ASSUME EntriesPlaced, UNCHANGED vars PROVE EntriesPlaced'
<1>1. Dirs' = Dirs
  BY ReachSame DEF vars, disk
<1>2. \A i, s : HeldAt(i, s)' = HeldAt(i, s)
  BY DEF vars, disk, plan, regs, command, HeldAt, Table, Cur
<1>3. \A i, k : MemCell(i, k)' = MemCell(i, k)
  BY <1>2 DEF vars, disk, MemCell
<1>4. \A i : Known(i)' = Known(i)
  BY DEF vars, plan, Known, Cur
<1>5. todo' = todo /\ pc' = pc
  BY DEF vars, plan
<1>6. \A c : Spare(c)' = Spare(c)
  BY <1>1, <1>3, <1>4 DEF Spare
<1>. QED
  BY <1>1, <1>3, <1>4, <1>5, <1>6 DEF EntriesPlaced

\* In every directory, the last cell of a block holds no entry (testfs_write_dirent pads
\* it, dir.c:125), and no entry that is going to be written hides a name that is there, until
\* a command starts on a damaged image.
THEOREM EntriesAreKept == Spec => []EntriesFit
<1>1. Init => EntriesFit
  BY EntriesInit DEF EntriesFit
<1>2. /\ TypeOK /\ (hurt \/ Ownership) /\ Consistency /\ (hurt \/ DotsFirst) /\ EntriesFit
      /\ TypeOK' /\ [Next]_vars
      => EntriesFit'
  <2>1. ASSUME UNCHANGED vars PROVE hurt' = hurt
    BY <2>1 DEF vars, command
  <2>. QED
    BY <2>1, EntriesNext, EntriesSame, HurtStays DEF Consistency, EntriesFit
<1>. QED
  BY <1>1, <1>2, TypeCorrect, OwnershipInvariant, ConsistencyInvariant,
     DirectoriesHaveDots, PTL DEF Spec

\* A block that is new to its inode shows nothing of what it held before: it is zero until
\* the first write of it, as is the buffer that stands for it (inode.c:148, inode.c:176), until
\* a command starts on a damaged image.
THEOREM FreshBlocksAreZero == Spec => [](hurt \/ FreshIsZero)
<1>1. Init => FreshIsZero
  BY DEF Init, FreshIsZero
<1>2. FreshIsZero /\ UNCHANGED vars => FreshIsZero'
  <2>. SUFFICES ASSUME FreshIsZero, UNCHANGED vars PROVE FreshIsZero'
    OBVIOUS
  <2>1. UNCHANGED <<blk, mem, pc, todo, at, fresh, ibuf>>
    BY DEF vars, disk, plan, regs
  <2>2. Log' = Log /\ Cur' = Cur
    BY <2>1 DEF Log, Cur
  <2>3. Mapped' = Mapped
    BY <2>1, <2>2 DEF Mapped, BlockAt, Inode
  <2>. QED
    BY <2>1, <2>2, <2>3 DEF FreshIsZero
<1>3. TypeOK /\ (hurt \/ Ownership) /\ (hurt \/ FreshIsZero) /\ [Next]_vars => (hurt \/ FreshIsZero)'
  <2>1. ASSUME UNCHANGED vars PROVE hurt' = hurt
    BY <2>1 DEF vars, command
  <2>. QED
    BY <1>2, <2>1, FreshNext, HurtStays DEF Ownership
<1>. QED
  BY <1>1, <1>3, TypeCorrect, OwnershipInvariant, PTL DEF Spec
=============================================================================
