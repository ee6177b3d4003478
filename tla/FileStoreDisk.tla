---------------------------- MODULE FileStoreDisk ----------------------------
(***************************************************************************)
(* What an inode has of its size, in memory and on the disk: it has all    *)
(* the blocks of its size, but for those that a truncation has just freed, *)
(* and what the disk has of it is what the process has had.                *)
(***************************************************************************)
EXTENDS FileStoreOwnership

-----------------------------------------------------------------------------
(* Dividing sizes by the size of a block.                                  *)

\* A product grows with its factor.
LEMMA Grows ==
  ASSUME NEW a \in Int, NEW b \in Int, a <= b
  PROVE  BlockSize * a <= BlockSize * b
<1>1. BlockSize \in Nat
  BY Sizes
<1>. PICK k \in Nat : b = a + k
  <2>1. b - a \in Nat /\ b = a + (b - a)
    OBVIOUS
  <2>. QED
    BY <2>1
<1>2. BlockSize * b = BlockSize * a + BlockSize * k
  BY <1>1
<1>3. BlockSize * k >= 0
  BY <1>1
<1>. QED
  BY <1>1, <1>2, <1>3

\* The quotient and the rest of a division.
LEMMA Quotient ==
  ASSUME NEW n \in Nat, NEW b \in Nat \ {0}, NEW q \in Nat, q = n \div b,
         NEW r \in Nat, r = n % b
  PROVE  n = b * q + r /\ r < b
BY SMT

\* A cell has its block and its place in the block.
LEMMA Division ==
  ASSUME NEW n \in Nat
  PROVE  \E q, r \in Nat : /\ q = n \div BlockSize /\ r = n % BlockSize
                           /\ n = BlockSize * q + r /\ r < BlockSize
                           /\ BlockSize * q \in Nat
<1>1. BlockSize \in Nat \ {0}
  BY Sizes
<1>. PICK q \in Nat : q = n \div BlockSize
  BY <1>1
<1>. PICK r \in Nat : r = n % BlockSize
  BY <1>1
<1>2. n = BlockSize * q + r /\ r < BlockSize
  BY <1>1, Quotient
<1>3. BlockSize * q \in Nat
  BY <1>1
<1>. QED
  BY <1>2, <1>3

\* How many blocks so many cells need.
LEMMA BlocksAtMost ==
  ASSUME NEW n \in Nat, NEW q \in Nat, n <= BlockSize * q
  PROVE  Blocks(n) <= q
<1>1. BlockSize \in Nat \ {0} /\ n + BlockSize - 1 \in Nat
  BY Sizes
<1>. PICK m \in Nat : m = n + BlockSize - 1
  BY <1>1
<1>. PICK d \in Nat, e \in Nat :
       d = m \div BlockSize /\ m = BlockSize * d + e /\ BlockSize * d \in Nat
  BY Division
<1>2. CASE d > q
  <2>1. BlockSize * (q + 1) <= BlockSize * d
    BY <1>2, Grows
  <2>2. BlockSize * (q + 1) = BlockSize * q + BlockSize /\ BlockSize * q \in Nat
    BY <1>1
  <2>. QED
    BY <1>1, <2>1, <2>2
<1>. QED
  BY <1>2 DEF Blocks

\* The blocks of a size cover it.
LEMMA BlocksCover ==
  ASSUME NEW n \in Nat
  PROVE  n <= BlockSize * Blocks(n)
<1>1. BlockSize \in Nat \ {0} /\ n + BlockSize - 1 \in Nat
  BY Sizes
<1>. PICK m \in Nat : m = n + BlockSize - 1
  BY <1>1
<1>. PICK d \in Nat, e \in Nat :
       /\ d = m \div BlockSize /\ m = BlockSize * d + e /\ e < BlockSize
       /\ BlockSize * d \in Nat
  BY Division
<1>2. Blocks(n) = d
  BY DEF Blocks
<1>. QED
  BY <1>1, <1>2

\* A greater size needs no fewer blocks.
LEMMA BlocksGrow ==
  ASSUME NEW m \in Nat, NEW n \in Nat, m <= n
  PROVE  Blocks(m) <= Blocks(n)
<1>1. n <= BlockSize * Blocks(n) /\ Blocks(n) \in Nat
  BY BlocksCover, BlocksNat
<1>2. BlockSize * Blocks(n) \in Nat
  BY <1>1, Sizes
<1>. QED
  BY <1>1, <1>2, BlocksAtMost

\* Nothing needs no block.
LEMMA NoBlocks == Blocks(0) = 0
<1>1. 0 <= BlockSize * 0
  BY Sizes
<1>. QED
  BY <1>1, BlocksAtMost, BlocksNat

\* The piece that is copied ends in the block that the write is at.
LEMMA CopiedWithin ==
  ASSUME TypeOK, todo # <<>>
  PROVE  /\ Blocks(Cur.off + at + Copied) <= Log + 1
         /\ Copied \in Int /\ Cur.off + at + Copied \in Nat
<1>1. BlockSize \in Nat \ {0} /\ at \in Nat /\ Cur.n \in Nat /\ Cur.off + at \in Nat
  BY Current, Sizes DEF TypeOK
<1>. PICK a \in Nat : a = Cur.off + at
  BY <1>1
<1>. PICK q \in Nat, r \in Nat :
       /\ q = a \div BlockSize /\ r = a % BlockSize
       /\ a = BlockSize * q + r /\ r < BlockSize /\ BlockSize * q \in Nat
  BY Division
<1>2. Copied <= BlockSize - r /\ Copied \in Int
  <2>. PICK left \in Int : left = Cur.n - at
    BY <1>1
  <2>. PICK room \in Nat \ {0} : room = BlockSize - r
    BY <1>1
  <2>1. Copied = IF left <= room THEN left ELSE room
    BY DEF Copied
  <2>. QED
    BY <2>1
<1>. PICK c \in Int : c = Copied
  BY <1>2
<1>n. a + c \in Nat
  <2>. PICK k, o \in Nat : k = at /\ o = Cur.off
    BY <1>1, Current
  <2>1. k + c \in Nat /\ a = o + k
    BY AdvanceNat
  <2>2. o + (k + c) \in Nat /\ o + (k + c) = (o + k) + c
    BY <2>1
  <2>. QED
    BY <2>1, <2>2
<1>3. a + c <= BlockSize * (q + 1)
  <2>1. BlockSize * (q + 1) = BlockSize * q + BlockSize
    BY <1>1
  <2>2. c <= BlockSize - r
    BY <1>2
  <2>. PICK p \in Nat : p = BlockSize * q
    OBVIOUS
  <2>. PICK t \in Int : t = BlockSize * (q + 1)
    BY <1>1, SMTT(30)
  <2>3. a = p + r /\ t = p + BlockSize
    BY <2>1
  <2>4. \A b \in Nat : c <= b - r => (p + r) + c <= p + b
    BY SMTT(30)
  <2>5. a + c <= t
    BY <1>1, <2>2, <2>3, <2>4
  <2>. QED
    BY <2>5
<1>4. Blocks(a + c) <= q + 1
  BY <1>3, <1>n, BlocksAtMost
<1>. QED
  BY <1>2, <1>4, <1>n DEF Log

\* As long as something is left, there is a piece to copy.
LEMMA CopiedFits ==
  ASSUME TypeOK, todo # <<>>, at < Cur.n
  PROVE  /\ Blocks(Cur.off + at + Copied) <= Log + 1
         /\ Copied \in Nat \ {0}
<1>1. BlockSize \in Nat \ {0} /\ at \in Nat /\ Cur.n \in Nat /\ Cur.off + at \in Nat
  BY Current, Sizes DEF TypeOK
<1>2. (Cur.off + at) % BlockSize \in Nat /\ (Cur.off + at) % BlockSize < BlockSize
  BY <1>1
<1>3. Copied \in Nat \ {0}
  BY <1>1, <1>2 DEF Copied
<1>. QED
  BY <1>3, CopiedWithin
-----------------------------------------------------------------------------
(* Every inode has its blocks.                                             *)

\* A cell lies in one of the blocks that the cells up to it need.
LEMMA QuotientBlocks ==
  ASSUME NEW n \in Nat
  PROVE  n \div BlockSize <= Blocks(n) /\ n \div BlockSize \in Nat
<1>. PICK q \in Nat, r \in Nat :
       q = n \div BlockSize /\ n = BlockSize * q + r /\ BlockSize * q \in Nat
  BY Division
<1>. PICK d \in Nat : d = Blocks(n)
  BY BlocksNat
<1>1. n <= BlockSize * d /\ BlockSize \in Nat \ {0}
  BY BlocksCover, Sizes
<1>2. CASE d < q
  <2>1. BlockSize * (d + 1) <= BlockSize * q
    BY <1>2, Grows
  <2>2. BlockSize * (d + 1) = BlockSize * d + BlockSize /\ BlockSize * d \in Nat
    BY <1>1
  <2>. PICK p \in Nat, t \in Nat : p = BlockSize * q /\ t = BlockSize * d
    BY <2>2
  <2>. QED
    BY <1>1, <2>1, <2>2
<1>. QED
  BY <1>2

\* A logical block number is a place, and not that of the indirect block.
LEMMA LogicalPlace ==
  ASSUME NEW l \in Nat, l < NrLogical
  PROVE  l \in Places /\ l # -1
<1>1. NrLogical \in Nat
  BY PlacesInt
<1>. QED
  BY <1>1 DEF Places

\* The size of an inode, and how far a write has come.
LEMMA ExtentNat ==
  ASSUME TypeOK, Stands, NEW i \in Inodes
  PROVE  Extent(i) \in Nat /\ mem[i].size \in Nat
<1>1. mem[i].size \in Nat
  BY DEF TypeOK, Dinode
<1>2. pc \in WriteSteps => Cur.off + at \in Nat
  BY Current DEF Stands, StandsInWrite, TypeOK
<1>. QED
  BY <1>1, <1>2 DEF Extent, MaxOf

\* A write leaves every inode its size, or lets it grow by what has been copied.
LEMMA ExtentMoves ==
  ASSUME TypeOK, pc = "ready" => at = 0, WriteStep, NEW i \in Inodes
  PROVE  \/ Extent(i)' = Extent(i)
         \/ /\ i = Cur.in /\ pc = "csum"
            /\ Extent(i)' = MaxOf(mem[i].size, Cur.off + at + Copied)
<1>1. /\ todo # <<>> /\ Inode = mem[Cur.in] /\ Cur.in \in Inodes
      /\ Cur.off \in Nat /\ at \in Nat /\ \A k \in Inodes : mem[k].size \in Nat
  BY DataStepKeeps, Current DEF Inode, TypeOK, Dinode
<1>2. ASSUME i # Cur.in
      PROVE  Extent(i)' = Extent(i)
  <2>1. mem'[i] = mem[i] /\ (pc' \in WriteSteps => Cur' = Cur)
    BY <1>2, DataStepKeeps, SameCall DEF WriteStep, BeginWrite, MapExisting, MapDirect,
       MapIndirect, ReadIndirect, MapChild, NoChild, WriteIndirect, MapFails,
       WriteIndirectFails, StoreData, StoreCsum, StoreLastCsum, Fail, Return, WriteSteps, plan
  <2>. QED
    BY <1>2, <2>1 DEF Extent
<1>. SUFFICES ASSUME i = Cur.in
              PROVE  \/ Extent(i)' = Extent(i)
                     \/ /\ pc = "csum"
                        /\ Extent(i)' = MaxOf(mem[i].size, Cur.off + at + Copied)
  BY <1>2
<1>3. CASE BeginWrite
  <2>1. /\ pc = "ready" /\ pc' = "map" /\ at = 0 /\ at' = at /\ mem' = mem /\ todo' = todo
        /\ Cur.off <= mem[i].size
    BY <1>1, <1>3 DEF BeginWrite, Running, regs, plan
  <2>2. Extent(i) = mem[i].size
    BY <2>1 DEF Extent, WriteSteps
  <2>3. Extent(i)' = MaxOf(mem[i].size, Cur.off + at)
    BY <2>1, SameCall DEF Extent, WriteSteps
  <2>. QED
    BY <1>1, <2>1, <2>2, <2>3 DEF MaxOf
<1>4. CASE \/ MapExisting \/ MapDirect \/ MapIndirect \/ ReadIndirect \/ MapChild
           \/ NoChild \/ WriteIndirect \/ StoreData
  <2>1. /\ pc \in WriteSteps /\ pc' \in WriteSteps /\ at' = at /\ todo' = todo
        /\ mem'[i].size = mem[i].size
    <3>1. /\ pc \in WriteSteps /\ pc' \in WriteSteps /\ at' = at /\ todo' = todo
          /\ \/ mem' = mem
             \/ \E d : SetInode([Inode EXCEPT !.direct = d])
             \/ \E b : SetInode([Inode EXCEPT !.ind = b])
      BY <1>4 DEF MapExisting, MapDirect, MapIndirect, ReadIndirect, MapChild, NoChild,
         WriteIndirect, StoreData, Running, WriteSteps, SetNoInode, plan, regs
    <3>2. Inode \in Dinode /\ Inode = mem[i]
      BY <1>1, Current
    <3>3. /\ \A d : [Inode EXCEPT !.direct = d].size = mem[i].size
          /\ \A b : [Inode EXCEPT !.ind = b].size = mem[i].size
      BY <3>2 DEF Dinode
    <3>4. \A d : SetInode(d) => mem'[i] = d
      BY <1>1 DEF SetInode, TypeOK
    <3>. QED
      BY <3>1, <3>3, <3>4
  <2>. QED
    BY <2>1, SameCall DEF Extent
<1>5. CASE MapFails \/ WriteIndirectFails
  <2>1. pc \in WriteSteps /\ pc' \notin WriteSteps /\ SetInode([Inode EXCEPT !.size = Covered])
    BY <1>5 DEF MapFails, WriteIndirectFails, Fail, Running, WriteSteps
  <2>2. mem'[i].size = Covered
    BY <1>1, <2>1, Current DEF SetInode, TypeOK, Dinode
  <2>. QED
    BY <1>1, <2>1, <2>2 DEF Extent, Covered
<1>6. CASE StoreCsum
  <2>1. /\ pc = "csum" /\ pc' = "map" /\ mem' = mem /\ todo' = todo /\ at' = at + Copied
    BY <1>6 DEF StoreCsum, SetNoInode, Running, plan, Advance
  <2>2. Cur.off + at' = Cur.off + at + Copied
    BY <1>1, <2>1, CopiedWithin
  <2>. QED
    BY <2>1, <2>2, SameCall DEF Extent, WriteSteps
<1>7. CASE StoreLastCsum
  <2>1. /\ pc = "csum" /\ pc' = "ready" /\ at + Copied = Cur.n
        /\ SetInode([Inode EXCEPT !.size = MaxOf(@, Cur.off + Cur.n)])
    BY <1>7 DEF StoreLastCsum, Return, Running
  <2>2. mem'[i].size = MaxOf(mem[i].size, Cur.off + Cur.n)
    BY <1>1, <2>1, Current DEF SetInode, TypeOK, Dinode
  <2>3. Cur.off + Cur.n = Cur.off + at + Copied
    BY <1>1, <2>1, CopiedWithin
  <2>. QED
    BY <2>1, <2>2, <2>3 DEF Extent, WriteSteps
<1>. QED
  BY <1>3, <1>4, <1>5, <1>6, <1>7 DEF WriteStep

\* The cells an inode needs blocks for stay, or come to cover what has just been written.
LEMMA ExtentWrite ==
  ASSUME TypeOK, Stands, WriteStep, NEW i \in Inodes
  PROVE  \/ Extent(i)' = Extent(i)
         \/ /\ i = Cur.in /\ pc = "csum"
            /\ Extent(i)' = MaxOf(mem[i].size, Cur.off + at + Copied)
BY ExtentMoves DEF Stands, StandsBetween

\* Every step of a write leaves every inode with all the blocks of its size: a block is
\* mapped before the size covers it.
LEMMA FilledWrite ==
  ASSUME TypeOK, Stands, NEW P \in SUBSET Inodes, Owned(P), Filled(P), Cur.in \in P, WriteStep
  PROVE  Filled(P)'
<1>. PICK j \in P : j = Cur.in
  OBVIOUS
<1>0. todo # <<>> /\ P \subseteq Inodes
  BY DataStepKeeps
<1>1. pc \notin TruncSteps
  BY DEF WriteStep, BeginWrite, MapExisting, MapDirect, MapIndirect, ReadIndirect, MapChild,
     NoChild, WriteIndirect, MapFails, WriteIndirectFails, StoreData, StoreCsum,
     StoreLastCsum, Running, TruncSteps
<1>2. \A i \in P, s \in Places : HeldAt(i, s) # 0 => HeldAt(i, s)' # 0
  <2>1. CASE MapDirect \/ MapIndirect \/ MapChild
    <3>1. PICK t \in Places, b \in Phys :
            /\ HeldAt(j, t)' = b
            /\ \A i \in P, s \in Places : i # j \/ s # t => HeldAt(i, s)' = HeldAt(i, s)
      BY <1>0, <2>1, WriteMaps
    <3>2. b # 0
      BY Sizes
    <3>. QED
      BY <3>1, <3>2
  <2>2. CASE ~(MapDirect \/ MapIndirect \/ MapChild)
    BY <1>0, <2>2, WriteKeepsHeld DEF WriteStep
  <2>. QED
    BY <2>1, <2>2
<1>. SUFFICES ASSUME NEW i \in P, NEW l \in 0 .. (Blocks(Extent(i)') - 1)
              PROVE  l < NrLogical /\ HeldAt(i, l)' # 0
  BY DEF Filled, Blocks
<1>3. Extent(i) \in Nat /\ mem[i].size \in Nat
  BY <1>0, ExtentNat
<1>4. CASE l < Blocks(Extent(i))
  <2>1. l \in Nat /\ l < NrLogical /\ HeldAt(i, l) # 0
    <3>1. l \in 0 .. (Blocks(Extent(i)) - 1)
      BY <1>3, <1>4, BlocksNat
    <3>. QED
      BY <1>1, <3>1 DEF Filled, Cleared
  <2>. QED
    BY <1>2, <2>1, LogicalPlace
<1>5. CASE Extent(i)' = Extent(i)
  <2>1. Blocks(Extent(i)) \in Nat
    BY <1>3, BlocksNat
  <2>2. l < Blocks(Extent(i))
    BY <1>5, <2>1
  <2>. QED
    BY <1>4, <2>2
<1>6. CASE /\ i = Cur.in /\ pc = "csum"
           /\ Extent(i)' = MaxOf(mem[i].size, Cur.off + at + Copied)
  <2>. PICK log \in Nat : log = Log
    BY <1>0, LogNat
  <2>1. /\ at < Cur.n /\ Log < NrLogical /\ Extent(i) = MaxOf(mem[i].size, Cur.off + at)
        /\ Cur.off + at \in Nat /\ Cur.off \in Nat /\ at \in Nat
    BY <1>0, <1>6, Current DEF Stands, StandsInWrite, WriteSteps, Extent, TypeOK
  <2>2. Mapped \in Phys
    BY <1>6, SumsMapped DEF WriteStep, BeginWrite, MapExisting, MapDirect, MapIndirect,
       ReadIndirect, MapChild, NoChild, WriteIndirect, MapFails, WriteIndirectFails, StoreData,
       Running
  <2>3. log \in Places /\ log # -1 /\ HeldAt(i, log) # 0
    <3>1. log \in Places /\ log # -1
      BY <2>1, LogicalPlace
    <3>2. HeldAt(i, log) = Mapped
      BY <1>6, <3>1, Zenon DEF HeldAt, Table, Mapped, BlockAt, Inode, Loaded
    <3>. QED
      BY <2>2, <3>1, <3>2, Sizes
  <2>4. Blocks(Cur.off + at + Copied) <= log + 1 /\ Cur.off + at + Copied \in Nat
    BY <1>0, <2>1, CopiedFits
  <2>5. log <= Blocks(Extent(i))
    <3>1. log <= Blocks(Cur.off + at)
      BY <2>1, QuotientBlocks DEF Log
    <3>2. Cur.off + at <= Extent(i)
      BY <1>3, <2>1 DEF MaxOf
    <3>3. Blocks(Cur.off + at) <= Blocks(Extent(i))
      BY <1>3, <2>1, <3>2, BlocksGrow
    <3>. QED
      BY <1>3, <2>1, <3>1, <3>3, BlocksNat
  <2>6. l < Blocks(Extent(i)) \/ l = log
    <3>. PICK m \in Nat : m = Blocks(Extent(i))
      BY <1>3, BlocksNat
    <3>1. Blocks(mem[i].size) <= m
      <4>1. mem[i].size <= Extent(i)
        BY <1>3, <2>1 DEF MaxOf
      <4>. QED
        BY <1>3, <4>1, BlocksGrow
    <3>2. Extent(i)' \in {mem[i].size, Cur.off + at + Copied}
      BY <1>6 DEF MaxOf
    <3>. PICK e \in Nat : e = Blocks(Extent(i)')
      BY <1>3, <2>4, <3>2, BlocksNat
    <3>3. e <= m \/ e <= log + 1
      BY <2>4, <3>1, <3>2
    <3>4. l < e /\ l \in Nat /\ log <= m
      BY <2>5
    <3>. QED
      BY <3>3, <3>4
  <2>7. l = log => l < NrLogical /\ HeldAt(i, l)' # 0
    BY <1>2, <2>1, <2>3
  <2>. QED
    BY <1>4, <2>6, <2>7
<1>. QED
  BY <1>0, <1>5, <1>6, ExtentWrite

\* What a truncation does to the sizes, to its place and to its plan.
LEMMA TruncMoves ==
  ASSUME TypeOK, TruncStep, NEW j \in Inodes, j = Cur.in
  PROVE  /\ \/ /\ pc' \in TruncSteps /\ todo' = todo /\ mem'[j].size = mem[j].size
            \/ /\ pc' = "ready" /\ mem'[j].size = Cur.off /\ pc \in TruncSteps
            \/ /\ pc' = "ready" /\ TruncNothing
         /\ pc \notin WriteSteps /\ pc' \notin WriteSteps
<1>1. Inode \in Dinode /\ Inode = mem[j] /\ mem \in [Inodes -> Dinode]
  BY DataStepKeeps, Current DEF TypeOK, Inode
<1>2. /\ \A d : [Inode EXCEPT !.direct = d].size = mem[j].size
      /\ \A n : [Inode EXCEPT !.size = n].size = n
  BY <1>1 DEF Dinode
<1>3. \A d : SetInode(d) => mem'[j] = d
  BY <1>1 DEF SetInode
<1>4. CASE UnmarkDirect
  <2>1. \E d : SetInode([Inode EXCEPT !.direct = d])
    BY <1>4 DEF UnmarkDirect
  <2>2. mem'[j].size = mem[j].size
    BY <1>2, <1>3, <2>1
  <2>. QED
    BY <1>4, <2>2 DEF UnmarkDirect, Running, WriteSteps, TruncSteps, plan
<1>5. CASE TruncDirectOnly \/ UnmarkIndirect \/ KeepIndirect
  <2>1. \/ SetInode([Inode EXCEPT !.size = Cur.off])
        \/ SetInode([Inode EXCEPT !.ind = 0, !.size = Cur.off])
    BY <1>5 DEF TruncDirectOnly, UnmarkIndirect, KeepIndirect
  <2>. PICK off : off = Cur.off
    OBVIOUS
  <2>2. mem'[j].size = off
    <3>1. CASE SetInode([Inode EXCEPT !.size = off])
      BY <1>2, <1>3, <3>1
    <3>2. CASE SetInode([Inode EXCEPT !.ind = 0, !.size = off])
      <4>1. [Inode EXCEPT !.ind = 0, !.size = off].size = off
        BY <1>1 DEF Dinode
      <4>. QED
        BY <1>3, <3>2, <4>1
    <3>. QED
      BY <2>1, <3>1, <3>2
  <2>3. pc' = "ready" /\ pc \in TruncSteps /\ pc \notin WriteSteps
    BY <1>5 DEF TruncDirectOnly, UnmarkIndirect, KeepIndirect, Return, Running, WriteSteps,
       TruncSteps
  <2>4. pc' \notin WriteSteps
    BY <2>3 DEF WriteSteps
  <2>. QED
    BY <2>2, <2>3, <2>4
<1>6. CASE BeginTrunc \/ ZeroDirect \/ LoadIndirect \/ ZeroChild \/ UnmarkChild \/ ZeroIndirect
  BY <1>6 DEF BeginTrunc, ZeroDirect, LoadIndirect, ZeroChild, UnmarkChild, ZeroIndirect,
     SetNoInode, Running, WriteSteps, TruncSteps, plan
<1>7. CASE TruncNothing
  BY <1>7 DEF TruncNothing, Return, Running, WriteSteps
<1>. QED
  BY <1>4, <1>5, <1>6, <1>7 DEF TruncStep

\* Every step of a truncation frees the blocks beyond the new size one after the other,
\* and no other; when it is done the size no longer covers them.
LEMMA FilledTrunc ==
  ASSUME TypeOK, Stands, NEW P \in SUBSET Inodes, Owned(P), Filled(P), NEW j \in P, j = Cur.in,
         TruncStep
  PROVE  Filled(P)'
<1>0. todo # <<>> /\ P \subseteq Inodes /\ j \in Inodes /\ pc \notin WriteSteps /\ pc' \notin WriteSteps
  BY DataStepKeeps, TruncMoves
<1>1. /\ \A i \in P : Extent(i) = mem[i].size /\ Extent(i)' = mem'[i].size
      /\ \A i \in P : mem[i].size \in Nat /\ (i # j => mem'[i] = mem[i])
  BY <1>0, DataStepKeeps DEF Extent, TypeOK, Dinode
<1>2. \A i \in P, s \in Places : i # j => HeldAt(i, s)' = HeldAt(i, s)
  <2>1. CASE UnmarkDirect
    BY <1>0, <2>1, FreesDirect
  <2>2. CASE UnmarkChild
    BY <1>0, <2>2, FreesChild
  <2>3. CASE ZeroIndirect
    BY <1>0, <2>3, FreesTable
  <2>4. CASE UnmarkIndirect
    BY <1>0, <2>4, FreesIndirect
  <2>5. CASE \/ TruncNothing \/ BeginTrunc \/ ZeroDirect \/ TruncDirectOnly \/ LoadIndirect
             \/ ZeroChild \/ KeepIndirect
    BY <1>0, <2>5, TruncKeepsHeld
  <2>. QED
    BY <2>1, <2>2, <2>3, <2>4, <2>5 DEF TruncStep
<1>3. ASSUME NEW i \in P, i # j, NEW l \in 0 .. (Blocks(Extent(i)') - 1)
      PROVE  l < NrLogical /\ HeldAt(i, l)' # 0
  <2>1. l \in Nat /\ l < NrLogical /\ HeldAt(i, l) # 0
    BY <1>1, <1>3 DEF Filled, Cleared
  <2>. QED
    BY <1>2, <1>3, <2>1, LogicalPlace
<1>. SUFFICES ASSUME NEW l \in 0 .. (Blocks(mem'[j].size) - 1)
              PROVE  l < NrLogical /\ (HeldAt(j, l)' # 0 \/ Cleared(j, l)')
  BY <1>1, <1>3 DEF Filled, Blocks
<1>. PICK off \in Nat : off = Cur.off
  BY <1>0, Current
<1>. PICK k \in Nat : k = at
  BY DEF TypeOK
<1>. PICK first \in Nat : first = First
  BY <1>0, BlocksNat DEF First
<1>4. /\ l \in Nat
      /\ l < Blocks(mem[j].size) => l < NrLogical /\ (HeldAt(j, l) # 0 \/ Cleared(j, l))
  <2>1. l < Blocks(mem[j].size) => l \in 0 .. (Blocks(mem[j].size) - 1)
    BY <1>1, BlocksNat
  <2>. QED
    BY <1>1, <2>1 DEF Filled
<1>5. l < NrLogical => l \in Places /\ l # -1
  BY <1>4, LogicalPlace
<1>n. NrDirect \in Nat
  BY Sizes
<1>6. CASE /\ pc' \in TruncSteps /\ todo' = todo /\ mem'[j].size = mem[j].size
  <2>1. /\ l < Blocks(mem[j].size) /\ l < NrLogical /\ (HeldAt(j, l) # 0 \/ Cleared(j, l))
    BY <1>1, <1>4, <1>6, BlocksNat
  <2>2. Cur'.off = Cur.off /\ Cur'.in = j /\ First' = first
    BY <1>6 DEF Cur, First, Blocks
  <2>3. Cleared(j, l)' <=> /\ first <= l
                           /\ pc' \in {"zero", "unmark"} => l < at'
                           /\ pc' \in {"zerochild", "unmarkchild"} => l < NrDirect + at'
    BY <1>6, <2>2 DEF Cleared
  <2>4. Cleared(j, l) <=> /\ pc \in TruncSteps /\ first <= l
                          /\ pc \in {"zero", "unmark"} => l < k
                          /\ pc \in {"zerochild", "unmarkchild"} => l < NrDirect + k
    BY DEF Cleared
  <2>5. CASE UnmarkDirect
    <3>1. \A s \in Places : s # k => HeldAt(j, s)' = HeldAt(j, s)
      BY <1>0, <2>5, FreesDirect
    <3>2. pc = "unmark" /\ pc' = "zero" /\ at' = k + 1 /\ first <= k
      BY <2>5 DEF UnmarkDirect, Running, Stands, StandsInTrunc
    <3>3. l = k => Cleared(j, l)'
      BY <2>3, <3>2
    <3>4. Cleared(j, l) => Cleared(j, l)'
      BY <1>4, <2>3, <2>4, <3>2
    <3>. QED
      BY <1>5, <2>1, <3>1, <3>3, <3>4
  <2>6. CASE UnmarkChild
    <3>1. \A s \in Places : s # NrDirect + k => HeldAt(j, s)' = HeldAt(j, s)
      BY <1>0, <2>6, FreesChild
    <3>2. pc = "unmarkchild" /\ pc' = "zerochild" /\ at' = k + 1 /\ FirstChild <= k
      BY <2>6 DEF UnmarkChild, Running, Stands, StandsInTrunc
    <3>3. first <= NrDirect + k
      BY <1>n, <3>2 DEF FirstChild, MaxOf
    <3>4. l = NrDirect + k => Cleared(j, l)'
      BY <1>n, <2>3, <3>2, <3>3
    <3>5. Cleared(j, l) => Cleared(j, l)'
      BY <1>4, <1>n, <2>3, <2>4, <3>2
    <3>. QED
      BY <1>5, <2>1, <3>1, <3>4, <3>5
  <2>7. CASE ZeroIndirect
    <3>1. \A s \in Places : s < NrDirect => HeldAt(j, s)' = HeldAt(j, s)
      BY <1>0, <2>7, FreesTable
    <3>2. pc = "zerochild" /\ pc' = "unmarkindirect" /\ first <= NrDirect
      BY <2>7 DEF ZeroIndirect, Running
    <3>3. Cleared(j, l) \/ l >= NrDirect => Cleared(j, l)'
      BY <1>4, <1>n, <2>3, <2>4, <3>2
    <3>4. l < NrDirect \/ l >= NrDirect
      BY <1>4, <1>n
    <3>. QED
      BY <1>5, <2>1, <3>1, <3>3, <3>4
  <2>8. CASE BeginTrunc \/ ZeroDirect \/ LoadIndirect \/ ZeroChild
    <3>1. HeldAt(j, l)' = HeldAt(j, l)
      BY <1>0, <1>5, <2>1, <2>8, TruncKeepsHeld
    <3>2. CASE BeginTrunc
      BY <2>1, <2>4, <3>1, <3>2 DEF BeginTrunc, Running, TruncSteps
    <3>3. CASE ZeroDirect \/ ZeroChild
      BY <2>1, <2>3, <2>4, <3>1, <3>3 DEF ZeroDirect, ZeroChild, Running, regs
    <3>4. CASE LoadIndirect
      <4>1. /\ pc = "zero" /\ pc' = "zerochild" /\ at' = FirstChild /\ k <= MaxOf(first, NrDirect)
        BY <3>4 DEF LoadIndirect, Running, Stands, StandsInTrunc
      <4>2. k <= NrDirect + at'
        BY <1>n, <4>1 DEF FirstChild, MaxOf
      <4>3. at' \in Int
        BY <1>n, <4>1 DEF FirstChild, MaxOf
      <4>4. Cleared(j, l) => Cleared(j, l)'
        BY <1>4, <1>n, <2>3, <2>4, <4>1, <4>2, <4>3
      <4>. QED
        BY <2>1, <3>1, <4>4
    <3>. QED
      BY <2>8, <3>2, <3>3, <3>4
  <2>9. ~(UnmarkIndirect \/ KeepIndirect \/ TruncDirectOnly \/ TruncNothing)
    BY <1>6 DEF UnmarkIndirect, KeepIndirect, TruncDirectOnly, TruncNothing, Return, TruncSteps
  <2>. QED
    BY <2>5, <2>6, <2>7, <2>8, <2>9 DEF TruncStep
<1>7. CASE pc' = "ready" /\ mem'[j].size = Cur.off /\ pc \in TruncSteps
  <2>1. l < first /\ off < mem[j].size
    BY <1>4, <1>7 DEF First, Stands, StandsInTrunc, Inode
  <2>2. first <= Blocks(mem[j].size) /\ Blocks(mem[j].size) \in Nat
    BY <1>1, <2>1, BlocksGrow, BlocksNat DEF First
  <2>3. l < NrLogical /\ (HeldAt(j, l) # 0 \/ Cleared(j, l))
    BY <1>4, <2>1, <2>2
  <2>4. ~Cleared(j, l)
    BY <1>4, <2>1 DEF Cleared
  <2>5. HeldAt(j, l)' = HeldAt(j, l)
    <3>1. CASE UnmarkIndirect
      <4>1. l < NrDirect
        BY <1>4, <1>n, <2>1, <3>1 DEF UnmarkIndirect, Running, Stands, StandsInTrunc
      <4>. QED
        BY <1>0, <1>5, <2>3, <3>1, <4>1, FreesIndirect
    <3>2. CASE TruncDirectOnly \/ KeepIndirect \/ TruncNothing
      BY <1>0, <1>5, <2>3, <3>2, TruncKeepsHeld
    <3>3. ~(BeginTrunc \/ ZeroDirect \/ LoadIndirect \/ ZeroChild \/ UnmarkDirect
            \/ UnmarkChild \/ ZeroIndirect)
      BY <1>7 DEF BeginTrunc, ZeroDirect, LoadIndirect, ZeroChild, UnmarkDirect,
         UnmarkChild, ZeroIndirect
    <3>. QED
      BY <3>1, <3>2, <3>3 DEF TruncStep
  <2>. QED
    BY <2>3, <2>4, <2>5
<1>8. CASE pc' = "ready" /\ TruncNothing
  <2>1. mem' = mem /\ pc \notin TruncSteps
    BY <1>8 DEF TruncNothing, Running, TruncSteps
  <2>2. l < NrLogical /\ HeldAt(j, l) # 0
    BY <1>1, <1>4, <2>1, BlocksNat DEF Cleared
  <2>. QED
    BY <1>0, <1>5, <1>8, <2>2, TruncKeepsHeld
<1>. QED
  BY <1>0, <1>6, <1>7, <1>8, TruncMoves

\* The steps between the calls that touch data: an inode that is released is blank.
LEMMA FilledBetween ==
  ASSUME TypeOK, Stands, NEW P \in SUBSET Inodes, Filled(P), todo # <<>> => Cur.in \in P,
         ReleaseInode \/ SyncInode \/ CreateInode \/ NoInode
  PROVE  Filled(P)'
<1>1. /\ pc \notin WriteSteps \cup TruncSteps \cup Loaded
      /\ pc' \notin WriteSteps \cup TruncSteps \cup Loaded
      /\ blk' = blk
  BY DEF ReleaseInode, SyncInode, CreateInode, NoInode, TakeNumber, Return, Running, disk,
     WriteSteps, TruncSteps, Loaded
<1>2. ASSUME NEW i \in P, mem'[i].size = mem[i].size, mem'[i].ind = mem[i].ind,
             mem'[i].direct = mem[i].direct, NEW l \in 0 .. (Blocks(mem'[i].size) - 1)
      PROVE  l < NrLogical /\ HeldAt(i, l)' # 0
  <2>1. l \in Nat /\ l < NrLogical /\ HeldAt(i, l) # 0
    BY <1>1, <1>2 DEF Filled, Extent, Cleared
  <2>2. HeldAt(i, l)' = HeldAt(i, l)
    <3>1. Table(i)' = Table(i)
      BY <1>1, <1>2 DEF Table
    <3>2. l \in Places
      BY <2>1, LogicalPlace
    <3>. QED
      BY <1>2, <3>1, <3>2, PlaceCases, HeldNext, HeldCases
  <2>. QED
    BY <2>1, <2>2
<1>3. ASSUME NEW i \in P, mem'[i] = Blank, NEW l \in 0 .. (Blocks(mem'[i].size) - 1)
      PROVE  l < NrLogical /\ HeldAt(i, l)' # 0
  <2>1. mem'[i].size = 0
    BY <1>3 DEF Blank
  <2>. QED
    BY <2>1, NoBlocks
<1>4. \A i \in P : \/ mem'[i] = Blank
                   \/ /\ mem'[i].size = mem[i].size /\ mem'[i].ind = mem[i].ind
                      /\ mem'[i].direct = mem[i].direct
  <2>1. CASE ReleaseInode
    BY <2>1 DEF ReleaseInode, Running, SetInode, TypeOK
  <2>2. CASE SyncInode \/ NoInode
    BY <2>2 DEF SyncInode, NoInode
  <2>3. CASE CreateInode
    <3>1. PICK n \in Inodes, type \in {"file", "dir"} : mem' = [mem EXCEPT ![n].type = type]
      BY <2>3 DEF CreateInode
    <3>. QED
      BY <3>1 DEF TypeOK, Dinode
  <2>. QED
    BY <2>1, <2>2, <2>3
<1>5. \A i \in P : Extent(i)' = mem'[i].size
  BY <1>1 DEF Extent
<1>. QED
  BY <1>2, <1>3, <1>4, <1>5 DEF Filled, Blocks

\* Every inode of P has its blocks after every step of a command, if the one that the
\* process works on is among them.
LEMMA FilledStep ==
  ASSUME TypeOK, Stands, NEW P \in SUBSET Inodes, Owned(P), Filled(P),
         todo # <<>> => Cur.in \in P,
         \/ WriteStep \/ TruncStep \/ ReleaseInode \/ SyncInode \/ CreateInode \/ NoInode
  PROVE  Filled(P)'
<1>1. CASE WriteStep
  BY <1>1, DataStepKeeps, FilledWrite
<1>2. CASE TruncStep
  BY <1>2, DataStepKeeps, FilledTrunc
<1>. QED
  BY <1>1, <1>2, FilledBetween

\* On an intact image the inodes in memory have all the blocks of their size.
LEMMA IntactFilled ==
  ASSUME TypeOK, mem = dino, pc \notin WriteSteps \cup Loaded, NEW I \in SUBSET Inodes,
         \A i \in I : HasItsBlocks(dino[i])
  PROVE  Filled(I)
<1>. SUFFICES ASSUME NEW i \in I, NEW l \in 0 .. (Blocks(Extent(i)) - 1)
              PROVE  l < NrLogical /\ HeldAt(i, l) # 0
  BY DEF Filled
<1>1. l < NrLogical /\ BlockAt(dino[i], l) # 0 /\ l \in Nat
  BY DEF Extent, HasItsBlocks
<1>2. HeldAt(i, l) = BlockAt(dino[i], l)
  <2>1. l # -1
    BY <1>1
  <2>. QED
    BY <2>1, Zenon DEF HeldAt, Table, BlockAt
<1>. QED
  BY <1>1, <1>2

\* A blank inode has all the blocks of its size.
LEMMA BlankFilled ==
  ASSUME NEW P, Filled(P), NEW j, mem[j] = Blank, pc \notin WriteSteps
  PROVE  Filled(P \cup {j})
<1>1. Extent(j) = 0
  BY DEF Extent, Blank
<1>. QED
  BY <1>1, NoBlocks DEF Filled

\* What has its blocks among some inodes has them among fewer.
LEMMA FilledSubset == ASSUME NEW P, Filled(P), NEW Q \in SUBSET P PROVE Filled(Q)
BY DEF Filled

\* The same in the next state.
LEMMA FilledSubsetNext == ASSUME NEW P, Filled(P)', NEW Q \in SUBSET P PROVE Filled(Q)'
BY DEF Filled
-----------------------------------------------------------------------------
(* The tree.                                                               *)

\* The root is reachable, and what is reachable is an inode.
LEMMA ReachBasics ==
  /\ Reachable \subseteq Inodes /\ 0 \in Reachable
  /\ Dirs \subseteq Reachable /\ Dirs \subseteq Inodes
BY Sizes DEF Reachable, Dirs

\* What a directory names is reachable, and nothing else is but the root.
LEMMA ReachKid ==
  ASSUME NEW d \in Dirs, NEW k \in LiveSlots(dino[d]), CellAt(dino[d], k) - 1 \in Inodes
  PROVE  CellAt(dino[d], k) - 1 \in Reachable
<1>. PICK x \in Inodes : x = CellAt(dino[d], k) - 1
  OBVIOUS
<1>1. x \in Children(dino[d])
  BY DEF Children
<1>2. d \in Inodes /\ d \in Reachable /\ dino[d].type = "dir"
  BY ReachBasics DEF Dirs
<1>3. ASSUME NEW S \in SUBSET Inodes, 0 \in S,
             \A i \in S : (IF dino[i].type = "dir" THEN Children(dino[i]) ELSE {}) \cap Inodes
                          \subseteq S
      PROVE  x \in S
  <2>1. d \in S
    BY <1>2, <1>3 DEF Reachable
  <2>. QED
    BY <1>1, <1>2, <1>3, <2>1
<1>. QED
  BY <1>3 DEF Reachable

\* What is reachable is in every set closed under the entries of directories.
LEMMA ReachInside ==
  ASSUME NEW S \in SUBSET Inodes, 0 \in S,
         \A d \in S : dino[d].type = "dir" => Children(dino[d]) \cap Inodes \subseteq S
  PROVE  Reachable \subseteq S
BY DEF Reachable

\* The same in the next state.
LEMMA ReachInsideNext ==
  ASSUME NEW S \in SUBSET Inodes, 0 \in S,
         \A d \in S : dino'[d].type = "dir" => Children(dino[d])' \cap Inodes \subseteq S
  PROVE  Reachable' \subseteq S
BY DEF Reachable

\* A cell holds a number.
LEMMA CellInt == ASSUME TypeOK, NEW d, NEW k \in Nat PROVE CellAt(d, k) \in Int
<1>1. k % BlockSize \in Cells
  BY Sizes DEF Cells
<1>2. \A b \in Phys : blk[b][k % BlockSize] \in Int
  BY <1>1 DEF TypeOK
<1>. QED
  BY <1>2 DEF CellAt

\* What is reachable, but the root, is named by a directory that is reachable.
LEMMA ReachNamed ==
  ASSUME TypeOK, NEW x \in Reachable, x # 0
  PROVE  \E d \in Dirs : \E k \in LiveSlots(dino[d]) : CellAt(dino[d], k) = x + 1
<1>. SUFFICES ASSUME \A d \in Dirs : x \notin Children(dino[d])
              PROVE  FALSE
  <2>. SUFFICES ASSUME NEW d \in Dirs, x \in Children(dino[d])
                PROVE  \E k \in LiveSlots(dino[d]) : CellAt(dino[d], k) = x + 1
    OBVIOUS
  <2>2. PICK k \in LiveSlots(dino[d]) : x = CellAt(dino[d], k) - 1
    BY DEF Children
  <2>3. CellAt(dino[d], k) \in Int
    BY CellInt DEF LiveSlots
  <2>. QED
    BY <2>2, <2>3
<1>. DEFINE S == Reachable \ {x}
<1>1. S \in SUBSET Inodes /\ 0 \in S
  BY ReachBasics
<1>2. ASSUME NEW d \in S, dino[d].type = "dir"
      PROVE  Children(dino[d]) \cap Inodes \subseteq S
  <2>1. d \in Dirs
    BY <1>2 DEF Dirs
  <2>2. Children(dino[d]) \cap Inodes \subseteq Reachable
    BY <2>1, ReachKid DEF Children
  <2>. QED
    BY <2>1, <2>2
<1>3. Reachable \subseteq S
  BY <1>1, <1>2, ReachInside
<1>. QED
  BY <1>3

\* A cell below the size lies in a block that the size asks for.
LEMMA CellBlock ==
  ASSUME NEW k \in Nat, NEW n \in Nat, k < n
  PROVE  k \div BlockSize \in Nat /\ k \div BlockSize < Blocks(n)
<1>. PICK q \in Nat, r \in Nat :
       q = k \div BlockSize /\ k = BlockSize * q + r /\ BlockSize * q \in Nat
  BY Division
<1>. PICK d \in Nat : d = Blocks(n)
  BY BlocksNat
<1>1. n <= BlockSize * d /\ BlockSize \in Nat \ {0}
  BY BlocksCover, Sizes
<1>2. CASE d <= q
  <2>1. BlockSize * d <= BlockSize * q
    BY <1>2, Grows
  <2>. PICK s \in Nat, t \in Nat : s = BlockSize * q /\ t = BlockSize * d
    BY <1>1
  <2>2. FALSE
    BY <1>1, <2>1
  <2>. QED
    BY <2>2
<1>. QED
  BY <1>2

\* What the disk has below the size, the process has too.
LEMMA DiskCell ==
  ASSUME TypeOK, NEW d \in Inodes, OnDisk(d), NEW k \in Nat, k < dino[d].size
  PROVE  /\ k \div BlockSize \in Nat /\ k \div BlockSize < NrLogical
         /\ HeldAt(d, k \div BlockSize) # 0
         /\ BlockAt(dino[d], k \div BlockSize) = HeldAt(d, k \div BlockSize)
         /\ CellAt(dino[d], k) = MemCell(d, k)
<1>. PICK l \in Nat : l = k \div BlockSize /\ l < Blocks(dino[d].size)
  BY CellBlock DEF TypeOK, Dinode
<1>1. l < NrLogical /\ BlockAt(dino[d], l) # 0
  <2>1. Blocks(dino[d].size) \in Nat
    BY BlocksNat DEF TypeOK, Dinode
  <2>2. l \in 0 .. (Blocks(dino[d].size) - 1)
    BY <2>1
  <2>. QED
    BY <2>2 DEF OnDisk, HasItsBlocks
<1>2. BlockAt(dino[d], l) = HeldAt(d, l)
  <2>1. l \in Places /\ l # -1
    BY <1>1, LogicalPlace
  <2>2. RefAt(dino[d], l) = BlockAt(dino[d], l)
    BY <2>1 DEF RefAt
  <2>. QED
    BY <1>1, <2>1, <2>2 DEF OnDisk
<1>3. CellAt(dino[d], k) = MemCell(d, k)
  BY <1>2 DEF CellAt, MemCell
<1>. QED
  BY <1>1, <1>2, <1>3

\* In the next state too, the disk has of a directory what the process has.
LEMMA DiskCellNext ==
  ASSUME TypeOK', NEW d \in Inodes, OnDisk(d)', NEW k \in Nat, k < dino'[d].size
  PROVE  /\ k \div BlockSize \in Nat /\ k \div BlockSize < NrLogical
         /\ HeldAt(d, k \div BlockSize)' # 0
         /\ CellAt(dino[d], k)' = MemCell(d, k)'
<1>. PICK l \in Nat : l = k \div BlockSize /\ l < Blocks(dino'[d].size)
  BY CellBlock DEF TypeOK, Dinode
<1>1. l < NrLogical /\ BlockAt(dino[d], l)' # 0
  <2>1. Blocks(dino'[d].size) \in Nat
    BY BlocksNat DEF TypeOK, Dinode
  <2>2. l \in 0 .. (Blocks(dino'[d].size) - 1)
    BY <2>1
  <2>. QED
    BY <2>2 DEF OnDisk, HasItsBlocks, Blocks
<1>2. BlockAt(dino[d], l)' = HeldAt(d, l)'
  <2>1. l \in Places /\ l # -1
    BY <1>1, LogicalPlace
  <2>2. RefAt(dino[d], l)' = BlockAt(dino[d], l)'
    BY <2>1 DEF RefAt
  <2>. QED
    BY <1>1, <2>1, <2>2 DEF OnDisk
<1>3. CellAt(dino[d], k)' = MemCell(d, k)'
  BY <1>2 DEF CellAt, MemCell
<1>. QED
  BY <1>1, <1>2, <1>3
-----------------------------------------------------------------------------
(* The blocks that the current call writes.                                *)

\* A step of a write or a truncation leaves the other inodes what they hold.
LEMMA OthersHold ==
  ASSUME TypeOK, Stands, NEW P \in SUBSET Inodes, Owned(P), NEW j \in P, j = Cur.in,
         WriteStep \/ TruncStep
  PROVE  \A i \in P, s \in Places : i # j => HeldAt(i, s)' = HeldAt(i, s)
<1>0. todo # <<>>
  BY DataStepKeeps
<1>1. CASE UnmarkDirect
  BY <1>0, <1>1, FreesDirect
<1>2. CASE UnmarkChild
  BY <1>0, <1>2, FreesChild
<1>3. CASE ZeroIndirect
  BY <1>0, <1>3, FreesTable
<1>4. CASE UnmarkIndirect
  BY <1>0, <1>4, FreesIndirect
<1>5. CASE \/ TruncNothing \/ BeginTrunc \/ ZeroDirect \/ TruncDirectOnly \/ LoadIndirect
           \/ ZeroChild \/ KeepIndirect
  BY <1>0, <1>5, TruncKeepsHeld
<1>6. CASE MapDirect \/ MapIndirect \/ MapChild
  BY <1>0, <1>6, WriteMaps
<1>7. CASE \/ BeginWrite \/ MapExisting \/ ReadIndirect \/ NoChild \/ WriteIndirect
           \/ MapFails \/ WriteIndirectFails \/ StoreData \/ StoreCsum \/ StoreLastCsum
  BY <1>0, <1>7, WriteKeepsHeld
<1>. QED
  BY <1>1, <1>2, <1>3, <1>4, <1>5, <1>6, <1>7 DEF WriteStep, TruncStep

\* It writes one block at most, and one that the current inode holds.
LEMMA WritesOwn ==
  ASSUME TypeOK, Stands, NEW j \in Inodes, j = Cur.in, WriteStep \/ TruncStep
  PROVE  \/ blk' = blk
         \/ \E t \in Places, b \in Phys : \E cells :
              HeldAt(j, t) = b /\ blk' = [blk EXCEPT ![b] = cells]
<1>0. /\ todo # <<>> /\ Inode \in Dinode /\ Inode = mem[j]
      /\ Inode.ind \in Phys \cup {0} /\ Inode.direct \in [0 .. (NrDirect - 1) -> Phys \cup {0}]
  BY DataStepKeeps, Current DEF Inode, Dinode
<1>. PICK k \in Nat : k = at
  BY DEF TypeOK
<1>1. CASE WriteIndirect \/ WriteIndirectFails \/ ZeroIndirect \/ KeepIndirect
  <2>1. Inode.ind # 0 /\ \E cells : blk' = [blk EXCEPT ![Inode.ind] = cells]
    BY <1>1 DEF WriteIndirect, WriteIndirectFails, ZeroIndirect, KeepIndirect, WriteBlock,
       ZeroBlock, Running, Stands, StandsInWrite, StandsInTrunc
  <2>2. HeldAt(j, -1) = Inode.ind /\ -1 \in Places /\ Inode.ind \in Phys
    BY <1>0, <2>1, PlacesInt, HeldCases
  <2>. QED
    BY <2>1, <2>2
<1>2. CASE StoreData
  <2>. PICK log \in Nat : log = Log
    BY <1>0, LogNat
  <2>1. Mapped \in Phys /\ log < NrLogical /\ \E cells : blk' = [blk EXCEPT ![Mapped] = cells]
    BY <1>2 DEF StoreData, WriteBlock, Running, Stands, StandsInWrite
  <2>2. log \in Places /\ log # -1
    BY <2>1, LogicalPlace
  <2>3. pc \notin Loaded
    BY <1>2 DEF StoreData, Running, Loaded
  <2>4. HeldAt(j, log) = Mapped
    BY <2>2, <2>3, Zenon DEF HeldAt, Table, Mapped, BlockAt, Inode
  <2>. QED
    BY <2>1, <2>2, <2>4
<1>3. CASE ZeroDirect
  <2>1. k < NrDirect /\ Inode.direct[k] # 0 /\ blk' = [blk EXCEPT ![Inode.direct[k]] = Zero]
    BY <1>3 DEF ZeroDirect, ZeroBlock, WriteBlock, MoreDirect
  <2>2. k \in 0 .. (NrDirect - 1) /\ k \in Places /\ k # -1
    BY <2>1, DirectPlace
  <2>3. HeldAt(j, k) = Inode.direct[k] /\ Inode.direct[k] \in Phys
    BY <1>0, <2>1, <2>2, HeldCases
  <2>. QED
    BY <2>1, <2>2, <2>3
<1>4. CASE ZeroChild
  <2>1. /\ k < BlockSize /\ ibuf[k] \in Phys /\ blk' = [blk EXCEPT ![ibuf[k]] = Zero]
        /\ pc \in Loaded /\ mem[j].ind # 0
    BY <1>0, <1>4 DEF ZeroChild, ZeroBlock, WriteBlock, MoreChildren, NrIndirect, Running,
       Loaded, Stands, StandsInTrunc
  <2>. PICK t \in Places : t = NrDirect + k /\ t - NrDirect = k /\ t >= NrDirect
    BY <2>1, ChildPlace
  <2>2. HeldAt(j, t) = ibuf[k]
    BY <2>1, HeldCases DEF Table
  <2>. QED
    BY <2>1, <2>2
<1>5. CASE \/ BeginWrite \/ MapExisting \/ MapDirect \/ MapIndirect \/ ReadIndirect \/ MapChild
           \/ NoChild \/ MapFails \/ StoreCsum \/ StoreLastCsum
           \/ TruncNothing \/ BeginTrunc \/ UnmarkDirect \/ TruncDirectOnly \/ LoadIndirect
           \/ UnmarkChild \/ UnmarkIndirect
  BY <1>5 DEF BeginWrite, MapExisting, MapDirect, MapIndirect, ReadIndirect, MapChild,
     NoChild, MapFails, StoreCsum, StoreLastCsum, TruncNothing, BeginTrunc, UnmarkDirect,
     TruncDirectOnly, LoadIndirect, UnmarkChild, UnmarkIndirect, disk
<1>. QED
  BY <1>1, <1>2, <1>3, <1>4, <1>5 DEF WriteStep, TruncStep

\* So the others read what they read before, from memory and from the disk.
LEMMA OthersSame ==
  ASSUME TypeOK, Stands, NEW P \in SUBSET Inodes, Owned(P), NEW j \in P, j = Cur.in,
         WriteStep \/ TruncStep, NEW i \in P, i # j
  PROVE  /\ mem'[i] = mem[i] /\ dino'[i] = dino[i]
         /\ \A s \in Places : /\ HeldAt(i, s)' = HeldAt(i, s)
                              /\ HeldAt(i, s) # 0 => blk'[HeldAt(i, s)] = blk[HeldAt(i, s)]
<1>1. \A s \in Places : HeldAt(i, s)' = HeldAt(i, s)
  BY OthersHold
<1>2. mem'[i] = mem[i] /\ dino'[i] = dino[i]
  BY DataStepKeeps
<1>3. ASSUME NEW s \in Places, HeldAt(i, s) # 0
      PROVE  blk'[HeldAt(i, s)] = blk[HeldAt(i, s)]
  <2>1. CASE blk' = blk
    BY <2>1
  <2>2. ASSUME NEW t \in Places, NEW b \in Phys, NEW cells,
               HeldAt(j, t) = b, blk' = [blk EXCEPT ![b] = cells]
        PROVE  blk'[HeldAt(i, s)] = blk[HeldAt(i, s)]
    <3>1. HeldAt(i, s) # b
      BY <1>3, <2>2 DEF Owned
    <3>2. HeldAt(i, s) \in Phys
      BY <1>3 DEF Owned, TypeOK
    <3>. QED
      BY <2>2, <3>1, <3>2 DEF TypeOK
  <2>. QED
    BY <2>1, <2>2, WritesOwn
<1>. QED
  BY <1>1, <1>2, <1>3

\* What an inode has on the disk stays as it is while what it refers to stays.
LEMMA SameOnDisk ==
  ASSUME NEW i, OnDisk(i), dino'[i] = dino[i],
         \A s \in Places : HeldAt(i, s)' = HeldAt(i, s),
         HeldAt(i, -1) # 0 => blk'[HeldAt(i, -1)] = blk[HeldAt(i, -1)]
  PROVE  OnDisk(i)'
<1>1. dino[i].ind # 0 => dino[i].ind = HeldAt(i, -1)
  BY PlacesInt DEF OnDisk, RefAt
<1>2. dino[i].ind # 0 => blk'[dino[i].ind] = blk[dino[i].ind]
  BY <1>1
<1>3. \A l : BlockAt(dino[i], l)' = BlockAt(dino[i], l)
  BY <1>2, Zenon DEF BlockAt
<1>4. \A s \in Places : RefAt(dino[i], s)' = RefAt(dino[i], s)
  BY <1>3, Zenon DEF RefAt
<1>5. \A s \in Places : RefAt(dino[i], s)' \in {0, HeldAt(i, s)'}
  BY <1>4 DEF OnDisk
<1>6. HasItsBlocks(dino[i])'
  BY <1>3 DEF OnDisk, HasItsBlocks, Blocks
<1>. QED
  BY <1>5, <1>6, Zenon DEF OnDisk
-----------------------------------------------------------------------------
(* What a write does to the inode it writes.                               *)

\* What it holds it keeps, at the same place.
LEMMA KeepsRefs ==
  ASSUME TypeOK, Stands, NEW P \in SUBSET Inodes, Owned(P), NEW j \in P, j = Cur.in, WriteStep
  PROVE  \A s \in Places : HeldAt(j, s) # 0 => HeldAt(j, s)' = HeldAt(j, s)
<1>0. todo # <<>>
  BY DataStepKeeps
<1>1. CASE MapDirect \/ MapIndirect \/ MapChild
  <2>1. PICK t \in Places :
          /\ HeldAt(j, t) = 0
          /\ \A i \in P, s \in Places : i # j \/ s # t => HeldAt(i, s)' = HeldAt(i, s)
    BY <1>0, <1>1, WriteMaps
  <2>. QED
    BY <2>1
<1>2. CASE ~(MapDirect \/ MapIndirect \/ MapChild)
  BY <1>0, <1>2, WriteKeepsHeld DEF WriteStep
<1>. QED
  BY <1>1, <1>2

\* The block that is stored is the one mapped.
LEMMA StoresMapped ==
  ASSUME TypeOK, Stands, NEW j \in Inodes, j = Cur.in, todo # <<>>,
         pc \in {"store", "csum"}, Mapped \in Phys
  PROVE  Log \in Places /\ Log # -1 /\ Log < NrLogical /\ HeldAt(j, Log) = Mapped
<1>. PICK log \in Nat : log = Log
  BY LogNat
<1>1. log < NrLogical
  BY DEF Stands, StandsInWrite
<1>2. log \in Places /\ log # -1
  BY <1>1, LogicalPlace
<1>3. HeldAt(j, log) = Mapped
  BY <1>2, Zenon DEF HeldAt, Table, Mapped, BlockAt, Inode, Loaded
<1>. QED
  BY <1>1, <1>2, <1>3

\* The indirect block is written only with what the process holds.
LEMMA StoresTable ==
  ASSUME TypeOK, Stands, NEW j \in Inodes, j = Cur.in, WriteIndirect \/ WriteIndirectFails
  PROVE  /\ HeldAt(j, -1) = mem[j].ind /\ mem[j].ind \in Phys
         /\ blk' = [blk EXCEPT ![mem[j].ind] = ibuf] /\ blk'[mem[j].ind] = ibuf
         /\ \A s \in Places : s >= NrDirect => HeldAt(j, s) = ibuf[s - NrDirect]
<1>1. /\ mem[j].ind # 0 /\ blk' = [blk EXCEPT ![mem[j].ind] = ibuf] /\ pc \in Loaded
  BY DEF WriteIndirect, WriteIndirectFails, WriteBlock, Running, Loaded, Stands,
     StandsInWrite, Inode
<1>2. mem[j].ind \in Phys
  BY <1>1 DEF TypeOK, Dinode
<1>3. blk'[mem[j].ind] = ibuf
  BY <1>1, <1>2 DEF TypeOK
<1>4. \A s \in Places : s >= NrDirect => HeldAt(j, s) = ibuf[s - NrDirect]
  BY <1>1, HeldCases DEF Table
<1>. QED
  BY <1>1, <1>2, <1>3, <1>4, PlacesInt, HeldCases

\* What the disk has of an inode that is written, the process has too.
LEMMA WriteOnDisk ==
  ASSUME TypeOK, Stands, NEW P \in SUBSET Inodes, Owned(P), NEW j \in P, j = Cur.in,
         OnDisk(j), WriteStep
  PROVE  OnDisk(j)'
<1>0. todo # <<>> /\ dino' = dino /\ j \in Inodes
  BY DataStepKeeps
<1>r. dino[j].ind \in {0, HeldAt(j, -1)}
  BY PlacesInt DEF OnDisk, RefAt
<1>1. CASE \/ BeginWrite \/ MapExisting \/ ReadIndirect \/ NoChild \/ MapFails \/ StoreCsum
           \/ StoreLastCsum
  <2>1. blk' = blk
    BY <1>1 DEF BeginWrite, MapExisting, ReadIndirect, NoChild, MapFails, StoreCsum,
       StoreLastCsum, disk
  <2>2. \A s \in Places : HeldAt(j, s)' = HeldAt(j, s)
    BY <1>0, <1>1, WriteKeepsHeld
  <2>. QED
    BY <1>0, <2>1, <2>2, SameOnDisk
<1>2. CASE StoreData
  <2>1. Mapped \in Phys /\ pc = "store" /\ \E cells : blk' = [blk EXCEPT ![Mapped] = cells]
    BY <1>2 DEF StoreData, WriteBlock, Running
  <2>2. Log \in Places /\ Log # -1 /\ HeldAt(j, Log) = Mapped /\ Mapped # 0
    BY <1>0, <2>1, StoresMapped, Sizes
  <2>. PICK t \in Places : t = Log
    BY <2>2
  <2>3. mem[j].ind # Mapped
    BY <2>2, DataNotIndirect
  <2>4. HeldAt(j, -1) = mem[j].ind
    BY PlacesInt, HeldCases
  <2>5. HeldAt(j, -1) # 0 => blk'[HeldAt(j, -1)] = blk[HeldAt(j, -1)]
    <3>1. mem[j].ind # 0 => mem[j].ind \in Phys
      BY <1>0 DEF TypeOK, Dinode
    <3>. QED
      BY <2>1, <2>3, <2>4, <3>1 DEF TypeOK
  <2>6. \A s \in Places : HeldAt(j, s)' = HeldAt(j, s)
    BY <1>0, <1>2, WriteKeepsHeld
  <2>. QED
    BY <1>0, <2>5, <2>6, SameOnDisk
<1>3. CASE WriteIndirect \/ WriteIndirectFails
  <2>1. \A s \in Places : HeldAt(j, s)' = HeldAt(j, s)
    BY <1>0, <1>3, WriteKeepsHeld
  <2>2. /\ HeldAt(j, -1) = mem[j].ind /\ blk'[mem[j].ind] = ibuf
        /\ \A s \in Places : s >= NrDirect => HeldAt(j, s) = ibuf[s - NrDirect]
    BY <1>0, <1>3, StoresTable
  <2>3. ASSUME NEW s \in Places, s # -1
        PROVE  /\ BlockAt(dino[j], s)' \in {0, HeldAt(j, s)}
               /\ BlockAt(dino[j], s) # 0 => BlockAt(dino[j], s)' # 0
    <3>1. BlockAt(dino[j], s) \in {0, HeldAt(j, s)}
      BY <2>3 DEF OnDisk, RefAt
    <3>2. CASE s < NrDirect \/ dino[j].ind = 0
      <4>1. BlockAt(dino[j], s)' = BlockAt(dino[j], s)
        BY <1>0, <3>2, Zenon DEF BlockAt
      <4>. QED
        BY <3>1, <4>1
    <3>3. CASE s >= NrDirect /\ dino[j].ind # 0
      <4>1. ~(s < NrDirect)
        BY <3>3, PlacesInt, Sizes
      <4>2. BlockAt(dino[j], s)' = ibuf[s - NrDirect]
        BY <1>0, <1>r, <2>2, <3>3, <4>1, Zenon DEF BlockAt
      <4>. QED
        BY <2>2, <3>1, <3>3, <4>2
    <3>. QED
      BY <2>3, <3>2, <3>3, PlaceCases
  <2>4. \A s \in Places : RefAt(dino[j], s)' \in {0, HeldAt(j, s)'}
    BY <1>0, <1>r, <2>1, <2>3 DEF RefAt
  <2>5. HasItsBlocks(dino[j])'
    <3>1. \A l \in 0 .. (Blocks(dino[j].size) - 1) :
            l < NrLogical /\ BlockAt(dino[j], l) # 0 /\ l \in Places /\ l # -1
      BY LogicalPlace DEF OnDisk, HasItsBlocks
    <3>2. \A l \in 0 .. (Blocks(dino[j].size) - 1) : l < NrLogical /\ BlockAt(dino[j], l)' # 0
      BY <2>3, <3>1
    <3>. QED
      BY <1>0, <3>2 DEF HasItsBlocks, Blocks
  <2>. QED
    BY <2>4, <2>5, Zenon DEF OnDisk
<1>4. CASE MapDirect \/ MapIndirect \/ MapChild
  <2>1. \A s \in Places : HeldAt(j, s) # 0 => HeldAt(j, s)' = HeldAt(j, s)
    BY KeepsRefs
  <2>2. blk' = blk
    BY <1>4 DEF MapDirect, MapIndirect, MapChild
  <2>3. /\ \A l : BlockAt(dino[j], l)' = BlockAt(dino[j], l)
        /\ \A s \in Places : RefAt(dino[j], s)' = RefAt(dino[j], s)
    BY <1>0, <2>2 DEF RefAt, BlockAt
  <2>4. \A s \in Places : RefAt(dino[j], s)' \in {0, HeldAt(j, s)'}
    BY <2>1, <2>3 DEF OnDisk
  <2>5. HasItsBlocks(dino[j])'
    BY <1>0, <2>3 DEF OnDisk, HasItsBlocks, Blocks
  <2>. QED
    BY <2>4, <2>5, Zenon DEF OnDisk
<1>. QED
  BY <1>1, <1>2, <1>3, <1>4 DEF WriteStep

\* So it is for every inode that is not being cut back.
LEMMA OnDiskData ==
  ASSUME TypeOK, Stands, NEW P \in SUBSET Inodes, Owned(P), NEW j \in P, j = Cur.in,
         NEW i \in P, OnDisk(i), WriteStep \/ TruncStep, i # j \/ WriteStep \/ TruncNothing
  PROVE  OnDisk(i)'
<1>1. CASE i # j
  BY <1>1, OthersSame, SameOnDisk, PlacesInt
<1>2. CASE i = j /\ WriteStep
  BY <1>2, WriteOnDisk
<1>3. CASE i = j /\ TruncNothing
  <2>1. blk' = blk /\ dino' = dino /\ todo # <<>>
    BY <1>3 DEF TruncNothing, Running, disk
  <2>2. \A s \in Places : HeldAt(i, s)' = HeldAt(i, s)
    BY <1>3, <2>1, TruncKeepsHeld
  <2>. QED
    BY <2>1, <2>2, SameOnDisk
<1>. QED
  BY <1>1, <1>2, <1>3
-----------------------------------------------------------------------------
(* The cells of a directory that the process knows.                        *)

\* The cells of a directory that the process knows are those of its size, and the one
\* just written.
LEMMA KnownBasics ==
  ASSUME TypeOK, Stands, NEW d \in Inodes
  PROVE  /\ Known(d) \subseteq Nat /\ mem[d].size \in Nat
         /\ \A k \in 2 .. (mem[d].size - 1) : k \in Known(d)
         /\ \A k \in Known(d) : \/ k < mem[d].size
                                \/ pc = "csum" /\ d = Cur.in /\ k < Cur.off + Cur.n
         /\ pc # "csum" \/ d # Cur.in => Known(d) = 2 .. (mem[d].size - 1)
<1>1. mem[d].size \in Nat
  BY DEF TypeOK, Dinode
<1>2. CASE pc = "csum" /\ d = Cur.in
  <2>1. todo # <<>>
    BY <1>2 DEF Stands, StandsInWrite, WriteSteps
  <2>2. Cur.off \in Nat /\ Cur.n \in Nat
    BY <2>1, Current
  <2>. PICK e \in Nat : e = Cur.off + Cur.n
    BY <2>2
  <2>3. Known(d) = 2 .. (MaxOf(mem[d].size, e) - 1)
    BY <1>2 DEF Known
  <2>. QED
    BY <1>1, <1>2, <2>3 DEF MaxOf
<1>3. CASE ~(pc = "csum" /\ d = Cur.in)
  <2>1. Known(d) = 2 .. (mem[d].size - 1)
    BY <1>3, Zenon DEF Known
  <2>. QED
    BY <1>1, <1>3, <2>1
<1>. QED
  BY <1>2, <1>3

\* A cell of a directory on the disk is one that the process knows.
LEMMA DirCell ==
  ASSUME TypeOK, Stands, DirsKept, NEW d \in Dirs, NEW k \in 2 .. (dino[d].size - 1)
  PROVE  k \in Known(d) /\ k \in Nat /\ k < dino[d].size /\ CellAt(dino[d], k) = MemCell(d, k)
<1>1. d \in Inodes /\ OnDisk(d) /\ dino[d].size <= mem[d].size
  BY ReachBasics DEF DirsKept
<1>2. dino[d].size \in Nat /\ mem[d].size \in Nat
  BY <1>1 DEF TypeOK, Dinode
<1>3. k \in Nat /\ k < dino[d].size /\ k \in 2 .. (mem[d].size - 1)
  BY <1>1, <1>2
<1>. QED
  BY <1>1, <1>3, KnownBasics, DiskCell

\* What checkfs finds on the disk, the process has a name for.
LEMMA ReachableNamed ==
  ASSUME TypeOK, Stands, DirsKept, NEW x \in Reachable, x # 0
  PROVE  Named(x)
<1>. PICK d \in Dirs : \E k \in LiveSlots(dino[d]) : CellAt(dino[d], k) = x + 1
  BY ReachNamed
<1>1. PICK k \in LiveSlots(dino[d]) : CellAt(dino[d], k) = x + 1
  OBVIOUS
<1>2. k \in 2 .. (dino[d].size - 1)
  BY DEF LiveSlots
<1>. QED
  BY <1>1, <1>2, DirCell DEF Named

\* What the process has a name for, checkfs finds, or will find when it is written.
LEMMA NamedReachable ==
  ASSUME TypeOK, Stands, DirsKept, NamesSound, NEW x \in Inodes, Named(x)
  PROVE  /\ x \in imap /\ x # 0
         /\ x \in Reachable \/ \E d \in Dirs : NewName(d, x)
<1>. PICK d \in Dirs : \E k \in Known(d) : MemCell(d, k) = x + 1
  BY DEF Named
<1>1. PICK k \in Known(d) : MemCell(d, k) = x + 1
  OBVIOUS
<1>2. x \in Nat /\ MemCell(d, k) > 0 /\ MemCell(d, k) - 1 = x
  BY <1>1, Sizes
<1>3. x \in imap /\ x # 0 /\ (k < dino[d].size \/ NewName(d, x))
  BY <1>1, <1>2 DEF NamesSound
<1>4. ASSUME k < dino[d].size PROVE x \in Reachable
  <2>1. d \in Inodes
    BY ReachBasics
  <2>2. k \in 2 .. (dino[d].size - 1)
    <3>1. k \in Known(d) /\ Known(d) \subseteq Int /\ \A c \in Known(d) : 2 <= c
      BY <2>1, KnownBasics DEF Known
    <3>2. dino[d].size \in Nat
      BY <2>1 DEF TypeOK, Dinode
    <3>. QED
      BY <1>4, <3>1, <3>2
  <2>3. CellAt(dino[d], k) = MemCell(d, k)
    BY <2>2, DirCell
  <2>4. k \in LiveSlots(dino[d])
    BY <1>2, <2>2, <2>3 DEF LiveSlots
  <2>. QED
    BY <1>2, <2>3, <2>4, ReachKid
<1>. QED
  BY <1>3, <1>4

\* So what checkfs finds is marked.
LEMMA ReachableMarked ==
  ASSUME TypeOK, Stands, RootStays, DirsKept, NamesSound
  PROVE  Reachable \subseteq imap
BY ReachableNamed, NamedReachable, ReachBasics DEF RootStays

\* The block of a known cell is there.
LEMMA KnownHeld ==
  ASSUME TypeOK, Stands, NEW P \in SUBSET Inodes, Filled(P), NEW d \in P, NEW k \in Known(d),
         pc \in TruncSteps => d # Cur.in,
         pc = "csum" /\ d = Cur.in => Mapped \in Phys /\ Cur.n = 1
  PROVE  /\ k \in Nat /\ k \div BlockSize \in Places /\ k \div BlockSize # -1
         /\ HeldAt(d, k \div BlockSize) # 0
<1>0. k \in Nat /\ d \in Inodes /\ mem[d].size \in Nat
  BY KnownBasics
<1>1. CASE k < mem[d].size
  <2>. PICK l \in Nat : l = k \div BlockSize /\ l < Blocks(mem[d].size)
    BY <1>0, <1>1, CellBlock
  <2>1. mem[d].size <= Extent(d) /\ Extent(d) \in Nat
    <3>1. CASE pc \in WriteSteps /\ d = Cur.in
      <4>1. Extent(d) = MaxOf(mem[d].size, Cur.off + at) /\ Extent(d) \in Nat
        BY <1>0, <3>1, ExtentNat, Zenon DEF Extent
      <4>2. Cur.off \in Nat /\ at \in Nat
        BY <3>1, Current DEF Stands, StandsInWrite, TypeOK
      <4>. QED
        BY <1>0, <4>1, <4>2 DEF MaxOf
    <3>2. CASE ~(pc \in WriteSteps /\ d = Cur.in)
      <4>1. Extent(d) = mem[d].size
        BY <3>2, Zenon DEF Extent
      <4>. QED
        BY <1>0, <4>1
    <3>. QED
      BY <3>1, <3>2
  <2>2. Blocks(mem[d].size) <= Blocks(Extent(d)) /\ Blocks(Extent(d)) \in Nat
        /\ Blocks(mem[d].size) \in Nat
    BY <1>0, <2>1, BlocksGrow, BlocksNat
  <2>3. l \in 0 .. (Blocks(Extent(d)) - 1)
    BY <2>2
  <2>4. ~Cleared(d, l)
    BY DEF Cleared
  <2>5. l < NrLogical /\ HeldAt(d, l) # 0
    BY <2>3, <2>4 DEF Filled
  <2>. QED
    BY <1>0, <2>5, LogicalPlace
<1>2. CASE ~(k < mem[d].size)
  <2>1. pc = "csum" /\ d = Cur.in /\ k < Cur.off + 1 /\ Mapped \in Phys
    BY <1>0, <1>2, KnownBasics
  <2>2. todo # <<>> /\ at < Cur.n /\ Cur.off <= mem[d].size
    BY <2>1 DEF Stands, StandsInWrite, WriteSteps, Inode
  <2>3. Cur.off \in Nat /\ at \in Nat
    BY <2>2, Current DEF TypeOK
  <2>4. k = Cur.off /\ at = 0
    BY <1>0, <1>2, <2>1, <2>2, <2>3
  <2>5. Log = k \div BlockSize
    BY <1>0, <2>3, <2>4 DEF Log
  <2>. QED
    BY <1>0, <2>1, <2>2, <2>5, StoresMapped, Sizes
<1>. QED
  BY <1>1, <1>2

\* A step that neither moves nor writes the block of a cell leaves the cell as it is.
LEMMA SameCell ==
  ASSUME NEW d, NEW k, HeldAt(d, k \div BlockSize)' = HeldAt(d, k \div BlockSize),
         HeldAt(d, k \div BlockSize) # 0
           => blk'[HeldAt(d, k \div BlockSize)] = blk[HeldAt(d, k \div BlockSize)]
  PROVE  MemCell(d, k)' = MemCell(d, k)
<1>1. CASE HeldAt(d, k \div BlockSize) = 0
  BY <1>1, Sizes DEF MemCell
<1>2. CASE HeldAt(d, k \div BlockSize) # 0
  <2>. PICK b : b = HeldAt(d, k \div BlockSize)
    OBVIOUS
  <2>1. HeldAt(d, k \div BlockSize)' = b /\ blk'[b] = blk[b]
    BY <1>2
  <2>2. MemCell(d, k) = IF b \in Phys THEN blk[b][k % BlockSize] ELSE 0
    BY Zenon DEF MemCell
  <2>3. MemCell(d, k)' = IF b \in Phys THEN blk'[b][k % BlockSize] ELSE 0
    BY <2>1, Zenon DEF MemCell
  <2>. QED
    BY <2>1, <2>2, <2>3, Zenon
<1>. QED
  BY <1>1, <1>2
-----------------------------------------------------------------------------
(* The cells of a directory, step by step.                                 *)

\* The names in the directories that the current call does not work on.
LEMMA NamesOther ==
  ASSUME TypeOK, Stands, NEW P \in SUBSET Inodes, Owned(P), Filled(P), NEW j \in P, j = Cur.in,
         WriteStep \/ TruncStep, NEW d \in P, d # j
  PROVE  /\ Known(d)' = Known(d)
         /\ \A k \in Known(d) : MemCell(d, k)' = MemCell(d, k)
<1>1. /\ mem'[d] = mem[d]
      /\ \A s \in Places : /\ HeldAt(d, s)' = HeldAt(d, s)
                           /\ HeldAt(d, s) # 0 => blk'[HeldAt(d, s)] = blk[HeldAt(d, s)]
  BY OthersSame
<1>2. Known(d)' = Known(d)
  <2>1. pc' = "csum" => Cur' = Cur
    BY DEF WriteStep, TruncStep, BeginWrite, MapExisting, MapDirect, MapIndirect,
       ReadIndirect, MapChild, NoChild, WriteIndirect, MapFails, WriteIndirectFails,
       StoreData, StoreCsum, StoreLastCsum, TruncNothing, BeginTrunc, ZeroDirect, UnmarkDirect,
       TruncDirectOnly, LoadIndirect, ZeroChild, UnmarkChild, ZeroIndirect, UnmarkIndirect,
       KeepIndirect, Fail, Return, plan, Cur
  <2>2. ~(pc = "csum" /\ d = Cur.in) /\ ~(pc' = "csum" /\ d = Cur'.in)
    BY <2>1
  <2>3. Known(d) = 2 .. (mem[d].size - 1)
    BY <2>2, Zenon DEF Known
  <2>4. Known(d)' = 2 .. (mem'[d].size - 1)
    BY <2>2, Zenon DEF Known
  <2>. QED
    BY <1>1, <2>3, <2>4
<1>3. ASSUME NEW k \in Known(d) PROVE MemCell(d, k)' = MemCell(d, k)
  <2>1. k \div BlockSize \in Places
    BY <1>3, KnownHeld
  <2>. QED
    BY <1>1, <2>1, SameCell
<1>. QED
  BY <1>2, <1>3

\* A write of one cell, until it stores the cell, keeps the size and what is below it.
LEMMA WriteSizes ==
  ASSUME TypeOK, Stands, NEW j \in Inodes, j = Cur.in, WriteStep
  PROVE  /\ mem'[j].size \in Nat /\ mem[j].size \in Nat /\ mem[j].size <= mem'[j].size
         /\ Cur.n = 1 => /\ at = 0 /\ ~StoreCsum
                         /\ mem'[j].size = IF StoreLastCsum THEN MaxOf(mem[j].size, Cur.off + 1)
                                           ELSE mem[j].size
<1>0. /\ todo # <<>> /\ Inode = mem[j] /\ mem[j] \in Dinode /\ mem[j].size \in Nat
      /\ Cur.off \in Nat /\ Cur.n \in Nat /\ at \in Nat
  BY DataStepKeeps, Current DEF Inode, Dinode, TypeOK
<1>1. Cur.n = 1 /\ pc \in WriteSteps => at = 0
  BY <1>0 DEF Stands, StandsInWrite
<1>2. Cur.n = 1 => at = 0
  BY <1>0, <1>1 DEF Stands, StandsBetween, WriteStep, BeginWrite, MapExisting, MapDirect,
     MapIndirect, ReadIndirect, MapChild, NoChild, WriteIndirect, MapFails, WriteIndirectFails,
     StoreData, StoreCsum, StoreLastCsum, Running, WriteSteps
<1>3. CASE MapFails \/ WriteIndirectFails
  <2>1. mem' = [mem EXCEPT ![j] = [mem[j] EXCEPT !.size = Covered]]
    BY <1>0, <1>3 DEF MapFails, WriteIndirectFails, Fail, SetInode
  <2>2. mem'[j] = [mem[j] EXCEPT !.size = Covered]
    BY <2>1 DEF TypeOK
  <2>3. mem'[j].size = Covered
    BY <1>0, <2>2 DEF Dinode
  <2>4. Cur.off <= mem[j].size
    BY <1>0, <1>3 DEF MapFails, WriteIndirectFails, Running, Stands, StandsInWrite, WriteSteps
  <2>5. Covered = MaxOf(mem[j].size, Cur.off + at)
    BY <1>0 DEF Covered
  <2>6. ~StoreCsum /\ ~StoreLastCsum
    BY <1>3 DEF MapFails, WriteIndirectFails, StoreCsum, StoreLastCsum, Running
  <2>. QED
    BY <1>0, <1>2, <2>3, <2>4, <2>5, <2>6 DEF MaxOf
<1>4. CASE StoreLastCsum
  <2>1. mem' = [mem EXCEPT ![j] = [mem[j] EXCEPT !.size = MaxOf(mem[j].size, Cur.off + Cur.n)]]
    BY <1>0, <1>4 DEF StoreLastCsum, SetInode
  <2>2. mem'[j] = [mem[j] EXCEPT !.size = MaxOf(mem[j].size, Cur.off + Cur.n)]
    BY <2>1 DEF TypeOK
  <2>3. mem'[j].size = MaxOf(mem[j].size, Cur.off + Cur.n)
    BY <1>0, <2>2 DEF Dinode
  <2>4. ~StoreCsum
    BY <1>4 DEF StoreCsum, StoreLastCsum, Return
  <2>. QED
    BY <1>0, <1>2, <1>4, <2>3, <2>4 DEF MaxOf
<1>5. CASE MapDirect \/ MapIndirect
  <2>1. mem'[j].size = mem[j].size
    <3>1. \E d : d.size = mem[j].size /\ mem' = [mem EXCEPT ![j] = d]
      <4>1. CASE MapDirect
        <5>1. PICK b : SetInode([Inode EXCEPT !.direct = [@ EXCEPT ![Log] = b]])
          BY <4>1 DEF MapDirect
        <5>2. [Inode EXCEPT !.direct = [@ EXCEPT ![Log] = b]].size = mem[j].size
          BY <1>0 DEF Dinode
        <5>. QED
          BY <5>1, <5>2 DEF SetInode
      <4>2. CASE MapIndirect
        <5>1. PICK b : SetInode([Inode EXCEPT !.ind = b])
          BY <4>2 DEF MapIndirect
        <5>2. [Inode EXCEPT !.ind = b].size = mem[j].size
          BY <1>0 DEF Dinode
        <5>. QED
          BY <5>1, <5>2 DEF SetInode
      <4>. QED
        BY <1>5, <4>1, <4>2
    <3>. QED
      BY <3>1 DEF TypeOK
  <2>2. ~StoreCsum /\ ~StoreLastCsum
    BY <1>5 DEF MapDirect, MapIndirect, StoreCsum, StoreLastCsum, Running
  <2>. QED
    BY <1>0, <1>2, <2>1, <2>2
<1>6. CASE \/ BeginWrite \/ MapExisting \/ ReadIndirect \/ MapChild
           \/ NoChild \/ WriteIndirect \/ StoreData
  <2>1. mem' = mem
    BY <1>6 DEF BeginWrite, MapExisting, ReadIndirect, MapChild,
       NoChild, WriteIndirect, StoreData, SetNoInode
  <2>2. ~StoreCsum /\ ~StoreLastCsum
    BY <1>6 DEF BeginWrite, MapExisting, ReadIndirect, MapChild,
       NoChild, WriteIndirect, StoreData, StoreCsum, StoreLastCsum, Running
  <2>. QED
    BY <1>0, <1>2, <2>1, <2>2
<1>7. CASE StoreCsum
  <2>1. mem' = mem /\ at + Copied < Cur.n /\ at < Cur.n
    BY <1>7 DEF StoreCsum, SetNoInode, Running, Stands, StandsInWrite, WriteSteps
  <2>2. Copied \in Nat \ {0}
    BY <1>0, <2>1, CopiedFits
  <2>. QED
    BY <1>0, <2>1, <2>2
<1>. QED
  BY <1>3, <1>4, <1>5, <1>6, <1>7 DEF WriteStep

\* A write of one cell to a directory, until it stores the cell.
LEMMA NamesBefore ==
  ASSUME TypeOK, Stands, NEW P \in SUBSET Inodes, Owned(P), Filled(P), NEW j \in P, j = Cur.in,
         WriteStep, ~StoreData, Cur.n = 1
  PROVE  /\ Known(j)' = Known(j)
         /\ \A k \in Known(j) : MemCell(j, k)' = MemCell(j, k)
<1>0. /\ todo # <<>> /\ Inode = mem[j] /\ mem[j] \in Dinode
      /\ Cur.off \in Nat /\ mem[j].size \in Nat /\ Cur.op = "write"
  BY DataStepKeeps, Current DEF Inode, Dinode, WriteStep, BeginWrite, MapExisting, MapDirect,
     MapIndirect, ReadIndirect, MapChild, NoChild, WriteIndirect, MapFails, WriteIndirectFails,
     StoreData, StoreCsum, StoreLastCsum, Running, Cur
<1>1. Known(j)' = Known(j)
  <2>1. pc' # "csum"
    BY DEF WriteStep, BeginWrite, MapExisting, MapDirect, MapIndirect,
       ReadIndirect, MapChild, NoChild, WriteIndirect, MapFails, WriteIndirectFails,
       StoreCsum, StoreLastCsum, Fail, Return
  <2>2. Known(j)' = 2 .. (mem'[j].size - 1)
    BY <2>1, Zenon DEF Known
  <2>3. CASE StoreLastCsum
    <3>1. pc = "csum"
      BY <2>3 DEF StoreLastCsum, Running
    <3>2. Known(j) = 2 .. (MaxOf(mem[j].size, Cur.off + Cur.n) - 1)
      BY <3>1, Zenon DEF Known
    <3>. QED
      BY <2>2, <2>3, <3>2, WriteSizes
  <2>4. CASE ~StoreLastCsum
    <3>1. pc # "csum"
      BY <2>4, WriteSizes DEF WriteStep, BeginWrite, MapExisting, MapDirect, MapIndirect,
         ReadIndirect, MapChild, NoChild, WriteIndirect, MapFails, WriteIndirectFails, Running
    <3>2. Known(j) = 2 .. (mem[j].size - 1)
      BY <3>1, Zenon DEF Known
    <3>. QED
      BY <2>2, <2>4, <3>2, WriteSizes
  <2>. QED
    BY <2>3, <2>4
<1>2. ASSUME NEW k \in Known(j) PROVE MemCell(j, k)' = MemCell(j, k)
  <2>1. pc = "csum" => StoreLastCsum
    BY WriteSizes DEF WriteStep, BeginWrite, MapExisting, MapDirect, MapIndirect,
       ReadIndirect, MapChild, NoChild, WriteIndirect, MapFails, WriteIndirectFails, Running
  <2>2. pc = "csum" => Mapped \in Phys
    BY <2>1, SumsMapped
  <2>3. pc \notin TruncSteps
    BY <1>0 DEF Stands, StandsInTrunc
  <2>4. /\ k \div BlockSize \in Places /\ k \div BlockSize # -1
        /\ HeldAt(j, k \div BlockSize) # 0
    BY <1>2, <2>2, <2>3, KnownHeld
  <2>. PICK t \in Places : t = k \div BlockSize
    BY <2>4
  <2>5. HeldAt(j, t)' = HeldAt(j, t)
    BY <2>4, KeepsRefs
  <2>6. blk'[HeldAt(j, t)] = blk[HeldAt(j, t)]
    <3>1. CASE blk' = blk
      BY <3>1
    <3>2. CASE WriteIndirect \/ WriteIndirectFails
      <4>1. mem[j].ind \in Phys /\ blk' = [blk EXCEPT ![mem[j].ind] = ibuf]
        BY <3>2, StoresTable
      <4>2. mem[j].ind # HeldAt(j, t)
        BY <2>4, DataNotIndirect
      <4>3. HeldAt(j, t) \in Phys
        BY <2>4 DEF Owned, TypeOK
      <4>. QED
        BY <4>1, <4>2, <4>3 DEF TypeOK
    <3>3. CASE ~WriteIndirect /\ ~WriteIndirectFails
      <4>1. blk' = blk
        BY <3>3 DEF WriteStep, BeginWrite, MapExisting, MapDirect, MapIndirect,
           ReadIndirect, MapChild, NoChild, MapFails, StoreCsum, StoreLastCsum, disk
      <4>. QED
        BY <4>1
    <3>. QED
      BY <3>2, <3>3
  <2>. QED
    BY <2>4, <2>5, <2>6, SameCell
<1>. QED
  BY <1>1, <1>2

\* When it stores the cell, the others stay what they were or, in a new block, are zero.
LEMMA NamesStored ==
  ASSUME TypeOK, Stands, NEW P \in SUBSET Inodes, Owned(P), Filled(P), NEW j \in P, j = Cur.in,
         StoreData, Cur.n = 1, NEW k \in Known(j)'
  PROVE  \/ k = Cur.off /\ MemCell(j, k)' = Cur.val
         \/ /\ k # Cur.off /\ k \in Known(j) /\ MemCell(j, k)' \in {MemCell(j, k), 0}
            /\ ~fresh \/ blk[Mapped] = Zero => MemCell(j, k)' = MemCell(j, k)
<1>0. /\ todo # <<>> /\ WriteStep /\ pc = "store" /\ pc' = "csum" /\ Cur' = Cur
      /\ mem[j].size \in Nat /\ mem' = mem /\ Cur.off \in Nat /\ Cur.off <= mem[j].size
      /\ Mapped \in Phys
  <2>1. Running("store", "write") /\ todo' = todo /\ pc' = "csum" /\ mem' = mem
        /\ Mapped \in Phys
    BY DEF StoreData, plan, SetNoInode
  <2>2. pc = "store" /\ todo # <<>> /\ Cur' = Cur
    BY <2>1 DEF Running, Cur
  <2>3. Cur.off <= mem[j].size
    BY <2>2 DEF Stands, StandsInWrite, WriteSteps, Inode
  <2>4. mem[j].size \in Nat
    BY DEF TypeOK, Dinode
  <2>. QED
    BY <2>1, <2>2, <2>3, <2>4, Current DEF WriteStep
<1>1. at = 0
  BY <1>0, WriteSizes
<1>2. Known(j)' = 2 .. (MaxOf(mem[j].size, Cur.off + 1) - 1)
  BY <1>0, Zenon DEF Known
<1>3. Known(j) = 2 .. (mem[j].size - 1)
  BY <1>0, Zenon DEF Known
<1>4. k \in Nat /\ (k # Cur.off => k \in Known(j))
  BY <1>0, <1>2, <1>3 DEF MaxOf
<1>5. /\ Log \in Places /\ Log # -1 /\ HeldAt(j, Log) = Mapped /\ Log = Cur.off \div BlockSize
      /\ Mapped # 0
  BY <1>0, <1>1, StoresMapped, Sizes DEF Log
<1>. PICK first \in Nat : first = Cur.off % BlockSize /\ first < BlockSize
  BY <1>0, Division
<1>6. Copied = 1
  BY <1>0, <1>1, Sizes DEF Copied
<1>7. /\ blk' = [blk EXCEPT ![Mapped] = blk'[Mapped]]
      /\ blk'[Mapped][first] = Cur.val
      /\ \A c \in Cells : c # first => blk'[Mapped][c] \in {0, blk[Mapped][c]}
      /\ ~fresh \/ blk[Mapped] = Zero =>
           \A c \in Cells : c # first => blk'[Mapped][c] = blk[Mapped][c]
  <2>. DEFINE old == IF fresh THEN Zero ELSE blk[Mapped]
             new == [c \in Cells |-> IF first <= c /\ c < first + 1 THEN Cur.val ELSE old[c]]
  <2>1. blk' = [blk EXCEPT ![Mapped] = new]
    <3>1. (Cur.off + at) % BlockSize = first
      BY <1>0, <1>1
    <3>. QED
      BY <1>6, <3>1 DEF StoreData, WriteBlock
  <2>2. blk'[Mapped] = new
    BY <1>0, <2>1 DEF TypeOK
  <2>3. first \in Cells /\ Cells \subseteq Int
    BY Sizes DEF Cells
  <2>4. new[first] = Cur.val
    BY <2>3
  <2>5. \A c \in Cells : c # first => new[c] = old[c]
    BY <2>3
  <2>6. \A c \in Cells : old[c] \in {0, blk[Mapped][c]}
    BY DEF Zero
  <2>7. ~fresh \/ blk[Mapped] = Zero => old = blk[Mapped]
    OBVIOUS
  <2>. QED
    BY <2>1, <2>2, <2>4, <2>5, <2>6, <2>7
<1>8. \A s \in Places : HeldAt(j, s)' = HeldAt(j, s)
  BY <1>0, WriteKeepsHeld
<1>9. CASE k = Cur.off
  <2>1. HeldAt(j, k \div BlockSize)' = Mapped
    BY <1>5, <1>8, <1>9
  <2>2. MemCell(j, k)' = blk'[Mapped][first]
    BY <1>0, <1>9, <2>1, Zenon DEF MemCell
  <2>. QED
    BY <1>7, <1>9, <2>2
<1>10. CASE k # Cur.off
  <2>1. k \in Known(j)
    BY <1>4, <1>10
  <2>2. k \div BlockSize \in Places /\ HeldAt(j, k \div BlockSize) # 0
    <3>1. pc \notin TruncSteps /\ pc # "csum"
      BY <1>0 DEF TruncSteps
    <3>. QED
      BY <2>1, <3>1, KnownHeld
  <2>. PICK t \in Places : t = k \div BlockSize
    BY <2>2
  <2>3. CASE HeldAt(j, t) # Mapped
    <3>1. HeldAt(j, t) \in Phys
      BY <2>2 DEF Owned, TypeOK
    <3>2. blk'[HeldAt(j, t)] = blk[HeldAt(j, t)]
      BY <1>0, <1>7, <2>3, <3>1 DEF TypeOK
    <3>3. MemCell(j, k)' = MemCell(j, k)
      BY <1>8, <3>2, SameCell
    <3>. QED
      BY <1>10, <2>1, <3>3
  <2>4. CASE HeldAt(j, t) = Mapped
    <3>1. t = Log
      BY <1>5, <2>4 DEF Owned
    <3>2. k % BlockSize \in Cells
      BY <1>4, Sizes DEF Cells
    <3>3. k % BlockSize # first
      <4>1. PICK q, r \in Nat : q = k \div BlockSize /\ r = k % BlockSize /\ k = BlockSize * q + r
        BY <1>4, Division
      <4>2. PICK u, v \in Nat : /\ u = Cur.off \div BlockSize /\ v = Cur.off % BlockSize
                                /\ Cur.off = BlockSize * u + v
        BY <1>0, Division
      <4>. QED
        BY <1>5, <1>10, <3>1, <4>1, <4>2
    <3>4. HeldAt(j, k \div BlockSize)' = Mapped /\ HeldAt(j, k \div BlockSize) = Mapped
      BY <1>8, <2>4
    <3>5. MemCell(j, k)' = blk'[Mapped][k % BlockSize]
      BY <1>0, <3>4, Zenon DEF MemCell
    <3>6. MemCell(j, k) = blk[Mapped][k % BlockSize]
      BY <1>0, <3>4, Zenon DEF MemCell
    <3>. QED
      BY <1>7, <1>10, <2>1, <3>2, <3>3, <3>5, <3>6
  <2>. QED
    BY <2>3, <2>4
<1>. QED
  BY <1>9, <1>10

\* A cell in memory holds a number.
LEMMA MemCellInt ==
  ASSUME TypeOK, NEW d, NEW k \in Nat
  PROVE  MemCell(d, k) \in Int
<1>1. k % BlockSize \in Cells
  BY Sizes DEF Cells
<1>2. \A b \in Phys : blk[b][k % BlockSize] \in Int
  BY <1>1 DEF TypeOK
<1>3. \/ MemCell(d, k) = 0
      \/ \E b \in Phys : MemCell(d, k) = blk[b][k % BlockSize]
  BY Zenon DEF MemCell
<1>. QED
  BY <1>2, <1>3
=============================================================================
