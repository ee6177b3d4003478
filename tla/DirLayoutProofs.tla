-------------------------- MODULE DirLayoutProofs ---------------------------
(***************************************************************************)
(* What is proved of DirLayout for every set of names, every length of     *)
(* them and every block size.  The types hold in every state.  The entries *)
(* on the disk are a chain of whole entries that ends where the directory  *)
(* ends, and they implement the map of names of Directory, until a name is *)
(* written that no block has room for or an entry behind padding is        *)
(* removed: nothing in the code prevents either, and neither of the two    *)
(* need hold of a directory that has been spoiled in this way.             *)
(***************************************************************************)
EXTENDS DirLayout, FiniteSetTheorems, SequenceTheorems, TLAPS

USE DEF Header, Self, Removed

-----------------------------------------------------------------------------
(* Numbers and induction.                                                  *)

\* A set of numbers has a least one.
LEMMA LeastNat ==
  ASSUME NEW T \in SUBSET Nat, T # {}
  PROVE  \E n \in T : \A m \in T : n <= m
<1>. DEFINE R == StrictSubsetOrdering(Nat)
            F == {0 .. n : n \in T}
<1>1. F \subseteq FiniteSubsetsOf(Nat)
  <2>. SUFFICES ASSUME NEW n \in T PROVE 0 .. n \in FiniteSubsetsOf(Nat)
    OBVIOUS
  <2>1. IsFiniteSet(0 .. n) /\ 0 .. n \subseteq Nat
    BY FS_Interval
  <2>. QED
    BY <2>1 DEF FiniteSubsetsOf
<1>2. F # {}
  OBVIOUS
<1>3. IsWellFoundedOn(R, FiniteSubsetsOf(Nat))
  BY FS_StrictSubsetOrderingWellFounded
<1>4. \E x \in F : \A y \in F : ~(<<y, x>> \in R)
  <2>. HIDE DEF R, F
  <2>. QED
    BY <1>1, <1>2, <1>3, WFMin
<1>5. PICK n \in T : \A m \in T : ~(<<0 .. m, 0 .. n>> \in R)
  BY <1>4
<1>6. ASSUME NEW m \in T, ~(n <= m) PROVE FALSE
  <2>1. 0 .. m \subseteq 0 .. n /\ n \in 0 .. n /\ n \notin 0 .. m
    BY <1>6
  <2>2. 0 .. m \in SUBSET Nat /\ 0 .. n \in SUBSET Nat
    OBVIOUS
  <2>. QED
    BY <1>5, <2>1, <2>2 DEF StrictSubsetOrdering
<1>. QED
  BY <1>6

\* A number is in S when all above it are.
Inherited(m, S) == \A o \in 0 .. m : (\A p \in 0 .. m : p > o => p \in S) => o \in S

\* What is passed on downwards from every number above a bound reaches all below it.
LEMMA Downwards ==
  ASSUME NEW m \in Nat, NEW S, Inherited(m, S)
  PROVE  0 .. m \subseteq S
<1>. USE DEF Inherited
<1>. SUFFICES ASSUME NEW bad \in 0 .. m, bad \notin S PROVE FALSE
  OBVIOUS
<1>. DEFINE T == {k \in 0 .. m : m - k \notin S}
<1>1. T \in SUBSET Nat /\ m - bad \in T
  OBVIOUS
<1>2. PICK k \in T : \A j \in T : k <= j
  BY <1>1, LeastNat
<1>3. k \in 0 .. m /\ m - k \in 0 .. m /\ m - k \notin S
  OBVIOUS
<1>4. ASSUME NEW p \in 0 .. m, p > m - k PROVE p \in S
  <2>1. m - p \in 0 .. m /\ m - p < k /\ m - (m - p) = p
    BY <1>3, <1>4
  <2>. QED
    BY <1>2, <2>1
<1>. QED
  BY <1>3, <1>4

Base(o) == BlockOf(o) * BlockSize

\* Where a block begins and ends.
LEMMA Sizes == /\ BlockSize \in Nat \ {0} /\ BlockSize > Header + 1 /\ Limit \in Nat
               /\ Limit >= 2 * BlockSize /\ 2 * BlockSize = BlockSize + BlockSize
BY DirLayoutAssumption

\* A number is a whole number of blocks and a rest.
LEMMA Division ==
  ASSUME NEW o \in Nat
  PROVE  \E q, r \in Nat : /\ o = q * BlockSize + r /\ r < BlockSize
                           /\ q = o \div BlockSize /\ q * BlockSize \in Nat
<1>. PICK q \in Nat, r \in Nat : q = o \div BlockSize /\ r = o % BlockSize
  BY Sizes
<1>1. o = BlockSize * q + r /\ r < BlockSize
  BY Sizes
<1>2. BlockSize * q = q * BlockSize /\ q * BlockSize \in Nat
  BY Sizes
<1>. QED
  BY <1>1, <1>2

\* A number between two multiples of the block size.
LEMMA Between ==
  ASSUME NEW o \in Nat, NEW q \in Nat, q * BlockSize <= o, o < q * BlockSize + BlockSize
  PROVE  BlockOf(o) = q
<1>. PICK p \in Nat, r \in Nat : o = p * BlockSize + r /\ r < BlockSize /\ p = o \div BlockSize
  BY Division
<1>1. CASE p < q
  <2>1. q = p + 1 + (q - p - 1) /\ q - p - 1 \in Nat
    BY <1>1
  <2>. PICK d \in Nat : d = q - p - 1
    BY <2>1
  <2>2. q * BlockSize = p * BlockSize + BlockSize + d * BlockSize
    BY <2>1, Sizes
  <2>3. d * BlockSize \in Nat /\ p * BlockSize \in Nat /\ q * BlockSize \in Nat
    BY Sizes
  <2>. QED
    BY <2>2, <2>3, Sizes
<1>2. CASE p > q
  <2>1. p = q + 1 + (p - q - 1) /\ p - q - 1 \in Nat
    BY <1>2
  <2>. PICK d \in Nat : d = p - q - 1
    BY <2>1
  <2>2. p * BlockSize = q * BlockSize + BlockSize + d * BlockSize
    BY <2>1, Sizes
  <2>3. d * BlockSize \in Nat /\ p * BlockSize \in Nat /\ q * BlockSize \in Nat
    BY Sizes
  <2>. QED
    BY <2>2, <2>3, Sizes
<1>. QED
  BY <1>1, <1>2 DEF BlockOf

\* What the proofs need of blocks: each number lies in one, and the order of numbers is
\* that of their blocks.
LEMMA BaseFacts ==
  ASSUME NEW o \in Nat
  PROVE  /\ BlockOf(o) \in Nat /\ Base(o) \in Nat /\ Base(o) <= o /\ o < Base(o) + BlockSize
         /\ (BlockOf(o) + 1) * BlockSize = Base(o) + BlockSize
         /\ \A x \in Nat : Base(o) <= x /\ x < Base(o) + BlockSize
                             => BlockOf(x) = BlockOf(o) /\ Base(x) = Base(o)
         /\ \A x \in Nat : Base(o) + BlockSize <= x /\ x < Base(o) + BlockSize + BlockSize
                             => BlockOf(x) = BlockOf(o) + 1 /\ Base(x) = Base(o) + BlockSize
<1>. PICK q \in Nat, r \in Nat :
       o = q * BlockSize + r /\ r < BlockSize /\ q = o \div BlockSize /\ q * BlockSize \in Nat
  BY Division
<1>1. BlockOf(o) = q /\ Base(o) = q * BlockSize
  BY DEF BlockOf, Base
<1>2. (q + 1) * BlockSize = q * BlockSize + BlockSize /\ q + 1 \in Nat
  BY Sizes
<1>3. ASSUME NEW x \in Nat, q * BlockSize <= x, x < q * BlockSize + BlockSize
      PROVE  BlockOf(x) = q
  BY <1>3, Between
<1>4. ASSUME NEW x \in Nat, q * BlockSize + BlockSize <= x,
             x < q * BlockSize + BlockSize + BlockSize
      PROVE  BlockOf(x) = q + 1
  <2>1. (q + 1) * BlockSize <= x /\ x < (q + 1) * BlockSize + BlockSize
    BY <1>2, <1>4
  <2>. QED
    BY <1>2, <2>1, Between
<1>5. /\ BlockOf(o) \in Nat /\ Base(o) \in Nat /\ Base(o) <= o /\ o < Base(o) + BlockSize
      /\ (BlockOf(o) + 1) * BlockSize = Base(o) + BlockSize
  BY <1>1, <1>2, Sizes
<1>. QED
  BY <1>1, <1>2, <1>3, <1>4, <1>5 DEF Base

\* A step of less than a block ends in the same block or in the next.
LEMMA StepAhead ==
  ASSUME NEW o \in Nat, NEW k \in Nat, k < BlockSize
  PROVE  /\ BlockOf(o + k) > BlockOf(o) <=> o + k >= Base(o) + BlockSize
         /\ o + k >= Base(o) + BlockSize => BlockOf(o + k) * BlockSize = Base(o) + BlockSize
<1>. PICK b \in Nat : b = Base(o) /\ b <= o /\ o < b + BlockSize
  BY BaseFacts
<1>. PICK x \in Nat : x = o + k
  OBVIOUS
<1>1. /\ x < b + BlockSize => BlockOf(x) = BlockOf(o)
      /\ x >= b + BlockSize => BlockOf(x) = BlockOf(o) + 1 /\ Base(x) = b + BlockSize
  <2>1. b <= x /\ x < b + BlockSize + BlockSize
    BY Sizes
  <2>2. x < b + BlockSize => BlockOf(x) = BlockOf(o)
    BY <2>1, BaseFacts
  <2>3. b + BlockSize <= x => BlockOf(x) = BlockOf(o) + 1 /\ Base(x) = b + BlockSize
    BY <2>1, BaseFacts
  <2>. QED
    BY <2>1, <2>2, <2>3, Sizes
<1>2. BlockOf(o) \in Nat /\ (x < b + BlockSize \/ x >= b + BlockSize)
  BY BaseFacts, Sizes
<1>. QED
  BY <1>1, <1>2 DEF Base

-----------------------------------------------------------------------------
(* The loop over the entries.                                              *)

\* The search goes on from offset o.
Goes(c, n, o) == ~(o >= n) /\ Dirent(c, o).len >= 0 /\ Dirent(c, o).next <= n

\* An entry is behind the place where its search began, in the same block or at the start
\* of one that follows.
LEMMA DirentAhead ==
  ASSUME NEW c, NEW o \in Nat
  PROVE  /\ Dirent(c, o).from = o /\ Dirent(c, o).at \in Nat /\ Dirent(c, o).at >= o
         /\ Dirent(c, o).next = Dirent(c, o).at + Header + Dirent(c, o).len
         /\ Dirent(c, o).len = Cell(c, Dirent(c, o).at)
         /\ Dirent(c, o).nr = Cell(c, Dirent(c, o).at + 1)
<1>. DEFINE h == IF BlockOf(o + Header) > BlockOf(o) THEN BlockOf(o + Header) * BlockSize ELSE o
            at == IF Cell(c, h) = 0 THEN (BlockOf(h) + 1) * BlockSize ELSE h
<1>1. h \in Nat /\ h >= o
  <2>1. CASE BlockOf(o + Header) > BlockOf(o)
    <3>1. BlockOf(o + Header) * BlockSize = Base(o) + BlockSize
      BY <2>1, StepAhead, Sizes
    <3>2. Base(o) \in Nat /\ o < Base(o) + BlockSize
      BY BaseFacts
    <3>. QED
      BY <2>1, <3>1, <3>2, Sizes
  <2>2. CASE ~(BlockOf(o + Header) > BlockOf(o))
    BY <2>2
  <2>. QED
    BY <2>1, <2>2
<1>2. at \in Nat /\ at >= o
  <2>. PICK x \in Nat : x = h /\ x >= o
    BY <1>1
  <2>1. (BlockOf(x) + 1) * BlockSize = Base(x) + BlockSize /\ Base(x) \in Nat
        /\ x < Base(x) + BlockSize
    BY BaseFacts
  <2>. HIDE DEF h
  <2>. QED
    BY <2>1, Sizes
<1>. QED
  BY <1>2 DEF Dirent

\* The loop over the entries goes forward.
LEMMA GoesOn ==
  ASSUME NEW c, \A x \in Nat : Cell(c, x) \in Int, NEW n \in 0 .. Limit, NEW o \in 0 .. Limit,
         Goes(c, n, o)
  PROVE  Dirent(c, o).next \in 0 .. Limit /\ Dirent(c, o).next > o /\ o < n
BY DirentAhead, Sizes DEF Goes

\* The loop is well defined.
LEMMA LoopExists ==
  ASSUME NEW c, \A x \in Nat : Cell(c, x) \in Int, NEW n \in 0 .. Limit
  PROVE  \E f : f = [o \in 0 .. Limit |->
                       IF Goes(c, n, o) THEN <<Dirent(c, o)>> \o f[Dirent(c, o).next] ELSE <<>>]
<1>. DEFINE Def(f, o) == IF Goes(c, n, o) THEN <<Dirent(c, o)>> \o f[Dirent(c, o).next] ELSE <<>>
            Solves(f, m) == \A o \in m .. Limit : f[o] = Def(f, o)
            S == {m \in 0 .. Limit : \E f : Solves(f, m)}
<1>1. ASSUME NEW m \in 0 .. Limit, \A p \in 0 .. Limit : p > m => p \in S
      PROVE  m \in S
  <2>1. \E f : \A o \in (m + 1) .. Limit : f[o] = Def(f, o)
    <3>1. CASE m = Limit
      BY <3>1, Sizes
    <3>2. CASE m # Limit
      <4>1. m + 1 \in 0 .. Limit /\ m + 1 > m
        BY <3>2, Sizes
      <4>. QED
        BY <1>1, <4>1
    <3>. QED
      BY <3>1, <3>2
  <2>. PICK f : \A o \in (m + 1) .. Limit : f[o] = Def(f, o)
    BY <2>1
  <2>. DEFINE g == [o \in m .. Limit |-> IF o = m THEN Def(f, m) ELSE f[o]]
  <2>2. ASSUME NEW o \in m .. Limit PROVE Def(g, o) = Def(f, o)
    <3>1. CASE Goes(c, n, o)
      <4>1. Dirent(c, o).next \in m .. Limit /\ Dirent(c, o).next # m
        BY <3>1, GoesOn, Sizes
      <4>. QED
        BY <3>1, <4>1
    <3>2. CASE ~Goes(c, n, o)
      BY <3>2
    <3>. QED
      BY <3>1, <3>2
  <2>3. Solves(g, m)
    <3>. HIDE DEF Def
    <3>1. ASSUME NEW o \in m .. Limit PROVE g[o] = Def(g, o)
      <4>1. CASE o = m
        BY <2>2, <4>1
      <4>2. CASE o # m
        <5>1. o \in (m + 1) .. Limit
          BY <4>2
        <5>. QED
          BY <2>2, <4>2, <5>1
      <4>. QED
        BY <4>1, <4>2
    <3>. QED
      BY <3>1
  <2>. QED
    BY <2>3
<1>2. 0 \in S
  <2>. HIDE DEF S
  <2>1. Inherited(Limit, S)
    BY <1>1 DEF Inherited
  <2>2. 0 .. Limit \subseteq S
    BY <2>1, Downwards, Sizes
  <2>. QED
    BY <2>2, Sizes
<1>. PICK f : Solves(f, 0)
  BY <1>2
<1>. DEFINE g == [o \in 0 .. Limit |-> f[o]]
<1>3. \A o \in 0 .. Limit : Def(g, o) = Def(f, o)
  BY GoesOn
<1>4. g = [o \in 0 .. Limit |-> Def(g, o)]
  <2>. HIDE DEF Def
  <2>. QED
    BY <1>3
<1>. QED
  BY <1>4

\* What it is, unfolded once.
LEMMA LoopUnfolds ==
  ASSUME NEW c, \A x \in Nat : Cell(c, x) \in Int, NEW n \in 0 .. Limit, NEW o \in 0 .. Limit
  PROVE  DirentsFrom(c, n)[o] =
           IF Goes(c, n, o) THEN <<Dirent(c, o)>> \o DirentsFrom(c, n)[Dirent(c, o).next] ELSE <<>>
<1>. DEFINE Sol(f) == f = [p \in 0 .. Limit |->
                       IF Goes(c, n, p) THEN <<Dirent(c, p)>> \o f[Dirent(c, p).next] ELSE <<>>]
            Cod(f) == f = [p \in 0 .. Limit |->
                       IF p >= n THEN <<>>
                       ELSE IF Dirent(c, p).len >= 0 /\ Dirent(c, p).next <= n
                            THEN <<Dirent(c, p)>> \o f[Dirent(c, p).next] ELSE <<>>]
<1>1. ASSUME NEW f PROVE Sol(f) <=> Cod(f)
  <2>1. \A p \in 0 .. Limit :
          (IF Goes(c, n, p) THEN <<Dirent(c, p)>> \o f[Dirent(c, p).next] ELSE <<>>)
          = (IF p >= n THEN <<>>
                       ELSE IF Dirent(c, p).len >= 0 /\ Dirent(c, p).next <= n
                            THEN <<Dirent(c, p)>> \o f[Dirent(c, p).next] ELSE <<>>)
    BY DEF Goes
  <2>. QED
    BY <2>1
<1>2. \E f : Cod(f)
  <2>1. \E f : Sol(f)
    BY LoopExists
  <2>. QED
    BY <1>1, <2>1, Zenon
<1>3. DirentsFrom(c, n) = CHOOSE f : Cod(f)
  BY DEF DirentsFrom
<1>4. Sol(DirentsFrom(c, n))
  <2>. HIDE DEF Cod, Sol
  <2>. QED
    BY <1>1, <1>2, <1>3, Zenon
<1>. QED
  BY <1>4
-----------------------------------------------------------------------------
(* Chains of entries.                                                      *)

Cells == [Places -> Value]

\* What a cell holds, inside the directory and behind it.
LEMMA CellValue ==
  ASSUME NEW c \in Cells
  PROVE  \A x : Cell(c, x) \in Value /\ Cell(c, x) \in Int
BY DEF Cells, Cell, Value

\* Where the search for the k-th entry begins.
StartOf(es, k, o) == IF k = 1 THEN o ELSE es[k - 1].next
AllDirents(c)     == {Dirent(c, o) : o \in Nat}

\* The entries es follow one another from offset o and are all below n.
Follow(c, n, o, es) ==
  /\ es \in Seq(AllDirents(c))
  /\ \A k \in DOMAIN es : /\ es[k] = Dirent(c, StartOf(es, k, o)) /\ StartOf(es, k, o) \in 0 .. Limit
                          /\ Goes(c, n, StartOf(es, k, o))

\* What one more entry in front adds.
LEMMA FollowCons ==
  ASSUME NEW c \in Cells, NEW n \in 0 .. Limit, NEW o \in 0 .. Limit, Goes(c, n, o),
         NEW es, Follow(c, n, Dirent(c, o).next, es)
  PROVE  Follow(c, n, o, <<Dirent(c, o)>> \o es)
<1>. DEFINE e == Dirent(c, o)
            r == <<e>> \o es
<1>0. Limit \in Nat /\ o \in Nat
  BY Sizes
<1>1. e \in AllDirents(c) /\ es \in Seq(AllDirents(c)) /\ Len(es) \in Nat /\ DOMAIN es = 1 .. Len(es)
  BY <1>0 DEF AllDirents, Follow
<1>2. r \in Seq(AllDirents(c)) /\ DOMAIN r = 1 .. (Len(es) + 1)
  BY <1>1
<1>3. r[1] = e /\ \A k \in 1 .. Len(es) : r[k + 1] = es[k]
  BY <1>1
<1>4. ASSUME NEW k \in DOMAIN r
      PROVE  /\ r[k] = Dirent(c, StartOf(r, k, o)) /\ StartOf(r, k, o) \in 0 .. Limit
             /\ Goes(c, n, StartOf(r, k, o))
  <2>1. CASE k = 1
    BY <1>3, <2>1 DEF StartOf
  <2>2. CASE k # 1
    <3>0. k \in 1 .. (Len(es) + 1) /\ k - 1 \in 1 .. Len(es) /\ k = (k - 1) + 1
      BY <1>1, <1>2, <2>2
    <3>. PICK j \in 1 .. Len(es) : k = j + 1
      BY <3>0
    <3>1. r[k] = es[j] /\ StartOf(r, k, o) = r[j].next
      BY <1>3, <2>2 DEF StartOf
    <3>2. StartOf(r, k, o) = StartOf(es, j, e.next)
      <4>1. CASE j = 1
        BY <1>3, <3>1, <4>1 DEF StartOf
      <4>2. CASE j # 1
        <5>. PICK i \in 1 .. Len(es) : j = i + 1
          BY <4>2
        <5>1. r[j] = es[i]
          BY <1>3
        <5>. QED
          BY <3>1, <4>2, <5>1 DEF StartOf
      <4>. QED
        BY <4>1, <4>2
    <3>3. j \in DOMAIN es
      BY <1>1
    <3>. QED
      BY <3>1, <3>2, <3>3 DEF Follow
  <2>. QED
    BY <2>1, <2>2
<1>. QED
  BY <1>2, <1>4 DEF Follow

\* What the loop reads follows from its start.
LEMMA LoopFollows ==
  ASSUME NEW c \in Cells, NEW n \in 0 .. Limit, NEW o \in 0 .. Limit
  PROVE  Follow(c, n, o, DirentsFrom(c, n)[o])
<1>. DEFINE S == {p \in 0 .. Limit : Follow(c, n, p, DirentsFrom(c, n)[p])}
<1>0. Limit \in Nat /\ \A x \in Nat : Cell(c, x) \in Int
  BY Sizes, CellValue
<1>1. ASSUME NEW p \in 0 .. Limit, \A q \in 0 .. Limit : q > p => q \in S
      PROVE  p \in S
  <2>1. CASE Goes(c, n, p)
    <3>. PICK q \in 0 .. Limit : q = Dirent(c, p).next /\ q > p
      BY <1>0, <2>1, GoesOn
    <3>1. Follow(c, n, q, DirentsFrom(c, n)[q])
      BY <1>1
    <3>2. DirentsFrom(c, n)[p] = <<Dirent(c, p)>> \o DirentsFrom(c, n)[q]
      BY <1>0, <2>1, LoopUnfolds
    <3>. QED
      BY <2>1, <3>1, <3>2, FollowCons
  <2>2. CASE ~Goes(c, n, p)
    <3>1. DirentsFrom(c, n)[p] = <<>>
      BY <1>0, <2>2, LoopUnfolds
    <3>2. <<>> \in Seq(AllDirents(c)) /\ \A k \in DOMAIN <<>> : FALSE
      OBVIOUS
    <3>. QED
      BY <3>1, <3>2 DEF Follow
  <2>. QED
    BY <2>1, <2>2
<1>. HIDE DEF S
<1>2. 0 .. Limit \subseteq S
  <2>1. Inherited(Limit, S)
    BY <1>1 DEF Inherited
  <2>. QED
    BY <1>0, <2>1, Downwards
<1>. QED
  BY <1>2 DEF S

\* The entries es fill a directory of n cells.
IsChain(c, n, es) == Follow(c, n, 0, es) /\ EndOf(es) = n

\* The rest of a chain, read from the place where it starts.
LEMMA ChainUnique ==
  ASSUME NEW c \in Cells, NEW n \in 0 .. Limit, NEW es, IsChain(c, n, es)
  PROVE  Dirents(c, n) = es
<1>. PICK m \in Nat : m = Len(es) /\ DOMAIN es = 1 .. m
  BY DEF IsChain, Follow
<1>. DEFINE From(k) == IF k = m THEN n ELSE StartOf(es, k + 1, 0)
            S == {k \in 0 .. m : DirentsFrom(c, n)[From(k)] = SubSeq(es, k + 1, m)}
<1>0. /\ Limit \in Nat /\ \A x \in Nat : Cell(c, x) \in Int
      /\ es \in Seq(AllDirents(c)) /\ EndOf(es) = n
  BY Sizes, CellValue DEF IsChain, Follow
<1>1. ASSUME NEW k \in 0 .. m, \A j \in 0 .. m : j > k => j \in S
      PROVE  k \in S
  <2>1. CASE k = m
    <3>1. ~Goes(c, n, n)
      BY DEF Goes
    <3>2. DirentsFrom(c, n)[n] = <<>>
      BY <1>0, <3>1, LoopUnfolds
    <3>3. SubSeq(es, m + 1, m) = <<>>
      BY <1>0
    <3>. QED
      BY <2>1, <3>2, <3>3
  <2>2. CASE k # m
    <3>. PICK j \in 1 .. m : j = k + 1
      BY <2>2
    <3>. PICK o \in 0 .. Limit : o = StartOf(es, j, 0) /\ Goes(c, n, o) /\ es[j] = Dirent(c, o)
      BY DEF IsChain, Follow
    <3>1. From(k) = o
      BY <2>2
    <3>2. From(j) = es[j].next
      <4>1. CASE j = m
        <5>1. es # <<>> /\ es[Len(es)] = es[j]
          BY <4>1
        <5>. QED
          BY <1>0, <4>1, <5>1 DEF EndOf
      <4>2. CASE j # m
        BY <4>2 DEF StartOf
      <4>. QED
        BY <4>1, <4>2
    <3>3. DirentsFrom(c, n)[es[j].next] = SubSeq(es, j + 1, m)
      BY <1>1, <3>2
    <3>4. DirentsFrom(c, n)[o] = <<es[j]>> \o SubSeq(es, j + 1, m)
      <4>. HIDE DEF From, S
      <4>1. DirentsFrom(c, n)[o] = <<Dirent(c, o)>> \o DirentsFrom(c, n)[Dirent(c, o).next]
        BY <1>0, LoopUnfolds
      <4>. QED
        BY <3>3, <4>1
    <3>5. <<es[j]>> \o SubSeq(es, j + 1, m) = SubSeq(es, j, m)
      <4>1. j \in 1 .. Len(es) /\ m \in j .. Len(es)
        OBVIOUS
      <4>. QED
        BY <1>0, <4>1, SubSeqRecursiveFirst
    <3>. QED
      BY <3>1, <3>4, <3>5
  <2>. QED
    BY <2>1, <2>2
<1>2. 0 \in S
  <2>. HIDE DEF S
  <2>1. Inherited(m, S)
    BY <1>1 DEF Inherited
  <2>2. 0 .. m \subseteq S
    BY <2>1, Downwards
  <2>. QED
    BY <2>2
<1>3. From(0) = 0
  <2>1. CASE m = 0
    <3>1. es = <<>>
      BY <1>0, <2>1
    <3>. QED
      BY <1>0, <2>1, <3>1 DEF EndOf
  <2>2. CASE m # 0
    BY <2>2 DEF StartOf
  <2>. QED
    BY <2>1, <2>2
<1>4. SubSeq(es, 1, m) = es
  BY <1>0
<1>. QED
  BY <1>2, <1>3, <1>4 DEF Dirents

\* The entries of a directory are a chain if they end where it ends.
LEMMA DirentsChain ==
  ASSUME NEW c \in Cells, NEW n \in 0 .. Limit
  PROVE  Follow(c, n, 0, Dirents(c, n))
BY LoopFollows, Sizes DEF Dirents

\* An entry depends on nothing but the cells from where the search stood to its end.
LEMMA DirentSame ==
  ASSUME NEW c \in Cells, NEW d \in Cells, NEW o \in Nat, Dirent(c, o).len >= 0,
         \A x \in Nat : o <= x /\ x < Dirent(c, o).next => Cell(d, x) = Cell(c, x)
  PROVE  Dirent(d, o) = Dirent(c, o)
<1>. DEFINE h == IF BlockOf(o + Header) > BlockOf(o) THEN BlockOf(o + Header) * BlockSize ELSE o
            At(f) == IF Cell(f, h) = 0 THEN (BlockOf(h) + 1) * BlockSize ELSE h
<1>1. h \in Nat /\ h >= o
  <2>1. CASE BlockOf(o + Header) > BlockOf(o)
    <3>1. BlockOf(o + Header) * BlockSize = Base(o) + BlockSize
      BY <2>1, StepAhead, Sizes
    <3>2. Base(o) \in Nat /\ o < Base(o) + BlockSize
      BY BaseFacts
    <3>. QED
      BY <2>1, <3>1, <3>2, Sizes
  <2>2. CASE ~(BlockOf(o + Header) > BlockOf(o))
    BY <2>2
  <2>. QED
    BY <2>1, <2>2
<1>2. At(c) \in Nat /\ At(c) >= h
  <2>. PICK x \in Nat : x = h /\ x >= o
    BY <1>1
  <2>1. (BlockOf(x) + 1) * BlockSize = Base(x) + BlockSize /\ Base(x) \in Nat
        /\ x < Base(x) + BlockSize
    BY BaseFacts
  <2>. HIDE DEF h
  <2>. QED
    BY <2>1, Sizes
<1>3. /\ Dirent(c, o) = [from |-> o, at |-> At(c), len |-> Cell(c, At(c)), nr |-> Cell(c, At(c) + 1),
                         name |-> [k \in 1 .. Cell(c, At(c)) |-> Cell(c, At(c) + 1 + k)],
                         next |-> At(c) + Header + Cell(c, At(c))]
      /\ Dirent(d, o) = [from |-> o, at |-> At(d), len |-> Cell(d, At(d)), nr |-> Cell(d, At(d) + 1),
                         name |-> [k \in 1 .. Cell(d, At(d)) |-> Cell(d, At(d) + 1 + k)],
                         next |-> At(d) + Header + Cell(d, At(d))]
  BY DEF Dirent
<1>. HIDE DEF h, At
<1>. PICK a \in Nat, g \in Nat : a = At(c) /\ g = h /\ a >= g /\ g >= o
  BY <1>1, <1>2
<1>. PICK l \in Int : l = Cell(c, a)
  BY CellValue
<1>4. l >= 0 /\ Dirent(c, o).next = a + Header + l
  BY <1>3
<1>5. \A x \in Nat : o <= x /\ x < a + Header + l => Cell(d, x) = Cell(c, x)
  BY <1>4
<1>6. Cell(d, g) = Cell(c, g) /\ Cell(d, a) = l /\ Cell(d, a + 1) = Cell(c, a + 1)
  BY <1>4, <1>5
<1>7. At(d) = a
  BY <1>6 DEF At
<1>8. \A k \in 1 .. l : Cell(d, a + 1 + k) = Cell(c, a + 1 + k)
  <2>. SUFFICES ASSUME NEW k \in 1 .. l PROVE Cell(d, a + 1 + k) = Cell(c, a + 1 + k)
    OBVIOUS
  <2>1. a + 1 + k \in Nat /\ o <= a + 1 + k /\ a + 1 + k < a + Header + l
    BY <1>4
  <2>. QED
    BY <1>5, <2>1
<1>. QED
  BY <1>3, <1>6, <1>7, <1>8

\* A search begins where the entry before it ends, and goes on.
LEMMA FollowFacts ==
  ASSUME NEW c \in Cells, NEW n \in 0 .. Limit, NEW es, Follow(c, n, 0, es)
  PROVE  /\ es \in Seq(AllDirents(c)) /\ Len(es) \in Nat /\ DOMAIN es = 1 .. Len(es)
         /\ \A k \in 1 .. Len(es) :
              /\ es[k].from = StartOf(es, k, 0) /\ es[k] = Dirent(c, es[k].from)
              /\ es[k].from \in Nat /\ es[k].at \in Nat /\ es[k].len \in Nat /\ es[k].next \in Nat
              /\ es[k].next <= n /\ es[k].from < n
              /\ es[k].from <= es[k].at /\ es[k].next = es[k].at + Header + es[k].len
              /\ es[k].len = Cell(c, es[k].at) /\ es[k].nr = Cell(c, es[k].at + 1)
<1>1. es \in Seq(AllDirents(c)) /\ Len(es) \in Nat /\ DOMAIN es = 1 .. Len(es)
  BY DEF Follow
<1>2. ASSUME NEW k \in 1 .. Len(es)
      PROVE  /\ es[k].from = StartOf(es, k, 0) /\ es[k] = Dirent(c, es[k].from)
             /\ es[k].from \in Nat /\ es[k].at \in Nat /\ es[k].len \in Nat /\ es[k].next \in Nat
             /\ es[k].next <= n /\ es[k].from < n
             /\ es[k].from <= es[k].at /\ es[k].next = es[k].at + Header + es[k].len
             /\ es[k].len = Cell(c, es[k].at) /\ es[k].nr = Cell(c, es[k].at + 1)
  <2>. PICK o \in Nat : o = StartOf(es, k, 0) /\ es[k] = Dirent(c, o) /\ Goes(c, n, o)
    BY <1>1, Sizes DEF Follow
  <2>1. Dirent(c, o).len \in Int /\ Dirent(c, o).nr \in Int
    BY DirentAhead, CellValue
  <2>. QED
    BY <2>1, DirentAhead, Sizes, SMTT(30) DEF Goes
<1>. QED
  BY <1>1, <1>2

\* One entry lies behind the other.
LEMMA ChainOrder ==
  ASSUME NEW c \in Cells, NEW n \in 0 .. Limit, NEW es, Follow(c, n, 0, es),
         NEW k \in 1 .. Len(es), NEW j \in 1 .. Len(es), j < k
  PROVE  es[j].next <= es[k].from
<1>m. PICK m \in Nat : m = Len(es)
  BY FollowFacts
<1>n. k \in 1 .. m /\ j \in 1 .. m
  BY <1>m
<1>. DEFINE S == {i \in 0 .. m : 1 <= i /\ i < k => es[i].next <= es[k].from}
<1>0. ASSUME NEW i \in 1 .. m
      PROVE  /\ es[i].from \in Nat /\ es[i].next \in Nat /\ es[i].from <= es[i].next
             /\ i > 1 => es[i].from = es[i - 1].next
  <2>1. /\ es[i].from \in Nat /\ es[i].next \in Nat /\ es[i].at \in Nat /\ es[i].len \in Nat
        /\ es[i].from <= es[i].at /\ es[i].next = es[i].at + Header + es[i].len
        /\ es[i].from = StartOf(es, i, 0)
    <3>. HIDE DEF S
    <3>1. i \in 1 .. Len(es)
      BY <1>m
    <3>. QED
      BY <3>1, FollowFacts
  <2>2. i > 1 => StartOf(es, i, 0) = es[i - 1].next
    BY DEF StartOf
  <2>. QED
    <3>. HIDE DEF S
    <3>1. PICK a, l, n1 : a = es[i].at /\ l = es[i].len /\ n1 = es[i].next
      OBVIOUS
    <3>2. es[i].from <= a /\ n1 = a + Header + l /\ a \in Nat /\ l \in Nat /\ es[i].from \in Nat
      BY <2>1, <3>1
    <3>3. es[i].from <= n1
      BY <3>2
    <3>4. i > 1 => es[i].from = es[i - 1].next
      BY <2>1, <2>2
    <3>. QED
      BY <2>1, <3>1, <3>3, <3>4
<1>1. ASSUME NEW i \in 0 .. m, \A q \in 0 .. m : q > i => q \in S
      PROVE  i \in S
  <2>1. CASE 1 <= i /\ i = k - 1
    <3>1. es[k].from = es[i].next /\ es[i].next \in Nat
      BY <1>0, <1>n, <2>1
    <3>2. es[i].next <= es[k].from
      <4>. HIDE DEF S
      <4>. QED
        BY <3>1
    <3>. QED
      BY <3>2
  <2>2. CASE 1 <= i /\ i < k - 1
    <3>1. i + 1 \in S /\ i + 1 < k /\ i + 1 \in 1 .. m
      BY <1>1, <1>n, <2>2
    <3>2. es[i + 1].from = es[i].next /\ es[i + 1].next <= es[k].from
      BY <1>0, <1>n, <2>2, <3>1
    <3>. QED
      BY <1>0, <1>n, <2>2, <3>1, <3>2
  <2>3. CASE ~(1 <= i /\ i < k)
    BY <2>3
  <2>. QED
    BY <1>n, <2>1, <2>2, <2>3
<1>2. 0 .. m \subseteq S
  <2>. HIDE DEF S
  <2>1. Inherited(m, S)
    BY <1>1 DEF Inherited
  <2>. QED
    BY <2>1, Downwards
<1>3. j \in S /\ j \in 1 .. m
  BY <1>2, <1>n
<1>. QED
  BY <1>3
-----------------------------------------------------------------------------
(* What a write does to a chain.                                           *)

\* The names an entry of which fits in a block.
Fitting == {name \in AllNames : Fits(name)}

\* What an entry needs for a directory to be usable with it: it lies in one block, its
\* name is that of a file, and a removed one can be found from where the search stands.
WholeEntry(e) ==
  /\ BlockOf(e.at) = BlockOf(e.next)
  /\ \E name \in Fitting : e.len = NameLen[name] /\ e.name = NameCells(name)
  /\ e.nr < 0 => e.from = e.at

\* No two entries that are in use have the same name.
OneEach(es) ==
  \A j, k \in DOMAIN es : es[j].nr >= 0 /\ es[k].nr >= 0 /\ es[j].name = es[k].name => j = k

\* None has this name.
Unused(es, name) == \A k \in DOMAIN es : es[k].nr >= 0 => es[k].name # name

\* A directory of n cells is in order, and its entries are es.
Good(c, n, es) ==
  /\ Follow(c, n, 0, es) /\ EndOf(es) = n
  /\ \A k \in DOMAIN es : WholeEntry(es[k])
  /\ OneEach(es)

\* A name has at least one cell.
LEMMA NameFacts ==
  ASSUME NEW name \in AllNames
  PROVE  NameLen[name] \in Nat /\ NameLen[name] > 0 /\ name \in Nat /\ name > 0
BY DirLayoutAssumption DEF AllNames

\* An entry for one that fits has room in a block.
LEMMA FitFacts ==
  ASSUME NEW name \in Fitting
  PROVE  /\ NameLen[name] \in Nat /\ NameLen[name] > 0 /\ Header + NameLen[name] < BlockSize
         /\ name \in Nat /\ name > 0 /\ name \in AllNames
BY NameFacts DEF Fitting, Fits

\* "." and ".." are names that fit.
LEMMA DotNames == Dot \in Fitting /\ DotDot \in Fitting /\ Dot \in AllNames /\ DotDot \in AllNames
BY DotsFit DEF AllNames, Fitting

\* The cells of an entry.
LEMMA EntryFacts ==
  ASSUME NEW name \in Fitting, NEW nr \in Value
  PROVE  /\ EntryCells(name, nr) \in Seq(Value)
         /\ Len(EntryCells(name, nr)) = Header + NameLen[name]
         /\ EntryCells(name, nr)[1] = NameLen[name] /\ EntryCells(name, nr)[2] = nr
         /\ \A k \in 1 .. NameLen[name] : EntryCells(name, nr)[k + 2] = name
<1>. PICK l \in Nat : l = NameLen[name]
  BY FitFacts
<1>. DEFINE h == <<l, nr>>
            t == [k \in 1 .. l |-> name]
<1>1. h \in Seq(Value) /\ Len(h) = 2 /\ h[1] = l /\ h[2] = nr
  BY DEF Value
<1>2. t \in Seq(Value) /\ Len(t) = l /\ \A k \in 1 .. l : t[k] = name
  BY FitFacts DEF Value
<1>3. EntryCells(name, nr) = h \o t
  BY DEF EntryCells, NameCells
<1>. HIDE DEF h, t
<1>4. /\ h \o t \in Seq(Value) /\ Len(h \o t) = 2 + l
      /\ \A i \in 1 .. (2 + l) : (h \o t)[i] = IF i <= 2 THEN h[i] ELSE t[i - 2]
  <2>1. /\ h \o t \in Seq(Value) /\ Len(h \o t) = Len(h) + Len(t)
        /\ \A i \in 1 .. Len(h) + Len(t) :
             (h \o t)[i] = IF i <= Len(h) THEN h[i] ELSE t[i - Len(h)]
    BY <1>1, <1>2, ConcatProperties, Zenon
  <2>. QED
    BY <1>1, <1>2, <2>1
<1>5. (h \o t)[1] = l /\ (h \o t)[2] = nr
  BY <1>1, <1>4
<1>6. ASSUME NEW k \in 1 .. l PROVE (h \o t)[k + 2] = name
  <2>1. k + 2 \in 1 .. (2 + l) /\ ~(k + 2 <= 2) /\ k + 2 - 2 = k
    OBVIOUS
  <2>. QED
    BY <1>2, <1>4, <2>1
<1>. QED
  BY <1>3, <1>4, <1>5, <1>6

\* Where the data of a write begins and ends in one block, it is one write.
LEMMA OneWrite ==
  ASSUME NEW off \in Nat, NEW data \in Seq(Value), data # <<>>,
         off + Len(data) <= Base(off) + BlockSize
  PROVE  Writes(off, data) = <<[at |-> off, data |-> data]>>
<1>. PICK b \in Nat, l \in Nat, q \in Nat :
       /\ b = Base(off) /\ l = Len(data) /\ l > 0 /\ b <= off /\ q = BlockOf(off)
       /\ off + l <= b + BlockSize
  BY BaseFacts, SMTT(30)
<1>1. BlockOf(off + l - 1) = q
  <2>1. off + l - 1 \in Nat /\ b <= off + l - 1 /\ off + l - 1 < b + BlockSize
    BY Sizes
  <2>. QED
    BY <2>1, BaseFacts
<1>2. q * BlockSize = b /\ (q + 1) * BlockSize = b + BlockSize
  BY BaseFacts DEF Base
<1>3. \A k \in 1 .. 1 : MaxOf(off, (q + k - 1) * BlockSize) = off
                        /\ MinOf(off + l, (q + k) * BlockSize) = off + l
  <2>1. q + 1 - 1 = q
    OBVIOUS
  <2>2. MaxOf(off, b) = off /\ MinOf(off + l, b + BlockSize) = off + l
    BY Sizes DEF MaxOf, MinOf
  <2>. QED
    BY <1>2, <2>1, <2>2
<1>4. SubSeq(data, off - off + 1, off + l - off) = data
  BY Sizes
<1>5. BlockOf(off + l - 1) - q + 1 = 1
  BY <1>1
<1>6. Writes(off, data) =
        [k \in 1 .. (BlockOf(off + l - 1) - q + 1) |->
           [at |-> MaxOf(off, (q + k - 1) * BlockSize),
            data |-> SubSeq(data, MaxOf(off, (q + k - 1) * BlockSize) - off + 1,
                            MinOf(off + l, (q + k) * BlockSize) - off)]]
  BY DEF Writes
<1>7. Writes(off, data) = [k \in 1 .. 1 |-> [at |-> off, data |-> data]]
  <2>. DEFINE lo(k) == MaxOf(off, (q + k - 1) * BlockSize)
              hi(k) == MinOf(off + l, (q + k) * BlockSize)
  <2>1. Writes(off, data) = [k \in 1 .. 1 |->
          [at |-> lo(k), data |-> SubSeq(data, lo(k) - off + 1, hi(k) - off)]]
    BY <1>5, <1>6
  <2>2. \A k \in 1 .. 1 : lo(k) = off /\ hi(k) = off + l
    BY <1>3
  <2>. HIDE DEF lo, hi
  <2>3. \A k \in 1 .. 1 : SubSeq(data, lo(k) - off + 1, hi(k) - off) = data
    BY <1>4, <2>2
  <2>. QED
    BY <2>1, <2>2, <2>3
<1>. QED
  BY <1>7

\* A sequence of entries that each begin where the one before ends is what a search finds.
LEMMA FollowMade ==
  ASSUME NEW c \in Cells, NEW n \in 0 .. Limit, NEW m \in Nat, NEW es \in [1 .. m -> AllDirents(c)],
         \A k \in 1 .. m : /\ es[k] = Dirent(c, StartOf(es, k, 0)) /\ StartOf(es, k, 0) \in 0 .. Limit
                           /\ Goes(c, n, StartOf(es, k, 0))
  PROVE  Follow(c, n, 0, es) /\ Len(es) = m /\ DOMAIN es = 1 .. m
<1>1. es \in Seq(AllDirents(c)) /\ DOMAIN es = 1 .. m /\ Len(es) = m
  OBVIOUS
<1>. QED
  BY <1>1 DEF Follow

\* The entries below n are the same if the cells below n are.
LEMMA FollowSame ==
  ASSUME NEW c \in Cells, NEW d \in Cells, NEW n \in 0 .. Limit, NEW es, Follow(c, n, 0, es),
         \A x \in Nat : x < n => Cell(d, x) = Cell(c, x)
  PROVE  Follow(d, n, 0, es)
<1>. PICK m \in Nat : m = Len(es) /\ DOMAIN es = 1 .. m
  BY FollowFacts
<1>0. n \in Nat /\ 0 .. n \subseteq Nat
  BY Sizes
<1>1. ASSUME NEW k \in 1 .. m
      PROVE  /\ es[k] = Dirent(d, StartOf(es, k, 0)) /\ StartOf(es, k, 0) \in 0 .. Limit
             /\ Goes(d, n, StartOf(es, k, 0)) /\ es[k] \in AllDirents(d)
  <2>. PICK o \in 0 .. Limit : o = StartOf(es, k, 0) /\ es[k] = Dirent(c, o) /\ Goes(c, n, o)
    BY DEF Follow
  <2>1. o \in Nat /\ Dirent(c, o).len >= 0 /\ Dirent(c, o).next <= n
    BY Sizes DEF Goes
  <2>2. \A x \in Nat : o <= x /\ x < Dirent(c, o).next => x < n
    <3>1. Dirent(c, o).next \in Int
      BY <2>1, DirentAhead, CellValue
    <3>. QED
      BY <1>0, <2>1, <3>1
  <2>3. Dirent(d, o) = Dirent(c, o)
    BY <2>1, <2>2, DirentSame
  <2>. QED
    BY <2>1, <2>3 DEF Goes, AllDirents
<1>2. es \in [1 .. m -> AllDirents(d)]
  <2>1. es \in [1 .. m -> AllDirents(c)]
    BY DEF Follow
  <2>. QED
    BY <1>1, <2>1
<1>. QED
  BY <1>1, <1>2, FollowMade

\* A directory in order does not depend on what lies behind its end.
LEMMA GoodSame ==
  ASSUME NEW c \in Cells, NEW d \in Cells, NEW n \in 0 .. Limit, NEW es, Good(c, n, es),
         \A x \in Nat : x < n => Cell(d, x) = Cell(c, x)
  PROVE  Good(d, n, es)
BY FollowSame DEF Good

\* An entry where the directory ended is one more.
LEMMA GoodAppend ==
  ASSUME NEW c \in Cells, NEW n \in 0 .. Limit, NEW es, Good(c, n, es),
         NEW e, e = Dirent(c, n), e.len > 0, e.next <= Limit, WholeEntry(e),
         Unused(es, e.name)
  PROVE  Good(c, e.next, Append(es, e))
<1>. PICK m \in Nat : m = Len(es) /\ DOMAIN es = 1 .. m
  BY FollowFacts DEF Good
<1>. PICK q \in Nat : q = e.next /\ q > n
  BY DirentAhead, CellValue, Sizes
<1>. DEFINE r == Append(es, e)
<1>0. n \in Nat /\ q \in 0 .. Limit /\ Limit \in Nat
  BY Sizes
<1>1. /\ e \in AllDirents(c) /\ es \in Seq(AllDirents(c))
  BY <1>0, FollowFacts DEF AllDirents, Good
<1>2. /\ r \in Seq(AllDirents(c)) /\ Len(r) = m + 1 /\ r[m + 1] = e
      /\ \A k \in 1 .. m : r[k] = es[k]
  BY <1>1
<1>. HIDE DEF r
<1>3. \A k \in 1 .. m : StartOf(r, k, 0) = StartOf(es, k, 0)
  <2>. SUFFICES ASSUME NEW k \in 1 .. m PROVE StartOf(r, k, 0) = StartOf(es, k, 0)
    OBVIOUS
  <2>1. k # 1 => k - 1 \in 1 .. m
    OBVIOUS
  <2>. QED
    BY <1>2, <2>1 DEF StartOf
<1>4. StartOf(r, m + 1, 0) = n
  <2>1. CASE m = 0
    <3>1. es = <<>>
      BY <1>1, <2>1
    <3>. QED
      BY <2>1, <3>1 DEF StartOf, Good, EndOf
  <2>2. CASE m # 0
    <3>1. es # <<>> /\ m \in 1 .. m /\ m + 1 - 1 = m /\ m + 1 # 1
      BY <1>1, <2>2
    <3>. QED
      BY <1>2, <3>1 DEF StartOf, Good, EndOf
  <2>. QED
    BY <2>1, <2>2
<1>5. ASSUME NEW k \in 1 .. (m + 1)
      PROVE  /\ r[k] = Dirent(c, StartOf(r, k, 0)) /\ StartOf(r, k, 0) \in 0 .. Limit
             /\ Goes(c, q, StartOf(r, k, 0))
  <2>1. CASE k = m + 1
    <3>0. e.len \in Nat /\ e.next = q /\ ~(n >= q)
      BY <1>0, DirentAhead, CellValue
    <3>1. Goes(c, q, n)
      BY <1>0, <3>0 DEF Goes
    <3>. QED
      BY <1>2, <1>4, <2>1, <3>1
  <2>2. CASE k # m + 1
    <3>0. k \in 1 .. m
      BY <2>2
    <3>. PICK o \in 0 .. Limit : o = StartOf(es, k, 0) /\ es[k] = Dirent(c, o) /\ Goes(c, n, o)
      BY <3>0 DEF Good, Follow
    <3>a. o \in Nat /\ Dirent(c, o).len \in Int
      BY Sizes, DirentAhead, CellValue
    <3>1. Dirent(c, o).next \in Int
      BY <3>a, DirentAhead
    <3>2. Goes(c, q, o)
      BY <1>0, <3>1 DEF Goes
    <3>. QED
      BY <1>2, <1>3, <3>0, <3>2
  <2>. QED
    BY <2>1, <2>2
<1>6. Follow(c, q, 0, r) /\ DOMAIN r = 1 .. (m + 1)
  <2>1. r \in [1 .. (m + 1) -> AllDirents(c)] /\ m + 1 \in Nat
    BY <1>2
  <2>. QED
    BY <1>0, <1>5, <2>1, FollowMade
<1>7. EndOf(r) = q
  <2>1. r # <<>>
    BY <1>2
  <2>. QED
    BY <1>2, <2>1 DEF EndOf
<1>8. ASSUME NEW k \in DOMAIN r PROVE WholeEntry(r[k])
  <2>1. k \in 1 .. m \/ k = m + 1
    BY <1>6
  <2>. QED
    BY <1>2, <2>1 DEF Good
<1>9. OneEach(r)
  <2>. SUFFICES ASSUME NEW j \in 1 .. (m + 1), NEW k \in 1 .. (m + 1),
                       r[j].nr >= 0, r[k].nr >= 0, r[j].name = r[k].name
                PROVE  j = k
    BY <1>6 DEF OneEach
  <2>1. (j \in 1 .. m \/ j = m + 1) /\ (k \in 1 .. m \/ k = m + 1)
    OBVIOUS
  <2>2. CASE j \in 1 .. m /\ k \in 1 .. m
    BY <1>2, <2>2 DEF Good, OneEach
  <2>3. CASE ~(j \in 1 .. m /\ k \in 1 .. m)
    BY <1>2, <2>1, <2>3 DEF Unused
  <2>. QED
    BY <2>2, <2>3
<1>10. Good(c, q, r)
  BY <1>6, <1>7, <1>8, <1>9 DEF Good
<1>. QED
  BY <1>10 DEF r

\* What a search that stands on an entry finds.
LEMMA DirentHere ==
  ASSUME NEW c, NEW o \in Nat, BlockOf(o + Header) = BlockOf(o), Cell(c, o) # 0
  PROVE  Dirent(c, o) = [from |-> o, at |-> o, len |-> Cell(c, o), nr |-> Cell(c, o + 1),
                         name |-> [k \in 1 .. Cell(c, o) |-> Cell(c, o + 1 + k)],
                         next |-> o + Header + Cell(c, o)]
<1>1. BlockOf(o) \in Nat
  BY BaseFacts
<1>2. ~(BlockOf(o + Header) > BlockOf(o))
  BY <1>1
<1>. QED
  BY <1>2 DEF Dirent

\* What one that stands before padding finds.
LEMMA DirentPadded ==
  ASSUME NEW c, NEW o \in Nat, NEW q \in Nat, q = Base(o) + BlockSize, Cell(c, q) # 0,
         BlockOf(o + Header) = BlockOf(o) => Cell(c, o) = 0
  PROVE  Dirent(c, o) = [from |-> o, at |-> q, len |-> Cell(c, q), nr |-> Cell(c, q + 1),
                         name |-> [k \in 1 .. Cell(c, q) |-> Cell(c, q + 1 + k)],
                         next |-> q + Header + Cell(c, q)]
<1>. DEFINE h == IF BlockOf(o + Header) > BlockOf(o) THEN BlockOf(o + Header) * BlockSize ELSE o
            at == IF Cell(c, h) = 0 THEN (BlockOf(h) + 1) * BlockSize ELSE h
<1>1. Dirent(c, o) = [from |-> o, at |-> at, len |-> Cell(c, at), nr |-> Cell(c, at + 1),
                      name |-> [k \in 1 .. Cell(c, at) |-> Cell(c, at + 1 + k)],
                      next |-> at + Header + Cell(c, at)]
  BY DEF Dirent
<1>2. at = q
  <2>1. CASE BlockOf(o + Header) > BlockOf(o)
    <3>2. o + Header >= Base(o) + BlockSize
      BY <2>1, StepAhead, Sizes
    <3>3. BlockOf(o + Header) * BlockSize = Base(o) + BlockSize
      BY <3>2, StepAhead, Sizes
    <3>4. h = q
      BY <2>1, <3>3
    <3>. HIDE DEF h
    <3>. QED
      BY <3>4
  <2>2. CASE ~(BlockOf(o + Header) > BlockOf(o))
    <3>1. ~(o + Header >= Base(o) + BlockSize)
      BY <2>2, StepAhead, Sizes
    <3>2. Base(o) <= o + Header /\ o + Header < Base(o) + BlockSize /\ o + Header \in Nat
      <4>. PICK b \in Nat : b = Base(o) /\ b <= o
        BY BaseFacts
      <4>. QED
        BY <3>1, Sizes
    <3>3. BlockOf(o + Header) = BlockOf(o)
      BY <3>2, BaseFacts
    <3>4. h = o /\ Cell(c, o) = 0
      BY <2>2, <3>3
    <3>5. (BlockOf(o) + 1) * BlockSize = q
      BY BaseFacts
    <3>. HIDE DEF h
    <3>. QED
      BY <3>4, <3>5
  <2>. QED
    BY <2>1, <2>2
<1>. HIDE DEF at
<1>. QED
  BY <1>1, <1>2

\* The cells after a write.
Put(c, w) == [o \in Places |-> IF o >= w.at /\ o < w.at + Len(w.data)
                               THEN w.data[o - w.at + 1] ELSE c[o]]

\* It changes the cells it is for and no others.
LEMMA PutFacts ==
  ASSUME NEW c \in Cells, NEW q \in Nat, NEW data \in Seq(Value), q + Len(data) <= Limit
  PROVE  /\ Put(c, [at |-> q, data |-> data]) \in Cells
         /\ \A x \in Nat : Cell(Put(c, [at |-> q, data |-> data]), x) =
              IF q <= x /\ x < q + Len(data) THEN data[x - q + 1] ELSE Cell(c, x)
<1>. DEFINE w == [at |-> q, data |-> data]
            d == Put(c, w)
<1>. PICK l \in Nat : l = Len(data)
  OBVIOUS
<1>0. Limit \in Nat /\ q + l <= Limit /\ Places = 0 .. (Limit - 1)
  BY Sizes DEF Places
<1>1. d = [o \in Places |-> IF o >= q /\ o < q + l THEN data[o - q + 1] ELSE c[o]]
  BY DEF Put
<1>. HIDE DEF d
<1>2. \A x \in Nat : q <= x /\ x < q + l => data[x - q + 1] \in Value /\ x \in Places
  <2>. SUFFICES ASSUME NEW x \in Nat, q <= x, x < q + l
                PROVE  data[x - q + 1] \in Value /\ x \in Places
    OBVIOUS
  <2>1. x - q + 1 \in 1 .. l /\ x \in Places
    BY <1>0
  <2>. QED
    BY <2>1
<1>3. d \in Cells
  <2>1. \A o \in Places : (IF o >= q /\ o < q + l THEN data[o - q + 1] ELSE c[o]) \in Value
    BY <1>0, <1>2 DEF Cells
  <2>. QED
    BY <1>1, <2>1 DEF Cells
<1>4. ASSUME NEW x \in Nat
      PROVE  Cell(d, x) = IF q <= x /\ x < q + l THEN data[x - q + 1] ELSE Cell(c, x)
  <2>1. CASE x \in Places
    BY <1>1, <2>1 DEF Cell
  <2>2. CASE x \notin Places
    BY <1>2, <2>2 DEF Cell
  <2>. QED
    BY <2>1, <2>2
<1>. QED
  BY <1>3, <1>4 DEF d

\* The cells after the write of an entry.
Written(c, q, name, nr) == Put(c, [at |-> q, data |-> EntryCells(name, nr)])

\* What an entry reads as where it has been written.
LEMMA EntryWritten ==
  ASSUME NEW c \in Cells, NEW q \in Nat, NEW name \in Fitting, NEW nr \in Value,
         q + Header + NameLen[name] <= Limit
  PROVE  /\ Written(c, q, name, nr) \in Cells
         /\ Cell(Written(c, q, name, nr), q) = NameLen[name]
         /\ Cell(Written(c, q, name, nr), q + 1) = nr
         /\ \A k \in 1 .. NameLen[name] : Cell(Written(c, q, name, nr), q + 1 + k) = name
         /\ \A x \in Nat : x < q \/ x >= q + Header + NameLen[name]
                             => Cell(Written(c, q, name, nr), x) = Cell(c, x)
<1>. PICK l \in Nat : l = NameLen[name] /\ l > 0
  BY FitFacts
<1>. PICK data : data = EntryCells(name, nr)
  OBVIOUS
<1>1. /\ data \in Seq(Value) /\ Len(data) = 2 + l /\ data[1] = l /\ data[2] = nr
      /\ \A k \in 1 .. l : data[k + 2] = name
  BY EntryFacts
<1>. DEFINE d == Put(c, [at |-> q, data |-> data])
<1>2. d \in Cells /\ \A x \in Nat : Cell(d, x) =
              IF q <= x /\ x < q + (2 + l) THEN data[x - q + 1] ELSE Cell(c, x)
  <2>1. q + Len(data) <= Limit /\ data \in Seq(Value)
    BY <1>1, Sizes
  <2>2. d \in Cells /\ \A x \in Nat : Cell(d, x) =
              IF q <= x /\ x < q + Len(data) THEN data[x - q + 1] ELSE Cell(c, x)
    BY <2>1, PutFacts
  <2>. HIDE DEF d
  <2>. QED
    BY <1>1, <2>2
<1>. HIDE DEF d
<1>3. Cell(d, q) = l
  <2>1. q - q + 1 = 1 /\ q < q + (2 + l)
    OBVIOUS
  <2>. QED
    BY <1>1, <1>2, <2>1
<1>4. Cell(d, q + 1) = nr
  <2>1. q + 1 - q + 1 = 2 /\ q <= q + 1 /\ q + 1 < q + (2 + l) /\ q + 1 \in Nat
    OBVIOUS
  <2>. QED
    BY <1>1, <1>2, <2>1
<1>5. ASSUME NEW k \in 1 .. l PROVE Cell(d, q + 1 + k) = name
  <2>. PICK x \in Nat : x = q + 1 + k
    OBVIOUS
  <2>1. x - q + 1 = k + 2 /\ q <= x /\ x < q + (2 + l)
    OBVIOUS
  <2>2. Cell(d, x) = data[k + 2]
    BY <1>2, <2>1
  <2>3. data[k + 2] = name
    BY <1>1
  <2>. QED
    BY <2>2, <2>3
<1>6. \A x \in Nat : x < q \/ x >= q + 2 + l => Cell(d, x) = Cell(c, x)
  BY <1>2
<1>7. Written(c, q, name, nr) = d
  BY DEF Written, d
<1>. QED
  BY <1>2, <1>3, <1>4, <1>5, <1>6, <1>7

\* The entry e with another number and the cells of a name of its length.
Changed(e, name, nr) == [from |-> e.from, at |-> e.at, len |-> e.len, nr |-> nr,
                         name |-> NameCells(name), next |-> e.next]
Replaced(es, k, name, nr) ==
  [j \in DOMAIN es |-> IF j = k THEN Changed(es[j], name, nr) ELSE es[j]]

\* An entry of the same length written over one that is where its search stood replaces it.
LEMMA GoodReplace ==
  ASSUME NEW c \in Cells, NEW n \in 0 .. Limit, NEW es, Good(c, n, es), NEW k \in DOMAIN es,
         es[k].from = es[k].at, NEW name \in Fitting, es[k].len = NameLen[name],
         NEW nr \in Value,
         nr >= 0 => Unused(es, NameCells(name))
  PROVE  /\ Written(c, es[k].at, name, nr) \in Cells
         /\ Good(Written(c, es[k].at, name, nr), n, Replaced(es, k, name, nr))
<1>. DEFINE r == Replaced(es, k, name, nr)
<1>a. PICK m \in Nat : m = Len(es) /\ DOMAIN es = 1 .. m
  BY FollowFacts DEF Good
<1>b. PICK q \in Nat, l \in Nat :
       q = es[k].at /\ l = NameLen[name] /\ l > 0 /\ es[k].next = q + Header + l
       /\ es[k].next <= n /\ es[k].from = q
  <2>1. Follow(c, n, 0, es) /\ k \in 1 .. Len(es)
    BY DEF Good
  <2>2. /\ es[k].at \in Nat /\ es[k].next <= n
        /\ es[k].next = es[k].at + Header + es[k].len
    BY <2>1, FollowFacts
  <2>3. NameLen[name] \in Nat /\ NameLen[name] > 0
    BY FitFacts
  <2>. QED
    BY <2>2, <2>3
<1>0. n \in Nat /\ Limit \in Nat /\ n <= Limit
  BY Sizes
<1>. DEFINE d == Written(c, q, name, nr)
<1>1. /\ d \in Cells /\ Cell(d, q) = l /\ Cell(d, q + 1) = nr
      /\ \A i \in 1 .. l : Cell(d, q + 1 + i) = name
      /\ \A x \in Nat : x < q \/ x >= q + Header + l => Cell(d, x) = Cell(c, x)
  <2>1. q + Header + NameLen[name] <= Limit
    BY <1>b, <1>0
  <2>2. /\ Written(c, q, name, nr) \in Cells
        /\ Cell(Written(c, q, name, nr), q) = NameLen[name]
        /\ Cell(Written(c, q, name, nr), q + 1) = nr
        /\ \A i \in 1 .. NameLen[name] : Cell(Written(c, q, name, nr), q + 1 + i) = name
        /\ \A x \in Nat : x < q \/ x >= q + Header + NameLen[name]
                            => Cell(Written(c, q, name, nr), x) = Cell(c, x)
    BY <2>1, EntryWritten
  <2>. QED
    BY <1>b, <2>2
<1>. HIDE DEF d
<1>2. Dirent(d, q) = Changed(es[k], name, nr)
  <2>1. BlockOf(q + Header) = BlockOf(q)
    <3>1. BlockOf(q) = BlockOf(q + Header + l)
      BY <1>b DEF Good, WholeEntry
    <3>. PICK b \in Nat : b = Base(q) /\ b <= q /\ q < b + BlockSize
      BY BaseFacts
    <3>. PICK y \in Nat : y = q + Header + l
      OBVIOUS
    <3>2. y < b + BlockSize
      BY <3>1, BaseFacts DEF Base
    <3>3. b <= q + Header /\ q + Header < b + BlockSize /\ q + Header \in Nat
      BY <3>2, Sizes
    <3>. QED
      BY <3>3, BaseFacts
  <2>2. Dirent(d, q) = [from |-> q, at |-> q, len |-> l, nr |-> nr,
                        name |-> NameCells(name), next |-> q + Header + l]
    <3>1. Dirent(d, q) = [from |-> q, at |-> q, len |-> Cell(d, q), nr |-> Cell(d, q + 1),
                          name |-> [i \in 1 .. Cell(d, q) |-> Cell(d, q + 1 + i)],
                          next |-> q + Header + Cell(d, q)]
      <4>1. Cell(d, q) # 0
        BY <1>b, <1>1
      <4>. QED
        BY <2>1, <4>1, DirentHere
    <3>2. [i \in 1 .. Cell(d, q) |-> Cell(d, q + 1 + i)] = NameCells(name)
      BY <1>b, <1>1 DEF NameCells
    <3>. QED
      BY <1>1, <3>1, <3>2
  <2>. QED
    BY <1>b, <2>2 DEF Changed
<1>3. ASSUME NEW j \in 1 .. m, j # k PROVE Dirent(d, es[j].from) = es[j]
  <2>. PICK o \in Nat, e \in Nat :
         o = es[j].from /\ e = es[j].next /\ es[j] = Dirent(c, o) /\ es[j].len >= 0
    <3>1. Follow(c, n, 0, es) /\ j \in 1 .. Len(es)
      BY <1>a, <1>b DEF Good
    <3>2. /\ es[j] = Dirent(c, es[j].from) /\ es[j].len \in Nat
          /\ es[j].from \in Nat /\ es[j].next \in Nat
      BY <3>1, FollowFacts
    <3>. QED
      BY <3>2
  <2>1. e <= q \/ o >= q + Header + l
    <3>1. j < k \/ k < j
      BY <1>a, <1>b, <1>3
    <3>2. Follow(c, n, 0, es) /\ j \in 1 .. Len(es) /\ k \in 1 .. Len(es)
      BY <1>a, <1>b DEF Good
    <3>3. j < k => es[j].next <= es[k].from
      BY <3>2, ChainOrder
    <3>4. k < j => es[k].next <= es[j].from
      BY <3>2, ChainOrder
    <3>. QED
      BY <1>b, <3>1, <3>3, <3>4
  <2>2. \A x \in Nat : o <= x /\ x < e => Cell(d, x) = Cell(c, x)
    BY <1>1, <2>1
  <2>. QED
    BY <1>1, <2>2, DirentSame
<1>4. /\ r \in [1 .. m -> AllDirents(d)]
      /\ \A j \in 1 .. m : r[j] = Dirent(d, es[j].from) /\ r[j].next = es[j].next
  <2>1. r = [j \in 1 .. m |-> IF j = k THEN Changed(es[j], name, nr) ELSE es[j]]
    BY <1>a, <1>b DEF Replaced
  <2>. HIDE DEF r
  <2>2. ASSUME NEW j \in 1 .. m
        PROVE  r[j] = Dirent(d, es[j].from) /\ r[j].next = es[j].next
    <3>1. CASE j = k
      BY <1>b, <1>2, <2>1, <3>1 DEF Changed
    <3>2. CASE j # k
      BY <1>3, <2>1, <3>2
    <3>. QED
      BY <3>1, <3>2
  <2>3. \A j \in 1 .. m : es[j].from \in Nat
    BY <1>a, <1>b, FollowFacts DEF Good
  <2>4. \A j \in 1 .. m : r[j] \in AllDirents(d)
    BY <2>2, <2>3 DEF AllDirents
  <2>. QED
    BY <2>1, <2>2, <2>4
<1>. HIDE DEF r
<1>5. ASSUME NEW j \in 1 .. m
      PROVE  /\ r[j] = Dirent(d, StartOf(r, j, 0)) /\ StartOf(r, j, 0) \in 0 .. Limit
             /\ Goes(d, n, StartOf(r, j, 0))
  <2>1. StartOf(r, j, 0) = es[j].from
    <3>1. es[j].from = StartOf(es, j, 0) /\ (j # 1 => j - 1 \in 1 .. m)
      BY <1>a, <1>b, FollowFacts DEF Good
    <3>. QED
      BY <1>4, <3>1 DEF StartOf
  <2>2. es[j].from \in Nat /\ es[j].from < n /\ es[j].next <= n /\ es[j].len \in Nat
    BY <1>a, <1>b, FollowFacts DEF Good
  <2>3. r[j].len \in Nat
    <3>1. CASE j = k
      BY <1>b, <1>2, <1>4, <2>2, <3>1 DEF Changed
    <3>2. CASE j # k
      BY <1>3, <1>4, <2>2, <3>2
    <3>. QED
      BY <3>1, <3>2
  <2>. PICK o \in Nat : o = es[j].from /\ o < n
    BY <2>2
  <2>4. r[j] = Dirent(d, o) /\ Dirent(d, o).len >= 0 /\ Dirent(d, o).next <= n
    BY <1>4, <2>2, <2>3
  <2>5. Goes(d, n, o) /\ o \in 0 .. Limit
    BY <1>0, <2>4 DEF Goes
  <2>. QED
    BY <2>1, <2>4, <2>5
<1>6. Follow(d, n, 0, r) /\ Len(r) = m /\ DOMAIN r = 1 .. m
  <2>1. d \in Cells /\ r \in [1 .. m -> AllDirents(d)] /\ m \in Nat
    BY <1>1, <1>4
  <2>2. \A j \in 1 .. m : /\ r[j] = Dirent(d, StartOf(r, j, 0)) /\ StartOf(r, j, 0) \in 0 .. Limit
                          /\ Goes(d, n, StartOf(r, j, 0))
    BY <1>5
  <2>. QED
    BY <2>1, <2>2, FollowMade
<1>7. EndOf(r) = n
  <2>1. es # <<>> /\ m \in 1 .. m /\ es[m].next = n
    BY <1>a, <1>b, FollowFacts DEF Good, EndOf
  <2>2. r # <<>> /\ r[m].next = n
    BY <1>4, <1>6, <2>1
  <2>. QED
    BY <1>6, <2>2 DEF EndOf
<1>8. \A j \in 1 .. m : r[j] = IF j = k THEN Changed(es[j], name, nr) ELSE es[j]
  BY <1>a, <1>b DEF r, Replaced
<1>9. ASSUME NEW j \in 1 .. m PROVE WholeEntry(r[j])
  <2>1. WholeEntry(es[j])
    BY <1>a, <1>b DEF Good
  <2>2. CASE j = k
    <3>0. r[j] = Changed(es[k], name, nr)
      BY <1>8, <2>2
    <3>1. /\ r[j].at = es[k].at /\ r[j].next = es[k].next /\ r[j].len = es[k].len
          /\ r[j].name = NameCells(name) /\ r[j].from = r[j].at
      BY <3>0 DEF Changed
    <3>. QED
      BY <2>1, <2>2, <3>1 DEF WholeEntry
  <2>3. CASE j # k
    BY <1>8, <2>1, <2>3
  <2>. QED
    BY <2>2, <2>3
<1>10. OneEach(r)
  <2>. SUFFICES ASSUME NEW j \in 1 .. m, NEW i \in 1 .. m,
                       r[j].nr >= 0, r[i].nr >= 0, r[j].name = r[i].name
                PROVE  j = i
    BY <1>6 DEF OneEach
  <2>1. CASE j # k /\ i # k
    <3>1. r[j] = es[j] /\ r[i] = es[i] /\ j \in DOMAIN es /\ i \in DOMAIN es
      BY <1>a, <1>b, <1>8, <2>1
    <3>2. OneEach(es)
      BY DEF Good
    <3>. QED
      BY <3>1, <3>2 DEF OneEach
  <2>2. r[k].nr = nr /\ r[k].name = NameCells(name)
    <3>1. r[k] = Changed(es[k], name, nr)
      BY <1>a, <1>8
    <3>. QED
      BY <3>1 DEF Changed
  <2>3. CASE j = k /\ i # k
    <3>1. r[i] = es[i] /\ i \in DOMAIN es /\ nr >= 0
      BY <1>a, <1>b, <1>8, <2>2, <2>3
    <3>. QED
      BY <2>2, <2>3, <3>1 DEF Unused
  <2>4. CASE j # k /\ i = k
    <3>1. r[j] = es[j] /\ j \in DOMAIN es /\ nr >= 0
      BY <1>a, <1>b, <1>8, <2>2, <2>4
    <3>. QED
      BY <2>2, <2>4, <3>1 DEF Unused
  <2>. QED
    BY <2>1, <2>3, <2>4
<1>11. Good(d, n, r)
  BY <1>6, <1>7, <1>9, <1>10 DEF Good
<1>. QED
  BY <1>b, <1>1, <1>11 DEF r, d

\* An entry of a name that lies where the search stands, or in the next block if it does
\* not fit, is what the search finds.
LEMMA EntryRead ==
  ASSUME NEW c, NEW o \in Nat, NEW q \in Nat, NEW name \in Fitting, NEW nr \in Value,
         Cell(c, q) = NameLen[name], Cell(c, q + 1) = nr,
         \A k \in 1 .. NameLen[name] : Cell(c, q + 1 + k) = name,
         \/ q = o /\ o + Header + NameLen[name] < Base(o) + BlockSize
         \/ q = Base(o) + BlockSize /\ (o + Header < q => Cell(c, o) = 0)
  PROVE  /\ Dirent(c, o) = [from |-> o, at |-> q, len |-> NameLen[name], nr |-> nr,
                            name |-> NameCells(name), next |-> q + Header + NameLen[name]]
         /\ BlockOf(q) = BlockOf(q + Header + NameLen[name])
<1>a. PICK l \in Nat : l = NameLen[name] /\ l > 0 /\ Header + l < BlockSize
  BY FitFacts
<1>b. PICK b \in Nat : b = Base(o) /\ b <= o /\ o < b + BlockSize
  BY BaseFacts
<1>0. [k \in 1 .. Cell(c, q) |-> Cell(c, q + 1 + k)] = NameCells(name)
  BY DEF NameCells
<1>1. CASE q = o /\ o + Header + NameLen[name] < Base(o) + BlockSize
  <2>1. /\ b <= o + Header /\ o + Header < b + BlockSize /\ o + Header \in Nat
        /\ b <= o + Header + l /\ o + Header + l < b + BlockSize /\ o + Header + l \in Nat
    BY <1>1, <1>a, <1>b, Sizes
  <2>2. BlockOf(o + Header) = BlockOf(o)
    BY <1>b, <2>1, BaseFacts
  <2>3. BlockOf(o + Header + l) = BlockOf(o)
    BY <1>b, <2>1, BaseFacts
  <2>4. Cell(c, o) # 0
    BY <1>1, <1>a
  <2>5. Dirent(c, o) = [from |-> o, at |-> o, len |-> Cell(c, o), nr |-> Cell(c, o + 1),
                        name |-> [k \in 1 .. Cell(c, o) |-> Cell(c, o + 1 + k)],
                        next |-> o + Header + Cell(c, o)]
    BY <2>2, <2>4, DirentHere
  <2>. QED
    BY <1>0, <1>1, <1>a, <2>3, <2>5
<1>2. CASE q = Base(o) + BlockSize /\ (o + Header < q => Cell(c, o) = 0)
  <2>1. BlockOf(o + Header) = BlockOf(o) => Cell(c, o) = 0
    <3>1. BlockOf(o + Header) = BlockOf(o) => o + Header < b + BlockSize
      <4>1. o + Header \in Nat /\ BlockOf(o) \in Nat
        BY BaseFacts
      <4>2. BlockOf(o + Header) = BlockOf(o) => Base(o + Header) = b
        BY <1>b DEF Base
      <4>3. o + Header < Base(o + Header) + BlockSize
        BY <4>1, BaseFacts
      <4>. QED
        BY <4>2, <4>3
    <3>. QED
      BY <1>2, <1>b, <3>1
  <2>2. Cell(c, q) # 0
    BY <1>a
  <2>3. Dirent(c, o) = [from |-> o, at |-> q, len |-> Cell(c, q), nr |-> Cell(c, q + 1),
                        name |-> [k \in 1 .. Cell(c, q) |-> Cell(c, q + 1 + k)],
                        next |-> q + Header + Cell(c, q)]
    BY <1>2, <2>1, <2>2, DirentPadded
  <2>4. BlockOf(q) = BlockOf(o) + 1 /\ BlockOf(q + Header + l) = BlockOf(o) + 1
    <3>1. /\ b + BlockSize <= q /\ q < b + BlockSize + BlockSize /\ q \in Nat
          /\ b + BlockSize <= q + Header + l /\ q + Header + l < b + BlockSize + BlockSize
          /\ q + Header + l \in Nat
      BY <1>2, <1>a, <1>b, Sizes
    <3>. QED
      BY <1>b, <3>1, BaseFacts
  <2>. QED
    BY <1>0, <1>a, <2>3, <2>4
<1>. QED
  BY <1>1, <1>2

\* The padding.
LEMMA ZerosFacts ==
  ASSUME NEW n \in Nat
  PROVE  Zeros(n) \in Seq(Value) /\ Len(Zeros(n)) = n /\ \A k \in 1 .. n : Zeros(n)[k] = 0
BY DEF Zeros, Value

\* Two writes, one behind the other.
LEMMA TwoOf ==
  ASSUME NEW u, NEW v
  PROVE  <<u>> \o <<v>> = <<u, v>>
<1>. DEFINE S == {u, v}
            s == <<u>>
            t == <<v>>
            r == <<u, v>>
<1>1. s \in Seq(S) /\ t \in Seq(S) /\ r \in Seq(S) /\ Len(s) = 1 /\ Len(t) = 1 /\ Len(r) = 2
  OBVIOUS
<1>2. s[1] = u /\ t[1] = v /\ r[1] = u /\ r[2] = v
  OBVIOUS
<1>. HIDE DEF s, t, r, S
<1>3. /\ s \o t \in Seq(S) /\ Len(s \o t) = 2
      /\ \A i \in 1 .. 2 : (s \o t)[i] = IF i <= 1 THEN s[i] ELSE t[i - 1]
  <2>1. /\ s \o t \in Seq(S) /\ Len(s \o t) = Len(s) + Len(t)
        /\ \A i \in 1 .. Len(s) + Len(t) : (s \o t)[i] = IF i <= Len(s) THEN s[i] ELSE t[i - Len(s)]
    BY <1>1, ConcatProperties
  <2>. QED
    BY <1>1, <2>1
<1>4. (s \o t)[1] = r[1] /\ (s \o t)[2] = r[2]
  BY <1>2, <1>3
<1>5. ASSUME NEW i \in 1 .. 2 PROVE (s \o t)[i] = r[i]
  <2>1. i = 1 \/ i = 2
    OBVIOUS
  <2>. QED
    BY <1>4, <2>1
<1>6. s \o t = r
  <2>1. Len(s \o t) = Len(r) /\ \A i \in 1 .. Len(s \o t) : (s \o t)[i] = r[i]
    BY <1>1, <1>3, <1>5
  <2>. QED
    BY <1>1, <1>3, <2>1, SeqEqual, Zenon
<1>. QED
  BY <1>6 DEF s, t, r

\* What testfs_write_dirent writes.
LEMMA WriteDirentIs ==
  ASSUME NEW o \in Nat, NEW name \in Fitting, NEW nr \in Value
  PROVE  /\ o + (Header + NameLen[name]) < Base(o) + BlockSize =>
              WriteDirent(name, nr, o) = <<[at |-> o, data |-> EntryCells(name, nr)]>>
         /\ o + (Header + NameLen[name]) >= Base(o) + BlockSize =>
              WriteDirent(name, nr, o) =
                <<[at |-> o, data |-> Zeros(Base(o) + BlockSize - o)],
                  [at |-> Base(o) + BlockSize, data |-> EntryCells(name, nr)]>>
<1>a. PICK t \in Nat : t = Header + NameLen[name] /\ t < BlockSize /\ t > 0
  BY FitFacts
<1>b. PICK b \in Nat : b = Base(o) /\ b <= o /\ o < b + BlockSize
  BY BaseFacts
<1>c. PICK data : data = EntryCells(name, nr) /\ data \in Seq(Value) /\ Len(data) = t
  BY <1>a, EntryFacts
<1>0. data # <<>>
  BY <1>a, <1>c
<1>1. WriteDirent(name, nr, o) =
        IF BlockOf(o + t) > BlockOf(o)
        THEN Writes(o, Zeros(BlockOf(o + t) * BlockSize - o)) \o Writes(BlockOf(o + t) * BlockSize, data)
        ELSE Writes(o, data)
  BY <1>a, <1>c DEF WriteDirent, Crosses, Padding
<1>2. CASE o + t < b + BlockSize
  <2>1. ~(BlockOf(o + t) > BlockOf(o))
    <3>1. ~(o + t >= Base(o) + BlockSize)
      BY <1>2, <1>b, Sizes
    <3>. QED
      BY <1>a, <3>1, StepAhead
  <2>2. Writes(o, data) = <<[at |-> o, data |-> data]>>
    <3>1. o + Len(data) <= Base(o) + BlockSize
      BY <1>2, <1>b, <1>c, Sizes
    <3>. QED
      BY <1>0, <1>c, <3>1, OneWrite
  <2>3. WriteDirent(name, nr, o) = <<[at |-> o, data |-> data]>>
    BY <1>1, <2>1, <2>2
  <2>4. ~(o + (Header + NameLen[name]) >= Base(o) + BlockSize)
    BY <1>2, <1>a, <1>b, Sizes
  <2>. QED
    BY <1>c, <2>3, <2>4
<1>3. CASE o + t >= b + BlockSize
  <2>a. PICK q \in Nat : q = b + BlockSize
    BY Sizes
  <2>1. BlockOf(o + t) > BlockOf(o) /\ BlockOf(o + t) * BlockSize = q
    BY <1>3, <1>a, <1>b, <2>a, StepAhead
  <2>2. Writes(o, Zeros(q - o)) = <<[at |-> o, data |-> Zeros(q - o)]>>
    <3>1. q - o \in Nat /\ q - o > 0
      BY <1>b, <2>a
    <3>2. Zeros(q - o) \in Seq(Value) /\ Len(Zeros(q - o)) = q - o
      BY <3>1, ZerosFacts
    <3>a. PICK zs : zs = Zeros(q - o)
      OBVIOUS
    <3>3. zs \in Seq(Value) /\ zs # <<>> /\ o + Len(zs) <= Base(o) + BlockSize
      BY <1>b, <2>a, <3>1, <3>2, <3>a
    <3>4. Writes(o, zs) = <<[at |-> o, data |-> zs]>>
      BY <3>3, OneWrite
    <3>. QED
      BY <3>4, <3>a
  <2>3. Writes(q, data) = <<[at |-> q, data |-> data]>>
    <3>1. Base(q) = q
      <4>1. Base(o) + BlockSize <= q /\ q < Base(o) + BlockSize + BlockSize
        BY <1>b, <2>a, Sizes
      <4>2. Base(q) = Base(o) + BlockSize
        BY <4>1, BaseFacts
      <4>. QED
        BY <1>b, <2>a, <4>2
    <3>2. q + Len(data) <= Base(q) + BlockSize
      BY <1>a, <1>c, <2>a, <3>1, Sizes
    <3>. QED
      BY <1>0, <1>c, <3>2, OneWrite
  <2>4. WriteDirent(name, nr, o) = <<[at |-> o, data |-> Zeros(q - o)]>> \o <<[at |-> q, data |-> data]>>
    BY <1>1, <2>1, <2>2, <2>3
  <2>5. WriteDirent(name, nr, o) = <<[at |-> o, data |-> Zeros(q - o)], [at |-> q, data |-> data]>>
    <3>. DEFINE u == [at |-> o, data |-> Zeros(q - o)]
                v == [at |-> q, data |-> data]
    <3>. HIDE DEF u, v
    <3>1. <<u>> \o <<v>> = <<u, v>>
      BY TwoOf
    <3>. QED
      BY <2>4, <3>1 DEF u, v
  <2>6. ~(o + (Header + NameLen[name]) < Base(o) + BlockSize)
    BY <1>3, <1>a, <1>b, Sizes
  <2>7. q = Base(o) + BlockSize /\ data = EntryCells(name, nr)
    BY <1>b, <1>c, <2>a
  <2>8. WriteDirent(name, nr, o) = <<[at |-> o, data |-> Zeros(Base(o) + BlockSize - o)],
                                     [at |-> Base(o) + BlockSize, data |-> EntryCells(name, nr)]>>
    <3>1. [at |-> o, data |-> Zeros(q - o)] = [at |-> o, data |-> Zeros(Base(o) + BlockSize - o)]
      <4>1. q - o = Base(o) + BlockSize - o
        BY <1>b, <2>7, Sizes
      <4>. QED
        BY <4>1, Zenon
    <3>2. [at |-> q, data |-> data] = [at |-> Base(o) + BlockSize, data |-> EntryCells(name, nr)]
      BY <2>7
    <3>. QED
      BY <2>5, <3>1, <3>2
  <2>. QED
    BY <2>6, <2>8
<1>. QED
  BY <1>2, <1>3, <1>a, <1>b

\* A directory in order has the entries that the search finds.
LEMMA GoodIs ==
  ASSUME NEW c \in Cells, NEW n \in 0 .. Limit, NEW es, Good(c, n, es)
  PROVE  Dirents(c, n) = es
BY ChainUnique DEF Good, IsChain
-----------------------------------------------------------------------------
(* The inductive invariant.                                                *)

Es        == Dirents(cells, dsize)
NewNr     == IF job.op = "create" THEN job.nr ELSE Removed
Total     == Header + NameLen[job.name]
NextBase  == Base(dsize) + BlockSize
EntryAt(q) == [at |-> q, data |-> EntryCells(job.name, NewNr)]

\* The directory on the disk is in order, whenever the process dies.
InOrder ==
  /\ EndOf(Es) = dsize
  /\ \A k \in DOMAIN Es : WholeEntry(Es[k])
  /\ OneEach(Es)

\* Between two commands nothing is on its way.
Settled ==
  /\ pc = "idle" <=> job = NoJob
  /\ pc \in {"idle", "answer", "refused"} => size = dsize /\ todo = <<>>
  /\ pc # "lost"

\* What is to be written is one entry, over one of the same length that is where the search
\* for it stood,
Overwrites(k) ==
  /\ size = dsize /\ Es[k].from = Es[k].at /\ Es[k].len = NameLen[job.name]
  /\ todo = <<EntryAt(Es[k].at)>>
  /\ IF job.op = "create" THEN Es[k].nr < 0 ELSE Named(Es[k], job.name)

\* or behind the last one, in its block,
Appends ==
  /\ size = dsize /\ dsize + Total < NextBase /\ dsize + Total <= Limit
  /\ todo = <<EntryAt(dsize)>>

\* or in the next block, with zeros before it.
Pads ==
  /\ dsize + Total >= NextBase /\ NextBase + Total <= Limit
  /\ \/ /\ size = dsize
        /\ todo = <<[at |-> dsize, data |-> Zeros(NextBase - dsize)], EntryAt(NextBase)>>
     \/ /\ size = NextBase /\ todo = <<EntryAt(NextBase)>>
        /\ \A x \in dsize .. (NextBase - 1) : Cell(cells, x) = 0

\* The command may be done: its name fits, and is new or may be removed.
Granted ==
  /\ job.name \in Fitting
  /\ IF job.op = "create" THEN job.nr \in Numbers /\ Unused(Es, NameCells(job.name))
     ELSE job.name \notin {Dot, DotDot}

Pending ==
  pc = "write" => /\ Granted
                  /\ \/ \E k \in DOMAIN Es : Overwrites(k)
                     \/ job.op = "create" /\ (Appends \/ Pads)

\* A new entry is on the disk, and the size that covers it is not.
Uncovered(e) ==
  /\ job.op = "create" /\ job.nr \in Numbers /\ Unused(Es, NameCells(job.name))
  /\ e.len > 0 /\ e.next = size /\ e.nr = job.nr /\ e.name = NameCells(job.name)
  /\ WholeEntry(e)
Synced == pc = "sync" => todo = <<>> /\ (size = dsize \/ Uncovered(Dirent(cells, dsize)))

\* A command that is refused has a reason.
Declined ==
  pc = "refused" => IF job.op = "create" THEN ~Unused(Es, NameCells(job.name))
                    ELSE job.name \in {Dot, DotDot} \/ Unused(Es, NameCells(job.name))

DirInv == TypeOK /\ InOrder /\ Settled /\ Pending /\ Synced /\ Declined

-----------------------------------------------------------------------------
(* It holds in every state.                                                *)

\* What InOrder says, of the sequence of entries.
LEMMA InOrderIs ==
  ASSUME cells \in Cells, dsize \in 0 .. Limit
  PROVE  InOrder <=> Good(cells, dsize, Es)
BY DirentsChain DEF InOrder, Good, Es

\* No entry at all is in order.
LEMMA EmptyGood == ASSUME NEW c \in Cells PROVE Good(c, 0, <<>>)
<1>1. <<>> \in Seq(AllDirents(c)) /\ DOMAIN <<>> = {}
  OBVIOUS
<1>. QED
  BY <1>1 DEF Good, Follow, EndOf, OneEach

\* An entry of a name behind the last one, or in the next block, is one more.
LEMMA GoodMore ==
  ASSUME NEW c \in Cells, NEW n \in 0 .. Limit, NEW es, Good(c, n, es),
         NEW q \in Nat, NEW name \in Fitting, NEW nr \in Nat,
         q + Header + NameLen[name] <= Limit,
         Unused(es, NameCells(name)),
         Cell(c, q) = NameLen[name], Cell(c, q + 1) = nr,
         \A k \in 1 .. NameLen[name] : Cell(c, q + 1 + k) = name,
         \/ q = n /\ n + Header + NameLen[name] < Base(n) + BlockSize
         \/ q = Base(n) + BlockSize /\ (n + Header < q => Cell(c, n) = 0)
  PROVE  /\ Good(c, q + Header + NameLen[name], Append(es, Dirent(c, n)))
         /\ Dirent(c, n) = [from |-> n, at |-> q, len |-> NameLen[name], nr |-> nr,
                            name |-> NameCells(name), next |-> q + Header + NameLen[name]]
         /\ WholeEntry(Dirent(c, n))
<1>a. PICK e : e = Dirent(c, n)
  OBVIOUS
<1>0. n \in Nat /\ nr \in Value
  BY Sizes DEF Value
<1>1. /\ Dirent(c, n) = [from |-> n, at |-> q, len |-> NameLen[name], nr |-> nr,
                         name |-> NameCells(name), next |-> q + Header + NameLen[name]]
      /\ BlockOf(q) = BlockOf(q + Header + NameLen[name])
  BY <1>0, EntryRead
<1>2. /\ e.from = n /\ e.at = q /\ e.len = NameLen[name] /\ e.nr = nr
      /\ e.name = NameCells(name) /\ e.next = q + Header + NameLen[name]
  BY <1>1, <1>a
<1>3. WholeEntry(e)
  BY <1>1, <1>2 DEF WholeEntry
<1>4. e.len > 0 /\ e.next <= Limit /\ Unused(es, e.name)
  BY <1>2, FitFacts
<1>5. Good(c, e.next, Append(es, e))
  BY <1>3, <1>4, <1>a, GoodAppend
<1>. QED
  BY <1>1, <1>2, <1>3, <1>5, <1>a

\* The entries of an empty directory.
FirstTwo(es) ==
  /\ Len(es) = 2
  /\ es[1].name = NameCells(Dot) /\ es[1].nr = Self
  /\ es[2].name = NameCells(DotDot) /\ es[2].nr = Self

\* The directory that testfs_create_empty_dir leaves.
LEMMA FirstEntries ==
  ASSUME NEW c \in Cells, NEW s \in Nat, NEW t \in Nat, t = Header + NameLen[Dot],
         s = IF Crosses(t, Header + NameLen[DotDot]) THEN BlockSize ELSE t,
         s + Header + NameLen[DotDot] <= Limit,
         Cell(c, 0) = NameLen[Dot], Cell(c, 1) = Self,
         \A k \in 1 .. NameLen[Dot] : Cell(c, 1 + k) = Dot,
         Cell(c, s) = NameLen[DotDot], Cell(c, s + 1) = Self,
         \A k \in 1 .. NameLen[DotDot] : Cell(c, s + 1 + k) = DotDot,
         \A x \in t .. (s - 1) : Cell(c, x) = 0
  PROVE  \E es : Good(c, s + Header + NameLen[DotDot], es) /\ FirstTwo(es)
<1>a. PICK u \in Nat, v \in Nat :
        /\ u = NameLen[Dot] /\ u > 0 /\ v = NameLen[DotDot] /\ v > 0
        /\ 2 + u < BlockSize /\ 2 + v < BlockSize
  BY DotNames, FitFacts
<1>b. Dot \in Fitting /\ DotDot \in Fitting /\ 0 \in 0 .. Limit /\ Dot # DotDot
  BY DotNames, Sizes, DirLayoutAssumption
<1>1. Base(0) = 0 /\ Base(t) = 0
  <2>1. BlockOf(0) = 0
    BY Sizes, Between, 0 * BlockSize = 0
  <2>2. Base(0) = 0
    BY <2>1, Sizes DEF Base
  <2>3. Base(0) <= t /\ t < Base(0) + BlockSize
    BY <1>a, <2>2, Sizes
  <2>. QED
    BY <2>2, <2>3, BaseFacts
<1>2. s = IF t + (2 + v) >= BlockSize THEN BlockSize ELSE t
  <2>1. BlockOf(t + (2 + v)) > BlockOf(t) <=> t + (2 + v) >= Base(t) + BlockSize
    BY <1>a, StepAhead
  <2>2. Base(t) + BlockSize = BlockSize
    BY <1>1, Sizes
  <2>. QED
    BY <1>a, <2>1, <2>2 DEF Crosses
<1>c. PICK e : e = Dirent(c, 0)
  OBVIOUS
<1>3. Good(c, t, <<e>>) /\ e.name = NameCells(Dot) /\ e.nr = 0
  <2>a. PICK z \in 0 .. Limit : z = 0
    BY <1>b
  <2>b. PICK es : es = <<>>
    OBVIOUS
  <2>1. Good(c, z, es) /\ Unused(es, NameCells(Dot)) /\ z \in Nat /\ 0 \in Nat
    BY <2>a, <2>b, EmptyGood DEF Unused
  <2>2. z + Header + NameLen[Dot] <= Limit /\ z + Header + NameLen[Dot] < Base(z) + BlockSize
    BY <1>1, <1>a, <2>a, Sizes
  <2>3. /\ Cell(c, z) = NameLen[Dot] /\ Cell(c, z + 1) = 0
        /\ \A k \in 1 .. NameLen[Dot] : Cell(c, z + 1 + k) = Dot
    BY <2>a
  <2>4. /\ Good(c, z + Header + NameLen[Dot], Append(es, Dirent(c, z)))
        /\ Dirent(c, z) = [from |-> z, at |-> z, len |-> NameLen[Dot], nr |-> 0,
                           name |-> NameCells(Dot), next |-> z + Header + NameLen[Dot]]
    BY <1>b, <2>1, <2>2, <2>3, GoodMore
  <2>5. z + Header + NameLen[Dot] = t /\ Append(es, e) = <<e>> /\ Dirent(c, z) = e
    BY <1>a, <1>c, <2>a, <2>b
  <2>6. Good(c, t, <<e>>)
    BY <2>4, <2>5
  <2>. QED
    BY <2>4, <2>5, <2>6
<1>4. Unused(<<e>>, NameCells(DotDot))
  <2>1. NameCells(Dot)[1] = Dot /\ NameCells(DotDot)[1] = DotDot
    BY <1>a DEF NameCells
  <2>2. NameCells(Dot) # NameCells(DotDot)
    BY <1>b, <2>1
  <2>3. \A k \in DOMAIN <<e>> : <<e>>[k] = e
    OBVIOUS
  <2>. QED
    BY <1>3, <2>2, <2>3 DEF Unused
<1>5. \/ s = t /\ t + Header + NameLen[DotDot] < Base(t) + BlockSize
      \/ s = Base(t) + BlockSize /\ (t + Header < s => Cell(c, t) = 0)
  <2>1. CASE t + (2 + v) >= BlockSize
    <3>1. t + Header < s => t \in t .. (s - 1)
      OBVIOUS
    <3>. QED
      BY <1>1, <1>2, <2>1, <3>1, Sizes
  <2>2. CASE ~(t + (2 + v) >= BlockSize)
    BY <1>1, <1>2, <1>a, <2>2, Sizes
  <2>. QED
    BY <2>1, <2>2
<1>6. t \in 0 .. Limit
  BY <1>a, Sizes
<1>7. PICK f : f = Dirent(c, t)
  OBVIOUS
<1>8. /\ Good(c, s + Header + NameLen[DotDot], Append(<<e>>, f))
      /\ f = [from |-> t, at |-> s, len |-> NameLen[DotDot], nr |-> 0,
              name |-> NameCells(DotDot), next |-> s + Header + NameLen[DotDot]]
  BY <1>3, <1>4, <1>5, <1>6, <1>7, <1>b, GoodMore, SMTT(30)
<1>9. FirstTwo(Append(<<e>>, f))
  <2>1. f.name = NameCells(DotDot) /\ f.nr = 0
    BY <1>8
  <2>a. PICK fs : fs = Append(<<e>>, f)
    OBVIOUS
  <2>2. Len(fs) = 2 /\ fs[1] = e /\ fs[2] = f
    BY <2>a
  <2>3. FirstTwo(fs)
    BY <1>3, <2>1, <2>2 DEF FirstTwo
  <2>. QED
    BY <2>3, <2>a
<1>. QED
  BY <1>8, <1>9

\* What its cells hold.
FirstImage(s, t, v) ==
  [o \in Places |->
     IF o < t THEN (EntryCells(Dot, Self) \o EntryCells(DotDot, Self))[o + 1]
     ELSE IF o >= s /\ o < s + v THEN EntryCells(DotDot, Self)[o - s + 1] ELSE 0]

\* What is read of them.
LEMMA FirstCells ==
  ASSUME NEW s \in Nat, NEW t \in Nat, NEW v \in Nat, t <= s, s + v <= Limit,
         t = Header + NameLen[Dot], v = Header + NameLen[DotDot],
         NEW c, c = FirstImage(s, t, v)
  PROVE  /\ c \in Cells
         /\ Cell(c, 0) = NameLen[Dot] /\ Cell(c, 1) = Self
         /\ \A k \in 1 .. NameLen[Dot] : Cell(c, 1 + k) = Dot
         /\ Cell(c, s) = NameLen[DotDot] /\ Cell(c, s + 1) = Self
         /\ \A k \in 1 .. NameLen[DotDot] : Cell(c, s + 1 + k) = DotDot
         /\ \A x \in t .. (s - 1) : Cell(c, x) = 0
<1>0. Dot \in Fitting /\ DotDot \in Fitting /\ 0 \in Value
  BY DotNames DEF Value
<1>c. PICK one, two : one = EntryCells(Dot, 0) /\ two = EntryCells(DotDot, 0)
  OBVIOUS
<1>d. /\ one \in Seq(Value) /\ Len(one) = Header + NameLen[Dot]
      /\ one[1] = NameLen[Dot] /\ one[2] = 0 /\ \A k \in 1 .. NameLen[Dot] : one[k + 2] = Dot
  BY <1>0, <1>c, EntryFacts
<1>e. /\ two \in Seq(Value) /\ Len(two) = Header + NameLen[DotDot]
      /\ two[1] = NameLen[DotDot] /\ two[2] = 0
      /\ \A k \in 1 .. NameLen[DotDot] : two[k + 2] = DotDot
  BY <1>0, <1>c, EntryFacts
<1>a. /\ one = EntryCells(Dot, 0) /\ two = EntryCells(DotDot, 0)
      /\ one \in Seq(Value) /\ two \in Seq(Value) /\ Len(one) = t /\ Len(two) = v
      /\ one[1] = NameLen[Dot] /\ one[2] = 0
      /\ two[1] = NameLen[DotDot] /\ two[2] = 0
      /\ \A k \in 1 .. NameLen[Dot] : one[k + 2] = Dot
      /\ \A k \in 1 .. NameLen[DotDot] : two[k + 2] = DotDot
  BY <1>c, <1>d, <1>e
<1>b. NameLen[Dot] \in Nat /\ NameLen[Dot] > 0 /\ NameLen[DotDot] \in Nat /\ NameLen[DotDot] > 0
  BY <1>0, FitFacts
<1>1. ASSUME NEW i \in 1 .. t PROVE (one \o two)[i] = one[i]
  <2>1. \A j \in 1 .. Len(one) + Len(two) :
          (one \o two)[j] = IF j <= Len(one) THEN one[j] ELSE two[j - Len(one)]
    BY <1>a, ConcatProperties
  <2>. QED
    BY <1>a, <2>1
<1>2. c = [o \in Places |-> IF o < t THEN (one \o two)[o + 1]
                            ELSE IF o >= s /\ o < s + v THEN two[o - s + 1] ELSE 0]
  BY <1>a DEF FirstImage
<1>3. Places = 0 .. (Limit - 1) /\ Limit \in Nat
  BY Sizes DEF Places
<1>4. ASSUME NEW o \in Places
      PROVE  c[o] \in Value /\ c[o] = IF o < t THEN one[o + 1]
                                      ELSE IF o >= s /\ o < s + v THEN two[o - s + 1] ELSE 0
  <2>0. o \in Nat
    BY <1>3
  <2>1. CASE o < t
    <3>1. o + 1 \in 1 .. t
      BY <2>0, <2>1
    <3>. QED
      BY <1>1, <1>2, <1>a, <2>1, <3>1
  <2>2. CASE ~(o < t) /\ o >= s /\ o < s + v
    <3>1. o - s + 1 \in 1 .. v
      BY <2>0, <2>2
    <3>. QED
      BY <1>2, <1>a, <2>2, <3>1
  <2>3. CASE ~(o < t) /\ ~(o >= s /\ o < s + v)
    BY <1>0, <1>2, <2>3
  <2>. QED
    BY <2>1, <2>2, <2>3
<1>5. c \in Cells
  BY <1>2, <1>4 DEF Cells
<1>6. \A o \in Places : Cell(c, o) = c[o]
  BY DEF Cell
<1>7. ASSUME NEW i \in 1 .. t PROVE Cell(c, i - 1) = one[i]
  <2>1. i - 1 \in Places /\ i - 1 < t /\ i - 1 + 1 = i
    BY <1>3
  <2>. QED
    BY <1>4, <1>6, <2>1
<1>8. ASSUME NEW i \in 1 .. v PROVE Cell(c, s + i - 1) = two[i]
  <2>1. /\ s + i - 1 \in Places /\ ~(s + i - 1 < t) /\ s + i - 1 >= s /\ s + i - 1 < s + v
        /\ s + i - 1 - s + 1 = i
    BY <1>3
  <2>. QED
    BY <1>4, <1>6, <2>1
<1>9. ASSUME NEW k \in 1 .. NameLen[Dot] PROVE Cell(c, 1 + k) = Dot
  <2>1. k + 2 \in 1 .. t /\ k + 2 - 1 = 1 + k
    BY <1>b
  <2>. QED
    BY <1>7, <1>d, <2>1, SMTT(30)
<1>10. ASSUME NEW k \in 1 .. NameLen[DotDot] PROVE Cell(c, s + 1 + k) = DotDot
  <2>1. k + 2 \in 1 .. v /\ s + (k + 2) - 1 = s + 1 + k
    BY <1>b
  <2>. QED
    BY <1>8, <1>a, <2>1
<1>11. ASSUME NEW x \in t .. (s - 1) PROVE Cell(c, x) = 0
  <2>1. x \in Places /\ ~(x < t) /\ ~(x >= s)
    BY <1>3
  <2>. QED
    BY <1>4, <1>6, <2>1
<1>12. Cell(c, 0) = NameLen[Dot] /\ Cell(c, 1) = 0
  <2>1. 1 \in 1 .. t /\ 2 \in 1 .. t /\ 1 - 1 = 0 /\ 2 - 1 = 1
    BY <1>b
  <2>. QED
    BY <1>7, <1>a, <2>1
<1>13. Cell(c, s) = NameLen[DotDot] /\ Cell(c, s + 1) = 0
  <2>1. 1 \in 1 .. v /\ 2 \in 1 .. v /\ s + 1 - 1 = s /\ s + 2 - 1 = s + 1
    BY <1>b
  <2>. QED
    BY <1>8, <1>a, <2>1
<1>. QED
  BY <1>5, <1>9, <1>10, <1>11, <1>12, <1>13

\* It begins with the two entries of an empty directory.
LEMMA InitInv ==
  ASSUME Init
  PROVE  DirInv /\ FirstTwo(Es)
<1>0. Dot \in Fitting /\ DotDot \in Fitting /\ 0 \in Nat
  BY DotNames
<1>a. PICK t \in Nat, v \in Nat : /\ t = Header + NameLen[Dot] /\ v = Header + NameLen[DotDot]
                                  /\ t < BlockSize /\ v < BlockSize
  BY <1>0, FitFacts
<1>b. PICK s \in Nat : s = IF Crosses(t, v) THEN BlockSize ELSE t
  BY Sizes
<1>1. s + v <= Limit /\ t <= s
  BY <1>a, <1>b, Sizes
<1>2. /\ cells = [o \in Places |->
                IF o < t THEN (EntryCells(Dot, Self) \o EntryCells(DotDot, Self))[o + 1]
                ELSE IF o >= s /\ o < s + v THEN EntryCells(DotDot, Self)[o - s + 1] ELSE 0]
      /\ dsize = s + v /\ size = s + v
  <2>1. s + (2 + NameLen[DotDot]) = s + 2 + NameLen[DotDot]
    BY <1>0, FitFacts
  <2>2. /\ cells = [o \in Places |->
                IF o < t THEN (EntryCells(Dot, Self) \o EntryCells(DotDot, Self))[o + 1]
                ELSE IF o >= s /\ o < s + Header + NameLen[DotDot]
                     THEN EntryCells(DotDot, Self)[o - s + 1] ELSE 0]
        /\ dsize = s + Header + NameLen[DotDot] /\ size = dsize
    BY <1>a, <1>b DEF Init
  <2>. QED
    BY <1>a, <2>1, <2>2
<1>3. /\ cells \in Cells
      /\ Cell(cells, 0) = NameLen[Dot] /\ Cell(cells, 1) = Self
      /\ \A k \in 1 .. NameLen[Dot] : Cell(cells, 1 + k) = Dot
      /\ Cell(cells, s) = NameLen[DotDot] /\ Cell(cells, s + 1) = Self
      /\ \A k \in 1 .. NameLen[DotDot] : Cell(cells, s + 1 + k) = DotDot
      /\ \A x \in t .. (s - 1) : Cell(cells, x) = 0
  <2>1. s + v <= Limit /\ t <= s /\ t = Header + NameLen[Dot] /\ v = Header + NameLen[DotDot]
    BY <1>1, <1>a
  <2>2. cells = FirstImage(s, t, v)
    BY <1>2 DEF FirstImage
  <2>. QED
    BY <2>1, <2>2, FirstCells
<1>4. \E es : Good(cells, dsize, es) /\ FirstTwo(es)
  <2>1. s = IF Crosses(t, Header + NameLen[DotDot]) THEN BlockSize ELSE t
    BY <1>a, <1>b
  <2>2. s + Header + NameLen[DotDot] = s + v
    BY <1>0, <1>a, FitFacts
  <2>. QED
    BY <1>1, <1>2, <1>3, <1>a, <2>1, <2>2, FirstEntries
<1>5. dsize \in 0 .. Limit
  BY <1>1, <1>2, Sizes
<1>6. InOrder /\ FirstTwo(Es)
  <2>1. PICK es : Good(cells, dsize, es) /\ FirstTwo(es)
    BY <1>4
  <2>2. Es = es
    BY <1>3, <1>5, <2>1, GoodIs DEF Es
  <2>. QED
    BY <1>3, <1>5, <2>1, <2>2, InOrderIs
<1>7. TypeOK
  <2>1. cells \in [Places -> Value] /\ was = cells /\ size \in 0 .. Limit /\ ncmd \in Nat
        /\ spoiled \in BOOLEAN
    BY <1>2, <1>3, <1>5 DEF Init, Cells
  <2>2. todo \in Seq(Write) /\ pc = "idle" /\ ret = "ok" /\ job \in Job
    BY DEF Init, Job
  <2>. QED
    BY <1>5, <2>1, <2>2 DEF TypeOK
<1>8. Settled /\ Pending /\ Synced /\ Declined
  BY <1>2 DEF Init, Settled, Pending, Synced, Declined
<1>. QED
  BY <1>6, <1>7, <1>8 DEF DirInv

\* The first of a set of positions is one of them.
LEMMA FirstIs ==
  ASSUME NEW ks \in SUBSET Nat, ks # {}
  PROVE  First(ks) \in ks
<1>1. \E k \in ks : \A j \in ks : k <= j
  BY LeastNat
<1>. QED
  BY <1>1 DEF First

\* No entry is found for a name that none has.
LEMMA FoundIs ==
  ASSUME NEW es, NEW name
  PROVE  Found(es, name) = {} <=> Unused(es, NameCells(name))
BY DEF Found, Unused, Named

\* What the invariant says between two commands.
LEMMA IdleFacts ==
  ASSUME DirInv, pc = "idle"
  PROVE  /\ job = NoJob /\ size = dsize /\ todo = <<>> /\ Dirents(cells, size) = Es
         /\ cells \in Cells /\ dsize \in 0 .. Limit /\ dsize \in Nat /\ Good(cells, dsize, Es)
<1>1. job = NoJob /\ size = dsize /\ todo = <<>>
  BY DEF DirInv, Settled
<1>2. cells \in Cells /\ dsize \in 0 .. Limit /\ dsize \in Nat
  BY Sizes DEF DirInv, TypeOK, Cells
<1>. QED
  BY <1>1, <1>2, InOrderIs DEF DirInv, Es

\* The entries stay what they are if the data and the size of it do.
LEMMA SameEs ==
  ASSUME InOrder, cells' = cells, dsize' = dsize
  PROVE  InOrder' /\ Es' = Es
BY DEF InOrder, Es

\* An entry for a new name is planned over a removed one or behind the last.
LEMMA CreatePlan ==
  ASSUME DirInv, pc = "idle", NEW name \in Fitting, NEW nr \in Numbers, Unused(Es, NameCells(name)),
         job' = [op |-> "create", name |-> name, nr |-> nr],
         NEW spoils, Proceed(WriteDirent(name, nr, Slot(Es, name)), spoils)
  PROVE  Pending' /\ todo' \in Seq(Write) /\ todo' # <<>>
<1>a. PICK t \in Nat : t = Header + NameLen[name] /\ t < BlockSize /\ t > 0
  BY FitFacts
<1>0. /\ size = dsize /\ cells \in Cells /\ dsize \in 0 .. Limit /\ dsize \in Nat
      /\ Good(cells, dsize, Es) /\ InOrder
  BY IdleFacts DEF DirInv
<1>1. /\ cells' = cells /\ dsize' = dsize /\ size' = size /\ pc' = "write"
      /\ todo' = WriteDirent(name, nr, Slot(Es, name))
      /\ \A k \in DOMAIN todo' : todo'[k].at + Len(todo'[k].data) <= Limit
  BY DEF Proceed
<1>2. Es' = Es
  BY <1>0, <1>1, SameEs
<1>b. PICK data : data = EntryCells(name, nr) /\ data \in Seq(Value) /\ Len(data) = t
  <2>1. nr \in Value
    BY DirLayoutAssumption DEF Value
  <2>. QED
    BY <1>a, <2>1, EntryFacts
<1>3. /\ NewNr' = nr /\ Total' = t /\ job'.name = name /\ job'.op = "create"
      /\ NextBase' = Base(dsize) + BlockSize
      /\ \A q : EntryAt(q)' = [at |-> q, data |-> data]
  BY <1>1, <1>a, <1>b DEF NewNr, Total, EntryAt, NextBase, Base, BlockOf
<1>4. Granted'
  BY <1>2, <1>3 DEF Granted
<1>c. PICK b \in Nat : b = Base(dsize) /\ b <= dsize /\ dsize < b + BlockSize
  BY <1>0, BaseFacts
<1>5. CASE Reusable(Es, name) # {}
  <2>a. PICK k \in Reusable(Es, name) : Slot(Es, name) = Es[k].from
    <3>1. Reusable(Es, name) \in SUBSET Nat
      BY <1>0, FollowFacts DEF Reusable, Good
    <3>. QED
      BY <1>5, <3>1, FirstIs DEF Slot
  <2>1. k \in DOMAIN Es /\ Es[k].nr < 0 /\ Es[k].len = NameLen[name]
    BY DEF Reusable
  <2>b. PICK o \in Nat : o = Es[k].from /\ o = Es[k].at /\ Es[k].next = o + t /\ BlockOf(o) = BlockOf(o + t)
    <3>1. Es[k].from = Es[k].at /\ BlockOf(Es[k].at) = BlockOf(Es[k].next)
      BY <1>0, <2>1 DEF Good, WholeEntry
    <3>2. Es[k].from \in Nat /\ Es[k].next = Es[k].at + Header + Es[k].len
      <4>1. Follow(cells, dsize, 0, Es)
        BY <1>0 DEF Good
      <4>2. k \in 1 .. Len(Es)
        BY <1>0, <2>1, <4>1, FollowFacts
      <4>. QED
        BY <1>0, <4>1, <4>2, FollowFacts
    <3>3. Es[k].next = Es[k].at + t
      BY <1>a, <2>1, <3>1, <3>2, FitFacts
    <3>. QED
      BY <3>1, <3>2, <3>3
  <2>2. o + (Header + NameLen[name]) < Base(o) + BlockSize
    <3>1. o + t \in Nat /\ o + t < Base(o + t) + BlockSize
      BY BaseFacts
    <3>. QED
      BY <1>a, <2>b, <3>1 DEF Base
  <2>3. todo' = <<[at |-> o, data |-> data]>>
    <3>1. nr \in Value
      BY DirLayoutAssumption DEF Value
    <3>2. todo' = <<[at |-> o, data |-> EntryCells(name, nr)]>>
      BY <1>1, <1>a, <2>2, <2>a, <2>b, <3>1, WriteDirentIs
    <3>. QED
      BY <1>b, <3>2
  <2>4. Overwrites(k)'
    BY <1>0, <1>1, <1>2, <1>3, <2>1, <2>3, <2>b DEF Overwrites
  <2>5. Pending'
    BY <1>2, <1>4, <2>1, <2>4 DEF Pending
  <2>6. todo' \in Seq(Write) /\ todo' # <<>>
    BY <1>b, <2>3 DEF Write
  <2>. QED
    BY <2>5, <2>6
<1>6. CASE Reusable(Es, name) = {}
  <2>0. Slot(Es, name) = dsize /\ nr \in Value
    BY <1>0, <1>6, DirLayoutAssumption DEF Slot, Good, Value
  <2>1. CASE dsize + t < b + BlockSize
    <3>1. todo' = <<[at |-> dsize, data |-> data]>>
      <4>1. dsize + (Header + NameLen[name]) < Base(dsize) + BlockSize
        BY <1>a, <1>c, <2>1
      <4>. QED
        BY <1>0, <1>1, <1>a, <1>b, <2>0, <4>1, WriteDirentIs
    <3>2. dsize + t <= Limit
      <4>1. 1 \in DOMAIN todo' /\ todo'[1] = [at |-> dsize, data |-> data]
        BY <3>1
      <4>. QED
        BY <1>1, <1>b, <4>1
    <3>3. Appends'
      BY <1>0, <1>1, <1>3, <1>c, <2>1, <3>1, <3>2 DEF Appends
    <3>4. Pending'
      BY <1>3, <1>4, <3>3 DEF Pending
    <3>5. todo' \in Seq(Write) /\ todo' # <<>>
      BY <1>0, <1>b, <3>1 DEF Write
    <3>. QED
      BY <3>4, <3>5
  <2>2. CASE ~(dsize + t < b + BlockSize)
    <3>a. PICK q \in Nat : q = b + BlockSize
      BY Sizes
    <3>b. PICK zs : zs = Zeros(q - dsize) /\ zs \in Seq(Value)
      <4>1. q - dsize \in Nat
        BY <1>0, <1>c, <3>a, Sizes
      <4>. QED
        BY <4>1, ZerosFacts
    <3>1. todo' = <<[at |-> dsize, data |-> zs], [at |-> q, data |-> data]>>
      <4>1. dsize + (Header + NameLen[name]) >= Base(dsize) + BlockSize
        BY <1>0, <1>a, <1>c, <2>2, Sizes
      <4>2. todo' = <<[at |-> dsize, data |-> Zeros(Base(dsize) + BlockSize - dsize)],
                      [at |-> Base(dsize) + BlockSize, data |-> EntryCells(name, nr)]>>
        BY <1>0, <1>1, <1>a, <2>0, <4>1, WriteDirentIs
      <4>3. q = Base(dsize) + BlockSize
        BY <1>c, <3>a
      <4>4. Base(dsize) + BlockSize - dsize = q - dsize
        BY <1>0, <1>c, <4>3, Sizes
      <4>5. /\ [at |-> dsize, data |-> Zeros(Base(dsize) + BlockSize - dsize)] = [at |-> dsize, data |-> zs]
            /\ [at |-> Base(dsize) + BlockSize, data |-> EntryCells(name, nr)] = [at |-> q, data |-> data]
        <5>1. Zeros(Base(dsize) + BlockSize - dsize) = zs
          BY <3>b, <4>4, Zenon
        <5>. QED
          BY <1>b, <4>3, <5>1
      <4>. QED
        BY <4>2, <4>5
    <3>2. q + t <= Limit
      <4>1. 2 \in DOMAIN todo' /\ todo'[2] = [at |-> q, data |-> data]
        BY <3>1
      <4>. QED
        BY <1>1, <1>b, <4>1
    <3>3. Pads'
      <4>1. NextBase' = q /\ todo' = <<[at |-> dsize', data |-> Zeros(NextBase' - dsize')], EntryAt(NextBase)'>>
        BY <1>1, <1>3, <1>c, <3>1, <3>a, <3>b DEF EntryAt
      <4>2. dsize' + Total' >= NextBase' /\ NextBase' + Total' <= Limit /\ size' = dsize'
        BY <1>0, <1>1, <1>3, <2>2, <3>2, <3>a, <4>1, Sizes
      <4>. QED
        BY <4>1, <4>2 DEF Pads
    <3>4. Pending'
      BY <1>3, <1>4, <3>3 DEF Pending
    <3>5. todo' \in Seq(Write) /\ todo' # <<>>
      BY <1>0, <1>b, <3>1, <3>b DEF Write
    <3>. QED
      BY <3>4, <3>5
  <2>. QED
    BY <2>1, <2>2
<1>. QED
  BY <1>5, <1>6

\* A command that is refused changes nothing.
LEMMA RefusePlan ==
  ASSUME DirInv, pc = "idle", Refuse
  PROVE  /\ cells' = cells /\ dsize' = dsize /\ size' = dsize' /\ todo' = <<>> /\ pc' = "refused"
         /\ Es' = Es /\ spoiled' = spoiled
BY IdleFacts, SameEs DEF Refuse, DirInv

\* What remains to be shown of a command that starts.
LEMMA StartInv ==
  ASSUME DirInv, pc = "idle", NEW request \in Job, request # NoJob, Start(request),
         cells' = cells, dsize' = dsize, size' = size, ret' = ret, todo' \in Seq(Write),
         spoiled' \in BOOLEAN,
         \/ pc' = "refused" /\ todo' = <<>> /\ Declined'
         \/ pc' = "write" /\ Pending'
  PROVE  DirInv'
<1>0. size = dsize /\ InOrder /\ TypeOK
  BY IdleFacts DEF DirInv
<1>1. InOrder' /\ Es' = Es
  BY <1>0, SameEs
<1>2. job' = request /\ was' = cells /\ ncmd' = ncmd + 1
  BY DEF Start
<1>3. TypeOK'
  BY <1>0, <1>2 DEF TypeOK
<1>4. Settled' /\ Pending' /\ Synced' /\ Declined'
  BY <1>0, <1>2 DEF Settled, Pending, Synced, Declined
<1>. QED
  BY <1>1, <1>3, <1>4 DEF DirInv

\* While the entries are in order, all of them have names and the search ends where the
\* directory ends.
LEMMA InOrderRead ==
  ASSUME DirInv, pc = "idle"
  PROVE  Nameless(Es) = {} /\ Ends(Es)
<1>1. ASSUME NEW k \in DOMAIN Es PROVE Es[k].len # 0
  <2>1. WholeEntry(Es[k])
    BY <1>1 DEF DirInv, InOrder
  <2>. QED
    BY <2>1, FitFacts DEF WholeEntry
<1>2. Nameless(Es) = {}
  BY <1>1 DEF Nameless
<1>. QED
  BY <1>2, IdleFacts DEF Ends, Good

\* What a command that creates a name does, if it spoils nothing.
LEMMA StartCreateIs ==
  ASSUME DirInv, NEW name \in Names, NEW nr \in Numbers, StartCreate(name, nr), ~spoiled'
  PROVE  /\ pc = "idle" /\ Start([op |-> "create", name |-> name, nr |-> nr])
         /\ spoiled' \in BOOLEAN
         /\ \/ Found(Es, name) # {} /\ Refuse
            \/ /\ Found(Es, name) = {} /\ Fits(name)
               /\ Proceed(WriteDirent(name, nr, Slot(Es, name)), ~Fits(name))
<1>1. pc = "idle" /\ Dirents(cells, size) = Es /\ spoiled \in BOOLEAN
  <2>1. pc = "idle"
    BY DEF StartCreate, CanStart
  <2>. QED
    BY <2>1, IdleFacts DEF DirInv, TypeOK
<1>2. Start([op |-> "create", name |-> name, nr |-> nr])
  BY DEF StartCreate
<1>3. PICK odd \in SUBSET Nameless(Es) :
        IF Found(Es, name) \cup odd # {} \/ namelen + 1 > BlockSize - Header THEN Refuse
        ELSE IF ~Ends(Es) THEN Lose
        ELSE Proceed(WriteDirent(name, nr, Slot(Es, name)), ~Fits(name))
  BY <1>1, Zenon DEF StartCreate
<1>4. odd = {} /\ Ends(Es)
  BY <1>1, InOrderRead
<1>5. ~(namelen + 1 > BlockSize - Header)
  BY Sizes DEF namelen
<1>6. CASE Found(Es, name) # {}
  <2>1. Refuse
    BY <1>3, <1>4, <1>6
  <2>2. spoiled' = spoiled
    BY <2>1 DEF Refuse
  <2>. QED
    BY <1>1, <1>2, <1>6, <2>1, <2>2
<1>7. CASE Found(Es, name) = {}
  <2>1. Found(Es, name) \cup odd = {}
    BY <1>4, <1>7
  <2>2. Proceed(WriteDirent(name, nr, Slot(Es, name)), ~Fits(name))
    BY <1>3, <1>4, <1>5, <2>1
  <2>3. spoiled' = (spoiled \/ ~Fits(name))
    BY <2>2 DEF Proceed
  <2>4. spoiled' \in BOOLEAN /\ Fits(name)
    BY <2>3
  <2>. QED
    BY <1>1, <1>2, <1>7, <2>2, <2>4
<1>. QED
  BY <1>6, <1>7

\* A command that creates a name: it is refused, or its entry is planned.
LEMMA StartCreateInv ==
  ASSUME DirInv, NEW name \in Names, NEW nr \in Numbers, StartCreate(name, nr), ~spoiled'
  PROVE  DirInv'
<1>1. /\ pc = "idle" /\ Start([op |-> "create", name |-> name, nr |-> nr])
      /\ spoiled' \in BOOLEAN
      /\ \/ Found(Es, name) # {} /\ Refuse
         \/ /\ Found(Es, name) = {} /\ Fits(name)
            /\ Proceed(WriteDirent(name, nr, Slot(Es, name)), ~Fits(name))
  BY StartCreateIs
<1>2. job' = [op |-> "create", name |-> name, nr |-> nr]
  BY <1>1 DEF Start
<1>a. PICK request : request = [op |-> "create", name |-> name, nr |-> nr]
  OBVIOUS
<1>3. request \in Job /\ request # NoJob /\ request.op = "create" /\ request.name = name
  BY <1>a DEF Job, NoJob, AllNames
<1>5. CASE Found(Es, name) # {} /\ Refuse
  <2>2. Declined'
    BY <1>1, <1>2, <1>3, <1>5, <1>a, RefusePlan, FoundIs DEF Declined
  <2>3. todo' \in Seq(Write)
    BY <1>1, <1>5, RefusePlan
  <2>. QED
    BY <1>1, <1>3, <1>5, <1>a, <2>2, <2>3, StartInv DEF Refuse
<1>6. CASE /\ Found(Es, name) = {} /\ Fits(name)
           /\ Proceed(WriteDirent(name, nr, Slot(Es, name)), ~Fits(name))
  <2>1. Unused(Es, NameCells(name)) /\ name \in Fitting
    BY <1>6, FoundIs DEF Fitting, AllNames
  <2>2. Pending' /\ todo' \in Seq(Write)
    BY <1>1, <1>2, <1>6, <2>1, CreatePlan
  <2>. QED
    BY <1>1, <1>3, <1>6, <1>a, <2>2, StartInv DEF Proceed
<1>. QED
  BY <1>1, <1>5, <1>6

\* The number of an entry is overwritten where its search stood, which is where it is.
LEMMA RemovePlan ==
  ASSUME DirInv, pc = "idle", NEW name \in AllNames, name \notin {Dot, DotDot},
         NEW k \in DOMAIN Es, Named(Es[k], name), Es[k].from = Es[k].at,
         job' = [op |-> "remove", name |-> name, nr |-> Self],
         NEW spoils, Proceed(Rewrite(Es[k]), spoils)
  PROVE  Pending' /\ todo' \in Seq(Write)
<1>0. /\ size = dsize /\ cells \in Cells /\ dsize \in 0 .. Limit /\ dsize \in Nat
      /\ Good(cells, dsize, Es) /\ InOrder
  BY IdleFacts DEF DirInv
<1>1. /\ cells' = cells /\ dsize' = dsize /\ size' = size /\ pc' = "write"
      /\ todo' = Writes(Es[k].from, <<Es[k].len, Erased(Es[k].nr)>> \o Es[k].name)
  BY DEF Proceed, Rewrite
<1>2. Es' = Es
  BY <1>0, <1>1, SameEs
<1>3. /\ Es[k].len = NameLen[name] /\ Es[k].name = NameCells(name) /\ WholeEntry(Es[k])
      /\ name \in Fitting
  <2>1. Es[k].name = NameCells(name) /\ WholeEntry(Es[k])
    BY <1>0 DEF Named, Good
  <2>a. PICK other \in Fitting : Es[k].len = NameLen[other] /\ Es[k].name = NameCells(other)
    BY <2>1 DEF WholeEntry
  <2>2. NameLen[name] \in Nat /\ NameLen[name] > 0 /\ NameLen[other] \in Nat /\ NameLen[other] > 0
    BY NameFacts, FitFacts
  <2>3. NameCells(name)[1] = name /\ NameCells(other)[1] = other
    BY <2>2 DEF NameCells
  <2>. QED
    BY <2>1, <2>a, <2>3
<1>a. PICK t \in Nat : t = Header + NameLen[name] /\ t < BlockSize /\ t > 0
  BY <1>3, FitFacts
<1>b. PICK data : data = EntryCells(name, Removed) /\ data \in Seq(Value) /\ Len(data) = t
  BY <1>3, <1>a, EntryFacts DEF Value
<1>4. <<Es[k].len, Erased(Es[k].nr)>> \o Es[k].name = data
  BY <1>3, <1>b DEF EntryCells, Erased
<1>c. PICK o \in Nat : o = Es[k].from /\ o = Es[k].at /\ Es[k].next = o + t /\ BlockOf(o) = BlockOf(o + t)
  <2>1. Es[k].from = Es[k].at /\ BlockOf(Es[k].at) = BlockOf(Es[k].next)
    BY <1>3 DEF WholeEntry
  <2>2. Es[k].from \in Nat /\ Es[k].next = Es[k].at + Header + Es[k].len
    BY <1>0, FollowFacts DEF Good
  <2>3. Es[k].next = Es[k].at + t
    BY <1>3, <1>a, <2>1, <2>2, FitFacts
  <2>. QED
    BY <2>1, <2>2, <2>3
<1>5. o + t < Base(o) + BlockSize
  <2>1. o + t \in Nat /\ o + t < Base(o + t) + BlockSize
    BY BaseFacts
  <2>. QED
    BY <1>c, <2>1 DEF Base
<1>6. todo' = <<[at |-> o, data |-> data]>>
  <2>0. Base(o) \in Nat
    BY BaseFacts
  <2>1. data # <<>> /\ o + Len(data) <= Base(o) + BlockSize
    BY <1>5, <1>a, <1>b, <2>0, Sizes
  <2>2. Writes(o, data) = <<[at |-> o, data |-> data]>>
    BY <1>b, <2>1, OneWrite
  <2>. QED
    BY <1>1, <1>4, <1>c, <2>2
<1>7. /\ NewNr' = Removed /\ job'.name = name /\ job'.op = "remove"
      /\ \A q : EntryAt(q)' = [at |-> q, data |-> data]
  BY <1>b DEF NewNr, EntryAt
<1>8. Overwrites(k)'
  BY <1>0, <1>1, <1>2, <1>3, <1>6, <1>7, <1>c DEF Overwrites
<1>9. Pending'
  BY <1>2, <1>3, <1>7, <1>8 DEF Pending, Granted
<1>10. todo' \in Seq(Write)
  BY <1>6, <1>b DEF Write
<1>. QED
  BY <1>9, <1>10

\* What a command that removes a name does, if it spoils nothing.
LEMMA StartRemoveIs ==
  ASSUME DirInv, NEW name \in AllNames, StartRemove(name), ~spoiled'
  PROVE  /\ pc = "idle" /\ Start([op |-> "remove", name |-> name, nr |-> Self])
         /\ spoiled' \in BOOLEAN
         /\ \/ (name \in {Dot, DotDot} \/ Found(Es, name) = {}) /\ Refuse
            \/ /\ name \notin {Dot, DotDot}
               /\ \E k \in DOMAIN Es :
                    /\ Named(Es[k], name) /\ Es[k].from = Es[k].at
                    /\ Proceed(Rewrite(Es[k]), Es[k].from # Es[k].at)
<1>1. pc = "idle" /\ Dirents(cells, size) = Es /\ spoiled \in BOOLEAN
  <2>1. pc = "idle"
    BY DEF StartRemove, CanStart
  <2>. QED
    BY <2>1, IdleFacts DEF DirInv, TypeOK
<1>2. Start([op |-> "remove", name |-> name, nr |-> Self])
  BY DEF StartRemove
<1>3. Refuse => spoiled' = spoiled
  BY DEF Refuse
<1>4. CASE name \in {Dot, DotDot}
  <2>1. Refuse
    BY <1>4 DEF StartRemove
  <2>. QED
    BY <1>1, <1>2, <1>3, <1>4, <2>1
<1>5. CASE name \notin {Dot, DotDot}
  <2>a. PICK es : es = Es
    OBVIOUS
  <2>1. PICK odd \in SUBSET Nameless(es) :
          \/ Found(es, name) \cup odd = {} /\ Ends(es) /\ Refuse
          \/ Found(es, name) \cup odd = {} /\ ~Ends(es) /\ Lose
          \/ odd # {} /\ Refuse
          \/ /\ Found(es, name) \cup odd # {}
             /\ Proceed(Rewrite(es[First(Found(es, name) \cup odd)]),
                        es[First(Found(es, name) \cup odd)].from # es[First(Found(es, name) \cup odd)].at)
    BY <1>1, <1>5, <2>a DEF StartRemove
  <2>2. odd = {} /\ Ends(es) /\ Found(es, name) \cup odd = Found(es, name)
    BY <1>1, <2>a, InOrderRead
  <2>3. CASE Found(es, name) = {}
    <3>1. Refuse
      BY <2>1, <2>2, <2>3
    <3>. QED
      BY <1>1, <1>2, <1>3, <2>3, <2>a, <3>1
  <2>4. CASE Found(es, name) # {}
    <3>a. PICK k : k = First(Found(es, name))
      OBVIOUS
    <3>1. Proceed(Rewrite(es[k]), es[k].from # es[k].at)
      BY <2>1, <2>2, <2>4, <3>a
    <3>2. Found(es, name) \in SUBSET Nat
      BY <1>1, <2>a, IdleFacts, FollowFacts DEF Found, Good
    <3>3. k \in DOMAIN es /\ Named(es[k], name)
      BY <2>4, <3>2, <3>a, FirstIs DEF Found
    <3>4. spoiled' = (spoiled \/ es[k].from # es[k].at)
      BY <3>1 DEF Proceed
    <3>5. spoiled' \in BOOLEAN /\ es[k].from = es[k].at
      BY <3>4
    <3>. QED
      BY <1>1, <1>2, <1>5, <2>a, <3>1, <3>3, <3>5
  <2>. QED
    BY <2>3, <2>4
<1>. QED
  BY <1>4, <1>5

\* A command that removes one.
LEMMA StartRemoveInv ==
  ASSUME DirInv, NEW name \in AllNames, StartRemove(name), ~spoiled'
  PROVE  DirInv'
<1>1. /\ pc = "idle" /\ Start([op |-> "remove", name |-> name, nr |-> Self])
      /\ spoiled' \in BOOLEAN
      /\ \/ (name \in {Dot, DotDot} \/ Found(Es, name) = {}) /\ Refuse
         \/ /\ name \notin {Dot, DotDot}
            /\ \E k \in DOMAIN Es :
                 /\ Named(Es[k], name) /\ Es[k].from = Es[k].at
                 /\ Proceed(Rewrite(Es[k]), Es[k].from # Es[k].at)
  BY StartRemoveIs
<1>2. job' = [op |-> "remove", name |-> name, nr |-> Self]
  BY <1>1 DEF Start
<1>b. PICK request : request = [op |-> "remove", name |-> name, nr |-> Self]
  OBVIOUS
<1>3. request \in Job /\ request # NoJob /\ request.op = "remove" /\ request.name = name
  BY <1>b DEF Job, NoJob
<1>4. CASE (name \in {Dot, DotDot} \/ Found(Es, name) = {}) /\ Refuse
  <2>2. Declined'
    BY <1>1, <1>2, <1>3, <1>4, <1>b, RefusePlan, FoundIs DEF Declined
  <2>3. todo' \in Seq(Write)
    BY <1>1, <1>4, RefusePlan
  <2>. QED
    BY <1>1, <1>3, <1>4, <1>b, <2>2, <2>3, StartInv DEF Refuse
<1>5. ASSUME name \notin {Dot, DotDot}, NEW k \in DOMAIN Es, Named(Es[k], name),
             Es[k].from = Es[k].at, NEW spoils, Proceed(Rewrite(Es[k]), spoils)
      PROVE  DirInv'
  <2>1. Pending' /\ todo' \in Seq(Write)
    BY <1>1, <1>2, <1>5, RemovePlan
  <2>. QED
    BY <1>1, <1>3, <1>5, <1>b, <2>1, StartInv DEF Proceed
<1>. QED
  BY <1>1, <1>4, <1>5

\* The block of an entry that is overwritten is written.
LEMMA WriteOver ==
  ASSUME DirInv, pc = "write", WriteBlock, NEW k \in DOMAIN Es, Overwrites(k), Granted
  PROVE  /\ cells' \in Cells /\ Good(cells', dsize, Replaced(Es, k, job.name, NewNr))
         /\ size' = dsize /\ todo' = <<>> /\ pc' = "sync"
<1>0. /\ cells \in Cells /\ dsize \in 0 .. Limit /\ dsize \in Nat /\ Good(cells, dsize, Es)
      /\ job.name \in Fitting /\ NewNr \in Value
  <2>1. cells \in Cells /\ dsize \in 0 .. Limit /\ InOrder /\ job \in Job
    BY DEF DirInv, TypeOK, Cells
  <2>2. job.name \in Fitting /\ NewNr \in Value
    <3>1. job # NoJob
      BY DEF DirInv, Settled
    <3>. QED
      BY <2>1, <3>1, DirLayoutAssumption DEF Job, NewNr, Granted, Value
  <2>. QED
    BY <2>1, <2>2, InOrderIs, Sizes
<1>a. PICK q \in Nat, t \in Nat :
        /\ q = Es[k].at /\ t = Header + NameLen[job.name] /\ q + t <= dsize
  <2>1. Es[k].at \in Nat /\ Es[k].next = Es[k].at + Header + Es[k].len /\ Es[k].next <= dsize
    BY <1>0, FollowFacts, SMTT(30) DEF Good
  <2>2. Es[k].len = NameLen[job.name] /\ NameLen[job.name] \in Nat
    BY <1>0, FitFacts DEF Overwrites
  <2>3. Header + NameLen[job.name] \in Nat /\ Es[k].at + (Header + NameLen[job.name]) <= dsize
    BY <2>1, <2>2
  <2>. QED
    BY <2>1, <2>3
<1>b. PICK data : data = EntryCells(job.name, NewNr) /\ Len(data) = t
  BY <1>0, <1>a, EntryFacts
<1>1. todo = <<[at |-> q, data |-> data]>> /\ size = dsize
  BY <1>a, <1>b DEF Overwrites, EntryAt
<1>2. Head(todo) = [at |-> q, data |-> data] /\ Tail(todo) = <<>>
  BY <1>1
<1>3. cells' = Written(cells, q, job.name, NewNr)
  BY <1>2, <1>b DEF WriteBlock, Written, Put
<1>4. size' = dsize
  BY <1>0, <1>1, <1>2, <1>a, <1>b DEF WriteBlock, MaxOf
<1>5. todo' = <<>> /\ pc' = "sync"
  BY <1>2 DEF WriteBlock
<1>6. NewNr >= 0 => Unused(Es, NameCells(job.name))
  BY DEF NewNr, Granted
<1>7. /\ Written(cells, q, job.name, NewNr) \in Cells
      /\ Good(Written(cells, q, job.name, NewNr), dsize, Replaced(Es, k, job.name, NewNr))
  <2>1. Es[k].from = Es[k].at /\ Es[k].len = NameLen[job.name]
    BY DEF Overwrites
  <2>. QED
    BY <1>0, <1>6, <1>a, <2>1, GoodReplace
<1>. QED
  BY <1>3, <1>4, <1>5, <1>7

\* The block of a new entry is written; the directory on the disk does not reach there.
LEMMA WriteNew ==
  ASSUME DirInv, pc = "write", WriteBlock, job.op = "create", Granted,
         NEW q \in Nat, todo = <<EntryAt(q)>>, size <= q, q >= dsize, q + Total <= Limit,
         \/ q = dsize /\ dsize + Total < Base(dsize) + BlockSize
         \/ q = Base(dsize) + BlockSize /\ (dsize + Header < q => Cell(cells, dsize) = 0)
  PROVE  /\ cells' \in Cells /\ Good(cells', dsize, Es)
         /\ size' = q + Total /\ todo' = <<>> /\ pc' = "sync"
         /\ Good(cells', size', Append(Es, Dirent(cells', dsize)))
         /\ Dirent(cells', dsize) = [from |-> dsize, at |-> q, len |-> NameLen[job.name],
                                     nr |-> job.nr, name |-> NameCells(job.name), next |-> size']
         /\ WholeEntry(Dirent(cells', dsize))
<1>0. /\ cells \in Cells /\ dsize \in 0 .. Limit /\ dsize \in Nat /\ Good(cells, dsize, Es)
      /\ job.name \in Fitting /\ job.nr \in Nat /\ job.nr \in Value /\ NewNr = job.nr
      /\ Unused(Es, NameCells(job.name)) /\ size \in 0 .. Limit
  <2>1. cells \in Cells /\ dsize \in 0 .. Limit /\ InOrder /\ job \in Job /\ size \in 0 .. Limit
    BY DEF DirInv, TypeOK, Cells
  <2>2. job.name \in Fitting
    BY DEF Granted
  <2>3. job.nr \in Nat /\ job.nr \in Value /\ NewNr = job.nr /\ Unused(Es, NameCells(job.name))
    BY DirLayoutAssumption DEF Granted, NewNr, Value
  <2>. QED
    BY <2>1, <2>2, <2>3, InOrderIs, Sizes
<1>a. PICK l \in Nat, t \in Nat : l = NameLen[job.name] /\ t = 2 + l /\ t = Total
  BY <1>0, FitFacts DEF Total
<1>b. PICK data : data = EntryCells(job.name, job.nr) /\ Len(data) = t
  BY <1>0, <1>a, EntryFacts
<1>c. PICK d : d = Written(cells, q, job.name, job.nr)
  OBVIOUS
<1>1. Head(todo) = [at |-> q, data |-> data] /\ Tail(todo) = <<>>
  BY <1>0, <1>b DEF EntryAt
<1>2. cells' = d
  BY <1>1, <1>b, <1>c DEF WriteBlock, Written, Put
<1>3. size' = q + t /\ todo' = <<>> /\ pc' = "sync"
  <2>1. size' = MaxOf(size, q + t) /\ todo' = <<>> /\ pc' = "sync"
    BY <1>1, <1>b DEF WriteBlock
  <2>. QED
    BY <1>0, <1>a, <2>1 DEF MaxOf
<1>4. /\ d \in Cells
      /\ Cell(d, q) = NameLen[job.name] /\ Cell(d, q + 1) = job.nr
      /\ \A k \in 1 .. NameLen[job.name] : Cell(d, q + 1 + k) = job.name
      /\ \A x \in Nat : x < q \/ x >= q + Header + NameLen[job.name] => Cell(d, x) = Cell(cells, x)
  <2>1. q + Header + NameLen[job.name] <= Limit
    BY <1>a
  <2>. QED
    BY <1>0, <1>c, <2>1, EntryWritten
<1>5. Good(d, dsize, Es)
  <2>1. \A x \in Nat : x < dsize => Cell(d, x) = Cell(cells, x)
    BY <1>0, <1>4
  <2>. QED
    BY <1>0, <1>4, <2>1, GoodSame
<1>6. \/ q = dsize /\ dsize + Header + NameLen[job.name] < Base(dsize) + BlockSize
      \/ q = Base(dsize) + BlockSize /\ (dsize + Header < q => Cell(d, dsize) = 0)
  <2>1. CASE q = dsize /\ dsize + Total < Base(dsize) + BlockSize
    BY <1>0, <1>a, <2>1
  <2>2. CASE q = Base(dsize) + BlockSize /\ (dsize + Header < q => Cell(cells, dsize) = 0)
    <3>1. dsize < q
      BY <1>0, <2>2, BaseFacts
    <3>. QED
      BY <1>0, <1>4, <2>2, <3>1
  <2>. QED
    BY <2>1, <2>2
<1>7. /\ Good(d, q + Header + NameLen[job.name], Append(Es, Dirent(d, dsize)))
      /\ Dirent(d, dsize) = [from |-> dsize, at |-> q, len |-> NameLen[job.name], nr |-> job.nr,
                             name |-> NameCells(job.name), next |-> q + Header + NameLen[job.name]]
      /\ WholeEntry(Dirent(d, dsize))
  <2>1. q + Header + NameLen[job.name] <= Limit
    BY <1>a
  <2>. QED
    BY <1>0, <1>4, <1>5, <1>6, <2>1, GoodMore
<1>8. q + Header + NameLen[job.name] = q + t /\ size' = q + Total
  BY <1>3, <1>a
<1>. QED
  BY <1>2, <1>3, <1>4, <1>5, <1>7, <1>8

\* Zeros are written up to the end of the block.
LEMMA WritePad ==
  ASSUME DirInv, pc = "write", WriteBlock, size = dsize, Granted,
         dsize + Total >= NextBase, NextBase + Total <= Limit,
         todo = <<[at |-> dsize, data |-> Zeros(NextBase - dsize)], EntryAt(NextBase)>>
  PROVE  /\ cells' \in Cells /\ Good(cells', dsize, Es)
         /\ size' = NextBase /\ todo' = <<EntryAt(NextBase)>> /\ pc' = "write"
         /\ \A x \in dsize .. (NextBase - 1) : Cell(cells', x) = 0
<1>0. /\ cells \in Cells /\ dsize \in 0 .. Limit /\ dsize \in Nat /\ Good(cells, dsize, Es)
  <2>1. cells \in Cells /\ dsize \in 0 .. Limit /\ InOrder
    BY DEF DirInv, TypeOK, Cells
  <2>. QED
    BY <2>1, InOrderIs, Sizes
<1>a. PICK q \in Nat : q = NextBase /\ dsize < q
  BY <1>0, BaseFacts, Sizes DEF NextBase
<1>b. PICK zs : zs = Zeros(q - dsize) /\ zs \in Seq(Value) /\ Len(zs) = q - dsize
                /\ \A k \in 1 .. (q - dsize) : zs[k] = 0
  <2>1. q - dsize \in Nat
    BY <1>0, <1>a
  <2>. QED
    BY <2>1, ZerosFacts
<1>c. PICK d : d = Put(cells, [at |-> dsize, data |-> zs])
  OBVIOUS
<1>1. Head(todo) = [at |-> dsize, data |-> zs] /\ Tail(todo) = <<EntryAt(q)>>
  BY <1>a, <1>b
<1>2. cells' = d
  BY <1>1, <1>c DEF WriteBlock, Put
<1>3. size' = q /\ todo' = <<EntryAt(q)>> /\ pc' = "write"
  <2>1. size' = MaxOf(size, dsize + Len(zs)) /\ todo' = <<EntryAt(q)>> /\ pc' = "write"
    BY <1>1 DEF WriteBlock
  <2>2. dsize + Len(zs) = q
    BY <1>0, <1>a, <1>b
  <2>. QED
    BY <1>0, <1>a, <2>1, <2>2 DEF MaxOf
<1>4. /\ d \in Cells
      /\ \A x \in Nat : Cell(d, x) =
           IF dsize <= x /\ x < dsize + Len(zs) THEN zs[x - dsize + 1] ELSE Cell(cells, x)
  <2>1. Total \in Nat
    <3>1. job.name \in Fitting
      BY DEF Granted
    <3>. QED
      BY <3>1, FitFacts DEF Total
  <2>2. dsize + Len(zs) <= Limit
    BY <1>0, <1>a, <1>b, <2>1, Sizes
  <2>. QED
    BY <1>0, <1>b, <1>c, <2>2, PutFacts
<1>5. Good(d, dsize, Es)
  <2>1. \A x \in Nat : x < dsize => Cell(d, x) = Cell(cells, x)
    BY <1>0, <1>4
  <2>. QED
    BY <1>0, <1>4, <2>1, GoodSame
<1>6. ASSUME NEW x \in dsize .. (q - 1) PROVE Cell(d, x) = 0
  <2>1. x \in Nat /\ dsize <= x /\ x < dsize + Len(zs) /\ x - dsize + 1 \in 1 .. (q - dsize)
    BY <1>0, <1>a, <1>b
  <2>. QED
    BY <1>4, <1>b, <2>1
<1>. QED
  BY <1>2, <1>3, <1>4, <1>5, <1>6, <1>a

\* What a step leaves as it is.
LEMMA WriteRest ==
  ASSUME DirInv, WriteBlock
  PROVE  /\ pc = "write" /\ dsize' = dsize /\ job' = job /\ ret' = ret /\ was' = was /\ ncmd' = ncmd
         /\ spoiled' = spoiled
         /\ NewNr' = NewNr /\ Total' = Total /\ NextBase' = NextBase
         /\ \A q : EntryAt(q)' = EntryAt(q)
         /\ job # NoJob /\ Granted
         /\ job \in Job /\ job.name \in Fitting /\ Total \in Nat /\ Total = Header + NameLen[job.name]
         /\ Total < BlockSize
         /\ dsize \in 0 .. Limit /\ dsize \in Nat /\ NextBase \in Nat /\ dsize < NextBase
         /\ NextBase = Base(dsize) + BlockSize
<1>1. /\ pc = "write" /\ dsize' = dsize /\ job' = job /\ ret' = ret /\ was' = was /\ ncmd' = ncmd
      /\ spoiled' = spoiled
  BY DEF WriteBlock
<1>2. /\ NewNr' = NewNr /\ Total' = Total /\ NextBase' = NextBase
      /\ \A q : EntryAt(q)' = EntryAt(q)
  BY <1>1 DEF NewNr, Total, NextBase, EntryAt, Base, BlockOf
<1>3. job # NoJob /\ Granted /\ job \in Job /\ dsize \in 0 .. Limit
  BY <1>1 DEF DirInv, Settled, Pending, TypeOK
<1>4. job.name \in Fitting
  BY <1>3 DEF Granted
<1>5. Total \in Nat /\ Total < BlockSize /\ Total = Header + NameLen[job.name]
  BY <1>4, FitFacts DEF Total
<1>6. dsize \in Nat
  BY <1>3, Sizes
<1>7. NextBase \in Nat /\ dsize < NextBase /\ NextBase = Base(dsize) + BlockSize
  BY <1>6, BaseFacts, Sizes DEF NextBase
<1>. QED
  BY <1>1, <1>2, <1>3, <1>4, <1>5, <1>6, <1>7

\* A block write changes one entry on the disk, or none.
WroteOver == /\ pc' = "sync" /\ size' = dsize
             /\ \E k \in DOMAIN Es : Overwrites(k) /\ Es' = Replaced(Es, k, job.name, NewNr)
WroteBehind == /\ pc' = "sync" => size' > dsize
               /\ pc' \in {"write", "sync"} /\ Es' = Es

\* One block is written, of an entry in its place, of padding or of a new entry.
LEMMA WriteBlockInv ==
  ASSUME DirInv, WriteBlock
  PROVE  DirInv' /\ (WroteOver \/ WroteBehind)
<1>0. /\ pc = "write" /\ dsize' = dsize /\ job' = job /\ ret' = ret /\ was' = was /\ ncmd' = ncmd
      /\ spoiled' = spoiled
      /\ job # NoJob /\ Granted /\ dsize \in 0 .. Limit /\ dsize \in Nat
      /\ NextBase \in Nat /\ Total \in Nat /\ Total = Header + NameLen[job.name]
  BY WriteRest
<1>1. TypeOK
  BY DEF DirInv
<1>2. ASSUME cells' \in Cells, size' \in 0 .. Limit, todo' \in Seq(Write), pc' \in {"write", "sync"},
             NEW es, Good(cells', dsize, es)
      PROVE  TypeOK' /\ InOrder' /\ Settled' /\ Declined' /\ Es' = es
  <2>1. TypeOK'
    BY <1>0, <1>1, <1>2 DEF TypeOK, Cells
  <2>2. Es' = es
    BY <1>0, <1>2, GoodIs DEF Es
  <2>3. InOrder'
    BY <1>0, <1>2, <2>2 DEF InOrder, Good
  <2>. QED
    BY <1>0, <1>2, <2>1, <2>2, <2>3 DEF Settled, Declined
<1>3. ASSUME NEW k \in DOMAIN Es, Overwrites(k)
      PROVE  DirInv' /\ (WroteOver \/ WroteBehind)
  <2>1. /\ cells' \in Cells /\ Good(cells', dsize, Replaced(Es, k, job.name, NewNr))
        /\ size' = dsize /\ todo' = <<>> /\ pc' = "sync"
    BY <1>0, <1>3, WriteOver
  <2>2. TypeOK' /\ InOrder' /\ Settled' /\ Declined' /\ Es' = Replaced(Es, k, job.name, NewNr)
    BY <1>0, <1>2, <2>1
  <2>3. Pending' /\ Synced'
    BY <1>0, <2>1 DEF Pending, Synced
  <2>4. WroteOver
    BY <1>3, <2>1, <2>2 DEF WroteOver
  <2>. QED
    BY <2>2, <2>3, <2>4 DEF DirInv
<1>4. ASSUME job.op = "create", NEW q \in Nat, todo = <<EntryAt(q)>>, size <= q, q >= dsize,
             q + Total <= Limit,
             \/ q = dsize /\ dsize + Total < Base(dsize) + BlockSize
             \/ q = Base(dsize) + BlockSize /\ (dsize + Header < q => Cell(cells, dsize) = 0)
      PROVE  DirInv' /\ (WroteOver \/ WroteBehind)
  <2>1. /\ cells' \in Cells /\ Good(cells', dsize, Es)
        /\ size' = q + Total /\ todo' = <<>> /\ pc' = "sync"
        /\ Dirent(cells', dsize) = [from |-> dsize, at |-> q, len |-> NameLen[job.name],
                                    nr |-> job.nr, name |-> NameCells(job.name), next |-> size']
        /\ WholeEntry(Dirent(cells', dsize))
    BY <1>0, <1>4, WriteNew
  <2>2. size' \in 0 .. Limit /\ todo' \in Seq(Write)
    BY <1>0, <1>4, <2>1, Sizes
  <2>3. TypeOK' /\ InOrder' /\ Settled' /\ Declined' /\ Es' = Es
    BY <1>2, <2>1, <2>2
  <2>a. PICK e : e = Dirent(cells', dsize)
    OBVIOUS
  <2>4. /\ e.len = NameLen[job.name] /\ e.next = size' /\ e.nr = job.nr /\ e.name = NameCells(job.name)
        /\ e.len > 0 /\ WholeEntry(e)
    <3>1. e.len = NameLen[job.name] /\ e.next = size' /\ e.nr = job.nr /\ e.name = NameCells(job.name)
      BY <2>1, <2>a
    <3>2. e.len > 0
      BY <3>1, WriteRest, FitFacts
    <3>. QED
      BY <2>1, <2>a, <3>1, <3>2
  <2>5. job.nr \in Numbers /\ Unused(Es, NameCells(job.name))
    BY <1>0, <1>4 DEF Granted
  <2>6. Dirent(cells, dsize)' = e
    BY <1>0, <2>a
  <2>b. PICK es : es = Es
    OBVIOUS
  <2>7. Uncovered(Dirent(cells, dsize))'
    BY <1>0, <1>4, <2>3, <2>4, <2>5, <2>6, <2>b DEF Uncovered
  <2>8. Pending' /\ Synced'
    BY <1>0, <2>1, <2>7 DEF Pending, Synced
  <2>9. WroteBehind
    <3>1. q + Total > dsize
      BY <1>0, <1>4, <2>2, WriteRest, FitFacts
    <3>. QED
      BY <2>1, <2>3, <3>1 DEF WroteBehind
  <2>. QED
    BY <2>3, <2>8, <2>9 DEF DirInv
<1>5. CASE \E k \in DOMAIN Es : Overwrites(k)
  BY <1>3, <1>5
<1>6. CASE job.op = "create" /\ Appends
  <2>1. NextBase = Base(dsize) + BlockSize
    BY DEF NextBase
  <2>. QED
    BY <1>0, <1>4, <1>6, <2>1 DEF Appends
<1>7. CASE job.op = "create" /\ Pads
  <2>1. NextBase = Base(dsize) + BlockSize /\ dsize < NextBase
    BY WriteRest
  <2>2. CASE size = NextBase /\ todo = <<EntryAt(NextBase)>>
             /\ \A x \in dsize .. (NextBase - 1) : Cell(cells, x) = 0
    <3>1. Cell(cells, dsize) = 0
      BY <1>0, <2>1, <2>2
    <3>. QED
      BY <1>0, <1>4, <1>7, <2>1, <2>2, <3>1 DEF Pads
  <2>3. CASE /\ size = dsize
             /\ todo = <<[at |-> dsize, data |-> Zeros(NextBase - dsize)], EntryAt(NextBase)>>
    <3>1. /\ cells' \in Cells /\ Good(cells', dsize, Es)
          /\ size' = NextBase /\ todo' = <<EntryAt(NextBase)>> /\ pc' = "write"
          /\ \A x \in dsize .. (NextBase - 1) : Cell(cells', x) = 0
      BY <1>0, <1>7, <2>3, WritePad DEF Pads
    <3>2. size' \in 0 .. Limit /\ todo' \in Seq(Write)
      <4>1. todo' = Tail(todo) /\ todo \in Seq(Write)
        BY <1>1 DEF WriteBlock, TypeOK
      <4>2. size' \in 0 .. Limit
        BY <1>0, <1>7, <3>1, Sizes DEF Pads
      <4>. QED
        BY <2>3, <4>1, <4>2
    <3>3. TypeOK' /\ InOrder' /\ Settled' /\ Declined' /\ Es' = Es
      BY <1>2, <3>1, <3>2
    <3>4. Pads'
      BY <1>0, <1>7, <3>1, WriteRest DEF Pads
    <3>5. Granted'
      BY <1>0, <3>3 DEF Granted
    <3>6. Pending' /\ Synced'
      BY <1>0, <1>7, <3>1, <3>4, <3>5 DEF Pending, Synced
    <3>7. WroteBehind
      BY <3>1, <3>3 DEF WroteBehind
    <3>. QED
      BY <3>3, <3>6, <3>7 DEF DirInv
  <2>. QED
    BY <1>7, <2>2, <2>3 DEF Pads
<1>. QED
  BY <1>0, <1>5, <1>6, <1>7 DEF DirInv, Pending

\* The size is written: a new entry is one more, and its name was unused.
LEMMA SyncInv ==
  ASSUME DirInv, Sync
  PROVE  /\ DirInv'
         /\ Es' = IF size = dsize THEN Es ELSE Append(Es, Dirent(cells, dsize))
         /\ size # dsize => Good(cells, size, Append(Es, Dirent(cells, dsize)))
<1>0. /\ pc = "sync" /\ pc' = "answer" /\ dsize' = size /\ cells' = cells /\ size' = size
      /\ todo' = todo /\ job' = job /\ ret' = ret /\ was' = was /\ ncmd' = ncmd
      /\ spoiled' = spoiled
  BY DEF Sync
<1>1. /\ cells \in Cells /\ dsize \in 0 .. Limit /\ size \in 0 .. Limit /\ Good(cells, dsize, Es)
      /\ todo = <<>> /\ job # NoJob
  BY <1>0, InOrderIs DEF DirInv, TypeOK, Cells, Synced, Settled
<1>2. PICK e : e = Dirent(cells, dsize)
  OBVIOUS
<1>3. ASSUME size # dsize
      PROVE  Good(cells, size, Append(Es, e))
  <2>1. /\ e.len > 0 /\ e.next = size /\ WholeEntry(e)
        /\ e.name = NameCells(job.name) /\ Unused(Es, NameCells(job.name))
    BY <1>0, <1>2, <1>3 DEF DirInv, Synced, Uncovered
  <2>2. e.next <= Limit /\ Unused(Es, e.name)
    BY <1>1, <2>1, Sizes
  <2>3. Good(cells, e.next, Append(Es, e))
    BY <1>1, <1>2, <2>1, <2>2, GoodAppend
  <2>. QED
    BY <2>1, <2>3
<1>a. PICK es : es = IF size = dsize THEN Es ELSE Append(Es, e)
  OBVIOUS
<1>4. Good(cells, size, es)
  BY <1>1, <1>3, <1>a
<1>5. Es' = es
  <2>1. Dirents(cells, size) = es
    BY <1>1, <1>4, GoodIs
  <2>. QED
    BY <1>0, <2>1 DEF Es
<1>6. TypeOK'
  BY <1>0 DEF DirInv, TypeOK
<1>7. InOrder'
  BY <1>0, <1>4, <1>5 DEF InOrder, Good
<1>8. Settled' /\ Pending' /\ Synced' /\ Declined'
  BY <1>0, <1>1 DEF Settled, Pending, Synced, Declined
<1>9. DirInv'
  BY <1>6, <1>7, <1>8 DEF DirInv
<1>. QED
  BY <1>2, <1>3, <1>5, <1>9, <1>a

\* The answer changes nothing on the disk.
LEMMA AnswerInv ==
  ASSUME DirInv, Answer
  PROVE  DirInv' /\ Es' = Es
<1>0. /\ pc \in {"answer", "refused"} /\ pc' = "idle" /\ dsize' = dsize /\ cells' = cells
      /\ size' = size /\ todo' = todo /\ job' = NoJob /\ ret' \in {"ok", "err"} /\ was' = cells
      /\ spoiled' = spoiled /\ ncmd' = ncmd
  BY DEF Answer
<1>1. InOrder' /\ Es' = Es
  BY <1>0, SameEs DEF DirInv
<1>2. NoJob \in Job
  BY DEF Job
<1>3. TypeOK'
  BY <1>0, <1>2 DEF DirInv, TypeOK
<1>4. Settled' /\ Pending' /\ Synced' /\ Declined'
  BY <1>0 DEF DirInv, Settled, Pending, Synced, Declined
<1>. QED
  BY <1>1, <1>3, <1>4 DEF DirInv

\* A process that dies leaves every cell below the size on the disk as it was.
LEMMA CrashInv ==
  ASSUME DirInv, Die
  PROVE  DirInv' /\ Es' = Es
<1>0. /\ pc' = "idle" /\ dsize' = dsize /\ size' = dsize /\ todo' = <<>> /\ job' = NoJob
      /\ ret' = "died" /\ was' = cells' /\ spoiled' = spoiled /\ ncmd' = ncmd
      /\ cells' = [o \in Places |-> IF BlockOf(o) * BlockSize < dsize THEN cells[o] ELSE 0]
  BY DEF Die
<1>1. /\ cells \in Cells /\ dsize \in 0 .. Limit /\ dsize \in Nat /\ Good(cells, dsize, Es)
  BY InOrderIs, Sizes DEF DirInv, TypeOK, Cells
<1>a. PICK d : d = cells'
  OBVIOUS
<1>2. d \in Cells
  <2>1. 0 \in Value
    BY DEF Value
  <2>2. \A o \in Places : cells[o] \in Value
    BY <1>1 DEF Cells
  <2>. QED
    BY <1>0, <1>a, <2>1, <2>2 DEF Cells
<1>3. ASSUME NEW x \in Nat, x < dsize
      PROVE  Cell(d, x) = Cell(cells, x)
  <2>1. x \in Places
    BY <1>1, <1>3, Sizes DEF Places
  <2>2. Base(x) <= x /\ Base(x) \in Nat
    BY BaseFacts
  <2>3. Base(x) < dsize
    BY <1>1, <1>3, <2>2
  <2>4. d[x] = cells[x]
    BY <1>0, <1>a, <2>1, <2>3 DEF Base
  <2>. QED
    BY <2>1, <2>4 DEF Cell
<1>4. Good(d, dsize, Es)
  BY <1>1, <1>2, <1>3, GoodSame
<1>5. Es' = Es
  <2>1. Dirents(d, dsize) = Es
    BY <1>1, <1>2, <1>4, GoodIs
  <2>. QED
    BY <1>0, <1>a, <2>1 DEF Es
<1>6. InOrder'
  <2>1. InOrder
    BY DEF DirInv
  <2>b. PICK es : es = Es
    OBVIOUS
  <2>. QED
    BY <1>0, <1>5, <2>1, <2>b DEF InOrder
<1>7. TypeOK'
  <2>1. NoJob \in Job
    BY DEF Job
  <2>. QED
    BY <1>0, <1>1, <1>2, <1>a, <2>1, EmptySeq DEF DirInv, TypeOK, Cells
<1>8. Settled' /\ Pending' /\ Synced' /\ Declined'
  BY <1>0 DEF Settled, Pending, Synced, Declined
<1>. QED
  BY <1>5, <1>6, <1>7, <1>8 DEF DirInv

\* What was spoiled stays so.
LEMMA SpoiledStays == ASSUME [Next]_vars PROVE spoiled => spoiled'
BY DEF Next, Command, Step, StartCreate, StartRemove, Refuse, Lose, Proceed, WriteBlock, Sync,
       Answer, AssertionFails, Crash, Die, vars

\* Every step that spoils nothing keeps the invariant, and so does none.
LEMMA NextInv ==
  ASSUME DirInv, [Next]_vars, ~spoiled'
  PROVE  DirInv'
<1>1. CASE \E name \in Names, nr \in Numbers : StartCreate(name, nr)
  BY <1>1, StartCreateInv
<1>2. CASE \E name \in AllNames : StartRemove(name)
  BY <1>2, StartRemoveInv
<1>3. CASE WriteBlock
  BY <1>3, WriteBlockInv
<1>4. CASE Sync
  BY <1>4, SyncInv
<1>5. CASE Answer
  BY <1>5, AnswerInv
<1>6. CASE AssertionFails \/ Crash
  BY <1>6, CrashInv DEF AssertionFails, Crash
<1>7. CASE UNCHANGED vars
  <2>1. /\ cells' = cells /\ dsize' = dsize /\ size' = size /\ todo' = todo /\ pc' = pc
        /\ job' = job /\ ret' = ret /\ was' = was /\ ncmd' = ncmd
        /\ spoiled' = spoiled
    BY <1>7 DEF vars
  <2>2. Es' = Es /\ InOrder'
    BY <2>1, SameEs DEF DirInv
  <2>3. TypeOK' /\ Settled'
    BY <2>1 DEF DirInv, TypeOK, Settled
  <2>b. PICK es : es = Es
    OBVIOUS
  <2>4. Declined'
    BY <2>1, <2>2, <2>b DEF DirInv, Declined
  <2>5. Synced'
    <3>a. PICK e : e = Dirent(cells, dsize)
      OBVIOUS
    <3>1. e = Dirent(cells, dsize)'
      BY <2>1, <3>a
    <3>. QED
      BY <2>1, <2>2, <2>b, <3>a, <3>1 DEF DirInv, Synced, Uncovered
  <2>6. Pending'
    BY <2>1, <2>2 DEF DirInv, Pending, Granted, Overwrites, Appends, Pads, EntryAt, NewNr, Total, NextBase
  <2>. QED
    BY <2>2, <2>3, <2>4, <2>5, <2>6 DEF DirInv
<1>. QED
  BY <1>1, <1>2, <1>3, <1>4, <1>5, <1>6, <1>7 DEF Next, Command, Step

\* In every state a process can reach, dead or alive, the entries are in order, until a name
\* that does not fit is written or an entry behind padding is removed.
THEOREM EntriesInOrder == Spec => [](spoiled \/ DirInv)
<1>1. Init => spoiled \/ DirInv
  BY InitInv
<1>2. (spoiled \/ DirInv) /\ [Next]_vars => (spoiled \/ DirInv)'
  BY NextInv, SpoiledStays
<1>. QED
  BY <1>1, <1>2, PTL DEF Spec

\* WholeEntries: neither assertion of the readers fails (dir.c:194, inode.c:304), of what a
\* process that dies now leaves and of what the next command reads, until a name that does
\* not fit is written or an entry behind padding is removed.
THEOREM EntriesAreWhole == Spec => []WholeEntries
<1>0. spoiled => WholeEntries
  BY DEF WholeEntries
<1>1. ASSUME DirInv PROVE WholeEntries
  <2>1. /\ cells \in Cells /\ dsize \in 0 .. Limit /\ Good(cells, dsize, Es)
    BY <1>1, InOrderIs DEF DirInv, TypeOK, Cells
  <2>2. pc \notin {"write", "sync"} => size = dsize
    BY <1>1 DEF DirInv, TypeOK, Settled
  <2>3. EndOf(Es) = dsize /\ Follow(cells, dsize, 0, Es)
    BY <2>1 DEF Good
  <2>4. ASSUME NEW k \in DOMAIN Es
        PROVE  BlockOf(Es[k].at) = BlockOf(Es[k].next - 1)
    <3>0. k \in 1 .. Len(Es)
      BY <2>1, <2>3, FollowFacts
    <3>1. PICK a, n : a = Es[k].at /\ n = Es[k].next
      OBVIOUS
    <3>2. a \in Nat /\ n \in Nat /\ Es[k].len \in Nat /\ n = a + Header + Es[k].len
      BY <2>1, <2>3, <3>0, <3>1, FollowFacts
    <3>3. BlockOf(a) = BlockOf(n)
      BY <2>1, <3>1 DEF Good, WholeEntry
    <3>4. n - 1 \in Nat /\ a <= n - 1 /\ n - 1 < n
      BY <3>2
    <3>5. Base(a) <= a /\ Base(a) = Base(n) /\ n < Base(n) + BlockSize /\ Base(a) \in Nat
      BY <3>2, <3>3, BaseFacts DEF Base
    <3>6. Base(a) <= n - 1 /\ n - 1 < Base(a) + BlockSize
      BY <3>2, <3>4, <3>5, Sizes
    <3>7. BlockOf(n - 1) = BlockOf(a)
      BY <3>2, <3>4, <3>6, BaseFacts
    <3>. QED
      BY <3>1, <3>7
  <2>. QED
    BY <2>2, <2>3, <2>4 DEF WholeEntries, Es
<1>. QED
  BY <1>0, <1>1, EntriesInOrder, PTL

-----------------------------------------------------------------------------
(* The type invariant, which also holds of a directory that is spoiled.                    *)

\* Every write that is planned lies below Limit.
InBounds == \A k \in DOMAIN todo : todo[k].at + Len(todo[k].data) <= Limit

\* A part of a sequence.
LEMMA PartOf ==
  ASSUME NEW data \in Seq(Value), NEW i \in Nat, i > 0, NEW j \in Int, j <= Len(data)
  PROVE  SubSeq(data, i, j) \in Seq(Value)
<1>1. CASE i <= j
  <2>1. \A k \in i .. j : data[k] \in Value
    OBVIOUS
  <2>. QED
    BY <1>1, <2>1, SubSeqProperties
<1>2. CASE ~(i <= j)
  <2>1. SubSeq(data, i, j) = <<>>
    BY <1>2
  <2>. QED
    BY <2>1
<1>. QED
  BY <1>1, <1>2

\* The writes of any data anywhere.
LEMMA WritesType ==
  ASSUME NEW off \in Nat, NEW data \in Seq(Value)
  PROVE  Writes(off, data) \in Seq(Write)
<1>1. CASE data = <<>>
  BY <1>1 DEF Writes
<1>2. CASE data # <<>>
  <2>0. BlockOf(off) \in Nat /\ Len(data) \in Nat /\ Len(data) > 0
    <3>1. BlockOf(off) \in Nat
      BY BaseFacts
    <3>2. Len(data) \in Nat \ {0}
      BY <1>2, EmptySeq
    <3>. QED
      BY <3>1, <3>2
  <2>a. PICK b \in Nat, l \in Nat : b = BlockOf(off) /\ l = Len(data) /\ l > 0
    BY <2>0
  <2>b. PICK n \in Int : n = BlockOf(off + l - 1) - b + 1
    <3>1. off + l - 1 \in Nat
      BY <2>a
    <3>2. BlockOf(off + l - 1) \in Nat
      BY <3>1, BaseFacts
    <3>. QED
      BY <2>a, <3>2
  <2>. DEFINE lo(k) == MaxOf(off, (b + k - 1) * BlockSize)
              hi(k) == MinOf(off + l, (b + k) * BlockSize)
  <2>1. Writes(off, data) =
          [k \in 1 .. n |-> [at |-> lo(k), data |-> SubSeq(data, lo(k) - off + 1, hi(k) - off)]]
    BY <1>2, <2>a, <2>b DEF Writes
  <2>2. ASSUME NEW k \in 1 .. n
        PROVE  [at |-> lo(k), data |-> SubSeq(data, lo(k) - off + 1, hi(k) - off)] \in Write
    <3>1. \A x \in Nat : x * BlockSize \in Nat
      BY Sizes
    <3>2. b + k - 1 \in Nat /\ b + k \in Nat
      BY <2>a, <2>b
    <3>3. (b + k - 1) * BlockSize \in Nat /\ (b + k) * BlockSize \in Nat
      BY <3>1, <3>2
    <3>4. lo(k) \in Nat /\ lo(k) >= off /\ hi(k) \in Int /\ hi(k) <= off + l
      BY <2>a, <3>3 DEF MaxOf, MinOf
    <3>. HIDE DEF lo, hi
    <3>5. lo(k) - off + 1 \in Nat /\ lo(k) - off + 1 > 0 /\ hi(k) - off \in Int /\ hi(k) - off <= Len(data)
      BY <2>a, <3>4
    <3>6. SubSeq(data, lo(k) - off + 1, hi(k) - off) \in Seq(Value)
      BY <3>5, PartOf
    <3>. QED
      BY <3>4, <3>6 DEF Write
  <2>. HIDE DEF lo, hi
  <2>3. PICK m \in Nat : 1 .. n = 1 .. m
    <3>1. CASE n \in Nat
      BY <3>1
    <3>2. CASE n \notin Nat
      <4>1. 1 .. n = 1 .. 0 /\ 0 \in Nat
        BY <3>2
      <4>. QED
        BY <4>1
    <3>. QED
      BY <3>1, <3>2
  <2>4. Writes(off, data) \in [1 .. m -> Write]
    BY <2>1, <2>2, <2>3
  <2>. QED
    BY <2>4
<1>. QED
  BY <1>1, <1>2

\* The cells of an entry of any name.
LEMMA EntryType ==
  ASSUME NEW name \in AllNames, NEW nr \in Value
  PROVE  EntryCells(name, nr) \in Seq(Value)
<1>1. <<NameLen[name], nr>> \in Seq(Value)
  BY NameFacts DEF Value
<1>2. NameCells(name) \in Seq(Value)
  BY NameFacts DEF NameCells, Value
<1>. QED
  BY <1>1, <1>2, ConcatProperties DEF EntryCells

\* What is written of an entry, whether it fits or not.
LEMMA WriteDirentType ==
  ASSUME NEW o \in Nat, NEW name \in AllNames, NEW nr \in Value
  PROVE  WriteDirent(name, nr, o) \in Seq(Write)
<1>a. PICK data \in Seq(Value) : data = EntryCells(name, nr)
  BY EntryType
<1>b. PICK q \in Nat : q = BlockOf(o + (Header + NameLen[name])) * BlockSize
  <2>1. o + (Header + NameLen[name]) \in Nat
    BY NameFacts
  <2>2. Base(o + (Header + NameLen[name])) \in Nat
    BY <2>1, BaseFacts
  <2>. QED
    BY <2>2 DEF Base
<1>1. Zeros(q - o) \in Seq(Value)
  <2>1. CASE q - o \in Nat
    BY <2>1, ZerosFacts
  <2>2. CASE q - o \notin Nat
    <3>1. 1 .. (q - o) = 1 .. 0 /\ 0 \in Nat
      BY <2>2
    <3>2. Zeros(q - o) \in [1 .. 0 -> Value]
      BY <3>1 DEF Zeros
    <3>. QED
      BY <3>2
  <2>. QED
    BY <2>1, <2>2
<1>2. Writes(o, Zeros(q - o)) \in Seq(Write) /\ Writes(q, data) \in Seq(Write) /\ Writes(o, data) \in Seq(Write)
  BY <1>1, WritesType
<1>3. Writes(o, Zeros(q - o)) \o Writes(q, data) \in Seq(Write)
  BY <1>2, ConcatProperties
<1>. QED
  BY <1>2, <1>3, <1>a, <1>b DEF WriteDirent, Padding

\* What a search finds has a place, a length and the cells of a name.
LEMMA SearchFacts ==
  ASSUME TypeOK, NEW es, es = Dirents(cells, size)
  PROVE  /\ EndOf(es) \in Nat /\ DOMAIN es \in SUBSET Nat
         /\ \A k \in DOMAIN es : es[k].from \in Nat /\ Rewrite(es[k]) \in Seq(Write)
<1>1. cells \in Cells /\ size \in 0 .. Limit
  BY DEF TypeOK, Cells
<1>2. Follow(cells, size, 0, es)
  BY <1>1, DirentsChain
<1>3. /\ Len(es) \in Nat /\ DOMAIN es = 1 .. Len(es) /\ es \in Seq(AllDirents(cells))
      /\ \A k \in 1 .. Len(es) : /\ es[k].from \in Nat /\ es[k].next \in Nat /\ es[k].len \in Nat
                                 /\ es[k] = Dirent(cells, es[k].from)
  BY <1>1, <1>2, FollowFacts
<1>4. EndOf(es) \in Nat
  <2>1. es # <<>> => Len(es) \in 1 .. Len(es)
    BY <1>3
  <2>. QED
    BY <1>3, <2>1 DEF EndOf
<1>5. ASSUME NEW k \in 1 .. Len(es) PROVE Rewrite(es[k]) \in Seq(Write)
  <2>e. PICK e : e = es[k]
    OBVIOUS
  <2>a. PICK o \in Nat, l \in Nat : e = es[k] /\ o = e.from /\ l = e.len /\ e = Dirent(cells, o)
    BY <1>3, <1>5, <2>e
  <2>1. \E at : e.len = Cell(cells, at) /\ e.name = [j \in 1 .. Cell(cells, at) |-> Cell(cells, at + 1 + j)]
    <3>. DEFINE h == IF BlockOf(o + Header) > BlockOf(o) THEN BlockOf(o + Header) * BlockSize ELSE o
                x == IF Cell(cells, h) = 0 THEN (BlockOf(h) + 1) * BlockSize ELSE h
    <3>1. e = [from |-> o, at |-> x, len |-> Cell(cells, x), nr |-> Cell(cells, x + 1),
               name |-> [j \in 1 .. Cell(cells, x) |-> Cell(cells, x + 1 + j)],
               next |-> x + Header + Cell(cells, x)]
      BY <2>a DEF Dirent
    <3>. HIDE DEF x, h
    <3>. QED
      BY <3>1
  <2>b. PICK at : e.name = [j \in 1 .. l |-> Cell(cells, at + 1 + j)]
    BY <2>1, <2>a
  <2>2. e.name \in Seq(Value)
    BY <1>1, <2>b, CellValue
  <2>3. <<e.len, Erased(e.nr)>> \in Seq(Value)
    BY <2>a DEF Value, Erased
  <2>4. <<e.len, Erased(e.nr)>> \o e.name \in Seq(Value)
    BY <2>2, <2>3, ConcatProperties
  <2>5. Writes(o, <<e.len, Erased(e.nr)>> \o e.name) \in Seq(Write)
    BY <2>4, WritesType
  <2>. QED
    BY <2>5, <2>a DEF Rewrite
<1>. QED
  BY <1>3, <1>4, <1>5

\* What a command that starts plans.
LEMMA StartType ==
  ASSUME TypeOK, InBounds, NEW request \in Job, Start(request),
         \/ Refuse
         \/ Lose
         \/ \E writes \in Seq(Write), spoils \in BOOLEAN : Proceed(writes, spoils)
  PROVE  TypeOK' /\ InBounds'
<1>1. job' = request /\ was' = cells /\ ncmd' = ncmd + 1
  BY DEF Start
<1>2. CASE Refuse \/ Lose
  <2>1. /\ todo' = <<>> /\ pc' \in {"refused", "lost"}
        /\ UNCHANGED <<cells, dsize, size, ret, spoiled>>
    BY <1>2 DEF Refuse, Lose
  <2>2. todo' \in Seq(Write) /\ DOMAIN todo' = {}
    BY <2>1, EmptySeq
  <2>3. TypeOK'
    BY <1>1, <2>1, <2>2 DEF TypeOK
  <2>. QED
    BY <2>2, <2>3 DEF InBounds
<1>3. ASSUME NEW writes \in Seq(Write), NEW spoils \in BOOLEAN, Proceed(writes, spoils)
      PROVE  TypeOK' /\ InBounds'
  BY <1>1, <1>3 DEF Proceed, TypeOK, InBounds
<1>. QED
  BY <1>2, <1>3

\* A block is written: it lies below Limit.
LEMMA WriteBlockType ==
  ASSUME TypeOK, InBounds, WriteBlock
  PROVE  TypeOK' /\ InBounds'
<1>a. PICK w \in Write : w = Head(todo) /\ w = todo[1] /\ 1 \in DOMAIN todo
  BY DEF TypeOK, WriteBlock
<1>b. PICK at \in Nat, data \in Seq(Value), l \in Nat :
        w.at = at /\ w.data = data /\ l = Len(data) /\ at + l <= Limit
  BY <1>a DEF Write, InBounds
<1>0. Limit \in Nat /\ Places = 0 .. (Limit - 1)
  BY Sizes DEF Places
<1>1. /\ cells' = [o \in Places |-> IF o >= at /\ o < at + l THEN data[o - at + 1] ELSE cells[o]]
      /\ size' = MaxOf(size, at + l) /\ todo' = Tail(todo) /\ pc' \in {"write", "sync"}
      /\ UNCHANGED <<dsize, job, ret, was, spoiled, ncmd>>
  BY <1>a, <1>b DEF WriteBlock
<1>2. cells' \in [Places -> Value]
  <2>1. ASSUME NEW o \in Places, o >= at, o < at + l PROVE data[o - at + 1] \in Value
    <3>1. o - at + 1 \in 1 .. l
      BY <1>0, <2>1
    <3>. QED
      BY <1>b, <3>1
  <2>2. \A o \in Places : cells[o] \in Value
    BY DEF TypeOK
  <2>. QED
    BY <1>1, <2>1, <2>2
<1>3. size' \in 0 .. Limit
  BY <1>0, <1>1, <1>b DEF TypeOK, MaxOf
<1>4. todo' \in Seq(Write) /\ InBounds'
  <2>1. /\ todo \in Seq(Write) /\ todo # <<>> /\ Tail(todo) \in Seq(Write)
        /\ Len(Tail(todo)) = Len(todo) - 1
        /\ \A k \in 1 .. (Len(todo) - 1) : Tail(todo)[k] = todo[k + 1]
    BY HeadTailProperties DEF TypeOK, WriteBlock
  <2>2. ASSUME NEW k \in DOMAIN Tail(todo)
        PROVE  Tail(todo)[k].at + Len(Tail(todo)[k].data) <= Limit
    <3>1. k \in 1 .. (Len(todo) - 1) /\ k + 1 \in DOMAIN todo
      BY <2>1
    <3>2. Tail(todo)[k] = todo[k + 1]
      BY <2>1, <3>1
    <3>. QED
      BY <3>1, <3>2 DEF InBounds
  <2>. QED
    BY <1>1, <2>1, <2>2 DEF InBounds
<1>. QED
  BY <1>1, <1>2, <1>3, <1>4 DEF TypeOK

\* Every step keeps the types, and so does none.
LEMMA NextType ==
  ASSUME TypeOK, InBounds, [Next]_vars
  PROVE  TypeOK' /\ InBounds'
<1>1. ASSUME NEW name \in Names, NEW nr \in Numbers, StartCreate(name, nr)
      PROVE  TypeOK' /\ InBounds'
  <2>a. PICK es : es = Dirents(cells, size)
    OBVIOUS
  <2>b. PICK request : request = [op |-> "create", name |-> name, nr |-> nr]
    OBVIOUS
  <2>1. Start(request) /\ request \in Job
    BY <1>1, <2>b DEF StartCreate, Job, AllNames
  <2>2. \/ Refuse
        \/ Lose
        \/ Proceed(WriteDirent(name, nr, Slot(es, name)), ~Fits(name))
    BY <1>1, <2>a DEF StartCreate
  <2>3. Slot(es, name) \in Nat
    <3>1. Reusable(es, name) # {} => First(Reusable(es, name)) \in DOMAIN es
      <4>1. Reusable(es, name) \in SUBSET Nat
        BY <2>a, SearchFacts DEF Reusable
      <4>. QED
        BY <4>1, FirstIs DEF Reusable
    <3>. QED
      BY <2>a, <3>1, SearchFacts DEF Slot
  <2>4. WriteDirent(name, nr, Slot(es, name)) \in Seq(Write)
    <3>1. name \in AllNames /\ nr \in Value
      BY DirLayoutAssumption DEF AllNames, Value
    <3>. QED
      BY <2>3, <3>1, WriteDirentType
  <2>5. (~Fits(name)) \in BOOLEAN
    OBVIOUS
  <2>. QED
    BY <2>1, <2>2, <2>4, <2>5, StartType
<1>2. ASSUME NEW name \in AllNames, StartRemove(name)
      PROVE  TypeOK' /\ InBounds'
  <2>a. PICK es : es = Dirents(cells, size)
    OBVIOUS
  <2>b. PICK request : request = [op |-> "remove", name |-> name, nr |-> Self]
    OBVIOUS
  <2>1. Start(request) /\ request \in Job
    BY <1>2, <2>b DEF StartRemove, Job
  <2>2. \/ Refuse
        \/ Lose
        \/ \E odd \in SUBSET Nameless(es) :
             /\ Found(es, name) \cup odd # {}
             /\ Proceed(Rewrite(es[First(Found(es, name) \cup odd)]),
                        es[First(Found(es, name) \cup odd)].from # es[First(Found(es, name) \cup odd)].at)
    BY <1>2, <2>a DEF StartRemove
  <2>3. ASSUME NEW odd \in SUBSET Nameless(es), Found(es, name) \cup odd # {}
        PROVE  Rewrite(es[First(Found(es, name) \cup odd)]) \in Seq(Write)
    <3>1. Found(es, name) \cup odd \in SUBSET (DOMAIN es) /\ Found(es, name) \cup odd \in SUBSET Nat
      BY <2>a, SearchFacts DEF Found, Nameless
    <3>2. First(Found(es, name) \cup odd) \in DOMAIN es
      BY <2>3, <3>1, FirstIs
    <3>. QED
      BY <2>a, <3>2, SearchFacts
  <2>4. \A k : (es[k].from # es[k].at) \in BOOLEAN
    OBVIOUS
  <2>. QED
    BY <2>1, <2>2, <2>3, <2>4, StartType
<1>3. CASE WriteBlock
  BY <1>3, WriteBlockType
<1>4. CASE Sync \/ Answer
  BY <1>4 DEF Sync, Answer, TypeOK, InBounds, Job
<1>5. CASE Die
  <2>1. 0 \in Value
    BY DEF Value
  <2>2. cells' \in [Places -> Value]
    BY <1>5, <2>1 DEF Die, TypeOK
  <2>. QED
    BY <1>5, <2>2, EmptySeq DEF Die, TypeOK, InBounds, Job
<1>6. CASE UNCHANGED vars
  BY <1>6 DEF vars, TypeOK, InBounds
<1>. QED
  BY <1>1, <1>2, <1>3, <1>4, <1>5, <1>6 DEF Next, Command, Step, AssertionFails, Crash

\* The type invariant: what is written stays below Limit, whatever names of whatever lengths
\* are created and removed, wherever the process dies and however the entries then read.
THEOREM DirTypeCorrect == Spec => []TypeOK
<1>1. Init => TypeOK /\ InBounds
  <2>. SUFFICES ASSUME Init PROVE TypeOK /\ InBounds
    OBVIOUS
  <2>1. todo = <<>> /\ DOMAIN <<>> = {}
    BY DEF Init
  <2>. QED
    BY <2>1, InitInv DEF DirInv, InBounds
<1>2. TypeOK /\ InBounds /\ [Next]_vars => (TypeOK /\ InBounds)'
  BY NextType
<1>. QED
  BY <1>1, <1>2, PTL DEF Spec

-----------------------------------------------------------------------------
(* The directory that the entries on the disk stand for, and that a step of the program    *)
(* is a step of Directory or none.                                                         *)

Standing(e) == [name |-> e.name[1], nr |-> e.nr]
LiveOf(es)  == {Standing(e) : e \in {d \in Range(es) : d.nr >= 0}}

\* The cells of a name hold the name, so that its first cell tells which it is.
LEMMA NameOf ==
  ASSUME NEW c, NEW n, NEW es, Good(c, n, es), NEW k \in DOMAIN es, NEW name \in AllNames
  PROVE  es[k].name = NameCells(name) <=> es[k].name[1] = name
<1>1. PICK other \in Fitting : es[k].name = NameCells(other)
  BY DEF Good, WholeEntry
<1>2. NameCells(other)[1] = other
  BY FitFacts DEF NameCells
<1>3. NameCells(name)[1] = name
  BY NameFacts DEF NameCells
<1>. QED
  BY <1>1, <1>2, <1>3

\* An entry of the directory is one that is not removed.
LEMMA LiveIs ==
  ASSUME NEW es, NEW v
  PROVE  v \in LiveOf(es) <=> \E k \in DOMAIN es : es[k].nr >= 0 /\ v = Standing(es[k])
BY DEF LiveOf, Range

\* A name is in the directory unless the list of entries does not use it.
LEMMA HasIs ==
  ASSUME NEW c, NEW n, NEW es, Good(c, n, es), NEW name \in AllNames
  PROVE  (\E v \in LiveOf(es) : v.name = name) <=> ~Unused(es, NameCells(name))
<1>1. ASSUME NEW v \in LiveOf(es), v.name = name
      PROVE  ~Unused(es, NameCells(name))
  <2>1. PICK k \in DOMAIN es : es[k].nr >= 0 /\ v = Standing(es[k])
    BY LiveIs
  <2>2. es[k].name[1] = name
    BY <1>1, <2>1 DEF Standing
  <2>3. es[k].name = NameCells(name)
    BY <2>2, NameOf
  <2>. QED
    BY <2>1, <2>3 DEF Unused
<1>2. ASSUME ~Unused(es, NameCells(name))
      PROVE  \E v \in LiveOf(es) : v.name = name
  <2>1. PICK k \in DOMAIN es : es[k].nr >= 0 /\ es[k].name = NameCells(name)
    BY <1>2 DEF Unused
  <2>2. PICK v : v = Standing(es[k])
    OBVIOUS
  <2>3. v \in LiveOf(es)
    BY <2>1, <2>2, LiveIs
  <2>4. v.name = name
    BY <2>1, <2>2, NameOf DEF Standing
  <2>. QED
    BY <2>3, <2>4
<1>. QED
  BY <1>1, <1>2

\* A removed entry that is used again adds one to the directory.
LEMMA LiveReused ==
  ASSUME NEW es, NEW k \in DOMAIN es, ~(es[k].nr >= 0), NEW name \in AllNames, NEW nr \in Nat
  PROVE  LiveOf(Replaced(es, k, name, nr)) = LiveOf(es) \cup {[name |-> name, nr |-> nr]}
<1>a. PICK fs : fs = Replaced(es, k, name, nr)
  OBVIOUS
<1>1. /\ DOMAIN fs = DOMAIN es
      /\ \A j \in DOMAIN es : j # k => fs[j] = es[j]
      /\ fs[k].nr = nr /\ fs[k].name = NameCells(name)
  BY <1>a DEF Replaced, Changed
<1>2. Standing(fs[k]) = [name |-> name, nr |-> nr]
  <2>1. NameCells(name)[1] = name
    BY NameFacts DEF NameCells
  <2>. QED
    BY <1>1, <2>1 DEF Standing
<1>3. nr >= 0
  OBVIOUS
<1>4. ASSUME NEW v, v \in LiveOf(fs)
      PROVE  v \in LiveOf(es) \cup {[name |-> name, nr |-> nr]}
  <2>1. PICK j \in DOMAIN fs : fs[j].nr >= 0 /\ v = Standing(fs[j])
    BY <1>4, LiveIs
  <2>2. CASE j = k
    BY <1>2, <2>1, <2>2
  <2>3. CASE j # k
    BY <1>1, <2>1, <2>3, LiveIs
  <2>. QED
    BY <2>2, <2>3
<1>5. ASSUME NEW v, v \in LiveOf(es)
      PROVE  v \in LiveOf(fs)
  <2>1. PICK j \in DOMAIN es : es[j].nr >= 0 /\ v = Standing(es[j])
    BY <1>5, LiveIs
  <2>2. j # k
    BY <2>1
  <2>. QED
    BY <1>1, <2>1, <2>2, LiveIs
<1>6. [name |-> name, nr |-> nr] \in LiveOf(fs)
  BY <1>1, <1>2, <1>3, LiveIs
<1>. QED
  BY <1>4, <1>5, <1>6, <1>a

\* An entry that is removed takes its name from the directory, for no other has it.
LEMMA LiveRemoved ==
  ASSUME NEW c, NEW n, NEW es, Good(c, n, es), NEW k \in DOMAIN es, NEW name \in AllNames,
         Named(es[k], name)
  PROVE  LiveOf(Replaced(es, k, name, Removed)) = {v \in LiveOf(es) : v.name # name}
<1>a. PICK fs : fs = Replaced(es, k, name, Removed)
  OBVIOUS
<1>1. /\ DOMAIN fs = DOMAIN es
      /\ \A j \in DOMAIN es : j # k => fs[j] = es[j]
      /\ ~(fs[k].nr >= 0)
  BY <1>a DEF Replaced, Changed
<1>2. es[k].nr >= 0 /\ es[k].name = NameCells(name) /\ es[k].name[1] = name
  BY NameOf DEF Named
<1>3. ASSUME NEW j \in DOMAIN es, es[j].nr >= 0
      PROVE  j = k <=> Standing(es[j]).name = name
  <2>1. Standing(es[j]).name = es[j].name[1]
    BY DEF Standing
  <2>2. es[j].name = NameCells(name) <=> es[j].name[1] = name
    BY NameOf
  <2>3. es[j].name = es[k].name => j = k
    BY <1>2, <1>3 DEF Good, OneEach
  <2>. QED
    BY <1>2, <2>1, <2>2, <2>3
<1>4. ASSUME NEW v, v \in LiveOf(fs)
      PROVE  v \in LiveOf(es) /\ v.name # name
  <2>1. PICK j \in DOMAIN fs : fs[j].nr >= 0 /\ v = Standing(fs[j])
    BY <1>4, LiveIs
  <2>2. j # k
    BY <1>1, <2>1
  <2>3. es[j].nr >= 0 /\ v = Standing(es[j])
    BY <1>1, <2>1, <2>2
  <2>. QED
    BY <1>1, <1>3, <2>2, <2>3, LiveIs
<1>5. ASSUME NEW v, v \in LiveOf(es), v.name # name
      PROVE  v \in LiveOf(fs)
  <2>1. PICK j \in DOMAIN es : es[j].nr >= 0 /\ v = Standing(es[j])
    BY <1>5, LiveIs
  <2>2. j # k
    BY <1>3, <1>5, <2>1
  <2>. QED
    BY <1>1, <2>1, <2>2, LiveIs
<1>. QED
  BY <1>4, <1>5, <1>a

\* An entry behind the last one adds one to the directory.
LEMMA LiveAppended ==
  ASSUME NEW S, NEW es \in Seq(S), NEW e \in S, NEW name \in AllNames, NEW nr \in Nat,
         e.nr = nr, e.name = NameCells(name)
  PROVE  LiveOf(Append(es, e)) = LiveOf(es) \cup {[name |-> name, nr |-> nr]}
<1>a. PICK fs : fs = Append(es, e)
  OBVIOUS
<1>1. /\ Len(es) \in Nat /\ DOMAIN es = 1 .. Len(es) /\ DOMAIN fs = 1 .. (Len(es) + 1)
      /\ \A j \in 1 .. Len(es) : fs[j] = es[j]
      /\ fs[Len(es) + 1] = e
  BY <1>a, AppendProperties
<1>2. Standing(e) = [name |-> name, nr |-> nr]
  <2>1. NameCells(name)[1] = name
    BY NameFacts DEF NameCells
  <2>. QED
    BY <2>1 DEF Standing
<1>3. e.nr >= 0
  OBVIOUS
<1>4. ASSUME NEW v, v \in LiveOf(fs)
      PROVE  v \in LiveOf(es) \cup {[name |-> name, nr |-> nr]}
  <2>1. PICK j \in DOMAIN fs : fs[j].nr >= 0 /\ v = Standing(fs[j])
    BY <1>4, LiveIs
  <2>2. CASE j \in 1 .. Len(es)
    BY <1>1, <2>1, <2>2, LiveIs
  <2>3. CASE j = Len(es) + 1
    BY <1>1, <1>2, <2>1, <2>3
  <2>. QED
    BY <1>1, <2>2, <2>3
<1>5. ASSUME NEW v, v \in LiveOf(es)
      PROVE  v \in LiveOf(fs)
  <2>1. PICK j \in DOMAIN es : es[j].nr >= 0 /\ v = Standing(es[j])
    BY <1>5, LiveIs
  <2>2. j \in DOMAIN fs
    BY <1>1, <2>1
  <2>. QED
    BY <1>1, <2>1, <2>2, LiveIs
<1>6. [name |-> name, nr |-> nr] \in LiveOf(fs)
  <2>1. Len(es) + 1 \in DOMAIN fs
    BY <1>1
  <2>. QED
    BY <1>1, <1>2, <1>3, <2>1, LiveIs
<1>. QED
  BY <1>4, <1>5, <1>6, <1>a

\* The first two entries are the initial directory.
LEMMA LiveFirst ==
  ASSUME NEW c, NEW n, NEW es, Good(c, n, es), FirstTwo(es)
  PROVE  LiveOf(es) = {[name |-> Dot, nr |-> Self], [name |-> DotDot, nr |-> Self]}
<1>0. Dot \in AllNames /\ DotDot \in AllNames
  BY DotNames
<1>1. DOMAIN es = {1, 2}
  <2>1. DOMAIN es = 1 .. Len(es) /\ Len(es) = 2
    BY DEF Good, Follow, FirstTwo
  <2>. QED
    BY <2>1
<1>2. es[1].name[1] = Dot /\ es[2].name[1] = DotDot
  BY <1>0, <1>1, NameOf DEF FirstTwo
<1>3. /\ Standing(es[1]) = [name |-> Dot, nr |-> 0] /\ es[1].nr >= 0
      /\ Standing(es[2]) = [name |-> DotDot, nr |-> 0] /\ es[2].nr >= 0
  BY <1>2 DEF Standing, FirstTwo
<1>. QED
  BY <1>1, <1>3, LiveIs

\* What Live(dsize) is, in every state.
LEMMA LiveDisk == Live(dsize) = LiveOf(Es) /\ Live(dsize)' = LiveOf(Es')
BY DEF Live, LiveOf, Standing, Es

\* The command has taken effect.
Done == pc = "answer" \/ (pc = "sync" /\ size = dsize)

\* A name is in the abstract directory unless it is unused.
LEMMA HasName ==
  ASSUME DirInv, NEW name \in AllNames
  PROVE  /\ D!Has(name) <=> ~Unused(Es, NameCells(name))
         /\ D!Removable(name) <=> ~Unused(Es, NameCells(name)) /\ name \notin {Dot, DotDot}
<1>1. Good(cells, dsize, Es)
  BY InOrderIs DEF DirInv, TypeOK, Cells
<1>2. D!Has(name) <=> \E v \in LiveOf(Es) : v.name = name
  BY LiveDisk DEF D!Has
<1>3. D!Has(name) <=> ~Unused(Es, NameCells(name))
  BY <1>1, <1>2, HasIs
<1>4. (\A e \in {[name |-> Dot, nr |-> Self], [name |-> DotDot, nr |-> Self]} : e.name # name)
        <=> name \notin {Dot, DotDot}
  OBVIOUS
<1>. QED
  BY <1>3, <1>4 DEF D!Removable

\* A block write is the moment of a command that changes an entry in its place.
LEMMA WriteImplements ==
  ASSUME DirInv, WriteBlock
  PROVE  [D!Next]_D!vars
<1>0. /\ pc = "write" /\ dsize' = dsize /\ job' = job /\ ret' = ret
      /\ job # NoJob /\ Granted /\ job \in Job /\ job.name \in AllNames
  BY WriteRest, FitFacts
<1>a. Good(cells, dsize, Es)
  BY InOrderIs DEF DirInv, TypeOK, Cells
<1>b. Live(dsize) = LiveOf(Es) /\ Live(dsize)' = LiveOf(Es')
  BY LiveDisk
<1>1. Good(cells, dsize, Es) /\ Live(dsize) = LiveOf(Es) /\ Live(dsize)' = LiveOf(Es')
  BY <1>a, <1>b
<1>2. CASE WroteBehind
  <2>1. ~Done /\ ~Done'
    <3>1. dsize \in Nat /\ size' \in Nat
      <4>1. TypeOK'
        BY WriteBlockInv DEF DirInv
      <4>. QED
        BY <4>1, Sizes DEF DirInv, TypeOK
    <3>. QED
      BY <1>0, <1>2, <3>1 DEF Done, WroteBehind
  <2>2. Live(dsize)' = Live(dsize)
    BY <1>1, <1>2 DEF WroteBehind
  <2>. QED
    BY <1>0, <2>1, <2>2 DEF D!vars, Done
<1>3. CASE WroteOver
  <2>1. PICK k \in DOMAIN Es : Overwrites(k) /\ Es' = Replaced(Es, k, job.name, NewNr)
    BY <1>3 DEF WroteOver
  <2>2. ~Done /\ Done'
    BY <1>0, <1>3 DEF Done, WroteOver
  <2>3. CASE job.op = "create"
    <3>1. job.nr \in Nat /\ NewNr = job.nr /\ Unused(Es, NameCells(job.name))
      BY <1>0, <2>3, DirLayoutAssumption DEF Granted, NewNr
    <3>2. Es[k].nr < 0 /\ ~(Es[k].nr >= 0)
      <4>1. cells \in Cells /\ dsize \in 0 .. Limit /\ Follow(cells, dsize, 0, Es)
        BY <1>1 DEF DirInv, TypeOK, Cells, Good
      <4>2. Es[k].nr \in Int
        BY <4>1, FollowFacts, CellValue
      <4>. QED
        BY <2>1, <2>3, <4>2 DEF Overwrites
    <3>3. LiveOf(Es') = LiveOf(Es) \cup {[name |-> job.name, nr |-> job.nr]}
      BY <1>0, <2>1, <3>1, <3>2, LiveReused
    <3>4. ~D!Has(job.name)
      BY <1>0, <3>1, HasName
    <3>. QED
      BY <1>0, <1>1, <2>2, <2>3, <3>3, <3>4 DEF D!Next, D!Create, Done
  <2>4. CASE job.op = "remove"
    <3>1. NewNr = Removed /\ Named(Es[k], job.name) /\ job.name \notin {Dot, DotDot}
      BY <1>0, <2>1, <2>4 DEF NewNr, Overwrites, Granted
    <3>2. LiveOf(Es') = {v \in LiveOf(Es) : v.name # job.name}
      BY <1>0, <1>1, <2>1, <3>1, LiveRemoved
    <3>3. D!Removable(job.name)
      <4>1. ~Unused(Es, NameCells(job.name))
        BY <3>1 DEF Unused, Named
      <4>. QED
        BY <1>0, <3>1, <4>1, HasName
    <3>. QED
      BY <1>0, <1>1, <2>2, <2>4, <3>2, <3>3 DEF D!Next, D!Remove, Done
  <2>. QED
    BY <1>0, <2>3, <2>4 DEF Job
<1>. QED
  BY <1>2, <1>3, WriteBlockInv

\* Writing the size is the moment of a command that added an entry.
LEMMA SyncImplements ==
  ASSUME DirInv, Sync
  PROVE  [D!Next]_D!vars
<1>0. /\ pc = "sync" /\ pc' = "answer" /\ dsize' = size /\ cells' = cells /\ size' = size
      /\ job' = job /\ ret' = ret
  BY DEF Sync
<1>1. Live(dsize) = LiveOf(Es) /\ Live(dsize)' = LiveOf(Es')
  BY LiveDisk
<1>2. Done'
  BY <1>0 DEF Done
<1>3. CASE size = dsize
  <2>1. Es' = Es /\ Done
    BY <1>0, <1>3, SyncInv DEF Done
  <2>. QED
    BY <1>0, <1>1, <1>2, <2>1 DEF D!vars, Done
<1>4. CASE size # dsize
  <2>a. PICK e : e = Dirent(cells, dsize)
    OBVIOUS
  <2>b. PICK es : es = Es
    OBVIOUS
  <2>1. /\ job.op = "create" /\ job.nr \in Numbers /\ Unused(Es, NameCells(job.name))
        /\ e.nr = job.nr /\ e.name = NameCells(job.name)
    BY <1>0, <1>4, <2>a DEF DirInv, Synced, Uncovered
  <2>2. Es' = Append(es, e) /\ ~Done
    BY <1>0, <1>4, <2>a, <2>b, SyncInv DEF Done
  <2>3. es \in Seq(AllDirents(cells)) /\ e \in AllDirents(cells)
    <3>1. Good(cells, dsize, Es) /\ dsize \in Nat
      BY InOrderIs, Sizes DEF DirInv, TypeOK, Cells
    <3>. QED
      BY <2>a, <2>b, <3>1 DEF Good, Follow, AllDirents
  <2>4. job.name \in AllNames /\ job.nr \in Nat /\ job # NoJob
    <3>1. job \in Job /\ job # NoJob
      BY <1>0 DEF DirInv, TypeOK, Settled
    <3>. QED
      BY <2>1, <3>1, DirLayoutAssumption DEF Job
  <2>5. LiveOf(Es') = LiveOf(Es) \cup {[name |-> job.name, nr |-> job.nr]}
    BY <2>1, <2>2, <2>3, <2>4, <2>b, LiveAppended
  <2>6. ~D!Has(job.name)
    BY <2>1, <2>4, HasName
  <2>. QED
    BY <1>0, <1>1, <1>2, <2>1, <2>2, <2>5, <2>6 DEF D!Next, D!Create, Done
<1>. QED
  BY <1>3, <1>4

\* Every step that spoils nothing is one of Directory, or none of its.
LEMMA NextImplements ==
  ASSUME DirInv, [Next]_vars, ~spoiled'
  PROVE  [D!Next]_D!vars
<1>1. ASSUME CanStart, NEW request \in Job, request # NoJob, Start(request),
             pc' \in {"refused", "write"}, cells' = cells, dsize' = dsize, ret' = ret
      PROVE  [D!Next]_D!vars
  <2>1. Live(dsize)' = Live(dsize)
    BY <1>1 DEF Live
  <2>2. job = NoJob /\ job' = request
    BY <1>1 DEF CanStart, DirInv, Settled, Start
  <2>. QED
    BY <1>1, <2>1, <2>2 DEF D!Next, D!Ask, D!NoRequest, NoJob
<1>2. CASE \E name \in Names, nr \in Numbers : StartCreate(name, nr)
  <2>1. PICK name \in Names, nr \in Numbers : StartCreate(name, nr)
    BY <1>2
  <2>a. PICK request : request = [op |-> "create", name |-> name, nr |-> nr]
    OBVIOUS
  <2>2. request \in Job /\ request # NoJob
    BY <2>a DEF Job, NoJob, AllNames
  <2>3. CanStart /\ Start(request) /\ pc' \in {"refused", "write"} /\ cells' = cells
        /\ dsize' = dsize /\ ret' = ret
    BY <2>1, <2>a, StartCreateIs DEF StartCreate, Refuse, Proceed
  <2>. QED
    BY <1>1, <2>2, <2>3
<1>3. CASE \E name \in AllNames : StartRemove(name)
  <2>1. PICK name \in AllNames : StartRemove(name)
    BY <1>3
  <2>a. PICK request : request = [op |-> "remove", name |-> name, nr |-> Self]
    OBVIOUS
  <2>2. request \in Job /\ request # NoJob
    BY <2>a DEF Job, NoJob
  <2>3. CanStart /\ Start(request) /\ pc' \in {"refused", "write"} /\ cells' = cells
        /\ dsize' = dsize /\ ret' = ret
    BY <2>1, <2>a, StartRemoveIs DEF StartRemove, Refuse, Proceed
  <2>. QED
    BY <1>1, <2>2, <2>3
<1>4. CASE WriteBlock
  BY <1>4, WriteImplements
<1>5. CASE Sync
  BY <1>5, SyncImplements
<1>6. CASE Answer
  <2>1. /\ pc \in {"answer", "refused"} /\ pc' = "idle" /\ dsize' = dsize /\ cells' = cells
        /\ job' = NoJob /\ ret' = IF pc = "answer" THEN "ok" ELSE "err"
    BY <1>6 DEF Answer
  <2>2. Live(dsize)' = Live(dsize)
    BY <2>1 DEF Live
  <2>3. job # NoJob /\ job \in Job
    BY <2>1 DEF DirInv, Settled, TypeOK
  <2>4. pc = "refused" => D!Refused
    <3>1. job.name \in AllNames
      BY <2>3 DEF Job
    <3>. QED
      BY <3>1, HasName DEF DirInv, Declined, D!Refused
  <2>. QED
    BY <2>1, <2>2, <2>3, <2>4 DEF D!Next, D!Answer, D!NoRequest, NoJob
<1>7. CASE AssertionFails \/ Crash
  <2>1. /\ pc # "idle" /\ pc' = "idle" /\ job' = NoJob /\ ret' = "died" /\ Die
    BY <1>7 DEF AssertionFails, Crash, Die
  <2>2. Live(dsize)' = Live(dsize)
    BY <2>1, CrashInv, LiveDisk
  <2>3. job # NoJob
    BY <2>1 DEF DirInv, Settled
  <2>. QED
    BY <2>1, <2>2, <2>3 DEF D!Next, D!Die, D!NoRequest, NoJob
<1>8. CASE UNCHANGED vars
  BY <1>8 DEF vars, D!vars, Live
<1>. QED
  BY <1>2, <1>3, <1>4, <1>5, <1>6, <1>7, <1>8 DEF Next, Command, Step

\* ImplementsDirectory: a name stands for its number from the moment its entry is in place
\* under the size on the disk until the moment it is removed, and a process that dies has
\* done the whole of a command or none of it, until a name that does not fit is written or an
\* entry behind padding is removed.
THEOREM DirectoryImplemented == Spec => ImplementsDirectory
<1>1. Init => D!Init
  <2>. SUFFICES ASSUME Init PROVE D!Init
    OBVIOUS
  <2>1. DirInv /\ FirstTwo(Es)
    BY InitInv
  <2>2. Good(cells, dsize, Es)
    BY <2>1, InOrderIs DEF DirInv, TypeOK, Cells
  <2>3. Live(dsize) = {[name |-> Dot, nr |-> Self], [name |-> DotDot, nr |-> Self]}
    BY <2>1, <2>2, LiveFirst, LiveDisk
  <2>. QED
    BY <2>3 DEF Init, D!Init, D!NoRequest, NoJob
<1>2. (spoiled \/ DirInv) /\ [Next]_vars => [spoiled' \/ D!Next]_D!vars
  BY NextImplements, SpoiledStays
<1>. QED
  BY <1>1, <1>2, EntriesInOrder, PTL DEF Spec, ImplementsDirectory
=============================================================================
