---------------------------- MODULE FreemapProofs ---------------------------
(***************************************************************************)
(* What is proved of Freemap for every number and size of the map's        *)
(* blocks: its types, that memory and disk stay in step, and that the disk *)
(* shows nothing but the pool of numbers of IdPool.                        *)
(***************************************************************************)
EXTENDS Freemap, TLAPS

-----------------------------------------------------------------------------
\* bitmap_translate splits a number into a word and a place in it, and loses nothing.
LEMMA DivMod ==
  ASSUME NEW n \in Nat, NEW m \in Nat \ {0}
  PROVE  /\ n \div m \in Nat /\ n % m \in 0 .. (m - 1)
         /\ n = m * (n \div m) + (n % m)
<1>1. n = m * (n \div m) + (n % m)
  OBVIOUS
<1>2. n \div m \in Nat
  OBVIOUS
<1>3. n % m \in 0 .. (m - 1)
  OBVIOUS
<1>. QED
  BY <1>1, <1>2, <1>3

\* Quotient and remainder are unique.
LEMMA DivUnique ==
  ASSUME NEW m \in Nat \ {0}, NEW q \in Nat, NEW s \in 0 .. (m - 1)
  PROVE  (m * q + s) \div m = q /\ (m * q + s) % m = s
OBVIOUS

\* A smaller quotient makes a smaller number.
LEMMA Factor ==
  ASSUME NEW a \in Nat, NEW b \in Nat, a < b, NEW m \in Nat \ {0}, NEW s \in 0 .. (m - 1)
  PROVE  m * a + s < m * b
<1>1. b = a + 1 + (b - a - 1) /\ b - a - 1 \in Nat
  OBVIOUS
<1>2. m * b = m * a + m + m * (b - a - 1)
  BY <1>1
<1>. QED
  BY <1>2

\* Dividing twice is dividing by the product.
LEMMA Nested ==
  ASSUME NEW b \in Nat \ {0}, NEW w \in Nat \ {0},
         NEW q \in Nat, NEW r \in 0 .. (w - 1), NEW o \in 0 .. (b - 1)
  PROVE  (b * (w * q + r) + o) \div (w * b) = q
<1>1. b * (w * q + r) + o = (w * b) * q + (b * r + o)
  <2>1. b * (w * q + r) = b * (w * q) + b * r
    OBVIOUS
  <2>2. b * (w * q) = (w * b) * q
    OBVIOUS
  <2>. QED
    BY <2>1, <2>2
<1>2. b * r + o \in 0 .. (w * b - 1)
  <2>1. b * r + o < b * w
    BY Factor
  <2>2. b * r + o \in Nat /\ b * w = w * b /\ b * w \in Nat
    OBVIOUS
  <2>. QED
    BY <2>1, <2>2
<1>3. w * b \in Nat \ {0}
  OBVIOUS
<1>. QED
  BY <1>1, <1>2, <1>3, DivUnique

\* A bit has its word and its place in the word.
LEMMA WordInRange == ASSUME NEW i \in Ids PROVE Word(i) \in Words /\ Offset(i) \in Bits
<1>. DEFINE W == WordsPerBlock * MapBlocks
<1>1. W \in Nat \ {0} /\ BitsPerWord \in Nat \ {0}
  BY FreemapAssumption DEF FreemapAssumption
<1>2. NBits = BitsPerWord * W
  BY FreemapAssumption DEF FreemapAssumption, NBits
<1>3. i \in Nat /\ i < NBits
  BY <1>1, <1>2 DEF Ids
<1>4. /\ Word(i) \in Nat /\ Offset(i) \in Bits
      /\ i = BitsPerWord * Word(i) + Offset(i)
  BY <1>1, <1>3, DivMod DEF Word, Offset, Bits
<1>5. Word(i) < W
  <2>. HIDE DEF W
  <2>1. SUFFICES ASSUME W <= Word(i) PROVE FALSE
    BY <1>1, <1>4
  <2>2. BitsPerWord * W <= BitsPerWord * Word(i)
    BY <2>1, <1>1, <1>4
  <2>. QED
    BY <2>2, <1>1, <1>2, <1>3, <1>4 DEF Bits
<1>. QED
  BY <1>4, <1>5, <1>1 DEF Words

\* Both ways of finding the disk block of a bit agree: through its number and through
\* its word.
LEMMA BlockOfWord == ASSUME NEW i \in Ids PROVE BlockOf(i) = Word(i) \div WordsPerBlock
<1>. DEFINE x == Word(i)
            q == x \div WordsPerBlock
            r == x % WordsPerBlock
<1>1. /\ BitsPerWord \in Nat \ {0} /\ WordsPerBlock \in Nat \ {0} /\ i \in Nat
  BY FreemapAssumption DEF FreemapAssumption, Ids, NBits
<1>2. x \in Nat /\ Offset(i) \in 0 .. (BitsPerWord - 1) /\ i = BitsPerWord * x + Offset(i)
  BY <1>1, DivMod DEF Word, Offset
<1>3. q \in Nat /\ r \in 0 .. (WordsPerBlock - 1) /\ x = WordsPerBlock * q + r
  BY <1>1, <1>2, DivMod
<1>4. i = BitsPerWord * (WordsPerBlock * q + r) + Offset(i)
  <2>. HIDE DEF q, r, x
  <2>. QED  BY <1>2, <1>3
<1>5. i \div (WordsPerBlock * BitsPerWord) = q
  <2>. HIDE DEF q, r, x
  <2>. QED  BY <1>1, <1>2, <1>3, <1>4, Nested
<1>. QED
  BY <1>5 DEF BlockOf

\* A number is made of its word and its place in it, and they of no other number.
LEMMA Translate ==
  ASSUME NEW x \in Words, NEW o \in Bits
  PROVE  /\ x * BitsPerWord + o \in Ids
         /\ Word(x * BitsPerWord + o) = x /\ Offset(x * BitsPerWord + o) = o
<1>. DEFINE W == WordsPerBlock * MapBlocks
            B == BitsPerWord
<1>1. W \in Nat \ {0} /\ B \in Nat \ {0}
  BY FreemapAssumption DEF FreemapAssumption
<1>2. NBits = B * W
  BY FreemapAssumption DEF FreemapAssumption, NBits
<1>3. x \in Nat /\ x < W /\ o \in 0 .. (B - 1)
  BY <1>1 DEF Words, Bits
<1>4. x * B + o = B * x + o /\ B * x + o \in Nat
  BY <1>1, <1>3
<1>5. B * x + o < B * W
  <2>. HIDE DEF W
  <2>. QED  BY <1>1, <1>3, Factor
<1>6. x * B + o \in Ids
  <2>. HIDE DEF W
  <2>. QED  BY <1>1, <1>2, <1>4, <1>5 DEF Ids
<1>7. (B * x + o) \div B = x /\ (B * x + o) % B = o
  BY <1>1, <1>3, DivUnique
<1>. QED
  BY <1>4, <1>6, <1>7 DEF Word, Offset

\* They give the bit back.
LEMMA Recompose ==
  ASSUME NEW i \in Ids
  PROVE  i \in Nat /\ Word(i) \in Nat /\ Offset(i) \in 0 .. (BitsPerWord - 1)
         /\ i = BitsPerWord * Word(i) + Offset(i)
<1>1. BitsPerWord \in Nat \ {0} /\ i \in Nat
  BY FreemapAssumption DEF FreemapAssumption, Ids, NBits
<1>. QED
  BY <1>1, DivMod DEF Word, Offset

\* Different bits differ in one of them.
LEMMA Distinct ==
  ASSUME NEW i \in Ids, NEW j \in Ids, Word(i) = Word(j), Offset(i) = Offset(j)
  PROVE  i = j
BY Recompose

\* The order of numbers is that of their words, and in a word that of their places.
LEMMA Order ==
  ASSUME NEW i \in Ids, NEW j \in Ids, j < i
  PROVE  Word(j) < Word(i) \/ (Word(j) = Word(i) /\ Offset(j) < Offset(i))
<1>1. /\ BitsPerWord \in Nat \ {0} /\ i \in Nat /\ j \in Nat
      /\ Word(i) \in Nat /\ Offset(i) \in 0 .. (BitsPerWord - 1)
      /\ Word(j) \in Nat /\ Offset(j) \in 0 .. (BitsPerWord - 1)
      /\ i = BitsPerWord * Word(i) + Offset(i)
      /\ j = BitsPerWord * Word(j) + Offset(j)
  BY Recompose, FreemapAssumption DEF FreemapAssumption
<1>2. CASE Word(i) < Word(j)
  <2>1. BitsPerWord * Word(i) + Offset(i) < BitsPerWord * Word(j)
    BY <1>1, <1>2, Factor
  <2>2. BitsPerWord * Word(j) \in Nat
    BY <1>1
  <2>. QED
    BY <1>1, <2>1, <2>2
<1>3. CASE Word(i) = Word(j)
  <2>1. Offset(j) < Offset(i)
    BY <1>1, <1>3
  <2>. QED
    BY <2>1, <1>3
<1>4. Word(j) < Word(i) \/ Word(i) < Word(j) \/ Word(i) = Word(j)
  <2>1. Word(i) \in Int /\ Word(j) \in Int
    BY <1>1
  <2>. QED
    BY <2>1
<1>. QED
  BY <1>2, <1>3, <1>4
-----------------------------------------------------------------------------
\* Marking and unmarking one bit of a map.
LEMMA MarkOne ==
  ASSUME NEW m \in [Words -> SUBSET Bits], NEW i \in Ids
  PROVE  /\ [m EXCEPT ![Word(i)] = @ \cup {Offset(i)}] \in [Words -> SUBSET Bits]
         /\ Marked([m EXCEPT ![Word(i)] = @ \cup {Offset(i)}]) = Marked(m) \cup {i}
<1>. DEFINE n == [m EXCEPT ![Word(i)] = @ \cup {Offset(i)}]
<1>1. n \in [Words -> SUBSET Bits]
  BY WordInRange
<1>2. ASSUME NEW j \in Ids PROVE IsSet(n, j) <=> IsSet(m, j) \/ j = i
  <2>1. CASE Word(j) = Word(i)
    BY <2>1, WordInRange, Distinct DEF IsSet
  <2>2. CASE Word(j) # Word(i)
    BY <2>2, WordInRange DEF IsSet
  <2>. QED
    BY <2>1, <2>2
<1>. QED
  BY <1>1, <1>2 DEF Marked

\* Unmarking a bit leaves the others.
LEMMA UnmarkOne ==
  ASSUME NEW m \in [Words -> SUBSET Bits], NEW i \in Ids
  PROVE  /\ [m EXCEPT ![Word(i)] = @ \ {Offset(i)}] \in [Words -> SUBSET Bits]
         /\ Marked([m EXCEPT ![Word(i)] = @ \ {Offset(i)}]) = Marked(m) \ {i}
<1>. DEFINE n == [m EXCEPT ![Word(i)] = @ \ {Offset(i)}]
<1>1. n \in [Words -> SUBSET Bits]
  BY WordInRange
<1>2. ASSUME NEW j \in Ids PROVE IsSet(n, j) <=> IsSet(m, j) /\ j # i
  <2>1. CASE Word(j) = Word(i)
    BY <2>1, WordInRange, Distinct DEF IsSet
  <2>2. CASE Word(j) # Word(i)
    BY <2>2, WordInRange DEF IsSet
  <2>. QED
    BY <2>1, <2>2
<1>. QED
  BY <1>1, <1>2 DEF Marked

\* The block that holds a bit is one of the map's.
LEMMA BlockInRange == ASSUME NEW i \in Ids PROVE BlockOf(i) \in 0 .. (MapBlocks - 1)
<1>1. Word(i) \in Nat /\ Word(i) < WordsPerBlock * MapBlocks
  BY WordInRange, FreemapAssumption DEF FreemapAssumption, Words
<1>. DEFINE q == Word(i) \div WordsPerBlock
            r == Word(i) % WordsPerBlock
<1>2. /\ q \in Nat /\ r \in 0 .. (WordsPerBlock - 1) /\ Word(i) = WordsPerBlock * q + r
      /\ WordsPerBlock \in Nat \ {0} /\ MapBlocks \in Nat \ {0}
  BY <1>1, DivMod, FreemapAssumption DEF FreemapAssumption
<1>3. q < MapBlocks
  <2>. HIDE DEF q, r
  <2>1. SUFFICES ASSUME MapBlocks <= q PROVE FALSE
    BY <1>2
  <2>2. WordsPerBlock * MapBlocks <= WordsPerBlock * q
    BY <2>1, <1>2
  <2>. QED
    BY <2>2, <1>1, <1>2
<1>. QED
  BY <1>2, <1>3, BlockOfWord

\* The scan finds the first bit that is clear.
LEMMA ScanIsFirstFit ==
  ASSUME TypeOK, NEW x \in Words, NEW o \in Bits, FirstWord(x), FirstBit(x, o)
  PROVE  LET i == x * BitsPerWord + o
         IN  i \in Ids /\ ~IsSet(v, i) /\ \A j \in Ids : j < i => IsSet(v, j)
<1>. DEFINE i == x * BitsPerWord + o
<1>1. i \in Ids /\ Word(i) = x /\ Offset(i) = o
  BY Translate
<1>. HIDE DEF i
<1>2. ASSUME NEW j \in Ids, j < i PROVE IsSet(v, j)
  <2>1. Word(j) \in Words /\ Offset(j) \in Bits
    BY WordInRange
  <2>2. CASE Word(j) < x
    BY <2>1, <2>2 DEF FirstWord, IsSet
  <2>3. CASE Word(j) = x /\ Offset(j) < o
    BY <2>1, <2>3 DEF FirstBit, IsSet
  <2>. QED
    BY <1>1, <1>2, <2>2, <2>3, Order
<1>3. ~IsSet(v, i)
  BY <1>1 DEF FirstBit, IsSet
<1>. QED
  BY <1>1, <1>2, <1>3 DEF i
-----------------------------------------------------------------------------
Inv == TypeOK /\ OneAhead

\* A write of the one block brings the whole disk up to date.
LEMMA DiskCatchesUp == ASSUME Inv, WriteBack PROVE disk' = v
<1>1. PICK i \in Ids :
        /\ pending = BlockOf(i)
        /\ \/ v = [disk EXCEPT ![Word(i)] = @ \cup {Offset(i)}]
           \/ v = [disk EXCEPT ![Word(i)] = @ \ {Offset(i)}]
  BY DEF Inv, OneAhead, WriteBack
<1>2. Word(i) \in WordsOfBlock(pending)
  BY <1>1, BlockOfWord, WordInRange DEF WordsOfBlock
<1>3. \A x \in Words : x \notin WordsOfBlock(pending) => v[x] = disk[x]
  BY <1>1, <1>2 DEF Inv, TypeOK
<1>4. disk' = [x \in Words |-> v[x]]
  BY <1>3 DEF WriteBack
<1>. QED
  BY <1>4 DEF Inv, TypeOK

\* Every operation keeps the invariant.
LEMMA InitInv == Init => Inv
<1>. SUFFICES ASSUME Init PROVE Inv
  OBVIOUS
<1>1. Empty \in [Words -> SUBSET Bits]
  BY DEF Empty
<1>. QED
  BY <1>1 DEF Init, Inv, TypeOK, OneAhead, None

\* Every operation keeps the invariant.
LEMMA NextInv == ASSUME Inv, Next PROVE Inv'
<1>. USE DEF Inv
<1>1. CASE Mount
  BY <1>1 DEF Mount, TypeOK, OneAhead, None
<1>2. CASE Alloc
  <2>1. PICK x \in Words, o \in Bits :
          /\ FirstWord(x) /\ FirstBit(x, o)
          /\ v' = [v EXCEPT ![x] = @ \cup {o}]
          /\ pending' = BlockOf(x * BitsPerWord + o)
    BY <1>2 DEF Alloc
  <2>. DEFINE i == x * BitsPerWord + o
  <2>2. i \in Ids /\ Word(i) = x /\ Offset(i) = o
    BY Translate
  <2>3. ~IsSet(v, i) /\ \A j \in Ids : j < i => IsSet(v, j)
    BY <2>1, ScanIsFirstFit
  <2>. HIDE DEF i
  <2>4. v = disk /\ mounted /\ UNCHANGED <<disk, mounted>>
    BY <1>2 DEF Alloc, OneAhead
  <2>5. v' = [disk EXCEPT ![Word(i)] = @ \cup {Offset(i)}] /\ pending' = BlockOf(i)
    BY <2>1, <2>2, <2>4 DEF i
  <2>6. pending' \in 0 .. (MapBlocks - 1)
    BY <2>2, <2>5, BlockInRange
  <2>7. TypeOK'
    BY <2>2, <2>4, <2>5, <2>6, MarkOne DEF TypeOK
  <2>8. pending' # None
    BY <2>6, FreemapAssumption DEF FreemapAssumption, None
  <2>9. OneAhead'
    BY <2>2, <2>3, <2>4, <2>5, <2>8 DEF OneAhead, IsSet
  <2>. QED
    BY <2>7, <2>9
<1>3. ASSUME NEW i \in Ids, Free(i) PROVE Inv'
  <2>4. v = disk /\ mounted /\ IsSet(disk, i) /\ UNCHANGED <<disk, mounted>>
    BY <1>3 DEF Free, OneAhead
  <2>5. v' = [disk EXCEPT ![Word(i)] = @ \ {Offset(i)}] /\ pending' = BlockOf(i)
    BY <1>3, <2>4 DEF Free
  <2>6. pending' \in 0 .. (MapBlocks - 1)
    BY <2>5, BlockInRange
  <2>7. TypeOK'
    BY <2>4, <2>5, <2>6, UnmarkOne DEF TypeOK
  <2>8. pending' # None
    BY <2>6, FreemapAssumption DEF FreemapAssumption, None
  <2>9. OneAhead'
    BY <2>4, <2>5, <2>8 DEF OneAhead, IsSet
  <2>. QED
    BY <2>7, <2>9
<1>4. CASE WriteBack
  BY <1>4, DiskCatchesUp DEF WriteBack, TypeOK, OneAhead
<1>5. CASE Close
  <2>1. Empty \in [Words -> SUBSET Bits]
    BY DEF Empty
  <2>. QED
    BY <1>5, <2>1 DEF Close, TypeOK, OneAhead
<1>6. CASE Crash
  <2>1. Empty \in [Words -> SUBSET Bits]
    BY DEF Empty
  <2>. QED
    BY <1>6, <2>1 DEF Crash, TypeOK, OneAhead
<1>. QED
  BY <1>1, <1>2, <1>3, <1>4, <1>5, <1>6 DEF Next

\* It holds in every state.
LEMMA Invariance == Spec => []Inv
<1>1. Inv /\ [Next]_vars => Inv'
  <2>1. ASSUME Inv, UNCHANGED vars PROVE Inv'
    BY <2>1 DEF Inv, TypeOK, OneAhead, IsSet, vars
  <2>. QED
    BY <2>1, NextInv
<1>. QED
  BY <1>1, InitInv, PTL DEF Spec

\* The two copies of a free map and the write that is due have their types.
THEOREM TypeCorrect == Spec => []TypeOK
<1>1. Inv => TypeOK
  BY DEF Inv
<1>. QED
  BY <1>1, Invariance, PTL

\* The memory is never more than the one bit ahead of the disk that the next write of a
\* block brings there.
THEOREM InStep == Spec => []OneAhead
<1>1. Inv => OneAhead
  BY DEF Inv
<1>. QED
  BY <1>1, Invariance, PTL
-----------------------------------------------------------------------------
\* What a step does to the marks on the disk: nothing, or one operation of the pool.
LEMMA StepOfPool == ASSUME Inv, Next PROVE Pool!Next \/ UNCHANGED Marked(disk)
<1>. USE DEF Inv
<1>1. CASE WriteBack
  <2>1. disk' = v
    BY <1>1, DiskCatchesUp
  <2>2. PICK i \in Ids :
          \/ /\ ~IsSet(disk, i) /\ \A j \in Ids : j < i => IsSet(disk, j)
             /\ v = [disk EXCEPT ![Word(i)] = @ \cup {Offset(i)}]
          \/ /\ IsSet(disk, i)
             /\ v = [disk EXCEPT ![Word(i)] = @ \ {Offset(i)}]
    BY <1>1 DEF WriteBack, OneAhead
  <2>3. CASE /\ ~IsSet(disk, i) /\ \A j \in Ids : j < i => IsSet(disk, j)
             /\ v = [disk EXCEPT ![Word(i)] = @ \cup {Offset(i)}]
    <3>1. Marked(disk)' = Marked(disk) \cup {i}
      BY <2>1, <2>3, MarkOne DEF TypeOK, Marked, IsSet
    <3>2. i \in Ids \ Marked(disk)
      BY <2>3 DEF Marked
    <3>3. \A j \in Ids \ Marked(disk) : i <= j
      BY <2>3 DEF Marked, Ids
    <3>. QED
      BY <3>1, <3>2, <3>3 DEF Pool!Next, Pool!Take
  <2>4. CASE /\ IsSet(disk, i)
             /\ v = [disk EXCEPT ![Word(i)] = @ \ {Offset(i)}]
    <3>1. Marked(disk)' = Marked(disk) \ {i}
      BY <2>1, <2>4, UnmarkOne DEF TypeOK, Marked, IsSet
    <3>2. i \in Marked(disk)
      BY <2>4 DEF Marked
    <3>. QED
      BY <3>1, <3>2 DEF Pool!Next, Pool!Release
  <2>. QED
    BY <2>2, <2>3, <2>4
<1>2. CASE Close
  BY <1>2 DEF Close, OneAhead, Marked, IsSet
<1>3. CASE Mount \/ Alloc \/ (\E i \in Ids : Free(i)) \/ Crash
  BY <1>3 DEF Mount, Alloc, Free, Crash, Marked, IsSet
<1>. QED
  BY <1>1, <1>2, <1>3 DEF Next

\* Seen from the disk a free map is a pool of numbers that gives out the least one not in
\* use: every operation, and a crash wherever it happens, takes one number, gives one back
\* or changes nothing.
THEOREM Refinement == Spec => ImplementsPool
<1>1. Init => Pool!Init
  BY WordInRange DEF Init, Pool!Init, Marked, IsSet, Empty
<1>2. Inv /\ [Next]_vars => [Pool!Next]_(Marked(disk))
  <2>1. ASSUME UNCHANGED vars PROVE UNCHANGED Marked(disk)
    BY <2>1 DEF vars, Marked, IsSet
  <2>. QED
    BY <2>1, StepOfPool
<1>. QED
  BY <1>1, <1>2, Invariance, PTL DEF Spec, ImplementsPool, Pool!Spec
=============================================================================
