------------------------------- MODULE Freemap ------------------------------
(***************************************************************************)
(* One free map of the file system (inodes or data blocks): the array of   *)
(* words in memory (bitmap.c), its image on the disk, and the operations   *)
(* of super.c that keep the two together.  An operation changes one bit in *)
(* memory and then writes the one disk block that holds it; the process    *)
(* may die in between, and the next one reads the map from the disk.       *)
(*                                                                         *)
(* A word is the set of its bits that are set.                             *)
(***************************************************************************)
EXTENDS Integers

CONSTANTS
  BitsPerWord,      \* BITS_PER_WORD
  WordsPerBlock,    \* BLOCK_SIZE: a word is one byte
  MapBlocks         \* INODE_FREEMAP_SIZE or BLOCK_FREEMAP_SIZE

ASSUME FreemapAssumption ==
  /\ BitsPerWord \in Nat \ {0}
  /\ WordsPerBlock \in Nat \ {0}
  /\ MapBlocks \in Nat \ {0}

VARIABLES
  v,          \* struct bitmap: the words in memory
  disk,       \* the words on the disk
  pending,    \* the disk block still to be written, or None
  mounted     \* a process has the file system open

vars == <<v, disk, pending, mounted>>

None  == -1
Words == 0 .. (WordsPerBlock * MapBlocks - 1)
Bits  == 0 .. (BitsPerWord - 1)         \* WORD_ALLBITS
NBits == BitsPerWord * WordsPerBlock * MapBlocks
Ids   == 0 .. (NBits - 1)
Empty == [x \in Words |-> {}]

\* bitmap_translate
Word(i)   == i \div BitsPerWord
Offset(i) == i % BitsPerWord

IsSet(map, i) == Offset(i) \in map[Word(i)]
Marked(map)   == {i \in Ids : IsSet(map, i)}

\* The block of the map that holds bit i, as the two write functions compute it.
WrongBlockOf(i)  == i \div WordsPerBlock                        \* mutant
BlockOf(i)       == i \div (WordsPerBlock * BitsPerWord)

WordsOfBlock(nr) == {x \in Words : x \div WordsPerBlock = nr}

TypeOK ==
  /\ v \in [Words -> SUBSET Bits]
  /\ disk \in [Words -> SUBSET Bits]
  /\ pending \in (0 .. (MapBlocks - 1)) \cup {None}
  /\ mounted \in BOOLEAN

\* zero_blocks over the map, by mktestfs.
Init ==
  /\ v = Empty
  /\ disk = Empty
  /\ pending = None
  /\ mounted = FALSE

Mount ==
  /\ ~mounted
  /\ mounted' = TRUE
  /\ v' = disk
  /\ UNCHANGED <<disk, pending>>

\* The scan of bitmap_alloc: the first word with a clear bit, and its first clear bit.
FirstWord(x) ==
  /\ v[x] # Bits
  /\ \A y \in Words : y < x => v[y] = Bits

AnyBit(x, o) == o \notin v[x]                                   \* mutant
FirstBit(x, o) ==
  /\ o \notin v[x]
  /\ \A p \in Bits : p < o => p \in v[x]

\* bitmap_alloc succeeds; -ENOSPC changes nothing.
Alloc ==
  /\ mounted /\ pending = None
  /\ \E x \in Words, o \in Bits :
       /\ FirstWord(x) /\ FirstBit(x, o)
       /\ v' = [v EXCEPT ![x] = @ \cup {o}]
       /\ pending' = BlockOf(x * BitsPerWord + o)
  /\ UNCHANGED <<disk, mounted>>

\* bitmap_unmark asserts that the bit is set.
Free(i) ==
  /\ mounted /\ pending = None
  /\ IsSet(v, i)
  /\ v' = [v EXCEPT ![Word(i)] = @ \ {Offset(i)}]
  /\ pending' = BlockOf(i)
  /\ UNCHANGED <<disk, mounted>>

WriteBack ==
  /\ pending # None
  /\ disk' = [x \in Words |-> IF x \in WordsOfBlock(pending) THEN v[x] ELSE disk[x]]
  /\ pending' = None
  /\ UNCHANGED <<v, mounted>>

\* testfs_close_super_block writes the whole map.
Close ==
  /\ mounted /\ pending = None
  /\ disk' = v
  /\ v' = Empty
  /\ mounted' = FALSE
  /\ UNCHANGED pending

\* The process dies; whatever it had not written is lost.
Crash ==
  /\ mounted
  /\ v' = Empty
  /\ pending' = None
  /\ mounted' = FALSE
  /\ UNCHANGED disk

Next ==
  \/ Mount
  \/ Alloc
  \/ \E i \in Ids : Free(i)
  \/ WriteBack
  \/ Close
  \/ Crash

Spec == Init /\ [][Next]_vars
-----------------------------------------------------------------------------
\* Between operations the memory and the disk are the same, and during one they differ
\* in one bit only: the first free one of the disk, now marked, or a marked one, now free.
\* The disk block about to be written is the one that holds this bit, so the single-block
\* writes of super.c bring the disk up to date.
OneAhead ==
  /\ mounted /\ pending = None => v = disk
  /\ pending # None =>
       /\ mounted
       /\ \E i \in Ids :
            /\ pending = BlockOf(i)
            /\ \/ /\ ~IsSet(disk, i) /\ \A j \in Ids : j < i => IsSet(disk, j)
                  /\ v = [disk EXCEPT ![Word(i)] = @ \cup {Offset(i)}]
               \/ /\ IsSet(disk, i)
                  /\ v = [disk EXCEPT ![Word(i)] = @ \ {Offset(i)}]

Pool == INSTANCE IdPool WITH used <- Marked(disk)

\* On the disk the map is a first-fit pool of numbers, and a crash at any point
\* is invisible: it loses an operation as a whole or not at all.
ImplementsPool == Pool!Spec
=============================================================================
