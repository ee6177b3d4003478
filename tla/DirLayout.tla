----------------------------- MODULE DirLayout ------------------------------
(***************************************************************************)
(* The data of one directory: entries of several lengths one behind the    *)
(* other, none across the end of a block, with padding where the next one  *)
(* did not fit and removed entries that wait to be used again.  A command  *)
(* creates or removes one name.  It writes the data block by block and     *)
(* then the inode with the new size; the process may die in between.       *)
(*                                                                         *)
(* A cell is the unit of length: an entry is a cell with the length of the *)
(* name, a cell with the inode number, and the cells of the name, which    *)
(* all hold the name.  Padding is cells that hold 0.                       *)
(*                                                                         *)
(* Two things break this order, and nothing in the code prevents them: a   *)
(* name too long for a block, and the removal of an entry that follows     *)
(* padding.  Both are here; spoiled remembers that one of them was done.   *)
(***************************************************************************)
EXTENDS Integers, Sequences, Functions

CONSTANTS
  BlockSize,      \* BLOCK_SIZE, in cells
  Names,          \* the names a file may have
  NameLen,        \* the cells of each, with the one that ends it
  Dot, DotDot,    \* "." and ".."
  Numbers,        \* the inode numbers of files
  Limit,          \* bound: cells a directory may grow to, in the guard of Proceed
  MaxCmds         \* bound: commands of a behaviour

AllNames == Names \cup {Dot, DotDot}
Header   == 2     \* sizeof(struct dirent): d_name_len and d_inode_nr
Self     == 0     \* the number of the directory, and of its parent

ASSUME DirLayoutAssumption ==
  /\ BlockSize \in Nat /\ BlockSize > Header + 1
  /\ Names \subseteq Nat \ {0} /\ {Dot, DotDot} \subseteq Nat \ {0}
  /\ Dot # DotDot /\ {Dot, DotDot} \cap Names = {}
  /\ NameLen \in [AllNames -> Nat \ {0}]
  /\ Numbers \subseteq Nat \ {Self}
  /\ Limit \in Nat /\ Limit >= 2 * BlockSize /\ MaxCmds \in Nat

\* The entry of a name that fits is moved to the next block at most, and lies within it.
\* "." and ".." fit: they are the only names whose length the code fixes.
Fits(name) == Header + NameLen[name] < BlockSize
ASSUME DotsFit == Fits(Dot) /\ Fits(DotDot)

VARIABLES
  cells,          \* on the disk: the data of the directory
  dsize,          \* on the disk: i_size
  size,           \* in memory: i_size
  todo,           \* the block writes the command has still to make
  pc,             \* where the command stands
  job,            \* the command being run, or NoJob
  ret,            \* how the last command ended
  was,            \* what the data was when it started (a history variable)
  spoiled,        \* a name that does not fit was written, or an entry behind padding removed
  ncmd            \* commands started so far

vars == <<cells, dsize, size, todo, pc, job, ret, was, spoiled, ncmd>>
-----------------------------------------------------------------------------
Places  == 0 .. (Limit - 1)
Value   == {-1} \cup Nat
Removed == -1
NoJob   == [op |-> "none", name |-> 0, nr |-> 0]
Job     == [op : {"create", "remove"}, name : AllNames, nr : Numbers \cup {Self}] \cup {NoJob}
Write   == [at : Nat, data : Seq(Value)]

TypeOK ==
  /\ cells \in [Places -> Value]
  /\ dsize \in 0 .. Limit /\ size \in 0 .. Limit
  /\ todo \in Seq(Write)
  /\ pc \in {"idle", "write", "sync", "answer", "refused", "lost"}
  /\ job \in Job /\ ret \in {"ok", "err", "died"}
  /\ was \in [Places -> Value] /\ spoiled \in BOOLEAN /\ ncmd \in Nat
-----------------------------------------------------------------------------
MaxOf(a, b) == IF a >= b THEN a ELSE b
MinOf(a, b) == IF a <= b THEN a ELSE b
BlockOf(o)  == o \div BlockSize
Cell(c, o)  == IF o \in Places THEN c[o] ELSE 0

\* testfs_next_dirent, from offset o.  A header that would touch the end of its block is
\* in the next block, and so is one whose length reads 0, which is padding.  Where the
\* search stood is from; where the entry is, at.
Dirent(c, o) ==
  LET header == IF BlockOf(o + Header) > BlockOf(o) THEN BlockOf(o + Header) * BlockSize ELSE o
      at  == IF Cell(c, header) = 0 THEN (BlockOf(header) + 1) * BlockSize ELSE header
      len == Cell(c, at)
  IN  [from |-> o, at |-> at, len |-> len, nr |-> Cell(c, at + 1),
       name |-> [k \in 1 .. len |-> Cell(c, at + 1 + k)],
       next |-> at + Header + len]

\* The entries of a directory of n cells, in the order of the loops over
\* testfs_next_dirent, up to one that testfs_read_data cannot read below the size.
DirentsFrom(c, n) ==
  LET from[o \in 0 .. Limit] ==
        IF o >= n THEN <<>>
        ELSE LET e == Dirent(c, o)
             IN  IF e.len >= 0 /\ e.next <= n THEN <<e>> \o from[e.next] ELSE <<>>
  IN  from
Dirents(c, n) == DirentsFrom(c, n)[0]
EndOf(es) == IF es = <<>> THEN 0 ELSE es[Len(es)].next

NameCells(name) == [k \in 1 .. NameLen[name] |-> name]
Named(e, name)  == e.nr >= 0 /\ e.name = NameCells(name)

\* The first entry of es that satisfies a test is the one with the least position.
First(ks) == CHOOSE k \in ks : \A j \in ks : k <= j
-----------------------------------------------------------------------------
\* testfs_write_data of data at offset off, one write for each block it lies in.
Writes(off, data) ==
  IF data = <<>> THEN <<>>
  ELSE LET b0 == BlockOf(off)
       IN  [k \in 1 .. (BlockOf(off + Len(data) - 1) - b0 + 1) |->
              LET lo == MaxOf(off, (b0 + k - 1) * BlockSize)
                  hi == MinOf(off + Len(data), (b0 + k) * BlockSize)
              IN  [at |-> lo, data |-> SubSeq(data, lo - off + 1, hi - off)]]

\* d_inode_nr of an entry that is removed.
Negated(nr) == 0 - nr                                                     \* mutant
Erased(nr)  == Removed

Zeros(n) == [k \in 1 .. n |-> 0]
EntryCells(name, nr) == <<NameLen[name], nr>> \o NameCells(name)

\* testfs_write_dirent: an entry that would touch the end of its block goes to a later
\* one, and what is left of the block is filled with zeros.
Crosses(o, total)     == BlockOf(o + total) > BlockOf(o)
UnwrittenPad(o, n)    == <<>>                                             \* mutant
Padding(o, n)         == Writes(o, Zeros(n))
WriteDirent(name, nr, o) ==
  LET total == Header + NameLen[name]
      next  == BlockOf(o + total) * BlockSize
  IN  IF Crosses(o, total)
      THEN Padding(o, next - o) \o Writes(next, EntryCells(name, nr))
      ELSE Writes(o, EntryCells(name, nr))

\* testfs_add_dirent: the first removed entry of the same length is used again; where
\* the search stood before it (p_offset), not where the entry is, is what it returns.
AnyRemoved(es, name)  == {k \in DOMAIN es : es[k].nr < 0}                 \* mutant
Reusable(es, name)    == {k \in DOMAIN es : es[k].nr < 0 /\ es[k].len = NameLen[name]}
Slot(es, name) ==
  IF Reusable(es, name) # {} THEN es[First(Reusable(es, name))].from
  ELSE EndOf(es)

Found(es, name) == {k \in DOMAIN es : Named(es[k], name)}

\* Entries without a name: the length reads 0 in the next block too.  The code compares
\* a name with memory it has not written, which may take it for any of them (odd).
Nameless(es) == {k \in DOMAIN es : es[k].len = 0 /\ es[k].nr >= 0}

\* The search ends where the directory ends, or at an entry it cannot read.
Ends(es) == EndOf(es) = size

\* The check of the length reads the global namelen, which is always 0.
namelen == 0
-----------------------------------------------------------------------------
Init ==
  LET first  == EntryCells(Dot, Self) \o EntryCells(DotDot, Self)
      second == IF Crosses(Header + NameLen[Dot], Header + NameLen[DotDot])
                THEN BlockSize ELSE Header + NameLen[Dot]
  IN  /\ cells = [o \in Places |->
                    IF o < Header + NameLen[Dot] THEN first[o + 1]
                    ELSE IF o >= second /\ o < second + Header + NameLen[DotDot]
                         THEN EntryCells(DotDot, Self)[o - second + 1] ELSE 0]
      /\ dsize = second + Header + NameLen[DotDot] /\ size = dsize
      /\ todo = <<>> /\ pc = "idle" /\ job = NoJob /\ ret = "ok"
      /\ was = cells /\ spoiled = FALSE /\ ncmd = 0

CanStart == pc = "idle" /\ ncmd < MaxCmds

Start(request) == job' = request /\ was' = cells /\ ncmd' = ncmd + 1

\* The command is refused: nothing is written.
Refuse ==
  /\ todo' = <<>> /\ pc' = "refused"
  /\ UNCHANGED <<cells, dsize, size, ret, spoiled>>

\* The search comes to an entry that is not all below the size.
Lose ==
  /\ todo' = <<>> /\ pc' = "lost"
  /\ UNCHANGED <<cells, dsize, size, ret, spoiled>>

Proceed(writes, spoils) ==
  /\ \A k \in DOMAIN writes : writes[k].at + Len(writes[k].data) <= Limit
  /\ todo' = writes /\ pc' = "write"
  /\ spoiled' = (spoiled \/ spoils)
  /\ UNCHANGED <<cells, dsize, size, ret>>

InUse(es) == {e.nr : e \in Range(es)}

\* testfs_create_file_or_dir: the name is looked up, then testfs_add_dirent.  The inode
\* number is the first that is free, which is the first that no entry names while the
\* entries can be relied on.
StartCreate(name, nr) ==
  LET es == Dirents(cells, size)
  IN  /\ CanStart
      /\ ~spoiled => /\ nr \in Numbers \ InUse(es)
                     /\ \A other \in Numbers \ InUse(es) : nr <= other
      /\ Start([op |-> "create", name |-> name, nr |-> nr])
      /\ \E odd \in SUBSET Nameless(es) :
           IF Found(es, name) \cup odd # {} \/ namelen + 1 > BlockSize - Header THEN Refuse
           ELSE IF ~Ends(es) THEN Lose
           ELSE Proceed(WriteDirent(name, nr, Slot(es, name)), ~Fits(name))

\* testfs_remove_dirent: the whole entry is written again with the number Removed, at
\* p_offset, which is not where the entry is when padding lies in between.
Rewrite(e) == Writes(e.from, <<e.len, Erased(e.nr)>> \o e.name)
StartRemove(name) ==
  LET es == Dirents(cells, size)
  IN  /\ CanStart
      /\ Start([op |-> "remove", name |-> name, nr |-> Self])
      /\ IF name \in {Dot, DotDot} THEN Refuse
         ELSE \E odd \in SUBSET Nameless(es) :
                LET found == Found(es, name) \cup odd
                    e     == es[First(found)]
                IN  \/ found = {} /\ Ends(es) /\ Refuse
                    \/ found = {} /\ ~Ends(es) /\ Lose
                    \/ odd # {} /\ Refuse                  \* -ENOTEMPTY
                    \/ found # {} /\ Proceed(Rewrite(e), e.from # e.at)

\* One block is written; at the end of testfs_write_data the size covers it.
WriteBlock ==
  /\ pc = "write" /\ todo # <<>>
  /\ LET w == Head(todo)
     IN  /\ cells' = [o \in Places |-> IF o >= w.at /\ o < w.at + Len(w.data)
                                       THEN w.data[o - w.at + 1] ELSE cells[o]]
         /\ size' = MaxOf(size, w.at + Len(w.data))
  /\ todo' = Tail(todo)
  /\ pc' = IF Tail(todo) = <<>> THEN "sync" ELSE "write"
  /\ UNCHANGED <<dsize, job, ret, was, spoiled, ncmd>>

\* testfs_sync_inode of the directory.
Sync ==
  /\ pc = "sync"
  /\ dsize' = size
  /\ pc' = "answer"
  /\ UNCHANGED <<cells, size, todo, job, ret, was, spoiled, ncmd>>

Answer ==
  /\ pc \in {"answer", "refused"}
  /\ ret' = IF pc = "answer" THEN "ok" ELSE "err"
  /\ pc' = "idle" /\ job' = NoJob /\ was' = cells
  /\ UNCHANGED <<cells, dsize, size, todo, spoiled, ncmd>>

\* Blocks that the inode on the disk does not refer to are lost; the rest of a block it
\* does refer to keeps what was written to it.
Die ==
  /\ cells' = [o \in Places |->
                 IF BlockOf(o) * BlockSize < dsize THEN cells[o] ELSE 0]
  /\ size' = dsize
  /\ todo' = <<>> /\ pc' = "idle" /\ job' = NoJob /\ ret' = "died" /\ was' = cells'
  /\ UNCHANGED <<dsize, spoiled, ncmd>>

\* testfs_read_data asserts that what it reads is below the size.
AssertionFails == pc = "lost" /\ Die

\* The process dies between two disk writes.
Crash == pc # "idle" /\ Die

Command ==
  \/ \E name \in Names, nr \in Numbers : StartCreate(name, nr)
  \/ \E name \in AllNames : StartRemove(name)

Step == WriteBlock \/ Sync \/ Answer \/ AssertionFails

Next == Command \/ Step \/ Crash

Spec == Init /\ [][Next]_vars /\ WF_vars(Step)
-----------------------------------------------------------------------------
\* Until a name that does not fit is written or an entry behind padding is removed, the
\* entries end where the directory ends, and each is read from below the size and lies in
\* one block.  So neither assertion of the readers fails (dir.c:194, inode.c:304), and an
\* entry is changed by one disk write.  It holds of what a process that dies now would
\* leave, and of what the next command of this one would read.
WholeEntries ==
  ~spoiled =>
    \A n \in {dsize} \cup (IF pc \in {"write", "sync"} THEN {} ELSE {size}) :
      LET es == Dirents(cells, n)
      IN  /\ EndOf(es) = n
          /\ \A k \in DOMAIN es : BlockOf(es[k].at) = BlockOf(es[k].next - 1)

\* The directory this one implements, whenever its process dies: a name that was created
\* is found under its number until it is removed and not afterwards, in whatever order
\* entries of different lengths are added, removed and used again (as long as nothing is
\* spoiled).
Live(n) ==
  {[name |-> e.name[1], nr |-> e.nr] : e \in {d \in Range(Dirents(cells, n)) : d.nr >= 0}}

D == INSTANCE Directory WITH
       Initial <- {[name |-> Dot, nr |-> Self], [name |-> DotDot, nr |-> Self]},
       Requests <- Job \ {NoJob},
       entries <- Live(dsize),
       req <- job,
       done <- pc = "answer" \/ (pc = "sync" /\ size = dsize)

ImplementsDirectory == D!Init /\ [][spoiled' \/ D!Next]_D!vars

\* dir.c:240: "Only the inode_nr corresponding to the file or directory to be deleted are
\* set to -1" by a removal.
OnlyNumberErased ==
  pc = "answer" /\ job.op = "remove" =>
    \E o \in Places : cells = [was EXCEPT ![o] = Removed]
=============================================================================
