--------------------------- MODULE SessionProofs ----------------------------
(***************************************************************************)
(* What is proved of Session for every number of inodes, every set of      *)
(* command lines and every depth of the calls.                             *)
(***************************************************************************)
EXTENDS Session, FiniteSetTheorems, SequenceTheorems, TLAPS

-----------------------------------------------------------------------------
(* Where a process is: what its variables hold at each step of a command.  *)

Entries == [name : Seq(Characters), nr : Inodes]
Nodes   == [type : {"none", "file", "dir"}, ents : SUBSET Entries]
Frames  == [fn : {"ls", "lsr", "checkfs", "catr"}, in : Pointer, cin : Pointer, tmp : Pointer, rest : SUBSET Entries]

TypedTree  == tree \in [Inodes -> Nodes]
TypedCount == count \in [Inodes -> Int]
TypedMem ==
  /\ dirty \subseteq Inodes /\ tx \in {"TX_NONE", "TX_WRITE", "TX_CREATE", "TX_RM"}
  /\ cur \in Pointer /\ back \in {None, Root} /\ inode \in Inodes \cup {None}
TypedStack == stack \in Seq(Frames) /\ Len(stack) <= MaxDepth
TypedCmd ==
  /\ cmd = [op |-> cmd.op, args |-> cmd.args] /\ cmd.args \in Seq(Seq(Characters))
  /\ cmd.op \in {"touch", "stat", "cat"} => Len(cmd.args) <= MaxArgs
TypedArg  == arg \in 1 .. MaxArgs /\ (arg = 1 \/ arg < nargs)
TypedWalk == walk = [path |-> walk.path, from |-> walk.from, goal |-> walk.goal]
Stages    == {"idle", "handler", "quit", "exit", "dead", "walk", "walked", "looked", "create",
              "fill", "enter", "sync", "undo", "failed", "written", "remove", "removed", "list",
              "catr"}
TypedEnd  == ret \in Inodes \cup Errors /\ pc \in Stages /\ (fault = "none" <=> pc # "dead")

Typed == /\ TypedTree /\ TypedCount /\ TypedMem /\ TypedStack
         /\ TypedCmd /\ TypedArg /\ TypedWalk /\ TypedEnd

Walking == pc \in {"walk", "walked", "looked"}
Plain   == back = None /\ inode = None /\ stack = <<>> /\ tx = "TX_NONE" /\ dirty = {}

\* touch or mkdir is at work in directory d, and knows how to get back.
Making(d) ==
  /\ Creates /\ nargs >= 2 /\ (cmd.op = "mkdir" => nargs = 2)
  /\ stack = <<>> /\ (back = None => d = Root)

\* What a command looks a path up for.
Fits(goal) ==
  \/ goal = "directory" /\ Creates /\ nargs = 2
  \/ goal = "write" /\ cmd.op \in {"write", "owrite"}
  \/ goal = "ls" /\ cmd.op \in {"ls", "lsr"}
  \/ goal \in {"cd", "pwd", "stat", "cat", "oread"} /\ cmd.op = goal

ForName    == Making(walk.from) /\ inode = None /\ tx = "TX_CREATE" /\ dirty = {}
ForCatr    == /\ cmd.op = "catr" /\ back = None /\ inode = None /\ stack # <<>>
              /\ tx = "TX_NONE" /\ dirty = {}
ForCommand == walk.from = Root /\ Plain /\ Fits(walk.goal)

AtIdle    == cmd = NoCmd /\ Plain /\ cur = None
AtHandler == Plain /\ cur = Root
AtExit ==
  /\ back = None /\ inode = None /\ stack = <<>> /\ tx = "TX_NONE"
  /\ cmd.op # "catr" => cur \in Inodes
  /\ cur # Root => cmd.op \in {"cd", "catr"}
  /\ dirty # {} => Creates /\ ret = ENOSPC /\ dirty = {cur}
AtWalk ==
  /\ cur \in Inodes /\ walk.from \in Inodes /\ (pc = "looked" => cur = walk.from)
  /\ \/ walk.goal = "name" /\ ForName
     \/ walk.goal = "catr" /\ ForCatr
     \/ walk.goal \notin {"name", "catr"} /\ ForCommand
AtCreate  == Making(cur) /\ cur \in Inodes /\ inode = None /\ tx = "TX_NONE" /\ dirty = {}
AtMade    == Making(cur) /\ cur \in Inodes /\ inode \in Inodes /\ tx = "TX_CREATE"
AtFill    == AtMade /\ dirty = {inode}
AtSync    == AtMade /\ dirty \subseteq {inode, cur}
Spoilt(d) == /\ ret < 0 /\ dirty \subseteq d \cup {cur} /\ (ret # ENOSPC => dirty \subseteq d)
AtUndo    == AtMade /\ Spoilt({inode})
AtFailed  == Making(cur) /\ cur \in Inodes /\ inode = None /\ tx = "TX_CREATE" /\ Spoilt({})
AtWritten == /\ cmd.op \in {"write", "owrite"} /\ cur = Root /\ back = None /\ stack = <<>>
             /\ inode \in Inodes /\ tx = "TX_WRITE" /\ dirty = {inode}
AtRm      == /\ cmd.op = "rm" /\ nargs = 2
             /\ cur = Root /\ back = None /\ stack = <<>> /\ tx = "TX_RM"
AtRemove  == AtRm /\ inode = None /\ dirty = {}
AtRemoved == AtRm /\ inode \in Inodes /\ dirty = {cur}
Visiting  == back = None /\ inode = None /\ stack # <<>> /\ tx = "TX_NONE" /\ dirty = {}
AtList    == Visiting /\ cmd.op \in {"ls", "lsr", "checkfs"} /\ cur = Root
AtCatr    == Visiting /\ cmd.op = "catr"

Stage ==
  /\ pc = "idle" => AtIdle
  /\ pc \in {"handler", "quit"} => AtHandler
  /\ pc = "exit" => AtExit
  /\ Walking => AtWalk
  /\ pc = "create" => AtCreate
  /\ pc \in {"fill", "enter"} => AtFill
  /\ pc = "sync" => AtSync
  /\ pc = "undo" => AtUndo
  /\ pc = "failed" => AtFailed
  /\ pc = "written" => AtWritten
  /\ pc = "remove" => AtRemove
  /\ pc = "removed" => AtRemoved
  /\ pc = "list" => AtList
  /\ pc = "catr" => AtCatr

\* Only the calls of catr change directory.
Listing ==
  cmd.op # "catr" =>
    \A k \in DOMAIN stack : /\ stack[k].fn = cmd.op /\ stack[k].in \in Inodes
                            /\ stack[k].cin = None /\ stack[k].tmp = None

Where == Typed /\ Stage /\ Listing

-----------------------------------------------------------------------------
(* Small facts.                                                            *)

\* What the assumption on the constants says of them, in the form the proofs use: the inode numbers
\* are naturals, and no pointer is one of the two that point to none.
LEMMA InodeSet ==
  /\ NrInodes \in Nat /\ NrInodes > 0 /\ MaxArgs \in Nat /\ MaxArgs > 0
  /\ MaxDepth \in Nat /\ MaxDepth >= NrInodes
  /\ Inodes \in SUBSET Nat /\ Root \in Inodes /\ 0 \in Inodes
  /\ Freed \notin Inodes /\ None \notin Inodes /\ Freed # None
<1>1. /\ NrInodes \in Nat \ {0} /\ MaxArgs \in Nat \ {0} /\ MaxDepth \in Nat
      /\ MaxDepth >= NrInodes
  BY SessionAssumption, Zenon
<1>. QED
  BY <1>1 DEF Inodes, Root, Freed, None

\* The words of a command line, and the two names that every directory has.
LEMMA Words ==
  /\ "." \in Characters /\ " " \in Characters
  /\ \A line \in Lines : line.words \in Seq(Seq(Characters))
  /\ Dot \in Seq(Characters) /\ DotDot \in Seq(Characters) /\ Dot # DotDot
<1>1. "." \in Characters /\ " " \in Characters
  <2>1. {".", " "} \subseteq Characters
    BY SessionAssumption, Zenon
  <2>. QED
    BY <2>1
<1>2. \A line \in Lines : line.words \in Seq(Seq(Characters))
  BY SessionAssumption, Zenon
<1>3. PICK d : d = "."
  OBVIOUS
<1>4. Dot = <<d>> /\ DotDot = <<d, d>> /\ d \in Characters
  BY <1>1, <1>3 DEF Dot, DotDot
<1>5. <<d>> \in Seq(Characters) /\ <<d, d>> \in Seq(Characters) /\ <<d>> # <<d, d>>
  BY <1>4
<1>. QED
  BY <1>1, <1>2, <1>4, <1>5, Zenon

\* Freeing memory leaves a stack a stack.
LEMMA AllLeftType ==
  ASSUME NEW s \in Seq(Frames), NEW c
  PROVE  /\ AllLeft(s, c) \in Seq(Frames) /\ Len(AllLeft(s, c)) = Len(s)
         /\ DOMAIN AllLeft(s, c) = DOMAIN s
         /\ (s = <<>> => AllLeft(s, c) = <<>>)
         /\ \A k \in DOMAIN s :
              AllLeft(s, c)[k] = [fn |-> s[k].fn, in |-> Left(s[k].in, c),
                                  cin |-> Left(s[k].cin, c), tmp |-> Left(s[k].tmp, c),
                                  rest |-> s[k].rest]
<1>1. \A p \in Pointer : Left(p, c) \in Pointer
  BY DEF Left, Pointer
<1>2. ASSUME NEW k \in DOMAIN s
      PROVE  /\ AllLeft(s, c)[k] = [fn |-> s[k].fn, in |-> Left(s[k].in, c),
                                    cin |-> Left(s[k].cin, c), tmp |-> Left(s[k].tmp, c),
                                    rest |-> s[k].rest]
             /\ AllLeft(s, c)[k] \in Frames
  <2>1. s[k] \in Frames
    OBVIOUS
  <2>2. AllLeft(s, c)[k] = [s[k] EXCEPT !.in = Left(@, c), !.cin = Left(@, c), !.tmp = Left(@, c)]
    BY DEF AllLeft
  <2>. QED
    BY <1>1, <2>1, <2>2, ZenonT(30) DEF Frames
<1>3. AllLeft(s, c) = [k \in 1 .. Len(s) |-> AllLeft(s, c)[k]]
  BY DEF AllLeft
<1>. DEFINE t == AllLeft(s, c)
<1>4. t \in Seq(Frames) /\ Len(t) = Len(s)
  <2>0. DOMAIN s = 1 .. Len(s)
    OBVIOUS
  <2>1. \A k \in 1 .. Len(s) : t[k] \in Frames
    BY <1>2, <2>0, Zenon
  <2>2. t = [k \in 1 .. Len(s) |-> t[k]]
    BY <1>3
  <2>3. Len(s) \in Nat
    OBVIOUS
  <2>. HIDE DEF t
  <2>4. t \in [1 .. Len(s) -> Frames]
    BY <2>1, <2>2
  <2>. QED
    BY <2>3, <2>4
<1>5. s = <<>> => t = <<>>
  BY <1>4
<1>6. DOMAIN t = DOMAIN s
  BY DEF AllLeft
<1>. QED
  BY <1>2, <1>4, <1>5, <1>6

\* The least number of a set of numbers that has one.
LEMMA LeastNat ==
  ASSUME NEW T \in SUBSET Nat, T # {}
  PROVE  \E n \in T : \A m \in T : n <= m
<1>. DEFINE R == StrictSubsetOrdering(Nat)
            F == {0 .. n : n \in T}
<1>1. F \subseteq FiniteSubsetsOf(Nat)
  <2>. SUFFICES ASSUME NEW n \in T PROVE 0 .. n \in FiniteSubsetsOf(Nat)
    OBVIOUS
  <2>1. IsFiniteSet(0 .. n) /\ 0 .. n \subseteq Nat
    BY FS_Interval
  <2>. QED
    BY <2>1 DEF FiniteSubsetsOf
<1>2. F # {}
  OBVIOUS
<1>3. IsWellFoundedOn(R, FiniteSubsetsOf(Nat))
  BY FS_StrictSubsetOrderingWellFounded
<1>4. \E x \in F : \A y \in F : ~(<<y, x>> \in R)
  <2>. HIDE DEF R, F
  <2>. QED
    BY <1>1, <1>2, <1>3, WFMin
<1>5. PICK n \in T : \A m \in T : ~(<<0 .. m, 0 .. n>> \in R)
  BY <1>4
<1>6. ASSUME NEW m \in T, ~(n <= m) PROVE FALSE
  <2>1. 0 .. m \subseteq 0 .. n /\ n \in 0 .. n /\ n \notin 0 .. m
    BY <1>6
  <2>2. 0 .. m \in SUBSET Nat /\ 0 .. n \in SUBSET Nat
    OBVIOUS
  <2>. QED
    BY <1>5, <2>1, <2>2 DEF StrictSubsetOrdering
<1>. QED
  BY <1>6

\* The least and the greatest of a bounded set of numbers.
LEMMA MinOf ==
  ASSUME NEW T \in SUBSET Nat, T # {}
  PROVE  Min(T) \in T /\ \A m \in T : Min(T) <= m
BY LeastNat DEF Min

\* The largest of a bounded set of numbers is in it and bounds it.
LEMMA MaxOf ==
  ASSUME NEW T \in SUBSET Nat, T # {}, NEW n \in Nat, \A m \in T : m <= n
  PROVE  Max(T) \in T /\ \A m \in T : Max(T) >= m
<1>. DEFINE U == {n - m : m \in T}
<1>1. U \in SUBSET Nat /\ U # {}
  <2>1. \A m \in T : n - m \in Nat
    OBVIOUS
  <2>. QED
    BY <2>1
<1>2. PICK u \in U : \A v \in U : u <= v
  BY <1>1, LeastNat
<1>3. PICK m \in T : u = n - m
  BY <1>2
<1>4. \A k \in T : k <= m
  <2>. SUFFICES ASSUME NEW k \in T PROVE k <= m
    OBVIOUS
  <2>1. n - k \in U
    OBVIOUS
  <2>. QED
    BY <1>2, <1>3, <2>1
<1>. QED
  BY <1>4 DEF Max

\* Sequences joined one after another are a sequence.
Joined(seqs, S, m, g) ==
  /\ g \in [1 .. m -> Seq(S)]
  /\ \A i \in 1 .. m : g[i] = IF i = 1 THEN seqs[i] ELSE g[i - 1] \o seqs[i]

\* Joining sequences over a set gives a sequence over it: the words joined by blanks, and the
\* components of a path.
LEMMA FlattenType ==
  ASSUME NEW S, NEW seqs \in Seq(Seq(S))
  PROVE  FlattenSeq(seqs) \in Seq(S)
<1>. DEFINE n == Len(seqs)
<1>1. CASE n = 0
  BY <1>1 DEF FlattenSeq
<1>2. CASE n # 0
  <2>. DEFINE Bad == {m \in 1 .. n : ~ \E g : Joined(seqs, S, m, g)}
  <2>1. Bad = {}
    <3>. SUFFICES ASSUME Bad # {} PROVE FALSE
      OBVIOUS
    <3>a. Bad \in SUBSET Nat
      OBVIOUS
    <3>1. PICK m \in Bad : \A k \in Bad : m <= k
      <4>. HIDE DEF Bad
      <4>. QED
        BY <3>a, LeastNat
    <3>2. CASE m = 1
      <4>1. Joined(seqs, S, 1, [i \in 1 .. 1 |-> seqs[i]])
        BY <1>2 DEF Joined
      <4>. QED
        BY <3>2, <4>1
    <3>3. CASE m # 1
      <4>1. m \in 1 .. n /\ m - 1 \in 1 .. n /\ m - 1 \notin Bad
        <5>1. m \in 1 .. n /\ n \in Nat
          BY <3>1
        <5>2. m - 1 \in 1 .. n /\ ~(m <= m - 1)
          BY <5>1, <3>3
        <5>. QED
          BY <3>1, <5>1, <5>2
      <4>2. PICK g : Joined(seqs, S, m - 1, g)
        BY <4>1
      <4>3. PICK h : h = [i \in 1 .. m |-> IF i = m THEN g[m - 1] \o seqs[m] ELSE g[i]]
        OBVIOUS
      <4>4. Joined(seqs, S, m, h)
        <5>0. m \in Nat /\ m > 1 /\ m - 1 \in 1 .. (m - 1) /\ seqs[m] \in Seq(S)
          BY <3>3, <4>1
        <5>1. g \in [1 .. (m - 1) -> Seq(S)]
          BY <4>2 DEF Joined
        <5>2. h \in [1 .. m -> Seq(S)]
          <6>1. \A i \in 1 .. m : i # m => g[i] \in Seq(S)
            BY <5>0, <5>1
          <6>2. g[m - 1] \o seqs[m] \in Seq(S)
            BY <5>0, <5>1
          <6>. QED
            BY <4>3, <6>1, <6>2
        <5>3. ASSUME NEW i \in 1 .. m
              PROVE  h[i] = IF i = 1 THEN seqs[i] ELSE h[i - 1] \o seqs[i]
          <6>1. CASE i = m
            <7>1. m \in 1 .. m /\ m - 1 \in 1 .. m /\ m - 1 # m /\ m # 1
              BY <5>0
            <7>2. h[m] = g[m - 1] \o seqs[m]
              BY <4>3, <7>1
            <7>3. h[m - 1] = g[m - 1]
              BY <4>3, <7>1
            <7>. QED
              BY <6>1, <7>1, <7>2, <7>3, Zenon
          <6>2. CASE i # m
            <7>1. i \in 1 .. (m - 1) /\ (i # 1 => i - 1 \in 1 .. m /\ i - 1 # m)
              BY <5>0, <6>2
            <7>2. g[i] = IF i = 1 THEN seqs[i] ELSE g[i - 1] \o seqs[i]
              BY <4>2, <7>1 DEF Joined
            <7>. QED
              BY <4>3, <7>1, <7>2
          <6>. QED
            BY <6>1, <6>2
        <5>. QED
          BY <5>2, <5>3 DEF Joined
      <4>. QED
        BY <4>4
    <3>. QED
      BY <3>2, <3>3
  <2>2. PICK g : Joined(seqs, S, n, g)
    BY <1>2, <2>1
  <2>. DEFINE Sol(f) == f = [i \in 1 .. n |-> IF i = 1 THEN seqs[i] ELSE f[i - 1] \o seqs[i]]
  <2>3. Sol(g)
    BY <1>2, <2>2 DEF Joined
  <2>4. PICK f : f = CHOOSE x : Sol(x)
    OBVIOUS
  <2>5. Sol(f)
    BY <2>3, <2>4
  <2>6. \A i \in 1 .. n : f[i] \in Seq(S)
    <3>. DEFINE Wrong == {i \in 1 .. n : f[i] \notin Seq(S)}
    <3>. SUFFICES ASSUME Wrong # {} PROVE FALSE
      OBVIOUS
    <3>a. Wrong \in SUBSET Nat
      OBVIOUS
    <3>1. PICK i \in Wrong : \A k \in Wrong : i <= k
      <4>. HIDE DEF Wrong
      <4>. QED
        BY <3>a, LeastNat
    <3>2. i # 1 => i - 1 \in 1 .. n /\ f[i - 1] \in Seq(S)
      <4>1. i \in 1 .. n /\ n \in Nat
        BY <3>1
      <4>2. i # 1 => i - 1 \in 1 .. n /\ ~(i <= i - 1)
        BY <4>1
      <4>. QED
        BY <3>1, <4>2
    <3>3. f[i] = IF i = 1 THEN seqs[i] ELSE f[i - 1] \o seqs[i]
      <4>1. f = [j \in 1 .. n |-> IF j = 1 THEN seqs[j] ELSE f[j - 1] \o seqs[j]] /\ i \in 1 .. n
        BY <2>5, <3>1
      <4>. QED
        BY <4>1, Zenon
    <3>4. i \in 1 .. n /\ f[i] \notin Seq(S) /\ seqs[i] \in Seq(S)
      BY <3>1
    <3>5. CASE i = 1
      BY <3>3, <3>4, <3>5
    <3>6. CASE i # 1
      <4>1. f[i - 1] \o seqs[i] \in Seq(S)
        BY <3>2, <3>4, <3>6
      <4>. QED
        BY <3>3, <3>4, <3>6, <4>1
    <3>. QED
      BY <3>5, <3>6
  <2>7. FlattenSeq(seqs) = f[n]
    BY <1>2, <2>4 DEF FlattenSeq
  <2>. QED
    BY <1>2, <2>6, <2>7
<1>. QED
  BY <1>1, <1>2
-----------------------------------------------------------------------------
(* Every step leaves the process where Where says.                         *)

Errnos == /\ \A r \in Errors : r \in Int /\ r < 0
          /\ {ENOENT, EEXIST, ENOTDIR, EISDIR, EINVAL, ENOSPC, ENOTEMPTY, Failed, Died}
               \subseteq Errors
          /\ EEXIST # ENOSPC
          /\ \A r \in Inodes : r \in Nat

\* The error numbers are negative, so none of them is an inode number (dir.c and file.c test ret <
\* 0).
LEMMA ErrnosHold == Errnos
BY InodeSet DEF Errnos, Errors, ENOENT, EEXIST, ENOTDIR, EISDIR, EINVAL, ENOSPC, ENOTEMPTY,
                Failed, Died

\* The arguments are words, as many as the command may have.
LEMMA CommandType ==
  ASSUME NEW program, NEW op, NEW words \in Seq(Seq(Characters))
  PROVE  /\ Command(program, op, words) = [op |-> op, args |-> Command(program, op, words).args]
         /\ Command(program, op, words).args \in Seq(Seq(Characters))
         /\ op \in {"touch", "stat", "cat"} => Len(Command(program, op, words).args) <= MaxArgs
<1>1. ASSUME op \in DOMAIN cmdtable
      PROVE  /\ Split(program, op, words) \in Seq(Seq(Characters))
             /\ Len(Split(program, op, words)) <= cmdtable[op]
  <2>1. cmdtable[op] \in Nat /\ cmdtable[op] >= 1
    BY <1>1, InodeSet DEF cmdtable
  <2>2. PICK k : k = Min({Len(words), cmdtable[op] - 1})
    OBVIOUS
  <2>3. k \in Nat /\ k <= Len(words) /\ k <= cmdtable[op] - 1
    <3>1. PICK m : m = cmdtable[op] - 1
      OBVIOUS
    <3>2. m \in Nat /\ Len(words) \in Nat
      BY <2>1, <3>1
    <3>3. {Len(words), m} \in SUBSET Nat /\ {Len(words), m} # {}
      BY <3>2
    <3>4. k = Min({Len(words), m})
      BY <2>2, <3>1
    <3>5. k \in {Len(words), m} /\ k <= Len(words) /\ k <= m
      BY <3>3, <3>4, MinOf
    <3>. QED
      BY <3>1, <3>2, <3>5
  <2>4. PICK rest : rest = SubSeq(words, k + 1, Len(words))
    OBVIOUS
  <2>5. PICK seqs : seqs = [j \in DOMAIN rest |-> rest[j] \o <<" ">>]
    OBVIOUS
  <2>6. seqs \in Seq(Seq(Characters))
    <3>1. k + 1 \in Nat /\ k + 1 >= 1 /\ Len(words) \in Nat
      BY <2>3
    <3>2. rest \in Seq(Seq(Characters))
      BY <2>4, <3>1, SubSeqProperties
    <3>3. \A w \in Seq(Characters) : w \o <<" ">> \in Seq(Characters)
      <4>1. PICK b : b = " "
        OBVIOUS
      <4>2. b \in Characters
        BY <4>1, Words, Zenon
      <4>3. \A w \in Seq(Characters) : w \o <<b>> \in Seq(Characters)
        BY <4>2
      <4>. QED
        BY <4>1, <4>3, Zenon
    <3>4. DOMAIN rest = 1 .. Len(rest) /\ Len(rest) \in Nat /\ \A j \in DOMAIN rest : rest[j] \in Seq(Characters)
      BY <3>2
    <3>5. seqs \in [1 .. Len(rest) -> Seq(Characters)]
      BY <2>5, <3>3, <3>4
    <3>. QED
      BY <3>4, <3>5
  <2>7. PICK line : line = FlattenSeq(seqs)
    OBVIOUS
  <2>8. line \in Seq(Characters) /\ Front(line) \in Seq(Characters)
    <3>1. line \in Seq(Characters)
      BY <2>6, <2>7, FlattenType
    <3>. QED
      BY <3>1 DEF Front
  <2>9. SubSeq(words, 1, k) \in Seq(Seq(Characters)) /\ Len(SubSeq(words, 1, k)) = k
    BY <2>3
  <2>10. Split(program, op, words) =
           SubSeq(words, 1, k) \o (IF rest = <<>> THEN <<>>
                                   ELSE IF program = "testfs" THEN <<Front(line)>> ELSE <<line>>)
    BY <2>2, <2>4, <2>5, <2>7 DEF Split
  <2>11. PICK last : last = IF rest = <<>> THEN <<>>
                            ELSE IF program = "testfs" THEN <<Front(line)>> ELSE <<line>>
    OBVIOUS
  <2>12. last \in Seq(Seq(Characters)) /\ Len(last) <= 1
    <3>1. last \in {<<>>, <<Front(line)>>, <<line>>}
      BY <2>11
    <3>2. \A w \in Seq(Characters) : <<w>> \in Seq(Seq(Characters)) /\ Len(<<w>>) = 1
      OBVIOUS
    <3>3. <<>> \in Seq(Seq(Characters)) /\ Len(<<>>) = 0
      OBVIOUS
    <3>4. CASE last = <<>>
      BY <3>3, <3>4
    <3>5. CASE last = <<Front(line)>>
      BY <2>8, <3>2, <3>5
    <3>6. CASE last = <<line>>
      BY <2>8, <3>2, <3>6
    <3>. QED
      BY <3>1, <3>4, <3>5, <3>6
  <2>. QED
    <3>1. Split(program, op, words) = SubSeq(words, 1, k) \o last
      BY <2>10, <2>11
    <3>. QED
      BY <2>1, <2>3, <2>9, <2>12, <3>1
<1>2. op \in {"touch", "stat", "cat"} => op \in DOMAIN cmdtable /\ cmdtable[op] = MaxArgs
  BY DEF cmdtable
<1>3. CASE op \in DOMAIN cmdtable
  <2>1. Command(program, op, words) = [op |-> op, args |-> Split(program, op, words)]
    BY <1>3 DEF Command
  <2>. QED
    BY <1>1, <1>2, <1>3, <2>1
<1>4. CASE op \notin DOMAIN cmdtable
  <2>1. Command(program, op, words) = [op |-> op, args |-> <<>>]
    BY <1>4 DEF Command
  <2>2. <<>> \in Seq(Seq(Characters))
    OBVIOUS
  <2>. QED
    BY <1>2, <1>4, <2>1, <2>2
<1>. QED
  BY <1>3, <1>4

\* What taking and putting does to the counts.
B(x) == IF x THEN 1 ELSE 0

\* testfs_get_inode adds one to the count of its inode and testfs_put_inode takes one, and neither
\* touches another's.
LEMMA Counting ==
  ASSUME NEW c \in [Inodes -> Int], NEW n
  PROVE  /\ Get(c, n) \in [Inodes -> Int] /\ Put(c, n) \in [Inodes -> Int]
         /\ \A x \in Inodes : Get(c, n)[x] = c[x] + B(x = n)
         /\ \A x \in Inodes : Put(c, n)[x] = c[x] - B(x = n)
<1>1. CASE n \in Inodes
  BY <1>1 DEF Get, Put, B
<1>2. CASE n \notin Inodes
  <2>1. Get(c, n) = c /\ Put(c, n) = c
    BY <1>2 DEF Get, Put
  <2>. QED
    BY <1>2, <2>1 DEF B
<1>. QED
  BY <1>1, <1>2

\* Before the first process nothing is held.
LEMMA WhereInit == Init => Where
<1>. SUFFICES ASSUME Init PROVE Where
  OBVIOUS
<1>1. tree \in [Inodes -> Nodes]
  <2>1. EmptyDir(Root, Root) \in SUBSET Entries
    <3>1. Dot \in Seq(Characters) /\ DotDot \in Seq(Characters) /\ Root \in Inodes
      BY InodeSet, Words, Zenon
    <3>2. [name |-> Dot, nr |-> Root] \in Entries /\ [name |-> DotDot, nr |-> Root] \in Entries
      BY <3>1, Zenon DEF Entries
    <3>. QED
      BY <3>2, Zenon DEF EmptyDir
  <2>2. tree = [n \in Inodes |->
               IF n = Root THEN [type |-> "dir", ents |-> EmptyDir(Root, Root)] ELSE Blank]
    BY DEF Init
  <2>3. [type |-> "dir", ents |-> EmptyDir(Root, Root)] \in Nodes /\ Blank \in Nodes
    BY <2>1 DEF Nodes, Blank
  <2>. QED
    BY <2>2, <2>3
<1>2. /\ count = [n \in Inodes |-> 0] /\ dirty = {} /\ tx = "TX_NONE"
      /\ cur = None /\ back = None /\ inode = None /\ stack = <<>>
      /\ cmd = NoCmd /\ arg = 1 /\ walk = NoWalk /\ ret = 0 /\ pc = "idle" /\ fault = "none"
  BY Zenon DEF Init
<1>. HIDE DEF Init
<1>3. TypedStack
  <2>1. <<>> \in Seq(Frames) /\ Len(<<>>) = 0
    OBVIOUS
  <2>. QED
    BY <1>2, <2>1, InodeSet DEF TypedStack
<1>4. TypedCmd
  <2>1. <<>> \in Seq(Seq(Characters)) /\ cmd.op = "none" /\ cmd.args = <<>>
    BY <1>2 DEF NoCmd
  <2>2. cmd = [op |-> cmd.op, args |-> cmd.args]
    BY <1>2, <2>1 DEF NoCmd
  <2>. QED
    BY <2>1, <2>2 DEF TypedCmd
<1>5. TypedWalk
  BY <1>2 DEF TypedWalk, NoWalk
<1>6. TypedCount /\ TypedMem /\ TypedArg /\ TypedEnd
  BY <1>2, InodeSet DEF TypedCount, TypedMem, Pointer, TypedArg, TypedEnd, Stages
<1>7. Stage
  BY <1>2, Zenon DEF Stage, AtIdle, Plain, Walking
<1>8. Listing
  BY <1>2 DEF Listing
<1>. QED
  BY <1>1, <1>3, <1>4, <1>5, <1>6, <1>7, <1>8 DEF Where, Typed, TypedTree

\* main up to the call of the command: the root directory is the only inode counted.
LEMMA WhereLaunch ==
  ASSUME Where, Start
  PROVE  Where'
<1>1. PICK program \in Programs, line \in Lines : Launch(program, line.op, line.words)
  BY DEF Start
<1>2. line.words \in Seq(Seq(Characters))
  BY <1>1, Words
<1>3. TypedCmd'
  <2>1. cmd' = Command(program, line.op, line.words)
    BY <1>1 DEF Launch
  <2>. QED
    BY <1>2, <2>1, CommandType DEF TypedCmd
<1>4. TypedCount'
  BY <1>1, Counting DEF Launch, Where, Typed, TypedCount
<1>5. /\ pc = "idle" /\ cur' = Root /\ arg' = 1 /\ ret' = 0
      /\ tree' = tree /\ dirty' = dirty /\ tx' = tx /\ back' = back /\ inode' = inode
      /\ stack' = stack /\ walk' = walk
      /\ pc' \in {"dead", "exit", "handler", "quit"} /\ (fault' = "none" <=> pc' # "dead")
  BY <1>1 DEF Launch
<1>6. TypedTree' /\ TypedMem' /\ TypedStack' /\ TypedArg' /\ TypedWalk' /\ TypedEnd'
  BY <1>5, InodeSet DEF Where, Typed, TypedTree, TypedMem, TypedStack, TypedArg, TypedWalk,
                        TypedEnd, Stages, Pointer
<1>7. Plain
  BY <1>5 DEF Where, Stage, AtIdle
<1>8. AtHandler' /\ AtExit' /\ stack' = <<>>
  BY <1>5, <1>7, InodeSet DEF AtHandler, AtExit, Plain
<1>9. Stage' /\ Listing'
  BY <1>5, <1>8 DEF Stage, Walking, Listing
<1>. QED
  BY <1>3, <1>4, <1>6, <1>9 DEF Where, Typed

-----------------------------------------------------------------------------
(* The steps, by what they do: many only answer, or only begin a walk.     *)

EndStep(r)     == Return(r) /\ Quiet /\ UNCHANGED <<mem, arg, walk>>
LookStep(goal) == (\E p : Lookup(p, goal, cur)) /\ Quiet /\ UNCHANGED <<mem, arg>>

Free     == pc = "handler" \/ (pc = "looked" /\ walk.goal \notin {"name", "catr"})
Answers  == Free /\ \E r \in Inodes \cup Errors : EndStep(r)
Looks    == pc = "handler" /\ \E goal : Fits(goal) /\ LookStep(goal)
NextWord == /\ pc = "looked" /\ walk.goal \in {"stat", "cat"} /\ arg + 1 < nargs
            /\ arg' = arg + 1 /\ pc' = "handler" /\ ret' = 0
            /\ Quiet /\ UNCHANGED <<mem, walk>>
Plainly  == Answers \/ Looks \/ NextWord

\* A command that checks its arguments and begins a walk either answers EINVAL at once or looks up.
LEMMA Begins ==
  ASSUME NEW goal, pc = "handler",
         Fits(goal) \/ (Return(EINVAL) /\ UNCHANGED walk),
         (\E p : Lookup(p, goal, cur)) \/ (Return(EINVAL) /\ UNCHANGED walk),
         Quiet, UNCHANGED <<mem, arg>>
  PROVE  Answers \/ Looks
<1>1. EINVAL \in Inodes \cup Errors
  BY ErrnosHold DEF Errnos
<1>. QED
  BY <1>1, Zenon DEF Answers, Looks, EndStep, LookStep, Free

\* The commands that only read, but for the listing ones, do nothing else than to answer, to begin
\* a walk, or to take their next argument.
LEMMA Reads ==
  ASSUME Where, Read
  PROVE  Plainly
<1>1. ret \in Inodes \cup Errors /\ {0, EINVAL, EISDIR} \subseteq Inodes \cup Errors
  BY InodeSet, ErrnosHold DEF Where, Typed, TypedEnd, Errnos
<1>2. CASE cmd_cd
  <2>1. pc = "handler" /\ Fits("cd")
    BY <1>2 DEF cmd_cd, Runs, Fits
  <2>. QED
    BY <1>2, <2>1, Begins, Zenon DEF cmd_cd, Begin, Plainly
<1>3. CASE cmd_pwd
  <2>1. pc = "handler" /\ Fits("pwd")
    BY <1>3 DEF cmd_pwd, Runs, Fits
  <2>. QED
    BY <1>3, <2>1, Begins, Zenon DEF cmd_pwd, Begin, Plainly
<1>4. CASE cmd_stat
  <2>1. pc = "handler" /\ Fits("stat")
    BY <1>4 DEF cmd_stat, Runs, Fits
  <2>. QED
    BY <1>4, <2>1, Begins, Zenon DEF cmd_stat, Begin, Plainly
<1>5. CASE cmd_cat
  <2>1. pc = "handler" /\ Fits("cat")
    BY <1>5 DEF cmd_cat, Runs, Fits
  <2>. QED
    BY <1>5, <2>1, Begins, Zenon DEF cmd_cat, Begin, Plainly
<1>6. CASE cmd_oread
  <2>1. pc = "handler" /\ Fits("oread")
    BY <1>6 DEF cmd_oread, Runs, Fits
  <2>2. CASE Return(0) /\ Quiet /\ UNCHANGED <<mem, arg, walk>>
    BY <1>1, <2>1, <2>2 DEF Plainly, Answers, Free, EndStep
  <2>3. CASE ~(Return(0) /\ Quiet /\ UNCHANGED <<mem, arg, walk>>)
    <3>1. Begin(TRUE, cmd.args[1], "oread") \/ Begin(FALSE, <<>>, "oread")
      BY <1>6, <2>3, Zenon DEF cmd_oread
    <3>. QED
      BY <2>1, <3>1, Begins, Zenon DEF Begin, Plainly
  <2>. QED
    BY <2>2, <2>3
<1>7. CASE PwdFound
  <2>1. pc = "looked" /\ walk.goal \notin {"name", "catr"}
    BY <1>7 DEF PwdFound, Looked
  <2>. QED
    BY <1>1, <1>7, <2>1 DEF PwdFound, Plainly, Answers, Free, EndStep
<1>8. CASE StatFound
  <2>1. pc = "looked" /\ walk.goal = "stat" /\ walk.goal \notin {"name", "catr"}
    BY <1>8 DEF StatFound, Looked
  <2>. QED
    BY <1>1, <1>8, <2>1 DEF StatFound, Plainly, Answers, Free, EndStep, NextArg, NextWord
<1>9. CASE CatFound
  <2>1. pc = "looked" /\ walk.goal = "cat" /\ walk.goal \notin {"name", "catr"}
    BY <1>9 DEF CatFound, Looked
  <2>. QED
    BY <1>1, <1>9, <2>1 DEF CatFound, Plainly, Answers, Free, EndStep, NextArg, NextWord
<1>10. CASE OreadFound
  <2>1. pc = "looked" /\ walk.goal \notin {"name", "catr"}
    BY <1>10 DEF OreadFound, Looked
  <2>. QED
    BY <1>1, <1>10, <2>1 DEF OreadFound, Plainly, Answers, Free, EndStep
<1>. QED
  BY <1>2, <1>3, <1>4, <1>5, <1>6, <1>7, <1>8, <1>9, <1>10 DEF Read

\* The other commands begin the same way.
LEMMA Others ==
  ASSUME Where
  PROVE  /\ cmd_write => Plainly
         /\ cmd_owrite => Plainly
         /\ cmd_ls => Plainly
         /\ Create => Plainly \/ (/\ pc = "handler" /\ Creates /\ pc' = "create" /\ nargs >= 2
                                  /\ (cmd.op = "mkdir" => nargs = 2)
                                  /\ Quiet /\ UNCHANGED <<mem, arg, walk, ret>>)
         /\ cmd_rm => Plainly \/ (/\ Runs("rm") /\ nargs = 2 /\ TxStart("TX_RM")
                                  /\ pc' = "remove" /\ Quiet
                                  /\ UNCHANGED <<count, dirty, cur, back, inode, stack, arg,
                                                 walk, ret>>)
         /\ cmd_checkfs => Plainly \/ (/\ Runs("checkfs")
                                       /\ stack' = <<Call("checkfs", Root, Real(Root))>>
                                       /\ count' = Get(count, Root) /\ pc' = "list" /\ Quiet
                                       /\ UNCHANGED <<dirty, tx, cur, back, inode, arg, walk, ret>>)
         /\ cmd_catr => Plainly \/ (/\ Runs("catr") /\ nargs <= 2
                                    /\ CatrCall(<<>>, cur) /\ Quiet
                                    /\ UNCHANGED <<count, dirty, tx, cur, back, inode, arg>>)
<1>1. ret \in Inodes \cup Errors /\ {0, EINVAL, EISDIR, EEXIST} \subseteq Inodes \cup Errors
      /\ nargs \in Nat
  BY InodeSet, ErrnosHold DEF Where, Typed, TypedEnd, TypedCmd, nargs, Errnos
<1>2. ASSUME cmd_write PROVE Plainly
  <2>1. pc = "handler" /\ Fits("write")
    BY <1>2 DEF cmd_write, Runs, Fits
  <2>. QED
    BY <1>2, <2>1, Begins, Zenon DEF cmd_write, Begin, Plainly
<1>3. ASSUME cmd_owrite PROVE Plainly
  <2>1. pc = "handler" /\ Fits("write")
    BY <1>3 DEF cmd_owrite, Runs, Fits
  <2>. QED
    BY <1>3, <2>1, Begins, Zenon DEF cmd_owrite, Begin, Plainly
<1>4. ASSUME cmd_ls PROVE Plainly
  <2>1. pc = "handler" /\ Fits("ls")
    BY <1>4 DEF cmd_ls, Runs, Fits
  <2>. QED
    BY <1>4, <2>1, Begins, Zenon DEF cmd_ls, Begin, Plainly
<1>5. ASSUME Create
      PROVE  Plainly \/ (/\ pc = "handler" /\ Creates /\ pc' = "create" /\ nargs >= 2
                         /\ (cmd.op = "mkdir" => nargs = 2)
                         /\ Quiet /\ UNCHANGED <<mem, arg, walk, ret>>)
  <2>a. PICK p : p = cmd.args[arg]
    OBVIOUS
  <2>b. PICK q : q = SubSeq(cmd.args[arg], 1, Offset(cmd.args[arg]))
    OBVIOUS
  <2>1. /\ pc = "handler" /\ Creates
        /\ IF nargs < 2 \/ (cmd.op = "mkdir" /\ nargs # 2) THEN Begin(FALSE, p, "name")
           ELSE IF p = <<"/">>
           THEN Return(EEXIST) /\ Quiet /\ UNCHANGED <<mem, arg, walk>>
           ELSE IF SlashAt(p) > 0
           THEN Begin(nargs = 2, q, "directory")
           ELSE pc' = "create" /\ Quiet /\ UNCHANGED <<mem, arg, walk, ret>>
    BY <1>5, <2>a, <2>b, Zenon DEF Create
  <2>2. CASE Begin(FALSE, p, "name")
    BY <2>1, <2>2, Begins, Zenon DEF Begin, Plainly
  <2>3. CASE Return(EEXIST) /\ Quiet /\ UNCHANGED <<mem, arg, walk>>
    BY <1>1, <2>1, <2>3 DEF Plainly, Answers, Free, EndStep
  <2>4. CASE Begin(nargs = 2, q, "directory")
    <3>1. nargs = 2 => Fits("directory")
      BY <2>1 DEF Fits
    <3>. QED
      BY <2>1, <2>4, <3>1, Begins, Zenon DEF Begin, Plainly
  <2>5. CASE /\ ~(nargs < 2 \/ (cmd.op = "mkdir" /\ nargs # 2))
             /\ pc' = "create" /\ Quiet /\ UNCHANGED <<mem, arg, walk, ret>>
    BY <1>1, <2>1, <2>5
  <2>. QED
    BY <2>1, <2>2, <2>3, <2>4, <2>5, Zenon
<1>6. ASSUME cmd_rm
      PROVE  Plainly \/ (/\ Runs("rm") /\ nargs = 2 /\ TxStart("TX_RM") /\ pc' = "remove" /\ Quiet
                         /\ UNCHANGED <<count, dirty, cur, back, inode, stack, arg, walk, ret>>)
  <2>1. pc = "handler"
    BY <1>6 DEF cmd_rm, Runs
  <2>2. CASE Begin(FALSE, <<>>, "rm")
    BY <2>1, <2>2, Begins, Zenon DEF Begin, Plainly
  <2>. QED
    BY <1>6, <2>2, Zenon DEF cmd_rm
<1>7. ASSUME cmd_checkfs
      PROVE  Plainly \/ (/\ Runs("checkfs")
                         /\ stack' = <<Call("checkfs", Root, Real(Root))>>
                         /\ count' = Get(count, Root) /\ pc' = "list" /\ Quiet
                         /\ UNCHANGED <<dirty, tx, cur, back, inode, arg, walk, ret>>)
  <2>1. pc = "handler"
    BY <1>7 DEF cmd_checkfs, Runs
  <2>2. CASE Begin(FALSE, <<>>, "checkfs")
    BY <2>1, <2>2, Begins, Zenon DEF Begin, Plainly
  <2>. QED
    BY <1>7, <2>2, Zenon DEF cmd_checkfs
<1>8. ASSUME cmd_catr
      PROVE  Plainly \/ (/\ Runs("catr") /\ nargs <= 2
                         /\ CatrCall(<<>>, cur) /\ Quiet
                         /\ UNCHANGED <<count, dirty, tx, cur, back, inode, arg>>)
  <2>1. pc = "handler"
    BY <1>8 DEF cmd_catr, Runs
  <2>2. CASE Begin(FALSE, <<>>, "catr")
    BY <2>1, <2>2, Begins, Zenon DEF Begin, Plainly
  <2>3. ~(nargs > 2) => nargs <= 2
    BY <1>1
  <2>. QED
    BY <1>8, <2>2, <2>3, Zenon DEF cmd_catr
<1>. QED
  BY <1>2, <1>3, <1>4, <1>5, <1>6, <1>7, <1>8, Zenon

\* Those three steps leave the process where its stage says.
LEMMA WherePlainly ==
  ASSUME Where, Plainly
  PROVE  Where'
<1>. USE InodeSet, ErrnosHold DEF Where, Typed
<1>1. CASE Answers
  <2>1. PICK r \in Inodes \cup Errors : EndStep(r)
    BY <1>1 DEF Answers
  <2>2. /\ pc' = "exit" /\ ret' = r
        /\ UNCHANGED <<tree, cmd, fault, count, dirty, tx, cur, back, inode, stack, arg, walk>>
    BY <2>1 DEF EndStep, Return, Quiet, mem
  <2>3. Plain /\ cur = Root /\ pc # "dead"
    BY <1>1 DEF Answers, Free, Stage, AtHandler, AtWalk, ForCommand, Walking
  <2>4. Typed'
    BY <2>1, <2>2, <2>3 DEF TypedTree, TypedCount, TypedMem, TypedStack, TypedCmd, TypedArg, TypedWalk,
                     TypedEnd, Stages, nargs
  <2>5. AtExit'
    BY <2>2, <2>3 DEF AtExit, Plain
  <2>6. Stage' /\ Listing'
    BY <2>2, <2>3, <2>5 DEF Stage, Walking, Listing
  <2>. QED
    BY <2>4, <2>6
<1>2. CASE Looks
  <2>1. PICK goal : pc = "handler" /\ Fits(goal) /\ LookStep(goal)
    BY <1>2 DEF Looks
  <2>2. PICK p : Lookup(p, goal, cur)
    BY <2>1 DEF LookStep
  <2>3. UNCHANGED <<tree, cmd, fault, count, dirty, tx, cur, back, inode, stack, arg>>
    BY <2>1 DEF LookStep, Quiet, mem
  <2>4. /\ walk' = [path |-> p, from |-> cur, goal |-> goal]
        /\ pc' \in {"walk", "looked"} /\ ret' \in {ret, EINVAL}
    BY <2>2 DEF Lookup
  <2>5. Plain /\ cur = Root
    BY <2>1 DEF Stage, AtHandler
  <2>6. Typed'
    BY <2>1, <2>3, <2>4, <2>5 DEF TypedTree, TypedCount, TypedMem, TypedStack, TypedCmd, TypedArg, TypedWalk,
                     TypedEnd, Stages, nargs, Errnos
  <2>7. AtWalk'
    <3>1. Plain' /\ Fits(goal)'
      BY <2>1, <2>3, <2>5 DEF Plain, Fits, Creates, nargs
    <3>2. walk'.from = Root /\ walk'.goal = goal /\ cur' = Root
      BY <2>3, <2>4, <2>5
    <3>3. goal \notin {"name", "catr"}
      BY <2>1 DEF Fits
    <3>4. Fits(walk.goal)'
      BY <3>1, <3>2 DEF Fits, Creates, nargs
    <3>. QED
      BY <3>1, <3>2, <3>3, <3>4 DEF AtWalk, ForCommand
  <2>8. Stage'
    BY <2>4, <2>7 DEF Stage
  <2>9. Listing'
    BY <2>3, <2>5 DEF Listing, Plain
  <2>. QED
    BY <2>6, <2>8, <2>9
<1>3. CASE NextWord
  <2>1. /\ pc = "looked" /\ walk.goal \in {"stat", "cat"} /\ arg + 1 < nargs
        /\ arg' = arg + 1 /\ pc' = "handler" /\ ret' = 0
        /\ UNCHANGED <<tree, cmd, fault, count, dirty, tx, cur, back, inode, stack, walk>>
    BY <1>3 DEF NextWord, Quiet, mem
  <2>2. Plain /\ cur = Root /\ Fits(walk.goal)
    BY <2>1 DEF Stage, AtWalk, ForCommand, Walking
  <2>3. arg' \in 1 .. MaxArgs /\ arg' < nargs'
    <3>1. cmd.op \in {"stat", "cat"}
      BY <2>1, <2>2 DEF Fits
    <3>2. Len(cmd.args) <= MaxArgs /\ Len(cmd.args) \in Nat
      BY <3>1 DEF TypedCmd
    <3>. QED
      BY <2>1, <3>2 DEF TypedArg, nargs
  <2>4. Typed'
    BY <2>1, <2>3 DEF TypedTree, TypedCount, TypedMem, TypedStack, TypedCmd, TypedArg, TypedWalk,
                     TypedEnd, Stages, nargs
  <2>5. AtHandler' /\ Listing'
    BY <2>1, <2>2 DEF AtHandler, Plain, Listing
  <2>6. Stage'
    BY <2>1, <2>5 DEF Stage, Walking
  <2>. QED
    BY <2>4, <2>5, <2>6
<1>. QED
  BY <1>1, <1>2, <1>3 DEF Plainly

\* A process that is killed holds nothing that the next one would see.
LEMMA WhereKill ==
  ASSUME Where, NEW by, by # "none", Kill(by)
  PROVE  Where'
<1>1. /\ pc' = "dead" /\ fault' = by
      /\ UNCHANGED <<tree, cmd, count, dirty, tx, cur, back, inode, stack, arg, walk, ret>>
  BY DEF Kill, mem
<1>2. Typed'
  BY <1>1 DEF Where, Typed, TypedTree, TypedCount, TypedMem, TypedStack, TypedCmd, TypedArg,
              TypedWalk, TypedEnd, Stages, nargs
<1>3. Stage' /\ Listing'
  BY <1>1 DEF Where, Stage, Walking, Listing
<1>. QED
  BY <1>2, <1>3 DEF Where

\* What a lookup returns.
LEMMA FindType ==
  ASSUME TypedTree, NEW n \in Inodes, NEW name
  PROVE  /\ Find(n, name) \subseteq Inodes
         /\ InodeNr(n, name) \in Inodes \cup Errors
         /\ InodeNr(n, name) \in Int
         /\ ~(InodeNr(n, name) < 0) => InodeNr(n, name) \in Find(n, name)
         /\ InodeNr(n, name) < 0 => InodeNr(n, name) \in Errors /\ Find(n, name) = {}
<1>1. tree[n].ents \subseteq Entries
  BY DEF TypedTree, Nodes
<1>2. Find(n, name) \subseteq Inodes
  BY <1>1 DEF Find, Entries
<1>3. CASE Find(n, name) = {}
  <2>1. InodeNr(n, name) = ENOENT
    BY <1>3 DEF InodeNr
  <2>. QED
    BY <1>2, <1>3, <2>1, ErrnosHold DEF Errnos
<1>4. CASE Find(n, name) # {}
  <2>1. InodeNr(n, name) = CHOOSE nr \in Find(n, name) : TRUE
    BY <1>4 DEF InodeNr
  <2>2. InodeNr(n, name) \in Find(n, name)
    BY <1>4, <2>1
  <2>3. PICK nr : nr = InodeNr(n, name)
    OBVIOUS
  <2>4. nr \in Find(n, name) /\ nr \in Inodes /\ nr \in Nat
    BY <1>2, <2>2, <2>3, InodeSet
  <2>5. nr \in Int /\ ~(nr < 0)
    BY <2>4
  <2>. QED
    BY <1>2, <2>3, <2>4, <2>5, Zenon
<1>. QED
  BY <1>3, <1>4

\* A step of a walk: another directory, what was found, or the end of the process.
LEMMA WalkCases ==
  ASSUME Where, Walk
  PROVE  /\ pc = "walk" /\ cur \in Inodes
         /\ \/ Kill("not a directory") /\ ~IsDir(cur)
            \/ IsDir(cur) /\ \E r \in {Root, ENOENT} : Found(r) /\ walk.path # Dot
            \/ IsDir(cur) /\ \E name : Found(InodeNr(cur, name)) /\ (walk.path = Dot => name = Dot)
            \/ /\ IsDir(cur) /\ walk.path # Dot
               /\ \E rest : \/ WalkOn(Root, rest)
                            \/ \E name : ~(InodeNr(cur, name) < 0) /\ WalkOn(InodeNr(cur, name), rest)
<1>1. pc = "walk" /\ cur \in Inodes
  BY DEF Walk, Where, Stage, Walking, AtWalk
<1>2. PICK p : p = walk.path
  OBVIOUS
<1>3. PICK slashes : slashes = {k \in DOMAIN p : p[k] = "/"}
  OBVIOUS
<1>4. PICK k : k = Min(slashes)
  OBVIOUS
<1>5. PICK name : name = SubSeq(p, 1, k - 1)
  OBVIOUS
<1>6. IF ~IsDir(cur) THEN Kill("not a directory")
      ELSE IF p = <<"/">> THEN Found(Root)
      ELSE IF p = <<>> THEN Found(ENOENT)
      ELSE IF slashes = {} THEN Found(InodeNr(cur, p))
      ELSE IF k = 1 THEN WalkOn(Root, Tail(p))
      ELSE IF InodeNr(cur, name) < 0 THEN Found(InodeNr(cur, name))
      ELSE WalkOn(InodeNr(cur, name), SubSeq(p, k + 1, Len(p)))
  BY <1>2, <1>3, <1>4, <1>5, Zenon DEF Walk
<1>7. p = Dot => p # <<"/">> /\ p # <<>> /\ slashes = {}
  <2>. SUFFICES ASSUME p = Dot PROVE p # <<"/">> /\ p # <<>> /\ slashes = {}
    OBVIOUS
  <2>1. Len(p) = 1 /\ p[1] = "." /\ DOMAIN p = {1}
    BY DEF Dot
  <2>2. <<"/">>[1] = "/" /\ Len(<<>>) = 0
    OBVIOUS
  <2>3. p # <<"/">> /\ p # <<>>
    BY <2>1, <2>2
  <2>. QED
    BY <1>3, <2>1, <2>3
<1>8. PICK rest : rest = Tail(p)
  OBVIOUS
<1>9. PICK rest2 : rest2 = SubSeq(p, k + 1, Len(p))
  OBVIOUS
<1>. QED
  BY <1>1, <1>2, <1>6, <1>7, <1>8, <1>9, Zenon

\* Each component of testfs_dir_name_to_inode_nr leaves cur_dir and the beginning of the walk where
\* they should be.
LEMMA WhereWalk ==
  ASSUME Where, Walk
  PROVE  Where'
<1>. USE DEF Where, Typed
<1>1. pc = "walk" /\ cur \in Inodes /\ AtWalk
  BY WalkCases DEF Stage, Walking
<1>2. ASSUME NEW r \in Inodes \cup Errors, Found(r) PROVE Where'
  <2>1. /\ pc' = "walked" /\ ret' = r
        /\ UNCHANGED <<tree, cmd, fault, count, dirty, tx, cur, back, inode, stack, arg, walk>>
    BY <1>2 DEF Found, Quiet, mem
  <2>2. Typed'
    BY <1>1, <2>1 DEF TypedTree, TypedCount, TypedMem, TypedStack, TypedCmd, TypedArg, TypedWalk,
                     TypedEnd, Stages, nargs
  <2>3. AtWalk' /\ Listing'
    BY <1>1, <2>1 DEF AtWalk, ForName, ForCatr, ForCommand, Making, Creates, nargs, Plain, Fits, Listing
  <2>4. Stage'
    BY <2>1, <2>3 DEF Stage
  <2>. QED
    BY <2>2, <2>3, <2>4
<1>3. ASSUME NEW to \in Inodes, NEW rest, WalkOn(to, rest) PROVE Where'
  <2>0. PICK c : c = Replace(count, to, cur)
    OBVIOUS
  <2>1. /\ count' = c /\ cur' = to /\ stack' = AllLeft(stack, c)
        /\ walk' = [walk EXCEPT !.path = rest]
        /\ UNCHANGED <<tree, cmd, fault, dirty, tx, back, inode, arg, ret, pc>>
    BY <1>3, <2>0 DEF WalkOn, Quiet
  <2>2. c \in [Inodes -> Int]
    BY <2>0, Counting DEF Replace, TypedCount
  <2>3. stack' \in Seq(Frames) /\ Len(stack') = Len(stack) /\ (stack = <<>> <=> stack' = <<>>)
    BY <2>1, AllLeftType DEF TypedStack
  <2>4. walk' = [path |-> rest, from |-> walk.from, goal |-> walk.goal]
    BY <2>1 DEF TypedWalk
  <2>5. Typed'
    BY <1>1, <2>1, <2>2, <2>3, <2>4, InodeSet DEF TypedTree, TypedCount, TypedMem, TypedStack, TypedCmd, TypedArg,
                     TypedWalk, TypedEnd, Stages, nargs, Pointer
  <2>6. AtWalk'
    BY <1>1, <2>1, <2>3, <2>4 DEF AtWalk, ForName, ForCatr, ForCommand, Making, Creates, nargs, Plain, Fits
  <2>7. Stage'
    BY <1>1, <2>1, <2>6 DEF Stage, Walking
  <2>8. Listing'
    <3>1. cmd.op # "catr" => stack = <<>>
      BY <1>1 DEF AtWalk, ForName, ForCatr, ForCommand, Making, Plain
    <3>. QED
      BY <2>1, <2>3, <3>1 DEF Listing
  <2>. QED
    BY <2>5, <2>7, <2>8
<1>4. \A name : InodeNr(cur, name) \in Inodes \cup Errors
                /\ (~(InodeNr(cur, name) < 0) => InodeNr(cur, name) \in Inodes)
  BY <1>1, FindType
<1>5. Root \in Inodes \cup Errors /\ ENOENT \in Inodes \cup Errors /\ Root \in Inodes
  BY InodeSet, ErrnosHold DEF Errnos
<1>6. CASE Kill("not a directory")
  BY <1>6, WhereKill
<1>7. CASE ~Kill("not a directory")
  <2>. HIDE DEF Where, Typed
  <2>. QED
    BY <1>2, <1>3, <1>4, <1>5, <1>7, WalkCases, Zenon
<1>. QED
  BY <1>6, <1>7

\* The end of the walk restores cur_dir and hands the number over.
LEMMA WhereWalkEnd ==
  ASSUME Where, WalkEnd
  PROVE  Where'
<1>. USE DEF Where, Typed
<1>1. pc = "walked" /\ AtWalk /\ cur \in Inodes /\ walk.from \in Inodes
  BY DEF WalkEnd, Stage, Walking, AtWalk
<1>2. PICK c : c = Replace(count, walk.from, cur)
  OBVIOUS
<1>3. c \in [Inodes -> Int]
  BY <1>2, Counting DEF Replace, TypedCount
<1>4. /\ pc' = "looked"
      /\ UNCHANGED <<tree, cmd, fault, dirty, tx, back, inode, arg, walk, ret>>
      /\ cur' = walk.from
      /\ \/ count' = c /\ stack' = AllLeft(stack, c)
         \/ count' = count /\ stack' = stack
  BY <1>2 DEF WalkEnd, Quiet, Elsewhere
<1>5. stack' \in Seq(Frames) /\ Len(stack') = Len(stack) /\ (stack = <<>> <=> stack' = <<>>)
  BY <1>4, AllLeftType DEF TypedStack
<1>6. Typed'
  BY <1>1, <1>3, <1>4, <1>5, InodeSet DEF TypedTree, TypedCount, TypedMem, TypedStack, TypedCmd, TypedArg,
                     TypedWalk, TypedEnd, Stages, nargs, Pointer
<1>7. AtWalk'
  BY <1>1, <1>4, <1>5 DEF AtWalk, ForName, ForCatr, ForCommand, Making, Creates, nargs, Plain, Fits
<1>8. Stage'
  BY <1>4, <1>7 DEF Stage
<1>9. Listing'
  <2>1. cmd.op # "catr" => stack = <<>>
    BY <1>1 DEF AtWalk, ForName, ForCatr, ForCommand, Making, Plain
  <2>. QED
    BY <1>4, <1>5, <2>1 DEF Listing
<1>. QED
  BY <1>6, <1>8, <1>9

\* A create that has split its path changes directory and keeps the old one.
LEMMA WhereCd ==
  ASSUME Where, CdFound
  PROVE  Where'
<1>. USE DEF Where, Typed
<1>1. /\ pc = "looked" /\ walk.goal \in {"cd", "directory"}
      /\ UNCHANGED <<tree, cmd, fault, dirty, tx, inode, stack, arg, walk>>
  BY DEF CdFound, Looked, Quiet
<1>2. Plain /\ cur = Root /\ walk.from = Root /\ Fits(walk.goal)
  BY <1>1 DEF Stage, Walking, AtWalk, ForCommand
<1>3. CASE ret < 0 \/ ~IsDir(ret)
  <2>1. PICK r : r = IF ret < 0 THEN ret ELSE ENOTDIR
    OBVIOUS
  <2>2. Return(r) /\ UNCHANGED <<count, cur>>
    BY <1>3, <2>1 DEF CdFound
  <2>3. r \in Inodes \cup Errors
    BY <1>1, <2>1, ErrnosHold DEF TypedEnd, Errnos
  <2>4. back' = back
    BY <2>2 DEF CdFound, Return
  <2>5. Answers
    BY <1>1, <2>2, <2>3, <2>4 DEF Answers, Free, EndStep, Return, Quiet, mem
  <2>. QED
    BY <2>5, WherePlainly DEF Plainly
<1>4. CASE ~(ret < 0) /\ IsDir(ret)
  <2>1. /\ count' = Replace(count, ret, cur) /\ cur' = ret /\ ret' = 0
        /\ pc' = IF walk.goal = "cd" THEN "exit" ELSE "create"
        /\ back' = IF pc' = "create" THEN walk.from ELSE back
    BY <1>4 DEF CdFound
  <2>2. ret \in Inodes
    BY <1>4, ErrnosHold DEF TypedEnd, Errnos
  <2>3. count' \in [Inodes -> Int]
    BY <2>1, Counting DEF Replace, TypedCount
  <2>4. Typed'
    BY <1>1, <1>2, <2>1, <2>2, <2>3, InodeSet DEF TypedTree, TypedCount, TypedMem, TypedStack, TypedCmd,
         TypedArg, TypedWalk, TypedEnd, Stages, nargs, Pointer, Plain
  <2>5. pc' = "exit" => AtExit'
    BY <1>1, <1>2, <2>1, <2>2 DEF AtExit, Plain, Fits
  <2>6. pc' = "create" => AtCreate'
    BY <1>1, <1>2, <2>1, <2>2, InodeSet DEF AtCreate, Making, Creates, nargs, Plain, Fits
  <2>7. Stage'
    BY <2>1, <2>5, <2>6 DEF Stage, Walking
  <2>8. Listing'
    BY <1>1, <1>2 DEF Listing, Plain
  <2>. QED
    BY <2>4, <2>7, <2>8
<1>. QED
  BY <1>3, <1>4

\* write and owrite, from the inode they found to its put.
LEMMA WhereWrite ==
  ASSUME Where, WriteFound \/ OwriteBeyond \/ Written
  PROVE  Where'
<1>. USE DEF Where, Typed
<1>1. CASE WriteFound
  <2>1. /\ pc = "looked" /\ walk.goal = "write"
        /\ UNCHANGED <<tree, cmd, fault, cur, back, stack, arg, walk>>
    BY <1>1 DEF WriteFound, Looked, Quiet
  <2>2. Plain /\ cur = Root /\ Fits(walk.goal)
    BY <2>1 DEF Stage, Walking, AtWalk, ForCommand
  <2>3. CASE ret < 0 \/ IsDir(ret)
    <3>1. PICK r : r = IF ret < 0 THEN ret ELSE EISDIR
      OBVIOUS
    <3>2. Return(r) /\ UNCHANGED <<count, dirty, tx, inode>>
      BY <1>1, <2>3, <3>1 DEF WriteFound
    <3>3. r \in Inodes \cup Errors
      BY <2>1, <3>1, ErrnosHold DEF TypedEnd, Errnos
    <3>4. Answers
      BY <2>1, <3>2, <3>3 DEF Answers, Free, EndStep, Return, Quiet, mem
    <3>. QED
      BY <3>4, WherePlainly DEF Plainly
  <2>4. CASE ~(ret < 0 \/ IsDir(ret))
    <3>1. /\ count' = Get(count, ret) /\ inode' = ret /\ dirty' = dirty \cup {ret}
          /\ tx' = "TX_WRITE" /\ pc' = "written" /\ ret' \in {0, ENOSPC}
      BY <1>1, <2>4 DEF WriteFound, TxStart
    <3>2. ret \in Inodes
      BY <2>4, ErrnosHold DEF TypedEnd, Errnos
    <3>3. count' \in [Inodes -> Int]
      BY <3>1, Counting DEF TypedCount
    <3>4. Typed'
      BY <2>1, <2>2, <3>1, <3>2, <3>3, InodeSet, ErrnosHold DEF TypedTree, TypedCount, TypedMem, TypedStack,
           TypedCmd, TypedArg, TypedWalk, TypedEnd, Stages, nargs, Pointer, Errnos
    <3>5. AtWritten' /\ Listing'
      BY <2>1, <2>2, <3>1, <3>2 DEF AtWritten, Plain, Fits, Listing
    <3>6. Stage'
      BY <3>1, <3>5 DEF Stage, Walking
    <3>. QED
      BY <3>4, <3>5, <3>6
  <2>. QED
    BY <2>3, <2>4
<1>2. CASE OwriteBeyond
  BY <1>2, WhereKill DEF OwriteBeyond
<1>3. CASE Written
  <2>1. /\ pc = "written" /\ dirty' = dirty \ {inode} /\ tx' = "TX_NONE"
        /\ count' = Put(count, inode) /\ inode' = None /\ ret' = ret /\ pc' = "exit"
        /\ UNCHANGED <<tree, cmd, fault, cur, back, stack, arg, walk>>
    BY <1>3 DEF Written, TxCommit, Return, Quiet
  <2>2. AtWritten
    BY <2>1 DEF Stage
  <2>3. count' \in [Inodes -> Int]
    BY <2>1, Counting DEF TypedCount
  <2>4. Typed'
    BY <2>1, <2>2, <2>3 DEF TypedTree, TypedCount, TypedMem, TypedStack, TypedCmd,
         TypedArg, TypedWalk, TypedEnd, Stages, nargs
  <2>5. AtExit' /\ Listing'
    BY <2>1, <2>2, InodeSet DEF AtExit, AtWritten, Listing
  <2>6. Stage'
    BY <2>1, <2>5 DEF Stage, Walking
  <2>. QED
    BY <2>4, <2>5, <2>6
<1>. QED
  BY <1>1, <1>2, <1>3

\* The new name is a word.
LEMMA NameType ==
  ASSUME NEW p \in Seq(Seq(Characters)), NEW a \in 1 .. Len(p)
  PROVE  NewName(p[a]) \in Seq(Characters)
<1>1. PICK q : q = p[a]
  OBVIOUS
<1>2. q \in Seq(Characters) /\ Len(q) \in Nat /\ DOMAIN q = 1 .. Len(q)
  BY <1>1
<1>3. PICK S : S = {0} \cup {k \in DOMAIN q : q[k] = "/"}
  OBVIOUS
<1>4. S \in SUBSET Nat /\ S # {} /\ \A m \in S : m <= Len(q)
  BY <1>2, <1>3
<1>5. PICK m : m = Max(S)
  OBVIOUS
<1>6. m \in Nat
  BY <1>2, <1>4, <1>5, MaxOf
<1>7. CASE m = 0
  BY <1>1, <1>2, <1>3, <1>5, <1>7 DEF NewName, SlashAt
<1>8. CASE m # 0
  <2>1. PICK n : n = m - 1
    OBVIOUS
  <2>2. n \in Nat
    BY <1>6, <1>8, <2>1
  <2>3. PICK T : T = {1, n}
    OBVIOUS
  <2>4. T \in SUBSET Nat /\ T # {} /\ \A k \in T : k <= n + 1
    BY <2>2, <2>3
  <2>5. PICK o : o = Max(T)
    OBVIOUS
  <2>6. o \in Nat
    <3>1. PICK b : b = n + 1
      OBVIOUS
    <3>2. b \in Nat /\ \A k \in T : k <= b
      BY <2>2, <2>4, <3>1
    <3>. QED
      BY <2>4, <2>5, <3>2, MaxOf
  <2>7. NewName(q) = SubSeq(q, o + 2, Len(q))
    BY <1>3, <1>5, <1>8, <2>1, <2>3, <2>5, Zenon DEF NewName, SlashAt, Offset
  <2>8. SubSeq(q, o + 2, Len(q)) \in Seq(Characters)
    <3>1. PICK i : i = o + 2
      OBVIOUS
    <3>2. i \in Nat /\ i >= 1
      BY <2>6, <3>1
    <3>. QED
      BY <1>2, <3>1, <3>2, SubSeqProperties
  <2>. QED
    BY <1>1, <2>7, <2>8
<1>. QED
  BY <1>7, <1>8

\* The first half of testfs_create_file_or_dir: the name is looked up, the inode taken, a directory
\* given its two entries.
LEMMA WhereCreate ==
  ASSUME Where, CreateLookup \/ CreateInode \/ CreateEmptyDir
  PROVE  Where'
<1>. USE DEF Where, Typed
<1>1. CASE CreateLookup
  <2>1. /\ pc = "create" /\ tx' = "TX_CREATE"
        /\ UNCHANGED <<tree, cmd, fault, count, dirty, cur, back, inode, stack, arg>>
    BY <1>1 DEF CreateLookup, TxStart, Quiet
  <2>2. PICK p : Lookup(p, "name", cur)
    BY <1>1, Zenon DEF CreateLookup
  <2>3. /\ walk' = [path |-> p, from |-> cur, goal |-> "name"]
        /\ pc' \in {"walk", "looked"} /\ ret' \in {ret, EINVAL}
    BY <2>2 DEF Lookup
  <2>4. AtCreate
    BY <2>1 DEF Stage
  <2>5. Typed'
    BY <2>1, <2>3, <2>4, ErrnosHold DEF TypedTree, TypedCount, TypedMem, TypedStack, TypedCmd, TypedArg,
                     TypedWalk, TypedEnd, Stages, nargs, Errnos
  <2>6. AtWalk'
    BY <2>1, <2>3, <2>4 DEF AtWalk, AtCreate, ForName, Making, Creates, nargs
  <2>7. Stage' /\ Listing'
    BY <2>1, <2>3, <2>4, <2>6 DEF Stage, Listing, AtCreate, Making
  <2>. QED
    BY <2>5, <2>7
<1>2. CASE CreateInode
  <2>1. /\ pc = "looked" /\ walk.goal = "name"
        /\ UNCHANGED <<cmd, fault, tx, cur, back, stack, arg, walk>>
    BY <1>2 DEF CreateInode, Looked
  <2>2. cur \in Inodes /\ cur = walk.from /\ ForName
    BY <2>1 DEF Stage, Walking, AtWalk
  <2>3. CASE ret >= 0 \/ Used = Inodes
    <3>1. /\ ret' = (IF ret >= 0 THEN EEXIST ELSE ENOSPC)
          /\ pc' = "failed" /\ UNCHANGED <<tree, count, dirty, inode>>
      BY <1>2, <2>3 DEF CreateInode
    <3>2. Typed'
      BY <2>1, <2>2, <3>1, ErrnosHold DEF TypedTree, TypedCount, TypedMem, TypedStack, TypedCmd, TypedArg,
                     TypedWalk, TypedEnd, Stages, nargs, Errnos
    <3>3. AtFailed'
      BY <2>1, <2>2, <3>1, ErrnosHold DEF AtFailed, Spoilt, ForName, Making, Creates, nargs, Errnos
    <3>4. Stage' /\ Listing'
      BY <2>1, <2>2, <3>1, <3>3 DEF Stage, Walking, Listing, ForName, Making
    <3>. QED
      BY <3>2, <3>4
  <2>4. CASE ~(ret >= 0 \/ Used = Inodes)
    <3>1. PICK n : n = Min(Inodes \ Used)
      OBVIOUS
    <3>2. /\ count' = Get(count, n) /\ inode' = n /\ dirty' = dirty \cup {n}
          /\ tree' = [tree EXCEPT ![n].type = NewType]
          /\ ret' = 0 /\ pc' = IF NewType = "dir" THEN "fill" ELSE "enter"
      BY <1>2, <2>4, <3>1, Zenon DEF CreateInode
    <3>3. n \in Inodes
      <4>1. Inodes \ Used \in SUBSET Nat /\ Inodes \ Used # {}
        BY <2>4, InodeSet DEF Used
      <4>. QED
        BY <3>1, <4>1, MinOf
    <3>4. count' \in [Inodes -> Int]
      BY <3>2, Counting DEF TypedCount
    <3>5. tree' \in [Inodes -> Nodes]
      BY <3>2 DEF TypedTree, Nodes, NewType
    <3>6. Typed'
      BY <2>1, <2>2, <3>2, <3>3, <3>4, <3>5, InodeSet DEF TypedTree, TypedCount, TypedMem, TypedStack, TypedCmd,
           TypedArg, TypedWalk, TypedEnd, Stages, nargs, ForName
    <3>7. AtFill'
      BY <2>1, <2>2, <3>2, <3>3 DEF AtFill, AtMade, ForName, Making, Creates, nargs
    <3>8. Stage' /\ Listing'
      BY <2>1, <2>2, <3>2, <3>7 DEF Stage, Walking, Listing, ForName, Making
    <3>. QED
      BY <3>6, <3>8
  <2>. QED
    BY <2>3, <2>4
<1>3. CASE CreateEmptyDir
  <2>1. /\ pc = "fill" /\ AtFill
        /\ UNCHANGED <<cmd, fault, count, dirty, tx, cur, back, inode, stack, arg, walk>>
        /\ \/ ret' = ENOSPC /\ pc' = "undo" /\ UNCHANGED tree
           \/ /\ tree' = [tree EXCEPT ![inode].ents = EmptyDir(inode, cur)]
              /\ pc' = "enter" /\ UNCHANGED ret
    BY <1>3 DEF CreateEmptyDir, mem, Stage
  <2>2. EmptyDir(inode, cur) \in SUBSET Entries
    <3>1. Dot \in Seq(Characters) /\ DotDot \in Seq(Characters) /\ inode \in Inodes /\ cur \in Inodes
      BY <2>1, Words, Zenon DEF AtFill, AtMade
    <3>2. [name |-> Dot, nr |-> inode] \in Entries /\ [name |-> DotDot, nr |-> cur] \in Entries
      BY <3>1, Zenon DEF Entries
    <3>. QED
      BY <3>2, Zenon DEF EmptyDir
  <2>3. tree' \in [Inodes -> Nodes]
    BY <2>1, <2>2 DEF TypedTree, Nodes
  <2>4. Typed'
    BY <2>1, <2>3, ErrnosHold DEF TypedTree, TypedCount, TypedMem, TypedStack, TypedCmd,
         TypedArg, TypedWalk, TypedEnd, Stages, nargs, Errnos
  <2>5. pc' = "undo" => AtUndo'
    BY <2>1, ErrnosHold DEF AtFill, AtUndo, AtMade, Spoilt, Making, Creates, nargs, Errnos
  <2>6. pc' = "enter" => AtFill'
    BY <2>1 DEF AtFill, AtMade, Making, Creates, nargs
  <2>7. Stage' /\ Listing'
    BY <2>1, <2>5, <2>6 DEF Stage, Walking, Listing
  <2>. QED
    BY <2>4, <2>7
<1>. QED
  BY <1>1, <1>2, <1>3

\* The entry of a create, and what undoes the inode when the entry fails.
LEMMA WhereAdd ==
  ASSUME Where, AddDirent \/ Undo
  PROVE  Where'
<1>. USE DEF Where, Typed
<1>1. CASE AddDirent
  <2>1. PICK name : name = NewName(cmd.args[arg])
    OBVIOUS
  <2>2. /\ pc = "enter" /\ AtFill
        /\ UNCHANGED <<cmd, fault, count, tx, cur, back, inode, stack, arg, walk>>
        /\ \/ ret' = EEXIST /\ pc' = "undo" /\ UNCHANGED <<tree, dirty>>
           \/ ret' = ENOSPC /\ pc' = "undo" /\ UNCHANGED tree /\ dirty' = dirty \cup {cur}
           \/ /\ tree' = [tree EXCEPT ![cur].ents = @ \cup {[name |-> name, nr |-> inode]}]
              /\ dirty' = dirty \cup {cur} /\ pc' = "sync" /\ UNCHANGED ret
    BY <1>1, <2>1 DEF AddDirent, Stage
  <2>3. name \in Seq(Characters)
    <3>1. arg \in 1 .. Len(cmd.args)
      BY <2>2 DEF AtFill, AtMade, Making, TypedArg, TypedCmd, nargs
    <3>. QED
      BY <2>1, <3>1, NameType DEF TypedCmd
  <2>4. [name |-> name, nr |-> inode] \in Entries /\ cur \in Inodes
    BY <2>2, <2>3 DEF Entries, AtFill, AtMade
  <2>5. tree' \in [Inodes -> Nodes]
    BY <2>2, <2>4 DEF TypedTree, Nodes
  <2>6. Typed'
    BY <2>2, <2>5, ErrnosHold DEF TypedTree, TypedCount, TypedMem, TypedStack, TypedCmd,
         TypedArg, TypedWalk, TypedEnd, Stages, nargs, Errnos, AtFill, AtMade
  <2>7. pc' = "undo" => AtUndo'
    BY <2>2, ErrnosHold DEF AtFill, AtUndo, AtMade, Spoilt, Making, Creates, nargs, Errnos
  <2>8. pc' = "sync" => AtSync'
    BY <2>2 DEF AtFill, AtSync, AtMade, Making, Creates, nargs
  <2>9. Stage' /\ Listing'
    BY <2>2, <2>7, <2>8 DEF Stage, Walking, Listing
  <2>. QED
    BY <2>6, <2>9
<1>2. CASE Undo
  <2>1. /\ pc = "undo" /\ AtUndo /\ pc' = "failed"
        /\ tree' = [tree EXCEPT ![inode] = Blank]
        /\ dirty' = dirty \ {inode} /\ count' = Put(count, inode) /\ inode' = None
        /\ UNCHANGED <<cmd, fault, tx, cur, back, stack, arg, walk, ret>>
    BY <1>2 DEF Undo, Stage
  <2>2. count' \in [Inodes -> Int]
    BY <2>1, Counting DEF TypedCount
  <2>3. tree' \in [Inodes -> Nodes]
    BY <2>1 DEF TypedTree, Nodes, Blank
  <2>4. Typed'
    BY <2>1, <2>2, <2>3 DEF TypedTree, TypedCount, TypedMem, TypedStack, TypedCmd,
         TypedArg, TypedWalk, TypedEnd, Stages, nargs
  <2>5. AtFailed'
    BY <2>1 DEF AtFailed, AtUndo, AtMade, Spoilt, Making, Creates, nargs
  <2>6. Stage' /\ Listing'
    BY <2>1, <2>5 DEF Stage, Walking, Listing
  <2>. QED
    BY <2>4, <2>6
<1>. QED
  BY <1>1, <1>2

\* Back where the command began.
LEMMA CameHome ==
  ASSUME Where, NEW c \in [Inodes -> Int], ComeBack(c), Making(cur), cur \in Inodes
  PROVE  cur' = Root /\ back' = None /\ count' \in [Inodes -> Int]
<1>1. CameBack(c) \in [Inodes -> Int]
  BY Counting DEF CameBack, Replace
<1>. QED
  BY <1>1 DEF ComeBack, Where, Typed, TypedMem, Making

\* Both ends of testfs_create_file_or_dir.
LEMMA WhereCreated ==
  ASSUME Where, Created \/ CreateFailed
  PROVE  Where'
<1>. USE DEF Where, Typed
<1>1. CASE Created
  <2>0. PICK c : c = Put(count, inode)
    OBVIOUS
  <2>1. /\ pc = "sync" /\ AtSync /\ dirty' = dirty \ {cur, inode} /\ tx' = "TX_NONE"
        /\ inode' = None /\ ComeBack(c) /\ NextArg
        /\ UNCHANGED <<tree, cmd, fault, stack, walk>>
    BY <1>1, <2>0, Zenon DEF Created, TxCommit, Stage, Quiet
  <2>2. cur' = Root /\ back' = None /\ count' \in [Inodes -> Int]
    <3>1. c \in [Inodes -> Int]
      BY <2>0, Counting DEF TypedCount
    <3>. QED
      BY <2>1, <3>1, CameHome DEF AtSync, AtMade
  <2>3. /\ ret' = 0
        /\ \/ arg + 1 < nargs /\ arg' = arg + 1 /\ pc' = "handler"
           \/ arg' = arg /\ pc' = "exit"
    BY <2>1 DEF NextArg, Return
  <2>4. arg' \in 1 .. MaxArgs /\ (arg' = 1 \/ arg' < nargs)
    <3>1. Creates /\ (cmd.op = "mkdir" => nargs = 2) /\ Len(cmd.args) \in Nat
      BY <2>1 DEF AtSync, AtMade, Making, TypedCmd
    <3>2. arg + 1 < nargs => Len(cmd.args) <= MaxArgs
      BY <3>1 DEF Creates, TypedCmd, TypedArg, nargs
    <3>. QED
      BY <2>3, <3>1, <3>2, InodeSet DEF TypedArg, nargs
  <2>5. dirty' = {} /\ stack' = <<>>
    BY <2>1 DEF AtSync, AtMade, Making
  <2>6. Typed'
    BY <2>1, <2>2, <2>3, <2>4, <2>5, InodeSet DEF TypedTree, TypedCount, TypedMem, TypedStack, TypedCmd,
         TypedArg, TypedWalk, TypedEnd, Stages, nargs, Pointer
  <2>7. AtHandler' /\ AtExit' /\ Listing'
    BY <2>1, <2>2, <2>5, InodeSet DEF AtHandler, AtExit, Plain, Listing
  <2>8. Stage'
    BY <2>3, <2>7 DEF Stage, Walking
  <2>. QED
    BY <2>6, <2>7, <2>8
<1>2. CASE CreateFailed
  <2>1. pc = "failed" /\ AtFailed
    BY <1>2 DEF CreateFailed, Stage
  <2>2. CASE back # None /\ cur \in dirty
    BY <1>2, <2>2, WhereKill DEF CreateFailed
  <2>3. CASE ~(back # None /\ cur \in dirty)
    <3>1. /\ tx' = "TX_NONE" /\ ComeBack(count) /\ ret' = ret /\ pc' = "exit"
          /\ UNCHANGED <<tree, cmd, fault, dirty, inode, stack, arg, walk>>
      BY <1>2, <2>3 DEF CreateFailed, TxCommit, Return, Quiet
    <3>2. cur' = Root /\ back' = None /\ count' \in [Inodes -> Int]
      BY <2>1, <3>1, CameHome DEF AtFailed, TypedCount
    <3>3. Typed'
      BY <2>1, <3>1, <3>2, InodeSet DEF TypedTree, TypedCount, TypedMem, TypedStack, TypedCmd,
           TypedArg, TypedWalk, TypedEnd, Stages, nargs, Pointer
    <3>4. AtExit' /\ Listing'
      BY <2>1, <2>3, <3>1, <3>2, InodeSet DEF AtExit, AtFailed, Spoilt, Making, Creates, Listing
    <3>5. Stage'
      BY <3>1, <3>4 DEF Stage, Walking
    <3>. QED
      BY <3>3, <3>4, <3>5
  <2>. QED
    BY <2>2, <2>3
<1>. QED
  BY <1>1, <1>2

\* What rm finds: why it refuses, or the entry it takes away.
LEMMA RemoveCases ==
  ASSUME Where, RemoveDirent
  PROVE  /\ pc = "remove" /\ AtRemove
         /\ UNCHANGED <<cmd, fault, cur, back, stack, arg, walk>>
         /\ \/ /\ ret' \in Errors /\ ret' < 0 /\ tx' = "TX_NONE" /\ pc' = "exit"
               /\ UNCHANGED <<tree, count, dirty, inode>>
            \/ \E name, nr :
                 /\ name \notin Special /\ nr \in Find(cur, name) /\ nr \in Inodes
                 /\ Occupants(nr) = {}
                 /\ tree' = [tree EXCEPT ![cur].ents = {e \in @ : e.name # name}]
                 /\ dirty' = dirty \cup {cur} /\ count' = Get(count, nr) /\ inode' = nr
                 /\ ret' = 0 /\ pc' = "removed" /\ UNCHANGED tx
<1>1. PICK name : name = cmd.args[1]
  OBVIOUS
<1>2. PICK nr : nr = InodeNr(cur, name)
  OBVIOUS
<1>3. PICK r : r = IF name \in Special THEN EINVAL
                   ELSE IF nr < 0 THEN nr
                   ELSE IF Occupants(nr) # {} THEN ENOTEMPTY ELSE nr
  OBVIOUS
<1>4. /\ pc = "remove"
      /\ IF r < 0 THEN TxCommit("TX_RM") /\ Return(r) /\ UNCHANGED <<tree, count, dirty, inode>>
         ELSE /\ tree' = [tree EXCEPT ![cur].ents = {e \in @ : e.name # name}]
              /\ dirty' = dirty \cup {cur}
              /\ count' = Get(count, nr) /\ inode' = nr
              /\ ret' = 0 /\ pc' = "removed" /\ UNCHANGED tx
      /\ UNCHANGED <<cmd, fault, cur, back, stack, arg, walk>>
  BY <1>1, <1>2, <1>3, Zenon DEF RemoveDirent
<1>5. AtRemove /\ cur \in Inodes /\ TypedTree
  BY <1>4, InodeSet DEF Where, Typed, Stage, AtRemove, AtRm
<1>6. /\ nr \in Int
      /\ ~(nr < 0) => nr \in Find(cur, name) /\ nr \in Inodes
      /\ nr < 0 => nr \in Errors
  BY <1>2, <1>5, FindType
<1>7. r < 0 => r \in Errors
  BY <1>3, <1>6, ErrnosHold DEF Errnos
<1>8. ~(r < 0) => name \notin Special /\ ~(nr < 0) /\ Occupants(nr) = {}
  BY <1>3, <1>6, ErrnosHold DEF Errnos
<1>9. CASE r < 0
  BY <1>4, <1>5, <1>7, <1>9 DEF TxCommit, Return
<1>10. CASE ~(r < 0)
  BY <1>4, <1>5, <1>6, <1>8, <1>10, Zenon
<1>. QED
  BY <1>9, <1>10

\* rm: the entry erased, and the inode removed.
LEMMA WhereRemove ==
  ASSUME Where, RemoveDirent \/ RemoveInode
  PROVE  Where'
<1>. USE DEF Where, Typed
<1>1. CASE RemoveDirent
  <2>1. /\ pc = "remove" /\ AtRemove
        /\ UNCHANGED <<cmd, fault, cur, back, stack, arg, walk>>
    BY <1>1, RemoveCases
  <2>2. CASE /\ ret' \in Errors /\ ret' < 0 /\ tx' = "TX_NONE" /\ pc' = "exit"
             /\ UNCHANGED <<tree, count, dirty, inode>>
    <3>1. Typed'
      BY <2>1, <2>2 DEF TypedTree, TypedCount, TypedMem, TypedStack, TypedCmd,
           TypedArg, TypedWalk, TypedEnd, Stages, nargs
    <3>2. AtExit' /\ Listing'
      BY <2>1, <2>2, InodeSet DEF AtExit, AtRemove, AtRm, Listing
    <3>3. Stage'
      BY <2>2, <3>2 DEF Stage, Walking
    <3>. QED
      BY <3>1, <3>2, <3>3
  <2>3. CASE ~(/\ ret' \in Errors /\ ret' < 0 /\ tx' = "TX_NONE" /\ pc' = "exit"
               /\ UNCHANGED <<tree, count, dirty, inode>>)
    <3>1. PICK name, nr :
                 /\ nr \in Inodes
                 /\ tree' = [tree EXCEPT ![cur].ents = {e \in @ : e.name # name}]
                 /\ dirty' = dirty \cup {cur} /\ count' = Get(count, nr) /\ inode' = nr
                 /\ ret' = 0 /\ pc' = "removed" /\ UNCHANGED tx
      <4>. HIDE DEF Where
      <4>. QED
        BY <1>1, <2>3, RemoveCases, ZenonT(30)
    <3>2. tree' \in [Inodes -> Nodes]
      <4>1. PICK S : S = {e \in tree[cur].ents : e.name # name}
        OBVIOUS
      <4>2. tree' = [tree EXCEPT ![cur].ents = S]
        BY <3>1, <4>1
      <4>3. cur \in Inodes
        BY <2>1, InodeSet DEF AtRemove, AtRm
      <4>4. S \subseteq Entries
        BY <4>1, <4>3 DEF TypedTree, Nodes
      <4>. QED
        BY <4>2, <4>4 DEF TypedTree, Nodes
    <3>3. count' \in [Inodes -> Int]
      BY <3>1, Counting DEF TypedCount
    <3>4. Typed'
      BY <2>1, <3>1, <3>2, <3>3, InodeSet DEF TypedTree, TypedCount, TypedMem, TypedStack, TypedCmd,
           TypedArg, TypedWalk, TypedEnd, Stages, nargs, AtRemove, AtRm
    <3>5. AtRemoved' /\ Listing'
      BY <2>1, <3>1 DEF AtRemoved, AtRemove, AtRm, nargs, Listing
    <3>6. Stage'
      BY <3>1, <3>5 DEF Stage, Walking
    <3>. QED
      BY <3>4, <3>5, <3>6
  <2>. QED
    BY <2>2, <2>3
<1>2. CASE RemoveInode
  <2>1. /\ pc = "removed" /\ AtRemoved /\ pc' = "exit" /\ ret' = 0
        /\ tree' = [tree EXCEPT ![inode] = Blank]
        /\ count' = Put(count, inode) /\ inode' = None
        /\ dirty' = dirty \ {cur} /\ tx' = "TX_NONE"
        /\ UNCHANGED <<cmd, fault, cur, back, stack, arg, walk>>
    BY <1>2 DEF RemoveInode, TxCommit, Return, Stage
  <2>2. count' \in [Inodes -> Int]
    BY <2>1, Counting DEF TypedCount
  <2>3. tree' \in [Inodes -> Nodes]
    BY <2>1 DEF TypedTree, Nodes, Blank
  <2>4. Typed'
    BY <2>1, <2>2, <2>3, InodeSet DEF TypedTree, TypedCount, TypedMem, TypedStack, TypedCmd,
         TypedArg, TypedWalk, TypedEnd, Stages, nargs
  <2>5. AtExit' /\ Listing'
    BY <2>1, InodeSet DEF AtExit, AtRemoved, AtRm, Listing
  <2>6. Stage'
    BY <2>1, <2>5 DEF Stage, Walking
  <2>. QED
    BY <2>4, <2>5, <2>6
<1>. QED
  BY <1>1, <1>2

\* Stacks: the last call and those that wait for it.
LEMMA StackTop ==
  ASSUME NEW s \in Seq(Frames), s # <<>>
  PROVE  /\ Len(s) \in Nat /\ Len(s) > 0 /\ Last(s) = s[Len(s)] /\ Last(s) \in Frames
         /\ Front(s) \in Seq(Frames) /\ Len(Front(s)) = Len(s) - 1
         /\ \A k \in 1 .. (Len(s) - 1) : Front(s)[k] = s[k]
         /\ \A f \in Frames : /\ Front(s) \o <<f>> = Append(Front(s), f)
                              /\ Append(Front(s), f) \in Seq(Frames)
                              /\ Len(Append(Front(s), f)) = Len(s)
                              /\ Append(Front(s), f) # <<>>
                              /\ \A k \in 1 .. Len(s) :
                                   Append(Front(s), f)[k] = IF k = Len(s) THEN f ELSE s[k]
<1>1. Len(s) \in Nat /\ Len(s) > 0 /\ Last(s) = s[Len(s)] /\ Last(s) \in Frames
  BY DEF Last
<1>2. PICK n : n = Len(s) - 1
  OBVIOUS
<1>3. n \in Nat /\ n <= Len(s) /\ n + 1 = Len(s)
  BY <1>1, <1>2
<1>4. PICK t : t = Front(s)
  OBVIOUS
<1>5. t \in Seq(Frames) /\ Len(t) = n /\ \A k \in 1 .. n : t[k] = s[k]
  BY <1>2, <1>3, <1>4 DEF Front
<1>6. ASSUME NEW f \in Frames
      PROVE  /\ t \o <<f>> = Append(t, f) /\ Append(t, f) \in Seq(Frames)
             /\ Len(Append(t, f)) = Len(s) /\ Append(t, f) # <<>>
             /\ \A k \in 1 .. Len(s) : Append(t, f)[k] = IF k = Len(s) THEN f ELSE s[k]
  BY <1>3, <1>5
<1>. QED
  BY <1>1, <1>2, <1>4, <1>5, <1>6

\* An entry is passed, or entered by a nested call.
Entered(e)     == e \in Top.rest /\ (Top.fn # "checkfs" => e.name \notin Special)
SkipEntry(e)   == /\ stack' = Append(Front(stack), Visited(e)) /\ Quiet
                  /\ UNCHANGED <<count, dirty, tx, cur, back, inode, arg, walk, ret, pc>>
EnterEntry(e, rest) ==
  /\ Len(stack) # MaxDepth
  /\ stack' = Append(Append(Front(stack), Visited(e)), Call(Top.fn, e.nr, rest))
  /\ count' = Get(count, e.nr) /\ Quiet
  /\ UNCHANGED <<dirty, tx, cur, back, inode, arg, walk, ret, pc>>

\* A call of the listing commands that has visited an entry is what it was, with one entry less
\* before it.
LEMMA VisitedType ==
  ASSUME stack \in Seq(Frames), stack # <<>>, NEW e
  PROVE  /\ Visited(e) \in Frames /\ Visited(e).fn = Top.fn /\ Visited(e).in = Top.in
         /\ Visited(e).cin = Top.cin /\ Visited(e).tmp = Top.tmp
         /\ Visited(e).rest = Top.rest \ {e} /\ Top = stack[Len(stack)]
<1>1. PICK t : t = Top
  OBVIOUS
<1>2. t \in Frames
  BY <1>1, StackTop DEF Top
<1>3. Visited(e) = [t EXCEPT !.rest = @ \ {e}]
  BY <1>1 DEF Visited
<1>4. Top = stack[Len(stack)]
  BY DEF Top, Last
<1>. QED
  BY <1>1, <1>2, <1>3, <1>4 DEF Frames

\* What an entry of ls, lsr or checkfs can lead to: an inode that is not in use, a call too deep,
\* an entry passed over, or a nested call.
LEMMA ListCases ==
  ASSUME Where, LsEntry \/ CheckEntry
  PROVE  /\ pc = "list" /\ AtList
         /\ \/ \E e \in Top.rest : e.nr \notin Used /\ Kill("type")
            \/ Len(stack) = MaxDepth /\ (\E e : Entered(e)) /\ Kill("endless")
            \/ \E e \in Top.rest : SkipEntry(e)
            \/ \E e \in Top.rest : Entered(e) /\ EnterEntry(e, tree[e.nr].ents) /\ Top.fn = "lsr"
            \/ \E e \in Top.rest : Entered(e) /\ EnterEntry(e, Real(e.nr)) /\ Top.fn = "checkfs"
<1>1. pc = "list" /\ AtList
  BY DEF LsEntry, CheckEntry, Where, Stage
<1>2. stack \in Seq(Frames) /\ stack # <<>>
  BY <1>1 DEF Where, Typed, TypedStack, AtList, Visiting
<1>3. \A e : Front(stack) \o <<Visited(e)>> = Append(Front(stack), Visited(e))
  <2>. SUFFICES ASSUME NEW e
                PROVE  Front(stack) \o <<Visited(e)>> = Append(Front(stack), Visited(e))
    OBVIOUS
  <2>1. PICK v : v = Visited(e)
    OBVIOUS
  <2>2. v \in Frames
    BY <1>2, <2>1, VisitedType, Zenon
  <2>3. Front(stack) \o <<v>> = Append(Front(stack), v)
    BY <1>2, <2>2, StackTop
  <2>. QED
    BY <2>1, <2>3
<1>4. CASE LsEntry
  <2>1. PICK e \in Top.rest :
          IF Top.fn = "lsr" /\ IsDir(e.nr) /\ Descends(e)
          THEN IF Len(stack) = MaxDepth THEN Kill("endless")
               ELSE /\ stack' = Append(Front(stack) \o <<Visited(e)>>,
                                       Call("lsr", e.nr, tree[e.nr].ents))
                    /\ count' = Get(count, e.nr)
                    /\ Quiet /\ UNCHANGED <<dirty, tx, cur, back, inode, arg, walk, ret, pc>>
          ELSE /\ stack' = Front(stack) \o <<Visited(e)>>
               /\ Quiet /\ UNCHANGED <<count, dirty, tx, cur, back, inode, arg, walk, ret, pc>>
    BY <1>4, Zenon DEF LsEntry
  <2>2. CASE ~(Top.fn = "lsr" /\ IsDir(e.nr) /\ Descends(e))
    BY <1>1, <1>3, <2>1, <2>2, Zenon DEF SkipEntry
  <2>3. CASE Top.fn = "lsr" /\ IsDir(e.nr) /\ Descends(e)
    <3>1. Entered(e) /\ e.name \notin Special
      BY <2>3, Zenon DEF Entered, Descends
    <3>2. CASE Len(stack) = MaxDepth
      BY <1>1, <2>1, <2>3, <3>1, <3>2, Zenon
    <3>3. CASE Len(stack) # MaxDepth
      BY <1>1, <1>3, <2>1, <2>3, <3>1, <3>3, Zenon DEF EnterEntry
    <3>. QED
      BY <3>2, <3>3
  <2>. QED
    BY <2>2, <2>3
<1>5. CASE CheckEntry
  <2>0. Top.fn = "checkfs"
    BY <1>5 DEF CheckEntry
  <2>1. PICK e \in Top.rest :
          IF e.nr \notin Used THEN Kill("type")
          ELSE IF Len(stack) = MaxDepth THEN Kill("endless")
          ELSE /\ stack' = Append(Front(stack) \o <<Visited(e)>>,
                                  Call("checkfs", e.nr, Real(e.nr)))
               /\ count' = Get(count, e.nr)
               /\ Quiet /\ UNCHANGED <<dirty, tx, cur, back, inode, arg, walk, ret, pc>>
    BY <1>5, Zenon DEF CheckEntry
  <2>2. Entered(e)
    BY <2>0, <2>1 DEF Entered
  <2>3. CASE e.nr \notin Used
    BY <1>1, <2>1, <2>3, Zenon
  <2>4. CASE e.nr \in Used /\ Len(stack) = MaxDepth
    BY <1>1, <2>1, <2>2, <2>4, Zenon
  <2>5. CASE e.nr \in Used /\ Len(stack) # MaxDepth
    BY <1>1, <1>3, <2>0, <2>1, <2>2, <2>5, Zenon DEF EnterEntry
  <2>. QED
    BY <2>3, <2>4, <2>5
<1>. QED
  BY <1>4, <1>5

\* A new call of a listing command.
LEMMA CallType ==
  ASSUME NEW fn \in {"ls", "lsr", "checkfs", "catr"}, NEW in \in Pointer, NEW rest \in SUBSET Entries
  PROVE  /\ Call(fn, in, rest) \in Frames
         /\ Call(fn, in, rest) = [fn |-> fn, in |-> in, cin |-> None, tmp |-> None, rest |-> rest]
BY DEF Call, Frames, Pointer

\* The entries of a directory, with . and .. or without, are entries.
LEMMA RealType ==
  ASSUME TypedTree, NEW n \in Inodes
  PROVE  /\ tree[n].ents \in SUBSET Entries /\ Real(n) \in SUBSET Entries
         /\ Real(n) \subseteq tree[n].ents
         /\ \A e \in tree[n].ents : e.nr \in Inodes /\ e.nr \in Pointer
BY DEF TypedTree, Nodes, Entries, Real, Pointer

\* An entry of ls, lsr or checkfs leaves the process where its stage says.
LEMMA WhereEntry ==
  ASSUME Where, LsEntry \/ CheckEntry
  PROVE  Where'
<1>. USE DEF Where, Typed
<1>1. pc = "list" /\ AtList /\ stack \in Seq(Frames) /\ stack # <<>>
  BY ListCases DEF AtList, Visiting, TypedStack
<1>2. ASSUME NEW e, SkipEntry(e) PROVE Where'
  <2>1. PICK v : v = Visited(e)
    OBVIOUS
  <2>2. v \in Frames /\ v.fn = Top.fn /\ v.in = Top.in /\ v.cin = Top.cin /\ v.tmp = Top.tmp
    BY <1>1, <2>1, VisitedType, Zenon
  <2>3. /\ stack' = Append(Front(stack), v)
        /\ UNCHANGED <<tree, cmd, fault, count, dirty, tx, cur, back, inode, arg, walk, ret, pc>>
    BY <1>2, <2>1 DEF SkipEntry, Quiet
  <2>4. /\ stack' \in Seq(Frames) /\ Len(stack') = Len(stack) /\ stack' # <<>>
        /\ \A k \in DOMAIN stack' : k \in DOMAIN stack /\ stack'[k].fn = stack[k].fn /\ stack'[k].in = stack[k].in
              /\ stack'[k].cin = stack[k].cin /\ stack'[k].tmp = stack[k].tmp
    <3>1. \A k \in 1 .. Len(stack) : stack'[k] = IF k = Len(stack) THEN v ELSE stack[k]
      BY <1>1, <2>2, <2>3, StackTop
    <3>2. stack' \in Seq(Frames) /\ Len(stack') = Len(stack) /\ stack' # <<>>
      BY <1>1, <2>2, <2>3, StackTop
    <3>3. DOMAIN stack' = 1 .. Len(stack) /\ DOMAIN stack = 1 .. Len(stack)
      BY <1>1, <3>2
    <3>4. Top = stack[Len(stack)]
      BY DEF Top, Last
    <3>. QED
      BY <2>2, <3>1, <3>2, <3>3, <3>4
  <2>5. Typed'
    BY <2>3, <2>4 DEF TypedTree, TypedCount, TypedMem, TypedStack, TypedCmd,
           TypedArg, TypedWalk, TypedEnd, Stages, nargs
  <2>6. AtList'
    BY <1>1, <2>3, <2>4 DEF AtList, Visiting
  <2>7. Stage' /\ Listing'
    BY <1>1, <2>3, <2>4, <2>6 DEF Stage, Walking, Listing
  <2>. QED
    BY <2>5, <2>7
<1>3. ASSUME NEW e \in Top.rest, NEW rest, EnterEntry(e, rest), rest \in SUBSET Entries,
             e.nr \in Inodes
      PROVE  Where'
  <2>1. PICK v : v = Visited(e)
    OBVIOUS
  <2>2. v \in Frames /\ v.fn = Top.fn /\ v.in = Top.in /\ v.cin = Top.cin /\ v.tmp = Top.tmp
    BY <1>1, <2>1, VisitedType, Zenon
  <2>a. PICK f : f = Call(Top.fn, e.nr, rest)
    OBVIOUS
  <2>b. f \in Frames /\ f.fn = Top.fn /\ f.in = e.nr /\ f.cin = None /\ f.tmp = None
    <3>1. Top.fn \in {"ls", "lsr", "checkfs", "catr"}
      BY <1>1, StackTop DEF Top, Frames
    <3>. QED
      BY <1>3, <2>a, <3>1, CallType DEF Pointer
  <2>c. PICK s : s = Append(Front(stack), v)
    OBVIOUS
  <2>3. /\ stack' = Append(s, f) /\ count' = Get(count, e.nr) /\ Len(stack) # MaxDepth
        /\ UNCHANGED <<tree, cmd, fault, dirty, tx, cur, back, inode, arg, walk, ret, pc>>
    BY <1>3, <2>1, <2>a, <2>c DEF EnterEntry, Quiet
  <2>4. /\ s \in Seq(Frames) /\ Len(s) = Len(stack) /\ DOMAIN s = DOMAIN stack
        /\ \A k \in DOMAIN s : s[k].fn = stack[k].fn /\ s[k].in = stack[k].in
              /\ s[k].cin = stack[k].cin /\ s[k].tmp = stack[k].tmp
    <3>1. \A k \in 1 .. Len(stack) : s[k] = IF k = Len(stack) THEN v ELSE stack[k]
      BY <1>1, <2>2, <2>c, StackTop
    <3>2. s \in Seq(Frames) /\ Len(s) = Len(stack)
      BY <1>1, <2>2, <2>c, StackTop
    <3>3. DOMAIN s = 1 .. Len(stack) /\ DOMAIN stack = 1 .. Len(stack)
      BY <1>1, <3>2
    <3>4. Top = stack[Len(stack)]
      BY DEF Top, Last
    <3>. QED
      BY <2>2, <3>1, <3>2, <3>3, <3>4
  <2>5. /\ stack' \in Seq(Frames) /\ Len(stack') = Len(stack) + 1 /\ stack' # <<>>
        /\ \A k \in DOMAIN stack' : (k \in DOMAIN s /\ stack'[k] = s[k]) \/ stack'[k] = f
    BY <2>3, <2>4, <2>b
  <2>6. Len(stack') <= MaxDepth
    BY <2>3, <2>5, <1>1, InodeSet DEF TypedStack
  <2>7. count' \in [Inodes -> Int]
    BY <2>3, Counting DEF TypedCount
  <2>8. Typed'
    BY <2>3, <2>5, <2>6, <2>7 DEF TypedTree, TypedCount, TypedMem, TypedStack, TypedCmd,
           TypedArg, TypedWalk, TypedEnd, Stages, nargs
  <2>9. AtList' /\ cmd.op # "catr"
    BY <1>1, <2>3, <2>5 DEF AtList, Visiting
  <2>10. Listing'
    <3>0. Len(stack) \in DOMAIN stack /\ Top = stack[Len(stack)]
      BY <1>1, StackTop DEF Top, Last
    <3>1. Top.fn = cmd.op
      BY <2>9, <3>0 DEF Listing
    <3>2. \A k \in DOMAIN s : s[k].fn = cmd.op /\ s[k].in \in Inodes /\ s[k].cin = None /\ s[k].tmp = None
      BY <2>4, <2>9 DEF Listing
    <3>3. \A k \in DOMAIN stack' : stack'[k].fn = cmd.op /\ stack'[k].in \in Inodes
                                   /\ stack'[k].cin = None /\ stack'[k].tmp = None
      BY <1>3, <2>5, <2>b, <3>1, <3>2
    <3>. QED
      BY <2>3, <3>3 DEF Listing
  <2>11. Stage'
    BY <1>1, <2>3, <2>9 DEF Stage, Walking
  <2>. QED
    BY <2>8, <2>10, <2>11
<1>4. \A e \in Top.rest : e.nr \in Inodes
  <2>1. Top \in Frames
    BY <1>1, StackTop, Zenon DEF Top
  <2>. QED
    BY <2>1 DEF Frames, Entries
<1>5. \A n \in Inodes : tree[n].ents \in SUBSET Entries /\ Real(n) \in SUBSET Entries
  BY RealType
<1>6. CASE (\E e \in Top.rest : e.nr \notin Used /\ Kill("type")) \/ Kill("endless")
  BY <1>6, WhereKill
<1>7. CASE ~((\E e \in Top.rest : e.nr \notin Used /\ Kill("type")) \/ Kill("endless"))
  <2>. HIDE DEF Where, Typed
  <2>. QED
    BY <1>2, <1>3, <1>4, <1>5, <1>7, ListCases, Zenon
<1>. QED
  BY <1>6, <1>7

\* The first call of ls, lsr and checkfs.
FirstCall(in, rest) ==
  /\ pc \in {"handler", "looked"} /\ cmd.op \in {"ls", "lsr", "checkfs"} /\ Plain /\ cur = Root
  /\ stack' = <<Call(cmd.op, in, rest)>> /\ count' = Get(count, in) /\ pc' = "list" /\ Quiet
  /\ UNCHANGED <<dirty, tx, cur, back, inode, arg, walk, ret>>

\* How ls, lsr and checkfs begin: no, on a file, or with a first call.
LEMMA FirstCases ==
  ASSUME Where, LsFound \/ cmd_checkfs
  PROVE  \/ Plainly
         \/ pc = "looked" /\ walk.goal = "ls" /\ ret >= 0 /\ ~IsDir(ret) /\ Kill("not a directory")
         \/ pc = "looked" /\ walk.goal = "ls" /\ ret >= 0 /\ FirstCall(ret, tree[ret].ents)
         \/ FirstCall(Root, Real(Root)) /\ cmd.op = "checkfs"
<1>1. CASE LsFound
  <2>1. pc = "looked" /\ walk.goal = "ls" /\ ret \in Inodes \cup Errors
    BY <1>1 DEF LsFound, Looked, Where, Typed, TypedEnd
  <2>2. AtWalk /\ ForCommand /\ cmd.op \in {"ls", "lsr"} /\ Plain /\ cur = Root
    BY <2>1 DEF Where, Stage, Walking, AtWalk, ForCommand, Fits
  <2>3. CASE ret < 0
    <3>1. EndStep(ret)
      BY <1>1, <2>3, Zenon DEF LsFound, EndStep
    <3>. QED
      BY <2>1, <3>1 DEF Plainly, Answers, Free
  <2>4. CASE ~(ret < 0)
    <3>1. ret >= 0
      BY <2>1, <2>4, ErrnosHold DEF Errnos
    <3>2. (~IsDir(ret) /\ Kill("not a directory")) \/ FirstCall(ret, tree[ret].ents)
      BY <1>1, <2>1, <2>2, <2>4, Zenon DEF LsFound, FirstCall
    <3>. QED
      BY <2>1, <3>1, <3>2
  <2>. QED
    BY <2>3, <2>4
<1>2. CASE cmd_checkfs
  <2>1. CASE ~Plainly
    <3>1. /\ Runs("checkfs")
          /\ stack' = <<Call("checkfs", Root, Real(Root))>>
          /\ count' = Get(count, Root) /\ pc' = "list" /\ Quiet
          /\ UNCHANGED <<dirty, tx, cur, back, inode, arg, walk, ret>>
      BY <1>2, <2>1, Others, Zenon
    <3>2. AtHandler /\ cmd.op = "checkfs" /\ pc = "handler"
      BY <3>1 DEF Runs, Where, Stage
    <3>. QED
      BY <3>1, <3>2 DEF FirstCall, AtHandler
  <2>. QED
    BY <2>1
<1>. QED
  BY <1>1, <1>2

\* The first call of a listing holds one directory.
LEMMA WhereFirst ==
  ASSUME Where, NEW in \in Inodes, NEW rest \in SUBSET Entries, FirstCall(in, rest)
  PROVE  Where'
<1>. USE DEF Where, Typed
<1>1. PICK f : f = Call(cmd.op, in, rest)
  OBVIOUS
<1>2. cmd.op \in {"ls", "lsr", "checkfs"} /\ Plain /\ cur = Root
  BY DEF FirstCall
<1>3. f \in Frames /\ f.fn = cmd.op /\ f.in = in /\ f.cin = None /\ f.tmp = None
  BY <1>1, <1>2, CallType DEF Pointer
<1>4. /\ stack' = <<f>> /\ count' = Get(count, in) /\ pc' = "list"
      /\ UNCHANGED <<tree, cmd, fault, dirty, tx, cur, back, inode, arg, walk, ret>>
  BY <1>1 DEF FirstCall, Quiet
<1>5. /\ stack' \in Seq(Frames) /\ Len(stack') = 1 /\ stack' # <<>>
      /\ \A k \in DOMAIN stack' : stack'[k] = f
  BY <1>3, <1>4
<1>6. count' \in [Inodes -> Int]
  BY <1>4, Counting DEF TypedCount
<1>7. pc # "dead" => fault = "none"
  BY DEF TypedEnd
<1>8. pc # "dead"
  BY DEF FirstCall
<1>9. Typed'
  <2>1. TypedStack' /\ TypedCount'
    BY <1>5, <1>6, InodeSet DEF TypedStack, TypedCount
  <2>2. TypedTree' /\ TypedMem' /\ TypedCmd' /\ TypedArg' /\ TypedWalk'
    BY <1>4 DEF TypedTree, TypedMem, TypedCmd, TypedArg, TypedWalk, nargs
  <2>3. TypedEnd'
    BY <1>4, <1>7, <1>8 DEF TypedEnd, Stages
  <2>. QED
    BY <2>1, <2>2, <2>3
<1>10. AtList' /\ Listing'
  BY <1>2, <1>3, <1>4, <1>5 DEF AtList, Visiting, Plain, Listing
<1>11. Stage'
  BY <1>4, <1>10 DEF Stage, Walking
<1>. QED
  BY <1>9, <1>10, <1>11

\* A listing call that has visited its entries puts its directory and returns to its caller.
LEMMA WhereListEnd ==
  ASSUME Where, ListEnd
  PROVE  Where'
<1>. USE DEF Where, Typed
<1>1. pc = "list" /\ AtList /\ stack \in Seq(Frames) /\ stack # <<>>
  BY DEF ListEnd, Stage, AtList, Visiting, TypedStack
<1>2. /\ count' = Put(count, Top.in) /\ stack' = Front(stack)
      /\ \/ Len(stack) = 1 /\ ret' = 0 /\ pc' = "exit"
         \/ Len(stack) # 1 /\ ret' = ret /\ pc' = pc
      /\ UNCHANGED <<tree, cmd, fault, dirty, tx, cur, back, inode, arg, walk>>
  BY DEF ListEnd, Quiet, Return
<1>3. count' \in [Inodes -> Int]
  BY <1>2, Counting DEF TypedCount
<1>4. /\ stack' \in Seq(Frames) /\ Len(stack') = Len(stack) - 1
      /\ \A k \in DOMAIN stack' : k \in DOMAIN stack /\ stack'[k] = stack[k]
  BY <1>1, <1>2, StackTop
<1>5. Len(stack') <= MaxDepth /\ (Len(stack) = 1 => stack' = <<>>) /\ (Len(stack) # 1 => stack' # <<>>)
  BY <1>1, <1>4, StackTop, InodeSet, SMTT(30) DEF TypedStack
<1>6. Typed'
  BY <1>1, <1>2, <1>3, <1>4, <1>5, InodeSet DEF TypedTree, TypedCount, TypedMem, TypedStack, TypedCmd,
     TypedArg, TypedWalk, TypedEnd, Stages, nargs
<1>7. Listing'
  BY <1>1, <1>2, <1>4 DEF Listing
<1>8. CASE Len(stack) = 1
  <2>1. AtExit'
    BY <1>1, <1>2, <1>5, <1>8, InodeSet DEF AtExit, AtList, Visiting
  <2>2. Stage'
    BY <1>2, <1>8, <2>1 DEF Stage, Walking
  <2>. QED
    BY <1>6, <1>7, <2>2
<1>9. CASE Len(stack) # 1
  <2>1. AtList'
    BY <1>1, <1>2, <1>5, <1>9 DEF AtList, Visiting
  <2>2. Stage'
    BY <1>1, <1>2, <1>9, <2>1 DEF Stage, Walking
  <2>. QED
    BY <1>6, <1>7, <2>2
<1>. QED
  BY <1>8, <1>9

\* The walk of catr begins, or its path is refused.
LEMMA LookupIs ==
  ASSUME NEW p, NEW goal, NEW from, Lookup(p, goal, from)
  PROVE  /\ walk' = [path |-> p, from |-> from, goal |-> goal]
         /\ walk'.path = p /\ walk'.from = from /\ walk'.goal = goal
         /\ \/ pc' = "walk" /\ ret' = ret
            \/ pc' = "looked" /\ ret' = EINVAL
BY DEF Lookup

\* What no step of catr changes.
AtReading == /\ cmd.op = "catr" /\ back = None /\ inode = None /\ tx = "TX_NONE" /\ dirty = {}
             /\ pc # "dead"

\* catr goes into a child, which becomes cur_dir.
LEMMA WhereDeeper ==
  ASSUME Where, AtReading, NEW s \in Seq(Frames), Len(s) < MaxDepth, NEW dir \in Inodes,
         CatrCall(s, dir), cur' = dir, count' \in [Inodes -> Int],
         UNCHANGED <<tree, cmd, fault, dirty, tx, back, inode, arg>>
  PROVE  Where'
<1>. USE DEF Where, Typed
<1>1. PICK f : f = [Call("catr", None, {}) EXCEPT !.tmp = dir]
  OBVIOUS
<1>2. f \in Frames
  BY <1>1 DEF Call, Frames, Pointer
<1>3. stack' = Append(s, f) /\ Lookup(CatrPath, "catr", dir)
  BY <1>1, Zenon DEF CatrCall
<1>4. stack' \in Seq(Frames) /\ Len(stack') = Len(s) + 1 /\ stack' # <<>>
  BY <1>2, <1>3
<1>5. /\ walk' = [path |-> CatrPath, from |-> dir, goal |-> "catr"]
      /\ walk'.path = CatrPath /\ walk'.from = dir /\ walk'.goal = "catr"
      /\ \/ pc' = "walk" /\ ret' = ret
         \/ pc' = "looked" /\ ret' = EINVAL
  BY <1>3, LookupIs
<1>6. Typed'
  <2>1. TypedStack' /\ TypedCount'
    BY <1>4, InodeSet DEF TypedStack, TypedCount
  <2>2. TypedTree' /\ TypedMem' /\ TypedCmd' /\ TypedArg'
    BY DEF TypedTree, TypedMem, TypedCmd, TypedArg, nargs, Pointer
  <2>3. TypedEnd' /\ TypedWalk'
    BY <1>5, ErrnosHold DEF TypedEnd, TypedWalk, Stages, AtReading, Errnos
  <2>. QED
    BY <2>1, <2>2, <2>3
<1>7. AtWalk'
  BY <1>4, <1>5 DEF AtWalk, ForCatr, AtReading
<1>8. Stage' /\ Listing'
  BY <1>5, <1>7 DEF Stage, Walking, Listing, AtReading
<1>. QED
  BY <1>6, <1>8

\* A nested catr that comes back leaves its caller at the next entry.
LEMMA WhereBack ==
  ASSUME Where, AtReading, NEW s \in Seq(Frames), Len(s) <= MaxDepth, NEW c \in [Inodes -> Int],
         CatrBack(s, c, cur),
         UNCHANGED <<tree, cmd, fault, dirty, tx, back, inode, arg, walk>>
  PROVE  Where'
<1>. USE DEF Where, Typed
<1>1. /\ \A p \in Pointer : \A d : Left(p, d) \in Pointer
      /\ cur \in Pointer
  BY DEF Left, Pointer, TypedMem
<1>2. /\ TypedTree' /\ TypedCmd' /\ TypedArg' /\ TypedWalk'
      /\ (cur' \in Pointer => TypedMem')
  BY DEF TypedTree, TypedCmd, TypedArg, TypedWalk, TypedMem, nargs
<1>3. CASE s = <<>>
  <2>1. count' = c /\ cur' = Left(cur, c) /\ stack' = <<>> /\ ret' = 0 /\ pc' = "exit"
    BY <1>3 DEF CatrBack, Return
  <2>2. TypedStack' /\ TypedCount' /\ TypedEnd' /\ TypedMem'
    <3>1. <<>> \in Seq(Frames) /\ Len(<<>>) = 0
      OBVIOUS
    <3>. QED
      BY <1>1, <1>2, <2>1, <3>1, InodeSet DEF TypedStack, TypedCount, TypedEnd, Stages, AtReading
  <2>3. AtExit' /\ Listing'
    BY <2>1 DEF AtExit, AtReading, Listing
  <2>4. Stage'
    BY <2>1, <2>3 DEF Stage, Walking
  <2>. QED
    BY <1>2, <2>2, <2>3, <2>4
<1>4. CASE s # <<>>
  <2>1. PICK up : up = Last(s)
    OBVIOUS
  <2>2. PICK c2 : c2 = Put(c, up.cin)
    OBVIOUS
  <2>3. PICK v : v = [up EXCEPT !.cin = None]
    OBVIOUS
  <2>4. PICK s2 : s2 = Front(s) \o <<v>>
    OBVIOUS
  <2>5. up \in Frames /\ v \in Frames /\ up.tmp \in Pointer
    <3>1. up \in Frames
      BY <1>4, <2>1, StackTop
    <3>. QED
      BY <2>3, <3>1 DEF Frames, Pointer
  <2>6. c2 \in [Inodes -> Int]
    BY <2>2, Counting
  <2>7. s2 \in Seq(Frames) /\ Len(s2) = Len(s) /\ s2 # <<>>
    BY <1>4, <2>4, <2>5, StackTop
  <2>8. /\ count' = c2 /\ cur' = Left(up.tmp, c2) /\ stack' = AllLeft(s2, c2)
        /\ pc' = "catr" /\ ret' = ret
    BY <1>4, <2>1, <2>2, <2>3, <2>4 DEF CatrBack
  <2>9. stack' \in Seq(Frames) /\ Len(stack') = Len(s) /\ stack' # <<>>
    BY <1>4, <2>7, <2>8, AllLeftType
  <2>10. TypedStack' /\ TypedCount' /\ TypedEnd' /\ TypedMem'
    BY <1>1, <1>2, <2>5, <2>6, <2>8, <2>9 DEF TypedStack, TypedCount, TypedEnd, Stages, AtReading
  <2>11. AtCatr' /\ Listing'
    BY <2>8, <2>9 DEF AtCatr, Visiting, AtReading, Listing
  <2>12. Stage'
    BY <2>8, <2>11 DEF Stage, Walking
  <2>. QED
    BY <1>2, <2>10, <2>11, <2>12
<1>. QED
  BY <1>3, <1>4

\* The top call is replaced by f.
LEMMA WhereTop ==
  ASSUME Where, AtReading, stack # <<>>, NEW f \in Frames, stack' = Front(stack) \o <<f>>,
         count' \in [Inodes -> Int], pc' = "catr",
         UNCHANGED <<tree, cmd, fault, dirty, tx, cur, back, inode, arg, walk, ret>>
  PROVE  Where'
<1>. USE DEF Where, Typed
<1>1. stack' \in Seq(Frames) /\ Len(stack') = Len(stack) /\ stack' # <<>>
  BY StackTop DEF TypedStack
<1>2. Typed'
  <2>1. TypedStack' /\ TypedCount'
    BY <1>1 DEF TypedStack, TypedCount
  <2>2. TypedTree' /\ TypedMem' /\ TypedCmd' /\ TypedArg' /\ TypedWalk'
    BY DEF TypedTree, TypedMem, TypedCmd, TypedArg, TypedWalk, nargs
  <2>3. TypedEnd'
    BY DEF TypedEnd, Stages, AtReading
  <2>. QED
    BY <2>1, <2>2, <2>3
<1>3. AtCatr' /\ Listing'
  BY <1>1 DEF AtCatr, Visiting, AtReading, Listing
<1>4. Stage'
  BY <1>3 DEF Stage, Walking
<1>. QED
  BY <1>2, <1>3, <1>4

\* The steps of catr: it begins, has found its directory, has not, passes a file, goes into a
\* directory, and is through with one.
AtFound     == pc = "looked" /\ walk.goal = "catr"
CatrStart   == /\ Runs("catr") /\ nargs <= 2 /\ CatrCall(<<>>, cur) /\ Quiet
               /\ UNCHANGED <<count, dirty, tx, cur, back, inode, arg>>
CatrHas     == /\ AtFound /\ ret \in Inodes /\ IsDir(ret) /\ count' = Get(count, ret)
               /\ stack' = Front(stack) \o <<[Top EXCEPT !.in = ret, !.rest = Real(ret)]>>
               /\ pc' = "catr" /\ Quiet /\ UNCHANGED <<dirty, tx, cur, back, inode, arg, walk, ret>>
CatrNone    == /\ AtFound /\ ret < 0 /\ Len(stack) = 1 /\ Return(ret) /\ stack' = <<>> /\ Quiet
               /\ UNCHANGED <<count, dirty, tx, cur, back, inode, arg, walk>>
CatrUp(up, s, c) ==
  /\ AtFound /\ ret < 0 /\ Len(stack) # 1 /\ up.cin # Freed
  /\ ~CatrKilled(AllLeft(s, c)) /\ CatrBack(AllLeft(s, c), c, cur)
  /\ Quiet /\ UNCHANGED <<dirty, tx, back, inode, arg, walk>>
CatrSkip(e) == /\ pc = "catr" /\ e \in Top.rest /\ ~IsDir(e.nr)
               /\ stack' = Front(stack) \o <<Visited(e)>>
               /\ Quiet /\ UNCHANGED <<count, dirty, tx, cur, back, inode, arg, walk, ret, pc>>
CatrGo(e)   == /\ pc = "catr" /\ e \in Top.rest /\ IsDir(e.nr) /\ Len(stack) # MaxDepth
               /\ count' = Get(count, e.nr) /\ cur' = e.nr
               /\ CatrCall(Front(stack) \o <<[Visited(e) EXCEPT !.cin = e.nr]>>, e.nr)
               /\ Quiet /\ UNCHANGED <<dirty, tx, back, inode, arg>>
CatrDone    == /\ pc = "catr" /\ Top.rest = {} /\ ~CatrKilled(AllLeft(Front(stack), Put(count, Top.in)))
               /\ CatrBack(AllLeft(Front(stack), Put(count, Top.in)), Put(count, Top.in), cur)
               /\ Quiet /\ UNCHANGED <<dirty, tx, back, inode, arg, walk>>
CatrFault(by) ==
  /\ by # "none" /\ Kill(by)
  /\ \/ by = "not a directory" /\ AtFound /\ ret \in Inodes /\ ~IsDir(ret)
     \/ by = "endless" /\ pc = "catr" /\ Len(stack) = MaxDepth /\ (\E e \in Top.rest : IsDir(e.nr))
     \/ by \in {"freed", "left"} /\ AtFound /\ ret < 0
     \/ by \in {"freed", "left"} /\ pc = "catr"
        /\ CatrKilled(AllLeft(Front(stack), Put(count, Top.in)))

\* All that a step of catr can be: the four ends of its walk and its loop, a return to the caller,
\* an entry passed over or gone into, or a death.
LEMMA CatrCases ==
  ASSUME Where, cmd_catr \/ CatrFound \/ CatrEntry \/ CatrEnd
  PROVE  \/ Plainly \/ CatrStart \/ CatrHas \/ CatrNone \/ CatrDone
         \/ CatrUp(stack[Len(stack) - 1], SubSeq(stack, 1, Len(stack) - 2),
                   Put(Put(count, stack[Len(stack) - 1].cin), stack[Len(stack) - 1].in))
         \/ \E e \in Top.rest : CatrSkip(e) \/ CatrGo(e)
         \/ \E by : CatrFault(by)
<1>1. CASE cmd_catr
  BY <1>1, Others, Zenon DEF CatrStart
<1>2. CASE CatrFound
  <2>1. AtFound /\ ret \in Inodes \cup Errors
    BY <1>2 DEF CatrFound, Looked, AtFound, Where, Typed, TypedEnd
  <2>2. CASE ret >= 0
    <3>1. ret \in Inodes
      BY <2>1, <2>2, ErrnosHold DEF Errnos
    <3>2. CASE IsDir(ret)
      BY <1>2, <2>1, <2>2, <3>1, <3>2, Zenon DEF CatrFound, CatrHas
    <3>3. CASE ~IsDir(ret)
      <4>1. Kill("not a directory")
        BY <1>2, <2>2, <3>3, Zenon DEF CatrFound
      <4>2. CatrFault("not a directory")
        BY <2>1, <3>1, <3>3, <4>1 DEF CatrFault
      <4>. QED
        BY <4>2
    <3>. QED
      BY <3>2, <3>3
  <2>3. CASE ~(ret >= 0)
    <3>0. ret < 0
      BY <2>1, <2>3, InodeSet, ErrnosHold DEF Errnos
    <3>1. CASE Len(stack) = 1
      BY <1>2, <2>1, <2>3, <3>0, <3>1, Zenon DEF CatrFound, CatrNone
    <3>2. CASE Len(stack) # 1
      <4>1. PICK up : up = stack[Len(stack) - 1]
        OBVIOUS
      <4>2. PICK s : s = SubSeq(stack, 1, Len(stack) - 2)
        OBVIOUS
      <4>3. PICK c : c = Put(Put(count, up.cin), up.in)
        OBVIOUS
      <4>4. IF up.cin = Freed \/ CatrKilled(AllLeft(s, c)) THEN UseFreed
            ELSE /\ CatrBack(AllLeft(s, c), c, cur)
                 /\ Quiet /\ UNCHANGED <<dirty, tx, back, inode, arg, walk>>
        BY <1>2, <2>3, <3>2, <4>1, <4>2, <4>3, Zenon DEF CatrFound
      <4>5. CASE up.cin = Freed \/ CatrKilled(AllLeft(s, c))
        <5>1. PICK by \in {"freed", "left"} : Kill(by)
          BY <4>4, <4>5 DEF UseFreed
        <5>2. CatrFault(by)
          BY <2>1, <3>0, <5>1 DEF CatrFault
        <5>. QED
          BY <5>2
      <4>6. CASE ~(up.cin = Freed \/ CatrKilled(AllLeft(s, c)))
        <5>1. CatrUp(up, s, c)
          BY <2>1, <3>0, <3>2, <4>4, <4>6, Zenon DEF CatrUp
        <5>. QED
          BY <4>1, <4>2, <4>3, <5>1, Zenon
      <4>. QED
        BY <4>5, <4>6
    <3>. QED
      BY <3>1, <3>2
  <2>. QED
    BY <2>2, <2>3
<1>3. CASE CatrEntry
  <2>1. pc = "catr"
    BY <1>3 DEF CatrEntry
  <2>2. PICK e \in Top.rest :
       IF ~IsDir(e.nr)
       THEN /\ stack' = Front(stack) \o <<Visited(e)>>
            /\ Quiet /\ UNCHANGED <<count, dirty, tx, cur, back, inode, arg, walk, ret, pc>>
       ELSE IF Len(stack) = MaxDepth THEN Kill("endless")
       ELSE /\ count' = Get(count, e.nr) /\ cur' = e.nr
            /\ CatrCall(Front(stack) \o <<[Visited(e) EXCEPT !.cin = e.nr]>>, e.nr)
            /\ Quiet /\ UNCHANGED <<dirty, tx, back, inode, arg>>
    BY <1>3, Zenon DEF CatrEntry
  <2>3. CASE ~IsDir(e.nr)
    BY <2>1, <2>2, <2>3, Zenon DEF CatrSkip
  <2>4. CASE IsDir(e.nr) /\ Len(stack) = MaxDepth
    <3>1. Kill("endless")
      BY <2>2, <2>4, Zenon
    <3>2. CatrFault("endless")
      BY <2>1, <2>2, <2>4, <3>1 DEF CatrFault
    <3>. QED
      BY <3>2
  <2>5. CASE IsDir(e.nr) /\ Len(stack) # MaxDepth
    BY <2>1, <2>2, <2>5, Zenon DEF CatrGo
  <2>. QED
    BY <2>3, <2>4, <2>5
<1>4. CASE CatrEnd
  <2>1. PICK s : s = AllLeft(Front(stack), Put(count, Top.in))
    OBVIOUS
  <2>2. /\ pc = "catr" /\ Top.rest = {}
        /\ IF CatrKilled(s) THEN UseFreed
           ELSE /\ CatrBack(s, Put(count, Top.in), cur)
                /\ Quiet /\ UNCHANGED <<dirty, tx, back, inode, arg, walk>>
    BY <1>4, <2>1, Zenon DEF CatrEnd
  <2>3. CASE CatrKilled(s)
    <3>1. PICK by \in {"freed", "left"} : Kill(by)
      BY <2>2, <2>3 DEF UseFreed
    <3>2. CatrFault(by)
      BY <2>1, <2>2, <2>3, <3>1 DEF CatrFault
    <3>. QED
      BY <3>2
  <2>4. CASE ~CatrKilled(s)
    BY <2>1, <2>2, <2>4, Zenon DEF CatrDone
  <2>. QED
    BY <2>3, <2>4
<1>. QED
  BY <1>1, <1>2, <1>3, <1>4

\* In catr the walk and the directory read are its own.
LEMMA AtCatrNow ==
  ASSUME Where, AtFound \/ pc = "catr"
  PROVE  AtReading /\ stack # <<>> /\ stack \in Seq(Frames) /\ Len(stack) <= MaxDepth
         /\ Len(stack) \in Nat /\ Len(stack) > 0
         /\ (AtFound => AtWalk /\ cur = walk.from /\ cur \in Inodes)
<1>1. stack \in Seq(Frames) /\ Len(stack) <= MaxDepth
  BY DEF Where, Typed, TypedStack
<1>2. CASE AtFound
  <2>1. AtWalk
    BY <1>2 DEF AtFound, Where, Stage, Walking
  <2>2. ForCatr /\ cur = walk.from /\ cur \in Inodes
    BY <1>2, <2>1 DEF AtFound, AtWalk
  <2>. QED
    BY <1>1, <1>2, <2>1, <2>2, StackTop DEF ForCatr, AtReading, AtFound
<1>3. CASE pc = "catr"
  BY <1>1, <1>3, StackTop DEF Where, Stage, AtCatr, Visiting, AtReading, AtFound
<1>. QED
  BY <1>2, <1>3

\* Each of them leaves the process where its stage says.
LEMMA WhereCatr ==
  ASSUME Where, cmd_catr \/ CatrFound \/ CatrEntry \/ CatrEnd
  PROVE  Where'
<1>1. TypedTree /\ TypedCount
  BY DEF Where, Typed
<1>2. CASE CatrStart
  <2>1. AtHandler /\ cmd.op = "catr" /\ pc = "handler"
    BY <1>2 DEF CatrStart, Runs, Where, Stage
  <2>2. AtReading
    BY <2>1 DEF AtHandler, Plain, AtReading
  <2>3. <<>> \in Seq(Frames) /\ Len(<<>>) < MaxDepth /\ cur \in Inodes
    BY <2>1, InodeSet DEF AtHandler
  <2>4. /\ CatrCall(<<>>, cur) /\ cur' = cur /\ count' \in [Inodes -> Int]
        /\ UNCHANGED <<tree, cmd, fault, dirty, tx, back, inode, arg>>
    BY <1>1, <1>2 DEF CatrStart, Quiet, TypedCount
  <2>. QED
    BY <2>2, <2>3, <2>4, WhereDeeper
<1>3. CASE CatrHas
  <2>1. AtReading /\ stack # <<>> /\ stack \in Seq(Frames)
    BY <1>3, AtCatrNow DEF CatrHas
  <2>2. PICK f : f = [Top EXCEPT !.in = ret, !.rest = Real(ret)]
    OBVIOUS
  <2>3. Top \in Frames /\ ret \in Inodes /\ Real(ret) \in SUBSET Entries
    BY <1>1, <1>3, <2>1, StackTop, RealType DEF Top, CatrHas
  <2>4. f \in Frames
    BY <2>2, <2>3 DEF Frames, Pointer
  <2>5. /\ stack' = Front(stack) \o <<f>> /\ count' = Get(count, ret) /\ pc' = "catr"
        /\ UNCHANGED <<tree, cmd, fault, dirty, tx, cur, back, inode, arg, walk, ret>>
    BY <1>3, <2>2 DEF CatrHas, Quiet
  <2>6. count' \in [Inodes -> Int]
    BY <1>1, <2>5, Counting DEF TypedCount
  <2>. QED
    BY <2>1, <2>4, <2>5, <2>6, WhereTop
<1>4. CASE CatrNone
  <2>1. AtReading
    BY <1>4, AtCatrNow DEF CatrNone
  <2>2. /\ ret < 0 /\ ret' = ret /\ pc' = "exit" /\ stack' = <<>>
        /\ UNCHANGED <<tree, cmd, fault, count, dirty, tx, cur, back, inode, arg, walk>>
    BY <1>4 DEF CatrNone, Return, Quiet
  <2>3. <<>> \in Seq(Frames) /\ Len(<<>>) = 0
    OBVIOUS
  <2>. USE DEF Where, Typed
  <2>4. Typed'
    BY <2>1, <2>2, <2>3, InodeSet DEF TypedTree, TypedCount, TypedMem, TypedStack, TypedCmd,
       TypedArg, TypedWalk, TypedEnd, Stages, nargs, AtReading
  <2>5. AtExit' /\ Listing'
    BY <2>1, <2>2 DEF AtExit, AtReading, Listing
  <2>6. Stage'
    BY <2>2, <2>5 DEF Stage, Walking
  <2>. QED
    BY <2>4, <2>5, <2>6
<1>5. CASE CatrDone
  <2>1. AtReading /\ stack # <<>> /\ stack \in Seq(Frames) /\ Len(stack) <= MaxDepth
    BY <1>5, AtCatrNow DEF CatrDone
  <2>2. PICK c : c = Put(count, Top.in)
    OBVIOUS
  <2>3. c \in [Inodes -> Int]
    BY <1>1, <2>2, Counting DEF TypedCount
  <2>4. PICK s : s = AllLeft(Front(stack), c)
    OBVIOUS
  <2>5. s \in Seq(Frames) /\ Len(s) = Len(stack) - 1
    BY <2>1, <2>4, StackTop, AllLeftType
  <2>6. CatrBack(s, c, cur) /\ UNCHANGED <<tree, cmd, fault, dirty, tx, back, inode, arg, walk>>
    BY <1>5, <2>2, <2>4 DEF CatrDone, Quiet
  <2>7. Len(s) <= MaxDepth
    BY <2>1, <2>5, InodeSet, StackTop
  <2>. QED
    BY <2>1, <2>3, <2>5, <2>6, <2>7, WhereBack
<1>6. ASSUME NEW up, NEW s, s = SubSeq(stack, 1, Len(stack) - 2), NEW c \in [Inodes -> Int],
             CatrUp(up, s, c)
      PROVE  Where'
  <2>1. AtReading /\ stack # <<>> /\ stack \in Seq(Frames) /\ Len(stack) <= MaxDepth
        /\ Len(stack) \in Nat /\ Len(stack) > 0
    BY <1>6, AtCatrNow DEF CatrUp
  <2>a. Len(stack) # 1
    BY <1>6, Zenon DEF CatrUp
  <2>b. PICK m : m = Len(stack) - 2
    OBVIOUS
  <2>2. m \in Nat /\ m <= Len(stack) /\ s = SubSeq(stack, 1, m)
    BY <1>6, <2>1, <2>a, <2>b
  <2>3. s \in Seq(Frames) /\ Len(s) = m
    BY <2>1, <2>2
  <2>4. PICK t : t = AllLeft(s, c)
    OBVIOUS
  <2>5. t \in Seq(Frames) /\ Len(t) <= MaxDepth
    BY <2>1, <2>2, <2>3, <2>4, AllLeftType, InodeSet, SMTT(30)
  <2>6. CatrBack(t, c, cur) /\ UNCHANGED <<tree, cmd, fault, dirty, tx, back, inode, arg, walk>>
    BY <1>6, <2>4 DEF CatrUp, Quiet
  <2>. QED
    BY <1>6, <2>1, <2>5, <2>6, WhereBack
<1>7. ASSUME NEW e \in Top.rest, CatrSkip(e) PROVE Where'
  <2>1. AtReading /\ stack # <<>> /\ stack \in Seq(Frames)
    BY <1>7, AtCatrNow DEF CatrSkip
  <2>2. PICK f : f = Visited(e)
    OBVIOUS
  <2>3. f \in Frames
    BY <2>1, <2>2, VisitedType, Zenon
  <2>4. /\ stack' = Front(stack) \o <<f>> /\ count' \in [Inodes -> Int] /\ pc' = "catr"
        /\ UNCHANGED <<tree, cmd, fault, dirty, tx, cur, back, inode, arg, walk, ret>>
    BY <1>1, <1>7, <2>2 DEF CatrSkip, Quiet, TypedCount
  <2>. QED
    BY <2>1, <2>3, <2>4, WhereTop
<1>8. ASSUME NEW e \in Top.rest, CatrGo(e) PROVE Where'
  <2>1. AtReading /\ stack # <<>> /\ stack \in Seq(Frames) /\ Len(stack) <= MaxDepth
        /\ Len(stack) \in Nat
    BY <1>8, AtCatrNow DEF CatrGo
  <2>2. Top \in Frames /\ Visited(e) \in Frames
    BY <2>1, StackTop, VisitedType, Zenon DEF Top
  <2>3. e.nr \in Inodes
    <3>1. PICK t : t = Top
      OBVIOUS
    <3>. QED
      BY <1>8, <2>2, <3>1 DEF Frames, Entries
  <2>4. PICK f : f = [Visited(e) EXCEPT !.cin = e.nr]
    OBVIOUS
  <2>5. f \in Frames
    <3>1. PICK g : g = Visited(e)
      OBVIOUS
    <3>2. g \in Frames /\ f = [g EXCEPT !.cin = e.nr]
      BY <2>2, <2>4, <3>1
    <3>. QED
      BY <2>3, <3>2 DEF Frames, Pointer
  <2>6. PICK s : s = Front(stack) \o <<f>>
    OBVIOUS
  <2>7. s \in Seq(Frames) /\ Len(s) = Len(stack)
    BY <2>1, <2>5, <2>6, StackTop
  <2>8. /\ CatrCall(s, e.nr) /\ cur' = e.nr /\ count' = Get(count, e.nr) /\ Len(stack) # MaxDepth
        /\ UNCHANGED <<tree, cmd, fault, dirty, tx, back, inode, arg>>
    BY <1>8, <2>4, <2>6 DEF CatrGo, Quiet
  <2>9. count' \in [Inodes -> Int] /\ Len(s) < MaxDepth
    BY <1>1, <2>1, <2>7, <2>8, Counting, InodeSet DEF TypedCount
  <2>. QED
    BY <2>1, <2>3, <2>7, <2>8, <2>9, WhereDeeper
<1>9. ASSUME NEW by, CatrFault(by) PROVE Where'
  BY <1>9, WhereKill DEF CatrFault
<1>10. ASSUME Plainly PROVE Where'
  BY <1>10, WherePlainly
<1>11. PICK up, s, c : /\ up = stack[Len(stack) - 1] /\ s = SubSeq(stack, 1, Len(stack) - 2)
                       /\ c = Put(Put(count, up.cin), up.in)
  OBVIOUS
<1>12. c \in [Inodes -> Int]
  BY <1>1, <1>11, Counting DEF TypedCount
<1>. QED
  BY <1>2, <1>3, <1>4, <1>5, <1>6, <1>7, <1>8, <1>9, <1>10, <1>11, <1>12, CatrCases, Zenon

\* The end of main: it is killed, or forgets all.
LEMMA ExitCases ==
  ASSUME Where, Exit
  PROVE  /\ pc = "exit"
         /\ \/ cur = Freed /\ UseFreed
            \/ cur # Freed /\ cur \in dirty /\ Kill("dirty")
            \/ cur # Freed /\ (\E n \in Inodes : Put(count, cur)[n] > 0) /\ Kill("left")
            \/ tx = "TX_NONE" /\ Forget /\ ret' = IF ret < 0 THEN Failed ELSE 0
BY Zenon DEF Exit

\* The end of a process, alive or not.
LEMMA WhereForget ==
  ASSUME Where, Forget, ret' \in {Failed, Died, 0}
  PROVE  Where'
<1>. USE DEF Where, Typed
<1>1. /\ count' = [n \in Inodes |-> 0] /\ dirty' = {} /\ tx' = "TX_NONE"
      /\ cur' = None /\ back' = None /\ inode' = None /\ stack' = <<>>
      /\ cmd' = NoCmd /\ arg' = 1 /\ walk' = NoWalk /\ pc' = "idle" /\ fault' = "none"
      /\ tree' = tree
  BY Zenon DEF Forget
<1>2. Typed'
  <2>1. <<>> \in Seq(Frames) /\ Len(<<>>) = 0 /\ <<>> \in Seq(Seq(Characters))
    OBVIOUS
  <2>2. TypedStack' /\ TypedCount' /\ TypedTree' /\ TypedMem'
    BY <1>1, <2>1, InodeSet DEF TypedStack, TypedCount, TypedTree, TypedMem, Pointer
  <2>3. TypedCmd' /\ TypedWalk' /\ TypedArg'
    BY <1>1, <2>1, InodeSet DEF TypedCmd, TypedWalk, TypedArg, NoCmd, NoWalk, nargs
  <2>4. TypedEnd'
    BY <1>1, InodeSet, ErrnosHold DEF TypedEnd, Stages, Errnos
  <2>. QED
    BY <2>2, <2>3, <2>4
<1>3. AtIdle' /\ Listing'
  BY <1>1 DEF AtIdle, Plain, Listing
<1>4. Stage'
  BY <1>1, <1>3 DEF Stage, Walking
<1>. QED
  BY <1>2, <1>3, <1>4

\* main after the command: cur_dir is put, and the next process may start.
LEMMA WhereEnd ==
  ASSUME Where, Exit \/ Leave
  PROVE  Where'
<1>1. CASE Exit
  <2>1. CASE \E by \in {"freed", "left", "dirty"} : Kill(by)
    BY <2>1, WhereKill
  <2>2. CASE Forget /\ ret' = IF ret < 0 THEN Failed ELSE 0
    BY <2>2, WhereForget
  <2>. QED
    BY <1>1, <2>1, <2>2, ExitCases DEF UseFreed
<1>2. CASE Leave
  BY <1>2, WhereForget DEF Leave
<1>. QED
  BY <1>1, <1>2

\* Every step keeps the invariant: one lemma above for each action.
LEMMA WhereNext ==
  ASSUME Where, [Next]_vars
  PROVE  Where'
<1>1. CASE UNCHANGED vars
  BY <1>1, SMTT(30) DEF vars, mem, Where, Typed, TypedTree, TypedCount, TypedMem, TypedStack, TypedCmd,
     TypedArg, TypedWalk, TypedEnd, nargs, Stage, AtIdle, AtHandler, AtExit, AtWalk, AtCreate,
     AtMade, AtFill, AtSync, Spoilt, AtUndo, AtFailed, AtWritten, AtRm, AtRemove, AtRemoved,
     Visiting, AtList, AtCatr, Walking, Plain, Making, Fits, ForName, ForCatr, ForCommand,
     Creates, Listing
<1>2. CASE Start \/ Walk \/ WalkEnd \/ CdFound
  BY <1>2, WhereLaunch, WhereWalk, WhereWalkEnd, WhereCd
<1>3. CASE Read
  BY <1>3, Reads, WherePlainly
<1>4. CASE Change
  <2>1. CASE cmd_write \/ cmd_owrite \/ Create \/ cmd_rm
    <3>1. CASE Plainly
      BY <3>1, WherePlainly
    <3>2. CASE ~Plainly
      <4>. USE DEF Where, Typed
      <4>1. CASE /\ pc = "handler" /\ Creates /\ pc' = "create" /\ nargs >= 2
                 /\ (cmd.op = "mkdir" => nargs = 2)
                 /\ Quiet /\ UNCHANGED <<mem, arg, walk, ret>>
        <5>1. UNCHANGED <<tree, cmd, fault, count, dirty, tx, cur, back, inode, stack, arg, walk, ret>>
          BY <4>1 DEF Quiet, mem
        <5>2. AtHandler
          BY <4>1 DEF Stage
        <5>3. Typed'
          BY <4>1, <5>1 DEF TypedTree, TypedCount, TypedMem, TypedStack, TypedCmd,
             TypedArg, TypedWalk, TypedEnd, Stages, nargs
        <5>4. AtCreate' /\ Listing'
          BY <4>1, <5>1, <5>2, InodeSet DEF AtCreate, AtHandler, Plain, Making, Creates, nargs, Listing
        <5>5. Stage'
          BY <4>1, <5>4 DEF Stage, Walking
        <5>. QED
          BY <5>3, <5>4, <5>5
      <4>2. CASE /\ Runs("rm") /\ nargs = 2 /\ TxStart("TX_RM")
                 /\ pc' = "remove" /\ Quiet
                 /\ UNCHANGED <<count, dirty, cur, back, inode, stack, arg, walk, ret>>
        <5>1. /\ tx' = "TX_RM" /\ cmd.op = "rm" /\ pc = "handler"
              /\ UNCHANGED <<tree, cmd, fault, count, dirty, cur, back, inode, stack, arg, walk, ret>>
          BY <4>2 DEF Quiet, Runs, TxStart
        <5>2. AtHandler
          BY <5>1 DEF Stage
        <5>3. Typed'
          BY <4>2, <5>1 DEF TypedTree, TypedCount, TypedMem, TypedStack, TypedCmd,
             TypedArg, TypedWalk, TypedEnd, Stages, nargs
        <5>4. AtRemove' /\ Listing'
          BY <4>2, <5>1, <5>2, InodeSet DEF AtRemove, AtRm, AtHandler, Plain, nargs, Listing
        <5>5. Stage'
          BY <4>2, <5>4 DEF Stage, Walking
        <5>. QED
          BY <5>3, <5>4, <5>5
      <4>. HIDE DEF Where, Typed
      <4>. QED
        BY <2>1, <3>2, <4>1, <4>2, Others, Zenon
    <3>. QED
      BY <3>1, <3>2
  <2>2. CASE WriteFound \/ OwriteBeyond \/ Written
    BY <2>2, WhereWrite
  <2>3. CASE CreateLookup \/ CreateInode \/ CreateEmptyDir
    BY <2>3, WhereCreate
  <2>4. CASE AddDirent \/ Undo
    BY <2>4, WhereAdd
  <2>5. CASE Created \/ CreateFailed
    BY <2>5, WhereCreated
  <2>6. CASE RemoveDirent \/ RemoveInode
    BY <2>6, WhereRemove
  <2>. QED
    BY <1>4, <2>1, <2>2, <2>3, <2>4, <2>5, <2>6 DEF Change
<1>5. CASE Visit
  <2>1. CASE cmd_ls
    BY <2>1, Others, WherePlainly, Zenon
  <2>2. CASE LsFound \/ cmd_checkfs
    <3>0. TypedTree /\ ret \in Inodes \cup Errors
      BY DEF Where, Typed, TypedEnd
    <3>1. ret >= 0 => ret \in Inodes
      BY <3>0, InodeSet, ErrnosHold DEF Errnos
    <3>2. \A n \in Inodes : tree[n].ents \in SUBSET Entries /\ Real(n) \in SUBSET Entries
      BY <3>0, RealType
    <3>3. CASE Plainly
      BY <3>3, WherePlainly
    <3>4. CASE Kill("not a directory")
      BY <3>4, WhereKill
    <3>5. CASE ret >= 0 /\ FirstCall(ret, tree[ret].ents)
      BY <3>1, <3>2, <3>5, WhereFirst
    <3>6. CASE FirstCall(Root, Real(Root))
      BY <3>2, <3>6, WhereFirst, InodeSet
    <3>. QED
      BY <2>2, <3>3, <3>4, <3>5, <3>6, FirstCases, Zenon
  <2>3. CASE LsEntry \/ CheckEntry
    BY <2>3, WhereEntry
  <2>4. CASE ListEnd
    BY <2>4, WhereListEnd
  <2>5. CASE cmd_catr \/ CatrFound \/ CatrEntry \/ CatrEnd
    BY <2>5, WhereCatr
  <2>. QED
    BY <1>5, <2>1, <2>2, <2>3, <2>4, <2>5 DEF Visit
<1>6. CASE Exit \/ Leave
  BY <1>6, WhereEnd
<1>. QED
  BY <1>1, <1>2, <1>3, <1>4, <1>5, <1>6 DEF Next

\* Whatever the command, each variable holds what the step it is at leaves there: who holds
\* an inode, which transaction is open, what is dirty and where the way back leads
\* (dir.c:310 to dir.c:410, file.c, and the recursions of ls, checkfs and catr).
THEOREM WhereInvariant == Spec => []Where
<1>1. Init => Where
  BY WhereInit
<1>2. Where /\ [Next]_vars => Where'
  BY WhereNext
<1>. QED
  BY <1>1, <1>2, PTL DEF Spec
-----------------------------------------------------------------------------
(* The tree of directories, while commands change it and walk through it.  *)

\* The inode that has no entry yet, or none any more.
Pending == IF pc \in {"fill", "enter", "undo", "removed"} THEN {inode} ELSE {}

FilesEmpty  == \A n \in Inodes : ~IsDir(n) => tree[n].ents = {}
NamesUsed   == \A m \in Inodes : \A e \in tree[m].ents : e.nr \in Used
NamesOnce   == \A m \in Inodes : \A e, f \in tree[m].ents : e.name = f.name => e = f
NumbersOnce == \A m, k \in Inodes : \A e \in Real(m) : \A f \in Real(k) : e.nr = f.nr => m = k /\ e = f
RootSound   == /\ IsDir(Root) /\ Find(Root, Dot) = {Root} /\ Find(Root, DotDot) = {Root}
               /\ \A m \in Inodes : \A e \in Real(m) : e.nr # Root
AllNamed    == \A n \in Used \ ({Root} \cup Pending) : \E m \in Inodes : \E e \in Real(m) : e.nr = n
DotsRight   == \A m \in Inodes : \A e \in Real(m) :
                 IsDir(e.nr) => Find(e.nr, Dot) = {e.nr} /\ Find(e.nr, DotDot) = {m}
PendingLoose == \A p \in Pending : /\ p # Root /\ p \in Used /\ Real(p) = {}
                                   /\ \A m \in Inodes : \A e \in Real(m) : e.nr # p
PendingDots == /\ pc = "enter" /\ IsDir(inode) => tree[inode].ents = EmptyDir(inode, cur)
               /\ pc = "fill" => IsDir(inode)

\* Numbers that grow along every entry: no directory is below itself.
Rising(rank) == \A m \in Inodes : \A e \in Real(m) : rank[m] < rank[e.nr]
NoCycle      == \E rank \in [Inodes -> Nat] : Rising(rank)

Tree == /\ FilesEmpty /\ NamesUsed /\ NamesOnce /\ NumbersOnce /\ RootSound /\ AllNamed
        /\ DotsRight /\ PendingLoose /\ PendingDots /\ NoCycle

\* A process stands on inodes that exist.
RestUsed(s) == \A k \in DOMAIN s : \A e \in s[k].rest : e.nr \in Used
Placed ==
  /\ pc \in {"create", "fill", "enter", "sync", "undo", "failed"} => IsDir(cur)
  /\ pc \in {"fill", "enter", "undo"} => cur # inode
  /\ Walking => cur \in Used /\ walk.from \in Used /\ (walk.goal = "name" => IsDir(walk.from))
  /\ pc \in {"walked", "looked"} /\ ret \in Inodes => ret \in Used
  /\ RestUsed(stack)

Standing == Tree /\ Placed

\* What an entry is, and the directories it is in.
LEMMA Finds ==
  ASSUME NEW n, NEW name
  PROVE  /\ \A x : x \in Find(n, name) <=> \E e \in tree[n].ents : e.name = name /\ e.nr = x
         /\ \A e : e \in Real(n) <=> e \in tree[n].ents /\ e.name \notin Special
BY DEF Find, Real

\* Steps that leave the tree as it is.
LEMMA TreeKept ==
  ASSUME Tree, UNCHANGED tree, Pending' = Pending, pc' \notin {"fill", "enter"}
  PROVE  Tree'
<1>1. FilesEmpty' /\ NamesUsed' /\ NamesOnce' /\ NumbersOnce'
  BY DEF Tree, FilesEmpty, NamesUsed, NamesOnce, NumbersOnce, IsDir, Used, Real
<1>2. RootSound' /\ DotsRight'
  BY DEF Tree, RootSound, DotsRight, IsDir, Real, Find
<1>3. AllNamed'
  <2>1. Used' = Used /\ \A m \in Inodes : Real(m)' = Real(m)
    BY DEF Used, Real
  <2>. QED
    BY <2>1 DEF Tree, AllNamed
<1>4. PendingLoose' /\ PendingDots'
  <2>1. Used' = Used /\ \A m : Real(m)' = Real(m)
    BY DEF Used, Real
  <2>. QED
    BY <2>1 DEF Tree, PendingLoose, PendingDots
<1>5. NoCycle'
  BY DEF Tree, NoCycle, Rising, Real
<1>. QED
  BY <1>1, <1>2, <1>3, <1>4, <1>5 DEF Tree

\* The image that mktestfs makes: the root directory and its two entries.
LEMMA StandingInit == Init => Standing
<1>. SUFFICES ASSUME Init PROVE Standing
  OBVIOUS
<1>1. \A n \in Inodes : tree[n] = IF n = Root THEN [type |-> "dir", ents |-> EmptyDir(Root, Root)]
                                  ELSE [type |-> "none", ents |-> {}]
  BY DEF Init, Blank
<1>2. pc = "idle" /\ stack = <<>> /\ Pending = {}
  BY DEF Init, Pending
<1>3. Root \in Inodes /\ Dot # DotDot
  BY InodeSet, Words
<1>4. /\ \A n \in Inodes : IsDir(n) <=> n = Root
      /\ Used = {Root} /\ \A n \in Inodes : Real(n) = {}
      /\ tree[Root].ents = {[name |-> Dot, nr |-> Root], [name |-> DotDot, nr |-> Root]}
      /\ \A n \in Inodes : n # Root => tree[n].ents = {}
  BY <1>1, <1>3 DEF IsDir, Used, Real, EmptyDir, Special
<1>5. FilesEmpty /\ NamesUsed /\ NamesOnce /\ NumbersOnce /\ AllNamed /\ DotsRight
  BY <1>3, <1>4 DEF FilesEmpty, NamesUsed, NamesOnce, NumbersOnce, AllNamed, DotsRight
<1>6. RootSound
  <2>1. \A x : (x \in Find(Root, Dot) <=> x = Root) /\ (x \in Find(Root, DotDot) <=> x = Root)
    <3>1. PICK a, b : a = [name |-> Dot, nr |-> Root] /\ b = [name |-> DotDot, nr |-> Root]
      OBVIOUS
    <3>2. a.name = Dot /\ a.nr = Root /\ b.name = DotDot /\ b.nr = Root
      BY <3>1
    <3>3. tree[Root].ents = {a, b}
      BY <1>4, <3>1
    <3>. QED
      BY <1>3, <3>2, <3>3, Finds
  <2>. QED
    BY <1>3, <1>4, <2>1 DEF RootSound
<1>7. PendingLoose /\ PendingDots
  BY <1>2 DEF PendingLoose, PendingDots
<1>8. NoCycle
  <2>1. [n \in Inodes |-> 0] \in [Inodes -> Nat] /\ Rising([n \in Inodes |-> 0])
    BY <1>4 DEF Rising
  <2>. QED
    BY <2>1 DEF NoCycle
<1>9. Placed
  BY <1>2 DEF Placed, Walking, RestUsed
<1>. QED
  BY <1>5, <1>6, <1>7, <1>8, <1>9 DEF Standing, Tree

\* In a directory that has its entries "." and ".." are what they should be.
LEMMA NoOther ==
  ASSUME TypedTree, Tree, NEW p \in Inodes, p # Root, Real(p) = {},
         \A m \in Inodes : \A e \in Real(m) : e.nr # p,
         \A n \in Used \ ({Root} \cup {p}) : \E m \in Inodes : \E e \in Real(m) : e.nr = n
  PROVE  \A m \in Inodes : \A e \in tree[m].ents : m # p => e.nr # p
<1>. SUFFICES ASSUME NEW m \in Inodes, NEW e \in tree[m].ents, m # p, e.nr = p PROVE FALSE
  OBVIOUS
<1>1. e.name \in Special
  BY Finds
<1>2. IsDir(m) /\ m \in Used
  BY DEF Tree, FilesEmpty, Used, IsDir
<1>3. p \in Find(m, Dot) \/ p \in Find(m, DotDot)
  BY <1>1, Finds DEF Special
<1>4. CASE m = Root
  BY <1>3, <1>4 DEF Tree, RootSound
<1>5. CASE m # Root
  <2>1. PICK k \in Inodes : \E f \in Real(k) : f.nr = m
    BY <1>2, <1>5
  <2>2. Find(m, Dot) = {m} /\ Find(m, DotDot) = {k}
    BY <1>2, <2>1 DEF Tree, DotsRight
  <2>3. k = p
    BY <1>3, <2>2
  <2>. QED
    BY <2>1, <2>3
<1>. QED
  BY <1>4, <1>5

\* A new inode: it is allocated, and has no entry yet.
LEMMA StandingNew ==
  ASSUME Where, Standing, CreateInode
  PROVE  Standing'
<1>. USE DEF Standing
<1>1. /\ pc = "looked" /\ walk.goal = "name" /\ Walking /\ cur = walk.from /\ IsDir(cur) /\ cur \in Inodes
      /\ stack = <<>> /\ TypedTree /\ inode = None
      /\ UNCHANGED <<cmd, fault, tx, cur, back, stack, arg, walk>>
  <2>1. /\ pc = "looked" /\ walk.goal = "name" /\ Walking
        /\ UNCHANGED <<cmd, fault, tx, cur, back, stack, arg, walk>>
    BY DEF CreateInode, Looked, Walking
  <2>2. AtWalk
    BY <2>1 DEF Where, Stage
  <2>3. cur = walk.from /\ cur \in Inodes /\ stack = <<>> /\ TypedTree /\ inode = None
    BY <2>1, <2>2 DEF AtWalk, ForName, Making, Where, Typed
  <2>. QED
    BY <2>1, <2>3 DEF Placed
<1>2. Pending = {}
  BY <1>1 DEF Pending
<1>3. CASE ret >= 0 \/ Used = Inodes
  <2>1. pc' = "failed" /\ UNCHANGED tree
    BY <1>3 DEF CreateInode
  <2>2. Tree'
    <3>1. Pending' = Pending
      BY <1>2, <2>1 DEF Pending
    <3>. QED
      BY <2>1, <3>1, TreeKept
  <2>3. Placed'
    BY <1>1, <2>1 DEF Placed, Walking, IsDir, RestUsed
  <2>. QED
    BY <2>2, <2>3
<1>4. CASE ~(ret >= 0 \/ Used = Inodes)
  <2>1. PICK n : n = Min(Inodes \ Used)
    OBVIOUS
  <2>2. /\ inode' = n /\ tree' = [tree EXCEPT ![n].type = NewType]
        /\ pc' = IF NewType = "dir" THEN "fill" ELSE "enter"
    BY <1>4, <2>1, Zenon DEF CreateInode
  <2>3. n \in Inodes /\ n \notin Used
    <3>1. Inodes \ Used \in SUBSET Nat /\ Inodes \ Used # {}
      BY <1>4, InodeSet DEF Used
    <3>. QED
      BY <2>1, <3>1, MinOf
  <2>4. Root \in Used /\ IsDir(Root) /\ n # Root /\ n # cur /\ Root \in Inodes
    BY <1>1, <2>3, InodeSet DEF Tree, RootSound, IsDir, Used
  <2>5. ~IsDir(n) /\ tree[n].ents = {}
    BY <2>3 DEF Used, IsDir, Tree, FilesEmpty
  <2>6. /\ \A m \in Inodes : tree'[m].ents = tree[m].ents
        /\ \A m \in Inodes : m # n => tree'[m].type = tree[m].type
        /\ tree'[n].type = NewType /\ NewType \in {"dir", "file"}
    BY <1>1, <2>2, <2>3 DEF TypedTree, Nodes, NewType
  <2>7. /\ \A m \in Inodes : Real(m)' = Real(m)
        /\ \A m \in Inodes : m # n => (IsDir(m)' <=> IsDir(m))
        /\ Used' = Used \cup {n} /\ (IsDir(n)' <=> NewType = "dir")
        /\ \A m \in Inodes : \A x : Find(m, x)' = Find(m, x)
    BY <2>3, <2>6 DEF Real, IsDir, Used, Find
  <2>8. \A m \in Inodes : \A e \in tree[m].ents : e.nr # n
    BY <2>3 DEF Tree, NamesUsed
  <2>9. \A m \in Inodes : \A e \in Real(m) : e \in tree[m].ents /\ e.nr \in Inodes
    BY <1>1, RealType
  <2>10. FilesEmpty' /\ NamesUsed' /\ NamesOnce' /\ NumbersOnce'
    BY <2>5, <2>6, <2>7 DEF Tree, FilesEmpty, NamesUsed, NamesOnce, NumbersOnce
  <2>11. RootSound'
    BY <2>4, <2>7 DEF Tree, RootSound
  <2>12. DotsRight'
    BY <2>7, <2>8, <2>9 DEF Tree, DotsRight
  <2>13. Pending' = {n}
    BY <2>2 DEF Pending
  <2>14. AllNamed'
    BY <1>2, <2>7, <2>13 DEF Tree, AllNamed
  <2>15. PendingLoose'
    <3>1. Real(n) = {}
      BY <2>5 DEF Real
    <3>. QED
      BY <2>3, <2>4, <2>7, <2>8, <2>9, <2>13, <3>1 DEF PendingLoose
  <2>16. PendingDots'
    BY <2>2, <2>7 DEF PendingDots
  <2>17. NoCycle'
    BY <2>7 DEF Tree, NoCycle, Rising
  <2>18. Placed'
    BY <1>1, <2>2, <2>4, <2>7 DEF Placed, Walking, RestUsed
  <2>. QED
    BY <2>10, <2>11, <2>12, <2>14, <2>15, <2>16, <2>17, <2>18 DEF Tree
<1>. QED
  BY <1>3, <1>4

\* The two entries of a new directory.
LEMMA StandingFill ==
  ASSUME Where, Standing, CreateEmptyDir
  PROVE  Standing'
<1>. USE DEF Standing
<1>1. /\ pc = "fill" /\ AtFill /\ inode \in Inodes /\ cur \in Inodes /\ stack = <<>> /\ TypedTree
      /\ UNCHANGED <<cmd, fault, count, dirty, tx, cur, back, inode, stack, arg, walk>>
      /\ \/ ret' = ENOSPC /\ pc' = "undo" /\ UNCHANGED tree
         \/ /\ tree' = [tree EXCEPT ![inode].ents = EmptyDir(inode, cur)]
            /\ pc' = "enter" /\ UNCHANGED ret
  BY DEF CreateEmptyDir, mem, Where, Stage, AtFill, AtMade, Making, Typed
<1>2. Pending = {inode} /\ Pending' = {inode} /\ Real(inode) = {} /\ inode # Root /\ inode \in Used
      /\ IsDir(inode) /\ IsDir(cur) /\ cur # inode
  BY <1>1 DEF Pending, Tree, PendingLoose, PendingDots, Placed
<1>3. PICK E : E = IF pc' = "enter" THEN EmptyDir(inode, cur) ELSE tree[inode].ents
  OBVIOUS
<1>4. /\ \A m \in Inodes : tree'[m].type = tree[m].type
      /\ \A m \in Inodes : tree'[m].ents = IF m = inode THEN E ELSE tree[m].ents
  BY <1>1, <1>3 DEF TypedTree, Nodes
<1>5. /\ pc' = "enter" => E = {[name |-> Dot, nr |-> inode], [name |-> DotDot, nr |-> cur]}
      /\ pc' # "enter" => E = tree[inode].ents
  BY <1>3 DEF EmptyDir
<1>6. /\ \A e \in E : e.name \in Special /\ e.nr \in Used
      /\ \A e, f \in E : e.name = f.name => e = f
  <2>1. CASE pc' = "enter"
    <3>1. cur \in Used
      BY <1>1, <1>2 DEF IsDir, Used
    <3>2. PICK a, b : a = [name |-> Dot, nr |-> inode] /\ b = [name |-> DotDot, nr |-> cur]
      OBVIOUS
    <3>3. a.name = Dot /\ a.nr = inode /\ b.name = DotDot /\ b.nr = cur /\ E = {a, b} /\ Dot # DotDot
      BY <1>5, <2>1, <3>2, Words
    <3>. QED
      BY <1>2, <3>1, <3>3 DEF Special
  <2>2. CASE pc' # "enter"
    <3>1. E = tree[inode].ents
      BY <1>5, <2>2
    <3>2. \A e \in E : e.name \in Special
      BY <1>2, <3>1, Finds
    <3>. QED
      BY <1>1, <3>1, <3>2 DEF Tree, NamesUsed, NamesOnce
  <2>. QED
    BY <2>1, <2>2
<1>7. /\ \A m \in Inodes : Real(m)' = Real(m)
      /\ \A m \in Inodes : IsDir(m)' <=> IsDir(m)
      /\ Used' = Used
      /\ \A m \in Inodes : m # inode => \A x : Find(m, x)' = Find(m, x)
  <2>1. \A m \in Inodes : m = inode => Real(m)' = {} /\ Real(m) = {}
    <3>1. ASSUME NEW m \in Inodes, m = inode PROVE Real(m)' = {}
      BY <1>4, <1>6, <3>1 DEF Real
    <3>. QED
      BY <1>2, <3>1
  <2>2. \A m \in Inodes : m # inode => Real(m)' = Real(m)
    BY <1>4 DEF Real
  <2>3. \A m \in Inodes : m # inode => \A x : Find(m, x)' = Find(m, x)
    BY <1>4 DEF Find
  <2>4. \A m \in Inodes : Real(m)' = Real(m)
    BY <2>1, <2>2
  <2>5. (\A m \in Inodes : IsDir(m)' <=> IsDir(m)) /\ Used' = Used
    BY <1>4 DEF IsDir, Used
  <2>. QED
    BY <2>3, <2>4, <2>5
<1>8. FilesEmpty' /\ NamesUsed' /\ NamesOnce' /\ NumbersOnce'
  BY <1>2, <1>4, <1>6, <1>7 DEF Tree, FilesEmpty, NamesUsed, NamesOnce, NumbersOnce
<1>9. RootSound'
  BY <1>2, <1>7, InodeSet DEF Tree, RootSound
<1>10. DotsRight'
  <2>1. \A m \in Inodes : \A e \in Real(m) : e.nr # inode /\ e.nr \in Inodes
    BY <1>1, <1>2, RealType DEF Tree, PendingLoose
  <2>. QED
    BY <1>7, <2>1 DEF Tree, DotsRight
<1>11. AllNamed' /\ PendingLoose'
  BY <1>1, <1>2, <1>7 DEF Tree, AllNamed, PendingLoose
<1>12. PendingDots'
  BY <1>1, <1>2, <1>4, <1>3 DEF PendingDots, EmptyDir
<1>13. NoCycle'
  BY <1>7 DEF Tree, NoCycle, Rising
<1>14. Placed'
  BY <1>1, <1>2, <1>7 DEF Placed, Walking, RestUsed
<1>. QED
  BY <1>8, <1>9, <1>10, <1>11, <1>12, <1>13, <1>14 DEF Tree

\* What is in a new directory.
LEMMA EmptyFinds ==
  ASSUME NEW n, NEW above, tree[n].ents = EmptyDir(n, above)
  PROVE  Find(n, Dot) = {n} /\ Find(n, DotDot) = {above}
<1>1. PICK a, b : a = [name |-> Dot, nr |-> n] /\ b = [name |-> DotDot, nr |-> above]
  OBVIOUS
<1>2. a.name = Dot /\ a.nr = n /\ b.name = DotDot /\ b.nr = above
  BY <1>1
<1>3. tree[n].ents = {a, b}
  BY <1>1 DEF EmptyDir
<1>4. Dot # DotDot
  BY Words
<1>5. \A x : (x \in Find(n, Dot) <=> x = n) /\ (x \in Find(n, DotDot) <=> x = above)
  BY <1>2, <1>3, <1>4, Finds
<1>. QED
  BY <1>5

\* A directory that has its entry, or is the root, has both "." and "..".
LEMMA HasDots ==
  ASSUME Tree, NEW n \in Used, IsDir(n), n \notin Pending
  PROVE  Find(n, Dot) = {n} /\ \E m \in Inodes : Find(n, DotDot) = {m}
<1>1. CASE n = Root
  BY <1>1, InodeSet DEF Tree, RootSound
<1>2. CASE n # Root
  <2>1. PICK m \in Inodes : \E e \in Real(m) : e.nr = n
    BY <1>2 DEF Tree, AllNamed
  <2>. QED
    BY <2>1 DEF Tree, DotsRight
<1>. QED
  BY <1>1, <1>2

\* The new inode gets its entry, or none.
LEMMA StandingAdd ==
  ASSUME Where, Standing, AddDirent
  PROVE  Standing'
<1>. USE DEF Standing
<1>1. PICK name : name = NewName(cmd.args[arg])
  OBVIOUS
<1>2. /\ pc = "enter" /\ AtFill /\ inode \in Inodes /\ cur \in Inodes /\ stack = <<>> /\ TypedTree
      /\ UNCHANGED <<cmd, fault, count, tx, cur, back, inode, stack, arg, walk>>
      /\ \/ pc' = "undo" /\ tree' = tree
         \/ /\ tree' = [tree EXCEPT ![cur].ents = @ \cup {[name |-> name, nr |-> inode]}]
            /\ Find(cur, name) = {} /\ pc' = "sync"
  BY <1>1 DEF AddDirent, Where, Stage, AtFill, AtMade, Making, Typed
<1>3. Pending = {inode} /\ Real(inode) = {} /\ inode # Root /\ inode \in Used
      /\ (\A m \in Inodes : \A e \in Real(m) : e.nr # inode)
      /\ IsDir(cur) /\ cur # inode /\ (IsDir(inode) => tree[inode].ents = EmptyDir(inode, cur))
  BY <1>2 DEF Pending, Tree, PendingLoose, PendingDots, Placed
<1>4. CASE pc' = "undo"
  <2>1. tree' = tree /\ Pending' = Pending
    BY <1>2, <1>3, <1>4 DEF Pending
  <2>2. Tree'
    BY <1>4, <2>1, TreeKept
  <2>3. Placed'
    BY <1>2, <1>3, <1>4, <2>1 DEF Placed, Walking, RestUsed, IsDir
  <2>. QED
    BY <2>2, <2>3
<1>5. CASE pc' # "undo"
  <2>1. PICK f : f = [name |-> name, nr |-> inode]
    OBVIOUS
  <2>2. PICK d, n : d = cur /\ n = inode
    OBVIOUS
  <2>3. /\ f.name = name /\ f.nr = n /\ d \in Inodes /\ n \in Inodes
        /\ tree' = [tree EXCEPT ![d].ents = @ \cup {f}] /\ pc' = "sync" /\ Find(d, name) = {}
    BY <1>2, <1>5, <2>1, <2>2
  <2>4. Pending = {n} /\ Real(n) = {} /\ n # Root /\ n \in Used
        /\ (\A m \in Inodes : \A e \in Real(m) : e.nr # n)
        /\ IsDir(d) /\ d # n /\ d \in Used
    BY <1>3, <2>2, <2>3 DEF IsDir, Used
  <2>5. name \notin Special
    <3>1. Find(d, Dot) # {} /\ Find(d, DotDot) # {}
      BY <2>4, HasDots
    <3>. QED
      BY <2>3, <3>1 DEF Special
  <2>6. /\ \A m \in Inodes : tree'[m].type = tree[m].type
        /\ \A m \in Inodes : m # d => tree'[m].ents = tree[m].ents
        /\ tree'[d].ents = tree[d].ents \cup {f}
    BY <1>2, <2>3 DEF TypedTree, Nodes
  <2>7. /\ \A m \in Inodes : m # d => Real(m)' = Real(m)
        /\ Real(d)' = Real(d) \cup {f}
        /\ \A m \in Inodes : IsDir(m)' <=> IsDir(m)
        /\ Used' = Used
    BY <2>3, <2>5, <2>6 DEF Real, IsDir, Used
  <2>8. \A m \in Inodes : \A x \in Special : Find(m, x)' = Find(m, x)
    <3>. SUFFICES ASSUME NEW m \in Inodes, NEW x \in Special PROVE Find(m, x)' = Find(m, x)
      OBVIOUS
    <3>1. {e \in tree'[m].ents : e.name = x} = {e \in tree[m].ents : e.name = x}
      BY <2>3, <2>5, <2>6
    <3>. QED
      BY <3>1, Zenon DEF Find
  <2>9. FilesEmpty' /\ NamesUsed'
    BY <2>3, <2>4, <2>6, <2>7 DEF Tree, FilesEmpty, NamesUsed
  <2>10. NamesOnce'
    <3>1. \A e \in tree[d].ents : e.name # name
      BY <2>3, Finds
    <3>. QED
      BY <2>3, <2>6, <3>1 DEF Tree, NamesOnce
  <2>11. NumbersOnce'
    BY <2>3, <2>4, <2>7 DEF Tree, NumbersOnce
  <2>12. RootSound'
    <3>1. Root \in Inodes /\ Dot \in Special /\ DotDot \in Special
      BY InodeSet DEF Special
    <3>. QED
      BY <2>3, <2>4, <2>7, <2>8, <3>1 DEF Tree, RootSound
  <2>13. AllNamed' /\ PendingLoose' /\ PendingDots'
    <3>1. Pending' = {}
      BY <2>3 DEF Pending
    <3>2. \A x \in Used \ ({Root} \cup {n}) : \E m \in Inodes : \E e \in Real(m) : e.nr = x
      BY <2>4 DEF Tree, AllNamed
    <3>3. \A x \in Used \ {Root} : \E m \in Inodes : \E e \in Real(m)' : e.nr = x
      <4>. SUFFICES ASSUME NEW x \in Used \ {Root} PROVE \E m \in Inodes : \E e \in Real(m)' : e.nr = x
        OBVIOUS
      <4>1. CASE x = n
        BY <2>3, <2>7, <4>1
      <4>2. CASE x # n
        <5>1. PICK m \in Inodes : \E e \in Real(m) : e.nr = x
          BY <3>2, <4>2
        <5>2. Real(m) \subseteq Real(m)'
          BY <2>7
        <5>. QED
          BY <5>1, <5>2
      <4>. QED
        BY <4>1, <4>2
    <3>4. AllNamed'
      BY <2>7, <3>1, <3>3 DEF AllNamed
    <3>. QED
      BY <2>3, <3>1, <3>4 DEF PendingLoose, PendingDots
  <2>14. DotsRight'
    <3>1. IsDir(n) => Find(n, Dot) = {n} /\ Find(n, DotDot) = {d}
      BY <1>3, <2>2, EmptyFinds
    <3>2. Dot \in Special /\ DotDot \in Special
      BY DEF Special
    <3>3. ASSUME NEW m \in Inodes, NEW e \in Real(m)', IsDir(e.nr)'
          PROVE  Find(e.nr, Dot)' = {e.nr} /\ Find(e.nr, DotDot)' = {m}
      <4>1. CASE e \in Real(m)
        <5>1. e.nr \in Inodes
          BY <1>2, <4>1, RealType
        <5>2. IsDir(e.nr)
          BY <2>7, <3>3, <5>1
        <5>. QED
          BY <2>8, <3>2, <4>1, <5>1, <5>2 DEF Tree, DotsRight
      <4>2. CASE e \notin Real(m)
        <5>1. m = d /\ e = f
          BY <2>7, <3>3, <4>2
        <5>. QED
          BY <2>3, <2>7, <2>8, <3>1, <3>2, <3>3, <5>1
      <4>. QED
        BY <4>1, <4>2
    <3>. QED
      BY <3>3 DEF DotsRight
  <2>15. NoCycle'
    <3>1. PICK rank \in [Inodes -> Nat] : Rising(rank)
      BY DEF Tree, NoCycle
    <3>2. PICK rank2 : rank2 = [rank EXCEPT ![n] = rank[d] + 1]
      OBVIOUS
    <3>3. rank2 \in [Inodes -> Nat] /\ rank2[n] = rank[d] + 1
          /\ \A m \in Inodes : m # n => rank2[m] = rank[m]
      BY <2>3, <3>2
    <3>4. ASSUME NEW m \in Inodes, NEW e \in Real(m)' PROVE rank2[m] < rank2[e.nr]
      <4>1. CASE e \in Real(m)
        <5>1. e.nr \in Inodes /\ e.nr # n /\ m # n
          BY <1>2, <2>4, <4>1, RealType
        <5>. QED
          BY <3>1, <3>3, <4>1, <5>1 DEF Rising
      <4>2. CASE e \notin Real(m)
        <5>1. m = d /\ e = f
          BY <2>7, <3>4, <4>2
        <5>. QED
          BY <2>3, <2>4, <3>3, <5>1
      <4>. QED
        BY <4>1, <4>2
    <3>. QED
      BY <3>3, <3>4 DEF NoCycle, Rising
  <2>16. Placed'
    BY <1>2, <1>3, <2>3, <2>7 DEF Placed, Walking, RestUsed
  <2>. QED
    BY <2>9, <2>10, <2>11, <2>12, <2>13, <2>14, <2>15, <2>16 DEF Tree
<1>. QED
  BY <1>4, <1>5

\* The inode without an entry is taken from the tree.
LEMMA TreeErased ==
  ASSUME TypedTree, Tree, NEW p \in Inodes, Pending = {p}, tree' = [tree EXCEPT ![p] = Blank],
         pc' \notin {"fill", "enter", "undo", "removed"}
  PROVE  Tree' /\ \A m \in Inodes : m # p => (IsDir(m)' <=> IsDir(m))
<1>1. p # Root /\ p \in Used /\ Real(p) = {} /\ \A m \in Inodes : \A e \in Real(m) : e.nr # p
  BY DEF Tree, PendingLoose
<1>2. \A x \in Used \ ({Root} \cup {p}) : \E m \in Inodes : \E e \in Real(m) : e.nr = x
  BY DEF Tree, AllNamed
<1>3. \A m \in Inodes : \A e \in tree[m].ents : m # p => e.nr # p
  BY <1>1, <1>2, NoOther, Zenon
<1>4. /\ \A m \in Inodes : m # p => tree'[m] = tree[m]
      /\ tree'[p].type = "none" /\ tree'[p].ents = {}
  BY DEF TypedTree, Blank
<1>5. /\ \A m \in Inodes : Real(m)' = Real(m)
      /\ \A m \in Inodes : m # p => (IsDir(m)' <=> IsDir(m)) /\ \A x : Find(m, x)' = Find(m, x)
      /\ ~IsDir(p)' /\ Used' = Used \ {p}
  <2>1. ASSUME NEW m \in Inodes PROVE Real(m)' = Real(m)
    BY <1>1, <1>4 DEF Real
  <2>2. ASSUME NEW m \in Inodes, m # p
        PROVE  (IsDir(m)' <=> IsDir(m)) /\ \A x : Find(m, x)' = Find(m, x)
    BY <1>4, <2>2 DEF IsDir, Find
  <2>3. ~IsDir(p)' /\ Used' = Used \ {p}
    BY <1>4 DEF IsDir, Used
  <2>. QED
    BY <2>1, <2>2, <2>3
<1>6. FilesEmpty' /\ NamesUsed' /\ NamesOnce' /\ NumbersOnce'
  BY <1>3, <1>4, <1>5 DEF Tree, FilesEmpty, NamesUsed, NamesOnce, NumbersOnce
<1>7. RootSound'
  BY <1>1, <1>5, InodeSet DEF Tree, RootSound
<1>8. DotsRight'
  <2>1. \A m \in Inodes : \A e \in Real(m) : e.nr # p /\ e.nr \in Inodes
    BY <1>1, RealType
  <2>. QED
    BY <1>5, <2>1 DEF Tree, DotsRight
<1>9. AllNamed' /\ PendingLoose' /\ PendingDots'
  <2>1. Pending' = {}
    BY DEF Pending
  <2>. QED
    BY <1>2, <1>5, <2>1 DEF AllNamed, PendingLoose, PendingDots
<1>10. NoCycle'
  BY <1>5 DEF Tree, NoCycle, Rising
<1>. QED
  BY <1>5, <1>6, <1>7, <1>8, <1>9, <1>10 DEF Tree

\* rm and the undoing of a create take an inode out of the tree that no entry names any more.
LEMMA StandingErase ==
  ASSUME Where, Standing, Undo \/ RemoveInode
  PROVE  Standing'
<1>. USE DEF Standing
<1>1. PICK p : p = inode
  OBVIOUS
<1>2. /\ p \in Inodes /\ Pending = {p} /\ tree' = [tree EXCEPT ![p] = Blank] /\ cur' = cur /\ cur \in Inodes
      /\ pc' \in {"failed", "exit"} /\ (pc' = "failed" => pc = "undo") /\ stack' = <<>> /\ TypedTree
  <2>1. CASE Undo
    <3>1. AtUndo
      BY <2>1 DEF Undo, Where, Stage
    <3>. QED
      BY <1>1, <2>1, <3>1 DEF Undo, AtUndo, AtMade, Making, Pending, Where, Typed
  <2>2. CASE RemoveInode
    <3>1. AtRemoved
      BY <2>2 DEF RemoveInode, Where, Stage
    <3>. QED
      BY <1>1, <2>2, <3>1, InodeSet DEF RemoveInode, AtRemoved, AtRm, Return, Pending, Where, Typed
  <2>. QED
    BY <2>1, <2>2
<1>3. Tree' /\ \A m \in Inodes : m # p => (IsDir(m)' <=> IsDir(m))
  BY <1>2, TreeErased
<1>4. pc' = "failed" => cur # p /\ IsDir(cur)
  BY <1>1, <1>2 DEF Placed
<1>5. pc' = "failed" => IsDir(cur)'
  <2>1. PICK d : d = cur
    OBVIOUS
  <2>2. pc' = "failed" => IsDir(d)'
    BY <1>2, <1>3, <1>4, <2>1
  <2>3. cur' = d
    BY <1>2, <2>1
  <2>. QED
    BY <2>2, <2>3 DEF IsDir
<1>6. Placed'
  BY <1>2, <1>5 DEF Placed, Walking, RestUsed
<1>. QED
  BY <1>3, <1>6

\* The entry of an inode that has none itself is taken away.
LEMMA StandingRemove ==
  ASSUME Where, Standing, RemoveDirent
  PROVE  Standing'
<1>. USE DEF Standing
<1>1. /\ pc = "remove" /\ AtRemove /\ TypedTree /\ cur = Root /\ stack = <<>> /\ stack' = <<>> /\ Pending = {}
  BY RemoveCases DEF Where, Typed, AtRemove, AtRm, Pending
<1>2. CASE pc' = "exit" /\ UNCHANGED tree
  <2>1. Pending' = Pending
    BY <1>1, <1>2 DEF Pending
  <2>2. Tree'
    BY <1>2, <2>1, TreeKept
  <2>3. Placed'
    BY <1>1, <1>2 DEF Placed, Walking, RestUsed
  <2>. QED
    BY <2>2, <2>3
<1>3. CASE ~(pc' = "exit" /\ UNCHANGED tree)
  <2>1. PICK name, n : /\ name \notin Special /\ n \in Find(cur, name) /\ n \in Inodes
                       /\ Occupants(n) = {}
                       /\ tree' = [tree EXCEPT ![cur].ents = {e \in @ : e.name # name}]
                       /\ inode' = n /\ pc' = "removed"
    BY <1>3, RemoveCases, Zenon
  <2>2. PICK S : S = {e \in tree[Root].ents : e.name # name}
    OBVIOUS
  <2>3. /\ Root \in Inodes /\ n \in Find(Root, name) /\ Real(n) = {}
        /\ tree' = [tree EXCEPT ![Root].ents = S]
    BY <1>1, <2>1, <2>2, InodeSet DEF Occupants, Real
  <2>4. PICK f \in Real(Root) : f.name = name /\ f.nr = n
    BY <2>1, <2>3, Finds
  <2>5. /\ \A m \in Inodes : tree'[m].type = tree[m].type
        /\ \A m \in Inodes : m # Root => tree'[m].ents = tree[m].ents
        /\ tree'[Root].ents = S
    BY <1>1, <2>3 DEF TypedTree, Nodes
  <2>6. S = tree[Root].ents \ {f}
    BY <2>2, <2>3, <2>4, Finds DEF Tree, NamesOnce
  <2>7. /\ \A m \in Inodes : m # Root => Real(m)' = Real(m)
        /\ Real(Root)' = Real(Root) \ {f}
        /\ \A m \in Inodes : IsDir(m)' <=> IsDir(m)
        /\ Used' = Used
    BY <2>3, <2>5, <2>6 DEF Real, IsDir, Used
  <2>8. \A m \in Inodes : \A x \in Special : Find(m, x)' = Find(m, x)
    <3>. SUFFICES ASSUME NEW m \in Inodes, NEW x \in Special PROVE Find(m, x)' = Find(m, x)
      OBVIOUS
    <3>1. {e \in tree'[m].ents : e.name = x} = {e \in tree[m].ents : e.name = x}
      BY <2>1, <2>2, <2>3, <2>5
    <3>. QED
      BY <3>1, Zenon DEF Find
  <2>9. /\ \A m \in Inodes : Real(m)' \subseteq Real(m)
        /\ \A m \in Inodes : \A e \in Real(m) : e = f \/ e \in Real(m)'
    BY <2>7
  <2>10. n # Root /\ n \in Used /\ \A m \in Inodes : \A e \in Real(m)' : e.nr # n
    <3>1. n # Root /\ n \in Used
      BY <2>3, <2>4, Finds DEF Tree, RootSound, NamesUsed
    <3>2. ASSUME NEW m \in Inodes, NEW e \in Real(m)', e.nr = n PROVE FALSE
      <4>1. m = Root /\ e = f
        BY <2>3, <2>4, <2>9, <3>2 DEF Tree, NumbersOnce
      <4>. QED
        BY <2>7, <3>2, <4>1
    <3>. QED
      BY <3>1, <3>2
  <2>11. FilesEmpty' /\ NamesUsed' /\ NamesOnce'
    BY <2>3, <2>5, <2>6, <2>7 DEF Tree, FilesEmpty, NamesUsed, NamesOnce
  <2>12. NumbersOnce'
    BY <2>9 DEF Tree, NumbersOnce
  <2>13. RootSound'
    <3>1. Dot \in Special /\ DotDot \in Special
      BY DEF Special
    <3>. QED
      BY <2>3, <2>7, <2>8, <2>9, <3>1 DEF Tree, RootSound
  <2>14. DotsRight'
    <3>1. Dot \in Special /\ DotDot \in Special
      BY DEF Special
    <3>2. \A m \in Inodes : \A e \in Real(m) : e.nr \in Inodes
      BY <1>1, RealType
    <3>. QED
      BY <2>7, <2>8, <2>9, <3>1, <3>2 DEF Tree, DotsRight
  <2>15. AllNamed' /\ PendingLoose' /\ PendingDots'
    <3>1. Pending' = {n}
      BY <2>1 DEF Pending
    <3>2. \A x \in Used \ ({Root} \cup {n}) : \E m \in Inodes : \E e \in Real(m)' : e.nr = x
      <4>. SUFFICES ASSUME NEW x \in Used \ ({Root} \cup {n})
                    PROVE  \E m \in Inodes : \E e \in Real(m)' : e.nr = x
        OBVIOUS
      <4>1. PICK m \in Inodes : \E e \in Real(m) : e.nr = x
        BY <1>1 DEF Tree, AllNamed
      <4>2. PICK e \in Real(m) : e.nr = x
        BY <4>1
      <4>3. e # f
        BY <2>4, <4>2
      <4>. QED
        BY <2>9, <4>2, <4>3
    <3>3. \A m \in Inodes : m = n => Real(m)' = {}
      BY <2>3, <2>9
    <3>. QED
      BY <2>1, <2>7, <2>10, <3>1, <3>2, <3>3 DEF AllNamed, PendingLoose, PendingDots
  <2>16. NoCycle'
    BY <2>9 DEF Tree, NoCycle, Rising
  <2>17. Placed'
    BY <1>1, <2>1 DEF Placed, Walking, RestUsed
  <2>. QED
    BY <2>11, <2>12, <2>13, <2>14, <2>15, <2>16, <2>17 DEF Tree
<1>. QED
  BY <1>2, <1>3

\* Steps that leave the tree alone, and stand nowhere new.
Halfway == {"fill", "enter", "undo", "removed"}
Steady  == UNCHANGED tree /\ pc \notin Halfway /\ pc' \notin Halfway

\* A step that leaves the tree alone, between commands that change it, leaves it sound.
LEMMA SteadyKept ==
  ASSUME Standing, Steady, Placed'
  PROVE  Standing'
<1>1. Pending' = Pending /\ UNCHANGED tree /\ pc' \notin {"fill", "enter"}
  BY DEF Steady, Pending, Halfway
<1>. QED
  BY <1>1, TreeKept DEF Standing

\* Such a step that comes to no place where something is asked of the tree keeps the invariant.
LEMMA Resting ==
  ASSUME Standing, Steady, pc' \notin {"create", "sync", "failed", "walk", "walked", "looked"},
         stack' = stack \/ stack' = <<>>
  PROVE  Standing'
<1>1. Placed'
  <2>1. RestUsed(stack)'
    BY DEF Standing, Placed, RestUsed, Steady, Used
  <2>. QED
    BY <2>1 DEF Placed, Steady, Halfway, Walking
<1>. QED
  BY <1>1, SteadyKept

\* A death does, since the tree is what the disk holds.
LEMMA StandingKill ==
  ASSUME Standing, NEW by, Kill(by), pc \notin Halfway
  PROVE  Standing'
BY Resting DEF Kill, Steady, Halfway, mem

\* The steps that neither walk, list nor change the tree.
LEMMA StandingRests ==
  ASSUME Where, Standing,
         Start \/ Answers \/ NextWord \/ WriteFound \/ OwriteBeyond \/ Written \/ Created
         \/ CreateFailed \/ Exit \/ Leave
  PROVE  Standing'
<1>1. CASE Start
  BY <1>1, Resting DEF Start, Launch, Steady, Halfway
<1>2. CASE Answers
  BY <1>2, Resting DEF Answers, Free, EndStep, Return, Quiet, mem, Steady, Halfway
<1>3. CASE NextWord
  BY <1>3, Resting DEF NextWord, Quiet, mem, Steady, Halfway
<1>4. CASE WriteFound
  <2>1. pc = "looked" /\ pc' \in {"exit", "written"} /\ UNCHANGED <<tree, stack>>
    BY <1>4 DEF WriteFound, Looked, Return, Quiet
  <2>. QED
    BY <2>1, Resting DEF Steady, Halfway
<1>5. CASE OwriteBeyond
  BY <1>5, StandingKill DEF OwriteBeyond, Looked, Halfway
<1>6. CASE Written
  BY <1>6, Resting DEF Written, Return, Quiet, Steady, Halfway
<1>7. CASE Created
  <2>1. pc = "sync" /\ pc' \in {"exit", "handler"} /\ UNCHANGED <<tree, stack>>
    BY <1>7 DEF Created, NextArg, Return, Quiet
  <2>. QED
    BY <2>1, Resting DEF Steady, Halfway
<1>8. CASE CreateFailed
  <2>1. pc = "failed" /\ pc' \in {"exit", "dead"} /\ UNCHANGED <<tree, stack>>
    BY <1>8 DEF CreateFailed, Kill, Return, Quiet, mem
  <2>. QED
    BY <2>1, Resting DEF Steady, Halfway
<1>9. CASE Exit
  <2>1. pc = "exit" /\ ((\E by : Kill(by)) \/ Forget)
    BY <1>9, ExitCases DEF UseFreed
  <2>2. CASE \E by : Kill(by)
    BY <2>1, <2>2, StandingKill DEF Halfway
  <2>3. CASE Forget
    BY <2>1, <2>3, Resting DEF Forget, Steady, Halfway
  <2>. QED
    BY <2>1, <2>2, <2>3
<1>10. CASE Leave
  BY <1>10, Resting DEF Leave, Forget, Steady, Halfway
<1>. QED
  BY <1>1, <1>2, <1>3, <1>4, <1>5, <1>6, <1>7, <1>8, <1>9, <1>10

\* A walk begins where a process stands; what is found in a directory exists.
LEMMA StandingLookup ==
  ASSUME Standing, Steady, NEW p, NEW goal, NEW d \in Used, Lookup(p, goal, d), cur' = d,
         goal = "name" => IsDir(d), RestUsed(stack')
  PROVE  Standing'
<1>1. walk'.from = d /\ walk'.goal = goal /\ (pc' = "walk" \/ (pc' = "looked" /\ ret' = EINVAL))
  BY LookupIs
<1>2. pc' # "walk" => ret' \notin Inodes
  BY <1>1, ErrnosHold DEF Errnos
<1>3. Used' = Used /\ tree' = tree
  BY DEF Steady, Used
<1>4. RestUsed(stack)'
  BY <1>3 DEF RestUsed
<1>5. Placed'
  BY <1>1, <1>2, <1>3, <1>4 DEF Placed, Walking, IsDir
<1>. QED
  BY <1>5, SteadyKept

\* The root is a directory and in use.
LEMMA RootUsed ==
  ASSUME Standing
  PROVE  Root \in Used /\ IsDir(Root) /\ Root \in Inodes
BY InodeSet DEF Standing, Tree, RootSound, Used, IsDir

\* Freeing memory leaves what is to be read.
LEMMA RestKept ==
  ASSUME NEW s \in Seq(Frames), NEW c, RestUsed(s)
  PROVE  RestUsed(AllLeft(s, c))
<1>1. PICK t : t = AllLeft(s, c)
  OBVIOUS
<1>2. DOMAIN t = DOMAIN s /\ \A k \in DOMAIN s : t[k].rest = s[k].rest
  <2>1. /\ DOMAIN t = DOMAIN s
        /\ \A k \in DOMAIN s :
              t[k] = [fn |-> s[k].fn, in |-> Left(s[k].in, c),
                                  cin |-> Left(s[k].cin, c), tmp |-> Left(s[k].tmp, c),
                                  rest |-> s[k].rest]
    BY <1>1, AllLeftType, Zenon
  <2>. QED
    BY <2>1
<1>3. RestUsed(t)
  BY <1>2 DEF RestUsed
<1>. QED
  BY <1>1, <1>3

\* A walk only ever reaches inodes in use, since every entry names one.
LEMMA StandingWalk ==
  ASSUME Where, Standing, Walk \/ WalkEnd
  PROVE  Standing'
<1>1. TypedTree /\ stack \in Seq(Frames) /\ RestUsed(stack) /\ NamesUsed
  BY DEF Where, Typed, TypedStack, Standing, Placed, Tree
<1>2. CASE Walk
  <2>1. pc = "walk" /\ cur \in Inodes
    BY <1>2, WalkCases
  <2>2. cur \in Used /\ walk.from \in Used /\ (walk.goal = "name" => IsDir(walk.from))
    BY <2>1 DEF Standing, Placed, Walking
  <2>3. \A name : InodeNr(cur, name) \in Inodes => InodeNr(cur, name) \in Used
    <3>. SUFFICES ASSUME NEW name, InodeNr(cur, name) \in Inodes PROVE InodeNr(cur, name) \in Used
      OBVIOUS
    <3>1. InodeNr(cur, name) \in Find(cur, name)
      BY <1>1, <2>1, FindType, ErrnosHold DEF Errnos
    <3>. QED
      BY <1>1, <2>1, <3>1, Finds DEF NamesUsed
  <2>4. ASSUME NEW r, Found(r), r \in Inodes => r \in Used PROVE Standing'
    <3>1. pc' = "walked" /\ ret' = r /\ UNCHANGED <<tree, cur, stack, walk>>
      BY <2>4 DEF Found, Quiet, mem
    <3>2. Placed'
      BY <1>1, <2>2, <2>4, <3>1 DEF Placed, Walking, Used, IsDir, RestUsed
    <3>. QED
      BY <2>1, <3>1, <3>2, SteadyKept DEF Steady, Halfway
  <2>5. ASSUME NEW n \in Used, NEW rest, WalkOn(n, rest) PROVE Standing'
    <3>1. PICK c : c = Replace(count, n, cur)
      OBVIOUS
    <3>2. /\ pc' = pc /\ cur' = n /\ stack' = AllLeft(stack, c) /\ UNCHANGED <<tree, ret>>
          /\ walk' = [walk EXCEPT !.path = rest]
      BY <2>5, <3>1 DEF WalkOn, Quiet
    <3>3. walk'.from = walk.from /\ walk'.goal = walk.goal
      BY <3>2 DEF Where, Typed, TypedWalk
    <3>4. RestUsed(AllLeft(stack, c))
      BY <1>1, RestKept
    <3>5. RestUsed(stack)'
      BY <3>2, <3>4 DEF RestUsed, Used
    <3>6. Placed'
      BY <2>1, <2>2, <3>2, <3>3, <3>5 DEF Placed, Walking, Used, IsDir
    <3>. QED
      BY <2>1, <3>2, <3>6, SteadyKept DEF Steady, Halfway
  <2>6. ASSUME Kill("not a directory") PROVE Standing'
    BY <2>1, <2>6, StandingKill DEF Halfway
  <2>7. Root \in Used /\ ENOENT \notin Inodes
    BY RootUsed, ErrnosHold DEF Errnos
  <2>8. \A name : ~(InodeNr(cur, name) < 0) => InodeNr(cur, name) \in Used
    <3>. SUFFICES ASSUME NEW name, ~(InodeNr(cur, name) < 0) PROVE InodeNr(cur, name) \in Used
      OBVIOUS
    <3>1. InodeNr(cur, name) \in Inodes
      BY <1>1, <2>1, FindType
    <3>. QED
      BY <2>3, <3>1
  <2>9. \A r \in {Root, ENOENT} : r \in Inodes => r \in Used
    BY <2>7
  <2>. QED
    BY <1>2, <2>3, <2>4, <2>5, <2>6, <2>7, <2>8, <2>9, WalkCases, Zenon
<1>3. CASE WalkEnd
  <2>1. PICK c : c = Replace(count, walk.from, cur)
    OBVIOUS
  <2>2. /\ pc = "walked" /\ pc' = "looked" /\ UNCHANGED <<tree, walk, ret>> /\ cur' = walk.from
        /\ stack' = AllLeft(stack, c) \/ stack' = stack
    BY <1>3, <2>1 DEF WalkEnd, Quiet, Elsewhere
  <2>3. RestUsed(AllLeft(stack, c))
    BY <1>1, RestKept
  <2>4. RestUsed(stack)'
    BY <1>1, <2>2, <2>3 DEF RestUsed, Used
  <2>5. Placed'
    BY <2>2, <2>4 DEF Standing, Placed, Walking, Used, IsDir
  <2>. QED
    BY <2>2, <2>5, SteadyKept DEF Steady, Halfway
<1>. QED
  BY <1>2, <1>3

\* Calls that end, that another follows, and that go on.
LEMMA RestMore ==
  ASSUME NEW s \in Seq(Frames), RestUsed(s), NEW f \in Frames, \A e \in f.rest : e.nr \in Used
  PROVE  RestUsed(Append(s, f))
<1>1. PICK t : t = Append(s, f)
  OBVIOUS
<1>2. \A k \in DOMAIN t : (k \in DOMAIN s /\ t[k] = s[k]) \/ t[k] = f
  BY <1>1
<1>3. RestUsed(t)
  BY <1>2 DEF RestUsed
<1>. QED
  BY <1>1, <1>3

\* What is asked of the entries still to visit holds of fewer calls.
LEMMA RestLess ==
  ASSUME NEW s \in Seq(Frames), RestUsed(s), NEW m \in Nat, m <= Len(s)
  PROVE  RestUsed(SubSeq(s, 1, m))
<1>1. PICK t : t = SubSeq(s, 1, m)
  OBVIOUS
<1>2. \A k \in DOMAIN t : k \in DOMAIN s /\ t[k] = s[k]
  BY <1>1
<1>3. RestUsed(t)
  BY <1>2 DEF RestUsed
<1>. QED
  BY <1>1, <1>3

\* It holds of the callers of the innermost call, of that call, and again with another such call
\* put on top.
LEMMA RestTop ==
  ASSUME NEW s \in Seq(Frames), s # <<>>, RestUsed(s)
  PROVE  /\ RestUsed(Front(s)) /\ \A e \in Last(s).rest : e.nr \in Used
         /\ \A f \in Frames : (\A e \in f.rest : e.nr \in Used) =>
              RestUsed(Append(Front(s), f)) /\ RestUsed(Front(s) \o <<f>>)
<1>1. PICK m : m = Len(s) - 1
  OBVIOUS
<1>2. m \in Nat /\ m <= Len(s) /\ Front(s) = SubSeq(s, 1, m) /\ Front(s) \in Seq(Frames)
  BY <1>1, StackTop DEF Front
<1>3. RestUsed(Front(s))
  BY <1>2, RestLess
<1>4. \A e \in Last(s).rest : e.nr \in Used
  <2>1. Len(s) \in DOMAIN s /\ Last(s) = s[Len(s)]
    BY StackTop
  <2>. QED
    BY <2>1 DEF RestUsed
<1>5. ASSUME NEW f \in Frames, \A e \in f.rest : e.nr \in Used
      PROVE  RestUsed(Append(Front(s), f)) /\ RestUsed(Front(s) \o <<f>>)
  <2>1. RestUsed(Append(Front(s), f))
    BY <1>2, <1>3, <1>5, RestMore
  <2>2. Front(s) \o <<f>> = Append(Front(s), f)
    BY StackTop
  <2>. QED
    BY <2>1, <2>2
<1>. QED
  BY <1>3, <1>4, <1>5

\* Steps to a directory that is to be read.
LEMMA StandingRead ==
  ASSUME Standing, Steady, pc' \in {"list", "catr", "exit"}, RestUsed(stack')
  PROVE  Standing'
<1>1. Used' = Used
  BY DEF Steady, Used
<1>2. RestUsed(stack)'
  BY <1>1 DEF RestUsed
<1>3. Placed'
  BY <1>2 DEF Placed, Walking
<1>. QED
  BY <1>3, SteadyKept

\* ls, lsr and checkfs only visit entries of directories in use.
LEMMA StandingVisit ==
  ASSUME Where, Standing, ~Plainly, LsFound \/ LsEntry \/ cmd_checkfs \/ CheckEntry \/ ListEnd
  PROVE  Standing'
<1>1. TypedTree /\ stack \in Seq(Frames) /\ RestUsed(stack) /\ NamesUsed
  BY DEF Where, Typed, TypedStack, Standing, Placed, Tree
<1>2. \A n \in Inodes : \A r \in {tree[n].ents, Real(n)} : r \in SUBSET Entries /\ \A e \in r : e.nr \in Used
  BY <1>1, RealType DEF NamesUsed
<1>3. ret >= 0 => ret \in Inodes
  BY InodeSet, ErrnosHold DEF Errnos, Where, Typed, TypedEnd
<1>4. ASSUME NEW n \in Inodes, NEW r \in {tree[n].ents, Real(n)}, FirstCall(n, r) PROVE Standing'
  <2>1. PICK f : f = Call(cmd.op, n, r)
    OBVIOUS
  <2>2. f \in Frames /\ f.rest = r
    <3>1. r \in SUBSET Entries /\ n \in Pointer /\ cmd.op \in {"ls", "lsr", "checkfs", "catr"}
      BY <1>2, <1>4 DEF Pointer, FirstCall
    <3>. QED
      BY <2>1, <3>1, CallType
  <2>3. /\ stack' = <<f>> /\ pc' = "list" /\ tree' = tree /\ pc \in {"handler", "looked"}
    BY <1>4, <2>1 DEF FirstCall, Quiet
  <2>4. RestUsed(stack')
    <3>1. \A k \in DOMAIN stack' : stack'[k] = f
      BY <2>3
    <3>2. \A e \in f.rest : e.nr \in Used
      BY <1>2, <2>2
    <3>. QED
      BY <3>1, <3>2 DEF RestUsed
  <2>. QED
    BY <2>3, <2>4, StandingRead DEF Steady, Halfway
<1>5. CASE LsFound \/ cmd_checkfs
  <2>1. ASSUME pc = "looked", Kill("not a directory") PROVE Standing'
    BY <2>1, StandingKill DEF Halfway
  <2>. QED
    BY <1>3, <1>4, <1>5, <2>1, FirstCases, InodeSet
<1>6. CASE LsEntry \/ CheckEntry
  <2>1. pc = "list" /\ stack # <<>>
    BY <1>6, ListCases DEF AtList, Visiting
  <2>2. \A e \in Top.rest : e.nr \in Used
    BY <1>1, <2>1, RestTop DEF Top
  <2>3. \A e : /\ Visited(e) \in Frames /\ Visited(e).rest \subseteq Top.rest
               /\ RestUsed(Append(Front(stack), Visited(e)))
               /\ Append(Front(stack), Visited(e)) \in Seq(Frames)
    <3>. SUFFICES ASSUME NEW e
                  PROVE  /\ Visited(e) \in Frames /\ Visited(e).rest \subseteq Top.rest
                         /\ RestUsed(Append(Front(stack), Visited(e)))
                         /\ Append(Front(stack), Visited(e)) \in Seq(Frames)
      OBVIOUS
    <3>1. PICK v : v = Visited(e)
      OBVIOUS
    <3>2. v \in Frames /\ v.rest = Top.rest \ {e}
      BY <1>1, <2>1, <3>1, VisitedType, Zenon
    <3>3. v.rest \subseteq Top.rest
      BY <3>2
    <3>4. RestUsed(Append(Front(stack), v)) /\ Append(Front(stack), v) \in Seq(Frames)
      BY <1>1, <2>1, <2>2, <3>2, <3>3, RestTop, StackTop
    <3>. QED
      BY <3>1, <3>2, <3>3, <3>4, Zenon
  <2>4. ASSUME NEW e \in Top.rest, SkipEntry(e) PROVE Standing'
    <3>1. stack' = Append(Front(stack), Visited(e)) /\ tree' = tree /\ pc' = pc
      BY <2>4 DEF SkipEntry, Quiet
    <3>2. RestUsed(stack')
      BY <2>3, <3>1, Zenon
    <3>. QED
      BY <2>1, <3>1, <3>2, StandingRead DEF Steady, Halfway
  <2>5. ASSUME NEW e \in Top.rest, NEW r \in {tree[e.nr].ents, Real(e.nr)}, EnterEntry(e, r) PROVE Standing'
    <3>1. PICK f : f = Call(Top.fn, e.nr, r)
      OBVIOUS
    <3>2. PICK s : s = Append(Front(stack), Visited(e))
      OBVIOUS
    <3>3. stack' = Append(s, f) /\ tree' = tree /\ pc' = pc
      BY <2>5, <3>1, <3>2 DEF EnterEntry, Quiet
    <3>4. s \in Seq(Frames) /\ RestUsed(s)
      BY <2>3, <3>2, Zenon
    <3>5. e.nr \in Inodes
      BY <2>2 DEF Used
    <3>6. Top.fn \in {"ls", "lsr", "checkfs", "catr"} /\ r \in SUBSET Entries /\ e.nr \in Pointer
          /\ \A x \in r : x.nr \in Used
      <4>1. PICK t : t = Top
        OBVIOUS
      <4>2. t \in Frames
        BY <1>1, <2>1, <4>1, StackTop DEF Top
      <4>. QED
        BY <1>2, <2>5, <3>5, <4>1, <4>2 DEF Frames, Pointer
    <3>7. f \in Frames /\ f.rest = r
      BY <3>1, <3>6, CallType
    <3>8. RestUsed(stack')
      BY <3>3, <3>4, <3>6, <3>7, RestMore
    <3>. QED
      BY <2>1, <3>3, <3>8, StandingRead DEF Steady, Halfway
  <2>6. ASSUME NEW by, Kill(by) PROVE Standing'
    BY <2>1, <2>6, StandingKill DEF Halfway
  <2>7. \A e \in Top.rest : \A r \in {tree[e.nr].ents, Real(e.nr)} : EnterEntry(e, r) => Standing'
    BY <2>5
  <2>8. \A e \in Top.rest : (EnterEntry(e, tree[e.nr].ents) => Standing') /\ (EnterEntry(e, Real(e.nr)) => Standing')
    BY <2>7
  <2>. QED
    BY <1>6, <2>4, <2>6, <2>8, ListCases, Zenon
<1>7. CASE ListEnd
  <2>1. pc = "list" /\ stack' = Front(stack) /\ tree' = tree /\ pc' \in {"list", "exit"}
    BY <1>7 DEF ListEnd, Quiet, Return
  <2>2. stack # <<>>
    BY <2>1 DEF Where, Stage, AtList, Visiting
  <2>3. RestUsed(stack')
    BY <1>1, <2>1, <2>2, RestTop
  <2>. QED
    BY <2>1, <2>3, StandingRead DEF Steady, Halfway
<1>. QED
  BY <1>5, <1>6, <1>7

\* A catr that comes back leaves the entries its callers still visit in use.
LEMMA StandingBack ==
  ASSUME Standing, Steady, NEW s \in Seq(Frames), RestUsed(s), NEW c, NEW d, CatrBack(s, c, d)
  PROVE  Standing'
<1>1. CASE s = <<>>
  <2>1. stack' = <<>> /\ pc' = "exit"
    BY <1>1 DEF CatrBack, Return
  <2>2. RestUsed(stack')
    BY <2>1 DEF RestUsed
  <2>. QED
    BY <2>1, <2>2, StandingRead
<1>2. CASE s # <<>>
  <2>1. PICK up : up = Last(s)
    OBVIOUS
  <2>2. PICK c2 : c2 = Put(c, up.cin)
    OBVIOUS
  <2>3. PICK v : v = [up EXCEPT !.cin = None]
    OBVIOUS
  <2>4. PICK s2 : s2 = Front(s) \o <<v>>
    OBVIOUS
  <2>5. v \in Frames /\ v.rest = up.rest
    <3>1. up \in Frames
      BY <1>2, <2>1, StackTop
    <3>. QED
      BY <2>3, <3>1 DEF Frames, Pointer
  <2>6. s2 \in Seq(Frames) /\ RestUsed(s2)
    BY <1>2, <2>1, <2>4, <2>5, StackTop, RestTop
  <2>7. stack' = AllLeft(s2, c2) /\ pc' = "catr"
    BY <1>2, <2>1, <2>2, <2>3, <2>4 DEF CatrBack
  <2>8. RestUsed(stack')
    BY <2>6, <2>7, RestKept
  <2>. QED
    BY <2>7, <2>8, StandingRead
<1>. QED
  BY <1>1, <1>2

\* So do the other steps of catr.
LEMMA StandingCatr ==
  ASSUME Where, Standing, ~Plainly, cmd_catr \/ CatrFound \/ CatrEntry \/ CatrEnd
  PROVE  Standing'
<1>1. TypedTree /\ stack \in Seq(Frames) /\ RestUsed(stack) /\ NamesUsed
  BY DEF Where, Typed, TypedStack, Standing, Placed, Tree
<1>2. ASSUME NEW s \in Seq(Frames), RestUsed(s), NEW d \in Used, CatrCall(s, d), cur' = d, Steady
      PROVE  Standing'
  <2>1. PICK f : f = [Call("catr", None, {}) EXCEPT !.tmp = d]
    OBVIOUS
  <2>2. f \in Frames /\ f.rest = {}
    BY <2>1 DEF Call, Frames, Pointer, Used
  <2>3. stack' = Append(s, f) /\ Lookup(CatrPath, "catr", d)
    BY <1>2, <2>1, Zenon DEF CatrCall
  <2>4. RestUsed(stack')
    BY <1>2, <2>2, <2>3, RestMore
  <2>. QED
    BY <1>2, <2>3, <2>4, StandingLookup
<1>3. CASE CatrStart
  <2>1. pc = "handler" /\ cur = Root /\ cur' = cur /\ tree' = tree /\ CatrCall(<<>>, cur)
    BY <1>3 DEF CatrStart, Runs, Quiet, Where, Stage, AtHandler
  <2>2. <<>> \in Seq(Frames) /\ RestUsed(<<>>) /\ Root \in Used
    BY RootUsed DEF RestUsed
  <2>3. pc' \in {"walk", "looked"}
    BY <2>1 DEF CatrCall, Lookup
  <2>. QED
    BY <1>2, <2>1, <2>2, <2>3 DEF Steady, Halfway
<1>4. CASE CatrHas
  <2>1. stack # <<>>
    BY <1>4, AtCatrNow DEF CatrHas
  <2>2. PICK f : f = [Top EXCEPT !.in = ret, !.rest = Real(ret)]
    OBVIOUS
  <2>3. Top \in Frames /\ ret \in Inodes /\ Real(ret) \in SUBSET Entries /\ Real(ret) \subseteq tree[ret].ents
    BY <1>1, <1>4, <2>1, StackTop, RealType DEF Top, CatrHas
  <2>4. f \in Frames /\ f.rest = Real(ret)
    BY <2>2, <2>3 DEF Frames, Pointer
  <2>5. \A e \in f.rest : e.nr \in Used
    BY <1>1, <2>3, <2>4 DEF NamesUsed
  <2>6. stack' = Front(stack) \o <<f>> /\ pc = "looked" /\ pc' = "catr" /\ tree' = tree
    BY <1>4, <2>2 DEF CatrHas, Quiet, AtFound
  <2>7. RestUsed(stack')
    BY <1>1, <2>1, <2>4, <2>5, <2>6, RestTop
  <2>. QED
    BY <2>6, <2>7, StandingRead DEF Steady, Halfway
<1>5. CASE CatrNone
  BY <1>5, Resting DEF CatrNone, AtFound, Return, Quiet, Steady, Halfway
<1>6. CASE CatrDone
  <2>1. stack # <<>> /\ pc = "catr" /\ tree' = tree
    BY <1>6, AtCatrNow DEF CatrDone, Quiet
  <2>2. PICK c : c = Put(count, Top.in)
    OBVIOUS
  <2>3. PICK s : s = AllLeft(Front(stack), c)
    OBVIOUS
  <2>4. s \in Seq(Frames) /\ RestUsed(s)
    BY <1>1, <2>1, <2>3, StackTop, RestTop, RestKept, AllLeftType
  <2>5. CatrBack(s, c, cur)
    BY <1>6, <2>2, <2>3 DEF CatrDone
  <2>6. pc' \in {"exit", "catr"}
    BY <2>5 DEF CatrBack, Return
  <2>. QED
    BY <2>1, <2>4, <2>5, <2>6, StandingBack DEF Steady, Halfway
<1>7. ASSUME NEW up, NEW s, s = SubSeq(stack, 1, Len(stack) - 2), NEW c, CatrUp(up, s, c)
      PROVE  Standing'
  <2>1. AtFound /\ Len(stack) # 1 /\ tree' = tree /\ CatrBack(AllLeft(s, c), c, cur)
    BY <1>7 DEF CatrUp, Quiet
  <2>2. Len(stack) \in Nat /\ Len(stack) > 0
    BY <2>1, AtCatrNow
  <2>3. PICK m : m = Len(stack) - 2
    OBVIOUS
  <2>4. m \in Nat /\ m <= Len(stack) /\ s = SubSeq(stack, 1, m)
    BY <1>7, <2>1, <2>2, <2>3
  <2>5. s \in Seq(Frames) /\ RestUsed(s)
    BY <1>1, <2>4, RestLess
  <2>6. PICK t : t = AllLeft(s, c)
    OBVIOUS
  <2>7. t \in Seq(Frames) /\ RestUsed(t) /\ CatrBack(t, c, cur)
    BY <2>1, <2>5, <2>6, AllLeftType, RestKept
  <2>8. pc = "looked" /\ pc' \in {"exit", "catr"}
    BY <2>1, <2>7 DEF CatrBack, Return, AtFound
  <2>. QED
    BY <2>1, <2>7, <2>8, StandingBack DEF Steady, Halfway
<1>8. ASSUME NEW e \in Top.rest, CatrSkip(e) \/ CatrGo(e) PROVE Standing'
  <2>1. stack # <<>> /\ pc = "catr" /\ tree' = tree
    BY <1>8, AtCatrNow DEF CatrSkip, CatrGo, Quiet
  <2>2. PICK v : v = Visited(e)
    OBVIOUS
  <2>3. v \in Frames /\ v.rest = Top.rest \ {e}
    BY <1>1, <2>1, <2>2, VisitedType, Zenon
  <2>4. \A x \in Top.rest : x.nr \in Used
    BY <1>1, <2>1, RestTop DEF Top
  <2>5. CASE CatrSkip(e)
    <3>1. stack' = Front(stack) \o <<v>> /\ pc' = "catr"
      BY <2>1, <2>2, <2>5 DEF CatrSkip
    <3>2. RestUsed(stack')
      BY <1>1, <2>1, <2>3, <2>4, <3>1, RestTop
    <3>. QED
      BY <2>1, <3>1, <3>2, StandingRead DEF Steady, Halfway
  <2>6. CASE CatrGo(e)
    <3>1. PICK f : f = [v EXCEPT !.cin = e.nr]
      OBVIOUS
    <3>2. e.nr \in Used /\ e.nr \in Inodes
      BY <2>4 DEF Used
    <3>3. f \in Frames /\ f.rest = v.rest
      BY <2>3, <3>1, <3>2 DEF Frames, Pointer
    <3>4. PICK s : s = Front(stack) \o <<f>>
      OBVIOUS
    <3>a. \A x \in f.rest : x.nr \in Used
      BY <2>3, <2>4, <3>3
    <3>b. RestUsed(s)
      BY <1>1, <2>1, <3>3, <3>4, <3>a, RestTop
    <3>5. s \in Seq(Frames) /\ RestUsed(s)
      BY <1>1, <2>1, <3>3, <3>4, <3>b, StackTop
    <3>6. CatrCall(s, e.nr) /\ cur' = e.nr
      BY <2>2, <2>6, <3>1, <3>4 DEF CatrGo
    <3>7. pc' \in {"walk", "looked"}
      BY <3>6 DEF CatrCall, Lookup
    <3>. QED
      BY <1>2, <2>1, <3>2, <3>5, <3>6, <3>7 DEF Steady, Halfway
  <2>. QED
    BY <1>8, <2>5, <2>6
<1>9. ASSUME NEW by, CatrFault(by) PROVE Standing'
  BY <1>9, StandingKill DEF CatrFault, AtFound, Halfway
<1>10. PICK up, s, c : /\ up = stack[Len(stack) - 1] /\ s = SubSeq(stack, 1, Len(stack) - 2)
                       /\ c = Put(Put(count, up.cin), up.in)
  OBVIOUS
<1>. QED
  BY <1>3, <1>4, <1>5, <1>6, <1>7, <1>8, <1>9, <1>10, CatrCases, Zenon

\* The steps to where a name is looked up or made.
LEMMA StandingGoes ==
  ASSUME Where, Standing, Looks \/ CreateLookup \/ CdFound \/ Create \/ cmd_rm, ~Answers
  PROVE  Standing'
<1>1. RestUsed(stack) /\ TypedTree
  BY DEF Standing, Placed, Where, Typed
<1>2. Root \in Used /\ IsDir(Root)
  BY RootUsed
<1>3. CASE Looks
  <2>1. PICK goal, p : Fits(goal) /\ Lookup(p, goal, cur) /\ pc = "handler" /\ Quiet /\ UNCHANGED <<mem, arg>>
    BY <1>3, Zenon DEF Looks, LookStep
  <2>2. cur = Root /\ goal # "name" /\ UNCHANGED <<tree, cur, stack>>
    BY <2>1 DEF Where, Stage, AtHandler, Fits, Quiet, mem
  <2>3. pc' \in {"walk", "looked"}
    BY <2>1, LookupIs
  <2>. QED
    BY <1>1, <1>2, <2>1, <2>2, <2>3, StandingLookup DEF Steady, Halfway
<1>4. CASE CreateLookup
  <2>1. PICK p : Lookup(p, "name", cur)
    BY <1>4, Zenon DEF CreateLookup
  <2>2. pc = "create" /\ UNCHANGED <<tree, cur, stack>>
    BY <1>4 DEF CreateLookup, Quiet
  <2>3. cur \in Inodes /\ IsDir(cur)
    BY <2>2 DEF Where, Stage, AtCreate, Standing, Placed
  <2>4. cur \in Used
    BY <2>3 DEF IsDir, Used
  <2>5. pc' \in {"walk", "looked"}
    BY <2>1, LookupIs
  <2>. QED
    BY <1>1, <2>1, <2>2, <2>3, <2>4, <2>5, StandingLookup DEF Steady, Halfway
<1>5. CASE CdFound
  <2>1. pc = "looked" /\ pc' \in {"exit", "create"} /\ UNCHANGED <<tree, stack>>
        /\ (pc' = "create" => IsDir(ret) /\ cur' = ret)
    BY <1>5 DEF CdFound, Looked, Quiet, Return
  <2>2. pc' = "create" => IsDir(cur)'
    BY <2>1 DEF IsDir
  <2>3. Placed'
    BY <1>1, <2>1, <2>2 DEF Placed, Walking, RestUsed, Used
  <2>. QED
    BY <2>1, <2>3, SteadyKept DEF Steady, Halfway
<1>6. CASE ~Plainly /\ (Create \/ cmd_rm)
  <2>1. pc = "handler" /\ pc' \in {"create", "remove"} /\ UNCHANGED <<tree, stack, cur>>
    <3>1. \/ /\ pc = "handler" /\ Creates /\ pc' = "create" /\ nargs >= 2
             /\ (cmd.op = "mkdir" => nargs = 2)
             /\ Quiet /\ UNCHANGED <<mem, arg, walk, ret>>
          \/ /\ Runs("rm") /\ nargs = 2 /\ TxStart("TX_RM")
             /\ pc' = "remove" /\ Quiet
             /\ UNCHANGED <<count, dirty, cur, back, inode, stack, arg, walk, ret>>
      BY <1>6, Others, Zenon
    <3>. QED
      BY <3>1 DEF Runs, Quiet, mem
  <2>2. cur = Root
    BY <2>1 DEF Where, Stage, AtHandler
  <2>3. IsDir(cur)'
    BY <1>2, <2>1, <2>2 DEF IsDir
  <2>4. Placed'
    BY <1>1, <2>1, <2>3 DEF Placed, Walking, RestUsed, Used
  <2>. QED
    BY <2>1, <2>4, SteadyKept DEF Steady, Halfway
<1>7. CASE NextWord
  BY <1>7, StandingRests
<1>. QED
  BY <1>3, <1>4, <1>5, <1>6, <1>7 DEF Plainly

\* Every step keeps the tree sound and the process at a used place of it.
LEMMA StandingNext ==
  ASSUME Where, Standing, [Next]_vars
  PROVE  Standing'
<1>1. CASE UNCHANGED vars
  <2>1. Pending' = Pending
    BY <1>1 DEF vars, mem, Pending
  <2>2. UNCHANGED <<tree, pc, inode, cur, stack, walk, ret>>
    BY <1>1 DEF vars, mem
  <2>3. Tree'
    <3>1. CASE pc \notin {"fill", "enter"}
      BY <2>1, <2>2, <3>1, TreeKept DEF Standing
    <3>2. CASE pc \in {"fill", "enter"}
      <4>. USE DEF Standing
      <4>1. FilesEmpty' /\ NamesUsed' /\ NamesOnce' /\ NumbersOnce'
        BY <2>2 DEF Tree, FilesEmpty, NamesUsed, NamesOnce, NumbersOnce, IsDir, Used, Real
      <4>2. RootSound' /\ DotsRight'
        BY <2>2 DEF Tree, RootSound, DotsRight, IsDir, Real, Find
      <4>3. Used' = Used /\ \A m : Real(m)' = Real(m)
        BY <2>2 DEF Used, Real
      <4>4. AllNamed' /\ PendingLoose'
        BY <2>1, <4>3 DEF Tree, AllNamed, PendingLoose
      <4>5. PendingDots'
        BY <2>2 DEF Tree, PendingDots, IsDir
      <4>6. NoCycle'
        BY <4>3 DEF Tree, NoCycle, Rising
      <4>. QED
        BY <4>1, <4>2, <4>4, <4>5, <4>6 DEF Tree
    <3>. QED
      BY <3>1, <3>2
  <2>4. Placed'
    BY <2>2 DEF Standing, Placed, Walking, RestUsed, Used, IsDir
  <2>. QED
    BY <2>3, <2>4 DEF Standing
<1>2. CASE Plainly
  BY <1>2, StandingRests, StandingGoes DEF Plainly
<1>3. CASE ~Plainly
  <2>0. ~Answers
    BY <1>3 DEF Plainly
  <2>1. CASE Read \/ cmd_write \/ cmd_owrite \/ cmd_ls
    BY <1>3, <2>1, Reads, Others, Zenon
  <2>2. CASE Start \/ WriteFound \/ OwriteBeyond \/ Written \/ Created \/ CreateFailed \/ Exit \/ Leave
    BY <2>2, StandingRests
  <2>3. CASE Walk \/ WalkEnd
    BY <2>3, StandingWalk
  <2>4. CASE CreateLookup \/ CdFound \/ Create \/ cmd_rm
    BY <2>0, <2>4, StandingGoes
  <2>5. CASE CreateInode \/ CreateEmptyDir \/ AddDirent
    BY <2>5, StandingNew, StandingFill, StandingAdd
  <2>6. CASE Undo \/ RemoveInode \/ RemoveDirent
    BY <2>6, StandingErase, StandingRemove
  <2>7. CASE LsFound \/ LsEntry \/ cmd_checkfs \/ CheckEntry \/ ListEnd
    BY <1>3, <2>7, StandingVisit
  <2>8. CASE cmd_catr \/ CatrFound \/ CatrEntry \/ CatrEnd
    BY <1>3, <2>8, StandingCatr
  <2>9. CASE UNCHANGED vars
    BY <1>1, <2>9
  <2>. QED
    BY <2>1, <2>2, <2>3, <2>4, <2>5, <2>6, <2>7, <2>8, <2>9, Zenon DEF Next, Change, Visit
<1>. QED
  BY <1>2, <1>3

\* Whatever commands ran and however they ended, the allocated inodes are a tree without a
\* cycle, but for the one that a command is at work on, and a process only stands on inodes
\* that exist.
THEOREM StandingInvariant == Spec => []Standing
<1>1. Init => Standing
  BY StandingInit
<1>2. Where /\ Standing /\ [Next]_vars => Standing'
  BY StandingNext
<1>. QED
  BY <1>1, <1>2, WhereInvariant, PTL DEF Spec

\* Between two commands every allocated inode but the root has exactly one entry, and a
\* directory names itself and the directory it is in (dir.c:255, dir.c:300).
THEOREM TreesAreSound == Spec => []TreeSound
<1>1. ASSUME Where, Standing PROVE TreeSound
  <2>1. SUFFICES ASSUME pc = "idle"
                 PROVE  /\ \A n \in Inodes : ~IsDir(n) => tree[n].ents = {}
                        /\ \A n \in Used \ {Root} :
                             /\ Cardinality({p \in Inodes \X UNION {Real(m) : m \in Inodes} :
                                               p[2] \in Real(p[1]) /\ p[2].nr = n}) = 1
                             /\ IsDir(n) => /\ Find(n, Dot) = {n}
                                            /\ Find(n, DotDot) = Named(n)
                        /\ \A m \in Inodes : \A e \in tree[m].ents : e.nr \in Used
    BY DEF TreeSound
  <2>2. Pending = {} /\ Tree
    BY <1>1, <2>1 DEF Pending, Standing
  <2>3. ASSUME NEW n \in Used \ {Root}
        PROVE  /\ Cardinality({p \in Inodes \X UNION {Real(m) : m \in Inodes} :
                                 p[2] \in Real(p[1]) /\ p[2].nr = n}) = 1
               /\ IsDir(n) => Find(n, Dot) = {n} /\ Find(n, DotDot) = Named(n)
    <3>1. PICK m \in Inodes : \E e \in Real(m) : e.nr = n
      BY <2>2 DEF Tree, AllNamed
    <3>2. PICK e \in Real(m) : e.nr = n
      BY <3>1
    <3>3. \A k \in Inodes : \A f \in Real(k) : f.nr = n => k = m /\ f = e
      BY <2>2, <3>2 DEF Tree, NumbersOnce
    <3>4. PICK P : P = {p \in Inodes \X UNION {Real(k) : k \in Inodes} :
                          p[2] \in Real(p[1]) /\ p[2].nr = n}
      OBVIOUS
    <3>5. P = {<<m, e>>}
      <4>1. <<m, e>> \in P
        BY <3>2, <3>4
      <4>2. \A p \in P : p = <<m, e>>
        BY <3>3, <3>4
      <4>. QED
        BY <4>1, <4>2
    <3>6. Cardinality(P) = 1
      BY <3>5, FS_Singleton
    <3>7. Named(n) = {m}
      BY <3>2, <3>3 DEF Named
    <3>8. IsDir(n) => Find(n, Dot) = {n} /\ Find(n, DotDot) = {m}
      BY <2>2, <3>2 DEF Tree, DotsRight
    <3>. QED
      BY <3>4, <3>6, <3>7, <3>8
  <2>. QED
    BY <2>2, <2>3 DEF Tree, FilesEmpty, NamesUsed
<1>. QED
  BY <1>1, WhereInvariant, StandingInvariant, PTL
-----------------------------------------------------------------------------
(* Inodes in memory are counted for those that hold them.                  *)

\* How many calls have inode n, and how many have it as the child they went into.
In(s, n)  == Cardinality({k \in DOMAIN s : s[k].in = n})
Cin(s, n) == Cardinality({k \in DOMAIN s : s[k].cin = n})

\* Of a set with one element more, or none.
LEMMA OneMore ==
  ASSUME NEW S, IsFiniteSet(S), NEW x, x \notin S, NEW P \in BOOLEAN
  PROVE  Cardinality(S \cup (IF P THEN {x} ELSE {})) = Cardinality(S) + B(P)
<1>1. ASSUME P = TRUE PROVE Cardinality(S \cup (IF P THEN {x} ELSE {})) = Cardinality(S) + B(P)
  <2>1. (IF P THEN {x} ELSE {}) = {x}
    BY <1>1
  <2>3. B(P) = 1
    <3>1. B(TRUE) = 1
      BY DEF B
    <3>. QED
      BY <1>1, <3>1
  <2>2. Cardinality(S \cup {x}) = IF x \in S THEN Cardinality(S) ELSE Cardinality(S) + 1
    BY FS_AddElement, Zenon
  <2>4. Cardinality(S \cup {x}) = Cardinality(S) + 1
    BY <2>2
  <2>. QED
    BY <2>1, <2>3, <2>4, Zenon
<1>2. ASSUME P = FALSE PROVE Cardinality(S \cup (IF P THEN {x} ELSE {})) = Cardinality(S) + B(P)
  <2>1. S \cup (IF P THEN {x} ELSE {}) = S /\ B(P) = 0
    BY <1>2 DEF B
  <2>2. Cardinality(S) = Cardinality(S) + 0
    BY FS_CardinalityType
  <2>. QED
    BY <2>1, <2>2, Zenon
<1>. QED
  BY <1>1, <1>2

\* Both numbers are natural.
LEMMA CallsFinite ==
  ASSUME NEW s \in Seq(Frames), NEW n
  PROVE  /\ IsFiniteSet({k \in DOMAIN s : s[k].in = n}) /\ IsFiniteSet({k \in DOMAIN s : s[k].cin = n})
         /\ In(s, n) \in Nat /\ Cin(s, n) \in Nat
<1>1. DOMAIN s = 1 .. Len(s) /\ Len(s) \in Nat
  OBVIOUS
<1>2. IsFiniteSet(DOMAIN s)
  BY <1>1, FS_Interval
<1>3. IsFiniteSet({k \in DOMAIN s : s[k].in = n}) /\ IsFiniteSet({k \in DOMAIN s : s[k].cin = n})
  BY <1>2, FS_Subset
<1>. QED
  BY <1>3, FS_CardinalityType DEF In, Cin

\* A call more at the end.
LEMMA CallsMore ==
  ASSUME NEW s \in Seq(Frames), NEW f \in Frames, NEW n
  PROVE  /\ In(Append(s, f), n) = In(s, n) + B(f.in = n)
         /\ Cin(Append(s, f), n) = Cin(s, n) + B(f.cin = n)
<1>1. PICK t, x : t = Append(s, f) /\ x = Len(s) + 1
  OBVIOUS
<1>2. /\ DOMAIN t = DOMAIN s \cup {x} /\ x \notin DOMAIN s /\ t[x] = f
      /\ \A k \in DOMAIN s : t[k] = s[k]
  BY <1>1
<1>3. {k \in DOMAIN t : t[k].in = n} = {k \in DOMAIN s : s[k].in = n} \cup (IF f.in = n THEN {x} ELSE {})
  BY <1>2
<1>4. {k \in DOMAIN t : t[k].cin = n} = {k \in DOMAIN s : s[k].cin = n} \cup (IF f.cin = n THEN {x} ELSE {})
  BY <1>2
<1>5. x \notin {k \in DOMAIN s : s[k].in = n} /\ x \notin {k \in DOMAIN s : s[k].cin = n}
  BY <1>2
<1>6. PICK I, C : I = {k \in DOMAIN s : s[k].in = n} /\ C = {k \in DOMAIN s : s[k].cin = n}
  OBVIOUS
<1>7. IsFiniteSet(I) /\ IsFiniteSet(C) /\ x \notin I /\ x \notin C
  BY <1>5, <1>6, CallsFinite
<1>8. /\ Cardinality(I \cup (IF f.in = n THEN {x} ELSE {})) = Cardinality(I) + B(f.in = n)
      /\ Cardinality(C \cup (IF f.cin = n THEN {x} ELSE {})) = Cardinality(C) + B(f.cin = n)
  BY <1>7, OneMore
<1>. QED
  BY <1>1, <1>3, <1>4, <1>6, <1>8 DEF In, Cin

\* A stack is the calls below the last one, and that one.
LEMMA StackSplit ==
  ASSUME NEW s \in Seq(Frames), s # <<>>
  PROVE  /\ s = Append(Front(s), Last(s)) /\ Front(s) \in Seq(Frames) /\ Last(s) \in Frames
<1>1. PICK t, f : t = Front(s) /\ f = Last(s)
  OBVIOUS
<1>2. t \in Seq(Frames) /\ f \in Frames /\ Len(Append(t, f)) = Len(s) /\ Append(t, f) \in Seq(Frames)
      /\ \A k \in 1 .. Len(s) : Append(t, f)[k] = IF k = Len(s) THEN f ELSE s[k]
  BY <1>1, StackTop
<1>3. \A k \in 1 .. Len(s) : Append(t, f)[k] = s[k]
  BY <1>1, <1>2, StackTop
<1>4. Append(t, f) = s
  BY <1>2, <1>3
<1>. QED
  BY <1>1, <1>2, <1>4

\* The last call less.
LEMMA CallsTop ==
  ASSUME NEW s \in Seq(Frames), s # <<>>, NEW n
  PROVE  /\ In(Front(s), n) = In(s, n) - B(Last(s).in = n)
         /\ Cin(Front(s), n) = Cin(s, n) - B(Last(s).cin = n)
<1>1. PICK t, f : t = Front(s) /\ f = Last(s)
  OBVIOUS
<1>2. s = Append(t, f) /\ t \in Seq(Frames) /\ f \in Frames
  BY <1>1, StackSplit
<1>3. In(s, n) = In(t, n) + B(f.in = n) /\ Cin(s, n) = Cin(t, n) + B(f.cin = n)
  BY <1>2, CallsMore
<1>4. In(t, n) \in Nat /\ Cin(t, n) \in Nat /\ B(f.in = n) \in Nat /\ B(f.cin = n) \in Nat
  BY <1>2, CallsFinite DEF B
<1>. QED
  BY <1>1, <1>3, <1>4

\* No call has anything.
LEMMA CallsNone ==
  ASSUME NEW n
  PROVE  In(<<>>, n) = 0 /\ Cin(<<>>, n) = 0
<1>1. {k \in DOMAIN <<>> : <<>>[k].in = n} = {} /\ {k \in DOMAIN <<>> : <<>>[k].cin = n} = {}
  OBVIOUS
<1>. QED
  BY <1>1, FS_EmptySet DEF In, Cin

\* Who has an inode is counted.
LEMMA CallsSome ==
  ASSUME NEW s \in Seq(Frames), NEW k \in DOMAIN s
  PROVE  In(s, s[k].in) > 0 /\ Cin(s, s[k].cin) > 0
<1>1. PICK n, m : n = s[k].in /\ m = s[k].cin
  OBVIOUS
<1>2. {j \in DOMAIN s : s[j].in = n} # {} /\ {j \in DOMAIN s : s[j].cin = m} # {}
  BY <1>1
<1>3. In(s, n) # 0 /\ Cin(s, m) # 0
  BY <1>2, CallsFinite, FS_EmptySet DEF In, Cin
<1>4. In(s, n) \in Nat /\ Cin(s, m) \in Nat
  BY CallsFinite
<1>. QED
  BY <1>1, <1>3, <1>4

\* What no call went into is not counted for one.
LEMMA CallsFree ==
  ASSUME NEW s \in Seq(Frames), NEW n, \A k \in DOMAIN s : s[k].cin # n
  PROVE  Cin(s, n) = 0
<1>1. {k \in DOMAIN s : s[k].cin = n} = {}
  OBVIOUS
<1>. QED
  BY <1>1, FS_EmptySet DEF Cin

\* But for catr an inode is counted once for the current directory, once for the command
\* that holds it and once for each call that lists it.
Balanced ==
  cmd.op # "catr" =>
    \A n \in Inodes : count[n] = B(cur = n) + B(inode = n) + In(stack, n)

\* Before the first process every count is zero, as is the number of pointers.
LEMMA BalancedInit == Init => Balanced
<1>. SUFFICES ASSUME Init PROVE \A n \in Inodes : count[n] = B(cur = n) + B(inode = n) + In(stack, n)
  BY DEF Balanced
<1>1. count = [n \in Inodes |-> 0] /\ cur = None /\ inode = None /\ stack = <<>>
  BY DEF Init
<1>2. \A n \in Inodes : B(cur = n) = 0 /\ B(inode = n) = 0 /\ In(stack, n) = 0
  BY <1>1, InodeSet, CallsNone DEF B
<1>. QED
  BY <1>1, <1>2

\* Nobody takes or puts an inode.
LEMMA BalancedKept ==
  ASSUME Balanced, UNCHANGED <<count, cur, inode, stack, cmd>>
  PROVE  Balanced'
BY DEF Balanced, In

\* What is not a pointer to an inode is none of them.
LEMMA Nobody == \A n \in Inodes : B(None = n) = 0 /\ B(Freed = n) = 0
BY InodeSet DEF B

\* The current directory is replaced.
LEMMA BalancedMove ==
  ASSUME Where, Balanced, cmd.op # "catr", stack = <<>>, stack' = <<>>, NEW d \in Inodes,
         cur \in Inodes, cur' = d, count' = Replace(count, d, cur), UNCHANGED <<inode, cmd>>
  PROVE  Balanced'
<1>1. PICK o : o = cur
  OBVIOUS
<1>2. PICK c : c = Get(count, d)
  OBVIOUS
<1>3. count \in [Inodes -> Int]
  BY DEF Where, Typed, TypedCount
<1>4. c \in [Inodes -> Int] /\ \A n \in Inodes : c[n] = count[n] + B(n = d)
  BY <1>2, <1>3, Counting
<1>5. count' = Put(c, o)
  BY <1>1, <1>2 DEF Replace
<1>6. \A n \in Inodes : count'[n] = c[n] - B(n = o)
  BY <1>4, <1>5, Counting
<1>7. \A n \in Inodes : count[n] = B(o = n) + B(inode = n) + In(<<>>, n)
  BY <1>1 DEF Balanced
<1>8. \A n \in Inodes : count'[n] = B(d = n) + B(inode = n) + In(<<>>, n)
  <2>. SUFFICES ASSUME NEW n \in Inodes PROVE count'[n] = B(d = n) + B(inode = n) + In(<<>>, n)
    OBVIOUS
  <2>1. In(<<>>, n) = 0
    BY CallsNone
  <2>. QED
    BY <1>4, <1>6, <1>7, <2>1 DEF B
<1>. QED
  BY <1>8 DEF Balanced, In

\* A command takes an inode, or puts the one it has.
LEMMA BalancedTake ==
  ASSUME Where, Balanced, inode = None, NEW n \in Inodes, inode' = n, count' = Get(count, n),
         UNCHANGED <<cur, stack, cmd>>
  PROVE  Balanced'
<1>1. count \in [Inodes -> Int]
  BY DEF Where, Typed, TypedCount
<1>2. \A m \in Inodes : count'[m] = count[m] + B(m = n)
  BY <1>1, Counting
<1>3. ASSUME cmd.op # "catr", NEW m \in Inodes
      PROVE  count'[m] = B(cur = m) + B(n = m) + In(stack, m)
  <2>1. count[m] = B(cur = m) + B(None = m) + In(stack, m)
    BY <1>3 DEF Balanced
  <2>2. In(stack, m) \in Nat
    BY CallsFinite DEF Where, Typed, TypedStack
  <2>. QED
    BY <1>2, <2>1, <2>2, Nobody DEF B
<1>. QED
  BY <1>3 DEF Balanced, In

\* A put of the inode a command holds takes the count and the pointer.
LEMMA BalancedPut ==
  ASSUME Where, Balanced, inode \in Inodes, inode' = None, count' = Put(count, inode),
         UNCHANGED <<cur, stack, cmd>>
  PROVE  Balanced'
<1>1. count \in [Inodes -> Int]
  BY DEF Where, Typed, TypedCount
<1>2. PICK n \in Inodes : n = inode
  OBVIOUS
<1>3. \A m \in Inodes : count'[m] = count[m] - B(m = n)
  BY <1>1, <1>2, Counting
<1>4. ASSUME cmd.op # "catr", NEW m \in Inodes
      PROVE  count'[m] = B(cur = m) + B(None = m) + In(stack, m)
  <2>1. count[m] = B(cur = m) + B(n = m) + In(stack, m)
    BY <1>2, <1>4 DEF Balanced
  <2>2. In(stack, m) \in Nat
    BY CallsFinite DEF Where, Typed, TypedStack
  <2>. QED
    BY <1>3, <2>1, <2>2, Nobody DEF B
<1>. QED
  BY <1>4 DEF Balanced, In

\* The last call goes on with other entries, and has the same inodes.
LEMMA CallsSame ==
  ASSUME NEW s \in Seq(Frames), s # <<>>, NEW f \in Frames, f.in = Last(s).in, f.cin = Last(s).cin, NEW n
  PROVE  In(Append(Front(s), f), n) = In(s, n) /\ Cin(Append(Front(s), f), n) = Cin(s, n)
<1>1. PICK t : t = Front(s)
  OBVIOUS
<1>2. t \in Seq(Frames)
  BY <1>1, StackTop
<1>3. In(t, n) = In(s, n) - B(f.in = n) /\ Cin(t, n) = Cin(s, n) - B(f.cin = n)
  BY <1>1, CallsTop
<1>4. In(Append(t, f), n) = In(t, n) + B(f.in = n) /\ Cin(Append(t, f), n) = Cin(t, n) + B(f.cin = n)
  BY <1>2, CallsMore
<1>5. In(s, n) \in Nat /\ Cin(s, n) \in Nat /\ B(f.in = n) \in Nat /\ B(f.cin = n) \in Nat
  BY CallsFinite DEF B
<1>. QED
  BY <1>1, <1>3, <1>4, <1>5

\* A directory that was changed to is left, and the inode that was made is put before.
LEMMA BalancedHome ==
  ASSUME Where, Making(cur), cur \in Inodes, NEW c \in [Inodes -> Int], ComeBack(c), inode' = None,
         UNCHANGED <<stack, cmd>>, \A n \in Inodes : c[n] = B(cur = n)
  PROVE  Balanced'
<1>1. cmd.op # "catr" /\ stack = <<>> /\ (back = None => cur = Root) /\ back \in {None, Root}
  BY DEF Making, Creates, Where, Typed, TypedMem
<1>2. \A n \in Inodes : count'[n] = B(cur' = n)
  <2>1. CASE back = None
    BY <2>1 DEF ComeBack, CameBack
  <2>2. CASE back # None
    <3>1. PICK o, g : o = cur /\ g = Get(c, Root)
      OBVIOUS
    <3>2. g \in [Inodes -> Int] /\ \A n \in Inodes : g[n] = c[n] + B(n = Root)
      BY <3>1, Counting
    <3>3. count' = Put(g, o) /\ cur' = Root
      BY <1>1, <2>2, <3>1 DEF ComeBack, CameBack, Replace
    <3>4. \A n \in Inodes : count'[n] = g[n] - B(n = o)
      BY <3>2, <3>3, Counting
    <3>5. \A n \in Inodes : c[n] = B(o = n)
      BY <3>1
    <3>. QED
      BY <3>2, <3>3, <3>4, <3>5 DEF B
  <2>. QED
    BY <2>1, <2>2
<1>3. \A n \in Inodes : count'[n] = B(cur' = n) + B(None = n) + In(<<>>, n)
  <2>. SUFFICES ASSUME NEW n \in Inodes PROVE count'[n] = B(cur' = n) + B(None = n) + In(<<>>, n)
    OBVIOUS
  <2>1. In(<<>>, n) = 0 /\ B(None = n) = 0
    BY CallsNone, Nobody
  <2>2. B(cur' = n) \in Nat
    BY DEF B
  <2>. QED
    BY <1>2, <2>1, <2>2
<1>. QED
  BY <1>1, <1>3 DEF Balanced, In

\* A create takes and puts its directory and its new inode in pairs, failed or not.
LEMMA BalancedCreate ==
  ASSUME Where, Balanced,
         CreateLookup \/ CreateInode \/ CreateEmptyDir \/ AddDirent \/ Undo \/ Created \/ CreateFailed
  PROVE  Balanced'
<1>1. CASE CreateLookup \/ CreateEmptyDir \/ AddDirent
  BY <1>1, BalancedKept DEF CreateLookup, CreateEmptyDir, AddDirent, Quiet, mem
<1>2. CASE CreateInode
  <2>1. UNCHANGED <<cur, stack, cmd>> /\ inode = None
    BY <1>2 DEF CreateInode, Looked, Where, Stage, Walking, AtWalk, ForName
  <2>2. CASE UNCHANGED <<count, inode>>
    BY <2>1, <2>2, BalancedKept
  <2>3. CASE Used # Inodes /\ count' = Get(count, Min(Inodes \ Used)) /\ inode' = Min(Inodes \ Used)
    <3>1. PICK n : n = Min(Inodes \ Used)
      OBVIOUS
    <3>2. Inodes \ Used # {} /\ Inodes \ Used \in SUBSET Nat
      BY <2>3, InodeSet DEF Used
    <3>3. n \in Inodes
      BY <3>1, <3>2, MinOf
    <3>. QED
      BY <2>1, <2>3, <3>1, <3>3, BalancedTake
  <2>. QED
    BY <1>2, <2>2, <2>3 DEF CreateInode
<1>3. CASE Undo
  <2>1. inode \in Inodes /\ UNCHANGED <<cur, stack, cmd>> /\ inode' = None /\ count' = Put(count, inode)
    BY <1>3 DEF Undo, Where, Stage, AtUndo, AtMade
  <2>. QED
    BY <2>1, BalancedPut
<1>4. CASE Created
  <2>1. /\ Making(cur) /\ cur \in Inodes /\ inode \in Inodes /\ inode' = None /\ UNCHANGED <<stack, cmd>>
        /\ ComeBack(Put(count, inode))
    BY <1>4 DEF Created, Quiet, Where, Stage, AtSync, AtMade
  <2>2. PICK n, c : n = inode /\ c = Put(count, n)
    OBVIOUS
  <2>3. count \in [Inodes -> Int]
    BY DEF Where, Typed, TypedCount
  <2>4. c \in [Inodes -> Int] /\ \A m \in Inodes : c[m] = count[m] - B(m = n)
    BY <2>2, <2>3, Counting
  <2>5. \A m \in Inodes : c[m] = B(cur = m)
    <3>. SUFFICES ASSUME NEW m \in Inodes PROVE c[m] = B(cur = m)
      OBVIOUS
    <3>1. count[m] = B(cur = m) + B(n = m) + In(<<>>, m)
      BY <2>1, <2>2 DEF Balanced, Making, Creates
    <3>. QED
      BY <2>4, <3>1, CallsNone DEF B
  <2>. QED
    BY <2>1, <2>2, <2>4, <2>5, BalancedHome
<1>5. CASE CreateFailed
  <2>1. CASE Kill("dirty")
    BY <2>1, BalancedKept DEF Kill, mem
  <2>2. CASE ~Kill("dirty")
    <3>1. /\ Making(cur) /\ cur \in Inodes /\ inode = None /\ inode' = None /\ UNCHANGED <<stack, cmd>>
          /\ ComeBack(count)
      BY <1>5, <2>2 DEF CreateFailed, Quiet, Where, Stage, AtFailed
    <3>2. PICK c : c = count
      OBVIOUS
    <3>3. c \in [Inodes -> Int] /\ ComeBack(c)
      BY <3>1, <3>2 DEF Where, Typed, TypedCount
    <3>4. \A m \in Inodes : c[m] = B(cur = m)
      <4>. SUFFICES ASSUME NEW m \in Inodes PROVE c[m] = B(cur = m)
        OBVIOUS
      <4>1. count[m] = B(cur = m) + B(None = m) + In(<<>>, m)
        BY <3>1 DEF Balanced, Making, Creates
      <4>. QED
        BY <3>2, <4>1, CallsNone, Nobody DEF B
    <3>. QED
      BY <3>1, <3>3, <3>4, BalancedHome
  <2>. QED
    BY <2>1, <2>2
<1>. QED
  BY <1>1, <1>2, <1>3, <1>4, <1>5

\* A walk puts the directory it leaves for the one it takes (dir.c:513-525), but for catr, below.
LEMMA BalancedWalk ==
  ASSUME Where, Balanced, cmd.op # "catr", Walk \/ WalkEnd \/ CdFound
  PROVE  Balanced'
<1>1. TypedTree /\ stack \in Seq(Frames)
  BY DEF Where, Typed, TypedStack
<1>2. Walking => cur \in Inodes /\ walk.from \in Inodes /\ stack = <<>>
  BY DEF Where, Stage, AtWalk, ForName, ForCatr, ForCommand, Making, Plain
<1>3. \A c : AllLeft(<<>>, c) = <<>>
  <2>1. <<>> \in Seq(Frames)
    OBVIOUS
  <2>. QED
    BY <2>1, AllLeftType
<1>4. CASE Walk
  <2>1. cur \in Inodes /\ stack = <<>>
    BY <1>2, <1>4, WalkCases DEF Walking
  <2>2. ASSUME NEW d \in Inodes, NEW rest, WalkOn(d, rest) PROVE Balanced'
    <3>1. stack' = <<>> /\ cur' = d /\ count' = Replace(count, d, cur) /\ UNCHANGED <<inode, cmd>>
      BY <1>3, <2>1, <2>2 DEF WalkOn, Quiet
    <3>. QED
      BY <2>1, <3>1, BalancedMove
  <2>3. \A name : ~(InodeNr(cur, name) < 0) => InodeNr(cur, name) \in Inodes
    <3>. SUFFICES ASSUME NEW name, ~(InodeNr(cur, name) < 0) PROVE InodeNr(cur, name) \in Inodes
      OBVIOUS
    <3>. QED
      BY <1>1, <2>1, FindType
  <2>4. ASSUME NEW r, Found(r) PROVE Balanced'
    BY <2>4, BalancedKept DEF Found, Quiet, mem
  <2>5. ASSUME Kill("not a directory") PROVE Balanced'
    BY <2>5, BalancedKept DEF Kill, mem
  <2>6. Root \in Inodes
    BY InodeSet
  <2>. QED
    BY <1>4, <2>2, <2>3, <2>4, <2>5, <2>6, WalkCases, Zenon
<1>5. CASE WalkEnd
  <2>1. cur \in Inodes /\ walk.from \in Inodes /\ stack = <<>>
    BY <1>2, <1>5 DEF WalkEnd, Walking
  <2>2. PICK d : d = walk.from
    OBVIOUS
  <2>3. UNCHANGED <<inode, cmd>>
    BY <1>5 DEF WalkEnd, Quiet
  <2>4. CASE UNCHANGED <<count, cur, stack>>
    BY <2>3, <2>4, BalancedKept
  <2>5. CASE count' = Replace(count, d, cur) /\ cur' = d /\ stack' = <<>>
    BY <2>1, <2>2, <2>3, <2>5, BalancedMove
  <2>. QED
    BY <1>3, <1>5, <2>1, <2>2, <2>4, <2>5 DEF WalkEnd
<1>6. CASE CdFound
  <2>1. cur \in Inodes /\ stack = <<>> /\ UNCHANGED <<inode, cmd, stack>>
    BY <1>2, <1>6 DEF CdFound, Looked, Walking, Quiet
  <2>2. CASE UNCHANGED <<count, cur>>
    BY <2>1, <2>2, BalancedKept
  <2>3. CASE ~(ret < 0) /\ count' = Replace(count, ret, cur) /\ cur' = ret
    <3>1. PICK d : d = ret
      OBVIOUS
    <3>2. d \in Inodes
      BY <2>3, <3>1, ErrnosHold DEF Errnos, Where, Typed, TypedEnd
    <3>. QED
      BY <2>1, <2>3, <3>1, <3>2, BalancedMove
  <2>. QED
    BY <1>6, <2>2, <2>3 DEF CdFound
<1>. QED
  BY <1>4, <1>5, <1>6

\* write, owrite and rm put what they have found.
LEMMA BalancedWrite ==
  ASSUME Where, Balanced, WriteFound \/ Written \/ RemoveDirent \/ RemoveInode
  PROVE  Balanced'
<1>1. CASE WriteFound
  <2>1. inode = None /\ UNCHANGED <<cur, stack, cmd>>
    BY <1>1 DEF WriteFound, Looked, Quiet, Where, Stage, Walking, AtWalk, ForCommand, Plain
  <2>2. CASE UNCHANGED <<count, inode>>
    BY <2>1, <2>2, BalancedKept
  <2>3. CASE ~(ret < 0) /\ count' = Get(count, ret) /\ inode' = ret
    <3>1. PICK n : n = ret
      OBVIOUS
    <3>2. n \in Inodes
      BY <2>3, <3>1, ErrnosHold DEF Errnos, Where, Typed, TypedEnd
    <3>. QED
      BY <2>1, <2>3, <3>1, <3>2, BalancedTake
  <2>. QED
    BY <1>1, <2>2, <2>3 DEF WriteFound
<1>2. CASE Written
  <2>1. inode \in Inodes /\ inode' = None /\ count' = Put(count, inode) /\ UNCHANGED <<cur, stack, cmd>>
    BY <1>2 DEF Written, Quiet, Where, Stage, AtWritten
  <2>. QED
    BY <2>1, BalancedPut
<1>3. CASE RemoveInode
  <2>1. inode \in Inodes /\ inode' = None /\ count' = Put(count, inode) /\ UNCHANGED <<cur, stack, cmd>>
    BY <1>3 DEF RemoveInode, Where, Stage, AtRemoved
  <2>. QED
    BY <2>1, BalancedPut
<1>4. CASE RemoveDirent
  <2>1. inode = None /\ UNCHANGED <<cur, stack, cmd>>
    BY <1>4, RemoveCases DEF AtRemove
  <2>2. ASSUME UNCHANGED <<count, inode>> PROVE Balanced'
    BY <2>1, <2>2, BalancedKept
  <2>3. ASSUME NEW n \in Inodes, count' = Get(count, n), inode' = n PROVE Balanced'
    BY <2>1, <2>3, BalancedTake
  <2>. QED
    BY <1>4, <2>2, <2>3, RemoveCases
<1>. QED
  BY <1>1, <1>2, <1>3, <1>4

\* Each call of ls, lsr or checkfs puts the directory it has taken.
LEMMA BalancedList ==
  ASSUME Where, Balanced, LsFound \/ LsEntry \/ cmd_checkfs \/ CheckEntry \/ ListEnd
  PROVE  Balanced'
<1>1. stack \in Seq(Frames) /\ TypedTree /\ count \in [Inodes -> Int]
  BY DEF Where, Typed, TypedStack, TypedCount
<1>2. ASSUME NEW by, Kill(by) PROVE Balanced'
  BY <1>2, BalancedKept DEF Kill, mem
<1>3. ASSUME Plainly PROVE Balanced'
  BY <1>3, BalancedKept DEF Plainly, Answers, EndStep, Looks, LookStep, NextWord, Return, Quiet, mem
<1>4. ASSUME NEW n \in Inodes, NEW rest \in SUBSET Entries, FirstCall(n, rest) PROVE Balanced'
  <2>1. PICK f : f = Call(cmd.op, n, rest)
    OBVIOUS
  <2>2. f \in Frames /\ f.in = n
    BY <1>4, <2>1, CallType DEF FirstCall, Pointer
  <2>3. /\ stack = <<>> /\ inode = None /\ stack' = <<f>> /\ count' = Get(count, n) /\ cmd.op # "catr"
        /\ UNCHANGED <<cur, inode, cmd>>
    BY <1>4, <2>1 DEF FirstCall, Plain, Quiet
  <2>4. \A m \in Inodes : count'[m] = count[m] + B(m = n)
    BY <1>1, <2>3, Counting
  <2>5. \A m \in Inodes : count[m] = B(cur = m) + B(inode = m) + In(<<>>, m)
    BY <2>3 DEF Balanced
  <2>6. \A m \in Inodes : In(<<f>>, m) = In(<<>>, m) + B(n = m)
    <3>1. PICK s : s = <<>>
      OBVIOUS
    <3>2. <<f>> = Append(s, f) /\ s \in Seq(Frames)
      BY <3>1
    <3>3. \A m : In(Append(s, f), m) = In(s, m) + B(n = m)
      BY <2>2, <3>2, CallsMore
    <3>. QED
      BY <3>1, <3>2, <3>3
  <2>7. \A m \in Inodes : count'[m] = B(cur = m) + B(inode = m) + In(<<f>>, m)
    <3>. SUFFICES ASSUME NEW m \in Inodes PROVE count'[m] = B(cur = m) + B(inode = m) + In(<<f>>, m)
      OBVIOUS
    <3>1. In(<<>>, m) = 0
      BY CallsNone
    <3>. QED
      BY <2>4, <2>5, <2>6, <3>1 DEF B
  <2>. QED
    BY <2>3, <2>7 DEF Balanced, In
<1>5. CASE LsFound \/ cmd_checkfs
  <2>1. ret >= 0 => ret \in Inodes
    BY InodeSet, ErrnosHold DEF Errnos, Where, Typed, TypedEnd
  <2>2. ret \in Inodes => tree[ret].ents \in SUBSET Entries
    BY <1>1, RealType
  <2>3. Real(Root) \in SUBSET Entries /\ Root \in Inodes
    BY <1>1, InodeSet, RealType
  <2>. QED
    BY <1>2, <1>3, <1>4, <1>5, <2>1, <2>2, <2>3, FirstCases
<1>6. CASE LsEntry \/ CheckEntry
  <2>1. pc = "list" /\ stack # <<>> /\ cmd.op # "catr"
    BY <1>6, ListCases DEF AtList, Visiting
  <2>2. ASSUME NEW e \in Top.rest
        PROVE  \E v \in Frames : v = Visited(e) /\ v.in = Last(stack).in /\ v.cin = Last(stack).cin
    <3>1. PICK v : v = Visited(e)
      OBVIOUS
    <3>2. v \in Frames /\ v.in = Top.in /\ v.cin = Top.cin
      BY <1>1, <2>1, <3>1, VisitedType, Zenon
    <3>. QED
      BY <3>1, <3>2 DEF Top
  <2>3. ASSUME NEW e \in Top.rest, SkipEntry(e) PROVE Balanced'
    <3>1. PICK v \in Frames : v = Visited(e) /\ v.in = Last(stack).in /\ v.cin = Last(stack).cin
      BY <2>2
    <3>2. stack' = Append(Front(stack), v) /\ UNCHANGED <<count, cur, inode, cmd>>
      BY <2>3, <3>1 DEF SkipEntry, Quiet
    <3>3. \A n : In(Append(Front(stack), v), n) = In(stack, n)
      BY <1>1, <2>1, <3>1, CallsSame
    <3>4. \A n : In(stack', n) = In(stack, n)
      BY <3>2, <3>3
    <3>5. \A n \in Inodes : count'[n] = B(cur = n) + B(inode = n) + In(stack', n)
      BY <2>1, <3>2, <3>4 DEF Balanced
    <3>. QED
      BY <3>2, <3>5 DEF Balanced, In
  <2>4. ASSUME NEW e \in Top.rest, NEW r \in {tree[e.nr].ents, Real(e.nr)}, EnterEntry(e, r)
        PROVE  Balanced'
    <3>1. PICK v \in Frames : v = Visited(e) /\ v.in = Last(stack).in /\ v.cin = Last(stack).cin
      BY <2>2
    <3>2. PICK f, s, n : f = Call(Top.fn, e.nr, r) /\ s = Append(Front(stack), v) /\ n = e.nr
      OBVIOUS
    <3>a. PICK t : t = Top
      OBVIOUS
    <3>b. t \in Frames
      BY <1>1, <2>1, <3>a, StackTop DEF Top
    <3>3. n \in Inodes /\ r \in SUBSET Entries
      BY <1>1, <2>4, <3>2, <3>a, <3>b, RealType DEF Frames, Entries
    <3>4. f \in Frames /\ f.in = n
      BY <3>2, <3>3, <3>a, <3>b, CallType DEF Frames, Pointer
    <3>5. s \in Seq(Frames)
      BY <1>1, <2>1, <3>1, <3>2, StackTop
    <3>6. stack' = Append(s, f) /\ count' = Get(count, n) /\ UNCHANGED <<cur, inode, cmd>>
      BY <2>4, <3>1, <3>2 DEF EnterEntry, Quiet
    <3>7. \A m \in Inodes : count'[m] = count[m] + B(m = n)
      BY <1>1, <3>6, Counting
    <3>8. \A m : In(s, m) = In(stack, m)
      BY <1>1, <2>1, <3>1, <3>2, CallsSame
    <3>9. \A m : In(stack', m) = In(stack, m) + B(n = m)
      <4>1. \A m : In(Append(s, f), m) = In(s, m) + B(n = m)
        BY <3>4, <3>5, CallsMore
      <4>. QED
        BY <3>6, <3>8, <4>1
    <3>10. ASSUME NEW m \in Inodes PROVE count'[m] = B(cur = m) + B(inode = m) + In(stack', m)
      <4>1. count[m] = B(cur = m) + B(inode = m) + In(stack, m)
        BY <2>1 DEF Balanced
      <4>2. In(stack, m) \in Nat
        BY <1>1, CallsFinite
      <4>. QED
        BY <3>7, <3>9, <4>1, <4>2 DEF B
    <3>. QED
      BY <3>6, <3>10 DEF Balanced, In
  <2>5. \A e \in Top.rest : \A r \in {tree[e.nr].ents, Real(e.nr)} : EnterEntry(e, r) => Balanced'
    BY <2>4
  <2>6. \A e \in Top.rest : (EnterEntry(e, tree[e.nr].ents) => Balanced') /\ (EnterEntry(e, Real(e.nr)) => Balanced')
    BY <2>5
  <2>. QED
    BY <1>2, <1>6, <2>3, <2>6, ListCases, Zenon
<1>7. CASE ListEnd
  <2>1. pc = "list" /\ stack' = Front(stack) /\ count' = Put(count, Top.in) /\ UNCHANGED <<cur, inode, cmd>>
    BY <1>7 DEF ListEnd, Quiet
  <2>2. stack # <<>> /\ cmd.op # "catr"
    BY <2>1 DEF Where, Stage, AtList, Visiting
  <2>3. PICK n : n = Last(stack).in
    OBVIOUS
  <2>4. n \in Inodes
    BY <1>1, <2>2, <2>3, StackTop DEF Where, Listing
  <2>5. \A m \in Inodes : count'[m] = count[m] - B(m = n)
    BY <1>1, <2>1, <2>3, Counting DEF Top
  <2>6. \A m : In(stack', m) = In(stack, m) - B(n = m)
    BY <1>1, <2>1, <2>2, <2>3, CallsTop
  <2>7. ASSUME NEW m \in Inodes PROVE count'[m] = B(cur = m) + B(inode = m) + In(stack', m)
    <3>1. count[m] = B(cur = m) + B(inode = m) + In(stack, m)
      BY <2>2 DEF Balanced
    <3>2. In(stack, m) \in Nat
      BY <1>1, CallsFinite
    <3>. QED
      BY <2>5, <2>6, <3>1, <3>2 DEF B
  <2>. QED
    BY <2>1, <2>7 DEF Balanced, In
<1>. QED
  BY <1>5, <1>6, <1>7

\* The command is the same until it is over.
LEMMA CmdKept ==
  ASSUME Where, [Next]_vars
  PROVE  UNCHANGED <<cmd, tree>> \/ (cmd.op # "catr" /\ cmd' = cmd) \/ Start \/ Forget
<1>1. CASE UNCHANGED vars
  BY <1>1 DEF vars
<1>2. CASE Read \/ cmd_write \/ cmd_owrite \/ cmd_ls \/ Create \/ cmd_rm \/ cmd_checkfs
  <2>1. ASSUME Plainly PROVE UNCHANGED <<cmd, tree>>
    BY <2>1 DEF Plainly, Answers, EndStep, Looks, LookStep, NextWord, Quiet
  <2>. QED
    BY <1>2, <2>1, Reads, Others DEF Quiet
<1>3. CASE Walk \/ WalkEnd \/ CdFound
  <2>1. \A by : Kill(by) => UNCHANGED <<cmd, tree>>
    BY DEF Kill
  <2>. QED
    BY <1>3, <2>1, WalkCases DEF WalkOn, Found, WalkEnd, CdFound, Quiet
<1>4. CASE WriteFound \/ OwriteBeyond \/ Written \/ CreateLookup
  BY <1>4 DEF WriteFound, OwriteBeyond, Kill, Written, CreateLookup, Quiet
<1>5. CASE CreateInode \/ CreateEmptyDir \/ AddDirent
  <2>1. cmd.op # "catr"
    BY <1>5 DEF CreateInode, Looked, CreateEmptyDir, AddDirent, Where, Stage, Walking, AtWalk, ForName,
                ForCatr, ForCommand, Fits, AtFill, AtMade, Making, Creates
  <2>. QED
    BY <1>5, <2>1 DEF CreateInode, CreateEmptyDir, AddDirent
<1>6. CASE Created \/ Undo \/ CreateFailed
  <2>1. cmd.op # "catr"
    BY <1>6 DEF Created, Undo, CreateFailed, Where, Stage, AtSync, AtUndo, AtFailed, AtMade, Making, Creates
  <2>. QED
    BY <1>6, <2>1 DEF Created, Undo, CreateFailed, Kill, Quiet
<1>7. CASE RemoveDirent \/ RemoveInode
  <2>1. cmd.op # "catr" /\ cmd' = cmd
    BY <1>7, RemoveCases DEF AtRemove, AtRm, RemoveInode, Where, Stage, AtRemoved
  <2>. QED
    BY <2>1
<1>8. CASE LsFound \/ LsEntry \/ CheckEntry \/ ListEnd
  BY <1>8 DEF LsFound, LsEntry, CheckEntry, ListEnd, Kill, Quiet
<1>9. CASE cmd_catr \/ CatrFound \/ CatrEntry \/ CatrEnd
  <2>1. \A by : Kill(by) => UNCHANGED <<cmd, tree>>
    BY DEF Kill
  <2>. QED
    BY <1>9, <2>1 DEF cmd_catr, Begin, CatrFound, CatrEntry, CatrEnd, UseFreed, Quiet
<1>10. CASE Exit \/ Leave
  <2>1. \A by : Kill(by) => UNCHANGED <<cmd, tree>>
    BY DEF Kill
  <2>. QED
    BY <1>10, <2>1 DEF Exit, Leave, UseFreed
<1>. QED
  BY <1>1, <1>2, <1>3, <1>4, <1>5, <1>6, <1>7, <1>8, <1>9, <1>10, Zenon DEF Next, Change, Visit

\* A process begins with the root counted once, and its counts end with it.
LEMMA BalancedEnds ==
  ASSUME Where, Balanced, Start \/ Forget
  PROVE  Balanced'
<1>1. CASE Start
  <2>1. /\ pc = "idle" /\ count' = Get(count, Root) /\ cur' = Root
        /\ UNCHANGED <<inode, stack>>
    BY <1>1 DEF Start, Launch
  <2>2. cmd.op = "none" /\ inode = None /\ stack = <<>> /\ cur = None
    BY <2>1 DEF Where, Stage, AtIdle, NoCmd, Plain
  <2>3. count \in [Inodes -> Int]
    BY DEF Where, Typed, TypedCount
  <2>4. \A n \in Inodes : count'[n] = count[n] + B(n = Root)
    BY <2>1, <2>3, Counting
  <2>5. \A n \in Inodes : count[n] = B(None = n) + B(None = n) + In(<<>>, n)
    BY <2>2 DEF Balanced
  <2>6. ASSUME NEW n \in Inodes PROVE count'[n] = B(Root = n) + B(None = n) + In(<<>>, n)
    BY <2>4, <2>5, Nobody, CallsNone DEF B
  <2>. QED
    BY <2>1, <2>2, <2>6 DEF Balanced, In
<1>2. CASE Forget
  <2>1. count' = [n \in Inodes |-> 0] /\ cur' = None /\ inode' = None /\ stack' = <<>>
    BY <1>2 DEF Forget
  <2>2. ASSUME NEW n \in Inodes PROVE count'[n] = B(None = n) + B(None = n) + In(<<>>, n)
    BY <2>1, Nobody, CallsNone
  <2>. QED
    BY <2>1, <2>2 DEF Balanced, In
<1>. QED
  BY <1>1, <1>2

\* Every step of a command other than catr keeps the balance; for catr there is CatrHolds.
LEMMA BalancedNext ==
  ASSUME Where, Balanced, [Next]_vars
  PROVE  Balanced'
<1>1. CASE Start \/ Forget
  BY <1>1, BalancedEnds
<1>2. CASE cmd.op = "catr" /\ cmd' = cmd
  BY <1>2 DEF Balanced
<1>3. CASE cmd.op # "catr" /\ ~Start /\ ~Forget
  <2>0. ASSUME Plainly PROVE Balanced'
    BY <2>0, BalancedKept DEF Plainly, Answers, EndStep, Looks, LookStep, NextWord, Return, Quiet, mem
  <2>k. ASSUME NEW by, Kill(by) PROVE Balanced'
    BY <2>k, BalancedKept DEF Kill, mem
  <2>1. CASE UNCHANGED vars
    BY <2>1, BalancedKept DEF vars, mem
  <2>2. CASE Read \/ cmd_write \/ cmd_owrite \/ Create \/ cmd_rm \/ cmd_ls
    <3>1. CASE Plainly
      BY <2>0, <3>1
    <3>2. CASE ~Plainly
      <4>1. UNCHANGED <<count, cur, inode, stack, cmd>>
        BY <2>2, <3>2, Reads, Others DEF Quiet, mem
      <4>. QED
        BY <4>1, BalancedKept
    <3>. QED
      BY <3>1, <3>2
  <2>3. CASE Walk \/ WalkEnd \/ CdFound
    BY <1>3, <2>3, BalancedWalk
  <2>4. CASE WriteFound \/ Written \/ RemoveDirent \/ RemoveInode
    BY <2>4, BalancedWrite
  <2>5. CASE OwriteBeyond
    BY <2>5, <2>k DEF OwriteBeyond
  <2>6. CASE CreateLookup \/ CreateInode \/ CreateEmptyDir \/ AddDirent \/ Undo \/ Created \/ CreateFailed
    BY <2>6, BalancedCreate
  <2>7. CASE LsFound \/ LsEntry \/ cmd_checkfs \/ CheckEntry \/ ListEnd
    BY <2>7, BalancedList
  <2>8. CASE cmd_catr \/ CatrFound \/ CatrEntry \/ CatrEnd
    <3>1. CASE Plainly
      BY <2>0, <3>1
    <3>2. CASE ~Plainly
      <4>1. cmd.op = "catr"
        BY <2>8, <3>2, AtCatrNow DEF cmd_catr, Runs, CatrFound, Looked, CatrEntry, CatrEnd, AtReading, AtFound
      <4>. QED
        BY <1>3, <4>1
    <3>. QED
      BY <3>1, <3>2
  <2>9. CASE Exit \/ Leave
    <3>1. CASE Leave
      BY <1>3, <3>1 DEF Leave
    <3>2. CASE Exit
      BY <1>3, <2>k, <3>2, ExitCases DEF UseFreed
    <3>. QED
      BY <2>9, <3>1, <3>2
  <2>. QED
    BY <1>3, <2>1, <2>2, <2>3, <2>4, <2>5, <2>6, <2>7, <2>8, <2>9, Zenon DEF Next, Change, Visit
<1>. QED
  BY <1>1, <1>2, <1>3, CmdKept
-----------------------------------------------------------------------------
(* The nested calls of catr: a call has its inode, the child it went into  *)
(* and, as the caller's, the current directory of main.  The child is what *)
(* the next call restores as the current directory.                        *)

Spare(c, s, n) == c[n] - In(s, n) - Cin(s, n) - B(s # <<>> /\ s[1].tmp = n)
Enough(c, s)    == \A n \in Inodes : Spare(c, s, n) >= 0
Linked(s) ==
  /\ \A k \in DOMAIN s : s[k].in # Freed /\ (k < Len(s) => s[k].in # None /\ s[k].cin # None)
  /\ \A k \in DOMAIN s : k + 1 \in DOMAIN s => s[k + 1].tmp = s[k].cin
EndsOpen(s) == s # <<>> => s[Len(s)].cin = None
AwayFrom(c, s, d) ==
  \A n \in Inodes : Spare(c, s, n) + B(s[Len(s)].tmp = n) - B(d = n) >= 0

CatrHolds ==
  cmd.op = "catr" =>
    /\ \A n \in Inodes : count[n] >= 0
    /\ Linked(stack) /\ EndsOpen(stack)
    /\ pc = "handler" => \A n \in Inodes : count[n] = B(Root = n)
    /\ pc = "catr" => stack[Len(stack)].in # None /\ Enough(count, stack)
    /\ Walking => /\ stack[Len(stack)].in = None
                  /\ stack[Len(stack)].tmp \in {walk.from, Freed}
                  /\ AwayFrom(count, stack, cur)

\* The count of an inode is its spare ones and the pointers of the calls to it.
LEMMA SpareType ==
  ASSUME NEW c \in [Inodes -> Int], NEW s \in Seq(Frames), NEW n \in Inodes
  PROVE  /\ Spare(c, s, n) \in Int /\ c[n] \in Int /\ In(s, n) \in Nat /\ Cin(s, n) \in Nat
         /\ c[n] = Spare(c, s, n) + In(s, n) + Cin(s, n) + B(s # <<>> /\ s[1].tmp = n)
<1>1. In(s, n) \in Nat /\ Cin(s, n) \in Nat /\ c[n] \in Int
  BY CallsFinite
<1>2. PICK b : b = B(s # <<>> /\ s[1].tmp = n)
  OBVIOUS
<1>3. b \in Nat
  BY <1>2 DEF B
<1>. QED
  BY <1>1, <1>2, <1>3 DEF Spare

\* While every pointer is counted none becomes one to freed memory.
LEMMA NoneLeft ==
  ASSUME NEW s \in Seq(Frames), NEW c \in [Inodes -> Int], Linked(s), Enough(c, s)
  PROVE  AllLeft(s, c) = s /\ (s # <<>> => Left(s[1].tmp, c) = s[1].tmp)
         /\ \A k \in DOMAIN s : Left(s[k].tmp, c) = s[k].tmp
<1>0. DOMAIN s = 1 .. Len(s) /\ Len(s) \in Nat
  OBVIOUS
<1>1. ASSUME NEW k \in DOMAIN s
      PROVE  Left(s[k].in, c) = s[k].in /\ Left(s[k].cin, c) = s[k].cin
  <2>1. PICK p, q : p = s[k].in /\ q = s[k].cin
    OBVIOUS
  <2>2. In(s, p) > 0 /\ Cin(s, q) > 0
    BY <2>1, CallsSome
  <2>3. p \in Inodes => c[p] > 0
    <3>. SUFFICES ASSUME p \in Inodes PROVE c[p] > 0
      OBVIOUS
    <3>1. Spare(c, s, p) >= 0 /\ B(s # <<>> /\ s[1].tmp = p) \in Nat
      BY DEF Enough, B
    <3>. QED
      BY <2>2, <3>1, SpareType
  <2>4. q \in Inodes => c[q] > 0
    <3>. SUFFICES ASSUME q \in Inodes PROVE c[q] > 0
      OBVIOUS
    <3>1. Spare(c, s, q) >= 0 /\ B(s # <<>> /\ s[1].tmp = q) \in Nat
      BY DEF Enough, B
    <3>. QED
      BY <2>2, <3>1, SpareType
  <2>5. (p \in Inodes => c[p] # 0) /\ (q \in Inodes => c[q] # 0)
    BY <2>3, <2>4
  <2>. QED
    BY <2>1, <2>5 DEF Left
<1>2. ASSUME NEW k \in DOMAIN s PROVE Left(s[k].tmp, c) = s[k].tmp
  <2>1. CASE k = 1
    <3>1. PICK p : p = s[1].tmp
      OBVIOUS
    <3>2. p \in Inodes => c[p] > 0
      <4>. SUFFICES ASSUME p \in Inodes PROVE c[p] > 0
        OBVIOUS
      <4>1. Spare(c, s, p) >= 0
        BY DEF Enough
      <4>2. B(s # <<>> /\ s[1].tmp = p) = 1
        BY <2>1, <3>1 DEF B
      <4>. QED
        BY <4>1, <4>2, SpareType
    <3>3. p \in Inodes => c[p] # 0
      BY <3>2
    <3>. QED
      BY <2>1, <3>1, <3>3 DEF Left
  <2>2. CASE k # 1
    <3>1. PICK j : j = k - 1
      OBVIOUS
    <3>2. j \in DOMAIN s /\ k = j + 1
      BY <1>0, <2>2, <3>1
    <3>3. s[k].tmp = s[j].cin
      BY <3>2 DEF Linked
    <3>. QED
      BY <1>1, <3>2, <3>3
  <2>. QED
    BY <2>1, <2>2
<1>3. PICK t : t = AllLeft(s, c)
  OBVIOUS
<1>4. /\ t \in Seq(Frames) /\ Len(t) = Len(s) /\ DOMAIN t = DOMAIN s
      /\ \A k \in DOMAIN s : t[k] = [fn |-> s[k].fn, in |-> Left(s[k].in, c), cin |-> Left(s[k].cin, c),
                                     tmp |-> Left(s[k].tmp, c), rest |-> s[k].rest]
  BY <1>3, AllLeftType
<1>5. \A k \in DOMAIN s : t[k] = s[k]
  <2>. SUFFICES ASSUME NEW k \in DOMAIN s PROVE t[k] = s[k]
    OBVIOUS
  <2>1. s[k] \in Frames
    OBVIOUS
  <2>2. t[k] = [fn |-> s[k].fn, in |-> s[k].in, cin |-> s[k].cin, tmp |-> s[k].tmp, rest |-> s[k].rest]
    BY <1>1, <1>2, <1>4
  <2>. QED
    BY <2>1, <2>2 DEF Frames
<1>6. t = s
  BY <1>4, <1>5
<1>. QED
  BY <1>0, <1>2, <1>3, <1>6

\* What is counted with one pointer put and another taken is still enough.
LEMMA SpareSum ==
  ASSUME NEW v \in Int, NEW i \in Nat, NEW k \in Nat, NEW b \in Nat, NEW e \in Nat, NEW x \in Nat,
         NEW y \in Nat, NEW m, v + e - y >= 0, m = v + i + k + b + x - y
  PROVE  (e <= k + b => m >= i + x) /\ m - i - k - b + e - x >= 0 /\ m \in Int
OBVIOUS

\* The current directory is replaced: what a call has is not freed, and what was freed is
\* not the current directory's.
LEMMA AwayMove ==
  ASSUME NEW s \in Seq(Frames), s # <<>>, NEW c0 \in [Inodes -> Int], NEW o \in Inodes, NEW d \in Inodes,
         Linked(s), EndsOpen(s), AwayFrom(c0, s, o), NEW c, c = Replace(c0, d, o),
         NEW t, t = AllLeft(s, c)
  PROVE  /\ \A n \in Inodes : c[n] >= 0
         /\ Linked(t) /\ EndsOpen(t) /\ t # <<>> /\ Len(t) = Len(s)
         /\ t[Len(t)].in = s[Len(s)].in /\ t[Len(t)].tmp \in {s[Len(s)].tmp, Freed}
         /\ AwayFrom(c, t, d)
<1>0. DOMAIN s = 1 .. Len(s) /\ Len(s) \in Nat /\ Len(s) > 0 /\ 1 \in DOMAIN s /\ Len(s) \in DOMAIN s
  OBVIOUS
<1>1. c \in [Inodes -> Int] /\ \A n \in Inodes : c[n] = c0[n] + B(n = d) - B(n = o)
  <2>1. PICK g : g = Get(c0, d)
    OBVIOUS
  <2>2. g \in [Inodes -> Int] /\ \A n \in Inodes : g[n] = c0[n] + B(n = d)
    BY <2>1, Counting
  <2>3. c = Put(g, o)
    BY <2>1 DEF Replace
  <2>4. c \in [Inodes -> Int] /\ \A n \in Inodes : c[n] = g[n] - B(n = o)
    BY <2>2, <2>3, Counting
  <2>. QED
    BY <2>2, <2>4 DEF B
<1>2. ASSUME NEW n \in Inodes PROVE B(s[Len(s)].tmp = n) <= Cin(s, n) + B(s # <<>> /\ s[1].tmp = n)
  <2>0. Cin(s, n) \in Nat /\ B(s # <<>> /\ s[1].tmp = n) \in Nat
    BY CallsFinite DEF B
  <2>1. CASE s[Len(s)].tmp # n
    BY <2>0, <2>1 DEF B
  <2>2. CASE s[Len(s)].tmp = n /\ Len(s) = 1
    BY <2>0, <2>2 DEF B
  <2>3. CASE s[Len(s)].tmp = n /\ Len(s) # 1
    <3>1. PICK j : j = Len(s) - 1
      OBVIOUS
    <3>2. j \in DOMAIN s /\ Len(s) = j + 1
      BY <1>0, <2>3, <3>1
    <3>3. s[j].cin = n
      BY <1>0, <2>3, <3>2 DEF Linked
    <3>4. Cin(s, n) > 0
      BY <3>2, <3>3, CallsSome
    <3>. QED
      BY <2>0, <3>4 DEF B
  <2>. QED
    BY <2>1, <2>2, <2>3
<1>3. \A n \in Inodes : /\ c[n] \in Int /\ In(s, n) \in Nat /\ Cin(s, n) \in Nat
                         /\ c[n] >= In(s, n) /\ (d = n => c[n] > In(s, n))
  <2>. SUFFICES ASSUME NEW n \in Inodes
                PROVE  /\ c[n] \in Int /\ In(s, n) \in Nat /\ Cin(s, n) \in Nat
                       /\ c[n] >= In(s, n) /\ (d = n => c[n] > In(s, n))
    OBVIOUS
  <2>1. PICK b, e, x, y : /\ b = B(s # <<>> /\ s[1].tmp = n) /\ e = B(s[Len(s)].tmp = n)
                          /\ x = B(d = n) /\ y = B(o = n)
    OBVIOUS
  <2>2. b \in Nat /\ e \in Nat /\ x \in Nat /\ y \in Nat
    BY <2>1 DEF B
  <2>3. Spare(c0, s, n) + e - y >= 0 /\ e <= Cin(s, n) + b
    BY <1>2, <2>1 DEF AwayFrom
  <2>4. c[n] = c0[n] + x - y
    BY <1>1, <2>1 DEF B
  <2>5. c0[n] = Spare(c0, s, n) + In(s, n) + Cin(s, n) + b /\ Spare(c0, s, n) \in Int /\ In(s, n) \in Nat
        /\ Cin(s, n) \in Nat /\ c0[n] \in Int
    BY <2>1, SpareType
  <2>6. c[n] >= In(s, n) + x
    <3>1. PICK v, i, k : v = Spare(c0, s, n) /\ i = In(s, n) /\ k = Cin(s, n)
      OBVIOUS
    <3>2. v \in Int /\ i \in Nat /\ k \in Nat /\ v + e - y >= 0 /\ e <= k + b
      BY <2>3, <2>5, <3>1
    <3>3. c[n] = v + i + k + b + x - y
      BY <2>2, <2>4, <2>5, <3>1
    <3>4. c[n] >= i + x
      BY <2>2, <3>2, <3>3, SpareSum
    <3>. QED
      BY <3>1, <3>4
  <2>7. d = n => x = 1
    BY <2>1 DEF B
  <2>. QED
    BY <1>1, <2>2, <2>5, <2>6, <2>7
<1>4. /\ t \in Seq(Frames) /\ Len(t) = Len(s) /\ DOMAIN t = DOMAIN s
      /\ \A k \in DOMAIN s : /\ t[k].in = Left(s[k].in, c) /\ t[k].cin = Left(s[k].cin, c)
                             /\ t[k].tmp = Left(s[k].tmp, c)
  <2>1. /\ t \in Seq(Frames) /\ Len(t) = Len(s) /\ DOMAIN t = DOMAIN s
        /\ \A k \in DOMAIN s : t[k] = [fn |-> s[k].fn, in |-> Left(s[k].in, c), cin |-> Left(s[k].cin, c),
                                       tmp |-> Left(s[k].tmp, c), rest |-> s[k].rest]
    BY AllLeftType
  <2>. QED
    BY <2>1
<1>5. \A k \in DOMAIN s : t[k].in = s[k].in
  <2>. SUFFICES ASSUME NEW k \in DOMAIN s PROVE t[k].in = s[k].in
    OBVIOUS
  <2>1. PICK p : p = s[k].in
    OBVIOUS
  <2>2. In(s, p) > 0
    BY <2>1, CallsSome
  <2>3. p \in Inodes => c[p] # 0
    BY <1>3, <2>2
  <2>. QED
    BY <1>4, <2>1, <2>3 DEF Left
<1>6. \A n : In(t, n) = In(s, n)
  BY <1>4, <1>5 DEF In
<1>7. \A p, n : n \in Inodes /\ c[n] # 0 => (Left(p, c) = n <=> p = n)
  BY InodeSet DEF Left
<1>8. \A p, n : n \in Inodes /\ c[n] = 0 => Left(p, c) # n
  BY InodeSet DEF Left
<1>9. \A p : Left(p, c) = None <=> p = None
  BY InodeSet DEF Left
<1>10. Linked(t)
  <2>1. \A k \in DOMAIN t : t[k].in # Freed /\ (k < Len(t) => t[k].in # None /\ t[k].cin # None)
    BY <1>4, <1>5, <1>9 DEF Linked
  <2>2. \A k \in DOMAIN t : k + 1 \in DOMAIN t => t[k + 1].tmp = t[k].cin
    BY <1>4 DEF Linked
  <2>. QED
    BY <2>1, <2>2 DEF Linked
<1>11. EndsOpen(t) /\ t # <<>>
  BY <1>0, <1>4, <1>9 DEF EndsOpen
<1>12. AwayFrom(c, t, d)
  <2>. SUFFICES ASSUME NEW n \in Inodes PROVE Spare(c, t, n) + B(t[Len(t)].tmp = n) - B(d = n) >= 0
    BY DEF AwayFrom
  <2>1. PICK b, e, x, y : /\ b = B(s # <<>> /\ s[1].tmp = n) /\ e = B(s[Len(s)].tmp = n)
                          /\ x = B(d = n) /\ y = B(o = n)
    OBVIOUS
  <2>2. b \in Nat /\ e \in Nat /\ x \in Nat /\ y \in Nat
    BY <2>1 DEF B
  <2>3. PICK b2, e2 : b2 = B(t # <<>> /\ t[1].tmp = n) /\ e2 = B(t[Len(t)].tmp = n)
    OBVIOUS
  <2>4. Spare(c, t, n) = c[n] - In(s, n) - Cin(t, n) - b2
    BY <1>6, <2>3 DEF Spare
  <2>5. CASE c[n] # 0
    <3>1. \A k \in DOMAIN s : (t[k].cin = n <=> s[k].cin = n) /\ (t[k].tmp = n <=> s[k].tmp = n)
      BY <1>4, <1>7, <2>5
    <3>2. Cin(t, n) = Cin(s, n)
      BY <1>4, <3>1 DEF Cin
    <3>3. b2 = b /\ e2 = e
      BY <1>0, <1>4, <1>11, <2>1, <2>3, <3>1 DEF B
    <3>4. Spare(c0, s, n) + e - y >= 0
      BY <2>1 DEF AwayFrom
    <3>5. c[n] = c0[n] + x - y
      BY <1>1, <2>1 DEF B
    <3>6. c0[n] = Spare(c0, s, n) + In(s, n) + Cin(s, n) + b /\ Spare(c0, s, n) \in Int /\ c0[n] \in Int
      BY <2>1, SpareType
    <3>. QED
      <4>1. Spare(c, t, n) = c[n] - In(s, n) - Cin(s, n) - b
        BY <2>4, <3>2, <3>3
      <4>2. In(s, n) \in Nat /\ Cin(s, n) \in Nat
        BY <1>3
      <4>3. Spare(c, t, n) + e - x >= 0
        <5>1. PICK v, i, k : v = Spare(c0, s, n) /\ i = In(s, n) /\ k = Cin(s, n)
          OBVIOUS
        <5>2. v \in Int /\ i \in Nat /\ k \in Nat /\ v + e - y >= 0
          BY <3>4, <3>6, <4>2, <5>1
        <5>3. c[n] = v + i + k + b + x - y
          BY <2>2, <3>5, <3>6, <4>2, <5>1
        <5>4. c[n] - i - k - b + e - x >= 0
          BY <2>2, <5>2, <5>3, SpareSum
        <5>. QED
          BY <4>1, <5>1, <5>4
      <4>. QED
        BY <2>1, <2>3, <3>3, <4>3
  <2>6. CASE c[n] = 0
    <3>1. \A k \in DOMAIN t : t[k].cin # n /\ t[k].tmp # n
      BY <1>4, <1>8, <2>6
    <3>2. Cin(t, n) = 0
      BY <1>4, <3>1, CallsFree
    <3>3. b2 = 0 /\ e2 = 0
      BY <1>0, <1>4, <2>3, <3>1 DEF B
    <3>4. In(s, n) = 0 /\ x = 0
      <4>1. In(s, n) = 0 /\ d # n
        BY <1>3, <2>6
      <4>. QED
        BY <2>1, <4>1 DEF B
    <3>5. Spare(c, t, n) + e2 - x >= 0
      BY <2>4, <2>6, <3>2, <3>3, <3>4
    <3>. QED
      BY <2>1, <2>3, <3>5
  <2>. QED
    BY <2>5, <2>6
<1>13. t[Len(t)].in = s[Len(s)].in /\ t[Len(t)].tmp \in {s[Len(s)].tmp, Freed}
  BY <1>0, <1>4, <1>5 DEF Left
<1>14. \A n \in Inodes : c[n] >= 0
  BY <1>3
<1>. QED
  BY <1>4, <1>10, <1>11, <1>12, <1>13, <1>14

\* Calls that wait for the one they made: each has its inode and its child.
Waits(s) == Linked(s) /\ \A k \in DOMAIN s : s[k].in # None /\ s[k].cin # None

\* The calls below the last one wait for it.
LEMMA FrontWaits ==
  ASSUME NEW s \in Seq(Frames), s # <<>>, Linked(s)
  PROVE  /\ Front(s) \in Seq(Frames) /\ Waits(Front(s)) /\ Len(Front(s)) = Len(s) - 1
         /\ \A k \in DOMAIN Front(s) : Front(s)[k] = s[k] /\ k \in DOMAIN s
<1>1. PICK t : t = Front(s)
  OBVIOUS
<1>2. /\ t \in Seq(Frames) /\ Len(s) \in Nat /\ Len(s) > 0 /\ Len(t) = Len(s) - 1
      /\ \A k \in 1 .. (Len(s) - 1) : t[k] = s[k]
  BY <1>1, StackTop
<1>3. DOMAIN t = 1 .. (Len(s) - 1) /\ DOMAIN s = 1 .. Len(s)
  BY <1>2
<1>4. \A k \in DOMAIN t : t[k] = s[k] /\ k \in DOMAIN s /\ k < Len(s)
  BY <1>2, <1>3
<1>5. \A k \in DOMAIN t : t[k].in # Freed /\ t[k].in # None /\ t[k].cin # None
  BY <1>4 DEF Linked
<1>6. \A k \in DOMAIN t : k + 1 \in DOMAIN t => t[k + 1].tmp = t[k].cin
  BY <1>4 DEF Linked
<1>7. Waits(t)
  BY <1>5, <1>6 DEF Waits, Linked
<1>. QED
  BY <1>1, <1>2, <1>4, <1>7

\* A call that puts its directory and returns takes one count and one pointer, and leaves what is
\* spare.
LEMMA SpareFront ==
  ASSUME NEW s \in Seq(Frames), s # <<>>, EndsOpen(s), NEW c \in [Inodes -> Int], NEW n \in Inodes,
         NEW t, t = Front(s), NEW i, i = s[Len(s)].in, NEW m \in Int, m = c[n] - B(i = n)
  PROVE  m - In(t, n) - Cin(t, n) - B(s # <<>> /\ s[1].tmp = n) = Spare(c, s, n)
<1>1. In(t, n) = In(s, n) - B(i = n) /\ Cin(t, n) = Cin(s, n) - B(s[Len(s)].cin = n)
  BY CallsTop, StackTop
<1>2. B(s[Len(s)].cin = n) = 0
  BY Nobody DEF EndsOpen
<1>3. PICK b, x : b = B(s # <<>> /\ s[1].tmp = n) /\ x = B(i = n)
  OBVIOUS
<1>4. b \in Nat /\ x \in Nat
  BY <1>3 DEF B
<1>5. In(s, n) \in Nat /\ Cin(s, n) \in Nat /\ c[n] \in Int
  BY CallsFinite
<1>6. Cin(t, n) = Cin(s, n) /\ In(t, n) = In(s, n) - x /\ m = c[n] - x
  BY <1>1, <1>2, <1>3, <1>5
<1>7. Spare(c, s, n) = c[n] - In(s, n) - Cin(s, n) - b
  BY <1>3 DEF Spare
<1>8. m - In(t, n) - Cin(t, n) - b = Spare(c, s, n)
  BY <1>4, <1>5, <1>6, <1>7
<1>. QED
  BY <1>3, <1>8

\* The last call has nothing yet and is over.
LEMMA CallsDrop ==
  ASSUME NEW s \in Seq(Frames), Len(s) > 1, Linked(s), EndsOpen(s), s[Len(s)].in = None,
         NEW c \in [Inodes -> Int], NEW t, t = Front(s)
  PROVE  /\ t \in Seq(Frames) /\ t # <<>> /\ Waits(t) /\ Len(t) = Len(s) - 1
         /\ \A k \in DOMAIN t : t[k] = s[k] /\ k \in DOMAIN s
         /\ \A n \in Inodes : Spare(c, t, n) = Spare(c, s, n)
<1>1. s # <<>> /\ Len(s) \in Nat
  OBVIOUS
<1>2. /\ t \in Seq(Frames) /\ Waits(t) /\ Len(t) = Len(s) - 1
      /\ \A k \in DOMAIN t : t[k] = s[k] /\ k \in DOMAIN s
  BY <1>1, FrontWaits
<1>3. t # <<>> /\ t[1] = s[1]
  BY <1>1, <1>2
<1>4. ASSUME NEW n \in Inodes PROVE Spare(c, t, n) = Spare(c, s, n)
  <2>1. PICK m : m = c[n]
    OBVIOUS
  <2>2. m \in Int /\ m = c[n] - B(None = n)
    BY <2>1, Nobody
  <2>3. m - In(t, n) - Cin(t, n) - B(s # <<>> /\ s[1].tmp = n) = Spare(c, s, n)
    BY <1>1, <2>2, SpareFront
  <2>. QED
    BY <1>1, <1>3, <2>1, <2>3 DEF Spare
<1>. QED
  BY <1>2, <1>3, <1>4

\* The last call puts its inode and is over.  Of the first nothing is left but what it kept
\* and what was too much.
Remains(c, c0, s) == \A n \in Inodes : c[n] = Spare(c0, s, n) + B(s[1].tmp = n)

\* A catr that ends leaves its callers with the counts they had when it began; the outermost leaves
\* only those of the directory its walk began in.
LEMMA CallsOver ==
  ASSUME NEW s \in Seq(Frames), s # <<>>, Linked(s), EndsOpen(s), NEW i \in Inodes, i = s[Len(s)].in,
         NEW c0 \in [Inodes -> Int], Enough(c0, s), NEW c, c = Put(c0, i), NEW t, t = Front(s)
  PROVE  /\ t \in Seq(Frames) /\ Waits(t) /\ c \in [Inodes -> Int] /\ Enough(c, t)
         /\ Len(t) = Len(s) - 1 /\ \A k \in DOMAIN t : t[k] = s[k] /\ k \in DOMAIN s
         /\ t # <<>> => \A n \in Inodes : Spare(c, t, n) = Spare(c0, s, n)
         /\ t = <<>> => Remains(c, c0, s)
<1>1. /\ t \in Seq(Frames) /\ Waits(t) /\ Len(t) = Len(s) - 1 /\ Len(s) \in Nat
      /\ \A k \in DOMAIN t : t[k] = s[k] /\ k \in DOMAIN s
  BY FrontWaits
<1>2. c \in [Inodes -> Int] /\ \A n \in Inodes : c[n] = c0[n] - B(n = i)
  BY Counting
<1>3. \A n \in Inodes : c[n] - In(t, n) - Cin(t, n) - B(s # <<>> /\ s[1].tmp = n) = Spare(c0, s, n)
  <2>. SUFFICES ASSUME NEW n \in Inodes
                PROVE  c[n] - In(t, n) - Cin(t, n) - B(s # <<>> /\ s[1].tmp = n) = Spare(c0, s, n)
    OBVIOUS
  <2>1. PICK m : m = c[n]
    OBVIOUS
  <2>2. m \in Int /\ m = c0[n] - B(i = n)
    BY <1>2, <2>1 DEF B
  <2>3. m - In(t, n) - Cin(t, n) - B(s # <<>> /\ s[1].tmp = n) = Spare(c0, s, n)
    BY <2>2, SpareFront
  <2>. QED
    BY <2>1, <2>3
<1>4. t # <<>> => \A n \in Inodes : Spare(c, t, n) = Spare(c0, s, n)
  <2>. SUFFICES ASSUME t # <<>>, NEW n \in Inodes PROVE Spare(c, t, n) = Spare(c0, s, n)
    OBVIOUS
  <2>1. t[1] = s[1]
    BY <1>1
  <2>. QED
    BY <1>3, <2>1 DEF Spare
<1>5. t = <<>> => \A n \in Inodes : /\ c[n] = Spare(c0, s, n) + B(s[1].tmp = n) /\ c[n] >= 0
                                    /\ Spare(c, t, n) = c[n]
  <2>. SUFFICES ASSUME t = <<>>, NEW n \in Inodes
                PROVE  /\ c[n] = Spare(c0, s, n) + B(s[1].tmp = n) /\ c[n] >= 0
                       /\ Spare(c, t, n) = c[n]
    OBVIOUS
  <2>1. In(t, n) = 0 /\ Cin(t, n) = 0
    BY CallsNone
  <2>2. PICK b : b = B(s # <<>> /\ s[1].tmp = n)
    OBVIOUS
  <2>3. b = B(s[1].tmp = n) /\ b \in Nat
    BY <2>2 DEF B
  <2>4. c[n] \in Int /\ c[n] - 0 - 0 - b = Spare(c0, s, n) /\ Spare(c0, s, n) >= 0
    BY <1>2, <1>3, <2>1, <2>2 DEF Enough
  <2>5. c[n] = Spare(c0, s, n) + b /\ c[n] >= 0
    BY <2>3, <2>4
  <2>6. B(t # <<>> /\ t[1].tmp = n) = 0
    BY DEF B
  <2>7. Spare(c, t, n) = c[n]
    BY <2>1, <2>4, <2>6 DEF Spare
  <2>. QED
    BY <2>3, <2>5, <2>7
<1>6. Enough(c, t)
  BY <1>4, <1>5 DEF Enough
<1>7. t = <<>> => Remains(c, c0, s)
  BY <1>5 DEF Remains
<1>. QED
  BY <1>1, <1>2, <1>4, <1>6, <1>7

\* The last call becomes v; a call without its child.
TopIs(t, s, v) == t = Append(Front(s), v)
NoChild(f)     == [f EXCEPT !.cin = None]
Returns(s, c0, i, v, c, t) ==
  i = s[Len(s)].cin /\ i \in Inodes /\ v = NoChild(s[Len(s)]) /\ c = Put(c0, i) /\ TopIs(t, s, v)

\* The caller puts the child it went into.
LEMMA CallsBack ==
  ASSUME NEW s \in Seq(Frames), s # <<>>, Waits(s), NEW c0 \in [Inodes -> Int], Enough(c0, s),
         NEW i, NEW v, NEW c, NEW t, Returns(s, c0, i, v, c, t)
  PROVE  /\ t \in Seq(Frames) /\ t # <<>> /\ Len(t) = Len(s) /\ Linked(t) /\ EndsOpen(t)
         /\ c \in [Inodes -> Int] /\ Enough(c, t)
         /\ t[Len(t)] = v /\ v.in = s[Len(s)].in /\ v.tmp = s[Len(s)].tmp /\ v.in # None
         /\ v.rest = s[Len(s)].rest
         /\ \A k \in DOMAIN s : k < Len(s) => t[k] = s[k]
         /\ \A n \in Inodes : Spare(c, t, n) = Spare(c0, s, n)
<1>0. i \in Inodes /\ i = s[Len(s)].cin /\ v = NoChild(s[Len(s)]) /\ c = Put(c0, i) /\ TopIs(t, s, v)
  BY DEF Returns
<1>. USE <1>0
<1>1. s[Len(s)] \in Frames /\ Len(s) \in DOMAIN s /\ DOMAIN s = 1 .. Len(s) /\ Len(s) \in Nat /\ Len(s) > 0
      /\ Last(s) = s[Len(s)]
  BY StackTop
<1>2. v \in Frames /\ v.in = s[Len(s)].in /\ v.tmp = s[Len(s)].tmp /\ v.cin = None
      /\ v.rest = s[Len(s)].rest
  BY <1>1 DEF Frames, Pointer, NoChild
<1>3. t \in Seq(Frames) /\ Len(t) = Len(s) /\ t # <<>>
  BY <1>2, StackTop DEF TopIs
<1>a. \A k \in 1 .. Len(s) : t[k] = IF k = Len(s) THEN v ELSE s[k]
  BY <1>2, StackTop DEF TopIs
<1>4. v.in # None /\ v.in # Freed
  BY <1>1, <1>2 DEF Waits, Linked
<1>5. DOMAIN t = DOMAIN s /\ t[Len(t)] = v
  <2>1. DOMAIN t = 1 .. Len(t)
    BY <1>3
  <2>2. Len(s) \in 1 .. Len(s)
    BY <1>1
  <2>. QED
    BY <1>a, <1>1, <1>3, <2>1, <2>2
<1>6. Linked(t)
  <2>1. ASSUME NEW k \in DOMAIN t
        PROVE  t[k].in # Freed /\ (k < Len(t) => t[k].in # None /\ t[k].cin # None)
    <3>1. CASE k = Len(s)
      BY <1>1, <1>3, <1>4, <1>5, <3>1
    <3>2. CASE k # Len(s)
      <4>1. t[k] = s[k] /\ k \in DOMAIN s
        BY <1>a, <1>1, <1>5, <3>2
      <4>. QED
        BY <4>1 DEF Waits, Linked
    <3>. QED
      BY <3>1, <3>2
  <2>2. ASSUME NEW k \in DOMAIN t, k + 1 \in DOMAIN t PROVE t[k + 1].tmp = t[k].cin
    <3>1. k \in 1 .. Len(s) /\ k + 1 \in 1 .. Len(s) /\ k # Len(s)
      BY <1>1, <1>5, <2>2
    <3>2. t[k + 1].tmp = s[k + 1].tmp /\ t[k] = s[k]
      BY <1>2, <1>a, <3>1
    <3>. QED
      BY <1>1, <3>1, <3>2 DEF Waits, Linked
  <2>. QED
    BY <2>1, <2>2 DEF Linked
<1>7. c \in [Inodes -> Int] /\ \A n \in Inodes : c[n] = c0[n] - B(n = i)
  BY Counting
<1>8. ASSUME NEW n \in Inodes PROVE Spare(c, t, n) = Spare(c0, s, n)
  <2>1. PICK f : f = Front(s)
    OBVIOUS
  <2>2. f \in Seq(Frames) /\ In(f, n) = In(s, n) - B(v.in = n) /\ Cin(f, n) = Cin(s, n) - B(i = n)
    <3>1. Last(s).in = v.in /\ Last(s).cin = i
      BY <1>1, <1>2
    <3>2. In(f, n) = In(s, n) - B(Last(s).in = n) /\ Cin(f, n) = Cin(s, n) - B(Last(s).cin = n)
      BY <2>1, CallsTop
    <3>3. f \in Seq(Frames)
      BY <2>1, StackTop
    <3>. QED
      BY <3>1, <3>2, <3>3, Zenon
  <2>3. In(t, n) = In(f, n) + B(v.in = n) /\ Cin(t, n) = Cin(f, n) + B(None = n)
    <3>1. t = Append(f, v)
      BY <2>1 DEF TopIs
    <3>2. In(Append(f, v), n) = In(f, n) + B(v.in = n) /\ Cin(Append(f, v), n) = Cin(f, n) + B(v.cin = n)
      BY <1>2, <2>2, CallsMore
    <3>. QED
      BY <1>2, <3>1, <3>2, Zenon
  <2>4. PICK x, y : x = B(i = n) /\ y = B(v.in = n)
    OBVIOUS
  <2>5. x \in Nat /\ y \in Nat /\ B(None = n) = 0 /\ B(n = i) = x
    BY <2>4, Nobody DEF B
  <2>6. In(s, n) \in Nat /\ Cin(s, n) \in Nat /\ c0[n] \in Int
    BY CallsFinite
  <2>7. In(t, n) = In(s, n) /\ Cin(t, n) = Cin(s, n) - x
    <3>1. /\ In(f, n) = In(s, n) - y /\ Cin(f, n) = Cin(s, n) - x
          /\ In(t, n) = In(f, n) + y /\ Cin(t, n) = Cin(f, n) + 0
      BY <2>2, <2>3, <2>4, <2>5, Zenon
    <3>. QED
      BY <2>5, <2>6, <3>1
  <2>8. B(t # <<>> /\ t[1].tmp = n) = B(s # <<>> /\ s[1].tmp = n)
    <3>1. t[1] = IF 1 = Len(s) THEN v ELSE s[1]
      <4>1. 1 \in 1 .. Len(s)
        BY <1>1
      <4>. QED
        BY <1>a, <4>1, Zenon
    <3>2. t[1].tmp = s[1].tmp
      <4>1. PICK l : l = Len(s)
        OBVIOUS
      <4>2. v.tmp = s[l].tmp /\ t[1] = IF 1 = l THEN v ELSE s[1]
        BY <1>2, <3>1, <4>1
      <4>. QED
        BY <4>2, Zenon
    <3>3. t # <<>> /\ s # <<>>
      BY <1>3
    <3>. QED
      BY <3>2, <3>3, Zenon DEF B
  <2>9. PICK b : b = B(s # <<>> /\ s[1].tmp = n)
    OBVIOUS
  <2>10. Spare(c, t, n) = c[n] - In(s, n) - (Cin(s, n) - x) - b
    BY <2>7, <2>8, <2>9 DEF Spare
  <2>11. Spare(c0, s, n) = c0[n] - In(s, n) - Cin(s, n) - b
    BY <2>9 DEF Spare
  <2>12. b \in Nat /\ c[n] = c0[n] - x
    BY <1>7, <2>5, <2>9 DEF B
  <2>. QED
    BY <2>5, <2>6, <2>10, <2>11, <2>12
<1>9. Enough(c, t)
  BY <1>8 DEF Enough
<1>10. EndsOpen(t)
  BY <1>2, <1>5 DEF EndsOpen
<1>11. \A k \in DOMAIN s : k < Len(s) => t[k] = s[k]
  <2>. SUFFICES ASSUME NEW k \in DOMAIN s, k < Len(s) PROVE t[k] = s[k]
    OBVIOUS
  <2>1. k \in 1 .. Len(s) /\ k # Len(s)
    BY <1>1
  <2>. QED
    BY <1>a, <2>1, Zenon
<1>. QED
  <2>1. t \in Seq(Frames) /\ t # <<>> /\ Len(t) = Len(s)
    BY <1>3
  <2>. QED
    BY <2>1, <1>2, <1>4, <1>5, <1>6, <1>7, <1>8, <1>9, <1>10, <1>11, Zenon

\* A call that is over leaves enough to the calls below it, and the one it returns to goes on.
LEMMA CatrBacks ==
  ASSUME NEW s \in Seq(Frames), Waits(s), NEW c \in [Inodes -> Int], Enough(c, s), NEW d,
         CatrBack(AllLeft(s, c), c, d), ~CatrKilled(AllLeft(s, c))
  PROVE  /\ s = <<>> => count' = c /\ stack' = <<>> /\ pc' = "exit" /\ cur' = Left(d, c)
         /\ s # <<>> =>
              /\ pc' = "catr" /\ stack' # <<>> /\ stack' \in Seq(Frames)
              /\ Len(stack') = Len(s) /\ ret' = ret
              /\ count' \in [Inodes -> Int] /\ Linked(stack') /\ EndsOpen(stack') /\ Enough(count', stack')
              /\ stack'[Len(stack')].in = s[Len(s)].in /\ stack'[Len(stack')].in # None
              /\ stack'[Len(stack')].tmp = s[Len(s)].tmp /\ cur' = s[Len(s)].tmp
              /\ stack'[Len(stack')].rest = s[Len(s)].rest
              /\ \A k \in DOMAIN s : k < Len(s) => stack'[k] = s[k]
              /\ \A n \in Inodes : Spare(count', stack', n) = Spare(c, s, n)
<1>1. AllLeft(s, c) = s
  BY NoneLeft DEF Waits
<1>2. CatrBack(s, c, d) /\ ~CatrKilled(s)
  BY <1>1
<1>3. CASE s = <<>>
  BY <1>2, <1>3 DEF CatrBack, Return
<1>4. CASE s # <<>>
  <2>1. PICK i, v, c2, t : /\ i = s[Len(s)].cin /\ v = NoChild(s[Len(s)]) /\ c2 = Put(c, i)
                           /\ TopIs(t, s, v)
    BY DEF TopIs
  <2>2. Last(s) = s[Len(s)] /\ s[Len(s)] \in Frames /\ Len(s) \in DOMAIN s
    BY <1>4, StackTop
  <2>3. i \in Inodes
    BY <1>2, <1>4, <2>1, <2>2 DEF CatrKilled, Waits, Frames, Pointer
  <2>4. /\ t \in Seq(Frames) /\ t # <<>> /\ Len(t) = Len(s) /\ Linked(t) /\ EndsOpen(t)
        /\ c2 \in [Inodes -> Int] /\ Enough(c2, t)
        /\ t[Len(t)] = v /\ v.in = s[Len(s)].in /\ v.tmp = s[Len(s)].tmp /\ v.in # None
        /\ v.rest = s[Len(s)].rest
        /\ \A k \in DOMAIN s : k < Len(s) => t[k] = s[k]
        /\ \A n \in Inodes : Spare(c2, t, n) = Spare(c, s, n)
    <3>1. Returns(s, c, i, v, c2, t)
      BY <2>1, <2>3 DEF Returns
    <3>. QED
      BY <1>4, <3>1, CallsBack
  <2>5. AllLeft(t, c2) = t /\ Left(v.tmp, c2) = v.tmp
    <3>1. Len(t) \in DOMAIN t
      BY <2>4
    <3>. QED
      BY <2>4, <3>1, NoneLeft
  <2>6. v \in Frames
    BY <2>1, <2>2 DEF NoChild, Frames, Pointer
  <2>7. t = Front(s) \o <<v>>
    <3>1. Front(s) \o <<v>> = Append(Front(s), v)
      BY <1>4, <2>6, StackTop
    <3>. QED
      BY <2>1, <3>1, Zenon DEF TopIs
  <2>8. /\ count' = c2 /\ cur' = Left(s[Len(s)].tmp, c2) /\ stack' = AllLeft(t, c2)
        /\ pc' = "catr" /\ ret' = ret
    BY <1>2, <1>4, <2>1, <2>2, <2>7 DEF CatrBack, NoChild
  <2>9. stack' = t /\ cur' = v.tmp
    BY <2>4, <2>5, <2>8
  <2>. QED
    BY <1>4, <2>4, <2>8, <2>9
<1>. QED
  BY <1>3, <1>4

\* catr of the whole tree takes no inode twice, and leaves none without a pointer.
LEMMA CatrHoldsInit == Init => CatrHolds
BY DEF Init, CatrHolds, NoCmd

\* Steps outside of catr and its walk keep what catr holds.
LEMMA CatrHoldsKept ==
  ASSUME CatrHolds, UNCHANGED <<count, stack, cmd>>, pc' \notin {"handler", "catr", "walk", "walked", "looked"}
  PROVE  CatrHolds'
<1>. SUFFICES ASSUME cmd.op = "catr" PROVE CatrHolds'
  BY DEF CatrHolds
<1>1. PICK s, c : s = stack /\ c = count
  OBVIOUS
<1>2. Linked(s) /\ EndsOpen(s) /\ \A n \in Inodes : c[n] >= 0
  BY <1>1 DEF CatrHolds
<1>3. stack' = s /\ count' = c
  BY <1>1
<1>4. (Linked(stack) /\ EndsOpen(stack) /\ \A n \in Inodes : count[n] >= 0)'
  BY <1>2, <1>3 DEF Linked, EndsOpen
<1>. QED
  BY <1>4 DEF CatrHolds, Walking

\* What holds in all steps to a call that goes on, and to a walk.
LEMMA CatrHoldsReads ==
  ASSUME NEW s \in Seq(Frames), s # <<>>, NEW c \in [Inodes -> Int], stack' = s, count' = c,
         Linked(s), EndsOpen(s), s[Len(s)].in # None, Enough(c, s), pc' = "catr"
  PROVE  CatrHolds'
<1>1. \A n \in Inodes : c[n] >= 0
  <2>. SUFFICES ASSUME NEW n \in Inodes PROVE c[n] >= 0
    OBVIOUS
  <2>1. Spare(c, s, n) >= 0 /\ B(s # <<>> /\ s[1].tmp = n) \in Nat
    BY DEF Enough, B
  <2>. QED
    BY <2>1, SpareType
<1>2. (Linked(stack) /\ EndsOpen(stack))'
  BY DEF Linked, EndsOpen
<1>3. Enough(count, stack)'
  BY DEF Enough, Spare, In, Cin
<1>. QED
  BY <1>1, <1>2, <1>3 DEF CatrHolds, Walking

\* What has to be shown of a step of the walk of catr.
LEMMA CatrHoldsWalks ==
  ASSUME NEW s \in Seq(Frames), s # <<>>, NEW c \in [Inodes -> Int], stack' = s, count' = c,
         Linked(s), EndsOpen(s), s[Len(s)].in = None, \A n \in Inodes : c[n] >= 0,
         NEW o, walk'.from = o, s[Len(s)].tmp \in {o, Freed}, NEW d, cur' = d, AwayFrom(c, s, d),
         pc' \in {"walk", "walked", "looked"}
  PROVE  CatrHolds'
<1>1. (Linked(stack) /\ EndsOpen(stack))'
  BY DEF Linked, EndsOpen
<1>2. AwayFrom(count, stack, cur)'
  BY DEF AwayFrom, Spare, In, Cin
<1>3. stack'[Len(stack')].in = None /\ stack'[Len(stack')].tmp \in {walk'.from, Freed}
  OBVIOUS
<1>. QED
  BY <1>1, <1>2, <1>3 DEF CatrHolds, Walking

\* The last call goes on as f.
LEMMA TopTurns ==
  ASSUME NEW s \in Seq(Frames), s # <<>>, Linked(s), NEW f \in Frames, f.tmp = s[Len(s)].tmp, f.in # Freed,
         NEW t, TopIs(t, s, f)
  PROVE  /\ t \in Seq(Frames) /\ t # <<>> /\ Len(t) = Len(s) /\ t[Len(t)] = f /\ Linked(t)
         /\ t[1].tmp = s[1].tmp /\ \A k \in DOMAIN s : k < Len(s) => t[k] = s[k]
         /\ \A n : In(t, n) = In(s, n) - B(s[Len(s)].in = n) + B(f.in = n)
         /\ \A n : Cin(t, n) = Cin(s, n) - B(s[Len(s)].cin = n) + B(f.cin = n)
<1>1. s[Len(s)] \in Frames /\ Len(s) \in DOMAIN s /\ DOMAIN s = 1 .. Len(s) /\ Len(s) \in Nat /\ Len(s) > 0
      /\ Last(s) = s[Len(s)]
  BY StackTop
<1>2. t \in Seq(Frames) /\ Len(t) = Len(s) /\ t # <<>>
  BY StackTop DEF TopIs
<1>3. \A k \in 1 .. Len(s) : t[k] = IF k = Len(s) THEN f ELSE s[k]
  BY StackTop DEF TopIs
<1>4. DOMAIN t = DOMAIN s /\ t[Len(t)] = f
  <2>1. DOMAIN t = 1 .. Len(t)
    BY <1>2
  <2>2. Len(s) \in 1 .. Len(s)
    BY <1>1
  <2>. QED
    BY <1>3, <1>1, <1>2, <2>1, <2>2
<1>5. \A k \in DOMAIN s : k < Len(s) => t[k] = s[k]
  <2>. SUFFICES ASSUME NEW k \in DOMAIN s, k < Len(s) PROVE t[k] = s[k]
    OBVIOUS
  <2>1. k \in 1 .. Len(s) /\ k # Len(s)
    BY <1>1
  <2>. QED
    BY <1>3, <2>1, Zenon
<1>6. Linked(t)
  <2>1. ASSUME NEW k \in DOMAIN t
        PROVE  t[k].in # Freed /\ (k < Len(t) => t[k].in # None /\ t[k].cin # None)
    <3>1. CASE k = Len(s)
      BY <1>1, <1>2, <1>4, <3>1
    <3>2. CASE k # Len(s)
      <4>1. k \in 1 .. Len(s) /\ k \in DOMAIN s
        BY <1>1, <1>4
      <4>2. t[k] = s[k]
        BY <1>3, <3>2, <4>1, Zenon
      <4>. QED
        BY <1>2, <4>1, <4>2 DEF Linked
    <3>. QED
      BY <3>1, <3>2
  <2>2. ASSUME NEW k \in DOMAIN t, k + 1 \in DOMAIN t PROVE t[k + 1].tmp = t[k].cin
    <3>1. k \in 1 .. Len(s) /\ k + 1 \in 1 .. Len(s) /\ k # Len(s)
      BY <1>1, <1>4, <2>2
    <3>2. t[k] = s[k] /\ t[k + 1] = IF k + 1 = Len(s) THEN f ELSE s[k + 1]
      BY <1>3, <3>1, Zenon
    <3>3. t[k + 1].tmp = s[k + 1].tmp
      BY <3>2
    <3>. QED
      BY <1>1, <3>1, <3>2, <3>3 DEF Linked
  <2>. QED
    BY <2>1, <2>2 DEF Linked
<1>7. t[1].tmp = s[1].tmp
  <2>1. 1 \in 1 .. Len(s)
    BY <1>1
  <2>2. t[1] = IF 1 = Len(s) THEN f ELSE s[1]
    BY <1>3, <2>1, Zenon
  <2>. QED
    BY <2>2
<1>8. ASSUME NEW n
      PROVE  /\ In(t, n) = In(s, n) - B(s[Len(s)].in = n) + B(f.in = n)
             /\ Cin(t, n) = Cin(s, n) - B(s[Len(s)].cin = n) + B(f.cin = n)
  <2>1. PICK q : q = Front(s)
    OBVIOUS
  <2>2. In(q, n) = In(s, n) - B(Last(s).in = n) /\ Cin(q, n) = Cin(s, n) - B(Last(s).cin = n)
    BY <2>1, CallsTop
  <2>3. q \in Seq(Frames)
    BY <2>1, StackTop
  <2>4. In(Append(q, f), n) = In(q, n) + B(f.in = n) /\ Cin(Append(q, f), n) = Cin(q, n) + B(f.cin = n)
    BY <2>3, CallsMore
  <2>5. t = Append(q, f)
    BY <2>1 DEF TopIs
  <2>. QED
    BY <1>1, <2>2, <2>4, <2>5, Zenon
<1>. QED
  BY <1>2, <1>4, <1>5, <1>6, <1>7, <1>8, Zenon

\* What is to spare of a stack that is as deep and has as much.
LEMMA SpareTurns ==
  ASSUME NEW s \in Seq(Frames), s # <<>>, Linked(s), NEW f \in Frames, f.tmp = s[Len(s)].tmp, f.in # Freed,
         NEW t, TopIs(t, s, f), NEW c \in [Inodes -> Int], NEW n \in Inodes
  PROVE  Spare(c, t, n) = Spare(c, s, n) + B(s[Len(s)].in = n) - B(f.in = n)
                                         + B(s[Len(s)].cin = n) - B(f.cin = n)
<1>1. PICK b, x, y, z, w : /\ b = B(s # <<>> /\ s[1].tmp = n) /\ x = B(s[Len(s)].in = n) /\ y = B(f.in = n)
                           /\ z = B(s[Len(s)].cin = n) /\ w = B(f.cin = n)
  OBVIOUS
<1>2. b \in Nat /\ x \in Nat /\ y \in Nat /\ z \in Nat /\ w \in Nat
  BY <1>1 DEF B
<1>3. In(s, n) \in Nat /\ Cin(s, n) \in Nat /\ c[n] \in Int
  BY CallsFinite
<1>4. /\ In(t, n) = In(s, n) - x + y /\ Cin(t, n) = Cin(s, n) - z + w
      /\ t # <<>> /\ t[1].tmp = s[1].tmp
  BY <1>1, TopTurns
<1>5. B(t # <<>> /\ t[1].tmp = n) = b
  BY <1>1, <1>4 DEF B
<1>6. Spare(c, t, n) = c[n] - (In(s, n) - x + y) - (Cin(s, n) - z + w) - b
  BY <1>4, <1>5, Zenon DEF Spare
<1>7. Spare(c, s, n) = c[n] - In(s, n) - Cin(s, n) - b
  BY <1>1 DEF Spare
<1>8. Spare(c, t, n) = Spare(c, s, n) + x - y + z - w
  BY <1>2, <1>3, <1>6, <1>7, SMTT(30)
<1>. QED
  BY <1>1, <1>8

\* At the end of a walk the current directory is the one the call began with, or none of
\* the calls' any more: nothing is missing.
LEMMA CatrFoundHolds ==
  ASSUME Where, CatrHolds, AtFound
  PROVE  /\ AtReading /\ stack # <<>> /\ stack \in Seq(Frames) /\ count \in [Inodes -> Int]
         /\ Linked(stack) /\ EndsOpen(stack) /\ stack[Len(stack)].in = None
         /\ stack[Len(stack)].tmp \in {cur, Freed} /\ cur \in Inodes /\ Enough(count, stack)
<1>1. AtReading /\ stack # <<>> /\ stack \in Seq(Frames) /\ cur = walk.from /\ cur \in Inodes
  BY AtCatrNow
<1>2. count \in [Inodes -> Int]
  BY DEF Where, Typed, TypedCount
<1>3. cmd.op = "catr" /\ Walking
  BY <1>1 DEF AtReading, AtFound, Walking
<1>4. /\ Linked(stack) /\ EndsOpen(stack) /\ stack[Len(stack)].in = None
      /\ stack[Len(stack)].tmp \in {cur, Freed} /\ AwayFrom(count, stack, cur)
  BY <1>1, <1>3 DEF CatrHolds
<1>5. ASSUME NEW n \in Inodes PROVE Spare(count, stack, n) >= 0
  <2>1. PICK e, y : e = B(stack[Len(stack)].tmp = n) /\ y = B(cur = n)
    OBVIOUS
  <2>2. Spare(count, stack, n) + e - y >= 0 /\ Spare(count, stack, n) \in Int
    BY <1>1, <1>2, <1>4, <2>1, SpareType DEF AwayFrom
  <2>3. e <= y /\ e \in Nat /\ y \in Nat
    <3>1. stack[Len(stack)].tmp = cur => e = y
      BY <2>1, Zenon
    <3>2. stack[Len(stack)].tmp = Freed => e = 0
      BY <2>1, Nobody, Zenon
    <3>3. e \in {0, 1} /\ y \in {0, 1}
      BY <2>1 DEF B
    <3>. QED
      BY <1>4, <3>1, <3>2, <3>3
  <2>4. PICK v : v = Spare(count, stack, n)
    OBVIOUS
  <2>5. v >= 0
    BY <2>2, <2>3, <2>4
  <2>. QED
    BY <2>4, <2>5
<1>. QED
  BY <1>1, <1>2, <1>4, <1>5 DEF Enough

\* The directory that was looked up is the last call's.
LEMMA CatrHasEffect ==
  ASSUME Where, CatrHolds, CatrHas
  PROVE  /\ stack' \in Seq(Frames) /\ stack' # <<>> /\ Len(stack') = Len(stack) /\ count' \in [Inodes -> Int]
         /\ Linked(stack') /\ EndsOpen(stack') /\ Enough(count', stack')
         /\ stack'[Len(stack')].in = ret /\ stack'[Len(stack')].tmp = stack[Len(stack)].tmp
         /\ stack'[Len(stack')].in # None /\ \A k \in DOMAIN stack : k < Len(stack) => stack'[k] = stack[k]
         /\ \A n \in Inodes : Spare(count', stack', n) = Spare(count, stack, n)
         /\ stack'[Len(stack')].rest = Real(ret)
<1>0. /\ AtFound /\ ret \in Inodes /\ count' = Get(count, ret)
      /\ stack' = Front(stack) \o <<[Top EXCEPT !.in = ret, !.rest = Real(ret)]>>
  BY DEF CatrHas
<1>1. /\ stack # <<>> /\ stack \in Seq(Frames) /\ count \in [Inodes -> Int]
      /\ Linked(stack) /\ EndsOpen(stack) /\ stack[Len(stack)].in = None /\ Enough(count, stack)
  BY <1>0, CatrFoundHolds
<1>2. PICK s, c0, r : s = stack /\ c0 = count /\ r = ret
  OBVIOUS
<1>3. /\ s # <<>> /\ s \in Seq(Frames) /\ c0 \in [Inodes -> Int] /\ r \in Inodes
      /\ Linked(s) /\ EndsOpen(s) /\ s[Len(s)].in = None /\ Enough(c0, s)
  BY <1>0, <1>1, <1>2
<1>4. s[Len(s)] \in Frames /\ Last(s) = s[Len(s)]
  BY <1>3, StackTop
<1>5. Real(r) \in SUBSET Entries
  BY <1>3, RealType DEF Where, Typed
<1>6. PICK f : f = [s[Len(s)] EXCEPT !.in = r, !.rest = Real(r)]
  OBVIOUS
<1>7. f \in Frames /\ f.in = r /\ f.tmp = s[Len(s)].tmp /\ f.cin = s[Len(s)].cin /\ f.rest = Real(r)
  BY <1>3, <1>4, <1>5, <1>6 DEF Frames, Pointer
<1>8. r # Freed /\ r # None
  BY <1>3, InodeSet
<1>9. PICK t : TopIs(t, s, f)
  BY DEF TopIs
<1>10. stack' = t
  <2>1. stack' = Front(s) \o <<f>>
    BY <1>0, <1>2, <1>4, <1>6 DEF Top
  <2>2. Front(s) \o <<f>> = Append(Front(s), f)
    BY <1>3, <1>7, StackTop
  <2>. QED
    BY <1>9, <2>1, <2>2 DEF TopIs
<1>11. /\ t \in Seq(Frames) /\ t # <<>> /\ Len(t) = Len(s) /\ t[Len(t)] = f /\ Linked(t)
       /\ \A k \in DOMAIN s : k < Len(s) => t[k] = s[k]
  BY <1>3, <1>7, <1>8, <1>9, TopTurns
<1>12. PICK c : c = Get(c0, r)
  OBVIOUS
<1>13. c \in [Inodes -> Int] /\ \A n \in Inodes : c[n] = c0[n] + B(n = r)
  BY <1>3, <1>12, Counting
<1>14. ASSUME NEW n \in Inodes PROVE Spare(c, t, n) = Spare(c0, s, n)
  <2>1. PICK x, w : x = B(r = n) /\ w = B(s[Len(s)].cin = n)
    OBVIOUS
  <2>2. x \in Nat /\ w \in Nat /\ B(n = r) = x /\ B(None = n) = 0
    BY <2>1, Nobody DEF B
  <2>3. /\ Spare(c, t, n) = Spare(c, s, n) + B(s[Len(s)].in = n) - B(f.in = n)
                                         + B(s[Len(s)].cin = n) - B(f.cin = n)
    BY <1>3, <1>7, <1>8, <1>9, <1>13, SpareTurns
  <2>4. Spare(c, t, n) = Spare(c, s, n) + 0 - x + w - w
    BY <1>3, <1>7, <2>1, <2>2, <2>3, Zenon
  <2>5. PICK b : b = B(s # <<>> /\ s[1].tmp = n)
    OBVIOUS
  <2>6. Spare(c, s, n) = c[n] - In(s, n) - Cin(s, n) - b /\ Spare(c0, s, n) = c0[n] - In(s, n) - Cin(s, n) - b
    BY <2>5 DEF Spare
  <2>7. In(s, n) \in Nat /\ Cin(s, n) \in Nat /\ c0[n] \in Int /\ b \in Nat
    BY <1>3, <2>5, CallsFinite DEF B
  <2>8. c[n] = c0[n] + x
    BY <1>13, <2>2
  <2>. QED
    BY <2>2, <2>4, <2>6, <2>7, <2>8
<1>15. EndsOpen(t) /\ Enough(c, t)
  BY <1>3, <1>7, <1>11, <1>14 DEF EndsOpen, Enough
<1>16. count' = c
  BY <1>0, <1>2, <1>12
<1>. QED
  BY <1>2, <1>7, <1>8, <1>10, <1>11, <1>13, <1>14, <1>15, <1>16

\* A call that reads its directory.
LEMMA CatrReadHolds ==
  ASSUME Where, CatrHolds, pc = "catr"
  PROVE  /\ AtReading /\ stack # <<>> /\ stack \in Seq(Frames) /\ count \in [Inodes -> Int]
         /\ Linked(stack) /\ EndsOpen(stack) /\ Enough(count, stack)
         /\ stack[Len(stack)].in \in Inodes /\ stack[Len(stack)].cin = None
         /\ stack[Len(stack)] \in Frames /\ Top = stack[Len(stack)] /\ Len(stack) \in DOMAIN stack
<1>1. AtReading /\ stack # <<>> /\ stack \in Seq(Frames)
  BY AtCatrNow
<1>2. count \in [Inodes -> Int]
  BY DEF Where, Typed, TypedCount
<1>3. Linked(stack) /\ EndsOpen(stack) /\ Enough(count, stack) /\ stack[Len(stack)].in # None
  BY <1>1 DEF AtReading, CatrHolds
<1>4. stack[Len(stack)] \in Frames /\ Len(stack) \in DOMAIN stack /\ Top = stack[Len(stack)]
  BY <1>1, StackTop DEF Top
<1>5. stack[Len(stack)].in # Freed /\ stack[Len(stack)].cin = None
  BY <1>1, <1>3, <1>4 DEF Linked, EndsOpen
<1>6. stack[Len(stack)].in \in Inodes
  BY <1>3, <1>4, <1>5 DEF Frames, Pointer
<1>. QED
  BY <1>1, <1>2, <1>3, <1>4, <1>5, <1>6

\* An entry passed over changes nothing but what is left to visit.
LEMMA CatrSkipEffect ==
  ASSUME Where, CatrHolds, NEW e, CatrSkip(e)
  PROVE  /\ stack' \in Seq(Frames) /\ stack' # <<>> /\ Len(stack') = Len(stack) /\ count' = count
         /\ Linked(stack') /\ EndsOpen(stack') /\ Enough(count, stack')
         /\ stack'[Len(stack')].in = stack[Len(stack)].in /\ stack'[Len(stack')].tmp = stack[Len(stack)].tmp
         /\ stack'[Len(stack')].in # None /\ \A k \in DOMAIN stack : k < Len(stack) => stack'[k] = stack[k]
         /\ \A n \in Inodes : Spare(count, stack', n) = Spare(count, stack, n)
         /\ stack'[Len(stack')].rest = stack[Len(stack)].rest \ {e}
<1>1. /\ pc = "catr" /\ stack' = Front(stack) \o <<Visited(e)>> /\ count' = count
  BY DEF CatrSkip
<1>2. PICK s, c : s = stack /\ c = count
  OBVIOUS
<1>3. /\ s # <<>> /\ s \in Seq(Frames) /\ c \in [Inodes -> Int] /\ Linked(s) /\ EndsOpen(s) /\ Enough(c, s)
      /\ s[Len(s)].in \in Inodes /\ s[Len(s)].cin = None /\ s[Len(s)] \in Frames
  BY <1>1, <1>2, CatrReadHolds
<1>4. PICK f : f = Visited(e)
  OBVIOUS
<1>5. f \in Frames /\ f.in = s[Len(s)].in /\ f.tmp = s[Len(s)].tmp /\ f.cin = s[Len(s)].cin
      /\ f.rest = s[Len(s)].rest \ {e}
  <2>1. /\ f \in Frames /\ f.in = Top.in /\ f.cin = Top.cin /\ f.tmp = Top.tmp
        /\ f.rest = Top.rest \ {e} /\ Top = stack[Len(stack)]
    BY <1>2, <1>3, <1>4, VisitedType, Zenon
  <2>. QED
    BY <1>2, <2>1
<1>6. PICK t : TopIs(t, s, f)
  BY DEF TopIs
<1>7. stack' = t
  BY <1>1, <1>2, <1>3, <1>4, <1>5, <1>6, StackTop DEF TopIs
<1>8. f.in # Freed /\ f.in # None
  BY <1>3, <1>5, InodeSet
<1>9. /\ t \in Seq(Frames) /\ t # <<>> /\ Len(t) = Len(s) /\ t[Len(t)] = f /\ Linked(t)
      /\ \A k \in DOMAIN s : k < Len(s) => t[k] = s[k]
  BY <1>3, <1>5, <1>6, <1>8, TopTurns
<1>10. ASSUME NEW n \in Inodes PROVE Spare(c, t, n) = Spare(c, s, n)
  <2>1. PICK x, w : x = B(f.in = n) /\ w = B(f.cin = n)
    OBVIOUS
  <2>2. /\ Spare(c, t, n) = Spare(c, s, n) + B(s[Len(s)].in = n) - B(f.in = n)
                                         + B(s[Len(s)].cin = n) - B(f.cin = n)
    BY <1>3, <1>5, <1>6, <1>8, SpareTurns
  <2>3. Spare(c, t, n) = Spare(c, s, n) + x - x + w - w
    BY <1>5, <2>1, <2>2, Zenon
  <2>4. Spare(c, s, n) \in Int /\ x \in Nat /\ w \in Nat
    BY <1>3, <2>1, SpareType DEF B
  <2>. QED
    BY <2>3, <2>4
<1>11. EndsOpen(t) /\ Enough(c, t)
  BY <1>3, <1>5, <1>9, <1>10 DEF EndsOpen, Enough
<1>. QED
  BY <1>1, <1>2, <1>5, <1>7, <1>8, <1>9, <1>10, <1>11

\* The call goes into directory e.nr: it has that as its child, and the nested call as the
\* current directory to come back to.
LEMMA CatrGoEffect ==
  ASSUME Where, CatrHolds, NEW e, CatrGo(e)
  PROVE  /\ e.nr \in Inodes
         /\ stack' \in Seq(Frames) /\ stack' # <<>> /\ Len(stack') = Len(stack) + 1 /\ count' \in [Inodes -> Int]
         /\ Linked(stack') /\ EndsOpen(stack') /\ Enough(count', stack') /\ cur' = e.nr /\ walk'.from = e.nr
         /\ stack'[Len(stack')].in = None /\ stack'[Len(stack')].tmp = e.nr /\ stack'[Len(stack')].rest = {}
         /\ \A k \in DOMAIN stack : /\ k < Len(stack) => stack'[k] = stack[k]
                                    /\ stack'[k].in = stack[k].in /\ stack'[k].tmp = stack[k].tmp
                                    /\ stack'[k].rest \subseteq stack[k].rest
         /\ \A n \in Inodes : Spare(count', stack', n) = Spare(count, stack, n)
         /\ stack'[1].tmp = stack[1].tmp
<1>1. /\ pc = "catr" /\ count' = Get(count, e.nr) /\ cur' = e.nr /\ e \in Top.rest
      /\ CatrCall(Front(stack) \o <<[Visited(e) EXCEPT !.cin = e.nr]>>, e.nr)
  BY DEF CatrGo
<1>2. PICK s, c0, d : s = stack /\ c0 = count /\ d = e.nr
  OBVIOUS
<1>3. /\ s # <<>> /\ s \in Seq(Frames) /\ c0 \in [Inodes -> Int] /\ Linked(s) /\ EndsOpen(s) /\ Enough(c0, s)
      /\ s[Len(s)].in \in Inodes /\ s[Len(s)].cin = None /\ s[Len(s)] \in Frames /\ Len(s) \in DOMAIN s
      /\ Top = s[Len(s)]
  BY <1>1, <1>2, CatrReadHolds
<1>4. d \in Inodes /\ d # None
  <2>1. PICK p : p = s[Len(s)]
    OBVIOUS
  <2>2. p \in Frames /\ e \in p.rest
    BY <1>1, <1>3, <2>1
  <2>. QED
    BY <1>2, <2>2, InodeSet DEF Frames, Entries
<1>5. PICK f : f = [Visited(e) EXCEPT !.cin = e.nr]
  OBVIOUS
<1>6. f \in Frames /\ f.in = s[Len(s)].in /\ f.tmp = s[Len(s)].tmp /\ f.cin = d
      /\ f.rest \subseteq s[Len(s)].rest
  <2>1. PICK g : g = Visited(e)
    OBVIOUS
  <2>2. /\ g \in Frames /\ g.in = Top.in /\ g.cin = Top.cin /\ g.tmp = Top.tmp
        /\ g.rest = Top.rest \ {e} /\ Top = stack[Len(stack)]
    BY <1>2, <1>3, <2>1, VisitedType, Zenon
  <2>3. f = [g EXCEPT !.cin = d]
    BY <1>2, <1>5, <2>1
  <2>4. f \in Frames /\ f.in = g.in /\ f.tmp = g.tmp /\ f.cin = d /\ f.rest = g.rest
    BY <1>4, <2>2, <2>3 DEF Frames, Pointer
  <2>. QED
    BY <1>3, <2>2, <2>4
<1>7. PICK g : g = [Call("catr", None, {}) EXCEPT !.tmp = d]
  OBVIOUS
<1>8. g \in Frames /\ g.in = None /\ g.tmp = d /\ g.cin = None /\ g.rest = {}
  BY <1>4, <1>7 DEF Call, Frames, Pointer
<1>9. PICK t : TopIs(t, s, f)
  BY DEF TopIs
<1>10. f.in # Freed /\ f.in # None
  BY <1>3, <1>6, InodeSet
<1>11. /\ t \in Seq(Frames) /\ t # <<>> /\ Len(t) = Len(s) /\ t[Len(t)] = f /\ Linked(t) /\ t[1].tmp = s[1].tmp
       /\ \A k \in DOMAIN s : k < Len(s) => t[k] = s[k]
  BY <1>3, <1>6, <1>9, <1>10, TopTurns
<1>12. PICK u : u = Append(t, g)
  OBVIOUS
<1>13. u \in Seq(Frames) /\ Len(u) = Len(t) + 1 /\ u # <<>> /\ DOMAIN u = 1 .. (Len(t) + 1)
       /\ DOMAIN t = 1 .. Len(t) /\ Len(t) \in Nat /\ Len(t) > 0
  BY <1>8, <1>11, <1>12
<1>a. u[Len(t) + 1] = g /\ \A k \in 1 .. Len(t) : u[k] = t[k]
  BY <1>8, <1>11, <1>12
<1>14. stack' = u
  <2>1. stack' = Append(Front(s) \o <<f>>, g)
    BY <1>1, <1>2, <1>5, <1>7, Zenon DEF CatrCall
  <2>2. Front(s) \o <<f>> = t
    BY <1>3, <1>6, <1>9, StackTop DEF TopIs
  <2>. QED
    BY <1>12, <2>1, <2>2
<1>15. Linked(u)
  <2>1. ASSUME NEW k \in DOMAIN u
        PROVE  u[k].in # Freed /\ (k < Len(u) => u[k].in # None /\ u[k].cin # None)
    <3>1. CASE k = Len(t) + 1
      BY <1>8, <1>a, <1>13, <3>1, InodeSet
    <3>2. CASE k = Len(t)
      <4>1. u[k] = f
        BY <1>11, <1>a, <1>13, <3>2
      <4>. QED
        BY <1>4, <1>6, <1>10, <4>1
    <3>3. CASE k # Len(t) + 1 /\ k # Len(t)
      <4>1. k \in DOMAIN t /\ k < Len(t) /\ u[k] = t[k]
        BY <1>a, <1>13, <3>3
      <4>. QED
        BY <1>11, <4>1 DEF Linked
    <3>. QED
      BY <3>1, <3>2, <3>3
  <2>2. ASSUME NEW k \in DOMAIN u, k + 1 \in DOMAIN u PROVE u[k + 1].tmp = u[k].cin
    <3>1. k \in 1 .. Len(t) /\ u[k] = t[k]
      BY <1>a, <1>13, <2>2
    <3>2. CASE k = Len(t)
      BY <1>6, <1>8, <1>11, <1>a, <3>1, <3>2
    <3>3. CASE k # Len(t)
      <4>1. k \in DOMAIN t /\ k + 1 \in DOMAIN t /\ u[k + 1] = t[k + 1]
        BY <1>a, <1>13, <3>1, <3>3
      <4>. QED
        BY <1>11, <3>1, <4>1 DEF Linked
    <3>. QED
      BY <3>2, <3>3
  <2>. QED
    BY <2>1, <2>2 DEF Linked
<1>16. PICK c : c = Get(c0, d)
  OBVIOUS
<1>17. c \in [Inodes -> Int] /\ \A n \in Inodes : c[n] = c0[n] + B(n = d)
  BY <1>3, <1>16, Counting
<1>18. ASSUME NEW n \in Inodes PROVE Spare(c, u, n) = Spare(c0, s, n)
  <2>1. PICK x, y, b : x = B(d = n) /\ y = B(f.in = n) /\ b = B(s # <<>> /\ s[1].tmp = n)
    OBVIOUS
  <2>2. x \in Nat /\ y \in Nat /\ b \in Nat /\ B(n = d) = x /\ B(None = n) = 0
    BY <2>1, Nobody DEF B
  <2>3. In(t, n) = In(s, n) - B(s[Len(s)].in = n) + B(f.in = n)
        /\ Cin(t, n) = Cin(s, n) - B(s[Len(s)].cin = n) + B(f.cin = n)
    BY <1>3, <1>6, <1>9, <1>10, TopTurns
  <2>4. In(t, n) = In(s, n) - y + y /\ Cin(t, n) = Cin(s, n) - 0 + x
    BY <1>3, <1>6, <2>1, <2>2, <2>3, Zenon
  <2>5. In(u, n) = In(t, n) + B(g.in = n) /\ Cin(u, n) = Cin(t, n) + B(g.cin = n)
    BY <1>8, <1>11, <1>12, CallsMore
  <2>6. In(u, n) = In(t, n) + 0 /\ Cin(u, n) = Cin(t, n) + 0
    BY <1>8, <2>2, <2>5, Zenon
  <2>7. B(u # <<>> /\ u[1].tmp = n) = b
    <3>1. u[1] = t[1]
      BY <1>a, <1>13
    <3>. QED
      BY <1>3, <1>11, <1>13, <2>1, <3>1 DEF B
  <2>8. In(s, n) \in Nat /\ Cin(s, n) \in Nat /\ c0[n] \in Int
    BY <1>3, CallsFinite
  <2>9. In(u, n) = In(s, n) /\ Cin(u, n) = Cin(s, n) + x
    BY <2>2, <2>4, <2>6, <2>8
  <2>10. Spare(c, u, n) = c[n] - In(s, n) - (Cin(s, n) + x) - b
    BY <2>7, <2>9 DEF Spare
  <2>11. Spare(c0, s, n) = c0[n] - In(s, n) - Cin(s, n) - b
    BY <2>1 DEF Spare
  <2>12. c[n] = c0[n] + x
    BY <1>17, <2>2
  <2>. QED
    BY <2>2, <2>8, <2>10, <2>11, <2>12
<1>19. Enough(c, u)
  BY <1>3, <1>18 DEF Enough
<1>20. u[Len(u)] = g /\ EndsOpen(u)
  BY <1>8, <1>a, <1>13 DEF EndsOpen
<1>21. count' = c /\ cur' = d /\ walk'.from = d
  <2>1. Lookup(CatrPath, "catr", e.nr)
    BY <1>1 DEF CatrCall
  <2>2. walk'.from = e.nr
    BY <2>1, LookupIs
  <2>. QED
    BY <1>1, <1>2, <1>16, <2>2
<1>22. ASSUME NEW k \in DOMAIN s
       PROVE  /\ k < Len(s) => u[k] = s[k]
              /\ u[k].in = s[k].in /\ u[k].tmp = s[k].tmp /\ u[k].rest \subseteq s[k].rest
  <2>1. k \in 1 .. Len(s) /\ Len(s) \in Nat
    BY <1>3
  <2>2. u[k] = t[k]
    BY <1>11, <1>a, <2>1
  <2>3. CASE k = Len(s)
    BY <1>6, <1>11, <2>2, <2>3
  <2>4. CASE k # Len(s)
    BY <1>11, <2>1, <2>2, <2>4
  <2>. QED
    BY <2>3, <2>4
<1>23. u[1].tmp = s[1].tmp
  BY <1>11, <1>a, <1>13
<1>. QED
  <2>1. u \in Seq(Frames) /\ u # <<>> /\ Len(u) = Len(s) + 1 /\ c \in [Inodes -> Int]
    BY <1>11, <1>13, <1>17
  <2>2. u[Len(u)].in = None /\ u[Len(u)].tmp = d /\ u[Len(u)].rest = {}
    BY <1>8, <1>20
  <2>. QED
    BY <2>1, <2>2, <1>2, <1>4, <1>14, <1>15, <1>18, <1>19, <1>20, <1>21, <1>22, <1>23, Zenon

\* The first call keeps the current directory of main.
LEMMA CatrStartEffect ==
  ASSUME Where, CatrHolds, CatrStart
  PROVE  /\ stack' \in Seq(Frames) /\ stack' # <<>> /\ Len(stack') = 1 /\ count' \in [Inodes -> Int]
         /\ Linked(stack') /\ EndsOpen(stack') /\ cur' = Root /\ walk'.from = Root
         /\ \A n \in Inodes : count'[n] >= 0
         /\ stack'[1].in = None /\ stack'[1].tmp = Root /\ stack'[1].rest = {}
         /\ \A n \in Inodes : Spare(count', stack', n) = 0
<1>1. /\ pc = "handler" /\ cmd.op = "catr" /\ CatrCall(<<>>, cur) /\ count' = count /\ cur' = cur
  BY DEF CatrStart, Runs
<1>2. cur = Root /\ Root \in Inodes
  BY <1>1, InodeSet DEF Where, Stage, AtHandler
<1>3. PICK c : c = count
  OBVIOUS
<1>4. c \in [Inodes -> Int] /\ \A n \in Inodes : c[n] = B(Root = n)
  BY <1>1, <1>3 DEF Where, Typed, TypedCount, CatrHolds
<1>5. PICK g, s : g = [Call("catr", None, {}) EXCEPT !.tmp = Root] /\ s = <<>>
  OBVIOUS
<1>6. g \in Frames /\ g.in = None /\ g.tmp = Root /\ g.cin = None /\ g.rest = {}
  BY <1>2, <1>5 DEF Call, Frames, Pointer
<1>7. PICK u : u = Append(s, g)
  OBVIOUS
<1>8. u \in Seq(Frames) /\ Len(u) = 1 /\ u # <<>> /\ u[1] = g /\ DOMAIN u = {1}
  <2>1. s \in Seq(Frames) /\ Len(s) = 0
    BY <1>5
  <2>. QED
    BY <1>6, <1>7, <2>1
<1>9. stack' = u
  BY <1>1, <1>2, <1>5, <1>7, Zenon DEF CatrCall
<1>10. walk'.from = Root
  <2>1. Lookup(CatrPath, "catr", cur)
    BY <1>1 DEF CatrCall
  <2>. QED
    BY <1>2, <2>1, LookupIs
<1>11. Linked(u) /\ EndsOpen(u)
  BY <1>6, <1>8, InodeSet DEF Linked, EndsOpen
<1>12. ASSUME NEW n \in Inodes PROVE Spare(c, u, n) = 0
  <2>1. In(u, n) = In(s, n) + B(g.in = n) /\ Cin(u, n) = Cin(s, n) + B(g.cin = n)
    <3>1. s \in Seq(Frames)
      BY <1>5
    <3>. QED
      BY <1>6, <1>7, <3>1, CallsMore
  <2>2. In(s, n) = 0 /\ Cin(s, n) = 0
    BY <1>5, CallsNone
  <2>3. In(u, n) = 0 + 0 /\ Cin(u, n) = 0 + 0
    BY <1>6, <2>1, <2>2, Nobody, Zenon
  <2>4. B(u # <<>> /\ u[1].tmp = n) = B(Root = n) /\ B(Root = n) \in Nat
    BY <1>6, <1>8 DEF B
  <2>. QED
    BY <1>4, <2>3, <2>4 DEF Spare
<1>13. \A n \in Inodes : c[n] >= 0
  BY <1>4 DEF B
<1>. QED
  BY <1>1, <1>2, <1>3, <1>4, <1>6, <1>8, <1>9, <1>10, <1>11, <1>12, <1>13

\* A directory is through: the call before goes on, or the command is over.
LEMMA CatrDoneEffect ==
  ASSUME Where, CatrHolds, CatrDone
  PROVE  /\ Len(stack) = 1 =>
              /\ stack' = <<>> /\ pc' = "exit" /\ cur' = Left(cur, count') /\ count' \in [Inodes -> Int]
              /\ \A n \in Inodes : count'[n] = Spare(count, stack, n) + B(stack[1].tmp = n) /\ count'[n] >= 0
         /\ Len(stack) # 1 =>
              /\ pc' = "catr" /\ stack' # <<>> /\ stack' \in Seq(Frames) /\ Len(stack') = Len(stack) - 1
              /\ count' \in [Inodes -> Int] /\ Linked(stack') /\ EndsOpen(stack') /\ Enough(count', stack')
              /\ stack'[Len(stack')].in = stack[Len(stack) - 1].in /\ stack'[Len(stack')].in # None
              /\ stack'[Len(stack')].tmp = stack[Len(stack) - 1].tmp /\ cur' = stack[Len(stack) - 1].tmp
              /\ stack'[Len(stack')].rest = stack[Len(stack) - 1].rest
              /\ \A k \in DOMAIN stack : k < Len(stack) - 1 => stack'[k] = stack[k]
              /\ \A n \in Inodes : Spare(count', stack', n) = Spare(count, stack, n)
<1>0. pc = "catr"
  BY DEF CatrDone
<1>1. PICK s, c0, i, d : s = stack /\ c0 = count /\ i = s[Len(s)].in /\ d = cur
  OBVIOUS
<1>2. /\ s # <<>> /\ s \in Seq(Frames) /\ c0 \in [Inodes -> Int] /\ Linked(s) /\ EndsOpen(s) /\ Enough(c0, s)
      /\ i \in Inodes /\ Top = s[Len(s)] /\ Top.in = i
  BY <1>0, <1>1, CatrReadHolds
<1>3. PICK c, t : c = Put(c0, i) /\ t = Front(s)
  OBVIOUS
<1>4. /\ t \in Seq(Frames) /\ Waits(t) /\ c \in [Inodes -> Int] /\ Enough(c, t)
      /\ Len(t) = Len(s) - 1 /\ \A k \in DOMAIN t : t[k] = s[k] /\ k \in DOMAIN s
  BY <1>1, <1>2, <1>3, CallsOver
<1>5. t # <<>> => \A n \in Inodes : Spare(c, t, n) = Spare(c0, s, n)
  BY <1>1, <1>2, <1>3, CallsOver
<1>6. t = <<>> => \A n \in Inodes : c[n] = Spare(c0, s, n) + B(s[1].tmp = n)
  <2>1. t = <<>> => Remains(c, c0, s)
    BY <1>1, <1>2, <1>3, CallsOver
  <2>. QED
    BY <2>1 DEF Remains
<1>7. ~CatrKilled(AllLeft(t, c)) /\ CatrBack(AllLeft(t, c), c, d)
  <2>1. ~CatrKilled(AllLeft(Front(stack), Put(count, Top.in)))
        /\ CatrBack(AllLeft(Front(stack), Put(count, Top.in)), Put(count, Top.in), cur)
    BY DEF CatrDone
  <2>2. Front(stack) = t /\ Put(count, Top.in) = c /\ cur = d
    BY <1>1, <1>2, <1>3
  <2>. QED
    BY <2>1, <2>2, Zenon
<1>8. Len(s) \in Nat /\ Len(s) > 0 /\ (t = <<>> <=> Len(s) = 1) /\ DOMAIN s = 1 .. Len(s) /\ DOMAIN t = 1 .. Len(t)
  BY <1>2, <1>4
<1>9. CASE t = <<>>
  <2>1. count' = c /\ stack' = <<>> /\ pc' = "exit" /\ cur' = Left(d, c)
    BY <1>4, <1>7, <1>9, CatrBacks
  <2>2. ASSUME NEW n \in Inodes PROVE c[n] >= 0
    <3>1. c[n] = Spare(c0, s, n) + B(s[1].tmp = n) /\ Spare(c0, s, n) >= 0
      BY <1>2, <1>6, <1>9 DEF Enough
    <3>2. Spare(c0, s, n) \in Int /\ B(s[1].tmp = n) \in Nat
      BY <1>2, SpareType DEF B
    <3>. QED
      BY <3>1, <3>2
  <2>. QED
    BY <1>1, <1>4, <1>6, <1>8, <1>9, <2>1, <2>2
<1>10. CASE t # <<>>
  <2>1. /\ pc' = "catr" /\ stack' # <<>> /\ stack' \in Seq(Frames)
        /\ Len(stack') = Len(t)
        /\ count' \in [Inodes -> Int] /\ Linked(stack') /\ EndsOpen(stack') /\ Enough(count', stack')
        /\ stack'[Len(stack')].in = t[Len(t)].in /\ stack'[Len(stack')].in # None
        /\ stack'[Len(stack')].tmp = t[Len(t)].tmp /\ cur' = t[Len(t)].tmp
        /\ stack'[Len(stack')].rest = t[Len(t)].rest
    BY <1>4, <1>7, <1>10, CatrBacks
  <2>2. /\ \A k \in DOMAIN t : k < Len(t) => stack'[k] = t[k]
        /\ \A n \in Inodes : Spare(count', stack', n) = Spare(c, t, n)
    BY <1>4, <1>7, <1>10, CatrBacks
  <2>3. \A n \in Inodes : Spare(count', stack', n) = Spare(c0, s, n)
    BY <1>5, <1>10, <2>2
  <2>4. t[Len(t)] = s[Len(s) - 1]
    <3>1. Len(t) \in DOMAIN t
      BY <1>4, <1>8, <1>10
    <3>. QED
      BY <1>4, <3>1
  <2>5. \A k \in DOMAIN s : k < Len(s) - 1 => stack'[k] = s[k]
    <3>. SUFFICES ASSUME NEW k \in DOMAIN s, k < Len(s) - 1 PROVE stack'[k] = s[k]
      OBVIOUS
    <3>1. k \in DOMAIN t /\ k < Len(t)
      BY <1>4, <1>8
    <3>. QED
      BY <1>4, <2>2, <3>1
  <2>. QED
    BY <1>1, <1>4, <1>8, <1>10, <2>1, <2>3, <2>4, <2>5
<1>. QED
  BY <1>9, <1>10

\* The path was not found: the call that looked it up and the one before are over.
LEMMA CatrUpEffect ==
  ASSUME Where, CatrHolds,
         CatrUp(stack[Len(stack) - 1], SubSeq(stack, 1, Len(stack) - 2),
                Put(Put(count, stack[Len(stack) - 1].cin), stack[Len(stack) - 1].in))
  PROVE  \/ stack' = <<>> /\ pc' = "exit" /\ \A n \in Inodes : count'[n] >= 0
         \/ /\ pc' = "catr" /\ stack' # <<>> /\ stack' \in Seq(Frames)
            /\ count' \in [Inodes -> Int] /\ Linked(stack') /\ EndsOpen(stack') /\ Enough(count', stack')
            /\ stack'[Len(stack')].in # None
<1>1. PICK s0, c0, up, d : s0 = stack /\ c0 = count /\ up = s0[Len(s0) - 1] /\ d = cur
  OBVIOUS
<1>2. PICK c1, c, s : c1 = Put(c0, up.cin) /\ c = Put(c1, up.in) /\ s = SubSeq(s0, 1, Len(s0) - 2)
  OBVIOUS
<1>3. CatrUp(up, s, c)
  BY <1>1, <1>2
<1>4. AtFound /\ Len(s0) # 1 /\ up.cin # Freed /\ ~CatrKilled(AllLeft(s, c)) /\ CatrBack(AllLeft(s, c), c, d)
  BY <1>1, <1>3 DEF CatrUp
<1>5. /\ s0 # <<>> /\ s0 \in Seq(Frames) /\ c0 \in [Inodes -> Int]
      /\ Linked(s0) /\ EndsOpen(s0) /\ s0[Len(s0)].in = None
      /\ s0[Len(s0)].tmp \in {d, Freed} /\ d \in Inodes /\ Enough(c0, s0)
  BY <1>1, <1>4, CatrFoundHolds
<1>6. Len(s0) \in Nat /\ Len(s0) > 1 /\ DOMAIN s0 = 1 .. Len(s0)
  <2>1. Len(s0) \in Nat /\ Len(s0) > 0 /\ DOMAIN s0 = 1 .. Len(s0)
    BY <1>5, StackTop
  <2>2. Len(s0) # 1
    BY <1>4, Zenon
  <2>. QED
    BY <2>1, <2>2
<1>7. PICK t : t = Front(s0)
  OBVIOUS
<1>8. /\ t \in Seq(Frames) /\ t # <<>> /\ Waits(t) /\ Len(t) = Len(s0) - 1
      /\ \A k \in DOMAIN t : t[k] = s0[k] /\ k \in DOMAIN s0
      /\ \A n \in Inodes : Spare(c0, t, n) = Spare(c0, s0, n)
  BY <1>5, <1>6, <1>7, CallsDrop
<1>9. Enough(c0, t)
  BY <1>5, <1>8 DEF Enough
<1>10. t[Len(t)] = up
  <2>1. Len(t) \in DOMAIN t
    BY <1>8
  <2>. QED
    BY <1>1, <1>8, <2>1
<1>11. up \in Frames /\ up.in \in Inodes /\ up.cin \in Inodes
  <2>1. Len(t) \in DOMAIN t /\ up \in Frames
    BY <1>8, <1>10
  <2>2. up.in # None /\ up.cin # None /\ up.in # Freed
    BY <1>8, <1>10, <2>1 DEF Waits, Linked
  <2>. QED
    BY <1>4, <2>1, <2>2 DEF Frames, Pointer
<1>12. PICK i, v, t2 : i = up.cin /\ v = NoChild(up) /\ TopIs(t2, t, v)
  BY DEF TopIs
<1>13. Returns(t, c0, i, v, c1, t2)
  BY <1>2, <1>10, <1>11, <1>12 DEF Returns
<1>14. /\ t2 \in Seq(Frames) /\ t2 # <<>> /\ Len(t2) = Len(t) /\ Linked(t2) /\ EndsOpen(t2)
       /\ c1 \in [Inodes -> Int] /\ Enough(c1, t2)
       /\ t2[Len(t2)] = v /\ v.in = t[Len(t)].in
  BY <1>5, <1>8, <1>9, <1>13, CallsBack
<1>15. PICK j, w : j = up.in /\ w = Front(t2)
  OBVIOUS
<1>16. j \in Inodes /\ j = t2[Len(t2)].in /\ c = Put(c1, j)
  BY <1>2, <1>10, <1>11, <1>14, <1>15
<1>17. w \in Seq(Frames) /\ Waits(w) /\ c \in [Inodes -> Int] /\ Enough(c, w)
  BY <1>14, <1>15, <1>16, CallsOver
<1>18. w = s
  <2>1. PICK m : m = Len(s0) - 2
    OBVIOUS
  <2>2. m \in Nat /\ m <= Len(s0) /\ Len(t) = m + 1 /\ s = SubSeq(s0, 1, m)
    BY <1>2, <1>6, <1>8, <2>1
  <2>3. s \in Seq(Frames) /\ Len(s) = m /\ \A k \in 1 .. m : s[k] = s0[k]
    BY <1>5, <2>2
  <2>4. Len(w) = m /\ \A k \in 1 .. m : w[k] = t2[k]
    BY <1>14, <1>15, <2>2, StackTop
  <2>5. \A k \in DOMAIN t : k < Len(t) => t2[k] = t[k]
    BY <1>5, <1>8, <1>9, <1>13, CallsBack
  <2>6. ASSUME NEW k \in 1 .. m PROVE w[k] = s[k]
    <3>1. k \in DOMAIN t /\ k < Len(t)
      BY <1>8, <2>2
    <3>. QED
      BY <1>8, <2>3, <2>4, <2>5, <3>1
  <2>. QED
    BY <1>17, <2>3, <2>4, <2>6
<1>19. s \in Seq(Frames) /\ Waits(s) /\ c \in [Inodes -> Int] /\ Enough(c, s)
  BY <1>17, <1>18
<1>a. ASSUME NEW n \in Inodes PROVE c[n] >= 0
  <2>1. PICK b : b = B(s # <<>> /\ s[1].tmp = n)
    OBVIOUS
  <2>2. Spare(c, s, n) >= 0 /\ b \in Nat
    BY <1>19, <2>1 DEF Enough, B
  <2>3. /\ Spare(c, s, n) \in Int /\ In(s, n) \in Nat /\ Cin(s, n) \in Nat
        /\ c[n] = Spare(c, s, n) + In(s, n) + Cin(s, n) + b
    BY <1>19, <2>1, SpareType
  <2>. QED
    BY <2>2, <2>3
<1>20. CASE s = <<>>
  <2>1. count' = c /\ stack' = <<>> /\ pc' = "exit"
    BY <1>4, <1>19, <1>20, CatrBacks
  <2>. QED
    BY <1>a, <2>1
<1>21. CASE s # <<>>
  BY <1>4, <1>19, <1>21, CatrBacks
<1>. QED
  BY <1>20, <1>21

\* What a process can do while its command is catr.
CatrStep ==
  \/ CatrStart \/ CatrHas \/ CatrNone \/ CatrDone
  \/ CatrUp(stack[Len(stack) - 1], SubSeq(stack, 1, Len(stack) - 2),
            Put(Put(count, stack[Len(stack) - 1].cin), stack[Len(stack) - 1].in))
  \/ \E e \in Top.rest : CatrSkip(e) \/ CatrGo(e)
  \/ \E by : CatrFault(by)

\* What a process that runs catr can do next.
LEMMA CatrSteps ==
  ASSUME Where, [Next]_vars, cmd.op = "catr"
  PROVE  \/ UNCHANGED vars \/ Forget \/ Walk \/ WalkEnd \/ CatrStep
         \/ pc = "handler" /\ \E r : EndStep(r)
         \/ pc = "exit" /\ \E by : Kill(by)
<1>1. pc = "looked" => walk.goal = "catr"
  <2>. SUFFICES ASSUME pc = "looked" PROVE walk.goal = "catr"
    OBVIOUS
  <2>1. AtWalk
    BY DEF Where, Stage, Walking
  <2>. QED
    BY <2>1 DEF AtWalk, ForName, Making, Creates, ForCommand, Fits
<1>2. pc \notin {"idle", "create", "fill", "enter", "sync", "undo", "failed", "written", "remove", "removed", "list"}
  BY DEF Where, Stage, AtIdle, NoCmd, AtCreate, AtFill, AtSync, AtUndo, AtFailed, AtMade, Making, Creates,
         AtWritten, AtRm, AtRemove, AtRemoved, AtList
<1>3. ~Start /\ ~CdFound
  BY <1>1, <1>2 DEF Start, Launch, CdFound, Looked
<1>4. ~Read
  BY <1>1 DEF Read, cmd_cd, cmd_pwd, PwdFound, cmd_stat, StatFound, cmd_cat, CatFound, cmd_oread, OreadFound,
              Runs, Looked
<1>5. ~Change
  <2>1. ~(cmd_write \/ cmd_owrite \/ WriteFound \/ OwriteBeyond \/ Written)
    BY <1>1, <1>2 DEF cmd_write, cmd_owrite, WriteFound, OwriteBeyond, Written, Runs, Looked
  <2>2. ~(Create \/ CreateLookup \/ CreateInode \/ CreateEmptyDir \/ AddDirent)
    BY <1>1, <1>2 DEF Create, Creates, CreateLookup, CreateInode, CreateEmptyDir, AddDirent, Looked
  <2>3. ~(Created \/ Undo \/ CreateFailed \/ cmd_rm \/ RemoveDirent \/ RemoveInode)
    BY <1>2 DEF Created, Undo, CreateFailed, cmd_rm, RemoveDirent, RemoveInode, Runs
  <2>. QED
    BY <2>1, <2>2, <2>3, Zenon DEF Change
<1>6. ~(cmd_ls \/ LsFound \/ LsEntry \/ cmd_checkfs \/ CheckEntry \/ ListEnd)
  BY <1>1, <1>2 DEF cmd_ls, LsFound, LsEntry, cmd_checkfs, CheckEntry, ListEnd, Runs, Looked
<1>7. ASSUME cmd_catr \/ CatrFound \/ CatrEntry \/ CatrEnd
      PROVE  CatrStep \/ (pc = "handler" /\ \E r : EndStep(r))
  <2>1. CASE CatrStep
    BY <2>1
  <2>2. CASE ~CatrStep
    <3>1. Plainly
      BY <1>7, <2>2, CatrCases, Zenon DEF CatrStep
    <3>2. ~Looks
      BY DEF Looks, Fits, Creates
    <3>3. ~NextWord
      BY <1>1 DEF NextWord
    <3>4. Answers
      BY <3>1, <3>2, <3>3 DEF Plainly
    <3>5. pc = "handler"
      BY <1>1, <3>4 DEF Answers, Free
    <3>. QED
      BY <3>4, <3>5 DEF Answers
  <2>. QED
    BY <2>1, <2>2
<1>8. ASSUME Exit \/ Leave PROVE Forget \/ (pc = "exit" /\ \E by : Kill(by))
  <2>1. CASE Exit
    BY <2>1, ExitCases DEF UseFreed
  <2>2. CASE Leave
    BY <2>2 DEF Leave
  <2>. QED
    BY <1>8, <2>1, <2>2
<1>. QED
  BY <1>3, <1>4, <1>5, <1>6, <1>7, <1>8, Zenon DEF Next, Visit

\* The walk of a call goes on from another directory, and comes back.
LEMMA CatrHoldsMove ==
  ASSUME Where, CatrHolds, cmd.op = "catr", Walking, NEW d \in Inodes, count' = Replace(count, d, cur), cur' = d,
         stack' = AllLeft(stack, count'), walk'.from = walk.from, pc' \in {"walk", "walked", "looked"},
         UNCHANGED cmd
  PROVE  CatrHolds'
<1>1. PICK s, c0, o, c, t, w : /\ s = stack /\ c0 = count /\ o = cur /\ c = Replace(c0, d, o)
                               /\ t = AllLeft(s, c) /\ w = walk.from
  OBVIOUS
<1>2. /\ s \in Seq(Frames) /\ s # <<>> /\ c0 \in [Inodes -> Int] /\ o \in Inodes
  BY <1>1 DEF Where, Typed, TypedStack, TypedCount, Stage, AtWalk, ForCatr, ForName, ForCommand, Making, Creates, Fits
<1>3. Linked(s) /\ EndsOpen(s) /\ AwayFrom(c0, s, o) /\ s[Len(s)].in = None /\ s[Len(s)].tmp \in {w, Freed}
  BY <1>1 DEF CatrHolds
<1>4. /\ \A n \in Inodes : c[n] >= 0
      /\ Linked(t) /\ EndsOpen(t) /\ t # <<>> /\ Len(t) = Len(s)
      /\ t[Len(t)].in = s[Len(s)].in /\ t[Len(t)].tmp \in {s[Len(s)].tmp, Freed}
      /\ AwayFrom(c, t, d)
  BY <1>1, <1>2, <1>3, AwayMove
<1>5. t \in Seq(Frames) /\ c \in [Inodes -> Int]
  BY <1>1, <1>2, AllLeftType, Counting DEF Replace
<1>6. t[Len(t)].in = None /\ t[Len(t)].tmp \in {w, Freed}
  BY <1>3, <1>4
<1>7. stack' = t /\ count' = c /\ walk'.from = w
  BY <1>1
<1>. QED
  BY <1>4, <1>5, <1>6, <1>7, CatrHoldsWalks

\* The walk of catr never puts an inode that is not counted, though it begins at a pointer that the
\* walk itself may free (file.c:65).
LEMMA CatrHoldsWalk ==
  ASSUME Where, CatrHolds, cmd.op = "catr", Walk \/ WalkEnd
  PROVE  CatrHolds'
<1>1. ASSUME UNCHANGED <<count, stack, cur, cmd, walk>>, Walking, pc' \in {"walk", "walked", "looked"}
      PROVE  CatrHolds'
  <2>1. PICK s, c, d : s = stack /\ c = count /\ d = cur
    OBVIOUS
  <2>2. stack' = s /\ count' = c /\ cur' = d
    BY <1>1, <2>1
  <2>3. Linked(s) /\ EndsOpen(s) /\ AwayFrom(c, s, d) /\ s[Len(s)].in = None /\ s[Len(s)].tmp \in {walk.from, Freed}
        /\ \A n \in Inodes : c[n] >= 0
    BY <1>1, <2>1 DEF CatrHolds
  <2>4. s \in Seq(Frames) /\ s # <<>> /\ c \in [Inodes -> Int]
    BY <1>1, <2>1 DEF Where, Typed, TypedStack, TypedCount, Stage, AtWalk, ForCatr, ForName, ForCommand, Making,
                     Creates, Fits
  <2>5. PICK o : o = walk.from
    OBVIOUS
  <2>6. walk'.from = o /\ s[Len(s)].tmp \in {o, Freed}
    BY <1>1, <2>3, <2>5
  <2>. QED
    BY <1>1, <2>2, <2>3, <2>4, <2>6, CatrHoldsWalks
<1>2. CASE WalkEnd
  <2>1. pc = "walked" /\ pc' = "looked" /\ UNCHANGED <<cmd, walk>> /\ Walking
    BY <1>2 DEF WalkEnd, Quiet, Walking
  <2>2. CASE UNCHANGED <<count, cur, stack>>
    BY <1>1, <2>1, <2>2
  <2>3. CASE count' = Replace(count, walk.from, cur) /\ cur' = walk.from /\ stack' = AllLeft(stack, count')
    <3>1. PICK d : d = walk.from
      OBVIOUS
    <3>2. d \in Inodes
      BY <2>1, <3>1 DEF Where, Stage, AtWalk
    <3>. QED
      BY <2>1, <2>3, <3>1, <3>2, CatrHoldsMove
  <2>. QED
    BY <1>2, <2>2, <2>3 DEF WalkEnd
<1>3. CASE Walk
  <2>1. pc = "walk" /\ Walking
    BY <1>3, WalkCases DEF Walking
  <2>2. ASSUME NEW by, Kill(by) PROVE CatrHolds'
    <3>1. UNCHANGED <<count, stack, cmd>> /\ pc' = "dead"
      BY <2>2 DEF Kill, mem
    <3>. QED
      BY <3>1, CatrHoldsKept
  <2>3. ASSUME NEW r, Found(r) PROVE CatrHolds'
    <3>1. UNCHANGED <<count, stack, cur, cmd, walk>> /\ pc' = "walked"
      BY <2>3 DEF Found, Quiet, mem
    <3>. QED
      BY <1>1, <2>1, <3>1
  <2>4. ASSUME NEW d \in Inodes, NEW rest, WalkOn(d, rest) PROVE CatrHolds'
    <3>1. /\ count' = Replace(count, d, cur) /\ cur' = d /\ stack' = AllLeft(stack, count')
          /\ walk' = [walk EXCEPT !.path = rest] /\ UNCHANGED cmd /\ pc' = pc
      BY <2>4 DEF WalkOn, Quiet
    <3>2. walk'.from = walk.from
      <4>1. PICK w : w = walk
        OBVIOUS
      <4>2. w = [path |-> w.path, from |-> w.from, goal |-> w.goal] /\ walk' = [w EXCEPT !.path = rest]
        BY <3>1, <4>1 DEF Where, Typed, TypedWalk
      <4>3. walk'.from = w.from
        BY <4>2
      <4>. QED
        BY <4>1, <4>3
    <3>. QED
      BY <2>1, <3>1, <3>2, CatrHoldsMove
  <2>5. \A name : ~(InodeNr(cur, name) < 0) => InodeNr(cur, name) \in Inodes
    BY <2>1, FindType DEF Where, Typed, Stage, AtWalk
  <2>6. Root \in Inodes
    BY InodeSet
  <2>. QED
    BY <1>3, <2>2, <2>3, <2>4, <2>5, <2>6, WalkCases, Zenon
<1>. QED
  BY <1>2, <1>3

\* Every step of catr itself keeps enough counts for the puts to come.
LEMMA CatrHoldsStep ==
  ASSUME Where, CatrHolds, cmd.op = "catr", CatrStep
  PROVE  CatrHolds'
<1>1. CASE CatrStart
  <2>1. pc' \in {"walk", "walked", "looked"}
    <3>1. Lookup(CatrPath, "catr", cur)
      BY <1>1 DEF CatrStart, CatrCall
    <3>. QED
      BY <3>1, LookupIs
  <2>2. PICK s, c : s = stack' /\ c = count'
    OBVIOUS
  <2>3. /\ s \in Seq(Frames) /\ s # <<>> /\ Len(s) = 1 /\ c \in [Inodes -> Int]
        /\ Linked(s) /\ EndsOpen(s) /\ cur' = Root /\ walk'.from = Root
        /\ s[1].in = None /\ s[1].tmp = Root
    BY <1>1, <2>2, CatrStartEffect
  <2>4. (\A n \in Inodes : c[n] >= 0) /\ \A n \in Inodes : Spare(c, s, n) = 0
    BY <1>1, <2>2, CatrStartEffect
  <2>5. AwayFrom(c, s, Root)
    <3>. SUFFICES ASSUME NEW n \in Inodes PROVE Spare(c, s, n) + B(s[Len(s)].tmp = n) - B(Root = n) >= 0
      BY DEF AwayFrom
    <3>1. PICK x : x = B(Root = n)
      OBVIOUS
    <3>2. B(s[Len(s)].tmp = n) = x /\ x \in Nat
      BY <2>3, <3>1 DEF B
    <3>. QED
      BY <2>4, <3>1, <3>2
  <2>. QED
    BY <2>1, <2>2, <2>3, <2>4, <2>5, CatrHoldsWalks
<1>2. CASE CatrHas
  <2>1. PICK s, c : s = stack' /\ c = count'
    OBVIOUS
  <2>2. pc' = "catr"
    BY <1>2 DEF CatrHas
  <2>3. /\ s \in Seq(Frames) /\ s # <<>> /\ c \in [Inodes -> Int]
        /\ Linked(s) /\ EndsOpen(s) /\ Enough(c, s) /\ s[Len(s)].in # None
    BY <1>2, <2>1, CatrHasEffect
  <2>. QED
    BY <2>1, <2>2, <2>3, CatrHoldsReads
<1>3. CASE CatrNone
  <2>1. stack' = <<>> /\ count' = count /\ pc' = "exit"
    BY <1>3 DEF CatrNone, Return
  <2>2. \A n \in Inodes : count[n] >= 0
    BY DEF CatrHolds
  <2>. QED
    BY <2>1, <2>2 DEF CatrHolds, Walking, Linked, EndsOpen
<1>4. CASE CatrDone
  <2>1. CASE Len(stack) = 1
    <3>1. stack' = <<>> /\ pc' = "exit" /\ \A n \in Inodes : count'[n] >= 0
      BY <1>4, <2>1, CatrDoneEffect
    <3>. QED
      BY <3>1 DEF CatrHolds, Walking, Linked, EndsOpen
  <2>2. CASE Len(stack) # 1
    <3>1. PICK s, c : s = stack' /\ c = count'
      OBVIOUS
    <3>2. /\ s \in Seq(Frames) /\ s # <<>> /\ c \in [Inodes -> Int] /\ pc' = "catr"
          /\ Linked(s) /\ EndsOpen(s) /\ Enough(c, s) /\ s[Len(s)].in # None
      BY <1>4, <2>2, <3>1, CatrDoneEffect
    <3>. QED
      BY <3>1, <3>2, CatrHoldsReads
  <2>. QED
    BY <2>1, <2>2
<1>5. CASE CatrUp(stack[Len(stack) - 1], SubSeq(stack, 1, Len(stack) - 2),
                  Put(Put(count, stack[Len(stack) - 1].cin), stack[Len(stack) - 1].in))
  <2>1. CASE stack' = <<>> /\ pc' = "exit" /\ \A n \in Inodes : count'[n] >= 0
    BY <2>1 DEF CatrHolds, Walking, Linked, EndsOpen
  <2>2. CASE /\ pc' = "catr" /\ stack' # <<>> /\ stack' \in Seq(Frames)
             /\ count' \in [Inodes -> Int] /\ Linked(stack') /\ EndsOpen(stack') /\ Enough(count', stack')
             /\ stack'[Len(stack')].in # None
    <3>1. PICK s, c : s = stack' /\ c = count'
      OBVIOUS
    <3>. QED
      BY <2>2, <3>1, CatrHoldsReads
  <2>. QED
    BY <1>5, <2>1, <2>2, CatrUpEffect
<1>6. ASSUME NEW e, CatrSkip(e) PROVE CatrHolds'
  <2>1. PICK s, c : s = stack' /\ c = count
    OBVIOUS
  <2>2. pc' = "catr" /\ c \in [Inodes -> Int]
    BY <1>6, <2>1 DEF CatrSkip, Where, Typed, TypedCount
  <2>3. /\ s \in Seq(Frames) /\ s # <<>> /\ count' = c
        /\ Linked(s) /\ EndsOpen(s) /\ Enough(c, s) /\ s[Len(s)].in # None
    BY <1>6, <2>1, CatrSkipEffect
  <2>. QED
    BY <2>1, <2>2, <2>3, CatrHoldsReads
<1>7. ASSUME NEW e, CatrGo(e) PROVE CatrHolds'
  <2>1. pc' \in {"walk", "walked", "looked"} /\ pc = "catr"
    <3>1. Lookup(CatrPath, "catr", e.nr)
      BY <1>7 DEF CatrGo, CatrCall
    <3>. QED
      BY <1>7, <3>1, LookupIs DEF CatrGo
  <2>2. PICK s, c, d : s = stack' /\ c = count' /\ d = e.nr
    OBVIOUS
  <2>3. /\ s \in Seq(Frames) /\ s # <<>> /\ c \in [Inodes -> Int]
        /\ Linked(s) /\ EndsOpen(s) /\ Enough(c, s) /\ cur' = d /\ walk'.from = d
        /\ s[Len(s)].in = None /\ s[Len(s)].tmp = d
    BY <1>7, <2>2, CatrGoEffect
  <2>4. \A n \in Inodes : Spare(c, s, n) >= 0
    BY <2>3 DEF Enough
  <2>5. AwayFrom(c, s, d)
    <3>. SUFFICES ASSUME NEW n \in Inodes PROVE Spare(c, s, n) + B(s[Len(s)].tmp = n) - B(d = n) >= 0
      BY DEF AwayFrom
    <3>1. PICK x, v : x = B(d = n) /\ v = Spare(c, s, n)
      OBVIOUS
    <3>2. B(s[Len(s)].tmp = n) = x /\ x \in Nat
      BY <2>3, <3>1 DEF B
    <3>3. v \in Int /\ v >= 0
      BY <2>3, <2>4, <3>1, SpareType
    <3>. QED
      BY <3>1, <3>2, <3>3
  <2>6. ASSUME NEW n \in Inodes PROVE c[n] >= 0
    <3>1. PICK b : b = B(s # <<>> /\ s[1].tmp = n)
      OBVIOUS
    <3>2. Spare(c, s, n) >= 0 /\ b \in Nat
      BY <2>4, <3>1 DEF B
    <3>3. /\ Spare(c, s, n) \in Int /\ In(s, n) \in Nat /\ Cin(s, n) \in Nat
          /\ c[n] = Spare(c, s, n) + In(s, n) + Cin(s, n) + b
      BY <2>3, <3>1, SpareType
    <3>. QED
      BY <3>2, <3>3
  <2>. QED
    BY <2>1, <2>2, <2>3, <2>5, <2>6, CatrHoldsWalks
<1>8. ASSUME NEW by, CatrFault(by) PROVE CatrHolds'
  <2>1. UNCHANGED <<count, stack, cmd>> /\ pc' = "dead"
    BY <1>8 DEF CatrFault, Kill, mem
  <2>. QED
    BY <2>1, CatrHoldsKept
<1>. QED
  BY <1>1, <1>2, <1>3, <1>4, <1>5, <1>6, <1>7, <1>8, Zenon DEF CatrStep

\* Whatever the path of catr is, no count falls below what its calls have.
LEMMA CatrHoldsNext ==
  ASSUME Where, Balanced, CatrHolds, [Next]_vars
  PROVE  CatrHolds'
<1>1. CASE Start
  <2>1. /\ pc = "idle" /\ count' = Get(count, Root) /\ UNCHANGED stack
        /\ pc' \in {"dead", "exit", "handler", "quit"}
    BY <1>1 DEF Start, Launch
  <2>2. cmd.op = "none" /\ inode = None /\ stack = <<>> /\ cur = None
    BY <2>1 DEF Where, Stage, AtIdle, NoCmd, Plain
  <2>3. count \in [Inodes -> Int]
    BY DEF Where, Typed, TypedCount
  <2>4. \A n \in Inodes : count'[n] = count[n] + B(n = Root)
    BY <2>1, <2>3, Counting
  <2>5. \A n \in Inodes : count[n] = B(None = n) + B(None = n) + In(<<>>, n)
    BY <2>2 DEF Balanced
  <2>6. ASSUME NEW n \in Inodes PROVE count'[n] = B(Root = n)
    BY <2>4, <2>5, Nobody, CallsNone DEF B
  <2>7. \A n \in Inodes : count'[n] >= 0
    BY <2>6 DEF B
  <2>. QED
    BY <2>1, <2>2, <2>6, <2>7 DEF CatrHolds, Walking, Linked, EndsOpen
<1>2. CASE Forget
  BY <1>2 DEF Forget, CatrHolds, NoCmd
<1>3. CASE cmd.op # "catr" /\ ~Start /\ ~Forget
  <2>1. cmd'.op # "catr"
    BY <1>3, CmdKept
  <2>. QED
    BY <2>1 DEF CatrHolds
<1>4. CASE cmd.op = "catr"
  <2>1. CASE UNCHANGED vars
    <3>1. UNCHANGED <<count, stack, cmd, pc, walk, cur>>
      BY <2>1 DEF vars, mem
    <3>. QED
      BY <3>1 DEF CatrHolds, Walking, Linked, EndsOpen, Enough, AwayFrom, Spare, In, Cin
  <2>2. ASSUME pc = "handler", NEW r, EndStep(r) PROVE CatrHolds'
    <3>1. UNCHANGED <<count, stack, cmd>> /\ pc' = "exit"
      BY <2>2 DEF EndStep, Return, Quiet, mem
    <3>. QED
      BY <3>1, CatrHoldsKept
  <2>3. ASSUME NEW by, Kill(by) PROVE CatrHolds'
    <3>1. UNCHANGED <<count, stack, cmd>> /\ pc' = "dead"
      BY <2>3 DEF Kill, mem
    <3>. QED
      BY <3>1, CatrHoldsKept
  <2>4. CASE Walk \/ WalkEnd
    BY <1>4, <2>4, CatrHoldsWalk
  <2>5. CASE CatrStep
    BY <1>4, <2>5, CatrHoldsStep
  <2>. QED
    BY <1>2, <1>4, <2>1, <2>2, <2>3, <2>4, <2>5, CatrSteps, Zenon
<1>. QED
  BY <1>1, <1>2, <1>3, <1>4

\* In any state, of any command, an inode is counted for those that will put it: exactly
\* but for catr, and at least so for catr.
Counted == Balanced /\ CatrHolds

\* The counts are balanced in every state, by the pointers of the command and, while catr runs, by
\* what its nested calls will put (dir.c:525, file.c:60-100).
THEOREM CountedInvariant == Spec => []Counted
<1>1. Init => Counted
  BY BalancedInit, CatrHoldsInit DEF Counted
<1>2. Where /\ Counted /\ [Next]_vars => Counted'
  BY BalancedNext, CatrHoldsNext DEF Counted
<1>. QED
  BY <1>1, <1>2, WhereInvariant, PTL DEF Spec

\* No count is negative, and no call reads an inode that was freed (dir.c:525, super.c:257),
\* in any state of any command.
THEOREM TypeInvariant == Spec => []TypeOK
<1>1. ASSUME Where, Counted PROVE TypeOK
  <2>. USE <1>1 DEF Where, Typed
  <2>1. ASSUME NEW n \in Inodes
        PROVE  /\ tree[n].type \in {"none", "file", "dir"}
               /\ \A e \in tree[n].ents : e.nr \in Inodes /\ Range(e.name) \subseteq Characters
    <3>1. tree[n] \in Nodes
      BY DEF TypedTree
    <3>2. ASSUME NEW e \in tree[n].ents PROVE e.nr \in Inodes /\ Range(e.name) \subseteq Characters
      <4>1. e.nr \in Inodes /\ e.name \in Seq(Characters)
        BY <3>1, <3>2 DEF Nodes, Entries
      <4>. QED
        BY <4>1 DEF Range
    <3>. QED
      BY <3>1, <3>2 DEF Nodes
  <2>2. count \in [Inodes -> Nat]
    <3>1. count \in [Inodes -> Int]
      BY DEF TypedCount
    <3>2. ASSUME NEW n \in Inodes PROVE count[n] \in Nat
      <4>1. count[n] \in Int
        BY <3>1
      <4>2. CASE cmd.op = "catr"
        BY <1>1, <4>1, <4>2 DEF Counted, CatrHolds
      <4>3. CASE cmd.op # "catr"
        <5>1. PICK x, y : x = B(cur = n) /\ y = B(inode = n)
          OBVIOUS
        <5>2. count[n] = x + y + In(stack, n)
          BY <1>1, <4>3, <5>1 DEF Counted, Balanced
        <5>3. x \in Nat /\ y \in Nat /\ In(stack, n) \in Nat
          BY <5>1, CallsFinite DEF B, TypedStack
        <5>. QED
          BY <5>2, <5>3
      <4>. QED
        BY <4>2, <4>3
    <3>. QED
      BY <3>1, <3>2
  <2>3. /\ dirty \subseteq Inodes /\ tx \in {"TX_NONE", "TX_WRITE", "TX_CREATE", "TX_RM"}
        /\ cur \in Pointer /\ back \in Inodes \cup {None} /\ inode \in Inodes \cup {None}
        /\ Len(stack) <= MaxDepth
    BY InodeSet DEF TypedMem, TypedStack
  <2>4. ASSUME NEW k \in DOMAIN stack
        PROVE  {stack[k].in, stack[k].cin, stack[k].tmp} \subseteq Pointer /\ stack[k].in # Freed
    <3>1. stack[k] \in Frames
      BY DEF TypedStack
    <3>2. stack[k].in # Freed
      <4>1. CASE cmd.op = "catr"
        BY <1>1, <4>1 DEF Counted, CatrHolds, Linked
      <4>2. CASE cmd.op # "catr"
        BY <4>2, InodeSet DEF Listing
      <4>. QED
        BY <4>1, <4>2
    <3>. QED
      BY <3>1, <3>2 DEF Frames
  <2>5. arg \in 1 .. (MaxArgs + 1) /\ ret \in Inodes \cup Errors
    BY InodeSet DEF TypedArg, TypedEnd
  <2>. QED
    BY <2>1, <2>2, <2>3, <2>4, <2>5 DEF TypeOK
<1>. QED
  BY <1>1, WhereInvariant, CountedInvariant, PTL

-----------------------------------------------------------------------------
(* catr without an argument: each call reads the directory it is called    *)
(* in, and the next one is called in the child that the caller holds.      *)

Dirs        == {n \in Inodes : IsDir(n)}
Exact(c, s) == \A n \in Inodes : Spare(c, s, n) = 0
Chain(s, d, D) ==
  /\ s[1].tmp = Root /\ s[Len(s)].tmp = d /\ s[Len(s)].in \in {None, d}
  /\ \A k \in DOMAIN s : s[k].tmp \in D /\ (k < Len(s) => s[k].in = s[k].tmp)

CatrHere ==
  cmd.op = "catr" /\ nargs # 2 =>
    /\ inode = None
    /\ stack = <<>> => cur = Root /\ \A n \in Inodes : count[n] = B(Root = n)
    /\ stack # <<>> => Exact(count, stack) /\ Chain(stack, cur, Dirs)
    /\ pc = "catr" => stack # <<>> /\ stack[Len(stack)].in = cur
    /\ Walking => stack # <<>> /\ walk.path = Dot /\ walk.from = cur
    /\ pc \in {"walked", "looked"} => ret = cur

\* No catr runs at first.
LEMMA CatrHereInit == Init => CatrHere
BY DEF Init, CatrHere, NoCmd

\* The calls, the counts and the current directory stay, and no path is walked.
LEMMA CatrHereKept ==
  ASSUME CatrHere, UNCHANGED <<tree, count, cur, inode, stack, cmd>>,
         pc' \notin {"catr", "walk", "walked", "looked"}
  PROVE  CatrHere'
BY DEF CatrHere, Walking, Exact, Spare, In, Cin, Dirs, IsDir, nargs

\* A call reads, in the current directory.
LEMMA CatrHereReads ==
  ASSUME NEW s \in Seq(Frames), s # <<>>, NEW c, NEW d, stack' = s, count' = c, cur' = d, inode' = None,
         Exact(c, s), Chain(s, d, Dirs), s[Len(s)].in = d, pc' = "catr", UNCHANGED tree
  PROVE  CatrHere'
<1>1. Dirs' = Dirs
  BY DEF Dirs, IsDir
<1>2. Exact(count, stack)'
  BY DEF Exact, Spare, In, Cin
<1>3. Chain(stack, cur, Dirs)'
  BY <1>1 DEF Chain
<1>. HIDE DEF Exact, Chain
<1>. QED
  BY <1>2, <1>3 DEF CatrHere, Walking

\* A call looks up ".", and finds the current directory.
LEMMA CatrHereWalks ==
  ASSUME NEW s \in Seq(Frames), s # <<>>, NEW c, NEW d, stack' = s, count' = c, cur' = d, inode' = None,
         Exact(c, s), Chain(s, d, Dirs), walk'.path = Dot, walk'.from = d,
         pc' = "walk" \/ (pc' \in {"walked", "looked"} /\ ret' = d), UNCHANGED tree
  PROVE  CatrHere'
<1>1. Dirs' = Dirs
  BY DEF Dirs, IsDir
<1>2. Exact(count, stack)'
  BY DEF Exact, Spare, In, Cin
<1>3. Chain(stack, cur, Dirs)'
  BY <1>1 DEF Chain
<1>. HIDE DEF Exact, Chain
<1>. QED
  BY <1>2, <1>3 DEF CatrHere, Walking

\* The path "." does not end in a slash.
LEMMA LookupDot ==
  ASSUME NEW goal, NEW from, Lookup(Dot, goal, from)
  PROVE  /\ pc' = "walk" /\ ret' = ret /\ walk'.path = Dot /\ walk'.from = from
<1>1. Dot # <<>> /\ Len(Dot) = 1
  BY DEF Dot
<1>2. EndsInSlash(Dot) = {FALSE}
  <2>1. PICK p, m : p = Dot /\ m = Len(p)
    OBVIOUS
  <2>2. m = 1
    BY <1>1, <2>1, Zenon
  <2>3. ~(m > 1)
    BY ONLY <2>2
  <2>4. EndsInSlash(p) = {m > 1 /\ Last(p) = "/"}
    BY <1>1, <2>1, Zenon DEF EndsInSlash
  <2>5. (m > 1 /\ Last(p) = "/") = FALSE
    BY <2>3, Zenon
  <2>. QED
    BY <2>1, <2>4, <2>5, Zenon
<1>3. pc' = "walk" /\ UNCHANGED ret
  BY <1>2 DEF Lookup
<1>4. walk'.path = Dot /\ walk'.from = from
  BY LookupIs
<1>. QED
  BY <1>3, <1>4

\* The walk of ".", from a directory that it leaves not.
LEMMA DotWalks ==
  ASSUME Where, Standing, CatrHere, cmd.op = "catr", nargs # 2, Walk \/ WalkEnd
  PROVE  /\ UNCHANGED <<tree, count, cur, inode, stack, walk, cmd>> /\ Walking
         /\ pc' \in {"walked", "looked"} /\ ret' = cur
<1>0. Walking /\ (pc = "walk" \/ pc = "walked")
  BY DEF Walk, WalkEnd, Walking
<1>1. /\ inode = None /\ stack # <<>> /\ walk.path = Dot /\ walk.from = cur
      /\ Exact(count, stack) /\ Chain(stack, cur, Dirs) /\ (pc \in {"walked", "looked"} => ret = cur)
  BY <1>0 DEF CatrHere
<1>2. PICK s, d : s = stack /\ d = cur
  OBVIOUS
<1>3. s \in Seq(Frames)
  BY <1>2 DEF Where, Typed, TypedStack
<1>4. d \in Inodes /\ IsDir(d) /\ d \in Used /\ d \notin Pending
  <2>1. cur \in Inodes /\ cur \in Used
    BY <1>0 DEF Where, Stage, AtWalk, Standing, Placed
  <2>2. s[Len(s)].tmp = d /\ Len(s) \in DOMAIN s
    BY <1>1, <1>2, <1>3 DEF Chain
  <2>3. d \in Dirs
    BY <1>1, <1>2, <2>2 DEF Chain
  <2>4. Pending = {}
    BY <1>0 DEF Pending
  <2>. QED
    BY <1>2, <2>1, <2>3, <2>4 DEF Dirs
<1>5. CASE Walk
  <2>0. Find(d, Dot) = {d}
    BY <1>4, HasDots DEF Standing
  <2>1. Found(InodeNr(cur, Dot))
    <3>. USE WalkCases
    <3>1. CASE Kill("not a directory") /\ ~IsDir(cur)
      BY <1>2, <1>4, <3>1
    <3>2. \/ \E r \in {Root, ENOENT} : Found(r) /\ walk.path # Dot
          \/ \E name : Found(InodeNr(cur, name)) /\ (walk.path = Dot => name = Dot)
          \/ walk.path # Dot
      BY <1>2, <1>4, <1>5
    <3>. QED
      BY <1>1, <3>2
  <2>2. InodeNr(d, Dot) = d
    BY <2>0 DEF InodeNr
  <2>. QED
    BY <1>0, <1>2, <2>1, <2>2 DEF Found, Quiet, mem
<1>6. CASE WalkEnd
  <2>1. pc = "walked" /\ pc' = "looked" /\ UNCHANGED <<tree, count, cur, inode, stack, walk, ret, cmd>>
    BY <1>1, <1>6 DEF WalkEnd, Elsewhere, Quiet
  <2>. QED
    BY <1>0, <1>1, <2>1
<1>. QED
  BY <1>5, <1>6

\* Without an argument the walk of catr is over its one component . and stays where it is.
LEMMA CatrHereWalk ==
  ASSUME Where, Standing, CatrHere, cmd.op = "catr", nargs # 2, Walk \/ WalkEnd
  PROVE  CatrHere'
<1>1. /\ UNCHANGED <<tree, count, cur, inode, stack, walk>> /\ Walking
      /\ pc' \in {"walked", "looked"} /\ ret' = cur
  BY DotWalks
<1>2. PICK s, c, d : s = stack /\ c = count /\ d = cur
  OBVIOUS
<1>3. s \in Seq(Frames)
  BY <1>2 DEF Where, Typed, TypedStack
<1>4. /\ inode = None /\ s # <<>> /\ walk.path = Dot /\ walk.from = d
      /\ Exact(c, s) /\ Chain(s, d, Dirs)
  BY <1>1, <1>2 DEF CatrHere
<1>. QED
  BY <1>1, <1>2, <1>3, <1>4, CatrHereWalks

\* What is known where a call has looked ".", and where it reads.
LEMMA CatrHereNow ==
  ASSUME Where, Standing, CatrHere, cmd.op = "catr", nargs # 2, AtFound \/ pc = "catr"
  PROVE  /\ inode = None /\ stack # <<>> /\ stack \in Seq(Frames) /\ count \in [Inodes -> Int]
         /\ Exact(count, stack) /\ Chain(stack, cur, Dirs) /\ Len(stack) \in DOMAIN stack /\ Len(stack) \in Nat
         /\ cur \in Dirs /\ cur \in Inodes
         /\ (AtFound => ret = cur) /\ (pc = "catr" => stack[Len(stack)].in = cur)
<1>1. stack \in Seq(Frames) /\ count \in [Inodes -> Int]
  BY DEF Where, Typed, TypedStack, TypedCount
<1>2. /\ inode = None /\ stack # <<>> /\ Exact(count, stack) /\ Chain(stack, cur, Dirs)
      /\ (AtFound => ret = cur) /\ (pc = "catr" => stack[Len(stack)].in = cur)
  BY DEF CatrHere, AtFound, Walking
<1>3. Len(stack) \in DOMAIN stack /\ Len(stack) \in Nat
  BY <1>1, <1>2
<1>4. cur \in Dirs
  BY <1>2, <1>3 DEF Chain
<1>5. cur \in Inodes
  BY <1>4 DEF Dirs
<1>. QED
  BY <1>1, <1>2, <1>3, <1>4, <1>5

\* The first call, of main's directory.
LEMMA CatrHereStarts ==
  ASSUME Where, Standing, CatrHolds, CatrHere, cmd.op = "catr", nargs # 2, CatrStart
  PROVE  CatrHere'
<1>1. PICK s, c : s = stack' /\ c = count'
  OBVIOUS
<1>2. /\ s \in Seq(Frames) /\ s # <<>> /\ Len(s) = 1 /\ cur' = Root
      /\ \A n \in Inodes : Spare(c, s, n) = 0
  BY <1>1, CatrStartEffect
<1>3. s[1].in = None /\ s[1].tmp = Root
  BY <1>1, CatrStartEffect
<1>4. Exact(c, s)
  BY <1>2 DEF Exact
<1>5. Root \in Dirs
  BY RootUsed DEF Dirs
<1>6. Chain(s, Root, Dirs)
  BY <1>2, <1>3, <1>5 DEF Chain
<1>7. cur = Root /\ UNCHANGED <<tree, inode>> /\ inode = None
  <2>1. pc = "handler"
    BY DEF CatrStart, Runs
  <2>. QED
    BY <2>1 DEF Where, Stage, AtHandler, Plain, CatrStart, Quiet
<1>8. Lookup(Dot, "catr", Root)
  BY <1>7, Zenon DEF CatrStart, CatrCall, CatrPath
<1>9. pc' = "walk" /\ walk'.path = Dot /\ walk'.from = Root
  BY <1>8, LookupDot
<1>. QED
  BY <1>1, <1>2, <1>4, <1>6, <1>7, <1>9, CatrHereWalks

\* A call has its directory, which is the current one.
LEMMA CatrHereHas ==
  ASSUME Where, Standing, CatrHolds, CatrHere, cmd.op = "catr", nargs # 2, CatrHas
  PROVE  CatrHere'
<1>0. AtFound
  BY DEF CatrHas
<1>1. PICK s, c, t, d : s = stack' /\ c = count' /\ t = stack /\ d = cur
  OBVIOUS
<1>2. /\ inode = None /\ Exact(count, t) /\ Chain(t, d, Dirs) /\ ret = d /\ t \in Seq(Frames) /\ t # <<>>
  BY <1>0, <1>1, CatrHereNow
<1>3. UNCHANGED <<tree, cur, inode>> /\ pc' = "catr"
  BY DEF CatrHas, Quiet
<1>4. /\ s \in Seq(Frames) /\ s # <<>> /\ Len(s) = Len(t) /\ s[Len(s)].in = d
      /\ s[Len(s)].tmp = t[Len(t)].tmp /\ \A n \in Inodes : Spare(c, s, n) = Spare(count, t, n)
  BY <1>1, <1>2, CatrHasEffect
<1>5. \A k \in DOMAIN t : k < Len(t) => s[k] = t[k]
  BY <1>1, CatrHasEffect
<1>6. Exact(c, s)
  BY <1>2, <1>4 DEF Exact
<1>7. Chain(s, d, Dirs)
  <2>1. s[Len(s)].tmp = d /\ s[Len(s)].in = d
    BY <1>2, <1>4 DEF Chain
  <2>2. ASSUME NEW k \in DOMAIN s PROVE s[k].tmp = t[k].tmp /\ k \in DOMAIN t /\ (k < Len(s) => s[k].in = t[k].in)
    <3>1. k \in DOMAIN t /\ Len(s) \in Nat /\ (k = Len(s) \/ k < Len(s))
      BY <1>2, <1>4
    <3>. QED
      BY <3>1, <1>4, <1>5
  <2>3. 1 \in DOMAIN s
    BY <1>4
  <2>4. s[1].tmp = Root
    BY <1>2, <2>2, <2>3 DEF Chain
  <2>5. \A k \in DOMAIN s : s[k].tmp \in Dirs /\ (k < Len(s) => s[k].in = s[k].tmp)
    BY <1>2, <1>4, <2>2 DEF Chain
  <2>. QED
    BY <2>1, <2>4, <2>5 DEF Chain
<1>. QED
  BY <1>1, <1>2, <1>3, <1>4, <1>6, <1>7, CatrHereReads

\* An entry is passed: nothing but what is left to read changes.
LEMMA CatrHereSkips ==
  ASSUME Where, Standing, CatrHolds, CatrHere, cmd.op = "catr", nargs # 2, NEW e, CatrSkip(e)
  PROVE  CatrHere'
<1>0. pc = "catr"
  BY DEF CatrSkip
<1>1. PICK s, c, t, d : s = stack' /\ c = count /\ t = stack /\ d = cur
  OBVIOUS
<1>2. /\ inode = None /\ Exact(c, t) /\ Chain(t, d, Dirs) /\ t[Len(t)].in = d /\ t \in Seq(Frames) /\ t # <<>>
  BY <1>0, <1>1, CatrHereNow
<1>3. UNCHANGED <<tree, count, cur, inode>> /\ pc' = "catr"
  BY <1>0 DEF CatrSkip, Quiet
<1>4. /\ s \in Seq(Frames) /\ s # <<>> /\ Len(s) = Len(t) /\ s[Len(s)].in = d
      /\ s[Len(s)].tmp = t[Len(t)].tmp /\ \A n \in Inodes : Spare(c, s, n) = Spare(c, t, n)
  BY <1>1, <1>2, CatrSkipEffect
<1>5. \A k \in DOMAIN t : k < Len(t) => s[k] = t[k]
  BY <1>1, CatrSkipEffect
<1>6. Exact(c, s)
  BY <1>2, <1>4 DEF Exact
<1>7. Chain(s, d, Dirs)
  <2>1. s[Len(s)].tmp = d /\ s[Len(s)].in = d
    BY <1>2, <1>4 DEF Chain
  <2>2. ASSUME NEW k \in DOMAIN s PROVE s[k].tmp = t[k].tmp /\ k \in DOMAIN t /\ (k < Len(s) => s[k].in = t[k].in)
    <3>1. k \in DOMAIN t /\ Len(s) \in Nat /\ (k = Len(s) \/ k < Len(s))
      BY <1>2, <1>4
    <3>. QED
      BY <3>1, <1>4, <1>5
  <2>3. 1 \in DOMAIN s
    BY <1>4
  <2>4. s[1].tmp = Root
    BY <1>2, <2>2, <2>3 DEF Chain
  <2>5. \A k \in DOMAIN s : s[k].tmp \in Dirs /\ (k < Len(s) => s[k].in = s[k].tmp)
    BY <1>2, <1>4, <2>2 DEF Chain
  <2>. QED
    BY <2>1, <2>4, <2>5 DEF Chain
<1>. QED
  BY <1>1, <1>2, <1>3, <1>4, <1>6, <1>7, CatrHereReads

\* The next call, in the child.
LEMMA CatrHereGoes ==
  ASSUME Where, Standing, CatrHolds, CatrHere, cmd.op = "catr", nargs # 2, NEW e, CatrGo(e)
  PROVE  CatrHere'
<1>0. pc = "catr"
  BY DEF CatrGo
<1>1. PICK s, c, t, d, i : s = stack' /\ c = count' /\ t = stack /\ d = cur /\ i = e.nr
  OBVIOUS
<1>2. /\ inode = None /\ Exact(count, t) /\ Chain(t, d, Dirs) /\ t[Len(t)].in = d /\ t \in Seq(Frames) /\ t # <<>>
  BY <1>0, <1>1, CatrHereNow
<1>3. UNCHANGED <<tree, inode>> /\ cur' = i /\ IsDir(i)
  BY <1>1 DEF CatrGo, Quiet
<1>4. /\ s \in Seq(Frames) /\ s # <<>> /\ Len(s) = Len(t) + 1 /\ s[Len(s)].in = None /\ s[Len(s)].tmp = i
      /\ i \in Inodes /\ \A n \in Inodes : Spare(c, s, n) = Spare(count, t, n)
  BY <1>1, CatrGoEffect
<1>5. \A k \in DOMAIN t : s[k].in = t[k].in /\ s[k].tmp = t[k].tmp
  BY <1>1, CatrGoEffect
<1>6. Exact(c, s)
  BY <1>2, <1>4 DEF Exact
<1>7. i \in Dirs
  BY <1>3, <1>4 DEF Dirs
<1>8. Chain(s, i, Dirs)
  <2>1. s[Len(s)].tmp = i /\ s[Len(s)].in = None
    BY <1>4
  <2>2. ASSUME NEW k \in DOMAIN s PROVE s[k].tmp \in Dirs /\ (k < Len(s) => s[k].in = s[k].tmp)
    <3>1. Len(t) \in Nat /\ k \in 1 .. (Len(t) + 1) /\ Len(s) = Len(t) + 1
      BY <1>2, <1>4
    <3>2. CASE k = Len(t) + 1
      BY <1>4, <1>7, <3>1, <3>2
    <3>3. CASE k # Len(t) + 1
      <4>1. k \in DOMAIN t /\ (k = Len(t) \/ k < Len(t))
        BY <1>2, <3>1, <3>3
      <4>2. s[k].in = t[k].in /\ s[k].tmp = t[k].tmp
        BY <1>5, <4>1
      <4>3. t[k].tmp \in Dirs /\ (k < Len(t) => t[k].in = t[k].tmp) /\ t[Len(t)].tmp = d
        BY <1>2, <4>1 DEF Chain
      <4>. QED
        BY <1>2, <4>1, <4>2, <4>3
    <3>. QED
      BY <3>2, <3>3
  <2>3. 1 \in DOMAIN t
    BY <1>2
  <2>4. s[1].tmp = Root
    BY <1>2, <1>5, <2>3 DEF Chain
  <2>. QED
    BY <2>1, <2>2, <2>4 DEF Chain
<1>9. Lookup(Dot, "catr", i)
  <2>1. CatrPath = Dot
    BY Zenon DEF CatrPath
  <2>2. Lookup(CatrPath, "catr", e.nr)
    BY Zenon DEF CatrGo, CatrCall
  <2>. QED
    BY <1>1, <2>1, <2>2, Zenon
<1>10. pc' = "walk" /\ walk'.path = Dot /\ walk'.from = i
  BY <1>9, LookupDot
<1>. QED
  BY <1>1, <1>2, <1>3, <1>4, <1>6, <1>8, <1>10, CatrHereWalks

\* A call is through: back to its caller, or to main with the directory of main.
LEMMA CatrHereDone ==
  ASSUME Where, Standing, CatrHolds, CatrHere, cmd.op = "catr", nargs # 2, CatrDone
  PROVE  CatrHere'
<1>0. pc = "catr"
  BY DEF CatrDone
<1>1. PICK s, c, t, d : s = stack' /\ c = count' /\ t = stack /\ d = cur
  OBVIOUS
<1>2. /\ inode = None /\ Exact(count, t) /\ Chain(t, d, Dirs) /\ t[Len(t)].in = d /\ t \in Seq(Frames) /\ t # <<>>
      /\ d \in Inodes
  BY <1>0, <1>1, CatrHereNow
<1>3. UNCHANGED <<tree, inode>>
  BY DEF CatrDone, Quiet
<1>4. CASE Len(t) = 1
  <2>1. /\ s = <<>> /\ pc' = "exit" /\ cur' = Left(d, c) /\ c \in [Inodes -> Int]
        /\ \A n \in Inodes : c[n] = Spare(count, t, n) + B(t[1].tmp = n)
    BY <1>1, <1>4, CatrDoneEffect
  <2>2. t[1].tmp = Root /\ d = Root
    BY <1>2, <1>4 DEF Chain
  <2>3. ASSUME NEW n \in Inodes PROVE c[n] = B(Root = n)
    <3>1. Spare(count, t, n) = 0
      BY <1>2 DEF Exact
    <3>2. PICK b : b = B(Root = n)
      OBVIOUS
    <3>3. c[n] = Spare(count, t, n) + b /\ b \in Nat
      BY <2>1, <2>2, <3>2 DEF B
    <3>. QED
      BY <3>1, <3>2, <3>3
  <2>4. cur' = Root
    BY <2>1, <2>2, <2>3, InodeSet DEF Left, B
  <2>. QED
    BY <1>1, <1>2, <1>3, <2>1, <2>3, <2>4 DEF CatrHere, Walking
<1>5. CASE Len(t) # 1
  <2>0. PICK m : m = Len(t) - 1
    OBVIOUS
  <2>1. m \in Nat /\ m = Len(t) - 1 /\ m > 0 /\ m \in DOMAIN t /\ m < Len(t)
    <3>1. Len(t) \in Nat /\ Len(t) > 0 /\ DOMAIN t = 1 .. Len(t)
      BY <1>2
    <3>. QED
      BY <1>5, <2>0, <3>1
  <2>2. /\ pc' = "catr" /\ s # <<>> /\ s \in Seq(Frames) /\ Len(s) = m /\ c \in [Inodes -> Int]
        /\ s[Len(s)].in = t[m].in /\ s[Len(s)].tmp = t[m].tmp /\ cur' = t[m].tmp
        /\ \A n \in Inodes : Spare(c, s, n) = Spare(count, t, n)
    BY <1>1, <1>5, <2>1, CatrDoneEffect
  <2>3. \A k \in DOMAIN t : k < m => s[k] = t[k]
    BY <1>1, <1>5, <2>1, CatrDoneEffect
  <2>4. PICK o : o = t[m].tmp
    OBVIOUS
  <2>5. t[m].in = o /\ o \in Dirs
    BY <1>2, <2>1, <2>4 DEF Chain
  <2>6. Exact(c, s)
    BY <1>2, <2>2 DEF Exact
  <2>7. Chain(s, o, Dirs)
    <3>1. s[Len(s)].tmp = o /\ s[Len(s)].in = o
      BY <2>2, <2>4, <2>5
    <3>2. ASSUME NEW k \in DOMAIN s PROVE s[k].tmp = t[k].tmp /\ k \in DOMAIN t /\ (k < Len(s) => s[k].in = t[k].in)
      <4>1. k \in DOMAIN t /\ (k = m \/ k < m)
        BY <1>2, <2>1, <2>2
      <4>. QED
        BY <4>1, <2>2, <2>3
    <3>3. 1 \in DOMAIN s
      BY <2>2
    <3>4. s[1].tmp = Root
      BY <1>2, <3>2, <3>3 DEF Chain
    <3>5. ASSUME NEW k \in DOMAIN s PROVE s[k].tmp \in Dirs /\ (k < Len(s) => s[k].in = s[k].tmp)
      <4>1. k \in DOMAIN t /\ (k < Len(s) => k < Len(t))
        BY <3>2, <2>1, <2>2
      <4>2. t[k].tmp \in Dirs /\ (k < Len(t) => t[k].in = t[k].tmp)
        BY <1>2, <4>1 DEF Chain
      <4>. QED
        BY <3>2, <4>1, <4>2
    <3>. QED
      BY <3>1, <3>4, <3>5 DEF Chain
  <2>8. s[Len(s)].in = o /\ cur' = o /\ inode' = None
    BY <1>2, <1>3, <2>2, <2>4, <2>5
  <2>. QED
    BY <1>1, <1>3, <2>2, <2>6, <2>7, <2>8, CatrHereReads
<1>. QED
  BY <1>4, <1>5

\* Every step of a catr without an argument keeps its calls a chain of directories, each in the one
\* before.
LEMMA CatrHereStep ==
  ASSUME Where, Standing, CatrHolds, CatrHere, cmd.op = "catr", nargs # 2, CatrStep
  PROVE  CatrHere'
<1>1. CASE CatrNone \/ CatrUp(stack[Len(stack) - 1], SubSeq(stack, 1, Len(stack) - 2),
                              Put(Put(count, stack[Len(stack) - 1].cin), stack[Len(stack) - 1].in))
  <2>1. AtFound /\ ret < 0
    BY <1>1 DEF CatrNone, CatrUp
  <2>2. ret \in Inodes
    BY <2>1, CatrHereNow, Zenon
  <2>. QED
    BY <2>1, <2>2, InodeSet
<1>2. ASSUME NEW by, CatrFault(by) PROVE CatrHere'
  <2>1. UNCHANGED <<tree, count, cur, inode, stack, cmd>> /\ pc' = "dead"
    BY <1>2 DEF CatrFault, Kill, mem
  <2>. QED
    BY <2>1, CatrHereKept
<1>3. CASE CatrStart
  BY <1>3, CatrHereStarts
<1>4. CASE CatrHas
  BY <1>4, CatrHereHas
<1>5. CASE CatrDone
  BY <1>5, CatrHereDone
<1>6. ASSUME NEW e, CatrSkip(e) \/ CatrGo(e) PROVE CatrHere'
  BY <1>6, CatrHereSkips, CatrHereGoes
<1>. QED
  BY <1>1, <1>2, <1>3, <1>4, <1>5, <1>6, Zenon DEF CatrStep

\* Without an argument catr ends every call in the directory it began in.
LEMMA CatrHereNext ==
  ASSUME Where, Standing, Balanced, CatrHolds, CatrHere, [Next]_vars
  PROVE  CatrHere'
<1>1. CASE Start
  <2>1. /\ pc = "idle" /\ count' = Get(count, Root) /\ UNCHANGED <<stack, inode>> /\ cur' = Root
        /\ pc' \in {"dead", "exit", "handler", "quit"}
    BY <1>1 DEF Start, Launch
  <2>2. cmd.op = "none" /\ inode = None /\ stack = <<>> /\ cur = None
    BY <2>1 DEF Where, Stage, AtIdle, NoCmd, Plain
  <2>3. count \in [Inodes -> Int]
    BY DEF Where, Typed, TypedCount
  <2>4. \A n \in Inodes : count'[n] = count[n] + B(n = Root)
    BY <2>1, <2>3, Counting
  <2>5. \A n \in Inodes : count[n] = B(None = n) + B(None = n) + In(<<>>, n)
    BY <2>2 DEF Balanced
  <2>6. ASSUME NEW n \in Inodes PROVE count'[n] = B(Root = n)
    BY <2>4, <2>5, Nobody, CallsNone DEF B
  <2>. QED
    BY <2>1, <2>2, <2>6 DEF CatrHere, Walking
<1>2. CASE Forget
  BY <1>2 DEF Forget, CatrHere, NoCmd
<1>3. CASE ~(cmd.op = "catr" /\ nargs # 2) /\ ~Start /\ ~Forget
  <2>1. cmd' = cmd
    BY <1>3, CmdKept
  <2>. QED
    BY <1>3, <2>1 DEF CatrHere, nargs
<1>4. CASE cmd.op = "catr" /\ nargs # 2
  <2>1. CASE UNCHANGED vars
    <3>1. UNCHANGED <<tree, inode, count, stack, cmd, pc, walk, cur, ret>>
      BY <2>1 DEF vars, mem
    <3>. QED
      BY <3>1 DEF CatrHere, Walking, Exact, Spare, In, Cin, Chain, Dirs, IsDir, nargs
  <2>2. ASSUME pc = "handler", NEW r, EndStep(r) PROVE CatrHere'
    <3>1. UNCHANGED <<tree, count, cur, inode, stack, cmd>> /\ pc' = "exit"
      BY <2>2 DEF EndStep, Return, Quiet, mem
    <3>. QED
      BY <3>1, CatrHereKept
  <2>3. ASSUME NEW by, Kill(by) PROVE CatrHere'
    <3>1. UNCHANGED <<tree, count, cur, inode, stack, cmd>> /\ pc' = "dead"
      BY <2>3 DEF Kill, mem
    <3>. QED
      BY <3>1, CatrHereKept
  <2>4. CASE Walk \/ WalkEnd
    BY <1>4, <2>4, CatrHereWalk
  <2>5. CASE CatrStep
    BY <1>4, <2>5, CatrHereStep
  <2>. QED
    BY <1>2, <1>4, <2>1, <2>2, <2>3, <2>4, <2>5, CatrSteps, Zenon
<1>. QED
  BY <1>1, <1>2, <1>3, <1>4

\* A catr without an argument counts exactly, and every nested call is on a directory that the
\* calling one names: what file.c:60-100 takes for granted of any argument.
THEOREM CatrHereInvariant == Spec => []CatrHere
<1>1. Init => CatrHere
  BY CatrHereInit
<1>2. Where /\ Standing /\ Counted /\ CatrHere /\ [Next]_vars => CatrHere'
  BY CatrHereNext DEF Counted
<1>. QED
  BY <1>1, <1>2, WhereInvariant, StandingInvariant, CountedInvariant, PTL DEF Spec

\* When a command is over the current directory is the one it began in, unless it is cd, and
\* no transaction is open (dir.c:525, dir.c:396, dir.c:404).
THEOREM CommandsComeBack == Spec => []ComesBack
<1>1. ASSUME Where, CatrHere PROVE ComesBack
  <2>. SUFFICES ASSUME pc = "exit"
                PROVE  (cur = Root \/ cmd.op = "cd" \/ CatrAway) /\ tx = "TX_NONE"
    BY DEF ComesBack
  <2>1. AtExit
    BY <1>1 DEF Where, Stage
  <2>2. cmd.op = "catr" /\ nargs # 2 => cur = Root
    BY <1>1, <2>1 DEF CatrHere, AtExit
  <2>. QED
    BY <2>1, <2>2 DEF AtExit, CatrAway
<1>. QED
  BY <1>1, WhereInvariant, CatrHereInvariant, PTL

\* Whose the inode of main's current directory is, while catr goes down.
LEMMA MainsDirectory ==
  ASSUME NEW s \in Seq(Frames), s # <<>>, Linked(s), EndsOpen(s), NEW d, Chain(s, d, Dirs)
  PROVE  (IF s # <<>> /\ s[1].cin # None THEN s[1].tmp ELSE d) = s[1].tmp
<1>1. Len(s) \in Nat /\ Len(s) > 0 /\ DOMAIN s = 1 .. Len(s)
  OBVIOUS
<1>2. CASE Len(s) = 1
  BY <1>2 DEF Chain
<1>3. CASE Len(s) # 1
  <2>1. 1 \in DOMAIN s /\ 1 < Len(s)
    BY <1>1, <1>3
  <2>2. s[1].cin # None
    BY <2>1 DEF Linked
  <2>. QED
    BY <2>2
<1>. QED
  BY <1>2, <1>3

\* Every inode in memory is counted once for each pointer that will put it, however deep the
\* calls are and wherever a walk has been (dir.c:525, super.c:257, dir.c:597).
THEOREM CountsAreBalanced == Spec => []CountsBalance
<1>1. ASSUME Where, Counted, CatrHere PROVE CountsBalance
  <2>. DEFINE lent == stack # <<>> /\ stack[1].cin # None
  <2>. DEFINE mains == IF lent THEN stack[1].tmp ELSE cur
  <2>. SUFFICES ASSUME ~CatrAway, NEW n \in Inodes
                PROVE  count[n] = B(mains = n) + B(inode = n) + In(stack, n) + Cin(stack, n)
    BY Zenon DEF CountsBalance, B, In, Cin
  <2>0. stack \in Seq(Frames) /\ count \in [Inodes -> Int]
    BY <1>1 DEF Where, Typed, TypedStack, TypedCount
  <2>1. CASE cmd.op # "catr"
    <3>1. \A k \in DOMAIN stack : stack[k].cin = None
      BY <1>1, <2>1 DEF Where, Listing
    <3>2. Cin(stack, n) = 0
      <4>1. \A k \in DOMAIN stack : stack[k].cin # n
        BY <3>1, InodeSet
      <4>. QED
        BY <2>0, <4>1, CallsFree
    <3>3. mains = cur
      <4>1. stack # <<>> => 1 \in DOMAIN stack
        BY <2>0
      <4>. QED
        BY <3>1, <4>1
    <3>4. PICK x, y, i : x = B(cur = n) /\ y = B(inode = n) /\ i = In(stack, n)
      OBVIOUS
    <3>5. count[n] = x + y + i
      BY <1>1, <2>1, <3>4 DEF Counted, Balanced
    <3>6. x \in Nat /\ y \in Nat /\ i \in Nat /\ x = B(mains = n)
      <4>1. i \in Nat
        BY <2>0, <3>4, CallsFinite
      <4>2. x \in Nat /\ y \in Nat
        BY <3>4 DEF B
      <4>3. x = B(mains = n)
        BY <3>3, <3>4, Zenon
      <4>. QED
        BY <4>1, <4>2, <4>3
    <3>. HIDE DEF mains, lent
    <3>. QED
      BY <3>2, <3>4, <3>5, <3>6
  <2>2. CASE cmd.op = "catr"
    <3>1. nargs # 2 /\ inode = None
      BY <1>1, <2>2 DEF CatrAway, CatrHere
    <3>2. B(inode = n) = 0
      BY <3>1, Nobody
    <3>3. CASE stack = <<>>
      <4>1. cur = Root /\ count[n] = B(Root = n)
        BY <1>1, <2>2, <3>1, <3>3 DEF CatrHere
      <4>2. mains = cur
        BY <3>3
      <4>3. In(stack, n) = 0 /\ Cin(stack, n) = 0
        BY <3>3, CallsNone
      <4>4. PICK x : x = B(Root = n)
        OBVIOUS
      <4>5. x \in Nat /\ x = B(mains = n)
        <5>1. x = B(mains = n)
          BY <4>1, <4>2, <4>4, Zenon
        <5>. QED
          BY <4>4, <5>1 DEF B
      <4>. HIDE DEF mains, lent
      <4>. QED
        BY <3>2, <4>1, <4>3, <4>4, <4>5
    <3>4. CASE stack # <<>>
      <4>1. /\ Spare(count, stack, n) = 0 /\ Chain(stack, cur, Dirs)
            /\ Linked(stack) /\ EndsOpen(stack)
        BY <1>1, <2>2, <3>1, <3>4 DEF CatrHere, Exact, Counted, CatrHolds
      <4>2. mains = stack[1].tmp
        BY <2>0, <3>4, <4>1, MainsDirectory, Zenon
      <4>3. PICK x : x = B(stack # <<>> /\ stack[1].tmp = n)
        OBVIOUS
      <4>4. x = B(mains = n)
        BY <3>4, <4>2, <4>3 DEF B
      <4>5. count[n] = Spare(count, stack, n) + In(stack, n) + Cin(stack, n) + x
        BY <2>0, <4>3, SpareType
      <4>6. x \in Nat /\ In(stack, n) \in Nat /\ Cin(stack, n) \in Nat
        BY <2>0, <4>3, CallsFinite DEF B
      <4>. HIDE DEF mains, lent
      <4>. QED
        BY <3>2, <4>1, <4>4, <4>5, <4>6
    <3>. QED
      BY <3>3, <3>4
  <2>. QED
    BY <2>1, <2>2
<1>. QED
  BY <1>1, WhereInvariant, CountedInvariant, CatrHereInvariant, PTL

-----------------------------------------------------------------------------
(* How deep the calls go.  Each is below its caller in the tree, which has *)
(* a rank, so that none is in a directory twice and the stack is not       *)
(* deeper than the inodes are many.                                        *)

DirOf(f, op) == IF op = "catr" THEN f.tmp ELSE f.in
ReadsFrom(f, op) ==
  /\ DirOf(f, op) \in Inodes
  /\ \A e \in f.rest : /\ e \in tree[DirOf(f, op)].ents
                       /\ op \in {"checkfs", "catr"} => e.name \notin Special
Inside(s, op) == \A k \in DOMAIN s : ReadsFrom(s[k], op)
Ordered(s, op, rank) == \A i, j \in DOMAIN s : i < j => rank[DirOf(s[i], op)] < rank[DirOf(s[j], op)]
Downward(s, op) == \A rank \in [Inodes -> Nat] : Rising(rank) => Ordered(s, op, rank)

Deep == ~CatrAway => Inside(stack, cmd.op) /\ Downward(stack, cmd.op)

\* Of no call there is nothing to say.
LEMMA DeepNone ==
  ASSUME NEW op
  PROVE  Inside(<<>>, op) /\ Downward(<<>>, op)
BY DEF Inside, Downward, Ordered

\* No call is added, and none goes into another directory.
LEMMA DeepSame ==
  ASSUME NEW op, NEW s \in Seq(Frames), NEW t \in Seq(Frames), Len(t) <= Len(s),
         Inside(s, op), Downward(s, op),
         \A k \in DOMAIN t : DirOf(t[k], op) = DirOf(s[k], op) /\ ReadsFrom(t[k], op)
  PROVE  Inside(t, op) /\ Downward(t, op)
<1>1. \A k \in DOMAIN t : k \in DOMAIN s
  OBVIOUS
<1>2. ASSUME NEW rank \in [Inodes -> Nat], Rising(rank) PROVE Ordered(t, op, rank)
  <2>1. Ordered(s, op, rank)
    BY <1>2 DEF Downward
  <2>. SUFFICES ASSUME NEW i \in DOMAIN t, NEW j \in DOMAIN t, i < j
                PROVE  rank[DirOf(t[i], op)] < rank[DirOf(t[j], op)]
    BY DEF Ordered
  <2>2. i \in DOMAIN s /\ j \in DOMAIN s
    BY <1>1
  <2>3. rank[DirOf(s[i], op)] < rank[DirOf(s[j], op)]
    BY <2>1, <2>2 DEF Ordered
  <2>. HIDE DEF DirOf
  <2>. QED
    BY <2>3
<1>. QED
  BY <1>2 DEF Inside, Downward

\* A call in an entry of the directory at the top.
LEMMA DeepMore ==
  ASSUME NEW op, NEW s \in Seq(Frames), s # <<>>, NEW t \in Seq(Frames), Len(t) = Len(s) + 1,
         TypedTree, Inside(s, op), Downward(s, op),
         \A k \in DOMAIN s : DirOf(t[k], op) = DirOf(s[k], op) /\ ReadsFrom(t[k], op),
         ReadsFrom(t[Len(t)], op), NEW e, e \in Real(DirOf(s[Len(s)], op)), DirOf(t[Len(t)], op) = e.nr
  PROVE  Inside(t, op) /\ Downward(t, op)
<1>1. PICK m : m = Len(s)
  OBVIOUS
<1>2. m \in Nat /\ m > 0 /\ Len(t) = m + 1 /\ DOMAIN s = 1 .. m /\ DOMAIN t = 1 .. (m + 1)
  BY <1>1
<1>3. Inside(t, op)
  <2>. SUFFICES ASSUME NEW k \in DOMAIN t PROVE ReadsFrom(t[k], op)
    BY DEF Inside
  <2>1. k = m + 1 \/ k \in DOMAIN s
    BY <1>2
  <2>. QED
    BY <1>2, <2>1
<1>4. ASSUME NEW rank \in [Inodes -> Nat], Rising(rank) PROVE Ordered(t, op, rank)
  <2>1. Ordered(s, op, rank)
    BY <1>4 DEF Downward
  <2>. SUFFICES ASSUME NEW i \in DOMAIN t, NEW j \in DOMAIN t, i < j
                PROVE  rank[DirOf(t[i], op)] < rank[DirOf(t[j], op)]
    BY DEF Ordered
  <2>2. PICK a, b, d : a = DirOf(t[i], op) /\ b = DirOf(t[j], op) /\ d = DirOf(s[m], op)
    OBVIOUS
  <2>3. i \in DOMAIN s /\ m \in DOMAIN s /\ a = DirOf(s[i], op)
    BY <1>2, <2>2
  <2>4. a \in Inodes /\ d \in Inodes
    BY <2>2, <2>3 DEF Inside, ReadsFrom
  <2>5. CASE j \in DOMAIN s
    <3>1. b = DirOf(s[j], op)
      BY <2>2, <2>5
    <3>2. rank[DirOf(s[i], op)] < rank[DirOf(s[j], op)]
      BY <2>1, <2>3, <2>5 DEF Ordered
    <3>. QED
      BY <2>2, <2>3, <3>1, <3>2
  <2>6. CASE j \notin DOMAIN s
    <3>1. j = m + 1 /\ (i < m \/ i = m) /\ b = e.nr
      BY <1>2, <2>2, <2>3, <2>6
    <3>2. e \in Real(d) /\ e.nr \in Inodes
      <4>1. e \in Real(d)
        BY <1>1, <2>2
      <4>. QED
        BY <2>4, <4>1, RealType
    <3>3. rank[d] < rank[b]
      BY <1>4, <2>4, <3>1, <3>2 DEF Rising
    <3>4. i < m => rank[a] < rank[d]
      BY <2>1, <2>2, <2>3 DEF Ordered
    <3>5. rank[a] \in Nat /\ rank[d] \in Nat /\ rank[b] \in Nat /\ (i = m => a = d)
      BY <2>2, <2>3, <2>4, <3>1, <3>2
    <3>. QED
      BY <2>2, <3>1, <3>3, <3>4, <3>5
  <2>. QED
    BY <2>5, <2>6
<1>. QED
  BY <1>3, <1>4 DEF Downward

\* The calls and one more in an entry are no more than there are inodes.
LEMMA NotEndless ==
  ASSUME Tree, TypedTree, NEW op, NEW s \in Seq(Frames), s # <<>>, Inside(s, op), Downward(s, op),
         NEW e, e \in Real(DirOf(s[Len(s)], op))
  PROVE  Len(s) < MaxDepth
<1>1. PICK rank \in [Inodes -> Nat] : Rising(rank)
  BY DEF Tree, NoCycle
<1>2. PICK m : m = Len(s)
  OBVIOUS
<1>3. m \in Nat /\ m > 0 /\ DOMAIN s = 1 .. m /\ m \in DOMAIN s
  BY <1>2
<1>4. \A k \in DOMAIN s : DirOf(s[k], op) \in Inodes
  BY DEF Inside, ReadsFrom
<1>5. Ordered(s, op, rank)
  BY <1>1 DEF Downward
<1>6. e.nr \in Inodes /\ rank[DirOf(s[m], op)] < rank[e.nr]
  <2>1. e \in Real(DirOf(s[m], op)) /\ DirOf(s[m], op) \in Inodes
    BY <1>2, <1>3, <1>4
  <2>2. e.nr \in Inodes
    BY <2>1, RealType
  <2>. QED
    BY <1>1, <2>1, <2>2 DEF Rising
<1>. DEFINE f == [k \in 1 .. (m + 1) |-> IF k = m + 1 THEN e.nr ELSE DirOf(s[k], op)]
<1>7. f \in [1 .. (m + 1) -> Inodes]
  BY <1>3, <1>4, <1>6
<1>8. ASSUME NEW i \in 1 .. (m + 1), NEW j \in 1 .. (m + 1), i < j
      PROVE  rank[f[i]] < rank[f[j]]
  <2>1. i \in DOMAIN s /\ f[i] = DirOf(s[i], op)
    BY <1>3, <1>8
  <2>2. CASE j = m + 1
    <3>1. f[j] = e.nr /\ (i < m \/ i = m)
      BY <1>3, <1>8, <2>1, <2>2
    <3>2. i < m => rank[DirOf(s[i], op)] < rank[DirOf(s[m], op)]
      BY <1>3, <1>5, <2>1 DEF Ordered
    <3>3. rank[DirOf(s[i], op)] \in Nat /\ rank[DirOf(s[m], op)] \in Nat /\ rank[e.nr] \in Nat
      BY <1>3, <1>4, <1>6, <2>1
    <3>. HIDE DEF f, DirOf
    <3>. QED
      BY <1>6, <2>1, <3>1, <3>2, <3>3
  <2>3. CASE j # m + 1
    <3>1. j \in DOMAIN s /\ f[j] = DirOf(s[j], op)
      BY <1>3, <2>3
    <3>. HIDE DEF f, DirOf
    <3>. QED
      BY <1>5, <1>8, <2>1, <3>1 DEF Ordered
  <2>. QED
    BY <2>2, <2>3
<1>. HIDE DEF f
<1>9. \A i, j \in 1 .. (m + 1) : i # j => f[i] # f[j]
  <2>. SUFFICES ASSUME NEW i \in 1 .. (m + 1), NEW j \in 1 .. (m + 1), i # j, f[i] = f[j]
                PROVE  FALSE
    OBVIOUS
  <2>1. i < j \/ j < i
    BY <1>3
  <2>2. rank[f[i]] \in Nat /\ rank[f[j]] \in Nat
    BY <1>7
  <2>3. rank[f[i]] < rank[f[j]] \/ rank[f[j]] < rank[f[i]]
    BY <1>8, <2>1
  <2>. QED
    BY <2>2, <2>3
<1>10. IsFiniteSet(1 .. (m + 1)) /\ Cardinality(1 .. (m + 1)) = m + 1
  <2>1. 1 \in Int /\ m + 1 \in Int /\ ~(1 > m + 1) /\ (m + 1) - 1 + 1 = m + 1
    BY <1>3
  <2>. QED
    BY <2>1, FS_Interval
<1>11. IsFiniteSet(Inodes) /\ Cardinality(Inodes) = NrInodes
  <2>1. 0 \in Int /\ NrInodes - 1 \in Int /\ ~(0 > NrInodes - 1) /\ (NrInodes - 1) - 0 + 1 = NrInodes
    BY InodeSet
  <2>. QED
    BY <2>1, FS_Interval DEF Inodes
<1>12. ~(NrInodes < m + 1)
  BY <1>7, <1>9, <1>10, <1>11, FS_PigeonHole
<1>. QED
  BY <1>2, <1>3, <1>12, InodeSet

\* The new calls have what is to be shown of them.
LEMMA DeepIs ==
  ASSUME NEW s, NEW op, stack' = s, cmd.op = op, UNCHANGED <<tree, cmd>>,
         Inside(s, op), Downward(s, op)
  PROVE  Deep'
<1>1. Inside(s, op)'
  BY DEF Inside, ReadsFrom
<1>2. Downward(s, op)'
  BY DEF Downward, Rising, Real
<1>3. Inside(stack, cmd.op)' /\ Downward(stack, cmd.op)'
  BY <1>1, <1>2 DEF Inside, ReadsFrom, Downward
<1>. QED
  BY <1>3 DEF Deep

\* Nor where the last call has returned.
LEMMA DeepEmpty ==
  ASSUME stack' = <<>>
  PROVE  Deep'
<1>1. Inside(stack, cmd.op)'
  BY DEF Inside
<1>2. Downward(stack, cmd.op)'
  BY DEF Downward, Ordered
<1>. QED
  BY <1>1, <1>2 DEF Deep

\* A step that leaves the tree and the calls alone keeps them nested.
LEMMA DeepKept ==
  ASSUME Deep, UNCHANGED <<tree, stack, cmd>>
  PROVE  Deep'
<1>1. CASE CatrAway
  BY <1>1 DEF Deep, CatrAway, nargs
<1>2. CASE ~CatrAway
  <2>1. PICK s, op : s = stack /\ op = cmd.op
    OBVIOUS
  <2>2. Inside(s, op) /\ Downward(s, op)
    BY <1>2, <2>1 DEF Deep
  <2>. QED
    BY <2>1, <2>2, DeepIs
<1>. QED
  BY <1>1, <1>2

\* Where ls, lsr or checkfs is, and what is left to read at the top.
LEMMA ListNow ==
  ASSUME Where, Deep, pc = "list"
  PROVE  \E s \in Seq(Frames), op \in {"ls", "lsr", "checkfs"} :
           /\ s = stack /\ op = cmd.op /\ s # <<>> /\ Inside(s, op) /\ Downward(s, op)
           /\ Top = s[Len(s)] /\ Top \in Frames /\ Len(s) \in DOMAIN s /\ Len(s) \in Nat /\ Top.fn = op
           /\ Top.in \in Inodes /\ DirOf(Top, op) = Top.in
           /\ \A e \in Top.rest : e \in tree[Top.in].ents /\ e.nr \in Inodes
           /\ \A e : Entered(e) => e \in Real(Top.in)
<1>1. PICK s, op : s = stack /\ op = cmd.op
  OBVIOUS
<1>2. s \in Seq(Frames) /\ TypedTree /\ s # <<>> /\ op \in {"ls", "lsr", "checkfs"}
  BY <1>1 DEF Where, Typed, TypedStack, Stage, AtList, Visiting
<1>3. ~CatrAway
  BY <1>1, <1>2 DEF CatrAway
<1>4. Inside(s, op) /\ Downward(s, op)
  BY <1>1, <1>3 DEF Deep
<1>5. Top = s[Len(s)] /\ Top \in Frames /\ Len(s) \in DOMAIN s /\ Len(s) \in Nat
  BY <1>1, <1>2, StackTop DEF Top
<1>6. Top.fn = op /\ Top.in \in Inodes
  BY <1>1, <1>2, <1>5 DEF Where, Listing
<1>7. DirOf(Top, op) = Top.in
  BY <1>2 DEF DirOf
<1>8. ReadsFrom(Top, op)
  BY <1>4, <1>5 DEF Inside
<1>9. \A e \in Top.rest : e \in tree[Top.in].ents /\ e.nr \in Inodes
  BY <1>2, <1>6, <1>7, <1>8, RealType DEF ReadsFrom
<1>10. \A e : Entered(e) => e \in Real(Top.in)
  BY <1>6, <1>8, <1>9 DEF Entered, Real, ReadsFrom
<1>. QED
  BY <1>1, <1>2, <1>4, <1>5, <1>6, <1>7, <1>9, <1>10, Zenon

\* An entry is listed, and what is below it.
LEMMA DeepEntry ==
  ASSUME Where, Deep, NEW e, e \in Top.rest, pc = "list",
         \/ SkipEntry(e)
         \/ Entered(e) /\ \E r : EnterEntry(e, r) /\ (r = Real(e.nr) \/ (r = tree[e.nr].ents /\ Top.fn = "lsr"))
  PROVE  Deep'
<1>1. PICK s \in Seq(Frames), op \in {"ls", "lsr", "checkfs"} :
           /\ s = stack /\ op = cmd.op /\ s # <<>> /\ Inside(s, op) /\ Downward(s, op)
           /\ Top = s[Len(s)] /\ Top \in Frames /\ Len(s) \in DOMAIN s /\ Len(s) \in Nat /\ Top.fn = op
           /\ Top.in \in Inodes /\ DirOf(Top, op) = Top.in
           /\ \A x \in Top.rest : x \in tree[Top.in].ents /\ x.nr \in Inodes
           /\ \A x : Entered(x) => x \in Real(Top.in)
  BY ListNow
<1>t. TypedTree
  BY DEF Where, Typed
<1>2. PICK v, u, m : v = Visited(e) /\ u = Append(Front(s), v) /\ m = Len(s)
  OBVIOUS
<1>3. v \in Frames /\ v.in = Top.in /\ v.rest = Top.rest \ {e}
  BY <1>1, <1>2, VisitedType, Zenon
<1>4. /\ u \in Seq(Frames) /\ Len(u) = m /\ DOMAIN u = DOMAIN s /\ DOMAIN s = 1 .. m
      /\ \A k \in DOMAIN s : u[k] = IF k = m THEN v ELSE s[k]
  <2>1. \A f \in Frames : /\ Append(Front(s), f) \in Seq(Frames) /\ Len(Append(Front(s), f)) = Len(s)
                          /\ \A k \in 1 .. Len(s) : Append(Front(s), f)[k] = IF k = Len(s) THEN f ELSE s[k]
    BY <1>1, StackTop
  <2>2. u \in Seq(Frames) /\ Len(u) = m /\ \A k \in 1 .. m : u[k] = IF k = m THEN v ELSE s[k]
    BY <1>2, <1>3, <2>1
  <2>3. DOMAIN s = 1 .. m /\ DOMAIN u = 1 .. m
    BY <1>1, <1>2, <2>2
  <2>. QED
    BY <2>2, <2>3
<1>5. DirOf(v, op) = DirOf(Top, op) /\ ReadsFrom(v, op)
  <2>1. DirOf(v, op) = DirOf(Top, op)
    BY <1>1, <1>3 DEF DirOf
  <2>2. ReadsFrom(Top, op)
    BY <1>1 DEF Inside
  <2>. QED
    BY <1>3, <2>1, <2>2 DEF ReadsFrom
<1>6. \A k \in DOMAIN s : DirOf(u[k], op) = DirOf(s[k], op) /\ ReadsFrom(u[k], op)
  <2>. SUFFICES ASSUME NEW k \in DOMAIN s PROVE DirOf(u[k], op) = DirOf(s[k], op) /\ ReadsFrom(u[k], op)
    OBVIOUS
  <2>1. CASE k = m
    BY <1>1, <1>2, <1>4, <1>5, <2>1
  <2>2. CASE k # m
    BY <1>1, <1>4, <2>2 DEF Inside
  <2>. QED
    BY <2>1, <2>2
<1>7. CASE SkipEntry(e)
  <2>1. stack' = u /\ UNCHANGED <<tree, cmd>>
    BY <1>1, <1>2, <1>7 DEF SkipEntry, Quiet
  <2>2. /\ s \in Seq(Frames) /\ u \in Seq(Frames) /\ Len(u) <= Len(s)
        /\ \A k \in DOMAIN u : DirOf(u[k], op) = DirOf(s[k], op) /\ ReadsFrom(u[k], op)
    BY <1>1, <1>2, <1>4, <1>6
  <2>3. Inside(u, op) /\ Downward(u, op)
    BY <1>1, <2>2, DeepSame
  <2>. QED
    BY <1>1, <2>1, <2>3, DeepIs
<1>8. ASSUME Entered(e), NEW r, r = Real(e.nr) \/ (r = tree[e.nr].ents /\ Top.fn = "lsr"), EnterEntry(e, r)
      PROVE  Deep'
  <2>1. PICK f, t, i : f = Call(op, e.nr, r) /\ t = Append(u, f) /\ i = e.nr
    OBVIOUS
  <2>2. i \in Inodes /\ e \in Real(Top.in)
    BY <1>1, <1>8, <2>1
  <2>3. r \in SUBSET Entries /\ r \subseteq tree[i].ents /\ (r = Real(i) \/ op = "lsr")
    BY <1>t, <1>1, <1>8, <2>1, <2>2, RealType
  <2>4. f \in Frames /\ f.in = i /\ f.rest = r
    BY <2>1, <2>2, <2>3, CallType DEF Pointer
  <2>5. DirOf(f, op) = i /\ ReadsFrom(f, op)
    <3>1. DirOf(f, op) = i
      BY <2>4 DEF DirOf
    <3>. QED
      BY <2>2, <2>3, <2>4, <3>1 DEF ReadsFrom, Real
  <2>6. /\ t \in Seq(Frames) /\ Len(t) = m + 1 /\ t[Len(t)] = f
        /\ \A k \in DOMAIN s : t[k] = u[k]
    BY <1>1, <1>2, <1>4, <2>1, <2>4
  <2>7. stack' = t /\ UNCHANGED <<tree, cmd>>
    BY <1>1, <1>2, <1>8, <2>1 DEF EnterEntry, Quiet
  <2>8. \A k \in DOMAIN s : DirOf(t[k], op) = DirOf(s[k], op) /\ ReadsFrom(t[k], op)
    BY <1>6, <2>6
  <2>9. /\ ReadsFrom(t[Len(t)], op) /\ DirOf(t[Len(t)], op) = e.nr
        /\ e \in Real(DirOf(s[Len(s)], op)) /\ Len(t) = Len(s) + 1
    BY <1>1, <1>2, <2>1, <2>2, <2>5, <2>6
  <2>10. Inside(t, op) /\ Downward(t, op)
    BY <1>1, <1>t, <2>6, <2>8, <2>9, DeepMore
  <2>. QED
    BY <1>1, <2>7, <2>10, DeepIs
<1>. QED
  BY <1>7, <1>8

\* The first call of a command is on the directory it was asked to list.
LEMMA DeepOne ==
  ASSUME NEW op, NEW s \in Seq(Frames), Len(s) = 1, ReadsFrom(s[1], op)
  PROVE  Inside(s, op) /\ Downward(s, op)
<1>1. \A k \in DOMAIN s : k = 1
  OBVIOUS
<1>2. Inside(s, op)
  BY <1>1 DEF Inside
<1>3. ASSUME NEW i \in DOMAIN s, NEW j \in DOMAIN s PROVE ~(i < j)
  BY <1>1
<1>. QED
  BY <1>2, <1>3 DEF Downward, Ordered

\* The first call of ls, lsr and checkfs, and the end of one.
LEMMA DeepFirst ==
  ASSUME Where, NEW n \in Inodes, NEW rest, FirstCall(n, rest),
         rest = Real(n) \/ (rest = tree[n].ents /\ cmd.op # "checkfs")
  PROVE  Deep'
<1>1. TypedTree /\ cmd.op \in {"ls", "lsr", "checkfs"}
  BY DEF Where, Typed, FirstCall
<1>2. PICK f, s, op : f = Call(cmd.op, n, rest) /\ s = <<f>> /\ op = cmd.op
  OBVIOUS
<1>3. rest \in SUBSET Entries /\ rest \subseteq tree[n].ents
  BY <1>1, RealType
<1>4. f \in Frames /\ f.in = n /\ f.rest = rest
  BY <1>1, <1>2, <1>3, CallType DEF Pointer
<1>5. s \in Seq(Frames) /\ Len(s) = 1 /\ s[1] = f
  BY <1>2, <1>4
<1>6. ReadsFrom(f, op)
  <2>1. DirOf(f, op) = n
    BY <1>1, <1>2, <1>4 DEF DirOf
  <2>. QED
    BY <1>1, <1>2, <1>3, <1>4, <2>1 DEF ReadsFrom, Real
<1>7. Inside(s, op) /\ Downward(s, op)
  BY <1>5, <1>6, DeepOne
<1>8. stack' = s /\ UNCHANGED <<tree, cmd>>
  BY <1>2 DEF FirstCall, Quiet
<1>. QED
  BY <1>2, <1>7, <1>8, DeepIs

\* A listing call that returns leaves its callers nested as they were.
LEMMA DeepEnd ==
  ASSUME Where, Deep, ListEnd
  PROVE  Deep'
<1>0. pc = "list" /\ stack' = Front(stack) /\ UNCHANGED <<tree, cmd>>
  BY DEF ListEnd, Quiet
<1>1. PICK s \in Seq(Frames), op \in {"ls", "lsr", "checkfs"} :
           s = stack /\ op = cmd.op /\ s # <<>> /\ Inside(s, op) /\ Downward(s, op)
  BY <1>0, ListNow
<1>2. PICK t : t = Front(s)
  OBVIOUS
<1>3. /\ t \in Seq(Frames) /\ Len(t) <= Len(s) /\ \A k \in DOMAIN t : k \in DOMAIN s /\ t[k] = s[k]
  <2>1. /\ Len(s) \in Nat /\ t \in Seq(Frames) /\ Len(t) = Len(s) - 1
        /\ \A k \in 1 .. (Len(s) - 1) : t[k] = s[k]
    BY <1>1, <1>2, StackTop
  <2>. QED
    BY <1>1, <2>1
<1>4. \A k \in DOMAIN t : DirOf(t[k], op) = DirOf(s[k], op) /\ ReadsFrom(t[k], op)
  BY <1>1, <1>3 DEF Inside
<1>5. Inside(t, op) /\ Downward(t, op)
  BY <1>1, <1>3, <1>4, DeepSame
<1>. QED
  BY <1>0, <1>1, <1>2, <1>5, DeepIs

\* Every step of ls, lsr and checkfs.
LEMMA DeepList ==
  ASSUME Where, Deep, LsFound \/ LsEntry \/ cmd_checkfs \/ CheckEntry \/ ListEnd
  PROVE  Deep'
<1>1. ASSUME NEW by, Kill(by) PROVE Deep'
  BY <1>1, DeepKept DEF Kill, mem
<1>2. ASSUME Plainly PROVE Deep'
  BY <1>2, DeepKept DEF Plainly, Answers, EndStep, Looks, LookStep, NextWord, Return, Quiet, mem
<1>3. CASE LsFound \/ cmd_checkfs
  <2>1. ret >= 0 => ret \in Inodes
    BY InodeSet, ErrnosHold DEF Errnos, Where, Typed, TypedEnd
  <2>2. ASSUME pc = "looked", walk.goal = "ls" PROVE cmd.op # "checkfs"
    BY <2>2 DEF Where, Stage, Walking, AtWalk, ForCommand, Fits
  <2>3. ASSUME pc = "looked", walk.goal = "ls", ret >= 0, FirstCall(ret, tree[ret].ents) PROVE Deep'
    <3>1. PICK n, r : n = ret /\ r = tree[ret].ents
      OBVIOUS
    <3>. QED
      BY <2>1, <2>2, <2>3, <3>1, DeepFirst
  <2>4. ASSUME FirstCall(Root, Real(Root)) PROVE Deep'
    BY <2>4, InodeSet, DeepFirst
  <2>. QED
    BY <1>1, <1>2, <1>3, <2>3, <2>4, FirstCases, Zenon
<1>4. CASE LsEntry \/ CheckEntry
  <2>1. pc = "list"
    BY <1>4, ListCases
  <2>2. \A e \in Top.rest : SkipEntry(e) => Deep'
    BY <2>1, DeepEntry
  <2>3. \A e \in Top.rest : Entered(e) /\ EnterEntry(e, Real(e.nr)) => Deep'
    BY <2>1, DeepEntry
  <2>4. \A e \in Top.rest : Entered(e) /\ EnterEntry(e, tree[e.nr].ents) /\ Top.fn = "lsr" => Deep'
    BY <2>1, DeepEntry
  <2>. QED
    BY <1>1, <1>4, <2>2, <2>3, <2>4, ListCases, Zenon
<1>5. CASE ListEnd
  BY <1>5, DeepEnd
<1>. QED
  BY <1>3, <1>4, <1>5

\* Where catr is.
LEMMA DeepCatrNow ==
  ASSUME Where, Standing, CatrHere, Deep, cmd.op = "catr", nargs # 2, AtFound \/ pc = "catr"
  PROVE  /\ stack # <<>> /\ stack \in Seq(Frames) /\ Len(stack) \in DOMAIN stack /\ Len(stack) \in Nat
         /\ Inside(stack, "catr") /\ Downward(stack, "catr") /\ TypedTree
         /\ DirOf(stack[Len(stack)], "catr") = cur /\ cur \in Inodes /\ (AtFound => ret = cur)
         /\ Top = stack[Len(stack)] /\ \A e \in Top.rest : e \in Real(cur)
<1>1. ~CatrAway
  BY DEF CatrAway
<1>2. Inside(stack, "catr") /\ Downward(stack, "catr")
  BY <1>1 DEF Deep
<1>3. /\ stack # <<>> /\ stack \in Seq(Frames) /\ Len(stack) \in DOMAIN stack /\ Len(stack) \in Nat
      /\ Chain(stack, cur, Dirs) /\ cur \in Inodes /\ (AtFound => ret = cur)
  BY CatrHereNow
<1>4. DirOf(stack[Len(stack)], "catr") = cur
  BY <1>3 DEF DirOf, Chain
<1>5. Top = stack[Len(stack)]
  BY <1>3, StackTop DEF Top
<1>6. \A e \in Top.rest : e \in Real(cur)
  BY <1>2, <1>3, <1>4, <1>5 DEF Inside, ReadsFrom, Real
<1>. QED
  BY <1>2, <1>3, <1>4, <1>5, <1>6 DEF Where, Typed

\* So does a step of catr that goes no deeper.
LEMMA DeepCatrStays ==
  ASSUME Where, Standing, CatrHolds, CatrHere, Deep, cmd.op = "catr", nargs # 2,
         CatrHas \/ (\E e : CatrSkip(e)) \/ CatrDone
  PROVE  Deep'
<1>0. AtFound \/ pc = "catr"
  BY DEF CatrHas, CatrSkip, CatrDone
<1>1. PICK s, t, d : s = stack /\ t = stack' /\ d = cur
  OBVIOUS
<1>2. PICK op, m : op = "catr" /\ m = Len(s)
  OBVIOUS
<1>3. /\ s # <<>> /\ s \in Seq(Frames) /\ m \in Nat /\ m > 0 /\ DOMAIN s = 1 .. m
      /\ Inside(s, op) /\ Downward(s, op) /\ TypedTree
      /\ DirOf(s[m], op) = d /\ d \in Inodes
  <2>1. /\ s # <<>> /\ s \in Seq(Frames) /\ Inside(s, op) /\ Downward(s, op) /\ TypedTree
        /\ DirOf(s[m], op) = d /\ d \in Inodes
    BY <1>0, <1>1, <1>2, DeepCatrNow
  <2>2. m \in Nat /\ m > 0 /\ DOMAIN s = 1 .. m
    BY <1>2, <2>1
  <2>. QED
    BY <2>1, <2>2
<1>4. UNCHANGED <<tree, cmd>>
  BY DEF CatrHas, CatrSkip, CatrDone, Quiet
<1>5. \A f, g : f.tmp = g.tmp => DirOf(f, op) = DirOf(g, op)
  BY <1>2 DEF DirOf
<1>6. CASE CatrHas
  <2>1. ret = d
    BY <1>1, <1>6, DeepCatrNow DEF CatrHas
  <2>2. /\ t \in Seq(Frames) /\ Len(t) = m /\ t[m].tmp = s[m].tmp /\ t[m].rest = Real(d)
    BY <1>1, <1>2, <1>6, <2>1, CatrHasEffect
  <2>3. \A k \in DOMAIN s : k < m => t[k] = s[k]
    BY <1>1, <1>2, <1>6, CatrHasEffect
  <2>4. ASSUME NEW k \in DOMAIN t PROVE DirOf(t[k], op) = DirOf(s[k], op) /\ ReadsFrom(t[k], op)
    <3>1. k \in DOMAIN s /\ (k = m \/ k < m)
      BY <1>3, <2>2
    <3>2. CASE k = m
      <4>1. DirOf(t[m], op) = DirOf(s[m], op)
        BY <1>5, <2>2
      <4>2. ReadsFrom(t[m], op)
        BY <1>3, <2>2, <4>1 DEF ReadsFrom, Real
      <4>. QED
        BY <3>2, <4>1, <4>2
    <3>3. CASE k < m
      BY <1>3, <2>3, <3>1, <3>3 DEF Inside
    <3>. QED
      BY <3>1, <3>2, <3>3
  <2>5. Len(t) <= Len(s)
    BY <1>2, <1>3, <2>2
  <2>6. Inside(t, op) /\ Downward(t, op)
    BY <1>3, <2>2, <2>4, <2>5, DeepSame
  <2>. QED
    BY <1>1, <1>2, <1>4, <2>6, DeepIs
<1>7. ASSUME NEW e, CatrSkip(e) PROVE Deep'
  <2>2. /\ t \in Seq(Frames) /\ Len(t) = m /\ t[m].tmp = s[m].tmp /\ t[m].rest = s[m].rest \ {e}
    BY <1>1, <1>2, <1>7, CatrSkipEffect
  <2>3. \A k \in DOMAIN s : k < m => t[k] = s[k]
    BY <1>1, <1>2, <1>7, CatrSkipEffect
  <2>4. ASSUME NEW k \in DOMAIN t PROVE DirOf(t[k], op) = DirOf(s[k], op) /\ ReadsFrom(t[k], op)
    <3>1. k \in DOMAIN s /\ (k = m \/ k < m)
      BY <1>3, <2>2
    <3>2. CASE k = m
      <4>1. DirOf(t[m], op) = DirOf(s[m], op)
        BY <1>5, <2>2
      <4>2. ReadsFrom(s[m], op)
        BY <1>3 DEF Inside
      <4>3. ReadsFrom(t[m], op)
        BY <1>3, <2>2, <4>1, <4>2 DEF ReadsFrom
      <4>. QED
        BY <3>2, <4>1, <4>3
    <3>3. CASE k < m
      BY <1>3, <2>3, <3>1, <3>3 DEF Inside
    <3>. QED
      BY <3>1, <3>2, <3>3
  <2>5. Len(t) <= Len(s)
    BY <1>2, <1>3, <2>2
  <2>6. Inside(t, op) /\ Downward(t, op)
    BY <1>3, <2>2, <2>4, <2>5, DeepSame
  <2>. QED
    BY <1>1, <1>2, <1>4, <2>6, DeepIs
<1>8. CASE CatrDone
  <2>1. CASE m = 1
    BY <1>1, <1>2, <1>8, <2>1, CatrDoneEffect, DeepEmpty
  <2>2. CASE m # 1
    <3>1. PICK l : l = m - 1
      OBVIOUS
    <3>2. /\ t \in Seq(Frames) /\ Len(t) = l /\ t[l].tmp = s[l].tmp /\ t[l].rest = s[l].rest
      BY <1>1, <1>2, <1>8, <2>2, <3>1, CatrDoneEffect
    <3>3. \A k \in DOMAIN s : k < l => t[k] = s[k]
      BY <1>1, <1>2, <1>8, <2>2, <3>1, CatrDoneEffect
    <3>4. l \in Nat /\ l < m /\ l \in DOMAIN s
      BY <1>3, <2>2, <3>1
    <3>5. ASSUME NEW k \in DOMAIN t PROVE DirOf(t[k], op) = DirOf(s[k], op) /\ ReadsFrom(t[k], op)
      <4>1. k \in DOMAIN s /\ (k = l \/ k < l)
        BY <1>3, <3>2, <3>4
      <4>2. CASE k = l
        <5>1. DirOf(t[l], op) = DirOf(s[l], op)
          BY <1>5, <3>2
        <5>2. ReadsFrom(s[l], op)
          BY <1>3, <3>4 DEF Inside
        <5>3. ReadsFrom(t[l], op)
          BY <1>3, <3>2, <5>1, <5>2 DEF ReadsFrom
        <5>. QED
          BY <4>2, <5>1, <5>3
      <4>3. CASE k < l
        BY <1>3, <3>3, <4>1, <4>3 DEF Inside
      <4>. QED
        BY <4>1, <4>2, <4>3
    <3>6. Len(t) <= Len(s)
      BY <1>2, <1>3, <3>2, <3>4
    <3>7. Inside(t, op) /\ Downward(t, op)
      BY <1>3, <3>2, <3>5, <3>6, DeepSame
    <3>. QED
      BY <1>1, <1>2, <1>4, <3>7, DeepIs
  <2>. QED
    BY <2>1, <2>2
<1>. QED
  BY <1>6, <1>7, <1>8

\* catr without an argument goes into a child, which is further down the tree.
LEMMA DeepCatrGoes ==
  ASSUME Where, Standing, CatrHolds, CatrHere, Deep, cmd.op = "catr", nargs # 2, NEW e, CatrGo(e)
  PROVE  Deep'
<1>0. pc = "catr" /\ e \in Top.rest /\ UNCHANGED <<tree, cmd>>
  BY DEF CatrGo, Quiet
<1>1. PICK s, t, d, i : s = stack /\ t = stack' /\ d = cur /\ i = e.nr
  OBVIOUS
<1>2. PICK op, m : op = "catr" /\ m = Len(s)
  OBVIOUS
<1>3. /\ s # <<>> /\ s \in Seq(Frames) /\ Inside(s, op) /\ Downward(s, op) /\ TypedTree
      /\ DirOf(s[m], op) = d /\ d \in Inodes /\ e \in Real(d)
  BY <1>0, <1>1, <1>2, DeepCatrNow
<1>4. m \in Nat /\ m > 0 /\ DOMAIN s = 1 .. m
  BY <1>2, <1>3
<1>5. \A f, g : f.tmp = g.tmp => DirOf(f, op) = DirOf(g, op)
  BY <1>2 DEF DirOf
<1>6. /\ i \in Inodes /\ t \in Seq(Frames) /\ Len(t) = m + 1 /\ t[Len(t)].tmp = i /\ t[Len(t)].rest = {}
  BY <1>1, <1>2, CatrGoEffect
<1>7. \A k \in DOMAIN s : t[k].tmp = s[k].tmp /\ t[k].rest \subseteq s[k].rest
  BY <1>1, CatrGoEffect
<1>8. ASSUME NEW k \in DOMAIN s PROVE DirOf(t[k], op) = DirOf(s[k], op) /\ ReadsFrom(t[k], op)
  <2>1. DirOf(t[k], op) = DirOf(s[k], op)
    BY <1>5, <1>7
  <2>2. ReadsFrom(s[k], op)
    BY <1>3 DEF Inside
  <2>. QED
    BY <1>7, <2>1, <2>2 DEF ReadsFrom
<1>9. DirOf(t[Len(t)], op) = e.nr /\ ReadsFrom(t[Len(t)], op)
  <2>1. DirOf(t[Len(t)], op) = i
    BY <1>2, <1>6 DEF DirOf
  <2>. QED
    BY <1>1, <1>6, <2>1 DEF ReadsFrom
<1>10. e \in Real(DirOf(s[Len(s)], op)) /\ Len(t) = Len(s) + 1
  BY <1>2, <1>3, <1>6
<1>11. Inside(t, op) /\ Downward(t, op)
  BY <1>3, <1>6, <1>8, <1>9, <1>10, DeepMore
<1>. QED
  BY <1>0, <1>1, <1>2, <1>11, DeepIs

\* Its first call is on the current directory.
LEMMA DeepCatrStarts ==
  ASSUME Where, CatrHolds, cmd.op = "catr", CatrStart
  PROVE  Deep'
<1>1. PICK s, op : s = stack' /\ op = "catr"
  OBVIOUS
<1>2. s \in Seq(Frames) /\ Len(s) = 1 /\ s[1].tmp = Root /\ s[1].rest = {}
  BY <1>1, CatrStartEffect
<1>3. ReadsFrom(s[1], op)
  <2>1. DirOf(s[1], op) = Root
    BY <1>1, <1>2 DEF DirOf
  <2>. QED
    BY <1>2, <2>1, InodeSet DEF ReadsFrom
<1>4. Inside(s, op) /\ Downward(s, op)
  BY <1>2, <1>3, DeepOne
<1>5. UNCHANGED <<tree, cmd>>
  BY DEF CatrStart, Quiet
<1>. QED
  BY <1>1, <1>4, <1>5, DeepIs

\* The calls of ls, lsr, checkfs and catr are one below the other in the tree.
LEMMA DeepNext ==
  ASSUME Where, Standing, Counted, CatrHere, Deep, [Next]_vars
  PROVE  Deep'
<1>k. ASSUME NEW by, Kill(by) PROVE Deep'
  BY <1>k, DeepKept DEF Kill, mem
<1>p. ASSUME Plainly PROVE Deep'
  BY <1>p, DeepKept DEF Plainly, Answers, EndStep, Looks, LookStep, NextWord, Return, Quiet, mem
<1>u. ASSUME UNCHANGED vars PROVE Deep'
  BY <1>u, DeepKept DEF vars, mem
<1>f. ASSUME Forget PROVE Deep'
  BY <1>f, DeepEmpty DEF Forget
<1>1. CASE Start
  <2>1. stack = <<>> /\ UNCHANGED stack
    BY <1>1 DEF Start, Launch, Where, Stage, AtIdle, Plain
  <2>. QED
    BY <2>1, DeepEmpty
<1>2. CASE cmd.op = "catr" /\ CatrAway
  <2>1. ASSUME UNCHANGED cmd PROVE Deep'
    BY <1>2, <2>1 DEF Deep, CatrAway, nargs
  <2>. QED
    BY <1>1, <1>2, <1>f, <2>1, CmdKept
<1>3. CASE cmd.op = "catr" /\ ~CatrAway /\ ~Start
  <2>0. nargs # 2 /\ CatrHolds
    BY <1>3 DEF CatrAway, Counted
  <2>1. CASE Walk \/ WalkEnd
    BY <1>3, <2>0, <2>1, DotWalks, DeepKept
  <2>2. ASSUME pc = "handler", NEW r, EndStep(r) PROVE Deep'
    BY <2>2, DeepKept DEF EndStep, Quiet, mem
  <2>3. CASE CatrNone \/ CatrUp(stack[Len(stack) - 1], SubSeq(stack, 1, Len(stack) - 2),
                                Put(Put(count, stack[Len(stack) - 1].cin), stack[Len(stack) - 1].in))
    <3>1. AtFound /\ ret < 0
      BY <2>3 DEF CatrNone, CatrUp
    <3>2. ret \in Inodes
      BY <1>3, <2>0, <3>1, CatrHereNow, Zenon
    <3>. QED
      BY <3>1, <3>2, InodeSet
  <2>4. CASE CatrStart
    BY <1>3, <2>0, <2>4, DeepCatrStarts
  <2>5. CASE CatrHas \/ (\E e : CatrSkip(e)) \/ CatrDone
    BY <1>3, <2>0, <2>5, DeepCatrStays
  <2>6. ASSUME NEW e, CatrGo(e) PROVE Deep'
    BY <1>3, <2>0, <2>6, DeepCatrGoes
  <2>7. ASSUME NEW by, CatrFault(by) PROVE Deep'
    BY <1>k, <2>7 DEF CatrFault
  <2>8. ASSUME CatrStep PROVE Deep'
    BY <2>3, <2>4, <2>5, <2>6, <2>7, <2>8, Zenon DEF CatrStep
  <2>. QED
    BY <1>3, <1>u, <1>f, <1>k, <2>1, <2>2, <2>8, CatrSteps, Zenon
<1>4. CASE cmd.op # "catr" /\ ~Start
  <2>1. CASE LsFound \/ LsEntry \/ cmd_checkfs \/ CheckEntry \/ ListEnd
    BY <2>1, DeepList
  <2>2. CASE Read \/ cmd_write \/ cmd_owrite \/ Create \/ cmd_rm \/ cmd_ls
    <3>1. CASE ~Plainly
      <4>1. stack = <<>> /\ UNCHANGED stack
        BY <2>2, <3>1, Reads, Others DEF Quiet, mem, Runs, Where, Stage, AtHandler, Plain
      <4>. QED
        BY <4>1, DeepEmpty
    <3>. QED
      BY <1>p, <3>1
  <2>3. CASE Walk \/ WalkEnd
    <3>1. pc \in {"walk", "walked"} /\ stack = <<>>
      <4>1. pc \in {"walk", "walked"}
        BY <2>3 DEF Walk, WalkEnd
      <4>2. AtWalk
        BY <4>1 DEF Where, Stage, Walking
      <4>. QED
        BY <1>4, <4>1, <4>2 DEF AtWalk, ForName, ForCatr, ForCommand, Making, Plain
    <3>2. \A c : AllLeft(stack, c) = <<>>
      BY <3>1 DEF AllLeft
    <3>3. stack' = <<>>
      <4>1. \A by : Kill(by) => stack' = <<>>
        BY <3>1 DEF Kill, mem
      <4>2. \A r : Found(r) => stack' = <<>>
        BY <3>1 DEF Found, mem
      <4>3. \A to, rest : WalkOn(to, rest) => stack' = <<>>
        BY <3>2, Zenon DEF WalkOn
      <4>4. WalkEnd => stack' = <<>>
        BY <3>1, <3>2, Zenon DEF WalkEnd
      <4>5. Walk => stack' = <<>>
        BY <4>1, <4>2, <4>3, WalkCases, Zenon
      <4>. QED
        BY <2>3, <4>4, <4>5
    <3>. QED
      BY <3>3, DeepEmpty
  <2>4. CASE CdFound \/ WriteFound \/ Written
    <3>1. stack = <<>> /\ UNCHANGED stack
      <4>1. pc = "looked" \/ pc = "written"
        BY <2>4 DEF CdFound, WriteFound, Written, Looked
      <4>2. stack = <<>>
        BY <1>4, <4>1 DEF Where, Stage, Walking, AtWalk, ForName, ForCatr, ForCommand, Making, Plain, AtWritten
      <4>. QED
        BY <2>4, <4>2 DEF CdFound, WriteFound, Written, mem
    <3>. QED
      BY <3>1, DeepEmpty
  <2>5. CASE OwriteBeyond
    BY <1>k, <2>5 DEF OwriteBeyond
  <2>6. CASE CreateLookup \/ CreateInode \/ CreateEmptyDir \/ AddDirent \/ Undo \/ Created
    <3>1. pc \in {"create", "looked", "fill", "enter", "undo", "sync"}
      BY <2>6 DEF CreateLookup, CreateInode, Looked, CreateEmptyDir, AddDirent, Undo, Created
    <3>2. stack = <<>>
      BY <1>4, <3>1 DEF Where, Stage, Walking, AtWalk, ForName, ForCatr, ForCommand, Making, Plain,
           AtCreate, AtFill, AtSync, AtUndo, AtMade
    <3>3. UNCHANGED stack
      BY <2>6 DEF CreateLookup, CreateInode, CreateEmptyDir, AddDirent, Undo, Created, mem
    <3>. QED
      BY <3>2, <3>3, DeepEmpty
  <2>7. CASE CreateFailed
    <3>1. stack = <<>> /\ UNCHANGED stack
      BY <2>7 DEF CreateFailed, Kill, mem, Where, Stage, AtFailed, Making
    <3>. QED
      BY <3>1, DeepEmpty
  <2>8. CASE RemoveDirent \/ RemoveInode
    <3>1. stack = <<>> /\ UNCHANGED stack
      BY <2>8, RemoveCases DEF RemoveInode, AtRemove, AtRm, Where, Stage, AtRemoved
    <3>. QED
      BY <3>1, DeepEmpty
  <2>9. CASE cmd_catr \/ CatrFound \/ CatrEntry \/ CatrEnd
    <3>1. CASE ~Plainly
      <4>1. cmd.op = "catr"
        BY <2>9, <3>1, AtCatrNow DEF cmd_catr, Runs, CatrFound, Looked, CatrEntry, CatrEnd, AtReading, AtFound
      <4>. QED
        BY <1>4, <4>1
    <3>. QED
      BY <1>p, <3>1
  <2>10. CASE Exit \/ Leave
    <3>1. CASE Leave
      BY <1>f, <3>1 DEF Leave
    <3>2. CASE Exit
      BY <1>f, <1>k, <3>2, ExitCases DEF UseFreed
    <3>. QED
      BY <2>10, <3>1, <3>2
  <2>. QED
    BY <1>4, <1>u, <2>1, <2>2, <2>3, <2>4, <2>5, <2>6, <2>7, <2>8, <2>9, <2>10, Zenon DEF Next, Change, Visit
<1>. QED
  BY <1>1, <1>2, <1>3, <1>4

\* Nested calls of lsr, checkfs and of a catr without an argument go down the tree with each call,
\* so they are fewer than the inodes: the recursions of dir.c:642 and super.c:257 end.
THEOREM DeepInvariant == Spec => []Deep
<1>1. Init => Deep
  BY DeepNone DEF Init, Deep
<1>2. Where /\ Standing /\ Counted /\ CatrHere /\ Deep /\ [Next]_vars => Deep'
  BY DeepNext
<1>. QED
  BY <1>1, <1>2, WhereInvariant, StandingInvariant, CountedInvariant, CatrHereInvariant, PTL DEF Spec

-----------------------------------------------------------------------------
(* What kills a process.                                                   *)

Known(by) ==
  \/ by = "not a directory" /\ \E n \in Used : ~IsDir(n)
  \/ by = "dirty" /\ Creates /\ ret = ENOSPC /\ cur \in dirty
  \/ by = "beyond" /\ cmd.op = "owrite"
  \/ by \in {"freed", "left", "endless"} /\ CatrAway

\* A death for a reason that is listed is one that is known.
LEMMA KnownKill ==
  ASSUME NEW by, Kill(by), Known(by)
  PROVE  OnlyKnownFaults'
<1>1. fault' = by /\ UNCHANGED <<tree, cmd, ret, cur, dirty>>
  BY DEF Kill, mem
<1>2. Known(by)'
  BY <1>1 DEF Known, Used, IsDir, Creates, CatrAway, nargs
<1>. QED
  BY <1>1, <1>2 DEF Known, OnlyKnownFaults

\* A process that is alive has no fault.
LEMMA KnownAlive ==
  ASSUME fault' = "none"
  PROVE  OnlyKnownFaults'
BY DEF OnlyKnownFaults

\* A walk, a list and a write that are killed.
LEMMA KnownLooked ==
  ASSUME Where, Standing, NEW by, Kill(by),
         Walk \/ (LsFound /\ ~Plainly) \/ OwriteBeyond \/ CreateFailed
  PROVE  Known(by)
<1>0. fault' = by /\ pc' = "dead"
  BY DEF Kill
<1>1. CASE Walk
  <2>1. pc = "walk" /\ cur \in Used
    BY <1>1, WalkCases DEF Standing, Placed, Walking
  <2>a. \A r : ~Found(r)
    BY <1>0 DEF Found
  <2>b. \A to, rest : ~WalkOn(to, rest)
    BY <1>0, <2>1 DEF WalkOn
  <2>c. Kill("not a directory") => by = "not a directory"
    BY <1>0 DEF Kill
  <2>2. ~IsDir(cur) /\ by = "not a directory"
    BY <1>1, <2>a, <2>b, <2>c, WalkCases, Zenon
  <2>. QED
    BY <2>1, <2>2 DEF Known
<1>2. CASE LsFound /\ ~Plainly
  <2>a. \A n, rest : ~FirstCall(n, rest)
    BY <1>0 DEF FirstCall
  <2>b. Kill("not a directory") => by = "not a directory"
    BY <1>0 DEF Kill
  <2>1. pc = "looked" /\ ret >= 0 /\ ~IsDir(ret) /\ by = "not a directory"
    BY <1>2, <2>a, <2>b, FirstCases, Zenon
  <2>c. ret >= 0 => ret \in Inodes
    BY InodeSet, ErrnosHold DEF Errnos, Where, Typed, TypedEnd
  <2>2. ret \in Used
    BY <2>1, <2>c DEF Standing, Placed
  <2>. QED
    BY <2>1, <2>2 DEF Known
<1>3. CASE OwriteBeyond
  <2>1. cmd.op = "owrite" /\ by = "beyond"
    BY <1>0, <1>3 DEF OwriteBeyond, Kill
  <2>. QED
    BY <2>1 DEF Known
<1>4. CASE CreateFailed
  <2>1. pc = "failed"
    BY <1>4 DEF CreateFailed
  <2>2. AtFailed
    BY <2>1 DEF Where, Stage
  <2>3. cur \in dirty /\ by = "dirty"
    BY <1>0, <1>4 DEF CreateFailed, Kill, Return
  <2>4. Creates /\ ret = ENOSPC
    BY <2>2, <2>3 DEF AtFailed, Making, Spoilt
  <2>. QED
    BY <2>3, <2>4 DEF Known
<1>. QED
  BY <1>1, <1>2, <1>3, <1>4

\* Nothing kills ls, lsr and checkfs in the tree they walk.
LEMMA KnownListed ==
  ASSUME Where, Standing, Deep, LsEntry \/ CheckEntry, NEW by
  PROVE  ~Kill(by)
<1>. SUFFICES ASSUME Kill(by) PROVE FALSE
  OBVIOUS
<1>0. pc = "list" /\ pc' = "dead"
  BY ListCases DEF Kill
<1>1. PICK s \in Seq(Frames), op \in {"ls", "lsr", "checkfs"} :
           /\ s = stack /\ op = cmd.op /\ s # <<>> /\ Inside(s, op) /\ Downward(s, op)
           /\ Top = s[Len(s)] /\ Top \in Frames /\ Len(s) \in DOMAIN s /\ Len(s) \in Nat /\ Top.fn = op
           /\ Top.in \in Inodes /\ DirOf(Top, op) = Top.in
           /\ \A x \in Top.rest : x \in tree[Top.in].ents /\ x.nr \in Inodes
           /\ \A x : Entered(x) => x \in Real(Top.in)
  BY <1>0, ListNow
<1>2. \A e \in Top.rest : e.nr \in Used
  BY <1>1 DEF Standing, Placed, RestUsed
<1>3. \A e : Entered(e) => Len(s) < MaxDepth
  <2>1. \A e : Entered(e) => e \in Real(DirOf(s[Len(s)], op))
    BY <1>1
  <2>2. Tree /\ TypedTree
    BY DEF Standing, Where, Typed
  <2>. QED
    BY <1>1, <2>1, <2>2, NotEndless
<1>4. Len(stack) = MaxDepth => \A e : ~Entered(e)
  BY <1>1, <1>3, InodeSet
<1>5. \A e : ~SkipEntry(e)
  BY <1>0 DEF SkipEntry
<1>6. \A e, r : ~EnterEntry(e, r)
  BY <1>0 DEF EnterEntry
<1>. QED
  BY <1>2, <1>4, <1>5, <1>6, ListCases, Zenon

\* Without an argument catr has the inodes it puts and the directories it comes back to.
LEMMA KnownCatr ==
  ASSUME Where, Standing, Counted, CatrHere, Deep, cmd.op = "catr", NEW by, CatrFault(by)
  PROVE  Known(by)
<1>0. AtFound \/ pc = "catr"
  BY DEF CatrFault
<1>1. CASE nargs = 2
  <2>1. CatrAway
    BY <1>1 DEF CatrAway
  <2>2. AtFound /\ ret \in Inodes => ret \in Used
    BY DEF AtFound, Standing, Placed
  <2>. QED
    BY <2>1, <2>2 DEF CatrFault, Known
<1>2. CASE nargs # 2
  <2>. PICK s, c, d : s = stack /\ c = count /\ d = cur
    OBVIOUS
  <2>1. CASE by = "not a directory" /\ AtFound /\ ret \in Inodes /\ ~IsDir(ret)
    <3>1. ret \in Used
      BY <2>1 DEF AtFound, Standing, Placed
    <3>. QED
      BY <2>1, <3>1 DEF Known
  <2>2. CASE pc = "catr" /\ Len(stack) = MaxDepth /\ \E e \in Top.rest : IsDir(e.nr)
    <3>1. PICK e : e \in Top.rest
      BY <2>2
    <3>2. /\ s # <<>> /\ s \in Seq(Frames) /\ Inside(s, "catr") /\ Downward(s, "catr") /\ TypedTree
          /\ Len(s) \in Nat /\ e \in Real(DirOf(s[Len(s)], "catr"))
      BY <1>2, <2>2, <3>1, DeepCatrNow
    <3>3. Len(s) < MaxDepth
      BY <3>2, NotEndless DEF Standing
    <3>. QED
      BY <2>2, <3>2, <3>3, InodeSet
  <2>3. CASE AtFound /\ ret < 0
    <3>1. ret \in Inodes
      BY <1>2, <2>3, CatrHereNow, Zenon
    <3>. QED
      BY <2>3, <3>1, InodeSet
  <2>4. CASE pc = "catr" /\ CatrKilled(AllLeft(Front(stack), Put(count, Top.in)))
    <3>0. CatrHolds
      BY DEF Counted
    <3>1. /\ s # <<>> /\ s \in Seq(Frames) /\ c \in [Inodes -> Int] /\ Linked(s) /\ EndsOpen(s) /\ Enough(c, s)
          /\ s[Len(s)].in \in Inodes /\ Top = s[Len(s)]
      BY <2>4, <3>0, CatrReadHolds
    <3>2. s[Len(s)].tmp = d /\ d \in Inodes
      <4>1. Chain(s, d, Dirs) /\ d \in Inodes
        BY <1>2, <2>4, CatrHereNow
      <4>. QED
        BY <4>1 DEF Chain
    <3>3. PICK i, p, t : i = s[Len(s)].in /\ p = Put(c, i) /\ t = Front(s)
      OBVIOUS
    <3>4. /\ t \in Seq(Frames) /\ Waits(t) /\ p \in [Inodes -> Int] /\ Enough(p, t)
          /\ Len(t) = Len(s) - 1 /\ \A k \in DOMAIN t : t[k] = s[k] /\ k \in DOMAIN s
      BY <3>1, <3>3, CallsOver
    <3>5. AllLeft(t, p) = t
      BY <3>4, NoneLeft DEF Waits
    <3>6. t # <<>> /\ Last(t).cin = Freed
      BY <2>4, <3>1, <3>3, <3>5, Zenon DEF CatrKilled
    <3>7. PICK m : m = Len(t)
      OBVIOUS
    <3>8. Last(t) = t[m] /\ m \in DOMAIN t /\ m \in Nat /\ Len(s) = m + 1 /\ m \in DOMAIN s /\ m + 1 \in DOMAIN s
      <4>1. Last(t) = t[m] /\ m \in Nat /\ m > 0
        BY <3>4, <3>6, <3>7, StackTop
      <4>2. Len(s) \in Nat /\ m = Len(s) - 1
        BY <3>1, <3>4, <3>7
      <4>. QED
        BY <3>1, <3>4, <3>7, <4>1, <4>2
    <3>9. s[m + 1].tmp = s[m].cin
      BY <3>1, <3>8 DEF Linked
    <3>10. t[m] = s[m]
      BY <3>4, <3>8
    <3>11. d = Freed
      BY <3>2, <3>6, <3>8, <3>9, <3>10
    <3>. QED
      BY <3>2, <3>11, InodeSet
  <2>. QED
    BY <2>1, <2>2, <2>3, <2>4 DEF CatrFault
<1>. QED
  BY <1>1, <1>2

\* main puts the current directory of its own, and no other inode is left.
LEMMA KnownExit ==
  ASSUME Where, Counted, CatrHere, Exit
  PROVE  OnlyKnownFaults'
<1>0. pc = "exit"
  BY ExitCases
<1>1. AtExit
  BY <1>0 DEF Where, Stage
<1>2. CASE Forget
  BY <1>2, KnownAlive DEF Forget
<1>3. ASSUME cur \in dirty, Kill("dirty") PROVE OnlyKnownFaults'
  <2>1. Creates /\ ret = ENOSPC
    BY <1>1, <1>3 DEF AtExit
  <2>2. Known("dirty")
    BY <1>3, <2>1 DEF Known
  <2>. QED
    BY <1>3, <2>2, KnownKill
<1>4. ASSUME NEW by \in {"freed", "left"}, Kill(by), CatrAway PROVE OnlyKnownFaults'
  <2>1. Known(by)
    BY <1>4 DEF Known
  <2>. QED
    BY <1>4, <2>1, KnownKill
<1>5. CASE CatrAway
  BY <1>2, <1>3, <1>4, <1>5, ExitCases DEF UseFreed
<1>6. CASE ~CatrAway
  <2>1. cur \in Inodes /\ \A n \in Inodes : count[n] = B(cur = n)
    <3>1. CASE cmd.op = "catr"
      <4>1. nargs # 2
        BY <1>6, <3>1 DEF CatrAway
      <4>2. cur = Root /\ \A n \in Inodes : count[n] = B(Root = n)
        BY <1>1, <3>1, <4>1 DEF AtExit, CatrHere
      <4>. QED
        BY <4>2, InodeSet
    <3>2. CASE cmd.op # "catr"
      <4>1. cur \in Inodes /\ stack = <<>> /\ inode = None
        BY <1>1, <3>2 DEF AtExit
      <4>2. ASSUME NEW n \in Inodes PROVE count[n] = B(cur = n)
        <5>1. PICK x, y, i : x = B(cur = n) /\ y = B(inode = n) /\ i = In(stack, n)
          OBVIOUS
        <5>2. count[n] = x + y + i
          BY <3>2, <5>1 DEF Counted, Balanced
        <5>3. y = 0 /\ i = 0
          BY <4>1, <5>1, Nobody, CallsNone
        <5>4. x \in Nat
          BY <5>1 DEF B
        <5>. QED
          BY <5>1, <5>2, <5>3, <5>4
      <4>. QED
        BY <4>1, <4>2
    <3>. QED
      BY <3>1, <3>2
  <2>2. count \in [Inodes -> Int]
    BY DEF Where, Typed, TypedCount
  <2>3. ASSUME NEW n \in Inodes PROVE ~(Put(count, cur)[n] > 0)
    <3>1. Put(count, cur)[n] = count[n] - B(n = cur)
      BY <2>2, Counting
    <3>2. PICK x, y : x = B(cur = n) /\ y = B(n = cur)
      OBVIOUS
    <3>3. x = y /\ x \in Nat
      BY <3>2 DEF B
    <3>4. count[n] = x
      BY <2>1, <3>2
    <3>. QED
      BY <3>1, <3>2, <3>3, <3>4
  <2>4. cur # Freed
    BY <2>1, InodeSet
  <2>. QED
    BY <1>2, <1>3, <2>3, <2>4, ExitCases
<1>. QED
  BY <1>5, <1>6

\* Every step that kills a process does it for a reason that is listed.
LEMMA KnownNext ==
  ASSUME Where, Standing, Counted, CatrHere, Deep, OnlyKnownFaults, [Next]_vars
  PROVE  OnlyKnownFaults'
<1>q. ASSUME pc # "dead", UNCHANGED fault PROVE OnlyKnownFaults'
  BY <1>q, KnownAlive DEF Where, Typed, TypedEnd
<1>k. ASSUME NEW by, Kill(by), Known(by) PROVE OnlyKnownFaults'
  BY <1>k, KnownKill
<1>f. ASSUME Forget PROVE OnlyKnownFaults'
  BY <1>f, KnownAlive DEF Forget
<1>p. ASSUME Plainly PROVE OnlyKnownFaults'
  BY <1>p, <1>q DEF Plainly, Answers, Free, EndStep, Looks, LookStep, NextWord, Quiet
<1>1. CASE UNCHANGED vars
  <2>1. UNCHANGED <<fault, tree, cmd, ret, cur, dirty>>
    BY <1>1 DEF vars, mem
  <2>. QED
    BY <2>1 DEF OnlyKnownFaults, Used, IsDir, Creates, CatrAway, nargs
<1>2. CASE Start
  <2>1. PICK program \in Programs, line \in Lines : Launch(program, line.op, line.words)
    BY <1>2 DEF Start
  <2>2. PICK c : c = Command(program, line.op, line.words)
    OBVIOUS
  <2>3. cmd' = c /\ (fault' = "none" \/ (fault' = "NULL" /\ c.args = <<>>))
    BY <2>1, <2>2, Zenon DEF Launch
  <2>4. c.args = <<>> => nargs' = 1
    BY <2>3 DEF nargs
  <2>. QED
    BY <2>3, <2>4 DEF OnlyKnownFaults
<1>3. CASE Read \/ cmd_write \/ cmd_owrite \/ Create \/ cmd_rm \/ cmd_ls
  <2>1. CASE ~Plainly
    <3>1. pc # "dead" /\ UNCHANGED fault
      BY <1>3, <2>1, Reads, Others DEF Quiet, Runs
    <3>. QED
      BY <1>q, <3>1
  <2>. QED
    BY <1>p, <2>1
<1>4. CASE Walk \/ OwriteBeyond \/ CreateFailed
  <2>1. ASSUME NEW by, Kill(by) PROVE OnlyKnownFaults'
    BY <1>4, <1>k, <2>1, KnownLooked
  <2>2. pc # "dead"
    BY <1>4 DEF Walk, OwriteBeyond, Looked, CreateFailed
  <2>3. (\E by : Kill(by)) \/ UNCHANGED fault
    <3>1. CASE Walk
      <4>1. \A r : Found(r) => UNCHANGED fault
        BY DEF Found, Quiet
      <4>2. \A to, rest : WalkOn(to, rest) => UNCHANGED fault
        BY Zenon DEF WalkOn, Quiet
      <4>. QED
        BY <3>1, <4>1, <4>2, WalkCases, Zenon
    <3>2. CASE OwriteBeyond \/ CreateFailed
      BY <3>2 DEF OwriteBeyond, CreateFailed, Quiet
    <3>. QED
      BY <1>4, <3>1, <3>2
  <2>. QED
    BY <1>q, <2>1, <2>2, <2>3
<1>5. CASE WalkEnd \/ CdFound \/ WriteFound \/ Written
  <2>1. pc # "dead" /\ UNCHANGED fault
    BY <1>5 DEF WalkEnd, CdFound, Looked, WriteFound, Written, Quiet
  <2>. QED
    BY <1>q, <2>1
<1>6. CASE CreateLookup \/ CreateInode \/ CreateEmptyDir \/ AddDirent \/ Undo \/ Created
  <2>1. pc # "dead" /\ UNCHANGED fault
    BY <1>6 DEF CreateLookup, CreateInode, Looked, CreateEmptyDir, AddDirent, Undo, Created, Quiet
  <2>. QED
    BY <1>q, <2>1
<1>7. CASE RemoveDirent \/ RemoveInode
  <2>1. pc # "dead" /\ UNCHANGED fault
    BY <1>7, RemoveCases DEF RemoveInode
  <2>. QED
    BY <1>q, <2>1
<1>8. CASE LsFound \/ cmd_checkfs
  <2>1. CASE ~Plainly
    <3>1. ASSUME NEW by, Kill(by), LsFound PROVE OnlyKnownFaults'
      BY <1>k, <2>1, <3>1, KnownLooked
    <3>2. pc # "dead"
      BY <1>8 DEF LsFound, Looked, cmd_checkfs, Runs
    <3>3. (LsFound /\ \E by : Kill(by)) \/ UNCHANGED fault
      <4>1. LsFound => (\E by : Kill(by)) \/ UNCHANGED fault
        BY Zenon DEF LsFound, Quiet
      <4>2. cmd_checkfs => UNCHANGED fault
        BY <2>1, Others DEF Quiet
      <4>. QED
        BY <1>8, <4>1, <4>2
    <3>. QED
      BY <1>q, <3>1, <3>2, <3>3
  <2>. QED
    BY <1>p, <2>1
<1>9. CASE LsEntry \/ CheckEntry
  <2>1. \A by : ~Kill(by)
    BY <1>9, KnownListed
  <2>2. pc # "dead"
    BY <1>9, ListCases
  <2>3. \A e : SkipEntry(e) => UNCHANGED fault
    BY DEF SkipEntry, Quiet
  <2>4. \A e, r : EnterEntry(e, r) => UNCHANGED fault
    BY DEF EnterEntry, Quiet
  <2>5. UNCHANGED fault
    BY <1>9, <2>1, <2>3, <2>4, ListCases, Zenon
  <2>. QED
    BY <1>q, <2>2, <2>5
<1>10. CASE ListEnd
  BY <1>q, <1>10 DEF ListEnd, Quiet
<1>11. CASE cmd_catr \/ CatrFound \/ CatrEntry \/ CatrEnd
  <2>0. pc # "dead"
    BY <1>11 DEF cmd_catr, Runs, CatrFound, Looked, CatrEntry, CatrEnd
  <2>1. CASE ~Plainly
    <3>1. cmd.op = "catr"
      BY <1>11, <2>1, AtCatrNow DEF cmd_catr, Runs, CatrFound, Looked, CatrEntry, CatrEnd, AtReading, AtFound
    <3>2. ASSUME NEW by, CatrFault(by) PROVE OnlyKnownFaults'
      <4>1. Known(by)
        BY <3>1, <3>2, KnownCatr
      <4>. QED
        BY <1>k, <3>2, <4>1 DEF CatrFault
    <3>3. \A e : CatrSkip(e) \/ CatrGo(e) => UNCHANGED fault
      BY DEF CatrSkip, CatrGo, Quiet
    <3>4. \A up, s, c : CatrUp(up, s, c) => UNCHANGED fault
      BY DEF CatrUp, Quiet
    <3>5. CatrStart \/ CatrHas \/ CatrNone \/ CatrDone => UNCHANGED fault
      BY DEF CatrStart, CatrHas, CatrNone, CatrDone, Quiet
    <3>6. UNCHANGED fault \/ \E by : CatrFault(by)
      BY <1>11, <2>1, <3>3, <3>4, <3>5, CatrCases, Zenon
    <3>. QED
      BY <1>q, <2>0, <3>2, <3>6
  <2>. QED
    BY <1>p, <2>1
<1>12. CASE Exit \/ Leave
  BY <1>f, <1>12, KnownExit DEF Leave
<1>. QED
  BY <1>1, <1>2, <1>3, <1>4, <1>5, <1>6, <1>7, <1>8, <1>9, <1>10, <1>11, <1>12, Zenon DEF Next, Change, Visit

\* Whatever the tree and the command, no assertion fails, no freed inode is used, no recursion
\* is without end and no inode is left in the hash table, but for the faults listed there.
THEOREM FaultsAreListed == Spec => []OnlyKnownFaults
<1>1. Init => OnlyKnownFaults
  BY DEF Init, OnlyKnownFaults
<1>2. Where /\ Standing /\ Counted /\ CatrHere /\ Deep /\ OnlyKnownFaults /\ [Next]_vars => OnlyKnownFaults'
  BY KnownNext
<1>. QED
  BY <1>1, <1>2, WhereInvariant, StandingInvariant, CountedInvariant, CatrHereInvariant, DeepInvariant,
     PTL DEF Spec
=============================================================================
