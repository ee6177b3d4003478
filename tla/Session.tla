------------------------------ MODULE Session -------------------------------
(***************************************************************************)
(* One process for one command: main takes the root directory, the command *)
(* line is split, the command walks its paths through the directories,     *)
(* works, and main puts the current directory back and closes the file     *)
(* system.  Inodes in memory are counted by those who hold them.           *)
(*                                                                         *)
(* The tree is the one on the disk with the change being made to it; the   *)
(* blocks, the layout of directories and crashes between two writes are    *)
(* the subject of FileStore and DirLayout.  A path is a sequence of        *)
(* characters.                                                             *)
(***************************************************************************)
EXTENDS Integers, Sequences, FiniteSets, SequencesExt

CONSTANTS
  NrInodes,    \* inode numbers are 0 .. NrInodes - 1
  MaxArgs,     \* MAX_ARGS
  Programs,    \* those of "testfs" and "testfs_single_argument" that are run
  Characters,  \* what words are made of
  Lines,       \* the command lines: [op, words]
  MaxDepth     \* bound: nested calls that overflow the stack

\* A tree of all the inodes (testfs.h:13,
\* at most 128 blocks of them) is not deep enough to overflow the stack.
ASSUME SessionAssumption ==
  /\ NrInodes \in Nat \ {0} /\ MaxArgs \in Nat \ {0}
  /\ MaxDepth \in Nat /\ MaxDepth >= NrInodes
  /\ Programs \subseteq {"testfs", "testfs_single_argument"}
  /\ {".", " "} \subseteq Characters
  /\ \A line \in Lines : line.words \in Seq(Seq(Characters))

VARIABLES
  tree,        \* inode number -> [type, ents]
  count,       \* i_count of the inode in the hash table, 0 when it is not there
  dirty,       \* the inodes with I_FLAGS_DIRTY
  tx,          \* tx_in_progress
  cur,         \* c->cur_dir
  back,        \* current_inode of testfs_create_file_or_dir, where it changes directory
  inode,       \* the inode a command holds itself
  stack,       \* the nested calls of ls, checkfs and catr
  cmd,         \* the command: [op, args], or NoCmd
  arg,         \* the argument it is at
  walk,        \* the path being walked: [path, from, goal]
  ret,         \* what the last call returned
  pc,          \* what comes next
  fault        \* what killed the process, or "none"

mem  == <<count, dirty, tx, cur, back, inode, stack>>
vars == <<tree, mem, cmd, arg, walk, ret, pc, fault>>
-----------------------------------------------------------------------------
Inodes == 0 .. (NrInodes - 1)
Root   == 0
Freed  == -1      \* a pointer to an inode that is not in memory any more
None   == -2      \* no pointer

ENOENT    == -2
EEXIST    == -17
ENOTDIR   == -20
EISDIR    == -21
EINVAL    == -22
ENOSPC    == -28
ENOTEMPTY == -39
Failed    == -1      \* between two commands: the last one failed,
Died      == -3      \* or its process was killed
Errors    == {ENOENT, EEXIST, ENOTDIR, EISDIR, EINVAL, ENOSPC, ENOTEMPTY, Failed, Died}

Dot     == <<".">>
DotDot  == <<".", ".">>
Special == {Dot, DotDot}
Blank   == [type |-> "none", ents |-> {}]
NoCmd   == [op |-> "none", args |-> <<>>]
NoWalk  == [path |-> <<>>, from |-> Root, goal |-> "none"]

IsDir(n) == tree[n].type = "dir"
Used     == {n \in Inodes : tree[n].type # "none"}
-----------------------------------------------------------------------------
(* Inodes in memory.                                                       *)

\* testfs_get_inode.
Uncounted(c, n) == c                                                      \* mutant
Get(c, n)       == [c EXCEPT ![n] = @ + 1]

\* testfs_put_inode of an inode that is not dirty: at 0 it is freed, and every pointer to
\* it that is left, p, points to freed memory.
Put(c, n)     == [c EXCEPT ![n] = @ - 1]
Left(p, c)    == IF p \in Inodes /\ c[p] = 0 THEN Freed ELSE p
AllLeft(s, c) ==
  [k \in DOMAIN s |-> [s[k] EXCEPT !.in = Left(@, c), !.cin = Left(@, c), !.tmp = Left(@, c)]]

\* *dir is replaced by another inode.
KeepsOld(c, new, old) == Get(c, new)                                      \* mutant
Replace(c, new, old)  == Put(Get(c, new), old)

\* The process is killed by an assertion or by what it does with freed memory.
Kill(by) ==
  /\ fault' = by /\ pc' = "dead"
  /\ UNCHANGED <<tree, mem, cmd, arg, walk, ret>>

\* What it does with freed memory may go unnoticed, until the count that was to be
\* decremented is found in the hash table at the end.
UseFreed == \E by \in {"freed", "left"} : Kill(by)

\* testfs_tx_start and testfs_tx_commit.  Where their assertion fails no step is left, which
\* the check for deadlock finds.
TxStart(type)  == tx = "TX_NONE" /\ tx' = type
TxCommit(type) == tx = type /\ tx' = "TX_NONE"

Return(r) == ret' = r /\ pc' = "exit"
Quiet     == UNCHANGED <<tree, cmd, fault>>
-----------------------------------------------------------------------------
(* The command line.                                                       *)

cmdtable ==
  [op \in {"?", "cd", "pwd", "ls", "lsr", "touch", "stat", "rm", "mkdir", "cat", "catr",
           "write", "owrite", "oread", "checkfs", "quit"} |->
     CASE op \in {"?", "pwd", "checkfs", "quit"} -> 1
       [] op \in {"owrite", "oread"}             -> 3
       [] op \in {"touch", "stat", "cat"}        -> MaxArgs
       [] OTHER                                  -> 2]

\* handle_command: max_args - 1 words, and the rest of the line as one more argument.
\* The line has a blank at its end in testfs_single_argument, and none in testfs.
Split(program, op, words) ==
  LET k    == Min({Len(words), cmdtable[op] - 1})
      rest == SubSeq(words, k + 1, Len(words))
      line == FlattenSeq([j \in DOMAIN rest |-> rest[j] \o <<" ">>])
  IN  SubSeq(words, 1, k) \o
        (IF rest = <<>> THEN <<>>
         ELSE IF program = "testfs" THEN <<Front(line)>> ELSE <<line>>)

Command(program, op, words) ==
  [op   |-> op,
   args |-> IF op \in DOMAIN cmdtable THEN Split(program, op, words) ELSE <<>>]

Commands == {Command(program, line.op, line.words) : program \in Programs, line \in Lines}

\* main takes the root directory, and the function of the command is called.  testfs first
\* gives strlen(c->cmd[1]) bytes of c->cmd[1] to KLEE, which makes any shorter argument of
\* it, the empty one included; without an argument c->cmd[1] is NULL.
Launch(program, op, words) ==
  LET known   == op \in DOMAIN cmdtable
      command == Command(program, op, words)
  IN  /\ pc = "idle"
      /\ program = "testfs_single_argument" => <<>> \notin Range(words)
      /\ count' = Get(count, Root) /\ cur' = Root
      /\ cmd' = command /\ arg' = 1 /\ ret' = 0
      /\ fault' = IF program = "testfs" /\ known /\ command.args = <<>> THEN "NULL" ELSE "none"
      /\ pc' = IF fault' # "none" THEN "dead"
               ELSE IF ~known \/ op = "?" THEN "exit"
               ELSE IF op # "quit" THEN "handler"
               ELSE IF program = "testfs" THEN "exit" ELSE "quit"
      /\ UNCHANGED <<tree, dirty, tx, back, inode, stack, walk>>

Runs(op) == pc = "handler" /\ cmd.op = op
nargs    == Len(cmd.args) + 1

\* The process is gone, and its memory with it.
Forget ==
  /\ count' = [n \in Inodes |-> 0] /\ dirty' = {} /\ tx' = "TX_NONE"
  /\ cur' = None /\ back' = None /\ inode' = None /\ stack' = <<>>
  /\ cmd' = NoCmd /\ arg' = 1 /\ walk' = NoWalk /\ pc' = "idle" /\ fault' = "none"
  /\ UNCHANGED tree

\* The end of main: the current directory is put, and testfs_close_super_block asserts
\* that no inode is left in the hash table and opens a transaction of its own.
Exit ==
  /\ pc = "exit"
  /\ IF cur = Freed THEN UseFreed
     ELSE IF cur \in dirty THEN Kill("dirty")
     ELSE IF \E n \in Inodes : Put(count, cur)[n] > 0 THEN Kill("left")
     ELSE tx = "TX_NONE" /\ Forget /\ ret' = IF ret < 0 THEN Failed ELSE 0

\* A process that was killed, or main returning at once after quit.
Leave ==
  /\ pc \in {"dead", "quit"}
  /\ Forget /\ ret' = IF pc = "dead" THEN Died ELSE 0
-----------------------------------------------------------------------------
(* testfs_dir_name_to_inode_nr, one component of the path at a time.       *)

Find(n, name) == {e.nr : e \in {d \in tree[n].ents : d.name = name}}
InodeNr(n, name) == IF Find(n, name) = {} THEN ENOENT ELSE CHOOSE nr \in Find(n, name) : TRUE

\* The walk of path p from the directory `from`, for what comes next.  A path that ends in a
\* slash is refused; of the empty path the code reads the character before it.
EndsInSlash(p) == IF p = <<>> THEN BOOLEAN ELSE {Len(p) > 1 /\ Last(p) = "/"}
Lookup(p, goal, from) ==
  /\ walk' = [path |-> p, from |-> from, goal |-> goal]
  /\ \E refused \in EndsInSlash(p) :
       IF refused THEN ret' = EINVAL /\ pc' = "looked"
       ELSE pc' = "walk" /\ UNCHANGED ret

Begin(ok, p, goal) ==
  /\ IF ok THEN Lookup(p, goal, cur) ELSE Return(EINVAL) /\ UNCHANGED walk
  /\ Quiet /\ UNCHANGED <<mem, arg>>

Looked(goal) == pc = "looked" /\ walk.goal = goal

\* The walk goes on from another directory, with what is left of the path.
WalkOn(to, rest) ==
  LET c == Replace(count, to, cur)
  IN  /\ count' = c /\ cur' = to /\ stack' = AllLeft(stack, c)
      /\ walk' = [walk EXCEPT !.path = rest]
      /\ Quiet /\ UNCHANGED <<dirty, tx, back, inode, arg, ret, pc>>

Found(r) ==
  /\ ret' = r /\ pc' = "walked"
  /\ Quiet /\ UNCHANGED <<mem, arg, walk>>

\* testfs_dir_name_to_inode_nr_rec.  In a path without a slash the name is looked up; the
\* empty path takes the branch of the trailing slash, since -1 equals strlen(name) - 1.
Walk ==
  LET p == walk.path
      slashes == {k \in DOMAIN p : p[k] = "/"}
      k == Min(slashes)
      nr == InodeNr(cur, SubSeq(p, 1, k - 1))
  IN  /\ pc = "walk"
      /\ IF ~IsDir(cur) THEN Kill("not a directory")
         ELSE IF p = <<"/">> THEN Found(Root)
         ELSE IF p = <<>> THEN Found(ENOENT)
         ELSE IF slashes = {} THEN Found(InodeNr(cur, p))
         ELSE IF k = 1 THEN WalkOn(Root, Tail(p))
         ELSE IF nr < 0 THEN Found(nr)
         ELSE WalkOn(nr, SubSeq(p, k + 1, Len(p)))

\* The directory that the walk started in is the caller's again.
Stays(from)     == FALSE                                                  \* mutant
Elsewhere(from) == cur # from
WalkEnd ==
  LET c == Replace(count, walk.from, cur)
  IN  /\ pc = "walked"
      /\ pc' = "looked"
      /\ IF Elsewhere(walk.from)
         THEN count' = c /\ cur' = walk.from /\ stack' = AllLeft(stack, c)
         ELSE UNCHANGED <<count, cur, stack>>
      /\ Quiet /\ UNCHANGED <<dirty, tx, back, inode, arg, walk, ret>>
-----------------------------------------------------------------------------
(* Commands that look a path up and read.                                  *)

cmd_cd == Runs("cd") /\ Begin(nargs = 2, cmd.args[1], "cd")

\* It also changes to the directory of a path for testfs_create_file_or_dir.
CdFound ==
  /\ Looked("cd") \/ Looked("directory")
  /\ IF ret < 0 THEN Return(ret) /\ UNCHANGED <<count, cur>>
     ELSE IF ~IsDir(ret) THEN Return(ENOTDIR) /\ UNCHANGED <<count, cur>>
     ELSE /\ count' = Replace(count, ret, cur) /\ cur' = ret /\ ret' = 0
          /\ pc' = IF walk.goal = "cd" THEN "exit" ELSE "create"
  /\ back' = IF pc' = "create" THEN walk.from ELSE back
  /\ Quiet /\ UNCHANGED <<dirty, tx, inode, stack, arg, walk>>

\* The current directory is always the root here: what testfs_pwd does when ".." is
\* another directory is out of reach.
cmd_pwd == Runs("pwd") /\ Begin(nargs = 1, DotDot, "pwd")
PwdFound ==
  /\ Looked("pwd") /\ ret = cur
  /\ Return(0) /\ Quiet /\ UNCHANGED <<mem, arg, walk>>

\* stat and cat go through their arguments until one fails.
NextArg ==
  IF arg + 1 < nargs THEN arg' = arg + 1 /\ pc' = "handler" /\ ret' = 0
  ELSE Return(0) /\ UNCHANGED arg

cmd_stat == Runs("stat") /\ Begin(nargs >= 2, cmd.args[arg], "stat")
StatFound ==
  /\ Looked("stat")
  /\ IF ret < 0 THEN Return(ret) /\ UNCHANGED arg ELSE NextArg
  /\ Quiet /\ UNCHANGED <<mem, walk>>

cmd_cat == Runs("cat") /\ Begin(nargs >= 2, cmd.args[arg], "cat")
CatFound ==
  /\ Looked("cat")
  /\ IF ret < 0 THEN Return(ret) /\ UNCHANGED arg
     ELSE IF IsDir(ret) THEN Return(EISDIR) /\ UNCHANGED arg
     ELSE NextArg
  /\ Quiet /\ UNCHANGED <<mem, walk>>

\* strtol reads a whole argument, or the command is refused.
Numeral(w) == w \in {<<"0">>, <<"1">>}

\* A range that begins behind the end of the file is refused; one of length 0 is read
\* without a look at the file.
cmd_oread ==
  /\ Runs("oread")
  /\ IF nargs = 4 /\ Numeral(cmd.args[2]) /\ Numeral(cmd.args[3])
     THEN IF cmd.args[3] = <<"0">>
          THEN Return(0) /\ Quiet /\ UNCHANGED <<mem, arg, walk>>
          ELSE Begin(TRUE, cmd.args[1], "oread")
     ELSE Begin(FALSE, <<>>, "oread")
OreadFound ==
  /\ Looked("oread")
  /\ IF ret < 0 THEN Return(ret)
     ELSE IF IsDir(ret) THEN Return(EISDIR)
     ELSE \E r \in {0, EINVAL} : Return(r)
  /\ Quiet /\ UNCHANGED <<mem, arg, walk>>
-----------------------------------------------------------------------------
(* write and owrite: what they do to the data is in FileStore.             *)

cmd_write == Runs("write") /\ Begin(nargs = 3, cmd.args[1], "write")
cmd_owrite ==
  /\ Runs("owrite")
  /\ Begin(nargs = 4 /\ Numeral(cmd.args[2]), cmd.args[1], "write")

\* The data is written, or not all of it for want of room; the inode is dirty then too.
WriteFound ==
  /\ Looked("write")
  /\ IF ret < 0 \/ IsDir(ret)
     THEN /\ Return(IF ret < 0 THEN ret ELSE EISDIR)
          /\ UNCHANGED <<count, dirty, tx, inode>>
     ELSE /\ count' = Get(count, ret) /\ inode' = ret
          /\ dirty' = dirty \cup {ret} /\ TxStart("TX_WRITE")
          /\ pc' = "written"
          /\ \E r \in {0, ENOSPC} : ret' = r
  /\ Quiet /\ UNCHANGED <<cur, back, stack, arg, walk>>

\* testfs_write_data asserts that it does not begin behind the end of the file.
OwriteBeyond == Looked("write") /\ cmd.op = "owrite" /\ ret >= 0 /\ ~IsDir(ret) /\ Kill("beyond")

\* testfs_sync_inode, testfs_tx_commit, testfs_put_inode.
Written ==
  /\ pc = "written"
  /\ dirty' = dirty \ {inode} /\ TxCommit("TX_WRITE")
  /\ count' = Put(count, inode) /\ inode' = None
  /\ Return(ret) /\ Quiet /\ UNCHANGED <<cur, back, stack, arg, walk>>
-----------------------------------------------------------------------------
(* touch and mkdir.                                                        *)

\* The last slash of a name; the path before it, where a slash that is the first
\* character is the path; and the new name, one character after the path and the slash.
SlashAt(p)    == Max({0} \cup {k \in DOMAIN p : p[k] = "/"})
Offset(p)     == Max({1, SlashAt(p) - 1})
BehindPath(p) == SubSeq(p, Offset(p) + 1, Len(p))                         \* mutant
NewName(p)    == IF SlashAt(p) = 0 THEN p ELSE SubSeq(p, Offset(p) + 2, Len(p))

Creates == cmd.op \in {"touch", "mkdir"}
NewType == IF cmd.op = "mkdir" THEN "dir" ELSE "file"

\* cmd_create and cmd_mkdir check the number of arguments.  A name with a slash has its
\* path split off, and cmd_cd of it, which wants one argument, must succeed.
Create ==
  LET p == cmd.args[arg]
  IN  /\ pc = "handler" /\ Creates
      /\ IF nargs < 2 \/ (cmd.op = "mkdir" /\ nargs # 2) THEN Begin(FALSE, p, "name")
         ELSE IF p = <<"/">>
         THEN Return(EEXIST) /\ Quiet /\ UNCHANGED <<mem, arg, walk>>
         ELSE IF SlashAt(p) > 0
         THEN Begin(nargs = 2, SubSeq(p, 1, Offset(p)), "directory")
         ELSE pc' = "create" /\ Quiet /\ UNCHANGED <<mem, arg, walk, ret>>

\* testfs_tx_start, and the new name is looked up in the current directory.
CreateLookup ==
  /\ pc = "create"
  /\ TxStart("TX_CREATE")
  /\ Lookup(NewName(cmd.args[arg]), "name", cur)
  /\ Quiet /\ UNCHANGED <<count, dirty, cur, back, inode, stack, arg>>

\* testfs_create_inode: the lowest number that is free.
CreateInode ==
  /\ Looked("name")
  /\ IF ret >= 0 \/ Used = Inodes
     THEN /\ ret' = IF ret >= 0 THEN EEXIST ELSE ENOSPC
          /\ pc' = "failed" /\ UNCHANGED <<tree, count, dirty, inode>>
     ELSE LET n == Min(Inodes \ Used)
          IN  /\ count' = Get(count, n) /\ inode' = n /\ dirty' = dirty \cup {n}
              /\ tree' = [tree EXCEPT ![n].type = NewType]
              /\ ret' = 0 /\ pc' = IF NewType = "dir" THEN "fill" ELSE "enter"
  /\ UNCHANGED <<cmd, fault, tx, cur, back, stack, arg, walk>>

\* testfs_create_empty_dir.  When it fails its call of testfs_remove_dirent changes
\* nothing: that function refuses to remove ".".
EmptyDir(n, above)  == {[name |-> Dot, nr |-> n], [name |-> DotDot, nr |-> above]}
CreateEmptyDir ==
  /\ pc = "fill"
  /\ \/ ret' = ENOSPC /\ pc' = "undo" /\ UNCHANGED tree
     \/ /\ tree' = [tree EXCEPT ![inode].ents = EmptyDir(inode, cur)]
        /\ pc' = "enter" /\ UNCHANGED ret
  /\ UNCHANGED <<cmd, fault, mem, arg, walk>>

\* testfs_add_dirent: it finds the empty name, which the lookup does not; and a write
\* that finds no room leaves the directory dirty.
AddDirent ==
  LET name == NewName(cmd.args[arg])
  IN  /\ pc = "enter"
      /\ IF Find(cur, name) # {}
         THEN ret' = EEXIST /\ pc' = "undo" /\ UNCHANGED <<tree, dirty>>
         ELSE /\ dirty' = dirty \cup {cur}
              /\ \/ ret' = ENOSPC /\ pc' = "undo" /\ UNCHANGED tree
                 \/ /\ tree' = [tree EXCEPT ![cur].ents = @ \cup {[name |-> name, nr |-> inode]}]
                    /\ pc' = "sync" /\ UNCHANGED ret
      /\ UNCHANGED <<cmd, fault, count, tx, cur, back, inode, stack, arg, walk>>

\* The current directory is put, and the one before the change is taken.
CameBack(c) == IF back = None THEN c ELSE Replace(c, back, cur)
ComeBack(c) ==
  /\ count' = CameBack(c) /\ back' = None
  /\ cur' = IF back = None THEN cur ELSE back

\* Both inodes are written, the transaction ends, and touch goes on to its next name.
Created ==
  /\ pc = "sync"
  /\ dirty' = dirty \ {cur, inode} /\ TxCommit("TX_CREATE") /\ inode' = None
  /\ ComeBack(Put(count, inode))
  /\ NextArg
  /\ Quiet /\ UNCHANGED <<stack, walk>>

\* testfs_remove_inode of the inode that got no entry.
Undo ==
  /\ pc = "undo"
  /\ tree' = [tree EXCEPT ![inode] = Blank]
  /\ dirty' = dirty \ {inode} /\ count' = Put(count, inode) /\ inode' = None
  /\ pc' = "failed"
  /\ UNCHANGED <<cmd, fault, tx, cur, back, stack, arg, walk, ret>>

CreateFailed ==
  /\ pc = "failed"
  /\ IF back # None /\ cur \in dirty THEN Kill("dirty")
     ELSE /\ TxCommit("TX_CREATE") /\ ComeBack(count) /\ Return(ret)
          /\ Quiet /\ UNCHANGED <<dirty, inode, stack, arg, walk>>
-----------------------------------------------------------------------------
(* rm, of names of the root directory only.                                *)

cmd_rm ==
  /\ Runs("rm")
  /\ IF nargs # 2 THEN Begin(FALSE, <<>>, "rm")
     ELSE TxStart("TX_RM") /\ pc' = "remove" /\ Quiet
          /\ UNCHANGED <<count, dirty, cur, back, inode, stack, arg, walk, ret>>

\* testfs_remove_dirent_allowed.
Anything(n)  == {}                                                        \* mutant
Occupants(n) == {e \in tree[n].ents : e.name \notin Special}

RemoveDirent ==
  LET name == cmd.args[1]
      nr   == InodeNr(cur, name)
      r    == IF name \in Special THEN EINVAL
              ELSE IF nr < 0 THEN nr
              ELSE IF Occupants(nr) # {} THEN ENOTEMPTY ELSE nr
  IN  /\ pc = "remove"
      /\ IF r < 0 THEN TxCommit("TX_RM") /\ Return(r) /\ UNCHANGED <<tree, count, dirty, inode>>
         ELSE /\ tree' = [tree EXCEPT ![cur].ents = {e \in @ : e.name # name}]
              /\ dirty' = dirty \cup {cur}
              /\ count' = Get(count, nr) /\ inode' = nr
              /\ ret' = 0 /\ pc' = "removed" /\ UNCHANGED tx
      /\ UNCHANGED <<cmd, fault, cur, back, stack, arg, walk>>

\* testfs_remove_inode, testfs_sync_inode of the directory, and the end of the transaction.
RemoveInode ==
  /\ pc = "removed"
  /\ tree' = [tree EXCEPT ![inode] = Blank]
  /\ count' = Put(count, inode) /\ inode' = None
  /\ dirty' = dirty \ {cur} /\ TxCommit("TX_RM")
  /\ Return(0)
  /\ UNCHANGED <<cmd, fault, cur, back, stack, arg, walk>>
-----------------------------------------------------------------------------
(* ls, lsr, checkfs and catr go through a directory, in any order, and all *)
(* but ls into those below it.                                             *)

Call(fn, in, rest) == [fn |-> fn, in |-> in, cin |-> None, tmp |-> None, rest |-> rest]
Top     == Last(stack)
Visited(e) == [Top EXCEPT !.rest = @ \ {e}]
Real(n) == {e \in tree[n].ents : e.name \notin Special}

\* A call of testfs_next_dirent asserts that its inode is a directory.
cmd_ls ==
  /\ Runs("ls") \/ Runs("lsr")
  /\ Begin(nargs \in {1, 2}, IF nargs = 2 THEN cmd.args[1] ELSE Dot, "ls")
LsFound ==
  /\ Looked("ls")
  /\ IF ret < 0 THEN Return(ret) /\ Quiet /\ UNCHANGED <<mem, arg, walk>>
     ELSE IF ~IsDir(ret) THEN Kill("not a directory")
     ELSE /\ count' = Get(count, ret)
          /\ stack' = <<Call(cmd.op, ret, tree[ret].ents)>> /\ pc' = "list"
          /\ Quiet /\ UNCHANGED <<dirty, tx, cur, back, inode, arg, walk, ret>>

\* An entry is taken and put, and in between lsr goes into it.
Anywhere(e)  == TRUE                                                      \* mutant
Descends(e)  == e.name \notin Special
LsEntry ==
  /\ pc = "list" /\ Top.fn \in {"ls", "lsr"}
  /\ \E e \in Top.rest :
       IF Top.fn = "lsr" /\ IsDir(e.nr) /\ Descends(e)
       THEN IF Len(stack) = MaxDepth THEN Kill("endless")
            ELSE /\ stack' = Append(Front(stack) \o <<Visited(e)>>,
                                    Call("lsr", e.nr, tree[e.nr].ents))
                 /\ count' = Get(count, e.nr)
                 /\ Quiet /\ UNCHANGED <<dirty, tx, cur, back, inode, arg, walk, ret, pc>>
       ELSE /\ stack' = Front(stack) \o <<Visited(e)>>
            /\ Quiet /\ UNCHANGED <<count, dirty, tx, cur, back, inode, arg, walk, ret, pc>>

\* testfs_checkfs takes its inode itself, whatever its type.
cmd_checkfs ==
  /\ Runs("checkfs")
  /\ IF nargs # 1 THEN Begin(FALSE, <<>>, "checkfs")
     ELSE /\ stack' = <<Call("checkfs", Root, Real(Root))>>
          /\ count' = Get(count, Root) /\ pc' = "list"
          /\ Quiet /\ UNCHANGED <<dirty, tx, cur, back, inode, arg, walk, ret>>
CheckEntry ==
  /\ pc = "list" /\ Top.fn = "checkfs"
  /\ \E e \in Top.rest :
       IF e.nr \notin Used THEN Kill("type")
       ELSE IF Len(stack) = MaxDepth THEN Kill("endless")
       ELSE /\ stack' = Append(Front(stack) \o <<Visited(e)>>,
                               Call("checkfs", e.nr, Real(e.nr)))
            /\ count' = Get(count, e.nr)
            /\ Quiet /\ UNCHANGED <<dirty, tx, cur, back, inode, arg, walk, ret, pc>>

\* The end of a directory: its inode is put.
ListEnd ==
  /\ pc = "list" /\ Top.rest = {}
  /\ count' = Put(count, Top.in) /\ stack' = Front(stack)
  /\ IF Len(stack) = 1 THEN Return(0) ELSE UNCHANGED <<ret, pc>>
  /\ Quiet /\ UNCHANGED <<dirty, tx, cur, back, inode, arg, walk>>

\* cmd_catr keeps c->cur_dir in tmp_inode and looks its argument up.
CatrPath == IF nargs = 2 THEN cmd.args[1] ELSE Dot
CatrCall(s, dir) ==
  /\ stack' = Append(s, [Call("catr", None, {}) EXCEPT !.tmp = dir])
  /\ Lookup(CatrPath, "catr", dir)
cmd_catr ==
  /\ Runs("catr")
  /\ IF nargs > 2 THEN Begin(FALSE, <<>>, "catr")
     ELSE CatrCall(<<>>, cur) /\ Quiet
          /\ UNCHANGED <<count, dirty, tx, cur, back, inode, arg>>

\* A call returned 0 to the calls s, with counts c and current directory d: the caller
\* has its current directory back, and puts the child it went into.
CatrBack(s, c, d) ==
  LET up == Last(s)
      c2 == Put(c, up.cin)
      s2 == Front(s) \o <<[up EXCEPT !.cin = None]>>
  IN  IF s = <<>>
      THEN count' = c /\ cur' = Left(d, c) /\ stack' = <<>> /\ Return(0)
      ELSE /\ up.cin # Freed
           /\ count' = c2 /\ cur' = Left(up.tmp, c2) /\ stack' = AllLeft(s2, c2)
           /\ pc' = "catr" /\ UNCHANGED ret
CatrKilled(s) == s # <<>> /\ Last(s).cin = Freed

\* In a child the argument is looked up again, from the child.  When that fails the child
\* and the directory are put, and the current directory stays the child.
CatrFound ==
  LET up == stack[Len(stack) - 1]
      s  == SubSeq(stack, 1, Len(stack) - 2)
      c  == Put(Put(count, up.cin), up.in)
  IN  /\ Looked("catr")
      /\ IF ret >= 0
         THEN IF ~IsDir(ret) THEN Kill("not a directory")
              ELSE /\ count' = Get(count, ret)
                   /\ stack' = Front(stack) \o <<[Top EXCEPT !.in = ret, !.rest = Real(ret)]>>
                   /\ pc' = "catr" /\ Quiet /\ UNCHANGED <<dirty, tx, cur, back, inode, arg, walk, ret>>
         ELSE IF Len(stack) = 1
         THEN /\ Return(ret) /\ stack' = <<>>
              /\ Quiet /\ UNCHANGED <<count, dirty, tx, cur, back, inode, arg, walk>>
         ELSE IF up.cin = Freed \/ CatrKilled(AllLeft(s, c)) THEN UseFreed
         ELSE /\ CatrBack(AllLeft(s, c), c, cur)
              /\ Quiet /\ UNCHANGED <<dirty, tx, back, inode, arg, walk>>

\* The data of a file is printed; a directory becomes the current one for a nested call.
CatrEntry ==
  /\ pc = "catr"
  /\ \E e \in Top.rest :
       IF ~IsDir(e.nr)
       THEN /\ stack' = Front(stack) \o <<Visited(e)>>
            /\ Quiet /\ UNCHANGED <<count, dirty, tx, cur, back, inode, arg, walk, ret, pc>>
       ELSE IF Len(stack) = MaxDepth THEN Kill("endless")
       ELSE /\ count' = Get(count, e.nr) /\ cur' = e.nr
            /\ CatrCall(Front(stack) \o <<[Visited(e) EXCEPT !.cin = e.nr]>>, e.nr)
            /\ Quiet /\ UNCHANGED <<dirty, tx, back, inode, arg>>
CatrEnd ==
  LET c == Put(count, Top.in)
      s == AllLeft(Front(stack), c)
  IN  /\ pc = "catr" /\ Top.rest = {}
      /\ IF CatrKilled(s) THEN UseFreed
         ELSE /\ CatrBack(s, c, cur)
              /\ Quiet /\ UNCHANGED <<dirty, tx, back, inode, arg, walk>>
-----------------------------------------------------------------------------
\* A file system that mktestfs made: the root directory is its own parent.
Init ==
  /\ tree = [n \in Inodes |->
               IF n = Root THEN [type |-> "dir", ents |-> EmptyDir(Root, Root)] ELSE Blank]
  /\ count = [n \in Inodes |-> 0] /\ dirty = {} /\ tx = "TX_NONE"
  /\ cur = None /\ back = None /\ inode = None /\ stack = <<>>
  /\ cmd = NoCmd /\ arg = 1 /\ walk = NoWalk /\ ret = 0 /\ pc = "idle" /\ fault = "none"

Start == \E program \in Programs, line \in Lines : Launch(program, line.op, line.words)

Read ==
  \/ cmd_cd \/ cmd_pwd \/ PwdFound \/ cmd_stat \/ StatFound \/ cmd_cat \/ CatFound
  \/ cmd_oread \/ OreadFound

Change ==
  \/ cmd_write \/ cmd_owrite \/ WriteFound \/ OwriteBeyond \/ Written
  \/ Create \/ CreateLookup \/ CreateInode \/ CreateEmptyDir \/ AddDirent \/ Created
  \/ Undo \/ CreateFailed
  \/ cmd_rm \/ RemoveDirent \/ RemoveInode

Visit ==
  \/ cmd_ls \/ LsFound \/ LsEntry \/ cmd_checkfs \/ CheckEntry \/ ListEnd
  \/ cmd_catr \/ CatrFound \/ CatrEntry \/ CatrEnd

Next == Start \/ Walk \/ WalkEnd \/ CdFound \/ Read \/ Change \/ Visit \/ Exit \/ Leave

Spec == Init /\ [][Next]_vars
-----------------------------------------------------------------------------
Pointer == Inodes \cup {Freed, None}

TypeOK ==
  /\ \A n \in Inodes :
       /\ tree[n].type \in {"none", "file", "dir"}
       /\ \A e \in tree[n].ents : e.nr \in Inodes /\ Range(e.name) \subseteq Characters
  /\ count \in [Inodes -> Nat] /\ dirty \subseteq Inodes
  /\ tx \in {"TX_NONE", "TX_WRITE", "TX_CREATE", "TX_RM"}
  /\ cur \in Pointer /\ back \in Inodes \cup {None} /\ inode \in Inodes \cup {None}
  /\ Len(stack) <= MaxDepth
  /\ \A k \in DOMAIN stack :
       {stack[k].in, stack[k].cin, stack[k].tmp} \subseteq Pointer /\ stack[k].in # Freed
  /\ arg \in 1 .. (MaxArgs + 1)
  /\ ret \in Inodes \cup Errors

\* catr with the path of another directory than the current one.
CatrAway == cmd.op = "catr" /\ nargs = 2

\* dir.c:525, super.c:257, dir.c:597: every inode in memory is counted once for each
\* pointer that will put it, however deep the calls are and wherever a walk has been.  So
\* none is freed while it is used, and none is left.  In the nested calls of catr the
\* current directory is the child that the caller counts, and the first call keeps the one
\* of main.
CountsBalance ==
  ~CatrAway =>
    LET lent  == stack # <<>> /\ stack[1].cin # None
        mains == IF lent THEN stack[1].tmp ELSE cur
    IN  \A n \in Inodes :
          count[n] = (IF mains = n THEN 1 ELSE 0) + (IF inode = n THEN 1 ELSE 0)
                     + Cardinality({k \in DOMAIN stack : stack[k].in = n})
                     + Cardinality({k \in DOMAIN stack : stack[k].cin = n})

\* Whatever the tree and the command, no assertion fails, no freed inode is used, no
\* recursion is without end and no inode stays in the hash table (inode.c:45), but for
\* these: a file where a directory is expected (dir.c:31, dir.c:469), a directory that had
\* no room for an entry (inode.c:240), an offset behind the end of a file (inode.c:342),
\* catr of another directory, and testfs without an argument.
OnlyKnownFaults ==
  CASE fault = "none"                -> TRUE
    [] fault = "not a directory" -> \E n \in Used : ~IsDir(n)
    [] fault = "dirty"           -> Creates /\ ret = ENOSPC /\ cur \in dirty
    [] fault = "NULL"            -> nargs = 1
    [] fault = "beyond"          -> cmd.op = "owrite"
    [] OTHER                     -> CatrAway

\* dir.c:525, dir.c:396, dir.c:404: when a command is over no transaction is open, and the
\* current directory is the one it began in; but for cd, which is there to change it, and catr
\* with a path, whose walk is not undone (NothingLeft, MCCatrLost.cfg).
ComesBack ==
  pc = "exit" => /\ cur = Root \/ cmd.op = "cd" \/ CatrAway
                 /\ tx = "TX_NONE"

\* Between two commands the allocated inodes are a tree: each but the root has one entry,
\* a directory names itself and the directory its entry is in, and only allocated numbers
\* are named.
Named(n) == {m \in Inodes : \E e \in Real(m) : e.nr = n}
TreeSound ==
  pc = "idle" =>
    /\ \A n \in Inodes : ~IsDir(n) => tree[n].ents = {}
    /\ \A n \in Used \ {Root} :
         /\ Cardinality({p \in Inodes \X UNION {Real(m) : m \in Inodes} :
                           p[2] \in Real(p[1]) /\ p[2].nr = n}) = 1
         /\ IsDir(n) => /\ Find(n, Dot) = {n}
                        /\ Find(n, DotDot) = Named(n)
    /\ \A m \in Inodes : \A e \in tree[m].ents : e.nr \in Used

\* What the commands promise: a tree of names that only touch, mkdir and rm change, by one
\* entry at a time and where the path says; and a command that is answered as the tree and
\* the paths require, whatever the walks before it did to the current directory.
Names ==
  UNION {{[dir |-> m, name |-> e.name, nr |-> e.nr, type |-> tree[e.nr].type] :
           e \in Real(m)} : m \in Inodes}

Over == pc = "exit" /\ ret >= 0
N == INSTANCE Namespace WITH
       Requests <- Commands,
       Numbers <- Inodes \ {Root},
       edges <- Names,
       req <- cmd,
       done <- CASE Creates          -> arg - 1 + (IF pc = "sync" \/ Over THEN 1 ELSE 0)
                 [] cmd.op = "rm"    -> IF pc = "removed" \/ Over THEN 1 ELSE 0
                 [] OTHER            -> 0,
       answer <- IF pc # "idle" THEN "none"
                 ELSE CASE ret = 0 -> "ok" [] ret = Died -> "died" [] OTHER -> "err"

ImplementsNamespace == N!Spec

\* super.c:144: "assume there are no entries in the inode hash table" when the file system
\* is closed.
NothingLeft == fault # "left"

\* dir.c:336: for a path to a file inside the root directory "increase the offset by 1, in
\* order to set the path variable equal to "/"": a file that was created is found under the
\* path it was created with.
CreatedWhereAsked ==
  Creates /\ Over =>
    \A p \in Range(cmd.args) :
      SlashAt(p) = 1 /\ Len(p) > 1 => N!Resolve(p) # N!Nowhere
=============================================================================
