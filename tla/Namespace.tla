----------------------------- MODULE Namespace ------------------------------
(***************************************************************************)
(* What the commands promise to who types them: a tree of names that       *)
(* changes by one entry at a time, a path that means the same file to      *)
(* every command, and an answer that says whether the command was done.    *)
(* Nothing here knows of inodes in memory, reference counts, "." and ".."  *)
(* entries or transactions.                                                *)
(*                                                                         *)
(* A path is a sequence of characters.  It is read from the left: a name   *)
(* leads from a directory to an entry of it, and an empty name, before a   *)
(* slash, leads to the root.  A command that the process dies of changes   *)
(* nothing that it has not changed by then.                                *)
(***************************************************************************)
EXTENDS Integers, Sequences

CONSTANTS Requests,     \* the commands: [op, args], where args are paths and words
          Numbers       \* the numbers of files

VARIABLES edges,        \* the tree: a set of [dir, name, nr, type]
          req,          \* the command being run, or NoRequest
          done,         \* how many of its names it has created or removed
          answer        \* how the last command ended, "none" while one runs

vars == <<edges, req, done, answer>>

NoRequest == [op |-> "none", args |-> <<>>]
Root      == 0
Nowhere   == -1

IsDir(n)  == n = Root \/ \E e \in edges : e.nr = n /\ e.type = "dir"
IsFile(n) == \E e \in edges : e.nr = n /\ e.type = "file"
-----------------------------------------------------------------------------
Above(n) ==
  IF n = Root THEN Root ELSE (CHOOSE e \in edges : e.nr = n).dir

Below(n, name) ==
  IF \E e \in edges : e.dir = n /\ e.name = name
  THEN (CHOOSE e \in edges : e.dir = n /\ e.name = name).nr
  ELSE Nowhere

Enter(n, name) ==
  IF ~IsDir(n) THEN Nowhere
  ELSE IF name = <<".">> THEN n
  ELSE IF name = <<".", ".">> THEN Above(n)
  ELSE Below(n, name)

\* Where the first k characters of a path lead: the last directory, and the name since.
Resolve(p) ==
  LET read[k \in 0 .. Len(p)] ==
        IF k = 0 THEN [at |-> Root, name |-> <<>>]
        ELSE LET r == read[k - 1]
             IN  IF p[k] # "/" THEN [r EXCEPT !.name = Append(@, p[k])]
                 ELSE IF r.at = Nowhere THEN r
                 ELSE [at   |-> IF r.name = <<>> THEN Root ELSE Enter(r.at, r.name),
                       name |-> <<>>]
      last == read[Len(p)]
  IN  IF p = <<"/">> THEN Root
      ELSE IF last.name = <<>> THEN Nowhere
      ELSE Enter(last.at, last.name)

\* Where a new name goes: what is before the last slash of its path, and what is after.
\* A path whose only slash is its first character loses the character behind it.
Slash(p) == {k \in DOMAIN p : p[k] = "/"}
Place(p) ==
  LET k == CHOOSE j \in Slash(p) : \A i \in Slash(p) : i <= j
  IN  IF Slash(p) = {} THEN [dir |-> Root, name |-> p]
      ELSE IF k = 1 THEN [dir |-> Root, name |-> SubSeq(p, 3, Len(p))]
      ELSE [dir |-> Resolve(SubSeq(p, 1, k - 1)), name |-> SubSeq(p, k + 1, Len(p))]
-----------------------------------------------------------------------------
Init == edges = {} /\ req = NoRequest /\ done = 0 /\ answer = "ok"

Ask ==
  /\ req = NoRequest
  /\ req' \in Requests
  /\ done' = 0 /\ answer' = "none"
  /\ UNCHANGED edges

\* One new name, in a directory that is there, for a file that had none.
Make(type) ==
  LET place == Place(req.args[done + 1])
  IN  /\ done < Len(req.args)
      /\ IsDir(place.dir) /\ Enter(place.dir, place.name) = Nowhere
      /\ \E nr \in Numbers \ {e.nr : e \in edges} :
           edges' = edges \cup {[dir |-> place.dir, name |-> place.name,
                                 nr |-> nr, type |-> type]}
      /\ done' = done + 1
      /\ UNCHANGED <<req, answer>>

\* A name of the root directory, and no directory that holds anything.
Removable(name) ==
  \E e \in edges : e.dir = Root /\ e.name = name /\ ~\E f \in edges : f.dir = e.nr

Remove ==
  /\ req.op = "rm" /\ done = 0 /\ Len(req.args) = 1
  /\ Removable(req.args[1])
  /\ edges' = {e \in edges : e.dir # Root \/ e.name # req.args[1]}
  /\ done' = 1
  /\ UNCHANGED <<req, answer>>

\* What a command that only reads, or writes the data of a file, needs to be done.
Files(from) == \A k \in from .. Len(req.args) : IsFile(Resolve(req.args[k]))
Met ==
  LET n == Len(req.args) IN
  CASE req.op \in {"pwd", "checkfs"}     -> n = 0
    [] req.op \in {"?", "quit", "other"} -> TRUE
    [] req.op = "cd"                     -> n = 1 /\ IsDir(Resolve(req.args[1]))
    [] req.op \in {"ls", "lsr", "catr"}  -> n = 0 \/ (n = 1 /\ IsDir(Resolve(req.args[1])))
    [] req.op = "stat" -> n > 0 /\ \A k \in 1 .. n : Resolve(req.args[k]) # Nowhere
    [] req.op = "cat"  -> n > 0 /\ Files(1)
    [] req.op = "write"  -> n = 2 /\ IsFile(Resolve(req.args[1]))
    [] req.op = "owrite" -> n = 3 /\ IsFile(Resolve(req.args[1]))
    [] req.op = "oread"  -> n = 3 /\ (req.args[3] = <<"0">> \/ IsFile(Resolve(req.args[1])))
    [] req.op = "rm"     -> done = 1
    [] OTHER             -> n > 0 /\ done = n

\* A command fails if what it needs is not met, or, where it needs room on the disk or a
\* range of a file, for a reason that does not show in the names.
MayFail ==
  \/ req.op \in {"write", "owrite", "oread"}
  \/ req.op = "rm" /\ done = 0 /\ ~(Len(req.args) = 1 /\ Removable(req.args[1]))
  \/ req.op # "rm" /\ ~Met

Answer ==
  /\ req # NoRequest
  /\ \/ answer' = "ok" /\ Met
     \/ answer' = "err" /\ MayFail
  /\ req' = NoRequest /\ done' = 0
  /\ UNCHANGED edges

Die ==
  /\ req # NoRequest
  /\ req' = NoRequest /\ done' = 0 /\ answer' = "died"
  /\ UNCHANGED edges

Next ==
  \/ Ask \/ Remove \/ Answer \/ Die
  \/ req.op = "touch" /\ Make("file")
  \/ req.op = "mkdir" /\ Len(req.args) = 1 /\ Make("dir")

Spec == Init /\ [][Next]_vars
=============================================================================
