------------------------------- MODULE Volume -------------------------------
(***************************************************************************)
(* What the file system promises to whoever runs its commands one after    *)
(* the other: files that hold what was last written to them, directories   *)
(* that hold the files created in them.  A command is asked for and later  *)
(* answered, "ok" or "err"; the process that runs it may also die, and     *)
(* then only the files the command is about may have changed.  Nothing     *)
(* here knows of blocks, maps or inodes.                                   *)
(***************************************************************************)
EXTENDS Integers, Sequences

CONSTANTS Ids,          \* the names of files; the root directory is 0
          Requests      \* the commands that can be asked for

VARIABLES files,        \* what every file holds
          req,          \* the command being run, or NoRequest
          ret           \* how the last command ended

vars == <<files, req, ret>>

NoRequest == [op |-> "none", in |-> 0, off |-> 0, n |-> 0, val |-> 0]
Absent    == [type |-> "none", data |-> <<>>]

Init ==
  /\ files = [i \in Ids |-> IF i = 0 THEN [type |-> "dir", data |-> {}] ELSE Absent]
  /\ req = NoRequest
  /\ ret = "ok"

Ask ==
  /\ req = NoRequest
  /\ req' \in Requests
  /\ UNCHANGED <<files, ret>>

Answer(how) ==
  /\ req # NoRequest
  /\ req' = NoRequest
  /\ ret' = how

\* A write replaces everything from its offset on: the file ends where it ends.
Write ==
  /\ req.op = "write"
  /\ Answer("ok")
  /\ files' = [files EXCEPT ![req.in].data =
                 SubSeq(@, 1, req.off) \o [k \in 1 .. req.n |-> req.val]]

\* A write that finds no room keeps the length, and what it did write is a
\* prefix of what it was asked to.
WriteFails ==
  /\ req.op = "write"
  /\ Answer("err")
  /\ \E done \in 0 .. req.n :
       files' = [files EXCEPT ![req.in].data =
                   [k \in DOMAIN @ |-> IF k > req.off /\ k <= req.off + done
                                       THEN req.val ELSE @[k]]]

Empty(type) == [type |-> type, data |-> IF type = "dir" THEN {} ELSE <<>>]

Create ==
  /\ req.op \in {"touch", "mkdir"}
  /\ Answer("ok")
  /\ \E i \in Ids :
       /\ files[i] = Absent
       /\ files' = [files EXCEPT ![req.in].data = @ \cup {i},
                                 ![i] = Empty(IF req.op = "mkdir" THEN "dir" ELSE "file")]

CreateFails ==
  /\ req.op \in {"touch", "mkdir"}
  /\ Answer("err")
  /\ UNCHANGED files

\* Only an empty directory can be removed, and only from the root directory.
Remove ==
  /\ req.op = "rm"
  /\ Answer("ok")
  /\ req.in \in files[0].data
  /\ files[req.in].type = "dir" => files[req.in].data = {}
  /\ files' = [files EXCEPT ![0].data = @ \ {req.in}, ![req.in] = Absent]

\* The process dies.  What the command is about may be left half changed: the file it
\* writes or removes, the directory it edits, the file it creates.
Touched(i) == CASE req.op = "write" -> {req.in}
                [] req.op = "rm"    -> {0, req.in}
                [] OTHER            -> {req.in, i}

Die ==
  /\ Answer("died")
  /\ \E i \in Ids : \A k \in Ids \ Touched(i) : files'[k] = files[k]

Next == Ask \/ Write \/ WriteFails \/ Create \/ CreateFails \/ Remove \/ Die

Spec == Init /\ [][Next]_vars
=============================================================================
