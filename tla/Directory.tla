----------------------------- MODULE Directory ------------------------------
(***************************************************************************)
(* What a directory promises to the commands that create and remove files  *)
(* in it: each name stands for at most one inode number, and a command     *)
(* changes one entry, at one instant between the moment it is asked for    *)
(* and the moment it is answered.  A process that dies has done all of it  *)
(* or none.  Nothing here knows of offsets, lengths, padding or blocks.    *)
(***************************************************************************)
EXTENDS Integers

CONSTANTS Initial,      \* the entries of an empty directory, "." and ".."
          Requests      \* the commands that can be asked for

VARIABLES entries,      \* the entries: a set of [name, nr]
          req,          \* the command being run, or NoRequest
          done,         \* it has taken effect
          ret           \* how the last command ended

vars == <<entries, req, done, ret>>

NoRequest == [op |-> "none", name |-> 0, nr |-> 0]

Has(name) == \E e \in entries : e.name = name

Init == entries = Initial /\ req = NoRequest /\ done = FALSE /\ ret = "ok"

Ask ==
  /\ req = NoRequest
  /\ req' \in Requests
  /\ done' = FALSE
  /\ UNCHANGED <<entries, ret>>

\* A name that is there already is not created again.
Create ==
  /\ req.op = "create" /\ ~done /\ ~Has(req.name)
  /\ entries' = entries \cup {[name |-> req.name, nr |-> req.nr]}
  /\ done' = TRUE
  /\ UNCHANGED <<req, ret>>

\* "." and ".." are never removed.
Removable(name) == Has(name) /\ \A e \in Initial : e.name # name

Remove ==
  /\ req.op = "remove" /\ ~done /\ Removable(req.name)
  /\ entries' = {e \in entries : e.name # req.name}
  /\ done' = TRUE
  /\ UNCHANGED <<req, ret>>

Refused == IF req.op = "create" THEN Has(req.name) ELSE ~Removable(req.name)

Answer ==
  /\ req # NoRequest
  /\ done \/ Refused
  /\ ret' = IF done THEN "ok" ELSE "err"
  /\ req' = NoRequest /\ done' = FALSE
  /\ UNCHANGED entries

Die ==
  /\ req # NoRequest
  /\ req' = NoRequest /\ done' = FALSE /\ ret' = "died"
  /\ UNCHANGED entries

Next == Ask \/ Create \/ Remove \/ Answer \/ Die

Spec == Init /\ [][Next]_vars
=============================================================================
