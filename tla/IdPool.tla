------------------------------- MODULE IdPool -------------------------------
(***************************************************************************)
(* What a free map promises its callers, as seen on the disk: a set of     *)
(* numbers in use.  An allocation takes the least number not in use, a     *)
(* release gives back a number that is in use, and nothing else changes    *)
(* the set: a crash may happen at any time and is invisible here.          *)
(***************************************************************************)
EXTENDS Integers

CONSTANT Ids        \* the numbers the map manages

VARIABLE used       \* those in use

Init == used = {}

\* An allocation: first fit.
Take ==
  \E i \in Ids \ used :
    /\ \A j \in Ids \ used : i <= j
    /\ used' = used \cup {i}

\* A release of a number that is in use.
Release ==
  \E i \in used : used' = used \ {i}

Next == Take \/ Release

Spec == Init /\ [][Next]_used
=============================================================================
