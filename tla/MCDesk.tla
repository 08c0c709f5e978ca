------------------------------- MODULE MCDesk -------------------------------
(***************************************************************************)
(* TLC instances of Desk.                                                  *)
(***************************************************************************)
EXTENDS Desk, TLC

Symmetry == Permutations(Sources)

\* Once a late answer has ended an operation that was still running, nothing that
\* follows is certain: the runs go no further.  An exam is connected from the list
\* before anything else is asked for, or not at all.
Followed == "confirm" \notin slips /\ linked <= 1

\* The same for every known slip.  An exam is connected from the list as long as nothing
\* was asked for, and then no scans are picked.
Unslipped == slips = {} /\ (linked % 2 = 0 \/ (linked = 1 /\ source = NoSource))
=============================================================================
