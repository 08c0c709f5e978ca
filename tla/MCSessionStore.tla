--------------------------- MODULE MCSessionStore ---------------------------
(***************************************************************************)
(* TLC instances of SessionStore.  Processes are interchangeable, so the   *)
(* safety runs use symmetry; the liveness runs do not.                     *)
(***************************************************************************)
EXTENDS SessionStore, TLC

Symmetry == Permutations(Proc)
=============================================================================
