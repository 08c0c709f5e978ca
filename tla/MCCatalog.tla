----------------------------- MODULE MCCatalog ------------------------------
(***************************************************************************)
(* TLC instances of Catalog: a hash knows nothing of which settings came   *)
(* first, so MCRev gives the plain tuning the larger revision.             *)
(***************************************************************************)
EXTENDS Catalog

MCNames == <<"a", "a_2">>

Rank(n) == IF n = None THEN 0 ELSE CHOOSE i \in DOMAIN Names : Names[i] = n

MCRev == [s \in Setting |-> 2 * Rank(s.form) + (IF s.tune = Plain THEN 2 ELSE 1)]
=============================================================================
