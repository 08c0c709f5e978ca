----------------------------- MODULE MCTransfer -----------------------------
(***************************************************************************)
(* TLC instances of Transfer: two exams, two form names, two programs.     *)
(***************************************************************************)
EXTENDS Transfer

MCNames == <<"a", "a_2">>
MCExams == <<"e1", "e2">>

Rank(n) == IF n = None THEN 0 ELSE CHOOSE i \in DOMAIN Names : Names[i] = n

MCRev == [s \in Setting |-> 2 * Rank(s.form) + (IF s.tune = Plain THEN 2 ELSE 1)]

\* Fewer starts: the second exam was in the trash and is not here, the settings
\* there name the form if there is one, and a folder without settings is empty.
MCInit ==
  /\ TransferInit
  /\ home["e2"] = Absent /\ old["e2"].at = IF kind = "install" THEN "trash" ELSE "list"
  /\ old["e1"].at \in {"bad", "trash"} => kind = "install"
  /\ home["e1"] = Mine => old["e1"].at = "list" /\ oldform = None
  /\ oldform # "y" /\ (oldconfig # None => oldconfig.form = IF oldform = None THEN None ELSE "a")
  /\ config = None => home["e1"] = Absent /\ kind = "install" /\ old["e1"].at = "none"
  /\ kind = "backup" /\ oldform # None => home["e1"] = Absent /\ old["e1"].at = "none"
  /\ kind = "backup" => (oldconfig = None <=> home["e1"] = Absent /\ old["e1"].at = "list")

MCSpec == MCInit /\ [][TransferNext]_transfer
=============================================================================
