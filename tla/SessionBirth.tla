---------------------------- MODULE SessionBirth ----------------------------
(***************************************************************************)
(* How one exam, one session_id, comes into a data folder, leaves it and   *)
(* comes back (session_store.py): _create_initial_generation makes it,     *)
(* _publish_restored brings it back from a backup, permanently_delete and  *)
(* the sweep of a listing remove it.  Several programs share the folder.   *)
(*                                                                         *)
(* Births and deletes hold the root lock exclusively, listings share it,   *)
(* so what matters is what a step that failed or a program that died has   *)
(* left behind, and what is done after the lock was given up.              *)
(* What happens inside a living session is SessionStore's subject.         *)
(***************************************************************************)
EXTENDS Integers, FiniteSets

CONSTANTS
  Proc,      (* programs                                   *)
  NoProc,    (* nobody                                     *)
  MaxGen,    (* bound: generations of the exam             *)
  MaxBirths, (* bound: creations and restores begun        *)
  MaxFaults  (* bound: crashes and I/O errors              *)

ASSUME ProcAssumption == NoProc \notin Proc
ASSUME BoundAssumption == MaxGen \in Nat \ {0} /\ MaxBirths \in Nat /\ MaxFaults \in Nat

Gen   == 1 .. MaxGen
Birth == 1 .. MaxBirths
Absent == 0

VARIABLES
  root,     \* who holds the root lock exclusively
  listers,  \* who shares it
  reserved, \* whether the reservation file of the session_id exists
  gates,    \* the birth that made each generation's gate file, or Absent
  where,    \* the folder of each birth
  has,      \* the generations in it
  record,   \* births whose deleted folder still has its DELETE.json
  archive,  \* the generation the latest backup holds, or Absent
  minted,   \* births begun
  last,     \* the newest generation ever made
  pc,       \* what each program does next
  job,      \* the birth it is about
  said,     \* what its last birth answered
  faults

lock   == <<root, listers>>
disk   == <<reserved, gates, where, has, record>>
local  == <<pc, job, said>>
births == <<lock, disk, archive, minted, last, local, faults>>

Goto(p, l) == pc' = [pc EXCEPT ![p] = l]
Say(p, s)  == said' = [said EXCEPT ![p] = s]
Put(b, w)  == where' = [where EXCEPT ![b] = w]
Fault      == faults < MaxFaults /\ faults' = faults + 1

Visible(b) == where[b] \in {"active", "trash"}

Free == root = NoProc /\ listers = {}

Release(p) ==
  /\ root' = IF root = p THEN NoProc ELSE root
  /\ listers' = listers \ {p}

\* _identity_exists
Exists == reserved \/ \E b \in Birth : Visible(b) \/ (where[b] = "tomb" /\ b \in record)

BirthInit ==
  /\ root = NoProc /\ listers = {}
  /\ reserved = FALSE /\ gates = [g \in Gen |-> Absent]
  /\ where = [b \in Birth |-> "none"] /\ has = [b \in Birth |-> {}] /\ record = {}
  /\ archive \in {Absent, 1} /\ minted = 0 /\ last = 1
  /\ pc = [p \in Proc |-> "idle"] /\ job = [p \in Proc |-> Absent]
  /\ said = [p \in Proc |-> "none"] /\ faults = 0

-----------------------------------------------------------------------------
(***************************************************************************)
(* Births                                                                  *)
(***************************************************************************)
\* Take the root lock and look whether the session_id is in use.
Begin(p, next) ==
  /\ pc[p] = "idle" /\ Free
  /\ IF Exists
     THEN Say(p, "conflict") /\ UNCHANGED <<root, minted, pc, job>>
     ELSE /\ minted < MaxBirths
          /\ minted' = minted + 1 /\ job' = [job EXCEPT ![p] = minted + 1]
          /\ root' = p /\ Goto(p, next) /\ Say(p, "none")
  /\ UNCHANGED <<listers, disk, archive, last, faults>>

\* A scan or an import of responses, under a session_id nobody used before.
CreateStart(p) == minted = 0 /\ archive = Absent /\ Begin(p, "reserve")

RestoreStart(p) == archive # Absent /\ Begin(p, "prepare")

Reserve(p) ==
  /\ pc[p] = "reserve"
  /\ reserved' = TRUE /\ Goto(p, "stage")
  /\ UNCHANGED <<lock, gates, where, has, record, archive, minted, last, job, said, faults>>

\* The new exam is written into a staging folder of its own.
Stage(p) ==
  /\ pc[p] = "stage"
  /\ Put(job[p], "staging") /\ has' = [has EXCEPT ![job[p]] = {1}]
  /\ Goto(p, "gate")
  /\ UNCHANGED <<lock, reserved, gates, record, archive, minted, last, job, said, faults>>

\* The extracted backup becomes the staging folder of the restore.
Prepare(p) ==
  /\ pc[p] = "prepare"
  /\ Put(job[p], "prepared") /\ has' = [has EXCEPT ![job[p]] = {archive}]
  /\ Goto(p, "gate")
  /\ UNCHANGED <<lock, reserved, gates, record, archive, minted, last, job, said, faults>>

Blocked(p) == \E g \in has[job[p]] : gates[g] # Absent

\* The gate file must not exist yet.
MakeGate(p) ==
  /\ pc[p] = "gate" /\ ~Blocked(p)
  /\ gates' = [g \in Gen |-> IF g \in has[job[p]] THEN job[p] ELSE gates[g]]
  /\ Goto(p, "publish")
  /\ UNCHANGED <<lock, reserved, where, has, record, archive, minted, last, job, said, faults>>

\* One rename makes the whole exam visible.
Publish(p) ==
  /\ pc[p] = "publish"
  /\ Goto(p, IF where[job[p]] = "staging" THEN "unreserve" ELSE "confirm")
  /\ Put(job[p], "active") /\ Say(p, "ok")
  /\ UNCHANGED <<lock, reserved, gates, has, record, archive, minted, last, job, faults>>

\* The reservation goes; a failure is a warning.
Unreserve(p) ==
  /\ pc[p] = "unreserve"
  /\ \/ reserved' = FALSE /\ UNCHANGED faults
     \/ Fault /\ UNCHANGED reserved
  /\ Release(p) /\ Goto(p, "idle")
  /\ UNCHANGED <<gates, where, has, record, archive, minted, last, job, said>>

\* What fails after the rename of a restore is a warning.
Confirm(p) ==
  /\ pc[p] = "confirm"
  /\ Release(p) /\ Goto(p, "idle")
  /\ UNCHANGED <<disk, archive, minted, last, job, said, faults>>

\* Nothing a failed creation has made is taken back.
CreateFails(p) ==
  /\ pc[p] \in {"reserve", "stage"} \/ (pc[p] \in {"gate", "publish"} /\ where[job[p]] = "staging")
  /\ Fault \/ (pc[p] = "gate" /\ Blocked(p) /\ UNCHANGED faults)
  /\ Say(p, "failed") /\ Release(p) /\ Goto(p, "idle")
  /\ UNCHANGED <<disk, archive, minted, last, job>>

\* A failed restore gives up its locks, then tidies up.
RestoreFails(p) ==
  /\ pc[p] = "prepare" \/ (pc[p] \in {"gate", "publish"} /\ where[job[p]] = "prepared")
  /\ Fault \/ (pc[p] = "gate" /\ Blocked(p) /\ UNCHANGED faults)
  /\ Say(p, "failed") /\ Release(p) /\ Goto(p, "tidy")
  /\ UNCHANGED <<disk, archive, minted, last, job>>

\* Its folder is removed, unless that fails too.
TidyFolder(p) ==
  /\ pc[p] = "tidy"
  /\ \/ Put(job[p], "none") /\ UNCHANGED faults
     \/ Fault /\ UNCHANGED where
  /\ Goto(p, "ungate")
  /\ UNCHANGED <<lock, reserved, gates, has, record, archive, minted, last, job, said>>

\* Mutant of TidyGate: whoever made it.
TidyAnyGate(p) ==
  /\ pc[p] = "ungate"
  /\ gates' = [g \in Gen |-> IF g \in has[job[p]] THEN Absent ELSE gates[g]]
  /\ Goto(p, "idle")
  /\ UNCHANGED <<lock, reserved, where, has, record, archive, minted, last, job, said, faults>>

\* The gate file goes if this restore made it.
TidyGate(p) ==
  /\ pc[p] = "ungate"
  /\ \/ /\ gates' = [g \in Gen |-> IF gates[g] = job[p] THEN Absent ELSE gates[g]]
        /\ UNCHANGED faults
     \/ Fault /\ UNCHANGED gates
  /\ Goto(p, "idle")
  /\ UNCHANGED <<lock, reserved, where, has, record, archive, minted, last, job, said>>

-----------------------------------------------------------------------------
(***************************************************************************)
(* Life and death                                                          *)
(***************************************************************************)
\* A save adds a generation with its gate and may compact those before it; it
\* takes the writer lock of the session alone.
Save(b) ==
  /\ where[b] = "active" /\ last < MaxGen
  /\ last' = last + 1
  /\ \E kept \in {has[b], {}} :
       /\ has' = [has EXCEPT ![b] = kept \union {last'}]
       /\ gates' = [g \in Gen |-> IF g = last' THEN b
                                  ELSE IF g \in has[b] \ kept THEN Absent ELSE gates[g]]
  /\ UNCHANGED <<lock, reserved, where, record, archive, minted, local, faults>>

\* A backup of the exam's current generation.
Export(b) ==
  /\ Visible(b)
  /\ archive' = CHOOSE g \in has[b] : \A h \in has[b] : h <= g
  /\ UNCHANGED <<lock, disk, minted, last, local, faults>>

\* soft_delete and restore_from_trash
Move(b) ==
  /\ Free /\ Visible(b)
  /\ Put(b, IF where[b] = "active" THEN "trash" ELSE "active")
  /\ UNCHANGED <<lock, reserved, gates, has, record, archive, minted, last, local, faults>>

\* permanently_delete writes DELETE.json and moves the folder aside (a DELETE.json
\* in the trash, left by a death between the two, is not looked at by anyone).
DeleteStart(p, b) ==
  /\ pc[p] = "idle" /\ Free /\ where[b] = "trash"
  /\ root' = p /\ job' = [job EXCEPT ![p] = b] /\ Say(p, "none")
  /\ Put(b, "tomb") /\ record' = record \union {b}
  /\ Goto(p, "remove")
  /\ UNCHANGED <<listers, reserved, gates, has, archive, minted, last, faults>>

\* A listing finds a deleted folder that was not removed.
SweepStart(p, b) ==
  /\ pc[p] = "idle" /\ root = NoProc /\ where[b] = "tomb" /\ b \in record
  /\ listers' = listers \union {p} /\ job' = [job EXCEPT ![p] = b] /\ Say(p, "none")
  /\ Goto(p, "remove")
  /\ UNCHANGED <<root, disk, archive, minted, last, faults>>

\* Two listings at the same folder are in each other's way.
Contended(p) ==
  \/ where[job[p]] # "tomb"
  \/ \E q \in Proc \ {p} : pc[q] = "remove" /\ job[q] = job[p]

\* Remove the folder; an open file ends it, with or without DELETE.json.
Remove(p) ==
  /\ pc[p] = "remove"
  /\ \/ /\ where[job[p]] = "tomb"
        /\ Put(job[p], "gone") /\ record' = record \ {job[p]}
        /\ Goto(p, "unlink")
        /\ UNCHANGED <<lock, faults>>
     \/ /\ Fault \/ (Contended(p) /\ UNCHANGED faults)
        /\ record' \in {record, record \ {job[p]}}
        /\ Release(p) /\ Goto(p, "idle")
        /\ UNCHANGED where
  /\ UNCHANGED <<reserved, gates, has, archive, minted, last, job, said>>

\* Mutant of Unlink: the gate files stay.
UnlinkNothing(p) ==
  /\ pc[p] = "unlink"
  /\ Release(p) /\ Goto(p, "idle")
  /\ UNCHANGED <<disk, archive, minted, last, job, said, faults>>

\* Remove its gate files, or as many as go before one fails.
Unlink(p) ==
  /\ pc[p] = "unlink"
  /\ \/ /\ gates' = [g \in Gen |-> IF g \in has[job[p]] THEN Absent ELSE gates[g]]
        /\ UNCHANGED faults
     \/ /\ Fault
        /\ \E some \in SUBSET has[job[p]] :
             gates' = [g \in Gen |-> IF g \in some THEN Absent ELSE gates[g]]
  /\ Release(p) /\ Goto(p, "idle")
  /\ UNCHANGED <<reserved, where, has, record, archive, minted, last, job, said>>

\* The program dies; its lock goes with it, what it wrote stays.
Crash(p) ==
  /\ pc[p] # "idle" /\ Fault
  /\ Release(p) /\ Goto(p, "idle") /\ Say(p, "none")
  /\ UNCHANGED <<disk, archive, minted, last, job>>

BirthNext ==
  \/ \E p \in Proc :
       \/ CreateStart(p) \/ Reserve(p) \/ Stage(p) \/ Unreserve(p) \/ CreateFails(p)
       \/ RestoreStart(p) \/ Prepare(p) \/ Confirm(p) \/ RestoreFails(p)
       \/ TidyFolder(p) \/ TidyGate(p)
       \/ MakeGate(p) \/ Publish(p)
       \/ \E b \in Birth : DeleteStart(p, b) \/ SweepStart(p, b)
       \/ Remove(p) \/ Unlink(p) \/ Crash(p)
  \/ \E b \in Birth : Save(b) \/ Export(b) \/ Move(b)

BirthSpec == BirthInit /\ [][BirthNext]_births

-----------------------------------------------------------------------------
(***************************************************************************)
(* Properties                                                              *)
(***************************************************************************)
Labels == {"idle", "reserve", "stage", "prepare", "gate", "publish", "unreserve",
           "confirm", "tidy", "ungate", "remove", "unlink"}

\* Every variable keeps its type, and the root lock is exclusive or shared.
TypeOK ==
  /\ root \in Proc \union {NoProc} /\ listers \in SUBSET Proc
  /\ root # NoProc => listers = {}
  /\ reserved \in BOOLEAN /\ gates \in [Gen -> Birth \union {Absent}]
  /\ where \in [Birth -> {"none", "staging", "prepared", "active", "trash", "tomb", "gone"}]
  /\ has \in [Birth -> SUBSET Gen] /\ record \in SUBSET Birth
  /\ archive \in Gen \union {Absent} /\ minted \in 0 .. MaxBirths /\ last \in Gen
  /\ pc \in [Proc -> Labels] /\ job \in [Proc -> Birth \union {Absent}]
  /\ said \in [Proc -> {"none", "ok", "conflict", "failed"}]
  /\ faults \in 0 .. MaxFaults

\* A birth that is reported as failed is not in the list of exams.
FailedMeansInvisible ==
  \A p \in Proc : said[p] = "failed" => where[job[p]] \notin {"active", "trash", "tomb"}

\* A session_id is in the data folder once, whoever creates, restores, moves or
\* deletes it and whatever fails (the check of _identity_exists under the root
\* lock); and a visible exam has the gate file of every generation it holds:
\* nobody's cleaning up, which a failed restore does after it gave up its locks,
\* takes it.  Nor is it there after its birth was reported as failed.
OneHome ==
  /\ \A b, c \in Birth : Visible(b) /\ Visible(c) => b = c
  /\ \A b \in Birth : Visible(b) => \A g \in has[b] : gates[g] # Absent
  /\ FailedMeansInvisible

There == \E b \in Birth : Visible(b)

\* While nothing fails, a birth is refused as already here only if the exam is
\* here, and never fails: a deleted exam leaves nothing behind that would keep
\* its backup from being restored.
CalmBirths ==
  [][faults' = 0 => \A p \in Proc :
       /\ said'[p] = "conflict" /\ said[p] # "conflict" => There
       /\ said'[p] # "failed"
    ]_births
=============================================================================
