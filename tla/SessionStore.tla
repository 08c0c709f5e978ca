---------------------------- MODULE SessionStore ----------------------------
(***************************************************************************)
(* One exam session on disk, shared by every thread and program instance   *)
(* that opens the data folder (infrastructure/session_store.py).           *)
(*                                                                         *)
(* A session folder holds immutable generations, a pointer CURRENT.json to *)
(* one of them and RETENTION.json, the boundary below which superseded     *)
(* generations were compacted away.  Lock files live outside the folder:   *)
(* the root-identity lock, the session's writer lock, and one gate file    *)
(* per generation that readers hold shared while they have a lease.  All   *)
(* locks are non-blocking byte-range locks that the operating system drops *)
(* with the process.                                                       *)
(*                                                                         *)
(* An operation that is refused (busy lock, wrong revision, damaged        *)
(* session) before it changed anything is not a step.                      *)
(***************************************************************************)
EXTENDS Integers, FiniteSets

CONSTANTS
  Proc,       (* threads or program instances, each in one operation at a time *)
  NoProc,     (* nobody: the exclusive holder of a free lock                   *)
  MaxGen,     (* bound: generations minted over a behaviour                    *)
  OpenTries,  (* attempts of _open_committed_snapshot (3 in the code)          *)
  Folders,    (* folders of heavy artifacts in a new generation, nested ones   *)
              (* included: images, sources, score images                       *)
  MaxFaults   (* bound: crashes, I/O errors and lost gate files                *)

ASSUME ProcAssumption   == NoProc \notin Proc
ASSUME MaxGenAssumption == MaxGen \in Nat /\ MaxGen >= 1
ASSUME TriesAssumption  == OpenTries \in Nat /\ OpenTries >= 1
ASSUME FoldersAssumption == Folders \in Nat
ASSUME FaultAssumption  == MaxFaults \in Nat

Gen  == 1 .. MaxGen
None == 0             \* no generation

(***************************************************************************)
(* Lock files.  The gate of generation g is lock g.                        *)
(***************************************************************************)
Writer == 0
Root   == -1
Lock   == -1 .. MaxGen

VARIABLES
  \* the session on disk
  place,      \* "active", "trash", "tomb" (under .deleting) or "gone"
  gens,       \* generations published under generations/
  broken,     \* published folders whose manifest.json was lost
  current,    \* the generation CURRENT.json names
  retention,  \* the boundary generation RETENTION.json names, or None
  gates,      \* generations whose gate file exists
  inside,     \* heavy folders CURRENT's generation still holds
  bare,       \* one of them is empty and not removed yet
  record,     \* generation ids in the DELETE.json of a tomb, {} when it is lost
  \* manifests: immutable once minted
  minted,     \* number of generation ids minted so far
  rev,        \* revision of each generation
  par,        \* parent generation of each generation
  \* lock state of the operating system
  ex,         \* exclusive holder of each lock file
  sh,         \* shared holders of each lock file
  \* local state of each process
  pc,         \* what it is about to do
  arg,        \* the generation its operation is about
  from,       \* the place its operation found the session in
  tries,      \* attempts made by the open in progress
  batch,      \* gates its prune still holds exclusively
  retired,    \* generations whose gate file it has yet to unlink
  lease,      \* the generation its open lease pins, or None
  seen,       \* the revision it last read, which it will expect
  faults

disk  == <<place, gens, broken, current, retention, gates, inside, bare, record>>
meta  == <<minted, rev, par>>
locks == <<ex, sh>>
local == <<pc, arg, from, tries, batch, retired, lease, seen>>
vars  == <<disk, meta, locks, local, faults>>

-----------------------------------------------------------------------------
(***************************************************************************)
(* Locks                                                                   *)
(***************************************************************************)
\* Mutant of Free: shared holders do not count.
FreeIgnoringReaders(l) == ex[l] = NoProc

\* An exclusive byte-range lock conflicts with every other handle, the same
\* process's included.
Free(l) == ex[l] = NoProc /\ sh[l] = {}

Shareable(l) == ex[l] = NoProc

\* Mutant of TakeExclusive: the lock is taken whoever holds it.
TakeUnasked(p, ls) == ex' = [l \in Lock |-> IF l \in ls THEN p ELSE ex[l]]

TakeExclusive(p, ls) ==
  /\ \A l \in ls : Free(l)
  /\ ex' = [l \in Lock |-> IF l \in ls THEN p ELSE ex[l]]

\* Drop the locks of ls that p holds exclusively.
DropExclusive(p, ls) ==
  ex' = [l \in Lock |-> IF l \in ls /\ ex[l] = p THEN NoProc ELSE ex[l]]

DropShared(p, ls) ==
  sh' = [l \in Lock |-> IF l \in ls THEN sh[l] \ {p} ELSE sh[l]]

-----------------------------------------------------------------------------
(***************************************************************************)
(* _validate_lineage: walk parents down from CURRENT.  Revisions of the    *)
(* published generations are unique, each present parent is exactly one    *)
(* revision older, and the walk may end early only where no published      *)
(* generation has the parent's revision and the retention boundary was     *)
(* passed on the way down.                                                 *)
(***************************************************************************)
AtRevision(r) == {g \in gens : rev[g] = r}

Lineage ==
  /\ \A g, h \in gens : rev[g] = rev[h] => g = h
  /\ \E bottom \in 1 .. rev[current] :
       /\ \A r \in bottom .. rev[current] : AtRevision(r) # {}
       /\ \A g, h \in gens :
            (rev[h] \in bottom .. rev[current] - 1 /\ rev[g] = rev[h] + 1) => par[g] = h
       /\ \/ bottom = 1
          \/ /\ AtRevision(bottom - 1) = {}
             /\ retention \in gens
             /\ rev[retention] \in bottom .. rev[current]

Live == place \in {"active", "trash"}

\* _validate_current: what every operation checks before it trusts CURRENT.  The
\* folders of its generation are exactly those of the files it holds, so an empty one
\* is refused; a heavy file is in the generation or at its place in the exam folder.
Sound == broken = {} /\ current \in gens /\ Lineage
Valid == Sound /\ ~bare

-----------------------------------------------------------------------------
(***************************************************************************)
(* A session that create_initial_generation has published.                 *)
(***************************************************************************)
Init ==
  /\ place = "active"
  /\ gens = {1} /\ broken = {} /\ current = 1 /\ retention = None
  /\ gates = {1} /\ inside = 0 /\ bare = FALSE /\ record = {}
  /\ minted = 1
  /\ rev = [g \in Gen |-> IF g = 1 THEN 1 ELSE 0]
  /\ par = [g \in Gen |-> None]
  /\ ex = [l \in Lock |-> NoProc]
  /\ sh = [l \in Lock |-> {}]
  /\ pc = [p \in Proc |-> "idle"]
  /\ arg = [p \in Proc |-> None]
  /\ from = [p \in Proc |-> "active"]
  /\ tries = [p \in Proc |-> 0]
  /\ batch = [p \in Proc |-> {}]
  /\ retired = [p \in Proc |-> {}]
  /\ lease = [p \in Proc |-> None]
  /\ seen = [p \in Proc |-> 0]
  /\ faults = 0

At(p, label)   == pc[p] = label
Goto(p, label) == pc' = [pc EXCEPT ![p] = label]

\* An injected failure, counted against MaxFaults.
Fault   == faults < MaxFaults /\ faults' = faults + 1
NoFault == UNCHANGED faults

-----------------------------------------------------------------------------
(***************************************************************************)
(* open_committed_snapshot / open_trash_snapshot, also the last step of a  *)
(* listing (_discover_committed_leases), which then still holds the root   *)
(* and the writer lock shared.                                             *)
(***************************************************************************)

\* Locate the folder and read CURRENT.json.
OpenStart(p) ==
  /\ At(p, "idle") /\ lease[p] = None /\ Live
  /\ from' = [from EXCEPT ![p] = place]
  /\ arg' = [arg EXCEPT ![p] = current]
  /\ tries' = [tries EXCEPT ![p] = 1]
  /\ Goto(p, "gate")
  /\ UNCHANGED <<disk, meta, locks, batch, retired, lease, seen, faults>>

\* The next attempt, in the same place; the session may have left it.
OpenRetry(p) ==
  /\ At(p, "retry")
  /\ IF place = from[p]
     THEN /\ arg' = [arg EXCEPT ![p] = current]
          /\ Goto(p, "gate")
          /\ UNCHANGED sh
     ELSE /\ arg' = [arg EXCEPT ![p] = None]
          /\ Goto(p, "idle")
          /\ DropShared(p, {Root, Writer})
  /\ UNCHANGED <<disk, meta, ex, from, tries, batch, retired, lease, seen, faults>>

\* The open fails: nothing stays held.
OpenFail(p) ==
  /\ DropShared(p, {Root, Writer, arg[p]})
  /\ arg' = [arg EXCEPT ![p] = None]
  /\ tries' = [tries EXCEPT ![p] = 0]
  /\ Goto(p, "idle")
  /\ UNCHANGED <<lease, seen>>

\* Take the gate of the generation the pointer named; it may be gone or busy.
OpenGate(p) ==
  /\ At(p, "gate")
  /\ IF arg[p] \in gates /\ Shareable(arg[p])
     THEN /\ sh' = [sh EXCEPT ![arg[p]] = @ \union {p}]
          /\ Goto(p, "check")
          /\ UNCHANGED <<arg, tries, lease, seen>>
     ELSE OpenFail(p)
  /\ UNCHANGED <<disk, meta, ex, from, batch, retired, faults>>

\* A prune is moving generations away, or somebody is removing heavy files, while this
\* one lists and reads them.
Torn == \E q \in Proc : pc[q] \in {"retain", "retire", "shed", "finish"}

\* Mutant of StillCurrent: the pointer is not read again under the gate.
NotReadAgain(p) == TRUE

\* The pointer still names the generation whose gate is held.
StillCurrent(p) == current = arg[p]

MayRetry(p) == tries[p] < OpenTries

\* Validate CURRENT again with the gate held: a lease, another try or an error.
OpenCheck(p) ==
  /\ At(p, "check")
  /\ \/ /\ place = from[p] /\ Valid /\ StillCurrent(p)
        /\ lease' = [lease EXCEPT ![p] = arg[p]]
        /\ seen' = [seen EXCEPT ![p] = rev[arg[p]]]
        /\ DropShared(p, {Root, Writer})
        /\ arg' = [arg EXCEPT ![p] = None]
        /\ tries' = [tries EXCEPT ![p] = 0]
        /\ Goto(p, "idle")
     \/ /\ place = from[p] /\ Valid /\ ~StillCurrent(p) /\ MayRetry(p)
        /\ DropShared(p, {arg[p]})
        /\ tries' = [tries EXCEPT ![p] = @ + 1]
        /\ Goto(p, "retry")
        /\ UNCHANGED <<arg, lease, seen>>
     \/ /\ \/ place # from[p] \/ ~Valid \/ Torn
           \/ ~StillCurrent(p) /\ ~MayRetry(p)
        /\ OpenFail(p)
  /\ UNCHANGED <<disk, meta, ex, from, batch, retired, faults>>

\* CommittedSnapshotLease.close: whenever the holder pleases.
CloseLease(p) ==
  /\ lease[p] # None
  /\ lease' = [lease EXCEPT ![p] = None]
  /\ DropShared(p, {lease[p]})
  /\ UNCHANGED <<disk, meta, ex, pc, arg, from, tries, batch, retired, seen, faults>>

-----------------------------------------------------------------------------
(***************************************************************************)
(* _discover_committed_leases: a listing of the active exams or the trash. *)
(***************************************************************************)
ListStart(p) ==
  /\ At(p, "idle") /\ lease[p] = None
  /\ Shareable(Root)
  /\ sh' = [sh EXCEPT ![Root] = @ \union {p}]
  /\ \E which \in {"active", "trash"} : from' = [from EXCEPT ![p] = which]
  /\ Goto(p, "sweep")
  /\ UNCHANGED <<disk, meta, ex, arg, tries, batch, retired, lease, seen, faults>>

\* How much of a folder a failing rmtree leaves: DELETE.json may be the first
\* file it removed.
Leftover == {record, {}}

\* Mutant of Sweeps: only a listing of the trash finishes deletes.
SweepsTrash(p) == from[p] = "trash"

Sweeps(p) == from[p] = "active"

\* _finish_pending_deletes needs a readable tombstone; only a listing of the
\* active exams runs it.
ListSweep(p) ==
  /\ At(p, "sweep")
  /\ IF Sweeps(p) /\ place = "tomb" /\ record # {}
     THEN \/ /\ place' = "gone" /\ record' = {}
             /\ retired' = [retired EXCEPT ![p] = record]
             /\ Goto(p, "unlink")
             /\ NoFault /\ UNCHANGED sh
          \/ /\ Fault
             /\ record' \in Leftover
             /\ DropShared(p, {Root})
             /\ Goto(p, "idle")
             /\ UNCHANGED <<place, retired>>
     ELSE /\ IF place = from[p]
             THEN Goto(p, "repair") /\ UNCHANGED sh
             ELSE Goto(p, "idle") /\ DropShared(p, {Root})
          /\ NoFault /\ UNCHANGED <<place, record, retired>>
  /\ UNCHANGED <<gens, broken, current, retention, gates, inside, bare, meta, ex,
                 arg, from, tries, batch, lease, seen>>

\* _externalize_generation_artifacts: the files of a heavy folder are checked against
\* their links in the exam folder and unlinked, then the empty folder is removed, which
\* may leave the one around it empty.  Whatever fails ends it there.
Shed(p, label, done, failed) ==
  /\ At(p, label)
  /\ \/ /\ inside > 0 /\ ~bare
        /\ bare' = TRUE
        /\ NoFault /\ UNCHANGED <<inside, ex, pc>>
     \/ /\ inside > 0 /\ bare
        /\ inside' = inside - 1 /\ bare' \in BOOLEAN /\ (bare' => inside > 1)
        /\ NoFault /\ UNCHANGED <<ex, pc>>
     \/ /\ inside = 0
        /\ done
        /\ NoFault /\ UNCHANGED <<inside, bare>>
     \/ /\ inside > 0
        /\ failed
        /\ Fault /\ UNCHANGED <<inside, bare>>
  /\ UNCHANGED <<place, gens, broken, current, retention, gates, record, meta, sh,
                 arg, from, tries, batch, retired, lease, seen>>

\* _repair_session, under the writer lock when it is free: gate files lost
\* with the .locks folder are created again, and if CURRENT is valid and holds heavy
\* folders an interrupted commit is finished.
ListRepair(p) ==
  /\ At(p, "repair")
  /\ gates' = IF Free(Writer) THEN gates \union gens ELSE gates
  /\ IF Free(Writer) /\ Valid /\ inside > 0
     THEN ex' = [ex EXCEPT ![Writer] = p] /\ Goto(p, "finish")
     ELSE Goto(p, "share") /\ UNCHANGED ex
  /\ UNCHANGED <<place, gens, broken, current, retention, inside, bare, record, meta, sh,
                 arg, from, tries, batch, retired, lease, seen, faults>>

\* Done or not, the listing goes on; what is left is tried again by the next.
ListFinish(p) ==
  LET goOn == DropExclusive(p, {Writer}) /\ Goto(p, "share")
  IN Shed(p, "finish", goOn, goOn)

\* The listing opens a lease under the shared writer lock, or skips the exam.
ListShare(p) ==
  /\ At(p, "share")
  /\ IF Shareable(Writer)
     THEN /\ sh' = [sh EXCEPT ![Writer] = @ \union {p}]
          /\ arg' = [arg EXCEPT ![p] = current]
          /\ tries' = [tries EXCEPT ![p] = 1]
          /\ Goto(p, "gate")
     ELSE /\ DropShared(p, {Root})
          /\ Goto(p, "idle")
          /\ UNCHANGED <<arg, tries>>
  /\ UNCHANGED <<disk, meta, ex, from, batch, retired, lease, seen, faults>>

-----------------------------------------------------------------------------
(***************************************************************************)
(* commit_generation                                                       *)
(***************************************************************************)

\* Writer lock, valid CURRENT, expected revision; a fresh generation is staged.
CommitStart(p) ==
  /\ At(p, "idle") /\ place = "active"
  /\ TakeExclusive(p, {Writer})
  /\ Valid /\ rev[current] = seen[p]
  /\ minted < MaxGen
  /\ minted' = minted + 1
  /\ rev' = [rev EXCEPT ![minted + 1] = rev[current] + 1]
  /\ par' = [par EXCEPT ![minted + 1] = current]
  /\ arg' = [arg EXCEPT ![p] = minted + 1]
  /\ Goto(p, "stage")
  /\ UNCHANGED <<disk, sh, from, tries, batch, retired, lease, seen, faults>>

\* The staged generation is complete; its gate file is created.
CommitGate(p) ==
  /\ At(p, "stage")
  /\ gates' = gates \union {arg[p]}
  /\ Goto(p, "publish")
  /\ UNCHANGED <<place, gens, broken, current, retention, inside, bare, record, meta, locks,
                 arg, from, tries, batch, retired, lease, seen, faults>>

\* The pointer has not moved while the generation was staged.
Unmoved(p) == Valid /\ rev[current] = seen[p] /\ current = par[arg[p]]

\* Rename the staging folder into generations/.
CommitPublish(p) ==
  /\ At(p, "publish")
  /\ Unmoved(p)
  /\ gens' = gens \union {arg[p]}
  /\ Goto(p, "point")
  /\ UNCHANGED <<place, broken, current, retention, gates, inside, bare, record, meta, locks,
                 arg, from, tries, batch, retired, lease, seen, faults>>

\* Replace CURRENT.json: the commit takes effect.
CommitPoint(p) ==
  /\ At(p, "point")
  /\ current' = arg[p]
  /\ inside' = Folders /\ bare' = FALSE
  /\ seen' = [seen EXCEPT ![p] = rev[arg[p]]]
  /\ arg' = [arg EXCEPT ![p] = None]
  /\ Goto(p, "view")
  /\ UNCHANGED <<place, gens, broken, retention, gates, record, meta, locks,
                 from, tries, batch, retired, lease, faults>>

\* An error before CURRENT was replaced: the staging folder, the published
\* folder and the gate file are removed as far as the file system lets them
\* (rmtree with ignore_errors may leave the folder without its manifest).
CommitAbort(p) ==
  /\ pc[p] \in {"stage", "publish", "point"}
  /\ IF At(p, "publish") /\ ~Unmoved(p) THEN NoFault ELSE Fault
  /\ \/ gens' = gens \ {arg[p]} /\ UNCHANGED broken
     \/ UNCHANGED <<gens, broken>>
     \/ /\ arg[p] \in gens
        /\ gens' = gens \ {arg[p]}
        /\ broken' = broken \union {arg[p]}
  /\ gates' \in {gates, gates \ {arg[p]}}
  /\ DropExclusive(p, {Writer})
  /\ arg' = [arg EXCEPT ![p] = None]
  /\ Goto(p, "idle")
  /\ UNCHANGED <<place, current, retention, inside, bare, record, meta, sh,
                 from, tries, batch, retired, lease, seen>>

\* Refresh the folder's result view; an open file ends the commit here, saved but
\* neither shed nor pruned.
CommitView(p) ==
  /\ At(p, "view")
  /\ \/ Goto(p, "shed") /\ NoFault /\ UNCHANGED ex
     \/ Goto(p, "idle") /\ Fault /\ DropExclusive(p, {Writer})
  /\ UNCHANGED <<disk, meta, sh, arg, from, tries, batch, retired, lease, seen>>

\* Move the heavy artifacts out of the generation; if that fails the commit ends.
CommitShed(p) ==
  Shed(p, "shed", Goto(p, "prune") /\ UNCHANGED ex, Goto(p, "idle") /\ DropExclusive(p, {Writer}))

-----------------------------------------------------------------------------
(***************************************************************************)
(* _prune_superseded_generations, the tail of a commit.                    *)
(***************************************************************************)
Superseded == gens \ {current}

\* The gate of every superseded generation, or no prune at all.
PruneLock(p) ==
  /\ At(p, "prune")
  /\ IF Superseded \subseteq gates /\ \A g \in Superseded : Free(g)
     THEN /\ TakeExclusive(p, Superseded)
          /\ batch' = [batch EXCEPT ![p] = Superseded]
          /\ Goto(p, "retain")
     ELSE /\ DropExclusive(p, {Writer})
          /\ Goto(p, "idle")
          /\ UNCHANGED batch
  /\ UNCHANGED <<disk, meta, sh, arg, from, tries, retired, lease, seen, faults>>

\* Mutant of Boundary: the record names the omitted parent.
BoundaryAtParent == par[current]

Boundary == current

\* Write RETENTION.json before anything is moved.
PruneRetain(p) ==
  /\ At(p, "retain")
  /\ \/ retention' = Boundary /\ Goto(p, "retire") /\ NoFault
     \/ Fault /\ Goto(p, "release") /\ UNCHANGED retention
  /\ UNCHANGED <<place, gens, broken, current, gates, inside, bare, record, meta, locks,
                 arg, from, tries, batch, retired, lease, seen>>

\* Retire one generation at a time, oldest first: move it to .staging/prune,
\* then delete it.  A failure of either ends the prune.
PruneRetire(p) ==
  /\ At(p, "retire")
  /\ IF batch[p] \intersect gens = {}
     THEN Goto(p, "release") /\ NoFault /\ UNCHANGED <<gens, retired>>
     ELSE \E g \in batch[p] \intersect gens :
            /\ \A h \in batch[p] \intersect gens : rev[g] <= rev[h]
            /\ \/ /\ gens' = gens \ {g}
                  /\ retired' = [retired EXCEPT ![p] = @ \union {g}]
                  /\ NoFault /\ UNCHANGED pc
               \/ /\ Fault
                  /\ gens' \in {gens, gens \ {g}}
                  /\ Goto(p, "release")
                  /\ UNCHANGED retired
  /\ UNCHANGED <<place, broken, current, retention, gates, inside, bare, record, meta, locks,
                 arg, from, tries, batch, lease, seen>>

\* Close the gates, newest first; the gate file of a retired one goes too.
PruneRelease(p) ==
  /\ At(p, "release")
  /\ IF batch[p] = {}
     THEN /\ DropExclusive(p, {Writer})
          /\ retired' = [retired EXCEPT ![p] = {}]
          /\ Goto(p, "idle")
          /\ UNCHANGED <<batch, arg>>
     ELSE \E g \in batch[p] :
            /\ \A h \in batch[p] : rev[h] <= rev[g]
            /\ DropExclusive(p, {g})
            /\ batch' = [batch EXCEPT ![p] = @ \ {g}]
            /\ IF g \in retired[p]
               THEN arg' = [arg EXCEPT ![p] = g] /\ Goto(p, "forget")
               ELSE UNCHANGED <<arg, pc>>
            /\ UNCHANGED retired
  /\ UNCHANGED <<disk, meta, sh, from, tries, lease, seen, faults>>

\* Unlink the gate file just closed.  A reader that took it in between makes
\* the unlink fail, and the handles not yet closed stay open until p exits.
PruneForget(p) ==
  /\ At(p, "forget")
  /\ arg' = [arg EXCEPT ![p] = None]
  /\ \/ /\ Free(arg[p])
        /\ gates' = gates \ {arg[p]}
        /\ Goto(p, "release")
        /\ UNCHANGED <<ex, batch, retired>>
     \/ /\ ~Free(arg[p])
        /\ DropExclusive(p, {Writer})
        /\ batch' = [batch EXCEPT ![p] = {}]
        /\ retired' = [retired EXCEPT ![p] = {}]
        /\ Goto(p, "idle")
        /\ UNCHANGED gates
  /\ UNCHANGED <<place, gens, broken, current, retention, inside, bare, record, meta, sh,
                 from, tries, lease, seen, faults>>

-----------------------------------------------------------------------------
(***************************************************************************)
(* _move_session and permanently_delete: both take the root lock, compare  *)
(* the revision, then take the writer lock and every gate.                 *)
(***************************************************************************)

\* The revision is compared here, before the writer lock, and never again.
ExclusiveStart(p, next) ==
  /\ At(p, "idle") /\ Live
  /\ TakeExclusive(p, {Root})
  /\ rev[current] = seen[p]
  /\ from' = [from EXCEPT ![p] = place]
  /\ Goto(p, next)
  /\ UNCHANGED <<disk, meta, sh, arg, tries, batch, retired, lease, seen, faults>>

MoveStart(p)   == ExclusiveStart(p, "moveLock")
DeleteStart(p) == place = "trash" /\ ExclusiveStart(p, "deleteLock")

\* Mutant of GatesFree: open leases do not count.
GatesExceptReaders(p) == \A g \in gens : ex[g] = NoProc

\* _all_gates_exclusive finds no reader and no other holder.
GatesFree(p) == \A g \in gens : Free(g)

\* The writer lock, a valid session, its lost gate files created again, and
\* every gate; any refusal gives the root lock back.
ExclusiveLock(p, label, next) ==
  /\ At(p, label)
  /\ gates' = IF Free(Writer) /\ place = from[p] /\ Valid THEN gates \union gens ELSE gates
  /\ IF Free(Writer) /\ place = from[p] /\ Valid /\ GatesFree(p)
     THEN /\ ex' = [l \in Lock |-> IF l \in {Writer} \union gens THEN p ELSE ex[l]]
          /\ Goto(p, next)
     ELSE /\ DropExclusive(p, {Root})
          /\ Goto(p, "idle")
  /\ UNCHANGED <<place, gens, broken, current, retention, inside, bare, record, meta, sh,
                 arg, from, tries, batch, retired, lease, seen, faults>>

MoveLock(p)   == ExclusiveLock(p, "moveLock", "move")
DeleteLock(p) == ExclusiveLock(p, "deleteLock", "entomb")

Other(where) == IF where = "active" THEN "trash" ELSE "active"

\* Rename the folder to the other side; a file open in it, or a folder already
\* there, leaves it where it is.
MoveRename(p) ==
  /\ At(p, "move")
  /\ place' \in {place, Other(place)}
  /\ DropExclusive(p, {Root, Writer} \union gens)
  /\ Goto(p, "idle")
  /\ UNCHANGED <<gens, broken, current, retention, gates, inside, bare, record, meta, sh,
                 arg, from, tries, batch, retired, lease, seen, faults>>

\* Write DELETE.json with the generation ids and move the folder to .deleting.
\* An open file may stop either; a DELETE.json nobody moved is never read.
DeleteMove(p) ==
  /\ At(p, "entomb")
  /\ \/ /\ place' = "tomb" /\ record' = gens /\ gens' = {}
        /\ retired' = [retired EXCEPT ![p] = gens]
        /\ Goto(p, "clean")
        /\ UNCHANGED ex
     \/ /\ DropExclusive(p, {Root, Writer} \union gens)
        /\ Goto(p, "idle")
        /\ UNCHANGED <<place, record, gens, retired>>
  /\ UNCHANGED <<broken, current, retention, gates, inside, bare, meta, sh,
                 arg, from, tries, batch, lease, seen, faults>>

\* rmtree the tomb, then close the gates; or stop part-way, cleanup pending.
DeleteClean(p) ==
  /\ At(p, "clean")
  /\ \/ /\ place' = "gone" /\ record' = {}
        /\ DropExclusive(p, retired[p])
        /\ Goto(p, "unlink")
        /\ NoFault /\ UNCHANGED retired
     \/ /\ Fault
        /\ record' \in Leftover
        /\ DropExclusive(p, {Root, Writer} \union retired[p])
        /\ retired' = [retired EXCEPT ![p] = {}]
        /\ Goto(p, "idle")
        /\ UNCHANGED place
  /\ UNCHANGED <<gens, broken, current, retention, gates, inside, bare, meta, sh,
                 arg, from, tries, batch, lease, seen>>

\* Unlink the gate files of a deleted session one by one (the deleter, or the
\* listing that finishes its work); one still open ends it.
UnlinkGates(p) ==
  /\ At(p, "unlink")
  /\ LET left == retired[p] \intersect gates IN
       \/ /\ \E g \in left : /\ Free(g)
                            /\ gates' = gates \ {g}
                            /\ retired' = [retired EXCEPT ![p] = @ \ {g}]
          /\ UNCHANGED <<ex, sh, pc>>
       \/ /\ left = {} \/ \E g \in left : ~Free(g)
          /\ retired' = [retired EXCEPT ![p] = {}]
          /\ DropExclusive(p, {Root, Writer})
          /\ DropShared(p, {Root})
          /\ Goto(p, "idle")
          /\ UNCHANGED gates
  /\ UNCHANGED <<place, gens, broken, current, retention, inside, bare, record, meta,
                 arg, from, tries, batch, lease, seen, faults>>

-----------------------------------------------------------------------------
(***************************************************************************)
(* The process dies at any point: the operating system drops its locks,    *)
(* the disk keeps what was written.  A process also exits this way, and    *)
(* its restart knows no revision.                                          *)
(***************************************************************************)
Crash(p) ==
  /\ Fault
  /\ ex' = [l \in Lock |-> IF ex[l] = p THEN NoProc ELSE ex[l]]
  /\ sh' = [l \in Lock |-> sh[l] \ {p}]
  /\ Goto(p, "idle")
  /\ arg' = [arg EXCEPT ![p] = None]
  /\ tries' = [tries EXCEPT ![p] = 0]
  /\ batch' = [batch EXCEPT ![p] = {}]
  /\ retired' = [retired EXCEPT ![p] = {}]
  /\ lease' = [lease EXCEPT ![p] = None]
  /\ seen' = [seen EXCEPT ![p] = 0]
  /\ UNCHANGED <<disk, meta, from>>

\* A gate file nobody has open is lost, as when a folder is copied without
\* its .locks.
LoseGate(g) ==
  /\ Fault
  /\ g \in gates \intersect gens /\ Free(g)
  /\ gates' = gates \ {g}
  /\ UNCHANGED <<place, gens, broken, current, retention, inside, bare, record, meta, locks, local>>

-----------------------------------------------------------------------------
Open(p)   == OpenStart(p) \/ OpenGate(p) \/ OpenCheck(p) \/ OpenRetry(p)
List(p)   == ListStart(p) \/ ListSweep(p) \/ ListRepair(p) \/ ListFinish(p) \/ ListShare(p)
Commit(p) == CommitStart(p) \/ CommitGate(p) \/ CommitPublish(p) \/ CommitPoint(p)
               \/ CommitAbort(p) \/ CommitView(p) \/ CommitShed(p)
Prune(p)  == PruneLock(p) \/ PruneRetain(p) \/ PruneRetire(p) \/ PruneRelease(p)
               \/ PruneForget(p)
Move(p)   == MoveStart(p) \/ MoveLock(p) \/ MoveRename(p)
Delete(p) == DeleteStart(p) \/ DeleteLock(p) \/ DeleteMove(p) \/ DeleteClean(p)
               \/ UnlinkGates(p)

Next ==
  \/ \E p \in Proc : \/ Open(p) \/ CloseLease(p) \/ List(p) \/ Commit(p) \/ Prune(p)
                     \/ Move(p) \/ Delete(p) \/ Crash(p)
  \/ \E g \in Gen : LoseGate(g)

\* What an operation does once begun; it never waits for another process.
Continue(p) ==
  \/ OpenGate(p) \/ OpenCheck(p) \/ OpenRetry(p)
  \/ ListSweep(p) \/ ListRepair(p) \/ ListFinish(p) \/ ListShare(p)
  \/ CommitGate(p) \/ CommitPublish(p) \/ CommitPoint(p) \/ CommitAbort(p) \/ CommitView(p)
  \/ CommitShed(p)
  \/ Prune(p)
  \/ MoveLock(p) \/ MoveRename(p)
  \/ DeleteLock(p) \/ DeleteMove(p) \/ DeleteClean(p) \/ UnlinkGates(p)

Spec == Init /\ [][Next]_vars

\* Started operations run on, and somebody keeps listing the active exams.
FairSpec ==
  /\ Spec
  /\ \A p \in Proc : WF_vars(Continue(p))
  /\ \A p \in Proc : SF_vars(ListStart(p) /\ from'[p] = "active")

-----------------------------------------------------------------------------
(***************************************************************************)
(* The abstract specification this one implements.                         *)
(***************************************************************************)
Authority == INSTANCE SessionAuthority WITH
  state    <- IF Live THEN place ELSE "deleted",
  revision <- rev[current],
  pinned   <- [p \in Proc |-> IF lease[p] = None THEN 0 ELSE rev[lease[p]]],
  known    <- seen

-----------------------------------------------------------------------------
(***************************************************************************)
(* Properties                                                              *)
(***************************************************************************)
Labels == {"idle", "gate", "check", "retry", "sweep", "repair", "share",
           "finish", "stage", "publish", "point", "view", "shed", "prune", "retain", "retire",
           "release", "forget", "moveLock", "move", "deleteLock", "entomb",
           "clean", "unlink"}

DiskTypes ==
  /\ place \in {"active", "trash", "tomb", "gone"}
  /\ gens \in SUBSET Gen /\ broken \in SUBSET Gen
  /\ current \in Gen /\ retention \in Gen \union {None}
  /\ gates \in SUBSET Gen /\ record \in SUBSET Gen
  /\ inside \in 0 .. Folders /\ bare \in BOOLEAN

MintTypes ==
  /\ minted \in Gen
  /\ rev \in [Gen -> 0 .. MaxGen]
  /\ par \in [Gen -> Gen \union {None}]

LockTypes ==
  /\ ex \in [Lock -> Proc \union {NoProc}]
  /\ sh \in [Lock -> SUBSET Proc]

ProcTypes ==
  /\ pc \in [Proc -> Labels]
  /\ arg \in [Proc -> Gen \union {None}]
  /\ from \in [Proc -> {"active", "trash"}]
  /\ tries \in [Proc -> 0 .. OpenTries]
  /\ batch \in [Proc -> SUBSET Gen]
  /\ retired \in [Proc -> SUBSET Gen]
  /\ lease \in [Proc -> Gen \union {None}]
  /\ seen \in [Proc -> 0 .. MaxGen]

\* Every variable keeps its type.
TypeOK == DiskTypes /\ MintTypes /\ LockTypes /\ ProcTypes /\ faults \in 0 .. MaxFaults

\* A lease pins its generation: while it is open the generation stays
\* published and the session is not deleted, whatever other processes commit,
\* compact, move or delete (the shared gate of open_committed_snapshot).
LeasePinned ==
  \A p \in Proc : lease[p] # None => Live /\ lease[p] \in gens

\* CURRENT.json of a session that is not deleted never dangles: no abort, no
\* compaction and no crash removes the generation it names.
CurrentPresent == Live => current \in gens

\* The only way CURRENT moves is the compare-and-swap of commit_generation:
\* to a child of what it named, one revision on, by a process whose expected
\* revision was the current one.  No two savers replace the same revision.
PointerAdvances ==
  [][current' # current =>
       /\ par[current'] = current /\ rev[current'] = rev[current] + 1
       /\ \E p \in Proc : seen[p] = rev[current] /\ pc[p] = "point" /\ ex[Writer] = p
    ]_vars

\* A folder never changes place, and is never deleted, under an open lease.
NoMoveUnderLease ==
  [][place' # place /\ Live => \A p \in Proc : lease[p] = None]_vars

\* The strengthening of LeasePinned, CurrentPresent and PointerAdvances that
\* every step preserves, in parts.
Opening   == {"gate", "check", "retry", "sweep", "repair", "finish", "share"}
Staging   == {"stage", "publish", "point"}
Pruning   == {"retain", "retire", "release", "forget"}
Saving    == Staging \union {"view", "shed", "prune"} \union Pruning
Exclusive == {"move", "entomb"}

\* What was minted bounds everything.
MintInv ==
  /\ current <= minted
  /\ \A g \in gens : g <= minted
  /\ \A g \in Gen : rev[g] <= minted

\* An exclusively held lock file has no shared holder.
LockInv == \A l \in Lock : ex[l] # NoProc => sh[l] = {}

\* A lease, and an open about to give one, hold their gate shared.
ReadOf(p) ==
  /\ lease[p] # None => p \in sh[lease[p]]
  /\ pc[p] \in Opening => lease[p] = None
  /\ pc[p] = "check" => arg[p] \in Gen /\ p \in sh[arg[p]]

\* A saver holds the writer lock of an active session; what it staged is a
\* child of CURRENT that nobody reads; what it compacts is locked.
SaveOf(p) ==
  /\ pc[p] \in Saving => ex[Writer] = p /\ place = "active"
  /\ pc[p] \in Staging =>
       /\ arg[p] \in Gen /\ arg[p] # current /\ arg[p] <= minted
       /\ par[arg[p]] = current /\ rev[arg[p]] = rev[current] + 1
       /\ seen[p] = rev[current]
       /\ \A q \in Proc : lease[q] # arg[p]
  /\ pc[p] = "point" => arg[p] \in gens
  /\ pc[p] \in Pruning => current \notin batch[p] /\ \A g \in batch[p] : ex[g] = p

\* A mover or deleter holds the writer lock and every gate, a listing that finishes an
\* interrupted commit the writer lock.
ExclusiveOf(p) ==
  /\ pc[p] \in Exclusive => ex[Writer] = p /\ Live /\ \A g \in gens : ex[g] = p
  /\ pc[p] = "clean" => ex[Writer] = p /\ ~Live
  /\ pc[p] = "finish" => ex[Writer] = p

ReadInv      == \A p \in Proc : ReadOf(p)
SaveInv      == \A p \in Proc : SaveOf(p)
ExclusiveInv == \A p \in Proc : ExclusiveOf(p)

IInv == /\ TypeOK /\ MintInv /\ LockInv /\ ReadInv /\ SaveInv /\ ExclusiveInv
        /\ LeasePinned /\ CurrentPresent

\* Somebody with the writer lock is removing the heavy folders.
Shedding == \E p \in Proc : pc[p] \in {"shed", "finish"} /\ ex[Writer] = p

\* A published generation that never became current is in the way: it shares its revision
\* with another, or an abort emptied its folder.
Strays == broken # {} \/ \E g, h \in gens : g # h /\ rev[g] = rev[h] /\ par[g] = par[h]

\* The only things that make CURRENT unreadable are strays, and a heavy folder that was
\* emptied and not yet removed: by somebody who is at it, or for good after a failure.
OnlyLeftoversBreak ==
  Live => (Sound \/ Strays) /\ (bare => Shedding \/ faults > 0)

\* While nothing fails, a session that is not deleted can be read but for the moments in
\* which a saver or a listing removes an emptied folder: no interleaving of saves,
\* compactions, leases and moves leaves CURRENT with a lineage that _validate_lineage
\* refuses, or without the gate file that readers and movers lock.
CurrentReadable ==
  (Live /\ faults = 0) => Sound /\ current \in gates /\ (Valid \/ Shedding)

\* "Saved; the next listing finishes the folder once the file is closed"
\* (commit_generation): nothing but a stray keeps a listing, which wants a valid CURRENT,
\* from finishing the folder.
NextListingFinishes == (Live /\ inside > 0) => Valid \/ Strays \/ Shedding

\* A permanent delete an open file interrupted is finished by a later listing
\* as long as its DELETE.json is still there.
PendingDeleteFinishes == (place = "tomb" /\ record # {}) ~> (place = "gone" \/ record = {})

\* The store implements SessionAuthority: a save is over the revision its
\* caller read, a lease opens on the authoritative revision, the folder moves
\* only while nobody reads it.
ImplementsAuthority == Authority!Spec
=============================================================================
