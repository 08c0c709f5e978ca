----------------------------- MODULE ExamListing -----------------------------
(***************************************************************************)
(* The exam folders as a user of Explorer may leave them, what the list    *)
(* and the trash list make of them (infrastructure/session_store.py,       *)
(* dashboard_index.py, dashboard_repository.py) and what the recovery of   *)
(* the store reports and clears away.                                      *)
(*                                                                         *)
(* A folder is known by its place and its name and has                     *)
(*   id        the exam IDENTITY.json names, Missing without it,           *)
(*   state     whether CURRENT.json and what it points to can be used,     *)
(*   recorded  the name in LOCATION.json,                                  *)
(*   shows     whether the list can read its figures,                      *)
(*   staged    what interrupted saves left in it.                          *)
(* One step is one call; SessionStore has the races within and between     *)
(* them.                                                                   *)
(***************************************************************************)
EXTENDS Integers, FiniteSets, Functions

CONSTANTS
  Exams,         (* exam IDs; old versions named trashed folders so        *)
  Names,         (* folder names, exam IDs among them                      *)
  FirstFolders,  (* what the folders may be at first                       *)
  FirstResidue,  (* what crashes may have left behind                      *)
  MaxCalls,      (* bound on what is done                                  *)
  Ambiguous, Missing

Places == {"list", "trash"}

Folder ==
  [id : Exams \union {Missing, "unreadable"}, state : {"good", "damaged", "no_pointer"},
   recorded : Names \union {Missing}, shows : BOOLEAN, staged : BOOLEAN]

\* A folder listing ends.
IsFolders(fs) ==
  /\ IsFiniteSet(DOMAIN fs) /\ DOMAIN fs \subseteq Places \X Names
  /\ fs \in [DOMAIN fs -> Folder]

IsResidue(r) == DOMAIN r = {"staging", "reservations", "tombs", "lockdirs", "locks"}

ASSUME ListingAssumption ==
  /\ Exams \subseteq Names /\ MaxCalls \in Nat
  /\ Ambiguous # Missing /\ {Ambiguous, Missing} \intersect (Places \X Names) = {}
  /\ \A fs \in FirstFolders : IsFolders(fs)
  /\ \A r \in FirstResidue : IsResidue(r)

VARIABLES
  folders,  \* by place and name
  residue,  \* staging, reservations, tombs, lock folders and locks of the store
  held,     \* exams another program reads or writes now: "no", "read" or "write"
  writable, \* whether this program may write here
  listed,   \* the list that was just read, or Missing
  issues,   \* the report of the recovery that just ran, or Missing
  calls

listing == <<folders, residue, held, writable, listed, issues, calls>>

-----------------------------------------------------------------------------
(***************************************************************************)
(* Which folder is the exam                                                *)
(***************************************************************************)
FoldersOf(fs, id, places) == {k \in DOMAIN fs : k[1] \in places /\ fs[k].id = id}

\* It kept the name it was given, which a copy does not.
KeepsName(fs, k) == fs[k].recorded = k[2] \/ k = <<"trash", fs[k].id>>

\* Mutant of Chosen: any of them.
ChosenAny(fs, found) == IF found = {} THEN Missing ELSE CHOOSE k \in found : TRUE

Chosen(fs, found) ==
  LET kept == {k \in found : KeepsName(fs, k)}
  IN CASE found = {} -> Missing
       [] Cardinality(found) = 1 -> CHOOSE k \in found : TRUE
       [] Cardinality(found) > 1 ->
            IF Cardinality(kept) = 1 THEN CHOOSE k \in kept : TRUE ELSE Ambiguous

Locate(fs, id, places) == Chosen(fs, FoldersOf(fs, id, places))

\* An exam is used where it lies only if its folder is known in both places together.
Reached(fs, id, place) ==
  IF Locate(fs, id, Places) = Ambiguous THEN Ambiguous ELSE Locate(fs, id, {place})

-----------------------------------------------------------------------------
(***************************************************************************)
(* Lists                                                                   *)
(***************************************************************************)
\* One folder of each exam; two that cannot be told apart are left out.
SessionFolders(fs, place) ==
  {Locate(fs, id, {place}) : id \in Exams} \ {Missing, Ambiguous}

\* The name of a renamed folder is recorded; nothing is repaired without a pointer.
Renamed(fs, place) ==
  [k \in DOMAIN fs |->
    IF /\ writable /\ k \in SessionFolders(fs, place)
       /\ held[fs[k].id] # "write" /\ fs[k].state # "no_pointer" /\ ~KeepsName(fs, k)
    THEN [fs[k] EXCEPT !.recorded = k[2]] ELSE fs[k]]

Opens(fs, k) ==
  /\ held[fs[k].id] # "write"
  /\ Reached(fs, fs[k].id, k[1]) = k
  /\ fs[k].state = "good"

\* Interrupted deletes are finished and lost locks made again.
LocksBack(fs, place) ==
  (residue.locks \ (IF place = "list" THEN {t \in DOMAIN residue.tombs : residue.tombs[t] = "readable"} ELSE {}))
  \union {fs[k].id : k \in {j \in SessionFolders(fs, place) : held[fs[j].id] # "write" /\ fs[j].state # "no_pointer"}}

\* What the list shows needs a name on record, of whatever folder.
Entry(fs, k) ==
  [folder |-> k, id |-> fs[k].id,
   name |-> IF k = <<"trash", fs[k].id>> THEN fs[k].recorded ELSE k[2]]

Projects(fs, k) == fs[k].shows /\ fs[k].recorded # Missing

\* Folders named in a warning; of an exam left out for its figures nothing is named.
Listing(fs, place) ==
  LET chosen == SessionFolders(fs, place)
      opened == {k \in chosen : Opens(fs, k)}
      shown  == {k \in opened : Projects(fs, k)}
  IN [place |-> place,
      entries |-> {Entry(fs, k) : k \in shown},
      named   |-> {k \in DOMAIN fs : k[1] = place /\ fs[k].id # Missing} \ opened,
      unnamed |-> Cardinality(opened \ shown)]

-----------------------------------------------------------------------------
(***************************************************************************)
(* Recovery                                                                *)
(***************************************************************************)
Issue(kind, where) == [kind |-> kind, where |-> where]

Usable(fs, k) == fs[k].state = "good" /\ fs[k].id \in Exams

\* Folders that were looked through, under all their locks.
Owned(fs) == {k \in DOMAIN fs : Usable(fs, k) /\ held[fs[k].id] = "no"}

RecoverSession(fs, k) ==
  IF ~Usable(fs, k) THEN {Issue("POINTER_INVALID", k)}
  ELSE IF held[fs[k].id] # "no" THEN {Issue("RECOVERY_BLOCKED", k)}
  ELSE {Issue("GATE_MISSING", k) : x \in {1} \ (IF fs[k].id \in residue.locks THEN {1} ELSE {})}

Leftovers(fs) ==
  {Issue("STAGING_ORPHAN", k) : k \in {j \in Owned(fs) : fs[j].staged}}
  \union {Issue("STAGING_ORPHAN", <<"root", "">>) : x \in {s \in {1} : residue.staging}}

Finishable(id) == residue.tombs[id] = "readable" /\ held[id] = "no" /\ id \in residue.locks

Tombs == DOMAIN residue.tombs

\* Exams whose locks have an owner.
LockOwners(fs) ==
  {id \in Exams : Cardinality({k \in Owned(fs) : fs[k].id = id}) = 1}
  \union {id \in Tombs : Finishable(id)}

Recovery(fs, cleanup) ==
  LET finish == {Issue("DELETE_PENDING", <<"exam", id>>) : id \in {t \in Tombs : Finishable(t)}}
  IN [cleanup |-> cleanup,
      cleaned |-> IF cleanup THEN Leftovers(fs) \union finish ELSE {},
      quarantined |->
        (UNION {RecoverSession(fs, k) : k \in DOMAIN fs})
        \union (IF cleanup THEN {} ELSE Leftovers(fs) \union finish)
        \union {Issue("LOCATION_AMBIGUOUS", <<"exam", id>>) : id \in
                 {e \in Exams : Cardinality({k \in Owned(fs) : fs[k].id = e}) > 1}}
        \union {Issue("RESERVATION", <<"exam", r>>) : r \in residue.reservations}
        \union {Issue("DELETE_BLOCKED", <<"exam", id>>) : id \in {t \in Tombs : ~Finishable(t)}}
        \union {Issue("LOCK_ORPHAN", <<"exam", id>>) : id \in residue.lockdirs \ LockOwners(fs)}]

AfterRecovery(fs, cleanup) ==
  [k \in DOMAIN fs |-> IF cleanup /\ k \in Owned(fs) THEN [fs[k] EXCEPT !.staged = FALSE] ELSE fs[k]]

\* Lock folders of deleted exams stay.
ResidueLeft(cleanup) ==
  IF ~cleanup THEN residue
  ELSE LET done == {t \in Tombs : Finishable(t)}
       IN [residue EXCEPT !.staging = FALSE, !.tombs = Restrict(@, Tombs \ done), !.locks = @ \ done]

-----------------------------------------------------------------------------
(***************************************************************************)
(* What is done to the folders                                             *)
(***************************************************************************)
Call == calls < MaxCalls /\ calls' = calls + 1

FoldersBecome(fs) ==
  /\ folders' = fs /\ listed' = Missing /\ issues' = Missing
  /\ UNCHANGED <<held, writable>>

With(fs, k, folder) == [j \in DOMAIN fs \union {k} |-> IF j = k THEN folder ELSE fs[j]]

Without(fs, k) == Restrict(fs, DOMAIN fs \ {k})

\* Explorer copies a folder, or gives it another name or place.
Copy(from, to) ==
  /\ Call
  /\ FoldersBecome(With(folders, to, folders[from])) /\ UNCHANGED residue

CarryOff(from, to) ==
  /\ Call
  /\ FoldersBecome(With(Without(folders, from), to, folders[from])) /\ UNCHANGED residue

\* A file in the folder is lost or spoilt.
Spoil(k) ==
  /\ Call
  /\ \E broken \in {[folders[k] EXCEPT !.recorded = Missing], [folders[k] EXCEPT !.state = "damaged"],
                    [folders[k] EXCEPT !.state = "no_pointer"], [folders[k] EXCEPT !.id = "unreadable"]} :
       FoldersBecome([folders EXCEPT ![k] = broken])
  /\ UNCHANGED residue

\* The program moves what it reaches.
Destination(k) == IF k[1] = "list" THEN <<"trash", k[2]>> ELSE <<"list", folders[k].recorded>>

MoveSession(id, place) ==
  LET k == Reached(folders, id, place) IN
  /\ Call /\ writable
  /\ k \notin {Missing, Ambiguous} /\ folders[k].state = "good" /\ held[id] = "no"
  /\ Destination(k)[2] # Missing /\ Destination(k) \notin DOMAIN folders
  /\ FoldersBecome(With(Without(folders, k), Destination(k),
                        [folders[k] EXCEPT !.recorded = IF place = "list" THEN k[2] ELSE @]))
  /\ residue' = [residue EXCEPT !.locks = @ \union {id}, !.lockdirs = @ \union {id}]

\* An exam comes back from a backup, under a name no folder here has.
RestoreBackup(id, name) ==
  /\ Call /\ writable
  /\ FoldersOf(folders, id, Places) = {} /\ id \notin residue.locks \union Tombs \union residue.reservations
  /\ \A p \in Places : <<p, name>> \notin DOMAIN folders
  /\ FoldersBecome(With(folders, <<"list", name>>,
       [id |-> id, state |-> "good", recorded |-> name, shows |-> TRUE, staged |-> FALSE]))
  /\ residue' = [residue EXCEPT !.locks = @ \union {id}, !.lockdirs = @ \union {id}]

Hold(id, how) ==
  /\ Call /\ held' = [held EXCEPT ![id] = how]
  /\ listed' = Missing /\ issues' = Missing
  /\ UNCHANGED <<folders, residue, writable>>

\* The list is read again, never from the list saved before.
ReadList(place) ==
  LET now == Renamed(folders, place) IN
  /\ Call
  /\ folders' = now
  /\ residue' = IF ~writable THEN residue ELSE [residue EXCEPT
       !.tombs = IF place = "list" THEN Restrict(@, {t \in Tombs : residue.tombs[t] = "unreadable"}) ELSE @,
       !.locks = LocksBack(folders, place),
       !.lockdirs = @ \union LocksBack(folders, place)]
  /\ listed' = Listing(now, place) /\ issues' = Missing
  /\ UNCHANGED <<held, writable>>

RecoverSessions(cleanup) ==
  /\ Call /\ writable
  /\ issues' = Recovery(folders, cleanup) /\ listed' = Missing
  /\ folders' = AfterRecovery(folders, cleanup)
  /\ residue' = ResidueLeft(cleanup)
  /\ UNCHANGED <<held, writable>>

ListingInit ==
  /\ folders \in FirstFolders /\ residue \in FirstResidue
  /\ held = [id \in Exams |-> "no"] /\ writable \in BOOLEAN
  /\ listed = Missing /\ issues = Missing /\ calls = 0

ListingNext ==
  \/ \E from \in DOMAIN folders, to \in (Places \X Names) \ DOMAIN folders : Copy(from, to) \/ CarryOff(from, to)
  \/ \E k \in DOMAIN folders : Spoil(k)
  \/ \E id \in Exams, place \in Places : MoveSession(id, place)
  \/ \E id \in Exams, name \in Names : RestoreBackup(id, name)
  \/ \E id \in Exams, how \in {"no", "read", "write"} : Hold(id, how)
  \/ \E place \in Places : ReadList(place)
  \/ \E cleanup \in BOOLEAN : RecoverSessions(cleanup)

ListingSpec == ListingInit /\ [][ListingNext]_listing
-----------------------------------------------------------------------------
(***************************************************************************)
(* Correctness                                                             *)
(***************************************************************************)
\* A list that was just read: every folder of an exam is in it, named in a warning or
\* counted in one; an exam is in it once, under the name its folder has; and a program
\* that may write reaches the very folder it shows.
ListHolds(list) ==
  LET shown == {e.folder : e \in list.entries}
      mine  == {k \in DOMAIN folders : k[1] = list.place /\ folders[k].id # Missing}
  IN /\ Cardinality(mine \ (shown \union list.named)) <= list.unnamed
     /\ \A e, f \in list.entries : e.id = f.id => e = f
     /\ \A e \in list.entries :
          /\ e.name = e.folder[2] \/ e.folder = <<"trash", e.id>>
          /\ e.folder \in FoldersOf(folders, e.id, {list.place})
          /\ writable => Locate(folders, e.id, Places) = e.folder

\* An exam a recovery says nothing of can be used where it is, and a second one has
\* nothing left to clear away.
ReportHolds(r) ==
  /\ \A k \in DOMAIN folders :
       \/ \E i \in r.quarantined : i.where \in {k, <<"exam", folders[k].id>>} \union FoldersOf(folders, folders[k].id, Places)
       \/ Reached(folders, folders[k].id, k[1]) = k /\ folders[k].state = "good"
  /\ r.cleanup => Recovery(folders, TRUE).cleaned = {}

\* However a user copies, renames and moves exam folders in Explorer: no folder leaves
\* the lists without a word, no exam shows twice, and what the program opens, moves or
\* deletes by an exam's ID is the folder it shows; what the recovery keeps silent about
\* can be used (README.md: copies do not appear, renamed folders keep working;
\* test_recovery_is_conservative_and_cleanup_is_idempotent).
ListTellsAll ==
  /\ listed # Missing => ListHolds(listed)
  /\ issues # Missing => ReportHolds(issues)
=============================================================================
