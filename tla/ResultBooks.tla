----------------------------- MODULE ResultBooks -----------------------------
(***************************************************************************)
(* The result workbooks an exam folder shows (session_store.py,            *)
(* _publish_result_books): hard links to the books of the current          *)
(* generation, refreshed by a save and by the repair of a listing while    *)
(* the user may have a book open in Excel, edit it and save it.            *)
(*                                                                         *)
(* Excel saves into a new file and renames it over the old one, which ends *)
(* the hard link; while it has a book open nobody can unlink or rename it. *)
(* Saves and repairs run under the session's writer lock, one at a time.   *)
(***************************************************************************)
EXTENDS Integers, FiniteSets

CONSTANTS
  Name,      (* file names of the session's result workbooks                *)
  Graded,    (* those of graded workbooks (score and final books)           *)
  Shapes,    (* sets of books a generation may hold                         *)
  NoName,    (* no workbook                                                 *)
  MaxGen,    (* bound: generations                                          *)
  MaxEdit,   (* bound: times the user saves a book                          *)
  MaxCopies, (* bound: copies of the program folder, which end hard links   *)
  MaxFaults  (* bound: crashes                                              *)

ASSUME NameAssumption  == NoName \notin Name /\ Graded \subseteq Name
ASSUME ShapeAssumption == Shapes \subseteq SUBSET Name /\ Shapes # {}
ASSUME BoundAssumption ==
  MaxGen \in Nat \ {0} /\ MaxEdit \in Nat /\ MaxCopies \in Nat /\ MaxFaults \in Nat

Gen  == 1 .. MaxGen
Edit == MaxGen + 1 .. MaxGen + MaxEdit
None == 0

VARIABLES
  gens,     \* generations on disk
  books,    \* the books each generation holds
  current,  \* the generation CURRENT.json names
  heavy,    \* whether the exam has images or sources
  inside,   \* whether its current generation still holds them
  view,     \* content of each book in the exam folder: whose it is, or None
  loose,    \* books in the folder that are copies, not hard links
  kept,     \* user-edited copies: name and content
  open,     \* the book Excel has open
  edits,    \* number of times the user saved
  alive,    \* what the user saved and did not save over
  raced,    \* saved after a refresh had already decided to unlink the book
  pc,       \* what the save or the repair does next
  job,      \* "save", "finish" or "repair"
  todo,     \* books the refresh has yet to look at
  at,       \* the book it decided about
  plan,     \* "unlink" or "keep"
  copies, faults

disk == <<gens, books, current>>
user == <<open, edits, alive, raced>>
work == <<pc, job, todo, at, plan>>
vars == <<disk, inside, view, loose, kept, user, work, heavy, copies, faults>>

-----------------------------------------------------------------------------
(***************************************************************************)
(* What a refresh looks at                                                 *)
(***************************************************************************)
\* _shown_books: the graded books alone once there is one.
Shown ==
  IF books[current] \intersect Graded # {} THEN books[current] \intersect Graded
                                           ELSE books[current]

Same(n)   == n \in Shown /\ view[n] = current /\ n \notin loose
Linked(n) == view[n] \in gens /\ n \in books[view[n]] /\ n \notin loose

Ours == UNION {books[g] : g \in gens}

\* Mutant of Known: a book is known by its name alone.
KnownByName(n) == n \in Ours

\* The digests a book is compared with: one per name, that of the folder
\* listed last, which is the newest.
Known(n) == n \in Ours /\ view[n] \in gens /\ n \in books[view[n]]
              /\ \A g \in gens : n \in books[g] => g <= view[n]

\* Mutant of NeedsRepair: only missing books count.
MissingBook == inside \/ \E n \in Shown : view[n] = None

\* _needs_repair
NeedsRepair ==
  \/ inside
  \/ \E n \in Shown : view[n] = None \/ (~Same(n) /\ Linked(n))
  \/ \E n \in Name \ Shown : view[n] # None /\ Linked(n)

-----------------------------------------------------------------------------
Init ==
  /\ gens = {1} /\ current = 1 /\ heavy \in BOOLEAN /\ inside = FALSE
  /\ \E s \in Shapes : books = [g \in Gen |-> IF g = 1 THEN s ELSE {}]
  /\ view = [n \in Name |-> IF n \in Shown THEN 1 ELSE None]
  /\ loose = {} /\ kept = {}
  /\ open = NoName /\ edits = 0 /\ alive = {} /\ raced = {}
  /\ pc = "idle" /\ job = "save" /\ todo = {} /\ at = NoName /\ plan = "unlink"
  /\ copies = 0 /\ faults = 0

Begin(what) ==
  /\ job' = what /\ pc' = "scan"
  /\ todo' = {n \in Name : view[n] # None}
  /\ UNCHANGED <<at, plan>>

\* commit_generation has replaced CURRENT.json and refreshes the folder.
Save ==
  /\ pc = "idle" /\ current < MaxGen
  /\ current' = current + 1
  /\ gens' = gens \union {current + 1}
  /\ \E s \in Shapes : books' = [books EXCEPT ![current + 1] = s]
  /\ inside' = heavy
  /\ Begin("save")
  /\ UNCHANGED <<view, loose, kept, user, copies, faults, heavy>>

\* A listing repairs the folder; a generation that still holds all its heavy
\* files is refreshed as after a save.
List ==
  /\ pc = "idle" /\ NeedsRepair
  /\ Begin(IF inside THEN "finish" ELSE "repair")
  /\ UNCHANGED <<disk, inside, view, loose, kept, user, copies, faults, heavy>>

\* Mutant of Leave: a repair, too, keeps an edited book aside.
LeaveUnlessEdited(n) == Same(n) \/ (~Linked(n) /\ n \notin Ours)

\* A book stays where it is when it is current, foreign, or the user's own and
\* this is a repair.
Leave(n) == Same(n) \/ (~Linked(n) /\ (n \notin Ours \/ (~Known(n) /\ job = "repair")))

\* Look at one book: leave it, or decide to unlink or to keep it aside.
Decide(n) ==
  /\ pc = "scan" /\ n \in todo
  /\ todo' = todo \ {n}
  /\ IF Leave(n)
     THEN UNCHANGED <<pc, at, plan>>
     ELSE /\ at' = n /\ pc' = "act"
          /\ plan' = IF Linked(n) \/ Known(n) THEN "unlink" ELSE "keep"
  /\ UNCHANGED <<disk, inside, view, loose, kept, user, job, copies, faults, heavy>>

\* Carry it out, retried while Excel has the book open.
Act ==
  /\ pc = "act" /\ open # at
  /\ view' = [view EXCEPT ![at] = None]
  /\ loose' = loose \ {at}
  /\ kept' = IF plan = "keep" THEN kept \union {<<at, view[at]>>} ELSE kept
  /\ at' = NoName /\ pc' = "scan"
  /\ UNCHANGED <<disk, inside, user, job, todo, plan, copies, faults, heavy>>

\* Mutant of GiveUp: the save goes on to compact.
GiveUpAndPrune ==
  /\ pc = "act" /\ open = at
  /\ pc' = "prune" /\ todo' = {} /\ at' = NoName
  /\ UNCHANGED <<disk, inside, view, loose, kept, user, job, plan, copies, faults, heavy>>

\* The retries run out: the rest waits for a later listing.
GiveUp ==
  /\ pc = "act" /\ open = at
  /\ pc' = "idle" /\ todo' = {} /\ at' = NoName
  /\ UNCHANGED <<disk, inside, view, loose, kept, user, job, plan, copies, faults, heavy>>

ScanDone ==
  /\ pc = "scan" /\ todo = {}
  /\ pc' = "link"
  /\ UNCHANGED <<disk, inside, view, loose, kept, user, job, todo, at, plan, copies, faults, heavy>>

Link(n) ==
  /\ pc = "link" /\ n \in Shown /\ view[n] = None
  /\ view' = [view EXCEPT ![n] = current]
  /\ UNCHANGED <<disk, inside, loose, kept, user, work, copies, faults, heavy>>

\* Every book is there; the heavy files are moved out of the generation.
LinkDone ==
  /\ pc = "link" /\ \A n \in Shown : view[n] # None
  /\ inside' = FALSE
  /\ pc' = IF job = "save" THEN "prune" ELSE "idle"
  /\ UNCHANGED <<disk, view, loose, kept, user, job, todo, at, plan, copies, faults, heavy>>

\* Compact the superseded generations, unless a reader is in the way.
Prune ==
  /\ pc = "prune"
  /\ gens' \in {gens, {current}}
  /\ pc' = "idle"
  /\ UNCHANGED <<books, current, inside, view, loose, kept, user, job, todo, at, plan,
                 copies, faults, heavy>>

-----------------------------------------------------------------------------
(***************************************************************************)
(* The user and the machine                                                *)
(***************************************************************************)
OpenBook(n) ==
  /\ open = NoName /\ view[n] # None
  /\ open' = n
  /\ UNCHANGED <<disk, inside, view, loose, kept, edits, alive, raced, work, copies, faults, heavy>>

SaveBook ==
  /\ open # NoName /\ edits < MaxEdit
  /\ LET e == MaxGen + edits + 1 IN
       /\ view' = [view EXCEPT ![open] = e]
       /\ alive' = (alive \ {view[open]}) \union {e}
       /\ raced' = IF pc = "act" /\ at = open THEN raced \union {e} ELSE raced
  /\ edits' = edits + 1
  /\ loose' = loose \ {open}
  /\ UNCHANGED <<disk, inside, kept, open, work, copies, faults, heavy>>

CloseBook ==
  /\ open # NoName
  /\ open' = NoName
  /\ UNCHANGED <<disk, inside, view, loose, kept, edits, alive, raced, work, copies, faults, heavy>>

\* The program folder is copied to another place and used there.
CopyFolder ==
  /\ pc = "idle" /\ open = NoName /\ copies < MaxCopies
  /\ copies' = copies + 1
  /\ loose' = {n \in Name : view[n] \in Gen}
  /\ UNCHANGED <<disk, inside, view, kept, user, work, faults, heavy>>

Crash ==
  /\ pc # "idle" /\ faults < MaxFaults
  /\ faults' = faults + 1
  /\ pc' = "idle" /\ todo' = {} /\ at' = NoName
  /\ UNCHANGED <<disk, inside, view, loose, kept, user, job, plan, copies, heavy>>

-----------------------------------------------------------------------------
Refresh ==
  \/ \E n \in Name : Decide(n) \/ Link(n)
  \/ Act \/ GiveUp \/ ScanDone \/ LinkDone \/ Prune

Next ==
  \/ Save \/ List \/ Refresh
  \/ \E n \in Name : OpenBook(n)
  \/ SaveBook \/ CloseBook \/ CopyFolder \/ Crash

Spec == Init /\ [][Next]_vars

\* A refresh runs on, and the user lists the exams again.
FairSpec == Spec /\ WF_vars(Refresh) /\ WF_vars(List)

-----------------------------------------------------------------------------
(***************************************************************************)
(* Properties                                                              *)
(***************************************************************************)
OnDisk(e) == (\E n \in Name : view[n] = e) \/ (\E k \in kept : k[2] = e)

\* No save, repair, crash or copied folder loses a book the user edited, unless
\* Excel saved it after the refresh had decided to unlink the book that was
\* there before (_publish_result_books).
SettledEditsKept == \A e \in alive \ raced : OnDisk(e)

\* A repair leaves a book the user saved over in its place, whatever was decided
\* about the others (_publish_result_books with keep_user_edits).
RepairLeavesEdits ==
  [][(job = "repair" /\ pc = "act") =>
       \A n \in Name : view[n] \in Edit \ raced => view'[n] \in Edit]_vars

\* Once the earlier generations are gone nothing tells their books from books the
\* user edited, so by then the folder shows none of them: commit_generation
\* compacts only after the refresh got through.
NoStrandedBook ==
  (copies = 0 /\ gens = {current}) =>
     \A n \in Name : view[n] \in Gen => view[n] = current /\ n \in Shown

\* The folder shows the current books, or what the user made of them, and
\* nothing of an earlier generation.
CaughtUp ==
  /\ \A n \in Shown : view[n] = current \/ view[n] \in Edit
  /\ \A n \in Name \ Shown : ~Linked(n)

\* "Close Excel and refresh, and the folder changes to the new result"
\* (README.md:91): once Excel stays closed, listings bring the folder up to date,
\* unless the folder was copied: without its second link an earlier book counts
\* as the user's.
FolderCatchesUp ==
  (<>[](open = NoName) /\ [](copies = 0)) => []<>(pc = "idle" /\ CaughtUp)
=============================================================================
