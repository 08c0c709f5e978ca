-------------------------- MODULE ResultBooks_proofs --------------------------
(***************************************************************************)
(* The books of an exam folder, for any names, any sets of books a         *)
(* generation may hold, and any number of generations, edits, copies and   *)
(* crashes: no edited book is lost, and none of an earlier generation is   *)
(* left when nothing tells it from an edited one any more.                 *)
(***************************************************************************)
EXTENDS ResultBooks, TLAPS

USE NameAssumption, ShapeAssumption, BoundAssumption DEF Gen, Edit, None

Steps == {"idle", "scan", "act", "link", "prune"}
Jobs  == {"save", "finish", "repair"}
Plans == {"unlink", "keep"}

\* A book shows a generation, what the user made of it, or nothing.
BooksTypeOK ==
  /\ gens \subseteq Gen /\ current \in gens /\ \A g \in gens : g <= current
  /\ books \in [Gen -> SUBSET Name]
  /\ view \in [Name -> Gen \union Edit \union {None}]
  /\ loose \subseteq Name
  /\ open \in Name \union {NoName}
  /\ edits \in 0 .. MaxEdit
  /\ alive \subseteq Edit /\ raced \subseteq Edit
  /\ pc \in Steps /\ job \in Jobs /\ plan \in Plans
  /\ todo \subseteq Name
  /\ at \in Name \union {NoName} /\ (pc = "act" => at \in Name)
  /\ copies \in 0 .. MaxCopies

\* What a refresh is about to unlink is ours, unless the user has saved it since; a repair
\* keeps nothing aside.
UnlinkInv ==
  pc = "act" =>
    /\ plan = "unlink" => view[at] \in Gen \union raced \union {None}
    /\ job = "repair" => plan = "unlink"

\* A book of ours is of a generation that is there and holds it.
LinkInv ==
  /\ loose = {}
  /\ \A n \in Name : view[n] \in Gen => view[n] \in gens /\ n \in books[view[n]]

\* How far a refresh has come with the books of earlier generations.
UpToDate(n) == view[n] = current /\ n \in Shown

AheadOf(n) == pc \in {"scan", "act"} /\ (n \in todo \/ (pc = "act" /\ n = at))

SweepInv ==
  \A n \in Name : view[n] \in Gen =>
    UpToDate(n) \/ (gens # {current} /\ (pc = "idle" \/ AheadOf(n)))

BooksInv == BooksTypeOK /\ UnlinkInv /\ (copies = 0 => LinkInv /\ SweepInv)
-----------------------------------------------------------------------------
\* A folder just made.
LEMMA InitBooks == Init => BooksInv
<1> SUFFICES ASSUME Init PROVE BooksInv
  OBVIOUS
<1>1. PICK s \in SUBSET Name : books = [g \in Gen |-> IF g = 1 THEN s ELSE {}]
  BY DEF Init
<1>2. 1 \in Gen /\ current = 1 /\ gens = {1} /\ books \in [Gen -> SUBSET Name] /\ books[1] = s
  BY <1>1 DEF Init
<1>3. Shown \subseteq books[1]
  BY <1>2 DEF Shown
<1>4. BooksTypeOK
  BY <1>2, <1>3 DEF Init, BooksTypeOK, Steps, Jobs, Plans
<1>5. UnlinkInv
  BY DEF Init, UnlinkInv
<1>6. \A n \in Name : view[n] \in Gen => n \in Shown /\ view[n] = 1
  BY <1>2 DEF Init
<1>7. LinkInv /\ SweepInv
  BY <1>2, <1>3, <1>6 DEF Init, LinkInv, SweepInv, UpToDate
<1> QED
  BY <1>4, <1>5, <1>7 DEF BooksInv

-----------------------------------------------------------------------------
(***************************************************************************)
(* One lemma per action                                                    *)
(***************************************************************************)
\* A save makes the newest generation, and looks at every book.
LEMMA SaveBooks == ASSUME BooksInv, Save PROVE BooksInv'
<1>1. /\ current + 1 \in Gen /\ current' = current + 1 /\ gens' = gens \union {current + 1}
      /\ pc' = "scan" /\ job' = "save" /\ todo' = {n \in Name : view[n] # None}
      /\ UNCHANGED <<view, loose, kept, open, edits, alive, raced, at, plan, copies>>
  BY DEF Save, Begin, BooksInv, BooksTypeOK, user
<1>2. PICK s \in SUBSET Name : books' = [books EXCEPT ![current + 1] = s]
  BY DEF Save
<1>3. BooksTypeOK'
  BY <1>1, <1>2 DEF BooksInv, BooksTypeOK, Steps, Jobs
<1>4. UnlinkInv'
  BY <1>1 DEF UnlinkInv
<1>5. ASSUME LinkInv PROVE LinkInv'
  <2> SUFFICES ASSUME NEW n \in Name, view[n] \in Gen
               PROVE  view[n] \in gens' /\ n \in books'[view[n]]
    BY <1>1, <1>5 DEF LinkInv
  <2>1. view[n] \in gens /\ n \in books[view[n]]
    BY <1>5 DEF LinkInv
  <2>2. view[n] # current + 1
    BY <2>1 DEF BooksInv, BooksTypeOK
  <2> QED
    BY <1>1, <1>2, <2>1, <2>2 DEF BooksInv, BooksTypeOK
<1>6. SweepInv'
  <2>1. gens' # {current'}
    BY <1>1 DEF BooksInv, BooksTypeOK
  <2> QED
    BY <1>1, <2>1 DEF SweepInv, AheadOf
<1> QED
  BY <1>1, <1>3, <1>4, <1>5, <1>6 DEF BooksInv

\* So does the repair of a listing.
LEMMA ListBooks == ASSUME BooksInv, List PROVE BooksInv'
<1>1. /\ pc = "idle" /\ pc' = "scan" /\ job' \in {"finish", "repair"} /\ todo' = {n \in Name : view[n] # None}
      /\ UNCHANGED <<gens, books, current, view, loose, kept, open, edits, alive, raced, at, plan, copies>>
  BY DEF List, Begin, user, disk
<1>2. BooksTypeOK'
  BY <1>1 DEF BooksInv, BooksTypeOK, Steps, Jobs
<1>3. UnlinkInv'
  BY <1>1 DEF UnlinkInv
<1>4. LinkInv => LinkInv'
  BY <1>1 DEF LinkInv
<1>5. SweepInv => SweepInv'
  BY <1>1 DEF SweepInv, UpToDate, AheadOf, Shown
<1> QED
  BY <1>1, <1>2, <1>3, <1>4, <1>5 DEF BooksInv

\* What is left in place is current or not ours; what is unlinked is ours.
LEMMA DecideBooks == ASSUME BooksInv, NEW n \in Name, Decide(n) PROVE BooksInv'
<1>1. /\ pc = "scan" /\ n \in todo /\ todo' = todo \ {n}
      /\ UNCHANGED <<gens, books, current, view, loose, kept, open, edits, alive, raced, job, copies>>
  BY DEF Decide, user, disk
<1>2. CASE Leave(n)
  <2>1. UNCHANGED <<pc, at, plan>>
    BY <1>2 DEF Decide
  <2>2. BooksTypeOK' /\ UnlinkInv'
    BY <1>1, <2>1 DEF BooksInv, BooksTypeOK, UnlinkInv
  <2>3. LinkInv => LinkInv'
    BY <1>1 DEF LinkInv
  <2>4. ASSUME LinkInv, SweepInv PROVE SweepInv'
    <3> SUFFICES ASSUME NEW m \in Name, view[m] \in Gen
                 PROVE  UpToDate(m) \/ (gens # {current} /\ AheadOf(m)')
      BY <1>1, <2>1 DEF SweepInv, UpToDate, Shown, AheadOf
    <3>1. CASE m = n
      <4>1. Linked(m)
        BY <2>4 DEF LinkInv, Linked
      <4>2. Same(m)
        BY <1>2, <3>1, <4>1 DEF Leave
      <4> QED
        BY <4>2 DEF Same, UpToDate
    <3>2. CASE m # n
      BY <1>1, <2>1, <2>4, <3>2 DEF SweepInv, AheadOf
    <3> QED
      BY <3>1, <3>2
  <2> QED
    BY <1>1, <2>2, <2>3, <2>4 DEF BooksInv
<1>3. CASE ~Leave(n)
  <2>1. at' = n /\ pc' = "act" /\ plan' = IF Linked(n) \/ Known(n) THEN "unlink" ELSE "keep"
    BY <1>3 DEF Decide
  <2>2. BooksTypeOK'
    BY <1>1, <2>1 DEF BooksInv, BooksTypeOK, Steps, Plans
  <2>3. UnlinkInv'
    <3>1. plan' = "unlink" => view[n] \in Gen
      BY <2>1 DEF Linked, Known, BooksInv, BooksTypeOK
    <3>2. job = "repair" => plan' = "unlink"
      BY <1>3, <2>1 DEF Leave
    <3> QED
      BY <1>1, <2>1, <3>1, <3>2 DEF UnlinkInv
  <2>4. LinkInv => LinkInv'
    BY <1>1 DEF LinkInv
  <2>5. SweepInv => SweepInv'
    BY <1>1, <2>1 DEF SweepInv, UpToDate, AheadOf, Shown
  <2> QED
    BY <1>1, <2>2, <2>3, <2>4, <2>5 DEF BooksInv
<1> QED
  BY <1>2, <1>3

\* The book decided about is gone.
LEMMA ActBooks == ASSUME BooksInv, Act PROVE BooksInv'
<1>1. /\ pc = "act" /\ pc' = "scan" /\ view' = [view EXCEPT ![at] = None] /\ loose' = loose \ {at} /\ at' = NoName
      /\ UNCHANGED <<gens, books, current, open, edits, alive, raced, job, todo, plan, copies>>
  BY DEF Act, user, disk
<1>2. at \in Name /\ view \in [Name -> Gen \union Edit \union {None}]
  BY <1>1 DEF BooksInv, BooksTypeOK
<1>3. \A n \in Name : view'[n] = IF n = at THEN None ELSE view[n]
  BY <1>1, <1>2
<1>4. BooksTypeOK'
  BY <1>1, <1>2 DEF BooksInv, BooksTypeOK, Steps
<1>5. UnlinkInv'
  BY <1>1 DEF UnlinkInv
<1>6. LinkInv => LinkInv'
  BY <1>1, <1>3 DEF LinkInv
<1>7. SweepInv => SweepInv'
  BY <1>1, <1>3 DEF SweepInv, UpToDate, AheadOf, Shown
<1> QED
  BY <1>1, <1>4, <1>5, <1>6, <1>7 DEF BooksInv

\* A refresh that gives up, or a program that dies, has begun no compaction.
LEMMA StopBooks == ASSUME BooksInv, GiveUp \/ Crash PROVE BooksInv'
<1>1. /\ pc' = "idle" /\ todo' = {} /\ at' = NoName
      /\ UNCHANGED <<gens, books, current, view, loose, open, edits, alive, raced, job, plan, copies>>
  BY DEF GiveUp, Crash, user, disk
<1>2. BooksTypeOK' /\ UnlinkInv'
  BY <1>1 DEF BooksInv, BooksTypeOK, UnlinkInv, Steps
<1>3. LinkInv => LinkInv'
  BY <1>1 DEF LinkInv
<1>4. SweepInv => SweepInv'
  BY <1>1 DEF SweepInv, UpToDate, Shown
<1> QED
  BY <1>1, <1>2, <1>3, <1>4 DEF BooksInv

\* Once every book was looked at, those of earlier generations are gone.
LEMMA LinkBooks ==
  ASSUME BooksInv, ScanDone \/ (\E n \in Name : Link(n)) \/ LinkDone
  PROVE  BooksInv'
<1>0. view \in [Name -> Gen \union Edit \union {None}] /\ current \in gens /\ current \in Gen
  BY DEF BooksInv, BooksTypeOK
<1>1. CASE ScanDone
  <2>1. /\ pc = "scan" /\ todo = {} /\ pc' = "link"
        /\ UNCHANGED <<gens, books, current, view, loose, open, edits, alive, raced, job, todo, at, plan, copies>>
    BY <1>1 DEF ScanDone, user, disk
  <2>2. BooksTypeOK' /\ UnlinkInv'
    BY <2>1 DEF BooksInv, BooksTypeOK, UnlinkInv, Steps
  <2>3. LinkInv => LinkInv'
    BY <2>1 DEF LinkInv
  <2>4. SweepInv => SweepInv'
    BY <2>1 DEF SweepInv, UpToDate, AheadOf, Shown
  <2> QED
    BY <2>1, <2>2, <2>3, <2>4 DEF BooksInv
<1>2. ASSUME NEW n \in Name, Link(n) PROVE BooksInv'
  <2>1. /\ pc = "link" /\ n \in Shown /\ view' = [view EXCEPT ![n] = current]
        /\ UNCHANGED <<gens, books, current, loose, open, edits, alive, raced, pc, job, todo, at, plan, copies>>
        /\ view[n] = None
    BY <1>2 DEF Link, user, disk, work
  <2>2. BooksTypeOK' /\ UnlinkInv'
    BY <1>0, <2>1 DEF BooksInv, BooksTypeOK, UnlinkInv
  <2>3. \A m \in Name : view'[m] = IF m = n THEN current ELSE view[m]
    BY <1>0, <2>1
  <2>4. n \in books[current]
    BY <2>1 DEF Shown
  <2>5. LinkInv => LinkInv'
    BY <1>0, <2>1, <2>3, <2>4 DEF LinkInv
  <2>6. SweepInv => SweepInv'
    BY <2>1, <2>3 DEF SweepInv, UpToDate, AheadOf, Shown
  <2> QED
    BY <2>1, <2>2, <2>5, <2>6 DEF BooksInv
<1>3. CASE LinkDone
  <2>1. /\ pc = "link" /\ pc' \in {"prune", "idle"}
        /\ UNCHANGED <<gens, books, current, view, loose, open, edits, alive, raced, job, todo, at, plan, copies>>
    BY <1>3 DEF LinkDone, user, disk
  <2>2. BooksTypeOK' /\ UnlinkInv'
    BY <2>1 DEF BooksInv, BooksTypeOK, UnlinkInv, Steps
  <2>3. LinkInv => LinkInv'
    BY <2>1 DEF LinkInv
  <2>4. SweepInv => SweepInv'
    BY <2>1 DEF SweepInv, UpToDate, AheadOf, Shown
  <2> QED
    BY <2>1, <2>2, <2>3, <2>4 DEF BooksInv
<1> QED
  BY <1>1, <1>2, <1>3

\* So a compaction leaves no book that is not of the current generation.
LEMMA PruneBooks == ASSUME BooksInv, Prune PROVE BooksInv'
<1>1. /\ pc = "prune" /\ pc' = "idle" /\ gens' \in {gens, {current}}
      /\ UNCHANGED <<books, current, view, loose, open, edits, alive, raced, job, todo, at, plan, copies>>
  BY DEF Prune, user
<1>2. BooksTypeOK' /\ UnlinkInv'
  BY <1>1 DEF BooksInv, BooksTypeOK, UnlinkInv, Steps
<1>3. SweepInv => \A n \in Name : view[n] \in Gen => UpToDate(n)
  BY <1>1 DEF SweepInv, AheadOf
<1>4. SweepInv => SweepInv'
  BY <1>1, <1>3 DEF SweepInv, UpToDate, Shown
<1>5. LinkInv /\ SweepInv => LinkInv'
  BY <1>1, <1>3 DEF LinkInv, UpToDate
<1> QED
  BY <1>1, <1>2, <1>4, <1>5 DEF BooksInv

\* What the user saves is not ours, and remembered when it came too late.
LEMMA UserBooks ==
  ASSUME BooksInv, (\E n \in Name : OpenBook(n)) \/ SaveBook \/ CloseBook
  PROVE  BooksInv'
<1>0. view \in [Name -> Gen \union Edit \union {None}]
  BY DEF BooksInv, BooksTypeOK
<1>1. ASSUME UNCHANGED <<view, edits, alive, raced, loose>>, open' \in Name \union {NoName},
             UNCHANGED <<gens, books, current, pc, job, todo, at, plan, copies>>
      PROVE  BooksInv'
  <2>1. BooksTypeOK' /\ UnlinkInv'
    BY <1>1 DEF BooksInv, BooksTypeOK, UnlinkInv
  <2>2. (LinkInv => LinkInv') /\ (SweepInv => SweepInv')
    BY <1>1 DEF LinkInv, SweepInv, UpToDate, AheadOf, Shown
  <2> QED
    BY <1>1, <2>1, <2>2 DEF BooksInv
<1>2. CASE SaveBook
  <2> DEFINE e == MaxGen + edits + 1
  <2>1. /\ open \in Name /\ e \in Edit /\ view' = [view EXCEPT ![open] = e] /\ edits' = edits + 1 /\ edits < MaxEdit
        /\ alive' = (alive \ {view[open]}) \union {e}
        /\ raced' = (IF pc = "act" /\ at = open THEN raced \union {e} ELSE raced)
        /\ loose' = loose \ {open}
        /\ UNCHANGED <<gens, books, current, open, pc, job, todo, at, plan, copies>>
    BY <1>2 DEF SaveBook, BooksInv, BooksTypeOK, disk, work
  <2>2. \A n \in Name : view'[n] = IF n = open THEN e ELSE view[n]
    BY <1>0, <2>1
  <2>3. BooksTypeOK'
    <3>1. view' \in [Name -> Gen \union Edit \union {None}]
      BY <1>0, <2>1
    <3>2. edits' \in 0 .. MaxEdit
      BY <2>1 DEF BooksInv, BooksTypeOK
    <3> HIDE DEF e
    <3>3. alive' \subseteq Edit /\ raced' \subseteq Edit /\ loose' \subseteq Name
      BY <2>1 DEF BooksInv, BooksTypeOK
    <3> QED
      BY <2>1, <3>1, <3>2, <3>3 DEF BooksInv, BooksTypeOK
  <2>4. UnlinkInv'
    <3> HIDE DEF e
    <3>1. pc = "act" => at \in Name
      BY DEF BooksInv, BooksTypeOK
    <3> QED
      BY <2>1, <2>2, <3>1 DEF BooksInv, UnlinkInv
  <2>5. e \notin Gen
    BY <2>1
  <2> HIDE DEF e
  <2>6. (LinkInv => LinkInv') /\ (SweepInv => SweepInv')
    BY <2>1, <2>2, <2>5 DEF LinkInv, SweepInv, UpToDate, AheadOf, Shown
  <2> QED
    BY <2>1, <2>3, <2>4, <2>6 DEF BooksInv
<1>3. ASSUME NEW n \in Name, OpenBook(n) PROVE BooksInv'
  BY <1>1, <1>3 DEF OpenBook, disk, work
<1>4. CASE CloseBook
  BY <1>1, <1>4 DEF CloseBook, disk, work
<1> QED
  BY <1>2, <1>3, <1>4

\* A copied folder has links to nothing.
LEMMA CopyBooks == ASSUME BooksInv, CopyFolder PROVE BooksInv'
<1>1. /\ pc = "idle" /\ copies' = copies + 1 /\ loose' = {n \in Name : view[n] \in Gen} /\ copies < MaxCopies
      /\ UNCHANGED <<gens, books, current, view, open, edits, alive, raced, pc, job, todo, at, plan>>
  BY DEF CopyFolder, disk, user, work
<1>2. BooksTypeOK' /\ UnlinkInv'
  BY <1>1 DEF BooksInv, BooksTypeOK, UnlinkInv
<1>3. copies' # 0
  BY <1>1 DEF BooksInv, BooksTypeOK
<1> QED
  BY <1>2, <1>3 DEF BooksInv

\* Every step keeps the invariant.
LEMMA NextBooks == BooksInv /\ [Next]_vars => BooksInv'
<1> SUFFICES ASSUME BooksInv, [Next]_vars PROVE BooksInv'
  OBVIOUS
<1>1. CASE UNCHANGED vars
  <2>1. BooksTypeOK' /\ UnlinkInv'
    BY <1>1 DEF vars, disk, user, work, BooksInv, BooksTypeOK, UnlinkInv
  <2>2. (LinkInv => LinkInv') /\ (SweepInv => SweepInv')
    BY <1>1 DEF vars, disk, user, work, LinkInv, SweepInv, UpToDate, AheadOf, Shown
  <2> QED
    BY <1>1, <2>1, <2>2 DEF vars, BooksInv
<1>2. CASE Next
  BY <1>2, SaveBooks, ListBooks, DecideBooks, ActBooks, StopBooks, LinkBooks, PruneBooks, UserBooks, CopyBooks
     DEF Next, Refresh
<1> QED
  BY <1>1, <1>2

\* The books of an exam folder are always in the state a refresh relies on.
LEMMA BooksHold == Spec => []BooksInv
<1> QED
  BY InitBooks, NextBooks, PTL DEF Spec

-----------------------------------------------------------------------------
(***************************************************************************)
(* What the user made                                                      *)
(***************************************************************************)
\* Whatever was on disk and is not what the step takes away still is.
LEMMA StaysOnDisk ==
  ASSUME NEW e, OnDisk(e), kept \subseteq kept',
         \A n \in Name : view[n] = e => view'[n] = e \/ \E k \in kept' : k[2] = e
  PROVE  OnDisk(e)'
BY DEF OnDisk

\* No step loses an edited book.
LEMMA NextKept == BooksInv /\ SettledEditsKept /\ [Next]_vars => SettledEditsKept'
<1> SUFFICES ASSUME BooksInv, SettledEditsKept, [Next]_vars PROVE SettledEditsKept'
  OBVIOUS
<1>0. view \in [Name -> Gen \union Edit \union {None}] /\ alive \subseteq Edit
  BY DEF BooksInv, BooksTypeOK
<1>1. ASSUME UNCHANGED <<view, kept, alive, raced>> PROVE SettledEditsKept'
  BY <1>1 DEF SettledEditsKept, OnDisk
<1>2. CASE Act
  <2>1. /\ pc = "act" /\ view' = [view EXCEPT ![at] = None] /\ UNCHANGED <<alive, raced>>
        /\ kept' = (IF plan = "keep" THEN kept \union {<<at, view[at]>>} ELSE kept)
    BY <1>2 DEF Act, user
  <2> SUFFICES ASSUME NEW e \in alive \ raced PROVE OnDisk(e)'
    BY <2>1 DEF SettledEditsKept
  <2>2. OnDisk(e) /\ kept \subseteq kept'
    BY <2>1 DEF SettledEditsKept
  <2>3. ASSUME NEW n \in Name, view[n] = e PROVE view'[n] = e \/ \E k \in kept' : k[2] = e
    <3>1. CASE n # at
      BY <1>0, <2>1, <2>3, <3>1
    <3>2. CASE n = at /\ plan = "keep"
      <4>1. <<at, view[at]>> \in kept' /\ <<at, view[at]>>[2] = e
        BY <2>1, <2>3, <3>2
      <4> QED
        BY <4>1
    <3>3. CASE n = at /\ plan = "unlink"
      <4>1. view[at] \in Gen \union raced \union {None}
        BY <2>1, <3>3 DEF BooksInv, UnlinkInv
      <4> QED
        BY <1>0, <2>3, <3>3, <4>1
    <3> QED
      BY <3>1, <3>2, <3>3 DEF BooksInv, BooksTypeOK, Plans
  <2> QED
    BY <2>2, <2>3, StaysOnDisk
<1>3. ASSUME NEW n \in Name, Link(n) PROVE SettledEditsKept'
  <2>1. view[n] = None /\ view' = [view EXCEPT ![n] = current] /\ UNCHANGED <<kept, alive, raced>>
    BY <1>3 DEF Link, user
  <2> SUFFICES ASSUME NEW e \in alive \ raced PROVE OnDisk(e)'
    BY <2>1 DEF SettledEditsKept
  <2>2. OnDisk(e)
    BY DEF SettledEditsKept
  <2>3. \A m \in Name : view[m] = e => view'[m] = e
    BY <1>0, <2>1
  <2> QED
    BY <2>1, <2>2, <2>3, StaysOnDisk
<1>4. CASE SaveBook
  <2> DEFINE new == MaxGen + edits + 1
  <2>1. /\ open \in Name /\ view' = [view EXCEPT ![open] = new] /\ UNCHANGED kept
        /\ alive' = (alive \ {view[open]}) \union {new} /\ raced \subseteq raced'
    BY <1>4 DEF SaveBook, BooksInv, BooksTypeOK
  <2> HIDE DEF new
  <2> SUFFICES ASSUME NEW e \in alive' \ raced' PROVE OnDisk(e)'
    BY DEF SettledEditsKept
  <2>2. CASE e = new
    BY <1>0, <2>1, <2>2 DEF OnDisk
  <2>3. CASE e # new
    <3>1. e \in alive \ raced /\ e # view[open]
      BY <2>1, <2>3
    <3>2. OnDisk(e)
      BY <3>1 DEF SettledEditsKept
    <3>3. \A m \in Name : view[m] = e => view'[m] = e
      BY <1>0, <2>1, <3>1
    <3> QED
      BY <2>1, <3>2, <3>3, StaysOnDisk
  <2> QED
    BY <2>2, <2>3
<1>5. ASSUME NEW n \in Name, Decide(n) \/ OpenBook(n) PROVE UNCHANGED <<view, kept, alive, raced>>
  BY <1>5 DEF Decide, OpenBook, user
<1>6. Save \/ List \/ GiveUp \/ ScanDone \/ LinkDone \/ Prune \/ CloseBook \/ CopyFolder \/ Crash \/ UNCHANGED vars
      => UNCHANGED <<view, kept, alive, raced>>
  BY DEF Save, List, GiveUp, ScanDone, LinkDone, Prune, CloseBook, CopyFolder, Crash, user, vars
<1> QED
  BY <1>1, <1>2, <1>3, <1>4, <1>5, <1>6 DEF Next, Refresh

\* No save, repair, crash or copied folder loses a book the user edited before the
\* refresh had decided about it.
THEOREM EditsAreKept == Spec => []SettledEditsKept
<1>1. Init => SettledEditsKept
  BY DEF Init, SettledEditsKept
<1> QED
  BY <1>1, NextKept, BooksHold, PTL DEF Spec

\* A repair leaves every edited book where it is.
THEOREM RepairsLeaveEdits == Spec => RepairLeavesEdits
<1>1. ASSUME BooksInv, [Next]_vars, job = "repair", pc = "act",
             NEW n \in Name, view[n] \in Edit \ raced
      PROVE  view'[n] \in Edit
  <2>0. view \in [Name -> Gen \union Edit \union {None}] /\ edits \in 0 .. MaxEdit
    BY <1>1 DEF BooksInv, BooksTypeOK
  <2>1. CASE Act
    <3>1. view' = [view EXCEPT ![at] = None] /\ view[at] \in Gen \union raced \union {None}
      BY <1>1, <2>1 DEF Act, BooksInv, UnlinkInv
    <3> QED
      BY <1>1, <2>0, <3>1
  <2>2. CASE SaveBook
    <3>1. view' = [view EXCEPT ![open] = MaxGen + edits + 1] /\ edits < MaxEdit
      BY <2>2 DEF SaveBook
    <3> QED
      BY <1>1, <2>0, <3>1
  <2>3. ASSUME NEW m \in Name, Link(m) PROVE FALSE
    BY <1>1, <2>3 DEF Link
  <2>4. ASSUME NEW m \in Name, Decide(m) \/ OpenBook(m) PROVE UNCHANGED view
    BY <2>4 DEF Decide, OpenBook
  <2>5. Save \/ List \/ GiveUp \/ ScanDone \/ LinkDone \/ Prune \/ CloseBook \/ CopyFolder \/ Crash \/ UNCHANGED vars
        => UNCHANGED view
    BY DEF Save, List, GiveUp, ScanDone, LinkDone, Prune, CloseBook, CopyFolder, Crash, vars
  <2> QED
    BY <1>1, <2>1, <2>2, <2>3, <2>4, <2>5 DEF Next, Refresh
<1>2. BooksInv /\ [Next]_vars =>
        (job = "repair" /\ pc = "act" => \A n \in Name : view[n] \in Edit \ raced => view'[n] \in Edit)
  BY <1>1
<1> QED
  BY <1>2, BooksHold, PTL DEF Spec, RepairLeavesEdits

\* In a folder never copied, once the earlier generations are gone no book of theirs
\* is left.
THEOREM NoBookStranded == Spec => []NoStrandedBook
<1>1. BooksInv => NoStrandedBook
  BY DEF BooksInv, SweepInv, UpToDate, NoStrandedBook
<1> QED
  BY <1>1, BooksHold, PTL
=============================================================================
