------------------------------- MODULE ScanRun -------------------------------
(***************************************************************************)
(* One scan: ScanUseCase.run_scan and cancel_scan                          *)
(* (application/scan_use_case.py) with ScanWorker (ui/workers.py).         *)
(*                                                                         *)
(* The worker thread prepares the pages, has them recognised one by one or *)
(* by a process pool that may break, and saves the exam once.  Another     *)
(* thread may cancel at any moment; it sets the event of the operation,    *)
(* then that of the worker, which the worker clears when it begins.        *)
(* A page that cannot be recognised is a result like any other.            *)
(***************************************************************************)
EXTENDS Integers, Sequences, FiniteSets

CONSTANTS
  Pages,       (* number of pages of the scan           *)
  MaxInFlight  (* pages given to the pool at a time     *)

ASSUME ScanAssumption == Pages \in Nat \ {0} /\ MaxInFlight \in Nat \ {0}

Page == 1 .. Pages
None == 0

VARIABLES
  pc,        \* what the worker thread does next
  multi,     \* whether the scan uses the process pool
  prepared,  \* pages prepared so far
  submitted, \* pages given to the pool so far
  pending,   \* pages the pool has
  ready,     \* those whose result has come
  broken,    \* whether the pool has broken
  batch,     \* pages to collect, or to recognise again
  at,        \* the page in hand
  results,   \* the worker's results
  stopped,   \* whether the worker says it was cancelled
  answer,    \* what run_scan returned
  committed, \* whether the exam was saved
  registered,\* whether cancel_scan finds the operation
  asked,     \* the event of the operation
  told,      \* the event of the worker
  canceller  \* what the cancelling thread does next

pool   == <<submitted, pending, ready, broken>>
out    == <<answer, committed>>
cancel == <<asked, canceller>>
vars   == <<pc, multi, prepared, pool, batch, at, results, stopped, out,
            registered, cancel, told>>

\* Mutant of InOrder: as they came.
AsTheyCame(s) == s

\* The i-th place is that of the i-th smallest page.
InOrder(s) ==
  [i \in DOMAIN s |-> CHOOSE p \in Page : /\ Cardinality({j \in DOMAIN s : s[j] < p}) < i
                                         /\ i <= Cardinality({j \in DOMAIN s : s[j] <= p})]
Smallest(S) == CHOOSE p \in S : \A q \in S : p <= q
Whole == [i \in Page |-> i]

-----------------------------------------------------------------------------
Init ==
  /\ pc = "new" /\ multi \in BOOLEAN /\ prepared = 0
  /\ submitted = 0 /\ pending = {} /\ ready = {} /\ broken = FALSE
  /\ batch = {} /\ at = None /\ results = <<>> /\ stopped = FALSE
  /\ answer = "none" /\ committed = FALSE
  /\ registered = FALSE /\ asked = FALSE /\ told = FALSE
  /\ canceller = "idle"

\* run_scan returns, and the operation is no longer found.
Return(what) ==
  /\ pc' = "done" /\ answer' = what
  /\ registered' = FALSE

\* The worker hands its results over.
HandOver(cancelled) ==
  /\ pc' = "judge"
  /\ stopped' = cancelled
  /\ results' = IF cancelled THEN results ELSE InOrder(results)

Register ==
  /\ pc = "new"
  /\ registered' = TRUE /\ pc' = "prepare"
  /\ UNCHANGED <<multi, prepared, pool, batch, at, results, stopped, out, cancel, told>>

\* build_tasks, with a look at the event after each page.
PreparePage ==
  /\ pc = "prepare" /\ prepared < Pages
  /\ IF asked THEN Return("cancelled") /\ UNCHANGED prepared
              ELSE prepared' = prepared + 1 /\ UNCHANGED <<pc, answer, registered>>
  /\ UNCHANGED <<multi, pool, batch, at, results, stopped, committed, cancel, told>>

PrepareFails ==
  /\ pc = "prepare" /\ prepared < Pages
  /\ Return("failed")
  /\ UNCHANGED <<multi, prepared, pool, batch, at, results, stopped, committed, cancel, told>>

PrepareDone ==
  /\ pc = "prepare" /\ prepared = Pages
  /\ IF asked THEN Return("cancelled") ELSE pc' = "begin" /\ UNCHANGED <<answer, registered>>
  /\ UNCHANGED <<multi, prepared, pool, batch, at, results, stopped, committed, cancel, told>>

\* ScanWorker.run clears the worker's event.
Begin ==
  /\ pc = "begin"
  /\ told' = FALSE
  /\ pc' = IF multi THEN "fill" ELSE "serial"
  /\ UNCHANGED <<multi, prepared, pool, batch, at, results, stopped, out, registered, cancel>>

-----------------------------------------------------------------------------
(***************************************************************************)
(* One page after the other                                                *)
(***************************************************************************)
SerialStart ==
  /\ pc = "serial" /\ at = None /\ Len(results) < Pages /\ ~told
  /\ at' = Len(results) + 1
  /\ UNCHANGED <<pc, multi, prepared, pool, batch, results, stopped, out, registered, cancel, told>>

SerialEnd ==
  /\ pc = "serial" /\ at # None /\ ~told
  /\ results' = Append(results, at) /\ at' = None
  /\ UNCHANGED <<pc, multi, prepared, pool, batch, stopped, out, registered, cancel, told>>

\* Cancelled before or after a page, or done.
SerialReturn ==
  /\ pc = "serial"
  /\ \/ told /\ (at # None \/ Len(results) < Pages) /\ HandOver(TRUE)
     \/ at = None /\ Len(results) = Pages /\ HandOver(FALSE)
  /\ at' = None
  /\ UNCHANGED <<multi, prepared, pool, batch, out, registered, cancel, told>>

-----------------------------------------------------------------------------
(***************************************************************************)
(* The process pool                                                        *)
(***************************************************************************)
MayFill == submitted < Pages /\ Cardinality(pending) < MaxInFlight /\ ~told

Submit ==
  /\ pc = "fill" /\ MayFill /\ ~broken
  /\ submitted' = submitted + 1
  /\ pending' = pending \union {submitted + 1}
  /\ UNCHANGED <<pc, multi, prepared, ready, broken, batch, at, results, stopped, out,
                 registered, cancel, told>>

ToRetry == pending \union (submitted + 1 .. Pages)

\* A broken pool refuses a page: this process recognises what is missing.
SubmitRaises ==
  /\ pc = "fill" /\ MayFill /\ broken
  /\ pc' = "retry" /\ batch' = ToRetry
  /\ UNCHANGED <<multi, prepared, pool, at, results, stopped, out, registered, cancel, told>>

Filled ==
  /\ pc = "fill" /\ ~MayFill
  /\ IF pending # {} THEN pc' = "wait" /\ UNCHANGED <<results, stopped>> ELSE HandOver(FALSE)
  /\ UNCHANGED <<multi, prepared, pool, batch, at, out, registered, cancel, told>>

PageDone(p) ==
  /\ p \in pending \ ready /\ ~broken
  /\ ready' = ready \union {p}
  /\ UNCHANGED <<pc, multi, prepared, submitted, pending, broken, batch, at, results, stopped,
                 out, registered, cancel, told>>

PoolBreaks ==
  /\ ~broken /\ pc \in {"fill", "wait", "collect"}
  /\ broken' = TRUE
  /\ UNCHANGED <<pc, multi, prepared, submitted, pending, ready, batch, at, results, stopped,
                 out, registered, cancel, told>>

Over == IF broken THEN pending ELSE ready \intersect pending

\* The wait returns what is over; nothing after 50 ms, and a look at the event.
WaitReturns ==
  /\ pc = "wait"
  /\ IF told THEN HandOver(TRUE) /\ UNCHANGED batch
             ELSE Over # {} /\ pc' = "collect" /\ batch' = Over /\ UNCHANGED <<results, stopped>>
  /\ UNCHANGED <<multi, prepared, pool, at, out, registered, cancel, told>>

\* A result, or a page the broken pool has lost and this process recognises.
Collect(p) ==
  /\ pc = "collect" /\ at = None /\ p \in batch
  /\ at' = p /\ batch' = batch \ {p} /\ pending' = pending \ {p}
  /\ UNCHANGED <<pc, multi, prepared, submitted, ready, broken, results, stopped, out,
                 registered, cancel, told>>

Collected ==
  /\ pc = "collect" /\ at # None
  /\ IF told THEN HandOver(TRUE)
             ELSE results' = Append(results, at) /\ UNCHANGED <<pc, stopped>>
  /\ at' = None
  /\ UNCHANGED <<multi, prepared, pool, batch, out, registered, cancel, told>>

CollectDone ==
  /\ pc = "collect" /\ at = None /\ batch = {}
  /\ pc' = "fill"
  /\ UNCHANGED <<multi, prepared, pool, batch, at, results, stopped, out, registered, cancel,
                 told>>

RetryStart ==
  /\ pc = "retry" /\ at = None /\ batch # {} /\ ~told
  /\ at' = Smallest(batch) /\ batch' = batch \ {Smallest(batch)}
  /\ UNCHANGED <<pc, multi, prepared, pool, results, stopped, out, registered, cancel, told>>

RetryEnd ==
  /\ pc = "retry" /\ at # None
  /\ results' = Append(results, at) /\ at' = None
  /\ UNCHANGED <<pc, multi, prepared, pool, batch, stopped, out, registered, cancel, told>>

RetryDone ==
  /\ pc = "retry" /\ at = None /\ (batch = {} \/ told)
  /\ HandOver(batch # {})
  /\ UNCHANGED <<multi, prepared, pool, batch, at, out, registered, cancel, told>>

\* Recognition in this process raises.
Raises ==
  /\ pc \in {"serial", "collect", "retry"} /\ at # None /\ at \notin ready
  /\ at' = None /\ Return("failed")
  /\ UNCHANGED <<multi, prepared, pool, batch, results, stopped, committed, cancel, told>>

-----------------------------------------------------------------------------
\* Mutant of MaySave: the worker's word is enough.
MaySaveUnlessStopped == ~stopped /\ Len(results) = Pages

MaySave == ~stopped /\ Len(results) = Pages /\ ~asked

Judge ==
  /\ pc = "judge" /\ ~MaySave
  /\ Return(IF ~stopped /\ Len(results) # Pages THEN "incomplete" ELSE "cancelled")
  /\ UNCHANGED <<multi, prepared, pool, batch, at, results, stopped, committed, cancel, told>>

\* The last look at the event; the page hears that the results are being saved.
StartSaving ==
  /\ pc = "judge" /\ MaySave
  /\ pc' = "save"
  /\ UNCHANGED <<multi, prepared, pool, batch, at, results, stopped, out, registered, cancel,
                 told>>

\* commit_scan saves all or nothing, and only the pages prepared in their order.
Commit ==
  /\ pc = "save"
  /\ committed' \in {FALSE, results = Whole}
  /\ Return(IF committed' THEN "ok" ELSE "failed")
  /\ UNCHANGED <<multi, prepared, pool, batch, at, results, stopped, cancel, told>>

-----------------------------------------------------------------------------
(***************************************************************************)
(* cancel_scan, on another thread                                          *)
(***************************************************************************)
Find ==
  /\ canceller = "idle"
  /\ canceller' = IF registered THEN "ask" ELSE "refused"
  /\ UNCHANGED <<pc, multi, prepared, pool, batch, at, results, stopped, out, registered,
                 asked, told>>

Ask ==
  /\ canceller = "ask"
  /\ asked' = TRUE /\ canceller' = "tell"
  /\ UNCHANGED <<pc, multi, prepared, pool, batch, at, results, stopped, out, registered,
                 told>>

Tell ==
  /\ canceller = "tell"
  /\ told' = TRUE /\ canceller' = "done"
  /\ UNCHANGED <<pc, multi, prepared, pool, batch, at, results, stopped, out, registered,
                 asked>>

-----------------------------------------------------------------------------
Thread ==
  \/ Register \/ PreparePage \/ PrepareFails \/ PrepareDone \/ Begin
  \/ SerialStart \/ SerialEnd \/ SerialReturn
  \/ Submit \/ SubmitRaises \/ Filled \/ WaitReturns
  \/ \E p \in Page : Collect(p)
  \/ Collected \/ CollectDone \/ RetryStart \/ RetryEnd \/ RetryDone
  \/ Raises \/ Judge \/ StartSaving \/ Commit

PoolRuns == PoolBreaks \/ \E p \in Page : PageDone(p)

Next == Thread \/ PoolRuns \/ Find \/ Ask \/ Tell

Spec == Init /\ [][Next]_vars

-----------------------------------------------------------------------------
(***************************************************************************)
(* Properties                                                              *)
(***************************************************************************)

\* What is handed over to be saved is every page once and in order, whatever the
\* pool did ("commit exactly once after all accepted worker outputs arrive"), so
\* commit_scan never refuses it as SCAN_RESULT_IDENTITY_MISMATCH; and only a cancel
\* leaves the results incomplete, not a pool that broke.
SavesWholeScan ==
  /\ (pc = "save" \/ committed) => results = Whole
  /\ answer = "incomplete" => asked

\* A cancel that reached the operation before the last look is obeyed, though
\* the worker may have cleared its own event after it.
CancelObeyed ==
  [][asked /\ pc # "save" => pc' # "save" /\ committed' = committed]_vars
=============================================================================
