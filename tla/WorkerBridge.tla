----------------------------- MODULE WorkerBridge -----------------------------
(***************************************************************************)
(* The bridge between the window and one background operation              *)
(* (ui/worker_bridge.py).                                                  *)
(*                                                                         *)
(* The operation runs on a thread of its own and reports through signals   *)
(* queued to the window's thread, which delivers them one by one, in       *)
(* order, between the user's clicks.  Cancelling sets an event both        *)
(* threads see and calls the operation's cancel hook.                      *)
(***************************************************************************)
EXTENDS Integers, Sequences

CONSTANTS
  Progress,  (* values an operation reports                       *)
  MaxRuns,   (* bound: operations started on one bridge           *)
  MaxQueue   (* bound: signals waiting when progress is reported  *)

ASSUME BridgeAssumption == MaxRuns \in Nat /\ MaxQueue \in Nat

Nothing == "nothing"
Ends == {"succeeded", "failed", "cancelled"}

ASSUME ProgressAssumption == Progress \cap (Ends \union {Nothing, "quit", "gone"}) = {}

VARIABLES
  life,      \* the lifecycle shown to the window
  thread,    \* the thread: none, run, ended (will be told to quit), gone
  event,     \* the cancel event
  said,      \* whether the worker has reported how it ended
  queue,     \* signals not yet delivered: the run they are from and what
  runs,      \* operations started
  terminal,  \* whether this run's end has been shown
  hooked,    \* whether the cancel hook was called
  ui,        \* what the window's thread is in: its loop or the hook
  closeAsked, \* whether a close waits for the thread
  held,      \* progress held back by the throttle
  log,       \* what the window was shown of this run: ends and last progress
  closed     \* whether close_finished was emitted since the last start

worker == <<life, thread, event, said, queue, runs, terminal, hooked, ui, closeAsked,
          held, log, closed>>

\* Show progress to the window: it replaces the progress shown before.
Show(v) ==
  IF log # <<>> /\ log[Len(log)] \in Progress
  THEN [log EXCEPT ![Len(log)] = v] ELSE Append(log, v)

BridgeInit ==
  /\ life = "idle" /\ thread = "none" /\ event = FALSE /\ said = FALSE
  /\ queue = <<>> /\ runs = 0 /\ terminal = FALSE /\ hooked = FALSE
  /\ ui = "loop" /\ closeAsked = FALSE /\ held = Nothing /\ log = <<>> /\ closed = FALSE

\* Mutant of MayStart: an operation that has ended is enough.
MayStartWhenEnded == thread # "run"

MayStart == thread = "none" /\ life # "closing"

Start ==
  /\ ui = "loop" /\ MayStart /\ runs < MaxRuns
  /\ runs' = runs + 1
  /\ life' = "running" /\ thread' = "run" /\ event' = FALSE /\ said' = FALSE
  /\ terminal' = FALSE /\ hooked' = FALSE /\ closeAsked' = FALSE
  /\ held' = Nothing /\ log' = <<>> /\ closed' = FALSE
  /\ UNCHANGED <<queue, ui>>

-----------------------------------------------------------------------------
(***************************************************************************)
(* The worker's thread                                                     *)
(***************************************************************************)
Post(x) == queue' = Append(queue, [run |-> runs, what |-> x])

\* Progress of a run that has ended or was cancelled is dropped.
Report(v) ==
  /\ thread = "run" /\ ~said /\ ~event /\ Len(queue) < MaxQueue
  /\ Post(v)
  /\ UNCHANGED <<life, thread, event, said, runs, terminal, hooked, ui, closeAsked, held, log,
                 closed>>

\* A value that may not cross threads ends the run for the window.
ReportMutable ==
  /\ thread = "run" /\ ~said /\ ~event
  /\ Post("failed") /\ said' = TRUE
  /\ UNCHANGED <<life, thread, event, runs, terminal, hooked, ui, closeAsked, held, log, closed>>

\* What the worker reports of an operation that returned.
Verdict(how) ==
  IF said THEN <<>> ELSE <<[run |-> runs, what |-> IF event THEN "cancelled" ELSE how]>>

\* The operation returned a value or an error, or raised (which is reported as
\* a failure even when it was cancelled).
Returned(how) ==
  /\ thread = "run"
  /\ \/ queue' = queue \o Verdict(how) \o <<[run |-> runs, what |-> "quit"]>>
     \/ /\ how = "failed" /\ ~said
        /\ queue' = queue \o <<[run |-> runs, what |-> "failed"], [run |-> runs, what |-> "quit"]>>
  /\ said' = TRUE /\ thread' = "ended"
  /\ UNCHANGED <<life, event, runs, terminal, hooked, ui, closeAsked, held, log, closed>>

\* thread.quit was delivered: the thread is over.
Exit ==
  /\ thread = "quitting"
  /\ thread' = "gone" /\ Post("gone")
  /\ UNCHANGED <<life, event, said, runs, terminal, hooked, ui, closeAsked, held, log, closed>>

-----------------------------------------------------------------------------
(***************************************************************************)
(* The window's thread                                                     *)
(***************************************************************************)
Visible == ~terminal /\ ~event

Flushed == IF held # Nothing /\ Visible THEN Show(held) ELSE log

\* Mutant of End: every end is shown.
EndAgain(what) ==
  /\ held' = Nothing /\ terminal' = TRUE
  /\ log' = Append(Flushed, what)

\* Progress held back is shown before the end is, and the end only once.
End(what) ==
  /\ held' = Nothing /\ terminal' = TRUE
  /\ log' = IF terminal THEN log ELSE Append(Flushed, what)

\* The end is shown in the lifecycle too, unless the window is closing.
EndLife == life' = IF life = "closing" \/ terminal THEN life ELSE "terminal"

TakeHead == queue' = Tail(queue)
HeadIs(S) == ui = "loop" /\ queue # <<>> /\ Head(queue).what \in S

DeliverProgress ==
  /\ HeadIs(Progress) /\ TakeHead
  /\ LET v == Head(queue).what IN
       \/ ~Visible /\ UNCHANGED <<held, log>>
       \/ Visible /\ held' = v /\ UNCHANGED log
       \/ Visible /\ held' = Nothing /\ log' = Show(v)
  /\ UNCHANGED <<life, thread, event, said, runs, terminal, hooked, ui, closeAsked, closed>>

\* The throttle's timer.
Flush ==
  /\ ui = "loop" /\ held # Nothing
  /\ held' = Nothing
  /\ log' = IF Visible THEN Show(held) ELSE log
  /\ UNCHANGED <<life, thread, event, said, queue, runs, terminal, hooked, ui, closeAsked, closed>>

\* Mutant of DeliverEnd: a result that comes after a cancel is shown.
DeliverEndAnyway ==
  /\ HeadIs(Ends) /\ TakeHead
  /\ IF Head(queue).what = "cancelled" THEN UNCHANGED <<held, log, terminal, life>>
     ELSE End(Head(queue).what) /\ EndLife
  /\ UNCHANGED <<thread, event, said, runs, hooked, ui, closeAsked, closed>>

\* A result or an error after a cancel is dropped; the end of the thread will
\* report the cancel.
DeliverEnd ==
  /\ HeadIs(Ends) /\ TakeHead
  /\ IF event \/ Head(queue).what = "cancelled"
     THEN UNCHANGED <<held, log, terminal, life>>
     ELSE End(Head(queue).what) /\ EndLife
  /\ UNCHANGED <<thread, event, said, runs, hooked, ui, closeAsked, closed>>

DeliverQuit ==
  /\ HeadIs({"quit"}) /\ TakeHead
  /\ thread' = "quitting"
  /\ UNCHANGED <<life, event, said, runs, terminal, hooked, ui, closeAsked, held, log, closed>>

\* Mutant of DeliverGone: a cancel is not shown to a closing window.
DeliverGoneClosing ==
  /\ HeadIs({"gone"}) /\ TakeHead
  /\ thread' = "none" /\ life' = "terminal"
  /\ IF event /\ ~closeAsked THEN End("cancelled")
                          ELSE held' = Nothing /\ UNCHANGED <<log, terminal>>
  /\ closed' = (closed \/ closeAsked)
  /\ UNCHANGED <<event, said, runs, hooked, ui, closeAsked>>

\* _clear_thread: a cancel nobody has shown yet is.
DeliverGone ==
  /\ HeadIs({"gone"}) /\ TakeHead
  /\ thread' = "none" /\ life' = "terminal"
  /\ IF event THEN End("cancelled") ELSE held' = Nothing /\ UNCHANGED <<log, terminal>>
  /\ closed' = (closed \/ closeAsked)
  /\ UNCHANGED <<event, said, runs, hooked, ui, closeAsked>>

\* cancel: set the event, then call the hook once.
Cancelled ==
  /\ event' = TRUE
  /\ ui' = IF hooked THEN ui ELSE "hook"
  /\ hooked' = TRUE

Cancel ==
  /\ ui = "loop" /\ life \in {"running", "cancelling"}
  /\ Cancelled
  /\ life' = "cancelling"
  /\ UNCHANGED <<thread, said, queue, runs, terminal, closeAsked, held, log, closed>>

\* The hook accepts the cancel.
HookAccepts ==
  /\ ui = "hook" /\ ui' = "loop"
  /\ UNCHANGED <<life, thread, event, said, queue, runs, terminal, hooked, closeAsked, held, log,
                 closed>>

\* The hook refuses or raises: the run is shown as failed, and goes on.
HookRefuses ==
  /\ ui = "hook" /\ ui' = "loop"
  /\ End("failed") /\ EndLife
  /\ UNCHANGED <<thread, event, said, queue, runs, hooked, closeAsked, closed>>

\* Close with an operation on its thread cancels it and waits for the thread.
CloseBridge ==
  /\ ui = "loop" /\ thread # "none"
  /\ closeAsked' = TRUE /\ life' = "closing"
  /\ Cancelled
  /\ UNCHANGED <<thread, said, queue, runs, terminal, held, log, closed>>

\* Otherwise it is over at once.
CloseIdle ==
  /\ ui = "loop" /\ thread = "none"
  /\ closed' = TRUE
  /\ life' = IF life = "idle" THEN life ELSE "terminal"
  /\ UNCHANGED <<thread, event, said, queue, runs, terminal, hooked, ui, closeAsked, held, log>>

-----------------------------------------------------------------------------
Deliver == DeliverProgress \/ DeliverEnd \/ DeliverQuit \/ DeliverGone

Window == Deliver \/ Flush \/ HookAccepts \/ HookRefuses

BridgeNext ==
  \/ Start \/ Cancel \/ CloseBridge \/ CloseIdle \/ Window
  \/ \E v \in Progress : Report(v)
  \/ ReportMutable \/ Returned("succeeded") \/ Returned("failed") \/ Exit

BridgeSpec == BridgeInit /\ [][BridgeNext]_worker

\* The window's thread handles its events, and operations end.
FairBridge ==
  /\ BridgeSpec /\ WF_worker(Deliver) /\ WF_worker(HookAccepts \/ HookRefuses)
  /\ WF_worker(Returned("succeeded") \/ Returned("failed")) /\ WF_worker(Exit)

-----------------------------------------------------------------------------
(***************************************************************************)
(* Properties                                                              *)
(***************************************************************************)
\* The window is shown one end of a run ("emits exactly one operation terminal
\* state"), nothing of the run after it, that end before the thread is over, and
\* nothing of an earlier run.
EndShownOnce ==
  /\ \A i \in DOMAIN log : log[i] \in Ends => i = Len(log)
  /\ (runs > 0 /\ thread = "none") => terminal
  /\ \A i \in DOMAIN queue : queue[i].run = runs

\* A close is reported once the thread is gone.
CloseReported == closeAsked ~> closed
=============================================================================
