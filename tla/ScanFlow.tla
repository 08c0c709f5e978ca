------------------------------ MODULE ScanFlow ------------------------------
(***************************************************************************)
(* A scan as the user sees it: the scan page, the WorkerBridge and the     *)
(* ScanRun on its thread (AppController._start_write).                     *)
(*                                                                         *)
(* The page has a cancel button until it hears that the results are being  *)
(* saved; closing the window cancels as well.  The bridge's hook is        *)
(* cancel_scan, on the window's thread.  Of the progress, only the report  *)
(* before the save is followed.                                            *)
(***************************************************************************)
EXTENDS ScanRun

VARIABLES life, thread, event, said, queue, runs, terminal, hooked, ui, closeAsked,
          held, log, closed

Bridge == INSTANCE WorkerBridge WITH Progress <- {"save"}, MaxRuns <- 1, MaxQueue <- 3

scan   == vars
bridge == <<life, thread, event, said, queue, runs, terminal, hooked, ui, closeAsked,
            held, log, closed>>

FlowInit == Init /\ Bridge!BridgeInit

\* The page offers the cancel button.
MayCancel == ~\E i \in DOMAIN log : log[i] = "save"

StartScan == Bridge!Start /\ UNCHANGED scan

Recognise ==
  /\ thread = "run"
  /\ \/ Thread /\ ~StartSaving
     \/ PoolRuns
  /\ UNCHANGED bridge

\* The report before the save, dropped when the bridge was cancelled.
SaveBegins ==
  /\ StartSaving
  /\ IF event \/ said THEN UNCHANGED bridge ELSE Bridge!Report("save")

ScanReturns ==
  /\ pc = "done"
  /\ Bridge!Returned(IF answer = "ok" THEN "succeeded" ELSE "failed")
  /\ UNCHANGED scan

ThreadExits == Bridge!Exit /\ UNCHANGED scan

WindowRuns == (Bridge!Deliver \/ Bridge!Flush) /\ UNCHANGED scan

Look == IF hooked THEN UNCHANGED scan ELSE Find

CancelScan == MayCancel /\ Bridge!Cancel /\ Look

CloseWindow == Bridge!CloseBridge /\ Look

Hook ==
  \/ ui = "hook" /\ Ask /\ UNCHANGED bridge
  \/ Tell /\ Bridge!HookAccepts
  \/ canceller = "refused" /\ Bridge!HookRefuses /\ UNCHANGED scan

FlowNext ==
  \/ StartScan \/ Recognise \/ SaveBegins \/ ScanReturns \/ ThreadExits \/ WindowRuns
  \/ CancelScan \/ CloseWindow \/ Hook

all == <<scan, bridge>>

FlowSpec == FlowInit /\ [][FlowNext]_all

\* Both threads and the pool run on.
FairFlow ==
  /\ FlowSpec
  /\ WF_all(Recognise) /\ WF_all(SaveBegins) /\ WF_all(ScanReturns) /\ WF_all(ThreadExits)
  /\ WF_all(Bridge!Deliver /\ UNCHANGED scan) /\ WF_all(Hook)

-----------------------------------------------------------------------------
(***************************************************************************)
(* Properties                                                              *)
(***************************************************************************)
Showing(end) == \E i \in DOMAIN log : log[i] = end

\* The end that is shown is what happened.  What the page shows as done is a saved,
\* whole exam.  A scan shown as failed was not saved, unless a cancel of it was
\* refused: it came before the operation was registered, or after it was over.  A
\* cancel the hook accepted is shown, whatever the scan answers and whenever.
EndIsTrue ==
  /\ Showing("succeeded") => committed /\ results = Whole
  /\ Showing("failed") /\ committed => canceller = "refused"
  /\ canceller = "done" /\ terminal => Showing("cancelled")

\* A scan that was started is shown to end, and its thread goes away.
FlowEnds == (runs = 1) ~> (terminal /\ thread = "none")
=============================================================================
