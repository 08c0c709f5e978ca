-------------------------- MODULE MCBooksAndBridge --------------------------
(***************************************************************************)
(* Two small things in one run: the result books of an exam, and the       *)
(* bridge an operation runs behind.  `topic` says which; the variables of  *)
(* the other rest.                                                         *)
(***************************************************************************)
EXTENDS ResultBooks, WorkerBridge

CONSTANTS resp, score

VARIABLE topic

-----------------------------------------------------------------------------
\* A scanned exam has a response book, a graded one a score book too.
MCName   == {resp, score}
MCGraded == {score}
MCShapes == {{resp}, {resp, score}}

\* Operations report pages and the beginning of the save.
MCProgress == {"page", "save"}

-----------------------------------------------------------------------------
NoSaves == Init /\ ~heavy /\ books[1] = {resp}

BothInit ==
  \/ topic = "books" /\ Init /\ BridgeInit
  \/ topic = "bridge" /\ NoSaves /\ BridgeInit

BothNext ==
  /\ UNCHANGED topic
  /\ \/ topic = "books" /\ Next /\ UNCHANGED worker
     \/ topic = "bridge" /\ BridgeNext /\ UNCHANGED vars

\* What FairSpec of ResultBooks and FairBridge say, each about its own behaviours.
FairBoth ==
  /\ BothInit /\ [][BothNext]_<<topic, vars, worker>>
  /\ WF_vars(topic = "books" /\ Refresh) /\ WF_vars(topic = "books" /\ List)
  /\ WF_worker(topic = "bridge" /\ Deliver) /\ WF_worker(topic = "bridge" /\ (HookAccepts \/ HookRefuses))
  /\ WF_worker(topic = "bridge" /\ (Returned("succeeded") \/ Returned("failed")))
  /\ WF_worker(topic = "bridge" /\ Exit)
=============================================================================
