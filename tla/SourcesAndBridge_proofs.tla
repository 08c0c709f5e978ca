---------------------- MODULE SourcesAndBridge_proofs ----------------------
(***************************************************************************)
(* Proofs about two things under every scan.  The bridge between the       *)
(* window and an operation (WorkerBridge): for any values reported, any    *)
(* number of runs and of signals waiting.  The files a scan and an import  *)
(* read (SourceFiles): for any files, folders, contents and choices, and   *)
(* any number of writes by other programs.                                 *)
(***************************************************************************)
EXTENDS WorkerBridge, SourceFiles, TLAPS, SequenceTheorems, FiniteSetTheorems, FunctionTheorems,
        NaturalsInduction, WellFoundedInduction

(***************************************************************************)
(* The bridge                                                              *)
(***************************************************************************)
Signal  == Progress \union Ends \union {"quit", "gone"}
Message == [run : Nat, what : Signal]

\* What the variables hold.
BridgeTypes ==
  /\ runs \in Nat
  /\ thread \in {"none", "run", "ended", "quitting", "gone"}
  /\ event \in BOOLEAN /\ said \in BOOLEAN /\ terminal \in BOOLEAN
  /\ queue \in Seq(Message)
  /\ held \in Progress \union {Nothing}
  /\ log \in Seq(Progress \union Ends)

\* The signals of a run are all delivered before the next can start: the last two are
\* the order to quit and the report that the thread is gone.
QueueFits ==
  /\ \A i \in 1 .. Len(queue) : queue[i].run = runs
  /\ thread \in {"none", "quitting"} => queue = <<>>
  /\ thread = "gone" => Len(queue) = 1 /\ queue[1].what = "gone"
  /\ thread = "ended" => queue # <<>> /\ queue[Len(queue)].what = "quit"
  /\ \A i \in 1 .. Len(queue) :
       /\ queue[i].what = "quit" => thread = "ended" /\ i = Len(queue)
       /\ queue[i].what = "gone" => thread = "gone"

\* The end of a run that was not cancelled was shown or is on its way; the end of a
\* cancelled one is shown when its thread is gone.
EndOwed ==
  /\ said /\ ~event => terminal \/ \E i \in 1 .. Len(queue) : queue[i].what \in {"succeeded", "failed"}
  /\ \A i \in 1 .. Len(queue) : queue[i].what = "cancelled" => event
  /\ thread \in {"ended", "quitting", "gone"} => said
  /\ runs = 0 => thread = "none"
  /\ runs > 0 /\ thread = "none" => terminal

\* An end is shown last, and then the run counts as shown.
LogFits == \A i \in 1 .. Len(log) : log[i] \in Ends => i = Len(log) /\ terminal

BridgeInv == BridgeTypes /\ QueueFits /\ EndOwed /\ LogFits

-----------------------------------------------------------------------------
\* What a signal posted leaves of the others.
LEMMA Posted ==
  ASSUME BridgeTypes, NEW x \in Signal, Post(x)
  PROVE  /\ queue' \in Seq(Message) /\ Len(queue') = Len(queue) + 1 /\ queue' # <<>>
         /\ queue'[Len(queue')] = [run |-> runs, what |-> x]
         /\ \A i \in 1 .. Len(queue) : queue'[i] = queue[i]
<1> DEFINE m == [run |-> runs, what |-> x]
<1>1. m \in Message
  BY DEF BridgeTypes, Message
<1>2. queue' = Append(queue, m)
  BY DEF Post
<1> HIDE DEF m
<1>3. /\ queue' \in Seq(Message) /\ Len(queue') = Len(queue) + 1
      /\ queue'[Len(queue')] = m
      /\ \A i \in 1 .. Len(queue) : queue'[i] = queue[i]
  BY <1>1, <1>2, AppendProperties DEF BridgeTypes
<1> QED
  BY <1>3, EmptySeq DEF BridgeTypes, m

\* What a signal taken leaves of the others.
LEMMA Taken ==
  ASSUME BridgeTypes, queue # <<>>, TakeHead
  PROVE  /\ queue' \in Seq(Message) /\ Len(queue') = Len(queue) - 1
         /\ \A i \in 1 .. Len(queue') : queue'[i] = queue[i + 1]
         /\ Head(queue) = queue[1] /\ Len(queue) \in Nat \ {0}
BY HeadTailProperties, EmptySeq, LenProperties DEF BridgeTypes, TakeHead

\* Progress shown is no end.
LEMMA ShownFits ==
  ASSUME BridgeTypes, LogFits, ~terminal, NEW v \in Progress
  PROVE  Show(v) \in Seq(Progress \union Ends) /\ \A i \in 1 .. Len(Show(v)) : Show(v)[i] \notin Ends
<1>1. v \in Progress \union Ends /\ v \notin Ends
  BY ProgressAssumption
<1>2. \A i \in 1 .. Len(log) : log[i] \notin Ends
  BY DEF LogFits
<1>3. CASE log # <<>> /\ log[Len(log)] \in Progress
  <2>1. Len(log) \in 1 .. Len(log)
    BY <1>3, EmptySeq DEF BridgeTypes
  <2>2. Show(v) = [log EXCEPT ![Len(log)] = v]
    BY <1>3 DEF Show
  <2> QED
    BY <1>1, <1>2, <2>1, <2>2, ExceptSeq DEF BridgeTypes
<1>4. CASE ~(log # <<>> /\ log[Len(log)] \in Progress)
  <2>1. Show(v) = Append(log, v)
    BY <1>4 DEF Show
  <2>2. /\ Append(log, v) \in Seq(Progress \union Ends) /\ Len(Append(log, v)) = Len(log) + 1
        /\ Append(log, v)[Len(log) + 1] = v
        /\ \A i \in 1 .. Len(log) : Append(log, v)[i] = log[i]
    BY <1>1, AppendProperties DEF BridgeTypes
  <2>3. Len(log) \in Nat
    BY LenProperties DEF BridgeTypes
  <2> QED
    BY <1>1, <1>2, <2>1, <2>2, <2>3
<1> QED
  BY <1>3, <1>4

\* An end is shown behind whatever was held back.
LEMMA EndFits ==
  ASSUME BridgeTypes, LogFits, NEW what \in Ends, End(what)
  PROVE  /\ held' \in Progress \union {Nothing} /\ terminal' = TRUE
         /\ log' \in Seq(Progress \union Ends) /\ LogFits'
<1>1. held' \in Progress \union {Nothing} /\ terminal' = TRUE
  BY DEF End
<1>2. CASE terminal
  <2>1. log' = log
    BY <1>2 DEF End
  <2> QED
    BY <1>1, <2>1 DEF LogFits, BridgeTypes
<1>3. CASE ~terminal
  <2>1. Flushed \in Seq(Progress \union Ends) /\ \A i \in 1 .. Len(Flushed) : Flushed[i] \notin Ends
    <3>1. CASE held # Nothing /\ Visible
      BY <1>3, <3>1, ShownFits DEF Flushed, BridgeTypes
    <3>2. CASE ~(held # Nothing /\ Visible)
      BY <1>3, <3>2 DEF Flushed, BridgeTypes, LogFits
    <3> QED
      BY <3>1, <3>2
  <2>2. log' = Append(Flushed, what)
    BY <1>3 DEF End
  <2> HIDE DEF Flushed
  <2>3. /\ log' \in Seq(Progress \union Ends) /\ Len(log') = Len(Flushed) + 1
        /\ \A i \in 1 .. Len(Flushed) : log'[i] = Flushed[i]
    BY <2>1, <2>2, AppendProperties
  <2>4. Len(Flushed) \in Nat
    BY <2>1, LenProperties
  <2> QED
    BY <1>1, <2>1, <2>3, <2>4 DEF LogFits
<1> QED
  BY <1>2, <1>3

-----------------------------------------------------------------------------
\* The bridge starts empty.
LEMMA InitBridge == BridgeInit => BridgeInv
<1> SUFFICES ASSUME BridgeInit PROVE BridgeInv
  OBVIOUS
<1>1. \A S : <<>> \in Seq(S) /\ Len(<<>>) = 0
  BY EmptySeq
<1>2. BridgeTypes
  BY <1>1 DEF BridgeInit, BridgeTypes
<1>3. QueueFits
  BY <1>1 DEF BridgeInit, QueueFits
<1>4. EndOwed
  BY <1>1 DEF BridgeInit, EndOwed
<1>5. LogFits
  BY <1>1 DEF BridgeInit, LogFits
<1> QED
  BY <1>2, <1>3, <1>4, <1>5 DEF BridgeInv

\* A run starts when the thread of the one before is gone and all its signals are.
LEMMA StartKeeps == ASSUME BridgeInv, Start PROVE BridgeInv'
<1>1. queue = <<>> /\ queue' = <<>> /\ runs \in Nat /\ runs' = runs + 1
  BY DEF BridgeInv, BridgeTypes, QueueFits, Start, MayStart
<1>2. <<>> \in Seq(Message) /\ <<>> \in Seq(Progress \union Ends) /\ Len(<<>>) = 0
  BY EmptySeq
<1>3. BridgeTypes'
  <2>1. runs' \in Nat /\ queue' \in Seq(Message) /\ log' \in Seq(Progress \union Ends)
    BY <1>1, <1>2 DEF Start
  <2>2. thread' = "run" /\ event' = FALSE /\ said' = FALSE /\ terminal' = FALSE /\ held' = Nothing
    BY DEF Start
  <2> QED
    BY <2>1, <2>2 DEF BridgeTypes
<1>4. QueueFits'
  <2>1. Len(queue') = 0 /\ thread' = "run"
    BY <1>1, <1>2 DEF Start
  <2> QED
    BY <2>1 DEF QueueFits
<1>5. EndOwed'
  <2>1. Len(queue') = 0 /\ thread' = "run" /\ said' = FALSE /\ runs' # 0
    BY <1>1, <1>2 DEF Start
  <2> QED
    BY <2>1 DEF EndOwed
<1>6. LogFits'
  BY <1>2 DEF Start, LogFits
<1> QED
  BY <1>3, <1>4, <1>5, <1>6 DEF BridgeInv

\* Progress waits behind what was reported before.
LEMMA ReportKeeps == ASSUME BridgeInv, NEW v \in Progress, Report(v) PROVE BridgeInv'
<1>1. v \in Signal /\ v \notin Ends \union {"quit", "gone"}
  BY ProgressAssumption DEF Signal
<1>2. Post(v) /\ UNCHANGED <<thread, event, said, runs, terminal, held, log>> /\ thread = "run" /\ ~said
  BY DEF Report
<1>3. /\ queue' \in Seq(Message) /\ Len(queue') = Len(queue) + 1 /\ queue' # <<>>
      /\ queue'[Len(queue')] = [run |-> runs, what |-> v]
      /\ \A i \in 1 .. Len(queue) : queue'[i] = queue[i]
  BY <1>1, <1>2, Posted DEF BridgeInv
<1>4. Len(queue) \in Nat
  BY LenProperties DEF BridgeInv, BridgeTypes
<1>5. BridgeTypes' /\ LogFits'
  BY <1>2, <1>3 DEF BridgeInv, BridgeTypes, LogFits
<1>6. QueueFits'
  BY <1>1, <1>2, <1>3, <1>4 DEF BridgeInv, QueueFits, Ends
<1>7. EndOwed'
  BY <1>1, <1>2, <1>3, <1>4 DEF BridgeInv, EndOwed, Ends
<1> QED
  BY <1>5, <1>6, <1>7 DEF BridgeInv

\* A value that may not cross ends the run for the window.
LEMMA MutableKeeps == ASSUME BridgeInv, ReportMutable PROVE BridgeInv'
<1>1. Post("failed") /\ said' = TRUE /\ UNCHANGED <<thread, event, runs, terminal, held, log>> /\ thread = "run"
  BY DEF ReportMutable
<1>2. "failed" \in Signal
  BY DEF Signal, Ends
<1>3. /\ queue' \in Seq(Message) /\ Len(queue') = Len(queue) + 1 /\ queue' # <<>>
      /\ queue'[Len(queue')] = [run |-> runs, what |-> "failed"]
      /\ \A i \in 1 .. Len(queue) : queue'[i] = queue[i]
  BY <1>1, <1>2, Posted DEF BridgeInv
<1>4. Len(queue) \in Nat
  BY LenProperties DEF BridgeInv, BridgeTypes
<1>5. BridgeTypes' /\ LogFits'
  BY <1>1, <1>3 DEF BridgeInv, BridgeTypes, LogFits
<1>6. QueueFits'
  BY <1>1, <1>3, <1>4 DEF BridgeInv, QueueFits
<1>7. EndOwed'
  <2>1. Len(queue') \in 1 .. Len(queue') /\ queue'[Len(queue')].what = "failed"
    BY <1>3, <1>4
  <2> QED
    BY <1>1, <1>3, <1>4, <2>1 DEF BridgeInv, EndOwed
<1> QED
  BY <1>5, <1>6, <1>7 DEF BridgeInv

\* The end of the operation is reported once, and the order to quit behind it.
LEMMA ReturnedKeeps == ASSUME BridgeInv, NEW how \in {"succeeded", "failed"}, Returned(how) PROVE BridgeInv'
<1> DEFINE quit == [run |-> runs, what |-> "quit"]
           end(x) == [run |-> runs, what |-> x]
<1>1. /\ said' = TRUE /\ thread = "run" /\ thread' = "ended"
      /\ UNCHANGED <<event, runs, terminal, held, log>>
  BY DEF Returned
<1>2. quit \in Message /\ \A x \in Ends : end(x) \in Message
  BY DEF BridgeInv, BridgeTypes, Message, Signal
<1>3. queue \in Seq(Message) /\ Len(queue) \in Nat
  BY LenProperties DEF BridgeInv, BridgeTypes
<1>4. \/ said /\ queue' = (queue \o <<>>) \o <<quit>>
      \/ \E x \in Ends : /\ x = "cancelled" <=> event
                         /\ queue' = (queue \o <<end(x)>>) \o <<quit>>
      \/ ~said /\ queue' = queue \o <<end("failed"), quit>>
  <2>1. how \in Ends /\ how # "cancelled" /\ "cancelled" \in Ends
    BY DEF Ends
  <2>2. event \in BOOLEAN /\ said \in BOOLEAN
    BY DEF BridgeInv, BridgeTypes
  <2>3. CASE said
    BY <2>2, <2>3, Zenon DEF Returned, Verdict
  <2>4. CASE ~said /\ event
    BY <2>1, <2>2, <2>4 DEF Returned, Verdict
  <2>5. CASE ~said /\ ~event
    BY <2>1, <2>2, <2>5 DEF Returned, Verdict
  <2> QED
    BY <2>2, <2>3, <2>4, <2>5
<1>5. CASE said /\ queue' = (queue \o <<>>) \o <<quit>>
  <2>1. queue' = Append(queue, quit)
    BY <1>2, <1>3, <1>5, ConcatEmptySeq, AppendIsConcat
  <2> HIDE DEF quit
  <2>2. /\ queue' \in Seq(Message) /\ Len(queue') = Len(queue) + 1 /\ queue' # <<>>
        /\ queue'[Len(queue')] = quit
        /\ \A i \in 1 .. Len(queue) : queue'[i] = queue[i]
    BY <1>2, <1>3, <2>1, AppendProperties
  <2> USE DEF quit
  <2>3. BridgeTypes' /\ LogFits'
    BY <1>1, <2>2 DEF BridgeInv, BridgeTypes, LogFits
  <2>4. QueueFits'
    <3>1. \A i \in 1 .. Len(queue') : \/ (i \in 1 .. Len(queue) /\ queue'[i] = queue[i])
                                       \/ (i = Len(queue') /\ queue'[i] = quit)
      BY <1>3, <2>2
    <3>2. \A i \in 1 .. Len(queue) : queue[i].run = runs /\ queue[i].what \notin {"quit", "gone"}
      BY <1>1 DEF BridgeInv, QueueFits
    <3>3. quit.run = runs /\ quit.what = "quit" /\ runs' = runs /\ thread' = "ended"  BY <1>1
    <3> HIDE DEF quit
    <3> QED  BY <3>1, <3>2, <3>3, <2>2 DEF QueueFits
  <2>5. EndOwed'
    BY <1>1, <1>3, <1>5, <2>2 DEF BridgeInv, EndOwed
  <2> QED
    BY <2>3, <2>4, <2>5 DEF BridgeInv
<1>6. ASSUME NEW x \in Ends, x = "cancelled" => event,
             queue' = (queue \o <<end(x)>>) \o <<quit>> \/ queue' = queue \o <<end(x), quit>>
      PROVE  BridgeInv'
  <2> DEFINE e == end(x)
  <2>1. e \in Message
    BY <1>2
  <2> HIDE DEF quit, e
  <2>2. queue' = (queue \o <<e>>) \o <<quit>> \/ queue' = queue \o <<e, quit>>
    BY <1>6 DEF e
  <2>3. Append(queue, e) \in Seq(Message) /\ Append(Append(queue, e), quit) \in Seq(Message)
    BY <1>2, <1>3, <2>1, AppendProperties
  <2>4. queue' = Append(Append(queue, e), quit)
    <3>1. CASE queue' = (queue \o <<e>>) \o <<quit>>
      BY <1>2, <1>3, <2>1, <2>3, <3>1, AppendIsConcat
    <3>2. CASE queue' = queue \o <<e, quit>>
      <4>1. <<e>> \in Seq(Message) /\ <<quit>> \in Seq(Message)
        BY <1>2, <2>1
      <4>3. <<e>> \o <<quit>> = <<e, quit>>
        <5>1. /\ <<e>> \o <<quit>> \in Seq(Message) /\ Len(<<e>> \o <<quit>>) = 2
              /\ (<<e>> \o <<quit>>)[1] = e /\ (<<e>> \o <<quit>>)[2] = quit
          BY <4>1, ConcatProperties
        <5>2. /\ <<e, quit>> \in Seq(Message) /\ Len(<<e, quit>>) = 2
              /\ <<e, quit>>[1] = e /\ <<e, quit>>[2] = quit
          BY <1>2, <2>1
        <5>3. \A i \in 1 .. 2 : (<<e>> \o <<quit>>)[i] = <<e, quit>>[i]
          BY <5>1, <5>2
        <5> QED
          BY <5>1, <5>2, <5>3, SeqEqual
      <4>2. queue \o <<e, quit>> = (queue \o <<e>>) \o <<quit>>
        BY <1>3, <4>1, <4>3, ConcatAssociative
      <4> QED
        BY <1>2, <1>3, <2>1, <2>3, <3>2, <4>2, AppendIsConcat
    <3> QED
      BY <2>2, <3>1, <3>2
  <2>5. /\ Len(Append(queue, e)) = Len(queue) + 1
        /\ Append(queue, e)[Len(queue) + 1] = e
        /\ \A i \in 1 .. Len(queue) : Append(queue, e)[i] = queue[i]
    BY <1>3, <2>1, AppendProperties
  <2>6. /\ queue' \in Seq(Message) /\ queue' # <<>> /\ Len(queue') = Len(queue) + 2
        /\ queue'[Len(queue) + 2] = quit /\ queue'[Len(queue) + 1] = e
        /\ \A i \in 1 .. Len(queue) : queue'[i] = queue[i]
    BY <1>2, <1>3, <2>3, <2>4, <2>5, AppendProperties
  <2> USE DEF quit, e
  <2>7. BridgeTypes' /\ LogFits'
    BY <1>1, <2>6 DEF BridgeInv, BridgeTypes, LogFits
  <2>8. QueueFits'
    <3>1. \A i \in 1 .. Len(queue') : \/ (i \in 1 .. Len(queue) /\ queue'[i] = queue[i])
                                       \/ (i # Len(queue') /\ queue'[i] = e)
                                       \/ (i = Len(queue') /\ queue'[i] = quit)
      BY <1>3, <2>6
    <3>2. \A i \in 1 .. Len(queue) : queue[i].run = runs /\ queue[i].what \notin {"quit", "gone"}
      BY <1>1 DEF BridgeInv, QueueFits
    <3>3. quit.run = runs /\ quit.what = "quit" /\ runs' = runs /\ thread' = "ended"  BY <1>1
    <3>4. e.run = runs /\ e.what \notin {"quit", "gone"}  BY DEF Ends
    <3>5. queue'[Len(queue')] = quit  BY <2>6
    <3> HIDE DEF quit, e
    <3> QED  BY <3>1, <3>2, <3>3, <3>4, <3>5, <2>6 DEF QueueFits
  <2>9. EndOwed'
    <3>1. e.what \in Ends /\ (e.what = "cancelled" => event)
      BY <1>6
    <3>2. Len(queue) + 1 \in 1 .. Len(queue')
      BY <1>3, <2>6
    <3>3. ~event => queue'[Len(queue) + 1].what \in {"succeeded", "failed"}
      BY <2>6, <3>1 DEF Ends
    <3>4. said' /\ ~event' => \E i \in 1 .. Len(queue') : queue'[i].what \in {"succeeded", "failed"}
      BY <1>1, <3>2, <3>3
    <3>5. \A i \in 1 .. Len(queue') : queue'[i].what = "cancelled" => event'
      <4> SUFFICES ASSUME NEW i \in 1 .. Len(queue'), queue'[i].what = "cancelled" PROVE event
        BY <1>1
      <4>1. i \in 1 .. Len(queue) \/ i = Len(queue) + 1 \/ i = Len(queue) + 2
        BY <1>3, <2>6
      <4> QED
        BY <2>6, <3>1, <4>1 DEF BridgeInv, EndOwed
    <3> QED
      BY <1>1, <3>4, <3>5 DEF BridgeInv, EndOwed
  <2> QED
    BY <2>7, <2>8, <2>9 DEF BridgeInv
<1>7. CASE ~said /\ queue' = queue \o <<end("failed"), quit>>
  <2>1. "failed" \in Ends /\ "failed" # "cancelled"
    BY DEF Ends
  <2> QED
    BY <1>6, <1>7, <2>1
<1> QED
  BY <1>4, <1>5, <1>6, <1>7

\* The thread is gone when all it reported was delivered.
LEMMA ExitKeeps == ASSUME BridgeInv, Exit PROVE BridgeInv'
<1>1. Post("gone") /\ UNCHANGED <<event, said, runs, terminal, held, log>> /\ thread = "quitting" /\ thread' = "gone"
  BY DEF Exit
<1>2. "gone" \in Signal
  BY DEF Signal
<1>3. /\ queue' \in Seq(Message) /\ Len(queue') = Len(queue) + 1
      /\ queue'[Len(queue')] = [run |-> runs, what |-> "gone"]
  BY <1>1, <1>2, Posted DEF BridgeInv
<1>4. queue = <<>> /\ Len(queue) = 0
  BY <1>1, EmptySeq DEF BridgeInv, QueueFits
<1>5. BridgeTypes' /\ LogFits'
  BY <1>1, <1>3 DEF BridgeInv, BridgeTypes, LogFits
<1>6. QueueFits'
  BY <1>1, <1>3, <1>4 DEF BridgeInv, QueueFits
<1>7. EndOwed'
  BY <1>1, <1>3, <1>4 DEF BridgeInv, EndOwed
<1> QED
  BY <1>5, <1>6, <1>7 DEF BridgeInv

-----------------------------------------------------------------------------
\* Taking any signal but the last two leaves the rest of the queue in order.
LEMMA TakenFits ==
  ASSUME BridgeInv, queue # <<>>, TakeHead, queue[1].what \notin {"quit", "gone"}, UNCHANGED <<thread, runs>>
  PROVE  QueueFits'
<1>1. /\ queue' \in Seq(Message) /\ Len(queue') = Len(queue) - 1
      /\ \A i \in 1 .. Len(queue') : queue'[i] = queue[i + 1]
      /\ Len(queue) \in Nat \ {0}
  BY Taken DEF BridgeInv
<1>2. \A i \in 1 .. Len(queue') : i + 1 \in 1 .. Len(queue)
  BY <1>1
<1>3. thread \notin {"none", "quitting", "gone"}
  BY DEF BridgeInv, QueueFits
<1>4. thread = "ended" => Len(queue') # 0 /\ queue'[Len(queue')].what = "quit"
  BY <1>1 DEF BridgeInv, QueueFits
<1>5. queue' = <<>> => Len(queue') = 0
  BY EmptySeq
<1>6. \A i \in 1 .. Len(queue') :
        /\ queue'[i].run = runs
        /\ queue'[i].what = "quit" => thread = "ended" /\ i = Len(queue')
        /\ queue'[i].what = "gone" => thread = "gone"
  <2> SUFFICES ASSUME NEW i \in 1 .. Len(queue')
               PROVE  /\ queue'[i].run = runs
                      /\ queue'[i].what = "quit" => thread = "ended" /\ i = Len(queue')
                      /\ queue'[i].what = "gone" => thread = "gone"
    OBVIOUS
  <2>1. queue'[i] = queue[i + 1] /\ i + 1 \in 1 .. Len(queue)  BY <1>1, <1>2
  <2>2. /\ queue[i + 1].run = runs
        /\ queue[i + 1].what = "quit" => thread = "ended" /\ i + 1 = Len(queue)
        /\ queue[i + 1].what = "gone" => thread = "gone"
    BY <2>1 DEF BridgeInv, QueueFits
  <2>3. i + 1 = Len(queue) => i = Len(queue')  BY <1>1
  <2> QED  BY <2>1, <2>2, <2>3, Zenon
<1> QED
  BY <1>3, <1>4, <1>5, <1>6 DEF QueueFits

\* Progress is shown while the run goes on for the window.
LEMMA DeliverProgressKeeps == ASSUME BridgeInv, DeliverProgress PROVE BridgeInv'
<1>1. /\ queue # <<>> /\ TakeHead /\ Head(queue).what \in Progress
      /\ UNCHANGED <<thread, event, said, runs, terminal>>
  BY DEF DeliverProgress, HeadIs
<1>2. /\ queue' \in Seq(Message) /\ Len(queue') = Len(queue) - 1
      /\ \A i \in 1 .. Len(queue') : queue'[i] = queue[i + 1]
      /\ Head(queue) = queue[1] /\ Len(queue) \in Nat \ {0}
  BY <1>1, Taken DEF BridgeInv
<1>3. queue[1].what \in Progress /\ queue[1].what \notin Ends \union {"quit", "gone"}
  BY <1>1, <1>2, ProgressAssumption
<1>4. QueueFits'
  BY <1>1, <1>3, TakenFits
<1>5. EndOwed'
  <2>1. \A i \in 1 .. Len(queue') : i + 1 \in 1 .. Len(queue)
    BY <1>2
  <2>2. \A i \in 1 .. Len(queue) : queue[i].what \in {"succeeded", "failed"}
          => i - 1 \in 1 .. Len(queue') /\ queue'[i - 1] = queue[i]
    BY <1>2, <1>3 DEF Ends
  <2> QED
    BY <1>1, <1>2, <2>1, <2>2 DEF BridgeInv, EndOwed
<1>6. held' \in Progress \union {Nothing} /\ log' \in Seq(Progress \union Ends) /\ LogFits'
  <2>1. CASE UNCHANGED <<held, log>>
    BY <1>1, <2>1 DEF BridgeInv, BridgeTypes, LogFits
  <2>2. CASE held' = Head(queue).what /\ UNCHANGED log
    BY <1>1, <2>2 DEF BridgeInv, BridgeTypes, LogFits
  <2>3. CASE Visible /\ held' = Nothing /\ log' = Show(Head(queue).what)
    BY <1>1, <2>3, ShownFits DEF BridgeInv, LogFits, Visible
  <2> QED
    BY <2>1, <2>2, <2>3 DEF DeliverProgress
<1> QED
  BY <1>1, <1>2, <1>4, <1>5, <1>6 DEF BridgeInv, BridgeTypes

\* So it is when the throttle lets it through.
LEMMA FlushKeeps == ASSUME BridgeInv, Flush PROVE BridgeInv'
<1>1. /\ UNCHANGED <<thread, event, said, queue, runs, terminal>>
      /\ held' = Nothing /\ held \in Progress
      /\ log' = IF Visible THEN Show(held) ELSE log
  BY DEF Flush, BridgeInv, BridgeTypes
<1>2. log' \in Seq(Progress \union Ends) /\ LogFits'
  <2>1. CASE Visible
    BY <1>1, <2>1, ShownFits DEF BridgeInv, LogFits, Visible
  <2>2. CASE ~Visible
    BY <1>1, <2>2 DEF BridgeInv, LogFits, BridgeTypes
  <2> QED
    BY <2>1, <2>2
<1> QED
  BY <1>1, <1>2 DEF BridgeInv, BridgeTypes, QueueFits, EndOwed

\* An end that is delivered is shown, unless a cancel came first.
LEMMA DeliverEndKeeps == ASSUME BridgeInv, DeliverEnd PROVE BridgeInv'
<1>1. /\ queue # <<>> /\ TakeHead /\ Head(queue).what \in Ends
      /\ UNCHANGED <<thread, event, said, runs>>
  BY DEF DeliverEnd, HeadIs
<1>2. /\ queue' \in Seq(Message) /\ Len(queue') = Len(queue) - 1
      /\ \A i \in 1 .. Len(queue') : queue'[i] = queue[i + 1]
      /\ Head(queue) = queue[1] /\ Len(queue) \in Nat \ {0}
  BY <1>1, Taken DEF BridgeInv
<1>3. QueueFits'
  BY <1>1, <1>2, TakenFits DEF Ends
<1>4. 1 \in 1 .. Len(queue) /\ \A i \in 1 .. Len(queue') : i + 1 \in 1 .. Len(queue)
  BY <1>2
<1>5. CASE event \/ Head(queue).what = "cancelled"
  <2>1. event
    BY <1>2, <1>4, <1>5 DEF BridgeInv, EndOwed
  <2>2. UNCHANGED <<held, log, terminal>>
    BY <1>5 DEF DeliverEnd
  <2>3. EndOwed'
    BY <1>1, <1>2, <1>4, <2>1, <2>2 DEF BridgeInv, EndOwed
  <2> QED
    BY <1>1, <1>2, <1>3, <2>2, <2>3 DEF BridgeInv, BridgeTypes, LogFits
<1>6. CASE ~(event \/ Head(queue).what = "cancelled")
  <2>1. End(Head(queue).what)
    BY <1>6 DEF DeliverEnd
  <2>2. held' \in Progress \union {Nothing} /\ terminal' = TRUE /\ log' \in Seq(Progress \union Ends) /\ LogFits'
    BY <1>1, <2>1, EndFits DEF BridgeInv
  <2>3. EndOwed'
    BY <1>1, <1>2, <1>4, <2>2 DEF BridgeInv, EndOwed
  <2> QED
    BY <1>1, <1>2, <1>3, <2>2, <2>3 DEF BridgeInv, BridgeTypes
<1> QED
  BY <1>5, <1>6

\* The order to quit is the last signal before the thread goes.
LEMMA DeliverQuitKeeps == ASSUME BridgeInv, DeliverQuit PROVE BridgeInv'
<1>1. /\ queue # <<>> /\ TakeHead /\ Head(queue).what = "quit" /\ thread' = "quitting"
      /\ UNCHANGED <<event, said, runs, terminal, held, log>>
  BY DEF DeliverQuit, HeadIs
<1>2. /\ queue' \in Seq(Message) /\ Len(queue') = Len(queue) - 1
      /\ Head(queue) = queue[1] /\ Len(queue) \in Nat \ {0}
  BY <1>1, Taken DEF BridgeInv
<1>3. thread = "ended" /\ Len(queue) = 1
  BY <1>1, <1>2 DEF BridgeInv, QueueFits
<1>4. queue' = <<>> /\ Len(queue') = 0
  BY <1>2, <1>3, EmptySeq
<1>5. queue[1].what = "quit" /\ 1 .. Len(queue) = {1}
  BY <1>1, <1>2, <1>3
<1>6. said /\ (said /\ ~event => terminal)
  BY <1>3, <1>5 DEF BridgeInv, EndOwed
<1>7. QueueFits'
  BY <1>1, <1>4 DEF BridgeInv, QueueFits
<1>8. EndOwed'
  BY <1>1, <1>4, <1>6, <1>3 DEF BridgeInv, EndOwed
<1> QED
  BY <1>1, <1>2, <1>7, <1>8 DEF BridgeInv, BridgeTypes, LogFits

\* When it is gone, a cancel nobody has shown is shown.
LEMMA DeliverGoneKeeps == ASSUME BridgeInv, DeliverGone PROVE BridgeInv'
<1>1. /\ queue # <<>> /\ TakeHead /\ Head(queue).what = "gone" /\ thread' = "none"
      /\ UNCHANGED <<event, said, runs>>
  BY DEF DeliverGone, HeadIs
<1>2. /\ queue' \in Seq(Message) /\ Len(queue') = Len(queue) - 1
      /\ Head(queue) = queue[1] /\ Len(queue) \in Nat \ {0}
  BY <1>1, Taken DEF BridgeInv
<1>3. thread = "gone" /\ Len(queue) = 1
  BY <1>1, <1>2 DEF BridgeInv, QueueFits
<1>4. queue' = <<>> /\ Len(queue') = 0
  BY <1>2, <1>3, EmptySeq
<1>5. queue[1].what = "gone" /\ 1 .. Len(queue) = {1}
  BY <1>1, <1>2, <1>3
<1>6. ~event => terminal
  BY <1>3, <1>5 DEF BridgeInv, EndOwed
<1>7. held' \in Progress \union {Nothing} /\ terminal' = TRUE /\ log' \in Seq(Progress \union Ends) /\ LogFits'
  <2>1. CASE event
    BY <2>1, EndFits DEF DeliverGone, BridgeInv, Ends
  <2>2. CASE ~event
    BY <1>6, <2>2 DEF DeliverGone, BridgeInv, BridgeTypes, LogFits
  <2> QED
    BY <2>1, <2>2
<1>8. QueueFits'
  BY <1>1, <1>4 DEF BridgeInv, QueueFits
<1>9. EndOwed'
  BY <1>1, <1>4, <1>7 DEF BridgeInv, EndOwed
<1> QED
  BY <1>1, <1>2, <1>7, <1>8, <1>9 DEF BridgeInv, BridgeTypes

\* A refused cancel is shown as the end.
LEMMA HookRefusesKeeps == ASSUME BridgeInv, HookRefuses PROVE BridgeInv'
<1>1. End("failed") /\ UNCHANGED <<thread, event, said, queue, runs>> /\ "failed" \in Ends
  BY DEF HookRefuses, Ends
<1>2. held' \in Progress \union {Nothing} /\ terminal' = TRUE /\ log' \in Seq(Progress \union Ends) /\ LogFits'
  BY <1>1, EndFits DEF BridgeInv
<1> QED
  BY <1>1, <1>2 DEF BridgeInv, BridgeTypes, QueueFits, EndOwed

\* Requests to cancel or to close only raise the event.
LEMMA RequestKeeps ==
  ASSUME BridgeInv, UNCHANGED <<thread, said, queue, runs, terminal, held, log>>, event' = event \/ event' = TRUE
  PROVE  BridgeInv'
BY DEF BridgeInv, BridgeTypes, QueueFits, EndOwed, LogFits

\* So every step keeps the invariant.
LEMMA NextKeeps == ASSUME BridgeInv, [BridgeNext]_worker PROVE BridgeInv'
<1>1. CASE UNCHANGED worker
  BY <1>1, RequestKeeps DEF worker
<1>2. CASE Cancel \/ CloseBridge \/ CloseIdle \/ HookAccepts
  BY <1>2, RequestKeeps DEF Cancel, CloseBridge, CloseIdle, HookAccepts, Cancelled
<1> QED
  BY <1>1, <1>2, StartKeeps, ReportKeeps, MutableKeeps, ReturnedKeeps, ExitKeeps, DeliverProgressKeeps, FlushKeeps,
     DeliverEndKeeps, DeliverQuitKeeps, DeliverGoneKeeps, HookRefusesKeeps
  DEF BridgeNext, Window, Deliver

-----------------------------------------------------------------------------
\* The queue, the log and the end that is owed fit together at any time.
THEOREM BridgeHolds == BridgeSpec => []BridgeInv
<1> QED
  BY InitBridge, NextKeeps, PTL DEF BridgeSpec

\* Whenever a cancel comes, whatever it meets in the queue and however the operation
\* ends: the window is shown one end of each run, last and before the thread is gone, and
\* nothing of an earlier run.
THEOREM OneEnd == BridgeSpec => []EndShownOnce
<1>1. BridgeInv => EndShownOnce
  BY LenProperties DEF BridgeInv, BridgeTypes, QueueFits, EndOwed, LogFits, EndShownOnce
<1> QED
  BY <1>1, BridgeHolds, PTL

-----------------------------------------------------------------------------
(***************************************************************************)
(* The files                                                               *)
(***************************************************************************)
\* What the variables hold.
FileVersions == UNION {Versions[p] : p \in Paths}

ListedInput == [path : Paths, digest : FileVersions, page : Nat, source : Nat]

PreparedPage ==
  [id : {StableWorkItemId(input, ordinal, duplicate) : input \in ListedInput, ordinal \in Nat, duplicate \in Nat},
   label : {SourceLabel(p, duplicate) : p \in Paths, duplicate \in Nat},
   path : Paths, source : Nat, bytes : FileVersions \X Nat, read : Nat]

Copies == Seq(FileVersions \union {Absent})

ScanRecords ==
  [stage : {"idle", "listing", "rendering", "ready", "keeping", "kept", "refused"}, at : Nat,
   pending : Seq(Paths \X Nat), inputs : Seq(ListedInput), pages : Seq(PreparedPage),
   counted : Nat, since : Nat, failed : SUBSET Nat, originals : Copies, reviews : Copies]

FilesType ==
  /\ disk = [p \in Paths |-> disk[p]]
  /\ \A p \in Paths : disk[p] \in Versions[p] \union {Absent}
  /\ stamp \in [Paths -> Nat] /\ writes \in Nat
  /\ selection \in Seq(Paths \union FileFolders)
  /\ scan \in ScanRecords

\* A scan that is under way or kept.
Busy == scan.stage \in {"listing", "rendering", "ready", "keeping", "kept"}

\* The inputs of the i-th source.
ListedOf(inputs, i) == {k \in DOMAIN inputs : inputs[k].source = i}

\* What a source that is done left in the list.
WholeListed(source, inputs, i) ==
  source \notin FileFolders =>
    /\ Kind[source] \in {"pdf", "image"}
    /\ Kind[source] = "pdf" =>
         \E v \in Versions[source], skipped \in 0 .. Len(inputs) :
           /\ ListedOf(inputs, i) = skipped + 1 .. skipped + PagesOf[v]
           /\ \A n \in 1 .. PagesOf[v] : inputs[skipped + n].digest = v /\ inputs[skipped + n].page = n
    /\ Kind[source] = "image" =>
         \E k \in DOMAIN inputs : ListedOf(inputs, i) = {k} /\ inputs[k].path = source

\* Of a folder, whatever is listed is in order, and so is what waits behind it.
FolderInOrder(source, inputs, i) ==
  source \in FileFolders =>
    /\ \A k \in ListedOf(inputs, i) : inputs[k].path \in Inside[source]
    /\ \A a, b \in ListedOf(inputs, i) : a < b => Place[inputs[a].path] < Place[inputs[b].path]

PendingInOrder(source, inputs, pending, i) ==
  /\ source \in FileFolders =>
       /\ \A j \in DOMAIN pending :
            /\ pending[j][1] \in Inside[source]
            /\ \A k \in ListedOf(inputs, i) : Place[inputs[k].path] < Place[pending[j][1]]
       /\ \A j, l \in DOMAIN pending : j < l => Place[pending[j][1]] < Place[pending[l][1]]
  /\ source \notin FileFolders =>
       /\ Kind[source] = "image" /\ Len(pending) = 1
       /\ pending[1][1] = source /\ ListedOf(inputs, i) = {}

\* The inputs of a source stand together, in the order the sources were chosen.
SourcesInOrder(inputs) == \A a, b \in DOMAIN inputs : a < b => inputs[a].source <= inputs[b].source

\* The list so far: what is done is there whole, what waits is of the source looked at.
Listing ==
  /\ scan.at \in 1 .. Len(selection) + 1
  /\ scan.stage # "listing" => scan.at = Len(selection) + 1 /\ scan.pending = <<>>
  /\ \A k \in DOMAIN scan.inputs :
       scan.inputs[k].source \in 1 .. scan.at /\ (scan.pending = <<>> => scan.inputs[k].source < scan.at)
  /\ SourcesInOrder(scan.inputs)
  /\ \A i \in 1 .. scan.at - 1 : WholeListed(selection[i], scan.inputs, i)
  /\ \A i \in 1 .. Len(selection) : FolderInOrder(selection[i], scan.inputs, i)
  /\ scan.pending # <<>> =>
       /\ scan.at <= Len(selection)
       /\ PendingInOrder(selection[scan.at], scan.inputs, scan.pending, scan.at)

\* What a page made of an input shows.
PageOf(input) == <<input.digest, input.page>>

\* The pages are those of the first inputs, one by one.
Prepared(pages, inputs) ==
  \A a \in DOMAIN pages :
    LET ref == BuildPageRef(inputs, a - 1) IN
    /\ a \in DOMAIN inputs
    /\ pages[a].id = ref.id /\ pages[a].label = ref.label
    /\ pages[a].path = inputs[a].path /\ pages[a].source = inputs[a].source
    /\ pages[a].bytes = PageOf(inputs[a])

\* One page after the other, until there is one of each input.
Rendering ==
  /\ Prepared(scan.pages, scan.inputs)
  /\ scan.stage = "listing" => scan.pages = <<>>
  /\ scan.stage = "rendering" => Len(scan.pages) < Len(scan.inputs)
  /\ Ready => Len(scan.pages) = Len(scan.inputs)

\* While nothing was written the list is what the user was asked about and what the
\* form was looked for on.
ListedNow(loaders, skipped, count, inputs, i) ==
  /\ ListedOf(inputs, i) = skipped + 1 .. skipped + count
  /\ Len(loaders) = count
  /\ \A n \in 1 .. count : PageOf(inputs[skipped + n]) = loaders[n]

Pictures(source) == IF source \in FileFolders THEN Images(source) ELSE {source}

\* Of a source whose pictures wait, those hashed come first.
PendingNow(loaders, pictures, skipped, inputs, pending, i) ==
  LET done == Len(inputs) - skipped
  IN /\ done \in Nat /\ done + Len(pending) = Cardinality(pictures)
     /\ ListedOf(inputs, i) = skipped + 1 .. skipped + done
     /\ \A n \in 1 .. done : PageOf(inputs[skipped + n]) = loaders[n]
     /\ \A j \in DOMAIN pending : pending[j][1] = Sorted(pictures)[done + j]

\* By the number of the source: its pages, its pictures, and whether all can be read.
Loaders == [i \in DOMAIN selection |-> PageLoaders(selection[i])]
PicturesAt == [i \in DOMAIN selection |-> Pictures(selection[i])]
Readable == {i \in DOMAIN selection : \A p \in Pictures(selection[i]) : CanBeRead(p)}

\* The list against the files, as long as nobody has written since the count.
Unchanged ==
  scan.since = writes =>
    /\ scan.counted = ScanPageCount
    /\ \A i \in 1 .. scan.at - 1 :
         ListedNow(Loaders[i], Before(PageCounts, i), PageCounts[i], scan.inputs, i)
    /\ scan.pending = <<>> => Len(scan.inputs) = Before(PageCounts, scan.at)
    /\ scan.pending # <<>> =>
         /\ scan.at \in Readable
         /\ PendingNow(Loaders[scan.at], PicturesAt[scan.at],
                       Before(PageCounts, scan.at), scan.inputs, scan.pending, scan.at)

\* The pages looked at are of one moment, not after the count.
Sampled ==
  sample # Absent =>
    /\ sample.at \in Nat /\ sample.at <= writes
    /\ sample.at = writes => sample.pages = SamplePages
    /\ Busy => sample.at <= scan.since

\* The open workbook, and what was made of it.
Imported ==
  /\ token # Absent =>
       /\ token = [path |-> token.path, sha |-> token.sha, stamp |-> token.stamp, content |-> token.content,
                   now |-> token.now, linked |-> token.linked, used |-> token.used, written |-> token.written]
       /\ token.used \in BOOLEAN /\ token.written \in BOOLEAN
       /\ token.used /\ ~token.written => token.content = token.sha
  /\ imported # Absent /\ ~imported.written => imported.of = imported.sha

\* What is known of a scan that is under way or kept.
ScanInv == Busy => scan.since <= writes /\ Listing /\ Rendering /\ Unchanged

\* A page shows what its file holds until that is written.
AsRead ==
  \A a \in DOMAIN scan.pages :
    /\ scan.pages[a].read <= writes
    /\ AsItWas(scan.pages[a]) => disk[scan.pages[a].path] = scan.pages[a].bytes[1]

\* The copies so far, one by one.
OriginalsAsRead ==
  \A a \in DOMAIN scan.pages, i \in DOMAIN scan.originals :
    scan.pages[a].path = selection[i] /\ AsItWas(scan.pages[a]) /\ Kind[scan.pages[a].path] = "pdf"
      => scan.originals[i] = scan.pages[a].bytes[1]

\* The i-th source is the first that goes by the name of a page, and the page is of it.
FirstNamed(page, i) ==
  /\ page.path = selection[i] /\ page.path \in Composed
  /\ Namesake(page) \subseteq i .. Len(selection)

ReviewsAsRead ==
  \A a \in DOMAIN scan.reviews, i \in DOMAIN selection :
    a \in scan.failed /\ FirstNamed(scan.pages[a], i) /\ AsItWas(scan.pages[a])
      => scan.reviews[a] = scan.pages[a].bytes[1]

\* How far the keeping is.
KeptSoFar ==
  /\ scan.stage \in {"listing", "rendering", "ready"} => scan.originals = <<>> /\ scan.reviews = <<>>
  /\ scan.stage = "keeping" => Len(scan.originals) <= Len(selection) /\ Len(scan.reviews) < Len(scan.pages)
  /\ scan.stage = "kept" => Len(scan.originals) = Len(selection) /\ Len(scan.reviews) = Len(scan.pages)

KeptInv == Busy => AsRead /\ OriginalsAsRead /\ ReviewsAsRead /\ KeptSoFar

FilesInv == FilesType /\ ScanInv /\ KeptInv /\ Sampled /\ Imported

\* The image of a finite set is finite.
LEMMA ImageFinite ==
  ASSUME NEW S, IsFiniteSet(S), NEW f
  PROVE  IsFiniteSet({f[x] : x \in S})
<1> DEFINE g == [x \in S |-> f[x]]
<1>1. g \in Surjection(S, {f[x] : x \in S})  BY DEF Surjection
<1> QED  BY <1>1, FS_Surjection

\* The slots before a source are finitely many.
LEMMA SlotsFinite ==
  ASSUME NEW n \in Nat, NEW lengths \in [1 .. n -> Nat], NEW i \in 1 .. n + 1
  PROVE  IsFiniteSet(UNION {{j} \X (1 .. lengths[j]) : j \in 1 .. i - 1})
<1> DEFINE f == [j \in 1 .. i - 1 |-> {j} \X (1 .. lengths[j])]
           S == {f[j] : j \in 1 .. i - 1}
<1>1. IsFiniteSet(S)
  <2>1. IsFiniteSet(1 .. i - 1)  BY FS_Interval
  <2> HIDE DEF f
  <2> QED  BY <2>1, ImageFinite
<1>2. ASSUME NEW s \in S PROVE IsFiniteSet(s)
  <2>1. PICK j \in 1 .. i - 1 : s = {j} \X (1 .. lengths[j])  BY DEF S
  <2>2. lengths[j] \in Nat  BY <2>1
  <2>3. IsFiniteSet({j})  BY FS_Singleton
  <2>4. IsFiniteSet(1 .. lengths[j])
    <3> DEFINE m == lengths[j]
    <3>1. m \in Int  BY <2>2
    <3> HIDE DEF m
    <3> QED  BY <3>1, FS_Interval
  <2> QED  BY <2>1, <2>3, <2>4, FS_Product
<1>3. UNION S = UNION {{j} \X (1 .. lengths[j]) : j \in 1 .. i - 1}  BY DEF S
<1> HIDE DEF S
<1> QED  BY <1>1, <1>2, <1>3, FS_UNION

\* What `Before` counts: nothing before the first, and every source adds its own pages.
LEMMA BeforeCounts ==
  ASSUME NEW n \in Nat, NEW lengths \in [1 .. n -> Nat]
  PROVE  /\ Before(lengths, 1) = 0
         /\ \A i \in 1 .. n + 1 : Before(lengths, i) \in Nat
         /\ \A i \in 1 .. n : Before(lengths, i + 1) = Before(lengths, i) + lengths[i]
<1> DEFINE Slots(i) == UNION {{j} \X (1 .. lengths[j]) : j \in 1 .. i - 1}
<1>1. Slots(1) = {}  OBVIOUS
<1>2. ASSUME NEW i \in 1 .. n + 1 PROVE IsFiniteSet(Slots(i))  BY SlotsFinite
<1>3. ASSUME NEW i \in 1 .. n
      PROVE  Cardinality(Slots(i + 1)) = Cardinality(Slots(i)) + lengths[i]
  <2> DEFINE own == {i} \X (1 .. lengths[i])
  <2>1. lengths[i] \in Nat  OBVIOUS
  <2>2. IsFiniteSet(own) /\ Cardinality(own) = lengths[i]
    <3>1. IsFiniteSet({i}) /\ Cardinality({i}) = 1  BY FS_Singleton
    <3>2. IsFiniteSet(1 .. lengths[i]) /\ Cardinality(1 .. lengths[i]) = lengths[i]
      <4>1. ASSUME NEW m \in Nat PROVE IsFiniteSet(1 .. m) /\ Cardinality(1 .. m) = m
        <5>1. /\ IsFiniteSet(1 .. m)
              /\ Cardinality(1 .. m) = IF 1 > m THEN 0 ELSE m - 1 + 1
          BY FS_Interval
        <5>2. (IF 1 > m THEN 0 ELSE m - 1 + 1) = m  OBVIOUS
        <5>3. Cardinality(1 .. m) = m  BY <5>1, <5>2
        <5> QED  BY <5>1, <5>3, Zenon
      <4> QED  BY <2>1, <4>1, Zenon
    <3>3. IsFiniteSet(own) /\ Cardinality(own) = Cardinality({i}) * Cardinality(1 .. lengths[i])
      BY <3>1, <3>2, FS_Product, Zenon
    <3>4. Cardinality(own) = 1 * lengths[i]  BY <3>1, <3>2, <3>3, Zenon
    <3>5. 1 * lengths[i] = lengths[i]
      <4> DEFINE m == lengths[i]
      <4>1. m \in Nat  BY <2>1
      <4> HIDE DEF m
      <4> QED  BY <4>1
    <3> QED  BY <3>3, <3>4, <3>5
  <2>3. Slots(i + 1) = Slots(i) \union own
    <3> DEFINE block(j) == {j} \X (1 .. lengths[j])
    <3>1. 1 .. i + 1 - 1 = (1 .. i - 1) \union {i}  OBVIOUS
    <3>2. Slots(i + 1) = UNION {block(j) : j \in (1 .. i - 1) \union {i}}
      <4>1. \A k : Slots(k) = UNION {block(j) : j \in 1 .. k - 1}  BY Zenon
      <4> HIDE DEF Slots, block
      <4>2. Slots(i + 1) = UNION {block(j) : j \in 1 .. i + 1 - 1}  BY <4>1
      <4> QED  BY <3>1, <4>2, Zenon
    <3>3. Slots(i) = UNION {block(j) : j \in 1 .. i - 1} /\ own = block(i)  BY Zenon
    <3> HIDE DEF Slots, own, block
    <3>4. ASSUME NEW D, NEW d
          PROVE  UNION {block(j) : j \in D \union {d}} = (UNION {block(j) : j \in D}) \union block(d)
      <4>1. {block(j) : j \in D \union {d}} = {block(j) : j \in D} \union {block(d)}  BY Zenon
      <4>2. ASSUME NEW A, NEW e PROVE UNION (A \union {e}) = (UNION A) \union e  BY Zenon
      <4> QED  BY <4>1, <4>2, Zenon
    <3> QED  BY <3>2, <3>3, <3>4, Zenon
  <2>4. Slots(i) \cap own = {}
    <3> SUFFICES ASSUME NEW x \in Slots(i), x \in own PROVE FALSE  OBVIOUS
    <3>1. PICK j \in 1 .. i - 1 : x \in {j} \X (1 .. lengths[j])  OBVIOUS
    <3>2. x[1] = j /\ x[1] = i  BY <3>1
    <3> QED  BY <3>2
  <2>5. IsFiniteSet(Slots(i))
    <3>1. i \in 1 .. n + 1  OBVIOUS
    <3> HIDE DEF Slots
    <3> QED  BY <1>2, <3>1
  <2> HIDE DEF Slots, own
  <2>8. Cardinality(Slots(i)) \in Nat  BY <2>5, FS_CardinalityType
  <2>6. Cardinality(Slots(i) \cap own) = 0  BY <2>4, FS_EmptySet
  <2>7. Cardinality(Slots(i) \union own) = Cardinality(Slots(i)) + Cardinality(own) - Cardinality(Slots(i) \cap own)
    BY <2>2, <2>5, FS_Union
  <2>9. Cardinality(Slots(i) \union own) = Cardinality(Slots(i)) + lengths[i]
    <3> DEFINE x == Cardinality(Slots(i) \union own)
               y == Cardinality(Slots(i))
               z == lengths[i]
    <3>1. x = y + z - 0 /\ y \in Nat /\ z \in Nat  BY <2>1, <2>2, <2>6, <2>7, <2>8
    <3> HIDE DEF x, y, z
    <3>2. x = y + z  BY <3>1
    <3> QED  BY <3>2 DEF x, y, z
  <2> QED  BY <2>3, <2>9
<1>4. ASSUME NEW i \in 1 .. n + 1 PROVE Cardinality(Slots(i)) \in Nat  BY <1>2, FS_CardinalityType
<1>5. Cardinality(Slots(1)) = 0  BY <1>1, FS_EmptySet
<1> HIDE DEF Slots
<1>6. \A i : Before(lengths, i) = Cardinality(Slots(i))  BY DEF Before, Slots
<1> QED  BY <1>3, <1>4, <1>5, <1>6

\* Files of one folder come out once each, in the order of their places.
LEMMA SortedOrders ==
  ASSUME NEW S, S \subseteq Paths, IsFiniteSet(S),
         \A p, q \in S : Place[p] = Place[q] => p = q
  PROVE  /\ Cardinality(S) \in Nat
         /\ Sorted(S) \in [1 .. Cardinality(S) -> S]
         /\ \A a, b \in 1 .. Cardinality(S) : a < b => Place[Sorted(S)[a]] < Place[Sorted(S)[b]]
<1> DEFINE n == Cardinality(S)
           Below(p) == {q \in S : Place[q] < Place[p]}
           rank == [p \in S |-> Cardinality(Below(p)) + 1]
<1>0. \A p \in S : Place[p] \in Nat  BY SourceAssumption
<1>1. n \in Nat  BY FS_CardinalityType
<1>2. ASSUME NEW p \in S
      PROVE  IsFiniteSet(Below(p)) /\ Cardinality(Below(p)) \in 0 .. n - 1
  <2>1. Below(p) \in SUBSET S /\ p \notin Below(p)  BY <1>0
  <2>2. IsFiniteSet(Below(p)) /\ Cardinality(Below(p)) <= n /\ (n = Cardinality(Below(p)) => S = Below(p))
    <3> HIDE DEF Below
    <3> QED  BY <2>1, FS_Subset
  <2>3. Cardinality(Below(p)) \in Nat  BY <2>2, FS_CardinalityType
  <2>4. Cardinality(Below(p)) # n  BY <2>1, <2>2
  <2> HIDE DEF Below, n
  <2> QED  BY <1>1, <2>2, <2>3, <2>4
<1>3. ASSUME NEW p \in S, NEW q \in S, Place[p] < Place[q]
      PROVE  Cardinality(Below(p)) < Cardinality(Below(q))
  <2>1. Below(p) \union {p} \in SUBSET Below(q) /\ p \notin Below(p)  BY <1>0, <1>3
  <2> HIDE DEF Below
  <2>2. Cardinality(Below(p) \union {p}) = Cardinality(Below(p)) + 1  BY <1>2, <2>1, FS_AddElement
  <2>3. Cardinality(Below(p) \union {p}) <= Cardinality(Below(q))  BY <1>2, <2>1, FS_Subset
  <2> HIDE DEF n
  <2> QED  BY <2>2, <2>3, <1>1, <1>2
<1>4. ASSUME NEW p \in S, NEW q \in S, rank[p] = rank[q] PROVE p = q
  <2>1. Cardinality(Below(p)) = Cardinality(Below(q))
    <3> HIDE DEF Below, n
    <3> QED  BY <1>4, <1>2, <1>1
  <2>2. ~(Place[p] < Place[q]) /\ ~(Place[q] < Place[p])
    <3> HIDE DEF Below, n
    <3> QED  BY <2>1, <1>2, <1>3, <1>1
  <2> QED  BY <2>2, <1>0
<1>5. rank \in Injection(S, 1 .. n)
  <2>1. rank \in [S -> 1 .. n]
    <3> HIDE DEF Below, n
    <3> QED  BY <1>1, <1>2
  <2>2. \A p, q \in S : rank[p] = rank[q] => p = q  BY <1>4
  <2> HIDE DEF rank
  <2> QED  BY <2>1, <2>2, Fun_IsInj
<1>6. rank \in Surjection(S, 1 .. n)
  <2>1. IsFiniteSet(1 .. n) /\ Cardinality(1 .. n) = n  BY <1>1, FS_Interval
  <2> HIDE DEF rank
  <2> QED  BY <2>1, <1>5, FS_Injection
<1>7. ASSUME NEW k \in 1 .. n
      PROVE  Sorted(S)[k] \in S /\ Cardinality(Below(Sorted(S)[k])) = k - 1
  <2>1. \E p \in S : rank[p] = k  BY <1>6 DEF Surjection
  <2>2. \E p \in S : Cardinality(Below(p)) = k - 1
    <3>1. PICK p \in S : rank[p] = k  BY <2>1
    <3>2. Cardinality(Below(p)) + 1 = k  BY <3>1
    <3> HIDE DEF Below, n, rank
    <3> QED  BY <3>2, <1>1, <1>2
  <2>3. Sorted(S)[k] = CHOOSE p \in S : Cardinality(Below(p)) = k - 1  BY DEF Sorted
  <2> HIDE DEF Below, n
  <2> QED  BY <2>2, <2>3
<1>8. Sorted(S) \in [1 .. n -> S]
  <2>1. Sorted(S) = [k \in 1 .. n |-> CHOOSE p \in S : Cardinality(Below(p)) = k - 1]  BY DEF Sorted
  <2>2. Sorted(S) = [k \in 1 .. n |-> Sorted(S)[k]]  BY <2>1
  <2> HIDE DEF n
  <2> QED  BY <2>2, <1>7
<1>9. ASSUME NEW a \in 1 .. n, NEW b \in 1 .. n, a < b
      PROVE  Place[Sorted(S)[a]] < Place[Sorted(S)[b]]
  <2> DEFINE p == Sorted(S)[a]
             q == Sorted(S)[b]
  <2>1. p \in S /\ q \in S /\ Cardinality(Below(p)) = a - 1 /\ Cardinality(Below(q)) = b - 1  BY <1>7
  <2>2. ~(Place[q] < Place[p]) /\ Place[q] # Place[p]
    <3> HIDE DEF p, q, Below, n
    <3> QED  BY <2>1, <1>1, <1>3, <1>9
  <2>3. Place[p] \in Nat /\ Place[q] \in Nat  BY <1>0, <2>1
  <2> QED  BY <2>2, <2>3
<1> QED  BY <1>1, <1>8, <1>9

First(inputs, p) == CHOOSE i \in DOMAIN inputs : inputs[i].path = p /\ \A j \in 1 .. i - 1 : inputs[j].path # p

Namesakes(inputs, p) ==
  {inputs[j].path : j \in {k \in 1 .. First(inputs, p) : Name[inputs[k].path] = Name[p]}}

\* A listed file has a first input.
LEMMA FirstListed ==
  ASSUME NEW inputs \in Seq(ListedInput), NEW a \in DOMAIN inputs
  PROVE  LET first == First(inputs, inputs[a].path) IN
         /\ first \in DOMAIN inputs /\ inputs[first].path = inputs[a].path
         /\ \A j \in 1 .. first - 1 : inputs[j].path # inputs[a].path
<1> DEFINE p == inputs[a].path
           T == {i \in DOMAIN inputs : inputs[i].path = p}
<1>1. T \subseteq Nat /\ a \in T /\ DOMAIN inputs = 1 .. Len(inputs) /\ Len(inputs) \in Nat  OBVIOUS
<1>2. PICK m \in T : \A y \in T : ~(<<y, m>> \in OpToRel(<, Nat))
  BY <1>1, NatLessThanWellFounded, WFMin
<1>3. \A y \in T : ~(y < m)  BY <1>1, <1>2 DEF OpToRel
<1>4. m \in DOMAIN inputs /\ inputs[m].path = p /\ \A j \in 1 .. m - 1 : inputs[j].path # p
  BY <1>1, <1>3
<1> QED  BY <1>4 DEF First

\* Files that are numbered before a file are finitely many.
LEMMA NamesakesFinite ==
  ASSUME NEW inputs \in Seq(ListedInput), NEW a \in DOMAIN inputs
  PROVE  IsFiniteSet(Namesakes(inputs, inputs[a].path))
<1> DEFINE p == inputs[a].path
           first == First(inputs, p)
           S == {k \in 1 .. first : Name[inputs[k].path] = Name[p]}
           f == [j \in S |-> inputs[j].path]
<1>1. first \in Nat  BY FirstListed
<1>2. IsFiniteSet(1 .. first) /\ S \in SUBSET (1 .. first)
  <2> HIDE DEF first
  <2>1. IsFiniteSet(1 .. first)  BY <1>1, FS_Interval
  <2> QED  BY <2>1
<1>3. IsFiniteSet(S)
  <2> HIDE DEF S, first
  <2> QED  BY <1>2, FS_Subset
<1>4. {f[x] : x \in S} = Namesakes(inputs, p)  BY DEF Namesakes
<1>5. IsFiniteSet({f[x] : x \in S})
  <2> HIDE DEF S, f
  <2> QED  BY <1>3, ImageFinite
<1> QED  BY <1>4, <1>5

\* so the number of a file among those of its name is one.
LEMMA DuplicateOrdinalNat ==
  ASSUME NEW inputs \in Seq(ListedInput), NEW a \in DOMAIN inputs
  PROVE  DuplicateOrdinal(inputs, inputs[a].path) \in Nat
<1> DEFINE p == inputs[a].path
           N == Namesakes(inputs, p)
<1>1. IsFiniteSet(N \ {p})  BY NamesakesFinite, FS_RemoveElement
<1>2. DuplicateOrdinal(inputs, p) = Cardinality(N \ {p})  BY DEF DuplicateOrdinal, Namesakes, First
<1> HIDE DEF N
<1> QED  BY <1>1, <1>2, FS_CardinalityType

\* Of two files of one name the one that comes first has the lower number.
LEMMA LaterDuplicate ==
  ASSUME NEW inputs \in Seq(ListedInput), NEW a \in DOMAIN inputs, NEW b \in DOMAIN inputs,
         Name[inputs[a].path] = Name[inputs[b].path],
         First(inputs, inputs[a].path) < First(inputs, inputs[b].path)
  PROVE  DuplicateOrdinal(inputs, inputs[a].path) # DuplicateOrdinal(inputs, inputs[b].path)
<1> DEFINE p == inputs[a].path
           q == inputs[b].path
           P == Namesakes(inputs, p) \ {p}
           Q == Namesakes(inputs, q) \ {q}
<1>1. /\ First(inputs, p) \in DOMAIN inputs /\ inputs[First(inputs, p)].path = p
      /\ First(inputs, q) \in DOMAIN inputs /\ inputs[First(inputs, q)].path = q
      /\ \A j \in 1 .. First(inputs, q) - 1 : inputs[j].path # q
  BY FirstListed
<1>2. p # q  BY <1>1
<1>3. P \union {p} \in SUBSET Q /\ p \notin P
  <2>0. DOMAIN inputs = 1 .. Len(inputs) /\ Len(inputs) \in Nat  OBVIOUS
  <2>1. p \in Q
    <3>1. First(inputs, p) \in 1 .. First(inputs, q)  BY <1>1, <2>0
    <3> QED  BY <1>1, <1>2, <3>1 DEF Namesakes
  <2>2. ASSUME NEW x \in P PROVE x \in Q
    <3>1. PICK j \in 1 .. First(inputs, p) : x = inputs[j].path /\ Name[x] = Name[p]  BY DEF Namesakes
    <3>2. j \in 1 .. First(inputs, q) - 1  BY <1>1, <2>0, <3>1
    <3>3. j \in 1 .. First(inputs, q) /\ x # q  BY <1>1, <2>0, <3>1, <3>2
    <3> QED  BY <3>1, <3>3 DEF Namesakes
  <2> QED  BY <2>1, <2>2
<1>4. IsFiniteSet(P) /\ IsFiniteSet(Q)  BY NamesakesFinite, FS_RemoveElement
<1>5. Cardinality(P) \in Nat /\ Cardinality(Q) \in Nat /\ Cardinality(P) < Cardinality(Q)
  <2> HIDE DEF P, Q
  <2>1. Cardinality(P \union {p}) = Cardinality(P) + 1  BY <1>3, <1>4, FS_AddElement
  <2>2. Cardinality(P \union {p}) <= Cardinality(Q)  BY <1>3, <1>4, FS_Subset
  <2>3. Cardinality(P) \in Nat /\ Cardinality(Q) \in Nat  BY <1>4, FS_CardinalityType
  <2> QED  BY <2>1, <2>2, <2>3
<1>6. DuplicateOrdinal(inputs, p) = Cardinality(P) /\ DuplicateOrdinal(inputs, q) = Cardinality(Q)
  BY DEF DuplicateOrdinal, Namesakes, First
<1> HIDE DEF P, Q
<1> QED  BY <1>5, <1>6

\* The label of a file tells it from every other of its name.
LEMMA DuplicatesDiffer ==
  ASSUME NEW inputs \in Seq(ListedInput), NEW a \in DOMAIN inputs, NEW b \in DOMAIN inputs,
         inputs[a].path # inputs[b].path, Name[inputs[a].path] = Name[inputs[b].path]
  PROVE  DuplicateOrdinal(inputs, inputs[a].path) # DuplicateOrdinal(inputs, inputs[b].path)
<1>1. /\ First(inputs, inputs[a].path) \in Nat /\ inputs[First(inputs, inputs[a].path)].path = inputs[a].path
      /\ First(inputs, inputs[b].path) \in Nat /\ inputs[First(inputs, inputs[b].path)].path = inputs[b].path
  BY FirstListed
<1>2. CASE First(inputs, inputs[a].path) < First(inputs, inputs[b].path)  BY <1>2, LaterDuplicate
<1>3. CASE First(inputs, inputs[b].path) < First(inputs, inputs[a].path)
  BY <1>3, LaterDuplicate
<1>4. First(inputs, inputs[a].path) # First(inputs, inputs[b].path)  BY <1>1
<1> QED  BY <1>1, <1>2, <1>3, <1>4

\* What is prepared of an input has the type of a prepared page.
LEMMA PageIsTyped ==
  ASSUME NEW inputs \in Seq(ListedInput), NEW ordinal \in Nat, ordinal + 1 \in DOMAIN inputs, NEW read \in Nat
  PROVE  LET input == inputs[ordinal + 1] ref == BuildPageRef(inputs, ordinal) IN
         [id |-> ref.id, label |-> ref.label, path |-> input.path, source |-> input.source,
          bytes |-> <<input.digest, input.page>>, read |-> read] \in PreparedPage
<1> DEFINE input == inputs[ordinal + 1]
           duplicate == DuplicateOrdinal(inputs, input.path)
<1>1. duplicate \in Nat  BY DuplicateOrdinalNat
<1>2. input \in ListedInput  OBVIOUS
<1>3. BuildPageRef(inputs, ordinal) = [id |-> StableWorkItemId(input, ordinal, duplicate), label |-> SourceLabel(input.path, duplicate)]
  BY DEF BuildPageRef
<1>4. input.path \in Paths /\ input.source \in Nat /\ input.digest \in FileVersions /\ input.page \in Nat
  BY <1>2 DEF ListedInput
<1> HIDE DEF input, duplicate
<1>5. /\ BuildPageRef(inputs, ordinal).id = StableWorkItemId(input, ordinal, duplicate)
      /\ BuildPageRef(inputs, ordinal).label = SourceLabel(input.path, duplicate)
  BY <1>3
<1>6. /\ StableWorkItemId(input, ordinal, duplicate) \in {StableWorkItemId(i, o, d) : i \in ListedInput, o \in Nat, d \in Nat}
      /\ SourceLabel(input.path, duplicate) \in {SourceLabel(p, d) : p \in Paths, d \in Nat}
  BY <1>1, <1>2, <1>4
<1> QED  BY <1>4, <1>5, <1>6 DEF PreparedPage, input

\* What a file on disk holds is one of its versions.
LEMMA VersionHeld ==
  ASSUME FilesType, NEW p \in Paths
  PROVE  /\ disk[p] # Absent => disk[p] \in Versions[p] /\ disk[p] \in FileVersions /\ PagesOf[disk[p]] \in Nat
         /\ stamp[p] \in Nat
  BY SourceAssumption DEF FilesType, FileVersions

\* The pictures of a source, and the order they are taken in.
LEMMA PicturesOrdered ==
  ASSUME FilesType, NEW source \in Paths \union FileFolders
  PROVE  LET pictures == Pictures(source) count == Cardinality(Pictures(source)) IN
         /\ pictures \subseteq Paths /\ IsFiniteSet(pictures) /\ count \in Nat
         /\ source \in FileFolders => pictures \subseteq Inside[source]
         /\ Sorted(pictures) \in [1 .. count -> pictures]
         /\ \A a, b \in 1 .. count : a < b => Place[Sorted(pictures)[a]] < Place[Sorted(pictures)[b]]
         /\ source \notin FileFolders => pictures = {source} /\ count = 1
<1>1. CASE source \in FileFolders
  <2>1. Pictures(source) \in SUBSET Inside[source]  BY <1>1 DEF Pictures, Images
  <2>2. /\ Inside[source] \subseteq Paths /\ IsFiniteSet(Inside[source])
        /\ \A p, q \in Inside[source] : Place[p] = Place[q] => p = q
    <3>1. \A f \in FileFolders : IsFiniteSet(Inside[f])  BY SourceAssumption, Zenon
    <3>2. \A f \in FileFolders : Inside[f] \subseteq Paths  BY SourceAssumption, Zenon
    <3>3. \A f \in FileFolders : \A p, q \in Inside[f] : Place[p] = Place[q] => p = q
      BY SourceAssumption, Zenon
    <3> QED  BY <1>1, <3>1, <3>2, <3>3, Zenon
  <2>3. IsFiniteSet(Pictures(source))  BY <2>1, <2>2, FS_Subset
  <2>4. Pictures(source) \subseteq Paths /\ \A p, q \in Pictures(source) : Place[p] = Place[q] => p = q
    BY <2>1, <2>2
  <2>5. /\ Cardinality(Pictures(source)) \in Nat
        /\ Sorted(Pictures(source)) \in [1 .. Cardinality(Pictures(source)) -> Pictures(source)]
        /\ \A a, b \in 1 .. Cardinality(Pictures(source)) :
             a < b => Place[Sorted(Pictures(source))[a]] < Place[Sorted(Pictures(source))[b]]
    BY <2>3, <2>4, SortedOrders
  <2> QED  BY <1>1, <2>1, <2>3, <2>4, <2>5
<1>2. CASE source \notin FileFolders
  <2>1. Pictures(source) = {source} /\ source \in Paths  BY <1>2 DEF Pictures
  <2>2. IsFiniteSet({source}) /\ Cardinality({source}) = 1  BY FS_Singleton
  <2>4. Pictures(source) \subseteq Paths /\ \A p, q \in Pictures(source) : Place[p] = Place[q] => p = q
    BY <2>1
  <2>5. /\ Sorted(Pictures(source)) \in [1 .. Cardinality(Pictures(source)) -> Pictures(source)]
        /\ \A a, b \in 1 .. Cardinality(Pictures(source)) :
             a < b => Place[Sorted(Pictures(source))[a]] < Place[Sorted(Pictures(source))[b]]
    BY <2>1, <2>2, <2>4, SortedOrders
  <2> QED  BY <1>2, <2>1, <2>2, <2>4, <2>5
<1> QED  BY <1>1, <1>2

\* Pictures that can all be read are the pages that are counted and looked at.
LEMMA PicturesTaken ==
  ASSUME FilesType, NEW source \in Paths \union FileFolders,
         source \in FileFolders \/ Kind[source] = "image",
         \A p \in Pictures(source) : CanBeRead(p)
  PROVE  /\ PagesIn(source) = Cardinality(Pictures(source))
         /\ PageLoaders(source) \in Seq(FileVersions \X Nat)
         /\ Len(PageLoaders(source)) = Cardinality(Pictures(source))
         /\ \A n \in 1 .. Cardinality(Pictures(source)) :
              PageLoaders(source)[n] = <<disk[Sorted(Pictures(source))[n]], 0>>
<1> DEFINE files == Sorted(Pictures(source))
           count == Cardinality(Pictures(source))
<1>1. count \in Nat /\ files \in [1 .. count -> Pictures(source)] /\ Pictures(source) \subseteq Paths
      /\ (source \notin FileFolders => Pictures(source) = {source} /\ count = 1)
  BY PicturesOrdered
<1>2. \A n \in 1 .. count : disk[files[n]] \in FileVersions
  <2>1. \A p \in Pictures(source) : disk[p] \in FileVersions  BY <1>1, VersionHeld DEF CanBeRead
  <2> HIDE DEF files, count
  <2> QED  BY <1>1, <2>1
<1>3. CASE source \in FileFolders
  <2>1. Pictures(source) = Images(source)  BY <1>3 DEF Pictures
  <2>2. {p \in Images(source) : CanBeRead(p)} = Pictures(source)  BY <2>1
  <2>3. PageLoaders(source) = [i \in DOMAIN files |-> <<disk[files[i]], 0>>]
    BY <1>3, <2>2 DEF PageLoaders
  <2>4. PagesIn(source) = count  BY <1>3, <2>1 DEF PagesIn
  <2> HIDE DEF files, count
  <2>5. PageLoaders(source) = [i \in 1 .. count |-> <<disk[files[i]], 0>>]  BY <1>1, <2>3
  <2>6. PageLoaders(source) \in Seq(FileVersions \X Nat) /\ Len(PageLoaders(source)) = count
    BY <1>1, <1>2, <2>5
  <2> QED  BY <2>4, <2>5, <2>6 DEF files, count
<1>4. CASE source \notin FileFolders
  <2>1. Kind[source] = "image" /\ CanBeRead(source) /\ count = 1 /\ files[1] = source
    <3>1. Kind[source] = "image" /\ CanBeRead(source) /\ count = 1  BY <1>1, <1>4
    <3>2. files[1] \in {source}
      <4> HIDE DEF files, count
      <4> QED  BY <1>1, <1>4, <3>1
    <3> QED  BY <3>1, <3>2
  <2>2. PageLoaders(source) = <<<<disk[source], 0>>>>  BY <1>4, <2>1 DEF PageLoaders
  <2>3. PagesIn(source) = 1  BY <1>4, <2>1 DEF PagesIn
  <2>4. disk[source] \in FileVersions
    <3> HIDE DEF files, count
    <3> QED  BY <1>2, <2>1
  <2> HIDE DEF files, count
  <2> QED  BY <2>1, <2>2, <2>3, <2>4 DEF files, count
<1> QED  BY <1>3, <1>4

\* The sources chosen have so many pages each.
LEMMA CountsTyped ==
  ASSUME FilesType
  PROVE  /\ Len(selection) \in Nat /\ DOMAIN selection = 1 .. Len(selection)
         /\ \A i \in 1 .. Len(selection) : selection[i] \in Paths \union FileFolders
         /\ PageCounts \in [1 .. Len(selection) -> Nat]
         /\ \A i \in 1 .. Len(selection) : PageCounts[i] = PagesIn(selection[i])
<1>1. /\ Len(selection) \in Nat /\ DOMAIN selection = 1 .. Len(selection)
      /\ \A i \in 1 .. Len(selection) : selection[i] \in Paths \union FileFolders
  BY DEF FilesType
<1>2. ASSUME NEW source \in Paths \union FileFolders PROVE PagesIn(source) \in Nat
  <2>1. CASE source \in FileFolders
    <3>1. Cardinality(Pictures(source)) \in Nat  BY PicturesOrdered
    <3> QED  BY <2>1, <3>1 DEF PagesIn, Pictures
  <2>2. CASE source \notin FileFolders
    <3>1. source \in Paths /\ Kind[source] \in {"pdf", "image", "other"}  BY <2>2, SourceAssumption
    <3> QED  BY <2>2, <3>1, VersionHeld DEF PagesIn
  <2> QED  BY <2>1, <2>2
<1>3. PageCounts = [i \in 1 .. Len(selection) |-> PagesIn(selection[i])]  BY <1>1 DEF PageCounts
<1>4. \A i \in 1 .. Len(selection) : PagesIn(selection[i]) \in Nat  BY <1>1, <1>2
<1> QED  BY <1>1, <1>3, <1>4

\* The pages before a source are those before the last one and its own.
LEMMA CountsGrow ==
  ASSUME FilesType
  PROVE  /\ Before(PageCounts, 1) = 0
         /\ \A i \in 1 .. Len(selection) + 1 : Before(PageCounts, i) \in Nat
         /\ \A i \in 1 .. Len(selection) : Before(PageCounts, i + 1) = Before(PageCounts, i) + PageCounts[i]
  BY CountsTyped, BeforeCounts

\* A list that grew by inputs of its last source.
Grown(longer, inputs, more, i) ==
  /\ longer \in Seq(ListedInput) /\ Len(longer) = Len(inputs) + Len(more)
  /\ \A k \in DOMAIN inputs : longer[k] = inputs[k] /\ inputs[k].source <= i
  /\ \A n \in DOMAIN more : longer[Len(inputs) + n] = more[n] /\ more[n].source = i

\* The inputs of source j are those they were, or m more at the end.
Kept(longer, inputs, j) == ListedOf(longer, j) = ListedOf(inputs, j)

Added(longer, inputs, j, m) ==
  ListedOf(longer, j) = ListedOf(inputs, j) \union (Len(inputs) + 1 .. Len(inputs) + m)

\* A list to which inputs of its last source are added grows at the end only:
LEMMA ListGrows ==
  ASSUME NEW inputs \in Seq(ListedInput), NEW more \in Seq(ListedInput), NEW i \in Nat,
         \A k \in DOMAIN inputs : inputs[k].source <= i,
         \A n \in DOMAIN more : more[n].source = i
  PROVE  Grown(inputs \o more, inputs, more, i)
<1> DEFINE longer == inputs \o more
<1>1. longer \in Seq(ListedInput) /\ Len(longer) = Len(inputs) + Len(more)  OBVIOUS
<1>2. \A k \in DOMAIN inputs : longer[k] = inputs[k]  OBVIOUS
<1>3. \A n \in DOMAIN more : longer[Len(inputs) + n] = more[n]  OBVIOUS
<1> QED  BY <1>1, <1>2, <1>3 DEF Grown

\* the inputs of other sources stay, those of this one get more, and the order holds.
LEMMA GrownKeeps ==
  ASSUME NEW inputs \in Seq(ListedInput), NEW more \in Seq(ListedInput), NEW i \in Nat,
         NEW longer, Grown(longer, inputs, more, i)
  PROVE  /\ \A k \in DOMAIN longer : longer[k].source <= i
         /\ \A j \in Nat : j # i => Kept(longer, inputs, j)
         /\ Added(longer, inputs, i, Len(more))
         /\ SourcesInOrder(inputs) => SourcesInOrder(longer)
<1> DEFINE l == Len(inputs)
           m == Len(more)
<1>1. /\ longer \in Seq(ListedInput) /\ Len(longer) = l + m /\ l \in Nat /\ m \in Nat
      /\ DOMAIN inputs = 1 .. l /\ DOMAIN more = 1 .. m /\ DOMAIN longer = 1 .. l + m
  BY DEF Grown
<1>2. \A k \in 1 .. l : longer[k] = inputs[k] /\ inputs[k].source <= i  BY <1>1 DEF Grown
<1>3. \A n \in 1 .. m : longer[l + n] = more[n] /\ more[n].source = i  BY <1>1 DEF Grown
<1>4. \A k \in 1 .. l + m : k \in 1 .. l \/ (k - l \in 1 .. m /\ k = l + (k - l))  BY <1>1
<1> HIDE DEF l, m
<1>5. ASSUME NEW k \in 1 .. l + m, k \notin 1 .. l PROVE longer[k].source = i
  <2> DEFINE n == k - l
  <2>1. n \in 1 .. m /\ k = l + n  BY <1>1, <1>4, <1>5
  <2> HIDE DEF n
  <2> QED  BY <2>1, <1>3
<1>6. ASSUME NEW k \in 1 .. l + m PROVE longer[k].source <= i
  <2>1. CASE k \in 1 .. l  BY <2>1, <1>1, <1>2
  <2>2. CASE k \notin 1 .. l
    <3>1. longer[k].source = i  BY <2>2, <1>5
    <3> QED  BY <3>1
  <2> QED  BY <2>1, <2>2
<1>7. \A j \in Nat : j # i => ListedOf(longer, j) = ListedOf(inputs, j)
  BY <1>1, <1>2, <1>5 DEF ListedOf
<1>8. ListedOf(longer, i) = ListedOf(inputs, i) \union (l + 1 .. l + m)
  BY <1>1, <1>2, <1>5 DEF ListedOf
<1>9. ASSUME SourcesInOrder(inputs) PROVE SourcesInOrder(longer)
  <2> SUFFICES ASSUME NEW a \in 1 .. l + m, NEW b \in 1 .. l + m, a < b
               PROVE  longer[a].source <= longer[b].source
    BY <1>1 DEF SourcesInOrder
  <2>1. CASE b \in 1 .. l
    <3>1. a \in 1 .. l  BY <2>1, <1>1
    <3> QED  BY <3>1, <2>1, <1>9, <1>1, <1>2 DEF SourcesInOrder
  <2>2. CASE b \notin 1 .. l  BY <2>2, <1>5, <1>6
  <2> QED  BY <2>1, <2>2
<1> QED  BY <1>1, <1>6, <1>7, <1>8, <1>9 DEF l, m, Kept, Added

\* What holds of the inputs of a source holds of a longer list that keeps them.
LEMMA WholeListedStays ==
  ASSUME NEW inputs \in Seq(ListedInput), NEW longer \in Seq(ListedInput), NEW j \in Nat,
         NEW source \in Paths \union FileFolders,
         Len(inputs) <= Len(longer),
         \A k \in DOMAIN inputs : longer[k] = inputs[k],
         Kept(longer, inputs, j),
         WholeListed(source, inputs, j)
  PROVE  WholeListed(source, longer, j)
<1>1. /\ Len(inputs) \in Nat /\ Len(longer) \in Nat
      /\ DOMAIN inputs = 1 .. Len(inputs) /\ DOMAIN longer = 1 .. Len(longer)
  OBVIOUS
<1>2. \A k \in ListedOf(inputs, j) : k \in DOMAIN inputs  BY DEF ListedOf
<1>0. ListedOf(longer, j) = ListedOf(inputs, j)  BY DEF Kept
<1> SUFFICES ASSUME source \notin FileFolders
             PROVE  /\ Kind[source] \in {"pdf", "image"}
                    /\ Kind[source] = "pdf" =>
                         \E v \in Versions[source], skipped \in 0 .. Len(longer) :
                           /\ ListedOf(longer, j) = skipped + 1 .. skipped + PagesOf[v]
                           /\ \A n \in 1 .. PagesOf[v] : longer[skipped + n].digest = v /\ longer[skipped + n].page = n
                    /\ Kind[source] = "image" =>
                         \E k \in DOMAIN longer : ListedOf(longer, j) = {k} /\ longer[k].path = source
  BY DEF WholeListed
<1>3. Kind[source] \in {"pdf", "image"}  BY DEF WholeListed
<1>4. ASSUME Kind[source] = "pdf", source \in Paths
      PROVE  \E v \in Versions[source], skipped \in 0 .. Len(longer) :
               /\ ListedOf(longer, j) = skipped + 1 .. skipped + PagesOf[v]
               /\ \A n \in 1 .. PagesOf[v] : longer[skipped + n].digest = v /\ longer[skipped + n].page = n
  <2>1. PICK v \in Versions[source], skipped \in 0 .. Len(inputs) :
          /\ ListedOf(inputs, j) = skipped + 1 .. skipped + PagesOf[v]
          /\ \A n \in 1 .. PagesOf[v] : inputs[skipped + n].digest = v /\ inputs[skipped + n].page = n
    BY <1>4 DEF WholeListed
  <2>2. PagesOf[v] \in Nat  BY <1>4, SourceAssumption
  <2>3. \A n \in 1 .. PagesOf[v] : skipped + n \in ListedOf(inputs, j)  BY <2>1, <2>2
  <2>4. skipped \in 0 .. Len(longer)  BY <1>1
  <2>5. \A n \in 1 .. PagesOf[v] : longer[skipped + n] = inputs[skipped + n]  BY <2>3, <1>2
  <2>6. \A n \in 1 .. PagesOf[v] : longer[skipped + n].digest = v /\ longer[skipped + n].page = n
    BY <2>1, <2>5, Zenon
  <2>7. ListedOf(longer, j) = skipped + 1 .. skipped + PagesOf[v]  BY <1>0, <2>1, Zenon
  <2>8. v \in Versions[source]  OBVIOUS
  <2> QED  BY <2>4, <2>6, <2>7, <2>8, Zenon
<1>5. ASSUME Kind[source] = "image"
      PROVE  \E k \in DOMAIN longer : ListedOf(longer, j) = {k} /\ longer[k].path = source
  <2>1. PICK k \in DOMAIN inputs : ListedOf(inputs, j) = {k} /\ inputs[k].path = source
    BY <1>5 DEF WholeListed
  <2>2. k \in DOMAIN longer  BY <1>1
  <2> QED  BY <1>0, <2>1, <2>2
<1> QED  BY <1>3, <1>4, <1>5

\* So does the order of a folder,
LEMMA FolderInOrderStays ==
  ASSUME NEW inputs \in Seq(ListedInput), NEW longer \in Seq(ListedInput), NEW j \in Nat, NEW source,
         \A k \in DOMAIN inputs : longer[k] = inputs[k],
         Kept(longer, inputs, j),
         FolderInOrder(source, inputs, j)
  PROVE  FolderInOrder(source, longer, j)
<1>0. ListedOf(longer, j) = ListedOf(inputs, j)  BY DEF Kept
<1>1. \A k \in ListedOf(inputs, j) : longer[k] = inputs[k]  BY DEF ListedOf
<1> QED  BY <1>0, <1>1 DEF FolderInOrder

\* and that the list is what the files hold now.
LEMMA ListedNowStays ==
  ASSUME NEW inputs \in Seq(ListedInput), NEW longer \in Seq(ListedInput), NEW j \in Nat,
         NEW loaders, NEW skipped \in Nat, NEW count \in Nat,
         \A k \in DOMAIN inputs : longer[k] = inputs[k],
         Kept(longer, inputs, j),
         ListedNow(loaders, skipped, count, inputs, j)
  PROVE  ListedNow(loaders, skipped, count, longer, j)
<1>0. ListedOf(longer, j) = ListedOf(inputs, j)  BY DEF Kept
<1>1. \A k \in ListedOf(inputs, j) : longer[k] = inputs[k]  BY DEF ListedOf
<1>2. \A n \in 1 .. count : skipped + n \in ListedOf(inputs, j)  BY DEF ListedNow
<1>3. \A n \in 1 .. count : longer[skipped + n] = inputs[skipped + n]  BY <1>1, <1>2
<1> QED  BY <1>0, <1>3 DEF ListedNow

\* What is counted and looked at depends on the files and the choice.
LEMMA SameFiles ==
  ASSUME disk' = disk, selection' = selection
  PROVE  /\ PageCounts' = PageCounts /\ ScanPageCount' = ScanPageCount /\ SamplePages' = SamplePages
         /\ Loaders' = Loaders /\ PicturesAt' = PicturesAt /\ Readable' = Readable
<1>1. PageCounts' = PageCounts  BY DEF PageCounts, PagesIn, Images
<1>2. ScanPageCount' = ScanPageCount  BY <1>1 DEF ScanPageCount, Before
<1>3. SamplePages' = SamplePages  BY DEF SamplePages, PageLoaders, CanBeRead, PdfOpens, Images, Before
<1>4. Loaders' = Loaders  BY DEF Loaders, PageLoaders, CanBeRead, PdfOpens, Images
<1>5. PicturesAt' = PicturesAt  BY DEF PicturesAt, Pictures, Images
<1>6. Readable' = Readable  BY DEF Readable, Pictures, Images, CanBeRead, PdfOpens
<1> QED  BY <1>1, <1>2, <1>3, <1>4, <1>5, <1>6

\* A preparation that is refused leaves nothing.
LEMMA RefusedType ==
  ASSUME FilesType, scan' = Refused, UNCHANGED <<disk, stamp, writes, selection>>
  PROVE  FilesType' /\ ScanInv'
<1>1. NoScan \in ScanRecords  BY DEF NoScan, ScanRecords, Copies
<1>2. scan' \in ScanRecords  BY <1>1 DEF Refused, ScanRecords
<1>3. scan'.stage = "refused"  BY <1>1 DEF Refused, ScanRecords
<1>4. ~Busy'  BY <1>3 DEF Busy
<1> QED  BY <1>2, <1>4 DEF FilesType, ScanInv

\* The fields of a preparation.
LEMMA ScanFields ==
  ASSUME FilesType
  PROVE  /\ scan.at \in Nat /\ scan.pending \in Seq(Paths \X Nat) /\ scan.inputs \in Seq(ListedInput)
         /\ scan.pages \in Seq(PreparedPage) /\ scan.counted \in Nat /\ scan.since \in Nat
         /\ scan.failed \in SUBSET Nat /\ scan.originals \in Copies /\ scan.reviews \in Copies
         /\ scan = [stage |-> scan.stage, at |-> scan.at, pending |-> scan.pending, inputs |-> scan.inputs,
                    pages |-> scan.pages, counted |-> scan.counted, since |-> scan.since,
                    failed |-> scan.failed, originals |-> scan.originals, reviews |-> scan.reviews]
  BY DEF FilesType, ScanRecords

\* A step of listing changes the list, what waits and the source only.
LEMMA ListingType ==
  ASSUME FilesType, UNCHANGED <<disk, stamp, writes, selection>>,
         NEW at \in Nat, NEW pending \in Seq(Paths \X Nat), NEW inputs \in Seq(ListedInput),
         scan' = [scan EXCEPT !.at = at, !.pending = pending, !.inputs = inputs]
  PROVE  /\ FilesType'
         /\ scan'.at = at /\ scan'.pending = pending /\ scan'.inputs = inputs
         /\ scan'.stage = scan.stage /\ scan'.pages = scan.pages
         /\ scan'.counted = scan.counted /\ scan'.since = scan.since
<1>1. /\ scan'.at = at /\ scan'.pending = pending /\ scan'.inputs = inputs
      /\ scan'.stage = scan.stage /\ scan'.pages = scan.pages
      /\ scan'.counted = scan.counted /\ scan'.since = scan.since
  BY DEF FilesType
<1>2. scan' \in ScanRecords  BY DEF FilesType, ScanRecords
<1> QED  BY <1>1, <1>2 DEF FilesType

\* The input of a file that is there.
LEMMA InputTyped ==
  ASSUME FilesType, NEW p \in Paths, disk[p] # Absent, NEW page \in Nat
  PROVE  /\ Input(p, page) \in ListedInput
         /\ Input(p, page).path = p /\ Input(p, page).digest = disk[p]
         /\ Input(p, page).page = page /\ Input(p, page).source = scan.at
  BY VersionHeld, ScanFields DEF Input, ListedInput

\* What stays of the list when one source is listed a little further.
LEMMA ListedFurther ==
  ASSUME FilesType, Listing, NEW more \in Seq(ListedInput), scan.at <= Len(selection),
         \A n \in DOMAIN more : more[n].source = scan.at,
         NEW longer, longer = scan.inputs \o more
  PROVE  /\ longer \in Seq(ListedInput) /\ Len(longer) = Len(scan.inputs) + Len(more)
         /\ \A k \in DOMAIN scan.inputs : longer[k] = scan.inputs[k]
         /\ \A n \in DOMAIN more : longer[Len(scan.inputs) + n] = more[n]
         /\ \A k \in DOMAIN longer : longer[k].source \in 1 .. scan.at
         /\ SourcesInOrder(longer)
         /\ \A i \in 1 .. scan.at - 1 : WholeListed(selection[i], longer, i)
         /\ \A i \in 1 .. Len(selection) : i # scan.at => FolderInOrder(selection[i], longer, i)
         /\ Added(longer, scan.inputs, scan.at, Len(more))
         /\ Unchanged /\ scan.since = writes =>
              \A i \in 1 .. scan.at - 1 :
                ListedNow(Loaders[i], Before(PageCounts, i), PageCounts[i], longer, i)
<1> DEFINE inputs == scan.inputs
           at == scan.at
<1>1. /\ inputs \in Seq(ListedInput) /\ at \in 1 .. Len(selection) + 1 /\ at \in Nat
      /\ \A k \in DOMAIN inputs : inputs[k].source \in 1 .. at
      /\ SourcesInOrder(inputs)
  BY ScanFields DEF Listing
<1>2. /\ \A k \in DOMAIN inputs : inputs[k].source <= at
      /\ \A n \in DOMAIN more : more[n].source = at
  BY <1>1
<1> HIDE DEF inputs, at
<1>4. Grown(longer, inputs, more, at)
  <2>1. longer = inputs \o more  BY DEF inputs
  <2> QED  BY <1>1, <1>2, <2>1, ListGrows
<1>5. /\ longer \in Seq(ListedInput) /\ Len(longer) = Len(inputs) + Len(more)
      /\ \A k \in DOMAIN inputs : longer[k] = inputs[k]
      /\ \A n \in DOMAIN more : longer[Len(inputs) + n] = more[n]
      /\ \A j \in Nat : j # at => Kept(longer, inputs, j)
      /\ Added(longer, inputs, at, Len(more))
      /\ SourcesInOrder(longer)
  <2>1. inputs \in Seq(ListedInput) /\ at \in Nat /\ SourcesInOrder(inputs)  BY <1>1
  <2>2. /\ longer \in Seq(ListedInput) /\ Len(longer) = Len(inputs) + Len(more)
        /\ \A k \in DOMAIN inputs : longer[k] = inputs[k]
        /\ \A n \in DOMAIN more : longer[Len(inputs) + n] = more[n]
    BY <1>4 DEF Grown
  <2>3. /\ \A j \in Nat : j # at => Kept(longer, inputs, j)
        /\ Added(longer, inputs, at, Len(more))
        /\ SourcesInOrder(longer)
    BY <2>1, <1>4, GrownKeeps
  <2> QED  BY <2>2, <2>3
<1>6. Len(inputs) <= Len(longer)  BY <1>1, <1>5
<1>7. ASSUME NEW k \in DOMAIN longer PROVE longer[k].source \in 1 .. at
  <2>1. CASE k \in DOMAIN inputs  BY <2>1, <1>1, <1>5
  <2>2. CASE k \notin DOMAIN inputs
    <3>1. k \in Len(inputs) + 1 .. Len(inputs) + Len(more)
      <4>1. DOMAIN inputs = 1 .. Len(inputs) /\ DOMAIN longer = 1 .. Len(longer)  BY <1>1, <1>5
      <4> QED  BY <4>1, <2>2, <1>5, <1>1
    <3>2. k \in ListedOf(longer, at)  BY <3>1, <1>5 DEF Added
    <3>3. longer[k].source = at  BY <3>2 DEF ListedOf
    <3>4. at \in 1 .. at  BY <1>1
    <3> QED  BY <3>3, <3>4, Zenon
  <2> QED  BY <2>1, <2>2
<1>8. ASSUME NEW i \in 1 .. at - 1 PROVE WholeListed(selection[i], longer, i)
  <2>1. WholeListed(selection[i], inputs, i)  BY DEF Listing, inputs, at
  <2>2. i \in Nat /\ i # at /\ i \in 1 .. Len(selection)  BY <1>1
  <2>3. selection[i] \in Paths \union FileFolders  BY <2>2, CountsTyped
  <2> QED  BY <2>1, <2>2, <2>3, <1>1, <1>5, <1>6, WholeListedStays
<1>9. ASSUME NEW i \in 1 .. Len(selection), i # at PROVE FolderInOrder(selection[i], longer, i)
  <2>1. FolderInOrder(selection[i], inputs, i)  BY DEF Listing, inputs
  <2>2. i \in Nat  BY <1>1
  <2>3. Kept(longer, inputs, i)  BY <1>5, <2>2, <1>9
  <2> QED  BY <2>1, <2>2, <2>3, <1>1, <1>5, FolderInOrderStays
<1>10. ASSUME Unchanged, scan.since = writes, NEW i \in 1 .. at - 1
       PROVE  ListedNow(Loaders[i], Before(PageCounts, i), PageCounts[i], longer, i)
  <2>1. ListedNow(Loaders[i], Before(PageCounts, i), PageCounts[i], inputs, i)
    BY <1>10 DEF Unchanged, inputs, at
  <2>2. i \in Nat /\ i # at /\ i \in 1 .. Len(selection)  BY <1>1
  <2>3. PageCounts[i] \in Nat /\ Before(PageCounts, i) \in Nat  BY <2>2, CountsTyped, CountsGrow
  <2>4. Kept(longer, inputs, i)  BY <1>5, <2>2
  <2> QED  BY <2>1, <2>2, <2>3, <2>4, <1>1, <1>5, ListedNowStays
<1> QED  BY <1>5, <1>7, <1>8, <1>9, <1>10 DEF inputs, at

\* What is left behind the first of several.
LEMMA TailFacts ==
  ASSUME NEW S, NEW s \in Seq(S), s # <<>>
  PROVE  /\ Len(s) \in Nat \ {0} /\ DOMAIN s = 1 .. Len(s) /\ 1 \in DOMAIN s
         /\ \A j \in DOMAIN s : s[j] \in S
         /\ Head(s) = s[1]
         /\ Tail(s) \in Seq(S) /\ DOMAIN Tail(s) = 1 .. Len(s) - 1 /\ Len(Tail(s)) = Len(s) - 1
         /\ \A j \in DOMAIN Tail(s) : j \in Nat /\ j + 1 \in DOMAIN s /\ Tail(s)[j] = s[j + 1]
         /\ Tail(s) = <<>> => Len(s) = 1
         /\ Tail(s) # <<>> => Len(s) # 1
<1>1. Len(s) \in Nat \ {0} /\ DOMAIN s = 1 .. Len(s)  BY EmptySeq, LenProperties
<1>2. Tail(s) \in Seq(S) /\ Len(Tail(s)) = Len(s) - 1 /\ \A i \in 1 .. Len(Tail(s)) : Tail(s)[i] = s[i + 1]
  BY HeadTailProperties
<1>3. DOMAIN Tail(s) = 1 .. Len(Tail(s))  BY <1>2, LenProperties
<1>4. Tail(s) = <<>> => Len(Tail(s)) = 0  BY EmptySeq
<1>5. Tail(s) # <<>> => Len(Tail(s)) \in Nat \ {0}  BY <1>2, EmptySeq
<1>6. \A j \in DOMAIN s : s[j] \in S  BY <1>1, ElementOfSeq
<1>7. Head(s) = s[1]  BY <1>1
<1>8. ASSUME NEW j \in DOMAIN Tail(s) PROVE j \in Nat /\ j + 1 \in DOMAIN s /\ Tail(s)[j] = s[j + 1]
  <2> DEFINE n == Len(s)
             m == Len(Tail(s))
  <2>1. n \in Nat /\ m = n - 1 /\ j \in 1 .. m /\ DOMAIN s = 1 .. n /\ Tail(s)[j] = s[j + 1]
    BY <1>1, <1>2, <1>3
  <2> HIDE DEF n, m
  <2> QED  BY <2>1
<1>9. \A n \in Nat : n - 1 = 0 => n = 1  OBVIOUS
<1>10. \A n \in Nat : n - 1 \in Nat \ {0} => n # 1  OBVIOUS
<1>11. 1 \in DOMAIN s  BY <1>1
<1> QED  BY <1>1, <1>2, <1>3, <1>4, <1>5, <1>6, <1>7, <1>8, <1>9, <1>10, <1>11

\* The next picture is the next page.
LEMMA PendingNowStep ==
  ASSUME NEW inputs \in Seq(ListedInput), NEW longer \in Seq(ListedInput),
         NEW pending \in Seq(Paths \X Nat), pending # <<>>,
         NEW i \in Nat, NEW loaders, NEW pictures, NEW skipped \in Nat,
         PendingNow(loaders, pictures, skipped, inputs, pending, i),
         Len(longer) = Len(inputs) + 1,
         \A k \in DOMAIN inputs : longer[k] = inputs[k],
         Added(longer, inputs, i, 1),
         PageOf(longer[Len(inputs) + 1]) = loaders[Len(inputs) - skipped + 1]
  PROVE  /\ PendingNow(loaders, pictures, skipped, longer, Tail(pending), i)
         /\ Len(pending) = 1 /\ Len(loaders) = Cardinality(pictures) =>
              ListedNow(loaders, skipped, Cardinality(pictures), longer, i)
<1> DEFINE done == Len(inputs) - skipped
<1>1. /\ done \in Nat /\ done + Len(pending) = Cardinality(pictures)
      /\ ListedOf(inputs, i) = skipped + 1 .. skipped + done
      /\ \A n \in 1 .. done : PageOf(inputs[skipped + n]) = loaders[n]
      /\ \A j \in DOMAIN pending : pending[j][1] = Sorted(pictures)[done + j]
  BY DEF PendingNow
<1>2. Len(inputs) \in Nat /\ DOMAIN inputs = 1 .. Len(inputs) /\ Len(inputs) = skipped + done
  <2>1. Len(inputs) \in Nat /\ DOMAIN inputs = 1 .. Len(inputs)  BY LenProperties
  <2>2. \A l \in Nat : l = skipped + (l - skipped)  OBVIOUS
  <2>3. Len(inputs) = skipped + done  BY <2>1, <2>2, Zenon
  <2> QED  BY <2>1, <2>3
<1>3. /\ Len(pending) \in Nat \ {0} /\ DOMAIN pending = 1 .. Len(pending)
      /\ Tail(pending) \in Seq(Paths \X Nat) /\ Len(Tail(pending)) = Len(pending) - 1
      /\ \A j \in DOMAIN Tail(pending) : j \in Nat /\ j + 1 \in DOMAIN pending /\ Tail(pending)[j] = pending[j + 1]
      /\ Tail(pending) = <<>> => Len(pending) = 1
  BY TailFacts
<1> HIDE DEF done
<1>4. Len(longer) - skipped = done + 1 /\ done + 1 \in Nat
  <2> DEFINE l == Len(inputs)
  <2>1. l = skipped + done /\ done \in Nat /\ Len(longer) = l + 1  BY <1>1, <1>2
  <2> HIDE DEF l
  <2> QED  BY <2>1
<1>5. ListedOf(longer, i) = skipped + 1 .. skipped + (done + 1)
  <2>1. ListedOf(longer, i) = (skipped + 1 .. skipped + done) \union (skipped + done + 1 .. skipped + done + 1)
    BY <1>1, <1>2 DEF Added
  <2>2. ASSUME NEW m \in Nat, NEW y \in Nat
        PROVE  (m + 1 .. m + y) \union (m + y + 1 .. m + y + 1) = m + 1 .. m + (y + 1)
    <3>1. ASSUME NEW z \in Int
          PROVE  (z \in m + 1 .. m + y \/ z \in m + y + 1 .. m + y + 1) <=> z \in m + 1 .. m + (y + 1)
      <4>1. ((m + 1 <= z /\ z <= m + y) \/ (m + y + 1 <= z /\ z <= m + y + 1)) <=> (m + 1 <= z /\ z <= m + (y + 1))
        OBVIOUS
      <4>2. \A a, b \in Int : z \in a .. b <=> (a <= z /\ z <= b)  OBVIOUS
      <4>3. m + 1 \in Int /\ m + y \in Int /\ m + y + 1 \in Int /\ m + (y + 1) \in Int  OBVIOUS
      <4> QED  BY <4>1, <4>2, <4>3, Zenon
    <3>2. /\ m + 1 .. m + y \subseteq Int /\ m + y + 1 .. m + y + 1 \subseteq Int
          /\ m + 1 .. m + (y + 1) \subseteq Int
      OBVIOUS
    <3> QED  BY <3>1, <3>2, Zenon
  <2> QED  BY <2>1, <2>2, <1>1
<1>6. ASSUME NEW n \in 1 .. done + 1
      PROVE  PageOf(longer[skipped + n]) = loaders[n]
  <2>1. CASE n \in 1 .. done
    <3>1. skipped + n \in DOMAIN inputs  BY <2>1, <1>1, <1>2
    <3> QED  BY <3>1, <2>1, <1>1
  <2>2. CASE n = done + 1
    <3>1. skipped + n = Len(inputs) + 1 /\ n = Len(inputs) - skipped + 1  BY <2>2, <1>1, <1>2
    <3> QED  BY <3>1
  <2> QED  BY <2>1, <2>2, <1>1
<1>7. done + 1 + Len(Tail(pending)) = Cardinality(pictures)  BY <1>1, <1>3
<1>8. ASSUME NEW j \in DOMAIN Tail(pending) PROVE Tail(pending)[j][1] = Sorted(pictures)[done + 1 + j]
  <2>1. j + 1 \in DOMAIN pending /\ Tail(pending)[j] = pending[j + 1]  BY <1>3
  <2>2. done + (j + 1) = done + 1 + j  BY <1>1, <1>3
  <2> QED  BY <2>1, <2>2, <1>1
<1>9. PendingNow(loaders, pictures, skipped, longer, Tail(pending), i)
  BY <1>4, <1>5, <1>6, <1>7, <1>8 DEF PendingNow
<1>10. ASSUME Len(pending) = 1, Len(loaders) = Cardinality(pictures)
       PROVE  ListedNow(loaders, skipped, Cardinality(pictures), longer, i)
  <2>2. Cardinality(pictures) = done + 1  BY <1>1, <1>10
  <2>3. Len(longer) = skipped + (done + 1)  BY <1>1, <1>2
  <2> QED  BY <2>2, <2>3, <1>5, <1>6, <1>10 DEF ListedNow
<1> QED  BY <1>9, <1>10

\* What waits behind a picture that is hashed stays in order behind it.
LEMMA HashedInOrder ==
  ASSUME NEW inputs \in Seq(ListedInput), NEW longer \in Seq(ListedInput),
         NEW pending \in Seq(Paths \X Nat), pending # <<>>, NEW i \in Nat,
         NEW source \in Paths \union FileFolders,
         PendingInOrder(source, inputs, pending, i), FolderInOrder(source, inputs, i),
         Len(longer) = Len(inputs) + 1,
         \A k \in DOMAIN inputs : longer[k] = inputs[k],
         longer[Len(inputs) + 1].path = pending[1][1],
         Added(longer, inputs, i, 1)
  PROVE  /\ FolderInOrder(source, longer, i)
         /\ Tail(pending) # <<>> => PendingInOrder(source, longer, Tail(pending), i)
         /\ Tail(pending) = <<>> => WholeListed(source, longer, i)
<1>1. /\ Len(pending) \in Nat \ {0} /\ DOMAIN pending = 1 .. Len(pending)
      /\ \A j \in DOMAIN Tail(pending) : j \in Nat /\ j + 1 \in DOMAIN pending /\ Tail(pending)[j] = pending[j + 1]
      /\ Tail(pending) # <<>> => Len(pending) > 1
      /\ 1 \in DOMAIN pending
      /\ \A j \in DOMAIN pending : pending[j][1] \in Paths
  BY TailFacts
<1>2. /\ Len(inputs) \in Nat /\ DOMAIN inputs = 1 .. Len(inputs) /\ DOMAIN longer = 1 .. Len(inputs) + 1
      /\ \A k \in ListedOf(inputs, i) : k \in 1 .. Len(inputs) /\ longer[k] = inputs[k]
      /\ ListedOf(longer, i) = ListedOf(inputs, i) \union {Len(inputs) + 1}
  BY DEF ListedOf, Added
<1>3. CASE source \in FileFolders
  <2>1. /\ \A j \in DOMAIN pending :
             /\ pending[j][1] \in Inside[source]
             /\ \A k \in ListedOf(inputs, i) : Place[inputs[k].path] < Place[pending[j][1]]
        /\ \A j, l \in DOMAIN pending : j < l => Place[pending[j][1]] < Place[pending[l][1]]
    BY <1>3 DEF PendingInOrder
  <2>2. /\ \A k \in ListedOf(inputs, i) : inputs[k].path \in Inside[source]
        /\ \A a, b \in ListedOf(inputs, i) : a < b => Place[inputs[a].path] < Place[inputs[b].path]
    BY <1>3 DEF FolderInOrder
  <2>3. \A k \in ListedOf(longer, i) : longer[k].path \in Inside[source]  BY <1>1, <1>2, <2>1, <2>2
  <2>4. ASSUME NEW a \in ListedOf(longer, i), NEW b \in ListedOf(longer, i), a < b
        PROVE  Place[longer[a].path] < Place[longer[b].path]
    <3>1. a \in ListedOf(inputs, i)  BY <1>2, <2>4
    <3>2. CASE b \in ListedOf(inputs, i)  BY <3>1, <3>2, <1>2, <2>2, <2>4
    <3>3. CASE b = Len(inputs) + 1  BY <3>1, <3>3, <1>1, <1>2, <2>1
    <3> QED  BY <3>2, <3>3, <1>2
  <2>5. FolderInOrder(source, longer, i)  BY <2>3, <2>4 DEF FolderInOrder
  <2>6. ASSUME NEW j \in DOMAIN Tail(pending)
        PROVE  /\ Tail(pending)[j][1] \in Inside[source]
               /\ \A k \in ListedOf(longer, i) : Place[longer[k].path] < Place[Tail(pending)[j][1]]
    <3>0. \A n \in DOMAIN Tail(pending) : n \in Nat /\ 1 <= n  BY TailFacts
    <3>1. j + 1 \in DOMAIN pending /\ Tail(pending)[j] = pending[j + 1] /\ 1 < j + 1  BY <1>1, <3>0
    <3>2. Place[pending[1][1]] < Place[pending[j + 1][1]]  BY <3>1, <1>1, <2>1
    <3> QED  BY <3>1, <3>2, <1>1, <1>2, <2>1
  <2>7. ASSUME NEW j \in DOMAIN Tail(pending), NEW l \in DOMAIN Tail(pending), j < l
        PROVE  Place[Tail(pending)[j][1]] < Place[Tail(pending)[l][1]]
    <3>1. /\ j + 1 \in DOMAIN pending /\ Tail(pending)[j] = pending[j + 1]
          /\ l + 1 \in DOMAIN pending /\ Tail(pending)[l] = pending[l + 1] /\ j + 1 < l + 1
      BY <1>1, <2>7
    <3> QED  BY <3>1, <2>1
  <2>8. PendingInOrder(source, longer, Tail(pending), i)
    BY <1>3, <2>6, <2>7 DEF PendingInOrder
  <2>9. WholeListed(source, longer, i)  BY <1>3 DEF WholeListed
  <2> QED  BY <2>5, <2>8, <2>9
<1>4. CASE source \notin FileFolders
  <2>1. Kind[source] = "image" /\ Len(pending) = 1 /\ pending[1][1] = source /\ ListedOf(inputs, i) = {}
    BY <1>4 DEF PendingInOrder
  <2>2. ListedOf(longer, i) = {Len(inputs) + 1} /\ Len(inputs) + 1 \in DOMAIN longer  BY <1>2, <2>1
  <2>3. WholeListed(source, longer, i)  BY <2>1, <2>2 DEF WholeListed
  <2>4. FolderInOrder(source, longer, i)  BY <1>4 DEF FolderInOrder
  <2> QED  BY <1>1, <2>1, <2>3, <2>4
<1> QED  BY <1>3, <1>4

\* The scan goes on with the list: what has to be shown of the new list.
LEMMA ListingNext ==
  ASSUME FilesType, ScanInv, scan.stage = "listing", UNCHANGED <<disk, stamp, writes, selection>>,
         NEW at \in Nat, NEW pending \in Seq(Paths \X Nat), NEW more \in Seq(ListedInput),
         scan' = [scan EXCEPT !.at = at, !.pending = pending, !.inputs = scan.inputs \o more],
         scan.at <= Len(selection),
         at \in {scan.at, scan.at + 1}, pending = <<>> => at = scan.at + 1,
         \A n \in DOMAIN more : more[n].source = scan.at,
         NEW longer, longer = scan.inputs \o more,
         FolderInOrder(selection[scan.at], longer, scan.at),
         at = scan.at => PendingInOrder(selection[scan.at], longer, pending, scan.at),
         at # scan.at => WholeListed(selection[scan.at], longer, scan.at) /\ pending = <<>>,
         scan.since = writes /\ at # scan.at =>
           /\ ListedNow(Loaders[scan.at], Before(PageCounts, scan.at), PageCounts[scan.at], longer, scan.at)
           /\ Len(longer) = Before(PageCounts, scan.at) + PageCounts[scan.at],
         scan.since = writes /\ at = scan.at =>
           /\ scan.at \in Readable
           /\ PendingNow(Loaders[scan.at], PicturesAt[scan.at],
                         Before(PageCounts, scan.at), longer, pending, scan.at)
  PROVE  FilesType' /\ ScanInv'
<1>1. scan.since <= writes /\ Listing /\ Rendering /\ Unchanged  BY DEF ScanInv, Busy
<1>2. /\ longer \in Seq(ListedInput)
      /\ \A k \in DOMAIN longer : longer[k].source \in 1 .. scan.at
      /\ SourcesInOrder(longer)
      /\ \A i \in 1 .. scan.at - 1 : WholeListed(selection[i], longer, i)
      /\ \A i \in 1 .. Len(selection) : i # scan.at => FolderInOrder(selection[i], longer, i)
      /\ Unchanged /\ scan.since = writes =>
           \A i \in 1 .. scan.at - 1 :
             ListedNow(Loaders[i], Before(PageCounts, i), PageCounts[i], longer, i)
  BY <1>1, ListedFurther
<1>3. /\ FilesType'
      /\ scan'.at = at /\ scan'.pending = pending /\ scan'.inputs = longer
      /\ scan'.stage = scan.stage /\ scan'.pages = scan.pages
      /\ scan'.counted = scan.counted /\ scan'.since = scan.since
  BY <1>2, ListingType
<1>4. /\ scan.at \in Nat /\ scan.at >= 1 /\ Len(selection) \in Nat /\ at \in 1 .. Len(selection) + 1
      /\ writes' = writes /\ selection' = selection
  BY <1>1, CountsTyped DEF Listing
<1>5. Listing'
  <2>1. \A k \in DOMAIN longer : longer[k].source \in 1 .. at /\ (pending = <<>> => longer[k].source < at)
    <3> SUFFICES ASSUME NEW k \in DOMAIN longer
                 PROVE  longer[k].source \in 1 .. at /\ (pending = <<>> => longer[k].source < at)
      OBVIOUS
    <3>1. longer[k].source \in 1 .. scan.at  BY <1>2
    <3>2. scan.at <= at /\ (pending = <<>> => at = scan.at + 1)  BY <1>4
    <3> DEFINE s == longer[k].source
               last == scan.at
    <3>3. s \in 1 .. last /\ last \in Nat /\ at \in Nat /\ last <= at /\ (pending = <<>> => at = last + 1)
      BY <3>1, <3>2, <1>4
    <3> HIDE DEF s, last
    <3>4. s \in 1 .. at /\ (pending = <<>> => s < at)  BY <3>3
    <3> QED  BY <3>4 DEF s
  <2>2. ASSUME NEW i \in 1 .. at - 1 PROVE WholeListed(selection[i], longer, i)
    <3>1. CASE i \in 1 .. scan.at - 1  BY <3>1, <1>2
    <3>2. CASE i = scan.at /\ at # scan.at  BY <3>2
    <3> QED  BY <3>1, <3>2, <1>4
  <2>3. \A i \in 1 .. Len(selection) : FolderInOrder(selection[i], longer, i)  BY <1>2
  <2>4. pending # <<>> => at = scan.at  OBVIOUS
  <2> QED  BY <1>2, <1>3, <1>4, <2>1, <2>2, <2>3, <2>4 DEF Listing
<1>6. Rendering'
  <2>1. scan.pages = <<>>  BY <1>1 DEF Rendering
  <2> QED  BY <2>1, <1>3 DEF Rendering, Prepared, Ready
<1>7. Unchanged'
  <2> SUFFICES ASSUME scan.since = writes PROVE Unchanged'  BY <1>3, <1>4 DEF Unchanged
  <2>1. /\ PageCounts' = PageCounts /\ ScanPageCount' = ScanPageCount
        /\ Loaders' = Loaders /\ PicturesAt' = PicturesAt /\ Readable' = Readable
    BY SameFiles
  <2>3. scan.counted = ScanPageCount  BY <1>1 DEF Unchanged
  <2>4. ASSUME NEW i \in 1 .. at - 1
        PROVE  ListedNow(Loaders[i], Before(PageCounts, i), PageCounts[i], longer, i)
    <3>1. CASE i \in 1 .. scan.at - 1  BY <3>1, <1>1, <1>2
    <3>2. CASE i = scan.at /\ at # scan.at  BY <3>2
    <3> QED  BY <3>1, <3>2, <1>4
  <2>5. pending = <<>> => Len(longer) = Before(PageCounts, at)
    <3> SUFFICES ASSUME pending = <<>> PROVE Len(longer) = Before(PageCounts, at)  OBVIOUS
    <3>1. at = scan.at + 1 /\ scan.at \in 1 .. Len(selection)  BY <1>4
    <3>2. Before(PageCounts, scan.at + 1) = Before(PageCounts, scan.at) + PageCounts[scan.at]
      BY <3>1, CountsGrow
    <3> QED  BY <3>1, <3>2, <1>4
  <2>6. pending # <<>> =>
          /\ at \in Readable
          /\ PendingNow(Loaders[at], PicturesAt[at], Before(PageCounts, at), longer, pending, at)
    OBVIOUS
  <2>7. scan'.since = writes' =>
          /\ scan'.counted = ScanPageCount'
          /\ \A i \in 1 .. scan'.at - 1 : ListedNow(Loaders'[i], Before(PageCounts', i), PageCounts'[i], scan'.inputs, i)
          /\ scan'.pending = <<>> => Len(scan'.inputs) = Before(PageCounts', scan'.at)
          /\ scan'.pending # <<>> =>
               /\ scan'.at \in Readable'
               /\ PendingNow(Loaders'[scan'.at], PicturesAt'[scan'.at], Before(PageCounts', scan'.at),
                             scan'.inputs, scan'.pending, scan'.at)
    BY <1>3, <2>1, <2>3, <2>4, <2>5, <2>6
  <2> QED  BY <2>7 DEF Unchanged
<1> QED  BY <1>1, <1>3, <1>4, <1>5, <1>6, <1>7 DEF ScanInv, Busy

\* A picture of a source that can be read is the next page, or the last one.
LEMMA HashStep ==
  ASSUME FilesType, ScanInv, HashNext
  PROVE  FilesType' /\ ScanInv'
<1> DEFINE p == Head(scan.pending)[1]
           at == scan.at
           last == Len(scan.pending) = 1
           x == Input(p, 0)
           more == <<x>>
           longer == scan.inputs \o more
<1>1. /\ scan.stage = "listing" /\ scan.pending # <<>>
      /\ UNCHANGED <<disk, stamp, writes, selection>>
  BY DEF HashNext, ScanOnly
<1>2. scan.since <= writes /\ Listing /\ Rendering /\ Unchanged  BY <1>1 DEF ScanInv, Busy
<1>3. /\ scan.pending \in Seq(Paths \X Nat) /\ scan.inputs \in Seq(ListedInput) /\ scan.at \in Nat
      /\ at \in 1 .. Len(selection) /\ selection[at] \in Paths \union FileFolders
      /\ PendingInOrder(selection[at], scan.inputs, scan.pending, at)
      /\ FolderInOrder(selection[at], scan.inputs, at)
  <2>1. /\ at \in 1 .. Len(selection) + 1 /\ at <= Len(selection)
        /\ PendingInOrder(selection[at], scan.inputs, scan.pending, at)
        /\ \A i \in 1 .. Len(selection) : FolderInOrder(selection[i], scan.inputs, i)
    BY <1>1, <1>2 DEF Listing
  <2>2. at \in 1 .. Len(selection)  BY <2>1, CountsTyped
  <2> QED  BY <2>1, <2>2, CountsTyped, ScanFields
<1>4. /\ Tail(scan.pending) \in Seq(Paths \X Nat) /\ Head(scan.pending) = scan.pending[1]
      /\ Head(scan.pending) \in Paths \X Nat
      /\ Tail(scan.pending) = <<>> => last
      /\ Tail(scan.pending) # <<>> => ~last
  <2> DEFINE s == scan.pending
  <2>1. s \in Seq(Paths \X Nat) /\ s # <<>>  BY <1>1, <1>3
  <2> HIDE DEF s
  <2>2. /\ Len(s) \in Nat \ {0} /\ 1 \in DOMAIN s
        /\ \A j \in DOMAIN s : s[j] \in Paths \X Nat
        /\ Head(s) = s[1]
        /\ Tail(s) \in Seq(Paths \X Nat)
        /\ Tail(s) = <<>> => Len(s) = 1
        /\ Tail(s) # <<>> => Len(s) # 1
    BY <2>1, TailFacts
  <2>3. Tail(s) \in Seq(Paths \X Nat) /\ Head(s) = s[1] /\ Head(s) \in Paths \X Nat
    BY <2>2, Zenon
  <2> QED  BY <2>2, <2>3, Zenon DEF s
<1>5. p \in Paths /\ p = scan.pending[1][1]  BY <1>4
<1>6. CASE scan' = Refused  BY <1>1, <1>6, RefusedType
<1>7. CASE scan' # Refused
  <2>1. /\ HashAuthenticated(p, Head(scan.pending)[2])
        /\ scan' = [scan EXCEPT !.pending = Tail(@), !.inputs = Append(@, x), !.at = IF last THEN @ + 1 ELSE @]
    BY <1>7 DEF HashNext
  <2>2. disk[p] # Absent  BY <2>1 DEF HashAuthenticated
  <2>3. x \in ListedInput /\ x.path = p /\ x.digest = disk[p] /\ x.page = 0 /\ x.source = at
    BY <1>5, <2>2, InputTyped
  <2> HIDE DEF x, p, last
  <2>4. /\ more \in Seq(ListedInput) /\ Len(more) = 1 /\ \A n \in DOMAIN more : more[n].source = at
        /\ Append(scan.inputs, x) = longer
    BY <1>3, <2>3
  <2> DEFINE next == IF last THEN at + 1 ELSE at
  <2>5. scan' = [scan EXCEPT !.at = next, !.pending = Tail(scan.pending), !.inputs = scan.inputs \o more]
    BY <2>1, <2>4, ScanFields
  <2>14. scan.at <= Len(selection)  BY <1>3, CountsTyped
  <2>6. /\ longer \in Seq(ListedInput) /\ Len(longer) = Len(scan.inputs) + 1
        /\ \A k \in DOMAIN scan.inputs : longer[k] = scan.inputs[k]
        /\ longer[Len(scan.inputs) + 1] = x
        /\ Added(longer, scan.inputs, at, 1)
    <3>0. longer = scan.inputs \o more  OBVIOUS
    <3>2. 1 \in DOMAIN more /\ more[1] = x  OBVIOUS
    <3> HIDE DEF more, longer
    <3>1. /\ longer \in Seq(ListedInput) /\ Len(longer) = Len(scan.inputs) + Len(more)
          /\ \A k \in DOMAIN scan.inputs : longer[k] = scan.inputs[k]
          /\ \A n \in DOMAIN more : longer[Len(scan.inputs) + n] = more[n]
          /\ Added(longer, scan.inputs, at, Len(more))
      BY <1>2, <2>4, <2>14, <3>0, ListedFurther
    <3> QED  BY <3>1, <3>2, <2>4
  <2>10. longer = scan.inputs \o more  OBVIOUS
  <2> HIDE DEF more, longer
  <2>7. /\ FolderInOrder(selection[at], longer, at)
        /\ Tail(scan.pending) # <<>> => PendingInOrder(selection[at], longer, Tail(scan.pending), at)
        /\ Tail(scan.pending) = <<>> => WholeListed(selection[at], longer, at)
    <3>1. longer[Len(scan.inputs) + 1].path = scan.pending[1][1]  BY <1>5, <2>3, <2>6
    <3> QED  BY <1>1, <1>3, <2>6, <3>1, HashedInOrder
  <2>8. ASSUME scan.since = writes
        PROVE  LET skipped == Before(PageCounts, at) IN
               /\ at \in Readable
               /\ PendingNow(Loaders[at], PicturesAt[at], skipped, longer, Tail(scan.pending), at)
               /\ Tail(scan.pending) = <<>> =>
                    /\ ListedNow(Loaders[at], skipped, PageCounts[at], longer, at)
                    /\ Len(longer) = skipped + PageCounts[at]
    <3> DEFINE pictures == Pictures(selection[at])
               skipped == Before(PageCounts, at)
               done == Len(scan.inputs) - skipped
    <3>1. /\ at \in Readable
          /\ PendingNow(Loaders[at], PicturesAt[at], skipped, scan.inputs, scan.pending, at)
      BY <1>1, <1>2, <2>8 DEF Unchanged
    <3>2. Loaders[at] = PageLoaders(selection[at]) /\ PicturesAt[at] = pictures
          /\ PageCounts[at] = PagesIn(selection[at]) /\ skipped \in Nat
      BY <1>3, CountsTyped, CountsGrow DEF Loaders, PicturesAt
    <3>3. \A q \in pictures : CanBeRead(q)  BY <3>1 DEF Readable
    <3>4. selection[at] \in FileFolders \/ Kind[selection[at]] = "image"  BY <1>3 DEF PendingInOrder
    <3>5. /\ PagesIn(selection[at]) = Cardinality(pictures)
          /\ Len(PageLoaders(selection[at])) = Cardinality(pictures)
          /\ \A n \in 1 .. Cardinality(pictures) : PageLoaders(selection[at])[n] = <<disk[Sorted(pictures)[n]], 0>>
      BY <1>3, <3>3, <3>4, PicturesTaken
    <3>6. /\ done \in Nat /\ done + Len(scan.pending) = Cardinality(pictures)
          /\ \A j \in DOMAIN scan.pending : scan.pending[j][1] = Sorted(pictures)[done + j]
      BY <3>1, <3>2 DEF PendingNow
    <3>7. Len(scan.pending) \in Nat \ {0} /\ 1 \in DOMAIN scan.pending  BY <1>1, <1>3, TailFacts
    <3>8. done + 1 \in 1 .. Cardinality(pictures) /\ p = Sorted(pictures)[done + 1]
      BY <3>6, <3>7, <1>5
    <3>9. PageOf(x) = Loaders[at][done + 1]  BY <2>3, <3>2, <3>5, <3>8 DEF PageOf
    <3>11. PageOf(longer[Len(scan.inputs) + 1]) =
             Loaders[at][Len(scan.inputs) - skipped + 1]
      BY <2>6, <3>9
    <3>12. PendingNow(Loaders[at], pictures, skipped, scan.inputs, scan.pending, at)  BY <3>1, <3>2
    <3>13. skipped \in Nat  BY <3>2
    <3>16. Len(scan.pending) = 1 => Len(longer) = skipped + Cardinality(pictures)
      <4>1. Len(scan.inputs) \in Nat /\ Len(longer) = Len(scan.inputs) + 1  BY <1>3, <2>6
      <4>2. done = Len(scan.inputs) - skipped  OBVIOUS
      <4> HIDE DEF pictures, skipped, done
      <4> QED  BY <3>6, <3>13, <4>1, <4>2
    <3> DEFINE loaders == Loaders[at]
               inputs == scan.inputs
               pending == scan.pending
    <3>14. /\ inputs \in Seq(ListedInput) /\ longer \in Seq(ListedInput)
           /\ pending \in Seq(Paths \X Nat) /\ pending # <<>> /\ at \in Nat
           /\ PendingNow(loaders, pictures, skipped, inputs, pending, at)
           /\ Len(longer) = Len(inputs) + 1
           /\ \A k \in DOMAIN inputs : longer[k] = inputs[k]
           /\ Added(longer, inputs, at, 1)
           /\ PageOf(longer[Len(inputs) + 1]) = loaders[Len(inputs) - skipped + 1]
      BY <1>1, <1>3, <2>6, <3>11, <3>12
    <3> HIDE DEF pictures, skipped, done, at, loaders, inputs, pending
    <3>10. PendingNow(loaders, pictures, skipped, longer, Tail(pending), at)
      BY <3>13, <3>14, PendingNowStep
    <3>15. ASSUME Len(pending) = 1, Len(loaders) = Cardinality(pictures)
           PROVE  ListedNow(loaders, skipped, Cardinality(pictures), longer, at)
      BY <3>13, <3>14, <3>15, PendingNowStep
    <3>17. Tail(pending) = <<>> => Len(pending) = 1  BY <3>14, TailFacts, Zenon
    <3> QED  BY <3>1, <3>2, <3>5, <3>10, <3>15, <3>16, <3>17 DEF skipped, at, loaders, pending
  <2>9. next \in Nat /\ next \in {scan.at, scan.at + 1} /\ (Tail(scan.pending) = <<>> => next = scan.at + 1)
        /\ (next = scan.at => Tail(scan.pending) # <<>>) /\ (next # scan.at => Tail(scan.pending) = <<>>)
    <3>1. scan.at \in Nat  BY <1>3
    <3>2. scan.at + 1 \in Nat /\ scan.at + 1 # scan.at  BY <3>1
    <3>3. CASE Tail(scan.pending) = <<>>
      <4>1. last  BY <1>4, <3>3
      <4>2. next = scan.at + 1  BY <4>1, Zenon
      <4> HIDE DEF next
      <4> QED  BY <3>2, <3>3, <4>2, Zenon
    <3>4. CASE Tail(scan.pending) # <<>>
      <4>1. ~last  BY <1>4, <3>4
      <4>2. next = scan.at  BY <4>1, Zenon
      <4> HIDE DEF next
      <4> QED  BY <3>1, <3>2, <3>4, <4>2, Zenon
    <3> QED  BY <3>3, <3>4, Zenon
  <2> HIDE DEF next
  <2>11. /\ next = scan.at => PendingInOrder(selection[scan.at], longer, Tail(scan.pending), scan.at)
         /\ next # scan.at => WholeListed(selection[scan.at], longer, scan.at) /\ Tail(scan.pending) = <<>>
    BY <2>7, <2>9
  <2>12. scan.since = writes /\ next # scan.at =>
           /\ ListedNow(Loaders[scan.at], Before(PageCounts, scan.at), PageCounts[scan.at], longer, scan.at)
           /\ Len(longer) = Before(PageCounts, scan.at) + PageCounts[scan.at]
    BY <2>8, <2>9
  <2>13. scan.since = writes /\ next = scan.at =>
           /\ scan.at \in Readable
           /\ PendingNow(Loaders[scan.at], PicturesAt[scan.at], Before(PageCounts, scan.at),
                         longer, Tail(scan.pending), scan.at)
    BY <2>8
  <2> QED
    BY <1>1, <1>3, <1>4, <2>4, <2>5, <2>7, <2>9, <2>10, <2>11, <2>12, <2>13, <2>14, ListingNext
<1> QED  BY <1>6, <1>7

\* A function on 1 .. n is a sequence.
LEMMA FunctionAsSeq ==
  ASSUME NEW n \in Nat, NEW S, NEW f \in [1 .. n -> S]
  PROVE  f \in Seq(S) /\ Len(f) = n /\ DOMAIN f = 1 .. n
  OBVIOUS

\* Before a source is looked at nothing of it is listed.
LEMMA NothingListed ==
  ASSUME FilesType, Listing, scan.pending = <<>>
  PROVE  ListedOf(scan.inputs, scan.at) = {}
<1>1. scan.at \in Nat  BY ScanFields
<1>2. \A k \in DOMAIN scan.inputs : scan.inputs[k].source # scan.at
  <2>1. \A k \in DOMAIN scan.inputs : scan.inputs[k].source \in 1 .. scan.at /\ scan.inputs[k].source < scan.at
    BY DEF Listing
  <2> QED  BY <2>1, <1>1
<1> QED  BY <1>2, Zenon DEF ListedOf

\* The inputs of a PDF are its pages, in their order, and as many as were counted.
PdfListed(p, more) ==
  /\ disk[p] \in Versions[p] /\ PagesOf[disk[p]] \in Nat
  /\ PagesIn(p) = PagesOf[disk[p]]
  /\ more \in Seq(ListedInput) /\ Len(more) = PagesOf[disk[p]]
  /\ \A n \in 1 .. PagesOf[disk[p]] : /\ n \in DOMAIN more /\ more[n].source = scan.at
                                        /\ more[n].digest = disk[p] /\ more[n].page = n
  /\ Len(PageLoaders(p)) = PagesOf[disk[p]]
  /\ \A n \in 1 .. PagesOf[disk[p]] : PageLoaders(p)[n] = <<disk[p], n>>

\* The pages of a PDF are listed at once.
LEMMA PdfPages ==
  ASSUME FilesType, NEW p \in Paths, p \notin FileFolders, Kind[p] = "pdf", CanBeRead(p),
         NEW more, more = [n \in 1 .. PagesOf[disk[p]] |-> Input(p, n)]
  PROVE  PdfListed(p, more)
<1> DEFINE count == PagesOf[disk[p]]
<1>1. disk[p] # Absent  BY DEF CanBeRead
<1>2. disk[p] \in Versions[p] /\ count \in Nat  BY <1>1, VersionHeld
<1>3. PagesIn(p) = count  BY <1>1 DEF PagesIn
<1>4. PageLoaders(p) = [n \in 1 .. count |-> <<disk[p], n>>]  BY DEF PageLoaders
<1>5. \A n \in 1 .. count :
        /\ Input(p, n) \in ListedInput /\ Input(p, n).source = scan.at
        /\ Input(p, n).digest = disk[p] /\ Input(p, n).page = n
  <2>1. \A n \in 1 .. count : n \in Nat  BY <1>2
  <2> QED  BY <2>1, <1>1, InputTyped
<1> HIDE DEF count
<1>6. more = [n \in 1 .. count |-> Input(p, n)]  BY DEF count
<1>7. more \in Seq(ListedInput) /\ Len(more) = count /\ DOMAIN more = 1 .. count
  <2>1. more \in [1 .. count -> ListedInput]  BY <1>5, <1>6
  <2> QED  BY <1>2, <2>1, FunctionAsSeq
<1>8. \A n \in 1 .. count : n \in DOMAIN more /\ more[n] = Input(p, n)  BY <1>6
<1>9. Len(PageLoaders(p)) = count  BY <1>2, <1>4
<1>10. \A n \in 1 .. count : PageLoaders(p)[n] = <<disk[p], n>>  BY <1>4
<1> QED  BY <1>2, <1>3, <1>5, <1>7, <1>8, <1>9, <1>10 DEF PdfListed, count

\* A PDF that can be read is listed whole, in one version.
LEMMA ListPdf ==
  ASSUME FilesType, ScanInv, ToList, UNCHANGED <<disk, stamp, writes, selection>>,
         NEW p, p = selection[scan.at], p \notin FileFolders, Kind[p] = "pdf", CanBeRead(p),
         scan' = EnumeratePdf(p)
  PROVE  FilesType' /\ ScanInv'
<1> DEFINE count == PagesOf[disk[p]]
           more == [n \in 1 .. count |-> Input(p, n)]
           longer == scan.inputs \o more
           at == scan.at
<1>1. /\ scan.stage = "listing" /\ scan.pending = <<>> /\ at <= Len(selection)
      /\ Listing /\ Unchanged
  BY DEF ToList, ScanInv, Busy
<1>2. /\ at \in Nat /\ at \in 1 .. Len(selection) /\ p \in Paths
      /\ scan.inputs \in Seq(ListedInput) /\ Len(scan.inputs) \in Nat
  <2>1. at \in 1 .. Len(selection) + 1  BY <1>1 DEF Listing
  <2>2. at \in 1 .. Len(selection)  BY <1>1, <2>1, CountsTyped
  <2> QED  BY <2>2, CountsTyped, ScanFields
<1>3. /\ disk[p] \in Versions[p] /\ count \in Nat
      /\ PagesIn(p) = count
      /\ more \in Seq(ListedInput) /\ Len(more) = count
      /\ \A n \in 1 .. count : /\ n \in DOMAIN more /\ more[n].source = at
                               /\ more[n].digest = disk[p] /\ more[n].page = n
      /\ Len(PageLoaders(p)) = count
      /\ \A n \in 1 .. count : PageLoaders(p)[n] = <<disk[p], n>>
  <2>1. p \in Paths /\ at = scan.at  BY <1>2
  <2>2. more = [n \in 1 .. PagesOf[disk[p]] |-> Input(p, n)] /\ count = PagesOf[disk[p]]  OBVIOUS
  <2>3. p \notin FileFolders /\ Kind[p] = "pdf" /\ CanBeRead(p)  OBVIOUS
  <2>4. PdfListed(p, more)
    <3> HIDE DEF more, count, at, longer
    <3> QED  BY <2>1, <2>2, <2>3, PdfPages, Zenon
  <2>5. at = scan.at /\ count = PagesOf[disk[p]]  OBVIOUS
  <2> HIDE DEF more, count, at, longer
  <2> QED  BY <2>4, <2>5 DEF PdfListed
<1>4. scan' = [scan EXCEPT !.at = at + 1, !.pending = <<>>, !.inputs = scan.inputs \o more]
  <2>1. scan' = [scan EXCEPT !.at = at + 1, !.inputs = scan.inputs \o more]  BY DEF EnumeratePdf
  <2> HIDE DEF more, at
  <2> QED  BY <2>1, <1>1, ScanFields
<1>5. longer = scan.inputs \o more /\ DOMAIN more = 1 .. count  OBVIOUS
<1> HIDE DEF more, count, longer, at
<1>6. \A n \in DOMAIN more : more[n].source = at  BY <1>3, <1>5
<1>7. /\ longer \in Seq(ListedInput) /\ Len(longer) = Len(scan.inputs) + count
      /\ \A n \in 1 .. count : longer[Len(scan.inputs) + n] = more[n]
      /\ Added(longer, scan.inputs, at, count)
  <2>1. /\ longer \in Seq(ListedInput) /\ Len(longer) = Len(scan.inputs) + Len(more)
        /\ \A n \in DOMAIN more : longer[Len(scan.inputs) + n] = more[n]
        /\ Added(longer, scan.inputs, at, Len(more))
    <3>1. scan.at <= Len(selection) /\ \A n \in DOMAIN more : more[n].source = scan.at  BY <1>1, <1>6 DEF at
    <3>2. more \in Seq(ListedInput) /\ longer = scan.inputs \o more /\ Listing  BY <1>1, <1>3, <1>5
    <3> QED  BY <3>1, <3>2, ListedFurther DEF at
  <2> QED  BY <1>3, <2>1
<1>8. ListedOf(longer, at) = Len(scan.inputs) + 1 .. Len(scan.inputs) + count
  <2>1. ListedOf(scan.inputs, at) = {}  BY <1>1, NothingListed DEF at
  <2> QED  BY <2>1, <1>7 DEF Added
<1>9. FolderInOrder(selection[at], longer, at)  BY DEF FolderInOrder, at
<1>10. WholeListed(selection[at], longer, at)
  <2>1. \A n \in 1 .. count : longer[Len(scan.inputs) + n].digest = disk[p] /\ longer[Len(scan.inputs) + n].page = n
    <3>1. \A n \in 1 .. count : longer[Len(scan.inputs) + n] = more[n]  BY <1>7, Zenon
    <3>2. \A n \in 1 .. count : more[n].digest = disk[p] /\ more[n].page = n  BY <1>3, Zenon
    <3> QED  BY <3>1, <3>2, Zenon
  <2>2. Len(scan.inputs) \in 0 .. Len(longer)  BY <1>2, <1>3, <1>7
  <2>3. \E v \in Versions[p], skipped \in 0 .. Len(longer) :
          /\ ListedOf(longer, at) = skipped + 1 .. skipped + PagesOf[v]
          /\ \A n \in 1 .. PagesOf[v] : longer[skipped + n].digest = v /\ longer[skipped + n].page = n
    <3>1. count = PagesOf[disk[p]]  BY DEF count
    <3>2. disk[p] \in Versions[p]  BY <1>3, Zenon
    <3> QED  BY <2>1, <2>2, <1>8, <3>1, <3>2, Zenon
  <2>4. Kind[p] \in {"pdf", "image"} /\ Kind[p] # "image"  OBVIOUS
  <2>5. selection[at] = p  BY DEF at
  <2> QED  BY <2>3, <2>4, <2>5, Zenon DEF WholeListed
<1>11. ASSUME scan.since = writes
       PROVE  /\ ListedNow(Loaders[at], Before(PageCounts, at), PageCounts[at], longer, at)
              /\ Len(longer) = Before(PageCounts, at) + PageCounts[at]
  <2>1. Len(scan.inputs) = Before(PageCounts, at)  BY <1>1, <1>11 DEF Unchanged, at
  <2>2. PageCounts[at] = count /\ Loaders[at] = PageLoaders(p)
    BY <1>2, <1>3, CountsTyped DEF Loaders, at
  <2>3. \A n \in 1 .. count : PageOf(longer[Len(scan.inputs) + n]) = PageLoaders(p)[n]
    <3>1. \A n \in 1 .. count : longer[Len(scan.inputs) + n] = more[n]  BY <1>7, Zenon
    <3>2. \A n \in 1 .. count : /\ more[n].digest = disk[p] /\ more[n].page = n
                               /\ PageLoaders(p)[n] = <<disk[p], n>>
      BY <1>3, Zenon
    <3>4. ASSUME NEW n \in 1 .. count
          PROVE  PageOf(longer[Len(scan.inputs) + n]) = PageLoaders(p)[n]
      <4>1. longer[Len(scan.inputs) + n] = more[n]  BY <3>1, Zenon
      <4>2. more[n].digest = disk[p] /\ more[n].page = n /\ PageLoaders(p)[n] = <<disk[p], n>>  BY <3>2, Zenon
      <4>3. PageOf(more[n]) = <<more[n].digest, more[n].page>>  BY DEF PageOf
      <4> QED  BY <4>1, <4>2, <4>3, Zenon
    <3> QED  BY <3>4, Zenon
  <2> QED  BY <2>1, <2>2, <2>3, <1>3, <1>7, <1>8 DEF ListedNow
<1>12. at + 1 \in Nat /\ at + 1 # at /\ at + 1 \in {at, at + 1}  BY <1>2
<1>13. <<>> \in Seq(Paths \X Nat)  OBVIOUS
<1> QED
  BY <1>1, <1>3, <1>4, <1>5, <1>6, <1>9, <1>10, <1>11, <1>12, <1>13, ListingNext DEF at

\* The pictures of a source wait in their order; of a folder without any nothing does.
LEMMA Queued ==
  ASSUME FilesType, NEW source \in Paths \union FileFolders,
         NEW waiting, NEW files, files = Sorted(Pictures(source)),
         waiting = [i \in DOMAIN files |-> <<files[i], stamp[files[i]]>>]
  PROVE  LET count == Cardinality(Pictures(source)) IN
         /\ count \in Nat /\ files \in [1 .. count -> Pictures(source)]
         /\ waiting \in Seq(Paths \X Nat) /\ Len(waiting) = count /\ DOMAIN waiting = 1 .. count
         /\ \A j \in 1 .. count : waiting[j][1] = files[j]
         /\ waiting = <<>> <=> count = 0
<1> DEFINE count == Cardinality(Pictures(source))
<1>1. count \in Nat /\ files \in [1 .. count -> Pictures(source)] /\ Pictures(source) \subseteq Paths
  BY PicturesOrdered
<1>2. \A p \in Paths : stamp[p] \in Nat  BY VersionHeld
<1> HIDE DEF count
<1>3. waiting = [i \in 1 .. count |-> <<files[i], stamp[files[i]]>>]  BY <1>1
<1>4. \A i \in 1 .. count : files[i] \in Paths  BY <1>1
<1>5. waiting \in [1 .. count -> Paths \X Nat]  BY <1>2, <1>3, <1>4
<1>6. waiting \in Seq(Paths \X Nat) /\ Len(waiting) = count /\ DOMAIN waiting = 1 .. count
  BY <1>1, <1>5, FunctionAsSeq
<1>7. \A j \in 1 .. count : waiting[j][1] = files[j]  BY <1>3
<1>8. waiting = <<>> <=> count = 0
  <2>1. waiting = <<>> => Len(waiting) = 0  OBVIOUS
  <2>2. Len(waiting) = 0 => waiting = <<>>  BY <1>6, EmptySeq
  <2> QED  BY <2>1, <2>2, <1>6
<1> QED  BY <1>1, <1>6, <1>7, <1>8 DEF count

\* A source with no picture is done, one with pictures waits for them.
LEMMA ListImages ==
  ASSUME FilesType, ScanInv, ToList, UNCHANGED <<disk, stamp, writes, selection>>,
         NEW source, source = selection[scan.at],
         source \in FileFolders \/ Kind[source] = "image",
         NEW pictures, pictures = Pictures(source),
         \A p \in pictures : CanBeRead(p),
         scan' = EnumerateImages(pictures)
  PROVE  FilesType' /\ ScanInv'
<1> DEFINE files == Sorted(pictures)
           waiting == [i \in DOMAIN files |-> <<files[i], stamp[files[i]]>>]
           at == scan.at
           next == IF pictures = {} THEN at + 1 ELSE at
           count == Cardinality(pictures)
           more == <<>>
           longer == scan.inputs \o more
<1>1. /\ scan.stage = "listing" /\ scan.pending = <<>> /\ at <= Len(selection)
      /\ Listing /\ Unchanged
  BY DEF ToList, ScanInv, Busy
<1>2. /\ at \in Nat /\ at \in 1 .. Len(selection) /\ source \in Paths \union FileFolders
      /\ scan.inputs \in Seq(ListedInput) /\ Len(scan.inputs) \in Nat
  <2>1. at \in 1 .. Len(selection) + 1  BY <1>1 DEF Listing
  <2>2. at \in 1 .. Len(selection)  BY <1>1, <2>1, CountsTyped
  <2> QED  BY <2>2, CountsTyped, ScanFields
<1>3. /\ count \in Nat /\ files \in [1 .. count -> pictures] /\ pictures \subseteq Paths
      /\ source \in FileFolders => pictures \subseteq Inside[source]
      /\ \A a, b \in 1 .. count : a < b => Place[files[a]] < Place[files[b]]
      /\ source \notin FileFolders => pictures = {source} /\ count = 1
      /\ IsFiniteSet(pictures)
  BY <1>2, PicturesOrdered
<1>4. /\ waiting \in Seq(Paths \X Nat) /\ Len(waiting) = count /\ DOMAIN waiting = 1 .. count
      /\ \A j \in 1 .. count : waiting[j][1] = files[j]
      /\ waiting = <<>> <=> count = 0
  BY <1>2, Queued
<1>5. pictures = {} <=> count = 0  BY <1>3, FS_EmptySet
<1>6. longer = scan.inputs /\ longer = scan.inputs \o more /\ more \in Seq(ListedInput)
      /\ \A n \in DOMAIN more : more[n].source = at
  BY <1>2
<1>7. scan' = [scan EXCEPT !.at = next, !.pending = waiting, !.inputs = scan.inputs \o more]
  <2>1. scan' = [scan EXCEPT !.pending = waiting, !.at = next]  BY DEF EnumerateImages
  <2>2. scan.inputs = scan.inputs \o more  BY <1>6
  <2> HIDE DEF waiting, next, at, more
  <2> QED  BY <2>1, <2>2, ScanFields
<1>8. next \in Nat /\ next \in {at, at + 1} /\ (waiting = <<>> => next = at + 1)
      /\ (next = at => count # 0) /\ (next # at => count = 0 /\ waiting = <<>>)
  <2>1. at \in Nat  BY <1>2
  <2>2. at + 1 \in Nat /\ at + 1 # at
    <3> HIDE DEF at
    <3> QED  BY <2>1
  <2>3. (pictures = {} <=> count = 0) /\ (waiting = <<>> <=> count = 0)  BY <1>4, <1>5, Zenon
  <2>4. CASE pictures = {}
    <3>1. next = at + 1  BY <2>4, Zenon
    <3> HIDE DEF next, at, count, waiting
    <3> QED  BY <2>2, <2>3, <2>4, <3>1, Zenon
  <2>5. CASE pictures # {}
    <3>1. next = at  BY <2>5, Zenon
    <3> HIDE DEF next, at, count, waiting
    <3> QED  BY <2>1, <2>2, <2>3, <2>5, <3>1, Zenon
  <2> QED  BY <2>4, <2>5, Zenon
<1>9. ListedOf(scan.inputs, at) = {}  BY <1>1, NothingListed
<1>10. /\ PageCounts[at] = PagesIn(source) /\ Loaders[at] = PageLoaders(source)
       /\ PicturesAt[at] = pictures /\ at \in Readable
       /\ PagesIn(source) = count /\ Len(PageLoaders(source)) = count
  <2>1. PagesIn(source) = count /\ Len(PageLoaders(source)) = count  BY <1>2, PicturesTaken
  <2>2. PicturesAt[at] = pictures /\ at \in Readable  BY <1>2, CountsTyped DEF PicturesAt, Readable
  <2> QED  BY <2>1, <2>2, <1>2, CountsTyped DEF Loaders
<1> HIDE DEF files, waiting, at, next, count, more, longer
<1>11. FolderInOrder(selection[at], longer, at)
  BY <1>6, <1>1, <1>2 DEF Listing
<1>12. next = at => PendingInOrder(selection[at], longer, waiting, at)
  <2>1. ASSUME source \in FileFolders
        PROVE  /\ \A j \in DOMAIN waiting : waiting[j][1] \in Inside[source]
               /\ \A j, l \in DOMAIN waiting : j < l => Place[waiting[j][1]] < Place[waiting[l][1]]
    <3>1. \A j \in DOMAIN waiting : files[j] \in Inside[source] /\ waiting[j][1] = files[j]
      BY <1>3, <1>4, <2>1
    <3> QED  BY <3>1, <1>3, <1>4
  <2>2. ASSUME source \notin FileFolders
        PROVE  Kind[source] = "image" /\ Len(waiting) = 1 /\ waiting[1][1] = source
    <3>1. count = 1 /\ pictures = {source}  BY <1>3, <2>2
    <3>2. files[1] \in pictures  BY <1>3, <3>1
    <3> QED  BY <1>4, <2>2, <3>1, <3>2
  <2>3. ListedOf(longer, at) = {}  BY <1>6, <1>9
  <2> QED  BY <2>1, <2>2, <2>3 DEF PendingInOrder, at
<1>13. next # at => WholeListed(selection[at], longer, at) /\ waiting = <<>>
  <2>1. next # at => source \in FileFolders /\ waiting = <<>>  BY <1>3, <1>8
  <2> QED  BY <2>1 DEF WholeListed, at
<1>18. ListedOf(longer, at) = {} /\ \A n \in Nat : n + 1 .. n + 0 = {}
  <2>1. \A n \in Nat : n + 1 .. n + 0 = {}  OBVIOUS
  <2> QED  BY <2>1, <1>6, <1>9
<1>14. ASSUME scan.since = writes
       PROVE  Len(scan.inputs) = Before(PageCounts, at)
  BY <1>1, <1>14 DEF Unchanged, at
<1>15. scan.since = writes /\ next # at =>
         /\ ListedNow(Loaders[at], Before(PageCounts, at), PageCounts[at], longer, at)
         /\ Len(longer) = Before(PageCounts, at) + PageCounts[at]
  <2> SUFFICES ASSUME scan.since = writes, next # at
               PROVE  /\ ListedNow(Loaders[at], Before(PageCounts, at), PageCounts[at], longer, at)
                      /\ Len(longer) = Before(PageCounts, at) + PageCounts[at]
    OBVIOUS
  <2>1. Before(PageCounts, at) \in Nat /\ Before(PageCounts, at) = Len(longer)  BY <1>2, <1>6, <1>14
  <2>2. PageCounts[at] = 0 /\ Len(Loaders[at]) = 0  BY <1>8, <1>10
  <2>3. ListedOf(longer, at) = Before(PageCounts, at) + 1 .. Before(PageCounts, at) + 0
    BY <1>18, <2>1, Zenon
  <2> QED  BY <2>1, <2>2, <2>3 DEF ListedNow
<1>16. scan.since = writes /\ next = at =>
         /\ at \in Readable
         /\ PendingNow(Loaders[at], PicturesAt[at], Before(PageCounts, at), longer, waiting, at)
  <2> SUFFICES ASSUME scan.since = writes
               PROVE  PendingNow(Loaders[at], pictures, Before(PageCounts, at), longer, waiting, at)
    BY <1>10
  <2> DEFINE skipped == Before(PageCounts, at)
  <2>1. skipped \in Nat /\ skipped = Len(longer)  BY <1>2, <1>6, <1>14
  <2> HIDE DEF skipped
  <2>2. Len(longer) - skipped = 0  BY <2>1
  <2>3. ListedOf(longer, at) = skipped + 1 .. skipped + 0  BY <1>18, <2>1, Zenon
  <2>4. 0 + Len(waiting) = Cardinality(pictures)  BY <1>3, <1>4 DEF count
  <2>5. \A j \in DOMAIN waiting : waiting[j][1] = Sorted(pictures)[0 + j]  BY <1>4, <1>3 DEF files
  <2> QED  BY <2>2, <2>3, <2>4, <2>5 DEF PendingNow, skipped
<1>17. scan.at <= Len(selection)  BY <1>1 DEF at
<1> QED
  BY <1>1, <1>4, <1>6, <1>7, <1>8, <1>11, <1>12, <1>13, <1>15, <1>16, <1>17, ListingNext DEF at

\* Whatever a source is, looking at it keeps the list in order.
LEMMA ListStep ==
  ASSUME FilesType, ScanInv, ListSource
  PROVE  FilesType' /\ ScanInv'
<1> DEFINE source == selection[scan.at]
<1>1. ToList /\ UNCHANGED <<disk, stamp, writes, selection>>  BY DEF ListSource, ScanOnly
<1>2. source \in Paths \union FileFolders
  <2>1. Listing /\ scan.at <= Len(selection)  BY <1>1 DEF ToList, ScanInv, Busy
  <2>2. scan.at \in 1 .. Len(selection)  BY <2>1, CountsTyped DEF Listing
  <2> QED  BY <2>2, CountsTyped
<1>3. CASE scan' = Refused  BY <1>1, <1>3, RefusedType
<1>4. CASE scan' # Refused /\ source \in FileFolders
  <2>1. scan' = EnumerateImages(Pictures(source))  BY <1>4 DEF ListSource, Pictures
  <2>2. \A p \in Pictures(source) : CanBeRead(p)  BY <2>1, <1>4 DEF EnumerateImages
  <2> HIDE DEF source
  <2> QED  BY <1>1, <1>4, <2>1, <2>2, ListImages DEF source
<1>5. CASE scan' # Refused /\ source \notin FileFolders
  <2>1. Kind[source] \in {"pdf", "image"}
    <3>1. Kind[source] \in {"pdf", "image", "other"}  BY <1>2, <1>5, SourceAssumption
    <3> QED  BY <3>1, <1>5 DEF ListSource
  <2>2. CASE Kind[source] = "pdf"
    <3>1. scan' = EnumeratePdf(source)  BY <1>5, <2>2 DEF ListSource
    <3>2. CanBeRead(source)  BY <3>1, <1>5 DEF EnumeratePdf
    <3> QED  BY <1>1, <1>5, <2>2, <3>1, <3>2, ListPdf
  <2>3. CASE Kind[source] = "image"
    <3>1. scan' = EnumerateImages(Pictures(source))  BY <1>5, <2>3 DEF ListSource, Pictures
    <3>2. \A p \in Pictures(source) : CanBeRead(p)  BY <3>1, <1>5 DEF EnumerateImages
    <3> QED  BY <1>1, <2>3, <3>1, <3>2, ListImages
  <2> QED  BY <2>1, <2>2, <2>3
<1> QED  BY <1>3, <1>4, <1>5

\* When the list is complete only pages are added.
LEMMA RenderingStep ==
  ASSUME FilesType, Listing, Unchanged, scan.since <= writes, UNCHANGED <<disk, stamp, writes, selection>>,
         scan.at = Len(selection) + 1, scan.pending = <<>>,
         NEW stage \in {"rendering", "ready"}, NEW pages \in Seq(PreparedPage),
         scan' = [scan EXCEPT !.stage = stage, !.pages = pages],
         Prepared(pages, scan.inputs),
         stage = "rendering" => Len(pages) < Len(scan.inputs),
         stage = "ready" => Len(pages) = Len(scan.inputs)
  PROVE  FilesType' /\ ScanInv'
<1>1. /\ scan'.stage = stage /\ scan'.pages = pages
      /\ scan'.at = scan.at /\ scan'.pending = scan.pending /\ scan'.inputs = scan.inputs
      /\ scan'.counted = scan.counted /\ scan'.since = scan.since
  BY ScanFields
<1>2. FilesType'
  <2>1. scan' = [stage |-> stage, at |-> scan.at, pending |-> scan.pending, inputs |-> scan.inputs,
                 pages |-> pages, counted |-> scan.counted, since |-> scan.since,
                 failed |-> scan.failed, originals |-> scan.originals, reviews |-> scan.reviews]
    BY ScanFields
  <2>2. scan' \in ScanRecords  BY <2>1, ScanFields DEF ScanRecords
  <2> QED  BY <2>2 DEF FilesType
<1>3. Listing'  BY <1>1 DEF Listing
<1>4. Rendering'  BY <1>1 DEF Rendering, Ready
<1>5. Unchanged'
  <2>1. /\ PageCounts' = PageCounts /\ ScanPageCount' = ScanPageCount
        /\ Loaders' = Loaders /\ PicturesAt' = PicturesAt /\ Readable' = Readable
    BY SameFiles
  <2> QED  BY <1>1, <2>1 DEF Unchanged
<1> QED  BY <1>1, <1>2, <1>3, <1>4, <1>5 DEF ScanInv

\* With every source listed, rendering begins.
LEMMA AllListedStep ==
  ASSUME FilesType, ScanInv, AllListed
  PROVE  FilesType' /\ ScanInv'
<1>1. /\ scan.stage = "listing" /\ scan.pending = <<>> /\ scan.at > Len(selection)
      /\ UNCHANGED <<disk, stamp, writes, selection>>
  BY DEF AllListed, ScanOnly
<1>2. scan.since <= writes /\ Listing /\ Rendering /\ Unchanged  BY <1>1 DEF ScanInv, Busy
<1>3. CASE scan' = Refused  BY <1>1, <1>3, RefusedType
<1>4. CASE scan' # Refused
  <2>1. scan.inputs # <<>> /\ scan' = [scan EXCEPT !.stage = "rendering"]  BY <1>4 DEF AllListed
  <2>2. scan.pages = <<>>  BY <1>1, <1>2 DEF Rendering
  <2>3. scan' = [scan EXCEPT !.stage = "rendering", !.pages = <<>>]  BY <2>1, <2>2, ScanFields
  <2>4. scan.at = Len(selection) + 1
    <3>1. scan.at \in 1 .. Len(selection) + 1 /\ Len(selection) \in Nat  BY <1>2, CountsTyped DEF Listing
    <3> QED  BY <3>1, <1>1
  <2>5. Len(<<>>) < Len(scan.inputs)
    <3>1. scan.inputs \in Seq(ListedInput)  BY ScanFields
    <3>2. Len(scan.inputs) \in Nat /\ Len(scan.inputs) # 0  BY <2>1, <3>1, EmptySeq
    <3> QED  BY <3>2
  <2>6. Prepared(<<>>, scan.inputs)  BY DEF Prepared
  <2>7. <<>> \in Seq(PreparedPage)  OBVIOUS
  <2> QED  BY <1>1, <1>2, <2>3, <2>4, <2>5, <2>6, <2>7, RenderingStep
<1> QED  BY <1>3, <1>4

\* A page is made of its input if the file still is what was listed.
LEMMA PreparePageStep ==
  ASSUME FilesType, ScanInv, PreparePage
  PROVE  FilesType' /\ ScanInv'
<1> DEFINE ordinal == Len(scan.pages)
           input == scan.inputs[ordinal + 1]
           ref == BuildPageRef(scan.inputs, ordinal)
           page == [id |-> ref.id, label |-> ref.label, path |-> input.path, source |-> input.source,
                    bytes |-> <<disk[input.path], input.page>>, read |-> writes]
           pages == Append(scan.pages, page)
           stage == IF ordinal + 1 = Len(scan.inputs) THEN "ready" ELSE "rendering"
<1>1. /\ scan.stage = "rendering"
      /\ UNCHANGED <<disk, stamp, writes, selection>>
  BY DEF PreparePage, ScanOnly
<1>2. scan.since <= writes /\ Listing /\ Rendering /\ Unchanged  BY <1>1 DEF ScanInv, Busy
<1>3. CASE scan' = Refused  BY <1>1, <1>3, RefusedType
<1>4. CASE scan' # Refused
  <2>1. SamePage(input) /\ scan' = [scan EXCEPT !.pages = pages, !.stage = stage]
    <3>1. SamePage(input)  BY <1>4 DEF PreparePage
    <3>2. scan' = [scan EXCEPT !.pages = Append(@, page),
                               !.stage = IF ordinal + 1 = Len(scan.inputs) THEN "ready" ELSE @]
      BY <1>4 DEF PreparePage
    <3> QED  BY <3>1, <3>2, <1>1, ScanFields
  <2>2. /\ scan.inputs \in Seq(ListedInput) /\ scan.pages \in Seq(PreparedPage)
        /\ ordinal \in Nat /\ Len(scan.inputs) \in Nat
        /\ DOMAIN scan.inputs = 1 .. Len(scan.inputs)
    BY ScanFields
  <2>3. ordinal < Len(scan.inputs) /\ Prepared(scan.pages, scan.inputs)  BY <1>1, <1>2 DEF Rendering
  <2>4. ordinal + 1 \in DOMAIN scan.inputs
    <3> HIDE DEF ordinal
    <3> QED  BY <2>2, <2>3
  <2>5. page = [id |-> ref.id, label |-> ref.label, path |-> input.path, source |-> input.source,
                bytes |-> <<input.digest, input.page>>, read |-> writes]
    BY <2>1 DEF SamePage
  <2>6. page \in PreparedPage
    <3>1. writes \in Nat  BY DEF FilesType
    <3> QED  BY <2>2, <2>4, <2>5, <3>1, PageIsTyped
  <2>7. /\ page.id = ref.id /\ page.label = ref.label /\ page.path = input.path
        /\ page.source = input.source /\ page.bytes = PageOf(input)
    BY <2>5 DEF PageOf
  <2> HIDE DEF page
  <2>8. /\ pages \in Seq(PreparedPage) /\ Len(pages) = ordinal + 1 /\ DOMAIN pages = 1 .. ordinal + 1
        /\ pages[ordinal + 1] = page
        /\ \A a \in 1 .. ordinal : a \in DOMAIN scan.pages /\ pages[a] = scan.pages[a]
    BY <2>2, <2>6
  <2> HIDE DEF pages
  <2>9. Prepared(pages, scan.inputs)
    <3> SUFFICES ASSUME NEW a \in DOMAIN pages
                 PROVE  /\ a \in DOMAIN scan.inputs
                        /\ pages[a].id = BuildPageRef(scan.inputs, a - 1).id
                        /\ pages[a].label = BuildPageRef(scan.inputs, a - 1).label
                        /\ pages[a].path = scan.inputs[a].path /\ pages[a].source = scan.inputs[a].source
                        /\ pages[a].bytes = PageOf(scan.inputs[a])
      BY DEF Prepared
    <3>1. CASE a \in 1 .. ordinal
      <4>1. a \in DOMAIN scan.pages /\ pages[a] = scan.pages[a]  BY <3>1, <2>8
      <4> QED  BY <4>1, <2>3 DEF Prepared
    <3>2. CASE a = ordinal + 1
      <4>1. a - 1 = ordinal  BY <3>2, <2>2
      <4>2. pages[a] = page /\ scan.inputs[a] = input /\ ref = BuildPageRef(scan.inputs, a - 1)
        BY <3>2, <4>1, <2>8
      <4> QED  BY <4>2, <3>2, <2>4, <2>7
    <3>3. a \in 1 .. ordinal \/ a = ordinal + 1
      <4> HIDE DEF ordinal
      <4> QED  BY <2>2, <2>8
    <3> QED  BY <3>1, <3>2, <3>3
  <2>10. /\ stage \in {"rendering", "ready"}
         /\ stage = "rendering" => Len(pages) < Len(scan.inputs)
         /\ stage = "ready" => Len(pages) = Len(scan.inputs)
    <3> HIDE DEF ordinal
    <3> QED  BY <2>2, <2>3, <2>8
  <2>11. scan.at = Len(selection) + 1 /\ scan.pending = <<>>  BY <1>1, <1>2 DEF Listing
  <2>12. scan' = [scan EXCEPT !.stage = stage, !.pages = pages]  BY <2>1
  <2> HIDE DEF stage
  <2> QED  BY <1>1, <1>2, <2>8, <2>9, <2>10, <2>11, <2>12, RenderingStep
<1> QED  BY <1>3, <1>4

\* When the pages are made only copies are added.
LEMMA KeepingStep ==
  ASSUME FilesType, ScanInv, UNCHANGED <<disk, stamp, writes, selection>>, Ready,
         NEW stage \in {"keeping", "kept"}, NEW failed \in SUBSET Nat,
         NEW originals \in Copies, NEW reviews \in Copies,
         scan' = [scan EXCEPT !.stage = stage, !.failed = failed, !.originals = originals, !.reviews = reviews]
  PROVE  /\ FilesType' /\ ScanInv'
         /\ scan'.stage = stage /\ scan'.failed = failed
         /\ scan'.originals = originals /\ scan'.reviews = reviews
         /\ scan'.pages = scan.pages /\ scan'.since = scan.since
<1>1. scan' = [stage |-> stage, at |-> scan.at, pending |-> scan.pending, inputs |-> scan.inputs,
               pages |-> scan.pages, counted |-> scan.counted, since |-> scan.since,
               failed |-> failed, originals |-> originals, reviews |-> reviews]
  BY ScanFields
<1>2. FilesType'
  <2>1. scan' \in ScanRecords  BY <1>1, ScanFields DEF ScanRecords
  <2> QED  BY <2>1 DEF FilesType
<1>3. /\ scan'.stage = stage /\ scan'.pages = scan.pages
      /\ scan'.at = scan.at /\ scan'.pending = scan.pending /\ scan'.inputs = scan.inputs
      /\ scan'.counted = scan.counted /\ scan'.since = scan.since
  BY <1>1
<1>4. scan.since <= writes /\ Listing /\ Rendering /\ Unchanged  BY DEF ScanInv, Busy, Ready
<1>5. scan.at = Len(selection) + 1 /\ scan.pending = <<>>  BY <1>4 DEF Listing, Ready
<1>6. Listing'  BY <1>3, <1>4, <1>5 DEF Listing
<1>7. Rendering'  BY <1>3, <1>4 DEF Rendering, Ready
<1>8. Unchanged'
  <2>1. /\ PageCounts' = PageCounts /\ ScanPageCount' = ScanPageCount
        /\ Loaders' = Loaders /\ PicturesAt' = PicturesAt /\ Readable' = Readable
    BY SameFiles
  <2> QED  BY <1>3, <1>4, <2>1 DEF Unchanged
<1> QED  BY <1>1, <1>2, <1>3, <1>4, <1>6, <1>7, <1>8 DEF ScanInv

\* A copy is what is on the disk, or nothing.
LEMMA CopyTyped ==
  ASSUME FilesType
  PROVE  /\ Absent \in FileVersions \union {Absent}
         /\ \A p \in Paths : disk[p] \in FileVersions \union {Absent}
  BY DEF FilesType, FileVersions

\* The sources chosen, by number.
LEMMA SelectionTyped ==
  ASSUME FilesType
  PROVE  /\ Len(selection) \in Nat /\ DOMAIN selection = 1 .. Len(selection)
         /\ \A i \in DOMAIN selection : selection[i] \in Paths \union FileFolders
  BY DEF FilesType

\* The commit begins.
LEMMA RecognizedStep ==
  ASSUME FilesType, ScanInv, NEW failed \in SUBSET DOMAIN scan.pages, Recognized(failed)
  PROVE  /\ FilesType' /\ ScanInv' /\ scan'.stage = "keeping" /\ scan'.failed = failed
         /\ scan'.originals = scan.originals /\ scan'.reviews = scan.reviews
         /\ scan'.pages = scan.pages /\ scan'.since = scan.since
<1>1. UNCHANGED <<disk, stamp, writes, selection>> /\ Ready  BY DEF Recognized, ScanOnly, Ready
<1>2. scan' = [scan EXCEPT !.stage = "keeping", !.failed = failed, !.originals = scan.originals,
                           !.reviews = scan.reviews]
  BY ScanFields DEF Recognized
<1>3. failed \in SUBSET Nat  BY ScanFields
<1>4. scan.originals \in Copies /\ scan.reviews \in Copies  BY ScanFields
<1> QED  BY <1>1, <1>2, <1>3, <1>4, KeepingStep

\* The next source is copied.
LEMMA KeepOriginalStep ==
  ASSUME FilesType, ScanInv, KeepOriginal
  PROVE  LET k == Len(scan.originals) + 1
             copy == IF selection[k] \in Paths /\ Kind[selection[k]] = "pdf" THEN disk[selection[k]] ELSE Absent
         IN /\ FilesType' /\ ScanInv' /\ scan'.stage = "keeping" /\ scan'.failed = scan.failed
            /\ scan'.originals = Append(scan.originals, copy) /\ scan'.reviews = scan.reviews
            /\ scan'.pages = scan.pages /\ scan'.since = scan.since
<1> DEFINE k == Len(scan.originals) + 1
           copy == IF selection[k] \in Paths /\ Kind[selection[k]] = "pdf" THEN disk[selection[k]] ELSE Absent
           originals == Append(scan.originals, copy)
<1>1. UNCHANGED <<disk, stamp, writes, selection>> /\ Ready /\ scan.stage = "keeping"
  BY DEF KeepOriginal, ScanOnly, Ready
<1>2. scan' = [scan EXCEPT !.originals = originals]  BY DEF KeepOriginal
<1>3. copy \in FileVersions \union {Absent}  BY CopyTyped
<1> HIDE DEF copy
<1>4. originals \in Copies  BY <1>3, ScanFields DEF Copies
<1>5. scan.failed \in SUBSET Nat /\ scan.reviews \in Copies  BY ScanFields
<1>6. scan' = [scan EXCEPT !.stage = "keeping", !.failed = scan.failed, !.originals = originals,
                           !.reviews = scan.reviews]
  BY <1>1, <1>2, ScanFields
<1> HIDE DEF originals
<1>7. /\ FilesType' /\ ScanInv' /\ scan'.stage = "keeping" /\ scan'.failed = scan.failed
      /\ scan'.originals = originals /\ scan'.reviews = scan.reviews
      /\ scan'.pages = scan.pages /\ scan'.since = scan.since
  BY <1>1, <1>4, <1>5, <1>6, KeepingStep
<1> QED  BY <1>7 DEF originals, copy

\* What is copied for a page.
ReviewOf(a) ==
  LET files == {i \in Namesake(scan.pages[a]) : a \in scan.failed /\ disk[selection[i]] # Absent}
  IN IF files = {} THEN Absent ELSE disk[selection[CHOOSE i \in files : \A j \in files : i <= j]]

\* Some numbers have a first.
LEMMA FirstOfNumbers ==
  ASSUME NEW numbers, numbers \subseteq Nat, numbers # {}
  PROVE  \E n \in numbers : \A k \in numbers : n <= k
<1>1. PICK m \in numbers : \A y \in numbers : ~(<<y, m>> \in OpToRel(<, Nat))
  BY NatLessThanWellFounded, WFMin
<1>2. ASSUME NEW k \in numbers PROVE m <= k
  <2>1. <<k, m>> \notin OpToRel(<, Nat)  BY <1>1
  <2>2. k \in Nat /\ m \in Nat  OBVIOUS
  <2>3. ~(k < m)  BY <2>1, <2>2 DEF OpToRel
  <2> QED  BY <2>2, <2>3
<1>3. \E n \in numbers : \A k \in numbers : n <= k  BY <1>2
<1> QED  BY <1>3

\* The sources that go by a name are files, and the first of some is one of them.
LEMMA NamesakeFirst ==
  ASSUME FilesType, NEW page, NEW files \in SUBSET Namesake(page), files # {}
  PROVE  LET first == CHOOSE i \in files : \A j \in files : i <= j
         IN first \in files /\ selection[first] \in Paths /\ \A j \in files : first <= j
<1>1. files \subseteq Nat  BY SelectionTyped DEF Namesake
<1>2. PICK n \in files : \A j \in files : n <= j
  <2>1. files \subseteq Nat /\ files # {}  BY <1>1
  <2>2. \E n \in files : \A k \in files : n <= k  BY <2>1, FirstOfNumbers
  <2> QED  BY <2>2
<1>3. Namesake(page) \subseteq {i \in DOMAIN selection : selection[i] \in Composed}  BY DEF Namesake
<1> QED  BY <1>2, <1>3, SourceAssumption

\* The next page is looked at.
LEMMA KeepReviewStep ==
  ASSUME FilesType, ScanInv, KeepReview
  PROVE  LET a == Len(scan.reviews) + 1
         IN /\ FilesType' /\ ScanInv' /\ scan'.failed = scan.failed
            /\ scan'.stage = (IF a = Len(scan.pages) THEN "kept" ELSE "keeping")
            /\ scan'.originals = scan.originals /\ scan'.reviews = Append(scan.reviews, ReviewOf(a))
            /\ scan'.pages = scan.pages /\ scan'.since = scan.since
<1> DEFINE a == Len(scan.reviews) + 1
           copy == ReviewOf(a)
           reviews == Append(scan.reviews, copy)
           stage == IF a = Len(scan.pages) THEN "kept" ELSE "keeping"
<1>1. UNCHANGED <<disk, stamp, writes, selection>> /\ Ready /\ scan.stage = "keeping"
  BY DEF KeepReview, ScanOnly, Ready
<1>2. scan' = [scan EXCEPT !.reviews = reviews, !.stage = IF a = Len(scan.pages) THEN "kept" ELSE @]
  BY DEF KeepReview, ReviewOf
<1>3. copy \in FileVersions \union {Absent}
  <2> DEFINE files == {i \in Namesake(scan.pages[a]) : a \in scan.failed /\ disk[selection[i]] # Absent}
  <2>1. CASE files = {}  BY <2>1, CopyTyped DEF ReviewOf
  <2>2. CASE files # {}
    <3>1. copy = disk[selection[CHOOSE i \in files : \A j \in files : i <= j]]  BY <2>2 DEF ReviewOf
    <3>2. files \in SUBSET Namesake(scan.pages[a])  OBVIOUS
    <3> HIDE DEF files
    <3>3. selection[CHOOSE i \in files : \A j \in files : i <= j] \in Paths  BY <2>2, <3>2, NamesakeFirst
    <3> QED  BY <3>1, <3>3, CopyTyped
  <2> QED  BY <2>1, <2>2
<1> HIDE DEF copy
<1>4. reviews \in Copies  BY <1>3, ScanFields DEF Copies
<1>5. scan.failed \in SUBSET Nat /\ scan.originals \in Copies  BY ScanFields
<1>6. scan' = [scan EXCEPT !.stage = stage, !.failed = scan.failed, !.originals = scan.originals,
                           !.reviews = reviews]
  BY <1>1, <1>2, ScanFields
<1>7. stage \in {"keeping", "kept"}  OBVIOUS
<1> HIDE DEF reviews, stage
<1>8. /\ FilesType' /\ ScanInv' /\ scan'.stage = stage /\ scan'.failed = scan.failed
      /\ scan'.originals = scan.originals /\ scan'.reviews = reviews
      /\ scan'.pages = scan.pages /\ scan'.since = scan.since
  BY <1>1, <1>4, <1>5, <1>6, <1>7, KeepingStep
<1> QED  BY <1>8 DEF reviews, stage, copy

Keeping == (\E failed \in SUBSET DOMAIN scan.pages : Recognized(failed)) \/ KeepOriginal \/ KeepReview

Preparing == ListSource \/ HashNext \/ AllListed \/ PreparePage \/ Keeping \/ ScanFails

Importing ==
  \/ \E b \in Books : ValidateResponseBook(b)
  \/ ConsumeForImport \/ CommitImportedResponses \/ ImportFails

Writing ==
  \E p \in Paths : \/ \E v \in Versions[p] \union {Absent} : Replace(p, v)
                   \/ \E v \in Versions[p] : Overwrite(p, v)

\* Every step prepares, imports or writes, or begins something new.
LEMMA StepCases ==
  ASSUME SourcesNext
  PROVE  \/ \E chosen \in ScanChoices : Choose(chosen)
         \/ Sample \/ StartScan \/ Preparing \/ Importing \/ Writing
  BY DEF SourcesNext, Preparing, Keeping, Importing, Writing

\* No step of a preparation changes a file or begins another one.
LEMMA PreparingFrame ==
  ASSUME FilesType, ScanInv, Preparing
  PROVE  /\ UNCHANGED <<disk, stamp, writes, selection, sample, token, imported>>
         /\ Busy' => Busy /\ scan'.since = scan.since
<1>1. UNCHANGED <<disk, stamp, writes, selection, sample, token, imported>>
  BY DEF Preparing, ListSource, HashNext, AllListed, PreparePage, Keeping, Recognized, KeepOriginal, KeepReview,
         ScanFails, ScanOnly
<1>2. Refused.stage = "refused"  BY DEF Refused, NoScan
<1>3. scan.stage \in UnderWay
  BY DEF Preparing, ListSource, ToList, HashNext, AllListed, PreparePage, Keeping, Recognized, KeepOriginal,
         KeepReview, ScanFails, UnderWay
<1>4. scan' = Refused \/ scan'.since = scan.since
  <2>1. CASE ListSource
    <3>1. \A p : EnumeratePdf(p) = Refused \/ EnumeratePdf(p).since = scan.since
      BY ScanFields DEF EnumeratePdf
    <3>2. \A paths : EnumerateImages(paths) = Refused \/ EnumerateImages(paths).since = scan.since
      BY ScanFields DEF EnumerateImages
    <3>3. scan' = Refused \/ (\E p : scan' = EnumeratePdf(p)) \/ (\E paths : scan' = EnumerateImages(paths))
          \/ scan'.since = scan.since
      <4>1. CASE selection[scan.at] \in FileFolders  BY <2>1, <4>1 DEF ListSource
      <4>2. CASE selection[scan.at] \notin FileFolders
        <5>1. Kind[selection[scan.at]] \in {"pdf", "image", "other"}
          <6>1. Listing /\ scan.at <= Len(selection)
            BY <2>1 DEF ListSource, ToList, ScanInv, Busy
          <6>2. scan.at \in 1 .. Len(selection)  BY <6>1, CountsTyped DEF Listing
          <6> QED  BY <6>2, <4>2, CountsTyped, SourceAssumption
        <5> QED  BY <2>1, <4>2, <5>1 DEF ListSource
      <4> QED  BY <4>1, <4>2
    <3> QED  BY <3>1, <3>2, <3>3
  <2>2. CASE HashNext  BY <2>2, ScanFields DEF HashNext
  <2>3. CASE AllListed  BY <2>3, ScanFields DEF AllListed
  <2>4. CASE PreparePage  BY <2>4, ScanFields DEF PreparePage
  <2>5. CASE ScanFails  BY <2>5 DEF ScanFails
  <2>6. CASE Keeping  BY <2>6, RecognizedStep, KeepOriginalStep, KeepReviewStep DEF Keeping
  <2> QED  BY <2>1, <2>2, <2>3, <2>4, <2>5, <2>6 DEF Preparing
<1> QED  BY <1>1, <1>2, <1>3, <1>4 DEF Busy, UnderWay

\* While no file changes a scan that goes on stays as it was.
LEMMA ScanStays ==
  ASSUME ScanInv, UNCHANGED <<disk, writes, selection, scan>>
  PROVE  ScanInv'
<1>1. /\ PageCounts' = PageCounts /\ ScanPageCount' = ScanPageCount
      /\ Loaders' = Loaders /\ PicturesAt' = PicturesAt /\ Readable' = Readable
  BY SameFiles
<1>2. Busy' <=> Busy  BY DEF Busy
<1>3. Listing => Listing'  BY DEF Listing
<1>4. Rendering => Rendering'  BY DEF Rendering, Ready
<1>5. Unchanged => Unchanged'  BY <1>1 DEF Unchanged
<1> QED  BY <1>2, <1>3, <1>4, <1>5 DEF ScanInv

\* A new choice ends what was prepared.
LEMMA ChooseStep ==
  ASSUME FilesType, NEW chosen \in ScanChoices, Choose(chosen)
  PROVE  FilesType' /\ ScanInv'
<1>1. selection' = chosen /\ scan' = NoScan /\ UNCHANGED <<disk, stamp, writes>>  BY DEF Choose, ScanOnly
<1>2. chosen \in Seq(Paths \union FileFolders)  BY SourceAssumption
<1>3. scan' = [stage |-> "idle", at |-> 0, pending |-> <<>>, inputs |-> <<>>, pages |-> <<>>,
               counted |-> 0, since |-> 0, failed |-> {}, originals |-> <<>>, reviews |-> <<>>]
  BY <1>1 DEF NoScan
<1>4. scan' \in ScanRecords  BY <1>3 DEF ScanRecords, Copies
<1>5. ~Busy'  BY <1>3 DEF Busy
<1> QED  BY <1>1, <1>2, <1>4, <1>5 DEF FilesType, ScanInv

\* A scan begins with the count the user was asked about.
LEMMA StartScanStep ==
  ASSUME FilesType, StartScan
  PROVE  FilesType' /\ ScanInv' /\ scan'.since = writes
<1>1. UNCHANGED <<disk, stamp, writes, selection>>  BY DEF StartScan, ScanOnly
<1>2. scan' = [stage |-> "listing", at |-> 1, pending |-> <<>>, inputs |-> <<>>, pages |-> <<>>,
               counted |-> ScanPageCount, since |-> writes, failed |-> {}, originals |-> <<>>, reviews |-> <<>>]
  BY DEF StartScan, NoScan
<1>3. Len(selection) \in Nat /\ Len(selection) + 1 \in 1 .. Len(selection) + 1  BY CountsTyped
<1>4. ScanPageCount \in Nat  BY <1>3, CountsGrow DEF ScanPageCount
<1>5. writes \in Nat  BY DEF FilesType
<1>6. scan' \in ScanRecords  BY <1>2, <1>4, <1>5 DEF ScanRecords, Copies
<1>7. FilesType'  BY <1>1, <1>6 DEF FilesType
<1>8. /\ scan'.stage = "listing" /\ scan'.at = 1 /\ scan'.pending = <<>> /\ scan'.inputs = <<>>
      /\ scan'.pages = <<>> /\ scan'.counted = ScanPageCount /\ scan'.since = writes
  BY <1>2
<1>9. Listing'
  <2>1. \A i \in 1 .. Len(selection) : FolderInOrder(selection[i], <<>>, i)
    BY DEF FolderInOrder, ListedOf
  <2>2. 1 .. 1 - 1 = {} /\ 1 \in 1 .. Len(selection) + 1  BY <1>3
  <2>3. SourcesInOrder(<<>>)  BY DEF SourcesInOrder
  <2> QED  BY <1>1, <1>8, <2>1, <2>2, <2>3 DEF Listing
<1>10. Rendering'  BY <1>8 DEF Rendering, Prepared, Ready
<1>11. Unchanged'
  <2>1. PageCounts' = PageCounts /\ ScanPageCount' = ScanPageCount  BY <1>1, SameFiles
  <2>2. Len(<<>>) = Before(PageCounts, 1) /\ 1 .. 1 - 1 = {}  BY CountsGrow
  <2> QED  BY <1>8, <2>1, <2>2 DEF Unchanged
<1> QED  BY <1>1, <1>5, <1>7, <1>8, <1>9, <1>10, <1>11 DEF ScanInv

\* After a write by another program the list need not be what the files hold.
LEMMA WrittenStep ==
  ASSUME FilesType, ScanInv, NEW p \in Paths, NEW v \in Versions[p] \union {Absent}, Written(p, v)
  PROVE  FilesType' /\ ScanInv'
<1>1. /\ writes' = writes + 1 /\ disk' = [disk EXCEPT ![p] = v] /\ stamp' = [stamp EXCEPT ![p] = writes + 1]
      /\ UNCHANGED <<selection, scan>>
  BY DEF Written
<1>2. FilesType'
  <2>1. writes' \in Nat /\ stamp' \in [Paths -> Nat]  BY <1>1 DEF FilesType
  <2>2. disk' = [q \in Paths |-> IF q = p THEN v ELSE disk[q]]  BY <1>1 DEF FilesType
  <2>3. \A q \in Paths : disk'[q] \in Versions[q] \union {Absent}  BY <2>2 DEF FilesType
  <2>4. disk' = [q \in Paths |-> disk'[q]]  BY <2>2
  <2> QED  BY <1>1, <2>1, <2>3, <2>4 DEF FilesType
<1>3. Busy' <=> Busy  BY <1>1 DEF Busy
<1>4. Listing => Listing'  BY <1>1 DEF Listing
<1>5. Rendering => Rendering'  BY <1>1 DEF Rendering, Ready
<1>6. Busy' => scan'.since <= writes' /\ scan'.since # writes'
  <2> SUFFICES ASSUME Busy PROVE scan.since <= writes' /\ scan.since # writes'  BY <1>1, <1>3
  <2>1. scan.since \in Nat /\ writes \in Nat /\ scan.since <= writes  BY ScanFields DEF ScanInv, FilesType
  <2> QED  BY <1>1, <2>1
<1>7. Busy' => Unchanged'  BY <1>6 DEF Unchanged
<1> QED  BY <1>2, <1>3, <1>4, <1>5, <1>6, <1>7 DEF ScanInv

\* Each step of a preparation keeps what is known of it,
LEMMA PreparingStep ==
  ASSUME FilesType, ScanInv, Preparing
  PROVE  FilesType' /\ ScanInv'
<1>1. CASE ScanFails
  <2>1. scan' = Refused /\ UNCHANGED <<disk, stamp, writes, selection>>
    BY <1>1 DEF ScanFails, ScanOnly
  <2> QED  BY <2>1, RefusedType
<1>2. CASE Keeping  BY <1>2, RecognizedStep, KeepOriginalStep, KeepReviewStep DEF Keeping
<1> QED  BY <1>1, <1>2, ListStep, HashStep, AllListedStep, PreparePageStep DEF Preparing

\* and so does every other step.
LEMMA ScanStep ==
  ASSUME FilesType, ScanInv, SourcesNext
  PROVE  FilesType' /\ ScanInv'
<1>1. CASE \E chosen \in ScanChoices : Choose(chosen)  BY <1>1, ChooseStep
<1>2. CASE StartScan  BY <1>2, StartScanStep
<1>3. CASE Preparing  BY <1>3, PreparingStep
<1>4. CASE Sample \/ Importing
  <2>1. UNCHANGED <<disk, stamp, writes, selection, scan>>
    BY <1>4 DEF Sample, ScanOnly, Importing, ImportOnly, ValidateResponseBook, ConsumeForImport,
                CommitImportedResponses, ImportFails
  <2>2. FilesType'  BY <2>1 DEF FilesType
  <2> QED  BY <2>1, <2>2, ScanStays
<1>5. CASE Writing
  <2>1. PICK p \in Paths : \E v \in Versions[p] \union {Absent} : Written(p, v)
    BY <1>5 DEF Writing, Replace, Overwrite
  <2> QED  BY <2>1, WrittenStep
<1> QED  BY <1>1, <1>2, <1>3, <1>4, <1>5, StepCases

\* While sources are listed there are no pages and no copies.
LEMMA ListingKeeps ==
  ASSUME FilesType, ScanInv, ListSource \/ HashNext \/ AllListed, scan' # Refused
  PROVE  /\ scan'.stage \in {"listing", "rendering"} /\ scan'.pages = <<>>
         /\ scan'.originals = scan.originals /\ scan'.reviews = scan.reviews
<1> DEFINE Same(s) == /\ s.stage \in {"listing", "rendering"} /\ s.pages = scan.pages
                      /\ s.originals = scan.originals /\ s.reviews = scan.reviews
<1>1. scan.stage = "listing"  BY DEF ListSource, ToList, HashNext, AllListed
<1>2. scan.pages = <<>>  BY <1>1 DEF ScanInv, Busy, Rendering
<1>3. \A p : EnumeratePdf(p) = Refused \/ Same(EnumeratePdf(p))  BY <1>1, ScanFields DEF EnumeratePdf
<1>4. \A paths : EnumerateImages(paths) = Refused \/ Same(EnumerateImages(paths))
  BY <1>1, ScanFields DEF EnumerateImages
<1>5. CASE ListSource
  <2>1. CASE selection[scan.at] \in FileFolders
    <3>1. \E paths : scan' = EnumerateImages(paths)  BY <1>5, <2>1 DEF ListSource
    <3> HIDE DEF Same
    <3>2. Same(scan')  BY <3>1, <1>4
    <3> QED  BY <3>2, <1>2 DEF Same
  <2>2. CASE selection[scan.at] \notin FileFolders
    <3>1. Kind[selection[scan.at]] \in {"pdf", "image", "other"}
      <4>1. Listing /\ scan.at <= Len(selection)  BY <1>5 DEF ListSource, ToList, ScanInv, Busy
      <4>2. scan.at \in 1 .. Len(selection)  BY <4>1, CountsTyped DEF Listing
      <4> QED  BY <4>2, <2>2, CountsTyped, SourceAssumption
    <3>2. (\E p : scan' = EnumeratePdf(p)) \/ (\E paths : scan' = EnumerateImages(paths))
      BY <1>5, <2>2, <3>1 DEF ListSource
    <3> HIDE DEF Same
    <3>3. Same(scan')  BY <3>2, <1>3, <1>4
    <3> QED  BY <3>3, <1>2 DEF Same
  <2> QED  BY <2>1, <2>2
<1>6. CASE HashNext  BY <1>1, <1>2, <1>6, ScanFields DEF HashNext
<1>7. CASE AllListed  BY <1>1, <1>2, <1>7, ScanFields DEF AllListed
<1> QED  BY <1>5, <1>6, <1>7

\* With no pages and no copies nothing is to be shown.
LEMMA NothingKept ==
  ASSUME scan'.stage \in {"listing", "rendering"}, scan'.pages = <<>>,
         scan'.originals = <<>>, scan'.reviews = <<>>
  PROVE  KeptInv'
<1>1. AsRead' /\ OriginalsAsRead' /\ ReviewsAsRead'  BY DEF AsRead, OriginalsAsRead, ReviewsAsRead
<1>2. KeptSoFar'  BY DEF KeptSoFar
<1> QED  BY <1>1, <1>2 DEF KeptInv

\* A page that is there has a file, and shows one of its contents.
LEMMA PagesTyped ==
  ASSUME FilesType, NEW a \in DOMAIN scan.pages
  PROVE  /\ scan.pages[a].path \in Paths /\ scan.pages[a].read \in Nat
         /\ scan.pages[a].bytes[1] # Absent
<1>1. scan.pages[a] \in PreparedPage  BY ScanFields
<1>2. Absent \notin FileVersions  BY SourceAssumption DEF FileVersions
<1> QED  BY <1>1, <1>2 DEF PreparedPage

\* A write is later than every page read.
LEMMA KeptWritten ==
  ASSUME FilesType, KeptInv, NEW p \in Paths, NEW v, Written(p, v)
  PROVE  KeptInv'
<1>1. /\ writes' = writes + 1 /\ disk' = [disk EXCEPT ![p] = v] /\ stamp' = [stamp EXCEPT ![p] = writes + 1]
      /\ UNCHANGED <<selection, scan>> /\ writes \in Nat /\ stamp \in [Paths -> Nat]
  BY DEF Written, FilesType
<1> SUFFICES ASSUME Busy PROVE AsRead' /\ OriginalsAsRead' /\ ReviewsAsRead' /\ KeptSoFar'
  BY <1>1 DEF KeptInv, Busy
<1>2. AsRead /\ OriginalsAsRead /\ ReviewsAsRead /\ KeptSoFar  BY DEF KeptInv
<1>3. \A a \in DOMAIN scan.pages :
        /\ scan.pages[a].read <= writes'
        /\ AsItWas(scan.pages[a])' =>
             AsItWas(scan.pages[a]) /\ disk'[scan.pages[a].path] = disk[scan.pages[a].path]
  <2> SUFFICES ASSUME NEW a \in DOMAIN scan.pages
               PROVE  /\ scan.pages[a].read <= writes'
                      /\ AsItWas(scan.pages[a])' =>
                           AsItWas(scan.pages[a]) /\ disk'[scan.pages[a].path] = disk[scan.pages[a].path]
    OBVIOUS
  <2> DEFINE page == scan.pages[a]
  <2>1. page.path \in Paths /\ page.read \in Nat /\ page.read <= writes  BY <1>2, PagesTyped DEF AsRead
  <2>2. AsItWas(page)' <=> stamp'[page.path] <= page.read  BY <1>1 DEF AsItWas
  <2> HIDE DEF page
  <2>3. page.path = p => stamp'[page.path] = writes + 1  BY <1>1
  <2>4. page.path # p => stamp'[page.path] = stamp[page.path] /\ disk'[page.path] = disk[page.path]
    BY <1>1, <2>1 DEF FilesType
  <2>5. stamp'[page.path] <= page.read => page.path # p  BY <1>1, <2>1, <2>3
  <2>6. page.read <= writes'  BY <1>1, <2>1
  <2>7. AsItWas(page)' => AsItWas(page) /\ disk'[page.path] = disk[page.path]
    BY <2>2, <2>4, <2>5 DEF AsItWas
  <2> QED  BY <2>6, <2>7 DEF page
<1>4. AsRead'  BY <1>1, <1>2, <1>3 DEF AsRead
<1>5. OriginalsAsRead'  BY <1>1, <1>2, <1>3 DEF OriginalsAsRead
<1>6. ReviewsAsRead'
  <2> SUFFICES ASSUME NEW a \in DOMAIN scan.reviews, NEW i \in DOMAIN selection, a \in scan.failed,
                      FirstNamed(scan.pages[a], i), AsItWas(scan.pages[a])'
               PROVE  scan.reviews[a] = scan.pages[a].bytes[1]
    BY <1>1 DEF ReviewsAsRead, FirstNamed, Namesake
  <2>1. a \in DOMAIN scan.pages
    <3>1. Len(scan.reviews) <= Len(scan.pages)
      BY <1>2, ScanFields DEF KeptSoFar, Busy, Copies
    <3> QED  BY <3>1, ScanFields DEF Copies
  <2> QED  BY <1>2, <1>3, <2>1 DEF ReviewsAsRead
<1>7. KeptSoFar'  BY <1>1, <1>2 DEF KeptSoFar
<1> QED  BY <1>4, <1>5, <1>6, <1>7

\* While files and pages stay, so does what is known of the pages.
LEMMA PagesStay ==
  ASSUME KeptInv, Busy, UNCHANGED <<disk, stamp, writes, selection>>, scan'.pages = scan.pages
  PROVE  /\ AsRead'
         /\ scan'.originals = scan.originals => OriginalsAsRead'
         /\ scan'.reviews = scan.reviews /\ scan'.failed = scan.failed => ReviewsAsRead'
<1>1. AsRead /\ OriginalsAsRead /\ ReviewsAsRead  BY DEF KeptInv
<1>2. AsRead'  BY <1>1 DEF AsRead, AsItWas
<1>3. scan'.originals = scan.originals => OriginalsAsRead'  BY <1>1 DEF OriginalsAsRead, AsItWas
<1>4. scan'.reviews = scan.reviews /\ scan'.failed = scan.failed => ReviewsAsRead'
  BY <1>1 DEF ReviewsAsRead, FirstNamed, Namesake, AsItWas
<1> QED  BY <1>2, <1>3, <1>4

\* If nothing of the scan changes, what is known of the copies stays.
LEMMA KeptStays ==
  ASSUME KeptInv, UNCHANGED <<disk, stamp, writes, selection, scan>>
  PROVE  KeptInv'
<1> SUFFICES ASSUME Busy PROVE AsRead' /\ OriginalsAsRead' /\ ReviewsAsRead' /\ KeptSoFar'
  BY DEF KeptInv, Busy
<1>1. AsRead' /\ OriginalsAsRead' /\ ReviewsAsRead'  BY PagesStay
<1>2. KeptSoFar'  BY DEF KeptInv, KeptSoFar
<1> QED  BY <1>1, <1>2

\* A page that is read shows what its file holds now.
LEMMA KeptPrepare ==
  ASSUME FilesType, ScanInv, KeptInv, PreparePage
  PROVE  KeptInv'
<1> DEFINE ordinal == Len(scan.pages)
           input == scan.inputs[ordinal + 1]
           ref == BuildPageRef(scan.inputs, ordinal)
           page == [id |-> ref.id, label |-> ref.label, path |-> input.path, source |-> input.source,
                    bytes |-> <<disk[input.path], input.page>>, read |-> writes]
           pages == Append(scan.pages, page)
<1>1. /\ scan.stage = "rendering" /\ UNCHANGED <<disk, stamp, writes, selection>> /\ writes \in Nat
  BY DEF PreparePage, ScanOnly, FilesType
<1>2. AsRead /\ scan.originals = <<>> /\ scan.reviews = <<>>  BY <1>1 DEF KeptInv, Busy, KeptSoFar
<1>3. CASE scan' = Refused  BY <1>3 DEF KeptInv, Busy, Refused, NoScan
<1>4. CASE scan' # Refused
  <2>1. /\ scan'.pages = pages /\ scan'.stage \in {"rendering", "ready"}
        /\ scan'.originals = <<>> /\ scan'.reviews = <<>>
    <3>1. scan' = [scan EXCEPT !.pages = Append(@, page),
                               !.stage = IF ordinal + 1 = Len(scan.inputs) THEN "ready" ELSE @]
      BY <1>4 DEF PreparePage
    <3> HIDE DEF page
    <3> QED  BY <3>1, <1>1, <1>2, ScanFields
  <2>2. page.read = writes /\ disk[page.path] = page.bytes[1]  OBVIOUS
  <2> HIDE DEF page
  <2>3. /\ DOMAIN pages = 1 .. Len(scan.pages) + 1 /\ DOMAIN scan.pages = 1 .. Len(scan.pages)
        /\ pages[Len(scan.pages) + 1] = page /\ \A a \in DOMAIN scan.pages : pages[a] = scan.pages[a]
        /\ Len(scan.pages) \in Nat
    BY ScanFields
  <2> HIDE DEF pages
  <2>4. ASSUME NEW a \in DOMAIN pages
        PROVE  pages[a].read <= writes /\ (AsItWas(pages[a]) => disk[pages[a].path] = pages[a].bytes[1])
    <3>1. CASE a = Len(scan.pages) + 1  BY <1>1, <2>2, <2>3, <3>1
    <3>2. CASE a # Len(scan.pages) + 1
      <4>1. a \in DOMAIN scan.pages  BY <2>3, <3>2
      <4> QED  BY <4>1, <1>2, <2>3 DEF AsRead
    <3> QED  BY <3>1, <3>2
  <2>5. AsRead'  BY <1>1, <2>1, <2>4 DEF AsRead, AsItWas
  <2>6. OriginalsAsRead' /\ ReviewsAsRead'  BY <2>1 DEF OriginalsAsRead, ReviewsAsRead
  <2>7. KeptSoFar'  BY <2>1 DEF KeptSoFar
  <2> QED  BY <2>5, <2>6, <2>7 DEF KeptInv
<1> QED  BY <1>3, <1>4

\* The copy of a source is of the version its pages show, if that is still there.
LEMMA KeptOriginal ==
  ASSUME FilesType, ScanInv, KeptInv, KeepOriginal
  PROVE  KeptInv'
<1> DEFINE k == Len(scan.originals) + 1
           copy == IF selection[k] \in Paths /\ Kind[selection[k]] = "pdf" THEN disk[selection[k]] ELSE Absent
<1>1. /\ scan.stage = "keeping" /\ Busy /\ UNCHANGED <<disk, stamp, writes, selection>>
      /\ Len(scan.originals) < Len(selection)
  BY DEF KeepOriginal, ScanOnly, Busy
<1>2. AsRead /\ OriginalsAsRead /\ KeptSoFar  BY <1>1 DEF KeptInv
<1>3. /\ scan'.stage = "keeping" /\ scan'.failed = scan.failed
      /\ scan'.originals = Append(scan.originals, copy) /\ scan'.reviews = scan.reviews
      /\ scan'.pages = scan.pages
  BY KeepOriginalStep
<1>4. ASSUME NEW a \in DOMAIN scan.pages, scan.pages[a].path = selection[k], AsItWas(scan.pages[a]),
             Kind[scan.pages[a].path] = "pdf"
      PROVE  copy = scan.pages[a].bytes[1]
  <2>1. selection[k] \in Paths /\ disk[selection[k]] = scan.pages[a].bytes[1]
    BY <1>2, <1>4, PagesTyped DEF AsRead
  <2> QED  BY <2>1, <1>4
<1> HIDE DEF copy
<1>5. /\ DOMAIN scan'.originals = 1 .. k /\ DOMAIN scan.originals = 1 .. k - 1 /\ k - 1 \in Nat /\ k \in Nat
      /\ Len(scan'.originals) = k /\ scan'.originals[k] = copy
      /\ \A i \in DOMAIN scan.originals : scan'.originals[i] = scan.originals[i]
  BY <1>3, ScanFields DEF Copies
<1>6. AsRead' /\ ReviewsAsRead'  BY <1>1, <1>3, PagesStay
<1>7. OriginalsAsRead'
  <2> SUFFICES ASSUME NEW a \in DOMAIN scan.pages, NEW i \in 1 .. k, scan.pages[a].path = selection[i],
                      AsItWas(scan.pages[a]), Kind[scan.pages[a].path] = "pdf"
               PROVE  scan'.originals[i] = scan.pages[a].bytes[1]
    BY <1>1, <1>3, <1>5 DEF OriginalsAsRead, AsItWas
  <2>1. CASE i = k  BY <1>4, <1>5, <2>1
  <2>2. CASE i # k
    <3>1. i \in DOMAIN scan.originals
      <4> HIDE DEF k
      <4> QED  BY <1>5, <2>2
    <3> QED  BY <1>2, <1>5, <3>1 DEF OriginalsAsRead
  <2> QED  BY <2>1, <2>2
<1>8. KeptSoFar'
  <2>1. k <= Len(selection)  BY <1>1, <1>5, SelectionTyped
  <2> QED  BY <1>1, <1>2, <1>3, <1>5, <2>1 DEF KeptSoFar
<1> QED  BY <1>6, <1>7, <1>8 DEF KeptInv

\* So is the copy for a page, if its file is the first of the name.
LEMMA KeptReview ==
  ASSUME FilesType, ScanInv, KeptInv, KeepReview
  PROVE  KeptInv'
<1> DEFINE b == Len(scan.reviews) + 1
           page == scan.pages[b]
<1>1. /\ scan.stage = "keeping" /\ Busy /\ UNCHANGED <<disk, stamp, writes, selection>>
      /\ Len(scan.originals) = Len(selection)
  BY DEF KeepReview, ScanOnly, Busy
<1>2. AsRead /\ ReviewsAsRead /\ KeptSoFar  BY <1>1 DEF KeptInv
<1>3. /\ scan'.stage = (IF b = Len(scan.pages) THEN "kept" ELSE "keeping") /\ scan'.failed = scan.failed
      /\ scan'.originals = scan.originals /\ scan'.reviews = Append(scan.reviews, ReviewOf(b))
      /\ scan'.pages = scan.pages
  BY KeepReviewStep
<1>4. /\ DOMAIN scan'.reviews = 1 .. b /\ DOMAIN scan.reviews = 1 .. b - 1 /\ b - 1 \in Nat /\ b \in Nat
      /\ Len(scan'.reviews) = b /\ scan'.reviews[b] = ReviewOf(b)
      /\ \A a \in DOMAIN scan.reviews : scan'.reviews[a] = scan.reviews[a]
  BY <1>3, ScanFields DEF Copies
<1>5. b <= Len(scan.pages) /\ b \in DOMAIN scan.pages
  <2>1. Len(scan.reviews) < Len(scan.pages) /\ Len(scan.pages) \in Nat /\ DOMAIN scan.pages = 1 .. Len(scan.pages)
    BY <1>1, <1>2, ScanFields DEF KeptSoFar
  <2>2. Len(scan.reviews) \in Nat  BY ScanFields DEF Copies
  <2> QED  BY <2>1, <2>2
<1>6. ASSUME NEW i \in DOMAIN selection, b \in scan.failed, FirstNamed(page, i), AsItWas(page)
      PROVE  ReviewOf(b) = page.bytes[1]
  <2> DEFINE files == {x \in Namesake(page) : b \in scan.failed /\ disk[selection[x]] # Absent}
             first == CHOOSE x \in files : \A y \in files : x <= y
  <2>1. disk[page.path] = page.bytes[1] /\ page.bytes[1] # Absent  BY <1>2, <1>5, <1>6, PagesTyped DEF AsRead
  <2>2. i \in files /\ files \in SUBSET Namesake(page)
    BY <1>6, <2>1 DEF FirstNamed, Namesake
  <2>3. ReviewOf(b) = disk[selection[first]]  BY <2>2 DEF ReviewOf
  <2>4. i \in Nat /\ Namesake(page) \subseteq i .. Len(selection) /\ Len(selection) \in Nat
    BY <1>6, SelectionTyped DEF FirstNamed
  <2> HIDE DEF files, page
  <2>5. first \in files /\ first <= i  BY <2>2, NamesakeFirst
  <2> HIDE DEF first
  <2>6. first = i  BY <2>2, <2>4, <2>5
  <2> QED  BY <1>6, <2>1, <2>3, <2>6 DEF FirstNamed
<1>7. AsRead' /\ OriginalsAsRead'  BY <1>1, <1>3, PagesStay
<1>8. ReviewsAsRead'
  <2> SUFFICES ASSUME NEW a \in 1 .. b, NEW i \in DOMAIN selection, a \in scan.failed,
                      FirstNamed(scan.pages[a], i), AsItWas(scan.pages[a])
               PROVE  scan'.reviews[a] = scan.pages[a].bytes[1]
    BY <1>1, <1>3, <1>4 DEF ReviewsAsRead, FirstNamed, Namesake, AsItWas
  <2>1. CASE a = b  BY <1>4, <1>6, <2>1
  <2>2. CASE a # b
    <3>1. a \in DOMAIN scan.reviews
      <4> HIDE DEF b
      <4> QED  BY <1>4, <2>2
    <3> QED  BY <1>2, <1>4, <3>1 DEF ReviewsAsRead
  <2> QED  BY <2>1, <2>2
<1>9. KeptSoFar'
  <2>1. b # Len(scan.pages) => b < Len(scan.pages)
    <3> HIDE DEF b
    <3> QED  BY <1>4, <1>5, ScanFields
  <2>2. Len(scan.originals) <= Len(selection)  BY <1>1, SelectionTyped
  <2> HIDE DEF b
  <2> QED  BY <1>1, <1>3, <1>4, <2>1, <2>2 DEF KeptSoFar
<1> QED  BY <1>7, <1>8, <1>9 DEF KeptInv

\* What is kept stays as the pages show, whatever is done.
LEMMA KeptStep ==
  ASSUME FilesType, ScanInv, KeptInv, SourcesNext
  PROVE  KeptInv'
<1>1. CASE \E chosen \in ScanChoices : Choose(chosen)  BY <1>1 DEF Choose, NoScan, KeptInv, Busy
<1>2. CASE StartScan
  <2>1. scan' = [stage |-> "listing", at |-> 1, pending |-> <<>>, inputs |-> <<>>, pages |-> <<>>,
                 counted |-> ScanPageCount, since |-> writes, failed |-> {}, originals |-> <<>>, reviews |-> <<>>]
    BY <1>2 DEF StartScan, NoScan
  <2> QED  BY <2>1, NothingKept
<1>3. CASE ListSource \/ HashNext \/ AllListed
  <2>1. CASE scan' = Refused  BY <2>1 DEF KeptInv, Busy, Refused, NoScan
  <2>2. CASE scan' # Refused
    <3>1. scan.stage = "listing"  BY <1>3 DEF ListSource, ToList, HashNext, AllListed
    <3>2. scan.originals = <<>> /\ scan.reviews = <<>>  BY <3>1 DEF KeptInv, Busy, KeptSoFar
    <3> QED  BY <1>3, <2>2, <3>2, ListingKeeps, NothingKept
  <2> QED  BY <2>1, <2>2
<1>4. CASE PreparePage  BY <1>4, KeptPrepare
<1>5. CASE \E failed \in SUBSET DOMAIN scan.pages : Recognized(failed)
  <2>1. PICK failed \in SUBSET DOMAIN scan.pages : Recognized(failed)  BY <1>5
  <2>2. /\ scan.stage = "ready" /\ UNCHANGED <<disk, stamp, writes, selection>> /\ failed # DOMAIN scan.pages
        /\ Busy
    BY <2>1 DEF Recognized, ScanOnly, Busy
  <2>3. /\ scan'.stage = "keeping" /\ scan'.failed = failed
        /\ scan'.originals = <<>> /\ scan'.reviews = <<>> /\ scan'.pages = scan.pages
        /\ scan.originals = <<>>
    BY <2>1, <2>2, RecognizedStep DEF KeptInv, KeptSoFar
  <2>4. AsRead' /\ OriginalsAsRead'  BY <2>2, <2>3, PagesStay
  <2>5. ReviewsAsRead'  BY <2>3 DEF ReviewsAsRead
  <2>6. KeptSoFar'
    <3>1. Len(scan.pages) \in Nat /\ DOMAIN scan.pages = 1 .. Len(scan.pages)  BY ScanFields
    <3>2. Len(scan.pages) # 0  BY <2>2, <3>1
    <3>3. Len(<<>>) <= Len(selection) /\ Len(<<>>) < Len(scan.pages)  BY <3>1, <3>2, SelectionTyped
    <3> QED  BY <2>2, <2>3, <3>3 DEF KeptSoFar
  <2> QED  BY <2>4, <2>5, <2>6 DEF KeptInv
<1>6. CASE KeepOriginal  BY <1>6, KeptOriginal
<1>7. CASE KeepReview  BY <1>7, KeptReview
<1>8. CASE ScanFails  BY <1>8 DEF ScanFails, KeptInv, Busy, Refused, NoScan
<1>9. CASE Sample \/ Importing
  <2>1. UNCHANGED <<disk, stamp, writes, selection, scan>>
    BY <1>9 DEF Sample, ScanOnly, Importing, ImportOnly, ValidateResponseBook, ConsumeForImport,
                CommitImportedResponses, ImportFails
  <2> QED  BY <2>1, KeptStays
<1>10. CASE Writing
  <2>1. PICK p \in Paths : \E v : Written(p, v)  BY <1>10 DEF Writing, Replace, Overwrite
  <2> QED  BY <2>1, KeptWritten
<1> QED  BY <1>1, <1>2, <1>3, <1>4, <1>5, <1>6, <1>7, <1>8, <1>9, <1>10, StepCases DEF Preparing, Keeping

\* What the form was looked for on stays what the files hold until somebody writes.
LEMMA SampledStep ==
  ASSUME FilesType, ScanInv, Sampled, SourcesNext
  PROVE  Sampled'
<1>0. writes \in Nat  BY DEF FilesType
<1>1. CASE \E chosen \in ScanChoices : Choose(chosen)  BY <1>1 DEF Choose, Sampled
<1>2. CASE StartScan
  <2>1. UNCHANGED <<disk, writes, selection, sample>>  BY <1>2 DEF StartScan, ScanOnly
  <2>2. scan'.since = writes  BY <1>2, StartScanStep
  <2> QED  BY <2>1, <2>2, SameFiles DEF Sampled
<1>3. CASE Preparing
  <2>1. /\ UNCHANGED <<disk, writes, selection, sample>>
        /\ Busy' => Busy /\ scan'.since = scan.since
    BY <1>3, PreparingFrame
  <2> QED  BY <2>1, SameFiles DEF Sampled
<1>4. CASE Sample
  <2>1. UNCHANGED <<disk, writes, selection, scan>> /\ scan.stage = "idle"
    BY <1>4 DEF Sample, ScanOnly
  <2>2. sample' = [pages |-> SamplePages, at |-> writes]  BY <1>4 DEF Sample
  <2>3. ~Busy'  BY <2>1 DEF Busy
  <2>4. SamplePages' = SamplePages  BY <2>1, SameFiles
  <2> QED  BY <1>0, <2>1, <2>2, <2>3, <2>4 DEF Sampled
<1>5. CASE Importing
  <2>1. UNCHANGED <<disk, writes, selection, scan, sample>>
    BY <1>5 DEF Importing, ImportOnly, ValidateResponseBook, ConsumeForImport,
                CommitImportedResponses, ImportFails
  <2>2. Busy' <=> Busy  BY <2>1 DEF Busy
  <2> QED  BY <2>1, <2>2, SameFiles DEF Sampled
<1>6. CASE Writing
  <2>1. writes' = writes + 1 /\ UNCHANGED <<sample, scan>>  BY <1>6 DEF Writing, Replace, Overwrite, Written
  <2>2. Busy' <=> Busy  BY <2>1 DEF Busy
  <2>3. ASSUME sample # Absent
        PROVE  sample.at \in Nat /\ sample.at <= writes' /\ sample.at # writes'
    BY <1>0, <2>1, <2>3 DEF Sampled
  <2> QED  BY <2>1, <2>2, <2>3 DEF Sampled
<1> QED  BY <1>1, <1>2, <1>3, <1>4, <1>5, <1>6, StepCases

\* An import that was begun reads the bytes it recorded, unless they are written over.
TokenHeld(t) ==
  /\ t = [path |-> t.path, sha |-> t.sha, stamp |-> t.stamp, content |-> t.content,
          now |-> t.now, linked |-> t.linked, used |-> t.used, written |-> t.written]
  /\ t.used \in BOOLEAN /\ t.written \in BOOLEAN
  /\ t.used /\ ~t.written => t.content = t.sha

\* An import makes an exam of the bytes whose digest it records.
LEMMA ImportedStep ==
  ASSUME Imported, SourcesNext
  PROVE  Imported'
<1> DEFINE Result(i) == i # Absent /\ ~i.written => i.of = i.sha
<1>1. (token # Absent => TokenHeld(token)) /\ Result(imported)  BY DEF Imported, TokenHeld
<1> SUFFICES (token' # Absent => TokenHeld(token')) /\ Result(imported')  BY DEF Imported, TokenHeld
<1>2. CASE \E b \in Books : ValidateResponseBook(b)
  <2>1. PICK b \in Books : ValidateResponseBook(b)  BY <1>2
  <2>2. token' = [path |-> b, sha |-> disk[b], stamp |-> stamp[b], content |-> disk[b], now |-> stamp[b],
                  linked |-> TRUE, used |-> FALSE, written |-> FALSE]
    BY <2>1 DEF ValidateResponseBook
  <2>3. TokenHeld(token')  BY <2>2 DEF TokenHeld
  <2> QED  BY <2>1, <2>3 DEF ValidateResponseBook
<1>3. CASE ConsumeForImport
  <2>1. token # Absent /\ imported' = imported  BY <1>3 DEF ConsumeForImport
  <2>2. CASE VerifyOpenSource(token)
    <3>1. token' = [path |-> token.path, sha |-> token.sha, stamp |-> token.stamp, content |-> token.content,
                    now |-> token.now, linked |-> token.linked, used |-> TRUE, written |-> token.written]
      BY <1>1, <1>3, <2>1, <2>2 DEF ConsumeForImport, TokenHeld
    <3>2. token.written \in BOOLEAN /\ token.content = token.sha
      BY <1>1, <2>1, <2>2 DEF TokenHeld, VerifyOpenSource
    <3>3. TokenHeld(token')  BY <3>1, <3>2 DEF TokenHeld
    <3> QED  BY <1>1, <2>1, <3>3
  <2>3. CASE ~VerifyOpenSource(token)
    <3>1. token' = Absent  BY <1>3, <2>3 DEF ConsumeForImport
    <3> QED  BY <1>1, <2>1, <3>1
  <2> QED  BY <2>2, <2>3
<1>4. CASE CommitImportedResponses
  <2>1. token # Absent /\ token.used /\ token' = Absent  BY <1>4 DEF CommitImportedResponses
  <2>2. CASE RowsOf[token.content] = 0
    <3>1. imported' = Absent  BY <1>4, <2>2 DEF CommitImportedResponses
    <3> QED  BY <2>1, <3>1
  <2>3. CASE RowsOf[token.content] # 0
    <3>1. imported' = [sha |-> token.sha, of |-> token.content, written |-> token.written]
      BY <1>4, <2>3 DEF CommitImportedResponses
    <3>2. ~token.written => token.content = token.sha  BY <1>1, <2>1 DEF TokenHeld
    <3> QED  BY <2>1, <3>1, <3>2
  <2> QED  BY <2>2, <2>3
<1>5. CASE ImportFails  BY <1>1, <1>5 DEF ImportFails
<1>6. CASE Writing
  <2>1. imported' = imported  BY <1>6 DEF Writing, Replace, Overwrite, Written
  <2>2. CASE token' = token  BY <1>1, <2>1, <2>2
  <2>3. CASE token' # token
    <3>1. token # Absent  BY <1>6, <2>3 DEF Writing, Replace, Overwrite, Held
    <3>2. TokenHeld(token)  BY <1>1, <3>1
    <3>3. CASE token' = [token EXCEPT !.linked = FALSE]
      <4>1. token' = [path |-> token.path, sha |-> token.sha, stamp |-> token.stamp, content |-> token.content,
                      now |-> token.now, linked |-> FALSE, used |-> token.used, written |-> token.written]
        BY <3>2, <3>3 DEF TokenHeld
      <4>2. TokenHeld(token')  BY <3>2, <4>1 DEF TokenHeld
      <4> QED  BY <1>1, <2>1, <4>2
    <3>4. CASE \E v : token' = [token EXCEPT !.content = v, !.now = writes + 1, !.written = token.used]
      <4>1. PICK v : token' = [token EXCEPT !.content = v, !.now = writes + 1, !.written = token.used]
        BY <3>4
      <4>2. token' = [path |-> token.path, sha |-> token.sha, stamp |-> token.stamp, content |-> v,
                      now |-> writes + 1, linked |-> token.linked, used |-> token.used, written |-> token.used]
        BY <3>2, <4>1 DEF TokenHeld
      <4>3. TokenHeld(token')  BY <3>2, <4>2 DEF TokenHeld
      <4> QED  BY <1>1, <2>1, <4>3
    <3> QED  BY <1>6, <2>3, <3>3, <3>4 DEF Writing, Replace, Overwrite
  <2> QED  BY <2>2, <2>3
<1>7. CASE UNCHANGED <<token, imported>>  BY <1>1, <1>7
<1>8. \/ \E b \in Books : ValidateResponseBook(b)
      \/ ConsumeForImport \/ CommitImportedResponses \/ ImportFails
      \/ Writing \/ UNCHANGED <<token, imported>>
  <2>1. Preparing => UNCHANGED <<token, imported>>
    BY DEF Preparing, ListSource, HashNext, AllListed, PreparePage, Keeping, Recognized, KeepOriginal, KeepReview,
           ScanFails, ScanOnly
  <2>2. (\E chosen \in ScanChoices : Choose(chosen)) \/ Sample \/ StartScan => UNCHANGED <<token, imported>>
    BY DEF Choose, Sample, StartScan, ScanOnly
  <2> QED  BY <2>1, <2>2, StepCases DEF Importing
<1> HIDE DEF Result
<1> QED  BY <1>2, <1>3, <1>4, <1>5, <1>6, <1>7, <1>8

\* The invariant holds at first
LEMMA FilesInitially ==
  ASSUME SourcesInit
  PROVE  FilesInv
<1>1. scan = [stage |-> "idle", at |-> 0, pending |-> <<>>, inputs |-> <<>>, pages |-> <<>>,
              counted |-> 0, since |-> 0, failed |-> {}, originals |-> <<>>, reviews |-> <<>>]
  BY DEF SourcesInit, NoScan
<1>2. FilesType
  <2>1. disk = [p \in Paths |-> disk[p]] /\ \A p \in Paths : disk[p] \in Versions[p] \union {Absent}
    BY SourceAssumption DEF SourcesInit
  <2>2. stamp \in [Paths -> Nat] /\ writes \in Nat /\ selection \in Seq(Paths \union FileFolders)
    BY DEF SourcesInit
  <2>3. scan \in ScanRecords  BY <1>1 DEF ScanRecords, Copies
  <2> QED  BY <2>1, <2>2, <2>3 DEF FilesType
<1>3. ScanInv /\ KeptInv  BY <1>1 DEF ScanInv, KeptInv, Busy
<1>4. Sampled /\ Imported  BY DEF SourcesInit, Sampled, Imported
<1> QED  BY <1>2, <1>3, <1>4 DEF FilesInv

\* and after every step.
LEMMA FilesStep ==
  ASSUME FilesInv, [SourcesNext]_sources
  PROVE  FilesInv'
<1>1. FilesType /\ ScanInv /\ KeptInv /\ Sampled /\ Imported  BY DEF FilesInv
<1>2. CASE SourcesNext
  <2>1. FilesType' /\ ScanInv' /\ KeptInv' /\ Sampled' /\ Imported'
    BY <1>1, <1>2, ScanStep, KeptStep, SampledStep, ImportedStep
  <2> QED  BY <2>1 DEF FilesInv
<1>3. CASE UNCHANGED sources
  <2>1. UNCHANGED <<disk, stamp, writes, selection, sample, scan, token, imported>>  BY <1>3 DEF sources
  <2>2. FilesType'  BY <1>1, <2>1 DEF FilesType
  <2>3. ScanInv' /\ KeptInv'  BY <1>1, <2>1, ScanStays, KeptStays
  <2>4. Sampled'
    <3>1. SamplePages' = SamplePages  BY <2>1, SameFiles
    <3>2. Busy' <=> Busy  BY <2>1 DEF Busy
    <3> QED  BY <1>1, <2>1, <3>1, <3>2 DEF Sampled
  <2>5. Imported'  BY <1>1, <2>1 DEF Imported
  <2> QED  BY <2>2, <2>3, <2>4, <2>5 DEF FilesInv
<1> QED  BY <1>2, <1>3

\* When all pages are made they are those of the list.
LEMMA ReadyScan ==
  ASSUME FilesInv, Ready
  PROVE  /\ Listing /\ Unchanged /\ scan.since <= writes
         /\ scan.at = Len(selection) + 1 /\ scan.pending = <<>>
         /\ scan.inputs \in Seq(ListedInput) /\ scan.pages \in Seq(PreparedPage)
         /\ Len(scan.pages) = Len(scan.inputs) /\ Len(scan.inputs) \in Nat
         /\ DOMAIN scan.pages = 1 .. Len(scan.inputs) /\ DOMAIN scan.inputs = 1 .. Len(scan.inputs)
         /\ Prepared(scan.pages, scan.inputs)
<1>1. FilesType /\ scan.stage # "listing" /\ Busy  BY DEF FilesInv, Ready, Busy
<1>2. Listing /\ Rendering /\ Unchanged /\ scan.since <= writes  BY <1>1 DEF FilesInv, ScanInv
<1>3. scan.at = Len(selection) + 1 /\ scan.pending = <<>>  BY <1>1, <1>2 DEF Listing
<1>4. Len(scan.pages) = Len(scan.inputs) /\ Prepared(scan.pages, scan.inputs)
  BY <1>1, <1>2 DEF Rendering
<1>5. scan.inputs \in Seq(ListedInput) /\ scan.pages \in Seq(PreparedPage)  BY <1>1, ScanFields
<1> QED  BY <1>2, <1>3, <1>4, <1>5

\* Each source is there whole.
LEMMA ReadySources ==
  ASSUME FilesInv, Ready, NEW i \in DOMAIN selection
  PROVE  WholeSource(i)
<1> DEFINE source == selection[i]
           inputs == scan.inputs
           pages == scan.pages
<1>1. /\ Listing /\ scan.at = Len(selection) + 1
      /\ DOMAIN pages = DOMAIN inputs /\ Len(pages) = Len(inputs) /\ Prepared(pages, inputs)
      /\ inputs \in Seq(ListedInput)
  BY ReadyScan
<1>2. i \in 1 .. Len(selection) /\ i \in 1 .. scan.at - 1 /\ source \in Paths \union FileFolders
  BY <1>1, CountsTyped DEF FilesInv
<1>3. WholeListed(source, inputs, i) /\ FolderInOrder(source, inputs, i)  BY <1>1, <1>2 DEF Listing
<1>4. \A a \in DOMAIN inputs :
        /\ pages[a].path = inputs[a].path /\ pages[a].source = inputs[a].source
        /\ pages[a].bytes = <<inputs[a].digest, inputs[a].page>>
  BY <1>1 DEF Prepared, PageOf
<1>5. PagesFrom(i) = ListedOf(inputs, i)  BY <1>1, <1>4 DEF PagesFrom, ListedOf
<1>6. ListedOf(inputs, i) \subseteq DOMAIN inputs  BY DEF ListedOf
<1> HIDE DEF source, inputs, pages
<1>7. CASE source \in FileFolders
  <2>1. ASSUME NEW a \in PagesFrom(i), NEW b \in PagesFrom(i), a < b
        PROVE  pages[a].path # pages[b].path /\ Name[pages[a].path] <= Name[pages[b].path]
    <3>1. a \in ListedOf(inputs, i) /\ b \in ListedOf(inputs, i)  BY <1>5
    <3>2. /\ inputs[a].path \in Inside[source] /\ inputs[b].path \in Inside[source]
          /\ Place[inputs[a].path] < Place[inputs[b].path]
      BY <1>3, <1>7, <2>1, <3>1 DEF FolderInOrder
    <3>3. Place[inputs[a].path] \in Nat  BY <1>7, <3>2, SourceAssumption
    <3>4. inputs[a].path # inputs[b].path  BY <3>2, <3>3
    <3>5. Name[inputs[a].path] <= Name[inputs[b].path]  BY <1>7, <3>2, SourceAssumption
    <3> QED  BY <1>4, <1>6, <3>1, <3>4, <3>5
  <2> QED  BY <2>1, <1>7 DEF WholeSource, source, pages
<1>8. CASE source \notin FileFolders /\ Kind[source] = "pdf"
  <2>1. PICK v \in Versions[source], skipped \in 0 .. Len(inputs) :
          /\ ListedOf(inputs, i) = skipped + 1 .. skipped + PagesOf[v]
          /\ \A n \in 1 .. PagesOf[v] : inputs[skipped + n].digest = v /\ inputs[skipped + n].page = n
    BY <1>3, <1>8 DEF WholeListed
  <2>2. source \in Paths  BY <1>2, <1>8
  <2>3. PagesOf[v] \in Nat /\ skipped \in Nat  BY <1>1, <2>1, <2>2, SourceAssumption
  <2>4. ASSUME NEW n \in 1 .. PagesOf[v] PROVE pages[skipped + n].bytes = <<v, n>>
    <3>1. skipped + n \in skipped + 1 .. skipped + PagesOf[v]  BY <2>3
    <3>2. skipped + n \in DOMAIN inputs  BY <1>6, <2>1, <3>1
    <3> QED  BY <1>4, <2>1, <3>2
  <2>5. skipped \in 0 .. Len(pages)  BY <1>1
  <2> QED  BY <2>1, <2>4, <2>5, <1>5, <1>8 DEF WholeSource, source, pages
<1>9. CASE source \notin FileFolders /\ Kind[source] = "image"
  <2>1. PICK k \in DOMAIN inputs : ListedOf(inputs, i) = {k} /\ inputs[k].path = source
    BY <1>3, <1>9 DEF WholeListed
  <2> QED  BY <2>1, <1>1, <1>4, <1>5, <1>9 DEF WholeSource, source, pages
<1> QED  BY <1>3, <1>7, <1>8, <1>9 DEF WholeListed

\* No two pages share an identity, and no two files a label but by compatibility forms.
LEMMA ReadyToldApart ==
  ASSUME FilesInv, Ready
  PROVE  ToldApart
<1> DEFINE inputs == scan.inputs
           pages == scan.pages
           twin(a) == DuplicateOrdinal(inputs, inputs[a].path)
<1> SUFFICES ASSUME NEW a \in DOMAIN pages, NEW b \in DOMAIN pages
             PROVE  /\ pages[a].id = pages[b].id => a = b
                    /\ pages[a].label = pages[b].label =>
                         \/ pages[a].path = pages[b].path
                         \/ Name[pages[a].path] # Name[pages[b].path] /\ Alike[Name[pages[a].path]] = Alike[Name[pages[b].path]]
  BY DEF ToldApart
<1>1. /\ DOMAIN pages = DOMAIN inputs /\ DOMAIN pages = 1 .. Len(inputs) /\ Len(inputs) \in Nat
      /\ Prepared(pages, inputs) /\ inputs \in Seq(ListedInput)
  BY ReadyScan
<1>2. \A c \in DOMAIN pages :
        /\ pages[c].id = <<Kind[inputs[c].path], inputs[c].digest, inputs[c].page, c - 1, twin(c)>>
        /\ pages[c].label = <<Alike[Name[inputs[c].path]], twin(c)>>
        /\ pages[c].path = inputs[c].path
  <2> SUFFICES ASSUME NEW c \in DOMAIN pages
               PROVE  /\ pages[c].id = <<Kind[inputs[c].path], inputs[c].digest, inputs[c].page, c - 1, twin(c)>>
                      /\ pages[c].label = <<Alike[Name[inputs[c].path]], twin(c)>>
                      /\ pages[c].path = inputs[c].path
    OBVIOUS
  <2>1. c \in Nat /\ c - 1 + 1 = c  BY <1>1
  <2> HIDE DEF inputs, pages
  <2>2. /\ pages[c].id = BuildPageRef(inputs, c - 1).id /\ pages[c].label = BuildPageRef(inputs, c - 1).label
        /\ pages[c].path = inputs[c].path
    BY <1>1 DEF Prepared
  <2>3. BuildPageRef(inputs, c - 1) =
          [id |-> StableWorkItemId(inputs[c], c - 1, twin(c)), label |-> SourceLabel(inputs[c].path, twin(c))]
    BY <2>1 DEF BuildPageRef
  <2> QED  BY <2>2, <2>3 DEF StableWorkItemId, SourceLabel
<1>3. ASSUME pages[a].id = pages[b].id PROVE a = b
  <2>1. a - 1 = b - 1  BY <1>2, <1>3
  <2> QED  BY <2>1, <1>1
<1>4. ASSUME pages[a].label = pages[b].label, pages[a].path # pages[b].path
      PROVE  Name[pages[a].path] # Name[pages[b].path] /\ Alike[Name[pages[a].path]] = Alike[Name[pages[b].path]]
  <2>1. twin(a) = twin(b) /\ Alike[Name[inputs[a].path]] = Alike[Name[inputs[b].path]]  BY <1>2, <1>4
  <2>2. inputs[a].path # inputs[b].path  BY <1>2, <1>4
  <2>3. Name[inputs[a].path] # Name[inputs[b].path]  BY <1>1, <2>1, <2>2, DuplicatesDiffer
  <2> QED  BY <1>2, <2>1, <2>3
<1> QED  BY <1>3, <1>4

\* What the form was looked for on are the first pages read, if nothing was written since.
LEMMA ReadySample ==
  ASSUME FilesInv, Ready, scan.since = writes
  PROVE  /\ Len(scan.pages) = scan.counted
         /\ LET read == Len(scan.pages)
                looked == IF read < SampleLimit THEN read ELSE SampleLimit
            IN SamplePages = [a \in 1 .. looked |-> scan.pages[a].bytes]
<1> DEFINE inputs == scan.inputs
           pages == scan.pages
           count == Len(selection)
           lengths == [i \in DOMAIN selection |-> Len(PageLoaders(selection[i]))]
           read == Len(pages)
           looked == IF read < SampleLimit THEN read ELSE SampleLimit
           Slot(k) == CHOOSE j \in DOMAIN selection : k - Before(lengths, j) \in 1 .. lengths[j]
<1>1. /\ Listing /\ Unchanged /\ scan.at = count + 1 /\ scan.pending = <<>>
      /\ inputs \in Seq(ListedInput) /\ read = Len(inputs) /\ read \in Nat
      /\ DOMAIN inputs = 1 .. read /\ Prepared(pages, inputs) /\ DOMAIN pages = 1 .. read
  BY ReadyScan
<1>2. /\ FilesType /\ count \in Nat /\ DOMAIN selection = 1 .. count /\ count + 1 - 1 = count
      /\ PageCounts \in [1 .. count -> Nat]
      /\ \A i \in 1 .. count : Before(PageCounts, i) \in Nat
  BY CountsTyped, CountsGrow DEF FilesInv
<1>3. /\ scan.counted = ScanPageCount /\ read = Before(PageCounts, count + 1)
      /\ \A i \in 1 .. count : ListedNow(Loaders[i], Before(PageCounts, i), PageCounts[i], inputs, i)
  <2>1. \A i \in 1 .. scan.at - 1 : ListedNow(Loaders[i], Before(PageCounts, i), PageCounts[i], inputs, i)
    BY <1>1 DEF Unchanged
  <2> QED  BY <1>1, <1>2, <2>1 DEF Unchanged
<1>4. lengths = PageCounts
  <2>1. \A i \in 1 .. count : Loaders[i] = PageLoaders(selection[i])  BY <1>2 DEF Loaders
  <2>2. \A i \in 1 .. count : Len(Loaders[i]) = PageCounts[i]  BY <1>3 DEF ListedNow
  <2> QED  BY <1>2, <2>1, <2>2
<1>5. SamplePages = [k \in 1 .. looked |-> PageLoaders(selection[Slot(k)])[k - Before(lengths, Slot(k))]]
  <2>1. read = Before(lengths, Len(selection) + 1)  BY <1>3, <1>4
  <2> QED  BY <2>1 DEF SamplePages
<1>6. looked \in Nat /\ looked <= read  BY <1>1, SourceAssumption
<1>7. ASSUME NEW k \in 1 .. looked
      PROVE  PageLoaders(selection[Slot(k)])[k - Before(lengths, Slot(k))] = pages[k].bytes
  <2> DEFINE j == inputs[k].source
             i == Slot(k)
             m == k - Before(PageCounts, i)
  <2>1. k \in DOMAIN inputs /\ k \in Nat  BY <1>1, <1>6
  <2>2. j \in 1 .. count
    <3>1. j \in 1 .. scan.at /\ j < scan.at  BY <1>1, <2>1 DEF Listing
    <3> QED  BY <3>1, <1>1, <1>2
  <2>3. k - Before(PageCounts, j) \in 1 .. PageCounts[j]
    <3>1. k \in ListedOf(inputs, j)  BY <2>1 DEF ListedOf
    <3>2. ListedOf(inputs, j) = Before(PageCounts, j) + 1 .. Before(PageCounts, j) + PageCounts[j]
      BY <1>3, <2>2 DEF ListedNow
    <3>3. Before(PageCounts, j) \in Nat /\ PageCounts[j] \in Nat  BY <1>2, <2>2
    <3> HIDE DEF j
    <3> QED  BY <3>1, <3>2, <3>3, <2>1
  <2>4. i \in 1 .. count /\ m \in 1 .. PageCounts[i]
    <3>1. \E x \in DOMAIN selection : k - Before(lengths, x) \in 1 .. lengths[x]
      BY <1>2, <1>4, <2>2, <2>3
    <3>2. i \in DOMAIN selection /\ k - Before(lengths, i) \in 1 .. lengths[i]  BY <3>1
    <3> QED  BY <3>2, <1>2, <1>4
  <2>5. Before(PageCounts, i) + m = k  BY <1>2, <2>1, <2>4
  <2>6. PageOf(inputs[Before(PageCounts, i) + m]) = Loaders[i][m]  BY <1>3, <2>4 DEF ListedNow
  <2>7. Loaders[i] = PageLoaders(selection[i])  BY <1>2, <2>4 DEF Loaders
  <2>8. pages[k].bytes = PageOf(inputs[k])  BY <1>1, <2>1 DEF Prepared
  <2> QED  BY <1>4, <2>5, <2>6, <2>7, <2>8
<1>8. SamplePages = [a \in 1 .. looked |-> pages[a].bytes]
  <2> HIDE DEF looked, lengths, Slot, pages
  <2> QED  BY <1>5, <1>7
<1>9. read = scan.counted  BY <1>3 DEF ScanPageCount
<1> QED  BY <1>8, <1>9

\* When the exam is saved its copies are as its pages show.
LEMMA CopiesAsRead ==
  ASSUME FilesInv, scan.stage = "kept"
  PROVE  KeptAsRead
<1>1. FilesType /\ OriginalsAsRead /\ ReviewsAsRead /\ KeptSoFar  BY DEF FilesInv, KeptInv, Busy
<1>2. DOMAIN scan.originals = DOMAIN selection /\ DOMAIN scan.reviews = DOMAIN scan.pages
  BY <1>1, ScanFields, SelectionTyped DEF KeptSoFar, Copies
<1> SUFFICES ASSUME NEW a \in DOMAIN scan.pages, NEW i \in DOMAIN selection,
                    scan.pages[a].path = selection[i], AsItWas(scan.pages[a])
             PROVE  /\ Kind[scan.pages[a].path] = "pdf" => scan.originals[i] = scan.pages[a].bytes[1]
                    /\ a \in scan.failed /\ scan.pages[a].path \in Composed
                       /\ Namesake(scan.pages[a]) \subseteq i .. Len(selection)
                         => scan.reviews[a] = scan.pages[a].bytes[1]
  BY DEF KeptAsRead
<1>3. Kind[scan.pages[a].path] = "pdf" => scan.originals[i] = scan.pages[a].bytes[1]
  BY <1>1, <1>2 DEF OriginalsAsRead
<1>4. /\ a \in scan.failed /\ scan.pages[a].path \in Composed
      /\ Namesake(scan.pages[a]) \subseteq i .. Len(selection)
      => scan.reviews[a] = scan.pages[a].bytes[1]
  BY <1>1, <1>2 DEF ReviewsAsRead, FirstNamed
<1> QED  BY <1>3, <1>4

\* The invariant gives the property.
LEMMA FilesInvGives ==
  ASSUME FilesInv
  PROVE  OneVersion
<1>1. ASSUME Ready
      PROVE  \A a, b \in DOMAIN scan.pages : a < b => scan.pages[a].source <= scan.pages[b].source
  <2>1. Listing /\ DOMAIN scan.pages = DOMAIN scan.inputs /\ Prepared(scan.pages, scan.inputs)
    BY <1>1, ReadyScan
  <2>2. SourcesInOrder(scan.inputs)  BY <2>1 DEF Listing
  <2>3. \A a \in DOMAIN scan.pages : scan.pages[a].source = scan.inputs[a].source  BY <2>1 DEF Prepared
  <2> QED  BY <2>1, <2>2, <2>3 DEF SourcesInOrder
<1>2. ASSUME Ready, sample # Absent, sample.at = writes
      PROVE  scan.since = writes /\ sample.pages = SamplePages
  <2>1. Busy /\ scan.since <= writes /\ scan.since \in Nat /\ writes \in Nat
    BY <1>2, ReadyScan, ScanFields DEF Ready, Busy, FilesInv, FilesType
  <2>2. sample.at <= scan.since /\ sample.pages = SamplePages  BY <1>2, <2>1 DEF FilesInv, Sampled
  <2> QED  BY <1>2, <2>1, <2>2
<1>3. Ready => \A i \in DOMAIN selection : WholeSource(i)  BY ReadySources
<1>4. Ready => ToldApart  BY ReadyToldApart
<1>5. Ready /\ writes = scan.since => Len(scan.pages) = scan.counted  BY ReadySample
<1>6. ASSUME Ready, sample # Absent, sample.at = writes
      PROVE  LET read == Len(scan.pages)
                 looked == IF read < SampleLimit THEN read ELSE SampleLimit
             IN sample.pages = [a \in 1 .. looked |-> scan.pages[a].bytes]
  BY <1>2, <1>6, ReadySample
<1>7. imported # Absent /\ ~imported.written => imported.of = imported.sha  BY DEF FilesInv, Imported
<1>8. scan.stage = "kept" => KeptAsRead  BY CopiesAsRead
<1> QED  BY <1>1, <1>3, <1>4, <1>5, <1>6, <1>7, <1>8 DEF OneVersion

\* For any files, folders, choices and contents, and however often other programs write
\* between two looks (ingestion/images.py, pdf.py, scan_runtime.py, validation_token.py): a
\* scan is of one version of each file, whole, in order and told apart, and as many pages
\* as were asked about if nothing changed; the exam keeps the version its pages were read
\* from unless it was written since; an import is of the workbook it was checked on.
THEOREM OneVersionHolds == SourcesSpec => []OneVersion
<1>1. SourcesInit => FilesInv  BY FilesInitially
<1>2. FilesInv /\ [SourcesNext]_sources => FilesInv'  BY FilesStep
<1>3. FilesInv => OneVersion  BY FilesInvGives
<1> QED  BY <1>1, <1>2, <1>3, PTL DEF SourcesSpec
=============================================================================
