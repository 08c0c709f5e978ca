----------------------------- MODULE Desk_proofs -----------------------------
(***************************************************************************)
(* Proofs about the window (Desk), for any number of operations asked for, *)
(* any sets of scans and any number of details: the detail page is locked  *)
(* while a fix is under way, no detail stays open, the list at rest is     *)
(* current, and nothing put off is forgotten.                              *)
(***************************************************************************)
EXTENDS Desk, TLAPS, SequenceTheorems, FiniteSetTheorems, WellFoundedInduction

USE DeskAssumption, SourcesAssumption

Operations == ListOps \cup SettingsOps \cup ScanOps \cup GradingOps
Stages     == {"none", "run", "back", "over"}
Answers    == {"none", "done", "failed", "denied"}

\* What a bridge may run.
Bridges ==
  [kind : Operations \cup {"none"}, scans : Sources \cup {NoSource}, id : Nat, stage : Stages,
   cancelled : BOOLEAN, told : BOOLEAN, end : Answers, handle : 0 .. MaxHandles]

\* A dialog, and what is open somewhere in the stack: one of a group, the question about a form.
Dialogs == [what : Asking \cup {"trash", "newform"}, scans : Sources \cup {NoSource}]

HasDialog(group) == \E i \in DOMAIN dialogs : dialogs[i].what \in group

HasQuestion(s) == \E i \in DOMAIN dialogs : dialogs[i] = Dialog("newform", s)

\* An operation not begun.
Fresh(op) ==
  /\ op \in Bridges /\ op.kind # "none" /\ op.stage = "none" /\ op.handle = 0
  /\ ~op.cancelled /\ ~op.told

\* Before its answer has reached the window.
UnderWay(kind) == bridge.kind = kind /\ bridge.stage \in {"run", "back"}

\* What the other variables of the window hold.
PageTypes ==
  /\ ops \in Nat /\ reload \in BOOLEAN /\ trash \in BOOLEAN /\ exam \in {"list", "detail"}
  /\ timers \subseteq Sources \cup {"reload", "trash"}
  /\ source \in Sources \cup {NoSource} /\ paths \in Sources \cup {NoSource} /\ stale \in BOOLEAN
  /\ importing \in BOOLEAN /\ closing \in BOOLEAN /\ fixing \in BOOLEAN
  /\ listed \in {"current", "old", "error"} /\ settings \in {"current", "old", "refused"}
  /\ leases \subseteq 1 .. MaxHandles /\ display \in 0 .. MaxHandles

\* The bridge, the operation that is active and the one put off belong together.
WorkInv ==
  /\ bridge \in Bridges /\ deferred \in Bridges
  /\ active \in Operations \cup {"none"} /\ heard \in Operations \cup {"none"} /\ refresh \in BOOLEAN
  /\ bridge.kind = "none" <=> bridge.stage = "none"
  /\ bridge.kind = "none" => ~bridge.told /\ ~bridge.cancelled
  /\ Deferred => bridge.kind # "none" /\ active = "none" /\ ~closing /\ Fresh(deferred)
  /\ active # "none" => active = bridge.kind \/ (active = "form" /\ bridge.kind = "none")
  /\ active # "none" => bridge.stage \in {"run", "back"} \/ active \in {"form", "scan"} \/ closing
  /\ bridge.told => active \in {"none", "form"} /\ (bridge.kind = "scan" \/ bridge.stage = "over")
  /\ bridge.cancelled => bridge.kind = "scan" \/ closing
  /\ bridge.stage = "run" => bridge.handle = 0
  /\ bridge.handle # 0 =>
       bridge.kind \in {"detail", "fix"} /\ bridge.end = "done" /\ (bridge.stage = "back" \/ closing)

\* A result finds its page and its callback, unless a late answer forgot them.
HeardInv ==
  closing \/ Slipped({"confirm"}) \/
    /\ bridge.stage \in {"run", "back"} /\ ~bridge.told =>
         active = bridge.kind /\ (bridge.kind \in Desktop => heard = bridge.kind)
    /\ Deferred /\ deferred.kind \in Desktop => heard = deferred.kind
    /\ active = "change" \/ deferred.kind = "change" => refresh

\* Only the first dialog is one the user asked for.
StackInv ==
  /\ dialogs \in Seq(Dialogs)
  /\ \A i \in DOMAIN dialogs : i > 1 => dialogs[i].what \in {"trash", "newform"}

\* While a question is open nothing begins but what timers and the trash dialog begin.
QuestionInv ==
  /\ HasDialog(Asking \ {"profile"}) =>
       active \in {"none", "load", "form", "batch"} /\ deferred.kind \in {"none", "load", "form", "batch"}
  /\ HasDialog({"fix"}) => exam = "detail" /\ display # 0
  /\ HasDialog({"scan", "fresh", "other"}) => page # "exam"
  /\ active = "change" \/ deferred.kind = "change" => ~HasDialog({"trash"}) \/ closing

\* The detail page is locked for the fix under way.
FixInv ==
  /\ fixing => InFlight("fix") /\ exam = "detail" /\ display # 0
  /\ deferred.kind = "fix" \/ (UnderWay("fix") /\ ~closing) => fixing \/ Slipped({"fix"})
  /\ fixFrom # 0 => fixing /\ fixFrom = display
  /\ fixing /\ UnderWay("fix") => fixFrom # 0

\* The details that are open are the one on the page and the one on its way there.
LeaseInv ==
  /\ exam = "list" => display = 0
  /\ active = "detail" \/ deferred.kind = "detail" => exam = "list"
  /\ closing \/ Slipped({"fix", "confirm", "close"}) \/
       /\ leases = {display, bridge.handle} \ {0}
       /\ bridge.handle # 0 => bridge.handle # display

OnExamList == page = "exam" /\ exam = "list"

\* The list will be read again.
Coming == reload \/ "reload" \in timers \/ deferred.kind \in {"load", "results"}

\* A result that has the list read again.
Promised ==
  /\ bridge.stage = "back"
  /\ \/ bridge.kind \in {"import", "fullrestore"}
     \/ bridge.kind \in {"change", "batch"} /\ bridge.end = "done"
     \/ bridge.kind = "change" /\ refresh

\* A list that is old is read again, and so it will be when an operation asked for elsewhere
\* changes the exams.
ReadAgain ==
  /\ listed = "old" => Coming \/ active \in {"load", "results"} \/ Promised
  /\ bridge.kind \in Linking /\ bridge.stage = "run" => Coming
  /\ deferred.kind \in Linking => Coming

\* Old settings are shown only until the answer that they were changed, or may be.
ListInv ==
  /\ settings = "old" =>
       \/ closing \/ Slipped({"confirm", "unloaded"})
       \/ /\ bridge.kind \in {"save", "import", "fullrestore"} /\ bridge.stage = "back"
          /\ bridge.kind = "save" \/ bridge.end = "done"
  /\ closing \/ Slipped({"fix", "confirm", "unread"}) \/ ~OnExamList \/ ReadAgain

\* What is put off has a thread to wait for, or a timer.
WaitInv ==
  closing \/
    /\ reload \/ stale => bridge.kind # "none"
    /\ trash => bridge.kind # "none" \/ "trash" \in timers
    /\ importing => deferred.kind = "profile" \/ UnderWay("profile") \/ Slipped({"import", "confirm"})

\* The form of the scans picked is being detected, or is shown or asked about.
Detecting == (active = "form" \/ deferred.kind = "form") /\ paths # NoSource

Detected ==
  /\ active # "form" \/ bridge.stage \notin {"run", "back"}
  /\ deferred.kind # "form"
  /\ form \in {source, "failed"} \/ HasQuestion(source)

\* Otherwise its detection is put off or on a timer.
FormInv ==
  closing \/
    /\ active = "form" /\ bridge.stage \in {"none", "over"} => paths = NoSource
    /\ active = "form" => paths \in {NoSource, bridge.scans}
    /\ deferred.kind = "form" => paths \in {NoSource, deferred.scans}
    /\ \/ Slipped({"confirm"}) \/ source = NoSource \/ stale \/ source \in timers
       \/ Detecting \/ Detected

DeskInv ==
  /\ PageTypes /\ WorkInv /\ HeardInv /\ StackInv /\ QuestionInv
  /\ FixInv /\ LeaseInv /\ ListInv /\ WaitInv /\ FormInv
-----------------------------------------------------------------------------
(***************************************************************************)
(* Operations and dialogs                                                  *)
(***************************************************************************)
\* The bridge that is none.
LEMMA IdleFits == Idle \in Bridges /\ Idle.kind = "none" /\ Idle.stage = "none" /\ Idle.handle = 0
                  /\ ~Idle.cancelled /\ ~Idle.told
BY DEF Idle, Bridges, Stages, Answers, NoSource

\* What the window begins is not begun yet.
LEMMA OpFits ==
  ASSUME NEW kind \in Operations, NEW n \in Nat
  PROVE  Fresh(Op(kind, n)) /\ Op(kind, n).kind = kind
<1>1. kind # "none"
  BY DEF Operations, ListOps, SettingsOps, ScanOps, GradingOps
<1>2. PICK i \in Bridges : i = Idle
  BY IdleFits
<1>3. PICK m \in Nat : m = IF kind \in Linking THEN n ELSE 0
  <2>1. CASE kind \in Linking
    BY <2>1
  <2>2. CASE kind \notin Linking
    BY <2>2
  <2> QED BY <2>1, <2>2
<1>4. Op(kind, n) = [i EXCEPT !.kind = kind, !.id = m]
  BY <1>2, <1>3 DEF Op
<1>5. i.stage = "none" /\ i.handle = 0 /\ ~i.cancelled /\ ~i.told
  BY <1>2, IdleFits
<1> QED BY <1>1, <1>4, <1>5 DEF Fresh, Bridges

\* A detection is begun for a set of scans.
LEMMA FormOpFits ==
  ASSUME NEW s \in Sources
  PROVE  LET op == [Op("form", 0) EXCEPT !.scans = s]
         IN Fresh(op) /\ op.kind = "form" /\ op.scans = s
<1>1. "form" \in Operations /\ 0 \in Nat
  BY DEF Operations, ListOps
<1>2. PICK o : o = Op("form", 0)
  OBVIOUS
<1>3. Fresh(o) /\ o.kind = "form"
  BY <1>1, <1>2, OpFits
<1> QED BY <1>2, <1>3 DEF Fresh, Bridges

\* What is begun runs, for the same scans.
LEMMA RunFits ==
  ASSUME NEW op, Fresh(op)
  PROVE  /\ Run(op) \in Bridges /\ Run(op).kind = op.kind /\ Run(op).scans = op.scans
         /\ Run(op).stage = "run" /\ Run(op).handle = 0 /\ ~Run(op).cancelled /\ ~Run(op).told
BY DEF Run, Fresh, Bridges, Stages

\* A bridge that is over keeps its kind only: its end was told.
LEMMA OverFits ==
  ASSUME bridge \in Bridges, Over
  PROVE  /\ bridge' \in Bridges /\ bridge'.kind = bridge.kind /\ bridge'.stage = "over"
         /\ bridge'.handle = 0 /\ ~bridge'.cancelled /\ bridge'.told
<1>1. bridge' = [kind |-> bridge.kind, scans |-> "none", id |-> 0, stage |-> "over", cancelled |-> FALSE,
                 told |-> TRUE, end |-> "none", handle |-> 0]
  BY DEF Over, Idle, NoSource
<1>2. bridge.kind \in Operations \cup {"none"}
  BY DEF Bridges
<1>3. 0 \in 0 .. MaxHandles
  OBVIOUS
<1> QED BY <1>1, <1>2, <1>3 DEF Bridges, Stages, Answers, NoSource

\* A thread that ends leaves its answer.
LEMMA EndedFits ==
  ASSUME bridge \in Bridges, NEW end \in Answers, Ended(end)
  PROVE  /\ bridge' \in Bridges /\ bridge'.kind = bridge.kind /\ bridge'.stage = "back"
         /\ bridge'.scans = bridge.scans /\ bridge'.handle = bridge.handle /\ bridge'.end = end
         /\ bridge'.cancelled = bridge.cancelled /\ bridge'.told = bridge.told
BY DEF Ended, Bridges, Stages

\* A detail is opened under a number no open one has.
LEMMA SmallestFits ==
  ASSUME (1 .. MaxHandles) \ leases # {}
  PROVE  SmallestFree \in (1 .. MaxHandles) \ leases
<1> DEFINE S == (1 .. MaxHandles) \ leases
<1>1. S \subseteq Nat /\ S # {}
  OBVIOUS
<1>2. PICK x \in S : \A y \in S : ~(<<y, x>> \in OpToRel(<, Nat))
  BY <1>1, NatLessThanWellFounded, WFMin
<1>3. ASSUME NEW y \in S PROVE x <= y
  <2>1. <<y, x>> \notin OpToRel(<, Nat)
    BY <1>2
  <2>2. <<y, x>> \in Nat \X Nat
    BY <1>1
  <2>3. ~(y < x)
    BY <2>1, <2>2 DEF OpToRel
  <2>4. x \in Nat /\ y \in Nat
    BY <1>1
  <2> QED BY <2>3, <2>4
<1>4. \E p \in S : \A q \in S : p <= q
  BY <1>3
<1> QED BY <1>4 DEF SmallestFree, Min

\* A thread that opens a detail leaves it with its answer.
LEMMA OpensFits ==
  ASSUME bridge \in Bridges, NEW end \in Answers, Opens(end)
  PROVE  /\ bridge' \in Bridges /\ bridge'.kind = bridge.kind /\ bridge'.stage = "back"
         /\ bridge'.scans = bridge.scans /\ bridge'.end = end
         /\ bridge'.cancelled = bridge.cancelled /\ bridge'.told = bridge.told
         /\ bridge'.handle \in (1 .. MaxHandles) \ leases /\ leases' = leases \cup {bridge'.handle}
<1>1. SmallestFree \in (1 .. MaxHandles) \ leases
  BY SmallestFits DEF Opens
<1>2. PICK n \in (1 .. MaxHandles) \ leases : n = SmallestFree
  BY <1>1
<1>3. n \in 0 .. MaxHandles
  OBVIOUS
<1>4. bridge' = [bridge EXCEPT !.stage = "back", !.end = end, !.handle = n] /\ leases' = leases \cup {n}
  BY <1>2 DEF Opens
<1>5. /\ bridge' \in Bridges /\ bridge'.kind = bridge.kind /\ bridge'.stage = "back"
      /\ bridge'.scans = bridge.scans /\ bridge'.end = end
      /\ bridge'.cancelled = bridge.cancelled /\ bridge'.told = bridge.told /\ bridge'.handle = n
  BY <1>3, <1>4 DEF Bridges, Stages
<1> QED BY <1>4, <1>5

\* A bridge that is cancelled stays what it was.
LEMMA CancelledFits ==
  ASSUME bridge \in Bridges
  PROVE  /\ LET b == [bridge EXCEPT !.cancelled = TRUE]
            IN /\ b \in Bridges /\ b.kind = bridge.kind /\ b.stage = bridge.stage /\ b.scans = bridge.scans
               /\ b.handle = bridge.handle /\ b.end = bridge.end /\ b.cancelled /\ b.told = bridge.told
         /\ LET b == [bridge EXCEPT !.cancelled = TRUE, !.told = TRUE]
            IN /\ b \in Bridges /\ b.kind = bridge.kind /\ b.stage = bridge.stage /\ b.scans = bridge.scans
               /\ b.handle = bridge.handle /\ b.end = bridge.end /\ b.cancelled /\ b.told
BY DEF Bridges

\* The ways in which an operation may be taken.
Refused(op) ==
  /\ closing \/ Working
  /\ bridge' = bridge /\ active' = active /\ heard' = heard /\ deferred' = deferred
  /\ refresh' = (refresh /\ op.kind \notin {"change", "batch", "export"})

Taken(op) ==
  /\ ~closing /\ ~Working
  /\ heard' = IF op.kind \in Desktop THEN op.kind ELSE heard
  /\ refresh' = (op.kind \in {"change", "batch"})

PutOff(op)  == Taken(op) /\ bridge.kind # "none" /\ deferred' = op /\ bridge' = bridge /\ active' = active
Started(op) == Taken(op) /\ bridge.kind = "none" /\ deferred' = deferred /\ bridge' = Run(op) /\ active' = op.kind

\* An operation is refused, put off or started (_start_operation).
LEMMA Begins ==
  ASSUME NEW op, Begin(op)
  PROVE  Refused(op) \/ PutOff(op) \/ Started(op)
BY DEF Begin, Refused, Taken, PutOff, Started

\* The stack without its topmost dialog, and with one more.
LEMMA FrontFits ==
  ASSUME dialogs \in Seq(Dialogs), dialogs # <<>>, dialogs' = Front(dialogs)
  PROVE  /\ dialogs' \in Seq(Dialogs)
         /\ Last(dialogs) \in Dialogs /\ \E i \in DOMAIN dialogs : dialogs[i] = Last(dialogs)
         /\ DOMAIN dialogs' \subseteq DOMAIN dialogs
         /\ \A i \in DOMAIN dialogs' : dialogs'[i] = dialogs[i]
         /\ \A i \in DOMAIN dialogs : i \in DOMAIN dialogs' \/ i = Len(dialogs)
<1>1. /\ Len(dialogs) \in Nat \ {0} /\ dialogs \in [1 .. Len(dialogs) -> Dialogs]
      /\ DOMAIN dialogs = 1 .. Len(dialogs)
  BY EmptySeq, LenProperties
<1>2. \A i \in 1 .. Len(dialogs) - 1 : dialogs[i] \in Dialogs
  BY <1>1
<1>3. /\ dialogs' \in Seq(Dialogs) /\ Len(dialogs') = Len(dialogs) - 1
      /\ \A i \in 1 .. Len(dialogs) - 1 : dialogs'[i] = dialogs[i]
  BY <1>1, <1>2, SubSeqProperties DEF Front
<1>4. DOMAIN dialogs' = 1 .. Len(dialogs) - 1
  BY <1>3, LenProperties
<1> QED BY <1>1, <1>3, <1>4 DEF Last

\* A longer stack holds the dialogs it held, and the new one.
LEMMA AppendFits ==
  ASSUME dialogs \in Seq(Dialogs), NEW d \in Dialogs, dialogs' = Append(dialogs, d)
  PROVE  /\ dialogs' \in Seq(Dialogs) /\ dialogs' # <<>>
         /\ DOMAIN dialogs \subseteq DOMAIN dialogs'
         /\ \A i \in DOMAIN dialogs : dialogs'[i] = dialogs[i]
         /\ \A i \in DOMAIN dialogs' : i \in DOMAIN dialogs \/ dialogs'[i] = d
         /\ \A i \in DOMAIN dialogs' : i > 1 /\ dialogs'[i] # d => i \in DOMAIN dialogs
         /\ \E i \in DOMAIN dialogs' : dialogs'[i] = d
OBVIOUS

\* What a shorter and a longer stack say of the dialogs that are open.
LEMMA Closed ==
  ASSUME StackInv, dialogs # <<>>, dialogs' = Front(dialogs)
  PROVE  /\ StackInv'
         /\ \A g : HasDialog(g)' => HasDialog(g)
         /\ \A s : HasQuestion(s) => HasQuestion(s)' \/ Last(dialogs) = Dialog("newform", s)
         /\ Last(dialogs) \in Dialogs
         /\ \A g : Last(dialogs).what \in g => HasDialog(g)
<1>1. dialogs \in Seq(Dialogs)
  BY DEF StackInv
<1>2. /\ dialogs' \in Seq(Dialogs)
      /\ Last(dialogs) \in Dialogs /\ \E i \in DOMAIN dialogs : dialogs[i] = Last(dialogs)
      /\ DOMAIN dialogs' \subseteq DOMAIN dialogs
      /\ \A i \in DOMAIN dialogs' : dialogs'[i] = dialogs[i]
      /\ \A i \in DOMAIN dialogs : i \in DOMAIN dialogs' \/ i = Len(dialogs)
  BY <1>1, FrontFits
<1>3. StackInv'
  BY <1>2 DEF StackInv
<1>4. \A g : HasDialog(g)' => HasDialog(g)
  BY <1>2 DEF HasDialog
<1>5. \A g : Last(dialogs).what \in g => HasDialog(g)
  BY <1>2 DEF HasDialog
<1>6. \A s : HasQuestion(s) => HasQuestion(s)' \/ Last(dialogs) = Dialog("newform", s)
  BY <1>2 DEF HasQuestion, Last
<1> QED BY <1>2, <1>3, <1>4, <1>5, <1>6

\* With a question of the user's own the stack is empty when it is answered.
LEMMA Answering ==
  ASSUME StackInv, NEW kind \in Asking, OnTop({kind}), dialogs' = Front(dialogs)
  PROVE  /\ StackInv' /\ \A g : kind \in g => HasDialog(g)
         /\ \A g : ~HasDialog(g)'
         /\ \A s : ~HasQuestion(s)
<1>1. /\ dialogs # <<>> /\ Last(dialogs).what = kind
      /\ dialogs \in Seq(Dialogs)
  BY DEF OnTop, StackInv
<1>2. kind \notin {"trash", "newform"}
  BY DEF Asking
<1>3. Len(dialogs) \in Nat \ {0} /\ DOMAIN dialogs = 1 .. Len(dialogs)
  BY <1>1, EmptySeq, LenProperties
<1>4. Len(dialogs) = 1
  BY <1>1, <1>2, <1>3 DEF StackInv, Last
<1>5. /\ \A i \in DOMAIN dialogs' : i \in DOMAIN dialogs
      /\ \A i \in DOMAIN dialogs : i = 1
  BY <1>1, <1>3, <1>4, FrontFits
<1>6. dialogs' = <<>>
  BY <1>4, SubSeqEmpty DEF Front
<1>7. DOMAIN dialogs' = {}
  BY <1>6
<1>8. dialogs[1].what = kind
  BY <1>1, <1>4 DEF Last
<1>9. \A s : ~HasQuestion(s)
  BY <1>2, <1>5, <1>8 DEF HasQuestion, Dialog
<1> QED BY <1>1, <1>7, <1>9, Closed DEF HasDialog

\* The dialogs when there are none, and when one is opened.
LEMMA NoDialog ==
  ASSUME dialogs = <<>>
  PROVE  (\A g : ~HasDialog(g)) /\ (\A s : ~HasQuestion(s))
BY DEF HasDialog, HasQuestion

\* A longer stack keeps the questions about forms, and the order of dialogs.
LEMMA Opened ==
  ASSUME StackInv, NEW d \in Dialogs, dialogs' = Append(dialogs, d),
         dialogs = <<>> \/ d.what \in {"trash", "newform"}
  PROVE  /\ StackInv'
         /\ \A g : HasDialog(g)' => HasDialog(g) \/ d.what \in g
         /\ \A s : HasQuestion(s) => HasQuestion(s)'
         /\ \A s : d = Dialog("newform", s) => HasQuestion(s)'
<1>1. dialogs \in Seq(Dialogs)
  BY DEF StackInv
<1>2. /\ dialogs' \in Seq(Dialogs)
      /\ DOMAIN dialogs \subseteq DOMAIN dialogs'
      /\ \A i \in DOMAIN dialogs : dialogs'[i] = dialogs[i]
      /\ \A i \in DOMAIN dialogs' : i \in DOMAIN dialogs \/ dialogs'[i] = d
      /\ \E i \in DOMAIN dialogs' : dialogs'[i] = d
  BY <1>1, AppendFits
<1>3. dialogs = <<>> => \A i \in DOMAIN dialogs' : ~(i > 1)
  BY <1>1
<1>4. StackInv'
  BY <1>2, <1>3 DEF StackInv
<1> QED BY <1>2, <1>4 DEF HasDialog, HasQuestion

\* What is said of the dialogs depends on them alone.
LEMMA SameDialogs ==
  ASSUME dialogs' = dialogs
  PROVE  /\ StackInv => StackInv' 
         /\ \A g : HasDialog(g)' = HasDialog(g)
         /\ \A s : HasQuestion(s)' = HasQuestion(s)
BY DEF StackInv, HasDialog, HasQuestion

-----------------------------------------------------------------------------
(***************************************************************************)
(* The bridge, the active operation and the one put off                    *)
(***************************************************************************)
quiet == <<bridge, active, heard, refresh, deferred>>

\* Where nothing moves the bridge and what is active still belong together.
LEMMA WorkQuiet == ASSUME WorkInv, UNCHANGED <<quiet, closing>> PROVE WorkInv'
BY DEF WorkInv, quiet, Deferred

\* So they do when an operation is begun,
LEMMA WorkBegins ==
  ASSUME WorkInv, NEW op, Fresh(op), Begin(op), UNCHANGED closing
  PROVE  WorkInv'
<1>1. /\ op \in Bridges /\ op.kind \in Operations /\ op.kind # "none"
      /\ "none" \notin Operations
  BY DEF Fresh, Bridges, Operations, ListOps, SettingsOps, ScanOps, GradingOps
<1>2. CASE Refused(op)
  BY <1>2 DEF Refused, WorkInv, Deferred
<1>3. CASE PutOff(op)
  <2>1. active = "none" /\ bridge.kind # "none" /\ ~closing
    BY <1>3 DEF PutOff, Taken, Working
  <2> QED BY <1>1, <1>3, <2>1 DEF PutOff, Taken, WorkInv, Deferred
<1>4. CASE Started(op)
  <2>1. /\ bridge' \in Bridges /\ bridge'.kind = op.kind /\ bridge'.stage = "run" /\ bridge'.handle = 0
        /\ ~bridge'.cancelled /\ ~bridge'.told
    BY <1>4, RunFits DEF Started
  <2>2. ~Deferred
    BY <1>4 DEF Started, Taken, Working
  <2> QED BY <1>1, <1>4, <2>1, <2>2 DEF Started, Taken, WorkInv, Deferred, Fresh
<1> QED BY <1>2, <1>3, <1>4, Begins

\* Where an answer arrives nothing is put off.
LEMMA Arriving ==
  ASSUME WorkInv, NEW kind \in Operations, NEW end, Arrives(kind, end)
  PROVE  /\ ~Deferred /\ ~closing /\ bridge.kind = kind /\ active = kind /\ bridge.stage = "back"
         /\ kind # "none" /\ ~bridge.told /\ bridge.end = end
         /\ bridge.handle # 0 => kind \in {"detail", "fix"} /\ end = "done"
<1>1. kind # "none"
  BY DEF Operations, ListOps, SettingsOps, ScanOps, GradingOps
<1> QED BY <1>1 DEF Arrives, WorkInv, Muted, Deferred

\* when an answer was shown,
LEMMA WorkSettles ==
  ASSUME WorkInv, NEW kind \in Operations, NEW end, Arrives(kind, end), Settle, UNCHANGED closing
  PROVE  WorkInv'
<1>1. /\ bridge' \in Bridges /\ bridge'.kind = bridge.kind /\ bridge'.stage = "over"
      /\ bridge'.handle = 0 /\ ~bridge'.cancelled /\ bridge'.told
  BY OverFits DEF Settle, WorkInv
<1>2. ~Deferred /\ bridge.kind = kind /\ kind # "none"
  BY Arriving
<1>3. /\ active' = "none" /\ heard' = "none" /\ refresh' = FALSE /\ deferred' = deferred
  BY DEF Settle, Terminal
<1> QED BY <1>1, <1>2, <1>3 DEF WorkInv, Deferred

\* when it is a question about a form,
LEMMA WorkAsks ==
  ASSUME WorkInv, Arrives("form", "done"), Over, UNCHANGED <<active, heard, refresh, deferred, closing>>
  PROVE  WorkInv'
<1>1. /\ bridge' \in Bridges /\ bridge'.kind = bridge.kind /\ bridge'.stage = "over"
      /\ bridge'.handle = 0 /\ ~bridge'.cancelled /\ bridge'.told
  BY OverFits DEF WorkInv
<1>2. "form" \in Operations
  BY DEF Operations, ListOps
<1>3. ~Deferred /\ bridge.kind = "form" /\ active = "form"
  BY <1>2, Arriving
<1> QED BY <1>1, <1>3 DEF WorkInv, Deferred

\* when it is dropped,
LEMMA WorkDropped == ASSUME WorkInv, Dropped PROVE WorkInv'
<1>1. closing' = closing /\ deferred' = deferred /\ bridge.stage = "back"
  BY DEF Dropped, ends
<1>2. CASE Muted
  <2>1. bridge' = [bridge EXCEPT !.stage = "over"] /\ UNCHANGED <<active, heard, refresh>>
    BY <1>2 DEF Dropped
  <2>2. /\ bridge' \in Bridges /\ bridge'.kind = bridge.kind /\ bridge'.stage = "over"
        /\ bridge'.handle = bridge.handle /\ bridge'.cancelled = bridge.cancelled /\ bridge'.told = bridge.told
        /\ bridge'.end = bridge.end
    BY <2>1 DEF WorkInv, Bridges, Stages
  <2>3. bridge.kind = "scan" \/ closing
    BY <1>1, <1>2 DEF Muted, WorkInv
  <2>4. bridge.handle # 0 => closing
    BY <2>3 DEF WorkInv
  <2>5. active \in {"none", "scan"} \/ closing
    BY <1>1, <2>3 DEF WorkInv
  <2> QED BY <1>1, <2>1, <2>2, <2>3, <2>4, <2>5 DEF WorkInv, Deferred
<1>3. CASE ~Muted
  <2>1. Over /\ Terminal
    BY <1>3 DEF Dropped
  <2>2. /\ bridge' \in Bridges /\ bridge'.kind = bridge.kind /\ bridge'.stage = "over"
        /\ bridge'.handle = 0 /\ ~bridge'.cancelled /\ bridge'.told
    BY <2>1, OverFits DEF WorkInv
  <2> QED BY <1>1, <2>1, <2>2 DEF WorkInv, Deferred, Terminal
<1> QED BY <1>2, <1>3

\* when a scan is cancelled,
LEMMA WorkCancelled == ASSUME WorkInv, CancelScan PROVE WorkInv'
<1>1. closing' = closing /\ deferred' = deferred /\ active = "scan" /\ bridge.kind = "scan" /\ ~Deferred
  BY DEF CancelScan, ends, WorkInv, Deferred
<1>2. CASE bridge' = [bridge EXCEPT !.cancelled = TRUE] /\ UNCHANGED <<active, heard, refresh>>
  BY <1>1, <1>2, CancelledFits DEF WorkInv, Deferred
<1>3. CASE /\ bridge' = [bridge EXCEPT !.cancelled = TRUE, !.told = TRUE]
           /\ active' = "none" /\ heard' = "none" /\ refresh' = FALSE
  BY <1>1, <1>3, CancelledFits DEF WorkInv, Deferred
<1> QED BY <1>2, <1>3 DEF CancelScan

\* The thread of an operation ends, with a detail or without.
LEMMA ThreadEnds ==
  ASSUME WorkInv, Work
  PROVE  /\ bridge' \in Bridges /\ bridge'.kind = bridge.kind /\ bridge'.stage = "back"
         /\ bridge'.scans = bridge.scans /\ bridge.stage = "run" /\ bridge.handle = 0
         /\ bridge'.cancelled = bridge.cancelled /\ bridge'.told = bridge.told
         /\ \/ bridge'.handle = 0 /\ leases' = leases
            \/ /\ bridge.kind \in {"detail", "fix"} /\ bridge'.handle \in (1 .. MaxHandles) \ leases
               /\ bridge'.end = "done" /\ leases' = leases \cup {bridge'.handle}
<1>1. bridge \in Bridges /\ bridge.stage = "run" /\ bridge.handle = 0
  BY DEF WorkInv, Work
<1>2. "done" \in Answers /\ "failed" \in Answers /\ "denied" \in Answers
  BY DEF Answers
<1>3. ASSUME NEW end \in Answers, Ended(end), leases' = leases
      PROVE  /\ bridge' \in Bridges /\ bridge'.kind = bridge.kind /\ bridge'.stage = "back"
             /\ bridge'.scans = bridge.scans /\ bridge'.handle = 0
             /\ bridge'.cancelled = bridge.cancelled /\ bridge'.told = bridge.told
  BY <1>1, <1>3, EndedFits
<1>4. CASE Fails \/ Reads \/ Saves \/ SavesScan \/ SavesSettings \/ BringsExams
  <2>1. \E end \in Answers : Ended(end) /\ leases' = leases
    BY <1>2, <1>4 DEF Fails, Reads, Saves, SavesScan, SavesSettings, BringsExams, Same
  <2> QED BY <1>1, <1>3, <2>1
<1>5. CASE OpensDetail \/ FixesId
  <2>1. CASE Opens("done") /\ bridge.kind \in {"detail", "fix"}
    BY <1>1, <1>2, <2>1, OpensFits
  <2>2. CASE Ended("done") /\ leases' = leases
    BY <1>1, <1>2, <1>3, <2>2
  <2> QED BY <1>5, <2>1, <2>2 DEF OpensDetail, FixesId
<1> QED BY <1>4, <1>5 DEF Work

\* when the thread has answered,
LEMMA WorkEnds == ASSUME WorkInv, Work PROVE WorkInv'
<1>1. UNCHANGED <<active, heard, refresh, deferred, closing>>
  BY DEF Work, ends
<1> QED BY <1>1, ThreadEnds DEF WorkInv, Deferred

\* when it is gone and what was put off begins,
LEMMA WorkFinishes == ASSUME WorkInv, Finish PROVE WorkInv'
<1>1. closing' = closing /\ bridge.stage = "over" /\ deferred' = Idle
  BY DEF Finish
<1>2. CASE Deferred /\ ~closing
  <2>1. bridge' = Run(deferred) /\ active' = deferred.kind /\ UNCHANGED <<heard, refresh>>
    BY <1>2 DEF Finish
  <2>2. Fresh(deferred) /\ deferred.kind \in Operations /\ deferred.kind # "none"
    BY <1>2 DEF WorkInv, Bridges, Deferred
  <2>3. /\ bridge' \in Bridges /\ bridge'.kind = deferred.kind /\ bridge'.stage = "run" /\ bridge'.handle = 0
        /\ ~bridge'.cancelled /\ ~bridge'.told
    BY <2>1, <2>2, RunFits
  <2> QED BY <1>1, <2>1, <2>2, <2>3, IdleFits DEF WorkInv, Deferred
<1>3. CASE ~(Deferred /\ ~closing)
  <2>1. bridge' = Idle /\ IF bridge.told THEN UNCHANGED <<active, heard, refresh>> ELSE Terminal
    BY <1>3 DEF Finish
  <2>2. active' \in {"none", "form"} /\ heard' \in Operations \cup {"none"} /\ refresh' \in BOOLEAN
    BY <2>1 DEF WorkInv, Terminal
  <2>3. active' \in Operations \cup {"none"}
    BY <2>2 DEF Operations, ListOps
  <2> QED BY <1>1, <2>1, <2>2, <2>3, IdleFits DEF WorkInv, Deferred
<1> QED BY <1>2, <1>3

\* when the window closes,
LEMMA WorkShutdown == ASSUME WorkInv, Shutdown PROVE WorkInv'
<1>1. /\ closing' = TRUE /\ deferred' = Idle /\ heard' = "none" /\ UNCHANGED <<active, refresh>>
      /\ bridge' = IF bridge.kind = "none" THEN bridge ELSE [bridge EXCEPT !.cancelled = TRUE]
  BY DEF Shutdown
<1>2. CASE bridge.kind = "none"
  BY <1>1, <1>2, IdleFits DEF WorkInv, Deferred
<1>3. CASE bridge.kind # "none"
  BY <1>1, <1>3, IdleFits, CancelledFits DEF WorkInv, Deferred
<1> QED BY <1>2, <1>3

\* and when a late end is told.
LEMMA WorkTerminal ==
  ASSUME WorkInv, Terminal, UNCHANGED <<bridge, deferred, closing>> PROVE WorkInv'
BY DEF WorkInv, Deferred, Terminal

-----------------------------------------------------------------------------
(***************************************************************************)
(* What asks for an operation                                              *)
(***************************************************************************)
\* An operation that is asked for, or put off, and the state in which it is.
Request(op) ==
  /\ Fresh(op) /\ Begin(op)
  /\ op.kind \in {"change", "batch", "export"} =>
       closing \/ (active # "change" /\ deferred.kind # "change")
  /\ op.kind \in {"load", "form", "batch"} \/ ~HasDialog(Asking \ {"profile"})'
  /\ op.kind = "change" => ~HasDialog({"trash"})'
  /\ op.kind = "detail" => exam' = "list"
  /\ op.kind \in Linking => page' # "exam"
  /\ op.kind = "fix" => ConfirmFix
  /\ op.kind = "profile" => ConfirmProfile
  /\ op.kind = "form" => op.scans \in Sources /\ paths' = op.scans

Requests == UNCHANGED quiet \/ \E op : Request(op)

\* The operations, and some of them that do not connect the grading page.
LEMMA Kinds1 ==
  /\ ListOps \cup SettingsOps \cup ScanOps \cup GradingOps = Operations
  /\ "load" \notin Linking /\ "form" \notin Linking /\ "batch" \notin Linking
  /\ "results" \notin Linking /\ "save" \notin Linking /\ "detail" \notin Linking
  /\ "trashlist" \notin Linking
BY DEF Operations, Linking

\* The list is read again.
LEMMA LoadRequest == Begin(Op("load", 0)) => \E op : Request(op) /\ op.kind = "load"
<1>1. "load" \in Operations /\ 0 \in Nat
  BY DEF Operations, ListOps
<1>2. ASSUME NEW op, op = Op("load", 0), Begin(op) PROVE Request(op) /\ op.kind = "load"
  BY <1>1, <1>2, OpFits, Kinds1 DEF Request
<1> QED BY <1>2

\* Reading the list again asks for nothing else.
LEMMA RefreshRequests == Refresh \/ ListShown => Requests
<1>1. Refresh => Requests
  BY LoadRequest DEF Refresh, Requests, work, quiet
<1>2. ListShown => UNCHANGED work \/ Refresh
  BY DEF ListShown
<1> QED BY <1>1, <1>2 DEF Requests, work, quiet

\* Going from page to page only reads the list again.
LEMMA GoingRequests ==
  ASSUME (\E target \in {"scan", "grade", "exam", "settings"} : Navigate(target)) \/ DetailBack
  PROVE  Requests /\ UNCHANGED closing
<1>1. Requests
  BY RefreshRequests DEF Navigate, DetailBack, LeaveDetail, Requests, work, quiet
<1> QED BY <1>1 DEF Navigate, DetailBack, ends

\* The answer to a question of the user's own.
LEMMA AnswerRequests ==
  ASSUME StackInv, QuestionInv, WorkInv, PageTypes, NEW kind \in Asking,
         Answered(kind), Begin(Op(kind, ops)), kind = "fix" => ConfirmFix, kind = "profile" => ConfirmProfile
  PROVE  \E op : Request(op) /\ op.kind = kind
<1>1. kind \in Operations /\ ops \in Nat
  BY DEF Asking, Operations, ListOps, SettingsOps, ScanOps, GradingOps, PageTypes
<1>2. PICK op : op = Op(kind, ops)
  OBVIOUS
<1>3. Fresh(op) /\ op.kind = kind /\ Begin(op)
  BY <1>1, <1>2, OpFits
<1>4. /\ \A g : kind \in g => HasDialog(g)
      /\ \A g : ~HasDialog(g)'
  BY Answering DEF Answered
<1>5. UNCHANGED <<page, exam>>
  BY DEF Answered, Elsewhere
<1>6. kind \in {"change", "export"} => active # "change" /\ deferred.kind # "change"
  <2>1. kind \in {"change", "export"} => HasDialog(Asking \ {"profile"})
    BY <1>4
  <2> QED BY <2>1 DEF QuestionInv
<1>7. kind \in Linking => page # "exam"
  <2>1. kind \in {"scan", "fresh", "other"} => HasDialog({"scan", "fresh", "other"})
    BY <1>4
  <2>2. kind \in Linking => kind \in {"scan", "fresh", "other"}
    BY DEF Linking, Asking
  <2> QED BY <2>1, <2>2 DEF QuestionInv
<1>8. kind \notin {"detail", "batch", "form"}
  BY DEF Asking
<1> QED BY <1>3, <1>4, <1>5, <1>6, <1>7, <1>8 DEF Request

\* Each of the answers asks for its operation, or for none.
LEMMA ConfirmRequests ==
  ASSUME StackInv, QuestionInv, WorkInv, PageTypes,
         ConfirmFix \/ ConfirmProfile \/ ConfirmWrite \/ ConfirmDesktop
  PROVE  Requests /\ UNCHANGED closing
<1>1. ASSUME NEW kind \in Asking, Answered(kind), Begin(Op(kind, ops)),
             kind = "fix" => ConfirmFix, kind = "profile" => ConfirmProfile
      PROVE  Requests /\ UNCHANGED closing
  BY <1>1, AnswerRequests DEF Requests, Answered, Elsewhere, ends
<1>2. ASSUME NEW kind \in Asking, Answered(kind), UNCHANGED quiet PROVE Requests /\ UNCHANGED closing
  BY <1>2 DEF Requests, Answered, Elsewhere, ends
<1>3. PICK kind \in Asking : /\ Answered(kind) /\ (Begin(Op(kind, ops)) \/ UNCHANGED quiet)
                             /\ kind = "fix" => ConfirmFix
                             /\ kind = "profile" => ConfirmProfile
  <2>1. CASE ConfirmFix
    BY <2>1 DEF ConfirmFix, Asking
  <2>2. CASE ConfirmProfile
    BY <2>2 DEF ConfirmProfile, Asking, quiet
  <2>3. CASE ConfirmWrite
    BY <2>3 DEF ConfirmWrite, Asking, quiet
  <2>4. CASE ConfirmDesktop
    BY <2>4 DEF ConfirmDesktop, Asking
  <2> QED BY <2>1, <2>2, <2>3, <2>4
<1> QED BY <1>1, <1>2, <1>3

\* A request without a question, where no dialog is open.
LEMMA PlainRequest ==
  ASSUME PageTypes, NEW kind \in Operations \ Asking, NEW n \in Nat, Free, UNCHANGED win, Begin(Op(kind, n)),
         kind = "detail" => exam = "list", kind \in Linking => page # "exam", kind \notin {"batch", "form"}
  PROVE  \E op : Request(op) /\ op.kind = kind
<1>1. PICK op : op = Op(kind, n)
  OBVIOUS
<1>2. Fresh(op) /\ op.kind = kind /\ Begin(op)
  BY <1>1, OpFits
<1>3. \A g : ~HasDialog(g)'
  BY SameDialogs, NoDialog DEF Free, win
<1>4. kind \notin {"change", "export", "fix", "profile"} /\ UNCHANGED <<page, exam>>
  BY DEF Asking, win
<1> QED BY <1>2, <1>3, <1>4 DEF Request

\* Each of the requests asks for its operation, or for none.
LEMMA PlainRequests ==
  ASSUME PageTypes,
         RequestReload \/ RequestFromList \/ RequestSave \/ RequestGrading \/ RequestResults
  PROVE  Requests /\ UNCHANGED closing
<1>1. \A kind : Requested(kind) => Free /\ UNCHANGED win /\ UNCHANGED closing /\ Offered(kind)
  BY DEF Requested, ends
<1>2. ops \in Nat /\ ops + 1 \in Nat /\ 0 \in Nat
  BY DEF PageTypes
<1>3. {"load", "detail", "trashlist", "save", "grade", "results"} \subseteq Operations \ Asking
  BY DEF Operations, ListOps, SettingsOps, GradingOps, Asking
<1>4. CASE RequestReload
  <2>1. CASE Working
    BY <1>1, <1>4, <2>1 DEF RequestReload, Requests, quiet
  <2>2. CASE ~Working
    BY <1>1, <1>4, <2>2, LoadRequest DEF RequestReload, Requests
  <2> QED BY <2>1, <2>2
<1>5. CASE RequestFromList
  <2>1. PICK kind \in {"detail", "trashlist"} : Requested(kind) /\ Begin(Op(kind, 0))
    BY <1>5 DEF RequestFromList
  <2>2. OfferedOnList(kind)
    BY <1>1, <2>1 DEF Offered, OfferedOnSettings, OfferedOnScan, OfferedOnGrading, OfferedOnDetail,
                      SettingsOps, ScanOps, GradingOps
  <2>3. exam = "list"
    BY <2>2 DEF OfferedOnList, OnList
  <2>4. kind \notin Linking
    BY Kinds1
  <2> QED BY <1>1, <1>2, <1>3, <2>1, <2>3, <2>4, PlainRequest DEF Requests
<1>6. CASE RequestSave
  BY <1>1, <1>2, <1>3, <1>6, Kinds1, PlainRequest DEF RequestSave, Requests
<1>7. CASE RequestGrading
  <2>1. OfferedOnGrading("grade")
    BY <1>1, <1>7 DEF RequestGrading, Offered, OfferedOnSettings, OfferedOnScan, OfferedOnList, OfferedOnDetail,
                      SettingsOps, ScanOps
  <2>2. page # "exam"
    BY <2>1 DEF OfferedOnGrading, OnGrading
  <2> QED BY <1>1, <1>2, <1>3, <1>7, <2>2, PlainRequest DEF RequestGrading, Requests
<1>8. CASE RequestResults
  BY <1>1, <1>2, <1>3, <1>8, Kinds1, PlainRequest DEF RequestResults, Requests
<1> QED BY <1>4, <1>5, <1>6, <1>7, <1>8

\* What the trash dialog asks for.
LEMMA TrashRequests ==
  ASSUME StackInv, QuestionInv, WorkInv, TrashRequest
  PROVE  Requests /\ UNCHANGED closing
<1>1. "batch" \in Operations /\ 0 \in Nat /\ "batch" \notin Linking
  BY DEF Operations, ListOps, Linking
<1>2. PICK op : op = Op("batch", 0)
  OBVIOUS
<1>3. Fresh(op) /\ op.kind = "batch" /\ Begin(op)
  BY <1>1, <1>2, OpFits DEF TrashRequest
<1>4. HasDialog({"trash"})
  BY Closed DEF TrashRequest, OnTop
<1>5. closing \/ (active # "change" /\ deferred.kind # "change")
  BY <1>4 DEF QuestionInv
<1> QED BY <1>1, <1>3, <1>5 DEF Request, Requests, TrashRequest, Elsewhere, ends

\* A detection is begun for the scans it is asked for, or put off.
LEMMA DetectRequests ==
  ASSUME NEW s \in Sources, Detect(s)
  PROVE  \/ UNCHANGED quiet
         \/ \E op : Request(op) /\ op.kind = "form" /\ op.scans = s
<1>1. "form" \notin Linking
  BY DEF Linking
<1>2. PICK op : op = [Op("form", 0) EXCEPT !.scans = s]
  OBVIOUS
<1>3. Fresh(op) /\ op.kind = "form" /\ op.scans = s
  BY <1>2, FormOpFits
<1>4. UNCHANGED quiet \/ (Begin(op) /\ paths' = s)
  BY <1>2 DEF Detect, work, quiet
<1> QED BY <1>1, <1>3, <1>4 DEF Request

\* So do the timers, and picking scans.
LEMMA TimerRequests ==
  ASSUME ReloadTimer \/ DetectTimer \/ (\E s \in Sources : PickSource(s))
  PROVE  Requests /\ UNCHANGED closing
<1>1. CASE ReloadTimer
  BY <1>1, RefreshRequests DEF ReloadTimer, ends
<1>2. CASE \E s \in Sources : PickSource(s)
  BY <1>2, DetectRequests DEF PickSource, Requests, ends
<1>3. CASE DetectTimer
  <2>1. PICK s \in Sources : UNCHANGED work \/ Detect(s)
    BY <1>3 DEF DetectTimer
  <2> QED BY <1>3, <2>1, DetectRequests DEF DetectTimer, Requests, work, quiet, ends
<1> QED BY <1>1, <1>2, <1>3

\* An answer that has the list read again.
Promises(kind, end) ==
  \/ kind \in {"import", "fullrestore"}
  \/ kind \in {"change", "batch"} /\ end = "done"
  \/ kind = "change" /\ refresh

\* A result or an end is shown.
Settles ==
  \E kind \in Operations, end \in Answers :
    /\ Arrives(kind, end) /\ Settle
    /\ kind \in {"detail", "fix"} /\ end = "done" => ShowDetail \/ FixDone
    /\ kind = "profile" => ~importing'
    /\ kind = "form" => FormArrives \/ FormFailed
    /\ kind = "save" \/ (kind \in {"import", "fullrestore"} /\ end = "done") =>
         settings' # "old" \/ "unloaded" \in slips'
    /\ listed' = "old" => listed = "old" /\ kind \notin {"load", "results"}
    /\ UNCHANGED timers /\ (reload \/ Promises(kind, end) => reload')
    /\ OnExamList' => OnExamList \/ reload' \/ listed' # "old"

\* The question about a new form holds back the end of its detection.
Holds ==
  /\ FormArrives /\ Arrives("form", "done") /\ Over
  /\ UNCHANGED <<active, heard, refresh, deferred, page, exam, later, lists>>

\* Every answer is dropped, shown, or held back by a question.
LEMMA ResultSteps ==
  ASSUME Result
  PROVE  Dropped \/ (UNCHANGED closing /\ (Settles \/ Holds))
<1>1. /\ Desktop \cup ScanOps \cup GradingOps \subseteq Operations
      /\ {"load", "results", "detail", "trashlist", "change", "batch", "export", "fullbackup", "key", "import",
          "fullrestore", "save", "profile", "scan", "grade", "other", "fresh", "fix", "form"} \subseteq Operations
      /\ {"done", "failed", "denied"} \subseteq Answers
  BY DEF Operations, Desktop, ListOps, SettingsOps, ScanOps, GradingOps, Answers
<1>2. CASE Failed
  BY <1>1, <1>2 DEF Failed, SaveRefused, Settles, ends, Promises, OnExamList, later, lists, win
<1>3. CASE ShowList
  BY <1>1, <1>3 DEF ShowList, Settles, ends, Promises, OnExamList, later, lists, win
<1>4. CASE ShowResults
  BY <1>1, <1>4 DEF ShowResults, Settles, ends, Promises, OnExamList, later, lists, win
<1>5. CASE ShowDetail
  BY <1>1, <1>5 DEF ShowDetail, Settles, ends, Promises, OnExamList, later, lists, win
<1>6. CASE KeepTrash
  BY <1>1, <1>6 DEF KeepTrash, Settles, ends, Promises, OnExamList, later, lists, win
<1>7. CASE ActionDone
  BY <1>1, <1>7 DEF ActionDone, Settles, ends, Promises, OnExamList, later, lists, win
<1>8. CASE ImportDone
  BY <1>1, <1>8 DEF ImportDone, Shown, Settles, ends, Promises, OnExamList, later, lists, win
<1>9. CASE SettingsSaved
  BY <1>1, <1>9 DEF SettingsSaved, Shown, SaveRefused, Settles, ends, Promises, OnExamList, later, lists, win
<1>10. CASE ProfileImported
  BY <1>1, <1>10 DEF ProfileImported, Settles, ends, Promises, OnExamList, later, lists, win
<1>11. CASE Connected
  BY <1>1, <1>11 DEF Connected, Settles, ends, Promises, OnExamList, later, lists, win
<1>12. CASE FreshConnected
  BY <1>1, <1>12 DEF FreshConnected, Settles, ends, Promises, OnExamList, later, lists, win
<1>13. CASE FixDone
  BY <1>1, <1>13 DEF FixDone, Settles, ends, Promises, OnExamList, later, lists, win
<1>14. CASE FormArrives
  <2>1. Arrives("form", "done") /\ (Settle \/ (Over /\ UNCHANGED <<active, heard, refresh, deferred>>))
    BY <1>14 DEF FormArrives
  <2>2. UNCHANGED closing
    BY <1>14 DEF FormArrives, ends
  <2>3. UNCHANGED <<page, exam, later, lists>>
    BY <1>14 DEF FormArrives
  <2> QED BY <1>1, <1>14, <2>1, <2>2, <2>3 DEF Settles, Holds, Promises, OnExamList, later, lists
<1>15. CASE FormFailed
  BY <1>1, <1>15 DEF FormFailed, Settles, ends, Promises, OnExamList, later, lists, win
<1> QED BY <1>2, <1>3, <1>4, <1>5, <1>6, <1>7, <1>8, <1>9, <1>10, <1>11, <1>12, <1>13, <1>14, <1>15 DEF Result

\* The other steps of the user ask for nothing.
LEMMA QuietSteps ==
  ASSUME Decline \/ GradeFromList \/ PickProfile \/ ResetInputs \/ TrashTimer
           \/ (\E kind \in Desktop \cup ScanOps \cup GradingOps : Ask(kind)) \/ UNCHANGED vars
  PROVE  UNCHANGED quiet /\ UNCHANGED closing
BY DEF Decline, GradeFromList, PickProfile, ResetInputs, TrashTimer, Ask, vars, work, ends, quiet, Elsewhere

\* Closing the window shuts it down or leaves all as it is.
LEMMA CloseSteps == Close => Shutdown \/ (UNCHANGED quiet /\ UNCHANGED closing)
BY DEF Close, work, ends, quiet

\* Every step as seen by the bridge and the controller.
LEMMA Steps ==
  ASSUME PageTypes, WorkInv, StackInv, QuestionInv, [Next]_vars
  PROVE  \/ UNCHANGED closing /\ (Requests \/ Settles \/ Holds)
         \/ Shutdown \/ CancelScan \/ AnswerForm \/ Work \/ Dropped \/ Finish
<1>1. CASE User
  <2>1. CASE (\E target \in {"scan", "grade", "exam", "settings"} : Navigate(target)) \/ DetailBack
    BY <2>1, GoingRequests
  <2>2. CASE Close
    BY <2>2, CloseSteps DEF Requests
  <2>3. CASE Decline \/ GradeFromList \/ PickProfile \/ ResetInputs
               \/ \E kind \in Desktop \cup ScanOps \cup GradingOps : Ask(kind)
    BY <2>3, QuietSteps DEF Requests
  <2>4. CASE ConfirmFix \/ ConfirmProfile \/ ConfirmWrite \/ ConfirmDesktop
    BY <2>4, ConfirmRequests
  <2>5. CASE RequestReload \/ RequestFromList \/ RequestSave \/ RequestGrading \/ RequestResults
    BY <2>5, PlainRequests
  <2>6. CASE TrashRequest
    BY <2>6, TrashRequests
  <2>7. CASE \E s \in Sources : PickSource(s)
    BY <2>7, TimerRequests
  <2> QED BY <1>1, <2>1, <2>2, <2>3, <2>4, <2>5, <2>6, <2>7 DEF User
<1>2. CASE Timer
  BY <1>2, TimerRequests, QuietSteps DEF Timer, Requests
<1>3. CASE Result
  BY <1>3, ResultSteps
<1>4. CASE UNCHANGED vars
  BY <1>4, QuietSteps DEF Requests
<1> QED BY <1>1, <1>2, <1>3, <1>4 DEF Next

\* The bridge and what is active belong together after every step.
LEMMA WorkStep ==
  ASSUME PageTypes, WorkInv, StackInv, QuestionInv, [Next]_vars
  PROVE  WorkInv'
<1>1. CASE UNCHANGED closing /\ Requests
  BY <1>1, WorkQuiet, WorkBegins DEF Requests, Request
<1>2. CASE UNCHANGED closing /\ Settles
  BY <1>2, WorkSettles DEF Settles
<1>3. CASE UNCHANGED closing /\ Holds
  BY <1>3, WorkAsks DEF Holds
<1>4. CASE AnswerForm
  BY <1>4, WorkTerminal DEF AnswerForm, ends
<1> QED BY <1>1, <1>2, <1>3, <1>4, Steps, WorkShutdown, WorkCancelled, WorkEnds, WorkDropped, WorkFinishes

-----------------------------------------------------------------------------
(***************************************************************************)
(* The slips, and what answers find                                        *)
(***************************************************************************)
\* A slip is remembered for good; only an unread list, or settings not loaded, may be
\* read after all.
Remembered == \A g : {"unread", "unloaded"} \cap g = {} /\ Slipped(g) => Slipped(g)'

\* Slips that are not taken back are remembered.
LEMMA Remembering == slips \ {"unread", "unloaded"} \subseteq slips' => Remembered
BY DEF Remembered, Slipped

\* Every step remembers them.
LEMMA SlipsStay == ASSUME [Next]_vars PROVE Remembered
<1>1. ListShown \/ UNCHANGED <<exam, page, work, reload, slips>> => slips \subseteq slips'
  BY DEF ListShown
<1>2. CASE User
  <2>1. CASE \E target \in {"scan", "grade", "exam", "settings"} : Navigate(target)
    BY <1>1, <2>1, Remembering DEF Navigate, LeaveDetail
  <2>2. CASE DetailBack
    BY <1>1, <2>2, Remembering DEF DetailBack, LeaveDetail
  <2>3. CASE Close \/ Decline \/ TrashRequest \/ GradeFromList \/ CancelScan
    BY <2>3, Remembering DEF Close, Decline, TrashRequest, GradeFromList, CancelScan
  <2>4. CASE \E kind \in Desktop \cup ScanOps \cup GradingOps : Ask(kind)
    BY <2>4, Remembering DEF Ask
  <2>5. CASE ConfirmFix \/ ConfirmProfile \/ ConfirmWrite \/ ConfirmDesktop
    BY <2>5, Remembering DEF ConfirmFix, ConfirmProfile, ConfirmWrite, ConfirmDesktop
  <2>6. CASE RequestReload \/ RequestFromList \/ RequestSave \/ RequestGrading \/ RequestResults
    BY <2>6, Remembering DEF RequestReload, RequestFromList, RequestSave, RequestGrading, RequestResults, Requested
  <2>7. CASE (\E s \in Sources : PickSource(s)) \/ PickProfile \/ ResetInputs \/ AnswerForm
    BY <2>7, Remembering DEF PickSource, PickProfile, ResetInputs, AnswerForm
  <2> QED BY <1>2, <2>1, <2>2, <2>3, <2>4, <2>5, <2>6, <2>7 DEF User
<1>3. CASE Result
  <2>1. CASE Dropped \/ Failed \/ ShowList \/ ShowResults \/ ShowDetail \/ KeepTrash \/ ActionDone \/ ImportDone
    BY <2>1, Remembering
       DEF Dropped, Failed, ShowList, ShowResults, ShowDetail, KeepTrash, ActionDone, ImportDone, Shown
  <2>2. CASE SettingsSaved \/ ProfileImported \/ Connected \/ FreshConnected
    BY <2>2, Remembering DEF SettingsSaved, Shown, ProfileImported, Connected, FreshConnected
  <2>3. CASE FixDone \/ FormArrives \/ FormFailed
    BY <2>3, Remembering DEF FixDone, FormArrives, FormFailed
  <2> QED BY <1>3, <2>1, <2>2, <2>3 DEF Result
<1>4. CASE Work \/ Finish \/ Timer \/ UNCHANGED vars
  BY <1>4, Remembering DEF Work, Finish, Timer, ReloadTimer, TrashTimer, DetectTimer, vars
<1> QED BY <1>2, <1>3, <1>4 DEF Next

\* A new operation finds its callback when it answers.
LEMMA HeardBegins ==
  ASSUME WorkInv, HeardInv, Remembered, NEW op, Request(op), UNCHANGED closing
  PROVE  HeardInv'
<1>1. SUFFICES ASSUME ~closing, ~Slipped({"confirm"}), ~Slipped({"confirm"})'
               PROVE  HeardInv'
  BY DEF HeardInv, Remembered
<1>2. Fresh(op) /\ Begin(op) /\ op.kind # "none"
  BY DEF Request, Fresh
<1>3. CASE Refused(op)
  BY <1>1, <1>3 DEF Refused, Request, HeardInv, Deferred
<1>4. CASE PutOff(op)
  BY <1>1, <1>2, <1>4 DEF PutOff, Taken, Working, HeardInv, WorkInv, Deferred
<1>5. CASE Started(op)
  BY <1>1, <1>2, <1>5, RunFits DEF Started, Taken, Working, HeardInv, WorkInv, Deferred
<1> QED BY <1>2, <1>3, <1>4, <1>5, Begins

\* Nothing is expected where the end was shown and nothing is put off.
LEMMA HeardOver ==
  ASSUME ~Deferred, UNCHANGED deferred, bridge'.stage = "over", active' # "change"
  PROVE  HeardInv'
BY DEF HeardInv, Deferred

\* Answers go on finding their page and their callback.
LEMMA HeardStep ==
  ASSUME PageTypes, WorkInv, StackInv, QuestionInv, HeardInv, [Next]_vars
  PROVE  HeardInv'
<1>0. Remembered
  BY SlipsStay
<1> SUFFICES ASSUME ~closing', ~Slipped({"confirm"})' PROVE HeardInv'
  BY DEF HeardInv
<1>1. ~Slipped({"confirm"})
  BY <1>0 DEF Remembered
<1>2. CASE UNCHANGED closing /\ Requests
  <2>1. CASE UNCHANGED quiet
    BY <1>1, <1>2, <2>1 DEF HeardInv, quiet, Deferred
  <2> QED BY <1>0, <1>2, <2>1, HeardBegins DEF Requests
<1>3. CASE UNCHANGED closing /\ Settles
  <2>1. PICK kind \in Operations, end \in Answers : Arrives(kind, end) /\ Settle
    BY <1>3 DEF Settles
  <2>2. ~Deferred /\ bridge'.stage = "over" /\ UNCHANGED deferred /\ active' = "none"
    BY <2>1, Arriving, OverFits DEF Settle, Terminal, WorkInv
  <2> QED BY <2>2, HeardOver
<1>4. CASE UNCHANGED closing /\ Holds
  <2>1. "form" \in Operations
    BY DEF Operations, ListOps
  <2>2. ~Deferred /\ bridge'.stage = "over" /\ UNCHANGED deferred /\ active' = "form"
    BY <1>4, <2>1, Arriving, OverFits DEF Holds, WorkInv
  <2> QED BY <2>2, HeardOver
<1>5. CASE Shutdown
  BY <1>5 DEF Shutdown
<1>6. CASE CancelScan
  <2>1. UNCHANGED <<deferred, closing>> /\ active = "scan" /\ bridge.kind = "scan" /\ ~Deferred
    BY <1>6 DEF CancelScan, ends, WorkInv, Deferred
  <2>2. CASE bridge' = [bridge EXCEPT !.cancelled = TRUE] /\ UNCHANGED <<active, heard, refresh>>
    BY <1>1, <2>1, <2>2, CancelledFits DEF HeardInv, WorkInv, Deferred
  <2>3. CASE bridge' = [bridge EXCEPT !.cancelled = TRUE, !.told = TRUE] /\ active' = "none"
    BY <2>1, <2>3, CancelledFits DEF HeardInv, WorkInv, Deferred
  <2> QED BY <1>6, <2>2, <2>3 DEF CancelScan
<1>7. CASE AnswerForm
  <2>1. Terminal /\ UNCHANGED <<bridge, deferred, closing>>
    BY <1>7 DEF AnswerForm, ends
  <2>2. ~Deferred /\ ~(active # "none" /\ bridge.stage \in {"run", "back"})
    BY <1>7 DEF AnswerForm, Slipped
  <2> QED BY <1>1, <2>1, <2>2 DEF HeardInv, Terminal, Deferred, WorkInv
<1>8. CASE Work
  <2>1. UNCHANGED <<active, heard, refresh, deferred, closing>>
    BY <1>8 DEF Work, ends
  <2> QED BY <1>1, <1>8, <2>1, ThreadEnds DEF HeardInv, Deferred
<1>9. CASE Dropped
  <2>1. UNCHANGED <<deferred, closing>> /\ bridge.stage = "back"
    BY <1>9 DEF Dropped, ends
  <2>2. CASE Muted
    <3>1. bridge' = [bridge EXCEPT !.stage = "over"] /\ UNCHANGED <<active, heard, refresh>>
      BY <1>9, <2>2 DEF Dropped
    <3>2. bridge'.stage = "over"
      BY <3>1 DEF WorkInv, Bridges
    <3> QED BY <1>1, <2>1, <3>1, <3>2 DEF HeardInv, Deferred
  <2>3. CASE ~Muted
    <3>1. active # bridge.kind \/ (bridge.kind \in Desktop /\ heard # bridge.kind)
      BY <1>9, <2>1, <2>3 DEF Dropped
    <3>2. ~bridge.told
      BY <2>3 DEF Muted
    <3> QED BY <1>1, <2>1, <3>1, <3>2 DEF HeardInv
  <2> QED BY <2>2, <2>3
<1>10. CASE Finish
  <2>1. closing' = closing /\ deferred' = Idle /\ bridge.stage = "over"
    BY <1>10 DEF Finish
  <2>2. CASE Deferred
    <3>1. bridge' = Run(deferred) /\ active' = deferred.kind /\ UNCHANGED <<heard, refresh>>
      BY <1>10, <2>1, <2>2 DEF Finish
    <3>2. bridge'.kind = deferred.kind /\ bridge'.stage = "run"
      BY <2>2, <3>1, RunFits DEF WorkInv
    <3> QED BY <1>1, <2>1, <2>2, <3>1, <3>2, IdleFits DEF HeardInv, Deferred
  <2>3. CASE ~Deferred
    <3>1. bridge' = Idle /\ ((bridge.told /\ UNCHANGED <<active, refresh>>) \/ Terminal)
      BY <1>10, <2>3 DEF Finish
    <3>2. active' # "change"
      BY <3>1 DEF WorkInv, Terminal
    <3> QED BY <2>1, <3>1, <3>2, IdleFits DEF HeardInv, Deferred
  <2> QED BY <2>2, <2>3
<1> QED BY <1>2, <1>3, <1>4, <1>5, <1>6, <1>7, <1>8, <1>9, <1>10, Steps

-----------------------------------------------------------------------------
(***************************************************************************)
(* The dialogs                                                             *)
(***************************************************************************)
\* A question of the user's own is opened where no dialog is, and nothing is under way that
\* its operation would meet.
LEMMA AskFits ==
  ASSUME StackInv, WorkInv, NEW kind \in Desktop \cup ScanOps \cup GradingOps, Ask(kind)
  PROVE  /\ StackInv' /\ dialogs = <<>> /\ kind \in Asking
         /\ \A g : HasDialog(g)' => kind \in g
         /\ \A s : ~HasQuestion(s)
         /\ UNCHANGED <<page, exam, display, quiet, closing>>
         /\ kind # "profile" => active \in {"none", "form"} /\ ~Deferred
         /\ kind = "fix" => exam = "detail" /\ display # 0
         /\ kind \in {"scan", "fresh", "other"} => page # "exam"
<1>1. /\ dialogs = <<>> /\ kind \in Asking /\ Offered(kind) /\ dialogs' = <<Dialog(kind, NoSource)>>
      /\ UNCHANGED <<page, exam, display, quiet, closing>>
  BY DEF Ask, Free, Elsewhere, quiet, opened, ends
<1>2. Dialog(kind, NoSource) \in Dialogs /\ Dialog(kind, NoSource).what = kind
  BY <1>1 DEF Dialogs, Dialog
<1>3. PICK d \in Dialogs : d.what = kind /\ dialogs' = <<d>>
  BY <1>1, <1>2
<1>4. dialogs' = Append(dialogs, d)
  BY <1>1, <1>3
<1>5. StackInv' /\ \A g : HasDialog(g)' => HasDialog(g) \/ d.what \in g
  BY <1>1, <1>4, Opened
<1>6. \A g : HasDialog(g)' => kind \in g
  BY <1>1, <1>3, <1>5, NoDialog
<1>7. kind # "profile" => ~Working
  <2>1. kind \notin {"detail", "trashlist", "load", "results", "grade"} /\ kind \notin {"save"}
    BY <1>1 DEF Asking
  <2> QED BY <1>1, <2>1 DEF Offered, OfferedOnList, OfferedOnSettings, OfferedOnScan, OfferedOnGrading,
                         OfferedOnDetail, SettingsOps, ScanOps, GradingOps
<1>8. ~Working => active \in {"none", "form"} /\ ~Deferred
  BY DEF Working, WorkInv
<1>9. kind = "fix" => OfferedOnDetail("fix")
  BY <1>1 DEF Offered, OfferedOnList, OfferedOnSettings, OfferedOnScan, OfferedOnGrading,
              SettingsOps, ScanOps, GradingOps
<1>10. kind = "fix" => exam = "detail" /\ display # 0
  BY <1>9 DEF OfferedOnDetail, InDetail
<1>11. kind \in {"scan", "fresh", "other"} => OfferedOnScan(kind) \/ OfferedOnGrading(kind)
  BY <1>1 DEF Offered, OfferedOnList, OfferedOnSettings, OfferedOnDetail, SettingsOps
<1>12. kind \in {"scan", "fresh", "other"} => page # "exam"
  BY <1>11 DEF OfferedOnScan, OfferedOnGrading, OnScan, OnGrading
<1> QED BY <1>1, <1>5, <1>6, <1>7, <1>8, <1>10, <1>12, NoDialog

\* Any other step leaves the stack, takes a dialog off it, or opens the trash or a question
\* about a form.
LEMMA DialogSteps ==
  ASSUME StackInv, WorkInv, [Next]_vars
  PROVE  \/ dialogs' = dialogs
         \/ /\ dialogs # <<>> /\ dialogs' = Front(dialogs)
            /\ AnswerForm \/ Last(dialogs).what # "newform"
         \/ \E kind \in Desktop \cup ScanOps \cup GradingOps : Ask(kind)
         \/ Holds /\ UNCHANGED <<page, exam, display, closing>>
              /\ \E d \in Dialogs : d.what = "newform" /\ dialogs' = Append(dialogs, d)
         \/ ~Working /\ UNCHANGED <<quiet, page, exam, display, closing>>
              /\ \E d \in Dialogs : d.what = "trash" /\ dialogs' = Append(dialogs, d)
<1>1. CASE User
  <2>1. CASE \E target \in {"scan", "grade", "exam", "settings"} : Navigate(target)
    BY <2>1 DEF Navigate
  <2>2. CASE DetailBack
    BY <2>2 DEF DetailBack
  <2>3. CASE Close \/ GradeFromList \/ CancelScan
    BY <2>3 DEF Close, win, GradeFromList, CancelScan
  <2>4. CASE Decline \/ TrashRequest \/ AnswerForm
    BY <2>4 DEF Decline, TrashRequest, OnTop, Asking, AnswerForm
  <2>5. CASE ConfirmFix \/ ConfirmProfile \/ ConfirmWrite \/ ConfirmDesktop
    BY <2>5 DEF ConfirmFix, ConfirmProfile, ConfirmWrite, ConfirmDesktop, Answered, OnTop
  <2>6. CASE RequestReload \/ RequestFromList \/ RequestSave \/ RequestGrading \/ RequestResults
    BY <2>6 DEF RequestReload, RequestFromList, RequestSave, RequestGrading, RequestResults, Requested, win
  <2>7. CASE (\E s \in Sources : PickSource(s)) \/ PickProfile \/ ResetInputs
    BY <2>7 DEF PickSource, PickProfile, ResetInputs, win
  <2> QED BY <1>1, <2>1, <2>2, <2>3, <2>4, <2>5, <2>6, <2>7 DEF User
<1>2. CASE Result
  <2>1. CASE Dropped \/ Failed \/ ShowList \/ ShowResults \/ ShowDetail \/ KeepTrash \/ ActionDone \/ ImportDone
    BY <2>1 DEF Dropped, Failed, ShowList, ShowResults, ShowDetail, KeepTrash, ActionDone, ImportDone, win
  <2>2. CASE SettingsSaved \/ ProfileImported \/ Connected \/ FreshConnected
    BY <2>2 DEF SettingsSaved, ProfileImported, Connected, FreshConnected, win
  <2>3. CASE FixDone \/ FormFailed
    BY <2>3 DEF FixDone, FormFailed, win
  <2>4. CASE FormArrives
    <3>1. CASE dialogs' = dialogs
      BY <3>1
    <3>2. CASE dialogs' = Append(dialogs, Dialog("newform", bridge.scans)) /\ Over
               /\ UNCHANGED <<active, heard, refresh, deferred>>
      <4>1. Dialog("newform", bridge.scans) \in Dialogs /\ Dialog("newform", bridge.scans).what = "newform"
        BY DEF Dialog, Dialogs, WorkInv, Bridges
      <4>2. Arrives("form", "done") /\ UNCHANGED <<page, exam, display, closing, later, lists>>
        BY <2>4 DEF FormArrives, opened, ends
      <4> QED BY <2>4, <3>2, <4>1, <4>2 DEF Holds
    <3> QED BY <2>4, <3>1, <3>2 DEF FormArrives
  <2> QED BY <1>2, <2>1, <2>2, <2>3, <2>4 DEF Result
<1>3. CASE TrashTimer
  <2>1. CASE trash /\ ~Working /\ ~closing
    <3>1. dialogs' = Append(dialogs, Dialog("trash", NoSource)) /\ UNCHANGED <<quiet, page, exam, display, closing>>
      BY <1>3, <2>1 DEF TrashTimer, work, quiet, opened, ends
    <3>2. Dialog("trash", NoSource) \in Dialogs /\ Dialog("trash", NoSource).what = "trash"
      BY DEF Dialog, Dialogs
    <3> QED BY <2>1, <3>1, <3>2
  <2> QED BY <1>3, <2>1 DEF TrashTimer
<1>4. CASE Work \/ Finish \/ ReloadTimer \/ DetectTimer \/ UNCHANGED vars
  BY <1>4 DEF Work, Finish, ReloadTimer, DetectTimer, vars, win
<1> QED BY <1>1, <1>2, <1>3, <1>4 DEF Next, Timer

\* Only the first dialog is one the user asked for, after every step.
LEMMA StackStep == ASSUME StackInv, WorkInv, [Next]_vars PROVE StackInv'
BY DialogSteps, SameDialogs, Closed, AskFits, Opened

\* What becomes active, or is put off, was put off before or is asked for.
LEMMA Moves ==
  ASSUME PageTypes, WorkInv, StackInv, QuestionInv, [Next]_vars
  PROVE  \/ active' \in {active, deferred.kind, "none"} /\ deferred'.kind \in {deferred.kind, "none"}
         \/ \E op : /\ Request(op) /\ UNCHANGED closing
                    /\ active' \in {active, op.kind} /\ deferred'.kind \in {deferred.kind, op.kind}
<1>1. CASE Requests /\ UNCHANGED closing
  <2>1. CASE UNCHANGED quiet
    BY <2>1 DEF quiet
  <2>2. ASSUME NEW op, Request(op)
        PROVE  active' \in {active, op.kind} /\ deferred'.kind \in {deferred.kind, op.kind}
    BY <2>2, Begins DEF Request, Refused, PutOff, Started
  <2> QED BY <1>1, <2>1, <2>2 DEF Requests
<1>2. CASE Settles \/ Holds
  BY <1>2 DEF Settles, Settle, Terminal, Holds
<1>3. CASE Shutdown \/ CancelScan \/ AnswerForm \/ Work \/ Dropped
  BY <1>3, IdleFits DEF Shutdown, CancelScan, AnswerForm, Work, Dropped, Terminal
<1>4. CASE Finish
  BY <1>4, IdleFits DEF Finish, Terminal
<1> QED BY <1>1, <1>2, <1>3, <1>4, Steps

\* What is in view changes where no dialog is open, or where the answer is not one of what
\* may end while the user is asked.
LEMMA ViewSteps ==
  ASSUME PageTypes, WorkInv, [Next]_vars
  PROVE  \/ UNCHANGED <<page, exam, display>>
         \/ dialogs = <<>> /\ dialogs' = dialogs
         \/ active \in {"results", "detail", "fresh", "fix"} /\ dialogs' = dialogs
<1>1. CASE User
  <2>1. CASE \E target \in {"scan", "grade", "exam", "settings"} : Navigate(target)
    BY <2>1 DEF Navigate, Free
  <2>2. CASE DetailBack \/ Close \/ GradeFromList
    BY <2>2 DEF DetailBack, Close, GradeFromList, Free, win
  <2>3. CASE Decline \/ TrashRequest \/ AnswerForm \/ CancelScan
    BY <2>3 DEF Decline, TrashRequest, AnswerForm, CancelScan, Elsewhere, win, opened
  <2>4. CASE ConfirmFix \/ ConfirmProfile \/ ConfirmWrite \/ ConfirmDesktop
    BY <2>4 DEF ConfirmFix, ConfirmProfile, ConfirmWrite, ConfirmDesktop, Answered, Elsewhere, opened
  <2>5. CASE RequestReload \/ RequestFromList \/ RequestSave \/ RequestGrading \/ RequestResults
    BY <2>5 DEF RequestReload, RequestFromList, RequestSave, RequestGrading, RequestResults, Requested, win, opened
  <2>6. CASE (\E s \in Sources : PickSource(s)) \/ PickProfile \/ ResetInputs
    BY <2>6 DEF PickSource, PickProfile, ResetInputs, win, opened
  <2>7. CASE \E kind \in Desktop \cup ScanOps \cup GradingOps : Ask(kind)
    BY <2>7 DEF Ask, Elsewhere, opened
  <2> QED BY <1>1, <2>1, <2>2, <2>3, <2>4, <2>5, <2>6, <2>7 DEF User
<1>2. CASE Result
  <2>1. CASE Dropped \/ Failed \/ ShowList \/ KeepTrash \/ ActionDone \/ ImportDone
    BY <2>1 DEF Dropped, Failed, ShowList, KeepTrash, ActionDone, ImportDone, win, opened
  <2>2. CASE SettingsSaved \/ ProfileImported \/ Connected \/ FormFailed \/ FormArrives
    BY <2>2 DEF SettingsSaved, ProfileImported, Connected, FormFailed, FormArrives, win, opened
  <2>3. CASE ShowResults \/ ShowDetail \/ FreshConnected \/ FixDone
    BY <2>3 DEF ShowResults, ShowDetail, FreshConnected, FixDone, Arrives, win
  <2> QED BY <1>2, <2>1, <2>2, <2>3 DEF Result
<1>3. CASE Work \/ Finish \/ Timer \/ UNCHANGED vars
  BY <1>3 DEF Work, Finish, Timer, ReloadTimer, DetectTimer, TrashTimer, vars, win, opened
<1> QED BY <1>1, <1>2, <1>3 DEF Next

\* A window that closes goes on closing.
LEMMA ClosingStays ==
  ASSUME PageTypes, WorkInv, StackInv, QuestionInv, [Next]_vars
  PROVE  closing => closing'
BY Steps DEF Shutdown, CancelScan, AnswerForm, Work, Dropped, Finish, ends

\* What the user is asked about stays as it was asked.
LEMMA QuestionStep ==
  ASSUME PageTypes, WorkInv, StackInv, QuestionInv, [Next]_vars
  PROVE  QuestionInv'
<1> DEFINE Few == {"none", "load", "form", "batch"}
<1>1. /\ "trash" \notin Asking /\ "newform" \notin Asking
      /\ {"fix", "scan", "fresh", "other"} \subseteq Asking \ {"profile"}
  BY DEF Asking
<1>2. \A g, h : g \subseteq h => (HasDialog(g) => HasDialog(h)) /\ (HasDialog(g)' => HasDialog(h)')
  BY DEF HasDialog
<1>3. CASE \E kind \in Desktop \cup ScanOps \cup GradingOps : Ask(kind)
  <2>1. PICK kind \in Desktop \cup ScanOps \cup GradingOps : Ask(kind)
    BY <1>3
  <2>2. /\ kind \in Asking /\ \A g : HasDialog(g)' => kind \in g
        /\ UNCHANGED <<page, exam, display, quiet, closing>>
        /\ kind # "profile" => active \in {"none", "form"} /\ ~Deferred
        /\ kind = "fix" => exam = "detail" /\ display # 0
        /\ kind \in {"scan", "fresh", "other"} => page # "exam"
    BY <2>1, AskFits
  <2> QED BY <1>1, <2>2 DEF QuestionInv, quiet, Deferred
<1>4. ASSUME ~\E kind \in Desktop \cup ScanOps \cup GradingOps : Ask(kind), NEW g \in SUBSET Asking
      PROVE  HasDialog(g)' => HasDialog(g)
  <2>1. "newform" \notin g /\ "trash" \notin g
    BY <1>1
  <2> QED BY <1>4, <2>1, DialogSteps, SameDialogs, Closed, Opened
<1>5. CASE ~\E kind \in Desktop \cup ScanOps \cup GradingOps : Ask(kind)
  <2>1. HasDialog(Asking \ {"profile"})' => active' \in Few /\ deferred'.kind \in Few
    <3>1. ASSUME HasDialog(Asking \ {"profile"})'
          PROVE  HasDialog(Asking \ {"profile"}) /\ active \in Few /\ deferred.kind \in Few
      BY <1>4, <1>5, <3>1 DEF QuestionInv
    <3>2. ASSUME HasDialog(Asking \ {"profile"})', NEW op, Request(op)
          PROVE  op.kind \in Few
      BY <3>2 DEF Request
    <3> QED BY <3>1, <3>2, Moves
  <2>2. HasDialog(Asking \ {"profile"})' => UNCHANGED <<page, exam, display>>
    <3>1. ASSUME HasDialog(Asking \ {"profile"})'
          PROVE  HasDialog(Asking \ {"profile"}) /\ active \in Few
      BY <1>4, <1>5, <3>1 DEF QuestionInv
    <3>2. HasDialog(Asking \ {"profile"}) => dialogs # <<>>
      BY NoDialog
    <3> QED BY <3>1, <3>2, ViewSteps
  <2>3. HasDialog({"fix"})' => exam' = "detail" /\ display' # 0
    BY <1>1, <1>2, <1>4, <1>5, <2>2 DEF QuestionInv
  <2>4. HasDialog({"scan", "fresh", "other"})' => page' # "exam"
    BY <1>1, <1>2, <1>4, <1>5, <2>2 DEF QuestionInv
  <2>5. active' = "change" \/ deferred'.kind = "change" => ~HasDialog({"trash"})' \/ closing'
    <3> SUFFICES ASSUME active' = "change" \/ deferred'.kind = "change", HasDialog({"trash"})', ~closing'
                 PROVE  FALSE
      OBVIOUS
    <3>1. active = "change" \/ deferred.kind = "change"
      BY Moves DEF Request
    <3>2. ~closing
      BY ClosingStays
    <3>3. ~HasDialog({"trash"})
      BY <3>1, <3>2 DEF QuestionInv
    <3>4. ~Working => active # "change" /\ deferred.kind # "change"
      BY DEF Working, WorkInv, Deferred
    <3>5. Holds => active = "form" /\ ~Deferred
      <4>1. "form" \in Operations
        BY DEF Operations, ListOps
      <4> QED BY <4>1, Arriving DEF Holds
    <3>6. ~Holds /\ Working
      BY <3>1, <3>4, <3>5 DEF Deferred
    <3> QED BY <1>5, <3>3, <3>6, DialogSteps, SameDialogs, Closed
  <2> QED BY <2>1, <2>3, <2>4, <2>5 DEF QuestionInv
<1> QED BY <1>3, <1>5

-----------------------------------------------------------------------------
(***************************************************************************)
(* The lock of the detail page                                             *)
(***************************************************************************)
\* A fix comes from its question only, and goes with its thread or with the window.
LEMMA FixWork ==
  ASSUME PageTypes, WorkInv, StackInv, QuestionInv, [Next]_vars, ~ConfirmFix, ~Finish
  PROVE  /\ deferred'.kind = "fix" => deferred.kind = "fix"
         /\ UnderWay("fix")' => UnderWay("fix")
         /\ InFlight("fix") => InFlight("fix")' \/ (closing' /\ ~closing)
<1>1. CASE Requests
  <2>1. CASE UNCHANGED quiet
    BY <2>1 DEF quiet, UnderWay, InFlight
  <2>2. ASSUME NEW op, Request(op), Refused(op) \/ PutOff(op)
        PROVE  /\ deferred'.kind = "fix" => deferred.kind = "fix"
               /\ UNCHANGED bridge
               /\ InFlight("fix") => InFlight("fix")'
    BY <2>2 DEF Request, Refused, PutOff, Taken, Working, Deferred, InFlight
  <2>3. ASSUME NEW op, Request(op), Started(op)
        PROVE  /\ UNCHANGED deferred /\ bridge.kind = "none" /\ ~Deferred /\ bridge'.kind # "fix"
    BY <2>3, RunFits DEF Request, Started, Taken, Working
  <2> QED BY <1>1, <2>1, <2>2, <2>3, Begins DEF Requests, Request, UnderWay, InFlight, Deferred
<1>2. CASE Settles \/ Holds
  <2>1. UNCHANGED deferred /\ Over
    BY <1>2 DEF Settles, Settle, Holds
  <2> QED BY <2>1, OverFits DEF UnderWay, InFlight, WorkInv
<1>3. CASE Shutdown
  BY <1>3, IdleFits, CancelledFits DEF Shutdown, UnderWay, InFlight, WorkInv, Deferred
<1>4. CASE CancelScan
  BY <1>4, CancelledFits DEF CancelScan, UnderWay, InFlight, WorkInv
<1>5. CASE AnswerForm
  BY <1>5 DEF AnswerForm, UnderWay, InFlight
<1>6. CASE Work
  <2>1. UNCHANGED deferred
    BY <1>6 DEF Work
  <2> QED BY <1>6, <2>1, ThreadEnds DEF UnderWay, InFlight
<1>7. CASE Dropped
  <2>1. UNCHANGED deferred /\ (Over \/ bridge' = [bridge EXCEPT !.stage = "over"])
    BY <1>7 DEF Dropped
  <2>2. bridge'.kind = bridge.kind /\ bridge'.stage = "over"
    BY <2>1, OverFits DEF WorkInv, Bridges
  <2> QED BY <2>1, <2>2 DEF UnderWay, InFlight
<1> QED BY <1>1, <1>2, <1>3, <1>4, <1>5, <1>6, <1>7, Steps

\* A locked page is not left, and its lock is touched by the fix and the end of a thread only.
LEMMA LockedPage ==
  ASSUME WorkInv, FixInv, LeaseInv, [Next]_vars, ~ConfirmFix, ~FixDone, ~Finish
  PROVE  UNCHANGED fix /\ (fixing => UNCHANGED <<exam, display, closing>>)
<1>1. CASE User
  <2>1. CASE \E target \in {"scan", "grade", "exam", "settings"} : Navigate(target)
    BY <2>1 DEF Navigate, LeaveDetail, opened, Kept, ends
  <2>2. CASE DetailBack
    BY <2>2 DEF DetailBack
  <2>3. CASE Close
    BY <2>3 DEF Close, FixInv, win, later, opened, ends, Kept
  <2>4. CASE Decline \/ TrashRequest \/ AnswerForm \/ CancelScan \/ GradeFromList
    BY <2>4 DEF Decline, TrashRequest, AnswerForm, CancelScan, GradeFromList, Elsewhere, win, opened, ends
  <2>5. CASE ConfirmProfile \/ ConfirmWrite \/ ConfirmDesktop
    BY <2>5 DEF ConfirmProfile, ConfirmWrite, ConfirmDesktop, Answered, Elsewhere, opened, ends
  <2>6. CASE RequestReload \/ RequestFromList \/ RequestSave \/ RequestGrading \/ RequestResults
    BY <2>6 DEF RequestReload, RequestFromList, RequestSave, RequestGrading, RequestResults, Requested,
                win, opened, ends
  <2>7. CASE (\E s \in Sources : PickSource(s)) \/ PickProfile \/ ResetInputs
    BY <2>7 DEF PickSource, PickProfile, ResetInputs, win, opened, ends
  <2>8. CASE \E kind \in Desktop \cup ScanOps \cup GradingOps : Ask(kind)
    BY <2>8 DEF Ask, Elsewhere, opened, ends
  <2> QED BY <1>1, <2>1, <2>2, <2>3, <2>4, <2>5, <2>6, <2>7, <2>8 DEF User
<1>2. CASE Result
  <2>1. CASE Dropped \/ Failed \/ ShowList \/ KeepTrash \/ ActionDone \/ ImportDone
    BY <2>1 DEF Dropped, Failed, ShowList, KeepTrash, ActionDone, ImportDone, win, opened, ends
  <2>2. CASE SettingsSaved \/ ProfileImported \/ Connected \/ FormFailed \/ FormArrives
    BY <2>2 DEF SettingsSaved, ProfileImported, Connected, FormFailed, FormArrives, win, opened, ends
  <2>3. CASE ShowResults
    BY <2>3 DEF ShowResults, opened, Kept, ends
  <2>4. CASE ShowDetail
    <3>1. exam = "list"
      BY <2>4 DEF ShowDetail, Arrives, LeaseInv
    <3>2. ~fixing
      BY <3>1 DEF FixInv
    <3> QED BY <2>4, <3>2 DEF ShowDetail
  <2>5. CASE FreshConnected
    BY <2>5 DEF FreshConnected, win, opened, Kept, ends
  <2> QED BY <1>2, <2>1, <2>2, <2>3, <2>4, <2>5 DEF Result
<1>3. CASE Work \/ Timer \/ UNCHANGED vars
  BY <1>3 DEF Work, Timer, ReloadTimer, DetectTimer, TrashTimer, vars, win, opened, ends
<1> QED BY <1>1, <1>2, <1>3 DEF Next

\* The fix that was asked for locks the page, unless it is refused.
LEMMA FixConfirmed ==
  ASSUME PageTypes, WorkInv, StackInv, QuestionInv, FixInv, Remembered, ConfirmFix
  PROVE  FixInv'
<1>1. /\ Answered("fix") /\ Begin(Op("fix", ops)) /\ UNCHANGED <<exam, display, closing>> /\ "fix" \in Asking
  BY DEF ConfirmFix, Answered, Elsewhere, opened, ends, Asking
<1>2. exam = "detail" /\ display # 0
  BY <1>1, Answering DEF Answered, QuestionInv
<1>3. PICK op : op.kind = "fix" /\ Fresh(op) /\ Begin(op)
  <2>1. "fix" \in Operations /\ ops \in Nat
    BY DEF Operations, ListOps, PageTypes
  <2> QED BY <1>1, <2>1, OpFits
<1>4. CASE Accepted
  <2>1. fixing' /\ fixFrom' = display /\ ~Refused(op)
    BY <1>4 DEF ConfirmFix, Accepted, Refused
  <2>2. InFlight("fix")'
    BY <1>3, <2>1, Begins, RunFits DEF PutOff, Started, InFlight
  <2> QED BY <1>1, <1>2, <2>1, <2>2 DEF FixInv
<1>5. CASE ~Accepted
  <2>1. UNCHANGED <<fix, bridge, deferred>>
    BY <1>3, <1>5, Begins DEF ConfirmFix, Accepted, Refused, PutOff, Started, Taken
  <2> QED BY <1>1, <2>1 DEF FixInv, fix, InFlight, UnderWay, Remembered
<1> QED BY <1>4, <1>5

\* The corrected exam is on the page, or the page is left, and the lock with it.
LEMMA FixShown ==
  ASSUME WorkInv, FixInv, FixDone
  PROVE  FixInv'
<1>1. Arrives("fix", "done") /\ Settle /\ "fix" \in Operations
  BY DEF FixDone, Operations, ListOps
<1>2. bridge'.kind = "fix" /\ bridge'.stage = "over" /\ ~Deferred /\ UNCHANGED deferred
  BY <1>1, Arriving, OverFits DEF Settle, WorkInv
<1>3. ~UnderWay("fix")' /\ deferred'.kind # "fix" /\ InFlight("fix")'
  BY <1>2 DEF UnderWay, InFlight, Deferred
<1>4. CASE fixFrom = 0
  BY <1>3, <1>4 DEF FixDone, FixInv, fix, opened
<1>5. CASE fixFrom # 0
  <2>1. fixFrom' = 0 /\ fixing /\ exam = "detail"
    BY <1>5 DEF FixDone, FixInv
  <2>2. CASE bridge.handle = 0
    BY <1>3, <1>5, <2>1, <2>2 DEF FixDone, FixInv
  <2>3. CASE bridge.handle # 0
    BY <1>3, <1>5, <2>1, <2>3 DEF FixDone, FixInv
  <2> QED BY <2>2, <2>3
<1> QED BY <1>4, <1>5

\* The lock ends with the thread, and a fix that begins only then is a slip.
LEMMA FixFinished ==
  ASSUME WorkInv, FixInv, Remembered, Finish
  PROVE  FixInv'
<1>1. ~fixing' /\ fixFrom' = 0 /\ deferred' = Idle
  BY DEF Finish, FixInv
<1>2. UnderWay("fix")' => deferred.kind = "fix" /\ ~closing
  <2>1. CASE Deferred /\ ~closing
    BY <2>1, RunFits DEF Finish, UnderWay, WorkInv
  <2>2. CASE ~(Deferred /\ ~closing)
    BY <2>2, IdleFits DEF Finish, UnderWay
  <2> QED BY <2>1, <2>2
<1>3. deferred.kind = "fix" => Slipped({"fix"})'
  <2>1. deferred.kind = "fix" /\ ~fixing => Slipped({"fix"})'
    BY DEF FixInv, Remembered
  <2>2. deferred.kind = "fix" /\ fixing => Slipped({"fix"})'
    BY DEF Finish, Slipped
  <2> QED BY <2>1, <2>2
<1> QED BY <1>1, <1>2, <1>3, IdleFits DEF FixInv

\* The page stays locked for the fix under way, and for nothing else.
LEMMA FixStep ==
  ASSUME PageTypes, WorkInv, StackInv, QuestionInv, FixInv, LeaseInv, [Next]_vars
  PROVE  FixInv'
<1>1. Remembered /\ (closing => closing')
  BY SlipsStay, ClosingStays
<1>2. CASE ~ConfirmFix /\ ~FixDone /\ ~Finish
  <2>1. /\ deferred'.kind = "fix" => deferred.kind = "fix"
        /\ UnderWay("fix")' => UnderWay("fix")
        /\ InFlight("fix") => InFlight("fix")' \/ (closing' /\ ~closing)
    BY <1>2, FixWork
  <2>2. UNCHANGED fix /\ (fixing => UNCHANGED <<exam, display, closing>>)
    BY <1>2, LockedPage
  <2> QED BY <1>1, <2>1, <2>2 DEF FixInv, fix, Remembered
<1> QED BY <1>1, <1>2, FixConfirmed, FixShown, FixFinished

-----------------------------------------------------------------------------
(***************************************************************************)
(* The details that are open                                               *)
(***************************************************************************)
\* The detail an answer brings is on its way until it is shown.
LEMMA HandleStays ==
  ASSUME PageTypes, WorkInv, StackInv, QuestionInv, HeardInv, [Next]_vars, ~Work, ~ShowDetail, ~FixDone
  PROVE  bridge'.handle = bridge.handle \/ closing' \/ Slipped({"confirm"})'
<1>0. Remembered /\ (closing => closing')
  BY SlipsStay, ClosingStays
<1>1. CASE Requests
  <2>1. ASSUME NEW op, Started(op), Fresh(op) PROVE bridge'.handle = bridge.handle
    BY <2>1, RunFits DEF Started, WorkInv
  <2> QED BY <1>1, <2>1, Begins DEF Requests, Request, quiet, Refused, PutOff
<1>2. CASE Settles
  <2>1. PICK kind \in Operations, end \in Answers :
          Arrives(kind, end) /\ Settle /\ ~(kind \in {"detail", "fix"} /\ end = "done")
    BY <1>2 DEF Settles
  <2> QED BY <2>1, Arriving, OverFits DEF Settle, WorkInv
<1>3. CASE Holds
  <2>1. "form" \in Operations
    BY DEF Operations, ListOps
  <2> QED BY <1>3, <2>1, Arriving, OverFits DEF Holds, WorkInv
<1>4. CASE Shutdown
  BY <1>4 DEF Shutdown
<1>5. CASE CancelScan
  BY <1>5, CancelledFits DEF CancelScan, WorkInv
<1>6. CASE AnswerForm
  BY <1>6 DEF AnswerForm
<1>7. CASE Dropped
  <2>1. CASE Muted
    BY <1>7, <2>1 DEF Dropped, WorkInv, Bridges
  <2>2. CASE ~Muted
    <3>1. /\ bridge.stage = "back" /\ ~bridge.told
          /\ closing \/ active # bridge.kind \/ (bridge.kind \in Desktop /\ heard # bridge.kind)
      BY <1>7, <2>2 DEF Dropped, Muted
    <3>2. closing \/ Slipped({"confirm"})
      BY <3>1 DEF HeardInv
    <3> QED BY <1>0, <3>2 DEF Remembered
  <2> QED BY <2>1, <2>2
<1>8. CASE Finish
  <2>1. bridge.handle = 0 \/ closing
    BY <1>8 DEF Finish, WorkInv
  <2>2. bridge'.handle = 0
    BY <1>8, RunFits, IdleFits DEF Finish, WorkInv
  <2> QED BY <1>0, <2>1, <2>2
<1> QED BY <1>1, <1>2, <1>3, <1>4, <1>5, <1>6, <1>7, <1>8, Steps

\* Otherwise details are let go only, and the page with them.
LEMMA LeaseSteps ==
  ASSUME [Next]_vars, ~Work, ~ShowDetail, ~FixDone
  PROVE  \/ UNCHANGED <<exam, opened>>
         \/ LetGo /\ exam' = "list"
         \/ LetGo /\ UNCHANGED exam /\ exam = "detail" /\ closing'
<1>1. CASE User
  <2>1. CASE \E target \in {"scan", "grade", "exam", "settings"} : Navigate(target)
    BY <2>1 DEF Navigate, LeaveDetail, Kept
  <2>2. CASE DetailBack
    BY <2>2 DEF DetailBack, LeaveDetail, Kept
  <2>3. CASE Close
    BY <2>3 DEF Close, Kept, win, Shutdown
  <2>4. CASE Decline \/ TrashRequest \/ AnswerForm \/ CancelScan \/ GradeFromList
    BY <2>4 DEF Decline, TrashRequest, AnswerForm, CancelScan, GradeFromList, Elsewhere, win
  <2>5. CASE ConfirmFix \/ ConfirmProfile \/ ConfirmWrite \/ ConfirmDesktop
    BY <2>5 DEF ConfirmFix, ConfirmProfile, ConfirmWrite, ConfirmDesktop, Answered, Elsewhere
  <2>6. CASE RequestReload \/ RequestFromList \/ RequestSave \/ RequestGrading \/ RequestResults
    BY <2>6 DEF RequestReload, RequestFromList, RequestSave, RequestGrading, RequestResults, Requested, win
  <2>7. CASE (\E s \in Sources : PickSource(s)) \/ PickProfile \/ ResetInputs
    BY <2>7 DEF PickSource, PickProfile, ResetInputs, win
  <2>8. CASE \E kind \in Desktop \cup ScanOps \cup GradingOps : Ask(kind)
    BY <2>8 DEF Ask, Elsewhere
  <2> QED BY <1>1, <2>1, <2>2, <2>3, <2>4, <2>5, <2>6, <2>7, <2>8 DEF User
<1>2. CASE Result
  <2>1. CASE Dropped \/ Failed \/ ShowList \/ KeepTrash \/ ActionDone \/ ImportDone
    BY <2>1 DEF Dropped, Failed, ShowList, KeepTrash, ActionDone, ImportDone, win
  <2>2. CASE SettingsSaved \/ ProfileImported \/ Connected \/ FormFailed \/ FormArrives
    BY <2>2 DEF SettingsSaved, ProfileImported, Connected, FormFailed, FormArrives, win
  <2>3. CASE ShowResults \/ FreshConnected
    BY <2>3 DEF ShowResults, FreshConnected, Kept, win
  <2> QED BY <1>2, <2>1, <2>2, <2>3 DEF Result
<1>3. CASE Finish \/ Timer \/ UNCHANGED vars
  BY <1>3 DEF Finish, Timer, ReloadTimer, DetectTimer, TrashTimer, vars, win
<1> QED BY <1>1, <1>2, <1>3 DEF Next

\* A detail is asked for on the list, which stays in view until it is shown.
LEMMA ListAwaits ==
  ASSUME PageTypes, WorkInv, StackInv, QuestionInv, LeaseInv, [Next]_vars
  PROVE  active' = "detail" \/ deferred'.kind = "detail" => exam' = "list"
<1> SUFFICES ASSUME active' = "detail" \/ deferred'.kind = "detail" PROVE exam' = "list"
  OBVIOUS
<1>1. ASSUME NEW op, Request(op), op.kind = "detail" PROVE exam' = "list"
  BY <1>1 DEF Request
<1>2. CASE active = "detail" \/ deferred.kind = "detail"
  <2>1. exam = "list"
    BY <1>2 DEF LeaseInv
  <2>2. CASE ShowDetail
    <3>1. ~Deferred /\ "detail" \in Operations
      BY <2>2 DEF ShowDetail, Arrives, WorkInv, Operations, ListOps
    <3> QED BY <2>2, <3>1 DEF ShowDetail, Settle, Terminal, Deferred
  <2>3. CASE FixDone
    BY <2>1, <2>3 DEF FixDone
  <2>4. CASE Work
    BY <2>1, <2>4 DEF Work, win
  <2> QED BY <2>1, <2>2, <2>3, <2>4, LeaseSteps DEF opened
<1> QED BY <1>1, <1>2, Moves

\* The details that are open stay those on the page and on their way there.
LEMMA LeaseStep ==
  ASSUME PageTypes, WorkInv, StackInv, QuestionInv, HeardInv, FixInv, LeaseInv, [Next]_vars
  PROVE  LeaseInv'
<1> DEFINE Excused == closing \/ Slipped({"fix", "confirm", "close"})
<1>1. /\ Remembered /\ (closing => closing')
      /\ active' = "detail" \/ deferred'.kind = "detail" => exam' = "list"
  BY SlipsStay, ClosingStays, ListAwaits
<1>2. Excused => Excused'
  BY <1>1 DEF Remembered
<1>3. Slipped({"confirm"})' => Slipped({"fix", "confirm", "close"})'
  BY DEF Slipped
<1>4. CASE ~Work /\ ~ShowDetail /\ ~FixDone
  <2>1. bridge'.handle = bridge.handle \/ Excused'
    BY <1>3, <1>4, HandleStays
  <2>2. CASE UNCHANGED <<exam, opened>>
    BY <1>1, <1>2, <2>1, <2>2 DEF LeaseInv, opened
  <2>3. CASE LetGo /\ exam' = "list"
    BY <1>1, <1>2, <2>1, <2>3 DEF LeaseInv, LetGo
  <2>4. CASE LetGo /\ UNCHANGED exam /\ exam = "detail" /\ closing'
    BY <1>1, <2>4 DEF LeaseInv
  <2> QED BY <1>4, <2>2, <2>3, <2>4, LeaseSteps
<1>5. CASE Work
  <2>1. UNCHANGED <<exam, display, slips, closing>>
    BY <1>5 DEF Work, win, ends
  <2> QED BY <1>1, <1>2, <1>5, <2>1, ThreadEnds DEF LeaseInv
<1>6. CASE ShowDetail
  <2>1. /\ "detail" \in Operations /\ exam' = "detail" /\ display' = bridge.handle /\ leases' = leases
        /\ Arrives("detail", "done") /\ Settle
    BY <1>6 DEF ShowDetail, Operations, ListOps
  <2>2. bridge'.handle = 0 /\ exam = "list" /\ display = 0
    BY <2>1, Arriving, OverFits DEF Settle, WorkInv, LeaseInv
  <2> QED BY <1>1, <1>2, <2>1, <2>2 DEF LeaseInv
<1>7. CASE FixDone
  <2>1. /\ "fix" \in Operations /\ Arrives("fix", "done") /\ Settle
    BY <1>7 DEF FixDone, Operations, ListOps
  <2>2. bridge'.handle = 0 /\ UnderWay("fix") /\ ~closing
    BY <2>1, Arriving, OverFits DEF Settle, WorkInv, UnderWay
  <2>3. CASE fixFrom = 0
    <3>1. UNCHANGED <<opened, exam, slips>>
      BY <1>7, <2>3 DEF FixDone
    <3>2. Slipped({"fix"})
      BY <2>2, <2>3 DEF FixInv
    <3>3. Excused'
      BY <3>1, <3>2 DEF Slipped
    <3> QED BY <1>1, <3>1, <3>3 DEF LeaseInv, opened
  <2>4. CASE fixFrom # 0
    <3>1. fixFrom = display /\ exam = "detail"
      BY <2>4 DEF FixInv
    <3>2. CASE bridge.handle = 0
      <4>1. (LetGo /\ exam' = "list") \/ UNCHANGED <<leases, display, exam>>
        BY <1>7, <2>4, <3>2 DEF FixDone, Kept, opened
      <4> QED BY <1>1, <1>2, <2>2, <3>2, <4>1 DEF LeaseInv, LetGo
    <3>3. CASE bridge.handle # 0
      <4>1. /\ display' = bridge.handle /\ UNCHANGED exam
            /\ leases' = leases \ {fixFrom} \/ slips' = slips \cup {"close"}
        BY <1>7, <2>4, <3>3 DEF FixDone
      <4>2. CASE leases' = leases \ {fixFrom}
        BY <1>1, <1>2, <2>2, <3>1, <3>3, <4>1, <4>2 DEF LeaseInv
      <4>3. CASE slips' = slips \cup {"close"}
        <5>1. Slipped({"fix", "confirm", "close"})'
          BY <4>3 DEF Slipped
        <5> QED BY <1>1, <3>1, <4>1, <5>1 DEF LeaseInv
      <4> QED BY <4>1, <4>2, <4>3
    <3> QED BY <3>2, <3>3
  <2> QED BY <2>3, <2>4
<1> QED BY <1>4, <1>5, <1>6, <1>7

-----------------------------------------------------------------------------
(***************************************************************************)
(* What was put off                                                        *)
(***************************************************************************)
\* A bridge stays until its thread is gone.
LEMMA KindStays ==
  ASSUME PageTypes, WorkInv, StackInv, QuestionInv, [Next]_vars, ~Finish, bridge.kind # "none"
  PROVE  bridge'.kind = bridge.kind
<1>1. CASE Requests
  BY <1>1, Begins DEF Requests, Request, quiet, Refused, PutOff, Started
<1>2. CASE Settles \/ Holds
  BY <1>2, OverFits DEF Settles, Settle, Holds, WorkInv
<1>3. CASE Shutdown \/ CancelScan
  BY <1>3, CancelledFits DEF Shutdown, CancelScan, WorkInv
<1>4. CASE AnswerForm
  BY <1>4 DEF AnswerForm
<1>5. CASE Work
  BY <1>5, ThreadEnds
<1>6. CASE Dropped
  <2>1. Over \/ bridge' = [bridge EXCEPT !.stage = "over"]
    BY <1>6 DEF Dropped
  <2> QED BY <2>1, OverFits DEF WorkInv, Bridges
<1> QED BY <1>1, <1>2, <1>3, <1>4, <1>5, <1>6, Steps

\* Something is put off behind an operation only.
LEMMA PutOffBehind ==
  ASSUME WorkInv, [Next]_vars, ~Finish
  PROVE  /\ reload' => reload \/ bridge.kind # "none"
         /\ stale' => stale \/ bridge.kind # "none"
         /\ trash' => trash \/ bridge.kind # "none"
<1>1. Working => bridge.kind # "none"
  BY DEF Working, WorkInv
<1>2. \A kind, end : Arrives(kind, end) => bridge.kind # "none"
  BY DEF Arrives, WorkInv
<1>3. Refresh \/ ListShown \/ UNCHANGED <<work, reload>> => (reload' => reload \/ bridge.kind # "none")
  BY <1>1 DEF ListShown, Refresh
<1>4. \A s : Detect(s) => (stale' => stale \/ bridge.kind # "none")
  BY <1>1 DEF Detect
<1>5. CASE User
  <2>1. CASE \E target \in {"scan", "grade", "exam", "settings"} : Navigate(target)
    BY <1>3, <2>1 DEF Navigate, LeaveDetail, scans
  <2>2. CASE DetailBack
    BY <1>3, <2>2 DEF DetailBack, LeaveDetail, scans
  <2>3. CASE Close \/ Decline \/ TrashRequest \/ AnswerForm \/ CancelScan \/ GradeFromList
    BY <2>3 DEF Close, Decline, TrashRequest, AnswerForm, CancelScan, GradeFromList, Elsewhere, later, scans
  <2>4. CASE ConfirmFix \/ ConfirmProfile \/ ConfirmWrite \/ ConfirmDesktop
    BY <2>4 DEF ConfirmFix, ConfirmProfile, ConfirmWrite, ConfirmDesktop, Answered, Elsewhere, later, scans
  <2>5. CASE RequestReload \/ RequestFromList \/ RequestSave \/ RequestGrading \/ RequestResults
    BY <1>1, <2>5 DEF RequestReload, RequestFromList, RequestSave, RequestGrading, RequestResults, Requested, scans
  <2>6. CASE (\E s \in Sources : PickSource(s)) \/ PickProfile \/ ResetInputs
    BY <1>4, <2>6 DEF PickSource, PickProfile, ResetInputs, later, scans
  <2>7. CASE \E kind \in Desktop \cup ScanOps \cup GradingOps : Ask(kind)
    BY <2>7 DEF Ask, Elsewhere, later, scans
  <2> QED BY <1>5, <2>1, <2>2, <2>3, <2>4, <2>5, <2>6, <2>7 DEF User
<1>6. CASE Result
  <2>1. CASE bridge.kind # "none"
    BY <2>1
  <2>2. CASE bridge.kind = "none"
    <3>1. ~Result \/ Dropped
      BY <1>2, <2>2, ResultSteps DEF Settles, Holds
    <3> QED BY <1>6, <3>1 DEF Dropped, later, scans
  <2> QED BY <2>1, <2>2
<1>7. CASE Work \/ UNCHANGED vars
  BY <1>7 DEF Work, vars, later, scans
<1>8. CASE Timer
  <2>1. CASE ReloadTimer
    BY <1>3, <2>1 DEF ReloadTimer, scans
  <2>2. CASE TrashTimer
    BY <2>2 DEF TrashTimer, scans
  <2>3. CASE DetectTimer
    BY <1>4, <2>3 DEF DetectTimer
  <2> QED BY <1>8, <2>1, <2>2, <2>3 DEF Timer
<1> QED BY <1>5, <1>6, <1>7, <1>8 DEF Next

\* A timer stays until it fires.
LEMMA TimersStay ==
  ASSUME [Next]_vars
  PROVE  \/ timers \subseteq timers'
         \/ ReloadTimer /\ timers' = timers \ {"reload"}
         \/ TrashTimer /\ timers' = timers \ {"trash"}
         \/ DetectTimer /\ \E s \in Sources : timers' = timers \ {s}
<1>1. CASE User
  <2>1. CASE (\E target \in {"scan", "grade", "exam", "settings"} : Navigate(target)) \/ DetailBack
    BY <2>1 DEF Navigate, DetailBack
  <2>3. CASE Close \/ Decline \/ TrashRequest \/ AnswerForm \/ CancelScan \/ GradeFromList
    BY <2>3 DEF Close, Decline, TrashRequest, AnswerForm, CancelScan, GradeFromList, Elsewhere, later
  <2>4. CASE ConfirmFix \/ ConfirmProfile \/ ConfirmWrite \/ ConfirmDesktop
    BY <2>4 DEF ConfirmFix, ConfirmProfile, ConfirmWrite, ConfirmDesktop, Answered, Elsewhere, later
  <2>5. CASE RequestReload \/ RequestFromList \/ RequestSave \/ RequestGrading \/ RequestResults
    BY <2>5 DEF RequestReload, RequestFromList, RequestSave, RequestGrading, RequestResults, Requested
  <2>6. CASE (\E s \in Sources : PickSource(s)) \/ PickProfile \/ ResetInputs
    BY <2>6 DEF PickSource, PickProfile, ResetInputs, later
  <2>7. CASE \E kind \in Desktop \cup ScanOps \cup GradingOps : Ask(kind)
    BY <2>7 DEF Ask, Elsewhere, later
  <2> QED BY <1>1, <2>1, <2>3, <2>4, <2>5, <2>6, <2>7 DEF User
<1>2. CASE Result
  <2>1. CASE Dropped \/ Failed \/ ShowList \/ ShowResults \/ ShowDetail \/ KeepTrash \/ ActionDone \/ ImportDone
    BY <2>1 DEF Dropped, Failed, ShowList, ShowResults, ShowDetail, KeepTrash, ActionDone, ImportDone, later
  <2>2. CASE SettingsSaved \/ ProfileImported \/ Connected \/ FreshConnected
    BY <2>2 DEF SettingsSaved, ProfileImported, Connected, FreshConnected, later
  <2>3. CASE FixDone \/ FormArrives \/ FormFailed
    BY <2>3 DEF FixDone, FormArrives, FormFailed, later
  <2> QED BY <1>2, <2>1, <2>2, <2>3 DEF Result
<1>3. CASE Work \/ Finish \/ Timer \/ UNCHANGED vars
  BY <1>3 DEF Work, Finish, Timer, ReloadTimer, TrashTimer, DetectTimer, vars, later
<1> QED BY <1>1, <1>2, <1>3 DEF Next

\* The import of a profile that is awaited goes on, or ends with the message on the page.
Awaited(kind) == deferred.kind = kind \/ UnderWay(kind)

\* An import that is awaited is awaited still, or the page no longer says so.
LEMMA ProfileAwaited ==
  ASSUME PageTypes, WorkInv, StackInv, QuestionInv, HeardInv, [Next]_vars, Awaited("profile"), importing'
  PROVE  Awaited("profile")' \/ closing' \/ Slipped({"confirm"})'
<1>0. Remembered /\ (closing => closing')
  BY SlipsStay, ClosingStays
<1>1. CASE Requests
  <2>1. CASE UNCHANGED quiet
    BY <2>1 DEF quiet, Awaited, UnderWay
  <2>2. ASSUME NEW op, Request(op) PROVE Awaited("profile")'
    BY <2>2, Begins DEF Request, Refused, PutOff, Started, Taken, Working, Deferred, Awaited, UnderWay, WorkInv
  <2> QED BY <1>1, <2>1, <2>2 DEF Requests
<1>2. CASE Settles
  <2>1. PICK kind \in Operations, end \in Answers : Arrives(kind, end) /\ Settle /\ (kind = "profile" => ~importing')
    BY <1>2 DEF Settles
  <2> QED BY <2>1, Arriving DEF Awaited, UnderWay, Deferred
<1>3. CASE Holds
  <2>1. "form" \in Operations
    BY DEF Operations, ListOps
  <2> QED BY <1>3, <2>1, Arriving DEF Holds, Awaited, UnderWay, Deferred
<1>4. CASE Shutdown
  BY <1>4 DEF Shutdown
<1>5. CASE CancelScan
  BY <1>5, CancelledFits DEF CancelScan, Awaited, UnderWay, WorkInv
<1>6. CASE AnswerForm
  BY <1>6 DEF AnswerForm, Awaited, UnderWay
<1>7. CASE Work
  <2>1. UNCHANGED deferred
    BY <1>7 DEF Work
  <2> QED BY <1>7, <2>1, ThreadEnds DEF Awaited, UnderWay
<1>8. CASE Dropped
  <2>1. UNCHANGED deferred /\ bridge.stage = "back"
    BY <1>8 DEF Dropped
  <2>2. CASE deferred.kind = "profile"
    BY <2>1, <2>2 DEF Awaited
  <2>3. CASE bridge.kind = "profile" /\ Muted
    BY <1>0, <2>1, <2>3 DEF Muted, WorkInv
  <2>4. CASE bridge.kind = "profile" /\ ~Muted
    <3>1. /\ ~bridge.told /\ "profile" \in Desktop
          /\ closing \/ active # bridge.kind \/ (bridge.kind \in Desktop /\ heard # bridge.kind)
      BY <1>8, <2>4 DEF Dropped, Muted, Desktop, SettingsOps
    <3>2. closing \/ Slipped({"confirm"})
      BY <2>1, <3>1 DEF HeardInv
    <3> QED BY <1>0, <3>2 DEF Remembered
  <2> QED BY <2>2, <2>3, <2>4 DEF Awaited, UnderWay
<1>9. CASE Finish
  <2>1. deferred.kind = "profile" /\ bridge.stage = "over"
    BY <1>9 DEF Finish, Awaited, UnderWay
  <2>2. ~closing /\ Fresh(deferred)
    BY <2>1 DEF WorkInv, Deferred
  <2>3. bridge' = Run(deferred)
    BY <1>9, <2>1, <2>2 DEF Finish, Deferred
  <2> QED BY <2>1, <2>2, <2>3, RunFits DEF Awaited, UnderWay
<1> QED BY <1>1, <1>2, <1>3, <1>4, <1>5, <1>6, <1>7, <1>8, <1>9, Steps

\* The page says that a profile is imported once its import was asked for.
LEMMA ImportingSteps ==
  ASSUME PageTypes, WorkInv, StackInv, QuestionInv, [Next]_vars, importing'
  PROVE  \/ importing
         \/ closing
         \/ Awaited("profile")' \/ Slipped({"import"})'
<1>1. CASE ConfirmProfile
  <2>1. CASE importing' = importing
    BY <2>1
  <2>2. CASE Begin(Op("profile", ops)) /\ slips' = IF Accepted THEN slips ELSE slips \cup {"import"}
    <3>1. "profile" \in Operations /\ ops \in Nat
      BY DEF Operations, SettingsOps, PageTypes
    <3>2. PICK op : Fresh(op) /\ op.kind = "profile" /\ Begin(op)
      BY <2>2, <3>1, OpFits
    <3>3. CASE Refused(op)
      BY <2>2, <3>3 DEF Refused, Accepted, Slipped
    <3>4. CASE PutOff(op) \/ Started(op)
      BY <3>2, <3>4, RunFits DEF PutOff, Started, Awaited, UnderWay
    <3> QED BY <3>2, <3>3, <3>4, Begins
  <2> QED BY <1>1, <2>1, <2>2 DEF ConfirmProfile
<1>2. CASE User /\ ~ConfirmProfile
  <2>1. CASE (\E target \in {"scan", "grade", "exam", "settings"} : Navigate(target)) \/ DetailBack
    BY <2>1 DEF Navigate, DetailBack, picks
  <2>3. CASE Close \/ Decline \/ TrashRequest \/ AnswerForm \/ CancelScan \/ GradeFromList
    BY <2>3 DEF Close, Decline, TrashRequest, AnswerForm, CancelScan, GradeFromList, picks
  <2>4. CASE ConfirmFix \/ ConfirmWrite \/ ConfirmDesktop
    BY <2>4 DEF ConfirmFix, ConfirmWrite, ConfirmDesktop
  <2>5. CASE RequestReload \/ RequestFromList \/ RequestSave \/ RequestGrading \/ RequestResults
    BY <2>5 DEF RequestReload, RequestFromList, RequestSave, RequestGrading, RequestResults, Requested, picks
  <2>6. CASE (\E s \in Sources : PickSource(s)) \/ PickProfile \/ ResetInputs
    BY <2>6 DEF PickSource, PickProfile, ResetInputs
  <2>7. CASE \E kind \in Desktop \cup ScanOps \cup GradingOps : Ask(kind)
    BY <2>7 DEF Ask
  <2> QED BY <1>2, <2>1, <2>3, <2>4, <2>5, <2>6, <2>7 DEF User
<1>3. CASE Result
  <2>1. CASE Dropped \/ Failed \/ ShowList \/ ShowResults \/ ShowDetail \/ KeepTrash \/ ActionDone \/ ImportDone
    BY <2>1 DEF Dropped, Failed, ShowList, ShowResults, ShowDetail, KeepTrash, ActionDone, ImportDone, picks
  <2>2. CASE SettingsSaved \/ ProfileImported \/ Connected \/ FreshConnected
    BY <2>2 DEF SettingsSaved, ProfileImported, Connected, FreshConnected, picks
  <2>3. CASE FixDone \/ FormArrives \/ FormFailed
    BY <2>3 DEF FixDone, FormArrives, FormFailed, picks
  <2> QED BY <1>3, <2>1, <2>2, <2>3 DEF Result
<1>4. CASE Work \/ Finish \/ Timer \/ UNCHANGED vars
  BY <1>4 DEF Work, Finish, Timer, ReloadTimer, TrashTimer, DetectTimer, vars, picks
<1> QED BY <1>1, <1>2, <1>3, <1>4 DEF Next

\* What is put off has a thread to wait for, or a timer, after every step.
LEMMA WaitStep ==
  ASSUME PageTypes, WorkInv, StackInv, QuestionInv, HeardInv, WaitInv, [Next]_vars
  PROVE  WaitInv'
<1>0. Remembered /\ (closing => closing')
  BY SlipsStay, ClosingStays
<1> SUFFICES ASSUME ~closing', ~closing PROVE WaitInv'
  BY <1>0 DEF WaitInv
<1>1. importing' => Awaited("profile")' \/ Slipped({"import", "confirm"})'
  <2>1. Slipped({"import"})' \/ Slipped({"confirm"})' => Slipped({"import", "confirm"})'
    BY DEF Slipped
  <2>2. CASE importing
    <3>1. Awaited("profile") \/ Slipped({"import", "confirm"})
      BY <2>2 DEF WaitInv, Awaited
    <3> QED BY <1>0, <2>1, <3>1, ProfileAwaited DEF Remembered
  <2> QED BY <2>1, <2>2, ImportingSteps
<1>2. /\ reload' \/ stale' => bridge'.kind # "none"
      /\ trash' => bridge'.kind # "none" \/ "trash" \in timers'
  <2>1. CASE Finish
    BY <2>1 DEF Finish, Scheduled
  <2>2. CASE TrashTimer
    <3>1. /\ UNCHANGED <<bridge, reload, stale>>
          /\ trash' => Working
      BY <2>2 DEF TrashTimer, work, scans
    <3> QED BY <3>1 DEF Working, WorkInv, WaitInv
  <2>3. CASE ~Finish /\ ~TrashTimer
    <3>1. "trash" \in timers => "trash" \in timers'
      BY <2>3, TimersStay
    <3> QED BY <2>3, <3>1, PutOffBehind, KindStays DEF WaitInv
  <2> QED BY <2>1, <2>2, <2>3
<1> QED BY <1>1, <1>2 DEF WaitInv, Awaited

-----------------------------------------------------------------------------
(***************************************************************************)
(* The lists shown                                                         *)
(***************************************************************************)
\* Settings become old on disk only.
LEMMA SettingsSteps ==
  ASSUME [Next]_vars
  PROVE  settings' = settings \/ settings' # "old" \/ Work
<1>1. CASE User
  <2>1. CASE (\E target \in {"scan", "grade", "exam", "settings"} : Navigate(target)) \/ DetailBack
    BY <2>1 DEF Navigate, DetailBack, lists
  <2>3. CASE Close \/ Decline \/ TrashRequest \/ AnswerForm \/ CancelScan \/ GradeFromList
    BY <2>3 DEF Close, Decline, TrashRequest, AnswerForm, CancelScan, GradeFromList, Elsewhere, lists
  <2>4. CASE ConfirmFix \/ ConfirmProfile \/ ConfirmWrite \/ ConfirmDesktop
    BY <2>4 DEF ConfirmFix, ConfirmProfile, ConfirmWrite, ConfirmDesktop, Answered, Elsewhere, lists
  <2>5. CASE RequestReload \/ RequestFromList \/ RequestSave \/ RequestGrading \/ RequestResults
    BY <2>5 DEF RequestReload, RequestFromList, RequestSave, RequestGrading, RequestResults, Requested, lists
  <2>6. CASE (\E s \in Sources : PickSource(s)) \/ PickProfile \/ ResetInputs
    BY <2>6 DEF PickSource, PickProfile, ResetInputs, lists
  <2>7. CASE \E kind \in Desktop \cup ScanOps \cup GradingOps : Ask(kind)
    BY <2>7 DEF Ask, Elsewhere, lists
  <2> QED BY <1>1, <2>1, <2>3, <2>4, <2>5, <2>6, <2>7 DEF User
<1>2. CASE Result
  <2>1. CASE Dropped \/ Failed \/ ShowList \/ ShowResults \/ ShowDetail \/ KeepTrash \/ ActionDone \/ ImportDone
    BY <2>1 DEF Dropped, Failed, SaveRefused, ShowList, ShowResults, ShowDetail, KeepTrash, ActionDone,
                ImportDone, Shown, lists
  <2>2. CASE SettingsSaved \/ ProfileImported \/ Connected \/ FreshConnected
    BY <2>2 DEF SettingsSaved, Shown, SaveRefused, ProfileImported, Connected, FreshConnected, lists
  <2>3. CASE FixDone \/ FormArrives \/ FormFailed
    BY <2>3 DEF FixDone, FormArrives, FormFailed, lists
  <2> QED BY <1>2, <2>1, <2>2, <2>3 DEF Result
<1>3. CASE Finish \/ Timer \/ UNCHANGED vars
  BY <1>3 DEF Finish, Timer, ReloadTimer, TrashTimer, DetectTimer, vars, lists
<1> QED BY <1>1, <1>2, <1>3 DEF Next

\* An unread list is read after all when it is shown, and so are settings not loaded.
LEMMA UnreadStays ==
  ASSUME [Next]_vars
  PROVE  /\ ShowList \/ ShowResults \/ slips \ {"unloaded"} \subseteq slips'
         /\ settings' = "current" \/ slips \ {"unread"} \subseteq slips'
<1>1. ListShown \/ UNCHANGED <<exam, page, work, reload, slips>> => slips \subseteq slips'
  BY DEF ListShown
<1>2. CASE User
  <2>1. CASE (\E target \in {"scan", "grade", "exam", "settings"} : Navigate(target)) \/ DetailBack
    BY <1>1, <2>1 DEF Navigate, DetailBack, LeaveDetail
  <2>3. CASE Close \/ Decline \/ TrashRequest \/ GradeFromList \/ CancelScan
    BY <2>3 DEF Close, Decline, TrashRequest, GradeFromList, CancelScan
  <2>4. CASE \E kind \in Desktop \cup ScanOps \cup GradingOps : Ask(kind)
    BY <2>4 DEF Ask
  <2>5. CASE ConfirmFix \/ ConfirmProfile \/ ConfirmWrite \/ ConfirmDesktop
    BY <2>5 DEF ConfirmFix, ConfirmProfile, ConfirmWrite, ConfirmDesktop
  <2>6. CASE RequestReload \/ RequestFromList \/ RequestSave \/ RequestGrading \/ RequestResults
    BY <2>6 DEF RequestReload, RequestFromList, RequestSave, RequestGrading, RequestResults, Requested
  <2>7. CASE (\E s \in Sources : PickSource(s)) \/ PickProfile \/ ResetInputs \/ AnswerForm
    BY <2>7 DEF PickSource, PickProfile, ResetInputs, AnswerForm
  <2> QED BY <1>2, <2>1, <2>3, <2>4, <2>5, <2>6, <2>7 DEF User
<1>3. CASE Result
  <2>1. CASE Dropped \/ Failed \/ ShowDetail \/ KeepTrash \/ ActionDone \/ ImportDone
    BY <2>1 DEF Dropped, Failed, ShowDetail, KeepTrash, ActionDone, ImportDone, Shown
  <2>2. CASE SettingsSaved \/ ProfileImported \/ Connected \/ FreshConnected
    BY <2>2 DEF SettingsSaved, Shown, ProfileImported, Connected, FreshConnected
  <2>3. CASE FixDone \/ FormArrives \/ FormFailed
    BY <2>3 DEF FixDone, FormArrives, FormFailed
  <2>4. CASE ShowList \/ ShowResults
    BY <2>4 DEF ShowList, ShowResults
  <2> QED BY <1>3, <2>1, <2>2, <2>3, <2>4 DEF Result
<1>4. CASE Work \/ Finish \/ Timer \/ UNCHANGED vars
  BY <1>4 DEF Work, Finish, Timer, ReloadTimer, TrashTimer, DetectTimer, vars
<1> QED BY <1>2, <1>3, <1>4 DEF Next

\* The answer that the settings on disk have changed, or may have, is on its way.
Brought ==
  /\ bridge.kind \in {"save", "import", "fullrestore"} /\ bridge.stage = "back"
  /\ bridge.kind = "save" \/ bridge.end = "done"

\* Settings that are old stay so only until that answer.
LEMMA SettingsStep ==
  ASSUME PageTypes, WorkInv, StackInv, QuestionInv, HeardInv, [Next]_vars,
         settings = "old" => closing \/ Slipped({"confirm", "unloaded"}) \/ Brought
  PROVE  settings' = "old" => closing' \/ Slipped({"confirm", "unloaded"})' \/ Brought'
<1>0. (closing => closing') /\ (settings' = "current" \/ slips \ {"unread"} \subseteq slips')
  BY UnreadStays, ClosingStays
<1> SUFFICES ASSUME settings' = "old", ~closing', ~closing, slips \ {"unread"} \subseteq slips',
                    ~Slipped({"confirm", "unloaded"})', ~Slipped({"confirm", "unloaded"})
             PROVE  Brought'
  BY <1>0 DEF Slipped
<1>a. ~Slipped({"confirm"}) /\ ~Slipped({"confirm"})' /\ "unloaded" \notin slips'
  BY DEF Slipped
<1>1. CASE Work
  <2>1. settings # "old"
    BY <1>1 DEF Work, Brought
  <2>2. /\ bridge.kind \in {"save", "import", "fullrestore"}
        /\ Ended("done") \/ (bridge.kind = "save" /\ \E end \in {"failed", "denied"} : Ended(end))
    BY <1>1, <2>1 DEF Work, Fails, Reads, Saves, SavesScan, SavesSettings, BringsExams, OpensDetail, FixesId,
                      Same, lists
  <2>3. {"done", "failed", "denied"} \subseteq Answers /\ bridge \in Bridges
    BY DEF Answers, WorkInv
  <2> QED BY <2>2, <2>3, EndedFits DEF Brought
<1>2. CASE ~Work
  <2>1. Brought
    BY <1>2, SettingsSteps
  <2>2. CASE Requests
    BY <2>1, <2>2, Begins DEF Requests, Request, quiet, Refused, PutOff, Started, Brought
  <2>3. CASE Settles
    BY <1>a, <2>1, <2>3, Arriving DEF Settles, Brought
  <2>4. CASE Holds
    BY <2>1, <2>4 DEF Holds, Arrives, Brought
  <2>5. CASE Shutdown \/ CancelScan \/ AnswerForm \/ Finish
    BY <1>a, <2>1, <2>5 DEF Shutdown, CancelScan, AnswerForm, Finish, Brought
  <2>6. CASE Dropped
    <3>1. ~Muted
      BY <2>1 DEF Brought, Muted, WorkInv
    <3>2. active # bridge.kind \/ (bridge.end = "done" /\ bridge.kind \in Desktop /\ heard # bridge.kind)
      BY <2>6, <3>1 DEF Dropped
    <3> QED BY <1>a, <2>1, <3>1, <3>2 DEF HeardInv, Brought, Muted
  <2> QED BY <1>2, <2>2, <2>3, <2>4, <2>5, <2>6, Steps
<1> QED BY <1>1, <1>2

\* A list asked for is read, now or later, whatever it showed before.
LEMMA RefreshReads ==
  ASSUME WorkInv, Refresh, ~closing
  PROVE  ReadAgain'
<1>1. CASE Working
  BY <1>1 DEF Refresh, ReadAgain, Coming
<1>2. CASE ~Working
  <2>1. PICK op : op.kind = "load" /\ Fresh(op) /\ Begin(op)
    <3>1. "load" \in Operations /\ 0 \in Nat
      BY DEF Operations, ListOps
    <3> QED BY <1>2, <3>1, OpFits DEF Refresh
  <2>2. CASE PutOff(op)
    BY <2>1, <2>2 DEF PutOff, ReadAgain, Coming
  <2>3. CASE Started(op)
    <3>1. active' = "load" /\ bridge'.kind = "load" /\ deferred'.kind = "none"
      BY <1>2, <2>1, <2>3, RunFits DEF Started, Working, Deferred
    <3> QED BY <3>1, Kinds1 DEF ReadAgain, Linking
  <2> QED BY <1>2, <2>1, <2>2, <2>3, Begins DEF Refused
<1> QED BY <1>1, <1>2

\* So is a list that comes into view.
LEMMA ListShownReads ==
  ASSUME WorkInv, ListShown, ~closing, ~Slipped({"fix", "confirm", "unread"})'
  PROVE  ReadAgain'
<1>1. CASE Busy(ListOps)
  <2>1. active = "load" /\ UNCHANGED <<work, reload>>
    <3>1. "unread" \notin slips'
      BY DEF Slipped
    <3> QED BY <1>1, <3>1 DEF ListShown
  <2>2. active' = "load" /\ bridge'.kind = "load" /\ deferred'.kind = "none"
    BY <2>1 DEF work, WorkInv, Deferred
  <2> QED BY <2>2 DEF ReadAgain, Linking
<1>2. CASE ~Busy(ListOps)
  BY <1>2, RefreshReads DEF ListShown
<1> QED BY <1>1, <1>2

\* The list comes into view by way of the pages or an answer.
LEMMA EntersList ==
  ASSUME [Next]_vars, ~Result, OnExamList'
  PROVE  OnExamList \/ ListShown
<1>1. CASE User
  <2>1. CASE \E target \in {"scan", "grade", "exam", "settings"} : Navigate(target)
    BY <2>1 DEF Navigate, LeaveDetail, InDetail, OnExamList
  <2>2. CASE DetailBack
    BY <2>2 DEF DetailBack, LeaveDetail, OnExamList
  <2>3. CASE Close \/ Decline \/ TrashRequest \/ AnswerForm \/ CancelScan \/ GradeFromList
    BY <2>3 DEF Close, Decline, TrashRequest, AnswerForm, CancelScan, GradeFromList, Elsewhere, win, OnExamList
  <2>4. CASE ConfirmFix \/ ConfirmProfile \/ ConfirmWrite \/ ConfirmDesktop
    BY <2>4 DEF ConfirmFix, ConfirmProfile, ConfirmWrite, ConfirmDesktop, Answered, Elsewhere, OnExamList
  <2>5. CASE RequestReload \/ RequestFromList \/ RequestSave \/ RequestGrading \/ RequestResults
    BY <2>5 DEF RequestReload, RequestFromList, RequestSave, RequestGrading, RequestResults, Requested, win, OnExamList
  <2>6. CASE (\E s \in Sources : PickSource(s)) \/ PickProfile \/ ResetInputs
    BY <2>6 DEF PickSource, PickProfile, ResetInputs, win, OnExamList
  <2>7. CASE \E kind \in Desktop \cup ScanOps \cup GradingOps : Ask(kind)
    BY <2>7 DEF Ask, Elsewhere, OnExamList
  <2> QED BY <1>1, <2>1, <2>2, <2>3, <2>4, <2>5, <2>6, <2>7 DEF User
<1>2. CASE Work \/ Finish \/ Timer \/ UNCHANGED vars
  BY <1>2 DEF Work, Finish, Timer, ReloadTimer, TrashTimer, DetectTimer, vars, win, OnExamList
<1> QED BY <1>1, <1>2 DEF Next

\* Elsewhere the list stays as it is, and what will have it read again stays too.
LEMMA ListFrame ==
  ASSUME [Next]_vars, ~Result, ~Work, ~Finish, ~ReloadTimer
  PROVE  /\ UNCHANGED listed /\ (reload => reload')
         /\ "reload" \in timers => "reload" \in timers'
<1>1. Refresh \/ ListShown \/ UNCHANGED <<work, reload>> => (reload => reload')
  BY DEF ListShown, Refresh
<1>2. "reload" \in timers => "reload" \in timers'
  BY TimersStay
<1>3. CASE User
  <2>1. CASE (\E target \in {"scan", "grade", "exam", "settings"} : Navigate(target)) \/ DetailBack
    BY <1>1, <2>1 DEF Navigate, DetailBack, LeaveDetail, lists
  <2>3. CASE Close \/ Decline \/ TrashRequest \/ AnswerForm \/ CancelScan \/ GradeFromList
    BY <2>3 DEF Close, Decline, TrashRequest, AnswerForm, CancelScan, GradeFromList, Elsewhere, lists, later
  <2>4. CASE ConfirmFix \/ ConfirmProfile \/ ConfirmWrite \/ ConfirmDesktop
    BY <2>4 DEF ConfirmFix, ConfirmProfile, ConfirmWrite, ConfirmDesktop, Answered, Elsewhere, lists, later
  <2>5. CASE RequestReload \/ RequestFromList \/ RequestSave \/ RequestGrading \/ RequestResults
    BY <2>5 DEF RequestReload, RequestFromList, RequestSave, RequestGrading, RequestResults, Requested, lists
  <2>6. CASE (\E s \in Sources : PickSource(s)) \/ PickProfile \/ ResetInputs
    BY <2>6 DEF PickSource, PickProfile, ResetInputs, lists, later
  <2>7. CASE \E kind \in Desktop \cup ScanOps \cup GradingOps : Ask(kind)
    BY <2>7 DEF Ask, Elsewhere, lists, later
  <2> QED BY <1>2, <1>3, <2>1, <2>3, <2>4, <2>5, <2>6, <2>7 DEF User
<1>4. CASE Timer \/ UNCHANGED vars
  BY <1>2, <1>4 DEF Timer, TrashTimer, DetectTimer, vars, lists, later
<1> QED BY <1>3, <1>4 DEF Next
\* A request keeps what will have the list read again.
LEMMA RequestReads ==
  ASSUME WorkInv, HeardInv, ~closing, ~Slipped({"confirm"}), NEW op, Request(op), OnExamList', ReadAgain,
         UNCHANGED listed, reload => reload', "reload" \in timers => "reload" \in timers'
  PROVE  ReadAgain'
<1>1. bridge.stage = "back" /\ bridge.kind # "scan" => active = bridge.kind /\ ~bridge.told
  BY DEF HeardInv, WorkInv
<1>2. op.kind \in Linking => page' # "exam"
  BY DEF Request
<1>3. op.kind \notin Linking
  BY <1>2 DEF OnExamList
<1>4. CASE Refused(op)
  <2>1. UNCHANGED <<bridge, active, deferred>>
    BY <1>4 DEF Refused
  <2>2. Promised => Promised'
    <3>1. active = "change" /\ refresh => refresh'
      BY <1>4 DEF Refused, Request
    <3>2. bridge.stage = "back" /\ bridge.kind = "change" => active = "change"
      BY <1>1
    <3> QED BY <2>1, <3>1, <3>2 DEF Promised
  <2>3. Coming => Coming'
    BY <2>1 DEF Coming
  <2> QED BY <2>1, <2>2, <2>3 DEF ReadAgain
<1>5. CASE PutOff(op)
  <2>1. active = "none" /\ ~Deferred /\ UNCHANGED <<bridge, active>> /\ deferred' = op /\ bridge.kind # "none"
    BY <1>5 DEF PutOff, Taken, Working
  <2>2. ~Promised
    <3>1. ~(bridge.stage = "back" /\ bridge.kind # "scan")
      BY <1>1, <2>1
    <3> QED BY <3>1 DEF Promised
  <2>3. Coming => Coming'
    BY <2>1 DEF Coming, Deferred
  <2> QED BY <1>3, <2>1, <2>2, <2>3 DEF ReadAgain
<1>6. CASE Started(op)
  <2>1. bridge.kind = "none" /\ ~Deferred /\ UNCHANGED deferred /\ bridge'.kind = op.kind
    BY <1>6, RunFits DEF Started, Taken, Working, Request
  <2>2. active \in {"none", "form"} /\ ~Promised
    BY <2>1 DEF WorkInv, Promised
  <2>3. Coming => Coming'
    BY <2>1 DEF Coming, Deferred
  <2> QED BY <1>3, <2>1, <2>2, <2>3 DEF ReadAgain, Deferred, Linking
<1> QED BY <1>4, <1>5, <1>6, Begins DEF Request

\* The answer to an operation keeps it too.
LEMMA SettlesReads ==
  ASSUME WorkInv, Settles, OnExamList', OnExamList => ReadAgain
  PROVE  ReadAgain'
<1>1. PICK kind \in Operations, end \in Answers :
        /\ Arrives(kind, end) /\ Settle
        /\ listed' = "old" => listed = "old" /\ kind \notin {"load", "results"}
        /\ UNCHANGED timers /\ (reload \/ Promises(kind, end) => reload')
        /\ OnExamList' => OnExamList \/ reload' \/ listed' # "old"
  BY DEF Settles
<1>2. bridge'.stage = "over" /\ deferred'.kind = "none" /\ deferred.kind = "none"
  BY <1>1, Arriving, OverFits DEF Settle, WorkInv, Deferred
<1>3. bridge.kind = kind /\ active = kind /\ bridge.stage = "back" /\ bridge.end = end
  BY <1>1 DEF Arrives
<1>4. Promised => reload'
  BY <1>1, <1>3 DEF Promised, Promises
<1>5. Coming => Coming'
  BY <1>1, <1>2 DEF Coming
<1>6. listed' = "old" => Coming'
  BY <1>1, <1>3, <1>4, <1>5 DEF ReadAgain, Coming
<1> QED BY <1>2, <1>6, Kinds1 DEF ReadAgain, Linking

\* What changes the exams while the list is shown promises that it is read again.
LEMMA WorkLists ==
  ASSUME WorkInv, HeardInv, FixInv, ~closing, ~Slipped({"confirm"}), ~Slipped({"fix"}), OnExamList,
         ReadAgain, Work
  PROVE  ReadAgain'
<1>1. /\ UNCHANGED <<later, active, deferred, refresh>> /\ bridge.stage = "run"
      /\ bridge'.kind = bridge.kind /\ bridge'.stage = "back"
  BY ThreadEnds DEF Work
<1>2. Coming => Coming'
  BY <1>1 DEF Coming, later
<1>3. bridge.kind \in Linking => Coming
  BY <1>1 DEF ReadAgain
<1>4. bridge.kind = "change" => refresh
  BY <1>1 DEF HeardInv, WorkInv
<1>5. bridge.kind # "fix"
  BY <1>1 DEF FixInv, UnderWay, OnExamList
<1>6. listed' = listed \/ Promised' \/ bridge.kind \in Linking
  <2>1. "done" \in Answers /\ bridge \in Bridges
    BY DEF Answers, WorkInv
  <2>2. Ended("done") => bridge'.end = "done"
    BY <2>1, EndedFits
  <2>3. CASE Fails
    BY <1>1, <1>4, <2>3 DEF Fails, Same, lists, Promised
  <2>4. CASE Reads \/ SavesSettings \/ OpensDetail
    BY <2>4 DEF Reads, SavesSettings, OpensDetail, Same, lists
  <2>5. CASE Saves
    BY <1>1, <2>2, <2>5 DEF Saves, Promised, Linking
  <2>6. CASE SavesScan \/ BringsExams
    BY <1>1, <2>6 DEF SavesScan, BringsExams, Promised, Linking
  <2> QED BY <1>5, <2>3, <2>4, <2>5, <2>6 DEF Work, FixesId
<1>7. ~Promised
  BY <1>1 DEF Promised
<1>8. bridge'.kind \in Linking /\ bridge'.stage = "run" => Coming'
  BY <1>1
<1>9. deferred'.kind \in Linking => Coming'
  BY <1>1, <1>2 DEF ReadAgain
<1>10. listed' = "old" => Coming' \/ active' \in {"load", "results"} \/ Promised'
  BY <1>1, <1>2, <1>3, <1>6, <1>7 DEF ReadAgain
<1> QED BY <1>8, <1>9, <1>10 DEF ReadAgain

\* The end of a thread sets the timer for the list, or begins to read it.
LEMMA FinishReads ==
  ASSUME WorkInv, ~closing, ReadAgain, Finish
  PROVE  ReadAgain'
<1>1. bridge.stage = "over" /\ UNCHANGED listed /\ deferred' = Idle /\ timers' = timers \cup Scheduled
  BY DEF Finish, lists
<1>2. reload \/ "reload" \in timers => "reload" \in timers'
  BY <1>1 DEF Scheduled
<1>3. ~Promised /\ active \notin {"load", "results"}
  BY <1>1 DEF Promised, WorkInv
<1>4. CASE Deferred
  <2>1. bridge' = Run(deferred) /\ active' = deferred.kind
    BY <1>4 DEF Finish
  <2>2. bridge'.kind = deferred.kind
    BY <1>4, <2>1, RunFits DEF WorkInv
  <2>3. deferred.kind \in Linking => Coming'
    <3>1. deferred.kind \in Linking => Coming /\ deferred.kind \notin {"load", "results"}
      BY DEF ReadAgain, Linking
    <3> QED BY <1>2, <3>1 DEF Coming
  <2>4. listed = "old" => Coming' \/ active' \in {"load", "results"}
    BY <1>2, <1>3, <2>1 DEF ReadAgain, Coming
  <2> QED BY <1>1, <2>2, <2>3, <2>4, IdleFits, Kinds1 DEF ReadAgain, Linking
<1>5. CASE ~Deferred
  <2>1. bridge'.kind = "none"
    BY <1>5, IdleFits DEF Finish
  <2>2. Coming => Coming'
    BY <1>2, <1>5 DEF Coming, Deferred
  <2> QED BY <1>1, <1>3, <2>1, <2>2, IdleFits DEF ReadAgain, Linking
<1> QED BY <1>4, <1>5

\* The list in view goes on being read again when it is old.
LEMMA ListStays ==
  ASSUME PageTypes, WorkInv, StackInv, QuestionInv, HeardInv, FixInv, [Next]_vars,
         ~closing, ~closing', ~Slipped({"confirm"}), ~Slipped({"fix"}), ~Slipped({"confirm"})',
         OnExamList', OnExamList => ReadAgain, ~ListShown, ~ReloadTimer
  PROVE  ReadAgain'
<1>1. CASE Settles
  BY <1>1, SettlesReads
<1>2. CASE Holds
  <2>1. "form" \in Operations
    BY DEF Operations, ListOps
  <2>2. /\ bridge.kind = "form" /\ active = "form" /\ deferred.kind = "none" /\ bridge'.stage = "over"
        /\ UNCHANGED <<active, deferred, page, exam, later, lists>>
    BY <1>2, <2>1, Arriving, OverFits DEF Holds, WorkInv, Deferred
  <2> QED BY <2>2, Kinds1 DEF ReadAgain, Coming, Promised, OnExamList, later, lists, Linking
<1>3. CASE Dropped
  <2>1. /\ UNCHANGED <<page, exam, later, lists, deferred>> /\ bridge.stage = "back"
        /\ bridge' = [bridge EXCEPT !.stage = "over"] \/ Over
    BY <1>3 DEF Dropped, win
  <2>2. Muted
    BY <1>3 DEF Dropped, HeardInv, Muted
  <2>3. active' = active /\ bridge'.stage = "over"
    BY <1>3, <2>1, <2>2, OverFits DEF Dropped, WorkInv, Bridges
  <2>4. ~Promised
    BY <2>1, <2>2 DEF Promised, Muted, WorkInv
  <2> QED BY <2>1, <2>3, <2>4 DEF ReadAgain, Coming, OnExamList, later, lists
<1>4. CASE Shutdown
  BY <1>4 DEF Shutdown
<1>5. CASE CancelScan
  BY <1>5 DEF CancelScan, win, OnExamList
<1>6. CASE AnswerForm
  <2>1. /\ UNCHANGED <<page, exam, later, lists, bridge, deferred>>
        /\ ~(active # "none" /\ bridge.stage \in {"run", "back"})
    BY <1>6 DEF AnswerForm, Slipped
  <2>2. active \notin {"load", "results"}
    BY <2>1 DEF WorkInv
  <2>3. Promised => Promised'
    <3>1. bridge.stage = "back" /\ ~bridge.told => active = bridge.kind /\ bridge.kind # "none"
      BY DEF HeardInv, WorkInv
    <3> QED BY <2>1, <3>1 DEF Promised, WorkInv
  <2> QED BY <2>1, <2>2, <2>3 DEF ReadAgain, Coming, OnExamList, later, lists
<1>7. CASE Work
  BY <1>7, WorkLists DEF Work, win, OnExamList
<1>8. CASE Finish
  BY <1>8, FinishReads DEF Finish, win, OnExamList
<1>9. CASE Requests /\ ~Result /\ ~Work /\ ~Finish
  <2>1. UNCHANGED listed /\ (reload => reload') /\ ("reload" \in timers => "reload" \in timers') /\ ReadAgain
    BY <1>9, ListFrame, EntersList
  <2>2. CASE UNCHANGED quiet
    BY <2>1, <2>2 DEF quiet, ReadAgain, Coming, Promised
  <2>3. ASSUME NEW op, Request(op) PROVE ReadAgain'
    BY <2>1, <2>3, RequestReads
  <2> QED BY <1>9, <2>2, <2>3 DEF Requests
<1> QED BY <1>1, <1>2, <1>3, <1>4, <1>5, <1>6, <1>7, <1>8, <1>9, Steps, ResultSteps

\* An old list will be read again, after every step.
LEMMA ListStep ==
  ASSUME PageTypes, WorkInv, StackInv, QuestionInv, HeardInv, FixInv, ListInv, [Next]_vars
  PROVE  ListInv'
<1>0. Remembered /\ (closing => closing')
  BY SlipsStay, ClosingStays
<1>1. settings' = "old" => closing' \/ Slipped({"confirm", "unloaded"})' \/ Brought'
  BY SettingsStep DEF ListInv, Brought
<1>2. ASSUME ~closing', ~Slipped({"fix", "confirm", "unread"})', OnExamList'
      PROVE  ReadAgain'
  <2>1. ~closing /\ ~Slipped({"confirm"}) /\ ~Slipped({"confirm"})' /\ ~Slipped({"fix"})
    <3>1. ~Slipped({"confirm"})' /\ ~Slipped({"fix"})'
      BY <1>2 DEF Slipped
    <3>2. ~Slipped({"confirm"}) /\ ~Slipped({"fix"})
      BY <1>0, <3>1 DEF Remembered
    <3> QED BY <1>0, <1>2, <3>1, <3>2
  <2>2. CASE ShowList \/ ShowResults
    <3>1. \E kind \in {"load", "results"} : Arrives(kind, "done") /\ Settle
      BY <2>2 DEF ShowList, ShowResults
    <3>2. {"load", "results"} \subseteq Operations /\ listed' = "current"
      BY <2>2 DEF ShowList, ShowResults, Operations, ListOps
    <3>3. bridge'.stage = "over" /\ deferred'.kind = "none"
      BY <3>1, <3>2, Arriving, OverFits DEF Settle, WorkInv, Deferred
    <3> QED BY <3>2, <3>3 DEF ReadAgain, Linking
  <2>3. CASE ~ShowList /\ ~ShowResults
    <3>1. slips \ {"unloaded"} \subseteq slips'
      BY <2>3, UnreadStays
    <3>2. OnExamList => ReadAgain
      BY <1>2, <2>1, <3>1 DEF ListInv, Slipped
    <3>3. CASE ListShown
      BY <1>2, <2>1, <3>3, ListShownReads
    <3>4. CASE ReloadTimer
      BY <2>1, <3>4, RefreshReads DEF ReloadTimer
    <3> QED BY <1>2, <2>1, <3>2, <3>3, <3>4, ListStays
  <2> QED BY <2>2, <2>3
<1> QED BY <1>1, <1>2 DEF ListInv, Brought
-----------------------------------------------------------------------------
(***************************************************************************)
(* The form of the scans                                                   *)
(***************************************************************************)
\* The scans picked, and what is known of their form, change in few steps.
LEMMA FormFrame ==
  ASSUME [Next]_vars, ~FormArrives, ~FormFailed, ~AnswerForm, ~Finish, ~DetectTimer, ~ResetInputs,
         ~\E s \in Sources : PickSource(s)
  PROVE  UNCHANGED scans
<1>1. CASE User
  <2>1. CASE (\E target \in {"scan", "grade", "exam", "settings"} : Navigate(target)) \/ DetailBack
    BY <2>1 DEF Navigate, DetailBack
  <2>3. CASE Close \/ Decline \/ TrashRequest \/ CancelScan \/ GradeFromList
    BY <2>3 DEF Close, Decline, TrashRequest, CancelScan, GradeFromList, Elsewhere
  <2>4. CASE ConfirmFix \/ ConfirmProfile \/ ConfirmWrite \/ ConfirmDesktop
    BY <2>4 DEF ConfirmFix, ConfirmProfile, ConfirmWrite, ConfirmDesktop, Answered, Elsewhere
  <2>5. CASE RequestReload \/ RequestFromList \/ RequestSave \/ RequestGrading \/ RequestResults
    BY <2>5 DEF RequestReload, RequestFromList, RequestSave, RequestGrading, RequestResults, Requested
  <2>6. CASE PickProfile
    BY <2>6 DEF PickProfile
  <2>7. CASE \E kind \in Desktop \cup ScanOps \cup GradingOps : Ask(kind)
    BY <2>7 DEF Ask, Elsewhere
  <2> QED BY <1>1, <2>1, <2>3, <2>4, <2>5, <2>6, <2>7 DEF User
<1>2. CASE Result
  <2>1. CASE Dropped \/ Failed \/ ShowList \/ ShowResults \/ ShowDetail \/ KeepTrash \/ ActionDone \/ ImportDone
    BY <2>1 DEF Dropped, Failed, ShowList, ShowResults, ShowDetail, KeepTrash, ActionDone, ImportDone
  <2>2. CASE SettingsSaved \/ ProfileImported \/ Connected \/ FreshConnected
    BY <2>2 DEF SettingsSaved, ProfileImported, Connected, FreshConnected
  <2>3. CASE FixDone
    BY <2>3 DEF FixDone
  <2> QED BY <1>2, <2>1, <2>2, <2>3 DEF Result
<1>3. CASE Work \/ Timer \/ UNCHANGED vars
  BY <1>3 DEF Work, Timer, ReloadTimer, TrashTimer, vars
<1> QED BY <1>1, <1>2, <1>3 DEF Next

\* A question about a form stays until it is answered.
LEMMA QuestionsStay ==
  ASSUME StackInv, WorkInv, [Next]_vars, ~AnswerForm, NEW s, HasQuestion(s)
  PROVE  HasQuestion(s)'
<1>1. CASE dialogs' = dialogs
  BY <1>1, SameDialogs
<1>2. CASE dialogs # <<>> /\ dialogs' = Front(dialogs) /\ Last(dialogs).what # "newform"
  BY <1>2, Closed DEF Dialog
<1>3. CASE \E kind \in Desktop \cup ScanOps \cup GradingOps : Ask(kind)
  BY <1>3, AskFits
<1>4. CASE \E d \in Dialogs : d.what \in {"trash", "newform"} /\ dialogs' = Append(dialogs, d)
  BY <1>4, Opened
<1> QED BY <1>1, <1>2, <1>3, <1>4, DialogSteps

\* A detection asked for is begun or put off for the scans it remembers.
LEMMA DetectionBegins ==
  ASSUME WorkInv, NEW op, Request(op), op.kind = "form", ~Refused(op)
  PROVE  FormInv'
<1>1. op.scans \in Sources /\ paths' = op.scans /\ paths' # NoSource /\ op.kind = "form" /\ Fresh(op)
  BY DEF Request, NoSource
<1>2. CASE PutOff(op)
  <2>1. active' = "none" /\ deferred' = op
    BY <1>2 DEF PutOff, Taken, Working
  <2> QED BY <1>1, <2>1 DEF FormInv, Detecting
<1>3. CASE Started(op)
  <2>1. active' = "form" /\ bridge'.scans = op.scans /\ bridge'.stage = "run" /\ deferred'.kind = "none"
    BY <1>1, <1>3, RunFits DEF Started, Taken, Working, Deferred
  <2> QED BY <1>1, <2>1 DEF FormInv, Detecting
<1> QED BY <1>2, <1>3, Begins DEF Request

\* So is one asked for when the scans are picked or its timer fires, unless it is under way
\* or has to wait.
LEMMA DetectKeeps ==
  ASSUME WorkInv, FormInv, ~closing, NEW s \in Sources, Detect(s)
  PROVE  FormInv'
<1>1. s # NoSource
  BY DEF NoSource
<1>2. CASE active = "form" /\ Working /\ s = paths
  <2>1. UNCHANGED <<paths, active, bridge, deferred>>
    BY <1>2 DEF Detect, work
  <2> QED BY <1>1, <1>2, <2>1 DEF FormInv, Detecting
<1>3. CASE ~(active = "form" /\ Working /\ s = paths) /\ Working
  <2>1. UNCHANGED <<paths, active, bridge, deferred>> /\ stale' = TRUE
    BY <1>3 DEF Detect, work
  <2> QED BY <2>1 DEF FormInv
<1>4. CASE ~Working
  <2>1. PICK op : op = [Op("form", 0) EXCEPT !.scans = s]
    OBVIOUS
  <2>2. Fresh(op) /\ op.kind = "form" /\ op.scans = s
    BY <2>1, FormOpFits
  <2>3. Begin(op) /\ paths' = s
    BY <1>4, <2>1 DEF Detect
  <2>4. Request(op)
    BY <2>2, <2>3 DEF Request, Linking
  <2> QED BY <1>4, <2>2, <2>4, DetectionBegins DEF Refused
<1> QED BY <1>2, <1>3, <1>4

\* The end of a detection is shown, unless other scans were picked meanwhile.
LEMMA FormShown ==
  ASSUME WorkInv, StackInv, FormInv, FormArrives
  PROVE  FormInv'
<1>1. /\ paths' = NoSource /\ Arrives("form", "done") /\ UNCHANGED <<source, timers, slips>>
      /\ "form" \in Operations
  BY DEF FormArrives, later, Operations, ListOps
<1>2. Over /\ UNCHANGED deferred
  BY DEF FormArrives, Settle
<1>3. ~Deferred /\ ~closing /\ active = "form" /\ bridge.stage = "back" /\ bridge'.stage = "over"
  BY <1>1, <1>2, Arriving, OverFits DEF WorkInv
<1>4. deferred'.kind # "form" /\ bridge'.stage \notin {"run", "back"}
  BY <1>2, <1>3 DEF Deferred
<1>5. CASE OtherScans
  BY <1>1, <1>5 DEF FormArrives, FormInv
<1>6. CASE ~OtherScans /\ paths = NoSource
  <2>1. ~Detecting /\ ~Detected /\ UNCHANGED stale
    BY <1>3, <1>6 DEF FormArrives, Detecting, Detected
  <2> QED BY <1>1, <1>3, <2>1 DEF FormInv, Slipped
<1>7. CASE ~OtherScans /\ paths # NoSource
  <2>1. source = bridge.scans
    BY <1>3, <1>7 DEF OtherScans, FormInv
  <2>2. form' \in {source, "failed"} \/ HasQuestion(source)'
    <3>1. CASE dialogs' = Append(dialogs, Dialog("newform", bridge.scans))
      <4>1. PICK d \in Dialogs : d = Dialog("newform", bridge.scans)
        BY DEF Dialog, Dialogs, WorkInv, Bridges
      <4>2. d.what = "newform" /\ dialogs' = Append(dialogs, d)
        BY <3>1, <4>1 DEF Dialog
      <4>3. \E i \in DOMAIN dialogs' : dialogs'[i] = Dialog("newform", source)
        BY <2>1, <4>1, <4>2, Opened DEF HasQuestion
      <4> QED BY <1>1, <4>3 DEF HasQuestion
    <3>2. CASE form' \in {bridge.scans, "failed"}
      BY <2>1, <3>2
    <3> QED BY <1>7, <3>1, <3>2 DEF FormArrives
  <2> QED BY <1>1, <1>4, <2>2 DEF FormInv, Detected
<1> QED BY <1>5, <1>6, <1>7

\* A detection that failed says so, unless other scans were picked meanwhile.
LEMMA FormNotShown ==
  ASSUME WorkInv, FormInv, FormFailed
  PROVE  FormInv'
<1>1. paths' = NoSource /\ UNCHANGED source /\ (stale' \/ form' = "failed") /\ "form" \in Operations
  BY DEF FormFailed, Operations, ListOps
<1>2. (\E end : Arrives("form", end)) /\ Settle
  BY DEF FormFailed
<1>3. ~Deferred /\ active' = "none" /\ UNCHANGED deferred
  BY <1>1, <1>2, Arriving DEF Settle, Terminal
<1> QED BY <1>1, <1>3 DEF FormInv, Detected, Deferred

\* The answer to the question is about the scans it was asked for.
LEMMA FormAnswered ==
  ASSUME FormInv, AnswerForm, closing => closing'
  PROVE  FormInv'
<1>1. active' = "none" /\ UNCHANGED <<deferred, source, paths>>
  BY DEF AnswerForm, Terminal
<1>2. \/ Slipped({"confirm"})'
      \/ ~Deferred /\ form' \in {source, "failed"}
  BY DEF AnswerForm, Slipped
<1> QED BY <1>1, <1>2 DEF FormInv, Detected, Deferred

\* The end of a thread begins what was put off, or sets its timer.
LEMMA FormFinished ==
  ASSUME PageTypes, WorkInv, StackInv, FormInv, Finish, closing => closing', Remembered
  PROVE  FormInv'
<1> SUFFICES ASSUME ~closing, ~closing' PROVE FormInv'
  BY DEF FormInv, Finish
<1>1. /\ bridge.stage = "over" /\ deferred' = Idle /\ UNCHANGED <<source, form, dialogs>>
      /\ timers' = timers \cup Scheduled
  BY DEF Finish, win
<1>2. \/ deferred.kind # "none" /\ bridge' = Run(deferred) /\ active' = deferred.kind
      \/ deferred.kind = "none" /\ bridge' = Idle /\ active' \in {active, "none"}
  BY DEF Finish, Deferred, Terminal
<1>3. bridge'.stage \notin {"over", "back"} /\ (bridge'.stage = "none" => deferred.kind = "none" /\ bridge' = Idle)
  <2>1. deferred.kind # "none" => Run(deferred).stage = "run"
    BY RunFits DEF WorkInv, Deferred
  <2> QED BY <1>2, <2>1, IdleFits
<1>4. CASE stale
  <2>1. paths' = NoSource /\ (source = NoSource \/ source \in timers')
    BY <1>1, <1>4 DEF Finish, Scheduled, PageTypes
  <2> QED BY <1>1, <2>1, IdleFits DEF FormInv
<1>5. CASE ~stale
  <2>1. paths' = paths
    BY <1>5 DEF Finish
  <2>2. deferred'.kind = "none" /\ \A s : HasQuestion(s)' = HasQuestion(s)
    BY <1>1, IdleFits, SameDialogs
  <2>3. CASE deferred.kind # "none"
    <3>1. /\ bridge'.stage = "run" /\ bridge'.scans = deferred.scans /\ active' = deferred.kind
          /\ active = "none"
      BY <1>2, <2>3, RunFits DEF WorkInv, Deferred
    <3> QED BY <1>1, <1>5, <2>1, <2>2, <3>1 DEF FormInv, Detecting, Detected, Remembered
  <2>4. CASE deferred.kind = "none"
    <3>1. bridge'.stage = "none" /\ active' \in {active, "none"}
      BY <1>2, <2>4, IdleFits
    <3>2. active = "form" => paths = NoSource
      BY <1>1 DEF FormInv
    <3> QED BY <1>1, <1>5, <2>1, <2>2, <2>4, <3>1, <3>2 DEF FormInv, Detecting, Detected, Remembered
  <2> QED BY <2>3, <2>4
<1> QED BY <1>4, <1>5

\* The other steps keep what is known of the form, and its detection.
LEMMA FormKept ==
  ASSUME PageTypes, WorkInv, StackInv, QuestionInv, HeardInv, FormInv, [Next]_vars, ~closing, ~closing',
         ~FormArrives, ~FormFailed, ~AnswerForm, ~Finish, UNCHANGED scans,
         source \in timers => source = NoSource \/ source \in timers'
  PROVE  FormInv'
<1>0. Remembered /\ UNCHANGED <<source, paths, stale, form>> /\ (HasQuestion(source) => HasQuestion(source)')
  BY SlipsStay, QuestionsStay DEF scans
<1> DEFINE Waits == Slipped({"confirm"}) \/ source = NoSource \/ stale \/ source \in timers
<1>1. Waits => Waits'
  BY <1>0 DEF Remembered
<1>2. CASE Requests
  <2>1. CASE UNCHANGED quiet
    BY <1>0, <1>1, <2>1 DEF quiet, FormInv, Detecting, Detected
  <2>2. ASSUME NEW op, Request(op) PROVE FormInv'
    <3>1. CASE Refused(op)
      BY <1>0, <1>1, <3>1 DEF Refused, FormInv, Detecting, Detected
    <3>2. CASE op.kind = "form" /\ ~Refused(op)
      BY <2>2, <3>2, DetectionBegins
    <3>3. CASE op.kind # "form" /\ PutOff(op)
      <4>1. active = "none" /\ ~Deferred /\ active' = "none" /\ deferred'.kind # "form"
        BY <3>3 DEF PutOff, Taken, Working
      <4> QED BY <1>0, <1>1, <4>1 DEF FormInv, Detecting, Detected, Deferred
    <3>4. CASE op.kind # "form" /\ Started(op)
      <4>1. /\ bridge.stage = "none" /\ deferred.kind = "none" /\ active' # "form" /\ deferred'.kind = "none"
        BY <3>4 DEF Started, Taken, Working, Deferred, WorkInv
      <4> QED BY <1>0, <1>1, <4>1 DEF FormInv, Detecting, Detected
    <3> QED BY <2>2, <3>1, <3>2, <3>3, <3>4, Begins DEF Request
  <2> QED BY <1>2, <2>1, <2>2 DEF Requests
<1>3. CASE Settles
  <2>1. PICK kind \in Operations : kind # "form" /\ (\E end : Arrives(kind, end)) /\ Settle
    BY <1>3 DEF Settles
  <2>2. active # "form" /\ deferred.kind = "none" /\ active' = "none" /\ UNCHANGED deferred
    BY <2>1, Arriving DEF Settle, Terminal, Deferred
  <2> QED BY <1>0, <1>1, <2>2 DEF FormInv, Detecting, Detected
<1>4. CASE Holds
  BY <1>4 DEF Holds
<1>5. CASE Shutdown
  BY <1>5 DEF Shutdown
<1>6. CASE CancelScan
  <2>1. active = "scan" /\ deferred.kind = "none" /\ active' \in {"scan", "none"} /\ UNCHANGED deferred
    BY <1>6 DEF CancelScan, WorkInv, Deferred
  <2> QED BY <1>0, <1>1, <2>1 DEF FormInv, Detecting, Detected
<1>7. CASE Work
  <2>1. UNCHANGED <<active, deferred>>
    BY <1>7 DEF Work
  <2>2. bridge'.scans = bridge.scans /\ bridge'.stage = "back" /\ bridge.stage = "run"
    BY <1>7, ThreadEnds
  <2> QED BY <1>0, <1>1, <2>1, <2>2 DEF FormInv, Detecting, Detected
<1>8. CASE Dropped
  <2>1. UNCHANGED deferred /\ bridge.stage = "back"
    BY <1>8 DEF Dropped
  <2>2. CASE Muted
    <3>1. active # "form" /\ UNCHANGED active
      BY <1>8, <2>1, <2>2 DEF Dropped, Muted, WorkInv
    <3> QED BY <1>0, <1>1, <2>1, <3>1 DEF FormInv, Detecting, Detected
  <2>3. CASE ~Muted
    <3>1. Slipped({"confirm"}) /\ active' = "none"
      BY <1>8, <2>3 DEF Dropped, HeardInv, Muted, Terminal
    <3> QED BY <1>0, <1>1, <2>1, <3>1 DEF FormInv
  <2> QED BY <2>2, <2>3
<1> QED BY <1>2, <1>3, <1>4, <1>5, <1>6, <1>7, <1>8, Steps

\* The form of the scans picked will be known, after every step.
LEMMA FormStep ==
  ASSUME PageTypes, WorkInv, StackInv, QuestionInv, HeardInv, FormInv, [Next]_vars
  PROVE  FormInv'
<1>0. Remembered /\ (closing => closing')
  BY SlipsStay, ClosingStays
<1> SUFFICES ASSUME ~closing, ~closing' PROVE FormInv'
  BY <1>0 DEF FormInv
<1>1. CASE FormArrives \/ FormFailed
  BY <1>1, FormShown, FormNotShown
<1>2. CASE AnswerForm \/ Finish
  BY <1>0, <1>2, FormAnswered, FormFinished
<1>3. CASE DetectTimer
  BY <1>3, DetectKeeps DEF DetectTimer
<1>4. CASE \E s \in Sources : PickSource(s)
  BY <1>4, DetectKeeps DEF PickSource
<1>5. CASE ResetInputs
  <2>1. UNCHANGED <<bridge, active, deferred, paths>> /\ source' = NoSource
    BY <1>5 DEF ResetInputs, work
  <2> QED BY <2>1 DEF FormInv
<1>6. CASE /\ ~FormArrives /\ ~FormFailed /\ ~AnswerForm /\ ~Finish /\ ~DetectTimer /\ ~ResetInputs
           /\ ~\E s \in Sources : PickSource(s)
  <2>1. UNCHANGED scans
    BY <1>6, FormFrame
  <2>2. source \in timers => source = NoSource \/ source \in timers'
    BY <1>6, TimersStay DEF PageTypes
  <2> QED BY <1>6, <2>1, <2>2, FormKept
<1> QED BY <1>1, <1>2, <1>3, <1>4, <1>5, <1>6
-----------------------------------------------------------------------------
(***************************************************************************)
(* The invariant, and what it shows                                        *)
(***************************************************************************)
\* Reading the list, and looking at the form, keep the types.
LEMMA RefreshFits ==
  ASSUME PageTypes
  PROVE  /\ Refresh \/ ListShown \/ UNCHANGED <<work, reload>> => ops' = ops /\ reload' \in BOOLEAN
         /\ \A s \in Sources : Detect(s) =>
              ops' = ops /\ paths' \in Sources \cup {NoSource} /\ stale' \in BOOLEAN
<1>1. Refresh \/ UNCHANGED <<work, reload>> => ops' = ops /\ reload' \in BOOLEAN
  BY DEF Refresh, work, PageTypes
<1>2. ListShown => Refresh \/ UNCHANGED <<work, reload>>
  BY DEF ListShown
<1>3. ASSUME NEW s \in Sources, Detect(s)
      PROVE  ops' = ops /\ paths' \in Sources \cup {NoSource} /\ stale' \in BOOLEAN
  BY <1>3 DEF Detect, work, PageTypes
<1> QED BY <1>1, <1>2, <1>3

\* A detail let go, and booleans.
LEMMA GoFits ==
  ASSUME PageTypes, LetGo \/ Kept
  PROVE  leases' \subseteq 1 .. MaxHandles /\ display' \in 0 .. MaxHandles
<1>1. leases \subseteq 1 .. MaxHandles /\ display \in 0 .. MaxHandles /\ 0 \in 0 .. MaxHandles
  BY DEF PageTypes
<1>2. CASE LetGo
  BY <1>1, <1>2 DEF LetGo
<1>3. CASE Kept
  BY <1>1, <1>3 DEF Kept, opened
<1> QED BY <1>2, <1>3

\* The types where a detail is left.
LEMMA LeaveFits ==
  ASSUME PageTypes, NEW target, LeaveDetail(target)
  PROVE  /\ leases' \subseteq 1 .. MaxHandles /\ display' \in 0 .. MaxHandles
         /\ exam' \in {"list", "detail"} /\ ops' = ops /\ reload' \in BOOLEAN
BY GoFits, RefreshFits DEF LeaveDetail, PageTypes

\* The user keeps them.
LEMMA TypesUser ==
  ASSUME PageTypes, User
  PROVE  PageTypes'
<1>1. CASE \E target \in {"scan", "grade", "exam", "settings"} : Navigate(target)
  <2>1. PICK target : Navigate(target)
    BY <1>1
  <2>2. /\ leases' \subseteq 1 .. MaxHandles /\ display' \in 0 .. MaxHandles
        /\ exam' \in {"list", "detail"} /\ ops' = ops /\ reload' \in BOOLEAN
    <3>1. CASE InDetail
      BY <2>1, <3>1, LeaveFits DEF Navigate
    <3>2. CASE ~InDetail
      <4>1. UNCHANGED <<exam, opened>> /\ (ListShown \/ UNCHANGED <<work, reload>>)
        BY <2>1, <3>2 DEF Navigate
      <4> QED BY <4>1, RefreshFits DEF PageTypes, opened
    <3> QED BY <3>1, <3>2
  <2> QED BY <2>1, <2>2 DEF Navigate, PageTypes, fix, scans, picks, lists, ends
<1>2. CASE DetailBack
  BY <1>2, LeaveFits DEF DetailBack, PageTypes, fix, scans, picks, lists, ends
<1>3. CASE Close
  <2>1. leases' \subseteq 1 .. MaxHandles /\ display' \in 0 .. MaxHandles
    BY <1>3, GoFits DEF Close, Kept
  <2>2. ops' = ops /\ closing' \in BOOLEAN
    BY <1>3 DEF Close, Shutdown, work, ends, PageTypes
  <2> QED BY <1>3, <2>1, <2>2 DEF Close, PageTypes, win, later, fix, scans, picks, lists
<1>4. CASE Decline
  BY <1>4 DEF Decline, Elsewhere, PageTypes, work, later, fix, scans, picks, lists, opened, ends
<1>5. CASE TrashRequest
  BY <1>5 DEF TrashRequest, Elsewhere, PageTypes, later, fix, scans, picks, lists, opened, ends
<1>6. CASE AnswerForm
  <2>1. importing' \in BOOLEAN
    BY <1>6 DEF AnswerForm, PageTypes
  <2> QED BY <1>6, <2>1 DEF AnswerForm, PageTypes, later, fix, lists, opened, ends
<1>7. CASE CancelScan \/ GradeFromList
  BY <1>7 DEF CancelScan, GradeFromList, PageTypes, win, work, later, fix, scans, picks, lists, opened, ends
<1>8. CASE ConfirmFix
  BY <1>8 DEF ConfirmFix, Answered, Elsewhere, PageTypes, later, fix, scans, picks, lists, opened, ends
<1>9. CASE ConfirmProfile \/ ConfirmWrite \/ ConfirmDesktop
  <2>1. /\ \E kind : Answered(kind)
        /\ UNCHANGED fix
    BY <1>9 DEF ConfirmProfile, ConfirmWrite, ConfirmDesktop
  <2>2. importing' = importing \/ importing' = TRUE
    BY <1>9 DEF ConfirmProfile, ConfirmWrite, ConfirmDesktop
  <2> QED BY <2>1, <2>2 DEF Answered, Elsewhere, PageTypes, later, fix, scans, lists, opened, ends
<1>10. CASE RequestReload \/ RequestFromList \/ RequestSave \/ RequestGrading \/ RequestResults
  <2>1. reload' = reload \/ reload' = TRUE
    BY <1>10 DEF RequestReload, RequestFromList, RequestSave, RequestGrading, RequestResults
  <2>2. PICK kind : Requested(kind)
    BY <1>10 DEF RequestReload, RequestFromList, RequestSave, RequestGrading, RequestResults
  <2>3. ops' \in Nat
    BY <2>2 DEF Requested, PageTypes
  <2>4. reload' \in BOOLEAN
    BY <2>1 DEF PageTypes
  <2> QED BY <2>2, <2>3, <2>4 DEF Requested, PageTypes, win, fix, scans, picks, lists, opened, ends
<1>11. CASE \E s \in Sources : PickSource(s)
  BY <1>11, RefreshFits DEF PickSource, PageTypes, win, later, fix, lists, opened, ends
<1>12. CASE PickProfile \/ ResetInputs
  <2>1. CASE PickProfile
    BY <2>1 DEF PickProfile, PageTypes, win, work, later, fix, scans, lists, opened, ends
  <2>2. CASE ResetInputs
    BY <2>2 DEF ResetInputs, PageTypes, win, work, later, fix, lists, opened, ends
  <2> QED BY <1>12, <2>1, <2>2
<1>13. CASE \E kind \in Desktop \cup ScanOps \cup GradingOps : Ask(kind)
  BY <1>13 DEF Ask, Elsewhere, PageTypes, later, fix, scans, lists, opened, ends
<1> QED BY <1>1, <1>2, <1>3, <1>4, <1>5, <1>6, <1>7, <1>8, <1>9, <1>10, <1>11, <1>12, <1>13 DEF User

\* So do the answers.
LEMMA TypesResult ==
  ASSUME PageTypes, WorkInv, Result
  PROVE  PageTypes'
<1>0. bridge.handle \in 0 .. MaxHandles /\ refresh \in BOOLEAN
  BY DEF WorkInv, Bridges
<1>1. CASE Dropped
  BY <1>1 DEF Dropped, PageTypes, win, later, fix, scans, picks, lists, opened, ends
<1>2. CASE Failed
  <2>1. listed' \in {"current", "old", "error"} /\ settings' \in {"current", "old", "refused"}
    BY <1>2 DEF Failed, SaveRefused, PageTypes
  <2>2. reload' \in BOOLEAN
    BY <1>2 DEF Failed
  <2>3. importing' \in BOOLEAN
    BY <1>2 DEF Failed
  <2> QED BY <1>2, <2>1, <2>2, <2>3 DEF Failed, Settle, PageTypes, win, fix, scans, opened, ends
<1>3. CASE ShowList
  BY <1>3 DEF ShowList, Settle, PageTypes, win, later, fix, scans, picks, opened, ends
<1>4. CASE ShowResults
  <2>1. LetGo \/ Kept
    BY <1>4 DEF ShowResults, Kept
  <2>2. exam' \in {"list", "detail"}
    BY <1>4 DEF ShowResults, PageTypes
  <2> QED BY <1>4, <2>1, <2>2, GoFits DEF ShowResults, Settle, PageTypes, later, fix, scans, picks, ends
<1>5. CASE ShowDetail
  BY <1>0, <1>5 DEF ShowDetail, Settle, PageTypes, later, fix, scans, picks, lists, ends
<1>6. CASE KeepTrash
  BY <1>6 DEF KeepTrash, Settle, PageTypes, win, fix, scans, picks, lists, opened, ends
<1>7. CASE ActionDone
  BY <1>7 DEF ActionDone, Settle, PageTypes, win, fix, scans, picks, lists, opened, ends
<1>8. CASE ImportDone
  BY <1>8 DEF ImportDone, Shown, Settle, PageTypes, win, fix, scans, picks, opened, ends
<1>9. CASE SettingsSaved \/ ProfileImported
  <2>1. settings' \in {"current", "old", "refused"}
    BY <1>9 DEF SettingsSaved, Shown, SaveRefused, ProfileImported, PageTypes, lists
  <2> QED BY <1>9, <2>1 DEF SettingsSaved, ProfileImported, Settle, PageTypes, win, later, fix, scans, picks,
                            lists, opened, ends
<1>10. CASE Connected
  BY <1>10 DEF Connected, Settle, PageTypes, win, later, fix, scans, picks, lists, opened, ends
<1>11. CASE FreshConnected
  <2>1. LetGo \/ Kept
    BY <1>11 DEF FreshConnected, Kept
  <2>2. exam' \in {"list", "detail"} /\ reload' \in BOOLEAN
    BY <1>11 DEF FreshConnected, PageTypes, win
  <2> QED BY <1>11, <2>1, <2>2, GoFits DEF FreshConnected, Settle, PageTypes, fix, scans, picks, lists, ends
<1>12. CASE FixDone
  <2>1. leases' \subseteq 1 .. MaxHandles /\ display' \in 0 .. MaxHandles
    BY <1>0, <1>12 DEF FixDone, LetGo, Kept, PageTypes, opened
  <2>2. exam' \in {"list", "detail"}
    BY <1>12 DEF FixDone, PageTypes
  <2>3. reload' \in BOOLEAN /\ fixing' \in BOOLEAN
    BY <1>12 DEF FixDone, PageTypes, fix
  <2> QED BY <1>12, <2>1, <2>2, <2>3 DEF FixDone, Settle, PageTypes, scans, picks, lists, ends
<1>13. CASE FormArrives
  BY <1>13 DEF FormArrives, Settle, PageTypes, NoSource, later, fix, lists, opened, ends
<1>14. CASE FormFailed
  BY <1>14 DEF FormFailed, Settle, PageTypes, NoSource, win, later, fix, picks, lists, opened, ends
<1> QED BY <1>1, <1>2, <1>3, <1>4, <1>5, <1>6, <1>7, <1>8, <1>9, <1>10, <1>11, <1>12, <1>13, <1>14 DEF Result

\* The types hold after every step.
LEMMA TypesStep ==
  ASSUME PageTypes, WorkInv, [Next]_vars
  PROVE  PageTypes'
<1>1. CASE Work
  <2>1. leases' \subseteq 1 .. MaxHandles
    BY <1>1, ThreadEnds DEF PageTypes
  <2>2. listed' \in {"current", "old", "error"} /\ settings' \in {"current", "old", "refused"}
    BY <1>1 DEF Work, Fails, Reads, Saves, SavesScan, SavesSettings, BringsExams, OpensDetail, FixesId,
                Same, Changed, lists, PageTypes
  <2> QED BY <1>1, <2>1, <2>2 DEF Work, PageTypes, win, later, fix, scans, picks, ends
<1>2. CASE Finish
  <2>1. timers' \subseteq Sources \cup {"reload", "trash"}
    BY <1>2 DEF Finish, Scheduled, PageTypes
  <2> QED BY <1>2, <2>1 DEF Finish, PageTypes, NoSource, win, picks, lists, opened
<1>3. CASE ReloadTimer
  BY <1>3, RefreshFits DEF ReloadTimer, PageTypes, win, fix, scans, picks, lists, opened, ends
<1>4. CASE TrashTimer
  BY <1>4 DEF TrashTimer, PageTypes, work, fix, scans, picks, lists, opened, ends
<1>5. CASE DetectTimer
  BY <1>5, RefreshFits DEF DetectTimer, PageTypes, win, work, fix, lists, opened, ends
<1>6. CASE UNCHANGED vars
  BY <1>6 DEF vars, PageTypes, win, work, later, fix, scans, picks, lists, opened, ends
<1> QED BY <1>1, <1>2, <1>3, <1>4, <1>5, <1>6, TypesUser, TypesResult DEF Next, Timer

\* The window opens with the exam list being read.
LEMMA DeskBegins == Init => DeskInv
<1> SUFFICES ASSUME Init PROVE DeskInv
  OBVIOUS
<1>1. PICK i \in Bridges : /\ i = Idle /\ i.kind = "none" /\ i.stage = "none" /\ i.handle = 0
                           /\ ~i.cancelled /\ ~i.told
  BY IdleFits
<1>2. "load" \in Operations /\ "load" \in Desktop /\ "run" \in Stages /\ "load" \notin Linking
  BY DEF Operations, Desktop, ListOps, Stages, Linking
<1>3. bridge = [i EXCEPT !.kind = "load", !.stage = "run"] /\ deferred = i
  BY <1>1 DEF Init
<1>4. /\ bridge \in Bridges /\ bridge.kind = "load" /\ bridge.stage = "run" /\ bridge.handle = 0
      /\ ~bridge.cancelled /\ ~bridge.told /\ deferred.kind = "none" /\ deferred \in Bridges
  BY <1>1, <1>2, <1>3 DEF Bridges
<1>5. active = "load" /\ heard = "load" /\ dialogs = <<>> /\ refresh = FALSE
  BY DEF Init
<1>6. PageTypes
  <2>1. /\ ops = 0 /\ reload = FALSE /\ trash = FALSE /\ exam = "list" /\ timers = {} /\ stale = FALSE
        /\ source = NoSource /\ paths = NoSource
    BY DEF Init
  <2>2. /\ importing = FALSE /\ closing = FALSE /\ fixing = FALSE /\ listed = "error"
        /\ settings = "current" /\ leases = {} /\ display = 0
    BY DEF Init
  <2>3. 0 \in 0 .. MaxHandles
    OBVIOUS
  <2> QED BY <2>1, <2>2, <2>3 DEF PageTypes
<1>7. WorkInv /\ HeardInv
  BY <1>2, <1>4, <1>5 DEF WorkInv, HeardInv, Deferred
<1>8. StackInv
  BY <1>5 DEF StackInv
<1>9. QuestionInv
  BY <1>4, <1>5, NoDialog DEF QuestionInv
<1>10. FixInv /\ LeaseInv
  <2>1. FixInv
    BY <1>4, <1>5 DEF Init, FixInv, UnderWay
  <2>2. leases = {} /\ display = 0 /\ exam = "list"
    BY DEF Init
  <2>3. leases = {display, bridge.handle} \ {0}
    BY <1>4, <2>2
  <2> QED BY <1>4, <1>5, <2>1, <2>2, <2>3 DEF LeaseInv
<1>11. ListInv /\ WaitInv /\ FormInv
  <2>1. page # "exam" /\ settings = "current" /\ ~reload /\ ~stale /\ ~trash /\ ~importing /\ source = NoSource
    BY DEF Init
  <2>2. ListInv
    BY <2>1 DEF ListInv, OnExamList
  <2>3. WaitInv
    BY <2>1 DEF WaitInv
  <2> QED BY <1>4, <1>5, <2>1, <2>2, <2>3 DEF FormInv
<1> QED BY <1>6, <1>7, <1>8, <1>9, <1>10, <1>11 DEF DeskInv

\* Whatever happens next keeps the parts of the invariant.
LEMMA DeskStep == DeskInv /\ [Next]_vars => DeskInv'
<1> SUFFICES ASSUME DeskInv, [Next]_vars PROVE DeskInv'
  OBVIOUS
<1>1. /\ PageTypes /\ WorkInv /\ HeardInv /\ StackInv /\ QuestionInv
      /\ FixInv /\ LeaseInv /\ ListInv /\ WaitInv /\ FormInv
  BY DEF DeskInv
<1>2. PageTypes' /\ WorkInv'
  BY <1>1, TypesStep, WorkStep
<1>3. HeardInv' /\ StackInv' /\ QuestionInv'
  BY <1>1, HeardStep, StackStep, QuestionStep
<1>4. FixInv' /\ LeaseInv'
  BY <1>1, FixStep, LeaseStep
<1>5. ListInv' /\ WaitInv' /\ FormInv'
  BY <1>1, ListStep, WaitStep, FormStep
<1> QED BY <1>2, <1>3, <1>4, <1>5 DEF DeskInv

\* The invariant holds in every state the window reaches.
LEMMA DeskInvariant == Spec => []DeskInv
BY DeskBegins, DeskStep, PTL DEF Spec
\* The detail page is locked while a fix of a student's id is under way, and only then, except
\* for a fix that begins when the one before it ends (FixLocks).
THEOREM LockFollowsFix == Spec => []FixLocks
<1>1. DeskInv => FixLocks
  <2> SUFFICES ASSUME DeskInv PROVE FixLocks
    OBVIOUS
  <2>1. WorkInv /\ FixInv
    BY DEF DeskInv
  <2>2. bridge.kind = "fix" /\ bridge.stage # "over" => UnderWay("fix")
    BY <2>1 DEF WorkInv, UnderWay, Bridges, Stages
  <2> QED BY <2>1, <2>2 DEF FixInv, FixLocks, InFlight
<1> QED BY <1>1, DeskInvariant, PTL

\* Every open detail is on the page or on its way there: none stays open that no page will let
\* go, unless closing one failed or a known slip has happened (NoLeak).
THEOREM NoDetailLeft == Spec => []NoLeak
<1>1. DeskInv => NoLeak
  BY DEF DeskInv, LeaseInv, NoLeak
<1> QED BY <1>1, DeskInvariant, PTL

\* At rest no bridge is left, and nothing is read again later.
LEMMA AtRest ==
  ASSUME DeskInv, Quiet
  PROVE  /\ ~closing /\ bridge.kind = "none" /\ bridge.stage = "none" /\ active \in {"none", "form"}
         /\ ~Coming /\ ~Promised /\ ~reload /\ ~trash /\ ~stale /\ ~fixing
         /\ \A s : ~HasQuestion(s)
<1>1. ~closing /\ bridge.kind = "none" /\ ~Deferred /\ timers = {} /\ dialogs = <<>> /\ deferred.kind = "none"
  BY DEF Quiet, Deferred
<1>2. bridge.stage = "none" /\ active \in {"none", "form"}
  BY <1>1 DEF DeskInv, WorkInv
<1>3. ~reload /\ ~trash /\ ~stale
  BY <1>1 DEF DeskInv, WaitInv
<1>4. ~Coming /\ ~Promised
  BY <1>1, <1>2, <1>3 DEF Coming, Promised
<1>5. ~fixing
  BY <1>1 DEF DeskInv, FixInv, InFlight
<1> QED BY <1>1, <1>2, <1>3, <1>4, <1>5, NoDialog

\* At rest the exam list in view is the one on disk, unless it could not be read or a known
\* slip has happened (ListCurrent).
THEOREM ListIsCurrent == Spec => []ListCurrent
<1>1. DeskInv => ListCurrent
  <2> SUFFICES ASSUME DeskInv PROVE ListCurrent
    OBVIOUS
  <2>1. ASSUME Quiet, page = "exam", exam = "list", ~Slipped({"fix", "confirm", "unread"})
        PROVE  listed \in {"current", "error"}
    <3>1. ~closing /\ ~Coming /\ ~Promised /\ active \in {"none", "form"}
      BY <2>1, AtRest
    <3>2. ReadAgain
      BY <2>1, <3>1 DEF DeskInv, ListInv, OnExamList
    <3>3. listed # "old"
      BY <3>1, <3>2 DEF ReadAgain
    <3> QED BY <3>3 DEF DeskInv, PageTypes
  <2> QED BY <2>1 DEF ListCurrent
<1> QED BY <1>1, DeskInvariant, PTL

\* At rest the settings page shows those on disk or was told that its save failed, unless the
\* settings an import brought could not be read or a known slip has happened (SettingsShown).
THEOREM SettingsAreShown == Spec => []SettingsShown
<1>1. DeskInv => SettingsShown
  <2> SUFFICES ASSUME DeskInv, Quiet, settings = "old" PROVE Slipped({"confirm", "unloaded"})
    BY DEF SettingsShown, DeskInv, PageTypes
  <2>1. ~closing /\ bridge.kind = "none"
    BY AtRest
  <2> QED BY <2>1 DEF DeskInv, ListInv
<1> QED BY <1>1, DeskInvariant, PTL

\* At rest both pages show what is on disk or were told why not (ShownCurrent).
THEOREM ShownIsCurrent == Spec => []ShownCurrent
  BY ListIsCurrent, SettingsAreShown, PTL DEF ShownCurrent

\* At rest nothing put off is left undone, the form shown is that of the scans picked, and the
\* page says it imports a profile only while one is imported (NothingForgotten).
THEOREM NothingIsForgotten == Spec => []NothingForgotten
<1>1. DeskInv => NothingForgotten
  <2> SUFFICES ASSUME DeskInv PROVE NothingForgotten
    OBVIOUS
  <2>1. ASSUME Quiet, source # NoSource
        PROVE  form \in {source, "failed"} \/ Slipped({"confirm"})
    <3>1. /\ ~closing /\ ~stale /\ source \notin timers /\ deferred.kind = "none"
          /\ bridge.stage = "none" /\ \A s : ~HasQuestion(s)
      BY <2>1, AtRest DEF Quiet, Deferred
    <3>2. ~Detecting
      BY <3>1 DEF DeskInv, FormInv, Detecting
    <3> QED BY <2>1, <3>1, <3>2 DEF DeskInv, FormInv, Detected
  <2>2. Quiet => ~reload /\ ~trash /\ ~stale /\ ~fixing
    BY AtRest
  <2>3. importing => closing \/ InFlight("profile") \/ Slipped({"import", "confirm"})
    BY DEF DeskInv, WaitInv, UnderWay, InFlight
  <2> QED BY <2>1, <2>2, <2>3 DEF NothingForgotten
<1> QED BY <1>1, DeskInvariant, PTL

=============================================================================
