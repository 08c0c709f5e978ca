----------------------------- MODULE MCExamLife -----------------------------
(***************************************************************************)
(* An exam's folder, which comes, goes and comes back, and the exam's      *)
(* content, which is graded and corrected: two things in one run.  `topic` *)
(* says which; the variables of the other rest.                            *)
(***************************************************************************)
EXTENDS ExamHistory, SessionBirth, TLC

VARIABLE topic

-----------------------------------------------------------------------------
(* Content: two sheets, two questions; s2 has no legible ID. *)

One == Answer("normal", {1})
Two == Answer("normal", {2})

Entry(status, choices, points) == [status |-> status, choices |-> choices, points |-> points]

\* A fix can give s2 the ID of s1, and back to s1 its own.
MCIds == "s1" :> [id |-> "A", status |-> "normal"] @@ "s2" :> [id |-> "?", status |-> "unreadable"]

BothAsked == "q1" :> Entry("asked", {1}, 2) @@ "q2" :> Entry("all", {}, 1)
FirstOnly == "q1" :> Entry("asked", {2}, 1) @@ "q2" :> Entry("unasked", {}, 0)
MCKeys    == {BothAsked, FirstOnly}

\* The second question is uncertain on a sheet, or not printed on it.
Read(second) ==
  [ids     |-> MCIds,
   answers |-> "s1" :> ("q1" :> One @@ "q2" :> second) @@ "s2" :> ("q1" :> Two @@ "q2" :> One),
   key     |-> BothAsked]

MCReads   == [o \in Origins |-> Read(Answer(IF o = "import" THEN "unasked" ELSE "uncertain", {}))]
MCChanged == {One}

-----------------------------------------------------------------------------
NoHistory == hist = <<CHOOSE first \in First : TRUE>> /\ user = [u \in Users |-> Idle]

NoBirths == BirthInit /\ archive = Absent

LifeInit ==
  \/ topic = "folder" /\ BirthInit /\ NoHistory
  \/ topic = "content" /\ Init /\ NoBirths

LifeNext ==
  /\ UNCHANGED topic
  /\ \/ topic = "folder" /\ BirthNext /\ UNCHANGED vars
     \/ topic = "content" /\ Next /\ UNCHANGED births

LifeSpec == LifeInit /\ [][LifeNext]_<<topic, births, vars>>

\* Programs are interchangeable.
Symmetry == Permutations(Users) \union Permutations(Proc)
=============================================================================
