----------------------------- MODULE ScoreBook -----------------------------
(***************************************************************************)
(* The books of one exam: the score book (workbooks/score_book.py), the    *)
(* response sheet in it and before grading (response_book.py), and what    *)
(* the import of such a sheet makes of it (response_import.py,             *)
(* grading_runtime.py).                                                    *)
(*                                                                         *)
(* An exam has the sheets 1 .. n in the order they were read, and          *)
(*   origin, graded, key, answers, ids  as in ExamHistory,                 *)
(*   fixes   the IDs a teacher fixed, by sheet,                            *)
(*   roster  the rows [id, name] of the list of students.                  *)
(* IDs and names are numbers, in the order in which they are sorted; 0 is  *)
(* no ID and no name.  Points are counted in halves.                       *)
(***************************************************************************)
EXTENDS Grading, Sequences, SequencesExt

CONSTANTS
  Questions,    (* questions a record has                                  *)
  Short,        (* IDs with fewer than eight digits                        *)
  FormulaLike,  (* names a spreadsheet would take for a formula            *)
  Unregistered, (* the name a scan writes into its response book           *)
  GroupSize,    (* scored students needed to compare the best and the worst*)
  None

ASSUME BookAssumption ==
  /\ Questions \in Nat \ {0} /\ GroupSize \in Nat \ {0, 1}
  /\ Short \subseteq Nat \ {0} /\ FormulaLike \subseteq Nat \ {0} /\ Unregistered \in Nat \ {0}

NoId   == 0
NoName == 0

Asked(key) == {q \in 1 .. Questions : key[q].status # "unasked"}

Highest(S) == CHOOSE n \in S : \A m \in S : m <= n

SumOver(S, Value(_)) == MapThenSumSet(Value, S)

-----------------------------------------------------------------------------
(***************************************************************************)
(* Students                                                                *)
(***************************************************************************)
\* Only an ID of eight digits is one a list of students can have.
RosterEntry(id, name) == [id |-> IF id \in Short THEN NoId ELSE id, name |-> name]

RosterRead(rows) == [i \in DOMAIN rows |-> RosterEntry(rows[i].id, rows[i].name)]

\* Of several rows with one ID the last one counts.
Named(roster, id) ==
  LET rows == {i \in DOMAIN roster : roster[i].id = id}
  IN IF id = NoId \/ rows = {} THEN NoName ELSE roster[Highest(rows)].name

ShownIds(exam) == WithFixes(exam.ids, exam.fixes)

\* Blank unless it was read cleanly.
ShownId(response) == IF response.status \in ValidId THEN response.id ELSE NoId

IdOf(exam, s)   == ShownId(ShownIds(exam)[s])
NameOf(exam, s) == Named(exam.roster, IdOf(exam, s))

\* By name, then by ID, nameless and illegible ones last.
ListedBefore(a, b, name, id) ==
  \/ name[a] # NoName /\ name[b] = NoName
  \/ name[a] # NoName /\ name[b] # NoName /\ name[a] < name[b]
  \/ name[a] = name[b] /\ id[a] # NoId /\ id[b] = NoId
  \/ name[a] = name[b] /\ id[a] # NoId /\ id[b] # NoId /\ id[a] < id[b]
  \/ name[a] = name[b] /\ id[a] = id[b] /\ a < b

\* The row of each sheet, which is its serial number.
StudentOrder(exam) ==
  LET name == [s \in DOMAIN exam.ids |-> NameOf(exam, s)]
      id   == [s \in DOMAIN exam.ids |-> IdOf(exam, s)]
  IN [s \in DOMAIN exam.ids |->
        1 + Cardinality({t \in DOMAIN exam.ids : ListedBefore(t, s, name, id)})]

\* The sheet of each row.
Listed(exam) ==
  LET order == StudentOrder(exam)
  IN [row \in DOMAIN exam.ids |-> CHOOSE s \in DOMAIN exam.ids : order[s] = row]

-----------------------------------------------------------------------------
(***************************************************************************)
(* The score book                                                          *)
(***************************************************************************)
OnSheets(answers) ==
  {q \in 1 .. Questions : \E s \in DOMAIN answers : answers[s][q].status # "unasked"}

\* Up to the last question any sheet prints.
QuestionCount(answers) == IF OnSheets(answers) = {} THEN Questions ELSE Highest(OnSheets(answers))

\* Up to the last question the key asks.
BookQuestionCount(exam) ==
  IF Asked(exam.key) = {} THEN QuestionCount(exam.answers) ELSE Highest(Asked(exam.key))

Scores(exam) == ScoreSet(exam.answers, exam.key)

ScoreRow(exam, s) ==
  LET outcomes == Outcomes(exam.answers[s], exam.key)
      mine     == Scores(exam)[s]
  IN [id       |-> IdOf(exam, s),
      name     |-> NameOf(exam, s),
      total    |-> mine.score,
      rank     |-> mine.rank,
      chosen   |-> [q \in 1 .. BookQuestionCount(exam) |-> exam.answers[s][q].choices],
      outcomes |-> [q \in 1 .. BookQuestionCount(exam) |-> outcomes[q]],
      notes    |-> {n \in {"same_id", "review", "fixed"} :
                      \/ n = "same_id" /\ \E t \in DOMAIN exam.ids \ {s} :
                           IdOf(exam, s) # NoId /\ IdOf(exam, t) = IdOf(exam, s)
                      \/ n = "review" /\ \E q \in 1 .. Questions : outcomes[q] = "review"
                      \/ n = "fixed" /\ s \in DOMAIN exam.fixes}]

\* The best and the worst 27 percent of those with a score, when there are enough.
Compared(exam) ==
  LET scores == Scores(exam)
      order  == StudentOrder(exam)
      scored == {s \in DOMAIN exam.ids : scores[s].score # NoScore}
      place  == [s \in scored |-> 1 + Cardinality({t \in scored :
                   \/ scores[t].score > scores[s].score
                   \/ scores[t].score = scores[s].score /\ order[t] < order[s]})]
      size   == (27 * Cardinality(scored) + 50) \div 100
  IN IF Cardinality(scored) < GroupSize THEN [upper |-> {}, lower |-> {}]
     ELSE [upper |-> {s \in scored : place[s] <= size},
           lower |-> {s \in scored : place[s] > Cardinality(scored) - size}]

\* One row of the item analysis; a share is a count of all `heads`.
ItemRow(exam, q, compared) ==
  LET outcome == [s \in DOMAIN exam.ids |-> Outcome(exam.answers[s][q], exam.key[q])]
      counted == {s \in DOMAIN exam.ids : outcome[s] # "review"}
      chosen(s) == exam.answers[s][q].choices
      Right(group) == Cardinality({s \in group : outcome[s] = "correct"})
  IN [heads    |-> Cardinality(counted),
      correct  |-> Right(counted),
      only     |-> [c \in UNION {chosen(s) : s \in counted} |->
                      Cardinality({s \in counted : chosen(s) = {c}})],
      blank    |-> Cardinality({s \in counted : chosen(s) = {}}),
      several  |-> Cardinality({s \in counted : Cardinality(chosen(s)) > 1 /\ outcome[s] # "correct"}),
      review   |-> Cardinality(DOMAIN exam.ids \ counted),
      upper    |-> Right(compared.upper),
      lower    |-> Right(compared.lower)]

ItemAnalysis(exam) == [q \in Asked(exam.key) |-> ItemRow(exam, q, Compared(exam))]

-----------------------------------------------------------------------------
(***************************************************************************)
(* Response sheets                                                         *)
(***************************************************************************)
\* Names get a leading apostrophe where a spreadsheet would compute them; it sorts first.
Escaped(name) == IF name \in FormulaLike THEN -name ELSE name

ReviewNote(answers, questions) == \E q \in 1 .. questions : answers[q].status = "uncertain"

Cells(answers, questions) == [q \in 1 .. questions |-> answers[q].choices]

SheetRow(id, name, answers, questions, notes) ==
  [id |-> id, name |-> Escaped(name), cells |-> Cells(answers, questions),
   pending |-> ReviewNote(answers, questions), notes |-> notes]

\* What a scan leaves: a row per page, whoever the list of students says it is.
ScannedSheet(exam) ==
  LET questions == QuestionCount(exam.answers)
  IN [questions |-> questions,
      rows |-> [s \in DOMAIN exam.ids |->
        SheetRow(ShownId(exam.ids[s]), Unregistered, exam.answers[s], questions,
                 IF exam.ids[s].status \in ValidId THEN {} ELSE {"check_id"})]]

\* Effective responses, in the order given by `sheets`.
EffectiveSheet(exam, questions, sheets) ==
  [questions |-> questions,
   rows |-> [row \in DOMAIN sheets |->
     SheetRow(IdOf(exam, sheets[row]), NameOf(exam, sheets[row]), exam.answers[sheets[row]], questions,
              {n \in {"check_id", "fixed"} :
                 \/ n = "check_id" /\ IdOf(exam, sheets[row]) = NoId
                 \/ n = "fixed" /\ sheets[row] \in DOMAIN exam.fixes})]]

\* After an ID was fixed in an exam without a score book: the sheets as they were read.
FixedSheet(exam) ==
  EffectiveSheet(exam, QuestionCount(exam.answers), [s \in DOMAIN exam.ids |-> s])

\* The book in the exam's folder that can start an exam: after grading it is a sheet of
\* the score book; an imported exam has one once an ID was fixed.
ResponseSheet(exam) ==
  IF exam.graded THEN EffectiveSheet(exam, BookQuestionCount(exam), Listed(exam))
  ELSE IF DOMAIN exam.fixes # {} THEN FixedSheet(exam)
  ELSE IF exam.origin = "scan" THEN ScannedSheet(exam)
  ELSE None

-----------------------------------------------------------------------------
(***************************************************************************)
(* The import of a response sheet                                          *)
(***************************************************************************)
\* A teacher looked at the yellow cells, left them as they are and removed the notes.
Checked(sheet) == [sheet EXCEPT !.rows = [r \in DOMAIN sheet.rows |-> [sheet.rows[r] EXCEPT !.pending = FALSE]]]

ImportedAnswer(choices) ==
  Answer(CASE choices = {} -> "blank"
           [] Cardinality(choices) = 1 -> "normal"
           [] Cardinality(choices) > 1 -> "multiple", choices)

\* Mutant of Importable: what waits for a check is taken as it is.
ImportableUnchecked(sheet) == Len(sheet.rows) > 0

\* Guesses that nobody confirmed are not imported.
Importable(sheet) == Len(sheet.rows) > 0 /\ \A r \in DOMAIN sheet.rows : ~sheet.rows[r].pending

ImportedAnswers(sheet) ==
  [r \in DOMAIN sheet.rows |-> [q \in 1 .. Questions |->
     IF q <= sheet.questions THEN ImportedAnswer(sheet.rows[r].cells[q]) ELSE Answer("unasked", {})]]

ImportedIds(sheet) ==
  [r \in DOMAIN sheet.rows |->
     [id |-> sheet.rows[r].id, status |-> IF sheet.rows[r].id = NoId THEN "invalid" ELSE "normal"]]

ImportedRoster(sheet) ==
  [r \in DOMAIN sheet.rows |-> RosterEntry(sheet.rows[r].id, sheet.rows[r].name)]

UnsetKey == [q \in 1 .. Questions |-> [status |-> "unasked", choices |-> {}, points |-> 0]]

ImportedExam(sheet) ==
  [origin |-> "import", graded |-> FALSE, key |-> UnsetKey,
   answers |-> ImportedAnswers(sheet), ids |-> ImportedIds(sheet),
   fixes |-> <<>>, roster |-> ImportedRoster(sheet)]
-----------------------------------------------------------------------------
(***************************************************************************)
(* Answer keys as workbooks                                                *)
(***************************************************************************)
\* Rows [question, kind, digits, points]; a cell is empty, means everyone, or holds the
\* digits of the choices, in any order.
KeyCell(kind, digits) == [kind |-> kind, digits |-> digits]

Digits(choices) == SetToSortSeq(choices, LAMBDA a, b : a < b)

KeyRow(entry, q) ==
  [question |-> q, points |-> entry.points,
   cell |-> CASE entry.status = "unasked" -> KeyCell("empty", <<>>)
              [] entry.status = "all" -> KeyCell("everyone", <<>>)
              [] entry.status = "asked" -> KeyCell("digits", Digits(entry.choices))]

KeyFile(key) == [q \in 1 .. Questions |-> KeyRow(key[q], q)]

\* In the score book several choices are joined by commas, which an import does not read.
BookCell(cell) == IF Len(cell.digits) > 1 THEN [cell EXCEPT !.kind = "commas"] ELSE cell

BookKeyFile(exam) ==
  [q \in 1 .. BookQuestionCount(exam) |-> [KeyRow(exam.key[q], q) EXCEPT !.cell = BookCell(@)]]

KeyCellRead(cell) ==
  \/ cell.kind \in {"empty", "everyone"}
  \/ /\ cell.kind = "digits"
     /\ Range(cell.digits) \subseteq 1 .. 5
     /\ Cardinality(Range(cell.digits)) = Len(cell.digits)

\* Points may be missing where nothing is asked, and only there be missing.
KeyRowRead(row) ==
  /\ row.question \in 1 .. Questions
  /\ KeyCellRead(row.cell)
  /\ row.points \in Nat \/ (row.cell.kind = "empty" /\ row.points = None)
  /\ row.cell.kind = "empty" => row.points \in {None, 0}

KeyReadable(file) ==
  /\ \A i \in DOMAIN file : KeyRowRead(file[i])
  /\ \A i, j \in DOMAIN file : i # j => file[i].question # file[j].question

KeyEntry(row) ==
  CASE row.cell.kind = "empty" -> [status |-> "unasked", choices |-> {}, points |-> 0]
    [] row.cell.kind = "everyone" -> [status |-> "all", choices |-> {}, points |-> row.points]
    [] row.cell.kind = "digits" -> [status |-> "asked", choices |-> Range(row.cell.digits), points |-> row.points]

\* Questions without a row are not asked.
ImportedKey(file) ==
  [q \in 1 .. Questions |->
     IF \E i \in DOMAIN file : file[i].question = q
     THEN KeyEntry(file[CHOOSE i \in DOMAIN file : file[i].question = q])
     ELSE UnsetKey[q]]
=============================================================================
