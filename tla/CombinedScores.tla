--------------------------- MODULE CombinedScores ---------------------------
(***************************************************************************)
(* Exams in a folder, graded, with IDs fixed, imported from the books of   *)
(* others, and the two tables made over several of them: the combined      *)
(* report (workbooks/combined_score_book.py, subject_config.py,            *)
(* infrastructure/combined_report.py) and the older combined table         *)
(* (workbooks/combined_book.py).                                           *)
(*                                                                         *)
(* A percentage is counted in thousandths of a percent.                    *)
(***************************************************************************)
EXTENDS ScoreBook

CONSTANTS
  Folders,      (* where exams are                                         *)
  FirstExams,   (* what the folders may hold at first                      *)
  KeyFiles,     (* answer key workbooks                                    *)
  Configs,      (* subject configuration workbooks                         *)
  NewIds,       (* IDs a teacher may enter                                 *)
  MaxParts,     (* parts a configuration may name                          *)
  MaxSteps      (* bound on what the user does                             *)

ASSUME CombinedAssumption == MaxParts \in Nat \ {0} /\ MaxSteps \in Nat /\ NewIds \cap Short = {}

VARIABLES
  exams,    \* by folder, the exam there or None
  steps,    \* how much the user has done
  report,   \* the file of the last combined report, or None
  told      \* what the user was told of the last one

combined == <<exams, steps, report, told>>

-----------------------------------------------------------------------------
(***************************************************************************)
(* The parts of a report                                                   *)
(***************************************************************************)
\* One graded sheet; held back where an answer still waits for a check.
PartStudent(exam, s) ==
  LET outcome == Outcomes(exam.answers[s], exam.key)
      earned  == [q \in Asked(exam.key) |-> IF outcome[q] = "correct" THEN exam.key[q].points ELSE 0]
      held    == \E q \in 1 .. Questions : outcome[q] = "review"
  IN [sheet |-> s,
      id    |-> IdOf(exam, s),
      name  |-> NameOf(exam, s),
      held  |-> held,
      total |-> IF held THEN NoScore ELSE SumOver(DOMAIN earned, LAMBDA q : earned[q]),
      earned |-> earned,
      order |-> StudentOrder(exam)[s]]

LoadPart(exam) ==
  [points |-> [q \in Asked(exam.key) |-> exam.key[q].points],
   rows   |-> [s \in DOMAIN exam.ids |-> PartStudent(exam, s)]]

\* The most a set of asked questions is worth.
Worth(part, questions) == SumOver(questions \cap DOMAIN part.points, LAMBDA q : part.points[q])

PartMaximum(part) == Worth(part, DOMAIN part.points)

-----------------------------------------------------------------------------
(***************************************************************************)
(* The subject configuration: rows [name, part, first, last] and criteria  *)
(* [item, kind, number].                                                   *)
(***************************************************************************)
RangeRead(row) ==
  /\ row.name \notin {"", "reserved"}
  /\ row.part \in 1 .. MaxParts
  /\ 1 <= row.first /\ row.first <= row.last /\ row.last <= Questions

Overlap(a, b) == a.part = b.part /\ a.first <= b.last /\ b.first <= a.last

\* Mutant of RangesRead: rows are compared with the row above only.
RangesReadPairs(rows) ==
  rows # <<>> /\ \A i \in DOMAIN rows : RangeRead(rows[i]) /\ (i > 1 => ~Overlap(rows[i - 1], rows[i]))

RangesRead(rows) ==
  rows # <<>> /\ \A i \in DOMAIN rows : RangeRead(rows[i]) /\ \A j \in 1 .. i - 1 : ~Overlap(rows[j], rows[i])

\* A number formatted as a percentage is stored as a share, text says "%", and a plain
\* number up to 1 could be either.
Percent(cell) ==
  CASE cell.kind = "formatted" -> cell.number * 100
    [] cell.kind \in {"plain", "text"} -> cell.number

CriterionRead(row) ==
  /\ row.item \in {"total", "per_subject"}
  /\ row.cell.kind \in {"formatted", "plain", "text"}
  /\ row.cell.kind = "plain" => ~(0 < row.cell.number /\ row.cell.number <= 1000)
  /\ Percent(row.cell) \in 0 .. 100000

CriteriaRead(rows) ==
  \A i \in DOMAIN rows : CriterionRead(rows[i]) /\ \A j \in 1 .. i - 1 : rows[j].item # rows[i].item

ConfigRead(config) == RangesRead(config.subjects) /\ CriteriaRead(config.criteria)

SubjectNames(config) == {config.subjects[i].name : i \in DOMAIN config.subjects}

RangesOf(config, name) == {i \in DOMAIN config.subjects : config.subjects[i].name = name}

Criterion(config, item) ==
  IF \E i \in DOMAIN config.criteria : config.criteria[i].item = item
  THEN Percent(config.criteria[CHOOSE i \in DOMAIN config.criteria : config.criteria[i].item = item].cell)
  ELSE None

Judged(config) == config # None /\ config.criteria # <<>>

-----------------------------------------------------------------------------
(***************************************************************************)
(* Subjects and verdicts                                                   *)
(***************************************************************************)
\* What a subject asks of each part.
Scope(config, name, p) ==
  UNION {config.subjects[i].first .. config.subjects[i].last :
           i \in {j \in RangesOf(config, name) : config.subjects[j].part = p}}

SubjectMax(config, name, parts) ==
  SumOver(DOMAIN parts, LAMBDA p : Worth(parts[p], Scope(config, name, p)))

SubjectEarned(config, name, singles) ==
  SumOver(DOMAIN singles, LAMBDA p :
    SumOver(Scope(config, name, p) \cap DOMAIN singles[p].earned, LAMBDA q : singles[p].earned[q]))

\* Points, in halves, that are all whole.
Whole(points) == \A q \in DOMAIN points : points[q] % 2 = 0

WholeSubject(config, name, parts) ==
  \A p \in DOMAIN parts :
    Whole([q \in Scope(config, name, p) \cap DOMAIN parts[p].points |-> parts[p].points[q]])

\* The lowest score that reaches a percentage, in 1/100000 of half a point.
Minimum(maximum, percent, whole) ==
  IF whole THEN 200000 * ((percent * maximum + 199999) \div 200000) ELSE percent * maximum

\* The one comparison every verdict uses.
Reaches(earned, maximum, percent) == earned * 100000 >= percent * maximum

Overall(parts) == SumOver(DOMAIN parts, LAMBDA p : PartMaximum(parts[p]))

Passes(config, parts, singles, total) ==
  /\ Criterion(config, "total") # None =>
       Reaches(total, Overall(parts), Criterion(config, "total"))
  /\ Criterion(config, "per_subject") # None =>
       \A name \in SubjectNames(config) :
         Reaches(SubjectEarned(config, name, singles), SubjectMax(config, name, parts),
                 Criterion(config, "per_subject"))

-----------------------------------------------------------------------------
(***************************************************************************)
(* The combined report                                                     *)
(***************************************************************************)
Holding(part, id) == {s \in DOMAIN part.rows : part.rows[s].id = id}

ReportIds(parts) ==
  UNION {{parts[p].rows[s].id : s \in DOMAIN parts[p].rows} : p \in DOMAIN parts} \ {NoId}

Single(part, id) == CHOOSE s \in Holding(part, id) : TRUE

\* Why a student has no total: of each part exactly one sheet is needed, with a score.
Problems(parts, id) ==
  {<<p, why>> \in (DOMAIN parts) \X {"missing", "same_id", "review"} :
     LET found == Holding(parts[p], id) IN
     \/ why = "missing" /\ found = {}
     \/ why = "same_id" /\ Cardinality(found) > 1
     \/ why = "review" /\ Cardinality(found) = 1 /\ parts[p].rows[Single(parts[p], id)].held}

\* The name of the first part that has one.
StudentName(parts, id) ==
  LET named == {p \in DOMAIN parts : \E s \in Holding(parts[p], id) : parts[p].rows[s].name # NoName}
      first == CHOOSE p \in named : \A o \in named : p <= o
  IN IF named = {} THEN NoName
     ELSE parts[first].rows[CHOOSE s \in Holding(parts[first], id) : parts[first].rows[s].name # NoName].name

Incomplete(parts, id) ==
  [name |-> StudentName(parts, id), problems |-> Problems(parts, id),
   total |-> NoScore, points |-> <<>>, passed |-> None, short |-> {}, totalshort |-> FALSE]

Complete(parts, config, id) ==
  LET singles == [p \in DOMAIN parts |-> parts[p].rows[Single(parts[p], id)]]
      total   == SumOver(DOMAIN singles, LAMBDA p : singles[p].total)
      names   == IF config = None THEN {} ELSE SubjectNames(config)
      Low(name) == /\ Criterion(config, "per_subject") # None
                   /\ ~Reaches(SubjectEarned(config, name, singles), SubjectMax(config, name, parts),
                               Criterion(config, "per_subject"))
  IN [name     |-> StudentName(parts, id),
      problems |-> {},
      total    |-> total,
      points   |-> [name \in names |-> SubjectEarned(config, name, singles)],
      passed   |-> IF Judged(config) THEN Passes(config, parts, singles, total) ELSE None,
      short    |-> {name \in names : Low(name)},
      totalshort |-> /\ config # None /\ Criterion(config, "total") # None
                     /\ ~Reaches(total, Overall(parts), Criterion(config, "total"))]

ReportRow(parts, config, id) ==
  IF Problems(parts, id) = {} THEN Complete(parts, config, id) ELSE Incomplete(parts, id)

Ranked(rows) ==
  [id \in DOMAIN rows |->
     IF rows[id].total = NoScore THEN NoRank
     ELSE 1 + Cardinality({o \in DOMAIN rows : rows[o].total > rows[id].total})]

Unreadable(parts) ==
  UNION {{<<p, parts[p].rows[s].order, parts[p].rows[s].total>> :
            s \in Holding(parts[p], NoId)} : p \in DOMAIN parts}

\* The lines above and below the students.
Minima(parts, config) ==
  [name \in SubjectNames(config) |->
     Minimum(SubjectMax(config, name, parts), Criterion(config, "per_subject"),
             WholeSubject(config, name, parts))]

TotalMinimum(parts, config) ==
  Minimum(Overall(parts), Criterion(config, "total"), \A p \in DOMAIN parts : Whole(parts[p].points))

Passing(rows, parts, config, name) ==
  Cardinality({id \in DOMAIN rows : rows[id].problems = {} /\
    Reaches(rows[id].points[name], SubjectMax(config, name, parts), Criterion(config, "per_subject"))})

Counts(parts) ==
  LET rows == [id \in ReportIds(parts) |-> ReportRow(parts, None, id)]
      complete == {id \in DOMAIN rows : rows[id].problems = {}}
  IN [students |-> Cardinality(DOMAIN rows), complete |-> Cardinality(complete),
      review   |-> Cardinality(DOMAIN rows \ complete), unreadable |-> Cardinality(Unreadable(parts))]

\* What is written, and what it was made of.
Report(of, config) ==
  LET parts == [p \in DOMAIN of |-> LoadPart(of[p])]
      rows  == [id \in ReportIds(parts) |-> ReportRow(parts, config, id)]
  IN [of |-> of, config |-> config, rows |-> rows, ranks |-> Ranked(rows),
      unreadable |-> Unreadable(parts),
      minima     |-> IF config # None /\ Criterion(config, "per_subject") # None
                     THEN Minima(parts, config) ELSE <<>>,
      totalmin   |-> IF config # None /\ Criterion(config, "total") # None
                     THEN TotalMinimum(parts, config) ELSE None,
      passing    |-> IF config # None /\ Criterion(config, "per_subject") # None
                     THEN [name \in SubjectNames(config) |-> Passing(rows, parts, config, name)] ELSE <<>>]

-----------------------------------------------------------------------------
(***************************************************************************)
(* The older combined table, of the IDs as they were read                  *)
(***************************************************************************)
ReadBy(exam, id) == {s \in DOMAIN exam.ids : ShownId(exam.ids[s]) = id}

TableIds(of) ==
  UNION {{of[p].roster[i].id : i \in DOMAIN of[p].roster} \union
         {ShownId(of[p].ids[s]) : s \in DOMAIN of[p].ids} : p \in DOMAIN of} \ {NoId}

\* One exam of one student; of a sheet without score the maximum only.
TableCell(exam, id) ==
  LET found == ReadBy(exam, id)
      same  == Cardinality(found) > 1 \/ \E s \in found : exam.ids[s].status = "duplicate"
      Cell(status, score, maximum) == [status |-> status, score |-> score, maximum |-> maximum]
  IN CASE same -> Cell("same_id", NoScore, 0)
       [] ~same /\ found = {} -> Cell("absent", NoScore, 0)
       [] ~same /\ found # {} /\ ~exam.graded -> Cell("ungraded", NoScore, 0)
       [] ~same /\ found # {} /\ exam.graded ->
            LET score == Scores(exam)[CHOOSE s \in found : TRUE].score
            IN Cell(IF score = NoScore THEN "review" ELSE "taken", score, Maximum(exam.key))

TableRow(of, id) ==
  LET cells == [p \in DOMAIN of |-> TableCell(of[p], id)]
      taken == {p \in DOMAIN of : cells[p].status = "taken"}
  IN [cells |-> cells, attended |-> Cardinality(taken),
      sum |-> SumOver(taken, LAMBDA p : cells[p].score),
      maximum |-> SumOver(taken, LAMBDA p : cells[p].maximum)]

CombinedTable(of) == [id \in TableIds(of) |-> TableRow(of, id)]

\* What the table asks a person to look at, beside IDs and scores.
TableReview(exam) ==
  LET rostered == {exam.roster[i].id : i \in DOMAIN exam.roster} \ {NoId}
  IN {<<"roster_id", i>> : i \in {j \in DOMAIN exam.roster : exam.roster[j].id = NoId}}
     \union {<<"roster_twice", i>> : i \in {j \in DOMAIN exam.roster :
               exam.roster[j].id # NoId /\ \E k \in DOMAIN exam.roster \ {j} : exam.roster[k].id = exam.roster[j].id}}
     \union {<<"unread", s>> : s \in ReadBy(exam, NoId)}
     \union {<<"not_listed", s>> : s \in {t \in DOMAIN exam.ids :
               /\ ShownId(exam.ids[t]) \notin rostered \union {NoId}
               /\ TableCell(exam, ShownId(exam.ids[t])).status # "same_id"}}

-----------------------------------------------------------------------------
(***************************************************************************)
(* The steps                                                               *)
(***************************************************************************)
CombinedInit ==
  /\ exams \in FirstExams
  /\ steps = 0 /\ report = None /\ told = None

Step == steps < MaxSteps /\ steps' = steps + 1

Change(e, exam) ==
  /\ exams' = [exams EXCEPT ![e] = exam]
  /\ UNCHANGED <<report, told>>

\* A key that asks what the sheets do not print is refused.
Grade(e, file) ==
  /\ Step /\ exams[e] # None /\ KeyReadable(file)
  /\ AskedOffForm(ImportedKey(file), Printed(exams[e].answers, 1 .. Questions)) = {}
  /\ Change(e, [exams[e] EXCEPT !.key = ImportedKey(file), !.graded = TRUE])

\* The ID of a sheet is fixed, or given back as it was read; what is so already is refused.
FixId(e, s, id) ==
  LET read == exams[e].ids[s].id
      back == id \in {NoId, read}
  IN /\ Step
     /\ IF back THEN s \in DOMAIN exams[e].fixes
        ELSE s \in DOMAIN exams[e].fixes => exams[e].fixes[s] # id
     /\ Change(e, [exams[e] EXCEPT !.fixes =
          IF back THEN Restrict(@, DOMAIN @ \ {s}) ELSE (s :> id) @@ @])

\* An exam is started from the response sheet of another.
Import(e, f, checked) ==
  /\ Step
  /\ exams[e] # None /\ exams[f] = None /\ ResponseSheet(exams[e]) # None
  /\ LET sheet == IF checked THEN Checked(ResponseSheet(exams[e])) ELSE ResponseSheet(exams[e])
     IN Importable(sheet) /\ Change(f, ImportedExam(sheet))

Exportable(chosen, config) ==
  /\ config # None => /\ ConfigRead(config)
                      /\ \A i \in DOMAIN config.subjects : config.subjects[i].part <= Len(chosen)
  /\ \A p \in DOMAIN chosen : exams[chosen[p]] # None /\ exams[chosen[p]].graded

\* The file is replaced as a whole or not at all.
Export(chosen, config) ==
  /\ Step /\ Exportable(chosen, config)
  /\ report' = Report([p \in DOMAIN chosen |-> exams[chosen[p]]], config)
  /\ told' = Counts([p \in DOMAIN chosen |-> LoadPart(exams[chosen[p]])])
  /\ UNCHANGED exams

\* What cannot be read, combined or written leaves the file as it was.
ExportFails ==
  /\ Step
  /\ told' = None
  /\ UNCHANGED <<exams, report>>

Selections == {c \in [1 .. 2 -> Folders] : c[1] # c[2]}

CombinedNext ==
  \/ \E e \in Folders, file \in KeyFiles : Grade(e, file)
  \/ \E e \in {f \in Folders : exams[f] # None}, id \in NewIds \union {NoId} :
       \E s \in DOMAIN exams[e].ids : FixId(e, s, id)
  \/ \E e, f \in Folders, checked \in BOOLEAN : Import(e, f, checked)
  \/ \E chosen \in Selections, config \in Configs \union {None} : Export(chosen, config)
  \/ ExportFails
-----------------------------------------------------------------------------
(***************************************************************************)
(* Correctness                                                             *)
(***************************************************************************)
\* Every sheet of every part is in one place: in the row of its student or on the list
\* of the illegible ones, under a number of its own.
EverySheetOnce(r) ==
  /\ \A p \in DOMAIN r.of : \A s \in DOMAIN r.of[p].ids :
       IdOf(r.of[p], s) # NoId => IdOf(r.of[p], s) \in DOMAIN r.rows
  /\ Cardinality(r.unreadable) =
       SumOver(DOMAIN r.of, LAMBDA p : Cardinality({s \in DOMAIN r.of[p].ids : IdOf(r.of[p], s) = NoId}))

\* A total is that of one sheet per part, and the subjects share it out.
TotalsAddUp(r) ==
  \A id \in {i \in DOMAIN r.rows : r.rows[i].problems = {}} :
    LET sheets == [p \in DOMAIN r.of |-> {s \in DOMAIN r.of[p].ids : IdOf(r.of[p], s) = id}]
        scores == [p \in DOMAIN r.of |-> [s \in sheets[p] |-> Scores(r.of[p])[s].score]]
        points == SumOver(DOMAIN r.rows[id].points, LAMBDA name : r.rows[id].points[name])
        Covered(p) == Asked(r.of[p].key) \subseteq
                        UNION {Scope(r.config, name, p) : name \in SubjectNames(r.config)}
    IN /\ \A p \in DOMAIN r.of : Cardinality(sheets[p]) = 1
       /\ r.rows[id].total = SumOver(DOMAIN r.of, LAMBDA p : SumOver(sheets[p], LAMBDA s : scores[p][s]))
       /\ r.config # None => /\ points <= r.rows[id].total
                             /\ (\A p \in DOMAIN r.of : Covered(p)) => points = r.rows[id].total

\* The verdict, the subjects it names as missed and the minimum scores printed above them
\* say the same.
VerdictsHold(r) ==
  \A id \in {i \in DOMAIN r.rows : r.rows[i].passed # None} :
    LET row == r.rows[id]
        Under(name) == row.points[name] * 100000 < r.minima[name]
    IN /\ row.passed <=> row.short = {} /\ ~row.totalshort
       /\ row.short = {name \in DOMAIN r.minima : Under(name)}
       /\ row.totalshort <=> (r.totalmin # None /\ row.total * 100000 < r.totalmin)

\* Without fixed IDs the older table has the same students with the same sums, and asks
\* for the same illegible sheets.
TableHasIt(r) ==
  (\A p \in DOMAIN r.of : DOMAIN r.of[p].fixes = {}) =>
    /\ \A id \in DOMAIN r.rows :
         LET row == CombinedTable(r.of)[id] IN
         /\ r.rows[id].problems = {} <=> row.attended = Len(r.of)
         /\ r.rows[id].problems = {} => row.sum = r.rows[id].total
    /\ Cardinality(r.unreadable) =
         SumOver(DOMAIN r.of, LAMBDA p : Cardinality({m \in TableReview(r.of[p]) : m[1] = "unread"}))

\* What the combined report says of one student is the same wherever it says it: every
\* sheet is counted once, totals are those of the exams, a verdict agrees with the scores
\* and the minimum scores printed beside it, and the user is told how many there are
\* ("The one comparison every verdict uses", combined_score_book.py).
VerdictsAgree ==
  report # None =>
    /\ EverySheetOnce(report) /\ TotalsAddUp(report) /\ VerdictsHold(report) /\ TableHasIt(report)
    /\ \A name \in DOMAIN report.passing :
         report.passing[name] =
           Cardinality({id \in DOMAIN report.rows : report.rows[id].problems = {} /\ name \notin report.rows[id].short})
    /\ told # None =>
         /\ told.students = Cardinality(DOMAIN report.rows)
         /\ told.complete = Cardinality({id \in DOMAIN report.rows : report.rows[id].total # NoScore})
         /\ told.unreadable = Cardinality(report.unreadable)

\* The sheet of the exam that a row of its response sheet is of.
SheetOfRow(exam, r) == IF exam.graded THEN Listed(exam)[r] ELSE r

\* The tabs of a score book: the scores, the item analysis, the key and the responses.
TabsAgree(exam) ==
  LET rows  == [r \in DOMAIN exam.ids |-> ScoreRow(exam, Listed(exam)[r])]
      items == ItemAnalysis(exam)
      sheet == ResponseSheet(exam)
      key   == BookKeyFile(exam)
  IN /\ \A r \in DOMAIN rows : rows[r].id = sheet.rows[r].id /\ rows[r].chosen = sheet.rows[r].cells
     /\ \A q \in DOMAIN items :
          /\ items[q].heads + items[q].review = Cardinality(DOMAIN rows)
          /\ items[q].correct = Cardinality({r \in DOMAIN rows : rows[r].outcomes[q] = "correct"})
     /\ (\A q \in DOMAIN items : items[q].review = 0) =>
          SumOver(DOMAIN rows, LAMBDA r : rows[r].total) =
            SumOver(DOMAIN items, LAMBDA q : items[q].correct * exam.key[q].points)
     /\ KeyReadable(key) <=> \A q \in Asked(exam.key) : Cardinality(exam.key[q].choices) <= 1
     /\ KeyReadable(key) => ImportedKey(key) = exam.key

OrdinaryNames(exam) ==
  /\ \A i \in DOMAIN exam.roster : exam.roster[i].name \notin FormulaLike
  /\ \A s \in DOMAIN exam.ids : IdOf(exam, s) \notin Short

\* A response sheet the program wrote can be imported unless an answer on it waits for a
\* check, and then an exam of the same students, answers and, graded with the same key,
\* scores, ranks and numbers comes of it; a key it wrote is read back as it was, and the
\* tabs of a score book agree
\* ("so this one book can also start a new exam", score_book.py).
BookReturns ==
  \A e \in {f \in Folders : exams[f] # None} :
    LET exam == exams[e]
        sheet == ResponseSheet(exam)
        back  == ImportedExam(Checked(sheet))
        Of(r) == SheetOfRow(exam, r)
    IN /\ exam.graded => KeyReadable(KeyFile(exam.key)) /\ ImportedKey(KeyFile(exam.key)) = exam.key
                        /\ TabsAgree(exam)
       /\ sheet # None =>
            /\ Importable(sheet) => \A r \in DOMAIN sheet.rows, q \in 1 .. sheet.questions :
                 exam.answers[Of(r)][q].status # "uncertain"
            /\ \A r \in DOMAIN sheet.rows :
                 /\ IdOf(back, r) = IdOf(exam, Of(r))
                 /\ \A q \in 1 .. sheet.questions : back.answers[r][q].choices = exam.answers[Of(r)][q].choices
            /\ exam.graded =>
                 /\ AskedOffForm(exam.key, Printed(back.answers, 1 .. Questions)) = {}
                 /\ Importable(sheet) => \A r \in DOMAIN sheet.rows :
                      ScoreSet(back.answers, exam.key)[r] = Scores(exam)[Of(r)]
                 /\ OrdinaryNames(exam) => \A r \in DOMAIN sheet.rows :
                      StudentOrder(back)[r] = r /\ NameOf(back, r) = NameOf(exam, Of(r))
=============================================================================
