---------------------------- MODULE PageReading ----------------------------
(***************************************************************************)
(* What recognition makes of one scanned answer sheet, from the ink it     *)
(* measures (recognition/form_alignment.py, grid_reader.py, thresholds.py, *)
(* pipeline.py) to the record it leaves (domain/models.py).                *)
(*                                                                         *)
(* A bubble's ink is its printed digit's plus the pencil's; finding the    *)
(* circles, warping and measuring are outside.  Ink is counted in          *)
(* thousandths of full black, even numbers so that a median is whole.      *)
(* A sheet lies the right way up or is turned by 180 degrees; each way the *)
(* form fits a share of its bubbles.                                       *)
(***************************************************************************)
EXTENDS Integers, FiniteSets

CONSTANTS
  FormQuestions,(* questions printed on the form                           *)
  MaxQuestions, (* questions a record has                                  *)
  FormChoices,  (* choices of a question                                   *)
  Columns,      (* columns of the student ID                               *)
  IdDigits,     (* digits of a column: 0 .. IdDigits - 1                   *)
  RefMarks,     (* marks needed to know the usual strength                 *)
  Sensitivities,(* what the settings offer, within 1 .. 10                 *)
  Sheets,       (* sheets that may be scanned                              *)
  Nothing

ASSUME ReadingAssumption ==
  /\ {FormQuestions, FormChoices, Columns, IdDigits, RefMarks} \subseteq Nat \ {0}
  /\ FormChoices > 1 /\ IdDigits > 1 /\ MaxQuestions \in Nat /\ FormQuestions <= MaxQuestions
  /\ Sensitivities \subseteq 1 .. 10

Question == 1 .. FormQuestions
Choice   == 1 .. FormChoices
Column   == 1 .. Columns
Digit    == 0 .. IdDigits - 1

VARIABLES
  sheet,       \* the sheet and how the scanner took it
  ink,         \* what was measured on it, whatever the settings
  sensitivity, \* what the settings say
  page         \* the record of the last scan, or Nothing

reading == <<sheet, ink, sensitivity, page>>

-----------------------------------------------------------------------------
(* Thresholds, in thousandths *)
Ceiling == 110

MarkAt(s) == 240 - 12 * (s - 5)

Thresholds(s) == [mark |-> MarkAt(s), calibrated |-> TRUE]

Largest(S) == CHOOSE v \in S : \A w \in S : w <= v
Least(S)   == CHOOSE v \in S : \A w \in S : v <= w

\* The darkest less the lightest of the digits of a grid.
Spread(print) ==
  LET values == {print[c] : c \in DOMAIN print} IN Largest(values) - Least(values)

-----------------------------------------------------------------------------
(***************************************************************************)
(* The sheets: ink of the form and the pencil, and the digits of a form    *)
(* printed more alike (25 to 42 thousandths apart on the forms in use)     *)
(* than a blank bubble may differ from its level.                          *)
(***************************************************************************)
IsSheet(x) ==
  /\ x.print \in [Choice -> Nat] /\ x.pencil \in [Question -> [Choice -> Nat]]
  /\ x.idprint \in [Digit -> Nat] /\ x.idpencil \in [Column -> [Digit -> Nat]]
  /\ Spread(x.print) <= Ceiling /\ Spread(x.idprint) <= Ceiling

\* Why a page may not be read at all.
ReadErrors ==
  {"INVALID_FROZEN_PROFILE", "IMAGE_DECODE_FAILED", "FORM_NOT_FOUND", "INVALID_PROFILE_GEOMETRY"}

ASSUME SheetsAssumption == (\A x \in Sheets : IsSheet(x)) /\ Nothing \notin ReadErrors

-----------------------------------------------------------------------------
(***************************************************************************)
(* Where the form lies on the scan                                         *)
(***************************************************************************)
\* Shares of the form's bubbles in percent: fit the right way up, fit turned,
\* circles the form does not have; and the regions that sit one step off.
Larger(a, b) == IF a >= b THEN a ELSE b
Smaller(a, b) == IF a <= b THEN a ELSE b

FormFound(x) == Larger(x.upright, x.turned) >= 50

\* Of two fits the better one is taken; a tie goes to the first tried.
Turned(x) == x.turned > x.upright

Trusted(x) ==
  LET best == Larger(x.upright, x.turned) IN
  /\ best >= 65
  /\ best - Smaller(x.upright, x.turned) >= 5
  /\ x.extra <= 20
  /\ x.shifted = 0

\* The place of i if the interval S is counted from its other end.
Opposite(S, i) == Largest(S) + Least(S) - i

\* The ink found where the form puts row i and column j of a grid.
Ink(x, print, pencil, rows, cols) ==
  [i \in rows |-> [j \in cols |->
    IF Turned(x) THEN print[Opposite(cols, j)] + pencil[Opposite(rows, i)][Opposite(cols, j)]
    ELSE print[j] + pencil[i][j]]]

-----------------------------------------------------------------------------
(***************************************************************************)
(* The unmarked level of each printed digit                                *)
(***************************************************************************)
\* The k-th smallest, from 0, of f over S.
KthSmallest(S, f, k) ==
  f[CHOOSE x \in S : /\ Cardinality({y \in S : f[y] < f[x]}) <= k
                     /\ k < Cardinality({y \in S : f[y] <= f[x]})]

Median(S, f) ==
  LET n == Cardinality(S)
  IN (KthSmallest(S, f, (n - 1) \div 2) + KthSmallest(S, f, n \div 2)) \div 2

\* The darkest cell of a row, the first of equals.
Strongest(row) ==
  CHOOSE c \in DOMAIN row :
    \A d \in DOMAIN row : row[d] < row[c] \/ (row[d] = row[c] /\ c <= d)

\* Rows in which column c is not the darkest.
Rest(raw, c) == {i \in DOMAIN raw : Strongest(raw[i]) # c}

\* Mutant of UnmarkedLevel: the marks of the students count, too.
UnmarkedLevelAll(raw, cols) ==
  [c \in cols |-> Median(DOMAIN raw, [i \in DOMAIN raw |-> raw[i][c]])]

UnmarkedLevel(raw, cols) ==
  LET cells == {x \in (DOMAIN raw) \X cols : Strongest(raw[x[1]]) # x[2]}
      all   == IF cells = {} THEN 0
               ELSE Median(cells, [x \in cells |-> raw[x[1]][x[2]]])
  IN [c \in cols |->
        IF Rest(raw, c) = {} THEN all
        ELSE Median(Rest(raw, c), [i \in Rest(raw, c) |-> raw[i][c]])]

\* What lies above that level, as the record keeps it.
Fills(raw, level) ==
  [i \in DOMAIN raw |->
    [c \in DOMAIN level |-> Smaller(1000, Larger(0, raw[i][c] - level[c]))]]

\* The ink of every bubble, the levels and what lies above them.
Measured(x) ==
  LET raw     == Ink(x, x.print, x.pencil, Question, Choice)
      idraw   == Ink(x, x.idprint, x.idpencil, Column, Digit)
      level   == UnmarkedLevel(raw, Choice)
      idlevel == UnmarkedLevel(idraw, Digit)
  IN [raw |-> raw, idraw |-> idraw, level |-> level,
      answers |-> Fills(raw, level), ids |-> Fills(idraw, idlevel)]

\* The printed (1) is the lightest: a first column clearly heavier than the last
\* means the form is upside down.
UpsideDown(m) == m.level[1] - m.level[FormChoices] > 10

\* A bubble row printed next to the answers, which the form leaves out, is marked.
\* One that is dark in most bubbles is printed so.
MarkedOutside(x, m, t) ==
  \E row \in x.beside :
    LET above == [c \in Choice |-> row[c] - m.level[c]]
    IN (\E c \in Choice : above[c] >= t.mark) /\ Median(Choice, above) < t.mark

-----------------------------------------------------------------------------
(***************************************************************************)
(* One field: a question or an ID column                                   *)
(***************************************************************************)
Marked(fill, t) == {c \in DOMAIN fill : fill[c] >= t.mark}
Gray(fill, t)   == {c \in DOMAIN fill : Ceiling < fill[c] /\ fill[c] < t.mark}

\* The second darkest mark is under three quarters of the darkest.
Uneven(fill, marks) ==
  \E c \in marks : \A d \in marks \ {c} : 4 * fill[d] < 3 * fill[c]

Decide(fill, t) ==
  LET marks == Marked(fill, t) IN
  IF ~t.calibrated THEN [choices |-> {c \in DOMAIN fill : fill[c] > Ceiling}, status |-> "UNCERTAIN"]
  ELSE [choices |-> marks \union Gray(fill, t),
        status  |-> CASE Gray(fill, t) # {}      -> "UNCERTAIN"
                      [] Gray(fill, t) = {} /\ marks = {} -> "BLANK"
                      [] Gray(fill, t) = {} /\ Cardinality(marks) = 1 -> "NORMAL"
                      [] Gray(fill, t) = {} /\ Cardinality(marks) > 1 ->
                           IF Uneven(fill, marks) THEN "UNCERTAIN" ELSE "MULTIPLE"]

Unasked == [choices |-> {}, status |-> "UNASKED"]

\* Kept as evidence, confirmed no more.
Withheld(field) ==
  IF field.status \in {"UNASKED", "UNCERTAIN"} THEN field
  ELSE [field EXCEPT !.status = "UNCERTAIN"]

WithheldIf(fields, bad) ==
  [i \in DOMAIN fields |-> IF i \in bad THEN Withheld(fields[i]) ELSE fields[i]]

-----------------------------------------------------------------------------
(***************************************************************************)
(* The page                                                                *)
(***************************************************************************)
Darkest(fill) == fill[Strongest(fill)]

\* Single marks, of answers that are wholly on the scan.
Singles(answers) == {q \in Question : answers[q].status = "NORMAL"}

UsualKnown(answers) == Cardinality(Singles(answers)) >= RefMarks

\* The usual darkness of a single mark; 0, below which nothing is, if there are too few.
Usual(answers, fills) ==
  IF UsualKnown(answers) THEN Median(Singles(answers), [q \in Singles(answers) |-> Darkest(fills[q])])
  ELSE 0

\* Under half of what is usual on this page.
FaintAnswers(answers, fills, usual) ==
  {q \in Question : answers[q].status \in {"NORMAL", "MULTIPLE"} /\ 2 * Darkest(fills[q]) < usual}

FaintColumns(cells, fills, usual) ==
  {k \in Column : cells[k].status = "NORMAL" /\ \A d \in cells[k].choices : 2 * fills[k][d] < usual}

\* Fields before the page is judged as a whole: what the scan's edge cuts is withheld.
CoveredAnswers(x, m, t) == WithheldIf([q \in Question |-> Decide(m.answers[q], t)], x.cut)
CoveredColumns(x, m, t) == WithheldIf([k \in Column |-> Decide(m.ids[k], t)], x.idcut)

Distrusted(x, m, t) == UpsideDown(m) \/ MarkedOutside(x, m, t) \/ ~Trusted(x)

AnswersRead(x, m, t) ==
  LET covered == CoveredAnswers(x, m, t)
      bad == IF Distrusted(x, m, t) THEN Question
             ELSE FaintAnswers(covered, m.answers, Usual(covered, m.answers))
      read == WithheldIf(covered, bad)
  IN [q \in 1 .. MaxQuestions |-> IF q \in Question THEN read[q] ELSE Unasked]

ColumnsRead(x, m, t) ==
  LET bad == IF Distrusted(x, m, t) THEN Column
             ELSE FaintColumns(CoveredColumns(x, m, t), m.ids,
                               Usual(CoveredAnswers(x, m, t), m.answers))
  IN WithheldIf(CoveredColumns(x, m, t), bad)

\* Every column must hold one clear digit.
StudentId(cells, t) ==
  [cells  |-> cells,
   status |-> IF t.calibrated /\ \A k \in Column : cells[k].status = "NORMAL"
              THEN "NORMAL" ELSE "INVALID"]

\* Without fields: how reading a page ends before it.
Failed(error) ==
  [status |-> "UNPROCESSABLE", error |-> error, turned |-> Nothing, answers |-> <<>>,
   id |-> [cells |-> <<>>, status |-> "UNREADABLE"]]

NeedsReview(x, m, t, answers, id) ==
  \/ UpsideDown(m) \/ MarkedOutside(x, m, t) \/ ~t.calibrated
  \/ id.status # "NORMAL"
  \/ \E q \in DOMAIN answers : answers[q].status = "UNCERTAIN"

Processed(x, m, t) ==
  LET answers == AnswersRead(x, m, t)
      id == StudentId(ColumnsRead(x, m, t), t)
  IN [status  |-> IF NeedsReview(x, m, t, answers, id) THEN "NEEDS_MANUAL_REVIEW" ELSE "PROCESSED",
      error   |-> Nothing,
      turned  |-> Turned(x),
      answers |-> answers,
      id      |-> id]

\* The frozen profile has one ID grid, answer grids numbered from 1 without a gap, all
\* within the page.
ProfileHolds(x) == x.image # "bad_profile"

\* The image can be decoded and is not too large.
Decodes(x) == x.image # "undecodable"

\* No cell of the form is squeezed to nothing in the image.
CellsFit(x) == x.image # "odd_frame"

\* Only an image that is decoded and found to be the form is read.
RecognizePage(x, m, t) ==
  IF ~ProfileHolds(x) THEN Failed("INVALID_FROZEN_PROFILE")
  ELSE IF ~Decodes(x) THEN Failed("IMAGE_DECODE_FAILED")
  ELSE IF ~FormFound(x) THEN Failed("FORM_NOT_FOUND")
  ELSE IF ~CellsFit(x) THEN Failed("INVALID_PROFILE_GEOMETRY")
  ELSE Processed(x, m, t)

-----------------------------------------------------------------------------
\* The sheet is scanned, or scanned again with another setting.
Scan(s) ==
  /\ sheet # Nothing
  /\ sensitivity' = s
  /\ page' = RecognizePage(sheet, ink, Thresholds(s))
  /\ UNCHANGED <<sheet, ink>>

ReadingNext == \E s \in Sensitivities : Scan(s)

ReadingInit ==
  /\ sheet \in Sheets /\ ink = Measured(sheet)
  /\ sensitivity = 5 /\ page = Nothing

ReadingSpec == ReadingInit /\ [][ReadingNext]_reading

-----------------------------------------------------------------------------
(***************************************************************************)
(* What the records of domain/models.py accept                             *)
(***************************************************************************)
Sized(field) ==
  CASE field.status = "NORMAL" -> Cardinality(field.choices) = 1
    [] field.status \in {"BLANK", "UNASKED"} -> field.choices = {}
    [] field.status = "MULTIPLE" -> Cardinality(field.choices) > 1
    [] OTHER -> TRUE

AnswerRecord(a) ==
  /\ a.status \in {"NORMAL", "BLANK", "MULTIPLE", "UNCERTAIN", "UNASKED"}
  /\ a.choices \subseteq Choice
  /\ Sized(a)

ColumnRecord(c) ==
  /\ c.status \in {"NORMAL", "BLANK", "MULTIPLE", "UNCERTAIN"}
  /\ c.choices \subseteq Digit
  /\ Sized(c)

\* Since older exams, a number with blank columns after it is a record too.
IdRecord(id) ==
  \/ id.status = "UNREADABLE" /\ id.cells = <<>>
  \/ /\ id.status \in {"NORMAL", "INVALID"}
     /\ DOMAIN id.cells = Column /\ \A k \in Column : ColumnRecord(id.cells[k])
     /\ id.status = "NORMAL" =>
          \E n \in Column : /\ \A k \in 1 .. n : id.cells[k].status = "NORMAL"
                            /\ \A k \in n + 1 .. Columns : id.cells[k].status = "BLANK"

PageRecord(p) ==
  \/ /\ p.status = "UNPROCESSABLE" /\ p.error # Nothing
     /\ p.turned = Nothing /\ p.answers = <<>> /\ p.id.status = "UNREADABLE" /\ IdRecord(p.id)
  \/ /\ p.status \in {"PROCESSED", "NEEDS_MANUAL_REVIEW"} /\ p.error = Nothing
     /\ p.turned \in BOOLEAN
     /\ DOMAIN p.answers = 1 .. MaxQuestions
     /\ \A q \in 1 .. MaxQuestions : AnswerRecord(p.answers[q])
     /\ p.id.status # "UNREADABLE" /\ IdRecord(p.id)
-----------------------------------------------------------------------------
(***************************************************************************)
(* Correctness                                                             *)
(***************************************************************************)
Read == page # Nothing /\ page.status # "UNPROCESSABLE"

Pencilled(row) == {c \in DOMAIN row : row[c] > 0}

NoPrint(cols) == [c \in cols |-> 0]

\* Each of its marks is dark enough at any print.
Clear(row, print, t) == \A c \in Pencilled(row) : row[c] >= t.mark + Spread(print)

\* Where a printed digit's level is taken, most cells are unmarked.
MostlyUnmarked(raw, pencil, cols) ==
  \A c \in cols : Rest(raw, c) # {} =>
    2 * Cardinality({i \in Rest(raw, c) : pencil[i][c] > 0}) < Cardinality(Rest(raw, c))

AnswersOrdinary(x, m) ==
  MostlyUnmarked(m.raw, Ink(x, NoPrint(Choice), x.pencil, Question, Choice), Choice)

IdOrdinary(x, m) ==
  MostlyUnmarked(m.idraw, Ink(x, NoPrint(Digit), x.idpencil, Column, Digit), Digit)

\* A form printed as forms are, of which no choice is the darkest throughout.
ShowsItsTop(x, m) ==
  /\ x.print[FormChoices] - x.print[1] > 10
  /\ Rest(m.raw, 1) # {} /\ Rest(m.raw, FormChoices) # {}

\* What is confirmed is what the student pencilled, however dark the digits under
\* it are printed and whichever way the sheet was fed; of a sheet taken the right
\* way up every clear mark is found, confirmed or not, and no other
\* (read_grid: no student "who marks the same choice everywhere" becomes the
\* reference, a form read upside down is not trusted).
ReadsPencil ==
  Read =>
    LET t == Thresholds(sensitivity) IN
    /\ (AnswersOrdinary(sheet, ink) /\ (page.turned => ShowsItsTop(sheet, ink))) =>
         \A q \in Question : Clear(sheet.pencil[q], sheet.print, t) =>
           ((~page.turned \/ page.answers[q].status # "UNCERTAIN")
             => page.answers[q].choices = Pencilled(sheet.pencil[q]))
    /\ (IdOrdinary(sheet, ink) /\ ShowsItsTop(sheet, ink) /\ AnswersOrdinary(sheet, ink) /\ page.id.status = "NORMAL") =>
         \A k \in Column : Clear(sheet.idpencil[k], sheet.idprint, t) =>
           page.id.cells[k].choices = Pencilled(sheet.idpencil[k])

\* The record of a page can always be saved and read back: every field has the
\* number of choices its status asks for, a confirmed student ID all its digits,
\* a page that failed no field at all.
RecordHolds == page # Nothing => PageRecord(page)
=============================================================================
