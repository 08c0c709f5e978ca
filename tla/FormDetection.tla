---------------------------- MODULE FormDetection ----------------------------
(***************************************************************************)
(* Which form a scan is read with: the layouts of a few sample pages are   *)
(* compared, a form is built of them or a saved one is taken again         *)
(* (infrastructure/form_detection.py, recognition/form_layout.py,          *)
(* form_profile.py).                                                       *)
(*                                                                         *)
(* A printed form has answer blocks of rows of rings.  The first row of    *)
(* some blocks is no question, but rings that label the columns; its       *)
(* number cell is empty, or looks on a page as if it held a number.        *)
(* Finding the rings and fitting the lattices is outside: a form fits only *)
(* pages of its own print, each as well as the share of its rings there    *)
(* that were found.                                                        *)
(***************************************************************************)
EXTENDS Integers, Sequences, FiniteSets

CONSTANTS
  Prints,      (* printed forms                                            *)
  BlockRows,   (* of a print: the rows of its answer blocks                *)
  Labels,      (* of a print: the blocks whose first row is labels         *)
  Gradable,    (* prints with an ID grid and blocks that can be graded     *)
  Batches,     (* sample pages a user may choose, in order                 *)
  FirstSaved,  (* forms saved before, some drawn by hand                   *)
  JudgedRows,  (* rows a block must have to be searched for a header       *)
  HeaderPages, (* pages needed to tell labels from a question left blank   *)
  MatchPages,  (* pages a saved form is tried on                           *)
  TrustedShare, (* rings, in percent, to be found for a fit to be trusted  *)
  MatchShare,  (* rings to be found for a saved form to be taken           *)
  MaxSaved,    (* bound on the forms saved                                 *)
  NoForm       (* no form on the page, or none saved or found              *)

ASSUME FormAssumption ==
  /\ Gradable \subseteq Prints /\ NoForm \notin Prints /\ NoForm \notin Nat
  /\ \A p \in Prints : BlockRows[p] \in Seq(Nat) /\ Labels[p] \subseteq DOMAIN BlockRows[p]
  /\ {JudgedRows, HeaderPages, MatchPages} \subseteq Nat \ {0} /\ JudgedRows > 2 /\ MaxSaved \in Nat
  /\ TrustedShare \in Nat /\ MatchShare \in Nat /\ TrustedShare <= MatchShare

VARIABLES
  samples,   \* the sample pages
  layouts,   \* of those that show a form, what it looks like
  detection, \* what was found on them, or NoForm
  saved,     \* the saved forms
  agreed     \* a form found on these pages was accepted

forms == <<samples, layouts, detection, saved, agreed>>

-----------------------------------------------------------------------------
(***************************************************************************)
(* The layout of one page                                                  *)
(***************************************************************************)
\* A page: its print, the label rows that look numbered, the marked rows of each block,
\* the blocks whose first row is cut off, and the share of the rings of its form that
\* align_page finds (none where the fit is refused for another reason).  A layout or a form: the print whose rings
\* it was made of, and of each block the first row that counts as a question.
Blocks(print) == DOMAIN BlockRows[print]

\* Nobody marks labels.
IsPage(page) ==
  \/ page.print = NoForm
  \/ /\ page.print \in Prints /\ page.share \in 0 .. 100
     /\ \A b \in Labels[page.print] : 1 \notin page.marked[b]

Form ==
  {form \in [print : Prints, first : Seq(Nat), drawn : BOOLEAN] : DOMAIN form.first = Blocks(form.print)}

ASSUME PagesAssumption ==
  /\ \A pages \in Batches :
       /\ Len(pages) \in Nat /\ DOMAIN pages = 1 .. Len(pages)
       /\ \A i \in DOMAIN pages : IsPage(pages[i])
  /\ FirstSaved \subseteq Seq(Form)

\* An end row without a number is dropped when all the others have one.
FirstNumbered(page, b) ==
  IF b \in Labels[page.print] /\ b \notin page.numbered /\ BlockRows[page.print][b] >= JudgedRows THEN 2 ELSE 1

DetectLayout(page) ==
  [print |-> page.print, first |-> [b \in Blocks(page.print) |-> FirstNumbered(page, b)]]

Rows(layout, b) == BlockRows[layout.print][b] - layout.first[b] + 1

\* The pages that show a form.
Found(pages) == {i \in DOMAIN pages : pages[i].print # NoForm}

Signature(layout) ==
  [gradable |-> layout.print \in Gradable, blocks |-> [b \in Blocks(layout.print) |-> Rows(layout, b)]]

\* The k-th row of a block of the layout.
RowMark(page, layout, b, k) ==
  LET row == layout.first[b] + k - 1
  IN IF row = 1 /\ b \in page.cut THEN "unknown"
     ELSE IF row \in page.marked[b] THEN "marked" ELSE "plain"

-----------------------------------------------------------------------------
(***************************************************************************)
(* What the pages have in common                                           *)
(***************************************************************************)
Times(values, v) == Cardinality({i \in DOMAIN values : values[i] = v})

\* The value that is there most often, of several the first.
MostCommon(values) ==
  values[CHOOSE i \in DOMAIN values :
           \A j \in DOMAIN values :
             \/ Times(values, values[j]) < Times(values, values[i])
             \/ Times(values, values[j]) = Times(values, values[i]) /\ i <= j]

Signatures(shapes) == [i \in DOMAIN shapes |-> Signature(shapes[i])]

Common(shapes) == MostCommon(Signatures(shapes))

Group(shapes) == LET common == Common(shapes) IN {i \in DOMAIN shapes : Signature(shapes[i]) = common}

\* Mutant of HeaderBlocks: a first row that few mark is one, too.
HeaderBlocksRare(pages, shapes) ==
  LET group == Group(shapes)
      common == Common(shapes).blocks
      Marks(b, k, what) == {i \in group : RowMark(pages[i], shapes[i], b, k) = what}
  IN IF Cardinality(group) < HeaderPages THEN {}
     ELSE {b \in DOMAIN common : /\ common[b] >= JudgedRows
                                 /\ Marks(b, 1, "plain") # {}
                                 /\ Marks(b, 2, "marked") = group}

\* Blocks whose first row none of the common pages marks, although two thirds mark the
\* next one and half of the block's inner rows are marked.
HeaderBlocks(pages, shapes) ==
  LET group == Group(shapes)
      common == Common(shapes).blocks
      Marks(b, k, what) == {i \in group : RowMark(pages[i], shapes[i], b, k) = what}
      Inner(b, what) == Cardinality({x \in group \X (2 .. common[b] - 1) : x[1] \in Marks(b, x[2], what)})
  IN IF Cardinality(group) < HeaderPages THEN {}
     ELSE {b \in DOMAIN common :
             /\ common[b] >= JudgedRows
             /\ Marks(b, 1, "plain") = group
             /\ 3 * Cardinality(Marks(b, 2, "marked")) >= 2 * Cardinality(group)
             /\ Inner(b, "marked") + Inner(b, "plain") > 0
             /\ Inner(b, "marked") >= Inner(b, "plain")}

WithoutFirstRows(layout, headers) ==
  [layout EXCEPT !.first = [b \in DOMAIN layout.first |-> layout.first[b] + IF b \in headers THEN 1 ELSE 0]]

DropUnmarkedHeaderRows(pages, shapes) ==
  LET group == Group(shapes)
      headers == HeaderBlocks(pages, shapes)
  IN [i \in DOMAIN shapes |-> IF i \in group THEN WithoutFirstRows(shapes[i], headers) ELSE shapes[i]]

-----------------------------------------------------------------------------
(***************************************************************************)
(* The form                                                                *)
(***************************************************************************)
\* Of the pages with the common structure those that agree with the most typical one.
BuildProfile(shapes) ==
  LET chosen  == Group(shapes)
      typical == MostCommon([i \in chosen |-> shapes[i].print])
      agreeing == {i \in chosen : shapes[i].print = typical}
  IN [print |-> typical, first |-> shapes[CHOOSE i \in agreeing : TRUE].first]

Supported(form) == form.print \in Gradable

\* align_page finds the form on the page, and the fit is trusted.
Fits(page, form) == page.print = form.print /\ page.share >= TrustedShare

\* A form drawn by hand fits less precisely than one made from the pages.
AsPrecise(form) == ~form.drawn

Shape(form) == [print |-> form.print, first |-> form.first]

\* The pages of the form, the first few of which it is tried on.
CheckedPages(shapes, form) ==
  LET members == {i \in DOMAIN shapes : Signature(shapes[i]) = Signature(form)}
  IN {i \in members : Cardinality({j \in members : j < i}) < MatchPages}

\* Saved forms that every page trusts, and the worst page more than that.
MatchingProfiles(pages, form, checked) ==
  {n \in DOMAIN saved :
     /\ Signature(saved[n]) = Signature(form)
     /\ \A i \in checked : Fits(pages[i], saved[n])
     /\ AsPrecise(saved[n])
     /\ \A i \in checked : pages[i].share >= MatchShare}

\* What these shapes make: the reason why nothing, or a form and what is saved of it.
\* Two thirds of the pages must trust a new form.  Of several saved forms that fit, the
\* one with the most rings found is taken.
Candidates(pages, shapes) ==
  LET form == BuildProfile(shapes)
      checked == CheckedPages(shapes, form)
      trusted == {i \in checked : Fits(pages[i], form)}
      fitting == MatchingProfiles(pages, form, checked)
      matching == Cardinality({i \in DOMAIN shapes : Signature(shapes[i]) = Signature(form)})
      Candidate(name) == [result |-> "form", matching |-> matching, name |-> name,
                          form |-> IF name = NoForm THEN form ELSE Shape(saved[name])]
  IN IF ~Supported(form) THEN {[result |-> "unsupported"]}
     ELSE IF 3 * Cardinality(trusted) < 2 * Cardinality(checked) THEN {[result |-> "unfit"]}
     ELSE {Candidate(n) : n \in IF fitting = {} THEN {NoForm} ELSE fitting}

IsSaved(c) == c.result = "form" /\ c.name # NoForm

\* A candidate as it is shown: the pages looked at, the rows left out as headers, and the
\* first rows nobody marks in a saved form that counts them.
Detection(candidate, pages, dropped, unmarked) ==
  IF candidate.result # "form" THEN candidate
  ELSE [result |-> "form", form |-> candidate.form, name |-> candidate.name, matching |-> candidate.matching,
        checked |-> Len(pages), dropped |-> dropped, unmarked |-> unmarked]

\* A saved form of the structure as printed comes first, then the one without headers.
DecideForm(pages, shapes) ==
  LET printed == Candidates(pages, shapes)
      dropped == Cardinality(HeaderBlocks(pages, shapes))
      trimmed == Candidates(pages, DropUnmarkedHeaderRows(pages, shapes))
      Left(c) == IF IsSaved(c) THEN 0 ELSE dropped
  IN IF pages = <<>> THEN {[result |-> "empty"]}
     ELSE IF Found(pages) = {} THEN {[result |-> "not found"]}
     ELSE IF \E c \in printed : IsSaved(c) THEN {Detection(c, pages, 0, dropped) : c \in printed}
     ELSE IF dropped > 0 THEN {Detection(c, pages, Left(c), 0) : c \in trimmed}
     ELSE {Detection(c, pages, 0, 0) : c \in printed}

\* What the scan page says with the form.
HeaderRowsNote(d)   == d.dropped > 0
UnmarkedRowsNote(d) == d.unmarked > 0
MixedFormWarning(d) == d.matching < d.checked

-----------------------------------------------------------------------------
FormInit ==
  /\ samples = <<>> /\ layouts = <<>> /\ detection = NoForm /\ agreed = FALSE
  /\ saved \in FirstSaved

\* The pages are read one after the other.
SampleForm(pages) ==
  /\ samples = <<>> /\ samples' = pages
  /\ layouts' = [i \in Found(pages) |-> DetectLayout(pages[i])]
  /\ UNCHANGED <<detection, saved, agreed>>

DetectForm ==
  /\ samples # <<>> /\ detection = NoForm
  /\ detection' \in DecideForm(samples, layouts)
  /\ UNCHANGED <<samples, layouts, saved, agreed>>

\* A new form is saved only when the user agrees with what is shown.
AcceptForm ==
  /\ detection # NoForm /\ detection.result = "form" /\ detection.name = NoForm
  /\ Len(saved) < MaxSaved
  /\ saved' = Append(saved, [print |-> detection.form.print, first |-> detection.form.first, drawn |-> FALSE])
  /\ agreed' = TRUE /\ detection' = NoForm
  /\ UNCHANGED <<samples, layouts>>

OtherScans ==
  /\ samples # <<>> /\ samples' = <<>> /\ layouts' = <<>> /\ detection' = NoForm /\ agreed' = FALSE
  /\ UNCHANGED saved

FormNext == DetectForm \/ AcceptForm \/ OtherScans \/ \E pages \in Batches : SampleForm(pages)

FormSpec == FormInit /\ [][FormNext]_forms

-----------------------------------------------------------------------------
(***************************************************************************)
(* Correctness                                                             *)
(***************************************************************************)
PagesOfPrint(print) == {i \in DOMAIN samples : samples[i].print = print}

LeftOut(form) == {x \in Blocks(form.print) \X (1 .. 2) : x[2] < form.first[x[1]]}

\* No page of the form marks a row the form leaves out, unless it was read as another
\* form and the page warns of a mixture; and a question that a new form leaves out,
\* because nobody answered it, is told.
NoMarkLost(d) ==
  \A x \in LeftOut(d.form) :
    /\ \A i \in PagesOfPrint(d.form.print) : x[2] \in samples[i].marked[x[1]] => MixedFormWarning(d)
    /\ (x[1] \notin Labels[d.form.print] \/ x[2] > 1) => (HeaderRowsNote(d) \/ d.name # NoForm)

\* Enough pages of one print that all look alike, and on which every question is answered.
AllAnswered(print) ==
  /\ Len(samples) >= HeaderPages /\ PagesOfPrint(print) = DOMAIN samples
  /\ \A i, j \in DOMAIN samples : samples[i].numbered = samples[j].numbered
  /\ \A i \in DOMAIN samples : \A b \in Blocks(print) :
       /\ b \notin samples[i].cut /\ BlockRows[print][b] >= JudgedRows
       /\ samples[i].marked[b] = (1 .. BlockRows[print][b]) \ (IF b \in Labels[print] THEN {1} ELSE {})

\* On such pages labels are no question, but for a saved form, with which it is told.
LabelsLeftOut(d) ==
  AllAnswered(d.form.print) =>
    \/ \A b \in Blocks(d.form.print) : (d.form.first[b] = 2) = (b \in Labels[d.form.print])
    \/ d.name # NoForm /\ UnmarkedRowsNote(d)

\* What was accepted is not offered as new on the same pages, if all of them show it well.
ShownWell == \A i \in DOMAIN samples : samples[i].share >= MatchShare

FormAgain(d) ==
  agreed /\ PagesOfPrint(d.form.print) = DOMAIN samples /\ ShownWell => d.name # NoForm

\* The form shown for the chosen scans loses no answer silently, counts no labels where
\* that can be told, and is stable (FormDetector._decide, drop_unmarked_header_rows: "no
\* student ever marks them"; "a batch whose sampled students all left one block's first
\* question blank must not replace it").
FormTells ==
  (detection # NoForm /\ detection.result = "form") =>
    NoMarkLost(detection) /\ LabelsLeftOut(detection) /\ FormAgain(detection)

\* A form that was accepted is chosen by itself from then on, at least for the pages it
\* was made of (form_confirm_dialog.py:12: "the form you confirm is saved in the Profiles
\* folder and chosen automatically from now on").
AcceptedIsChosen ==
  (detection # NoForm /\ detection.result = "form" /\ agreed)
    /\ PagesOfPrint(detection.form.print) = DOMAIN samples => detection.name # NoForm
=============================================================================
