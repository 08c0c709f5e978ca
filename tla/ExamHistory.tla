----------------------------- MODULE ExamHistory -----------------------------
(***************************************************************************)
(* The generations of one exam by content: what was read, the corrections  *)
(* and the ID fixes made since, the key, the scores, and what is shown.    *)
(*                                                                         *)
(* Several programs work on the exam.  A use case first reads a committed  *)
(* snapshot and works out its mutation; the materializer then builds the   *)
(* next generation from the parent and checks the parent as it goes.       *)
(* SessionStore models how generations are stored; here commit_generation  *)
(* is one step that compares the expected revision.                        *)
(*                                                                         *)
(* A generation's result books and pictures are copied from the parent or  *)
(* made anew.  A book is told by its kind, the style of its name (`old`    *)
(* before 4.0.3) and what it tells.                                        *)
(***************************************************************************)
EXTENDS Grading, Sequences

CONSTANTS Users,        \* programs
          Reads,        \* per origin what was read: [ids, answers, key], per sheet
          Origins,      \* where the first generation is from
          Changed,      \* answers a correction may set
          Targets,      \* student IDs a fix may set
          Keys,         \* answer keys
          MaxRevision,  \* generations
          None          \* what is not there

ASSUME HistoryAssumption == MaxRevision \in Nat \ {0} /\ Origins \subseteq {"scan", "import", "fixed20"}

-----------------------------------------------------------------------------
(***************************************************************************)
(* What the records hold                                                   *)
(***************************************************************************)
SheetsOf(o)    == DOMAIN Reads[o].ids
QuestionsOf(o) == UNION {DOMAIN Reads[o].answers[s] : s \in SheetsOf(o)}
AnswersOf(o)   == {Reads[o].answers[s][q] : s \in SheetsOf(o), q \in QuestionsOf(o)} \cup Changed
Answerings(o)  == [SheetsOf(o) -> [QuestionsOf(o) -> AnswersOf(o)]]

Edit(o)     == [sheet : SheetsOf(o), q : QuestionsOf(o), before : AnswersOf(o), after : AnswersOf(o)]
EventOf(o)  == [id : Nat \X Nat, edit : Edit(o), base : Nat, committed : Nat]
StateOf(o)  == [rev : Nat, base : Nat, events : Seq(EventOf(o)), complete : BOOLEAN,
                baseline : [ids : {Reads[o].ids}, answers : Answerings(o), corrected : {{}}]]
AnyKey      == Keys \cup {Reads[o].key : o \in Origins}

\* A record has an answer to every question, asked or not.
ASSUME ReadsAssumption == \A o \in Origins : Reads[o].answers \in Answerings(o)

\* What is not there differs from everything that may be there.
ASSUME NoneAssumption ==
  /\ None \notin AnyKey /\ None \notin {"pages", "compact"}
  /\ \A o \in Origins :
       /\ None \notin StateOf(o)
       /\ None \notin [parent : Nat, ids : {Reads[o].ids}, answers : Answerings(o)]
       /\ \A answers \in Answerings(o), key \in AnyKey : ScoreSet(answers, key) # None

VARIABLES hist,    \* the generations, oldest first; the last is the current one
          user     \* per program, the operation it has worked out or previewed

vars == <<hist, user>>

Revision == Len(hist)
Current  == hist[Revision]

\* correction_state.json: the generation it is bound to, the baseline and where that
\* is from, and the corrections since; `complete` unless an older version's history
\* was not kept.
State(rev, base, baseline, events, complete) ==
  [rev |-> rev, base |-> base, baseline |-> baseline, events |-> events, complete |-> complete]

Baseline(ids, answers, corrected) == [ids |-> ids, answers |-> answers, corrected |-> corrected]

NoFixes == [s \in {} |-> None]
UnsetKey == None
NoPictures == [s \in {} |-> None]

-----------------------------------------------------------------------------
(***************************************************************************)
(* Corrections                                                             *)
(***************************************************************************)
\* One correction set answers[sheet][q] from `before` to `after`.
Target(edit) == <<edit.sheet, edit.q>>

Applies(answers, edit) == answers[edit.sheet][edit.q] = edit.before /\ edit.after # edit.before

Applied(answers, edit) == [answers EXCEPT ![edit.sheet][edit.q] = edit.after]

\* The answers after the first n of the corrections.
Replayed(answers, edits) ==
  LET after[n \in 0..Len(edits)] == IF n = 0 THEN answers ELSE Applied(after[n - 1], edits[n])
  IN after

\* Every correction meets the value it was made on (_apply_states).
Replays(answers, edits) == \A n \in 1..Len(edits) : Applies(Replayed(answers, edits)[n - 1], edits[n])

Replay(answers, edits) == Replayed(answers, edits)[Len(edits)]

Edits(events) == [i \in DOMAIN events |-> events[i].edit]

\* What the final book marks as corrected, also what was set back since.
Corrected(state) == state.baseline.corrected \cup {Target(state.events[i].edit) : i \in DOMAIN state.events}

\* Every event is there once, as the draft it stands for, committed right after its base.
HistoryValid(events) ==
  /\ \A i, j \in DOMAIN events : events[i].id = events[j].id => i = j
  /\ \A i \in DOMAIN events : events[i].committed = events[i].base + 1

\* The events of the next generation are the last ones, and there are some.
NewSuffix(events, rev) ==
  \E n \in DOMAIN events : \A i \in DOMAIN events : IF i < n THEN events[i].base < rev ELSE events[i].base = rev

\* The history lies between the baseline and this generation.
Bound(state, rev) ==
  /\ state.rev = rev /\ state.base <= rev
  /\ \A i \in DOMAIN state.events : state.base <= state.events[i].base /\ state.events[i].committed <= rev

\* The state belongs to this generation and explains its answers.
Explains(state, gen, rev) ==
  /\ Bound(state, rev) /\ HistoryValid(state.events)
  /\ Replays(state.baseline.answers, Edits(state.events))
  /\ Replay(state.baseline.answers, Edits(state.events)) = gen.answers
  /\ state.baseline.ids = gen.ids /\ Corrected(state) = gen.corrected

\* What a reader makes of a generation without correction_state.json: before grading the
\* projection is the baseline; an old graded generation has its answers and no more.
Adapted(gen, rev) ==
  IF gen.corrections # None THEN gen.corrections
  ELSE IF gen.projection # None
  THEN State(rev, rev, Baseline(gen.projection.ids, gen.projection.answers, {}), <<>>, TRUE)
  ELSE IF gen.state # "recognized"
  THEN State(rev, rev, Baseline(gen.ids, gen.answers, gen.corrected), <<>>, FALSE)
  ELSE None

-----------------------------------------------------------------------------
(***************************************************************************)
(* What the readers accept                                                 *)
(***************************************************************************)
ScoresMatch(gen) == gen.scores # None => gen.key # UnsetKey /\ gen.scores = ScoreSet(gen.answers, gen.key)

\* The projection belongs to the generation before and gives the answers.
ProjectionFits(gen, rev) ==
  gen.projection # None =>
    /\ gen.projection.parent = rev - 1
    /\ gen.projection.ids = gen.ids /\ gen.projection.answers = gen.answers

\* read_grading_snapshot.
GradingReads(gen) ==
  /\ gen.projection # None => gen.projection.ids = gen.ids /\ gen.projection.answers = gen.answers
  /\ gen.projection = None => gen.state # "recognized"
  /\ gen.state = "graded" => gen.scores # None
  /\ gen.scores # None => gen.summary = Cardinality(Scored(gen.scores))
  /\ DOMAIN gen.fixes \subseteq DOMAIN gen.answers

\* read_correction_snapshot, without which the page of a graded exam does not open.
CorrectionReads(gen, rev) ==
  /\ gen.key # UnsetKey /\ gen.scores = ScoreSet(gen.answers, gen.key)
  /\ Adapted(gen, rev) # None /\ Explains(Adapted(gen, rev), gen, rev)

\* What the materializer asks of the generation it builds on.
ParentAccepted(gen, rev) ==
  /\ ScoresMatch(gen) /\ ProjectionFits(gen, rev)
  /\ Adapted(gen, rev) # None => Explains(Adapted(gen, rev), gen, rev)

-----------------------------------------------------------------------------
(***************************************************************************)
(* The materializer                                                        *)
(***************************************************************************)
ScoreRow(scores, s) == IF scores = None THEN [score |-> NoScore, rank |-> NoRank] ELSE scores[s]

\* A row of the detail index per sheet.
Shown(ids, fixes, scores) ==
  LET fixed == WithFixes(ids, fixes)
  IN [s \in DOMAIN ids |->
       [who   |-> fixed[s],
        from  |-> IF s \in DOMAIN fixes THEN ids[s].id ELSE None,
        score |-> ScoreRow(scores, s).score,
        rank  |-> ScoreRow(scores, s).rank]]

\* The books of a generation, all but responses.xlsx named after the exam, and what each
\* kind tells.
Book(kind, old, tells) == [kind |-> kind, old |-> old, tells |-> tells]

Tells(kind, gen) ==
  CASE kind \in {"responses", "plain"} -> [ids |-> [s \in DOMAIN gen.shown |-> [who |-> gen.shown[s].who, from |-> gen.shown[s].from]],
                                         answers |-> gen.answers]
    [] kind = "key"   -> [key |-> gen.key]
    [] kind = "score" -> [shown |-> gen.shown, answers |-> gen.answers, key |-> gen.key, scores |-> gen.scores]
    [] kind = "final" -> [shown |-> gen.shown, answers |-> gen.answers, key |-> gen.key, scores |-> gen.scores,
                          corrected |-> gen.corrected]

\* A scanned page is drawn again, with the marks that count and the key, under the ID
\* and the name shown.
Picture(gen, s) == [who |-> gen.shown[s].who, answers |-> gen.answers[s], key |-> gen.key]

Drawn(gen) == IF gen.geometry = None \/ gen.scores = None THEN NoPictures
              ELSE [s \in DOMAIN gen.answers |-> Picture(gen, s)]

\* The books that are copied from the parent.  The names of older books are not known.
Preserved(book, kind) ==
  IF kind = "fix" THEN book.old
  ELSE ~book.old /\ (book.kind = "responses" \/ (kind = "finalize" /\ book.kind = "score"))

\* The books that are made.
Written(kind, graded) ==
  IF graded THEN {"responses", "key", IF kind = "finalize" THEN "final" ELSE "score"}
  ELSE {"responses", "plain"}

\* Books made of a generation.
BooksOf(gen, old, kinds) == {Book(kind, old, Tells(kind, gen)) : kind \in kinds}

\* Those copied, but for the ones made under the same name, and those made.
NextBooks(parent, cmd, gen) ==
  LET made == Written(cmd.kind, gen.scores # None)
  IN {b \in parent.books : Preserved(b, cmd.kind) /\ (b.kind \in made => b.old)}
          \cup BooksOf(gen, FALSE, made)

\* A graded book is made only of scores that are exactly what is worked out again; before
\* 2.1.2 the average was kept unrounded.
GradingEnvelope(cmd, parent) == cmd.kind = "fix" /\ parent.scores # None => parent.average = "rounded"

\* The i-th correction of the batch that makes the generation after `rev`.
Event(edit, rev, i) == [id |-> <<rev, i>>, edit |-> edit, base |-> rev, committed |-> rev + 1]

\* Mutant of Events: the batch replaces those before it.
EventsAnew(state, cmd, rev) ==
  IF cmd.kind # "correct" THEN state.events
  ELSE [i \in DOMAIN cmd.edits |-> Event(cmd.edits[i], rev, i)]

\* The corrections made so far, and the batch of this operation.
Events(state, cmd, rev) ==
  IF cmd.kind # "correct" THEN state.events
  ELSE state.events \o [i \in DOMAIN cmd.edits |-> Event(cmd.edits[i], rev, i)]

\* correction_state.json of the next generation, bound to its revision.
Corrections(parent, cmd, rev) ==
  LET state == Adapted(parent, rev)
  IN IF state = None THEN None
     ELSE [state EXCEPT !.events = Events(state, cmd, rev), !.rev = rev + 1]

\* Mutant of Fixes: only a fix carries the fixes on.
FixesForgotten(parent, cmd) == IF cmd.kind = "fix" THEN cmd.fixes ELSE NoFixes

\* The operation's own fixes, else the parent's: the file is written afresh each time.
Fixes(parent, cmd) == IF cmd.kind = "fix" THEN cmd.fixes ELSE parent.fixes

NextAnswers(parent, cmd, rev) ==
  IF cmd.kind = "correct"
  THEN LET state == Corrections(parent, cmd, rev) IN Replay(state.baseline.answers, Edits(state.events))
  ELSE parent.answers

NextKey(parent, cmd) == IF cmd.kind \in {"regrade", "finalize"} THEN cmd.key ELSE parent.key

\* Mutant of NextScores: a correction keeps the scores there were.
NextScoresKept(parent, cmd, rev) ==
  IF cmd.kind = "regrade" THEN ScoreSet(NextAnswers(parent, cmd, rev), NextKey(parent, cmd)) ELSE parent.scores

\* Scores are always worked out again, except by a fix, which changes no answer.
NextScores(parent, cmd, rev) ==
  IF cmd.kind = "fix" THEN parent.scores ELSE ScoreSet(NextAnswers(parent, cmd, rev), NextKey(parent, cmd))

\* Mutant of NextProjection: the projection is passed on as it was read.
ProjectionAsRead(cmd, rev) == IF cmd.kind = "fix" THEN cmd.projection ELSE None

\* Grading gives up the projection; a fix before it pins the projection again.
NextProjection(cmd, rev) ==
  IF cmd.kind = "fix" /\ cmd.projection # None THEN [cmd.projection EXCEPT !.parent = rev] ELSE None

\* Where the marks on the page are: in the projection, then in a file of their own.
NextGeometry(parent, cmd) ==
  IF cmd.kind \in {"regrade", "finalize"} /\ parent.geometry = "pages" THEN "compact" ELSE parent.geometry

\* Everything the materializer refuses: a parent it cannot take for what it says it is,
\* another state than was read, scores or fixes that do not fit.
Accepted(parent, cmd, rev) ==
  /\ cmd.state = parent.state /\ ParentAccepted(parent, rev)
  /\ cmd.kind # "fix" => Adapted(parent, rev) # None
  /\ cmd.kind = "finalize" => parent.scores # None
  /\ cmd.kind = "correct" =>
       LET state == Corrections(parent, cmd, rev)
       IN HistoryValid(state.events) /\ NewSuffix(state.events, rev) /\ Replays(state.baseline.answers, Edits(state.events))
  /\ cmd.kind \in {"regrade", "finalize"} => cmd.scores = NextScores(parent, cmd, rev)
  /\ cmd.kind = "fix" => DOMAIN cmd.fixes \subseteq DOMAIN parent.answers
  /\ GradingEnvelope(cmd, parent)

NextState(cmd) ==
  CASE cmd.kind \in {"regrade", "correct"} -> "graded" [] cmd.kind = "finalize" -> "final"
    [] cmd.kind = "fix" -> cmd.state

NextCorrected(parent, cmd, rev) ==
  IF cmd.kind = "correct" THEN Corrected(Corrections(parent, cmd, rev)) ELSE parent.corrected

\* What the next generation says; what every reader is shown has the fixes laid over it.
Said(parent, cmd, rev) ==
  LET answers == NextAnswers(parent, cmd, rev)
      scores  == NextScores(parent, cmd, rev)
  IN [kind        |-> cmd.kind,
      state       |-> NextState(cmd),
      ids         |-> parent.ids,
      answers     |-> answers,
      corrected   |-> NextCorrected(parent, cmd, rev),
      key         |-> NextKey(parent, cmd),
      scores      |-> scores,
      average     |-> IF cmd.kind = "fix" THEN parent.average ELSE "rounded",
      summary     |-> IF scores = None THEN parent.summary ELSE Cardinality(Scored(scores)),
      projection  |-> NextProjection(cmd, rev),
      corrections |-> Corrections(parent, cmd, rev),
      fixes       |-> Fixes(parent, cmd),
      geometry    |-> NextGeometry(parent, cmd),
      shown       |-> Shown(parent.ids, Fixes(parent, cmd), scores),
      books       |-> {}, pictures |-> NoPictures]

\* Its books and pictures are made of it.
WithFiles(gen, books) == [gen EXCEPT !.books = books, !.pictures = Drawn(gen)]

\* The next generation with its books and pictures.
Materialized(parent, cmd, rev) ==
  LET gen == Said(parent, cmd, rev) IN WithFiles(gen, NextBooks(parent, cmd, gen))

-----------------------------------------------------------------------------
(***************************************************************************)
(* The first generation                                                    *)
(***************************************************************************)
\* A scan or an imported response workbook; only a scan has books of its own.
Recognized(origin, read) ==
  LET gen == [kind |-> origin, state |-> "recognized", ids |-> read.ids, answers |-> read.answers, corrected |-> {},
              key |-> UnsetKey, scores |-> None, average |-> "rounded", summary |-> 0,
              projection |-> [parent |-> 0, ids |-> read.ids, answers |-> read.answers],
              corrections |-> None, fixes |-> NoFixes,
              geometry |-> IF origin = "scan" THEN "pages" ELSE None,
              shown |-> Shown(read.ids, NoFixes, None), books |-> {}, pictures |-> NoPictures]
  IN WithFiles(gen, BooksOf(gen, FALSE, IF origin = "scan" THEN Written("scan", FALSE) ELSE {}))

\* A graded exam of an older version, which kept neither projection nor corrections, named
\* its books in another way and may have kept the average unrounded.
Fixed20(read, key, average) ==
  LET scores == ScoreSet(read.answers, key)
      gen == [kind |-> "fixed20", state |-> "graded", ids |-> read.ids, answers |-> read.answers, corrected |-> {},
              key |-> key, scores |-> scores, average |-> average, summary |-> Cardinality(Scored(scores)),
              projection |-> None, corrections |-> None, fixes |-> NoFixes, geometry |-> "compact",
              shown |-> Shown(read.ids, NoFixes, scores), books |-> {}, pictures |-> NoPictures]
  IN WithFiles(gen, BooksOf(gen, TRUE, Written("regrade", TRUE)))

First == {Recognized(origin, Reads[origin]) : origin \in Origins \ {"fixed20"}}
           \cup {Fixed20(Reads[origin], Reads[origin].key, average) :
                   origin \in Origins \cap {"fixed20"}, average \in {"rounded", "unrounded"}}

Idle == [kind |-> "idle"]

Init ==
  /\ hist \in {<<first>> : first \in First}
  /\ user = [u \in Users |-> Idle]

-----------------------------------------------------------------------------
(***************************************************************************)
(* The use cases: each reads the snapshot of the revision its page shows   *)
(***************************************************************************)
\* An operation is worked out; nothing is on the last generation, which bounds the runs.
Working(u, cmd) ==
  /\ user[u] = Idle /\ Revision < MaxRevision
  /\ user' = [user EXCEPT ![u] = cmd] /\ UNCHANGED hist

Questions == UNION {DOMAIN Current.answers[s] : s \in DOMAIN Current.answers}

Graded == Current.state \in {"graded", "final"}

\* Grading, also of an exam that is graded or final.  The key asks no question the
\* sheets do not print.
Regrade(u, key) ==
  /\ GradingReads(Current)
  /\ AskedOffForm(key, Printed(Current.answers, DOMAIN key)) = {}
  /\ Working(u, [kind |-> "regrade", rev |-> Revision, state |-> Current.state, key |-> key,
                 scores |-> ScoreSet(Current.answers, key)])

Finalize(u) ==
  /\ GradingReads(Current) /\ Current.state = "graded"
  /\ Working(u, [kind |-> "finalize", rev |-> Revision, state |-> Current.state, key |-> Current.key,
                 scores |-> Current.scores])

\* All fixes of the exam with the one of `sheet` set, or taken away when it goes back
\* to what was read.
NewFixes(gen, sheet, target) ==
  LET others == DOMAIN gen.fixes \ {sheet}
  IN IF target = gen.ids[sheet].id THEN [s \in others |-> gen.fixes[s]]
     ELSE [s \in others \cup {sheet} |-> IF s = sheet THEN target ELSE gen.fixes[s]]

FixId(u, sheet, target) ==
  /\ GradingReads(Current) /\ Current.state \in {"recognized", "graded"}
  /\ NewFixes(Current, sheet, target) # Current.fixes
  /\ Working(u, [kind |-> "fix", rev |-> Revision, state |-> Current.state, sheet |-> sheet,
                 fixes |-> NewFixes(Current, sheet, target), projection |-> Current.projection])

\* The expected revision is still the current one.
MayCommit(cmd) == cmd.rev = Revision /\ Revision < MaxRevision

\* A correction starts from the value shown.
Draft(s, q, after) == [sheet |-> s, q |-> q, before |-> Current.answers[s][q], after |-> after]

\* What the page may ask for: one or two corrections of answers.
Batches ==
  LET Real == {e \in {Draft(s, q, after) : s \in DOMAIN Current.answers, q \in Questions, after \in Changed} :
                 e.after # e.before}
  IN {<<e>> : e \in Real} \cup {<<e, f>> : e, f \in Real}

Applicable(edits) == Graded /\ CorrectionReads(Current, Revision) /\ Replays(Current.answers, edits)

\* The batch on the snapshot it is for.
Correction(edits) ==
  LET answers == Replay(Current.answers, edits)
  IN [kind |-> "correct", rev |-> Revision, state |-> Current.state, edits |-> edits,
      answers |-> answers, scores |-> ScoreSet(answers, Current.key)]

\* The preview keeps its snapshot until the batch is saved or given up; the one before
\* is given up first.
Preview(u, edits) ==
  /\ user[u] = Idle \/ user[u].kind = "correct"
  /\ Applicable(edits) /\ Revision < MaxRevision
  /\ user' = [user EXCEPT ![u] = Correction(edits)]
  /\ UNCHANGED hist

\* Another batch than the one previewed is saved: it is previewed first, on the revision
\* of the page.
SaveOther(u, edits) ==
  /\ user[u].kind = "correct" /\ user[u].edits # edits /\ MayCommit(user[u])
  /\ Applicable(edits) /\ Accepted(Current, Correction(edits), Revision)
  /\ hist' = Append(hist, Materialized(Current, Correction(edits), Revision))
  /\ user' = [user EXCEPT ![u] = Idle]

ClosePending(u) ==
  /\ user[u].kind = "correct"
  /\ user' = [user EXCEPT ![u] = Idle]
  /\ UNCHANGED hist

Commit(u) ==
  /\ user[u] # Idle /\ MayCommit(user[u]) /\ Accepted(Current, user[u], Revision)
  /\ hist' = Append(hist, Materialized(Current, user[u], Revision))
  /\ user' = [user EXCEPT ![u] = Idle]

\* Another program was faster, or the materializer refuses: nothing is saved.
Refused(u) ==
  /\ user[u] # Idle /\ ~(MayCommit(user[u]) /\ Accepted(Current, user[u], Revision))
  /\ user' = [user EXCEPT ![u] = Idle]
  /\ UNCHANGED hist

Next ==
  \E u \in Users :
    \/ \E key \in Keys : Regrade(u, key)
    \/ Finalize(u)
    \/ \E sheet \in DOMAIN Current.ids, target \in Targets : FixId(u, sheet, target)
    \/ \E edits \in Batches : Preview(u, edits) \/ SaveOther(u, edits)
    \/ ClosePending(u) \/ Commit(u) \/ Refused(u)

Spec == Init /\ [][Next]_vars

-----------------------------------------------------------------------------
(***************************************************************************)
(* Properties                                                              *)
(***************************************************************************)
\* Whatever was committed can be read again: for grading, for the page of a graded exam,
\* and as the parent of the next generation (materialize against read_grading_snapshot and
\* read_correction_snapshot, which check the same facts from three sides).  So an operation
\* worked out on the current generation is never refused: no order of grading, fixes and
\* corrections leads into a dead end.  Only the fix of an exam that still has the average of
\* 2.1.0 is refused.
ReadsBack ==
  /\ GradingReads(Current)
  /\ Graded => CorrectionReads(Current, Revision)
  /\ \A u \in Users : user[u] # Idle /\ MayCommit(user[u]) =>
       Accepted(Current, user[u], Revision) \/ (user[u].kind = "fix" /\ Current.average = "unrounded")

\* The corrections a generation was made for: from the first that is committed with it.
NewEvents(gen, rev) ==
  IF gen.kind # "correct" THEN <<>>
  ELSE LET events == gen.corrections.events
           first  == CHOOSE n \in DOMAIN events :
                       events[n].committed = rev /\ \A m \in 1..n - 1 : events[m].committed # rev
       IN SubSeq(events, first, Len(events))

\* The corrections ever committed, in order.
MadeIn(gens) ==
  LET made[n \in 0..Len(gens)] == IF n = 0 THEN <<>> ELSE made[n - 1] \o NewEvents(gens[n], n)
  IN made[Len(gens)]

Made == MadeIn(hist)

\* What was read is never lost: every generation is the first one with all corrections
\* made since, each once and in order, and no later version claims to know more of an
\* old exam's history than was kept.
ReadIsKept ==
  /\ \A i \in DOMAIN hist : hist[i].ids = hist[1].ids
  /\ Replay(hist[1].answers, Edits(Made)) = Current.answers
  /\ Current.corrections # None =>
       /\ Current.corrections.baseline.answers = hist[1].answers
       /\ Current.corrections.events = Made
       /\ Current.corrections.complete = (hist[1].kind # "fixed20")

\* Scores, ranks and names shown are those of the answers, the key and the fixes of the
\* same generation, and so are all of its books, but those an older version named, which
\* a fix leaves as they are.  The final book marks as corrected what was, and marks and
\* pictures stay with every page of a scanned exam.
ShowsItself ==
  /\ Graded => Current.scores = ScoreSet(Current.answers, Current.key)
  /\ Current.shown = Shown(Current.ids, Current.fixes, Current.scores)
  /\ \A b \in Current.books : b.tells = Tells(b.kind, Current) \/ b.old
  /\ Current.corrected = {Target(Made[i].edit) : i \in DOMAIN Made}
  /\ hist[1].geometry # None =>
       /\ Current.geometry = IF Graded THEN "compact" ELSE "pages"
       /\ Graded => DOMAIN Current.pictures = DOMAIN Current.ids

\* The batch the current generation was made of.
Batch == Edits(NewEvents(Current, Revision))

\* A generation changes what its operation was asked for.  The fix of at most the sheet a
\* teacher fixed: neither another program's fix nor one from before a regrade or a
\* correction is lost (fix builds the whole list from the snapshot it read).  And a batch
\* of corrections gives the answers and the scores its preview showed, which the page goes
\* on showing.
DoesWhatWasAsked ==
  [][\A u \in Users : hist' # hist /\ user'[u] # user[u] =>
       /\ \A s \in DOMAIN Current.ids :
            \/ user[u].kind = "fix" /\ user[u].sheet = s
            \/ /\ (s \in DOMAIN Current'.fixes) = (s \in DOMAIN Current.fixes)
               /\ s \in DOMAIN Current.fixes => Current'.fixes[s] = Current.fixes[s]
       /\ user[u].kind = "correct" =>
            \E preview \in {user[u]} \cup {Correction(edits) : edits \in Batches} :
              /\ Batch' = preview.edits
              /\ Current'.answers = preview.answers /\ Current'.scores = preview.scores]_vars
=============================================================================
