------------------------------- MODULE Grading -------------------------------
(***************************************************************************)
(* Scoring as pure operators: what a key makes of the answers of a sheet,  *)
(* the scores and ranks of an exam, and the statistics shown with them.    *)
(*                                                                         *)
(* An answer is [status, choices]; a key entry is [status, choices,        *)
(* points].  A score of NoScore is one a person has to look at first.      *)
(***************************************************************************)
EXTENDS Integers, FiniteSets, FiniteSetsExt

NoScore == -1
NoRank  == 0

Answer(status, choices) == [status |-> status, choices |-> choices]

\* "review" whenever the reader was not sure, also where every answer counts.
Outcome(answer, entry) ==
  IF entry.status = "unasked" THEN "excluded"
  ELSE IF answer.status = "uncertain" THEN "review"
  ELSE IF entry.status = "all" \/ answer.choices = entry.choices THEN "correct"
  ELSE "incorrect"

Outcomes(answers, key) == [q \in DOMAIN key |-> Outcome(answers[q], key[q])]

\* Mutant of Score: an uncertain answer counts as wrong.
ScoreDespiteReview(answers, key) ==
  MapThenSumSet(LAMBDA q : key[q].points, {q \in DOMAIN key : Outcomes(answers, key)[q] = "correct"})

\* One uncertain answer leaves the whole sheet without a score.
Score(answers, key) ==
  LET outcomes == Outcomes(answers, key)
  IN IF \E q \in DOMAIN key : outcomes[q] = "review" THEN NoScore
     ELSE MapThenSumSet(LAMBDA q : key[q].points, {q \in DOMAIN key : outcomes[q] = "correct"})

\* Mutant of Rank: as many ranks as there are different scores.
RankDense(sheet, scores) ==
  IF scores[sheet] = NoScore THEN NoRank
  ELSE 1 + Cardinality({scores[s] : s \in {t \in DOMAIN scores : scores[t] > scores[sheet]}})

\* Equal scores share a rank, and the ranks after them are skipped.
Rank(sheet, scores) ==
  IF scores[sheet] = NoScore THEN NoRank
  ELSE 1 + Cardinality({s \in DOMAIN scores : scores[s] > scores[sheet]})

\* score_effective: the rows are those of the sheets, whatever student each is of.
ScoreSet(answers, key) ==
  LET scores == [s \in DOMAIN answers |-> Score(answers[s], key)]
  IN [s \in DOMAIN answers |-> [score |-> scores[s], rank |-> Rank(s, scores)]]

Maximum(key) == MapThenSumSet(LAMBDA q : key[q].points, {q \in DOMAIN key : key[q].status # "unasked"})

Scored(scores) == {s \in DOMAIN scores : scores[s].score # NoScore}

\* Mutant of Average: cut off, not rounded.
AverageCut(scores, unit) ==
  (MapThenSumSet(LAMBDA s : scores[s].score, Scored(scores)) * unit) \div Cardinality(Scored(scores))

\* The mean in units of 1/unit, a half of a unit rounded up.
Average(scores, unit) ==
  LET total == MapThenSumSet(LAMBDA s : scores[s].score, Scored(scores)) * unit
      n     == Cardinality(Scored(scores))
  IN total \div n + (IF 2 * (total % n) >= n THEN 1 ELSE 0)

\* The statistics of a score set; an exam nobody of which could be scored has none.
Statistics(scores, unit) ==
  IF Scored(scores) = {} THEN [count |-> 0, average |-> NoScore, highest |-> NoScore, lowest |-> NoScore]
  ELSE LET values == {scores[s].score : s \in Scored(scores)}
       IN [count |-> Cardinality(Scored(scores)), average |-> Average(scores, unit),
           highest |-> Max(values), lowest |-> Min(values)]

-----------------------------------------------------------------------------
(***************************************************************************)
(* Questions the sheets do not print, and student IDs that were fixed      *)
(***************************************************************************)
\* Asked on every sheet: one sheet without a question is enough to leave it out.
Printed(answers, questions) ==
  {q \in questions : \A s \in DOMAIN answers : answers[s][q].status # "unasked"}

AskedOffForm(key, printed) == {q \in DOMAIN key : key[q].status # "unasked" /\ q \notin printed}

ValidId == {"normal", "duplicate"}

\* The IDs read, with the teacher's fixes over them.
Fixed(ids, fixes) ==
  [s \in DOMAIN ids |-> IF s \in DOMAIN fixes THEN [id |-> fixes[s], status |-> "normal"] ELSE ids[s]]

\* Mutant of WithFixes: only the sheets that were fixed are counted again.
WithFixesHalf(ids, fixes) ==
  LET fixed == Fixed(ids, fixes)
      Same(s) == {t \in DOMAIN fixed : fixed[t].status \in ValidId /\ fixed[t].id = fixed[s].id}
  IN [s \in DOMAIN fixed |->
        IF s \in DOMAIN fixes
        THEN [fixed[s] EXCEPT !.status = IF Cardinality(Same(s)) > 1 THEN "duplicate" ELSE "normal"]
        ELSE fixed[s]]

\* What results show: with a fix, duplicates are counted afresh over the whole exam.
WithFixes(ids, fixes) ==
  LET fixed == Fixed(ids, fixes)
      Same(s) == {t \in DOMAIN fixed : fixed[t].status \in ValidId /\ fixed[t].id = fixed[s].id}
  IN IF DOMAIN fixes = {} THEN ids
     ELSE [s \in DOMAIN fixed |->
             IF fixed[s].status \in ValidId
             THEN [fixed[s] EXCEPT !.status = IF Cardinality(Same(s)) > 1 THEN "duplicate" ELSE "normal"]
             ELSE fixed[s]]
=============================================================================
