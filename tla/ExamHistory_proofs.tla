------------------------- MODULE ExamHistory_proofs -------------------------
(***************************************************************************)
(* Proofs about the content of an exam's generations (ExamHistory), for    *)
(* any exam, any keys, any number of programs and of generations: whatever *)
(* was committed can be read and built on, is explained by what was first  *)
(* read and the corrections since, and changes what was asked for.         *)
(***************************************************************************)
EXTENDS ExamHistory, TLAPS, SequenceTheorems, WellFoundedInduction

-----------------------------------------------------------------------------
(***************************************************************************)
(* Induction and recursion over the positions of a sequence                *)
(***************************************************************************)
\* What holds at 0 and is passed on holds up to N.
LEMMA UpTo ==
  ASSUME NEW S, NEW N \in Nat, 0 \in S, \A n \in 0..N : n # N /\ n \in S => n + 1 \in S
  PROVE  \A n \in 0..N : n \in S
<1> DEFINE Bad == {n \in 0..N : n \notin S}
<1> SUFFICES ASSUME Bad # {} PROVE FALSE
  OBVIOUS
<1>1. Bad \subseteq Nat
  OBVIOUS
<1>2. PICK least \in Bad : \A n \in Bad : ~(<<n, least>> \in OpToRel(<, Nat))
  BY <1>1, NatLessThanWellFounded, WFMin
<1>3. ASSUME NEW n \in Bad PROVE ~(n < least)
  <2>1. <<n, least>> \in Nat \X Nat
    BY <1>1
  <2> QED BY <1>2, <2>1 DEF OpToRel
<1>4. least \in 0..N /\ least # 0 /\ least \notin S
  OBVIOUS
<1>5. least - 1 \in 0..N /\ least - 1 < least
  BY <1>4
<1>6. least - 1 \notin Bad
  BY <1>3, <1>5
<1>7. least - 1 \in S
  BY <1>5, <1>6
<1>8. (least - 1) + 1 \in S
  BY <1>4, <1>5, <1>7
<1> QED BY <1>4, <1>8

\* The ways to take the first N steps.
Paths(A, first, step, N) == {f \in [0..N -> A] : f[0] = first /\ \A n \in 1..N : f[n] = step[n][f[n - 1]]}

\* A step that stays in A can be taken any number of times.
LEMMA Iterates ==
  ASSUME NEW A, NEW first \in A, NEW N \in Nat, NEW step \in [1..N -> [A -> A]]
  PROVE  Paths(A, first, step, N) # {}
<1> DEFINE S == {n \in 0..N : Paths(A, first, step, n) # {}}
<1>1. 0 \in S
  <2>1. [m \in 0..0 |-> first] \in Paths(A, first, step, 0)
    BY DEF Paths
  <2> QED BY <2>1
<1>2. ASSUME NEW n \in 0..N, n # N, n \in S PROVE n + 1 \in S
  <2>1. PICK f : f \in Paths(A, first, step, n)
    BY <1>2
  <2>2. f \in [0..n -> A] /\ f[0] = first /\ \A m \in 1..n : f[m] = step[m][f[m - 1]]
    BY <2>1 DEF Paths
  <2> DEFINE g == [m \in 0..n + 1 |-> IF m = n + 1 THEN step[n + 1][f[n]] ELSE f[m]]
  <2>3. step[n + 1][f[n]] \in A
    <3>1. f[n] \in A /\ n + 1 \in 1..N
      BY <1>2, <2>2
    <3> QED BY <3>1
  <2>4. g \in [0..n + 1 -> A]
    BY <2>2, <2>3
  <2>5. \A m \in 0..n : g[m] = f[m]
    OBVIOUS
  <2>6. g[n + 1] = step[n + 1][f[n]]
    BY <1>2
  <2> HIDE DEF g
  <2>7. ASSUME NEW m \in 1..n + 1 PROVE g[m] = step[m][g[m - 1]]
    <3>1. CASE m = n + 1
      <4>1. m - 1 = n /\ n \in 0..n
        BY <1>2, <3>1
      <4> QED BY <2>5, <2>6, <3>1, <4>1
    <3>2. CASE m # n + 1
      <4>1. m \in 1..n /\ m - 1 \in 0..n /\ m \in 0..n
        BY <3>2
      <4> QED BY <2>2, <2>5, <4>1
    <3> QED BY <3>1, <3>2
  <2>8. g[0] = first
    BY <1>2, <2>2, <2>5
  <2>9. g \in Paths(A, first, step, n + 1)
    BY <2>4, <2>7, <2>8 DEF Paths
  <2>10. n + 1 \in 0..N /\ Paths(A, first, step, n + 1) # {}
    BY <1>2, <2>9
  <2> QED BY <2>10
<1> HIDE DEF S
<1>3. \A n \in 0..N : n \in S
  BY <1>1, <1>2, UpTo
<1>4. N \in 0..N
  OBVIOUS
<1> QED BY <1>3, <1>4 DEF S

-----------------------------------------------------------------------------
(***************************************************************************)
(* The replay of corrections                                               *)
(***************************************************************************)
\* A correction leaves an answer to every question.
LEMMA AppliedType ==
  ASSUME NEW o \in Origins, NEW a \in Answerings(o), NEW e \in Edit(o)
  PROVE  Applied(a, e) \in Answerings(o)
<1>1. e.sheet \in SheetsOf(o) /\ e.q \in QuestionsOf(o) /\ e.after \in AnswersOf(o)
  BY DEF Edit
<1>2. a[e.sheet] \in [QuestionsOf(o) -> AnswersOf(o)]
  BY <1>1 DEF Answerings
<1>3. [a[e.sheet] EXCEPT ![e.q] = e.after] \in [QuestionsOf(o) -> AnswersOf(o)]
  BY <1>1, <1>2
<1> QED BY <1>1, <1>3 DEF Applied, Answerings

\* What the replay is: the baseline, then one correction after the other.
LEMMA ReplayedIs ==
  ASSUME NEW o \in Origins, NEW a \in Answerings(o), NEW e \in Seq(Edit(o))
  PROVE  /\ Replayed(a, e) \in [0..Len(e) -> Answerings(o)]
         /\ Replayed(a, e)[0] = a
         /\ \A n \in 1..Len(e) : Replayed(a, e)[n] = Applied(Replayed(a, e)[n - 1], e[n])
<1> DEFINE step == [n \in 1..Len(e) |-> [x \in Answerings(o) |-> Applied(x, e[n])]]
           Is(h) == h = [n \in 0..Len(e) |-> IF n = 0 THEN a ELSE Applied(h[n - 1], e[n])]
<1>1. Len(e) \in Nat /\ \A n \in 1..Len(e) : e[n] \in Edit(o)
  OBVIOUS
<1>2. step \in [1..Len(e) -> [Answerings(o) -> Answerings(o)]]
  <2>1. ASSUME NEW n \in 1..Len(e), NEW x \in Answerings(o) PROVE Applied(x, e[n]) \in Answerings(o)
    BY <1>1, AppliedType
  <2> QED BY <2>1
<1>3. PICK f \in [0..Len(e) -> Answerings(o)] : f[0] = a /\ \A n \in 1..Len(e) : f[n] = step[n][f[n - 1]]
  <2> HIDE DEF step
  <2>1. Paths(Answerings(o), a, step, Len(e)) # {}
    BY <1>1, <1>2, Iterates
  <2> QED BY <2>1 DEF Paths
<1>4. \A n \in 1..Len(e) : f[n] = Applied(f[n - 1], e[n])
  <2> TAKE n \in 1..Len(e)
  <2>1. f[n - 1] \in Answerings(o)
    <3>1. n - 1 \in 0..Len(e)
      BY <1>1
    <3> QED BY <3>1
  <2>2. step[n][f[n - 1]] = Applied(f[n - 1], e[n])
    BY <2>1
  <2> QED BY <1>3, <2>2
<1>5. Is(f)
  <2>1. ASSUME NEW n \in 0..Len(e) PROVE f[n] = IF n = 0 THEN a ELSE Applied(f[n - 1], e[n])
    <3>1. CASE n = 0
      BY <1>3, <3>1
    <3>2. CASE n # 0
      <4>1. n \in 1..Len(e)
        BY <1>1, <3>2
      <4> QED BY <1>4, <3>2, <4>1
    <3> QED BY <3>1, <3>2
  <2> QED BY <2>1
<1>6. Replayed(a, e) = CHOOSE g : Is(g)
  BY DEF Replayed
<1>7. Is(Replayed(a, e))
  <2> HIDE DEF Is
  <2> QED BY <1>5, <1>6
<1>8. ASSUME NEW g, Is(g) PROVE \A n \in 0..Len(e) : g[n] = f[n]
  <2> DEFINE S == {n \in 0..Len(e) : g[n] = f[n]}
  <2>1. 0 \in S
    BY <1>1, <1>3, <1>8
  <2>2. ASSUME NEW n \in 0..Len(e), n # Len(e), n \in S PROVE n + 1 \in S
    <3>1. n + 1 \in 0..Len(e) /\ n + 1 \in 1..Len(e) /\ n + 1 # 0 /\ (n + 1) - 1 = n
      BY <1>1, <2>2
    <3>2. g[n + 1] = Applied(g[n], e[n + 1])
      BY <1>8, <3>1
    <3>3. f[n + 1] = Applied(f[n], e[n + 1])
      BY <1>4, <3>1
    <3> QED BY <2>2, <3>1, <3>2, <3>3
  <2> HIDE DEF S
  <2>3. \A n \in 0..Len(e) : n \in S
    BY <1>1, <2>1, <2>2, UpTo
  <2> QED BY <2>3 DEF S
<1>9. Replayed(a, e) = f
  <2> DEFINE g == Replayed(a, e)
  <2>1. g = [n \in 0..Len(e) |-> g[n]]
    BY <1>7
  <2>2. \A n \in 0..Len(e) : g[n] = f[n]
    <3> HIDE DEF Is
    <3> QED BY <1>7, <1>8
  <2> HIDE DEF g
  <2>3. g = f
    BY <2>1, <2>2
  <2> QED BY <2>3 DEF g
<1> QED BY <1>3, <1>4, <1>9

\* The replay of a longer history goes through that of a shorter one, and on from there.
LEMMA ReplayedOn ==
  ASSUME NEW o \in Origins, NEW a \in Answerings(o), NEW s \in Seq(Edit(o)), NEW t \in Seq(Edit(o))
  PROVE  /\ \A n \in 0..Len(s) : Replayed(a, s \o t)[n] = Replayed(a, s)[n]
         /\ \A n \in 0..Len(t) : Replayed(a, s \o t)[Len(s) + n] = Replayed(Replay(a, s), t)[n]
<1> DEFINE all == s \o t
           b == Replay(a, s)
<1>1. /\ all \in Seq(Edit(o)) /\ Len(all) = Len(s) + Len(t)
      /\ Len(s) \in Nat /\ Len(t) \in Nat
      /\ \A n \in 1..Len(s) : all[n] = s[n]
      /\ \A n \in 1..Len(t) : all[Len(s) + n] = t[n]
  OBVIOUS
<1>2. b \in Answerings(o)
  BY <1>1, ReplayedIs DEF Replay
<1> HIDE DEF all, b
<1>5. \A n \in 1..Len(all) : Replayed(a, all)[n] = Applied(Replayed(a, all)[n - 1], all[n])
  BY <1>1, ReplayedIs
<1>3. \A n \in 0..Len(s) : Replayed(a, all)[n] = Replayed(a, s)[n]
  <2> DEFINE S == {n \in 0..Len(s) : Replayed(a, all)[n] = Replayed(a, s)[n]}
  <2>1. 0 \in S
    BY <1>1, ReplayedIs
  <2>2. ASSUME NEW n \in 0..Len(s), n # Len(s), n \in S PROVE n + 1 \in S
    <3>1. n + 1 \in 0..Len(s) /\ n + 1 \in 1..Len(s) /\ n + 1 \in 1..Len(all) /\ (n + 1) - 1 = n
      BY <1>1, <2>2
    <3>2. Replayed(a, all)[n + 1] = Applied(Replayed(a, all)[n], all[n + 1])
      BY <1>5, <3>1
    <3>3. Replayed(a, s)[n + 1] = Applied(Replayed(a, s)[n], s[n + 1])
      BY <3>1, ReplayedIs
    <3> QED BY <1>1, <2>2, <3>1, <3>2, <3>3
  <2> HIDE DEF S
  <2>3. \A n \in 0..Len(s) : n \in S
    BY <1>1, <2>1, <2>2, UpTo
  <2> QED BY <2>3 DEF S
<1>4. \A n \in 0..Len(t) : Replayed(a, all)[Len(s) + n] = Replayed(b, t)[n]
  <2> DEFINE S == {n \in 0..Len(t) : Replayed(a, all)[Len(s) + n] = Replayed(b, t)[n]}
  <2>1. 0 \in S
    <3>1. Replayed(b, t)[0] = b
      BY <1>2, ReplayedIs
    <3>2. Replayed(a, all)[Len(s)] = b
      BY <1>1, <1>3 DEF b, Replay
    <3> QED BY <1>1, <3>1, <3>2
  <2>2. ASSUME NEW n \in 0..Len(t), n # Len(t), n \in S PROVE n + 1 \in S
    <3>1. /\ n + 1 \in 0..Len(t) /\ n + 1 \in 1..Len(t) /\ (n + 1) - 1 = n
          /\ Len(s) + (n + 1) \in 1..Len(all) /\ (Len(s) + (n + 1)) - 1 = Len(s) + n
      BY <1>1, <2>2
    <3>2. Replayed(a, all)[Len(s) + (n + 1)] = Applied(Replayed(a, all)[Len(s) + n], all[Len(s) + (n + 1)])
      BY <1>5, <3>1
    <3>3. Replayed(b, t)[n + 1] = Applied(Replayed(b, t)[n], t[n + 1])
      BY <1>2, <3>1, ReplayedIs
    <3> QED BY <1>1, <2>2, <3>1, <3>2, <3>3
  <2> HIDE DEF S
  <2>3. \A n \in 0..Len(t) : n \in S
    BY <1>1, <2>1, <2>2, UpTo
  <2> QED BY <2>3 DEF S
<1> QED BY <1>3, <1>4 DEF all, b

\* So a history and a batch after it replay as one.
LEMMA ReplayOn ==
  ASSUME NEW o \in Origins, NEW a \in Answerings(o), NEW s \in Seq(Edit(o)), NEW t \in Seq(Edit(o))
  PROVE  /\ Replay(a, s) \in Answerings(o)
         /\ Replay(a, s \o t) = Replay(Replay(a, s), t)
         /\ Replays(a, s) /\ Replays(Replay(a, s), t) => Replays(a, s \o t)
<1>1. /\ s \o t \in Seq(Edit(o)) /\ Len(s \o t) = Len(s) + Len(t)
      /\ Len(s) \in Nat /\ Len(t) \in Nat
      /\ \A n \in 1..Len(s) : (s \o t)[n] = s[n]
      /\ \A n \in 1..Len(t) : (s \o t)[Len(s) + n] = t[n]
  OBVIOUS
<1>2. Replay(a, s) \in Answerings(o)
  BY <1>1, ReplayedIs DEF Replay
<1>3. Replay(a, s \o t) = Replay(Replay(a, s), t)
  <2>1. Replayed(a, s \o t)[Len(s) + Len(t)] = Replayed(Replay(a, s), t)[Len(t)]
    BY <1>1, ReplayedOn
  <2> QED BY <1>1, <2>1 DEF Replay
<1>4. ASSUME Replays(a, s), Replays(Replay(a, s), t), NEW n \in 1..Len(s \o t)
      PROVE  Applies(Replayed(a, s \o t)[n - 1], (s \o t)[n])
  <2>1. CASE n <= Len(s)
    <3>1. n \in 1..Len(s) /\ n - 1 \in 0..Len(s)
      BY <1>1, <2>1
    <3>2. Replayed(a, s \o t)[n - 1] = Replayed(a, s)[n - 1]
      BY <3>1, ReplayedOn
    <3> QED BY <1>1, <1>4, <3>1, <3>2 DEF Replays
  <2>2. CASE n > Len(s)
    <3> DEFINE m == n - Len(s)
    <3>1. m \in 1..Len(t) /\ m - 1 \in 0..Len(t) /\ n = Len(s) + m /\ n - 1 = Len(s) + (m - 1)
      BY <1>1, <2>2
    <3> HIDE DEF m
    <3>2. Replayed(a, s \o t)[n - 1] = Replayed(Replay(a, s), t)[m - 1]
      BY <3>1, ReplayedOn
    <3>3. (s \o t)[n] = t[m]
      BY <1>1, <3>1
    <3> QED BY <1>4, <3>1, <3>2, <3>3 DEF Replays
  <2> QED BY <1>1, <2>1, <2>2
<1> QED BY <1>2, <1>3, <1>4 DEF Replays

-----------------------------------------------------------------------------
(***************************************************************************)
(* The corrections made in a chain of generations                          *)
(***************************************************************************)
\* One generation more.
LEMMA AppendIs ==
  ASSUME NEW S, NEW h \in Seq(S), NEW g
  PROVE  /\ Append(h, g) \in Seq(S \cup {g})
         /\ Len(h) \in Nat /\ Len(Append(h, g)) = Len(h) + 1
         /\ Append(h, g)[Len(h) + 1] = g
         /\ \A n \in 1..Len(h) : Append(h, g)[n] = h[n]
<1>1. h \in Seq(S \cup {g})
  OBVIOUS
<1> QED BY <1>1

\* MadeIn goes through the generations from the first to the last.
LEMMA MadeIs ==
  ASSUME NEW E, NEW h, Len(h) \in Nat, \A n \in 1..Len(h) : NewEvents(h[n], n) \in Seq(E)
  PROVE  \E f \in [0..Len(h) -> Seq(E)] :
           /\ f[0] = <<>> /\ \A n \in 1..Len(h) : f[n] = f[n - 1] \o NewEvents(h[n], n)
           /\ MadeIn(h) = f[Len(h)]
<1> DEFINE step == [n \in 1..Len(h) |-> [x \in Seq(E) |-> x \o NewEvents(h[n], n)]]
           Is(f) == f = [n \in 0..Len(h) |-> IF n = 0 THEN <<>> ELSE f[n - 1] \o NewEvents(h[n], n)]
<1>1. step \in [1..Len(h) -> [Seq(E) -> Seq(E)]]
  <2>1. ASSUME NEW n \in 1..Len(h), NEW x \in Seq(E) PROVE x \o NewEvents(h[n], n) \in Seq(E)
    <3>1. NewEvents(h[n], n) \in Seq(E)
      OBVIOUS
    <3> QED BY <3>1
  <2> QED BY <2>1
<1>2. PICK f \in [0..Len(h) -> Seq(E)] : f[0] = <<>> /\ \A n \in 1..Len(h) : f[n] = step[n][f[n - 1]]
  <2> HIDE DEF step
  <2>1. <<>> \in Seq(E)
    OBVIOUS
  <2>2. Paths(Seq(E), <<>>, step, Len(h)) # {}
    BY <1>1, <2>1, Iterates
  <2> QED BY <2>2 DEF Paths
<1>3. \A n \in 1..Len(h) : f[n] = f[n - 1] \o NewEvents(h[n], n)
  <2> TAKE n \in 1..Len(h)
  <2>1. f[n - 1] \in Seq(E)
    <3>1. n - 1 \in 0..Len(h)
      OBVIOUS
    <3> QED BY <3>1
  <2>2. step[n][f[n - 1]] = f[n - 1] \o NewEvents(h[n], n)
    BY <2>1
  <2> QED BY <1>2, <2>2
<1>4. Is(f)
  <2>1. ASSUME NEW n \in 0..Len(h) PROVE f[n] = IF n = 0 THEN <<>> ELSE f[n - 1] \o NewEvents(h[n], n)
    <3>1. CASE n = 0
      BY <1>2, <3>1
    <3>2. CASE n # 0
      <4>1. n \in 1..Len(h)
        BY <3>2
      <4> QED BY <1>3, <3>2, <4>1
    <3> QED BY <3>1, <3>2
  <2> QED BY <2>1
<1> DEFINE made == CHOOSE g : Is(g)
<1>5. MadeIn(h) = made[Len(h)]
  BY DEF MadeIn
<1>6. Is(made)
  <2> HIDE DEF Is
  <2> QED BY <1>4
<1> HIDE DEF made
<1>7. \A n \in 0..Len(h) : made[n] = f[n]
  <2> DEFINE S == {n \in 0..Len(h) : made[n] = f[n]}
  <2>1. 0 \in S
    BY <1>2, <1>6
  <2>2. ASSUME NEW n \in 0..Len(h), n # Len(h), n \in S PROVE n + 1 \in S
    <3>1. n + 1 \in 0..Len(h) /\ n + 1 \in 1..Len(h) /\ n + 1 # 0 /\ (n + 1) - 1 = n
      BY <2>2
    <3>2. made[n + 1] = made[n] \o NewEvents(h[n + 1], n + 1)
      BY <1>6, <3>1
    <3>3. f[n + 1] = f[n] \o NewEvents(h[n + 1], n + 1)
      BY <1>3, <3>1
    <3> QED BY <2>2, <3>1, <3>2, <3>3
  <2> HIDE DEF S
  <2>3. \A n \in 0..Len(h) : n \in S
    BY <2>1, <2>2, UpTo
  <2> QED BY <2>3 DEF S
<1>8. MadeIn(h) = f[Len(h)]
  BY <1>5, <1>7
<1> QED BY <1>2, <1>3, <1>8

\* A generation adds its own corrections to those made before it.
LEMMA MadeOn ==
  ASSUME NEW E, NEW S, NEW h \in Seq(S), NEW g,
         \A n \in 1..Len(h) : NewEvents(h[n], n) \in Seq(E), NewEvents(g, Len(h) + 1) \in Seq(E)
  PROVE  MadeIn(h) \in Seq(E) /\ MadeIn(Append(h, g)) = MadeIn(h) \o NewEvents(g, Len(h) + 1)
<1> DEFINE longer == Append(h, g)
<1>1. /\ Len(h) \in Nat /\ Len(longer) = Len(h) + 1
      /\ longer[Len(h) + 1] = g /\ \A n \in 1..Len(h) : longer[n] = h[n]
  BY AppendIs
<1> HIDE DEF longer
<1>2. ASSUME NEW n \in 1..Len(longer) PROVE NewEvents(longer[n], n) \in Seq(E)
  <2>1. CASE n = Len(h) + 1
    BY <1>1, <2>1
  <2>2. CASE n # Len(h) + 1
    <3>1. n \in 1..Len(h)
      BY <1>1, <2>2
    <3> QED BY <1>1, <3>1
  <2> QED BY <2>1, <2>2
<1>3. PICK f \in [0..Len(h) -> Seq(E)] :
        /\ f[0] = <<>> /\ \A n \in 1..Len(h) : f[n] = f[n - 1] \o NewEvents(h[n], n)
        /\ MadeIn(h) = f[Len(h)]
  BY <1>1, MadeIs
<1>4. PICK k \in [0..Len(longer) -> Seq(E)] :
        /\ k[0] = <<>> /\ \A n \in 1..Len(longer) : k[n] = k[n - 1] \o NewEvents(longer[n], n)
        /\ MadeIn(longer) = k[Len(longer)]
  <2>1. Len(longer) \in Nat
    BY <1>1
  <2>2. \A n \in 1..Len(longer) : NewEvents(longer[n], n) \in Seq(E)
    BY <1>2
  <2> QED BY <2>1, <2>2, MadeIs
<1>5. \A n \in 0..Len(h) : k[n] = f[n]
  <2> DEFINE T == {n \in 0..Len(h) : k[n] = f[n]}
  <2>1. 0 \in T
    BY <1>1, <1>3, <1>4
  <2>2. ASSUME NEW n \in 0..Len(h), n # Len(h), n \in T PROVE n + 1 \in T
    <3>1. n + 1 \in 0..Len(h) /\ n + 1 \in 1..Len(h) /\ n + 1 \in 1..Len(longer) /\ (n + 1) - 1 = n
      BY <1>1, <2>2
    <3>2. k[n + 1] = k[n] \o NewEvents(longer[n + 1], n + 1)
      BY <1>4, <3>1
    <3>3. f[n + 1] = f[n] \o NewEvents(h[n + 1], n + 1)
      BY <1>3, <3>1
    <3> QED BY <1>1, <2>2, <3>1, <3>2, <3>3
  <2> HIDE DEF T
  <2>3. \A n \in 0..Len(h) : n \in T
    BY <1>1, <2>1, <2>2, UpTo
  <2> QED BY <2>3 DEF T
<1>6. k[Len(h) + 1] = k[Len(h)] \o NewEvents(g, Len(h) + 1)
  <2>1. Len(h) + 1 \in 1..Len(longer) /\ (Len(h) + 1) - 1 = Len(h)
    BY <1>1
  <2> QED BY <1>1, <1>4, <2>1
<1>7. k[Len(h)] = f[Len(h)] /\ f[Len(h)] \in Seq(E)
  <2>1. Len(h) \in 0..Len(h)
    BY <1>1
  <2> QED BY <1>3, <1>5, <2>1
<1> QED BY <1>1, <1>3, <1>4, <1>6, <1>7 DEF longer

\* Before the first generation nothing was corrected.
LEMMA MadeFirst ==
  ASSUME NEW g, NewEvents(g, 1) = <<>>
  PROVE  MadeIn(<<g>>) = <<>>
<1> DEFINE h == <<g>>
<1>1. Len(h) = 1 /\ h[1] = g
  OBVIOUS
<1> HIDE DEF h
<1>2. \A n \in 1..Len(h) : NewEvents(h[n], n) \in Seq({})
  <2>1. <<>> \in Seq({})
    OBVIOUS
  <2> TAKE n \in 1..Len(h)
  <2>2. n = 1
    BY <1>1
  <2> QED BY <1>1, <2>1, <2>2
<1>3. PICK f \in [0..Len(h) -> Seq({})] :
        /\ f[0] = <<>> /\ \A n \in 1..Len(h) : f[n] = f[n - 1] \o NewEvents(h[n], n)
        /\ MadeIn(h) = f[Len(h)]
  <2>1. Len(h) \in Nat
    BY <1>1
  <2> QED BY <1>2, <2>1, MadeIs
<1>4. f[1] = f[0] \o NewEvents(h[1], 1)
  BY <1>1, <1>3
<1>5. f[1] = <<>>
  BY <1>1, <1>3, <1>4
<1> QED BY <1>1, <1>3, <1>5 DEF h

\* The new events of a generation are the batch at the end of its history.
LEMMA NewEventsAre ==
  ASSUME NEW E, NEW old \in Seq(E), NEW batch \in Seq(E), NEW rev, NEW gen,
         \A i \in 1..Len(old) : old[i].committed # rev,
         \A i \in 1..Len(batch) : batch[i].committed = rev, Len(batch) > 0,
         gen.kind = "correct", gen.corrections.events = old \o batch
  PROVE  NewEvents(gen, rev) = batch
<1> DEFINE all == old \o batch
           IsFirst(n) == n \in DOMAIN all /\ all[n].committed = rev /\ \A m \in 1..n - 1 : all[m].committed # rev
<1>1. /\ Len(all) = Len(old) + Len(batch) /\ Len(old) \in Nat /\ Len(batch) \in Nat
      /\ DOMAIN all = 1..Len(all) /\ all \in Seq(E)
      /\ \A i \in 1..Len(old) : all[i] = old[i]
      /\ \A i \in 1..Len(batch) : all[Len(old) + i] = batch[i]
  OBVIOUS
<1> HIDE DEF all
<1>2. IsFirst(Len(old) + 1)
  <2>1. Len(old) + 1 \in DOMAIN all /\ 1 \in 1..Len(batch) /\ (Len(old) + 1) - 1 = Len(old)
    BY <1>1
  <2> QED BY <1>1, <2>1
<1>3. ASSUME NEW n, IsFirst(n) PROVE n = Len(old) + 1
  <2>1. n \in Nat
    BY <1>1, <1>3
  <2>2. n > Len(old)
    <3>1. ASSUME n <= Len(old) PROVE FALSE
      <4>1. n \in 1..Len(old)
        BY <1>1, <1>3, <3>1
      <4> QED BY <1>1, <1>3, <4>1
    <3> QED BY <1>1, <2>1, <3>1
  <2>3. ~(n > Len(old) + 1)
    <3>1. ASSUME n > Len(old) + 1 PROVE FALSE
      <4>1. Len(old) + 1 \in 1..n - 1 /\ 1 \in 1..Len(batch)
        BY <1>1, <2>1, <3>1
      <4> QED BY <1>1, <1>3, <4>1
    <3> QED BY <3>1
  <2> QED BY <1>1, <2>1, <2>2, <2>3
<1>4. (CHOOSE n \in DOMAIN all : all[n].committed = rev /\ \A m \in 1..n - 1 : all[m].committed # rev) = Len(old) + 1
  <2> HIDE DEF IsFirst
  <2>1. (CHOOSE n : IsFirst(n)) = Len(old) + 1
    BY <1>2, <1>3
  <2> QED BY <2>1 DEF IsFirst
<1>5. NewEvents(gen, rev) = SubSeq(all, Len(old) + 1, Len(all))
  BY <1>4 DEF NewEvents, all
<1>6. SubSeq(all, Len(old) + 1, Len(all)) = batch
  <2>1. \A i \in Len(old) + 1..Len(all) : all[i] \in E
    BY <1>1
  <2>2. /\ SubSeq(all, Len(old) + 1, Len(all)) \in Seq(E)
        /\ Len(SubSeq(all, Len(old) + 1, Len(all))) = Len(batch)
        /\ \A i \in 1..Len(batch) : SubSeq(all, Len(old) + 1, Len(all))[i] = all[(Len(old) + 1) + i - 1]
    BY <1>1, <2>1, SubSeqProperties
  <2>3. \A i \in 1..Len(batch) : SubSeq(all, Len(old) + 1, Len(all))[i] = batch[i]
    <3> TAKE i \in 1..Len(batch)
    <3>1. (Len(old) + 1) + i - 1 = Len(old) + i
      BY <1>1
    <3> QED BY <1>1, <2>2, <3>1
  <2> QED BY <2>2, <2>3, SeqEqual
<1> QED BY <1>5, <1>6

-----------------------------------------------------------------------------
(***************************************************************************)
(* The inductive invariant                                                 *)
(***************************************************************************)
Origin == hist[1].kind

\* What the current generation is explained by.
Story == Adapted(Current, Revision)

\* The exam was read once; every generation keeps what was read of the IDs.
KeptInv ==
  /\ hist \in Seq({hist[i] : i \in 1..Len(hist)}) /\ hist # <<>>
  /\ Origin \in Origins
  /\ hist[1].ids = Reads[Origin].ids /\ hist[1].answers = Reads[Origin].answers
  /\ hist[1].geometry = IF Origin = "scan" THEN "pages" ELSE IF Origin = "fixed20" THEN "compact" ELSE None
  /\ \A i \in 1..Len(hist) :
       hist[i].ids = hist[1].ids /\ NewEvents(hist[i], i) \in Seq(EventOf(Origin))

\* What each of the states of an exam has.
StateInv ==
  /\ Current.state \in {"recognized", "graded", "final"}
  /\ Current.average \in {"rounded", "unrounded"}
  /\ DOMAIN Current.fixes \subseteq DOMAIN Current.ids
  /\ Current.state = "recognized" =>
       /\ Origin # "fixed20"
       /\ Current.projection = [parent |-> Revision - 1, ids |-> Current.ids, answers |-> Current.answers]
       /\ Current.key = None /\ Current.scores = None /\ Current.geometry = hist[1].geometry
  /\ Current.state # "recognized" =>
       /\ Current.projection = None /\ Current.key \in AnyKey
       /\ Current.scores = ScoreSet(Current.answers, Current.key)
       /\ Current.summary = Cardinality(Scored(Current.scores))
       /\ Current.geometry = IF hist[1].geometry = None THEN None ELSE "compact"

\* There is such an explanation: from what was first read, through all corrections made.
LineInv ==
  /\ Story \in StateOf(Origin)
  /\ Story.baseline.answers = hist[1].answers /\ Story.events = Made
  /\ Story.complete = (Origin # "fixed20")
  /\ Explains(Story, Current, Revision)
  /\ \A i \in 1..Len(Story.events) : Story.events[i].id[1] = Story.events[i].base

\* What is shown, told in books and drawn is the generation's own.
ShownInv ==
  /\ Current.shown = Shown(Current.ids, Current.fixes, Current.scores)
  /\ \A b \in Current.books : b.tells = Tells(b.kind, Current) \/ b.old
  /\ hist[1].geometry # None /\ Graded => DOMAIN Current.pictures = DOMAIN Current.ids

\* An operation worked out on the current generation is one for this generation.
Regrades(cmd) == cmd.kind = "regrade" /\ cmd.key \in Keys /\ cmd.scores = ScoreSet(Current.answers, cmd.key)

Finalizes(cmd) ==
  /\ cmd.kind = "finalize" /\ Current.state = "graded"
  /\ cmd.key = Current.key /\ cmd.scores = Current.scores

FixesIds(cmd) ==
  /\ cmd.kind = "fix" /\ Current.state \in {"recognized", "graded"}
  /\ cmd.projection = Current.projection /\ cmd.sheet \in DOMAIN Current.ids
  /\ \E target \in Targets : cmd.fixes = NewFixes(Current, cmd.sheet, target)

Corrects(cmd) ==
  /\ cmd.kind = "correct" /\ Graded
  /\ cmd.edits \in Seq(Edit(Origin)) /\ Len(cmd.edits) > 0
  /\ Replays(Current.answers, cmd.edits) /\ cmd.answers = Replay(Current.answers, cmd.edits)
  /\ cmd.scores = ScoreSet(cmd.answers, Current.key)

Fits(cmd) == cmd.state = Current.state /\ (Regrades(cmd) \/ Finalizes(cmd) \/ FixesIds(cmd) \/ Corrects(cmd))

UserInv ==
  /\ DOMAIN user = Users
  /\ \A u \in Users : user[u] # Idle =>
       /\ user[u].kind \in {"regrade", "finalize", "fix", "correct"}
       /\ user[u].rev \in Nat /\ user[u].rev <= Revision
       /\ user[u].rev = Revision => Fits(user[u])

HistoryInv == KeptInv /\ StateInv /\ LineInv /\ ShownInv /\ UserInv

-----------------------------------------------------------------------------
(***************************************************************************)
(* What the materializer makes                                             *)
(***************************************************************************)
\* What a generation tells in a book and draws is the same with its files.
SameSaid(gen, said) ==
  /\ gen.kind = said.kind /\ gen.state = said.state /\ gen.ids = said.ids /\ gen.answers = said.answers
  /\ gen.corrected = said.corrected /\ gen.key = said.key /\ gen.scores = said.scores
  /\ gen.average = said.average /\ gen.summary = said.summary /\ gen.projection = said.projection
  /\ gen.corrections = said.corrections /\ gen.fixes = said.fixes /\ gen.geometry = said.geometry
  /\ gen.shown = said.shown

LEMMA SaidIs ==
  ASSUME NEW parent, NEW cmd, NEW rev
  PROVE  LET gen  == Materialized(parent, cmd, rev)
             said == Said(parent, cmd, rev)
         IN SameSaid(gen, said) /\ gen.books = NextBooks(parent, cmd, said) /\ gen.pictures = Drawn(said)
<1> DEFINE said == Said(parent, cmd, rev)
           books == NextBooks(parent, cmd, said)
           gen == Materialized(parent, cmd, rev)
<1>1. gen = [said EXCEPT !.books = books, !.pictures = Drawn(said)]
  BY DEF Materialized, WithFiles
<1>2. DOMAIN said = {"kind", "state", "ids", "answers", "corrected", "key", "scores", "average", "summary",
                     "projection", "corrections", "fixes", "geometry", "shown", "books", "pictures"}
  BY DEF Said
<1>3. said = [x \in DOMAIN said |-> said[x]]
  BY DEF Said
<1> HIDE DEF said, books, gen
<1>4. /\ \A x \in DOMAIN said \ {"books", "pictures"} : gen[x] = said[x]
      /\ gen.books = books /\ gen.pictures = Drawn(said)
  BY <1>1, <1>2, <1>3
<1>5. SameSaid(gen, said)
  BY <1>2, <1>4 DEF SameSaid
<1> QED BY <1>4, <1>5 DEF gen, said, books

-----------------------------------------------------------------------------
(***************************************************************************)
(* A batch of corrections, as events                                       *)
(***************************************************************************)
BatchOf(edits, rev) == [i \in DOMAIN edits |-> Event(edits[i], rev, i)]

\* One sequence after another.
LEMMA ConcatIs ==
  ASSUME NEW S, NEW a \in Seq(S), NEW b \in Seq(S)
  PROVE  /\ a \o b \in Seq(S) /\ Len(a \o b) = Len(a) + Len(b) /\ DOMAIN (a \o b) = 1..Len(a) + Len(b)
         /\ Len(a) \in Nat /\ Len(b) \in Nat /\ DOMAIN a = 1..Len(a) /\ DOMAIN b = 1..Len(b)
         /\ \A i \in 1..Len(a) : (a \o b)[i] = a[i] /\ a[i] \in S
         /\ \A i \in 1..Len(b) : (a \o b)[Len(a) + i] = b[i] /\ b[i] \in S
OBVIOUS

\* The corrections the events stand for.
LEMMA EditsAre ==
  ASSUME NEW o \in Origins, NEW s \in Seq(EventOf(o))
  PROVE  /\ Edits(s) \in Seq(Edit(o)) /\ Len(Edits(s)) = Len(s) /\ Len(s) \in Nat
         /\ \A i \in 1..Len(s) : Edits(s)[i] = s[i].edit /\ s[i].edit \in Edit(o)
<1>1. Len(s) \in Nat /\ DOMAIN s = 1..Len(s) /\ \A i \in 1..Len(s) : s[i] \in EventOf(o)
  OBVIOUS
<1>2. \A i \in 1..Len(s) : s[i].edit \in Edit(o)
  BY <1>1 DEF EventOf
<1>3. Edits(s) = [i \in 1..Len(s) |-> s[i].edit]
  BY <1>1 DEF Edits
<1>4. Edits(s) \in Seq(Edit(o)) /\ Len(Edits(s)) = Len(s)
  BY <1>1, <1>2, <1>3
<1> QED BY <1>1, <1>2, <1>3, <1>4

\* A batch after a history.
LEMMA EditsOn ==
  ASSUME NEW o \in Origins, NEW s \in Seq(EventOf(o)), NEW t \in Seq(EventOf(o))
  PROVE  Edits(s \o t) = Edits(s) \o Edits(t)
<1>1. /\ s \o t \in Seq(EventOf(o)) /\ Len(s \o t) = Len(s) + Len(t)
      /\ \A i \in 1..Len(s) : (s \o t)[i] = s[i]
      /\ \A i \in 1..Len(t) : (s \o t)[Len(s) + i] = t[i]
  OBVIOUS
<1>2. /\ Edits(s) \in Seq(Edit(o)) /\ Len(Edits(s)) = Len(s) /\ Len(s) \in Nat
      /\ \A i \in 1..Len(s) : Edits(s)[i] = s[i].edit
  BY EditsAre
<1>3. /\ Edits(t) \in Seq(Edit(o)) /\ Len(Edits(t)) = Len(t) /\ Len(t) \in Nat
      /\ \A i \in 1..Len(t) : Edits(t)[i] = t[i].edit
  BY EditsAre
<1>4. /\ Edits(s \o t) \in Seq(Edit(o)) /\ Len(Edits(s \o t)) = Len(s) + Len(t)
      /\ \A i \in 1..Len(s) + Len(t) : Edits(s \o t)[i] = (s \o t)[i].edit
  BY <1>1, EditsAre
<1> DEFINE a == Edits(s)
           b == Edits(t)
           c == Edits(s \o t)
<1>5. ASSUME NEW i \in 1..Len(s) PROVE c[i] = a[i]
  BY <1>1, <1>2, <1>3, <1>4
<1>6. ASSUME NEW i \in 1..Len(t) PROVE c[Len(s) + i] = b[i]
  <2>1. Len(s) + i \in 1..Len(s) + Len(t)
    BY <1>2, <1>3
  <2> QED BY <1>1, <1>3, <1>4, <2>1
<1>7. a \in Seq(Edit(o)) /\ b \in Seq(Edit(o)) /\ c \in Seq(Edit(o)) /\ Len(c) = Len(a) + Len(b)
      /\ Len(a) = Len(s) /\ Len(b) = Len(t) /\ Len(a) \in Nat /\ Len(b) \in Nat
  BY <1>2, <1>3, <1>4
<1> HIDE DEF a, b, c
<1>8. /\ a \o b \in Seq(Edit(o)) /\ Len(a \o b) = Len(a) + Len(b) /\ DOMAIN (a \o b) = 1..Len(a) + Len(b)
      /\ Len(a) \in Nat /\ Len(b) \in Nat /\ DOMAIN a = 1..Len(a) /\ DOMAIN b = 1..Len(b)
      /\ \A i \in 1..Len(a) : (a \o b)[i] = a[i] /\ a[i] \in Edit(o)
      /\ \A i \in 1..Len(b) : (a \o b)[Len(a) + i] = b[i] /\ b[i] \in Edit(o)
  <2>1. a \in Seq(Edit(o)) /\ b \in Seq(Edit(o))
    BY <1>7
  <2> QED BY <2>1, ConcatIs
<1>9. ASSUME NEW i \in 1..Len(c) PROVE c[i] = (a \o b)[i]
  <2>1. CASE i <= Len(a)
    <3>1. i \in 1..Len(a)
      BY <1>7, <2>1
    <3> QED BY <1>5, <1>7, <1>8, <3>1
  <2>2. CASE i > Len(a)
    <3>1. PICK j \in 1..Len(b) : i = Len(a) + j
      <4>1. i - Len(a) \in 1..Len(b) /\ i = Len(a) + (i - Len(a))
        BY <1>7, <2>2
      <4> QED BY <4>1
    <3> QED BY <1>6, <1>7, <1>8, <3>1
  <2> QED BY <1>7, <2>1, <2>2
<1>10. c = a \o b
  BY <1>7, <1>8, <1>9, SeqEqual
<1> QED BY <1>10 DEF a, b, c

\* The events of a batch.
LEMMA BatchIs ==
  ASSUME NEW o \in Origins, NEW e \in Seq(Edit(o)), NEW rev \in Nat
  PROVE  /\ BatchOf(e, rev) \in Seq(EventOf(o)) /\ Len(BatchOf(e, rev)) = Len(e)
         /\ \A i \in 1..Len(e) : /\ BatchOf(e, rev)[i].id = <<rev, i>> /\ BatchOf(e, rev)[i].base = rev
                                 /\ BatchOf(e, rev)[i].committed = rev + 1
         /\ Edits(BatchOf(e, rev)) = e
<1>1. Len(e) \in Nat /\ DOMAIN e = 1..Len(e) /\ \A i \in 1..Len(e) : e[i] \in Edit(o)
  OBVIOUS
<1>2. ASSUME NEW i \in 1..Len(e)
      PROVE  /\ Event(e[i], rev, i) \in EventOf(o)
             /\ Event(e[i], rev, i).id = <<rev, i>> /\ Event(e[i], rev, i).base = rev
             /\ Event(e[i], rev, i).committed = rev + 1 /\ Event(e[i], rev, i).edit = e[i]
  <2>1. i \in Nat /\ rev + 1 \in Nat /\ <<rev, i>> \in Nat \X Nat /\ e[i] \in Edit(o)
    BY <1>1
  <2> QED BY <2>1 DEF Event, EventOf
<1>3. BatchOf(e, rev) = [i \in 1..Len(e) |-> Event(e[i], rev, i)]
  BY <1>1 DEF BatchOf
<1>4. BatchOf(e, rev) \in Seq(EventOf(o)) /\ Len(BatchOf(e, rev)) = Len(e)
  BY <1>1, <1>2, <1>3
<1>5. \A i \in 1..Len(e) : BatchOf(e, rev)[i] = Event(e[i], rev, i)
  BY <1>3
<1> HIDE DEF BatchOf
<1>6. /\ Edits(BatchOf(e, rev)) \in Seq(Edit(o)) /\ Len(Edits(BatchOf(e, rev))) = Len(e)
      /\ \A i \in 1..Len(e) : Edits(BatchOf(e, rev))[i] = BatchOf(e, rev)[i].edit
  BY <1>4, EditsAre
<1>7. \A i \in 1..Len(e) : Edits(BatchOf(e, rev))[i] = e[i]
  BY <1>2, <1>5, <1>6
<1>8. Edits(BatchOf(e, rev)) = e
  BY <1>6, <1>7, SeqEqual
<1> QED BY <1>2, <1>4, <1>5, <1>8

\* The batch after a history: one history, whose last events are the batch.
LEMMA HistoryOn ==
  ASSUME NEW o \in Origins, NEW old \in Seq(EventOf(o)), NEW e \in Seq(Edit(o)), NEW rev \in Nat, Len(e) > 0,
         HistoryValid(old), \A i \in 1..Len(old) : old[i].committed <= rev,
         \A i \in 1..Len(old) : old[i].id[1] = old[i].base
  PROVE  LET all == old \o BatchOf(e, rev)
         IN /\ all \in Seq(EventOf(o)) /\ HistoryValid(all) /\ NewSuffix(all, rev)
            /\ \A i \in 1..Len(all) : /\ (i \in 1..Len(old) /\ all[i] = old[i]) \/ all[i].base = rev
                                      /\ all[i].committed <= rev + 1 /\ all[i].id[1] = all[i].base
            /\ Edits(all) = Edits(old) \o e
            /\ \A gen : gen.kind = "correct" /\ gen.corrections.events = all => NewEvents(gen, rev + 1) = BatchOf(e, rev)
<1> DEFINE batch == BatchOf(e, rev)
           all == old \o batch
<1>1. /\ batch \in Seq(EventOf(o)) /\ Len(batch) = Len(e) /\ Len(e) \in Nat
      /\ \A i \in 1..Len(e) : batch[i].id = <<rev, i>> /\ batch[i].base = rev /\ batch[i].committed = rev + 1
      /\ Edits(batch) = e
  BY BatchIs
<1> HIDE DEF batch
<1>11. /\ old \o batch \in Seq(EventOf(o)) /\ Len(old \o batch) = Len(old) + Len(batch) /\ DOMAIN (old \o batch) = 1..Len(old) + Len(batch)
       /\ Len(old) \in Nat /\ Len(batch) \in Nat /\ DOMAIN old = 1..Len(old) /\ DOMAIN batch = 1..Len(batch)
       /\ \A i \in 1..Len(old) : (old \o batch)[i] = old[i] /\ old[i] \in EventOf(o)
       /\ \A i \in 1..Len(batch) : (old \o batch)[Len(old) + i] = batch[i] /\ batch[i] \in EventOf(o)
  BY <1>1, ConcatIs
<1>2. /\ all \in Seq(EventOf(o)) /\ Len(all) = Len(old) + Len(e) /\ Len(old) \in Nat /\ DOMAIN all = 1..Len(all)
      /\ \A i \in 1..Len(old) : all[i] = old[i]
      /\ \A i \in 1..Len(e) : all[Len(old) + i] = batch[i]
      /\ DOMAIN old = 1..Len(old) /\ \A i \in 1..Len(old) : old[i] \in EventOf(o)
  BY <1>1, <1>11
<1>3. Edits(all) = Edits(old) \o e
  BY <1>1, EditsOn
<1>4. \A gen : gen.kind = "correct" /\ gen.corrections.events = all => NewEvents(gen, rev + 1) = batch
  <2>1. \A i \in 1..Len(old) : old[i].committed # rev + 1
    <3> TAKE i \in 1..Len(old)
    <3>1. old[i] \in EventOf(o) /\ old[i].committed <= rev
      BY <1>2
    <3>2. old[i].committed \in Nat
      BY <3>1 DEF EventOf
    <3> QED BY <3>1, <3>2
  <2>2. \A i \in 1..Len(batch) : batch[i].committed = rev + 1
    BY <1>1
  <2>3. Len(batch) > 0
    BY <1>1
  <2>4. all = old \o batch
    OBVIOUS
  <2> HIDE DEF all
  <2> TAKE gen
  <2>5. ASSUME gen.kind = "correct", gen.corrections.events = all PROVE NewEvents(gen, rev + 1) = batch
    <3> DEFINE next == rev + 1
    <3>1. gen.corrections.events = old \o batch /\ gen.kind = "correct" /\ batch \in Seq(EventOf(o))
      BY <1>1, <2>4, <2>5
    <3>2. /\ \A i \in 1..Len(old) : old[i].committed # next
          /\ \A i \in 1..Len(batch) : batch[i].committed = next
      BY <2>1, <2>2
    <3> HIDE DEF next
    <3>3. NewEvents(gen, next) = batch
      BY <2>3, <3>1, <3>2, NewEventsAre
    <3> QED BY <3>3 DEF next
  <2> QED BY <2>5
<1> HIDE DEF all
<1>5. ASSUME NEW i \in 1..Len(old)
      PROVE  all[i] = old[i] /\ old[i].base \in Nat /\ old[i].committed = old[i].base + 1 /\ old[i].base < rev
  <2>1. old[i] \in EventOf(o)
    BY <1>2
  <2>2. old[i].base \in Nat /\ old[i].committed \in Nat
    BY <2>1 DEF EventOf
  <2>3. old[i].committed = old[i].base + 1 /\ old[i].committed <= rev
    BY <1>2 DEF HistoryValid
  <2> QED BY <1>2, <2>2, <2>3
<1>6. ASSUME NEW i \in 1..Len(all), i > Len(old)
      PROVE  /\ i - Len(old) \in 1..Len(e)
             /\ all[i].id = <<rev, i - Len(old)>> /\ all[i].base = rev /\ all[i].committed = rev + 1
  <2>1. i - Len(old) \in 1..Len(e) /\ Len(old) + (i - Len(old)) = i
    BY <1>1, <1>2, <1>6
  <2>2. all[i] = batch[i - Len(old)]
    BY <1>2, <2>1
  <2> QED BY <1>1, <2>1, <2>2
<1>7. ASSUME NEW i \in 1..Len(all)
      PROVE  /\ (i \in 1..Len(old) /\ all[i] = old[i]) \/ all[i].base = rev
             /\ all[i].committed <= rev + 1 /\ all[i].committed = all[i].base + 1 /\ all[i].id[1] = all[i].base
             /\ all[i].base = rev <=> i > Len(old)
             /\ all[i].base <= rev
  <2>1. CASE i <= Len(old)
    <3>1. i \in 1..Len(old)
      BY <1>2, <2>1
    <3> QED BY <1>5, <2>1, <3>1
  <2>2. CASE i > Len(old)
    BY <1>6, <2>2
  <2> QED BY <1>2, <2>1, <2>2
<1>8. ASSUME NEW i \in 1..Len(all), NEW j \in 1..Len(all), all[i].id = all[j].id PROVE i = j
  <2>1. all[i].base = all[j].base
    BY <1>7, <1>8
  <2>2. CASE i > Len(old)
    <3>1. j > Len(old)
      BY <1>7, <2>1, <2>2
    <3>2. i - Len(old) = j - Len(old)
      BY <1>6, <1>8, <2>2, <3>1
    <3> QED BY <1>2, <3>2
  <2>3. CASE ~(i > Len(old))
    <3>1. ~(j > Len(old))
      BY <1>7, <2>1, <2>3
    <3>2. i \in 1..Len(old) /\ j \in 1..Len(old)
      BY <1>2, <2>3, <3>1
    <3> QED BY <1>2, <1>8, <3>2 DEF HistoryValid
  <2> QED BY <2>2, <2>3
<1>9. HistoryValid(all)
  BY <1>2, <1>7, <1>8 DEF HistoryValid
<1>10. NewSuffix(all, rev)
  <2>1. Len(old) + 1 \in DOMAIN all
    BY <1>1, <1>2
  <2>2. ASSUME NEW i \in DOMAIN all PROVE IF i < Len(old) + 1 THEN all[i].base < rev ELSE all[i].base = rev
    <3>1. CASE i < Len(old) + 1
      <4>1. i \in 1..Len(old)
        BY <1>2, <3>1
      <4> QED BY <1>5, <3>1, <4>1
    <3>2. CASE ~(i < Len(old) + 1)
      <4>1. i \in 1..Len(all) /\ i > Len(old)
        BY <1>2, <3>2
      <4> QED BY <1>7, <3>2, <4>1
    <3> QED BY <3>1, <3>2
  <2> QED BY <2>1, <2>2 DEF NewSuffix
<1> QED BY <1>2, <1>3, <1>4, <1>7, <1>9, <1>10 DEF all, batch

-----------------------------------------------------------------------------
(***************************************************************************)
(* The explanation of the next generation                                  *)
(***************************************************************************)
\* A correction state is there, and has the parts of one.
LEMMA StateIs ==
  ASSUME NEW o \in Origins, NEW s \in StateOf(o)
  PROVE  /\ s # None /\ s.rev \in Nat /\ s.base \in Nat /\ s.events \in Seq(EventOf(o)) /\ s.complete \in BOOLEAN
         /\ s.baseline \in [ids : {Reads[o].ids}, answers : Answerings(o), corrected : {{}}]
         /\ s.baseline.answers \in Answerings(o) /\ s.baseline.ids = Reads[o].ids /\ s.baseline.corrected = {}
         /\ s.events \in Seq(EventOf(o)) => \A i \in 1..Len(s.events) : s.events[i] \in EventOf(o)
<1>1. s # None
  BY NoneAssumption
<1>2. /\ s.rev \in Nat /\ s.base \in Nat /\ s.events \in Seq(EventOf(o)) /\ s.complete \in BOOLEAN
      /\ s.baseline \in [ids : {Reads[o].ids}, answers : Answerings(o), corrected : {{}}]
  BY DEF StateOf
<1> QED BY <1>1, <1>2

\* What is known of the current generation, whatever its state.
LEMMA CurrentIs ==
  ASSUME HistoryInv
  PROVE  /\ Origin \in Origins /\ Revision \in Nat /\ Revision > 0 /\ Revision \in 1..Len(hist)
         /\ Story \in StateOf(Origin) /\ Story # None
         /\ Current.ids = Reads[Origin].ids /\ Current.answers \in Answerings(Origin)
         /\ DOMAIN Current.ids = SheetsOf(Origin) /\ DOMAIN Current.answers = SheetsOf(Origin)
         /\ \A s \in SheetsOf(Origin) : DOMAIN Current.answers[s] = QuestionsOf(Origin)
<1>1. Origin \in Origins /\ Story \in StateOf(Origin)
  BY DEF HistoryInv, KeptInv, LineInv
<1>2. Revision \in Nat /\ Revision > 0 /\ Revision \in 1..Len(hist)
  <2>1. hist \in Seq({hist[i] : i \in 1..Len(hist)}) /\ hist # <<>>
    BY DEF HistoryInv, KeptInv
  <2>2. Len(hist) \in Nat /\ Len(hist) > 0
    BY <2>1
  <2> QED BY <2>2 DEF Revision
<1>3. Current.ids = Reads[Origin].ids
  BY <1>2 DEF HistoryInv, KeptInv, Current
<1>4. Current.answers \in Answerings(Origin)
  <2>1. Current.answers = Replay(Story.baseline.answers, Edits(Story.events))
    BY DEF HistoryInv, LineInv, Explains
  <2>2. Story.baseline.answers \in Answerings(Origin) /\ Edits(Story.events) \in Seq(Edit(Origin))
    BY <1>1, StateIs, EditsAre
  <2>3. <<>> \in Seq(Edit(Origin))
    OBVIOUS
  <2>4. Replay(Story.baseline.answers, Edits(Story.events)) \in Answerings(Origin)
    BY <1>1, <2>2, <2>3, ReplayOn
  <2> QED BY <2>1, <2>4
<1>5. Story # None
  BY <1>1, StateIs
<1> QED BY <1>1, <1>2, <1>3, <1>4, <1>5 DEF Answerings, SheetsOf

\* The correction state of a generation that explains itself after the current one.
GoesOn(next, answers, corrected) ==
  /\ next \in StateOf(Origin)
  /\ next.baseline = Story.baseline /\ next.complete = Story.complete
  /\ Bound(next, Revision + 1) /\ HistoryValid(next.events)
  /\ Replays(next.baseline.answers, Edits(next.events))
  /\ Replay(next.baseline.answers, Edits(next.events)) = answers
  /\ Corrected(next) = corrected
  /\ \A i \in 1..Len(next.events) : next.events[i].id[1] = next.events[i].base

\* The state the next generation is made with.
LEMMA CorrectionsAre ==
  ASSUME HistoryInv, NEW cmd, Events(Story, cmd, Revision) \in Seq(EventOf(Origin))
  PROVE  LET next == Corrections(Current, cmd, Revision)
         IN /\ next \in StateOf(Origin)
            /\ next.events = Events(Story, cmd, Revision) /\ next.rev = Revision + 1
            /\ next.base = Story.base /\ next.baseline = Story.baseline /\ next.complete = Story.complete
<1>1. Story # None /\ Story \in StateOf(Origin) /\ Origin \in Origins /\ Revision + 1 \in Nat
  BY CurrentIs
<1>2. Corrections(Current, cmd, Revision) = [Story EXCEPT !.events = Events(Story, cmd, Revision), !.rev = Revision + 1]
  BY <1>1 DEF Corrections, Story
<1> DEFINE s == Story
           events == Events(Story, cmd, Revision)
           rev == Revision + 1
           next == Corrections(Current, cmd, Revision)
<1>3. /\ next = [s EXCEPT !.events = events, !.rev = rev]
      /\ s \in StateOf(Origin) /\ events \in Seq(EventOf(Origin)) /\ rev \in Nat
  BY <1>1, <1>2
<1> HIDE DEF s, events, rev, next
<1>4. /\ next \in StateOf(Origin) /\ next.events = events /\ next.rev = rev
      /\ next.base = s.base /\ next.baseline = s.baseline /\ next.complete = s.complete
  BY <1>3 DEF StateOf
<1> QED BY <1>4 DEF s, events, rev, next

\* A step that corrects nothing keeps the explanation.
LEMMA StoryKept ==
  ASSUME HistoryInv, NEW cmd, Fits(cmd), cmd.kind # "correct"
  PROVE  LET next == Corrections(Current, cmd, Revision)
         IN /\ GoesOn(next, Current.answers, Current.corrected)
            /\ next.events = Story.events
            /\ NextAnswers(Current, cmd, Revision) = Current.answers
            /\ NextCorrected(Current, cmd, Revision) = Current.corrected
<1> DEFINE next == Corrections(Current, cmd, Revision)
<1>1. /\ Story \in StateOf(Origin) /\ Origin \in Origins /\ Revision \in Nat
      /\ Explains(Story, Current, Revision)
      /\ \A i \in 1..Len(Story.events) : Story.events[i].id[1] = Story.events[i].base
  BY CurrentIs DEF HistoryInv, LineInv
<1>2. Story.events \in Seq(EventOf(Origin)) /\ Story.base \in Nat
  BY <1>1, StateIs
<1>3. Events(Story, cmd, Revision) = Story.events
  BY DEF Events
<1>4. /\ next \in StateOf(Origin) /\ next.events = Story.events /\ next.rev = Revision + 1
      /\ next.base = Story.base /\ next.baseline = Story.baseline /\ next.complete = Story.complete
  BY <1>2, <1>3, CorrectionsAre
<1> HIDE DEF next
<1>5. Bound(next, Revision + 1)
  <2>1. Story.base <= Revision + 1
    BY <1>1, <1>2 DEF Explains, Bound
  <2>2. ASSUME NEW i \in DOMAIN Story.events
        PROVE  Story.base <= Story.events[i].base /\ Story.events[i].committed <= Revision + 1
    <3>1. Story.events[i] \in EventOf(Origin)
      BY <1>2
    <3>2. Story.events[i].committed \in Nat
      BY <3>1 DEF EventOf
    <3>3. Story.base <= Story.events[i].base /\ Story.events[i].committed <= Revision
      BY <1>1 DEF Explains, Bound
    <3> QED BY <1>1, <3>2, <3>3
  <2> QED BY <1>4, <2>1, <2>2 DEF Bound
<1>6. Corrected(next) = Current.corrected
  BY <1>1, <1>4 DEF Explains, Corrected
<1>7. GoesOn(next, Current.answers, Current.corrected)
  BY <1>1, <1>4, <1>5, <1>6 DEF GoesOn, Explains
<1> QED BY <1>4, <1>7 DEF next, NextAnswers, NextCorrected

\* A batch of corrections goes to the end of the explanation, and gives the answers shown.
LEMMA StoryGrows ==
  ASSUME HistoryInv, NEW cmd, Corrects(cmd)
  PROVE  LET next == Corrections(Current, cmd, Revision)
         IN /\ GoesOn(next, cmd.answers, Corrected(next))
            /\ next.events = Story.events \o BatchOf(cmd.edits, Revision)
            /\ NewSuffix(next.events, Revision)
            /\ NextAnswers(Current, cmd, Revision) = cmd.answers /\ cmd.answers \in Answerings(Origin)
            /\ NextCorrected(Current, cmd, Revision) = Corrected(next)
            /\ \A gen : gen.kind = "correct" /\ gen.corrections = next =>
                          NewEvents(gen, Revision + 1) = BatchOf(cmd.edits, Revision)
<1> DEFINE next == Corrections(Current, cmd, Revision)
           base == Story.baseline.answers
           all == Story.events \o BatchOf(cmd.edits, Revision)
<1>1. /\ Story \in StateOf(Origin) /\ Origin \in Origins /\ Revision \in Nat
      /\ Explains(Story, Current, Revision)
      /\ \A i \in 1..Len(Story.events) : Story.events[i].id[1] = Story.events[i].base
      /\ Current.answers \in Answerings(Origin)
  BY CurrentIs DEF HistoryInv, LineInv
<1>2. /\ cmd.kind = "correct" /\ cmd.edits \in Seq(Edit(Origin)) /\ Len(cmd.edits) > 0
      /\ Replays(Current.answers, cmd.edits) /\ cmd.answers = Replay(Current.answers, cmd.edits)
  BY DEF Corrects
<1>3. Story.events \in Seq(EventOf(Origin)) /\ Story.base \in Nat /\ base \in Answerings(Origin)
  BY <1>1, StateIs
<1>4. /\ HistoryValid(Story.events)
      /\ Story.base <= Revision
      /\ \A i \in DOMAIN Story.events : Story.base <= Story.events[i].base /\ Story.events[i].committed <= Revision
      /\ Replays(base, Edits(Story.events)) /\ Replay(base, Edits(Story.events)) = Current.answers
  BY <1>1 DEF Explains, Bound
<1>5. \A i \in 1..Len(Story.events) : Story.events[i].committed <= Revision
  BY <1>3, <1>4
<1>6. /\ all \in Seq(EventOf(Origin)) /\ HistoryValid(all) /\ NewSuffix(all, Revision)
      /\ \A i \in 1..Len(all) : /\ (i \in 1..Len(Story.events) /\ all[i] = Story.events[i]) \/ all[i].base = Revision
                                /\ all[i].committed <= Revision + 1 /\ all[i].id[1] = all[i].base
      /\ Edits(all) = Edits(Story.events) \o cmd.edits
      /\ \A gen : gen.kind = "correct" /\ gen.corrections.events = all =>
                    NewEvents(gen, Revision + 1) = BatchOf(cmd.edits, Revision)
  BY <1>1, <1>2, <1>3, <1>4, <1>5, HistoryOn
<1>7. Events(Story, cmd, Revision) = all
  BY <1>2 DEF Events, BatchOf
<1>8. /\ next \in StateOf(Origin) /\ next.events = all /\ next.rev = Revision + 1
      /\ next.base = Story.base /\ next.baseline = Story.baseline /\ next.complete = Story.complete
  BY <1>6, <1>7, CorrectionsAre
<1> HIDE DEF next, base, all
<1>9. Bound(next, Revision + 1)
  <2>1. Story.base <= Revision + 1
    BY <1>1, <1>3, <1>4
  <2>2. DOMAIN all = 1..Len(all)
    BY <1>6
  <2>3. ASSUME NEW i \in DOMAIN all PROVE Story.base <= all[i].base /\ all[i].committed <= Revision + 1
    <3>1. CASE all[i].base = Revision
      BY <1>4, <1>6, <2>2, <3>1
    <3>2. CASE i \in 1..Len(Story.events) /\ all[i] = Story.events[i]
      <4>1. i \in DOMAIN Story.events
        BY <1>3, <3>2
      <4> QED BY <1>4, <1>6, <2>2, <3>2, <4>1
    <3> QED BY <1>6, <2>2, <3>1, <3>2
  <2> QED BY <1>8, <2>1, <2>3 DEF Bound
<1>10. /\ Replays(base, Edits(Story.events) \o cmd.edits)
       /\ Replay(base, Edits(Story.events) \o cmd.edits) = cmd.answers
       /\ cmd.answers \in Answerings(Origin)
  <2>1. Edits(Story.events) \in Seq(Edit(Origin))
    BY <1>1, <1>3, EditsAre
  <2>2. Replays(Replay(base, Edits(Story.events)), cmd.edits)
    BY <1>2, <1>4
  <2>3. Replays(base, Edits(Story.events) \o cmd.edits)
    BY <1>1, <1>2, <1>3, <1>4, <2>1, <2>2, ReplayOn
  <2>4. Replay(base, Edits(Story.events) \o cmd.edits) = Replay(Replay(base, Edits(Story.events)), cmd.edits)
    BY <1>1, <1>2, <1>3, <2>1, ReplayOn
  <2>5. Replay(Current.answers, cmd.edits) \in Answerings(Origin)
    BY <1>1, <1>2, ReplayOn
  <2> QED BY <1>2, <1>4, <2>3, <2>4, <2>5
<1>11. next.baseline.answers = base
  BY <1>8 DEF base
<1>12. GoesOn(next, cmd.answers, Corrected(next))
  BY <1>6, <1>8, <1>9, <1>10, <1>11 DEF GoesOn
<1>13. NextAnswers(Current, cmd, Revision) = cmd.answers
  BY <1>2, <1>6, <1>8, <1>10, <1>11 DEF NextAnswers, next
<1>14. NextCorrected(Current, cmd, Revision) = Corrected(next)
  BY <1>2 DEF NextCorrected, next
<1> QED BY <1>6, <1>8, <1>10, <1>12, <1>13, <1>14 DEF next, all

-----------------------------------------------------------------------------
(***************************************************************************)
(* What was committed is read and built on                                 *)
(***************************************************************************)
\* The current generation opens for grading, and that of a graded exam for corrections.
LEMMA Opens ==
  ASSUME HistoryInv
  PROVE  /\ GradingReads(Current) /\ (Graded => CorrectionReads(Current, Revision))
         /\ ParentAccepted(Current, Revision) /\ (Current.state # "recognized" <=> Graded)
         /\ Current.state # "recognized" => Current.scores # None /\ Current.key # None
<1>1. /\ DOMAIN Current.ids = DOMAIN Current.answers /\ Story # None /\ Origin \in Origins
      /\ Current.answers \in Answerings(Origin)
  BY CurrentIs
<1>2. StateInv /\ Explains(Story, Current, Revision)
  BY DEF HistoryInv, LineInv
<1>3. Current.state # "recognized" <=> Graded
  BY <1>2 DEF StateInv, Graded
<1>4. Current.state # "recognized" => Current.scores # None /\ Current.key # None
  BY <1>1, <1>2, NoneAssumption DEF StateInv
<1>5. CASE Current.state = "recognized"
  <2>1. /\ Current.projection = [parent |-> Revision - 1, ids |-> Current.ids, answers |-> Current.answers]
        /\ Current.scores = None /\ DOMAIN Current.fixes \subseteq DOMAIN Current.answers
    BY <1>1, <1>2, <1>5 DEF StateInv
  <2>2. Current.projection # None
    <3>1. Revision - 1 \in Nat /\ Current.ids \in {Reads[Origin].ids}
      BY CurrentIs
    <3> QED BY <1>1, <2>1, <3>1, NoneAssumption
  <2>3. /\ Current.projection.parent = Revision - 1
        /\ Current.projection.ids = Current.ids /\ Current.projection.answers = Current.answers
    BY <2>1
  <2>4. GradingReads(Current)
    BY <1>5, <2>1, <2>2, <2>3 DEF GradingReads
  <2>5. ParentAccepted(Current, Revision)
    BY <1>2, <2>1, <2>3 DEF ParentAccepted, ScoresMatch, ProjectionFits, Story
  <2> QED BY <1>3, <1>5, <2>4, <2>5
<1>6. CASE Current.state # "recognized"
  <2>1. /\ Current.projection = None /\ Current.scores = ScoreSet(Current.answers, Current.key)
        /\ Current.summary = Cardinality(Scored(Current.scores))
        /\ DOMAIN Current.fixes \subseteq DOMAIN Current.answers
    BY <1>1, <1>2, <1>6 DEF StateInv
  <2>2. GradingReads(Current)
    BY <1>4, <1>6, <2>1 DEF GradingReads
  <2>3. CorrectionReads(Current, Revision)
    BY <1>1, <1>2, <1>4, <1>6, <2>1 DEF CorrectionReads, UnsetKey, Story
  <2>4. ParentAccepted(Current, Revision)
    BY <1>2, <1>4, <1>6, <2>1 DEF ParentAccepted, ScoresMatch, ProjectionFits, UnsetKey, Story
  <2> QED BY <1>3, <1>4, <1>6, <2>2, <2>3, <2>4
<1> QED BY <1>5, <1>6

\* An operation worked out on the current generation is not refused.
LEMMA Ready ==
  ASSUME HistoryInv, NEW cmd, Fits(cmd), ~(cmd.kind = "fix" /\ Current.average = "unrounded")
  PROVE  Accepted(Current, cmd, Revision)
<1>1. /\ ParentAccepted(Current, Revision) /\ cmd.state = Current.state
      /\ Adapted(Current, Revision) # None
  BY Opens, CurrentIs DEF Fits, Story
<1>2. cmd.kind = "finalize" => Current.scores # None
  BY Opens DEF Fits, Regrades, Finalizes, FixesIds, Corrects
<1>3. ASSUME cmd.kind = "correct"
      PROVE  LET state == Corrections(Current, cmd, Revision)
             IN HistoryValid(state.events) /\ NewSuffix(state.events, Revision)
                  /\ Replays(state.baseline.answers, Edits(state.events))
  <2>1. Corrects(cmd)
    BY <1>3 DEF Fits, Regrades, Finalizes, FixesIds
  <2> QED BY <2>1, StoryGrows DEF GoesOn
<1>4. ASSUME cmd.kind \in {"regrade", "finalize"} PROVE cmd.scores = NextScores(Current, cmd, Revision)
  <2>1. NextAnswers(Current, cmd, Revision) = Current.answers
    BY <1>4 DEF NextAnswers
  <2>2. cmd.scores = ScoreSet(Current.answers, cmd.key)
    <3>1. CASE cmd.kind = "regrade"
      BY <3>1 DEF Fits, Regrades, Finalizes, FixesIds, Corrects
    <3>2. CASE cmd.kind = "finalize"
      <4>1. cmd.key = Current.key /\ cmd.scores = Current.scores /\ Current.state = "graded"
        BY <3>2 DEF Fits, Regrades, Finalizes, FixesIds, Corrects
      <4> QED BY <4>1 DEF HistoryInv, StateInv
    <3> QED BY <1>4, <3>1, <3>2
  <2> QED BY <1>4, <2>1, <2>2 DEF NextScores, NextKey
<1>5. ASSUME cmd.kind = "fix" PROVE DOMAIN cmd.fixes \subseteq DOMAIN Current.answers
  <2>1. /\ cmd.sheet \in DOMAIN Current.ids
        /\ \E target \in Targets : cmd.fixes = NewFixes(Current, cmd.sheet, target)
    BY <1>5 DEF Fits, Regrades, Finalizes, FixesIds, Corrects
  <2>2. DOMAIN Current.fixes \subseteq DOMAIN Current.ids /\ DOMAIN Current.ids = DOMAIN Current.answers
    BY CurrentIs DEF HistoryInv, StateInv
  <2> QED BY <2>1, <2>2 DEF NewFixes
<1>6. GradingEnvelope(cmd, Current)
  <2>1. Current.average \in {"rounded", "unrounded"}
    BY DEF HistoryInv, StateInv
  <2> QED BY <2>1 DEF GradingEnvelope
<1> QED BY <1>1, <1>2, <1>3, <1>4, <1>5, <1>6 DEF Accepted

-----------------------------------------------------------------------------
(***************************************************************************)
(* The next generation                                                     *)
(***************************************************************************)
\* It explains itself, by the corrections before and its own.
LEMMA NextExplains ==
  ASSUME HistoryInv, NEW cmd, Fits(cmd)
  PROVE  LET gen == Materialized(Current, cmd, Revision)
         IN /\ gen.kind = cmd.kind /\ gen.ids = Current.ids
            /\ gen.answers \in Answerings(Origin) /\ gen.corrections \in StateOf(Origin)
            /\ GoesOn(gen.corrections, gen.answers, gen.corrected)
            /\ NewEvents(gen, Revision + 1) \in Seq(EventOf(Origin))
            /\ gen.corrections.events = Story.events \o NewEvents(gen, Revision + 1)
            /\ cmd.kind # "correct" => gen.answers = Current.answers
            /\ cmd.kind = "correct" => gen.answers = cmd.answers /\ Edits(NewEvents(gen, Revision + 1)) = cmd.edits
<1> DEFINE gen == Materialized(Current, cmd, Revision)
           next == Corrections(Current, cmd, Revision)
<1>1. /\ gen.kind = cmd.kind /\ gen.ids = Current.ids
      /\ gen.answers = NextAnswers(Current, cmd, Revision) /\ gen.corrections = next
      /\ gen.corrected = NextCorrected(Current, cmd, Revision)
  <2>1. SameSaid(gen, Said(Current, cmd, Revision))
    BY SaidIs
  <2> HIDE DEF gen
  <2> QED BY <2>1 DEF SameSaid, Said
<1> HIDE DEF gen, next
<1>2. /\ Origin \in Origins /\ Revision \in Nat /\ Story \in StateOf(Origin)
      /\ Current.answers \in Answerings(Origin) /\ Story.events \in Seq(EventOf(Origin))
  BY CurrentIs, StateIs
<1>3. CASE cmd.kind # "correct"
  <2>1. GoesOn(next, gen.answers, gen.corrected) /\ next.events = Story.events /\ gen.answers = Current.answers
    BY <1>1, <1>3, StoryKept DEF next
  <2>2. NewEvents(gen, Revision + 1) = <<>>
    BY <1>1, <1>3 DEF NewEvents
  <2>3. <<>> \in Seq(EventOf(Origin)) /\ Story.events \o <<>> = Story.events
    BY <1>2
  <2> QED BY <1>1, <1>2, <1>3, <2>1, <2>2, <2>3 DEF gen, GoesOn
<1>4. CASE cmd.kind = "correct"
  <2>1. Corrects(cmd)
    BY <1>4 DEF Fits, Regrades, Finalizes, FixesIds
  <2>2. /\ GoesOn(next, gen.answers, gen.corrected) /\ gen.answers = cmd.answers
        /\ gen.answers \in Answerings(Origin)
        /\ next.events = Story.events \o BatchOf(cmd.edits, Revision)
    BY <1>1, <2>1, StoryGrows DEF next
  <2>3. NewEvents(gen, Revision + 1) = BatchOf(cmd.edits, Revision)
    BY <1>1, <1>4, <2>1, StoryGrows DEF next
  <2>4. BatchOf(cmd.edits, Revision) \in Seq(EventOf(Origin)) /\ Edits(BatchOf(cmd.edits, Revision)) = cmd.edits
    BY <1>2, <2>1, BatchIs DEF Corrects
  <2> QED BY <1>1, <1>4, <2>2, <2>3, <2>4 DEF gen, GoesOn
<1> QED BY <1>3, <1>4

\* It has what its state asks for.
LEMMA NextHas ==
  ASSUME HistoryInv, NEW cmd, Fits(cmd)
  PROVE  LET gen == Materialized(Current, cmd, Revision)
         IN /\ gen.state \in {"recognized", "graded", "final"} /\ gen.average \in {"rounded", "unrounded"}
            /\ DOMAIN gen.fixes \subseteq DOMAIN gen.ids
            /\ gen.fixes = Fixes(Current, cmd)
            /\ gen.state = "recognized" =>
                 /\ Origin # "fixed20"
                 /\ gen.projection = [parent |-> Revision, ids |-> gen.ids, answers |-> gen.answers]
                 /\ gen.key = None /\ gen.scores = None /\ gen.geometry = hist[1].geometry
            /\ gen.state # "recognized" =>
                 /\ gen.projection = None /\ gen.key \in AnyKey
                 /\ gen.scores = ScoreSet(gen.answers, gen.key)
                 /\ gen.summary = Cardinality(Scored(gen.scores))
                 /\ gen.geometry = IF hist[1].geometry = None THEN None ELSE "compact"
<1> DEFINE gen == Materialized(Current, cmd, Revision)
<1>1. /\ gen.kind = cmd.kind /\ gen.state = NextState(cmd) /\ gen.ids = Current.ids
      /\ gen.key = NextKey(Current, cmd) /\ gen.scores = NextScores(Current, cmd, Revision)
      /\ gen.average = IF cmd.kind = "fix" THEN Current.average ELSE "rounded"
      /\ gen.summary = IF gen.scores = None THEN Current.summary ELSE Cardinality(Scored(gen.scores))
      /\ gen.projection = NextProjection(cmd, Revision) /\ gen.fixes = Fixes(Current, cmd)
      /\ gen.geometry = NextGeometry(Current, cmd)
      /\ gen.answers = NextAnswers(Current, cmd, Revision)
  <2>1. SameSaid(gen, Said(Current, cmd, Revision))
    BY SaidIs
  <2> HIDE DEF gen
  <2> QED BY <2>1 DEF SameSaid, Said
<1>2. gen.answers \in Answerings(Origin) /\ (cmd.kind # "correct" => gen.answers = Current.answers)
  BY NextExplains
<1> HIDE DEF gen
<1>3. StateInv
  BY DEF HistoryInv
<1>4. /\ Origin \in Origins /\ Revision - 1 \in Nat /\ Current.ids = Reads[Origin].ids
      /\ Current.answers \in Answerings(Origin)
  BY CurrentIs
<1>5. /\ hist[1].geometry = IF Origin = "scan" THEN "pages" ELSE IF Origin = "fixed20" THEN "compact" ELSE None
      /\ None # "pages" /\ None # "compact" /\ "pages" # "compact"
  BY NoneAssumption DEF HistoryInv, KeptInv
<1>6. CASE cmd.kind = "fix"
  <2>1. /\ Current.state \in {"recognized", "graded"} /\ cmd.state = Current.state
        /\ cmd.projection = Current.projection /\ cmd.sheet \in DOMAIN Current.ids
        /\ \E target \in Targets : cmd.fixes = NewFixes(Current, cmd.sheet, target)
    BY <1>6 DEF Fits, Regrades, Finalizes, FixesIds, Corrects
  <2>2. gen.state = Current.state /\ gen.average = Current.average
    BY <1>1, <1>6, <2>1 DEF NextState
  <2>3. DOMAIN gen.fixes \subseteq DOMAIN gen.ids
    BY <1>1, <1>3, <1>6, <2>1 DEF Fixes, NewFixes, StateInv
  <2>4. gen.key = Current.key /\ gen.scores = Current.scores /\ gen.geometry = Current.geometry
    BY <1>1, <1>6 DEF NextKey, NextScores, NextGeometry
  <2>5. gen.answers = Current.answers
    BY <1>2, <1>6
  <2>6. CASE Current.state = "recognized"
    <3>1. cmd.projection = [parent |-> Revision - 1, ids |-> Current.ids, answers |-> Current.answers]
      BY <1>3, <2>1, <2>6 DEF StateInv
    <3>2. cmd.projection # None
      <4>1. Current.ids \in {Reads[Origin].ids}
        BY <1>4
      <4> QED BY <1>4, <3>1, <4>1, NoneAssumption
    <3>3. gen.projection = [parent |-> Revision, ids |-> Current.ids, answers |-> Current.answers]
      BY <1>1, <1>6, <3>1, <3>2 DEF NextProjection
    <3> QED BY <1>1, <1>3, <2>2, <2>3, <2>4, <2>5, <2>6, <3>3 DEF gen, StateInv
  <2>7. CASE Current.state = "graded"
    <3>1. /\ Current.projection = None /\ Current.key \in AnyKey
          /\ Current.scores = ScoreSet(Current.answers, Current.key)
          /\ Current.geometry = IF hist[1].geometry = None THEN None ELSE "compact"
      BY <1>3, <2>7 DEF StateInv
    <3>2. gen.projection = None
      BY <1>1, <2>1, <3>1 DEF NextProjection
    <3>3. gen.summary = Cardinality(Scored(gen.scores))
      <4>1. gen.scores # None
        BY <1>4, <2>4, <3>1, NoneAssumption
      <4> QED BY <1>1, <4>1
    <3> QED BY <1>1, <1>3, <2>2, <2>3, <2>4, <2>5, <2>7, <3>1, <3>2, <3>3 DEF gen, StateInv
  <2> QED BY <2>1, <2>6, <2>7
<1>7. CASE cmd.kind # "fix"
  <2>1. cmd.kind \in {"regrade", "finalize", "correct"}
    BY <1>7 DEF Fits, Regrades, Finalizes, FixesIds, Corrects
  <2>2. gen.state \in {"graded", "final"} /\ gen.average = "rounded"
    BY <1>1, <2>1 DEF NextState
  <2>3. gen.projection = None /\ gen.fixes = Current.fixes
    BY <1>1, <1>7 DEF NextProjection, Fixes
  <2>4. gen.key \in AnyKey
    <3>1. CASE cmd.kind = "regrade"
      BY <1>1, <3>1 DEF NextKey, AnyKey, Fits, Regrades, Finalizes, FixesIds, Corrects
    <3>2. CASE cmd.kind \in {"finalize", "correct"}
      <4>1. gen.key = Current.key /\ Current.state # "recognized"
        BY <1>1, <3>2 DEF NextKey, Fits, Regrades, Finalizes, FixesIds, Corrects, Graded
      <4> QED BY <1>3, <4>1 DEF StateInv
    <3> QED BY <2>1, <3>1, <3>2
  <2>5. gen.scores = ScoreSet(gen.answers, gen.key)
    BY <1>1, <1>7 DEF NextScores
  <2>6. gen.summary = Cardinality(Scored(gen.scores))
    <3>1. gen.scores # None
      BY <1>2, <1>4, <2>4, <2>5, NoneAssumption
    <3> QED BY <1>1, <3>1
  <2>7. gen.geometry = IF hist[1].geometry = None THEN None ELSE "compact"
    <3>1. CASE Current.state = "recognized"
      <4>1. cmd.kind = "regrade" /\ Current.geometry = hist[1].geometry /\ Origin # "fixed20"
        BY <1>3, <1>7, <3>1 DEF StateInv, Fits, Regrades, Finalizes, FixesIds, Corrects, Graded
      <4> QED BY <1>1, <1>5, <4>1 DEF NextGeometry
    <3>2. CASE Current.state # "recognized"
      <4>1. Current.geometry = IF hist[1].geometry = None THEN None ELSE "compact"
        BY <1>3, <3>2 DEF StateInv
      <4> QED BY <1>1, <1>5, <4>1 DEF NextGeometry
    <3> QED BY <3>1, <3>2
  <2> QED BY <1>1, <1>3, <2>2, <2>3, <2>4, <2>5, <2>6, <2>7 DEF gen, StateInv
<1> QED BY <1>6, <1>7

\* A book that is made tells what its kind tells.
LEMMA BooksMade ==
  ASSUME NEW said, NEW old, NEW kinds, NEW b \in BooksOf(said, old, kinds)
  PROVE  b.tells = Tells(b.kind, said) /\ b.old = old
<1>1. PICK kind \in kinds : b = Book(kind, old, Tells(kind, said))
  BY DEF BooksOf
<1> QED BY <1>1 DEF Book

\* It shows, tells and draws itself.
LEMMA NextShows ==
  ASSUME HistoryInv, NEW cmd, Fits(cmd)
  PROVE  LET gen == Materialized(Current, cmd, Revision)
         IN /\ gen.shown = Shown(gen.ids, gen.fixes, gen.scores)
            /\ \A b \in gen.books : b.tells = Tells(b.kind, gen) \/ b.old
            /\ hist[1].geometry # None /\ gen.state \in {"graded", "final"} => DOMAIN gen.pictures = DOMAIN gen.ids
<1> DEFINE said == Said(Current, cmd, Revision)
           gen == Materialized(Current, cmd, Revision)
<1>1. SameSaid(gen, said) /\ gen.books = NextBooks(Current, cmd, said) /\ gen.pictures = Drawn(said)
  BY SaidIs
<1>2. /\ said.ids = Current.ids /\ said.shown = Shown(Current.ids, Fixes(Current, cmd), NextScores(Current, cmd, Revision))
      /\ said.fixes = Fixes(Current, cmd) /\ said.scores = NextScores(Current, cmd, Revision)
      /\ said.key = NextKey(Current, cmd)
  BY DEF Said
<1>3. gen.answers \in Answerings(Origin) /\ (cmd.kind # "correct" => gen.answers = Current.answers)
  BY NextExplains
<1>4. gen.state # "recognized" =>
        /\ gen.key \in AnyKey /\ gen.scores = ScoreSet(gen.answers, gen.key)
        /\ gen.geometry = IF hist[1].geometry = None THEN None ELSE "compact"
  BY NextHas
<1> HIDE DEF said, gen
<1>5. gen.shown = Shown(gen.ids, gen.fixes, gen.scores)
  BY <1>1, <1>2 DEF SameSaid
<1>6. \A kind : Tells(kind, gen) = Tells(kind, said)
  BY <1>1 DEF SameSaid, Tells
<1>7. ASSUME NEW b \in gen.books PROVE b.tells = Tells(b.kind, gen) \/ b.old
  <2> DEFINE made == Written(cmd.kind, said.scores # None)
  <2>1. gen.books = {x \in Current.books : Preserved(x, cmd.kind) /\ (x.kind \in made => x.old)}
                      \cup BooksOf(said, FALSE, made)
    BY <1>1 DEF NextBooks
  <2>2. CASE b \in BooksOf(said, FALSE, made)
    <3>1. b.tells = Tells(b.kind, said)
      BY <2>2, BooksMade
    <3> QED BY <1>6, <3>1
  <2>3. CASE b \in Current.books /\ Preserved(b, cmd.kind) /\ (b.kind \in made => b.old)
    <3>1. CASE b.old
      BY <3>1
    <3>2. CASE ~b.old
      <4>1. "responses" \in made
        BY DEF Written
      <4>2. cmd.kind = "finalize" /\ b.kind = "score"
        BY <2>3, <3>2, <4>1 DEF Preserved
      <4>3. Current.state = "graded" /\ cmd.key = Current.key
        BY <4>2 DEF Fits, Regrades, Finalizes, FixesIds, Corrects
      <4>4. Current.scores = ScoreSet(Current.answers, Current.key)
        BY <4>3 DEF HistoryInv, StateInv
      <4>5. said.fixes = Current.fixes /\ said.key = Current.key /\ gen.answers = Current.answers
        BY <1>2, <1>3, <4>2, <4>3 DEF Fixes, NextKey
      <4>6. NextAnswers(Current, cmd, Revision) = Current.answers
        BY <4>2 DEF NextAnswers
      <4>7. said.scores = Current.scores
        BY <1>2, <4>2, <4>4, <4>5, <4>6 DEF NextScores
      <4>8. gen.shown = Current.shown
        BY <1>1, <1>2, <1>5, <4>5, <4>7 DEF SameSaid, HistoryInv, ShownInv
      <4>9. gen.key = Current.key /\ gen.scores = Current.scores
        BY <1>1, <4>5, <4>7 DEF SameSaid
      <4>10. Tells("score", gen) = Tells("score", Current)
        BY <4>5, <4>8, <4>9 DEF Tells
      <4>11. b.tells = Tells(b.kind, Current)
        BY <2>3, <3>2 DEF HistoryInv, ShownInv
      <4> QED BY <4>2, <4>10, <4>11
    <3> QED BY <3>1, <3>2
  <2> QED BY <2>1, <2>2, <2>3
<1>8. ASSUME hist[1].geometry # None, gen.state \in {"graded", "final"} PROVE DOMAIN gen.pictures = DOMAIN gen.ids
  <2>1. gen.geometry = "compact" /\ gen.key \in AnyKey /\ gen.scores = ScoreSet(gen.answers, gen.key)
    BY <1>4, <1>8
  <2>2. gen.geometry # None /\ gen.scores # None
    BY <1>3, <2>1, CurrentIs, NoneAssumption
  <2>3. said.geometry # None /\ said.scores # None /\ said.answers = gen.answers
    BY <1>1, <2>2 DEF SameSaid
  <2>4. gen.pictures = [s \in DOMAIN gen.answers |-> Picture(said, s)]
    BY <1>1, <2>3 DEF Drawn
  <2>5. DOMAIN gen.answers = SheetsOf(Origin)
    BY <1>3 DEF Answerings
  <2>6. gen.ids = Current.ids /\ DOMAIN Current.ids = SheetsOf(Origin)
    BY <1>1, <1>2, CurrentIs DEF SameSaid
  <2> QED BY <2>4, <2>5, <2>6
<1> QED BY <1>5, <1>7, <1>8 DEF gen

-----------------------------------------------------------------------------
(***************************************************************************)
(* The steps                                                               *)
(***************************************************************************)
\* A sequence is one of its own elements.
LEMMA OwnElements ==
  ASSUME NEW S, NEW h \in Seq(S)
  PROVE  h \in Seq({h[i] : i \in 1..Len(h)})
<1> DEFINE T == {h[i] : i \in 1..Len(h)}
<1>1. Len(h) \in Nat /\ h \in [1..Len(h) -> S]
  BY LenProperties
<1>2. \A i \in 1..Len(h) : h[i] \in T
  OBVIOUS
<1> HIDE DEF T
<1>3. h \in [1..Len(h) -> T]
  BY <1>1, <1>2
<1>4. h \in Seq(T)
  BY <1>1, <1>3
<1> QED BY <1>4 DEF T

\* The generations after one more was committed.
LEMMA Appended ==
  ASSUME HistoryInv, NEW gen, hist' = Append(hist, gen)
  PROVE  /\ Revision' = Revision + 1 /\ Current' = gen /\ Origin' = Origin
         /\ hist'[1] = hist[1] /\ hist'[Revision + 1] = gen
         /\ \A i \in 1..Revision : hist'[i] = hist[i]
         /\ hist' \in Seq({hist'[i] : i \in 1..Len(hist')}) /\ hist' # <<>>
         /\ Len(hist') = Revision + 1
<1>1. hist \in Seq({hist[i] : i \in 1..Len(hist)}) /\ Revision \in Nat /\ Revision > 0
  BY CurrentIs DEF HistoryInv, KeptInv
<1>2. /\ Append(hist, gen) \in Seq({hist[i] : i \in 1..Len(hist)} \cup {gen})
      /\ Len(Append(hist, gen)) = Len(hist) + 1
      /\ Append(hist, gen)[Len(hist) + 1] = gen
      /\ \A n \in 1..Len(hist) : Append(hist, gen)[n] = hist[n]
  BY <1>1, AppendIs
<1>3. /\ Len(hist') = Revision + 1 /\ hist'[Revision + 1] = gen
      /\ \A i \in 1..Revision : hist'[i] = hist[i]
  BY <1>2 DEF Revision
<1>4. Revision' = Revision + 1 /\ Current' = gen
  BY <1>3 DEF Revision, Current
<1>5. hist'[1] = hist[1]
  BY <1>1, <1>3
<1>6. hist' \in Seq({hist'[i] : i \in 1..Len(hist')}) /\ hist' # <<>>
  <2> DEFINE S == {hist[i] : i \in 1..Len(hist)} \cup {gen}
  <2>1. hist' \in Seq(S)
    BY <1>2
  <2> HIDE DEF S
  <2>2. Len(hist') \in Nat /\ Len(hist') > 0
    BY <1>1, <1>3
  <2>3. hist' \in Seq({hist'[i] : i \in 1..Len(hist')})
    BY <2>1, OwnElements
  <2>4. hist' # <<>>
    BY <2>1, <2>2
  <2> QED BY <2>3, <2>4
<1> QED BY <1>3, <1>4, <1>5, <1>6 DEF Origin

\* Whatever operation is committed, the generations still explain and show themselves.
LEMMA Commits ==
  ASSUME HistoryInv, NEW cmd, Fits(cmd), hist' = Append(hist, Materialized(Current, cmd, Revision))
  PROVE  KeptInv' /\ StateInv' /\ LineInv' /\ ShownInv'
<1> DEFINE gen == Materialized(Current, cmd, Revision)
           new == NewEvents(gen, Revision + 1)
<1>1. /\ Revision' = Revision + 1 /\ Current' = gen /\ Origin' = Origin
      /\ hist'[1] = hist[1] /\ hist'[Revision + 1] = gen
      /\ \A i \in 1..Revision : hist'[i] = hist[i]
      /\ hist' \in Seq({hist'[i] : i \in 1..Len(hist')}) /\ hist' # <<>>
      /\ Len(hist') = Revision + 1
  BY Appended
<1>2. /\ gen.ids = Current.ids /\ gen.answers \in Answerings(Origin) /\ gen.corrections \in StateOf(Origin)
      /\ GoesOn(gen.corrections, gen.answers, gen.corrected)
      /\ new \in Seq(EventOf(Origin)) /\ gen.corrections.events = Story.events \o new
  BY NextExplains
<1>3. /\ gen.state \in {"recognized", "graded", "final"} /\ gen.average \in {"rounded", "unrounded"}
      /\ DOMAIN gen.fixes \subseteq DOMAIN gen.ids
      /\ gen.state = "recognized" =>
           /\ Origin # "fixed20"
           /\ gen.projection = [parent |-> Revision, ids |-> gen.ids, answers |-> gen.answers]
           /\ gen.key = None /\ gen.scores = None /\ gen.geometry = hist[1].geometry
      /\ gen.state # "recognized" =>
           /\ gen.projection = None /\ gen.key \in AnyKey
           /\ gen.scores = ScoreSet(gen.answers, gen.key)
           /\ gen.summary = Cardinality(Scored(gen.scores))
           /\ gen.geometry = IF hist[1].geometry = None THEN None ELSE "compact"
  BY NextHas
<1>4. /\ gen.shown = Shown(gen.ids, gen.fixes, gen.scores)
      /\ \A b \in gen.books : b.tells = Tells(b.kind, gen) \/ b.old
      /\ hist[1].geometry # None /\ gen.state \in {"graded", "final"} => DOMAIN gen.pictures = DOMAIN gen.ids
  BY NextShows
<1>5. Revision \in Nat /\ Revision > 0 /\ Origin \in Origins
  BY CurrentIs
<1> HIDE DEF gen, new
<1>6. KeptInv'
  <2>1. ASSUME NEW i \in 1..Len(hist')
        PROVE  hist'[i].ids = hist'[1].ids /\ NewEvents(hist'[i], i) \in Seq(EventOf(Origin))
    <3>1. CASE i = Revision + 1
      <4>1. Current.ids = hist[1].ids
        <5>1. Revision \in 1..Len(hist)
          BY CurrentIs
        <5> QED BY <5>1 DEF HistoryInv, KeptInv, Current
      <4> QED BY <1>1, <1>2, <3>1, <4>1 DEF new
    <3>2. CASE i # Revision + 1
      <4>1. i \in 1..Revision
        BY <1>1, <1>5, <3>2
      <4> QED BY <1>1, <4>1 DEF HistoryInv, KeptInv, Revision
    <3> QED BY <3>1, <3>2
  <2>2. /\ Origin \in Origins /\ hist[1].ids = Reads[Origin].ids /\ hist[1].answers = Reads[Origin].answers
        /\ hist[1].geometry = IF Origin = "scan" THEN "pages" ELSE IF Origin = "fixed20" THEN "compact" ELSE None
    BY DEF HistoryInv, KeptInv
  <2> QED BY <1>1, <2>1, <2>2 DEF KeptInv
<1>7. StateInv'
  <2>1. (Revision + 1) - 1 = Revision
    BY <1>5
  <2> QED BY <1>1, <1>3, <2>1 DEF StateInv
<1>8. Story' = gen.corrections
  <2>1. gen.corrections # None
    BY <1>2, <1>5, StateIs
  <2> QED BY <1>1, <2>1 DEF Story, Adapted
<1>9. Made' = Made \o new
  <2>1. hist \in Seq({hist[i] : i \in 1..Len(hist)})
    BY DEF HistoryInv, KeptInv
  <2>2. \A i \in 1..Len(hist) : NewEvents(hist[i], i) \in Seq(EventOf(Origin))
    BY DEF HistoryInv, KeptInv
  <2>3. NewEvents(gen, Len(hist) + 1) \in Seq(EventOf(Origin)) /\ hist' = Append(hist, gen)
    BY <1>2 DEF new, gen, Revision
  <2>4. MadeIn(Append(hist, gen)) = MadeIn(hist) \o NewEvents(gen, Len(hist) + 1)
    BY <2>1, <2>2, <2>3, MadeOn
  <2> QED BY <2>3, <2>4 DEF Made, new, Revision
<1>10. LineInv'
  <2>1. Story.baseline.answers = hist[1].answers /\ Story.events = Made /\ Story.complete = (Origin # "fixed20")
    BY DEF HistoryInv, LineInv
  <2>2. /\ gen.corrections.baseline = Story.baseline /\ gen.corrections.complete = Story.complete
        /\ \A i \in 1..Len(gen.corrections.events) :
             gen.corrections.events[i].id[1] = gen.corrections.events[i].base
    BY <1>2 DEF GoesOn
  <2>3. Explains(gen.corrections, gen, Revision + 1)
    <3>1. gen.corrections.baseline.ids = gen.ids
      BY <1>2, <1>5, StateIs, CurrentIs
    <3> QED BY <1>2, <3>1 DEF GoesOn, Explains
  <2>4. gen.corrections.events = Made'
    BY <1>2, <1>9, <2>1
  <2> QED BY <1>1, <1>2, <1>8, <2>1, <2>2, <2>3, <2>4 DEF LineInv
<1>11. ShownInv'
  BY <1>1, <1>4 DEF ShownInv, Graded
<1> QED BY <1>6, <1>7, <1>10, <1>11

\* Then no operation is worked out on the new generation yet.
LEMMA CommitsUser ==
  ASSUME HistoryInv, NEW u \in Users, user' = [user EXCEPT ![u] = Idle], Revision' = Revision + 1
  PROVE  UserInv'
<1>1. UserInv /\ Revision \in Nat
  BY CurrentIs DEF HistoryInv
<1>2. DOMAIN user' = Users
  BY <1>1 DEF UserInv
<1>3. ASSUME NEW v \in Users, user'[v] # Idle
      PROVE  /\ user'[v].kind \in {"regrade", "finalize", "fix", "correct"}
             /\ user'[v].rev \in Nat /\ user'[v].rev <= Revision /\ user'[v].rev # Revision + 1
  <2>1. v # u /\ user'[v] = user[v]
    BY <1>1, <1>3 DEF UserInv
  <2>2. /\ user[v].kind \in {"regrade", "finalize", "fix", "correct"}
        /\ user[v].rev \in Nat /\ user[v].rev <= Revision
    BY <1>1, <1>3, <2>1 DEF UserInv
  <2>3. user[v].rev # Revision + 1
    BY <1>1, <2>2
  <2> QED BY <2>1, <2>2, <2>3
<1>4. \A v \in Users : user'[v] # Idle =>
        /\ user'[v].kind \in {"regrade", "finalize", "fix", "correct"}
        /\ user'[v].rev \in Nat /\ user'[v].rev <= Revision' /\ user'[v].rev # Revision'
  <2> TAKE v \in Users
  <2>1. HAVE user'[v] # Idle
  <2>2. user'[v].rev \in Nat /\ user'[v].rev <= Revision => user'[v].rev <= Revision + 1
    BY <1>1
  <2> QED BY <1>3, <2>1, <2>2
<1>5. Idle' = Idle
  BY DEF Idle
<1> QED BY <1>2, <1>4, <1>5 DEF UserInv

\* While nothing is committed only what is worked out can change.
LEMMA Stays ==
  ASSUME HistoryInv, UNCHANGED hist, NEW u \in Users, NEW cmd,
         user' = [user EXCEPT ![u] = cmd], cmd = Idle \/ (Fits(cmd) /\ cmd.rev = Revision)
  PROVE  HistoryInv'
<1>1. /\ KeptInv' /\ StateInv' /\ LineInv' /\ ShownInv' /\ Revision' = Revision
      /\ \A c : Fits(c)' <=> Fits(c)
  BY DEF HistoryInv, KeptInv, StateInv, LineInv, ShownInv, Origin, Story, Made, Current, Revision, Graded,
         Fits, Regrades, Finalizes, FixesIds, Corrects
<1>2. Revision \in Nat /\ UserInv
  BY CurrentIs DEF HistoryInv
<1>3. Fits(cmd) => cmd.kind \in {"regrade", "finalize", "fix", "correct"}
  BY DEF Fits, Regrades, Finalizes, FixesIds, Corrects
<1>4. ASSUME NEW v \in Users, user'[v] # Idle
      PROVE  /\ user'[v].kind \in {"regrade", "finalize", "fix", "correct"}
             /\ user'[v].rev \in Nat /\ user'[v].rev <= Revision
             /\ user'[v].rev = Revision => Fits(user'[v])
  <2>1. CASE v = u
    <3>1. user'[v] = cmd
      BY <1>2, <2>1 DEF UserInv
    <3>2. Revision <= Revision
      BY <1>2
    <3> QED BY <1>2, <1>3, <1>4, <3>1, <3>2
  <2>2. CASE v # u
    <3>1. user'[v] = user[v]
      BY <1>2, <2>2 DEF UserInv
    <3> QED BY <1>2, <1>4, <3>1 DEF UserInv
  <2> QED BY <2>1, <2>2
<1>5. DOMAIN user' = Users
  BY <1>2 DEF UserInv
<1>6. UserInv'
  <2> HIDE DEF Fits
  <2>1. Idle' = Idle
    BY DEF Idle
  <2>2. \A v \in Users : user'[v] # Idle' =>
          /\ user'[v].kind \in {"regrade", "finalize", "fix", "correct"}
          /\ user'[v].rev \in Nat /\ user'[v].rev <= Revision'
          /\ user'[v].rev = Revision' => Fits(user[v])'
    BY <1>1, <1>4, <2>1
  <2> QED BY <1>5, <2>2 DEF UserInv
<1> QED BY <1>1, <1>6 DEF HistoryInv

-----------------------------------------------------------------------------
(***************************************************************************)
(* The first generation                                                    *)
(***************************************************************************)
FieldNames == {"kind", "state", "ids", "answers", "corrected", "key", "scores", "average", "summary", "projection",
               "corrections", "fixes", "geometry", "shown", "books", "pictures"}

\* The files of a generation leave what it says as it is.
LEMMA WithFilesIs ==
  ASSUME NEW said, DOMAIN said = FieldNames, said = [x \in DOMAIN said |-> said[x]], NEW books
  PROVE  LET gen == WithFiles(said, books)
         IN SameSaid(gen, said) /\ gen.books = books /\ gen.pictures = Drawn(said)
              /\ \A kind : Tells(kind, gen) = Tells(kind, said)
<1> DEFINE gen == WithFiles(said, books)
<1>1. gen = [said EXCEPT !.books = books, !.pictures = Drawn(said)]
  BY DEF WithFiles
<1> HIDE DEF gen
<1>2. /\ \A x \in DOMAIN said \ {"books", "pictures"} : gen[x] = said[x]
      /\ gen.books = books /\ gen.pictures = Drawn(said)
  BY <1>1 DEF FieldNames
<1>3. SameSaid(gen, said)
  BY <1>2 DEF SameSaid, FieldNames
<1>4. \A kind : Tells(kind, gen) = Tells(kind, said)
  BY <1>3 DEF SameSaid, Tells
<1> QED BY <1>2, <1>3, <1>4 DEF gen

\* What the first generation of an exam is.
Starts(gen, o) ==
  /\ gen.kind = o /\ gen.ids = Reads[o].ids /\ gen.answers = Reads[o].answers /\ gen.corrected = {}
  /\ gen.corrections = None /\ gen.fixes = NoFixes /\ gen.average \in {"rounded", "unrounded"}
  /\ gen.geometry = IF o = "scan" THEN "pages" ELSE IF o = "fixed20" THEN "compact" ELSE None
  /\ gen.shown = Shown(gen.ids, gen.fixes, gen.scores)
  /\ \A b \in gen.books : b.tells = Tells(b.kind, gen) \/ b.old
  /\ IF o # "fixed20"
     THEN /\ gen.state = "recognized" /\ gen.key = None /\ gen.scores = None
          /\ gen.projection = [parent |-> 0, ids |-> gen.ids, answers |-> gen.answers]
     ELSE /\ gen.state = "graded" /\ gen.key \in AnyKey /\ gen.scores = ScoreSet(gen.answers, gen.key)
          /\ gen.summary = Cardinality(Scored(gen.scores)) /\ gen.projection = None
          /\ DOMAIN gen.pictures = DOMAIN gen.ids

\* A scan or an import, which nothing graded yet.
LEMMA RecognizedStarts ==
  ASSUME NEW o \in Origins, o # "fixed20"
  PROVE  Starts(Recognized(o, Reads[o]), o)
<1> DEFINE read == Reads[o]
           said == [kind |-> o, state |-> "recognized", ids |-> read.ids, answers |-> read.answers, corrected |-> {},
                    key |-> UnsetKey, scores |-> None, average |-> "rounded", summary |-> 0,
                    projection |-> [parent |-> 0, ids |-> read.ids, answers |-> read.answers],
                    corrections |-> None, fixes |-> NoFixes,
                    geometry |-> IF o = "scan" THEN "pages" ELSE None,
                    shown |-> Shown(read.ids, NoFixes, None), books |-> {}, pictures |-> NoPictures]
           books == BooksOf(said, FALSE, IF o = "scan" THEN Written("scan", FALSE) ELSE {})
           gen == Recognized(o, Reads[o])
<1>1. gen = WithFiles(said, books)
  BY DEF Recognized
<1>2. DOMAIN said = FieldNames /\ said = [x \in DOMAIN said |-> said[x]]
  BY DEF FieldNames
<1>3. /\ said.kind = o /\ said.state = "recognized" /\ said.ids = Reads[o].ids /\ said.answers = Reads[o].answers
      /\ said.corrected = {} /\ said.key = None /\ said.scores = None /\ said.average = "rounded"
      /\ said.projection = [parent |-> 0, ids |-> Reads[o].ids, answers |-> Reads[o].answers]
      /\ said.corrections = None /\ said.fixes = NoFixes
      /\ said.geometry = (IF o = "scan" THEN "pages" ELSE None)
      /\ said.shown = Shown(Reads[o].ids, NoFixes, None)
  BY DEF UnsetKey
<1>4. \A b \in books : b.tells = Tells(b.kind, said)
  <2> HIDE DEF said
  <2> QED BY BooksMade
<1> HIDE DEF said, books, gen
<1>5. SameSaid(gen, said) /\ gen.books = books /\ \A kind : Tells(kind, gen) = Tells(kind, said)
  BY <1>1, <1>2, WithFilesIs
<1>6. \A b \in gen.books : b.tells = Tells(b.kind, gen)
  BY <1>4, <1>5
<1> QED BY <1>3, <1>5, <1>6 DEF Starts, SameSaid, gen

\* A graded exam of an older version.
LEMMA Fixed20Starts ==
  ASSUME "fixed20" \in Origins, NEW average \in {"rounded", "unrounded"}
  PROVE  Starts(Fixed20(Reads["fixed20"], Reads["fixed20"].key, average), "fixed20")
<1> DEFINE read == Reads["fixed20"]
           key == read.key
           scores == ScoreSet(read.answers, key)
           said == [kind |-> "fixed20", state |-> "graded", ids |-> read.ids, answers |-> read.answers, corrected |-> {},
                    key |-> key, scores |-> scores, average |-> average, summary |-> Cardinality(Scored(scores)),
                    projection |-> None, corrections |-> None, fixes |-> NoFixes, geometry |-> "compact",
                    shown |-> Shown(read.ids, NoFixes, scores), books |-> {}, pictures |-> NoPictures]
           books == BooksOf(said, TRUE, Written("regrade", TRUE))
           gen == Fixed20(Reads["fixed20"], Reads["fixed20"].key, average)
<1>1. gen = WithFiles(said, books)
  BY DEF Fixed20
<1>2. DOMAIN said = FieldNames /\ said = [x \in DOMAIN said |-> said[x]]
  BY DEF FieldNames
<1>3. /\ said.kind = "fixed20" /\ said.state = "graded" /\ said.ids = read.ids /\ said.answers = read.answers
      /\ said.corrected = {} /\ said.key = key /\ said.scores = scores /\ said.average = average
      /\ said.summary = Cardinality(Scored(scores)) /\ said.projection = None
      /\ said.corrections = None /\ said.fixes = NoFixes /\ said.geometry = "compact"
      /\ said.shown = Shown(read.ids, NoFixes, scores)
  OBVIOUS
<1>4. \A b \in books : b.old
  <2> HIDE DEF said
  <2>1. \A b \in books : b.old = TRUE
    BY BooksMade
  <2> QED BY <2>1
<1>5. read.answers \in Answerings("fixed20") /\ key \in AnyKey
  BY ReadsAssumption DEF AnyKey
<1>6. scores # None /\ None # "compact"
  BY <1>5, NoneAssumption
<1> HIDE DEF said, books, gen
<1>7. SameSaid(gen, said) /\ gen.books = books /\ gen.pictures = Drawn(said)
  BY <1>1, <1>2, WithFilesIs
<1>8. DOMAIN gen.pictures = DOMAIN gen.ids
  <2>1. gen.pictures = [s \in DOMAIN said.answers |-> Picture(said, s)]
    BY <1>3, <1>6, <1>7 DEF Drawn
  <2>2. DOMAIN said.answers = DOMAIN said.ids
    BY <1>3, <1>5 DEF Answerings, SheetsOf
  <2> QED BY <1>7, <2>1, <2>2 DEF SameSaid
<1> QED BY <1>3, <1>4, <1>5, <1>7, <1>8 DEF Starts, SameSaid, gen

-----------------------------------------------------------------------------
(***************************************************************************)
(* The theorems                                                            *)
(***************************************************************************)
\* No correction changes nothing.
LEMMA NothingReplayed ==
  ASSUME NEW o \in Origins, NEW a \in Answerings(o)
  PROVE  Replays(a, <<>>) /\ Replay(a, <<>>) = a
<1> DEFINE none == <<>>
<1>1. none \in Seq(Edit(o)) /\ Len(none) = 0
  OBVIOUS
<1> HIDE DEF none
<1>2. Replayed(a, none)[0] = a
  BY <1>1, ReplayedIs
<1>3. Replays(a, none) /\ Replay(a, none) = a
  BY <1>1, <1>2 DEF Replays, Replay
<1> QED BY <1>3 DEF none

\* A first generation is its own explanation.
LEMMA InitHolds == Init => HistoryInv
<1> SUFFICES ASSUME Init PROVE HistoryInv
  OBVIOUS
<1>1. PICK gen \in First : hist = <<gen>>
  BY DEF Init
<1>2. PICK o \in Origins : Starts(gen, o)
  <2>1. CASE gen \in {Recognized(origin, Reads[origin]) : origin \in Origins \ {"fixed20"}}
    BY <2>1, RecognizedStarts
  <2>2. CASE gen \in {Fixed20(Reads[origin], Reads[origin].key, average) :
                        origin \in Origins \cap {"fixed20"}, average \in {"rounded", "unrounded"}}
    BY <2>2, Fixed20Starts
  <2> QED BY <2>1, <2>2 DEF First
<1>3. Len(hist) = 1 /\ hist[1] = gen /\ hist \in Seq({gen}) /\ hist # <<>>
  BY <1>1
<1>4. Revision = 1 /\ Current = gen /\ Origin = o
  BY <1>2, <1>3 DEF Revision, Current, Origin, Starts
<1>5. o # "correct"
  BY HistoryAssumption
<1>6. NewEvents(gen, 1) = <<>> /\ Made = <<>>
  <2>1. NewEvents(gen, 1) = <<>>
    BY <1>2, <1>5 DEF NewEvents, Starts
  <2> QED BY <1>1, <2>1, MadeFirst DEF Made
<1>7. gen.answers \in Answerings(o) /\ gen.ids = Reads[o].ids
  BY <1>2, ReadsAssumption DEF Starts
<1>8. KeptInv
  <2>1. hist \in Seq({hist[i] : i \in 1..Len(hist)})
    BY <1>3, OwnElements
  <2>2. NewEvents(gen, 1) \in Seq(EventOf(o))
    <3>1. <<>> \in Seq(EventOf(o))
      OBVIOUS
    <3> QED BY <1>6, <3>1
  <2>3. \A i \in 1..Len(hist) : hist[i].ids = hist[1].ids /\ NewEvents(hist[i], i) \in Seq(EventOf(o))
    <3> TAKE i \in 1..Len(hist)
    <3>1. i = 1
      BY <1>3
    <3> QED BY <1>3, <2>2, <3>1
  <2> QED BY <1>2, <1>3, <1>4, <2>1, <2>3 DEF KeptInv, Starts
<1>9. StateInv
  <2>1. DOMAIN gen.fixes = {}
    BY <1>2 DEF Starts, NoFixes
  <2>2. CASE o # "fixed20"
    BY <1>2, <1>3, <1>4, <2>1, <2>2 DEF StateInv, Starts
  <2>3. CASE o = "fixed20"
    <3>1. gen.geometry = "compact" /\ "compact" # None
      BY <1>2, <2>3, NoneAssumption DEF Starts
    <3> QED BY <1>2, <1>3, <1>4, <2>1, <2>3, <3>1 DEF StateInv, Starts
  <2> QED BY <2>2, <2>3
<1>10. LineInv
  <2> DEFINE baseline == Baseline(gen.ids, gen.answers, {})
             state == State(1, 1, baseline, <<>>, o # "fixed20")
  <2>1. Story = state
    <3>1. gen.corrections = None /\ gen.corrected = {}
      BY <1>2 DEF Starts
    <3>2. CASE o # "fixed20"
      <4>1. gen.projection = [parent |-> 0, ids |-> gen.ids, answers |-> gen.answers]
        BY <1>2, <3>2 DEF Starts
      <4>2. gen.ids \in {Reads[o].ids}
        BY <1>7
      <4>3. gen.projection # None
        BY <1>7, <4>1, <4>2, NoneAssumption
      <4>4. gen.projection.ids = gen.ids /\ gen.projection.answers = gen.answers /\ (o # "fixed20") = TRUE
        BY <3>2, <4>1
      <4> QED BY <1>4, <3>1, <4>3, <4>4 DEF Story, Adapted
    <3>3. CASE o = "fixed20"
      <4>1. gen.projection = None /\ gen.state # "recognized" /\ (o # "fixed20") = FALSE
        BY <1>2, <3>3 DEF Starts
      <4> QED BY <1>4, <3>1, <4>1 DEF Story, Adapted
    <3> QED BY <3>2, <3>3
  <2>2. /\ baseline.ids = gen.ids /\ baseline.answers = gen.answers /\ baseline.corrected = {}
        /\ baseline \in [ids : {Reads[o].ids}, answers : Answerings(o), corrected : {{}}]
    BY <1>7 DEF Baseline
  <2> HIDE DEF baseline
  <2>3. /\ state.rev = 1 /\ state.base = 1 /\ state.events = <<>> /\ state.complete = (o # "fixed20")
        /\ state.baseline = baseline /\ state \in StateOf(o)
    BY <2>2 DEF State, StateOf
  <2> HIDE DEF state
  <2>4. <<>> \in Seq(Edit(o)) /\ Len(<<>>) = 0 /\ Edits(<<>>) = <<>> /\ DOMAIN <<>> = {}
    BY DEF Edits
  <2>5. Replays(gen.answers, <<>>) /\ Replay(gen.answers, <<>>) = gen.answers
    BY <1>7, NothingReplayed
  <2>6. Explains(state, gen, 1)
    <3>1. Bound(state, 1) /\ HistoryValid(state.events)
      BY <2>3, <2>4 DEF Bound, HistoryValid
    <3>2. Corrected(state) = gen.corrected
      <4>1. gen.corrected = {}
        BY <1>2 DEF Starts
      <4> QED BY <2>2, <2>3, <2>4, <4>1 DEF Corrected
    <3> QED BY <2>2, <2>3, <2>4, <2>5, <3>1, <3>2 DEF Explains
  <2> QED BY <1>3, <1>4, <1>6, <2>1, <2>2, <2>3, <2>4, <2>6 DEF LineInv
<1>11. ShownInv
  <2>1. CASE o # "fixed20"
    BY <1>2, <1>3, <1>4, <2>1 DEF ShownInv, Starts, Graded
  <2>2. CASE o = "fixed20"
    BY <1>2, <1>3, <1>4, <2>2 DEF ShownInv, Starts, Graded
  <2> QED BY <2>1, <2>2
<1>12. UserInv
  BY DEF Init, UserInv
<1> QED BY <1>8, <1>9, <1>10, <1>11, <1>12 DEF HistoryInv

\* Grading is worked out for this generation.
LEMMA RegradeKeeps ==
  ASSUME HistoryInv, NEW u \in Users, NEW key \in Keys, Regrade(u, key)
  PROVE  HistoryInv'
<1> DEFINE cmd == [kind |-> "regrade", rev |-> Revision, state |-> Current.state, key |-> key,
                   scores |-> ScoreSet(Current.answers, key)]
<1>1. UNCHANGED hist /\ user' = [user EXCEPT ![u] = cmd]
  BY DEF Regrade, Working
<1>2. cmd.rev = Revision /\ Fits(cmd)
  BY DEF Fits, Regrades
<1> HIDE DEF cmd
<1> QED BY <1>1, <1>2, Stays

\* So is a final book.
LEMMA FinalizeKeeps ==
  ASSUME HistoryInv, NEW u \in Users, Finalize(u)
  PROVE  HistoryInv'
<1> DEFINE cmd == [kind |-> "finalize", rev |-> Revision, state |-> Current.state, key |-> Current.key,
                   scores |-> Current.scores]
<1>1. UNCHANGED hist /\ user' = [user EXCEPT ![u] = cmd] /\ Current.state = "graded"
  BY DEF Finalize, Working
<1>2. cmd.rev = Revision /\ Fits(cmd)
  BY <1>1 DEF Fits, Finalizes
<1> HIDE DEF cmd
<1> QED BY <1>1, <1>2, Stays

\* So is the fix of an ID.
LEMMA FixKeeps ==
  ASSUME HistoryInv, NEW u \in Users, NEW sheet \in DOMAIN Current.ids, NEW target \in Targets,
         FixId(u, sheet, target)
  PROVE  HistoryInv'
<1> DEFINE cmd == [kind |-> "fix", rev |-> Revision, state |-> Current.state, sheet |-> sheet,
                   fixes |-> NewFixes(Current, sheet, target), projection |-> Current.projection]
<1>1. UNCHANGED hist /\ user' = [user EXCEPT ![u] = cmd] /\ Current.state \in {"recognized", "graded"}
  BY DEF FixId, Working
<1>2. cmd.rev = Revision /\ Fits(cmd)
  <2>1. /\ cmd.kind = "fix" /\ cmd.rev = Revision /\ cmd.state = Current.state /\ cmd.sheet = sheet
        /\ cmd.fixes = NewFixes(Current, sheet, target) /\ cmd.projection = Current.projection
    OBVIOUS
  <2> HIDE DEF cmd
  <2> QED BY <1>1, <2>1 DEF Fits, FixesIds
<1> HIDE DEF cmd
<1> QED BY <1>1, <1>2, Stays

\* And so is a batch of corrections that can be applied.
LEMMA CorrectionFits ==
  ASSUME HistoryInv, NEW edits \in Batches, Applicable(edits)
  PROVE  LET cmd == Correction(edits)
         IN Fits(cmd) /\ Corrects(cmd) /\ cmd.rev = Revision /\ cmd.edits = edits
<1> DEFINE real == {e \in {Draft(s, q, after) : s \in DOMAIN Current.answers, q \in Questions, after \in Changed} :
                      e.after # e.before}
<1>1. /\ Origin \in Origins /\ DOMAIN Current.answers = SheetsOf(Origin)
      /\ \A s \in SheetsOf(Origin) : DOMAIN Current.answers[s] = QuestionsOf(Origin)
      /\ Current.answers \in Answerings(Origin)
  BY CurrentIs
<1>2. real \subseteq Edit(Origin)
  <2>1. ASSUME NEW s \in DOMAIN Current.answers, NEW q \in Questions, NEW after \in Changed
        PROVE  Draft(s, q, after) \in Edit(Origin)
    <3>1. s \in SheetsOf(Origin) /\ q \in QuestionsOf(Origin)
      BY <1>1 DEF Questions
    <3>2. Current.answers[s][q] \in AnswersOf(Origin) /\ after \in AnswersOf(Origin)
      BY <1>1, <3>1 DEF Answerings, AnswersOf
    <3> QED BY <3>1, <3>2 DEF Draft, Edit
  <2> QED BY <2>1
<1>3. edits \in Seq(Edit(Origin)) /\ Len(edits) > 0
  <2> DEFINE E == Edit(Origin)
  <2>1. edits \in {<<e>> : e \in real} \cup {<<e, f>> : e, f \in real}
    BY DEF Batches
  <2>2. real \subseteq E
    BY <1>2
  <2> HIDE DEF real, E
  <2>3. CASE edits \in {<<e>> : e \in real}
    <3>1. PICK e \in real : edits = <<e>>
      BY <2>3
    <3>2. e \in E
      BY <2>2, <3>1
    <3> QED BY <3>1, <3>2 DEF E
  <2>4. CASE edits \in {<<e, f>> : e, f \in real}
    <3>1. PICK e \in real, f \in real : edits = <<e, f>>
      BY <2>4
    <3>2. e \in E /\ f \in E
      BY <2>2, <3>1
    <3> QED BY <3>1, <3>2 DEF E
  <2> QED BY <2>1, <2>3, <2>4
<1> DEFINE cmd == Correction(edits)
<1>4. /\ cmd.kind = "correct" /\ cmd.rev = Revision /\ cmd.state = Current.state /\ cmd.edits = edits
      /\ cmd.answers = Replay(Current.answers, edits) /\ cmd.scores = ScoreSet(cmd.answers, Current.key)
  BY DEF Correction
<1> HIDE DEF cmd
<1>5. Corrects(cmd)
  BY <1>3, <1>4 DEF Corrects, Applicable
<1> QED BY <1>4, <1>5 DEF Fits, cmd

\* A commit changes the generations and is done.
LEMMA CommitKeeps ==
  ASSUME HistoryInv, NEW u \in Users, NEW cmd, Fits(cmd),
         hist' = Append(hist, Materialized(Current, cmd, Revision)), user' = [user EXCEPT ![u] = Idle]
  PROVE  HistoryInv'
<1>1. KeptInv' /\ StateInv' /\ LineInv' /\ ShownInv'
  BY Commits
<1>2. Revision' = Revision + 1
  BY Appended
<1>3. UserInv'
  BY <1>2, CommitsUser
<1> QED BY <1>1, <1>3 DEF HistoryInv

\* Every step keeps the invariant.
LEMMA StepHolds == HistoryInv /\ [Next]_vars => HistoryInv'
<1> SUFFICES ASSUME HistoryInv, [Next]_vars PROVE HistoryInv'
  OBVIOUS
<1>1. CASE UNCHANGED vars
  BY <1>1 DEF vars, HistoryInv, KeptInv, StateInv, LineInv, ShownInv, UserInv, Origin, Story, Made, Current, Revision,
              Graded, Fits, Regrades, Finalizes, FixesIds, Corrects
<1>2. CASE Next
  <2>1. PICK u \in Users :
          \/ \E key \in Keys : Regrade(u, key)
          \/ Finalize(u)
          \/ \E sheet \in DOMAIN Current.ids, target \in Targets : FixId(u, sheet, target)
          \/ \E edits \in Batches : Preview(u, edits) \/ SaveOther(u, edits)
          \/ ClosePending(u) \/ Commit(u) \/ Refused(u)
    BY <1>2 DEF Next
  <2>2. ASSUME NEW key \in Keys, Regrade(u, key) PROVE HistoryInv'
    BY <2>2, RegradeKeeps
  <2>3. CASE Finalize(u)
    BY <2>3, FinalizeKeeps
  <2>4. ASSUME NEW sheet \in DOMAIN Current.ids, NEW target \in Targets, FixId(u, sheet, target) PROVE HistoryInv'
    BY <2>4, FixKeeps
  <2>5. ASSUME NEW edits \in Batches, Preview(u, edits) PROVE HistoryInv'
    <3>1. UNCHANGED hist /\ user' = [user EXCEPT ![u] = Correction(edits)] /\ Applicable(edits)
      BY <2>5 DEF Preview
    <3>2. Fits(Correction(edits)) /\ Correction(edits).rev = Revision
      BY <3>1, CorrectionFits
    <3> QED BY <3>1, <3>2, Stays
  <2>6. ASSUME NEW edits \in Batches, SaveOther(u, edits) PROVE HistoryInv'
    <3>1. /\ hist' = Append(hist, Materialized(Current, Correction(edits), Revision))
          /\ user' = [user EXCEPT ![u] = Idle] /\ Applicable(edits)
      BY <2>6 DEF SaveOther
    <3>2. Fits(Correction(edits))
      BY <3>1, CorrectionFits
    <3> QED BY <3>1, <3>2, CommitKeeps
  <2>7. CASE ClosePending(u) \/ Refused(u)
    <3>1. UNCHANGED hist /\ user' = [user EXCEPT ![u] = Idle]
      BY <2>7 DEF ClosePending, Refused
    <3> QED BY <3>1, Stays
  <2>8. CASE Commit(u)
    <3>1. /\ hist' = Append(hist, Materialized(Current, user[u], Revision))
          /\ user' = [user EXCEPT ![u] = Idle] /\ user[u] # Idle /\ user[u].rev = Revision
      BY <2>8 DEF Commit, MayCommit
    <3>2. Fits(user[u])
      BY <3>1 DEF HistoryInv, UserInv
    <3> QED BY <3>1, <3>2, CommitKeeps
  <2> QED BY <2>1, <2>2, <2>3, <2>4, <2>5, <2>6, <2>7, <2>8
<1> QED BY <1>1, <1>2

\* The invariant holds in every state of every run.
THEOREM HistoryHolds == Spec => []HistoryInv
<1>1. Init => HistoryInv
  BY InitHolds
<1>2. HistoryInv /\ [Next]_vars => HistoryInv'
  BY StepHolds
<1> QED BY <1>1, <1>2, PTL DEF Spec

\* Whatever was committed is read again, and no operation worked out on it is refused but
\* the fix of an exam with the average of 2.1.0 (materialize against the two snapshot readers).
THEOREM ReadsBackHolds == Spec => []ReadsBack
<1>1. HistoryInv => ReadsBack
  <2> SUFFICES ASSUME HistoryInv PROVE ReadsBack
    OBVIOUS
  <2>1. GradingReads(Current) /\ (Graded => CorrectionReads(Current, Revision))
    BY Opens
  <2>2. ASSUME NEW u \in Users, user[u] # Idle, MayCommit(user[u]),
               ~(user[u].kind = "fix" /\ Current.average = "unrounded")
        PROVE  Accepted(Current, user[u], Revision)
    <3>1. Fits(user[u])
      BY <2>2 DEF HistoryInv, UserInv, MayCommit
    <3> QED BY <2>2, <3>1, Ready
  <2> QED BY <2>1, <2>2 DEF ReadsBack
<1> QED BY <1>1, HistoryHolds, PTL

\* Every generation is the first one with all corrections made since, each once and in order.
THEOREM ReadIsKeptHolds == Spec => []ReadIsKept
<1>1. HistoryInv => ReadIsKept
  <2> SUFFICES ASSUME HistoryInv PROVE ReadIsKept
    OBVIOUS
  <2>1. \A i \in DOMAIN hist : hist[i].ids = hist[1].ids
    <3>1. hist \in Seq({hist[i] : i \in 1..Len(hist)})
      BY DEF HistoryInv, KeptInv
    <3>2. DOMAIN hist = 1..Len(hist)
      BY <3>1
    <3> QED BY <3>2 DEF HistoryInv, KeptInv
  <2>2. /\ Story.baseline.answers = hist[1].answers /\ Story.events = Made
        /\ Story.complete = (Origin # "fixed20") /\ Explains(Story, Current, Revision)
    BY DEF HistoryInv, LineInv
  <2>3. Replay(hist[1].answers, Edits(Made)) = Current.answers
    BY <2>2 DEF Explains
  <2>4. Current.corrections # None => Story = Current.corrections
    BY DEF Story, Adapted
  <2> QED BY <2>1, <2>2, <2>3, <2>4 DEF ReadIsKept, Origin
<1> QED BY <1>1, HistoryHolds, PTL

\* What is shown, told in books and drawn is of the same generation.
THEOREM ShowsItselfHolds == Spec => []ShowsItself
<1>1. HistoryInv => ShowsItself
  <2> SUFFICES ASSUME HistoryInv PROVE ShowsItself
    OBVIOUS
  <2>1. StateInv /\ ShownInv
    BY DEF HistoryInv
  <2>2. Graded => Current.state # "recognized"
    BY DEF Graded
  <2>3. Current.state # "recognized" <=> Graded
    BY Opens
  <2>4. Current.corrected = {Target(Made[i].edit) : i \in DOMAIN Made}
    <3>1. Story.events = Made /\ Corrected(Story) = Current.corrected
      BY DEF HistoryInv, LineInv, Explains
    <3>2. Story.baseline.corrected = {}
      BY CurrentIs, StateIs
    <3> QED BY <3>1, <3>2 DEF Corrected
  <2>5. hist[1].geometry # None => Current.geometry = IF Graded THEN "compact" ELSE "pages"
    <3>1. hist[1].geometry = IF Origin = "scan" THEN "pages" ELSE IF Origin = "fixed20" THEN "compact" ELSE None
      BY DEF HistoryInv, KeptInv
    <3> QED BY <2>1, <2>3, <3>1 DEF StateInv
  <2> QED BY <2>1, <2>2, <2>4, <2>5 DEF ShowsItself, StateInv, ShownInv
<1> QED BY <1>1, HistoryHolds, PTL

\* A commit changes the fix of no sheet but the one it fixes.
LEMMA FixesOfOne ==
  ASSUME HistoryInv, NEW cmd, Fits(cmd), NEW s \in DOMAIN Current.ids, ~(cmd.kind = "fix" /\ cmd.sheet = s)
  PROVE  LET gen == Materialized(Current, cmd, Revision)
         IN /\ (s \in DOMAIN gen.fixes) = (s \in DOMAIN Current.fixes)
            /\ s \in DOMAIN Current.fixes => gen.fixes[s] = Current.fixes[s]
<1> DEFINE gen == Materialized(Current, cmd, Revision)
<1>1. gen.fixes = Fixes(Current, cmd)
  BY NextHas
<1> HIDE DEF gen
<1>2. CASE cmd.kind # "fix"
  BY <1>1, <1>2 DEF Fixes, gen
<1>3. CASE cmd.kind = "fix"
  <2>1. PICK target \in Targets : cmd.fixes = NewFixes(Current, cmd.sheet, target)
    BY <1>3 DEF Fits, Regrades, Finalizes, FixesIds, Corrects
  <2>2. gen.fixes = NewFixes(Current, cmd.sheet, target) /\ s # cmd.sheet
    BY <1>1, <1>3, <2>1 DEF Fixes
  <2>3. (s \in DOMAIN gen.fixes) <=> (s \in DOMAIN Current.fixes)
    BY <2>2 DEF NewFixes
  <2>4. s \in DOMAIN Current.fixes => gen.fixes[s] = Current.fixes[s]
    BY <2>2 DEF NewFixes
  <2> QED BY <2>3, <2>4 DEF gen
<1> QED BY <1>2, <1>3

\* What a step that commits does: one operation that fits, of the program that commits it.
LEMMA CommitDoes ==
  ASSUME HistoryInv, NEW v \in Users, NEW cmd, Fits(cmd),
         hist' = Append(hist, Materialized(Current, cmd, Revision))
  PROVE  /\ \A s \in DOMAIN Current.ids :
              \/ cmd.kind = "fix" /\ cmd.sheet = s
              \/ /\ (s \in DOMAIN Current'.fixes) = (s \in DOMAIN Current.fixes)
                 /\ s \in DOMAIN Current.fixes => Current'.fixes[s] = Current.fixes[s]
         /\ cmd.kind = "correct" =>
              Batch' = cmd.edits /\ Current'.answers = cmd.answers /\ Current'.scores = cmd.scores
<1> DEFINE gen == Materialized(Current, cmd, Revision)
<1>1. Current' = gen /\ Revision' = Revision + 1
  BY Appended
<1>2. ASSUME NEW s \in DOMAIN Current.ids, ~(cmd.kind = "fix" /\ cmd.sheet = s)
      PROVE  /\ (s \in DOMAIN gen.fixes) = (s \in DOMAIN Current.fixes)
             /\ s \in DOMAIN Current.fixes => gen.fixes[s] = Current.fixes[s]
  BY <1>2, FixesOfOne
<1>3. ASSUME cmd.kind = "correct"
      PROVE  Edits(NewEvents(gen, Revision + 1)) = cmd.edits /\ gen.answers = cmd.answers /\ gen.scores = cmd.scores
  <2>1. Edits(NewEvents(gen, Revision + 1)) = cmd.edits /\ gen.answers = cmd.answers
    BY <1>3, NextExplains
  <2>2. Corrects(cmd)
    BY <1>3 DEF Fits, Regrades, Finalizes, FixesIds
  <2>3. gen.scores = NextScores(Current, cmd, Revision)
    <3>1. SameSaid(gen, Said(Current, cmd, Revision))
      BY SaidIs
    <3> HIDE DEF gen
    <3> QED BY <3>1 DEF SameSaid, Said
  <2>4. NextAnswers(Current, cmd, Revision) = cmd.answers
    BY <2>2, StoryGrows
  <2>5. gen.scores = cmd.scores
    BY <1>3, <2>2, <2>3, <2>4 DEF NextScores, NextKey, Corrects
  <2> QED BY <2>1, <2>5
<1> HIDE DEF gen
<1>4. Batch' = Edits(NewEvents(gen, Revision + 1))
  BY <1>1 DEF Batch
<1> QED BY <1>1, <1>2, <1>3, <1>4

\* What a commit is asked for.
Asked(u) ==
  /\ \A s \in DOMAIN Current.ids :
       \/ user[u].kind = "fix" /\ user[u].sheet = s
       \/ /\ (s \in DOMAIN Current'.fixes) = (s \in DOMAIN Current.fixes)
          /\ s \in DOMAIN Current.fixes => Current'.fixes[s] = Current.fixes[s]
  /\ user[u].kind = "correct" =>
       \E preview \in {user[u]} \cup {Correction(edits) : edits \in Batches} :
         /\ Batch' = preview.edits
         /\ Current'.answers = preview.answers /\ Current'.scores = preview.scores

\* Every step does what it was asked for.
LEMMA StepAsked ==
  ASSUME HistoryInv, Next, NEW v \in Users, hist' # hist, user'[v] # user[v]
  PROVE  Asked(v)
<1>1. PICK u \in Users :
        \/ \E key \in Keys : Regrade(u, key)
        \/ Finalize(u)
        \/ \E sheet \in DOMAIN Current.ids, target \in Targets : FixId(u, sheet, target)
        \/ \E edits \in Batches : Preview(u, edits) \/ SaveOther(u, edits)
        \/ ClosePending(u) \/ Commit(u) \/ Refused(u)
  BY DEF Next
<1>2. Commit(u) \/ \E edits \in Batches : SaveOther(u, edits)
  BY <1>1 DEF Regrade, Finalize, FixId, Preview, ClosePending, Refused, Working
<1>3. user' = [user EXCEPT ![u] = Idle]
  BY <1>2 DEF Commit, SaveOther
<1>4. v = u
  BY <1>3
<1>5. CASE Commit(u)
  <2>1. /\ hist' = Append(hist, Materialized(Current, user[u], Revision))
        /\ user[u] # Idle /\ user[u].rev = Revision
    BY <1>5 DEF Commit, MayCommit
  <2>2. Fits(user[u])
    BY <2>1 DEF HistoryInv, UserInv
  <2>3. /\ \A s \in DOMAIN Current.ids :
             \/ user[u].kind = "fix" /\ user[u].sheet = s
             \/ /\ (s \in DOMAIN Current'.fixes) = (s \in DOMAIN Current.fixes)
                /\ s \in DOMAIN Current.fixes => Current'.fixes[s] = Current.fixes[s]
        /\ user[u].kind = "correct" =>
             Batch' = user[u].edits /\ Current'.answers = user[u].answers /\ Current'.scores = user[u].scores
    BY <2>1, <2>2, CommitDoes
  <2> QED BY <1>4, <2>3 DEF Asked
<1>6. CASE \E edits \in Batches : SaveOther(u, edits)
  <2>1. PICK edits \in Batches : SaveOther(u, edits)
    BY <1>6
  <2>2. /\ hist' = Append(hist, Materialized(Current, Correction(edits), Revision))
        /\ Applicable(edits)
    BY <2>1 DEF SaveOther
  <2>3. Fits(Correction(edits)) /\ Correction(edits).kind = "correct" /\ Correction(edits).edits = edits
    BY <2>2, CorrectionFits DEF Correction
  <2> DEFINE cmd == Correction(edits)
  <2>4. Fits(cmd) /\ cmd.kind = "correct" /\ hist' = Append(hist, Materialized(Current, cmd, Revision))
        /\ cmd \in {Correction(e) : e \in Batches}
    BY <2>2, <2>3
  <2> HIDE DEF cmd
  <2>5. /\ \A s \in DOMAIN Current.ids :
             \/ cmd.kind = "fix" /\ cmd.sheet = s
             \/ /\ (s \in DOMAIN Current'.fixes) = (s \in DOMAIN Current.fixes)
                /\ s \in DOMAIN Current.fixes => Current'.fixes[s] = Current.fixes[s]
        /\ cmd.kind = "correct" =>
             Batch' = cmd.edits /\ Current'.answers = cmd.answers /\ Current'.scores = cmd.scores
    BY <2>4, CommitDoes
  <2> QED BY <1>4, <2>4, <2>5 DEF Asked
<1> QED BY <1>2, <1>5, <1>6

\* A fix changes the sheet a teacher fixed and no other, and a batch of corrections gives
\* the answers and scores its preview showed.
THEOREM DoesWhatWasAskedHolds == Spec => DoesWhatWasAsked
<1>1. HistoryInv /\ [Next]_vars => [\A u \in Users : hist' # hist /\ user'[u] # user[u] => Asked(u)]_vars
  <2> SUFFICES ASSUME HistoryInv, [Next]_vars
               PROVE  [\A u \in Users : hist' # hist /\ user'[u] # user[u] => Asked(u)]_vars
    OBVIOUS
  <2>1. CASE UNCHANGED vars
    BY <2>1
  <2>2. CASE Next
    <3>1. \A u \in Users : hist' # hist /\ user'[u] # user[u] => Asked(u)
      BY <2>2, StepAsked
    <3> QED BY <3>1
  <2> QED BY <2>1, <2>2
<1>2. DoesWhatWasAsked <=> [][\A u \in Users : hist' # hist /\ user'[u] # user[u] => Asked(u)]_vars
  BY DEF DoesWhatWasAsked, Asked
<1> QED BY <1>1, <1>2, HistoryHolds, PTL DEF Spec
=============================================================================
