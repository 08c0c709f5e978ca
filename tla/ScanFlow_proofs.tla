--------------------------- MODULE ScanFlow_proofs ---------------------------
(***************************************************************************)
(* Proofs about a scan (ScanRun) and how the user sees it (ScanFlow), for  *)
(* any number of pages and any size of the process pool: what is saved is  *)
(* every page once and in order, and the end that is shown is what         *)
(* happened.                                                               *)
(*                                                                         *)
(* The last parts are about what a worker of that scan makes of one page   *)
(* (PageReading), and about the form the pages are read with               *)
(* (FormDetection).                                                        *)
(***************************************************************************)
EXTENDS ScanFlow, PageReading, FormDetection, TLAPS, SequenceTheorems, FunctionTheorems, FiniteSetTheorems, WellFoundedInduction

USE ScanAssumption

Steps      == {"new", "prepare", "begin", "serial", "fill", "wait", "collect", "retry", "judge", "save", "done"}
Unbegun    == {"new", "prepare", "begin"}
HandedOver == {"judge", "save", "done"}
Answers    == {"none", "ok", "failed", "cancelled", "incomplete"}
Cancelling == {"idle", "ask", "tell", "done", "refused"}

\* The pages that have a result.
Recognised == {results[i] : i \in DOMAIN results}

\* What the variables of a scan hold.
ScanTypes ==
  /\ pc \in Steps /\ multi \in BOOLEAN
  /\ submitted \in 0 .. Pages /\ pending \subseteq 1 .. submitted /\ batch \subseteq Page
  /\ at \in Page \union {None}
  /\ pc \notin HandedOver => results \in Seq(Page)
  /\ stopped \in BOOLEAN /\ committed \in BOOLEAN /\ registered \in BOOLEAN
  /\ asked \in BOOLEAN /\ told \in BOOLEAN
  /\ answer \in Answers /\ canceller \in Cancelling

\* Only a cancel sets the events, the worker's after that of the operation.
EventsInv ==
  /\ told => asked
  /\ asked <=> canceller \in {"tell", "done"}

\* A page is recognised once: it is with the pool, in hand, to be recognised again, or has
\* its result, and none of these at the same time.
OnceInv ==
  pc \notin HandedOver =>
       /\ \A i, j \in DOMAIN results : results[i] = results[j] => i = j
       /\ at \notin Recognised \union batch /\ batch \intersect Recognised = {}
       /\ pc # "retry" => at \notin pending /\ pending \intersect Recognised = {}

Hand == {at} \ {None}

\* None is missing either, at any step.
AllInv ==
  /\ pc \in Unbegun => results = <<>> /\ at = None /\ submitted = 0 /\ pending = {} /\ batch = {}
  /\ pc = "serial" => /\ submitted = 0 /\ pending = {} /\ batch = {}
                      /\ \A i \in DOMAIN results : results[i] = i
                      /\ Len(results) <= Pages /\ at \in {None, Len(results) + 1}
  /\ pc \in {"fill", "wait"} => at = None /\ batch = {} /\ Recognised \union pending = 1 .. submitted
  /\ pc = "collect" => batch \subseteq pending /\ Recognised \union pending \union Hand = 1 .. submitted
  /\ pc = "retry" => Recognised \union batch \union Hand = Page

\* What the worker handed over as complete is, or the scan was cancelled.
JudgeInv ==
  /\ pc = "judge" /\ ~stopped => results = Whole \/ (asked /\ Len(results) # Pages)
  /\ pc = "save" \/ committed => results = Whole
  /\ committed <=> answer = "ok"
  /\ answer = "incomplete" => asked
  /\ answer = "none" <=> pc # "done"
  /\ registered <=> pc \notin {"new", "done"}

ScanInv == ScanTypes /\ EventsInv /\ OnceInv /\ AllInv /\ JudgeInv

-----------------------------------------------------------------------------
(***************************************************************************)
(* Results in the order of their pages                                     *)
(***************************************************************************)
\* The pages from the first to the last are as many as there are pages, each in its place.
LEMMA WholeFits == Whole \in Seq(Page) /\ Len(Whole) = Pages /\ \A i \in Page : Whole[i] = i
BY DEF Whole, Page

\* Sorting keeps the number of results.
LEMMA InOrderLength ==
  ASSUME NEW s \in Seq(Page)
  PROVE  Len(InOrder(s)) = Len(s)
<1> DEFINE t == InOrder(s)
           Place(i) == CHOOSE p \in Page : /\ Cardinality({j \in DOMAIN s : s[j] < p}) < i
                                          /\ i <= Cardinality({j \in DOMAIN s : s[j] <= p})
           S == {Place(i) : i \in 1 .. Len(s)}
<1>1. Len(s) \in Nat /\ DOMAIN s = 1 .. Len(s)
  OBVIOUS
<1>0. t = [i \in DOMAIN s |-> Place(i)]
  BY Zenon DEF InOrder
<1> HIDE DEF Place
<1>2. t = [i \in 1 .. Len(s) |-> Place(i)]
  BY <1>1, <1>0
<1> HIDE DEF t
<1>3. t \in [1 .. Len(s) -> S]
  BY <1>2
<1>4. t \in Seq(S)
  BY <1>1, <1>3
<1>5. DOMAIN t = 1 .. Len(s) /\ DOMAIN t = 1 .. Len(t) /\ Len(t) \in Nat
  BY <1>3, <1>4, LenProperties
<1>6. Len(t) = Len(s)
  BY <1>1, <1>5
<1> QED BY <1>6 DEF t

\* As many different pages as there are pages are all of them.
LEMMA AllPages ==
  ASSUME NEW s \in Seq(Page), \A i, j \in DOMAIN s : s[i] = s[j] => i = j
  PROVE  /\ Len(s) <= Pages
         /\ Len(s) = Pages <=> \A p \in Page : \E i \in DOMAIN s : s[i] = p
<1>1. Len(s) \in Nat /\ DOMAIN s = 1 .. Len(s) /\ s \in [1 .. Len(s) -> Page]
  BY LenProperties
<1>2. s \in Injection(1 .. Len(s), Page)
  BY <1>1 DEF Injection, IsInjective
<1>3. /\ IsFiniteSet(Page) /\ Cardinality(Page) = Pages
      /\ Cardinality(1 .. Len(s)) = Len(s)
  <2>1. 1 \in Int /\ Pages \in Int /\ Len(s) \in Int /\ ~(1 > Pages) /\ Pages - 1 + 1 = Pages
    BY <1>1
  <2>2. IsFiniteSet(Page) /\ Cardinality(Page) = Pages
    BY <2>1, FS_Interval DEF Page
  <2>3. Cardinality(1 .. Len(s)) = IF 1 > Len(s) THEN 0 ELSE Len(s) - 1 + 1
    BY <2>1, FS_Interval
  <2> QED BY <1>1, <2>2, <2>3
<1>4. /\ Cardinality(1 .. Len(s)) <= Cardinality(Page)
      /\ Cardinality(1 .. Len(s)) = Cardinality(Page) <=> s \in Surjection(1 .. Len(s), Page)
  BY <1>2, <1>3, FS_Injection
<1>5. s \in Surjection(1 .. Len(s), Page) <=> \A p \in Page : \E i \in DOMAIN s : s[i] = p
  BY <1>1 DEF Surjection
<1> QED BY <1>3, <1>4, <1>5

\* Every page once, in any order, is sorted to all pages in order.
LEMMA InOrderWhole ==
  ASSUME NEW s \in Seq(Page), \A i, j \in DOMAIN s : s[i] = s[j] => i = j, Len(s) = Pages
  PROVE  InOrder(s) = Whole
<1> DEFINE Upto(p) == {j \in DOMAIN s : s[j] <= p}
           Below(p) == {j \in DOMAIN s : s[j] < p}
<1>1. DOMAIN s = Page /\ s \in [Page -> Page] /\ \A p \in Page : \E i \in Page : s[i] = p
  <2>1. DOMAIN s = Page /\ s \in [Page -> Page]
    BY LenProperties DEF Page
  <2> QED BY <2>1, AllPages
<1>2. ASSUME NEW p \in 0 .. Pages PROVE Cardinality(Upto(p)) = p
  <2> DEFINE f == [j \in Upto(p) |-> s[j]]
  <2>1. f \in [Upto(p) -> 1 .. p]
    BY <1>1 DEF Page
  <2>2. \A i, j \in Upto(p) : f[i] = f[j] => i = j
    BY <1>1
  <2>3. \A q \in 1 .. p : \E j \in Upto(p) : f[j] = q
    <3> TAKE q \in 1 .. p
    <3>1. q \in Page
      BY DEF Page
    <3>2. PICK j \in Page : s[j] = q
      BY <1>1, <3>1
    <3>3. j \in DOMAIN s /\ s[j] <= p
      BY <1>1, <3>2
    <3>4. j \in Upto(p) /\ f[j] = s[j]
      BY <3>3
    <3> QED BY <3>2, <3>4
  <2> HIDE DEF f
  <2>4. f \in Bijection(Upto(p), 1 .. p)
    BY <2>1, <2>2, <2>3 DEF Bijection, Injection, Surjection, IsInjective
  <2>5. IsFiniteSet(Upto(p))
    <3>1. IsFiniteSet(Page)
      BY FS_Interval DEF Page
    <3>2. Upto(p) \in SUBSET Page
      BY <1>1
    <3> QED BY <3>1, <3>2, FS_Subset
  <2>6. Cardinality(1 .. p) = p
    BY FS_Interval
  <2> QED BY <2>4, <2>5, <2>6, FS_Bijection DEF ExistsBijection
<1>3. ASSUME NEW p \in Page PROVE Cardinality(Below(p)) = p - 1 /\ Cardinality(Upto(p)) = p
  <2>1. p - 1 \in 0 .. Pages /\ p \in 0 .. Pages
    BY DEF Page
  <2>2. ASSUME NEW j \in DOMAIN s PROVE s[j] < p <=> s[j] <= p - 1
    <3>1. PICK q \in Int : q = s[j]
      BY <1>1 DEF Page
    <3> QED BY <3>1 DEF Page
  <2>3. Below(p) = Upto(p - 1)
    BY <2>2
  <2> QED BY <1>2, <2>1, <2>3
<1>4. ASSUME NEW i \in Page
      PROVE  (CHOOSE p \in Page : Cardinality(Below(p)) < i /\ i <= Cardinality(Upto(p))) = i
  <2>1. \A p \in Page : Cardinality(Below(p)) < i /\ i <= Cardinality(Upto(p)) <=> p = i
    <3> TAKE p \in Page
    <3>1. Cardinality(Below(p)) = p - 1 /\ Cardinality(Upto(p)) = p
      BY <1>3
    <3> QED BY <3>1 DEF Page
  <2> QED BY <2>1
<1>5. InOrder(s) = [i \in Page |-> CHOOSE p \in Page : Cardinality(Below(p)) < i /\ i <= Cardinality(Upto(p))]
  BY <1>1 DEF InOrder
<1> QED BY <1>4, <1>5 DEF Whole

-----------------------------------------------------------------------------
(***************************************************************************)
(* The scan                                                                *)
(***************************************************************************)
\* A new page at the end of the results keeps them different.
LEMMA Appended ==
  ASSUME NEW s \in Seq(Page), NEW p \in Page,
         \A i, j \in DOMAIN s : s[i] = s[j] => i = j,
         p \notin {s[i] : i \in DOMAIN s}
  PROVE  LET t == Append(s, p) IN
         /\ t \in Seq(Page) /\ Len(t) = Len(s) + 1
         /\ \A i, j \in DOMAIN t : t[i] = t[j] => i = j
         /\ {t[i] : i \in DOMAIN t} = {s[i] : i \in DOMAIN s} \union {p}
         /\ \A i \in DOMAIN s : t[i] = s[i]
         /\ t[Len(s) + 1] = p
<1> DEFINE t == Append(s, p)
<1>1. /\ t \in Seq(Page) /\ Len(t) = Len(s) + 1 /\ Len(s) \in Nat
      /\ DOMAIN s = 1 .. Len(s) /\ DOMAIN t = 1 .. Len(s) + 1
      /\ \A i \in 1 .. Len(s) : t[i] = s[i]
      /\ t[Len(s) + 1] = p
  BY AppendProperties, LenProperties
<1> HIDE DEF t
<1>2. \A i, j \in DOMAIN t : t[i] = t[j] => i = j
  <2> TAKE i, j \in DOMAIN t
  <2>1. CASE i = Len(s) + 1 /\ j # Len(s) + 1
    BY <1>1, <2>1
  <2>2. CASE i # Len(s) + 1 /\ j = Len(s) + 1
    BY <1>1, <2>2
  <2>3. CASE i # Len(s) + 1 /\ j # Len(s) + 1
    BY <1>1, <2>3
  <2> QED BY <2>1, <2>2, <2>3
<1>3. {t[i] : i \in DOMAIN t} = {s[i] : i \in DOMAIN s} \union {p}
  <2>1. DOMAIN t = DOMAIN s \union {Len(s) + 1}
    BY <1>1
  <2> QED BY <1>1, <2>1
<1> QED BY <1>1, <1>2, <1>3 DEF t

\* The invariant holds at first.
LEMMA ScanBegins == Init => ScanInv
<1> SUFFICES ASSUME Init PROVE ScanInv
  OBVIOUS
<1> USE DEF Init, HandedOver, Recognised, None
<1>1. ScanTypes
  <2>1. submitted \in 0 .. Pages /\ pending \subseteq 1 .. submitted /\ batch \subseteq Page
    OBVIOUS
  <2>2. results \in Seq(Page) /\ at = None
    OBVIOUS
  <2> QED BY <2>1, <2>2 DEF ScanTypes, Steps, Answers, Cancelling
<1>2. EventsInv
  BY DEF EventsInv
<1>3. OnceInv
  BY DEF OnceInv
<1>4. AllInv
  BY DEF AllInv, Unbegun
<1>5. JudgeInv
  BY DEF JudgeInv
<1> QED BY <1>1, <1>2, <1>3, <1>4, <1>5 DEF ScanInv

\* Preparing the pages.
LEMMA PrepareKeeps ==
  ASSUME ScanInv, Register \/ PreparePage \/ PrepareFails \/ PrepareDone \/ Begin
  PROVE  ScanInv'
<1> USE DEF ScanInv, ScanTypes, EventsInv, OnceInv, AllInv, JudgeInv, Recognised, Hand,
            Steps, Unbegun, HandedOver, Answers, Cancelling, pool, out, cancel, Return
<1>1. CASE Register
  BY <1>1 DEF Register
<1>2. CASE PreparePage
  <2>1. CASE asked
    BY <1>2, <2>1 DEF PreparePage
  <2>2. CASE ~asked
    BY <1>2, <2>2 DEF PreparePage
  <2> QED BY <2>1, <2>2
<1>3. CASE PrepareFails
  BY <1>3 DEF PrepareFails
<1>4. CASE PrepareDone
  BY <1>4 DEF PrepareDone
<1>5. CASE Begin
  <2>1. /\ pc = "begin" /\ pc' \in {"fill", "serial"} /\ told' = FALSE
        /\ UNCHANGED <<multi, submitted, pending, batch, at, results, stopped, answer, committed,
                       registered, asked, canceller>>
    BY <1>5 DEF Begin
  <2>2. /\ results = <<>> /\ DOMAIN results = {} /\ Len(results) = 0 /\ at = None
        /\ submitted = 0 /\ pending = {} /\ batch = {}
    BY <2>1
  <2>3. ScanTypes'
    BY <2>1
  <2>4. EventsInv'
    BY <2>1
  <2>5. OnceInv'
    BY <2>1, <2>2
  <2>6. AllInv'
    <3>1. Recognised' = {}
      BY <2>1, <2>2
    <3>2. 1 .. submitted' = {}
      BY <2>1, <2>2
    <3> QED BY <2>1, <2>2, <3>1, <3>2
  <2>7. JudgeInv'
    BY <2>1
  <2> QED BY <2>3, <2>4, <2>5, <2>6, <2>7
<1> QED BY <1>1, <1>2, <1>3, <1>4, <1>5

\* Pages to be recognised have a first.
LEMMA SmallestIn ==
  ASSUME NEW S \in SUBSET Page, S # {}
  PROVE  Smallest(S) \in S
<1>1. S \subseteq Nat
  BY DEF Page
<1>2. PICK x \in S : \A y \in S : ~(<<y, x>> \in OpToRel(<, Nat))
  BY <1>1, NatLessThanWellFounded, WFMin
<1>3. ASSUME NEW y \in S PROVE x <= y
  <2>1. <<y, x>> \notin OpToRel(<, Nat)
    BY <1>2
  <2>2. <<y, x>> \in Nat \X Nat
    BY <1>1
  <2>3. ~(y < x)
    BY <2>1, <2>2 DEF OpToRel
  <2>4. x \in Nat /\ y \in Nat
    BY <1>1
  <2> QED BY <2>3, <2>4
<1>4. \E p \in S : \A q \in S : p <= q
  BY <1>3
<1> QED BY <1>4 DEF Smallest

\* What the worker hands over as complete is whole if it has all pages.
LEMMA HandedWhole ==
  ASSUME results \in Seq(Page), \A i, j \in DOMAIN results : results[i] = results[j] => i = j
  PROVE  /\ Len(results) = Pages <=> Page \subseteq Recognised
         /\ InOrder(results) = Whole \/ Len(InOrder(results)) # Pages
         /\ Len(results) = Pages => InOrder(results) = Whole
<1>1. Len(results) = Pages <=> \A p \in Page : \E i \in DOMAIN results : results[i] = p
  BY AllPages
<1>2. (\A p \in Page : \E i \in DOMAIN results : results[i] = p) <=> Page \subseteq Recognised
  BY DEF Recognised
<1> QED BY <1>1, <1>2, InOrderLength, InOrderWhole

\* Handing over ends the worker's part, whatever it found.
LEMMA HandOverKeeps ==
  ASSUME ScanInv, pc \in {"serial", "fill", "wait", "collect", "retry"}, NEW cancelled \in BOOLEAN,
         HandOver(cancelled), ~cancelled => asked \/ Page \subseteq Recognised, at' = None,
         UNCHANGED <<multi, submitted, pending, batch, answer, committed, registered, asked,
                     canceller, told>>
  PROVE  ScanInv'
<1> USE DEF HandOver
<1>1. /\ results \in Seq(Page) /\ \A i, j \in DOMAIN results : results[i] = results[j] => i = j
      /\ answer = "none" /\ ~committed /\ registered
  BY DEF ScanInv, ScanTypes, OnceInv, JudgeInv, HandedOver
<1>2. ScanTypes'
  BY DEF ScanInv, ScanTypes, HandedOver, Steps
<1>3. EventsInv'
  BY DEF ScanInv, EventsInv
<1>4. OnceInv'
  BY DEF OnceInv, HandedOver
<1>5. AllInv'
  BY DEF AllInv, Unbegun
<1>6. ~cancelled => results' = Whole \/ (asked' /\ Len(results') # Pages)
  BY <1>1, HandedWhole
<1>7. JudgeInv'
  BY <1>1, <1>6 DEF JudgeInv
<1> QED BY <1>2, <1>3, <1>4, <1>5, <1>7 DEF ScanInv

\* Returning ends it.
LEMMA ReturnKeeps ==
  ASSUME ScanInv, pc \notin {"new", "done"}, NEW what \in Answers \ {"none"}, Return(what),
         committed' <=> what = "ok", committed' => results' = Whole, what = "incomplete" => asked,
         at' \in {at, None},
         UNCHANGED <<multi, submitted, pending, batch, results, stopped, asked, canceller, told>>
  PROVE  ScanInv'
<1> USE DEF Return
<1>1. ScanTypes'
  BY DEF ScanInv, ScanTypes, HandedOver, Steps, Answers
<1>2. EventsInv'
  BY DEF ScanInv, EventsInv
<1>3. OnceInv'
  BY DEF OnceInv, HandedOver
<1>4. AllInv'
  BY DEF AllInv, Unbegun
<1>5. JudgeInv'
  BY DEF ScanInv, JudgeInv, Answers
<1> QED BY <1>1, <1>2, <1>3, <1>4, <1>5 DEF ScanInv

\* The results get the page in hand.
LEMMA EndKeeps ==
  ASSUME ScanInv, pc \in {"serial", "collect", "retry"}, at # None,
         results' = Append(results, at), at' = None,
         UNCHANGED <<pc, multi, submitted, pending, batch, stopped, answer, committed, registered,
                     asked, canceller, told>>
  PROVE  ScanInv'
<1>1. /\ results \in Seq(Page) /\ \A i, j \in DOMAIN results : results[i] = results[j] => i = j
      /\ at \in Page /\ at \notin Recognised
  BY DEF ScanInv, ScanTypes, OnceInv, HandedOver
<1>2. /\ results' \in Seq(Page) /\ Len(results') = Len(results) + 1
      /\ \A i, j \in DOMAIN results' : results'[i] = results'[j] => i = j
      /\ Recognised' = Recognised \union {at}
      /\ \A i \in DOMAIN results : results'[i] = results[i]
      /\ results'[Len(results) + 1] = at
  BY <1>1, Appended DEF Recognised
<1>3. ScanTypes'
  BY <1>2 DEF ScanInv, ScanTypes
<1>4. EventsInv'
  BY DEF ScanInv, EventsInv
<1>5. Recognised \subseteq Page /\ None \notin Page
  BY <1>1 DEF Recognised, Page, None
<1>6. OnceInv'
  BY <1>1, <1>2, <1>5 DEF ScanInv, ScanTypes, OnceInv, Page, None
<1>7. AllInv'
  <2>1. CASE pc = "serial"
    <3>1. at = Len(results) + 1 /\ Len(results) <= Pages /\ submitted = 0 /\ pending = {} /\ batch = {}
      BY <2>1 DEF ScanInv, AllInv
    <3>2. DOMAIN results' = 1 .. Len(results) + 1 /\ DOMAIN results = 1 .. Len(results) /\ Len(results) \in Nat
      BY <1>1, <1>2, LenProperties
    <3>3. \A i \in DOMAIN results' : results'[i] = i
      BY <1>2, <2>1, <3>1, <3>2 DEF ScanInv, AllInv
    <3>4. Len(results') <= Pages
      BY <1>1, <1>2, <3>1 DEF Page
    <3> QED BY <2>1, <3>1, <3>3, <3>4 DEF AllInv, Unbegun
  <2>2. CASE pc \in {"collect", "retry"}
    BY <1>1, <1>2, <2>2 DEF ScanInv, AllInv, Hand, Unbegun
  <2> QED BY <2>1, <2>2
<1>8. JudgeInv'
  BY DEF ScanInv, JudgeInv
<1> QED BY <1>3, <1>4, <1>6, <1>7, <1>8 DEF ScanInv

\* One page after the other.
LEMMA SerialKeeps ==
  ASSUME ScanInv, SerialStart \/ SerialEnd \/ SerialReturn
  PROVE  ScanInv'
<1> USE DEF pool, out, cancel
<1>1. CASE SerialStart
  <2>1. /\ pc = "serial" /\ at' = Len(results) + 1 /\ Len(results) < Pages
        /\ UNCHANGED <<pc, multi, submitted, pending, batch, results, stopped, answer, committed,
                       registered, asked, canceller, told>>
    BY <1>1 DEF SerialStart
  <2>2. /\ results \in Seq(Page) /\ \A i \in DOMAIN results : results[i] = i
        /\ submitted = 0 /\ pending = {} /\ batch = {}
    BY <2>1 DEF ScanInv, ScanTypes, AllInv, HandedOver
  <2>3. DOMAIN results = 1 .. Len(results) /\ Len(results) \in Nat
    BY <2>2, LenProperties
  <2>4. at' \in Page /\ at' \notin Recognised
    BY <2>1, <2>2, <2>3 DEF Page, Recognised
  <2>5. ScanTypes' /\ EventsInv' /\ JudgeInv'
    BY <2>1, <2>4 DEF ScanInv, ScanTypes, EventsInv, JudgeInv
  <2>6. OnceInv'
    BY <2>1, <2>2, <2>4 DEF ScanInv, OnceInv, Recognised
  <2>7. AllInv'
    BY <2>1, <2>2 DEF ScanInv, AllInv, Unbegun
  <2> QED BY <2>5, <2>6, <2>7 DEF ScanInv
<1>2. CASE SerialEnd
  BY <1>2, EndKeeps DEF SerialEnd
<1>3. CASE SerialReturn
  <2>1. CASE told /\ HandOver(TRUE)
    BY <1>3, <2>1, HandOverKeeps DEF SerialReturn
  <2>2. CASE Len(results) = Pages /\ HandOver(FALSE)
    <3>1. Page \subseteq Recognised
      BY <1>3, <2>2, HandedWhole DEF SerialReturn, ScanInv, ScanTypes, OnceInv, HandedOver
    <3> QED BY <1>3, <2>2, <3>1, HandOverKeeps DEF SerialReturn
  <2> QED BY <1>3, <2>1, <2>2 DEF SerialReturn
<1> QED BY <1>1, <1>2, <1>3

\* Pages are given to the pool.
LEMMA FillKeeps ==
  ASSUME ScanInv, Submit \/ SubmitRaises \/ Filled
  PROVE  ScanInv'
<1> USE DEF pool, out, cancel
<1>1. pc = "fill" /\ at = None /\ batch = {} /\ Recognised \union pending = 1 .. submitted
  BY DEF Submit, SubmitRaises, Filled, ScanInv, AllInv
<1>2. submitted \in 0 .. Pages
  BY DEF ScanInv, ScanTypes
<1>3. CASE Submit
  <2>1. /\ submitted' = submitted + 1 /\ pending' = pending \union {submitted + 1}
        /\ submitted < Pages
        /\ UNCHANGED <<pc, multi, batch, at, results, stopped, answer, committed,
                       registered, asked, canceller, told>>
    BY <1>3 DEF Submit, MayFill
  <2>2. 1 .. submitted' = (1 .. submitted) \union {submitted + 1} /\ submitted' \in 0 .. Pages
    BY <1>2, <2>1
  <2>3. submitted + 1 \in Page /\ submitted + 1 # None /\ submitted + 1 \notin 1 .. submitted
    BY <1>2, <2>1 DEF Page, None
  <2>4. ScanTypes' /\ EventsInv' /\ JudgeInv'
    BY <2>1, <2>2 DEF ScanInv, ScanTypes, EventsInv, JudgeInv
  <2>5. OnceInv'
    BY <1>1, <2>1, <2>3 DEF ScanInv, OnceInv, Recognised
  <2>6. AllInv'
    BY <1>1, <2>1, <2>2 DEF ScanInv, AllInv, Unbegun, Recognised
  <2> QED BY <2>4, <2>5, <2>6 DEF ScanInv
<1>4. CASE SubmitRaises
  <2>1. /\ pc' = "retry" /\ batch' = ToRetry
        /\ UNCHANGED <<multi, submitted, pending, at, results, stopped, answer, committed,
                       registered, asked, canceller, told>>
    BY <1>4 DEF SubmitRaises
  <2>2. Page = (1 .. submitted) \union (submitted + 1 .. Pages)
        /\ (1 .. submitted) \intersect (submitted + 1 .. Pages) = {} /\ None \notin Page
    BY <1>2 DEF Page, None
  <2>3. batch' \subseteq Page
    BY <1>1, <2>1, <2>2 DEF ToRetry
  <2>4. ScanTypes' /\ EventsInv' /\ JudgeInv'
    BY <1>1, <2>1, <2>3 DEF ScanInv, ScanTypes, EventsInv, JudgeInv, HandedOver, Steps
  <2>5. OnceInv'
    BY <1>1, <2>1, <2>2, <2>3 DEF ScanInv, OnceInv, Recognised, ToRetry, HandedOver
  <2>6. AllInv'
    BY <1>1, <2>1, <2>2 DEF ScanInv, AllInv, Unbegun, Recognised, ToRetry, Hand
  <2> QED BY <2>4, <2>5, <2>6 DEF ScanInv
<1>5. CASE Filled
  <2>1. CASE pending # {}
    <3>1. /\ pc' = "wait"
          /\ UNCHANGED <<multi, submitted, pending, batch, at, results, stopped, answer, committed,
                         registered, asked, canceller, told>>
      BY <1>5, <2>1 DEF Filled
    <3>2. ScanTypes' /\ EventsInv' /\ JudgeInv'
      BY <1>1, <3>1 DEF ScanInv, ScanTypes, EventsInv, JudgeInv, HandedOver, Steps
    <3>3. OnceInv' /\ AllInv'
      BY <1>1, <3>1 DEF ScanInv, OnceInv, AllInv, Unbegun, Recognised, HandedOver
    <3> QED BY <3>2, <3>3 DEF ScanInv
  <2>2. CASE pending = {}
    <3>1. Cardinality(pending) < MaxInFlight
      BY <2>2, FS_EmptySet
    <3>2. submitted = Pages \/ told
      BY <1>2, <1>5, <3>1 DEF Filled, MayFill
    <3>3. asked \/ Page \subseteq Recognised
      BY <1>1, <2>2, <3>2 DEF ScanInv, EventsInv, Page
    <3> QED BY <1>1, <1>5, <2>2, <3>3, HandOverKeeps DEF Filled
  <2> QED BY <2>1, <2>2
<1> QED BY <1>3, <1>4, <1>5

\* Pages come back from the pool, or it breaks.
LEMMA PoolKeeps ==
  ASSUME ScanInv, PoolRuns \/ WaitReturns \/ CollectDone \/ \E p \in Page : Collect(p)
  PROVE  ScanInv'
<1> USE DEF pool, out, cancel
<1>1. CASE PoolRuns
  <2>1. UNCHANGED <<pc, multi, submitted, pending, batch, at, results, stopped, answer, committed,
                    registered, asked, canceller, told>>
    BY <1>1 DEF PoolRuns, PoolBreaks, PageDone
  <2>2. ScanTypes' /\ EventsInv' /\ OnceInv' /\ AllInv' /\ JudgeInv'
    BY <2>1 DEF ScanInv, ScanTypes, EventsInv, OnceInv, AllInv, JudgeInv, Recognised, Hand
  <2> QED BY <2>2 DEF ScanInv
<1>2. CASE WaitReturns
  <2>1. pc = "wait" /\ at = None /\ Recognised \union pending = 1 .. submitted
    BY <1>2 DEF WaitReturns, ScanInv, AllInv
  <2>2. CASE told
    BY <1>2, <2>1, <2>2, HandOverKeeps DEF WaitReturns
  <2>3. CASE ~told
    <3>1. /\ pc' = "collect" /\ batch' = Over
          /\ UNCHANGED <<multi, submitted, pending, at, results, stopped, answer, committed,
                         registered, asked, canceller, told>>
      BY <1>2, <2>3 DEF WaitReturns
    <3>2. batch' \subseteq pending /\ pending \subseteq Page /\ None \notin Page
      BY <3>1 DEF Over, ScanInv, ScanTypes, Page, None
    <3>3. ScanTypes' /\ EventsInv' /\ JudgeInv'
      BY <2>1, <3>1, <3>2 DEF ScanInv, ScanTypes, EventsInv, JudgeInv, HandedOver, Steps
    <3>4. OnceInv'
      BY <2>1, <3>1, <3>2 DEF ScanInv, OnceInv, Recognised, HandedOver
    <3>5. AllInv'
      BY <2>1, <3>1, <3>2 DEF ScanInv, AllInv, Unbegun, Recognised, Hand
    <3> QED BY <3>3, <3>4, <3>5 DEF ScanInv
  <2> QED BY <2>2, <2>3
<1>3. CASE CollectDone
  <2>1. /\ pc = "collect" /\ pc' = "fill" /\ at = None /\ batch = {}
        /\ UNCHANGED <<multi, submitted, pending, batch, at, results, stopped, answer, committed,
                       registered, asked, canceller, told>>
    BY <1>3 DEF CollectDone
  <2>2. ScanTypes' /\ EventsInv' /\ JudgeInv'
    BY <2>1 DEF ScanInv, ScanTypes, EventsInv, JudgeInv, HandedOver, Steps
  <2>3. OnceInv' /\ AllInv'
    BY <2>1 DEF ScanInv, OnceInv, AllInv, Unbegun, Recognised, HandedOver, Hand
  <2> QED BY <2>2, <2>3 DEF ScanInv
<1>4. ASSUME NEW p \in Page, Collect(p) PROVE ScanInv'
  <2>1. /\ pc = "collect" /\ at = None /\ p \in batch
        /\ at' = p /\ batch' = batch \ {p} /\ pending' = pending \ {p}
        /\ UNCHANGED <<pc, multi, submitted, results, stopped, answer, committed,
                       registered, asked, canceller, told>>
    BY <1>4 DEF Collect
  <2>2. p # None
    BY DEF Page, None
  <2>3. ScanTypes' /\ EventsInv' /\ JudgeInv'
    BY <2>1 DEF ScanInv, ScanTypes, EventsInv, JudgeInv
  <2>4. OnceInv'
    BY <2>1 DEF ScanInv, OnceInv, Recognised, HandedOver
  <2>5. AllInv'
    BY <2>1, <2>2 DEF ScanInv, AllInv, Unbegun, Recognised, Hand
  <2> QED BY <2>3, <2>4, <2>5 DEF ScanInv
<1> QED BY <1>1, <1>2, <1>3, <1>4

\* A page in hand gets its result, is given up for a cancel, or raises.
LEMMA HandKeeps ==
  ASSUME ScanInv, Collected \/ RetryEnd \/ Raises
  PROVE  ScanInv'
<1> USE DEF pool, out, cancel
<1>1. CASE Collected
  <2>1. CASE told
    BY <1>1, <2>1, HandOverKeeps DEF Collected
  <2>2. CASE ~told
    BY <1>1, <2>2, EndKeeps DEF Collected
  <2> QED BY <2>1, <2>2
<1>2. CASE RetryEnd
  BY <1>2, EndKeeps DEF RetryEnd
<1>3. CASE Raises
  <2>1. ~committed /\ "failed" \in Answers \ {"none"}
    BY <1>3 DEF Raises, ScanInv, JudgeInv, Answers
  <2> QED BY <1>3, <2>1, ReturnKeeps DEF Raises
<1> QED BY <1>1, <1>2, <1>3

\* What the broken pool lost is recognised again.
LEMMA RetryKeeps ==
  ASSUME ScanInv, RetryStart \/ RetryDone
  PROVE  ScanInv'
<1> USE DEF pool, out, cancel
<1>1. CASE RetryStart
  <2> DEFINE p == Smallest(batch)
  <2>1. /\ pc = "retry" /\ at = None /\ batch # {}
        /\ at' = p /\ batch' = batch \ {p}
        /\ UNCHANGED <<pc, multi, submitted, pending, results, stopped, answer, committed,
                       registered, asked, canceller, told>>
    BY <1>1 DEF RetryStart
  <2>2. p \in batch /\ batch \subseteq Page
    BY <2>1, SmallestIn DEF ScanInv, ScanTypes
  <2> HIDE DEF p
  <2>3. p # None
    BY <2>2 DEF Page, None
  <2>4. ScanTypes' /\ EventsInv' /\ JudgeInv'
    BY <2>1, <2>2 DEF ScanInv, ScanTypes, EventsInv, JudgeInv
  <2>5. OnceInv'
    BY <2>1, <2>2 DEF ScanInv, OnceInv, Recognised, HandedOver
  <2>6. AllInv'
    BY <2>1, <2>2, <2>3 DEF ScanInv, AllInv, Unbegun, Recognised, Hand
  <2> QED BY <2>4, <2>5, <2>6 DEF ScanInv
<1>2. CASE RetryDone
  <2>1. (batch # {}) \in BOOLEAN /\ (batch = {} => Page \subseteq Recognised)
    BY <1>2 DEF RetryDone, ScanInv, AllInv, Hand
  <2> QED BY <1>2, <2>1, HandOverKeeps DEF RetryDone
<1> QED BY <1>1, <1>2

\* The results are judged and saved.
LEMMA JudgeKeeps ==
  ASSUME ScanInv, Judge \/ StartSaving \/ Commit
  PROVE  ScanInv'
<1> USE DEF pool, out, cancel
<1>1. CASE Judge
  <2> DEFINE what == IF ~stopped /\ Len(results) # Pages THEN "incomplete" ELSE "cancelled"
  <2>1. ~committed /\ what \in Answers \ {"none", "ok"}
    BY <1>1 DEF Judge, ScanInv, JudgeInv, Answers
  <2>2. what = "incomplete" => asked
    BY <1>1, WholeFits DEF Judge, ScanInv, JudgeInv
  <2>3. Return(what) /\ pc = "judge"
    BY <1>1 DEF Judge
  <2> HIDE DEF what
  <2> QED BY <1>1, <2>1, <2>2, <2>3, ReturnKeeps DEF Judge
<1>2. CASE StartSaving
  <2>1. /\ pc = "judge" /\ MaySave /\ pc' = "save"
        /\ UNCHANGED <<multi, submitted, pending, batch, at, results, stopped, answer, committed,
                       registered, asked, canceller, told>>
    BY <1>2 DEF StartSaving
  <2>2. ScanTypes' /\ EventsInv'
    BY <2>1 DEF ScanInv, ScanTypes, EventsInv, HandedOver, Steps
  <2>3. OnceInv' /\ AllInv'
    BY <2>1 DEF OnceInv, AllInv, Unbegun, HandedOver
  <2>4. JudgeInv'
    BY <2>1 DEF ScanInv, JudgeInv, MaySave
  <2> QED BY <2>2, <2>3, <2>4 DEF ScanInv
<1>3. CASE Commit
  <2> DEFINE what == IF committed' THEN "ok" ELSE "failed"
  <2>1. committed' \in BOOLEAN /\ what \in Answers \ {"none"} /\ (committed' <=> what = "ok")
    BY <1>3 DEF Commit, Answers
  <2>2. Return(what) /\ pc = "save" /\ (committed' => results = Whole) /\ what # "incomplete"
    BY <1>3 DEF Commit
  <2> HIDE DEF what
  <2> QED BY <1>3, <2>1, <2>2, ReturnKeeps DEF Commit
<1> QED BY <1>1, <1>2, <1>3

\* The cancelling thread.
LEMMA CancelKeeps ==
  ASSUME ScanInv, Find \/ Ask \/ Tell
  PROVE  ScanInv'
<1> USE DEF pool, out, cancel
<1>1. /\ UNCHANGED <<pc, multi, submitted, pending, batch, at, results, stopped, answer, committed, registered>>
      /\ asked => asked'
  BY DEF Find, Ask, Tell
<1>2. ScanTypes'
  BY <1>1 DEF Find, Ask, Tell, ScanInv, ScanTypes, Cancelling
<1>3. EventsInv'
  BY DEF Find, Ask, Tell, ScanInv, EventsInv
<1>4. OnceInv' /\ AllInv' /\ JudgeInv'
  BY <1>1 DEF ScanInv, OnceInv, AllInv, JudgeInv, Recognised, Hand
<1> QED BY <1>2, <1>3, <1>4 DEF ScanInv

\* Every step of a scan keeps the invariant.
LEMMA ScanStep == ASSUME ScanInv, [Next]_vars PROVE ScanInv'
<1>1. CASE UNCHANGED vars
  <2>1. UNCHANGED <<pc, multi, submitted, pending, batch, at, results, stopped, answer, committed,
                    registered, asked, canceller, told>>
    BY <1>1 DEF vars, pool, out, cancel
  <2>2. ScanTypes' /\ EventsInv' /\ OnceInv' /\ AllInv' /\ JudgeInv'
    BY <2>1 DEF ScanInv, ScanTypes, EventsInv, OnceInv, AllInv, JudgeInv, Recognised, Hand
  <2> QED BY <2>2 DEF ScanInv
<1>2. CASE Next
  BY <1>2, PrepareKeeps, SerialKeeps, FillKeeps, PoolKeeps, HandKeeps, RetryKeeps, JudgeKeeps, CancelKeeps
     DEF Next, Thread, PoolRuns
<1> QED BY <1>1, <1>2

\* The invariant holds throughout.
LEMMA ScanInvariant == Spec => []ScanInv
<1>1. ScanInv /\ [Next]_vars => ScanInv'
  BY ScanStep
<1> QED BY ScanBegins, <1>1, PTL DEF Spec

\* What is handed over to be saved is every page once and in order, whatever the pool did,
\* and only a cancel leaves the results incomplete.
THEOREM WholeScanSaved == Spec => []SavesWholeScan
<1>1. ScanInv => SavesWholeScan
  BY DEF ScanInv, JudgeInv, SavesWholeScan
<1> QED BY ScanInvariant, <1>1, PTL

\* A cancel that reached the operation before the last look is obeyed.
THEOREM CancelIsObeyed == Spec => CancelObeyed
<1>1. ScanInv /\ [Next]_vars => [asked /\ pc # "save" => pc' # "save" /\ committed' = committed]_vars
  <2> SUFFICES ASSUME ScanInv, Next, asked, pc # "save" PROVE pc' # "save" /\ committed' = committed
    OBVIOUS
  <2> USE DEF pool, out, cancel, Return, HandOver
  <2>1. CASE Register \/ PreparePage \/ PrepareFails \/ PrepareDone \/ Begin
    BY <2>1 DEF Register, PreparePage, PrepareFails, PrepareDone, Begin
  <2>2. CASE SerialStart \/ SerialEnd \/ SerialReturn
    BY <2>2 DEF SerialStart, SerialEnd, SerialReturn
  <2>3. CASE Submit \/ SubmitRaises \/ Filled
    BY <2>3 DEF Submit, SubmitRaises, Filled
  <2>4. CASE PoolRuns \/ WaitReturns \/ CollectDone \/ \E p \in Page : Collect(p)
    BY <2>4 DEF PoolRuns, PoolBreaks, PageDone, WaitReturns, CollectDone, Collect
  <2>5. CASE Collected \/ RetryEnd \/ Raises \/ RetryStart \/ RetryDone
    BY <2>5 DEF Collected, RetryEnd, Raises, RetryStart, RetryDone
  <2>6. CASE Judge \/ StartSaving \/ Commit
    BY <2>6 DEF Judge, StartSaving, Commit, MaySave
  <2>7. CASE Find \/ Ask \/ Tell
    BY <2>7 DEF Find, Ask, Tell
  <2> QED BY <2>1, <2>2, <2>3, <2>4, <2>5, <2>6, <2>7 DEF Next, Thread
<1> QED BY ScanInvariant, <1>1, PTL DEF Spec, CancelObeyed

-----------------------------------------------------------------------------
Signals == {"save", "succeeded", "failed", "cancelled", "quit", "gone"}

\* What the variables of the bridge hold.
BridgeTypes ==
  /\ life \in {"idle", "running", "cancelling", "terminal", "closing"}
  /\ thread \in {"none", "run", "ended", "quitting", "gone"}
  /\ event \in BOOLEAN /\ said \in BOOLEAN /\ terminal \in BOOLEAN /\ hooked \in BOOLEAN
  /\ queue \in Seq([run : {1}, what : Signals])
  /\ runs \in {0, 1}
  /\ ui \in {"loop", "hook"}
  /\ held \in {"save", "nothing"}
  /\ log \in Seq({"save", "succeeded", "failed", "cancelled"})

\* The end of a scan, on its way to the window or shown there.
Queued(end) == \E i \in DOMAIN queue : queue[i].what = end

\* The bridge and the scan are in step.
StepInv ==
  /\ runs = 0 => /\ thread = "none" /\ life = "idle" /\ pc = "new" /\ ~terminal /\ ~hooked
                 /\ held = "nothing" /\ log = <<>> /\ queue = <<>>
  /\ runs = 1 /\ thread # "run" => pc = "done"
  /\ thread = "run" => ~said
  /\ Queued("quit") \/ Queued("gone") => pc = "done"

\* The hook is called once, and the operation looked for then.
HookInv ==
  /\ ~hooked <=> canceller = "idle"
  /\ canceller \in {"ask", "tell"} => ui = "hook"
  /\ ui = "hook" => canceller \in {"ask", "tell", "refused"}
  /\ canceller # "idle" => event
  /\ ~terminal \/ pc = "done" \/ canceller = "refused"

\* A cancel that found the operation is the end that is shown.
CancelInv ==
  canceller \in {"ask", "tell", "done"} => (terminal => Showing("cancelled"))

\* An end on its way or shown is what the scan answered.
ToldInv ==
  /\ Queued("succeeded") \/ Showing("succeeded") => committed
  /\ Queued("failed") => pc = "done" /\ ~committed
  /\ Showing("failed") => canceller = "refused" \/ (pc = "done" /\ ~committed)
  /\ Queued("cancelled") => pc = "done"

FlowInv == BridgeTypes /\ StepInv /\ HookInv /\ CancelInv /\ ToldInv

-----------------------------------------------------------------------------
(***************************************************************************)
(* The scan as the user sees it                                            *)
(***************************************************************************)
\* What the user and the bridge do leaves the scan a scan.
LEMMA FlowIsScan == ASSUME [FlowNext]_all PROVE [Next]_vars
<1>1. CASE UNCHANGED all
  BY <1>1 DEF all, scan
<1>2. CASE StartScan \/ ScanReturns \/ ThreadExits \/ WindowRuns
  BY <1>2 DEF StartScan, ScanReturns, ThreadExits, WindowRuns, scan
<1>3. CASE Recognise \/ SaveBegins
  BY <1>3 DEF Recognise, SaveBegins, Next, Thread
<1>4. CASE CancelScan \/ CloseWindow
  BY <1>4 DEF CancelScan, CloseWindow, Look, Next, scan
<1>5. CASE Hook
  BY <1>5 DEF Hook, Next, scan
<1> QED BY <1>1, <1>2, <1>3, <1>4, <1>5 DEF FlowNext

\* A scan behind its page and its bridge is a scan: all that is shown of one holds there.
THEOREM FlowImplementsScan == FlowSpec => Spec
<1>1. FlowInit => Init
  BY DEF FlowInit
<1>2. [FlowNext]_all => [Next]_vars
  BY FlowIsScan
<1> QED BY <1>1, <1>2, PTL DEF FlowSpec, Spec

\* A signal that is posted is the only one that is new.
LEMMA Posts ==
  ASSUME BridgeTypes, NEW x \in [run : {1}, what : Signals], queue' = Append(queue, x)
  PROVE  /\ queue' \in Seq([run : {1}, what : Signals])
         /\ \A end \in Signals : Queued(end)' => Queued(end) \/ end = x.what
<1> DEFINE R == [run : {1}, what : Signals]
<1>1. queue \in Seq(R)
  BY DEF BridgeTypes
<1> HIDE DEF R
<1>2. /\ queue' \in Seq(R) /\ DOMAIN queue' = (DOMAIN queue) \union {Len(queue) + 1}
      /\ \A i \in DOMAIN queue : queue'[i] = queue[i]
      /\ queue'[Len(queue) + 1] = x
  BY <1>1, AppendProperties, LenProperties DEF R
<1> QED BY <1>2 DEF Queued, R

\* Nor is there a new one when one is taken.
LEMMA Takes ==
  ASSUME BridgeTypes, queue # <<>>, queue' = Tail(queue)
  PROVE  /\ queue' \in Seq([run : {1}, what : Signals])
         /\ \A end \in Signals : Queued(end)' => Queued(end)
         /\ Head(queue).what \in Signals /\ Queued(Head(queue).what)
<1> DEFINE R == [run : {1}, what : Signals]
<1>1. queue \in Seq(R)
  BY DEF BridgeTypes
<1> HIDE DEF R
<1>2. /\ queue' \in Seq(R) /\ Len(queue') = Len(queue) - 1 /\ Len(queue) \in Nat \ {0}
      /\ \A i \in 1 .. Len(queue) - 1 : queue'[i] = queue[i + 1]
      /\ DOMAIN queue = 1 .. Len(queue) /\ DOMAIN queue' = 1 .. Len(queue) - 1
  BY <1>1, HeadTailProperties, LenProperties, EmptySeq
<1>3. \A i \in DOMAIN queue' : i + 1 \in DOMAIN queue /\ queue'[i] = queue[i + 1]
  BY <1>2
<1>4. 1 \in DOMAIN queue /\ Head(queue) = queue[1] /\ queue[1] \in R
  BY <1>1, <1>2, HeadTailProperties
<1> QED BY <1>2, <1>3, <1>4 DEF Queued, R

\* Progress that is shown leaves the ends that are.
LEMMA ShownKeeps ==
  ASSUME BridgeTypes, NEW v \in {"save"}, NEW l, l = Bridge!Show(v)
  PROVE  /\ l \in Seq({"save", "succeeded", "failed", "cancelled"})
         /\ \A end \in {"succeeded", "failed", "cancelled"} :
              (\E i \in DOMAIN l : l[i] = end) <=> Showing(end)
<1> DEFINE L == {"save", "succeeded", "failed", "cancelled"}
<1>1. log \in Seq(L) /\ DOMAIN log = 1 .. Len(log) /\ Len(log) \in Nat
  BY LenProperties DEF BridgeTypes
<1>2. CASE log # <<>> /\ log[Len(log)] \in {"save"}
  <2>1. l = [log EXCEPT ![Len(log)] = v]
    BY <1>2 DEF Bridge!Show
  <2>2. Len(log) \in DOMAIN log /\ log[Len(log)] = "save"
    BY <1>1, <1>2, EmptySeq
  <2>3. l = log
    BY <1>1, <2>1, <2>2
  <2> QED BY <1>1, <2>3 DEF Showing
<1>3. CASE ~(log # <<>> /\ log[Len(log)] \in {"save"})
  <2>1. l = Append(log, v)
    BY <1>3 DEF Bridge!Show
  <2> HIDE DEF L
  <2>2. v \in L /\ v = "save"
    BY DEF L
  <2>3. /\ l \in Seq(L) /\ DOMAIN l = (DOMAIN log) \union {Len(log) + 1}
        /\ \A i \in DOMAIN log : l[i] = log[i]
        /\ l[Len(log) + 1] = v
    BY <1>1, <2>1, <2>2, AppendProperties, LenProperties
  <2> QED BY <2>2, <2>3 DEF Showing, L
<1> QED BY <1>2, <1>3

\* How the end of an operation is shown.
LEMMA Shows ==
  ASSUME BridgeTypes, NEW what \in {"succeeded", "failed", "cancelled"}, Bridge!End(what)
  PROVE  /\ held' = "nothing" /\ terminal'
         /\ log' \in Seq({"save", "succeeded", "failed", "cancelled"})
         /\ \A end \in {"succeeded", "failed", "cancelled"} :
              /\ Showing(end) => Showing(end)'
              /\ Showing(end)' => Showing(end) \/ (end = what /\ ~terminal)
         /\ ~terminal => Showing(what)'
<1> DEFINE L == {"save", "succeeded", "failed", "cancelled"}
           E == {"succeeded", "failed", "cancelled"}
<1>1. held' = "nothing" /\ terminal' /\ log' = IF terminal THEN log ELSE Append(Bridge!Flushed, what)
  BY DEF Bridge!End, Bridge!Nothing
<1>2. CASE terminal
  BY <1>1, <1>2 DEF BridgeTypes, Showing
<1>3. CASE ~terminal
  <2>1. PICK l : l = Bridge!Flushed
    OBVIOUS
  <2>2. l \in Seq(L) /\ \A end \in E : (\E i \in DOMAIN l : l[i] = end) <=> Showing(end)
    <3>1. CASE held # "nothing" /\ Bridge!Visible
      BY <2>1, <3>1, ShownKeeps DEF Bridge!Flushed, Bridge!Nothing, BridgeTypes
    <3>2. CASE ~(held # "nothing" /\ Bridge!Visible)
      BY <2>1, <3>2 DEF Bridge!Flushed, Bridge!Nothing, BridgeTypes, Showing
    <3> QED BY <3>1, <3>2
  <2>3. log' = Append(l, what) /\ what \in L
    BY <1>1, <1>3, <2>1
  <2> HIDE DEF L, E
  <2>4. /\ log' \in Seq(L) /\ DOMAIN log' = (DOMAIN l) \union {Len(l) + 1}
        /\ \A i \in DOMAIN l : log'[i] = l[i]
        /\ log'[Len(l) + 1] = what
    BY <2>2, <2>3, AppendProperties, LenProperties
  <2>5. \A end \in E : /\ Showing(end) => Showing(end)'
                       /\ Showing(end)' => Showing(end) \/ end = what
    BY <2>2, <2>4 DEF Showing
  <2>6. Showing(what)'
    BY <2>4 DEF Showing
  <2> QED BY <1>1, <1>3, <2>4, <2>5, <2>6 DEF L, E
<1> QED BY <1>2, <1>3

\* The flow's invariant holds at first.
LEMMA FlowBegins == FlowInit => FlowInv
<1> SUFFICES ASSUME FlowInit PROVE FlowInv
  OBVIOUS
<1> USE DEF FlowInit, Init, Bridge!BridgeInit, Bridge!Nothing
<1>1. ~Showing("succeeded") /\ ~Showing("failed") /\ \A end \in Signals : ~Queued(end)
  BY DEF Showing, Queued
<1>2. BridgeTypes
  <2>1. /\ queue \in Seq([run : {1}, what : Signals])
        /\ log \in Seq({"save", "succeeded", "failed", "cancelled"})
    OBVIOUS
  <2> QED BY <2>1 DEF BridgeTypes
<1>3. StepInv /\ HookInv /\ CancelInv
  BY <1>1 DEF StepInv, HookInv, CancelInv, Signals
<1>4. ToldInv
  BY <1>1 DEF ToldInv, Signals
<1> QED BY <1>2, <1>3, <1>4 DEF FlowInv

\* The user starts the scan.
LEMMA StartScanKeeps == ASSUME ScanInv, FlowInv, StartScan PROVE FlowInv'
<1> USE DEF StartScan, Bridge!Start, Bridge!MayStart, Bridge!Nothing, scan, vars, cancel, out
<1>1. /\ runs = 0 /\ runs' = 1 /\ thread' = "run" /\ life' = "running" /\ ~said' /\ ~terminal' /\ ~hooked'
      /\ held' = "nothing" /\ log' = <<>>
      /\ UNCHANGED <<queue, ui, pc, committed, canceller>>
  BY DEF FlowInv, BridgeTypes
<1>2. queue = <<>> /\ pc = "new" /\ canceller = "idle" /\ ui = "loop"
  BY <1>1 DEF FlowInv, StepInv, HookInv, BridgeTypes
<1>3. /\ \A end \in Signals : ~Queued(end)'
      /\ \A end \in {"succeeded", "failed", "cancelled"} : ~Showing(end)'
  BY <1>1, <1>2 DEF Queued, Showing
<1>4. BridgeTypes'
  <2>1. log' \in Seq({"save", "succeeded", "failed", "cancelled"})
    BY <1>1
  <2>2. event' = FALSE
    OBVIOUS
  <2> QED BY <1>1, <2>1, <2>2 DEF FlowInv, BridgeTypes
<1>5. StepInv' /\ HookInv' /\ CancelInv'
  BY <1>1, <1>2, <1>3 DEF StepInv, HookInv, CancelInv, Signals
<1>6. ToldInv'
  BY <1>3 DEF ToldInv, Signals
<1> QED BY <1>4, <1>5, <1>6 DEF FlowInv

\* The worker and the pool of a scan that is over do nothing, and only a save that ends changes
\* whether the exam is saved.
LEMMA Working ==
  ASSUME ScanInv, Thread \/ PoolRuns
  PROVE  /\ canceller' = canceller
         /\ pc = "done" => UNCHANGED <<pc, committed>>
         /\ pc # "save" => committed' = committed
         /\ pc' = "new" => pc = "new"
<1> USE DEF cancel, out, pool, Return, HandOver
<1>1. CASE Register \/ PreparePage \/ PrepareFails \/ PrepareDone \/ Begin
  BY <1>1 DEF Register, PreparePage, PrepareFails, PrepareDone, Begin
<1>2. CASE SerialStart \/ SerialEnd \/ SerialReturn
  BY <1>2 DEF SerialStart, SerialEnd, SerialReturn
<1>3. CASE Submit \/ SubmitRaises \/ Filled
  BY <1>3 DEF Submit, SubmitRaises, Filled
<1>4. CASE PoolRuns \/ WaitReturns \/ CollectDone \/ \E p \in Page : Collect(p)
  BY <1>4 DEF PoolRuns, PoolBreaks, PageDone, WaitReturns, CollectDone, Collect
<1>5. CASE Collected \/ RetryEnd \/ Raises \/ RetryStart \/ RetryDone
  BY <1>5 DEF Collected, RetryEnd, Raises, RetryStart, RetryDone
<1>6. CASE Judge \/ StartSaving \/ Commit
  BY <1>6 DEF Judge, StartSaving, Commit
<1> QED BY <1>1, <1>2, <1>3, <1>4, <1>5, <1>6 DEF Thread

\* A page, a save or a return of the scan.
LEMMA RecogniseKeeps ==
  ASSUME ScanInv, FlowInv, UNCHANGED bridge, thread = "run", Thread \/ PoolRuns
  PROVE  FlowInv'
<1>1. UNCHANGED <<life, thread, event, said, queue, runs, terminal, hooked, ui, closeAsked, held, log, canceller>>
  BY Working DEF bridge
<1>2. /\ \A end \in Signals : Queued(end)' <=> Queued(end)
      /\ \A end \in {"succeeded", "failed", "cancelled"} : Showing(end)' <=> Showing(end)
  BY <1>1 DEF Queued, Showing
<1>3. BridgeTypes'
  BY <1>1 DEF FlowInv, BridgeTypes
<1>4. runs # 0
  BY DEF FlowInv, StepInv
<1>5. committed => pc = "done"
  BY DEF ScanInv, JudgeInv, ScanTypes
<1>6. StepInv'
  BY <1>1, <1>2, <1>4, Working DEF FlowInv, StepInv, Signals
<1>7. HookInv' /\ CancelInv'
  BY <1>1, <1>2, Working DEF FlowInv, HookInv, CancelInv
<1>8. ToldInv'
  BY <1>1, <1>2, <1>5, Working DEF FlowInv, ToldInv, Signals
<1> QED BY <1>3, <1>6, <1>7, <1>8 DEF FlowInv

\* A scan that is past its registration and not over is on its thread.
LEMMA OnItsThread ==
  ASSUME FlowInv, pc \notin {"new", "done"}
  PROVE  thread = "run" /\ runs = 1
BY DEF FlowInv, StepInv, BridgeTypes

\* The page hears that the results are being saved.
LEMMA SaveBeginsKeeps == ASSUME ScanInv, FlowInv, SaveBegins PROVE FlowInv'
<1>1. pc = "judge" /\ pc' = "save" /\ committed' = committed /\ canceller' = canceller /\ StartSaving
  BY DEF SaveBegins, StartSaving, out, cancel
<1>2. thread = "run" /\ runs = 1
  BY <1>1, OnItsThread
<1>3. CASE UNCHANGED bridge
  BY <1>1, <1>2, <1>3, RecogniseKeeps DEF Thread
<1>4. CASE Bridge!Report("save")
  <2> DEFINE x == [run |-> 1, what |-> "save"]
  <2>1. /\ queue' = Append(queue, x)
        /\ UNCHANGED <<life, thread, event, said, runs, terminal, hooked, ui, held, log>>
    BY <1>2, <1>4 DEF Bridge!Report, Bridge!Post
  <2>2. x \in [run : {1}, what : Signals] /\ x.what = "save"
    BY DEF Signals
  <2> HIDE DEF x
  <2>3. /\ queue' \in Seq([run : {1}, what : Signals])
        /\ \A end \in Signals : Queued(end)' => Queued(end) \/ end = "save"
    BY <2>1, <2>2, Posts DEF FlowInv
  <2>4. \A end \in {"succeeded", "failed", "cancelled"} : Showing(end)' <=> Showing(end)
    BY <2>1 DEF Showing
  <2>5. BridgeTypes'
    BY <2>1, <2>3 DEF FlowInv, BridgeTypes
  <2>6. StepInv'
    BY <1>1, <1>2, <2>1, <2>3 DEF FlowInv, StepInv, Signals
  <2>7. HookInv' /\ CancelInv'
    BY <1>1, <2>1, <2>4 DEF FlowInv, HookInv, CancelInv
  <2>8. ToldInv'
    BY <1>1, <2>3, <2>4 DEF FlowInv, ToldInv, Signals
  <2> QED BY <2>5, <2>6, <2>7, <2>8 DEF FlowInv
<1> QED BY <1>3, <1>4 DEF SaveBegins

\* The scan has returned, and its thread ends.
LEMMA ScanReturnsKeeps == ASSUME ScanInv, FlowInv, ScanReturns PROVE FlowInv'
<1> DEFINE how == IF answer = "ok" THEN "succeeded" ELSE "failed"
           R == [run : {1}, what : Signals]
           Q(e) == [run |-> 1, what |-> e]
<1>1. /\ pc = "done" /\ thread = "run" /\ said' /\ thread' = "ended"
      /\ UNCHANGED <<pc, committed, canceller, life, event, runs, terminal, hooked, ui, held, log>>
  BY DEF ScanReturns, Bridge!Returned, scan, vars, out, cancel
<1>2. runs = 1
  BY <1>1 DEF FlowInv, StepInv, BridgeTypes
<1>3. (how = "succeeded" => committed) /\ (how = "failed" => ~committed) /\ how \in {"succeeded", "failed"}
  BY DEF ScanInv, JudgeInv
<1>4. \/ queue' = (queue \o <<>>) \o <<Q("quit")>>
      \/ \E e \in {how, "cancelled"} : queue' = (queue \o <<Q(e)>>) \o <<Q("quit")>>
      \/ how = "failed" /\ queue' = queue \o <<Q("failed"), Q("quit")>>
  <2>1. Bridge!Returned(how)
    BY DEF ScanReturns
  <2> HIDE DEF how
  <2> QED BY <1>2, <2>1, Zenon DEF Bridge!Returned, Bridge!Verdict
<1> HIDE DEF how
<1>5. queue \in Seq(R)
  BY DEF FlowInv, BridgeTypes
<1>6. \A e \in Signals : Q(e) \in R /\ Q(e).what = e
  OBVIOUS
<1>7. PICK e \in {how, "cancelled"} :
        \/ queue' = Append(queue, Q("quit"))
        \/ queue' = Append(Append(queue, Q(e)), Q("quit"))
  <2>1. Q("quit") \in R /\ Q("failed") \in R /\ Q(how) \in R /\ Q("cancelled") \in R
    BY <1>3, <1>6 DEF Signals
  <2> HIDE DEF Q, R
  <2>2. queue \o <<>> = queue
    BY <1>5
  <2>3. \A x \in R : queue \o <<x>> = Append(queue, x) /\ Append(queue, x) \in Seq(R)
    BY <1>5
  <2>4. \A x, y \in R : (queue \o <<x>>) \o <<y>> = Append(Append(queue, x), y)
    BY <1>5
  <2>5. \A x, y \in R : queue \o <<x, y>> = Append(Append(queue, x), y)
    BY <1>5
  <2> QED BY <1>4, <2>1, <2>2, <2>3, <2>4, <2>5
<1>8. /\ queue' \in Seq(R)
      /\ \A end \in Signals : Queued(end)' => Queued(end) \/ end \in {how, "cancelled", "quit"}
  <2>1. Q("quit") \in R /\ Q(e) \in R /\ Q("quit").what = "quit" /\ Q(e).what = e
    BY <1>3, <1>6 DEF Signals
  <2> HIDE DEF Q, R
  <2>2. \A q \in Seq(R), x \in R :
          /\ Append(q, x) \in Seq(R)
          /\ \A i \in DOMAIN Append(q, x) : (i \in DOMAIN q /\ Append(q, x)[i] = q[i]) \/ Append(q, x)[i] = x
    <3> TAKE q \in Seq(R), x \in R
    <3>1. /\ Append(q, x) \in Seq(R) /\ DOMAIN Append(q, x) = (DOMAIN q) \union {Len(q) + 1}
          /\ \A i \in DOMAIN q : Append(q, x)[i] = q[i]
          /\ Append(q, x)[Len(q) + 1] = x
      BY AppendProperties, LenProperties
    <3> QED BY <3>1
  <2>3. CASE queue' = Append(queue, Q("quit"))
    BY <1>5, <2>1, <2>2, <2>3 DEF Queued
  <2>4. CASE queue' = Append(Append(queue, Q(e)), Q("quit"))
    <3>1. PICK q : q = Append(queue, Q(e))
      OBVIOUS
    <3>2. q \in Seq(R) /\ \A i \in DOMAIN q : (i \in DOMAIN queue /\ q[i] = queue[i]) \/ q[i] = Q(e)
      BY <1>5, <2>1, <2>2, <3>1
    <3>3. queue' \in Seq(R) /\ \A i \in DOMAIN queue' : (i \in DOMAIN q /\ queue'[i] = q[i]) \/ queue'[i] = Q("quit")
      BY <2>1, <2>2, <2>4, <3>1, <3>2
    <3> QED BY <1>7, <2>1, <3>2, <3>3 DEF Queued
  <2> QED BY <1>7, <2>3, <2>4
<1>9. \A end \in {"succeeded", "failed", "cancelled"} : Showing(end)' <=> Showing(end)
  BY <1>1 DEF Showing
<1>10. BridgeTypes'
  BY <1>1, <1>8 DEF FlowInv, BridgeTypes
<1>11. StepInv'
  BY <1>1, <1>2, <1>8 DEF FlowInv, StepInv
<1>12. HookInv' /\ CancelInv'
  BY <1>1, <1>9 DEF FlowInv, HookInv, CancelInv
<1>13. ToldInv'
  BY <1>1, <1>3, <1>8, <1>9 DEF FlowInv, ToldInv, Signals
<1> QED BY <1>10, <1>11, <1>12, <1>13 DEF FlowInv

\* The thread is over.
LEMMA ThreadExitsKeeps == ASSUME ScanInv, FlowInv, ThreadExits PROVE FlowInv'
<1> DEFINE x == [run |-> 1, what |-> "gone"]
<1>1. /\ thread = "quitting" /\ thread' = "gone"
      /\ UNCHANGED <<pc, committed, canceller, life, event, said, runs, terminal, hooked, ui, held, log>>
  BY DEF ThreadExits, Bridge!Exit, scan, vars, out, cancel
<1>2. runs = 1 /\ pc = "done"
  BY <1>1 DEF FlowInv, StepInv, BridgeTypes
<1>3. queue' = Append(queue, x)
  BY <1>2 DEF ThreadExits, Bridge!Exit, Bridge!Post
<1>4. x \in [run : {1}, what : Signals] /\ x.what = "gone"
  BY DEF Signals
<1> HIDE DEF x
<1>5. /\ queue' \in Seq([run : {1}, what : Signals])
      /\ \A end \in Signals : Queued(end)' => Queued(end) \/ end = "gone"
  BY <1>3, <1>4, Posts DEF FlowInv
<1>6. \A end \in {"succeeded", "failed", "cancelled"} : Showing(end)' <=> Showing(end)
  BY <1>1 DEF Showing
<1>7. BridgeTypes'
  BY <1>1, <1>5 DEF FlowInv, BridgeTypes
<1>8. StepInv'
  BY <1>1, <1>2 DEF FlowInv, StepInv
<1>9. HookInv' /\ CancelInv'
  BY <1>1, <1>6 DEF FlowInv, HookInv, CancelInv
<1>10. ToldInv'
  BY <1>1, <1>5, <1>6 DEF FlowInv, ToldInv, Signals
<1> QED BY <1>7, <1>8, <1>9, <1>10 DEF FlowInv

\* The window shows progress.
LEMMA ProgressKeeps ==
  ASSUME ScanInv, FlowInv, Bridge!DeliverProgress \/ Bridge!Flush, UNCHANGED scan
  PROVE  FlowInv'
<1> DEFINE L == {"save", "succeeded", "failed", "cancelled"}
           E == {"succeeded", "failed", "cancelled"}
<1>1. UNCHANGED <<pc, committed, canceller, life, thread, event, said, runs, terminal, hooked, ui>>
  BY DEF Bridge!DeliverProgress, Bridge!Flush, scan, vars, out, cancel
<1>2. /\ queue' \in Seq([run : {1}, what : Signals])
      /\ \A end \in Signals : Queued(end)' => Queued(end)
      /\ queue = <<>> => queue' = <<>>
  <2>1. CASE Bridge!DeliverProgress
    BY <2>1, Takes DEF FlowInv, Bridge!DeliverProgress, Bridge!HeadIs, Bridge!TakeHead
  <2>2. CASE Bridge!Flush
    BY <2>2 DEF FlowInv, BridgeTypes, Bridge!Flush, Queued
  <2> QED BY <2>1, <2>2
<1>3. /\ log' = log \/ \E v \in {"save"} : log' = Bridge!Show(v)
      /\ held' \in {"save", "nothing"}
      /\ runs # 0
  <2>1. CASE Bridge!DeliverProgress
    BY <2>1 DEF FlowInv, BridgeTypes, StepInv, Bridge!DeliverProgress, Bridge!HeadIs, Bridge!Nothing
  <2>2. CASE Bridge!Flush
    BY <2>2 DEF FlowInv, BridgeTypes, StepInv, Bridge!Flush, Bridge!Nothing
  <2> QED BY <2>1, <2>2
<1>4. log' \in Seq(L) /\ \A end \in E : Showing(end)' <=> Showing(end)
  <2>1. CASE log' = log
    BY <2>1 DEF FlowInv, BridgeTypes, Showing
  <2>2. ASSUME NEW v \in {"save"}, log' = Bridge!Show(v) PROVE log' \in Seq(L) /\ \A end \in E : Showing(end)' <=> Showing(end)
    BY <2>2, ShownKeeps DEF FlowInv, Showing
  <2> QED BY <1>3, <2>1, <2>2
<1> HIDE DEF L, E
<1>5. BridgeTypes'
  BY <1>1, <1>2, <1>3, <1>4 DEF FlowInv, BridgeTypes, L
<1>6. StepInv'
  BY <1>1, <1>2, <1>3 DEF FlowInv, StepInv, Signals
<1>7. HookInv' /\ CancelInv'
  BY <1>1, <1>4 DEF FlowInv, HookInv, CancelInv, E
<1>8. ToldInv'
  BY <1>1, <1>2, <1>4 DEF FlowInv, ToldInv, Signals, E
<1> QED BY <1>5, <1>6, <1>7, <1>8 DEF FlowInv

\* The window is told how the scan ended.
LEMMA DeliverEndKeeps ==
  ASSUME ScanInv, FlowInv, Bridge!DeliverEnd, UNCHANGED scan
  PROVE  FlowInv'
<1> USE DEF Bridge!DeliverEnd, Bridge!HeadIs, Bridge!TakeHead
<1>1. UNCHANGED <<pc, committed, canceller, thread, event, said, runs, hooked, ui>> /\ queue # <<>>
  BY DEF scan, vars, out, cancel
<1>2. runs = 1
  BY <1>1 DEF FlowInv, StepInv, BridgeTypes
<1>3. PICK what : what = Head(queue).what
  OBVIOUS
<1>4. /\ what \in {"succeeded", "failed", "cancelled"} /\ Queued(what)
      /\ queue' \in Seq([run : {1}, what : Signals])
      /\ \A end \in Signals : Queued(end)' => Queued(end)
  BY <1>3, Takes DEF FlowInv, Bridge!Ends
<1>5. CASE event \/ what = "cancelled"
  <2>1. UNCHANGED <<held, log, terminal, life>>
    BY <1>3, <1>5
  <2>2. \A end \in {"succeeded", "failed", "cancelled"} : Showing(end)' <=> Showing(end)
    BY <2>1 DEF Showing
  <2>3. BridgeTypes'
    BY <1>1, <1>4, <2>1 DEF FlowInv, BridgeTypes
  <2>4. StepInv' /\ HookInv' /\ CancelInv'
    BY <1>1, <1>2, <1>4, <2>1, <2>2 DEF FlowInv, StepInv, HookInv, CancelInv, Signals
  <2>5. ToldInv'
    BY <1>1, <1>4, <2>2 DEF FlowInv, ToldInv, Signals
  <2> QED BY <2>3, <2>4, <2>5 DEF FlowInv
<1>6. CASE ~event /\ what # "cancelled"
  <2>1. Bridge!End(what) /\ Bridge!EndLife
    BY <1>3, <1>6
  <2>2. /\ held' = "nothing" /\ terminal' /\ log' \in Seq({"save", "succeeded", "failed", "cancelled"})
        /\ \A end \in {"succeeded", "failed", "cancelled"} :
             /\ Showing(end) => Showing(end)'
             /\ Showing(end)' => Showing(end) \/ (end = what /\ ~terminal)
    BY <1>4, <2>1, Shows DEF FlowInv
  <2>3. canceller = "idle" /\ pc = "done" /\ (what = "succeeded" => committed) /\ (what = "failed" => ~committed)
    BY <1>4, <1>6 DEF FlowInv, HookInv, ToldInv, ScanInv, JudgeInv
  <2>4. life' \in {life, "terminal"}
    BY <2>1 DEF Bridge!EndLife
  <2>5. BridgeTypes'
    BY <1>1, <1>4, <2>1, <2>2, <2>4 DEF FlowInv, BridgeTypes, Bridge!End
  <2>6. StepInv' /\ HookInv' /\ CancelInv'
    BY <1>1, <1>2, <1>4, <2>2, <2>3 DEF FlowInv, StepInv, HookInv, CancelInv, Signals
  <2>7. ToldInv'
    BY <1>1, <1>4, <1>6, <2>2, <2>3 DEF FlowInv, ToldInv, Signals
  <2> QED BY <2>5, <2>6, <2>7 DEF FlowInv
<1> QED BY <1>5, <1>6

\* The thread is told to quit.
LEMMA DeliverQuitKeeps ==
  ASSUME ScanInv, FlowInv, Bridge!DeliverQuit, UNCHANGED scan
  PROVE  FlowInv'
<1> USE DEF Bridge!DeliverQuit, Bridge!HeadIs, Bridge!TakeHead
<1>1. /\ UNCHANGED <<pc, committed, canceller, life, event, said, runs, terminal, hooked, ui, held, log>>
      /\ queue # <<>> /\ thread' = "quitting"
  BY DEF scan, vars, out, cancel
<1>2. runs = 1
  BY <1>1 DEF FlowInv, StepInv, BridgeTypes
<1>3. /\ queue' \in Seq([run : {1}, what : Signals])
      /\ \A end \in Signals : Queued(end)' => Queued(end)
      /\ Queued("quit")
  BY Takes DEF FlowInv
<1>4. \A end \in {"succeeded", "failed", "cancelled"} : Showing(end)' <=> Showing(end)
  BY <1>1 DEF Showing
<1>5. BridgeTypes'
  BY <1>1, <1>3 DEF FlowInv, BridgeTypes
<1>6. StepInv' /\ HookInv' /\ CancelInv'
  BY <1>1, <1>2, <1>3, <1>4 DEF FlowInv, StepInv, HookInv, CancelInv, Signals
<1>7. ToldInv'
  BY <1>1, <1>3, <1>4 DEF FlowInv, ToldInv, Signals
<1> QED BY <1>5, <1>6, <1>7 DEF FlowInv

\* The thread is gone, and a cancel nobody has shown is.
LEMMA DeliverGoneKeeps ==
  ASSUME ScanInv, FlowInv, Bridge!DeliverGone, UNCHANGED scan
  PROVE  FlowInv'
<1> USE DEF Bridge!DeliverGone, Bridge!HeadIs, Bridge!TakeHead
<1>1. /\ UNCHANGED <<pc, committed, canceller, event, said, runs, hooked, ui>>
      /\ queue # <<>> /\ thread' = "none" /\ life' = "terminal"
  BY DEF scan, vars, out, cancel
<1>2. runs = 1
  BY <1>1 DEF FlowInv, StepInv, BridgeTypes
<1>3. /\ queue' \in Seq([run : {1}, what : Signals])
      /\ \A end \in Signals : Queued(end)' => Queued(end)
      /\ Queued("gone")
  BY Takes DEF FlowInv
<1>4. pc = "done"
  BY <1>3 DEF FlowInv, StepInv
<1>5. /\ held' = "nothing" /\ log' \in Seq({"save", "succeeded", "failed", "cancelled"})
      /\ \A end \in {"succeeded", "failed", "cancelled"} :
           /\ Showing(end) => Showing(end)'
           /\ Showing(end)' => Showing(end) \/ end = "cancelled"
      /\ event /\ ~terminal => Showing("cancelled")'
      /\ terminal' \in BOOLEAN /\ (~event => terminal' = terminal)
  <2>1. CASE event
    <3>1. Bridge!End("cancelled")
      BY <2>1
    <3> QED BY <2>1, <3>1, Shows DEF FlowInv, Bridge!End
  <2>2. CASE ~event
    BY <2>2 DEF FlowInv, BridgeTypes, Showing, Bridge!Nothing
  <2> QED BY <2>1, <2>2
<1>6. BridgeTypes'
  BY <1>1, <1>3, <1>5 DEF FlowInv, BridgeTypes
<1>7. StepInv' /\ HookInv'
  BY <1>1, <1>2, <1>3, <1>4 DEF FlowInv, StepInv, HookInv, Signals
<1>8. CancelInv'
  BY <1>1, <1>5 DEF FlowInv, HookInv, CancelInv, BridgeTypes
<1>9. ToldInv'
  BY <1>1, <1>3, <1>5 DEF FlowInv, ToldInv, Signals
<1> QED BY <1>6, <1>7, <1>8, <1>9 DEF FlowInv

\* The user cancels the scan, or closes the window.
LEMMA CancelFlowKeeps ==
  ASSUME ScanInv, FlowInv, CancelScan \/ CloseWindow
  PROVE  FlowInv'
<1>1. /\ UNCHANGED <<pc, committed, thread, said, queue, runs, terminal, held, log>>
      /\ ui = "loop" /\ event' /\ hooked' /\ ui' = IF hooked THEN ui ELSE "hook"
      /\ life' \in {"cancelling", "closing"} /\ Look
      /\ life \in {"running", "cancelling"} \/ thread # "none"
  BY DEF CancelScan, CloseWindow, Look, Find, Bridge!Cancel, Bridge!CloseBridge, Bridge!Cancelled, scan, vars, out, cancel
<1>2. runs = 1
  BY <1>1 DEF FlowInv, StepInv, BridgeTypes
<1>3. IF hooked THEN canceller' = canceller
      ELSE canceller = "idle" /\ canceller' = IF registered THEN "ask" ELSE "refused"
  BY <1>1 DEF Look, Find, scan, vars, cancel
<1>4. registered => pc # "done"
  BY DEF ScanInv, JudgeInv
<1>5. /\ \A end \in Signals : Queued(end)' <=> Queued(end)
      /\ \A end \in {"succeeded", "failed", "cancelled"} : Showing(end)' <=> Showing(end)
  BY <1>1 DEF Queued, Showing
<1>6. BridgeTypes'
  BY <1>1 DEF FlowInv, BridgeTypes
<1>7. StepInv'
  BY <1>1, <1>2, <1>5 DEF FlowInv, StepInv, Signals
<1>8. HookInv'
  BY <1>1, <1>3 DEF FlowInv, HookInv
<1>9. CancelInv'
  BY <1>1, <1>3, <1>4, <1>5 DEF FlowInv, HookInv, CancelInv
<1>10. ToldInv'
  BY <1>1, <1>3, <1>5 DEF FlowInv, ToldInv, Signals
<1> QED BY <1>6, <1>7, <1>8, <1>9, <1>10 DEF FlowInv

\* cancel_scan goes on, or refuses.
LEMMA HookKeeps == ASSUME ScanInv, FlowInv, Hook PROVE FlowInv'
<1>1. CASE canceller \in {"ask", "tell"} /\ canceller' \in {"tell", "done"} /\ (canceller' = "tell" => ui' = ui)
           /\ ui' \in {ui, "loop"} /\ (canceller' = "done" => ui' = "loop")
           /\ UNCHANGED <<pc, committed, life, thread, event, said, queue, runs, terminal, hooked, held, log>>
  <2>1. /\ \A end \in Signals : Queued(end)' <=> Queued(end)
        /\ \A end \in {"succeeded", "failed", "cancelled"} : Showing(end)' <=> Showing(end)
    BY <1>1 DEF Queued, Showing
  <2>2. BridgeTypes'
    BY <1>1 DEF FlowInv, BridgeTypes
  <2>3. StepInv' /\ HookInv' /\ CancelInv'
    BY <1>1, <2>1 DEF FlowInv, StepInv, HookInv, CancelInv, Signals
  <2>4. ToldInv'
    BY <1>1, <2>1 DEF FlowInv, ToldInv, Signals
  <2> QED BY <2>2, <2>3, <2>4 DEF FlowInv
<1>2. CASE canceller = "refused" /\ Bridge!HookRefuses /\ UNCHANGED scan
  <2>1. /\ ui' = "loop" /\ Bridge!End("failed") /\ Bridge!EndLife /\ canceller' = "refused"
        /\ UNCHANGED <<pc, committed, canceller, thread, event, said, queue, runs, hooked>>
    BY <1>2 DEF Bridge!HookRefuses, scan, vars, out, cancel
  <2>2. runs = 1
    BY <1>2 DEF FlowInv, StepInv, HookInv, BridgeTypes
  <2>3. /\ held' = "nothing" /\ terminal' /\ log' \in Seq({"save", "succeeded", "failed", "cancelled"})
        /\ \A end \in {"succeeded", "failed", "cancelled"} :
             /\ Showing(end) => Showing(end)'
             /\ Showing(end)' => Showing(end) \/ (end = "failed" /\ ~terminal)
    BY <2>1, Shows DEF FlowInv
  <2>4. \A end \in Signals : Queued(end)' <=> Queued(end)
    BY <2>1 DEF Queued
  <2>5. life' \in {life, "terminal"}
    BY <2>1 DEF Bridge!EndLife
  <2>6. BridgeTypes'
    BY <2>1, <2>3, <2>5 DEF FlowInv, BridgeTypes, Bridge!End
  <2>7. StepInv' /\ HookInv' /\ CancelInv'
    BY <1>2, <2>1, <2>2, <2>3, <2>4 DEF FlowInv, StepInv, HookInv, CancelInv, Signals
  <2>8. ToldInv'
    BY <1>2, <2>1, <2>3, <2>4 DEF FlowInv, ToldInv, Signals
  <2> QED BY <2>6, <2>7, <2>8 DEF FlowInv
<1>3. CASE ui = "hook" /\ Ask /\ UNCHANGED bridge
  BY <1>1, <1>3 DEF Ask, bridge, out
<1>4. CASE Tell /\ Bridge!HookAccepts
  BY <1>1, <1>4 DEF Tell, Bridge!HookAccepts, out
<1> QED BY <1>2, <1>3, <1>4 DEF Hook

\* Every step of the flow keeps its invariant.
LEMMA FlowStep == ASSUME ScanInv, FlowInv, [FlowNext]_all PROVE FlowInv'
<1>1. CASE UNCHANGED all
  <2>1. UNCHANGED <<life, thread, event, said, queue, runs, terminal, hooked, ui, held, log,
                    pc, committed, canceller>>
    BY <1>1 DEF all, scan, bridge, vars, out, cancel
  <2>2. /\ \A end \in Signals : Queued(end)' <=> Queued(end)
        /\ \A end \in {"succeeded", "failed", "cancelled"} : Showing(end)' <=> Showing(end)
    BY <2>1 DEF Queued, Showing
  <2>3. BridgeTypes'
    BY <2>1 DEF FlowInv, BridgeTypes
  <2>4. StepInv' /\ HookInv' /\ CancelInv' /\ ToldInv'
    BY <2>1, <2>2 DEF FlowInv, StepInv, HookInv, CancelInv, ToldInv, Signals
  <2> QED BY <2>3, <2>4 DEF FlowInv
<1>2. CASE Recognise
  BY <1>2, RecogniseKeeps DEF Recognise
<1>3. CASE WindowRuns
  BY <1>3, ProgressKeeps, DeliverEndKeeps, DeliverQuitKeeps, DeliverGoneKeeps DEF WindowRuns, Bridge!Deliver
<1> QED BY <1>1, <1>2, <1>3, StartScanKeeps, SaveBeginsKeeps, ScanReturnsKeeps, ThreadExitsKeeps,
           CancelFlowKeeps, HookKeeps DEF FlowNext

\* Both invariants hold throughout.
LEMMA FlowInvariant == FlowSpec => [](ScanInv /\ FlowInv)
<1>1. FlowInit => ScanInv /\ FlowInv
  BY ScanBegins, FlowBegins DEF FlowInit
<1>2. ScanInv /\ FlowInv /\ [FlowNext]_all => ScanInv' /\ FlowInv'
  BY FlowIsScan, ScanStep, FlowStep
<1> QED BY <1>1, <1>2, PTL DEF FlowSpec

\* The end that is shown is what happened: a scan shown as done is saved and whole, one shown as
\* failed was not saved unless a cancel was refused, and a cancel that was accepted is shown.
THEOREM EndShownIsTrue == FlowSpec => []EndIsTrue
<1>1. ScanInv /\ FlowInv => EndIsTrue
  BY DEF ScanInv, JudgeInv, FlowInv, CancelInv, ToldInv, EndIsTrue
<1> QED BY FlowInvariant, <1>1, PTL

-----------------------------------------------------------------------------
(* What a worker makes of a page *)
HIDE ScanAssumption

(* Medians *)
\* Of naturals there is a least one.
LEMMA LeastOf ==
  ASSUME NEW T \in SUBSET Nat, T # {}
  PROVE  \E m \in T : \A n \in T : m <= n
<1>1. PICK m \in T : \A n \in T : ~(<<n, m>> \in OpToRel(<, Nat))
  BY NatLessThanWellFounded, WFMin
<1>2. ASSUME NEW n \in T PROVE m <= n
  <2>1. <<n, m>> \in Nat \X Nat
    OBVIOUS
  <2> QED BY <1>1, <2>1 DEF OpToRel
<1> QED BY <1>2

\* A function on a finite set is largest somewhere, and least somewhere.
LEMMA LargestOf ==
  ASSUME NEW S, IsFiniteSet(S), S # {}, NEW f \in [S -> Nat]
  PROVE  \E x \in S : \A y \in S : f[y] <= f[x]
<1> DEFINE below(x) == {y \in S : f[y] <= f[x]}
           spare == {Cardinality(S) - Cardinality(below(x)) : x \in S}
<1>1. Cardinality(S) \in Nat
  BY FS_CardinalityType
<1>2. ASSUME NEW x \in S
      PROVE  IsFiniteSet(below(x)) /\ Cardinality(below(x)) \in Nat /\ Cardinality(below(x)) <= Cardinality(S)
  <2>1. below(x) \in SUBSET S
    OBVIOUS
  <2> HIDE DEF below
  <2> QED BY <2>1, FS_Subset, FS_CardinalityType
<1> HIDE DEF below
<1>3. spare \in SUBSET Nat /\ spare # {}
  BY <1>1, <1>2
<1>4. PICK m \in spare : \A n \in spare : m <= n
  <2> HIDE DEF spare
  <2> QED BY <1>3, LeastOf
<1>5. PICK x \in S : m = Cardinality(S) - Cardinality(below(x))
  OBVIOUS
<1>6. \A y \in S : Cardinality(below(y)) <= Cardinality(below(x))
  BY <1>1, <1>2, <1>4, <1>5
<1>7. ASSUME NEW y \in S, ~(f[y] <= f[x]) PROVE FALSE
  <2>1. below(x) \in SUBSET below(y) /\ y \in below(y) /\ y \notin below(x)
    BY <1>7 DEF below
  <2>2. Cardinality(below(x)) <= Cardinality(below(y)) /\ (Cardinality(below(y)) = Cardinality(below(x)) => below(y) = below(x))
    BY <1>2, <2>1, FS_Subset
  <2> QED BY <1>2, <1>6, <2>1, <2>2
<1> QED BY <1>7

\* Less than half of a set leaves more than the lower half.
LEMMA MostOf ==
  ASSUME NEW S, IsFiniteSet(S), NEW low \in SUBSET S, 2 * Cardinality(S \ low) < Cardinality(S),
         NEW k \in Nat, k <= Cardinality(S) \div 2
  PROVE  k < Cardinality(low) /\ Cardinality(low) \in Nat
<1>1. IsFiniteSet(low) /\ Cardinality(low) \in Nat /\ Cardinality(S) \in Nat /\ Cardinality(S \ low) \in Nat
  BY FS_Subset, FS_Difference, FS_CardinalityType
<1>2. Cardinality(S \ low) = Cardinality(S) - Cardinality(low)
  <2>1. S \cap low = low
    OBVIOUS
  <2> QED BY <2>1, FS_Difference
<1>3. 2 * k <= Cardinality(S)
  BY <1>1
<1> QED BY <1>1, <1>2, <1>3

\* Up to the middle, the k-th smallest of a function is not larger than most of it are.
LEMMA KthWithin ==
  ASSUME NEW S, IsFiniteSet(S), NEW f \in [S -> Nat], NEW hi \in Nat,
         NEW low \in SUBSET S, \A x \in low : f[x] <= hi,
         2 * Cardinality(S \ low) < Cardinality(S), NEW k \in Nat, k <= Cardinality(S) \div 2
  PROVE  \E x \in S : KthSmallest(S, f, k) = f[x] /\ f[x] <= hi
<1> DEFINE less(v) == {y \in S : f[y] < v}
           upto(v) == {y \in S : f[y] <= v}
           Is(x) == x \in S /\ Cardinality(less(f[x])) <= k /\ k < Cardinality(upto(f[x]))
<1>1. k < Cardinality(low) /\ Cardinality(low) \in Nat /\ Cardinality(S) \in Nat
  BY MostOf, FS_CardinalityType
<1>2. ASSUME NEW v
      PROVE  /\ less(v) \in SUBSET S /\ IsFiniteSet(less(v)) /\ Cardinality(less(v)) \in Nat
             /\ upto(v) \in SUBSET S /\ IsFiniteSet(upto(v)) /\ Cardinality(upto(v)) \in Nat
  <2>1. less(v) \in SUBSET S /\ upto(v) \in SUBSET S
    OBVIOUS
  <2> HIDE DEF less, upto
  <2> QED BY <2>1, FS_Subset, FS_CardinalityType
<1>3. S # {}
  BY <1>1, FS_EmptySet, FS_Subset
<1>4. PICK top \in S : \A y \in S : f[y] <= f[top]
  BY <1>3, LargestOf
<1> DEFINE values == {f[x] : x \in {z \in S : k < Cardinality(upto(f[z]))}}
<1>5. f[top] \in values
  <2>1. upto(f[top]) = S
    BY <1>4
  <2>2. Cardinality(low) <= Cardinality(S)
    BY FS_Subset
  <2> HIDE DEF upto
  <2> QED BY <1>1, <2>1, <2>2
<1>6. PICK m \in values : \A n \in values : m <= n
  <2>1. values \in SUBSET Nat /\ values # {}
    BY <1>5
  <2> HIDE DEF values
  <2> QED BY <2>1, LeastOf
<1>7. PICK x \in S : f[x] = m /\ k < Cardinality(upto(m))
  BY <1>6
<1>8. Cardinality(less(m)) <= k
  <2>7. Cardinality(less(m)) \in Nat
    <3> HIDE DEF less
    <3> QED BY <1>2
  <2> SUFFICES ASSUME Cardinality(less(m)) > k PROVE FALSE
    <3> HIDE DEF less
    <3> QED BY <2>7
  <2>1. less(m) # {}
    <3> HIDE DEF less
    <3> QED BY FS_EmptySet
  <2>2. PICK z \in less(m) : \A y \in less(m) : f[y] <= f[z]
    <3> DEFINE g == [y \in less(m) |-> f[y]]
    <3>1. g \in [less(m) -> Nat] /\ \A y \in less(m) : g[y] = f[y]
      OBVIOUS
    <3>2. IsFiniteSet(less(m))
      BY <1>2
    <3>3. \E z \in less(m) : \A y \in less(m) : g[y] <= g[z]
      <4> HIDE DEF g, less
      <4> QED BY <2>1, <3>1, <3>2, LargestOf
    <3> HIDE DEF g, less
    <3> QED BY <3>1, <3>3
  <2>3. less(m) \in SUBSET upto(f[z])
    BY <2>2
  <2>4. Cardinality(less(m)) <= Cardinality(upto(f[z]))
    <3> HIDE DEF less, upto
    <3> QED BY <1>2, <2>3, FS_Subset
  <2>5. z \in S /\ f[z] < m
    OBVIOUS
  <2>6. f[z] \in values
    <3>1. k < Cardinality(upto(f[z]))
      <4> HIDE DEF less, upto
      <4> QED BY <1>2, <2>4
    <3> HIDE DEF upto
    <3> QED BY <2>5, <3>1
  <2>8. m <= f[z]
    <3> HIDE DEF values
    <3> QED BY <1>6, <2>6
  <2>9. m \in Nat /\ f[z] \in Nat
    BY <1>7, <2>5
  <2> QED BY <2>5, <2>8, <2>9
<1>9. Is(x)
  BY <1>7, <1>8
<1>10. ASSUME NEW z, Is(z) PROVE f[z] <= hi
  <2>5. z \in S /\ f[z] \in Nat
    BY <1>10
  <2> SUFFICES ASSUME f[z] > hi PROVE FALSE
    BY <2>5
  <2>1. low \in SUBSET less(f[z])
    BY <2>5
  <2>2. Cardinality(low) <= Cardinality(less(f[z]))
    <3> HIDE DEF less
    <3> QED BY <1>2, <2>1, FS_Subset
  <2>3. Cardinality(less(f[z])) <= k
    BY <1>10
  <2>4. Cardinality(less(f[z])) \in Nat
    <3> HIDE DEF less
    <3> QED BY <1>2
  <2> HIDE DEF less
  <2> QED BY <1>1, <2>2, <2>3, <2>4
<1> DEFINE it == CHOOSE z \in S : /\ Cardinality({y \in S : f[y] < f[z]}) <= k
                                 /\ k < Cardinality({y \in S : f[y] <= f[z]})
<1>11. KthSmallest(S, f, k) = f[it]
  BY DEF KthSmallest
<1>12. it \in S /\ Cardinality(less(f[it])) <= k /\ k < Cardinality(upto(f[it]))
  BY <1>9
<1>13. Is(it)
  <2> HIDE DEF it, less, upto
  <2> QED BY <1>12
<1> HIDE DEF it, Is
<1> QED BY <1>10, <1>11, <1>12, <1>13

\* The median lies between what no value is below and what most are not above.
LEMMA MedianWithin ==
  ASSUME NEW S, IsFiniteSet(S), NEW f \in [S -> Nat], NEW lo \in Nat, NEW hi \in Nat,
         \A x \in S : lo <= f[x],
         NEW low \in SUBSET S, \A x \in low : f[x] <= hi, 2 * Cardinality(S \ low) < Cardinality(S)
  PROVE  Median(S, f) \in Nat /\ lo <= Median(S, f) /\ Median(S, f) <= hi
<1> DEFINE n == Cardinality(S)
           a == KthSmallest(S, f, (n - 1) \div 2)
           b == KthSmallest(S, f, n \div 2)
<1>1. n \in Nat /\ n > 0
  <2>1. n \in Nat /\ Cardinality(S \ low) \in Nat
    BY FS_CardinalityType, FS_Difference
  <2> HIDE DEF n
  <2> QED BY <2>1 DEF n
<1>2. (n - 1) \div 2 \in Nat /\ n \div 2 \in Nat /\ (n - 1) \div 2 <= n \div 2
  <2> HIDE DEF n
  <2> QED BY <1>1
<1>3. PICK x \in S : a = f[x] /\ f[x] <= hi
  <2> DEFINE k == (n - 1) \div 2
  <2>1. k \in Nat /\ k <= Cardinality(S) \div 2
    BY <1>2
  <2> HIDE DEF k
  <2>2. \E z \in S : KthSmallest(S, f, k) = f[z] /\ f[z] <= hi
    BY <2>1, KthWithin
  <2> QED BY <2>2 DEF k
<1>4. PICK y \in S : b = f[y] /\ f[y] <= hi
  <2> DEFINE k == n \div 2
  <2>1. k \in Nat /\ k <= Cardinality(S) \div 2
    BY <1>2
  <2> HIDE DEF k
  <2>2. \E z \in S : KthSmallest(S, f, k) = f[z] /\ f[z] <= hi
    BY <2>1, KthWithin
  <2> QED BY <2>2 DEF k
<1>5. Median(S, f) = (a + b) \div 2
  BY DEF Median
<1> HIDE DEF a, b, n
<1>6. a \in Nat /\ b \in Nat /\ lo <= a /\ lo <= b /\ a <= hi /\ b <= hi
  BY <1>3, <1>4
<1> QED BY <1>5, <1>6

\* What more than half of the values are, and none is below, is the median.
LEMMA MedianTypical ==
  ASSUME NEW S, IsFiniteSet(S), NEW f \in [S -> Nat], NEW v \in Nat, \A x \in S : v <= f[x],
         2 * Cardinality({x \in S : f[x] # v}) < Cardinality(S)
  PROVE  Median(S, f) = v
<1> DEFINE low == {x \in S : f[x] = v}
<1>1. low \in SUBSET S /\ (\A x \in low : f[x] <= v) /\ S \ low = {x \in S : f[x] # v}
  OBVIOUS
<1>2. Median(S, f) \in Nat /\ v <= Median(S, f) /\ Median(S, f) <= v
  <2> HIDE DEF low
  <2> QED BY <1>1, MedianWithin
<1> QED BY <1>2

\* The spread is that between the least and the largest.
LEMMA SpreadIs ==
  ASSUME NEW C, IsFiniteSet(C), C # {}, NEW print \in [C -> Nat]
  PROVE  \E lo, hi \in Nat : Spread(print) = hi - lo /\ \A c \in C : lo <= print[c] /\ print[c] <= hi
<1> DEFINE values == {print[c] : c \in C}
           most == Largest(values)
           least == Least(values)
<1>1. values \in SUBSET Nat /\ values # {}
  OBVIOUS
<1>2. least \in values /\ \A w \in values : least <= w
  <2>1. \E v \in values : \A w \in values : v <= w
    <3> HIDE DEF values
    <3> QED BY <1>1, LeastOf
  <2> HIDE DEF values
  <2> QED BY <2>1 DEF Least
<1>3. most \in values /\ \A w \in values : w <= most
  <2>1. \E c \in C : \A d \in C : print[d] <= print[c]
    BY LargestOf
  <2>2. \E v \in values : \A w \in values : w <= v
    BY <2>1
  <2> HIDE DEF values
  <2> QED BY <2>2 DEF Largest
<1>4. Spread(print) = most - least
  <2>1. DOMAIN print = C
    OBVIOUS
  <2> QED BY <2>1 DEF Spread
<1> HIDE DEF most, least
<1> QED BY <1>1, <1>2, <1>3, <1>4

\* A smaller set goes into a larger one, and leaves out some member.
LEMMA SmallerGoesInto ==
  ASSUME NEW A, IsFiniteSet(A), NEW B, IsFiniteSet(B), Cardinality(A) < Cardinality(B)
  PROVE  \E left \in B : Injection(A, B \ {left}) # {}
<1>1. Cardinality(A) \in Nat /\ Cardinality(B) \in Nat
  BY FS_CardinalityType
<1>2. B # {}
  BY <1>1, FS_EmptySet
<1>3. PICK left \in B : TRUE
  BY <1>2
<1> DEFINE R == B \ {left}
           a == Cardinality(A)
           b == Cardinality(R)
<1>4. IsFiniteSet(R) /\ b = Cardinality(B) - 1
  BY <1>3, FS_RemoveElement
<1>5. ExistsBijection(1..a, A) /\ ExistsBijection(1..b, R)
  <2> HIDE DEF R
  <2> QED BY <1>4, FS_CardinalityType
<1>6. a \in Nat /\ b \in Nat /\ a <= b
  <2> HIDE DEF R
  <2>1. Cardinality(R) \in Nat
    BY <1>4, FS_CardinalityType
  <2> QED BY <1>1, <1>4, <2>1
<1> HIDE DEF a, b, R
<1>7. PICK f : f \in Bijection(1..a, A)
  BY <1>5, Fun_ExistsBij
<1>8. PICK g : g \in Bijection(1..b, R)
  BY <1>5, Fun_ExistsBij
<1> DEFINE back == Inverse(f, 1..a, A)
           into == [x \in A |-> g[back[x]]]
<1>9. back \in Bijection(A, 1..a)
  BY <1>7, Fun_BijInverse
<1> HIDE DEF back
<1>10. back \in [A -> 1..a] /\ \A x, y \in A : back[x] = back[y] => x = y
  BY <1>9 DEF Bijection, Injection, IsInjective
<1>11. g \in [1..b -> R] /\ \A i, j \in 1..b : g[i] = g[j] => i = j
  BY <1>8 DEF Bijection, Injection, IsInjective
<1>12. 1..a \subseteq 1..b
  BY <1>6
<1>13. into \in [A -> R] /\ \A x, y \in A : into[x] = into[y] => x = y
  BY <1>10, <1>11, <1>12
<1>14. into \in Injection(A, R)
  <2> HIDE DEF into
  <2> QED BY <1>13, Fun_IsInj
<1> QED BY <1>3, <1>14 DEF R

\* If a minority is marked in every column, a minority is marked in all of them together.
LEMMA MinorityOfAll ==
  ASSUME NEW R, IsFiniteSet(R), NEW C, IsFiniteSet(C), NEW e \in C, NEW bad \in [C -> SUBSET R],
         \A d \in C : 2 * Cardinality(bad[d]) < Cardinality(R)
  PROVE  2 * Cardinality({x \in R \X C : x[1] \in bad[x[2]]}) < Cardinality(R \X C)
<1> DEFINE cells == R \X C
           marked == {x \in cells : x[1] \in bad[x[2]]}
           clean == cells \ marked
           left == [d \in C |-> CHOOSE w \in R \ bad[d] : Injection(bad[d], (R \ bad[d]) \ {w}) # {}]
           into == [d \in C |-> CHOOSE h : h \in Injection(bad[d], (R \ bad[d]) \ {left[d]})]
           move == [x \in marked |-> <<into[x[2]][x[1]], x[2]>>]
           spare == <<left[e], e>>
<1>1. ASSUME NEW d \in C
      PROVE  /\ left[d] \in R \ bad[d] /\ into[d] \in [bad[d] -> (R \ bad[d]) \ {left[d]}]
             /\ \A i, j \in bad[d] : into[d][i] = into[d][j] => i = j
  <2>1. bad[d] \in SUBSET R
    OBVIOUS
  <2>2. IsFiniteSet(bad[d]) /\ IsFiniteSet(R \ bad[d]) /\ Cardinality(R \ bad[d]) = Cardinality(R) - Cardinality(bad[d])
    <3>1. R \cap bad[d] = bad[d]
      BY <2>1
    <3>2. IsFiniteSet(bad[d])
      BY <2>1, FS_Subset
    <3>3. IsFiniteSet(R \ bad[d]) /\ Cardinality(R \ bad[d]) = Cardinality(R) - Cardinality(R \cap bad[d])
      BY FS_Difference
    <3> QED BY <3>1, <3>2, <3>3
  <2>3. Cardinality(bad[d]) < Cardinality(R \ bad[d])
    BY <2>2, FS_CardinalityType
  <2>4. \E w \in R \ bad[d] : Injection(bad[d], (R \ bad[d]) \ {w}) # {}
    BY <2>2, <2>3, SmallerGoesInto
  <2>5. left[d] \in R \ bad[d] /\ Injection(bad[d], (R \ bad[d]) \ {left[d]}) # {}
    BY <2>4
  <2>6. into[d] \in Injection(bad[d], (R \ bad[d]) \ {left[d]})
    <3> HIDE DEF left
    <3> QED BY <2>5
  <2> HIDE DEF left, into
  <2> QED BY <2>5, <2>6, Fun_InjectionProperties
<1> HIDE DEF left, into
<1>2. IsFiniteSet(cells) /\ Cardinality(cells) \in Nat
  BY FS_Product, FS_CardinalityType
<1>3. ASSUME NEW x \in marked
      PROVE  x[2] \in C /\ x[1] \in bad[x[2]] /\ x = <<x[1], x[2]>> /\ move[x] = <<into[x[2]][x[1]], x[2]>>
  OBVIOUS
<1>4. move \in [marked -> clean \ {spare}]
  <2> SUFFICES ASSUME NEW x \in marked PROVE <<into[x[2]][x[1]], x[2]>> \in clean \ {spare}
    OBVIOUS
  <2>1. into[x[2]][x[1]] \in (R \ bad[x[2]]) \ {left[x[2]]}
    BY <1>1, <1>3
  <2> QED BY <1>3, <2>1
<1>5. \A x, y \in marked : move[x] = move[y] => x = y
  <2> SUFFICES ASSUME NEW x \in marked, NEW y \in marked, move[x] = move[y] PROVE x = y
    OBVIOUS
  <2>1. x[2] = y[2] /\ into[x[2]][x[1]] = into[y[2]][y[1]]
    BY <1>3
  <2>2. x[1] = y[1]
    BY <1>1, <1>3, <2>1
  <2> QED BY <1>3, <2>1, <2>2
<1>6. spare \in clean
  BY <1>1
<1>7. marked \in SUBSET cells /\ IsFiniteSet(clean \ {spare}) /\ IsFiniteSet(clean) /\ cells \cap marked = marked
  <2>1. marked \in SUBSET cells
    OBVIOUS
  <2> HIDE DEF cells, marked, spare
  <2> QED BY <1>2, <2>1, FS_Difference
<1> HIDE DEF move, marked, cells
<1>8. Cardinality(clean) = Cardinality(cells) - Cardinality(marked)
  BY <1>2, <1>7, FS_Difference
<1>9. Cardinality(clean \ {spare}) = Cardinality(clean) - 1
  <2> HIDE DEF clean, spare
  <2> QED BY <1>6, <1>7, FS_RemoveElement
<1>10. IsFiniteSet(marked) /\ Cardinality(marked) <= Cardinality(clean \ {spare})
  <2> HIDE DEF clean, spare
  <2>1. move \in Injection(marked, clean \ {spare})
    BY <1>4, <1>5, Fun_IsInj
  <2> QED BY <1>7, <2>1, FS_Injection
<1>11. Cardinality(marked) \in Nat
  BY <1>10, FS_CardinalityType
<1>12. 2 * Cardinality(marked) < Cardinality(cells)
  BY <1>2, <1>8, <1>9, <1>10, <1>11
<1> QED BY <1>12 DEF marked, cells

-----------------------------------------------------------------------------
(* The unmarked level of a digit *)
\* Rows of ink: the print of the digits and what the pencil adds.
IsInk(R, C, raw, print, pencil) ==
  /\ IsFiniteSet(R) /\ IsFiniteSet(C) /\ R # {}
  /\ raw \in [R -> [C -> Nat]] /\ print \in [C -> Nat] /\ pencil \in [R -> [C -> Nat]]
  /\ \A i \in R, c \in C : raw[i][c] = print[c] + pencil[i][c]

\* Where a column is not always the darkest, its level is its print.
LEMMA LevelTypical ==
  ASSUME NEW R, NEW C, NEW raw, NEW print, NEW pencil, IsInk(R, C, raw, print, pencil),
         MostlyUnmarked(raw, pencil, C), NEW c \in C, Rest(raw, c) # {}
  PROVE  UnmarkedLevel(raw, C)[c] = print[c]
<1> DEFINE rest == Rest(raw, c)
           f == [i \in rest |-> raw[i][c]]
<1>1. rest \in SUBSET R
  BY DEF Rest, IsInk
<1>2. IsFiniteSet(rest)
  BY <1>1, FS_Subset DEF IsInk
<1>3. UnmarkedLevel(raw, C)[c] = Median(rest, f)
  BY DEF UnmarkedLevel
<1>4. 2 * Cardinality({i \in rest : pencil[i][c] > 0}) < Cardinality(rest)
  BY DEF MostlyUnmarked
<1> HIDE DEF rest
<1>5. f \in [rest -> Nat] /\ print[c] \in Nat /\ \A i \in rest : print[c] <= f[i]
  BY <1>1 DEF IsInk
<1>6. {i \in rest : f[i] # print[c]} = {i \in rest : pencil[i][c] > 0}
  BY <1>1 DEF IsInk
<1> HIDE DEF f
<1>7. Median(rest, f) = print[c]
  BY <1>2, <1>4, <1>5, <1>6, MedianTypical
<1> QED BY <1>3, <1>7

\* Where it is always the darkest, its level is within the print of the others.
LEMMA LevelOfDarkest ==
  ASSUME NEW R, NEW C, NEW raw, NEW print, NEW pencil, IsInk(R, C, raw, print, pencil),
         MostlyUnmarked(raw, pencil, C), NEW c \in C, Rest(raw, c) = {}, NEW e \in C, e # c,
         NEW lo \in Nat, NEW hi \in Nat, \A d \in C : lo <= print[d] /\ print[d] <= hi
  PROVE  LET level == UnmarkedLevel(raw, C)[c] IN level \in Nat /\ lo <= level /\ level <= hi
<1> DEFINE D == C \ {c}
           cells == R \X D
           f == [x \in cells |-> raw[x[1]][x[2]]]
           bad == [d \in D |-> {i \in R : pencil[i][d] > 0}]
           marked == {x \in cells : x[1] \in bad[x[2]]}
           low == cells \ marked
<1>1. DOMAIN raw = R /\ \A i \in R : Strongest(raw[i]) = c
  BY DEF Rest, IsInk
<1>2. {x \in R \X C : Strongest(raw[x[1]]) # x[2]} = cells
  BY <1>1
<1>3. cells # {}
  <2>1. PICK i : i \in R
    BY DEF IsInk
  <2>2. <<i, e>> \in cells
    BY <2>1
  <2> QED BY <2>2
<1>4. UnmarkedLevel(raw, C)[c] = Median(cells, f)
  BY <1>1, <1>2, <1>3 DEF UnmarkedLevel
<1>5. IsFiniteSet(R) /\ IsFiniteSet(D) /\ IsFiniteSet(cells)
  BY FS_Difference, FS_Product DEF IsInk
<1>6. \A d \in D : 2 * Cardinality(bad[d]) < Cardinality(R)
  <2> SUFFICES ASSUME NEW d \in D PROVE 2 * Cardinality({i \in R : pencil[i][d] > 0}) < Cardinality(R)
    OBVIOUS
  <2>1. Rest(raw, d) = R
    BY <1>1 DEF Rest
  <2>2. R # {} /\ d \in C
    BY DEF IsInk
  <2> QED BY <2>1, <2>2 DEF MostlyUnmarked
<1>7. 2 * Cardinality(marked) < Cardinality(cells)
  <2>1. bad \in [D -> SUBSET R] /\ e \in D
    OBVIOUS
  <2> HIDE DEF D, bad
  <2> QED BY <1>5, <1>6, <2>1, MinorityOfAll
<1>8. f \in [cells -> Nat] /\ \A x \in cells : lo <= f[x]
  <2> SUFFICES ASSUME NEW x \in cells PROVE raw[x[1]][x[2]] \in Nat /\ lo <= raw[x[1]][x[2]]
    OBVIOUS
  <2>1. x[1] \in R /\ x[2] \in C
    OBVIOUS
  <2> QED BY <2>1 DEF IsInk
<1>9. \A x \in low : f[x] <= hi
  <2> SUFFICES ASSUME NEW x \in low PROVE raw[x[1]][x[2]] <= hi
    OBVIOUS
  <2>1. x[1] \in R /\ x[2] \in C /\ x[2] \in D
    OBVIOUS
  <2>2. ~(pencil[x[1]][x[2]] > 0)
    BY <2>1
  <2> QED BY <2>1, <2>2 DEF IsInk
<1>10. low \in SUBSET cells /\ cells \ low = marked
  OBVIOUS
<1> HIDE DEF cells, f, low, marked
<1>11. Median(cells, f) \in Nat /\ lo <= Median(cells, f) /\ Median(cells, f) <= hi
  BY <1>5, <1>7, <1>8, <1>9, <1>10, MedianWithin
<1> QED BY <1>4, <1>11

-----------------------------------------------------------------------------
(* Fields *)
\* What is read of a row of the grid: every clear mark, and nothing beside.
LEMMA FieldRead ==
  ASSUME NEW R, NEW C, NEW raw, NEW print, NEW pencil, IsInk(R, C, raw, print, pencil),
         MostlyUnmarked(raw, pencil, C), NEW e \in C, NEW d \in C, d # e, Spread(print) <= Ceiling,
         NEW s \in 1..10, NEW q \in R, Clear(pencil[q], print, Thresholds(s))
  PROVE  Decide(Fills(raw, UnmarkedLevel(raw, C))[q], Thresholds(s)).choices = Pencilled(pencil[q])
<1> DEFINE level == UnmarkedLevel(raw, C)
           fill == Fills(raw, level)[q]
           t == Thresholds(s)
<1>1. PICK lo, hi \in Nat : Spread(print) = hi - lo /\ \A c \in C : lo <= print[c] /\ print[c] <= hi
  <2>1. IsFiniteSet(C) /\ C # {} /\ print \in [C -> Nat]
    BY DEF IsInk
  <2> QED BY <2>1, SpreadIs
<1>2. hi - lo >= 0 /\ hi - lo <= 110
  <2>1. print[e] \in Nat
    BY DEF IsInk
  <2> QED BY <1>1, <2>1 DEF Ceiling
<1>3. t.calibrated /\ t.mark \in 180..288
  BY DEF Thresholds, MarkAt
<1>4. DOMAIN level = C /\ DOMAIN raw = R
  BY DEF UnmarkedLevel, IsInk
<1>5. fill = [c \in C |-> Smaller(1000, Larger(0, raw[q][c] - level[c]))]
  <2> HIDE DEF level
  <2> QED BY <1>4 DEF Fills
<1>6. ASSUME NEW c \in C
      PROVE  /\ level[c] \in Nat /\ (level[c] = print[c] \/ (lo <= level[c] /\ level[c] <= hi))
  <2>1. CASE Rest(raw, c) # {}
    <3>1. print[c] \in Nat
      BY DEF IsInk
    <3> QED BY <2>1, <3>1, LevelTypical
  <2>2. CASE Rest(raw, c) = {}
    <3>1. PICK z \in C : z # c
      OBVIOUS
    <3> QED BY <1>1, <2>2, <3>1, LevelOfDarkest
  <2> QED BY <2>1, <2>2
<1> HIDE DEF level, fill, t
<1>7. ASSUME NEW c \in C
      PROVE  /\ pencil[q][c] > 0 => fill[c] >= t.mark
             /\ ~(pencil[q][c] > 0) => fill[c] <= 110
             /\ fill[c] \in Int
  <2>1. print[c] \in Nat /\ pencil[q][c] \in Nat /\ raw[q][c] = print[c] + pencil[q][c]
    BY DEF IsInk
  <2>2. lo <= print[c] /\ print[c] <= hi
    BY <1>1
  <2>3. fill[c] = Smaller(1000, Larger(0, raw[q][c] - level[c]))
    BY <1>5
  <2>4. ASSUME pencil[q][c] > 0 PROVE pencil[q][c] >= t.mark + (hi - lo)
    <3>1. c \in Pencilled(pencil[q])
      <4>1. DOMAIN pencil[q] = C
        BY DEF IsInk
      <4> QED BY <2>4, <4>1 DEF Pencilled
    <3>2. pencil[q][c] >= t.mark + Spread(print)
      BY <3>1 DEF Clear, t
    <3> QED BY <1>1, <3>2
  <2>5. level[c] \in Nat /\ (level[c] = print[c] \/ (lo <= level[c] /\ level[c] <= hi))
    BY <1>6
  <2> DEFINE p == print[c]
             l == level[c]
             w == pencil[q][c]
             m == t.mark
  <2>6. p \in Nat /\ l \in Nat /\ w \in Nat /\ m \in 180..288 /\ fill[c] = Smaller(1000, Larger(0, (p + w) - l))
    BY <1>3, <2>1, <2>3, <2>5
  <2>7. (l = p \/ (lo <= l /\ l <= hi)) /\ lo <= p /\ p <= hi /\ (w > 0 => w >= m + (hi - lo))
    BY <2>2, <2>4, <2>5
  <2> HIDE DEF p, l, w, m
  <2>8. w > 0 => (p + w) - l >= m
    BY <1>2, <2>6, <2>7
  <2>9. ~(w > 0) => (p + w) - l <= 110
    BY <1>2, <2>6, <2>7
  <2>10. (w > 0 => fill[c] >= m) /\ (~(w > 0) => fill[c] <= 110) /\ fill[c] \in Int
    BY <2>6, <2>8, <2>9 DEF Smaller, Larger
  <2> QED BY <2>10 DEF w, m
<1>8. Marked(fill, t) = Pencilled(pencil[q]) /\ Gray(fill, t) = {}
  <2>1. DOMAIN fill = C /\ DOMAIN pencil[q] = C /\ t.mark \in Int /\ t.mark > 110
    BY <1>3, <1>5 DEF IsInk
  <2> QED BY <1>7, <2>1 DEF Marked, Gray, Pencilled, Ceiling
<1>9. Decide(fill, t).choices = Marked(fill, t) \union Gray(fill, t)
  BY <1>3 DEF Decide
<1>10. Decide(fill, t).choices = Pencilled(pencil[q])
  BY <1>8, <1>9
<1> QED BY <1>10 DEF fill, level, t

-----------------------------------------------------------------------------
(* The ink of a sheet *)
\* Rows and columns can be counted from the other end.
Reversible(S) == IsFiniteSet(S) /\ S # {} /\ \A i \in S : Opposite(S, i) \in S

\* The digits of a grid as they lie in the image.
Laid(x, print, C) == [j \in C |-> IF Turned(x) THEN print[Opposite(C, j)] ELSE print[j]]

LEMMA Ends ==
  ASSUME NEW a \in Nat, NEW b \in Nat, a <= b
  PROVE  Largest(a..b) = b /\ Least(a..b) = a
<1>1. a \in a..b /\ b \in a..b /\ (\A k \in a..b : k <= b) /\ (\A k \in a..b : a <= k)
  OBVIOUS
<1>2. Largest(a..b) \in a..b /\ \A k \in a..b : k <= Largest(a..b)
  BY <1>1 DEF Largest
<1>3. Least(a..b) \in a..b /\ \A k \in a..b : Least(a..b) <= k
  BY <1>1 DEF Least
<1> QED BY <1>1, <1>2, <1>3

LEMMA IntervalReversible ==
  ASSUME NEW a \in Nat, NEW b \in Nat, a <= b
  PROVE  Reversible(a..b) /\ \A i \in a..b : Opposite(a..b, i) = b + a - i
<1>1. ASSUME NEW i \in a..b PROVE Opposite(a..b, i) = b + a - i
  BY Ends DEF Opposite
<1>2. ASSUME NEW i \in a..b PROVE b + a - i \in a..b
  OBVIOUS
<1>3. a \in a..b
  OBVIOUS
<1>4. IsFiniteSet(a..b)
  BY FS_Interval
<1> QED BY <1>1, <1>2, <1>3, <1>4 DEF Reversible

Upright(x, p, pencil, R, C) ==
  /\ Ink(x, p, pencil, R, C) \in [R -> [C -> Nat]]
  /\ \A i \in R, j \in C : Ink(x, p, pencil, R, C)[i][j] = p[j] + pencil[i][j]

LEMMA InkUpright ==
  ASSUME NEW x, ~Turned(x), NEW R, NEW C, NEW p \in [C -> Nat], NEW pencil \in [R -> [C -> Nat]]
  PROVE  Upright(x, p, pencil, R, C)
<1> DEFINE row(i) == [j \in C |-> p[j] + pencil[i][j]]
<1>1. Ink(x, p, pencil, R, C) = [i \in R |-> row(i)]
  BY DEF Ink
<1>2. ASSUME NEW i \in R PROVE row(i) \in [C -> Nat] /\ \A j \in C : row(i)[j] = p[j] + pencil[i][j]
  <2>1. pencil[i] \in [C -> Nat]
    OBVIOUS
  <2> QED BY <2>1
<1> HIDE DEF row
<1> QED BY <1>1, <1>2 DEF Upright

LEMMA InkTurned ==
  ASSUME NEW x, Turned(x), NEW R, NEW C, Reversible(R), Reversible(C),
         NEW p \in [C -> Nat], NEW pencil \in [R -> [C -> Nat]]
  PROVE  /\ Ink(x, p, pencil, R, C) \in [R -> [C -> Nat]]
         /\ \A i \in R, j \in C :
              Ink(x, p, pencil, R, C)[i][j] = p[Opposite(C, j)] + pencil[Opposite(R, i)][Opposite(C, j)]
<1> DEFINE row(i) == [j \in C |-> p[Opposite(C, j)] + pencil[Opposite(R, i)][Opposite(C, j)]]
<1>1. Ink(x, p, pencil, R, C) = [i \in R |-> row(i)]
  BY DEF Ink
<1>2. ASSUME NEW i \in R
      PROVE  /\ row(i) \in [C -> Nat]
             /\ \A j \in C : row(i)[j] = p[Opposite(C, j)] + pencil[Opposite(R, i)][Opposite(C, j)]
  <2>1. pencil[Opposite(R, i)] \in [C -> Nat]
    BY DEF Reversible
  <2>2. \A j \in C : p[Opposite(C, j)] \in Nat /\ pencil[Opposite(R, i)][Opposite(C, j)] \in Nat
    BY <2>1 DEF Reversible
  <2> QED BY <2>2
<1> HIDE DEF row
<1>3. \A i \in R, j \in C : row(i)[j] = p[Opposite(C, j)] + pencil[Opposite(R, i)][Opposite(C, j)]
  BY <1>2
<1>4. [i \in R |-> row(i)] \in [R -> [C -> Nat]]
  BY <1>2
<1> QED BY <1>1, <1>3, <1>4

LEMMA InkIs ==
  ASSUME NEW x, NEW R, NEW C, Reversible(R), Reversible(C),
         NEW print \in [C -> Nat], NEW pencil \in [R -> [C -> Nat]]
  PROVE  /\ IsInk(R, C, Ink(x, print, pencil, R, C), Laid(x, print, C), Ink(x, NoPrint(C), pencil, R, C))
         /\ ~Turned(x) => Ink(x, NoPrint(C), pencil, R, C) = pencil /\ Laid(x, print, C) = print
<1>2. NoPrint(C) \in [C -> Nat] /\ \A j \in C : NoPrint(C)[j] = 0
  BY DEF NoPrint
<1> DEFINE raw == Ink(x, print, pencil, R, C)
           added == Ink(x, NoPrint(C), pencil, R, C)
           laid == Laid(x, print, C)
<1>3. CASE Turned(x)
  <2>3. laid = [j \in C |-> print[Opposite(C, j)]]
    BY <1>3 DEF Laid
  <2>4. raw \in [R -> [C -> Nat]] /\ \A i \in R, j \in C : raw[i][j] = print[Opposite(C, j)] + pencil[Opposite(R, i)][Opposite(C, j)]
    BY <1>3, InkTurned
  <2>5. /\ added \in [R -> [C -> Nat]]
        /\ \A i \in R, j \in C : added[i][j] = NoPrint(C)[Opposite(C, j)] + pencil[Opposite(R, i)][Opposite(C, j)]
    BY <1>2, <1>3, InkTurned
  <2> HIDE DEF raw, added, laid
  <2>6. laid \in [C -> Nat] /\ \A j \in C : laid[j] = print[Opposite(C, j)]
    BY <2>3 DEF Reversible
  <2>7. ASSUME NEW i \in R, NEW j \in C PROVE raw[i][j] = laid[j] + added[i][j]
    <3>1. Opposite(C, j) \in C /\ Opposite(R, i) \in R
      BY DEF Reversible
    <3>2. pencil[Opposite(R, i)] \in [C -> Nat]
      BY <3>1
    <3>3. pencil[Opposite(R, i)][Opposite(C, j)] \in Nat
      BY <3>1, <3>2
    <3>4. NoPrint(C)[Opposite(C, j)] = 0
      BY <1>2, <3>1
    <3>5. added[i][j] = pencil[Opposite(R, i)][Opposite(C, j)]
      BY <2>5, <3>3, <3>4
    <3> QED BY <2>4, <2>6, <3>5
  <2>8. IsInk(R, C, raw, laid, added)
    BY <2>4, <2>5, <2>6, <2>7 DEF IsInk, Reversible
  <2> QED BY <1>3, <2>8 DEF raw, added, laid
<1>4. CASE ~Turned(x)
  <2>1. laid = print
    <3>1. laid = [j \in C |-> print[j]]
      BY <1>4 DEF Laid
    <3> HIDE DEF laid
    <3> QED BY <3>1
  <2>2. raw \in [R -> [C -> Nat]] /\ \A i \in R, j \in C : raw[i][j] = print[j] + pencil[i][j]
    <3>1. \A p \in [C -> Nat], w \in [R -> [C -> Nat]] : Upright(x, p, w, R, C)
      BY <1>4, InkUpright
    <3>2. Upright(x, print, pencil, R, C)
      BY <3>1
    <3> QED BY <3>2 DEF Upright
  <2>3. added \in [R -> [C -> Nat]] /\ \A i \in R, j \in C : added[i][j] = NoPrint(C)[j] + pencil[i][j]
    <3>1. \A p \in [C -> Nat], w \in [R -> [C -> Nat]] : Upright(x, p, w, R, C)
      BY <1>4, InkUpright
    <3>2. Upright(x, NoPrint(C), pencil, R, C)
      BY <1>2, <3>1
    <3> QED BY <3>2 DEF Upright
  <2> HIDE DEF raw, added, laid
  <2>4. ASSUME NEW i \in R PROVE added[i] = pencil[i]
    <3>1. added[i] \in [C -> Nat] /\ pencil[i] \in [C -> Nat]
      BY <2>3
    <3>2. ASSUME NEW j \in C PROVE added[i][j] = pencil[i][j]
      <4>1. pencil[i][j] \in Nat
        BY <3>1
      <4> QED BY <1>2, <2>3, <4>1
    <3> QED BY <3>1, <3>2
  <2>5. added = pencil
    BY <2>3, <2>4
  <2>6. IsInk(R, C, raw, laid, added)
    BY <2>1, <2>2, <2>5 DEF IsInk, Reversible
  <2> QED BY <2>1, <2>5, <2>6 DEF raw, added, laid
<1> QED BY <1>3, <1>4

-----------------------------------------------------------------------------
(* The fields of a page *)
SeenStatus == {"NORMAL", "BLANK", "MULTIPLE", "UNCERTAIN"}

\* Fields as a record accepts them.
FieldOf(C) == {f \in [choices : SUBSET C, status : SeenStatus] : Sized(f)}

LEMMA DecideIs ==
  ASSUME NEW C, IsFiniteSet(C), NEW fill, DOMAIN fill = C, NEW s \in 1..10
  PROVE  Decide(fill, Thresholds(s)) \in FieldOf(C)
<1> DEFINE t == Thresholds(s)
           marks == Marked(fill, t)
           gray == Gray(fill, t)
           f == Decide(fill, t)
<1>1. t.calibrated
  BY DEF Thresholds
<1>2. marks \in SUBSET C /\ gray \in SUBSET C
  BY DEF Marked, Gray
<1>3. f = [choices |-> marks \union gray,
           status  |-> CASE gray # {}      -> "UNCERTAIN"
                         [] gray = {} /\ marks = {} -> "BLANK"
                         [] gray = {} /\ Cardinality(marks) = 1 -> "NORMAL"
                         [] gray = {} /\ Cardinality(marks) > 1 ->
                              IF Uneven(fill, marks) THEN "UNCERTAIN" ELSE "MULTIPLE"]
  BY <1>1 DEF Decide
<1> HIDE DEF marks, gray, f, t
<1>4. IsFiniteSet(marks) /\ Cardinality(marks) \in Nat
  BY <1>2, FS_Subset, FS_CardinalityType
<1>5. marks = {} <=> Cardinality(marks) = 0
  BY <1>4, FS_EmptySet
<1>6. CASE gray # {}
  <2>1. f = [choices |-> marks \union gray, status |-> "UNCERTAIN"]
    BY <1>3, <1>6
  <2> QED BY <1>2, <2>1 DEF FieldOf, SeenStatus, Sized, f, t
<1>7. CASE gray = {} /\ marks = {}
  <2>1. f = [choices |-> marks \union gray, status |-> "BLANK"]
    BY <1>3, <1>5, <1>7
  <2> QED BY <1>2, <1>7, <2>1 DEF FieldOf, SeenStatus, Sized, f, t
<1>8. CASE gray = {} /\ Cardinality(marks) = 1
  <2>1. f = [choices |-> marks, status |-> "NORMAL"]
    BY <1>3, <1>5, <1>8
  <2> QED BY <1>2, <1>8, <2>1 DEF FieldOf, SeenStatus, Sized, f, t
<1>9. CASE gray = {} /\ Cardinality(marks) > 1
  <2>1. f = [choices |-> marks, status |-> "UNCERTAIN"] \/ f = [choices |-> marks, status |-> "MULTIPLE"]
    BY <1>3, <1>5, <1>9
  <2> QED BY <1>2, <1>9, <2>1 DEF FieldOf, SeenStatus, Sized, f, t
<1>10. gray # {} \/ (gray = {} /\ marks = {}) \/ (gray = {} /\ Cardinality(marks) = 1)
         \/ (gray = {} /\ Cardinality(marks) > 1)
  BY <1>4, <1>5
<1> QED BY <1>6, <1>7, <1>8, <1>9, <1>10

\* What is withheld keeps its choices and is not confirmed.
LEMMA WithheldIfIs ==
  ASSUME NEW I, NEW C, NEW fields \in [I -> FieldOf(C)], NEW bad
  PROVE  /\ WithheldIf(fields, bad) \in [I -> FieldOf(C)]
         /\ \A i \in I : /\ WithheldIf(fields, bad)[i].choices = fields[i].choices
                         /\ i \in bad => WithheldIf(fields, bad)[i].status = "UNCERTAIN"
<1> DEFINE kept == WithheldIf(fields, bad)
<1>1. kept = [i \in I |-> IF i \in bad THEN Withheld(fields[i]) ELSE fields[i]]
  BY DEF WithheldIf
<1>2. ASSUME NEW f \in FieldOf(C)
      PROVE  /\ Withheld(f) \in FieldOf(C) /\ Withheld(f).choices = f.choices
             /\ Withheld(f).status = "UNCERTAIN"
  <2>1. f \in [choices : SUBSET C, status : SeenStatus] /\ Sized(f)
    BY DEF FieldOf
  <2>2. CASE f.status = "UNCERTAIN"
    <3>1. Withheld(f) = f
      BY <2>2 DEF Withheld
    <3> QED BY <2>2, <3>1
  <2>3. CASE f.status # "UNCERTAIN"
    <3>1. Withheld(f) = [f EXCEPT !.status = "UNCERTAIN"]
      BY <2>1, <2>3 DEF Withheld, SeenStatus
    <3>2. /\ Withheld(f) \in [choices : SUBSET C, status : SeenStatus]
          /\ Withheld(f).choices = f.choices /\ Withheld(f).status = "UNCERTAIN"
      BY <2>1, <3>1 DEF SeenStatus
    <3> HIDE DEF Withheld
    <3>3. Sized(Withheld(f))
      BY <3>2 DEF Sized
    <3> QED BY <3>2, <3>3 DEF FieldOf
  <2> QED BY <2>2, <2>3
<1> HIDE DEF kept
<1> QED BY <1>1, <1>2 DEF kept

\* The grids of the form.
LEMMA FormGrids == Reversible(Question) /\ Reversible(Choice) /\ Reversible(Column) /\ Reversible(Digit)
<1>1. {FormQuestions, FormChoices, Columns, IdDigits} \subseteq Nat \ {0}
  BY ReadingAssumption
<1>2. \A n \in Nat \ {0} : Reversible(1..n) /\ Reversible(0..n - 1)
  BY IntervalReversible
<1> QED BY <1>1, <1>2 DEF Question, Choice, Column, Digit

\* The measures of a sheet are those of its grids.
LEMMA Measures ==
  ASSUME NEW x \in Sheets
  PROVE  LET m == Measured(x) IN
         /\ m.raw = Ink(x, x.print, x.pencil, Question, Choice)
         /\ m.idraw = Ink(x, x.idprint, x.idpencil, Column, Digit)
         /\ m.level = UnmarkedLevel(m.raw, Choice)
         /\ m.answers = Fills(m.raw, UnmarkedLevel(m.raw, Choice))
         /\ m.ids = Fills(m.idraw, UnmarkedLevel(m.idraw, Digit))
         /\ \A q \in Question : DOMAIN m.answers[q] = Choice
         /\ \A k \in Column : DOMAIN m.ids[k] = Digit
<1> DEFINE raw == Ink(x, x.print, x.pencil, Question, Choice)
           idraw == Ink(x, x.idprint, x.idpencil, Column, Digit)
           level == UnmarkedLevel(raw, Choice)
           idlevel == UnmarkedLevel(idraw, Digit)
<1>1. DOMAIN raw = Question /\ DOMAIN idraw = Column
  BY DEF Ink
<1>2. DOMAIN level = Choice /\ DOMAIN idlevel = Digit
  BY DEF UnmarkedLevel
<1>3. Measured(x) = [raw |-> raw, idraw |-> idraw, level |-> level,
                     answers |-> Fills(raw, level), ids |-> Fills(idraw, idlevel)]
  BY DEF Measured
<1> HIDE DEF raw, idraw, level, idlevel
<1>4. \A q \in Question : DOMAIN Fills(raw, level)[q] = Choice
  BY <1>1, <1>2 DEF Fills
<1>5. \A k \in Column : DOMAIN Fills(idraw, idlevel)[k] = Digit
  BY <1>1, <1>2 DEF Fills
<1> QED BY <1>3, <1>4, <1>5 DEF raw, idraw, level, idlevel

\* The answers of a page, and why they may be withheld.
LEMMA AnswersAre ==
  ASSUME NEW x \in Sheets, NEW s \in 1..10
  PROVE  LET m == Measured(x)
             t == Thresholds(s)
             answers == AnswersRead(x, m, t)
         IN /\ DOMAIN answers = 1..MaxQuestions
            /\ \A q \in Question :
                 /\ answers[q] \in FieldOf(Choice)
                 /\ answers[q].choices = Decide(m.answers[q], t).choices
                 /\ Distrusted(x, m, t) => answers[q].status = "UNCERTAIN"
            /\ \A q \in (1..MaxQuestions) \ Question : answers[q] = Unasked
<1> DEFINE m == Measured(x)
           t == Thresholds(s)
           first == [q \in Question |-> Decide(m.answers[q], t)]
           covered == CoveredAnswers(x, m, t)
           bad == IF Distrusted(x, m, t) THEN Question
                  ELSE FaintAnswers(covered, m.answers, Usual(covered, m.answers))
           read == WithheldIf(covered, bad)
           answers == AnswersRead(x, m, t)
<1>1. first \in [Question -> FieldOf(Choice)]
  <2>1. \A q \in Question : DOMAIN m.answers[q] = Choice
    BY Measures
  <2>2. IsFiniteSet(Choice)
    BY FormGrids DEF Reversible
  <2> HIDE DEF m
  <2>3. ASSUME NEW q \in Question PROVE Decide(m.answers[q], t) \in FieldOf(Choice)
    BY <2>1, <2>2, DecideIs
  <2> QED BY <2>3
<1>2. covered = WithheldIf(first, x.cut)
  BY DEF CoveredAnswers
<1>3. answers = [q \in 1..MaxQuestions |-> IF q \in Question THEN read[q] ELSE Unasked]
  BY DEF AnswersRead
<1>4. Distrusted(x, m, t) => bad = Question
  OBVIOUS
<1>5. \A q \in Question : first[q] = Decide(m.answers[q], t)
  OBVIOUS
<1> HIDE DEF m, t, first, covered, bad, answers
<1>6. covered \in [Question -> FieldOf(Choice)] /\ \A q \in Question : covered[q].choices = first[q].choices
  BY <1>1, <1>2, WithheldIfIs
<1>7. /\ read \in [Question -> FieldOf(Choice)]
      /\ \A q \in Question : read[q].choices = covered[q].choices /\ (q \in bad => read[q].status = "UNCERTAIN")
  BY <1>6, WithheldIfIs
<1>8. Question \subseteq 1..MaxQuestions
  BY ReadingAssumption DEF Question
<1> HIDE DEF read
<1> QED BY <1>3, <1>4, <1>5, <1>6, <1>7, <1>8 DEF m, t, answers

\* The columns of the student ID, likewise.
LEMMA ColumnsAre ==
  ASSUME NEW x \in Sheets, NEW s \in 1..10
  PROVE  LET m == Measured(x)
             t == Thresholds(s)
             cells == ColumnsRead(x, m, t)
         IN /\ cells \in [Column -> FieldOf(Digit)]
            /\ \A k \in Column :
                 /\ cells[k].choices = Decide(m.ids[k], t).choices
                 /\ Distrusted(x, m, t) => cells[k].status = "UNCERTAIN"
<1> DEFINE m == Measured(x)
           t == Thresholds(s)
           first == [k \in Column |-> Decide(m.ids[k], t)]
           covered == CoveredColumns(x, m, t)
           bad == IF Distrusted(x, m, t) THEN Column
                  ELSE FaintColumns(covered, m.ids, Usual(CoveredAnswers(x, m, t), m.answers))
           cells == ColumnsRead(x, m, t)
<1>1. first \in [Column -> FieldOf(Digit)]
  <2>1. \A k \in Column : DOMAIN m.ids[k] = Digit
    BY Measures
  <2>2. IsFiniteSet(Digit)
    BY FormGrids DEF Reversible
  <2> HIDE DEF m
  <2>3. ASSUME NEW k \in Column PROVE Decide(m.ids[k], t) \in FieldOf(Digit)
    BY <2>1, <2>2, DecideIs
  <2> QED BY <2>3
<1>2. covered = WithheldIf(first, x.idcut)
  BY DEF CoveredColumns
<1>3. cells = WithheldIf(covered, bad)
  BY DEF ColumnsRead
<1>4. Distrusted(x, m, t) => bad = Column
  OBVIOUS
<1>5. \A k \in Column : first[k] = Decide(m.ids[k], t)
  OBVIOUS
<1> HIDE DEF m, t, first, covered, bad, cells
<1>6. covered \in [Column -> FieldOf(Digit)] /\ \A k \in Column : covered[k].choices = first[k].choices
  BY <1>1, <1>2, WithheldIfIs
<1>7. /\ cells \in [Column -> FieldOf(Digit)]
      /\ \A k \in Column : cells[k].choices = covered[k].choices /\ (k \in bad => cells[k].status = "UNCERTAIN")
  BY <1>3, <1>6, WithheldIfIs
<1> QED BY <1>4, <1>5, <1>6, <1>7 DEF m, t, cells

-----------------------------------------------------------------------------
(* What is read is what was pencilled *)
\* The ink of the two grids of a sheet.
LEMMA SheetInk ==
  ASSUME NEW x \in Sheets
  PROVE  LET m == Measured(x)
             added == Ink(x, NoPrint(Choice), x.pencil, Question, Choice)
             idadded == Ink(x, NoPrint(Digit), x.idpencil, Column, Digit)
         IN /\ IsInk(Question, Choice, m.raw, Laid(x, x.print, Choice), added)
            /\ IsInk(Column, Digit, m.idraw, Laid(x, x.idprint, Digit), idadded)
            /\ ~Turned(x) => /\ added = x.pencil /\ Laid(x, x.print, Choice) = x.print
                             /\ idadded = x.idpencil /\ Laid(x, x.idprint, Digit) = x.idprint
<1>1. /\ x.print \in [Choice -> Nat] /\ x.pencil \in [Question -> [Choice -> Nat]]
      /\ x.idprint \in [Digit -> Nat] /\ x.idpencil \in [Column -> [Digit -> Nat]]
  BY SheetsAssumption DEF IsSheet
<1>2. /\ Measured(x).raw = Ink(x, x.print, x.pencil, Question, Choice)
      /\ Measured(x).idraw = Ink(x, x.idprint, x.idpencil, Column, Digit)
  BY Measures
<1>3. /\ IsInk(Question, Choice, Ink(x, x.print, x.pencil, Question, Choice), Laid(x, x.print, Choice), Ink(x, NoPrint(Choice), x.pencil, Question, Choice))
      /\ ~Turned(x) => Ink(x, NoPrint(Choice), x.pencil, Question, Choice) = x.pencil /\ Laid(x, x.print, Choice) = x.print
  <2> DEFINE print == x.print
             pencil == x.pencil
  <2>1. print \in [Choice -> Nat] /\ pencil \in [Question -> [Choice -> Nat]] /\ Reversible(Question) /\ Reversible(Choice)
    BY <1>1, FormGrids
  <2> HIDE DEF print, pencil
  <2>2. IsInk(Question, Choice, Ink(x, print, pencil, Question, Choice), Laid(x, print, Choice), Ink(x, NoPrint(Choice), pencil, Question, Choice))
    BY <2>1, InkIs
  <2>3. ~Turned(x) => Ink(x, NoPrint(Choice), pencil, Question, Choice) = pencil /\ Laid(x, print, Choice) = print
    BY <2>1, InkIs
  <2> QED BY <2>2, <2>3 DEF print, pencil
<1>4. /\ IsInk(Column, Digit, Ink(x, x.idprint, x.idpencil, Column, Digit), Laid(x, x.idprint, Digit), Ink(x, NoPrint(Digit), x.idpencil, Column, Digit))
      /\ ~Turned(x) => Ink(x, NoPrint(Digit), x.idpencil, Column, Digit) = x.idpencil /\ Laid(x, x.idprint, Digit) = x.idprint
  <2> DEFINE print == x.idprint
             pencil == x.idpencil
  <2>1. print \in [Digit -> Nat] /\ pencil \in [Column -> [Digit -> Nat]] /\ Reversible(Column) /\ Reversible(Digit)
    BY <1>1, FormGrids
  <2> HIDE DEF print, pencil
  <2>2. IsInk(Column, Digit, Ink(x, print, pencil, Column, Digit), Laid(x, print, Digit), Ink(x, NoPrint(Digit), pencil, Column, Digit))
    BY <2>1, InkIs
  <2>3. ~Turned(x) => Ink(x, NoPrint(Digit), pencil, Column, Digit) = pencil /\ Laid(x, print, Digit) = print
    BY <2>1, InkIs
  <2> QED BY <2>2, <2>3 DEF print, pencil
<1> QED BY <1>2, <1>3, <1>4

\* A sheet the right way up: every clear mark of a question, and no other.
LEMMA AnswersPencilled ==
  ASSUME NEW x \in Sheets, ~Turned(x), NEW s \in 1..10, AnswersOrdinary(x, Measured(x)),
         NEW q \in Question, Clear(x.pencil[q], x.print, Thresholds(s))
  PROVE  Decide(Measured(x).answers[q], Thresholds(s)).choices = Pencilled(x.pencil[q])
<1> DEFINE raw == Measured(x).raw
<1>1. IsInk(Question, Choice, raw, x.print, x.pencil) /\ MostlyUnmarked(raw, x.pencil, Choice)
  BY SheetInk DEF AnswersOrdinary
<1>2. 1 \in Choice /\ 2 \in Choice /\ 1 # 2
  BY ReadingAssumption DEF Choice
<1>3. Spread(x.print) <= Ceiling
  BY SheetsAssumption DEF IsSheet
<1>4. Measured(x).answers = Fills(raw, UnmarkedLevel(raw, Choice))
  BY Measures
<1> HIDE DEF raw
<1>5. Decide(Fills(raw, UnmarkedLevel(raw, Choice))[q], Thresholds(s)).choices = Pencilled(x.pencil[q])
  BY <1>1, <1>2, <1>3, FieldRead
<1> QED BY <1>4, <1>5

\* Likewise every clear mark of a column of the student ID.
LEMMA IdPencilled ==
  ASSUME NEW x \in Sheets, ~Turned(x), NEW s \in 1..10, IdOrdinary(x, Measured(x)),
         NEW k \in Column, Clear(x.idpencil[k], x.idprint, Thresholds(s))
  PROVE  Decide(Measured(x).ids[k], Thresholds(s)).choices = Pencilled(x.idpencil[k])
<1> DEFINE raw == Measured(x).idraw
<1>1. IsInk(Column, Digit, raw, x.idprint, x.idpencil) /\ MostlyUnmarked(raw, x.idpencil, Digit)
  BY SheetInk DEF IdOrdinary
<1>2. 0 \in Digit /\ 1 \in Digit /\ 0 # 1
  BY ReadingAssumption DEF Digit
<1>3. Spread(x.idprint) <= Ceiling
  BY SheetsAssumption DEF IsSheet
<1>4. Measured(x).ids = Fills(raw, UnmarkedLevel(raw, Digit))
  BY Measures
<1> HIDE DEF raw
<1>5. Decide(Fills(raw, UnmarkedLevel(raw, Digit))[k], Thresholds(s)).choices = Pencilled(x.idpencil[k])
  BY <1>1, <1>2, <1>3, FieldRead
<1> QED BY <1>4, <1>5

\* A turned sheet on which the first and last printed digit can be told is seen to be turned.
LEMMA TurnedIsSeen ==
  ASSUME NEW x \in Sheets, Turned(x), AnswersOrdinary(x, Measured(x)), ShowsItsTop(x, Measured(x))
  PROVE  UpsideDown(Measured(x))
<1> DEFINE m == Measured(x)
           raw == m.raw
           added == Ink(x, NoPrint(Choice), x.pencil, Question, Choice)
           laid == Laid(x, x.print, Choice)
<1>1. IsInk(Question, Choice, raw, laid, added) /\ MostlyUnmarked(raw, added, Choice)
  BY SheetInk DEF AnswersOrdinary
<1>2. 1 \in Choice /\ FormChoices \in Choice /\ FormChoices \in Nat /\ 1 <= FormChoices
  BY ReadingAssumption DEF Choice
<1>3. Opposite(Choice, 1) = FormChoices /\ Opposite(Choice, FormChoices) = 1
  <2>1. \A i \in 1..FormChoices : Opposite(1..FormChoices, i) = FormChoices + 1 - i
    BY <1>2, IntervalReversible
  <2>2. Opposite(Choice, 1) = FormChoices + 1 - 1 /\ Opposite(Choice, FormChoices) = FormChoices + 1 - FormChoices
    BY <1>2, <2>1 DEF Choice
  <2> QED BY <1>2, <2>2
<1>4. laid[1] = x.print[FormChoices] /\ laid[FormChoices] = x.print[1]
  BY <1>2, <1>3 DEF Laid
<1>5. m.level = UnmarkedLevel(raw, Choice)
  BY Measures
<1>6. Rest(raw, 1) # {} /\ Rest(raw, FormChoices) # {} /\ x.print[FormChoices] - x.print[1] > 10
  BY DEF ShowsItsTop
<1> HIDE DEF m, raw, added, laid
<1>7. UnmarkedLevel(raw, Choice)[1] = laid[1] /\ UnmarkedLevel(raw, Choice)[FormChoices] = laid[FormChoices]
  BY <1>1, <1>2, <1>6, LevelTypical
<1> QED BY <1>4, <1>5, <1>6, <1>7 DEF UpsideDown, m

-----------------------------------------------------------------------------
(* The scan *)
\* The record on the screen is that of the sheet, as the settings say.
ReadingInv ==
  /\ sheet \in Sheets /\ ink = Measured(sheet) /\ sensitivity \in 1..10
  /\ page # Nothing => page = RecognizePage(sheet, ink, Thresholds(sensitivity))

LEMMA ReadingInvHolds == ReadingSpec => []ReadingInv
<1>1. ReadingInit => ReadingInv
  BY DEF ReadingInit, ReadingInv
<1>2. ReadingInv /\ [ReadingNext]_reading => ReadingInv'
  <2> SUFFICES ASSUME ReadingInv, [ReadingNext]_reading PROVE ReadingInv'
    OBVIOUS
  <2>1. ASSUME NEW s \in Sensitivities, Scan(s) PROVE ReadingInv'
    <3>1. s \in 1..10
      BY ReadingAssumption
    <3> QED BY <2>1, <3>1 DEF Scan, ReadingInv
  <2>2. CASE UNCHANGED reading
    BY <2>2 DEF reading, ReadingInv
  <2> QED BY <2>1, <2>2 DEF ReadingNext
<1> QED BY <1>1, <1>2, PTL DEF ReadingSpec

\* A page that was read is what recognition makes of the sheet.
LEMMA ReadPage ==
  ASSUME ReadingInv, Read
  PROVE  page = Processed(sheet, ink, Thresholds(sensitivity))
<1>1. page = RecognizePage(sheet, ink, Thresholds(sensitivity)) /\ page.status # "UNPROCESSABLE"
  BY DEF ReadingInv, Read
<1>2. \A e : Failed(e).status = "UNPROCESSABLE"
  BY DEF Failed
<1> QED BY <1>1, <1>2 DEF RecognizePage

\* What is confirmed is what the student pencilled, however dark the digits under it
\* are printed and whichever way the sheet was fed (recognition/grid_reader.py).
THEOREM ReadsPencilHolds == ReadingSpec => []ReadsPencil
<1>1. ReadingInv => ReadsPencil
  <2> DEFINE x == sheet
             m == ink
             t == Thresholds(sensitivity)
             answers == AnswersRead(x, m, t)
             cells == ColumnsRead(x, m, t)
  <2> SUFFICES ASSUME ReadingInv, Read
               PROVE  /\ (AnswersOrdinary(x, m) /\ (page.turned => ShowsItsTop(x, m))) =>
                           \A q \in Question : Clear(x.pencil[q], x.print, t) =>
                             ((~page.turned \/ page.answers[q].status # "UNCERTAIN")
                               => page.answers[q].choices = Pencilled(x.pencil[q]))
                      /\ (IdOrdinary(x, m) /\ ShowsItsTop(x, m) /\ AnswersOrdinary(x, m)
                           /\ page.id.status = "NORMAL") =>
                           \A k \in Column : Clear(x.idpencil[k], x.idprint, t) =>
                             page.id.cells[k].choices = Pencilled(x.idpencil[k])
    BY DEF ReadsPencil
  <2>1. x \in Sheets /\ m = Measured(x) /\ sensitivity \in 1..10
    BY DEF ReadingInv
  <2>2. page = Processed(x, m, t)
    BY ReadPage
  <2>3. /\ page.turned = Turned(x) /\ page.answers = answers
        /\ page.id.cells = cells /\ (page.id.status = "NORMAL" => \A k \in Column : cells[k].status = "NORMAL")
    BY <2>2 DEF Processed, StudentId
  <2>4. \A q \in Question : /\ answers[q].choices = Decide(m.answers[q], t).choices
                            /\ Distrusted(x, m, t) => answers[q].status = "UNCERTAIN"
    BY <2>1, AnswersAre
  <2>5. \A k \in Column : /\ cells[k].choices = Decide(m.ids[k], t).choices
                          /\ Distrusted(x, m, t) => cells[k].status = "UNCERTAIN"
    BY <2>1, ColumnsAre
  <2>6. Turned(x) /\ AnswersOrdinary(x, m) /\ ShowsItsTop(x, m) => Distrusted(x, m, t)
    BY <2>1, TurnedIsSeen DEF Distrusted
  <2>7. ASSUME AnswersOrdinary(x, m), ~Turned(x), NEW q \in Question, Clear(x.pencil[q], x.print, t)
        PROVE  Decide(m.answers[q], t).choices = Pencilled(x.pencil[q])
    BY <2>1, <2>7, AnswersPencilled
  <2>8. ASSUME IdOrdinary(x, m), ~Turned(x), NEW k \in Column, Clear(x.idpencil[k], x.idprint, t)
        PROVE  Decide(m.ids[k], t).choices = Pencilled(x.idpencil[k])
    BY <2>1, <2>8, IdPencilled
  <2>9. 1 \in Column
    BY ReadingAssumption DEF Column
  <2> HIDE DEF t, answers, cells
  <2>10. ASSUME AnswersOrdinary(x, m), page.turned => ShowsItsTop(x, m), NEW q \in Question,
                Clear(x.pencil[q], x.print, t), ~page.turned \/ page.answers[q].status # "UNCERTAIN"
         PROVE  page.answers[q].choices = Pencilled(x.pencil[q])
    <3>1. ~Turned(x)
      BY <2>3, <2>4, <2>6, <2>10
    <3> QED BY <2>3, <2>4, <2>7, <2>10, <3>1
  <2>11. ASSUME IdOrdinary(x, m), ShowsItsTop(x, m), AnswersOrdinary(x, m), page.id.status = "NORMAL",
                NEW k \in Column, Clear(x.idpencil[k], x.idprint, t)
         PROVE  page.id.cells[k].choices = Pencilled(x.idpencil[k])
    <3>1. ~Turned(x)
      <4>1. cells[1].status = "NORMAL"
        BY <2>3, <2>9, <2>11
      <4> QED BY <2>5, <2>6, <2>9, <2>11, <4>1
    <3> QED BY <2>3, <2>5, <2>8, <2>11, <3>1
  <2> QED BY <2>10, <2>11
<1> QED BY <1>1, ReadingInvHolds, PTL

\* The record of a page can always be saved and read back (domain/models.py).
THEOREM RecordHoldsAlways == ReadingSpec => []RecordHolds
<1>1. ReadingInv => RecordHolds
  <2> SUFFICES ASSUME ReadingInv, page # Nothing PROVE PageRecord(page)
    BY DEF RecordHolds
  <2> DEFINE t == Thresholds(sensitivity)
  <2>1. sheet \in Sheets /\ ink = Measured(sheet) /\ sensitivity \in 1..10
    BY DEF ReadingInv
  <2>2. page = RecognizePage(sheet, ink, t)
    BY DEF ReadingInv
  <2>3. ASSUME NEW e \in ReadErrors, page = Failed(e) PROVE PageRecord(page)
    <3>1. e # Nothing
      BY SheetsAssumption
    <3> QED BY <2>3, <3>1 DEF PageRecord, Failed, IdRecord
  <2>4. CASE page = Processed(sheet, ink, t)
    <3> DEFINE answers == AnswersRead(sheet, ink, t)
               cells == ColumnsRead(sheet, ink, t)
               id == StudentId(cells, t)
    <3>1. /\ page.status \in {"PROCESSED", "NEEDS_MANUAL_REVIEW"} /\ page.error = Nothing
          /\ page.turned = Turned(sheet) /\ page.answers = answers /\ page.id = id
      BY <2>4 DEF Processed
    <3>2. Turned(sheet) \in BOOLEAN
      BY DEF Turned
    <3>3. /\ DOMAIN answers = 1..MaxQuestions
          /\ \A q \in Question : answers[q] \in FieldOf(Choice)
          /\ \A q \in (1..MaxQuestions) \ Question : answers[q] = Unasked
      BY <2>1, AnswersAre
    <3>4. cells \in [Column -> FieldOf(Digit)]
      BY <2>1, ColumnsAre
    <3>5. id.cells = cells /\ (id.status = "INVALID" \/ (id.status = "NORMAL" /\ \A k \in Column : cells[k].status = "NORMAL"))
      BY DEF StudentId
    <3>6. AnswerRecord(Unasked)
      BY DEF AnswerRecord, Unasked, Sized
    <3>7. \A a \in FieldOf(Choice) : AnswerRecord(a)
      BY DEF FieldOf, SeenStatus, AnswerRecord
    <3>8. \A c \in FieldOf(Digit) : ColumnRecord(c)
      BY DEF FieldOf, SeenStatus, ColumnRecord
    <3> HIDE DEF answers, cells, id
    <3>9. \A q \in 1..MaxQuestions : AnswerRecord(answers[q])
      BY <3>3, <3>6, <3>7
    <3>10. IdRecord(id)
      <4>1. DOMAIN id.cells = Column /\ \A k \in Column : ColumnRecord(id.cells[k])
        BY <3>4, <3>5, <3>8
      <4>2. ASSUME id.status = "NORMAL"
            PROVE  \E n \in Column : /\ \A k \in 1 .. n : id.cells[k].status = "NORMAL"
                                     /\ \A k \in n + 1 .. Columns : id.cells[k].status = "BLANK"
        <5>1. Columns \in Column /\ Columns \in Nat /\ ~\E k \in Columns + 1 .. Columns : TRUE
          BY ReadingAssumption DEF Column
        <5>2. \A k \in 1 .. Columns : id.cells[k].status = "NORMAL"
          BY <3>5, <4>2 DEF Column
        <5> QED BY <5>1, <5>2
      <4> QED BY <3>5, <4>1, <4>2 DEF IdRecord
    <3>11. id.status # "UNREADABLE"
      BY <3>5
    <3> QED BY <3>1, <3>2, <3>3, <3>9, <3>10, <3>11 DEF PageRecord
  <2>5. (\E e \in ReadErrors : page = Failed(e)) \/ page = Processed(sheet, ink, t)
    BY <2>2 DEF RecognizePage, ReadErrors
  <2> QED BY <2>3, <2>4, <2>5
<1> QED BY <1>1, ReadingInvHolds, PTL

-----------------------------------------------------------------------------
(* The form the pages are read with *)

\* A finite set of naturals.
Places(S) == S \in SUBSET Nat /\ IsFiniteSet(S)

\* There is a first one.
LEMMA FirstOf ==
  ASSUME NEW S, Places(S), S # {}
  PROVE  \E i \in S : \A j \in S : i <= j
BY LeastOf DEF Places

\* What is there most often is there.
LEMMA MostCommonIs ==
  ASSUME NEW S, Places(S), S # {}, NEW values, DOMAIN values = S
  PROVE  \E i \in S : MostCommon(values) = values[i]
<1> DEFINE times == [i \in S |-> Times(values, values[i])]
<1>1. ASSUME NEW v PROVE Times(values, v) \in Nat
  <2>1. {i \in S : values[i] = v} \in SUBSET S
    OBVIOUS
  <2> QED BY <2>1, FS_Subset, FS_CardinalityType DEF Times, Places
<1>2. times \in [S -> Nat]
  BY <1>1
<1>3. PICK top \in S : \A j \in S : times[j] <= times[top]
  <2> HIDE DEF times
  <2> QED BY <1>2, LargestOf DEF Places
<1> DEFINE often == {i \in S : times[i] = times[top]}
<1>4. Places(often) /\ often # {}
  BY FS_Subset DEF Places
<1>5. PICK i \in often : \A j \in often : i <= j
  <2> HIDE DEF often, times
  <2> QED BY <1>4, FirstOf
<1>6. \A j \in S : \/ Times(values, values[j]) < Times(values, values[i])
                   \/ Times(values, values[j]) = Times(values, values[i]) /\ i <= j
  <2> TAKE j \in S
  <2>1. times[j] <= times[i] /\ times[j] \in Nat /\ times[i] \in Nat /\ (times[j] = times[i] => i <= j)
    <3> HIDE DEF times
    <3> QED BY <1>2, <1>3, <1>5
  <2> QED BY <2>1
<1> HIDE DEF often, times
<1> DEFINE ThatIs(k) == \A j \in S : \/ Times(values, values[j]) < Times(values, values[k])
                                     \/ Times(values, values[j]) = Times(values, values[k]) /\ k <= j
<1>7. i \in S /\ ThatIs(i)
  BY <1>5, <1>6 DEF often
<1> HIDE DEF ThatIs
<1>8. (CHOOSE k \in S : ThatIs(k)) \in S
  BY <1>7
<1> QED BY <1>8 DEF MostCommon, ThatIs

\* A form or a layout has the rows of a print.
Made(x) == x.print \in Prints /\ x.first \in [Blocks(x.print) -> Nat]

\* What the pages that show a form look like.
Shaped(pages, shapes) ==
  /\ Len(pages) \in Nat /\ DOMAIN pages = 1 .. Len(pages)
  /\ Found(pages) # {} /\ DOMAIN shapes = Found(pages)
  /\ \A i \in Found(pages) : Made(shapes[i]) /\ shapes[i].print = pages[i].print

LEMMA PrintRows ==
  ASSUME NEW p \in Prints
  PROVE  /\ IsFiniteSet(Blocks(p)) /\ Blocks(p) = 1 .. Len(BlockRows[p]) /\ Len(BlockRows[p]) \in Nat
         /\ \A b \in Blocks(p) : BlockRows[p][b] \in Nat
<1>1. BlockRows[p] \in Seq(Nat)
  BY FormAssumption
<1>2. Blocks(p) = 1 .. Len(BlockRows[p]) /\ Len(BlockRows[p]) \in Nat
  BY <1>1, LenProperties DEF Blocks
<1>3. \A b \in Blocks(p) : BlockRows[p][b] \in Nat
  BY <1>1, <1>2, ElementOfSeq
<1> QED BY <1>2, <1>3, FS_Interval

\* Of one print, the numbers of rows tell which rows count.
LEMMA SameRows ==
  ASSUME NEW x, NEW y, Made(x), Made(y), x.print = y.print, Signature(x) = Signature(y)
  PROVE  x.first = y.first
<1>1. \A b \in Blocks(x.print) : Rows(x, b) = Rows(y, b)
  BY DEF Signature
<1>2. \A b \in Blocks(x.print) : x.first[b] = y.first[b]
  <2> TAKE b \in Blocks(x.print)
  <2> DEFINE u == x.first[b]
             v == y.first[b]
             n == BlockRows[x.print][b]
  <2>1. u \in Nat /\ v \in Nat /\ n \in Nat
    BY PrintRows DEF Made
  <2>2. n - u + 1 = n - v + 1
    BY <1>1 DEF Rows
  <2> HIDE DEF u, v, n
  <2>3. u = v
    BY <2>1, <2>2
  <2> QED BY <2>3 DEF u, v
<1> QED BY <1>2 DEF Made

LEMMA FirstSome ==
  ASSUME NEW n \in Nat
  PROVE  IsFiniteSet(1 .. n) /\ Cardinality(1 .. n) = n
<1>1. n \in Int /\ 1 \in Int
  OBVIOUS
<1>2. IsFiniteSet(1 .. n) /\ Cardinality(1 .. n) = IF 1 > n THEN 0 ELSE n - 1 + 1
  BY <1>1, FS_Interval
<1> QED BY <1>2

LEMMA PlacesFound ==
  ASSUME NEW pages, NEW shapes, Shaped(pages, shapes)
  PROVE  /\ Places(DOMAIN shapes) /\ DOMAIN shapes = Found(pages) /\ Found(pages) \subseteq DOMAIN pages
         /\ IsFiniteSet(DOMAIN pages) /\ Cardinality(DOMAIN pages) = Len(pages)
<1>1. IsFiniteSet(1 .. Len(pages)) /\ Cardinality(1 .. Len(pages)) = Len(pages)
  <2>1. Len(pages) \in Nat
    BY DEF Shaped
  <2> QED BY <2>1, FirstSome
<1>2. Found(pages) \in SUBSET (1 .. Len(pages))
  BY DEF Shaped, Found
<1>3. IsFiniteSet(Found(pages))
  BY <1>1, <1>2, FS_Subset
<1> QED BY <1>1, <1>2, <1>3 DEF Shaped, Places

\* Some pages have the common structure.
LEMMA CommonIs ==
  ASSUME NEW pages, NEW shapes, Shaped(pages, shapes)
  PROVE  /\ Places(Group(shapes)) /\ Group(shapes) # {} /\ Group(shapes) \subseteq Found(pages)
         /\ \A i \in Found(pages) : i \in Group(shapes) <=> Signature(shapes[i]) = Common(shapes)
<1>1. Places(DOMAIN shapes) /\ DOMAIN shapes = Found(pages) /\ Found(pages) # {}
  BY PlacesFound DEF Shaped
<1>2. DOMAIN Signatures(shapes) = DOMAIN shapes
  BY DEF Signatures
<1>3. PICK i \in DOMAIN shapes : MostCommon(Signatures(shapes)) = Signatures(shapes)[i]
  BY <1>1, <1>2, MostCommonIs
<1>4. i \in Group(shapes)
  BY <1>3 DEF Group, Common, Signatures
<1>5. Group(shapes) \in SUBSET DOMAIN shapes
  BY DEF Group
<1>6. Places(Group(shapes))
  BY <1>1, <1>5, FS_Subset DEF Places
<1> QED BY <1>1, <1>4, <1>5, <1>6 DEF Group

\* A form is made of the rings of a page of the common structure.
LEMMA ProfileIs ==
  ASSUME NEW pages, NEW shapes, Shaped(pages, shapes)
  PROVE  \E i \in Group(shapes) : BuildProfile(shapes) = [print |-> shapes[i].print, first |-> shapes[i].first]
<1> DEFINE chosen == Group(shapes)
           prints == [i \in chosen |-> shapes[i].print]
           agreeing == {i \in chosen : shapes[i].print = MostCommon(prints)}
<1>1. Places(chosen) /\ chosen # {}
  BY CommonIs
<1>2. DOMAIN prints = chosen
  OBVIOUS
<1>3. PICK k \in chosen : MostCommon(prints) = prints[k]
  <2> HIDE DEF chosen, prints
  <2> QED BY <1>1, <1>2, MostCommonIs
<1>4. k \in agreeing
  BY <1>3
<1> DEFINE i == CHOOSE j \in agreeing : TRUE
<1>5. i \in agreeing
  <2> HIDE DEF agreeing
  <2> QED BY <1>4
<1>6. BuildProfile(shapes) = [print |-> MostCommon(prints), first |-> shapes[i].first]
  BY DEF BuildProfile
<1> HIDE DEF i
<1>7. i \in chosen /\ shapes[i].print = MostCommon(prints)
  BY <1>5
<1> QED BY <1>6, <1>7

LEMMA ProfileMade ==
  ASSUME NEW pages, NEW shapes, Shaped(pages, shapes)
  PROVE  /\ Made(BuildProfile(shapes)) /\ Signature(BuildProfile(shapes)) = Common(shapes)
         /\ \E i \in Group(shapes) : pages[i].print = BuildProfile(shapes).print
         /\ Shape(BuildProfile(shapes)) = BuildProfile(shapes)
<1>1. PICK i \in Group(shapes) : BuildProfile(shapes) = [print |-> shapes[i].print, first |-> shapes[i].first]
  BY ProfileIs
<1>2. i \in Found(pages) /\ Signature(shapes[i]) = Common(shapes)
  BY CommonIs
<1>3. Made(shapes[i]) /\ shapes[i].print = pages[i].print
  BY <1>2 DEF Shaped
<1> DEFINE p == shapes[i].print
           f == shapes[i].first
<1>4. BuildProfile(shapes) = [print |-> p, first |-> f]
  BY <1>1
<1>5. BuildProfile(shapes).print = p /\ BuildProfile(shapes).first = f
  BY <1>4
<1>6. Made(BuildProfile(shapes))
  BY <1>3, <1>5 DEF Made
<1>7. Signature(BuildProfile(shapes)) = Signature(shapes[i])
  BY <1>5 DEF Signature, Rows
<1>8. Shape(BuildProfile(shapes)) = BuildProfile(shapes)
  BY <1>4, <1>5 DEF Shape
<1> QED BY <1>2, <1>3, <1>5, <1>6, <1>7, <1>8

\* The form is tried on some of its pages.
LEMMA CheckedIs ==
  ASSUME NEW pages, NEW shapes, Shaped(pages, shapes)
  PROVE  /\ CheckedPages(shapes, BuildProfile(shapes)) \subseteq Group(shapes)
         /\ CheckedPages(shapes, BuildProfile(shapes)) # {}
         /\ IsFiniteSet(CheckedPages(shapes, BuildProfile(shapes)))
         /\ {i \in DOMAIN shapes : Signature(shapes[i]) = Signature(BuildProfile(shapes))} = Group(shapes)
<1> DEFINE group == Group(shapes)
           checked == {i \in group : Cardinality({j \in group : j < i}) < MatchPages}
<1>1. {i \in DOMAIN shapes : Signature(shapes[i]) = Signature(BuildProfile(shapes))} = group
  BY ProfileMade DEF Group
<1>2. CheckedPages(shapes, BuildProfile(shapes)) = checked
  BY <1>1 DEF CheckedPages
<1>3. Places(group) /\ group # {}
  BY CommonIs
<1> HIDE DEF group
<1>4. PICK i \in group : \A j \in group : i <= j
  BY <1>3, FirstOf
<1>5. \A j \in group : ~(j < i)
  <2> TAKE j \in group
  <2>1. i \in Nat /\ j \in Nat /\ i <= j
    BY <1>3, <1>4 DEF Places
  <2> QED BY <2>1
<1>6. i \in checked
  <2>1. {j \in group : j < i} = {}
    BY <1>5
  <2>2. 0 < MatchPages
    BY FormAssumption
  <2>3. Cardinality({j \in group : j < i}) = 0
    BY <2>1, FS_EmptySet
  <2> QED BY <2>2, <2>3
<1>7. IsFiniteSet(checked)
  BY <1>3, FS_Subset DEF Places
<1> QED BY <1>1, <1>2, <1>6, <1>7 DEF group

LEMMA SavedIs ==
  ASSUME saved \in Seq(Form), NEW n \in DOMAIN saved
  PROVE  n \in Nat /\ n # NoForm /\ Made(saved[n]) /\ Made(Shape(saved[n]))
         /\ Signature(Shape(saved[n])) = Signature(saved[n])
<1>1. n \in 1 .. Len(saved) /\ Len(saved) \in Nat
  BY LenProperties
<1>2. saved[n] \in Form
  BY <1>1, ElementOfSeq
<1>3. saved[n].print \in Prints /\ saved[n].first \in Seq(Nat) /\ DOMAIN saved[n].first = Blocks(saved[n].print)
  BY <1>2 DEF Form
<1> DEFINE x == saved[n]
<1> HIDE DEF x
<1>4. x.print \in Prints /\ x.first \in Seq(Nat) /\ DOMAIN x.first = Blocks(x.print)
  BY <1>3 DEF x
<1>5. x.first \in [Blocks(x.print) -> Nat]
  <2>1. x.first \in [1 .. Len(x.first) -> Nat] /\ DOMAIN x.first = 1 .. Len(x.first)
    BY <1>4, LenProperties
  <2> QED BY <1>4, <2>1
<1>6. Shape(x).print = x.print /\ Shape(x).first = x.first
  BY DEF Shape
<1>7. Made(x) /\ Made(Shape(x))
  BY <1>4, <1>5, <1>6 DEF Made
<1>8. Signature(Shape(x)) = Signature(x)
  BY <1>6 DEF Signature, Rows
<1>9. n # NoForm
  BY <1>1, FormAssumption
<1> QED BY <1>1, <1>7, <1>8, <1>9 DEF x

\* A saved form that fits the pages is the form they make.
LEMMA MatchingIs ==
  ASSUME NEW pages, NEW shapes, Shaped(pages, shapes), saved \in Seq(Form),
         NEW form, form = BuildProfile(shapes), NEW checked, checked = CheckedPages(shapes, form),
         3 * Cardinality({i \in checked : Fits(pages[i], form)}) >= 2 * Cardinality(checked),
         NEW n \in MatchingProfiles(pages, form, checked)
  PROVE  Shape(saved[n]) = form /\ n \in DOMAIN saved /\ n # NoForm
<1> DEFINE trusted == {i \in checked : Fits(pages[i], form)}
<1>1. IsFiniteSet(checked) /\ checked # {}
  BY CheckedIs
<1>2. Cardinality(checked) \in Nat /\ Cardinality(checked) # 0
  BY <1>1, FS_CardinalityType, FS_EmptySet
<1>3. trusted # {}
  <2> SUFFICES ASSUME trusted = {} PROVE FALSE
    OBVIOUS
  <2>1. Cardinality(trusted) = 0
    BY FS_EmptySet
  <2> QED BY <1>2, <2>1
<1>4. PICK i \in trusted : TRUE
  BY <1>3
<1>5. /\ n \in DOMAIN saved /\ Signature(saved[n]) = Signature(form)
      /\ pages[i].print = saved[n].print /\ pages[i].print = form.print
  BY <1>4 DEF MatchingProfiles, Fits
<1>6. n # NoForm /\ Made(saved[n])
  BY <1>5, SavedIs
<1>7. Made(form) /\ Shape(form) = form
  BY ProfileMade
<1>8. saved[n].first = form.first
  BY <1>5, <1>6, <1>7, SameRows
<1>9. Shape(saved[n]) = Shape(form)
  BY <1>5, <1>8 DEF Shape
<1> QED BY <1>5, <1>6, <1>7, <1>9

\* What these shapes make is the form of their most common structure, new or saved.
LEMMA CandidateIs ==
  ASSUME NEW pages, NEW shapes, Shaped(pages, shapes), saved \in Seq(Form),
         NEW c \in Candidates(pages, shapes), c.result = "form"
  PROVE  LET form == BuildProfile(shapes)
             fitting == MatchingProfiles(pages, form, CheckedPages(shapes, form))
         IN /\ c.form = form /\ c.matching = Cardinality(Group(shapes))
            /\ (c.name = NoForm) = (fitting = {})
<1> DEFINE form == BuildProfile(shapes)
           checked == CheckedPages(shapes, form)
           trusted == {i \in checked : Fits(pages[i], form)}
           fitting == MatchingProfiles(pages, form, checked)
           matching == Cardinality({i \in DOMAIN shapes : Signature(shapes[i]) = Signature(form)})
           Candidate(name) == [result |-> "form", matching |-> matching, name |-> name,
                               form |-> IF name = NoForm THEN form ELSE Shape(saved[name])]
           names == IF fitting = {} THEN {NoForm} ELSE fitting
<1>1. Candidates(pages, shapes) =
        IF ~Supported(form) THEN {[result |-> "unsupported"]}
        ELSE IF 3 * Cardinality(trusted) < 2 * Cardinality(checked) THEN {[result |-> "unfit"]}
        ELSE {Candidate(n) : n \in names}
  BY DEF Candidates
<1>2. matching = Cardinality(Group(shapes))
  BY CheckedIs
<1>3. Cardinality(trusted) \in Nat /\ Cardinality(checked) \in Nat
  <2>1. IsFiniteSet(checked)
    BY CheckedIs
  <2> HIDE DEF checked
  <2>2. IsFiniteSet(trusted)
    BY <2>1, FS_Subset
  <2> QED BY <2>1, <2>2, FS_CardinalityType
<1>4. [result |-> "unsupported"].result # "form" /\ [result |-> "unfit"].result # "form"
  OBVIOUS
<1>5. ~(3 * Cardinality(trusted) < 2 * Cardinality(checked)) /\ c \in {Candidate(n) : n \in names}
  <2> HIDE DEF form, checked, trusted, fitting, matching, names
  <2> QED BY <1>1, <1>4
<1>6. \A n \in fitting : Shape(saved[n]) = form /\ n # NoForm
  <2>1. 3 * Cardinality(trusted) >= 2 * Cardinality(checked)
    <3> HIDE DEF trusted, checked
    <3> QED BY <1>3, <1>5
  <2> QED BY <2>1, MatchingIs
<1>7. PICK n \in names : c = Candidate(n)
  BY <1>5
<1>8. c.form = (IF n = NoForm THEN form ELSE Shape(saved[n])) /\ c.matching = matching /\ c.name = n
  <2> HIDE DEF form, matching
  <2> QED BY <1>7
<1> HIDE DEF form, fitting, matching
<1>9. c.form = form /\ c.matching = matching /\ (c.name = NoForm) = (fitting = {})
  BY <1>6, <1>8
<1> QED BY <1>2, <1>9 DEF form, fitting

\* What the sample pages look like, as printed and without the rows taken for headers.
Printed(pages) == [i \in Found(pages) |-> DetectLayout(pages[i])]

Trimmed(pages) == DropUnmarkedHeaderRows(pages, Printed(pages))

Headers(pages) == HeaderBlocks(pages, Printed(pages))

\* Sample pages that show a form.
ShowsForm(pages) == pages \in Batches /\ Found(pages) # {}

LEMMA FirstNumberedIs ==
  ASSUME NEW leaf, leaf.print \in Prints, NEW b \in Blocks(leaf.print)
  PROVE  /\ FirstNumbered(leaf, b) \in {1, 2}
         /\ FirstNumbered(leaf, b) = 2 => b \in Labels[leaf.print]
BY DEF FirstNumbered

LEMMA PrintedIs ==
  ASSUME NEW pages, ShowsForm(pages)
  PROVE  /\ Shaped(pages, Printed(pages))
         /\ \A i \in Found(pages) :
              /\ IsPage(pages[i]) /\ pages[i].print \in Prints /\ Printed(pages)[i].print = pages[i].print
              /\ Printed(pages)[i] = DetectLayout(pages[i])
              /\ \A b \in Blocks(pages[i].print) : Printed(pages)[i].first[b] = FirstNumbered(pages[i], b)
<1>1. /\ Len(pages) \in Nat /\ DOMAIN pages = 1 .. Len(pages)
      /\ \A i \in DOMAIN pages : IsPage(pages[i])
  BY PagesAssumption DEF ShowsForm
<1>2. ASSUME NEW i \in Found(pages)
      PROVE  /\ IsPage(pages[i]) /\ pages[i].print \in Prints /\ Printed(pages)[i].print = pages[i].print
             /\ Printed(pages)[i] = DetectLayout(pages[i]) /\ Made(Printed(pages)[i])
             /\ \A b \in Blocks(pages[i].print) : Printed(pages)[i].first[b] = FirstNumbered(pages[i], b)
  <2> DEFINE leaf == pages[i]
  <2>1. IsPage(leaf) /\ leaf.print \in Prints
    BY <1>1 DEF Found, IsPage
  <2>2. Printed(pages)[i] = DetectLayout(leaf)
    BY DEF Printed
  <2> HIDE DEF leaf
  <2>3. DetectLayout(leaf).print = leaf.print
        /\ DetectLayout(leaf).first = [b \in Blocks(leaf.print) |-> FirstNumbered(leaf, b)]
    BY DEF DetectLayout
  <2>4. Made(DetectLayout(leaf))
    BY <2>1, <2>3, FirstNumberedIs DEF Made
  <2> QED BY <2>1, <2>2, <2>3, <2>4 DEF leaf
<1>3. DOMAIN Printed(pages) = Found(pages)
  BY DEF Printed
<1> QED BY <1>1, <1>2, <1>3 DEF Shaped, ShowsForm

\* Header rows are rows of the form that none of its pages marks.
LEMMA HeadersAre ==
  ASSUME NEW pages, ShowsForm(pages)
  PROVE  /\ IsFiniteSet(Headers(pages)) /\ Cardinality(Headers(pages)) \in Nat
         /\ (Cardinality(Headers(pages)) = 0) = (Headers(pages) = {})
         /\ \A i \in Group(Printed(pages)) :
              /\ Headers(pages) \subseteq Blocks(pages[i].print)
              /\ \A b \in Headers(pages) : RowMark(pages[i], Printed(pages)[i], b, 1) = "plain"
<1> DEFINE shapes == Printed(pages)
           group == Group(shapes)
           common == Common(shapes).blocks
           Plain(b) == {i \in group : RowMark(pages[i], shapes[i], b, 1) = "plain"}
<1>1. Shaped(pages, shapes) /\ \A i \in Found(pages) : shapes[i].print = pages[i].print /\ pages[i].print \in Prints
  BY PrintedIs
<1>2. group # {} /\ \A i \in group : i \in Found(pages) /\ Signature(shapes[i]) = Common(shapes)
  BY <1>1, CommonIs
<1>3. \A b \in Headers(pages) : b \in DOMAIN common /\ Plain(b) = group
  BY DEF Headers, HeaderBlocks
<1>4. \A i \in group : DOMAIN common = Blocks(pages[i].print)
  <2> TAKE i \in group
  <2>1. Signature(shapes[i]).blocks = common /\ shapes[i].print = pages[i].print
    BY <1>1, <1>2
  <2> QED BY <2>1 DEF Signature
<1>5. PICK i \in group : TRUE
  BY <1>2
<1>6. IsFiniteSet(DOMAIN common)
  BY <1>1, <1>2, <1>4, <1>5, PrintRows
<1>7. Headers(pages) \in SUBSET DOMAIN common
  BY <1>3
<1>8. IsFiniteSet(Headers(pages))
  <2> HIDE DEF common
  <2> QED BY <1>6, <1>7, FS_Subset
<1> QED BY <1>3, <1>4, <1>7, <1>8, FS_CardinalityType, FS_EmptySet

LEMMA TrimmedIs ==
  ASSUME NEW pages, ShowsForm(pages)
  PROVE  /\ Shaped(pages, Trimmed(pages))
         /\ \A i \in Found(pages) :
              \A b \in Blocks(pages[i].print) :
                Trimmed(pages)[i].first[b] =
                  FirstNumbered(pages[i], b) + IF i \in Group(Printed(pages)) /\ b \in Headers(pages) THEN 1 ELSE 0
<1> DEFINE group == Group(Printed(pages))
           headers == Headers(pages)
<1>1. Shaped(pages, Printed(pages))
  BY PrintedIs
<1>2. ASSUME NEW i \in Found(pages)
      PROVE  /\ Made(Trimmed(pages)[i]) /\ Trimmed(pages)[i].print = pages[i].print
             /\ \A b \in Blocks(pages[i].print) :
                  Trimmed(pages)[i].first[b] =
                    FirstNumbered(pages[i], b) + IF i \in group /\ b \in headers THEN 1 ELSE 0
  <2> DEFINE leaf == pages[i]
             p == leaf.print
             f == [b \in Blocks(p) |-> FirstNumbered(leaf, b)]
             layout == [print |-> p, first |-> f]
             g == [b \in Blocks(p) |-> f[b] + IF b \in headers THEN 1 ELSE 0]
  <2>1. Trimmed(pages)[i] = IF i \in group THEN WithoutFirstRows(Printed(pages)[i], headers) ELSE Printed(pages)[i]
    BY <1>1 DEF Trimmed, DropUnmarkedHeaderRows, Shaped, Headers
  <2>2. p \in Prints /\ Printed(pages)[i] = layout
    BY PrintedIs DEF DetectLayout
  <2>3. WithoutFirstRows(layout, headers) = [print |-> p, first |-> g]
    <3> HIDE DEF p, headers
    <3>1. DOMAIN f = Blocks(p)
      OBVIOUS
    <3> HIDE DEF f
    <3>2. layout.first = f /\ [layout EXCEPT !.first = g] = [print |-> p, first |-> g]
      <4> HIDE DEF g
      <4> QED OBVIOUS
    <3> HIDE DEF layout
    <3> QED BY <3>1, <3>2 DEF WithoutFirstRows
  <2>4. Trimmed(pages)[i] = [print |-> p, first |-> IF i \in group THEN g ELSE f]
    <3> HIDE DEF p, f, g, headers, group
    <3> QED BY <2>1, <2>2, <2>3
  <2>5. \A b \in Blocks(p) : FirstNumbered(leaf, b) \in Nat
    BY <2>2, FirstNumberedIs
  <2> DEFINE h == IF i \in group THEN g ELSE f
  <2>6. h \in [Blocks(p) -> Nat]
        /\ \A b \in Blocks(p) : h[b] = FirstNumbered(leaf, b) + IF i \in group /\ b \in headers THEN 1 ELSE 0
    <3> HIDE DEF p, headers, group
    <3> QED BY <2>5
  <2>7. Trimmed(pages)[i].print = p /\ Trimmed(pages)[i].first = h
    <3> HIDE DEF p, h
    <3> QED BY <2>4 DEF h
  <2> HIDE DEF h
  <2> QED BY <2>2, <2>6, <2>7 DEF Made
<1>3. DOMAIN Trimmed(pages) = Found(pages)
  BY <1>1 DEF Trimmed, DropUnmarkedHeaderRows, Shaped
<1> QED BY <1>1, <1>2, <1>3 DEF Shaped

\* No page marks a row that its layout leaves out.
LEMMA UnmarkedAbove ==
  ASSUME NEW pages, ShowsForm(pages), NEW shapes \in {Printed(pages), Trimmed(pages)},
         NEW i \in Found(pages), NEW b \in Blocks(pages[i].print), NEW r \in 1 .. 2, r < shapes[i].first[b]
  PROVE  r \notin pages[i].marked[b]
<1> DEFINE leaf == pages[i]
           top == FirstNumbered(leaf, b)
<1>1. leaf.print \in Prints /\ IsPage(leaf) /\ Printed(pages)[i].first[b] = top
  BY PrintedIs
<1>2. top \in {1, 2} /\ (top = 2 => b \in Labels[leaf.print])
  BY <1>1, FirstNumberedIs
<1>3. leaf.print # NoForm
  BY DEF Found
<1>4. b \in Labels[leaf.print] => 1 \notin leaf.marked[b]
  BY <1>1, <1>3 DEF IsPage
<1>5. CASE r < top
  BY <1>2, <1>4, <1>5
<1>6. CASE ~(r < top)
  <2>1. shapes = Trimmed(pages)
    BY <1>1, <1>6
  <2>2. shapes[i].first[b] = top + IF i \in Group(Printed(pages)) /\ b \in Headers(pages) THEN 1 ELSE 0
    BY <2>1, TrimmedIs
  <2>3. r = top /\ i \in Group(Printed(pages)) /\ b \in Headers(pages)
    <3> HIDE DEF top
    <3> QED BY <1>2, <1>6, <2>2
  <2>4. RowMark(leaf, Printed(pages)[i], b, 1) = "plain"
    BY <2>3, HeadersAre
  <2>5. top + 1 - 1 = top
    BY <1>2
  <2> QED BY <1>1, <2>3, <2>4, <2>5 DEF RowMark
<1> QED BY <1>5, <1>6

\* The saved forms that would be taken for the form of these shapes.
Fitting(pages, shapes) ==
  LET form == BuildProfile(shapes) IN MatchingProfiles(pages, form, CheckedPages(shapes, form))

\* What is shown: the form as printed with a saved one, the form without headers, or, with
\* no headers, a new form as printed.
ShownAs(d, pages, shapes) ==
  /\ d.form = BuildProfile(shapes) /\ d.matching = Cardinality(Group(shapes)) /\ d.checked = Len(pages)

LEMMA DecisionIs ==
  ASSUME NEW pages, pages \in Batches, pages # <<>>, saved \in Seq(Form),
         NEW d \in DecideForm(pages, Printed(pages)), d.result = "form"
  PROVE  /\ Found(pages) # {}
         /\ \/ /\ ShownAs(d, pages, Printed(pages)) /\ d.name # NoForm
               /\ d.unmarked = Cardinality(Headers(pages))
            \/ /\ ShownAs(d, pages, Trimmed(pages)) /\ Headers(pages) # {}
               /\ (d.name = NoForm) = (Fitting(pages, Trimmed(pages)) = {})
               /\ d.name = NoForm => HeaderRowsNote(d)
            \/ /\ ShownAs(d, pages, Printed(pages)) /\ Headers(pages) = {}
               /\ d.name = NoForm /\ Fitting(pages, Printed(pages)) = {}
<1> DEFINE printed == Candidates(pages, Printed(pages))
           trimmed == Candidates(pages, Trimmed(pages))
           dropped == Cardinality(Headers(pages))
           Left(c) == IF IsSaved(c) THEN 0 ELSE dropped
           saves == \E c \in printed : IsSaved(c)
<1>1. DecideForm(pages, Printed(pages)) =
        IF Found(pages) = {} THEN {[result |-> "not found"]}
        ELSE IF saves THEN {Detection(c, pages, 0, dropped) : c \in printed}
        ELSE IF dropped > 0 THEN {Detection(c, pages, Left(c), 0) : c \in trimmed}
        ELSE {Detection(c, pages, 0, 0) : c \in printed}
  BY DEF DecideForm, Headers, Trimmed
<1>2. Found(pages) # {}
  <2>1. [result |-> "not found"].result # "form"
    OBVIOUS
  <2> HIDE DEF printed, trimmed, dropped, saves
  <2> QED BY <1>1, <2>1
<1>3. ShowsForm(pages) /\ Shaped(pages, Printed(pages)) /\ Shaped(pages, Trimmed(pages))
  BY <1>2, PrintedIs, TrimmedIs DEF ShowsForm
<1>4. dropped \in Nat /\ (dropped = 0) = (Headers(pages) = {})
  BY <1>3, HeadersAre
<1>5. ASSUME NEW c, NEW m, NEW n, d = Detection(c, pages, m, n)
      PROVE  /\ c.result = "form" /\ d.form = c.form /\ d.name = c.name /\ d.matching = c.matching
             /\ d.checked = Len(pages) /\ d.dropped = m /\ d.unmarked = n
  <2>1. c.result = "form"
    BY <1>5 DEF Detection
  <2> DEFINE f == c.form
             a == c.name
             g == c.matching
             l == Len(pages)
  <2>2. d = [result |-> "form", form |-> f, name |-> a, matching |-> g, checked |-> l, dropped |-> m, unmarked |-> n]
    BY <1>5, <2>1 DEF Detection
  <2> HIDE DEF f, a, g, l
  <2>3. d.form = f /\ d.name = a /\ d.matching = g /\ d.checked = l /\ d.dropped = m /\ d.unmarked = n
    BY <2>2
  <2> QED BY <2>1, <2>3 DEF f, a, g, l
<1>6. ASSUME NEW c \in printed, c.result = "form"
      PROVE  /\ c.form = BuildProfile(Printed(pages)) /\ c.matching = Cardinality(Group(Printed(pages)))
             /\ (c.name = NoForm) = (Fitting(pages, Printed(pages)) = {})
  BY <1>3, <1>6, CandidateIs DEF Fitting
<1>7. ASSUME NEW c \in trimmed, c.result = "form"
      PROVE  /\ c.form = BuildProfile(Trimmed(pages)) /\ c.matching = Cardinality(Group(Trimmed(pages)))
             /\ (c.name = NoForm) = (Fitting(pages, Trimmed(pages)) = {})
  BY <1>3, <1>7, CandidateIs DEF Fitting
<1> HIDE DEF printed, trimmed, dropped
<1>8. CASE saves
  <2>1. PICK c \in printed : d = Detection(c, pages, 0, dropped)
    BY <1>1, <1>2, <1>8
  <2>2. PICK e \in printed : IsSaved(e)
    BY <1>8
  <2>3. Fitting(pages, Printed(pages)) # {}
    BY <1>6, <2>2 DEF IsSaved
  <2>4. c.result = "form" /\ d.name = c.name /\ d.form = c.form /\ d.matching = c.matching /\ d.checked = Len(pages)
        /\ d.unmarked = dropped
    BY <1>5, <2>1
  <2>5. ShownAs(d, pages, Printed(pages)) /\ d.name # NoForm
    BY <1>6, <2>3, <2>4 DEF ShownAs
  <2> QED BY <1>2, <2>4, <2>5 DEF dropped
<1>9. CASE ~saves /\ Headers(pages) # {}
  <2>1. dropped > 0
    BY <1>4, <1>9
  <2>2. PICK c \in trimmed : d = Detection(c, pages, Left(c), 0)
    BY <1>1, <1>2, <1>9, <2>1
  <2>3. c.result = "form" /\ d.name = c.name /\ d.form = c.form /\ d.matching = c.matching /\ d.checked = Len(pages)
        /\ d.dropped = Left(c)
    BY <1>5, <2>2
  <2>4. ShownAs(d, pages, Trimmed(pages)) /\ (d.name = NoForm) = (Fitting(pages, Trimmed(pages)) = {})
    BY <1>7, <2>3 DEF ShownAs
  <2>5. d.name = NoForm => HeaderRowsNote(d)
    BY <2>1, <2>3 DEF HeaderRowsNote, IsSaved
  <2> QED BY <1>2, <1>9, <2>4, <2>5
<1>10. CASE ~saves /\ Headers(pages) = {}
  <2>1. dropped = 0 /\ ~(dropped > 0)
    BY <1>4, <1>10
  <2>2. PICK c \in printed : d = Detection(c, pages, 0, 0)
    BY <1>1, <1>2, <1>10, <2>1
  <2>3. c.result = "form" /\ d.name = c.name /\ d.form = c.form /\ d.matching = c.matching /\ d.checked = Len(pages)
    BY <1>5, <2>2
  <2>4. c.name = NoForm
    BY <1>10, <2>3 DEF IsSaved
  <2>5. ShownAs(d, pages, Printed(pages)) /\ d.name = NoForm /\ Fitting(pages, Printed(pages)) = {}
    BY <1>6, <2>3, <2>4 DEF ShownAs
  <2> QED BY <1>2, <1>10, <2>5
<1> QED BY <1>8, <1>9, <1>10

\* The form shown has the rows of a page of its print.
LEMMA ShownRows ==
  ASSUME NEW pages, NEW shapes, Shaped(pages, shapes), NEW d, ShownAs(d, pages, shapes)
  PROVE  /\ Made(d.form) /\ Signature(d.form) = Common(shapes)
         /\ \E i \in Group(shapes) :
              i \in Found(pages) /\ shapes[i].print = d.form.print /\ pages[i].print = d.form.print /\ shapes[i].first = d.form.first
<1>1. PICK i \in Group(shapes) : BuildProfile(shapes) = [print |-> shapes[i].print, first |-> shapes[i].first]
  BY ProfileIs
<1>2. i \in Found(pages) /\ shapes[i].print = pages[i].print
  BY CommonIs DEF Shaped
<1> DEFINE p == shapes[i].print
           f == shapes[i].first
<1>3. d.form = [print |-> p, first |-> f]
  BY <1>1 DEF ShownAs
<1>4. d.form.print = p /\ d.form.first = f
  <2> HIDE DEF p, f
  <2> QED BY <1>3
<1>5. Made(d.form) /\ Signature(d.form) = Common(shapes)
  BY ProfileMade DEF ShownAs
<1> QED BY <1>2, <1>4, <1>5

\* If every page counts as a page of the form, no page of its print marks a row left out.
LEMMA NothingLost ==
  ASSUME ShowsForm(samples), NEW shapes \in {Printed(samples), Trimmed(samples)},
         NEW d, ShownAs(d, samples, shapes),
         NEW x \in LeftOut(d.form), NEW i \in PagesOfPrint(d.form.print), x[2] \in samples[i].marked[x[1]]
  PROVE  MixedFormWarning(d)
<1>1. Shaped(samples, shapes)
  BY PrintedIs, TrimmedIs
<1>2. Made(d.form) /\ Signature(d.form) = Common(shapes)
  BY <1>1, ShownRows
<1>3. i \in DOMAIN samples /\ samples[i].print = d.form.print
  BY DEF PagesOfPrint
<1>4. i \in Found(samples)
  BY <1>2, <1>3, FormAssumption DEF Found, Made
<1>5. Made(shapes[i]) /\ shapes[i].print = d.form.print
  BY <1>1, <1>3, <1>4 DEF Shaped
<1>6. ASSUME i \in Group(shapes) PROVE FALSE
  <2>1. Signature(shapes[i]) = Signature(d.form)
    BY <1>1, <1>2, <1>6, CommonIs
  <2>2. shapes[i].first = d.form.first
    BY <1>2, <1>5, <2>1, SameRows
  <2>3. x[1] \in Blocks(samples[i].print) /\ x[2] \in 1 .. 2 /\ x[2] < shapes[i].first[x[1]]
    BY <1>3, <2>2 DEF LeftOut
  <2> QED BY <1>4, <2>3, UnmarkedAbove
<1>7. IsFiniteSet(DOMAIN samples) /\ Cardinality(DOMAIN samples) = Len(samples) /\ Group(shapes) \in SUBSET DOMAIN samples
  BY <1>1, PlacesFound, CommonIs
<1>8. /\ Cardinality(Group(shapes)) \in Nat /\ Cardinality(DOMAIN samples) \in Nat
      /\ Cardinality(Group(shapes)) <= Cardinality(DOMAIN samples)
      /\ Cardinality(Group(shapes)) = Cardinality(DOMAIN samples) => Group(shapes) = DOMAIN samples
  BY <1>7, FS_Subset, FS_CardinalityType
<1>9. Cardinality(Group(shapes)) < Len(samples)
  BY <1>3, <1>6, <1>7, <1>8
<1> QED BY <1>9 DEF ShownAs, MixedFormWarning

\* Without header rows only labels are left out.
LEMMA LabelsOnly ==
  ASSUME NEW pages, ShowsForm(pages), NEW d, ShownAs(d, pages, Printed(pages)), NEW x \in LeftOut(d.form)
  PROVE  x[1] \in Labels[d.form.print] /\ x[2] = 1
<1>1. Shaped(pages, Printed(pages))
  BY PrintedIs
<1>2. PICK i \in Found(pages) : pages[i].print = d.form.print /\ Printed(pages)[i].first = d.form.first
  BY <1>1, ShownRows
<1>3. x[1] \in Blocks(pages[i].print) /\ x[2] \in 1 .. 2 /\ x[2] < d.form.first[x[1]]
  BY <1>2 DEF LeftOut
<1>4. pages[i].print \in Prints /\ d.form.first[x[1]] = FirstNumbered(pages[i], x[1])
  BY <1>2, <1>3, PrintedIs
<1>5. FirstNumbered(pages[i], x[1]) \in {1, 2} /\ (FirstNumbered(pages[i], x[1]) = 2 => x[1] \in Labels[pages[i].print])
  BY <1>3, <1>4, FirstNumberedIs
<1> QED BY <1>2, <1>3, <1>4, <1>5

\* A saved form that was made of these pages fits them again, if they show it well.
LEMMA FitsAgain ==
  ASSUME ShowsForm(samples), ShownWell, NEW shapes, Shaped(samples, shapes), NEW n \in DOMAIN saved, ~saved[n].drawn,
         Shape(saved[n]) = BuildProfile(shapes), PagesOfPrint(BuildProfile(shapes).print) = DOMAIN samples
  PROVE  Fitting(samples, shapes) # {}
<1> DEFINE form == BuildProfile(shapes)
<1>1. Shape(saved[n]).print = saved[n].print /\ Shape(saved[n]).first = saved[n].first
  BY DEF Shape
<1>2. saved[n].print = form.print /\ saved[n].first = form.first
  BY <1>1
<1>3. Signature(saved[n]) = Signature(form)
  BY <1>2 DEF Signature, Rows
<1>4. CheckedPages(shapes, form) \subseteq Found(samples) /\ Found(samples) \subseteq DOMAIN samples
  BY CheckedIs, CommonIs, PlacesFound
<1>5. ASSUME NEW i \in CheckedPages(shapes, form)
      PROVE  Fits(samples[i], saved[n]) /\ samples[i].share >= MatchShare
  <2>1. samples[i].print = saved[n].print /\ samples[i].share >= MatchShare
    BY <1>2, <1>4, <1>5 DEF PagesOfPrint, ShownWell
  <2>2. samples[i].share \in Nat
    BY <1>4, <1>5, PrintedIs DEF IsPage, Found
  <2>3. samples[i].share >= TrustedShare
    BY <2>1, <2>2, FormAssumption
  <2> QED BY <2>1, <2>3 DEF Fits
<1>6. n \in MatchingProfiles(samples, form, CheckedPages(shapes, form))
  BY <1>3, <1>5 DEF MatchingProfiles, AsPrecise
<1> QED BY <1>6 DEF Fitting

\* Pages that all look alike have the common structure.
LEMMA AllTheSame ==
  ASSUME ShowsForm(samples), NEW p, AllAnswered(p)
  PROVE  /\ p \in Prints /\ Found(samples) = DOMAIN samples /\ Group(Printed(samples)) = DOMAIN samples
         /\ 1 \in DOMAIN samples /\ Cardinality(DOMAIN samples) >= HeaderPages
         /\ \A i \in DOMAIN samples : /\ samples[i].print = p
                                    /\ \A b \in Blocks(p) : FirstNumbered(samples[i], b) = FirstNumbered(samples[1], b)
<1>1. /\ Len(samples) >= HeaderPages /\ \A i \in DOMAIN samples : samples[i].print = p
      /\ \A i, j \in DOMAIN samples : samples[i].numbered = samples[j].numbered
  BY DEF AllAnswered, PagesOfPrint
<1>2. Len(samples) \in Nat /\ DOMAIN samples = 1 .. Len(samples)
  BY PagesAssumption DEF ShowsForm
<1>3. 1 \in DOMAIN samples
  BY <1>1, <1>2, FormAssumption
<1>4. p \in Prints
  <2>1. PICK i \in Found(samples) : TRUE
    BY DEF ShowsForm
  <2>2. samples[i].print \in Prints /\ i \in DOMAIN samples
    BY PrintedIs DEF Found
  <2> QED BY <1>1, <2>2
<1>5. Found(samples) = DOMAIN samples
  BY <1>1, <1>4, FormAssumption DEF Found
<1>6. Cardinality(DOMAIN samples) >= HeaderPages
  <2>1. Shaped(samples, Printed(samples))
    BY PrintedIs
  <2> QED BY <1>1, <2>1, PlacesFound
<1>7. ASSUME NEW i \in DOMAIN samples, NEW b \in Blocks(p)
      PROVE  FirstNumbered(samples[i], b) = FirstNumbered(samples[1], b)
  <2>1. samples[i].print = samples[1].print /\ samples[i].numbered = samples[1].numbered
    BY <1>1, <1>3
  <2> QED BY <2>1 DEF FirstNumbered
<1>8. ASSUME NEW i \in DOMAIN samples, NEW j \in DOMAIN samples
      PROVE  Signature(Printed(samples)[i]) = Signature(Printed(samples)[j])
  <2>1. Printed(samples)[i] = DetectLayout(samples[i]) /\ Printed(samples)[j] = DetectLayout(samples[j])
    BY <1>5, PrintedIs
  <2>2. [b \in Blocks(p) |-> FirstNumbered(samples[i], b)] = [b \in Blocks(p) |-> FirstNumbered(samples[j], b)]
    BY <1>7
  <2>3. samples[i].print = p /\ samples[j].print = p
    BY <1>1
  <2>4. DetectLayout(samples[i]) = DetectLayout(samples[j])
    BY <2>2, <2>3 DEF DetectLayout
  <2> QED BY <2>1, <2>4
<1>9. Group(Printed(samples)) = DOMAIN samples
  <2>1. Shaped(samples, Printed(samples))
    BY PrintedIs
  <2>2. PICK k \in Group(Printed(samples)) : TRUE
    BY <2>1, CommonIs
  <2>3. \A i \in DOMAIN samples : Signature(Printed(samples)[i]) = Common(Printed(samples))
    BY <1>5, <1>8, <2>1, <2>2, CommonIs
  <2> QED BY <1>5, <2>1, <2>3, CommonIs
<1> QED BY <1>1, <1>3, <1>4, <1>5, <1>6, <1>7, <1>9

\* What is marked on pages on which every question is answered.
LEMMA AnsweredRows ==
  ASSUME ShowsForm(samples), NEW p, AllAnswered(p), NEW b \in Blocks(p), NEW i \in DOMAIN samples, NEW k \in Nat \ {0},
         FirstNumbered(samples[1], b) + k - 1 <= BlockRows[p][b]
  PROVE  RowMark(samples[i], Printed(samples)[i], b, k) =
           IF FirstNumbered(samples[1], b) + k - 1 = 1 /\ b \in Labels[p] THEN "plain" ELSE "marked"
<1> DEFINE top == FirstNumbered(samples[1], b)
           row == top + k - 1
           n == BlockRows[p][b]
<1>1. /\ p \in Prints /\ i \in Found(samples) /\ 1 \in DOMAIN samples /\ samples[i].print = p /\ samples[1].print = p
      /\ FirstNumbered(samples[i], b) = top
  BY AllTheSame
<1>2. Printed(samples)[i].first[b] = top
  BY <1>1, PrintedIs
<1>3. b \notin samples[i].cut /\ samples[i].marked[b] = (1 .. n) \ (IF b \in Labels[p] THEN {1} ELSE {})
  BY DEF AllAnswered
<1>4. top \in {1, 2} /\ n \in Nat
  BY <1>1, FirstNumberedIs, PrintRows
<1>5. row \in 1 .. n
  <2> HIDE DEF top, n
  <2> QED BY <1>4 DEF n, top
<1>6. RowMark(samples[i], Printed(samples)[i], b, k) = IF row \in samples[i].marked[b] THEN "marked" ELSE "plain"
  BY <1>2, <1>3 DEF RowMark
<1>7. (row \in samples[i].marked[b]) = ~(row = 1 /\ b \in Labels[p])
  <2> HIDE DEF row, n
  <2> QED BY <1>3, <1>5
<1> QED BY <1>6, <1>7

\* On such pages the headers are the labels that look numbered.
LEMMA HeadersAreLabels ==
  ASSUME ShowsForm(samples), NEW p, AllAnswered(p)
  PROVE  Headers(samples) = {b \in Blocks(p) : b \in Labels[p] /\ FirstNumbered(samples[1], b) = 1}
<1> DEFINE shapes == Printed(samples)
           group == Group(shapes)
           common == Common(shapes).blocks
           Marks(b, k, what) == {i \in group : RowMark(samples[i], shapes[i], b, k) = what}
           Inner(b, what) == Cardinality({x \in group \X (2 .. common[b] - 1) : x[1] \in Marks(b, x[2], what)})
           First(b) == FirstNumbered(samples[1], b)
<1>1. /\ p \in Prints /\ group = DOMAIN samples /\ 1 \in group /\ Cardinality(group) >= HeaderPages
      /\ group = Found(samples) /\ samples[1].print = p
  BY AllTheSame
<1>2. IsFiniteSet(group) /\ Cardinality(group) \in Nat
  <2>1. Shaped(samples, shapes)
    BY PrintedIs
  <2> QED BY <1>1, <2>1, PlacesFound, FS_CardinalityType
<1>3. DOMAIN common = Blocks(p) /\ \A b \in Blocks(p) : common[b] = BlockRows[p][b] - First(b) + 1
  <2>1. Signature(shapes[1]) = Common(shapes)
    BY <1>1, CommonIs, PrintedIs
  <2>2. shapes[1].print = p /\ \A b \in Blocks(p) : shapes[1].first[b] = First(b)
    BY <1>1, PrintedIs
  <2>3. common = [b \in Blocks(p) |-> Rows(shapes[1], b)]
    BY <2>1, <2>2 DEF Signature
  <2> QED BY <2>2, <2>3 DEF Rows
<1>4. ASSUME NEW b \in Blocks(p)
      PROVE  /\ First(b) \in {1, 2} /\ BlockRows[p][b] \in Nat /\ BlockRows[p][b] >= JudgedRows /\ BlockRows[p][b] >= 3
             /\ First(b) = 2 => b \in Labels[p]
  <2>1. BlockRows[p][b] >= JudgedRows
    BY <1>1 DEF AllAnswered
  <2>2. BlockRows[p][b] \in Nat /\ JudgedRows \in Nat /\ JudgedRows >= 3
    BY <1>1, PrintRows, FormAssumption
  <2>3. b \in Blocks(samples[1].print) /\ samples[1].print \in Prints
    BY <1>1
  <2>4. First(b) \in {1, 2} /\ (First(b) = 2 => b \in Labels[samples[1].print])
    BY <2>3, FirstNumberedIs
  <2> HIDE DEF First
  <2> QED BY <1>1, <2>1, <2>2, <2>4
<1>5. Headers(samples) = {b \in DOMAIN common :
             /\ common[b] >= JudgedRows
             /\ Marks(b, 1, "plain") = group
             /\ 3 * Cardinality(Marks(b, 2, "marked")) >= 2 * Cardinality(group)
             /\ Inner(b, "marked") + Inner(b, "plain") > 0
             /\ Inner(b, "marked") >= Inner(b, "plain")}
  <2>1. ~(Cardinality(group) < HeaderPages)
    BY <1>1, <1>2, FormAssumption
  <2> QED BY <2>1 DEF Headers, HeaderBlocks
<1>6. ASSUME NEW b \in Headers(samples)
      PROVE  b \in Blocks(p) /\ b \in Labels[p] /\ First(b) = 1
  <2>1. b \in Blocks(p) /\ 1 \in Marks(b, 1, "plain")
    BY <1>1, <1>3, <1>5
  <2>2. First(b) + 1 - 1 = First(b) /\ First(b) <= BlockRows[p][b]
    BY <1>4, <2>1
  <2>3. RowMark(samples[1], shapes[1], b, 1) = "plain"
    BY <2>1
  <2> QED BY <1>1, <2>1, <2>2, <2>3, AnsweredRows
<1>7. ASSUME NEW b \in Blocks(p), b \in Labels[p], First(b) = 1
      PROVE  b \in Headers(samples)
  <2> DEFINE n == BlockRows[p][b]
  <2>1. n \in Nat /\ n >= JudgedRows /\ n >= 3 /\ common[b] = n
    BY <1>3, <1>4, <1>7
  <2>2. ASSUME NEW i \in group, NEW k \in 1 .. n
        PROVE  RowMark(samples[i], shapes[i], b, k) = IF k = 1 THEN "plain" ELSE "marked"
    <3>1. k \in Nat \ {0} /\ First(b) + k - 1 = k /\ k <= BlockRows[p][b]
      BY <1>7, <2>1
    <3> HIDE DEF n
    <3>2. RowMark(samples[i], shapes[i], b, k) = IF First(b) + k - 1 = 1 /\ b \in Labels[p] THEN "plain" ELSE "marked"
      BY <1>1, <3>1, AnsweredRows
    <3> QED BY <1>7, <3>1, <3>2
  <2>3. 1 \in 1 .. n /\ 2 \in 1 .. n /\ 2 .. (n - 1) \subseteq 1 .. n /\ 2 \in 2 .. (n - 1) /\ ~(1 \in 2 .. (n - 1))
    BY <2>1
  <2>4. Marks(b, 1, "plain") = group /\ Marks(b, 2, "marked") = group
    BY <2>2, <2>3
  <2> DEFINE pairs == group \X (2 .. (n - 1))
  <2>5. {x \in pairs : x[1] \in Marks(b, x[2], "marked")} = pairs /\ {x \in pairs : x[1] \in Marks(b, x[2], "plain")} = {}
    <3> SUFFICES ASSUME NEW x \in pairs
                 PROVE  x[1] \in Marks(b, x[2], "marked") /\ x[1] \notin Marks(b, x[2], "plain")
      OBVIOUS
    <3>1. x[1] \in group /\ x[2] \in 1 .. n /\ x[2] # 1
      BY <2>3
    <3>2. RowMark(samples[x[1]], shapes[x[1]], b, x[2]) = "marked"
      BY <2>2, <3>1
    <3> QED BY <3>1, <3>2
  <2>6. Inner(b, "marked") = Cardinality(pairs) /\ Inner(b, "plain") = 0
    BY <2>1, <2>5, FS_EmptySet
  <2>7. IsFiniteSet(pairs) /\ pairs # {}
    <3>1. IsFiniteSet(2 .. (n - 1))
      BY <2>1, FS_Interval
    <3>2. <<1, 2>> \in pairs
      BY <1>1, <2>3
    <3> QED BY <1>2, <3>1, <3>2, FS_Product
  <2>8. Cardinality(pairs) \in Nat /\ Cardinality(pairs) # 0
    <3> HIDE DEF pairs
    <3> QED BY <2>7, FS_CardinalityType, FS_EmptySet
  <2> HIDE DEF pairs
  <2>9. Inner(b, "marked") + Inner(b, "plain") > 0 /\ Inner(b, "marked") >= Inner(b, "plain")
    <3> HIDE DEF Inner
    <3> QED BY <2>6, <2>8
  <2>10. 3 * Cardinality(Marks(b, 2, "marked")) >= 2 * Cardinality(group)
    <3> HIDE DEF Marks, group
    <3> QED BY <1>2, <2>4
  <2> HIDE DEF Marks, Inner, group, common
  <2> QED BY <1>3, <1>5, <2>1, <2>4, <2>9, <2>10
<1> QED BY <1>6, <1>7

\* Where every question is answered, what is left out are the labels, unless a saved form
\* is taken and the labels it counts are told.
LEMMA LabelsAreLeftOut ==
  ASSUME ShowsForm(samples), NEW d, AllAnswered(d.form.print),
         \/ ShownAs(d, samples, Printed(samples)) /\ Headers(samples) = {}
         \/ ShownAs(d, samples, Trimmed(samples))
  PROVE  \A b \in Blocks(d.form.print) : (d.form.first[b] = 2) = (b \in Labels[d.form.print])
<1> DEFINE p == d.form.print
<1>1. PICK shapes \in {Printed(samples), Trimmed(samples)} :
        ShownAs(d, samples, shapes) /\ (shapes = Trimmed(samples) \/ Headers(samples) = {})
  OBVIOUS
<1>2. Shaped(samples, shapes)
  BY PrintedIs, TrimmedIs
<1>3. PICK i \in Found(samples) : samples[i].print = p /\ shapes[i].first = d.form.first
  BY <1>1, <1>2, ShownRows
<1>4. i \in DOMAIN samples /\ p \in Prints /\ i \in Group(Printed(samples)) /\ samples[1].print = p /\ 1 \in DOMAIN samples
  BY <1>3, AllTheSame DEF Found
<1> TAKE b \in Blocks(d.form.print)
<1> DEFINE top == FirstNumbered(samples[1], b)
<1>5. FirstNumbered(samples[i], b) = top /\ top \in {1, 2} /\ (top = 2 => b \in Labels[p])
  BY <1>4, AllTheSame, FirstNumberedIs
<1>6. d.form.first[b] = top + IF b \in Headers(samples) THEN 1 ELSE 0
  <2>1. CASE shapes = Trimmed(samples)
    <3>1. Trimmed(samples)[i].first[b] =
            FirstNumbered(samples[i], b) + IF i \in Group(Printed(samples)) /\ b \in Headers(samples) THEN 1 ELSE 0
      BY <1>3, TrimmedIs
    <3> HIDE DEF top
    <3> QED BY <1>3, <1>4, <1>5, <2>1, <3>1
  <2>2. CASE shapes = Printed(samples) /\ Headers(samples) = {}
    <3>1. Printed(samples)[i].first[b] = FirstNumbered(samples[i], b)
      BY <1>3, PrintedIs
    <3> HIDE DEF top
    <3> QED BY <1>3, <1>5, <2>2, <3>1
  <2> QED BY <1>1, <2>1, <2>2
<1>7. (b \in Headers(samples)) = (b \in Labels[p] /\ top = 1)
  BY HeadersAreLabels
<1> HIDE DEF top
<1> QED BY <1>5, <1>6, <1>7

\* What was accepted on these pages is among the saved forms.
Accepted ==
  agreed =>
    /\ ShowsForm(samples)
    /\ \E n \in DOMAIN saved :
         /\ ~saved[n].drawn
         /\ Shape(saved[n]) = BuildProfile(IF Headers(samples) = {} THEN Printed(samples) ELSE Trimmed(samples))

\* What is shown is what would be decided now.
FormInv ==
  /\ samples = <<>> \/ samples \in Batches
  /\ layouts = Printed(samples)
  /\ saved \in Seq(Form)
  /\ detection # NoForm => samples # <<>> /\ detection \in DecideForm(samples, layouts)
  /\ Accepted

\* The three promises, of what is decided.
LEMMA DecisionTells ==
  ASSUME FormInv, detection # NoForm, detection.result = "form"
  PROVE  NoMarkLost(detection) /\ LabelsLeftOut(detection) /\ FormAgain(detection)
<1> DEFINE d == detection
<1>1. samples \in Batches /\ samples # <<>> /\ saved \in Seq(Form) /\ d \in DecideForm(samples, Printed(samples))
  BY DEF FormInv
<1>2. /\ Found(samples) # {}
      /\ \/ /\ ShownAs(d, samples, Printed(samples)) /\ d.name # NoForm
            /\ d.unmarked = Cardinality(Headers(samples))
         \/ /\ ShownAs(d, samples, Trimmed(samples)) /\ Headers(samples) # {}
            /\ (d.name = NoForm) = (Fitting(samples, Trimmed(samples)) = {})
            /\ d.name = NoForm => HeaderRowsNote(d)
         \/ /\ ShownAs(d, samples, Printed(samples)) /\ Headers(samples) = {}
            /\ d.name = NoForm /\ Fitting(samples, Printed(samples)) = {}
  BY <1>1, DecisionIs
<1>3. ShowsForm(samples)
  BY <1>1, <1>2 DEF ShowsForm
<1>4. NoMarkLost(d)
  <2>1. ASSUME NEW x \in LeftOut(d.form), NEW i \in PagesOfPrint(d.form.print), x[2] \in samples[i].marked[x[1]]
        PROVE  MixedFormWarning(d)
    BY <1>2, <1>3, <2>1, NothingLost
  <2>2. ASSUME NEW x \in LeftOut(d.form), x[1] \notin Labels[d.form.print] \/ x[2] > 1
        PROVE  HeaderRowsNote(d) \/ d.name # NoForm
    <3>1. CASE ShownAs(d, samples, Printed(samples))
      <4>1. x[1] \in Labels[d.form.print] /\ x[2] = 1
        BY <1>3, <3>1, LabelsOnly
      <4> QED BY <2>2, <4>1
    <3> QED BY <1>2, <3>1
  <2> HIDE DEF d
  <2> QED BY <2>1, <2>2 DEF NoMarkLost
<1>5. LabelsLeftOut(d)
  <2> SUFFICES ASSUME AllAnswered(d.form.print)
               PROVE  \/ \A b \in Blocks(d.form.print) : (d.form.first[b] = 2) = (b \in Labels[d.form.print])
                      \/ d.name # NoForm /\ UnmarkedRowsNote(d)
    BY DEF LabelsLeftOut
  <2>1. CASE ShownAs(d, samples, Printed(samples)) /\ Headers(samples) # {}
    <3>1. (d.name # NoForm /\ d.unmarked = Cardinality(Headers(samples))) \/ ShownAs(d, samples, Trimmed(samples))
      BY <1>2, <2>1
    <3>2. Cardinality(Headers(samples)) > 0
      BY <1>3, <2>1, HeadersAre
    <3> HIDE DEF d
    <3> QED BY <1>3, <3>1, <3>2, LabelsAreLeftOut DEF UnmarkedRowsNote
  <2>2. CASE (ShownAs(d, samples, Printed(samples)) /\ Headers(samples) = {}) \/ ShownAs(d, samples, Trimmed(samples))
    BY <1>3, <2>2, LabelsAreLeftOut
  <2> QED BY <1>2, <2>1, <2>2
<1>6. FormAgain(d)
  <2> SUFFICES ASSUME agreed, PagesOfPrint(d.form.print) = DOMAIN samples, ShownWell, d.name = NoForm
               PROVE  FALSE
    BY DEF FormAgain
  <2>1. PICK n \in DOMAIN saved :
          /\ ~saved[n].drawn
          /\ Shape(saved[n]) = BuildProfile(IF Headers(samples) = {} THEN Printed(samples) ELSE Trimmed(samples))
    BY DEF FormInv, Accepted
  <2>2. Shaped(samples, Printed(samples)) /\ Shaped(samples, Trimmed(samples))
    BY <1>3, PrintedIs, TrimmedIs
  <2>3. CASE Headers(samples) # {}
    <3>1. d.form = BuildProfile(Trimmed(samples)) /\ Fitting(samples, Trimmed(samples)) = {}
      BY <1>2, <2>3 DEF ShownAs
    <3> QED BY <2>1, <2>2, <2>3, <3>1, <1>3, FitsAgain
  <2>4. CASE Headers(samples) = {}
    <3>1. d.form = BuildProfile(Printed(samples)) /\ Fitting(samples, Printed(samples)) = {}
      BY <1>2, <2>4 DEF ShownAs
    <3> QED BY <2>1, <2>2, <2>4, <3>1, <1>3, FitsAgain
  <2> QED BY <2>3, <2>4
<1> QED BY <1>4, <1>5, <1>6

LEMMA FormBegins == FormInit => FormInv
<1> SUFFICES ASSUME FormInit PROVE FormInv
  OBVIOUS
<1>1. Found(samples) = {}
  BY DEF FormInit, Found
<1>2. layouts = Printed(samples)
  BY <1>1 DEF FormInit, Printed
<1>3. saved \in Seq(Form)
  BY PagesAssumption DEF FormInit
<1> QED BY <1>2, <1>3 DEF FormInit, FormInv, Accepted

LEMMA AcceptKeeps == ASSUME FormInv, AcceptForm PROVE FormInv'
<1> DEFINE d == detection
           shapes == IF Headers(samples) = {} THEN Printed(samples) ELSE Trimmed(samples)
           made == [print |-> d.form.print, first |-> d.form.first, drawn |-> FALSE]
<1>1. /\ d # NoForm /\ d.result = "form" /\ d.name = NoForm /\ saved' = Append(saved, made)
      /\ agreed' = TRUE /\ detection' = NoForm /\ samples' = samples /\ layouts' = layouts
  BY DEF AcceptForm
<1>2. samples \in Batches /\ samples # <<>> /\ saved \in Seq(Form) /\ d \in DecideForm(samples, Printed(samples))
  BY <1>1 DEF FormInv
<1>3. Found(samples) # {} /\ ShownAs(d, samples, shapes)
  BY <1>1, <1>2, DecisionIs
<1>4. ShowsForm(samples) /\ Shaped(samples, shapes)
  BY <1>2, <1>3, PrintedIs, TrimmedIs DEF ShowsForm
<1>5. d.form = BuildProfile(shapes) /\ Made(d.form) /\ Shape(d.form) = d.form
  BY <1>3, <1>4, ProfileMade DEF ShownAs
<1>6. made \in Form
  <2> DEFINE x == d.form
  <2>1. x.print \in Prints /\ x.first \in [Blocks(x.print) -> Nat]
    BY <1>5 DEF Made
  <2> HIDE DEF x
  <2>2. Blocks(x.print) = 1 .. Len(BlockRows[x.print]) /\ Len(BlockRows[x.print]) \in Nat
    BY <2>1, PrintRows
  <2>3. x.first \in Seq(Nat) /\ DOMAIN x.first = Blocks(x.print)
    BY <2>1, <2>2, SeqDef
  <2>4. [print |-> x.print, first |-> x.first, drawn |-> FALSE] \in Form
    BY <2>1, <2>3 DEF Form
  <2> QED BY <2>4 DEF x
<1> HIDE DEF shapes
<1>7. Len(saved) \in Nat /\ saved' \in Seq(Form) /\ saved'[Len(saved) + 1] = made /\ Len(saved') = Len(saved) + 1
  <2> HIDE DEF made
  <2> QED BY <1>1, <1>2, <1>6, AppendProperties, LenProperties
<1>8. Len(saved) + 1 \in DOMAIN saved'
  BY <1>7, LenProperties
<1>9. ~made.drawn /\ Shape(made) = BuildProfile(shapes)
  <2> DEFINE p == d.form.print
             f == d.form.first
  <2>1. Shape(d.form) = [print |-> p, first |-> f]
    BY DEF Shape
  <2> HIDE DEF p, f
  <2>2. LET m == [print |-> p, first |-> f, drawn |-> FALSE] IN ~m.drawn /\ m.print = p /\ m.first = f
    OBVIOUS
  <2> QED BY <1>5, <2>1, <2>2 DEF Shape, p, f
<1> HIDE DEF made, d
<1>10. ~saved'[Len(saved) + 1].drawn /\ Shape(saved'[Len(saved) + 1]) = BuildProfile(shapes)
  BY <1>7, <1>9
<1>11. Accepted'
  BY <1>1, <1>4, <1>8, <1>10 DEF Accepted, shapes, Shape
<1> QED BY <1>1, <1>7, <1>11 DEF FormInv

\* As long as nothing is saved the decision is the same.
LEMMA DecideAgain ==
  ASSUME saved' = saved, samples' = samples, layouts' = layouts
  PROVE  DecideForm(samples, layouts)' = DecideForm(samples, layouts)
<1>1. Candidates(samples, layouts)' = Candidates(samples, layouts)
  <2> DEFINE form == BuildProfile(layouts)
             checked == CheckedPages(layouts, form)
  <2>1. MatchingProfiles(samples, form, checked)' = MatchingProfiles(samples, form, checked)
    BY DEF MatchingProfiles
  <2>2. \A n : Shape(saved[n])' = Shape(saved[n])
    OBVIOUS
  <2> QED BY <2>1, <2>2 DEF Candidates
<1>2. Candidates(samples, DropUnmarkedHeaderRows(samples, layouts))' = Candidates(samples, DropUnmarkedHeaderRows(samples, layouts))
  <2> DEFINE form == BuildProfile(DropUnmarkedHeaderRows(samples, layouts))
             checked == CheckedPages(DropUnmarkedHeaderRows(samples, layouts), form)
  <2>1. MatchingProfiles(samples, form, checked)' = MatchingProfiles(samples, form, checked)
    BY DEF MatchingProfiles
  <2>2. \A n : Shape(saved[n])' = Shape(saved[n])
    OBVIOUS
  <2> QED BY <2>1, <2>2 DEF Candidates
<1> QED BY <1>1, <1>2 DEF DecideForm

LEMMA FormStep == ASSUME FormInv, [FormNext]_forms PROVE FormInv'
<1>1. ASSUME NEW pages \in Batches, SampleForm(pages) PROVE FormInv'
  <2>1. samples = <<>> /\ samples' = pages /\ layouts' = [i \in Found(pages) |-> DetectLayout(pages[i])]
        /\ UNCHANGED <<detection, saved, agreed>>
    BY <1>1 DEF SampleForm
  <2>2. ~agreed /\ detection = NoForm
    BY <2>1 DEF FormInv, Accepted, ShowsForm, Found
  <2> QED BY <2>1, <2>2 DEF FormInv, Accepted, Printed
<1>2. CASE DetectForm
  <2>1. /\ samples # <<>> /\ detection' \in DecideForm(samples, layouts) /\ UNCHANGED <<samples, layouts, saved, agreed>>
    BY <1>2 DEF DetectForm
  <2>2. (detection # NoForm => samples # <<>> /\ detection \in DecideForm(samples, layouts))'
    BY <2>1, DecideAgain
  <2> QED BY <2>1, <2>2 DEF FormInv, Accepted
<1>3. CASE AcceptForm
  BY <1>3, AcceptKeeps
<1>4. CASE OtherScans
  <2>1. samples' = <<>> /\ layouts' = <<>> /\ detection' = NoForm /\ agreed' = FALSE /\ saved' = saved
    BY <1>4 DEF OtherScans
  <2>2. Printed(<<>>) = <<>>
    BY DEF Printed, Found
  <2> QED BY <2>1, <2>2 DEF FormInv, Accepted
<1>5. CASE UNCHANGED forms
  <2>1. UNCHANGED <<samples, layouts, detection, saved, agreed>>
    BY <1>5 DEF forms
  <2>2. DecideForm(samples, layouts)' = DecideForm(samples, layouts)
    BY <2>1, DecideAgain
  <2> QED BY <2>1, <2>2 DEF FormInv, Accepted
<1> QED BY <1>1, <1>2, <1>3, <1>4, <1>5 DEF FormNext

LEMMA FormInvariant == FormSpec => []FormInv
<1>1. FormInv /\ [FormNext]_forms => FormInv'
  BY FormStep
<1> QED BY <1>1, FormBegins, PTL DEF FormSpec

\* The form shown for the chosen scans loses no answer without a word, leaves out labels
\* where marks can tell them from questions, and is the saved one once it was accepted on
\* pages that all show it well
\* (FormDetector._decide, drop_unmarked_header_rows).
THEOREM FormTellsHolds == FormSpec => []FormTells
<1>1. FormInv => FormTells
  BY DecisionTells DEF FormTells
<1> QED BY <1>1, FormInvariant, PTL
=============================================================================
