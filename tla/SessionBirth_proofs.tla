------------------------- MODULE SessionBirth_proofs -------------------------
(***************************************************************************)
(* Proofs about how an exam comes into a data folder and leaves it         *)
(* (SessionBirth): for any programs, generations, births and faults.       *)
(***************************************************************************)
EXTENDS SessionBirth, TLAPS, WellFoundedInduction

USE ProcAssumption, BoundAssumption

Making   == {"reserve", "stage", "prepare", "gate", "publish"}
Removing == {"remove", "unlink"}
Unborn   == {"none", "staging", "prepared"}

Places == Unborn \union {"active", "trash", "tomb", "gone"}

NoneVisible == \A b \in Birth : ~Visible(b)

\* What the variables hold.
BirthTypes ==
  /\ root \in Proc \union {NoProc} /\ listers \in SUBSET Proc
  /\ root # NoProc => listers = {}
  /\ gates \in [Gen -> Birth \union {Absent}]
  /\ where \in [Birth -> Places] /\ has \in [Birth -> SUBSET Gen]
  /\ record \in SUBSET Birth
  /\ archive \in Gen \union {Absent} /\ minted \in Nat /\ last \in Nat \ {0}
  /\ pc \in [Proc -> Labels] /\ job \in [Proc -> Birth \union {Absent}]
  /\ said \in [Proc -> {"none", "ok", "conflict", "failed"}]

\* Whoever makes an exam holds the root lock of a folder that has none, and the gates
\* it made are there when it publishes.
MakerAlone ==
  \A p \in Proc :
    /\ pc[p] \in Making =>
         /\ root = p /\ record = {} /\ NoneVisible
         /\ job[p] \in Birth /\ job[p] <= minted /\ where[job[p]] \in Unborn
    /\ pc[p] = "prepare" => archive # Absent
    /\ pc[p] \in {"gate", "publish"} => has[job[p]] # {}
    /\ pc[p] = "publish" => \A g \in has[job[p]] : gates[g] = job[p]

\* Whoever removes one holds the lock too, alone or with others who remove it.
RemoverSafe ==
  /\ \A p \in Proc : pc[p] \in Removing =>
       /\ root = p \/ p \in listers
       /\ NoneVisible /\ job[p] \in Birth
  /\ \A b \in record : where[b] = "tomb"
  /\ record # {} => NoneVisible

\* A birth that failed is not born, nobody goes on with it, and only the program that
\* failed tidies up after it.
FailedAlone ==
  /\ \A p \in Proc : said[p] = "failed" =>
       /\ job[p] \in Birth /\ job[p] <= minted /\ where[job[p]] \in Unborn
       /\ \A q \in Proc : pc[q] \in Making => job[q] # job[p]
  /\ \A p \in Proc : pc[p] \in {"tidy", "ungate"} => said[p] = "failed"
  /\ \A b \in Birth : b > minted => where[b] = "none"

\* The one exam that is visible has made its gates itself.
OwnGates ==
  /\ \A b, c \in Birth : Visible(b) /\ Visible(c) => b = c
  /\ \A b \in Birth : Visible(b) => has[b] # {} /\ \A g \in has[b] : gates[g] = b

BirthInv == BirthTypes /\ MakerAlone /\ RemoverSafe /\ FailedAlone /\ OwnGates

USE DEF BirthInv

-----------------------------------------------------------------------------
\* A data folder without the exam.
LEMMA InitBirth == BirthInit => BirthInv
BY DEF BirthInit, BirthTypes, MakerAlone, RemoverSafe, FailedAlone, OwnGates, Visible, NoneVisible, Making, Removing,
       Unborn, Places, Labels, Birth, Gen, Absent

\* Giving up the lock keeps it exclusive or shared.
LEMMA Released ==
  ASSUME BirthTypes, NEW p \in Proc, Release(p)
  PROVE  /\ root' \in Proc \union {NoProc} /\ listers' \in SUBSET Proc
         /\ root' # NoProc => listers' = {}
         /\ \A q \in Proc \ {p} : (root = q => root' = q) /\ (q \in listers => q \in listers')
BY DEF BirthTypes, Release

\* A birth begins under the lock when the session_id is not in use.
LEMMA BeginKeeps ==
  ASSUME BirthInv, NEW p \in Proc, NEW next \in {"reserve", "prepare"}, Begin(p, next),
         next = "prepare" => archive # Absent
  PROVE  BirthInv'
<1>1. UNCHANGED <<listers, gates, where, has, record, archive, last>> /\ pc[p] = "idle"
  BY DEF Begin, disk
<1>2. CASE Exists
  <2>1. UNCHANGED <<root, minted, pc, job>> /\ said' = [said EXCEPT ![p] = "conflict"]
    BY <1>2 DEF Begin, Say
  <2>2. BirthTypes'
    BY <1>1, <2>1 DEF BirthTypes
  <2>3. MakerAlone' /\ RemoverSafe' /\ OwnGates'
    BY <1>1, <2>1 DEF MakerAlone, RemoverSafe, OwnGates, Visible, NoneVisible
  <2>4. FailedAlone'
    BY <1>1, <2>1 DEF FailedAlone, BirthTypes
  <2> QED
    BY <2>2, <2>3, <2>4
<1>3. CASE ~Exists
  <2>1. /\ minted < MaxBirths /\ minted' = minted + 1 /\ job' = [job EXCEPT ![p] = minted + 1]
        /\ root' = p /\ root = NoProc /\ listers = {}
        /\ pc' = [pc EXCEPT ![p] = next] /\ said' = [said EXCEPT ![p] = "none"]
    BY <1>3 DEF Begin, Say, Goto, Free
  <2>2. minted + 1 \in Birth /\ minted + 1 # Absent
    BY <2>1 DEF BirthTypes, Birth, Absent
  <2>3. NoneVisible /\ record = {}
    BY <1>3 DEF Exists, NoneVisible, RemoverSafe, BirthTypes
  <2>4. BirthTypes'
    BY <1>1, <2>1, <2>2 DEF BirthTypes, Labels
  <2>5. \A q \in Proc : pc[q] \notin Making /\ pc[q] \notin Removing
    BY <2>1 DEF MakerAlone, RemoverSafe
  <2>6. MakerAlone'
    BY <1>1, <2>1, <2>2, <2>3, <2>5
    DEF MakerAlone, FailedAlone, BirthTypes, NoneVisible, Visible, Unborn, Making
  <2>7. RemoverSafe'
    BY <1>1, <2>1, <2>3, <2>5 DEF RemoverSafe, BirthTypes, Removing, NoneVisible, Visible
  <2>8. FailedAlone'
    <3>1. /\ \A q \in Proc : q # p => said'[q] = said[q] /\ pc'[q] = pc[q] /\ job'[q] = job[q]
          /\ said'[p] = "none" /\ pc'[p] = next /\ job'[p] = minted + 1
      BY <2>1 DEF BirthTypes
    <3>2. \A q \in Proc : pc'[q] \in Making => q = p
      BY <2>5, <3>1
    <3>3. ASSUME NEW q \in Proc, said'[q] = "failed"
          PROVE  /\ job'[q] \in Birth /\ job'[q] <= minted' /\ where'[job'[q]] \in Unborn
                 /\ \A r \in Proc : pc'[r] \in Making => job'[r] # job'[q]
      <4>1. q # p /\ said[q] = "failed"
        BY <3>1, <3>3
      <4>2. job[q] \in Birth /\ job[q] <= minted /\ where[job[q]] \in Unborn
        BY <4>1 DEF FailedAlone
      <4>3. job[q] <= minted + 1 /\ job[q] # minted + 1
        BY <4>2 DEF BirthTypes, Birth
      <4> QED
        BY <1>1, <2>1, <3>1, <3>2, <4>1, <4>2, <4>3
    <3>4. \A q \in Proc : pc'[q] \in {"tidy", "ungate"} => said'[q] = "failed"
      BY <3>1 DEF FailedAlone
    <3>5. \A b \in Birth : b > minted' => where'[b] = "none"
      BY <1>1, <2>1 DEF FailedAlone, BirthTypes, Birth
    <3> QED
      BY <3>3, <3>4, <3>5 DEF FailedAlone
  <2>9. OwnGates'
    BY <1>1 DEF OwnGates, Visible
  <2> QED
    BY <2>4, <2>6, <2>7, <2>8, <2>9
<1> QED
  BY <1>2, <1>3

\* Writing the staging folder, reserved or extracted, makes nothing visible.
LEMMA StageKeeps ==
  ASSUME BirthInv, NEW p \in Proc, Reserve(p) \/ Stage(p) \/ Prepare(p)
  PROVE  BirthInv'
<1>1. /\ pc[p] \in {"reserve", "stage", "prepare"}
      /\ UNCHANGED <<root, listers, gates, record, archive, minted, last, job, said>>
  BY DEF Reserve, Stage, Prepare, lock
<1>2. /\ root = p /\ record = {} /\ NoneVisible
      /\ job[p] \in Birth /\ job[p] <= minted /\ where[job[p]] \in Unborn
      /\ pc[p] = "prepare" => archive \in Gen
  BY <1>1 DEF MakerAlone, Making, BirthTypes
<1>3. \E l \in {"stage", "gate"} :
        /\ pc' = [pc EXCEPT ![p] = l]
        /\ l = "gate" => has'[job[p]] # {}
  BY <1>2 DEF Reserve, Stage, Prepare, Goto, BirthTypes
<1>4. \/ UNCHANGED <<where, has>>
      \/ /\ \E w \in {"staging", "prepared"} : where' = [where EXCEPT ![job[p]] = w]
         /\ \E s \in SUBSET Gen : has' = [has EXCEPT ![job[p]] = s]
  BY <1>1, <1>2 DEF Reserve, Stage, Prepare, Put, Gen
<1>5. /\ \A b \in Birth : b # job[p] => where'[b] = where[b] /\ has'[b] = has[b]
      /\ where'[job[p]] \in Unborn
      /\ where' \in [Birth -> Places] /\ has' \in [Birth -> SUBSET Gen]
  BY <1>2, <1>4 DEF BirthTypes, Unborn, Places
<1>6. NoneVisible'
  BY <1>2, <1>5 DEF NoneVisible, Visible, Unborn
<1>7. \A q \in Proc : q # p => pc[q] \notin Making /\ pc[q] \notin Removing /\ pc'[q] = pc[q]
  BY <1>1, <1>2, <1>3 DEF MakerAlone, RemoverSafe, BirthTypes
<1>8. BirthTypes'
  BY <1>1, <1>3, <1>5 DEF BirthTypes, Labels
<1>9. pc'[p] \in {"stage", "gate"} /\ (pc'[p] = "gate" => has'[job[p]] # {})
  BY <1>3 DEF BirthTypes
<1>10. MakerAlone'
  BY <1>1, <1>2, <1>5, <1>6, <1>7, <1>9 DEF MakerAlone, Making
<1>11. RemoverSafe'
  BY <1>1, <1>2, <1>6, <1>7, <1>9 DEF RemoverSafe, Removing
<1>12. FailedAlone'
  <2>1. pc[p] \in Making /\ \A q \in Proc : pc'[q] \in Making => pc[q] \in Making
    BY <1>1, <1>7 DEF Making
  <2>2. ASSUME NEW q \in Proc, said[q] = "failed"
        PROVE  job[q] \in Birth /\ job[q] <= minted /\ where'[job[q]] \in Unborn
    BY <1>5, <2>1, <2>2 DEF FailedAlone
  <2>3. \A q \in Proc : pc'[q] \in {"tidy", "ungate"} => said[q] = "failed"
    BY <1>7, <1>9 DEF FailedAlone
  <2>4. \A b \in Birth : b > minted => b # job[p]
    BY <1>2 DEF BirthTypes, Birth
  <2> QED
    BY <1>1, <1>5, <2>1, <2>2, <2>3, <2>4 DEF FailedAlone
<1>13. OwnGates'
  BY <1>6 DEF OwnGates, NoneVisible
<1> QED
  BY <1>8, <1>10, <1>11, <1>12, <1>13

\* The gates are new and the maker's own.
LEMMA MakeGateKeeps == ASSUME BirthInv, NEW p \in Proc, MakeGate(p) PROVE BirthInv'
<1>1. /\ pc[p] = "gate" /\ pc' = [pc EXCEPT ![p] = "publish"]
      /\ UNCHANGED <<root, listers, where, has, record, archive, minted, last, job, said>>
      /\ gates' = [g \in Gen |-> IF g \in has[job[p]] THEN job[p] ELSE gates[g]]
  BY DEF MakeGate, Goto, lock
<1>2. /\ root = p /\ record = {} /\ NoneVisible /\ has[job[p]] # {}
      /\ job[p] \in Birth /\ job[p] <= minted /\ where[job[p]] \in Unborn
  BY <1>1 DEF MakerAlone, Making
<1>3. NoneVisible'
  BY <1>1, <1>2 DEF NoneVisible, Visible
<1>4. \A q \in Proc : q # p => pc[q] \notin Making /\ pc[q] \notin Removing /\ pc'[q] = pc[q]
  BY <1>1, <1>2 DEF MakerAlone, RemoverSafe, BirthTypes
<1>5. BirthTypes'
  BY <1>1, <1>2 DEF BirthTypes, Labels
<1>6. pc'[p] = "publish" /\ \A g \in has[job[p]] : gates'[g] = job[p]
  BY <1>1, <1>2 DEF BirthTypes
<1>7. MakerAlone'
  BY <1>1, <1>2, <1>3, <1>4, <1>6 DEF MakerAlone, Making
<1>8. RemoverSafe'
  BY <1>1, <1>2, <1>3, <1>4, <1>6 DEF RemoverSafe, Removing
<1>9. FailedAlone'
  BY <1>1, <1>4, <1>6 DEF FailedAlone, Making
<1>10. OwnGates'
  BY <1>3 DEF OwnGates, NoneVisible
<1> QED
  BY <1>5, <1>7, <1>8, <1>9, <1>10

\* The exam that becomes visible is the only one.
LEMMA PublishKeeps == ASSUME BirthInv, NEW p \in Proc, Publish(p) PROVE BirthInv'
<1>1. /\ pc[p] = "publish"
      /\ \E l \in {"unreserve", "confirm"} : pc' = [pc EXCEPT ![p] = l]
      /\ where' = [where EXCEPT ![job[p]] = "active"] /\ said' = [said EXCEPT ![p] = "ok"]
      /\ UNCHANGED <<root, listers, gates, has, record, archive, minted, last, job>>
  BY DEF Publish, Goto, Put, Say, lock
<1>2. /\ root = p /\ record = {} /\ NoneVisible /\ has[job[p]] # {}
      /\ job[p] \in Birth /\ job[p] <= minted
      /\ \A g \in has[job[p]] : gates[g] = job[p]
  BY <1>1 DEF MakerAlone, Making
<1>3. \A q \in Proc : pc'[q] \notin Making /\ pc'[q] \notin Removing
  BY <1>1, <1>2 DEF MakerAlone, RemoverSafe, BirthTypes, Making, Removing
<1>4. \A b \in Birth : b # job[p] => where'[b] = where[b]
  BY <1>1 DEF BirthTypes
<1>5. BirthTypes'
  BY <1>1, <1>2 DEF BirthTypes, Labels, Places
<1>6. MakerAlone'
  BY <1>3 DEF MakerAlone, Making
<1>7. RemoverSafe'
  BY <1>1, <1>2, <1>3 DEF RemoverSafe
<1>8. FailedAlone'
  <2>1. ASSUME NEW q \in Proc, said'[q] = "failed"
        PROVE  said[q] = "failed" /\ q # p /\ job[q] # job[p]
    BY <1>1, <2>1 DEF BirthTypes, FailedAlone, Making
  <2>2. \A q \in Proc : pc'[q] \in {"tidy", "ungate"} => q # p /\ pc[q] \in {"tidy", "ungate"}
    BY <1>1 DEF BirthTypes
  <2>3. \A q \in Proc : q # p => said'[q] = said[q]
    BY <1>1 DEF BirthTypes
  <2>4. \A b \in Birth : b > minted => b # job[p]
    BY <1>2 DEF BirthTypes, Birth
  <2> QED
    BY <1>1, <1>3, <1>4, <2>1, <2>2, <2>3, <2>4 DEF FailedAlone
<1>9. OwnGates'
  BY <1>1, <1>2, <1>4 DEF OwnGates, NoneVisible, Visible
<1> QED
  BY <1>5, <1>6, <1>7, <1>8, <1>9

-----------------------------------------------------------------------------
\* Going back to rest, by the end of an operation or by a crash, gives up the lock and
\* leaves the exams as they are.
LEMMA RestKeeps ==
  ASSUME BirthInv, NEW p \in Proc, Release(p), pc' = [pc EXCEPT ![p] = "idle"],
         said' = said \/ said' = [said EXCEPT ![p] = "none"],
         UNCHANGED <<gates, where, has, record, archive, minted, last, job>>
  PROVE  BirthInv'
<1>1. pc'[p] = "idle" /\ \A q \in Proc : q # p => pc'[q] = pc[q]
  BY DEF BirthTypes
<1>2. \A q \in Proc : said'[q] = "failed" => said[q] = "failed"
  BY DEF BirthTypes
<1>3. \A q \in Proc : q # p => said'[q] = said[q]
  BY DEF BirthTypes
<1>4. BirthTypes'
  BY Released DEF BirthTypes, Labels
<1>5. MakerAlone'
  BY <1>1, Released DEF MakerAlone, Making, NoneVisible, Visible
<1>6. RemoverSafe'
  BY <1>1, Released DEF RemoverSafe, Removing, NoneVisible, Visible
<1>7. FailedAlone'
  BY <1>1, <1>2, <1>3 DEF FailedAlone, Making
<1>8. OwnGates'
  BY DEF OwnGates, Visible
<1> QED
  BY <1>4, <1>5, <1>6, <1>7, <1>8

\* A birth that fails is given up by the one program that had begun it.
LEMMA FailsKeeps ==
  ASSUME BirthInv, NEW p \in Proc, CreateFails(p) \/ RestoreFails(p)
  PROVE  BirthInv'
<1>1. /\ pc[p] \in Making /\ said' = [said EXCEPT ![p] = "failed"] /\ Release(p)
      /\ \E l \in {"idle", "tidy"} : pc' = [pc EXCEPT ![p] = l]
      /\ UNCHANGED <<gates, where, has, record, archive, minted, last, job>>
  BY DEF CreateFails, RestoreFails, Making, Say, Goto, disk
<1>2. /\ root = p /\ job[p] \in Birth /\ job[p] <= minted /\ where[job[p]] \in Unborn
  BY <1>1 DEF MakerAlone
<1>3. \A q \in Proc : pc'[q] \notin Making /\ pc'[q] \notin Removing
  BY <1>1, <1>2 DEF MakerAlone, RemoverSafe, BirthTypes, Making, Removing
<1>4. /\ said'[p] = "failed"
      /\ \A q \in Proc : q # p => said'[q] = said[q] /\ pc'[q] = pc[q]
  BY <1>1 DEF BirthTypes
<1>5. BirthTypes'
  BY <1>1, Released DEF BirthTypes, Labels
<1>6. MakerAlone'
  BY <1>3 DEF MakerAlone, Making
<1>7. RemoverSafe'
  BY <1>1, <1>3 DEF RemoverSafe, NoneVisible, Visible
<1>8. FailedAlone'
  BY <1>1, <1>2, <1>3, <1>4 DEF FailedAlone
<1>9. OwnGates'
  BY <1>1 DEF OwnGates, Visible
<1> QED
  BY <1>5, <1>6, <1>7, <1>8, <1>9

\* Tidying up after a failed restore takes its own folder and its own gates.
LEMMA TidyKeeps ==
  ASSUME BirthInv, NEW p \in Proc, TidyFolder(p) \/ TidyGate(p)
  PROVE  BirthInv'
<1>1. /\ pc[p] \in {"tidy", "ungate"}
      /\ \E l \in {"idle", "ungate"} : pc' = [pc EXCEPT ![p] = l]
      /\ UNCHANGED <<root, listers, has, record, archive, minted, last, job, said>>
  BY DEF TidyFolder, TidyGate, Goto, lock
<1>2. /\ said[p] = "failed" /\ job[p] \in Birth /\ job[p] <= minted /\ where[job[p]] \in Unborn
      /\ \A q \in Proc : pc[q] \in Making => job[q] # job[p]
  BY <1>1 DEF FailedAlone
<1>3. \/ UNCHANGED where
      \/ where' = [where EXCEPT ![job[p]] = "none"]
  BY DEF TidyFolder, TidyGate, Put
<1>4. /\ \A b \in Birth : b # job[p] => where'[b] = where[b]
      /\ where'[job[p]] \in Unborn /\ where' \in [Birth -> Places]
  BY <1>2, <1>3 DEF BirthTypes, Unborn, Places
<1>5. gates' \in [Gen -> Birth \union {Absent}] /\ \A g \in Gen : gates[g] # job[p] => gates'[g] = gates[g]
  BY DEF TidyFolder, TidyGate, BirthTypes
<1>6. \A b \in Birth : (Visible(b)' <=> Visible(b)) /\ (Visible(b) => b # job[p])
  BY <1>2, <1>4 DEF Visible, Unborn
<1>7. /\ pc'[p] \in {"idle", "ungate"} /\ \A q \in Proc : q # p => pc'[q] = pc[q]
  BY <1>1 DEF BirthTypes
<1>8. BirthTypes'
  BY <1>1, <1>4, <1>5 DEF BirthTypes, Labels
<1>9. MakerAlone'
  <2>1. NoneVisible => NoneVisible'
    BY <1>6 DEF NoneVisible
  <2>2. ASSUME NEW q \in Proc, pc'[q] \in Making
        PROVE  q # p /\ pc[q] = pc'[q] /\ job[q] # job[p] /\ job[q] \in Birth
    BY <1>2, <1>7, <2>2 DEF Making, MakerAlone
  <2>3. ASSUME NEW q \in Proc, pc'[q] = "publish", NEW g \in has[job[q]]
        PROVE  gates'[g] = job[q]
    <3>1. job[q] # job[p] /\ job[q] \in Birth /\ pc[q] = "publish"
      BY <2>2, <2>3 DEF Making
    <3>2. g \in Gen /\ gates[g] = job[q]
      BY <2>3, <3>1 DEF BirthTypes, MakerAlone
    <3> QED
      BY <1>5, <3>1, <3>2
  <2> QED
    BY <1>1, <1>4, <2>1, <2>2, <2>3 DEF MakerAlone, Making
<1>10. RemoverSafe'
  <2>1. NoneVisible => NoneVisible'
    BY <1>6 DEF NoneVisible
  <2>2. \A b \in record : b # job[p] /\ b \in Birth
    BY <1>2 DEF RemoverSafe, BirthTypes, Unborn
  <2> QED
    BY <1>1, <1>4, <1>7, <2>1, <2>2 DEF RemoverSafe, Removing
<1>11. FailedAlone'
  <2>1. \A q \in Proc : pc'[q] \in Making => pc[q] \in Making
    BY <1>7 DEF Making
  <2>2. \A q \in Proc : pc'[q] \in {"tidy", "ungate"} => said[q] = "failed"
    BY <1>2, <1>7 DEF FailedAlone
  <2>3. \A b \in Birth : b > minted => b # job[p]
    BY <1>2 DEF BirthTypes, Birth
  <2> QED
    BY <1>1, <1>4, <2>1, <2>2, <2>3 DEF FailedAlone
<1>12. OwnGates'
  <2>1. ASSUME NEW b \in Birth, Visible(b), NEW g \in has[b] PROVE gates'[g] = b
    <3>1. g \in Gen /\ gates[g] = b /\ b # job[p]
      BY <1>6, <2>1 DEF OwnGates, BirthTypes
    <3> QED
      BY <1>5, <3>1
  <2> QED
    BY <1>1, <1>6, <2>1 DEF OwnGates
<1> QED
  BY <1>8, <1>9, <1>10, <1>11, <1>12

-----------------------------------------------------------------------------
\* While one is visible, nobody makes, removes or has left to remove one.
LEMMA VisibleAlone ==
  ASSUME BirthInv, NEW b \in Birth, Visible(b)
  PROVE  /\ \A q \in Proc : pc[q] \notin Making /\ pc[q] \notin Removing
         /\ record = {}
         /\ \A c \in Birth : Visible(c) => c = b
BY DEF MakerAlone, RemoverSafe, OwnGates, NoneVisible

\* While nobody holds the lock, nobody makes an exam.
LEMMA UnlockedIdle ==
  ASSUME BirthInv, root = NoProc
  PROVE  \A q \in Proc : pc[q] \notin Making
BY DEF MakerAlone

\* The generation that is backed up is one of the exam's.
LEMMA Newest == ASSUME NEW S \in SUBSET Gen, S # {} PROVE \E g \in S : \A h \in S : h <= g
<1> DEFINE Less == {MaxGen - g : g \in S}
<1>1. Less \subseteq Nat /\ Less # {}
  BY DEF Gen
<1>2. PICK x \in Less : \A y \in Less : ~(<<y, x>> \in OpToRel(<, Nat))
  BY <1>1, NatLessThanWellFounded, WFMin
<1>3. PICK g \in S : x = MaxGen - g
  BY <1>2
<1>4. \A h \in S : h <= g
  <2> SUFFICES ASSUME NEW h \in S PROVE h <= g
    OBVIOUS
  <2>1. MaxGen - h \in Less
    OBVIOUS
  <2>2. <<MaxGen - h, x>> \notin OpToRel(<, Nat)
    BY <1>2, <2>1
  <2>3. ~(MaxGen - h < x)
    BY <1>1, <1>2, <2>1, <2>2 DEF OpToRel
  <2> QED
    BY <1>3, <2>3 DEF Gen
<1> QED
  BY <1>4

\* A save gives the new generation a gate of the exam's own and takes its old ones.
LEMMA SaveKeeps == ASSUME BirthInv, NEW b \in Birth, Save(b) PROVE BirthInv'
<1>1. /\ Visible(b) /\ last' = last + 1 /\ last + 1 \in Gen
      /\ UNCHANGED <<root, listers, where, record, archive, minted, pc, job, said>>
  BY DEF Save, lock, local, Visible, BirthTypes, Gen
<1>2. PICK kept \in {has[b], {}} :
        /\ has' = [has EXCEPT ![b] = kept \union {last'}]
        /\ gates' = [g \in Gen |-> IF g = last' THEN b
                                   ELSE IF g \in has[b] \ kept THEN Absent ELSE gates[g]]
  BY DEF Save
<1>3. /\ has'[b] = kept \union {last + 1} /\ kept \subseteq Gen
      /\ \A g \in has'[b] : gates'[g] = b
  <2>1. has'[b] = kept \union {last + 1} /\ kept \subseteq Gen
    BY <1>1, <1>2 DEF BirthTypes
  <2>2. ASSUME NEW g \in kept PROVE g \in Gen /\ gates[g] = b /\ g \notin has[b] \ kept
    BY <1>1, <1>2, <2>1, <2>2 DEF OwnGates
  <2> QED
    BY <1>1, <1>2, <2>1, <2>2
<1>4. BirthTypes'
  <2>1. has' \in [Birth -> SUBSET Gen]
    BY <1>1, <1>2, <1>3 DEF BirthTypes
  <2>2. gates' \in [Gen -> Birth \union {Absent}]
    BY <1>1, <1>2 DEF BirthTypes
  <2> QED
    BY <1>1, <2>1, <2>2 DEF BirthTypes
<1>5. MakerAlone'
  BY <1>1, VisibleAlone DEF MakerAlone, Making
<1>6. RemoverSafe'
  BY <1>1, VisibleAlone DEF RemoverSafe
<1>7. FailedAlone'
  BY <1>1 DEF FailedAlone
<1>8. OwnGates'
  <2>1. \A c \in Birth : Visible(c)' => c = b
    BY <1>1, VisibleAlone DEF Visible
  <2> QED
    BY <1>3, <2>1 DEF OwnGates
<1> QED
  BY <1>4, <1>5, <1>6, <1>7, <1>8

\* A backup changes nothing in the folder.
LEMMA ExportKeeps == ASSUME BirthInv, NEW b \in Birth, Export(b) PROVE BirthInv'
<1>1. UNCHANGED <<root, listers, gates, where, has, record, minted, last, pc, job, said>> /\ Visible(b)
  BY DEF Export, lock, disk, local
<1>2. has[b] \in SUBSET Gen /\ has[b] # {}
  BY <1>1 DEF BirthTypes, OwnGates
<1>3. archive' \in Gen
  BY <1>2, Newest DEF Export
<1>4. BirthTypes'
  BY <1>1, <1>3 DEF BirthTypes
<1>5. MakerAlone'
  BY <1>1, VisibleAlone DEF MakerAlone, Making
<1>6. RemoverSafe' /\ FailedAlone' /\ OwnGates'
  BY <1>1 DEF RemoverSafe, FailedAlone, OwnGates, Visible, NoneVisible
<1> QED
  BY <1>4, <1>5, <1>6

\* Into the trash and out of it: the one exam stays the one.
LEMMA MoveKeeps == ASSUME BirthInv, NEW b \in Birth, Move(b) PROVE BirthInv'
<1>1. /\ Visible(b) /\ \E w \in {"active", "trash"} : where' = [where EXCEPT ![b] = w]
      /\ UNCHANGED <<root, listers, gates, has, record, archive, minted, last, pc, job, said>>
  BY DEF Move, Put, lock, local
<1>2. /\ Visible(b)' /\ where' \in [Birth -> Places]
      /\ \A c \in Birth : c # b => where'[c] = where[c]
  BY <1>1 DEF BirthTypes, Places, Visible
<1>3. BirthTypes'
  BY <1>1, <1>2 DEF BirthTypes
<1>4. MakerAlone'
  BY <1>1, VisibleAlone DEF MakerAlone, Making
<1>5. RemoverSafe'
  BY <1>1, VisibleAlone DEF RemoverSafe
<1>6. FailedAlone'
  <2>1. \A q \in Proc : said[q] = "failed" => job[q] # b
    BY <1>1 DEF FailedAlone, Visible, Unborn
  <2>2. ~(b > minted)
    BY <1>1 DEF FailedAlone, Visible
  <2> QED
    BY <1>1, <1>2, <2>1, <2>2 DEF FailedAlone
<1>7. OwnGates'
  <2>1. \A c \in Birth : Visible(c)' => c = b
    BY <1>1, <1>2, VisibleAlone DEF Visible
  <2> QED
    BY <1>1, <2>1 DEF OwnGates
<1> QED
  BY <1>3, <1>4, <1>5, <1>6, <1>7

-----------------------------------------------------------------------------
\* Whoever deletes the exam takes the lock alone, and leaves no visible one.
LEMMA DeleteKeeps ==
  ASSUME BirthInv, NEW p \in Proc, NEW b \in Birth, DeleteStart(p, b)
  PROVE  BirthInv'
<1>1. /\ Visible(b) /\ listers = {} /\ root' = p /\ pc' = [pc EXCEPT ![p] = "remove"]
      /\ job' = [job EXCEPT ![p] = b] /\ said' = [said EXCEPT ![p] = "none"]
      /\ where' = [where EXCEPT ![b] = "tomb"] /\ record' = record \union {b}
      /\ UNCHANGED <<listers, gates, has, archive, minted, last>>
  BY DEF DeleteStart, Goto, Say, Put, Free, Visible
<1>2. /\ \A q \in Proc : pc[q] \notin Making /\ pc[q] \notin Removing
      /\ record = {} /\ \A c \in Birth : Visible(c) => c = b
  BY <1>1, VisibleAlone
<1>3. /\ pc'[p] = "remove" /\ said'[p] = "none" /\ job'[p] = b /\ where'[b] = "tomb"
      /\ \A q \in Proc : q # p => pc'[q] = pc[q] /\ said'[q] = said[q] /\ job'[q] = job[q]
      /\ \A c \in Birth : c # b => where'[c] = where[c]
  BY <1>1 DEF BirthTypes
<1>4. NoneVisible'
  BY <1>2, <1>3 DEF NoneVisible, Visible
<1>5. BirthTypes'
  BY <1>1 DEF BirthTypes, Labels, Places
<1>6. \A q \in Proc : pc'[q] \notin Making /\ (pc'[q] \in Removing => q = p)
  BY <1>2, <1>3 DEF Making
<1>7. MakerAlone'
  BY <1>6 DEF MakerAlone, Making
<1>8. RemoverSafe'
  BY <1>1, <1>2, <1>3, <1>4, <1>6 DEF RemoverSafe
<1>9. FailedAlone'
  <2>1. ASSUME NEW q \in Proc, said'[q] = "failed"
        PROVE  job'[q] \in Birth /\ job'[q] <= minted /\ where'[job'[q]] \in Unborn
    <3>1. q # p /\ said[q] = "failed" /\ job'[q] = job[q]
      BY <1>3, <2>1
    <3>2. job[q] \in Birth /\ job[q] <= minted /\ where[job[q]] \in Unborn
      BY <3>1 DEF FailedAlone
    <3>3. job[q] # b
      BY <1>1, <3>2 DEF Visible, Unborn
    <3> QED
      BY <1>3, <3>1, <3>2, <3>3
  <2>2. ~(b > minted)
    BY <1>1 DEF FailedAlone, Visible
  <2>3. \A q \in Proc : pc'[q] \in {"tidy", "ungate"} => said'[q] = "failed"
    BY <1>3 DEF FailedAlone
  <2> QED
    BY <1>1, <1>3, <1>6, <2>1, <2>2, <2>3 DEF FailedAlone
<1>10. OwnGates'
  BY <1>4 DEF OwnGates, NoneVisible
<1> QED
  BY <1>5, <1>7, <1>8, <1>9, <1>10

\* A listing begins to remove what is deleted already.
LEMMA SweepKeeps ==
  ASSUME BirthInv, NEW p \in Proc, NEW b \in Birth, SweepStart(p, b)
  PROVE  BirthInv'
<1>1. /\ b \in record /\ root = NoProc /\ listers' = listers \union {p}
      /\ pc' = [pc EXCEPT ![p] = "remove"]
      /\ job' = [job EXCEPT ![p] = b] /\ said' = [said EXCEPT ![p] = "none"]
      /\ UNCHANGED <<root, gates, where, has, record, archive, minted, last>>
  BY DEF SweepStart, Goto, Say, disk
<1>2. NoneVisible /\ \A q \in Proc : pc[q] \notin Making
  BY <1>1, UnlockedIdle DEF RemoverSafe
<1>3. /\ pc'[p] = "remove" /\ said'[p] = "none" /\ job'[p] = b
      /\ \A q \in Proc : q # p => pc'[q] = pc[q] /\ said'[q] = said[q] /\ job'[q] = job[q]
  BY <1>1 DEF BirthTypes
<1>4. NoneVisible'
  BY <1>1, <1>2 DEF NoneVisible, Visible
<1>5. BirthTypes'
  BY <1>1 DEF BirthTypes, Labels
<1>6. \A q \in Proc : pc'[q] \notin Making
  BY <1>2, <1>3 DEF Making
<1>7. MakerAlone'
  BY <1>6 DEF MakerAlone, Making
<1>8. RemoverSafe'
  BY <1>1, <1>3, <1>4 DEF RemoverSafe
<1>9. FailedAlone'
  BY <1>1, <1>3, <1>6 DEF FailedAlone
<1>10. OwnGates'
  BY <1>4 DEF OwnGates, NoneVisible
<1> QED
  BY <1>5, <1>7, <1>8, <1>9, <1>10

\* While someone removes an exam, nobody makes one.
LEMMA RemoverAlone ==
  ASSUME BirthInv, NEW p \in Proc, pc[p] \in Removing
  PROVE  (\A q \in Proc : pc[q] \notin Making) /\ NoneVisible /\ job[p] \in Birth
BY DEF MakerAlone, RemoverSafe, BirthTypes, Making, Removing

\* The deleted folder goes, or stays with or without its DELETE.json.
LEMMA RemoveKeeps == ASSUME BirthInv, NEW p \in Proc, Remove(p) PROVE BirthInv'
<1>1. /\ pc[p] = "remove"
      /\ UNCHANGED <<gates, has, archive, minted, last, job, said>>
  BY DEF Remove
<1>2. (\A q \in Proc : pc[q] \notin Making) /\ NoneVisible /\ job[p] \in Birth
  BY <1>1, RemoverAlone DEF Removing
<1>3. CASE where[job[p]] = "tomb" /\ Put(job[p], "gone") /\ record' = record \ {job[p]}
           /\ Goto(p, "unlink") /\ UNCHANGED lock
  <2>1. /\ where' = [where EXCEPT ![job[p]] = "gone"] /\ pc' = [pc EXCEPT ![p] = "unlink"]
        /\ record' = record \ {job[p]} /\ UNCHANGED <<root, listers>>
    BY <1>3 DEF Put, Goto, lock
  <2>2. /\ pc'[p] = "unlink" /\ \A q \in Proc : q # p => pc'[q] = pc[q]
        /\ where'[job[p]] = "gone" /\ \A b \in Birth : b # job[p] => where'[b] = where[b]
    BY <1>2, <2>1 DEF BirthTypes
  <2>3. NoneVisible'
    BY <1>2, <2>2 DEF NoneVisible, Visible
  <2>4. BirthTypes'
    BY <1>1, <2>1 DEF BirthTypes, Labels, Places
  <2>5. \A q \in Proc : pc'[q] \notin Making /\ (pc'[q] \in Removing => pc[q] \in Removing)
    BY <1>1, <1>2, <2>2 DEF Making, Removing
  <2>6. MakerAlone'
    BY <2>5 DEF MakerAlone, Making
  <2>7. RemoverSafe'
    BY <1>1, <2>1, <2>2, <2>3, <2>5 DEF RemoverSafe, BirthTypes
  <2>8. FailedAlone'
    <3>1. \A q \in Proc : said[q] = "failed" => job[q] # job[p]
      BY <1>3 DEF FailedAlone, Unborn
    <3>2. ~(job[p] > minted)
      BY <1>2, <1>3 DEF FailedAlone
    <3>3. \A q \in Proc : pc'[q] \in {"tidy", "ungate"} => said[q] = "failed"
      BY <2>2 DEF FailedAlone
    <3> QED
      BY <1>1, <2>2, <2>5, <3>1, <3>2, <3>3 DEF FailedAlone
  <2>9. OwnGates'
    BY <2>3 DEF OwnGates, NoneVisible
  <2> QED
    BY <2>4, <2>6, <2>7, <2>8, <2>9
<1>4. CASE Release(p) /\ Goto(p, "idle") /\ UNCHANGED where /\ record' \in {record, record \ {job[p]}}
  <2>1. record' \subseteq record /\ pc' = [pc EXCEPT ![p] = "idle"] /\ UNCHANGED where
    BY <1>4 DEF Goto
  <2>2. pc'[p] = "idle" /\ \A q \in Proc : q # p => pc'[q] = pc[q]
    BY <2>1 DEF BirthTypes
  <2>3. NoneVisible'
    BY <1>2, <2>1 DEF NoneVisible, Visible
  <2>4. BirthTypes'
    BY <1>1, <1>4, <2>1, Released DEF BirthTypes, Labels
  <2>5. \A q \in Proc : pc'[q] \notin Making /\ (pc'[q] \in Removing => q # p /\ pc[q] \in Removing)
    BY <1>2, <2>2 DEF Making, Removing
  <2>6. MakerAlone'
    BY <2>5 DEF MakerAlone, Making
  <2>7. RemoverSafe'
    BY <1>1, <1>4, <2>1, <2>3, <2>5, Released DEF RemoverSafe
  <2>8. FailedAlone'
    <3>1. \A q \in Proc : pc'[q] \in {"tidy", "ungate"} => said[q] = "failed"
      BY <2>2 DEF FailedAlone
    <3> QED
      BY <1>1, <2>1, <2>5, <3>1 DEF FailedAlone
  <2>9. OwnGates'
    BY <2>3 DEF OwnGates, NoneVisible
  <2> QED
    BY <2>4, <2>6, <2>7, <2>8, <2>9
<1> QED
  BY <1>3, <1>4 DEF Remove

\* Its gates go when no exam is visible.
LEMMA UnlinkKeeps == ASSUME BirthInv, NEW p \in Proc, Unlink(p) PROVE BirthInv'
<1>1. /\ pc[p] = "unlink" /\ Release(p) /\ pc' = [pc EXCEPT ![p] = "idle"]
      /\ UNCHANGED <<where, has, record, archive, minted, last, job, said>>
  BY DEF Unlink, Goto
<1>2. (\A q \in Proc : pc[q] \notin Making) /\ NoneVisible
  BY <1>1, RemoverAlone DEF Removing
<1>3. gates' \in [Gen -> Birth \union {Absent}]
  BY DEF Unlink, BirthTypes
<1>4. pc'[p] = "idle" /\ \A q \in Proc : q # p => pc'[q] = pc[q]
  BY <1>1 DEF BirthTypes
<1>5. NoneVisible'
  BY <1>1, <1>2 DEF NoneVisible, Visible
<1>6. BirthTypes'
  BY <1>1, <1>3, Released DEF BirthTypes, Labels
<1>7. \A q \in Proc : pc'[q] \notin Making /\ (pc'[q] \in Removing => q # p /\ pc[q] \in Removing)
  BY <1>2, <1>4 DEF Making, Removing
<1>8. MakerAlone'
  BY <1>7 DEF MakerAlone, Making
<1>9. RemoverSafe'
  BY <1>1, <1>5, <1>7, Released DEF RemoverSafe
<1>10. FailedAlone'
  BY <1>1, <1>4, <1>7 DEF FailedAlone
<1>11. OwnGates'
  BY <1>5 DEF OwnGates, NoneVisible
<1> QED
  BY <1>6, <1>8, <1>9, <1>10, <1>11

-----------------------------------------------------------------------------
\* Every step keeps the invariant.
LEMMA NextKeeps == BirthInv /\ [BirthNext]_births => BirthInv'
<1> SUFFICES ASSUME BirthInv, [BirthNext]_births PROVE BirthInv'
  OBVIOUS
<1>1. ASSUME NEW p \in Proc, CreateStart(p) \/ RestoreStart(p) PROVE BirthInv'
  <2>1. CASE CreateStart(p)
    BY <2>1, BeginKeeps DEF CreateStart
  <2>2. CASE RestoreStart(p)
    BY <2>2, BeginKeeps DEF RestoreStart
  <2> QED
    BY <1>1, <2>1, <2>2
<1>2. ASSUME NEW p \in Proc, Unreserve(p) \/ Confirm(p) \/ Crash(p) PROVE BirthInv'
  <2>1. /\ Release(p) /\ pc' = [pc EXCEPT ![p] = "idle"]
        /\ said' = said \/ said' = [said EXCEPT ![p] = "none"]
        /\ UNCHANGED <<gates, where, has, record, archive, minted, last, job>>
    BY <1>2 DEF Unreserve, Confirm, Crash, Goto, Say, disk
  <2> QED
    BY <2>1, RestKeeps
<1>3. ASSUME NEW p \in Proc, NEW b \in Birth, DeleteStart(p, b) \/ SweepStart(p, b) PROVE BirthInv'
  BY <1>3, DeleteKeeps, SweepKeeps
<1>4. CASE UNCHANGED births
  <2>1. UNCHANGED <<root, listers, gates, where, has, record, archive, minted, last, pc, job, said>>
    BY <1>4 DEF births, lock, disk, local
  <2>2. BirthTypes'
    BY <2>1 DEF BirthTypes
  <2>3. MakerAlone' /\ RemoverSafe' /\ FailedAlone' /\ OwnGates'
    BY <2>1 DEF MakerAlone, RemoverSafe, FailedAlone, OwnGates, NoneVisible, Visible
  <2> QED
    BY <2>2, <2>3
<1>5. ASSUME NEW p \in Proc,
             \/ Reserve(p) \/ Stage(p) \/ Prepare(p) \/ CreateFails(p) \/ RestoreFails(p) \/ TidyFolder(p)
             \/ TidyGate(p) \/ MakeGate(p) \/ Publish(p) \/ Remove(p) \/ Unlink(p)
      PROVE  BirthInv'
  BY <1>5, StageKeeps, FailsKeeps, TidyKeeps, MakeGateKeeps, PublishKeeps, RemoveKeeps, UnlinkKeeps
<1>6. ASSUME NEW b \in Birth, Save(b) \/ Export(b) \/ Move(b) PROVE BirthInv'
  BY <1>6, SaveKeeps, ExportKeeps, MoveKeeps
<1> QED
  BY <1>1, <1>2, <1>3, <1>4, <1>5, <1>6 DEF BirthNext

\* The strengthened invariant holds in every run.
THEOREM BirthHolds == BirthSpec => []BirthInv
<1> QED
  BY InitBirth, NextKeeps, PTL DEF BirthSpec

\* A session_id is in the data folder once, with its gates, and not after its birth failed.
THEOREM BornOnce == BirthSpec => []OneHome
<1>1. BirthInv => OneHome
  <2> SUFFICES ASSUME BirthInv PROVE OneHome
    OBVIOUS
  <2>1. FailedMeansInvisible
    BY DEF FailedAlone, FailedMeansInvisible, Unborn
  <2>2. \A b \in Birth : Visible(b) => \A g \in has[b] : gates[g] # Absent
    BY DEF OwnGates, Birth, Absent
  <2>3. \A b, c \in Birth : Visible(b) /\ Visible(c) => b = c
    BY DEF OwnGates
  <2> QED
    BY <2>1, <2>2, <2>3 DEF OneHome
<1> QED
  BY <1>1, BirthHolds, PTL

-----------------------------------------------------------------------------
(***************************************************************************)
(* While nothing fails                                                     *)
(***************************************************************************)
Creating(p) ==
  /\ root = p
  /\ \/ pc[p] \in {"stage", "unreserve"}
     \/ pc[p] \in {"gate", "publish"} /\ where[job[p]] = "staging"

Holding(p, b) == root = p /\ pc[p] \in {"publish", "remove", "unlink"} /\ job[p] = b

\* The reservation is there while its maker holds the lock.
CalmReserved == reserved => \E p \in Proc : Creating(p)

\* A deleted folder is there while the program that deletes it holds the lock.
CalmTombs ==
  /\ \A b \in Birth : where[b] = "tomb" => \E p \in Proc : root = p /\ pc[p] = "remove" /\ job[p] = b
  /\ \A p \in Proc : pc[p] \in Removing => root = p
  /\ \A p \in Proc : pc[p] = "remove" => where[job[p]] = "tomb"

\* A gate file is of a generation of the visible exam, or of the one that is being
\* published or removed.
CalmGates ==
  \A g \in Gen : gates[g] # Absent =>
    /\ g \in has[gates[g]]
    /\ Visible(gates[g]) \/ \E p \in Proc : Holding(p, gates[g])

NoneFailed == \A p \in Proc : said[p] # "failed"

Calm == CalmReserved /\ CalmTombs /\ CalmGates /\ NoneFailed

CalmInv == faults \in Nat /\ (faults = 0 => Calm)

\* As long as nobody holds the lock, no trace of an exam but the visible one is left.
LEMMA UnlockedClean ==
  ASSUME BirthInv, Calm, root = NoProc
  PROVE  /\ ~reserved /\ \A b \in Birth : where[b] # "tomb"
         /\ \A p \in Proc : pc[p] \notin Removing
         /\ \A g \in Gen : gates[g] # Absent => g \in has[gates[g]] /\ Visible(gates[g])
BY DEF Calm, CalmReserved, CalmTombs, CalmGates, Creating, Holding

\* Until it makes its gates, a birth finds none.
LEMMA MakerClean ==
  ASSUME BirthInv, Calm, NEW p \in Proc, pc[p] \in Making
  PROVE  /\ \A b \in Birth : where[b] # "tomb"
         /\ \A q \in Proc : pc[q] \notin Removing
         /\ pc[p] # "publish" => \A g \in Gen : gates[g] = Absent
         /\ \A g \in Gen : gates[g] # Absent => g \in has[gates[g]] /\ gates[g] = job[p]
         /\ pc[p] = "prepare" => ~reserved
<1>1. root = p /\ NoneVisible
  BY DEF MakerAlone
<1>2. \A q \in Proc : pc[q] \notin Removing
  BY <1>1 DEF Calm, CalmTombs, Making, Removing
<1>3. \A b \in Birth : where[b] # "tomb"
  BY <1>2 DEF Calm, CalmTombs, Removing
<1>4. ASSUME NEW g \in Gen, gates[g] # Absent
      PROVE  g \in has[gates[g]] /\ gates[g] = job[p] /\ pc[p] = "publish"
  <2>1. gates[g] \in Birth
    BY <1>4 DEF BirthTypes
  <2>2. PICK q \in Proc : Holding(q, gates[g])
    BY <1>1, <1>4, <2>1 DEF Calm, CalmGates, NoneVisible
  <2>3. q = p
    BY <1>1, <2>2 DEF Holding
  <2> QED
    BY <1>2, <1>4, <2>2, <2>3 DEF Holding, Calm, CalmGates, Removing
<1>5. pc[p] = "prepare" => ~reserved
  BY <1>1 DEF Calm, CalmReserved, Creating
<1> QED
  BY <1>2, <1>3, <1>4, <1>5

\* A birth that begins finds nothing left of an earlier one.
LEMMA BeginCalm ==
  ASSUME BirthInv, Calm, NEW p \in Proc, NEW next \in {"reserve", "prepare"}, Begin(p, next)
  PROVE  Calm'
<1>1. /\ pc[p] = "idle" /\ root = NoProc /\ UNCHANGED <<reserved, gates, where, has>>
  BY DEF Begin, disk, Free
<1>2. /\ ~reserved /\ \A b \in Birth : where[b] # "tomb"
      /\ \A q \in Proc : pc[q] \notin Removing
      /\ \A g \in Gen : gates[g] # Absent => g \in has[gates[g]] /\ Visible(gates[g])
  BY <1>1, UnlockedClean
<1>3. /\ pc' = pc \/ pc' = [pc EXCEPT ![p] = next]
      /\ \E a \in {"conflict", "none"} : said' = [said EXCEPT ![p] = a]
  BY DEF Begin, Goto, Say
<1>4. \A q \in Proc : pc'[q] \notin Removing
  BY <1>2, <1>3 DEF BirthTypes, Removing
<1>5. CalmReserved' /\ CalmTombs'
  BY <1>1, <1>2, <1>4 DEF CalmReserved, CalmTombs, Removing
<1>6. CalmGates'
  BY <1>1, <1>2 DEF CalmGates, Visible
<1>7. NoneFailed'
  BY <1>3 DEF Calm, NoneFailed, BirthTypes
<1> QED
  BY <1>5, <1>6, <1>7 DEF Calm

\* A birth makes its reservation, its folder, its gates and its exam in this order.
LEMMA MakeCalm ==
  ASSUME BirthInv, Calm, NEW p \in Proc, Reserve(p) \/ Stage(p) \/ Prepare(p) \/ MakeGate(p)
  PROVE  Calm'
<1>1. /\ pc[p] \in {"reserve", "stage", "prepare", "gate"}
      /\ UNCHANGED <<root, job, said>>
  BY DEF Reserve, Stage, Prepare, MakeGate, lock
<1>2. root = p /\ job[p] \in Birth
  BY <1>1 DEF MakerAlone, Making
<1>3. /\ \A b \in Birth : where[b] # "tomb"
      /\ \A q \in Proc : pc[q] \notin Removing
      /\ \A g \in Gen : gates[g] = Absent
      /\ pc[p] = "prepare" => ~reserved
  BY <1>1, MakerClean DEF Making
<1>4. \E l \in {"stage", "gate", "publish"} : pc' = [pc EXCEPT ![p] = l]
  BY DEF Reserve, Stage, Prepare, MakeGate, Goto
<1>5. \A q \in Proc : pc'[q] \notin Removing
  BY <1>3, <1>4 DEF BirthTypes, Removing
<1>6. where' = where \/ where' = [where EXCEPT ![job[p]] = "staging"] \/ where' = [where EXCEPT ![job[p]] = "prepared"]
  BY DEF Reserve, Stage, Prepare, MakeGate, Put
<1>7. \A b \in Birth : where'[b] # "tomb"
  BY <1>3, <1>6 DEF BirthTypes
<1>8. CalmTombs'
  BY <1>5, <1>7 DEF CalmTombs, Removing
<1>9. CalmReserved'
  <2>1. CASE Reserve(p)
    <3>1. pc'[p] = "stage" /\ root' = p
      BY <1>1, <1>2, <2>1 DEF Reserve, Goto, BirthTypes
    <3> QED
      BY <3>1 DEF CalmReserved, Creating
  <2>2. CASE Stage(p)
    <3>1. pc'[p] = "gate" /\ root' = p /\ where'[job'[p]] = "staging"
      BY <1>1, <1>2, <2>2 DEF Stage, Goto, Put, BirthTypes
    <3> QED
      BY <3>1 DEF CalmReserved, Creating
  <2>3. CASE Prepare(p)
    BY <1>3, <2>3 DEF Prepare, CalmReserved
  <2>4. CASE MakeGate(p)
    <3>1. pc[p] = "gate" /\ pc'[p] = "publish" /\ UNCHANGED <<where, reserved>>
      BY <2>4 DEF MakeGate, Goto, BirthTypes
    <3>2. reserved => where[job[p]] = "staging"
      BY <1>2, <3>1 DEF Calm, CalmReserved, Creating
    <3> QED
      BY <1>1, <1>2, <3>1, <3>2 DEF CalmReserved, Creating
  <2> QED
    BY <2>1, <2>2, <2>3, <2>4
<1>10. CalmGates'
  <2>1. CASE MakeGate(p)
    <3>1. /\ pc'[p] = "publish" /\ UNCHANGED has
          /\ gates' = [g \in Gen |-> IF g \in has[job[p]] THEN job[p] ELSE gates[g]]
      BY <2>1 DEF MakeGate, Goto, BirthTypes
    <3>2. ASSUME NEW g \in Gen, gates'[g] # Absent PROVE g \in has[job[p]] /\ gates'[g] = job[p]
      BY <1>3, <3>1, <3>2
    <3>3. Holding(p, job[p])'
      BY <1>1, <1>2, <3>1 DEF Holding
    <3> QED
      BY <1>1, <3>1, <3>2, <3>3 DEF CalmGates
  <2>2. CASE UNCHANGED gates
    BY <1>3, <2>2 DEF CalmGates
  <2> QED
    BY <2>1, <2>2 DEF Reserve, Stage, Prepare
<1>11. NoneFailed'
  BY <1>1 DEF Calm, NoneFailed
<1> QED
  BY <1>8, <1>9, <1>10, <1>11 DEF Calm

\* The exam that becomes visible owns the gates.
LEMMA PublishCalm == ASSUME BirthInv, Calm, NEW p \in Proc, Publish(p) PROVE Calm'
<1>1. /\ pc[p] = "publish" /\ UNCHANGED <<root, reserved, gates, has, job>>
      /\ pc' = [pc EXCEPT ![p] = IF where[job[p]] = "staging" THEN "unreserve" ELSE "confirm"]
      /\ where' = [where EXCEPT ![job[p]] = "active"] /\ said' = [said EXCEPT ![p] = "ok"]
  BY DEF Publish, Goto, Put, Say, lock
<1>2. root = p /\ job[p] \in Birth
  BY <1>1 DEF MakerAlone, Making
<1>3. /\ \A b \in Birth : where[b] # "tomb"
      /\ \A q \in Proc : pc[q] \notin Removing
      /\ \A g \in Gen : gates[g] # Absent => g \in has[gates[g]] /\ gates[g] = job[p]
  BY <1>1, MakerClean DEF Making
<1>4. (\A b \in Birth : where'[b] # "tomb") /\ Visible(job[p])'
  BY <1>1, <1>2, <1>3 DEF BirthTypes, Visible
<1>5. \A q \in Proc : pc'[q] \notin Removing
  BY <1>1, <1>3 DEF BirthTypes, Removing
<1>6. CalmTombs'
  BY <1>4, <1>5 DEF CalmTombs, Removing
<1>7. CalmReserved'
  <2>1. reserved => where[job[p]] = "staging"
    BY <1>1, <1>2 DEF Calm, CalmReserved, Creating
  <2>2. reserved => pc'[p] = "unreserve"
    BY <1>1, <2>1 DEF BirthTypes
  <2> QED
    BY <1>1, <1>2, <2>2 DEF CalmReserved, Creating
<1>8. CalmGates'
  BY <1>1, <1>3, <1>4 DEF CalmGates
<1>9. NoneFailed'
  BY <1>1 DEF Calm, NoneFailed, BirthTypes
<1> QED
  BY <1>6, <1>7, <1>8, <1>9 DEF Calm

\* A birth that ends has taken its reservation back.
LEMMA EndCalm ==
  ASSUME BirthInv, Calm, NEW p \in Proc, faults' = faults, faults \in Nat, Unreserve(p) \/ Confirm(p)
  PROVE  Calm'
<1>1. /\ pc[p] \in {"unreserve", "confirm"} /\ pc' = [pc EXCEPT ![p] = "idle"] /\ Release(p)
      /\ UNCHANGED <<gates, where, has, job, said>>
  BY DEF Unreserve, Confirm, Goto, disk
<1>2. /\ pc'[p] = "idle" /\ \A q \in Proc : q # p => pc'[q] = pc[q]
      /\ \A q \in Proc : q # p /\ root = q => root' = q
  BY <1>1, Released DEF BirthTypes
<1>3. CalmReserved'
  <2>1. CASE Unreserve(p)
    <3>1. ~reserved'
      BY <2>1 DEF Unreserve, Fault
    <3> QED
      BY <3>1 DEF CalmReserved
  <2>2. CASE Confirm(p)
    <3>1. UNCHANGED reserved /\ pc[p] = "confirm"
      BY <2>2 DEF Confirm, disk
    <3>2. \A q \in Proc : Creating(q) => Creating(q)'
      BY <1>1, <1>2, <3>1 DEF Creating
    <3> QED
      BY <3>1, <3>2 DEF Calm, CalmReserved
  <2> QED
    BY <2>1, <2>2
<1>4. CalmTombs'
  BY <1>1, <1>2 DEF Calm, CalmTombs, Removing
<1>5. CalmGates'
  <2>1. \A q \in Proc : \A b \in Birth : Holding(q, b) => Holding(q, b)'
    BY <1>1, <1>2 DEF Holding
  <2>2. \A g \in Gen : gates[g] # Absent => gates[g] \in Birth
    BY DEF BirthTypes
  <2> QED
    BY <1>1, <2>1, <2>2 DEF Calm, CalmGates, Visible
<1>6. NoneFailed'
  BY <1>1 DEF Calm, NoneFailed
<1> QED
  BY <1>3, <1>4, <1>5, <1>6 DEF Calm

-----------------------------------------------------------------------------
\* A save takes the gates of the generations it takes.
LEMMA SaveCalm == ASSUME BirthInv, Calm, NEW b \in Birth, Save(b) PROVE Calm'
<1>1. /\ Visible(b) /\ UNCHANGED <<root, reserved, where, pc, job, said>>
  BY DEF Save, lock, local, Visible
<1>2. PICK kept \in {has[b], {}} :
        /\ has' = [has EXCEPT ![b] = kept \union {last'}]
        /\ gates' = [g \in Gen |-> IF g = last' THEN b
                                   ELSE IF g \in has[b] \ kept THEN Absent ELSE gates[g]]
  BY DEF Save
<1>3. has'[b] = kept \union {last'}
  BY <1>2 DEF BirthTypes
<1>4. ASSUME NEW g \in Gen, gates'[g] # Absent PROVE gates'[g] = b /\ g \in has'[b]
  <2>1. CASE g = last'
    BY <1>2, <1>3, <2>1
  <2>2. CASE g # last'
    <3>1. gates[g] # Absent /\ gates'[g] = gates[g] /\ g \notin has[b] \ kept
      BY <1>2, <1>4, <2>2
    <3>2. gates[g] \in Birth /\ g \in has[gates[g]]
      BY <3>1 DEF BirthTypes, Calm, CalmGates
    <3>3. Visible(gates[g])
      BY <1>1, <3>1, VisibleAlone DEF Calm, CalmGates, Holding, Making, Removing
    <3>4. gates[g] = b
      BY <1>1, <3>2, <3>3, VisibleAlone
    <3> QED
      BY <1>3, <3>1, <3>2, <3>4
  <2> QED
    BY <2>1, <2>2
<1>5. CalmGates'
  BY <1>1, <1>4 DEF CalmGates, Visible
<1>6. CalmReserved' /\ CalmTombs' /\ NoneFailed'
  BY <1>1 DEF Calm, CalmReserved, CalmTombs, NoneFailed, Creating
<1> QED
  BY <1>5, <1>6 DEF Calm

\* Into the trash and out of it, an exam keeps its gates.
LEMMA MoveCalm == ASSUME BirthInv, Calm, NEW b \in Birth, Move(b) PROVE Calm'
<1>1. /\ root = NoProc /\ Visible(b) /\ \E w \in {"active", "trash"} : where' = [where EXCEPT ![b] = w]
      /\ UNCHANGED <<reserved, gates, has, pc, job, said>>
  BY DEF Move, Put, Free, local
<1>2. /\ ~reserved /\ \A c \in Birth : where[c] # "tomb"
      /\ \A p \in Proc : pc[p] \notin Removing
      /\ \A g \in Gen : gates[g] # Absent => g \in has[gates[g]] /\ Visible(gates[g])
  BY <1>1, UnlockedClean
<1>3. \A c \in Birth : where'[c] # "tomb" /\ (Visible(c) => Visible(c)')
  BY <1>1, <1>2 DEF Visible, BirthTypes
<1>4. CalmGates'
  BY <1>1, <1>2, <1>3 DEF CalmGates, BirthTypes
<1>5. CalmReserved' /\ CalmTombs' /\ NoneFailed'
  BY <1>1, <1>2, <1>3 DEF Calm, CalmReserved, CalmTombs, NoneFailed, Removing
<1> QED
  BY <1>4, <1>5 DEF Calm

\* Whoever deletes an exam has its gates left to remove.
LEMMA DeleteCalm ==
  ASSUME BirthInv, Calm, NEW p \in Proc, NEW b \in Birth, DeleteStart(p, b)
  PROVE  Calm'
<1>1. /\ Visible(b) /\ root = NoProc /\ root' = p /\ pc' = [pc EXCEPT ![p] = "remove"]
      /\ job' = [job EXCEPT ![p] = b] /\ said' = [said EXCEPT ![p] = "none"]
      /\ where' = [where EXCEPT ![b] = "tomb"]
      /\ UNCHANGED <<reserved, gates, has>>
  BY DEF DeleteStart, Goto, Say, Put, Free, Visible
<1>2. /\ ~reserved /\ \A c \in Birth : where[c] # "tomb"
      /\ \A q \in Proc : pc[q] \notin Removing
      /\ \A g \in Gen : gates[g] # Absent => g \in has[gates[g]] /\ Visible(gates[g])
  BY <1>1, UnlockedClean
<1>3. /\ pc'[p] = "remove" /\ job'[p] = b /\ where'[b] = "tomb"
      /\ \A q \in Proc : q # p => pc'[q] \notin Removing
      /\ \A c \in Birth : where'[c] = "tomb" => c = b
  BY <1>1, <1>2 DEF BirthTypes
<1>4. CalmTombs'
  BY <1>1, <1>3 DEF CalmTombs, Removing
<1>5. CalmGates'
  <2>1. \A g \in Gen : gates[g] # Absent => gates[g] = b
    BY <1>1, <1>2, VisibleAlone DEF BirthTypes
  <2>2. Holding(p, b)'
    BY <1>1, <1>3 DEF Holding
  <2> QED
    BY <1>1, <1>2, <2>1, <2>2 DEF CalmGates
<1>6. CalmReserved' /\ NoneFailed'
  BY <1>1, <1>2 DEF Calm, CalmReserved, NoneFailed, BirthTypes
<1> QED
  BY <1>4, <1>5, <1>6 DEF Calm

\* The folder goes first, while nobody is in the way.
LEMMA RemoveCalm ==
  ASSUME BirthInv, Calm, NEW p \in Proc, faults' = faults, faults \in Nat, Remove(p)
  PROVE  Calm'
<1>1. pc[p] = "remove" /\ root = p /\ where[job[p]] = "tomb" /\ job[p] \in Birth
  BY RemoverAlone DEF Remove, Calm, CalmTombs, Removing
<1>2. \A q \in Proc : q # p => pc[q] \notin Removing
  BY <1>1 DEF Calm, CalmTombs
<1>3. ~Contended(p) /\ ~Fault
  BY <1>1, <1>2 DEF Contended, Fault, Removing
<1>4. /\ where' = [where EXCEPT ![job[p]] = "gone"] /\ pc' = [pc EXCEPT ![p] = "unlink"]
      /\ UNCHANGED <<root, reserved, gates, has, job, said>>
  BY <1>3 DEF Remove, Put, Goto, lock
<1>5. \A b \in Birth : where[b] = "tomb" => b = job[p]
  BY <1>1 DEF Calm, CalmTombs
<1>6. /\ pc'[p] = "unlink" /\ (\A q \in Proc : q # p => pc'[q] = pc[q])
      /\ \A b \in Birth : where'[b] # "tomb" /\ (Visible(b) => Visible(b)')
  BY <1>1, <1>4, <1>5 DEF BirthTypes, Visible
<1>7. CalmTombs'
  BY <1>1, <1>2, <1>4, <1>6 DEF CalmTombs, Removing
<1>8. CalmReserved'
  BY <1>1, <1>4 DEF Calm, CalmReserved, Creating
<1>9. CalmGates'
  <2>1. \A q \in Proc : \A b \in Birth : Holding(q, b) => Holding(q, b)'
    BY <1>4, <1>6 DEF Holding
  <2>2. \A g \in Gen : gates[g] # Absent => gates[g] \in Birth
    BY DEF BirthTypes
  <2> QED
    BY <1>4, <1>6, <2>1, <2>2 DEF Calm, CalmGates
<1>10. NoneFailed'
  BY <1>4 DEF Calm, NoneFailed
<1> QED
  BY <1>7, <1>8, <1>9, <1>10 DEF Calm

\* Then its gates, all of them.
LEMMA UnlinkCalm ==
  ASSUME BirthInv, Calm, NEW p \in Proc, faults' = faults, faults \in Nat, Unlink(p)
  PROVE  Calm'
<1>1. pc[p] = "unlink" /\ root = p /\ NoneVisible
  BY RemoverAlone DEF Unlink, Calm, CalmTombs, Removing
<1>2. /\ gates' = [g \in Gen |-> IF g \in has[job[p]] THEN Absent ELSE gates[g]]
      /\ pc' = [pc EXCEPT ![p] = "idle"] /\ UNCHANGED <<reserved, where, has, job, said>>
  BY DEF Unlink, Fault, Goto
<1>3. \A g \in Gen : gates'[g] = Absent
  <2> SUFFICES ASSUME NEW g \in Gen, gates[g] # Absent PROVE g \in has[job[p]]
    BY <1>2
  <2>1. gates[g] \in Birth
    BY DEF BirthTypes
  <2>2. PICK q \in Proc : Holding(q, gates[g])
    BY <1>1, <2>1 DEF Calm, CalmGates, NoneVisible
  <2> QED
    BY <1>1, <2>2 DEF Holding, Calm, CalmGates
<1>4. ~reserved /\ (\A b \in Birth : where[b] # "tomb") /\ \A q \in Proc : q # p => pc[q] \notin Removing
  BY <1>1 DEF Calm, CalmReserved, CalmTombs, Creating
<1>5. \A q \in Proc : pc'[q] \notin Removing
  BY <1>2, <1>4 DEF BirthTypes, Removing
<1>6. CalmTombs' /\ CalmReserved' /\ CalmGates' /\ NoneFailed'
  BY <1>2, <1>3, <1>4, <1>5 DEF Calm, CalmTombs, CalmReserved, CalmGates, NoneFailed, Removing
<1> QED
  BY <1>6 DEF Calm

-----------------------------------------------------------------------------
\* Without a fault, nothing that ends with one happens.
LEMMA NothingFails ==
  ASSUME BirthInv, Calm, NEW p \in Proc, faults' = faults, faults \in Nat
  PROVE  /\ ~CreateFails(p) /\ ~RestoreFails(p) /\ ~TidyFolder(p) /\ ~TidyGate(p) /\ ~Crash(p)
         /\ \A b \in Birth : ~SweepStart(p, b)
<1>1. ~Fault
  BY DEF Fault
<1>2. ASSUME pc[p] = "gate" PROVE ~Blocked(p)
  <2>1. job[p] \in Birth /\ \A g \in Gen : gates[g] = Absent
    BY <1>2, MakerClean DEF MakerAlone, Making
  <2> QED
    BY <2>1 DEF Blocked, BirthTypes
<1>3. ~CreateFails(p) /\ ~RestoreFails(p) /\ ~Crash(p)
  BY <1>1, <1>2 DEF CreateFails, RestoreFails, Crash
<1>4. ~TidyFolder(p) /\ ~TidyGate(p)
  BY DEF TidyFolder, TidyGate, FailedAlone, Calm, NoneFailed
<1>5. \A b \in Birth : ~SweepStart(p, b)
  BY DEF SweepStart, Calm, CalmTombs
<1> QED
  BY <1>3, <1>4, <1>5

\* Every step without a fault keeps the folder clean.
LEMMA CalmKeeps == BirthInv /\ CalmInv /\ [BirthNext]_births => CalmInv'
<1> SUFFICES ASSUME BirthInv, CalmInv, [BirthNext]_births PROVE CalmInv'
  OBVIOUS
<1>1. faults' \in Nat /\ (faults' = faults \/ faults' = faults + 1)
  <2>1. ASSUME Fault PROVE faults' = faults + 1
    BY <2>1 DEF Fault
  <2>2. ASSUME NEW p \in Proc, CreateFails(p) \/ RestoreFails(p) \/ Remove(p) \/ Crash(p)
        PROVE  faults' = faults \/ faults' = faults + 1
    BY <2>1, <2>2 DEF CreateFails, RestoreFails, Remove, Crash
  <2>3. ASSUME NEW p \in Proc, Unreserve(p) \/ TidyFolder(p) \/ TidyGate(p) \/ Unlink(p)
        PROVE  faults' = faults \/ faults' = faults + 1
    BY <2>1, <2>3 DEF Unreserve, TidyFolder, TidyGate, Unlink
  <2>4. ASSUME NEW p \in Proc,
               \/ CreateStart(p) \/ RestoreStart(p) \/ Reserve(p) \/ Stage(p) \/ Prepare(p)
               \/ MakeGate(p) \/ Publish(p) \/ Confirm(p)
        PROVE  faults' = faults
    BY <2>4 DEF CreateStart, RestoreStart, Begin, Reserve, Stage, Prepare, MakeGate, Publish, Confirm
  <2>5. ASSUME NEW b \in Birth,
               Save(b) \/ Export(b) \/ Move(b) \/ \E p \in Proc : DeleteStart(p, b) \/ SweepStart(p, b)
        PROVE  faults' = faults
    BY <2>5 DEF Save, Export, Move, DeleteStart, SweepStart
  <2>6. faults' = faults \/ faults' = faults + 1
    BY <2>2, <2>3, <2>4, <2>5 DEF BirthNext, births
  <2> QED
    BY <2>6 DEF CalmInv
<1>2. ASSUME faults' = 0 PROVE Calm'
  <2>1. faults = 0 /\ faults' = faults /\ Calm /\ faults \in Nat
    BY <1>1, <1>2 DEF CalmInv
  <2>2. CASE UNCHANGED births
    BY <2>1, <2>2
    DEF births, lock, disk, local, Calm, CalmReserved, CalmTombs, CalmGates, NoneFailed, Creating, Holding, Visible
  <2>3. ASSUME NEW p \in Proc, CreateStart(p) \/ RestoreStart(p) PROVE Calm'
    <3>1. \E next \in {"reserve", "prepare"} : Begin(p, next)
      BY <2>3 DEF CreateStart, RestoreStart
    <3> QED
      BY <2>1, <3>1, BeginCalm
  <2>4. ASSUME NEW p \in Proc,
               \/ Reserve(p) \/ Stage(p) \/ Prepare(p) \/ MakeGate(p) \/ Publish(p)
               \/ Unreserve(p) \/ Confirm(p) \/ Remove(p) \/ Unlink(p)
        PROVE  Calm'
    BY <2>1, <2>4, MakeCalm, PublishCalm, EndCalm, RemoveCalm, UnlinkCalm
  <2>5. ASSUME NEW b \in Birth, Save(b) \/ Move(b) \/ \E p \in Proc : DeleteStart(p, b)
        PROVE  Calm'
    BY <2>1, <2>5, SaveCalm, MoveCalm, DeleteCalm
  <2>6. ASSUME NEW b \in Birth, Export(b) PROVE Calm'
    <3>1. UNCHANGED <<lock, disk, local>>
      BY <2>6 DEF Export
    <3> QED
      BY <2>1, <3>1
      DEF lock, disk, local, Calm, CalmReserved, CalmTombs, CalmGates, NoneFailed, Creating, Holding, Visible
  <2> QED
    BY <2>1, <2>2, <2>3, <2>4, <2>5, <2>6, NothingFails DEF BirthNext
<1> QED
  BY <1>1, <1>2 DEF CalmInv

\* An empty folder is clean.
LEMMA InitCalm == BirthInit => CalmInv
BY DEF BirthInit, CalmInv, Calm, CalmReserved, CalmTombs, CalmGates, NoneFailed, Removing, Birth, Gen

\* As long as nothing fails, no birth is refused for an exam that is not there, and none fails.
THEOREM CalmWhileNothingFails == BirthSpec => CalmBirths
<1>1. BirthInv /\ CalmInv /\ CalmInv' /\ [BirthNext]_births
        => [faults' = 0 => \A p \in Proc :
              /\ said'[p] = "conflict" /\ said[p] # "conflict" => There
              /\ said'[p] # "failed"]_births
  <2> SUFFICES ASSUME BirthInv, CalmInv, CalmInv', BirthNext, faults' = 0, NEW p \in Proc
               PROVE  /\ said'[p] = "conflict" /\ said[p] # "conflict" => There
                      /\ said'[p] # "failed"
    OBVIOUS
  <2>1. said'[p] # "failed"
    BY DEF CalmInv, Calm, NoneFailed
  <2>2. ASSUME said'[p] = "conflict", said[p] # "conflict" PROVE There
    <3>1. PICK q \in Proc : \E next \in {"reserve", "prepare"} : Begin(q, next)
      <4>1. ASSUME NEW q \in Proc,
                   \/ Reserve(q) \/ Stage(q) \/ Prepare(q) \/ MakeGate(q)
                   \/ Unreserve(q) \/ Confirm(q) \/ TidyFolder(q) \/ TidyGate(q) \/ Remove(q) \/ Unlink(q)
            PROVE  UNCHANGED said
        BY <4>1 DEF Reserve, Stage, Prepare, MakeGate, Unreserve, Confirm, TidyFolder, TidyGate, Remove, Unlink
      <4>2. ASSUME NEW q \in Proc,
                   \/ Publish(q) \/ CreateFails(q) \/ RestoreFails(q) \/ Crash(q)
                   \/ \E b \in Birth : DeleteStart(q, b) \/ SweepStart(q, b)
            PROVE  \E a \in {"ok", "failed", "none"} : said' = [said EXCEPT ![q] = a]
        BY <4>2 DEF Publish, CreateFails, RestoreFails, Crash, DeleteStart, SweepStart, Say
      <4>3. ASSUME NEW b \in Birth, Save(b) \/ Export(b) \/ Move(b) PROVE UNCHANGED said
        BY <4>3 DEF Save, Export, Move, local
      <4>4. ASSUME NEW q \in Proc, CreateStart(q) \/ RestoreStart(q)
            PROVE  \E next \in {"reserve", "prepare"} : Begin(q, next)
        BY <4>4 DEF CreateStart, RestoreStart
      <4>5. ASSUME NEW q \in Proc, NEW a \in {"ok", "failed", "none"}, said' = [said EXCEPT ![q] = a]
            PROVE  FALSE
        BY <2>2, <4>5 DEF BirthTypes
      <4> QED
        BY <2>2, <4>1, <4>2, <4>3, <4>4, <4>5 DEF BirthNext
    <3>2. root = NoProc /\ faults = 0 /\ Exists
      <4>1. root = NoProc /\ faults' = faults
        BY <3>1 DEF Begin, Free
      <4>2. CASE ~Exists
        <5>1. said' = [said EXCEPT ![q] = "none"]
          BY <3>1, <4>2 DEF Begin, Say
        <5> QED
          BY <2>2, <5>1 DEF BirthTypes
      <4> QED
        BY <4>1, <4>2
    <3> QED
      BY <3>2, UnlockedClean DEF CalmInv, Exists, There
  <2> QED
    BY <2>1, <2>2
<1> QED
  BY <1>1, InitBirth, InitCalm, NextKeeps, CalmKeeps, PTL DEF BirthSpec, CalmBirths
=============================================================================
