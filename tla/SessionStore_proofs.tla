------------------------- MODULE SessionStore_proofs -------------------------
(***************************************************************************)
(* Proofs about SessionStore, for every number of processes, generations,  *)
(* open attempts and faults.                                               *)
(*                                                                         *)
(* IInv is the inductive invariant.  Each action has a lemma that it keeps *)
(* IInv, with one step per part: the types, what was minted, the lock      *)
(* table, and what a reader, a saver and a mover hold while they run.      *)
(*                                                                         *)
(* The last part is about ExamListing, which has the same folders as a     *)
(* user of Explorer may leave them, and one call of the program at a time. *)
(***************************************************************************)
EXTENDS SessionStore, ExamListing, FiniteSetTheorems, TLAPS

USE ProcAssumption, MaxGenAssumption, TriesAssumption, FoldersAssumption, FaultAssumption

\* The two fixed locks and the gates are different locks.
LEMMA LockNumbers ==
  /\ Writer \in Lock /\ Root \in Lock /\ Writer # Root
  /\ \A g \in Gen : g \in Lock /\ g # Writer /\ g # Root
BY DEF Writer, Root, Lock, Gen

\* The invariant holds of a session just created.
LEMMA InitInv == Init => IInv
<1> SUFFICES ASSUME Init PROVE IInv
  OBVIOUS
<1>1. TypeOK
  <2>1. DiskTypes /\ faults \in 0 .. MaxFaults
    <3>1. bare \in BOOLEAN
      BY Zenon DEF Init
    <3> QED
      BY <3>1 DEF Init, DiskTypes, Gen, None
  <2>2. MintTypes
    BY DEF Init, MintTypes, Gen, None
  <2>3. LockTypes
    BY DEF Init, LockTypes
  <2>4. ProcTypes
    BY DEF Init, ProcTypes, Labels, None
  <2> QED
    BY <2>1, <2>2, <2>3, <2>4 DEF TypeOK
<1>2. MintInv /\ LockInv
  BY DEF Init, MintInv, LockInv, Gen
<1>3. ReadInv /\ SaveInv /\ ExclusiveInv
  BY DEF Init, ReadInv, ReadOf, SaveInv, SaveOf, ExclusiveInv, ExclusiveOf, Opening,
      Saving, Staging, Pruning, Exclusive
<1>4. LeasePinned /\ CurrentPresent
  BY DEF Init, LeasePinned, CurrentPresent
<1> QED
  BY <1>1, <1>2, <1>3, <1>4 DEF IInv

\* When the holder of the writer lock is past what it needs it for, nobody moves, deletes
\* or finishes.
LEMMA ExclusiveAlone ==
  ASSUME IInv, NEW p \in Proc, ex[Writer] = p, pc'[p] \notin Exclusive \union {"clean", "finish"},
         \A q \in Proc : q # p => pc'[q] = pc[q]
  PROVE  ExclusiveInv'
<1>1. \A q \in Proc : q # p => pc[q] \notin Exclusive \union {"clean", "finish"}
  BY DEF IInv, ExclusiveInv, ExclusiveOf
<1> QED
  BY <1>1 DEF ExclusiveInv, ExclusiveOf

-----------------------------------------------------------------------------
\* Opening a lease.
LEMMA OpenStartInv == ASSUME IInv, NEW p \in Proc, OpenStart(p) PROVE IInv'
<1>1. TypeOK'
  <2>1. pc' \in [Proc -> Labels]
    BY DEF IInv, TypeOK, ProcTypes, OpenStart, Labels, Goto, At
  <2>2. arg' \in [Proc -> Gen \union {None}]
    BY DEF IInv, TypeOK, ProcTypes, DiskTypes, OpenStart, Gen, None
  <2>3. from' \in [Proc -> {"active", "trash"}]
    BY DEF IInv, TypeOK, ProcTypes, OpenStart, Live
  <2>4. tries' \in [Proc -> 0 .. OpenTries]
    BY DEF IInv, TypeOK, ProcTypes, OpenStart
  <2>5. (faults \in 0 .. MaxFaults)'
    BY DEF IInv, TypeOK, OpenStart
  <2> QED
    BY <2>1, <2>2, <2>3, <2>4, <2>5
    DEF IInv, TypeOK, DiskTypes, MintTypes, LockTypes, ProcTypes, OpenStart,
        disk, meta, locks
<1>2. MintInv'
  BY DEF IInv, TypeOK, MintInv, DiskTypes, MintTypes, Gen, OpenStart, At,
        Goto, disk, meta, locks
<1>3. LockInv'
  BY DEF IInv, TypeOK, LockInv, LockTypes, Lock, Gen, OpenStart, At, Goto,
        disk, meta, locks
<1>4. ReadInv'
  BY DEF IInv, TypeOK, ReadInv, ReadOf, LockTypes, ProcTypes, Opening,
        Labels, None, Gen, Lock, OpenStart, At, Goto, disk, meta, locks
<1>5. SaveInv'
  BY DEF IInv, TypeOK, SaveInv, SaveOf, MintTypes, LockTypes, ProcTypes,
        Saving, Staging, Pruning, Labels, Lock, Gen, Writer, OpenStart, At,
        Goto, disk, meta, locks
<1>6. ExclusiveInv'
  BY DEF IInv, TypeOK, ExclusiveInv, ExclusiveOf, LockTypes, ProcTypes,
        Exclusive, Live, Labels, Lock, Gen, Writer, OpenStart, At, Goto,
        disk, meta, locks
<1>7. LeasePinned'
  BY DEF IInv, TypeOK, LeasePinned, ProcTypes, Live, None, OpenStart, At,
        Goto, disk, meta, locks
<1>8. CurrentPresent'
  BY DEF IInv, TypeOK, CurrentPresent, DiskTypes, Live, OpenStart, At, Goto,
        disk, meta, locks
<1> QED
  BY <1>1, <1>2, <1>3, <1>4, <1>5, <1>6, <1>7, <1>8 DEF IInv

\* Taking the gate of an open keeps the invariant.
LEMMA OpenGateInv == ASSUME IInv, NEW p \in Proc, OpenGate(p) PROVE IInv'
<1>1. TypeOK'
  <2>1. pc' \in [Proc -> Labels]
    BY DEF IInv, TypeOK, ProcTypes, OpenGate, Labels, Goto, At, OpenFail
  <2>2. arg' \in [Proc -> Gen \union {None}]
    BY DEF IInv, TypeOK, ProcTypes, OpenGate, OpenFail, Gen, None
  <2>3. tries' \in [Proc -> 0 .. OpenTries]
    BY DEF IInv, TypeOK, ProcTypes, OpenGate, OpenFail
  <2>4. sh' \in [Lock -> SUBSET Proc]
    BY DEF IInv, TypeOK, LockTypes, ReadInv, ReadOf, Opening, At, DiskTypes,
        OpenGate, Lock, Gen, DropShared, OpenFail, Root, Writer
  <2>5. (faults \in 0 .. MaxFaults)'
    BY DEF IInv, TypeOK, OpenGate
  <2>6. UNCHANGED <<lease, seen>>
    BY DEF OpenGate, OpenFail
  <2> QED
    BY <2>1, <2>2, <2>3, <2>4, <2>5, <2>6
    DEF IInv, TypeOK, DiskTypes, MintTypes, LockTypes, ProcTypes, OpenGate,
        disk, meta
<1>2. MintInv'
  BY DEF IInv, TypeOK, MintInv, DiskTypes, MintTypes, Gen, OpenGate, At,
        Goto, OpenFail, DropShared, Shareable, disk, meta, Root, Writer
<1>3. LockInv'
  BY DEF IInv, TypeOK, LockInv, LockTypes, Lock, Gen, OpenGate, At, Goto,
        OpenFail, DropShared, Shareable, disk, meta, Root, Writer
<1>4. ReadInv'
  <2>1. \A q \in Proc : q # p => pc'[q] = pc[q] /\ arg'[q] = arg[q]
    BY DEF IInv, TypeOK, ProcTypes, OpenGate, OpenFail, Goto
  <2>2. lease[p] = None /\ UNCHANGED lease
    BY DEF IInv, ReadInv, ReadOf, Opening, OpenGate, OpenFail, At
  <2>3. \A q \in Proc, l \in Lock : q # p /\ q \in sh[l] => q \in sh'[l]
    BY DEF IInv, TypeOK, LockTypes, OpenGate, OpenFail, DropShared
  <2>4. ASSUME NEW q \in Proc, q # p PROVE ReadOf(q)'
    BY <2>1, <2>2, <2>3, <2>4, LockNumbers DEF IInv, TypeOK, ProcTypes, ReadInv, ReadOf
  <2>5. pc'[p] = "check" => arg'[p] \in Gen /\ p \in sh'[arg'[p]]
    BY LockNumbers DEF IInv, TypeOK, DiskTypes, LockTypes, ProcTypes, OpenGate, OpenFail, Goto
  <2> QED
    BY <2>2, <2>4, <2>5 DEF ReadInv, ReadOf
<1>5. SaveInv'
  <2>1. pc'[p] \notin Saving
    BY DEF IInv, TypeOK, ProcTypes, OpenGate, OpenFail, Goto, At, Saving, Staging, Pruning
  <2>2. \A q \in Proc : q # p => pc'[q] = pc[q] /\ arg'[q] = arg[q]
    BY DEF IInv, TypeOK, ProcTypes, OpenGate, OpenFail, Goto
  <2>3. UNCHANGED <<seen, lease, ex, batch, disk, meta>>
    BY DEF OpenGate, OpenFail
  <2> QED
    BY <2>1, <2>2, <2>3 DEF IInv, SaveInv, SaveOf, Saving, Staging, Pruning, disk, meta
<1>6. ExclusiveInv'
  BY DEF IInv, TypeOK, ExclusiveInv, ExclusiveOf, LockTypes, ProcTypes,
        Exclusive, Live, Labels, Lock, Gen, Writer, OpenGate, At, Goto,
        OpenFail, DropShared, Shareable, disk, meta, Root
<1>7. LeasePinned'
  BY DEF IInv, TypeOK, LeasePinned, ProcTypes, Live, None, OpenGate, At,
        Goto, OpenFail, DropShared, Shareable, disk, meta, Root, Writer
<1>8. CurrentPresent'
  BY DEF IInv, TypeOK, CurrentPresent, DiskTypes, Live, OpenGate, At, Goto,
        OpenFail, DropShared, Shareable, disk, meta, Root, Writer
<1> QED
  BY <1>1, <1>2, <1>3, <1>4, <1>5, <1>6, <1>7, <1>8 DEF IInv

\* Validating under the gate keeps the invariant.
LEMMA OpenCheckInv == ASSUME IInv, NEW p \in Proc, OpenCheck(p) PROVE IInv'
<1>1. TypeOK'
  <2>1. pc' \in [Proc -> Labels]
    BY DEF IInv, TypeOK, ProcTypes, OpenCheck, Labels, Goto, At, OpenFail
  <2>2. arg' \in [Proc -> Gen \union {None}]
    BY DEF IInv, TypeOK, ProcTypes, OpenCheck, OpenFail, Gen, None
  <2>3. tries' \in [Proc -> 0 .. OpenTries]
    BY DEF IInv, TypeOK, ProcTypes, OpenCheck, OpenFail, MayRetry
  <2>4. lease' \in [Proc -> Gen \union {None}]
    BY DEF IInv, TypeOK, ProcTypes, Valid, StillCurrent, DiskTypes, OpenCheck,
        OpenFail, None
  <2>5. seen' \in [Proc -> 0 .. MaxGen]
    BY DEF IInv, TypeOK, ProcTypes, Valid, StillCurrent, DiskTypes, OpenCheck,
        OpenFail, MintTypes
  <2>6. sh' \in [Lock -> SUBSET Proc]
    BY DEF IInv, TypeOK, LockTypes, OpenCheck, Lock, Gen, DropShared, OpenFail,
        Root, Writer
  <2>7. (faults \in 0 .. MaxFaults)'
    BY DEF IInv, TypeOK, OpenCheck
  <2> QED
    BY <2>1, <2>2, <2>3, <2>4, <2>5, <2>6, <2>7
    DEF IInv, TypeOK, DiskTypes, MintTypes, LockTypes, ProcTypes, OpenCheck,
        disk, meta
<1>2. MintInv'
  BY DEF IInv, TypeOK, MintInv, DiskTypes, MintTypes, Gen, OpenCheck, At,
        Goto, OpenFail, DropShared, StillCurrent, MayRetry, Valid, Sound, disk,
        meta, Root, Writer
<1>3. LockInv'
  BY DEF IInv, TypeOK, LockInv, LockTypes, Lock, Gen, OpenCheck, At, Goto,
        OpenFail, DropShared, StillCurrent, MayRetry, Valid, Sound, disk, meta,
        Root, Writer
<1>4. ReadInv'
  <2>1. pc'[p] \in {"idle", "retry"} /\ \A q \in Proc : q # p => pc'[q] = pc[q]
    BY DEF IInv, TypeOK, ProcTypes, OpenCheck, OpenFail, Goto
  <2>2. lease[p] = None /\ arg[p] \in Gen /\ p \in sh[arg[p]]
    BY DEF IInv, ReadInv, ReadOf, Opening, OpenCheck, At
  <2>3. \/ lease' = [lease EXCEPT ![p] = arg[p]] /\ DropShared(p, {Root, Writer})
           /\ pc'[p] = "idle"
        \/ UNCHANGED lease
    BY DEF IInv, TypeOK, ProcTypes, OpenCheck, OpenFail, Goto
  <2>4. \A q \in Proc, l \in Lock : q # p /\ q \in sh[l] => q \in sh'[l]
    BY DEF OpenCheck, OpenFail, DropShared
  <2>5. \A q \in Proc : q # p => arg'[q] = arg[q]
    BY DEF IInv, TypeOK, ProcTypes, OpenCheck, OpenFail
  <2>6. ASSUME NEW q \in Proc, q # p PROVE ReadOf(q)'
    BY <2>1, <2>3, <2>4, <2>5, <2>6, LockNumbers DEF IInv, TypeOK, ProcTypes, ReadInv, ReadOf
  <2>7. ReadOf(p)'
    <3>1. CASE UNCHANGED lease
      BY <2>1, <2>2, <3>1 DEF ReadOf
    <3>2. CASE /\ lease' = [lease EXCEPT ![p] = arg[p]] /\ DropShared(p, {Root, Writer})
               /\ pc'[p] = "idle"
      BY <2>2, <3>2, LockNumbers DEF IInv, TypeOK, ProcTypes, ReadOf, DropShared, Opening
    <3> QED
      BY <2>3, <3>1, <3>2
  <2> QED
    BY <2>6, <2>7 DEF ReadInv
<1>5. SaveInv'
  <2>1. pc'[p] \notin Saving
    BY DEF IInv, TypeOK, ProcTypes, OpenCheck, OpenFail, Goto, Saving, Staging, Pruning
  <2>2. \A q \in Proc : q # p => pc'[q] = pc[q] /\ arg'[q] = arg[q] /\ seen'[q] = seen[q]
    BY DEF IInv, TypeOK, ProcTypes, OpenCheck, OpenFail, Goto
  <2>3. \A q \in Proc : lease'[q] = lease[q] \/ lease'[q] = current
    BY DEF IInv, TypeOK, ProcTypes, OpenCheck, OpenFail, StillCurrent
  <2> QED
    BY <2>1, <2>2, <2>3 DEF IInv, SaveInv, SaveOf, Saving, Staging, Pruning, OpenCheck,
        disk, meta
<1>6. ExclusiveInv'
  BY DEF IInv, TypeOK, ExclusiveInv, ExclusiveOf, LockTypes, ProcTypes,
        Exclusive, Live, Labels, Lock, Gen, Writer, OpenCheck, At, Goto,
        OpenFail, DropShared, StillCurrent, MayRetry, Valid, Sound, disk, meta, Root
<1>7. LeasePinned'
  BY DEF IInv, TypeOK, LeasePinned, ProcTypes, Live, None, OpenCheck, At,
        Goto, OpenFail, DropShared, StillCurrent, MayRetry, Valid, Sound, disk,
        meta, Root, Writer
<1>8. CurrentPresent'
  BY DEF IInv, TypeOK, CurrentPresent, DiskTypes, Live, OpenCheck, At, Goto,
        OpenFail, DropShared, StillCurrent, MayRetry, Valid, Sound, disk, meta,
        Root, Writer
<1> QED
  BY <1>1, <1>2, <1>3, <1>4, <1>5, <1>6, <1>7, <1>8 DEF IInv

\* A retry of an open keeps the invariant.
LEMMA OpenRetryInv == ASSUME IInv, NEW p \in Proc, OpenRetry(p) PROVE IInv'
<1>1. TypeOK'
  <2>1. pc' \in [Proc -> Labels]
    BY DEF IInv, TypeOK, ProcTypes, OpenRetry, Labels, Goto, At
  <2>2. arg' \in [Proc -> Gen \union {None}]
    BY DEF IInv, TypeOK, ProcTypes, DiskTypes, OpenRetry, Gen, None
  <2>3. sh' \in [Lock -> SUBSET Proc]
    BY DEF IInv, TypeOK, LockTypes, OpenRetry, Lock, Gen, DropShared, Root,
        Writer
  <2>4. (faults \in 0 .. MaxFaults)'
    BY DEF IInv, TypeOK, OpenRetry
  <2> QED
    BY <2>1, <2>2, <2>3, <2>4
    DEF IInv, TypeOK, DiskTypes, MintTypes, LockTypes, ProcTypes, OpenRetry,
        disk, meta
<1>2. MintInv'
  BY DEF IInv, TypeOK, MintInv, DiskTypes, MintTypes, Gen, OpenRetry, At,
        Goto, DropShared, disk, meta, Root, Writer
<1>3. LockInv'
  BY DEF IInv, TypeOK, LockInv, LockTypes, Lock, Gen, OpenRetry, At, Goto,
        DropShared, disk, meta, Root, Writer
<1>4. ReadInv'
  BY DEF IInv, TypeOK, ReadInv, ReadOf, LockTypes, ProcTypes, Opening,
        Labels, None, Gen, Lock, OpenRetry, At, Goto, DropShared, disk, meta,
        Root, Writer
<1>5. SaveInv'
  BY DEF IInv, TypeOK, SaveInv, SaveOf, MintTypes, LockTypes, ProcTypes,
        Saving, Staging, Pruning, Labels, Lock, Gen, Writer, OpenRetry, At,
        Goto, DropShared, disk, meta, Root
<1>6. ExclusiveInv'
  BY DEF IInv, TypeOK, ExclusiveInv, ExclusiveOf, LockTypes, ProcTypes,
        Exclusive, Live, Labels, Lock, Gen, Writer, OpenRetry, At, Goto,
        DropShared, disk, meta, Root
<1>7. LeasePinned'
  BY DEF IInv, TypeOK, LeasePinned, ProcTypes, Live, None, OpenRetry, At,
        Goto, DropShared, disk, meta, Root, Writer
<1>8. CurrentPresent'
  BY DEF IInv, TypeOK, CurrentPresent, DiskTypes, Live, OpenRetry, At, Goto,
        DropShared, disk, meta, Root, Writer
<1> QED
  BY <1>1, <1>2, <1>3, <1>4, <1>5, <1>6, <1>7, <1>8 DEF IInv

\* Closing a lease keeps the invariant.
LEMMA CloseLeaseInv == ASSUME IInv, NEW p \in Proc, CloseLease(p) PROVE IInv'
<1>1. TypeOK'
  <2>1. lease' \in [Proc -> Gen \union {None}]
    BY DEF IInv, TypeOK, ProcTypes, CloseLease, None
  <2>2. sh' \in [Lock -> SUBSET Proc]
    BY DEF IInv, TypeOK, LockTypes, CloseLease, Lock, Gen, DropShared
  <2>3. (faults \in 0 .. MaxFaults)'
    BY DEF IInv, TypeOK, CloseLease
  <2> QED
    BY <2>1, <2>2, <2>3
    DEF IInv, TypeOK, DiskTypes, MintTypes, LockTypes, ProcTypes,
        CloseLease, disk, meta
<1>2. MintInv'
  BY DEF IInv, TypeOK, MintInv, DiskTypes, MintTypes, Gen, CloseLease, At,
        Goto, DropShared, disk, meta
<1>3. LockInv'
  BY DEF IInv, TypeOK, LockInv, LockTypes, Lock, Gen, CloseLease, At, Goto,
        DropShared, disk, meta
<1>4. ReadInv'
  BY DEF IInv, TypeOK, ReadInv, ReadOf, LockTypes, ProcTypes, Opening,
        Labels, None, Gen, Lock, CloseLease, At, Goto, DropShared, disk, meta
<1>5. SaveInv'
  BY DEF IInv, TypeOK, SaveInv, SaveOf, None, MintTypes, LockTypes,
        ProcTypes, Saving, Staging, Pruning, Labels, Lock, Gen, Writer,
        CloseLease, At, Goto, DropShared, disk, meta
<1>6. ExclusiveInv'
  BY DEF IInv, TypeOK, ExclusiveInv, ExclusiveOf, LockTypes, ProcTypes,
        Exclusive, Live, Labels, Lock, Gen, Writer, CloseLease, At, Goto,
        DropShared, disk, meta
<1>7. LeasePinned'
  BY DEF IInv, TypeOK, LeasePinned, ProcTypes, Live, None, CloseLease, At,
        Goto, DropShared, disk, meta
<1>8. CurrentPresent'
  BY DEF IInv, TypeOK, CurrentPresent, DiskTypes, Live, CloseLease, At, Goto,
        DropShared, disk, meta
<1> QED
  BY <1>1, <1>2, <1>3, <1>4, <1>5, <1>6, <1>7, <1>8 DEF IInv

-----------------------------------------------------------------------------
\* Listing.
LEMMA ListStartInv == ASSUME IInv, NEW p \in Proc, ListStart(p) PROVE IInv'
<1>1. TypeOK'
  <2>1. sh' \in [Lock -> SUBSET Proc]
    BY DEF IInv, TypeOK, LockTypes, ListStart, Lock, Gen, Root
  <2>2. from' \in [Proc -> {"active", "trash"}]
    BY DEF IInv, TypeOK, ProcTypes, ListStart, Live
  <2>3. pc' \in [Proc -> Labels]
    BY DEF IInv, TypeOK, ProcTypes, ListStart, Labels, Goto, At
  <2>4. (faults \in 0 .. MaxFaults)'
    BY DEF IInv, TypeOK, ListStart
  <2> QED
    BY <2>1, <2>2, <2>3, <2>4
    DEF IInv, TypeOK, DiskTypes, MintTypes, LockTypes, ProcTypes, ListStart,
        disk, meta
<1>2. MintInv'
  BY DEF IInv, TypeOK, MintInv, DiskTypes, MintTypes, Gen, ListStart, At,
        Goto, Shareable, disk, meta, Root
<1>3. LockInv'
  BY DEF IInv, TypeOK, LockInv, LockTypes, Lock, Gen, ListStart, At, Goto,
        Shareable, disk, meta, Root
<1>4. ReadInv'
  BY DEF IInv, TypeOK, ReadInv, ReadOf, LockTypes, ProcTypes, Opening,
        Labels, None, Gen, Lock, ListStart, At, Goto, Shareable, disk, meta,
        Root
<1>5. SaveInv'
  BY DEF IInv, TypeOK, SaveInv, SaveOf, MintTypes, LockTypes, ProcTypes,
        Saving, Staging, Pruning, Labels, Lock, Gen, Writer, ListStart, At,
        Goto, Shareable, disk, meta, Root
<1>6. ExclusiveInv'
  BY DEF IInv, TypeOK, ExclusiveInv, ExclusiveOf, LockTypes, ProcTypes,
        Exclusive, Live, Labels, Lock, Gen, Writer, ListStart, At, Goto,
        Shareable, disk, meta, Root
<1>7. LeasePinned'
  BY DEF IInv, TypeOK, LeasePinned, ProcTypes, Live, None, ListStart, At,
        Goto, Shareable, disk, meta, Root
<1>8. CurrentPresent'
  BY DEF IInv, TypeOK, CurrentPresent, DiskTypes, Live, ListStart, At, Goto,
        Shareable, disk, meta, Root
<1> QED
  BY <1>1, <1>2, <1>3, <1>4, <1>5, <1>6, <1>7, <1>8 DEF IInv

\* Finishing pending deletes keeps the invariant.
LEMMA ListSweepInv == ASSUME IInv, NEW p \in Proc, ListSweep(p) PROVE IInv'
<1>1. TypeOK'
  <2>1. pc' \in [Proc -> Labels]
    BY DEF IInv, TypeOK, ProcTypes, ListSweep, Labels, Goto, At
  <2>2. retired' \in [Proc -> SUBSET Gen]
    BY DEF IInv, TypeOK, ProcTypes, DiskTypes, ListSweep
  <2>3. place' \in {"active", "trash", "tomb", "gone"}
    BY DEF IInv, TypeOK, DiskTypes, ListSweep, Live
  <2>4. record' \in SUBSET Gen
    BY DEF IInv, TypeOK, DiskTypes, ListSweep, Leftover
  <2>5. sh' \in [Lock -> SUBSET Proc]
    BY DEF IInv, TypeOK, LockTypes, ListSweep, Lock, Gen, DropShared, Root
  <2>6. (faults \in 0 .. MaxFaults)'
    BY DEF IInv, TypeOK, ListSweep, NoFault, Fault
  <2> QED
    BY <2>1, <2>2, <2>3, <2>4, <2>5, <2>6
    DEF IInv, TypeOK, DiskTypes, MintTypes, LockTypes, ProcTypes, ListSweep,
        meta
<1>2. MintInv'
  BY DEF IInv, TypeOK, MintInv, DiskTypes, MintTypes, Gen, ListSweep, At,
        Goto, DropShared, Sweeps, Leftover, NoFault, Fault, meta, Root
<1>3. LockInv'
  BY DEF IInv, TypeOK, LockInv, LockTypes, Lock, Gen, ListSweep, At, Goto,
        DropShared, Sweeps, Leftover, NoFault, Fault, meta, Root
<1>4. ReadInv'
  BY DEF IInv, TypeOK, ReadInv, ReadOf, LockTypes, ProcTypes, Opening,
        Labels, None, Gen, Lock, ListSweep, At, Goto, DropShared, Sweeps,
        Leftover, NoFault, Fault, meta, Root
<1>5. SaveInv'
  <2>1. pc'[p] \notin Saving /\ \A q \in Proc : q # p => pc'[q] = pc[q]
    BY DEF IInv, TypeOK, ProcTypes, ListSweep, Goto, Saving, Staging, Pruning
  <2>2. place = "active" => place' = "active"
    BY DEF ListSweep
  <2> QED
    BY <2>1, <2>2 DEF IInv, SaveInv, SaveOf, Saving, Staging, Pruning, ListSweep, meta
<1>6. ExclusiveInv'
  <2>1. pc'[p] \notin Exclusive \union {"clean", "finish"} /\ \A q \in Proc : q # p => pc'[q] = pc[q]
    BY DEF IInv, TypeOK, ProcTypes, ListSweep, Goto, Exclusive
  <2>2. ex' = ex /\ gens' = gens /\ Live' = Live
    BY DEF ListSweep, Live
  <2> QED
    BY <2>1, <2>2 DEF IInv, ExclusiveInv, ExclusiveOf
<1>7. LeasePinned'
  BY DEF IInv, TypeOK, LeasePinned, ProcTypes, Live, None, ListSweep, At,
        Goto, DropShared, Sweeps, Leftover, NoFault, Fault, meta, Root
<1>8. CurrentPresent'
  BY DEF IInv, TypeOK, CurrentPresent, DiskTypes, Live, ListSweep, At, Goto,
        DropShared, Sweeps, Leftover, NoFault, Fault, meta, Root
<1> QED
  BY <1>1, <1>2, <1>3, <1>4, <1>5, <1>6, <1>7, <1>8 DEF IInv

\* Creating lost gate files again, and beginning to finish a commit, keeps the invariant.
LEMMA ListRepairInv == ASSUME IInv, NEW p \in Proc, ListRepair(p) PROVE IInv'
<1>a. /\ pc[p] = "repair" /\ pc \in [Proc -> Labels] /\ ex \in [Lock -> Proc \union {NoProc}]
      /\ Writer \in Lock
  BY LockNumbers DEF IInv, TypeOK, ProcTypes, LockTypes, ListRepair, At
<1>b. /\ \A q \in Proc : q # p => pc'[q] = pc[q]
      /\ \A l \in Lock : l # Writer => ex'[l] = ex[l]
      /\ \/ pc'[p] = "share" /\ UNCHANGED ex
         \/ pc'[p] = "finish" /\ ex'[Writer] = p /\ ex[Writer] = NoProc /\ sh[Writer] = {}
  BY <1>a DEF ListRepair, Goto, Free
<1>c. UNCHANGED <<place, gens, broken, current, retention, inside, bare, record, meta, sh, arg, from, tries,
                  batch, retired, lease, seen, faults>>
  BY DEF ListRepair
<1>1. TypeOK'
  <2>1. gates' \in SUBSET Gen
    BY DEF IInv, TypeOK, DiskTypes, ListRepair
  <2>2. pc' \in [Proc -> Labels]
    BY DEF IInv, TypeOK, ProcTypes, ListRepair, Labels, Goto, At
  <2>3. ex' \in [Lock -> Proc \union {NoProc}]
    BY <1>a DEF ListRepair
  <2> QED
    BY <1>c, <2>1, <2>2, <2>3 DEF IInv, TypeOK, DiskTypes, MintTypes, LockTypes, ProcTypes, meta
<1>2. MintInv'
  BY <1>c DEF IInv, MintInv, meta
<1>3. LockInv'
  BY <1>b, <1>c DEF IInv, LockInv
<1>4. ReadInv'
  BY <1>a, <1>b, <1>c DEF IInv, ReadInv, ReadOf, Opening
<1>5. SaveInv'
  <2>1. \A g \in Gen : g \in Lock /\ g # Writer
    BY LockNumbers
  <2>2. batch \in [Proc -> SUBSET Gen]
    BY DEF IInv, TypeOK, ProcTypes
  <2> SUFFICES ASSUME NEW q \in Proc, q # p PROVE SaveOf(q)'
    BY <1>b DEF SaveInv, SaveOf, Saving, Staging, Pruning
  <2>3. SaveOf(q) /\ pc'[q] = pc[q]
    BY <1>b DEF IInv, SaveInv
  <2>4. pc[q] \in Saving => ex'[Writer] = q
    BY <1>b, <2>3 DEF SaveOf
  <2>5. \A g \in batch[q] : ex'[g] = ex[g]
    BY <1>b, <2>1, <2>2
  <2> QED
    BY <1>c, <2>3, <2>4, <2>5 DEF SaveOf, meta
<1>6. ExclusiveInv'
  <2>1. gens \subseteq Gen /\ \A g \in Gen : g \in Lock /\ g # Writer
    BY LockNumbers DEF IInv, TypeOK, DiskTypes
  <2> SUFFICES ASSUME NEW q \in Proc PROVE ExclusiveOf(q)'
    BY DEF ExclusiveInv
  <2>2. CASE q = p
    BY <1>b, <2>2 DEF ExclusiveOf, Exclusive
  <2>3. CASE q # p
    <3>1. ExclusiveOf(q) /\ pc'[q] = pc[q]
      BY <1>b, <2>3 DEF IInv, ExclusiveInv
    <3>2. pc[q] \in Exclusive \union {"clean", "finish"} => ex'[Writer] = q
      BY <1>b, <3>1 DEF ExclusiveOf
    <3>3. \A g \in gens : ex'[g] = ex[g]
      BY <1>b, <2>1
    <3> QED
      BY <1>c, <3>1, <3>2, <3>3 DEF ExclusiveOf, Live
  <2> QED
    BY <2>2, <2>3
<1>7. LeasePinned'
  BY <1>c DEF IInv, LeasePinned, Live
<1>8. CurrentPresent'
  BY <1>c DEF IInv, CurrentPresent, Live
<1> QED
  BY <1>1, <1>2, <1>3, <1>4, <1>5, <1>6, <1>7, <1>8 DEF IInv

\* Removing heavy folders, for a commit or for a listing, keeps the invariant: whoever
\* does it has the writer lock, and gives up at most that.
LEMMA ShedInv == ASSUME IInv, NEW p \in Proc, ListFinish(p) \/ CommitShed(p) PROVE IInv'
<1>a. /\ pc \in [Proc -> Labels] /\ ex \in [Lock -> Proc \union {NoProc}] /\ Writer \in Lock
      /\ inside \in 0 .. Folders /\ faults \in 0 .. MaxFaults
  BY LockNumbers DEF IInv, TypeOK, ProcTypes, LockTypes, DiskTypes
<1>b. /\ \/ pc[p] = "finish" /\ (pc' = pc \/ pc' = [pc EXCEPT ![p] = "share"])
         \/ pc[p] = "shed" /\ (pc' = pc \/ pc' = [pc EXCEPT ![p] = "prune"] \/ pc' = [pc EXCEPT ![p] = "idle"])
      /\ \/ UNCHANGED ex
         \/ DropExclusive(p, {Writer}) /\ pc' \in {[pc EXCEPT ![p] = "share"], [pc EXCEPT ![p] = "idle"]}
  BY DEF ListFinish, CommitShed, Shed, Goto, At
<1>c. UNCHANGED <<place, gens, broken, current, retention, gates, record, meta, sh, arg, from, tries, batch,
                  retired, lease, seen>>
  BY DEF ListFinish, CommitShed, Shed
<1>d. /\ \A l \in Lock : ex'[l] = ex[l] \/ (l = Writer /\ ex[l] = p /\ ex'[l] = NoProc)
      /\ pc'[p] \in {"finish", "shed", "prune"} => UNCHANGED ex
      /\ \A q \in Proc : q # p => pc'[q] = pc[q]
      /\ pc'[p] \in {"share", "idle", "prune", pc[p]}
  BY <1>a, <1>b DEF DropExclusive
<1>1. TypeOK'
  <2>1. bare' \in BOOLEAN
    <3>1. bare \in BOOLEAN
      BY DEF IInv, TypeOK, DiskTypes
    <3> QED
      BY <3>1, Zenon DEF ListFinish, CommitShed, Shed
  <2>2. inside' \in 0 .. Folders /\ faults' \in 0 .. MaxFaults
    <3>1. inside' = inside \/ (inside' = inside - 1 /\ inside > 0)
      BY Zenon DEF ListFinish, CommitShed, Shed
    <3>2. faults' = faults \/ (faults' = faults + 1 /\ faults < MaxFaults)
      BY Zenon DEF ListFinish, CommitShed, Shed, NoFault, Fault
    <3> QED
      BY <1>a, <3>1, <3>2
  <2>3. pc' \in [Proc -> Labels] /\ ex' \in [Lock -> Proc \union {NoProc}]
    BY <1>a, <1>b DEF DropExclusive, Labels
  <2> QED
    BY <1>c, <2>1, <2>2, <2>3 DEF IInv, TypeOK, DiskTypes, MintTypes, LockTypes, ProcTypes, meta
<1>2. MintInv'
  BY <1>c DEF IInv, MintInv, meta
<1>3. LockInv'
  BY <1>c, <1>d DEF IInv, LockInv
<1>4. ReadInv'
  <2>1. pc[p] = "shed" => pc'[p] \notin Opening
    BY <1>b, <1>a DEF Opening
  <2>2. pc[p] = "finish" => pc[p] \in Opening
    BY DEF Opening
  <2>3. pc'[p] # "check"
    BY <1>b, <1>d
  <2> QED
    BY <1>c, <1>d, <1>b, <2>1, <2>2, <2>3 DEF IInv, ReadInv, ReadOf
<1>5. SaveInv'
  <2>1. batch \in [Proc -> SUBSET Gen] /\ \A g \in Gen : g \in Lock /\ g # Writer
    BY LockNumbers DEF IInv, TypeOK, ProcTypes
  <2> SUFFICES ASSUME NEW q \in Proc PROVE SaveOf(q)'
    BY DEF SaveInv
  <2>2. SaveOf(q)
    BY DEF IInv, SaveInv
  <2>3. CASE q # p
    <3>1. pc'[q] = pc[q] /\ \A g \in batch[q] : ex'[g] = ex[g]
      BY <1>d, <2>1, <2>3
    <3>2. pc[q] \in Saving => ex'[Writer] = q
      BY <1>a, <1>d, <2>2, <2>3 DEF SaveOf
    <3> QED
      BY <1>c, <2>2, <3>1, <3>2 DEF SaveOf, meta
  <2>4. CASE q = p
    <3>1. pc'[p] \in Saving => pc[p] = "shed" /\ UNCHANGED ex
      BY <1>a, <1>b, <1>d DEF Saving, Staging, Pruning
    <3>2. pc'[p] \notin Staging \union Pruning
      BY <1>b, <1>d DEF Staging, Pruning
    <3>3. pc[p] = "shed" => pc[p] \in Saving
      BY DEF Saving
    <3>4. pc'[p] \in Saving => ex'[Writer] = p /\ place' = "active"
      BY <1>c, <2>2, <2>4, <3>1, <3>3 DEF SaveOf
    <3> QED
      BY <2>4, <3>2, <3>4 DEF SaveOf, Staging
  <2> QED
    BY <2>3, <2>4
<1>6. ExclusiveInv'
  <2>1. gens \subseteq Gen /\ \A g \in Gen : g \in Lock /\ g # Writer
    BY LockNumbers DEF IInv, TypeOK, DiskTypes
  <2> SUFFICES ASSUME NEW q \in Proc PROVE ExclusiveOf(q)'
    BY DEF ExclusiveInv
  <2>2. ExclusiveOf(q)
    BY DEF IInv, ExclusiveInv
  <2>3. CASE q = p
    <3>1. pc'[p] \notin Exclusive /\ pc'[p] # "clean"
      BY <1>b, <1>d DEF Exclusive
    <3>2. pc'[p] = "finish" => pc[p] = "finish" /\ UNCHANGED ex
      BY <1>a, <1>b, <1>d
    <3> QED
      BY <2>2, <2>3, <3>1, <3>2 DEF ExclusiveOf
  <2>4. CASE q # p
    <3>1. pc'[q] = pc[q] /\ \A g \in gens : ex'[g] = ex[g]
      BY <1>d, <2>1, <2>4
    <3>2. pc[q] \in Exclusive \union {"clean", "finish"} => ex'[Writer] = q
      BY <1>a, <1>d, <2>2, <2>4 DEF ExclusiveOf
    <3> QED
      BY <1>c, <2>2, <3>1, <3>2 DEF ExclusiveOf, Live
  <2> QED
    BY <2>3, <2>4
<1>7. LeasePinned'
  BY <1>c DEF IInv, LeasePinned, Live
<1>8. CurrentPresent'
  BY <1>c DEF IInv, CurrentPresent, Live
<1> QED
  BY <1>1, <1>2, <1>3, <1>4, <1>5, <1>6, <1>7, <1>8 DEF IInv

\* Sharing the writer lock for a listing keeps the invariant.
LEMMA ListShareInv == ASSUME IInv, NEW p \in Proc, ListShare(p) PROVE IInv'
<1>1. TypeOK'
  <2>1. pc' \in [Proc -> Labels]
    BY DEF IInv, TypeOK, ProcTypes, ListShare, Labels, Goto, At
  <2>2. arg' \in [Proc -> Gen \union {None}]
    BY DEF IInv, TypeOK, ProcTypes, DiskTypes, ListShare, Gen, None
  <2>3. tries' \in [Proc -> 0 .. OpenTries]
    BY DEF IInv, TypeOK, ProcTypes, ListShare
  <2>4. sh' \in [Lock -> SUBSET Proc]
    BY DEF IInv, TypeOK, LockTypes, ListShare, Lock, Gen, DropShared, Root,
        Writer
  <2>5. (faults \in 0 .. MaxFaults)'
    BY DEF IInv, TypeOK, ListShare
  <2> QED
    BY <2>1, <2>2, <2>3, <2>4, <2>5
    DEF IInv, TypeOK, DiskTypes, MintTypes, LockTypes, ProcTypes, ListShare,
        disk, meta
<1>2. MintInv'
  BY DEF IInv, TypeOK, MintInv, DiskTypes, MintTypes, Gen, ListShare, At,
        Goto, DropShared, Shareable, disk, meta, Root, Writer
<1>3. LockInv'
  BY DEF IInv, TypeOK, LockInv, LockTypes, Lock, Gen, ListShare, At, Goto,
        DropShared, Shareable, disk, meta, Root, Writer
<1>4. ReadInv'
  BY DEF IInv, TypeOK, ReadInv, ReadOf, LockTypes, ProcTypes, Opening,
        Labels, None, Gen, Lock, ListShare, At, Goto, DropShared, Shareable,
        disk, meta, Root, Writer
<1>5. SaveInv'
  BY DEF IInv, TypeOK, SaveInv, SaveOf, MintTypes, LockTypes, ProcTypes,
        Saving, Staging, Pruning, Labels, Lock, Gen, Writer, ListShare, At,
        Goto, DropShared, Shareable, disk, meta, Root
<1>6. ExclusiveInv'
  BY DEF IInv, TypeOK, ExclusiveInv, ExclusiveOf, LockTypes, ProcTypes,
        Exclusive, Live, Labels, Lock, Gen, Writer, ListShare, At, Goto,
        DropShared, Shareable, disk, meta, Root
<1>7. LeasePinned'
  BY DEF IInv, TypeOK, LeasePinned, ProcTypes, Live, None, ListShare, At,
        Goto, DropShared, Shareable, disk, meta, Root, Writer
<1>8. CurrentPresent'
  BY DEF IInv, TypeOK, CurrentPresent, DiskTypes, Live, ListShare, At, Goto,
        DropShared, Shareable, disk, meta, Root, Writer
<1> QED
  BY <1>1, <1>2, <1>3, <1>4, <1>5, <1>6, <1>7, <1>8 DEF IInv

-----------------------------------------------------------------------------
\* Saving.
LEMMA CommitStartInv == ASSUME IInv, NEW p \in Proc, CommitStart(p) PROVE IInv'
<1>1. TypeOK'
  <2>1. minted' \in Gen
    BY DEF IInv, TypeOK, MintTypes, CommitStart, Gen
  <2>2. rev' \in [Gen -> 0 .. MaxGen]
    BY DEF IInv, TypeOK, MintTypes, DiskTypes, CommitStart, MintInv, Gen
  <2>3. par' \in [Gen -> Gen \union {None}]
    BY DEF IInv, TypeOK, MintTypes, DiskTypes, CommitStart, Gen
  <2>4. ex' \in [Lock -> Proc \union {NoProc}]
    BY DEF IInv, TypeOK, LockTypes, CommitStart, Lock, Gen, TakeExclusive,
        Writer
  <2>5. pc' \in [Proc -> Labels]
    BY DEF IInv, TypeOK, ProcTypes, CommitStart, Labels, Goto, At
  <2>6. arg' \in [Proc -> Gen \union {None}]
    BY DEF IInv, TypeOK, ProcTypes, MintTypes, CommitStart, Gen, None
  <2>7. (faults \in 0 .. MaxFaults)'
    BY DEF IInv, TypeOK, CommitStart
  <2> QED
    BY <2>1, <2>2, <2>3, <2>4, <2>5, <2>6, <2>7
    DEF IInv, TypeOK, DiskTypes, MintTypes, LockTypes, ProcTypes,
        CommitStart, disk
<1>2. MintInv'
  <2>1. /\ minted \in Gen /\ current \in Gen /\ gens \in SUBSET Gen /\ rev \in [Gen -> 0 .. MaxGen]
        /\ minted < MaxGen /\ minted' = minted + 1 /\ current' = current /\ gens' = gens
        /\ rev' = [rev EXCEPT ![minted + 1] = rev[current] + 1] /\ MintInv
    BY DEF IInv, TypeOK, DiskTypes, MintTypes, CommitStart, disk
  <2>2. current <= minted /\ (\A g \in gens : g <= minted) /\ \A g \in Gen : rev[g] <= minted
    BY <2>1 DEF MintInv
  <2>3. minted + 1 \in Gen /\ rev[current] + 1 <= minted + 1
    BY <2>1, <2>2 DEF Gen
  <2>4. ASSUME NEW g \in Gen PROVE rev'[g] <= minted + 1
    BY <2>1, <2>2, <2>3, <2>4 DEF Gen
  <2>5. current <= minted + 1 /\ \A g \in gens : g <= minted + 1
    BY <2>1, <2>2 DEF Gen
  <2> QED BY <2>1, <2>4, <2>5 DEF MintInv
<1>3. LockInv'
  BY DEF IInv, TypeOK, LockInv, LockTypes, Lock, Gen, CommitStart, At, Goto,
        TakeExclusive, Free, disk, Writer
<1>4. ReadInv'
  BY DEF IInv, TypeOK, ReadInv, ReadOf, LockTypes, ProcTypes, Opening,
        Labels, None, Gen, Lock, CommitStart, At, Goto, TakeExclusive, Free,
        disk, Writer
<1>5. SaveInv'
  BY DEF IInv, TypeOK, SaveInv, SaveOf, DiskTypes, MintInv, LeasePinned,
        None, MintTypes, LockTypes, ProcTypes, Saving, Staging, Pruning,
        Labels, Lock, Gen, Writer, CommitStart, At, Goto, TakeExclusive,
        Free, disk
<1>6. ExclusiveInv'
  BY DEF IInv, TypeOK, ExclusiveInv, ExclusiveOf, LockTypes, ProcTypes,
        Exclusive, Live, Labels, Lock, Gen, Writer, CommitStart, At, Goto,
        TakeExclusive, Free, disk
<1>7. LeasePinned'
  BY DEF IInv, TypeOK, LeasePinned, ProcTypes, Live, None, CommitStart, At,
        Goto, TakeExclusive, Free, disk, Writer
<1>8. CurrentPresent'
  BY DEF IInv, TypeOK, CurrentPresent, DiskTypes, Live, CommitStart, At,
        Goto, TakeExclusive, Free, disk, Writer
<1> QED
  BY <1>1, <1>2, <1>3, <1>4, <1>5, <1>6, <1>7, <1>8 DEF IInv

\* Creating the gate of a staged generation keeps the invariant.
LEMMA CommitGateInv == ASSUME IInv, NEW p \in Proc, CommitGate(p) PROVE IInv'
<1>a. arg[p] \in Gen
  BY DEF IInv, SaveInv, SaveOf, Saving, Staging, At, CommitGate
<1>1. TypeOK'
  <2>1. gates' \in SUBSET Gen
    BY <1>a DEF IInv, TypeOK, DiskTypes, CommitGate
  <2>2. pc' \in [Proc -> Labels]
    BY DEF IInv, TypeOK, ProcTypes, CommitGate, Labels, Goto, At
  <2>3. (faults \in 0 .. MaxFaults)'
    BY DEF IInv, TypeOK, CommitGate
  <2> QED
    BY <2>1, <2>2, <2>3
    DEF IInv, TypeOK, DiskTypes, MintTypes, LockTypes, ProcTypes,
        CommitGate, meta, locks
<1>2. MintInv'
  BY DEF IInv, TypeOK, MintInv, DiskTypes, MintTypes, Gen, CommitGate, At,
        Goto, meta, locks
<1>3. LockInv'
  BY DEF IInv, TypeOK, LockInv, LockTypes, Lock, Gen, CommitGate, At, Goto,
        meta, locks
<1>4. ReadInv'
  BY DEF IInv, TypeOK, ReadInv, ReadOf, LockTypes, ProcTypes, Opening,
        Labels, None, Gen, Lock, CommitGate, At, Goto, meta, locks
<1>5. SaveInv'
  BY DEF IInv, TypeOK, SaveInv, SaveOf, MintTypes, LockTypes, ProcTypes,
        Saving, Staging, Pruning, Labels, Lock, Gen, Writer, CommitGate, At,
        Goto, meta, locks
<1>6. ExclusiveInv'
  BY DEF IInv, TypeOK, ExclusiveInv, ExclusiveOf, LockTypes, ProcTypes,
        Exclusive, Live, Labels, Lock, Gen, Writer, CommitGate, At, Goto,
        meta, locks
<1>7. LeasePinned'
  BY DEF IInv, TypeOK, LeasePinned, ProcTypes, Live, None, CommitGate, At,
        Goto, meta, locks
<1>8. CurrentPresent'
  BY DEF IInv, TypeOK, CurrentPresent, DiskTypes, Live, CommitGate, At, Goto,
        meta, locks
<1> QED
  BY <1>1, <1>2, <1>3, <1>4, <1>5, <1>6, <1>7, <1>8 DEF IInv

\* Publishing a generation keeps the invariant.
LEMMA CommitPublishInv == ASSUME IInv, NEW p \in Proc, CommitPublish(p) PROVE IInv'
<1>a. arg[p] \in Gen /\ arg[p] <= minted
  BY DEF IInv, SaveInv, SaveOf, Saving, Staging, At, CommitPublish
<1>1. TypeOK'
  <2>1. gens' \in SUBSET Gen
    BY <1>a DEF IInv, TypeOK, DiskTypes, CommitPublish
  <2>2. pc' \in [Proc -> Labels]
    BY DEF IInv, TypeOK, ProcTypes, CommitPublish, Labels, Goto, At
  <2>3. (faults \in 0 .. MaxFaults)'
    BY DEF IInv, TypeOK, CommitPublish
  <2> QED
    BY <2>1, <2>2, <2>3
    DEF IInv, TypeOK, DiskTypes, MintTypes, LockTypes, ProcTypes,
        CommitPublish, meta, locks
<1>2. MintInv'
  BY <1>a DEF IInv, TypeOK, MintInv, SaveInv, SaveOf, Staging, DiskTypes,
        MintTypes, Gen, CommitPublish, At, Goto, meta, locks, Unmoved
<1>3. LockInv'
  BY DEF IInv, TypeOK, LockInv, LockTypes, Lock, Gen, CommitPublish, At,
        Goto, meta, locks, Unmoved
<1>4. ReadInv'
  BY DEF IInv, TypeOK, ReadInv, ReadOf, LockTypes, ProcTypes, Opening,
        Labels, None, Gen, Lock, CommitPublish, At, Goto, meta, locks, Unmoved
<1>5. SaveInv'
  BY DEF IInv, TypeOK, SaveInv, SaveOf, MintTypes, LockTypes, ProcTypes,
        Saving, Staging, Pruning, Labels, Lock, Gen, Writer, CommitPublish,
        At, Goto, meta, locks, Unmoved
<1>6. ExclusiveInv'
  BY <1>a DEF IInv, TypeOK, ExclusiveInv, ExclusiveOf, SaveInv, SaveOf, Saving,
        Staging, LockTypes, ProcTypes, Exclusive, Live, Labels, Lock, Gen,
        Writer, CommitPublish, At, Goto, meta, locks, Unmoved
<1>7. LeasePinned'
  BY DEF IInv, TypeOK, LeasePinned, ProcTypes, Live, None, CommitPublish, At,
        Goto, meta, locks, Unmoved
<1>8. CurrentPresent'
  BY DEF IInv, TypeOK, CurrentPresent, DiskTypes, Live, CommitPublish, At,
        Goto, meta, locks, Unmoved
<1> QED
  BY <1>1, <1>2, <1>3, <1>4, <1>5, <1>6, <1>7, <1>8 DEF IInv

\* Replacing CURRENT.json keeps the invariant.
LEMMA CommitPointInv == ASSUME IInv, NEW p \in Proc, CommitPoint(p) PROVE IInv'
<1>a. arg[p] \in gens
  BY DEF IInv, SaveInv, SaveOf, Saving, Staging, At, CommitPoint
<1>1. TypeOK'
  <2>1. current' \in Gen
    BY <1>a DEF IInv, TypeOK, DiskTypes, CommitPoint
  <2>2. seen' \in [Proc -> 0 .. MaxGen]
    BY <1>a DEF IInv, TypeOK, ProcTypes, DiskTypes, MintTypes, CommitPoint
  <2>3. arg' \in [Proc -> Gen \union {None}]
    BY DEF IInv, TypeOK, ProcTypes, CommitPoint, Gen, None
  <2>4. pc' \in [Proc -> Labels]
    BY DEF IInv, TypeOK, ProcTypes, CommitPoint, Labels, Goto, At
  <2>5. (faults \in 0 .. MaxFaults)'
    BY DEF IInv, TypeOK, CommitPoint
  <2>6. inside' \in 0 .. Folders /\ bare' \in BOOLEAN
    <3>1. bare' \in BOOLEAN
      BY Zenon DEF CommitPoint
    <3> QED
      BY <3>1 DEF CommitPoint
  <2> QED
    BY <2>1, <2>2, <2>3, <2>4, <2>5, <2>6
    DEF IInv, TypeOK, DiskTypes, MintTypes, LockTypes, ProcTypes,
        CommitPoint, meta, locks
<1>2. MintInv'
  BY <1>a DEF IInv, TypeOK, MintInv, SaveInv, SaveOf, Staging, DiskTypes,
        MintTypes, Gen, CommitPoint, At, Goto, meta, locks
<1>3. LockInv'
  BY DEF IInv, TypeOK, LockInv, LockTypes, Lock, Gen, CommitPoint, At, Goto,
        meta, locks
<1>4. ReadInv'
  BY DEF IInv, TypeOK, ReadInv, ReadOf, LockTypes, ProcTypes, Opening,
        Labels, None, Gen, Lock, CommitPoint, At, Goto, meta, locks
<1>5. SaveInv'
  BY DEF IInv, TypeOK, SaveInv, SaveOf, MintTypes, LockTypes, ProcTypes,
        Saving, Staging, Pruning, Labels, Lock, Gen, Writer, CommitPoint, At,
        Goto, meta, locks
<1>6. ExclusiveInv'
  BY DEF IInv, TypeOK, ExclusiveInv, ExclusiveOf, LockTypes, ProcTypes,
        Exclusive, Live, Labels, Lock, Gen, Writer, CommitPoint, At, Goto,
        meta, locks
<1>7. LeasePinned'
  BY DEF IInv, TypeOK, LeasePinned, ProcTypes, Live, None, CommitPoint, At,
        Goto, meta, locks
<1>8. CurrentPresent'
  BY <1>a DEF IInv, TypeOK, CurrentPresent, SaveInv, SaveOf, DiskTypes, Live,
        CommitPoint, At, Goto, meta, locks
<1> QED
  BY <1>1, <1>2, <1>3, <1>4, <1>5, <1>6, <1>7, <1>8 DEF IInv

\* Abandoning a commit keeps the invariant.
LEMMA CommitAbortInv == ASSUME IInv, NEW p \in Proc, CommitAbort(p) PROVE IInv'
<1>a. arg[p] \in Gen /\ arg[p] # current /\ ex[Writer] = p
  BY DEF IInv, SaveInv, SaveOf, Saving, Staging, At, CommitAbort
<1>1. TypeOK'
  <2>1. gens' \in SUBSET Gen
    BY DEF IInv, TypeOK, DiskTypes, CommitAbort
  <2>2. broken' \in SUBSET Gen
    BY <1>a DEF IInv, TypeOK, DiskTypes, CommitAbort
  <2>3. gates' \in SUBSET Gen
    BY DEF IInv, TypeOK, DiskTypes, CommitAbort
  <2>4. ex' \in [Lock -> Proc \union {NoProc}]
    BY DEF IInv, TypeOK, LockTypes, CommitAbort, Lock, Gen, DropExclusive,
        Writer
  <2>5. arg' \in [Proc -> Gen \union {None}]
    BY DEF IInv, TypeOK, ProcTypes, CommitAbort, Gen, None
  <2>6. pc' \in [Proc -> Labels]
    BY DEF IInv, TypeOK, ProcTypes, CommitAbort, Labels, Goto, At
  <2>7. (faults \in 0 .. MaxFaults)'
    BY DEF IInv, TypeOK, CommitAbort, NoFault, Fault
  <2> QED
    BY <2>1, <2>2, <2>3, <2>4, <2>5, <2>6, <2>7
    DEF IInv, TypeOK, DiskTypes, MintTypes, LockTypes, ProcTypes,
        CommitAbort, meta
<1>2. MintInv'
  BY DEF IInv, TypeOK, MintInv, DiskTypes, MintTypes, Gen, CommitAbort, At,
        Goto, meta, DropExclusive, NoFault, Fault, Writer
<1>3. LockInv'
  BY DEF IInv, TypeOK, LockInv, LockTypes, Lock, Gen, CommitAbort, At, Goto,
        meta, DropExclusive, NoFault, Fault, Writer
<1>4. ReadInv'
  BY DEF IInv, TypeOK, ReadInv, ReadOf, LockTypes, ProcTypes, Opening,
        Labels, None, Gen, Lock, CommitAbort, At, Goto, meta, DropExclusive,
        NoFault, Fault, Writer
<1>5. SaveInv'
  BY DEF IInv, TypeOK, SaveInv, SaveOf, MintTypes, LockTypes, ProcTypes,
        Saving, Staging, Pruning, Labels, Lock, Gen, Writer, CommitAbort, At,
        Goto, meta, DropExclusive, NoFault, Fault
<1>6. ExclusiveInv'
  BY <1>a DEF IInv, TypeOK, ExclusiveInv, ExclusiveOf, DiskTypes, SaveInv, SaveOf,
        Saving, Staging, LockTypes, ProcTypes, Exclusive, Live, Labels, Lock,
        Gen, Writer, CommitAbort, At, Goto, meta, DropExclusive, NoFault,
        Fault
<1>7. LeasePinned'
  BY <1>a DEF IInv, TypeOK, LeasePinned, SaveInv, SaveOf, Staging, ProcTypes,
        Live, None, CommitAbort, At, Goto, meta, DropExclusive, NoFault,
        Fault, Writer
<1>8. CurrentPresent'
  BY <1>a DEF IInv, TypeOK, CurrentPresent, SaveInv, SaveOf, Staging, DiskTypes,
        Live, CommitAbort, At, Goto, meta, DropExclusive, NoFault, Fault,
        Writer
<1> QED
  BY <1>1, <1>2, <1>3, <1>4, <1>5, <1>6, <1>7, <1>8 DEF IInv

\* Refreshing the result view keeps the invariant.
LEMMA CommitViewInv == ASSUME IInv, NEW p \in Proc, CommitView(p) PROVE IInv'
<1>1. TypeOK'
  <2>1. pc' \in [Proc -> Labels]
    BY DEF IInv, TypeOK, ProcTypes, CommitView, Labels, Goto, At
  <2>2. ex' \in [Lock -> Proc \union {NoProc}]
    BY DEF IInv, TypeOK, LockTypes, CommitView, Lock, Gen, DropExclusive, Writer
  <2>3. (faults \in 0 .. MaxFaults)'
    BY DEF IInv, TypeOK, CommitView, NoFault, Fault
  <2> QED
    BY <2>1, <2>2, <2>3
    DEF IInv, TypeOK, DiskTypes, MintTypes, LockTypes, ProcTypes,
        CommitView, disk, meta
<1>2. MintInv'
  BY DEF IInv, TypeOK, MintInv, DiskTypes, MintTypes, Gen, CommitView, At,
        Goto, disk, meta, DropExclusive, NoFault, Fault, Writer
<1>3. LockInv'
  BY DEF IInv, TypeOK, LockInv, LockTypes, Lock, Gen, CommitView, At, Goto,
        disk, meta, DropExclusive, NoFault, Fault, Writer
<1>4. ReadInv'
  BY DEF IInv, TypeOK, ReadInv, ReadOf, LockTypes, ProcTypes, Opening,
        Labels, None, Gen, Lock, CommitView, At, Goto, disk, meta,
        DropExclusive, NoFault, Fault, Writer
<1>5. SaveInv'
  BY DEF IInv, TypeOK, SaveInv, SaveOf, MintTypes, LockTypes, ProcTypes,
        Saving, Staging, Pruning, Labels, Lock, Gen, Writer, CommitView, At,
        Goto, disk, meta, DropExclusive, NoFault, Fault
<1>6. ExclusiveInv'
  <2>1. ex[Writer] = p
    BY DEF IInv, SaveInv, SaveOf, Saving, Staging, Pruning, CommitView, At
  <2>2. pc'[p] \notin Exclusive \union {"clean", "finish"} /\ \A q \in Proc : q # p => pc'[q] = pc[q]
    BY DEF IInv, TypeOK, ProcTypes, CommitView, Goto, Exclusive, At
  <2> QED
    BY <2>1, <2>2, ExclusiveAlone
<1>7. LeasePinned'
  BY DEF IInv, TypeOK, LeasePinned, ProcTypes, Live, None, CommitView, At,
        Goto, disk, meta, DropExclusive, NoFault, Fault, Writer
<1>8. CurrentPresent'
  BY DEF IInv, TypeOK, CurrentPresent, DiskTypes, Live, CommitView, At, Goto,
        disk, meta, DropExclusive, NoFault, Fault, Writer
<1> QED
  BY <1>1, <1>2, <1>3, <1>4, <1>5, <1>6, <1>7, <1>8 DEF IInv

-----------------------------------------------------------------------------
\* Compacting.
LEMMA PruneLockInv == ASSUME IInv, NEW p \in Proc, PruneLock(p) PROVE IInv'
<1>1. TypeOK'
  <2>1. pc' \in [Proc -> Labels]
    BY DEF IInv, TypeOK, ProcTypes, PruneLock, Labels, Goto, At
  <2>2. batch' \in [Proc -> SUBSET Gen]
    BY DEF IInv, TypeOK, ProcTypes, DiskTypes, PruneLock, Superseded
  <2>3. ex' \in [Lock -> Proc \union {NoProc}]
    BY DEF IInv, TypeOK, LockTypes, DiskTypes, PruneLock, Lock, Gen,
        DropExclusive, TakeExclusive, Superseded, Writer
  <2>4. (faults \in 0 .. MaxFaults)'
    BY DEF IInv, TypeOK, PruneLock
  <2> QED
    BY <2>1, <2>2, <2>3, <2>4
    DEF IInv, TypeOK, DiskTypes, MintTypes, LockTypes, ProcTypes, PruneLock,
        disk, meta
<1>2. MintInv'
  BY DEF IInv, TypeOK, MintInv, DiskTypes, MintTypes, Gen, PruneLock, At,
        Goto, disk, meta, TakeExclusive, DropExclusive, Superseded, Free,
        Writer
<1>3. LockInv'
  BY DEF IInv, TypeOK, LockInv, LockTypes, Lock, Gen, PruneLock, At, Goto,
        disk, meta, TakeExclusive, DropExclusive, Superseded, Free, Writer
<1>4. ReadInv'
  BY DEF IInv, TypeOK, ReadInv, ReadOf, LockTypes, ProcTypes, Opening,
        Labels, None, Gen, Lock, PruneLock, At, Goto, disk, meta,
        TakeExclusive, DropExclusive, Superseded, Free, Writer
<1>5. SaveInv'
  <2>1. ex[Writer] = p /\ place = "active"
    BY DEF IInv, SaveInv, SaveOf, Saving, PruneLock, At
  <2>2. pc' = [pc EXCEPT ![p] = "retain"] \/ pc' = [pc EXCEPT ![p] = "idle"]
    BY DEF PruneLock, Goto
  <2>3. ASSUME pc'[p] = "retain"
        PROVE  /\ ex'[Writer] = p
               /\ batch'[p] = Superseded
               /\ \A g \in Superseded : ex'[g] = p
    BY <2>1, <2>2, <2>3 DEF IInv, TypeOK, DiskTypes, LockTypes, ProcTypes, Labels,
        PruneLock, Goto, TakeExclusive, Superseded, Writer, Lock, Gen
  <2> SUFFICES ASSUME NEW q \in Proc PROVE SaveOf(q)'
    BY DEF SaveInv
  <2>4. CASE q = p
    BY <2>1, <2>2, <2>3, <2>4 DEF IInv, TypeOK, ProcTypes, SaveOf, Saving, Staging,
        Pruning, PruneLock, Superseded, disk
  <2>5. CASE q # p
    BY <2>1, <2>5 DEF IInv, TypeOK, DiskTypes, LockTypes, ProcTypes, SaveInv, SaveOf,
        Saving, Staging, Pruning, PruneLock, Goto, TakeExclusive, DropExclusive,
        Superseded, Free, Writer, Lock, Gen, disk, meta
  <2> QED
    BY <2>4, <2>5
<1>6. ExclusiveInv'
  BY DEF IInv, TypeOK, ExclusiveInv, ExclusiveOf, DiskTypes, SaveInv, SaveOf,
        Saving, LockTypes, ProcTypes, Exclusive, Live, Labels, Lock, Gen,
        Writer, PruneLock, At, Goto, disk, meta, TakeExclusive,
        DropExclusive, Superseded, Free
<1>7. LeasePinned'
  BY DEF IInv, TypeOK, LeasePinned, ProcTypes, Live, None, PruneLock, At,
        Goto, disk, meta, TakeExclusive, DropExclusive, Superseded, Free,
        Writer
<1>8. CurrentPresent'
  BY DEF IInv, TypeOK, CurrentPresent, DiskTypes, Live, PruneLock, At, Goto,
        disk, meta, TakeExclusive, DropExclusive, Superseded, Free, Writer
<1> QED
  BY <1>1, <1>2, <1>3, <1>4, <1>5, <1>6, <1>7, <1>8 DEF IInv

\* Writing RETENTION.json keeps the invariant.
LEMMA PruneRetainInv == ASSUME IInv, NEW p \in Proc, PruneRetain(p) PROVE IInv'
<1>1. TypeOK'
  <2>1. retention' \in Gen \union {None}
    BY DEF IInv, TypeOK, DiskTypes, PruneRetain, Boundary
  <2>2. pc' \in [Proc -> Labels]
    BY DEF IInv, TypeOK, ProcTypes, PruneRetain, Labels, Goto, At
  <2>3. (faults \in 0 .. MaxFaults)'
    BY DEF IInv, TypeOK, PruneRetain, NoFault, Fault
  <2> QED
    BY <2>1, <2>2, <2>3
    DEF IInv, TypeOK, DiskTypes, MintTypes, LockTypes, ProcTypes,
        PruneRetain, meta, locks
<1>2. MintInv'
  BY DEF IInv, TypeOK, MintInv, DiskTypes, MintTypes, Gen, PruneRetain, At,
        Goto, meta, locks, NoFault, Fault, Boundary
<1>3. LockInv'
  BY DEF IInv, TypeOK, LockInv, LockTypes, Lock, Gen, PruneRetain, At, Goto,
        meta, locks, NoFault, Fault, Boundary
<1>4. ReadInv'
  BY DEF IInv, TypeOK, ReadInv, ReadOf, LockTypes, ProcTypes, Opening,
        Labels, None, Gen, Lock, PruneRetain, At, Goto, meta, locks, NoFault,
        Fault, Boundary
<1>5. SaveInv'
  BY DEF IInv, TypeOK, SaveInv, SaveOf, MintTypes, LockTypes, ProcTypes,
        Saving, Staging, Pruning, Labels, Lock, Gen, Writer, PruneRetain, At,
        Goto, meta, locks, NoFault, Fault, Boundary
<1>6. ExclusiveInv'
  BY DEF IInv, TypeOK, ExclusiveInv, ExclusiveOf, LockTypes, ProcTypes,
        Exclusive, Live, Labels, Lock, Gen, Writer, PruneRetain, At, Goto,
        meta, locks, NoFault, Fault, Boundary
<1>7. LeasePinned'
  BY DEF IInv, TypeOK, LeasePinned, ProcTypes, Live, None, PruneRetain, At,
        Goto, meta, locks, NoFault, Fault, Boundary
<1>8. CurrentPresent'
  BY DEF IInv, TypeOK, CurrentPresent, DiskTypes, Live, PruneRetain, At,
        Goto, meta, locks, NoFault, Fault, Boundary
<1> QED
  BY <1>1, <1>2, <1>3, <1>4, <1>5, <1>6, <1>7, <1>8 DEF IInv

\* Retiring a generation keeps the invariant.
LEMMA PruneRetireInv == ASSUME IInv, NEW p \in Proc, PruneRetire(p) PROVE IInv'
<1>1. TypeOK'
  <2>1. gens' \in SUBSET Gen
    BY DEF IInv, TypeOK, DiskTypes, PruneRetire
  <2>2. pc' \in [Proc -> Labels]
    BY DEF IInv, TypeOK, ProcTypes, PruneRetire, Labels, Goto, At
  <2>3. retired' \in [Proc -> SUBSET Gen]
    BY DEF IInv, TypeOK, ProcTypes, PruneRetire
  <2>4. (faults \in 0 .. MaxFaults)'
    BY DEF IInv, TypeOK, PruneRetire, NoFault, Fault
  <2> QED
    BY <2>1, <2>2, <2>3, <2>4
    DEF IInv, TypeOK, DiskTypes, MintTypes, LockTypes, ProcTypes,
        PruneRetire, meta, locks
<1>2. MintInv'
  BY DEF IInv, TypeOK, MintInv, DiskTypes, MintTypes, Gen, PruneRetire, At,
        Goto, meta, locks, NoFault, Fault
<1>3. LockInv'
  BY DEF IInv, TypeOK, LockInv, LockTypes, Lock, Gen, PruneRetire, At, Goto,
        meta, locks, NoFault, Fault
<1>4. ReadInv'
  BY DEF IInv, TypeOK, ReadInv, ReadOf, LockTypes, ProcTypes, Opening,
        Labels, None, Gen, Lock, PruneRetire, At, Goto, meta, locks, NoFault,
        Fault
<1>5. SaveInv'
  <2>1. ex[Writer] = p /\ place = "active" /\ current \notin batch[p]
         /\ \A g \in batch[p] : ex[g] = p
    BY DEF IInv, SaveInv, SaveOf, Saving, Pruning, PruneRetire, At
  <2>2. pc'[p] \in {"retire", "release"} /\ \A q \in Proc : q # p => pc'[q] = pc[q]
    BY DEF IInv, TypeOK, ProcTypes, PruneRetire, At, Goto
  <2> SUFFICES ASSUME NEW q \in Proc PROVE SaveOf(q)'
    BY DEF SaveInv
  <2>3. CASE q = p
    BY <2>1, <2>2, <2>3 DEF SaveOf, Saving, Staging, Pruning, PruneRetire, locks
  <2>4. CASE q # p
    BY <2>1, <2>2, <2>4 DEF IInv, SaveInv, SaveOf, Saving, Staging, PruneRetire,
        locks, meta
  <2> QED
    BY <2>3, <2>4
<1>6. ExclusiveInv'
  BY DEF IInv, TypeOK, ExclusiveInv, ExclusiveOf, LockTypes, ProcTypes,
        Exclusive, Live, Labels, Lock, Gen, Writer, PruneRetire, At, Goto,
        meta, locks, NoFault, Fault
<1>7. LeasePinned'
  <2>1. ASSUME NEW g \in batch[p], NEW q \in Proc, lease[q] = g PROVE FALSE
    <3>1. ex[g] = p /\ g \in Gen
      BY DEF IInv, TypeOK, ProcTypes, SaveInv, SaveOf, Pruning, PruneRetire, At
    <3>2. q \in sh[g]
      BY <2>1, <3>1 DEF IInv, ReadInv, ReadOf, Gen, None
    <3> QED
      BY <3>1, <3>2, LockNumbers DEF IInv, LockInv
  <2>2. \A g \in gens : g \notin batch[p] => g \in gens'
    BY DEF PruneRetire
  <2> QED
    BY <2>1, <2>2 DEF IInv, LeasePinned, PruneRetire, Live
<1>8. CurrentPresent'
  BY DEF IInv, TypeOK, CurrentPresent, SaveInv, SaveOf, Pruning, DiskTypes,
        Live, PruneRetire, At, Goto, meta, locks, NoFault, Fault
<1> QED
  BY <1>1, <1>2, <1>3, <1>4, <1>5, <1>6, <1>7, <1>8 DEF IInv

\* Closing a gate after a prune keeps the invariant.
LEMMA PruneReleaseInv == ASSUME IInv, NEW p \in Proc, PruneRelease(p) PROVE IInv'
<1>a. \/ /\ pc' = [pc EXCEPT ![p] = "idle"] /\ retired' = [retired EXCEPT ![p] = {}]
         /\ UNCHANGED <<batch, arg>>
      \/ \E g \in batch[p] : /\ batch' = [batch EXCEPT ![p] = @ \ {g}]
                             /\ \/ arg' = [arg EXCEPT ![p] = g] /\ pc' = [pc EXCEPT ![p] = "forget"]
                                \/ UNCHANGED <<arg, pc>>
                             /\ UNCHANGED retired
  BY DEF PruneRelease, Goto
<1>1. TypeOK'
  <2>1. pc' \in [Proc -> Labels]
    BY <1>a DEF IInv, TypeOK, ProcTypes, Labels
  <2>2. arg' \in [Proc -> Gen \union {None}]
    BY <1>a DEF IInv, TypeOK, ProcTypes, Gen, None
  <2>3. batch' \in [Proc -> SUBSET Gen]
    BY <1>a DEF IInv, TypeOK, ProcTypes
  <2>4. retired' \in [Proc -> SUBSET Gen]
    BY <1>a DEF IInv, TypeOK, ProcTypes
  <2>5. ex' \in [Lock -> Proc \union {NoProc}]
    BY DEF IInv, TypeOK, LockTypes, PruneRelease, Lock, Gen, DropExclusive,
        Writer
  <2>6. (faults \in 0 .. MaxFaults)'
    BY DEF IInv, TypeOK, PruneRelease
  <2> QED
    BY <2>1, <2>2, <2>3, <2>4, <2>5, <2>6
    DEF IInv, TypeOK, DiskTypes, MintTypes, LockTypes, ProcTypes,
        PruneRelease, disk, meta
<1>2. MintInv'
  BY DEF IInv, TypeOK, MintInv, DiskTypes, MintTypes, Gen, PruneRelease, At,
        Goto, disk, meta, DropExclusive, Writer
<1>3. LockInv'
  BY DEF IInv, TypeOK, LockInv, LockTypes, Lock, Gen, PruneRelease, At, Goto,
        disk, meta, DropExclusive, Writer
<1>4. ReadInv'
  BY DEF IInv, TypeOK, ReadInv, ReadOf, LockTypes, ProcTypes, Opening,
        Labels, None, Gen, Lock, PruneRelease, At, Goto, disk, meta,
        DropExclusive, Writer
<1>5. SaveInv'
  <2>0. /\ pc[p] = "release" /\ pc[p] \in Saving /\ pc[p] \in Pruning
        /\ pc \in [Proc -> Labels] /\ batch \in [Proc -> SUBSET Gen] /\ gens \subseteq Gen
    BY DEF IInv, TypeOK, ProcTypes, DiskTypes, PruneRelease, At, Saving, Pruning
  <2>1. /\ ex[Writer] = p /\ place = "active" /\ current \notin batch[p] /\ \A g \in batch[p] : ex[g] = p
    BY <2>0 DEF IInv, SaveInv, SaveOf
  <2>2. \A q \in Proc : q # p => pc'[q] = pc[q] /\ pc[q] \notin Saving
    BY <2>0, <2>1 DEF IInv, SaveInv, SaveOf, PruneRelease, Goto
  <2>3. \A q \in Proc : q # p => SaveOf(q)'
    BY <2>2 DEF SaveOf, Saving, Staging, Pruning
  <2>4. CASE batch[p] = {}
    <3>1. pc'[p] = "idle"
      BY <2>0, <2>4 DEF PruneRelease, Goto
    <3> QED
      BY <2>3, <3>1 DEF SaveInv, SaveOf, Saving, Staging, Pruning
  <2>5. CASE batch[p] # {}
    <3>1. PICK g \in batch[p] : /\ DropExclusive(p, {g})
                               /\ batch' = [batch EXCEPT ![p] = batch[p] \ {g}]
                               /\ pc'[p] \in {"release", "forget"}
      BY <2>0, <2>5 DEF PruneRelease, Goto
    <3>2. g \in Gen /\ Writer \in Lock /\ g # Writer /\ \A h \in Gen : h \in Lock
      BY <2>0, LockNumbers
    <3>3. ex'[Writer] = p /\ place' = "active" /\ current' = current
      BY <2>1, <3>1, <3>2 DEF DropExclusive, PruneRelease, disk
    <3>4. batch'[p] = batch[p] \ {g}
      BY <2>0, <3>1
    <3>5. \A h \in batch'[p] : ex'[h] = p
      BY <2>0, <2>1, <3>1, <3>2, <3>4 DEF DropExclusive
    <3>6. SaveOf(p)'
      BY <2>1, <3>1, <3>3, <3>4, <3>5 DEF SaveOf, Staging
    <3> QED
      BY <2>3, <3>6 DEF SaveInv
  <2> QED
    BY <2>4, <2>5
<1>6. ExclusiveInv'
  <2>1. ex[Writer] = p
    BY DEF IInv, SaveInv, SaveOf, Saving, Staging, Pruning, PruneRelease, At
  <2>2. pc'[p] \notin Exclusive \union {"clean", "finish"} /\ \A q \in Proc : q # p => pc'[q] = pc[q]
    BY DEF IInv, TypeOK, ProcTypes, PruneRelease, Goto, Exclusive, At
  <2> QED
    BY <2>1, <2>2, ExclusiveAlone
<1>7. LeasePinned'
  BY DEF IInv, TypeOK, LeasePinned, ProcTypes, Live, None, PruneRelease, At,
        Goto, disk, meta, DropExclusive, Writer
<1>8. CurrentPresent'
  BY DEF IInv, TypeOK, CurrentPresent, DiskTypes, Live, PruneRelease, At,
        Goto, disk, meta, DropExclusive, Writer
<1> QED
  BY <1>1, <1>2, <1>3, <1>4, <1>5, <1>6, <1>7, <1>8 DEF IInv

\* Unlinking the gate of a retired generation keeps the invariant.
LEMMA PruneForgetInv == ASSUME IInv, NEW p \in Proc, PruneForget(p) PROVE IInv'
<1>1. TypeOK'
  <2>1. pc' \in [Proc -> Labels]
    BY DEF IInv, TypeOK, ProcTypes, PruneForget, Labels, Goto, At
  <2>2. arg' \in [Proc -> Gen \union {None}]
    BY DEF IInv, TypeOK, ProcTypes, PruneForget, Gen, None
  <2>3. batch' \in [Proc -> SUBSET Gen]
    BY DEF IInv, TypeOK, ProcTypes, PruneForget
  <2>4. retired' \in [Proc -> SUBSET Gen]
    BY DEF IInv, TypeOK, ProcTypes, PruneForget
  <2>5. ex' \in [Lock -> Proc \union {NoProc}]
    BY DEF IInv, TypeOK, LockTypes, PruneForget, Lock, Gen, DropExclusive,
        Writer
  <2>6. gates' \in SUBSET Gen
    BY DEF IInv, TypeOK, DiskTypes, PruneForget
  <2>7. (faults \in 0 .. MaxFaults)'
    BY DEF IInv, TypeOK, PruneForget
  <2> QED
    BY <2>1, <2>2, <2>3, <2>4, <2>5, <2>6, <2>7
    DEF IInv, TypeOK, DiskTypes, MintTypes, LockTypes, ProcTypes,
        PruneForget, meta
<1>2. MintInv'
  BY DEF IInv, TypeOK, MintInv, DiskTypes, MintTypes, Gen, PruneForget, At,
        Goto, meta, DropExclusive, Free, Writer
<1>3. LockInv'
  BY DEF IInv, TypeOK, LockInv, LockTypes, Lock, Gen, PruneForget, At, Goto,
        meta, DropExclusive, Free, Writer
<1>4. ReadInv'
  BY DEF IInv, TypeOK, ReadInv, ReadOf, LockTypes, ProcTypes, Opening,
        Labels, None, Gen, Lock, PruneForget, At, Goto, meta, DropExclusive,
        Free, Writer
<1>5. SaveInv'
  BY DEF IInv, TypeOK, SaveInv, SaveOf, MintTypes, LockTypes, ProcTypes,
        Saving, Staging, Pruning, Labels, Lock, Gen, Writer, PruneForget, At,
        Goto, meta, DropExclusive, Free
<1>6. ExclusiveInv'
  <2>1. ex[Writer] = p
    BY DEF IInv, SaveInv, SaveOf, Saving, Staging, Pruning, PruneForget, At
  <2>2. pc'[p] \notin Exclusive \union {"clean", "finish"} /\ \A q \in Proc : q # p => pc'[q] = pc[q]
    BY DEF IInv, TypeOK, ProcTypes, PruneForget, Goto, Exclusive, At
  <2> QED
    BY <2>1, <2>2, ExclusiveAlone
<1>7. LeasePinned'
  BY DEF IInv, TypeOK, LeasePinned, ProcTypes, Live, None, PruneForget, At,
        Goto, meta, DropExclusive, Free, Writer
<1>8. CurrentPresent'
  BY DEF IInv, TypeOK, CurrentPresent, DiskTypes, Live, PruneForget, At,
        Goto, meta, DropExclusive, Free, Writer
<1> QED
  BY <1>1, <1>2, <1>3, <1>4, <1>5, <1>6, <1>7, <1>8 DEF IInv

-----------------------------------------------------------------------------
\* Moving and deleting.
LEMMA ExclusiveStartInv ==
  ASSUME IInv, NEW p \in Proc, NEW next \in {"moveLock", "deleteLock"}, ExclusiveStart(p, next)
  PROVE  IInv'
<1>1. TypeOK'
  <2>1. pc' \in [Proc -> Labels]
    BY DEF IInv, TypeOK, ProcTypes, ExclusiveStart, Goto, Labels
  <2>2. from' \in [Proc -> {"active", "trash"}]
    BY DEF IInv, TypeOK, ProcTypes, ExclusiveStart, Live
  <2>3. ex' \in [Lock -> Proc \union {NoProc}]
    BY DEF IInv, TypeOK, LockTypes, ExclusiveStart, TakeExclusive
  <2> QED
    BY <2>1, <2>2, <2>3 DEF IInv, TypeOK, DiskTypes, MintTypes, LockTypes, ProcTypes,
        ExclusiveStart, disk, meta
<1>2. \A l \in Lock : ex'[l] = ex[l] \/ (l = Root /\ ex[l] = NoProc /\ sh[l] = {} /\ ex'[l] = p)
  BY DEF ExclusiveStart, TakeExclusive, Free
<1>3. pc'[p] = next /\ \A q \in Proc : q # p => pc'[q] = pc[q]
  BY DEF IInv, TypeOK, ProcTypes, ExclusiveStart, Goto
<1>4. MintInv' /\ LeasePinned' /\ CurrentPresent'
  BY DEF IInv, MintInv, LeasePinned, CurrentPresent, Live, ExclusiveStart, disk, meta
<1>5. LockInv'
  BY <1>2 DEF IInv, LockInv, ExclusiveStart
<1>6. ReadInv'
  BY <1>3 DEF IInv, ReadInv, ReadOf, Opening, ExclusiveStart
<1>7. \A g \in Gen : ex'[g] = ex[g]
  BY <1>2, LockNumbers
<1>8. ex'[Writer] = ex[Writer]
  BY <1>2, LockNumbers
<1>9. SaveInv'
  BY <1>3, <1>7, <1>8 DEF IInv, TypeOK, ProcTypes, SaveInv, SaveOf, Saving, Staging,
      Pruning, ExclusiveStart, disk, meta
<1>10. ExclusiveInv'
  BY <1>3, <1>7, <1>8 DEF IInv, TypeOK, DiskTypes, ExclusiveInv, ExclusiveOf, Exclusive,
      Live, ExclusiveStart, disk
<1> QED
  BY <1>1, <1>4, <1>5, <1>6, <1>9, <1>10 DEF IInv

\* Taking the writer lock and every gate keeps the invariant.
LEMMA ExclusiveLockInv ==
  ASSUME IInv, NEW p \in Proc,
         NEW label \in {"moveLock", "deleteLock"}, NEW next \in Exclusive,
         ExclusiveLock(p, label, next)
  PROVE  IInv'
<1>1. TypeOK'
  <2>1. pc' \in [Proc -> Labels]
    BY DEF IInv, TypeOK, ProcTypes, ExclusiveLock, Goto, Labels, Exclusive
  <2>2. gates' \in SUBSET Gen
    BY DEF IInv, TypeOK, DiskTypes, ExclusiveLock
  <2>3. ex' \in [Lock -> Proc \union {NoProc}]
    BY DEF IInv, TypeOK, LockTypes, ExclusiveLock, DropExclusive
  <2> QED
    BY <2>1, <2>2, <2>3 DEF IInv, TypeOK, DiskTypes, MintTypes, LockTypes, ProcTypes,
        ExclusiveLock, meta
<1>2. \/ /\ Free(Writer) /\ place = from[p] /\ GatesFree(p)
         /\ pc' = [pc EXCEPT ![p] = next]
         /\ ex' = [l \in Lock |-> IF l \in {Writer} \union gens THEN p ELSE ex[l]]
      \/ pc' = [pc EXCEPT ![p] = "idle"] /\ DropExclusive(p, {Root})
  BY DEF ExclusiveLock, Goto
<1>3. MintInv' /\ LeasePinned' /\ CurrentPresent'
  BY DEF IInv, MintInv, LeasePinned, CurrentPresent, Live, ExclusiveLock, meta
<1>4. ReadInv'
  BY <1>2 DEF IInv, TypeOK, ProcTypes, ReadInv, ReadOf, Opening, Exclusive, ExclusiveLock
<1>5. CASE /\ Free(Writer) /\ place = from[p] /\ GatesFree(p)
           /\ pc' = [pc EXCEPT ![p] = next]
           /\ ex' = [l \in Lock |-> IF l \in {Writer} \union gens THEN p ELSE ex[l]]
  <2>1. LockInv'
    BY <1>5 DEF IInv, LockInv, Free, GatesFree, ExclusiveLock
  <2>2. \A q \in Proc : pc[q] \notin Saving \union Exclusive \union {"clean", "finish"}
    BY <1>5 DEF IInv, SaveInv, SaveOf, ExclusiveInv, ExclusiveOf, Free
  <2>3. SaveInv'
    BY <1>5, <2>2 DEF IInv, TypeOK, ProcTypes, SaveInv, SaveOf, Saving, Staging, Pruning,
        Exclusive
  <2>4. Live
    BY <1>5 DEF IInv, TypeOK, ProcTypes, Live
  <2>5. ex'[Writer] = p /\ \A g \in gens : ex'[g] = p
    BY <1>5, LockNumbers DEF IInv, TypeOK, DiskTypes
  <2>6. ExclusiveInv'
    BY <1>5, <2>2, <2>4, <2>5 DEF IInv, TypeOK, ProcTypes, ExclusiveInv, ExclusiveOf, Live,
        Exclusive, ExclusiveLock
  <2> QED
    BY <1>1, <1>3, <1>4, <2>1, <2>3, <2>6 DEF IInv
<1>6. CASE pc' = [pc EXCEPT ![p] = "idle"] /\ DropExclusive(p, {Root})
  <2>1. LockInv'
    BY <1>6 DEF IInv, LockInv, DropExclusive, ExclusiveLock
  <2>2. \A l \in Lock : l # Root => ex'[l] = ex[l]
    BY <1>6 DEF DropExclusive
  <2>3. ex'[Writer] = ex[Writer] /\ \A g \in Gen : ex'[g] = ex[g]
    BY <2>2, LockNumbers
  <2>4. SaveInv'
    BY <1>6, <2>3 DEF IInv, TypeOK, ProcTypes, SaveInv, SaveOf, Saving, Staging, Pruning,
        ExclusiveLock, meta
  <2>5. ExclusiveInv'
    BY <1>6, <2>3 DEF IInv, TypeOK, DiskTypes, ProcTypes, ExclusiveInv, ExclusiveOf,
        Exclusive, Live, ExclusiveLock
  <2> QED
    BY <1>1, <1>3, <1>4, <2>1, <2>4, <2>5 DEF IInv
<1> QED
  BY <1>2, <1>5, <1>6

\* Renaming the folder keeps the invariant.
LEMMA MoveRenameInv == ASSUME IInv, NEW p \in Proc, MoveRename(p) PROVE IInv'
<1>1. TypeOK'
  <2>1. place' \in {"active", "trash", "tomb", "gone"}
    BY DEF IInv, TypeOK, DiskTypes, MoveRename, Live, Other
  <2>2. ex' \in [Lock -> Proc \union {NoProc}]
    BY DEF IInv, TypeOK, LockTypes, MoveRename, Lock, Gen, DropExclusive, Root,
        Writer
  <2>3. pc' \in [Proc -> Labels]
    BY DEF IInv, TypeOK, ProcTypes, MoveRename, Labels, Goto, At
  <2>4. (faults \in 0 .. MaxFaults)'
    BY DEF IInv, TypeOK, MoveRename
  <2> QED
    BY <2>1, <2>2, <2>3, <2>4
    DEF IInv, TypeOK, DiskTypes, MintTypes, LockTypes, ProcTypes,
        MoveRename, meta
<1>2. MintInv'
  BY DEF IInv, TypeOK, MintInv, DiskTypes, MintTypes, Gen, MoveRename, At,
        Goto, meta, DropExclusive, Other, Root, Writer
<1>3. LockInv'
  BY DEF IInv, TypeOK, LockInv, LockTypes, Lock, Gen, MoveRename, At, Goto,
        meta, DropExclusive, Other, Root, Writer
<1>4. ReadInv'
  BY DEF IInv, TypeOK, ReadInv, ReadOf, LockTypes, ProcTypes, Opening,
        Labels, None, Gen, Lock, MoveRename, At, Goto, meta, DropExclusive,
        Other, Root, Writer
<1>5. SaveInv'
  BY DEF IInv, TypeOK, SaveInv, SaveOf, DiskTypes, ExclusiveInv, ExclusiveOf,
        Exclusive, MintTypes, LockTypes, ProcTypes, Saving, Staging, Pruning,
        Labels, Lock, Gen, Writer, MoveRename, At, Goto, meta, DropExclusive,
        Other, Root
<1>6. ExclusiveInv'
  BY DEF IInv, TypeOK, ExclusiveInv, ExclusiveOf, LockTypes, ProcTypes,
        Exclusive, Live, Labels, Lock, Gen, Writer, MoveRename, At, Goto,
        meta, DropExclusive, Other, Root
<1>7. LeasePinned'
  BY DEF IInv, TypeOK, LeasePinned, ProcTypes, Live, None, MoveRename, At,
        Goto, meta, DropExclusive, Other, Root, Writer
<1>8. CurrentPresent'
  BY DEF IInv, TypeOK, CurrentPresent, ExclusiveInv, ExclusiveOf, Exclusive,
        DiskTypes, Live, MoveRename, At, Goto, meta, DropExclusive, Other,
        Root, Writer
<1> QED
  BY <1>1, <1>2, <1>3, <1>4, <1>5, <1>6, <1>7, <1>8 DEF IInv

\* Writing DELETE.json and moving the folder away keeps the invariant.
LEMMA DeleteMoveInv == ASSUME IInv, NEW p \in Proc, DeleteMove(p) PROVE IInv'
<1>1. TypeOK'
  <2>1. place' \in {"active", "trash", "tomb", "gone"}
    BY DEF IInv, TypeOK, DiskTypes, DeleteMove, Live
  <2>2. record' \in SUBSET Gen
    BY DEF IInv, TypeOK, DiskTypes, DeleteMove
  <2>3. gens' \in SUBSET Gen
    BY DEF IInv, TypeOK, DiskTypes, DeleteMove
  <2>4. pc' \in [Proc -> Labels]
    BY DEF IInv, TypeOK, ProcTypes, DeleteMove, Labels, Goto, At
  <2>5. retired' \in [Proc -> SUBSET Gen]
    BY DEF IInv, TypeOK, ProcTypes, DiskTypes, DeleteMove
  <2>6. ex' \in [Lock -> Proc \union {NoProc}]
    BY DEF IInv, TypeOK, LockTypes, DeleteMove, Lock, Gen, DropExclusive, Root,
        Writer
  <2>7. (faults \in 0 .. MaxFaults)'
    BY DEF IInv, TypeOK, DeleteMove
  <2> QED
    BY <2>1, <2>2, <2>3, <2>4, <2>5, <2>6, <2>7
    DEF IInv, TypeOK, DiskTypes, MintTypes, LockTypes, ProcTypes,
        DeleteMove, meta
<1>2. MintInv'
  BY DEF IInv, TypeOK, MintInv, DiskTypes, MintTypes, Gen, DeleteMove, At,
        Goto, meta, DropExclusive, Root, Writer
<1>3. LockInv'
  BY DEF IInv, TypeOK, LockInv, LockTypes, Lock, Gen, DeleteMove, At, Goto,
        meta, DropExclusive, Root, Writer
<1>4. ReadInv'
  BY DEF IInv, TypeOK, ReadInv, ReadOf, LockTypes, ProcTypes, Opening,
        Labels, None, Gen, Lock, DeleteMove, At, Goto, meta, DropExclusive,
        Root, Writer
<1>5. SaveInv'
  BY DEF IInv, TypeOK, SaveInv, SaveOf, DiskTypes, ExclusiveInv, ExclusiveOf,
        Exclusive, MintTypes, LockTypes, ProcTypes, Saving, Staging, Pruning,
        Labels, Lock, Gen, Writer, DeleteMove, At, Goto, meta, DropExclusive,
        Root
<1>6. ExclusiveInv'
  <2>1. ex[Writer] = p
    BY DEF IInv, ExclusiveInv, ExclusiveOf, Exclusive, DeleteMove, At
  <2>2. /\ \/ pc'[p] = "idle"
           \/ pc'[p] = "clean" /\ ex' = ex /\ place' = "tomb"
        /\ \A q \in Proc : q # p => pc'[q] = pc[q]
    BY DEF IInv, TypeOK, ProcTypes, DeleteMove, Goto
  <2>3. \A q \in Proc : q # p => ExclusiveOf(q)'
    BY <2>1, <2>2 DEF IInv, ExclusiveInv, ExclusiveOf, Exclusive
  <2>4. ExclusiveOf(p)'
    BY <2>1, <2>2 DEF ExclusiveOf, Exclusive, Live
  <2> QED
    BY <2>3, <2>4 DEF ExclusiveInv
<1>7. LeasePinned'
  <2>1. ASSUME NEW q \in Proc, lease[q] # None PROVE FALSE
    <3>1. lease[q] \in gens /\ q \in sh[lease[q]]
      BY <2>1 DEF IInv, LeasePinned, ReadInv, ReadOf
    <3>2. ex[lease[q]] = p
      BY <3>1 DEF IInv, ExclusiveInv, ExclusiveOf, Exclusive, DeleteMove, At
    <3>3. lease[q] \in Lock
      BY <3>1, LockNumbers DEF IInv, TypeOK, DiskTypes
    <3> QED
      BY <3>1, <3>2, <3>3 DEF IInv, LockInv
  <2> QED
    BY <2>1 DEF LeasePinned, DeleteMove
<1>8. CurrentPresent'
  BY DEF IInv, TypeOK, CurrentPresent, DiskTypes, Live, DeleteMove, At, Goto,
        meta, DropExclusive, Root, Writer
<1> QED
  BY <1>1, <1>2, <1>3, <1>4, <1>5, <1>6, <1>7, <1>8 DEF IInv

\* Removing a deleted folder keeps the invariant.
LEMMA DeleteCleanInv == ASSUME IInv, NEW p \in Proc, DeleteClean(p) PROVE IInv'
<1>1. TypeOK'
  <2>1. place' \in {"active", "trash", "tomb", "gone"}
    BY DEF IInv, TypeOK, DiskTypes, DeleteClean, Live
  <2>2. record' \in SUBSET Gen
    BY DEF IInv, TypeOK, DiskTypes, DeleteClean, Leftover
  <2>3. pc' \in [Proc -> Labels]
    BY DEF IInv, TypeOK, ProcTypes, DeleteClean, Labels, Goto, At
  <2>4. retired' \in [Proc -> SUBSET Gen]
    BY DEF IInv, TypeOK, ProcTypes, DeleteClean
  <2>5. ex' \in [Lock -> Proc \union {NoProc}]
    BY DEF IInv, TypeOK, LockTypes, DeleteClean, Lock, Gen, DropExclusive,
        Root, Writer
  <2>6. (faults \in 0 .. MaxFaults)'
    BY DEF IInv, TypeOK, DeleteClean, NoFault, Fault
  <2> QED
    BY <2>1, <2>2, <2>3, <2>4, <2>5, <2>6
    DEF IInv, TypeOK, DiskTypes, MintTypes, LockTypes, ProcTypes,
        DeleteClean, meta
<1>2. MintInv'
  BY DEF IInv, TypeOK, MintInv, DiskTypes, MintTypes, Gen, DeleteClean, At,
        Goto, meta, DropExclusive, Leftover, NoFault, Fault, Root, Writer
<1>3. LockInv'
  BY DEF IInv, TypeOK, LockInv, LockTypes, Lock, Gen, DeleteClean, At, Goto,
        meta, DropExclusive, Leftover, NoFault, Fault, Root, Writer
<1>4. ReadInv'
  BY DEF IInv, TypeOK, ReadInv, ReadOf, LockTypes, ProcTypes, Opening,
        Labels, None, Gen, Lock, DeleteClean, At, Goto, meta, DropExclusive,
        Leftover, NoFault, Fault, Root, Writer
<1>5. SaveInv'
  <2>1. ex[Writer] = p
    BY DEF IInv, ExclusiveInv, ExclusiveOf, DeleteClean, At
  <2>2. pc'[p] \in {"unlink", "idle"} /\ \A q \in Proc : q # p => pc'[q] = pc[q]
    BY DEF IInv, TypeOK, ProcTypes, DeleteClean, Goto
  <2>3. \A q \in Proc : pc'[q] \notin Saving
    BY <2>1, <2>2 DEF IInv, SaveInv, SaveOf, Saving, Staging, Pruning
  <2> QED
    BY <2>3 DEF SaveInv, SaveOf, Saving, Staging, Pruning
<1>6. ExclusiveInv'
  <2>1. ex[Writer] = p
    BY DEF IInv, ExclusiveInv, ExclusiveOf, DeleteClean, At
  <2>2. pc'[p] \in {"unlink", "idle"} /\ \A q \in Proc : q # p => pc'[q] = pc[q]
    BY DEF IInv, TypeOK, ProcTypes, DeleteClean, Goto
  <2> QED
    BY <2>1, <2>2, ExclusiveAlone DEF Exclusive
<1>7. LeasePinned'
  BY DEF IInv, TypeOK, LeasePinned, ExclusiveInv, ExclusiveOf, ProcTypes,
        Live, None, DeleteClean, At, Goto, meta, DropExclusive, Leftover,
        NoFault, Fault, Root, Writer
<1>8. CurrentPresent'
  BY DEF IInv, TypeOK, CurrentPresent, DiskTypes, Live, DeleteClean, At,
        Goto, meta, DropExclusive, Leftover, NoFault, Fault, Root, Writer
<1> QED
  BY <1>1, <1>2, <1>3, <1>4, <1>5, <1>6, <1>7, <1>8 DEF IInv

\* Unlinking the gates of a deleted session keeps the invariant.
LEMMA UnlinkGatesInv == ASSUME IInv, NEW p \in Proc, UnlinkGates(p) PROVE IInv'
<1>1. TypeOK'
  <2>1. gates' \in SUBSET Gen
    BY DEF IInv, TypeOK, DiskTypes, UnlinkGates
  <2>2. pc' \in [Proc -> Labels]
    BY DEF IInv, TypeOK, ProcTypes, UnlinkGates, Labels, Goto, At
  <2>3. retired' \in [Proc -> SUBSET Gen]
    BY DEF IInv, TypeOK, ProcTypes, UnlinkGates
  <2>4. ex' \in [Lock -> Proc \union {NoProc}]
    BY DEF IInv, TypeOK, LockTypes, UnlinkGates, Lock, Gen, DropExclusive,
        Root, Writer
  <2>5. sh' \in [Lock -> SUBSET Proc]
    BY DEF IInv, TypeOK, LockTypes, UnlinkGates, Lock, Gen, DropShared, Root,
        Writer
  <2>6. (faults \in 0 .. MaxFaults)'
    BY DEF IInv, TypeOK, UnlinkGates
  <2> QED
    BY <2>1, <2>2, <2>3, <2>4, <2>5, <2>6
    DEF IInv, TypeOK, DiskTypes, MintTypes, LockTypes, ProcTypes,
        UnlinkGates, meta
<1>2. MintInv'
  BY DEF IInv, TypeOK, MintInv, DiskTypes, MintTypes, Gen, UnlinkGates, At,
        Goto, meta, DropExclusive, DropShared, Free, Root, Writer
<1>3. LockInv'
  BY DEF IInv, TypeOK, LockInv, LockTypes, Lock, Gen, UnlinkGates, At, Goto,
        meta, DropExclusive, DropShared, Free, Root, Writer
<1>4. ReadInv'
  BY DEF IInv, TypeOK, ReadInv, ReadOf, LockTypes, ProcTypes, Opening,
        Labels, None, Gen, Lock, UnlinkGates, At, Goto, meta, DropExclusive,
        DropShared, Free, Root, Writer
<1>5. SaveInv'
  <2>1. pc'[p] \notin Saving /\ \A q \in Proc : q # p => pc'[q] = pc[q]
    BY DEF IInv, TypeOK, ProcTypes, UnlinkGates, At, Goto, Saving, Staging, Pruning
  <2>2. \A l \in Lock, q \in Proc : q # p /\ ex[l] = q => ex'[l] = q
    BY DEF UnlinkGates, DropExclusive
  <2>3. Writer \in Lock /\ \A q \in Proc : batch[q] \subseteq Lock
    BY LockNumbers DEF IInv, TypeOK, ProcTypes
  <2> QED
    BY <2>1, <2>2, <2>3 DEF IInv, SaveInv, SaveOf, Saving, Staging, Pruning,
        UnlinkGates, meta
<1>6. ExclusiveInv'
  BY DEF IInv, TypeOK, ExclusiveInv, ExclusiveOf, DiskTypes, LockTypes,
        ProcTypes, Exclusive, Live, Labels, Lock, Gen, Writer, UnlinkGates,
        At, Goto, meta, DropExclusive, DropShared, Free, Root
<1>7. LeasePinned'
  BY DEF IInv, TypeOK, LeasePinned, ProcTypes, Live, None, UnlinkGates, At,
        Goto, meta, DropExclusive, DropShared, Free, Root, Writer
<1>8. CurrentPresent'
  BY DEF IInv, TypeOK, CurrentPresent, DiskTypes, Live, UnlinkGates, At,
        Goto, meta, DropExclusive, DropShared, Free, Root, Writer
<1> QED
  BY <1>1, <1>2, <1>3, <1>4, <1>5, <1>6, <1>7, <1>8 DEF IInv

-----------------------------------------------------------------------------
\* The environment.
LEMMA CrashInv == ASSUME IInv, NEW p \in Proc, Crash(p) PROVE IInv'
<1>1. TypeOK'
  <2>1. ex' \in [Lock -> Proc \union {NoProc}]
    BY DEF IInv, TypeOK, LockTypes, Crash, Lock, Gen
  <2>2. sh' \in [Lock -> SUBSET Proc]
    BY DEF IInv, TypeOK, LockTypes, Crash, Lock, Gen
  <2>3. pc' \in [Proc -> Labels]
    BY DEF IInv, TypeOK, ProcTypes, Crash, Labels, Goto, At
  <2>4. arg' \in [Proc -> Gen \union {None}]
    BY DEF IInv, TypeOK, ProcTypes, Crash, Gen, None
  <2>5. tries' \in [Proc -> 0 .. OpenTries]
    BY DEF IInv, TypeOK, ProcTypes, Crash
  <2>6. batch' \in [Proc -> SUBSET Gen]
    BY DEF IInv, TypeOK, ProcTypes, Crash
  <2>7. retired' \in [Proc -> SUBSET Gen]
    BY DEF IInv, TypeOK, ProcTypes, Crash
  <2>8. lease' \in [Proc -> Gen \union {None}]
    BY DEF IInv, TypeOK, ProcTypes, Crash, None
  <2>9. seen' \in [Proc -> 0 .. MaxGen]
    BY DEF IInv, TypeOK, ProcTypes, Crash, MintTypes
  <2>10. (faults \in 0 .. MaxFaults)'
    BY DEF IInv, TypeOK, Crash, Fault
  <2> QED
    BY <2>1, <2>2, <2>3, <2>4, <2>5, <2>6, <2>7, <2>8, <2>9, <2>10
    DEF IInv, TypeOK, DiskTypes, MintTypes, LockTypes, ProcTypes, Crash,
        disk, meta
<1>2. MintInv'
  BY DEF IInv, TypeOK, MintInv, DiskTypes, MintTypes, Gen, Crash, At, Goto,
        disk, meta, Fault
<1>3. LockInv'
  BY DEF IInv, TypeOK, LockInv, LockTypes, Lock, Gen, Crash, At, Goto, disk,
        meta, Fault
<1>4. ReadInv'
  BY DEF IInv, TypeOK, ReadInv, ReadOf, LockTypes, ProcTypes, Opening,
        Labels, None, Gen, Lock, Crash, At, Goto, disk, meta, Fault
<1>5. SaveInv'
  BY DEF IInv, TypeOK, SaveInv, SaveOf, DiskTypes, None, MintTypes,
        LockTypes, ProcTypes, Saving, Staging, Pruning, Labels, Lock, Gen,
        Writer, Crash, At, Goto, disk, meta, Fault
<1>6. ExclusiveInv'
  BY DEF IInv, TypeOK, ExclusiveInv, ExclusiveOf, DiskTypes, LockTypes,
        ProcTypes, Exclusive, Live, Labels, Lock, Gen, Writer, Crash, At,
        Goto, disk, meta, Fault
<1>7. LeasePinned'
  BY DEF IInv, TypeOK, LeasePinned, ProcTypes, Live, None, Crash, At, Goto,
        disk, meta, Fault
<1>8. CurrentPresent'
  BY DEF IInv, TypeOK, CurrentPresent, DiskTypes, Live, Crash, At, Goto,
        disk, meta, Fault
<1> QED
  BY <1>1, <1>2, <1>3, <1>4, <1>5, <1>6, <1>7, <1>8 DEF IInv

\* Losing a gate file keeps the invariant.
LEMMA LoseGateInv == ASSUME IInv, NEW g \in Gen, LoseGate(g) PROVE IInv'
<1>1. TypeOK'
  BY DEF IInv, TypeOK, DiskTypes, MintTypes, LockTypes, ProcTypes, LoseGate, Fault, meta,
      locks, local
<1>2. UNCHANGED <<place, gens, broken, current, retention, record, meta, locks, local>>
  BY DEF LoseGate
<1> QED
  BY <1>1, <1>2 DEF IInv, MintInv, LockInv, ReadInv, ReadOf, SaveInv, SaveOf, ExclusiveInv,
      ExclusiveOf, LeasePinned, CurrentPresent, Live, meta, locks, local

\* A step that changes nothing keeps the invariant.
LEMMA StutterInv == ASSUME IInv, UNCHANGED vars PROVE IInv'
<1>1. UNCHANGED <<disk, meta, locks, local, faults>>
  BY DEF vars
<1>2. TypeOK'
  BY <1>1 DEF IInv, TypeOK, DiskTypes, MintTypes, LockTypes, ProcTypes, disk, meta, locks,
      local
<1> QED
  BY <1>1, <1>2 DEF IInv, MintInv, LockInv, ReadInv, ReadOf, SaveInv, SaveOf, ExclusiveInv,
      ExclusiveOf, LeasePinned, CurrentPresent, Live, disk, meta, locks, local

\* Every step keeps the invariant.
LEMMA NextInv == ASSUME IInv, [Next]_vars PROVE IInv'
<1>1. ASSUME NEW p \in Proc, Open(p) \/ CloseLease(p) PROVE IInv'
  BY <1>1, OpenStartInv, OpenGateInv, OpenCheckInv, OpenRetryInv, CloseLeaseInv DEF Open
<1>2. ASSUME NEW p \in Proc, List(p) PROVE IInv'
  BY <1>2, ListStartInv, ListSweepInv, ListRepairInv, ShedInv, ListShareInv DEF List
<1>3. ASSUME NEW p \in Proc, Commit(p) PROVE IInv'
  BY <1>3, CommitStartInv, CommitGateInv, CommitPublishInv, CommitPointInv, CommitAbortInv,
     CommitViewInv, ShedInv DEF Commit
<1>4. ASSUME NEW p \in Proc, Prune(p) PROVE IInv'
  BY <1>4, PruneLockInv, PruneRetainInv, PruneRetireInv, PruneReleaseInv, PruneForgetInv
     DEF Prune
<1>5. ASSUME NEW p \in Proc, Move(p) PROVE IInv'
  BY <1>5, ExclusiveStartInv, ExclusiveLockInv, MoveRenameInv
     DEF Move, MoveStart, MoveLock, Exclusive
<1>6. ASSUME NEW p \in Proc, Delete(p) PROVE IInv'
  BY <1>6, ExclusiveStartInv, ExclusiveLockInv, DeleteMoveInv, DeleteCleanInv, UnlinkGatesInv
     DEF Delete, DeleteStart, DeleteLock, Exclusive
<1>7. ASSUME NEW p \in Proc, Crash(p) PROVE IInv'
  BY <1>7, CrashInv
<1>8. ASSUME NEW g \in Gen, LoseGate(g) PROVE IInv'
  BY <1>8, LoseGateInv
<1>9. CASE UNCHANGED vars
  BY <1>9, StutterInv
<1> QED
  BY <1>1, <1>2, <1>3, <1>4, <1>5, <1>6, <1>7, <1>8, <1>9 DEF Next

-----------------------------------------------------------------------------
\* The inductive invariant holds of every behaviour of the store.
THEOREM Invariance == Spec => []IInv
<1>1. Init => IInv
  BY InitInv
<1>2. IInv /\ [Next]_vars => IInv'
  BY NextInv
<1> QED
  BY <1>1, <1>2, PTL DEF Spec

\* Every variable of the store keeps its type.
THEOREM TypeCorrect == Spec => []TypeOK
<1>1. IInv => TypeOK
  BY DEF IInv
<1> QED
  BY <1>1, Invariance, PTL

\* An open lease pins its generation: it stays published and the session is
\* not deleted, through every interleaving of saves, compactions, moves,
\* deletes, crashes and I/O errors of any number of processes.
THEOREM LeasesPin == Spec => []LeasePinned
<1>1. IInv => LeasePinned
  BY DEF IInv
<1> QED
  BY <1>1, Invariance, PTL

\* CURRENT.json of a session that is not deleted never dangles.
THEOREM CurrentNeverDangles == Spec => []CurrentPresent
<1>1. IInv => CurrentPresent
  BY DEF IInv
<1> QED
  BY <1>1, Invariance, PTL

-----------------------------------------------------------------------------
\* Only CommitPoint moves CURRENT.json.
LEMMA PointerMoves ==
  ASSUME [Next]_vars, current' # current
  PROVE  \E p \in Proc : CommitPoint(p)
<1>1. ASSUME NEW p \in Proc, Open(p) \/ CloseLease(p) \/ List(p) PROVE UNCHANGED current
  BY <1>1 DEF Open, OpenStart, OpenGate, OpenCheck, OpenRetry, CloseLease, List, ListStart,
     ListSweep, ListRepair, ListFinish, ListShare, Shed, disk
<1>2. ASSUME NEW p \in Proc, Commit(p), ~CommitPoint(p) PROVE UNCHANGED current
  BY <1>2 DEF Commit, CommitStart, CommitGate, CommitPublish, CommitAbort, CommitView, CommitShed, Shed, disk
<1>3. ASSUME NEW p \in Proc, Prune(p) PROVE UNCHANGED current
  BY <1>3 DEF Prune, PruneLock, PruneRetain, PruneRetire, PruneRelease, PruneForget, disk
<1>4. ASSUME NEW p \in Proc, Move(p) \/ Delete(p) \/ Crash(p) PROVE UNCHANGED current
  BY <1>4 DEF Move, MoveStart, MoveLock, MoveRename, Delete, DeleteStart, DeleteLock,
     DeleteMove, DeleteClean, UnlinkGates, ExclusiveStart, ExclusiveLock, Crash, disk
<1>5. ASSUME NEW g \in Gen, LoseGate(g) PROVE UNCHANGED current
  BY <1>5 DEF LoseGate
<1>6. UNCHANGED vars => UNCHANGED current
  BY DEF vars, disk
<1> QED
  BY <1>1, <1>2, <1>3, <1>4, <1>5, <1>6 DEF Next

\* CURRENT.json moves only by the compare-and-swap of a commit: to a child of
\* what it named, one revision on, by the holder of the writer lock whose
\* expected revision was the current one.
THEOREM PointerIsCompareAndSwap == Spec => PointerAdvances
<1> DEFINE A == current' # current =>
       /\ par[current'] = current /\ rev[current'] = rev[current] + 1
       /\ \E p \in Proc : seen[p] = rev[current] /\ pc[p] = "point" /\ ex[Writer] = p
<1>1. IInv /\ [Next]_vars => [A]_vars
  <2> SUFFICES ASSUME IInv, [Next]_vars, current' # current PROVE A
    OBVIOUS
  <2>1. PICK p \in Proc : CommitPoint(p)
    BY PointerMoves
  <2>2. current' = arg[p] /\ pc[p] = "point"
    BY <2>1 DEF CommitPoint, At
  <2> QED
    BY <2>1, <2>2 DEF IInv, SaveInv, SaveOf, Staging, Saving
<1> HIDE DEF A
<1>2. Spec => [][A]_vars
  BY <1>1, Invariance, PTL DEF Spec
<1> QED
  BY <1>2, PTL DEF PointerAdvances, A

\* Only a mover or a deleter that holds every gate, or a process that cleans up
\* a deleted session, changes the place of the folder.
LEMMA PlaceMoves ==
  ASSUME [Next]_vars, place' # place, Live
  PROVE  \E p \in Proc : pc[p] \in Exclusive \union {"clean"}
<1>1. ASSUME NEW p \in Proc, Open(p) \/ CloseLease(p) \/ List(p) PROVE UNCHANGED place
  BY <1>1 DEF Open, OpenStart, OpenGate, OpenCheck, OpenRetry, CloseLease, List, ListStart,
     ListSweep, ListRepair, ListFinish, ListShare, Shed, disk, Live
<1>2. ASSUME NEW p \in Proc, Commit(p) PROVE UNCHANGED place
  BY <1>2 DEF Commit, CommitStart, CommitGate, CommitPublish, CommitPoint, CommitAbort,
     CommitView, CommitShed, Shed, disk
<1>3. ASSUME NEW p \in Proc, Prune(p) PROVE UNCHANGED place
  BY <1>3 DEF Prune, PruneLock, PruneRetain, PruneRetire, PruneRelease, PruneForget, disk
<1>4. ASSUME NEW p \in Proc, Move(p) \/ Delete(p) \/ Crash(p)
      PROVE  UNCHANGED place \/ pc[p] \in Exclusive \union {"clean"}
  BY <1>4 DEF Move, MoveStart, MoveLock, MoveRename, Delete, DeleteStart, DeleteLock,
     DeleteMove, DeleteClean, UnlinkGates, ExclusiveStart, ExclusiveLock, Crash, disk,
     Exclusive, At
<1>5. ASSUME NEW g \in Gen, LoseGate(g) PROVE UNCHANGED place
  BY <1>5 DEF LoseGate
<1>6. UNCHANGED vars => UNCHANGED place
  BY DEF vars, disk
<1> QED
  BY <1>1, <1>2, <1>3, <1>4, <1>5, <1>6 DEF Next

\* The folder is moved or deleted only while nobody has a lease on it.
THEOREM NothingMovesUnderLease == Spec => NoMoveUnderLease
<1> DEFINE A == place' # place /\ Live => \A p \in Proc : lease[p] = None
<1>1. IInv /\ [Next]_vars => [A]_vars
  <2> SUFFICES ASSUME IInv, [Next]_vars, place' # place, Live,
                      NEW q \in Proc, lease[q] # None
               PROVE  FALSE
    OBVIOUS
  <2>1. PICK p \in Proc : pc[p] \in Exclusive \union {"clean"}
    BY PlaceMoves
  <2>2. pc[p] \in Exclusive
    BY <2>1 DEF IInv, ExclusiveInv, ExclusiveOf
  <2>3. lease[q] \in gens /\ q \in sh[lease[q]] /\ lease[q] \in Lock
    BY LockNumbers DEF IInv, LeasePinned, ReadInv, ReadOf, TypeOK, DiskTypes
  <2>4. ex[lease[q]] = p
    BY <2>2, <2>3 DEF IInv, ExclusiveInv, ExclusiveOf
  <2> QED
    BY <2>3, <2>4 DEF IInv, LockInv
<1> HIDE DEF A
<1>2. Spec => [][A]_vars
  BY <1>1, Invariance, PTL DEF Spec
<1> QED
  BY <1>2, PTL DEF NoMoveUnderLease, A

-----------------------------------------------------------------------------
(***************************************************************************)
(* SessionStore implements SessionAuthority: its files and locks show      *)
(* their callers one authoritative revision.                               *)
(***************************************************************************)
\* What a caller sees: whether the session is there, and what its lease shows.
State  == IF Live THEN place ELSE "deleted"
Pinned == [p \in Proc |-> IF lease[p] = None THEN 0 ELSE rev[lease[p]]]

\* A permanent delete is of a session in the trash, from its first look to the move.
DeletesTrash ==
  \A p \in Proc :
    /\ pc[p] = "deleteLock" => from[p] = "trash"
    /\ pc[p] = "entomb" => place = "trash"

Deleting == {"deleteLock", "entomb"}

-----------------------------------------------------------------------------
\* A step that begins no delete leaves the deletes that run as they are.
LEMMA NoDeleteBegun ==
  ASSUME IInv, DeletesTrash, NEW p \in Proc,
         \A q \in Proc : q # p => pc'[q] = pc[q] /\ from'[q] = from[q],
         pc'[p] \notin Deleting,
         UNCHANGED place \/ ~Live \/ (pc[p] \in Exclusive)
  PROVE  DeletesTrash'
<1> SUFFICES ASSUME NEW q \in Proc, pc'[q] \in Deleting
             PROVE  (pc'[q] = "deleteLock" => from'[q] = "trash") /\ (pc'[q] = "entomb" => place' = "trash")
  BY DEF DeletesTrash, Deleting
<1>1. q # p /\ pc'[q] = pc[q] /\ from'[q] = from[q]
  OBVIOUS
<1>2. pc[q] = "entomb" => place = "trash" /\ ex[Writer] = q
  BY DEF DeletesTrash, IInv, ExclusiveInv, ExclusiveOf, Exclusive
<1>3. pc[p] \in Exclusive => ex[Writer] = p
  BY DEF IInv, ExclusiveInv, ExclusiveOf
<1>4. pc[q] = "entomb" => UNCHANGED place
  BY <1>1, <1>2, <1>3 DEF Live
<1> QED
  BY <1>1, <1>2, <1>4 DEF DeletesTrash

\* Every step keeps it.
LEMMA DeletesTrashKept == IInv /\ DeletesTrash /\ [Next]_vars => DeletesTrash'
<1> SUFFICES ASSUME IInv, DeletesTrash, [Next]_vars PROVE DeletesTrash'
  OBVIOUS
<1>0. /\ pc \in [Proc -> Labels] /\ from \in [Proc -> {"active", "trash"}]
  BY DEF IInv, TypeOK, ProcTypes
<1>1. ASSUME NEW p \in Proc, OpenStart(p) \/ ListStart(p) PROVE DeletesTrash'
  <2>1. /\ \E l \in {"gate", "sweep"} : pc' = [pc EXCEPT ![p] = l]
        /\ \E w \in {"active", "trash"} : from' = [from EXCEPT ![p] = w]
        /\ UNCHANGED place
    BY <1>1 DEF OpenStart, ListStart, Goto, disk, Live
  <2>2. /\ \A q \in Proc : q # p => pc'[q] = pc[q] /\ from'[q] = from[q]
        /\ pc'[p] \notin Deleting
    BY <1>0, <2>1 DEF Deleting
  <2> QED
    BY <2>1, <2>2, NoDeleteBegun
<1>2. ASSUME NEW p \in Proc,
             OpenGate(p) \/ OpenCheck(p) \/ OpenRetry(p) \/ ListRepair(p) \/ ListFinish(p) \/ ListShare(p)
               \/ Commit(p)
      PROVE  DeletesTrash'
  <2>1. /\ \/ \E l \in Labels \ Deleting : pc' = [pc EXCEPT ![p] = l]
           \/ UNCHANGED pc /\ pc[p] \notin Deleting
        /\ UNCHANGED <<from, place>>
    BY <1>2 DEF OpenGate, OpenCheck, OpenRetry, OpenFail, ListRepair, ListFinish, ListShare, Commit, CommitStart,
       CommitGate, CommitPublish, CommitPoint, CommitAbort, CommitView, CommitShed, Shed, At, Goto, disk, Labels,
       Deleting
  <2>2. /\ \A q \in Proc : q # p => pc'[q] = pc[q] /\ from'[q] = from[q]
        /\ pc'[p] \notin Deleting
    BY <1>0, <2>1
  <2> QED
    BY <2>1, <2>2, NoDeleteBegun
<1>3. ASSUME NEW p \in Proc, Prune(p) \/ UnlinkGates(p) \/ ListSweep(p) \/ DeleteClean(p) PROVE DeletesTrash'
  <2>1. /\ UNCHANGED from /\ (UNCHANGED place \/ ~Live)
    BY <1>3 DEF Prune, PruneLock, PruneRetain, PruneRetire, PruneRelease, PruneForget, UnlinkGates, ListSweep,
       DeleteClean, disk, Live, IInv, ExclusiveInv, ExclusiveOf, At
  <2>2. /\ \/ \E l \in Labels \ Deleting : pc' = [pc EXCEPT ![p] = l]
           \/ UNCHANGED pc /\ pc[p] \notin Deleting
    BY <1>3 DEF Prune, PruneLock, PruneRetain, PruneRetire, PruneRelease, PruneForget, UnlinkGates, ListSweep,
       DeleteClean, Goto, At, Labels, Deleting
  <2>3. /\ \A q \in Proc : q # p => pc'[q] = pc[q] /\ from'[q] = from[q]
        /\ pc'[p] \notin Deleting
    BY <1>0, <2>1, <2>2
  <2> QED
    BY <2>1, <2>3, NoDeleteBegun
<1>4. ASSUME NEW p \in Proc, MoveRename(p) \/ DeleteMove(p) \/ Crash(p) PROVE DeletesTrash'
  <2>1. /\ \E l \in {"idle", "clean"} : pc' = [pc EXCEPT ![p] = l]
        /\ UNCHANGED from /\ (UNCHANGED place \/ pc[p] \in Exclusive)
    BY <1>4 DEF MoveRename, DeleteMove, Crash, Goto, At, Exclusive, disk
  <2>2. /\ \A q \in Proc : q # p => pc'[q] = pc[q] /\ from'[q] = from[q]
        /\ pc'[p] \notin Deleting
    BY <1>0, <2>1 DEF Deleting
  <2> QED
    BY <2>1, <2>2, NoDeleteBegun
<1>5. ASSUME NEW p \in Proc, MoveStart(p) \/ MoveLock(p) PROVE DeletesTrash'
  <2>1. /\ \E l \in {"moveLock", "move", "idle"} : pc' = [pc EXCEPT ![p] = l]
        /\ \E w \in {"active", "trash"} : from' = [from EXCEPT ![p] = w] \/ UNCHANGED from
        /\ UNCHANGED place
    BY <1>5 DEF MoveStart, MoveLock, ExclusiveStart, ExclusiveLock, Goto, disk, Live
  <2>2. /\ \A q \in Proc : q # p => pc'[q] = pc[q] /\ from'[q] = from[q]
        /\ pc'[p] \notin Deleting
    BY <1>0, <2>1 DEF Deleting
  <2> QED
    BY <2>1, <2>2, NoDeleteBegun
<1>6. ASSUME NEW p \in Proc, DeleteStart(p) PROVE DeletesTrash'
  <2>1. /\ pc' = [pc EXCEPT ![p] = "deleteLock"] /\ from' = [from EXCEPT ![p] = "trash"]
        /\ UNCHANGED place
    BY <1>6 DEF DeleteStart, ExclusiveStart, Goto, disk
  <2>2. /\ pc'[p] = "deleteLock" /\ from'[p] = "trash"
        /\ \A q \in Proc : q # p => pc'[q] = pc[q] /\ from'[q] = from[q]
    BY <1>0, <2>1
  <2> QED
    BY <2>1, <2>2 DEF DeletesTrash
<1>7. ASSUME NEW p \in Proc, DeleteLock(p) PROVE DeletesTrash'
  <2>1. /\ pc[p] = "deleteLock" /\ UNCHANGED <<place, from>>
        /\ \/ pc' = [pc EXCEPT ![p] = "entomb"] /\ place = from[p]
           \/ pc' = [pc EXCEPT ![p] = "idle"]
    BY <1>7 DEF DeleteLock, ExclusiveLock, At, Goto
  <2>2. /\ pc'[p] \in {"entomb", "idle"} /\ (pc'[p] = "entomb" => place = from[p])
        /\ \A q \in Proc : q # p => pc'[q] = pc[q]
    BY <1>0, <2>1
  <2> QED
    BY <2>1, <2>2 DEF DeletesTrash
<1>8. ASSUME UNCHANGED <<pc, from, place>> PROVE DeletesTrash'
  BY <1>8 DEF DeletesTrash
<1>9. ASSUME NEW p \in Proc, CloseLease(p) PROVE UNCHANGED <<pc, from, place>>
  BY <1>9 DEF CloseLease, disk
<1>10. ASSUME NEW g \in Gen, LoseGate(g) PROVE UNCHANGED <<pc, from, place>>
  BY <1>10 DEF LoseGate, local
<1>11. UNCHANGED vars => UNCHANGED <<pc, from, place>>
  BY DEF vars, disk, local
<1> QED
  BY <1>1, <1>2, <1>3, <1>4, <1>5, <1>6, <1>7, <1>8, <1>9, <1>10, <1>11 DEF Next, Open, List, Move, Delete

-----------------------------------------------------------------------------
\* A step callers do not see.
LEMMA Unseen ==
  ASSUME UNCHANGED <<rev, current, lease, seen>>, State' = State
  PROVE  UNCHANGED Authority!vars
BY DEF Authority!vars, State, Live

\* Opening a lease and closing one, and the end of a process.
LEMMA LeaseSteps ==
  ASSUME IInv, NEW p \in Proc, OpenCheck(p) \/ CloseLease(p) \/ Crash(p)
  PROVE  Authority!Next \/ UNCHANGED Authority!vars
<1>1. UNCHANGED <<place, rev, current>>
  BY DEF OpenCheck, CloseLease, Crash, disk, meta
<1>2. lease \in [Proc -> Gen \union {None}] /\ seen \in [Proc -> 0 .. MaxGen]
  BY DEF IInv, TypeOK, ProcTypes
<1>3. CASE OpenCheck(p) /\ UNCHANGED <<lease, seen>>
  BY <1>1, <1>3, Unseen DEF State, Live
<1>4. CASE OpenCheck(p) /\ ~UNCHANGED <<lease, seen>>
  <2>1. /\ place = from[p] /\ arg[p] = current /\ pc[p] = "check"
        /\ lease' = [lease EXCEPT ![p] = current] /\ seen' = [seen EXCEPT ![p] = rev[current]]
    BY <1>4 DEF OpenCheck, OpenFail, StillCurrent, At
  <2>2. Live /\ lease[p] = None /\ current \in Gen /\ current # None
    BY <2>1 DEF IInv, ReadInv, ReadOf, Opening, TypeOK, ProcTypes, DiskTypes, Live, Gen, None
  <2>3. Pinned' = [Pinned EXCEPT ![p] = rev[current]]
    BY <1>1, <1>2, <2>1, <2>2 DEF Pinned
  <2>4. Authority!Pin(p)
    BY <1>1, <2>1, <2>2, <2>3 DEF Authority!Pin, Pinned, Live, None
  <2> QED
    BY <2>4 DEF Authority!Next
<1>5. CASE CloseLease(p)
  <2>1. lease' = [lease EXCEPT ![p] = None] /\ UNCHANGED seen
    BY <1>5 DEF CloseLease
  <2>2. Pinned' = [Pinned EXCEPT ![p] = 0]
    BY <1>1, <1>2, <2>1 DEF Pinned
  <2>3. Authority!Unpin(p)
    BY <1>1, <2>1, <2>2 DEF Authority!Unpin, Pinned, Live
  <2> QED
    BY <2>3 DEF Authority!Next
<1>6. CASE Crash(p)
  <2>1. lease' = [lease EXCEPT ![p] = None] /\ seen' = [seen EXCEPT ![p] = 0]
    BY <1>6 DEF Crash
  <2>2. Pinned' = [Pinned EXCEPT ![p] = 0]
    BY <1>1, <1>2, <2>1 DEF Pinned
  <2>3. Authority!Leave(p)
    BY <1>1, <2>1, <2>2 DEF Authority!Leave, Pinned, Live
  <2> QED
    BY <2>3 DEF Authority!Next
<1> QED
  BY <1>3, <1>4, <1>5, <1>6

\* Staging a generation changes no revision anybody sees.
LEMMA CommitStartUnseen ==
  ASSUME IInv, NEW p \in Proc, CommitStart(p)
  PROVE  UNCHANGED Authority!vars
<1>1. /\ rev' = [rev EXCEPT ![minted + 1] = rev[current] + 1] /\ minted < MaxGen
      /\ UNCHANGED <<place, current, lease, seen>>
  BY DEF CommitStart, disk
<1>2. /\ minted \in Gen /\ current \in Gen /\ rev \in [Gen -> 0 .. MaxGen]
      /\ lease \in [Proc -> Gen \union {None}] /\ current <= minted
      /\ \A q \in Proc : lease[q] # None => lease[q] \in gens
      /\ \A g \in gens : g <= minted
  BY DEF IInv, TypeOK, DiskTypes, MintTypes, ProcTypes, MintInv, LeasePinned
<1>3. rev'[current] = rev[current]
  BY <1>1, <1>2 DEF Gen
<1>4. \A q \in Proc : lease[q] # None => rev'[lease[q]] = rev[lease[q]]
  <2> SUFFICES ASSUME NEW q \in Proc, lease[q] # None PROVE rev'[lease[q]] = rev[lease[q]]
    OBVIOUS
  <2>1. lease[q] \in Gen /\ lease[q] # minted + 1
    BY <1>2 DEF Gen
  <2> QED
    BY <1>1, <1>2, <2>1
<1>5. Pinned' = Pinned
  BY <1>1, <1>4 DEF Pinned
<1> QED
  BY <1>1, <1>3, <1>5 DEF Authority!vars, Pinned, Live

\* The replacement of CURRENT.json is the save.
LEMMA CommitPointSaves ==
  ASSUME IInv, NEW p \in Proc, CommitPoint(p)
  PROVE  Authority!Save(p)
<1>1. /\ pc[p] = "point" /\ current' = arg[p] /\ seen' = [seen EXCEPT ![p] = rev[arg[p]]]
      /\ UNCHANGED <<place, rev, lease>>
  BY DEF CommitPoint, At, meta
<1>2. /\ place = "active" /\ arg[p] \in Gen /\ rev[arg[p]] = rev[current] + 1 /\ seen[p] = rev[current]
  BY <1>1 DEF IInv, SaveInv, SaveOf, Staging, Saving
<1>3. rev[current] \in Nat /\ rev[current] < MaxGen
  BY <1>2 DEF IInv, TypeOK, DiskTypes, MintTypes
<1> QED
  BY <1>1, <1>2, <1>3 DEF Authority!Save, Live

\* Whoever moves or deletes the folder holds every gate: nobody reads.
LEMMA NobodyReads ==
  ASSUME IInv, NEW p \in Proc, pc[p] \in Exclusive
  PROVE  \A q \in Proc : lease[q] = None
<1> SUFFICES ASSUME NEW q \in Proc, lease[q] # None PROVE FALSE
  OBVIOUS
<1>1. lease[q] \in gens /\ q \in sh[lease[q]] /\ lease[q] \in Lock
  BY LockNumbers DEF IInv, LeasePinned, ReadInv, ReadOf, TypeOK, DiskTypes
<1>2. ex[lease[q]] = p
  BY <1>1 DEF IInv, ExclusiveInv, ExclusiveOf
<1> QED
  BY <1>1, <1>2 DEF IInv, LockInv

\* A move and a delete are seen at once.
LEMMA FolderMoves ==
  ASSUME IInv, DeletesTrash, NEW p \in Proc, MoveRename(p) \/ DeleteMove(p)
  PROVE  Authority!Next \/ UNCHANGED Authority!vars
<1>1. /\ pc[p] \in Exclusive /\ UNCHANGED <<rev, current, lease, seen>>
  BY DEF MoveRename, DeleteMove, At, Exclusive, meta
<1>2. Live /\ \A q \in Proc : lease[q] = None
  BY <1>1, NobodyReads DEF IInv, ExclusiveInv, ExclusiveOf
<1>3. CASE State' = State
  BY <1>1, <1>3, Unseen
<1>4. CASE State' # State
  <2>1. \/ place = "active" /\ place' = "trash"
        \/ place = "trash" /\ place' \in {"active", "tomb"}
    <3>1. CASE MoveRename(p)
      BY <1>2, <1>4, <3>1 DEF MoveRename, Other, State, Live
    <3>2. CASE DeleteMove(p)
      BY <1>2, <1>4, <3>2 DEF DeleteMove, At, DeletesTrash, State, Live
    <3> QED
      BY <3>1, <3>2
  <2>2. \A q \in Proc : Pinned[q] = 0
    BY <1>2 DEF Pinned
  <2>3. Authority!Relocate
    BY <1>1, <2>1, <2>2 DEF Authority!Relocate, Authority!Unread, Pinned, Live
  <2> QED
    BY <2>3 DEF Authority!Next
<1> QED
  BY <1>3, <1>4

\* Every step of the store is a step of the authority, or one callers do not see.
LEMMA StepImplements ==
  ASSUME IInv, DeletesTrash, [Next]_vars
  PROVE  [Authority!Next]_(Authority!vars)
<1>1. ASSUME NEW p \in Proc,
             \/ OpenStart(p) \/ OpenGate(p) \/ OpenRetry(p) \/ List(p) \/ Prune(p)
             \/ CommitGate(p) \/ CommitPublish(p) \/ CommitAbort(p) \/ CommitView(p) \/ CommitShed(p)
             \/ MoveStart(p) \/ MoveLock(p) \/ DeleteStart(p) \/ DeleteLock(p) \/ DeleteClean(p) \/ UnlinkGates(p)
      PROVE  UNCHANGED Authority!vars
  <2>1. CASE OpenStart(p) \/ OpenGate(p) \/ OpenRetry(p)
    <3>1. UNCHANGED <<rev, current, lease, seen, place>>
      BY <2>1 DEF OpenStart, OpenGate, OpenFail, OpenRetry, disk, meta
    <3> QED
      BY <3>1, Unseen DEF State, Live
  <2>2. CASE List(p)
    <3>1. UNCHANGED <<rev, current, lease, seen>> /\ State' = State
      BY <2>2 DEF List, ListStart, ListSweep, ListRepair, ListFinish, ListShare, Shed, disk, meta, State, Live
    <3> QED
      BY <3>1, Unseen
  <2>3. CASE Prune(p)
    <3>1. UNCHANGED <<rev, current, lease, seen, place>>
      BY <2>3 DEF Prune, PruneLock, PruneRetain, PruneRetire, PruneRelease, PruneForget, disk, meta
    <3> QED
      BY <3>1, Unseen DEF State, Live
  <2>4. CASE CommitGate(p) \/ CommitPublish(p) \/ CommitAbort(p) \/ CommitView(p) \/ CommitShed(p)
    <3>1. UNCHANGED <<rev, current, lease, seen, place>>
      BY <2>4 DEF CommitGate, CommitPublish, CommitAbort, CommitView, CommitShed, Shed, disk, meta
    <3> QED
      BY <3>1, Unseen DEF State, Live
  <2>5. CASE MoveStart(p) \/ MoveLock(p) \/ DeleteStart(p) \/ DeleteLock(p) \/ UnlinkGates(p)
    <3>1. UNCHANGED <<rev, current, lease, seen, place>>
      BY <2>5 DEF MoveStart, MoveLock, DeleteStart, DeleteLock, ExclusiveStart, ExclusiveLock, UnlinkGates, disk, meta
    <3> QED
      BY <3>1, Unseen DEF State, Live
  <2>6. CASE DeleteClean(p)
    <3>1. UNCHANGED <<rev, current, lease, seen>> /\ ~Live /\ place' \in {place, "gone"}
      BY <2>6 DEF DeleteClean, meta, At, IInv, ExclusiveInv, ExclusiveOf
    <3>2. State' = State
      BY <3>1 DEF State, Live
    <3> QED
      BY <3>1, <3>2, Unseen
  <2> QED
    BY <1>1, <2>1, <2>2, <2>3, <2>4, <2>5, <2>6
<1>2. ASSUME NEW p \in Proc, OpenCheck(p) \/ CloseLease(p) \/ Crash(p) PROVE [Authority!Next]_(Authority!vars)
  BY <1>2, LeaseSteps
<1>3. ASSUME NEW p \in Proc, CommitStart(p) PROVE UNCHANGED Authority!vars
  BY <1>3, CommitStartUnseen
<1>4. ASSUME NEW p \in Proc, CommitPoint(p) PROVE Authority!Next
  BY <1>4, CommitPointSaves DEF Authority!Next
<1>5. ASSUME NEW p \in Proc, MoveRename(p) \/ DeleteMove(p) PROVE [Authority!Next]_(Authority!vars)
  BY <1>5, FolderMoves
<1>6. ASSUME NEW g \in Gen, LoseGate(g) PROVE UNCHANGED Authority!vars
  <2>1. UNCHANGED <<rev, current, lease, seen, place>>
    BY <1>6 DEF LoseGate, meta, local
  <2> QED
    BY <2>1, Unseen DEF State, Live
<1>7. CASE UNCHANGED vars
  <2>1. UNCHANGED <<rev, current, lease, seen, place>>
    BY <1>7 DEF vars, disk, meta, local
  <2> QED
    BY <2>1, Unseen DEF State, Live
<1> QED
  BY <1>1, <1>2, <1>3, <1>4, <1>5, <1>6, <1>7 DEF Next, Open, Commit, Move, Delete

\* A new session is one with a first revision that nobody has read.
LEMMA InitImplements == Init => Authority!Init /\ DeletesTrash
<1> SUFFICES ASSUME Init PROVE Authority!Init /\ DeletesTrash
  OBVIOUS
<1>1. 1 \in Gen
  BY DEF Gen
<1>2. Authority!Init
  BY <1>1 DEF Init, Authority!Init, Live, None
<1> QED
  BY <1>2 DEF Init, DeletesTrash

\* The store implements the authority its callers rely on.
THEOREM StoreImplementsAuthority == Spec => ImplementsAuthority
<1>1. Spec => []DeletesTrash
  BY InitImplements, DeletesTrashKept, Invariance, PTL DEF Spec
<1>2. IInv /\ DeletesTrash /\ [Next]_vars => [Authority!Next]_(Authority!vars)
  BY StepImplements
<1> QED
  BY <1>1, <1>2, InitImplements, Invariance, PTL DEF Spec, ImplementsAuthority, Authority!Spec

-----------------------------------------------------------------------------
(***************************************************************************)
(* What a session that is not deleted looks like when it is read, for      *)
(* every number of processes, generations, open attempts and faults: only  *)
(* generations that never became current make CURRENT unreadable, and      *)
(* nothing does while nothing fails.                                       *)
(***************************************************************************)
\* A generation was current when a saver made a child of it.
WasCurrent(g) == g = current \/ \E h \in Gen : par[h] = g

Minted(g) == g <= minted

\* A child is one revision on, and the children of what is current are the newest there are.
ChildInv ==
  \A g \in Gen :
    /\ ~Minted(g) => par[g] = None
    /\ par[g] # None => rev[g] = rev[par[g]] + 1
    /\ Minted(g) => /\ rev[g] >= 1 /\ (par[g] = None => rev[g] = 1)
                    /\ rev[g] <= rev[current] + 1
                    /\ rev[g] = rev[current] + 1 => par[g] = current

\* The generations that were current are of different revisions.
SpineInv ==
  \A g \in Gen : WasCurrent(g) =>
    /\ Minted(g) /\ rev[g] <= rev[current]
    /\ \A h \in Gen : WasCurrent(h) /\ rev[h] = rev[g] => h = g

\* From bottom to CURRENT those generations are there, and nothing else of these revisions.
Unbroken(bottom) ==
  /\ \A r \in bottom .. rev[current] : \E g \in gens : WasCurrent(g) /\ rev[g] = r
  /\ \A g \in gens : WasCurrent(g) => rev[g] >= bottom
  /\ \/ bottom = 1
     \/ retention \in gens /\ WasCurrent(retention) /\ rev[retention] >= bottom

LineInv ==
  Live =>
    /\ \A g \in gens : WasCurrent(g) \/ rev[g] >= rev[current]
    /\ \E bottom \in 1 .. rev[current] : Unbroken(bottom)

\* What a saver relies on between two of its steps.
SaverInv ==
  \A p \in Proc :
    /\ pc[p] = "point" => \A g \in gens : WasCurrent(g) \/ rev[g] > rev[current]
    /\ pc[p] \in {"retain", "retire"} => gens \ {current} \subseteq batch[p]
    /\ pc[p] = "retire" => retention = current

TreeInv == ChildInv /\ SpineInv /\ LineInv /\ SaverInv

\* What was retired is not published, and gates are unlinked of a deleted session only.
Retiring == {"retire", "release", "forget", "clean", "unlink"}

RetiredOf(p) ==
  /\ pc[p] \notin Retiring => retired[p] = {}
  /\ pc[p] \in Pruning => retired[p] \intersect gens = {}
  /\ pc[p] = "forget" => arg[p] \notin gens
  /\ pc[p] = "unlink" => ~Live

RetiredInv == \A p \in Proc : RetiredOf(p)

\* While nothing fails there are no strays, and no gate is lost.
Unharmed ==
  /\ broken = {}
  /\ \A g \in gens : WasCurrent(g) \/ \E p \in Proc : pc[p] = "point" /\ arg[p] = g
  /\ gens \subseteq gates
  /\ \A p \in Proc : pc[p] \in {"publish", "point"} => arg[p] \in gates

UnharmedInv == Live /\ faults = 0 => Unharmed

-----------------------------------------------------------------------------
(***************************************************************************)
(* The tree of generations                                                 *)
(***************************************************************************)
\* Only one process at a time saves, moves or deletes.
LEMMA WriterAlone ==
  ASSUME IInv, NEW p \in Proc, ex[Writer] = p \/ ex[Writer] = NoProc
  PROVE  \A q \in Proc : q # p => pc[q] \notin Saving \union Exclusive \union {"clean"}
BY DEF IInv, SaveInv, SaveOf, ExclusiveInv, ExclusiveOf

\* What a saver has staged was never current.
LEMMA StagedIsNew ==
  ASSUME IInv, TreeInv, NEW p \in Proc, pc[p] \in Staging
  PROVE  /\ arg[p] \in Gen /\ ~WasCurrent(arg[p]) /\ Minted(arg[p])
         /\ rev[arg[p]] = rev[current] + 1 /\ par[arg[p]] = current
         /\ ex[Writer] = p /\ place = "active"
<1>1. /\ arg[p] \in Gen /\ Minted(arg[p]) /\ rev[arg[p]] = rev[current] + 1 /\ par[arg[p]] = current
      /\ ex[Writer] = p /\ place = "active"
  BY DEF IInv, SaveInv, SaveOf, Saving, Minted
<1>2. rev[current] \in Nat
  BY DEF IInv, TypeOK, DiskTypes, MintTypes
<1>3. WasCurrent(arg[p]) => rev[arg[p]] <= rev[current]
  BY <1>1 DEF TreeInv, SpineInv
<1> QED
  BY <1>1, <1>2, <1>3

\* A step that changes no generation and no pointer.
LEMMA TreeQuiet ==
  ASSUME TreeInv, UNCHANGED <<gens, current, retention, rev, par, minted>>, Live' => Live,
         \A q \in Proc :
           /\ pc'[q] = "point" => pc[q] = "point"
           /\ pc'[q] \in {"retain", "retire"} => gens \ {current} \subseteq batch'[q]
           /\ pc'[q] = "retire" => pc[q] = "retire"
  PROVE  TreeInv'
<1>1. \A g : WasCurrent(g)' <=> WasCurrent(g)
  BY DEF WasCurrent
<1>2. ChildInv'
  BY DEF TreeInv, ChildInv, Minted
<1>3. SpineInv'
  BY <1>1 DEF TreeInv, SpineInv, Minted
<1>4. LineInv'
  BY <1>1 DEF TreeInv, LineInv, Unbroken
<1>5. SaverInv'
  BY <1>1 DEF TreeInv, SaverInv
<1> QED
  BY <1>2, <1>3, <1>4, <1>5 DEF TreeInv

\* Neither opening nor listing does.
LEMMA ReadTree ==
  ASSUME IInv, TreeInv, NEW p \in Proc, Open(p) \/ CloseLease(p) \/ List(p)
  PROVE  TreeInv'
<1>1. /\ UNCHANGED <<gens, current, retention, rev, par, minted, batch>>
      /\ pc' = pc \/ \E l \in Labels \ {"point", "retain", "retire"} : pc' = [pc EXCEPT ![p] = l]
  BY DEF Open, OpenStart, OpenGate, OpenCheck, OpenRetry, OpenFail, CloseLease, List, ListStart, ListSweep,
     ListRepair, ListFinish, ListShare, Shed, Goto, disk, meta, Labels
<1>2. Live' => Live
  BY DEF Open, OpenStart, OpenGate, OpenCheck, OpenRetry, CloseLease, List, ListStart, ListSweep,
     ListRepair, ListFinish, ListShare, Shed, disk, Live
<1>3. \A q \in Proc : pc'[q] \in {"point", "retain", "retire"} => pc'[q] = pc[q]
  BY <1>1 DEF IInv, TypeOK, ProcTypes
<1> QED
  BY <1>1, <1>2, <1>3, TreeQuiet DEF TreeInv, SaverInv

\* Nor moving or deleting, until the deleted folder leaves.
LEMMA MoveTree ==
  ASSUME IInv, TreeInv, NEW p \in Proc, Move(p) \/ Delete(p) \/ Crash(p)
  PROVE  TreeInv'
<1>1. CASE DeleteMove(p) /\ place' = "tomb"
  <2>1. /\ pc[p] = "entomb" /\ pc' = [pc EXCEPT ![p] = "clean"]
        /\ UNCHANGED <<current, rev, par, minted>> /\ ~Live'
    BY <1>1 DEF DeleteMove, At, Goto, meta, Live, IInv, ExclusiveInv, ExclusiveOf, Exclusive
  <2>2. ex[Writer] = p
    BY <2>1 DEF IInv, ExclusiveInv, ExclusiveOf, Exclusive
  <2>3. \A q \in Proc : pc'[q] \notin {"point", "retain", "retire"}
    BY <2>1, <2>2, WriterAlone DEF IInv, TypeOK, ProcTypes, Saving, Staging, Pruning
  <2>4. \A g : WasCurrent(g)' <=> WasCurrent(g)
    BY <2>1 DEF WasCurrent
  <2>5. ChildInv' /\ SpineInv'
    BY <2>1, <2>4 DEF TreeInv, ChildInv, SpineInv, Minted
  <2>6. LineInv' /\ SaverInv'
    BY <2>1, <2>3 DEF LineInv, SaverInv
  <2> QED
    BY <2>5, <2>6 DEF TreeInv
<1>2. CASE ~(DeleteMove(p) /\ place' = "tomb")
  <2>1. /\ UNCHANGED <<gens, current, retention, rev, par, minted>>
        /\ pc' = pc \/ \E l \in Labels \ {"point", "retain", "retire"} : pc' = [pc EXCEPT ![p] = l]
    BY <1>2 DEF Move, MoveStart, MoveLock, MoveRename, Delete, DeleteStart, DeleteLock, DeleteMove, DeleteClean,
       UnlinkGates, ExclusiveStart, ExclusiveLock, Crash, Goto, disk, meta, Labels
  <2>2. Live' => Live
    <3>1. CASE DeleteClean(p)
      BY <3>1 DEF DeleteClean, At, Live, IInv, ExclusiveInv, ExclusiveOf
    <3>2. CASE MoveRename(p)
      BY <3>2 DEF MoveRename, At, Live, IInv, ExclusiveInv, ExclusiveOf, Exclusive
    <3>3. CASE UNCHANGED place
      BY <3>3 DEF Live
    <3> QED
      BY <1>2, <3>1, <3>2, <3>3
      DEF Move, MoveStart, MoveLock, Delete, DeleteStart, DeleteLock, DeleteMove, UnlinkGates, ExclusiveStart,
          ExclusiveLock, Crash, disk
  <2>3. \A q \in Proc : pc'[q] \in {"point", "retain", "retire"} => pc'[q] = pc[q] /\ batch'[q] = batch[q]
    <3>1. batch' = batch \/ (batch' = [batch EXCEPT ![p] = {}] /\ pc' = [pc EXCEPT ![p] = "idle"])
      BY <1>2 DEF Move, MoveStart, MoveLock, MoveRename, Delete, DeleteStart, DeleteLock, DeleteMove, DeleteClean,
         UnlinkGates, ExclusiveStart, ExclusiveLock, Crash, Goto
    <3> QED
      BY <2>1, <3>1 DEF IInv, TypeOK, ProcTypes
  <2> QED
    BY <2>1, <2>2, <2>3, TreeQuiet DEF TreeInv, SaverInv
<1> QED
  BY <1>1, <1>2

\* A new generation is a child of what is current.
LEMMA CommitStartTree == ASSUME IInv, TreeInv, NEW p \in Proc, CommitStart(p) PROVE TreeInv'
<1> DEFINE m == minted + 1
<1>1. /\ minted < MaxGen /\ minted' = m
      /\ rev' = [rev EXCEPT ![m] = rev[current] + 1] /\ par' = [par EXCEPT ![m] = current]
      /\ ex[Writer] = NoProc /\ pc' = [pc EXCEPT ![p] = "stage"]
      /\ UNCHANGED <<place, gens, current, retention>>
  BY DEF CommitStart, TakeExclusive, Free, Goto, disk
<1>2. /\ minted \in Gen /\ current \in Gen /\ gens \in SUBSET Gen
      /\ rev \in [Gen -> 0 .. MaxGen] /\ par \in [Gen -> Gen \union {None}]
      /\ current <= minted /\ \A g \in gens : g <= minted
  BY DEF IInv, TypeOK, DiskTypes, MintTypes, MintInv
<1>3. m \in Gen /\ ~Minted(m) /\ par[m] = None /\ current # None /\ current # m
  BY <1>1, <1>2 DEF Gen, Minted, None, TreeInv, ChildInv
<1>4. /\ rev'[m] = rev[current] + 1 /\ par'[m] = current
      /\ \A g \in Gen : g # m => rev'[g] = rev[g] /\ par'[g] = par[g]
  BY <1>1, <1>2, <1>3
<1> HIDE DEF m
<1>5. \A g \in Gen : WasCurrent(g)' <=> WasCurrent(g)
  BY <1>1, <1>2, <1>3, <1>4 DEF WasCurrent, None, Gen
<1>6. \A g \in Gen : WasCurrent(g) => g # m
  BY <1>3 DEF TreeInv, SpineInv
<1>7. \A g \in Gen : g # m => (Minted(g)' <=> Minted(g))
  BY <1>1, <1>2 DEF Minted, Gen, m
<1>8. ChildInv'
  <2> SUFFICES ASSUME NEW g \in Gen
               PROVE  /\ ~Minted(g)' => par'[g] = None
                      /\ par'[g] # None => rev'[g] = rev'[par'[g]] + 1
                      /\ Minted(g)' => /\ rev'[g] >= 1 /\ (par'[g] = None => rev'[g] = 1)
                                       /\ rev'[g] <= rev'[current'] + 1
                                       /\ rev'[g] = rev'[current'] + 1 => par'[g] = current'
    BY DEF ChildInv
  <2>1. rev'[current'] = rev[current] /\ rev[current] \in Nat
    BY <1>1, <1>2, <1>3, <1>4
  <2>2. CASE g = m
    <3>1. Minted(g)'
      BY <1>1, <1>2, <2>2 DEF Minted, Gen, m
    <3> QED
      BY <1>1, <1>2, <1>3, <1>4, <2>1, <2>2, <3>1
  <2>3. CASE g # m
    <3>1. par[g] # None => par[g] \in Gen /\ WasCurrent(par[g])
      BY <1>2 DEF WasCurrent
    <3>2. par[g] # None => rev'[par[g]] = rev[par[g]]
      BY <1>4, <1>6, <3>1
    <3> QED
      BY <1>1, <1>4, <1>7, <2>1, <2>3, <3>2 DEF TreeInv, ChildInv
  <2> QED
    BY <2>2, <2>3
<1>9. SpineInv'
  <2>1. rev'[current'] = rev[current]
    BY <1>1, <1>2, <1>3, <1>4
  <2>2. \A g \in Gen : WasCurrent(g)' => WasCurrent(g) /\ rev'[g] = rev[g] /\ Minted(g)'
    BY <1>4, <1>5, <1>6, <1>7 DEF TreeInv, SpineInv
  <2> QED
    BY <2>1, <2>2 DEF TreeInv, SpineInv
<1>10. LineInv'
  <2>1. \A g \in gens : g \in Gen /\ rev'[g] = rev[g] /\ (WasCurrent(g)' <=> WasCurrent(g))
    BY <1>2, <1>3, <1>4, <1>5 DEF Minted
  <2>2. rev'[current'] = rev[current]
    BY <1>1, <1>2, <1>3, <1>4
  <2>3. \A b \in 1 .. rev[current] : Unbroken(b) => Unbroken(b)'
    BY <1>1, <2>1, <2>2 DEF Unbroken
  <2> QED
    BY <1>1, <2>1, <2>2, <2>3 DEF TreeInv, LineInv, Live
<1>11. SaverInv'
  <2>1. \A q \in Proc : pc'[q] \notin {"point", "retain", "retire"}
    BY <1>1, WriterAlone DEF IInv, TypeOK, ProcTypes, Saving, Staging, Pruning
  <2> QED
    BY <2>1 DEF SaverInv
<1> QED
  BY <1>8, <1>9, <1>10, <1>11 DEF TreeInv

\* Publishing adds a child of what is current, which is the only one of its revision.
LEMMA CommitPublishTree == ASSUME IInv, TreeInv, NEW p \in Proc, CommitPublish(p) PROVE TreeInv'
<1>1. /\ pc[p] = "publish" /\ Valid /\ gens' = gens \union {arg[p]} /\ pc' = [pc EXCEPT ![p] = "point"]
      /\ UNCHANGED <<place, current, retention, rev, par, minted>>
  BY DEF CommitPublish, Unmoved, At, Goto, meta
<1>2. /\ arg[p] \in Gen /\ ~WasCurrent(arg[p]) /\ rev[arg[p]] = rev[current] + 1 /\ ex[Writer] = p
      /\ place = "active"
  BY <1>1, StagedIsNew DEF Staging
<1>3. \A g : WasCurrent(g)' <=> WasCurrent(g)
  BY <1>1 DEF WasCurrent
<1>4. current \in gens /\ gens \subseteq Gen /\ rev \in [Gen -> 0 .. MaxGen] /\ WasCurrent(current)
  BY <1>1 DEF Valid, Sound, IInv, TypeOK, DiskTypes, MintTypes, WasCurrent
<1>5. \A g \in gens' : WasCurrent(g) \/ rev[g] > rev[current]
  <2> SUFFICES ASSUME NEW g \in gens, ~WasCurrent(g) PROVE rev[g] > rev[current]
    BY <1>1, <1>2, <1>4
  <2>1. rev[g] >= rev[current]
    BY <1>2 DEF TreeInv, LineInv, Live
  <2>2. rev[g] # rev[current]
    BY <1>1, <1>4 DEF Valid, Sound, Lineage
  <2> QED
    BY <1>4, <2>1, <2>2
<1>6. ChildInv' /\ SpineInv'
  BY <1>1, <1>3 DEF TreeInv, ChildInv, SpineInv, Minted
<1>7. LineInv'
  <2>1. \A b \in 1 .. rev[current] : Unbroken(b) => Unbroken(b)'
    BY <1>1, <1>2, <1>3 DEF Unbroken
  <2>2. \A g \in gens' : WasCurrent(g)' \/ rev'[g] >= rev'[current']
    BY <1>1, <1>2, <1>3, <1>4, <1>5
  <2> QED
    BY <1>1, <1>2, <2>1, <2>2 DEF TreeInv, LineInv, Live
<1>8. SaverInv'
  <2>1. \A q \in Proc : q # p => pc'[q] = pc[q] /\ pc[q] \notin Saving
    BY <1>1, <1>2, WriterAlone DEF IInv, TypeOK, ProcTypes
  <2>2. pc'[p] = "point"
    BY <1>1 DEF IInv, TypeOK, ProcTypes
  <2> QED
    BY <1>1, <1>3, <1>5, <2>1, <2>2 DEF SaverInv, Saving, Staging, Pruning
<1> QED
  BY <1>6, <1>7, <1>8 DEF TreeInv

\* What is published becomes current.
LEMMA CommitPointTree == ASSUME IInv, TreeInv, NEW p \in Proc, CommitPoint(p) PROVE TreeInv'
<1> DEFINE a == arg[p]
<1>1. /\ pc[p] = "point" /\ current' = a /\ pc' = [pc EXCEPT ![p] = "view"]
      /\ UNCHANGED <<place, gens, retention, rev, par, minted>>
  BY DEF CommitPoint, At, Goto, meta
<1>2. /\ a \in Gen /\ ~WasCurrent(a) /\ Minted(a) /\ rev[a] = rev[current] + 1 /\ par[a] = current
      /\ ex[Writer] = p /\ place = "active"
  BY <1>1, StagedIsNew DEF Staging
<1>3. a \in gens /\ gens \subseteq Gen /\ rev \in [Gen -> 0 .. MaxGen] /\ current \in Gen
  BY <1>1 DEF IInv, SaveInv, SaveOf, TypeOK, DiskTypes, MintTypes
<1> HIDE DEF a
<1>4. \A g \in Gen : WasCurrent(g)' <=> WasCurrent(g) \/ g = a
  BY <1>1, <1>2 DEF WasCurrent
<1>5. \A g \in gens : WasCurrent(g) \/ rev[g] > rev[current]
  BY <1>1 DEF TreeInv, SaverInv
<1>6. ChildInv'
  <2> SUFFICES ASSUME NEW g \in Gen, Minted(g) PROVE rev[g] <= rev[a] + 1 /\ rev[g] # rev[a] + 1
    BY <1>1 DEF TreeInv, ChildInv, Minted
  <2>1. rev[g] <= rev[current] + 1
    BY DEF TreeInv, ChildInv
  <2> QED
    BY <1>2, <1>3, <2>1
<1>7. SpineInv'
  <2> SUFFICES ASSUME NEW g \in Gen, WasCurrent(g)'
               PROVE  /\ Minted(g)' /\ rev[g] <= rev[a]
                      /\ \A h \in Gen : WasCurrent(h)' /\ rev[h] = rev[g] => h = g
    BY <1>1 DEF SpineInv
  <2>1. \A h \in Gen : WasCurrent(h) => rev[h] <= rev[current] /\ rev[h] < rev[a]
    BY <1>2, <1>3 DEF TreeInv, SpineInv
  <2>2. Minted(g)'
    BY <1>1, <1>2, <1>4 DEF TreeInv, SpineInv, Minted
  <2>3. rev[g] <= rev[a]
    BY <1>2, <1>3, <1>4, <2>1
  <2>4. ASSUME NEW h \in Gen, WasCurrent(h)', rev[h] = rev[g] PROVE h = g
    BY <1>3, <1>4, <2>1, <2>4 DEF TreeInv, SpineInv
  <2> QED
    BY <2>2, <2>3, <2>4
<1>8. LineInv'
  <2>1. PICK b \in 1 .. rev[current] : Unbroken(b)
    BY <1>2 DEF TreeInv, LineInv, Live
  <2>2. b \in 1 .. rev'[current']
    BY <1>1, <1>2, <1>3
  <2>3. Unbroken(b)'
    <3>1. ASSUME NEW r \in b .. rev[a] PROVE \E g \in gens : WasCurrent(g)' /\ rev[g] = r
      <4>1. CASE r = rev[a]
        BY <1>2, <1>3, <1>4, <4>1
      <4>2. CASE r # rev[a]
        <5>1. r \in b .. rev[current]
          BY <1>2, <1>3, <3>1, <4>2
        <5> QED
          BY <1>3, <1>4, <2>1, <5>1 DEF Unbroken
      <4> QED
        BY <4>1, <4>2
    <3>2. ASSUME NEW g \in gens, WasCurrent(g)' PROVE rev[g] >= b
      <4>1. CASE g = a
        <5>1. rev[g] = rev[current] + 1 /\ rev[current] \in Nat
          BY <1>2, <1>3, <4>1
        <5> QED
          BY <5>1
      <4>2. CASE g # a
        BY <1>3, <1>4, <2>1, <3>2, <4>2 DEF Unbroken
      <4> QED
        BY <4>1, <4>2
    <3>3. b = 1 \/ (retention \in gens /\ WasCurrent(retention)' /\ rev[retention] >= b)
      BY <1>1, <1>3, <1>4, <2>1 DEF Unbroken
    <3> QED
      BY <1>1, <3>1, <3>2, <3>3 DEF Unbroken
  <2>4. \A g \in gens : WasCurrent(g)' \/ rev[g] >= rev[a]
    BY <1>2, <1>3, <1>4, <1>5
  <2> QED
    BY <1>1, <2>2, <2>3, <2>4 DEF LineInv
<1>9. SaverInv'
  <2>1. \A q \in Proc : pc'[q] \notin {"point", "retain", "retire"}
    BY <1>1, <1>2, WriterAlone DEF IInv, TypeOK, ProcTypes, Saving, Staging, Pruning
  <2> QED
    BY <2>1 DEF SaverInv
<1> QED
  BY <1>6, <1>7, <1>8, <1>9 DEF TreeInv

\* An abort takes at most what never became current.
LEMMA CommitAbortTree == ASSUME IInv, TreeInv, NEW p \in Proc, CommitAbort(p) PROVE TreeInv'
<1>1. /\ pc[p] \in Staging /\ gens' \in {gens, gens \ {arg[p]}} /\ pc' = [pc EXCEPT ![p] = "idle"]
      /\ UNCHANGED <<place, current, retention, rev, par, minted>>
  BY DEF CommitAbort, Staging, Goto, meta
<1>2. ~WasCurrent(arg[p]) /\ ex[Writer] = p
  BY <1>1, StagedIsNew
<1>3. \A g : WasCurrent(g)' <=> WasCurrent(g)
  BY <1>1 DEF WasCurrent
<1>4. ChildInv' /\ SpineInv'
  BY <1>1, <1>3 DEF TreeInv, ChildInv, SpineInv, Minted
<1>5. LineInv'
  <2>1. \A b \in 1 .. rev[current] : Unbroken(b) => Unbroken(b)'
    BY <1>1, <1>2, <1>3 DEF Unbroken
  <2> QED
    BY <1>1, <1>3, <2>1 DEF TreeInv, LineInv, Live
<1>6. SaverInv'
  <2>1. \A q \in Proc : pc'[q] \notin {"point", "retain", "retire"}
    BY <1>1, <1>2, WriterAlone DEF IInv, TypeOK, ProcTypes, Saving, Staging, Pruning
  <2> QED
    BY <2>1 DEF SaverInv
<1> QED
  BY <1>4, <1>5, <1>6 DEF TreeInv

\* The rest of a save before and after it takes effect, but for what its prune removes.
LEMMA CommitRestTree ==
  ASSUME IInv, TreeInv, NEW p \in Proc,
         CommitGate(p) \/ CommitView(p) \/ CommitShed(p) \/ PruneLock(p) \/ PruneRelease(p) \/ PruneForget(p)
  PROVE  TreeInv'
<1>1. /\ UNCHANGED <<place, gens, current, retention, rev, par, minted>>
      /\ \/ pc' = pc /\ pc[p] \in {"release", "shed"}
         \/ \E l \in Labels \ {"point", "retain", "retire"} : pc' = [pc EXCEPT ![p] = l]
         \/ pc' = [pc EXCEPT ![p] = "retain"] /\ batch' = [batch EXCEPT ![p] = gens \ {current}]
      /\ \A q \in Proc \ {p} : batch'[q] = batch[q]
  BY DEF CommitGate, CommitView, CommitShed, Shed, PruneLock, PruneRelease, PruneForget, Superseded, At, Goto,
     disk, meta, Labels,
     IInv, TypeOK, ProcTypes
<1>2. \A q \in Proc : pc'[q] \in {"point", "retire"} => q # p /\ pc'[q] = pc[q]
  BY <1>1 DEF IInv, TypeOK, ProcTypes
<1>3. \A q \in Proc : pc'[q] = "retain" =>
        (q # p /\ pc'[q] = pc[q]) \/ (q = p /\ batch'[p] = gens \ {current})
  BY <1>1 DEF IInv, TypeOK, ProcTypes
<1>4. \A q \in Proc : pc'[q] \in {"retain", "retire"} => gens \ {current} \subseteq batch'[q]
  BY <1>1, <1>2, <1>3 DEF TreeInv, SaverInv
<1>5. Live' => Live
  BY <1>1 DEF Live
<1> QED
  BY <1>1, <1>2, <1>4, <1>5, TreeQuiet

\* The boundary becomes what is current.
LEMMA PruneRetainTree == ASSUME IInv, TreeInv, NEW p \in Proc, PruneRetain(p) PROVE TreeInv'
<1>1. /\ pc[p] = "retain" /\ UNCHANGED <<place, gens, current, rev, par, minted, batch>>
      /\ \/ retention' = current /\ pc' = [pc EXCEPT ![p] = "retire"]
         \/ retention' = retention /\ pc' = [pc EXCEPT ![p] = "release"]
  BY DEF PruneRetain, Boundary, At, Goto, meta
<1>2. ex[Writer] = p /\ Live /\ current \in gens /\ rev[current] \in Nat
  BY <1>1 DEF IInv, SaveInv, SaveOf, Saving, Pruning, Live, CurrentPresent, TypeOK, DiskTypes, MintTypes
<1>3. \A g : WasCurrent(g)' <=> WasCurrent(g)
  BY <1>1 DEF WasCurrent
<1>4. ChildInv' /\ SpineInv'
  BY <1>1, <1>3 DEF TreeInv, ChildInv, SpineInv, Minted
<1>5. LineInv'
  <2>1. WasCurrent(current)
    BY DEF WasCurrent
  <2>2. \A b \in 1 .. rev[current] : Unbroken(b) => Unbroken(b)'
    BY <1>1, <1>2, <1>3, <2>1 DEF Unbroken
  <2> QED
    BY <1>1, <1>2, <1>3, <2>2 DEF TreeInv, LineInv, Live
<1>6. SaverInv'
  <2>1. \A q \in Proc : q # p => pc'[q] = pc[q] /\ pc[q] \notin Saving
    BY <1>1, <1>2, WriterAlone DEF IInv, TypeOK, ProcTypes
  <2>2. pc'[p] \in {"retire", "release"} /\ (pc'[p] = "retire" => retention' = current)
    BY <1>1 DEF IInv, TypeOK, ProcTypes
  <2>3. gens \ {current} \subseteq batch[p]
    BY <1>1 DEF TreeInv, SaverInv
  <2> QED
    BY <1>1, <2>1, <2>2, <2>3 DEF SaverInv, Saving, Staging, Pruning
<1> QED
  BY <1>4, <1>5, <1>6 DEF TreeInv

\* The oldest of what is not current goes.
LEMMA PruneRetireTree == ASSUME IInv, TreeInv, NEW p \in Proc, PruneRetire(p) PROVE TreeInv'
<1>1. /\ pc[p] = "retire" /\ UNCHANGED <<place, current, retention, rev, par, minted, batch>>
      /\ pc' = pc \/ pc' = [pc EXCEPT ![p] = "release"]
  BY DEF PruneRetire, At, Goto, meta
<1>2. /\ ex[Writer] = p /\ Live /\ current \in gens /\ current \notin batch[p]
      /\ gens \subseteq Gen /\ rev \in [Gen -> 0 .. MaxGen]
  BY <1>1 DEF IInv, SaveInv, SaveOf, Saving, Pruning, Live, CurrentPresent, TypeOK, DiskTypes, MintTypes
<1>3. gens \ {current} \subseteq batch[p] /\ retention = current
  BY <1>1 DEF TreeInv, SaverInv
<1>4. \A g : WasCurrent(g)' <=> WasCurrent(g)
  BY <1>1 DEF WasCurrent
<1>5. ChildInv' /\ SpineInv'
  BY <1>1, <1>4 DEF TreeInv, ChildInv, SpineInv, Minted
<1>6. gens' \subseteq gens
  BY DEF PruneRetire
<1>7. LineInv'
  <2>1. CASE gens' = gens
    BY <1>1, <1>4, <2>1 DEF TreeInv, LineInv, Unbroken, Live
  <2>2. CASE gens' # gens
    <3>1. PICK g \in batch[p] \intersect gens :
            gens' = gens \ {g} /\ \A h \in batch[p] \intersect gens : rev[g] <= rev[h]
      BY <2>2 DEF PruneRetire
    <3>2. g \in Gen /\ g # current /\ \A h \in gens : h = current \/ rev[g] <= rev[h]
      BY <1>2, <1>3, <3>1
    <3>3. PICK b \in 1 .. rev[current] : Unbroken(b)
      BY <1>2 DEF TreeInv, LineInv
    <3>4. current \in Gen /\ WasCurrent(current)
      BY <1>2 DEF WasCurrent
    <3>5. \E c \in 1 .. rev[current] : Unbroken(c)'
      <4>1. CASE ~WasCurrent(g)
        <5>1. Unbroken(b)'
          BY <1>1, <1>2, <1>3, <1>4, <3>1, <3>2, <3>3, <3>4, <4>1 DEF Unbroken
        <5> QED
          BY <5>1
      <4>2. CASE WasCurrent(g)
        <5>0. PICK c \in Int : c = rev[g] + 1
          BY <1>2
        <5>1. rev[g] \in Nat /\ rev[current] \in Nat /\ rev[g] <= rev[current] /\ rev[g] # rev[current]
          BY <1>2, <3>2, <3>4, <4>2 DEF TreeInv, SpineInv
        <5>2. c \in 1 .. rev[current] /\ rev[g] >= b
          BY <3>1, <3>3, <4>2, <5>0, <5>1 DEF Unbroken
        <5>3. ASSUME NEW r \in c .. rev[current] PROVE \E h \in gens' : WasCurrent(h) /\ rev[h] = r
          <6>1. r \in b .. rev[current] /\ r # rev[g]
            BY <5>0, <5>1, <5>2
          <6>2. PICK h \in gens : WasCurrent(h) /\ rev[h] = r
            BY <3>3, <6>1 DEF Unbroken
          <6> QED
            BY <3>1, <6>1, <6>2
        <5>4. ASSUME NEW h \in gens', WasCurrent(h) PROVE rev[h] >= c
          <6>1. h \in gens /\ h # g /\ h \in Gen /\ rev[h] \in Nat
            BY <1>2, <3>1
          <6>2. rev[h] # rev[g]
            BY <3>2, <4>2, <5>4, <6>1 DEF TreeInv, SpineInv
          <6>3. rev[g] <= rev[h]
            BY <3>2, <5>1, <6>1
          <6> QED
            BY <5>0, <5>1, <6>1, <6>2, <6>3
        <5>5. retention \in gens' /\ WasCurrent(retention) /\ rev[retention] >= c
          BY <1>2, <1>3, <3>1, <3>2, <3>4, <5>2
        <5>6. Unbroken(c)'
          BY <1>1, <1>4, <5>3, <5>4, <5>5 DEF Unbroken
        <5> QED
          BY <5>2, <5>6
      <4> QED
        BY <4>1, <4>2
    <3>6. \A h \in gens' : WasCurrent(h) \/ rev[h] >= rev[current]
      BY <1>2, <1>6 DEF TreeInv, LineInv
    <3> QED
      BY <1>1, <1>4, <3>5, <3>6 DEF LineInv
  <2> QED
    BY <2>1, <2>2
<1>8. SaverInv'
  <2>1. \A q \in Proc : q # p => pc'[q] = pc[q] /\ pc[q] \notin Saving
    BY <1>1, <1>2, WriterAlone DEF IInv, TypeOK, ProcTypes
  <2>2. pc'[p] \in {"retire", "release"}
    BY <1>1 DEF IInv, TypeOK, ProcTypes
  <2> QED
    BY <1>1, <1>3, <1>6, <2>1, <2>2 DEF SaverInv, Saving, Staging, Pruning
<1> QED
  BY <1>5, <1>7, <1>8 DEF TreeInv

\* Every step keeps the tree.
LEMMA NextTree == IInv /\ TreeInv /\ [Next]_vars => TreeInv'
<1> SUFFICES ASSUME IInv, TreeInv, [Next]_vars PROVE TreeInv'
  OBVIOUS
<1>1. ASSUME NEW p \in Proc, Commit(p) \/ Prune(p) PROVE TreeInv'
  BY <1>1, CommitStartTree, CommitPublishTree, CommitPointTree, CommitAbortTree, CommitRestTree, PruneRetainTree,
     PruneRetireTree DEF Commit, Prune
<1>2. ASSUME UNCHANGED <<place, gens, current, retention, rev, par, minted, pc, batch>> PROVE TreeInv'
  BY <1>2, TreeQuiet DEF Live, TreeInv, SaverInv
<1>3. ASSUME NEW g \in Gen, LoseGate(g)
      PROVE  UNCHANGED <<place, gens, current, retention, rev, par, minted, pc, batch>>
  BY <1>3 DEF LoseGate, meta, local
<1>4. UNCHANGED vars => UNCHANGED <<place, gens, current, retention, rev, par, minted, pc, batch>>
  BY DEF vars, disk, meta, local
<1> QED
  BY <1>1, <1>2, <1>3, <1>4, ReadTree, MoveTree DEF Next

\* A session just created is a tree of one.
LEMMA InitTree == Init => TreeInv
<1> SUFFICES ASSUME Init PROVE TreeInv
  OBVIOUS
<1>1. /\ 1 \in Gen /\ current = 1 /\ gens = {1} /\ minted = 1 /\ rev[1] = 1
      /\ \A g \in Gen : par[g] = None /\ (g <= 1 => g = 1)
  BY DEF Init, Gen
<1>2. \A g \in Gen : WasCurrent(g) <=> g = 1
  BY <1>1 DEF WasCurrent, Gen, None
<1>3. ChildInv /\ SpineInv
  BY <1>1, <1>2 DEF ChildInv, SpineInv, Minted
<1>4. Unbroken(1)
  BY <1>1, <1>2 DEF Unbroken
<1>5. LineInv
  BY <1>1, <1>2, <1>4 DEF LineInv
<1>6. SaverInv
  BY DEF Init, SaverInv
<1> QED
  BY <1>3, <1>5, <1>6 DEF TreeInv

\* The tree is there in every run.
LEMMA TreeHolds == Spec => []TreeInv
<1> QED
  BY InitTree, NextTree, Invariance, PTL DEF Spec

\* Generations of one revision that are children of one are the only ones in the way.
LEMMA ReadableUnless ==
  ASSUME IInv, TreeInv, Live, broken = {},
         \A g, h \in gens : rev[g] = rev[h] /\ par[g] = par[h] => g = h
  PROVE  Sound
<1>1. /\ current \in gens /\ gens \subseteq Gen /\ rev \in [Gen -> 0 .. MaxGen] /\ par \in [Gen -> Gen \union {None}]
      /\ \A g \in gens : Minted(g)
  BY DEF IInv, CurrentPresent, TypeOK, DiskTypes, MintTypes, MintInv, Minted
<1>2. \A g \in Gen : par[g] # None => par[g] \in Gen /\ WasCurrent(par[g])
  BY <1>1 DEF WasCurrent
<1>3. \A g, h \in gens : rev[g] = rev[h] => g = h
  <2> SUFFICES ASSUME NEW g \in gens, NEW h \in gens, rev[g] = rev[h] PROVE par[g] = par[h]
    OBVIOUS
  <2>1. g \in Gen /\ h \in Gen /\ Minted(g) /\ Minted(h)
    BY <1>1
  <2>2. CASE par[g] # None /\ par[h] # None
    <3>1. rev[par[g]] = rev[par[h]]
      <4>1. rev[g] = rev[par[g]] + 1 /\ rev[h] = rev[par[h]] + 1
        BY <2>1, <2>2 DEF TreeInv, ChildInv
      <4>2. rev[par[g]] \in Nat /\ rev[par[h]] \in Nat
        BY <1>1, <1>2, <2>1, <2>2
      <4>3. PICK x \in Nat, y \in Nat : x = rev[par[g]] /\ y = rev[par[h]]
        BY <4>2
      <4>4. rev[g] = rev[h]
        OBVIOUS
      <4>5. x + 1 = y + 1
        BY <4>1, <4>3, <4>4
      <4> QED
        BY <4>3, <4>5
    <3> QED
      BY <1>2, <2>1, <2>2, <3>1 DEF TreeInv, SpineInv
  <2>3. ASSUME NEW x \in {g, h}, par[x] = None, NEW y \in {g, h}, par[y] # None PROVE FALSE
    <3>1. rev[x] = 1
      BY <2>1, <2>3 DEF TreeInv, ChildInv
    <3>2. rev[y] = rev[par[y]] + 1 /\ par[y] \in Gen /\ Minted(par[y])
      BY <1>2, <2>1, <2>3 DEF TreeInv, ChildInv, SpineInv
    <3>3. rev[par[y]] >= 1
      BY <3>2 DEF TreeInv, ChildInv
    <3>4. rev[par[y]] \in Nat
      BY <1>1, <3>2
    <3>5. rev[x] = rev[y]
      OBVIOUS
    <3> QED
      BY <3>1, <3>2, <3>3, <3>4, <3>5
  <2>4. CASE par[g] = None
    BY <2>3, <2>4
  <2>5. CASE par[h] = None
    BY <2>3, <2>5
  <2> QED
    BY <2>2, <2>4, <2>5
<1>4. PICK b \in 1 .. rev[current] : Unbroken(b)
  BY DEF TreeInv, LineInv
<1>5. rev[current] \in Nat
  BY <1>1
<1>6. \A g \in gens : rev[g] < rev[current] => WasCurrent(g)
  <2> SUFFICES ASSUME NEW g \in gens, ~WasCurrent(g) PROVE ~(rev[g] < rev[current])
    OBVIOUS
  <2>1. rev[g] >= rev[current] /\ rev[g] \in Nat
    BY <1>1 DEF TreeInv, LineInv
  <2> QED
    BY <1>5, <2>1
<1>7. \A r \in b .. rev[current] : AtRevision(r) # {}
  BY <1>4 DEF Unbroken, AtRevision
<1>8. ASSUME NEW g \in gens, NEW h \in gens, rev[h] \in b .. rev[current] - 1, rev[g] = rev[h] + 1
      PROVE  par[g] = h
  <2>1. WasCurrent(h) /\ g \in Gen /\ h \in Gen /\ rev[h] \in Nat /\ rev[h] >= 1
    BY <1>1, <1>5, <1>6, <1>8
  <2>2. par[g] # None
    BY <1>1, <1>8, <2>1 DEF TreeInv, ChildInv
  <2>3. rev[g] = rev[par[g]] + 1 /\ par[g] \in Gen /\ WasCurrent(par[g]) /\ rev[par[g]] \in Nat
    BY <1>1, <1>2, <2>1, <2>2 DEF TreeInv, ChildInv
  <2>4. rev[par[g]] = rev[h]
    BY <1>8, <2>1, <2>3
  <2> QED
    BY <2>1, <2>3, <2>4 DEF TreeInv, SpineInv
<1>9. b = 1 \/ AtRevision(b - 1) = {}
  <2> SUFFICES ASSUME NEW g \in gens, rev[g] = b - 1 PROVE FALSE
    BY DEF AtRevision
  <2>1. WasCurrent(g)
    BY <1>4, <1>5, <1>6
  <2>2. rev[g] >= b
    BY <1>4, <2>1 DEF Unbroken
  <2> QED
    BY <1>4, <2>2
<1>10. b = 1 \/ (retention \in gens /\ rev[retention] \in b .. rev[current])
  <2> SUFFICES ASSUME b # 1 PROVE retention \in gens /\ rev[retention] \in b .. rev[current]
    OBVIOUS
  <2>1. retention \in gens /\ WasCurrent(retention) /\ rev[retention] >= b
    BY <1>4 DEF Unbroken
  <2>2. rev[retention] <= rev[current] /\ rev[retention] \in Nat
    BY <1>1, <2>1 DEF TreeInv, SpineInv
  <2> QED
    BY <1>4, <1>5, <2>1, <2>2
<1>11. Lineage
  BY <1>3, <1>4, <1>7, <1>8, <1>9, <1>10 DEF Lineage
<1> QED
  BY <1>1, <1>11 DEF Sound

-----------------------------------------------------------------------------
\* A heavy folder is emptied by somebody who is at it, or was left so by a failure.
LeftInv == bare => inside > 0 /\ (Shedding \/ faults > 0)

\* A step of one process takes the writer lock from no other.
LEMMA WriterKept ==
  ASSUME IInv, NEW p \in Proc, NEW q \in Proc, q # p, ex[Writer] = q,
         \/ Open(p) \/ List(p) \/ CommitStart(p) \/ CommitGate(p) \/ CommitPublish(p) \/ CommitAbort(p)
         \/ CommitView(p) \/ CommitShed(p) \/ Prune(p) \/ Move(p) \/ Delete(p)
  PROVE  ex'[Writer] = q
<1>0. /\ Writer \in Lock /\ q # NoProc
      /\ ~Free(Writer)
  BY LockNumbers DEF Free
<1>1. CASE Open(p) \/ List(p)
  <2>1. UNCHANGED ex \/ DropExclusive(p, {Writer})
    BY <1>0, <1>1 DEF Open, OpenStart, OpenGate, OpenCheck, OpenRetry, List, ListStart, ListSweep, ListRepair,
       ListFinish, ListShare, Shed, locks
  <2> QED
    BY <1>0, <2>1 DEF DropExclusive
<1>2. CASE CommitStart(p)
  BY <1>0, <1>2 DEF CommitStart, TakeExclusive
<1>3. CASE CommitGate(p) \/ CommitPublish(p) \/ CommitAbort(p) \/ CommitView(p) \/ CommitShed(p)
  <2>1. UNCHANGED ex \/ DropExclusive(p, {Writer})
    BY <1>3 DEF CommitGate, CommitPublish, CommitAbort, CommitView, CommitShed, Shed, locks
  <2> QED
    BY <1>0, <2>1 DEF DropExclusive
<1>4. CASE PruneLock(p)
  <2>1. TakeExclusive(p, Superseded) \/ DropExclusive(p, {Writer})
    BY <1>4 DEF PruneLock
  <2> QED
    BY <1>0, <2>1 DEF TakeExclusive, DropExclusive
<1>5. CASE PruneRetain(p) \/ PruneRetire(p)
  BY <1>5 DEF PruneRetain, PruneRetire, locks
<1>6. CASE PruneRelease(p) \/ PruneForget(p)
  <2>1. UNCHANGED ex \/ \E ls : DropExclusive(p, ls)
    BY <1>6 DEF PruneRelease, PruneForget
  <2> QED
    BY <1>0, <2>1 DEF DropExclusive
<1>7. CASE Move(p) \/ Delete(p)
  <2>1. UNCHANGED ex \/ (\E ls : DropExclusive(p, ls)) \/ TakeExclusive(p, {Root})
    BY <1>0, <1>7 DEF Move, MoveStart, MoveLock, MoveRename, Delete, DeleteStart, DeleteLock, DeleteMove,
       DeleteClean, UnlinkGates, ExclusiveStart, ExclusiveLock
  <2> QED
    BY <1>0, <2>1, LockNumbers DEF DropExclusive, TakeExclusive
<1> QED
  BY <1>1, <1>2, <1>3, <1>4, <1>5, <1>6, <1>7 DEF Prune

\* Every step but those that remove heavy folders leaves these as they are.
LEMMA LeftAlone ==
  ASSUME IInv, LeftInv, NEW p \in Proc, pc[p] \notin {"shed", "finish"},
         \/ Open(p) \/ List(p) \/ CommitStart(p) \/ CommitGate(p) \/ CommitPublish(p) \/ CommitAbort(p)
         \/ CommitView(p) \/ Prune(p) \/ Move(p) \/ Delete(p)
  PROVE  LeftInv'
<1>0. pc \in [Proc -> Labels] /\ faults \in Nat
  BY DEF IInv, TypeOK, ProcTypes
<1>1. UNCHANGED <<inside, bare>> /\ faults' \in {faults, faults + 1} /\ \A q \in Proc : q # p => pc'[q] = pc[q]
  <2>1. CASE Open(p) \/ List(p)
    BY <1>0, <2>1 DEF Open, OpenStart, OpenGate, OpenCheck, OpenRetry, OpenFail, List, ListStart, ListSweep,
       ListRepair, ListFinish, ListShare, Shed, At, Goto, disk, NoFault, Fault
  <2>2. CASE CommitStart(p) \/ CommitGate(p) \/ CommitPublish(p) \/ CommitAbort(p) \/ CommitView(p)
    BY <1>0, <2>2 DEF CommitStart, CommitGate, CommitPublish, CommitAbort, CommitView, Goto, disk, NoFault, Fault
  <2>3. CASE Prune(p)
    BY <1>0, <2>3 DEF Prune, PruneLock, PruneRetain, PruneRetire, PruneRelease, PruneForget, Goto, disk, NoFault,
       Fault
  <2>4. CASE Move(p) \/ Delete(p)
    BY <1>0, <2>4 DEF Move, MoveStart, MoveLock, MoveRename, Delete, DeleteStart, DeleteLock, DeleteMove,
       DeleteClean, UnlinkGates, ExclusiveStart, ExclusiveLock, Goto, disk, NoFault, Fault
  <2> QED
    BY <2>1, <2>2, <2>3, <2>4
<1>2. Shedding => Shedding'
  <2> SUFFICES ASSUME NEW q \in Proc, pc[q] \in {"shed", "finish"}, ex[Writer] = q
               PROVE  pc'[q] \in {"shed", "finish"} /\ ex'[Writer] = q
    BY DEF Shedding
  <2> QED
    BY <1>1, WriterKept
<1>3. faults > 0 => faults' > 0
  BY <1>0, <1>1
<1> QED
  BY <1>1, <1>2, <1>3 DEF LeftInv

\* Those that remove them leave an empty one only while they are at it, or fail.
LEMMA ShedLeft ==
  ASSUME IInv, LeftInv, NEW p \in Proc, pc[p] \in {"shed", "finish"},
         Open(p) \/ List(p) \/ Commit(p) \/ Prune(p) \/ Move(p) \/ Delete(p)
  PROVE  LeftInv'
<1>1. ListFinish(p) \/ CommitShed(p)
  BY DEF Open, OpenStart, OpenGate, OpenCheck, OpenRetry, List, ListStart, ListSweep, ListRepair, ListShare,
     Commit, CommitStart, CommitGate, CommitPublish, CommitPoint, CommitAbort, CommitView,
     Prune, PruneLock, PruneRetain, PruneRetire, PruneRelease, PruneForget,
     Move, MoveStart, MoveLock, MoveRename, Delete, DeleteStart, DeleteLock, DeleteMove,
     DeleteClean, UnlinkGates, ExclusiveStart, ExclusiveLock, At
<1>2. /\ inside \in Nat /\ bare \in BOOLEAN /\ faults \in Nat
      /\ ex[Writer] = p
  <2>1. pc[p] = "shed" => pc[p] \in Saving
    BY DEF Saving
  <2> QED
    BY <2>1 DEF IInv, TypeOK, DiskTypes, SaveInv, SaveOf, ExclusiveInv, ExclusiveOf
<1>3. /\ bare' => inside' > 0
      /\ \/ UNCHANGED <<ex, pc>>
         \/ ~bare'
         \/ faults' = faults + 1
  <2>1. CASE ListFinish(p)
    BY <1>2, <2>1 DEF ListFinish, Shed, Fault, LeftInv
  <2>2. CASE CommitShed(p)
    BY <1>2, <2>2 DEF CommitShed, Shed, Fault, LeftInv
  <2> QED
    BY <1>1, <2>1, <2>2
<1>4. UNCHANGED <<ex, pc>> => Shedding'
  BY <1>2 DEF Shedding
<1> QED
  BY <1>2, <1>3, <1>4 DEF LeftInv

\* Every step keeps it so.
LEMMA NextLeft == IInv /\ LeftInv /\ [Next]_vars => LeftInv'
<1> SUFFICES ASSUME IInv, LeftInv, [Next]_vars PROVE LeftInv'
  OBVIOUS
<1>0. faults \in Nat
  BY DEF IInv, TypeOK
<1>1. ASSUME NEW p \in Proc, Open(p) \/ List(p) \/ Commit(p) \/ Prune(p) \/ Move(p) \/ Delete(p)
      PROVE  LeftInv'
  <2>1. CASE pc[p] \in {"shed", "finish"}
    BY <1>1, <2>1, ShedLeft
  <2>2. CASE pc[p] \notin {"shed", "finish"} /\ ~CommitPoint(p)
    <3>1. ~CommitShed(p)
      BY <2>2 DEF CommitShed, Shed, At
    <3> QED
      BY <1>1, <2>2, <3>1, LeftAlone DEF Commit
  <2>3. CASE CommitPoint(p)
    BY <2>3 DEF CommitPoint, LeftInv
  <2> QED
    BY <2>1, <2>2, <2>3
<1>2. ASSUME UNCHANGED <<inside, bare>>, faults' = faults + 1 PROVE LeftInv'
  BY <1>0, <1>2 DEF LeftInv
<1>3. ASSUME NEW p \in Proc, Crash(p) PROVE LeftInv'
  BY <1>2, <1>3 DEF Crash, Fault, disk
<1>4. ASSUME NEW g \in Gen, LoseGate(g) PROVE LeftInv'
  BY <1>2, <1>4 DEF LoseGate, Fault
<1>5. ASSUME UNCHANGED <<inside, bare, ex, pc, faults>> PROVE LeftInv'
  BY <1>5 DEF LeftInv, Shedding
<1>6. ASSUME NEW p \in Proc, CloseLease(p) PROVE LeftInv'
  BY <1>5, <1>6 DEF CloseLease, disk
<1>7. CASE UNCHANGED vars
  BY <1>5, <1>7 DEF vars, disk, locks, local
<1> QED
  BY <1>1, <1>3, <1>4, <1>6, <1>7 DEF Next

\* It is so in every run.
LEMMA LeftHolds == Spec => []LeftInv
<1>1. Init => LeftInv
  BY DEF Init, LeftInv
<1> QED
  BY <1>1, NextLeft, Invariance, PTL DEF Spec

\* Only what never became current, and a heavy folder that was emptied and not removed,
\* make a session unreadable; the latter while somebody is at it, or after a failure.
THEOREM LeftoversBreak == Spec => []OnlyLeftoversBreak
<1>1. IInv /\ TreeInv /\ LeftInv => OnlyLeftoversBreak
  <2> SUFFICES ASSUME IInv, TreeInv, LeftInv, Live PROVE (Sound \/ Strays) /\ (bare => Shedding \/ faults > 0)
    BY DEF OnlyLeftoversBreak
  <2>1. Sound \/ Strays
    BY ReadableUnless DEF Strays
  <2>2. bare => Shedding \/ faults > 0
    BY DEF LeftInv
  <2> QED
    BY <2>1, <2>2
<1> QED
  BY <1>1, Invariance, TreeHolds, LeftHolds, PTL

-----------------------------------------------------------------------------
(***************************************************************************)
(* What was retired                                                        *)
(***************************************************************************)
\* A step of one process leaves what the others retire.
LEMMA RetiredOthers ==
  ASSUME IInv, RetiredInv, NEW p \in Proc,
         \A q \in Proc : q # p => pc'[q] = pc[q] /\ arg'[q] = arg[q] /\ retired'[q] = retired[q],
         gens' \subseteq gens \/ ex[Writer] = p,
         Live' => Live,
         RetiredOf(p)'
  PROVE  RetiredInv'
<1> SUFFICES ASSUME NEW q \in Proc, q # p PROVE RetiredOf(q)'
  BY DEF RetiredInv
<1>1. RetiredOf(q) /\ pc'[q] = pc[q] /\ arg'[q] = arg[q] /\ retired'[q] = retired[q]
  BY DEF RetiredInv
<1>2. pc[q] \in Pruning => gens' \subseteq gens
  BY WriterAlone DEF Saving
<1> QED
  BY <1>1, <1>2 DEF RetiredOf, Pruning

\* A process that retires nothing, before a step and after it.
LEMMA RetiredPlain ==
  ASSUME IInv, RetiredInv, NEW p \in Proc, pc[p] \notin Retiring, pc'[p] \notin Retiring,
         UNCHANGED retired,
         \A q \in Proc : q # p => pc'[q] = pc[q] /\ arg'[q] = arg[q],
         gens' \subseteq gens \/ ex[Writer] = p,
         Live' => Live
  PROVE  RetiredInv'
<1>1. RetiredOf(p)'
  BY DEF RetiredInv, RetiredOf, Retiring, Pruning
<1> QED
  BY <1>1, RetiredOthers

\* Opening, listing up to the sweep, saving up to the prune, and moving.
LEMMA PlainRetired ==
  ASSUME IInv, RetiredInv, TreeInv, NEW p \in Proc,
         \/ Open(p) \/ ListStart(p) \/ ListRepair(p) \/ ListFinish(p) \/ ListShare(p) \/ Commit(p)
         \/ PruneLock(p) \/ Move(p) \/ DeleteStart(p) \/ DeleteLock(p)
  PROVE  RetiredInv'
<1>1. /\ pc[p] \notin Retiring /\ UNCHANGED retired
      /\ UNCHANGED pc \/ \E l \in Labels \ Retiring : pc' = [pc EXCEPT ![p] = l]
  <2>1. CASE Open(p) \/ ListStart(p) \/ ListRepair(p) \/ ListFinish(p) \/ ListShare(p)
    BY <2>1 DEF Open, OpenStart, OpenGate, OpenCheck, OpenRetry, OpenFail, ListStart, ListRepair, ListFinish, ListShare, Shed, At,
       Goto, Labels, Retiring
  <2>2. CASE Commit(p) \/ PruneLock(p)
    BY <2>2 DEF Commit, CommitStart, CommitGate, CommitPublish, CommitPoint, CommitAbort, CommitView, CommitShed, Shed, PruneLock, At,
       Goto, Labels, Retiring
  <2>3. CASE Move(p) \/ DeleteStart(p) \/ DeleteLock(p)
    BY <2>3 DEF Move, MoveStart, MoveLock, MoveRename, DeleteStart, DeleteLock, ExclusiveStart, ExclusiveLock, At,
       Goto, Labels, Retiring
  <2> QED
    BY <2>1, <2>2, <2>3
<1>2. \E g \in Gen \union {None} : arg' = [arg EXCEPT ![p] = g] \/ UNCHANGED arg
  <2>1. CASE Open(p) \/ ListStart(p) \/ ListRepair(p) \/ ListFinish(p) \/ ListShare(p)
    BY <2>1 DEF Open, OpenStart, OpenGate, OpenCheck, OpenRetry, OpenFail, ListStart, ListRepair, ListFinish, ListShare, Shed,
       IInv, TypeOK, DiskTypes
  <2>2. CASE Commit(p) \/ PruneLock(p)
    <3>1. CASE CommitStart(p)
      <4>1. minted + 1 \in Gen /\ arg' = [arg EXCEPT ![p] = minted + 1]
        BY <3>1 DEF CommitStart, IInv, TypeOK, MintTypes, Gen
      <4> QED
        BY <4>1
    <3>2. CASE ~CommitStart(p)
      BY <2>2, <3>2 DEF Commit, CommitGate, CommitPublish, CommitPoint, CommitAbort, CommitView, CommitShed, Shed, PruneLock
    <3> QED
      BY <3>1, <3>2
  <2>3. CASE Move(p) \/ DeleteStart(p) \/ DeleteLock(p)
    BY <2>3 DEF Move, MoveStart, MoveLock, MoveRename, DeleteStart, DeleteLock, ExclusiveStart, ExclusiveLock
  <2> QED
    BY <2>1, <2>2, <2>3
<1>3. gens' \subseteq gens \/ ex[Writer] = p
  <2>1. CASE CommitPublish(p)
    BY <2>1, StagedIsNew DEF CommitPublish, At, Staging
  <2>2. CASE ~CommitPublish(p)
    BY <2>2 DEF Open, OpenStart, OpenGate, OpenCheck, OpenRetry, OpenFail, ListStart, ListRepair, ListFinish, ListShare, Shed,
       Commit, CommitStart, CommitGate, CommitPoint, CommitAbort, CommitView, CommitShed, Shed, PruneLock,
       Move, MoveStart, MoveLock, MoveRename, DeleteStart, DeleteLock, ExclusiveStart, ExclusiveLock, disk
  <2> QED
    BY <2>1, <2>2
<1>4. Live' => Live
  <2>1. CASE MoveRename(p)
    BY <2>1 DEF MoveRename, At, Live, IInv, ExclusiveInv, ExclusiveOf, Exclusive
  <2>2. CASE ~MoveRename(p)
    <3>1. UNCHANGED place
      BY <2>2 DEF Open, OpenStart, OpenGate, OpenCheck, OpenRetry, OpenFail, ListStart, ListRepair, ListFinish, ListShare, Shed,
         Commit, CommitStart, CommitGate, CommitPublish, CommitPoint, CommitAbort, CommitView, CommitShed, Shed, PruneLock,
         Move, MoveStart, MoveLock, DeleteStart, DeleteLock, ExclusiveStart, ExclusiveLock, disk
    <3> QED
      BY <3>1 DEF Live
  <2> QED
    BY <2>1, <2>2
<1>5. /\ pc'[p] \notin Retiring
      /\ \A q \in Proc : q # p => pc'[q] = pc[q] /\ arg'[q] = arg[q]
  BY <1>1, <1>2 DEF IInv, TypeOK, ProcTypes
<1> QED
  BY <1>1, <1>3, <1>4, <1>5, RetiredPlain

\* A prune retires what it has taken out of generations/.
LEMMA PruneRetired ==
  ASSUME IInv, RetiredInv, NEW p \in Proc,
         PruneRetain(p) \/ PruneRetire(p) \/ PruneRelease(p) \/ PruneForget(p)
  PROVE  RetiredInv'
<1>0. /\ pc \in [Proc -> Labels] /\ arg \in [Proc -> Gen \union {None}] /\ retired \in [Proc -> SUBSET Gen]
  BY DEF IInv, TypeOK, ProcTypes
<1>1. /\ \A q \in Proc : q # p => pc'[q] = pc[q] /\ arg'[q] = arg[q] /\ retired'[q] = retired[q]
      /\ gens' \subseteq gens /\ UNCHANGED place
  <2>1. CASE PruneRetain(p)
    BY <1>0, <2>1 DEF PruneRetain, Goto
  <2>2. CASE PruneRetire(p)
    BY <1>0, <2>2 DEF PruneRetire, Goto
  <2>3. CASE PruneRelease(p)
    BY <1>0, <2>3 DEF PruneRelease, Goto, disk
  <2>4. CASE PruneForget(p)
    BY <1>0, <2>4 DEF PruneForget, Goto
  <2> QED
    BY <2>1, <2>2, <2>3, <2>4
<1>2. RetiredOf(p)
  BY DEF RetiredInv
<1>3. RetiredOf(p)'
  <2>1. CASE PruneRetain(p)
    <3>1. pc[p] = "retain" /\ pc'[p] \in {"retire", "release"} /\ UNCHANGED <<gens, retired, arg>>
      BY <1>0, <2>1 DEF PruneRetain, At, Goto
    <3> QED
      BY <1>2, <3>1 DEF RetiredOf, Retiring, Pruning
  <2>2. CASE PruneRetire(p)
    <3>1. /\ pc[p] = "retire" /\ pc'[p] \in {"retire", "release"}
          /\ retired[p] \intersect gens = {}
          /\ gens' \subseteq gens
      BY <1>0, <1>1, <1>2, <2>2 DEF PruneRetire, At, Goto, RetiredOf, Pruning
    <3>2. \/ UNCHANGED retired
          \/ \E g \in gens : retired' = [retired EXCEPT ![p] = retired[p] \union {g}] /\ gens' = gens \ {g}
      BY <2>2 DEF PruneRetire
    <3>3. retired'[p] \intersect gens' = {}
      BY <1>0, <3>1, <3>2
    <3> QED
      BY <3>1, <3>3 DEF RetiredOf, Retiring, Pruning
  <2>3. CASE PruneRelease(p)
    <3>1. /\ pc[p] = "release" /\ UNCHANGED <<gens, place>> /\ retired[p] \intersect gens = {}
      BY <1>2, <2>3 DEF PruneRelease, At, disk, RetiredOf, Pruning
    <3>2. \/ retired'[p] = {} /\ pc'[p] = "idle"
          \/ /\ retired'[p] = retired[p]
             /\ pc'[p] = "release" \/ (pc'[p] = "forget" /\ arg'[p] \in retired[p])
      BY <1>0, <2>3, <3>1 DEF PruneRelease, Goto
    <3> QED
      BY <3>1, <3>2 DEF RetiredOf, Retiring, Pruning
  <2>4. CASE PruneForget(p)
    <3>1. /\ pc[p] = "forget" /\ UNCHANGED <<gens, place>> /\ retired[p] \intersect gens = {}
      BY <1>2, <2>4 DEF PruneForget, At, RetiredOf, Pruning
    <3>2. \/ retired'[p] = {} /\ pc'[p] = "idle"
          \/ retired'[p] = retired[p] /\ pc'[p] = "release"
      BY <1>0, <2>4 DEF PruneForget, Goto
    <3> QED
      BY <3>1, <3>2 DEF RetiredOf, Retiring, Pruning
  <2> QED
    BY <2>1, <2>2, <2>3, <2>4
<1>4. Live' => Live
  BY <1>1 DEF Live
<1> QED
  BY <1>1, <1>3, <1>4, RetiredOthers

\* A delete retires what the deleted folder held.
LEMMA DeleteRetired ==
  ASSUME IInv, RetiredInv, NEW p \in Proc,
         DeleteMove(p) \/ DeleteClean(p) \/ UnlinkGates(p) \/ ListSweep(p) \/ Crash(p)
  PROVE  RetiredInv'
<1>0. /\ pc \in [Proc -> Labels] /\ arg \in [Proc -> Gen \union {None}] /\ retired \in [Proc -> SUBSET Gen]
  BY DEF IInv, TypeOK, ProcTypes
<1>1. \A q \in Proc : q # p => pc'[q] = pc[q] /\ arg'[q] = arg[q] /\ retired'[q] = retired[q]
  <2>1. CASE DeleteMove(p)
    BY <1>0, <2>1 DEF DeleteMove, Goto
  <2>2. CASE DeleteClean(p)
    BY <1>0, <2>2 DEF DeleteClean, Goto
  <2>3. CASE UnlinkGates(p)
    BY <1>0, <2>3 DEF UnlinkGates, Goto
  <2>4. CASE ListSweep(p)
    BY <1>0, <2>4 DEF ListSweep, Goto
  <2>5. CASE Crash(p)
    BY <1>0, <2>5 DEF Crash, Goto
  <2> QED
    BY <2>1, <2>2, <2>3, <2>4, <2>5
<1>2. gens' \subseteq gens
  BY DEF DeleteMove, DeleteClean, UnlinkGates, ListSweep, Crash, disk
<1>3. RetiredOf(p)
  BY DEF RetiredInv
<1>4. (Live' => Live) /\ RetiredOf(p)'
  <2>1. CASE DeleteMove(p)
    <3>1. pc[p] = "entomb" /\ retired[p] = {} /\ Live
      BY <1>3, <2>1 DEF DeleteMove, At, RetiredOf, Retiring, IInv, ExclusiveInv, ExclusiveOf, Exclusive
    <3>2. pc'[p] = "clean" \/ (pc'[p] = "idle" /\ retired' = retired)
      BY <1>0, <2>1 DEF DeleteMove, Goto
    <3> QED
      BY <3>1, <3>2 DEF RetiredOf, Retiring, Pruning
  <2>2. CASE DeleteClean(p)
    <3>1. pc[p] = "clean" /\ ~Live /\ place' \in {place, "gone"}
      BY <2>2 DEF DeleteClean, At, IInv, ExclusiveInv, ExclusiveOf
    <3>2. ~Live'
      BY <3>1 DEF Live
    <3>3. pc'[p] = "unlink" \/ (pc'[p] = "idle" /\ retired'[p] = {})
      BY <1>0, <2>2 DEF DeleteClean, Goto
    <3> QED
      BY <3>2, <3>3 DEF RetiredOf, Retiring, Pruning
  <2>3. CASE UnlinkGates(p)
    <3>1. pc[p] = "unlink" /\ ~Live /\ UNCHANGED place
      BY <1>3, <2>3 DEF UnlinkGates, At, RetiredOf
    <3>2. pc'[p] = "unlink" \/ (pc'[p] = "idle" /\ retired'[p] = {})
      BY <1>0, <2>3, <3>1 DEF UnlinkGates, Goto
    <3> QED
      BY <3>1, <3>2 DEF RetiredOf, Retiring, Pruning, Live
  <2>4. CASE ListSweep(p)
    <3>1. pc[p] = "sweep" /\ retired[p] = {}
      BY <1>3, <2>4 DEF ListSweep, At, RetiredOf, Retiring
    <3>2. \/ place' = "gone" /\ pc'[p] = "unlink"
          \/ UNCHANGED place /\ pc'[p] \in {"idle", "repair"} /\ retired' = retired
      BY <1>0, <2>4 DEF ListSweep, Goto
    <3>3. (Live' => Live) /\ (pc'[p] = "unlink" => ~Live')
      BY <3>2 DEF Live
    <3> QED
      BY <3>1, <3>2, <3>3 DEF RetiredOf, Retiring, Pruning
  <2>5. CASE Crash(p)
    <3>1. UNCHANGED place /\ pc'[p] = "idle" /\ retired'[p] = {}
      BY <1>0, <2>5 DEF Crash, Goto, disk
    <3> QED
      BY <3>1 DEF RetiredOf, Retiring, Pruning, Live
  <2> QED
    BY <2>1, <2>2, <2>3, <2>4, <2>5
<1> QED
  BY <1>1, <1>2, <1>4, RetiredOthers

\* What is retired stays out of generations/ in every run.
LEMMA NextRetired == IInv /\ TreeInv /\ RetiredInv /\ [Next]_vars => RetiredInv'
<1> SUFFICES ASSUME IInv, TreeInv, RetiredInv, [Next]_vars PROVE RetiredInv'
  OBVIOUS
<1>1. ASSUME UNCHANGED <<place, gens, pc, arg, retired>> PROVE RetiredInv'
  BY <1>1 DEF RetiredInv, RetiredOf, Live
<1>2. ASSUME NEW g \in Gen, LoseGate(g) PROVE UNCHANGED <<place, gens, pc, arg, retired>>
  BY <1>2 DEF LoseGate, local
<1>3. ASSUME NEW p \in Proc, CloseLease(p) PROVE UNCHANGED <<place, gens, pc, arg, retired>>
  BY <1>3 DEF CloseLease, disk
<1>4. UNCHANGED vars => UNCHANGED <<place, gens, pc, arg, retired>>
  BY DEF vars, disk, local
<1> QED
  BY <1>1, <1>2, <1>3, <1>4, PlainRetired, PruneRetired, DeleteRetired DEF Next, List, Prune, Delete

-----------------------------------------------------------------------------
(***************************************************************************)
(* While nothing fails                                                     *)
(***************************************************************************)
\* A deleted session does not come back.
LEMMA LiveBefore == IInv /\ [Next]_vars /\ Live' => Live
<1> SUFFICES ASSUME IInv, [Next]_vars, Live' PROVE Live
  OBVIOUS
<1>1. ASSUME NEW p \in Proc, MoveRename(p) PROVE Live
  BY <1>1 DEF MoveRename, At, IInv, ExclusiveInv, ExclusiveOf, Exclusive
<1>2. ASSUME NEW p \in Proc,
             ListSweep(p) \/ DeleteMove(p) \/ DeleteClean(p) \/ UnlinkGates(p)
      PROVE  place' \in {place, "tomb", "gone"}
  BY <1>2 DEF ListSweep, DeleteMove, DeleteClean, UnlinkGates
<1>3. ASSUME NEW p \in Proc, Open(p) \/ CloseLease(p) \/ Crash(p) \/ ListStart(p) \/ ListRepair(p) \/ ListFinish(p)
               \/ ListShare(p)
      PROVE  UNCHANGED place
  BY <1>3 DEF Open, OpenStart, OpenGate, OpenCheck, OpenRetry, CloseLease, Crash, ListStart, ListRepair, ListFinish,
     ListShare, Shed,
     disk
<1>4. ASSUME NEW p \in Proc, Commit(p) \/ Prune(p) PROVE UNCHANGED place
  BY <1>4 DEF Commit, CommitStart, CommitGate, CommitPublish, CommitPoint, CommitAbort, CommitView, CommitShed,
     Shed, Prune, PruneLock, PruneRetain, PruneRetire, PruneRelease, PruneForget, disk
<1>5. ASSUME NEW p \in Proc, MoveStart(p) \/ MoveLock(p) \/ DeleteStart(p) \/ DeleteLock(p) PROVE UNCHANGED place
  BY <1>5 DEF MoveStart, MoveLock, DeleteStart, DeleteLock, ExclusiveStart, ExclusiveLock, disk
<1>6. ASSUME NEW g \in Gen, LoseGate(g) PROVE UNCHANGED place
  BY <1>6 DEF LoseGate
<1>7. UNCHANGED vars => UNCHANGED place
  BY DEF vars, disk
<1>8. place' \in {place, "tomb", "gone"} => Live
  BY DEF Live
<1>9. UNCHANGED place => Live
  BY DEF Live
<1> QED
  BY <1>1, <1>2, <1>3, <1>4, <1>5, <1>6, <1>7, <1>8, <1>9 DEF Next, List, Move, Delete

\* A step of a process that has published nothing it did not point at.
LEMMA UnharmedStep ==
  ASSUME Unharmed, NEW p \in Proc, UNCHANGED <<broken, current, par>>,
         pc[p] # "point", pc'[p] \notin {"publish", "point"},
         \A q \in Proc : q # p => pc'[q] = pc[q] /\ arg'[q] = arg[q],
         gens' \subseteq gens,
         \/ gates \subseteq gates'
         \/ /\ gens' \subseteq gates'
            /\ \A q \in Proc : q # p => pc[q] \notin {"publish", "point"}
  PROVE  Unharmed'
<1>1. \A g : WasCurrent(g)' <=> WasCurrent(g)
  BY DEF WasCurrent
<1>2. \A g \in gens' : WasCurrent(g) \/ \E q \in Proc : pc'[q] = "point" /\ arg'[q] = g
  BY DEF Unharmed
<1>3. \A q \in Proc : pc'[q] \in {"publish", "point"} => arg'[q] \in gates'
  BY DEF Unharmed
<1>4. broken' = {} /\ gens' \subseteq gates'
  BY DEF Unharmed
<1> QED
  BY <1>1, <1>2, <1>3, <1>4 DEF Unharmed

\* While nothing fails no two published generations have one revision.
LEMMA NoStrays ==
  ASSUME IInv, TreeInv, Unharmed
  PROVE  \A g, h \in gens : rev[g] = rev[h] => g = h
<1> SUFFICES ASSUME NEW g \in gens, NEW h \in gens, rev[g] = rev[h] PROVE g = h
  OBVIOUS
<1>1. /\ gens \subseteq Gen /\ rev \in [Gen -> 0 .. MaxGen] /\ current \in Gen
  BY DEF IInv, TypeOK, DiskTypes, MintTypes
<1>2. PICK top \in Nat : top = rev[current]
  BY <1>1
<1>3. PICK r \in Nat : r = rev[g] /\ r = rev[h]
  BY <1>1
<1>4. \A k \in gens : WasCurrent(k) => rev[k] <= top
  BY <1>1, <1>2 DEF TreeInv, SpineInv
<1>5. \A q \in Proc : pc[q] = "point" => rev[arg[q]] = top + 1 /\ ex[Writer] = q
  BY <1>2, StagedIsNew DEF Staging
<1>6. CASE WasCurrent(g) /\ WasCurrent(h)
  BY <1>1, <1>6 DEF TreeInv, SpineInv
<1>7. CASE r = top + 1
  <2>0. ~(r <= top)
    BY <1>7
  <2>1. PICK q1 \in Proc : pc[q1] = "point" /\ arg[q1] = g
    BY <1>3, <1>4, <2>0 DEF Unharmed
  <2>2. ~WasCurrent(h)
    BY <1>3, <1>4, <2>0
  <2>3. PICK q2 \in Proc : pc[q2] = "point" /\ arg[q2] = h
    BY <2>2 DEF Unharmed
  <2> QED
    BY <1>5, <2>1, <2>3
<1>8. CASE r # top + 1
  <2>1. WasCurrent(g)
    BY <1>3, <1>5, <1>8 DEF Unharmed
  <2>2. WasCurrent(h)
    BY <1>3, <1>5, <1>8 DEF Unharmed
  <2> QED
    BY <1>6, <2>1, <2>2
<1> QED
  BY <1>7, <1>8

\* While nothing fails a saver finds nothing to abort for.
LEMMA SaverUnmoved ==
  ASSUME IInv, TreeInv, LeftInv, faults = 0, Live, Unharmed, NEW p \in Proc, pc[p] = "publish"
  PROVE  Unmoved(p)
<1>1. Valid
  <2>1. Sound
    BY NoStrays, ReadableUnless DEF Unharmed
  <2>2. ex[Writer] = p
    BY DEF IInv, SaveInv, SaveOf, Saving, Staging
  <2>3. ~Shedding
    BY <2>2 DEF Shedding
  <2> QED
    BY <2>1, <2>3 DEF Valid, LeftInv
<1>2. seen[p] = rev[current] /\ par[arg[p]] = current
  BY DEF IInv, SaveInv, SaveOf, Staging
<1> QED
  BY <1>1, <1>2 DEF Unmoved

\* Opening, listing, compacting and moving, when the step fails nothing.
LEMMA PlainUnharmed ==
  ASSUME IInv, Unharmed, NEW p \in Proc, Live',
         \/ Open(p) \/ List(p) \/ CommitView(p) \/ CommitShed(p) \/ PruneLock(p) \/ PruneRetain(p) \/ PruneRetire(p)
         \/ PruneRelease(p) \/ Move(p) \/ DeleteStart(p) \/ DeleteLock(p) \/ DeleteMove(p)
  PROVE  Unharmed'
<1>0. pc \in [Proc -> Labels] /\ arg \in [Proc -> Gen \union {None}]
  BY DEF IInv, TypeOK, ProcTypes
<1>1. CASE Open(p)
  <2>1. /\ pc[p] # "point" /\ pc'[p] \notin {"publish", "point"}
        /\ \A q \in Proc : q # p => pc'[q] = pc[q] /\ arg'[q] = arg[q]
    BY <1>0, <1>1 DEF Open, OpenStart, OpenGate, OpenCheck, OpenRetry, OpenFail, At, Goto
  <2>2. UNCHANGED <<gens, gates, broken, current, par>>
    BY <1>1 DEF Open, OpenStart, OpenGate, OpenCheck, OpenRetry, disk, meta
  <2> QED
    BY <2>1, <2>2, UnharmedStep
<1>2. CASE List(p)
  <2>1. /\ pc[p] # "point" /\ pc'[p] \notin {"publish", "point"}
        /\ \A q \in Proc : q # p => pc'[q] = pc[q] /\ arg'[q] = arg[q]
    BY <1>0, <1>2 DEF List, ListStart, ListSweep, ListRepair, ListFinish, ListShare, Shed, At, Goto
  <2>2. UNCHANGED <<gens, broken, current, par>> /\ gates \subseteq gates'
    BY <1>2 DEF List, ListStart, ListSweep, ListRepair, ListFinish, ListShare, Shed, disk, meta
  <2> QED
    BY <2>1, <2>2, UnharmedStep
<1>3. CASE CommitView(p) \/ CommitShed(p) \/ PruneLock(p) \/ PruneRetain(p) \/ PruneRetire(p) \/ PruneRelease(p)
  <2>1. /\ pc[p] # "point" /\ pc'[p] \notin {"publish", "point"}
        /\ \A q \in Proc : q # p => pc'[q] = pc[q] /\ arg'[q] = arg[q]
    BY <1>0, <1>3 DEF CommitView, CommitShed, Shed, PruneLock, PruneRetain, PruneRetire, PruneRelease, At, Goto
  <2>2. UNCHANGED <<broken, current, par, gates>> /\ gens' \subseteq gens
    BY <1>3 DEF CommitView, CommitShed, Shed, PruneLock, PruneRetain, PruneRetire, PruneRelease, disk, meta
  <2> QED
    BY <2>1, <2>2, UnharmedStep
<1>4. CASE Move(p) \/ DeleteStart(p) \/ DeleteLock(p) \/ DeleteMove(p)
  <2>1. /\ pc[p] # "point" /\ pc'[p] \notin {"publish", "point"}
        /\ \A q \in Proc : q # p => pc'[q] = pc[q] /\ arg'[q] = arg[q]
    BY <1>0, <1>4 DEF Move, MoveStart, MoveLock, MoveRename, DeleteStart, DeleteLock, DeleteMove, ExclusiveStart,
       ExclusiveLock, At, Goto
  <2>2. UNCHANGED <<broken, current, par>> /\ gates \subseteq gates' /\ gens' \subseteq gens
    BY <1>4 DEF Move, MoveStart, MoveLock, MoveRename, DeleteStart, DeleteLock, DeleteMove, ExclusiveStart,
       ExclusiveLock, disk, meta
  <2> QED
    BY <2>1, <2>2, UnharmedStep
<1> QED
  BY <1>1, <1>2, <1>3, <1>4

\* A save, when the step fails nothing.
LEMMA CommitUnharmed ==
  ASSUME IInv, TreeInv, LeftInv, faults = 0, Live, Unharmed, NEW p \in Proc, ~Fault,
         CommitStart(p) \/ CommitGate(p) \/ CommitPublish(p) \/ CommitPoint(p) \/ CommitAbort(p)
  PROVE  Unharmed'
<1>0. /\ pc \in [Proc -> Labels] /\ arg \in [Proc -> Gen \union {None}] /\ gens \subseteq Gen
      /\ par \in [Gen -> Gen \union {None}] /\ minted \in Gen /\ current \in Gen
  BY DEF IInv, TypeOK, ProcTypes, DiskTypes, MintTypes
<1>1. CASE CommitStart(p)
  <2>1. /\ minted + 1 \in Gen /\ par' = [par EXCEPT ![minted + 1] = current]
        /\ UNCHANGED <<gens, gates, broken, current>>
        /\ pc' = [pc EXCEPT ![p] = "stage"] /\ pc[p] = "idle"
        /\ arg' = [arg EXCEPT ![p] = minted + 1]
    BY <1>0, <1>1 DEF CommitStart, Gen, At, Goto, disk
  <2>2. par[minted + 1] = None
    BY <1>0, <2>1 DEF TreeInv, ChildInv, Minted, Gen
  <2>3. \A g \in gens : WasCurrent(g) => WasCurrent(g)'
    BY <1>0, <2>1, <2>2 DEF WasCurrent, Gen, None
  <2>4. \A q \in Proc : q # p => pc'[q] = pc[q] /\ arg'[q] = arg[q]
    BY <1>0, <2>1
  <2>5. pc'[p] = "stage"
    BY <1>0, <2>1
  <2>6. \A q \in Proc : pc'[q] \in {"publish", "point"} => arg'[q] \in gates'
    BY <2>1, <2>4, <2>5 DEF Unharmed
  <2>7. \A g \in gens' : WasCurrent(g)' \/ \E q \in Proc : pc'[q] = "point" /\ arg'[q] = g
    BY <2>1, <2>3, <2>4 DEF Unharmed
  <2> QED
    BY <2>1, <2>6, <2>7 DEF Unharmed
<1>2. ASSUME UNCHANGED <<current, par>> PROVE \A g : WasCurrent(g)' <=> WasCurrent(g)
  BY <1>2 DEF WasCurrent
<1>3. CASE CommitGate(p)
  <2>1. /\ UNCHANGED <<gens, broken, current, par, arg>> /\ gates' = gates \union {arg[p]}
        /\ pc' = [pc EXCEPT ![p] = "publish"] /\ pc[p] = "stage"
    BY <1>3 DEF CommitGate, At, Goto, meta
  <2>2. \A q \in Proc : pc[q] = "point" => pc'[q] = "point"
    BY <1>0, <2>1
  <2>3. \A q \in Proc : pc'[q] \in {"publish", "point"} => arg'[q] \in gates'
    BY <1>0, <2>1 DEF Unharmed
  <2>4. \A g \in gens' : WasCurrent(g)' \/ \E q \in Proc : pc'[q] = "point" /\ arg'[q] = g
    BY <1>2, <2>1, <2>2 DEF Unharmed
  <2>5. broken' = {} /\ gens' \subseteq gates'
    BY <2>1 DEF Unharmed
  <2> QED
    BY <2>3, <2>4, <2>5 DEF Unharmed
<1>4. CASE CommitPublish(p)
  <2>1. /\ UNCHANGED <<gates, broken, current, par, arg>> /\ gens' = gens \union {arg[p]}
        /\ pc' = [pc EXCEPT ![p] = "point"] /\ pc[p] = "publish"
    BY <1>4 DEF CommitPublish, At, Goto, meta
  <2>2. pc'[p] = "point" /\ \A q \in Proc : pc[q] = "point" => pc'[q] = "point"
    BY <1>0, <2>1
  <2>3. \A q \in Proc : pc'[q] \in {"publish", "point"} => arg'[q] \in gates'
    BY <1>0, <2>1 DEF Unharmed
  <2>4. \A g \in gens' : WasCurrent(g)' \/ \E q \in Proc : pc'[q] = "point" /\ arg'[q] = g
    BY <1>2, <2>1, <2>2 DEF Unharmed
  <2>5. broken' = {} /\ gens' \subseteq gates'
    BY <2>1 DEF Unharmed
  <2> QED
    BY <2>3, <2>4, <2>5 DEF Unharmed
<1>5. CASE CommitPoint(p)
  <2>1. /\ UNCHANGED <<gens, gates, broken, par>> /\ current' = arg[p]
        /\ pc' = [pc EXCEPT ![p] = "view"] /\ pc[p] = "point" /\ arg' = [arg EXCEPT ![p] = None]
    BY <1>5 DEF CommitPoint, At, Goto, meta
  <2>2. arg[p] \in Gen /\ par[arg[p]] = current /\ ex[Writer] = p
    BY <2>1, StagedIsNew DEF Staging
  <2>3. \A q \in Proc : q # p => pc[q] \notin {"publish", "point"}
    BY <2>2, WriterAlone DEF Saving, Staging
  <2>4. \A g : WasCurrent(g) => WasCurrent(g)'
    BY <2>1, <2>2 DEF WasCurrent
  <2>6. \A q \in Proc : pc'[q] \notin {"publish", "point"}
    BY <1>0, <2>1, <2>3
  <2>7. \A g \in gens' : WasCurrent(g)'
    <3> SUFFICES ASSUME NEW g \in gens PROVE WasCurrent(g)'
      BY <2>1
    <3>1. CASE g = arg[p]
      BY <2>1, <3>1 DEF WasCurrent
    <3>2. CASE g # arg[p]
      BY <2>3, <2>4, <3>2 DEF Unharmed
    <3> QED
      BY <3>1, <3>2
  <2>8. broken' = {} /\ gens' \subseteq gates'
    BY <2>1 DEF Unharmed
  <2> QED
    BY <2>6, <2>7, <2>8 DEF Unharmed
<1>6. CASE CommitAbort(p)
  <2>1. pc[p] = "publish" /\ ~Unmoved(p)
    BY <1>6 DEF CommitAbort, At
  <2> QED
    BY <2>1, SaverUnmoved
<1> QED
  BY <1>1, <1>3, <1>4, <1>5, <1>6

\* Unlinking the gate of a retired generation.
LEMMA ForgetUnharmed ==
  ASSUME IInv, RetiredInv, Unharmed, NEW p \in Proc, PruneForget(p)
  PROVE  Unharmed'
<1>1. /\ pc[p] = "forget" /\ pc'[p] \in {"release", "idle"}
      /\ \A q \in Proc : q # p => pc'[q] = pc[q] /\ arg'[q] = arg[q]
  BY DEF PruneForget, At, Goto, IInv, TypeOK, ProcTypes
<1>2. UNCHANGED <<gens, broken, current, par>> /\ gates' \in {gates, gates \ {arg[p]}}
  BY DEF PruneForget, meta
<1>3. arg[p] \notin gens
  BY <1>1 DEF RetiredInv, RetiredOf
<1>4. ex[Writer] = p
  BY <1>1 DEF IInv, SaveInv, SaveOf, Saving, Pruning
<1>5. \A q \in Proc : q # p => pc[q] \notin {"publish", "point"}
  BY <1>4, WriterAlone DEF Saving, Staging
<1>6. gens' \subseteq gates'
  BY <1>2, <1>3 DEF Unharmed
<1> QED
  BY <1>1, <1>2, <1>5, <1>6, UnharmedStep

\* Nothing harms a session while nothing fails.
LEMMA NextUnharmed ==
  IInv /\ TreeInv /\ LeftInv /\ RetiredInv /\ UnharmedInv /\ [Next]_vars => UnharmedInv'
<1> SUFFICES ASSUME IInv, TreeInv, LeftInv, RetiredInv, UnharmedInv, [Next]_vars, Live', faults' = 0 PROVE Unharmed'
  BY DEF UnharmedInv
<1>1. faults \in Nat
  BY DEF IInv, TypeOK
<1>2. ~Fault
  BY <1>1 DEF Fault
<1>3. Live
  BY LiveBefore
<1>4. faults = 0
  <2>1. faults' = faults \/ Fault
    <3>1. ASSUME NEW p \in Proc, Open(p) \/ CloseLease(p) \/ List(p) PROVE faults' = faults \/ Fault
      BY <3>1 DEF Open, OpenStart, OpenGate, OpenCheck, OpenRetry, CloseLease, List, ListStart, ListSweep,
         ListRepair, ListFinish, ListShare, Shed, NoFault
    <3>2. ASSUME NEW p \in Proc, Commit(p) \/ Prune(p) PROVE faults' = faults \/ Fault
      BY <3>2 DEF Commit, CommitStart, CommitGate, CommitPublish, CommitPoint, CommitAbort, CommitView, CommitShed, Shed,
         Prune, PruneLock, PruneRetain, PruneRetire, PruneRelease, PruneForget, NoFault
    <3>3. ASSUME NEW p \in Proc, Move(p) \/ Delete(p) \/ Crash(p) PROVE faults' = faults \/ Fault
      BY <3>3 DEF Move, MoveStart, MoveLock, MoveRename, Delete, DeleteStart, DeleteLock, DeleteMove, DeleteClean,
         UnlinkGates, ExclusiveStart, ExclusiveLock, Crash, NoFault
    <3>4. ASSUME NEW g \in Gen, LoseGate(g) PROVE faults' = faults \/ Fault
      BY <3>4 DEF LoseGate
    <3>5. UNCHANGED vars => faults' = faults
      BY DEF vars
    <3> QED
      BY <3>1, <3>2, <3>3, <3>4, <3>5 DEF Next
  <2> QED
    BY <1>2, <2>1
<1>5. Unharmed
  BY <1>3, <1>4 DEF UnharmedInv
<1>6. ASSUME NEW p \in Proc, DeleteClean(p) \/ UnlinkGates(p) PROVE FALSE
  BY <1>3, <1>6 DEF DeleteClean, UnlinkGates, At, IInv, ExclusiveInv, ExclusiveOf, RetiredInv, RetiredOf
<1>7. ASSUME NEW p \in Proc, Crash(p) PROVE FALSE
  BY <1>2, <1>7 DEF Crash
<1>8. ASSUME NEW g \in Gen, LoseGate(g) PROVE FALSE
  BY <1>2, <1>8 DEF LoseGate
<1>9. ASSUME UNCHANGED <<gens, broken, current, par, gates, pc, arg>> PROVE Unharmed'
  BY <1>5, <1>9 DEF Unharmed, WasCurrent
<1>10. ASSUME NEW p \in Proc, CloseLease(p) PROVE UNCHANGED <<gens, broken, current, par, gates, pc, arg>>
  BY <1>10 DEF CloseLease, disk, meta
<1>11. UNCHANGED vars => UNCHANGED <<gens, broken, current, par, gates, pc, arg>>
  BY DEF vars, disk, meta, local
<1>12. ASSUME NEW p \in Proc, Commit(p) PROVE Unharmed'
  BY <1>2, <1>3, <1>4, <1>5, <1>12, CommitUnharmed, PlainUnharmed DEF Commit
<1>13. ASSUME NEW p \in Proc, Prune(p) PROVE Unharmed'
  BY <1>5, <1>13, PlainUnharmed, ForgetUnharmed DEF Prune
<1>14. ASSUME NEW p \in Proc, Open(p) \/ List(p) \/ Move(p) PROVE Unharmed'
  BY <1>5, <1>14, PlainUnharmed
<1>15. ASSUME NEW p \in Proc, Delete(p) PROVE Unharmed'
  BY <1>5, <1>6, <1>15, PlainUnharmed DEF Delete
<1> QED
  BY <1>7, <1>8, <1>9, <1>10, <1>11, <1>12, <1>13, <1>14, <1>15 DEF Next

\* A session just created is unharmed.
LEMMA InitUnharmed == Init => RetiredInv /\ UnharmedInv
<1> SUFFICES ASSUME Init PROVE RetiredInv /\ UnharmedInv
  OBVIOUS
<1>1. \A p \in Proc : pc[p] = "idle" /\ retired[p] = {}
  BY DEF Init
<1>2. RetiredInv
  BY <1>1 DEF RetiredInv, RetiredOf, Retiring, Pruning
<1>3. Unharmed
  BY <1>1 DEF Init, Unharmed, WasCurrent
<1> QED
  BY <1>2, <1>3 DEF UnharmedInv

\* While nothing fails, a session that is not deleted can be read, whatever saves,
\* compactions, leases and moves do meanwhile, but for the moments in which somebody removes
\* an emptied heavy folder; and its current generation can be locked.
THEOREM ReadableWhileNothingFails == Spec => []CurrentReadable
<1>1. Spec => [](RetiredInv /\ UnharmedInv)
  <2>1. IInv /\ TreeInv /\ LeftInv /\ (RetiredInv /\ UnharmedInv) /\ [Next]_vars => (RetiredInv /\ UnharmedInv)'
    BY NextRetired, NextUnharmed
  <2> QED
    BY <2>1, InitUnharmed, Invariance, TreeHolds, LeftHolds, PTL DEF Spec
<1>2. IInv /\ TreeInv /\ LeftInv /\ UnharmedInv => CurrentReadable
  <2> SUFFICES ASSUME IInv, TreeInv, LeftInv, UnharmedInv, Live, faults = 0
               PROVE  Sound /\ current \in gates /\ (Valid \/ Shedding)
    BY DEF CurrentReadable
  <2>1. Unharmed
    BY DEF UnharmedInv
  <2>2. Sound
    BY <2>1, NoStrays, ReadableUnless DEF Unharmed
  <2>3. current \in gates
    BY <2>1 DEF Unharmed, IInv, CurrentPresent
  <2>4. Valid \/ Shedding
    BY <2>2 DEF Valid, LeftInv
  <2> QED
    BY <2>2, <2>3, <2>4
<1> QED
  BY <1>1, <1>2, Invariance, TreeHolds, LeftHolds, PTL

-----------------------------------------------------------------------------
(* The folders of exams *)
USE ListingAssumption

\* What every step keeps of the folders and the residue, and what the last answer says.
ListingInv == IsFolders(folders) /\ IsResidue(residue) /\ ListTellsAll

-----------------------------------------------------------------------------
\* Two different members make a set larger than one; one that is not larger is a single.
LEMMA MoreThanOne ==
  ASSUME NEW S, IsFiniteSet(S), NEW a \in S, NEW b \in S, a # b
  PROVE  Cardinality(S) > 1
<1>1. {a, b} \in SUBSET S
  OBVIOUS
<1>2. IsFiniteSet({a}) /\ Cardinality({a}) = 1
  BY FS_Singleton
<1>3. {a, b} = {a} \cup {b} /\ b \notin {a}
  OBVIOUS
<1>4. Cardinality({a} \cup {b}) = 2
  <2>1. Cardinality({a} \cup {b}) = IF b \in {a} THEN Cardinality({a}) ELSE Cardinality({a}) + 1
    BY <1>2, FS_AddElement
  <2> QED BY <1>2, <1>3, <2>1
<1>5. Cardinality({a, b}) <= Cardinality(S)
  BY <1>1, FS_Subset
<1>6. Cardinality(S) \in Nat
  BY FS_CardinalityType
<1> QED BY <1>3, <1>4, <1>5, <1>6

LEMMA OnlyOne ==
  ASSUME NEW S, IsFiniteSet(S), NEW a \in S, ~(Cardinality(S) > 1)
  PROVE  S = {a} /\ Cardinality(S) = 1
<1>1. ASSUME NEW b \in S, b # a PROVE FALSE
  BY <1>1, MoreThanOne
<1>2. S = {a}
  BY <1>1
<1> QED BY <1>2, FS_Singleton

-----------------------------------------------------------------------------
\* The folders of an exam are finitely many, of its places.
LEMMA FoldersFinite ==
  ASSUME NEW fs, IsFolders(fs), NEW id, NEW places
  PROVE  /\ IsFiniteSet(FoldersOf(fs, id, places))
         /\ FoldersOf(fs, id, places) \subseteq DOMAIN fs
<1>1. FoldersOf(fs, id, places) \in SUBSET DOMAIN fs
  BY DEF FoldersOf
<1> QED BY <1>1, FS_Subset DEF IsFolders

LEMMA FolderIsPair ==
  ASSUME NEW fs, IsFolders(fs), NEW k \in DOMAIN fs
  PROVE  /\ k \in Places \X Names /\ k # Missing /\ k # Ambiguous
         /\ fs[k] \in Folder
BY DEF IsFolders

\* What is chosen among folders is one of them: the only one, or the only one that kept
\* its name.
LEMMA ChosenIs ==
  ASSUME NEW fs, IsFolders(fs), NEW found \in SUBSET DOMAIN fs, NEW k, k = Chosen(fs, found),
         k # Missing, k # Ambiguous
  PROVE  k \in found /\ (found = {k} \/ (KeepsName(fs, k) /\ {j \in found : KeepsName(fs, j)} = {k}))
<1> DEFINE kept == {j \in found : KeepsName(fs, j)}
<1>1. IsFiniteSet(found) /\ Cardinality(found) \in Nat
  BY FS_Subset, FS_CardinalityType DEF IsFolders
<1>2. found # {}
  BY DEF Chosen
<1>3. Cardinality(found) # 0
  BY <1>1, <1>2, FS_EmptySet
<1>4. CASE Cardinality(found) = 1
  <2>1. PICK x : found = {x}
    BY <1>1, <1>4, FS_Singleton
  <2>2. k = CHOOSE j \in found : TRUE
    BY <1>2, <1>4 DEF Chosen
  <2> QED BY <2>1, <2>2
<1>5. CASE Cardinality(found) > 1
  <2>1. k = IF Cardinality(kept) = 1 THEN CHOOSE j \in kept : TRUE ELSE Ambiguous
    BY <1>2, <1>5 DEF Chosen
  <2>2. IsFiniteSet(kept)
    BY <1>1, FS_Subset
  <2>3. PICK x : kept = {x}
    BY <2>1, <2>2, FS_Singleton
  <2>4. k = x
    BY <2>1, <2>2, <2>3, FS_Singleton
  <2> QED BY <2>3, <2>4
<1> QED BY <1>1, <1>3, <1>4, <1>5

\* A single folder is chosen, and so is one of several that alone kept its name.
LEMMA ChosenOnly ==
  ASSUME NEW fs, NEW k
  PROVE  Chosen(fs, {k}) = k
<1>1. Cardinality({k}) = 1
  BY FS_Singleton
<1> HIDE DEF KeepsName
<1> QED BY <1>1 DEF Chosen

LEMMA ChosenKept ==
  ASSUME NEW fs, IsFolders(fs), NEW found \in SUBSET DOMAIN fs, NEW k \in found, KeepsName(fs, k),
         Chosen(fs, found) # Ambiguous
  PROVE  Chosen(fs, found) = k
<1>1. IsFiniteSet(found)
  BY FS_Subset DEF IsFolders
<1>2. CASE Cardinality(found) > 1
  <2> DEFINE kept == {j \in found : KeepsName(fs, j)}
  <2>1. Chosen(fs, found) = IF Cardinality(kept) = 1 THEN CHOOSE j \in kept : TRUE ELSE Ambiguous
    <3>1. Cardinality(found) # 1 /\ found # {}
      BY <1>1, <1>2, FS_CardinalityType
    <3> QED BY <1>2, <3>1 DEF Chosen
  <2>2. IsFiniteSet(kept) /\ k \in kept
    BY <1>1, FS_Subset
  <2>3. Cardinality(kept) = 1
    BY <2>1
  <2>4. kept = {k}
    <3>1. PICK x : kept = {x}
      BY <2>2, <2>3, FS_Singleton
    <3> QED BY <2>2, <3>1
  <2> QED BY <2>1, <2>3, <2>4
<1>3. CASE ~(Cardinality(found) > 1)
  BY <1>1, <1>3, OnlyOne, ChosenOnly
<1> QED BY <1>2, <1>3

-----------------------------------------------------------------------------
(* Types *)
LEMMA WithFolders ==
  ASSUME NEW fs, IsFolders(fs), NEW k \in Places \X Names, NEW folder \in Folder
  PROVE  IsFolders(With(fs, k, folder))
<1> DEFINE now == With(fs, k, folder)
<1>1. DOMAIN now = DOMAIN fs \union {k}
  BY DEF With
<1>2. IsFiniteSet(DOMAIN now)
  BY <1>1, FS_AddElement DEF IsFolders
<1>3. now \in [DOMAIN now -> Folder]
  BY DEF With, IsFolders
<1> QED BY <1>1, <1>2, <1>3 DEF IsFolders

LEMMA WithoutFolders ==
  ASSUME NEW fs, IsFolders(fs), NEW k
  PROVE  IsFolders(Without(fs, k))
<1> DEFINE now == Without(fs, k)
<1>1. DOMAIN now = DOMAIN fs \ {k}
  BY DEF Without, Restrict
<1>2. IsFiniteSet(DOMAIN now)
  BY <1>1, FS_Subset DEF IsFolders
<1>3. now \in [DOMAIN now -> Folder]
  BY DEF Without, Restrict, IsFolders
<1> QED BY <1>1, <1>2, <1>3 DEF IsFolders

\* Changes within folders.
LEMMA ChangedFolders ==
  ASSUME NEW fs, IsFolders(fs), NEW now, DOMAIN now = DOMAIN fs, now = [k \in DOMAIN fs |-> now[k]],
         \A k \in DOMAIN fs : now[k] \in Folder
  PROVE  IsFolders(now)
<1>1. now \in [DOMAIN now -> Folder]
  OBVIOUS
<1> QED BY <1>1 DEF IsFolders

LEMMA RenamedFolders ==
  ASSUME IsFolders(folders), NEW shelf
  PROVE  LET now == Renamed(folders, shelf)
         IN /\ IsFolders(now) /\ DOMAIN now = DOMAIN folders
            /\ \A k \in DOMAIN folders : /\ now[k].id = folders[k].id /\ now[k].state = folders[k].state
                                         /\ now[k].recorded \in {folders[k].recorded, k[2]}
<1> DEFINE now == Renamed(folders, shelf)
<1>1. DOMAIN now = DOMAIN folders /\ now = [k \in DOMAIN folders |-> now[k]]
  BY DEF Renamed
<1>2. ASSUME NEW k \in DOMAIN folders
      PROVE  /\ now[k] \in Folder /\ now[k].id = folders[k].id /\ now[k].state = folders[k].state
             /\ now[k].recorded \in {folders[k].recorded, k[2]}
  <2>1. folders[k] \in Folder /\ k[2] \in Names
    BY FolderIsPair
  <2>2. now[k] = [folders[k] EXCEPT !.recorded = k[2]] \/ now[k] = folders[k]
    BY DEF Renamed
  <2> QED BY <2>1, <2>2 DEF Folder
<1>3. IsFolders(now)
  <2> HIDE DEF now
  <2> QED BY <1>1, <1>2, ChangedFolders
<1> QED BY <1>1, <1>2, <1>3

LEMMA RecoveredFolders ==
  ASSUME IsFolders(folders), NEW cleanup
  PROVE  LET now == AfterRecovery(folders, cleanup)
         IN /\ IsFolders(now) /\ DOMAIN now = DOMAIN folders
            /\ \A k \in DOMAIN folders :
                 /\ now[k].id = folders[k].id /\ now[k].state = folders[k].state
                 /\ now[k].recorded = folders[k].recorded
                 /\ cleanup /\ k \in Owned(folders) => now[k].staged = FALSE
<1> DEFINE now == AfterRecovery(folders, cleanup)
<1>1. DOMAIN now = DOMAIN folders /\ now = [k \in DOMAIN folders |-> now[k]]
  BY DEF AfterRecovery
<1>2. ASSUME NEW k \in DOMAIN folders
      PROVE  /\ now[k] \in Folder /\ now[k].id = folders[k].id /\ now[k].state = folders[k].state
             /\ now[k].recorded = folders[k].recorded
             /\ cleanup /\ k \in Owned(folders) => now[k].staged = FALSE
  <2>1. folders[k] \in Folder
    BY FolderIsPair
  <2>2. now[k] = IF cleanup /\ k \in Owned(folders) THEN [folders[k] EXCEPT !.staged = FALSE] ELSE folders[k]
    BY DEF AfterRecovery
  <2>3. CASE cleanup /\ k \in Owned(folders)
    <3>1. now[k] = [folders[k] EXCEPT !.staged = FALSE]
      BY <2>2, <2>3
    <3> QED BY <2>1, <3>1 DEF Folder
  <2>4. CASE ~(cleanup /\ k \in Owned(folders))
    BY <2>1, <2>2, <2>4
  <2> QED BY <2>3, <2>4
<1>3. IsFolders(now)
  <2> HIDE DEF now
  <2> QED BY <1>1, <1>2, ChangedFolders
<1> QED BY <1>1, <1>2, <1>3

-----------------------------------------------------------------------------
(* The list *)
\* The folders of an exam, their names kept and the choice among them depend only on the
\* IDs and the recorded names.
LEMMA SameFolders ==
  ASSUME NEW fs, NEW now, DOMAIN now = DOMAIN fs, \A k \in DOMAIN fs : now[k].id = fs[k].id
  PROVE  \A id, places : FoldersOf(now, id, places) = FoldersOf(fs, id, places)
BY DEF FoldersOf

\* A place has one folder of each exam in its list.
LEMMA ListedOnce ==
  ASSUME NEW fs, IsFolders(fs), NEW shelf \in Places, NEW k \in SessionFolders(fs, shelf)
  PROVE  /\ k \in DOMAIN fs /\ fs[k].id \in Exams /\ k[1] = shelf
         /\ k \in FoldersOf(fs, fs[k].id, {shelf})
         /\ k = Locate(fs, fs[k].id, {shelf})
         /\ FoldersOf(fs, fs[k].id, {shelf}) = {k} \/ KeepsName(fs, k)
<1>1. PICK id \in Exams : k = Locate(fs, id, {shelf})
  BY DEF SessionFolders
<1>2. k # Missing /\ k # Ambiguous
  BY DEF SessionFolders
<1> DEFINE found == FoldersOf(fs, id, {shelf})
<1>3. found \in SUBSET DOMAIN fs
  BY FoldersFinite
<1>4. k = Chosen(fs, found)
  BY <1>1 DEF Locate
<1>5. k \in found /\ (found = {k} \/ KeepsName(fs, k))
  <2> HIDE DEF found
  <2> QED BY <1>2, <1>3, <1>4, ChosenIs
<1>6. k \in DOMAIN fs /\ fs[k].id = id /\ k[1] = shelf
  BY <1>5 DEF FoldersOf
<1> QED BY <1>1, <1>5, <1>6

\* All that is listed, at once.
LEMMA ListedAll ==
  ASSUME NEW fs, IsFolders(fs), NEW shelf \in Places
  PROVE  \A k \in SessionFolders(fs, shelf) :
           /\ k \in DOMAIN fs /\ fs[k].id \in Exams /\ k[1] = shelf
           /\ k \in FoldersOf(fs, fs[k].id, {shelf})
           /\ k = Locate(fs, fs[k].id, {shelf})
<1> TAKE k \in SessionFolders(fs, shelf)
<1>1. /\ k \in DOMAIN fs /\ fs[k].id \in Exams /\ k[1] = shelf
      /\ k \in FoldersOf(fs, fs[k].id, {shelf})
      /\ k = Locate(fs, fs[k].id, {shelf})
      /\ FoldersOf(fs, fs[k].id, {shelf}) = {k} \/ KeepsName(fs, k)
  BY ListedOnce, Zenon
<1> QED
  BY <1>1

\* The converse for a single folder.
LEMMA SingleListed ==
  ASSUME NEW fs, IsFolders(fs), NEW shelf \in Places, NEW k \in DOMAIN fs, fs[k].id \in Exams,
         FoldersOf(fs, fs[k].id, {shelf}) = {k}
  PROVE  k \in SessionFolders(fs, shelf)
<1>1. Locate(fs, fs[k].id, {shelf}) = k
  BY ChosenOnly DEF Locate
<1>2. k # Missing /\ k # Ambiguous
  BY FolderIsPair
<1> QED BY <1>1, <1>2 DEF SessionFolders

\* A folder that is opened after its list was read is what every later call finds.
LEMMA OpenedIsReached ==
  ASSUME IsFolders(folders), NEW shelf \in Places, writable,
         NEW k \in SessionFolders(Renamed(folders, shelf), shelf), Opens(Renamed(folders, shelf), k)
  PROVE  LET now == Renamed(folders, shelf)
         IN Locate(now, now[k].id, Places) = k
<1> DEFINE now == Renamed(folders, shelf)
           id == now[k].id
<1>1. /\ IsFolders(now) /\ DOMAIN now = DOMAIN folders
      /\ \A j \in DOMAIN folders : now[j].id = folders[j].id /\ now[j].state = folders[j].state
  BY RenamedFolders
<1>2. /\ k \in DOMAIN now /\ id \in Exams /\ k[1] = shelf /\ k \in FoldersOf(now, id, {shelf})
      /\ FoldersOf(now, id, {shelf}) = {k} \/ KeepsName(now, k)
  <2>1. k \in SessionFolders(now, shelf) /\ IsFolders(now)
    BY <1>1
  <2>2. /\ k \in DOMAIN now /\ now[k].id \in Exams /\ k[1] = shelf
        /\ k \in FoldersOf(now, now[k].id, {shelf})
        /\ FoldersOf(now, now[k].id, {shelf}) = {k} \/ KeepsName(now, k)
    <3> HIDE DEF now, id
    <3> QED BY <2>1, ListedOnce
  <2> QED BY <2>2
<1>3. /\ held[id] # "write" /\ now[k].state = "good" /\ Reached(now, id, k[1]) = k
  BY DEF Opens
<1>4. k # Missing /\ k # Ambiguous /\ k \in Places \X Names
  <2> HIDE DEF now
  <2> QED BY <1>1, <1>2, FolderIsPair
<1>5. Locate(now, id, Places) # Ambiguous
  BY <1>3, <1>4 DEF Reached
<1>6. KeepsName(now, k)
  <2> SUFFICES ASSUME ~KeepsName(now, k) PROVE FALSE
    OBVIOUS
  <2>1. FoldersOf(folders, id, {shelf}) = {k}
    <3>1. FoldersOf(now, id, {shelf}) = {k}
      BY <1>2
    <3>2. FoldersOf(now, id, {shelf}) = FoldersOf(folders, id, {shelf})
      <4> HIDE DEF now
      <4> QED BY <1>1, SameFolders
    <3> QED BY <3>1, <3>2
  <2>2. k \in DOMAIN folders /\ folders[k].id = id /\ folders[k].state = "good"
    BY <1>1, <1>2, <1>3
  <2>3. k \in SessionFolders(folders, shelf)
    <3> HIDE DEF now
    <3> QED BY <1>2, <2>1, <2>2, SingleListed
  <2>4. CASE KeepsName(folders, k)
    <3>1. now[k] = folders[k]
      BY <2>2, <2>4 DEF Renamed
    <3> QED BY <2>4, <3>1 DEF KeepsName
  <2>5. CASE ~KeepsName(folders, k)
    <3>1. now[k] = [folders[k] EXCEPT !.recorded = k[2]]
      BY <1>3, <2>2, <2>3, <2>5 DEF Renamed
    <3>2. folders[k] \in Folder
      BY <2>2, FolderIsPair
    <3>3. now[k].recorded = k[2]
      BY <3>1, <3>2 DEF Folder
    <3> QED BY <3>3 DEF KeepsName
  <2> QED BY <2>4, <2>5
<1>7. FoldersOf(now, id, Places) \in SUBSET DOMAIN now /\ k \in FoldersOf(now, id, Places)
  BY <1>2, <1>4 DEF FoldersOf
<1>8. Locate(now, id, Places) = k
  <2> HIDE DEF now
  <2> QED BY <1>1, <1>5, <1>6, <1>7, ChosenKept DEF Locate
<1> QED BY <1>8

\* The list that was just read.
LEMMA ListIsRead ==
  ASSUME ListingInv, NEW shelf \in Places, ReadList(shelf)
  PROVE  ListHolds(listed)'
<1> DEFINE now == Renamed(folders, shelf)
           chosen == SessionFolders(now, shelf)
           opened == {k \in chosen : Opens(now, k)}
           shown == {k \in opened : Projects(now, k)}
           mine == {k \in DOMAIN now : k[1] = shelf /\ now[k].id # Missing}
           list == Listing(now, shelf)
<1>1. folders' = now /\ listed' = list /\ held' = held /\ writable' = writable
  BY DEF ReadList
<1>2. IsFolders(folders)
  BY DEF ListingInv
<1>3. IsFolders(now)
  BY <1>2, RenamedFolders
<1>4. \A k \in chosen : /\ k \in DOMAIN now /\ now[k].id \in Exams /\ k[1] = shelf
                        /\ k \in FoldersOf(now, now[k].id, {shelf})
                        /\ k = Locate(now, now[k].id, {shelf})
  BY <1>3, ListedAll
<1>5. list = [place |-> shelf, entries |-> {Entry(now, k) : k \in shown}, named |-> mine \ opened,
              unnamed |-> Cardinality(opened \ shown)]
  BY DEF Listing
<1>6. writable => \A k \in opened : Locate(now, now[k].id, Places) = k
  BY <1>2, OpenedIsReached
<1> HIDE DEF now, list
<1>7. list.place = shelf /\ list.named = mine \ opened /\ list.unnamed = Cardinality(opened \ shown)
      /\ list.entries = {Entry(now, k) : k \in shown}
  <2> HIDE DEF mine, opened, shown
  <2> QED BY <1>5
<1>8. \A k \in shown : /\ Entry(now, k).folder = k /\ Entry(now, k).id = now[k].id
                       /\ Entry(now, k).name = k[2] \/ k = <<"trash", now[k].id>>
  BY DEF Entry
<1>9. {e.folder : e \in list.entries} = shown
  <2> HIDE DEF shown
  <2> QED BY <1>7, <1>8
<1>10. Cardinality(mine \ (shown \union (mine \ opened))) <= Cardinality(opened \ shown)
  <2>1. IsFiniteSet(opened \ shown)
    <3>1. opened \ shown \in SUBSET DOMAIN now
      BY <1>4
    <3> QED BY <1>3, <3>1, FS_Subset DEF IsFolders
  <2>2. mine \ (shown \union (mine \ opened)) \in SUBSET (opened \ shown)
    <3> HIDE DEF mine, opened, shown
    <3> QED OBVIOUS
  <2> HIDE DEF mine, opened, shown
  <2> QED BY <2>1, <2>2, FS_Subset
<1>11. \A e, f \in list.entries : e.id = f.id => e = f
  <2>1. SUFFICES ASSUME NEW k \in shown, NEW j \in shown, now[k].id = now[j].id PROVE k = j
    <3> HIDE DEF shown
    <3> QED BY <1>7, <1>8
  <2>2. k \in chosen /\ j \in chosen
    OBVIOUS
  <2> QED BY <1>4, <2>1, <2>2
<1>12. ASSUME NEW e \in list.entries
       PROVE  /\ e.name = e.folder[2] \/ e.folder = <<"trash", e.id>>
              /\ e.folder \in FoldersOf(now, e.id, {shelf})
              /\ writable => Locate(now, e.id, Places) = e.folder
  <2>1. PICK k \in shown : e = Entry(now, k)
    <3> HIDE DEF shown
    <3> QED BY <1>7
  <2>2. e.folder = k /\ e.id = now[k].id /\ (e.name = k[2] \/ k = <<"trash", now[k].id>>)
    <3> HIDE DEF shown
    <3> QED BY <1>8, <2>1
  <2>3. k \in opened /\ k \in chosen
    OBVIOUS
  <2>4. k \in FoldersOf(now, now[k].id, {shelf})
    BY <1>4, <2>3
  <2> QED BY <1>6, <2>2, <2>3, <2>4
<1>13. mine = {k \in DOMAIN now : k[1] = list.place /\ now[k].id # Missing}
  BY <1>7
<1>14. Cardinality({k \in DOMAIN now : k[1] = list.place /\ now[k].id # Missing}
                   \ ({e.folder : e \in list.entries} \union list.named)) <= list.unnamed
  <2> HIDE DEF mine, opened, shown
  <2> QED BY <1>7, <1>9, <1>10, <1>13
<1> QED BY <1>1, <1>7, <1>11, <1>12, <1>14 DEF ListHolds

-----------------------------------------------------------------------------
(* The recovery *)
\* Every folder is told of or can be used where it is.
LEMMA RecoveryTells ==
  ASSUME IsFolders(folders), NEW cleanup, NEW k \in DOMAIN folders
  PROVE  \/ \E i \in Recovery(folders, cleanup).quarantined :
              i.where \in {k, <<"exam", folders[k].id>>} \union FoldersOf(folders, folders[k].id, Places)
         \/ Reached(folders, folders[k].id, k[1]) = k /\ folders[k].state = "good"
<1> DEFINE id == folders[k].id
           all == Recovery(folders, cleanup).quarantined
           owned == {j \in Owned(folders) : folders[j].id = id}
<1>1. \A j \in DOMAIN folders : RecoverSession(folders, j) \subseteq all
  BY DEF Recovery
<1>2. \A e \in Exams : Cardinality({j \in Owned(folders) : folders[j].id = e}) > 1
         => Issue("LOCATION_AMBIGUOUS", <<"exam", e>>) \in all
  BY DEF Recovery
<1> SUFFICES \/ \E i \in all : i.where \in {k, <<"exam", id>>} \union FoldersOf(folders, id, Places)
             \/ Reached(folders, id, k[1]) = k /\ folders[k].state = "good"
  BY Zenon
<1> HIDE DEF all
<1>3. \A kind, where : Issue(kind, where).where = where
  BY DEF Issue
<1>4. ASSUME NEW j \in DOMAIN folders, ~Usable(folders, j) PROVE \E i \in all : i.where = j
  BY <1>1, <1>3, <1>4 DEF RecoverSession
<1>5. CASE ~Usable(folders, k)
  BY <1>4, <1>5
<1>6. CASE Usable(folders, k) /\ held[id] # "no"
  <2>1. RecoverSession(folders, k) = {Issue("RECOVERY_BLOCKED", k)}
    BY <1>6 DEF RecoverSession
  <2> QED BY <1>1, <1>3, <2>1
<1>7. CASE Usable(folders, k) /\ held[id] = "no" /\ Cardinality(owned) > 1
  <2>1. id \in Exams
    BY <1>7 DEF Usable
  <2> QED BY <1>2, <1>3, <1>7, <2>1
<1>8. CASE Usable(folders, k) /\ held[id] = "no" /\ ~(Cardinality(owned) > 1)
  <2>1. IsFiniteSet(owned) /\ k \in owned
    <3>1. owned \in SUBSET DOMAIN folders
      BY DEF Owned
    <3>2. k \in owned
      BY <1>8 DEF Owned
    <3> QED BY <3>1, <3>2, FS_Subset DEF IsFolders
  <2>2. owned = {k}
    <3> HIDE DEF owned
    <3> QED BY <1>8, <2>1, OnlyOne
  <2>3. k \in Places \X Names
    BY FolderIsPair
  <2>4. CASE \E j \in FoldersOf(folders, id, Places) : j # k
    <3>1. PICK j \in FoldersOf(folders, id, Places) : j # k
      BY <2>4
    <3>2. j \in DOMAIN folders /\ folders[j].id = id
      BY DEF FoldersOf
    <3>3. ~Usable(folders, j)
      BY <1>8, <2>2, <3>1, <3>2 DEF Owned
    <3> QED BY <1>4, <3>2, <3>3
  <2>5. CASE ~\E j \in FoldersOf(folders, id, Places) : j # k
    <3>1. k \in FoldersOf(folders, id, Places) /\ k \in FoldersOf(folders, id, {k[1]})
      BY <2>3 DEF FoldersOf
    <3>2. FoldersOf(folders, id, {k[1]}) \subseteq FoldersOf(folders, id, Places)
      BY <2>3 DEF FoldersOf
    <3>3. FoldersOf(folders, id, Places) = {k} /\ FoldersOf(folders, id, {k[1]}) = {k}
      BY <2>5, <3>1, <3>2
    <3>4. Locate(folders, id, Places) = k /\ Locate(folders, id, {k[1]}) = k
      BY <3>3, ChosenOnly DEF Locate
    <3>5. k # Ambiguous
      BY FolderIsPair
    <3>6. Reached(folders, id, k[1]) = k
      BY <3>4, <3>5 DEF Reached
    <3> QED BY <1>8, <3>6 DEF Usable
  <2> QED BY <2>4, <2>5
<1> QED BY <1>5, <1>6, <1>7, <1>8

\* What a recovery that clears away has told of is not there any more.
LEMMA NothingLeft ==
  ASSUME ListingInv, RecoverSessions(TRUE)
  PROVE  (Recovery(folders, TRUE).cleaned)' = {}
<1> DEFINE done == {t \in Tombs : Finishable(t)}
<1>1. folders' = AfterRecovery(folders, TRUE) /\ residue' = ResidueLeft(TRUE) /\ held' = held
  BY DEF RecoverSessions
<1>2. /\ DOMAIN folders' = DOMAIN folders
      /\ \A k \in DOMAIN folders : /\ folders'[k].id = folders[k].id /\ folders'[k].state = folders[k].state
                                   /\ k \in Owned(folders) => folders'[k].staged = FALSE
  <2>1. IsFolders(folders)
    BY DEF ListingInv
  <2> QED BY <1>1, <2>1, RecoveredFolders
<1>3. DOMAIN residue = {"staging", "reservations", "tombs", "lockdirs", "locks"}
  BY DEF ListingInv, IsResidue
<1>4. /\ residue'.staging = FALSE
      /\ residue'.tombs = Restrict(residue.tombs, Tombs \ done)
      /\ residue'.locks = residue.locks \ done
  <2>1. residue' = [residue EXCEPT !.staging = FALSE, !.tombs = Restrict(@, Tombs \ done), !.locks = @ \ done]
    BY <1>1 DEF ResidueLeft
  <2> HIDE DEF done
  <2> QED BY <1>3, <2>1
<1>5. ASSUME NEW k \in Owned(folders)' PROVE folders'[k].staged = FALSE
  <2>1. k \in DOMAIN folders' /\ folders'[k].state = "good" /\ folders'[k].id \in Exams /\ held'[folders'[k].id] = "no"
    BY DEF Owned, Usable
  <2>2. k \in DOMAIN folders
    BY <1>2, <2>1
  <2>3. folders'[k].id = folders[k].id /\ folders'[k].state = folders[k].state
    BY <1>2, <2>2
  <2>4. folders[k].state = "good" /\ folders[k].id \in Exams /\ held[folders[k].id] = "no"
    BY <1>1, <2>1, <2>3
  <2>5. k \in Owned(folders)
    BY <2>2, <2>4 DEF Owned, Usable
  <2> QED BY <1>2, <2>2, <2>5
<1>6. Tombs' = Tombs \ done /\ \A t \in Tombs \ done : residue'.tombs[t] = residue.tombs[t]
  <2>1. Tombs' = DOMAIN residue'.tombs
    BY DEF Tombs
  <2> HIDE DEF done
  <2> QED BY <1>4, <2>1 DEF Restrict
<1>7. ASSUME NEW t \in Tombs', Finishable(t)' PROVE FALSE
  <2>1. residue'.tombs[t] = "readable" /\ held[t] = "no" /\ t \in residue'.locks
    BY <1>1, <1>7 DEF Finishable
  <2>2. t \in Tombs \ done /\ residue.tombs[t] = "readable"
    BY <1>6, <1>7, <2>1
  <2>3. t \in residue.locks
    BY <1>4, <2>1
  <2>4. Finishable(t)
    BY <2>1, <2>2, <2>3 DEF Finishable
  <2> QED BY <2>2, <2>4
<1>8. Leftovers(folders)' = {}
  <2>1. Leftovers(folders)' = {Issue("STAGING_ORPHAN", k) : k \in {j \in Owned(folders)' : folders'[j].staged}}
                            \union {Issue("STAGING_ORPHAN", <<"root", "">>) : x \in {s \in {1} : residue'.staging}}
    BY DEF Leftovers
  <2>2. {j \in Owned(folders)' : folders'[j].staged} = {} /\ {s \in {1} : residue'.staging} = {}
    BY <1>4, <1>5
  <2> QED BY <2>1, <2>2
<1>9. {Issue("DELETE_PENDING", <<"exam", id>>) : id \in {t \in Tombs : Finishable(t)}}' = {}
  BY <1>7
<1> QED BY <1>8, <1>9 DEF Recovery

LEMMA RecoveryIsReported ==
  ASSUME ListingInv, NEW cleanup \in BOOLEAN, RecoverSessions(cleanup)
  PROVE  ReportHolds(issues)'
<1>1. /\ folders' = AfterRecovery(folders, cleanup) /\ held' = held
      /\ issues' = Recovery(folders, cleanup)
  BY DEF RecoverSessions
<1>2. IsFolders(folders)
  BY DEF ListingInv
<1>3. /\ DOMAIN folders' = DOMAIN folders
      /\ \A k \in DOMAIN folders :
           /\ folders'[k].id = folders[k].id /\ folders'[k].state = folders[k].state
           /\ folders'[k].recorded = folders[k].recorded
  BY <1>1, <1>2, RecoveredFolders
<1>4. \A id, places : FoldersOf(folders', id, places) = FoldersOf(folders, id, places)
  BY <1>3, SameFolders
<1>5. \A k \in DOMAIN folders : KeepsName(folders', k) <=> KeepsName(folders, k)
  BY <1>3 DEF KeepsName
<1>6. \A id, places : Locate(folders', id, places) = Locate(folders, id, places)
  <2> SUFFICES ASSUME NEW id, NEW places PROVE Locate(folders', id, places) = Locate(folders, id, places)
    OBVIOUS
  <2> DEFINE found == FoldersOf(folders, id, places)
  <2>1. \A k \in found : k \in DOMAIN folders
    BY DEF FoldersOf
  <2>2. {k \in found : KeepsName(folders', k)} = {k \in found : KeepsName(folders, k)}
    BY <1>5, <2>1
  <2>3. Chosen(folders', found) = Chosen(folders, found)
    <3> HIDE DEF found
    <3> QED BY <2>2 DEF Chosen
  <2> QED BY <1>4, <2>3 DEF Locate
<1>7. \A id, shelf : Reached(folders', id, shelf) = Reached(folders, id, shelf)
  BY <1>6 DEF Reached
<1>8. ASSUME NEW k \in DOMAIN folders'
      PROVE  \/ \E i \in issues'.quarantined :
                   i.where \in {k, <<"exam", folders'[k].id>>} \union FoldersOf(folders', folders'[k].id, Places)
             \/ Reached(folders', folders'[k].id, k[1]) = k /\ folders'[k].state = "good"
  <2>1. k \in DOMAIN folders /\ folders'[k].id = folders[k].id /\ folders'[k].state = folders[k].state
    BY <1>3
  <2>2. \/ \E i \in issues'.quarantined :
              i.where \in {k, <<"exam", folders[k].id>>} \union FoldersOf(folders, folders[k].id, Places)
        \/ Reached(folders, folders[k].id, k[1]) = k /\ folders[k].state = "good"
    BY <1>1, <1>2, <2>1, RecoveryTells
  <2> QED BY <1>4, <1>7, <2>1, <2>2
<1>9. issues'.cleanup => (Recovery(folders, TRUE).cleaned)' = {}
  <2>1. issues'.cleanup = cleanup
    BY <1>1 DEF Recovery
  <2> QED BY <2>1, NothingLeft
<1> QED BY <1>8, <1>9 DEF ReportHolds

-----------------------------------------------------------------------------
(* The steps *)
\* After a change to the folders there is no answer that could be old.
LEMMA ChangeKeeps ==
  ASSUME IsFolders(folders)', IsResidue(residue)', listed' = Missing, issues' = Missing
  PROVE  ListingInv'
BY DEF ListingInv, ListTellsAll

LEMMA ResidueLocked ==
  ASSUME IsResidue(residue), NEW id,
         residue' = [residue EXCEPT !.locks = @ \union {id}, !.lockdirs = @ \union {id}]
  PROVE  IsResidue(residue)'
BY DEF IsResidue

LEMMA ExplorerKeeps ==
  ASSUME ListingInv, NEW origin \in DOMAIN folders, NEW to \in Places \X Names,
         Copy(origin, to) \/ CarryOff(origin, to)
  PROVE  ListingInv'
<1>1. IsFolders(folders) /\ folders[origin] \in Folder
  BY FolderIsPair DEF ListingInv
<1>2. IsFolders(Without(folders, origin))
  BY <1>1, WithoutFolders
<1>3. IsFolders(folders)'
  <2>1. CASE Copy(origin, to)
    <3>1. folders' = With(folders, to, folders[origin])
      BY <2>1 DEF Copy, FoldersBecome
    <3> QED BY <1>1, <3>1, WithFolders
  <2>2. CASE CarryOff(origin, to)
    <3>1. folders' = With(Without(folders, origin), to, folders[origin])
      BY <2>2 DEF CarryOff, FoldersBecome
    <3> QED BY <1>1, <1>2, <3>1, WithFolders
  <2> QED BY <2>1, <2>2
<1>4. listed' = Missing /\ issues' = Missing /\ IsResidue(residue)'
  BY DEF Copy, CarryOff, FoldersBecome, ListingInv
<1> QED BY <1>3, <1>4, ChangeKeeps

LEMMA SpoilKeeps ==
  ASSUME ListingInv, NEW k \in DOMAIN folders, Spoil(k)
  PROVE  ListingInv'
<1>1. IsFolders(folders) /\ folders[k] \in Folder
  BY FolderIsPair DEF ListingInv
<1>2. PICK spoilt \in {[folders[k] EXCEPT !.recorded = Missing], [folders[k] EXCEPT !.state = "damaged"],
                      [folders[k] EXCEPT !.state = "no_pointer"], [folders[k] EXCEPT !.id = "unreadable"]} :
        folders' = [folders EXCEPT ![k] = spoilt]
  BY DEF Spoil, FoldersBecome
<1>3. spoilt \in Folder
  BY <1>1, <1>2 DEF Folder
<1>4. IsFolders(folders)'
  <2>1. DOMAIN folders' = DOMAIN folders
    BY <1>2
  <2>2. folders' \in [DOMAIN folders' -> Folder]
    BY <1>1, <1>2, <1>3 DEF IsFolders
  <2> QED BY <1>1, <2>1, <2>2 DEF IsFolders
<1>5. listed' = Missing /\ issues' = Missing /\ IsResidue(residue)'
  BY DEF Spoil, FoldersBecome, ListingInv
<1> QED BY <1>4, <1>5, ChangeKeeps

LEMMA MoveKeeps ==
  ASSUME ListingInv, NEW id \in Exams, NEW shelf \in Places, MoveSession(id, shelf)
  PROVE  ListingInv'
<1> DEFINE k == Reached(folders, id, shelf)
           to == Destination(k)
           moved == [folders[k] EXCEPT !.recorded = IF shelf = "list" THEN k[2] ELSE @]
<1>1. k \notin {Missing, Ambiguous} /\ to[2] # Missing
  BY DEF MoveSession
<1>2. IsFolders(folders)
  BY DEF ListingInv
<1>3. k \in DOMAIN folders
  <2>1. k = Locate(folders, id, {shelf})
    BY <1>1 DEF Reached
  <2> DEFINE found == FoldersOf(folders, id, {shelf})
  <2>2. k = Chosen(folders, found)
    BY <2>1 DEF Locate
  <2>3. found \in SUBSET DOMAIN folders
    BY <1>2, FoldersFinite
  <2> HIDE DEF k, found
  <2> QED BY <1>1, <1>2, <2>2, <2>3, ChosenIs
<1>4. folders[k] \in Folder /\ k \in Places \X Names
  <2> HIDE DEF k
  <2> QED BY <1>2, <1>3, FolderIsPair
<1>5. moved \in Folder
  <2> HIDE DEF k
  <2> QED BY <1>4 DEF Folder
<1>6. to \in Places \X Names
  <2> HIDE DEF k
  <2>1. to = IF k[1] = "list" THEN <<"trash", k[2]>> ELSE <<"list", folders[k].recorded>>
    BY DEF Destination
  <2>2. k[2] \in Names /\ folders[k].recorded \in Names \union {Missing}
    BY <1>4 DEF Folder
  <2> HIDE DEF to
  <2> QED BY <1>1, <2>1, <2>2 DEF Places
<1>7. folders' = With(Without(folders, k), to, moved)
  BY DEF MoveSession, FoldersBecome
<1>8. IsFolders(folders')
  <2>1. IsFolders(Without(folders, k))
    <3> HIDE DEF k
    <3> QED BY <1>2, WithoutFolders
  <2> HIDE DEF k, to, moved
  <2> QED BY <1>5, <1>6, <1>7, <2>1, WithFolders
<1>9. listed' = Missing /\ issues' = Missing
  BY DEF MoveSession, FoldersBecome
<1>10. IsResidue(residue)'
  BY ResidueLocked DEF MoveSession, ListingInv
<1> QED BY <1>8, <1>9, <1>10, ChangeKeeps

LEMMA RestoreKeeps ==
  ASSUME ListingInv, NEW id \in Exams, NEW name \in Names, RestoreBackup(id, name)
  PROVE  ListingInv'
<1> DEFINE back == [id |-> id, state |-> "good", recorded |-> name, shows |-> TRUE, staged |-> FALSE]
<1>1. back \in Folder /\ <<"list", name>> \in Places \X Names
  BY DEF Folder, Places
<1>2. folders' = With(folders, <<"list", name>>, back)
  BY DEF RestoreBackup, FoldersBecome
<1>3. IsFolders(folders')
  <2> HIDE DEF back
  <2> QED BY <1>1, <1>2, WithFolders DEF ListingInv
<1>4. listed' = Missing /\ issues' = Missing
  BY DEF RestoreBackup, FoldersBecome
<1>5. IsResidue(residue)'
  BY ResidueLocked DEF RestoreBackup, ListingInv
<1> QED BY <1>3, <1>4, <1>5, ChangeKeeps

LEMMA ReadListKeeps ==
  ASSUME ListingInv, NEW shelf \in Places, ReadList(shelf)
  PROVE  ListingInv'
<1>1. IsFolders(folders)'
  <2>1. folders' = Renamed(folders, shelf) /\ IsFolders(folders)
    BY DEF ReadList, ListingInv
  <2> QED BY <2>1, RenamedFolders
<1>2. IsResidue(residue)'
  <2>1. DOMAIN residue' = DOMAIN residue
    BY DEF ReadList
  <2> QED BY <2>1 DEF IsResidue, ListingInv
<1>3. issues' = Missing
  BY DEF ReadList
<1>4. ListTellsAll'
  BY <1>3, ListIsRead DEF ListTellsAll
<1> QED BY <1>1, <1>2, <1>4 DEF ListingInv

LEMMA RecoverKeeps ==
  ASSUME ListingInv, NEW cleanup \in BOOLEAN, RecoverSessions(cleanup)
  PROVE  ListingInv'
<1>1. IsFolders(folders)'
  <2>1. folders' = AfterRecovery(folders, cleanup) /\ IsFolders(folders)
    BY DEF RecoverSessions, ListingInv
  <2> QED BY <2>1, RecoveredFolders
<1>2. IsResidue(residue)'
  <2>1. DOMAIN residue' = DOMAIN residue
    BY DEF RecoverSessions, ResidueLeft
  <2> QED BY <2>1 DEF IsResidue, ListingInv
<1>3. listed' = Missing
  BY DEF RecoverSessions
<1>4. ListTellsAll'
  BY <1>3, RecoveryIsReported DEF ListTellsAll
<1> QED BY <1>1, <1>2, <1>4 DEF ListingInv

\* What a list or a recovery says depends on what it says it of.
LEMMA ListingRests ==
  ASSUME ListingInv, UNCHANGED listing
  PROVE  ListingInv'
<1>1. /\ folders' = folders /\ residue' = residue /\ held' = held /\ writable' = writable
      /\ listed' = listed /\ issues' = issues
  BY DEF listing
<1>2. (listed # Missing => ListHolds(listed))'
  BY <1>1 DEF ListingInv, ListTellsAll, ListHolds
<1>3. (issues # Missing => ReportHolds(issues))'
  BY <1>1 DEF ListingInv, ListTellsAll, ReportHolds, Recovery, RecoverSession, Leftovers, Owned, Usable,
              LockOwners, Finishable, Tombs
<1> QED BY <1>1, <1>2, <1>3 DEF ListingInv, ListTellsAll

\* However a user copies, renames and moves exam folders in Explorer, and whatever was
\* lost, spoiled, moved or restored between: what a list or a recovery tells of the
\* folders it was made from is all there is to tell (ListTellsAll), and a folder listing
\* stays a finite one.
THEOREM ListTellsAllHolds == ListingSpec => []ListTellsAll
<1>1. ListingInit => ListingInv
  BY DEF ListingInit, ListingInv, ListTellsAll
<1>2. ListingInv /\ [ListingNext]_listing => ListingInv'
  <2> SUFFICES ASSUME ListingInv, [ListingNext]_listing PROVE ListingInv'
    OBVIOUS
  <2>1. CASE \E origin \in DOMAIN folders, to \in (Places \X Names) \ DOMAIN folders :
               Copy(origin, to) \/ CarryOff(origin, to)
    BY <2>1, ExplorerKeeps
  <2>2. CASE \E k \in DOMAIN folders : Spoil(k)
    BY <2>2, SpoilKeeps
  <2>3. CASE \E id \in Exams, shelf \in Places : MoveSession(id, shelf)
    BY <2>3, MoveKeeps
  <2>4. CASE \E id \in Exams, name \in Names : RestoreBackup(id, name)
    BY <2>4, RestoreKeeps
  <2>5. CASE \E id \in Exams, how \in {"no", "read", "write"} : Hold(id, how)
    BY <2>5, ChangeKeeps DEF Hold, ListingInv
  <2>6. CASE \E shelf \in Places : ReadList(shelf)
    BY <2>6, ReadListKeeps
  <2>7. CASE \E cleanup \in BOOLEAN : RecoverSessions(cleanup)
    BY <2>7, RecoverKeeps
  <2>8. CASE UNCHANGED listing
    BY <2>8, ListingRests
  <2> QED BY <2>1, <2>2, <2>3, <2>4, <2>5, <2>6, <2>7, <2>8 DEF ListingNext
<1>3. ListingInv => ListTellsAll
  BY DEF ListingInv
<1> QED BY <1>1, <1>2, <1>3, PTL DEF ListingSpec
=============================================================================
