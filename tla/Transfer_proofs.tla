--------------------------- MODULE Transfer_proofs ---------------------------
(***************************************************************************)
(* Proofs about the settings (Catalog), while exams, a form and settings   *)
(* are brought in from another folder (Transfer): for any programs, forms, *)
(* settings and exams.                                                     *)
(***************************************************************************)
EXTENDS Transfer, TLAPS, WellFoundedInduction

USE ProcAssumption, NamesAssumption, SettingAssumption, RevAssumption, RunnerAssumption

\* A set of numbers has a least element.
LEMMA Least == ASSUME NEW S \in SUBSET Nat, S # {} PROVE \E x \in S : \A y \in S : x <= y
<1>1. PICK x \in S : \A y \in S : ~(<<y, x>> \in OpToRel(<, Nat))
  BY NatLessThanWellFounded, WFMin
<1>2. \A y \in S : ~(y < x)
  <2> SUFFICES ASSUME NEW y \in S PROVE ~(y < x)
    OBVIOUS
  <2>1. <<y, x>> \notin OpToRel(<, Nat)
    BY <1>1
  <2>2. <<y, x>> \in Nat \X Nat
    OBVIOUS
  <2> QED
    BY <2>1, <2>2 DEF OpToRel
<1> QED
  BY <1>2

\* The first free name is a name of a form file.
LEMMA FirstFreeIsName == ASSUME FreeNames # {} PROVE FirstFree \in Name
<1>1. FreeNames \in SUBSET Nat
  BY DEF FreeNames
<1>2. \E i \in FreeNames : \A j \in FreeNames : i <= j
  BY <1>1, Least
<1> QED
  BY <1>2 DEF FirstFree, FreeNames, Name

\* So is the first file that holds the form.
LEMMA FirstSameIsName == ASSUME Same # {} PROVE FirstSame \in Name /\ forms[FirstSame] = oldform
<1> DEFINE S == {i \in DOMAIN Names : Names[i] \in Same}
<1>1. S \in SUBSET Nat /\ S # {}
  BY DEF Same, Name
<1>2. \E i \in S : \A j \in S : i <= j
  BY <1>1, Least
<1>3. \E i \in DOMAIN Names : Names[i] \in Same /\ \A j \in DOMAIN Names : Names[j] \in Same => i <= j
  BY <1>2
<1>4. FirstSame \in Same
  BY <1>3 DEF FirstSame
<1> QED
  BY <1>4 DEF Same

-----------------------------------------------------------------------------
Labels ==
  {"off", "first", "ready", "compare", "write", "finish", "put", "bring", "open", "manifest1", "entry1",
   "consume", "manifest2", "entry2", "extract", "check", "publish", "move", "bringform", "settings", "reload"}

\* Settings and forms are what they are called, also those still on their way.
Kinds ==
  /\ config \in Setting \union {None}
  /\ pc \in [Proc -> Labels]
  /\ known \in [Proc -> Setting] /\ want \in [Proc -> Setting]
  /\ spot \in [Proc -> [name : Name, content : Content \union {None}]]
  /\ oldconfig \in Setting \union {None} /\ oldform \in Content \union {None}
  /\ DOMAIN run = DOMAIN NoRun /\ run.name \in Name \union {None}

\* A page that is about to write holds the gate since it compared, and what it compared
\* with is still there unless somebody wrote without the gate.
Compared == \A p \in Proc : pc[p] = "write" => gate = p /\ (Current = known[p] \/ by # "page")

SettingsInv == Kinds /\ Compared

\* The invariant holds at the start.
LEMMA InitSettings == TransferInit => SettingsInv
<1> SUFFICES ASSUME TransferInit PROVE SettingsInv
  OBVIOUS
<1>1. Default \in Setting /\ Names[1] \in Name
  BY DEF Default, Setting, Name
<1>2. Kinds
  <2>1. config \in Setting \union {None} /\ pc \in [Proc -> Labels]
    BY <1>1 DEF TransferInit, StockInit, Labels
  <2>2. known \in [Proc -> Setting] /\ want \in [Proc -> Setting]
    BY <1>1 DEF TransferInit, StockInit
  <2>3. spot \in [Proc -> [name : Name, content : Content \union {None}]]
    BY <1>1 DEF TransferInit, StockInit, NoSpot
  <2>4. oldconfig \in Setting \union {None} /\ oldform \in Content \union {None}
    BY DEF TransferInit
  <2>5. DOMAIN run = DOMAIN NoRun /\ run.name \in Name \union {None}
    BY DEF TransferInit, NoRun
  <2> QED
    BY <2>1, <2>2, <2>3, <2>4, <2>5 DEF Kinds
<1>3. Compared
  BY DEF TransferInit, StockInit, Compared
<1> QED
  BY <1>2, <1>3 DEF SettingsInv

\* Whatever a page does with the settings or a form keeps the invariant.
LEMMA StockKeeps ==
  ASSUME SettingsInv, NEW p \in Proc, Stock(p), UNCHANGED world
  PROVE  SettingsInv'
<1> USE DEF SettingsInv
<1>1. Default \in Setting /\ NoSpot \in [name : Name, content : Content \union {None}]
  BY DEF Default, Setting, NoSpot, Name
<1>2. Current \in Setting
  BY <1>1 DEF Kinds, Current
<1>3. UNCHANGED <<oldconfig, oldform, run>>
  BY DEF world, source, bringing
<1>4. Kinds'
  <2>1. CASE Open(p)
    <3>1. pc' \in [Proc -> Labels]
      BY <2>1 DEF Kinds, Open, Goto, Labels
    <3>2. known' \in [Proc -> Setting]
      BY <1>1, <1>2, <2>1 DEF Kinds, Open
    <3> QED
      BY <1>3, <2>1, <3>1, <3>2 DEF Kinds, Open, file, shelf
  <2>2. CASE WriteDefault(p)
    BY <1>1, <1>3, <2>2 DEF Kinds, WriteDefault, Goto, Labels, shelf
  <2>3. CASE Compare(p)
    BY <1>3, <2>3 DEF Kinds, Compare, Goto, Labels, shelf
  <2>4. CASE Write(p)
    BY <1>3, <2>4 DEF Kinds, Write, Goto, Labels, shelf
  <2>5. CASE FinishSave(p)
    BY <1>1, <1>3, <2>5 DEF Kinds, FinishSave, Confirms, Goto, Labels, file, shelf
  <2>6. CASE PutForm(p)
    BY <1>1, <1>3, <2>6 DEF Kinds, PutForm, Put, Goto, Labels, file
  <2>7. CASE \E s \in Setting : AskSave(p, s)
    BY <1>3, <2>7 DEF Kinds, AskSave, Goto, Labels, file, shelf
  <2>8. CASE \E c \in Content : LookToSave(p, c)
    BY <1>3, <2>8, FirstFreeIsName DEF Kinds, LookToSave, Goto, Labels, file, shelf
  <2>9. CASE \E c \in Content : \E n \in Name : LookToImport(p, n, c)
    BY <1>3, <2>9 DEF Kinds, LookToImport, Goto, Labels, file, shelf
  <2> QED
    BY <2>1, <2>2, <2>3, <2>4, <2>5, <2>6, <2>7, <2>8, <2>9 DEF Stock
<1>5. Compared'
  <2>1. CASE Open(p)
    BY <2>1 DEF Kinds, Compared, Current, Open, Goto, file
  <2>2. CASE WriteDefault(p)
    BY <2>2 DEF Kinds, Compared, Current, WriteDefault, Goto
  <2>3. CASE Compare(p)
    BY <1>2, <2>3 DEF Kinds, Compared, Current, Compare, Goto
  <2>4. CASE Write(p)
    BY <2>4 DEF Kinds, Compared, Current, Write, Goto
  <2>5. CASE FinishSave(p)
    BY <2>5 DEF Kinds, Compared, Current, FinishSave, Goto, file
  <2>6. CASE PutForm(p)
    BY <2>6 DEF Kinds, Compared, Current, PutForm, Goto, file
  <2>7. CASE \E s \in Setting : AskSave(p, s)
    BY <2>7 DEF Kinds, Compared, Current, AskSave, Goto, file
  <2>8. CASE \E c \in Content : LookToSave(p, c)
    BY <2>8 DEF Kinds, Compared, Current, LookToSave, Goto, file
  <2>9. CASE \E c \in Content : \E n \in Name : LookToImport(p, n, c)
    BY <2>9 DEF Kinds, Compared, Current, LookToImport, Goto, file
  <2> QED
    BY <2>1, <2>2, <2>3, <2>4, <2>5, <2>6, <2>7, <2>8, <2>9 DEF Stock
<1> QED
  BY <1>4, <1>5

\* Steps of the run that leave settings and forms alone, apart from where it stands.
LEMMA RunKeeps ==
  ASSUME SettingsInv, Keep, UNCHANGED <<oldconfig, oldform>>,
         UNCHANGED pc \/ \E l \in Labels \ {"write"} : Goto(r, l),
         DOMAIN run' = DOMAIN NoRun /\ run'.name \in Name \union {None}
  PROVE  SettingsInv'
<1>1. Kinds'
  BY DEF SettingsInv, Kinds, Keep, Goto, file, shelf
<1>2. Compared'
  BY DEF SettingsInv, Kinds, Compared, Current, Keep, Goto, file, r
<1> QED
  BY <1>1, <1>2 DEF SettingsInv

\* So does the run that brings exams, the form and the settings.
LEMMA BringKeeps == ASSUME SettingsInv, Bring PROVE SettingsInv'
<1> USE DEF Labels
<1>1. DOMAIN run = DOMAIN NoRun /\ run.name \in Name \union {None}
  BY DEF SettingsInv, Kinds
<1>2. ASSUME NEW failed, Past(failed) PROVE DOMAIN run' = DOMAIN NoRun /\ run'.name \in Name \union {None}
  BY <1>1, <1>2 DEF Past, NoRun
<1>3. CASE StartBring
  <2>1. DOMAIN run' = DOMAIN NoRun /\ run'.name \in Name \union {None}
    BY <1>3 DEF StartBring, NoRun
  <2> QED
    BY <1>3, <2>1, RunKeeps DEF StartBring, source
<1>4. CASE SkipExam
  BY <1>4, <1>2, RunKeeps DEF SkipExam, source
<1>5. CASE MakeArchive
  BY <1>5, <1>1, <1>2, RunKeeps DEF MakeArchive, source
<1>6. CASE TakeArchive
  BY <1>6, <1>1, RunKeeps DEF TakeArchive, source
<1>7. CASE OpenToken
  BY <1>7, <1>1, <1>2, RunKeeps DEF OpenToken, source
<1>8. CASE Consume
  BY <1>8, <1>1, <1>2, RunKeeps DEF Consume, source
<1>9. CASE ReadEntry("entry1", "consume") \/ ReadEntry("entry2", "extract") \/ ExtractEntry
  BY <1>9, <1>1, <1>2, RunKeeps DEF ReadEntry, ExtractEntry, GoOn, source
<1>10. CASE Recheck
  BY <1>10, <1>1, <1>2, RunKeeps DEF Recheck, GoOn, source
<1>11. CASE PublishExam
  BY <1>11, <1>1, <1>2, RunKeeps DEF PublishExam, source
<1>12. CASE MoveExam
  BY <1>12, <1>1, <1>2, RunKeeps DEF MoveExam, source
<1>13. CASE CutOff
  <2>1. DOMAIN run' = DOMAIN NoRun /\ run'.name \in Name \union {None}
    BY <1>13 DEF CutOff, NoRun
  <2> QED
    BY <1>13, <2>1, RunKeeps DEF CutOff, source
<1>14. CASE LookForm
  <2>1. DOMAIN run' = DOMAIN NoRun /\ run'.name \in Name \union {None}
    BY <1>14, <1>1, FirstSameIsName DEF LookForm, NoRun
  <2>2. spot' \in [Proc -> [name : Name, content : Content \union {None}]]
    <3>1. CASE FreeNames # {} /\ spot' = [spot EXCEPT ![r] = [name |-> FirstFree, content |-> oldform]]
      <4>1. [name |-> FirstFree, content |-> oldform] \in [name : Name, content : Content \union {None}]
        BY <3>1, FirstFreeIsName DEF SettingsInv, Kinds
      <4> QED
        BY <3>1, <4>1 DEF SettingsInv, Kinds
    <3>2. CASE UNCHANGED spot
      BY <3>2 DEF SettingsInv, Kinds
    <3> QED
      BY <1>14, <3>1, <3>2 DEF LookForm
  <2>3. pc' \in [Proc -> Labels]
    BY <1>14 DEF SettingsInv, Kinds, LookForm, Goto
  <2>4. Kinds'
    BY <1>14, <2>1, <2>2, <2>3 DEF SettingsInv, Kinds, LookForm, file, source
  <2> QED
    BY <1>14, <2>4 DEF SettingsInv, Kinds, Compared, Current, LookForm, Goto, file, r
<1>15. CASE BringForm
  <2>1. DOMAIN run' = DOMAIN NoRun /\ run'.name \in Name \union {None}
    BY <1>15, <1>1 DEF SettingsInv, Kinds, BringForm, NoRun, r
  <2>2. Kinds'
    BY <1>15, <2>1 DEF SettingsInv, Kinds, BringForm, Goto, file, source, r
  <2> QED
    BY <1>15, <2>2 DEF SettingsInv, Kinds, Compared, Current, BringForm, Goto, file, r
<1>16. CASE BringSettings
  <2>1. DOMAIN run' = DOMAIN NoRun /\ run'.name \in Name \union {None}
    BY <1>16, <1>1 DEF BringSettings, Answered, NoRun
  <2>2. BringsSettings => Renamed(oldconfig) \in Setting
    BY <1>1 DEF SettingsInv, Kinds, BringsSettings, Renamed, Setting
  <2>3. Kinds'
    BY <1>16, <2>1, <2>2 DEF SettingsInv, Kinds, BringSettings, Goto, source, r
  <2> QED
    BY <1>16, <2>3 DEF SettingsInv, Kinds, Compared, Current, BringSettings, Goto, r
<1>17. CASE Reload
  <2>1. Current \in Setting
    BY DEF SettingsInv, Kinds, Current, Default, Setting
  <2>2. Kinds'
    BY <1>17, <2>1 DEF SettingsInv, Kinds, Reload, Goto, file, world, source, bringing, r
  <2> QED
    BY <1>17, <2>2 DEF SettingsInv, Kinds, Compared, Current, Reload, Goto, file, r
<1>18. CASE ReadManifest("manifest1", "entry1") \/ ReadManifest("manifest2", "entry2")
  BY <1>18, <1>1, <1>2, RunKeeps DEF ReadManifest, GoOn, source
<1> QED
  BY <1>3, <1>4, <1>5, <1>6, <1>7, <1>8, <1>9, <1>10, <1>11, <1>12, <1>13, <1>14, <1>15, <1>16, <1>17, <1>18 DEF Bring

\* And so do the other folder, the stick and the users.
LEMMA NextKeeps == ASSUME SettingsInv, [TransferNext]_transfer PROVE SettingsInv'
<1>1. ASSUME UNCHANGED <<file, local, oldconfig, oldform, run>> PROVE SettingsInv'
  BY <1>1 DEF SettingsInv, Kinds, Compared, Current, file, local
<1>2. CASE SkipBackup \/ LeaseExam \/ ExportExam
  BY <1>1, <1>2 DEF SkipBackup, LeaseExam, ExportExam, stock, source, bringing
<1>3. CASE \E e \in Exam : OldSave(e) \/ Tamper(e) \/ User(e)
  BY <1>1, <1>3 DEF OldSave, Tamper, User, stock, source, bringing
<1>4. CASE \E p \in Proc : Stock(p) /\ UNCHANGED world
  BY <1>4, StockKeeps
<1>5. CASE UNCHANGED transfer
  BY <1>1, <1>5 DEF transfer, stock, world, source, bringing
<1> QED
  BY <1>2, <1>3, <1>4, <1>5, BringKeeps DEF TransferNext

\* The settings stay settings, and what a page compared with under the gate is there
\* until it writes.
THEOREM SettingsHeld == TransferSpec => []SettingsInv
<1>1. TransferInit => SettingsInv
  BY InitSettings
<1>2. SettingsInv /\ [TransferNext]_transfer => SettingsInv'
  BY NextKeeps
<1> QED
  BY <1>1, <1>2, PTL DEF TransferSpec

\* A page never overwrites what another page saved and it has not seen, whatever is
\* brought in meanwhile.
THEOREM PagesNotUndone == TransferSpec => NoPageUndone
<1>1. SettingsInv => [\A p \in Proc : pc[p] = "write" /\ pc'[p] = "finish"
                        => Current = known[p] \/ by # "page"]_stock
  BY DEF SettingsInv, Compared
<1> QED
  BY <1>1, SettingsHeld, PTL DEF NoPageUndone
-----------------------------------------------------------------------------
ExamSteps ==
  {"open", "manifest1", "entry1", "consume", "manifest2", "entry2", "extract", "check", "publish", "move"}
RunSteps  == ExamSteps \union {"bring", "bringform", "settings", "reload"}

\* Types of what a run works on.
RunTypes ==
  /\ kind \in {"install", "backup"}
  /\ old \in [Exam -> [at : {"none", "list", "trash", "bad"}, gen : Nat]]
  /\ backup \in [turn : Nat \ {0}, lease : Nat]
  /\ path \in [Exam -> 0 .. 2]
  /\ ink \in [Exam -> [Inode -> [body : Nat \X Nat, stamp : Nat, unseen : Nat]]]
  /\ home \in [Exam -> [at : {"none", "list", "trash"}, body : Nat \X Nat, by : {"nobody", "user", "bring"}]]
  /\ run \in [turn : Nat \ {0}, fresh : BOOLEAN, failed : SUBSET Exam, name : Name \union {None},
               told : SUBSET Exam, answer : {"none", "ok", "error"}]
  /\ token \in [file : 0 .. 2, stamp : Nat, body : Nat \X Nat, unseen : Nat]
  /\ lost \in SUBSET Exam
  /\ forms \in [Name -> Content \union {None}] /\ over \in SUBSET Name

\* Where a run stands: at an exam, or past all of them, after the backup was made.
Standing ==
  /\ pc[r] \in ExamSteps => run.turn <= Len(Exams)
  /\ pc[r] \in {"bringform", "settings", "reload"} => run.turn > Len(Exams)
  /\ pc[r] \in RunSteps => BackedUp
  /\ pc[r] = "open" => path[This] \in Inode

\* The form of a run has its name here once it is here.
FormKept ==
  /\ pc[r] \in ExamSteps \union {"bring"} => run.name = None
  /\ pc[r] = "bringform" => run.name = None /\ oldform # None /\ spot[r].content = oldform
  /\ pc[r] = "settings" /\ run.name # None =>
       oldform # None /\ (forms[run.name] = oldform \/ run.name \in over)

\* Since it was consumed, the archive is as it was validated, unless its time stamp is
\* another or it was overwritten and the time stamp kept; once is not enough to look
\* the same again.
Steady ==
  Held.stamp = token.stamp =>
    /\ Held.unseen = token.unseen => Held.body = token.body
    /\ Held.unseen = token.unseen + 1 => Held.body # token.body

\* What was extracted is what was validated, unless the archive was overwritten meanwhile
\* and the time stamp kept; it is one generation, as the manifest was read with it.
Extracted ==
  /\ pc[r] \in {"manifest1", "entry1", "consume", "manifest2", "entry2", "extract", "check", "publish"}
       => token.file \in Inode
  /\ pc[r] \in {"manifest2", "entry2", "extract", "check", "publish"}
       => Held.stamp >= token.stamp /\ Held.unseen >= token.unseen
  /\ pc[r] \in {"manifest2", "entry2", "extract", "check"} => Steady
  /\ pc[r] \in {"entry2", "extract"} =>
       /\ \E n \in Nat : got = <<n>>
       /\ Held.stamp = token.stamp /\ Held.unseen = token.unseen => got[1] = token.body[1]
  /\ pc[r] \in {"check", "publish"} => got \in Nat \X Nat /\ Whole(got)
  /\ pc[r] = "check" /\ Held.stamp = token.stamp /\ Held.unseen = token.unseen => got = token.body
  /\ pc[r] = "publish" => got = token.body \/ Held.unseen >= token.unseen + 2

Accounted(e) == Brought(e) => home[e].at # "none" \/ e \in run.failed \/ home[e].by = "user"

\* The exams passed are accounted for, and what failed is told or lost with the run.
Telling ==
  /\ pc[r] \in RunSteps => \A i \in 1 .. Len(Exams) : i < run.turn => Accounted(Exams[i])
  /\ pc[r] \notin RunSteps => run.failed \subseteq run.told \union lost
  /\ pc[r] = "reload" => run.failed \subseteq run.told
  /\ \A e \in Exam :
       (kind = "install" /\ old[e].at = "trash" /\ home[e].at = "list" /\ home[e].by = "bring")
         => e \in run.told \union run.failed \union lost \/ (pc[r] = "move" /\ This = e)

RunInv == RunTypes /\ Standing /\ FormKept /\ Extracted /\ Telling

\* The invariant of a run holds at the start.
LEMMA InitRun == TransferInit => RunInv
<1> SUFFICES ASSUME TransferInit PROVE RunInv
  OBVIOUS
<1>1. pc[r] = "off"
  BY DEF TransferInit, StockInit, r
<1>2. RunTypes
  <2>1. kind \in {"install", "backup"} /\ old \in [Exam -> [at : {"none", "list", "trash", "bad"}, gen : Nat]]
    BY DEF TransferInit
  <2>2. backup \in [turn : Nat \ {0}, lease : Nat]
    BY DEF TransferInit
  <2>3. path \in [Exam -> 0 .. 2] /\ ink \in [Exam -> [Inode -> [body : Nat \X Nat, stamp : Nat, unseen : Nat]]]
    BY DEF TransferInit, NoFile, Blank, Other
  <2>4. home \in [Exam -> [at : {"none", "list", "trash"}, body : Nat \X Nat, by : {"nobody", "user", "bring"}]]
    <3>1. {Absent, Mine} \subseteq [at : {"none", "list", "trash"}, body : Nat \X Nat, by : {"nobody", "user", "bring"}]
      BY DEF Absent, Mine, Other
    <3> QED
      BY <3>1 DEF TransferInit
  <2>5. run \in [turn : Nat \ {0}, fresh : BOOLEAN, failed : SUBSET Exam, name : Name \union {None},
                 told : SUBSET Exam, answer : {"none", "ok", "error"}]
    BY DEF TransferInit, NoRun
  <2>6. token \in [file : 0 .. 2, stamp : Nat, body : Nat \X Nat, unseen : Nat] /\ lost \in SUBSET Exam
    BY DEF TransferInit, NoToken, NoFile, Other
  <2>7. forms \in [Name -> Content \union {None}] /\ over \in SUBSET Name
    BY DEF TransferInit, StockInit
  <2> QED
    BY <2>1, <2>2, <2>3, <2>4, <2>5, <2>6, <2>7 DEF RunTypes
<1>3. Standing /\ FormKept /\ Extracted
  BY <1>1 DEF Standing, FormKept, Extracted, ExamSteps, RunSteps
<1>4. Telling
  <2>1. run.failed = {}
    BY DEF TransferInit, NoRun
  <2>2. \A e \in Exam : home[e].by # "bring"
    <3>1. \A h \in {Absent, Mine} : h.by # "bring"
      BY DEF Absent, Mine
    <3> QED
      BY <3>1 DEF TransferInit
  <2> QED
    BY <1>1, <2>1, <2>2 DEF Telling, ExamSteps, RunSteps
<1> QED
  BY <1>2, <1>3, <1>4 DEF RunInv
\* A page that saves settings or a form is not the run, and writes over no form but one
\* it then counts as written over.
LEMMA StockApart ==
  ASSUME SettingsInv, RunTypes, NEW p \in Proc, Stock(p)
  PROVE  /\ \/ pc'[r] = pc[r] /\ spot'[r] = spot[r]
            \/ pc[r] \notin RunSteps /\ pc'[r] \notin RunSteps
         /\ forms' \in [Name -> Content \union {None}] /\ over' \in SUBSET Name /\ over \subseteq over'
         /\ \A n \in Name : forms'[n] = forms[n] \/ forms[n] = None \/ n \in over'
<1> USE DEF SettingsInv, Kinds, RunTypes, RunSteps, ExamSteps, Goto, r
<1>1. CASE Open(p)
  BY <1>1 DEF Open, shelf
<1>2. CASE WriteDefault(p)
  BY <1>2 DEF WriteDefault, shelf
<1>3. CASE Compare(p)
  BY <1>3 DEF Compare, shelf
<1>4. CASE Write(p)
  BY <1>4 DEF Write, shelf
<1>5. CASE FinishSave(p)
  BY <1>5 DEF FinishSave, shelf
<1>6. CASE PutForm(p)
  BY <1>6 DEF PutForm, Put
<1>7. CASE \E s \in Setting : AskSave(p, s)
  BY <1>7 DEF AskSave, shelf
<1>8. CASE \E c \in Content : LookToSave(p, c)
  BY <1>8 DEF LookToSave, shelf
<1>9. CASE \E c \in Content : \E n \in Name : LookToImport(p, n, c)
  BY <1>9 DEF LookToImport, shelf
<1> QED
  BY <1>1, <1>2, <1>3, <1>4, <1>5, <1>6, <1>7, <1>8, <1>9 DEF Stock

\* So pages keep the invariant of the run.
LEMMA StockKeepsRun ==
  ASSUME SettingsInv, RunInv, NEW p \in Proc, Stock(p), UNCHANGED world
  PROVE  RunInv'
<1> USE DEF RunInv, world, source, stick, bringing
<1>1. /\ \/ pc'[r] = pc[r] /\ spot'[r] = spot[r]
         \/ pc[r] \notin RunSteps /\ pc'[r] \notin RunSteps
      /\ forms' \in [Name -> Content \union {None}] /\ over' \in SUBSET Name /\ over \subseteq over'
      /\ \A n \in Name : forms'[n] = forms[n] \/ forms[n] = None \/ n \in over'
  BY StockApart
<1>2. RunTypes'
  BY <1>1 DEF RunTypes
<1>3. Standing'
  BY <1>1 DEF Standing, ExamSteps, RunSteps, BackedUp, This
<1>4. FormKept'
  BY <1>1 DEF FormKept, ExamSteps, RunSteps, RunTypes
<1>5. Extracted'
  BY <1>1 DEF Extracted, Steady, Held, This, ExamSteps, RunSteps
<1>6. Telling'
  BY <1>1 DEF Telling, Accounted, Brought, RunSteps, ExamSteps, This
<1> QED
  BY <1>2, <1>3, <1>4, <1>5, <1>6

-----------------------------------------------------------------------------
\* What passing an exam leaves in the record of the run.
LEMMA PastExam ==
  ASSUME RunTypes, NEW failed \in SUBSET Exam, Past(failed)
  PROVE  /\ run' \in [turn : Nat \ {0}, fresh : BOOLEAN, failed : SUBSET Exam, name : Name \union {None},
                     told : SUBSET Exam, answer : {"none", "ok", "error"}]
         /\ run'.turn = run.turn + 1 /\ run'.failed = run.failed \union failed
         /\ run'.name = run.name /\ run'.told = run.told
         /\ token' \in [file : 0 .. 2, stamp : Nat, body : Nat \X Nat, unseen : Nat]
<1>1. run' = [run EXCEPT !.turn = @ + 1, !.failed = @ \union failed]
  BY DEF Past
<1>2. run.turn + 1 \in Nat \ {0} /\ run.failed \union failed \in SUBSET Exam
  BY DEF RunTypes
<1>3. token' \in [file : 0 .. 2, stamp : Nat, body : Nat \X Nat, unseen : Nat]
  BY DEF Past, NoToken, NoFile, Other
<1> QED
  BY <1>1, <1>2, <1>3 DEF RunTypes

\* The exam a run stands at is one of the folder's.
LEMMA ThisIsExam == ASSUME RunTypes, run.turn <= Len(Exams) PROVE This \in Exam
<1>1. run.turn \in 1 .. Len(Exams)
  BY DEF RunTypes
<1> QED
  BY <1>1, ExamsAssumption DEF This

\* A run that goes past an exam keeps the invariant, if that exam is accounted for.
LEMMA PassKeeps ==
  ASSUME SettingsInv, RunInv, pc[r] \in ExamSteps \union {"bring"}, run.turn <= Len(Exams),
         NEW failed \in SUBSET {This}, Past(failed), pc' = [pc EXCEPT ![r] = "bring"],
         UNCHANGED <<file, shelf, source, backup, stick, lost, spot>>,
         home' \in [Exam -> [at : {"none", "list", "trash"}, body : Nat \X Nat, by : {"nobody", "user", "bring"}]],
         \A e \in Exam \ {This} : home'[e] = home[e],
         Brought(This) => home'[This].at # "none" \/ This \in failed \/ home'[This].by = "user",
         (kind = "install" /\ old[This].at = "trash" /\ home'[This].at = "list" /\ home'[This].by = "bring")
           => This \in failed \/ (home'[This] = home[This] /\ pc[r] # "move")
  PROVE  RunInv'
<1> USE DEF RunInv, source, stick, shelf
<1>1. This \in Exam
  BY ThisIsExam
<1>2. failed \in SUBSET Exam
  BY <1>1
<1>3. pc'[r] = "bring"
  BY DEF SettingsInv, Kinds, r
<1>4. RunTypes'
  BY <1>2, PastExam DEF RunTypes
<1>5. Standing'
  BY <1>2, <1>3, PastExam DEF Standing, BackedUp, ExamSteps, RunSteps
<1>6. FormKept'
  BY <1>2, <1>3, PastExam DEF FormKept, ExamSteps
<1>7. Extracted'
  BY <1>3 DEF Extracted
<1>8. Telling'
  <2>1. ASSUME NEW i \in 1 .. Len(Exams), i < run'.turn PROVE Accounted(Exams[i])'
    <3>1. CASE i = run.turn
      BY <1>2, <2>1, <3>1, PastExam DEF Accounted, Brought, This
    <3>2. CASE i < run.turn
      <4>1. Accounted(Exams[i]) /\ Exams[i] \in Exam
        BY <3>2, ExamsAssumption DEF Telling, RunSteps
      <4>2. CASE Exams[i] = This
        BY <1>2, <4>2, PastExam DEF Accounted, Brought
      <4>3. CASE Exams[i] # This
        BY <1>2, <4>1, <4>3, PastExam DEF Accounted, Brought
      <4> QED
        BY <4>2, <4>3
    <3> QED
      <4>1. run'.turn = run.turn + 1 /\ run.turn \in Nat
        BY <1>2, PastExam DEF RunTypes
      <4> QED
        BY <2>1, <3>1, <3>2, <4>1
  <2>2. ASSUME NEW e \in Exam, kind = "install", old[e].at = "trash", home'[e].at = "list", home'[e].by = "bring"
        PROVE  e \in run'.told \union run'.failed \union lost'
    <3>1. run'.told = run.told /\ run'.failed = run.failed \union failed
      BY <1>2, PastExam
    <3>2. CASE e = This
      BY <2>2, <3>1, <3>2 DEF Telling
    <3>3. CASE e # This
      BY <2>2, <3>1, <3>3 DEF Telling
    <3> QED
      BY <3>2, <3>3
  <2> QED
    BY <1>3, <2>1, <2>2 DEF Telling, RunSteps
<1> QED
  BY <1>4, <1>5, <1>6, <1>7, <1>8
\* A run that goes on with an exam keeps the invariant, if what it has extracted is right.
LEMMA GoesOnKeeps ==
  ASSUME SettingsInv, RunInv, pc[r] \in (ExamSteps \union {"bring"}) \ {"move"}, run.turn <= Len(Exams),
         NEW l \in ExamSteps \ {"move"}, pc' = [pc EXCEPT ![r] = l],
         UNCHANGED <<file, shelf, source, backup, home, lost, spot, run>>,
         ink' \in [Exam -> [Inode -> [body : Nat \X Nat, stamp : Nat, unseen : Nat]]],
         path' \in [Exam -> 0 .. 2], kind = "backup" => path' = path,
         l = "open" => path'[This] \in Inode,
         token' \in [file : 0 .. 2, stamp : Nat, body : Nat \X Nat, unseen : Nat], Extracted'
  PROVE  RunInv'
<1> USE DEF RunInv, source, shelf
<1>1. pc'[r] = l
  BY DEF SettingsInv, Kinds, r
<1>2. RunTypes'
  BY DEF RunTypes
<1>3. Standing'
  BY <1>1 DEF Standing, BackedUp, ExamSteps, RunSteps, This
<1>4. FormKept'
  BY <1>1 DEF FormKept, ExamSteps
<1>5. Telling'
  BY <1>1 DEF Telling, Accounted, Brought, ExamSteps, RunSteps, This
<1> QED
  BY <1>2, <1>3, <1>4, <1>5

\* Going from exam to exam.
LEMMA SkipKeeps == ASSUME SettingsInv, RunInv, SkipExam PROVE RunInv'
<1>1. pc' = [pc EXCEPT ![r] = "bring"] /\ pc[r] = "bring"
  BY DEF SkipExam, SettingsInv, Kinds
<1>2. home \in [Exam -> [at : {"none", "list", "trash"}, body : Nat \X Nat, by : {"nobody", "user", "bring"}]]
  BY DEF RunInv, RunTypes
<1>3. UNCHANGED <<file, shelf, source, backup, stick, lost, spot, home>> /\ run.turn <= Len(Exams)
  BY DEF SkipExam, Keep
<1>4. CASE kind = "backup" /\ path[This] = NoFile /\ Past({})
  BY <1>1, <1>2, <1>3, <1>4, PassKeeps DEF Brought
<1>5. CASE kind = "install" /\ old[This].at = "none" /\ Past({})
  BY <1>1, <1>2, <1>3, <1>5, PassKeeps DEF Brought
<1>6. CASE kind = "install" /\ old[This].at = "bad" /\ Past({This})
  BY <1>1, <1>2, <1>3, <1>6, PassKeeps
<1> QED
  BY <1>4, <1>5, <1>6 DEF SkipExam

\* An exam that failed at any of its steps is passed and named.
LEMMA FailKeeps ==
  ASSUME SettingsInv, RunInv, pc[r] \in ExamSteps \union {"bring"}, run.turn <= Len(Exams),
         Past({This}), pc' = [pc EXCEPT ![r] = "bring"], Keep,
         UNCHANGED <<source, backup, stick, lost, home>>
  PROVE  RunInv'
<1>1. home \in [Exam -> [at : {"none", "list", "trash"}, body : Nat \X Nat, by : {"nobody", "user", "bring"}]]
  BY DEF RunInv, RunTypes
<1> QED
  BY <1>1, PassKeeps DEF Keep

\* Making or taking an archive puts a file behind the exam's path.
LEMMA ArchiveKeeps == ASSUME SettingsInv, RunInv, MakeArchive \/ TakeArchive PROVE RunInv'
<1>1. pc[r] = "bring" /\ run.turn <= Len(Exams) /\ This \in Exam
  BY ThisIsExam DEF RunInv, MakeArchive, TakeArchive
<1>2. UNCHANGED <<file, shelf, source, backup, home, lost, spot>>
  BY DEF MakeArchive, TakeArchive, Keep
<1>3. CASE TakeArchive
  <2>1. pc' = [pc EXCEPT ![r] = "open"] /\ UNCHANGED <<run, token, ink, path>>
    BY <1>3 DEF TakeArchive, Goto, stick
  <2>2. path[This] \in Inode
    BY <1>1, <1>3 DEF RunInv, RunTypes, TakeArchive, NoFile, Inode
  <2>3. pc'[r] = "open"
    BY <2>1 DEF SettingsInv, Kinds, r
  <2>4. Extracted'
    BY <2>3 DEF Extracted
  <2> QED
    BY <1>1, <1>2, <2>1, <2>2, <2>4, GoesOnKeeps DEF RunInv, RunTypes, ExamSteps
<1>4. CASE MakeArchive /\ Goto(r, "open") /\ UNCHANGED <<run, token, got, used>>
           /\ path' = [path EXCEPT ![This] = 1]
           /\ ink' = [ink EXCEPT ![This][1].body = <<old[This].gen, old[This].gen>>]
  <2>1. pc' = [pc EXCEPT ![r] = "open"] /\ UNCHANGED <<run, token>> /\ kind = "install"
    BY <1>4 DEF MakeArchive, Goto
  <2>2. pc'[r] = "open"
    BY <2>1 DEF SettingsInv, Kinds, r
  <2>3. Extracted'
    BY <2>2 DEF Extracted
  <2>4. path' \in [Exam -> 0 .. 2] /\ path'[This] \in Inode
    BY <1>1, <1>4 DEF RunInv, RunTypes, Inode
  <2>5. ink' \in [Exam -> [Inode -> [body : Nat \X Nat, stamp : Nat, unseen : Nat]]]
    <3>1. old[This].gen \in Nat /\ 1 \in Inode
      BY <1>1 DEF RunInv, RunTypes, Inode
    <3>2. [ink[This][1] EXCEPT !.body = <<old[This].gen, old[This].gen>>] \in [body : Nat \X Nat, stamp : Nat, unseen : Nat]
      <4>1. ink[This][1] \in [body : Nat \X Nat, stamp : Nat, unseen : Nat]
        BY <1>1, <3>1 DEF RunInv, RunTypes
      <4>2. <<old[This].gen, old[This].gen>> \in Nat \X Nat
        BY <3>1
      <4> QED
        BY <4>1, <4>2
    <3>3. [ink[This] EXCEPT ![1].body = <<old[This].gen, old[This].gen>>] \in [Inode -> [body : Nat \X Nat, stamp : Nat, unseen : Nat]]
      BY <1>1, <3>1, <3>2 DEF RunInv, RunTypes
    <3> QED
      BY <1>1, <1>4, <3>3 DEF RunInv, RunTypes
  <2> QED
    BY <1>1, <1>2, <2>1, <2>3, <2>4, <2>5, GoesOnKeeps DEF RunInv, RunTypes, ExamSteps
<1>5. CASE MakeArchive /\ Past({This}) /\ UNCHANGED <<stick, pc>>
  <2>1. pc' = [pc EXCEPT ![r] = "bring"] /\ Keep
    BY <1>1, <1>5 DEF SettingsInv, Kinds, MakeArchive
  <2> QED
    BY <1>1, <1>2, <1>5, <2>1, FailKeeps
<1> QED
  BY <1>3, <1>4, <1>5 DEF MakeArchive

\* Reading an archive.
Reading ==
  \/ OpenToken \/ ReadManifest("manifest1", "entry1") \/ ReadEntry("entry1", "consume") \/ Consume
  \/ ReadManifest("manifest2", "entry2") \/ ReadEntry("entry2", "extract") \/ ExtractEntry \/ Recheck

LEMMA ReadingKeeps == ASSUME SettingsInv, RunInv, Reading PROVE RunInv'
<1> USE DEF RunInv
<1>1. pc[r] \in {"open", "manifest1", "entry1", "consume", "manifest2", "entry2", "extract", "check"}
  BY DEF Reading, OpenToken, ReadManifest, Consume, ReadEntry, ExtractEntry, Recheck
<1>2. run.turn <= Len(Exams) /\ This \in Exam
  BY <1>1, ThisIsExam DEF Standing, ExamSteps
<1>3. Keep /\ UNCHANGED <<source, backup, stick, home, lost>>
  BY DEF Reading, OpenToken, ReadManifest, Consume, ReadEntry, ExtractEntry, Recheck
<1>4. CASE Past({This}) /\ Goto(r, "bring")
  BY <1>1, <1>2, <1>3, <1>4, FailKeeps DEF ExamSteps, Goto
<1>5. ASSUME NEW l \in ExamSteps \ {"move", "open"}, Goto(r, l), UNCHANGED run,
             token' \in [file : 0 .. 2, stamp : Nat, body : Nat \X Nat, unseen : Nat], pc'[r] = l => Extracted'
      PROVE  RunInv'
  <2>1. pc'[r] = l
    BY <1>5 DEF SettingsInv, Kinds, Goto, r
  <2> QED
    BY <1>1, <1>2, <1>3, <1>5, <2>1, GoesOnKeeps DEF RunTypes, ExamSteps, Keep, Goto, stick
<1>6. CASE OpenToken
  <2> DEFINE F == path[This]
  <2>1. F \in Inode /\ ink[This][F] \in [body : Nat \X Nat, stamp : Nat, unseen : Nat]
    BY <1>2, <1>6 DEF OpenToken, Standing, RunTypes
  <2>2. token' = [file |-> F, stamp |-> ink[This][F].stamp, body |-> ink[This][F].body, unseen |-> 0]
    BY <1>6 DEF OpenToken
  <2>3. token' \in [file : 0 .. 2, stamp : Nat, body : Nat \X Nat, unseen : Nat] /\ token'.file \in Inode
    BY <2>1, <2>2 DEF Inode
  <2>4. pc'[r] = "manifest1" => Extracted'
    BY <2>3 DEF Extracted
  <2> QED
    BY <1>5, <1>6, <2>3, <2>4 DEF OpenToken, ExamSteps
<1>7. ASSUME NEW ok, NEW l \in ExamSteps \ {"move", "open"}, NEW entries, GoOn(ok, l, entries),
             ok /\ pc'[r] = l /\ got' = entries /\ UNCHANGED <<run, token>> => Extracted'
      PROVE  RunInv'
  <2>1. CASE Goto(r, l) /\ got' = entries /\ UNCHANGED <<run, token>> /\ ok
    BY <1>5, <1>7, <2>1 DEF RunTypes
  <2> QED
    BY <1>4, <1>7, <2>1 DEF GoOn
<1>8. UNCHANGED <<run, token>> => UNCHANGED <<Held, This>>
  BY <1>3 DEF Held, This, stick
<1>9. token.file \in Inode => Held \in [body : Nat \X Nat, stamp : Nat, unseen : Nat]
  BY <1>2 DEF Held, RunTypes
<1>10. token \in [file : 0 .. 2, stamp : Nat, body : Nat \X Nat, unseen : Nat]
  BY DEF RunTypes
<1>11. CASE ReadManifest("manifest1", "entry1")
  BY <1>7, <1>8, <1>11 DEF ReadManifest, Extracted, ExamSteps
<1>12. CASE ReadEntry("entry1", "consume")
  BY <1>7, <1>8, <1>12 DEF ReadEntry, Extracted, ExamSteps
<1>13. CASE Consume
  <2>1. CASE SameSource /\ token' = [token EXCEPT !.unseen = Held.unseen] /\ Goto(r, "manifest2") /\ UNCHANGED run
    <3>1. token.file \in Inode
      BY <1>13 DEF Consume, Extracted
    <3>2. /\ token'.file = token.file /\ token'.stamp = token.stamp /\ token'.body = token.body
          /\ token'.unseen = Held.unseen
          /\ token' \in [file : 0 .. 2, stamp : Nat, body : Nat \X Nat, unseen : Nat]
      BY <1>9, <1>10, <2>1, <3>1
    <3>3. Held' = Held
      BY <1>3, <2>1, <3>2 DEF Held, This, stick
    <3>4. Held.stamp = token.stamp /\ Held.body = token.body
      BY <2>1 DEF SameSource
    <3>5. Held.stamp \in Nat /\ Held.unseen \in Nat
      BY <1>9, <3>1
    <3>6. pc'[r] = "manifest2" => Extracted'
      BY <3>1, <3>2, <3>3, <3>4, <3>5 DEF Extracted, Steady
    <3> QED
      BY <1>5, <2>1, <3>2, <3>6 DEF ExamSteps
  <2> QED
    BY <1>4, <1>13, <2>1 DEF Consume
<1>14. CASE ReadManifest("manifest2", "entry2")
  <2>1. pc[r] = "manifest2" /\ token.file \in Inode /\ Steady
    BY <1>14 DEF ReadManifest, Extracted
  <2>2. Held.body[1] \in Nat
    BY <1>9, <2>1
  <2>3. ASSUME pc'[r] = "entry2", got' = <<Held.body[1]>>, UNCHANGED <<run, token>> PROVE Extracted'
    BY <1>8, <2>1, <2>2, <2>3 DEF Extracted, Steady
  <2> QED
    BY <1>7, <1>14, <2>3 DEF ReadManifest, ExamSteps
<1>15. CASE ReadEntry("entry2", "extract")
  <2>1. ASSUME pc'[r] = "extract", got' = got, UNCHANGED <<run, token>> PROVE Extracted'
    BY <1>8, <1>15, <2>1 DEF ReadEntry, Extracted, Steady
  <2> QED
    BY <1>7, <1>15, <2>1 DEF ReadEntry, ExamSteps
<1>16. CASE ExtractEntry
  <2>1. pc[r] = "extract" /\ token.file \in Inode /\ Steady
    BY <1>16 DEF ExtractEntry, Extracted
  <2>2. PICK n \in Nat : got = <<n>>
    BY <2>1 DEF Extracted
  <2>3. EntryHolds => <<got[1], Held.body[2]>> = <<n, n>>
    BY <2>2 DEF EntryHolds
  <2>4. Held.stamp = token.stamp /\ Held.unseen = token.unseen /\ EntryHolds => <<n, n>> = token.body
    <3>1. token.body = <<token.body[1], token.body[2]>>
      BY <1>10
    <3>2. Held.stamp = token.stamp /\ Held.unseen = token.unseen => got[1] = token.body[1] /\ Held.body = token.body
      BY <2>1 DEF Extracted, Steady
    <3> QED
      BY <2>2, <3>1, <3>2 DEF EntryHolds
  <2>5. ASSUME EntryHolds, pc'[r] = "check", got' = <<got[1], Held.body[2]>>, UNCHANGED <<run, token>> PROVE Extracted'
    <3>1. got' = <<n, n>> /\ got' \in Nat \X Nat /\ Whole(got')
      <4>1. got' = <<n, n>>
        BY <2>3, <2>5
      <4>2. <<n, n>> \in Nat \X Nat /\ Whole(<<n, n>>)
        BY DEF Whole
      <4> QED
        BY <4>1, <4>2, Zenon
    <3>2. Held' = Held /\ token' = token /\ This' = This
      BY <1>8, <2>5
    <3>3. Held.stamp >= token.stamp /\ Held.unseen >= token.unseen
      BY <2>1 DEF Extracted
    <3>4. Held.stamp = token.stamp /\ Held.unseen = token.unseen => got' = token.body
      BY <2>4, <2>5, <3>1
    <3>5. Steady'
      BY <2>1, <3>2 DEF Steady
    <3> HIDE DEF RunInv
    <3> QED
      BY <2>1, <2>5, <3>1, <3>2, <3>3, <3>4, <3>5 DEF Extracted
  <2> QED
    BY <1>7, <1>16, <2>5 DEF ExtractEntry, ExamSteps
<1>17. CASE Recheck
  <2>1. pc[r] = "check" /\ token.file \in Inode /\ Steady
    BY <1>17 DEF Recheck, Extracted
  <2>2. SameSource => got = token.body \/ Held.unseen >= token.unseen + 2
    BY <1>9, <1>10, <2>1 DEF Extracted, Steady, SameSource
  <2>3. ASSUME SameSource, pc'[r] = "publish", got' = got, UNCHANGED <<run, token>> PROVE Extracted'
    BY <1>8, <2>1, <2>2, <2>3 DEF Extracted
  <2> QED
    BY <1>7, <1>17, <2>3 DEF Recheck, ExamSteps
<1> QED
  BY <1>6, <1>11, <1>12, <1>13, <1>14, <1>15, <1>16, <1>17 DEF Reading
\* Publishing an exam, and moving it to the trash.
LEMMA PublishKeeps == ASSUME SettingsInv, RunInv, PublishExam PROVE RunInv'
<1> USE DEF RunInv
<1>1. pc[r] = "publish" /\ run.turn <= Len(Exams) /\ This \in Exam /\ got \in Nat \X Nat
  BY ThisIsExam DEF PublishExam, Standing, ExamSteps, Extracted, RunTypes
<1>2. Keep /\ UNCHANGED <<source, backup, stick, lost>>
  BY DEF PublishExam
<1>3. CASE /\ home[This].at = "none" /\ home' = [home EXCEPT ![This] = [at |-> "list", body |-> got, by |-> "bring"]]
           /\ IF FromTrash THEN Goto(r, "move") /\ UNCHANGED <<run, token, got>> ELSE Past({}) /\ Goto(r, "bring")
  <2>1. home' \in [Exam -> [at : {"none", "list", "trash"}, body : Nat \X Nat, by : {"nobody", "user", "bring"}]]
    BY <1>1, <1>3 DEF RunTypes
  <2>2. home'[This] = [at |-> "list", body |-> got, by |-> "bring"] /\ \A e \in Exam \ {This} : home'[e] = home[e]
    BY <1>1, <1>3 DEF RunTypes
  <2>3. CASE ~FromTrash /\ Past({}) /\ Goto(r, "bring")
    BY <1>1, <1>2, <2>1, <2>2, <2>3, PassKeeps DEF ExamSteps, FromTrash, Keep, Goto
  <2>4. CASE FromTrash /\ Goto(r, "move") /\ UNCHANGED <<run, token, got>>
    <3>1. pc'[r] = "move"
      BY <2>4 DEF SettingsInv, Kinds, Goto, r
    <3>2. RunTypes'
      BY <1>2, <2>1, <2>4 DEF RunTypes, Keep, source, stick, shelf
    <3>3. Standing'
      BY <1>1, <1>2, <2>4, <3>1 DEF Standing, ExamSteps, RunSteps, BackedUp
    <3>4. FormKept' /\ Extracted'
      BY <1>1, <2>4, <3>1 DEF FormKept, Extracted, ExamSteps
    <3>5. Telling'
      <4>1. ASSUME NEW i \in 1 .. Len(Exams), i < run.turn PROVE Accounted(Exams[i])'
        <5>1. Accounted(Exams[i]) /\ Exams[i] \in Exam
          BY <1>1, <4>1, ExamsAssumption DEF Telling, RunSteps, ExamSteps
        <5> QED
          BY <1>2, <2>2, <2>4, <5>1 DEF Accounted, Brought, source, stick
      <4>2. ASSUME NEW e \in Exam \ {This}, kind = "install", old[e].at = "trash", home'[e].at = "list", home'[e].by = "bring"
            PROVE  e \in run.told \union run.failed \union lost
        BY <1>1, <2>2, <4>2 DEF Telling
      <4> QED
        BY <1>2, <2>4, <3>1, <4>1, <4>2 DEF Telling, RunSteps, ExamSteps, source, This
    <3> QED
      BY <3>2, <3>3, <3>4, <3>5
  <2> QED
    BY <1>3, <2>3, <2>4
<1>4. CASE home[This].at # "none" /\ Past({}) /\ Goto(r, "bring") /\ UNCHANGED home
  <2>1. home \in [Exam -> [at : {"none", "list", "trash"}, body : Nat \X Nat, by : {"nobody", "user", "bring"}]]
    BY DEF RunTypes
  <2> QED
    BY <1>1, <1>2, <1>4, <2>1, PassKeeps DEF ExamSteps, Keep, Goto
<1>5. CASE Past({This}) /\ Goto(r, "bring") /\ UNCHANGED home
  BY <1>1, <1>2, <1>5, FailKeeps DEF ExamSteps, Goto
<1> QED
  BY <1>3, <1>4, <1>5 DEF PublishExam

\* Moving an exam into the trash tells a failed move.
LEMMA MoveKeeps == ASSUME SettingsInv, RunInv, MoveExam PROVE RunInv'
<1> USE DEF RunInv
<1>1. pc[r] = "move" /\ run.turn <= Len(Exams) /\ This \in Exam /\ Keep /\ Goto(r, "bring")
  BY ThisIsExam DEF MoveExam, Standing, ExamSteps
<1>2. UNCHANGED <<source, backup, stick, lost>>
  BY DEF MoveExam
<1>3. CASE home[This].at = "list" /\ home' = [home EXCEPT ![This].at = "trash"] /\ Past({})
  <2>1. home' \in [Exam -> [at : {"none", "list", "trash"}, body : Nat \X Nat, by : {"nobody", "user", "bring"}]]
    <3>1. [home[This] EXCEPT !.at = "trash"]
            \in [at : {"none", "list", "trash"}, body : Nat \X Nat, by : {"nobody", "user", "bring"}]
      <4>1. home[This] \in [at : {"none", "list", "trash"}, body : Nat \X Nat, by : {"nobody", "user", "bring"}]
        BY <1>1 DEF RunTypes
      <4> QED
        BY <4>1
    <3> QED
      BY <1>3, <3>1 DEF RunTypes
  <2>2. home'[This].at = "trash" /\ \A e \in Exam \ {This} : home'[e] = home[e]
    BY <1>1, <1>3 DEF RunTypes
  <2> QED
    BY <1>1, <1>2, <1>3, <2>1, <2>2, PassKeeps DEF ExamSteps, Keep, Goto
<1>4. CASE Past({This}) /\ UNCHANGED home
  BY <1>1, <1>2, <1>4, FailKeeps DEF ExamSteps, Goto
<1> QED
  BY <1>3, <1>4 DEF MoveExam

-----------------------------------------------------------------------------
\* The form: a run past its last exam.
LEMMA FormKeeps == ASSUME SettingsInv, RunInv, LookForm PROVE RunInv'
<1> USE DEF RunInv
<1>1. pc[r] = "bring" /\ run.turn > Len(Exams) /\ run.name = None
  BY DEF LookForm, FormKept, ExamSteps
<1>2. UNCHANGED <<file, shelf, source, backup, stick, home, token, got, lost>>
  BY DEF LookForm
<1>3. CASE /\ oldform # None /\ FreeNames # {} /\ Goto(r, "bringform") /\ UNCHANGED run
           /\ spot' = [spot EXCEPT ![r] = [name |-> FirstFree, content |-> oldform]]
  <2>1. pc'[r] = "bringform" /\ spot'[r].content = oldform
    BY <1>3 DEF SettingsInv, Kinds, Goto, r
  <2>2. RunTypes'
    BY <1>2, <1>3 DEF RunTypes, source, stick, shelf
  <2>3. Standing' /\ Extracted'
    BY <1>1, <1>2, <1>3, <2>1 DEF Standing, Extracted, ExamSteps, RunSteps, BackedUp
  <2>4. FormKept'
    BY <1>1, <1>2, <1>3, <2>1 DEF FormKept, ExamSteps, source
  <2>5. Telling'
    BY <1>1, <1>2, <1>3, <2>1 DEF Telling, Accounted, Brought, RunSteps, source, stick
  <2> QED
    BY <2>2, <2>3, <2>4, <2>5
<1>4. CASE /\ Goto(r, "settings")
           /\ run' = IF oldform # None /\ Same # {} THEN [run EXCEPT !.name = FirstSame] ELSE run
  <2>1. pc'[r] = "settings"
    BY <1>4 DEF SettingsInv, Kinds, Goto, r
  <2>2. Same # {} => FirstSame \in Name /\ forms[FirstSame] = oldform
    BY FirstSameIsName
  <2>3. /\ run'.turn = run.turn /\ run'.failed = run.failed /\ run'.told = run.told
        /\ run' \in [turn : Nat \ {0}, fresh : BOOLEAN, failed : SUBSET Exam, name : Name \union {None},
                    told : SUBSET Exam, answer : {"none", "ok", "error"}]
        /\ run'.name # None => oldform # None /\ forms[run'.name] = oldform
    BY <1>1, <1>4, <2>2 DEF RunTypes
  <2>4. RunTypes'
    BY <1>2, <2>3 DEF RunTypes, source, stick, shelf
  <2>5. Standing' /\ Extracted'
    BY <1>1, <1>2, <2>1, <2>3 DEF Standing, Extracted, ExamSteps, RunSteps, BackedUp
  <2>6. FormKept'
    BY <1>2, <2>1, <2>3 DEF FormKept, ExamSteps, source, shelf
  <2>7. Telling'
    BY <1>1, <1>2, <2>1, <2>3 DEF Telling, Accounted, Brought, RunSteps, source, stick
  <2> QED
    BY <2>4, <2>5, <2>6, <2>7
<1> QED
  BY <1>3, <1>4 DEF LookForm

\* Writing the brought form gives the run its name here.
LEMMA BringFormKeeps == ASSUME SettingsInv, RunInv, BringForm PROVE RunInv'
<1> USE DEF RunInv
<1>1. /\ pc[r] = "bringform" /\ run.name = None /\ oldform # None /\ spot[r].content = oldform
      /\ spot[r].name \in Name
  BY DEF BringForm, FormKept, SettingsInv, Kinds, r
<1>2. UNCHANGED <<file, source, backup, stick, home, token, got, lost>>
  BY DEF BringForm
<1>3. pc'[r] = "settings"
  BY DEF BringForm, SettingsInv, Kinds, Goto, r
<1>4. /\ run'.turn = run.turn /\ run'.failed = run.failed /\ run'.told = run.told
      /\ run' \in [turn : Nat \ {0}, fresh : BOOLEAN, failed : SUBSET Exam, name : Name \union {None},
                  told : SUBSET Exam, answer : {"none", "ok", "error"}]
      /\ forms' \in [Name -> Content \union {None}] /\ over' \in SUBSET Name
      /\ run'.name # None => forms'[run'.name] = oldform
  <2>1. CASE Put(r) /\ run' = [run EXCEPT !.name = spot[r].name]
    BY <1>1, <2>1 DEF Put, RunTypes, SettingsInv, Kinds
  <2>2. CASE UNCHANGED <<shelf, run>>
    BY <1>1, <2>2 DEF RunTypes, shelf
  <2> QED
    BY <2>1, <2>2 DEF BringForm
<1>5. RunTypes'
  BY <1>2, <1>4 DEF RunTypes, source, stick
<1>6. Standing' /\ Extracted'
  BY <1>1, <1>2, <1>3, <1>4 DEF Standing, Extracted, ExamSteps, RunSteps, BackedUp
<1>7. FormKept'
  BY <1>1, <1>2, <1>3, <1>4 DEF FormKept, ExamSteps, source
<1>8. Telling'
  BY <1>1, <1>2, <1>3, <1>4 DEF Telling, Accounted, Brought, RunSteps, source, stick
<1> QED
  BY <1>5, <1>6, <1>7, <1>8

\* The settings, and the beginning and the end of a run.
LEMMA AnswerKeeps == ASSUME SettingsInv, RunInv, BringSettings PROVE RunInv'
<1> USE DEF RunInv
<1>1. pc[r] = "settings" /\ pc'[r] = "reload"
  BY DEF BringSettings, SettingsInv, Kinds, Goto, r
<1>2. UNCHANGED <<shelf, source, backup, stick, home, token, got, lost>>
  BY DEF BringSettings
<1>3. /\ run'.turn = run.turn /\ run'.failed = run.failed /\ run'.told = run.told \union run.failed
      /\ run' \in [turn : Nat \ {0}, fresh : BOOLEAN, failed : SUBSET Exam, name : Name \union {None},
                  told : SUBSET Exam, answer : {"none", "ok", "error"}]
  BY DEF BringSettings, Answered, RunTypes
<1>4. RunTypes'
  BY <1>2, <1>3 DEF RunTypes, source, stick, shelf
<1>5. Standing' /\ Extracted' /\ FormKept'
  BY <1>1, <1>2, <1>3 DEF Standing, Extracted, FormKept, ExamSteps, RunSteps, BackedUp
<1>6. Telling'
  BY <1>1, <1>2, <1>3 DEF Telling, Accounted, Brought, RunSteps, source, stick
<1> QED
  BY <1>4, <1>5, <1>6

\* The answer names every exam that failed.
LEMMA ReloadKeeps == ASSUME SettingsInv, RunInv, Reload PROVE RunInv'
<1> USE DEF RunInv
<1>1. pc[r] = "reload" /\ pc'[r] = "ready"
  BY DEF Reload, SettingsInv, Kinds, Goto, r
<1>2. UNCHANGED <<shelf, source, backup, stick, home, run, token, got, lost>>
  BY DEF Reload, world, bringing
<1>3. RunTypes'
  BY <1>2 DEF RunTypes, source, stick, shelf
<1>4. Standing' /\ Extracted' /\ FormKept'
  BY <1>1 DEF Standing, Extracted, FormKept, ExamSteps, RunSteps
<1>5. Telling'
  BY <1>1, <1>2 DEF Telling, RunSteps, ExamSteps, source, This
<1> QED
  BY <1>3, <1>4, <1>5

\* A run starts with nothing passed, and remembers what was told before.
LEMMA StartKeeps == ASSUME SettingsInv, RunInv, StartBring PROVE RunInv'
<1> USE DEF RunInv
<1>1. pc[r] = "ready" /\ pc'[r] = "bring" /\ BackedUp
  BY DEF StartBring, SettingsInv, Kinds, Goto, r
<1>2. UNCHANGED <<shelf, source, backup, stick, home, token, got, lost>>
  BY DEF StartBring, Keep
<1>3. /\ run'.turn = 1 /\ run'.failed = {} /\ run'.told = run.told /\ run'.name = None
      /\ run' \in [turn : Nat \ {0}, fresh : BOOLEAN, failed : SUBSET Exam, name : Name \union {None},
                  told : SUBSET Exam, answer : {"none", "ok", "error"}]
  <2>1. run' = [NoRun EXCEPT !.told = run.told, !.fresh = \A e \in Exam : home[e].at # "list"]
    BY DEF StartBring
  <2>2. (\A e \in Exam : home[e].at # "list") \in BOOLEAN
    OBVIOUS
  <2>3. run.told \in SUBSET Exam
    BY DEF RunTypes
  <2>4. PICK b \in BOOLEAN : run' = [NoRun EXCEPT !.told = run.told, !.fresh = b]
    BY <2>1, <2>2
  <2>5. run' = [turn |-> 1, fresh |-> b, failed |-> {}, name |-> None, told |-> run.told, answer |-> "none"]
    BY <2>4 DEF NoRun
  <2> QED
    BY <2>3, <2>5
<1>4. RunTypes'
  BY <1>2, <1>3 DEF RunTypes, source, stick, shelf
<1>5. Standing' /\ Extracted' /\ FormKept'
  BY <1>1, <1>2, <1>3 DEF Standing, Extracted, FormKept, ExamSteps, RunSteps, BackedUp
<1>6. Telling'
  BY <1>1, <1>2, <1>3 DEF Telling, RunSteps, ExamSteps, source
<1> QED
  BY <1>4, <1>5, <1>6

\* A run that is cut off loses what it had not told yet.
LEMMA CutOffKeeps == ASSUME SettingsInv, RunInv, CutOff PROVE RunInv'
<1> USE DEF RunInv
<1>1. pc'[r] \in {"ready", "off"} /\ pc[r] \in ExamSteps \union {"bring", "bringform", "settings"}
  BY DEF CutOff, SettingsInv, Kinds, Goto, r, ExamSteps
<1>2. UNCHANGED <<shelf, source, backup, stick, home>>
  BY DEF CutOff, Keep
<1>3. /\ run'.failed = {} /\ run'.told = run.told
      /\ run' \in [turn : Nat \ {0}, fresh : BOOLEAN, failed : SUBSET Exam, name : Name \union {None},
                  told : SUBSET Exam, answer : {"none", "ok", "error"}]
  <2>1. run' = [NoRun EXCEPT !.told = run.told, !.answer = "error"]
    BY DEF CutOff
  <2>2. run' = [turn |-> 1, fresh |-> FALSE, failed |-> {}, name |-> None, told |-> run.told, answer |-> "error"]
    BY <2>1 DEF NoRun
  <2>3. run.told \in SUBSET Exam
    BY DEF RunTypes
  <2> QED
    BY <2>2, <2>3
<1>4. token' \in [file : 0 .. 2, stamp : Nat, body : Nat \X Nat, unseen : Nat]
  BY DEF CutOff, NoToken, NoFile, Other
<1>5. lost' \in SUBSET Exam /\ run.failed \union lost \subseteq lost' /\ (pc[r] = "move" => This \in lost')
  BY ThisIsExam DEF CutOff, RunTypes, Standing, ExamSteps
<1>6. RunTypes'
  BY <1>2, <1>3, <1>4, <1>5 DEF RunTypes, source, stick, shelf
<1>7. Standing' /\ Extracted' /\ FormKept'
  BY <1>1 DEF Standing, Extracted, FormKept, ExamSteps, RunSteps
<1>8. Telling'
  BY <1>1, <1>2, <1>3, <1>5 DEF Telling, RunSteps, ExamSteps, source
<1> QED
  BY <1>6, <1>7, <1>8
\* So the whole run keeps the invariant.
LEMMA BringKeepsRun == ASSUME SettingsInv, RunInv, Bring PROVE RunInv'
BY StartKeeps, SkipKeeps, ArchiveKeeps, ReadingKeeps, PublishKeeps, MoveKeeps, FormKeeps, BringFormKeeps,
   AnswerKeeps, ReloadKeeps, CutOffKeeps
DEF Bring, Reading

-----------------------------------------------------------------------------
\* The backup is made before a run, from a folder in use.
LEMMA BackupKeeps == ASSUME SettingsInv, RunInv, SkipBackup \/ LeaseExam \/ ExportExam PROVE RunInv'
<1> USE DEF RunInv
<1>1. ~BackedUp /\ pc[r] \notin RunSteps
  BY DEF SkipBackup, LeaseExam, ExportExam, Standing
<1>2. Backing \in Exam
  <2>1. backup.turn \in 1 .. Len(Exams)
    BY <1>1 DEF BackedUp, RunTypes
  <2> QED
    BY <2>1, ExamsAssumption DEF Backing
<1>3. UNCHANGED <<file, shelf, local, source, home, bringing>>
  BY DEF SkipBackup, LeaseExam, ExportExam, stock
<1>4. RunTypes'
  <2>1. old[Backing].gen \in Nat /\ backup \in [turn : Nat \ {0}, lease : Nat]
    BY <1>2 DEF RunTypes
  <2>2. backup' \in [turn : Nat \ {0}, lease : Nat]
    BY <2>1 DEF SkipBackup, LeaseExam, ExportExam
  <2>3. path' \in [Exam -> 0 .. 2]
    <3>1. path' = [path EXCEPT ![Backing] = 1] \/ path' = path
      BY DEF SkipBackup, LeaseExam, ExportExam, stick
    <3>2. path \in [Exam -> 0 .. 2] /\ [path EXCEPT ![Backing] = 1] \in [Exam -> 0 .. 2]
      BY <1>2 DEF RunTypes
    <3> QED
      BY <3>1, <3>2
  <2>4. ink' \in [Exam -> [Inode -> [body : Nat \X Nat, stamp : Nat, unseen : Nat]]]
    <3>1. CASE ink' = [ink EXCEPT ![Backing][1].body = <<old[Backing].gen, backup.lease>>]
      <4>1. ink[Backing] \in [Inode -> [body : Nat \X Nat, stamp : Nat, unseen : Nat]] /\ 1 \in Inode
        BY <1>2 DEF RunTypes, Inode
      <4>2. ink[Backing][1] \in [body : Nat \X Nat, stamp : Nat, unseen : Nat]
        BY <4>1
      <4>3. <<old[Backing].gen, backup.lease>> \in Nat \X Nat
        BY <2>1
      <4>4. [ink[Backing][1] EXCEPT !.body = <<old[Backing].gen, backup.lease>>] \in [body : Nat \X Nat, stamp : Nat, unseen : Nat]
        BY <4>2, <4>3
      <4>5. [ink[Backing] EXCEPT ![1].body = <<old[Backing].gen, backup.lease>>]
              \in [Inode -> [body : Nat \X Nat, stamp : Nat, unseen : Nat]]
        BY <4>1, <4>4
      <4> QED
        BY <1>2, <3>1, <4>5 DEF RunTypes
    <3>2. CASE UNCHANGED ink
      BY <3>2 DEF RunTypes
    <3> QED
      BY <3>1, <3>2 DEF SkipBackup, LeaseExam, ExportExam, stick
  <2> QED
    BY <1>3, <2>2, <2>3, <2>4 DEF RunTypes, source, bringing, shelf
<1>5. Standing' /\ FormKept' /\ Extracted' /\ Telling'
  BY <1>1, <1>3 DEF Standing, FormKept, Extracted, Telling, RunSteps, ExamSteps, local, source, bringing
<1> QED
  BY <1>4, <1>5

\* Whatever users do with the other folder, the archives and the exams here.
LEMMA OthersKeep ==
  ASSUME SettingsInv, RunInv, NEW e \in Exam, OldSave(e) \/ Tamper(e) \/ User(e)
  PROVE  RunInv'
<1> USE DEF RunInv
<1>1. CASE OldSave(e)
  <2>1. UNCHANGED <<stock, kind, oldform, oldconfig, backup, stick, home, bringing>>
    BY <1>1 DEF OldSave
  <2>2. old' \in [Exam -> [at : {"none", "list", "trash", "bad"}, gen : Nat]]
        /\ \A x \in Exam : old'[x].at = old[x].at
    <3>1. old[e] \in [at : {"none", "list", "trash", "bad"}, gen : Nat]
      BY DEF RunTypes
    <3>2. [at |-> old[e].at, gen |-> old[e].gen + 1] \in [at : {"none", "list", "trash", "bad"}, gen : Nat]
      BY <3>1
    <3>3. old' = [old EXCEPT ![e] = [at |-> old[e].at, gen |-> old[e].gen + 1]]
      BY <1>1 DEF OldSave
    <3> QED
      BY <3>2, <3>3 DEF RunTypes
  <2>3. RunTypes'
    BY <2>1, <2>2 DEF RunTypes, stock, stick, bringing, shelf
  <2>4. Standing' /\ FormKept' /\ Extracted'
    BY <2>1 DEF Standing, FormKept, Extracted, Steady, Held, BackedUp, This, stock, stick, bringing, shelf, local
  <2>5. Telling'
    <3>1. ASSUME NEW i \in 1 .. Len(Exams) PROVE Accounted(Exams[i]) => Accounted(Exams[i])'
      BY <2>1, <2>2, ExamsAssumption DEF Accounted, Brought, stick, bringing
    <3> QED
      BY <2>1, <2>2, <3>1 DEF Telling, This, stock, stick, bringing, local
  <2> QED
    BY <2>3, <2>4, <2>5
<1>2. CASE Tamper(e)
  <2>1. UNCHANGED <<file, shelf, local, source, backup, home, bringing>> /\ path[e] # NoFile
    BY <1>2 DEF Tamper
  <2>2. path' \in [Exam -> 0 .. 2] /\ \A x \in Exam : (path'[x] = path[x] \/ (path[x] # NoFile /\ path'[x] = 2))
    <3>1. path' = [path EXCEPT ![e] = 2] \/ path' = path
      BY <1>2 DEF Tamper
    <3>2. path \in [Exam -> 0 .. 2]
      BY DEF RunTypes
    <3> QED
      BY <2>1, <3>1, <3>2
  <2>3. path[e] \in Inode /\ ink[e][path[e]] \in [body : Nat \X Nat, stamp : Nat, unseen : Nat]
    BY <2>1 DEF RunTypes, NoFile, Inode
  <2> DEFINE Old == ink[e][path[e]]
  <2>8. PICK new \in [body : Nat \X Nat, stamp : Nat, unseen : Nat] :
          /\ ink' = [ink EXCEPT ![e][path[e]] = new] \/ ink' = ink
          /\ new.stamp >= Old.stamp /\ new.unseen >= Old.unseen
          /\ new.stamp = Old.stamp => new = Old \/ (new.unseen = Old.unseen + 1 /\ new.body # Old.body)
    <3>1. CASE ink' = ink
      <4>1. Old.stamp >= Old.stamp /\ Old.unseen >= Old.unseen
        BY <2>3
      <4> QED
        BY <2>3, <3>1, <4>1
    <3>2. CASE \E m, v \in {Other, 1}, t \in {0, 1} :
               /\ <<m, v>> # Old.body
               /\ ink' = [ink EXCEPT ![e][path[e]] =
                            [body |-> <<m, v>>, stamp |-> @.stamp + t, unseen |-> @.unseen + 1 - t]]
      <4>1. PICK m, v \in {Other, 1}, t \in {0, 1} :
               /\ <<m, v>> # Old.body
               /\ ink' = [ink EXCEPT ![e][path[e]] =
                            [body |-> <<m, v>>, stamp |-> @.stamp + t, unseen |-> @.unseen + 1 - t]]
        BY <3>2, Zenon
      <4> DEFINE New == [body |-> <<m, v>>, stamp |-> Old.stamp + t, unseen |-> Old.unseen + 1 - t]
      <4>2. ink' = [ink EXCEPT ![e][path[e]] = New]
        BY <4>1, Zenon
      <4>3. New \in [body : Nat \X Nat, stamp : Nat, unseen : Nat] /\ New.stamp >= Old.stamp
            /\ New.unseen >= Old.unseen
        BY <2>3 DEF Other
      <4>4. New.stamp = Old.stamp => New.unseen = Old.unseen + 1 /\ New.body # Old.body
        BY <2>3, <4>1
      <4> QED
        BY <4>2, <4>3, <4>4
    <3> QED
      BY <1>2, <3>1, <3>2, Zenon DEF Tamper
  <2>9. ink' \in [Exam -> [Inode -> [body : Nat \X Nat, stamp : Nat, unseen : Nat]]]
    <3>1. ink \in [Exam -> [Inode -> [body : Nat \X Nat, stamp : Nat, unseen : Nat]]]
      BY DEF RunTypes
    <3>2. [ink[e] EXCEPT ![path[e]] = new] \in [Inode -> [body : Nat \X Nat, stamp : Nat, unseen : Nat]]
      BY <2>3, <2>8, <3>1
    <3> QED
      BY <2>8, <3>1, <3>2
  <2>4. RunTypes'
    BY <2>1, <2>2, <2>9 DEF RunTypes, source, bringing, shelf
  <2>5. Standing'
    <3>1. pc[r] = "open" => path'[This] \in Inode
      BY <2>2, ThisIsExam DEF Standing, ExamSteps, Inode
    <3> QED
      BY <2>1, <3>1 DEF Standing, BackedUp, This, bringing, local
  <2>6. FormKept' /\ Extracted'
    <3>1. pc' = pc /\ token' = token /\ got' = got /\ This' = This
      BY <2>1 DEF local, bringing, This
    <3>2. FormKept'
      BY <2>1 DEF FormKept, source, bringing, shelf, local
    <3>3. CASE pc[r] \notin {"manifest2", "entry2", "extract", "check", "publish"}
      BY <3>1, <3>2, <3>3 DEF Extracted
    <3>4. CASE pc[r] \in {"manifest2", "entry2", "extract", "check", "publish"}
      <4>1. This \in Exam /\ token.file \in Inode
        BY <3>4, ThisIsExam DEF Standing, ExamSteps, Extracted
      <4>2. Held \in [body : Nat \X Nat, stamp : Nat, unseen : Nat]
            /\ token \in [file : 0 .. 2, stamp : Nat, body : Nat \X Nat, unseen : Nat]
        BY <4>1 DEF Held, RunTypes
      <4>3. Held' = Held \/ (Held' = new /\ Held = Old)
        <5>1. ink \in [Exam -> [Inode -> [body : Nat \X Nat, stamp : Nat, unseen : Nat]]]
          BY DEF RunTypes
        <5>2. Held' = ink'[This][token.file]
          BY <3>1 DEF Held
        <5>3. CASE ink' = ink
          BY <5>2, <5>3 DEF Held
        <5>4. CASE ink' = [ink EXCEPT ![e][path[e]] = new]
          <6>1. CASE This = e /\ token.file = path[e]
            BY <2>3, <4>1, <5>1, <5>2, <5>4, <6>1 DEF Held
          <6>2. CASE This = e /\ token.file # path[e]
            BY <2>3, <4>1, <5>1, <5>2, <5>4, <6>2 DEF Held
          <6>3. CASE This # e
            BY <2>3, <4>1, <5>1, <5>2, <5>4, <6>3 DEF Held
          <6> QED
            BY <6>1, <6>2, <6>3
        <5> QED
          BY <2>8, <5>3, <5>4
      <4>4. /\ Held'.stamp >= Held.stamp /\ Held'.unseen >= Held.unseen
            /\ Held'.stamp = Held.stamp => Held' = Held \/ (Held'.unseen = Held.unseen + 1 /\ Held'.body # Held.body)
            /\ Held' \in [body : Nat \X Nat, stamp : Nat, unseen : Nat]
        BY <2>8, <4>2, <4>3
      <4>5. Held.stamp >= token.stamp /\ Held.unseen >= token.unseen
        BY <3>4 DEF Extracted
      <4>6. Held'.stamp >= token.stamp /\ Held'.unseen >= token.unseen
        BY <4>2, <4>4, <4>5
      <4>7. Held'.stamp = token.stamp /\ Held'.unseen = token.unseen
              => Held' = Held /\ Held.stamp = token.stamp /\ Held.unseen = token.unseen
        BY <4>2, <4>4, <4>5
      <4>8. Steady => Steady'
        <5>1. SUFFICES ASSUME Steady, Held'.stamp = token.stamp
                       PROVE  /\ Held'.unseen = token.unseen => Held'.body = token.body
                              /\ Held'.unseen = token.unseen + 1 => Held'.body # token.body
          BY <3>1 DEF Steady
        <5>2. Held.stamp = token.stamp /\ Held'.stamp = Held.stamp
          BY <4>2, <4>4, <4>5, <5>1
        <5>3. CASE Held' = Held
          BY <5>1, <5>2, <5>3 DEF Steady
        <5>4. CASE Held'.unseen = Held.unseen + 1 /\ Held'.body # Held.body
          BY <4>2, <4>4, <4>5, <5>1, <5>2, <5>4 DEF Steady
        <5> QED
          BY <4>4, <5>2, <5>3, <5>4
      <4>9. Held.unseen >= token.unseen + 2 => Held'.unseen >= token.unseen + 2
        BY <4>2, <4>4
      <4> QED
        BY <3>1, <3>2, <4>1, <4>6, <4>7, <4>8, <4>9 DEF Extracted
    <3> QED
      BY <3>2, <3>3, <3>4
  <2>7. Telling'
    <3>1. ASSUME NEW i \in 1 .. Len(Exams) PROVE Accounted(Exams[i]) => Accounted(Exams[i])'
      BY <2>1, <2>2, ExamsAssumption DEF Accounted, Brought, source, bringing
    <3> QED
      BY <2>1, <3>1 DEF Telling, This, source, bringing, local
  <2> QED
    BY <2>4, <2>5, <2>6, <2>7
<1>3. CASE User(e)
  <2>1. UNCHANGED <<file, shelf, local, source, backup, stick, bringing>>
    BY <1>3 DEF User
  <2>2. home' \in [Exam -> [at : {"none", "list", "trash"}, body : Nat \X Nat, by : {"nobody", "user", "bring"}]]
    <3>1. home[e] \in [at : {"none", "list", "trash"}, body : Nat \X Nat, by : {"nobody", "user", "bring"}]
      BY DEF RunTypes
    <3>2. PICK h \in [at : {"none", "list", "trash"}, body : Nat \X Nat, by : {"nobody", "user", "bring"}] :
            home' = [home EXCEPT ![e] = h]
      <4>1. [at |-> home[e].at, body |-> <<3, 3>>, by |-> home[e].by]
              \in [at : {"none", "list", "trash"}, body : Nat \X Nat, by : {"nobody", "user", "bring"}]
        BY <3>1
      <4>2. [home[e] EXCEPT !.body = <<3, 3>>] = [at |-> home[e].at, body |-> <<3, 3>>, by |-> home[e].by]
        BY <3>1
      <4>3. ASSUME NEW a \in {"list", "trash", "none"}
            PROVE  [at |-> a, body |-> home[e].body, by |-> "user"]
                     \in [at : {"none", "list", "trash"}, body : Nat \X Nat, by : {"nobody", "user", "bring"}]
        BY <3>1
      <4>4. PICK a \in {"list", "trash", "none"} :
              home' = [home EXCEPT ![e] = IF a = home[e].at THEN [home[e] EXCEPT !.body = <<3, 3>>]
                                          ELSE [at |-> a, body |-> home[e].body, by |-> "user"]]
        BY <1>3 DEF User
      <4>5. CASE a = home[e].at
        BY <4>1, <4>2, <4>4, <4>5
      <4>6. CASE a # home[e].at
        BY <4>3, <4>4, <4>6
      <4> QED
        BY <4>5, <4>6
    <3> QED
      BY <3>2 DEF RunTypes
  <2>3. \A x \in Exam : \/ home'[x].at = home[x].at /\ home'[x].by = home[x].by
                        \/ home'[x].by = "user"
    BY <1>3 DEF User, RunTypes
  <2>4. RunTypes'
    BY <2>1, <2>2 DEF RunTypes, source, stick, bringing, shelf
  <2>5. Standing' /\ FormKept' /\ Extracted'
    BY <2>1 DEF Standing, FormKept, Extracted, Steady, Held, BackedUp, This, source, stick, bringing, shelf, local
  <2>6. Telling'
    <3>1. ASSUME NEW i \in 1 .. Len(Exams) PROVE Accounted(Exams[i]) => Accounted(Exams[i])'
      BY <2>1, <2>3, ExamsAssumption DEF Accounted, Brought, source, stick, bringing
    <3> QED
      BY <2>1, <2>3, <3>1 DEF Telling, This, source, stick, bringing, local
  <2> QED
    BY <2>4, <2>5, <2>6
<1> QED
  BY <1>1, <1>2, <1>3

\* So every step keeps the invariant.
LEMMA NextKeepsRun == ASSUME SettingsInv, RunInv, [TransferNext]_transfer PROVE RunInv'
<1>1. CASE UNCHANGED transfer
  BY <1>1 DEF transfer, stock, world, source, stick, bringing, shelf, local, RunInv, RunTypes, Standing, FormKept,
       Extracted, Steady, Held, Telling, Accounted, Brought, BackedUp, This
<1> QED
  BY <1>1, BackupKeeps, BringKeepsRun, OthersKeep, StockKeepsRun DEF TransferNext

-----------------------------------------------------------------------------
\* What a run extracted, named and told is right, whoever works with the archives, the
\* exams, the forms and the settings meanwhile.
THEOREM RunRight == TransferSpec => []RunInv
<1>1. TransferInit => RunInv
  BY InitRun
<1>2. SettingsInv /\ RunInv /\ [TransferNext]_transfer => RunInv'
  BY NextKeepsRun
<1> QED
  BY <1>1, <1>2, SettingsHeld, PTL DEF TransferSpec

\* When a run answers, every exam it was to bring is here or named.
THEOREM RunTellsAll == TransferSpec => []BringTellsAll
<1>1. RunInv => BringTellsAll
  <2> SUFFICES ASSUME RunInv PROVE BringTellsAll
    OBVIOUS
  <2>1. ASSUME pc[r] = "reload", NEW e \in Exam, Brought(e)
        PROVE  home[e].at # "none" \/ e \in run.failed \/ home[e].by = "user"
    <3>1. PICK i \in 1 .. Len(Exams) : Exams[i] = e
      BY ExamsAssumption DEF Exam
    <3>2. i < run.turn
      BY <2>1 DEF RunInv, RunTypes, Standing
    <3> QED
      BY <2>1, <3>1, <3>2 DEF RunInv, Telling, RunSteps, Accounted
  <2>2. ASSUME NEW e \in Exam, kind = "install", old[e].at = "trash", home[e].at = "list", home[e].by = "bring"
        PROVE  e \in run.told \union run.failed \union lost \/ (pc[r] = "move" /\ This = e)
    BY <2>2 DEF RunInv, Telling
  <2> QED
    BY <2>1, <2>2 DEF BringTellsAll
<1> QED
  BY <1>1, RunRight, PTL

\* An exam comes into the list from an archive as one generation: the one validated, or
\* one the archive held between two changes of it that left its time stamp alone.
THEOREM RestoredAsChecked == TransferSpec => RestoresWhatWasChecked
<1>1. SettingsInv /\ RunInv /\ [TransferNext]_transfer
        => [\A e \in Exam : Appears(e) =>
              /\ Whole(home'[e].body)
              /\ home'[e].body = token.body \/ ink[e][token.file].unseen >= token.unseen + 2]_transfer
  <2> SUFFICES ASSUME SettingsInv, RunInv, TransferNext, NEW e \in Exam, home[e].at = "none", home'[e].at # "none"
               PROVE  /\ Whole(home'[e].body)
                      /\ home'[e].body = token.body \/ ink[e][token.file].unseen >= token.unseen + 2
    BY DEF Appears
  <2>1. CASE PublishExam
    <3>1. pc[r] = "publish" /\ Whole(got) /\ (got = token.body \/ Held.unseen >= token.unseen + 2)
      BY <2>1 DEF PublishExam, RunInv, Extracted
    <3>2. home' = [home EXCEPT ![This] = [at |-> "list", body |-> got, by |-> "bring"]]
      BY <2>1 DEF PublishExam
    <3>3. e = This /\ home'[e].body = got
      BY <3>2 DEF RunInv, RunTypes
    <3> QED
      BY <3>1, <3>3 DEF Held
  <2>2. CASE MoveExam
    BY <2>2 DEF MoveExam, RunInv, RunTypes
  <2>3. CASE \E x \in Exam : User(x)
    BY <2>3 DEF User, RunInv, RunTypes
  <2>4. CASE UNCHANGED home
    BY <2>4
  <2> QED
    BY <2>1, <2>2, <2>3, <2>4
    DEF TransferNext, Bring, SkipBackup, LeaseExam, ExportExam, OldSave, Tamper, StartBring, SkipExam, MakeArchive,
        TakeArchive, OpenToken, ReadManifest, Consume, ReadEntry, ExtractEntry, Recheck, LookForm, BringForm,
        BringSettings, Reload, CutOff, world
<1> QED
  BY <1>1, RunRight, SettingsHeld, PTL DEF TransferSpec, RestoresWhatWasChecked

\* The settings that come along name the form they named.
THEOREM FormFollows == TransferSpec => DefaultFollows
<1>1. SettingsInv /\ RunInv /\ [TransferNext]_transfer
        => [(pc[r] = "settings" /\ by' = "bring" /\ config' # config)
              => \/ config'.form = None \/ run.name = None
                 \/ forms[config'.form] = oldform \/ config'.form \in over]_transfer
  <2> SUFFICES ASSUME SettingsInv, RunInv, TransferNext, pc[r] = "settings", by' = "bring", config' # config,
                      config'.form # None, run.name # None
               PROVE  forms[config'.form] = oldform \/ config'.form \in over
    OBVIOUS
  <2>1. BringsSettings /\ config' = Renamed(oldconfig)
    <3>1. CASE Bring
      BY <3>1 DEF Bring, StartBring, SkipExam, MakeArchive, TakeArchive, OpenToken, ReadManifest, Consume, ReadEntry,
           ExtractEntry, Recheck,
           PublishExam, MoveExam, LookForm, BringForm, BringSettings, Reload, CutOff, Keep, file
    <3>2. ASSUME NEW p \in Proc, Stock(p) PROVE FALSE
      BY <3>2 DEF Stock, Open, WriteDefault, Compare, Write, FinishSave, PutForm, AskSave, LookToSave, LookToImport, file
    <3> QED
      BY <3>1, <3>2 DEF TransferNext, SkipBackup, LeaseExam, ExportExam, OldSave, Tamper, User, stock, file
  <2>2. oldconfig \in Setting
    BY <2>1 DEF SettingsInv, Kinds, BringsSettings
  <2>3. config'.form = run.name
    BY <2>1, <2>2 DEF Renamed, Setting
  <2> QED
    BY <2>3 DEF RunInv, FormKept
<1> QED
  BY <1>1, RunRight, SettingsHeld, PTL DEF TransferSpec, DefaultFollows
=============================================================================
