------------------------------- MODULE Catalog ------------------------------
(***************************************************************************)
(* The settings (config.json) and the answer-sheet forms (Profiles/) of a  *)
(* program folder, which several programs may have open at once.           *)
(*                                                                         *)
(* The settings page saves by compare-and-replace under the gate           *)
(* .locks/config.lock (config_store.py).  The first start and the import   *)
(* of another folder write config.json without it.  A form is written to a *)
(* name that was looked at before (profile_store.py).                      *)
(***************************************************************************)
EXTENDS Integers, Sequences, FiniteSets

CONSTANTS
  Proc,      (* programs                                            *)
  NoProc,    (* nobody                                              *)
  Names,     (* a form file name, then the names save_generated     *)
             (* tries after it                                      *)
  Content,   (* contents of form files                              *)
  None,      (* no form, or no file                                 *)
  Tune,      (* sensitivity and multiprocessing                     *)
  Plain,     (* their defaults                                      *)
  Rev,       (* config_revision: a hash of the settings             *)
  Budget     (* bound: page saves and form used begun             *)

Name    == {Names[i] : i \in DOMAIN Names}
Setting == [form : Name \union {None}, tune : Tune]
Default == [form |-> None, tune |-> Plain]

ASSUME ProcAssumption    == NoProc \notin Proc
ASSUME NamesAssumption   == 1 \in DOMAIN Names /\ DOMAIN Names \subseteq Nat
ASSUME SettingAssumption == Plain \in Tune /\ None \notin Name /\ None \notin Setting
ASSUME RevAssumption     ==
  /\ Rev \in [Setting -> Nat \ {0}]
  /\ \A s, t \in Setting : Rev[s] = Rev[t] => s = t

VARIABLES
  config, \* config.json, or None while there is no file
  by,     \* what wrote it last: a page, the first start, or an import
  gate,   \* who holds config.lock
  forms,  \* the content of each form file, or None
  over,   \* the form files that were ever written over
  pc,     \* what each program does next
  known,  \* the settings its page shows and compares with
  want,   \* the settings it is saving
  spot,   \* the form it is writing: its name and content
  used

file   == <<config, by, gate>>
shelf  == <<forms, over>>
local  == <<pc, known, want, spot>>
stock  == <<file, shelf, local, used>>

NoSpot == [name |-> Names[1], content |-> None]

Goto(p, l) == pc' = [pc EXCEPT ![p] = l]
Count      == used < Budget /\ used' = used + 1

\* _current_config_for_compare: a missing file counts as the defaults.
Current == IF config = None THEN Default ELSE config

StockInit ==
  /\ config \in {None, Default} /\ by = "start" /\ gate = NoProc
  /\ forms = [n \in Name |-> None] /\ over = {}
  /\ pc = [p \in Proc |-> "off"] /\ known = [p \in Proc |-> Default]
  /\ want = [p \in Proc |-> Default] /\ spot = [p \in Proc |-> NoSpot] /\ used = 0

-----------------------------------------------------------------------------
(***************************************************************************)
(* Settings                                                                *)
(***************************************************************************)
\* A program starts and its page reads the settings.
Open(p) ==
  /\ pc[p] = "off"
  /\ IF config = None
     THEN Goto(p, "first") /\ UNCHANGED known
     ELSE Goto(p, "ready") /\ known' = [known EXCEPT ![p] = config]
  /\ UNCHANGED <<file, shelf, want, spot, used>>

\* It found no file: it used the defaults, and reads them again.
WriteDefault(p) ==
  /\ pc[p] = "first"
  /\ config' = Default /\ by' = "start" /\ Goto(p, "off")
  /\ UNCHANGED <<gate, shelf, known, want, spot, used>>

\* The page offers a form that is there; without one only as long as none was set.
Offered(p, s) ==
  IF s.form = None THEN known[p].form = None ELSE forms[s.form] # None

AskSave(p, s) ==
  /\ pc[p] = "ready" /\ Offered(p, s) /\ Count
  /\ want' = [want EXCEPT ![p] = s] /\ Goto(p, "compare")
  /\ UNCHANGED <<file, shelf, known, spot>>

\* Mutant of Compare: outside the gate.
CompareUnlocked(p) ==
  /\ pc[p] = "compare"
  /\ IF Rev[Current] = Rev[known[p]]
     THEN Goto(p, "write")
     ELSE Goto(p, "ready")  \* CONFIG_REVISION_CONFLICT
  /\ UNCHANGED <<file, shelf, known, want, spot, used>>

\* Under the gate the file must still be what the page knows.
Compare(p) ==
  /\ pc[p] = "compare" /\ gate = NoProc
  /\ IF Rev[Current] = Rev[known[p]]
     THEN gate' = p /\ Goto(p, "write")
     ELSE Goto(p, "ready") /\ UNCHANGED gate  \* CONFIG_REVISION_CONFLICT
  /\ UNCHANGED <<config, by, shelf, known, want, spot, used>>

Write(p) ==
  /\ pc[p] = "write"
  /\ config' = want[p] /\ by' = "page"
  /\ gate' = IF gate = p THEN NoProc ELSE gate
  /\ Goto(p, "finish")
  /\ UNCHANGED <<shelf, known, want, spot, used>>

\* The controller takes the save for done if the revision grew and the file still
\* holds it.
Confirms(p) ==
  /\ Rev[want[p]] > Rev[known[p]]
  /\ config # None /\ Rev[config] = Rev[want[p]]

FinishSave(p) ==
  /\ pc[p] = "finish" /\ Goto(p, "ready")
  /\ IF Confirms(p) THEN known' = [known EXCEPT ![p] = config] ELSE UNCHANGED known
  /\ want' = [want EXCEPT ![p] = Default]
  /\ UNCHANGED <<file, shelf, spot, used>>

-----------------------------------------------------------------------------
(***************************************************************************)
(* Forms                                                                   *)
(***************************************************************************)
\* import_profile; a name that is taken only if the user chose to replace it.
LookToImport(p, n, c) ==
  /\ pc[p] = "ready" /\ Count
  /\ spot' = [spot EXCEPT ![p] = [name |-> n, content |-> c]]
  /\ Goto(p, "put")
  /\ UNCHANGED <<file, shelf, known, want>>

\* The first free name of save_generated.
FreeNames == {i \in DOMAIN Names : forms[Names[i]] = None}
FirstFree == Names[CHOOSE i \in FreeNames : \A j \in FreeNames : i <= j]

\* save_generated, of a detected form.
LookToSave(p, c) ==
  /\ pc[p] = "ready" /\ FreeNames # {} /\ Count
  /\ spot' = [spot EXCEPT ![p] = [name |-> FirstFree, content |-> c]]
  /\ Goto(p, "put")
  /\ UNCHANGED <<file, shelf, known, want>>

\* The write replaces what is there by then.
Put(p) ==
  /\ forms' = [forms EXCEPT ![spot[p].name] = spot[p].content]
  /\ over' = IF forms[spot[p].name] = None THEN over ELSE over \union {spot[p].name}

PutForm(p) ==
  /\ pc[p] = "put" /\ Put(p) /\ Goto(p, "ready") /\ spot' = [spot EXCEPT ![p] = NoSpot]
  /\ UNCHANGED <<file, known, want, used>>

-----------------------------------------------------------------------------
Stock(p) ==
  \/ Open(p) \/ WriteDefault(p) \/ Compare(p) \/ Write(p) \/ FinishSave(p) \/ PutForm(p)
  \/ \E s \in Setting : AskSave(p, s)
  \/ \E c \in Content : LookToSave(p, c) \/ \E n \in Name : LookToImport(p, n, c)

StockSpec == StockInit /\ [][\E p \in Proc : Stock(p)]_stock

-----------------------------------------------------------------------------
(***************************************************************************)
(* Properties                                                              *)
(***************************************************************************)
\* A page never overwrites settings another page saved and it has not seen
\* (save_config_if_revision); only what was written without the gate, by a first
\* start or an import, can be lost between its look and its write.
NoPageUndone ==
  [][\A p \in Proc : pc[p] = "write" /\ pc'[p] = "finish"
       => Current = known[p] \/ by # "page"]_stock

\* A save that is in config.json when its page looks is shown as saved and becomes
\* what the page compares with.
SaveIsShown ==
  [][\A p \in Proc : pc[p] = "finish" /\ config = want[p]
       => (pc'[p] = "ready" => known'[p] = want[p])]_stock
=============================================================================
