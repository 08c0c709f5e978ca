-------------------------------- MODULE Desk --------------------------------
(***************************************************************************)
(* The window and its AppController: the pages, the dialogs, the one       *)
(* background operation at a time, and what the pages show of its result.  *)
(*                                                                         *)
(* Every operation has a WorkerBridge of its own.  A bridge first runs,    *)
(* then its result is queued for the window, then it is over (terminal),   *)
(* and last its thread is gone (finished).  The controller keeps its       *)
(* bridge (`bridge`) until then, but forgets page and kind (`active`) with *)
(* the terminal: what is asked for in between is put off (`deferred`).     *)
(*                                                                         *)
(* A dialog run with exec() nests an event loop: timers and results go on  *)
(* being handled below it, while the user can answer only the topmost one. *)
(***************************************************************************)
EXTENDS Naturals, Sequences, FiniteSets, FiniteSetsExt, SequencesExt

CONSTANTS Kinds,       \* the operations the user may ask for
          Sources,     \* sets of scans the user may pick
          MaxOps,      \* operations the user asks for
          MaxHandles   \* details open at a time

ASSUME DeskAssumption == MaxOps \in Nat \ {0} /\ MaxHandles \in Nat \ {0}

\* A set of scans is none of the other things that may be in its place.
ASSUME SourcesAssumption ==
  Sources \cap {"none", "hint", "detecting", "failed", "reload", "trash"} = {}

VARIABLES
  page, exam, dialogs,            \* page shown, the exam page's widget, dialogs (last on top)
  bridge, active, heard, refresh, \* _active_bridge, _active_kind (and page), _desktop_success, _refresh_after_action
  deferred, ops,                  \* _deferred_start, operations asked for
  reload, trash, timers,          \* reload pending, trash entries pending, zero timers set
  fixing, fixFrom,                \* _id_fix_running (the detail page is locked), _pending_id_fix
  source, paths, stale, form,     \* scans picked, _form_detection_paths, _stale, what the page says of the form
  byHand, importing,              \* a profile picked by hand since detection began; _profile_importing
  listed,                         \* the exams shown: "current", "old", or the page says "error"
  settings,                       \* the settings shown: "current", "old", or told they were "refused"
  leases, display,                \* details open, the one on the page (0: none)
  linked,                         \* the request that connected the grading page (0: none)
  canWrite, asked, closing, shut, \* write authority; close asked for, _closing, window gone
  slips                           \* history: the known slips that have happened

win   == <<page, exam, dialogs>>
work  == <<bridge, active, heard, refresh, deferred, ops>>
later == <<reload, trash, timers>>
fix   == <<fixing, fixFrom>>
scans == <<source, paths, stale, form>>
picks == <<byHand, importing>>
lists == <<listed, settings>>
opened == <<leases, display>>
ends  == <<asked, closing, shut>>
vars  == <<win, work, later, fix, scans, picks, lists, opened, linked, canWrite, ends, slips>>

\* Operations by the page they belong to.
ListOps     == {"load", "results", "detail", "trashlist", "fix", "change", "batch", "export",
                "fullbackup", "fullrestore", "form"}
SettingsOps == {"save", "profile", "import"}
ScanOps     == {"scan", "fresh"}
GradingOps  == {"key", "grade", "other"}
\* Those that answer through a callback of their own.
Desktop     == ListOps \cup SettingsOps
Changing    == {"change", "batch", "fullrestore", "import", "fix", "scan", "fresh", "grade", "other"}
Linking     == {"scan", "fresh", "grade", "other"}
Asking      == {"fix", "change", "export", "fullbackup", "fullrestore", "import", "profile",
                "scan", "fresh", "other", "key"}

NoSource == "none"
Dialog(what, s) == [what |-> what, scans |-> s]
Idle     == [kind |-> "none", scans |-> NoSource, id |-> 0, stage |-> "none",
             cancelled |-> FALSE, told |-> FALSE, end |-> "none", handle |-> 0]
Busy(group) == active \in group

Init ==
  /\ page = "scan" /\ exam = "list" /\ dialogs = <<>>
  /\ bridge = [Idle EXCEPT !.kind = "load", !.stage = "run"] /\ active = "load" /\ heard = "load"
  /\ refresh = FALSE /\ deferred = Idle /\ ops = 0
  /\ reload = FALSE /\ trash = FALSE /\ timers = {}
  /\ fixing = FALSE /\ fixFrom = 0
  /\ source = NoSource /\ paths = NoSource /\ stale = FALSE /\ form = "hint"
  /\ byHand = FALSE /\ importing = FALSE
  /\ listed = "error" /\ settings = "current"
  /\ leases = {} /\ display = 0 /\ linked = 0
  /\ canWrite \in BOOLEAN /\ asked = FALSE /\ closing = FALSE /\ shut = FALSE
  /\ slips = {}

-----------------------------------------------------------------------------
(***************************************************************************)
(* Starting an operation                                                   *)
(***************************************************************************)
Deferred == deferred.kind # "none"
Working  == Deferred \/ (bridge.kind # "none" /\ active # "none")

Run(op) == [op EXCEPT !.stage = "run"]

Op(kind, n) == [Idle EXCEPT !.kind = kind, !.id = IF kind \in Linking THEN n ELSE 0]

\* Started, put off until the thread of the operation before is gone, or refused.
Begin(op) ==
  IF closing \/ Working
  THEN /\ refresh' = (refresh /\ op.kind \notin {"change", "batch", "export"})
       /\ UNCHANGED <<bridge, active, heard, deferred>>
  ELSE /\ heard' = IF op.kind \in Desktop THEN op.kind ELSE heard
       /\ refresh' = (op.kind \in {"change", "batch"})
       /\ IF bridge.kind # "none"
          THEN deferred' = op /\ UNCHANGED <<bridge, active>>
          ELSE bridge' = Run(op) /\ active' = op.kind /\ UNCHANGED deferred

Accepted == ~closing /\ ~Working

\* Reading the exam list again, now or when the operation under way has ended.
Refresh ==
  IF closing THEN UNCHANGED <<work, reload>>
  ELSE IF Working THEN reload' = TRUE /\ UNCHANGED work
  ELSE Begin(Op("load", 0)) /\ UNCHANGED <<ops, reload>>

\* The list page comes into view: it is read again, unless the page is busy.
ListShown ==
  IF Busy(ListOps)
  THEN UNCHANGED <<work, reload>> /\ slips' = IF active = "load" THEN slips ELSE slips \cup {"unread"}
  ELSE Refresh /\ UNCHANGED slips

-----------------------------------------------------------------------------
(***************************************************************************)
(* Going from page to page                                                 *)
(***************************************************************************)
OnTop(group) == dialogs # <<>> /\ Last(dialogs).what \in group
Free == dialogs = <<>> /\ ~closing

\* The lease of the detail on the page: closed, or kept because closing it failed.
LetGo == leases' = leases \ {display} /\ display' = 0
Kept  == UNCHANGED opened

\* The detail page is left for the list, and the list for `target`.
LeaveDetail(target) ==
  \/ LetGo /\ exam' = "list" /\ page' = target /\ ListShown
  \/ Kept /\ UNCHANGED <<exam, page, work, reload, slips>>

InDetail == page = "exam" /\ exam = "detail"

Navigate(target) ==
  /\ Free /\ (target = "grade" => linked # 0)
  /\ IF InDetail THEN ~fixing /\ LeaveDetail(target)
     ELSE /\ target # page /\ page' = target
          /\ IF target = "exam" /\ exam = "list" THEN ListShown ELSE UNCHANGED <<work, reload, slips>>
          /\ UNCHANGED <<exam, opened>>
  /\ UNCHANGED <<dialogs, trash, timers, fix, scans, picks, lists, linked, canWrite, ends>>

DetailBack ==
  /\ Free /\ InDetail /\ ~fixing
  /\ LeaveDetail("exam")
  /\ UNCHANGED <<dialogs, trash, timers, fix, scans, picks, lists, linked, canWrite, ends>>

\* Mutant of Shutdown: an idle window waits for an operation to end.
ShutdownWaits ==
  /\ closing' = TRUE /\ deferred' = Idle /\ heard' = "none"
  /\ shut' = FALSE
  /\ bridge' = IF bridge.kind = "none" THEN bridge ELSE [bridge EXCEPT !.cancelled = TRUE]
  /\ UNCHANGED <<active, refresh, ops>>

Shutdown ==
  /\ closing' = TRUE /\ deferred' = Idle /\ heard' = "none"
  /\ shut' = (bridge.kind = "none")
  /\ bridge' = IF bridge.kind = "none" THEN bridge ELSE [bridge EXCEPT !.cancelled = TRUE]
  /\ UNCHANGED <<active, refresh, ops>>

\* The window is asked to close.  A detail is let go first; when that fails, the
\* window stays, and so does its mark that a close was asked for.
Close ==
  /\ Free /\ ~asked
  /\ IF exam = "detail" /\ display # 0
     THEN \/ fixing /\ UNCHANGED <<work, ends, opened, slips>>
          \/ ~fixing /\ LetGo /\ asked' = TRUE /\ Shutdown /\ UNCHANGED slips
          \/ ~fixing /\ Kept /\ asked' = TRUE /\ slips' = slips \cup {"close"}
             /\ UNCHANGED <<work, closing, shut>>
     ELSE asked' = TRUE /\ Shutdown /\ UNCHANGED <<opened, slips>>
  /\ UNCHANGED <<win, later, fix, scans, picks, lists, linked, canWrite>>

-----------------------------------------------------------------------------
(***************************************************************************)
(* Asking for an operation                                                 *)
(***************************************************************************)
OnList     == page = "exam" /\ exam = "list" /\ ~Busy(ListOps)
OnSettings == page = "settings" /\ ~Busy(SettingsOps)
OnScan     == page = "scan" /\ ~Busy(ScanOps)
OnGrading  == page = "grade" /\ ~Busy(GradingOps)

ScanReady == source # NoSource /\ form # "detecting" /\ ~importing

\* Where an operation is asked for, and what its button waits for.
OfferedOnList(kind) ==
  /\ kind \in {"detail", "trashlist", "load", "change", "fullrestore", "import", "export", "fullbackup"}
  /\ OnList
  /\ kind \in {"change", "fullrestore", "import"} => canWrite
  /\ kind \notin {"detail", "trashlist", "load"} => ~Working

OfferedOnSettings(kind) ==
  /\ kind \in SettingsOps /\ OnSettings /\ canWrite
  /\ kind = "import" => ~Working

OfferedOnScan(kind) ==
  /\ kind \in ScanOps \cup {"profile"} /\ OnScan /\ canWrite
  /\ kind = "profile" => ~importing
  /\ kind # "profile" => ~Working
  /\ kind = "scan" => ScanReady

OfferedOnGrading(kind) ==
  /\ kind \in GradingOps \cup {"results"} /\ OnGrading
  /\ kind \in {"key", "other"} => ~Working
  /\ kind = "grade" => canWrite

OfferedOnDetail(kind) == kind = "fix" /\ InDetail /\ ~fixing /\ display # 0 /\ canWrite /\ ~Working

Offered(kind) ==
  \/ OfferedOnList(kind) \/ OfferedOnSettings(kind) \/ OfferedOnScan(kind)
  \/ OfferedOnGrading(kind) \/ OfferedOnDetail(kind)

\* The parts of the pages an accepted or refused request leaves alone.
Elsewhere == UNCHANGED <<page, exam, later, scans, byHand, lists, opened,
                         linked, canWrite, ends>>

\* A question, or a file dialog, before the operation.
Ask(kind) ==
  /\ Free /\ kind \in Asking \cap Kinds /\ Offered(kind) /\ ops < MaxOps
  /\ dialogs' = <<Dialog(kind, NoSource)>> /\ ops' = ops + 1
  /\ UNCHANGED <<bridge, active, heard, refresh, deferred, fix, importing, slips>> /\ Elsewhere

\* The topmost dialog is answered with yes.
Answered(kind) ==
  /\ OnTop({kind}) /\ dialogs' = Front(dialogs)
  /\ UNCHANGED ops /\ Elsewhere

\* Mutant of ConfirmFix: a refused fix locks the page too.
ConfirmFixLocks ==
  /\ Answered("fix") /\ Begin(Op("fix", ops))
  /\ fixing' = TRUE /\ fixFrom' = display
  /\ UNCHANGED <<importing, slips>>

\* The detail page is locked, unless the fix is refused.
ConfirmFix ==
  /\ Answered("fix") /\ Begin(Op("fix", ops))
  /\ IF Accepted THEN fixing' = TRUE /\ fixFrom' = display ELSE UNCHANGED fix
  /\ UNCHANGED <<importing, slips>>

\* The page says a profile is being imported, whether or not that is accepted.
ConfirmProfile ==
  /\ Answered("profile") /\ UNCHANGED fix
  /\ IF canWrite
     THEN /\ Begin(Op("profile", ops)) /\ importing' = TRUE
          /\ slips' = IF Accepted THEN slips ELSE slips \cup {"import"}
     ELSE UNCHANGED <<bridge, active, heard, refresh, deferred, importing, slips>>

\* The write authority is looked at again.
ConfirmWrite ==
  /\ \E kind \in {"scan", "fresh", "other"} :
       Answered(kind) /\ IF canWrite THEN Begin(Op(kind, ops)) ELSE UNCHANGED <<bridge, active, heard, refresh, deferred>>
  /\ UNCHANGED <<fix, importing, slips>>

ConfirmDesktop ==
  /\ \E kind \in {"change", "export", "fullbackup", "fullrestore", "import", "key"} :
       Answered(kind) /\ Begin(Op(kind, ops))
  /\ UNCHANGED <<fix, importing, slips>>

Decline ==
  /\ OnTop(Asking \cup {"trash"})
  /\ dialogs' = Front(dialogs)
  /\ UNCHANGED <<work, fix, importing, slips>> /\ Elsewhere

\* An operation without a question.
Requested(kind) ==
  /\ Free /\ kind \in Kinds /\ Offered(kind) /\ ops < MaxOps
  /\ ops' = ops + 1
  /\ UNCHANGED <<win, trash, timers, fix, scans, picks, lists, opened, linked, canWrite, ends, slips>>

RequestReload ==
  /\ Requested("load")
  /\ IF Working THEN reload' = TRUE /\ UNCHANGED <<bridge, active, heard, refresh, deferred>>
     ELSE Begin(Op("load", 0)) /\ UNCHANGED reload

RequestFromList == \E kind \in {"detail", "trashlist"} : Requested(kind) /\ Begin(Op(kind, 0)) /\ UNCHANGED reload
RequestSave     == Requested("save") /\ Begin(Op("save", 0)) /\ UNCHANGED reload
RequestGrading  == Requested("grade") /\ Begin(Op("grade", ops + 1)) /\ UNCHANGED reload
RequestResults  == Requested("results") /\ Begin(Op("results", 0)) /\ UNCHANGED reload

\* Restoring or deleting from the trash dialog, which closes with the request.
TrashRequest ==
  /\ OnTop({"trash"}) /\ canWrite /\ ~Busy(ListOps) /\ ops < MaxOps
  /\ dialogs' = Front(dialogs) /\ ops' = ops + 1
  /\ Begin(Op("batch", 0))
  /\ UNCHANGED <<fix, importing, slips>> /\ Elsewhere

\* An exam of the list is connected to the grading page.
GradeFromList ==
  /\ Free /\ OnList /\ canWrite /\ ~Working
  /\ linked' = 2 * ops + 1 /\ page' = "grade"
  /\ UNCHANGED <<exam, dialogs, work, later, fix, scans, picks, lists, opened, canWrite, ends, slips>>

\* The cancel button of a scan.  A refusal is shown as a failure at once, while the
\* thread goes on.
CancelScan ==
  /\ Free /\ page = "scan" /\ active = "scan" /\ bridge.kind = "scan" /\ ~bridge.cancelled
  /\ \/ bridge' = [bridge EXCEPT !.cancelled = TRUE] /\ UNCHANGED <<active, heard, refresh>>
     \/ /\ bridge' = [bridge EXCEPT !.cancelled = TRUE, !.told = TRUE]
        /\ active' = "none" /\ heard' = "none" /\ refresh' = FALSE
  /\ UNCHANGED <<win, deferred, ops, later, fix, scans, picks, lists, opened, linked,
                 canWrite, ends, slips>>

-----------------------------------------------------------------------------
(***************************************************************************)
(* Scans and their form                                                    *)
(***************************************************************************)
\* The form of `s` is to be identified: already under way, put off behind another
\* operation, or begun.
Detect(s) ==
  IF active = "form" /\ Working /\ s = paths
  THEN stale' = FALSE /\ UNCHANGED <<paths, form, byHand, work>>
  ELSE IF Working
  THEN stale' = TRUE /\ form' = "detecting" /\ UNCHANGED <<paths, byHand, work>>
  ELSE /\ paths' = s /\ stale' = FALSE /\ form' = "detecting" /\ byHand' = FALSE
       /\ Begin([Op("form", 0) EXCEPT !.scans = s]) /\ UNCHANGED ops

\* A profile picked by hand was picked for the scans of that time.
PickSource(s) ==
  /\ Free /\ OnScan /\ canWrite
  /\ source' = s
  /\ Detect(s)
  /\ UNCHANGED <<win, later, fix, importing, lists, opened, linked, canWrite, ends, slips>>

PickProfile ==
  /\ Free /\ OnScan /\ canWrite /\ ~importing
  /\ byHand' = TRUE
  /\ UNCHANGED <<win, work, later, fix, scans, importing, lists, opened, linked, canWrite, ends, slips>>

ResetInputs ==
  /\ Free /\ OnScan /\ canWrite
  /\ source' = NoSource /\ form' = "hint"
  /\ UNCHANGED <<win, work, later, fix, paths, stale, byHand, importing, lists, opened,
                 linked, canWrite, ends, slips>>

-----------------------------------------------------------------------------
(***************************************************************************)
(* The operation's thread                                                  *)
(***************************************************************************)
Ended(end) == bridge' = [bridge EXCEPT !.stage = "back", !.end = end]

SmallestFree == Min((1..MaxHandles) \ leases)

Opens(end) ==
  /\ (1..MaxHandles) \ leases # {}
  /\ bridge' = [bridge EXCEPT !.stage = "back", !.end = end, !.handle = SmallestFree]
  /\ leases' = leases \cup {SmallestFree}

\* The exam list shown is now out of date.
Changed == listed' = IF listed = "current" THEN "old" ELSE listed

Same == UNCHANGED <<lists, leases>>

\* Half of what a failed operation was to change may be changed.
Fails ==
  /\ \E end \in {"failed", "denied"} : Ended(end)
  /\ \/ Same
     \/ bridge.kind \in {"change", "fullrestore", "import"} /\ Changed /\ UNCHANGED <<settings, leases>>
     \/ bridge.kind = "save" /\ settings' = "old" /\ UNCHANGED <<listed, leases>>

Reads == bridge.kind \notin Changing \cup {"detail", "save"} /\ Ended("done") /\ Same

\* An exam is made, graded, moved or deleted.
Saves ==
  /\ bridge.kind \in {"change", "batch", "fresh", "grade", "other"}
  /\ Ended("done") /\ Changed /\ UNCHANGED <<settings, leases>>

\* A scan whose cancel was accepted saves nothing, unless it was already past its last
\* look at the cancel.
SavesScan ==
  /\ bridge.kind = "scan" /\ Ended("done")
  /\ Changed \/ (bridge.cancelled /\ ~bridge.told /\ UNCHANGED listed)
  /\ UNCHANGED <<settings, leases>>

SavesSettings == bridge.kind = "save" /\ Ended("done") /\ settings' = "old" /\ UNCHANGED <<listed, leases>>

\* Exams come in, and with them perhaps the settings of the install they are from.
BringsExams ==
  /\ bridge.kind \in {"import", "fullrestore"} /\ Ended("done")
  /\ Changed /\ settings' \in {settings, "old"} /\ UNCHANGED leases

OpensDetail == bridge.kind = "detail" /\ Opens("done") /\ UNCHANGED lists

\* The corrected exam is saved; opening it again may fail.
FixesId ==
  /\ bridge.kind = "fix" /\ Changed /\ UNCHANGED settings
  /\ Opens("done") \/ (Ended("done") /\ UNCHANGED leases)

Work ==
  /\ bridge.stage = "run"
  /\ Fails \/ Reads \/ Saves \/ SavesScan \/ SavesSettings \/ BringsExams \/ OpensDetail \/ FixesId
  /\ UNCHANGED <<win, active, heard, refresh, deferred, ops, later, fix, scans, picks,
                 display, linked, canWrite, ends, slips>>

-----------------------------------------------------------------------------
(***************************************************************************)
(* The result reaches the window                                           *)
(***************************************************************************)
\* Page, kind and callback are forgotten, whichever operation they are of.
Terminal == active' = "none" /\ heard' = "none" /\ refresh' = FALSE

Over == bridge' = [Idle EXCEPT !.kind = bridge.kind, !.stage = "over", !.told = TRUE]

Muted == bridge.cancelled \/ bridge.told

\* The result of `kind` arrives and its handler is still there.
Arrives(kind, end) ==
  /\ bridge.stage = "back" /\ ~Muted /\ ~closing /\ bridge.end = end
  /\ bridge.kind = kind /\ active = kind /\ (end = "done" /\ kind \in Desktop => heard = kind)

Settle == Over /\ Terminal /\ UNCHANGED <<deferred, ops>>

Dropped ==
  /\ bridge.stage = "back"
  /\ IF Muted THEN bridge' = [bridge EXCEPT !.stage = "over"] /\ UNCHANGED <<active, heard, refresh>>
     ELSE /\ closing \/ active # bridge.kind
             \/ (bridge.end = "done" /\ bridge.kind \in Desktop /\ heard # bridge.kind)
          /\ Over /\ Terminal
  /\ UNCHANGED <<win, deferred, ops, later, fix, scans, picks, lists, opened, linked,
                 canWrite, ends, slips>>

\* The page is told that the settings were not saved.
SaveRefused == settings' = IF settings = "old" THEN "refused" ELSE settings

\* Mutant of Failed: what a failed action has changed is not read.
FailedQuietly ==
  /\ \E kind \in Desktop \cup ScanOps \cup GradingOps, end \in {"failed", "denied"} :
       /\ kind # "form" /\ Arrives(kind, end)
       /\ canWrite' = (canWrite /\ end # "denied")
       /\ importing' = (importing /\ kind # "profile")
       /\ reload' = (reload \/ kind \in {"fullrestore", "import"})
       /\ listed' = IF kind \in {"load", "results"} THEN "error" ELSE listed
       /\ IF kind = "save" THEN SaveRefused ELSE UNCHANGED settings
  /\ Settle
  /\ UNCHANGED <<win, trash, timers, fix, scans, byHand, opened, linked, ends, slips>>

\* Mutant of Failed: the page goes on saying that a profile is imported.
FailedImports ==
  /\ \E kind \in Desktop \cup ScanOps \cup GradingOps, end \in {"failed", "denied"} :
       /\ kind # "form" /\ Arrives(kind, end)
       /\ canWrite' = (canWrite /\ end # "denied")
       /\ UNCHANGED importing
       /\ reload' = (reload \/ kind \in {"fullrestore", "import"}
                            \/ (kind \in {"change", "batch", "export"} /\ refresh))
       /\ listed' = IF kind \in {"load", "results"} THEN "error" ELSE listed
       /\ IF kind = "save" THEN SaveRefused ELSE UNCHANGED settings
  /\ Settle
  /\ UNCHANGED <<win, trash, timers, fix, scans, byHand, opened, linked, ends, slips>>

Failed ==
  /\ \E kind \in Desktop \cup ScanOps \cup GradingOps, end \in {"failed", "denied"} :
       /\ kind # "form" /\ Arrives(kind, end)
       /\ canWrite' = (canWrite /\ end # "denied")
       /\ importing' = (importing /\ kind # "profile")
       /\ reload' = (reload \/ kind \in {"fullrestore", "import"}
                            \/ (kind \in {"change", "batch", "export"} /\ refresh))
       /\ listed' = IF kind \in {"load", "results"} THEN "error" ELSE listed
       /\ IF kind = "save" THEN SaveRefused ELSE UNCHANGED settings
  /\ Settle
  /\ UNCHANGED <<win, trash, timers, fix, scans, byHand, opened, linked, ends, slips>>

ShowList ==
  /\ Arrives("load", "done") /\ Settle /\ listed' = "current" /\ slips' = slips \ {"unread"}
  /\ UNCHANGED <<win, later, fix, scans, picks, settings, opened, linked, canWrite, ends>>

\* The list is shown, and the exam page; a detail on it is left first.
ShowResults ==
  /\ Arrives("results", "done") /\ Settle /\ listed' = "current" /\ slips' = slips \ {"unread"}
  /\ IF InDetail /\ ~fixing
     THEN \/ LetGo /\ exam' = "list" /\ page' = "exam"
          \/ Kept /\ UNCHANGED <<exam, page>>
     ELSE page' = "exam" /\ UNCHANGED <<exam, opened>>
  /\ UNCHANGED <<dialogs, later, fix, scans, picks, settings, linked, canWrite, ends>>

ShowDetail ==
  /\ Arrives("detail", "done") /\ Settle
  /\ display' = bridge.handle /\ exam' = "detail"
  /\ UNCHANGED <<page, dialogs, later, fix, scans, picks, lists, leases, linked, canWrite, ends, slips>>

KeepTrash ==
  /\ Arrives("trashlist", "done") /\ Settle /\ trash' = TRUE
  /\ UNCHANGED <<win, reload, timers, fix, scans, picks, lists, opened, linked, canWrite, ends, slips>>

\* Moved, deleted, backed up or combined; the trash and what changed exams has the
\* list read again.
ActionDone ==
  /\ \E kind \in {"change", "batch", "export", "fullbackup", "key"} :
       Arrives(kind, "done") /\ reload' = (reload \/ kind \in {"change", "batch"})
  /\ Settle
  /\ UNCHANGED <<win, trash, timers, fix, scans, picks, lists, opened, linked, canWrite, ends, slips>>

\* The settings on disk are shown.
Shown == settings' = "current" /\ slips' = slips \ {"unloaded"}

\* Mutant of ImportDone: the settings that came are not shown.
ImportDoneKeeps ==
  /\ \E kind \in {"import", "fullrestore"} : Arrives(kind, "done")
  /\ reload' = TRUE /\ Settle
  /\ UNCHANGED <<win, trash, timers, fix, scans, picks, lists, opened, linked, canWrite, ends, slips>>

\* The settings are read again; that they cannot be read is told to nobody.
ImportDone ==
  /\ \E kind \in {"import", "fullrestore"} : Arrives(kind, "done")
  /\ reload' = TRUE /\ Settle
  /\ \/ Shown
     \/ UNCHANGED settings /\ slips' = IF settings = "old" THEN slips \cup {"unloaded"} ELSE slips
  /\ UNCHANGED <<win, trash, timers, fix, scans, picks, listed, opened, linked, canWrite, ends>>

\* What was saved is read again and shown, unless its revision is not above the one
\* before, or it cannot be read or is another by now: the page is told the save failed.
SettingsSaved ==
  /\ Arrives("save", "done") /\ Settle
  /\ Shown \/ (SaveRefused /\ UNCHANGED slips)
  /\ UNCHANGED <<win, later, fix, scans, picks, listed, opened, linked, canWrite, ends>>

ProfileImported ==
  /\ Arrives("profile", "done") /\ Settle /\ importing' = FALSE
  /\ UNCHANGED <<win, later, fix, scans, byHand, lists, opened, linked, canWrite, ends, slips>>

\* The exam just made or graded is connected to the grading page, if it can be read.
Connected ==
  /\ \E kind \in {"scan", "grade", "other"} : Arrives(kind, "done")
  /\ linked' \in {linked, 2 * bridge.id} /\ Settle
  /\ UNCHANGED <<win, later, fix, scans, picks, lists, opened, canWrite, ends, slips>>

\* So is one made from a response workbook, and the grading page is shown.
FreshConnected ==
  /\ Arrives("fresh", "done") /\ Settle
  /\ \/ UNCHANGED <<linked, win, opened, reload>>
     \/ /\ linked' = 2 * bridge.id /\ UNCHANGED dialogs
        /\ \/ ~InDetail /\ page' = "grade" /\ UNCHANGED <<exam, opened, reload>>
           \/ InDetail /\ ~fixing /\ LetGo /\ exam' = "list" /\ page' = "grade" /\ reload' = TRUE
           \/ InDetail /\ Kept /\ UNCHANGED <<exam, page, reload>>
  /\ UNCHANGED <<trash, timers, fix, scans, picks, lists, canWrite, ends, slips>>

\* Mutant of FixDone: the exam shown before stays open.
FixDoneKeeps ==
  /\ Arrives("fix", "done") /\ Settle
  /\ IF fixFrom = 0 THEN UNCHANGED <<fix, reload, opened, exam, slips>>
     ELSE /\ fixFrom' = 0 /\ reload' = TRUE
          /\ IF bridge.handle = 0
             THEN /\ fixing' = FALSE /\ UNCHANGED slips
                  /\ \/ LetGo /\ exam' = "list"
                     \/ Kept /\ UNCHANGED exam
             ELSE /\ display' = bridge.handle /\ UNCHANGED <<exam, fixing>>
                  /\ \/ UNCHANGED <<leases, slips>>
                     \/ UNCHANGED leases /\ slips' = slips \cup {"close"}
  /\ UNCHANGED <<page, dialogs, trash, timers, scans, picks, lists, linked, canWrite, ends>>

\* The corrected exam replaces the old one on the detail page, or the page is left.
\* A fix the controller no longer expects is taken for an invalid answer.
FixDone ==
  /\ Arrives("fix", "done") /\ Settle
  /\ IF fixFrom = 0 THEN UNCHANGED <<fix, reload, opened, exam, slips>>
     ELSE /\ fixFrom' = 0 /\ reload' = TRUE
          /\ IF bridge.handle = 0
             THEN /\ fixing' = FALSE /\ UNCHANGED slips
                  /\ \/ LetGo /\ exam' = "list"
                     \/ Kept /\ UNCHANGED exam
             ELSE /\ display' = bridge.handle /\ UNCHANGED <<exam, fixing>>
                  /\ \/ leases' = leases \ {fixFrom} /\ UNCHANGED slips
                     \/ UNCHANGED leases /\ slips' = slips \cup {"close"}
  /\ UNCHANGED <<page, dialogs, trash, timers, scans, picks, lists, linked, canWrite, ends>>

OtherScans == paths # NoSource /\ source # paths

\* The form of the scans is known, new (the user is asked), or could not be set; an
\* answer about scans no longer picked is dropped, and theirs is detected instead.
FormArrives ==
  /\ Arrives("form", "done") /\ paths' = NoSource
  /\ IF OtherScans
     THEN stale' = (source # NoSource) /\ Settle /\ UNCHANGED <<form, importing, dialogs>>
     ELSE /\ UNCHANGED stale
          /\ \/ byHand /\ form' = bridge.scans /\ Settle /\ UNCHANGED <<importing, dialogs>>
             \/ /\ ~byHand /\ form' = bridge.scans /\ importing' = FALSE
                /\ Settle /\ UNCHANGED dialogs
             \/ /\ ~byHand /\ dialogs' = Append(dialogs, Dialog("newform", bridge.scans)) /\ Over
                /\ UNCHANGED <<form, importing, active, heard, refresh, deferred, ops>>
             \/ form' = "failed" /\ Settle /\ UNCHANGED <<importing, dialogs>>
  /\ UNCHANGED <<page, exam, later, fix, source, byHand, lists, opened, linked, canWrite, ends, slips>>

FormFailed ==
  /\ \E end \in {"failed", "denied"} : Arrives("form", end) /\ canWrite' = (canWrite /\ end # "denied")
  /\ paths' = NoSource
  /\ IF OtherScans /\ source # NoSource THEN stale' = TRUE /\ UNCHANGED form
     ELSE form' = "failed" /\ UNCHANGED stale
  /\ Settle
  /\ UNCHANGED <<win, later, fix, source, picks, lists, opened, linked, ends, slips>>

\* The new form is saved or not; only now does the detection's terminal come, and it
\* may end an operation that began while the question was open.
AnswerForm ==
  /\ OnTop({"newform"}) /\ dialogs' = Front(dialogs)
  /\ \/ form' = "failed" /\ UNCHANGED importing
     \/ canWrite /\ form' = Last(dialogs).scans /\ importing' = FALSE
  /\ Terminal
  /\ slips' = IF \/ Last(dialogs).scans # source \/ Deferred
                 \/ active # "none" /\ bridge.stage \in {"run", "back"}
              THEN slips \cup {"confirm"} ELSE slips
  /\ UNCHANGED <<page, exam, bridge, deferred, ops, later, fix, source, paths, stale, byHand, lists,
                 opened, linked, canWrite, ends>>

-----------------------------------------------------------------------------
(***************************************************************************)
(* The thread is gone, and what waited for it                              *)
(***************************************************************************)
Scheduled == IF closing THEN {} ELSE
  {t \in {"reload"} : reload} \cup {t \in {"trash"} : trash}
    \cup {s \in Sources : stale /\ s = source}

\* The id fix ends here, even one that waits to begin.
Finish ==
  /\ bridge.stage = "over"
  /\ timers' = timers \cup Scheduled
  /\ reload' = (reload /\ closing)
  /\ fixing' = FALSE /\ fixFrom' = IF fixing THEN 0 ELSE fixFrom
  /\ slips' = IF fixing /\ deferred.kind = "fix" THEN slips \cup {"fix"} ELSE slips
  /\ IF stale /\ ~closing THEN stale' = FALSE /\ paths' = NoSource ELSE UNCHANGED <<stale, paths>>
  /\ deferred' = Idle
  /\ IF Deferred /\ ~closing
     THEN bridge' = Run(deferred) /\ active' = deferred.kind /\ UNCHANGED <<heard, refresh>>
     ELSE /\ bridge' = Idle
          /\ IF bridge.told THEN UNCHANGED <<active, heard, refresh>> ELSE Terminal
  /\ shut' = closing
  /\ UNCHANGED <<win, ops, trash, source, form, picks, lists, opened, linked, canWrite,
                 asked, closing>>

ReloadTimer ==
  /\ "reload" \in timers /\ timers' = timers \ {"reload"}
  /\ Refresh
  /\ UNCHANGED <<win, trash, fix, scans, picks, lists, opened, linked, canWrite, ends, slips>>

TrashTimer ==
  /\ "trash" \in timers /\ timers' = timers \ {"trash"}
  /\ trash' = (trash /\ Working /\ ~closing)
  /\ dialogs' = IF trash /\ ~Working /\ ~closing THEN Append(dialogs, Dialog("trash", NoSource)) ELSE dialogs
  /\ UNCHANGED <<page, exam, work, reload, fix, scans, picks, lists, opened, linked,
                 canWrite, ends, slips>>

DetectTimer ==
  /\ \E s \in Sources \cap timers :
       /\ timers' = timers \ {s}
       /\ IF closing THEN UNCHANGED <<paths, stale, form, byHand, work>> ELSE Detect(s)
  /\ UNCHANGED <<win, reload, trash, fix, source, importing, lists, opened, linked,
                 canWrite, ends, slips>>

-----------------------------------------------------------------------------
User ==
  \/ \E target \in {"scan", "grade", "exam", "settings"} : Navigate(target)
  \/ DetailBack \/ Close \/ Decline \/ TrashRequest \/ GradeFromList \/ CancelScan
  \/ \E kind \in Desktop \cup ScanOps \cup GradingOps : Ask(kind)
  \/ ConfirmFix \/ ConfirmProfile \/ ConfirmWrite \/ ConfirmDesktop
  \/ RequestReload \/ RequestFromList \/ RequestSave \/ RequestGrading \/ RequestResults
  \/ \E s \in Sources : PickSource(s)
  \/ PickProfile \/ ResetInputs \/ AnswerForm

Result ==
  \/ Dropped \/ Failed \/ ShowList \/ ShowResults \/ ShowDetail \/ KeepTrash \/ ActionDone \/ ImportDone
  \/ SettingsSaved \/ ProfileImported \/ Connected \/ FreshConnected \/ FixDone \/ FormArrives \/ FormFailed

Timer == ReloadTimer \/ TrashTimer \/ DetectTimer

Next == User \/ Work \/ Result \/ Finish \/ Timer

Spec == Init /\ [][Next]_vars

\* The operation's thread runs on, and the event loop handles what is queued.
FairSpec == Spec /\ WF_vars(Work) /\ WF_vars(Result) /\ WF_vars(Finish) /\ WF_vars(Timer)

-----------------------------------------------------------------------------
(***************************************************************************)
(* Properties                                                              *)
(***************************************************************************)
InFlight(kind) == bridge.kind = kind \/ deferred.kind = kind

\* Nothing runs, waits or is asked.
Quiet == bridge.kind = "none" /\ ~Deferred /\ timers = {} /\ dialogs = <<>> /\ ~closing

Slipped(names) == slips \cap names # {}

\* At rest the exam list shows the exams there are, or says it could not read them:
\* whatever operation changed them, or failed half way, and wherever the user was
\* (_dashboard_reload_pending; the page reads itself again when it is shown).
ListCurrent ==
  Quiet /\ page = "exam" /\ exam = "list" =>
    listed \in {"current", "error"} \/ Slipped({"fix", "confirm", "unread"})

\* At rest the settings page shows the settings on disk, or was told that its save
\* failed, also when an import or a restore brought settings along; only when these
\* cannot be read back does it show old ones and say nothing (_finish_settings_save,
\* _reload_settings_page).
SettingsShown == Quiet => settings \in {"current", "refused"} \/ Slipped({"confirm", "unloaded"})

\* At rest both pages show what is on disk, or have been told that it could not be read
\* or was not saved (_reload_dashboard, _finish_settings_save).
ShownCurrent == ListCurrent /\ SettingsShown

\* Every open detail is on the page or on its way there: none is left holding its
\* generation against pruning and deletion (_release_detail_handle, close_detail).
NoLeak ==
  closing \/ leases = {display, bridge.handle} \ {0} \/ Slipped({"fix", "confirm", "close"})

\* What was put off until "that ends" is done: no reload, trash list or form check,
\* no lock of the detail page and no "importing a profile" is forgotten.  At rest the
\* form shown is that of the scans picked, or the page says it failed
\* (_form_detection_paths, _form_detection_stale).
NothingForgotten ==
  /\ Quiet /\ source # NoSource => form \in {source, "failed"} \/ Slipped({"confirm"})
  /\ Quiet => ~reload /\ ~trash /\ ~stale /\ ~fixing
  /\ importing => closing \/ InFlight("profile") \/ Slipped({"import", "confirm"})

\* The detail page is locked while a fix is under way, and only then: no exit of
\* _fix_student_id leaves the lock behind (_id_fix_running).
FixLocks ==
  /\ fixing => InFlight("fix")
  /\ InFlight("fix") /\ bridge.stage # "over" /\ ~closing => fixing \/ Slipped({"fix"})

\* A window asked to close is gone as soon as the operation it waits for has ended,
\* whatever that operation answers (_shutdown_for_close, _close_finished).
CloseEnds == closing ~> shut
=============================================================================
