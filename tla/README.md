# OMR grader: TLA+ models, checks and proofs

The program scans answer sheets, recognises the marks, grades them and keeps
every exam as a folder of immutable generations on a shared data folder.
This directory models the parts whose correctness depends on order, failure
and concurrency, checks them with TLC on small instances, and proves the most
important facts with TLAPS for all sizes.

Paths below are relative to `src/src/omr_grader/`.

## Components and how they interact

| Component | Code | State it keeps | Operations | Modules |
|---|---|---|---|---|
| Session store | `infrastructure/session_store.py`, `session_lease.py` | generation folders, `CURRENT.json`, `RETENTION.json`, `LOCATION.json`, `DELETE.json`; root, writer and gate lock files | open, list (sweep, repair), create, commit, compact, soft delete, restore, delete | `SessionStore`, `SessionAuthority` |
| Session birth | `session_store.py` 1974-2145, 2548-2635, 2939-3165 | reservation files, staging folders, gate files | create, restore from a backup, tidy up, delete, sweep | `SessionBirth` |
| Exam folders, dashboard index, recovery | `session_store.py`, `dashboard_index.py`, `dashboard_repository.py` | folders, names recorded in `LOCATION.json`, residue of crashes | list, trash list, move, delete, recover | `ExamListing` |
| Result view | `session_store.py` 640-890 | hard links in the exam folder | refresh, repair, externalise | `ResultBooks` |
| Scan run | `application/scan_use_case.py`, `ui/workers.py`, `infrastructure/scan_runtime.py` | running operations, process pool, cancel events | run, cancel, commit | `ScanRun`, `ScanFlow` |
| Worker bridge | `ui/worker_bridge.py` | lifecycle, thread, terminal flag, cancel event | start, cancel, close, queued signals | `WorkerBridge` |
| Corrections, grading, ID fixes, materializer | `domain/`, `application/*_use_case.py`, `infrastructure/generation_materializer.py`, `detail_repository.py` | the files of each generation, retained leases | first generation, grade, regrade, finalize, correct, fix | `Grading`, `ExamHistory` |
| Workbooks | `workbooks/`, `infrastructure/combined_report.py` | none (pure) | write and import a book, combine exams | `ScoreBook`, `CombinedScores` |
| Recognition | `recognition/`, `infrastructure/form_detection.py` | none (pure), saved forms | read a page, find the form | `PageReading`, `FormDetection` |
| Ingestion, validation tokens | `ingestion/`, `infrastructure/scan_runtime.py`, `application/validation_token.py` | open files, issued tokens | choose, list, render, pin, consume | `SourceFiles`, `Transfer` |
| Config and profiles | `infrastructure/config_store.py`, `profile_store.py` | `config.json`, its lock, `Profiles/` | load, compare and replace, save a form | `Catalog` |
| Backup and restore | `infrastructure/backup_archive.py`, `full_backup.py`, `data_import.py` | archives, staging folders | export, validate, restore, import | `Transfer` |
| Controller and pages | `ui/app_controller.py`, `bootstrap.py`, `ui/*_page.py` | open pages, running operation, deferred requests | every command of the UI | `Desk` |

The controller starts one background operation at a time through the worker
bridge.  Operations reach the session store through use cases; every write goes
through `SessionCommitCoordinator`.  Threads of one program and several running
programs meet only in the lock files of the data folder.  The dashboard index
and the result view are projections of what the store committed.

### What is hard, and what makes each part correct

* **Session store.** Savers, compactions, readers, movers and deleters overlap,
  any of them may die between two file operations, and every lock is
  non-blocking.  Correct: a lease pins its generation; `CURRENT.json` never
  dangles and moves only by compare-and-swap; what can keep it from being read is known
  and named; nothing moves under a reader; what was begun is finished.
* **Session birth.** A create, a restore or a delete fails half-way and another
  program goes on.  Correct: one exam per session_id, with its gates; a failed
  birth leaves none.
* **Result view.** A user edits a result book while a save replaces it.
  Correct: a book the user saved over is never lost.
* **Scan run, worker bridge.** A cancel races a result; a pool breaks half-way.
  Correct: every page counts once, one commit or none, one terminal signal.
* **Corrections, ID fixes, grading.** Each generation carries on what the one
  before it held, while the detail page shows an older one.  Correct: what was
  read is never lost, a fix survives every later operation, and the scores shown
  are those of the responses and the key of the same generation.
* **Config.** Two programs save settings.  Correct: no lost update.
* **Backup, import.** Each of several steps fails, and archives change meanwhile.
  Correct: what is published is what was validated, and everything else is named.
* **Controller.** Requests, answers, timers and modal questions interleave.
  Correct: what is shown is current, nothing asked for is forgotten, every lease is
  closed, a window that is to close does.
* **Reading, books, folders, files.** Long chains of legal calls.  Correct: pencil
  marks are what is recorded, books and reports agree with each other, lists with
  folders, pages with the files they came from.

## Modules

### SessionStore, SessionAuthority, their MC and proof modules

`SessionStore` models one exam session on disk and any number of processes
(threads or program instances, `Proc`), each in one operation at a time.

* The disk: `place` (the active or trash folder, `.deleting`, gone), `gens`
  (folders under `generations/`), `current` and `retention` (the generation
  `CURRENT.json` and `RETENTION.json` name), `gates` (existing gate files),
  `record` (`DELETE.json`), `broken` (a folder an abandoned commit could only
  empty in part), `inside` (how many heavy folders the generation of `CURRENT.json`
  still holds) and `bare` (one of them is empty and not removed yet).  `rev` and `par` are the revision and parent in each
  manifest: they never change once a generation is minted.
* The locks: `ex` and `sh` are the holders of the byte-range locks on the root
  lock, the writer lock and each gate.  A lock conflicts between handles, the
  same process's included, so a saver with its own lease open cannot compact.
* Each process: `pc` (the next step), `arg` (the generation it is about),
  `from`, `tries`, `batch`, `retired`, `lease`, and `seen`, the revision it
  last read and will pass as the expected one.

An action is one file or lock operation another process can observe.  `Open*`
is `_open_committed_snapshot`; `List*` is `_discover_committed_leases` with the
sweep of interrupted deletes and the repair of lost gate files; `Commit*` is
`commit_generation`; `Prune*` its tail `_prune_superseded_generations`;
`Move*` is `_move_session` (soft delete and restore); `Delete*` is
`permanently_delete`; `CloseLease` closes a lease.  `Crash` is the death of a
process and `LoseGate` a gate file lost with `.locks`.  `Shed` is the removal of the heavy
folders of `CURRENT`'s generation, folder by folder, in the tail of a commit (`CommitShed`)
and in a listing that finishes one (`ListFinish`).  Contents of files,
hashes, names and messages are abstracted away: `Valid` is `_validate_current`
with `_validate_lineage` on revisions and parents (`Sound`) and its check that the folders
of the generation are exactly those of its files (`~bare`).  A refusal that changes
nothing is not a step.  Pointer replacement is all-or-nothing
(`MoveFileExW`), so a torn `CURRENT.json` is not modelled.

`SessionAuthority` is what callers rely on: one authoritative revision, `Pin`
on it, `Save` over the revision the caller knows, `Relocate` only while nobody
reads.  The refinement mapping is `Authority` in `SessionStore`.

`MCSessionStore` adds the symmetry set.  `SessionStore_proofs` holds the
theorems about locks, leases and the refinement, and in its last part those about what a
reader finds.

### ResultBooks, ResultBooks_proofs, MCBooksAndBridge

The workbooks an exam folder shows are hard links to those of the current
generation.  `view` is what each name in the folder holds, by origin: a
generation, or the user's n-th save; `loose` are copies that lost their link.
`Save` (after the pointer is replaced) and `List` (the repair) start a refresh
that runs under the writer lock: `Decide` looks at one book
(`_publish_result_books`), `Act` unlinks it or keeps it aside, retried until
`GiveUp`; `Link` links the current books; `LinkDone` stands for the rest of
the refresh, `Prune` for the compaction.  The user opens, saves and closes
books between any two of these; `CopyFolder` moves the program folder to
another disk.  Each generation's book is assumed to differ from the others'.

### ScanRun, WorkerBridge, ScanFlow, their MC and proof modules

`ScanRun` is one scan on its worker thread: `Register` (the operation can be
found by `cancel_scan`), `PreparePage` (`build_tasks` with the look at the event
after each page), `Begin` (`ScanWorker.run` clears its event), then `Serial*`
or the pool: `Submit`, `WaitReturns`, `Collect`, `Collected`, and the recovery
from a broken pool (`SubmitRaises`, `Retry*`; a page whose future broke is
recognised in place by `Collect`).  `Judge` and `StartSaving` are the checks
before `commit_scan`; `Commit` saves all or nothing.  `Find`, `Ask`, `Tell` are
the steps of `cancel_scan` on another thread: it looks the operation up, sets
the operation's event, then the worker's.  A page number stands for a page and
its result; a page that fails is a result too.

`WorkerBridge` is the Qt bridge: `queue` holds the signals between the two
threads (first in, first out, as Qt delivers them), `log` what the window was
shown of the current run.  `Report`, `Returned`, `Exit` are the worker's thread,
`Deliver*`, `Flush` (the throttle's timer), `Cancel`, `Hook*` and `CloseBridge` the
window's.

`ScanFlow` extends `ScanRun` and instantiates `WorkerBridge`: the operation of
the bridge is the scan, its hook is `cancel_scan`, and the page has a cancel
button until it was shown that the save began.

### SessionBirth, SessionBirth_proofs

One session_id and the programs that share its data folder.  A birth is one run
of `_create_initial_generation` or `_publish_restored`, numbered by `minted`;
`where` is the folder it made (staging, prepared, active, trash, tomb, gone) and
`has` the generations in it.  `reserved` is the reservation file, `gates` which
birth made each generation's gate file, `record` the `DELETE.json` of a folder
being removed.  `root` and `listers` are the root lock.

A step is what another program can see, or a place where a program can die:
`CreateStart`, `Reserve`, `Stage`, `MakeGate`, `Publish`, `Unreserve` make an
exam; `RestoreStart`, `Prepare`, `MakeGate`, `Publish`, `Confirm` restore one,
and `RestoreFails`, `TidyFolder`, `TidyGate` are the `finally` that runs after
the locks are given up.  `DeleteStart` or `SweepStart`, then `Remove` and
`Unlink`, delete.  `Save`, `Export` and `Move` are whole operations of
SessionStore, which checks their steps.  A session_id is never created twice
(it is a fresh uuid), only restored.

### Desk, Desk_proofs, MCDesk

`Desk` is the window's thread: `AppController` with the pages it drives and the
bridge reduced to stages (`run`, `back` with an answer, `over`, none).  The
controller runs one operation at a time; what the user asks for meanwhile is
refused, or put off in flags (`reload`, `trash`, `stale`, `deferred`) that
`_finished` works off when the thread is gone.  Modal dialogs nest event loops, so
`dialogs` is a stack and everything but the page below may go on under it.
`lists` says what the list and the settings page show against what is on disk;
`leases` the details that are open in the repository, `display` the one on the
page.  `Kinds` chooses the operations an instance looks at, `MaxOps` bounds them.
A save that is on disk may still be refused (`SaveRefused`), and the settings an import
brought may not be read back.
The history variable `slips` remembers six known ways in which the code leaves
its own protocol (listed under hazards); each property names those it excuses,
and holds for every behaviour without them.

### Grading, ExamHistory, ExamHistory_proofs, MCExamLife

`ExamHistory` is what a chain of generations says about one exam.  `hist` is the
sequence of generations as records of what their files hold: the IDs and answers
read, key and scores, the projection (before grading), the correction state, the
fixes, and what every reader is shown.  `user[u]` is the operation program `u` has
worked out on the revision it saw.  `Commit` is `commit_generation` with the whole
of `materialize`: it compares the revision, accepts the parent from three sides
(`Accepted`, `ParentAccepted`) and writes the next record; how that becomes
durable is `SessionStore`'s subject.  `Grading` holds the pure operators: outcomes,
scores, ranks, statistics, the questions a form prints, fixed IDs.

### Catalog, Transfer, MCCatalog, MCTransfer

`Catalog` is what a program folder holds beside exams: `config` (config.json, with
`by`, who wrote it last, and `gate`, config.lock) and `forms` (Profiles/, with
`over`, the names ever written over).  `known[p]` is what program p's settings
page shows and compares with; `Rev`, a constant function, is the hash
`config_revision` computes, of which nothing but injectivity is assumed.

`Transfer` extends it by what is brought into the folder.  The other folder is
`old`, `oldform`, `oldconfig`; with `kind = "backup"` a full backup of it is made
first (`LeaseExam`, `ExportExam`) while its exams are saved.  Every archive has a
path, a file behind it (`path`) and, in each file (`ink`), a manifest, an entry and a
time stamp, so that it can be replaced by a rename or overwritten in place, whole or
in part, with its old time stamp or a new one (`Tamper`; one entry stands for all:
each is compared with the manifest in the same way).  The history variable
`ink.unseen` counts the overwrites that kept the time stamp; nothing reads it but the
property.  One program brings the exams one by one: `OpenToken`, `ReadManifest`,
`ReadEntry` are `validate_backup`; `Consume` is `consume_for_restore` with the look
`extract` begins with; `ReadManifest`, `ReadEntry` again are its second inspection,
`ExtractEntry` the extraction, compared with the manifest of that second inspection,
and `Recheck` the look it ends with and `revalidate`.  `PublishExam` and `MoveExam`
put the exam into the list or the trash; `LookForm`, `BringForm`, `BringSettings`
bring the form and the settings; `Reload` may fail to read them and then keeps what
the page knew.  `CutOff` ends a run anywhere.

### PageReading, FormDetection, ScoreBook, CombinedScores, ExamListing, SourceFiles, MCRules

Six modules about what is computed rather than about who runs when.  `MCRules`
puts them into one run, in which `topic` chooses one and the others rest
(`CombinedScores` extends `ScoreBook`, which extends `Grading`).

`PageReading` goes from the ink measured in each bubble to the record of a page:
`Turned` and `Trusted` (which way up the form fits, and whether well enough),
`UnmarkedLevel` (the usual darkness of each printed digit, worked out on the page
itself), the thresholds of a sensitivity, statuses of questions, of the ID and of
the page.  A change of the sensitivity reads the same ink again.

`FormDetection` takes sample pages: `DetectLayout`, the structure most pages have,
`HeaderBlocks` (first rows nobody marked), the match with saved forms and what is
told of the result.  A page has the share of its form's rings that are found: a page
trusts a form (`Fits`) from `TrustedShare` on, a new form needs the trust of two thirds
of the pages it is tried on, a saved one of all of them, the worst with `MatchShare`.

`ScoreBook` is what the books of an exam say, row by row (`StudentOrder`, names
from the roster, fixed IDs, the key file, statistics), and what `Importable` and
`ImportedExam` make of a response sheet.  `CombinedScores` has folders of exams
that are graded, fixed, imported and put into one report: subject ranges, criteria,
verdicts, who was absent from which part, problems held back.

`ExamListing` has the folders as a user of Explorer may leave them: `Locate` (which
folder an ID means), `SessionFolders`, the list, the trash, moves, permanent
deletion and `Recovery`.  `SourceFiles` has files that other programs write in
place, replace or delete between any two reads of a scan, of a form detection or of
an import, and the last reads of a scan, when it is saved: the PDFs that are kept
(`KeepOriginal`) and the copies for pages that could not be recognised (`KeepReview`).  `Place` is where a file is sorted in its folder: names are compared as
composed, so two files may have one `Name`, and those come as the folder lists them.

In `ExamHistory` a generation also says which books and scored pictures it holds and
what they show, which of them a later generation carries over
(`_preserved_artifact`), the average as stored (rounded, or raw by versions
2.1.0-2.1.1) and what a correction shows after it was saved.

## Runs

| Run | Module | Properties | What it shows |
|---|---|---|---|
| `store_safe` | MCSessionStore | LeasePinned, OnlyLeftoversBreak, CurrentReadable, IInv, PointerAdvances, NoMoveUnderLease, ImplementsAuthority | Two processes that open, list, save, compact, move and delete in any order, with two crashes, I/O errors or lost gate files anywhere: a lease pins its generation and its folder, CURRENT never dangles and moves by compare-and-swap only; what makes it unreadable is an orphan of an interrupted commit or a heavy folder that was emptied and not removed, by somebody who is at it or for good after a failure; and the whole implements SessionAuthority; the inductive invariant of the proofs holds. |
| `store_live` | MCSessionStore | PendingDeleteFinishes | A delete that an open file interrupted is finished by later listings as long as its DELETE.json is there, whatever else goes on: no lock is waited for, so every operation goes on, and listings come again. |
| `books_bridge` | MCBooksAndBridge | SettledEditsKept, NoStrandedBook, EndShownOnce, RepairLeavesEdits, FolderCatchesUp, CloseReported | Two parts. The result books: saves, repairs, an Excel user, a copied folder and a crash in any order, for an exam with page images and one without: no settled edit is lost, no earlier book is left behind once the earlier generations are gone, a repair leaves an edited book where it is, and once Excel stays closed listings bring the folder to the current result. The bridge: two operations with progress, a refused or accepted cancel and a close anywhere; each is shown to end once, nothing comes after it, no signal of the first reaches the second, and a close is reported once the thread is gone. |
| `scan_flow` | MCScanFlow | SavesWholeScan, EndIsTrue, CancelObeyed, FlowEnds | Page, bridge, scan and pool together, the pages one by one or with a pool that may break at any moment, and a cancel at any moment: what is saved is every page once and in order, a cancel that came in time prevents the save, what the user is shown agrees with what was saved, and a started scan is shown to end. |
| `exam_life` | MCExamLife | OneHome, CalmBirths, ReadsBack, ReadIsKept, ShowsItself, DoesWhatWasAsked | What can become of an exam, in two parts. Its folder: two programs create, back up, regrade, trash, delete, sweep and restore it in any order, with two crashes or I/O errors anywhere; it is in the data folder at most once and with its gates, a birth reported as failed is not there, and as long as nothing failed no birth is refused without reason. Its content: three operations by two programs on a scanned, an imported and an old graded exam, in every order of grading, finalizing, fixing IDs and correcting answers; each generation reads back and can be built on, explains what it shows by what was first read, and keeps the fixes and corrections before it. |
| `desk_list` | MCDesk | ShownCurrent, NoLeak, FixLocks, CloseEnds | The exam list, the detail page, the trash and the ID fix, two operations deep, with a reload, a close or a change of page anywhere; the list at rest is current, no detail stays open, the page is locked while a fix is under way, and a close ends. |
| `desk_scan` | MCDesk | NothingForgotten, ShownCurrent | The scan and settings pages with form detections of two sets of scans behind, during and after another operation, a save of settings, an import of an old install or the restore of a backup among them, each refused, failing half way or read back in vain: the form shown is that of the scans picked, nothing put off is forgotten, the list at rest is current, and the settings page shows the settings on disk or was told that its save failed. |
| `transfer` | MCTransfer | BringTellsAll, RestoresWhatWasChecked, DefaultFollows, NoPageUndone | A full backup of a folder in use and its restore, or the import of a folder, while archives are changed, exams moved, settings saved and forms written by others, with two of these, or of I/O errors or crashes, anywhere: what is published is of one generation, and the one validated unless the archive was changed and put back unseen, every exam is here or named, imported settings name the form they meant, and no page overwrites a save of another. |
| `rules` | MCRules | ReadsPencil, VerdictsAgree, BookReturns, ListTellsAll, OneVersion, FormTells | Five separate topics, one state space each: a sheet is read from its measured darkness as the pencil marks on it say; the form detected on a few sample pages loses no marked row silently; key files, grading, fixes, score books, a combined report and an import of the written book agree with each other; folders of exams that were copied, carried off, spoiled or held are listed, moved, recovered and restored without losing or hiding one; and the files of a scan or an import may change between any two reads, yet what is recognised is one version of each, and the originals kept are that version unless they were written after the pages were read. |

### Bounds

`MaxGen` bounds generations ever minted: 3 allows an orphan and its twin, and a
compaction after a compaction; 2 is enough for the liveness and the stale move.
`OpenTries` is 3 in the code; 2 already gives one retry and one exhaustion.
`MaxFaults` counts crashes, I/O errors and lost gates: two of them let a second
failure meet what the first left.  `Folders` is 2, so that one heavy folder can be gone and
the next one empty.  Two processes suffice for every pairwise
race; the theorems hold for any number.

`books_bridge`, the books: a response book and a score book give every change of what a
folder shows (responses only, graded, and back).  Three generations let a
refresh meet two earlier books; two saves by the user let an edit be saved over;
one crash and one copy of the folder fall anywhere.  `heavy` says whether the
exam has page images, which decides the kind of repair.

`scan_flow`: four pages with two in flight let the pool break with pages done,
pending and not given out, and come back in any order; `Pages` and `MaxInFlight`
are the scan's size and the worker's limit.  One scan is followed, and only the
report before the save.  `books_bridge`, the bridge: two runs (`MaxRuns`) let a signal of
the first meet the second; `MaxQueue` bounds progress reports waiting.

`exam_life`, the folder: three births let a restore fail, a second succeed and a third
meet what both left; two generations let a backup be older than the exam; two
faults let the tidying up fail too.

`desk_list` follows two operations, one put off behind the other; what a third
does to a fix that was put off was checked separately with three and four
operations on the detail page alone; two details are what a fix needs.  `desk_scan` follows
one operation beside the form detections of two sets of scans, which come without
a bound.

`exam_life`, the content: three operations on top of the first generation let a fix, a
grading and a correction come in every order, twice each; two programs are what a
stale snapshot needs.  The sheets hold an answer the reader was not sure of, an
illegible ID, and an ID a fix can make a duplicate.

`transfer`: two exams let one fail and the other go on; two form names let the
brought form find its name taken; `Budget` = 2 events of all kinds (a save, a form
write, a user's move, an I/O error, a crash, a change of an archive) anywhere, which
is what overwriting an archive and putting it back needs, or two pages that save.
`MCInit` leaves out starting states that differ in what does not interact.

`rules`: three questions of three choices and two columns of three digits on 23
kinds of rows and poses cover every status; the median needs three rows.  The
digits are printed unequally dark, as on real forms, or evenly.  `MaxSteps` = 2 of
grading, fixing, importing and reporting over three folders; `MaxCalls` = 3 calls
of the program or of Explorer over two exams and four names, enough for a copy, a
list that records its name and a command that follows; `MaxWrites` = 2 writes by
others, the second after the program looked twice, of files the scan looks at, and at
most one page that is not recognised; a behaviour has a scan or an import, which share
only the disk (`FilesBound`); in the folder two pictures have
names that are the same when composed and two that differ in compatibility forms only.  Batches of one, three and four
sample pages: labels can be told from three on, and a fourth can disagree; their shares of rings lie
on both sides of the two thresholds.  What a
disk holds first, the choices of sources and the pages are listed in `MCRules`.

`desk_scan` lets an exam be connected from the list only while nothing was asked
for and then follows no choice of scans; `exam_life` includes the services of
corrections, which no page of the program requests today.

### Fairness

`FairSpec` of the store assumes weak fairness of the next step of an operation
that has started (the code never sleeps on a lock, so a started thread goes on)
and strong fairness of a listing of the active exams (the user opens the exam
list again and again; the root lock is free again and again, since movers
release it).  Starting any other operation is never fair.

`FairSpec` of `ResultBooks` assumes weak fairness of a started refresh and of
the listing; `FolderCatchesUp` is conditional on Excel staying closed and on the
folder not being copied (without its second link an earlier book counts as the
user's, and no listing replaces it).

`ScanFlow`: the worker thread runs on, and the pool ends each page or breaks.
`WorkerBridge` and `ScanFlow`: the window's event loop delivers queued signals,
the cancel hook returns, operations end, and a thread told to quit exits.
Progress timers, clicks and new operations are never fair.

`Desk`: the operation of a thread ends, its signals are delivered, timers fire
and dialogs are answered; a user need not do anything else.

### Violations

Each of these runs checks one statement of the repository that the code does not keep.

* `store_folder`: NextListingFinishes (infrastructure/session_store.py:886). session_store.py:2329 says "Saved; the next listing finishes the folder once the file is closed." _externalize_generation_artifacts removes images/ and sources/ of the generation CURRENT names with rmtree. When it stops between the last file of a folder and the folder itself (the process ends, or the folder is open in another program so that only its removal fails), the empty folder stays; _validate_current (1240-1244) refuses a tree with a folder the manifest has no file in, and _repair_session validates before it finishes anything (1615) and swallows the refusal (1652). So no listing finishes it and the saved exam cannot be opened, saved, moved or deleted any more.
* `settings_shown`: SaveIsShown (ui/app_controller.py:1558). _finish_settings_save refuses a committed save unless `result.revision > command.expected_revision`, but config_store.py:56 defines the revision as a hash ("Return a stable, positive revision covering every persisted config value"), which grows in about half of the saves only. tests/gui/test_app_controller.py:1115 says of a committed and reloaded save "assert controller._settings_snapshot == committed.settings" (it uses revisions 1 and 2). After a refused one the file holds the new settings, the page says the save failed and keeps the old revision, and its next save is refused as CONFIG_REVISION_CONFLICT.
* `form_again`: AcceptedIsChosen (infrastructure/form_detection.py:235). A new form is offered when two thirds of the pages it is tried on trust it (195-203), while a saved one is taken only if every page trusts it and the worst shows at least 75 percent of its rings (228-235): a form accepted for pages one of which is trusted less (or shows 65 to 74 percent) is not found again for those pages, is offered as new, and save_generated stores it under another number. The dialog in which it was accepted says (form_confirm_dialog.py:12) "확인한 양식은 Profiles 폴더에 저장되어 다음부터 자동으로 선택됩니다." (the form you confirm is saved in the Profiles folder and chosen automatically from now on).

## Proofs

`SessionStore_proofs` proves, for every `Proc`, `MaxGen`, `OpenTries` and
`MaxFaults` that satisfy the assumptions of `SessionStore`: types, leases pin,
`CURRENT` never dangles, the pointer is a compare-and-swap, nothing moves under
a lease.

`LeasePinned` is not inductive: that a compaction does not remove a pinned
generation depends on who holds which gate.  `IInv` adds: what was minted
bounds everything (`MintInv`); an exclusive lock has no shared holder
(`LockInv`); a lease and an open about to give one hold their gate shared
(`ReadOf`); a saver holds the writer lock of an active session, what it staged
is a child of `CURRENT` nobody reads, and its compaction holds every gate of
its batch (`SaveOf`); a mover or deleter holds the writer lock and every gate
(`ExclusiveOf`).  One lemma per action proves that the action keeps each part;
`NextInv` combines them.  The two action properties follow from `IInv` and the
lemma that says which action can make the change.

`StoreImplementsAuthority` maps every step: a `CommitPoint` is a `Save`, since the saver's
expected revision is still the current one (`SaveOf`); a `MovePublish` a `Relocate`, since
the mover holds every gate and so nobody a lease; all others, but those that give or
end a lease, stutter.

The last part is about `Valid`, what a reader finds.  `TreeInv` says what the
generations look like between any two steps: the one CURRENT names and those
a saver made children of (`WasCurrent`) have different revisions (`SpineInv`), each child
is one revision on (`ChildInv`), and from some bottom up to the current revision one of them is
there for every revision, with `RETENTION.json` on or above the bottom (`LineInv`);
`SaverInv` is what a saver knows between its steps.  Then only a folder that never
became current, or one not removed completely, can be in the way of the lineage.
`LeftInv` says who empties a heavy folder: somebody with the writer lock who is at it, or
nobody any more after a failure; both together are `LeftoversBreak`.
`RetiredInv` and `Unharmed` say that without a failure there are no such generations and
no gate is missing, so that what is left is the moment between the last unlink and the
`rmdir` of a heavy folder (`ReadableWhileNothingFails`).

`ResultBooks_proofs` proves the three safety properties of `books_bridge` for any `Name`,
`Shapes` and bounds.  None says what makes it true: a refresh looks at a book in one step
and unlinks it in another, so `UnlinkInv` says that what is about to be unlinked is
ours, or was saved since (`raced`); that nothing stays behind needs that every book
of ours is one its generation holds (`LinkInv`), so that its digest is known, and that
each earlier one is still ahead of a refresh that runs, or the earlier generations are
still there (`SweepInv`), which is what makes it right not to compact after a refresh
that stopped.

The first part of `SourcesAndBridge_proofs` proves `EndShownOnce` for any `Progress` (disjoint from the
other signals: `ProgressAssumption`), `MaxRuns` and `MaxQueue`.  The log alone cannot
say that an end will come, so `BridgeInv` follows the queue: the last two signals of a
thread are `quit` and `gone`, and nothing is left of a run when its thread is
(`QueueFits`); a run that was not cancelled has shown its end or has it in the queue,
a cancelled one shows it when the thread is gone (`EndOwed`).

`ScanFlow_proofs` proves the safety properties of `ScanRun` and `ScanFlow` for any `Pages` and
`MaxInFlight`.  That the whole scan is saved is a counting argument: a page is with the
pool, in hand, to be recognised again or has its result, and only one of these
(`OnceInv`); none is missing (`AllInv`); so at the end there are `Pages` results of
`Pages` different pages, and `InOrder` puts page i in place i (`InOrderWhole`, by induction
on the number of pages before a page).  `FlowImplementsScan` carries that over to the
composition.  `EndIsTrue` relates the two threads through the bridge: how far the
worker's thread is goes with what is in the queue (`StepInv`), the hook of a
cancel with `cancel_scan` (`HookInv`), a cancel that was accepted with the events
(`CancelInv`), and what the window was told with what the scan answered (`ToldInv`).
`StartSaving` looks at the operation's event only, so the proof also needs that
the worker's event is set after it (`EventsInv`).

`SessionBirth_proofs` proves `OneHome` and `CalmBirths` for any `Proc`, `MaxGen`,
`MaxBirths` and `MaxFaults`.  `OneHome` is not inductive: a restore that tidies up
without a lock must not find its own gates under somebody's exam, so `BirthInv` says
that whoever makes an exam holds the root lock of a folder without one (`MakerAlone`),
that whoever removes one sees none (`RemoverSafe`), that a failed birth is nobody's
work any more (`FailedAlone`), and that the visible exam's gates were made by its own
birth (`OwnGates`).  `CalmBirths` needs what is left behind while nothing failed
(`Calm`): a reservation, a deleted folder or a gate file exists only for the visible
exam or for the program that holds the lock.  That no listing sweeps, no birth finds a
gate in its way and nothing tidies up follows from it.

`Desk_proofs` proves the safety properties of `Desk` for any `Kinds`, `MaxOps` and
`MaxHandles`, and any `Sources` that are none of the other things in their places
(`SourcesAssumption`).  What a page may
expect depends on what the controller remembers, so `DeskInv` says first how the bridge,
the active operation and the one put off belong together (`WorkInv`), and that an answer
finds its page and its callback (`HeardInv`).  `StackInv` and `QuestionInv` are about the
nested dialogs: only the first is one the user asked for, and while it is open nothing
begins that it would meet.  Each property then has its own part: the lock and the
fix it is for (`FixInv`), the open details (`LeaseInv`), who will read an old list again
(`ListInv`: a reload put off, a timer, a load that runs, or an answer that
promises one), what is put off and what it waits for (`WaitInv`), and where the form of the
scans picked will come from (`FormInv`).  `Steps` sorts every action by what it does to
the bridge: most parts are proved once per sort.  The first attempt failed
at a fix that waits for the thread of another fix, which takes a third operation (the
detail, a fix, a fix) and so came up in no run: `Finish` now remembers that slip too, and
`FixFinished` is its case.

`ExamHistory_proofs` proves its four properties for any exams read,
keys, changes, targets, `Users` and `MaxRevision`.  It assumes that every record has an
answer to every question (`ReadsAssumption`: the first generation is made by readers that
enforce it) and that the value standing for "not there" is none of those that may be there
(`NoneAssumption`).  None of the four is inductive.  `HistoryInv` adds what ties a
generation to the first one.  `LineInv`: there is always a correction state, kept or
adapted, whose events are all corrections ever made (`Made`), each committed right after
its base and with the base in its ID, and whose replay gives the answers.  `StateInv`: what
each state of an exam has and lacks, so that all three readers accept it.  `KeptInv`: what
was read and where from.  `ShownInv`: what is derived.  `UserInv`: an operation worked out
on the current revision fits the current generation (`Fits`); a commit makes every other
pending one stale.  `StoryGrows` and `StoryKept` say what a step makes of the explanation,
`NextExplains`, `NextHas` and `NextShows` what the materializer writes, `Ready` that it
accepts.

The replay is a recursive function over the positions of the history.  What it computes is
proved by induction over positions with sets instead of operators (`UpTo`, from the
library's `WFMin`; `Iterates` gives the function that the recursion defines): a history and
a batch replay one after the other as their concatenation does (`ReplayOn`), and `MadeIn`
grows by what each generation adds (`MadeOn`, `NewEventsAre`).

`Transfer_proofs` proves the four properties of the `transfer` run for any
programs, names, contents and exams and any `Budget`, from `NamesAssumption`,
`SettingAssumption`, `RevAssumption` (the hash has no collisions),
`RunnerAssumption` and `ExamsAssumption`. It has two invariants. `SettingsInv`
says of the settings that whoever is past its comparison holds the gate and still
knows what the file holds unless it was written without the gate: a comparison
alone says nothing of the moment of the write. `RunInv` says where a run stands
(`Standing`), which form it has brought (`FormKept`), what it extracted so far
(`Extracted`: entry and manifest agree, and with its time stamp the same and no
unseen overwrite since it was consumed, the archive and what came out of it are what
was validated; after exactly one the archive differs, `Steady`, so that the last look
can be passed only after a second) and that every exam it is past is here, named or moved by a
user (`Telling`, without which the last step alone could not tell which exams were
passed silently). `RunInv` needs `SettingsInv` for the types only. The first free
and the first equal name are chosen with CHOOSE, so their lemmas (`Least`,
`FirstFreeIsName`, `FirstSameIsName`) rest on the well-foundedness of the
naturals.

The last part of `SessionStore_proofs` proves `ListTellsAll` of `ListingSpec` for any
`Exams`, `Names`, first folders and residue (`ListingAssumption`: a folder listing ends,
exam IDs may be names of folders, the two special answers are no folders).
`ListingInv` adds to it only what the folders are.  What needs care is that a list records
names while it is made: recording the name of the one folder that was chosen
must not make another choice (`OpenedIsReached`), so that an entry is still what
a later command means.  A recovery that is run again finds nothing (`NothingLeft`) because what it clears is what it looked through under every lock.

Another part of `ScanFlow_proofs` proves `ReadsPencil` of `ReadingSpec` for any number of
questions, choices, ID columns and digits.  The argument is about medians: the
median of values most of which are v, and none below v, is v (`MedianTypical`, from
`KthWithin`: up to the middle the k-th smallest is not above what most are not above); so
where a column is not the darkest everywhere, its level is its print
(`LevelTypical`); where it is, its level is a median over all other cells, most of
which are unmarked because most of each column are (`MinorityOfAll`, an injection of the
marked cells into the others), and lies within the print of the others
(`LevelOfDarkest`).  Then a blank bubble is at most the spread of the print above its level and a
clear mark at least the threshold (`FieldRead`).  A turned sheet whose first and last digits
can be told is upside down by the same lemma with the print laid the other way
(`TurnedIsSeen`), and nothing on it is confirmed.  The proof showed what the code rests on
without a check: that the digits of a form are printed no more than `Ceiling` (0.110)
apart.  With more, a blank bubble under the darkest digit of a choice everybody took
reads as marked; `grid_reader.py` 49 knows of 0.025 to 0.042, and `SheetsAssumption`
states the bound.  `RecordHoldsAlways` needs no such thing.

The last part proves `FormTells` of `FormSpec` for any prints, batches of pages and forms
saved before.  `PagesAssumption` says that nobody marks labels, which the code says, too
(`form_layout.py` 442), and nothing else about the marks; `FormAssumption` that a block
searched for a header has an inner row (the code judges blocks of six rows and more).  The
invariant `FormInv` is that what is shown is what would be decided now, and that what was
accepted is among the saved forms (`Accepted`); the rest is about one decision.  A saved
form that is taken is, row by row, the form the pages make (`MatchingIs`): its structure is
the same, and a page that both fit has one print.  So only two layouts of a page
need be looked at, as printed and without headers, and no page marks a row that
either leaves out (`UnmarkedAbove`); a page of the same print with more rows has another
structure, and then the page counts differ and the mixture is told (`NothingLost`).  On
pages with every question answered the headers are exactly the labels that look
numbered (`HeadersAreLabels`).  That an accepted form is taken again (`FitsAgain`) needs pages that
all reach `MatchShare`, which is at least `TrustedShare` (`FormAssumption`).

The second part of `SourcesAndBridge_proofs` proves `OneVersion` of `SourcesSpec` for any
files, folders, versions, choices and numbers of writes.  `SourceAssumption` says what the
code rests on: a folder holds finitely many files, each has a place of its own in the
order, and that order never puts a later name first.  A page is only made when its file
still is what was listed, so all that is wrong or right is in the list, and
`FilesInv` says what it looks like between two steps.  `Listing`: sources
that are done are there whole (`WholeListed`), those under way in order, with what waits
behind (`PendingInOrder`), which a step at the end of the list cannot
disturb (`GrownKeeps`).  `Unchanged`: while nobody has written since the count was
taken, the inputs of the i-th source stand where the counts of those before it end
(`Before`), and are the pages the form detection takes of it (`ListedNow`); a write
ends that for good, since the number of writes never comes back.  `Sampled` ties the
pages looked at to the same moment.  `DuplicatesDiffer` is what labels need: files of one name
that come first at different places have different numbers before them.  `KeptInv` is
about the copies made when the scan is saved: until its file is written a page shows what
the file holds (`AsRead`), so a copy that is read now is of that version; a later write
has a later time than every page (`KeptWritten`), which is what the property excuses, and
a copy for a page is of its own file if no earlier source goes by its name
(`NamesakeFirst`).  For the import
`Imported` says that the open file holds what was hashed, unless it was written
into after the last look.

Only model-checked: every liveness property (`PendingDeleteFinishes`, `FolderCatchesUp`, `FlowEnds`, `CloseReported`,
`CloseEnds`), which is out of the prover's reach as is whatever
needs ENABLED; the properties of `Catalog`; of `rules`, `VerdictsAgree` and
`BookReturns`, which are about sums and filtered sequences and need induction over
an operator.

## Not modelled

* The steps of detection the index entry of a just imported exam takes
  (`grading_runtime.py` 296-303: the first roster row whose ID equals the sheet's,
  none included).
* How a label is made unique beyond Unicode compatibility forms, package limits of
  workbooks, the wording of warnings.
* Corrections of single digits of an ID, which `bootstrap.py` refuses.
* Licences, update checks, help and the disk-space probe of the controller.

Seen while modelling, and left out of the properties or excused there by name:

* Store: an orphan generation of an interrupted commit makes a later revision
  ambiguous, which `OnlyLeftoversBreak` states (`session_store.py` 1260, 2298); a move
  is checked against the revision before its locks only; a permanent delete that is
  interrupted after `DELETE.json` is gone can lose its tomb; recovery reports the
  empty lock folder of every deleted exam as an orphan.
* Result books: a fix carries over books with names from before 4.0.3
  (`session_store.py` 667-672, 943-951), so that one with the old ID stays beside the
  new one; a user who saves a book between the digest and the unlink loses it
  (excused in `SettledEditsKept`).
* A fix of an exam graded by 2.1.0-2.1.1 is refused until it is graded again: the
  parent's unrounded average is compared with a rounded one
  (`generation_materializer.py` 1231; `score_average.py` 52 promises "correctable").
* Scan: a cancel between the last page collected and the next submission is reported
  as a failure.  Window: a refused fix unlocks a page; a window that could not close
  once never closes; a save of settings whose hash got smaller is taken for failed.
* Folders: deleting an exam that has an Explorer copy makes both ambiguous once the
  list has recorded the copy's name; exams left out for unreadable figures are
  counted, not named; PDFs in a chosen folder are left out silently.
* Books: names are lost for imported IDs of fewer than eight digits; the response
  book of a scan names everyone "미등록"; a key tab with several right choices is
  refused by the key import.
* Scan: the originals kept are read again when the results are saved, without a look at
  their digests: a PDF that was written, replaced or deleted meanwhile is kept in another
  version than was recognised, or not at all (excused in `OneVersion`); of
  two chosen files with one name the first is copied for a page of either that could not
  be recognised, and of pictures in a folder none is (`scan_runtime.py` 574-580).
* Recognition: the same double mark in most rows becomes the reference; a page with
  the last choice throughout weakens the test for pages upside down.  Form detection:
  a form that two thirds of the pages trust is offered as new each time (run
  `form_again`; `FormTells` asks for pages that all show it well); a saved form
  that counts labels keeps winning, with a note; last rows are never judged.
* Transfer: an import that is cut off loses its list of failures and never brings the
  settings; the workbook of an import that is written in place after the last look
  goes in under the old digest (excused in `OneVersion`); two programs that save a
  detected form at once may write one name twice, though `save_generated` promises
  never to overwrite.

Image arithmetic, the layout of workbooks, widgets, logging, the environment probes
and the accuracy tool are left out: floating-point image processing is out of TLC's
reach and the rest is formatting or pure I/O.

## Order of the work

The most important behaviour came first: the store with its abstract specification and
proofs; the result books, the scan with its bridge, the birth of exams; then the
history of an exam, the desk, settings and transfer; then the computed parts in one
run.  What would add most next: proofs about `Catalog`; a run that confirms the unrounded average of versions
2.1.0-2.1.1 and the old book names of a fix; the image folders of an exam, beside the
books; the composition of `SessionBirth` with `Transfer`, where a birth is one
step.
