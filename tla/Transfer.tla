------------------------------ MODULE Transfer ------------------------------
(***************************************************************************)
(* A full backup, and what is brought into a program folder from one or    *)
(* from another program folder: exams, the answer-sheet form and the       *)
(* settings (full_backup.py, data_import.py, backup_use_case.py).          *)
(*                                                                         *)
(* Every exam travels as an archive (backup_archive.py): written of a      *)
(* leased generation, validated, held open by a token, extracted and       *)
(* published.  Archives of a full backup lie on a stick where they can be  *)
(* overwritten at any time.  Of an archive its manifest and one entry are  *)
(* followed, each a generation: the one whose digests the manifest lists,  *)
(* and the one the entry was made of.                                      *)
(* The birth of a restored exam is SessionBirth's subject: here it is one  *)
(* step that finds the session_id in use or not.                           *)
(***************************************************************************)
EXTENDS Catalog

CONSTANTS
  Runner,    (* the program that brings *)
  Exams      (* the exams, in the order of their folders; Budget also bounds *)
             (* what users do with them, I/O errors, crashes and changes of  *)
             (* archives                                                     *)

Exam == {Exams[i] : i \in DOMAIN Exams}

ASSUME RunnerAssumption == Runner \in Proc
ASSUME ExamsAssumption  == Exams \in Seq(Exam)

Inode == 1 .. 2
Other == 0   \* the generation of another archive
NoFile == 0

VARIABLES
  kind,      \* "install" or "backup"
  old,       \* where each exam of the other folder is, and its generation
  oldform,   \* its form file, under the first name
  oldconfig, \* its settings, or None
  backup,    \* the full backup being made: its exam, and the generation leased
  path,      \* the file at each archive's path, or NoFile
  ink,       \* manifest and entry, and time stamp, of each file; and how often it
             \* was overwritten with its time stamp kept, which nothing reads
  home,      \* where each exam is in this folder, what it holds, who put it there
  run,       \* the exam being brought, what was found, what is to be told
  token,     \* the validated archive: file, time stamp and content
  got,       \* the manifest read last, and the entry extracted
  lost       \* exams left in the list by a run that was cut off

source   == <<kind, old, oldform, oldconfig>>
stick    == <<path, ink>>
bringing == <<run, token, got, lost>>
world    == <<source, backup, stick, home, bringing>>
transfer == <<stock, world>>

r == Runner

NoRun   == [turn |-> 1, fresh |-> FALSE, failed |-> {}, name |-> None, told |-> {}, answer |-> "none"]
NoToken == [file |-> NoFile, stamp |-> 0, body |-> <<Other, Other>>, unseen |-> 0]
Absent  == [at |-> "none", body |-> <<Other, Other>>, by |-> "nobody"]
Mine    == [at |-> "list", body |-> <<3, 3>>, by |-> "user"]
Blank   == [body |-> <<Other, Other>>, stamp |-> 0, unseen |-> 0]

BackedUp == backup.turn > Len(Exams)

TransferInit ==
  /\ StockInit
  /\ kind \in {"install", "backup"}
  /\ old \in [Exam -> {[at |-> a, gen |-> 1] : a \in {"none", "list", "trash", "bad"}}]
  /\ oldform \in Content \union {None}
  /\ oldconfig \in {None} \union {s \in Setting : s.form = None \/ (s.form = Names[1] /\ oldform # None)}
  /\ backup = [turn |-> IF kind = "install" THEN Len(Exams) + 1 ELSE 1, lease |-> 0]
  /\ path = [e \in Exam |-> NoFile] /\ ink = [e \in Exam |-> [i \in Inode |-> Blank]]
  /\ home \in [Exam -> {Absent, Mine}]
  /\ run = NoRun /\ token = NoToken /\ got = <<>> /\ lost = {}

-----------------------------------------------------------------------------
(***************************************************************************)
(* A full backup of the other folder, which is in use                      *)
(***************************************************************************)
Backing == Exams[backup.turn]

\* Only what is in the list is backed up; what cannot be opened is reported.
SkipBackup ==
  /\ ~BackedUp /\ backup.lease = 0 /\ old[Backing].at # "list"
  /\ backup' = [backup EXCEPT !.turn = @ + 1]
  /\ UNCHANGED <<stock, source, stick, home, bringing>>

LeaseExam ==
  /\ ~BackedUp /\ backup.lease = 0 /\ old[Backing].at = "list"
  /\ backup' = [backup EXCEPT !.lease = old[Backing].gen]
  /\ UNCHANGED <<stock, source, stick, home, bringing>>

\* A save of the exam, which a lease does not stop.
OldSave(e) ==
  /\ ~BackedUp /\ old[e].at = "list" /\ old[e].gen < 2
  /\ old' = [old EXCEPT ![e] = [at |-> @.at, gen |-> @.gen + 1]]
  /\ UNCHANGED <<stock, kind, oldform, oldconfig, backup, stick, home, bringing>>

\* export: CURRENT.json must still name the leased generation.
Exportable(e) == old[e].gen = backup.lease

\* The archive appears whole or not at all; a failure is reported.
ExportExam ==
  /\ ~BackedUp /\ backup.lease # 0
  /\ \/ /\ Exportable(Backing)
        /\ path' = [path EXCEPT ![Backing] = 1]
        /\ ink' = [ink EXCEPT ![Backing][1].body = <<old[Backing].gen, backup.lease>>]
        /\ UNCHANGED used
     \/ ~Exportable(Backing) /\ UNCHANGED <<stick, used>>
     \/ Count /\ UNCHANGED stick
  /\ backup' = [turn |-> backup.turn + 1, lease |-> 0]
  /\ UNCHANGED <<file, shelf, local, source, home, bringing>>

\* Somebody copies another archive, or a part of it, over one of the backup, in place
\* or by a rename, with a new time stamp or the old one.
Tamper(e) ==
  /\ kind = "backup" /\ BackedUp /\ path[e] # NoFile
  /\ Count
  /\ \/ \E m, v \in {Other, 1}, t \in {0, 1} :
          /\ <<m, v>> # ink[e][path[e]].body
          /\ ink' = [ink EXCEPT ![e][path[e]] =
                       [body |-> <<m, v>>, stamp |-> @.stamp + t, unseen |-> @.unseen + 1 - t]]
        /\ UNCHANGED path
     \/ path[e] = 1 /\ path' = [path EXCEPT ![e] = 2] /\ UNCHANGED ink
  /\ UNCHANGED <<file, shelf, local, source, backup, home, bringing>>

-----------------------------------------------------------------------------
(***************************************************************************)
(* Bringing exams                                                          *)
(***************************************************************************)
This == Exams[run.turn]
Held == ink[This][token.file]

Keep == UNCHANGED <<file, shelf, known, want, spot>>

StartBring ==
  /\ pc[r] = "ready" /\ BackedUp
  /\ kind = "backup" => \E e \in Exam : path[e] # NoFile
  /\ run' = [NoRun EXCEPT !.told = run.told, !.fresh = \A e \in Exam : home[e].at # "list"]
  /\ Goto(r, "bring") /\ Keep
  /\ UNCHANGED <<source, backup, stick, home, token, got, lost, used>>

Past(failed) ==
  /\ token' = NoToken /\ got' = <<>>
  /\ run' = [run EXCEPT !.turn = @ + 1, !.failed = @ \union failed]

\* The next exam of the folder: nothing there, or a folder that cannot be read.
SkipExam ==
  /\ pc[r] = "bring" /\ run.turn <= Len(Exams)
  /\ \/ kind = "backup" /\ path[This] = NoFile /\ Past({})
     \/ kind = "install" /\ old[This].at = "none" /\ Past({})
     \/ kind = "install" /\ old[This].at = "bad" /\ Past({This})
  /\ Keep /\ UNCHANGED <<pc, source, backup, stick, home, lost, used>>

\* An exam of another program folder: an archive of its own is made first.
MakeArchive ==
  /\ pc[r] = "bring" /\ run.turn <= Len(Exams)
  /\ kind = "install" /\ old[This].at \in {"list", "trash"}
  /\ \/ /\ path' = [path EXCEPT ![This] = 1]
        /\ ink' = [ink EXCEPT ![This][1].body = <<old[This].gen, old[This].gen>>]
        /\ Goto(r, "open") /\ UNCHANGED <<run, token, got, used>>
     \/ Count /\ Past({This}) /\ UNCHANGED <<stick, pc>>
  /\ Keep /\ UNCHANGED <<source, backup, home, lost>>

TakeArchive ==
  /\ pc[r] = "bring" /\ run.turn <= Len(Exams)
  /\ kind = "backup" /\ path[This] # NoFile
  /\ Goto(r, "open") /\ Keep
  /\ UNCHANGED <<source, backup, stick, home, run, token, got, lost, used>>

Whole(body) == body[1] = body[2]

\* validate_backup: the file is held open from here on.
OpenToken ==
  /\ pc[r] = "open"
  /\ LET f == path[This] IN
       token' = [file |-> f, stamp |-> ink[This][f].stamp, body |-> ink[This][f].body, unseen |-> 0]
  /\ Goto(r, "manifest1")
  /\ Keep /\ UNCHANGED <<source, backup, stick, home, run, got, lost, used>>

\* _verify_open_source: the file held and the file at the path are the one validated.
SameSource ==
  /\ path[This] = token.file
  /\ Held.body = token.body /\ Held.stamp = token.stamp

GoOn(ok, next, entries) ==
  IF ok THEN Goto(r, next) /\ got' = entries /\ UNCHANGED <<run, token>>
  ELSE Past({This}) /\ Goto(r, "bring")

\* _inspect_layout reads the manifest, and then everything else of the archive: once to
\* validate it and once more before it is extracted.
ReadManifest(at, next) ==
  /\ pc[r] = at
  /\ GoOn(TRUE, next, <<Held.body[1]>>)
  /\ Keep /\ UNCHANGED <<source, backup, stick, home, lost, used>>

\* Mutant of EntryHolds: the digest of an entry is not compared.
EntryCopied == TRUE

\* An entry must have the digest the manifest read last gives it.
EntryHolds == Held.body[2] = got[1]

ReadEntry(at, next) ==
  /\ pc[r] = at
  /\ GoOn(EntryHolds, next, got)
  /\ Keep /\ UNCHANGED <<source, backup, stick, home, lost, used>>

\* consume_for_restore, and the look at the file that extract begins with.
Consume ==
  /\ pc[r] = "consume"
  /\ \/ /\ SameSource
        /\ token' = [token EXCEPT !.unseen = Held.unseen]
        /\ Goto(r, "manifest2") /\ UNCHANGED <<run, got>>
     \/ ~SameSource /\ Past({This}) /\ Goto(r, "bring")
  /\ Keep /\ UNCHANGED <<source, backup, stick, home, lost, used>>

ExtractEntry ==
  /\ pc[r] = "extract"
  /\ GoOn(EntryHolds, "check", <<got[1], Held.body[2]>>)
  /\ Keep /\ UNCHANGED <<source, backup, stick, home, lost, used>>

\* The look at the file that extract ends with, and revalidate.
Recheck ==
  /\ pc[r] = "check"
  /\ GoOn(SameSource, "publish", got)
  /\ Keep /\ UNCHANGED <<source, backup, stick, home, lost, used>>

FromTrash == kind = "install" /\ old[This].at = "trash"

\* Mutant of PublishExam: every failure counts as an exam that is here.
PublishOrHere ==
  /\ pc[r] = "publish"
  /\ \/ /\ home[This].at = "none"
        /\ home' = [home EXCEPT ![This] = [at |-> "list", body |-> got, by |-> "bring"]]
        /\ IF FromTrash THEN Goto(r, "move") /\ UNCHANGED <<run, token, got>> ELSE Past({}) /\ Goto(r, "bring")
        /\ UNCHANGED used
     \/ /\ home[This].at # "none" \/ Count
        /\ home[This].at # "none" => UNCHANGED used
        /\ Past({}) /\ Goto(r, "bring") /\ UNCHANGED home
  /\ Keep /\ UNCHANGED <<source, backup, stick, lost>>

\* publish_restored; an exam that is here already is left alone.
PublishExam ==
  /\ pc[r] = "publish"
  /\ \/ /\ home[This].at = "none"
        /\ home' = [home EXCEPT ![This] = [at |-> "list", body |-> got, by |-> "bring"]]
        /\ IF FromTrash THEN Goto(r, "move") /\ UNCHANGED <<run, token, got>> ELSE Past({}) /\ Goto(r, "bring")
        /\ UNCHANGED used
     \/ home[This].at # "none" /\ Past({}) /\ Goto(r, "bring") /\ UNCHANGED <<home, used>>
     \/ Count /\ Past({This}) /\ Goto(r, "bring") /\ UNCHANGED home
  /\ Keep /\ UNCHANGED <<source, backup, stick, lost>>

\* soft_delete of an exam that was in the trash, at the revision it came with.
MoveExam ==
  /\ pc[r] = "move"
  /\ \/ /\ home[This].at = "list" /\ home[This].body = got
        /\ home' = [home EXCEPT ![This].at = "trash"] /\ Past({}) /\ UNCHANGED used
     \/ /\ home[This].at # "list" \/ home[This].body # got
        /\ Past({This}) /\ UNCHANGED <<home, used>>
     \/ Count /\ Past({This}) /\ UNCHANGED home
  /\ Goto(r, "bring")
  /\ Keep /\ UNCHANGED <<source, backup, stick, lost>>

-----------------------------------------------------------------------------
(***************************************************************************)
(* The form, the settings, the answer                                      *)
(***************************************************************************)
\* The first file here that holds the form.
Same == {n \in Name : forms[n] = oldform}
FirstSame == Names[CHOOSE i \in DOMAIN Names :
                     /\ Names[i] \in Same
                     /\ \A j \in DOMAIN Names : Names[j] \in Same => i <= j]

\* _import_profiles: a form that is here already is not copied.
LookForm ==
  /\ pc[r] = "bring" /\ run.turn > Len(Exams)
  /\ \/ /\ oldform # None /\ Same = {} /\ FreeNames # {}
        /\ spot' = [spot EXCEPT ![r] = [name |-> FirstFree, content |-> oldform]]
        /\ Goto(r, "bringform") /\ UNCHANGED run
     \/ /\ oldform = None \/ Same # {} \/ FreeNames = {}
        /\ run' = IF oldform # None /\ Same # {} THEN [run EXCEPT !.name = FirstSame] ELSE run
        /\ Goto(r, "settings") /\ UNCHANGED spot
  /\ UNCHANGED <<file, shelf, known, want, source, backup, stick, home, token, got,
                 lost, used>>

BringForm ==
  /\ pc[r] = "bringform"
  /\ \/ Put(r) /\ run' = [run EXCEPT !.name = spot[r].name] /\ UNCHANGED used
     \/ Count /\ UNCHANGED <<shelf, run>>
  /\ Goto(r, "settings")
  /\ UNCHANGED <<file, known, want, spot, source, backup, stick, home, token, got,
                 lost>>

\* Mutant of Renamed: the default form keeps the name it had there.
RenamedNot(s) == s

\* The default form may have another name here.
Renamed(s) == IF s.form = None \/ run.name = None THEN s ELSE [s EXCEPT !.form = run.name]

\* A full backup brings its settings only into a folder that had no exam.
BringsSettings == oldconfig # None /\ (kind = "backup" => run.fresh)

Answered == [run EXCEPT !.answer = "ok", !.told = @ \union run.failed]

\* save_config, without the gate; then the answer, and the page reads the settings.
BringSettings ==
  /\ pc[r] = "settings"
  /\ \/ BringsSettings /\ config' = Renamed(oldconfig) /\ by' = "bring" /\ UNCHANGED used
     \/ ~BringsSettings /\ UNCHANGED <<config, by, used>>
     \/ BringsSettings /\ Count /\ UNCHANGED <<config, by>>
  /\ run' = Answered /\ Goto(r, "reload")
  /\ UNCHANGED <<gate, shelf, known, want, spot, source, backup, stick, home, token,
                 got, lost>>

\* A page that cannot read them keeps the settings it knows.
Reload ==
  /\ pc[r] = "reload"
  /\ known' \in {known, [known EXCEPT ![r] = Current]} /\ Goto(r, "ready")
  /\ UNCHANGED <<file, shelf, want, spot, used, world>>

\* An error no exam is to blame for, or the death of the program: nothing is told of
\* the run, and what it did stays.
CutOff ==
  /\ pc[r] \in {"bring", "open", "manifest1", "entry1", "consume", "manifest2", "entry2", "extract",
               "check", "publish", "move", "bringform", "settings"}
  /\ Count
  /\ lost' = lost \union run.failed \union (IF pc[r] = "move" THEN {This} ELSE {})
  /\ run' = [NoRun EXCEPT !.told = run.told, !.answer = "error"]
  /\ \E l \in {"ready", "off"} : Goto(r, l)
  /\ token' = NoToken /\ got' = <<>>
  /\ Keep /\ UNCHANGED <<source, backup, stick, home>>

\* Meanwhile users of other programs work with the exams of this folder.
User(e) ==
  /\ Count /\ home[e].at # "none"
  /\ \E a \in {"list", "trash", "none"} :
       /\ a = "none" => home[e].at = "trash"
       /\ home' = [home EXCEPT ![e] =
                     IF a = home[e].at THEN [@ EXCEPT !.body = <<3, 3>>]
                     ELSE [at |-> a, body |-> @.body, by |-> "user"]]
       /\ a = home[e].at => a = "list" /\ home[e].body # <<3, 3>>
  /\ UNCHANGED <<file, shelf, local, source, backup, stick, bringing>>

-----------------------------------------------------------------------------
Bring ==
  \/ StartBring \/ SkipExam \/ MakeArchive \/ TakeArchive \/ OpenToken
  \/ ReadManifest("manifest1", "entry1") \/ ReadEntry("entry1", "consume") \/ Consume
  \/ ReadManifest("manifest2", "entry2") \/ ReadEntry("entry2", "extract")
  \/ ExtractEntry \/ Recheck \/ PublishExam \/ MoveExam
  \/ LookForm \/ BringForm \/ BringSettings \/ Reload \/ CutOff

TransferNext ==
  \/ SkipBackup \/ LeaseExam \/ ExportExam \/ Bring
  \/ \E e \in Exam : OldSave(e) \/ Tamper(e) \/ User(e)
  \/ \E p \in Proc : Stock(p) /\ UNCHANGED world

TransferSpec == TransferInit /\ [][TransferNext]_transfer

-----------------------------------------------------------------------------
(***************************************************************************)
(* Properties                                                              *)
(***************************************************************************)
Appears(e) == home[e].at = "none" /\ home'[e].at # "none"

\* An exam that appears is one generation, whatever is copied over its archive while
\* that is read, piece by piece.  It is the one that was validated, unless the archive
\* was overwritten and put back after consume_for_restore, its time stamp kept each time
\* (BackupArchive.extract inspects the archive anew between its two looks at it).
RestoresWhatWasChecked ==
  [][\A e \in Exam : Appears(e) =>
       /\ Whole(home'[e].body)
       /\ home'[e].body = token.body \/ ink[e][token.file].unseen >= token.unseen + 2]_transfer

Brought(e) ==
  IF kind = "backup" THEN path[e] # NoFile ELSE old[e].at # "none"

\* When a run answers, every exam it was to bring is here, or named as failed, or
\* was deleted by a user since.  An exam that was in the trash there and is in the
\* list here, and no user put it there, was named as failed, unless the run was cut
\* off (import_previous_install).
BringTellsAll ==
  /\ pc[r] = "reload" => \A e \in Exam :
       Brought(e) => home[e].at # "none" \/ e \in run.failed \/ home[e].by = "user"
  /\ \A e \in Exam :
       (kind = "install" /\ old[e].at = "trash" /\ home[e].at = "list" /\ home[e].by = "bring")
         => e \in run.told \union run.failed \union lost \/ (pc[r] = "move" /\ This = e)

\* Imported settings name the form they named there, under the name it has here,
\* unless somebody has replaced it since, or it could not be brought.
DefaultFollows ==
  [][(pc[r] = "settings" /\ by' = "bring" /\ config' # config)
       => \/ config'.form = None \/ run.name = None
          \/ forms[config'.form] = oldform \/ config'.form \in over]_transfer
=============================================================================
