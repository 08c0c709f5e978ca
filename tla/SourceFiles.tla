---------------------------- MODULE SourceFiles ----------------------------
(***************************************************************************)
(* Files that are read more than once while other programs may change      *)
(* them: the pictures and PDFs of a scan (infrastructure/scan_runtime.py,  *)
(* form_detection.py, ingestion/images.py, pdf.py, domain/session.py) and  *)
(* the workbook of an import (application/response_import_use_case.py,     *)
(* validation_token.py).  What recognition makes of a page is in           *)
(* PageReading; here it gives up on any pages but not on all.              *)
(*                                                                         *)
(* A version stands for the bytes of a file and for their digest.  A file  *)
(* is written in place, replaced by another one, or deleted between any    *)
(* two steps; each write changes what os.stat tells of it (`stamp`).  The  *)
(* window runs one operation at a time.                                    *)
(***************************************************************************)
EXTENDS Integers, Sequences, FiniteSets

CONSTANTS
  Paths,        (* files                                                   *)
  FileFolders,  (* folders                                                 *)
  Kind,         (* of a path: "pdf", "image" or "other", by its extension  *)
  Inside,       (* of a folder: the paths in it                            *)
  Name,         (* of a path: the name without its folder, a number in the *)
                (* order of names                                          *)
  Place,        (* of a path: where it is sorted in its folder; names that *)
                (* are composed alike come in any order                    *)
  Alike,        (* of a name: what it is under Unicode compatibility forms *)
  Composed,     (* paths that lead to their file as they are: the name on  *)
                (* the disk is the Name                                    *)
  Versions,     (* of a path: the contents it may have                     *)
  PagesOf,      (* of a version: pages of a PDF, 0 if it does not open     *)
  RowsOf,       (* of a version: rows of a response sheet, 0 if refused    *)
  Unfit,        (* versions larger than a scan takes                       *)
  FirstDisks,   (* what the files may hold at first                        *)
  ScanChoices,  (* what a user may choose, in order                        *)
  Books,        (* workbooks a user may import                             *)
  SampleLimit,  (* pages looked at to find the form                        *)
  MaxWrites,    (* bound on what other programs do                         *)
  Absent

ASSUME SourceAssumption ==
  /\ \A f \in FileFolders : Inside[f] \subseteq Paths /\ IsFiniteSet(Inside[f])
  /\ \A f \in FileFolders : \A p, q \in Inside[f] : Place[p] = Place[q] => p = q
  /\ \A f \in FileFolders : \A p, q \in Inside[f] : Place[p] < Place[q] => Name[p] <= Name[q]
  /\ \A p \in Paths : /\ Kind[p] \in {"pdf", "image", "other"} /\ Place[p] \in Nat
                       /\ Absent \notin Versions[p]
                       /\ \A v \in Versions[p] : PagesOf[v] \in Nat
  /\ \A contents \in FirstDisks :
       /\ contents = [p \in Paths |-> contents[p]]
       /\ \A p \in Paths : contents[p] \in Versions[p] \union {Absent}
  /\ \A chosen \in ScanChoices : chosen \in Seq(Paths \union FileFolders)
  /\ Books \subseteq Paths /\ Composed \subseteq Paths
  /\ SampleLimit \in Nat \ {0} /\ MaxWrites \in Nat

VARIABLES
  disk,       \* what each file holds, or Absent
  stamp,      \* what os.stat tells of it
  writes,     \* what other programs did so far
  selection,  \* the sources chosen for a scan
  sample,     \* the pages the form was looked for on, and when
  scan,       \* the preparation of the scan
  token,      \* the workbook held open for an import, or Absent
  imported    \* what an import was made of, or Absent

sources == <<disk, stamp, writes, selection, sample, scan, token, imported>>

-----------------------------------------------------------------------------
(***************************************************************************)
(* What a selection holds                                                  *)
(***************************************************************************)
Images(f) == {p \in Inside[f] : Kind[p] = "image" /\ disk[p] # Absent}

\* By name; a folder is not searched for PDFs or for folders.
Sorted(paths) ==
  [k \in 1 .. Cardinality(paths) |->
     CHOOSE p \in paths : Cardinality({q \in paths : Place[q] < Place[p]}) = k - 1]

\* Pages of a source, for the question whether to scan so many.
PagesIn(source) ==
  IF source \in FileFolders THEN Cardinality(Images(source))
  ELSE CASE Kind[source] = "pdf" -> IF disk[source] = Absent THEN 0 ELSE PagesOf[disk[source]]
         [] Kind[source] = "image" -> 1
         [] OTHER -> 0

\* How many there are in the sources before the i-th.
Before(lengths, i) == Cardinality(UNION {{j} \X (1 .. lengths[j]) : j \in 1 .. i - 1})

PageCounts == [i \in DOMAIN selection |-> PagesIn(selection[i])]

ScanPageCount == Before(PageCounts, Len(selection) + 1)

PdfOpens(p) == PagesOf[disk[p]] > 0

CanBeRead(p) == disk[p] # Absent /\ disk[p] \notin Unfit /\ (Kind[p] = "pdf" => PdfOpens(p))

\* The pages of one source, as the form detection takes them: what cannot be read is
\* passed over.
PageLoaders(source) ==
  IF source \in FileFolders
  THEN LET files == Sorted({p \in Images(source) : CanBeRead(p)})
       IN [i \in DOMAIN files |-> <<disk[files[i]], 0>>]
  ELSE CASE ~CanBeRead(source) \/ Kind[source] = "other" -> <<>>
         [] CanBeRead(source) /\ Kind[source] = "pdf" ->
              [n \in 1 .. PagesOf[disk[source]] |-> <<disk[source], n>>]
         [] CanBeRead(source) /\ Kind[source] = "image" -> <<<<disk[source], 0>>>>

\* The first pages of all sources.
SamplePages ==
  LET lengths == [i \in DOMAIN selection |-> Len(PageLoaders(selection[i]))]
      all == Before(lengths, Len(selection) + 1)
  IN [k \in 1 .. (IF all < SampleLimit THEN all ELSE SampleLimit) |->
        LET i == CHOOSE j \in DOMAIN selection : k - Before(lengths, j) \in 1 .. lengths[j]
        IN PageLoaders(selection[i])[k - Before(lengths, i)]]

-----------------------------------------------------------------------------
(***************************************************************************)
(* Pages and their identity                                                *)
(***************************************************************************)
\* Files of one name are numbered in the order they come first.
DuplicateOrdinal(inputs, p) ==
  LET first == CHOOSE i \in DOMAIN inputs : inputs[i].path = p /\ \A j \in 1 .. i - 1 : inputs[j].path # p
  IN Cardinality({inputs[j].path : j \in {k \in 1 .. first : Name[inputs[k].path] = Name[p]}} \ {p})

StableWorkItemId(input, ordinal, duplicate) ==
  <<Kind[input.path], input.digest, input.page, ordinal, duplicate>>

SourceLabel(p, duplicate) == <<Alike[Name[p]], duplicate>>

BuildPageRef(inputs, ordinal) ==
  LET input == inputs[ordinal + 1]
      duplicate == DuplicateOrdinal(inputs, input.path)
  IN [id |-> StableWorkItemId(input, ordinal, duplicate),
      label |-> SourceLabel(input.path, duplicate)]

-----------------------------------------------------------------------------
(***************************************************************************)
(* The preparation of a scan                                               *)
(***************************************************************************)
\* stage: idle, listing source `at`, hashing the pictures `pending` of it, rendering,
\* ready, keeping, kept or refused.  Each input remembers the source it is of, each page
\* when it was read.  Kept is a copy of each source (`originals`) and one for each page
\* that recognition gave up on (`failed`, `reviews`), or Absent.
NoScan ==
  [stage |-> "idle", at |-> 0, pending |-> <<>>, inputs |-> <<>>, pages |-> <<>>,
   counted |-> 0, since |-> 0, failed |-> {}, originals |-> <<>>, reviews |-> <<>>]

\* The window starts nothing else before these end.
UnderWay == {"listing", "rendering", "ready", "keeping"}

Input(p, page) == [path |-> p, digest |-> disk[p], page |-> page, source |-> scan.at]

ScanOnly == UNCHANGED <<disk, stamp, writes, token, imported>>

Choose(chosen) ==
  /\ scan.stage \notin UnderWay
  /\ selection' = chosen /\ sample' = Absent /\ scan' = NoScan
  /\ ScanOnly

Sample ==
  /\ scan.stage = "idle" /\ selection # <<>> /\ sample = Absent
  /\ sample' = [pages |-> SamplePages, at |-> writes]
  /\ UNCHANGED <<selection, scan>> /\ ScanOnly

StartScan ==
  /\ scan.stage = "idle" /\ selection # <<>> /\ token = Absent
  /\ scan' = [NoScan EXCEPT !.stage = "listing", !.at = 1, !.counted = ScanPageCount, !.since = writes]
  /\ UNCHANGED <<selection, sample>> /\ ScanOnly

Refused == [NoScan EXCEPT !.stage = "refused"]

\* The next source is looked at: a PDF is read and its pages are listed; of pictures the
\* size and time are noted before any of them is read.
EnumeratePdf(p) ==
  IF ~CanBeRead(p) THEN Refused
  ELSE [scan EXCEPT !.at = @ + 1,
                    !.inputs = @ \o [n \in 1 .. PagesOf[disk[p]] |-> Input(p, n)]]

EnumerateImages(paths) ==
  IF \E p \in paths : ~CanBeRead(p) THEN Refused
  ELSE [scan EXCEPT !.pending = [i \in DOMAIN Sorted(paths) |-> <<Sorted(paths)[i], stamp[Sorted(paths)[i]]>>],
                    !.at = IF paths = {} THEN @ + 1 ELSE @]

ToList == scan.stage = "listing" /\ scan.pending = <<>> /\ scan.at <= Len(selection)

ListSource ==
  /\ ToList
  /\ LET source == selection[scan.at] IN
     scan' = IF source \in FileFolders THEN EnumerateImages(Images(source))
             ELSE CASE Kind[source] = "pdf" -> EnumeratePdf(source)
                    [] Kind[source] = "image" -> EnumerateImages({source})
                    [] Kind[source] = "other" -> Refused
  /\ UNCHANGED <<selection, sample>> /\ ScanOnly

\* A picture is hashed; it must be as it was when it was listed.
HashAuthenticated(p, listed) == disk[p] # Absent /\ stamp[p] = listed

HashNext ==
  /\ scan.stage = "listing" /\ scan.pending # <<>>
  /\ LET p == Head(scan.pending)[1]
         last == Len(scan.pending) = 1
     IN scan' = IF ~HashAuthenticated(p, Head(scan.pending)[2]) THEN Refused
                ELSE [scan EXCEPT !.pending = Tail(@), !.inputs = Append(@, Input(p, 0)),
                                  !.at = IF last THEN @ + 1 ELSE @]
  /\ UNCHANGED <<selection, sample>> /\ ScanOnly

AllListed ==
  /\ scan.stage = "listing" /\ scan.pending = <<>> /\ scan.at > Len(selection)
  /\ scan' = IF scan.inputs = <<>> THEN Refused ELSE [scan EXCEPT !.stage = "rendering"]
  /\ UNCHANGED <<selection, sample>> /\ ScanOnly

\* Mutant of SamePage: the file is read again as it is now.
ReadablePage(input) == disk[input.path] # Absent

\* What is read again is what was listed.
SamePage(input) == disk[input.path] = input.digest

\* One page is rendered, or its picture read, for recognition.
PreparePage ==
  /\ scan.stage = "rendering"
  /\ LET ordinal == Len(scan.pages)
         input == scan.inputs[ordinal + 1]
         ref == BuildPageRef(scan.inputs, ordinal)
         page == [id |-> ref.id, label |-> ref.label, path |-> input.path, source |-> input.source,
                  bytes |-> <<disk[input.path], input.page>>, read |-> writes]
     IN scan' = IF ~SamePage(input) THEN Refused
                ELSE [scan EXCEPT !.pages = Append(@, page),
                        !.stage = IF ordinal + 1 = Len(scan.inputs) THEN "ready" ELSE @]
  /\ UNCHANGED <<selection, sample>> /\ ScanOnly

\* Recognition is over and read some page: the commit begins.
Recognized(failed) ==
  /\ scan.stage = "ready" /\ failed # DOMAIN scan.pages
  /\ scan' = [scan EXCEPT !.stage = "keeping", !.failed = failed]
  /\ UNCHANGED <<selection, sample>> /\ ScanOnly

\* The next source is copied if it is a PDF that is still there; nothing is compared.
KeepOriginal ==
  /\ scan.stage = "keeping" /\ Len(scan.originals) < Len(selection)
  /\ LET source == selection[Len(scan.originals) + 1]
     IN scan' = [scan EXCEPT !.originals =
                   Append(@, IF source \in Paths /\ Kind[source] = "pdf" THEN disk[source] ELSE Absent)]
  /\ UNCHANGED <<selection, sample>> /\ ScanOnly

\* Chosen sources that go by the name of a page.
Namesake(page) ==
  {i \in DOMAIN selection : selection[i] \in Composed /\ Name[selection[i]] = Name[page.path]}

\* For a page given up on the first of them is copied; nothing is compared.
KeepReview ==
  /\ scan.stage = "keeping" /\ Len(scan.originals) = Len(selection)
  /\ LET a == Len(scan.reviews) + 1
         files == {i \in Namesake(scan.pages[a]) : a \in scan.failed /\ disk[selection[i]] # Absent}
         copy == IF files = {} THEN Absent
                 ELSE disk[selection[CHOOSE i \in files : \A j \in files : i <= j]]
     IN scan' = [scan EXCEPT !.reviews = Append(@, copy),
                             !.stage = IF a = Len(scan.pages) THEN "kept" ELSE @]
  /\ UNCHANGED <<selection, sample>> /\ ScanOnly

\* The renderer gives up on a page, a quota ends the preparation, the scan is cancelled, no
\* page could be recognised, or the commit fails.
ScanFails ==
  /\ scan.stage \in UnderWay
  /\ scan' = Refused
  /\ UNCHANGED <<selection, sample>> /\ ScanOnly

-----------------------------------------------------------------------------
(***************************************************************************)
(* The import of a workbook that is held open                              *)
(***************************************************************************)
\* sha, stamp   what the file was when it was opened,
\* content, now what the open file holds now,
\* linked       the path still leads to this file,
\* used         the import has begun, written: it was written into since.
ImportOnly == UNCHANGED <<disk, stamp, writes, selection, sample, scan>>

ValidateResponseBook(b) ==
  /\ token = Absent /\ scan.stage \notin UnderWay
  /\ disk[b] # Absent /\ RowsOf[disk[b]] > 0
  /\ token' = [path |-> b, sha |-> disk[b], stamp |-> stamp[b], content |-> disk[b], now |-> stamp[b],
               linked |-> TRUE, used |-> FALSE, written |-> FALSE]
  /\ imported' = Absent
  /\ ImportOnly

VerifyOpenSource(t) == t.linked /\ t.now = t.stamp /\ t.content = t.sha

ConsumeForImport ==
  /\ token # Absent /\ ~token.used
  /\ token' = IF VerifyOpenSource(token) THEN [token EXCEPT !.used = TRUE] ELSE Absent
  /\ UNCHANGED imported /\ ImportOnly

\* The sheet is read from the open file and saved with the digest it was validated with.
CommitImportedResponses ==
  /\ token # Absent /\ token.used
  /\ token' = Absent
  /\ imported' = IF RowsOf[token.content] = 0 THEN Absent
                 ELSE [sha |-> token.sha, of |-> token.content, written |-> token.written]
  /\ ImportOnly

\* Anything that fails on the way ends the import.
ImportFails ==
  /\ token # Absent /\ token' = Absent
  /\ UNCHANGED imported /\ ImportOnly

-----------------------------------------------------------------------------
(***************************************************************************)
(* Other programs                                                          *)
(***************************************************************************)
Written(p, v) ==
  /\ writes < MaxWrites /\ writes' = writes + 1
  /\ disk' = [disk EXCEPT ![p] = v]
  /\ stamp' = [stamp EXCEPT ![p] = writes + 1]
  /\ UNCHANGED <<selection, sample, scan, imported>>

Held(p) == token # Absent /\ token.path = p /\ token.linked

\* Another file takes the place of this one, or none does.
Replace(p, v) ==
  /\ Written(p, v)
  /\ token' = IF Held(p) THEN [token EXCEPT !.linked = FALSE] ELSE token

\* The file itself is written into.
Overwrite(p, v) ==
  /\ disk[p] # Absent
  /\ Written(p, v)
  /\ token' = IF Held(p)
              THEN [token EXCEPT !.content = v, !.now = writes + 1, !.written = token.used]
              ELSE token

SourcesInit ==
  /\ disk \in FirstDisks
  /\ stamp = [p \in Paths |-> 0] /\ writes = 0
  /\ selection = <<>> /\ sample = Absent /\ scan = NoScan
  /\ token = Absent /\ imported = Absent

SourcesNext ==
  \/ \E chosen \in ScanChoices : Choose(chosen)
  \/ Sample \/ StartScan \/ ListSource \/ HashNext \/ AllListed \/ PreparePage
  \/ \E failed \in SUBSET DOMAIN scan.pages : Recognized(failed)
  \/ KeepOriginal \/ KeepReview \/ ScanFails
  \/ \E b \in Books : ValidateResponseBook(b)
  \/ ConsumeForImport \/ CommitImportedResponses \/ ImportFails
  \/ \E p \in Paths : \/ \E v \in Versions[p] \union {Absent} : Replace(p, v)
                      \/ \E v \in Versions[p] : Overwrite(p, v)

SourcesSpec == SourcesInit /\ [][SourcesNext]_sources

-----------------------------------------------------------------------------
(***************************************************************************)
(* Correctness                                                             *)
(***************************************************************************)
Ready == scan.stage \in {"ready", "keeping", "kept"}

\* The prepared pages of the i-th source.
PagesFrom(i) == {a \in DOMAIN scan.pages : scan.pages[a].source = i}

\* All pages of a PDF, of one version of it, on end; every picture of a folder once, by name.
WholeSource(i) ==
  IF selection[i] \in FileFolders
  THEN \A a, b \in PagesFrom(i) :
         LET p == scan.pages[a].path q == scan.pages[b].path
         IN a < b => p # q /\ Name[p] <= Name[q]
  ELSE CASE Kind[selection[i]] = "pdf" ->
              \E v \in Versions[selection[i]], skipped \in 0 .. Len(scan.pages) :
                /\ PagesFrom(i) = skipped + 1 .. skipped + PagesOf[v]
                /\ \A n \in 1 .. PagesOf[v] : scan.pages[skipped + n].bytes = <<v, n>>
         [] Kind[selection[i]] = "image" ->
              \E a \in DOMAIN scan.pages : PagesFrom(i) = {a} /\ scan.pages[a].path = selection[i]

\* Every page has an identity and, with its number in the file, a label of its own;
\* only names that differ in Unicode compatibility forms alone get the same label.
ToldApart ==
  \A a, b \in DOMAIN scan.pages :
    LET x == scan.pages[a] y == scan.pages[b] IN
    /\ x.id = y.id => a = b
    /\ x.label = y.label => x.path = y.path \/ (Name[x.path] # Name[y.path] /\ Alike[Name[x.path]] = Alike[Name[y.path]])

\* A page's file was not written since the page was read.
AsItWas(page) == stamp[page.path] <= page.read

\* What is kept of a PDF is what its pages were made of, unless it was written since; so
\* is what is kept for a page given up on, unless an earlier source goes by its name.
KeptAsRead ==
  \A a \in DOMAIN scan.pages, i \in DOMAIN selection :
    LET page == scan.pages[a] IN
    page.path = selection[i] /\ AsItWas(page) =>
      /\ Kind[page.path] = "pdf" => scan.originals[i] = page.bytes[1]
      /\ a \in scan.failed /\ page.path \in Composed /\ Namesake(page) \subseteq i .. Len(selection)
           => scan.reviews[a] = page.bytes[1]

\* What is recognised in a scan is one version of each file: all its pages, in the order
\* chosen, none twice; if nothing changed since, as many as the user was asked about, the
\* first of which the form was found on; and the exam keeps the originals they were read
\* from, unless those were written since.  What an import makes an exam of is the workbook
\* whose digest it records, unless that is written into after the last look
\* ("tokens that close validate-to-use races", validation_token.py).
OneVersion ==
  /\ Ready =>
       /\ \A i \in DOMAIN selection : WholeSource(i)
       /\ \A a, b \in DOMAIN scan.pages : a < b => scan.pages[a].source <= scan.pages[b].source
       /\ ToldApart
       /\ writes = scan.since => Len(scan.pages) = scan.counted
       /\ sample # Absent /\ sample.at = writes =>
            LET read == Len(scan.pages)
                looked == IF read < SampleLimit THEN read ELSE SampleLimit
            IN sample.pages = [a \in 1 .. looked |-> scan.pages[a].bytes]
  /\ scan.stage = "kept" => KeptAsRead
  /\ imported # Absent /\ ~imported.written => imported.of = imported.sha
=============================================================================
