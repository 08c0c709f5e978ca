------------------------------ MODULE MCRules ------------------------------
(***************************************************************************)
(* Five separate things in one run: a sheet that is read, the form it is   *)
(* read with, exams whose books are written and combined, folders that are *)
(* listed, and files that change while they are read.  `topic` says which; *)
(* the variables of the others rest.                                       *)
(***************************************************************************)
EXTENDS PageReading, CombinedScores, ExamListing, SourceFiles, FormDetection

VARIABLE topic

-----------------------------------------------------------------------------
(* Sheets *)
Graded == <<20, 36, 50>>
Even   == <<30, 30, 30>>

Row(f) == [c \in 1 .. 3 |-> IF c \in DOMAIN f THEN f[c] ELSE 0]

MCRows ==
  {<<0, 0, 0>>, <<640, 0, 0>>, <<0, 640, 0>>, <<0, 0, 640>>, <<300, 0, 0>>, <<0, 0, 300>>,
   <<640, 640, 0>>, <<640, 0, 300>>}

MCIdRows == {[d \in 0 .. 2 |-> IF d = k THEN 600 ELSE 0] : k \in 0 .. 2}
            \union {[d \in 0 .. 2 |-> 0], [d \in 0 .. 2 |-> IF d < 2 THEN 600 ELSE 0],
                    [d \in 0 .. 2 |-> IF d = 1 THEN 280 ELSE 0]}

IdPrint == [d \in 0 .. 2 |-> 20 + 10 * d]

Upright == [upright |-> 92, turned |-> 78]
Wrong   == [upright |-> 78, turned |-> 90]
Poses   == {Upright, Wrong, [upright |-> 80, turned |-> 78], [upright |-> 60, turned |-> 20],
            [upright |-> 30, turned |-> 40]}

Sheet(image, pose, extra, shifted, print, pencil, idpencil, cut, idcut, beside) ==
  [image |-> image, upright |-> pose.upright, turned |-> pose.turned, extra |-> extra,
   shifted |-> shifted, print |-> print, pencil |-> pencil, idprint |-> IdPrint,
   idpencil |-> idpencil, cut |-> cut, idcut |-> idcut, beside |-> beside]

PlainId == <<[d \in 0 .. 2 |-> IF d = 1 THEN 600 ELSE 0], [d \in 0 .. 2 |-> IF d = 2 THEN 600 ELSE 0]>>

Typical == {<<<<640, 0, 0>>, <<0, 640, 0>>, <<0, 0, 300>>>>, <<<<0, 0, 0>>, <<640, 0, 0>>, <<0, 200, 0>>>>}

MCSheets ==
  {Sheet("good", p, 0, 0, d, r, PlainId, {}, {}, {}) :
     p \in {Upright, Wrong}, d \in {Graded}, r \in [1 .. 3 -> MCRows]}
  \union
  {Sheet("good", Upright, 0, 0, Even, r, PlainId, {}, {}, {}) : r \in [1 .. 3 -> MCRows]}
  \union
  {Sheet("good", p, 0, 0, Graded, r, i, c, k, b) :
     p \in Poses, r \in Typical, i \in [1 .. 2 -> MCIdRows], c \in {{}, {1}}, k \in {{}, {2}},
     b \in {{}, {<<20, 260, 50>>}, {<<300, 310, 320>>}}}
  \union
  {Sheet(m, p, e, f, Graded, r, PlainId, {}, {}, {}) :
     m \in {"good", "bad_profile", "undecodable", "odd_frame"}, p \in Poses, e \in {0, 30}, f \in {0, 1},
     r \in Typical}

-----------------------------------------------------------------------------
(* Exams *)
N(c) == Answer("normal", {c})
U(c) == Answer("uncertain", {c})
M    == Answer("multiple", {1, 3})
B    == Answer("blank", {})
X    == Answer("unasked", {})

Ok(id) == [id |-> id, status |-> "normal"]
Bad    == [id |-> NoId, status |-> "invalid"]

Key(a, b, c) == <<a, b, c>>
Ask(choices, points) == [status |-> "asked", choices |-> choices, points |-> points]
All(points) == [status |-> "all", choices |-> {}, points |-> points]
Off == [status |-> "unasked", choices |-> {}, points |-> 0]

Fine  == <<Ask({1}, 1), Ask({1, 3}, 2), Off>>
Gap   == <<Ask({1}, 2), Off, Ask({2}, 4)>>

NewExam(key, answers, ids, roster) ==
  [origin |-> "scan", graded |-> key # UnsetKey, key |-> key, answers |-> answers, ids |-> ids,
   fixes |-> <<>>, roster |-> roster]

Roster ==
  RosterRead(<<[id |-> 2, name |-> 1], [id |-> 1, name |-> 3], [id |-> 2, name |-> 2], [id |-> 3, name |-> 4]>>)

A1 == <<N(1), M, U(2)>>
A2 == <<N(2), B, N(2)>>
A3 == <<U(1), M, B>>
A4 == <<N(1), N(3), X>>

MCParts1 == {NewExam(k, <<A1, A3>>, i, Roster) : k \in {UnsetKey, Fine}, i \in {<<Ok(1), Ok(2)>>, <<Ok(1), Bad>>}}
MCParts2 == {NewExam(Gap, <<A2, A2>>, <<Ok(2), Ok(1)>>, Roster), NewExam(Fine, <<A4, A2>>, <<Ok(2), Ok(3)>>, <<>>),
             NewExam(Gap, <<A2, A1>>, <<Ok(1), Ok(1)>>, Roster)}

MCFirst == {("a" :> x) @@ ("b" :> y) @@ ("c" :> None) : x \in MCParts1, y \in MCParts2}

MCKeyFiles ==
  {KeyFile(Fine),
   <<[question |-> 3, cell |-> KeyCell("digits", <<2>>), points |-> 4],
     [question |-> 2, cell |-> KeyCell("everyone", <<>>), points |-> 3]>>,
   <<[question |-> 1, cell |-> KeyCell("digits", <<3, 1>>), points |-> 1],
     [question |-> 2, cell |-> KeyCell("empty", <<>>), points |-> None]>>,
   <<[question |-> 1, cell |-> KeyCell("commas", <<1, 3>>), points |-> 1]>>}

Rng(name, part, first, last) == [name |-> name, part |-> part, first |-> first, last |-> last]
Crit(item, kind, number) == [item |-> item, cell |-> [kind |-> kind, number |-> number]]

MCConfigs ==
  {[subjects |-> <<Rng("x", 1, 1, 2), Rng("y", 2, 1, 3), Rng("x", 1, 3, 3)>>,
    criteria |-> <<Crit("per_subject", "formatted", 600), Crit("total", "plain", 60000)>>],
   [subjects |-> <<Rng("x", 1, 1, 2), Rng("y", 2, 1, 2)>>, criteria |-> <<Crit("per_subject", "text", 50000)>>],
   [subjects |-> <<Rng("x", 1, 1, 2), Rng("y", 2, 1, 2), Rng("y", 1, 2, 3)>>, criteria |-> <<>>],
   [subjects |-> <<Rng("x", 1, 1, 3)>>, criteria |-> <<Crit("total", "plain", 600)>>]}

-----------------------------------------------------------------------------
(* Folders *)
FolderOf(id, recorded, state) ==
  [id |-> id, state |-> state, recorded |-> recorded, shows |-> TRUE, staged |-> state = "good"]

MCFolders ==
  {(<<"list", "a">> :> FolderOf("x", "a", "good")) @@ (<<"trash", "x">> :> FolderOf("y", "x", "good")),
   (<<"list", "a">> :> FolderOf("x", "a", "good")) @@ (<<"trash", "y">> :> FolderOf("y", "b", "good"))
     @@ (<<"list", "y">> :> [FolderOf(Missing, Missing, "no_pointer") EXCEPT !.staged = FALSE]),
   (<<"list", "b">> :> [FolderOf("x", "b", "good") EXCEPT !.shows = FALSE])}

MCResidue ==
  {[staging |-> b, reservations |-> IF b THEN {"unreadable"} ELSE {},
    tombs |-> IF b THEN ("y" :> "readable") ELSE <<>>, lockdirs |-> {"x", "y"},
    locks |-> IF b THEN {"x", "y"} ELSE {"y"}] : b \in BOOLEAN}

-----------------------------------------------------------------------------
(* Files: two PDFs of one name, two pictures whose names look alike, a third whose name  *)
(* is that of the second when it is composed, a workbook                                 *)
MCKind == [p \in Paths |-> CASE p \in {"p1", "p2"} -> "pdf" [] p \in {"i1", "i2", "i3"} -> "image" [] OTHER -> "other"]

MCInside == [f \in FileFolders |-> {"p2", "i1", "i2", "i3"}]

MCName == [p \in Paths |-> CASE p \in {"p1", "p2"} -> 1 [] p = "i1" -> 2 [] p \in {"i2", "i3"} -> 3 [] OTHER -> 4]

MCPlace == [p \in Paths |-> IF p = "i3" THEN 4 ELSE IF MCName[p] = 4 THEN 5 ELSE MCName[p]]

MCAlike == [n \in 1 .. 4 |-> IF n = 3 THEN 2 ELSE n]

MCVersions ==
  [p \in Paths |-> CASE p = "p1" -> {"two", "other two"} [] p = "p2" -> {"one", "broken"}
                     [] p = "i1" -> {"blank", "marked"} [] p = "i2" -> {"blank", "huge"}
                     [] p = "i3" -> {"blank"} [] OTHER -> {"rows", "other rows", "refused"}]

AllVersions == UNION {MCVersions[p] : p \in Paths}

MCPagesOf == [v \in AllVersions |-> CASE v \in {"two", "other two"} -> 2 [] v = "one" -> 1 [] OTHER -> 0]

MCRowsOf == [v \in AllVersions |-> CASE v = "rows" -> 2 [] v = "other rows" -> 1 [] OTHER -> 0]

MCFirstDisks ==
  {[p \in Paths |-> CASE p = "p1" -> "two" [] p = "p2" -> "one" [] p = "i1" -> "blank" [] p \in {"i2", "i3"} -> y
                      [] OTHER -> "rows"] : y \in {"blank", Absent}}

MCScanChoices ==
  {<<"p1">>, <<"dir", "p2">>, <<"p2", "i1", "p2">>, <<"i2", "dir">>, <<"book">>}

\* An import and a scan share nothing but the disk: a behaviour has one of them.  Others
\* write what a scan looks at, and at most one page is not recognised.
Looked(p) == \E i \in DOMAIN selection : p = selection[i] \/ (selection[i] \in FileFolders /\ p \in Inside[selection[i]])

FilesBound ==
  scan'.stage # "idle" =>
    /\ token' = Absent /\ imported' = Absent
    /\ \A p \in Paths : stamp'[p] # stamp[p] => Looked(p)
    /\ Cardinality(scan'.failed) <= 1

-----------------------------------------------------------------------------
(* Forms: "labelled" has labels above its first block and two more blocks, "plain" has   *)
(* the structure "labelled" has without them, "foreign" cannot be graded.                *)
MCBlockRows == ("labelled" :> <<4, 4>>) @@ ("plain" :> <<3, 4>>) @@ ("foreign" :> <<4, 4>>)

MCLabels == ("labelled" :> {1}) @@ ("plain" :> {}) @@ ("foreign" :> {})

SamplePage(print, numbered, one, two, cut, share) ==
  [print |-> print, numbered |-> numbered, marked |-> <<one, two>>, cut |-> cut, share |-> share]

All4 == 1 .. 4

LabelledPages ==
  {SamplePage("labelled", {}, {2, 3, 4}, All4, {}, 100), SamplePage("labelled", {1}, {2, 3, 4}, {2, 3, 4}, {}, 75),
   SamplePage("labelled", {1}, {2}, {2, 4}, {1}, 100), SamplePage("labelled", {1}, {2, 3, 4}, {3}, {}, 100),
   SamplePage("labelled", {}, {2, 3, 4}, All4, {}, 74), SamplePage("labelled", {1}, {2, 3, 4}, {3}, {}, 64)}

OtherPages ==
  {SamplePage("plain", {}, {1, 2, 3}, {2, 3, 4}, {}, 100), SamplePage("foreign", {}, {}, All4, {}, 100), [print |-> NoForm]}

FewPages ==
  {SamplePage("labelled", n, {2, 3, 4}, All4, {}, 100) : n \in {{}, {1}}}
  \union {SamplePage("labelled", {1}, {2, 3, 4}, {2, 3, 4}, {}, 65), SamplePage("plain", {}, {1, 2, 3}, {2, 3, 4}, {}, 100)}

MCBatches == UNION {[1 .. n -> LabelledPages \union OtherPages] : n \in {1, 3}} \union [1 .. 4 -> FewPages]

SavedForm(print, first, drawn) == [print |-> print, first |-> first, drawn |-> drawn]

MCFirstSaved == {<<>>, <<SavedForm("labelled", <<1, 1>>, TRUE)>>, <<SavedForm("labelled", <<2, 1>>, FALSE)>>}

-----------------------------------------------------------------------------
NoReading  == sheet = Nothing /\ ink = Nothing /\ sensitivity = 5 /\ page = Nothing
NoCombined == exams = [f \in Folders |-> None] /\ steps = 0 /\ report = None /\ told = None
NoListing  ==
  /\ folders = <<>> /\ residue = <<>> /\ held = <<>> /\ writable = FALSE
  /\ listed = Missing /\ issues = Missing /\ calls = 0

NoSources ==
  /\ disk = <<>> /\ stamp = <<>> /\ writes = 0 /\ selection = <<>>
  /\ sample = Absent /\ scan = NoScan /\ token = Absent /\ imported = Absent

NoForms == samples = <<>> /\ layouts = <<>> /\ detection = NoForm /\ saved = <<>> /\ agreed = FALSE

\* A deleted exam is nowhere else.
DeletedIsGone == \A k \in DOMAIN folders : folders[k].id \notin DOMAIN residue.tombs

Init ==
  \/ topic = "reading" /\ ReadingInit /\ NoCombined /\ NoListing /\ NoSources /\ NoForms
  \/ topic = "combined" /\ CombinedInit /\ NoReading /\ NoListing /\ NoSources /\ NoForms
  \/ topic = "listing" /\ ListingInit /\ DeletedIsGone /\ NoReading /\ NoCombined /\ NoSources /\ NoForms
  \/ topic = "files" /\ SourcesInit /\ NoReading /\ NoCombined /\ NoListing /\ NoForms
  \/ topic = "form" /\ FormInit /\ NoReading /\ NoCombined /\ NoListing /\ NoSources

Next ==
  /\ UNCHANGED topic
  /\ \/ topic = "reading" /\ ReadingNext /\ UNCHANGED <<combined, listing, sources, forms>>
     \/ topic = "combined" /\ CombinedNext /\ UNCHANGED <<reading, listing, sources, forms>>
     \/ topic = "listing" /\ ListingNext /\ UNCHANGED <<reading, combined, sources, forms>>
     \/ topic = "files" /\ SourcesNext /\ FilesBound /\ UNCHANGED <<reading, combined, listing, forms>>
     \/ topic = "form" /\ FormNext /\ UNCHANGED <<reading, combined, listing, sources>>

\* The forms alone.
FormsSpec == Init /\ topic = "form" /\ [][Next]_<<topic, reading, combined, listing, sources, forms>>

Spec == Init /\ [][Next]_<<topic, reading, combined, listing, sources, forms>>
=============================================================================
