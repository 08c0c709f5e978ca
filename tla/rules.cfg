SPECIFICATION Spec
CONSTANTS
  FormQuestions = 3
  MaxQuestions = 4
  FormChoices = 3
  Columns = 2
  IdDigits = 3
  RefMarks = 2
  Sensitivities = {1, 5, 10}
  Sheets <- MCSheets
  Nothing = Nothing
  Questions = 3
  Short = {3}
  FormulaLike = {}
  Unregistered = 5
  GroupSize = 2
  None = None
  Folders = {"a", "b", "c"}
  FirstExams <- MCFirst
  KeyFiles <- MCKeyFiles
  Configs <- MCConfigs
  NewIds = {1, 2}
  MaxParts = 2
  MaxSteps = 2
  Exams = {"x", "y"}
  Names = {"a", "b", "x", "y"}
  FirstFolders <- MCFolders
  FirstResidue <- MCResidue
  MaxCalls = 3
  Ambiguous = Ambiguous
  Missing = Missing
  Paths = {"p1", "p2", "i1", "i2", "i3", "book"}
  FileFolders = {"dir"}
  Kind <- MCKind
  Inside <- MCInside
  Name <- MCName
  Place <- MCPlace
  Alike <- MCAlike
  Composed = {"p1", "p2", "i1", "i2", "book"}
  Versions <- MCVersions
  PagesOf <- MCPagesOf
  RowsOf <- MCRowsOf
  FirstDisks <- MCFirstDisks
  Unfit = {"huge"}
  ScanChoices <- MCScanChoices
  Books = {"book"}
  SampleLimit = 3
  MaxWrites = 2
  Absent = Absent
  Prints = {"labelled", "plain", "foreign"}
  BlockRows <- MCBlockRows
  Labels <- MCLabels
  Gradable = {"labelled", "plain"}
  Batches <- MCBatches
  FirstSaved <- MCFirstSaved
  JudgedRows = 4
  HeaderPages = 3
  MatchPages = 3
  TrustedShare = 65
  MatchShare = 75
  MaxSaved = 2
  NoForm = NoForm
INVARIANTS ReadsPencil VerdictsAgree BookReturns ListTellsAll OneVersion FormTells
CHECK_DEADLOCK FALSE
