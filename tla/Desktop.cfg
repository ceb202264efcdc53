SPECIFICATION Spec
CONSTANTS
  Off = Off
  Apps = {"paint"}
  Saved <- LastSession
  MaxPid = 2
  MaxWin = 3
  MaxMoves = 2
  Letters = {"y"}
  Tiers <- Tier
  IsWasm = TRUE
  OnDisk <- Stored
  MaxText = 3
  TextRows = 1
  Cols = 2
  EdRows = 1
  LastPid = 4
  LastPri = 3
  MonRows = 2
  MonBatch = 2
  Dirs <- Folders
  Paths <- Leaves
  FileNames <- Listed
  Kinds = {"text", "app", "command"}
  FmRows = 1
  FmBatch = 2
  Msg <- Messages
  Bodies <- Pages
  Tables <- ProcTables
  MaxSignals = 251
  MaxOps = 5
  PidName <- Decimal
  Bytes <- Lengths
  TreeNames <- Ordinary
  Buffers = {31, 62}
  Priorities = {5, 7}
  TreePids = 3
  MaxChanges = 3
INVARIANTS
  WindowsFollow
  SessionSaved
  CleanIsOnDisk
  ActsOnWhatIsShown
  RepliesWhole
  ViewsAgree
PROPERTIES
  EditsText
  LinesApart
CHECK_DEADLOCK FALSE
