SPECIFICATION Spec
CONSTANTS
  Off = Off
  MaxPid = 5
  Polls = {1, 2}
  MaxPosted = 1
  Spare = 2
  Keys = {"a", "b"}
  Windows = {"w", "x"}
  MaxTyped = 3
  Keyboards <- Keypads
  Printable = {"a", " ", "[", "A", "D", "O", "3", "~"}
  MaxChunk = 2
  MaxKeys = 4
  MaxHistory = 1
  Lines <- Typed
  SearchPath <- Path
  Installed <- Commands
  Targets <- Folders
  MaxLines = 2
  Byte = {"y"}
  Capacity = 1
INVARIANTS
  TerminalFollows
  CountsAddUp
  ChunkingInvisible
  HistoryKeepsDraft
PROPERTIES
  ShellComesBack
  LineEnds
CHECK_DEADLOCK FALSE
