SPECIFICATION Spec
CONSTANTS
  Path <- Paths
  Mount <- Mounts
  MaxHops = 3
  Grant <- Root
  Fd = {"f"}
  Opened <- OpenPath
  Linked <- Links
  Target <- Targets
  BootDirs <- Made
  MaxFileSize = 2
  HostFiles <- HostWrites
  MaxCalls = 4
PROPERTIES
  NoOrphans
  RenameMovesTree
  ReloadKeepsFiles
  AppendKeeps
  FilesBounded
CHECK_DEADLOCK FALSE
