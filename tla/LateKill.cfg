CONSTANTS
  MaxPid = 4
  MaxFd = 6
  MaxPipe = 1
  MaxChan = 0
  MaxShm = 0
  MaxSurface = 0
  RegionsPerPid = 0
  SurfacesPerPid = 0
  MaxSignals = 0
  MaxStdin = 0
  MaxInput = 0
  MaxInbox = 0
  Byte = {"b"}
  Msg = {}
  Capacity = 1
  ExitCodes = {0}
  Payloads <- OneByte
  ReadLens <- AskOne
  InputLens = {}
  Names = {}
  Grants <- KillerGrant
  Wants <- NoWant
  Stdio <- PipelineStdio
  RenumberTo = {}
  LastRoot = 2
  Use <- LateKillUse
  LateKill = TRUE
SPECIFICATION Spec
INVARIANTS
  RefCounts
CHECK_DEADLOCK FALSE
