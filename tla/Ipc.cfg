CONSTANTS
  MaxPid = 4
  MaxFd = 6
  MaxPipe = 0
  MaxChan = 2
  MaxShm = 1
  MaxSurface = 1
  RegionsPerPid = 1
  SurfacesPerPid = 1
  MaxSignals = 0
  MaxStdin = 2
  MaxInput = 1
  MaxInbox = 1
  Byte = {"b"}
  Msg = {"m"}
  Capacity = 1
  ExitCodes = {0}
  Payloads = {}
  ReadLens <- AskOne
  InputLens <- AskAll
  Names = {"n"}
  Grants <- DeviceGrant
  Wants = {}
  Stdio = {}
  RenumberTo = {}
  LastRoot = 4
  Use <- IpcUse
  LateKill = FALSE
SPECIFICATION Spec
CONSTRAINT
  OneKind
INVARIANTS
  TypeOK
  NoLostWakeup
  NetResponsesKept
  OwnersLive
  ChannelsLive
  AccessFollowsOwner
CHECK_DEADLOCK FALSE
