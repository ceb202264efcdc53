CONSTANTS
  MaxPid = 4
  MaxFd = 6
  MaxPipe = 0
  MaxChan = 0
  MaxShm = 0
  MaxSurface = 0
  RegionsPerPid = 0
  SurfacesPerPid = 0
  MaxSignals = 0
  MaxStdin = 0
  MaxInput = 0
  MaxInbox = 0
  Byte = {"b"}
  Msg = {}
  Capacity = 1
  ExitCodes = {0}
  Payloads = {}
  ReadLens = {}
  InputLens = {}
  Names = {}
  Grants <- NetGrant
  Wants = {}
  Stdio = {}
  RenumberTo = {}
  LastRoot = 4
  Use <- FetchUse
  LateKill = FALSE
SPECIFICATION Spec
INVARIANTS
  NetResponsesLive
CHECK_DEADLOCK FALSE
