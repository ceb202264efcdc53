CONSTANTS
  MaxPid = 4
  MaxFd = 6
  MaxPipe = 0
  MaxChan = 0
  MaxShm = 0
  MaxSurface = 0
  RegionsPerPid = 0
  SurfacesPerPid = 0
  MaxSignals = 0
  MaxStdin = 0
  MaxInput = 0
  MaxInbox = 0
  Byte = {"b"}
  Msg = {}
  Capacity = 1
  ExitCodes = {0}
  Payloads = {}
  ReadLens = {}
  InputLens = {}
  Names = {}
  Grants <- KillerGrant
  Wants <- NoWant
  Stdio <- PlainStdio
  RenumberTo = {}
  LastRoot = 2
  Use <- WaitUse
  LateKill = FALSE
SPECIFICATION Spec
PROPERTIES
  KilledChildStaysWaitable
CHECK_DEADLOCK FALSE
