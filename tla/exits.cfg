SPECIFICATION FairSpec
CONSTANTS
  Names = {worker}
  Pids = {p1, p2}
  Codes = {}
  Conns = {c1}
  NoName = NoName
  NoPid = NoPid
  NoCode = NoCode
  NoConn = NoConn
  Asked = {"spawn", "kill", "stdin"}
  LineKinds = {"json"}
  MaxLines = 3
  MaxOut = 0
  MaxErr = 0
  StdinCap = 1
  MaxSignals = 0
PROPERTIES DeathIsReported WaitsEnd LinesAreHandled
