SPECIFICATION Spec
CONSTANTS
  Names = {worker}
  Pids = {p1}
  Codes = {}
  Conns = {c1}
  NoName = NoName
  NoPid = NoPid
  NoCode = NoCode
  NoConn = NoConn
  Asked = {"spawn", "subscribe"}
  LineKinds = {"json"}
  MaxLines = 2
  MaxOut = 0
  MaxErr = 0
  StdinCap = 1
  MaxSignals = 0
INVARIANT ExitMeansDead
