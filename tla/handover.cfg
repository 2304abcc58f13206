SPECIFICATION FairSpec
CONSTANTS
  Names = {worker}
  Pids = {p1}
  Codes = {}
  Conns = {c1, c2}
  NoName = NoName
  NoPid = NoPid
  NoCode = NoCode
  NoConn = NoConn
  Asked = {"spawn", "kill"}
  LineKinds = {"json"}
  MaxLines = 2
  MaxOut = 1
  MaxErr = 0
  StdinCap = 1
  MaxSignals = 1
PROPERTIES ShutdownCompletes ClosedClientIsReplaced OutputIsHandled
