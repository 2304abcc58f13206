SPECIFICATION FairSpec
CONSTANTS
  Names = {worker}
  Pids = {p1}
  Codes = {}
  Conns = {c1}
  NoName = NoName
  NoPid = NoPid
  NoCode = NoCode
  NoConn = NoConn
  Asked = {"spawn"}
  LineKinds = {"json"}
  MaxLines = 1
  MaxOut = 0
  MaxErr = 0
  StdinCap = 1
  MaxSignals = 1
PROPERTY SignalStopsServer
