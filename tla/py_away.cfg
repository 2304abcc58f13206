SPECIFICATION Spec
CONSTANTS
  Names = {worker}
  Pids = {p1}
  NoPid = NoPid
  Conns = {c1, c2}
  NoConn = NoConn
  Asked = {"spawn", "subscribe"}
  MaxLines = 2
  MaxOut = 1
  MaxSignals = 0
INVARIANT AwayIsBuffered
