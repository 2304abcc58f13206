SPECIFICATION Spec
CONSTANTS
  Names = {worker}
  Pids = {p1, p2}
  NoPid = NoPid
  Conns = {c1, c2}
  NoConn = NoConn
  Asked = {"spawn", "kill", "subscribe", "unsubscribe", "status"}
  MaxLines = 3
  MaxOut = 1
  MaxSignals = 1
SYMMETRY Symmetry
INVARIANTS TypeOK InOrder NewestIsServed ResultsInTurn RunningIsManaged AwayIsBufferedAlone
PROPERTY NothingIsLost
