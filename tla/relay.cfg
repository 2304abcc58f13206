SPECIFICATION Spec
CONSTANTS
  Names = {worker}
  Pids = {p1}
  Codes = {}
  Conns = {c1, c2}
  NoName = NoName
  NoPid = NoPid
  NoCode = NoCode
  NoConn = NoConn
  Asked = {"spawn", "subscribe", "unsubscribe"}
  LineKinds = {"json"}
  MaxLines = 3
  MaxOut = 2
  MaxErr = 1
  StdinCap = 1
  MaxSignals = 0
SYMMETRY Symmetry
INVARIANTS SubscribedIsDrained InOrder ReplayIsCounted
PROPERTIES NothingIsLost PipesAreStreams
