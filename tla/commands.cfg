SPECIFICATION Spec
CONSTANTS
  Names = {worker}
  Pids = {p1, p2}
  Codes = {0}
  Conns = {c1}
  NoName = NoName
  NoPid = NoPid
  NoCode = NoCode
  NoConn = NoConn
  Asked = {"spawn", "spawn_missing", "spawn_noargs", "kill", "interrupt", "subscribe", "unsubscribe", "list", "status", "unknown", "stdin", "garbage", "garbage_split", "nonutf8"}
  LineKinds = {"json", "text", "nonutf8"}
  MaxLines = 3
  MaxOut = 1
  MaxErr = 0
  StdinCap = 1
  MaxSignals = 0
SYMMETRY Symmetry
INVARIANTS TypeOK OneResultPerCommand ReapedIsExited
PROPERTIES RunningIsNotDropped PipesAreStreams
