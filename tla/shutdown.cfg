SPECIFICATION Spec
CONSTANTS
  Names = {a, b}
  Pids = {p1, p2}
  Codes = {}
  Conns = {c1}
  NoName = NoName
  NoPid = NoPid
  NoCode = NoCode
  NoConn = NoConn
  Asked = {"spawn", "kill"}
  LineKinds = {"json"}
  MaxLines = 3
  MaxOut = 0
  MaxErr = 0
  StdinCap = 1
  MaxSignals = 1
SYMMETRY SymmetryAll
INVARIANTS StoppedHasKilled
