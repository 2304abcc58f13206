SPECIFICATION FairSession
CONSTANTS
  worker = worker
  Names = {worker}
  Pids = {p1}
  Codes = {}
  Conns = {c1}
  MyConn = c1
  NoName = NoName
  NoPid = NoPid
  NoCode = NoCode
  NoConn = NoConn
  Asked = {"spawn", "spawn_noargs", "subscribe", "unsubscribe", "interrupt", "stdin", "status", "list", "kill", "unknown"}
  LineKinds = {"json"}
  MaxLines = 8
  MaxOut = 2
  MaxErr = 0
  StdinCap = 1
  MaxSignals = 1
  Queues = {q1}
  NoQueue = NoQueue
  Programs <- MCPrograms
  MaxTimeouts = 1
INVARIANTS NothingMissing
PROPERTIES IsClientSystem
PROPERTY ProgramEnds
