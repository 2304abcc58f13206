SPECIFICATION FairSpec
CONSTANTS
  Names = {worker}
  NoName = NoName
  Callers = {t1, t2}
  NoCaller = NoCaller
  Queues = {q1, q2}
  NoQueue = NoQueue
  MaxCommands = 2
  MaxSent = 2
INVARIANTS TypeOK ResultsShift ResultIsOwn QueueIsStream LossIsTold
PROPERTIES CommandsReturn QueuesEnd
