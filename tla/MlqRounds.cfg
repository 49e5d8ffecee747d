CONSTANTS
  p1 = p1
  p2 = p2
  p3 = p3
  NULL = NULL
  Proc <- MCProc
  Pcb = {a1, a2, a3}
  Cpu = {c1}
  prio <- MCPrio
  MAX_PRIO = 3
  MAX_QUEUE_SIZE = 3
SPECIFICATION RoundsSpec
INVARIANT EveryRound
