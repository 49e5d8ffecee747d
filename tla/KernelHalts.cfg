CONSTANTS
  p1 = p1
  p2 = p2
  p3 = p3
  a1 = a1
  a2 = a2
  a3 = a3
  NULL = NULL
  Proc = {p1, p2, p3}
  Pcb = {a1, a2, a3}
  processes <- MCProcesses
  prio <- MCPrio
  Sizes = {1}
  num_cpus = 2
  MAX_ACTIVE = 2
  time_slot = 2
  MAX_PRIO = 2
  MAX_QUEUE_SIZE = 3
  StartTimes = {0}
SPECIFICATION FairSpec
PROPERTY Halts
