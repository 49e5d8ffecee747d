CONSTANTS
  p1 = p1
  p2 = p2
  p3 = p3
  p4 = p4
  a1 = a1
  a2 = a2
  a3 = a3
  a4 = a4
  c1 = c1
  c2 = c2
  NULL = NULL
  Proc <- MCProc
  Pcb <- MCPcb
  Cpu = {c1, c2}
  prio <- MCPrio
  MAX_PRIO = 3
  MAX_QUEUE_SIZE = 4
SPECIFICATION Spec
INVARIANTS TypeOK NeverDuplicated NeverLost RunningTracked
PROPERTY StrictPriority
SYMMETRY AnyAddress
