CONSTANTS
  cpu0 = cpu0
  cpu1 = cpu1
  loader = loader
  Dev <- MCDev
  dev_list <- MCDevList
  MaxSlots = 3
SPECIFICATION FairSpec
INVARIANTS TypeOK InStep NoLostWakeup
PROPERTIES IsBarrier NextSlotReturns StopReturns
