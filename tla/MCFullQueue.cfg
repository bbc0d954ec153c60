CONSTANTS
  j1 = j1 j2 = j2 w1 = w1 w2 = w2 u1 = u1 u2 = u2 t1 = t1 d1 = d1
  None = None
  Dispatcher = tick
  Jobs = {j1, j2}
  Workers = {w1}
  Users = {u1}
  Targets = {t1}
  TargetOf <- OneTarget
  Devices = {d1}
  DeviceOf <- OneDevice
  DeviceSnapshots <- AlwaysReady
  QueueCapacity = 1
  Files = 1
  Commands = {}
  Budgets <- Undisturbed
SPECIFICATION FairSpec
PROPERTIES
  JobsFinish
