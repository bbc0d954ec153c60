CONSTANTS
  j1 = j1 j2 = j2 w1 = w1 w2 = w2 u1 = u1 u2 = u2 t1 = t1 d1 = d1
  None = None
  Dispatcher = tick
  Jobs = {j1}
  Workers = {w1}
  Users = {u1, u2}
  Targets = {t1}
  TargetOf <- OneTarget
  Devices = {d1}
  DeviceOf <- OneDevice
  DeviceSnapshots <- AllKinds
  QueueCapacity = 2
  Files = 1
  Commands = {"pause", "resume", "cancel"}
  Budgets <- Mixed
INIT ControlInit
NEXT Next
SYMMETRY Threads
INVARIANTS
  CommitsAreCurrent
  CancelledIsClosed
  PublishedNeverCancelled
PROPERTIES
  LegalTransitions
