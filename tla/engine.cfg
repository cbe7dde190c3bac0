SPECIFICATION FairEngineSpec
CONSTANTS
  s1 = s1
  p1 = p1
  Sups = {s1}
  Procs = {p1}
  ProcOf <- Alone
  Models = {m1, m2}
  PrimaryModel = m1
  FallbackModel = m2
  Ports = {8080}
  Workers = {w1, w2}
  FlockAttempts = 1
  MaxCrashes = 1
  Nobody = Nobody
INVARIANTS
  EngineCoherent
  EnsureReadyDelivers
PROPERTIES
  BusyKeepsWorker
  ImplementsLifecycle
  EngineCallsReturn
