SPECIFICATION Spec
CONSTANTS
  s1 = s1
  s2 = s2
  p1 = p1
  p2 = p2
  Sups = {s1, s2}
  Procs = {p1, p2}
  ProcOf <- TwoProcesses
  Models = {m1}
  Ports = {8080}
  Workers = {w1, w2}
  FlockAttempts = 2
  MaxCrashes = 1
  Nobody = Nobody
SYMMETRY Symmetry
INVARIANTS
  TypeOK
  AtMostOneSupervisedWorker
  SlotCoversWorker
  NoWorkerLost
  FlockFreeAtRest
