SPECIFICATION Spec
CONSTANTS
  s1 = s1
  s2 = s2
  p1 = p1
  p2 = p2
  Sups = {s1}
  Procs = {p1}
  ProcOf <- Alone
  Models = {m1}
  Ports = {8080}
  Workers = {w1}
  FlockAttempts = 2
  MaxCrashes = 0
  Nobody = Nobody
INVARIANT FailedStartFreesSlot
