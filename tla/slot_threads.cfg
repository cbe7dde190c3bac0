SPECIFICATION FairSpec
CONSTANTS
  s1 = s1
  s2 = s2
  p1 = p1
  p2 = p2
  Sups = {s1, s2}
  Procs = {p1}
  ProcOf <- OneProcess
  Models = {m1}
  Ports = {8080}
  Workers = {w1, w2}
  FlockAttempts = 2
  MaxCrashes = 0
  Nobody = Nobody
INVARIANTS
  ReadyOwnsChild
  LeaseMatchesSlot
PROPERTIES
  ImplementsModelSlot
  CallsReturn
