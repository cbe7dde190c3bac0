------------------------ MODULE MCWorkerSupervisor ------------------------
(* Two supervisors for TLC: as two threads of one engine process (they share *)
(* its AtomicSlot), or in two engine processes (they share only the flock).  *)
EXTENDS WorkerSupervisor, TLC

CONSTANTS s1, s2, p1, p2

OneProcess   == s1 :> p1 @@ s2 :> p1
TwoProcesses == s1 :> p1 @@ s2 :> p2
Alone        == s1 :> p1

Symmetry == Permutations(Workers)
=============================================================================
