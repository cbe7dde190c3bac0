----------------------------- MODULE ModelSlot -----------------------------
(***************************************************************************)
(* What the supervisors of one machine promise together: the machine has   *)
(* one model slot.  A supervisor claims the free slot, may run one worker  *)
(* in it, and gives it back only when that worker is gone.  A supervisor   *)
(* whose process dies loses the slot, whatever it was doing.               *)
(***************************************************************************)
CONSTANTS Sups, Nobody

VARIABLES holder,    \* the supervisor that has the slot
          running    \* the holder owns a worker process

Init == holder = Nobody /\ running = FALSE

Claim(s)   == holder = Nobody /\ holder' = s /\ UNCHANGED running
Launch(s)  == holder = s /\ ~running /\ running' = TRUE /\ UNCHANGED holder
End(s)     == holder = s /\ running /\ running' = FALSE /\ UNCHANGED holder
Release(s) == holder = s /\ ~running /\ holder' = Nobody /\ UNCHANGED running
Lose(s)    == holder = s /\ holder' = Nobody /\ running' = FALSE

Next == \E s \in Sups :
          Claim(s) \/ Launch(s) \/ End(s) \/ Release(s) \/ Lose(s)

Spec == Init /\ [][Next]_<<holder, running>>
=============================================================================
