------------------------------ MODULE TickMutex ------------------------------
(***************************************************************************)
(* What backend/app/core/scheduler_tick.py promises its five schedulers:   *)
(* the replicas of one scheduler take turns, and a tick body runs in at    *)
(* most one of them at a time.                                             *)
(***************************************************************************)
EXTENDS FiniteSets

CONSTANT Replicas      \* the processes that run a copy of the scheduler

VARIABLE runners       \* the replicas whose tick body is under the lock

Init == runners = {}

Begin(r) == /\ runners = {}
            /\ runners' = {r}

End(r) == /\ r \in runners
          /\ runners' = runners \ {r}

Next == \E r \in Replicas : Begin(r) \/ End(r)

Spec == Init /\ [][Next]_runners
=============================================================================
