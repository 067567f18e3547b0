------------------------ MODULE SchedulerTick_proofs ------------------------
(***************************************************************************)
(* TLAPS proofs about SchedulerTick, for any set of replicas and any bound *)
(* on the faults: type correctness, the discipline of the advisory lock    *)
(* (an inductive invariant), mutual exclusion of the replicas whose lock   *)
(* session is alive, and the refinement of TickMutex.                      *)
(***************************************************************************)
EXTENDS SchedulerTick, TLAPS

IInv == TypeOK /\ LockDiscipline

\* The only things a replica's own step can touch are its own entries and the
\* holder; the definitions of all actions, for the leaves below.
LEMMA InitIInv == Init => IInv
  BY NoOneAssumption, MaxFaultsAssumption
     DEF Init, IInv, TypeOK, LockDiscipline, Disciplined, Granted, Phases,
         Threads, Sessions

\* Every step of the scheduler keeps the types.
LEMMA NextTypeOK == TypeOK /\ [Next]_vars => TypeOK'
<1> SUFFICES ASSUME TypeOK, [Next]_vars PROVE TypeOK'
  OBVIOUS
<1> USE MaxFaultsAssumption DEF TypeOK, Phases, Threads, Sessions
<1>1. ASSUME NEW r \in Replicas, Step(r) PROVE TypeOK'
  BY <1>1 DEF Step, Start, BeginAcquire, EnterTick, SkipTick, LeaveTick,
              Released, RecordRun, TryAcquire, Release, Exit, Reset,
              HolderWithout
<1>2. ASSUME NEW r \in Replicas,
             \/ Stop(r) \/ CannotAcquire(r) \/ FailRelease(r) \/ Recycle(r)
             \/ Crash(r) \/ LoseSession(r)
      PROVE  TypeOK'
  <2>1. Fault => faults' \in 0..MaxFaults
    BY DEF Fault
  <2>2. CASE Stop(r)
    BY <2>1, <2>2 DEF Stop
  <2>3. CASE CannotAcquire(r)
    BY <2>1, <2>3 DEF CannotAcquire
  <2>4. CASE Crash(r)
    BY <2>1, <2>4 DEF Crash, Reset, HolderWithout
  <2>5. CASE LoseSession(r)
    BY <2>1, <2>5 DEF LoseSession, HolderWithout
  <2>6. CASE FailRelease(r)
    BY <2>1, <2>6 DEF FailRelease
  <2>7. CASE Recycle(r)
    BY <2>7 DEF Recycle, HolderWithout
  <2>8. QED
    BY <1>2, <2>2, <2>3, <2>4, <2>5, <2>6, <2>7
<1>3. CASE UNCHANGED vars
  BY <1>3 DEF vars
<1>4. QED
  BY <1>1, <1>2, <1>3 DEF Next

\* Every step of the scheduler keeps the lock discipline.
LEMMA NextLockDiscipline == IInv /\ [Next]_vars => LockDiscipline'
<1> SUFFICES ASSUME IInv, [Next]_vars PROVE LockDiscipline'
  OBVIOUS
<1> USE NoOneAssumption DEF IInv, TypeOK, LockDiscipline, Disciplined, Granted
<1>1. ASSUME NEW r \in Replicas, Start(r) PROVE LockDiscipline'
  BY <1>1 DEF Start
<1>2. ASSUME NEW r \in Replicas, BeginAcquire(r) PROVE LockDiscipline'
  BY <1>2 DEF BeginAcquire
<1>3. ASSUME NEW r \in Replicas, EnterTick(r) PROVE LockDiscipline'
  BY <1>3 DEF EnterTick
<1>4. ASSUME NEW r \in Replicas, SkipTick(r) PROVE LockDiscipline'
  BY <1>4 DEF SkipTick
<1>5. ASSUME NEW r \in Replicas, LeaveTick(r) PROVE LockDiscipline'
  BY <1>5 DEF LeaveTick
<1>6. ASSUME NEW r \in Replicas, Released(r) PROVE LockDiscipline'
  BY <1>6 DEF Released
<1>7. ASSUME NEW r \in Replicas, RecordRun(r) PROVE LockDiscipline'
  BY <1>7 DEF RecordRun
<1>8. ASSUME NEW r \in Replicas, TryAcquire(r) PROVE LockDiscipline'
  BY <1>8 DEF TryAcquire
<1>9. ASSUME NEW r \in Replicas, Release(r) PROVE LockDiscipline'
  BY <1>9 DEF Release, OnLock, HolderWithout
<1>10. ASSUME NEW r \in Replicas, Exit(r) \/ Crash(r) PROVE LockDiscipline'
  BY <1>10 DEF Exit, Crash, Reset, HolderWithout
<1>11. ASSUME NEW r \in Replicas, Stop(r) PROVE LockDiscipline'
  BY <1>11 DEF Stop
<1>12. ASSUME NEW r \in Replicas, CannotAcquire(r) PROVE LockDiscipline'
  BY <1>12 DEF CannotAcquire
<1>13. ASSUME NEW r \in Replicas, LoseSession(r) PROVE LockDiscipline'
  <2> SUFFICES ASSUME NEW q \in Replicas PROVE Disciplined(q)'
    BY DEF LockDiscipline
  <2>1. /\ session'[r] = "dead" /\ session[r] = "open"
        /\ q # r => session'[q] = session[q]
        /\ UNCHANGED <<phase, thread, acquired>>
    BY <1>13 DEF LoseSession
  <2>2. CASE OnLock(r)
    <3>1. /\ holder' = (IF holder = r THEN NoOne ELSE holder) /\ ~stuck'[r]
          /\ q # r => stuck'[q] = stuck[q]
      BY <1>13, <2>2 DEF LoseSession, HolderWithout
    <3> QED
      BY <2>1, <3>1
  <2>3. CASE ~OnLock(r)
    <3>1. UNCHANGED <<holder, stuck>>
      BY <1>13, <2>3 DEF LoseSession
    <3>2. holder = r => stuck[r]
      BY <2>1, <2>3 DEF OnLock
    <3> QED
      BY <2>1, <3>1, <3>2
  <2> QED
    BY <2>2, <2>3
<1>14. ASSUME NEW r \in Replicas, FailRelease(r) PROVE LockDiscipline'
  <2> SUFFICES ASSUME NEW q \in Replicas PROVE Disciplined(q)'
    BY DEF LockDiscipline
  <2>1. /\ stuck'[r] /\ session'[r] = "closed" /\ thread'[r] = "released"
        /\ session[r] = "open" /\ thread[r] = "release" /\ acquired[r]
        /\ q # r => /\ stuck'[q] = stuck[q] /\ session'[q] = session[q]
                    /\ thread'[q] = thread[q]
        /\ UNCHANGED <<phase, acquired, holder>>
    BY <1>14 DEF FailRelease, OnLock
  <2> QED
    BY <2>1
<1>15. ASSUME NEW r \in Replicas, Recycle(r) PROVE LockDiscipline'
  BY <1>15 DEF Recycle, OnLock, HolderWithout
<1>16. CASE UNCHANGED vars
  BY <1>16 DEF vars
<1>17. QED
  BY <1>1, <1>2, <1>3, <1>4, <1>5, <1>6, <1>7, <1>8, <1>9, <1>10, <1>11, <1>12,
     <1>13, <1>14, <1>15, <1>16 DEF Next, Step

\* The types and the lock discipline hold in every reachable state.
THEOREM Invariance == Spec => []IInv
<1>1. IInv /\ [Next]_vars => IInv'
  BY NextTypeOK, NextLockDiscipline DEF IInv
<1>2. QED
  BY InitIInv, <1>1, PTL DEF Spec

\* run_locked_tick keeps its variables in their types.
THEOREM TypeCorrectness == Spec => []TypeOK
  BY Invariance, PTL DEF IInv

\* The lock in PostgreSQL and the flags in the process always agree.
THEOREM LockIsDisciplined == Spec => []LockDiscipline
  BY Invariance, PTL DEF IInv

\* Two replicas whose lock sessions are alive are never both in the tick body.
THEOREM MutualExclusion == Spec => []LiveRunnerUnique
<1>1. IInv => LiveRunnerUnique
  BY DEF IInv, LockDiscipline, Disciplined, Granted, LiveRunnerUnique, Live
<1>2. QED
  BY Invariance, <1>1, PTL

-----------------------------------------------------------------------------
(* Refinement.  A step changes the set of live runners only by EnterTick,  *)
(* which finds it empty because the lock is free of everybody else, and by *)
(* the steps that take one replica out of it.                              *)

Runners == {r \in Replicas : Live(r)}

LEMMA StepRefines ==
  ASSUME IInv, IInv', [Next]_vars
  PROVE  [Mutex!Next]_Runners
<1> USE DEF Runners, Live
<1>1. ASSUME NEW r \in Replicas, EnterTick(r) PROVE [Mutex!Next]_Runners
  <2> USE <1>1 DEF EnterTick, IInv, TypeOK
  <2>1. CASE session[r] = "open"
    <3>1. holder = r
      BY <2>1 DEF LockDiscipline, Disciplined, Granted
    <3>2. Runners = {}
      BY <3>1 DEF LockDiscipline, Disciplined, Granted
    <3>3. Runners' = {r}
      BY <3>2, <2>1
    <3>4. QED
      BY <3>2, <3>3 DEF Mutex!Next, Mutex!Begin
  <2>2. CASE session[r] # "open"
    <3>1. Runners' = Runners
      BY <2>2
    <3>2. QED
      BY <3>1
  <2>3. QED
    BY <2>1, <2>2
<1>2. ASSUME NEW r \in Replicas, Runners' = Runners \/ Runners' = Runners \ {r}
      PROVE  [Mutex!Next]_Runners
  <2>1. CASE r \in Runners /\ Runners' = Runners \ {r}
    BY <2>1 DEF Mutex!Next, Mutex!End
  <2>2. CASE ~(r \in Runners /\ Runners' = Runners \ {r})
    BY <1>2, <2>2
  <2>3. QED
    BY <2>1, <2>2
<1>3. ASSUME NEW r \in Replicas,
             \/ Start(r) \/ BeginAcquire(r) \/ SkipTick(r) \/ LeaveTick(r)
             \/ Released(r) \/ RecordRun(r) \/ TryAcquire(r) \/ Release(r)
      PROVE  Runners' = Runners \/ Runners' = Runners \ {r}
  BY <1>3 DEF IInv, TypeOK, LockDiscipline, Disciplined, Granted, Start,
              BeginAcquire, SkipTick, LeaveTick, Released, RecordRun, TryAcquire, Release
<1>4. ASSUME NEW r \in Replicas,
             \/ Exit(r) \/ Crash(r) \/ Stop(r) \/ CannotAcquire(r)
             \/ LoseSession(r) \/ FailRelease(r) \/ Recycle(r)
      PROVE  Runners' = Runners \/ Runners' = Runners \ {r}
  BY <1>4 DEF IInv, TypeOK, LockDiscipline, Disciplined, Granted, Exit, Crash,
              Reset, Stop, CannotAcquire,
              LoseSession, FailRelease, Recycle
<1>5. CASE UNCHANGED vars
  BY <1>5 DEF vars
<1>6. QED
  BY <1>1, <1>2, <1>3, <1>4, <1>5 DEF Next, Step

\* The replicas implement TickMutex: tick bodies under live sessions alternate.
THEOREM Refinement == Spec => ImplementsMutex
<1>1. Init => Mutex!Init
  BY DEF Init, Mutex!Init, Live
<1>2. IInv /\ IInv' /\ [Next]_vars => [Mutex!Next]_Runners
  BY StepRefines
<1>3. QED
  BY <1>1, <1>2, Invariance, PTL DEF Spec, ImplementsMutex, Mutex!Spec, Runners
=============================================================================
