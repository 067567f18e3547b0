---------------------------- MODULE SchedulerTick ----------------------------
(***************************************************************************)
(* One background scheduler run by several replicas, serialised by a       *)
(* PostgreSQL session-level advisory lock:                                 *)
(*   backend/app/core/scheduler_lock.py   _acquire, _release               *)
(*   backend/app/core/scheduler_tick.py   run_locked_tick                  *)
(*   backend/app/core/scheduler.py        start, stop, _run_scheduler      *)
(* The coroutine of the loop and the worker thread asyncio.to_thread gives *)
(* it are separate actors: a cancelled coroutine leaves its thread behind. *)
(* The five schedulers use five lock names and never meet, so one is       *)
(* modelled.  Faults (crashes, shutdowns, lost sessions, an unreachable    *)
(* database) are bounded by MaxFaults: liveness speaks of what happens     *)
(* once they stop.                                                         *)
(***************************************************************************)
EXTENDS Naturals

CONSTANTS Replicas,    \* processes that start the scheduler
          NoOne,       \* nobody holds the advisory lock
          MaxFaults    \* bound on the faults of a behaviour

ASSUME NoOneAssumption == NoOne \notin Replicas
ASSUME MaxFaultsAssumption == MaxFaults \in Nat

VARIABLES
  phase,     \* phase[r]: where the loop's coroutine is
  thread,    \* thread[r]: what the to_thread worker is doing or has answered
  session,   \* session[r]: the dedicated lock connection
  acquired,  \* acquired[r]: the flag the context manager yielded
  cancelled, \* cancelled[r]: stop() cancelled the running tick
  holder,    \* PostgreSQL: whose session holds the lock
  stuck,     \* stuck[r]: it is a connection of r's pool, whose unlock failed
  faults     \* faults so far

vars == <<phase, thread, session, acquired, cancelled, holder, stuck, faults>>

Phases == {"down", "sleeping", "acquiring", "ticking", "releasing",
           "recording", "stopped"}
Threads == {"none", "acquire", "granted", "refused", "release", "released"}
Sessions == {"closed", "open", "dead"}

TypeOK == /\ phase \in [Replicas -> Phases]
          /\ thread \in [Replicas -> Threads]
          /\ session \in [Replicas -> Sessions]
          /\ acquired \in [Replicas -> BOOLEAN]
          /\ cancelled \in [Replicas -> BOOLEAN]
          /\ holder \in Replicas \cup {NoOne}
          /\ stuck \in [Replicas -> BOOLEAN]
          /\ faults \in 0..MaxFaults

Init == /\ phase = [r \in Replicas |-> "down"]
        /\ thread = [r \in Replicas |-> "none"]
        /\ session = [r \in Replicas |-> "closed"]
        /\ acquired = [r \in Replicas |-> FALSE]
        /\ cancelled = [r \in Replicas |-> FALSE]
        /\ holder = NoOne
        /\ stuck = [r \in Replicas |-> FALSE]
        /\ faults = 0

Fault == faults < MaxFaults /\ faults' = faults + 1

\* PostgreSQL drops a session's advisory locks when the session ends.
HolderWithout(r) == IF holder = r THEN NoOne ELSE holder

-----------------------------------------------------------------------------
(* The loop's coroutine                                                    *)

\* start(): the process comes up and its loop task is created.
Start(r) == /\ phase[r] = "down"
            /\ phase' = [phase EXCEPT ![r] = "sleeping"]
            /\ UNCHANGED <<thread, session, acquired, cancelled, holder, stuck,
                           faults>>

\* The loop calls run_locked_tick, which awaits to_thread(_acquire).
BeginAcquire(r) ==
  /\ phase[r] = "sleeping"
  /\ phase' = [phase EXCEPT ![r] = "acquiring"]
  /\ thread' = [thread EXCEPT ![r] = "acquire"]
  /\ UNCHANGED <<session, acquired, cancelled, holder, stuck, faults>>

\* The thread said True: the tick body starts.
EnterTick(r) ==
  /\ phase[r] = "acquiring" /\ thread[r] = "granted"
  /\ phase' = [phase EXCEPT ![r] = "ticking"]
  /\ thread' = [thread EXCEPT ![r] = "none"]
  /\ acquired' = [acquired EXCEPT ![r] = TRUE]
  /\ UNCHANGED <<session, cancelled, holder, stuck, faults>>

\* Mutant of SkipTick: a refused connection is never handed back.
SkipTickWithoutRelease(r) ==
  /\ phase[r] = "acquiring" /\ thread[r] = "refused"
  /\ phase' = [phase EXCEPT ![r] = "sleeping"]
  /\ thread' = [thread EXCEPT ![r] = "none"]
  /\ UNCHANGED <<session, acquired, cancelled, holder, stuck, faults>>

\* The thread said False: the tick is skipped, its connection handed back.
SkipTick(r) ==
  /\ phase[r] = "acquiring" /\ thread[r] = "refused"
  /\ phase' = [phase EXCEPT ![r] = "releasing"]
  /\ thread' = [thread EXCEPT ![r] = "release"]
  /\ acquired' = [acquired EXCEPT ![r] = FALSE]
  /\ UNCHANGED <<session, cancelled, holder, stuck, faults>>

\* Mutant of LeaveTick: a tick that raised is recorded and not released, its
\* connection kept.
LeaveTickHoldingLock(r) ==
  /\ phase[r] = "ticking"
  /\ phase' = [phase EXCEPT ![r] = "recording"]
  /\ UNCHANGED <<thread, session, acquired, cancelled, holder, stuck, faults>>

\* The tick body returned or raised; the context manager exits.
LeaveTick(r) ==
  /\ phase[r] = "ticking"
  /\ phase' = [phase EXCEPT ![r] = "releasing"]
  /\ thread' = [thread EXCEPT ![r] = "release"]
  /\ UNCHANGED <<session, acquired, cancelled, holder, stuck, faults>>

\* The release thread is done.  A skipped tick goes back to sleep, a
\* cancelled one ends the loop, any other is recorded first.
Released(r) ==
  /\ phase[r] = "releasing" /\ thread[r] = "released"
  /\ phase' = [phase EXCEPT ![r] = IF cancelled[r] THEN "stopped"
                                   ELSE IF acquired[r] THEN "recording"
                                   ELSE "sleeping"]
  /\ thread' = [thread EXCEPT ![r] = "none"]
  /\ acquired' = [acquired EXCEPT ![r] = FALSE]
  /\ UNCHANGED <<session, cancelled, holder, stuck, faults>>

\* Mutant of RecordRun: the exception the tick re-raises ends the loop task.
RecordRunUnhandled(r) ==
  /\ phase[r] = "recording"
  /\ phase' = [phase EXCEPT ![r] = "failed"]
  /\ UNCHANGED <<thread, session, acquired, cancelled, holder, stuck, faults>>

\* _persist_run (best effort), then the sleep until the next interval, or the
\* 60 second back-off if the tick raised.
RecordRun(r) ==
  /\ phase[r] = "recording"
  /\ phase' = [phase EXCEPT ![r] = "sleeping"]
  /\ UNCHANGED <<thread, session, acquired, cancelled, holder, stuck, faults>>

\* stop(): cancels the task at its await.  In the tick body the context
\* manager still releases; while a thread is awaited the thread goes on alone.
\* A synchronous record has no await to cancel.
Stop(r) ==
  /\ Fault
  /\ ~cancelled[r]
  /\ phase[r] \in {"sleeping", "acquiring", "ticking", "releasing"}
  /\ phase' = [phase EXCEPT ![r] = IF phase[r] = "ticking" THEN "releasing"
                                   ELSE "stopped"]
  /\ thread' = [thread EXCEPT ![r] = IF phase[r] = "ticking" THEN "release"
                                     ELSE thread[r]]
  /\ cancelled' = [cancelled EXCEPT ![r] = TRUE]
  /\ UNCHANGED <<session, acquired, holder, stuck>>

-----------------------------------------------------------------------------
(* The worker thread                                                       *)

\* Mutant of TryAcquire: the answer of pg_try_advisory_lock is not looked at.
TryAcquireIgnoringHolder(r) ==
  /\ thread[r] = "acquire"
  /\ session' = [session EXCEPT ![r] = "open"]
  /\ holder' = r
  /\ thread' = [thread EXCEPT ![r] = "granted"]
  /\ UNCHANGED <<phase, acquired, cancelled, stuck, faults>>

\* _acquire: connect and pg_try_advisory_lock, which never waits.  It grants
\* the lock once more to a connection of the pool on which it is stuck.
TryAcquire(r) ==
  /\ thread[r] = "acquire"
  /\ session' = [session EXCEPT ![r] = "open"]
  /\ \/ /\ holder = NoOne \/ stuck[r]
        /\ holder' = r
        /\ thread' = [thread EXCEPT ![r] = "granted"]
     \/ /\ holder # NoOne
        /\ thread' = [thread EXCEPT ![r] = "refused"]
        /\ UNCHANGED holder
  /\ UNCHANGED <<phase, acquired, cancelled, stuck, faults>>

\* _acquire: the database cannot be reached, the answer is False.
CannotAcquire(r) ==
  /\ Fault
  /\ thread[r] = "acquire"
  /\ thread' = [thread EXCEPT ![r] = "refused"]
  /\ UNCHANGED <<phase, session, acquired, cancelled, holder, stuck>>

\* The connection checked out is the one that took the lock.
OnLock(r) == session[r] = "open" /\ (thread[r] = "granted" \/ acquired[r])

\* _release: pg_advisory_unlock when the lock was acquired, which takes back
\* one of the session's grants, and in every case the connection goes back to
\* the pool.  On a dead session the unlock fails and there is nothing to free.
Release(r) ==
  /\ thread[r] = "release"
  /\ holder' = IF OnLock(r) /\ ~stuck[r] THEN HolderWithout(r) ELSE holder
  /\ session' = [session EXCEPT ![r] = "closed"]
  /\ thread' = [thread EXCEPT ![r] = "released"]
  /\ UNCHANGED <<phase, acquired, cancelled, stuck, faults>>

\* _release: the unlock fails on a session that lives on; the error is only
\* logged, and the connection goes back to the pool with the lock.
FailRelease(r) ==
  /\ Fault
  /\ thread[r] = "release" /\ OnLock(r)
  /\ stuck' = [stuck EXCEPT ![r] = TRUE]
  /\ session' = [session EXCEPT ![r] = "closed"]
  /\ thread' = [thread EXCEPT ![r] = "released"]
  /\ UNCHANGED <<phase, acquired, cancelled, holder>>

-----------------------------------------------------------------------------
(* The environment                                                         *)

Reset(r) ==
  /\ phase' = [phase EXCEPT ![r] = "down"]
  /\ thread' = [thread EXCEPT ![r] = "none"]
  /\ session' = [session EXCEPT ![r] = "closed"]
  /\ acquired' = [acquired EXCEPT ![r] = FALSE]
  /\ cancelled' = [cancelled EXCEPT ![r] = FALSE]
  /\ stuck' = [stuck EXCEPT ![r] = FALSE]
  /\ holder' = HolderWithout(r)

\* The lifespan has ended: the process exits and its connections close.
Exit(r) == /\ phase[r] = "stopped"
           /\ Reset(r)
           /\ UNCHANGED faults

Crash(r) == /\ phase[r] # "down"
            /\ Fault
            /\ Reset(r)

\* The lock connection breaks; nothing tells the tick body.
LoseSession(r) ==
  /\ session[r] = "open"
  /\ Fault
  /\ session' = [session EXCEPT ![r] = "dead"]
  /\ IF OnLock(r)
     THEN holder' = HolderWithout(r) /\ stuck' = [stuck EXCEPT ![r] = FALSE]
     ELSE UNCHANGED <<holder, stuck>>
  /\ UNCHANGED <<phase, thread, acquired, cancelled>>

\* The pool replaces a connection that has reached its age (pool_recycle) the
\* next time it is asked for it.
Recycle(r) ==
  /\ stuck[r] /\ ~OnLock(r)
  /\ holder' = HolderWithout(r)
  /\ stuck' = [stuck EXCEPT ![r] = FALSE]
  /\ UNCHANGED <<phase, thread, session, acquired, cancelled, faults>>

-----------------------------------------------------------------------------
\* What replica r does by itself.
Step(r) == \/ Start(r) \/ BeginAcquire(r) \/ EnterTick(r) \/ SkipTick(r)
           \/ LeaveTick(r) \/ Released(r) \/ RecordRun(r)
           \/ TryAcquire(r) \/ Release(r) \/ Exit(r)

Next == \E r \in Replicas : \/ Step(r)
                            \/ Stop(r) \/ CannotAcquire(r)
                            \/ FailRelease(r) \/ Recycle(r)
                            \/ Crash(r) \/ LoseSession(r)

Spec == Init /\ [][Next]_vars

\* The event loop and the worker threads run, ticks are finite loops over
\* rows, a stopped process exits, and the orchestrator restarts it.  The pool
\* hands its connections out in turn, to every tick if to nobody else, so an
\* aged one is asked for and replaced; it may be young when it first is.
FairSpec == Spec /\ \A r \in Replicas : WF_vars(Step(r)) /\ SF_vars(Recycle(r))

-----------------------------------------------------------------------------
(* Properties                                                              *)

Live(r) == phase[r] = "ticking" /\ session[r] = "open"

\* Two replicas are never inside the tick body with both their lock sessions
\* alive: what the non-blocking pg_try_advisory_lock of _acquire is for.
LiveRunnerUnique == \A r, s \in Replicas : Live(r) /\ Live(s) => r = s

\* Replica r was granted the lock and has not handed its connection back.
Granted(r) == \/ phase[r] = "ticking"
              \/ thread[r] = "granted"
              \/ thread[r] = "release" /\ acquired[r]

\* The lock and what replica r knows of it.
Disciplined(r) ==
  /\ holder = r /\ ~stuck[r] => session[r] = "open" /\ Granted(r)
  /\ session[r] = "open" /\ Granted(r) => holder = r
  /\ stuck[r] => holder = r
  /\ phase[r] = "ticking" => thread[r] = "none" /\ acquired[r]
  /\ phase[r] \in {"down", "sleeping", "recording"}
       => thread[r] = "none" /\ session[r] = "closed"
  /\ thread[r] \in {"acquire", "released"} => session[r] = "closed"

\* The lock in PostgreSQL and the flags in the process agree: a holder is a
\* replica on its way into, in, or on its way out of the tick body with its
\* session open, or one whose unlock failed; and no connection outlives the
\* tick it was checked out for.
LockDiscipline == \A r \in Replicas : Disciplined(r)

\* Seen through live sessions, the replicas implement the abstract mutual
\* exclusion: losing a session is leaving the tick body.
Mutex == INSTANCE TickMutex WITH runners <- {r \in Replicas : Live(r)}
ImplementsMutex == Mutex!Spec

\* Whoever takes the lock gives it back: after the tick, after a failed unlock
\* (the pool ends the session), after a cancellation that discarded the answer
\* of _acquire (the process exits), after a crash.
LockIsFreed == \A r \in Replicas : holder = r ~> holder # r

\* When the faults stop, the scheduler keeps running its tick somewhere.
TicksForever == []<>(\E r \in Replicas : phase[r] = "ticking")
=============================================================================
