----------------------------- MODULE FlagRollout -----------------------------
(***************************************************************************)
(* One feature flag, its rollout schedules, and everybody who writes them  *)
(* concurrently through PostgreSQL (READ COMMITTED):                       *)
(*   Runners   rollout scheduler ticks     core/rollout_scheduler.py       *)
(*   Monitors  safety scheduler ticks      core/safety_scheduler.py        *)
(*   Requests  API requests                api/v1/endpoints, services/     *)
(* (paths under backend/app).  Reads are unlocked unless the code says FOR *)
(* UPDATE; an update waits for the row's lock.  A SQLAlchemy session keeps *)
(* the first copy it loads of a row: seen[a] is actor a's copy of the flag,*)
(* which FOR UPDATE without populate_existing does not refresh, and a      *)
(* column assigned its copied value is not written.                        *)
(* Percentages are 0..MaxPct; only their order matters.                    *)
(***************************************************************************)
EXTENDS Naturals, FiniteSets, FiniteSetsExt

CONSTANTS Runners, Monitors, Requests,   \* the actors
          NoOne,                         \* holder of a free row lock
          Schedules,                     \* the flag's schedules, oldest first
          Dated,                         \* those with an end date
          NumStages,                     \* stages of each schedule
          Trigger,                       \* trigger of each stage
          Ops,                           \* kinds of requests exercised
          MaxPct,                        \* greatest percentage
          MaxFaults                      \* bound on crashes and errors

Actors == Runners \cup Monitors \cup Requests
Stages == 1..NumStages
Percentages == 0..MaxPct
NoCap == MaxPct + 1
Triggers == {"TIME_BASED", "METRIC_BASED", "MANUAL"}
AllOps == {"status", "percentage", "schedule", "advance", "rollback"}

ASSUME ActorsAssumption ==
  /\ NoOne \notin Actors
  /\ Runners \cap Monitors = {} /\ Runners \cap Requests = {}
  /\ Monitors \cap Requests = {}
ASSUME NumbersAssumption ==
  NumStages \in Nat \ {0} /\ MaxPct \in Nat /\ MaxFaults \in Nat
ASSUME ScheduleAssumption ==
  Schedules \subseteq Nat \ {0} /\ Dated \subseteq Schedules /\ NumStages <= MaxPct
ASSUME TriggerAssumption == Trigger \in [Stages -> Triggers]
ASSUME OpsAssumption == Ops \subseteq AllOps

\* Stage targets never decrease along a schedule.
Target(i) == i

VARIABLES
  flag,       \* the feature_flags row: [status, pct]
  sched,      \* sched[s]: status of a rollout_schedules row
  stage,      \* stage[s][i]: status of a rollout_stages row
  ripe,       \* ripe[s][i]: the start date, or once started the duration, is over
  over,       \* over[s]: the schedule's end date has passed
  flagLock,   \* holder of the flag's FOR UPDATE row lock
  schedLock,  \* schedLock[s]: holder of the schedule's
  pc,         \* pc[a]: what actor a does next
  seen,       \* seen[a]: the flag in a's session
  work,       \* work[a]: a's local variables
  todo,       \* todo[t]: schedules tick t has still to process
  capped,     \* history: target of the last rollback nobody lifted, or NoCap
  faults

vars == <<flag, sched, stage, ripe, over, flagLock, schedLock, pc, seen, work,
          todo, capped, faults>>
rows == <<flag, sched, stage, ripe, over, capped>>
locks == <<flagLock, schedLock>>

FlagStatuses == {"ACTIVE", "INACTIVE", "ARCHIVED"}
ScheduleStatuses == {"DRAFT", "ACTIVE", "PAUSED", "COMPLETED", "CANCELLED"}
StageStatuses == {"PENDING", "IN_PROGRESS", "COMPLETED"}
Flags == [status : FlagStatuses, pct : Percentages]
Steps == {"idle", "next", "plan", "complete", "readStage", "lockFlag",
          "lockSchedule", "start", "check", "lockRollback", "rollback",
          "writeStatus", "writePercentage", "writeSchedule"}
\* sched: the schedule at hand; done, begin: stages to complete and to start
\* (0 for none); read: the status a stage was read with; pct: a rollback's
\* target or a new percentage; status: the status to write.
Works == [sched : Schedules \cup {0}, done : Stages \cup {0},
          begin : Stages \cup {0}, read : StageStatuses,
          pct : Percentages,
          status : FlagStatuses \cup ScheduleStatuses]
NoFlag == [status |-> "INACTIVE", pct |-> 0]
NoWork == [sched |-> 0, done |-> 0, begin |-> 0, read |-> "PENDING", pct |-> 0,
           status |-> "ACTIVE"]

TypeOK == /\ flag \in Flags
          /\ sched \in [Schedules -> ScheduleStatuses]
          /\ stage \in [Schedules -> [Stages -> StageStatuses]]
          /\ ripe \in [Schedules -> [Stages -> BOOLEAN]]
          /\ over \in [Schedules -> BOOLEAN]
          /\ flagLock \in Actors \cup {NoOne}
          /\ schedLock \in [Schedules -> Actors \cup {NoOne}]
          /\ pc \in [Actors -> Steps]
          /\ seen \in [Actors -> Flags]
          /\ work \in [Actors -> Works]
          /\ todo \in [Runners -> SUBSET Schedules]
          /\ capped \in Percentages \cup {NoCap}
          /\ faults \in 0..MaxFaults

\* A new flag is ACTIVE or INACTIVE, a new schedule a DRAFT with all its
\* stages pending (create_feature_flag, create_rollout_schedule).
Init == /\ flag \in [status : {"ACTIVE", "INACTIVE"}, pct : Percentages]
        /\ sched = [s \in Schedules |-> "DRAFT"]
        /\ stage = [s \in Schedules |-> [i \in Stages |-> "PENDING"]]
        /\ ripe = [s \in Schedules |-> [i \in Stages |-> FALSE]]
        /\ over = [s \in Schedules |-> FALSE]
        /\ flagLock = NoOne
        /\ schedLock = [s \in Schedules |-> NoOne]
        /\ pc = [a \in Actors |-> "idle"]
        /\ seen = [a \in Actors |-> NoFlag]
        /\ work = [a \in Actors |-> NoWork]
        /\ todo = [t \in Runners |-> {}]
        /\ capped = NoCap
        /\ faults = 0

-----------------------------------------------------------------------------
(* Sessions and row locks                                                  *)

Goto(a, step, w, f) == /\ pc' = [pc EXCEPT ![a] = step]
                       /\ work' = [work EXCEPT ![a] = w]
                       /\ seen' = [seen EXCEPT ![a] = f]

\* The end of a transaction: a tick goes on to its next schedule, anybody
\* else closes the session.
Leave(a) == Goto(a, IF a \in Runners THEN "next" ELSE "idle", NoWork, NoFlag)

ReleaseLocks(a) ==
  /\ flagLock' = IF flagLock = a THEN NoOne ELSE flagLock
  /\ schedLock' = [s \in Schedules |-> IF schedLock[s] = a THEN NoOne
                                       ELSE schedLock[s]]

\* What the flush writes for a column assigned a new value: nothing when the
\* session's copy already has that value.
Flushed(new, copy, stored) == IF new = copy THEN stored ELSE new

\* SELECT ... FOR UPDATE on the flag, without populate_existing.
LockFlag(a) ==
  /\ pc[a] = "lockFlag" /\ flagLock = NoOne
  /\ flagLock' = a
  /\ Goto(a, "lockSchedule", work[a], seen[a])
  /\ UNCHANGED <<rows, schedLock, todo, faults>>

\* Mutant of LockSchedule: the copy read before the flag lock is trusted.
LockScheduleWithoutReread(a) ==
  /\ pc[a] = "lockSchedule" /\ schedLock[work[a].sched] = NoOne
  /\ schedLock' = [schedLock EXCEPT ![work[a].sched] = a]
  /\ Goto(a, "start", work[a], seen[a])
  /\ UNCHANGED <<rows, flagLock, todo, faults>>

\* The schedule is locked and read again (populate_existing): one that is no
\* longer ACTIVE ends the transaction, ScheduleNoLongerActive in a tick.
LockSchedule(a) ==
  /\ pc[a] = "lockSchedule" /\ schedLock[work[a].sched] = NoOne
  /\ \/ /\ sched[work[a].sched] = "ACTIVE"
        /\ schedLock' = [schedLock EXCEPT ![work[a].sched] = a]
        /\ Goto(a, "start", work[a], seen[a])
        /\ UNCHANGED flagLock
     \/ /\ sched[work[a].sched] # "ACTIVE"
        /\ ReleaseLocks(a)
        /\ Leave(a)
  /\ UNCHANGED <<rows, todo, faults>>

\* Mutant of MoveStages: a stage's status is written to the schedule.
MoveStagesMixedUp(s, done, begin) ==
  /\ stage' = stage /\ ripe' = ripe
  /\ sched' = [sched EXCEPT ![s] = IF begin = 0 THEN "COMPLETED" ELSE "IN_PROGRESS"]

\* The stage writes of one commit: done is completed, begin started; with
\* nothing to begin the schedule is completed.
MoveStages(s, done, begin) ==
  /\ stage' = [stage EXCEPT ![s] = [i \in Stages |->
                 IF i = begin THEN "IN_PROGRESS"
                 ELSE IF i = done THEN "COMPLETED" ELSE stage[s][i]]]
  /\ ripe' = [ripe EXCEPT ![s] = [i \in Stages |-> i # begin /\ ripe[s][i]]]
  /\ sched' = [sched EXCEPT ![s] = IF begin = 0 THEN "COMPLETED" ELSE @]

-----------------------------------------------------------------------------
(* The rollout scheduler's tick                                            *)

\* process_rollout_schedules reads the ACTIVE schedules that have not ended.
TickLoad(t) ==
  /\ pc[t] = "idle"
  /\ todo' = [todo EXCEPT ![t] =
                {s \in Schedules : sched[s] = "ACTIVE" /\ ~over[s]}]
  /\ Goto(t, "next", NoWork, NoFlag)
  /\ UNCHANGED <<rows, locks, faults>>

InState(s, st) == {i \in Stages : stage[s][i] = st}

\* _process_schedule, first query: a stage in progress (any: it has no ORDER
\* BY), or none.  Without schedules left the tick ends.
TickRead(t) ==
  /\ pc[t] = "next"
  /\ \/ /\ todo[t] = {}
        /\ Goto(t, "idle", NoWork, NoFlag)
        /\ UNCHANGED todo
     \/ /\ todo[t] # {}
        /\ LET s == Min(todo[t])
               open == InState(s, "IN_PROGRESS")
           IN /\ todo' = [todo EXCEPT ![t] = @ \ {s}]
              /\ \E cur \in IF open = {} THEN {0} ELSE open :
                   Goto(t, "plan", [NoWork EXCEPT !.sched = s, !.done = cur], NoFlag)
  /\ UNCHANGED <<rows, locks, faults>>

\* Mutant of Eligible: the dates are compared the wrong way round.
EligibleReversed(s, i) == i # 0 /\ Trigger[i] = "TIME_BASED" /\ ~ripe[s][i]

\* _is_stage_eligible_for_activation and _is_stage_eligible_for_completion.
Eligible(s, i) == i # 0 /\ Trigger[i] = "TIME_BASED" /\ ripe[s][i]

\* Mutant of NextStage: the pending stages come in the wrong order.
NextStageUnordered(cur, pending) == IF pending = {} THEN 0 ELSE Max(pending)

\* The pending stage after the current one, else the first pending one.
NextStage(cur, pending) ==
  IF pending = {} THEN 0
  ELSE IF \E i \in pending : i > cur THEN Min({i \in pending : i > cur})
  ELSE Min(pending)

\* Second query, and the decision: nothing to do, complete the current stage
\* alone (no lock), or lock and start the next stage or end the schedule.
TickPlan(t) ==
  /\ pc[t] = "plan"
  /\ LET s == work[t].sched
         cur == work[t].done
         next == NextStage(cur, InState(s, "PENDING"))
         idle == ~Eligible(s, IF cur = 0 THEN next ELSE cur)
         planned == [work[t] EXCEPT !.begin = next]
     IN \/ /\ idle
           /\ Leave(t)
        \/ /\ ~idle /\ (next = 0 \/ Eligible(s, next))
           /\ Goto(t, "lockFlag", planned, NoFlag)
        \/ /\ ~idle /\ next # 0 /\ ~Eligible(s, next)
           /\ Goto(t, "complete", work[t], NoFlag)
  /\ UNCHANGED <<rows, locks, todo, faults>>

\* The next stage is not due: the current one is completed and committed.
TickComplete(t) ==
  /\ pc[t] = "complete"
  /\ stage' = [stage EXCEPT ![work[t].sched][work[t].done] = "COMPLETED"]
  /\ Leave(t)
  /\ UNCHANGED <<flag, sched, ripe, over, capped, locks, todo, faults>>

\* Mutant of TickStart: the tick keeps its row locks in an open transaction.
TickStartWithoutCommit(t) ==
  /\ pc[t] = "start" /\ t \in Runners
  /\ MoveStages(work[t].sched, work[t].done, work[t].begin)
  /\ Leave(t)
  /\ UNCHANGED <<flag, over, capped, locks, todo, faults>>

\* _activate_stage (or the last stage's branch) and the commit.
TickStart(t) ==
  /\ pc[t] = "start" /\ t \in Runners
  /\ MoveStages(work[t].sched, work[t].done, work[t].begin)
  /\ flag' = IF work[t].begin = 0 THEN flag
             ELSE [flag EXCEPT !.pct = Target(work[t].begin)]
  /\ ReleaseLocks(t)
  /\ Leave(t)
  /\ UNCHANGED <<over, capped, todo, faults>>

-----------------------------------------------------------------------------
(* Rollbacks: the safety scheduler's tick and the manual endpoint          *)

\* rollback_change: what a rollback to target does to a copy of the flag.
RollbackChange(f, target) ==
  IF f.status # "ACTIVE" THEN "nothing"
  ELSE IF target = 0 THEN "deactivate"
  ELSE IF f.pct > target THEN "lower" ELSE "nothing"

\* check_feature_flags_safety reads the ACTIVE flags.
MonitorLoad(m) ==
  /\ pc[m] = "idle" /\ flag.status = "ACTIVE"
  /\ Goto(m, "check", NoWork, flag)
  /\ UNCHANGED <<rows, locks, todo, faults>>

\* Healthy, disabled or already rolled back: nothing.  Unhealthy: roll back
\* to the configured percentage.
MonitorCheck(m) ==
  /\ pc[m] = "check"
  /\ \/ Goto(m, "idle", NoWork, NoFlag)
     \/ \E p \in Percentages :
          /\ RollbackChange(seen[m], p) # "nothing"
          /\ Goto(m, "lockRollback", [NoWork EXCEPT !.pct = p], seen[m])
  /\ UNCHANGED <<rows, locks, todo, faults>>

\* The manual rollback endpoint; its first read of the flag is not kept.
RequestRollback(q) ==
  /\ pc[q] = "idle" /\ "rollback" \in Ops
  /\ \E p \in Percentages :
       Goto(q, "lockRollback", [NoWork EXCEPT !.pct = p], NoFlag)
  /\ UNCHANGED <<rows, locks, todo, faults>>

\* execute_rollback locks the flag: a session that has the flag keeps its
\* copy, one that has not loads it now.
LockForRollback(a) ==
  /\ pc[a] = "lockRollback" /\ flagLock = NoOne
  /\ flagLock' = a
  /\ Goto(a, "rollback", work[a], IF a \in Monitors THEN seen[a] ELSE flag)
  /\ UNCHANGED <<rows, schedLock, todo, faults>>

\* Mutant of Rollback: the schedules keep running.
RollbackWithoutPause(a) ==
  /\ pc[a] = "rollback"
  /\ RollbackChange(seen[a], work[a].pct) # "nothing"
  /\ flag' = [status |-> IF work[a].pct = 0 THEN "INACTIVE" ELSE flag.status,
              pct |-> Flushed(work[a].pct, seen[a].pct, flag.pct)]
  /\ capped' = work[a].pct
  /\ ReleaseLocks(a)
  /\ Leave(a)
  /\ UNCHANGED <<sched, stage, ripe, over, todo, faults>>

\* execute_rollback under the flag lock: turn the flag off or lower it, lock
\* and pause its ACTIVE schedules, commit.
Rollback(a) ==
  /\ pc[a] = "rollback"
  /\ LET change == RollbackChange(seen[a], work[a].pct)
     IN \/ /\ change = "nothing"
           /\ UNCHANGED rows
        \/ /\ change # "nothing"
           /\ \A s \in Schedules : sched[s] = "ACTIVE" => schedLock[s] = NoOne
           /\ flag' = [status |-> IF change = "deactivate" THEN "INACTIVE"
                                  ELSE flag.status,
                       pct |-> Flushed(work[a].pct, seen[a].pct, flag.pct)]
           /\ sched' = [s \in Schedules |->
                          IF sched[s] = "ACTIVE" THEN "PAUSED" ELSE sched[s]]
           /\ capped' = work[a].pct
           /\ UNCHANGED <<stage, ripe, over>>
  /\ ReleaseLocks(a)
  /\ Leave(a)
  /\ UNCHANGED <<todo, faults>>

-----------------------------------------------------------------------------
(* API requests that set the flag's status or percentage                   *)

Verbs == {"on", "off", "archive", "unarchive"}

\* transition, for the verbs it does not refuse.
Transition(current, verb) ==
  CASE verb = "on" -> "ACTIVE"
    [] verb = "off" -> IF current = "ARCHIVED" THEN current ELSE "INACTIVE"
    [] verb = "archive" -> "ARCHIVED"
    [] verb = "unarchive" -> IF current = "ARCHIVED" THEN "INACTIVE" ELSE current

\* The endpoint loads the flag and decides.  On an archived flag "on" is
\* refused; what changes nothing ends there, except that /enable writes the
\* status (a string, never equal to the enum it loaded) all the same.
ReadStatus(q) ==
  /\ pc[q] = "idle" /\ "status" \in Ops
  /\ \E verb \in Verbs :
       LET new == Transition(flag.status, verb)
       IN /\ verb = "on" => flag.status # "ARCHIVED"
          /\ new = flag.status => verb = "on"
          /\ Goto(q, "writeStatus", [NoWork EXCEPT !.status = new], flag)
  /\ UNCHANGED <<rows, locks, todo, faults>>

\* The commit, which waits for the row lock.
WriteStatus(q) ==
  /\ pc[q] = "writeStatus" /\ flagLock = NoOne
  /\ flag' = [flag EXCEPT !.status = work[q].status]
  /\ Leave(q)
  /\ UNCHANGED <<sched, stage, ripe, over, capped, locks, todo, faults>>

\* A PUT of another percentage than the one it loaded (the same one would
\* not be written).  It lifts the cap of an earlier rollback.
ReadPercentage(q) ==
  /\ pc[q] = "idle" /\ "percentage" \in Ops
  /\ \E p \in Percentages \ {flag.pct} :
       Goto(q, "writePercentage", [NoWork EXCEPT !.pct = p], flag)
  /\ UNCHANGED <<rows, locks, todo, faults>>

WritePercentage(q) ==
  /\ pc[q] = "writePercentage" /\ flagLock = NoOne
  /\ flag' = [flag EXCEPT !.pct = work[q].pct]
  /\ capped' = NoCap
  /\ Leave(q)
  /\ UNCHANGED <<sched, stage, ripe, over, locks, todo, faults>>

-----------------------------------------------------------------------------
(* API requests on a schedule and its stages                               *)

\* activate, pause and cancel_rollout_schedule check the status they read,
\* without a lock; cancelling a cancelled schedule writes nothing.
ScheduleMoves == {<<"DRAFT", "ACTIVE">>, <<"PAUSED", "ACTIVE">>,
                  <<"ACTIVE", "PAUSED">>, <<"DRAFT", "CANCELLED">>,
                  <<"ACTIVE", "CANCELLED">>, <<"PAUSED", "CANCELLED">>}

ReadSchedule(q) ==
  /\ pc[q] = "idle" /\ "schedule" \in Ops
  /\ \E s \in Schedules, new \in ScheduleStatuses :
       /\ <<sched[s], new>> \in ScheduleMoves
       /\ Goto(q, "writeSchedule",
               [NoWork EXCEPT !.sched = s, !.status = new], NoFlag)
  /\ UNCHANGED <<rows, locks, todo, faults>>

\* The commit.  Activating a schedule lifts the cap of an earlier rollback.
WriteSchedule(q) ==
  /\ pc[q] = "writeSchedule" /\ schedLock[work[q].sched] = NoOne
  /\ sched' = [sched EXCEPT ![work[q].sched] = work[q].status]
  /\ capped' = IF work[q].status = "ACTIVE" THEN NoCap ELSE capped
  /\ Leave(q)
  /\ UNCHANGED <<flag, stage, ripe, over, locks, todo, faults>>

\* The advance endpoint keeps the flag it loads for the permission check.
RequestAdvance(q) ==
  /\ pc[q] = "idle" /\ "advance" \in Ops
  /\ Goto(q, "readStage", NoWork, flag)
  /\ UNCHANGED <<rows, locks, todo, faults>>

\* manually_advance_stage up to its locks: the stage and the schedule are
\* checked as read; the request ends when they do not fit.
ReadStage(q) ==
  /\ pc[q] = "readStage"
  /\ \/ Leave(q)
     \/ \E s \in Schedules, i \in Stages :
          /\ Trigger[i] = "MANUAL" /\ sched[s] = "ACTIVE"
          /\ stage[s][i] # "COMPLETED"
          /\ Goto(q, "lockFlag",
                  [NoWork EXCEPT !.sched = s, !.done = i, !.read = stage[s][i]],
                  seen[q])
  /\ UNCHANGED <<rows, locks, todo, faults>>

\* manually_advance_stage under the locks (the stage is not read again): a
\* pending stage is started; one in progress is completed and the next
\* pending one, read now, started.
Advance(q) ==
  /\ pc[q] = "start" /\ q \in Requests
  /\ LET s == work[q].sched
         i == work[q].done
         later == {j \in InState(s, "PENDING") : j > i}
         begin == IF work[q].read = "PENDING" THEN i
                  ELSE IF later = {} THEN 0 ELSE Min(later)
     IN /\ MoveStages(s, i, begin)
        /\ flag' = IF begin = 0 THEN flag
                   ELSE [flag EXCEPT !.pct =
                           Flushed(Target(begin), seen[q].pct, flag.pct)]
  /\ ReleaseLocks(q)
  /\ Leave(q)
  /\ UNCHANGED <<over, capped, todo, faults>>

-----------------------------------------------------------------------------
(* Time, errors and crashes                                                *)

\* A start date passes, or the duration of a stage in progress runs out.
Ripen(s, i) ==
  /\ ~ripe[s][i]
  /\ ripe' = [ripe EXCEPT ![s][i] = TRUE]
  /\ UNCHANGED <<flag, sched, stage, over, capped, locks, pc, seen, work, todo, faults>>

\* The end date of a schedule passes.
PassEnd(s) ==
  /\ s \in Dated /\ ~over[s]
  /\ over' = [over EXCEPT ![s] = TRUE]
  /\ UNCHANGED <<flag, sched, stage, ripe, capped, locks, pc, seen, work, todo, faults>>

\* An error while a schedule is processed: rolled back, the tick goes on.
TickFail(t) ==
  /\ pc[t] \in {"plan", "complete", "lockFlag", "lockSchedule", "start"}
  /\ faults < MaxFaults
  /\ faults' = faults + 1
  /\ ReleaseLocks(t)
  /\ Leave(t)
  /\ UNCHANGED <<rows, todo>>

\* The process or its connection dies (an error in a request or a safety
\* check ends the same way): PostgreSQL rolls back and frees the locks.
Crash(a) ==
  /\ pc[a] # "idle" /\ faults < MaxFaults
  /\ faults' = faults + 1
  /\ ReleaseLocks(a)
  /\ Goto(a, "idle", NoWork, NoFlag)
  /\ todo' = [t \in Runners |-> IF t = a THEN {} ELSE todo[t]]
  /\ UNCHANGED rows

-----------------------------------------------------------------------------
TickStep(t) == \/ TickRead(t) \/ TickPlan(t) \/ TickComplete(t) \/ TickStart(t)
LockStep(a) == LockFlag(a) \/ LockSchedule(a) \/ LockForRollback(a)
RequestStart(q) == \/ ReadStatus(q) \/ ReadPercentage(q) \/ ReadSchedule(q)
                   \/ RequestAdvance(q) \/ RequestRollback(q)
RequestStep(q) == ReadStage(q) \/ Advance(q)
CommitStep(q) == WriteStatus(q) \/ WritePercentage(q) \/ WriteSchedule(q)

Next == \/ \E t \in Runners : TickLoad(t) \/ TickStep(t) \/ TickFail(t)
        \/ \E m \in Monitors : MonitorLoad(m) \/ MonitorCheck(m)
        \/ \E q \in Requests : RequestStart(q) \/ RequestStep(q) \/ CommitStep(q)
        \/ \E a \in Actors : LockStep(a) \/ Rollback(a) \/ Crash(a)
        \/ \E s \in Schedules, i \in Stages : Ripen(s, i)
        \/ \E s \in Schedules : PassEnd(s)

Spec == Init /\ [][Next]_vars

\* Ticks repeat and time passes; a request that began goes on; PostgreSQL
\* serves the waiters of a row lock in turn (strong fairness).  Nothing
\* makes a user send a request or a flag unhealthy.
Fairness ==
  /\ \A t \in Runners : WF_vars(TickLoad(t) \/ TickStep(t))
  /\ \A m \in Monitors : WF_vars(MonitorLoad(m) \/ MonitorCheck(m))
  /\ \A q \in Requests : WF_vars(RequestStep(q)) /\ SF_vars(CommitStep(q))
  /\ \A a \in Actors : SF_vars(LockStep(a)) /\ SF_vars(Rollback(a))
  /\ \A s \in Schedules, i \in Stages : WF_vars(Ripen(s, i))

FairSpec == Spec /\ Fairness

-----------------------------------------------------------------------------
(* What the locks give (pass)                                              *)

Holding == {"lockSchedule", "start", "rollback"}

\* The flag's row lock belongs to the actor between taking it and its commit,
\* a schedule's to the one about to write its stages, and what that actor
\* read under the lock (the schedule is ACTIVE) still holds.
LocksProtect ==
  /\ \A a \in Actors : pc[a] \in Holding <=> flagLock = a
  /\ \A s \in Schedules, a \in Actors :
       schedLock[s] = a <=> pc[a] = "start" /\ work[a].sched = s
  /\ \A a \in Actors : pc[a] = "start" => sched[work[a].sched] = "ACTIVE"

\* #629: after a rollback no schedule of the flag is ACTIVE until somebody
\* activates one or sets the percentage by hand.
RollbackHolds == capped # NoCap => \A s \in Schedules : sched[s] # "ACTIVE"

\* Until then (or the next rollback) nothing widens the rollout: not a stage
\* start planned before the rollback, not a manual advance waiting for its lock.
NoWideningAfterRollback ==
  [][capped # NoCap /\ capped' = capped => flag'.pct <= flag.pct]_vars

\* #629: a stage starts, and a schedule completes, only while the schedule is
\* ACTIVE in the database, however old the copy that planned it.
PauseStopsStages ==
  [][\A s \in Schedules : sched[s] # "ACTIVE" =>
       /\ sched'[s] = "COMPLETED" => sched[s] = "COMPLETED"
       /\ \A i \in Stages : stage'[s][i] = "IN_PROGRESS"
                            => stage[s][i] = "IN_PROGRESS"]_vars

\* A stage that leaves PENDING because of a tick finds every stage before it
\* complete once the tick has committed (docs/feature-flags/rollouts.md:175).
TimeStageAfterPredecessors ==
  [][\A s \in Schedules, i \in Stages :
       /\ Trigger[i] = "TIME_BASED" /\ \E t \in Runners : pc[t] = "start" /\ pc'[t] = "next"
       /\ stage[s][i] = "PENDING" /\ stage'[s][i] = "IN_PROGRESS"
       => \A j \in 1..(i - 1) : stage'[s][j] = "COMPLETED"]_vars

Cap == INSTANCE RolloutCap WITH pct <- flag.pct, cap <- capped,
         running <- {s \in Schedules : sched[s] = "ACTIVE"}

\* The contract of rollbacks and schedules (module RolloutCap) is kept.
ImplementsCap == Cap!Spec

\* Nobody keeps the flag's row lock.
LockReleased == \A a \in Actors : flagLock = a ~> flagLock # a

Finished(s) == \A i \in Stages : stage[s][i] = "COMPLETED"

\* An ACTIVE schedule of time-based stages runs to the end of its last stage
\* unless somebody stops it or its end date passes.
RolloutFinishes == \A s \in Schedules :
  sched[s] = "ACTIVE" /\ ~Finished(s)
    ~> sched[s] # "ACTIVE" \/ Finished(s) \/ over[s]

-----------------------------------------------------------------------------
(* What unlocked or stale reads break (violation)                          *)

\* After a rollback the percentage is at most its target
\* (services/safety_service.py:790).
RollbackReachesTarget == capped # NoCap => flag.pct <= capped
=============================================================================
