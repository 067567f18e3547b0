------------------------- MODULE FlagRollout_proofs -------------------------
(***************************************************************************)
(* TLAPS proofs about FlagRollout, for any actors, schedules, stages,      *)
(* triggers, percentages and number of faults.  Ind is the inductive       *)
(* invariant: the types, what an actor's local variables hold at each step *)
(* (WorkFits), and what its row locks protect (LocksProtect).  The         *)
(* properties of rollbacks and pauses follow from it.                      *)
(***************************************************************************)
EXTENDS FlagRollout, WellFoundedInduction, NaturalsInduction, TLAPS

\* What an actor needs of its local variables w at step.
Fits(step, w) ==
  /\ step \in {"plan", "complete", "lockFlag", "lockSchedule", "start",
              "writeSchedule"} => w.sched \in Schedules
  /\ step = "writeStatus" => w.status \in FlagStatuses
  /\ step = "writeSchedule" => w.status \in {"ACTIVE", "PAUSED", "CANCELLED"}

WorkFits == \A a \in Actors : Fits(pc[a], work[a])

Ind == TypeOK /\ WorkFits /\ LocksProtect

-----------------------------------------------------------------------------
(* Lemmas                                                                  *)

\* Min picks the least member of a non-empty set of numbers.
LEMMA MinIn ==
  ASSUME NEW S \in SUBSET Nat, S # {}
  PROVE  Min(S) \in S /\ \A y \in S : Min(S) <= y
<1> DEFINE R == {ss \in Nat \X Nat : ss[1] < ss[2]}
<1>1. IsWellFoundedOn(R, Nat)
  BY NatLessThanWellFounded, Zenon DEF OpToRel
<1> HIDE DEF R
<1>2. PICK x \in S : \A y \in S : <<y, x>> \notin R
  BY <1>1, WFMin
<1>3. \A y \in S : x <= y
  <2> TAKE y \in S
  <2>1. x \in Nat /\ y \in Nat /\ ~(y < x)
    BY <1>2 DEF R
  <2> QED BY <2>1
<1>4. QED
  BY <1>3 DEF Min

\* The next stage is one of the pending stages, or none.
LEMMA NextStageIn ==
  ASSUME NEW cur, NEW pending \in SUBSET Stages
  PROVE  NextStage(cur, pending) \in pending \cup {0}
<1>1. pending \in SUBSET Nat /\ {i \in pending : i > cur} \in SUBSET Nat
  <2>1. \A i \in pending : i \in Nat
    BY NumbersAssumption DEF Stages
  <2>2. QED
    BY <2>1
<1>2. QED
  BY <1>1, MinIn DEF NextStage

\* Where an actor goes, the others stay.
LEMMA GotoSets ==
  ASSUME NEW a \in Actors, NEW step \in Steps, NEW w \in Works, NEW f \in Flags,
         TypeOK, Goto(a, step, w, f)
  PROVE  /\ pc' \in [Actors -> Steps]
         /\ work' \in [Actors -> Works]
         /\ seen' \in [Actors -> Flags]
         /\ pc'[a] = step /\ work'[a] = w /\ seen'[a] = f
         /\ \A b \in Actors \ {a} : /\ pc'[b] = pc[b] /\ work'[b] = work[b]
                                    /\ seen'[b] = seen[b]
  BY DEF TypeOK, Goto

\* Blank local variables, and those with a few fields set.
LEMMA WorkTypes ==
  /\ NoWork \in Works /\ NoFlag \in Flags
  /\ \A s \in Schedules, i \in Stages \cup {0}, r \in StageStatuses :
       LET w == [NoWork EXCEPT !.sched = s, !.done = i, !.read = r]
       IN w \in Works /\ w.sched = s
  /\ \A s \in Schedules, i \in Stages \cup {0} :
       LET w == [NoWork EXCEPT !.sched = s, !.done = i]
       IN w \in Works /\ w.sched = s
  /\ \A s \in Schedules, st \in ScheduleStatuses :
       LET w == [NoWork EXCEPT !.sched = s, !.status = st]
       IN w \in Works /\ w.sched = s /\ w.status = st
  /\ \A st \in FlagStatuses :
       LET w == [NoWork EXCEPT !.status = st]
       IN w \in Works /\ w.status = st
  /\ \A p \in Percentages : [NoWork EXCEPT !.pct = p] \in Works
<1> USE NumbersAssumption
    DEF NoWork, NoFlag, Works, Flags, FlagStatuses, ScheduleStatuses,
        StageStatuses, Percentages
<1>0. 0 \in Percentages
  OBVIOUS
<1>1. NoWork \in Works /\ NoFlag \in Flags
  BY <1>0
<1>2. ASSUME NEW s \in Schedules, NEW i \in Stages \cup {0}, NEW r \in StageStatuses
      PROVE  LET w == [NoWork EXCEPT !.sched = s, !.done = i, !.read = r]
             IN w \in Works /\ w.sched = s
  BY <1>0
<1>3. ASSUME NEW s \in Schedules, NEW i \in Stages \cup {0}
      PROVE  LET w == [NoWork EXCEPT !.sched = s, !.done = i]
             IN w \in Works /\ w.sched = s
  BY <1>0
<1>4. ASSUME NEW s \in Schedules, NEW st \in ScheduleStatuses
      PROVE  LET w == [NoWork EXCEPT !.sched = s, !.status = st]
             IN w \in Works /\ w.sched = s /\ w.status = st
  BY <1>0
<1>5. ASSUME NEW st \in FlagStatuses
      PROVE  LET w == [NoWork EXCEPT !.status = st]
             IN w \in Works /\ w.status = st
  BY <1>0
<1>6. ASSUME NEW p \in Percentages PROVE [NoWork EXCEPT !.pct = p] \in Works
  BY <1>0
<1>7. QED
  BY <1>1, <1>2, <1>3, <1>4, <1>5, <1>6

\* Rolling back or committing gives up exactly the actor's own locks.
LEMMA ReleaseSets ==
  ASSUME NEW a \in Actors, TypeOK, ReleaseLocks(a)
  PROVE  /\ flagLock' \in Actors \cup {NoOne}
         /\ schedLock' \in [Schedules -> Actors \cup {NoOne}]
         /\ flagLock' # a
         /\ \A s \in Schedules : schedLock'[s] # a
         /\ \A b \in Actors \ {a} :
              /\ flagLock' = b <=> flagLock = b
              /\ \A s \in Schedules : schedLock'[s] = b <=> schedLock[s] = b
  BY ActorsAssumption DEF TypeOK, ReleaseLocks

\* An actor that ends its transaction keeps the invariant on the locks,
\* provided the schedules other actors have locked stay as they are.
LEMMA LeaveKeepsLocks ==
  ASSUME NEW a \in Actors, NEW step \in Steps \ Holding, NEW w \in Works,
         NEW f \in Flags, Ind, ReleaseLocks(a), Goto(a, step, w, f),
         \A b \in Actors \ {a} : pc[b] = "start"
            => sched'[work[b].sched] = sched[work[b].sched]
  PROVE  LocksProtect'
<1> USE DEF Ind, LocksProtect
<1>1. /\ pc'[a] = step /\ step \notin Holding
      /\ \A b \in Actors \ {a} : pc'[b] = pc[b] /\ work'[b] = work[b]
  BY GotoSets
<1>2. /\ flagLock' # a
      /\ \A s \in Schedules : schedLock'[s] # a
      /\ \A b \in Actors \ {a} :
           /\ flagLock' = b <=> flagLock = b
           /\ \A s \in Schedules : schedLock'[s] = b <=> schedLock[s] = b
  BY ReleaseSets
<1>3. \A b \in Actors : pc'[b] \in Holding <=> flagLock' = b
  BY <1>1, <1>2
<1>4. \A s \in Schedules, b \in Actors :
        schedLock'[s] = b <=> pc'[b] = "start" /\ work'[b].sched = s
  BY <1>1, <1>2 DEF Holding
<1>5. \A b \in Actors : pc'[b] = "start" => sched'[work'[b].sched] = "ACTIVE"
  BY <1>1 DEF Holding
<1>6. QED
  BY <1>3, <1>4, <1>5

\* A step between steps that hold no lock, taken without touching one.
LEMMA QuietKeepsLocks ==
  ASSUME NEW a \in Actors, NEW step \in Steps \ Holding, NEW w \in Works,
         NEW f \in Flags, Ind, pc[a] \notin Holding, Goto(a, step, w, f),
         UNCHANGED locks,
         \A b \in Actors \ {a} : pc[b] = "start"
            => sched'[work[b].sched] = sched[work[b].sched]
  PROVE  LocksProtect'
<1> USE DEF Ind, LocksProtect
<1>1. /\ pc'[a] = step /\ step \notin Holding
      /\ \A b \in Actors \ {a} : pc'[b] = pc[b] /\ work'[b] = work[b]
  BY GotoSets
<1>2. flagLock' = flagLock /\ schedLock' = schedLock
  BY DEF locks
<1>3. \A b \in Actors : pc'[b] \in Holding <=> flagLock' = b
  BY <1>1, <1>2
<1>4. \A s \in Schedules, b \in Actors :
        schedLock'[s] = b <=> pc'[b] = "start" /\ work'[b].sched = s
  BY <1>1, <1>2 DEF Holding
<1>5. \A b \in Actors : pc'[b] = "start" => sched'[work'[b].sched] = "ACTIVE"
  BY <1>1 DEF Holding
<1>6. QED
  BY <1>3, <1>4, <1>5

\* Moving an actor to a step its new local variables fit keeps them fitting.
LEMMA GotoFits ==
  ASSUME NEW a \in Actors, NEW step \in Steps, NEW w \in Works, NEW f \in Flags,
         Ind, Goto(a, step, w, f), Fits(step, w)
  PROVE  WorkFits'
<1>1. /\ pc'[a] = step /\ work'[a] = w
      /\ \A b \in Actors \ {a} : pc'[b] = pc[b] /\ work'[b] = work[b]
  BY GotoSets DEF Ind
<1>2. QED
  BY <1>1 DEF Ind, WorkFits, Fits

\* The end of a transaction.
LEMMA LeaveIsGoto ==
  ASSUME NEW a \in Actors, Leave(a)
  PROVE  \E step \in {"idle", "next"} :
           /\ step \in Steps \ Holding
           /\ Goto(a, step, NoWork, NoFlag)
           /\ Fits(step, NoWork)
<1>1. CASE a \in Runners
  BY <1>1 DEF Leave, Steps, Holding, Fits
<1>2. CASE a \notin Runners
  BY <1>2 DEF Leave, Steps, Holding, Fits
<1>3. QED
  BY <1>1, <1>2

\* The stage writes of a commit touch one schedule.
LEMMA MoveSets ==
  ASSUME NEW s \in Schedules, NEW done, NEW begin, TypeOK,
         MoveStages(s, done, begin)
  PROVE  /\ sched' \in [Schedules -> ScheduleStatuses]
         /\ stage' \in [Schedules -> [Stages -> StageStatuses]]
         /\ ripe' \in [Schedules -> [Stages -> BOOLEAN]]
         /\ \A r \in Schedules \ {s} : sched'[r] = sched[r]
         /\ sched'[s] \in {sched[s], "COMPLETED"}
<1>1. [i \in Stages |-> IF i = begin THEN "IN_PROGRESS"
                        ELSE IF i = done THEN "COMPLETED" ELSE stage[s][i]]
      \in [Stages -> StageStatuses]
  BY DEF TypeOK, StageStatuses
<1>2. [i \in Stages |-> i # begin /\ ripe[s][i]] \in [Stages -> BOOLEAN]
  OBVIOUS
<1>3. stage' \in [Schedules -> [Stages -> StageStatuses]]
  BY <1>1 DEF MoveStages, TypeOK
<1>4. ripe' \in [Schedules -> [Stages -> BOOLEAN]]
  BY <1>2 DEF MoveStages, TypeOK
<1>5. QED
  BY <1>3, <1>4 DEF MoveStages, TypeOK, ScheduleStatuses

\* A stage that can be started has a percentage.
LEMMA TargetIn == \A i \in Stages : Target(i) \in Percentages
  BY NumbersAssumption, ScheduleAssumption DEF Target, Stages, Percentages

-----------------------------------------------------------------------------
(* The invariant                                                           *)

LEMMA InitInd == Init => Ind
<1> SUFFICES ASSUME Init PROVE Ind
  OBVIOUS
<1>1. TypeOK
  <2>1. NoWork \in Works /\ NoFlag \in Flags
    BY WorkTypes
  <2>2. flag \in Flags
    BY DEF Init, Flags, FlagStatuses
  <2>3. faults \in 0..MaxFaults
    BY NumbersAssumption DEF Init
  <2>4. QED
    BY <2>1, <2>2, <2>3 DEF Init, TypeOK, ScheduleStatuses, StageStatuses, Steps
<1>2. WorkFits
  BY DEF Init, WorkFits, Fits
<1>3. LocksProtect
  BY ActorsAssumption DEF Init, LocksProtect, Holding
<1>4. QED
  BY <1>1, <1>2, <1>3 DEF Ind

\* The steps that only read, and move the actor to a step that holds no lock.
LEMMA ReadsKeepInd ==
  ASSUME Ind, NEW a \in Actors, NEW step \in Steps \ Holding, NEW w \in Works,
         NEW f \in Flags, pc[a] \notin Holding, Goto(a, step, w, f), Fits(step, w),
         UNCHANGED <<rows, locks, faults>>, todo' \in [Runners -> SUBSET Schedules]
  PROVE  Ind'
<1>1. TypeOK'
  BY GotoSets DEF Ind, TypeOK, rows, locks
<1>2. WorkFits'
  BY GotoFits
<1>3. sched' = sched
  BY DEF rows
<1>4. LocksProtect'
  BY <1>3, QuietKeepsLocks
<1>5. QED
  BY <1>1, <1>2, <1>4 DEF Ind

\* The end of a transaction, whose writes keep the types and leave alone the
\* schedules others have locked.
LEMMA LeavingKeepsInd ==
  ASSUME Ind, NEW a \in Actors, Leave(a) \/ Goto(a, "idle", NoWork, NoFlag),
         \/ ReleaseLocks(a)
         \/ pc[a] \notin Holding /\ UNCHANGED locks,
         flag' \in Flags, sched' \in [Schedules -> ScheduleStatuses],
         stage' \in [Schedules -> [Stages -> StageStatuses]],
         ripe' \in [Schedules -> [Stages -> BOOLEAN]],
         over' \in [Schedules -> BOOLEAN],
         capped' \in Percentages \cup {NoCap}, faults' \in 0..MaxFaults,
         todo' \in [Runners -> SUBSET Schedules],
         \A b \in Actors \ {a} : pc[b] = "start"
            => sched'[work[b].sched] = sched[work[b].sched]
  PROVE  Ind'
<1>1. PICK step \in {"idle", "next"} : /\ step \in Steps \ Holding
                                      /\ Goto(a, step, NoWork, NoFlag)
                                      /\ Fits(step, NoWork)
  <2>1. CASE Leave(a)
    BY <2>1, LeaveIsGoto
  <2>2. CASE Goto(a, "idle", NoWork, NoFlag)
    BY <2>2 DEF Steps, Holding, Fits
  <2>3. QED
    BY <2>1, <2>2
<1>2. NoWork \in Works /\ NoFlag \in Flags
  BY WorkTypes
<1>3. WorkFits'
  BY <1>1, <1>2, GotoFits
<1>4. /\ flagLock' \in Actors \cup {NoOne}
      /\ schedLock' \in [Schedules -> Actors \cup {NoOne}]
  BY ReleaseSets DEF Ind, TypeOK, locks
<1>5. TypeOK'
  BY <1>1, <1>2, <1>4, GotoSets DEF Ind, TypeOK
<1>6. LocksProtect'
  <2>1. CASE ReleaseLocks(a)
    BY <2>1, <1>1, <1>2, LeaveKeepsLocks
  <2>2. CASE pc[a] \notin Holding /\ UNCHANGED locks
    BY <2>2, <1>1, <1>2, QuietKeepsLocks
  <2>3. QED
    BY <2>1, <2>2
<1>7. QED
  BY <1>3, <1>5, <1>6 DEF Ind

\* Shared by the steps below: blank variables, and the flags a step may leave.
LEMMA Blanks ==
  ASSUME Ind
  PROVE  /\ NoWork \in Works /\ NoFlag \in Flags
         /\ flag \in Flags /\ flag.status \in FlagStatuses
         /\ flag.pct \in Percentages
         /\ \A a \in Actors : /\ seen[a] \in Flags /\ work[a] \in Works
                             /\ seen[a].pct \in Percentages
                             /\ work[a].pct \in Percentages
                             /\ work[a].begin \in Stages \cup {0}
         /\ \A st \in FlagStatuses, p \in Percentages :
              [status |-> st, pct |-> p] \in Flags
         /\ \A p \in Percentages : [flag EXCEPT !.pct = p] \in Flags
<1>1. NoWork \in Works /\ NoFlag \in Flags
  BY WorkTypes
<1>2. flag \in Flags /\ \A a \in Actors : seen[a] \in Flags /\ work[a] \in Works
  BY DEF Ind, TypeOK
<1>3. QED
  BY <1>1, <1>2 DEF Flags, Works

LEMMA TickReads ==
  ASSUME Ind, NEW t \in Runners, TickLoad(t) \/ TickRead(t) \/ TickPlan(t)
  PROVE  Ind'
<1> USE Blanks
<1>1. t \in Actors /\ todo \in [Runners -> SUBSET Schedules]
  BY DEF Actors, Ind, TypeOK
<1>2. {"idle", "next", "plan", "complete", "lockFlag"} \subseteq Steps \ Holding
  BY DEF Steps, Holding
<1>3. CASE TickLoad(t)
  <2>1. /\ pc[t] \notin Holding /\ Goto(t, "next", NoWork, NoFlag)
        /\ UNCHANGED <<rows, locks, faults>>
        /\ todo' \in [Runners -> SUBSET Schedules]
        /\ Fits("next", NoWork)
    BY <1>1, <1>3 DEF TickLoad, Holding, Fits
  <2>2. QED
    BY <1>1, <1>2, <2>1, ReadsKeepInd
<1>4. CASE TickRead(t)
  <2>1. /\ pc[t] \notin Holding /\ UNCHANGED <<rows, locks, faults>>
        /\ todo' \in [Runners -> SUBSET Schedules]
    BY <1>1, <1>4 DEF TickRead, Holding
  <2>2. CASE Goto(t, "idle", NoWork, NoFlag)
    BY <1>1, <1>2, <2>1, <2>2, ReadsKeepInd DEF Fits
  <2>3. ASSUME NEW s \in Schedules, NEW cur \in Stages \cup {0},
               Goto(t, "plan", [NoWork EXCEPT !.sched = s, !.done = cur], NoFlag)
        PROVE  Ind'
    <3> DEFINE w == [NoWork EXCEPT !.sched = s, !.done = cur]
    <3>1. w \in Works /\ Fits("plan", w)
      BY WorkTypes DEF Fits
    <3> HIDE DEF w
    <3>2. Goto(t, "plan", w, NoFlag)
      BY <2>3 DEF w
    <3>3. QED
      BY <1>1, <1>2, <2>1, <3>1, <3>2, ReadsKeepInd
  <2>4. \/ Goto(t, "idle", NoWork, NoFlag)
        \/ \E s \in Schedules, cur \in Stages \cup {0} :
             Goto(t, "plan", [NoWork EXCEPT !.sched = s, !.done = cur], NoFlag)
    <3>1. /\ todo[t] \in SUBSET Schedules /\ todo[t] \in SUBSET Nat
      BY <1>1, ScheduleAssumption
    <3>2. todo[t] = {} \/ Min(todo[t]) \in Schedules
      BY <3>1, MinIn
    <3>3. QED
      BY <1>4, <3>2 DEF TickRead, InState
  <2>5. QED
    BY <2>2, <2>3, <2>4
<1>5. CASE TickPlan(t)
  <2> DEFINE next == NextStage(work[t].done, InState(work[t].sched, "PENDING"))
             planned == [work[t] EXCEPT !.begin = next]
  <2>1. /\ pc[t] = "plan" /\ UNCHANGED <<rows, locks, todo, faults>>
        /\ work[t].sched \in Schedules
    BY <1>1, <1>5 DEF TickPlan, Ind, WorkFits, Fits
  <2>2. next \in Stages \cup {0}
    BY NextStageIn DEF InState
  <2>3. planned \in Works /\ planned.sched = work[t].sched
    BY <1>1, <2>2 DEF Works
  <2>4. \/ Leave(t) \/ Goto(t, "lockFlag", planned, NoFlag)
        \/ Goto(t, "complete", work[t], NoFlag)
    BY <1>5 DEF TickPlan
  <2> HIDE DEF planned
  <2>5. /\ Fits("lockFlag", planned) /\ Fits("complete", work[t])
        /\ pc[t] \notin Holding /\ todo' \in [Runners -> SUBSET Schedules]
    BY <1>1, <2>1, <2>3 DEF Fits, Holding
  <2>6. CASE Leave(t)
    <3>1. PICK step \in {"idle", "next"} : /\ step \in Steps \ Holding
                                          /\ Goto(t, step, NoWork, NoFlag)
                                          /\ Fits(step, NoWork)
      BY <1>1, <2>6, LeaveIsGoto
    <3>2. QED
      BY <1>1, <2>1, <2>5, <3>1, ReadsKeepInd
  <2>7. CASE Goto(t, "lockFlag", planned, NoFlag)
    BY <1>1, <1>2, <2>1, <2>3, <2>5, <2>7, ReadsKeepInd
  <2>8. CASE Goto(t, "complete", work[t], NoFlag)
    BY <1>1, <1>2, <2>1, <2>5, <2>8, ReadsKeepInd
  <2>9. QED
    BY <2>4, <2>6, <2>7, <2>8
<1>6. QED
  BY <1>3, <1>4, <1>5

LEMMA RollbackReads ==
  ASSUME Ind, NEW a \in Actors,
         \/ a \in Monitors /\ (MonitorLoad(a) \/ MonitorCheck(a))
         \/ a \in Requests /\ RequestRollback(a)
  PROVE  Ind'
<1> USE Blanks
<1>1. {"idle", "check", "lockRollback"} \subseteq Steps \ Holding
  BY DEF Steps, Holding
<1>2. /\ pc[a] \notin Holding /\ UNCHANGED <<rows, locks, faults>>
      /\ todo' \in [Runners -> SUBSET Schedules]
  BY DEF MonitorLoad, MonitorCheck, RequestRollback, Holding, Ind, TypeOK
<1>3. \/ Goto(a, "check", NoWork, flag) \/ Goto(a, "idle", NoWork, NoFlag)
      \/ \E p \in Percentages, f \in Flags :
           Goto(a, "lockRollback", [NoWork EXCEPT !.pct = p], f)
  BY DEF MonitorLoad, MonitorCheck, RequestRollback
<1>4. CASE Goto(a, "check", NoWork, flag) \/ Goto(a, "idle", NoWork, NoFlag)
  BY <1>1, <1>2, <1>4, ReadsKeepInd DEF Fits
<1>5. ASSUME NEW p \in Percentages, NEW f \in Flags,
             Goto(a, "lockRollback", [NoWork EXCEPT !.pct = p], f)
      PROVE  Ind'
  <2>1. [NoWork EXCEPT !.pct = p] \in Works
    BY WorkTypes
  <2>2. Fits("lockRollback", [NoWork EXCEPT !.pct = p])
    BY DEF Fits
  <2>3. QED
    BY <1>1, <1>2, <1>5, <2>1, <2>2, ReadsKeepInd
<1>6. QED
  BY <1>3, <1>4, <1>5

LEMMA RequestReads ==
  ASSUME Ind, NEW q \in Requests,
         \/ ReadStatus(q) \/ ReadPercentage(q) \/ ReadSchedule(q)
         \/ RequestAdvance(q) \/ ReadStage(q)
  PROVE  Ind'
<1> USE Blanks
<1>1. /\ {"idle", "writeStatus", "writePercentage", "writeSchedule", "readStage", "lockFlag"}
           \subseteq Steps \ Holding
      /\ q \in Actors
  BY DEF Steps, Holding, Actors
<1>2. /\ pc[q] \notin Holding /\ UNCHANGED <<rows, locks, faults>>
      /\ todo' \in [Runners -> SUBSET Schedules]
  BY DEF ReadStatus, ReadPercentage, ReadSchedule, RequestAdvance, ReadStage,
         Holding, Ind, TypeOK
<1>3. CASE ReadStatus(q)
  <2>1. \A verb \in Verbs : Transition(flag.status, verb) \in FlagStatuses
    BY DEF Transition, FlagStatuses, Verbs
  <2>2. PICK st \in FlagStatuses :
          Goto(q, "writeStatus", [NoWork EXCEPT !.status = st], flag)
    BY <1>3, <2>1 DEF ReadStatus
  <2> DEFINE w == [NoWork EXCEPT !.status = st]
  <2>3. w \in Works /\ w.status = st /\ Goto(q, "writeStatus", w, flag)
    BY <2>2, WorkTypes
  <2> HIDE DEF w
  <2>4. Fits("writeStatus", w)
    BY <2>3 DEF Fits
  <2>5. QED
    BY <1>1, <1>2, <2>3, <2>4, ReadsKeepInd
<1>8. CASE ReadPercentage(q)
  <2>1. PICK p \in Percentages :
          Goto(q, "writePercentage", [NoWork EXCEPT !.pct = p], flag)
    BY <1>8 DEF ReadPercentage
  <2>2. /\ [NoWork EXCEPT !.pct = p] \in Works
        /\ Fits("writePercentage", [NoWork EXCEPT !.pct = p])
    BY WorkTypes DEF Fits
  <2>3. QED
    BY <1>1, <1>2, <2>1, <2>2, ReadsKeepInd
<1>4. CASE ReadSchedule(q)
  <2>1. PICK s \in Schedules, st \in ScheduleStatuses :
          /\ Goto(q, "writeSchedule", [NoWork EXCEPT !.sched = s, !.status = st], NoFlag)
          /\ <<sched[s], st>> \in ScheduleMoves
    BY <1>4 DEF ReadSchedule
  <2> DEFINE w == [NoWork EXCEPT !.sched = s, !.status = st]
  <2>2. /\ w \in Works /\ w.sched = s /\ w.status = st
        /\ Goto(q, "writeSchedule", w, NoFlag)
    BY <2>1, WorkTypes
  <2> HIDE DEF w
  <2>3. Fits("writeSchedule", w)
    BY <2>1, <2>2 DEF Fits, ScheduleMoves
  <2>4. QED
    BY <1>1, <1>2, <2>2, <2>3, ReadsKeepInd
<1>5. CASE RequestAdvance(q)
  BY <1>1, <1>2, <1>5, ReadsKeepInd DEF RequestAdvance, Fits
<1>6. CASE ReadStage(q)
  <2>1. CASE Leave(q)
    <3>1. PICK step \in {"idle", "next"} : /\ step \in Steps \ Holding
                                          /\ Goto(q, step, NoWork, NoFlag)
                                          /\ Fits(step, NoWork)
      BY <1>1, <2>1, LeaveIsGoto
    <3>2. QED
      BY <1>1, <1>2, <3>1, ReadsKeepInd
  <2>2. ASSUME NEW s \in Schedules, NEW i \in Stages,
               Goto(q, "lockFlag",
                    [NoWork EXCEPT !.sched = s, !.done = i, !.read = stage[s][i]],
                    seen[q])
        PROVE  Ind'
    <3> DEFINE w == [NoWork EXCEPT !.sched = s, !.done = i, !.read = stage[s][i]]
    <3>1. stage[s][i] \in StageStatuses
      BY DEF Ind, TypeOK
    <3>2. w \in Works /\ Fits("lockFlag", w) /\ Goto(q, "lockFlag", w, seen[q])
      BY <2>2, <3>1, WorkTypes DEF Fits
    <3> HIDE DEF w
    <3>3. QED
      BY <1>1, <1>2, <3>2, ReadsKeepInd
  <2>3. QED
    BY <1>6, <2>1, <2>2 DEF ReadStage
<1>7. QED
  BY <1>3, <1>4, <1>5, <1>6, <1>8

\* Taking a row lock.
LEMMA LockStepKeepsInd ==
  ASSUME Ind, NEW a \in Actors, LockStep(a)
  PROVE  Ind'
<1> USE Blanks
<1>1. CASE LockFlag(a)
  <2>1. /\ Goto(a, "lockSchedule", work[a], seen[a]) /\ flagLock' = a
        /\ pc[a] = "lockFlag" /\ flagLock = NoOne
        /\ UNCHANGED <<rows, schedLock, todo, faults>>
        /\ "lockSchedule" \in Steps /\ Fits("lockSchedule", work[a])
    BY <1>1 DEF LockFlag, Steps, Ind, WorkFits, Fits
  <2>2. TypeOK'
    BY <2>1, GotoSets DEF Ind, TypeOK, rows
  <2>3. WorkFits'
    BY <2>1, GotoFits
  <2>4. LocksProtect'
    <3>1. /\ work'[a] = work[a]
          /\ \A b \in Actors \ {a} : pc'[b] = pc[b] /\ work'[b] = work[b]
      BY <2>1, GotoSets DEF Ind
    <3>2. pc'[a] = "lockSchedule" /\ sched' = sched /\ schedLock' = schedLock
      BY <2>1, GotoSets DEF Ind, rows
    <3>3. \A b \in Actors : pc'[b] \in Holding <=> flagLock' = b
      BY <2>1, <3>1, <3>2, ActorsAssumption DEF Ind, LocksProtect, Holding
    <3>4. \A s \in Schedules, b \in Actors :
            schedLock'[s] = b <=> pc'[b] = "start" /\ work'[b].sched = s
      BY <2>1, <3>1, <3>2 DEF Ind, LocksProtect
    <3>5. \A b \in Actors : pc'[b] = "start" => sched'[work'[b].sched] = "ACTIVE"
      BY <3>1, <3>2 DEF Ind, LocksProtect
    <3>6. QED
      BY <3>3, <3>4, <3>5 DEF LocksProtect
  <2>5. QED
    BY <2>2, <2>3, <2>4 DEF Ind
<1>2. CASE LockForRollback(a)
  <2> DEFINE f == IF a \in Monitors THEN seen[a] ELSE flag
  <2>1. /\ Goto(a, "rollback", work[a], f) /\ flagLock' = a
        /\ pc[a] = "lockRollback" /\ flagLock = NoOne /\ f \in Flags
        /\ UNCHANGED <<rows, schedLock, todo, faults>>
        /\ "rollback" \in Steps /\ Fits("rollback", work[a])
    BY <1>2 DEF LockForRollback, Steps, Fits
  <2> HIDE DEF f
  <2>2. TypeOK'
    BY <2>1, GotoSets DEF Ind, TypeOK, rows
  <2>3. WorkFits'
    BY <2>1, GotoFits
  <2>4. LocksProtect'
    <3>1. /\ work'[a] = work[a]
          /\ \A b \in Actors \ {a} : pc'[b] = pc[b] /\ work'[b] = work[b]
      BY <2>1, GotoSets DEF Ind
    <3>2. pc'[a] = "rollback" /\ sched' = sched /\ schedLock' = schedLock
      BY <2>1, GotoSets DEF Ind, rows
    <3>3. \A b \in Actors : pc'[b] \in Holding <=> flagLock' = b
      BY <2>1, <3>1, <3>2, ActorsAssumption DEF Ind, LocksProtect, Holding
    <3>4. \A s \in Schedules, b \in Actors :
            schedLock'[s] = b <=> pc'[b] = "start" /\ work'[b].sched = s
      BY <2>1, <3>1, <3>2 DEF Ind, LocksProtect
    <3>5. \A b \in Actors : pc'[b] = "start" => sched'[work'[b].sched] = "ACTIVE"
      BY <3>1, <3>2 DEF Ind, LocksProtect
    <3>6. QED
      BY <3>3, <3>4, <3>5 DEF LocksProtect
  <2>5. QED
    BY <2>2, <2>3, <2>4 DEF Ind
<1>3. CASE LockSchedule(a)
  <2>1. CASE sched[work[a].sched] = "ACTIVE"
    <3>1. /\ Goto(a, "start", work[a], seen[a]) /\ pc[a] = "lockSchedule"
          /\ schedLock[work[a].sched] = NoOne
          /\ schedLock' = [schedLock EXCEPT ![work[a].sched] = a]
          /\ UNCHANGED <<rows, flagLock, todo, faults>>
          /\ "start" \in Steps /\ Fits("start", work[a])
          /\ work[a].sched \in Schedules
      BY <1>3, <2>1 DEF LockSchedule, Steps, Ind, WorkFits, Fits
    <3>2. TypeOK'
      BY <3>1, GotoSets DEF Ind, TypeOK, rows
    <3>3. WorkFits'
      BY <3>1, GotoFits
    <3>4. LocksProtect'
      <4>1. /\ pc'[a] = "start" /\ work'[a] = work[a]
            /\ \A b \in Actors \ {a} : pc'[b] = pc[b] /\ work'[b] = work[b]
        BY <3>1, GotoSets DEF Ind
      <4>2. /\ schedLock'[work[a].sched] = a
            /\ \A s \in Schedules \ {work[a].sched} : schedLock'[s] = schedLock[s]
        BY <3>1 DEF Ind, TypeOK
      <4>3. \A b \in Actors : pc'[b] \in Holding <=> flagLock' = b
        BY <3>1, <4>1 DEF Ind, LocksProtect, Holding
      <4>4. \A s \in Schedules, b \in Actors :
              schedLock'[s] = b <=> pc'[b] = "start" /\ work'[b].sched = s
        BY <3>1, <4>1, <4>2, ActorsAssumption DEF Ind, LocksProtect
      <4>5. \A b \in Actors : pc'[b] = "start" => sched'[work'[b].sched] = "ACTIVE"
        BY <2>1, <3>1, <4>1 DEF Ind, LocksProtect, rows
      <4>6. QED
        BY <4>3, <4>4, <4>5 DEF LocksProtect
    <3>5. QED
      BY <3>2, <3>3, <3>4 DEF Ind
  <2>2. CASE sched[work[a].sched] # "ACTIVE"
    BY <1>3, <2>2, LeavingKeepsInd DEF LockSchedule, Ind, TypeOK, rows
  <2>3. QED
    BY <2>1, <2>2
<1>4. QED
  BY <1>1, <1>2, <1>3 DEF LockStep

\* Only the holder of the flag's lock starts stages: two actors never do.
LEMMA OneStarter ==
  ASSUME Ind, NEW a \in Actors, NEW b \in Actors \ {a}, pc[a] \in Holding
  PROVE  pc[b] # "start"
  BY DEF Ind, LocksProtect, Holding

\* The commits of ticks and advances, under both locks or (TickComplete) none.
LEMMA StageWrites ==
  ASSUME Ind, NEW a \in Actors,
         \/ a \in Runners /\ (TickComplete(a) \/ TickStart(a))
         \/ a \in Requests /\ Advance(a)
  PROVE  Ind'
<1> USE Blanks
<1>1. CASE a \in Runners /\ TickComplete(a)
  <2>1. stage' \in [Schedules -> [Stages -> StageStatuses]]
    BY <1>1 DEF TickComplete, Ind, TypeOK, StageStatuses
  <2>2. QED
    BY <1>1, <2>1, LeavingKeepsInd DEF TickComplete, Ind, TypeOK, Holding
<1>2. CASE a \in Runners /\ TickStart(a)
  <2>1. /\ work[a].sched \in Schedules /\ pc[a] \in Holding
        /\ MoveStages(work[a].sched, work[a].done, work[a].begin)
        /\ ReleaseLocks(a) /\ Leave(a) /\ UNCHANGED <<over, capped, todo, faults>>
    BY <1>2 DEF TickStart, Ind, WorkFits, Fits, Holding
  <2>2. flag' \in Flags
    BY <1>2, TargetIn DEF TickStart
  <2>3. /\ sched' \in [Schedules -> ScheduleStatuses]
        /\ stage' \in [Schedules -> [Stages -> StageStatuses]]
        /\ ripe' \in [Schedules -> [Stages -> BOOLEAN]]
    BY <2>1, MoveSets DEF Ind
  <2>4. QED
    BY <2>1, <2>2, <2>3, OneStarter, LeavingKeepsInd DEF Ind, TypeOK
<1>3. CASE a \in Requests /\ Advance(a)
  <2> DEFINE s == work[a].sched
             later == {j \in InState(s, "PENDING") : j > work[a].done}
             begin == IF work[a].read = "PENDING" THEN work[a].done
                      ELSE IF later = {} THEN 0 ELSE Min(later)
  <2>1. /\ s \in Schedules /\ pc[a] \in Holding
        /\ MoveStages(s, work[a].done, begin)
        /\ ReleaseLocks(a) /\ Leave(a) /\ UNCHANGED <<over, capped, todo, faults>>
    BY <1>3 DEF Advance, Ind, WorkFits, Fits, Holding
  <2>2. begin \in Stages \cup {0}
    <3>1. later \in SUBSET Stages /\ \A i \in Stages : i \in Nat
      BY NumbersAssumption DEF InState, Stages
    <3>2. later = {} \/ Min(later) \in later
      BY <3>1, MinIn
    <3>3. QED
      BY <3>1, <3>2 DEF Works
  <2>3. flag' \in Flags
    <3>1. flag' = IF begin = 0 THEN flag
                  ELSE [flag EXCEPT !.pct =
                          Flushed(Target(begin), seen[a].pct, flag.pct)]
      BY <1>3 DEF Advance
    <3> HIDE DEF begin
    <3>2. QED
      BY <2>2, <3>1, TargetIn DEF Flushed
  <2>4. /\ sched' \in [Schedules -> ScheduleStatuses]
        /\ stage' \in [Schedules -> [Stages -> StageStatuses]]
        /\ ripe' \in [Schedules -> [Stages -> BOOLEAN]]
    BY <2>1, MoveSets DEF Ind
  <2>5. QED
    BY <2>1, <2>3, <2>4, OneStarter, LeavingKeepsInd DEF Ind, TypeOK
<1>4. QED
  BY <1>1, <1>2, <1>3

LEMMA RollbackKeepsInd ==
  ASSUME Ind, NEW a \in Actors, Rollback(a)
  PROVE  Ind'
<1> USE Blanks
<1>1. /\ pc[a] \in Holding /\ ReleaseLocks(a) /\ Leave(a)
      /\ UNCHANGED <<todo, faults>>
  BY DEF Rollback, Holding
<1>2. /\ flag' \in Flags
      /\ sched' \in [Schedules -> ScheduleStatuses]
      /\ stage' = stage /\ ripe' = ripe /\ over' = over
      /\ capped' \in Percentages \cup {NoCap}
  <2>1. CASE UNCHANGED rows
    BY <2>1 DEF rows, Ind, TypeOK
  <2>2. CASE ~UNCHANGED rows
    BY <2>2 DEF Rollback, Ind, TypeOK, FlagStatuses, ScheduleStatuses, Flushed
  <2>3. QED
    BY <2>1, <2>2
<1>3. QED
  BY <1>1, <1>2, OneStarter, LeavingKeepsInd DEF Ind, TypeOK

\* The commits of status, percentage and schedule requests wait for row locks.
LEMMA CommitKeepsInd ==
  ASSUME Ind, NEW q \in Requests, CommitStep(q)
  PROVE  Ind'
<1> USE Blanks
<1>1. q \in Actors
  BY DEF Actors
<1>2. CASE WriteStatus(q)
  <2>1. flag' \in Flags
    BY <1>1, <1>2 DEF WriteStatus, Ind, WorkFits, Fits, Flags
  <2>2. QED
    BY <1>1, <1>2, <2>1, LeavingKeepsInd DEF WriteStatus, Ind, TypeOK, Holding
<1>5. CASE WritePercentage(q)
  <2>1. flag' \in Flags
    BY <1>1, <1>5 DEF WritePercentage
  <2>2. QED
    BY <1>1, <1>5, <2>1, LeavingKeepsInd DEF WritePercentage, Ind, TypeOK, Holding
<1>3. CASE WriteSchedule(q)
  <2>1. /\ work[q].sched \in Schedules /\ work[q].status \in ScheduleStatuses
        /\ schedLock[work[q].sched] = NoOne
    BY <1>1, <1>3 DEF WriteSchedule, Ind, WorkFits, Fits, ScheduleStatuses
  <2>2. /\ sched' \in [Schedules -> ScheduleStatuses]
        /\ capped' \in Percentages \cup {NoCap}
        /\ \A s \in Schedules \ {work[q].sched} : sched'[s] = sched[s]
    BY <1>3, <2>1 DEF WriteSchedule, Ind, TypeOK
  <2>3. \A b \in Actors : pc[b] = "start" => work[b].sched # work[q].sched
    BY <2>1, ActorsAssumption DEF Ind, LocksProtect
  <2>4. \A b \in Actors : pc[b] = "start" => work[b].sched \in Schedules
    BY DEF Ind, WorkFits, Fits
  <2>5. QED
    BY <1>1, <1>3, <2>2, <2>3, <2>4, LeavingKeepsInd
       DEF WriteSchedule, Ind, TypeOK, Holding
<1>4. QED
  BY <1>2, <1>3, <1>5 DEF CommitStep

LEMMA FaultsKeepInd ==
  ASSUME Ind, NEW a \in Actors, (a \in Runners /\ TickFail(a)) \/ Crash(a)
  PROVE  Ind'
<1>1. faults' \in 0..MaxFaults
  BY NumbersAssumption DEF TickFail, Crash, Ind, TypeOK
<1>2. QED
  BY <1>1, LeavingKeepsInd DEF TickFail, Crash, Ind, TypeOK, rows

LEMMA RipenKeepsInd ==
  ASSUME Ind, NEW s \in Schedules, NEW i \in Stages, Ripen(s, i)
  PROVE  Ind'
<1>1. TypeOK'
  BY DEF Ripen, Ind, TypeOK, locks
<1>2. WorkFits' /\ LocksProtect'
  BY DEF Ripen, Ind, WorkFits, Fits, LocksProtect, locks
<1>3. QED
  BY <1>1, <1>2 DEF Ind

LEMMA PassEndKeepsInd ==
  ASSUME Ind, NEW s \in Schedules, PassEnd(s)
  PROVE  Ind'
<1>1. TypeOK'
  BY DEF PassEnd, Ind, TypeOK, locks
<1>2. WorkFits' /\ LocksProtect'
  BY DEF PassEnd, Ind, WorkFits, Fits, LocksProtect, locks
<1>3. QED
  BY <1>1, <1>2 DEF Ind

LEMMA NextInd == Ind /\ [Next]_vars => Ind'
<1> SUFFICES ASSUME Ind, [Next]_vars PROVE Ind'
  OBVIOUS
<1>1. CASE UNCHANGED vars
  BY <1>1 DEF vars, Ind, TypeOK, WorkFits, Fits, LocksProtect
<1>2. ASSUME NEW t \in Runners, TickLoad(t) \/ TickStep(t) \/ TickFail(t)
      PROVE  Ind'
  BY <1>2, TickReads, StageWrites, FaultsKeepInd DEF TickStep, Actors
<1>3. ASSUME NEW m \in Monitors, MonitorLoad(m) \/ MonitorCheck(m)
      PROVE  Ind'
  BY <1>3, RollbackReads DEF Actors
<1>4. ASSUME NEW q \in Requests, RequestStart(q) \/ RequestStep(q) \/ CommitStep(q)
      PROVE  Ind'
  BY <1>4, RequestReads, RollbackReads, StageWrites, CommitKeepsInd
     DEF RequestStart, RequestStep, Actors
<1>5. ASSUME NEW a \in Actors, LockStep(a) \/ Rollback(a) \/ Crash(a)
      PROVE  Ind'
  BY <1>5, LockStepKeepsInd, RollbackKeepsInd, FaultsKeepInd
<1>6. ASSUME NEW s \in Schedules, NEW i \in Stages, Ripen(s, i) PROVE Ind'
  BY <1>6, RipenKeepsInd
<1>7. ASSUME NEW s \in Schedules, PassEnd(s) PROVE Ind'
  BY <1>7, PassEndKeepsInd
<1>8. QED
  BY <1>1, <1>2, <1>3, <1>4, <1>5, <1>6, <1>7 DEF Next

-----------------------------------------------------------------------------
(* What a step does to the flag and its schedules                          *)

\* Nothing, except that a stage may be completed.
NoEffect == /\ UNCHANGED <<flag, sched, capped>>
            /\ \A s \in Schedules, i \in Stages :
                 stage'[s][i] = "IN_PROGRESS" => stage[s][i] = "IN_PROGRESS"

\* A stage of an ACTIVE schedule starts, or the schedule ends.
StartEffect ==
  /\ flag' \in Flags /\ capped' = capped
  /\ \E s \in Schedules : /\ sched[s] = "ACTIVE"
                          /\ \A r \in Schedules \ {s} :
                               sched'[r] = sched[r] /\ stage'[r] = stage[r]

\* A rollback: every schedule is stopped, the percentage set to the target
\* (or, turned off with a stale copy, left as it was).
RollbackEffect ==
  /\ flag' \in Flags /\ capped' \in Percentages /\ stage' = stage
  /\ flag'.pct = capped' \/ (capped' = 0 /\ flag'.pct = flag.pct)
  /\ \A s \in Schedules : sched'[s] # "ACTIVE" /\ sched'[s] \in {sched[s], "PAUSED"}

\* A request writes the flag.
HandEffect ==
  /\ flag' \in Flags /\ UNCHANGED <<sched, stage>>
  /\ capped' = NoCap \/ (capped' = capped /\ flag'.pct = flag.pct)

\* A request writes a schedule.
ScheduleEffect ==
  /\ UNCHANGED <<flag, stage>>
  /\ \E s \in Schedules, new \in {"ACTIVE", "PAUSED", "CANCELLED"} :
       /\ sched' = [sched EXCEPT ![s] = new]
       /\ capped' = IF new = "ACTIVE" THEN NoCap ELSE capped

Effect == NoEffect \/ StartEffect \/ RollbackEffect \/ HandEffect \/ ScheduleEffect

LEMMA StageEffect ==
  ASSUME Ind, Ind', NEW a \in Actors,
         \/ a \in Runners /\ TickStart(a)
         \/ a \in Requests /\ Advance(a)
  PROVE  StartEffect
<1> DEFINE s == work[a].sched
<1>1. pc[a] = "start" /\ s \in Schedules /\ sched[s] = "ACTIVE"
  BY DEF TickStart, Advance, Ind, WorkFits, Fits, LocksProtect
<1>2. /\ capped' = capped /\ flag' \in Flags
      /\ \E done, begin : MoveStages(s, done, begin)
  BY DEF TickStart, Advance, Ind, TypeOK
<1>3. \A r \in Schedules \ {s} : sched'[r] = sched[r] /\ stage'[r] = stage[r]
  BY <1>1, <1>2 DEF MoveStages, Ind, TypeOK
<1>4. QED
  BY <1>1, <1>2, <1>3 DEF StartEffect

LEMMA RollbackHasEffect ==
  ASSUME Ind, Ind', NEW a \in Actors, Rollback(a)
  PROVE  NoEffect \/ RollbackEffect
<1> USE Blanks
<1>1. CASE UNCHANGED rows
  BY <1>1 DEF rows, NoEffect
<1>2. CASE ~UNCHANGED rows
  <2> DEFINE change == RollbackChange(seen[a], work[a].pct)
  <2>1. /\ change # "nothing" /\ stage' = stage /\ capped' = work[a].pct
        /\ sched' = [s \in Schedules |->
                       IF sched[s] = "ACTIVE" THEN "PAUSED" ELSE sched[s]]
        /\ flag'.pct = Flushed(work[a].pct, seen[a].pct, flag.pct)
    BY <1>2 DEF Rollback
  <2>2. flag' \in Flags
    BY DEF Ind, TypeOK
  <2>3. flag'.pct = capped' \/ (capped' = 0 /\ flag'.pct = flag.pct)
    BY <2>1 DEF RollbackChange, Flushed, Percentages
  <2>4. QED
    BY <2>1, <2>2, <2>3 DEF RollbackEffect
<1>3. QED
  BY <1>1, <1>2

LEMMA CommitEffect ==
  ASSUME Ind, Ind', NEW q \in Requests, CommitStep(q)
  PROVE  HandEffect \/ ScheduleEffect
<1>1. q \in Actors
  BY DEF Actors
<1>2. CASE WriteStatus(q) \/ WritePercentage(q)
  BY <1>2 DEF WriteStatus, WritePercentage, HandEffect, Ind, TypeOK, Flags
<1>3. CASE WriteSchedule(q)
  BY <1>1, <1>3 DEF WriteSchedule, ScheduleEffect, Ind, WorkFits, Fits
<1>4. QED
  BY <1>2, <1>3 DEF CommitStep

LEMMA NextEffect == Ind /\ Ind' /\ [Next]_vars => Effect
<1> SUFFICES ASSUME Ind, Ind', [Next]_vars PROVE Effect
  OBVIOUS
<1> USE DEF Effect
<1>1. CASE UNCHANGED vars
  BY <1>1 DEF vars, NoEffect
<1>2. ASSUME NEW t \in Runners, TickLoad(t) \/ TickStep(t) \/ TickFail(t)
      PROVE  Effect
  <2>1. CASE TickLoad(t) \/ TickRead(t) \/ TickPlan(t) \/ TickFail(t)
    BY <2>1 DEF TickLoad, TickRead, TickPlan, TickFail, rows, NoEffect
  <2>2. CASE TickComplete(t)
    <3>1. \A s \in Schedules, i \in Stages :
            stage'[s][i] \in {stage[s][i], "COMPLETED"}
      <4>1. /\ stage \in [Schedules -> [Stages -> StageStatuses]]
            /\ stage' = [stage EXCEPT ![work[t].sched][work[t].done] = "COMPLETED"]
        BY <2>2 DEF TickComplete, Ind, TypeOK
      <4>2. TAKE s \in Schedules, i \in Stages
      <4>3. CASE s = work[t].sched /\ i = work[t].done
        BY <4>1, <4>3
      <4>4. CASE s # work[t].sched \/ i # work[t].done
        BY <4>1, <4>4
      <4>5. QED
        BY <4>3, <4>4
    <3>2. UNCHANGED <<flag, sched, capped>>
      BY <2>2 DEF TickComplete
    <3>3. QED
      BY <3>1, <3>2 DEF NoEffect
  <2>3. CASE TickStart(t)
    BY <2>3, StageEffect DEF Actors
  <2>4. QED
    BY <1>2, <2>1, <2>2, <2>3 DEF TickStep
<1>3. ASSUME NEW m \in Monitors, MonitorLoad(m) \/ MonitorCheck(m)
      PROVE  Effect
  BY <1>3 DEF MonitorLoad, MonitorCheck, rows, NoEffect
<1>4. ASSUME NEW q \in Requests, RequestStart(q) \/ RequestStep(q) \/ CommitStep(q)
      PROVE  Effect
  <2>1. CASE RequestStart(q) \/ ReadStage(q)
    BY <2>1 DEF RequestStart, ReadStatus, ReadPercentage, ReadSchedule, RequestAdvance,
                RequestRollback, ReadStage, rows, NoEffect
  <2>2. CASE Advance(q)
    BY <2>2, StageEffect DEF Actors
  <2>3. QED
    BY <1>4, <2>1, <2>2, CommitEffect DEF RequestStep
<1>5. ASSUME NEW a \in Actors, LockStep(a) \/ Rollback(a) \/ Crash(a)
      PROVE  Effect
  <2>1. CASE LockStep(a) \/ Crash(a)
    BY <2>1 DEF LockStep, LockFlag, LockSchedule, LockForRollback, Crash, rows,
                NoEffect
  <2>2. QED
    BY <1>5, <2>1, RollbackHasEffect
<1>6. ASSUME NEW s \in Schedules, NEW i \in Stages, Ripen(s, i) PROVE Effect
  BY <1>6 DEF Ripen, NoEffect
<1>7. ASSUME NEW s \in Schedules, PassEnd(s) PROVE Effect
  BY <1>7 DEF PassEnd, NoEffect
<1>8. QED
  BY <1>1, <1>2, <1>3, <1>4, <1>5, <1>6, <1>7 DEF Next

\* A rollback in force has stopped every schedule, and nothing has taken the
\* percentage below its target.
Capped == /\ RollbackHolds
          /\ capped # NoCap => capped <= flag.pct

LEMMA InitCapped == Init => Capped
  BY DEF Init, Capped, RollbackHolds

LEMMA EffectCapped == Ind /\ Ind' /\ Capped /\ Effect => Capped'
<1> SUFFICES ASSUME Ind, Ind', Capped, Effect PROVE Capped'
  OBVIOUS
<1> USE DEF Capped, RollbackHolds
<1>1. CASE NoEffect
  BY <1>1 DEF NoEffect
<1>2. CASE StartEffect
  BY <1>2 DEF StartEffect
<1>3. CASE RollbackEffect
  <2>1. /\ flag'.pct \in Nat
        /\ \A s \in Schedules : sched'[s] # "ACTIVE"
        /\ flag'.pct = capped' \/ capped' = 0
    BY <1>3, NumbersAssumption DEF RollbackEffect, Flags, Percentages
  <2>2. QED
    BY <2>1
<1>4. CASE HandEffect
  BY <1>4 DEF HandEffect
<1>5. CASE ScheduleEffect
  BY <1>5 DEF ScheduleEffect, Ind, TypeOK
<1>6. QED
  BY <1>1, <1>2, <1>3, <1>4, <1>5 DEF Effect

-----------------------------------------------------------------------------
(* Theorems                                                                *)

LEMMA Invariance == Spec => [](Ind /\ Capped)
<1>1. Init => Ind /\ Capped
  BY InitInd, InitCapped
<1>2. Ind /\ Capped /\ [Next]_vars => (Ind /\ Capped)'
  BY NextInd, NextEffect, EffectCapped
<1>3. QED
  BY <1>1, <1>2, PTL DEF Spec

\* The flag, its schedules and their stages, the locks and every actor's
\* local variables keep their types.
THEOREM TypeCorrectness == Spec => []TypeOK
<1>1. Ind => TypeOK
  BY DEF Ind
<1>2. QED
  BY <1>1, Invariance, PTL

\* A tick or an advance that is about to start a stage holds both row locks
\* and its schedule is ACTIVE in the database (_lock_active_schedule).
THEOREM LocksAreProtection == Spec => []LocksProtect
<1>1. Ind => LocksProtect
  BY DEF Ind
<1>2. QED
  BY <1>1, Invariance, PTL

\* #629: a rollback stops every schedule of its flag, and they stay stopped
\* until somebody activates one or sets the percentage.
THEOREM RollbacksHold == Spec => []RollbackHolds
<1>1. Capped => RollbackHolds
  BY DEF Capped
<1>2. QED
  BY <1>1, Invariance, PTL

\* #629: no stage starts and no schedule completes unless the schedule is
\* ACTIVE in the database at the commit.
THEOREM PausesStop == Spec => PauseStopsStages
<1> DEFINE Stops ==
      \A s \in Schedules : sched[s] # "ACTIVE" =>
        /\ sched'[s] = "COMPLETED" => sched[s] = "COMPLETED"
        /\ \A i \in Stages : stage'[s][i] = "IN_PROGRESS"
                             => stage[s][i] = "IN_PROGRESS"
<1>1. Ind /\ Ind' /\ [Next]_vars => [Stops]_vars
  <2> SUFFICES ASSUME Ind, Effect PROVE Stops
    BY NextEffect
  <2>1. CASE NoEffect
    BY <2>1 DEF NoEffect
  <2>2. CASE StartEffect
    BY <2>2 DEF StartEffect
  <2>3. CASE RollbackEffect
    BY <2>3 DEF RollbackEffect
  <2>4. CASE HandEffect
    BY <2>4 DEF HandEffect
  <2>5. CASE ScheduleEffect
    BY <2>5 DEF ScheduleEffect, Ind, TypeOK
  <2>6. QED
    BY <2>1, <2>2, <2>3, <2>4, <2>5 DEF Effect
<1>2. QED
  BY <1>1, Invariance, PTL DEF Spec, PauseStopsStages

\* While a rollback is in force, only another rollback or a request that sets
\* the percentage can widen the rollout.
THEOREM NothingWidens == Spec => NoWideningAfterRollback
<1> DEFINE Narrow == capped # NoCap /\ capped' = capped => flag'.pct <= flag.pct
<1>1. Ind /\ Ind' /\ Capped /\ [Next]_vars => [Narrow]_vars
  <2> SUFFICES ASSUME Ind, Ind', Capped, Effect, capped # NoCap, capped' = capped
               PROVE  flag'.pct <= flag.pct
    BY NextEffect
  <2>1. flag.pct \in Nat /\ capped <= flag.pct
    BY NumbersAssumption DEF Ind, TypeOK, Flags, Percentages, Capped
  <2>2. CASE NoEffect \/ ScheduleEffect
    BY <2>1, <2>2 DEF NoEffect, ScheduleEffect
  <2>3. CASE StartEffect
    BY <2>3 DEF StartEffect, Capped, RollbackHolds
  <2>4. CASE RollbackEffect
    BY <2>1, <2>4 DEF RollbackEffect
  <2>5. CASE HandEffect
    BY <2>1, <2>5 DEF HandEffect
  <2>6. QED
    BY <2>2, <2>3, <2>4, <2>5 DEF Effect
<1>2. QED
  BY <1>1, Invariance, PTL DEF Spec, NoWideningAfterRollback

\* Ticks, rollbacks and requests together implement the contract RolloutCap.
THEOREM Refinement == Spec => ImplementsCap
<1> DEFINE running == {s \in Schedules : sched[s] = "ACTIVE"}
<1>1. Init => Cap!Init
  BY DEF Init, Cap!Init
<1>2. Ind /\ Ind' /\ Capped /\ [Next]_vars
      => [Cap!Next]_<<flag.pct, running, capped>>
  <2> SUFFICES ASSUME Ind, Ind', Capped, Effect
               PROVE  [Cap!Next]_<<flag.pct, running, capped>>
    BY NextEffect
  <2> USE DEF Cap!Next
  <2>1. flag'.pct \in Percentages
    BY DEF Ind, TypeOK, Flags
  <2>2. CASE NoEffect
    BY <2>2 DEF NoEffect
  <2>3. CASE StartEffect
    <3>1. running # {} /\ capped = NoCap /\ capped' = capped
      BY <2>3 DEF StartEffect, Capped, RollbackHolds
    <3>2. running' \subseteq running
      BY <2>3 DEF StartEffect
    <3>3. QED
      BY <2>1, <3>1, <3>2 DEF Cap!Advance
  <2>4. CASE RollbackEffect
    BY <2>1, <2>4 DEF RollbackEffect, Cap!Rollback
  <2>5. CASE HandEffect
    BY <2>1, <2>5 DEF HandEffect, Cap!SetByHand
  <2>6. CASE ScheduleEffect
    <3>1. PICK s \in Schedules, new \in {"ACTIVE", "PAUSED", "CANCELLED"} :
            /\ sched' = [sched EXCEPT ![s] = new]
            /\ capped' = IF new = "ACTIVE" THEN NoCap ELSE capped
      BY <2>6 DEF ScheduleEffect
    <3>2. flag' = flag /\ sched \in [Schedules -> ScheduleStatuses]
      BY <2>6 DEF ScheduleEffect, Ind, TypeOK
    <3>3. CASE new = "ACTIVE"
      <4>1. running' = running \cup {s}
        BY <3>1, <3>2, <3>3
      <4>2. QED
        BY <3>1, <3>2, <3>3, <4>1 DEF Cap!Resume
    <3>4. CASE new # "ACTIVE"
      <4>1. running' \subseteq running
        BY <3>1, <3>2, <3>4
      <4>2. QED
        BY <3>1, <3>2, <3>4, <4>1 DEF Cap!Stop
    <3>5. QED
      BY <3>3, <3>4
  <2>7. QED
    BY <2>2, <2>3, <2>4, <2>5, <2>6 DEF Effect
<1>3. QED
  BY <1>1, <1>2, Invariance, PTL DEF Spec, ImplementsCap, Cap!Spec

-----------------------------------------------------------------------------
(* How far a rollback reaches, and why row locks cause no deadlock         *)

\* A rollback that did not bring a copy of the flag to the lock has the flag
\* itself from there to its commit.
Fresh == \A a \in Actors \ Monitors : pc[a] = "rollback" => seen[a] = flag

\* A step that changes the flag is its own actor's: it has the row lock, or
\* finds it free.
LEMMA FlagWriters ==
  ASSUME Ind, [Next]_vars, flag' # flag, NEW a \in Actors, pc[a] \in Holding
  PROVE  /\ pc'[a] \notin Holding
         /\ pc[a] = "rollback" => Rollback(a)
<1>1. flagLock = a /\ a # NoOne
  BY ActorsAssumption DEF Ind, LocksProtect
<1>2. PICK b \in Actors :
        \/ b \in Runners /\ TickStart(b)
        \/ b \in Requests /\ (Advance(b) \/ WriteStatus(b) \/ WritePercentage(b))
        \/ Rollback(b)
  BY DEF Next, TickStep, LockStep, RequestStart, RequestStep, CommitStep, Actors,
         TickLoad, TickRead, TickPlan, TickComplete, TickFail, MonitorLoad, MonitorCheck,
         ReadStatus, ReadPercentage, ReadSchedule, RequestAdvance, RequestRollback,
         ReadStage, WriteSchedule, LockFlag, LockSchedule, LockForRollback, Crash,
         Ripen, PassEnd, rows, vars
<1>3. b = a /\ Leave(a) /\ (pc[a] = "rollback" => Rollback(a))
  BY <1>1, <1>2 DEF TickStart, Advance, WriteStatus, WritePercentage, Rollback,
                    Ind, LocksProtect, Holding
<1>4. QED
  BY <1>3, LeaveIsGoto, GotoSets, WorkTypes DEF Ind

\* An actor is at its rollback because it took the lock now, or still is.
LEMMA RollbackEntry ==
  ASSUME Ind, [Next]_vars, NEW a \in Actors, pc'[a] = "rollback"
  PROVE  LockForRollback(a) \/ (pc[a] = "rollback" /\ seen'[a] = seen[a])
<1>1. \/ UNCHANGED <<pc, seen>>
      \/ \E b \in Actors : LockForRollback(b)
      \/ \E b \in Actors, step \in Steps \ {"rollback"} :
           \E w, f : Goto(b, step, w, f)
  <2> DEFINE Elsewhere(b) == \E step \in Steps \ {"rollback"} :
                               \E w, f : Goto(b, step, w, f)
  <2>0. \A b : Leave(b) => Elsewhere(b)
    BY DEF Leave, Steps
  <2>1. ASSUME NEW t \in Runners, TickLoad(t) \/ TickStep(t) \/ TickFail(t)
        PROVE  Elsewhere(t)
    BY <2>0, <2>1 DEF TickLoad, TickStep, TickRead, TickPlan, TickComplete, TickStart,
                      TickFail, Steps
  <2>2. ASSUME NEW m \in Monitors, MonitorLoad(m) \/ MonitorCheck(m)
        PROVE  Elsewhere(m)
    BY <2>2 DEF MonitorLoad, MonitorCheck, Steps
  <2>3. ASSUME NEW q \in Requests, RequestStart(q) \/ RequestStep(q) \/ CommitStep(q)
        PROVE  Elsewhere(q)
    BY <2>0, <2>3
       DEF RequestStart, ReadStatus, ReadPercentage, ReadSchedule, RequestAdvance,
           RequestRollback, RequestStep, ReadStage, Advance, CommitStep, WriteStatus,
           WritePercentage, WriteSchedule, Steps
  <2>4. ASSUME NEW b \in Actors, LockStep(b) \/ Rollback(b) \/ Crash(b)
        PROVE  LockForRollback(b) \/ Elsewhere(b)
    BY <2>0, <2>4 DEF LockStep, LockFlag, LockSchedule, Rollback, Crash, Steps
  <2> HIDE DEF Elsewhere
  <2>5. UNCHANGED <<pc, seen>> \/ \E b \in Actors : LockForRollback(b) \/ Elsewhere(b)
    BY <2>1, <2>2, <2>3, <2>4 DEF Next, Ripen, PassEnd, vars, Actors
  <2>6. QED
    BY <2>5 DEF Elsewhere
<1>2. CASE UNCHANGED <<pc, seen>>
  BY <1>2
<1>3. ASSUME NEW b \in Actors, LockForRollback(b) PROVE LockForRollback(a)
                                 \/ (pc[a] = "rollback" /\ seen'[a] = seen[a])
  BY <1>3 DEF LockForRollback, Goto, Ind, TypeOK
<1>4. ASSUME NEW b \in Actors, NEW step \in Steps \ {"rollback"},
             \E w, f : Goto(b, step, w, f)
      PROVE  pc[a] = "rollback" /\ seen'[a] = seen[a]
  BY <1>4 DEF Goto, Ind, TypeOK
<1>5. QED
  BY <1>1, <1>2, <1>3, <1>4

LEMMA NextFresh == Ind /\ Fresh /\ [Next]_vars => Fresh'
<1> SUFFICES ASSUME Ind, Fresh, [Next]_vars,
                    NEW a \in Actors, a \notin Monitors, pc'[a] = "rollback"
             PROVE  seen'[a] = flag'
  BY DEF Fresh
<1>1. CASE LockForRollback(a)
  BY <1>1 DEF LockForRollback, Goto, rows, Ind, TypeOK
<1>2. CASE pc[a] = "rollback" /\ seen'[a] = seen[a]
  <2>1. flag' = flag
    BY <1>2, FlagWriters DEF Holding
  <2>2. QED
    BY <1>2, <2>1 DEF Fresh
<1>3. QED
  BY <1>1, <1>2, RollbackEntry

LEMMA FreshCopies == Spec => []Fresh
<1>1. Init => Fresh
  BY DEF Init, Fresh
<1>2. QED
  BY <1>1, NextFresh, Invariance, PTL DEF Spec

\* A manual rollback, which reads the flag under its row lock, never leaves an
\* active flag's percentage above its target, and what it writes is just that.
\* A safety rollback may (RollbackReachesTarget, the finding), since it brings
\* the copy it checked.
ManualRollbackReaches ==
  [][\A q \in Requests : Rollback(q) =>
       /\ flag.status = "ACTIVE" => flag'.pct <= work[q].pct
       /\ flag' # flag => flag'.pct = work[q].pct /\ capped' = flag'.pct]_vars

\* Whatever other requests, monitors and ticks write between a manual
\* rollback's arrival and its lock, it reaches its target.
THEOREM ManualRollbacksReach == Spec => ManualRollbackReaches
<1> DEFINE Reaches == \A q \in Requests : Rollback(q) =>
       /\ flag.status = "ACTIVE" => flag'.pct <= work[q].pct
       /\ flag' # flag => flag'.pct = work[q].pct /\ capped' = flag'.pct
<1>1. Ind /\ Fresh /\ [Next]_vars => [Reaches]_vars
  <2> SUFFICES ASSUME Ind, Fresh, [Next]_vars, NEW q \in Requests, Rollback(q)
               PROVE  /\ flag.status = "ACTIVE" => flag'.pct <= work[q].pct
                      /\ flag' # flag => flag'.pct = work[q].pct /\ capped' = flag'.pct
    OBVIOUS
  <2>1. /\ seen[q] = flag
        /\ flag.pct \in Int /\ work[q].pct \in Int
    <3>1. q \in Actors /\ q \notin Monitors /\ pc[q] = "rollback"
      BY ActorsAssumption DEF Rollback, Actors
    <3>2. QED
      BY <3>1, NumbersAssumption DEF Fresh, Ind, TypeOK, Flags, Works, Percentages
  <2>2. CASE RollbackChange(flag, work[q].pct) = "nothing" /\ flag' = flag
    BY <2>1, <2>2 DEF RollbackChange
  <2>3. CASE /\ flag'.pct = Flushed(work[q].pct, flag.pct, flag.pct)
             /\ capped' = work[q].pct
    BY <2>1, <2>3 DEF Flushed
  <2>4. QED
    BY <2>1, <2>2, <2>3 DEF Rollback, rows
<1>2. QED
  BY <1>1, Invariance, FreshCopies, PTL DEF Spec, ManualRollbackReaches

\* A rollback to a positive percentage always reaches it and the flag stays
\* there until somebody lifts it: only one that turns the flag off can leave
\* the percentage behind.
PartialRollbackReaches == capped \in 1..MaxPct => flag.pct = capped

\* Also when the monitor's copy is stale, a positive target is written.
THEOREM PartialRollbacksReach == Spec => []PartialRollbackReaches
<1>1. Init => PartialRollbackReaches
  BY NumbersAssumption DEF Init, PartialRollbackReaches, NoCap
<1>2. Ind /\ Ind' /\ Capped /\ PartialRollbackReaches /\ [Next]_vars
      => PartialRollbackReaches'
  <2> SUFFICES ASSUME Ind, Ind', Capped, PartialRollbackReaches, Effect
               PROVE  PartialRollbackReaches'
    BY NextEffect
  <2> USE NumbersAssumption DEF PartialRollbackReaches, NoCap
  <2>1. CASE NoEffect \/ ScheduleEffect
    BY <2>1 DEF NoEffect, ScheduleEffect
  <2>2. CASE StartEffect
    BY <2>2 DEF StartEffect, Capped, RollbackHolds
  <2>3. CASE RollbackEffect
    BY <2>3 DEF RollbackEffect
  <2>4. CASE HandEffect
    BY <2>4 DEF HandEffect
  <2>5. QED
    BY <2>1, <2>2, <2>3, <2>4 DEF Effect
<1>3. QED
  BY <1>1, <1>2, Invariance, PTL DEF Spec

\* Row locks are taken in one order, the flag's first: who has the flag's and
\* wants those of schedules finds them free, so nobody waits in a circle.
HolderNeverWaits ==
  \A a \in Actors : pc[a] \in {"lockSchedule", "rollback"}
     => \A s \in Schedules : schedLock[s] = NoOne

\* No number of ticks, monitors and requests deadlocks on the row locks.
THEOREM NoLockCycle == Spec => []HolderNeverWaits
<1>1. Ind => HolderNeverWaits
  BY DEF Ind, TypeOK, LocksProtect, HolderNeverWaits, Holding
<1>2. QED
  BY <1>1, Invariance, PTL
=============================================================================
