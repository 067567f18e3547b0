-------------------------- MODULE StageOrder_proofs --------------------------
(***************************************************************************)
(* TLAPS proof that the rollout scheduler starts the stages of a schedule  *)
(* in order, TimeStageAfterPredecessors of FlagRollout, for any number of  *)
(* schedules and stages and any other actors.  It rests on two hypotheses. *)
(* OneTick: one tick at a time, which is what the advisory lock gives      *)
(* (LiveRunnerUnique of SchedulerTick); the row locks alone do not, since  *)
(* a tick plans on what it read before it took them.  TimeIsAutomatic: no  *)
(* stage to be advanced by hand comes before a time-based one, as far as   *)
(* requests advance stages at all; two overlapping advances of a stage can *)
(* put it back in progress with later ones started.                        *)
(***************************************************************************)
EXTENDS FlagRollout_proofs

OneTick == \A t, u \in Runners : t = u

\* The stages no request reaches: an advance moves a MANUAL stage and a later
\* one.
Automatic == {i \in Stages : \/ "advance" \notin Ops
                             \/ \A j \in 1..i : Trigger[j] # "MANUAL"}

TimeIsAutomatic == \A i \in Stages : Trigger[i] = "TIME_BASED" => i \in Automatic

\* An automatic stage that has started finds those before it complete.
Ordered(s) == \A i \in Automatic : stage[s][i] # "PENDING"
                => \A j \in 1..(i - 1) : stage[s][j] = "COMPLETED"

\* What a tick at step knows of the stages in its local variables w, although
\* it holds no lock before "lockSchedule": the stage to complete is still in
\* progress, the one to start still next.
PlanFits(step, w) ==
  /\ step = "plan" =>
       IF w.done = 0 THEN \A i \in Automatic : stage[w.sched][i] # "IN_PROGRESS"
       ELSE w.done \in Automatic => stage[w.sched][w.done] = "IN_PROGRESS"
  /\ step = "complete" =>
       w.done \in Automatic /\ stage[w.sched][w.done] = "IN_PROGRESS"
  /\ step \in {"lockFlag", "lockSchedule", "start"} =>
       /\ w.done # 0 => w.done \in Automatic /\ stage[w.sched][w.done] = "IN_PROGRESS"
       /\ w.begin # 0 =>
            /\ w.begin \in Automatic /\ stage[w.sched][w.begin] = "PENDING"
            /\ \A j \in 1..(w.begin - 1) :
                 j = w.done \/ stage[w.sched][j] = "COMPLETED"

\* An advance is of a MANUAL stage.
HandFits(step, w) ==
  /\ step = "readStage" => "advance" \in Ops
  /\ step \in {"lockFlag", "lockSchedule", "start"} =>
       "advance" \in Ops /\ w.done \in Stages /\ Trigger[w.done] = "MANUAL"

Order == /\ \A s \in Schedules : Ordered(s)
         /\ \A t \in Runners : PlanFits(pc[t], work[t])
         /\ \A q \in Requests : HandFits(pc[q], work[q])

\* Steps without a plan.
Planless == Steps \ {"plan", "complete", "lockFlag", "lockSchedule", "start",
                     "readStage"}

-----------------------------------------------------------------------------
(* Lemmas                                                                  *)

\* Stages are numbers, and those before an automatic one are automatic.
LEMMA AutomaticIsPrefix ==
  /\ \A i \in Stages : i \in Nat \ {0}
  /\ Automatic \subseteq Stages
  /\ \A i \in Automatic : \A j \in 1..(i - 1) : j \in Automatic /\ j < i
<1>1. \A i \in Stages : i \in Nat \ {0}
  BY NumbersAssumption DEF Stages
<1>2. ASSUME NEW i \in Automatic, NEW j \in 1..(i - 1)
      PROVE  j \in Automatic /\ j < i
  <2>1. i \in Stages /\ i \in Nat \ {0}
    BY <1>1 DEF Automatic
  <2>2. j \in Stages /\ j < i /\ j \in Nat
    BY <2>1, NumbersAssumption DEF Stages
  <2>3. 1..j \subseteq 1..i
    BY <2>1, <2>2
  <2>4. QED
    BY <2>2, <2>3 DEF Automatic
<1>3. QED
  BY <1>1, <1>2 DEF Automatic

\* An advance leaves the automatic stages alone: its stage is not one, nor is
\* any later stage.
LEMMA HandIsElsewhere ==
  ASSUME NEW i \in Stages, Trigger[i] = "MANUAL", "advance" \in Ops,
         NEW k \in Automatic
  PROVE  k < i
<1>1. i \in Nat \ {0} /\ k \in Nat \ {0}
  BY AutomaticIsPrefix
<1>2. ~(i \in 1..k)
  BY DEF Automatic
<1>3. QED
  BY <1>1, <1>2

\* An actor moves and no stage changes.
LEMMA MoveKeepsOrder ==
  ASSUME Ind, Order, NEW a \in Actors, NEW step \in Steps, NEW w \in Works,
         NEW f \in Flags, Goto(a, step, w, f), stage' = stage,
         a \in Runners => PlanFits(step, w),
         a \in Requests => HandFits(step, w)
  PROVE  Order'
<1>1. /\ pc'[a] = step /\ work'[a] = w
      /\ \A b \in Actors \ {a} : pc'[b] = pc[b] /\ work'[b] = work[b]
  BY GotoSets DEF Ind
<1>2. \A s \in Schedules : Ordered(s)'
  BY DEF Order, Ordered
<1>3. ASSUME NEW t \in Runners PROVE PlanFits(pc[t], work[t])'
  BY <1>1 DEF Order, PlanFits, Actors
<1>4. ASSUME NEW q \in Requests PROVE HandFits(pc[q], work[q])'
  BY <1>1 DEF Order, HandFits, Actors
<1>5. QED
  BY <1>2, <1>3, <1>4 DEF Order

LEMMA PlanlessFits ==
  ASSUME NEW step \in Planless, NEW w
  PROVE  PlanFits(step, w) /\ HandFits(step, w)
  BY DEF Planless, PlanFits, HandFits

\* An actor ends its transaction, or goes where no plan is needed.
LEMMA EndKeepsOrder ==
  ASSUME Ind, Order, NEW a \in Actors, stage' = stage,
         \/ Leave(a)
         \/ \E step \in Planless, w \in Works, f \in Flags : Goto(a, step, w, f)
  PROVE  Order'
<1>1. PICK step \in Planless, w \in Works, f \in Flags : Goto(a, step, w, f)
  BY WorkTypes DEF Leave, Planless, Steps
<1>2. QED
  BY <1>1, PlanlessFits, MoveKeepsOrder DEF Planless

\* The next stage is pending; those before it, but the current one, are not.
LEMMA NextStageIsFirst ==
  ASSUME NEW cur \in Stages \cup {0}, NEW pending \in SUBSET Stages,
         NextStage(cur, pending) # 0,
         \A i \in pending : i > cur
  PROVE  /\ NextStage(cur, pending) \in pending
         /\ \A j \in pending : NextStage(cur, pending) <= j
<1>1. pending \in SUBSET Nat /\ 0 \notin pending
  BY AutomaticIsPrefix
<1>2. {i \in pending : i > cur} = pending
  OBVIOUS
<1>3. pending # {}
  BY DEF NextStage
<1>4. NextStage(cur, pending) = Min(pending)
  BY <1>2, <1>3 DEF NextStage
<1>5. QED
  BY <1>1, <1>3, <1>4, MinIn

\* The plan a tick makes of what it reads is in order.
LEMMA PlanIsInOrder ==
  ASSUME Ind, Order, TimeIsAutomatic, NEW t \in Runners, TickPlan(t),
         ~Leave(t)
  PROVE  \E step \in {"lockFlag", "complete"}, w \in Works :
           Goto(t, step, w, NoFlag) /\ PlanFits(step, w)
<1> DEFINE s == work[t].sched
           cur == work[t].done
           pending == InState(s, "PENDING")
           next == NextStage(cur, pending)
           w == [work[t] EXCEPT !.begin = next]
<1>1. /\ t \in Actors /\ pc[t] = "plan" /\ work[t] \in Works /\ s \in Schedules
      /\ cur \in Stages \cup {0} /\ stage[s] \in [Stages -> StageStatuses]
  BY DEF Actors, TickPlan, Ind, TypeOK, WorkFits, Fits, Works
<1>2. pending \in SUBSET Stages /\ next \in Stages \cup {0}
  BY NextStageIn DEF InState
<1>3. w \in Works /\ w.sched = s /\ w.done = cur /\ w.begin = next
  BY <1>1, <1>2 DEF Works
<1>4. IF cur = 0 THEN \A i \in Automatic : stage[s][i] # "IN_PROGRESS"
      ELSE cur \in Automatic => stage[s][cur] = "IN_PROGRESS"
  BY <1>1 DEF Order, PlanFits
<1>5. /\ Eligible(s, IF cur = 0 THEN next ELSE cur)
      /\ \/ Goto(t, "complete", work[t], NoFlag) /\ next # 0 /\ ~Eligible(s, next)
         \/ Goto(t, "lockFlag", w, NoFlag) /\ (next = 0 \/ Eligible(s, next))
  BY DEF TickPlan
<1>6. \A i \in Stages : Eligible(s, i) => i \in Automatic
  BY DEF Eligible, TimeIsAutomatic
<1>7. cur # 0 => cur \in Automatic /\ stage[s][cur] = "IN_PROGRESS"
  BY <1>1, <1>4, <1>5, <1>6
<1>8. CASE Goto(t, "complete", work[t], NoFlag) /\ next # 0 /\ ~Eligible(s, next)
  <2>1. cur # 0
    BY <1>5, <1>8
  <2>2. PlanFits("complete", work[t])
    BY <1>7, <2>1 DEF PlanFits
  <2>3. QED
    BY <1>1, <1>8, <2>2
<1>9. CASE Goto(t, "lockFlag", w, NoFlag) /\ (next = 0 \/ Eligible(s, next))
  <2>1. ASSUME next # 0
        PROVE  /\ next \in Automatic /\ stage[s][next] = "PENDING"
               /\ \A j \in 1..(next - 1) : j = cur \/ stage[s][j] = "COMPLETED"
    <3>1. next \in Automatic
      BY <1>2, <1>6, <1>9, <2>1
    <3>2. \A i \in pending : i > cur
      <4>1. CASE cur = 0
        BY <4>1, <1>2, AutomaticIsPrefix
      <4>2. CASE cur # 0
        <5>1. \A j \in 1..(cur - 1) : stage[s][j] = "COMPLETED"
          BY <1>1, <1>7, <4>2 DEF Order, Ordered
        <5>2. stage[s][cur] # "PENDING" /\ cur \in Nat
          BY <1>7, <4>2, AutomaticIsPrefix
        <5>3. TAKE i \in pending
        <5>4. stage[s][i] = "PENDING" /\ i \in Nat \ {0}
          BY AutomaticIsPrefix DEF InState
        <5>5. i # cur /\ ~(i < cur)
          BY <5>1, <5>2, <5>4
        <5>6. QED
          BY <5>2, <5>4, <5>5
      <4>3. QED
        BY <4>1, <4>2
    <3>3. next \in pending /\ \A j \in pending : next <= j
      BY <1>1, <1>2, <2>1, <3>2, NextStageIsFirst
    <3>4. stage[s][next] = "PENDING"
      BY <3>3 DEF InState
    <3>5. ASSUME NEW j \in 1..(next - 1), j # cur PROVE stage[s][j] = "COMPLETED"
      <4>1. j \in Automatic /\ j < next /\ j \in Stages /\ j \in Nat
        BY <3>1, AutomaticIsPrefix
      <4>2. stage[s][j] # "PENDING"
        <5>1. next \in Nat
          BY <3>1, AutomaticIsPrefix
        <5> HIDE DEF next
        <5>2. j \notin pending
          BY <3>3, <4>1, <5>1
        <5>3. QED
          BY <4>1, <5>2 DEF InState
      <4>3. stage[s][j] # "IN_PROGRESS"
        <5>1. CASE cur = 0
          BY <1>4, <4>1, <5>1
        <5>2. CASE cur # 0
          <6>1. cur \in Nat \ {0} /\ cur \in Automatic /\ stage[s][cur] = "IN_PROGRESS"
            BY <1>7, <5>2, AutomaticIsPrefix
          <6>2. CASE j < cur
            BY <1>1, <4>1, <6>1, <6>2, AutomaticIsPrefix DEF Order, Ordered
          <6>3. CASE cur < j
            <7>1. cur \in 1..(j - 1)
              BY <4>1, <6>1, <6>3
            <7>2. \A k \in 1..(j - 1) : stage[s][k] = "COMPLETED"
              BY <1>1, <4>1, <4>2 DEF Order, Ordered
            <7>3. QED
              BY <6>1, <7>1, <7>2
          <6>4. QED
            BY <3>5, <4>1, <6>1, <6>2, <6>3
        <5>3. QED
          BY <5>1, <5>2
      <4>4. QED
        BY <1>1, <4>1, <4>2, <4>3 DEF StageStatuses
    <3>6. QED
      BY <3>1, <3>4, <3>5
  <2>2. PlanFits("lockFlag", w)
    <3> HIDE DEF w, next
    <3>1. QED
      BY <1>3, <1>7, <2>1 DEF PlanFits
  <2>3. QED
    BY <1>3, <1>9, <2>2
<1>10. QED
  BY <1>5, <1>8, <1>9

LEMMA TickReadsKeepOrder ==
  ASSUME Ind, Order, TimeIsAutomatic, NEW t \in Runners,
         TickLoad(t) \/ TickRead(t) \/ TickPlan(t)
  PROVE  Order'
<1>1. t \in Actors /\ t \notin Requests /\ stage' = stage
  BY ActorsAssumption DEF Actors, TickLoad, TickRead, TickPlan, rows
<1>2. NoWork \in Works /\ NoFlag \in Flags /\ {"next", "idle"} \subseteq Planless
  BY WorkTypes DEF Planless, Steps
<1>3. CASE TickLoad(t) \/ Leave(t) \/ Goto(t, "idle", NoWork, NoFlag)
  BY <1>1, <1>2, <1>3, EndKeepsOrder DEF TickLoad
<1>4. ASSUME TickRead(t), ~Goto(t, "idle", NoWork, NoFlag) PROVE Order'
  <2> DEFINE s == Min(todo[t])
             open == InState(s, "IN_PROGRESS")
  <2>1. s \in Schedules
    <3>1. todo[t] \in SUBSET Nat /\ todo[t] \in SUBSET Schedules /\ todo[t] # {}
      BY <1>4, ScheduleAssumption DEF TickRead, Ind, TypeOK
    <3>2. QED
      BY <3>1, MinIn
  <2>2. PICK cur \in IF open = {} THEN {0} ELSE open :
          Goto(t, "plan", [NoWork EXCEPT !.sched = s, !.done = cur], NoFlag)
    BY <1>4 DEF TickRead
  <2> HIDE DEF s
  <2>3. cur \in Stages \cup {0}
    BY <2>2 DEF InState
  <2> DEFINE w == [NoWork EXCEPT !.sched = s, !.done = cur]
  <2>4. w \in Works /\ w.sched = s /\ w.done = cur
    BY <2>1, <2>3, WorkTypes DEF NoWork
  <2>5. IF cur = 0 THEN \A i \in Automatic : stage[s][i] # "IN_PROGRESS"
        ELSE stage[s][cur] = "IN_PROGRESS"
    BY <2>2, AutomaticIsPrefix DEF InState
  <2>6. Goto(t, "plan", w, NoFlag)
    BY <2>2
  <2> HIDE DEF w
  <2>7. PlanFits("plan", w)
    BY <2>4, <2>5 DEF PlanFits
  <2>8. QED
    BY <1>1, <1>2, <2>4, <2>6, <2>7, MoveKeepsOrder DEF Steps
<1>5. ASSUME TickPlan(t), ~Leave(t) PROVE Order'
  <2>1. PICK step \in {"lockFlag", "complete"}, w \in Works :
          Goto(t, step, w, NoFlag) /\ PlanFits(step, w)
    BY <1>5, PlanIsInOrder
  <2>2. QED
    BY <1>1, <1>2, <2>1, MoveKeepsOrder DEF Steps
<1>6. QED
  BY <1>3, <1>4, <1>5

LEMMA LocksKeepOrder ==
  ASSUME Ind, Order, NEW a \in Actors, LockStep(a)
  PROVE  Order'
<1> USE Blanks
<1>1. stage' = stage
  BY DEF LockStep, LockFlag, LockSchedule, LockForRollback, rows
<1>2. CASE LockForRollback(a)
  <2>1. \E f \in Flags : Goto(a, "rollback", work[a], f)
    BY <1>2 DEF LockForRollback
  <2>2. QED
    BY <1>1, <2>1, EndKeepsOrder DEF Planless, Steps
<1>3. CASE Leave(a)
  BY <1>1, <1>3, EndKeepsOrder
<1>4. CASE LockFlag(a) \/ (LockSchedule(a) /\ ~Leave(a))
  <2>1. PICK step \in {"lockSchedule", "start"} : Goto(a, step, work[a], seen[a])
    BY <1>4 DEF LockFlag, LockSchedule
  <2>2. pc[a] \in {"lockFlag", "lockSchedule"}
    BY <1>4 DEF LockFlag, LockSchedule
  <2>3. a \in Runners => PlanFits(step, work[a])
    BY <2>2 DEF Order, PlanFits
  <2>4. a \in Requests => HandFits(step, work[a])
    BY <2>2 DEF Order, HandFits
  <2>5. QED
    BY <1>1, <2>1, <2>3, <2>4, MoveKeepsOrder DEF Steps
<1>5. QED
  BY <1>2, <1>3, <1>4 DEF LockStep

LEMMA RequestsKeepOrder ==
  ASSUME Ind, Order, NEW q \in Requests, RequestStart(q) \/ ReadStage(q)
  PROVE  Order'
<1> USE Blanks
<1>1. /\ q \in Actors /\ q \notin Runners /\ stage' = stage
      /\ {"writeStatus", "writePercentage", "writeSchedule", "lockRollback"}
           \subseteq Planless
  BY ActorsAssumption
     DEF Actors, RequestStart, ReadStatus, ReadPercentage, ReadSchedule,
         RequestAdvance, RequestRollback, ReadStage, rows, Planless, Steps
<1>2. CASE ReadStatus(q)
  <2>1. \A verb \in Verbs : Transition(flag.status, verb) \in FlagStatuses
    BY DEF Transition, FlagStatuses, Verbs
  <2>2. \E w \in Works : Goto(q, "writeStatus", w, flag)
    BY <1>2, <2>1, WorkTypes DEF ReadStatus
  <2>3. QED
    BY <1>1, <2>2, EndKeepsOrder
<1>3. CASE ReadPercentage(q)
  <2>1. \E w \in Works : Goto(q, "writePercentage", w, flag)
    BY <1>3, WorkTypes DEF ReadPercentage
  <2>2. QED
    BY <1>1, <2>1, EndKeepsOrder
<1>4. CASE ReadSchedule(q)
  <2>1. \E w \in Works : Goto(q, "writeSchedule", w, NoFlag)
    BY <1>4, WorkTypes DEF ReadSchedule
  <2>2. QED
    BY <1>1, <2>1, EndKeepsOrder
<1>5. CASE RequestRollback(q)
  <2>1. \E w \in Works : Goto(q, "lockRollback", w, NoFlag)
    BY <1>5, WorkTypes DEF RequestRollback
  <2>2. QED
    BY <1>1, <2>1, EndKeepsOrder
<1>6. CASE RequestAdvance(q)
  <2>1. Goto(q, "readStage", NoWork, flag) /\ HandFits("readStage", NoWork)
    BY <1>6 DEF RequestAdvance, HandFits
  <2>2. QED
    BY <1>1, <2>1, MoveKeepsOrder DEF Steps
<1>7. CASE ReadStage(q) /\ Leave(q)
  BY <1>1, <1>7, EndKeepsOrder
<1>8. CASE ReadStage(q) /\ ~Leave(q)
  <2>1. PICK s \in Schedules, i \in Stages :
          /\ Trigger[i] = "MANUAL"
          /\ Goto(q, "lockFlag",
                  [NoWork EXCEPT !.sched = s, !.done = i, !.read = stage[s][i]],
                  seen[q])
    BY <1>8 DEF ReadStage
  <2> DEFINE w == [NoWork EXCEPT !.sched = s, !.done = i, !.read = stage[s][i]]
  <2>2. stage[s][i] \in StageStatuses
    BY DEF Ind, TypeOK
  <2>3. w \in Works /\ w.done = i /\ Goto(q, "lockFlag", w, seen[q])
    BY <2>1, <2>2, WorkTypes DEF NoWork
  <2>4. "advance" \in Ops
    BY <1>8 DEF ReadStage, Order, HandFits
  <2> HIDE DEF w
  <2>5. HandFits("lockFlag", w)
    BY <2>1, <2>3, <2>4 DEF HandFits
  <2>6. QED
    BY <1>1, <2>3, <2>5, MoveKeepsOrder DEF Steps
<1>9. QED
  BY <1>2, <1>3, <1>4, <1>5, <1>6, <1>7, <1>8 DEF RequestStart

-----------------------------------------------------------------------------
(* The steps that write stages                                             *)

\* With one tick at a time no plan is left when the tick commits.
LEMMA TickLeavesNoPlan ==
  ASSUME Ind, Order, OneTick, NEW t \in Runners, Leave(t)
  PROVE  /\ \A u \in Runners : PlanFits(pc[u], work[u])'
         /\ \A q \in Requests : HandFits(pc[q], work[q])'
<1>1. t \in Actors /\ t \notin Requests /\ Goto(t, "next", NoWork, NoFlag)
  BY ActorsAssumption DEF Actors, Leave
<1>2. /\ pc'[t] = "next"
      /\ \A b \in Actors \ {t} : pc'[b] = pc[b] /\ work'[b] = work[b]
  BY <1>1, GotoSets, WorkTypes DEF Ind, Steps
<1>3. \A u \in Runners : PlanFits(pc[u], work[u])'
  BY <1>2 DEF OneTick, PlanFits
<1>4. \A q \in Requests : HandFits(pc[q], work[q])'
  BY <1>1, <1>2 DEF Order, HandFits, Actors
<1>5. QED
  BY <1>3, <1>4

LEMMA TickCompleteKeepsOrder ==
  ASSUME Ind, Order, OneTick, NEW t \in Runners, TickComplete(t)
  PROVE  Order'
<1> DEFINE s == work[t].sched
           done == work[t].done
<1>1. /\ t \in Actors /\ pc[t] = "complete" /\ s \in Schedules /\ Leave(t)
      /\ stage \in [Schedules -> [Stages -> StageStatuses]]
      /\ stage' = [stage EXCEPT ![s][done] = "COMPLETED"]
  BY DEF Actors, TickComplete, Ind, TypeOK, WorkFits, Fits
<1>2. done \in Automatic /\ stage[s][done] = "IN_PROGRESS"
  BY <1>1 DEF Order, PlanFits
<1>3. \A r \in Schedules, i \in Stages :
        stage'[r][i] = IF r = s /\ i = done THEN "COMPLETED" ELSE stage[r][i]
  BY <1>1
<1> HIDE DEF s, done
<1>4. ASSUME NEW r \in Schedules PROVE Ordered(r)'
  <2>1. ASSUME NEW i \in Automatic, stage'[r][i] # "PENDING", NEW j \in 1..(i - 1)
        PROVE  stage'[r][j] = "COMPLETED"
    <3>1. i \in Stages /\ j \in Stages
      BY AutomaticIsPrefix
    <3>2. stage[r][i] # "PENDING"
      BY <1>2, <1>3, <2>1, <3>1
    <3>3. stage[r][j] = "COMPLETED"
      BY <2>1, <3>2 DEF Order, Ordered
    <3>4. QED
      BY <1>3, <3>1, <3>3
  <2>2. QED
    BY <2>1 DEF Ordered
<1>5. QED
  BY <1>1, <1>4, TickLeavesNoPlan DEF Order

LEMMA TickStartKeepsOrder ==
  ASSUME Ind, Order, OneTick, NEW t \in Runners, TickStart(t)
  PROVE  Order'
<1> DEFINE s == work[t].sched
           done == work[t].done
           begin == work[t].begin
<1>1. /\ t \in Actors /\ pc[t] = "start" /\ s \in Schedules /\ Leave(t)
      /\ stage \in [Schedules -> [Stages -> StageStatuses]]
      /\ MoveStages(s, done, begin)
  BY DEF Actors, TickStart, Ind, TypeOK, WorkFits, Fits
<1>2. /\ done # 0 => done \in Automatic /\ stage[s][done] = "IN_PROGRESS"
      /\ begin # 0 =>
           /\ begin \in Automatic /\ stage[s][begin] = "PENDING"
           /\ \A j \in 1..(begin - 1) : j = done \/ stage[s][j] = "COMPLETED"
  BY <1>1 DEF Order, PlanFits
<1>3. \A r \in Schedules, i \in Stages :
        stage'[r][i] = IF r = s /\ i = begin THEN "IN_PROGRESS"
                       ELSE IF r = s /\ i = done THEN "COMPLETED" ELSE stage[r][i]
  BY <1>1 DEF MoveStages
<1> HIDE DEF s, done, begin
<1>4. ASSUME NEW r \in Schedules PROVE Ordered(r)'
  <2>1. ASSUME NEW i \in Automatic, stage'[r][i] # "PENDING", NEW j \in 1..(i - 1)
        PROVE  stage'[r][j] = "COMPLETED"
    <3>1. i \in Stages /\ j \in Stages /\ i # 0 /\ j # 0 /\ j < i
      BY AutomaticIsPrefix
    <3>2. CASE r = s /\ i = begin
      BY <1>2, <1>3, <2>1, <3>1, <3>2
    <3>3. CASE ~(r = s /\ i = begin)
      <4>1. stage[r][i] # "PENDING"
        BY <1>2, <1>3, <2>1, <3>1, <3>3
      <4>2. stage[r][j] = "COMPLETED"
        BY <2>1, <4>1 DEF Order, Ordered
      <4>3. ~(r = s /\ j = begin)
        BY <1>2, <3>1, <4>2
      <4>4. QED
        BY <1>3, <3>1, <4>2, <4>3
    <3>4. QED
      BY <3>2, <3>3
  <2>2. QED
    BY <2>1 DEF Ordered
<1>5. QED
  BY <1>1, <1>4, TickLeavesNoPlan DEF Order

\* An advance moves no automatic stage, so a plan made before it still fits.
LEMMA AdvanceKeepsOrder ==
  ASSUME Ind, Order, NEW q \in Requests, Advance(q)
  PROVE  Order'
<1> DEFINE s == work[q].sched
           i == work[q].done
           later == {j \in InState(s, "PENDING") : j > i}
           begin == IF work[q].read = "PENDING" THEN i
                    ELSE IF later = {} THEN 0 ELSE Min(later)
<1>1. /\ q \in Actors /\ q \notin Runners /\ pc[q] = "start" /\ s \in Schedules
      /\ Leave(q) /\ stage \in [Schedules -> [Stages -> StageStatuses]]
      /\ MoveStages(s, i, begin)
  BY ActorsAssumption DEF Actors, Advance, Ind, TypeOK, WorkFits, Fits
<1>2. "advance" \in Ops /\ i \in Stages /\ Trigger[i] = "MANUAL"
  BY <1>1 DEF Order, HandFits
<1>3. begin \in Stages \cup {0} /\ (begin = 0 \/ begin >= i)
  <2>1. later \in SUBSET Nat /\ later \in SUBSET Stages /\ i \in Nat
    BY <1>2, AutomaticIsPrefix DEF InState
  <2>2. later = {} \/ Min(later) \in later
    BY <2>1, MinIn
  <2> HIDE DEF i
  <2>3. QED
    BY <1>2, <2>1, <2>2
<1>4. \A k \in Automatic : k \in Stages /\ k < i /\ k \in Nat \ {0}
  BY <1>2, HandIsElsewhere, AutomaticIsPrefix
<1>5. i \in Nat
  BY <1>2, AutomaticIsPrefix
<1> HIDE DEF begin, i, s
<1>6. \A r \in Schedules, k \in Automatic : stage'[r][k] = stage[r][k]
  <2>1. \A k \in Automatic : k # i /\ k # begin
    BY <1>3, <1>4, <1>5, AutomaticIsPrefix
  <2>2. QED
    BY <1>1, <1>4, <2>1 DEF MoveStages
<1>7. /\ pc'[q] = "idle"
      /\ \A b \in Actors \ {q} : pc'[b] = pc[b] /\ work'[b] = work[b]
  <2>1. Goto(q, "idle", NoWork, NoFlag)
    BY <1>1 DEF Leave
  <2>2. "idle" \in Steps /\ NoWork \in Works /\ NoFlag \in Flags /\ TypeOK
    BY WorkTypes DEF Ind, Steps
  <2>3. QED
    BY <1>1, <2>1, <2>2, GotoSets
<1>8. ASSUME NEW r \in Schedules PROVE Ordered(r)'
  BY <1>6, AutomaticIsPrefix DEF Order, Ordered
<1>9. ASSUME NEW t \in Runners PROVE PlanFits(pc[t], work[t])'
  <2>1. t \in Actors /\ pc'[t] = pc[t] /\ work'[t] = work[t]
    BY <1>1, <1>7 DEF Actors
  <2>2. pc[t] \in {"plan", "complete", "lockFlag", "lockSchedule", "start"}
          => work[t].sched \in Schedules
    BY <2>1 DEF Ind, WorkFits, Fits
  <2>3. PlanFits(pc[t], work[t])
    BY DEF Order
  <2>4. QED
    BY <1>6, <2>1, <2>2, <2>3, AutomaticIsPrefix DEF PlanFits
<1>10. ASSUME NEW p \in Requests PROVE HandFits(pc[p], work[p])'
  BY <1>7 DEF Order, HandFits, Actors
<1>11. QED
  BY <1>8, <1>9, <1>10 DEF Order

-----------------------------------------------------------------------------
(* The invariant and the theorem                                           *)

LEMMA InitOrder == Init => Order
  BY AutomaticIsPrefix
     DEF Init, Order, Ordered, PlanFits, HandFits, Actors

LEMMA NextOrder ==
  Ind /\ Order /\ OneTick /\ TimeIsAutomatic /\ [Next]_vars => Order'
<1> SUFFICES ASSUME Ind, Order, OneTick, TimeIsAutomatic, [Next]_vars
             PROVE  Order'
  OBVIOUS
<1> USE Blanks
<1>1. CASE UNCHANGED <<stage, pc, work>>
  BY <1>1 DEF Order, Ordered, PlanFits, HandFits
<1>2. ASSUME NEW t \in Runners, TickLoad(t) \/ TickStep(t) \/ TickFail(t)
      PROVE  Order'
  BY <1>2, TickReadsKeepOrder, TickCompleteKeepsOrder, TickStartKeepsOrder,
     EndKeepsOrder DEF TickStep, TickFail, rows, Actors
<1>3. ASSUME NEW m \in Monitors, MonitorLoad(m) \/ MonitorCheck(m)
      PROVE  Order'
  <2>1. \E step \in {"check", "idle", "lockRollback"}, w \in Works, f \in Flags :
          Goto(m, step, w, f)
    BY <1>3, WorkTypes DEF MonitorLoad, MonitorCheck, Actors
  <2>2. stage' = stage /\ m \in Actors
    BY <1>3 DEF MonitorLoad, MonitorCheck, rows, Actors
  <2>3. QED
    BY <2>1, <2>2, EndKeepsOrder DEF Planless, Steps
<1>4. ASSUME NEW q \in Requests, RequestStart(q) \/ RequestStep(q) \/ CommitStep(q)
      PROVE  Order'
  <2>1. CASE CommitStep(q)
    BY <2>1, EndKeepsOrder
       DEF CommitStep, WriteStatus, WritePercentage, WriteSchedule, Actors
  <2>2. QED
    BY <1>4, <2>1, RequestsKeepOrder, AdvanceKeepsOrder DEF RequestStep
<1>5. ASSUME NEW a \in Actors, LockStep(a) \/ Rollback(a) \/ Crash(a)
      PROVE  Order'
  <2>1. CASE Rollback(a)
    BY <2>1, EndKeepsOrder DEF Rollback, rows
  <2>2. CASE Crash(a)
    <3>1. stage' = stage /\ Goto(a, "idle", NoWork, NoFlag)
      BY <2>2 DEF Crash, rows
    <3>2. QED
      BY <3>1, EndKeepsOrder DEF Planless, Steps
  <2>3. QED
    BY <1>5, <2>1, <2>2, LocksKeepOrder
<1>6. QED
  BY <1>1, <1>2, <1>3, <1>4, <1>5 DEF Next, Ripen, PassEnd, vars

\* With one tick at a time, the automatic stages of a schedule are always in
\* order, and what the tick plans without a lock still holds when it writes.
THEOREM PlansStayTrue ==
  ASSUME OneTick, TimeIsAutomatic PROVE Spec => []Order
<1>1. Init => Order
  BY InitOrder
<1>2. Ind /\ Order /\ [Next]_vars => Order'
  BY NextOrder
<1>3. QED
  BY <1>1, <1>2, Invariance, PTL DEF Spec

\* A stage that a tick starts finds every stage before it complete
\* (docs/feature-flags/rollouts.md:175), whatever rollbacks, pauses, crashes
\* and advances come between the tick's unlocked reads and its commit.
THEOREM StagesInOrder ==
  ASSUME OneTick, TimeIsAutomatic PROVE Spec => TimeStageAfterPredecessors
<1> DEFINE After ==
      \A s \in Schedules, i \in Stages :
        /\ Trigger[i] = "TIME_BASED" /\ \E t \in Runners : pc[t] = "start" /\ pc'[t] = "next"
        /\ stage[s][i] = "PENDING" /\ stage'[s][i] = "IN_PROGRESS"
        => \A j \in 1..(i - 1) : stage'[s][j] = "COMPLETED"
<1>1. Order' => [After]_vars
  BY DEF Order, Ordered, TimeIsAutomatic
<1>2. Spec => []Order
  BY PlansStayTrue
<1>3. QED
  BY <1>1, <1>2, PTL DEF TimeStageAfterPredecessors
=============================================================================
