--------------------- MODULE ExperimentLifecycle_proofs ---------------------
(* Type correctness of ExperimentLifecycle for any number of processes; what *)
(* one process alone guarantees: since its handlers and passes do not        *)
(* interleave, the copy a handler decided on is still the row it writes; and *)
(* what is left for several: ids unless rules are edited, true dates unless  *)
(* dates are scheduled.                                                      *)
EXTENDS ExperimentLifecycle, TLAPS

USE DEF Times, Dates, Maybe, Statuses, Kinds, Ids, Levels

-----------------------------------------------------------------------------
(* Types                                                                     *)

LEMMA BlankType == Blank \in Rows
  BY DEF Blank, Rows, Rules

LEMMA StatusType ==
  ASSUME NEW x \in Rows, NEW s \in Statuses
  PROVE  SetStatus(x, s) \in Rows
  BY DEF SetStatus, Rows, Rules

LEMMA StampedType ==
  ASSUME NEW x \in Rows
  PROVE  Stamped(x) \in Rows
  BY DEF Stamped, Rows, Rules

LEMMA RuleIdType ==
  ASSUME NEW x \in Rows, NEW new \in Rules
  PROVE  WithRuleId(x, new) \in Rules
  BY DEF WithRuleId, Rows, Rules

LEMMA EndDateType ==
  ASSUME NEW x \in Rows, NEW t \in Times, t >= 1
  PROVE  RecordEndDate(x, t) \in Rows
<1>1. t \in Dates /\ t - 1 \in Dates
  BY TimeAssumption
<1>2. (IF x.start # None /\ x.start >= t THEN t - 1 ELSE x.start) \in Maybe(Dates)
  BY <1>1 DEF Rows
<1> QED
  BY <1>1, <1>2 DEF RecordEndDate, Rows

LEMMA UpdatedType ==
  ASSUME NEW x \in Rows, NEW y \in Rows, NEW z \in Rows
  PROVE  Updated(x, y, z) \in Rows
  BY DEF Updated, Column, Rows, Rules

LEMMA LoadType ==
  ASSUME TypeOK, NEW r \in Replicas, NEW step \in Steps, NEW new \in Rows,
         Load(r, step, new)
  PROVE  /\ pc' \in [Replicas -> Steps]
         /\ copy' \in [Replicas -> Rows] /\ want' \in [Replicas -> Rows]
  BY DEF TypeOK, Load

LEMMA DoneType ==
  ASSUME TypeOK, NEW r \in Replicas, Done(r)
  PROVE  /\ pc' \in [Replicas -> Steps]
         /\ copy' \in [Replicas -> Rows] /\ want' \in [Replicas -> Rows]
         /\ at' \in [Replicas -> Times]
  BY BlankType, TimeAssumption DEF TypeOK, Done, Forget, Go, Steps

LEMMA FlushType ==
  ASSUME TypeOK, NEW r \in Replicas, Flush(r)
  PROVE  row' \in Rows /\ Accepted(row')
<1>1. Updated(copy[r], want[r], row) \in Rows
  BY UpdatedType DEF TypeOK
<1> QED
  BY <1>1 DEF TypeOK, Flush

\* What a handler may write is typed whenever the row and the clock are.
LEMMA WantTypes ==
  ASSUME TypeOK
  PROVE  /\ \A s \in Statuses : SetStatus(row, s) \in Rows
         /\ SetStatus(Stamped(row), "ACTIVE") \in Rows
         /\ RecordEndDate(SetStatus(row, "COMPLETED"), now) \in Rows
         /\ now \in Dates
<1>1. \A s \in Statuses : SetStatus(row, s) \in Rows
  BY StatusType DEF TypeOK
<1>2. SetStatus(Stamped(row), "ACTIVE") \in Rows
  BY StatusType, StampedType DEF TypeOK
<1>3. RecordEndDate(SetStatus(row, "COMPLETED"), now) \in Rows
  BY <1>1, EndDateType DEF TypeOK
<1>4. now \in Dates
  BY TimeAssumption DEF TypeOK
<1> QED
  BY <1>1, <1>2, <1>3, <1>4

\* A request leaves a typed copy and changes nothing else.
LEMMA RequestType ==
  ASSUME TypeOK, NEW r \in Replicas, Request(r)
  PROVE  \E step \in {"commit", "delete"}, new \in Rows :
           pc[r] = "idle" /\ Load(r, step, new) /\ UNCHANGED <<row, now, at, faults>>
<1> USE WantTypes
<1>1. CASE Start(r)
  <2>1. row.start \in Maybe(Dates)
    BY DEF TypeOK, Rows
  <2>2. StartedAt(row, now) \in Rows
    BY <2>1 DEF StartedAt, Rows
  <2> QED
    BY <1>1, <2>2 DEF Start, Serves
<1>2. CASE Pause(r)
  BY <1>2 DEF Pause, Serves
<1>3. CASE Complete(r)
  BY <1>3 DEF Complete, Serves
<1>4. CASE Archive(r)
  BY <1>4 DEF Archive, Serves
<1>5. CASE ScheduleDraft(r)
  <2>1. PICK s \in StartChoice(row.start), e \in EndChoice :
          Load(r, "commit", [row EXCEPT !.start = s, !.end = e])
    BY <1>5 DEF ScheduleDraft
  <2>2. [row EXCEPT !.start = s, !.end = e] \in Rows
    BY <2>1 DEF TypeOK, Rows, StartChoice, EndChoice
  <2> QED
    BY <1>5, <2>1, <2>2 DEF ScheduleDraft, Serves
<1>6. CASE ScheduleResume(r)
  <2>1. PICK s \in StartChoice(row.resume), e \in EndChoice :
          Load(r, "commit", [row EXCEPT !.resume = s, !.end = e])
    BY <1>6 DEF ScheduleResume
  <2>2. [row EXCEPT !.resume = s, !.end = e] \in Rows
    BY <2>1 DEF TypeOK, Rows, StartChoice, EndChoice
  <2> QED
    BY <1>6, <2>1, <2>2 DEF ScheduleResume, Serves
<1>7. CASE Update(r)
  <2>1. PICK new \in Rules, l \in Levels :
          Load(r, "commit", Edited(row, new, l))
    BY <1>7 DEF Update
  <2>2. WithRuleId(row, new) \in Rules
    BY RuleIdType DEF TypeOK
  <2>3. Edited(row, new, l) \in Rows
    BY <2>2 DEF TypeOK, Rows, Edited
  <2> QED
    BY <1>7, <2>1, <2>3 DEF Update, Serves
<1>8. CASE Delete(r)
  BY <1>8 DEF Delete, Serves, TypeOK
<1> QED
  BY <1>1, <1>2, <1>3, <1>4, <1>5, <1>6, <1>7, <1>8 DEF Request

\* The row, the clock and every process's copies keep their types, and the
\* stored row keeps the table's constraints, however processes interleave.
THEOREM TypeCorrectness == Spec => []TypeOK
<1>1. Init => TypeOK
  <2> SUFFICES ASSUME Init PROVE TypeOK
    OBVIOUS
  <2>1. row \in Rows /\ Accepted(row)
    BY DraftAssumption DEF Init, Rows, Rules, Accepted
  <2> QED
    BY <2>1, BlankType, TimeAssumption, FaultsAssumption DEF Init, TypeOK, Steps
<1>2. TypeOK /\ [Next]_vars => TypeOK'
  <2> SUFFICES ASSUME TypeOK, [Next]_vars PROVE TypeOK'
    OBVIOUS
  <2> USE WantTypes
  <2>1. ASSUME NEW r \in Replicas, Request(r) PROVE TypeOK'
    <3>1. PICK step \in {"commit", "delete"}, new \in Rows :
            Load(r, step, new) /\ UNCHANGED <<row, now, at, faults>>
      BY <2>1, RequestType
    <3>2. step \in Steps
      BY DEF Steps
    <3> QED
      BY <3>1, <3>2, LoadType DEF TypeOK, Accepted
  <2>2. ASSUME NEW r \in Replicas, Commit(r) PROVE TypeOK'
    BY <2>2, FlushType, DoneType DEF Commit, TypeOK
  <2>3. ASSUME NEW r \in Replicas, CommitDelete(r) PROVE TypeOK'
    <3>1. row' \in Rows /\ Accepted(row')
      BY <2>3 DEF CommitDelete, TypeOK, Rows, Accepted
    <3> QED
      BY <2>3, <3>1, DoneType DEF CommitDelete, TypeOK
  <2>4. ASSUME NEW r \in Replicas, BeginPass(r) PROVE TypeOK'
    <3>1. at' \in [Replicas -> Times]
      BY <2>4 DEF BeginPass, TypeOK
    <3>2. CASE DueToStart(row, now)
      <4>1. Load(r, "activate", SetStatus(Stamped(row), "ACTIVE")) /\ UNCHANGED <<row, now, faults>>
        BY <2>4, <3>2 DEF BeginPass
      <4>2. "activate" \in Steps
        BY DEF Steps
      <4> QED
        BY <3>1, <4>1, <4>2, LoadType DEF TypeOK, Accepted
    <3>3. CASE ~DueToStart(row, now)
      BY <2>4, <3>1, <3>3 DEF BeginPass, TypeOK, Accepted, Go, Steps
    <3> QED
      BY <3>2, <3>3
  <2>5. ASSUME NEW r \in Replicas, Activate(r) PROVE TypeOK'
    <3>1. row' \in Rows /\ Accepted(row')
      BY <2>5, FlushType DEF Activate
    <3> QED
      BY <2>5, <3>1, BlankType DEF Activate, Forget, Go, TypeOK, Steps
  <2>6. ASSUME NEW r \in Replicas, FindEndings(r) PROVE TypeOK'
    <3>1. CASE DueToEnd(row, at[r])
      <4>1. Load(r, "finish", SetStatus(row, "COMPLETED")) /\ UNCHANGED <<row, now, at, faults>>
        BY <2>6, <3>1 DEF FindEndings
      <4>2. "finish" \in Steps /\ "COMPLETED" \in Statuses
        BY DEF Steps
      <4>3. SetStatus(row, "COMPLETED") \in Rows
        BY <4>2
      <4> QED
        BY <4>1, <4>2, <4>3, LoadType DEF TypeOK, Accepted
    <3>2. CASE ~DueToEnd(row, at[r])
      BY <2>6, <3>2, DoneType DEF FindEndings, TypeOK, Accepted
    <3> QED
      BY <3>1, <3>2
  <2>7. ASSUME NEW r \in Replicas, Finish(r) PROVE TypeOK'
    BY <2>7, FlushType, DoneType DEF Finish, TypeOK
  <2>8. ASSUME NEW r \in Replicas, Fail(r) PROVE TypeOK'
    <3>1. row' = row /\ now' = now /\ faults' \in 0..MaxFaults
      BY <2>8, FaultsAssumption DEF Fail, TypeOK
    <3> QED
      BY <2>8, <3>1, DoneType DEF Fail, TypeOK, Accepted
  <2>9. CASE TimePasses
    <3>1. now' \in Times /\ now' >= 1
      BY <2>9, TimeAssumption DEF TimePasses, TypeOK
    <3> QED
      BY <2>9, <3>1 DEF TimePasses, TypeOK, Accepted
  <2>10. CASE UNCHANGED vars
    BY <2>10 DEF vars, TypeOK, Accepted
  <2> QED
    BY <2>1, <2>2, <2>3, <2>4, <2>5, <2>6, <2>7, <2>8, <2>9, <2>10
    DEF Next, RequestEnd, PassStep
<1> QED
  BY <1>1, <1>2, PTL DEF Spec

-----------------------------------------------------------------------------
(* What a handler plans when it decides on the row as it is                  *)

\* The steps of the promised life, on rows.
LifeStep(x, y) ==
  \/ y.status = x.status /\ y.rules = x.rules /\ y.level = x.level
  \/ x.status = "DRAFT" /\ y.status = "DRAFT"
  \/ x.status = "PAUSED" /\ y.status = "PAUSED" /\ y.level = x.level
  \/ x.status = "DRAFT" /\ y.status = "ACTIVE" /\ y.level = x.level
  \/ /\ y.rules = x.rules /\ y.level = x.level
     /\ \/ x.status = "PAUSED" /\ y.status = "ACTIVE"
        \/ x.status = "ACTIVE" /\ y.status = "PAUSED"
        \/ x.status \in {"ACTIVE", "PAUSED"} /\ y.status = "COMPLETED"
        \/ x.status \in {"DRAFT", "ACTIVE", "PAUSED", "COMPLETED"} /\ y.status = "ARCHIVED"

Plan(x, y, t) == /\ y.ready = x.ready /\ Accepted(y)
                 /\ HasId(y) /\ Truthful(y, t) /\ LifeStep(x, y)

\* A stored row that is in order.
InOrder(x, t) == x \in Rows /\ Accepted(x) /\ HasId(x) /\ Truthful(x, t)

LEMMA UpdateIsWant ==
  ASSUME NEW x \in Rows, NEW y \in Rows, y.ready = x.ready
  PROVE  Updated(x, y, x) = y
  BY DEF Updated, Column, Rows

LEMMA PlanLater ==
  ASSUME NEW x \in Rows, NEW y \in Rows, NEW t \in Nat, NEW u \in Nat, t <= u
  PROVE  /\ Truthful(x, t) => Truthful(x, u)
         /\ Plan(x, y, t) => Plan(x, y, u)
  BY NoneAssumption DEF Truthful, Plan, Reached, Rows

\* By hand or on schedule: what is stamped and set ACTIVE is in order if its
\* start lies in the past.
LEMMA ActivePlan ==
  ASSUME NEW x, NEW t \in Times, InOrder(x, t), x.status \in {"DRAFT", "PAUSED"},
         NEW d \in Dates, d <= t, x.end # None => x.end > d,
         x.status = "PAUSED" => d = x.start
  PROVE  Plan(x, [SetStatus(Stamped(x), "ACTIVE") EXCEPT !.start = d], t)
<1> DEFINE y == [SetStatus(Stamped(x), "ACTIVE") EXCEPT !.start = d]
<1>1. /\ y.status = "ACTIVE" /\ y.resume = None /\ y.start = d /\ y.end = x.end
      /\ y.level = x.level /\ y.ready = x.ready
      /\ y.rules = Stamped(x).rules
  BY DEF SetStatus, Stamped, InOrder, Rows, Rules
<1>2. HasId(y) /\ (x.status = "PAUSED" => y.rules = x.rules)
  BY <1>1 DEF HasId, Stamped, InOrder, Rows, Rules, Started
<1>3. Accepted(y) /\ Truthful(y, t)
  BY <1>1, NoneAssumption DEF Accepted, Truthful, Reached, Started
<1>4. LifeStep(x, y)
  BY <1>1, <1>2 DEF LifeStep
<1> QED
  BY <1>1, <1>2, <1>3, <1>4 DEF Plan

LEMMA MovePlan ==
  ASSUME NEW x, NEW t \in Times, InOrder(x, t), NEW to \in Statuses,
         \/ x.status = "ACTIVE" /\ to = "PAUSED"
         \/ x.status \in {"DRAFT", "ACTIVE", "PAUSED", "COMPLETED"} /\ to = "ARCHIVED"
         \/ x.status = "ACTIVE" /\ to = "COMPLETED" /\ Reached(x.end, t)
  PROVE  Plan(x, SetStatus(x, to), t)
<1> DEFINE y == SetStatus(x, to)
<1>1. /\ y.status = to /\ y.resume = None /\ y.start = x.start /\ y.end = x.end
      /\ y.level = x.level /\ y.ready = x.ready /\ y.rules = x.rules
  BY DEF SetStatus, InOrder, Rows
<1>2. Accepted(y) /\ HasId(y) /\ LifeStep(x, y)
  BY <1>1 DEF InOrder, Accepted, HasId, Started, LifeStep
<1>3. Truthful(y, t)
  BY <1>1 DEF InOrder, Truthful, Started, Reached, Accepted
<1> QED
  BY <1>1, <1>2, <1>3 DEF Plan

LEMMA CompletePlan ==
  ASSUME NEW x, NEW t \in Times, t >= 1, InOrder(x, t), x.status \in {"ACTIVE", "PAUSED"}
  PROVE  Plan(x, RecordEndDate(SetStatus(x, "COMPLETED"), t), t)
<1> DEFINE y == RecordEndDate(SetStatus(x, "COMPLETED"), t)
           d == IF x.start # None /\ x.start >= t THEN t - 1 ELSE x.start
<1>1. /\ y.status = "COMPLETED" /\ y.resume = None /\ y.start = d /\ y.end = t
      /\ y.level = x.level /\ y.ready = x.ready /\ y.rules = x.rules
  BY DEF RecordEndDate, SetStatus, InOrder, Rows
<1>2. x.start # None /\ x.start \in Nat /\ t \in Nat
  BY DEF InOrder, Truthful, Started, Reached, Rows
<1>3. d \in Int /\ d < t
  BY <1>2
<1>4. Accepted(y) /\ Truthful(y, t)
  BY <1>1, <1>2, <1>3, NoneAssumption DEF Accepted, Truthful, Reached
<1>5. HasId(y) /\ LifeStep(x, y)
  BY <1>1 DEF InOrder, HasId, Started, LifeStep
<1> QED
  BY <1>1, <1>4, <1>5 DEF Plan

LEMMA DraftSchedulePlan ==
  ASSUME NEW x, NEW t \in Times, InOrder(x, t), x.status = "DRAFT",
         NEW s \in Maybe(Dates), NEW e \in Maybe(Dates), AnHourApart(s, e)
  PROVE  Plan(x, [x EXCEPT !.start = s, !.end = e], t)
<1> DEFINE y == [x EXCEPT !.start = s, !.end = e]
<1>1. /\ y.status = "DRAFT" /\ y.resume = x.resume /\ y.start = s /\ y.end = e
      /\ y.level = x.level /\ y.ready = x.ready /\ y.rules = x.rules
  BY DEF InOrder, Rows
<1>2. Accepted(y)
  BY <1>1, HourAssumption DEF InOrder, Accepted, AnHourApart
<1> QED
  BY <1>1, <1>2 DEF Plan, HasId, Truthful, Started, LifeStep

LEMMA ResumeSchedulePlan ==
  ASSUME NEW x, NEW t \in Times, InOrder(x, t), x.status = "PAUSED",
         NEW s \in Maybe(Dates), NEW e \in Maybe(Dates),
         e # None /\ x.start # None => e > x.start
  PROVE  Plan(x, [x EXCEPT !.resume = s, !.end = e], t)
<1> DEFINE y == [x EXCEPT !.resume = s, !.end = e]
<1>1. /\ y.status = "PAUSED" /\ y.resume = s /\ y.start = x.start /\ y.end = e
      /\ y.level = x.level /\ y.ready = x.ready /\ y.rules = x.rules
  BY DEF InOrder, Rows
<1> QED
  BY <1>1 DEF Plan, InOrder, Accepted, HasId, Truthful, Started, LifeStep

LEMMA UpdatePlan ==
  ASSUME NEW x, NEW t \in Times, InOrder(x, t), NEW new \in Rules, NEW l \in Levels,
         new.kind = "open" => new.id = "none",
         x.status = "DRAFT" \/ (x.status = "PAUSED" /\ l = x.level)
  PROVE  Plan(x, Edited(x, new, l), t)
<1> DEFINE y == Edited(x, new, l)
<1>1. /\ y.status = x.status /\ y.resume = x.resume /\ y.start = x.start /\ y.end = x.end
      /\ y.level = l /\ y.ready = x.ready /\ y.rules = WithRuleId(x, new)
  BY DEF InOrder, Rows, Edited
<1>2. Accepted(y) /\ Truthful(y, t) /\ LifeStep(x, y)
  BY <1>1 DEF InOrder, Accepted, Truthful, LifeStep
<1>3. HasId(y)
  <2>1. ASSUME x.status = "PAUSED", y.rules.kind = "part" PROVE y.rules.id # "none"
    BY <1>1, <2>1 DEF WithRuleId, InOrder, HasId, Started, Rows, Rules
  <2> QED
    BY <1>1, <2>1 DEF HasId, Started
<1> QED
  BY <1>1, <1>2, <1>3 DEF Plan

\* Whatever a request on an orderly row leaves to be committed is a plan.
LEMMA RequestPlan ==
  ASSUME TypeOK, InOrder(row, now), NEW r \in Replicas, Request(r)
  PROVE  /\ copy'[r] = row
         /\ \/ pc'[r] = "commit" /\ Plan(row, want'[r], now)
            \/ pc'[r] = "delete" /\ row.status = "DRAFT"
<1> USE DEF Load, Serves
<1>0. now \in Times /\ now >= 1 /\ now \in Dates /\ now \in Nat
  BY TimeAssumption DEF TypeOK
<1>1. CASE Start(r)
  <2> DEFINE d == IF StartsNow(row, now) THEN now ELSE row.start
             y == [SetStatus(Stamped(row), "ACTIVE") EXCEPT !.start = d]
  <2>1. row.start \in Maybe(Dates) /\ row.end \in Maybe(Dates)
    BY DEF InOrder, Rows
  <2>2. row.status = "PAUSED" => Reached(row.start, now)
    BY DEF InOrder, Truthful, Started
  <2>3. /\ row.status \in {"DRAFT", "PAUSED"}
        /\ StartsNow(row, now) => ~Reached(row.end, now)
        /\ Load(r, "commit", y)
    BY <1>1 DEF Start, StartedAt
  <2>4. d \in Dates /\ d <= now /\ (row.status = "PAUSED" => d = row.start)
    BY <1>0, <2>1, <2>2, <2>3 DEF Reached, StartsNow
  <2>5. row.end # None => row.end > d
    BY <1>0, <2>1, <2>3 DEF InOrder, Accepted, Reached, StartsNow
  <2>6. Plan(row, y, now)
    BY <1>0, <2>3, <2>4, <2>5, ActivePlan
  <2> QED
    BY <2>3, <2>6 DEF TypeOK
<1>2. CASE Pause(r)
  <2>1. Plan(row, SetStatus(row, "PAUSED"), now)
    BY <1>0, <1>2, MovePlan DEF Pause
  <2> QED
    BY <1>2, <2>1 DEF Pause, TypeOK
<1>3. CASE Complete(r)
  <2>1. Plan(row, RecordEndDate(SetStatus(row, "COMPLETED"), now), now)
    BY <1>0, <1>3, CompletePlan DEF Complete
  <2> QED
    BY <1>3, <2>1 DEF Complete, TypeOK
<1>4. CASE Archive(r)
  <2>1. row.status \in {"DRAFT", "ACTIVE", "PAUSED", "COMPLETED"}
    BY <1>4 DEF Archive, InOrder, Rows
  <2>2. Plan(row, SetStatus(row, "ARCHIVED"), now)
    BY <1>0, <2>1, MovePlan
  <2> QED
    BY <1>4, <2>2 DEF Archive, TypeOK
<1>5. CASE ScheduleDraft(r)
  <2>1. PICK s \in StartChoice(row.start), e \in EndChoice :
          AnHourApart(s, e) /\ Load(r, "commit", [row EXCEPT !.start = s, !.end = e])
    BY <1>5 DEF ScheduleDraft
  <2>2. s \in Maybe(Dates) /\ e \in Maybe(Dates)
    BY <2>1 DEF InOrder, Rows, StartChoice, EndChoice
  <2>3. Plan(row, [row EXCEPT !.start = s, !.end = e], now)
    BY <1>0, <1>5, <2>1, <2>2, DraftSchedulePlan DEF ScheduleDraft
  <2> QED
    BY <2>1, <2>3 DEF TypeOK
<1>6. CASE ScheduleResume(r)
  <2>1. PICK s \in StartChoice(row.resume), e \in EndChoice :
          /\ e # None /\ row.start # None => e > row.start
          /\ Load(r, "commit", [row EXCEPT !.resume = s, !.end = e])
    BY <1>6 DEF ScheduleResume
  <2>2. s \in Maybe(Dates) /\ e \in Maybe(Dates)
    BY <2>1 DEF InOrder, Rows, StartChoice, EndChoice
  <2>3. Plan(row, [row EXCEPT !.resume = s, !.end = e], now)
    BY <1>0, <1>6, <2>1, <2>2, ResumeSchedulePlan DEF ScheduleResume
  <2> QED
    BY <2>1, <2>3 DEF TypeOK
<1>7. CASE Update(r)
  <2>1. PICK new \in Rules, l \in Levels :
          /\ new.kind = "open" => new.id = "none"
          /\ row.status = "DRAFT" \/ (row.status = "PAUSED" /\ l = row.level)
          /\ Load(r, "commit", Edited(row, new, l))
    BY <1>7 DEF Update
  <2>2. Plan(row, Edited(row, new, l), now)
    BY <1>0, <2>1, UpdatePlan
  <2> QED
    BY <2>1, <2>2 DEF TypeOK
<1>8. CASE Delete(r)
  BY <1>8 DEF Delete, TypeOK
<1> QED
  BY <1>1, <1>2, <1>3, <1>4, <1>5, <1>6, <1>7, <1>8 DEF Request

-----------------------------------------------------------------------------
(* One process alone                                                         *)

\* The inductive invariant of one process: the row is in order, nobody writes
\* behind the back of the handler that is about to commit, and what it will
\* write is its plan for the row that is stored.
AloneInv(r) ==
  /\ TypeOK
  /\ InOrder(row, now)
  /\ at[r] <= now
  /\ Writing(r) => copy[r] = row /\ Plan(row, want[r], now)
  /\ pc[r] = "activate" => DueToStart(row, now)
  /\ pc[r] = "delete" => row.status = "DRAFT"

\* What becomes of the row in one step.
RowStep == LifeStep(row, row') \/ (row.status = "DRAFT" /\ row' = [row EXCEPT !.status = "GONE", !.resume = None])

LEMMA SameRow == row' = row => RowStep
  BY DEF RowStep, LifeStep

LEMMA FlushPlan ==
  ASSUME NEW r \in Replicas, AloneInv(r), Writing(r), Flush(r)
  PROVE  /\ Accepted(Updated(copy[r], want[r], row))
         /\ InOrder(row', now) /\ RowStep
<1>1. want[r] \in Rows /\ row \in Rows /\ copy[r] = row /\ Plan(row, want[r], now)
  BY DEF AloneInv, TypeOK
<1>2. Updated(copy[r], want[r], row) = want[r]
  BY <1>1, UpdateIsWant DEF Plan
<1>3. row' = want[r] \/ row' = row
  BY <1>2 DEF Flush
<1>4. InOrder(want[r], now) /\ Accepted(want[r]) /\ LifeStep(row, want[r])
  BY <1>1 DEF Plan, InOrder
<1> QED
  BY <1>2, <1>3, <1>4, SameRow DEF AloneInv, RowStep

LEMMA IdleAfter ==
  ASSUME NEW r \in Replicas, TypeOK, Done(r)
  PROVE  pc'[r] = "idle" /\ at'[r] = 0
  BY DEF TypeOK, Done, Go

\* A pass that activates the row plans what a start by hand would.
LEMMA BeginPassPlan ==
  ASSUME TypeOK, InOrder(row, now), DueToStart(row, now)
  PROVE  Plan(row, SetStatus(Stamped(row), "ACTIVE"), now)
<1> DEFINE y == SetStatus(Stamped(row), "ACTIVE")
<1>1. row.start \in Maybe(Dates) /\ row.end \in Maybe(Dates)
  BY DEF InOrder, Rows
<1>2. row.status \in {"DRAFT", "PAUSED"} /\ Reached(row.start, now)
  BY DEF DueToStart, InOrder, Truthful, Started
<1>3. row.start \in Dates /\ row.start <= now /\ (row.end # None => row.end > row.start)
  BY <1>1, <1>2 DEF Reached, InOrder, Accepted
<1>4. [y EXCEPT !.start = row.start] = y
  BY DEF SetStatus, Stamped, InOrder, Rows, Rules
<1>5. Plan(row, [y EXCEPT !.start = row.start], now)
  BY <1>2, <1>3, ActivePlan DEF TypeOK
<1> QED
  BY <1>4, <1>5

LEMMA AloneInit ==
  ASSUME NEW r \in Replicas, Init, TypeOK
  PROVE  AloneInv(r)
<1>1. InOrder(row, now)
  BY DEF Init, TypeOK, InOrder, HasId, Truthful, Started
<1> QED
  BY <1>1 DEF Init, AloneInv, Writing

LEMMA AloneStep ==
  ASSUME NEW r, Replicas = {r}, AloneInv(r), [Next]_vars, TypeOK'
  PROVE  AloneInv(r)' /\ RowStep
<1>0. r \in Replicas /\ now \in Nat /\ now' \in Nat /\ now \in Times
  BY DEF AloneInv, TypeOK
<1> USE <1>0
<1>1. CASE Request(r)
  <2>1. UNCHANGED <<row, now, at, faults>>
    BY <1>1, RequestType DEF AloneInv
  <2>2. /\ copy'[r] = row
        /\ \/ pc'[r] = "commit" /\ Plan(row, want'[r], now)
           \/ pc'[r] = "delete" /\ row.status = "DRAFT"
    BY <1>1, RequestPlan DEF AloneInv
  <2> QED
    BY <2>1, <2>2, SameRow DEF AloneInv, Writing
<1>2. CASE Commit(r)
  <2>1. Writing(r) /\ Flush(r) /\ Done(r) /\ UNCHANGED <<now, faults>>
    BY <1>2 DEF Commit, Writing
  <2>2. InOrder(row', now) /\ RowStep
    BY <2>1, FlushPlan
  <2> QED
    BY <2>1, <2>2, IdleAfter DEF AloneInv, Writing
<1>3. CASE CommitDelete(r)
  <2>1. /\ row' = [row EXCEPT !.status = "GONE", !.resume = None] /\ row.status = "DRAFT"
        /\ Done(r) /\ UNCHANGED <<now, faults>>
    BY <1>3 DEF CommitDelete, AloneInv
  <2>2. InOrder(row', now')
    <3>1. row'.status = "GONE" /\ row'.resume = None /\ row'.start = row.start /\ row'.end = row.end
      BY <2>1 DEF AloneInv, InOrder, Rows
    <3> QED
      BY <3>1 DEF AloneInv, TypeOK, InOrder, Accepted, HasId, Truthful, Started
  <2> QED
    BY <2>1, <2>2, IdleAfter DEF AloneInv, Writing, RowStep
<1>4. CASE BeginPass(r)
  <2>1. /\ UNCHANGED <<row, now, faults>> /\ at'[r] = now
    BY <1>4 DEF BeginPass, AloneInv, TypeOK
  <2>2. CASE DueToStart(row, now)
    <3>1. pc'[r] = "activate" /\ copy'[r] = row /\ want'[r] = SetStatus(Stamped(row), "ACTIVE")
      BY <1>4, <2>2 DEF BeginPass, Load, AloneInv, TypeOK
    <3>2. Plan(row, want'[r], now)
      BY <2>2, <3>1, BeginPassPlan DEF AloneInv
    <3> QED
      BY <2>1, <2>2, <3>1, <3>2, SameRow DEF AloneInv, Writing
  <2>3. CASE ~DueToStart(row, now)
    <3>1. pc'[r] = "endings"
      BY <1>4, <2>3 DEF BeginPass, Go, AloneInv, TypeOK
    <3> QED
      BY <2>1, <3>1, SameRow DEF AloneInv, Writing
  <2> QED
    BY <2>2, <2>3
<1>5. CASE Activate(r)
  <2>1. Writing(r) /\ Flush(r) /\ UNCHANGED <<now, at, faults>>
    BY <1>5 DEF Activate, Writing
  <2>2. InOrder(row', now) /\ RowStep
    BY <2>1, FlushPlan
  <2>3. pc'[r] = "endings"
    BY <1>5 DEF Activate, Go, AloneInv, TypeOK
  <2> QED
    BY <2>1, <2>2, <2>3 DEF AloneInv, Writing
<1>6. CASE FindEndings(r)
  <2>1. UNCHANGED <<row, now, faults>>
    BY <1>6 DEF FindEndings
  <2>2. CASE DueToEnd(row, at[r])
    <3>1. /\ pc'[r] = "finish" /\ copy'[r] = row /\ want'[r] = SetStatus(row, "COMPLETED")
          /\ at' = at
      BY <1>6, <2>2 DEF FindEndings, Load, AloneInv, TypeOK
    <3>2. row.status = "ACTIVE" /\ Reached(row.end, now)
      <4>1. row.end \in Maybe(Dates) /\ at[r] \in Nat /\ at[r] <= now
        BY DEF AloneInv, TypeOK, InOrder, Rows
      <4> QED
        BY <2>2, <4>1 DEF DueToEnd, Reached
    <3>3. Plan(row, want'[r], now)
      BY <3>1, <3>2, MovePlan DEF AloneInv
    <3> QED
      BY <2>1, <3>1, <3>3, SameRow DEF AloneInv, Writing
  <2>3. CASE ~DueToEnd(row, at[r])
    <3>1. Done(r)
      BY <1>6, <2>3 DEF FindEndings
    <3> QED
      BY <2>1, <3>1, IdleAfter, SameRow DEF AloneInv, Writing
  <2> QED
    BY <2>2, <2>3
<1>7. CASE Finish(r)
  <2>1. Writing(r) /\ Flush(r) /\ Done(r) /\ UNCHANGED <<now, faults>>
    BY <1>7 DEF Finish, Writing
  <2>2. InOrder(row', now) /\ RowStep
    BY <2>1, FlushPlan
  <2> QED
    BY <2>1, <2>2, IdleAfter DEF AloneInv, Writing
<1>8. CASE Fail(r)
  <2>1. Done(r) /\ UNCHANGED <<row, now>>
    BY <1>8 DEF Fail
  <2> QED
    BY <2>1, IdleAfter, SameRow DEF AloneInv, Writing
<1>9. CASE TimePasses
  <2>1. now <= now' /\ UNCHANGED <<row, pc, copy, want, at, faults>>
    BY <1>9 DEF TimePasses
  <2>2. row \in Rows /\ want[r] \in Rows /\ at[r] \in Nat
    BY DEF AloneInv, TypeOK
  <2>3. /\ Truthful(row, now')
        /\ Writing(r) => Plan(row, want[r], now')
    BY <2>1, <2>2, PlanLater DEF AloneInv, InOrder
  <2>4. DueToStart(row, now) => DueToStart(row, now')
    <3>1. row.start \in Maybe(Nat) /\ row.resume \in Maybe(Nat)
      BY <2>2 DEF Rows
    <3> QED
      BY <2>1, <3>1 DEF DueToStart, Reached
  <2>5. at'[r] <= now'
    BY <2>1, <2>2 DEF AloneInv
  <2> QED
    BY <2>1, <2>3, <2>4, <2>5, SameRow DEF AloneInv, InOrder, Writing
<1>10. CASE UNCHANGED vars
  BY <1>10, SameRow DEF vars, AloneInv, InOrder, Writing
<1> QED
  BY <1>1, <1>2, <1>3, <1>4, <1>5, <1>6, <1>7, <1>8, <1>9, <1>10
  DEF Next, RequestEnd, PassStep

LEMMA Alone ==
  ASSUME NEW r, Replicas = {r}
  PROVE  Spec => []AloneInv(r)
<1>1. Init /\ TypeOK => AloneInv(r)
  BY AloneInit
<1>2. AloneInv(r) /\ [Next]_vars /\ TypeOK' => AloneInv(r)'
  BY AloneStep
<1> QED
  BY <1>1, <1>2, TypeCorrectness, PTL DEF Spec

\* With one process a change that passes the checks of an endpoint or a pass
\* passes the table's constraints too.
THEOREM ChecksAreEnough ==
  ASSUME NEW r, Replicas = {r}
  PROVE  Spec => []ChecksSuffice
<1>1. AloneInv(r) => ChecksSuffice
  <2> SUFFICES ASSUME AloneInv(r), Writing(r)
               PROVE  Accepted(Updated(copy[r], want[r], row))
    BY DEF ChecksSuffice
  <2>1. want[r] \in Rows /\ row \in Rows /\ copy[r] = row /\ Plan(row, want[r], now)
    BY DEF AloneInv, TypeOK
  <2> QED
    BY <2>1, UpdateIsWant DEF Plan
<1> QED
  BY <1>1, Alone, PTL

\* With one process a partial rollout that has started has an id of its own
\* to bucket on.
THEOREM RowStaysInOrder ==
  ASSUME NEW r, Replicas = {r}
  PROVE  Spec => []PartialHasId
<1>1. AloneInv(r) => PartialHasId
  BY DEF AloneInv, InOrder, PartialHasId
<1> QED
  BY <1>1, Alone, PTL

\* With one process the dates of the experiment are true: what is stored as
\* start and end is when it started and ended.
THEOREM DatesAreTrue ==
  ASSUME NEW r, Replicas = {r}
  PROVE  Spec => []DatesTellTheTruth
<1>1. AloneInv(r) => DatesTellTheTruth
  BY DEF AloneInv, InOrder, DatesTellTheTruth
<1> QED
  BY <1>1, Alone, PTL

\* With one process the row lives the life the API promises.
THEOREM LifeIsAsPromised ==
  ASSUME NEW r, Replicas = {r}
  PROVE  Spec => ImplementsLife
<1>1. Init => Life!Init
  BY DraftAssumption DEF Init, Life!Init, Rules
<1>2. AloneInv(r) /\ [Next]_vars /\ TypeOK' => [Life!Next]_(Life!vars)
  <2> SUFFICES ASSUME AloneInv(r), [Next]_vars, TypeOK'
               PROVE  [Life!Next]_(Life!vars)
    OBVIOUS
  <2>1. row'.rules \in Rules /\ row'.level \in Levels
    BY DEF TypeOK, Rows
  <2>2. RowStep
    BY AloneStep
  <2>3. CASE LifeStep(row, row')
    BY <2>1, <2>3 DEF LifeStep, Life!Next, Life!vars, Life!Edit, Life!Retarget,
                      Life!Start, Life!Move
  <2>4. CASE row.status = "DRAFT" /\ row' = [row EXCEPT !.status = "GONE", !.resume = None]
    <3>1. row'.status = "GONE" /\ row'.rules = row.rules /\ row'.level = row.level
      BY <2>4 DEF AloneInv, TypeOK, Rows
    <3> QED
      BY <2>4, <3>1 DEF Life!Next, Life!Move
  <2> QED
    BY <2>2, <2>3, <2>4 DEF RowStep
<1> QED
  BY <1>1, <1>2, Alone, TypeCorrectness, PTL DEF Spec, ImplementsLife, Life!Spec

-----------------------------------------------------------------------------
(* Any number of processes                                                   *)

\* What a process writes that loaded the row as x, updates apart: the rules
\* as loaded or stamped, and a new status only if the rules are fit for it.
KeepsId(x, y) == /\ y.rules \in {x.rules, [x.rules EXCEPT !.id = "own"]}
                 /\ y.status # x.status => HasId(y)

\* How a copy lags behind the stored row: its id may since have been stamped,
\* never taken away.
Lags(x, stored) == /\ x.rules.kind = stored.rules.kind
                   /\ x.rules.id # "none" => stored.rules.id # "none"

\* The inductive invariant of any number of processes.
IdInv == /\ HasId(row)
         /\ \A r \in Replicas : Writing(r) => /\ Lags(copy[r], row)
                                             /\ KeepsId(copy[r], want[r])

\* The columns a stale copy writes leave the stored row with an id.
LEMMA StaleWriteKeepsId ==
  ASSUME NEW x \in Rows, NEW y \in Rows, NEW z \in Rows,
         Lags(x, z), KeepsId(x, y), HasId(z)
  PROVE  HasId(Updated(x, y, z)) /\ Lags(z, Updated(x, y, z))
<1> DEFINE w == Updated(x, y, z)
<1>1. w.status = Column(x.status, y.status, z.status) /\ w.rules = Column(x.rules, y.rules, z.rules)
  BY DEF Updated
<1>2. x.rules \in Rules /\ y.rules \in Rules /\ z.rules \in Rules
  BY DEF Rows
<1>3. CASE y.rules = x.rules
  BY <1>1, <1>2, <1>3 DEF Column, HasId, Lags, KeepsId
<1>4. CASE y.rules # x.rules
  <2>1. w.rules = [x.rules EXCEPT !.id = "own"]
    BY <1>1, <1>4 DEF Column, KeepsId
  <2>2. w.rules.id = "own" /\ w.rules.kind = x.rules.kind
    BY <1>2, <2>1 DEF Rules
  <2> QED
    BY <2>2 DEF HasId, Lags
<1> QED
  BY <1>3, <1>4

\* Every change but an update keeps the id of the row it is decided on.
LEMMA RequestKeepsId ==
  ASSUME TypeOK, HasId(row), "update" \notin Ops, NEW r \in Replicas, Request(r)
  PROVE  copy'[r] = row /\ (pc'[r] = "commit" => KeepsId(row, want'[r]))
<1> USE DEF Load, Serves, TypeOK
<1>1. CASE Start(r)
  <2> DEFINE y == StartedAt(row, now)
  <2>1. y.rules = Stamped(row).rules /\ y.status = "ACTIVE"
    BY DEF StartedAt, SetStatus, Stamped, Rows, Rules
  <2>2. row.status \in {"DRAFT", "PAUSED"} /\ want'[r] = y /\ copy'[r] = row
    BY <1>1 DEF Start
  <2> HIDE DEF y
  <2>3. KeepsId(row, y)
    BY <2>1, <2>2 DEF KeepsId, Stamped, HasId, Started, Rows, Rules
  <2> QED
    BY <2>2, <2>3
<1>2. CASE Pause(r)
  BY <1>2 DEF Pause, SetStatus, KeepsId, HasId, Started, Rows
<1>3. CASE Complete(r)
  BY <1>3 DEF Complete, RecordEndDate, SetStatus, KeepsId, HasId, Started, Rows
<1>4. CASE Archive(r)
  BY <1>4 DEF Archive, SetStatus, KeepsId, HasId, Started, Rows
<1>5. CASE ScheduleDraft(r)
  BY <1>5 DEF ScheduleDraft, KeepsId, Rows
<1>6. CASE ScheduleResume(r)
  BY <1>6 DEF ScheduleResume, KeepsId, Rows
<1>7. CASE Delete(r)
  BY <1>7 DEF Delete
<1> QED
  BY <1>1, <1>2, <1>3, <1>4, <1>5, <1>6, <1>7 DEF Request, Update

\* A write by one process leaves the copies of the others behind, no further.
LEMMA FlushKeepsId ==
  ASSUME TypeOK, IdInv, NEW r \in Replicas, Writing(r), Flush(r)
  PROVE  HasId(row') /\ Lags(row, row')
<1>1. copy[r] \in Rows /\ want[r] \in Rows /\ row \in Rows
  BY DEF TypeOK
<1>2. HasId(Updated(copy[r], want[r], row)) /\ Lags(row, Updated(copy[r], want[r], row))
  BY <1>1, StaleWriteKeepsId DEF IdInv
<1> QED
  BY <1>2 DEF Flush, IdInv, Lags

\* One process moves on; the others keep their copies, with a row that has
\* not lost its id.
LEMMA OneKeepsIds ==
  ASSUME TypeOK, IdInv, NEW r \in Replicas, HasId(row'), Lags(row, row'),
         \A q \in Replicas \ {r} :
           pc'[q] = pc[q] /\ copy'[q] = copy[q] /\ want'[q] = want[q],
         Writing(r)' => copy'[r] = row' /\ KeepsId(row', want'[r])
  PROVE  IdInv'
  BY DEF IdInv, Lags, Writing

LEMMA IdStep ==
  ASSUME TypeOK, IdInv, "update" \notin Ops, [Next]_vars
  PROVE  IdInv'
<1> DEFINE Others(r) == \A q \in Replicas \ {r} :
             pc'[q] = pc[q] /\ copy'[q] = copy[q] /\ want'[q] = want[q]
<1>1. HasId(row) /\ Lags(row, row)
  BY DEF IdInv, Lags
<1>2. ASSUME NEW r \in Replicas, Request(r) PROVE IdInv'
  <2>1. PICK step \in {"commit", "delete"}, new \in Rows :
          Load(r, step, new) /\ UNCHANGED <<row, now, at, faults>>
    BY <1>2, RequestType
  <2>2. Others(r) /\ pc'[r] \in {"commit", "delete"}
    BY <2>1 DEF Load, TypeOK
  <2>3. Writing(r)' => copy'[r] = row' /\ KeepsId(row', want'[r])
    BY <1>1, <1>2, <2>1, <2>2, RequestKeepsId DEF Writing
  <2> QED
    BY <1>1, <2>1, <2>2, <2>3, OneKeepsIds
<1>3. ASSUME NEW r \in Replicas, Commit(r) \/ Finish(r) \/ Activate(r) PROVE IdInv'
  <2>1. /\ Writing(r) /\ Flush(r) /\ Others(r)
        /\ pc'[r] \in {"idle", "endings"}
    BY <1>3 DEF Commit, Finish, Activate, Writing, Done, Go, Forget, TypeOK
  <2> QED
    BY <2>1, FlushKeepsId, OneKeepsIds DEF Writing
<1>4. ASSUME NEW r \in Replicas, CommitDelete(r) PROVE IdInv'
  <2>1. Others(r) /\ pc'[r] = "idle"
    BY <1>4 DEF CommitDelete, Done, Go, Forget, TypeOK
  <2>2. row'.status = "GONE" /\ row'.rules = row.rules
    BY <1>4 DEF CommitDelete, TypeOK, Rows
  <2>3. HasId(row') /\ Lags(row, row')
    BY <2>2 DEF HasId, Started, Lags
  <2> QED
    BY <2>1, <2>3, OneKeepsIds DEF Writing
<1>5. ASSUME NEW r \in Replicas, BeginPass(r) PROVE IdInv'
  <2>1. Others(r) /\ row' = row
    BY <1>5 DEF BeginPass, Load, Go, TypeOK
  <2>2. CASE DueToStart(row, now)
    <3> DEFINE y == SetStatus(Stamped(row), "ACTIVE")
    <3>1. copy'[r] = row /\ want'[r] = y
      BY <1>5, <2>2 DEF BeginPass, Load, TypeOK
    <3>2. y.rules = Stamped(row).rules /\ y.status = "ACTIVE"
      BY DEF SetStatus, Stamped, TypeOK, Rows, Rules
    <3>3. row.status \in {"DRAFT", "PAUSED"}
      BY <2>2 DEF DueToStart
    <3> HIDE DEF y
    <3>4. KeepsId(row, y)
      BY <1>1, <3>2, <3>3 DEF KeepsId, Stamped, HasId, Started, TypeOK, Rows, Rules
    <3> QED
      BY <1>1, <2>1, <3>1, <3>4, OneKeepsIds
  <2>3. CASE ~DueToStart(row, now)
    <3>1. pc'[r] = "endings"
      BY <1>5, <2>3 DEF BeginPass, Go, TypeOK
    <3> QED
      BY <1>1, <2>1, <3>1, OneKeepsIds DEF Writing
  <2> QED
    BY <2>2, <2>3
<1>6. ASSUME NEW r \in Replicas, FindEndings(r) PROVE IdInv'
  <2>1. Others(r) /\ row' = row
    BY <1>6 DEF FindEndings, Load, Done, Go, Forget, TypeOK
  <2>2. CASE DueToEnd(row, at[r])
    <3>1. copy'[r] = row /\ want'[r] = SetStatus(row, "COMPLETED") /\ row.status = "ACTIVE"
      BY <1>6, <2>2 DEF FindEndings, Load, DueToEnd, TypeOK
    <3>2. KeepsId(row, want'[r])
      BY <1>1, <3>1 DEF KeepsId, SetStatus, HasId, Started, TypeOK, Rows
    <3> QED
      BY <1>1, <2>1, <3>1, <3>2, OneKeepsIds
  <2>3. CASE ~DueToEnd(row, at[r])
    <3>1. pc'[r] = "idle"
      BY <1>6, <2>3 DEF FindEndings, Done, Go, TypeOK
    <3> QED
      BY <1>1, <2>1, <3>1, OneKeepsIds DEF Writing
  <2> QED
    BY <2>2, <2>3
<1>7. ASSUME NEW r \in Replicas, Fail(r) PROVE IdInv'
  <2>1. Others(r) /\ row' = row /\ pc'[r] = "idle"
    BY <1>7 DEF Fail, Done, Go, Forget, TypeOK
  <2> QED
    BY <1>1, <2>1, OneKeepsIds DEF Writing
<1>8. CASE UNCHANGED <<row, pc, copy, want>>
  BY <1>8 DEF IdInv, Writing
<1> QED
  BY <1>2, <1>3, <1>4, <1>5, <1>6, <1>7, <1>8
  DEF Next, RequestEnd, PassStep, TimePasses, vars

\* With any number of processes: however their handlers, passes, crashes and
\* refused writes interleave, a partial rollout that has started has an id to
\* bucket on, as long as nobody edits its rules.  (An update that loaded the
\* draft writes its rules over the stamp of the start.)
THEOREM StampSurvivesRaces ==
  ASSUME "update" \notin Ops
  PROVE  Spec => []PartialHasId
<1>1. Init => IdInv
  BY DEF Init, IdInv, HasId, Started, Writing
<1>2. TypeOK /\ IdInv /\ [Next]_vars => IdInv'
  BY IdStep
<1>3. IdInv => PartialHasId
  BY DEF IdInv, PartialHasId
<1> QED
  BY <1>1, <1>2, <1>3, TypeCorrectness, PTL DEF Spec

\* None of the row's dates lies ahead.
Past(x) == /\ x.start # None => x.start <= now
           /\ x.end # None => x.end <= now

\* A row y has the dates that x has, if not the same ones.
AsDated(x, y) == /\ x.start # None => y.start # None
                 /\ x.end # None => y.end # None

\* What a process writes that loaded the row as x, schedules apart: no date is
\* cleared or lies ahead, and a new status comes with the dates it calls for.
KeepsDates(x, y) ==
  /\ Past(y) /\ AsDated(x, y)
  /\ y.status # x.status => /\ y.status \in Started => y.start # None
                            /\ y.status = "COMPLETED" => y.end # None

DateInv == /\ DatesTellTheTruth /\ Past(row)
           /\ \A r \in Replicas : Writing(r) => /\ AsDated(copy[r], row)
                                               /\ KeepsDates(copy[r], want[r])

\* The columns a stale copy writes leave the stored row with true dates, if
\* the table accepts them.
LEMMA StaleWriteKeepsDates ==
  ASSUME TypeOK, NEW x \in Rows, NEW y \in Rows, NEW z \in Rows,
         AsDated(x, z), KeepsDates(x, y), Truthful(z, now), Past(z),
         Accepted(Updated(x, y, z))
  PROVE  LET w == Updated(x, y, z)
         IN Truthful(w, now) /\ Past(w) /\ AsDated(z, w)
<1> DEFINE w == Updated(x, y, z)
<1>1. /\ w.status = IF y.status = x.status THEN z.status ELSE y.status
      /\ w.start = IF y.start = x.start THEN z.start ELSE y.start
      /\ w.end = IF y.end = x.end THEN z.end ELSE y.end
      /\ w.start # None /\ w.end # None => w.end > w.start
  BY DEF Updated, Column, Accepted
<1> HIDE DEF w
<1>2. AsDated(z, w)
  BY <1>1 DEF AsDated, KeepsDates
<1>3. Past(w)
  BY <1>1 DEF Past, KeepsDates
<1>4. w.status \in Started => w.start # None
  BY <1>1, <1>2 DEF AsDated, KeepsDates, Truthful, Reached
<1>5. w.status = "COMPLETED" => w.end # None
  BY <1>1, <1>2 DEF AsDated, KeepsDates, Truthful, Reached
<1>6. Truthful(w, now)
  BY <1>1, <1>3, <1>4, <1>5 DEF Truthful, Reached, Past, Started
<1> QED
  BY <1>2, <1>3, <1>6 DEF w

\* Every change but a schedule keeps the dates of the row it is decided on.
LEMMA RequestKeepsDates ==
  ASSUME TypeOK, DatesTellTheTruth, Past(row), "schedule" \notin Ops,
         NEW r \in Replicas, Request(r)
  PROVE  copy'[r] = row /\ (pc'[r] = "commit" => KeepsDates(row, want'[r]))
<1>0. /\ row \in Rows /\ now \in Int
      /\ copy \in [Replicas -> Rows] /\ want \in [Replicas -> Rows]
      /\ pc \in [Replicas -> Steps]
      /\ row.status \in Started => row.start # None
      /\ row.status = "COMPLETED" => row.end # None
      /\ row.start # None => row.start \in Int
  BY NoneAssumption DEF TypeOK, DatesTellTheTruth, Truthful, Reached, Rows
<1>1. ASSUME NEW step, NEW y, Load(r, step, y), KeepsDates(row, y)
      PROVE  copy'[r] = row /\ KeepsDates(row, want'[r])
  BY <1>0, <1>1 DEF Load
<1>2. AsDated(row, row)
  BY DEF AsDated
<1>3. CASE Start(r)
  <2> DEFINE y == StartedAt(row, now)
  <2>1. /\ y.status = "ACTIVE" /\ y.end = row.end
        /\ y.start = IF StartsNow(row, now) THEN now ELSE row.start
    BY <1>0 DEF StartedAt, SetStatus, Stamped, Rows, Rules
  <2>2. Load(r, "commit", y)
    BY <1>3 DEF Start
  <2> HIDE DEF y
  <2>3. now # None
    BY <1>0, NoneAssumption
  <2>4. KeepsDates(row, y)
    BY <1>0, <2>1, <2>3 DEF KeepsDates, AsDated, Past, StartsNow, Started
  <2> QED
    BY <1>1, <2>2, <2>4
<1>4. CASE Complete(r)
  <2> DEFINE y == RecordEndDate(SetStatus(row, "COMPLETED"), now)
  <2>1. /\ y.status = "COMPLETED" /\ y.end = now
        /\ y.start = IF row.start # None /\ row.start >= now THEN now - 1 ELSE row.start
    BY <1>0 DEF RecordEndDate, SetStatus, Rows, Rules
  <2>2. Load(r, "commit", y) /\ row.status \in {"ACTIVE", "PAUSED"}
    BY <1>4 DEF Complete
  <2> HIDE DEF y
  <2>3. now # None /\ now - 1 # None /\ now - 1 <= now
    BY <1>0, NoneAssumption
  <2>4. KeepsDates(row, y)
    BY <1>0, <2>1, <2>2, <2>3 DEF KeepsDates, AsDated, Past, Started
  <2> QED
    BY <1>1, <2>2, <2>4
<1>5. ASSUME NEW s \in {"PAUSED", "ARCHIVED"}, Load(r, "commit", SetStatus(row, s)),
             s = "PAUSED" => row.status = "ACTIVE"
      PROVE  copy'[r] = row /\ KeepsDates(row, want'[r])
  <2> DEFINE y == SetStatus(row, s)
  <2>1. y.status = s /\ y.start = row.start /\ y.end = row.end
    BY <1>0 DEF SetStatus, Rows
  <2> HIDE DEF y
  <2>2. KeepsDates(row, y)
    BY <1>0, <1>2, <1>5, <2>1 DEF KeepsDates, AsDated, Past, Started
  <2> QED
    BY <1>1, <1>5, <2>2 DEF y
<1>6. CASE Pause(r) \/ Archive(r)
  BY <1>5, <1>6 DEF Pause, Archive
<1>7. CASE Update(r)
  <2>1. PICK new \in Rules, l \in Levels : Load(r, "commit", Edited(row, new, l))
    BY <1>7 DEF Update
  <2> DEFINE y == Edited(row, new, l)
  <2>2. y.status = row.status /\ y.start = row.start /\ y.end = row.end
    BY <1>0 DEF Edited, Rows
  <2> HIDE DEF y
  <2>3. KeepsDates(row, y)
    BY <1>2, <2>2 DEF KeepsDates, AsDated, Past
  <2> QED
    BY <1>1, <2>1, <2>3 DEF y
<1>8. CASE Delete(r)
  BY <1>0, <1>8 DEF Delete, Load
<1> QED
  BY <1>3, <1>4, <1>6, <1>7, <1>8 DEF Request, ScheduleDraft, ScheduleResume, Serves

\* A write by one process leaves true dates and clears none.
LEMMA FlushKeepsDates ==
  ASSUME TypeOK, DateInv, NEW r \in Replicas, Writing(r), Flush(r), now' = now
  PROVE  DatesTellTheTruth' /\ Past(row)' /\ AsDated(row, row')
<1>1. /\ copy[r] \in Rows /\ want[r] \in Rows /\ row \in Rows
      /\ AsDated(copy[r], row) /\ KeepsDates(copy[r], want[r])
      /\ Truthful(row, now) /\ Past(row)
  BY DEF TypeOK, DateInv, DatesTellTheTruth
<1> DEFINE w == Updated(copy[r], want[r], row)
<1>2. Accepted(w) => Truthful(w, now) /\ Past(w) /\ AsDated(row, w)
  BY <1>1, StaleWriteKeepsDates
<1>3. (row' = w /\ Accepted(w)) \/ row' = row
  BY DEF Flush
<1> HIDE DEF w
<1>4. Truthful(row', now) /\ Past(row') /\ AsDated(row, row')
  BY <1>1, <1>2, <1>3 DEF AsDated
<1> QED
  BY <1>4 DEF DatesTellTheTruth, Truthful, Past, Reached

\* One process moves on; the others keep their copies, with a row that has
\* not lost a date.
LEMMA OneKeepsDates ==
  ASSUME TypeOK, DateInv, NEW r \in Replicas, now' = now,
         DatesTellTheTruth', Past(row)', AsDated(row, row'),
         \A q \in Replicas \ {r} :
           pc'[q] = pc[q] /\ copy'[q] = copy[q] /\ want'[q] = want[q],
         Writing(r)' => copy'[r] = row' /\ KeepsDates(row', want'[r])
  PROVE  DateInv'
<1>1. \A x : AsDated(x, row) => AsDated(x, row')
  BY DEF AsDated
<1>2. ASSUME NEW q \in Replicas, q # r, Writing(q)'
      PROVE  AsDated(copy[q], row)' /\ KeepsDates(copy[q], want[q])'
  <2>1. q \in Replicas \ {r} /\ Writing(q)
    BY <1>2 DEF Writing
  <2>2. AsDated(copy[q], row) /\ KeepsDates(copy[q], want[q])
    BY <2>1 DEF DateInv
  <2>3. AsDated(copy[q], row') /\ copy'[q] = copy[q] /\ want'[q] = want[q]
    BY <1>1, <2>1, <2>2
  <2> QED
    BY <2>2, <2>3 DEF AsDated, KeepsDates, Past
<1>3. Writing(r)' => AsDated(copy[r], row)' /\ KeepsDates(copy[r], want[r])'
  BY DEF AsDated, KeepsDates, Past
<1> QED
  BY <1>2, <1>3 DEF DateInv

LEMMA DateStep ==
  ASSUME TypeOK, DateInv, "schedule" \notin Ops, [Next]_vars
  PROVE  DateInv'
<1> DEFINE Others(r) == \A q \in Replicas \ {r} :
             pc'[q] = pc[q] /\ copy'[q] = copy[q] /\ want'[q] = want[q]
           Same == row' = row /\ now' = now
<1>0. /\ row \in Rows /\ DatesTellTheTruth /\ Past(row)
      /\ row.status \in Started => row.start # None
  BY DEF TypeOK, DateInv, DatesTellTheTruth, Truthful, Reached
<1>1. ASSUME Same, NEW r \in Replicas, Others(r),
             Writing(r)' => copy'[r] = row /\ KeepsDates(row, want'[r])
      PROVE  DateInv'
  <2>1. DatesTellTheTruth' /\ Past(row)' /\ AsDated(row, row')
    BY <1>0, <1>1 DEF DatesTellTheTruth, Truthful, Reached, Past, AsDated
  <2>2. Writing(r)' => copy'[r] = row' /\ KeepsDates(row', want'[r])
    BY <1>1
  <2> QED
    BY <1>1, <2>1, <2>2, OneKeepsDates
<1>2. ASSUME NEW r \in Replicas, Request(r) PROVE DateInv'
  <2>1. PICK step \in {"commit", "delete"}, new \in Rows :
          Load(r, step, new) /\ UNCHANGED <<row, now, at, faults>>
    BY <1>2, RequestType
  <2>2. Others(r) /\ pc'[r] \in {"commit", "delete"}
    BY <2>1 DEF Load, TypeOK
  <2>3. Writing(r)' => copy'[r] = row /\ KeepsDates(row, want'[r])
    BY <1>0, <1>2, <2>2, RequestKeepsDates DEF Writing
  <2> QED
    BY <1>1, <2>1, <2>2, <2>3
<1>3. ASSUME NEW r \in Replicas, Commit(r) \/ Finish(r) \/ Activate(r) PROVE DateInv'
  <2>1. /\ Writing(r) /\ Flush(r) /\ Others(r) /\ now' = now
        /\ pc'[r] \in {"idle", "endings"}
    BY <1>3 DEF Commit, Finish, Activate, Writing, Done, Go, Forget, TypeOK
  <2> QED
    BY <2>1, FlushKeepsDates, OneKeepsDates DEF Writing
<1>4. ASSUME NEW r \in Replicas, CommitDelete(r) PROVE DateInv'
  <2>1. Others(r) /\ pc'[r] = "idle" /\ now' = now
    BY <1>4 DEF CommitDelete, Done, Go, Forget, TypeOK
  <2>2. row'.status = "GONE" /\ row'.start = row.start /\ row'.end = row.end
    BY <1>0, <1>4 DEF CommitDelete, Rows
  <2>3. DatesTellTheTruth' /\ Past(row)' /\ AsDated(row, row')
    BY <1>0, <2>1, <2>2 DEF DatesTellTheTruth, Truthful, Started, Past, AsDated
  <2> QED
    BY <2>1, <2>3, OneKeepsDates DEF Writing
<1>5. ASSUME NEW s \in {"ACTIVE", "COMPLETED"}, NEW x \in Rows,
             x.start = row.start, x.end = row.end, row.start # None,
             s = "COMPLETED" => row.end # None
      PROVE  KeepsDates(row, SetStatus(x, s))
  <2>1. LET y == SetStatus(x, s)
        IN y.status = s /\ y.start = row.start /\ y.end = row.end
    BY <1>5 DEF SetStatus, Rows
  <2> QED
    BY <1>0, <1>5, <2>1 DEF KeepsDates, Past, AsDated
<1>6. ASSUME NEW r \in Replicas, BeginPass(r) PROVE DateInv'
  <2>1. Others(r) /\ Same
    BY <1>6 DEF BeginPass, Load, Go, TypeOK
  <2>2. CASE DueToStart(row, now)
    <3>1. copy'[r] = row /\ want'[r] = SetStatus(Stamped(row), "ACTIVE")
      BY <1>6, <2>2 DEF BeginPass, Load, TypeOK
    <3>2. /\ Stamped(row) \in Rows
          /\ Stamped(row).start = row.start /\ Stamped(row).end = row.end
      BY <1>0, StampedType DEF Stamped, Rows
    <3>3. row.start # None
      BY <1>0, <2>2 DEF DueToStart, Reached, Started
    <3> QED
      BY <1>1, <1>5, <2>1, <3>1, <3>2, <3>3
  <2>3. CASE ~DueToStart(row, now)
    <3>1. pc'[r] = "endings"
      BY <1>6, <2>3 DEF BeginPass, Go, TypeOK
    <3> QED
      BY <1>1, <2>1, <3>1 DEF Writing
  <2> QED
    BY <2>2, <2>3
<1>7. ASSUME NEW r \in Replicas, FindEndings(r) PROVE DateInv'
  <2>1. Others(r) /\ Same
    BY <1>7 DEF FindEndings, Load, Done, Go, Forget, TypeOK
  <2>2. CASE DueToEnd(row, at[r])
    <3>1. copy'[r] = row /\ want'[r] = SetStatus(row, "COMPLETED")
      BY <1>7, <2>2 DEF FindEndings, Load, TypeOK
    <3>2. row.start # None /\ row.end # None
      BY <1>0, <2>2 DEF DueToEnd, Reached, Started
    <3> QED
      BY <1>0, <1>1, <1>5, <2>1, <3>1, <3>2
  <2>3. CASE ~DueToEnd(row, at[r])
    <3>1. pc'[r] = "idle"
      BY <1>7, <2>3 DEF FindEndings, Done, Go, TypeOK
    <3> QED
      BY <1>1, <2>1, <3>1 DEF Writing
  <2> QED
    BY <2>2, <2>3
<1>8. ASSUME NEW r \in Replicas, Fail(r) PROVE DateInv'
  <2>1. Others(r) /\ Same /\ pc'[r] = "idle"
    BY <1>8 DEF Fail, Done, Go, Forget, TypeOK
  <2> QED
    BY <1>1, <2>1 DEF Writing
<1>9. CASE TimePasses
  <2>1. now \in Int /\ now' = now + 1 /\ UNCHANGED <<row, pc, copy, want>>
    BY <1>9 DEF TimePasses, TypeOK
  <2>2. \A x \in Rows : Past(x) => Past(x)'
    BY <2>1, NoneAssumption DEF Past, Rows
  <2>3. \A q \in Replicas : copy[q] \in Rows /\ want[q] \in Rows
    BY DEF TypeOK
  <2>4. DatesTellTheTruth'
    BY <1>0, <2>1 DEF DatesTellTheTruth, Truthful, Reached, Rows, Started
  <2>5. ASSUME NEW q \in Replicas, Writing(q)'
        PROVE  AsDated(copy[q], row)' /\ KeepsDates(copy[q], want[q])'
    <3>1. AsDated(copy[q], row) /\ KeepsDates(copy[q], want[q])
      BY <2>1, <2>5 DEF DateInv, Writing
    <3>2. Past(want[q])'
      BY <2>1, <2>2, <2>3, <3>1 DEF KeepsDates
    <3> QED
      BY <2>1, <3>1, <3>2 DEF KeepsDates, AsDated
  <2>6. Past(row)'
    BY <1>0, <2>1, <2>2
  <2> QED
    BY <2>4, <2>5, <2>6 DEF DateInv
<1>10. CASE UNCHANGED vars
  BY <1>10 DEF vars, DateInv, DatesTellTheTruth, Truthful, Reached, Past, AsDated,
               KeepsDates, Writing
<1> QED
  BY <1>2, <1>3, <1>4, <1>6, <1>7, <1>8, <1>9, <1>10
  DEF Next, RequestEnd, PassStep

\* With any number of processes: starts, completions, passes and crashes that
\* write over each other leave dates that are true and in order, as long as
\* nobody schedules.  (A schedule decided on a draft can put a start date of
\* the future under an experiment that was started meanwhile.)
THEOREM DatesSurviveRaces ==
  ASSUME "schedule" \notin Ops
  PROVE  Spec => []DatesTellTheTruth
<1>1. Init => DateInv
  <2> SUFFICES ASSUME Init PROVE DateInv
    OBVIOUS
  <2>1. row.status = "DRAFT" /\ row.start = None /\ row.end = None
    BY DEF Init
  <2>2. \A r \in Replicas : ~Writing(r)
    BY DEF Init, Writing
  <2> QED
    BY <2>1, <2>2 DEF DateInv, DatesTellTheTruth, Truthful, Started, Past
<1>2. TypeOK /\ DateInv /\ [Next]_vars => DateInv'
  BY DateStep
<1>3. DateInv => DatesTellTheTruth
  BY DEF DateInv
<1> QED
  BY <1>1, <1>2, <1>3, TypeCorrectness, PTL DEF Spec

\* What a pass about to activate carries: a row the table accepted, found due
\* at a time that has passed, and that row made active.
PassInv ==
  \A r \in Replicas : pc[r] = "activate" =>
    /\ at[r] <= now /\ Accepted(copy[r]) /\ DueToStart(copy[r], at[r])
    /\ want[r] = SetStatus(Stamped(copy[r]), "ACTIVE")

\* One process moves on, not to an activation; the others carry what they did.
LEMMA PassesKept ==
  ASSUME TypeOK, PassInv, NEW r \in Replicas, now' = now, pc'[r] # "activate",
         \A q \in Replicas \ {r} :
           /\ pc'[q] = pc[q] /\ copy'[q] = copy[q] /\ want'[q] = want[q]
           /\ at'[q] = at[q]
  PROVE  PassInv'
<1> SUFFICES ASSUME NEW q \in Replicas, pc'[q] = "activate"
             PROVE  /\ at'[q] <= now' /\ Accepted(copy'[q]) /\ DueToStart(copy'[q], at'[q])
                    /\ want'[q] = SetStatus(Stamped(copy'[q]), "ACTIVE")
  BY DEF PassInv
<1>1. q \in Replicas \ {r}
  OBVIOUS
<1>2. /\ pc[q] = "activate" /\ copy'[q] = copy[q] /\ want'[q] = want[q]
      /\ at'[q] = at[q]
  BY <1>1
<1> QED
  BY <1>2 DEF PassInv

LEMMA PassStepKeeps ==
  ASSUME TypeOK, PassInv, [Next]_vars
  PROVE  PassInv'
<1> USE DEF TypeOK
<1>1. ASSUME NEW r \in Replicas, Request(r) PROVE PassInv'
  <2>1. PICK step \in {"commit", "delete"}, new \in Rows :
          Load(r, step, new) /\ UNCHANGED <<row, now, at, faults>>
    BY <1>1, RequestType
  <2> QED
    BY <2>1, PassesKept DEF Load
<1>2. ASSUME NEW r \in Replicas,
             Commit(r) \/ CommitDelete(r) \/ Activate(r) \/ Finish(r) \/ Fail(r)
      PROVE  PassInv'
  BY <1>2, PassesKept DEF Commit, CommitDelete, Activate, Finish, Fail, Done, Go, Forget
<1>3. ASSUME NEW r \in Replicas, FindEndings(r) PROVE PassInv'
  BY <1>3, PassesKept DEF FindEndings, Load, Done, Go, Forget
<1>4. ASSUME NEW r \in Replicas, BeginPass(r) PROVE PassInv'
  <2>1. CASE DueToStart(row, now)
    <3> SUFFICES ASSUME NEW q \in Replicas, pc'[q] = "activate"
                 PROVE  /\ at'[q] <= now' /\ Accepted(copy'[q])
                        /\ DueToStart(copy'[q], at'[q])
                        /\ want'[q] = SetStatus(Stamped(copy'[q]), "ACTIVE")
      BY DEF PassInv
    <3>1. CASE q = r
      <4>1. /\ copy'[r] = row /\ want'[r] = SetStatus(Stamped(row), "ACTIVE")
            /\ at'[r] = now /\ now' = now
        BY <1>4, <2>1 DEF BeginPass, Load
      <4> QED
        BY <2>1, <3>1, <4>1
    <3>2. CASE q # r
      <4>1. /\ pc[q] = "activate" /\ copy'[q] = copy[q] /\ want'[q] = want[q]
            /\ at'[q] = at[q] /\ now' = now
        BY <1>4, <2>1, <3>2 DEF BeginPass, Load
      <4> QED
        BY <4>1 DEF PassInv
    <3> QED
      BY <3>1, <3>2
  <2>2. CASE ~DueToStart(row, now)
    BY <1>4, <2>2, PassesKept DEF BeginPass, Go
  <2> QED
    BY <2>1, <2>2
<1>5. CASE TimePasses
  <2>1. now' = now + 1 /\ UNCHANGED <<pc, copy, want, at>>
    BY <1>5 DEF TimePasses
  <2> SUFFICES ASSUME NEW q \in Replicas, pc'[q] = "activate"
               PROVE  /\ at'[q] <= now' /\ Accepted(copy'[q])
                      /\ DueToStart(copy'[q], at'[q])
                      /\ want'[q] = SetStatus(Stamped(copy'[q]), "ACTIVE")
    BY DEF PassInv
  <2>2. /\ at[q] <= now /\ Accepted(copy[q]) /\ DueToStart(copy[q], at[q])
        /\ want[q] = SetStatus(Stamped(copy[q]), "ACTIVE")
    BY <2>1 DEF PassInv
  <2>3. at'[q] = at[q] /\ at[q] \in Int /\ now \in Int
    BY <2>1
  <2>4. at'[q] <= now'
    BY <2>1, <2>2, <2>3
  <2> QED
    BY <2>1, <2>2, <2>4
<1>6. CASE UNCHANGED vars
  BY <1>6 DEF vars, PassInv
<1> QED
  BY <1>1, <1>2, <1>3, <1>4, <1>5, <1>6 DEF Next, RequestEnd, PassStep

\* With any number of processes: a pass wakes a paused experiment only by a
\* resume that is due, or on what it had read before the experiment was
\* paused or its resume rescheduled.
THEOREM PausesHold == Spec => PauseHoldsUnlessRaced
<1>1. Init => PassInv
  BY DEF Init, PassInv
<1>2. TypeOK /\ PassInv /\ [Next]_vars => PassInv'
  BY PassStepKeeps
<1>3. TypeOK /\ PassInv /\ [Next]_vars
      => [\A r \in Replicas : Wakes(r) => Reached(row.resume, now) \/ DueWhenRead(r)]_vars
  <2> SUFFICES ASSUME TypeOK, PassInv, Next, NEW r \in Replicas, Wakes(r),
                      ~Reached(row.resume, now)
               PROVE  DueWhenRead(r)
    OBVIOUS
  <2>1. Activate(r)
    <3>1. \/ Activate(r)
          \/ \E q \in Replicas : q # r /\ pc'[r] = pc[r]
          \/ row' = row
      BY DEF Wakes, Next, Request, RequestEnd, PassStep, Start, Pause, Complete, Archive,
             ScheduleDraft, ScheduleResume, Update, Delete, Serves, Commit, CommitDelete,
             BeginPass, Activate, FindEndings, Finish, Fail, TimePasses, Load, Done, Go, TypeOK
    <3> QED
      BY <3>1 DEF Wakes
  <2> DEFINE new == Updated(copy[r], want[r], row)
  <2>2. row' = new /\ Accepted(new)
    BY <2>1 DEF Activate, Flush, Wakes
  <2>3. /\ copy[r] \in Rows /\ Accepted(copy[r]) /\ DueToStart(copy[r], at[r])
        /\ at[r] <= now /\ at[r] \in Nat /\ now \in Nat
        /\ want[r].resume = None
    <3>1. pc[r] = "activate" /\ copy[r] \in Rows
      BY DEF Wakes, TypeOK
    <3>2. copy[r].status \in {"DRAFT", "PAUSED"}
      BY <3>1 DEF PassInv, DueToStart
    <3>3. Stamped(copy[r]) \in Rows /\ Stamped(copy[r]).status = copy[r].status
      BY <3>1, StampedType DEF Stamped, Rows
    <3>4. SetStatus(Stamped(copy[r]), "ACTIVE").resume = None
      BY <3>2, <3>3 DEF SetStatus, Rows
    <3> QED
      BY <3>1, <3>4 DEF PassInv, TypeOK
  <2>4. CASE copy[r].status = "DRAFT" /\ Reached(copy[r].start, at[r])
    <3>1. copy[r].resume = None
      BY <2>3, <2>4 DEF Accepted
    <3>2. new.resume = row.resume
      BY <2>3, <3>1 DEF Updated, Column
    <3>3. row.resume = None
      BY <2>2, <3>2 DEF Wakes, Accepted
    <3> QED
      BY <2>4, <3>3 DEF DueWhenRead
  <2>5. CASE copy[r].status = "PAUSED" /\ Reached(copy[r].resume, at[r])
    <3>1. copy[r].resume \in Nat /\ copy[r].resume <= now
      BY <2>3, <2>5 DEF Reached, Rows
    <3>2. copy[r].resume # row.resume
      BY <2>3, <3>1, <2>5 DEF Reached
    <3> QED
      BY <2>5, <3>2 DEF DueWhenRead
  <2> QED
    BY <2>3, <2>4, <2>5 DEF DueToStart
<1> QED
  BY <1>1, <1>2, <1>3, TypeCorrectness, PTL DEF Spec, PauseHoldsUnlessRaced

=============================================================================
