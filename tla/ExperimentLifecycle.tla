------------------------ MODULE ExperimentLifecycle ------------------------
(* One experiment's row in PostgreSQL, the lifecycle endpoints of the API    *)
(* and the passes of the experiment scheduler.                               *)
(*                                                                           *)
(* An endpoint (and a pass) loads the row, decides on its copy and commits   *)
(* later; SQLAlchemy then writes the columns it changed, by primary key,     *)
(* over whatever is stored.  Nothing is locked.  The endpoints are           *)
(* coroutines that do not await between the load and the commit, and so is   *)
(* a pass, which makes them indivisible inside one process: the actors here  *)
(* are the processes (uvicorn workers, API tasks), each doing one thing at   *)
(* a time.  Other experiments' rows share nothing with this one.             *)
EXTENDS Integers

CONSTANTS
  Replicas,     \* the API processes
  None,         \* SQL NULL
  Ops,          \* which endpoints are called
  Targeting,    \* kinds of targeting the draft may be created with
  Readiness,    \* has it what /start asks for: variants, a control, a metric
  Hour,         \* the shortest run, in units of the clock
  Buffer,       \* how far back a start date may lie (ten minutes)
  MaxTime,      \* bound: the clock stops there
  MaxDate,      \* bound: dates are 0 .. MaxDate
  MaxFaults     \* bound: crashes and failed commits

ASSUME HourAssumption == Hour \in Nat \ {0}
ASSUME BufferAssumption == Buffer \in Nat
ASSUME TimeAssumption == MaxTime \in Nat \ {0} /\ MaxDate \in Nat /\ MaxTime <= MaxDate
ASSUME FaultsAssumption == MaxFaults \in Nat
ASSUME NoneAssumption == None \notin Int
ASSUME DraftAssumption == /\ Targeting \subseteq {"open", "all", "part"}
                          /\ Readiness \subseteq BOOLEAN

VARIABLES
  row,      \* the stored experiment
  now,      \* the clock
  pc,       \* pc[r]: the step process r is about to take
  copy,     \* copy[r]: the row as it loaded it
  want,     \* want[r]: that copy with its changes
  at,       \* at[r]: the time a pass works with
  faults

vars == <<row, now, pc, copy, want, at, faults>>

Statuses == {"DRAFT", "ACTIVE", "PAUSED", "COMPLETED", "ARCHIVED"}
Times == 0..MaxTime
Dates == 0..MaxDate
Maybe(S) == S \cup {None}

\* Stored targeting: who the rules admit (everybody, all who match, part of
\* those) and the id a partial rollout buckets on: the experiment's own, one
\* that a caller chose, or none, which is an id all such rules share.
Kinds == {"open", "all", "part"}
Ids == {"none", "own", "chosen"}
Rules == [kind : Kinds, id : Ids]
\* How results are judged: the correction method and confidence level.
Levels == {1, 2}

\* A deleted row has the status "GONE" here.
Rows == [status : Statuses \cup {"GONE"}, start : Maybe(Dates), end : Maybe(Dates),
         resume : Maybe(Dates), rules : Rules, level : Levels, ready : BOOLEAN]

\* What a process without a handler at work holds.
Blank == [status |-> "GONE", start |-> None, end |-> None, resume |-> None,
          rules |-> [kind |-> "open", id |-> "none"], level |-> 1, ready |-> TRUE]

Init ==
  /\ row \in [status : {"DRAFT"}, start : {None}, end : {None}, resume : {None},
              rules : {[kind |-> k, id |-> "none"] : k \in Targeting},
              level : {1}, ready : Readiness]
  /\ now = 1
  /\ pc = [r \in Replicas |-> "idle"]
  /\ copy = [r \in Replicas |-> Blank]
  /\ want = [r \in Replicas |-> Blank]
  /\ at = [r \in Replicas |-> 0]
  /\ faults = 0

-----------------------------------------------------------------------------
(* The row                                                                   *)

Reached(date, t) == date # None /\ date <= t

\* Any change of status drops a scheduled resume (the listener on status).
SetStatus(x, s) ==
  [x EXCEPT !.status = s, !.resume = IF s = x.status THEN x.resume ELSE None]

\* A first start gives a partial rollout without an id the experiment's own.
Stamped(x) ==
  IF x.status = "DRAFT" /\ x.rules.kind = "part" /\ x.rules.id = "none"
  THEN [x EXCEPT !.rules.id = "own"] ELSE x

\* Mutant of StartsNow: the date of a scheduled start still ahead is kept (#974).
StartsNowUndated(x, t) == x.start = None

\* A start by hand is the start of a draft, even of one scheduled for later.
StartsNow(x, t) == x.start = None \/ (x.status = "DRAFT" /\ x.start > t)

StartedAt(x, t) == [SetStatus(Stamped(x), "ACTIVE")
                      EXCEPT !.start = IF StartsNow(x, t) THEN t ELSE x.start]

\* The rules an update stores, given those it sent.
WithRuleId(x, new) ==
  CASE new.kind = "open" \/ new.id # "none" -> new
    [] new.kind # "open" /\ new.id = "none" /\ x.rules.id # "none" ->
         [new EXCEPT !.id = x.rules.id]
    [] new.kind # "open" /\ new.id = "none" /\ x.rules.id = "none" ->
         IF x.status = "PAUSED" /\ new.kind = "part" /\ x.rules.kind # "part"
         THEN [new EXCEPT !.id = "own"] ELSE new

\* An update's targeting and analysis settings.
Edited(x, new, l) == [x EXCEPT !.rules = WithRuleId(x, new), !.level = l]

\* Mutant of RecordEndDate: the start is left where it is.
RecordEndDateAlone(x, t) == [x EXCEPT !.end = t]

\* Mutant of RecordEndDate: the end is recorded an hour late.
RecordEndDateLate(x, t) == [x EXCEPT !.end = t + Hour]

\* Completed by hand at time t: the end is t and the start before it.
RecordEndDate(x, t) ==
  [x EXCEPT !.start = IF x.start # None /\ x.start >= t THEN t - 1 ELSE x.start,
            !.end = t]

\* The table's constraints check_experiment_dates and
\* ck_experiments_resume_only_when_paused.
Accepted(x) == /\ x.start # None /\ x.end # None => x.end > x.start
               /\ x.resume # None => x.status = "PAUSED"

Column(old, new, cur) == IF new = old THEN cur ELSE new

\* The row after an UPDATE of the columns changed from `old` to `new`.
Updated(old, new, cur) ==
  [status |-> Column(old.status, new.status, cur.status),
   start  |-> Column(old.start, new.start, cur.start),
   end    |-> Column(old.end, new.end, cur.end),
   resume |-> Column(old.resume, new.resume, cur.resume),
   rules  |-> Column(old.rules, new.rules, cur.rules),
   level  |-> Column(old.level, new.level, cur.level),
   ready  |-> cur.ready]

\* Process r's UPDATE: refused without effect if the row is gone
\* (StaleDataError) or would break a constraint (IntegrityError).
Flush(r) ==
  LET new == Updated(copy[r], want[r], row)
  IN row' = IF row.status # "GONE" /\ Accepted(new) THEN new ELSE row

Load(r, step, new) ==
  /\ pc' = [pc EXCEPT ![r] = step]
  /\ copy' = [copy EXCEPT ![r] = row]
  /\ want' = [want EXCEPT ![r] = new]

Go(r, step) == pc' = [pc EXCEPT ![r] = step]

\* A commit expires what the session loaded.
Forget(r) == /\ copy' = [copy EXCEPT ![r] = Blank]
             /\ want' = [want EXCEPT ![r] = Blank]

Done(r) == Go(r, "idle") /\ Forget(r) /\ at' = [at EXCEPT ![r] = 0]

-----------------------------------------------------------------------------
(* The endpoints: each loads the row and decides; Commit writes.  A request  *)
(* that is refused changes nothing and is left out.                          *)

Serves(r, op) == pc[r] = "idle" /\ op \in Ops

\* Through /start: draft or paused, and with what an experiment needs.
Start(r) ==
  /\ Serves(r, "start") /\ row.status \in {"DRAFT", "PAUSED"} /\ row.ready
  /\ StartsNow(row, now) => ~Reached(row.end, now)
  /\ Load(r, "commit", StartedAt(row, now))
  /\ UNCHANGED <<row, now, at, faults>>

Pause(r) ==
  /\ Serves(r, "pause") /\ row.status = "ACTIVE"
  /\ Load(r, "commit", SetStatus(row, "PAUSED"))
  /\ UNCHANGED <<row, now, at, faults>>

Complete(r) ==
  /\ Serves(r, "complete") /\ row.status \in {"ACTIVE", "PAUSED"}
  /\ Load(r, "commit", RecordEndDate(SetStatus(row, "COMPLETED"), now))
  /\ UNCHANGED <<row, now, at, faults>>

Archive(r) ==
  /\ Serves(r, "archive") /\ row.status \notin {"ARCHIVED", "GONE"}
  /\ Load(r, "commit", SetStatus(row, "ARCHIVED"))
  /\ UNCHANGED <<row, now, at, faults>>

\* What a request may put in a date: nothing (the stored value stays), null,
\* or a date; a start date not further back than the buffer.
EndChoice == {row.end, None} \cup Dates
StartChoice(stored) == {stored, None} \cup {d \in Dates : d >= now - Buffer}

AnHourApart(from, to) == from # None /\ to # None => to - from >= Hour

\* PUT /schedule on a draft: when to start and when to end.
ScheduleDraft(r) ==
  /\ Serves(r, "schedule") /\ row.status = "DRAFT"
  /\ \E s \in StartChoice(row.start), e \in EndChoice :
       /\ AnHourApart(s, e)
       /\ Load(r, "commit", [row EXCEPT !.start = s, !.end = e])
  /\ UNCHANGED <<row, now, at, faults>>

\* PUT /schedule on a paused experiment: when to resume and when to end.
ScheduleResume(r) ==
  /\ Serves(r, "schedule") /\ row.status = "PAUSED"
  /\ \E s \in StartChoice(row.resume), e \in EndChoice :
       /\ e # None /\ row.start # None => e > row.start
       /\ AnHourApart(s, e)
       /\ Load(r, "commit", [row EXCEPT !.resume = s, !.end = e])
  /\ UNCHANGED <<row, now, at, faults>>

\* Mutant of Update: a paused experiment may be judged otherwise (#580).
UpdateWhilePaused(r) ==
  /\ Serves(r, "update") /\ row.status \in {"DRAFT", "PAUSED"}
  /\ \E new \in Rules, l \in Levels :
       Load(r, "commit", Edited(row, new, l))
  /\ UNCHANGED <<row, now, at, faults>>

\* PUT: targeting while draft or paused, the rest only while draft.
Update(r) ==
  /\ Serves(r, "update")
  /\ \E new \in Rules, l \in Levels :
       /\ new.kind = "open" => new.id = "none"
       /\ row.status = "DRAFT" \/ (row.status = "PAUSED" /\ l = row.level)
       /\ Load(r, "commit", Edited(row, new, l))
  /\ UNCHANGED <<row, now, at, faults>>

Delete(r) ==
  /\ Serves(r, "delete") /\ row.status = "DRAFT"
  /\ Load(r, "delete", row)
  /\ UNCHANGED <<row, now, at, faults>>

Commit(r) ==
  /\ pc[r] = "commit"
  /\ Flush(r) /\ Done(r)
  /\ UNCHANGED <<now, faults>>

CommitDelete(r) ==
  /\ pc[r] = "delete"
  /\ row' = [row EXCEPT !.status = "GONE", !.resume = None]
  /\ Done(r)
  /\ UNCHANGED <<now, faults>>

-----------------------------------------------------------------------------
(* A scheduler pass: on the timer under the schedulers' lock, or from        *)
(* POST /schedules/process, which takes no lock and so overlaps any other.   *)

\* Mutant of DueToStart: a paused experiment's start date wakes it (#436).
DueToStartAgain(x, t) == x.status \in {"DRAFT", "PAUSED"} /\ Reached(x.start, t)

DueToStart(x, t) ==
  \/ x.status = "DRAFT" /\ Reached(x.start, t)
  \/ x.status = "PAUSED" /\ Reached(x.resume, t)
DueToEnd(x, t) == x.status = "ACTIVE" /\ Reached(x.end, t)

\* Mutant of BeginPass: a scheduled start does not stamp the rule (#533).
BeginPassUnstamped(r) ==
  /\ pc[r] = "idle"
  /\ at' = [at EXCEPT ![r] = now]
  /\ IF DueToStart(row, now)
     THEN Load(r, "activate", SetStatus(row, "ACTIVE"))
     ELSE Go(r, "endings") /\ UNCHANGED <<copy, want>>
  /\ UNCHANGED <<row, now, faults>>

BeginPass(r) ==
  /\ pc[r] = "idle"
  /\ at' = [at EXCEPT ![r] = now]
  /\ IF DueToStart(row, now)
     THEN Load(r, "activate", SetStatus(Stamped(row), "ACTIVE"))
     ELSE Go(r, "endings") /\ UNCHANGED <<copy, want>>
  /\ UNCHANGED <<row, now, faults>>

\* Mutant of Activate: the activations are not committed.
ActivateWithoutCommit(r) ==
  /\ pc[r] = "activate"
  /\ Go(r, "endings") /\ Forget(r)
  /\ UNCHANGED <<row, now, at, faults>>

\* A row the database refuses is rolled back to its savepoint and skipped.
Activate(r) ==
  /\ pc[r] = "activate"
  /\ Flush(r) /\ Go(r, "endings") /\ Forget(r)
  /\ UNCHANGED <<now, at, faults>>

\* The second query, made after the activations are committed.
FindEndings(r) ==
  /\ pc[r] = "endings"
  /\ IF DueToEnd(row, at[r])
     THEN Load(r, "finish", SetStatus(row, "COMPLETED")) /\ UNCHANGED at
     ELSE Done(r)
  /\ UNCHANGED <<row, now, faults>>

\* Mutant of Finish: the completions are not committed.
FinishWithoutCommit(r) ==
  /\ pc[r] = "finish"
  /\ Done(r)
  /\ UNCHANGED <<row, now, faults>>

Finish(r) ==
  /\ pc[r] = "finish"
  /\ Flush(r) /\ Done(r)
  /\ UNCHANGED <<now, faults>>

-----------------------------------------------------------------------------

\* The process dies, or its transaction fails, before the commit.
Fail(r) ==
  /\ pc[r] # "idle" /\ faults < MaxFaults
  /\ faults' = faults + 1
  /\ Done(r)
  /\ UNCHANGED <<row, now>>

TimePasses == now < MaxTime /\ now' = now + 1
              /\ UNCHANGED <<row, pc, copy, want, at, faults>>

Request(r) == \/ Start(r) \/ Pause(r) \/ Complete(r) \/ Archive(r)
              \/ ScheduleDraft(r) \/ ScheduleResume(r) \/ Update(r) \/ Delete(r)
PassStep(r) == Activate(r) \/ FindEndings(r) \/ Finish(r)
RequestEnd(r) == Commit(r) \/ CommitDelete(r)

Next == \/ \E r \in Replicas : \/ Request(r) \/ RequestEnd(r)
                               \/ BeginPass(r) \/ PassStep(r) \/ Fail(r)
        \/ TimePasses

Spec == Init /\ [][Next]_vars

\* Time passes and a handler that began ends.  The event loop serves a timer
\* that is due in turn, so requests do not keep a pass from beginning: strong
\* fairness.  Nobody has to send a request.
Fairness == /\ WF_vars(TimePasses)
            /\ \A r \in Replicas : /\ WF_vars(RequestEnd(r) \/ PassStep(r))
                                   /\ SF_vars(BeginPass(r))

FairSpec == Spec /\ Fairness

-----------------------------------------------------------------------------
(* Properties                                                                *)

Steps == {"idle", "commit", "delete", "activate", "endings", "finish"}

TypeOK ==
  /\ row \in Rows /\ Accepted(row)
  /\ now \in Times /\ now >= 1
  /\ pc \in [Replicas -> Steps]
  /\ copy \in [Replicas -> Rows] /\ want \in [Replicas -> Rows]
  /\ at \in [Replicas -> Times]
  /\ faults \in 0..MaxFaults

Writing(r) == pc[r] \in {"commit", "activate", "finish"}

\* With one process: a change that the endpoint's or the pass's own checks
\* let through is never one the table's constraints refuse (a 500 instead of
\* a 400, _schedule_resume's "never a database constraint error").
ChecksSuffice == \A r \in Replicas : Writing(r) => Accepted(Updated(copy[r], want[r], row))

Started == {"ACTIVE", "PAUSED", "COMPLETED"}

\* A partial rollout of an experiment that has started buckets on an id.
HasId(x) == x.status \in Started /\ x.rules.kind = "part" => x.rules.id # "none"

\* At time t: what has started did so in the past (#974), what is completed
\* ended in the past, after its start.
Truthful(x, t) ==
  /\ x.status \in Started => Reached(x.start, t)
  /\ x.status = "COMPLETED" => Reached(x.end, t) /\ x.end > x.start

\* With one process: each experiment admits its own share of users and keeps
\* it, whoever started it and whatever was edited (#533, endpoints.md:1440).
PartialHasId == HasId(row)

\* With one process: the dates of an experiment say what happened to it, by
\* hand or on schedule.
DatesTellTheTruth == Truthful(row, now)

\* Process r's pass wakes the paused experiment.
Wakes(r) == /\ pc[r] = "activate" /\ pc'[r] # "activate"
            /\ row.status = "PAUSED" /\ row'.status = "ACTIVE"

\* Process r's pass found due what has changed since: a draft, which another
\* process has started and paused, or a resume scheduled otherwise by now.
DueWhenRead(r) ==
  \/ /\ copy[r].status = "DRAFT" /\ Reached(copy[r].start, at[r])
     /\ row.resume = None
  \/ /\ copy[r].status = "PAUSED" /\ Reached(copy[r].resume, at[r])
     /\ copy[r].resume # row.resume

\* However processes interleave: a pause holds until a resume that is
\* scheduled is due, except against a pass that read the row before the pause
\* or before the schedule was changed, and found it due then.  In particular
\* the start date of a paused experiment never wakes it again (#436).
PauseHoldsUnlessRaced ==
  [][\A r \in Replicas : Wakes(r) => Reached(row.resume, now) \/ DueWhenRead(r)]_vars

Life == INSTANCE ExperimentLife WITH
          status <- row.status, rules <- row.rules, level <- row.level

\* With one process: the promised life of an experiment (ExperimentLife).
ImplementsLife == Life!Spec

\* However processes interleave and fail, an experiment whose start, resume
\* or end is due does not stay that way.
StartsHappen == DueToStart(row, now) ~> ~DueToStart(row, now)
EndsHappen == DueToEnd(row, now) ~> ~DueToEnd(row, now)
=============================================================================
