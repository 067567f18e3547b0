--------------------------- MODULE WarehouseRuns ---------------------------
(***************************************************************************)
(* Analyses and previews on customers' warehouses: admission in three      *)
(* steps, the job on the executor's thread, the run's row with its         *)
(* heartbeats, and the sweep of abandoned rows (services/                  *)
(* warehouse_runner.py, warehouse_run_accounting.py, warehouse/executor.py,*)
(* api/v1/endpoints/warehouse_analysis.py under modules/backend/app), and  *)
(* the deletion of an experiment or a connection while its runs go on.     *)
(* Time is counted in ages and in what is left, so it never runs out.      *)
(***************************************************************************)
EXTENDS Naturals, FiniteSets

CONSTANTS Processes, Requests,
          Home,           \* Home[q]: the process that serves request q
          Connections, None,
          Runs,           \* ids of rows; ids of ended and deleted ones are used again
          PerProcess,     \* executor slots a process has for runs
          MaxConcurrent,  \* WAREHOUSE_MAX_CONCURRENT_RUNS
          DailyLimit,     \* max_runs_per_day
          Total,          \* a job's total deadline
          Slack,          \* how far past it the job's last write may be
          Margin,         \* STALE_MARGIN_SECONDS
          AdmissionWait,  \* ADMISSION_WAIT_SECONDS
          MaxLate         \* bound on how long an admission takes

ASSUME NumberAssumption ==
  /\ {PerProcess, MaxConcurrent, DailyLimit, Total, Slack, Margin, AdmissionWait,
      MaxLate} \subseteq Nat
ASSUME NoneAssumption == None \notin Connections \cup Runs
ASSUME HomeAssumption == Home \in [Requests -> Processes]
\* 300 seconds of margin are more than a database write takes.
ASSUME MarginAssumption == Slack <= Margin

VARIABLES row,    \* row[r]: [status, conn, day created, age since the last sign of life]
          ask,    \* ask[q]: the request's handler
          job,    \* job[q]: its job, while it holds an executor slot
          used    \* used[c]: is it there, its rows of today and the day before

vars == <<row, ask, job, used>>

MaxAge == Total + Margin + MaxLate + 1
Statuses == {"none", "queued", "running", "finished", "abandoned"}
Days == {"today", "before", "past"}

Idle == [step |-> "idle", conn |-> None, late |-> 0, day |-> "today",
         run |-> None]
NoJob == [step |-> "none", conn |-> None, left |-> 0, patience |-> 0,
          signal |-> "none", run |-> None]

RowStates == [status : Statuses, conn : Connections \cup {None}, day : Days,
              age : 0..MaxAge]
AskStates == [step : {"idle", "admit", "release"}, conn : Connections \cup {None},
              late : 0..MaxLate, day : {"today", "before"}, run : Runs \cup {None}]
JobStates == [step : {"none", "wait", "start", "query", "finish"},
              conn : Connections \cup {None}, left : 0..(Total + Slack),
              patience : 0..AdmissionWait, signal : {"none", "cancel", "run"},
              run : Runs \cup {None}]

TypeOK ==
  /\ row \in [Runs -> RowStates]
  /\ ask \in [Requests -> AskStates]
  /\ job \in [Requests -> JobStates]
  /\ used \in [Connections -> [there : BOOLEAN, today : Nat, before : Nat]]
  /\ \A q \in Requests : job[q].step = "none" => job[q] = NoJob

\* Of a run that has ended only the number is kept, in `used`; status "none"
\* is no row at all.
Closed(s) == [status |-> s, conn |-> None, day |-> "past", age |-> 0]

Init ==
  /\ row = [r \in Runs |-> Closed("none")]
  /\ ask = [q \in Requests |-> Idle]
  /\ job = [q \in Requests |-> NoJob]
  /\ used = [c \in Connections |-> [there |-> TRUE, today |-> 0, before |-> 0]]

-----------------------------------------------------------------------------
(* What admission asks                                                     *)

InFlight(r) == row[r].status \in {"queued", "running"}
Holders(p) == {q \in Requests : Home[q] = p /\ job[q].step # "none"}

\* Mutant of Stale: it takes the row at the end of the margin, not past it.
StaleTooSoon(r, late) == InFlight(r) /\ row[r].age >= late + Total + Margin

\* sweep_abandoned: no heartbeat, counted back from the request's own clock,
\* for the total deadline and the margin.
Stale(r, late) == InFlight(r) /\ row[r].age > late + Total + Margin

\* runs_counted_today: every row since the start of the request's day.
Counted(c, day) == used[c].today + (IF day = "before" THEN used[c].before ELSE 0)

\* Mutant of IndexAllows: the index is dropped.
NoIndex(c, rows) == TRUE
\* uq_warehouse_runs_one_in_flight: one row in flight per connection; NULLs
\* are never equal.
IndexAllows(c, rows) == \A r \in rows : InFlight(r) => row[r].conn # c \/ c = None

\* Mutant of Admissible: the last run of the day is admitted twice.
AdmissibleOnceMore(c, day, live) ==
  /\ Counted(c, day) <= DailyLimit
  /\ Cardinality(live) < MaxConcurrent
  /\ IndexAllows(c, live)

\* Mutant of Admissible: the rows in flight are counted too late.
AdmissibleUncounted(c, day, live) ==
  /\ Counted(c, day) < DailyLimit
  /\ Cardinality(live) <= MaxConcurrent
  /\ IndexAllows(c, live)

\* The daily limit, the deployment's limit and the index, over the rows in
\* flight that the sweep leaves.
Admissible(c, day, live) ==
  /\ Counted(c, day) < DailyLimit
  /\ Cardinality(live) < MaxConcurrent
  /\ IndexAllows(c, live)

-----------------------------------------------------------------------------
(* The handler                                                             *)

\* Step 1, try_submit: a slot now or a refusal now.  The handler read its
\* clock just before.
Reserve(q) ==
  /\ ask[q].step = "idle" /\ job[q].step = "none"
  /\ Cardinality(Holders(Home[q])) < PerProcess
  /\ \E c \in Connections :
       /\ used[c].there
       /\ \A p \in Holders(Home[q]) : job[p].conn # c
       /\ ask' = [ask EXCEPT ![q] = [Idle EXCEPT !.step = "admit", !.conn = c]]
       /\ job' = [job EXCEPT ![q] = [NoJob EXCEPT !.step = "wait", !.conn = c,
                    !.left = Total + Slack, !.patience = AdmissionWait]]
  /\ UNCHANGED <<row, used>>

Signal(q, s, r) ==
  /\ ask' = [ask EXCEPT ![q] = Idle]
  /\ job' = IF job[q].step # "wait" THEN job
            ELSE [job EXCEPT ![q].signal = s, ![q].run = r]

\* An id without a row in flight, which no handler or job holds.
Unused(r) == /\ ~InFlight(r)
             /\ \A q \in Requests : job[q].run # r /\ ask[q].run # r

\* Step 2, admit, under the advisory lock: the sweep and the new row are
\* committed together.  The row's foreign key needs its connection.
Admit(q) ==
  /\ ask[q].step = "admit"
  /\ LET a == ask[q]
         stale == {r \in Runs : Stale(r, a.late)}
         live == {r \in Runs : InFlight(r)} \ stale
     IN /\ used[a.conn].there /\ Admissible(a.conn, a.day, live)
        /\ \E n \in Runs :
             /\ Unused(n)
             /\ row' = [r \in Runs |->
                  IF r = n THEN [status |-> "queued", conn |-> a.conn, day |-> a.day,
                                 age |-> a.late]
                  ELSE IF r \in stale THEN Closed("abandoned") ELSE row[r]]
             /\ ask' = [ask EXCEPT ![q].step = "release", ![q].run = n]
        /\ used' = IF a.day = "today" THEN [used EXCEPT ![a.conn].today = @ + 1]
                   ELSE [used EXCEPT ![a.conn].before = @ + 1]
  /\ UNCHANGED job

\* A refusal or an error rolls the sweep back and cancels the reservation.
Refuse(q) ==
  /\ ask[q].step = "admit"
  /\ Signal(q, "cancel", None)
  /\ UNCHANGED <<row, used>>

\* Step 3: the reservation is released with the committed run's id.
Release(q) ==
  /\ ask[q].step = "release"
  /\ Signal(q, "run", ask[q].run)
  /\ UNCHANGED <<row, used>>

-----------------------------------------------------------------------------
(* The job                                                                 *)

\* Mutant of End: the slot is given back, the key of its connection is not.
EndKeepingKey(q) == job' = [job EXCEPT ![q] = [NoJob EXCEPT !.conn = job[q].conn]]
End(q) == job' = [job EXCEPT ![q] = NoJob]
Goto(q, s) == job' = [job EXCEPT ![q].step = s]

\* Mutant of Wake: it waits for the release alone.
WakeReleased(q) ==
  /\ job[q].step = "wait" /\ job[q].signal = "run" /\ Goto(q, "start")
  /\ UNCHANGED <<row, ask, used>>
\* Reservation.wait: released, cancelled, or nothing within ADMISSION_WAIT.
Wake(q) ==
  /\ job[q].step = "wait"
  /\ \/ job[q].signal = "run" /\ Goto(q, "start")
     \/ job[q].signal = "cancel" /\ End(q)
     \/ job[q].signal = "none" /\ job[q].patience = 0 /\ End(q)
  /\ UNCHANGED <<row, ask, used>>

\* _start writes the row by its id, if there is one, and the query follows in
\* any case; the index may refuse a row that was swept, and an error ends the job.
Start(q) ==
  /\ job[q].step = "start"
  /\ LET r == job[q].run
     IN \/ /\ r # None => IndexAllows(row[r].conn, Runs \ {r})
           /\ row' = IF r = None THEN row
                     ELSE [row EXCEPT ![r].status = "running", ![r].age = 0]
           /\ Goto(q, "query")
        \/ End(q) /\ UNCHANGED row
  /\ UNCHANGED <<ask, used>>

\* A statement is answered before the deadline: _heartbeat.
Heartbeat(q) ==
  /\ job[q].step = "query" /\ job[q].left > Slack
  /\ row' = IF job[q].run = None THEN row ELSE [row EXCEPT ![job[q].run].age = 0]
  /\ UNCHANGED <<ask, job, used>>

\* All statements are answered, one failed, or the deadline is over.
LastStatement(q) ==
  /\ job[q].step = "query"
  /\ Goto(q, "finish")
  /\ UNCHANGED <<row, ask, used>>

\* _finish writes the row by its id whatever it holds; a failed write leaves it.
Finish(q) ==
  /\ job[q].step = "finish"
  /\ \/ job[q].run # None /\ row' = [row EXCEPT ![job[q].run] = Closed("finished")]
     \/ UNCHANGED row
  /\ End(q)
  /\ UNCHANGED <<ask, used>>

-----------------------------------------------------------------------------
(* Deletions: nothing asks whether a run is in flight.  A handler or a job *)
(* that holds the id of a deleted row holds None here: it writes no row.   *)

Lose(S, run) == IF run \in S THEN None ELSE run

\* Rows of the day on a connection that are still in flight.
Flying(c, day) == {r \in Runs : InFlight(r) /\ row[r].conn = c /\ row[r].day = day}

\* Deleting a draft experiment deletes its runs (ON DELETE CASCADE), which the
\* limits then no longer count.  Any set of rows in flight may be one's.
DeleteExperiment ==
  \E S \in SUBSET {r \in Runs : InFlight(r)} :
    /\ S # {}
    /\ row' = [r \in Runs |-> IF r \in S THEN Closed("none") ELSE row[r]]
    /\ ask' = [q \in Requests |-> [ask[q] EXCEPT !.run = Lose(S, @)]]
    /\ job' = [q \in Requests |-> [job[q] EXCEPT !.run = Lose(S, @)]]
    /\ used' = [c \in Connections |->
         [used[c] EXCEPT !.today = @ - Cardinality(Flying(c, "today") \cap S),
                         !.before = @ - Cardinality(Flying(c, "before") \cap S)]]

\* The same for runs that have ended, of which only the count is kept: one at a time.
DeleteEnded(c) ==
  /\ \/ /\ used[c].today > Cardinality(Flying(c, "today"))
        /\ used' = [used EXCEPT ![c].today = @ - 1]
     \/ /\ used[c].before > Cardinality(Flying(c, "before"))
        /\ used' = [used EXCEPT ![c].before = @ - 1]
  /\ UNCHANGED <<row, ask, job>>

\* Deleting a connection sets connection_id NULL in its runs, which go on with
\* what was loaded of it.  Its id is not used again.
DeleteConnection(c) ==
  /\ used[c].there
  /\ used' = [used EXCEPT ![c] = [there |-> FALSE, today |-> 0, before |-> 0]]
  /\ row' = [r \in Runs |-> IF row[r].conn = c THEN [row[r] EXCEPT !.conn = None] ELSE row[r]]
  /\ UNCHANGED <<ask, job>>

-----------------------------------------------------------------------------
(* Time, and the loss of a process                                         *)

\* The thread leaves the warehouse at its deadline, its writes are over
\* within Slack, and the database answers an admission within MaxLate.
Tick ==
  /\ \A q \in Requests :
       /\ ask[q].step # "idle" => ask[q].late < MaxLate
       /\ job[q].step # "none" => job[q].left > 0
       /\ job[q].step = "wait" => job[q].patience > 0
       /\ job[q].step = "query" => job[q].left > Slack
  /\ row' = [r \in Runs |-> IF InFlight(r) /\ row[r].age < MaxAge
                            THEN [row[r] EXCEPT !.age = @ + 1] ELSE row[r]]
  /\ ask' = [q \in Requests |-> IF ask[q].step = "idle" THEN ask[q]
                                ELSE [ask[q] EXCEPT !.late = @ + 1]]
  /\ job' = [q \in Requests |->
       IF job[q].step = "none" THEN job[q]
       ELSE [job[q] EXCEPT !.left = @ - 1,
               !.patience = IF job[q].step = "wait" THEN @ - 1 ELSE @]]
  /\ UNCHANGED used

\* 00:00 UTC; no admission lasts for a day.
Midnight ==
  /\ \A q \in Requests : ask[q].day = "today"
  /\ used' = [c \in Connections |-> [used[c] EXCEPT !.today = 0, !.before = used[c].today]]
  /\ ask' = [q \in Requests |-> IF ask[q].step = "idle" THEN ask[q]
                                ELSE [ask[q] EXCEPT !.day = "before"]]
  /\ row' = [r \in Runs |->
       [row[r] EXCEPT !.day = IF @ = "today" THEN "before" ELSE "past"]]
  /\ UNCHANGED job

Crash(p) ==
  /\ ask' = [q \in Requests |-> IF Home[q] = p THEN Idle ELSE ask[q]]
  /\ job' = [q \in Requests |-> IF Home[q] = p THEN NoJob ELSE job[q]]
  /\ UNCHANGED <<row, used>>

Handle(q) == Admit(q) \/ Refuse(q) \/ Release(q)
Work(q) == Wake(q) \/ Start(q) \/ LastStatement(q) \/ Finish(q)

Next == \/ \E q \in Requests : Reserve(q) \/ Handle(q) \/ Work(q) \/ Heartbeat(q)
        \/ \E c \in Connections : DeleteEnded(c) \/ DeleteConnection(c)
        \/ \E p \in Processes : Crash(p)
        \/ DeleteExperiment
        \/ Tick \/ Midnight

Spec == Init /\ [][Next]_vars

\* Time passes, threads run, and a handler gets the database's answer.
FairSpec == /\ Spec
            /\ WF_vars(Tick)
            /\ \A q \in Requests : WF_vars(Handle(q)) /\ WF_vars(Work(q))

-----------------------------------------------------------------------------
(* Properties                                                              *)

\* Of the jobs whose row nobody deleted, never more query than the deployment's
\* limit, over all processes and after any crash or sweep: the rows bound what
\* the threads really do.  Of all jobs neither this nor the next can be said:
\* docs/api/warehouse-analytics.md:172 "At once: one analysis or preview per
\* connection, and at most WAREHOUSE_MAX_CONCURRENT_RUNS" fails when the
\* experiment of a querying job is deleted.
Querying == {q \in Requests : job[q].step = "query" /\ job[q].run # None}
JobsWithinLimit == Cardinality(Querying) <= MaxConcurrent

\* No two of them query one connection, in whatever processes they are.
OneJobPerConnection ==
  \A p, q \in Querying : job[p].conn = job[q].conn => p = q

\* The sweep takes the row of no job that is still at work, whose writes by
\* the row's id would bring a finished run back: the row is in flight or deleted.
SweptIsDead ==
  \A q \in Requests : job[q].step \in {"start", "query", "finish"}
                        => job[q].run = None \/ InFlight(job[q].run)

\* No day has more rows on a connection than its limit, whatever the day an
\* admission started in and the day it ended.  Deleted rows are not counted, so
\* this bounds the rows that are there, not what the day has queried.
DailyLimitKept ==
  \A c \in Connections : used[c].today <= DailyLimit /\ used[c].before <= DailyLimit

\* Whatever processes crash, sweep, write by id and delete, each run lives the
\* promised life (models/warehouse_analysis_run.py:10): started once, ended once,
\* never back from its end, and gone for good once deleted.
Life == INSTANCE RunLife WITH
          status <- [r \in Runs |-> row[r].status],
          conn <- [r \in Runs |-> row[r].conn]
ImplementsRunLife == Life!Spec

\* Every reserved slot is freed, whatever becomes of its admission.
SlotsAreFreed == \A q \in Requests : job[q].step # "none" ~> job[q].step = "none"

\* warehouse_runner.py:31 "The reservation is released with the committed
\* run's id, and the job runs": the job still waits for the release.
ReleaseFindsJob == \A q \in Requests : ask[q].step = "release" => job[q].step = "wait"
=============================================================================
