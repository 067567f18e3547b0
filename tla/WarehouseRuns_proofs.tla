------------------------ MODULE WarehouseRuns_proofs ------------------------
(***************************************************************************)
(* TLAPS proofs about WarehouseRuns, for any number of processes, requests,*)
(* connections and rows and any durations with Slack <= Margin: types, the *)
(* load on the warehouses, that the sweep spares every job at work, the    *)
(* daily limit and the life of a run.  The rows say little about the jobs  *)
(* by themselves; the invariant ties each job to its row, for as long as   *)
(* nobody deletes it: nobody else has it, its status says how far the job  *)
(* is, its connection is the job's or deleted, and its age and the time    *)
(* the job has left never exceed the deadline together.                    *)
(***************************************************************************)
EXTENDS WarehouseRuns, FiniteSetTheorems, TLAPS

-----------------------------------------------------------------------------
(* The inductive invariant                                                 *)

\* The request's job has the row's id, or will have it from its handler.
Has(q, r) == \/ job[q].run = r
             \/ ask[q].run = r /\ job[q].step = "wait"

\* While its handler is at work a job waits, as old as the admission is late.
WaitsForHandler ==
  \A q \in Requests :
    ask[q].step # "idle" /\ job[q].step # "none"
      => /\ job[q].step = "wait" /\ job[q].signal = "none"
         /\ job[q].conn = ask[q].conn
         /\ ask[q].late + job[q].left <= Total + Slack

\* Which handlers and jobs may have a row's id.
HasRun ==
  \A q \in Requests :
    /\ ask[q].step # "idle" => ask[q].conn \in Connections
    /\ ask[q].run # None => ask[q].step = "release"
    /\ job[q].run # None => \/ job[q].step \in {"start", "query", "finish"}
                            \/ job[q].step = "wait" /\ job[q].signal = "run"

\* The row is as far as its job, on the job's connection, and young enough
\* for what the job has left.
Kept(q, r) ==
  /\ row[r].status = IF job[q].step \in {"wait", "start"} THEN "queued" ELSE "running"
  /\ \/ row[r].conn = job[q].conn
     \/ row[r].conn = None /\ ~used[job[q].conn].there
  /\ row[r].age + job[q].left <= Total + Slack
RowIsKept == \A q \in Requests, r \in Runs : Has(q, r) => Kept(q, r)

\* No two requests have the same row.
OneOwner ==
  \A p, q \in Requests :
    p # q => /\ job[p].run # None => job[p].run # job[q].run /\ job[p].run # ask[q].run
             /\ ask[p].run # None => ask[p].run # ask[q].run

\* No two requests have rows of the same connection, deleted or not.
OneEach ==
  \A p, q \in Requests, r, s \in Runs :
    Has(p, r) /\ Has(q, s) /\ job[p].conn = job[q].conn => p = q

\* What the deployment's limit keeps of the rows.
Aloft == {r \in Runs : InFlight(r)}
RowsLimited == IsFiniteSet(Aloft) /\ Cardinality(Aloft) <= MaxConcurrent

\* A row in flight is still counted in its day.
Counts ==
  \A c \in Connections :
    /\ IsFiniteSet(Flying(c, "today")) /\ IsFiniteSet(Flying(c, "before"))
    /\ Cardinality(Flying(c, "today")) <= used[c].today
    /\ Cardinality(Flying(c, "before")) <= used[c].before

IInv == /\ TypeOK /\ WaitsForHandler /\ HasRun /\ RowIsKept /\ OneOwner /\ OneEach
        /\ RowsLimited /\ Counts /\ DailyLimitKept

-----------------------------------------------------------------------------
(* Types                                                                   *)

LEMMA Numbers ==
  /\ MaxConcurrent \in Nat /\ DailyLimit \in Nat /\ Total \in Nat /\ Slack \in Nat
  /\ Margin \in Nat /\ AdmissionWait \in Nat /\ MaxLate \in Nat
  /\ MaxAge \in Nat /\ MaxLate <= MaxAge
  BY NumberAssumption DEF MaxAge

\* What a step may write of an entry keeps its type.
LEMMA EmptyEntries ==
  /\ Idle \in AskStates /\ NoJob \in JobStates
  /\ \A s \in Statuses : Closed(s) \in RowStates
  BY Numbers DEF AskStates, JobStates, RowStates, Idle, NoJob, Closed, Days

LEMMA JobEntry ==
  ASSUME NEW j \in JobStates
  PROVE  /\ \A s \in {"none", "wait", "start", "query", "finish"} :
              [j EXCEPT !.step = s] \in JobStates
         /\ \A r \in Runs \cup {None} : [j EXCEPT !.run = r] \in JobStates
  BY DEF JobStates

LEMMA RowEntry ==
  ASSUME NEW x \in RowStates
  PROVE  /\ [x EXCEPT !.age = 0] \in RowStates
         /\ [x EXCEPT !.status = "running", !.age = 0] \in RowStates
         /\ [x EXCEPT !.conn = None] \in RowStates
         /\ \A d \in Days : [x EXCEPT !.day = d] \in RowStates
<1>1. 0 \in 0..MaxAge
  BY Numbers
<1>2. QED
  BY <1>1 DEF RowStates, Statuses

LEMMA InitIInv == Init => IInv
<1> SUFFICES ASSUME Init PROVE IInv
  OBVIOUS
<1> USE Numbers, NoneAssumption DEF Init, Idle, NoJob, Closed
<1>1. Aloft = {} /\ \A c \in Connections, d \in Days : Flying(c, d) = {}
  <2>1. \A r \in Runs : ~InFlight(r)
    BY DEF InFlight
  <2>2. Aloft = {}
    BY <2>1 DEF Aloft
  <2>3. ASSUME NEW c \in Connections, NEW d \in Days PROVE Flying(c, d) = {}
    BY <2>1 DEF Flying
  <2>4. QED
    BY <2>2, <2>3
<1>2. RowsLimited
  BY <1>1, FS_EmptySet DEF RowsLimited
<1>a. Counts
  <2> SUFFICES ASSUME NEW c \in Connections
               PROVE  /\ IsFiniteSet(Flying(c, "today")) /\ IsFiniteSet(Flying(c, "before"))
                      /\ Cardinality(Flying(c, "today")) <= used[c].today
                      /\ Cardinality(Flying(c, "before")) <= used[c].before
    BY DEF Counts
  <2>1. used[c].today = 0 /\ used[c].before = 0
    OBVIOUS
  <2>2. Flying(c, "today") = {} /\ Flying(c, "before") = {}
    BY <1>1 DEF Days
  <2>3. /\ Cardinality(Flying(c, "today")) = 0 /\ Cardinality(Flying(c, "before")) = 0
        /\ IsFiniteSet(Flying(c, "today")) /\ IsFiniteSet(Flying(c, "before"))
    BY <2>2, FS_EmptySet
  <2>4. QED
    BY <2>1, <2>3
<1>3. TypeOK
  BY EmptyEntries DEF TypeOK, Statuses
<1>4. \A q \in Requests, r \in Runs : ~Has(q, r)
  BY DEF Has
<1>5. QED
  BY <1>2, <1>a, <1>3, <1>4
     DEF IInv, WaitsForHandler, HasRun, RowIsKept, OneOwner, OneEach, DailyLimitKept

\* The part of the types that is about jobs, and what a change of one job
\* keeps of it.
JobTypes == /\ job \in [Requests -> JobStates]
            /\ \A q \in Requests : job[q].step = "none" => job[q] = NoJob

LEMMA JobChange ==
  ASSUME JobTypes, NEW q \in Requests, NEW j \in JobStates,
         j.step = "none" => j = NoJob,
         job' = [job EXCEPT ![q] = j]
  PROVE  JobTypes'
  BY DEF JobTypes

LEMMA JobGoto ==
  ASSUME JobTypes, NEW q \in Requests, NEW s \in {"start", "query", "finish"},
         Goto(q, s)
  PROVE  JobTypes'
<1> DEFINE j == [job[q] EXCEPT !.step = s]
<1>1. job[q] \in JobStates
  BY DEF JobTypes
<1>2. j \in JobStates /\ j.step = s
  BY <1>1, JobEntry DEF JobStates
<1>3. job' = [job EXCEPT ![q] = j]
  BY DEF Goto
<1> HIDE DEF j
<1>4. QED
  BY <1>2, <1>3, JobChange

LEMMA JobEnd ==
  ASSUME JobTypes, NEW q \in Requests, End(q)
  PROVE  JobTypes'
  BY EmptyEntries, JobChange DEF End, NoJob

LEMMA JobSignal ==
  ASSUME JobTypes, NEW q \in Requests, NEW s \in {"cancel", "run"},
         NEW r \in Runs \cup {None}, Signal(q, s, r)
  PROVE  JobTypes'
<1> DEFINE j == [job[q] EXCEPT !.signal = s, !.run = r]
<1>1. CASE job[q].step # "wait"
  BY <1>1 DEF Signal, JobTypes
<1>2. CASE job[q].step = "wait"
  <2>1. job[q] \in JobStates
    BY DEF JobTypes
  <2>2. j \in JobStates /\ j.step = "wait"
    BY <1>2, <2>1 DEF JobStates
  <2>3. job' = [job EXCEPT ![q] = j]
    BY <1>2 DEF Signal
  <2> HIDE DEF j
  <2>4. QED
    BY <2>2, <2>3, JobChange
<1>3. QED
  BY <1>1, <1>2

\* A write by the id of a job's row, if the job has one.
LEMMA RowWrite ==
  ASSUME row \in [Runs -> RowStates], NEW r \in Runs,
         row' = [row EXCEPT ![r].status = "running", ![r].age = 0]
           \/ row' = [row EXCEPT ![r].age = 0]
  PROVE  /\ row' \in [Runs -> RowStates]
         /\ row'[r].age = 0 /\ row'[r].conn = row[r].conn /\ row'[r].day = row[r].day
         /\ row'[r].status \in {row[r].status, "running"}
         /\ \A s \in Runs \ {r} : row'[s] = row[s]
<1>1. row[r] \in RowStates
  OBVIOUS
<1>2. \/ row' = [row EXCEPT ![r] = [row[r] EXCEPT !.status = "running", !.age = 0]]
      \/ row' = [row EXCEPT ![r] = [row[r] EXCEPT !.age = 0]]
  OBVIOUS
<1>3. row' \in [Runs -> RowStates] /\ \A s \in Runs \ {r} : row'[s] = row[s]
  BY <1>1, <1>2, RowEntry
<1>4. \/ row'[r] = [row[r] EXCEPT !.status = "running", !.age = 0]
      \/ row'[r] = [row[r] EXCEPT !.age = 0]
  BY <1>2
<1>5. QED
  BY <1>1, <1>3, <1>4 DEF RowStates

\* What the deletion of rows takes from a request: their ids alone.
Bereft(q, S) ==
  /\ ask'[q].step = ask[q].step /\ ask'[q].conn = ask[q].conn
  /\ ask'[q].late = ask[q].late /\ ask'[q].day = ask[q].day
  /\ ask'[q].run = Lose(S, ask[q].run)
  /\ job'[q].step = job[q].step /\ job'[q].conn = job[q].conn
  /\ job'[q].left = job[q].left /\ job'[q].patience = job[q].patience
  /\ job'[q].signal = job[q].signal /\ job'[q].run = Lose(S, job[q].run)

\* Of the rows, the requests and the day's count, what a deletion changes.
LEMMA LoseFrame ==
  ASSUME TypeOK, DeleteExperiment
  PROVE  \E S \in SUBSET Aloft :
           /\ \A r \in Runs : row'[r] = IF r \in S THEN Closed("none") ELSE row[r]
           /\ row' \in [Runs -> RowStates] /\ ask' \in [Requests -> AskStates] /\ JobTypes'
           /\ \A q \in Requests : Bereft(q, S)
           /\ used' = [c \in Connections |->
                [used[c] EXCEPT !.today = @ - Cardinality(Flying(c, "today") \cap S),
                                !.before = @ - Cardinality(Flying(c, "before") \cap S)]]
<1>1. PICK S \in SUBSET Aloft :
        /\ row' = [r \in Runs |-> IF r \in S THEN Closed("none") ELSE row[r]]
        /\ ask' = [q \in Requests |-> [ask[q] EXCEPT !.run = Lose(S, @)]]
        /\ job' = [q \in Requests |-> [job[q] EXCEPT !.run = Lose(S, @)]]
        /\ used' = [c \in Connections |->
             [used[c] EXCEPT !.today = @ - Cardinality(Flying(c, "today") \cap S),
                             !.before = @ - Cardinality(Flying(c, "before") \cap S)]]
  BY DEF DeleteExperiment, Aloft
<1>2. Closed("none") \in RowStates
  BY EmptyEntries DEF Statuses
<1>3. row' \in [Runs -> RowStates]
  BY <1>1, <1>2 DEF TypeOK
<1>4. ASSUME NEW q \in Requests
      PROVE  /\ ask'[q] \in AskStates /\ job'[q] \in JobStates /\ Bereft(q, S)
             /\ job[q] = NoJob => job'[q] = NoJob
  <2>1. ask[q] \in AskStates /\ job[q] \in JobStates
    BY DEF TypeOK
  <2>2. Lose(S, ask[q].run) \in Runs \cup {None} /\ Lose(S, job[q].run) \in Runs \cup {None}
    BY <2>1 DEF Lose, AskStates, JobStates
  <2>3. /\ ask'[q] = [ask[q] EXCEPT !.run = Lose(S, ask[q].run)]
        /\ job'[q] = [job[q] EXCEPT !.run = Lose(S, job[q].run)]
    BY <1>1
  <2>4. job[q] = NoJob => Lose(S, job[q].run) = None
    BY DEF Lose, NoJob
  <2>5. job[q] = NoJob => job'[q] = NoJob
    BY <2>3, <2>4 DEF NoJob
  <2>6. QED
    BY <2>1, <2>2, <2>3, <2>5 DEF Bereft, AskStates, JobStates
<1>5. ask' \in [Requests -> AskStates] /\ job' \in [Requests -> JobStates]
  BY <1>1, <1>4
<1>6. JobTypes'
  BY <1>4, <1>5 DEF JobTypes, TypeOK, Bereft
<1>7. QED
  BY <1>1, <1>3, <1>4, <1>5, <1>6

\* Every step keeps the types.
LEMMA NextTypeOK == IInv /\ [Next]_vars => TypeOK'
<1> DEFINE Use == [there : BOOLEAN, today : Nat, before : Nat]
           UsedTypes == used \in [Connections -> Use]
           Types == /\ row \in [Runs -> RowStates] /\ ask \in [Requests -> AskStates]
                    /\ JobTypes /\ UsedTypes
<1> SUFFICES ASSUME IInv, [Next]_vars PROVE Types'
  BY DEF TypeOK, JobTypes
<1>0. Types
  BY DEF IInv, TypeOK, JobTypes
<1>1. ASSUME NEW q \in Requests, Reserve(q) PROVE Types'
  <2> DEFINE new(c) == [NoJob EXCEPT !.step = "wait", !.conn = c,
                          !.left = Total + Slack, !.patience = AdmissionWait]
             asked(c) == [Idle EXCEPT !.step = "admit", !.conn = c]
  <2>1. PICK c \in Connections : /\ ask' = [ask EXCEPT ![q] = asked(c)]
                                 /\ job' = [job EXCEPT ![q] = new(c)]
    BY <1>1 DEF Reserve
  <2>2. asked(c) \in AskStates /\ new(c) \in JobStates /\ new(c).step = "wait"
    <3>1. /\ 0 \in 0..MaxLate /\ Total + Slack \in 0..(Total + Slack)
          /\ AdmissionWait \in 0..AdmissionWait
      BY Numbers
    <3>2. asked(c) \in AskStates
      BY <3>1 DEF AskStates, Idle
    <3>3. new(c) \in JobStates /\ new(c).step = "wait"
      BY <3>1 DEF JobStates, NoJob
    <3>4. QED
      BY <3>2, <3>3
  <2>3. row' = row /\ used' = used
    BY <1>1 DEF Reserve
  <2> HIDE DEF new, asked
  <2>4. JobTypes'
    BY <1>0, <2>1, <2>2, JobChange
  <2>5. QED
    BY <1>0, <2>1, <2>2, <2>3, <2>4
<1>2. ASSUME NEW q \in Requests, Admit(q) PROVE Types'
  <2> DEFINE a == ask[q]
             stale == {r \in Runs : Stale(r, a.late)}
             fresh == [status |-> "queued", conn |-> a.conn, day |-> a.day, age |-> a.late]
  <2>1. PICK n \in Runs :
          /\ row' = [r \in Runs |->
               IF r = n THEN fresh
               ELSE IF r \in stale THEN Closed("abandoned") ELSE row[r]]
          /\ ask' = [ask EXCEPT ![q].step = "release", ![q].run = n]
    BY <1>2 DEF Admit
  <2>2. /\ fresh \in RowStates
        /\ [ask[q] EXCEPT !.step = "release", !.run = n] \in AskStates
    <3>1. a \in AskStates
      BY <1>0
    <3>2. a.late \in 0..MaxAge
      BY <3>1, Numbers DEF AskStates
    <3>3. QED
      BY <3>1, <3>2 DEF AskStates, RowStates, Statuses, Days
  <2> HIDE DEF fresh, stale
  <2>3. row' \in [Runs -> RowStates]
    <3> SUFFICES ASSUME NEW r \in Runs PROVE row'[r] \in RowStates
      BY <2>1
    <3>1. row[r] \in RowStates /\ Closed("abandoned") \in RowStates
      BY <1>0, EmptyEntries DEF Statuses
    <3>2. QED
      BY <2>1, <2>2, <3>1
  <2>4. ask' \in [Requests -> AskStates]
    BY <1>0, <2>1, <2>2
  <2>5. UsedTypes'
    <3>1. a.conn \in Connections
      BY <1>2 DEF IInv, HasRun, Admit
    <3>2. used' = [used EXCEPT ![a.conn].today = @ + 1]
          \/ used' = [used EXCEPT ![a.conn].before = @ + 1]
      BY <1>2 DEF Admit
    <3>3. QED
      BY <1>0, <3>1, <3>2
  <2>6. JobTypes'
    BY <1>0, <1>2 DEF Admit, JobTypes
  <2>7. QED
    BY <2>3, <2>4, <2>5, <2>6
<1>3. ASSUME NEW q \in Requests, Refuse(q) \/ Release(q) PROVE Types'
  <2>1. ask[q].run \in Runs \cup {None}
    BY <1>0 DEF AskStates
  <2>2. PICK s \in {"cancel", "run"}, r \in Runs \cup {None} : Signal(q, s, r)
    BY <1>3, <2>1 DEF Refuse, Release
  <2>3. row' = row /\ used' = used
    BY <1>3 DEF Refuse, Release
  <2>4. ask' \in [Requests -> AskStates]
    BY <1>0, <2>2, EmptyEntries DEF Signal
  <2>5. QED
    BY <1>0, <2>2, <2>3, <2>4, JobSignal
<1>4. ASSUME NEW q \in Requests, Wake(q) \/ LastStatement(q) PROVE Types'
  <2>1. JobTypes'
    BY <1>0, <1>4, JobGoto, JobEnd DEF Wake, LastStatement
  <2>2. QED
    BY <1>0, <1>4, <2>1 DEF Wake, LastStatement
<1>5. ASSUME NEW q \in Requests, Start(q) \/ Heartbeat(q) \/ Finish(q) PROVE Types'
  <2>1. JobTypes'
    BY <1>0, <1>5, JobGoto, JobEnd DEF Start, Heartbeat, Finish, JobTypes
  <2>2. job[q].run \in Runs \cup {None}
    BY <1>0 DEF JobTypes, JobStates
  <2>3. \/ row' = row
        \/ /\ job[q].run \in Runs
           /\ \/ row' = [row EXCEPT ![job[q].run].status = "running", ![job[q].run].age = 0]
              \/ row' = [row EXCEPT ![job[q].run].age = 0]
        \/ row' = [row EXCEPT ![job[q].run] = Closed("finished")]
    BY <1>5, <2>2 DEF Start, Heartbeat, Finish
  <2>4. row' \in [Runs -> RowStates]
    BY <1>0, <2>3, RowWrite, EmptyEntries DEF Statuses
  <2>5. QED
    BY <1>0, <1>5, <2>1, <2>4 DEF Start, Heartbeat, Finish
<1>6. CASE DeleteExperiment
  <2>1. PICK S \in SUBSET Aloft :
          /\ row' \in [Runs -> RowStates] /\ ask' \in [Requests -> AskStates] /\ JobTypes'
          /\ used' = [c \in Connections |->
               [used[c] EXCEPT !.today = @ - Cardinality(Flying(c, "today") \cap S),
                               !.before = @ - Cardinality(Flying(c, "before") \cap S)]]
    BY <1>6, LoseFrame DEF IInv
  <2>2. ASSUME NEW c \in Connections PROVE used'[c] \in Use
    <3>1. /\ Cardinality(Flying(c, "today") \cap S) \in Nat
          /\ Cardinality(Flying(c, "today") \cap S) <= Cardinality(Flying(c, "today"))
          /\ Cardinality(Flying(c, "today")) \in Nat
          /\ Cardinality(Flying(c, "before") \cap S) \in Nat
          /\ Cardinality(Flying(c, "before") \cap S) <= Cardinality(Flying(c, "before"))
          /\ Cardinality(Flying(c, "before")) \in Nat
      BY FS_Subset, FS_CardinalityType DEF IInv, Counts
    <3>2. /\ used[c] \in Use /\ Cardinality(Flying(c, "today")) <= used[c].today
          /\ Cardinality(Flying(c, "before")) <= used[c].before
      BY <1>0 DEF IInv, Counts
    <3>3. /\ used[c].today - Cardinality(Flying(c, "today") \cap S) \in Nat
          /\ used[c].before - Cardinality(Flying(c, "before") \cap S) \in Nat
      BY <3>1, <3>2
    <3>4. used'[c] = [used[c] EXCEPT
                        !.today = used[c].today - Cardinality(Flying(c, "today") \cap S),
                        !.before = used[c].before - Cardinality(Flying(c, "before") \cap S)]
      BY <2>1
    <3>5. QED
      BY <3>2, <3>3, <3>4
  <2>3. QED
    BY <2>1, <2>2
<1>7. ASSUME NEW c \in Connections, DeleteEnded(c) PROVE Types'
  <2>1. /\ Cardinality(Flying(c, "today")) \in Nat /\ Cardinality(Flying(c, "before")) \in Nat
        /\ used[c] \in Use
    BY <1>0, FS_CardinalityType DEF IInv, Counts
  <2>2. \/ used' = [used EXCEPT ![c] = [used[c] EXCEPT !.today = used[c].today - 1]]
           /\ used[c].today - 1 \in Nat
        \/ used' = [used EXCEPT ![c] = [used[c] EXCEPT !.before = used[c].before - 1]]
           /\ used[c].before - 1 \in Nat
    BY <1>7, <2>1 DEF DeleteEnded
  <2>3. UsedTypes'
    BY <1>0, <2>1, <2>2
  <2>4. QED
    BY <1>0, <1>7, <2>3 DEF DeleteEnded, JobTypes
<1>8. ASSUME NEW c \in Connections, DeleteConnection(c) PROVE Types'
  <2>1. row' \in [Runs -> RowStates]
    BY <1>0, <1>8, RowEntry DEF DeleteConnection
  <2>2. QED
    BY <1>0, <1>8, <2>1 DEF DeleteConnection, JobTypes
<1>9. CASE Tick
  <2>1. row' \in [Runs -> RowStates]
    <3>1. ASSUME NEW x \in RowStates, x.age < MaxAge
          PROVE  [x EXCEPT !.age = @ + 1] \in RowStates
      BY <3>1, Numbers DEF RowStates
    <3>2. row' = [r \in Runs |-> IF InFlight(r) /\ row[r].age < MaxAge
                                 THEN [row[r] EXCEPT !.age = @ + 1] ELSE row[r]]
      BY <1>9 DEF Tick
    <3>3. QED
      BY <1>0, <3>1, <3>2
  <2>2. ask' \in [Requests -> AskStates]
    <3>1. ASSUME NEW x \in AskStates, x.late < MaxLate
          PROVE  [x EXCEPT !.late = @ + 1] \in AskStates
      BY <3>1, Numbers DEF AskStates
    <3>2. /\ ask' = [q \in Requests |-> IF ask[q].step = "idle" THEN ask[q]
                                        ELSE [ask[q] EXCEPT !.late = @ + 1]]
          /\ \A q \in Requests : ask[q].step # "idle" => ask[q].late < MaxLate
      BY <1>9 DEF Tick
    <3>3. QED
      BY <1>0, <3>1, <3>2
  <2>3. ASSUME NEW q \in Requests
        PROVE  /\ job'[q] \in JobStates
               /\ job'[q].step = job[q].step
               /\ job[q].step = "none" => job'[q] = job[q]
    <3> DEFINE older(x) == [x EXCEPT !.left = @ - 1,
                              !.patience = IF x.step = "wait" THEN @ - 1 ELSE @]
    <3>1. ASSUME NEW x \in JobStates, x.left > 0, x.step = "wait" => x.patience > 0
          PROVE  older(x) \in JobStates /\ older(x).step = x.step
      <4>1. x.left - 1 \in 0..(Total + Slack)
        BY <3>1, Numbers DEF JobStates
      <4>2. (IF x.step = "wait" THEN x.patience - 1 ELSE x.patience) \in 0..AdmissionWait
        BY <3>1, Numbers DEF JobStates
      <4>3. QED
        BY <3>1, <4>1, <4>2 DEF JobStates
    <3>2. /\ job[q].step # "none" => /\ job[q].left > 0
                                     /\ job[q].step = "wait" => job[q].patience > 0
          /\ job'[q] = IF job[q].step = "none" THEN job[q] ELSE older(job[q])
      BY <1>9 DEF Tick
    <3>3. job[q] \in JobStates
      BY <1>0 DEF JobTypes
    <3> HIDE DEF older
    <3>4. QED
      BY <3>1, <3>2, <3>3
  <2>4. JobTypes'
    <3>1. job' = [q \in Requests |-> job'[q]]
      BY <1>9 DEF Tick
    <3>2. QED
      BY <1>0, <2>3, <3>1 DEF JobTypes
  <2>5. used' = used
    BY <1>9 DEF Tick
  <2>6. QED
    BY <1>0, <2>1, <2>2, <2>4, <2>5
<1>10. CASE Midnight
  <2>1. ask' \in [Requests -> AskStates]
    <3> SUFFICES ASSUME NEW q \in Requests PROVE ask'[q] \in AskStates
      BY <1>10 DEF Midnight
    <3>1. ask[q] \in AskStates
      BY <1>0
    <3>2. ask'[q] = ask[q] \/ ask'[q] = [ask[q] EXCEPT !.day = "before"]
      BY <1>10 DEF Midnight
    <3>3. QED
      BY <3>1, <3>2 DEF AskStates
  <2>2. row' \in [Runs -> RowStates]
    <3> SUFFICES ASSUME NEW r \in Runs PROVE row'[r] \in RowStates
      BY <1>10 DEF Midnight
    <3>1. row[r] \in RowStates
      BY <1>0
    <3>2. \E d \in Days : row'[r] = [row[r] EXCEPT !.day = d]
      BY <1>10 DEF Midnight, Days
    <3>3. QED
      BY <3>1, <3>2, RowEntry
  <2>3. QED
    BY <1>0, <1>10, <2>1, <2>2 DEF Midnight, JobTypes
<1>11. ASSUME NEW p \in Processes, Crash(p) PROVE Types'
  <2>1. JobTypes'
    BY <1>0, <1>11, EmptyEntries DEF Crash, JobTypes, NoJob
  <2>2. QED
    BY <1>0, <1>11, <2>1, EmptyEntries DEF Crash
<1>12. CASE UNCHANGED vars
  BY <1>0, <1>12 DEF vars, JobTypes
<1> HIDE DEF Types
<1>13. QED
  BY <1>1, <1>2, <1>3, <1>4, <1>5, <1>6, <1>7, <1>8, <1>9, <1>10, <1>11, <1>12
     DEF Next, Handle, Work

-----------------------------------------------------------------------------
(* Handlers and jobs                                                       *)

\* What time changes: clocks alone.
LEMMA TickFrame ==
  ASSUME TypeOK, Tick, NEW q \in Requests
  PROVE  /\ ask'[q].step = ask[q].step /\ ask'[q].conn = ask[q].conn
         /\ ask'[q].run = ask[q].run
         /\ job'[q].step = job[q].step /\ job'[q].conn = job[q].conn
         /\ job'[q].signal = job[q].signal /\ job'[q].run = job[q].run
         /\ ask[q].step # "idle" => ask'[q].late = ask[q].late + 1
         /\ job[q].step # "none" => job'[q].left = job[q].left - 1
<1>1. ask[q] \in AskStates /\ job[q] \in JobStates
  BY DEF TypeOK
<1>2. /\ ask'[q] = IF ask[q].step = "idle" THEN ask[q]
                   ELSE [ask[q] EXCEPT !.late = @ + 1]
      /\ job'[q] = IF job[q].step = "none" THEN job[q]
                   ELSE [job[q] EXCEPT !.left = @ - 1,
                           !.patience = IF job[q].step = "wait" THEN @ - 1 ELSE @]
  BY DEF Tick
<1>3. QED
  BY <1>1, <1>2 DEF AskStates, JobStates

\* What midnight changes: days alone.
LEMMA MidnightFrame ==
  ASSUME TypeOK, Midnight
  PROVE  /\ job' = job
         /\ \A q \in Requests :
              /\ ask'[q].step = ask[q].step /\ ask'[q].conn = ask[q].conn
              /\ ask'[q].run = ask[q].run /\ ask'[q].late = ask[q].late
         /\ \A r \in Runs :
              /\ row'[r].status = row[r].status /\ row'[r].conn = row[r].conn
              /\ row'[r].age = row[r].age
              /\ row'[r].day = IF row[r].day = "today" THEN "before" ELSE "past"
<1>1. job' = job
  BY DEF Midnight
<1>2. ASSUME NEW q \in Requests
      PROVE  /\ ask'[q].step = ask[q].step /\ ask'[q].conn = ask[q].conn
             /\ ask'[q].run = ask[q].run /\ ask'[q].late = ask[q].late
  <2>1. ask[q] \in AskStates
    BY DEF TypeOK
  <2>2. ask'[q] = ask[q] \/ ask'[q] = [ask[q] EXCEPT !.day = "before"]
    BY DEF Midnight
  <2>3. QED
    BY <2>1, <2>2 DEF AskStates
<1>3. ASSUME NEW r \in Runs
      PROVE  /\ row'[r].status = row[r].status /\ row'[r].conn = row[r].conn
             /\ row'[r].age = row[r].age
             /\ row'[r].day = IF row[r].day = "today" THEN "before" ELSE "past"
  <2>1. row[r] \in RowStates
    BY DEF TypeOK
  <2>2. row'[r] = [row[r] EXCEPT !.day = IF row[r].day = "today" THEN "before" ELSE "past"]
    BY DEF Midnight
  <2>3. QED
    BY <2>1, <2>2 DEF RowStates
<1>4. QED
  BY <1>1, <1>2, <1>3

\* A signal forgets the handler and reaches a job that still waits.
LEMMA SignalFrame ==
  ASSUME ask \in [Requests -> AskStates], job \in [Requests -> JobStates],
         NEW q \in Requests, NEW s, NEW r, Signal(q, s, r)
  PROVE  /\ ask'[q] = Idle /\ ask'[q].step = "idle"
         /\ \A p \in Requests \ {q} : ask'[p] = ask[p] /\ job'[p] = job[p]
         /\ \/ job'[q] = job[q] /\ job[q].step # "wait"
            \/ /\ job[q].step = "wait" /\ job'[q].step = "wait"
               /\ job'[q].conn = job[q].conn /\ job'[q].left = job[q].left
               /\ job'[q].signal = s /\ job'[q].run = r
<1>1. /\ ask'[q] = Idle /\ ask'[q].step = "idle"
      /\ \A p \in Requests \ {q} : ask'[p] = ask[p]
  BY DEF Signal, Idle
<1>2. CASE job[q].step # "wait"
  BY <1>1, <1>2 DEF Signal
<1>3. CASE job[q].step = "wait"
  <2>1. job' = [job EXCEPT ![q] = [job[q] EXCEPT !.signal = s, !.run = r]]
    BY <1>3 DEF Signal
  <2>2. job[q] \in JobStates
    OBVIOUS
  <2>3. /\ job'[q] = [job[q] EXCEPT !.signal = s, !.run = r]
        /\ \A p \in Requests \ {q} : job'[p] = job[p]
    BY <2>1
  <2>4. QED
    BY <1>1, <1>3, <2>2, <2>3 DEF JobStates
<1>4. QED
  BY <1>2, <1>3

\* The handler's next step, with the id it hands on.
LEMMA SignalOf ==
  ASSUME TypeOK, NEW q \in Requests, Refuse(q) \/ Release(q)
  PROVE  \E s \in {"cancel", "run"}, r \in Runs \cup {None} :
           /\ Signal(q, s, r)
           /\ s = "run" => r = ask[q].run /\ ask[q].step = "release"
           /\ s = "cancel" => r = None
<1>1. ask[q].run \in Runs \cup {None}
  BY DEF TypeOK, AskStates
<1>2. QED
  BY <1>1 DEF Refuse, Release

\* What a job's own step does to its entry: the job ends, or goes on.
LEMMA WorkFrame ==
  ASSUME TypeOK, NEW q \in Requests, Wake(q) \/ Start(q) \/ LastStatement(q) \/ Finish(q)
  PROVE  /\ ask' = ask /\ used' = used
         /\ \A p \in Requests \ {q} : job'[p] = job[p]
         /\ \/ job'[q] = NoJob
            \/ /\ job'[q].run = job[q].run /\ job'[q].conn = job[q].conn
               /\ job'[q].left = job[q].left /\ job'[q].patience = job[q].patience
               /\ \/ /\ Wake(q) /\ job[q].step = "wait" /\ job[q].signal = "run"
                     /\ job'[q].step = "start"
                  \/ Start(q) /\ job[q].step = "start" /\ job'[q].step = "query"
                  \/ LastStatement(q) /\ job[q].step = "query" /\ job'[q].step = "finish"
<1>1. job \in [Requests -> JobStates] /\ job[q] \in JobStates
  BY DEF TypeOK
<1>2. ASSUME NEW s, Goto(q, s)
      PROVE  /\ \A p \in Requests \ {q} : job'[p] = job[p]
             /\ job'[q].run = job[q].run /\ job'[q].conn = job[q].conn
             /\ job'[q].left = job[q].left /\ job'[q].patience = job[q].patience
             /\ job'[q].step = s
  <2>1. job' = [job EXCEPT ![q] = [job[q] EXCEPT !.step = s]]
    BY <1>2 DEF Goto
  <2>2. job'[q] = [job[q] EXCEPT !.step = s]
    BY <1>1, <2>1
  <2>3. QED
    BY <1>1, <2>1, <2>2 DEF JobStates
<1>3. ASSUME End(q)
      PROVE  job'[q] = NoJob /\ \A p \in Requests \ {q} : job'[p] = job[p]
  BY <1>1, <1>3 DEF End
<1>4. ask' = ask /\ used' = used
  BY DEF Wake, Start, LastStatement, Finish
<1>5. CASE Wake(q)
  BY <1>2, <1>3, <1>4, <1>5 DEF Wake
<1>6. CASE Start(q)
  BY <1>2, <1>3, <1>4, <1>6 DEF Start
<1>7. CASE LastStatement(q)
  BY <1>2, <1>4, <1>7 DEF LastStatement
<1>8. CASE Finish(q)
  BY <1>3, <1>4, <1>8 DEF Finish
<1>9. QED
  BY <1>5, <1>6, <1>7, <1>8

\* A handler's clock and its waiting job's clock run together.
LEMMA NextWaitsForHandler == IInv /\ [Next]_vars => WaitsForHandler'
<1> SUFFICES ASSUME IInv, [Next]_vars PROVE WaitsForHandler'
  OBVIOUS
<1> USE DEF WaitsForHandler
<1>0. /\ WaitsForHandler /\ TypeOK
      /\ ask \in [Requests -> AskStates] /\ job \in [Requests -> JobStates]
  BY DEF IInv, TypeOK
<1>1. ASSUME NEW q \in Requests, Reserve(q) PROVE WaitsForHandler'
  BY <1>0, <1>1, Numbers DEF Reserve, Idle, NoJob
<1>2. ASSUME NEW q \in Requests, Admit(q) PROVE WaitsForHandler'
  <2>1. PICK n \in Runs : ask' = [ask EXCEPT ![q].step = "release", ![q].run = n]
    BY <1>2 DEF Admit
  <2>2. job' = job /\ ask[q].step = "admit"
    BY <1>2 DEF Admit
  <2>3. QED
    BY <1>0, <2>1, <2>2 DEF AskStates
<1>3. ASSUME NEW q \in Requests, Refuse(q) \/ Release(q) PROVE WaitsForHandler'
  BY <1>0, <1>3 DEF Refuse, Release, Signal, Idle
<1>4. ASSUME NEW q \in Requests,
             Wake(q) \/ Start(q) \/ LastStatement(q) \/ Finish(q)
      PROVE  WaitsForHandler'
  <2>1. job'[q].step # "none" => ask[q].step = "idle"
    BY <1>0, <1>4, WorkFrame DEF NoJob
  <2>2. QED
    BY <1>0, <1>4, <2>1, WorkFrame
<1>5. ASSUME NEW q \in Requests, Heartbeat(q) PROVE WaitsForHandler'
  BY <1>0, <1>5 DEF Heartbeat
<1>6. CASE DeleteExperiment
  <2>1. PICK S \in SUBSET Aloft : \A q \in Requests : Bereft(q, S)
    BY <1>0, <1>6, LoseFrame
  <2>2. QED
    BY <1>0, <2>1 DEF Bereft
<1>7. CASE Tick
  BY <1>0, <1>7, TickFrame, Numbers DEF AskStates, JobStates, IInv
<1>8. CASE Midnight
  BY <1>0, <1>8, MidnightFrame
<1>9. ASSUME NEW p \in Processes, Crash(p) PROVE WaitsForHandler'
  BY <1>0, <1>9 DEF Crash, Idle, NoJob
<1>10. CASE UNCHANGED <<ask, job>>
  BY <1>0, <1>10
<1>11. QED
  BY <1>1, <1>2, <1>3, <1>4, <1>5, <1>6, <1>7, <1>8, <1>9, <1>10
     DEF Next, Handle, Work, DeleteEnded, DeleteConnection, vars

\* Every step hands a row's id from the handler to the job.
LEMMA NextHasRun == IInv /\ [Next]_vars => HasRun'
<1> SUFFICES ASSUME IInv, [Next]_vars PROVE HasRun'
  OBVIOUS
<1> USE NoneAssumption DEF HasRun
<1>0. /\ HasRun /\ WaitsForHandler /\ TypeOK
      /\ ask \in [Requests -> AskStates] /\ job \in [Requests -> JobStates]
  BY DEF IInv, TypeOK
<1>1. ASSUME NEW q \in Requests, Reserve(q) PROVE HasRun'
  BY <1>0, <1>1 DEF Reserve, Idle, NoJob
<1>2. ASSUME NEW q \in Requests, Admit(q) PROVE HasRun'
  <2>1. PICK n \in Runs : ask' = [ask EXCEPT ![q].step = "release", ![q].run = n]
    BY <1>2 DEF Admit
  <2>2. job' = job /\ ask[q].step = "admit"
    BY <1>2 DEF Admit
  <2>3. QED
    BY <1>0, <2>1, <2>2 DEF AskStates
<1>3. ASSUME NEW q \in Requests, Refuse(q) \/ Release(q) PROVE HasRun'
  <2>1. PICK s \in {"cancel", "run"}, r \in Runs \cup {None} :
          /\ Signal(q, s, r)
          /\ s = "cancel" => r = None
    BY <1>0, <1>3, SignalOf
  <2>2. /\ ask'[q] = Idle
        /\ \A p \in Requests \ {q} : ask'[p] = ask[p] /\ job'[p] = job[p]
        /\ \/ job'[q] = job[q]
           \/ job'[q].step = "wait" /\ job'[q].signal = s /\ job'[q].run = r
    BY <1>0, <2>1, SignalFrame
  <2>3. QED
    BY <1>0, <2>1, <2>2 DEF Idle
<1>4. ASSUME NEW q \in Requests,
             Wake(q) \/ Start(q) \/ LastStatement(q) \/ Finish(q)
      PROVE  HasRun'
  BY <1>0, <1>4, WorkFrame DEF NoJob
<1>5. ASSUME NEW q \in Requests, Heartbeat(q) PROVE HasRun'
  BY <1>0, <1>5 DEF Heartbeat
<1>6. CASE DeleteExperiment
  <2>1. PICK S \in SUBSET Aloft : \A q \in Requests : Bereft(q, S)
    BY <1>0, <1>6, LoseFrame
  <2>2. QED
    BY <1>0, <2>1 DEF Bereft, Lose
<1>7. CASE Tick
  BY <1>0, <1>7, TickFrame
<1>8. CASE Midnight
  BY <1>0, <1>8, MidnightFrame
<1>9. ASSUME NEW p \in Processes, Crash(p) PROVE HasRun'
  BY <1>0, <1>9 DEF Crash, Idle, NoJob
<1>10. CASE UNCHANGED <<ask, job>>
  BY <1>0, <1>10
<1>11. QED
  BY <1>1, <1>2, <1>3, <1>4, <1>5, <1>6, <1>7, <1>8, <1>9, <1>10
     DEF Next, Handle, Work, DeleteEnded, DeleteConnection, vars

\* Every step keeps a row with one request: a new row is nobody's.
LEMMA NextOneOwner == IInv /\ [Next]_vars => OneOwner'
<1> SUFFICES ASSUME IInv, [Next]_vars PROVE OneOwner'
  OBVIOUS
<1>0. /\ OneOwner /\ WaitsForHandler /\ TypeOK /\ HasRun
      /\ ask \in [Requests -> AskStates] /\ job \in [Requests -> JobStates]
  BY DEF IInv, TypeOK
\* A step that hands ids on within one request, or forgets them.
<1>a. ASSUME \A q \in Requests : {ask'[q].run, job'[q].run}
                                    \subseteq {ask[q].run, job[q].run, None}
      PROVE  OneOwner'
  BY <1>0, <1>a DEF OneOwner
<1>1. ASSUME NEW q \in Requests, Reserve(q) PROVE OneOwner'
  BY <1>0, <1>1, <1>a DEF Reserve, Idle, NoJob
<1>2. ASSUME NEW q \in Requests, Admit(q) PROVE OneOwner'
  <2>1. PICK n \in Runs : /\ Unused(n)
                          /\ ask' = [ask EXCEPT ![q].step = "release", ![q].run = n]
    BY <1>2 DEF Admit
  <2>2. job' = job
    BY <1>2 DEF Admit
  <2>3. QED
    BY <1>0, <2>1, <2>2 DEF AskStates, Unused, OneOwner
<1>3. ASSUME NEW q \in Requests, Refuse(q) \/ Release(q) PROVE OneOwner'
  <2>1. PICK s \in {"cancel", "run"}, r \in Runs \cup {None} :
          /\ Signal(q, s, r)
          /\ s = "cancel" => r = None
          /\ s = "run" => r = ask[q].run
    BY <1>0, <1>3, SignalOf
  <2>2. QED
    BY <1>0, <1>a, <2>1, SignalFrame DEF Idle
<1>4. ASSUME NEW q \in Requests,
             Wake(q) \/ Start(q) \/ LastStatement(q) \/ Finish(q)
      PROVE  OneOwner'
  BY <1>0, <1>4, <1>a, WorkFrame DEF NoJob
<1>5. ASSUME NEW q \in Requests, Heartbeat(q) PROVE OneOwner'
  BY <1>0, <1>5, <1>a DEF Heartbeat
<1>6. CASE DeleteExperiment
  <2>1. PICK S \in SUBSET Aloft : \A q \in Requests : Bereft(q, S)
    BY <1>0, <1>6, LoseFrame
  <2>2. QED
    BY <1>a, <2>1 DEF Bereft, Lose
<1>7. CASE Tick
  BY <1>0, <1>7, <1>a, TickFrame
<1>8. CASE Midnight
  BY <1>0, <1>8, <1>a, MidnightFrame
<1>9. ASSUME NEW p \in Processes, Crash(p) PROVE OneOwner'
  BY <1>0, <1>9, <1>a DEF Crash, Idle, NoJob
<1>10. CASE UNCHANGED <<ask, job>>
  BY <1>0, <1>10, <1>a
<1>11. QED
  BY <1>1, <1>2, <1>3, <1>4, <1>5, <1>6, <1>7, <1>8, <1>9, <1>10
     DEF Next, Handle, Work, DeleteEnded, DeleteConnection, vars

-----------------------------------------------------------------------------
(* Jobs and their rows                                                     *)

\* The margin is why the sweep spares a row that is kept for a job.
LEMMA KeptIsNotStale ==
  ASSUME TypeOK, NEW r \in Runs, NEW q \in Requests, NEW late \in Nat, Kept(q, r)
  PROVE  InFlight(r) /\ ~Stale(r, late)
<1>1. row[r].age \in Nat /\ job[q].left \in Nat
  BY DEF TypeOK, RowStates, JobStates
<1>2. InFlight(r)
  BY DEF Kept, InFlight
<1>3. QED
  BY <1>1, <1>2, Numbers, MarginAssumption DEF Kept, Stale

\* An admission leaves every row that is kept, and takes one that nobody has.
LEMMA AdmitFrame ==
  ASSUME IInv, NEW q \in Requests, Admit(q)
  PROVE  \E n \in Runs :
           /\ Unused(n) /\ job' = job /\ ask[q].step = "admit"
           /\ ask'[q].step = "release" /\ ask'[q].run = n
           /\ \A p \in Requests \ {q} : ask'[p] = ask[p]
           /\ row'[n] = [status |-> "queued", conn |-> ask[q].conn, day |-> ask[q].day,
                         age |-> ask[q].late]
           /\ \A r \in Runs \ {n} : row'[r] = IF Stale(r, ask[q].late)
                                              THEN Closed("abandoned") ELSE row[r]
           /\ \A p \in Requests, r \in Runs :
                Has(p, r) => r # n /\ ~Stale(r, ask[q].late) /\ row'[r] = row[r]
           /\ \A c \in Connections : used'[c].there = used[c].there
<1> DEFINE stale == {r \in Runs : Stale(r, ask[q].late)}
<1>1. PICK n \in Runs :
        /\ Unused(n)
        /\ row' = [r \in Runs |->
             IF r = n THEN [status |-> "queued", conn |-> ask[q].conn,
                            day |-> ask[q].day, age |-> ask[q].late]
             ELSE IF r \in stale THEN Closed("abandoned") ELSE row[r]]
        /\ ask' = [ask EXCEPT ![q].step = "release", ![q].run = n]
  BY DEF Admit
<1>2. job' = job /\ ask[q].step = "admit"
  BY DEF Admit
<1>3. /\ ask \in [Requests -> AskStates] /\ ask[q] \in AskStates
      /\ used \in [Connections -> [there : BOOLEAN, today : Nat, before : Nat]]
  BY DEF IInv, TypeOK
<1>4. ASSUME NEW p \in Requests, NEW r \in Runs, Has(p, r)
      PROVE  r # n /\ ~Stale(r, ask[q].late) /\ row'[r] = row[r]
  <2>1. Kept(p, r) /\ ask[q].late \in Nat
    BY <1>3, <1>4, Numbers DEF IInv, RowIsKept, AskStates
  <2>2. InFlight(r) /\ ~Stale(r, ask[q].late)
    BY <2>1, KeptIsNotStale DEF IInv
  <2>3. r # n
    BY <1>1, <2>2 DEF Unused
  <2>4. QED
    BY <1>1, <2>2, <2>3
<1>5. \A c \in Connections : used'[c].there = used[c].there
  <2>1. \/ used' = [used EXCEPT ![ask[q].conn].today = @ + 1]
        \/ used' = [used EXCEPT ![ask[q].conn].before = @ + 1]
    BY DEF Admit
  <2>2. QED
    BY <1>3, <2>1
<1>6. ask'[q].step = "release" /\ ask'[q].run = n
      /\ \A p \in Requests \ {q} : ask'[p] = ask[p]
  BY <1>1, <1>3 DEF AskStates
<1>7. \A r \in Runs \ {n} : row'[r] = IF Stale(r, ask[q].late)
                                      THEN Closed("abandoned") ELSE row[r]
  BY <1>1
<1>8. row'[n] = [status |-> "queued", conn |-> ask[q].conn, day |-> ask[q].day,
                 age |-> ask[q].late]
  BY <1>1
<1>9. QED
  BY <1>1, <1>2, <1>4, <1>5, <1>6, <1>7, <1>8

\* A request has no row but an admitted one, and its job keeps its connection.
LEMMA HasBefore ==
  ASSUME IInv, [Next]_vars, NEW p \in Requests, NEW r \in Runs, Has(p, r)'
  PROVE  \/ Has(p, r) /\ job'[p].conn = job[p].conn
         \/ Admit(p) /\ ask'[p].run = r /\ job[p].step = "wait"
<1> DEFINE Before == Has(p, r) /\ job'[p].conn = job[p].conn
<1> USE NoneAssumption DEF Has
<1>0. /\ TypeOK /\ HasRun /\ r # None
      /\ ask \in [Requests -> AskStates] /\ job \in [Requests -> JobStates]
  BY DEF IInv, TypeOK
<1>1. ASSUME NEW q \in Requests, Reserve(q) PROVE Before
  BY <1>0, <1>1 DEF Reserve, Idle, NoJob
<1>2. ASSUME NEW q \in Requests, Admit(q)
      PROVE  \/ Before
             \/ Admit(p) /\ ask'[p].run = r /\ job[p].step = "wait"
  <2>1. job' = job /\ \A x \in Requests \ {q} : ask'[x] = ask[x]
    BY <1>2, AdmitFrame
  <2>2. QED
    BY <1>2, <2>1
<1>3. ASSUME NEW q \in Requests, Refuse(q) \/ Release(q) PROVE Before
  <2>1. PICK s \in {"cancel", "run"}, x \in Runs \cup {None} :
          /\ Signal(q, s, x)
          /\ s = "cancel" => x = None
          /\ s = "run" => x = ask[q].run
    BY <1>0, <1>3, SignalOf
  <2>2. QED
    BY <1>0, <2>1, SignalFrame DEF Idle
<1>4. ASSUME NEW q \in Requests,
             Wake(q) \/ Start(q) \/ LastStatement(q) \/ Finish(q)
      PROVE  Before
  BY <1>0, <1>4, WorkFrame DEF NoJob
<1>5. ASSUME NEW q \in Requests, Heartbeat(q) PROVE Before
  BY <1>5 DEF Heartbeat
<1>6. CASE DeleteExperiment
  <2>1. PICK S \in SUBSET Aloft : \A q \in Requests : Bereft(q, S)
    BY <1>0, <1>6, LoseFrame
  <2>2. QED
    BY <1>0, <2>1 DEF Bereft, Lose
<1>7. CASE Tick
  BY <1>0, <1>7, TickFrame
<1>8. CASE Midnight
  BY <1>0, <1>8, MidnightFrame
<1>9. ASSUME NEW x \in Processes, Crash(x) PROVE Before
  BY <1>0, <1>9 DEF Crash, Idle, NoJob
<1>10. CASE UNCHANGED <<ask, job>>
  BY <1>10
<1>11. QED
  BY <1>1, <1>2, <1>3, <1>4, <1>5, <1>6, <1>7, <1>8, <1>9, <1>10
     DEF Next, Handle, Work, DeleteEnded, DeleteConnection, vars

\* An admission needs its connection there, and the index sees the row of
\* every request that works on it: nobody else does.
LEMMA NextOneEach == IInv /\ [Next]_vars => OneEach'
<1> SUFFICES ASSUME IInv, [Next]_vars PROVE OneEach'
  OBVIOUS
<1>0. /\ OneEach /\ RowIsKept /\ WaitsForHandler /\ HasRun /\ TypeOK
  BY DEF IInv
<1>1. SUFFICES ASSUME NEW p \in Requests, NEW q \in Requests,
                      NEW r \in Runs, NEW s \in Runs,
                      Has(p, r)', Has(q, s)', job'[p].conn = job'[q].conn, p # q
               PROVE  FALSE
  BY DEF OneEach
\* The new row of x against the row that y has.
<1>2. ASSUME NEW x \in Requests, NEW y \in Requests, x # y, Admit(x), job[x].step = "wait",
             NEW z \in Runs, Has(y, z), job[y].conn = job[x].conn
      PROVE  FALSE
  <2>1. /\ used[ask[x].conn].there /\ ask[x].step = "admit"
        /\ IndexAllows(ask[x].conn,
                       {t \in Runs : InFlight(t)} \ {t \in Runs : Stale(t, ask[x].late)})
    BY <1>2 DEF Admit, Admissible
  <2>2. job[y].conn = ask[x].conn /\ ask[x].conn \in Connections /\ ask[x].conn # None
    BY <1>0, <1>2, <2>1, NoneAssumption DEF WaitsForHandler, HasRun
  <2>3. Kept(y, z) /\ ask[x].late \in Nat
    BY <1>0, <1>2, Numbers DEF RowIsKept, TypeOK, AskStates
  <2>4. InFlight(z) /\ ~Stale(z, ask[x].late)
    BY <1>0, <2>3, KeptIsNotStale
  <2>5. row[z].conn # ask[x].conn
    BY <2>1, <2>2, <2>4 DEF IndexAllows
  <2>6. QED
    BY <2>1, <2>2, <2>3, <2>5 DEF Kept
<1>3. ASSUME NEW x \in Requests, Admit(x) PROVE job' = job
  BY <1>3 DEF Admit
<1>4. CASE Admit(p) /\ ask'[p].run = r /\ job[p].step = "wait"
  <2>1. ~Admit(q)
    BY <1>1, <1>4, AdmitFrame
  <2>2. Has(q, s)
    BY <1>1, <2>1, HasBefore
  <2>3. QED
    BY <1>1, <1>2, <1>3, <1>4, <2>2
<1>5. CASE Admit(q) /\ ask'[q].run = s /\ job[q].step = "wait"
  <2>1. ~Admit(p)
    BY <1>1, <1>5, AdmitFrame
  <2>2. Has(p, r)
    BY <1>1, <2>1, HasBefore
  <2>3. QED
    BY <1>1, <1>2, <1>3, <1>5, <2>2
<1>6. CASE /\ Has(p, r) /\ job'[p].conn = job[p].conn
           /\ Has(q, s) /\ job'[q].conn = job[q].conn
  BY <1>0, <1>1, <1>6 DEF OneEach
<1>7. QED
  BY <1>1, <1>4, <1>5, <1>6, HasBefore

\* A job's write to its row is no write to another's.
LEMMA OthersRow ==
  ASSUME IInv, NEW q \in Requests, NEW p \in Requests, p # q, job[q].run \in Runs,
         NEW r \in Runs, Has(p, r)
  PROVE  r # job[q].run
  BY NoneAssumption DEF IInv, OneOwner, Has

\* Every step keeps the rows of the jobs: an admission's sweep spares them,
\* a write by a row's id is its owner's, and clocks run together.
LEMMA NextRowIsKept == IInv /\ [Next]_vars => RowIsKept'
<1> SUFFICES ASSUME IInv, [Next]_vars, NEW p \in Requests, NEW r \in Runs, Has(p, r)'
             PROVE  Kept(p, r)'
  BY DEF RowIsKept
<1>0. /\ RowIsKept /\ WaitsForHandler /\ TypeOK /\ HasRun
      /\ ask \in [Requests -> AskStates] /\ job \in [Requests -> JobStates]
      /\ row \in [Runs -> RowStates]
      /\ used \in [Connections -> [there : BOOLEAN, today : Nat, before : Nat]]
  BY DEF IInv, TypeOK
<1>t. /\ job[p].left \in Nat /\ job[p].left <= Total + Slack /\ row[r].age \in Nat
      /\ job[p].conn \in Connections \cup {None}
  BY <1>0, Numbers DEF JobStates, RowStates
<1> DEFINE Early(s) == s \in {"wait", "start"}
           SameThere == \A c \in Connections : used'[c].there = used[c].there
           SameRow == /\ row'[r].status = row[r].status /\ row'[r].conn = row[r].conn
                      /\ row'[r].age = row[r].age
           SameJob == job'[p].conn = job[p].conn /\ job'[p].left = job[p].left
\* A step that leaves the row and the job's side of it.
<1>k. ASSUME Has(p, r), SameThere, SameRow, SameJob,
             Early(job'[p].step) <=> Early(job[p].step)
      PROVE  Kept(p, r)'
  <2>1. Kept(p, r)
    BY <1>0, <1>k DEF RowIsKept
  <2>2. \/ row'[r].conn = job'[p].conn
        \/ row'[r].conn = None /\ ~used'[job'[p].conn].there
    BY <1>t, <1>k, <2>1 DEF Kept
  <2>3. QED
    BY <1>k, <2>1, <2>2 DEF Kept
<1>1. ASSUME NEW q \in Requests, Reserve(q) PROVE Kept(p, r)'
  <2>1. p # q
    BY <1>0, <1>1, NoneAssumption DEF Reserve, Idle, NoJob, Has
  <2>2. ask'[p] = ask[p] /\ job'[p] = job[p] /\ row' = row /\ used' = used
    BY <1>0, <1>1, <2>1 DEF Reserve
  <2>3. QED
    BY <1>k, <2>2 DEF Has
<1>2. ASSUME NEW q \in Requests, Admit(q) PROVE Kept(p, r)'
  <2>1. PICK n \in Runs :
          /\ job' = job /\ ask[q].step = "admit"
          /\ ask'[q].run = n /\ \A x \in Requests \ {q} : ask'[x] = ask[x]
          /\ row'[n] = [status |-> "queued", conn |-> ask[q].conn, day |-> ask[q].day,
                        age |-> ask[q].late]
          /\ Has(p, r) => row'[r] = row[r]
          /\ SameThere
    BY <1>2, AdmitFrame
  <2>2. CASE Has(p, r)
    BY <1>k, <2>1, <2>2
  <2>3. CASE ~Has(p, r)
    <3>1. p = q /\ r = n /\ job[p].step = "wait"
      BY <2>1, <2>3 DEF Has
    <3>2. job[p].conn = ask[q].conn /\ ask[q].late + job[p].left <= Total + Slack
      BY <1>0, <2>1, <3>1 DEF WaitsForHandler
    <3>3. QED
      BY <2>1, <3>1, <3>2 DEF Kept
  <2>4. QED
    BY <2>2, <2>3
<1>3. ASSUME NEW q \in Requests, Refuse(q) \/ Release(q) PROVE Kept(p, r)'
  <2>1. PICK s \in {"cancel", "run"}, x \in Runs \cup {None} :
          /\ Signal(q, s, x)
          /\ s = "cancel" => x = None
          /\ s = "run" => x = ask[q].run
    BY <1>0, <1>3, SignalOf
  <2>2. row' = row /\ used' = used
    BY <1>3 DEF Refuse, Release
  <2>3. /\ ask'[q] = Idle
        /\ \A y \in Requests \ {q} : ask'[y] = ask[y] /\ job'[y] = job[y]
        /\ \/ job'[q] = job[q] /\ job[q].step # "wait"
           \/ /\ job[q].step = "wait" /\ job'[q].step = "wait"
              /\ job'[q].conn = job[q].conn /\ job'[q].left = job[q].left
              /\ job'[q].run = x
    BY <1>0, <2>1, SignalFrame
  <2>4. Has(p, r)
    BY <2>1, <2>3, NoneAssumption DEF Has, Idle
  <2>5. SameJob /\ (Early(job'[p].step) <=> Early(job[p].step))
    BY <2>3
  <2>6. QED
    BY <1>k, <2>2, <2>4, <2>5
<1>4. ASSUME NEW q \in Requests, Wake(q) \/ LastStatement(q) PROVE Kept(p, r)'
  <2>1. row' = row /\ used' = used
    BY <1>4 DEF Wake, LastStatement
  <2>2. ~Start(q)
    BY <1>4 DEF Wake, LastStatement, Start
  <2>3. Has(p, r) /\ SameJob /\ (Early(job'[p].step) <=> Early(job[p].step))
    BY <1>0, <1>4, <2>2, WorkFrame, NoneAssumption DEF Has, NoJob
  <2>4. QED
    BY <1>k, <2>1, <2>3
<1>5. ASSUME NEW q \in Requests, Start(q) \/ Finish(q) PROVE Kept(p, r)'
  <2>1. /\ ask' = ask /\ used' = used /\ \A x \in Requests \ {q} : job'[x] = job[x]
        /\ \/ job'[q] = NoJob
           \/ /\ job[q].step = "start" /\ job'[q].step = "query"
              /\ job'[q].run = job[q].run
              /\ job'[q].conn = job[q].conn /\ job'[q].left = job[q].left
    BY <1>0, <1>5, WorkFrame DEF Start, Finish, Wake, LastStatement
  <2>2. CASE p = q
    <3>1. /\ job[q].step = "start" /\ job'[q].step = "query" /\ job[q].run = r
          /\ job'[q].conn = job[q].conn /\ job'[q].left = job[q].left
      BY <2>1, <2>2, NoneAssumption DEF Has, NoJob
    <3>2. Goto(q, "query") /\ row' = [row EXCEPT ![r].status = "running", ![r].age = 0]
      BY <1>0, <1>5, <3>1, NoneAssumption DEF Start, Finish, End, NoJob
    <3>3. row'[r].age = 0 /\ row'[r].conn = row[r].conn /\ row'[r].status = "running"
      BY <1>0, <3>2 DEF RowStates
    <3>4. Kept(p, r)
      BY <1>0, <2>2, <3>1 DEF RowIsKept, Has
    <3>5. QED
      BY <1>t, <2>1, <2>2, <3>1, <3>3, <3>4, Numbers DEF Kept
  <2>3. CASE p # q
    <3>1. Has(p, r) /\ job'[p] = job[p]
      BY <2>1, <2>3 DEF Has
    <3>2. job[q].run \in Runs => r # job[q].run
      BY <2>3, <3>1, OthersRow
    <3>3. row'[r] = row[r]
      BY <1>0, <1>5, <3>2 DEF Start, Finish
    <3>4. QED
      BY <1>k, <2>1, <3>1, <3>3
  <2>4. QED
    BY <2>2, <2>3
<1>6. ASSUME NEW q \in Requests, Heartbeat(q) PROVE Kept(p, r)'
  <2>1. ask' = ask /\ job' = job /\ used' = used
    BY <1>6 DEF Heartbeat
  <2>2. Has(p, r)
    BY <2>1 DEF Has
  <2>3. /\ row'[r].status = row[r].status /\ row'[r].conn = row[r].conn
        /\ row'[r].age \in {row[r].age, 0}
    BY <1>0, <1>6 DEF Heartbeat, RowStates
  <2>4. Kept(p, r)
    BY <1>0, <2>2 DEF RowIsKept
  <2>5. QED
    BY <1>t, <2>1, <2>3, <2>4, Numbers DEF Kept
<1>7. CASE DeleteExperiment
  <2>1. PICK S \in SUBSET Aloft :
           /\ \A t \in Runs : row'[t] = IF t \in S THEN Closed("none") ELSE row[t]
           /\ \A q \in Requests : Bereft(q, S)
           /\ used' = [c \in Connections |->
                [used[c] EXCEPT !.today = @ - Cardinality(Flying(c, "today") \cap S),
                                !.before = @ - Cardinality(Flying(c, "before") \cap S)]]
    BY <1>0, <1>7, LoseFrame
  <2>2. Has(p, r) /\ r \notin S
    <3>1. r # None /\ \A x : Lose(S, x) = r => x = r /\ r \notin S
      BY NoneAssumption DEF Lose
    <3>2. \/ Lose(S, job[p].run) = r
          \/ Lose(S, ask[p].run) = r /\ job[p].step = "wait"
      BY <2>1 DEF Has, Bereft
    <3>3. QED
      BY <3>1, <3>2 DEF Has
  <2>3. SameThere
    BY <1>0, <2>1
  <2>4. QED
    BY <1>k, <2>1, <2>2, <2>3 DEF Bereft
<1>8. ASSUME NEW c \in Connections, DeleteEnded(c) PROVE Kept(p, r)'
  <2>1. SameThere
    BY <1>0, <1>8 DEF DeleteEnded
  <2>2. row' = row /\ ask' = ask /\ job' = job
    BY <1>8 DEF DeleteEnded
  <2>3. QED
    BY <1>k, <2>1, <2>2 DEF Has
<1>9. ASSUME NEW c \in Connections, DeleteConnection(c) PROVE Kept(p, r)'
  <2>1. ask' = ask /\ job' = job
    BY <1>9 DEF DeleteConnection
  <2>2. Kept(p, r)
    BY <1>0, <2>1 DEF RowIsKept, Has
  <2>3. ~used'[c].there /\ \A x \in Connections \ {c} : used'[x] = used[x]
    BY <1>0, <1>9 DEF DeleteConnection
  <2>4. /\ row'[r].status = row[r].status /\ row'[r].age = row[r].age
        /\ row'[r].conn = IF row[r].conn = c THEN None ELSE row[r].conn
    BY <1>0, <1>9 DEF DeleteConnection, RowStates
  <2>5. \/ row'[r].conn = job[p].conn
        \/ row'[r].conn = None /\ ~used'[job[p].conn].there
    BY <1>t, <2>2, <2>3, <2>4 DEF Kept
  <2>6. QED
    BY <2>1, <2>2, <2>4, <2>5 DEF Kept
<1>10. CASE Tick
  <2>1. Has(p, r) /\ job'[p].step = job[p].step /\ job'[p].conn = job[p].conn
    BY <1>0, <1>10, TickFrame DEF Has
  <2>2. job'[p].left = job[p].left - 1
    BY <1>0, <1>10, <2>1, TickFrame, NoneAssumption DEF Has, HasRun
  <2>3. /\ row'[r].status = row[r].status /\ row'[r].conn = row[r].conn
        /\ row'[r].age \in {row[r].age, row[r].age + 1}
    BY <1>0, <1>10 DEF Tick, RowStates
  <2>4. Kept(p, r) /\ used' = used
    BY <1>0, <1>10, <2>1 DEF RowIsKept, Tick
  <2>5. row'[r].age + job'[p].left <= Total + Slack
    BY <1>t, <2>2, <2>3, <2>4, Numbers DEF Kept
  <2>6. QED
    BY <2>1, <2>3, <2>4, <2>5 DEF Kept
<1>11. CASE Midnight
  <2>1. SameThere
    BY <1>0, <1>11 DEF Midnight
  <2>2. QED
    BY <1>0, <1>11, <1>k, <2>1, MidnightFrame DEF Has
<1>12. ASSUME NEW x \in Processes, Crash(x) PROVE Kept(p, r)'
  <2>1. row' = row /\ used' = used
    BY <1>12 DEF Crash
  <2>2. ask'[p] = ask[p] /\ job'[p] = job[p]
    BY <1>0, <1>12, NoneAssumption DEF Crash, Has, Idle, NoJob
  <2>3. QED
    BY <1>k, <2>1, <2>2 DEF Has
<1>13. CASE UNCHANGED vars
  BY <1>k, <1>13 DEF vars, Has
<1>14. QED
  BY <1>1, <1>2, <1>3, <1>4, <1>5, <1>6, <1>7, <1>8, <1>9, <1>10, <1>11, <1>12, <1>13
     DEF Next, Handle, Work

-----------------------------------------------------------------------------
(* The rows in flight                                                      *)

\* Only an admission takes a row into flight, gives it a connection or, but
\* for midnight, a day.
LEMMA RowsBefore ==
  ASSUME IInv, [Next]_vars, NEW r \in Runs, InFlight(r)'
  PROVE  \/ \E q \in Requests : Admit(q)
         \/ /\ InFlight(r) /\ row'[r].conn \in {row[r].conn, None}
            /\ row'[r].day = row[r].day \/ Midnight
<1> DEFINE Before == /\ InFlight(r) /\ row'[r].conn \in {row[r].conn, None}
                     /\ row'[r].day = row[r].day \/ Midnight
<1>0. /\ TypeOK /\ row \in [Runs -> RowStates] /\ row[r] \in RowStates
  BY DEF IInv, TypeOK
<1>1. ASSUME row'[r] = row[r] PROVE Before
  BY <1>1 DEF InFlight
<1>2. ASSUME NEW q \in Requests, Start(q) \/ Heartbeat(q) PROVE Before
  <2>1. CASE r = job[q].run
    <3>1. InFlight(r)
      BY <1>0, <2>1, KeptIsNotStale DEF IInv, RowIsKept, Has, Kept, InFlight
    <3>2. row'[r].conn = row[r].conn /\ row'[r].day = row[r].day
      BY <1>0, <1>2, <2>1, RowWrite DEF Start, Heartbeat
    <3>3. QED
      BY <3>1, <3>2
  <2>2. CASE r # job[q].run
    BY <1>0, <1>1, <1>2, <2>2 DEF Start, Heartbeat
  <2>3. QED
    BY <2>1, <2>2
<1>3. ASSUME NEW q \in Requests, Finish(q) PROVE Before
  <2>1. row'[r] = row[r] \/ row'[r] = Closed("finished")
    BY <1>0, <1>3 DEF Finish
  <2>2. QED
    BY <1>1, <2>1 DEF InFlight, Closed
<1>4. CASE DeleteExperiment
  <2>1. row'[r] = row[r] \/ row'[r] = Closed("none")
    BY <1>0, <1>4, LoseFrame
  <2>2. QED
    BY <1>1, <2>1 DEF InFlight, Closed
<1>5. ASSUME NEW c \in Connections, DeleteConnection(c) PROVE Before
  <2>1. row'[r] = row[r] \/ row'[r] = [row[r] EXCEPT !.conn = None]
    BY <1>5 DEF DeleteConnection
  <2>2. QED
    BY <1>0, <2>1 DEF InFlight, RowStates
<1>6. CASE Tick
  <2>1. row'[r] = row[r] \/ row'[r] = [row[r] EXCEPT !.age = @ + 1]
    BY <1>6 DEF Tick
  <2>2. QED
    BY <1>0, <2>1 DEF InFlight, RowStates
<1>7. CASE Midnight
  BY <1>0, <1>7, MidnightFrame DEF InFlight
<1>8. QED
  BY <1>1, <1>2, <1>3, <1>4, <1>5, <1>6, <1>7
     DEF Next, Handle, Work, Reserve, Refuse, Release, Wake, LastStatement,
         DeleteEnded, Crash, vars

LEMMA AddOne ==
  ASSUME NEW S, NEW x, IsFiniteSet(S)
  PROVE  /\ IsFiniteSet(S \cup {x})
         /\ Cardinality(S) \in Nat /\ Cardinality(S \cup {x}) \in Nat
         /\ Cardinality(S \cup {x}) <= Cardinality(S) + 1
<1>1. /\ IsFiniteSet(S \cup {x})
      /\ Cardinality(S \cup {x}) = Cardinality(S)
         \/ Cardinality(S \cup {x}) = Cardinality(S) + 1
  BY FS_AddElement
<1>2. Cardinality(S) \in Nat
  BY FS_CardinalityType
<1>3. QED
  BY <1>1, <1>2

\* The deployment's limit counts every row that the sweep leaves in flight.
LEMMA NextRowsLimited == IInv /\ [Next]_vars => RowsLimited'
<1> SUFFICES ASSUME IInv, [Next]_vars PROVE RowsLimited'
  OBVIOUS
<1>0. IsFiniteSet(Aloft) /\ Cardinality(Aloft) <= MaxConcurrent
  BY DEF IInv, RowsLimited
<1>1. ASSUME NEW q \in Requests, Admit(q) PROVE RowsLimited'
  <2> DEFINE stale == {r \in Runs : Stale(r, ask[q].late)}
             live == {r \in Runs : InFlight(r)} \ stale
  <2>1. Cardinality(live) < MaxConcurrent
    BY <1>1 DEF Admit, Admissible
  <2>2. PICK n \in Runs :
          \A r \in Runs \ {n} : row'[r] = IF Stale(r, ask[q].late)
                                          THEN Closed("abandoned") ELSE row[r]
    BY <1>1, AdmitFrame
  <2>3. ASSUME NEW r \in Runs \ {n}, InFlight(r)' PROVE r \in live
    BY <2>2, <2>3 DEF InFlight, Closed
  <2>4. live \in SUBSET Aloft
    BY DEF Aloft
  <2> HIDE DEF live
  <2>5. Aloft' \in SUBSET (live \cup {n})
    BY <2>3 DEF Aloft
  <2>6. IsFiniteSet(live) /\ Cardinality(live) \in Nat
    BY <1>0, <2>4, FS_Subset, FS_CardinalityType
  <2>7. /\ IsFiniteSet(live \cup {n}) /\ Cardinality(live \cup {n}) \in Nat
        /\ Cardinality(live \cup {n}) <= Cardinality(live) + 1
    BY <2>6, AddOne
  <2>8. /\ IsFiniteSet(Aloft') /\ Cardinality(Aloft') \in Nat
        /\ Cardinality(Aloft') <= Cardinality(live \cup {n})
    BY <2>5, <2>7, FS_Subset, FS_CardinalityType
  <2>9. QED
    BY <2>1, <2>6, <2>7, <2>8, Numbers DEF RowsLimited
<1>2. CASE ~\E q \in Requests : Admit(q)
  <2>1. Aloft' \in SUBSET Aloft
    BY <1>2, RowsBefore DEF Aloft
  <2>2. /\ IsFiniteSet(Aloft') /\ Cardinality(Aloft') <= Cardinality(Aloft)
        /\ Cardinality(Aloft') \in Nat /\ Cardinality(Aloft) \in Nat
    BY <1>0, <2>1, FS_Subset, FS_CardinalityType
  <2>3. QED
    BY <1>0, <2>2, Numbers DEF RowsLimited
<1>3. QED
  BY <1>1, <1>2

\* No step forgets to count a row in flight, nor takes off the count of its
\* day more than it deletes.
LEMMA NextCounts == IInv /\ [Next]_vars => Counts'
<1> SUFFICES ASSUME IInv, [Next]_vars, NEW c \in Connections
             PROVE  /\ IsFiniteSet(Flying(c, "today")') /\ IsFiniteSet(Flying(c, "before")')
                    /\ Cardinality(Flying(c, "today")') <= used'[c].today
                    /\ Cardinality(Flying(c, "before")') <= used'[c].before
  BY DEF Counts
<1> DEFINE today == Flying(c, "today")
           before == Flying(c, "before")
           Counted2 == /\ IsFiniteSet(today') /\ IsFiniteSet(before')
                       /\ Cardinality(today') <= used'[c].today
                       /\ Cardinality(before') <= used'[c].before
<1> SUFFICES Counted2
  OBVIOUS
<1>u. used \in [Connections -> [there : BOOLEAN, today : Nat, before : Nat]]
  BY DEF IInv, TypeOK
<1>0. /\ IsFiniteSet(today) /\ IsFiniteSet(before)
      /\ Cardinality(today) \in Nat /\ Cardinality(before) \in Nat
      /\ Cardinality(today) <= used[c].today /\ Cardinality(before) <= used[c].before
      /\ used \in [Connections -> [there : BOOLEAN, today : Nat, before : Nat]]
      /\ row \in [Runs -> RowStates] /\ TypeOK /\ c # None
  BY FS_CardinalityType, NoneAssumption DEF IInv, Counts, TypeOK
\* Sets that do not grow, and counts that keep up.
<1>k. ASSUME NEW T \in SUBSET today, NEW B \in SUBSET before, today' = T, before' = B,
             Cardinality(T) <= used'[c].today, Cardinality(B) <= used'[c].before
      PROVE  Counted2
  BY <1>0, <1>k, FS_Subset
<1>s. ASSUME today' \in SUBSET today, before' \in SUBSET before
      PROVE  /\ Cardinality(today') <= Cardinality(today) /\ Cardinality(today') \in Nat
             /\ Cardinality(before') <= Cardinality(before) /\ Cardinality(before') \in Nat
  BY <1>0, <1>s, FS_Subset, FS_CardinalityType
<1>1. ASSUME NEW q \in Requests, Admit(q) PROVE Counted2
  <2>1. PICK n \in Runs :
          /\ row'[n] = [status |-> "queued", conn |-> ask[q].conn, day |-> ask[q].day,
                        age |-> ask[q].late]
          /\ \A r \in Runs \ {n} : row'[r] = IF Stale(r, ask[q].late)
                                             THEN Closed("abandoned") ELSE row[r]
    BY <1>1, AdmitFrame
  <2>2. /\ used' = IF ask[q].day = "today" THEN [used EXCEPT ![ask[q].conn].today = @ + 1]
                   ELSE [used EXCEPT ![ask[q].conn].before = @ + 1]
        /\ ask[q].day \in {"today", "before"} /\ ask[q].conn \in Connections
    BY <1>0, <1>1 DEF Admit, TypeOK, AskStates, IInv, HasRun
  <2>3. ASSUME NEW d, NEW r \in Runs \ {n}, r \in Flying(c, d)'
        PROVE  r \in Flying(c, d)
    <3>1. InFlight(r)' /\ row'[r].conn = c /\ row'[r].day = d
      BY <2>3 DEF Flying
    <3>2. row'[r] = row[r]
      BY <2>1, <3>1 DEF InFlight, Closed
    <3>3. QED
      BY <3>1, <3>2 DEF Flying, InFlight
  <2>4. /\ today' \in SUBSET (today \cup {n}) /\ before' \in SUBSET (before \cup {n})
        /\ ask[q].conn # c \/ ask[q].day = "before" => today' \in SUBSET today
        /\ ask[q].conn # c \/ ask[q].day = "today" => before' \in SUBSET before
    <3>1. \A d : Flying(c, d)' \subseteq Runs
      BY DEF Flying
    <3>2. ask[q].conn # c \/ ask[q].day = "before" => n \notin today'
      BY <2>1 DEF Flying
    <3>3. ask[q].conn # c \/ ask[q].day = "today" => n \notin before'
      BY <2>1 DEF Flying
    <3>4. QED
      BY <2>3, <3>1, <3>2, <3>3
  <2> HIDE DEF today, before
  <2>5. /\ IsFiniteSet(today \cup {n}) /\ Cardinality(today \cup {n}) <= Cardinality(today) + 1
        /\ IsFiniteSet(before \cup {n}) /\ Cardinality(before \cup {n}) <= Cardinality(before) + 1
        /\ Cardinality(today \cup {n}) \in Nat /\ Cardinality(before \cup {n}) \in Nat
    BY <1>0, AddOne
  <2>6. /\ IsFiniteSet(today') /\ Cardinality(today') \in Nat
        /\ Cardinality(today') <= Cardinality(today \cup {n})
        /\ IsFiniteSet(before') /\ Cardinality(before') \in Nat
        /\ Cardinality(before') <= Cardinality(before \cup {n})
    BY <2>4, <2>5, FS_Subset, FS_CardinalityType
  <2>7. /\ today' \in SUBSET today => Cardinality(today') <= Cardinality(today)
        /\ before' \in SUBSET before => Cardinality(before') <= Cardinality(before)
    BY <1>0, FS_Subset
  <2>8. CASE ask[q].conn = c /\ ask[q].day = "today"
    <3>1. used'[c].today = used[c].today + 1 /\ used'[c].before = used[c].before
      BY <1>0, <2>2, <2>8
    <3>2. QED
      BY <1>0, <2>4, <2>5, <2>6, <2>7, <2>8, <3>1
  <2>9. CASE ask[q].conn = c /\ ask[q].day = "before"
    <3>1. used'[c].before = used[c].before + 1 /\ used'[c].today = used[c].today
      BY <1>0, <2>2, <2>9
    <3>2. QED
      BY <1>0, <2>4, <2>5, <2>6, <2>7, <2>9, <3>1
  <2>10. CASE ask[q].conn # c
    <3>1. used'[c] = used[c]
      BY <1>0, <2>2, <2>10
    <3>2. QED
      BY <1>0, <2>4, <2>6, <2>7, <2>10, <3>1
  <2>11. QED
    BY <2>2, <2>8, <2>9, <2>10
<1>2. CASE Midnight
  <2>1. \A r \in Runs : /\ row'[r].status = row[r].status /\ row'[r].conn = row[r].conn
                        /\ row'[r].day = IF row[r].day = "today" THEN "before" ELSE "past"
    BY <1>0, <1>2, MidnightFrame
  <2>2. today' = {} /\ before' = today
    BY <2>1 DEF Flying, InFlight
  <2>3. used'[c].today = 0 /\ used'[c].before = used[c].today
    BY <1>0, <1>2 DEF Midnight
  <2> HIDE DEF today, before
  <2>4. IsFiniteSet(today') /\ Cardinality(today') = 0
    BY <2>2, FS_EmptySet
  <2>5. QED
    BY <1>0, <2>2, <2>3, <2>4
<1>3. CASE ~Midnight /\ ~\E q \in Requests : Admit(q)
  <2>1. ASSUME NEW d, NEW r \in Flying(c, d)' PROVE r \in Flying(c, d)
    <3>1. r \in Runs /\ InFlight(r)' /\ row'[r].conn = c /\ row'[r].day = d
      BY DEF Flying
    <3>2. InFlight(r) /\ row[r].conn = c /\ row[r].day = d
      BY <1>0, <1>3, <3>1, RowsBefore
    <3>3. QED
      BY <3>1, <3>2 DEF Flying
  <2>2. today' \in SUBSET today /\ before' \in SUBSET before
    BY <2>1
  <2>3. /\ Cardinality(today') <= Cardinality(today) /\ Cardinality(today') \in Nat
        /\ Cardinality(before') <= Cardinality(before) /\ Cardinality(before') \in Nat
    BY <1>s, <2>2
  <2>4. CASE used' = used
    <3> HIDE DEF today, before
    <3>1. QED
      BY <1>0, <1>k, <2>2, <2>3, <2>4
  <2>5. ASSUME NEW x \in Connections, DeleteEnded(x) PROVE Counted2
    <3>1. CASE x = c
      <4>1. \/ /\ used[c].today > Cardinality(today)
               /\ used'[c].today = used[c].today - 1 /\ used'[c].before = used[c].before
            \/ /\ used[c].before > Cardinality(before)
               /\ used'[c].before = used[c].before - 1 /\ used'[c].today = used[c].today
        BY <1>0, <2>5, <3>1 DEF DeleteEnded
      <4> HIDE DEF today, before
      <4>2. used[c].today \in Nat /\ used[c].before \in Nat
        BY <1>0
      <4>3. Cardinality(today') <= used'[c].today /\ Cardinality(before') <= used'[c].before
        BY <1>0, <2>3, <4>1, <4>2
      <4>4. QED
        BY <1>k, <2>2, <4>3
    <3>2. CASE x # c
      <4>1. used'[c] = used[c]
        BY <1>0, <2>5, <3>2 DEF DeleteEnded
      <4> HIDE DEF today, before
      <4>2. QED
        BY <1>0, <1>k, <2>2, <2>3, <4>1
    <3>3. QED
      BY <3>1, <3>2
  <2>6. ASSUME NEW x \in Connections, DeleteConnection(x) PROVE Counted2
    <3>1. CASE x = c
      <4>1. \A r \in Runs : row'[r].conn # c
        BY <1>0, <2>6, <3>1 DEF DeleteConnection, RowStates
      <4>2. today' = {} /\ before' = {}
        BY <4>1 DEF Flying
      <4>3. used'[c].today = 0 /\ used'[c].before = 0
        BY <1>0, <2>6, <3>1 DEF DeleteConnection
      <4> HIDE DEF today, before
      <4>4. /\ IsFiniteSet(today') /\ Cardinality(today') = 0
            /\ IsFiniteSet(before') /\ Cardinality(before') = 0
        BY <4>2, FS_EmptySet
      <4>5. QED
        BY <4>3, <4>4
    <3>2. CASE x # c
      <4>1. used'[c] = used[c]
        BY <1>0, <2>6, <3>2 DEF DeleteConnection
      <4> HIDE DEF today, before
      <4>2. QED
        BY <1>0, <1>k, <2>2, <2>3, <4>1
    <3>3. QED
      BY <3>1, <3>2
  <2>7. CASE DeleteExperiment
    <3>1. PICK S \in SUBSET Aloft :
            /\ \A r \in Runs : row'[r] = IF r \in S THEN Closed("none") ELSE row[r]
            /\ used' = [x \in Connections |->
                 [used[x] EXCEPT !.today = @ - Cardinality(Flying(x, "today") \cap S),
                                 !.before = @ - Cardinality(Flying(x, "before") \cap S)]]
      BY <1>0, <2>7, LoseFrame
    <3>2. /\ used'[c].today = used[c].today - Cardinality(today \cap S)
          /\ used'[c].before = used[c].before - Cardinality(before \cap S)
      <4>1. used'[c] = [used[c] EXCEPT !.today = used[c].today - Cardinality(today \cap S),
                                       !.before = used[c].before - Cardinality(before \cap S)]
        BY <3>1
      <4>2. used[c] \in [there : BOOLEAN, today : Nat, before : Nat]
        BY <1>u
      <4> HIDE DEF today, before
      <4>3. QED
        BY <4>1, <4>2
    <3>3. ASSUME NEW d, NEW r \in Flying(c, d)' PROVE r \notin S
      <4>1. r \in Runs /\ row'[r].status \in {"queued", "running"}
        BY DEF Flying, InFlight
      <4>2. r \in S => row'[r] = Closed("none")
        BY <3>1, <4>1
      <4>3. Closed("none").status = "none"
        BY DEF Closed
      <4>4. QED
        BY <4>1, <4>2, <4>3
    <3>4. today' \in SUBSET (today \ S) /\ before' \in SUBSET (before \ S)
      BY <2>2, <3>3
    <3> HIDE DEF today, before
    <3>5. /\ IsFiniteSet(today \ S) /\ IsFiniteSet(before \ S)
          /\ Cardinality(today \ S) = Cardinality(today) - Cardinality(today \cap S)
          /\ Cardinality(before \ S) = Cardinality(before) - Cardinality(before \cap S)
      BY <1>0, FS_Difference
    <3>6. /\ Cardinality(today') <= Cardinality(today \ S)
          /\ Cardinality(before') <= Cardinality(before \ S)
      BY <3>4, <3>5, FS_Subset
    <3>7. today \cap S \in SUBSET today /\ before \cap S \in SUBSET before
      OBVIOUS
    <3>8. Cardinality(today \cap S) \in Nat /\ Cardinality(before \cap S) \in Nat
      BY <1>0, <3>7, FS_Subset, FS_CardinalityType
    <3>9. used[c].today \in Nat /\ used[c].before \in Nat
      BY <1>0
    <3>10. Cardinality(today') <= used'[c].today /\ Cardinality(before') <= used'[c].before
      BY <1>0, <2>3, <3>2, <3>5, <3>6, <3>8, <3>9
    <3>11. QED
      BY <1>k, <2>2, <3>10
  <2> HIDE DEF Counted2
  <2>8. QED
    BY <1>3, <2>4, <2>5, <2>6, <2>7
       DEF Next, Handle, Work, Reserve, Refuse, Release, Wake, Start, Heartbeat,
           LastStatement, Finish, Tick, Crash, vars
<1>4. QED
  BY <1>1, <1>2, <1>3

\* An admission of the day before counts the rows of both days.
LEMMA NextDailyLimitKept == IInv /\ [Next]_vars => DailyLimitKept'
<1> SUFFICES ASSUME IInv, [Next]_vars, NEW c \in Connections
             PROVE  used'[c].today <= DailyLimit /\ used'[c].before <= DailyLimit
  BY DEF DailyLimitKept
<1>0. /\ used \in [Connections -> [there : BOOLEAN, today : Nat, before : Nat]]
      /\ used[c].today <= DailyLimit /\ used[c].before <= DailyLimit
      /\ TypeOK /\ Counts
  BY DEF IInv, TypeOK, DailyLimitKept
<1>1. ASSUME NEW q \in Requests, Admit(q)
      PROVE  used'[c].today <= DailyLimit /\ used'[c].before <= DailyLimit
  <2> DEFINE a == ask[q]
  <2>1. Counted(a.conn, a.day) < DailyLimit
    BY <1>1 DEF Admit, Admissible
  <2>2. used' = IF a.day = "today" THEN [used EXCEPT ![a.conn].today = @ + 1]
                ELSE [used EXCEPT ![a.conn].before = @ + 1]
    BY <1>1 DEF Admit
  <2>3. a.day \in {"today", "before"}
    BY DEF IInv, TypeOK, AskStates
  <2> HIDE DEF a
  <2>4. CASE a.conn = c /\ a.day = "today"
    BY <1>0, <2>1, <2>2, <2>4, Numbers DEF Counted
  <2>5. CASE a.conn = c /\ a.day = "before"
    BY <1>0, <2>1, <2>2, <2>5, Numbers DEF Counted
  <2>6. CASE a.conn # c
    BY <1>0, <2>2, <2>6
  <2>7. QED
    BY <2>3, <2>4, <2>5, <2>6
<1>2. CASE DeleteExperiment
  <2>1. PICK S :
          used' = [x \in Connections |->
            [used[x] EXCEPT !.today = @ - Cardinality(Flying(x, "today") \cap S),
                            !.before = @ - Cardinality(Flying(x, "before") \cap S)]]
    BY <1>0, <1>2, LoseFrame
  <2>2. /\ used'[c].today = used[c].today - Cardinality(Flying(c, "today") \cap S)
        /\ used'[c].before = used[c].before - Cardinality(Flying(c, "before") \cap S)
    BY <1>0, <2>1
  <2>3. /\ Flying(c, "today") \cap S \in SUBSET Flying(c, "today")
        /\ Flying(c, "before") \cap S \in SUBSET Flying(c, "before")
    OBVIOUS
  <2>4. /\ Cardinality(Flying(c, "today") \cap S) \in Nat
        /\ Cardinality(Flying(c, "before") \cap S) \in Nat
    BY <1>0, <2>3, FS_Subset, FS_CardinalityType DEF Counts
  <2>5. used[c].today \in Nat /\ used[c].before \in Nat
    BY <1>0
  <2>6. QED
    BY <1>0, <2>2, <2>4, <2>5, Numbers
<1>3. ASSUME NEW x \in Connections, DeleteEnded(x) \/ DeleteConnection(x)
      PROVE  used'[c].today <= DailyLimit /\ used'[c].before <= DailyLimit
  <2>1. /\ used'[c].today \in {used[c].today, used[c].today - 1, 0}
        /\ used'[c].before \in {used[c].before, used[c].before - 1, 0}
    BY <1>0, <1>3 DEF DeleteEnded, DeleteConnection
  <2>2. /\ used[c].today \in Nat /\ used[c].before \in Nat
        /\ used[c].today <= DailyLimit /\ used[c].before <= DailyLimit
    BY <1>0
  <2>3. used'[c].today <= DailyLimit
    BY <2>1, <2>2, Numbers
  <2>4. used'[c].before <= DailyLimit
    BY <2>1, <2>2, Numbers
  <2>5. QED
    BY <2>3, <2>4
<1>4. CASE Midnight
  <2>1. used'[c] = [used[c] EXCEPT !.today = 0, !.before = used[c].today]
    BY <1>4 DEF Midnight
  <2>2. used[c] \in [there : BOOLEAN, today : Nat, before : Nat]
    BY <1>0
  <2>3. used'[c].today = 0 /\ used'[c].before = used[c].today
    BY <2>1, <2>2
  <2>4. QED
    BY <1>0, <2>3, Numbers
<1>5. CASE used' = used
  BY <1>0, <1>5
<1>6. QED
  BY <1>1, <1>2, <1>3, <1>4, <1>5
     DEF Next, Handle, Work, Reserve, Refuse, Release, Wake, Start, Heartbeat,
         LastStatement, Finish, Tick, Crash, vars

-----------------------------------------------------------------------------
(* The theorems                                                            *)

LEMMA Inductive == Spec => []IInv
<1>1. IInv /\ [Next]_vars => IInv'
  BY NextTypeOK, NextWaitsForHandler, NextHasRun, NextRowIsKept, NextOneOwner,
     NextOneEach, NextRowsLimited, NextCounts, NextDailyLimitKept DEF IInv
<1>2. QED
  BY InitIInv, <1>1, PTL DEF Spec

\* Rows, handlers, jobs and counts keep their types, and a slot that is free
\* has no job: no deletion takes more off a day's count than was on it.
THEOREM Typed == Spec => []TypeOK
<1>1. IInv => TypeOK
  BY DEF IInv
<1>2. QED
  BY Inductive, <1>1, PTL

\* However many processes admit, crash and sweep, the sweep leaves the row of
\* every job at work in flight: a row that is old enough has no thread left.
\* A job at work whose row is not in flight has lost it to a deletion.
THEOREM SweepSparesJobs == Spec => []SweptIsDead
<1>1. IInv => SweptIsDead
  <2> SUFFICES ASSUME IInv, NEW q \in Requests, job[q].run # None
               PROVE  InFlight(job[q].run)
    BY DEF SweptIsDead
  <2>1. job[q].run \in Runs
    BY DEF IInv, TypeOK, JobStates
  <2>2. Kept(q, job[q].run)
    BY <2>1 DEF IInv, RowIsKept, Has
  <2>3. QED
    BY <2>2 DEF Kept, InFlight
<1>2. QED
  BY Inductive, <1>1, PTL

\* The limit on rows is a limit on threads while nobody deletes the rows: at
\* most MaxConcurrent of the jobs that have theirs query, in any number of
\* processes, whatever else is deleted.
THEOREM LoadLimited == Spec => []JobsWithinLimit
<1>1. IInv => JobsWithinLimit
  <2> SUFFICES ASSUME IInv PROVE Cardinality(Querying) <= MaxConcurrent
    BY DEF JobsWithinLimit
  <2> DEFINE f == [q \in Querying |-> job[q].run]
  <2>1. ASSUME NEW q \in Querying PROVE q \in Requests /\ job[q].run \in Aloft
    <3>1. q \in Requests /\ job[q].run \in Runs
      BY DEF IInv, TypeOK, JobStates, Querying
    <3>2. Kept(q, job[q].run)
      BY <3>1 DEF IInv, RowIsKept, Has
    <3>3. QED
      BY <3>1, <3>2 DEF Kept, InFlight, Aloft
  <2>2. \A p, q \in Querying : job[p].run = job[q].run => p = q
    BY DEF IInv, OneOwner, Querying
  <2>3. f \in Injection(Querying, Aloft)
    BY <2>1, <2>2 DEF Injection, IsInjective
  <2>4. IsFiniteSet(Aloft) /\ Cardinality(Aloft) <= MaxConcurrent
    BY DEF IInv, RowsLimited
  <2>5. IsFiniteSet(Querying) /\ Cardinality(Querying) <= Cardinality(Aloft)
    BY <2>3, <2>4, FS_Injection
  <2>6. QED
    BY <2>4, <2>5, FS_CardinalityType, Numbers
<1>2. QED
  BY Inductive, <1>1, PTL

\* The index on rows is one on threads: no two jobs that have their rows query
\* one connection, even when it is deleted under them and the index, for which
\* NULLs are never equal, no longer sees it.
THEOREM OneJobEach == Spec => []OneJobPerConnection
<1>1. IInv => OneJobPerConnection
  <2> SUFFICES ASSUME IInv, NEW p \in Querying, NEW q \in Querying,
                      job[p].conn = job[q].conn
               PROVE  p = q
    BY DEF OneJobPerConnection
  <2>1. /\ p \in Requests /\ job[p].run \in Runs /\ Has(p, job[p].run)
        /\ q \in Requests /\ job[q].run \in Runs /\ Has(q, job[q].run)
    BY DEF IInv, TypeOK, JobStates, Querying, Has
  <2>2. QED
    BY <2>1 DEF IInv, OneEach
<1>2. QED
  BY Inductive, <1>1, PTL

\* No day's rows pass a connection's limit, at midnight neither.
THEOREM LimitPerDay == Spec => []DailyLimitKept
<1>1. IInv => DailyLimitKept
  BY DEF IInv
<1>2. QED
  BY Inductive, <1>1, PTL

-----------------------------------------------------------------------------
(* The life of a run                                                       *)

\* The abstract specification counts as this one does.
LEMMA SameCount == \A X : Life!Cardinality(X) = Cardinality(X)
  BY DEF Cardinality, Life!Cardinality

\* The row of a job that has one, before its step.
LEMMA RowOfJob ==
  ASSUME IInv, NEW q \in Requests, job[q].run # None,
         job[q].step \in {"start", "query", "finish"}
  PROVE  /\ job[q].run \in Runs
         /\ row[job[q].run].status = IF job[q].step = "start" THEN "queued" ELSE "running"
<1>1. job[q].run \in Runs
  BY DEF IInv, TypeOK, JobStates
<1>2. Kept(q, job[q].run)
  BY <1>1 DEF IInv, RowIsKept, Has
<1>3. QED
  BY <1>1, <1>2 DEF Kept

\* Every step is one of a run's life or leaves it alone.
LEMMA LifeStep == IInv /\ [Next]_vars => [Life!Next]_(Life!vars)
<1> SUFFICES ASSUME IInv, [Next]_vars PROVE [Life!Next]_(Life!vars)
  OBVIOUS
<1>0. TypeOK /\ HasRun /\ row \in [Runs -> RowStates] /\ \A r \in Runs : row[r] \in RowStates
  BY DEF IInv, TypeOK
<1> DEFINE S == [r \in Runs |-> row[r].status]
           C == [r \in Runs |-> row[r].conn]
<1>s. ASSUME \A r \in Runs : row'[r].status = row[r].status /\ row'[r].conn = row[r].conn
      PROVE  UNCHANGED Life!vars
  BY <1>s DEF Life!vars
<1>f. Life!Flying = {r \in Runs : InFlight(r)}
  BY DEF Life!Flying, InFlight
<1>1. ASSUME NEW q \in Requests, Admit(q) PROVE Life!Next
  <2> DEFINE c == ask[q].conn
             stale == {r \in Runs : Stale(r, ask[q].late)}
             live == {r \in Runs : InFlight(r)} \ stale
             lost == {r \in Life!Flying : S'[r] = "abandoned"}
  <2>1. /\ Cardinality(live) < MaxConcurrent
        /\ \A r \in live : InFlight(r) => row[r].conn # c \/ c = None
    BY <1>1 DEF Admit, Admissible, IndexAllows
  <2>2. PICK n \in Runs :
          /\ Unused(n)
          /\ row'[n] = [status |-> "queued", conn |-> c, day |-> ask[q].day,
                        age |-> ask[q].late]
          /\ \A r \in Runs \ {n} : row'[r] = IF Stale(r, ask[q].late)
                                             THEN Closed("abandoned") ELSE row[r]
    BY <1>1, AdmitFrame
  <2>3. c \in Connections /\ c # None
    BY <1>0, <1>1, NoneAssumption DEF Admit, HasRun
  <2>4. n \notin Life!Flying /\ S'[n] = "queued" /\ C'[n] = c
    BY <1>f, <2>2 DEF Unused
  <2>5. ASSUME NEW r \in Runs \ {n}
        PROVE  /\ S'[r] = IF r \in stale THEN "abandoned" ELSE S[r]
               /\ C'[r] = IF r \in stale THEN None ELSE C[r]
    BY <2>2 DEF Closed
  <2>6. lost = stale
    <3>1. stale \subseteq Life!Flying
      BY <1>f DEF Stale
    <3>2. \A r \in Life!Flying : r \in Runs \ {n} /\ S[r] # "abandoned"
      BY <1>f, <2>4 DEF InFlight
    <3> HIDE DEF stale, S
    <3>3. QED
      BY <2>5, <3>1, <3>2
  <2>7. Life!Flying \ lost = live
    BY <1>f, <2>6
  <2> HIDE DEF stale, live, c
  <2>8. /\ S' = [r \in Runs |-> IF r = n THEN "queued"
                                ELSE IF r \in lost THEN "abandoned" ELSE S[r]]
        /\ C' = [r \in Runs |-> IF r = n THEN C'[n]
                                ELSE IF r \in lost THEN None ELSE C[r]]
    <3> HIDE DEF lost
    <3>1. ASSUME NEW r \in Runs
          PROVE  /\ row'[r].status = IF r = n THEN "queued"
                                     ELSE IF r \in lost THEN "abandoned" ELSE S[r]
                 /\ row'[r].conn = IF r = n THEN C'[n]
                                   ELSE IF r \in lost THEN None ELSE C[r]
      BY <2>4, <2>5, <2>6
    <3>2. QED
      BY <3>1
  <2>9. /\ Cardinality(Life!Flying \ lost) < MaxConcurrent
        /\ \A r \in Life!Flying \ lost : C[r] # C'[n]
    <3>1. \A r \in live : r \in Runs /\ row[r].conn # c
      BY <2>1, <2>3 DEF live
    <3>2. QED
      BY <2>1, <2>4, <2>7, <3>1
  <2>10. Life!Queue(n)
    <3>1. C'[n] \in Connections
      BY <2>3, <2>4
    <3>2. QED
      BY <2>4, <2>8, <2>9, <3>1, SameCount DEF Life!Queue, S, C, lost
  <2>11. QED
    BY <2>10 DEF Life!Next
<1>2. ASSUME NEW q \in Requests, Start(q) PROVE [Life!Next]_(Life!vars)
  <2>1. CASE row' = row
    BY <1>s, <2>1
  <2>2. CASE row' # row
    <3>1. /\ job[q].run \in Runs /\ row[job[q].run].status = "queued"
          /\ row' = [row EXCEPT ![job[q].run].status = "running", ![job[q].run].age = 0]
      BY <1>2, <2>2, RowOfJob DEF Start
    <3>2. S' = [S EXCEPT ![job[q].run] = "running"] /\ C' = C
      BY <1>0, <3>1 DEF RowStates
    <3>3. S[job[q].run] = "queued"
      BY <3>1
    <3> HIDE DEF S, C
    <3>4. \E r \in Runs : Life!Start(r)
      BY <3>1, <3>2, <3>3 DEF Life!Start, S, C
    <3>5. QED
      BY <3>4 DEF Life!Next
  <2>3. QED
    BY <2>1, <2>2
<1>3. ASSUME NEW q \in Requests, Finish(q) PROVE [Life!Next]_(Life!vars)
  <2>1. CASE row' = row
    BY <1>s, <2>1
  <2>2. CASE row' # row
    <3>1. /\ job[q].run \in Runs /\ row[job[q].run].status = "running"
          /\ row' = [row EXCEPT ![job[q].run] = Closed("finished")]
      BY <1>3, <2>2, RowOfJob DEF Finish
    <3>2. S' = [S EXCEPT ![job[q].run] = "finished"] /\ C' = [C EXCEPT ![job[q].run] = None]
      BY <1>0, <3>1 DEF Closed
    <3>3. S[job[q].run] = "running"
      BY <3>1
    <3> HIDE DEF S, C
    <3>4. \E r \in Runs : Life!Finish(r)
      BY <3>1, <3>2, <3>3 DEF Life!Finish, S, C
    <3>5. QED
      BY <3>4 DEF Life!Next
  <2>3. QED
    BY <2>1, <2>2
<1>4. CASE DeleteExperiment
  <2> DEFINE gone == {r \in Life!Flying : S'[r] = "none"}
  <2>1. PICK D \in SUBSET Aloft :
          \A r \in Runs : row'[r] = IF r \in D THEN Closed("none") ELSE row[r]
    BY <1>0, <1>4, LoseFrame
  <2>2. \A r \in Runs : /\ S'[r] = IF r \in D THEN "none" ELSE S[r]
                        /\ C'[r] = IF r \in D THEN None ELSE C[r]
    BY <2>1 DEF Closed
  <2>3. gone = D
    <3>1. D \subseteq Life!Flying
      BY <1>f DEF Aloft
    <3>2. \A r \in Life!Flying : r \in Runs /\ S[r] # "none"
      BY <1>f DEF InFlight
    <3> HIDE DEF S
    <3>3. QED
      BY <2>2, <3>1, <3>2
  <2>4. /\ S' = [r \in Runs |-> IF r \in gone THEN "none" ELSE S[r]]
        /\ C' = [r \in Runs |-> IF r \in gone THEN None ELSE C[r]]
    <3> HIDE DEF gone
    <3>1. \A r \in Runs : /\ row'[r].status = IF r \in gone THEN "none" ELSE S[r]
                          /\ row'[r].conn = IF r \in gone THEN None ELSE C[r]
      BY <2>2, <2>3
    <3>2. QED
      BY <3>1
  <2>5. Life!Delete
    BY <2>4 DEF Life!Delete, S, C, gone
  <2>6. QED
    BY <2>5 DEF Life!Next
<1>5. ASSUME NEW c \in Connections, DeleteConnection(c) PROVE Life!Next
  <2>1. ASSUME NEW r \in Runs
        PROVE  /\ row'[r].status = row[r].status
               /\ row'[r].conn = IF row[r].conn = c THEN None ELSE row[r].conn
    BY <1>0, <1>5 DEF DeleteConnection, RowStates
  <2>2. S' = S /\ C' = [r \in Runs |-> IF C[r] = c THEN None ELSE C[r]]
    BY <2>1
  <2>3. Life!Detach(c)
    BY <2>2 DEF Life!Detach, S, C
  <2>4. QED
    BY <2>3 DEF Life!Next
<1>6. ASSUME NEW q \in Requests, Heartbeat(q) PROVE UNCHANGED Life!vars
  BY <1>0, <1>6, <1>s DEF Heartbeat, RowStates
<1>7. CASE Tick
  BY <1>0, <1>7, <1>s DEF Tick, RowStates
<1>8. CASE Midnight
  BY <1>0, <1>8, <1>s, MidnightFrame
<1>9. CASE row' = row
  BY <1>9, <1>s
<1>10. QED
  BY <1>1, <1>2, <1>3, <1>4, <1>5, <1>6, <1>7, <1>8, <1>9
     DEF Next, Handle, Work, Reserve, Refuse, Release, Wake, LastStatement,
         DeleteEnded, Crash, vars

\* For any processes, however they crash, sweep and delete, runs live the
\* promised life: no write by id brings back a run that has ended or is gone.
THEOREM RunsLive == Spec => ImplementsRunLife
<1>1. Init => Life!Init
  BY DEF Init, Closed, Life!Init
<1>2. QED
  BY <1>1, Inductive, LifeStep, PTL DEF Spec, ImplementsRunLife, Life!Spec

-----------------------------------------------------------------------------
(* The executor's slots                                                    *)

\* A process never works on more runs than it has slots, nor on two of one
\* connection, the key of try_submit.
SlotsKept ==
  \A p \in Processes :
    /\ IsFiniteSet(Holders(p)) /\ Cardinality(Holders(p)) <= PerProcess
    /\ \A q, r \in Holders(p) : job[q].conn = job[r].conn => q = r

\* No step but a reservation gives a request a job, or its job a connection.
LEMMA JobsOnlyReserved ==
  ASSUME TypeOK, [Next]_vars
  PROVE  \/ \E q \in Requests : Reserve(q)
         \/ \A q \in Requests : job'[q].step # "none"
              => job[q].step # "none" /\ job'[q].conn = job[q].conn
<1> DEFINE Same == \A q \in Requests : job'[q].step # "none"
                     => job[q].step # "none" /\ job'[q].conn = job[q].conn
<1>0. ask \in [Requests -> AskStates] /\ job \in [Requests -> JobStates]
  BY DEF TypeOK
<1>1. ASSUME NEW q \in Requests, Refuse(q) \/ Release(q) PROVE Same
  <2>1. PICK s, r : Signal(q, s, r)
    BY <1>1 DEF Refuse, Release
  <2>2. QED
    BY <1>0, <2>1, SignalFrame
<1>2. ASSUME NEW q \in Requests, Wake(q) \/ Start(q) \/ LastStatement(q) \/ Finish(q)
      PROVE  Same
  BY <1>0, <1>2, WorkFrame DEF NoJob
<1>3. CASE Tick
  BY <1>3, TickFrame
<1>4. ASSUME NEW p \in Processes, Crash(p) PROVE Same
  BY <1>0, <1>4 DEF Crash, NoJob
<1>5. CASE DeleteExperiment
  <2>1. PICK S \in SUBSET Aloft : \A q \in Requests : Bereft(q, S)
    BY <1>5, LoseFrame
  <2>2. QED
    BY <2>1 DEF Bereft
<1>6. CASE UNCHANGED job
  BY <1>6
<1>7. QED
  BY <1>1, <1>2, <1>3, <1>4, <1>5, <1>6
     DEF Next, Handle, Work, Admit, Heartbeat, DeleteEnded, DeleteConnection, Midnight, vars

LEMMA NextSlotsKept == TypeOK /\ SlotsKept /\ [Next]_vars => SlotsKept'
<1> SUFFICES ASSUME TypeOK, SlotsKept, [Next]_vars, NEW p \in Processes
             PROVE  /\ IsFiniteSet(Holders(p)') /\ Cardinality(Holders(p)') <= PerProcess
                    /\ \A q, r \in Holders(p)' : job'[q].conn = job'[r].conn => q = r
  BY DEF SlotsKept
<1>0. /\ IsFiniteSet(Holders(p)) /\ Cardinality(Holders(p)) <= PerProcess
      /\ \A q, r \in Holders(p) : job[q].conn = job[r].conn => q = r
      /\ Cardinality(Holders(p)) \in Nat /\ PerProcess \in Nat
  BY FS_CardinalityType, NumberAssumption DEF SlotsKept
<1>1. CASE \A q \in Requests : job'[q].step # "none"
             => job[q].step # "none" /\ job'[q].conn = job[q].conn
  <2>1. Holders(p)' \subseteq Holders(p)
    BY <1>1 DEF Holders
  <2>2. /\ IsFiniteSet(Holders(p)')
        /\ Cardinality(Holders(p)') <= Cardinality(Holders(p))
        /\ Cardinality(Holders(p)') \in Nat
    BY <1>0, <2>1, FS_Subset, FS_CardinalityType
  <2>3. \A q \in Holders(p)' : q \in Holders(p) /\ job'[q].conn = job[q].conn
    BY <1>1, <2>1 DEF Holders
  <2>4. QED
    BY <1>0, <2>2, <2>3
<1>2. ASSUME NEW q \in Requests, Reserve(q)
      PROVE  /\ IsFiniteSet(Holders(p)') /\ Cardinality(Holders(p)') <= PerProcess
             /\ \A r, s \in Holders(p)' : job'[r].conn = job'[s].conn => r = s
  <2>1. PICK c \in Connections :
          /\ \A r \in Holders(Home[q]) : job[r].conn # c
          /\ job' = [job EXCEPT ![q] = [NoJob EXCEPT !.step = "wait", !.conn = c,
                       !.left = Total + Slack, !.patience = AdmissionWait]]
    BY <1>2 DEF Reserve
  <2>2. /\ job[q].step = "none" /\ Cardinality(Holders(Home[q])) < PerProcess
        /\ job'[q].step = "wait" /\ job'[q].conn = c
        /\ \A r \in Requests \ {q} : job'[r] = job[r]
    BY <1>2, <2>1 DEF Reserve, TypeOK, NoJob
  <2>3. CASE Home[q] = p
    <3>1. Holders(p)' = Holders(p) \cup {q} /\ q \notin Holders(p)
      BY <2>2, <2>3 DEF Holders
    <3>2. /\ IsFiniteSet(Holders(p)')
          /\ Cardinality(Holders(p)') = Cardinality(Holders(p)) + 1
      BY <1>0, <3>1, FS_AddElement
    <3>3. \A r \in Holders(p) : r \in Requests /\ job'[r].conn = job[r].conn /\ job[r].conn # c
      BY <2>1, <2>2, <2>3, <3>1 DEF Holders
    <3>4. \A r, s \in Holders(p)' : job'[r].conn = job'[s].conn => r = s
      BY <1>0, <2>2, <3>1, <3>3
    <3>5. QED
      BY <1>0, <2>2, <2>3, <3>2, <3>4
  <2>4. CASE Home[q] # p
    <3>1. Holders(p)' = Holders(p) /\ \A r \in Holders(p) : job'[r] = job[r]
      BY <2>2, <2>4 DEF Holders
    <3>2. QED
      BY <1>0, <3>1
  <2>5. QED
    BY <2>3, <2>4
<1>3. QED
  BY <1>1, <1>2, JobsOnlyReserved

\* Reservations, crashes and ends of jobs in any order keep every process
\* within its slots, with a connection in at most one of them.
THEOREM SlotsLimited == Spec => []SlotsKept
<1>1. Init => SlotsKept
  <2> SUFFICES ASSUME Init, NEW p \in Processes
               PROVE  Holders(p) = {} /\ IsFiniteSet({}) /\ Cardinality({}) <= PerProcess
    BY DEF SlotsKept
  <2>1. Holders(p) = {}
    BY DEF Init, Holders, NoJob
  <2>2. QED
    BY <2>1, FS_EmptySet, NumberAssumption
<1>2. QED
  BY <1>1, NextSlotsKept, Typed, PTL DEF Spec

-----------------------------------------------------------------------------
(* An admission that is quicker than its job's patience                    *)

\* The job of a handler at work waits, and its patience and the handler's
\* delay add up.
Prompt ==
  \A q \in Requests :
    ask[q].step # "idle"
      => /\ job[q].step = "wait" /\ job[q].signal = "none"
         /\ job[q].patience + ask[q].late = AdmissionWait

LEMMA NextPrompt ==
  ASSUME MaxLate < AdmissionWait
  PROVE  TypeOK /\ Prompt /\ [Next]_vars => Prompt'
<1> SUFFICES ASSUME TypeOK, Prompt, [Next]_vars PROVE Prompt'
  OBVIOUS
<1> USE Numbers DEF Prompt
<1>0. /\ ask \in [Requests -> AskStates] /\ job \in [Requests -> JobStates]
      /\ \A q \in Requests : ask[q].late \in Nat /\ ask[q].late < AdmissionWait
                             /\ job[q].patience \in Nat
  BY DEF TypeOK, AskStates, JobStates
<1>1. ASSUME NEW q \in Requests, Reserve(q) PROVE Prompt'
  BY <1>0, <1>1 DEF Reserve, Idle, NoJob
<1>2. ASSUME NEW q \in Requests, Admit(q) PROVE Prompt'
  <2>1. PICK n \in Runs : ask' = [ask EXCEPT ![q].step = "release", ![q].run = n]
    BY <1>2 DEF Admit
  <2>2. job' = job /\ ask[q].step = "admit"
    BY <1>2 DEF Admit
  <2>3. QED
    BY <1>0, <2>1, <2>2 DEF AskStates
<1>3. ASSUME NEW q \in Requests, Refuse(q) \/ Release(q) PROVE Prompt'
  <2>1. PICK s, r : Signal(q, s, r)
    BY <1>3 DEF Refuse, Release
  <2>2. QED
    BY <1>0, <2>1, SignalFrame
<1>4. ASSUME NEW q \in Requests,
             Wake(q) \/ Start(q) \/ LastStatement(q) \/ Finish(q)
      PROVE  Prompt'
  <2>1. ask[q].step = "idle"
    BY <1>0, <1>4 DEF Wake, Start, LastStatement, Finish
  <2>2. QED
    BY <1>4, <2>1, WorkFrame
<1>5. ASSUME NEW q \in Requests, Heartbeat(q) PROVE Prompt'
  BY <1>5 DEF Heartbeat
<1>6. CASE Tick
  <2>1. ASSUME NEW q \in Requests, ask[q].step # "idle"
        PROVE  job'[q].patience = job[q].patience - 1
    <3>1. job[q].step = "wait" /\ job[q] \in JobStates
      BY <1>0, <2>1
    <3>2. job'[q] = [job[q] EXCEPT !.left = @ - 1, !.patience = @ - 1]
      BY <1>6, <3>1 DEF Tick
    <3>3. QED
      BY <3>1, <3>2 DEF JobStates
  <2>2. ASSUME NEW q \in Requests, ask'[q].step # "idle"
        PROVE  /\ job'[q].step = "wait" /\ job'[q].signal = "none"
               /\ job'[q].patience + ask'[q].late = AdmissionWait
    <3>1. /\ ask'[q].step = ask[q].step
          /\ ask[q].step # "idle" => ask'[q].late = ask[q].late + 1
          /\ job'[q].step = job[q].step /\ job'[q].signal = job[q].signal
      BY <1>6, TickFrame
    <3>2. /\ job[q].step = "wait" /\ job[q].signal = "none"
          /\ job[q].patience + ask[q].late = AdmissionWait
      BY <2>2, <3>1
    <3>3. job'[q].patience = job[q].patience - 1 /\ ask'[q].late = ask[q].late + 1
      BY <2>1, <2>2, <3>1
    <3>4. job[q].patience \in Nat /\ ask[q].late \in Nat
      BY <1>0
    <3>5. QED
      BY <3>1, <3>2, <3>3, <3>4
  <2>3. QED
    BY <2>2
<1>7. CASE Midnight
  BY <1>0, <1>7, MidnightFrame
<1>8. CASE DeleteExperiment
  <2>1. PICK S \in SUBSET Aloft : \A q \in Requests : Bereft(q, S)
    BY <1>8, LoseFrame
  <2>2. QED
    BY <1>0, <2>1 DEF Bereft
<1>9. ASSUME NEW p \in Processes, Crash(p) PROVE Prompt'
  BY <1>0, <1>9 DEF Crash, Idle
<1>10. CASE UNCHANGED <<ask, job>>
  BY <1>10
<1>11. QED
  BY <1>1, <1>2, <1>3, <1>4, <1>5, <1>6, <1>7, <1>8, <1>9, <1>10
     DEF Next, Handle, Work, DeleteEnded, DeleteConnection, vars

\* As long as every admission is answered within the job's patience, the
\* release finds its job waiting (warehouse_runner.py:31): a committed row
\* without a job takes an admission that is slower.
THEOREM ReleaseIsInTime ==
  ASSUME MaxLate < AdmissionWait
  PROVE  Spec => []ReleaseFindsJob
<1>1. Init => Prompt
  BY DEF Init, Prompt, Idle
<1>2. TypeOK /\ Prompt /\ [Next]_vars => Prompt'
  BY NextPrompt
<1>3. Prompt => ReleaseFindsJob
  BY DEF Prompt, ReleaseFindsJob
<1>4. QED
  BY <1>1, <1>2, <1>3, Typed, PTL DEF Spec
=============================================================================
