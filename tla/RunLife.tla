------------------------------- MODULE RunLife -------------------------------
(***************************************************************************)
(* What is promised of warehouse runs (models/warehouse_analysis_run.py:10 *)
(* and services/warehouse_runner.py:15 under modules/backend/app): a run   *)
(* moves queued -> running -> succeeded or failed, and a run that has      *)
(* ended stays as it ended; one run per connection and at most             *)
(* MaxConcurrent in all are queued or running.  Only an admission may give *)
(* a run up for abandoned; a deleted run (status "none") never returns.    *)
(***************************************************************************)
EXTENDS Naturals, FiniteSets

CONSTANTS Runs, Connections, None, MaxConcurrent

VARIABLES status, conn

vars == <<status, conn>>

Flying == {r \in Runs : status[r] \in {"queued", "running"}}

Init == /\ status = [r \in Runs |-> "none"]
        /\ conn = [r \in Runs |-> None]

\* A new run, under the id of one that is over; the given up ones make room.
Queue(n) ==
  /\ n \notin Flying
  /\ conn'[n] \in Connections
  /\ LET lost == {r \in Flying : status'[r] = "abandoned"}
         live == Flying \ lost
     IN /\ status' = [r \in Runs |-> IF r = n THEN "queued"
                                    ELSE IF r \in lost THEN "abandoned" ELSE status[r]]
        /\ conn' = [r \in Runs |-> IF r = n THEN conn'[n]
                                  ELSE IF r \in lost THEN None ELSE conn[r]]
        /\ Cardinality(live) < MaxConcurrent
        /\ \A r \in live : conn[r] # conn'[n]

Start(r) == /\ status[r] = "queued"
            /\ status' = [status EXCEPT ![r] = "running"]
            /\ UNCHANGED conn

Finish(r) == /\ status[r] = "running"
             /\ status' = [status EXCEPT ![r] = "finished"]
             /\ conn' = [conn EXCEPT ![r] = None]

\* The runs of a deleted experiment, at whatever point they are.
Delete ==
  LET gone == {r \in Flying : status'[r] = "none"}
  IN /\ status' = [r \in Runs |-> IF r \in gone THEN "none" ELSE status[r]]
     /\ conn' = [r \in Runs |-> IF r \in gone THEN None ELSE conn[r]]

\* The connection of some runs is deleted; they go on.
Detach(c) == /\ conn' = [r \in Runs |-> IF conn[r] = c THEN None ELSE conn[r]]
             /\ UNCHANGED status

Next == \/ \E r \in Runs : Queue(r) \/ Start(r) \/ Finish(r)
        \/ \E c \in Connections : Detach(c)
        \/ Delete

Spec == Init /\ [][Next]_vars
=============================================================================
