--------------------------- MODULE ExperimentLife ---------------------------
(* What the API promises about the life of one experiment, whoever asks and  *)
(* whenever the scheduler runs (docs/api/endpoints.md:1507-1570): a draft    *)
(* may be edited and deleted; targeting may change while it is draft or      *)
(* paused, how its results are judged only while it is a draft; the status   *)
(* moves along draft, active, paused, completed, archived and never back.    *)
EXTENDS Naturals

CONSTANTS Rules, Levels

VARIABLES status, rules, level

vars == <<status, rules, level>>

Init == status = "DRAFT" /\ rules \in Rules /\ level \in Levels

Edit == /\ status = "DRAFT"
        /\ rules' \in Rules /\ level' \in Levels
        /\ UNCHANGED status

Retarget == /\ status = "PAUSED"
            /\ rules' \in Rules
            /\ UNCHANGED <<status, level>>

\* A first start may stamp the rule with an id of its own.
Start == /\ status = "DRAFT" /\ status' = "ACTIVE"
         /\ rules' \in Rules
         /\ UNCHANGED level

Move(from, to) == status \in from /\ status' = to /\ UNCHANGED <<rules, level>>

Next == \/ Edit \/ Retarget \/ Start
        \/ Move({"PAUSED"}, "ACTIVE")
        \/ Move({"ACTIVE"}, "PAUSED")
        \/ Move({"ACTIVE", "PAUSED"}, "COMPLETED")
        \/ Move({"DRAFT", "ACTIVE", "PAUSED", "COMPLETED"}, "ARCHIVED")
        \/ Move({"DRAFT"}, "GONE")

Spec == Init /\ [][Next]_vars
=============================================================================
