----------------------------- MODULE HoldoutLife -----------------------------
(* What the API promises about global holdouts (api/v1/endpoints/            *)
(* global_holdout.py, models/global_holdout.py): at most one is active;      *)
(* activating one ends the one that was; an ended one never restarts; the    *)
(* percentage is fixed from the first activation on.                         *)
EXTENDS Naturals

CONSTANTS Holdouts, Percentages

VARIABLES state, pct

vars == <<state, pct>>

Init == /\ state \in [Holdouts -> {"none", "active"}]
        /\ \A g, h \in Holdouts : state[g] = "active" /\ state[h] = "active" => g = h
        /\ pct \in [Holdouts -> Percentages]

Change(h) == /\ state[h] \in {"none", "new"}
             /\ state' = [state EXCEPT ![h] = "new"]
             /\ \E p \in Percentages : pct' = [pct EXCEPT ![h] = p]

Activate(h) == /\ state[h] \in {"none", "new"}
               /\ state' = [g \in Holdouts |-> IF g = h THEN "active"
                              ELSE IF state[g] = "active" THEN "ended" ELSE state[g]]
               /\ \E p \in Percentages : pct' = [pct EXCEPT ![h] = p]

End(h) == /\ state[h] = "active"
          /\ state' = [state EXCEPT ![h] = "ended"]
          /\ UNCHANGED pct

Next == \E h \in Holdouts : Change(h) \/ Activate(h) \/ End(h)

Spec == Init /\ [][Next]_vars
=============================================================================
