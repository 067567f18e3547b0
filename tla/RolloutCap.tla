----------------------------- MODULE RolloutCap -----------------------------
(***************************************************************************)
(* What a safety rollback promises about a flag's percentage, whoever      *)
(* writes it (#629): from a rollback on, the flag's schedules are stopped, *)
(* and its percentage changes only by another rollback or by hand, until   *)
(* somebody sets it or starts a schedule again.                            *)
(***************************************************************************)
CONSTANTS Schedules, Percentages, NoCap

VARIABLES pct,      \* the flag's rollout percentage
          running,  \* its ACTIVE schedules
          cap       \* target of the rollback in force, or NoCap

Init == pct \in Percentages /\ running = {} /\ cap = NoCap

\* A stage starts, perhaps the last one of a schedule ends.
Advance == /\ running # {} /\ cap = NoCap
           /\ pct' \in Percentages
           /\ running' \subseteq running
           /\ UNCHANGED cap

Stop == /\ running' \subseteq running
        /\ UNCHANGED <<pct, cap>>

Resume == /\ \E s \in Schedules : running' = running \cup {s}
          /\ cap' = NoCap
          /\ UNCHANGED pct

SetByHand == /\ pct' \in Percentages
             /\ cap' = NoCap
             /\ UNCHANGED running

Rollback == /\ pct' \in Percentages
            /\ cap' \in Percentages
            /\ running' = {}

Next == Advance \/ Stop \/ Resume \/ SetByHand \/ Rollback

Spec == Init /\ [][Next]_<<pct, running, cap>>

=============================================================================
