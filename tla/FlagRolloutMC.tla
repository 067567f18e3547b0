---- MODULE FlagRolloutMC ----
(* Small instances of FlagRollout: the triggers of the stages. *)
EXTENDS FlagRollout

\* A time-based stage, then one to be advanced by hand.
TimeThenManual == [i \in Stages |-> IF i = 1 THEN "TIME_BASED" ELSE "MANUAL"]
AllTime == [i \in Stages |-> "TIME_BASED"]
====
