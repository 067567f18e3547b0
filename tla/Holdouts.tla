------------------------------ MODULE Holdouts ------------------------------
(***************************************************************************)
(* The global holdouts and the administrators' requests that create,       *)
(* change, activate and end them: services/global_holdout_service.py and   *)
(* api/v1/endpoints/global_holdout.py under backend/app.  The endpoints    *)
(* are plain functions: each request has a thread and a session of its     *)
(* own.  Every check is made on the copy a request loaded first; what      *)
(* differs from the copy is written when the row's lock is free, and the   *)
(* partial unique index allows one committed active row.                   *)
(***************************************************************************)
EXTENDS Naturals, FiniteSets

CONSTANTS Admins,        \* requests of administrators
          NoOne,         \* holder of a free row lock
          Holdouts,      \* ids a row can get
          Legacy,        \* the row that was active when its salt was legacy
          MaxPct         \* greatest percentage

ASSUME AdminAssumption == NoOne \notin Admins
ASSUME HoldoutAssumption == Holdouts \subseteq Nat \ {0}
ASSUME LegacyAssumption ==
  Legacy \subseteq Holdouts /\ \A g, h \in Legacy : g = h
ASSUME PctAssumption == MaxPct \in Nat \ {0}

VARIABLES holdout,   \* holdout[h]: the row
          lock,      \* lock[h]: who holds its row lock
          admin,     \* admin[a]: what request a does next
          job        \* job[a]: its local variables

holdoutVars == <<holdout, lock, admin, job>>

Percentages == 1..MaxPct

\* started, ended: whether activated_at and deactivated_at are stamped.
Rows == [made : BOOLEAN, active : BOOLEAN, started : BOOLEAN, ended : BOOLEAN,
         pct : Percentages]
Unmade == [made |-> FALSE, active |-> FALSE, started |-> FALSE, ended |-> FALSE,
           pct |-> 1]

\* copy: the row as loaded; want: as the request leaves it; others: the rows
\* it found active.
Jobs == [id : Holdouts \cup {0}, copy : Rows, want : Rows, others : SUBSET Holdouts]
NoJob == [id |-> 0, copy |-> Unmade, want |-> Unmade, others |-> {}]
AdminSteps == {"idle", "write", "others", "flush", "activate"}

HoldoutTypeOK ==
  /\ holdout \in [Holdouts -> Rows]
  /\ lock \in [Holdouts -> Admins \cup {NoOne}]
  /\ admin \in [Admins -> AdminSteps]
  /\ job \in [Admins -> Jobs]

HoldoutInit ==
  /\ holdout = [h \in Holdouts |-> IF h \in Legacy
                  THEN [Unmade EXCEPT !.made = TRUE, !.active = TRUE]
                  ELSE Unmade]
  /\ lock = [h \in Holdouts |-> NoOne]
  /\ admin = [a \in Admins |-> "idle"]
  /\ job = [a \in Admins |-> NoJob]

-----------------------------------------------------------------------------
(* The decisions                                                           *)

\* _has_been_active
HasBeenActive(x) == x.active \/ x.started \/ x.ended

\* Mutant of MayChange: the percentage lock looks at is_active alone.
MayChangeUnlessActive(x, pct, on) ==
  /\ pct # x.pct => ~x.active
  /\ on = "on" /\ ~x.active => ~x.ended

\* The refusals of update_holdout: HoldoutPercentageLocked and HoldoutEnded.
MayChange(x, pct, on) ==
  /\ pct # x.pct => ~HasBeenActive(x)
  /\ on = "on" /\ ~x.active => ~x.ended

\* The row a request wants: _activate stamps activated_at once, never on a
\* legacy row; _deactivate leaves a row alone that is not active.
Activated(h, x) ==
  [x EXCEPT !.active = TRUE, !.started = x.started \/ h \notin Legacy]
\* Mutant of Ended: the percentage is cleared with the end.
EndedCleared(x) ==
  IF x.active THEN [x EXCEPT !.active = FALSE, !.ended = TRUE, !.pct = 0] ELSE x
\* Mutant of Ended: the end is not stamped.
EndedUnstamped(x) == IF x.active THEN [x EXCEPT !.active = FALSE] ELSE x
Ended(x) == IF x.active THEN [x EXCEPT !.active = FALSE, !.ended = TRUE] ELSE x
Wanted(h, x, pct, on) ==
  LET y == [x EXCEPT !.made = TRUE, !.pct = pct]
  IN IF on = "on" THEN IF x.active THEN y ELSE Activated(h, y)
     ELSE IF on = "off" THEN Ended(y) ELSE y

\* A column is written when its value differs from the loaded one.
Column(old, new, cur) == IF new = old THEN cur ELSE new
Written(old, new, cur) ==
  [made    |-> TRUE,
   active  |-> Column(old.active, new.active, cur.active),
   started |-> Column(old.started, new.started, cur.started),
   ended   |-> Column(old.ended, new.ended, cur.ended),
   pct     |-> IF old.made THEN Column(old.pct, new.pct, cur.pct) ELSE new.pct]

-----------------------------------------------------------------------------
(* The requests                                                            *)

Load(a, h, pct, on) ==
  LET new == Wanted(h, holdout[h], pct, on)
  IN /\ job' = [job EXCEPT ![a] = [id |-> h, copy |-> holdout[h], want |-> new,
                                   others |-> {}]]
     /\ admin' = [admin EXCEPT ![a] =
                    IF new.active /\ ~holdout[h].active THEN "others" ELSE "write"]
     /\ UNCHANGED <<holdout, lock>>

\* POST /holdout: a new row has a new id.
CreateHoldout(a) ==
  /\ admin[a] = "idle"
  /\ \E h \in Holdouts, pct \in Percentages, on \in {"on", "keep"} :
       /\ ~holdout[h].made
       /\ \A b \in Admins : job[b].id # h
       /\ Load(a, h, pct, on)

\* PUT /holdout/{id}
UpdateHoldout(a) ==
  /\ admin[a] = "idle"
  /\ \E h \in Holdouts, pct \in Percentages, on \in {"on", "off", "keep"} :
       /\ holdout[h].made
       /\ MayChange(holdout[h], pct, on)
       /\ Wanted(h, holdout[h], pct, on) # holdout[h]
       /\ Load(a, h, pct, on)

\* _activate asks for every other active holdout.
FindOthers(a) ==
  /\ admin[a] = "others"
  /\ job' = [job EXCEPT ![a].others =
               {g \in Holdouts : holdout[g].active /\ g # job[a].id}]
  /\ admin' = [admin EXCEPT ![a] = "flush"]
  /\ UNCHANGED <<holdout, lock>>

\* Its first flush writes them, and the own row if its percentage changes:
\* their locks are held until the end of the transaction.
Dirty(a) ==
  LET j == job[a]
  IN j.others \cup (IF j.copy.made /\ j.copy.pct # j.want.pct THEN {j.id} ELSE {})
FlushOthers(a) ==
  /\ admin[a] = "flush"
  /\ \A h \in Dirty(a) : lock[h] = NoOne
  /\ lock' = [h \in Holdouts |-> IF h \in Dirty(a) THEN a ELSE lock[h]]
  /\ admin' = [admin EXCEPT ![a] = "activate"]
  /\ UNCHANGED <<holdout, job>>

EndTransaction(a) ==
  /\ lock' = [h \in Holdouts |-> IF lock[h] = a THEN NoOne ELSE lock[h]]
  /\ admin' = [admin EXCEPT ![a] = "idle"]
  /\ job' = [job EXCEPT ![a] = NoJob]

\* Mutant of Clashing: the partial unique index is not there.
ClashingUnindexed(a) == {}
\* Active rows the unique index sees beside the one this request activates.
Clashing(a) == {g \in Holdouts \ (job[a].others \cup {job[a].id}) : holdout[g].active}

\* The second flush and the commit.  The index waits for a transaction that
\* is ending the clashing row, and refuses when the row stays active: the
\* request is rolled back (HoldoutActivationConflict).
ActivateHoldout(a) ==
  /\ admin[a] = "activate"
  /\ lock[job[a].id] \in {a, NoOne}
  /\ \A g \in Clashing(a) : lock[g] \in {a, NoOne}
  /\ \/ /\ Clashing(a) # {}
        /\ UNCHANGED holdout
     \/ /\ Clashing(a) = {}
        /\ holdout' = [h \in Holdouts |->
             IF h = job[a].id THEN Written(job[a].copy, job[a].want, holdout[h])
             ELSE IF h \in job[a].others
                  THEN [holdout[h] EXCEPT !.active = FALSE, !.ended = TRUE]
             ELSE holdout[h]]
  /\ EndTransaction(a)

\* The commit of a request that activates nothing.
WriteHoldout(a) ==
  /\ admin[a] = "write"
  /\ lock[job[a].id] = NoOne
  /\ holdout' = [holdout EXCEPT ![job[a].id] =
                   Written(job[a].copy, job[a].want, holdout[job[a].id])]
  /\ EndTransaction(a)

\* The connection is lost, or the database ends a deadlock: rolled back.
AbortHoldout(a) ==
  /\ admin[a] # "idle"
  /\ EndTransaction(a)
  /\ UNCHANGED holdout

HoldoutNext ==
  \E a \in Admins : \/ CreateHoldout(a) \/ UpdateHoldout(a)
                    \/ FindOthers(a) \/ FlushOthers(a) \/ ActivateHoldout(a)
                    \/ WriteHoldout(a) \/ AbortHoldout(a)

HoldoutSpec == HoldoutInit /\ [][HoldoutNext]_holdoutVars

-----------------------------------------------------------------------------
(* Properties                                                              *)

\* However the requests interleave, one holdout at most is active, an active
\* one has its start stamped (a legacy one never has), and one that started
\* and is not active any more has its end stamped: holdout_results reads a
\* holdout's window from these three columns.
OneActive ==
  \A g, h \in Holdouts : holdout[g].active /\ holdout[h].active => g = h
WindowStamped ==
  \A h \in Holdouts : /\ holdout[h].active => holdout[h].started \/ h \in Legacy
                      /\ holdout[h].started => holdout[h].active \/ holdout[h].ended

HoldoutState(h) ==
  LET x == holdout[h]
  IN IF x.active THEN "active" ELSE IF x.ended THEN "ended"
     ELSE IF x.made THEN "new" ELSE "none"

\* Requests that follow one another keep the promises of HoldoutLife.
Life == INSTANCE HoldoutLife WITH
          state <- [h \in Holdouts |-> HoldoutState(h)],
          pct <- [h \in Holdouts |-> holdout[h].pct]
ImplementsHoldoutLife == Life!Spec
=============================================================================
