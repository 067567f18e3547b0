----------------------------- MODULE Assignment -----------------------------
(***************************************************************************)
(* First and later assignments of users to the experiments of one mutual   *)
(* exclusion group while holdouts, experiments and the group change        *)
(* (services/assignment_service.py, mutual_exclusion_service.py and        *)
(* api/v1/endpoints/tracking.py under backend/app).  /assign runs on the   *)
(* event loop, /assign/batch in the thread pool, several processes beside  *)
(* each other: every SELECT is a step of its own.  A request's writes are  *)
(* committed together; until then an INSERT of the same key waits.         *)
(***************************************************************************)
EXTENDS Holdouts

CONSTANTS Requests,      \* assignments in flight; a batch is one per user
          Users, Variants, None,
          Experiments,   \* in the order of their ids
          Bandits,       \* those routed by bandit weights
          Hashed,        \* Hashed[u][e]: the variant the user's bucket picks
          Bucket,        \* Bucket[u][h]: the user's bucket under h's salt
          Hash,          \* Hash[u]: the user's hash in the group
          HashRange,     \* hashes and traffic allocations are 0..HashRange
          MaxRegroup     \* bound on changes of the group

ASSUME ExperimentAssumption ==
  /\ Experiments \subseteq Nat \ {0} /\ IsFiniteSet(Experiments)
  /\ Bandits \subseteq Experiments
ASSUME VariantAssumption == None \notin Variants
ASSUME HashAssumption ==
  /\ Hashed \in [Users -> [Experiments -> Variants]]
  /\ Bucket \in [Users -> [Holdouts -> Nat]]
  /\ HashRange \in Nat \ {0} /\ Hash \in [Users -> 0..(HashRange - 1)]
  /\ MaxRegroup \in Nat

VARIABLES
  exp,         \* exp[e]: [status, grouped]
  group,       \* the group's row: [archived, traffic]
  assigned,    \* assigned[u][e]: variant of the assignments row, or None
  population,  \* population[h][u]: the holdout_population row
  step,        \* step[q]: what request q does next
  req,         \* req[q]: its local variables
  told,        \* history: told[u][e], the variants users were told
  met,         \* history: <<h, u>>: u was answered while h was measured
  raced,       \* history: requests whose user's experiment was picked before a
               \* change of the group's active set, or inserted beside such a one
  regroups

groupVars == <<exp, group, regroups>>
requestVars == <<assigned, population, step, req, told, met, raced>>
vars == <<holdoutVars, groupVars, requestVars>>

Statuses == {"DRAFT", "ACTIVE", "PAUSED", "COMPLETED", "ARCHIVED"}
Steps == {"idle", "look", "load", "record", "check", "sibling", "insert", "recover"}
\* holdout: the active holdout loaded, or 0; held: whether the user is in it;
\* records: whether it is measurable; wrote: whether this transaction holds
\* the population row; grouped: the experiment as loaded.
NoRequest == [user |-> None, exp |-> 0, grouped |-> FALSE, choice |-> None,
              holdout |-> 0, held |-> FALSE, records |-> FALSE, wrote |-> FALSE]

ReqStates == [user : Users \cup {None}, exp : Experiments \cup {0}, grouped : BOOLEAN,
              choice : Variants \cup {None}, holdout : Holdouts \cup {0},
              held : BOOLEAN, records : BOOLEAN, wrote : BOOLEAN]

TypeOK ==
  /\ HoldoutTypeOK
  /\ exp \in [Experiments -> [status : Statuses, grouped : BOOLEAN]]
  /\ group \in [archived : BOOLEAN, traffic : 0..HashRange]
  /\ assigned \in [Users -> [Experiments -> Variants \cup {None}]]
  /\ population \in [Holdouts -> [Users -> {"unseen", "in", "out"}]]
  /\ step \in [Requests -> Steps]
  /\ req \in [Requests -> ReqStates]
  /\ told \in [Users -> [Experiments -> SUBSET Variants]]
  /\ met \subseteq Holdouts \X Users
  /\ raced \subseteq Requests
  /\ regroups \in 0..MaxRegroup

Init ==
  /\ HoldoutInit
  /\ exp = [e \in Experiments |-> [status |-> "DRAFT", grouped |-> TRUE]]
  /\ group = [archived |-> FALSE, traffic |-> HashRange]
  /\ assigned = [u \in Users |-> [e \in Experiments |-> None]]
  /\ population = [h \in Holdouts |-> [u \in Users |-> "unseen"]]
  /\ step = [q \in Requests |-> "idle"]
  /\ req = [q \in Requests |-> NoRequest]
  /\ told = [u \in Users |-> [e \in Experiments |-> {}]]
  /\ met = {} /\ raced = {} /\ regroups = 0

-----------------------------------------------------------------------------
(* What else changes: experiments and the group                            *)

StatusMoves == {<<"DRAFT", "ACTIVE">>, <<"PAUSED", "ACTIVE">>,
                <<"ACTIVE", "PAUSED">>, <<"ACTIVE", "COMPLETED">>,
                <<"PAUSED", "COMPLETED">>}
               \cup (Statuses \ {"ARCHIVED"}) \X {"ARCHIVED"}
\* The active set changes under the requests that have read what counts.
Overtaken(steps) ==
  /\ raced' = raced \cup {q \in Requests : step[q] \in steps}
  /\ UNCHANGED <<holdoutVars, assigned, population, step, req, told, met>>
MoveExperiment(e) ==
  /\ \E s \in Statuses : /\ <<exp[e].status, s>> \in StatusMoves
                         /\ exp' = [exp EXCEPT ![e].status = s]
  /\ Overtaken({"sibling", "insert"}) /\ UNCHANGED <<group, regroups>>

Regrouped == /\ regroups < MaxRegroup /\ regroups' = regroups + 1
             /\ Overtaken(Steps \ {"idle"})

\* add_experiment_to_group and remove_experiment_from_group
AddToGroup(e) == /\ ~exp[e].grouped
                 /\ exp' = [exp EXCEPT ![e].grouped = TRUE]
                 /\ Regrouped /\ UNCHANGED group
RemoveFromGroup(e) == /\ exp[e].grouped
                      /\ exp' = [exp EXCEPT ![e].grouped = FALSE]
                      /\ Regrouped /\ UNCHANGED group

\* update_group and archive_group
UpdateGroup == /\ \E x \in BOOLEAN, t \in 0..HashRange :
                    /\ group' = [archived |-> x, traffic |-> t]
                    /\ group' # group
               /\ Regrouped /\ UNCHANGED exp

-----------------------------------------------------------------------------
(* Eligibility                                                             *)

\* select_experiment_for_user: the hashes below the allocation are divided
\* among the ACTIVE experiments of the group, in the order of their ids.
Selected(u) ==
  LET on == {e \in Experiments : exp[e].status = "ACTIVE" /\ exp[e].grouped}
      place == (Hash[u] * Cardinality(on)) \div group.traffic
  IN IF group.archived \/ Hash[u] >= group.traffic \/ on = {} THEN 0
     ELSE CHOOSE e \in on : Cardinality({f \in on : f < e}) = place

\* Mutant of HasSibling: a paused experiment lets its users go.
HasActiveSibling(u, e) ==
  \E f \in Experiments \ {e} : /\ assigned[u][f] # None /\ exp[f].grouped
                               /\ exp[f].status = "ACTIVE"
\* has_sibling_assignment
HasSibling(u, e) ==
  \E f \in Experiments \ {e} : /\ assigned[u][f] # None /\ exp[f].grouped
                               /\ exp[f].status \notin {"COMPLETED", "ARCHIVED"}

-----------------------------------------------------------------------------
(* One request                                                             *)

Goto(q, s) == step' = [step EXCEPT ![q] = s]

\* The population rows a transaction wrote, when it commits.
Committed(q) == LET r == req[q]
                IN IF ~r.wrote THEN population
                   ELSE [population EXCEPT ![r.holdout][r.user] =
                           IF r.held THEN "in" ELSE "out"]

\* Mutant of Reply: a refusal is remembered as an answer.
ReplyAnyway(q, v) ==
  LET r == req[q]
  IN /\ told' = [told EXCEPT ![r.user][r.exp] = @ \cup {v}]
     /\ met' = IF r.records THEN met \cup {<<r.holdout, r.user>>} ELSE met
     /\ req' = [req EXCEPT ![q] = NoRequest]
     /\ Goto(q, "idle")

\* The end of a request: v is the variant the user was told (None when not
\* assigned), and a measured holdout has met the user.
Reply(q, v) ==
  LET r == req[q]
  IN /\ told' = IF v = None THEN told
                ELSE [told EXCEPT ![r.user][r.exp] = @ \cup {v}]
     /\ met' = IF r.records THEN met \cup {<<r.holdout, r.user>>} ELSE met
     /\ req' = [req EXCEPT ![q] = NoRequest]
     /\ Goto(q, "idle")

\* Nobody else's open transaction holds this user's row of the population.
RowFree(q) ==
  \A p \in Requests \ {q} :
    ~(req[p].wrote /\ req[p].holdout = req[q].holdout /\ req[p].user = req[q].user)

\* The endpoint loads an ACTIVE experiment.
Begin(q) ==
  /\ step[q] = "idle"
  /\ \E u \in Users, e \in Experiments :
       /\ exp[e].status = "ACTIVE"
       /\ req' = [req EXCEPT ![q] = [NoRequest EXCEPT !.user = u, !.exp = e,
                                                     !.grouped = exp[e].grouped]]
  /\ Goto(q, "look")
  /\ raced' = raced \ {q}
  /\ UNCHANGED <<holdoutVars, groupVars, assigned, population, told, met>>

\* A stored assignment is the answer.
Look(q) ==
  /\ step[q] = "look"
  /\ LET v == assigned[req[q].user][req[q].exp]
     IN \/ v # None /\ Reply(q, v)
        \/ v = None /\ Goto(q, "load") /\ UNCHANGED <<req, told, met>>
  /\ UNCHANGED <<holdoutVars, groupVars, assigned, population, raced>>

\* get_active_holdout and is_user_in_holdout
LoadHoldout(q) ==
  /\ step[q] = "load"
  /\ LET on == {h \in Holdouts : holdout[h].active}
     IN \/ on = {} /\ UNCHANGED req
        \/ \E h \in on :
             req' = [req EXCEPT ![q].holdout = h,
                       ![q].held = Bucket[req[q].user][h] < holdout[h].pct,
                       ![q].records = h \notin Legacy /\ holdout[h].started]
  /\ Goto(q, "record")
  /\ UNCHANGED <<holdoutVars, groupVars, assigned, population, told, met, raced>>

\* _record_holdout_population: INSERT ... ON CONFLICT DO NOTHING
Record(q) ==
  /\ step[q] = "record"
  /\ \/ ~req[q].records /\ UNCHANGED req
     \/ /\ req[q].records /\ RowFree(q)
        /\ req' = [req EXCEPT ![q].wrote =
                     population[req[q].holdout][req[q].user] = "unseen"]
  /\ Goto(q, "check")
  /\ UNCHANGED <<holdoutVars, groupVars, assigned, population, told, met, raced>>

\* The answer of a user who is not assigned; the population row is committed.
Refuse(q) ==
  /\ population' = Committed(q)
  /\ Reply(q, None)
  /\ UNCHANGED <<holdoutVars, groupVars, assigned, raced>>

\* _hash_user_to_variant, or the arm the weights of a bandit gave the request.
Choose(q) ==
  /\ \E v \in Variants :
       /\ req[q].exp \notin Bandits => v = Hashed[req[q].user][req[q].exp]
       /\ req' = [req EXCEPT ![q].choice = v]
  /\ Goto(q, "insert")
  /\ UNCHANGED <<holdoutVars, groupVars, assigned, population, told, met, raced>>

AskSiblings(q) ==
  /\ Goto(q, "sibling")
  /\ UNCHANGED <<holdoutVars, groupVars, assigned, population, req, told, met, raced>>

\* check_eligibility up to the group's choice: the holdout, then the group.
\* Targeting rules, checked last, may refuse anybody.
Check(q) ==
  /\ step[q] = "check"
  /\ LET r == req[q]
         free == ~r.grouped \/ group.archived
         refused == r.held \/ (~free /\ Selected(r.user) # r.exp)
     IN \/ Refuse(q) /\ (refused \/ free)
        \/ ~refused /\ free /\ Choose(q)
        \/ ~refused /\ ~free /\ AskSiblings(q)

\* has_sibling_assignment, then the targeting rules.
CheckSibling(q) ==
  /\ step[q] = "sibling"
  /\ \/ Refuse(q)
     \/ ~HasSibling(req[q].user, req[q].exp) /\ Choose(q)

\* INSERT and COMMIT; the unique index on experiment and user refuses a
\* second row, and the transaction is rolled back, population row included.
Insert(q) ==
  /\ step[q] = "insert"
  /\ LET r == req[q]
     IN \/ /\ assigned[r.user][r.exp] = None
           /\ assigned' = [assigned EXCEPT ![r.user][r.exp] = r.choice]
           /\ population' = Committed(q)
           /\ raced' = IF q \notin raced THEN raced
                       ELSE raced \cup {p \in Requests \ {q} : step[p] = "insert"}
           /\ Reply(q, r.choice)
        \/ /\ assigned[r.user][r.exp] # None
           /\ req' = [req EXCEPT ![q].wrote = FALSE]
           /\ Goto(q, "recover")
           /\ UNCHANGED <<assigned, population, told, met, raced>>
  /\ UNCHANGED <<holdoutVars, groupVars>>

\* Mutant of Recover: the user is told the variant that was refused.
RecoverOwnChoice(q) ==
  /\ step[q] = "recover" /\ RowFree(q)
  /\ Reply(q, req[q].choice)
  /\ UNCHANGED <<holdoutVars, groupVars, assigned, population, raced>>

\* Mutant of Recover: the population row lost in the rollback stays lost.
RecoverUnrecorded(q) ==
  /\ step[q] = "recover" /\ RowFree(q)
  /\ Reply(q, assigned[req[q].user][req[q].exp])
  /\ UNCHANGED <<holdoutVars, groupVars, assigned, population, raced>>

\* The stored row is the answer; the user is recorded again (#1026).
Recover(q) ==
  /\ step[q] = "recover" /\ RowFree(q)
  /\ LET r == req[q]
     IN /\ population' = IF ~r.records \/ population[r.holdout][r.user] # "unseen"
                         THEN population
                         ELSE [population EXCEPT ![r.holdout][r.user] =
                                 IF r.held THEN "in" ELSE "out"]
        /\ Reply(q, assigned[r.user][r.exp])
  /\ UNCHANGED <<holdoutVars, groupVars, assigned, raced>>

\* The process or the connection is lost: nothing is committed or answered.
Lose(q) ==
  /\ step[q] # "idle"
  /\ req' = [req EXCEPT ![q] = NoRequest]
  /\ Goto(q, "idle")
  /\ UNCHANGED <<holdoutVars, groupVars, assigned, population, told, met, raced>>

Work(q) == \/ Look(q) \/ LoadHoldout(q) \/ Record(q) \/ Check(q)
           \/ CheckSibling(q) \/ Insert(q) \/ Recover(q)

Next ==
  \/ HoldoutNext /\ UNCHANGED <<groupVars, requestVars>>
  \/ \E e \in Experiments : MoveExperiment(e) \/ AddToGroup(e) \/ RemoveFromGroup(e)
  \/ UpdateGroup
  \/ \E q \in Requests : Begin(q) \/ Work(q) \/ Lose(q)

Spec == Init /\ [][Next]_vars

-----------------------------------------------------------------------------
(* Properties                                                              *)

\* A user is told one variant of an experiment, whichever process answers
\* and whatever weights it had read: the stored one.
AnswersAgree ==
  \A u \in Users, e \in Experiments : told[u][e] \subseteq {assigned[u][e]}

\* Every user answered while a holdout was measured is in its population,
\* also when the transaction that recorded them was rolled back.
MetAreRecorded == \A x \in met : population[x[1]][x[2]] # "unseen"

\* Every user of a population is in the arm the holdout's percentage gives:
\* the percentage never moves while users are being recorded.
ArmsMatchPercentage ==
  \A h \in Holdouts, u \in Users :
    population[h][u] # "unseen" =>
      (population[h][u] = "in" <=> Bucket[u][h] < holdout[h].pct)

\* While the group's active set is stable its hash keeps a user's requests
\* apart, and has_sibling_assignment covers what the set was before: a user
\* gets a second live experiment only if the set changed between the check of
\* one of the requests and its insert.
Inserts(q) == step[q] = "insert" /\ step'[q] = "idle" /\ assigned' # assigned
Live(u) == {e \in Experiments : /\ assigned[u][e] # None /\ exp[e].grouped
                                /\ exp[e].status \notin {"COMPLETED", "ARCHIVED"}}
ExclusiveUnlessRaced ==
  [][\A q \in Requests \ raced :
       Inserts(q) /\ exp[req[q].exp].grouped /\ ~group.archived
         => Live(req[q].user) = {}]_vars
=============================================================================
