-------------------------- MODULE Assignment_proofs --------------------------
(***************************************************************************)
(* TLAPS proofs about Assignment, for any users, experiments, holdouts and *)
(* requests: types, one answer per user and experiment, a complete holdout *)
(* population whose arms stay, what the mutual exclusion group promises    *)
(* and how it divides its traffic.  The invariant relates what a request   *)
(* has read to what is stored now; a request that was not overtaken by a   *)
(* change of the group still has it right.                                 *)
(***************************************************************************)
EXTENDS Assignment, Holdouts_proofs, FiniteSetTheorems

-----------------------------------------------------------------------------
(* The inductive invariant                                                 *)

\* A request on its way has its user and experiment; one that lost the insert
\* finds a row.
Asked(q) ==
  step[q] # "idle" =>
    /\ req[q].user \in Users /\ req[q].exp \in Experiments
    /\ step[q] = "insert" => req[q].choice \in Variants
    /\ step[q] = "recover" => assigned[req[q].user][req[q].exp] # None

\* The row of the population is there, or in the request's transaction.
Writing == {"check", "sibling", "insert"}
Recorded(q) ==
  /\ req[q].records => /\ req[q].holdout \in Holdouts
                       /\ step[q] \in {"record", "recover"} \cup Writing
  /\ req[q].wrote => req[q].records /\ step[q] \in Writing
  /\ step[q] \in Writing /\ req[q].records /\ ~req[q].wrote
       => population[req[q].holdout][req[q].user] # "unseen"

\* What a request knows of its group as long as nothing overtook it.
Grouped(q) == q \notin raced /\ req[q].grouped /\ ~group.archived
Separated(q) ==
  /\ step[q] # "idle" /\ q \notin raced => (req[q].grouped <=> exp[req[q].exp].grouped)
  /\ step[q] \in {"sibling", "insert"} /\ Grouped(q)
       => Selected(req[q].user) = req[q].exp
  /\ step[q] = "insert" /\ Grouped(q) => ~HasSibling(req[q].user, req[q].exp)

IInv == /\ TypeOK /\ HoldoutIInv
        /\ \A q \in Requests : Asked(q) /\ Recorded(q) /\ Separated(q)
        /\ AnswersAgree /\ MetAreRecorded

-----------------------------------------------------------------------------
(* Steps of requests                                                       *)

LEMMA EmptyRequest == /\ NoRequest \in ReqStates
                      /\ ~NoRequest.records /\ ~NoRequest.wrote
  BY DEF NoRequest, ReqStates

\* Everything beside the requests leaves the holdouts, or is a step of theirs.
LEMMA HoldoutsGoOn == [Next]_vars => [HoldoutNext]_holdoutVars
  BY DEF Next, vars, MoveExperiment, AddToGroup, RemoveFromGroup, UpdateGroup, Regrouped,
         Overtaken, Begin, Work, Look, LoadHoldout, Record, Check, CheckSibling, Insert,
         Recover, Lose, Refuse, Choose, AskSiblings, holdoutVars

\* The rest of the types.
Types == /\ exp \in [Experiments -> [status : Statuses, grouped : BOOLEAN]]
         /\ group \in [archived : BOOLEAN, traffic : 0..HashRange]
         /\ assigned \in [Users -> [Experiments -> Variants \cup {None}]]
         /\ population \in [Holdouts -> [Users -> {"unseen", "in", "out"}]]
         /\ step \in [Requests -> Steps]
         /\ req \in [Requests -> ReqStates]
         /\ told \in [Users -> [Experiments -> SUBSET Variants]]
         /\ met \subseteq Holdouts \X Users
         /\ raced \subseteq Requests
         /\ regroups \in 0..MaxRegroup

\* A reply keeps the types.
LEMMA ReplyTypes ==
  ASSUME Types, NEW q \in Requests, step[q] # "idle", Asked(q), Recorded(q),
         NEW v \in Variants \cup {None}, Reply(q, v)
  PROVE  /\ told' \in [Users -> [Experiments -> SUBSET Variants]]
         /\ met' \subseteq Holdouts \X Users
         /\ req' = [req EXCEPT ![q] = NoRequest]
         /\ step' = [step EXCEPT ![q] = "idle"]
         /\ req' \in [Requests -> ReqStates] /\ step' \in [Requests -> Steps]
<1>1. /\ req' = [req EXCEPT ![q] = NoRequest] /\ step' = [step EXCEPT ![q] = "idle"]
      /\ told' = IF v = None THEN told
                 ELSE [told EXCEPT ![req[q].user][req[q].exp] = @ \cup {v}]
      /\ met' = IF req[q].records THEN met \cup {<<req[q].holdout, req[q].user>>} ELSE met
  BY DEF Reply, Goto
<1>2. req' \in [Requests -> ReqStates] /\ step' \in [Requests -> Steps]
  BY <1>1, EmptyRequest DEF Types, Steps
<1>3. told' \in [Users -> [Experiments -> SUBSET Variants]]
  <2>1. req[q].user \in Users /\ req[q].exp \in Experiments
    BY DEF Asked
  <2>2. told[req[q].user][req[q].exp] \in SUBSET Variants
    BY <2>1 DEF Types
  <2>3. v # None => (told[req[q].user][req[q].exp] \cup {v}) \in SUBSET Variants
    BY <2>2
  <2>4. QED
    BY <1>1, <2>1, <2>3 DEF Types
<1>4. met' \subseteq Holdouts \X Users
  BY <1>1 DEF Types, Asked, Recorded
<1>5. QED
  BY <1>1, <1>2, <1>3, <1>4

\* A commit writes the population row a request holds and forgets none.
LEMMA CommitRecords ==
  ASSUME Types, NEW q \in Requests, step[q] \in Writing, Asked(q), Recorded(q)
  PROVE  /\ Committed(q) \in [Holdouts -> [Users -> {"unseen", "in", "out"}]]
         /\ \A h \in Holdouts, u \in Users :
              population[h][u] # "unseen" => Committed(q)[h][u] # "unseen"
         /\ req[q].records => Committed(q)[req[q].holdout][req[q].user] # "unseen"
<1>1. req[q].user \in Users /\ (req[q].records => req[q].holdout \in Holdouts)
  BY DEF Asked, Recorded, Writing
<1>2. CASE ~req[q].wrote
  BY <1>2 DEF Committed, Types, Recorded
<1>3. CASE req[q].wrote
  <2>1. req[q].holdout \in Holdouts
    BY <1>1, <1>3 DEF Recorded
  <2>2. PICK arm \in {"in", "out"} :
          Committed(q) = [population EXCEPT ![req[q].holdout][req[q].user] = arm]
    BY <1>3 DEF Committed
  <2>3. QED
    BY <1>1, <2>1, <2>2 DEF Types
<1>4. QED
  BY <1>2, <1>3

\* What the group decides depends on the experiments and the group alone.
LEMMA SelectedFrame ==
  ASSUME exp' = exp, group' = group, NEW u
  PROVE  Selected(u)' = Selected(u)
<1> DEFINE on(x) == {e \in Experiments : x[e].status = "ACTIVE" /\ x[e].grouped}
           place(x, g) == (Hash[u] * Cardinality(on(x))) \div g.traffic
           S(x, g) == IF g.archived \/ Hash[u] >= g.traffic \/ on(x) = {} THEN 0
                      ELSE CHOOSE e \in on(x) :
                             Cardinality({f \in on(x) : f < e}) = place(x, g)
<1>1. Selected(u) = S(exp, group)
  BY DEF Selected
<1>2. Selected(u)' = S(exp', group')
  BY DEF Selected
<1> HIDE DEF S
<1>3. QED
  BY <1>1, <1>2

LEMMA SiblingFrame ==
  ASSUME exp' = exp, assigned' = assigned, NEW u, NEW e
  PROVE  HasSibling(u, e)' = HasSibling(u, e)
  BY DEF HasSibling

\* All of the invariant that is not about holdouts.
Rest == /\ Types
        /\ \A q \in Requests : Asked(q) /\ Recorded(q) /\ Separated(q)
        /\ AnswersAgree /\ MetAreRecorded

\* What a step of request q leaves to the others.
Frame(q) ==
  /\ exp' = exp /\ group' = group
  /\ \A p \in Requests \ {q} : /\ step'[p] = step[p] /\ req'[p] = req[p]
                               /\ p \in raced => p \in raced'
  /\ \A u \in Users, e \in Experiments :
       assigned[u][e] # None => assigned'[u][e] = assigned[u][e]
  /\ \A h \in Holdouts, u \in Users :
       population[h][u] # "unseen" => population'[h][u] # "unseen"

\* A step of request q keeps the invariant if it keeps q's part, answers what
\* is stored and records whom it answers.
LEMMA RequestStep ==
  ASSUME Rest, NEW q \in Requests, Types', Frame(q),
         \A p \in Requests \ {q}, u \in Users, e \in Experiments :
           step[p] = "insert" /\ Grouped(p) /\ p \notin raced'
             /\ u = req[p].user /\ e = req[p].exp /\ HasSibling(u, e)'
             => HasSibling(u, e),
         Asked(q)', Recorded(q)', Separated(q)',
         \A u \in Users, e \in Experiments :
           told'[u][e] \subseteq told[u][e] \cup {assigned'[u][e]},
         \A x \in met' : x \in met \/ population'[x[1]][x[2]] # "unseen"
  PROVE  Rest'
<1>0. Types /\ AnswersAgree /\ MetAreRecorded
  BY DEF Rest
<1>1. ASSUME NEW p \in Requests, p # q
      PROVE  Asked(p)' /\ Recorded(p)' /\ Separated(p)'
  <2>0. Asked(p) /\ Recorded(p) /\ Separated(p)
    BY DEF Rest
  <2>1. /\ step'[p] = step[p] /\ req'[p] = req[p] /\ (p \in raced => p \in raced')
        /\ exp' = exp /\ group' = group
    BY <1>1 DEF Frame
  <2>2. Asked(p)'
    BY <2>0, <2>1 DEF Asked, Frame
  <2>3. Recorded(p)'
    <3>1. step[p] # "idle" => req[p].user \in Users
      BY <2>0 DEF Asked
    <3>2. QED
      BY <2>0, <2>1, <3>1 DEF Recorded, Frame, Writing
  <2>4. Separated(p)'
    <3>1. Grouped(p)' => Grouped(p) /\ p \notin raced'
      BY <2>1 DEF Grouped
    <3>2. \A u : Selected(u)' = Selected(u)
      BY <2>1, SelectedFrame
    <3>3. step'[p] # "idle" /\ p \notin raced'
            => (req'[p].grouped <=> exp'[req'[p].exp].grouped)
      BY <2>0, <2>1 DEF Separated
    <3>4. step'[p] \in {"sibling", "insert"} /\ Grouped(p)'
            => Selected(req[p].user)' = req'[p].exp
      <4>1. Selected(req[p].user)' = Selected(req'[p].user)
        <5>1. PICK u : u = req'[p].user
          OBVIOUS
        <5>2. Selected(req[p].user)' = Selected(u)'
          BY <5>1 DEF Selected
        <5>3. QED
          BY <3>2, <5>1, <5>2
      <4>2. QED
        BY <2>0, <2>1, <3>1, <4>1 DEF Separated
    <3>5. step'[p] = "insert" /\ Grouped(p)' => ~HasSibling(req[p].user, req[p].exp)'
      <4> SUFFICES ASSUME step'[p] = "insert", Grouped(p)',
                          HasSibling(req[p].user, req[p].exp)'
                   PROVE  FALSE
        OBVIOUS
      <4>1. PICK u \in Users, e \in Experiments : u = req[p].user /\ e = req[p].exp
        BY <2>0, <2>1 DEF Asked
      <4>2. HasSibling(u, e)'
        BY <2>1, <4>1 DEF HasSibling
      <4>3. HasSibling(u, e)
        BY <1>1, <2>1, <3>1, <4>1, <4>2
      <4>4. QED
        BY <2>0, <2>1, <3>1, <4>1, <4>3 DEF Separated
    <3>6. QED
      BY <3>3, <3>4, <3>5 DEF Separated
  <2>5. QED
    BY <2>2, <2>3, <2>4
<1>2. AnswersAgree'
  <2> SUFFICES ASSUME NEW u \in Users, NEW e \in Experiments
               PROVE  told'[u][e] \subseteq {assigned'[u][e]}
    BY DEF AnswersAgree
  <2>1. told[u][e] \subseteq {assigned[u][e]} /\ told[u][e] \subseteq Variants
    BY <1>0 DEF AnswersAgree, Types
  <2>2. CASE assigned[u][e] = None
    <3>1. told[u][e] = {}
      BY <2>1, <2>2, VariantAssumption
    <3>2. QED
      BY <3>1
  <2>3. CASE assigned[u][e] # None
    BY <2>1, <2>3 DEF Frame
  <2>4. QED
    BY <2>2, <2>3
<1>3. MetAreRecorded'
  <2> SUFFICES ASSUME NEW x \in met' PROVE population'[x[1]][x[2]] # "unseen"
    BY DEF MetAreRecorded
  <2>1. CASE x \in met
    <3>1. x[1] \in Holdouts /\ x[2] \in Users
      BY <1>0, <2>1 DEF Types
    <3>2. population[x[1]][x[2]] # "unseen"
      BY <1>0, <2>1 DEF MetAreRecorded
    <3>3. QED
      BY <3>1, <3>2 DEF Frame
  <2>2. QED
    BY <2>1
<1>4. QED
  BY <1>1, <1>2, <1>3 DEF Rest

\* A step that stores no assignment and answers nobody.
LEMMA QuietStep ==
  ASSUME Rest, NEW q \in Requests, NEW x \in ReqStates, NEW t \in Steps,
         req' = [req EXCEPT ![q] = x], step' = [step EXCEPT ![q] = t],
         exp' = exp, group' = group, regroups' = regroups, raced' \subseteq Requests,
         raced \ {q} \subseteq raced', assigned' = assigned, population' = population,
         told' = told, met' = met,
         Asked(q)', Recorded(q)', Separated(q)'
  PROVE  Rest'
<1>0. Types
  BY DEF Rest
<1>1. Types'
  BY <1>0 DEF Types
<1>2. Frame(q)
  BY <1>0 DEF Frame, Types
<1>3. ASSUME NEW p \in Requests \ {q}, NEW u \in Users, NEW e \in Experiments,
             HasSibling(u, e)'
      PROVE  HasSibling(u, e)
  BY <1>3, SiblingFrame
<1>4. \A u \in Users, e \in Experiments :
        told'[u][e] \subseteq told[u][e] \cup {assigned'[u][e]}
  OBVIOUS
<1>5. QED
  BY <1>1, <1>2, <1>3, <1>4, RequestStep

\* A step that answers request q with v, which is stored, or with a refusal.
LEMMA ReplyStep ==
  ASSUME Rest, NEW q \in Requests, step[q] # "idle",
         NEW v \in Variants \cup {None}, Reply(q, v),
         exp' = exp, group' = group, regroups' = regroups, raced' \subseteq Requests,
         raced \subseteq raced', assigned' = assigned,
         v # None => v = assigned[req[q].user][req[q].exp],
         population' \in [Holdouts -> [Users -> {"unseen", "in", "out"}]],
         \A h \in Holdouts, u \in Users :
           population[h][u] # "unseen" => population'[h][u] # "unseen",
         req[q].records => population'[req[q].holdout][req[q].user] # "unseen"
  PROVE  Rest'
<1>0. Types /\ Asked(q) /\ Recorded(q)
  BY DEF Rest
<1>1. /\ told' \in [Users -> [Experiments -> SUBSET Variants]]
      /\ met' \subseteq Holdouts \X Users
      /\ req' = [req EXCEPT ![q] = NoRequest]
      /\ step' = [step EXCEPT ![q] = "idle"]
      /\ req' \in [Requests -> ReqStates] /\ step' \in [Requests -> Steps]
  BY <1>0, ReplyTypes
<1>2. Types'
  BY <1>0, <1>1 DEF Types
<1>3. Frame(q)
  BY <1>0, <1>1 DEF Frame, Types
<1>4. ASSUME NEW p \in Requests \ {q}, NEW u \in Users, NEW e \in Experiments,
             HasSibling(u, e)'
      PROVE  HasSibling(u, e)
  BY <1>4, SiblingFrame
<1>5. step'[q] = "idle" /\ req'[q] = NoRequest
  BY <1>0, <1>1 DEF Types
<1>6. Asked(q)' /\ Recorded(q)' /\ Separated(q)'
  BY <1>5, EmptyRequest DEF Asked, Recorded, Separated, Writing
<1>7. ASSUME NEW u \in Users, NEW e \in Experiments
      PROVE  told'[u][e] \subseteq told[u][e] \cup {assigned'[u][e]}
  <2>1. \/ told' = told
        \/ /\ v # None
           /\ told' = [told EXCEPT ![req[q].user][req[q].exp] = @ \cup {v}]
    BY DEF Reply
  <2>2. /\ told \in [Users -> [Experiments -> SUBSET Variants]]
        /\ req[q].user \in Users /\ req[q].exp \in Experiments
    BY <1>0 DEF Types, Asked
  <2>3. CASE u = req[q].user /\ e = req[q].exp
    <3>1. told'[u][e] = told[u][e] \/ (v # None /\ told'[u][e] = told[u][e] \cup {v})
      BY <2>1, <2>2, <2>3
    <3>2. v # None => v = assigned'[u][e]
      BY <2>3
    <3>3. QED
      BY <3>1, <3>2
  <2>4. CASE ~(u = req[q].user /\ e = req[q].exp)
    BY <2>1, <2>2, <2>4
  <2>5. QED
    BY <2>3, <2>4
<1>8. \A x \in met' : x \in met \/ population'[x[1]][x[2]] # "unseen"
  <2>1. met' = met \/ (req[q].records /\ met' = met \cup {<<req[q].holdout, req[q].user>>})
    BY DEF Reply
  <2>2. QED
    BY <2>1
<1>9. QED
  BY <1>2, <1>3, <1>4, <1>6, <1>7, <1>8, RequestStep

LEMMA BeginStep == ASSUME Rest, NEW q \in Requests, Begin(q) PROVE Rest'
<1>0. Types
  BY DEF Rest
<1>1. PICK u \in Users, e \in Experiments :
        req' = [req EXCEPT ![q] = [NoRequest EXCEPT !.user = u, !.exp = e,
                                                    !.grouped = exp[e].grouped]]
  BY DEF Begin
<1> DEFINE x == [NoRequest EXCEPT !.user = u, !.exp = e, !.grouped = exp[e].grouped]
<1>2. exp[e].grouped \in BOOLEAN
  BY <1>0 DEF Types
<1>3. /\ x \in ReqStates /\ x.user = u /\ x.exp = e /\ ~x.records /\ ~x.wrote
      /\ x.grouped <=> exp[e].grouped
  BY <1>2, EmptyRequest DEF ReqStates, NoRequest
<1>4. /\ step' = [step EXCEPT ![q] = "look"] /\ raced' = raced \ {q}
      /\ exp' = exp /\ group' = group /\ regroups' = regroups
      /\ assigned' = assigned /\ population' = population /\ told' = told /\ met' = met
  BY DEF Begin, Goto, groupVars
<1>5. req' = [req EXCEPT ![q] = x]
  BY <1>1
<1> HIDE DEF x
<1>6. step'[q] = "look" /\ req'[q] = x
  BY <1>0, <1>4, <1>5 DEF Types
<1>7. Asked(q)' /\ Recorded(q)'
  BY <1>3, <1>6 DEF Asked, Recorded, Writing
<1>8. Separated(q)'
  BY <1>3, <1>4, <1>6 DEF Separated
<1>9. raced' \subseteq Requests /\ "look" \in Steps
  BY <1>0, <1>4 DEF Types, Steps
<1>10. QED
  BY <1>3, <1>4, <1>5, <1>7, <1>8, <1>9, QuietStep

LEMMA LookStep == ASSUME Rest, NEW q \in Requests, Look(q) PROVE Rest'
<1>0. Types /\ Asked(q) /\ Recorded(q) /\ Separated(q)
  BY DEF Rest
<1>1. /\ step[q] = "look"
      /\ exp' = exp /\ group' = group /\ regroups' = regroups
      /\ assigned' = assigned /\ population' = population /\ raced' = raced
  BY DEF Look, groupVars
<1>2. ~req[q].records /\ ~req[q].wrote
  BY <1>0, <1>1 DEF Recorded, Writing
<1> DEFINE v == assigned[req[q].user][req[q].exp]
<1>3. CASE v # None /\ Reply(q, v)
  <2>1. v \in Variants \cup {None}
    BY <1>0, <1>1 DEF Types, Asked
  <2>2. raced \subseteq Requests
        /\ population \in [Holdouts -> [Users -> {"unseen", "in", "out"}]]
    BY <1>0 DEF Types
  <2> HIDE DEF v
  <2>3. QED
    BY <1>1, <1>2, <1>3, <2>1, <2>2, ReplyStep DEF v
<1>4. CASE Goto(q, "load") /\ UNCHANGED <<req, told, met>>
  <2>1. req' = [req EXCEPT ![q] = req[q]] /\ req[q] \in ReqStates
        /\ step' = [step EXCEPT ![q] = "load"] /\ "load" \in Steps
        /\ raced' \subseteq Requests
    BY <1>0, <1>1, <1>4 DEF Types, Goto, Steps
  <2>2. step'[q] = "load" /\ req'[q] = req[q]
    BY <1>0, <2>1 DEF Types
  <2>3. Asked(q)' /\ Recorded(q)'
    BY <1>0, <1>1, <1>2, <2>2 DEF Asked, Recorded, Writing
  <2>4. Separated(q)'
    BY <1>0, <1>1, <2>2 DEF Separated
  <2>5. told' = told /\ met' = met
    BY <1>4
  <2>6. QED
    BY <1>1, <2>1, <2>3, <2>4, <2>5, QuietStep
<1>5. QED
  BY <1>3, <1>4 DEF Look

\* A step from one place to the next before the insert, with entry x.
LEMMA PassStep ==
  ASSUME Rest, NEW q \in Requests, step[q] # "idle", NEW x \in ReqStates,
         NEW t \in {"record", "check", "sibling"},
         req' = [req EXCEPT ![q] = x], step' = [step EXCEPT ![q] = t],
         x.user = req[q].user, x.exp = req[q].exp, x.grouped <=> req[q].grouped,
         UNCHANGED <<groupVars, assigned, population, told, met, raced>>,
         x.records => x.holdout \in Holdouts,
         x.wrote => x.records /\ t \in Writing,
         t \in Writing /\ x.records /\ ~x.wrote
           => population[x.holdout][x.user] # "unseen",
         t = "sibling" /\ Grouped(q) => Selected(req[q].user) = req[q].exp
  PROVE  Rest'
<1>0. Types /\ Asked(q) /\ Separated(q)
  BY DEF Rest
<1>1. step'[q] = t /\ req'[q] = x
  BY <1>0 DEF Types
<1>2. /\ exp' = exp /\ group' = group /\ regroups' = regroups /\ assigned' = assigned
      /\ population' = population /\ told' = told /\ met' = met /\ raced' = raced
  BY DEF groupVars
<1>3. Asked(q)'
  BY <1>0, <1>1 DEF Asked
<1>4. Recorded(q)'
  BY <1>1, <1>2 DEF Recorded, Writing
<1>5. Separated(q)'
  <2>1. \A u : Selected(u)' = Selected(u)
    BY <1>2, SelectedFrame
  <2>2. Grouped(q)' => Grouped(q)
    BY <1>1, <1>2 DEF Grouped
  <2>3. Selected(req[q].user)' = Selected(req[q].user)
    <3>1. PICK u : u = req[q].user /\ u = req'[q].user
      BY <1>1
    <3>2. Selected(req[q].user)' = Selected(u)'
      BY <3>1 DEF Selected
    <3>3. QED
      BY <2>1, <3>1, <3>2
  <2>4. QED
    BY <1>0, <1>1, <1>2, <2>2, <2>3 DEF Separated
<1>6. raced' \subseteq Requests /\ t \in Steps
  BY <1>0, <1>2 DEF Types, Steps
<1>7. QED
  BY <1>2, <1>3, <1>4, <1>5, <1>6, QuietStep

LEMMA LoadStep == ASSUME Rest, NEW q \in Requests, LoadHoldout(q) PROVE Rest'
<1>0. Types /\ Asked(q) /\ Recorded(q) /\ req[q] \in ReqStates
  BY DEF Rest, Types
<1>1. /\ step[q] = "load" /\ step' = [step EXCEPT ![q] = "record"]
      /\ UNCHANGED <<groupVars, assigned, population, told, met, raced>>
  BY DEF LoadHoldout, Goto
<1>2. ~req[q].records /\ ~req[q].wrote
  BY <1>0, <1>1 DEF Recorded, Writing
<1>3. CASE req' = req
  <2>1. req' = [req EXCEPT ![q] = req[q]]
    BY <1>0, <1>3 DEF Types
  <2>2. QED
    BY <1>0, <1>1, <1>2, <2>1, PassStep DEF Writing
<1>4. ASSUME NEW h \in Holdouts,
             req' = [req EXCEPT ![q].holdout = h,
                       ![q].held = Bucket[req[q].user][h] < holdout[h].pct,
                       ![q].records = h \notin Legacy /\ holdout[h].started]
      PROVE  Rest'
  <2>1. PICK i \in BOOLEAN, m \in BOOLEAN :
          req' = [req EXCEPT ![q] = [req[q] EXCEPT !.holdout = h, !.held = i, !.records = m]]
    <3>1. /\ (Bucket[req[q].user][h] < holdout[h].pct) \in BOOLEAN
          /\ (h \notin Legacy /\ holdout[h].started) \in BOOLEAN
      OBVIOUS
    <3>2. QED
      BY <1>4, <3>1
  <2> DEFINE x == [req[q] EXCEPT !.holdout = h, !.held = i, !.records = m]
  <2>2. /\ x \in ReqStates /\ x.user = req[q].user /\ x.exp = req[q].exp
        /\ x.holdout = h
        /\ x.grouped <=> req[q].grouped
        /\ x.wrote <=> req[q].wrote
    BY <1>0 DEF ReqStates
  <2>3. req' = [req EXCEPT ![q] = x]
    BY <2>1
  <2> HIDE DEF x
  <2>4. QED
    BY <1>0, <1>1, <1>2, <2>2, <2>3, PassStep DEF Writing
<1>5. QED
  BY <1>3, <1>4 DEF LoadHoldout

LEMMA RecordStep == ASSUME Rest, NEW q \in Requests, Record(q) PROVE Rest'
<1>0. Types /\ Asked(q) /\ Recorded(q) /\ req[q] \in ReqStates
  BY DEF Rest, Types
<1>1. /\ step[q] = "record" /\ step' = [step EXCEPT ![q] = "check"]
      /\ UNCHANGED <<groupVars, assigned, population, told, met, raced>>
  BY DEF Record, Goto
<1>2. ~req[q].wrote
  BY <1>0, <1>1 DEF Recorded, Writing
<1>3. CASE ~req[q].records /\ UNCHANGED req
  <2>1. req' = [req EXCEPT ![q] = req[q]]
    BY <1>0, <1>3 DEF Types
  <2>2. QED
    BY <1>0, <1>1, <1>2, <1>3, <2>1, PassStep DEF Writing
<1>4. CASE /\ req[q].records
           /\ req' = [req EXCEPT ![q].wrote =
                        population[req[q].holdout][req[q].user] = "unseen"]
  <2>1. PICK w \in BOOLEAN :
          /\ w <=> population[req[q].holdout][req[q].user] = "unseen"
          /\ req' = [req EXCEPT ![q] = [req[q] EXCEPT !.wrote = w]]
    <3>1. (population[req[q].holdout][req[q].user] = "unseen") \in BOOLEAN
      OBVIOUS
    <3>2. QED
      BY <1>4, <3>1
  <2> DEFINE x == [req[q] EXCEPT !.wrote = w]
  <2>2. /\ x \in ReqStates /\ x.user = req[q].user /\ x.exp = req[q].exp
        /\ x.holdout = req[q].holdout
        /\ x.grouped <=> req[q].grouped
        /\ x.records <=> req[q].records
        /\ x.wrote <=> w
    BY <1>0 DEF ReqStates
  <2>3. req' = [req EXCEPT ![q] = x]
    BY <2>1
  <2> HIDE DEF x
  <2>4. x.records => x.holdout \in Holdouts
    BY <1>0, <2>2 DEF Recorded
  <2>5. x.wrote => x.records /\ "check" \in Writing
    BY <1>4, <2>2 DEF Writing
  <2>6. ~x.wrote => population[x.holdout][x.user] # "unseen"
    BY <2>1, <2>2
  <2>7. QED
    BY <1>0, <1>1, <2>2, <2>3, <2>4, <2>5, <2>6, PassStep
<1>5. QED
  BY <1>3, <1>4 DEF Record

LEMMA RefuseStep ==
  ASSUME Rest, NEW q \in Requests, step[q] \in Writing, Refuse(q)
  PROVE  Rest'
<1>0. Types /\ Asked(q) /\ Recorded(q)
  BY DEF Rest
<1>1. /\ population' = Committed(q) /\ Reply(q, None)
      /\ exp' = exp /\ group' = group /\ regroups' = regroups
      /\ assigned' = assigned /\ raced' = raced
  BY DEF Refuse, groupVars
<1>2. raced' \subseteq Requests /\ step[q] # "idle" /\ None \in Variants \cup {None}
  BY <1>0, <1>1 DEF Types, Writing
<1>3. QED
  BY <1>0, <1>1, <1>2, CommitRecords, ReplyStep

\* The choice of a variant, by a request the group does not hold back.
LEMMA ChooseStep ==
  ASSUME Rest, NEW q \in Requests, step[q] \in {"check", "sibling"}, Choose(q),
         Grouped(q) => /\ step[q] = "sibling"
                       /\ ~HasSibling(req[q].user, req[q].exp)
  PROVE  Rest'
<1>0. Types /\ Asked(q) /\ Recorded(q) /\ Separated(q) /\ req[q] \in ReqStates
  BY DEF Rest, Types
<1>1. PICK v \in Variants : req' = [req EXCEPT ![q] = [req[q] EXCEPT !.choice = v]]
  BY DEF Choose
<1> DEFINE x == [req[q] EXCEPT !.choice = v]
<1>2. /\ x \in ReqStates /\ x.user = req[q].user /\ x.exp = req[q].exp
      /\ x.holdout = req[q].holdout /\ x.choice = v
      /\ x.grouped <=> req[q].grouped
      /\ x.records <=> req[q].records
      /\ x.wrote <=> req[q].wrote
  BY <1>0 DEF ReqStates
<1>3. req' = [req EXCEPT ![q] = x]
  BY <1>1
<1> HIDE DEF x
<1>4. /\ step' = [step EXCEPT ![q] = "insert"] /\ "insert" \in Steps
      /\ exp' = exp /\ group' = group /\ regroups' = regroups
      /\ assigned' = assigned /\ population' = population /\ told' = told /\ met' = met
      /\ raced' = raced
  BY DEF Choose, Goto, groupVars, Steps
<1>5. step'[q] = "insert" /\ req'[q] = x /\ raced' \subseteq Requests
  BY <1>0, <1>3, <1>4 DEF Types
<1>6. Asked(q)'
  BY <1>0, <1>2, <1>5 DEF Asked
<1>7. Recorded(q)'
  BY <1>0, <1>2, <1>4, <1>5 DEF Recorded, Writing
<1>8. Separated(q)'
  <2>1. PICK u \in Users, e \in Experiments :
          u = req[q].user /\ e = req[q].exp /\ u = req'[q].user /\ e = req'[q].exp
    BY <1>0, <1>2, <1>5 DEF Asked
  <2>2. /\ Selected(req[q].user)' = Selected(u)
        /\ HasSibling(req[q].user, req[q].exp)' <=> HasSibling(u, e)
    <3>1. Selected(u)' = Selected(u) /\ HasSibling(u, e)' = HasSibling(u, e)
      BY <1>4, SelectedFrame, SiblingFrame
    <3>2. /\ Selected(req[q].user)' = Selected(u)'
          /\ HasSibling(req[q].user, req[q].exp)' = HasSibling(u, e)'
      BY <2>1 DEF Selected, HasSibling
    <3>3. QED
      BY <3>1, <3>2
  <2>3. Grouped(q)' => Grouped(q)
    BY <1>2, <1>4, <1>5 DEF Grouped
  <2>4. Grouped(q) => Selected(u) = e /\ ~HasSibling(u, e)
    BY <1>0, <2>1 DEF Separated
  <2>5. q \notin raced' => (req'[q].grouped <=> exp'[req'[q].exp].grouped)
    BY <1>0, <1>2, <1>4, <1>5 DEF Separated
  <2>6. QED
    BY <1>5, <2>1, <2>2, <2>3, <2>4, <2>5 DEF Separated
<1>9. QED
  BY <1>2, <1>3, <1>4, <1>5, <1>6, <1>7, <1>8, QuietStep

LEMMA CheckStep == ASSUME Rest, NEW q \in Requests, Check(q) PROVE Rest'
<1>0. Types /\ Asked(q) /\ Recorded(q) /\ req[q] \in ReqStates
  BY DEF Rest, Types
<1>1. step[q] = "check" /\ step[q] \in Writing
  BY DEF Check, Writing
<1>2. CASE Refuse(q)
  BY <1>1, <1>2, RefuseStep
<1>3. CASE (~req[q].grouped \/ group.archived) /\ Choose(q)
  BY <1>1, <1>3, ChooseStep DEF Grouped
<1>4. CASE /\ ~(~req[q].grouped \/ group.archived)
           /\ Selected(req[q].user) = req[q].exp /\ AskSiblings(q)
  <2>1. /\ req' = [req EXCEPT ![q] = req[q]]
        /\ step' = [step EXCEPT ![q] = "sibling"]
        /\ UNCHANGED <<groupVars, assigned, population, told, met, raced>>
    BY <1>0, <1>4 DEF AskSiblings, Goto, Types
  <2>2. /\ req[q].records => req[q].holdout \in Holdouts
        /\ req[q].wrote => req[q].records
        /\ req[q].records /\ ~req[q].wrote
             => population[req[q].holdout][req[q].user] # "unseen"
    BY <1>0, <1>1 DEF Recorded
  <2>3. step[q] # "idle" /\ "sibling" \in Writing
    BY <1>1 DEF Writing
  <2>4. QED
    BY <1>0, <1>4, <2>1, <2>2, <2>3, PassStep
<1>5. QED
  BY <1>2, <1>3, <1>4 DEF Check

LEMMA SiblingStep == ASSUME Rest, NEW q \in Requests, CheckSibling(q) PROVE Rest'
<1>1. step[q] = "sibling" /\ step[q] \in Writing
  BY DEF CheckSibling, Writing
<1>2. CASE Refuse(q)
  BY <1>1, <1>2, RefuseStep
<1>3. CASE ~HasSibling(req[q].user, req[q].exp) /\ Choose(q)
  BY <1>1, <1>3, ChooseStep
<1>4. QED
  BY <1>2, <1>3 DEF CheckSibling

\* Insert when the row is not there.
Stores(q) ==
  /\ assigned[req[q].user][req[q].exp] = None
  /\ assigned' = [assigned EXCEPT ![req[q].user][req[q].exp] = req[q].choice]
  /\ population' = Committed(q)
  /\ raced' = IF q \notin raced THEN raced
              ELSE raced \cup {p \in Requests \ {q} : step[p] = "insert"}
  /\ Reply(q, req[q].choice)
  /\ UNCHANGED groupVars

\* The insert.  A new row is no sibling for a request that asked before: had
\* nothing overtaken the two, the group would have chosen one experiment.
LEMMA StoreStep ==
  ASSUME Rest, NEW q \in Requests, step[q] = "insert", Stores(q)
  PROVE  Rest'
<1> DEFINE v == req[q].choice
<1>0. Types /\ Asked(q) /\ Recorded(q) /\ Separated(q)
  BY DEF Rest
<1>1. PICK i \in Users, j \in Experiments : i = req[q].user /\ j = req[q].exp
  BY <1>0 DEF Asked
<1>2. v \in Variants /\ step[q] # "idle" /\ step[q] \in Writing
  BY <1>0 DEF Asked, Writing
<1>3. exp' = exp /\ group' = group /\ regroups' = regroups
  BY DEF groupVars, Stores
<1>4. /\ told' \in [Users -> [Experiments -> SUBSET Variants]]
      /\ met' \subseteq Holdouts \X Users
      /\ req' = [req EXCEPT ![q] = NoRequest]
      /\ step' = [step EXCEPT ![q] = "idle"]
      /\ req' \in [Requests -> ReqStates] /\ step' \in [Requests -> Steps]
  BY <1>0, <1>2, ReplyTypes DEF Stores
<1>5. /\ population' \in [Holdouts -> [Users -> {"unseen", "in", "out"}]]
      /\ \A h \in Holdouts, u \in Users :
           population[h][u] # "unseen" => population'[h][u] # "unseen"
      /\ req[q].records => population'[req[q].holdout][req[q].user] # "unseen"
  BY <1>0, <1>2, CommitRecords DEF Stores
<1> HIDE DEF v
<1>6. /\ assigned' \in [Users -> [Experiments -> Variants \cup {None}]]
      /\ assigned'[i][j] = v
      /\ \A u \in Users, e \in Experiments :
           ~(u = i /\ e = j) => assigned'[u][e] = assigned[u][e]
  <2>1. assigned' = [assigned EXCEPT ![i][j] = v]
    BY <1>1 DEF v, Stores
  <2>2. assigned \in [Users -> [Experiments -> Variants \cup {None}]]
    BY <1>0 DEF Types
  <2>3. assigned' \in [Users -> [Experiments -> Variants \cup {None}]]
    <3>1. assigned[i] \in [Experiments -> Variants \cup {None}]
      BY <2>2
    <3>2. [assigned[i] EXCEPT ![j] = v] \in [Experiments -> Variants \cup {None}]
      BY <1>2, <3>1
    <3>3. assigned' = [assigned EXCEPT ![i] = [assigned[i] EXCEPT ![j] = v]]
      BY <2>1
    <3>4. QED
      BY <2>2, <3>2, <3>3
  <2>4. assigned'[i][j] = v
    BY <2>1, <2>2
  <2>5. ASSUME NEW u \in Users, NEW e \in Experiments, ~(u = i /\ e = j)
        PROVE  assigned'[u][e] = assigned[u][e]
    BY <2>1, <2>2, <2>5
  <2>6. QED
    BY <2>3, <2>4, <2>5
<1>7. Types'
  <2>1. raced' \subseteq Requests
    BY <1>0 DEF Types, Stores
  <2>2. QED
    BY <1>0, <1>3, <1>4, <1>5, <1>6, <2>1 DEF Types
<1>8. Frame(q)
  <2>1. \A u \in Users, e \in Experiments :
          assigned[u][e] # None => assigned'[u][e] = assigned[u][e]
    BY <1>1, <1>6 DEF Stores
  <2>2. \A p \in Requests \ {q} : /\ step'[p] = step[p] /\ req'[p] = req[p]
                                  /\ p \in raced => p \in raced'
    BY <1>0, <1>4 DEF Types, Stores
  <2>3. \A h \in Holdouts, u \in Users :
          population[h][u] # "unseen" => population'[h][u] # "unseen"
    BY <1>5
  <2>4. QED
    BY <1>3, <2>1, <2>2, <2>3 DEF Frame
<1>9. ASSUME NEW p \in Requests \ {q}, NEW u \in Users, NEW e \in Experiments,
             step[p] = "insert", Grouped(p), p \notin raced',
             u = req[p].user, e = req[p].exp, HasSibling(u, e)'
      PROVE  HasSibling(u, e)
  <2>1. PICK f \in Experiments \ {e} : /\ assigned'[u][f] # None /\ exp[f].grouped
                                       /\ exp[f].status \notin {"COMPLETED", "ARCHIVED"}
    BY <1>3, <1>9 DEF HasSibling
  <2>2. CASE u = i /\ f = j
    <3>1. q \notin raced
      BY <1>9 DEF Stores
    <3>2. Grouped(q)
      BY <1>0, <1>1, <1>9, <2>1, <2>2, <3>1 DEF Separated, Grouped
    <3>3. Selected(u) = f
      BY <1>0, <1>1, <2>2, <3>2 DEF Separated
    <3>4. Selected(u) = e
      BY <1>9 DEF Rest, Separated
    <3>5. QED
      BY <2>1, <3>3, <3>4
  <2>3. CASE ~(u = i /\ f = j)
    <3>1. assigned'[u][f] = assigned[u][f]
      BY <1>6, <2>3
    <3>2. QED
      BY <2>1, <3>1 DEF HasSibling
  <2>4. QED
    BY <2>2, <2>3
<1>10. step'[q] = "idle" /\ req'[q] = NoRequest
  BY <1>0, <1>4 DEF Types
<1>11. Asked(q)' /\ Recorded(q)' /\ Separated(q)'
  BY <1>10, EmptyRequest DEF Asked, Recorded, Separated, Writing
<1>12. ASSUME NEW u \in Users, NEW e \in Experiments
       PROVE  told'[u][e] \subseteq told[u][e] \cup {assigned'[u][e]}
  <2>1. told' = told \/ told' = [told EXCEPT ![i][j] = @ \cup {v}]
    BY <1>1 DEF Reply, v, Stores
  <2>2. told \in [Users -> [Experiments -> SUBSET Variants]]
    BY <1>0 DEF Types
  <2>3. CASE u = i /\ e = j
    <3>1. told'[u][e] = told[u][e] \/ told'[u][e] = told[u][e] \cup {v}
      BY <2>1, <2>2, <2>3
    <3>2. QED
      BY <1>6, <2>3, <3>1
  <2>4. CASE ~(u = i /\ e = j)
    BY <2>1, <2>2, <2>4
  <2>5. QED
    BY <2>3, <2>4
<1>13. \A x \in met' : x \in met \/ population'[x[1]][x[2]] # "unseen"
  <2>1. met' = met \/ (req[q].records /\ met' = met \cup {<<req[q].holdout, req[q].user>>})
    BY DEF Reply, Stores
  <2>2. QED
    BY <1>5, <2>1
<1>14. QED
  BY <1>7, <1>8, <1>9, <1>11, <1>12, <1>13, RequestStep

LEMMA InsertStep == ASSUME Rest, NEW q \in Requests, Insert(q) PROVE Rest'
<1>0. Types /\ Asked(q) /\ Recorded(q) /\ Separated(q) /\ req[q] \in ReqStates
  BY DEF Rest, Types
<1>1. step[q] = "insert" /\ UNCHANGED groupVars
  BY DEF Insert
<1>2. CASE assigned[req[q].user][req[q].exp] = None
  BY <1>1, <1>2, StoreStep DEF Insert, Stores
<1>3. CASE /\ assigned[req[q].user][req[q].exp] # None
           /\ req' = [req EXCEPT ![q].wrote = FALSE]
           /\ Goto(q, "recover")
           /\ UNCHANGED <<assigned, population, told, met, raced>>
  <2> DEFINE x == [req[q] EXCEPT !.wrote = FALSE]
  <2>1. /\ x \in ReqStates /\ x.user = req[q].user /\ x.exp = req[q].exp
        /\ x.holdout = req[q].holdout /\ ~x.wrote
        /\ x.grouped <=> req[q].grouped
        /\ x.records <=> req[q].records
    BY <1>0 DEF ReqStates
  <2>2. /\ req' = [req EXCEPT ![q] = x]
        /\ step' = [step EXCEPT ![q] = "recover"] /\ "recover" \in Steps
        /\ exp' = exp /\ group' = group /\ regroups' = regroups
        /\ assigned' = assigned /\ population' = population /\ told' = told /\ met' = met
        /\ raced' = raced
    BY <1>1, <1>3 DEF Goto, Steps, groupVars
  <2> HIDE DEF x
  <2>3. step'[q] = "recover" /\ req'[q] = x /\ raced' \subseteq Requests
    BY <1>0, <2>2 DEF Types
  <2>4. Asked(q)'
    BY <1>0, <1>1, <1>3, <2>1, <2>2, <2>3 DEF Asked
  <2>5. Recorded(q)'
    BY <1>0, <2>1, <2>3 DEF Recorded, Writing
  <2>6. Separated(q)'
    BY <1>0, <1>1, <2>1, <2>2, <2>3 DEF Separated
  <2>7. QED
    BY <2>1, <2>2, <2>3, <2>4, <2>5, <2>6, QuietStep
<1>4. QED
  BY <1>2, <1>3 DEF Insert

LEMMA RecoverStep == ASSUME Rest, NEW q \in Requests, Recover(q) PROVE Rest'
<1> DEFINE v == assigned[req[q].user][req[q].exp]
<1>0. Types /\ Asked(q) /\ Recorded(q)
  BY DEF Rest
<1>1. /\ step[q] = "recover" /\ Reply(q, v)
      /\ exp' = exp /\ group' = group /\ regroups' = regroups
      /\ assigned' = assigned /\ raced' = raced
  BY DEF Recover, groupVars
<1>2. req[q].user \in Users /\ (req[q].records => req[q].holdout \in Holdouts)
  BY <1>0, <1>1 DEF Asked, Recorded
<1>3. v \in Variants \cup {None} /\ raced' \subseteq Requests
  BY <1>0, <1>1 DEF Types, Asked
<1>4. /\ population' \in [Holdouts -> [Users -> {"unseen", "in", "out"}]]
      /\ \A h \in Holdouts, u \in Users :
           population[h][u] # "unseen" => population'[h][u] # "unseen"
      /\ req[q].records => population'[req[q].holdout][req[q].user] # "unseen"
  <2>0. population \in [Holdouts -> [Users -> {"unseen", "in", "out"}]]
    BY <1>0 DEF Types
  <2>1. CASE /\ ~req[q].records \/ population[req[q].holdout][req[q].user] # "unseen"
             /\ population' = population
    BY <2>0, <2>1
  <2>2. CASE /\ req[q].records
             /\ population' = [population EXCEPT ![req[q].holdout][req[q].user] =
                                IF req[q].held THEN "in" ELSE "out"]
    <3>1. PICK arm \in {"in", "out"} :
            population' = [population EXCEPT ![req[q].holdout][req[q].user] = arm]
      BY <2>2
    <3>2. QED
      BY <1>2, <2>0, <2>2, <3>1
  <2>3. QED
    BY <2>1, <2>2 DEF Recover
<1> HIDE DEF v
<1>5. QED
  BY <1>1, <1>3, <1>4, ReplyStep DEF v

LEMMA LoseStep == ASSUME Rest, NEW q \in Requests, Lose(q) PROVE Rest'
<1>0. Types
  BY DEF Rest
<1>1. /\ req' = [req EXCEPT ![q] = NoRequest] /\ step' = [step EXCEPT ![q] = "idle"]
      /\ exp' = exp /\ group' = group /\ regroups' = regroups
      /\ assigned' = assigned /\ population' = population /\ told' = told /\ met' = met
      /\ raced' = raced
  BY DEF Lose, Goto, groupVars
<1>2. step'[q] = "idle" /\ req'[q] = NoRequest /\ raced' \subseteq Requests /\ "idle" \in Steps
  BY <1>0, <1>1, EmptyRequest DEF Types, Steps
<1>3. Asked(q)' /\ Recorded(q)' /\ Separated(q)'
  BY <1>2, EmptyRequest DEF Asked, Recorded, Separated, Writing
<1>4. QED
  BY <1>1, <1>2, <1>3, EmptyRequest, QuietStep

-----------------------------------------------------------------------------
(* Steps beside the requests                                               *)

\* Requests that a change of the active set can mislead are overtaken by it.
LEMMA ChangeStep ==
  ASSUME Rest, NEW S, Overtaken(S), {"sibling", "insert"} \subseteq S,
         exp' \in [Experiments -> [status : Statuses, grouped : BOOLEAN]],
         group' \in [archived : BOOLEAN, traffic : 0..HashRange],
         regroups' \in 0..MaxRegroup,
         \/ \A t \in Steps : t # "idle" => t \in S
         \/ \A e \in Experiments : exp'[e].grouped <=> exp[e].grouped
  PROVE  Rest'
<1>0. Types /\ AnswersAgree /\ MetAreRecorded
  BY DEF Rest
<1>1. /\ raced' = raced \cup {q \in Requests : step[q] \in S}
      /\ assigned' = assigned /\ population' = population /\ step' = step /\ req' = req
      /\ told' = told /\ met' = met
  BY DEF Overtaken
<1>2. Types'
  BY <1>0, <1>1 DEF Types
<1>3. ASSUME NEW q \in Requests PROVE Asked(q)' /\ Recorded(q)' /\ Separated(q)'
  <2>0. Asked(q) /\ Recorded(q) /\ Separated(q)
    BY DEF Rest
  <2>1. Asked(q)' /\ Recorded(q)'
    BY <1>1, <2>0 DEF Asked, Recorded
  <2>2. step[q] \in S => q \in raced'
    BY <1>1
  <2>3. step[q] \in Steps
    BY <1>0 DEF Types
  <2>4. step'[q] # "idle" /\ q \notin raced'
          => (req'[q].grouped <=> exp'[req'[q].exp].grouped)
    <3>1. step[q] # "idle" => req[q].exp \in Experiments
      BY <2>0 DEF Asked
    <3>2. q \notin raced' => q \notin raced /\ step[q] \notin S
      BY <1>1
    <3>3. CASE \A t \in Steps : t # "idle" => t \in S
      BY <1>1, <2>3, <3>2, <3>3
    <3>4. CASE \A e \in Experiments : exp'[e].grouped <=> exp[e].grouped
      BY <1>1, <2>0, <3>1, <3>2, <3>4 DEF Separated
    <3>5. QED
      BY <3>3, <3>4
  <2>5. step'[q] \in {"sibling", "insert"} => ~Grouped(q)'
    BY <1>1, <2>2 DEF Grouped
  <2>6. QED
    BY <2>1, <2>4, <2>5 DEF Separated
<1>4. AnswersAgree' /\ MetAreRecorded'
  BY <1>0, <1>1 DEF AnswersAgree, MetAreRecorded
<1>5. QED
  BY <1>2, <1>3, <1>4 DEF Rest

LEMMA MoveStep == ASSUME Rest, NEW e \in Experiments, MoveExperiment(e) PROVE Rest'
<1>0. Types /\ exp[e] \in [status : Statuses, grouped : BOOLEAN]
  BY DEF Rest, Types
<1>1. PICK t \in Statuses : exp' = [exp EXCEPT ![e] = [exp[e] EXCEPT !.status = t]]
  BY DEF MoveExperiment
<1> DEFINE x == [exp[e] EXCEPT !.status = t]
<1>2. x \in [status : Statuses, grouped : BOOLEAN] /\ (x.grouped <=> exp[e].grouped)
  BY <1>0
<1>3. exp' = [exp EXCEPT ![e] = x]
  BY <1>1
<1> HIDE DEF x
<1>4. /\ exp' \in [Experiments -> [status : Statuses, grouped : BOOLEAN]]
      /\ \A f \in Experiments : exp'[f].grouped <=> exp[f].grouped
  BY <1>0, <1>2, <1>3 DEF Types
<1>5. Overtaken({"sibling", "insert"}) /\ group' = group /\ regroups' = regroups
  BY DEF MoveExperiment
<1>6. group' \in [archived : BOOLEAN, traffic : 0..HashRange] /\ regroups' \in 0..MaxRegroup
  BY <1>0, <1>5 DEF Types
<1>7. QED
  BY <1>4, <1>5, <1>6, ChangeStep

LEMMA RegroupStep ==
  ASSUME Rest, Regrouped,
         exp' \in [Experiments -> [status : Statuses, grouped : BOOLEAN]],
         group' \in [archived : BOOLEAN, traffic : 0..HashRange]
  PROVE  Rest'
<1>1. regroups' \in 0..MaxRegroup
  BY HashAssumption DEF Rest, Types, Regrouped
<1>2. /\ Overtaken(Steps \ {"idle"}) /\ {"sibling", "insert"} \subseteq Steps \ {"idle"}
      /\ \A t \in Steps : t # "idle" => t \in Steps \ {"idle"}
  BY DEF Regrouped, Steps
<1>3. QED
  BY <1>1, <1>2, ChangeStep

LEMMA GroupStep ==
  ASSUME Rest, UpdateGroup \/ \E e \in Experiments : AddToGroup(e) \/ RemoveFromGroup(e)
  PROVE  Rest'
<1>0. Types
  BY DEF Rest
<1>1. ASSUME NEW e \in Experiments, AddToGroup(e) \/ RemoveFromGroup(e)
      PROVE  Rest'
  <2>1. PICK g \in BOOLEAN : exp' = [exp EXCEPT ![e] = [exp[e] EXCEPT !.grouped = g]]
    BY <1>1 DEF AddToGroup, RemoveFromGroup
  <2>2. [exp[e] EXCEPT !.grouped = g] \in [status : Statuses, grouped : BOOLEAN]
    BY <1>0 DEF Types
  <2>3. exp' \in [Experiments -> [status : Statuses, grouped : BOOLEAN]]
    BY <1>0, <2>1, <2>2 DEF Types
  <2>4. Regrouped /\ group' \in [archived : BOOLEAN, traffic : 0..HashRange]
    BY <1>0, <1>1 DEF AddToGroup, RemoveFromGroup, Types
  <2>5. QED
    BY <2>3, <2>4, RegroupStep
<1>2. CASE UpdateGroup
  <2>1. /\ Regrouped /\ exp' = exp
        /\ group' \in [archived : BOOLEAN, traffic : 0..HashRange]
    BY <1>2 DEF UpdateGroup
  <2>2. QED
    BY <1>0, <2>1, RegroupStep DEF Types
<1>3. QED
  BY <1>1, <1>2

\* A step of the holdouts, or none, changes nothing a request has.
LEMMA AwayStep ==
  ASSUME Rest, UNCHANGED <<groupVars, requestVars>>
  PROVE  Rest'
<1>1. /\ exp' = exp /\ group' = group /\ regroups' = regroups
      /\ assigned' = assigned /\ population' = population /\ step' = step /\ req' = req
      /\ told' = told /\ met' = met /\ raced' = raced
  BY DEF groupVars, requestVars
<1>2. Types' /\ AnswersAgree' /\ MetAreRecorded'
  BY <1>1 DEF Rest, Types, AnswersAgree, MetAreRecorded
<1>3. ASSUME NEW q \in Requests PROVE Asked(q)' /\ Recorded(q)' /\ Separated(q)'
  <2>0. Asked(q) /\ Recorded(q) /\ Separated(q)
    BY DEF Rest
  <2>1. Asked(q)' /\ Recorded(q)'
    BY <1>1, <2>0 DEF Asked, Recorded
  <2>2. PICK u, e : u = req[q].user /\ e = req[q].exp
    OBVIOUS
  <2>3. Selected(u)' = Selected(u) /\ HasSibling(u, e)' = HasSibling(u, e)
    BY <1>1, SelectedFrame, SiblingFrame
  <2>4. /\ Selected(req[q].user)' = Selected(u)'
        /\ HasSibling(req[q].user, req[q].exp)' = HasSibling(u, e)'
    BY <1>1, <2>2 DEF Selected, HasSibling
  <2>5. Separated(q)'
    BY <1>1, <2>0, <2>2, <2>3, <2>4 DEF Separated, Grouped
  <2>6. QED
    BY <2>1, <2>5
<1>4. QED
  BY <1>2, <1>3 DEF Rest

-----------------------------------------------------------------------------
(* The theorems                                                            *)

LEMMA Parts == IInv <=> Rest /\ HoldoutIInv
  BY DEF IInv, Rest, TypeOK, Types, HoldoutIInv

LEMMA InitIInv == Init => IInv
<1> SUFFICES ASSUME Init PROVE Rest /\ HoldoutIInv
  BY Parts
<1>1. HoldoutIInv
  BY InitHoldoutIInv DEF Init
<1>2. Types
  BY EmptyRequest, HashAssumption DEF Init, Types, Statuses, Steps
<1>3. \A q \in Requests : Asked(q) /\ Recorded(q) /\ Separated(q)
  BY EmptyRequest DEF Init, Asked, Recorded, Separated, Writing
<1>4. AnswersAgree /\ MetAreRecorded
  BY DEF Init, AnswersAgree, MetAreRecorded
<1>5. QED
  BY <1>1, <1>2, <1>3, <1>4 DEF Rest

LEMMA NextIInv == IInv /\ [Next]_vars => IInv'
<1> SUFFICES ASSUME IInv, [Next]_vars PROVE IInv'
  OBVIOUS
<1>0. Rest /\ HoldoutIInv
  BY Parts
<1>1. ASSUME HoldoutNext /\ UNCHANGED <<groupVars, requestVars>> PROVE Rest'
  BY <1>0, <1>1, AwayStep
<1>2. ASSUME NEW e \in Experiments, MoveExperiment(e) PROVE Rest'
  BY <1>0, <1>2, MoveStep
<1>3. ASSUME UpdateGroup \/ \E e \in Experiments : AddToGroup(e) \/ RemoveFromGroup(e)
      PROVE  Rest'
  BY <1>0, <1>3, GroupStep
<1>4. ASSUME NEW q \in Requests, Begin(q) \/ Work(q) \/ Lose(q) PROVE Rest'
  <2>1. CASE Begin(q) \/ Lose(q)
    BY <1>0, <2>1, BeginStep, LoseStep
  <2>2. CASE Look(q) \/ LoadHoldout(q) \/ Record(q)
    BY <1>0, <2>2, LookStep, LoadStep, RecordStep
  <2>3. CASE Check(q) \/ CheckSibling(q)
    BY <1>0, <2>3, CheckStep, SiblingStep
  <2>4. CASE Insert(q) \/ Recover(q)
    BY <1>0, <2>4, InsertStep, RecoverStep
  <2>5. QED
    BY <1>4, <2>1, <2>2, <2>3, <2>4 DEF Work
<1>5. ASSUME UNCHANGED vars PROVE Rest'
  BY <1>0, <1>5, AwayStep DEF vars
<1>6. Rest'
  BY <1>1, <1>2, <1>3, <1>4, <1>5 DEF Next
<1>7. HoldoutIInv'
  BY <1>0, HoldoutsGoOn, HoldoutStep
<1>8. QED
  BY <1>6, <1>7 DEF IInv, Rest, TypeOK, Types, HoldoutIInv

LEMMA Inductive == Spec => []IInv
  BY InitIInv, NextIInv, PTL DEF Spec

\* Rows, requests and histories keep their types.
THEOREM Typed == Spec => []TypeOK
<1>1. IInv => TypeOK
  BY DEF IInv
<1>2. QED
  BY Inductive, <1>1, PTL

\* Whichever processes answer, whatever a bandit's weights were and however
\* the inserts race, a user is told one variant of an experiment.
THEOREM OneAnswer == Spec => []AnswersAgree
<1>1. IInv => AnswersAgree
  BY DEF IInv
<1>2. QED
  BY Inductive, <1>1, PTL

\* A measured holdout's population has every user it was asked about, also
\* when an insert that lost its race rolled the record back.
THEOREM NobodyMissing == Spec => []MetAreRecorded
<1>1. IInv => MetAreRecorded
  BY DEF IInv
<1>2. QED
  BY Inductive, <1>1, PTL

\* A request that no change of the active set overtook never gives its user
\* a second live experiment of the group.
THEOREM Exclusive == Spec => ExclusiveUnlessRaced
<1>1. IInv /\ [Next]_vars
        => [\A q \in Requests \ raced :
              Inserts(q) /\ exp[req[q].exp].grouped /\ ~group.archived
                => Live(req[q].user) = {}]_vars
  <2> SUFFICES ASSUME IInv, [Next]_vars, NEW q \in Requests \ raced,
                      Inserts(q), exp[req[q].exp].grouped, ~group.archived
               PROVE  Live(req[q].user) = {}
    OBVIOUS
  <2>0. Asked(q) /\ Separated(q) /\ Types
    BY Parts DEF Rest
  <2>1. step[q] = "insert" /\ step'[q] = "idle" /\ assigned' # assigned
    BY DEF Inserts
  <2>2. Insert(q)
    <3>1. ASSUME NEW p \in Requests, Work(p)
          PROVE  step'[q] = step[q] \/ p = q
      BY <2>0, <3>1
         DEF Types, Work, Look, LoadHoldout, Record, Check, CheckSibling, Insert, Recover,
             Refuse, Choose, AskSiblings, Reply, Goto
    <3>2. PICK p \in Requests : Work(p)
      BY <2>1
         DEF Next, vars, groupVars, requestVars, MoveExperiment, AddToGroup, RemoveFromGroup,
             UpdateGroup, Regrouped, Overtaken, Begin, Lose
    <3>3. p = q
      BY <2>1, <3>1, <3>2
    <3>4. QED
      BY <2>1, <3>2, <3>3
         DEF Work, Look, LoadHoldout, Record, Check, CheckSibling, Recover
  <2>3. assigned[req[q].user][req[q].exp] = None
    BY <2>1, <2>2 DEF Insert
  <2>4. ~HasSibling(req[q].user, req[q].exp)
    BY <2>0, <2>1 DEF Separated, Grouped
  <2>5. QED
    BY <2>3, <2>4 DEF HasSibling, Live
<1>2. QED
  BY Inductive, <1>1, PTL DEF Spec, ExclusiveUnlessRaced

-----------------------------------------------------------------------------
(* Administrators whose requests follow one another                        *)

\* Changes of holdouts go on as Holdouts says.
LEMMA HoldoutPart == Spec => HoldoutSpec
<1>1. Init => HoldoutInit
  BY DEF Init
<1>2. QED
  BY <1>1, HoldoutsGoOn, PTL DEF Spec, HoldoutSpec

\* Then a holdout that users are recorded in lives as HoldoutLife says.
THEOREM HoldoutsLive == ASSUME Serial PROVE Spec => ImplementsHoldoutLife
  BY HoldoutPart, SerialLife

\* The arm of user u in holdout h is settled, and it is b.
Arm(h, u, b) == HasBeenActive(holdout[h]) /\ (b <=> Bucket[u][h] < holdout[h].pct)

Sorted ==
  /\ \A h \in Holdouts, u \in Users :
       population[h][u] # "unseen" => Arm(h, u, population[h][u] = "in")
  /\ \A q \in Requests :
       req[q].records => Arm(req[q].holdout, req[q].user, req[q].held)

\* A percentage that somebody was sorted by stays.
LEMMA PercentageStays ==
  ASSUME Serial, SerialInv, [HoldoutNext]_holdoutVars, NEW h \in Holdouts,
         HasBeenActive(holdout[h])
  PROVE  HasBeenActive(holdout'[h]) /\ holdout'[h].pct = holdout[h].pct
<1> DEFINE st == [g \in Holdouts |-> HoldoutState(g)]
           pc == [g \in Holdouts |-> holdout[g].pct]
<1>1. HoldoutState(h) \in {"active", "ended"}
  BY DEF SerialInv, HoldoutIInv, WindowStamped, HasBeenActive, HoldoutState
<1>2. st[h] = HoldoutState(h) /\ st'[h] = HoldoutState(h)'
      /\ pc[h] = holdout[h].pct /\ pc'[h] = holdout'[h].pct
  OBVIOUS
<1>3. [Life!Next]_(Life!vars)
  BY LifeStep
<1>4. st'[h] \in {"active", "ended"} /\ pc'[h] = pc[h]
  <2>0. st \in [Holdouts -> {st[g] : g \in Holdouts}] /\ pc \in [Holdouts -> {pc[g] : g \in Holdouts}]
    OBVIOUS
  <2>1. st[h] \in {"active", "ended"}
    BY <1>1, <1>2
  <2> HIDE DEF st, pc
  <2>2. ASSUME NEW g \in Holdouts, Life!Change(g)
        PROVE  st'[h] \in {"active", "ended"} /\ pc'[h] = pc[h]
    BY <2>0, <2>1, <2>2 DEF Life!Change, st, pc
  <2>3. ASSUME NEW g \in Holdouts, Life!Activate(g)
        PROVE  st'[h] \in {"active", "ended"} /\ pc'[h] = pc[h]
    BY <2>0, <2>1, <2>3 DEF Life!Activate, st, pc
  <2>4. ASSUME NEW g \in Holdouts, Life!End(g)
        PROVE  st'[h] \in {"active", "ended"} /\ pc'[h] = pc[h]
    BY <2>0, <2>1, <2>4 DEF Life!End, st, pc
  <2>5. ASSUME UNCHANGED Life!vars
        PROVE  st'[h] \in {"active", "ended"} /\ pc'[h] = pc[h]
    BY <2>1, <2>5 DEF Life!vars, st, pc
  <2>6. QED
    BY <1>3, <2>2, <2>3, <2>4, <2>5 DEF Life!Next
<1>5. QED
  BY <1>2, <1>4 DEF HoldoutState, HasBeenActive

\* What a step adds to a population it takes from a request that records.
LEMMA PopulationGrows ==
  ASSUME Types, [Next]_vars, NEW h \in Holdouts, NEW u \in Users,
         population'[h][u] # population[h][u]
  PROVE  \E q \in Requests :
           /\ req[q].holdout = h /\ req[q].user = u
           /\ req[q].wrote \/ req[q].records
           /\ population'[h][u] = IF req[q].held THEN "in" ELSE "out"
<1>1. PICK q \in Requests :
        \/ population' = Committed(q)
        \/ /\ req[q].records
           /\ population' = [population EXCEPT ![req[q].holdout][req[q].user] =
                               IF req[q].held THEN "in" ELSE "out"]
  BY DEF Next, vars, groupVars, requestVars, MoveExperiment, AddToGroup, RemoveFromGroup,
         UpdateGroup, Regrouped, Overtaken, Begin, Work, Look, LoadHoldout, Record, Check,
         CheckSibling, Insert, Recover, Lose, Refuse, Choose, AskSiblings
<1>2. /\ req[q].wrote \/ req[q].records
      /\ population' = [population EXCEPT ![req[q].holdout][req[q].user] =
                          IF req[q].held THEN "in" ELSE "out"]
  BY <1>1 DEF Committed
<1>3. population \in [Holdouts -> [Users -> {"unseen", "in", "out"}]]
  BY DEF Types
<1>4. req[q].holdout = h /\ req[q].user = u
  BY <1>2, <1>3
<1>5. QED
  BY <1>2, <1>3, <1>4

\* A request records for the holdout it loaded, while that is active.
LEMMA RecordsAsLoaded ==
  ASSUME Types, [Next]_vars, NEW q \in Requests, req'[q].records
  PROVE  \/ /\ req[q].records
            /\ req'[q].holdout = req[q].holdout /\ req'[q].user = req[q].user
            /\ req'[q].held = req[q].held
         \/ /\ req'[q].holdout \in Holdouts /\ holdout' = holdout
            /\ Arm(req'[q].holdout, req'[q].user, req'[q].held)
<1>0. ~NoRequest.records /\ req \in [Requests -> ReqStates]
  BY EmptyRequest DEF Types
<1>1. CASE req' = req
  BY <1>1
<1>2. ASSUME NEW p \in Requests, LoadHoldout(p)
      PROVE  p = q => \/ req'[q] = req[q]
                      \/ /\ req'[q].holdout \in Holdouts /\ holdout' = holdout
                         /\ Arm(req'[q].holdout, req'[q].user, req'[q].held)
  <2> SUFFICES ASSUME p = q, req' # req
               PROVE  /\ req'[q].holdout \in Holdouts /\ holdout' = holdout
                      /\ Arm(req'[q].holdout, req'[q].user, req'[q].held)
    OBVIOUS
  <2>1. PICK h \in Holdouts :
          /\ holdout[h].active
          /\ req' = [req EXCEPT ![q].holdout = h,
                       ![q].held = Bucket[req[q].user][h] < holdout[h].pct,
                       ![q].records = h \notin Legacy /\ holdout[h].started]
    BY <1>2 DEF LoadHoldout
  <2>2. /\ req'[q].holdout = h /\ req'[q].user = req[q].user
        /\ req'[q].held = (Bucket[req[q].user][h] < holdout[h].pct)
    BY <1>0, <2>1 DEF ReqStates
  <2>3. holdout' = holdout
    BY <1>2 DEF LoadHoldout, holdoutVars
  <2>4. QED
    BY <2>1, <2>2, <2>3 DEF Arm, HasBeenActive
<1>3. ASSUME NEW p \in Requests, Begin(p) \/ Work(p) \/ Lose(p), req' # req
      PROVE  \/ LoadHoldout(p)
             \/ \E x :
                  /\ req' = [req EXCEPT ![p] = x]
                  /\ \/ ~x.records
                     \/ /\ x.records = req[p].records /\ x.holdout = req[p].holdout
                        /\ x.user = req[p].user /\ x.held = req[p].held
  <2>0. req[p] \in ReqStates /\ NoRequest \in ReqStates
    BY <1>0, EmptyRequest
  <2>1. CASE Begin(p)
    <3>1. PICK u \in Users, e \in Experiments :
            req' = [req EXCEPT ![p] = [NoRequest EXCEPT !.user = u, !.exp = e,
                                                        !.grouped = exp[e].grouped]]
      BY <2>1 DEF Begin
    <3> DEFINE x == [NoRequest EXCEPT !.user = u, !.exp = e, !.grouped = exp[e].grouped]
    <3>2. x \in ReqStates /\ ~x.records
      BY DEF Types, NoRequest, ReqStates
    <3>3. QED
      BY <3>1, <3>2
  <2>2. CASE \E v : Reply(p, v)
    BY <1>0, <2>0, <2>2 DEF Reply
  <2>3. CASE Lose(p)
    BY <1>0, <2>0, <2>3 DEF Lose
  <2>4. CASE Record(p) \/ (Insert(p) /\ ~\E v : Reply(p, v))
    <3>1. PICK b : req' = [req EXCEPT ![p] = [req[p] EXCEPT !.wrote = b]]
      BY <1>3, <2>4 DEF Record, Insert
    <3> DEFINE x == [req[p] EXCEPT !.wrote = b]
    <3>2. /\ x.records = req[p].records /\ x.holdout = req[p].holdout
          /\ x.user = req[p].user /\ x.held = req[p].held
      BY <2>0 DEF ReqStates
    <3> HIDE DEF x
    <3>3. QED
      BY <3>1, <3>2 DEF x
  <2>5. CASE Choose(p)
    <3>1. PICK v \in Variants : req' = [req EXCEPT ![p] = [req[p] EXCEPT !.choice = v]]
      BY <2>5 DEF Choose
    <3> DEFINE x == [req[p] EXCEPT !.choice = v]
    <3>2. /\ x.records = req[p].records /\ x.holdout = req[p].holdout
          /\ x.user = req[p].user /\ x.held = req[p].held
      BY <2>0 DEF ReqStates
    <3> HIDE DEF x
    <3>3. QED
      BY <3>1, <3>2 DEF x
  <2>6. QED
    BY <1>3, <2>1, <2>2, <2>3, <2>4, <2>5
       DEF Work, Look, Check, CheckSibling, Recover, Refuse, AskSiblings
<1>4. req' # req => \E p \in Requests : Begin(p) \/ Work(p) \/ Lose(p)
  BY DEF Next, vars, groupVars, requestVars, MoveExperiment, AddToGroup, RemoveFromGroup,
         UpdateGroup, Regrouped, Overtaken
<1>5. QED
  <2> SUFFICES ASSUME req' # req, req'[q] # req[q] PROVE
         \/ /\ req[q].records
            /\ req'[q].holdout = req[q].holdout /\ req'[q].user = req[q].user
            /\ req'[q].held = req[q].held
         \/ /\ req'[q].holdout \in Holdouts /\ holdout' = holdout
            /\ Arm(req'[q].holdout, req'[q].user, req'[q].held)
    OBVIOUS
  <2>1. PICK p \in Requests : Begin(p) \/ Work(p) \/ Lose(p)
    BY <1>4
  <2>2. CASE LoadHoldout(p)
    <3>1. p = q
      BY <1>0, <2>2 DEF LoadHoldout
    <3>2. QED
      BY <1>2, <2>2, <3>1
  <2>3. CASE ~LoadHoldout(p)
    BY <1>0, <1>3, <2>1, <2>3
  <2>4. QED
    BY <2>2, <2>3

LEMMA SortedStep ==
  ASSUME Serial, SerialInv, IInv, Sorted, [Next]_vars
  PROVE  Sorted'
<1>0. Types /\ (\A q \in Requests : Asked(q) /\ Recorded(q)) /\ [HoldoutNext]_holdoutVars
  BY Parts, HoldoutsGoOn DEF Rest
<1>1. ASSUME NEW h \in Holdouts, NEW u \in Users, NEW b, Arm(h, u, b)
      PROVE  Arm(h, u, b)'
  BY <1>0, <1>1, PercentageStays DEF Arm
<1>2. ASSUME NEW q \in Requests, req[q].records
      PROVE  req[q].holdout \in Holdouts /\ req[q].user \in Users
  BY <1>0, <1>2 DEF Recorded, Asked, Writing
<1>3. ASSUME NEW h \in Holdouts, NEW u \in Users, population'[h][u] # "unseen"
      PROVE  Arm(h, u, population[h][u] = "in")'
  <2>1. CASE population'[h][u] = population[h][u]
    <3>1. Arm(h, u, population[h][u] = "in")
      BY <1>3, <2>1 DEF Sorted
    <3>2. QED
      BY <1>0, <2>1, <3>1, PercentageStays DEF Arm
  <2>2. CASE population'[h][u] # population[h][u]
    <3>1. PICK q \in Requests :
           /\ req[q].holdout = h /\ req[q].user = u
           /\ req[q].wrote \/ req[q].records
           /\ population'[h][u] = IF req[q].held THEN "in" ELSE "out"
      BY <1>0, <2>2, PopulationGrows
    <3>2. req[q].records
      BY <1>0, <3>1 DEF Recorded
    <3>3. Arm(h, u, req[q].held)
      BY <3>1, <3>2 DEF Sorted
    <3>4. HasBeenActive(holdout'[h]) /\ holdout'[h].pct = holdout[h].pct
      BY <1>0, <3>3, PercentageStays DEF Arm
    <3>5. req[q].held <=> population'[h][u] = "in"
      BY <3>1
    <3>6. QED
      BY <3>3, <3>4, <3>5 DEF Arm
  <2>3. QED
    BY <2>1, <2>2
<1>4. ASSUME NEW q \in Requests, req'[q].records
      PROVE  Arm(req[q].holdout, req[q].user, req[q].held)'
  <2>1. CASE /\ req[q].records
             /\ req'[q].holdout = req[q].holdout /\ req'[q].user = req[q].user
             /\ req'[q].held = req[q].held
    <3>1. Arm(req[q].holdout, req[q].user, req[q].held)
      BY <2>1 DEF Sorted
    <3>2. req[q].holdout \in Holdouts /\ HasBeenActive(holdout[req[q].holdout])
      BY <1>2, <2>1, <3>1 DEF Arm
    <3>3. /\ HasBeenActive(holdout'[req[q].holdout])
          /\ holdout'[req[q].holdout].pct = holdout[req[q].holdout].pct
      BY <1>0, <3>2, PercentageStays
    <3>4. QED
      BY <2>1, <3>1, <3>3 DEF Arm
  <2>2. CASE /\ req'[q].holdout \in Holdouts /\ holdout' = holdout
             /\ Arm(req'[q].holdout, req'[q].user, req'[q].held)
    BY <2>2 DEF Arm
  <2>3. QED
    BY <1>0, <1>4, <2>1, <2>2, RecordsAsLoaded
<1>5. QED
  BY <1>3, <1>4 DEF Sorted

\* Administrators whose requests follow one another leave every recorded user
\* in the arm of the holdout's percentage.
THEOREM ArmsSettled == ASSUME Serial PROVE Spec => []ArmsMatchPercentage
<1>1. Init => SerialInv /\ IInv /\ Sorted
  BY InitSerialInv, InitIInv DEF Init, Sorted, NoRequest
<1>2. SerialInv /\ IInv /\ Sorted /\ [Next]_vars => (SerialInv /\ IInv /\ Sorted)'
  BY SortedStep, NextIInv, SerialStep, HoldoutsGoOn
<1>3. Sorted => ArmsMatchPercentage
  BY DEF Sorted, ArmsMatchPercentage, Arm
<1>4. QED
  BY <1>1, <1>2, <1>3, PTL DEF Spec

-----------------------------------------------------------------------------
(* The slots of the group                                                  *)

\* How many of S come before e.
Rank(S, e) == Cardinality({f \in S : f < e})

LEMMA RankBelow ==
  ASSUME NEW S \in SUBSET Nat, IsFiniteSet(S), NEW e \in S
  PROVE  Rank(S, e) \in Nat /\ Rank(S, e) < Cardinality(S)
<1> DEFINE T == {f \in S : f < e}
<1>1. T \in SUBSET S /\ e \notin T /\ T # S
  OBVIOUS
<1>2. /\ IsFiniteSet(T) /\ Cardinality(T) <= Cardinality(S)
      /\ Cardinality(S) = Cardinality(T) => S = T
  BY <1>1, FS_Subset
<1>3. Cardinality(T) \in Nat /\ Cardinality(S) \in Nat
  BY <1>2, FS_CardinalityType
<1>4. QED
  BY <1>1, <1>2, <1>3 DEF Rank

LEMMA RankGrows ==
  ASSUME NEW S \in SUBSET Nat, IsFiniteSet(S), NEW e \in S, NEW g \in S, e < g
  PROVE  Rank(S, e) < Rank(S, g)
<1> DEFINE T == {f \in S : f < e}
           U == {f \in S : f < g}
<1>0. \A f \in S : f \in Nat
  OBVIOUS
<1>1. /\ \A f \in S : f < e => f < g
      /\ ~(e < e)
  BY <1>0
<1>2. T \in SUBSET U /\ U \in SUBSET S /\ e \in U /\ e \notin T
  BY <1>1
<1>3. IsFiniteSet(U)
  BY <1>2, FS_Subset
<1>4. /\ IsFiniteSet(T) /\ Cardinality(T) <= Cardinality(U)
      /\ Cardinality(U) = Cardinality(T) => U = T
  BY <1>2, <1>3, FS_Subset
<1>5. Cardinality(T) \in Nat /\ Cardinality(U) \in Nat
  BY <1>3, <1>4, FS_CardinalityType
<1>6. QED
  BY <1>2, <1>4, <1>5 DEF Rank

\* Every place below the number of members is somebody's: were one missing,
\* the ranks of S would have to repeat.
LEMMA RankReached ==
  ASSUME NEW S \in SUBSET Nat, IsFiniteSet(S),
         NEW k \in Nat, k < Cardinality(S)
  PROVE  \E e \in S : Rank(S, e) = k
<1> SUFFICES ASSUME \A e \in S : Rank(S, e) # k PROVE FALSE
  OBVIOUS
<1> DEFINE n == Cardinality(S)
           T == (0..(n - 1)) \ {k}
           f == [e \in S |-> Rank(S, e)]
<1>1. n \in Nat /\ k < n
  BY FS_CardinalityType
<1>2. IsFiniteSet(T) /\ Cardinality(T) = n - 1
  <2> HIDE DEF n
  <2>1. IsFiniteSet(0..(n - 1)) /\ Cardinality(0..(n - 1)) = n
    <3>1. 0 \in Int /\ n - 1 \in Int /\ ~(0 > n - 1) /\ n - 1 - 0 + 1 = n
      BY <1>1
    <3>2. QED
      BY <3>1, FS_Interval
  <2>2. k \in 0..(n - 1)
    BY <1>1
  <2>3. QED
    BY <2>1, <2>2, FS_RemoveElement
<1>3. \A e \in S : Rank(S, e) \in T
  BY <1>1, RankBelow
<1> HIDE DEF T
<1>4. f \in [S -> T]
  BY <1>3
<1> HIDE DEF n, f
<1>5. \E x, y \in S : x # y /\ f[x] = f[y]
  <2>1. Cardinality(T) < Cardinality(S)
    BY <1>1, <1>2 DEF n
  <2>2. QED
    BY <1>2, <1>4, <2>1, FS_PigeonHole
<1>6. PICK x \in S, y \in S : x # y /\ Rank(S, x) = Rank(S, y)
  BY <1>5 DEF f
<1>7. x \in Nat /\ y \in Nat /\ Rank(S, x) \in Nat /\ Rank(S, y) \in Nat
  BY RankBelow
<1>8. x < y \/ y < x
  BY <1>6, <1>7
<1>9. QED
  BY <1>6, <1>7, <1>8, RankGrows

\* Dividing the hashes below t into n slots gives each one of them a slot.
LEMMA SlotOf ==
  ASSUME NEW h \in Nat, NEW t \in Nat, NEW n \in Nat, h < t, n > 0
  PROVE  LET k == (h * n) \div t
         IN /\ k \in Nat /\ k < n
            /\ k * t <= h * n /\ h * n < (k + 1) * t
<1> DEFINE a == h * n
           k == a \div t
<1>1. a \in Nat /\ t > 0
  OBVIOUS
<1>2. k \in Int /\ k * t <= a /\ a < (k + 1) * t
  <2> HIDE DEF a
  <2>1. QED
    BY <1>1
<1>3. a < n * t
  <2>1. (h + 1) * n <= t * n
    OBVIOUS
  <2>2. (h + 1) * n = a + n /\ t * n = n * t
    OBVIOUS
  <2>3. QED
    BY <1>1, <2>1, <2>2
<1> HIDE DEF a, k
<1>4. k >= 0
  <2> SUFFICES ASSUME k + 1 <= 0 PROVE FALSE
    BY <1>2
  <2>1. (k + 1) * t <= 0
    BY <1>1, <1>2
  <2>2. QED
    BY <1>1, <1>2, <2>1
<1>5. k < n
  <2> SUFFICES ASSUME n <= k PROVE FALSE
    BY <1>2
  <2>1. n * t <= k * t
    BY <1>2
  <2>2. n * t \in Nat /\ k * t \in Int
    BY <1>2
  <2>3. QED
    BY <1>1, <1>2, <1>3, <2>1, <2>2
<1>6. QED
  BY <1>2, <1>4, <1>5 DEF a, k

\* The experiments among which the group's traffic is divided.
Slots == {e \in Experiments : exp[e].status = "ACTIVE" /\ exp[e].grouped}

\* A user below the group's allocation is selected for the experiment whose
\* part of the allocation his hash lies in: the k-th of n has the hashes from
\* k/n to (k+1)/n of it, what the loop of select_experiment_for_user
\* accumulates.
AllocationDivided ==
  \A u \in Users :
    ~group.archived /\ Hash[u] < group.traffic /\ Slots # {} =>
      LET k == Rank(Slots, Selected(u))
          n == Cardinality(Slots)
      IN /\ Selected(u) \in Slots
         /\ k * group.traffic <= Hash[u] * n
         /\ Hash[u] * n < (k + 1) * group.traffic

\* However experiments start, end and move in and out of the group, no user
\* below its allocation falls between two slots or behind the last one.
THEOREM NobodyBetweenSlots == Spec => []AllocationDivided
<1>1. TypeOK => AllocationDivided
  <2> SUFFICES ASSUME TypeOK, NEW u \in Users,
                      ~group.archived, Hash[u] < group.traffic, Slots # {}
               PROVE  LET k == Rank(Slots, Selected(u))
                          n == Cardinality(Slots)
                      IN /\ Selected(u) \in Slots
                         /\ k * group.traffic <= Hash[u] * n
                         /\ Hash[u] * n < (k + 1) * group.traffic
    BY DEF AllocationDivided
  <2> DEFINE n == Cardinality(Slots)
             k == (Hash[u] * n) \div group.traffic
  <2>1. /\ Slots \in SUBSET Experiments /\ Slots \in SUBSET Nat /\ IsFiniteSet(Slots)
        /\ n \in Nat /\ n > 0
    <3>1. Slots \in SUBSET Experiments /\ Slots \in SUBSET Nat
      BY ExperimentAssumption DEF Slots
    <3>2. IsFiniteSet(Slots)
      BY <3>1, ExperimentAssumption, FS_Subset
    <3>3. QED
      BY <3>1, <3>2, FS_CardinalityType, FS_EmptySet
  <2>2. Hash[u] \in Nat /\ group.traffic \in Nat
    BY HashAssumption DEF TypeOK
  <2> HIDE DEF n
  <2>3. k \in Nat /\ k < n /\ k * group.traffic <= Hash[u] * n
        /\ Hash[u] * n < (k + 1) * group.traffic
    BY <2>1, <2>2, SlotOf
  <2>4. Selected(u) = CHOOSE e \in Slots : Cardinality({f \in Slots : f < e}) = k
    <3>1. Selected(u) = IF group.archived \/ Hash[u] >= group.traffic \/ Slots = {} THEN 0
                        ELSE CHOOSE e \in Slots : Cardinality({f \in Slots : f < e}) = k
      BY DEF Selected, Slots, n
    <3>2. ~(Hash[u] >= group.traffic)
      BY <2>2
    <3>3. QED
      BY <3>1, <3>2
  <2> HIDE DEF k
  <2>5. \E e \in Slots : Cardinality({f \in Slots : f < e}) = k
    BY <2>1, <2>3, RankReached DEF Rank, n
  <2>6. Selected(u) \in Slots /\ Rank(Slots, Selected(u)) = k
    BY <2>4, <2>5 DEF Rank
  <2>7. QED
    BY <2>3, <2>6 DEF n
<1>2. QED
  BY <1>1, Typed, PTL

-----------------------------------------------------------------------------
(* The first arm is the user's arm                                         *)

\* Of a request's transaction that holds a population row: the row is not
\* stored yet, and no other transaction holds it.
Alone(q) ==
  req[q].wrote =>
    /\ population[req[q].holdout][req[q].user] = "unseen"
    /\ \A p \in Requests \ {q} :
         ~(req[p].wrote /\ req[p].holdout = req[q].holdout /\ req[p].user = req[q].user)

\* What is stored of a user stays: the arm he was recorded in, whatever the
\* percentage and other requests do, and the variant he was assigned.
StoredStays ==
  /\ \A h \in Holdouts, u \in Users :
       population[h][u] # "unseen" => population'[h][u] = population[h][u]
  /\ \A u \in Users, e \in Experiments :
       assigned[u][e] # None => assigned'[u][e] = assigned[u][e]
FirstArmStays == [][StoredStays]_vars

\* A row that is not there, and in no other transaction, is stored for q.
Takes(q, h, u, arm) ==
  /\ population' = [population EXCEPT ![h][u] = arm]
  /\ population[h][u] = "unseen"
  /\ \A p \in Requests \ {q} :
       ~(req[p].wrote /\ req[p].holdout = h /\ req[p].user = u)

\* A step that writes no population row and lets no transaction take one.
LEMMA KeepsAlone ==
  ASSUME \A q \in Requests : Alone(q), population' = population,
         \A q \in Requests :
           req'[q].wrote => /\ req[q].wrote /\ req'[q].holdout = req[q].holdout
                            /\ req'[q].user = req[q].user
  PROVE  \A q \in Requests : Alone(q)'
  BY DEF Alone

\* The end of request q, which may store a row that is not there and that no
\* other transaction holds.
LEMMA EndAlone ==
  ASSUME Types, \A p \in Requests : Alone(p), NEW q \in Requests,
         req' = [req EXCEPT ![q] = NoRequest],
         \/ population' = population
         \/ \E h \in Holdouts, u \in Users, arm \in {"in", "out"} : Takes(q, h, u, arm)
  PROVE  /\ \A p \in Requests : Alone(p)'
         /\ \A h \in Holdouts, u \in Users :
              population[h][u] # "unseen" => population'[h][u] = population[h][u]
<1>0. /\ req \in [Requests -> ReqStates]
      /\ population \in [Holdouts -> [Users -> {"unseen", "in", "out"}]]
  BY DEF Types
<1>1. ~req'[q].wrote /\ \A p \in Requests \ {q} : req'[p] = req[p]
  BY <1>0, EmptyRequest
<1>2. CASE population' = population
  BY <1>1, <1>2, KeepsAlone
<1>3. ASSUME NEW h \in Holdouts, NEW u \in Users, NEW arm \in {"in", "out"},
             Takes(q, h, u, arm)
      PROVE  /\ \A p \in Requests : Alone(p)'
             /\ \A g \in Holdouts, v \in Users :
                  population[g][v] # "unseen" => population'[g][v] = population[g][v]
  <2>0. /\ population' = [population EXCEPT ![h][u] = arm] /\ population[h][u] = "unseen"
        /\ \A p \in Requests \ {q} :
             ~(req[p].wrote /\ req[p].holdout = h /\ req[p].user = u)
    BY <1>3 DEF Takes
  <2>1. \A g, v : g # h \/ v # u => population'[g][v] = population[g][v]
    BY <1>0, <2>0
  <2>2. ASSUME NEW p \in Requests, req'[p].wrote PROVE Alone(p)'
    <3>1. p # q /\ req'[p] = req[p] /\ Alone(p)
      BY <1>1, <2>2
    <3>2. req[p].holdout # h \/ req[p].user # u
      BY <2>0, <2>2, <3>1
    <3>3. QED
      BY <1>1, <2>1, <2>2, <3>1, <3>2 DEF Alone
  <2>3. QED
    BY <2>0, <2>1, <2>2 DEF Alone
<1>4. QED
  BY <1>2, <1>3

\* The commit of a request's transaction is such an end.
LEMMA CommitAlone ==
  ASSUME Types, NEW q \in Requests, Alone(q), Asked(q), Recorded(q),
         step[q] # "idle", population' = Committed(q)
  PROVE  \/ population' = population
         \/ \E h \in Holdouts, u \in Users, arm \in {"in", "out"} : Takes(q, h, u, arm)
<1>1. CASE ~req[q].wrote
  BY <1>1 DEF Committed
<1>2. CASE req[q].wrote
  <2>1. req[q].holdout \in Holdouts /\ req[q].user \in Users
    BY <1>2 DEF Asked, Recorded
  <2>2. PICK arm \in {"in", "out"} :
          population' = [population EXCEPT ![req[q].holdout][req[q].user] = arm]
    BY <1>2 DEF Committed
  <2>3. Takes(q, req[q].holdout, req[q].user, arm)
    BY <1>2, <2>2 DEF Alone, Takes
  <2>4. QED
    BY <2>1, <2>3
<1>3. QED
  BY <1>1, <1>2

LEMMA AloneStep ==
  ASSUME IInv, \A q \in Requests : Alone(q), [Next]_vars
  PROVE  StoredStays /\ \A q \in Requests : Alone(q)'
<1> DEFINE Kept == /\ \A p \in Requests : Alone(p)'
                   /\ \A h \in Holdouts, u \in Users :
                        population[h][u] # "unseen" => population'[h][u] = population[h][u]
<1>0. /\ Types /\ req \in [Requests -> ReqStates]
      /\ \A q \in Requests : Asked(q) /\ Recorded(q) /\ req[q] \in ReqStates
  BY Parts DEF Rest, Types
<1>1. ASSUME population' = population,
             \A q \in Requests :
               req'[q].wrote => /\ req[q].wrote /\ req'[q].holdout = req[q].holdout
                                /\ req'[q].user = req[q].user
      PROVE  Kept
  BY <1>1, KeepsAlone
<1>2. ASSUME population' = population, NEW q \in Requests, NEW x \in ReqStates,
             req' = [req EXCEPT ![q] = x],
             x.wrote => req[q].wrote /\ x.holdout = req[q].holdout /\ x.user = req[q].user
      PROVE  Kept
  BY <1>0, <1>1, <1>2
<1>3. ASSUME NEW q \in Requests, Begin(q) PROVE Kept
  <2>1. PICK u \in Users, e \in Experiments :
          req' = [req EXCEPT ![q] = [NoRequest EXCEPT !.user = u, !.exp = e,
                                                      !.grouped = exp[e].grouped]]
    BY <1>3 DEF Begin
  <2> DEFINE x == [NoRequest EXCEPT !.user = u, !.exp = e, !.grouped = exp[e].grouped]
  <2>2. x \in ReqStates /\ ~x.wrote
    BY <1>0 DEF Types, NoRequest, ReqStates
  <2>3. population' = population
    BY <1>3 DEF Begin
  <2> HIDE DEF x
  <2>4. QED
    BY <1>2, <2>1, <2>2, <2>3 DEF x
<1>4. ASSUME NEW q \in Requests, Look(q) \/ Lose(q) PROVE Kept
  BY <1>0, <1>1, <1>2, <1>4, EmptyRequest DEF Look, Lose, Reply
<1>5. ASSUME NEW q \in Requests, LoadHoldout(q) PROVE Kept
  <2>1. ~req[q].wrote /\ population' = population
    BY <1>0, <1>5 DEF LoadHoldout, Recorded, Writing
  <2>2. CASE req' = req
    BY <1>1, <2>1, <2>2
  <2>3. CASE req' # req
    <3>1. PICK h \in Holdouts :
           req' = [req EXCEPT ![q] =
             [req[q] EXCEPT !.holdout = h,
                            !.held = Bucket[req[q].user][h] < holdout[h].pct,
                            !.records = h \notin Legacy /\ holdout[h].started]]
      BY <1>5, <2>3 DEF LoadHoldout
    <3>2. /\ req'[q].wrote = req[q].wrote
          /\ \A p \in Requests \ {q} : req'[p] = req[p]
      BY <1>0, <3>1 DEF ReqStates
    <3>3. QED
      BY <1>1, <2>1, <3>2
  <2>4. QED
    BY <2>2, <2>3
<1>6. ASSUME NEW q \in Requests, Record(q) PROVE Kept
  <2>1. population' = population
    BY <1>6 DEF Record
  <2>2. CASE req' = req
    BY <1>1, <2>1, <2>2
  <2>3. CASE req' # req
    <3> DEFINE new == population[req[q].holdout][req[q].user] = "unseen"
               x == [req[q] EXCEPT !.wrote = new]
    <3>1. RowFree(q) /\ req' = [req EXCEPT ![q] = x]
      BY <1>6, <2>3 DEF Record
    <3>2. /\ x.wrote = new
          /\ x.holdout = req[q].holdout /\ x.user = req[q].user
      BY <1>0 DEF ReqStates
    <3> HIDE DEF x
    <3>3. req'[q] = x /\ \A p \in Requests \ {q} : req'[p] = req[p]
      BY <1>0, <3>1
    <3>4. Alone(q)'
      <4>1. x.wrote => population[req[q].holdout][req[q].user] = "unseen"
        BY <3>2
      <4>2. \A p \in Requests \ {q} :
              ~(req[p].wrote /\ req[p].holdout = req[q].holdout /\ req[p].user = req[q].user)
        BY <3>1 DEF RowFree
      <4>3. QED
        BY <2>1, <3>2, <3>3, <4>1, <4>2 DEF Alone
    <3>5. ASSUME NEW p \in Requests \ {q} PROVE Alone(p)'
      BY <2>1, <3>1, <3>2, <3>3, <3>5 DEF Alone, RowFree
    <3>6. QED
      BY <2>1, <3>4, <3>5
  <2>4. QED
    BY <2>2, <2>3
<1>7. ASSUME NEW q \in Requests, Refuse(q), step[q] # "idle" PROVE Kept
  BY <1>0, <1>7, CommitAlone, EndAlone DEF Refuse, Reply
<1>8. ASSUME NEW q \in Requests, Choose(q) PROVE Kept
  <2>1. PICK v \in Variants : req' = [req EXCEPT ![q] = [req[q] EXCEPT !.choice = v]]
    BY <1>8 DEF Choose
  <2>2. population' = population
    BY <1>8 DEF Choose
  <2> DEFINE x == [req[q] EXCEPT !.choice = v]
  <2>3. /\ x \in ReqStates /\ x.wrote = req[q].wrote
        /\ x.holdout = req[q].holdout /\ x.user = req[q].user
    BY <1>0 DEF ReqStates
  <2> HIDE DEF x
  <2>4. QED
    BY <1>2, <2>1, <2>2, <2>3 DEF x
<1>9. ASSUME NEW q \in Requests, AskSiblings(q) PROVE Kept
  BY <1>1, <1>9 DEF AskSiblings
<1>10. ASSUME NEW q \in Requests, Insert(q) PROVE Kept
  <2>1. CASE population' = Committed(q) /\ req' = [req EXCEPT ![q] = NoRequest]
    BY <1>0, <1>10, <2>1, CommitAlone, EndAlone DEF Insert
  <2>2. CASE population' = population /\ req' = [req EXCEPT ![q].wrote = FALSE]
    <3>1. ~req'[q].wrote /\ \A p \in Requests \ {q} : req'[p] = req[p]
      BY <1>0, <2>2 DEF ReqStates
    <3>2. QED
      BY <1>1, <2>2, <3>1
  <2>3. QED
    BY <1>10, <2>1, <2>2 DEF Insert, Reply
<1>11. ASSUME NEW q \in Requests, Recover(q) PROVE Kept
  <2>1. req' = [req EXCEPT ![q] = NoRequest] /\ RowFree(q)
    BY <1>11 DEF Recover, Reply
  <2>2. CASE population' = population
    BY <1>0, <2>1, <2>2, EndAlone
  <2>3. CASE population' # population
    <3>1. /\ req[q].records
          /\ population[req[q].holdout][req[q].user] = "unseen"
          /\ population' = [population EXCEPT ![req[q].holdout][req[q].user] =
                              IF req[q].held THEN "in" ELSE "out"]
      BY <1>11, <2>3 DEF Recover
    <3>2. req[q].holdout \in Holdouts /\ req[q].user \in Users
      BY <1>0, <1>11, <3>1 DEF Recover, Asked, Recorded
    <3>3. \A p \in Requests \ {q} :
            ~(req[p].wrote /\ req[p].holdout = req[q].holdout /\ req[p].user = req[q].user)
      BY <2>1 DEF RowFree
    <3>4. PICK arm \in {"in", "out"} : Takes(q, req[q].holdout, req[q].user, arm)
      BY <3>1, <3>3 DEF Takes
    <3>5. QED
      BY <1>0, <2>1, <3>2, <3>4, EndAlone
  <2>4. QED
    BY <2>2, <2>3
<1>12. ASSUME req' = req, population' = population PROVE Kept
  BY <1>1, <1>12
<1>13. Kept
  <2>1. ASSUME NEW q \in Requests, Work(q) PROVE Kept
    BY <1>4, <1>5, <1>6, <1>7, <1>8, <1>9, <1>10, <1>11, <2>1
       DEF Work, Check, CheckSibling
  <2>2. \/ \E q \in Requests : Begin(q) \/ Work(q) \/ Lose(q)
        \/ req' = req /\ population' = population
    BY DEF Next, vars, requestVars, MoveExperiment, AddToGroup, RemoveFromGroup,
           UpdateGroup, Regrouped, Overtaken
  <2>3. QED
    BY <1>3, <1>4, <1>12, <2>1, <2>2
<1>14. \A u \in Users, e \in Experiments :
         assigned[u][e] # None => assigned'[u][e] = assigned[u][e]
  <2>1. \/ assigned' = assigned
        \/ \E q \in Requests :
             /\ assigned[req[q].user][req[q].exp] = None
             /\ assigned' = [assigned EXCEPT ![req[q].user][req[q].exp] = req[q].choice]
    BY DEF Next, vars, requestVars, MoveExperiment, AddToGroup, RemoveFromGroup, UpdateGroup,
           Regrouped, Overtaken, Begin, Work, Look, LoadHoldout, Record, Check, CheckSibling,
           Insert, Recover, Lose, Refuse, Choose, AskSiblings
  <2>2. CASE assigned' = assigned
    BY <2>2
  <2>3. ASSUME NEW u \in Users, NEW e \in Experiments, assigned[u][e] # None,
               NEW q \in Requests, assigned[req[q].user][req[q].exp] = None,
               assigned' = [assigned EXCEPT ![req[q].user][req[q].exp] = req[q].choice]
        PROVE  assigned'[u][e] = assigned[u][e]
    <3>1. assigned \in [Users -> [Experiments -> Variants \cup {None}]]
      BY <1>0 DEF Types
    <3>2. req[q].user # u \/ req[q].exp # e
      BY <2>3
    <3>3. QED
      BY <2>3, <3>1, <3>2
  <2>4. QED
    BY <2>1, <2>2, <2>3
<1>15. QED
  BY <1>13, <1>14 DEF StoredStays

\* Rollbacks, recovered inserts and requests that loaded different
\* percentages race for one population row: the first that commits it decides,
\* and nothing changes or removes it afterwards; nor an assignment.
THEOREM FirstArm == Spec => FirstArmStays
<1>1. Init => \A q \in Requests : Alone(q)
  BY EmptyRequest DEF Init, Alone
<1>2. IInv /\ (\A q \in Requests : Alone(q)) /\ [Next]_vars
        => (\A q \in Requests : Alone(q))' /\ [StoredStays]_vars
  BY AloneStep
<1>3. QED
  BY <1>1, <1>2, Inductive, PTL DEF Spec, FirstArmStays
=============================================================================
