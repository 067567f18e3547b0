--------------------------- MODULE Holdouts_proofs ---------------------------
(***************************************************************************)
(* TLAPS proofs about Holdouts: types, at most one active holdout, the     *)
(* stamps of its window and that a row never forgets them, for any number  *)
(* of requests and holdouts; and, for requests that follow one another,    *)
(* the refinement of HoldoutLife.  The invariant says what a request may   *)
(* still write: a stamp it has read is in the row, and only a request that *)
(* asks for the others activates.                                          *)
(***************************************************************************)
EXTENDS Holdouts, TLAPS

-----------------------------------------------------------------------------
(* The inductive invariant                                                 *)

\* What a request wants of row h, loaded as x: to activate it, or to write
\* what keeps or ends it.
Activates(h, x, y) ==
  /\ y.active /\ ~x.active /\ (y.started \/ h \in Legacy)
  /\ x.started => y.started
  /\ y.ended <=> x.ended
Rewrites(x, y) ==
  /\ y.active => x.active
  /\ y.started <=> x.started
  /\ \/ (y.active <=> x.active) /\ (y.ended <=> x.ended)
     \/ ~y.active /\ y.ended

Pending(a) ==
  admin[a] # "idle" =>
    /\ job[a].id \in Holdouts
    /\ job[a].copy.started => holdout[job[a].id].started
    /\ job[a].copy.ended => holdout[job[a].id].ended
    /\ IF admin[a] = "write" THEN Rewrites(job[a].copy, job[a].want)
       ELSE Activates(job[a].id, job[a].copy, job[a].want)

HoldoutIInv == /\ HoldoutTypeOK /\ OneActive /\ WindowStamped
               /\ \A a \in Admins : Pending(a)

-----------------------------------------------------------------------------
(* Rows                                                                    *)

LEMMA SomePercentage == 1 \in Percentages
  BY PctAssumption DEF Percentages

LEMMA EmptyJob == Unmade \in Rows /\ NoJob \in Jobs
  BY SomePercentage DEF Unmade, NoJob, Rows, Jobs

LEMMA WantedRow ==
  ASSUME NEW h \in Holdouts, NEW x \in Rows, NEW pct \in Percentages,
         NEW on \in {"on", "off", "keep"}
  PROVE  LET y == Wanted(h, x, pct, on)
         IN /\ y \in Rows
            /\ IF y.active /\ ~x.active THEN Activates(h, x, y) ELSE Rewrites(x, y)
<1> DEFINE y == Wanted(h, x, pct, on)
           z == [x EXCEPT !.made = TRUE, !.pct = pct]
<1>0. SUFFICES /\ y \in Rows
               /\ IF y.active /\ ~x.active THEN Activates(h, x, y) ELSE Rewrites(x, y)
  OBVIOUS
<1>1. /\ z \in Rows /\ (z.active <=> x.active) /\ (z.started <=> x.started)
      /\ (z.ended <=> x.ended)
  BY DEF Rows
<1>2. y = IF on = "on" THEN IF x.active THEN z ELSE Activated(h, z)
          ELSE IF on = "off" THEN Ended(z) ELSE z
  BY DEF Wanted
<1> HIDE DEF y, z
<1>3. CASE y = z
  BY <1>1, <1>3 DEF Rewrites
<1>4. CASE ~x.active /\ y = Activated(h, z)
  BY <1>1, <1>4 DEF Activated, Activates, Rows
<1>5. CASE y = Ended(z)
  BY <1>1, <1>5 DEF Ended, Rewrites, Rows
<1>6. QED
  BY <1>2, <1>3, <1>4, <1>5

LEMMA WrittenType ==
  ASSUME NEW x \in Rows, NEW y \in Rows, NEW cur \in Rows
  PROVE  Written(x, y, cur) \in Rows
  BY DEF Written, Column, Rows

\* What a request's write leaves of a row whose stamps it has read.
LEMMA WrittenRow ==
  ASSUME NEW h \in Holdouts, NEW x \in Rows, NEW y \in Rows, NEW cur \in Rows,
         x.started => cur.started, x.ended => cur.ended
  PROVE  LET z == Written(x, y, cur)
         IN /\ Rewrites(x, y) => /\ z.active => cur.active
                                 /\ z.started <=> cur.started
                                 /\ cur.ended => z.ended
                                 /\ cur.active /\ ~z.active => z.ended
            /\ Activates(h, x, y) => /\ z.active /\ (z.started \/ h \in Legacy)
                                     /\ cur.started => z.started
                                     /\ cur.ended => z.ended
  BY DEF Written, Column, Rewrites, Activates, Rows

LEMMA InitHoldoutIInv == HoldoutInit => HoldoutIInv
<1> SUFFICES ASSUME HoldoutInit PROVE HoldoutIInv
  OBVIOUS
<1> DEFINE old == [Unmade EXCEPT !.made = TRUE, !.active = TRUE]
<1>1. /\ old \in Rows /\ old.active /\ ~old.started
      /\ Unmade \in Rows /\ ~Unmade.active /\ ~Unmade.started
  BY SomePercentage DEF Unmade, Rows
<1>2. /\ holdout = [h \in Holdouts |-> IF h \in Legacy THEN old ELSE Unmade]
      /\ lock = [h \in Holdouts |-> NoOne]
      /\ admin = [a \in Admins |-> "idle"] /\ job = [a \in Admins |-> NoJob]
  BY DEF HoldoutInit
<1> HIDE DEF old
<1>3. HoldoutTypeOK
  BY <1>1, <1>2, EmptyJob DEF HoldoutTypeOK, AdminSteps
<1>4. OneActive /\ WindowStamped
  BY <1>1, <1>2, LegacyAssumption DEF OneActive, WindowStamped
<1>5. \A a \in Admins : Pending(a)
  BY <1>2 DEF Pending
<1>6. QED
  BY <1>3, <1>4, <1>5 DEF HoldoutIInv

-----------------------------------------------------------------------------
(* Steps                                                                   *)

\* A request that ends, or goes on with its job as it was, while stamps stay.
LEMMA OthersPending ==
  ASSUME NEW a \in Admins, Pending(a),
         admin'[a] = "idle" \/ (admin'[a] = admin[a] /\ job'[a] = job[a]),
         \A h \in Holdouts : /\ holdout[h].started => holdout'[h].started
                             /\ holdout[h].ended => holdout'[h].ended
  PROVE  Pending(a)'
  BY DEF Pending

LEMMA LoadKeeps ==
  ASSUME HoldoutIInv, NEW a \in Admins, NEW h \in Holdouts, NEW pct \in Percentages,
         NEW on \in {"on", "off", "keep"}, Load(a, h, pct, on)
  PROVE  HoldoutIInv'
<1> DEFINE y == Wanted(h, holdout[h], pct, on)
           j == [id |-> h, copy |-> holdout[h], want |-> y, others |-> {}]
           s == IF y.active /\ ~holdout[h].active THEN "others" ELSE "write"
<1>0. /\ HoldoutTypeOK /\ holdout[h] \in Rows /\ OneActive /\ WindowStamped
      /\ \A b \in Admins : Pending(b)
  BY DEF HoldoutIInv, HoldoutTypeOK
<1>1. /\ job' = [job EXCEPT ![a] = j] /\ admin' = [admin EXCEPT ![a] = s]
      /\ holdout' = holdout /\ lock' = lock
  BY DEF Load
<1>2. /\ y \in Rows
      /\ IF y.active /\ ~holdout[h].active
           THEN Activates(h, holdout[h], y) ELSE Rewrites(holdout[h], y)
  BY <1>0, WantedRow
<1> HIDE DEF y
<1>3. j \in Jobs /\ s \in AdminSteps
  BY <1>0, <1>2 DEF Jobs, AdminSteps
<1>4. HoldoutTypeOK'
  <2> HIDE DEF j, s
  <2>1. QED
    BY <1>0, <1>1, <1>3 DEF HoldoutTypeOK
<1>5. Pending(a)'
  <2>1. admin'[a] = s /\ job'[a] = j
    BY <1>0, <1>1 DEF HoldoutTypeOK
  <2>2. QED
    BY <1>1, <1>2, <2>1 DEF Pending
<1>6. ASSUME NEW b \in Admins, b # a PROVE Pending(b)'
  <2>1. admin'[b] = admin[b] /\ job'[b] = job[b]
    BY <1>0, <1>1, <1>6 DEF HoldoutTypeOK
  <2>2. QED
    BY <1>0, <1>1, <2>1, OthersPending
<1>7. OneActive' /\ WindowStamped'
  BY <1>0, <1>1 DEF OneActive, WindowStamped
<1>8. QED
  BY <1>4, <1>5, <1>6, <1>7 DEF HoldoutIInv

\* The end of a request that leaves the rows with their stamps.
LEMMA EndKeeps ==
  ASSUME HoldoutIInv, NEW a \in Admins, EndTransaction(a),
         holdout' \in [Holdouts -> Rows], OneActive', WindowStamped',
         \A h \in Holdouts : /\ holdout[h].started => holdout'[h].started
                             /\ holdout[h].ended => holdout'[h].ended
  PROVE  HoldoutIInv'
<1>0. HoldoutTypeOK /\ \A b \in Admins : Pending(b)
  BY DEF HoldoutIInv
<1>1. /\ lock' = [h \in Holdouts |-> IF lock[h] = a THEN NoOne ELSE lock[h]]
      /\ admin' = [admin EXCEPT ![a] = "idle"]
      /\ job' = [job EXCEPT ![a] = NoJob]
  BY DEF EndTransaction
<1>2. HoldoutTypeOK'
  BY <1>0, <1>1, EmptyJob DEF HoldoutTypeOK, AdminSteps
<1>3. \A b \in Admins : \/ admin'[b] = "idle"
                        \/ admin'[b] = admin[b] /\ job'[b] = job[b]
  BY <1>0, <1>1 DEF HoldoutTypeOK
<1>4. ASSUME NEW b \in Admins PROVE Pending(b)'
  <2>1. Pending(b)
    BY <1>0
  <2>2. admin'[b] = "idle" \/ (admin'[b] = admin[b] /\ job'[b] = job[b])
    BY <1>3
  <2>3. QED
    BY <2>1, <2>2 DEF Pending
<1>5. QED
  BY <1>2, <1>4 DEF HoldoutIInv

\* Every step keeps the invariant; modules that let other things happen
\* beside the requests use it too.
LEMMA HoldoutStep == HoldoutIInv /\ [HoldoutNext]_holdoutVars => HoldoutIInv'
<1> SUFFICES ASSUME HoldoutIInv, [HoldoutNext]_holdoutVars PROVE HoldoutIInv'
  OBVIOUS
<1>0. /\ HoldoutTypeOK /\ OneActive /\ WindowStamped
      /\ \A a \in Admins : Pending(a)
      /\ holdout \in [Holdouts -> Rows] /\ job \in [Admins -> Jobs]
  BY DEF HoldoutIInv, HoldoutTypeOK
<1>1. ASSUME NEW a \in Admins, CreateHoldout(a) PROVE HoldoutIInv'
  BY <1>1, LoadKeeps DEF CreateHoldout
<1>2. ASSUME NEW a \in Admins, UpdateHoldout(a) PROVE HoldoutIInv'
  BY <1>2, LoadKeeps DEF UpdateHoldout
\* A request that goes on to activate its row.
<1>a. ASSUME NEW a \in Admins, admin[a] \in {"others", "flush"}, holdout' = holdout,
             HoldoutTypeOK', NEW s \in {"flush", "activate"},
             admin' = [admin EXCEPT ![a] = s],
             job'[a].id = job[a].id, job'[a].copy = job[a].copy,
             job'[a].want = job[a].want,
             \A b \in Admins \ {a} : job'[b] = job[b]
      PROVE  HoldoutIInv'
  <2>1. Pending(a)'
    <3>1. admin'[a] = s
      BY <1>0, <1>a DEF HoldoutTypeOK
    <3>2. QED
      BY <1>0, <1>a, <3>1 DEF Pending
  <2>2. \A b \in Admins \ {a} : Pending(b)'
    <3>1. \A b \in Admins \ {a} : admin'[b] = admin[b]
      BY <1>0, <1>a DEF HoldoutTypeOK
    <3>2. QED
      BY <1>0, <1>a, <3>1, OthersPending
  <2>3. OneActive' /\ WindowStamped'
    BY <1>0, <1>a DEF OneActive, WindowStamped
  <2>4. QED
    BY <1>a, <2>1, <2>2, <2>3 DEF HoldoutIInv
<1>3. ASSUME NEW a \in Admins, FindOthers(a) PROVE HoldoutIInv'
  <2> DEFINE found == {g \in Holdouts : holdout[g].active /\ g # job[a].id}
  <2>1. /\ admin[a] = "others" /\ admin' = [admin EXCEPT ![a] = "flush"]
        /\ job' = [job EXCEPT ![a] = [job[a] EXCEPT !.others = found]]
        /\ holdout' = holdout /\ lock' = lock
    BY <1>3 DEF FindOthers
  <2>2. found \in SUBSET Holdouts
    OBVIOUS
  <2> HIDE DEF found
  <2>3. [job[a] EXCEPT !.others = found] \in Jobs
    BY <1>0, <2>2 DEF Jobs
  <2>4. /\ job'[a].id = job[a].id /\ job'[a].copy = job[a].copy
        /\ job'[a].want = job[a].want
        /\ \A b \in Admins \ {a} : job'[b] = job[b]
    BY <1>0, <2>1 DEF Jobs
  <2>5. HoldoutTypeOK'
    BY <1>0, <2>1, <2>3 DEF HoldoutTypeOK, AdminSteps
  <2>6. QED
    BY <1>a, <2>1, <2>4, <2>5
<1>4. ASSUME NEW a \in Admins, FlushOthers(a) PROVE HoldoutIInv'
  <2>1. /\ admin[a] = "flush" /\ admin' = [admin EXCEPT ![a] = "activate"]
        /\ holdout' = holdout /\ job' = job
        /\ lock' = [h \in Holdouts |-> IF h \in Dirty(a) THEN a ELSE lock[h]]
    BY <1>4 DEF FlushOthers
  <2>2. HoldoutTypeOK'
    BY <1>0, <2>1 DEF HoldoutTypeOK, AdminSteps
  <2>3. QED
    BY <1>a, <2>1, <2>2
<1>5. ASSUME NEW a \in Admins, ActivateHoldout(a) PROVE HoldoutIInv'
  <2>1. CASE holdout' = holdout
    BY <1>0, <1>5, <2>1, EndKeeps DEF ActivateHoldout, OneActive, WindowStamped
  <2>2. CASE /\ Clashing(a) = {}
             /\ holdout' = [h \in Holdouts |->
                  IF h = job[a].id THEN Written(job[a].copy, job[a].want, holdout[h])
                  ELSE IF h \in job[a].others
                       THEN [holdout[h] EXCEPT !.active = FALSE, !.ended = TRUE]
                  ELSE holdout[h]]
    <3> DEFINE i == job[a].id
               z == Written(job[a].copy, job[a].want, holdout[i])
    <3>1. /\ i \in Holdouts /\ holdout[i] \in Rows
          /\ job[a].copy \in Rows /\ job[a].want \in Rows
          /\ job[a].copy.started => holdout[i].started
          /\ job[a].copy.ended => holdout[i].ended
          /\ Activates(i, job[a].copy, job[a].want)
      BY <1>0, <1>5 DEF Pending, ActivateHoldout, Jobs
    <3>2. /\ z \in Rows /\ z.active /\ (z.started \/ i \in Legacy)
          /\ holdout[i].started => z.started
          /\ holdout[i].ended => z.ended
      BY <3>1, WrittenType, WrittenRow
    <3>3. holdout'[i] = z
      BY <2>2, <3>1
    <3> HIDE DEF z
    <3>4. ASSUME NEW h \in Holdouts, h # i
          PROVE  /\ holdout'[h] \in Rows /\ ~holdout'[h].active
                 /\ holdout'[h].started <=> holdout[h].started
                 /\ holdout[h].ended => holdout'[h].ended
                 /\ holdout'[h].started => holdout'[h].ended
      <4>1. holdout[h] \in Rows /\ (holdout[h].started => holdout[h].active \/ holdout[h].ended)
        BY <1>0 DEF WindowStamped
      <4>2. CASE h \in job[a].others
        <5>1. holdout'[h] = [holdout[h] EXCEPT !.active = FALSE, !.ended = TRUE]
          BY <2>2, <3>4, <4>2
        <5>2. QED
          BY <4>1, <5>1 DEF Rows
      <4>3. CASE h \notin job[a].others
        <5>1. holdout'[h] = holdout[h] /\ ~holdout[h].active
          BY <2>2, <3>4, <4>3 DEF Clashing
        <5>2. QED
          BY <4>1, <5>1
      <4>4. QED
        BY <4>2, <4>3
    <3>5. /\ holdout' \in [Holdouts -> Rows]
          /\ \A h \in Holdouts : /\ holdout[h].started => holdout'[h].started
                                 /\ holdout[h].ended => holdout'[h].ended
      <4>1. holdout' = [h \in Holdouts |-> holdout'[h]]
        BY <2>2
      <4>2. \A h \in Holdouts : /\ holdout'[h] \in Rows
                                /\ holdout[h].started => holdout'[h].started
                                /\ holdout[h].ended => holdout'[h].ended
        BY <3>2, <3>3, <3>4
      <4>3. QED
        BY <4>1, <4>2
    <3>6. OneActive'
      BY <3>4 DEF OneActive
    <3>7. WindowStamped'
      BY <3>2, <3>3, <3>4 DEF WindowStamped
    <3>8. QED
      BY <1>5, <3>5, <3>6, <3>7, EndKeeps DEF ActivateHoldout
  <2>3. QED
    BY <1>5, <2>1, <2>2 DEF ActivateHoldout
<1>6. ASSUME NEW a \in Admins, WriteHoldout(a) PROVE HoldoutIInv'
  <2> DEFINE i == job[a].id
             z == Written(job[a].copy, job[a].want, holdout[i])
  <2>1. /\ i \in Holdouts /\ holdout[i] \in Rows
        /\ job[a].copy \in Rows /\ job[a].want \in Rows
        /\ job[a].copy.started => holdout[i].started
        /\ job[a].copy.ended => holdout[i].ended
        /\ Rewrites(job[a].copy, job[a].want)
    BY <1>0, <1>6 DEF Pending, WriteHoldout, Jobs
  <2>2. /\ z \in Rows /\ (z.active => holdout[i].active)
        /\ z.started <=> holdout[i].started
        /\ holdout[i].ended => z.ended
        /\ holdout[i].active /\ ~z.active => z.ended
    BY <2>1, WrittenType, WrittenRow
  <2>3. holdout' = [holdout EXCEPT ![i] = z]
    BY <1>6 DEF WriteHoldout
  <2> HIDE DEF z
  <2>4. holdout'[i] = z /\ \A h \in Holdouts \ {i} : holdout'[h] = holdout[h]
    BY <1>0, <2>1, <2>3
  <2>5. holdout' \in [Holdouts -> Rows]
    BY <1>0, <2>2, <2>3
  <2>6. \A h \in Holdouts : /\ holdout[h].started => holdout'[h].started
                            /\ holdout[h].ended => holdout'[h].ended
                            /\ holdout'[h].active => holdout[h].active
    BY <2>2, <2>4
  <2>7. OneActive'
    BY <1>0, <2>6 DEF OneActive
  <2>8. WindowStamped'
    BY <1>0, <2>2, <2>4 DEF WindowStamped
  <2>9. QED
    BY <1>6, <2>5, <2>6, <2>7, <2>8, EndKeeps DEF WriteHoldout
<1>7. ASSUME NEW a \in Admins, AbortHoldout(a) PROVE HoldoutIInv'
  BY <1>0, <1>7, EndKeeps DEF AbortHoldout, OneActive, WindowStamped
<1>8. CASE UNCHANGED holdoutVars
  BY <1>0, <1>8 DEF holdoutVars, HoldoutIInv, HoldoutTypeOK, OneActive, WindowStamped,
                    Pending
<1>9. QED
  BY <1>1, <1>2, <1>3, <1>4, <1>5, <1>6, <1>7, <1>8 DEF HoldoutNext

LEMMA HoldoutInductive == HoldoutSpec => []HoldoutIInv
  BY InitHoldoutIInv, HoldoutStep, PTL DEF HoldoutSpec

\* Rows, locks and requests keep their types.
THEOREM HoldoutsTyped == HoldoutSpec => []HoldoutTypeOK
<1>1. HoldoutIInv => HoldoutTypeOK
  BY DEF HoldoutIInv
<1>2. QED
  BY HoldoutInductive, <1>1, PTL

\* However many requests activate holdouts at once, at most one is active.
THEOREM AtMostOneActive == HoldoutSpec => []OneActive
<1>1. HoldoutIInv => OneActive
  BY DEF HoldoutIInv
<1>2. QED
  BY HoldoutInductive, <1>1, PTL

\* An active holdout has its start stamped and one that ended its end, also
\* when requests write each other's rows.
THEOREM WindowsStamped == HoldoutSpec => []WindowStamped
<1>1. HoldoutIInv => WindowStamped
  BY DEF HoldoutIInv
<1>2. QED
  BY HoldoutInductive, <1>1, PTL

\* What the rows remember is never taken back: a stamp stays, a holdout that
\* stops being active has its end stamped, and so a holdout that has once been
\* active is always known to have been (_has_been_active, which locks its
\* percentage).
HistoryKept ==
  [][\A h \in Holdouts :
       /\ holdout[h].started => holdout'[h].started
       /\ holdout[h].ended => holdout'[h].ended
       /\ holdout[h].active => holdout'[h].active \/ holdout'[h].ended
       /\ HasBeenActive(holdout[h]) => HasBeenActive(holdout'[h])]_holdoutVars

LEMMA RowKeepsHistory ==
  ASSUME HoldoutIInv, HoldoutNext, NEW h \in Holdouts
  PROVE  /\ holdout[h].started => holdout'[h].started
         /\ holdout[h].ended => holdout'[h].ended
         /\ holdout[h].active => holdout'[h].active \/ holdout'[h].ended
<1>0. /\ \A a \in Admins : Pending(a) /\ job[a] \in Jobs
      /\ holdout \in [Holdouts -> Rows] /\ holdout[h] \in Rows
  BY DEF HoldoutIInv, HoldoutTypeOK
<1>1. CASE holdout' = holdout
  BY <1>1
<1>2. ASSUME NEW a \in Admins, admin[a] \in {"activate", "write"}, job[a].id = h,
             holdout'[h] = Written(job[a].copy, job[a].want, holdout[h])
      PROVE  /\ holdout[h].started => holdout'[h].started
             /\ holdout[h].ended => holdout'[h].ended
             /\ holdout[h].active => holdout'[h].active \/ holdout'[h].ended
  <2>1. /\ job[a].copy \in Rows /\ job[a].want \in Rows
        /\ job[a].copy.started => holdout[h].started
        /\ job[a].copy.ended => holdout[h].ended
        /\ \/ Activates(h, job[a].copy, job[a].want)
           \/ Rewrites(job[a].copy, job[a].want)
    BY <1>0, <1>2 DEF Pending, Jobs
  <2>2. QED
    BY <1>0, <1>2, <2>1, WrittenRow
<1>3. ASSUME NEW a \in Admins, ActivateHoldout(a), holdout' # holdout
      PROVE  /\ holdout[h].started => holdout'[h].started
             /\ holdout[h].ended => holdout'[h].ended
             /\ holdout[h].active => holdout'[h].active \/ holdout'[h].ended
  <2>1. /\ admin[a] = "activate"
        /\ holdout'[h] =
             IF h = job[a].id THEN Written(job[a].copy, job[a].want, holdout[h])
             ELSE IF h \in job[a].others
                  THEN [holdout[h] EXCEPT !.active = FALSE, !.ended = TRUE]
             ELSE holdout[h]
    BY <1>3 DEF ActivateHoldout
  <2>2. CASE h = job[a].id
    BY <1>2, <2>1, <2>2
  <2>3. CASE h # job[a].id
    BY <1>0, <2>1, <2>3 DEF Rows
  <2>4. QED
    BY <2>2, <2>3
<1>4. ASSUME NEW a \in Admins, WriteHoldout(a)
      PROVE  /\ holdout[h].started => holdout'[h].started
             /\ holdout[h].ended => holdout'[h].ended
             /\ holdout[h].active => holdout'[h].active \/ holdout'[h].ended
  <2>1. /\ admin[a] = "write"
        /\ holdout'[h] = IF h = job[a].id
                         THEN Written(job[a].copy, job[a].want, holdout[h])
                         ELSE holdout[h]
    BY <1>0, <1>4 DEF WriteHoldout
  <2>2. CASE h = job[a].id
    BY <1>2, <2>1, <2>2
  <2>3. QED
    BY <2>1, <2>2
<1>5. QED
  BY <1>1, <1>3, <1>4
     DEF HoldoutNext, CreateHoldout, UpdateHoldout, Load, FindOthers, FlushOthers,
         AbortHoldout

\* However many requests write the rows at once, none makes a holdout forget
\* that it was started, ended or active.
THEOREM HistoryStays == HoldoutSpec => HistoryKept
<1>1. HoldoutIInv /\ [HoldoutNext]_holdoutVars
        => [\A h \in Holdouts :
              /\ holdout[h].started => holdout'[h].started
              /\ holdout[h].ended => holdout'[h].ended
              /\ holdout[h].active => holdout'[h].active \/ holdout'[h].ended
              /\ HasBeenActive(holdout[h]) => HasBeenActive(holdout'[h])]_holdoutVars
  BY RowKeepsHistory DEF HasBeenActive
<1>2. QED
  BY <1>1, HoldoutInductive, PTL DEF HoldoutSpec, HistoryKept

-----------------------------------------------------------------------------
(* Requests that follow one another                                        *)

Serial == \A a, b \in Admins : a = b

\* The copy a request decided on is the row it writes.
Faithful(a) ==
  admin[a] # "idle" =>
    LET j == job[a]
        x == holdout[j.id]
        y == j.want
    IN /\ j.copy = x /\ y.made
       /\ HasBeenActive(x) => y.pct = x.pct
       /\ IF admin[a] = "write"
            THEN \/ (y.active <=> x.active) /\ (y.ended <=> x.ended)
                 \/ x.active /\ ~y.active /\ y.ended
            ELSE ~x.ended
       /\ admin[a] \in {"flush", "activate"}
            => j.others = {g \in Holdouts : holdout[g].active /\ g # j.id}

MadeFirst == \A h \in Holdouts : HasBeenActive(holdout[h]) => holdout[h].made

SerialInv == HoldoutIInv /\ MadeFirst /\ \A a \in Admins : Faithful(a)

\* A write of the row as it was loaded stores what the request wants.
LEMMA FaithfulWrite ==
  ASSUME NEW x \in Rows, NEW y \in Rows, y.made
  PROVE  Written(x, y, x) = y
  BY DEF Written, Column, Rows

LEMMA WantedFaithfully ==
  ASSUME NEW h \in Holdouts, NEW x \in Rows, NEW pct \in Percentages,
         NEW on \in {"on", "off", "keep"},
         MayChange(x, pct, on) \/ (~HasBeenActive(x) /\ on # "off"),
         HasBeenActive(x) => x.made
  PROVE  LET y == Wanted(h, x, pct, on)
         IN /\ y.made
            /\ HasBeenActive(x) => y.pct = x.pct
            /\ IF y.active /\ ~x.active THEN ~x.ended
               ELSE \/ (y.active <=> x.active) /\ (y.ended <=> x.ended)
                    \/ x.active /\ ~y.active /\ y.ended
<1> DEFINE y == Wanted(h, x, pct, on)
           z == [x EXCEPT !.made = TRUE, !.pct = pct]
<1>0. SUFFICES /\ y.made
               /\ HasBeenActive(x) => y.pct = x.pct
               /\ IF y.active /\ ~x.active THEN ~x.ended
                  ELSE \/ (y.active <=> x.active) /\ (y.ended <=> x.ended)
                       \/ x.active /\ ~y.active /\ y.ended
  OBVIOUS
<1>1. /\ z \in Rows /\ z.made /\ z.pct = pct /\ (z.active <=> x.active)
      /\ (z.ended <=> x.ended)
  BY DEF Rows
<1>2. y = IF on = "on" THEN IF x.active THEN z ELSE Activated(h, z)
          ELSE IF on = "off" THEN Ended(z) ELSE z
  BY DEF Wanted
<1>3. HasBeenActive(x) => pct = x.pct
  BY DEF MayChange
<1>4. on = "on" /\ ~x.active => ~x.ended
  BY DEF MayChange, HasBeenActive
<1> HIDE DEF y, z
<1>5. CASE y = z
  BY <1>1, <1>3, <1>5
<1>6. CASE on = "on" /\ ~x.active /\ y = Activated(h, z)
  BY <1>1, <1>3, <1>4, <1>6 DEF Activated, Rows
<1>7. CASE y = Ended(z)
  BY <1>1, <1>3, <1>7 DEF Ended, Rows
<1>8. QED
  BY <1>2, <1>5, <1>6, <1>7

LEMMA LoadIsFaithful ==
  ASSUME Serial, SerialInv, NEW a \in Admins, NEW h \in Holdouts,
         NEW pct \in Percentages, NEW on \in {"on", "off", "keep"},
         MayChange(holdout[h], pct, on)
           \/ (~HasBeenActive(holdout[h]) /\ on # "off"),
         Load(a, h, pct, on)
  PROVE  MadeFirst' /\ Faithful(a)'
<1> DEFINE x == holdout[h]
           y == Wanted(h, x, pct, on)
           j == [id |-> h, copy |-> x, want |-> y, others |-> {}]
           s == IF y.active /\ ~x.active THEN "others" ELSE "write"
<1>0. HoldoutTypeOK /\ MadeFirst /\ x \in Rows
  BY DEF SerialInv, HoldoutIInv, HoldoutTypeOK
<1>1. job' = [job EXCEPT ![a] = j] /\ admin' = [admin EXCEPT ![a] = s]
      /\ holdout' = holdout
  BY DEF Load
<1>2. /\ y.made
      /\ HasBeenActive(x) => y.pct = x.pct
      /\ IF y.active /\ ~x.active THEN ~x.ended
         ELSE \/ (y.active <=> x.active) /\ (y.ended <=> x.ended)
              \/ x.active /\ ~y.active /\ y.ended
  BY <1>0, WantedFaithfully DEF MadeFirst
<1> HIDE DEF y
<1>3. job'[a] = j /\ admin'[a] = s
  BY <1>0, <1>1 DEF HoldoutTypeOK
<1>4. Faithful(a)'
  BY <1>1, <1>2, <1>3 DEF Faithful, HasBeenActive
<1>5. QED
  BY <1>0, <1>1, <1>4 DEF MadeFirst, HasBeenActive

LEMMA SerialStep ==
  ASSUME Serial, SerialInv, [HoldoutNext]_holdoutVars
  PROVE  SerialInv'
<1>0. /\ HoldoutTypeOK /\ MadeFirst /\ \A a \in Admins : Faithful(a)
      /\ holdout \in [Holdouts -> Rows] /\ job \in [Admins -> Jobs]
      /\ admin \in [Admins -> AdminSteps]
  BY DEF SerialInv, HoldoutIInv, HoldoutTypeOK
<1>a. HoldoutIInv'
  BY HoldoutStep DEF SerialInv
<1>b. SUFFICES MadeFirst' /\ \A a \in Admins : Faithful(a)'
  BY <1>a DEF SerialInv
<1>1. ASSUME NEW a \in Admins, CreateHoldout(a)
      PROVE  MadeFirst' /\ Faithful(a)'
  <2>1. PICK h \in Holdouts, pct \in Percentages, on \in {"on", "keep"} :
          ~holdout[h].made /\ Load(a, h, pct, on)
    BY <1>1 DEF CreateHoldout
  <2>2. ~HasBeenActive(holdout[h]) /\ on # "off"
    BY <1>0, <2>1 DEF MadeFirst
  <2>3. QED
    BY <2>1, <2>2, LoadIsFaithful
<1>2. ASSUME NEW a \in Admins, UpdateHoldout(a)
      PROVE  MadeFirst' /\ Faithful(a)'
  BY <1>2, LoadIsFaithful DEF UpdateHoldout
<1>3. ASSUME NEW a \in Admins, FindOthers(a)
      PROVE  MadeFirst' /\ Faithful(a)'
  <2> DEFINE found == {g \in Holdouts : holdout[g].active /\ g # job[a].id}
  <2>1. /\ admin[a] = "others" /\ admin'[a] = "flush"
        /\ job'[a] = [job[a] EXCEPT !.others = found]
        /\ holdout' = holdout
    BY <1>0, <1>3 DEF FindOthers
  <2> HIDE DEF found
  <2>2. /\ job'[a].id = job[a].id /\ job'[a].copy = job[a].copy
        /\ job'[a].want = job[a].want /\ job'[a].others = found
    BY <1>0, <2>1 DEF Jobs
  <2>3. Faithful(a)'
    BY <1>0, <2>1, <2>2 DEF Faithful, found
  <2>4. QED
    BY <1>0, <2>1, <2>3 DEF MadeFirst
<1>4. ASSUME NEW a \in Admins, FlushOthers(a)
      PROVE  MadeFirst' /\ Faithful(a)'
  <2>1. /\ admin[a] = "flush" /\ admin'[a] = "activate"
        /\ job' = job /\ holdout' = holdout
    BY <1>0, <1>4 DEF FlushOthers
  <2>2. QED
    BY <1>0, <2>1 DEF MadeFirst, Faithful
\* The end of a transaction.
<1>c. ASSUME NEW a \in Admins, EndTransaction(a)
      PROVE  Faithful(a)'
  <2>1. admin'[a] = "idle"
    BY <1>0, <1>c DEF EndTransaction
  <2>2. QED
    BY <2>1 DEF Faithful
<1>5. ASSUME NEW a \in Admins, ActivateHoldout(a)
      PROVE  MadeFirst' /\ Faithful(a)'
  <2>1. Faithful(a)'
    BY <1>5, <1>c DEF ActivateHoldout
  <2>2. ASSUME NEW h \in Holdouts, HasBeenActive(holdout'[h])
        PROVE  holdout'[h].made
    <3>0. holdout[h] \in Rows /\ (HasBeenActive(holdout[h]) => holdout[h].made)
      BY <1>0 DEF MadeFirst
    <3>1. CASE holdout'[h] = holdout[h]
      BY <2>2, <3>0, <3>1
    <3>2. CASE holdout'[h] = Written(job[a].copy, job[a].want, holdout[h])
      BY <3>2 DEF Written
    <3>3. CASE /\ h \in job[a].others
               /\ holdout'[h] = [holdout[h] EXCEPT !.active = FALSE, !.ended = TRUE]
      <4>1. HasBeenActive(holdout[h])
        BY <1>0, <1>5, <3>3 DEF Faithful, ActivateHoldout, HasBeenActive
      <4>2. QED
        BY <3>0, <3>3, <4>1 DEF Rows
    <3>4. QED
      BY <1>5, <3>1, <3>2, <3>3 DEF ActivateHoldout
  <2>3. QED
    BY <2>1, <2>2 DEF MadeFirst
<1>6. ASSUME NEW a \in Admins, WriteHoldout(a)
      PROVE  MadeFirst' /\ Faithful(a)'
  <2>1. Faithful(a)'
    BY <1>6, <1>c DEF WriteHoldout
  <2>2. ASSUME NEW h \in Holdouts, HasBeenActive(holdout'[h])
        PROVE  holdout'[h].made
    <3>1. CASE h = job[a].id
      BY <1>0, <1>6, <3>1 DEF WriteHoldout, Written
    <3>2. CASE h # job[a].id
      BY <1>0, <1>6, <2>2, <3>2 DEF WriteHoldout, MadeFirst
    <3>3. QED
      BY <3>1, <3>2
  <2>3. QED
    BY <2>1, <2>2 DEF MadeFirst
<1>7. ASSUME NEW a \in Admins, AbortHoldout(a)
      PROVE  MadeFirst' /\ Faithful(a)'
  BY <1>0, <1>7, <1>c DEF AbortHoldout, MadeFirst
<1>8. CASE UNCHANGED holdoutVars
  BY <1>0, <1>8 DEF holdoutVars, MadeFirst, Faithful
<1>9. ASSUME NEW a \in Admins, MadeFirst' /\ Faithful(a)'
      PROVE  MadeFirst' /\ \A b \in Admins : Faithful(b)'
  <2>1. \A b \in Admins : b = a
    BY DEF Serial
  <2>2. QED
    BY <1>9, <2>1
<1>10. QED
  BY <1>1, <1>2, <1>3, <1>4, <1>5, <1>6, <1>7, <1>8, <1>9 DEF HoldoutNext

LEMMA InitSerialInv == HoldoutInit => SerialInv
<1> SUFFICES ASSUME HoldoutInit PROVE MadeFirst /\ \A a \in Admins : Faithful(a)
  BY InitHoldoutIInv DEF SerialInv
<1>1. \A a \in Admins : admin[a] = "idle"
  BY DEF HoldoutInit
<1>2. MadeFirst
  BY DEF HoldoutInit, MadeFirst, HasBeenActive, Unmade
<1>3. QED
  BY <1>1, <1>2 DEF Faithful

\* A step of one request is a step of the promise, or none.
LEMMA LifeStep ==
  ASSUME Serial, SerialInv, [HoldoutNext]_holdoutVars
  PROVE  [Life!Next]_(Life!vars)
<1> DEFINE st == [h \in Holdouts |-> HoldoutState(h)]
           pc == [h \in Holdouts |-> holdout[h].pct]
<1>0. /\ \A a \in Admins : Faithful(a) /\ Pending(a)
      /\ WindowStamped
      /\ holdout \in [Holdouts -> Rows] /\ job \in [Admins -> Jobs]
      /\ admin \in [Admins -> AdminSteps]
  BY DEF SerialInv, HoldoutIInv, HoldoutTypeOK
<1>a. holdout' = holdout => st' = st /\ pc' = pc
  BY DEF HoldoutState
<1>b. st' = st /\ pc' = pc => UNCHANGED Life!vars
  BY DEF Life!vars
<1>s. \A h \in Holdouts : st[h] = HoldoutState(h) /\ st'[h] = HoldoutState(h)'
  OBVIOUS
<1>1. ASSUME NEW a \in Admins, ActivateHoldout(a), holdout' # holdout
      PROVE  Life!Next
  <2>0. PICK i \in Holdouts : i = job[a].id
    BY <1>0, <1>1 DEF ActivateHoldout, Pending
  <2> DEFINE y == job[a].want
  <2>1. /\ holdout[i] \in Rows /\ y \in Rows
        /\ y.active /\ ~holdout[i].active /\ ~holdout[i].ended
        /\ job[a].copy = holdout[i] /\ y.made
        /\ job[a].others = {g \in Holdouts : holdout[g].active /\ g # i}
    BY <1>0, <1>1, <2>0 DEF ActivateHoldout, Pending, Faithful, Activates, Jobs
  <2>2. holdout' = [h \in Holdouts |->
          IF h = i THEN Written(job[a].copy, y, holdout[h])
          ELSE IF h \in job[a].others
               THEN [holdout[h] EXCEPT !.active = FALSE, !.ended = TRUE]
          ELSE holdout[h]]
    BY <1>1, <2>0 DEF ActivateHoldout
  <2>3. holdout'[i] = y
    BY <2>1, <2>2, FaithfulWrite
  <2>4. HoldoutState(i) \in {"none", "new"} /\ HoldoutState(i)' = "active"
    BY <2>1, <2>3 DEF HoldoutState
  <2>5. ASSUME NEW h \in Holdouts, h # i
        PROVE  /\ HoldoutState(h)' = IF HoldoutState(h) = "active" THEN "ended"
                                     ELSE HoldoutState(h)
               /\ holdout'[h].pct = holdout[h].pct
    <3>1. CASE holdout[h].active
      <4>1. holdout'[h] = [holdout[h] EXCEPT !.active = FALSE, !.ended = TRUE]
        BY <2>1, <2>2, <2>5, <3>1
      <4>2. holdout[h] \in Rows
        BY <1>0
      <4>3. ~holdout'[h].active /\ holdout'[h].ended /\ holdout'[h].pct = holdout[h].pct
        BY <4>1, <4>2 DEF Rows
      <4>4. QED
        BY <3>1, <4>3 DEF HoldoutState
    <3>2. CASE ~holdout[h].active
      <4>1. holdout'[h] = holdout[h]
        BY <2>1, <2>2, <2>5, <3>2
      <4>2. QED
        BY <3>2, <4>1 DEF HoldoutState
    <3>3. QED
      BY <3>1, <3>2
  <2>6. st' = [g \in Holdouts |-> IF g = i THEN "active"
                 ELSE IF st[g] = "active" THEN "ended" ELSE st[g]]
    BY <2>4, <2>5
  <2>7. pc' = [pc EXCEPT ![i] = y.pct] /\ y.pct \in Percentages
    BY <2>1, <2>3, <2>5 DEF Rows
  <2>8. st[i] \in {"none", "new"}
    BY <2>1, <2>4
  <2> HIDE DEF st, pc, y
  <2>9. Life!Activate(i)
    BY <2>6, <2>7, <2>8 DEF Life!Activate, st, pc
  <2>10. QED
    BY <2>1, <2>9 DEF Life!Next
<1>2. ASSUME NEW a \in Admins, WriteHoldout(a)
      PROVE  [Life!Next]_(Life!vars)
  <2>0. PICK i \in Holdouts : i = job[a].id
    BY <1>0, <1>2 DEF WriteHoldout, Pending
  <2> DEFINE x == holdout[i]
             y == job[a].want
  <2>1. /\ x \in Rows /\ y \in Rows
        /\ job[a].copy = x /\ y.made
        /\ HasBeenActive(x) => y.pct = x.pct
        /\ \/ (y.active <=> x.active) /\ (y.ended <=> x.ended)
           \/ x.active /\ ~y.active /\ y.ended
    BY <1>0, <1>2, <2>0 DEF WriteHoldout, Pending, Faithful, Jobs
  <2>2. holdout' = [holdout EXCEPT ![i] = y]
    BY <1>2, <2>0, <2>1, FaithfulWrite DEF WriteHoldout
  <2>3. holdout'[i] = y /\ \A h \in Holdouts \ {i} : holdout'[h] = holdout[h]
    BY <1>0, <2>1, <2>2
  <2>4. pc' = [pc EXCEPT ![i] = y.pct] /\ y.pct \in Percentages
    BY <2>1, <2>3 DEF Rows
  <2>5. st' = [st EXCEPT ![i] = HoldoutState(i)']
    BY <2>1, <2>3 DEF HoldoutState
  <2>6. CASE x.active /\ ~y.active /\ y.ended
    <3>1. st[i] = "active" /\ HoldoutState(i)' = "ended" /\ y.pct = x.pct
      BY <2>1, <2>3, <2>6 DEF HoldoutState, HasBeenActive
    <3>2. pc' = pc
      BY <2>1, <2>4, <3>1
    <3>3. st' = [st EXCEPT ![i] = "ended"]
      BY <2>5, <3>1
    <3>4. Life!End(i)
      BY <3>1, <3>2, <3>3 DEF Life!End
    <3>5. QED
      BY <2>1, <3>4 DEF Life!Next
  <2>7. CASE (y.active <=> x.active) /\ (y.ended <=> x.ended) /\ (x.active \/ x.ended)
    <3>1. HoldoutState(i)' = HoldoutState(i) /\ y.pct = x.pct
      BY <2>1, <2>3, <2>7 DEF HoldoutState, HasBeenActive
    <3>2. st' = st /\ pc' = pc
      BY <2>1, <2>4, <2>5, <3>1
    <3>3. QED
      BY <1>b, <3>2
  <2>8. CASE (y.active <=> x.active) /\ (y.ended <=> x.ended) /\ ~x.active /\ ~x.ended
    <3>1. st[i] \in {"none", "new"} /\ HoldoutState(i)' = "new"
      BY <2>1, <2>3, <2>8 DEF HoldoutState
    <3>2. st' = [st EXCEPT ![i] = "new"]
      BY <2>5, <3>1
    <3> HIDE DEF st, pc, x, y
    <3>3. Life!Change(i)
      BY <2>4, <3>1, <3>2 DEF Life!Change, st, pc
    <3>4. QED
      BY <2>1, <3>3 DEF Life!Next
  <2>9. QED
    BY <2>1, <2>6, <2>7, <2>8
<1>3. holdout' = holdout => [Life!Next]_(Life!vars)
  BY <1>a, <1>b
<1>4. QED
  BY <1>1, <1>2, <1>3
     DEF HoldoutNext, holdoutVars, CreateHoldout, UpdateHoldout, Load, FindOthers,
         FlushOthers, AbortHoldout

LEMMA LifeInit == HoldoutInit => Life!Init
<1> SUFFICES ASSUME HoldoutInit PROVE Life!Init
  OBVIOUS
<1>1. \A h \in Holdouts : /\ HoldoutState(h) = IF h \in Legacy THEN "active" ELSE "none"
                          /\ holdout[h].pct = 1
  BY DEF HoldoutInit, HoldoutState, Unmade
<1>2. QED
  BY <1>1, SomePercentage, LegacyAssumption DEF Life!Init

\* Requests that follow one another keep what the API promises of holdouts:
\* activating one ends the active one, an ended one never restarts, and the
\* percentage is fixed from the first activation on.
THEOREM SerialLife == ASSUME Serial PROVE HoldoutSpec => ImplementsHoldoutLife
<1>1. SerialInv /\ [HoldoutNext]_holdoutVars => SerialInv'
  BY SerialStep
<1>2. SerialInv /\ [HoldoutNext]_holdoutVars => [Life!Next]_(Life!vars)
  BY LifeStep
<1>3. QED
  BY InitSerialInv, LifeInit, <1>1, <1>2, PTL
     DEF HoldoutSpec, ImplementsHoldoutLife, Life!Spec
=============================================================================
