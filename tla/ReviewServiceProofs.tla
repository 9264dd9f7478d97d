------------------------- MODULE ReviewServiceProofs ------------------------
(***************************************************************************)
(* Theorems about the review of a course.                                  *)
(*                                                                         *)
(* ReviewActions: the queue of instructions, for all pages, requests,      *)
(* workers, bounds on attempts and on the queue, and any losses and        *)
(* delays.                                                                 *)
(*                                                                         *)
(* KeyRotation: the key the review worker signs with, for any number of    *)
(* deaths, failures and days: wherever runs of a rotation die, the worker  *)
(* has a key the server accepts and no secret in use is deleted, late      *)
(* swaps of dead runs included; and if no swap outlives its run, the       *)
(* alerts are told no longer life than the ring gives and the next run can *)
(* go on.                                                                  *)
(***************************************************************************)
EXTENDS ReviewActions, KeyRotation, FiniteSetTheorems, SequenceTheorems, TLAPS

-----------------------------------------------------------------------------
(* The review queue and those who use it (ReviewActions).                  *)

(***************************************************************************)
(* The types the proofs need, with the reason attempts stay in range: only *)
(* an action with an attempt left is ever queued.                          *)
(***************************************************************************)
TableInv ==
  /\ revisions \in [Pages -> Seq(Revision)]
  /\ \A p \in Pages : Len(revisions[p]) <= MaxGen
  /\ actions \in [ActionIds -> Action]
  /\ \A a \in ActionIds : actions[a].status = "queued" => actions[a].attempts < MaxAttempts

(***************************************************************************)
(* What appending a revision does to the table of revisions.               *)
(***************************************************************************)
LEMMA AppendEffect ==
  ASSUME revisions \in [Pages -> Seq(Revision)], NEW p \in Pages, NEW e \in Revision,
         revisions' = [revisions EXCEPT ![p] = Append(@, e)]
  PROVE  /\ revisions' \in [Pages -> Seq(Revision)]
         /\ \A q \in Pages : Len(revisions'[q]) = IF q = p THEN Len(revisions[q]) + 1
                                                          ELSE Len(revisions[q])
         /\ \A q \in Pages : \A g \in 1..Len(revisions[q]) : revisions'[q][g] = revisions[q][g]
         /\ revisions'[p][Len(revisions[p]) + 1] = e
  OBVIOUS

(***************************************************************************)
(* Every action of the queue is of one of three kinds.  It appends one     *)
(* revision that is not a correction and may queue its instruction; or it  *)
(* corrects; or it moves unresolved instructions about, completing none    *)
(* and starting one only when no other is left running.                    *)
(***************************************************************************)
Appends(p, e) ==
  LET new == <<p, Len(revisions[p]) + 1>>
  IN  /\ p \in Pages /\ e \in Revision /\ e.author # "worker"
      /\ e.ready <=> e.author = "ready"
      /\ Len(revisions[p]) < MaxGen
      /\ revisions' = [revisions EXCEPT ![p] = Append(@, e)]
      /\ \/ actions' = actions
         \/ /\ ~e.ready /\ ~Full(TRUE)
            /\ actions' = [actions EXCEPT ![new] = NewAction("queued")]
      /\ e.ready => /\ Len(revisions[p]) > 0
                    /\ ~revisions[p][Len(revisions[p])].changes
                    /\ actions[<<p, Len(revisions[p])>>].status \in {"absent", "completed"}

Corrects(a) ==
  /\ a \in ActionIds /\ a[2] = Len(revisions[a[1]]) /\ a[2] < MaxGen
  /\ actions[a].status = "running"
  /\ revisions' = [revisions EXCEPT ![a[1]] =
       Append(@, Copy(@[a[2]], "worker", FALSE))]
  /\ actions' = [actions EXCEPT ![a] = Released(@, "completed"),
                                ![<<a[1], a[2] + 1>>] = NewAction("completed")]

Shuffles ==
  /\ revisions' = revisions
  /\ actions' \in [ActionIds -> Action]
  /\ \A a \in ActionIds :
       \/ actions'[a] = actions[a]
       \/ /\ actions[a].status \in Unresolved
          /\ actions'[a].status \in {"queued", "running", "needs-clarification", "failed"}
  /\ \A a \in ActionIds : actions'[a].status = "queued" => actions'[a].attempts < MaxAttempts
  /\ \/ \A a \in ActionIds : actions'[a].status = "running" => actions[a].status = "running"
     \/ \E a \in ActionIds : \A b \in ActionIds : actions'[b].status = "running" => a = b

\* No action precedes its revision.
NothingAhead ==
  \A a \in ActionIds : a[2] > Len(revisions[a[1]]) => actions[a] = NoAction

(***************************************************************************)
(* Each kind keeps the types, but for the count of attempts.               *)
(***************************************************************************)
LEMMA AppendsTable ==
  ASSUME TableInv, NothingAhead, NEW p, NEW e, Appends(p, e)
  PROVE  /\ revisions' \in [Pages -> Seq(Revision)]
         /\ \A q \in Pages : Len(revisions'[q]) <= MaxGen
         /\ actions' \in [ActionIds -> Action]
         /\ \A a \in ActionIds : actions'[a].status = "queued" => actions'[a].attempts < MaxAttempts
<1> DEFINE new == <<p, Len(revisions[p]) + 1>>
<1> USE ReviewAssumption DEF TableInv
<1>1. p \in Pages /\ e \in Revision /\ Len(revisions[p]) < MaxGen /\ Len(revisions[p]) \in Nat
      /\ revisions' = [revisions EXCEPT ![p] = Append(@, e)]
  BY DEF Appends
<1>2. /\ revisions' \in [Pages -> Seq(Revision)]
      /\ \A q \in Pages : Len(revisions'[q]) <= MaxGen
  BY <1>1, AppendEffect
<1>3. new \in ActionIds /\ actions[new] = NoAction
  BY <1>1 DEF ActionIds, NothingAhead
<1>4. \/ actions' = actions
      \/ actions' = [actions EXCEPT ![new] = NewAction("queued")]
  BY <1>3 DEF Appends
<1>5. NewAction("queued") \in Action
  BY DEF NewAction, Action, Unresolved
<1>6. actions' \in [ActionIds -> Action]
  BY <1>3, <1>4, <1>5
<1>7. ASSUME NEW a \in ActionIds, actions'[a].status = "queued"
      PROVE  actions'[a].attempts < MaxAttempts
  <2>1. CASE actions'[a] = actions[a]
    BY <2>1, <1>7
  <2>2. CASE actions'[a] = NewAction("queued")
    <3>1. actions'[a].attempts = 0
      BY <2>2 DEF NewAction
    <3>2. QED  BY <3>1
  <2>3. QED  BY <2>1, <2>2, <1>3, <1>4
<1>8. QED  BY <1>2, <1>6, <1>7

(***************************************************************************)
(* A correction keeps them too: it queues nothing.                         *)
(***************************************************************************)
LEMMA CorrectsTable ==
  ASSUME TableInv, NEW a, Corrects(a)
  PROVE  /\ revisions' \in [Pages -> Seq(Revision)]
         /\ \A q \in Pages : Len(revisions'[q]) <= MaxGen
         /\ actions' \in [ActionIds -> Action]
         /\ \A b \in ActionIds : actions'[b].status = "queued" => actions'[b].attempts < MaxAttempts
<1> DEFINE p == a[1]
           e == Copy(revisions[p][a[2]], "worker", FALSE)
           new == <<a[1], a[2] + 1>>
<1> USE ReviewAssumption DEF TableInv
<1>1. p \in Pages /\ a[2] \in 1..MaxGen /\ a[2] = Len(revisions[p]) /\ a[2] < MaxGen
  BY DEF Corrects, ActionIds
<1>2. revisions[p][a[2]] \in Revision
  BY <1>1
<1>3. e \in Revision
  BY <1>2 DEF Revision, Copy
<1>4. revisions' = [revisions EXCEPT ![p] = Append(@, e)]
  BY <1>1 DEF Corrects
<1> HIDE DEF e
<1>5. /\ revisions' \in [Pages -> Seq(Revision)]
      /\ \A q \in Pages : Len(revisions'[q]) <= MaxGen
  BY <1>1, <1>3, <1>4, AppendEffect
<1>6. a \in ActionIds /\ new \in ActionIds
  BY <1>1 DEF Corrects, ActionIds
<1>7. Released(actions[a], "completed") \in Action
  BY <1>6 DEF Released, Action, Resolved
<1>8. NewAction("completed") \in Action
  BY DEF NewAction, Action, Resolved
<1>9. actions' \in [ActionIds -> Action]
  BY <1>6, <1>7, <1>8 DEF Corrects
<1>10. ASSUME NEW b \in ActionIds, actions'[b].status = "queued"
       PROVE  actions'[b].attempts < MaxAttempts
  <2>1. b # a /\ b # new
    BY <1>6, <1>10 DEF Corrects, Released, NewAction, Action
  <2>2. actions'[b] = actions[b]
    BY <2>1 DEF Corrects
  <2>3. QED  BY <2>2, <1>10
<1>11. QED  BY <1>5, <1>9, <1>10

-----------------------------------------------------------------------------
(***************************************************************************)
(* What is known of corrections and of ready marks holds together: a ready *)
(* revision has no action that could still correct it, since an action     *)
(* never precedes its revision.                                            *)
(***************************************************************************)
LedgerInv == NothingAhead /\ CorrectionsAreAnswers /\ ReadyIsResolved

(***************************************************************************)
(* A new revision disturbs no earlier correction or ready mark.            *)
(***************************************************************************)
LEMMA AppendsLedger ==
  ASSUME TableInv, LedgerInv, NEW p, NEW e, Appends(p, e)
  PROVE  LedgerInv'
<1> DEFINE g == Len(revisions[p])
           new == <<p, g + 1>>
<1>0. /\ NothingAhead /\ CorrectionsAreAnswers /\ ReadyIsResolved
      /\ revisions \in [Pages -> Seq(Revision)] /\ actions \in [ActionIds -> Action]
  BY DEF LedgerInv, TableInv
<1>1. /\ p \in Pages /\ e \in Revision /\ g < MaxGen /\ g \in Nat /\ MaxGen \in Nat
      /\ revisions' = [revisions EXCEPT ![p] = Append(@, e)]
      /\ e.author # "worker"
  BY <1>0, ReviewAssumption DEF Appends
<1>2. /\ \A q \in Pages : Len(revisions'[q]) = IF q = p THEN g + 1 ELSE Len(revisions[q])
      /\ \A q \in Pages : \A h \in 1..Len(revisions[q]) : revisions'[q][h] = revisions[q][h]
      /\ revisions'[p][g + 1] = e
  BY <1>0, <1>1, AppendEffect
<1>3. new \in ActionIds /\ actions[new] = NoAction
  BY <1>0, <1>1 DEF ActionIds, NothingAhead
<1>4. /\ \A a \in ActionIds : a # new => actions'[a] = actions[a]
      /\ \/ actions'[new] = NoAction
         \/ ~e.ready /\ actions'[new] = NewAction("queued")
  BY <1>0, <1>3 DEF Appends
<1>5. NoAction.status = "absent" /\ NewAction("queued").status = "queued"
  BY DEF NoAction, NewAction
<1>6. NothingAhead'
  BY <1>0, <1>1, <1>2, <1>4 DEF NothingAhead, ActionIds
<1>7. ASSUME NEW a \in ActionIds, a[2] <= Len(revisions'[a[1]]), revisions'[a[1]][a[2]].author # "worker"
      PROVE  actions'[a].status = "completed"
               <=> a[2] < Len(revisions'[a[1]]) /\ revisions'[a[1]][a[2] + 1].author = "worker"
  <2>1. a[1] \in Pages /\ a[2] \in 1..MaxGen /\ a = <<a[1], a[2]>>
    BY DEF ActionIds
  <2>2. CASE a = new
    BY <2>1, <2>2, <1>1, <1>2, <1>4, <1>5
  <2>3. CASE a # new
    <3>1. a[2] \in 1..Len(revisions[a[1]])
      BY <2>1, <2>3, <1>0, <1>1, <1>2, <1>7
    <3>2. actions'[a] = actions[a] /\ revisions'[a[1]][a[2]] = revisions[a[1]][a[2]]
      BY <2>1, <2>3, <3>1, <1>2, <1>4
    <3>3. actions[a].status = "completed"
            <=> a[2] < Len(revisions[a[1]]) /\ revisions[a[1]][a[2] + 1].author = "worker"
      BY <3>1, <3>2, <1>0, <1>7 DEF CorrectionsAreAnswers, Generation
    <3>4. CASE a[2] < Len(revisions[a[1]])
      <4>1. revisions'[a[1]][a[2] + 1] = revisions[a[1]][a[2] + 1]
        BY <2>1, <3>4, <1>2, <1>0
      <4>2. a[2] < Len(revisions'[a[1]])
        BY <2>1, <3>4, <1>2, <1>0, <1>1
      <4>3. QED  BY <3>2, <3>3, <3>4, <4>1, <4>2
    <3>5. CASE a[2] = Len(revisions[a[1]])
      <4>1. actions'[a].status # "completed"
        BY <2>1, <3>2, <3>3, <3>5, <1>0
      <4>2. CASE a[1] = p
        BY <4>1, <4>2, <3>5, <1>1, <1>2
      <4>3. CASE a[1] # p
        BY <4>1, <4>3, <2>1, <3>5, <1>0, <1>2
      <4>4. QED  BY <4>2, <4>3
    <3>6. QED  BY <2>1, <3>1, <3>4, <3>5, <1>0
  <2>4. QED  BY <2>2, <2>3
<1>8. CorrectionsAreAnswers'
  BY <1>7 DEF CorrectionsAreAnswers, Generation
<1>9. ASSUME NEW a \in ActionIds, a[2] <= Len(revisions'[a[1]]), revisions'[a[1]][a[2]].ready
      PROVE  /\ a[2] > 1
             /\ actions'[a].status = "absent"
             /\ ~revisions'[a[1]][a[2] - 1].changes
             /\ actions'[<<a[1], a[2] - 1>>].status \in {"absent", "completed"}
             /\ a[2] < Len(revisions'[a[1]]) => revisions'[a[1]][a[2] + 1].author # "worker"
  <2>1. a[1] \in Pages /\ a[2] \in 1..MaxGen /\ a = <<a[1], a[2]>>
    BY DEF ActionIds
  <2>2. CASE a = new
    <3>1. e.ready /\ a[1] = p /\ a[2] = g + 1
      BY <2>2, <1>2, <1>9
    <3>2. g > 0 /\ ~revisions[p][g].changes /\ actions[<<p, g>>].status \in {"absent", "completed"}
      BY <3>1 DEF Appends
    <3>3. revisions'[p][g] = revisions[p][g]
      BY <3>2, <1>1, <1>2
    <3>4. <<p, g>> \in ActionIds /\ <<p, g>> # new
      BY <3>2, <1>1 DEF ActionIds
    <3>5. actions'[<<p, g>>] = actions[<<p, g>>]
      BY <3>4, <1>4
    <3>6. actions'[a].status = "absent"
      BY <3>1, <2>2, <1>4, <1>5
    <3>7. a[2] - 1 = g /\ a[2] > 1 /\ ~(a[2] < Len(revisions'[a[1]]))
      BY <3>1, <3>2, <1>1, <1>2
    <3>8. QED  BY <3>1, <3>2, <3>3, <3>5, <3>6, <3>7
  <2>3. CASE a # new
    <3>1. a[2] \in 1..Len(revisions[a[1]])
      BY <2>1, <2>3, <1>0, <1>1, <1>2, <1>9
    <3>2. actions'[a] = actions[a] /\ revisions'[a[1]][a[2]] = revisions[a[1]][a[2]]
      BY <2>1, <2>3, <3>1, <1>2, <1>4
    <3>3. /\ a[2] > 1
          /\ actions[a].status = "absent"
          /\ ~revisions[a[1]][a[2] - 1].changes
          /\ actions[<<a[1], a[2] - 1>>].status \in {"absent", "completed"}
          /\ a[2] < Len(revisions[a[1]]) => revisions[a[1]][a[2] + 1].author # "worker"
      BY <3>1, <3>2, <1>0, <1>9 DEF ReadyIsResolved, Generation
    <3>4. revisions'[a[1]][a[2] - 1] = revisions[a[1]][a[2] - 1]
      <4>1. a[2] - 1 \in 1..Len(revisions[a[1]])
        BY <2>1, <3>1, <3>3, <1>0
      <4>2. QED  BY <4>1, <2>1, <1>2
    <3>5. <<a[1], a[2] - 1>> \in ActionIds /\ <<a[1], a[2] - 1>> # new
      BY <2>1, <3>1, <3>3, <1>0, <1>1 DEF ActionIds
    <3>6. actions'[<<a[1], a[2] - 1>>] = actions[<<a[1], a[2] - 1>>]
      BY <3>5, <1>4
    <3>7. a[2] < Len(revisions'[a[1]]) => revisions'[a[1]][a[2] + 1].author # "worker"
      <4>1. CASE a[2] < Len(revisions[a[1]])
        <5>1. a[2] + 1 \in 1..Len(revisions[a[1]])
          BY <4>1, <2>1, <1>0
        <5>2. revisions'[a[1]][a[2] + 1] = revisions[a[1]][a[2] + 1]
          BY <5>1, <2>1, <1>2
        <5>3. QED  BY <4>1, <5>2, <3>3
      <4>2. CASE a[2] = Len(revisions[a[1]]) /\ a[1] = p
        BY <4>2, <1>1, <1>2
      <4>3. CASE a[2] = Len(revisions[a[1]]) /\ a[1] # p
        BY <4>3, <2>1, <1>0, <1>2
      <4>4. QED  BY <4>1, <4>2, <4>3, <2>1, <3>1, <1>0
    <3>8. QED  BY <3>2, <3>3, <3>4, <3>6, <3>7
  <2>4. QED  BY <2>2, <2>3
<1>10. ReadyIsResolved'
  BY <1>9 DEF ReadyIsResolved, Generation
<1>11. QED  BY <1>6, <1>8, <1>10 DEF LedgerInv

-----------------------------------------------------------------------------
(***************************************************************************)
(* Moving unresolved instructions about touches no revision and no         *)
(* completed or missing action, which is all the ledger speaks of.         *)
(***************************************************************************)
LEMMA ShufflesLedger ==
  ASSUME TableInv, LedgerInv, Shuffles
  PROVE  LedgerInv'
<1>1. /\ NothingAhead /\ CorrectionsAreAnswers /\ ReadyIsResolved
      /\ revisions' = revisions
      /\ revisions \in [Pages -> Seq(Revision)] /\ MaxGen \in Nat
  BY ReviewAssumption DEF LedgerInv, TableInv, Shuffles
<1>2. ASSUME NEW a \in ActionIds
      PROVE  /\ actions[a].status \in {"absent", "completed"} => actions'[a] = actions[a]
             /\ actions'[a].status \in {"absent", "completed"} => actions'[a] = actions[a]
  BY DEF Shuffles, Unresolved
<1>3. NothingAhead'
  BY <1>1, <1>2 DEF NothingAhead, NoAction, NewAction
<1>4. CorrectionsAreAnswers'
  BY <1>1, <1>2 DEF CorrectionsAreAnswers, Generation
<1>5. ASSUME NEW a \in ActionIds, a[2] > 1
      PROVE  <<a[1], a[2] - 1>> \in ActionIds
  BY <1>1, <1>5 DEF ActionIds
<1>6. ReadyIsResolved'
  BY <1>1, <1>2, <1>5 DEF ReadyIsResolved, Generation
<1>7. QED  BY <1>3, <1>4, <1>6 DEF LedgerInv

(***************************************************************************)
(* A correction answers the last revision of its page; a ready mark is     *)
(* never that revision, since its action would be running.                 *)
(***************************************************************************)
LEMMA CorrectsLedger ==
  ASSUME TableInv, LedgerInv, NEW c, Corrects(c)
  PROVE  LedgerInv'
<1> DEFINE p == c[1]
           g == Len(revisions[p])
           e == Copy(revisions[p][c[2]], "worker", FALSE)
           new == <<p, g + 1>>
<1>0. /\ NothingAhead /\ CorrectionsAreAnswers /\ ReadyIsResolved
      /\ revisions \in [Pages -> Seq(Revision)] /\ actions \in [ActionIds -> Action]
  BY DEF LedgerInv, TableInv
<1>1. /\ p \in Pages /\ g < MaxGen /\ g \in Nat /\ MaxGen \in Nat /\ g > 0
      /\ c = <<p, g>> /\ c \in ActionIds /\ new \in ActionIds /\ new # c /\ c[2] = g
      /\ actions[c].status = "running"
  BY <1>0, ReviewAssumption DEF Corrects, ActionIds
<1>2. revisions[p][g] \in Revision
  BY <1>0, <1>1
<1>3. e \in Revision /\ e.author = "worker" /\ e.ready = FALSE
  BY <1>1, <1>2 DEF Revision, Copy
<1>4. revisions' = [revisions EXCEPT ![p] = Append(@, e)]
  BY <1>1 DEF Corrects
<1> HIDE DEF e
<1>5. /\ \A q \in Pages : Len(revisions'[q]) = IF q = p THEN g + 1 ELSE Len(revisions[q])
      /\ \A q \in Pages : \A h \in 1..Len(revisions[q]) : revisions'[q][h] = revisions[q][h]
      /\ revisions'[p][g + 1] = e
  BY <1>0, <1>1, <1>3, <1>4, AppendEffect
<1>6. /\ actions'[c] = Released(actions[c], "completed")
      /\ actions'[new] = NewAction("completed")
      /\ \A a \in ActionIds : a # c /\ a # new => actions'[a] = actions[a]
  BY <1>0, <1>1 DEF Corrects
<1>7. actions'[c].status = "completed" /\ actions'[new].status = "completed"
  BY <1>6 DEF Released, NewAction
<1>8. NothingAhead'
  BY <1>0, <1>1, <1>5, <1>6 DEF NothingAhead, ActionIds
<1>9. ASSUME NEW a \in ActionIds, a[2] <= Len(revisions'[a[1]]), revisions'[a[1]][a[2]].author # "worker"
      PROVE  actions'[a].status = "completed"
               <=> a[2] < Len(revisions'[a[1]]) /\ revisions'[a[1]][a[2] + 1].author = "worker"
  <2>1. a[1] \in Pages /\ a[2] \in 1..MaxGen /\ a = <<a[1], a[2]>>
    BY DEF ActionIds
  <2>2. a # new
    BY <1>3, <1>5, <1>9
  <2>3. CASE a = c
    BY <2>3, <1>1, <1>3, <1>5, <1>7
  <2>4. CASE a # c
    <3>1. a[2] \in 1..Len(revisions[a[1]])
      BY <2>1, <2>2, <1>0, <1>1, <1>5, <1>9
    <3>2. actions'[a] = actions[a] /\ revisions'[a[1]][a[2]] = revisions[a[1]][a[2]]
      BY <2>1, <2>2, <2>4, <3>1, <1>5, <1>6
    <3>3. actions[a].status = "completed"
            <=> a[2] < Len(revisions[a[1]]) /\ revisions[a[1]][a[2] + 1].author = "worker"
      BY <3>1, <3>2, <1>0, <1>9 DEF CorrectionsAreAnswers, Generation
    <3>4. CASE a[2] < Len(revisions[a[1]])
      <4>1. a[2] + 1 \in 1..Len(revisions[a[1]])
        BY <3>4, <2>1, <1>0
      <4>2. revisions'[a[1]][a[2] + 1] = revisions[a[1]][a[2] + 1]
        BY <4>1, <2>1, <1>5
      <4>3. a[2] < Len(revisions'[a[1]])
        BY <2>1, <3>4, <1>0, <1>1, <1>5
      <4>4. QED  BY <3>2, <3>3, <3>4, <4>2, <4>3
    <3>5. CASE a[2] = Len(revisions[a[1]])
      <4>1. a[1] # p
        BY <2>1, <2>4, <3>5, <1>1
      <4>2. Len(revisions'[a[1]]) = Len(revisions[a[1]])
        BY <4>1, <2>1, <1>5
      <4>3. QED  BY <4>2, <3>2, <3>3, <3>5, <2>1
    <3>6. QED  BY <2>1, <3>1, <3>4, <3>5, <1>0
  <2>5. QED  BY <2>3, <2>4
<1>10. CorrectionsAreAnswers'
  BY <1>9 DEF CorrectionsAreAnswers, Generation
<1>11. ASSUME NEW a \in ActionIds, a[2] <= Len(revisions'[a[1]]), revisions'[a[1]][a[2]].ready
       PROVE  /\ a[2] > 1
              /\ actions'[a].status = "absent"
              /\ ~revisions'[a[1]][a[2] - 1].changes
              /\ actions'[<<a[1], a[2] - 1>>].status \in {"absent", "completed"}
              /\ a[2] < Len(revisions'[a[1]]) => revisions'[a[1]][a[2] + 1].author # "worker"
  <2>1. a[1] \in Pages /\ a[2] \in 1..MaxGen /\ a = <<a[1], a[2]>>
    BY DEF ActionIds
  <2>2. a # new
    BY <1>3, <1>5, <1>11
  <2>3. a[2] \in 1..Len(revisions[a[1]])
    BY <2>1, <2>2, <1>0, <1>1, <1>5, <1>11
  <2>4. revisions'[a[1]][a[2]] = revisions[a[1]][a[2]]
    BY <2>1, <2>3, <1>5
  <2>5. /\ a[2] > 1
        /\ actions[a].status = "absent"
        /\ ~revisions[a[1]][a[2] - 1].changes
        /\ actions[<<a[1], a[2] - 1>>].status \in {"absent", "completed"}
        /\ a[2] < Len(revisions[a[1]]) => revisions[a[1]][a[2] + 1].author # "worker"
    BY <2>3, <2>4, <1>0, <1>11 DEF ReadyIsResolved, Generation
  <2>6. a # c
    BY <2>5, <1>1
  <2>7. actions'[a] = actions[a]
    BY <2>2, <2>6, <1>6
  <2>8. /\ a[2] - 1 \in 1..Len(revisions[a[1]])
        /\ <<a[1], a[2] - 1>> \in ActionIds /\ <<a[1], a[2] - 1>> # new
    BY <2>1, <2>3, <2>5, <1>0, <1>1 DEF ActionIds
  <2>9. revisions'[a[1]][a[2] - 1] = revisions[a[1]][a[2] - 1]
    BY <2>1, <2>8, <1>5
  <2>10. actions'[<<a[1], a[2] - 1>>].status \in {"absent", "completed"}
    BY <2>5, <2>8, <1>6, <1>7
  <2>11. ASSUME a[2] < Len(revisions'[a[1]])
         PROVE  revisions'[a[1]][a[2] + 1].author # "worker"
    <3>1. ~(a[1] = p /\ a[2] = g)
      BY <2>1, <2>6, <1>1
    <3>2. a[2] + 1 \in 1..Len(revisions[a[1]]) /\ a[2] < Len(revisions[a[1]])
      BY <3>1, <2>1, <2>3, <2>11, <1>0, <1>1, <1>5
    <3>3. revisions'[a[1]][a[2] + 1] = revisions[a[1]][a[2] + 1]
      BY <3>2, <2>1, <1>5
    <3>4. QED  BY <3>2, <3>3, <2>5
  <2>12. QED  BY <2>4, <2>5, <2>7, <2>9, <2>10, <2>11
<1>12. ReadyIsResolved'
  BY <1>11 DEF ReadyIsResolved, Generation
<1>13. QED  BY <1>8, <1>10, <1>12 DEF LedgerInv

-----------------------------------------------------------------------------
(***************************************************************************)
(* What authors and workers hold names pages and revisions that may exist. *)
(***************************************************************************)
Composed == [page : Pages, base : 0..MaxGen, instructs : BOOLEAN, changes : BOOLEAN]

ClientsInv ==
  /\ sent \in [Requests -> {Unsent} \cup Composed]
  /\ job \in [Workers -> {Jobless} \cup Job]
  /\ wire \subseteq Job

(***************************************************************************)
(* A PUT that is answered without a save changes no table; a save appends. *)
(***************************************************************************)
LEMMA SaveStep ==
  ASSUME TableInv, ClientsInv, NEW r \in Requests, HandleSave(r)
  PROVE  (\E p, e : Appends(p, e)) \/ UNCHANGED <<revisions, actions>>
<1>1. CASE AnswerKnown(r) \/ AnswerConflict(r) \/ AnswerFull(r)
  BY <1>1 DEF AnswerKnown, AnswerConflict, AnswerFull, queueVars
<1>2. CASE AnswerSaved(r)
  <2> DEFINE s == sent[r]
             e == [author |-> r, instructs |-> s.instructs, changes |-> s.changes, ready |-> FALSE]
  <2>1. s \in Composed
    BY DEF HandleSave, ClientsInv
  <2>2. s.page \in Pages /\ s.instructs \in BOOLEAN /\ s.changes \in BOOLEAN
    BY <2>1 DEF Composed
  <2> HIDE DEF s
  <2>3. e \in Revision /\ e.author \notin {"worker", "ready"} /\ e.ready = FALSE
    BY <2>2, ReviewAssumption DEF Revision
  <2>4. /\ s.base = Len(revisions[s.page]) /\ Len(revisions[s.page]) < MaxGen
        /\ revisions' = [revisions EXCEPT ![s.page] = Append(@, e)]
        /\ \/ actions' = actions
           \/ /\ ~Full(TRUE)
              /\ actions' = [actions EXCEPT ![<<s.page, s.base + 1>>] = NewAction("queued")]
    BY <1>2, ReviewAssumption DEF AnswerSaved, Save, Open, Full, Generation, s
  <2> HIDE DEF e
  <2>5. Appends(s.page, e)
    BY <2>2, <2>3, <2>4 DEF Appends
  <2>6. QED  BY <2>5
<1>3. QED  BY <1>1, <1>2 DEF HandleSave

(***************************************************************************)
(* Marking a page ready appends a copy of a resolved revision.             *)
(***************************************************************************)
LEMMA ReadyStep ==
  ASSUME TableInv, NEW p \in Pages, HandleReady(p)
  PROVE  \E e : Appends(p, e) /\ e.author = "ready"
<1> DEFINE g == Len(revisions[p])
           e == Copy(revisions[p][g], "ready", TRUE)
<1>1. /\ g > 0 /\ g < MaxGen /\ g \in Nat /\ revisions \in [Pages -> Seq(Revision)]
      /\ actions[<<p, g>>].status \in {"absent", "completed"}
      /\ ~revisions[p][g].changes
      /\ actions' = actions
  BY ReviewAssumption DEF HandleReady, Ready, Open, Generation, TableInv
<1>2. revisions[p][g] \in Revision
  BY <1>1
<1>3. e \in Revision /\ e.author = "ready" /\ e.ready
  BY <1>2 DEF Copy, Revision
<1>4. revisions' = [revisions EXCEPT ![p] = Append(@, e)]
  BY <1>1 DEF HandleReady, Ready
<1> HIDE DEF e
<1>5. Appends(p, e)
  BY <1>1, <1>3, <1>4 DEF Appends
<1>6. QED  BY <1>3, <1>5

(***************************************************************************)
(* What the three updates at the start of claim make of one row.           *)
(***************************************************************************)
LEMMA SweptEffect ==
  ASSUME TableInv, NEW a \in ActionIds
  PROVE  /\ Swept(a) \in Action
         /\ \/ Swept(a) = actions[a]
            \/ /\ actions[a].status \in Unresolved
               /\ Swept(a).status \in {"queued", "needs-clarification", "failed"}
         /\ Swept(a).status = "queued" =>
              Swept(a).attempts < MaxAttempts /\ Swept(a).attempts = actions[a].attempts
         /\ Swept(a).status = "running" => actions[a].status = "running" /\ ~Lapsed(a)
<1>1. actions[a] \in Action /\ (actions[a].status = "queued" => actions[a].attempts < MaxAttempts)
  BY DEF TableInv
<1>2. \A s \in {"queued", "needs-clarification", "failed"} :
        /\ Released(actions[a], s) \in Action
        /\ Released(actions[a], s).status = s
        /\ Released(actions[a], s).attempts = actions[a].attempts
  BY <1>1, ReviewAssumption DEF Released, Action, Unresolved, Resolved
<1>3. \/ Swept(a) = actions[a] /\ ~Lapsed(a)
      \/ Lapsed(a) /\ Swept(a) = Released(actions[a], "failed")
      \/ (Lapsed(a) \/ actions[a].status = "queued")
           /\ Swept(a) = Released(actions[a], "needs-clarification")
      \/ Lapsed(a) /\ actions[a].attempts < MaxAttempts
           /\ Swept(a) = Released(actions[a], "queued")
  BY DEF Swept, Requeued
<1>4. Lapsed(a) => actions[a].status = "running"
  BY DEF Lapsed
<1>5. QED  BY <1>1, <1>2, <1>3, <1>4 DEF Unresolved

(***************************************************************************)
(* A claim starts one instruction, and none that ran is left running.      *)
(***************************************************************************)
LEMMA ClaimStep ==
  ASSUME TableInv, NEW a \in ActionIds, Claim(a)
  PROVE  Shuffles /\ actions'[a].token \in 1..MaxAttempts
<1> DEFINE started == [status |-> "running", attempts |-> actions[a].attempts + 1,
                       token |-> actions[a].attempts + 1, expired |-> FALSE]
<1>1. /\ ~Busy /\ Swept(a).status = "queued" /\ revisions' = revisions
      /\ actions' = [b \in ActionIds |-> IF b = a THEN started ELSE Swept(b)]
  BY DEF Claim, First, StillQueued
<1>2. /\ actions[a].attempts < MaxAttempts /\ actions[a].attempts \in 0..MaxAttempts
      /\ actions[a].status \in Unresolved
  BY <1>1, SweptEffect DEF TableInv, Action, Unresolved
<1>3. started \in Action /\ started.status = "running" /\ started.token \in 1..MaxAttempts
  BY <1>2, ReviewAssumption DEF Action, Unresolved
<1> HIDE DEF started
<1>4. actions'[a] = started /\ \A b \in ActionIds : b # a => actions'[b] = Swept(b)
  BY <1>1
<1>5. actions' \in [ActionIds -> Action]
  BY <1>1, <1>3, SweptEffect
<1>6. ASSUME NEW b \in ActionIds
      PROVE  /\ \/ actions'[b] = actions[b]
                \/ /\ actions[b].status \in Unresolved
                   /\ actions'[b].status \in {"queued", "running", "needs-clarification", "failed"}
             /\ actions'[b].status = "queued" => actions'[b].attempts < MaxAttempts
             /\ actions'[b].status = "running" => a = b
  <2>1. CASE b = a
    BY <2>1, <1>2, <1>3, <1>4
  <2>2. CASE b # a
    BY <2>2, <1>1, <1>4, SweptEffect DEF Busy
  <2>3. QED  BY <2>1, <2>2
<1>7. QED  BY <1>1, <1>3, <1>4, <1>5, <1>6 DEF Shuffles

(***************************************************************************)
(* A claim that starts nothing only sweeps.                                *)
(***************************************************************************)
LEMMA ClaimNothingStep ==
  ASSUME TableInv, ClaimNothing
  PROVE  Shuffles
<1>1. revisions' = revisions /\ actions' = [b \in ActionIds |-> Swept(b)]
  BY DEF ClaimNothing
<1>2. actions' \in [ActionIds -> Action]
  BY <1>1, SweptEffect
<1>3. QED  BY <1>1, <1>2, SweptEffect DEF Shuffles

(***************************************************************************)
(* A change of one running row that completes nothing.                     *)
(***************************************************************************)
LEMMA RowStep ==
  ASSUME TableInv, NEW a \in ActionIds, NEW row \in Action,
         revisions' = revisions, actions' = [actions EXCEPT ![a] = row],
         actions[a].status = "running",
         row.status \in {"running", "needs-clarification", "failed"}
  PROVE  Shuffles
BY DEF Shuffles, TableInv, Unresolved

(***************************************************************************)
(* finish corrects, refuses, or finds that the lease is gone.              *)
(***************************************************************************)
LEMMA FinishStep ==
  ASSUME TableInv, ClientsInv, NEW m \in wire, HandleFinish(m)
  PROVE  (\E a : Corrects(a)) \/ Shuffles
<1> DEFINE a == <<m.page, m.gen>>
<1>1. a \in ActionIds /\ a[1] = m.page /\ a[2] = m.gen
  BY DEF ClientsInv, Job, ActionIds
<1>2. actions[a] \in Action /\ revisions \in [Pages -> Seq(Revision)]
  BY <1>1 DEF TableInv
<1> HIDE DEF a
<1>3. CASE \E s \in Resolved : Return(a, m.token, s)
  <2>1. PICK s \in {"needs-clarification", "failed"} : Return(a, m.token, s)
    BY <1>3 DEF Return
  <2> DEFINE row == Released(actions[a], s)
  <2>2. row \in Action /\ row.status = s
    BY <1>2, ReviewAssumption DEF Released, Action, Resolved
  <2>3. /\ revisions' = revisions /\ actions' = [actions EXCEPT ![a] = row]
        /\ actions[a].status = "running"
    BY <2>1 DEF Return, Settle, HasLease
  <2> HIDE DEF row
  <2>4. QED  BY <2>1, <2>2, <2>3, <1>1, RowStep
<1>4. CASE Correct(a, m.token)
  <2>1. Corrects(a)
    <3>1. a[2] \in 1..MaxGen /\ a[1] \in Pages /\ Len(revisions[a[1]]) \in Nat
      BY <1>1, <1>2 DEF ActionIds
    <3>2. a[2] = Len(revisions[a[1]]) /\ a[2] < MaxGen
      BY <1>4, <3>1 DEF Correct, Superseded, Open, Generation
    <3>3. QED  BY <1>1, <1>4, <3>2 DEF Correct, Corrects, HasLease
  <2>2. QED  BY <2>1
<1>5. CASE UNCHANGED queueVars
  BY <1>5 DEF queueVars, Shuffles, TableInv
<1>6. QED  BY <1>3, <1>4, <1>5 DEF HandleFinish, a

(***************************************************************************)
(* A lease that lapses changes no status.                                  *)
(***************************************************************************)
LEMMA ExpireStep ==
  ASSUME TableInv, LeaseExpires
  PROVE  Shuffles
<1>1. PICK a \in ActionIds : Expire(a)
  BY DEF LeaseExpires
<1> DEFINE row == [actions[a] EXCEPT !.expired = TRUE]
<1>2. row \in Action /\ row.status = actions[a].status
  BY DEF TableInv, Action
<1>3. revisions' = revisions /\ actions' = [actions EXCEPT ![a] = row] /\ actions[a].status = "running"
  BY <1>1 DEF Expire
<1> HIDE DEF row
<1>4. QED  BY <1>2, <1>3, RowStep

(***************************************************************************)
(* Every step is of one of the three kinds, or leaves the tables alone,    *)
(* which is the last kind too.                                             *)
(***************************************************************************)
LEMMA StepKinds ==
  ASSUME TableInv, ClientsInv, [Next]_vars
  PROVE  (\E p, e : Appends(p, e)) \/ (\E a : Corrects(a)) \/ Shuffles
<1>1. CASE UNCHANGED <<revisions, actions>>
  BY <1>1 DEF Shuffles, TableInv
<1>2. ASSUME NEW r \in Requests, NEW p \in Pages, NEW i \in BOOLEAN, NEW c \in BOOLEAN,
             Compose(r, p, i, c)
      PROVE  UNCHANGED <<revisions, actions>>
  BY <1>2 DEF Compose, queueVars
<1>3. ASSUME NEW w \in Workers, HandleClaim(w)
      PROVE  Shuffles
  BY <1>3, ClaimStep, ClaimNothingStep DEF HandleClaim
<1>4. ASSUME NEW w \in Workers, SendFinish(w) \/ WorkerDies(w)
      PROVE  UNCHANGED <<revisions, actions>>
  BY <1>4 DEF SendFinish, WorkerDies, queueVars
<1>5. ASSUME NEW m \in wire, LoseFinish(m)
      PROVE  UNCHANGED <<revisions, actions>>
  BY <1>5 DEF LoseFinish, queueVars
<1>6. CASE UNCHANGED vars
  BY <1>1, <1>6 DEF vars, queueVars
<1>7. QED
  BY <1>1, <1>2, <1>3, <1>4, <1>5, <1>6, SaveStep, ReadyStep, FinishStep, ExpireStep DEF Next

(***************************************************************************)
(* What clients hold stays typed: a save names the generation its author   *)
(* saw, a job the action it claimed and the number of the attempt.         *)
(***************************************************************************)
LEMMA ClientsStep ==
  ASSUME TableInv, ClientsInv, [Next]_vars
  PROVE  ClientsInv'
<1> USE DEF ClientsInv
<1>1. ASSUME UNCHANGED <<sent, job>>, wire' \subseteq wire
      PROVE  ClientsInv'
  BY <1>1
<1>2. ASSUME NEW r \in Requests, NEW p \in Pages, NEW i \in BOOLEAN, NEW c \in BOOLEAN,
             Compose(r, p, i, c)
      PROVE  ClientsInv'
  <2> DEFINE s == [page |-> p, base |-> Generation(p), instructs |-> i, changes |-> c]
  <2>1. s \in Composed
    BY ReviewAssumption DEF TableInv, Composed, Generation
  <2>2. sent' = [sent EXCEPT ![r] = s] /\ UNCHANGED <<job, wire>>
    BY <1>2 DEF Compose
  <2> HIDE DEF s
  <2>3. QED  BY <2>1, <2>2
<1>3. ASSUME NEW r \in Requests, HandleSave(r)
      PROVE  ClientsInv'
  BY <1>1, <1>3 DEF HandleSave
<1>4. ASSUME NEW p \in Pages, HandleReady(p)
      PROVE  ClientsInv'
  BY <1>1, <1>4 DEF HandleReady
<1>5. ASSUME NEW w \in Workers, HandleClaim(w)
      PROVE  ClientsInv'
  <2>1. UNCHANGED <<sent, wire>>
    BY <1>5 DEF HandleClaim
  <2>2. CASE UNCHANGED job
    BY <1>1, <2>1, <2>2
  <2>3. ASSUME NEW a \in ActionIds, Claim(a),
               job' = [job EXCEPT ![w] = [page |-> a[1], gen |-> a[2], token |-> actions'[a].token]]
        PROVE  ClientsInv'
    <3>1. [page |-> a[1], gen |-> a[2], token |-> actions'[a].token] \in Job
      BY <2>3, ClaimStep DEF Job, ActionIds
    <3>2. QED  BY <3>1, <2>1, <2>3
  <2>4. QED  BY <1>5, <2>2, <2>3 DEF HandleClaim
<1>6. ASSUME NEW w \in Workers, SendFinish(w) \/ WorkerDies(w)
      PROVE  ClientsInv'
  BY <1>6 DEF SendFinish, WorkerDies
<1>7. ASSUME NEW m \in wire, HandleFinish(m) \/ LoseFinish(m)
      PROVE  ClientsInv'
  BY <1>1, <1>7 DEF HandleFinish, LoseFinish
<1>8. ASSUME LeaseExpires
      PROVE  ClientsInv'
  BY <1>1, <1>8 DEF LeaseExpires
<1>9. CASE UNCHANGED vars
  BY <1>1, <1>9 DEF vars
<1>10. QED  BY <1>2, <1>3, <1>4, <1>5, <1>6, <1>7, <1>8, <1>9 DEF Next

(***************************************************************************)
(* No step leaves two instructions running: a claim fails every other that *)
(* ran, or finds its lease alive and starts nothing.                       *)
(***************************************************************************)
LEMMA OneRunningStep ==
  ASSUME TableInv, NothingAhead, ClientsInv, OneRunning, [Next]_vars
  PROVE  OneRunning'
<1>1. ASSUME NEW p, NEW e, Appends(p, e), NEW a \in ActionIds, actions'[a].status = "running"
      PROVE  actions[a].status = "running"
  <2>1. NewAction("queued").status # "running"
    BY DEF NewAction
  <2>2. actions'[a] = actions[a] \/ actions'[a] = NewAction("queued")
    BY <1>1 DEF Appends, TableInv
  <2>3. QED  BY <1>1, <2>1, <2>2
<1>2. ASSUME NEW c, Corrects(c), NEW a \in ActionIds, actions'[a].status = "running"
      PROVE  actions[a].status = "running"
  BY <1>2 DEF Corrects, TableInv, NewAction, Released
<1>3. QED  BY <1>1, <1>2, StepKinds DEF OneRunning, Shuffles

-----------------------------------------------------------------------------
IInv == TableInv /\ ClientsInv /\ OneRunning /\ LedgerInv

(***************************************************************************)
(* The invariant holds of an empty database.                               *)
(***************************************************************************)
LEMMA InitIInv ==
  ASSUME Init
  PROVE  IInv
<1> USE ReviewAssumption DEF Init, QueueInit
<1>1. NoAction \in Action /\ NoAction.status = "absent"
  BY DEF NoAction, NewAction, Action
<1>2. revisions \in [Pages -> Seq(Revision)] /\ \A p \in Pages : Len(revisions[p]) = 0
  OBVIOUS
<1>3. TableInv
  BY <1>1, <1>2 DEF TableInv
<1>4. ClientsInv
  BY DEF ClientsInv
<1>5. OneRunning
  BY <1>1 DEF OneRunning
<1>6. LedgerInv
  BY <1>2 DEF LedgerInv, NothingAhead, CorrectionsAreAnswers, ReadyIsResolved, Generation, ActionIds
<1>7. QED  BY <1>3, <1>4, <1>5, <1>6 DEF IInv

(***************************************************************************)
(* The invariant is inductive: one case for each kind of step.             *)
(***************************************************************************)
LEMMA NextIInv ==
  ASSUME IInv, [Next]_vars
  PROVE  IInv'
<1>1. TableInv /\ ClientsInv /\ OneRunning /\ LedgerInv /\ NothingAhead
  BY DEF IInv, LedgerInv
<1>2. CASE \E p, e : Appends(p, e)
  BY <1>1, <1>2, AppendsTable, AppendsLedger, ClientsStep, OneRunningStep DEF IInv, TableInv
<1>3. CASE \E a : Corrects(a)
  BY <1>1, <1>3, CorrectsTable, CorrectsLedger, ClientsStep, OneRunningStep DEF IInv, TableInv
<1>4. CASE Shuffles
  <2>1. TableInv'
    BY <1>1, <1>4 DEF Shuffles, TableInv
  <2>2. QED  BY <1>1, <1>4, <2>1, ShufflesLedger, ClientsStep, OneRunningStep DEF IInv
<1>5. QED  BY <1>1, <1>2, <1>3, <1>4, StepKinds

(***************************************************************************)
(* The invariant all the theorems below follow from.                       *)
(***************************************************************************)
THEOREM Invariance == Spec => []IInv
<1>1. Init => IInv
  BY InitIInv
<1>2. IInv /\ [Next]_vars => IInv'
  BY NextIInv
<1>3. QED  BY <1>1, <1>2, PTL DEF Spec

(***************************************************************************)
(* claim (beyond_basics_action_queue.py): one instruction runs at a time,  *)
(* with any number of workers.                                             *)
(***************************************************************************)
THEOREM OneInstructionAtATime == Spec => []OneRunning
<1>1. IInv => OneRunning
  BY DEF IInv
<1>2. QED  BY <1>1, Invariance, PTL

(***************************************************************************)
(* finish: an instruction is completed exactly when its correction lies    *)
(* directly on the revision that carries it, whatever is retried or late.  *)
(***************************************************************************)
THEOREM CorrectionsAnswer == Spec => []CorrectionsAreAnswers
<1>1. IInv => CorrectionsAreAnswers
  BY DEF IInv, LedgerInv
<1>2. QED  BY <1>1, Invariance, PTL

(***************************************************************************)
(* review_state, "ready": the mark rests on a revision without open        *)
(* instruction or requested change, and stays that way.                    *)
(***************************************************************************)
THEOREM ReadyRests == Spec => []ReadyIsResolved
<1>1. IInv => ReadyIsResolved
  BY DEF IInv, LedgerInv
<1>2. QED  BY <1>1, Invariance, PTL

(***************************************************************************)
(* No retry, late finish, lapsed lease or later save changes the outcome   *)
(* of an instruction.                                                      *)
(***************************************************************************)
THEOREM OutcomesStay == Spec => ResolvedOnce
<1>1. ASSUME IInv, [Next]_vars, NEW a \in ActionIds, actions[a].status \in Resolved
      PROVE  actions'[a] = actions[a]
  <2>1. TableInv /\ ClientsInv /\ NothingAhead /\ actions[a].status \notin Unresolved \cup {"absent"}
    BY <1>1 DEF IInv, LedgerInv, Resolved, Unresolved
  <2>2. a[2] <= Len(revisions[a[1]]) /\ a = <<a[1], a[2]>> /\ a[2] \in Nat /\ Len(revisions[a[1]]) \in Nat
    BY <2>1, ReviewAssumption DEF NothingAhead, NoAction, NewAction, ActionIds, TableInv
  <2>3. ASSUME NEW p, NEW e, Appends(p, e)
        PROVE  actions'[a] = actions[a]
    <3>1. a # <<p, Len(revisions[p]) + 1>>
      BY <2>2
    <3>2. \/ actions' = actions
          \/ actions' = [actions EXCEPT ![<<p, Len(revisions[p]) + 1>>] = NewAction("queued")]
      BY <2>3 DEF Appends
    <3>3. QED  BY <3>1, <3>2, <2>1 DEF TableInv
  <2>4. ASSUME NEW c, Corrects(c)
        PROVE  actions'[a] = actions[a]
    <3>1. a # c /\ a # <<c[1], c[2] + 1>>
      BY <2>1, <2>2, <2>4 DEF Corrects, Unresolved
    <3>2. QED  BY <3>1, <2>1, <2>4 DEF Corrects, TableInv
  <2>5. CASE Shuffles
    BY <2>1, <2>5 DEF Shuffles
  <2>6. QED  BY <1>1, <2>1, <2>3, <2>4, <2>5, StepKinds
<1>2. IInv /\ [Next]_vars =>
        [\A a \in ActionIds : actions[a].status \in Resolved => actions'[a] = actions[a]]_vars
  BY <1>1
<1>3. QED  BY <1>2, Invariance, PTL DEF Spec, ResolvedOnce

-----------------------------------------------------------------------------
(***************************************************************************)
(* What authors are told and what is admitted: retries under one request   *)
(* id are answered truly, unresolved instructions are bounded, and the     *)
(* service implements the ledger of ReviewLedger.                          *)
(***************************************************************************)

(***************************************************************************)
(* The table of request ids and the revisions tell the same story, and     *)
(* every author asks on top of a generation the page has had.  An author   *)
(* told of a conflict is behind the page for good, since pages only grow.  *)
(***************************************************************************)
RequestInv(r) ==
  /\ saved[r] = 0 => RevisionsOf(r) = {}
  /\ saved[r] # 0 => \E a \in ActionIds : RevisionsOf(r) = {a}
  /\ sent[r] # Unsent => sent[r].base <= Generation(sent[r].page)
  /\ answer[r] = "saved" => saved[r] # 0
  /\ answer[r] = "conflict" => /\ saved[r] = 0 /\ sent[r] # Unsent
                               /\ sent[r].base < Generation(sent[r].page)

SavesInv ==
  /\ saved \in [Requests -> 0..MaxGen]
  /\ answer \in [Requests -> {"none", "saved", "conflict", "refused"}]
  /\ \A r \in Requests : RequestInv(r)

(***************************************************************************)
(* A new revision belongs to its author and to nobody else.                *)
(***************************************************************************)
LEMMA AuthorEffect ==
  ASSUME TableInv, NEW p \in Pages, NEW e \in Revision, Len(revisions[p]) < MaxGen,
         revisions' = [revisions EXCEPT ![p] = Append(@, e)], NEW r
  PROVE  /\ e.author # r => RevisionsOf(r)' = RevisionsOf(r)
         /\ e.author = r => RevisionsOf(r)' = RevisionsOf(r) \cup {<<p, Len(revisions[p]) + 1>>}
<1> DEFINE g == Len(revisions[p])
           new == <<p, g + 1>>
<1>1. /\ revisions \in [Pages -> Seq(Revision)] /\ g \in Nat /\ MaxGen \in Nat
      /\ \A q \in Pages : Len(revisions'[q]) = IF q = p THEN g + 1 ELSE Len(revisions[q])
      /\ \A q \in Pages : \A h \in 1..Len(revisions[q]) : revisions'[q][h] = revisions[q][h]
      /\ revisions'[p][g + 1] = e
  BY AppendEffect, ReviewAssumption DEF TableInv
<1>2. new \in ActionIds
  BY <1>1 DEF ActionIds
<1>3. ASSUME NEW a \in ActionIds
      PROVE  a \in RevisionsOf(r)' <=> a \in RevisionsOf(r) \/ (a = new /\ e.author = r)
  <2>1. a = <<a[1], a[2]>> /\ a[1] \in Pages /\ a[2] \in 1..MaxGen /\ Len(revisions[a[1]]) \in Nat
    BY <1>1 DEF ActionIds
  <2>2. a \in RevisionsOf(r)' <=>
          a[2] <= Len(revisions'[a[1]]) /\ revisions'[a[1]][a[2]].author = r
    BY DEF RevisionsOf, Generation
  <2>3. a \in RevisionsOf(r) <=>
          a[2] <= Len(revisions[a[1]]) /\ revisions[a[1]][a[2]].author = r
    BY DEF RevisionsOf, Generation
  <2>4. CASE a = new
    BY <2>2, <2>3, <2>4, <1>1
  <2>5. CASE a # new
    <3>1. a[2] <= Len(revisions'[a[1]]) <=> a[2] <= Len(revisions[a[1]])
      BY <2>1, <2>5, <1>1
    <3>2. a[2] <= Len(revisions[a[1]]) => revisions'[a[1]][a[2]] = revisions[a[1]][a[2]]
      BY <2>1, <1>1
    <3>3. QED  BY <2>2, <2>3, <2>5, <3>1, <3>2
  <2>6. QED  BY <2>4, <2>5
<1>4. RevisionsOf(r) \subseteq ActionIds /\ RevisionsOf(r)' \subseteq ActionIds
  BY DEF RevisionsOf, ActionIds
<1>5. QED  BY <1>2, <1>3, <1>4

(***************************************************************************)
(* Pages only grow, and a request's revisions are added by a save alone.   *)
(***************************************************************************)
LEMMA PagesGrow ==
  ASSUME TableInv, NEW p \in Pages,
         (\E q, e : Appends(q, e)) \/ (\E a : Corrects(a)) \/ revisions' = revisions
  PROVE  Len(revisions[p]) \in Nat /\ Len(revisions'[p]) \in Nat
         /\ Len(revisions[p]) <= Len(revisions'[p])
<1>1. revisions \in [Pages -> Seq(Revision)] /\ Len(revisions[p]) \in Nat
  BY DEF TableInv
<1>2. CASE revisions' = revisions
  BY <1>1, <1>2
<1>3. CASE \E q, e : Appends(q, e)
  BY <1>1, <1>3, AppendEffect DEF Appends
<1>4. ASSUME NEW a, Corrects(a)
      PROVE  Len(revisions'[p]) \in Nat /\ Len(revisions[p]) <= Len(revisions'[p])
  BY <1>1, <1>4 DEF Corrects, ActionIds
<1>5. QED  BY <1>1, <1>2, <1>3, <1>4

\* A correction is of the worker and of no request.
LEMMA CorrectionAuthor ==
  ASSUME TableInv, NEW a, Corrects(a), NEW r \in Requests
  PROVE  RevisionsOf(r)' = RevisionsOf(r)
<1> DEFINE e == Copy(revisions[a[1]][a[2]], "worker", FALSE)
<1>1. a[1] \in Pages /\ Len(revisions[a[1]]) < MaxGen /\ a[2] \in 1..Len(revisions[a[1]])
  BY DEF Corrects, ActionIds, TableInv
<1>2. e \in Revision /\ e.author = "worker"
  <2>1. revisions[a[1]][a[2]] \in Revision
    BY <1>1 DEF TableInv
  <2>2. QED  BY <2>1 DEF Revision, Copy
<1>3. revisions' = [revisions EXCEPT ![a[1]] = Append(@, e)]
  BY DEF Corrects
<1> HIDE DEF e
<1>4. e.author # r
  BY <1>2, ReviewAssumption
<1>5. QED  BY <1>1, <1>2, <1>3, <1>4, AuthorEffect
-----------------------------------------------------------------------------
(***************************************************************************)
(* A step that is no author's keeps what authors have been told true.      *)
(***************************************************************************)
LEMMA QuietSaves ==
  ASSUME TableInv, ClientsInv, SavesInv, UNCHANGED <<saved, sent, answer>>,
         \A r \in Requests : RevisionsOf(r)' = RevisionsOf(r),
         (\E q, e : Appends(q, e)) \/ (\E a : Corrects(a)) \/ revisions' = revisions
  PROVE  SavesInv'
<1>1. ASSUME NEW r \in Requests, sent[r] # Unsent
      PROVE  /\ sent[r].page \in Pages /\ sent[r].base \in Nat
             /\ Len(revisions[sent[r].page]) \in Nat /\ Len(revisions'[sent[r].page]) \in Nat
             /\ Len(revisions[sent[r].page]) <= Len(revisions'[sent[r].page])
  <2>1. sent[r].page \in Pages /\ sent[r].base \in Nat
    BY <1>1, ReviewAssumption DEF ClientsInv, Composed
  <2>2. QED  BY <2>1, PagesGrow
<1>2. ASSUME NEW r \in Requests
      PROVE  RequestInv(r)'
  <2>1. RequestInv(r)
    BY DEF SavesInv
  <2>2. RevisionsOf(r)' = RevisionsOf(r)
    OBVIOUS
  <2>3. /\ saved'[r] = 0 => RevisionsOf(r)' = {}
        /\ saved'[r] # 0 => \E a \in ActionIds : RevisionsOf(r)' = {a}
    BY <2>1, <2>2 DEF RequestInv
  <2>4. QED  BY <2>1, <2>3, <1>1 DEF RequestInv, Generation
<1>3. QED  BY <1>2 DEF SavesInv

(***************************************************************************)
(* A PUT that changes no table is answered by what the tables say.         *)
(***************************************************************************)
LEMMA ReplySaves ==
  ASSUME TableInv, ClientsInv, SavesInv, NEW r \in Requests, sent[r] # Unsent,
         UNCHANGED <<revisions, saved, sent>>,
         NEW what \in {"saved", "conflict", "refused"}, Reply(r, what),
         what = "saved" => saved[r] # 0,
         what = "conflict" => saved[r] = 0 /\ sent[r].base # Generation(sent[r].page)
  PROVE  SavesInv'
<1>1. /\ answer' \in [Requests -> {"none", "saved", "conflict", "refused"}]
      /\ \A q \in Requests : answer'[q] = answer[q] \/ (q = r /\ answer'[q] = what)
  BY DEF Reply, SavesInv
<1>2. sent[r].page \in Pages /\ sent[r].base \in Nat /\ Len(revisions[sent[r].page]) \in Nat
  BY ReviewAssumption DEF ClientsInv, Composed, TableInv
<1>3. ASSUME NEW q \in Requests
      PROVE  RequestInv(q)'
  <2>1. RequestInv(q) /\ RequestInv(r)
    BY DEF SavesInv
  <2>2. RevisionsOf(q)' = RevisionsOf(q)
    BY DEF RevisionsOf, Generation
  <2>3. /\ saved'[q] = 0 => RevisionsOf(q)' = {}
        /\ saved'[q] # 0 => \E a \in ActionIds : RevisionsOf(q)' = {a}
    BY <2>1, <2>2 DEF RequestInv
  <2>4. CASE answer'[q] = answer[q]
    BY <2>1, <2>3, <2>4 DEF RequestInv, Generation
  <2>5. CASE q = r /\ answer'[q] = what
    BY <2>1, <2>3, <2>5, <1>2 DEF RequestInv, Generation
  <2>6. QED  BY <1>1, <2>4, <2>5
<1>4. QED  BY <1>1, <1>3 DEF SavesInv

(***************************************************************************)
(* A save remembers its request id together with the revision it makes.    *)
(***************************************************************************)
LEMMA SavedSaves ==
  ASSUME TableInv, ClientsInv, SavesInv, NEW r \in Requests, sent[r] # Unsent,
         AnswerSaved(r), sent' = sent
  PROVE  SavesInv'
<1> DEFINE p == sent[r].page
           g == Len(revisions[p])
           new == <<p, g + 1>>
           e == [author |-> r, instructs |-> sent[r].instructs, changes |-> sent[r].changes,
                 ready |-> FALSE]
<1>1. sent[r] \in Composed
  BY DEF ClientsInv
<1>2. /\ p \in Pages /\ sent[r].base \in Nat /\ g \in Nat /\ MaxGen \in Nat
      /\ sent[r].instructs \in BOOLEAN /\ sent[r].changes \in BOOLEAN
  BY <1>1, ReviewAssumption DEF Composed, TableInv
<1>3. e \in Revision /\ e.author = r
  BY <1>2 DEF Revision
<1>4. /\ saved[r] = 0 /\ sent[r].base = g /\ g < MaxGen
      /\ revisions' = [revisions EXCEPT ![p] = Append(@, e)]
      /\ saved' = [saved EXCEPT ![r] = g + 1]
      /\ Reply(r, "saved")
  BY DEF AnswerSaved, Save, Open, Generation
<1> HIDE DEF e
<1>5. /\ \A q \in Requests : q # r => RevisionsOf(q)' = RevisionsOf(q)
      /\ RevisionsOf(r)' = RevisionsOf(r) \cup {new}
  BY <1>2, <1>3, <1>4, AuthorEffect
<1>6. \A q \in Pages : Len(revisions[q]) \in Nat
                       /\ Len(revisions'[q]) = IF q = p THEN g + 1 ELSE Len(revisions[q])
  BY <1>2, <1>3, <1>4, AppendEffect DEF TableInv
<1>7. new \in ActionIds /\ g + 1 \in 0..MaxGen /\ g + 1 # 0
  BY <1>2, <1>4 DEF ActionIds
<1>8. saved' \in [Requests -> 0..MaxGen]
  BY <1>4, <1>7 DEF SavesInv
<1>9. /\ answer' \in [Requests -> {"none", "saved", "conflict", "refused"}]
      /\ \A q \in Requests : answer'[q] = answer[q] \/ (q = r /\ answer'[q] = "saved")
  BY <1>4 DEF Reply, SavesInv
<1>10. ASSUME NEW q \in Requests
       PROVE  RequestInv(q)'
  <2>1. RequestInv(q) /\ RequestInv(r)
    BY DEF SavesInv
  <2>2. sent[q] # Unsent => /\ sent[q].page \in Pages /\ sent[q].base \in Nat
                            /\ Len(revisions[sent[q].page]) <= Len(revisions'[sent[q].page])
                            /\ Len(revisions'[sent[q].page]) \in Nat
    <3>1. sent[q] # Unsent => sent[q].page \in Pages /\ sent[q].base \in Nat
      BY ReviewAssumption DEF ClientsInv, Composed
    <3>2. QED  BY <3>1, <1>2, <1>6
  <2>3. sent[q] # Unsent => sent[q].base <= Len(revisions'[sent[q].page])
    BY <2>1, <2>2, <1>6 DEF RequestInv, Generation
  <2>4. CASE q = r
    <3>1. saved'[q] # 0 /\ RevisionsOf(q)' = {new}
      BY <2>1, <2>4, <1>4, <1>5, <1>7 DEF RequestInv, SavesInv
    <3>2. answer'[q] # "conflict"
      BY <2>4, <1>9, <1>4, <2>1, <1>2 DEF RequestInv, Generation
    <3>3. QED  BY <3>1, <3>2, <2>3, <1>7 DEF RequestInv, Generation
  <2>5. CASE q # r
    <3>1. saved'[q] = saved[q] /\ answer'[q] = answer[q]
      BY <2>5, <1>4, <1>9 DEF SavesInv
    <3>2. /\ saved'[q] = 0 => RevisionsOf(q)' = {}
          /\ saved'[q] # 0 => \E a \in ActionIds : RevisionsOf(q)' = {a}
      BY <2>1, <2>5, <3>1, <1>5 DEF RequestInv
    <3>3. answer'[q] = "conflict" => /\ saved'[q] = 0 /\ sent[q] # Unsent
                                     /\ sent[q].base < Len(revisions'[sent[q].page])
      BY <2>1, <2>2, <3>1, <1>6 DEF RequestInv, Generation
    <3>4. answer'[q] = "saved" => saved'[q] # 0
      BY <2>1, <3>1 DEF RequestInv
    <3>5. QED  BY <3>2, <3>3, <3>4, <2>3 DEF RequestInv, Generation
  <2>6. QED  BY <2>4, <2>5
<1>11. QED  BY <1>8, <1>9, <1>10 DEF SavesInv

(***************************************************************************)
(* An author composes on top of the page as it is.                         *)
(***************************************************************************)
LEMMA ComposeSaves ==
  ASSUME TableInv, ClientsInv, SavesInv, NEW r \in Requests, NEW p \in Pages,
         NEW i \in BOOLEAN, NEW c \in BOOLEAN, Compose(r, p, i, c)
  PROVE  SavesInv'
<1> DEFINE s == [page |-> p, base |-> Generation(p), instructs |-> i, changes |-> c]
<1>1. /\ sent[r] = Unsent /\ sent' = [sent EXCEPT ![r] = s]
      /\ UNCHANGED <<revisions, saved, answer>>
  BY DEF Compose, queueVars
<1>2. s.base = Len(revisions[s.page]) /\ Len(revisions[s.page]) \in Nat
  BY DEF Generation, TableInv
<1> HIDE DEF s
<1>3. sent'[r] = s /\ \A q \in Requests : q # r => sent'[q] = sent[q]
  BY <1>1 DEF ClientsInv
<1>4. ASSUME NEW q \in Requests
      PROVE  RequestInv(q)'
  <2>1. RequestInv(q)
    BY DEF SavesInv
  <2>2. RevisionsOf(q)' = RevisionsOf(q) /\ saved'[q] = saved[q] /\ answer'[q] = answer[q]
    BY <1>1 DEF RevisionsOf, Generation
  <2>3. /\ saved'[q] = 0 => RevisionsOf(q)' = {}
        /\ saved'[q] # 0 => \E a \in ActionIds : RevisionsOf(q)' = {a}
    BY <2>1, <2>2 DEF RequestInv
  <2>4. CASE q = r
    BY <2>1, <2>2, <2>3, <2>4, <1>1, <1>2, <1>3 DEF RequestInv, Generation
  <2>5. CASE q # r
    BY <2>1, <2>2, <2>3, <2>5, <1>1, <1>3 DEF RequestInv, Generation
  <2>6. QED  BY <2>4, <2>5
<1>5. QED  BY <1>1, <1>4 DEF SavesInv

-----------------------------------------------------------------------------
\* SavesInv holds before anything is saved.
LEMMA InitSaves ==
  ASSUME Init
  PROVE  SavesInv
<1> USE ReviewAssumption DEF Init, QueueInit
<1>1. ASSUME NEW r \in Requests
      PROVE  RequestInv(r)
  <2>1. RevisionsOf(r) = {}
    BY DEF RevisionsOf, Generation, ActionIds
  <2>2. saved[r] = 0 /\ sent[r] = Unsent /\ answer[r] = "none"
    OBVIOUS
  <2>3. QED  BY <2>1, <2>2 DEF RequestInv
<1>2. QED  BY <1>1 DEF SavesInv

(***************************************************************************)
(* One case per handler; only the PUT speaks to authors.                   *)
(***************************************************************************)
LEMMA NextSaves ==
  ASSUME TableInv, ClientsInv, SavesInv, [Next]_vars
  PROVE  SavesInv'
<1>1. ASSUME UNCHANGED <<revisions, saved, sent, answer>>
      PROVE  SavesInv'
  BY <1>1, QuietSaves DEF RevisionsOf, Generation
<1>2. ASSUME NEW r \in Requests, HandleSave(r)
      PROVE  SavesInv'
  <2>1. sent[r] # Unsent /\ sent' = sent
    BY <1>2 DEF HandleSave
  <2>2. CASE AnswerKnown(r)
    BY <2>1, <2>2, ReplySaves DEF AnswerKnown, queueVars
  <2>3. CASE AnswerConflict(r)
    BY <2>1, <2>3, ReplySaves DEF AnswerConflict, queueVars
  <2>4. CASE AnswerFull(r)
    BY <2>1, <2>4, ReplySaves DEF AnswerFull, queueVars
  <2>5. CASE AnswerSaved(r)
    BY <2>1, <2>5, SavedSaves
  <2>6. QED  BY <1>2, <2>2, <2>3, <2>4, <2>5 DEF HandleSave
<1>3. ASSUME NEW p \in Pages, HandleReady(p)
      PROVE  SavesInv'
  <2>1. PICK e : Appends(p, e) /\ e.author = "ready"
    BY <1>3, ReadyStep
  <2>2. UNCHANGED <<saved, sent, answer>>
    BY <1>3 DEF HandleReady, Ready
  <2>3. \A r \in Requests : RevisionsOf(r)' = RevisionsOf(r)
    BY <2>1, AuthorEffect, ReviewAssumption DEF Appends
  <2>4. QED  BY <2>1, <2>2, <2>3, QuietSaves
<1>4. ASSUME NEW w \in Workers, HandleClaim(w) \/ SendFinish(w) \/ WorkerDies(w)
      PROVE  SavesInv'
  BY <1>1, <1>4 DEF HandleClaim, Claim, ClaimNothing, SendFinish, WorkerDies, queueVars
<1>5. ASSUME NEW m \in wire, HandleFinish(m)
      PROVE  SavesInv'
  <2>1. UNCHANGED <<saved, sent, answer>>
    BY <1>5 DEF HandleFinish, Return, Correct, queueVars
  <2>2. CASE Shuffles
    BY <1>1, <2>1, <2>2 DEF Shuffles
  <2>3. ASSUME NEW a, Corrects(a)
        PROVE  SavesInv'
    BY <2>1, <2>3, CorrectionAuthor, QuietSaves
  <2>4. QED  BY <1>5, <2>2, <2>3, FinishStep
<1>6. ASSUME NEW m \in wire, LoseFinish(m)
      PROVE  SavesInv'
  BY <1>1, <1>6 DEF LoseFinish, queueVars
<1>7. CASE LeaseExpires
  BY <1>1, <1>7 DEF LeaseExpires, Expire
<1>8. CASE UNCHANGED vars
  BY <1>1, <1>8 DEF vars, queueVars
<1>9. QED  BY <1>2, <1>3, <1>4, <1>5, <1>6, <1>7, <1>8, ComposeSaves DEF Next

\* SavesInv, what the database has of each request and what its author was
\* told, is inductive on top of IInv.
THEOREM SavesInvariance == Spec => [](IInv /\ SavesInv)
<1>1. Init => IInv /\ SavesInv
  BY InitIInv, InitSaves
<1>2. IInv /\ SavesInv /\ [Next]_vars => (IInv /\ SavesInv)'
  BY NextIInv, NextSaves DEF IInv
<1>3. QED  BY <1>1, <1>2, PTL DEF Spec

(***************************************************************************)
(* review_state: an author told "saved" has exactly one revision of that   *)
(* request however often the PUT was retried or delayed, and one told of a *)
(* conflict has none.                                                      *)
(***************************************************************************)
THEOREM AnswersHonest == Spec => []AnswersAreTrue
<1>1. ASSUME SavesInv, NEW r \in Requests
      PROVE  /\ Cardinality(RevisionsOf(r)) <= 1
             /\ answer[r] = "saved"    => RevisionsOf(r) # {}
             /\ answer[r] = "conflict" => RevisionsOf(r) = {}
  <2>1. RequestInv(r) /\ saved[r] \in Nat
    BY <1>1, ReviewAssumption DEF SavesInv
  <2>2. CASE saved[r] = 0
    BY <2>1, <2>2, FS_EmptySet DEF RequestInv
  <2>3. CASE saved[r] # 0
    BY <2>1, <2>3, FS_Singleton DEF RequestInv
  <2>4. QED  BY <2>2, <2>3
<1>2. SavesInv => AnswersAreTrue
  BY <1>1 DEF AnswersAreTrue
<1>3. QED  BY <1>2, SavesInvariance, PTL

(***************************************************************************)
(* The line of the instructions that wait.  One that is new joins behind   *)
(* all of them.                                                            *)
(***************************************************************************)
LEMMA JoinsLine ==
  ASSUME NEW line, NEW S, NEW a, a \notin S, Orders(line, S)
  PROVE  Orders(line \cup (S \X {a}), S \cup {a})
<1> DEFINE more == line \cup (S \X {a})
<1>1. \A x, y \in S \cup {a} : <<x, y>> \in more <=> (x \in S /\ y = a) \/ (x \in S /\ y \in S /\ <<x, y>> \in line)
  BY DEF Orders
<1>2. more \subseteq (S \cup {a}) \X (S \cup {a})
  BY DEF Orders
<1> HIDE DEF more
<1>3. QED  BY <1>1, <1>2 DEF Orders

\* The first leaves it.
LEMMA LeavesLine ==
  ASSUME NEW line, NEW S, NEW a, Orders(line, S), \A b \in S : <<b, a>> \notin line
  PROVE  Orders({pair \in line : pair[1] # a}, S \ {a})
<1> DEFINE less == {pair \in line : pair[1] # a}
<1>1. \A x, y : <<x, y>> \in less <=> <<x, y>> \in line /\ x # a
  OBVIOUS
<1>2. less \subseteq (S \ {a}) \X (S \ {a})
  <2> SUFFICES ASSUME NEW pair \in less
               PROVE  pair \in (S \ {a}) \X (S \ {a})
    OBVIOUS
  <2>1. PICK x \in S, y \in S : pair = <<x, y>>
    BY DEF Orders
  <2>2. x # a /\ y # a
    BY <2>1
  <2>3. QED  BY <2>1, <2>2
<1> HIDE DEF less
<1>3. QED  BY <1>1, <1>2 DEF Orders

\* The sweep of a claim keeps an order: at most one instruction has lost its
\* lease, and goes behind those that still wait.
LEMMA SweepsLine ==
  ASSUME TableInv, OneRunning, Orders(waiting, Queued)
  PROVE  Orders(Line, StillQueued)
<1>1. \A a \in StillQueued : a \in ActionIds /\ (Requeued(a) \/ a \in Queued)
  BY DEF StillQueued, Swept, Queued, Released, Lapsed, Requeued
<1>2. \A a, b \in StillQueued : Requeued(a) /\ Requeued(b) => a = b
  BY <1>1 DEF OneRunning, Requeued, Lapsed
<1>3. \A a \in ActionIds : Requeued(a) => a \notin Queued
  BY DEF Requeued, Lapsed, Queued
<1>4. \A a, b \in StillQueued : <<a, b>> \in Line <=> <<a, b>> \in waiting \/ (~Requeued(a) /\ Requeued(b))
  BY DEF Line
<1>5. Line \subseteq StillQueued \X StillQueued
  BY DEF Line
<1>6. \A a, b \in ActionIds : <<a, b>> \in waiting => a \in Queued /\ b \in Queued
  BY DEF Orders
<1>7. QED  BY <1>1, <1>2, <1>3, <1>4, <1>5, <1>6 DEF Orders

LineInv == Orders(waiting, Queued)

\* Nobody enters or leaves the line but by a save and a claim.
LEMMA LineKept ==
  ASSUME LineInv, waiting' = waiting,
         \A a \in ActionIds : actions'[a].status = "queued" <=> actions[a].status = "queued"
  PROVE  LineInv'
<1>1. Queued' = Queued
  BY DEF Queued
<1>2. QED  BY <1>1 DEF LineInv, Orders

\* A save puts its instruction at the end of the line.
LEMMA SaveLine ==
  ASSUME TableInv, ClientsInv, NothingAhead, LineInv, NEW r \in Requests, HandleSave(r)
  PROVE  LineInv'
<1>1. CASE AnswerKnown(r) \/ AnswerConflict(r) \/ AnswerFull(r)
  BY <1>1, LineKept DEF AnswerKnown, AnswerConflict, AnswerFull, queueVars
<1>2. CASE AnswerSaved(r)
  <2> DEFINE new == <<sent[r].page, sent[r].base + 1>>
  <2>1. sent[r] \in Composed
    BY DEF HandleSave, ClientsInv
  <2>2. /\ sent[r].page \in Pages /\ sent[r].base = Len(revisions[sent[r].page])
        /\ sent[r].base < MaxGen /\ sent[r].base \in Nat
    BY <1>2, <2>1 DEF AnswerSaved, Save, Open, Generation, Composed
  <2>3. new \in ActionIds /\ new[1] = sent[r].page /\ new[2] = sent[r].base + 1
    BY <2>2, ReviewAssumption DEF ActionIds
  <2>4. actions[new] = NoAction
    BY <2>2, <2>3 DEF NothingAhead
  <2>5. \/ actions' = [actions EXCEPT ![new] = NewAction("queued")] /\ waiting' = waiting \cup (Queued \X {new})
        \/ UNCHANGED <<actions, waiting>>
    BY <1>2 DEF AnswerSaved, Save
  <2> HIDE DEF new
  <2>6. CASE UNCHANGED <<actions, waiting>>
    BY <2>6, LineKept
  <2>7. CASE actions' = [actions EXCEPT ![new] = NewAction("queued")] /\ waiting' = waiting \cup (Queued \X {new})
    <3>1. Queued' = Queued \cup {new} /\ new \notin Queued
      BY <2>3, <2>4, <2>7 DEF Queued, NoAction, NewAction, TableInv
    <3>2. QED  BY <3>1, <2>7, JoinsLine DEF LineInv
  <2>8. QED  BY <2>5, <2>6, <2>7
<1>3. QED  BY <1>1, <1>2 DEF HandleSave

\* A claim sweeps the line and takes the first from it, if it takes one.
LEMMA ClaimLine ==
  ASSUME TableInv, OneRunning, LineInv
  PROVE  /\ ClaimNothing => LineInv'
         /\ \A a \in ActionIds : Claim(a) => LineInv'
<1>1. Orders(Line, StillQueued)
  BY SweepsLine DEF LineInv
<1>2. ASSUME ClaimNothing PROVE LineInv'
  <2>1. Queued' = StillQueued /\ waiting' = Line
    BY <1>2 DEF ClaimNothing, Queued, StillQueued
  <2>2. QED  BY <1>1, <2>1 DEF LineInv
<1>3. ASSUME NEW a \in ActionIds, Claim(a) PROVE LineInv'
  <2>1. waiting' = {pair \in Line : pair[1] # a} /\ \A b \in StillQueued : <<b, a>> \notin Line
    BY <1>3 DEF Claim, First
  <2>2. Queued' = StillQueued \ {a}
    BY <1>3 DEF Claim, Queued, StillQueued
  <2>3. QED  BY <1>1, <2>1, <2>2, LeavesLine DEF LineInv
<1>4. QED  BY <1>2, <1>3

\* Every step keeps the line.
LEMMA NextLine ==
  ASSUME IInv, LineInv, [Next]_vars
  PROVE  LineInv'
<1>1. TableInv /\ ClientsInv /\ OneRunning /\ NothingAhead
  BY DEF IInv, LedgerInv
<1>2. ASSUME UNCHANGED <<actions, waiting>>
      PROVE  LineInv'
  BY <1>2, LineKept
<1>3. ASSUME NEW w \in Workers, HandleClaim(w)
      PROVE  LineInv'
  BY <1>1, <1>3, ClaimLine DEF HandleClaim
<1>4. ASSUME NEW m \in wire, HandleFinish(m)
      PROVE  LineInv'
  <2> DEFINE a == <<m.page, m.gen>>
  <2>1. a \in ActionIds /\ a[1] = m.page /\ a[2] = m.gen
    BY <1>1 DEF ClientsInv, Job, ActionIds
  <2> HIDE DEF a
  <2>2. ASSUME NEW s \in Resolved, Return(a, m.token, s)
        PROVE  LineInv'
    <3>1. actions' = [actions EXCEPT ![a] = Released(@, s)] /\ waiting' = waiting /\ actions[a].status = "running"
      BY <2>2 DEF Return, Settle, HasLease
    <3>2. QED  BY <1>1, <2>1, <3>1, LineKept DEF Released, Resolved, TableInv
  <2>3. ASSUME Correct(a, m.token)
        PROVE  LineInv'
    <3> DEFINE next == <<a[1], a[2] + 1>>
    <3>1. /\ actions' = [actions EXCEPT ![a] = Released(@, "completed"), ![next] = NewAction("completed")]
          /\ waiting' = waiting /\ actions[a].status = "running" /\ a[2] = Len(revisions[a[1]])
      BY <2>3 DEF Correct, HasLease, Superseded, Generation
    <3>2. a[2] \in 1..MaxGen /\ a[1] \in Pages
      BY <2>1 DEF ActionIds
    <3>3. next \in ActionIds => actions[next] = NoAction
      BY <1>1, <3>1, <3>2, ReviewAssumption DEF NothingAhead
    <3> HIDE DEF next
    <3>4. ASSUME NEW b \in ActionIds
          PROVE  actions'[b].status = "queued" <=> actions[b].status = "queued"
      <4>1. CASE b = next
        BY <1>1, <3>1, <3>3, <4>1 DEF NoAction, NewAction, TableInv
      <4>2. CASE b # next /\ b = a
        BY <1>1, <3>1, <4>2 DEF Released, TableInv
      <4>3. CASE b # next /\ b # a
        BY <1>1, <3>1, <4>3 DEF TableInv
      <4>4. QED  BY <4>1, <4>2, <4>3
    <3>5. QED  BY <3>1, <3>4, LineKept
  <2>4. QED  BY <1>2, <1>4, <2>2, <2>3 DEF HandleFinish, queueVars, a
<1>5. ASSUME LeaseExpires
      PROVE  LineInv'
  <2>1. PICK a \in ActionIds : Expire(a)
    BY <1>5 DEF LeaseExpires
  <2>2. QED  BY <1>1, <2>1, LineKept DEF Expire, TableInv, Action
<1>6. ASSUME NEW p \in Pages, HandleReady(p)
      PROVE  LineInv'
  BY <1>2, <1>6 DEF HandleReady, Ready
<1>7. ASSUME NEW w \in Workers, SendFinish(w) \/ WorkerDies(w)
      PROVE  LineInv'
  BY <1>2, <1>7 DEF SendFinish, WorkerDies, queueVars
<1>8. ASSUME NEW m \in wire, LoseFinish(m)
      PROVE  LineInv'
  BY <1>2, <1>8 DEF LoseFinish, queueVars
<1>9. ASSUME NEW r \in Requests, NEW p \in Pages, NEW i \in BOOLEAN, NEW c \in BOOLEAN, Compose(r, p, i, c)
      PROVE  LineInv'
  BY <1>2, <1>9 DEF Compose, queueVars
<1>10. CASE UNCHANGED vars
  BY <1>2, <1>10 DEF vars, queueVars
<1>11. QED  BY <1>1, <1>3, <1>4, <1>5, <1>6, <1>7, <1>8, <1>9, <1>10, SaveLine DEF Next

(***************************************************************************)
(* The tables, the clients and the requests keep their types, and the      *)
(* queued instructions are ordered by updated_at (ORDER BY of claim).      *)
(***************************************************************************)
THEOREM TypeCorrect == Spec => []TypeOK
<1>1. Init => LineInv
  BY DEF Init, QueueInit, LineInv, Orders, Queued, NoAction, NewAction
<1>2. IInv /\ LineInv /\ [Next]_vars => LineInv'
  BY NextLine
<1>3. IInv /\ SavesInv /\ LineInv => TypeOK
  <2> SUFFICES ASSUME IInv, SavesInv, LineInv PROVE TypeOK
    OBVIOUS
  <2>1. TableInv /\ ClientsInv
    BY DEF IInv
  <2>2. \A p \in Pages : revisions[p] \in Seq(Revision) /\ Generation(p) <= MaxGen
    BY <2>1 DEF TableInv, Generation
  <2>3. QED  BY <2>1, <2>2 DEF TypeOK, TableInv, ClientsInv, Composed, SavesInv, LineInv
<1>4. QED  BY <1>1, <1>2, <1>3, SavesInvariance, PTL DEF Spec

-----------------------------------------------------------------------------

-----------------------------------------------------------------------------
(***************************************************************************)
(* However many instructions are saved, retried, requeued or left by dead  *)
(* workers, at most MaxActive of them are unresolved: enqueue is the only  *)
(* place that adds one, and it counts first.                               *)
(***************************************************************************)
QueueBounded ==
  IsFiniteSet(UnresolvedActions) /\ Cardinality(UnresolvedActions) <= MaxActive

\* Every step keeps the bound: an instruction enters the queue only below it.
LEMMA NextBounded ==
  ASSUME TableInv, NothingAhead, ClientsInv, QueueBounded, [Next]_vars
  PROVE  QueueBounded'
<1>1. Cardinality(UnresolvedActions) \in Nat /\ MaxActive \in Nat
  BY FS_CardinalityType, ReviewAssumption DEF QueueBounded
<1>2. ASSUME UnresolvedActions' \subseteq UnresolvedActions
      PROVE  QueueBounded'
  <2>1. /\ IsFiniteSet(UnresolvedActions')
        /\ Cardinality(UnresolvedActions') <= Cardinality(UnresolvedActions)
    BY <1>2, FS_Subset DEF QueueBounded
  <2>2. Cardinality(UnresolvedActions') \in Nat
    BY <2>1, FS_CardinalityType
  <2>3. QED  BY <2>1, <2>2, <1>1 DEF QueueBounded
<1>3. ASSUME NEW p, NEW e, Appends(p, e)
      PROVE  QueueBounded'
  <2> DEFINE new == <<p, Len(revisions[p]) + 1>>
  <2>1. CASE actions' = actions
    BY <1>2, <2>1 DEF UnresolvedActions
  <2>2. CASE ~Full(TRUE) /\ actions' = [actions EXCEPT ![new] = NewAction("queued")]
    <3>1. UnresolvedActions' \subseteq UnresolvedActions \cup {new}
      BY <2>2 DEF UnresolvedActions, TableInv
    <3>2. /\ IsFiniteSet(UnresolvedActions \cup {new})
          /\ Cardinality(UnresolvedActions \cup {new}) <= Cardinality(UnresolvedActions) + 1
          /\ Cardinality(UnresolvedActions \cup {new}) \in Nat
      <4>1. IsFiniteSet(UnresolvedActions)
        BY DEF QueueBounded
      <4>2. /\ IsFiniteSet(UnresolvedActions \cup {new})
            /\ Cardinality(UnresolvedActions \cup {new})
                 = IF new \in UnresolvedActions THEN Cardinality(UnresolvedActions)
                                                ELSE Cardinality(UnresolvedActions) + 1
        BY <4>1, FS_AddElement
      <4>3. QED  BY <4>2, <1>1
    <3>3. /\ IsFiniteSet(UnresolvedActions')
          /\ Cardinality(UnresolvedActions') <= Cardinality(UnresolvedActions \cup {new})
      BY <3>1, <3>2, FS_Subset
    <3>4. Cardinality(UnresolvedActions') \in Nat
      BY <3>3, FS_CardinalityType
    <3>5. Cardinality(UnresolvedActions) < MaxActive
      BY <2>2, <1>1 DEF Full
    <3>6. QED  BY <3>2, <3>3, <3>4, <3>5, <1>1 DEF QueueBounded
  <2>3. QED  BY <1>3, <2>1, <2>2 DEF Appends
<1>4. ASSUME NEW c, Corrects(c)
      PROVE  QueueBounded'
  <2>1. NewAction("completed").status \notin Unresolved /\ c \in ActionIds
    BY <1>4 DEF NewAction, Unresolved, Corrects
  <2>2. Released(actions[c], "completed").status \notin Unresolved
    BY DEF Released, Unresolved
  <2>3. ASSUME NEW a \in ActionIds, actions'[a].status \in Unresolved
        PROVE  actions'[a] = actions[a]
    BY <1>4, <2>1, <2>2, <2>3 DEF Corrects, TableInv
  <2>4. QED  BY <1>2, <2>3 DEF UnresolvedActions
<1>5. CASE Shuffles
  <2>1. \A a \in ActionIds : actions'[a] = actions[a] \/ actions[a].status \in Unresolved
    BY <1>5 DEF Shuffles
  <2>2. QED  BY <1>2, <2>1 DEF UnresolvedActions
<1>6. QED  BY <1>3, <1>4, <1>5, StepKinds

(***************************************************************************)
(* enqueue (beyond_basics_action_queue.py): the limit on unresolved        *)
(* instructions holds at all times, for any number of pages and authors.   *)
(***************************************************************************)
THEOREM QueueIsBounded == Spec => []QueueBounded
<1>1. Init => QueueBounded
  <2>1. ASSUME Init
        PROVE  UnresolvedActions = {}
    BY <2>1 DEF Init, QueueInit, UnresolvedActions, NoAction, NewAction, Unresolved
  <2>2. QED  BY <2>1, FS_EmptySet, ReviewAssumption DEF QueueBounded
<1>2. IInv /\ QueueBounded /\ [Next]_vars => QueueBounded'
  BY NextBounded DEF IInv, LedgerInv
<1>3. QED  BY <1>1, <1>2, Invariance, PTL DEF Spec

-----------------------------------------------------------------------------
(***************************************************************************)
(* The history of a page, and what appending a revision enters there.      *)
(***************************************************************************)
LEMMA HistoryType ==
  ASSUME TableInv, NEW p \in Pages
  PROVE  /\ History[p] \in Seq(Ledger!Kinds)
         /\ Len(History[p]) = Len(revisions[p])
         /\ \A g \in 1..Len(revisions[p]) : History[p][g] = Kind(revisions[p][g].author)
<1> DEFINE n == Len(revisions[p])
<1>1. n \in Nat
  BY DEF TableInv
<1>2. History[p] = [g \in 1..n |-> Kind(revisions[p][g].author)]
  BY DEF History, Generation
<1>3. \A g \in 1..n : Kind(revisions[p][g].author) \in Ledger!Kinds
  BY DEF Kind, Ledger!Kinds
<1>4. History[p] \in [1..n -> Ledger!Kinds]
  BY <1>2, <1>3
<1>5. History[p] \in Seq(Ledger!Kinds)
  BY <1>1, <1>4, SeqDef
<1>6. Len(History[p]) = n
  BY <1>1, <1>4, <1>5, LenProperties
<1>7. QED  BY <1>2, <1>5, <1>6

\* A page with one more revision has the history of the ledger with one more.
LEMMA HistoryAppend ==
  ASSUME TableInv, TableInv', NEW p \in Pages, NEW e \in Revision,
         revisions' = [revisions EXCEPT ![p] = Append(@, e)]
  PROVE  History' = [History EXCEPT ![p] = Append(@, Kind(e.author))]
<1> DEFINE n == Len(revisions[p])
           k == Kind(e.author)
<1>1. /\ n \in Nat
      /\ \A q \in Pages : Len(revisions'[q]) = IF q = p THEN n + 1 ELSE Len(revisions[q])
      /\ \A q \in Pages : \A g \in 1..Len(revisions[q]) : revisions'[q][g] = revisions[q][g]
      /\ revisions'[p][n + 1] = e
  BY AppendEffect DEF TableInv
<1>2. k \in Ledger!Kinds
  BY DEF Kind, Ledger!Kinds
<1>3. ASSUME NEW q \in Pages
      PROVE  /\ History'[q] \in Seq(Ledger!Kinds)
             /\ Len(History'[q]) = Len(revisions'[q])
             /\ \A g \in 1..Len(revisions'[q]) : History'[q][g] = Kind(revisions'[q][g].author)
  <2>1. \A g \in 1..Len(revisions'[q]) : Kind(revisions'[q][g].author) \in Ledger!Kinds
    BY DEF Kind, Ledger!Kinds
  <2>2. Len(revisions'[q]) \in Nat
    BY DEF TableInv
  <2>3. History'[q] = [g \in 1..Len(revisions'[q]) |-> Kind(revisions'[q][g].author)]
    BY DEF History, Generation
  <2>4. History'[q] \in [1..Len(revisions'[q]) -> Ledger!Kinds]
    BY <2>1, <2>3
  <2>5. History'[q] \in Seq(Ledger!Kinds)
    BY <2>2, <2>4, SeqDef
  <2>6. QED  BY <2>2, <2>3, <2>4, <2>5, LenProperties
<1>4. ASSUME NEW q \in Pages, q # p
      PROVE  History'[q] = History[q]
  <2>1. Len(History'[q]) = Len(History[q])
    BY <1>1, <1>3, <1>4, HistoryType
  <2>2. \A g \in 1..Len(History[q]) : History'[q][g] = History[q][g]
    BY <1>1, <1>3, <1>4, HistoryType
  <2>3. QED  BY <2>1, <2>2, <1>3, HistoryType, SeqEqual
<1>5. History'[p] = Append(History[p], k)
  <2>1. /\ Append(History[p], k) \in Seq(Ledger!Kinds)
        /\ Len(Append(History[p], k)) = n + 1
        /\ \A g \in 1..n : Append(History[p], k)[g] = History[p][g]
        /\ Append(History[p], k)[n + 1] = k
    BY <1>1, <1>2, HistoryType
  <2>2. Len(History'[p]) = n + 1
    BY <1>1, <1>3
  <2>3. ASSUME NEW g \in 1..(n + 1)
        PROVE  History'[p][g] = Append(History[p], k)[g]
    <3>1. CASE g \in 1..n
      BY <2>1, <1>1, <1>3, <3>1, HistoryType
    <3>2. CASE g = n + 1
      BY <2>1, <1>1, <1>3, <3>2
    <3>3. g \in 1..n \/ g = n + 1
      BY <1>1
    <3>4. QED  BY <3>1, <3>2, <3>3
  <2>4. QED  BY <2>1, <2>2, <2>3, <1>3, SeqEqual
<1> HIDE DEF k
<1>6. History = [q \in Pages |-> History[q]] /\ History' = [q \in Pages |-> History'[q]]
  BY DEF History
<1>7. QED  BY <1>4, <1>5, <1>6 DEF k

-----------------------------------------------------------------------------
(***************************************************************************)
(* The three kinds of step, one by one.                                    *)
(***************************************************************************)
LEMMA AppendsEnters ==
  ASSUME TableInv, TableInv', NothingAhead, NEW p, NEW e, Appends(p, e)
  PROVE  Ledger!Next
<1> DEFINE new == <<p, Len(revisions[p]) + 1>>
<1>1. /\ p \in Pages /\ e \in Revision /\ e.author # "worker"
      /\ e.ready <=> e.author = "ready"
      /\ Len(revisions[p]) < MaxGen /\ Len(revisions[p]) \in Nat
      /\ revisions' = [revisions EXCEPT ![p] = Append(@, e)]
  BY DEF Appends, TableInv
<1>2. History' = [History EXCEPT ![p] = Append(@, Kind(e.author))]
  BY <1>1, HistoryAppend
<1>3. Len(History[p]) = Len(revisions[p])
  BY <1>1, HistoryType
<1>4. CASE e.ready
  <2>1. Kind(e.author) = "ready"
    BY <1>1, <1>4 DEF Kind
  <2>2. actions' = actions /\ Len(revisions[p]) > 0
        /\ actions[<<p, Len(revisions[p])>>].status \in {"absent", "completed"}
    BY <1>4 DEF Appends
  <2>3. <<p, Len(History[p])>> \notin UnresolvedActions
    BY <2>2, <1>3 DEF UnresolvedActions, Unresolved
  <2>4. History[p] # <<>>
    BY <2>2, <1>1, <1>3
  <2>5. UnresolvedActions' = UnresolvedActions
    BY <2>2 DEF UnresolvedActions
  <2>6. Ledger!Ready(p)
    BY <1>2, <2>1, <2>3, <2>4, <2>5 DEF Ledger!Ready, Ledger!Enter
  <2>7. QED  BY <2>6, <1>1, <1>3 DEF Ledger!Next
<1>5. CASE ~e.ready
  <2>1. Kind(e.author) = "saved"
    BY <1>1, <1>5 DEF Kind
  <2>2. new \in ActionIds
    BY <1>1, ReviewAssumption DEF ActionIds
  <2>3. \/ actions' = actions
        \/ actions' = [actions EXCEPT ![new] = NewAction("queued")]
    BY DEF Appends
  <2>4. NewAction("queued").status \in Unresolved
    BY DEF NewAction, Unresolved
  <2>5. UnresolvedActions' \in {UnresolvedActions, UnresolvedActions \cup {new}}
    BY <2>2, <2>3, <2>4 DEF UnresolvedActions, TableInv
  <2>6. Ledger!Save(p)
    BY <1>2, <1>3, <2>1, <2>5 DEF Ledger!Save, Ledger!Enter
  <2>7. QED  BY <2>6, <1>1, <1>3 DEF Ledger!Next
<1>6. QED  BY <1>4, <1>5

\* A correction is a step of the ledger, in which one instruction is answered
\* and another may enter.
LEMMA CorrectsEnters ==
  ASSUME TableInv, TableInv', NothingAhead, NEW c, Corrects(c)
  PROVE  Ledger!Next
<1> DEFINE p == c[1]
           g == Len(revisions[p])
           new == <<p, g + 1>>
           e == Copy(revisions[p][c[2]], "worker", FALSE)
<1>1. /\ p \in Pages /\ g < MaxGen /\ g \in 1..MaxGen /\ c = <<p, g>> /\ c \in ActionIds
      /\ new \in ActionIds /\ new # c /\ actions[c].status = "running"
  BY ReviewAssumption DEF Corrects, ActionIds, TableInv
<1>2. revisions[p][c[2]] \in Revision
  BY <1>1 DEF TableInv
<1>3. e \in Revision /\ Kind(e.author) = "correction"
  BY <1>2 DEF Revision, Copy, Kind
<1>4. revisions' = [revisions EXCEPT ![p] = Append(@, e)]
  BY <1>1 DEF Corrects
<1> HIDE DEF e
<1>5. History' = [History EXCEPT ![p] = Append(@, "correction")]
  BY <1>1, <1>3, <1>4, HistoryAppend
<1>6. Len(History[p]) = g
  BY <1>1, HistoryType
<1>7. actions[new] = NoAction
  BY <1>1 DEF NothingAhead
<1>8. /\ actions'[c].status = "completed" /\ actions'[new].status = "completed"
      /\ \A a \in ActionIds : a # c /\ a # new => actions'[a] = actions[a]
  BY <1>1 DEF Corrects, TableInv, Released, NewAction
<1>9. UnresolvedActions' = UnresolvedActions \ {c} /\ c \in UnresolvedActions
  BY <1>1, <1>7, <1>8 DEF UnresolvedActions, Unresolved, NoAction, NewAction
<1>10. Ledger!Correct(p)
  BY <1>1, <1>5, <1>6, <1>9 DEF Ledger!Correct, Ledger!Enter
<1>11. QED  BY <1>1, <1>6, <1>10 DEF Ledger!Next

\* Steps that move instructions about are steps of the ledger that refuse the
\* ones that end, if any.
LEMMA ShufflesRefuse ==
  ASSUME TableInv, Shuffles
  PROVE  Ledger!Next
<1>1. History' = History
  BY DEF Shuffles, History, Generation
<1>2. UnresolvedActions' \subseteq UnresolvedActions
  BY DEF Shuffles, UnresolvedActions
<1>3. UnresolvedActions' = UnresolvedActions \ (UnresolvedActions \ UnresolvedActions')
  BY <1>2
<1>4. Ledger!Refuse
  BY <1>1, <1>3 DEF Ledger!Refuse
<1>5. QED  BY <1>4 DEF Ledger!Next

-----------------------------------------------------------------------------
(***************************************************************************)
(* app/beyond_basics_review_state.py and app/beyond_basics_action_queue.py *)
(* keep the promise of ReviewLedger: a history of entries is only          *)
(* appended to, an instruction is answered once, by a correction entered   *)
(* directly on the entry it corrects or by a refusal.                      *)
(***************************************************************************)
THEOREM LedgerRefinement == Spec => ImplementsLedger
<1>1. Init => Ledger!Init
  <2> SUFFICES ASSUME Init PROVE Ledger!Init
    OBVIOUS
  <2>1. \A p \in Pages : Generation(p) = 0
    BY DEF Init, QueueInit, Generation
  <2>2. \A p \in Pages : [g \in 1..Generation(p) |-> Kind(revisions[p][g].author)] = <<>>
    BY <2>1
  <2>3. History = [p \in Pages |-> <<>>]
    BY <2>2 DEF History
  <2>4. UnresolvedActions = {}
    BY DEF Init, QueueInit, UnresolvedActions, NoAction, NewAction, Unresolved
  <2>5. QED  BY <2>3, <2>4 DEF Ledger!Init
<1>2. IInv /\ IInv' /\ [Next]_vars => [Ledger!Next]_<<History, UnresolvedActions>>
  <2> SUFFICES ASSUME IInv, IInv', [Next]_vars
               PROVE  Ledger!Next
    OBVIOUS
  <2>1. TableInv /\ TableInv' /\ NothingAhead /\ ClientsInv
    BY DEF IInv, LedgerInv
  <2>2. QED  BY <2>1, StepKinds, AppendsEnters, CorrectsEnters, ShufflesRefuse
<1>3. QED  BY <1>1, <1>2, Invariance, PTL DEF Spec, ImplementsLedger, Ledger!Spec
-----------------------------------------------------------------------------
(* The rotation of the signing key (KeyRotation).                          *)

(***************************************************************************)
(* The ring only ever goes through three shapes: the old key alone, both   *)
(* keys, the successor alone.                                              *)
(***************************************************************************)
OldRing == {[id |-> "old", key |-> 1, expires |-> 30]}
OldRows == [id : {"old"}, key : {1}, expires : Int]
NextRows == [id : {"next"}, key : {2}, expires : Int]
Both(rows) == \E o, n \in rows : o \in OldRows /\ n \in NextRows /\ rows = {o, n}
Alone(rows) == \E n \in rows : n \in NextRows /\ rows = {n}

(***************************************************************************)
(* The places of a run by what it has read and done: it works on the old   *)
(* ring, on both keys, or on a ring from which the old key is gone.        *)
(***************************************************************************)
Early == {"prepare", "create", "shorten", "publish", "publishing", "store-published"}
Keyed == {"shorten", "publish", "publishing", "store-published"}
Selected == {"select-expiry", "store-bridge", "verify", "store-verified", "retire", "retiring"}
Middle == {"select"} \cup Selected
Final == {"deny", "store-denied", "delete", "store-retired"}

(***************************************************************************)
(* What the files and the ring say of each other.                          *)
(***************************************************************************)
FilesInv ==
  /\ journal \in Phases
  /\ pointer \in [id : Ids, expires : Int] /\ day \in Int
  /\ keychain \in [Ids -> 0..2]
  /\ keychain["next"] \in {0, 2}
  /\ keychain["old"] = 1 \/ Alone(ring)
  /\ ring = OldRing \/ Both(ring) \/ Alone(ring)
  /\ ring # OldRing => keychain["next"] = 2 /\ journal # "none"
  /\ Alone(ring) => pointer.id = "next"
  /\ pointer.id = "next" => ring # OldRing

(***************************************************************************)
(* What a run may rely on at each of its places.                           *)
(***************************************************************************)
RunInv ==
  /\ run.at \in {"asleep"} \cup Early \cup Middle \cup Final
  /\ run = [at |-> run.at, rows |-> run.rows, since |-> run.since, answer |-> run.answer]
  /\ run.since \in Int
  /\ At("prepare") => journal = "none" /\ ring = OldRing
  /\ run.at \in Early => run.rows = OldRing
  /\ run.at \in Keyed => keychain["next"] = 2
  /\ run.at \in Middle => Both(run.rows) /\ ring # OldRing
  /\ run.at \in Selected => pointer.id = "next"
  /\ run.at \in Final => Alone(ring)
  /\ ~At("asleep") /\ ~At("prepare") => journal # "none"
  /\ At("store-published") \/ run.answer = "ok" => ring # OldRing
  /\ At("retiring") /\ run.answer = "ok" => Alone(ring)
  /\ run.answer # "none" => run.at \in {"publishing", "retiring"}

(***************************************************************************)
(* Swaps only ever lead from one shape to the next, those of dead runs     *)
(* too, and a run waits for at most one of its own.                        *)
(***************************************************************************)
SwapInv(m) ==
  /\ journal # "none" /\ keychain["next"] = 2
  /\ \/ m.expected = OldRing /\ Both(m.rows) /\ (m.own => At("publishing"))
     \/ Both(m.expected) /\ Alone(m.rows) /\ pointer.id = "next" /\ (m.own => At("retiring"))
  /\ m.own => run.answer = "none"

SwapsInv ==
  /\ \A m \in swaps : m = [expected |-> m.expected, rows |-> m.rows, own |-> m.own] /\ m.own \in BOOLEAN
  /\ \A m \in swaps : SwapInv(m)
  /\ \A m, n \in swaps : m.own /\ n.own => m = n

KeysInv == FilesInv /\ RunInv /\ SwapsInv

(***************************************************************************)
(* When no swap outlives its run, a run knows the ring, and the journal    *)
(* knows how far the ring has come.                                        *)
(***************************************************************************)
Unswapped == {"prepare", "create", "shorten", "publish"}

KnownInv ==
  /\ \A m \in swaps : m.own
  /\ \A m \in swaps : At("publishing") => m.rows = Candidate
  /\ \A m \in swaps : At("retiring") => m.rows = {Row(run.rows, "next")}
  /\ run.at \in Unswapped => ring = OldRing
  /\ At("store-published") \/ (At("publishing") /\ run.answer = "ok") => ring = Candidate
  /\ run.at \in Middle => Row(run.rows, "next") \in ring
  /\ run.at \in Middle \ {"retiring"} => ring = run.rows

JournalInv ==
  /\ ring = OldRing => journal \in {"none", "prepared"}
  /\ Both(ring) => journal \in {"prepared", "ring-published", "bridge-selected", "successor-verified"}
  /\ Alone(ring) => journal \in {"successor-verified", "old-denied", "retired"}
  /\ run.at \in {"create", "shorten", "publish", "publishing", "store-published"} => journal = "prepared"
  /\ run.at \in {"retire", "retiring", "deny", "store-denied"} => journal = "successor-verified"
  /\ run.at \in {"delete", "store-retired"} => journal = "old-denied"

PromiseInv ==
  /\ ring = OldRing => pointer.expires <= 30
  /\ Both(ring) /\ pointer.id = "old" => \A r \in ring : pointer.expires <= r.expires
  /\ pointer.id = "next" => \A r \in ring : r.id = "next" => pointer.expires <= r.expires
  /\ run.at \in {"publish", "publishing"} => pointer.expires <= Shortened.expires

DaysInv == KnownInv /\ JournalInv /\ PromiseInv /\ Reconciles

-----------------------------------------------------------------------------
(***************************************************************************)
(* What the three shapes of the ring are made of.                          *)
(***************************************************************************)
LEMMA OldRingShape ==
  /\ Named(OldRing) = {"old"} /\ Cardinality(OldRing) = 1
  /\ Row(OldRing, "old") = [id |-> "old", key |-> 1, expires |-> 30]
  /\ ~Both(OldRing) /\ ~Alone(OldRing)
  /\ \A r \in OldRing : r \in OldRows
<1>1. \A r \in OldRing : r = [id |-> "old", key |-> 1, expires |-> 30] /\ r \in OldRows /\ r.id = "old"
  BY DEF OldRing, OldRows
<1>2. OldRing # {}
  BY DEF OldRing
<1>3. Named(OldRing) = {"old"}
  BY <1>1, <1>2 DEF Named
<1>4. Cardinality(OldRing) = 1
  BY FS_Singleton DEF OldRing
<1>5. Row(OldRing, "old") = [id |-> "old", key |-> 1, expires |-> 30]
  BY <1>1, <1>2 DEF Row
<1>6. \A n \in NextRows : n.id = "next"
  BY DEF NextRows
<1>7. QED  BY <1>1, <1>3, <1>4, <1>5, <1>6 DEF Both, Alone

\* Both keys: the old one and its successor, once each.
LEMMA BothShape ==
  ASSUME NEW rows, Both(rows)
  PROVE  /\ Named(rows) = Ids /\ Cardinality(rows) = 2
         /\ Row(rows, "old") \in OldRows /\ Row(rows, "next") \in NextRows
         /\ rows = {Row(rows, "old"), Row(rows, "next")}
         /\ ~Alone(rows) /\ rows # OldRing
<1>1. PICK o, n \in rows : o \in OldRows /\ n \in NextRows /\ rows = {o, n}
  BY DEF Both
<1>2. o.id = "old" /\ n.id = "next"
  BY <1>1 DEF OldRows, NextRows
<1>3. Row(rows, "old") = o /\ Row(rows, "next") = n
  BY <1>1, <1>2 DEF Row
<1>4. Named(rows) = Ids
  BY <1>1, <1>2 DEF Named, Ids
<1>5. Cardinality(rows) = 2
  <2>1. o \notin {n} /\ rows = {n} \cup {o}
    BY <1>1, <1>2
  <2>2. IsFiniteSet({n}) /\ Cardinality({n}) = 1
    BY FS_Singleton
  <2>3. QED  BY <2>1, <2>2, FS_AddElement
<1>6. ~Alone(rows)
  BY <1>1, <1>2 DEF Alone
<1>7. rows # OldRing
  BY <1>1, <1>2 DEF OldRing
<1>8. QED  BY <1>1, <1>3, <1>4, <1>5, <1>6, <1>7

\* The successor alone.
LEMMA AloneShape ==
  ASSUME NEW rows, Alone(rows)
  PROVE  /\ Named(rows) = {"next"} /\ Cardinality(rows) = 1
         /\ Row(rows, "next") \in NextRows
         /\ rows = {Row(rows, "next")}
         /\ ~Both(rows) /\ rows # OldRing
<1>1. PICK n \in rows : n \in NextRows /\ rows = {n}
  BY DEF Alone
<1>2. n.id = "next"
  BY <1>1 DEF NextRows
<1>3. Row(rows, "next") = n
  BY <1>1, <1>2 DEF Row
<1>4. Named(rows) = {"next"}
  BY <1>1, <1>2 DEF Named
<1>5. Cardinality(rows) = 1
  BY <1>1, FS_Singleton
<1>6. ~Both(rows) /\ rows # OldRing
  BY <1>1, <1>2, OldRingShape DEF Both, OldRows, OldRing
<1>7. QED  BY <1>1, <1>3, <1>4, <1>5, <1>6

(***************************************************************************)
(* What a rotation asks for: both keys, the old one no longer than before; *)
(* the successor alone.                                                    *)
(***************************************************************************)
LEMMA CandidateShape ==
  ASSUME run.rows = OldRing, run.since \in Int, keychain["next"] = 2
  PROVE  /\ Both(Candidate) /\ Shortened \in OldRows
         /\ Shortened.expires <= 30 /\ Shortened.expires <= run.since + 1
         /\ Row(Candidate, "next").expires = run.since + 30
         /\ Row(Candidate, "old") = Shortened
<1> DEFINE n == [id |-> "next", key |-> keychain["next"], expires |-> run.since + 30]
<1>1. /\ Shortened \in OldRows
      /\ Shortened.expires <= 30 /\ Shortened.expires <= run.since + 1
  BY OldRingShape DEF Shortened, Min2, OldRows
<1>2. n \in NextRows
  BY DEF NextRows
<1>3. Candidate = {Shortened, n}
  BY DEF Candidate
<1>4. Both(Candidate)
  BY <1>1, <1>2, <1>3 DEF Both
<1>5. Shortened.id = "old" /\ n.id = "next"
  BY <1>1 DEF OldRows
<1>6. Row(Candidate, "next") = n /\ Row(Candidate, "old") = Shortened
  BY <1>3, <1>5 DEF Row
<1>7. QED  BY <1>1, <1>4, <1>6

\* What is left of both when the old key is removed.
LEMMA SuccessorAlone ==
  ASSUME NEW rows, Both(rows)
  PROVE  Alone({Row(rows, "next")})
BY BothShape DEF Alone

-----------------------------------------------------------------------------
(***************************************************************************)
(* The steps of a run that only write files.                               *)
(***************************************************************************)
LEMMA Shapes ==
  \A rows :
    /\ Both(rows) => ~Alone(rows) /\ rows # OldRing
    /\ Alone(rows) => ~Both(rows) /\ rows # OldRing
BY BothShape, AloneShape

\* KeysInv holds before the first rotation.
LEMMA InitKeys == RotationInit => KeysInv
<1> SUFFICES ASSUME RotationInit PROVE KeysInv
  OBVIOUS
<1>1. ring = OldRing /\ ~Alone(ring) /\ ~Both(ring)
  BY OldRingShape DEF RotationInit, OldRing
<1>2. FilesInv
  BY <1>1 DEF RotationInit, FilesInv, Phases, Ids
<1>3. RunInv
  BY <1>1 DEF RotationInit, RunInv, Asleep, At, Early, Keyed, Middle, Selected, Final
<1>4. SwapsInv
  BY DEF RotationInit, SwapsInv
<1>5. QED  BY <1>2, <1>3, <1>4 DEF KeysInv

\* A run starts from what the journal says, or stops.
LEMMA BeginKeys ==
  ASSUME KeysInv, Begin PROVE KeysInv'
<1>1. CASE UNCHANGED run
  BY <1>1, Zenon DEF KeysInv, FilesInv, RunInv, SwapsInv, SwapInv, Begin, Remote, Local, At
<1>2. CASE run' = [at |-> Resumed(ring), rows |-> ring, since |-> day, answer |-> "none"]
           /\ pointer.id \in Named(ring) /\ Resumed(ring) # "refuse"
  <2>1. ring = OldRing \/ Both(ring) \/ Alone(ring)
    BY DEF KeysInv, FilesInv
  <2>2. FilesInv'
    BY <1>2 DEF KeysInv, FilesInv, Begin, Remote, Local
  <2>3. /\ run'.at = "prepare" => journal = "none" /\ ring = OldRing
        /\ run'.at = "create" => ring = OldRing /\ journal # "none"
        /\ run'.at = "select" => Both(ring) /\ journal # "none"
        /\ run'.at \in {"deny", "delete"} => Alone(ring) /\ journal # "none"
        /\ run'.at \in {"prepare", "create", "select", "deny", "delete"}
    <3>1. run'.at = Resumed(ring)
      BY <1>2
    <3>2. journal # "retired"
      BY DEF Begin
    <3>3. CASE ring = OldRing
      BY <1>2, <3>1, <3>2, <3>3, OldRingShape DEF Resumed
    <3>4. CASE Both(ring)
      BY <1>2, <3>1, <3>2, <3>4, BothShape DEF Resumed
    <3>5. CASE Alone(ring)
      BY <1>2, <3>1, <3>2, <3>5, AloneShape DEF Resumed, KeysInv, FilesInv
    <3>6. QED  BY <2>1, <3>3, <3>4, <3>5
  <2>4. RunInv'
    <3>1. UNCHANGED <<ring, journal, pointer, keychain>> /\ day \in Int
      BY DEF KeysInv, FilesInv, Begin, Remote, Local
    <3>2. /\ run'.rows = ring /\ run'.since = day /\ run'.answer = "none"
          /\ run' = [at |-> run'.at, rows |-> run'.rows, since |-> run'.since, answer |-> run'.answer]
      BY <1>2
    <3>3. QED
      BY <2>3, <3>1, <3>2, Shapes DEF RunInv, At, Early, Keyed, Middle, Selected, Final
  <2>5. SwapsInv'
    <3>1. UNCHANGED <<swaps, journal, pointer, keychain>>
      BY DEF Begin, Remote, Local
    <3>2. \A m \in swaps : ~m.own
      BY DEF KeysInv, SwapsInv, SwapInv, Begin, At
    <3>3. QED  BY <3>1, <3>2, Zenon DEF KeysInv, SwapsInv, SwapInv
  <2>6. QED  BY <2>2, <2>4, <2>5 DEF KeysInv
<1>3. QED  BY <1>1, <1>2 DEF Begin

\* The steps that write a file or the keychain keep KeysInv.
LEMMA FileKeys ==
  ASSUME KeysInv,
         StorePrepared \/ CreateKey \/ ShortenExpiry \/ Published \/ StorePublished \/ SelectKey
           \/ SelectExpiry \/ StoreBridge \/ VerifySuccessor \/ StoreVerified
           \/ Retired \/ DenyOld \/ StoreDenied \/ DeleteOld \/ StoreRetired \/ Fails \/ Tick
  PROVE KeysInv'
<1>1. CASE StorePrepared
  <2>1. FilesInv'
    BY <1>1 DEF KeysInv, FilesInv, StorePrepared, Store, Remote, Phases
  <2>2. RunInv'
    BY <1>1 DEF KeysInv, RunInv, StorePrepared, Store, At, Go, Early, Keyed, Middle, Selected, Final
  <2>3. SwapsInv'
    BY <1>1 DEF KeysInv, RunInv, SwapsInv, SwapInv, StorePrepared, Store, Remote
  <2>4. QED  BY <2>1, <2>2, <2>3 DEF KeysInv
<1>2. CASE CreateKey
  <2>1. FilesInv'
    BY <1>2 DEF KeysInv, FilesInv, CreateKey, Remote, Ids
  <2>2. RunInv'
    <3>1. keychain'["next"] = 2 /\ UNCHANGED <<ring, journal, pointer>> /\ run' = [run EXCEPT !.at = "shorten"]
      BY <1>2 DEF KeysInv, FilesInv, CreateKey, Remote, Go, Ids
    <3>2. QED  BY <1>2, <3>1 DEF KeysInv, RunInv, CreateKey, At, Early, Middle, Selected, Final
  <2>3. SwapsInv'
    BY <1>2 DEF KeysInv, SwapsInv, SwapInv, CreateKey, At, Remote
  <2>4. QED  BY <2>1, <2>2, <2>3 DEF KeysInv
<1>3. CASE ShortenExpiry
  <2>1. FilesInv'
    <3>1. Shortened.expires \in Int
      BY <1>3, CandidateShape DEF KeysInv, RunInv, ShortenExpiry, At, Early, Keyed, OldRows
    <3>2. pointer' \in [id : Ids, expires : Int] /\ pointer'.id = pointer.id
      BY <1>3, <3>1 DEF KeysInv, FilesInv, ShortenExpiry
    <3>3. QED  BY <1>3, <3>2 DEF KeysInv, FilesInv, ShortenExpiry, Remote
  <2>2. RunInv'
    BY <1>3 DEF KeysInv, RunInv, ShortenExpiry, At, Go, Early, Keyed, Middle, Selected, Final
  <2>3. SwapsInv'
    BY <1>3 DEF KeysInv, SwapsInv, SwapInv, ShortenExpiry, At, Remote
  <2>4. QED  BY <2>1, <2>2, <2>3 DEF KeysInv
<1>4. CASE Published
  <2>1. FilesInv'
    BY <1>4 DEF KeysInv, FilesInv, Published, Answered, Remote, Local
  <2>2. RunInv'
    <3>1. UNCHANGED <<ring, journal, pointer, keychain>>
      BY <1>4 DEF Published, Answered, Remote, Local
    <3>2. CASE run' = Asleep
      BY <1>4, <3>1, <3>2 DEF KeysInv, RunInv, Asleep, At, Early, Keyed, Middle, Selected, Final
    <3>3. CASE run.answer = "ok" /\ run' = [run EXCEPT !.at = "store-published", !.answer = "none"]
      BY <1>4, <3>1, <3>3 DEF KeysInv, RunInv, Published, Answered, At, Early, Keyed, Middle, Selected, Final
    <3>4. QED  BY <1>4, <3>2, <3>3 DEF Published, Answered, Raise
  <2>3. SwapsInv'
    BY <1>4 DEF KeysInv, SwapsInv, SwapInv, Published, Answered, Remote, Local
  <2>4. QED  BY <2>1, <2>2, <2>3 DEF KeysInv
<1>5. CASE StorePublished
  <2>1. FilesInv'
    BY <1>5 DEF KeysInv, FilesInv, StorePublished, Remote, Phases
  <2>2. RunInv'
    BY <1>5, CandidateShape
       DEF KeysInv, RunInv, StorePublished, At, Remote, Early, Keyed, Middle, Selected, Final
  <2>3. SwapsInv'
    BY <1>5 DEF KeysInv, SwapsInv, SwapInv, StorePublished, At, Remote
  <2>4. QED  BY <2>1, <2>2, <2>3 DEF KeysInv
<1>6. CASE SelectKey
  <2>1. FilesInv'
    BY <1>6 DEF KeysInv, FilesInv, RunInv, SelectKey, At, Remote, Early, Ids
  <2>2. RunInv'
    BY <1>6
       DEF KeysInv, FilesInv, RunInv, SelectKey, At, Go, Raise, Asleep, Remote, Early, Middle, Selected, Final
  <2>3. SwapsInv'
    BY <1>6 DEF KeysInv, FilesInv, SwapsInv, SwapInv, SelectKey, At, Remote
  <2>4. QED  BY <2>1, <2>2, <2>3 DEF KeysInv
<1>7. CASE SelectExpiry
  <2>1. FilesInv'
    <3>1. Row(run.rows, "next").expires \in Int
      BY <1>7, BothShape DEF KeysInv, RunInv, SelectExpiry, At, Middle, Selected, NextRows
    <3>2. pointer' \in [id : Ids, expires : Int] /\ pointer'.id = pointer.id
      BY <1>7, <3>1 DEF KeysInv, FilesInv, SelectExpiry
    <3>3. QED  BY <1>7, <3>2 DEF KeysInv, FilesInv, SelectExpiry, Remote
  <2>2. RunInv'
    BY <1>7 DEF KeysInv, RunInv, SelectExpiry, At, Go, Remote, Early, Keyed, Middle, Selected, Final
  <2>3. SwapsInv'
    BY <1>7 DEF KeysInv, SwapsInv, SwapInv, SelectExpiry, At, Remote
  <2>4. QED  BY <2>1, <2>2, <2>3 DEF KeysInv
<1>8. CASE StoreBridge
  <2>1. FilesInv'
    BY <1>8 DEF KeysInv, FilesInv, StoreBridge, Store, Remote, Phases
  <2>2. RunInv'
    BY <1>8 DEF KeysInv, RunInv, StoreBridge, Store, At, Go, Remote, Early, Keyed, Middle, Selected, Final
  <2>3. SwapsInv'
    BY <1>8 DEF KeysInv, SwapsInv, SwapInv, StoreBridge, Store, At, Remote
  <2>4. QED  BY <2>1, <2>2, <2>3 DEF KeysInv
<1>9. CASE VerifySuccessor
  <2>1. FilesInv'
    BY <1>9 DEF KeysInv, FilesInv, VerifySuccessor, Remote, Local
  <2>2. RunInv'
    BY <1>9
       DEF KeysInv, RunInv, VerifySuccessor, At, Go, Raise, Asleep, Remote, Local, Early, Keyed, Middle, Selected, Final
  <2>3. SwapsInv'
    BY <1>9 DEF KeysInv, SwapsInv, SwapInv, VerifySuccessor, At, Remote, Local
  <2>4. QED  BY <2>1, <2>2, <2>3 DEF KeysInv
<1>10. CASE StoreVerified
  <2>1. FilesInv'
    BY <1>10 DEF KeysInv, FilesInv, StoreVerified, Store, Remote, Phases
  <2>2. RunInv'
    BY <1>10 DEF KeysInv, RunInv, StoreVerified, Store, At, Go, Remote, Early, Keyed, Middle, Selected, Final
  <2>3. SwapsInv'
    BY <1>10 DEF KeysInv, SwapsInv, SwapInv, StoreVerified, Store, At, Remote
  <2>4. QED  BY <2>1, <2>2, <2>3 DEF KeysInv
<1>11. CASE Retired
  <2>1. FilesInv'
    BY <1>11 DEF KeysInv, FilesInv, Retired, Answered, Remote, Local
  <2>2. RunInv'
    <3>1. UNCHANGED <<ring, journal, pointer, keychain>>
      BY <1>11 DEF Retired, Answered, Remote, Local
    <3>2. CASE run' = Asleep
      BY <1>11, <3>1, <3>2 DEF KeysInv, RunInv, Asleep, At, Early, Keyed, Middle, Selected, Final
    <3>3. CASE run.answer = "ok" /\ run' = [run EXCEPT !.at = "deny", !.answer = "none"]
      BY <1>11, <3>1, <3>3 DEF KeysInv, RunInv, Retired, Answered, At, Early, Keyed, Middle, Final
    <3>4. QED  BY <1>11, <3>2, <3>3 DEF Retired, Answered, Raise
  <2>3. SwapsInv'
    BY <1>11 DEF KeysInv, SwapsInv, SwapInv, Retired, Answered, Remote, Local
  <2>4. QED  BY <2>1, <2>2, <2>3 DEF KeysInv
<1>12. CASE DenyOld
  <2>1. FilesInv'
    BY <1>12 DEF KeysInv, FilesInv, DenyOld, Remote, Local
  <2>2. RunInv'
    BY <1>12
       DEF KeysInv, RunInv, DenyOld, At, Go, Raise, Asleep, Remote, Local, Early, Keyed, Middle, Selected, Final
  <2>3. SwapsInv'
    BY <1>12 DEF KeysInv, SwapsInv, SwapInv, DenyOld, At, Remote, Local
  <2>4. QED  BY <2>1, <2>2, <2>3 DEF KeysInv
<1>13. CASE StoreDenied
  <2>1. FilesInv'
    BY <1>13 DEF KeysInv, FilesInv, StoreDenied, Store, Remote, Phases
  <2>2. RunInv'
    BY <1>13 DEF KeysInv, RunInv, StoreDenied, Store, At, Go, Remote, Early, Keyed, Middle, Selected, Final
  <2>3. SwapsInv'
    BY <1>13 DEF KeysInv, SwapsInv, SwapInv, StoreDenied, Store, At, Remote
  <2>4. QED  BY <2>1, <2>2, <2>3 DEF KeysInv
<1>14. CASE DeleteOld
  <2>1. FilesInv'
    BY <1>14 DEF KeysInv, FilesInv, RunInv, DeleteOld, At, Remote, Final, Ids
  <2>2. RunInv'
    BY <1>14 DEF KeysInv, RunInv, DeleteOld, At, Go, Remote, Early, Keyed, Middle, Selected, Final
  <2>3. SwapsInv'
    BY <1>14 DEF KeysInv, SwapsInv, SwapInv, DeleteOld, At, Remote
  <2>4. QED  BY <2>1, <2>2, <2>3 DEF KeysInv
<1>15. CASE StoreRetired
  <2>1. FilesInv'
    BY <1>15 DEF KeysInv, FilesInv, StoreRetired, Store, Remote, Phases
  <2>2. RunInv'
    BY <1>15 DEF KeysInv, RunInv, StoreRetired, Store, At, Go, Early, Keyed, Middle, Selected, Final
  <2>3. SwapsInv'
    BY <1>15 DEF KeysInv, SwapsInv, SwapInv, StoreRetired, Store, At, Remote
  <2>4. QED  BY <2>1, <2>2, <2>3 DEF KeysInv
<1>16. CASE Fails
  <2>1. FilesInv'
    BY <1>16 DEF KeysInv, FilesInv, Fails, May, Remote, Local
  <2>2. RunInv'
    BY <1>16 DEF KeysInv, RunInv, Fails, May, At, Raise, Asleep, Early, Keyed, Middle, Selected, Final
  <2>3. SwapsInv'
    BY <1>16 DEF KeysInv, SwapsInv, SwapInv, Fails, May, At, Remote, Local
  <2>4. QED  BY <2>1, <2>2, <2>3 DEF KeysInv
<1>17. CASE Tick
  <2>1. FilesInv'
    BY <1>17 DEF KeysInv, FilesInv, Tick, Local
  <2>2. RunInv'
    BY <1>17 DEF KeysInv, RunInv, Tick, At, Local
  <2>3. SwapsInv'
    BY <1>17 DEF KeysInv, SwapsInv, SwapInv, Tick, At, Local
  <2>4. QED  BY <2>1, <2>2, <2>3 DEF KeysInv
<1>18. QED  BY <1>1, <1>2, <1>3, <1>4, <1>5, <1>6, <1>7, <1>8, <1>9, <1>10, <1>11, <1>12, <1>13, <1>14,
               <1>15, <1>16, <1>17

-----------------------------------------------------------------------------
(***************************************************************************)
(* The steps that send a swap, and what becomes of swaps.                  *)
(***************************************************************************)
LEMMA PublishKeys ==
  ASSUME KeysInv, Publish PROVE KeysInv'
<1>0. PICK asked : asked = [expected |-> run.rows, rows |-> Candidate, own |-> TRUE]
  OBVIOUS
<1>1. /\ run.at = "publish" /\ run.rows = OldRing /\ run.since \in Int /\ keychain["next"] = 2
      /\ journal # "none" /\ run' = [run EXCEPT !.at = "publishing"] /\ swaps' = swaps \cup {asked}
      /\ UNCHANGED <<ring, day, keychain, journal, pointer>>
  BY <1>0 DEF KeysInv, RunInv, Publish, Cas, At, Go, Local, Early, Keyed
<1>2. Both(Candidate)
  BY <1>1, CandidateShape
<1>3. FilesInv'
  BY <1>1 DEF KeysInv, FilesInv
<1>4. RunInv'
  BY <1>1 DEF KeysInv, RunInv, At, Early, Keyed, Middle, Selected, Final
<1>5. SwapsInv'
  <2>1. \A m \in swaps : SwapInv(m) /\ ~m.own
    BY <1>1 DEF KeysInv, SwapsInv, SwapInv, At
  <2>2. \A m \in swaps : SwapInv(m)'
    BY <1>1, <2>1 DEF SwapInv
  <2>3. asked = [expected |-> asked.expected, rows |-> asked.rows, own |-> asked.own] /\ asked.own = TRUE
        /\ asked.expected = OldRing /\ asked.rows = Candidate
    BY <1>0, <1>1
  <2>4. run'.answer = "none" /\ run'.at = "publishing"
    BY <1>1 DEF KeysInv, RunInv
  <2>5. SwapInv(asked)'
    BY <1>1, <1>2, <2>3, <2>4 DEF SwapInv, At
  <2>6. QED  BY <1>1, <2>1, <2>2, <2>3, <2>5 DEF KeysInv, SwapsInv
<1>6. QED  BY <1>3, <1>4, <1>5 DEF KeysInv

\* The old key is asked to leave a ring that has the successor, which is the one
\* that is pointed at.
LEMMA RetireKeys ==
  ASSUME KeysInv, RetireOld PROVE KeysInv'
<1>0. PICK asked : asked = [expected |-> ring, rows |-> {Row(run.rows, "next")}, own |-> TRUE]
  OBVIOUS
<1>1. CASE UNCHANGED swaps /\ run' = Asleep
  <2>1. FilesInv'
    BY <1>1 DEF KeysInv, FilesInv, RetireOld, Local
  <2>2. RunInv'
    BY <1>1 DEF KeysInv, RunInv, Asleep, RetireOld, At, Early, Keyed, Middle, Selected, Final
  <2>3. SwapsInv'
    BY <1>1 DEF KeysInv, SwapsInv, SwapInv, Asleep, RetireOld, Local, At
  <2>4. QED  BY <2>1, <2>2, <2>3 DEF KeysInv
<1>2. CASE Named(ring) = Ids /\ swaps' = swaps \cup {asked} /\ run' = [run EXCEPT !.at = "retiring"]
  <2>1. /\ run.at = "retire" /\ Both(run.rows) /\ keychain["next"] = 2 /\ pointer.id = "next"
        /\ journal # "none" /\ run.answer = "none"
        /\ UNCHANGED <<ring, day, keychain, journal, pointer>>
    BY DEF KeysInv, FilesInv, RunInv, RetireOld, At, Local, Middle, Selected
  <2>2. Both(ring)
    BY <1>2, OldRingShape, AloneShape DEF KeysInv, FilesInv, Ids
  <2>3. Alone({Row(run.rows, "next")})
    BY <2>1, SuccessorAlone
  <2>4. FilesInv'
    BY <2>1 DEF KeysInv, FilesInv
  <2>5. RunInv'
    BY <1>2, <2>1 DEF KeysInv, RunInv, At, Early, Keyed, Middle, Selected, Final
  <2>6. SwapsInv'
    <3>1. /\ asked = [expected |-> asked.expected, rows |-> asked.rows, own |-> asked.own] /\ asked.own = TRUE
          /\ asked.expected = ring /\ Alone(asked.rows)
      BY <1>0, <2>3
    <3>2. \A m \in swaps : SwapInv(m) /\ ~m.own
      BY <2>1 DEF KeysInv, SwapsInv, SwapInv, At
    <3>3. \A m \in swaps : SwapInv(m)'
      BY <2>1, <3>2 DEF SwapInv
    <3>4. run'.answer = "none" /\ run'.at = "retiring"
      BY <1>2, <2>1 DEF KeysInv, RunInv
    <3>5. SwapInv(asked)'
      BY <2>1, <2>2, <3>1, <3>4 DEF SwapInv, At
    <3>6. QED  BY <1>2, <3>1, <3>2, <3>3, <3>5 DEF KeysInv, SwapsInv
  <2>7. QED  BY <2>4, <2>5, <2>6 DEF KeysInv
<1>3. QED  BY <1>0, <1>1, <1>2 DEF RetireOld, Raise, Go

(***************************************************************************)
(* A swap that arrives leads the ring on to its next shape or is refused,  *)
(* and the run that waits for it is told which.                            *)
(***************************************************************************)
LEMMA ArrivalKeys ==
  ASSUME KeysInv, NEW m \in swaps, SwapArrives(m) PROVE KeysInv'
<1>1. /\ swaps' = swaps \ {m} /\ UNCHANGED <<day, keychain, journal, pointer>>
      /\ ring' = IF ring = m.expected THEN m.rows ELSE ring
      /\ run' = IF m.own THEN [run EXCEPT !.answer = IF ring = m.expected THEN "ok" ELSE "refused"] ELSE run
  BY DEF SwapArrives, Swap, Local
<1>2. SwapInv(m) /\ m.own \in BOOLEAN
  BY DEF KeysInv, SwapsInv
<1>3. ring = m.expected =>
        /\ ~Alone(ring) /\ ring' # OldRing
        /\ \/ ring = OldRing /\ Both(ring') /\ (m.own => At("publishing"))
           \/ Both(ring) /\ Alone(ring') /\ pointer.id = "next" /\ (m.own => At("retiring"))
  BY <1>1, <1>2, Shapes, OldRingShape DEF SwapInv
<1>4. keychain["next"] = 2 /\ journal # "none"
  BY <1>2 DEF SwapInv
<1>5. FilesInv'
  BY <1>1, <1>3, <1>4, Shapes DEF KeysInv, FilesInv
<1>6. RunInv'
  <2>1. /\ run'.at = run.at /\ run'.rows = run.rows /\ run'.since = run.since
        /\ run' = [at |-> run'.at, rows |-> run'.rows, since |-> run'.since, answer |-> run'.answer]
        /\ run'.answer = IF m.own THEN IF ring = m.expected THEN "ok" ELSE "refused" ELSE run.answer
    BY <1>1 DEF KeysInv, RunInv
  <2>2. m.own => run.at \in {"publishing", "retiring"}
    BY <1>2 DEF SwapInv, At
  <2>3. ring # OldRing => ring' # OldRing
    BY <1>1, <1>3
  <2>4. Alone(ring) => Alone(ring')
    BY <1>1, <1>3
  <2>5. run'.answer = "ok" => ring' # OldRing
    BY <1>3, <2>1, <2>3 DEF KeysInv, RunInv
  <2>6. At("retiring") /\ run'.answer = "ok" => Alone(ring')
    BY <1>3, <2>1, <2>4 DEF KeysInv, RunInv, At
  <2>7. ~At("prepare")
    BY <1>4 DEF KeysInv, RunInv
  <2>8. QED
    BY <1>1, <2>1, <2>2, <2>3, <2>4, <2>5, <2>6, <2>7
    DEF KeysInv, RunInv, At, Early, Keyed, Middle, Selected, Final
<1>7. SwapsInv'
  <2>1. \A n \in swaps' : SwapInv(n)'
    <3>1. SUFFICES ASSUME NEW n \in swaps, n # m PROVE SwapInv(n)'
      BY <1>1
    <3>2. SwapInv(n) /\ run'.at = run.at
      BY <1>1 DEF KeysInv, SwapsInv, RunInv
    <3>3. n.own => ~m.own
      BY <3>1 DEF KeysInv, SwapsInv
    <3>4. n.own => run' = run
      BY <1>1, <1>2, <3>3
    <3>5. QED  BY <1>1, <3>2, <3>4 DEF SwapInv, At
  <2>2. QED  BY <1>1, <2>1 DEF KeysInv, SwapsInv
<1>8. QED  BY <1>5, <1>6, <1>7 DEF KeysInv

(***************************************************************************)
(* Swaps are lost, and a run dies: what it has sent may live on.           *)
(***************************************************************************)
LEMMA LossKeys ==
  ASSUME KeysInv, NEW m \in swaps, SwapLost(m) PROVE KeysInv'
<1>1. swaps' = swaps \ {m} /\ UNCHANGED <<ring, day, run, keychain, journal, pointer>>
  BY DEF SwapLost, Local
<1>2. FilesInv' /\ RunInv'
  BY <1>1 DEF KeysInv, FilesInv, RunInv, At
<1>3. SwapsInv'
  BY <1>1 DEF KeysInv, SwapsInv, SwapInv, At
<1>4. QED  BY <1>2, <1>3 DEF KeysInv

\* A run that dies leaves its swap, and no more, behind.
LEMMA CrashKeys ==
  ASSUME KeysInv, Crash PROVE KeysInv'
<1>1. run' = Asleep /\ swaps' = Orphans /\ UNCHANGED <<ring, day, keychain, journal, pointer>>
  BY DEF Crash, Raise, Local
<1>2. FilesInv'
  BY <1>1 DEF KeysInv, FilesInv
<1>3. RunInv'
  BY <1>1 DEF KeysInv, RunInv, Asleep, At, Early, Keyed, Middle, Selected, Final
<1>4. SwapsInv'
  <2>1. ASSUME NEW n \in swaps'
        PROVE  /\ n = [expected |-> n.expected, rows |-> n.rows, own |-> n.own] /\ n.own = FALSE
               /\ SwapInv(n)'
    <3>1. PICK m \in swaps : n = [m EXCEPT !.own = FALSE]
      BY <1>1, <2>1 DEF Orphans
    <3>2. m = [expected |-> m.expected, rows |-> m.rows, own |-> m.own] /\ SwapInv(m)
      BY DEF KeysInv, SwapsInv
    <3>3. n = [expected |-> m.expected, rows |-> m.rows, own |-> FALSE]
      BY <3>1, <3>2
    <3>4. QED  BY <1>1, <3>2, <3>3 DEF SwapInv
  <2>2. QED  BY <2>1 DEF SwapsInv
<1>5. QED  BY <1>2, <1>3, <1>4 DEF KeysInv

(***************************************************************************)
(* The inductive invariant: the shapes of the ring, what runs know, and    *)
(* what swaps may still do are preserved by every step, for any bounds.    *)
(***************************************************************************)
THEOREM KeysInvariance == RotationSpec => []KeysInv
<1>1. ASSUME KeysInv, [RotationNext]_rotationVars PROVE KeysInv'
  <2>1. CASE UNCHANGED rotationVars
    BY <2>1, <1>1 DEF rotationVars, KeysInv, FilesInv, RunInv, SwapsInv, SwapInv, At
  <2>2. CASE RunStep
    BY <1>1, <2>2, BeginKeys, FileKeys, PublishKeys, RetireKeys DEF RunStep
  <2>3. CASE ServerStep
    BY <1>1, <2>3, ArrivalKeys DEF ServerStep
  <2>4. CASE \E m \in swaps : SwapLost(m)
    BY <1>1, <2>4, LossKeys
  <2>5. CASE Fails \/ Tick
    BY <1>1, <2>5, FileKeys
  <2>6. CASE Crash
    BY <1>1, <2>6, CrashKeys
  <2>7. QED  BY <1>1, <2>1, <2>2, <2>3, <2>4, <2>5, <2>6 DEF RotationNext
<1>2. QED  BY InitKeys, <1>1, PTL DEF RotationSpec

-----------------------------------------------------------------------------
(***************************************************************************)
(* Wherever runs die and whenever their swaps arrive, the files have their *)
(* types and a ring has one or two keys.                                   *)
(***************************************************************************)
THEOREM RotationTypes == RotationSpec => []RotationTypeOK
<1>1. KeysInv => RotationTypeOK
  BY OldRingShape, BothShape, AloneShape DEF KeysInv, FilesInv, RotationTypeOK, Ids
<1>2. QED  BY <1>1, KeysInvariance, PTL

(***************************************************************************)
(* The worker is never left without a key the ring has: the key that is    *)
(* pointed at is in the ring, and its secret in the keychain.              *)
(***************************************************************************)
THEOREM NeverWithoutKey == RotationSpec => []PointerAccepted
<1>1. KeysInv => PointerAccepted
  <2> SUFFICES ASSUME KeysInv PROVE PointerAccepted
    OBVIOUS
  <2>1. CASE ring = OldRing
    BY <2>1, OldRingShape DEF KeysInv, FilesInv, PointerAccepted, OldRing, Ids
  <2>2. CASE Both(ring)
    <3>1. /\ Row(ring, "old") \in ring /\ Row(ring, "old").id = "old" /\ Row(ring, "old").key = 1
          /\ Row(ring, "next") \in ring /\ Row(ring, "next").id = "next" /\ Row(ring, "next").key = 2
      BY <2>2, BothShape DEF OldRows, NextRows
    <3>2. keychain["next"] = 2 /\ keychain["old"] = 1 /\ pointer.id \in Ids
      BY <2>2, Shapes DEF KeysInv, FilesInv
    <3>3. QED  BY <3>1, <3>2 DEF PointerAccepted, Ids
  <2>3. CASE Alone(ring)
    <3>1. Row(ring, "next") \in ring /\ Row(ring, "next").id = "next" /\ Row(ring, "next").key = 2
      BY <2>3, AloneShape DEF NextRows
    <3>2. keychain["next"] = 2 /\ pointer.id = "next"
      BY <2>3, Shapes DEF KeysInv, FilesInv
    <3>3. QED  BY <3>1, <3>2 DEF PointerAccepted
  <2>4. QED  BY <2>1, <2>2, <2>3 DEF KeysInv, FilesInv
<1>2. QED  BY <1>1, KeysInvariance, PTL

(***************************************************************************)
(* No secret is deleted while the ring accepts it, and no retired key      *)
(* comes back, late swaps of dead runs included.                           *)
(***************************************************************************)
THEOREM NoSecretLost == RotationSpec => []SecretsKept
<1>1. KeysInv => SecretsKept
  <2> SUFFICES ASSUME KeysInv PROVE SecretsKept
    OBVIOUS
  <2>1. CASE ring = OldRing
    BY <2>1, OldRingShape DEF KeysInv, FilesInv, SecretsKept, OldRing
  <2>2. CASE Both(ring)
    BY <2>2, BothShape, Shapes DEF KeysInv, FilesInv, SecretsKept, OldRows, NextRows
  <2>3. CASE Alone(ring)
    BY <2>3, AloneShape, Shapes DEF KeysInv, FilesInv, SecretsKept, NextRows
  <2>4. QED  BY <2>1, <2>2, <2>3 DEF KeysInv, FilesInv
<1>2. QED  BY <1>1, KeysInvariance, PTL

-----------------------------------------------------------------------------
(***************************************************************************)
(* From here on no swap outlives its run.                                  *)
(***************************************************************************)
LEMMA InitDays == RotationInit => DaysInv
<1> SUFFICES ASSUME RotationInit PROVE DaysInv
  OBVIOUS
<1>1. ring = OldRing /\ ~Alone(ring) /\ ~Both(ring) /\ run.at = "asleep" /\ swaps = {}
      /\ journal = "none" /\ pointer = [id |-> "old", expires |-> 30] /\ ~refused
  BY OldRingShape DEF RotationInit, OldRing, Asleep
<1>2. KnownInv
  BY <1>1 DEF KnownInv, At, Unswapped, Middle, Selected
<1>3. JournalInv /\ PromiseInv
  BY <1>1 DEF JournalInv, PromiseInv
<1>4. QED  BY <1>1, <1>2, <1>3 DEF DaysInv, Reconciles

\* The steps that write a file or the keychain keep DaysInv.
LEMMA FileDays ==
  ASSUME KeysInv, KeysInv', DaysInv,
         StorePrepared \/ CreateKey \/ ShortenExpiry \/ Published \/ StorePublished \/ SelectKey
           \/ SelectExpiry \/ StoreBridge \/ VerifySuccessor \/ StoreVerified
           \/ Retired \/ DenyOld \/ StoreDenied \/ DeleteOld \/ StoreRetired \/ Fails \/ Tick
  PROVE DaysInv'
<1>1. CASE StorePrepared
  <2>1. KnownInv'
    BY <1>1 DEF KeysInv, DaysInv, KnownInv, StorePrepared, Store, At, Go, Remote, Unswapped, Middle, Selected
  <2>2. JournalInv'
    BY <1>1 DEF KeysInv, FilesInv, RunInv, DaysInv, JournalInv, StorePrepared, Store, Go
  <2>3. PromiseInv'
    BY <1>1 DEF KeysInv, DaysInv, PromiseInv, StorePrepared, Store, Go, Remote
  <2>4. QED  BY <1>1, <2>1, <2>2, <2>3 DEF DaysInv, Reconciles, StorePrepared, Store
<1>2. CASE CreateKey
  <2>1. KnownInv'
    BY <1>2 DEF KeysInv, DaysInv, KnownInv, CreateKey, At, Go, Remote, Unswapped, Middle, Selected
  <2>2. JournalInv'
    BY <1>2 DEF KeysInv, DaysInv, JournalInv, CreateKey, At, Go, Remote
  <2>3. PromiseInv'
    BY <1>2 DEF KeysInv, DaysInv, PromiseInv, CreateKey, Go, Remote
  <2>4. QED  BY <1>2, <2>1, <2>2, <2>3 DEF DaysInv, Reconciles, CreateKey
<1>3. CASE ShortenExpiry
  <2>1. KnownInv'
    BY <1>3 DEF KeysInv, DaysInv, KnownInv, ShortenExpiry, At, Go, Remote, Unswapped, Middle, Selected
  <2>2. JournalInv'
    BY <1>3 DEF KeysInv, DaysInv, JournalInv, ShortenExpiry, At, Go, Remote
  <2>3. PromiseInv'
    <3>1. /\ run.at = "shorten" /\ ring = OldRing /\ pointer.id = "old" /\ ring' = ring
          /\ run.rows = OldRing /\ run.since \in Int /\ keychain["next"] = 2
      BY <1>3 DEF KeysInv, FilesInv, RunInv, DaysInv, KnownInv, ShortenExpiry, At, Remote, Keyed, Unswapped, Ids
    <3>2. Shortened.expires \in Int /\ Shortened.expires <= 30
      BY <3>1, CandidateShape DEF OldRows
    <3>3. pointer'.id = "old" /\ pointer'.expires = Shortened.expires
      BY <1>3, <3>1 DEF KeysInv, FilesInv, ShortenExpiry
    <3>4. Shortened' = Shortened
      BY <1>3 DEF KeysInv, RunInv, ShortenExpiry, Go, Shortened
    <3>5. QED  BY <3>1, <3>2, <3>3, <3>4, OldRingShape DEF PromiseInv
  <2>4. QED  BY <1>3, <2>1, <2>2, <2>3 DEF DaysInv, Reconciles, ShortenExpiry
<1>4. CASE Published
  <2>0. /\ UNCHANGED <<ring, swaps, keychain, journal, pointer>> /\ run.at = "publishing"
        /\ \/ run' = Asleep
           \/ /\ run.answer = "ok" /\ run'.at = "store-published" /\ run'.answer = "none"
              /\ run'.rows = run.rows /\ run'.since = run.since
    BY <1>4 DEF KeysInv, RunInv, Published, Answered, Remote, Local, Raise, At
  <2>1. KnownInv'
    BY <2>0 DEF DaysInv, KnownInv, Candidate, Shortened, Asleep, At, Unswapped, Middle, Selected
  <2>2. JournalInv'
    BY <2>0 DEF DaysInv, JournalInv, Asleep
  <2>3. PromiseInv'
    BY <2>0 DEF DaysInv, PromiseInv, Asleep
  <2>4. QED  BY <1>4, <2>1, <2>2, <2>3 DEF DaysInv, Reconciles, Published, Answered
<1>5. CASE StorePublished
  <2>1. KnownInv'
    <3>1. /\ run.at = "store-published" /\ ring = Candidate /\ run'.rows = Candidate /\ run'.at = "select"
          /\ UNCHANGED <<ring, swaps>> /\ run.rows = OldRing /\ run.since \in Int /\ keychain["next"] = 2
      BY <1>5 DEF KeysInv, RunInv, DaysInv, KnownInv, StorePublished, At, Remote, Early, Keyed
    <3>2. Row(Candidate, "next") \in Candidate
      BY <3>1, CandidateShape, BothShape
    <3>3. QED  BY <3>1, <3>2 DEF DaysInv, KnownInv, At, Unswapped, Middle
  <2>2. JournalInv'
    BY <1>5 DEF KeysInv, RunInv, DaysInv, JournalInv, StorePublished, At, Remote
  <2>3. PromiseInv'
    BY <1>5 DEF KeysInv, DaysInv, PromiseInv, StorePublished, Remote
  <2>4. QED  BY <1>5, <2>1, <2>2, <2>3 DEF DaysInv, Reconciles, StorePublished
<1>6. CASE SelectKey
  <2>1. KnownInv'
    BY <1>6
       DEF KeysInv, RunInv, DaysInv, KnownInv, SelectKey, At, Go, Raise, Asleep, Remote, Unswapped, Middle, Selected
  <2>2. JournalInv'
    BY <1>6 DEF KeysInv, RunInv, DaysInv, JournalInv, SelectKey, Go, Raise, Asleep, Remote
  <2>3. PromiseInv'
    <3>1. /\ run.at = "select" /\ UNCHANGED ring /\ run'.at \in {"asleep", "select-expiry"}
          /\ pointer'.expires = pointer.expires /\ pointer'.id \in {pointer.id, "next"}
      BY <1>6 DEF KeysInv, FilesInv, RunInv, SelectKey, At, Go, Raise, Asleep, Remote
    <3>2. Both(ring) /\ pointer.id \in Ids
      BY <3>1 DEF KeysInv, FilesInv, RunInv, DaysInv, KnownInv, Middle, Selected
    <3>3. QED  BY <3>1, <3>2, Shapes DEF DaysInv, PromiseInv, Ids
  <2>4. QED  BY <1>6, <2>1, <2>2, <2>3 DEF DaysInv, Reconciles, SelectKey
<1>7. CASE SelectExpiry
  <2>1. KnownInv'
    BY <1>7 DEF KeysInv, DaysInv, KnownInv, SelectExpiry, At, Go, Remote, Unswapped, Middle, Selected
  <2>2. JournalInv'
    BY <1>7 DEF KeysInv, DaysInv, JournalInv, SelectExpiry, Go, Remote
  <2>3. PromiseInv'
    <3>1. /\ run.at = "select-expiry" /\ UNCHANGED ring /\ run'.at = "store-bridge"
          /\ pointer.id = "next" /\ pointer'.id = "next" /\ pointer'.expires = Row(run.rows, "next").expires
      BY <1>7 DEF KeysInv, RunInv, SelectExpiry, At, Go, Remote, Selected
    <3>2. Both(run.rows) /\ ring = run.rows
      BY <3>1 DEF KeysInv, RunInv, DaysInv, KnownInv, Middle, Selected
    <3>3. \A r \in ring : r.id = "next" => r = Row(run.rows, "next")
      BY <3>2, BothShape DEF OldRows
    <3>4. Row(run.rows, "next").expires \in Int /\ ring # OldRing
      BY <3>2, BothShape DEF NextRows
    <3>5. QED  BY <3>1, <3>3, <3>4 DEF PromiseInv
  <2>4. QED  BY <1>7, <2>1, <2>2, <2>3 DEF DaysInv, Reconciles, SelectExpiry
<1>8. CASE StoreBridge
  <2>1. KnownInv'
    BY <1>8 DEF KeysInv, DaysInv, KnownInv, StoreBridge, Store, At, Go, Remote, Unswapped, Middle, Selected
  <2>2. JournalInv'
    <3>1. Both(ring) /\ ring' = ring
      BY <1>8 DEF KeysInv, RunInv, DaysInv, KnownInv, StoreBridge, Store, Remote, At, Middle, Selected
    <3>2. QED  BY <1>8, <3>1, Shapes DEF KeysInv, JournalInv, StoreBridge, Store, Go
  <2>3. PromiseInv'
    BY <1>8 DEF KeysInv, DaysInv, PromiseInv, StoreBridge, Store, Go, Remote
  <2>4. QED  BY <1>8, <2>1, <2>2, <2>3 DEF DaysInv, Reconciles, StoreBridge, Store
<1>9. CASE VerifySuccessor
  <2>1. KnownInv'
    BY <1>9
       DEF KeysInv, RunInv, DaysInv, KnownInv, VerifySuccessor, At, Go, Raise, Asleep, Remote, Unswapped, Middle, Selected
  <2>2. JournalInv'
    BY <1>9 DEF KeysInv, RunInv, DaysInv, JournalInv, VerifySuccessor, Go, Raise, Asleep, Remote, Local
  <2>3. PromiseInv'
    BY <1>9 DEF KeysInv, RunInv, DaysInv, PromiseInv, VerifySuccessor, Go, Raise, Asleep, Remote, Local
  <2>4. QED  BY <1>9, <2>1, <2>2, <2>3 DEF DaysInv, Reconciles, VerifySuccessor
<1>10. CASE StoreVerified
  <2>1. KnownInv'
    BY <1>10 DEF KeysInv, DaysInv, KnownInv, StoreVerified, Store, At, Go, Remote, Unswapped, Middle, Selected
  <2>2. JournalInv'
    BY <1>10 DEF KeysInv, RunInv, DaysInv, JournalInv, StoreVerified, Store, Go, Early, Final
  <2>3. PromiseInv'
    BY <1>10 DEF KeysInv, DaysInv, PromiseInv, StoreVerified, Store, Go, Remote
  <2>4. QED  BY <1>10, <2>1, <2>2, <2>3 DEF DaysInv, Reconciles, StoreVerified, Store
<1>11. CASE Retired
  <2>0. /\ UNCHANGED <<ring, swaps, keychain, journal, pointer>> /\ run.at = "retiring"
        /\ \/ run' = Asleep
           \/ /\ run.answer = "ok" /\ run'.at = "deny" /\ run'.answer = "none"
              /\ run'.rows = run.rows /\ run'.since = run.since
    BY <1>11 DEF KeysInv, RunInv, Retired, Answered, Remote, Local, Raise, At
  <2>1. KnownInv'
    BY <2>0 DEF DaysInv, KnownInv, Asleep, At, Unswapped, Middle, Selected
  <2>2. JournalInv'
    BY <2>0 DEF DaysInv, JournalInv, Asleep
  <2>3. PromiseInv'
    BY <2>0 DEF DaysInv, PromiseInv, Asleep
  <2>4. QED  BY <1>11, <2>1, <2>2, <2>3 DEF DaysInv, Reconciles, Retired, Answered
<1>12. CASE DenyOld
  <2>1. KnownInv'
    BY <1>12
       DEF KeysInv, RunInv, DaysInv, KnownInv, DenyOld, At, Go, Raise, Asleep, Remote, Unswapped, Middle, Selected
  <2>2. JournalInv'
    BY <1>12 DEF KeysInv, FilesInv, RunInv, DaysInv, JournalInv, DenyOld, At, Go, Raise, Asleep, Local, Final
  <2>3. PromiseInv'
    BY <1>12 DEF KeysInv, RunInv, DaysInv, PromiseInv, DenyOld, Go, Raise, Asleep, Remote, Local
  <2>4. QED  BY <1>12, <2>1, <2>2, <2>3 DEF DaysInv, Reconciles, DenyOld
<1>13. CASE StoreDenied
  <2>1. KnownInv'
    BY <1>13 DEF KeysInv, DaysInv, KnownInv, StoreDenied, Store, At, Go, Remote, Unswapped, Middle, Selected
  <2>2. JournalInv'
    BY <1>13, Shapes DEF KeysInv, RunInv, DaysInv, JournalInv, StoreDenied, Store, Go, Final
  <2>3. PromiseInv'
    BY <1>13 DEF KeysInv, DaysInv, PromiseInv, StoreDenied, Store, Go, Remote
  <2>4. QED  BY <1>13, <2>1, <2>2, <2>3 DEF DaysInv, Reconciles, StoreDenied, Store
<1>14. CASE DeleteOld
  <2>1. KnownInv'
    BY <1>14 DEF KeysInv, DaysInv, KnownInv, DeleteOld, At, Go, Remote, Unswapped, Middle, Selected
  <2>2. JournalInv'
    BY <1>14, Shapes DEF KeysInv, FilesInv, DaysInv, JournalInv, DeleteOld, At, Go
  <2>3. PromiseInv'
    BY <1>14 DEF KeysInv, DaysInv, PromiseInv, DeleteOld, Go, Remote
  <2>4. QED  BY <1>14, <2>1, <2>2, <2>3 DEF DaysInv, Reconciles, DeleteOld
<1>15. CASE StoreRetired
  <2>1. KnownInv'
    BY <1>15 DEF KeysInv, DaysInv, KnownInv, StoreRetired, Store, At, Go, Remote, Unswapped, Middle, Selected
  <2>2. JournalInv'
    BY <1>15 DEF KeysInv, DaysInv, JournalInv, StoreRetired, Store, At, Go, Remote
  <2>3. PromiseInv'
    BY <1>15 DEF KeysInv, DaysInv, PromiseInv, StoreRetired, Store, Go, Remote
  <2>4. QED  BY <1>15, <2>1, <2>2, <2>3 DEF DaysInv, Reconciles, StoreRetired, Store
<1>16. CASE Fails
  <2>1. KnownInv'
    BY <1>16 DEF KeysInv, DaysInv, KnownInv, Fails, May, At, Raise, Asleep, Remote, Unswapped, Middle, Selected
  <2>2. JournalInv'
    BY <1>16 DEF KeysInv, DaysInv, JournalInv, Fails, May, Raise, Asleep, Remote, Local
  <2>3. PromiseInv'
    BY <1>16 DEF KeysInv, DaysInv, PromiseInv, Fails, May, Raise, Asleep, Remote, Local
  <2>4. QED  BY <1>16, <2>1, <2>2, <2>3 DEF DaysInv, Reconciles, Fails, May
<1>17. CASE Tick
  <2>1. KnownInv'
    BY <1>17 DEF KeysInv, DaysInv, KnownInv, Candidate, Shortened, Tick, At, Local
  <2>2. JournalInv'
    BY <1>17 DEF KeysInv, DaysInv, JournalInv, Tick, Local
  <2>3. PromiseInv'
    BY <1>17 DEF KeysInv, DaysInv, PromiseInv, Shortened, Tick, Local
  <2>4. QED  BY <1>17, <2>1, <2>2, <2>3 DEF DaysInv, Reconciles, Tick
<1>18. QED  BY <1>1, <1>2, <1>3, <1>4, <1>5, <1>6, <1>7, <1>8, <1>9, <1>10, <1>11, <1>12, <1>13, <1>14,
               <1>15, <1>16, <1>17

(***************************************************************************)
(* What a run finds in the journal and in the ring, it can go on from.     *)
(***************************************************************************)
LEMMA BeginDays ==
  ASSUME KeysInv, KeysInv', DaysInv, Begin PROVE DaysInv'
<1>1. /\ UNCHANGED <<ring, swaps, keychain, journal, pointer>>
      /\ run.at = "asleep" /\ journal # "retired"
  BY DEF Begin, Remote, Local, At
<1>2. swaps = {}
  BY <1>1 DEF KeysInv, SwapsInv, SwapInv, DaysInv, KnownInv, At
<1>3. /\ pointer.id \in Named(ring) /\ Resumed(ring) # "refuse"
      /\ Resumed(ring) \in {"prepare", "create", "select", "deny", "delete"}
      /\ Resumed(ring) \in {"prepare", "create"} => ring = OldRing
      /\ Resumed(ring) = "create" => journal = "prepared"
      /\ Resumed(ring) = "select" => Both(ring)
      /\ Resumed(ring) = "deny" => journal = "successor-verified"
      /\ Resumed(ring) = "delete" => journal = "old-denied"
  <2>1. CASE ring = OldRing
    BY <1>1, <2>1, OldRingShape DEF Resumed, KeysInv, FilesInv, DaysInv, JournalInv, Ids
  <2>2. CASE Both(ring)
    BY <1>1, <2>2, BothShape DEF Resumed, KeysInv, FilesInv, DaysInv, JournalInv
  <2>3. CASE Alone(ring)
    BY <1>1, <2>3, AloneShape DEF Resumed, KeysInv, FilesInv, DaysInv, JournalInv
  <2>4. QED  BY <2>1, <2>2, <2>3 DEF KeysInv, FilesInv
<1>4. /\ run' = [at |-> Resumed(ring), rows |-> ring, since |-> day, answer |-> "none"]
      /\ UNCHANGED refused
  BY <1>3 DEF Begin
<1>5. KnownInv'
  BY <1>1, <1>2, <1>3, <1>4, BothShape DEF KnownInv, At, Unswapped, Middle, Selected
<1>6. JournalInv'
  BY <1>1, <1>3, <1>4 DEF DaysInv, JournalInv
<1>7. PromiseInv'
  BY <1>1, <1>3, <1>4 DEF DaysInv, PromiseInv
<1>8. QED  BY <1>4, <1>5, <1>6, <1>7 DEF DaysInv, Reconciles

\* The ring is asked to take both keys while it is as the run has read it.
LEMMA PublishDays ==
  ASSUME KeysInv, KeysInv', DaysInv, Publish PROVE DaysInv'
<1>1. /\ UNCHANGED <<ring, keychain, journal, pointer, refused>>
      /\ run.at = "publish" /\ run' = [run EXCEPT !.at = "publishing"]
      /\ swaps' = swaps \cup {[expected |-> run.rows, rows |-> Candidate, own |-> TRUE]}
  BY DEF Publish, Cas, Local, At, Go
<1>2. swaps = {}
  BY <1>1 DEF KeysInv, SwapsInv, SwapInv, DaysInv, KnownInv, At
<1>3. run'.at = "publishing" /\ run'.rows = run.rows /\ run'.since = run.since /\ run'.answer = "none"
  BY <1>1 DEF KeysInv, RunInv
<1>4. Candidate' = Candidate /\ Shortened' = Shortened
  BY <1>1, <1>3 DEF Candidate, Shortened
<1>5. \A m \in swaps' : m.rows = Candidate /\ m.own = TRUE
  BY <1>1, <1>2
<1>6. KnownInv'
  BY <1>3, <1>4, <1>5 DEF KnownInv, At, Unswapped, Middle, Selected
<1>7. JournalInv'
  BY <1>1, <1>3 DEF DaysInv, JournalInv
<1>8. PromiseInv'
  BY <1>1, <1>3, <1>4 DEF DaysInv, PromiseInv
<1>9. QED  BY <1>1, <1>6, <1>7, <1>8 DEF DaysInv, Reconciles

\* The ring is asked for the successor alone while it is as the run has read it.
LEMMA RetireDays ==
  ASSUME KeysInv, KeysInv', DaysInv, RetireOld PROVE DaysInv'
<1>1. UNCHANGED <<ring, keychain, journal, pointer, refused>> /\ run.at = "retire"
  BY DEF RetireOld, Local, At
<1>2. swaps = {}
  BY <1>1 DEF KeysInv, SwapsInv, SwapInv, DaysInv, KnownInv, At
<1>3. CASE UNCHANGED swaps /\ run' = Asleep
  BY <1>1, <1>2, <1>3
  DEF DaysInv, KnownInv, JournalInv, PromiseInv, Reconciles, Asleep, At, Unswapped, Middle, Selected
<1>4. CASE /\ swaps' = swaps \cup {[expected |-> ring, rows |-> {Row(run.rows, "next")}, own |-> TRUE]}
           /\ run' = [run EXCEPT !.at = "retiring"]
  <2>1. run'.at = "retiring" /\ run'.rows = run.rows
    BY <1>4 DEF KeysInv, RunInv
  <2>2. \A m \in swaps' : m.rows = {Row(run.rows, "next")} /\ m.own = TRUE
    BY <1>2, <1>4
  <2>3. KnownInv'
    BY <1>1, <2>1, <2>2 DEF DaysInv, KnownInv, At, Unswapped, Middle, Selected
  <2>4. JournalInv' /\ PromiseInv'
    BY <1>1, <2>1 DEF DaysInv, JournalInv, PromiseInv
  <2>5. QED  BY <1>1, <2>3, <2>4 DEF DaysInv, Reconciles
<1>5. QED  BY <1>3, <1>4 DEF RetireOld, Raise, Go

(***************************************************************************)
(* The swap that arrives is that of the run that waits: the ring becomes   *)
(* what this run asked for.                                                *)
(***************************************************************************)
LEMMA ArrivalDays ==
  ASSUME KeysInv, KeysInv', DaysInv, NEW m \in swaps, SwapArrives(m) PROVE DaysInv'
<1>1. /\ swaps' = swaps \ {m} /\ UNCHANGED <<keychain, journal, pointer, refused>>
      /\ ring' = IF ring = m.expected THEN m.rows ELSE ring
      /\ m.own /\ run' = [run EXCEPT !.answer = IF ring = m.expected THEN "ok" ELSE "refused"]
  BY DEF SwapArrives, Swap, Local, DaysInv, KnownInv
<1>2. /\ run'.at = run.at /\ run'.rows = run.rows /\ run'.since = run.since
      /\ run'.answer = IF ring = m.expected THEN "ok" ELSE "refused"
  BY <1>1 DEF KeysInv, RunInv
<1>3. swaps' = {}
  BY <1>1 DEF KeysInv, SwapsInv, DaysInv, KnownInv
<1>4. Candidate' = Candidate /\ Shortened' = Shortened
  BY <1>1, <1>2 DEF Candidate, Shortened
<1>5. \/ /\ run.at = "publishing" /\ m.expected = OldRing /\ m.rows = Candidate
         /\ run.rows = OldRing /\ run.since \in Int /\ keychain["next"] = 2
      \/ /\ run.at = "retiring" /\ Both(m.expected) /\ m.rows = {Row(run.rows, "next")}
         /\ Both(run.rows) /\ Row(run.rows, "next") \in ring /\ pointer.id = "next"
  BY <1>1 DEF KeysInv, RunInv, SwapsInv, SwapInv, DaysInv, KnownInv, At, Early, Keyed, Middle, Selected
<1>6. CASE run.at = "publishing" /\ ring = m.expected
  <2>1. ring' = Candidate /\ Both(Candidate) /\ ring = OldRing /\ run'.answer = "ok"
    BY <1>1, <1>2, <1>5, <1>6, CandidateShape
  <2>2. KnownInv'
    BY <1>2, <1>3, <1>4, <1>6, <2>1 DEF KnownInv, At, Unswapped, Middle, Selected
  <2>3. JournalInv'
    BY <1>1, <1>2, <1>6, <2>1, Shapes DEF DaysInv, JournalInv
  <2>4. PromiseInv'
    <3>1. pointer.expires <= Shortened.expires /\ pointer.id # "next" /\ pointer.expires \in Int
      BY <1>6, <2>1 DEF KeysInv, FilesInv, DaysInv, PromiseInv
    <3>2. /\ Candidate = {Row(Candidate, "old"), Row(Candidate, "next")} /\ Row(Candidate, "old") = Shortened
          /\ Shortened.expires <= run.since + 1 /\ Row(Candidate, "next").expires = run.since + 30
          /\ Shortened.expires \in Int /\ run.since \in Int
      BY <1>5, <1>6, CandidateShape, BothShape DEF OldRows
    <3>3. \A r \in Candidate : pointer.expires <= r.expires
      BY <3>1, <3>2
    <3>4. QED  BY <1>1, <1>4, <2>1, <3>1, <3>3, Shapes DEF PromiseInv
  <2>5. QED  BY <1>1, <2>2, <2>3, <2>4 DEF DaysInv, Reconciles
<1>7. CASE run.at = "retiring" /\ ring = m.expected
  <2>1. /\ ring' = {Row(run.rows, "next")} /\ Alone(ring') /\ Both(ring)
        /\ Row(run.rows, "next") \in ring /\ Row(run.rows, "next").id = "next"
    BY <1>1, <1>5, <1>7, SuccessorAlone, BothShape DEF NextRows
  <2>2. KnownInv'
    BY <1>2, <1>3, <1>7, <2>1 DEF KnownInv, At, Unswapped, Middle, Selected
  <2>3. JournalInv'
    BY <1>1, <1>2, <1>7, <2>1, Shapes DEF DaysInv, JournalInv
  <2>4. PromiseInv'
    BY <1>1, <1>2, <1>5, <1>7, <2>1, Shapes DEF DaysInv, PromiseInv
  <2>5. QED  BY <1>1, <2>2, <2>3, <2>4 DEF DaysInv, Reconciles
<1>8. CASE ring # m.expected
  BY <1>1, <1>2, <1>3, <1>4, <1>8
  DEF DaysInv, KnownInv, JournalInv, PromiseInv, Reconciles, At, Unswapped, Middle, Selected
<1>9. QED  BY <1>5, <1>6, <1>7, <1>8

\* A run that dies takes its swap along when none is late.
LEMMA CrashDays ==
  ASSUME ~Late, KeysInv, KeysInv', DaysInv, Crash PROVE DaysInv'
BY DEF Crash, Raise, Orphans, Local, Asleep, DaysInv, KnownInv, JournalInv, PromiseInv, Reconciles,
       At, Unswapped, Middle, Selected

(***************************************************************************)
(* The inductive invariant of the days: if no swap outlives its run, a run *)
(* knows the ring and the journal knows how far the ring has come.         *)
(***************************************************************************)
LEMMA DaysInvariance == ~Late => (RotationSpec => []DaysInv)
<1> SUFFICES ASSUME ~Late PROVE RotationSpec => []DaysInv
  OBVIOUS
<1>1. ASSUME KeysInv, KeysInv', DaysInv, [RotationNext]_rotationVars PROVE DaysInv'
  <2>1. CASE UNCHANGED rotationVars
    BY <2>1, <1>1 DEF rotationVars, DaysInv, KnownInv, JournalInv, PromiseInv, Reconciles, At, Candidate, Shortened
  <2>2. CASE RunStep
    BY <1>1, <2>2, BeginDays, FileDays, PublishDays, RetireDays DEF RunStep
  <2>3. CASE ServerStep
    BY <1>1, <2>3, ArrivalDays DEF ServerStep
  <2>4. CASE \E m \in swaps : SwapLost(m)
    BY <1>1, <2>4 DEF SwapLost, DaysInv, KnownInv
  <2>5. CASE Fails \/ Tick
    BY <1>1, <2>5, FileDays
  <2>6. CASE Crash
    BY <1>1, <2>6, CrashDays
  <2>7. QED  BY <1>1, <2>1, <2>2, <2>3, <2>4, <2>5, <2>6 DEF RotationNext
<1>2. QED  BY InitDays, KeysInvariance, <1>1, PTL DEF RotationSpec

-----------------------------------------------------------------------------
(***************************************************************************)
(* The expiry the alerts read promises no longer life than the ring gives  *)
(* the key that is pointed at, however many days a rotation takes, where   *)
(* no swap of a dead run arrives late.  Used of such an instance: nothing  *)
(* in the script rules late swaps out, and with them it is not so.         *)
(***************************************************************************)
LEMMA PromiseKept == ~Late => (RotationSpec => []PointerHonest)
<1>1. KeysInv /\ DaysInv => PointerHonest
  <2> SUFFICES ASSUME KeysInv, DaysInv PROVE PointerHonest
    OBVIOUS
  <2>1. CASE ring = OldRing
    BY <2>1, OldRingShape DEF DaysInv, PromiseInv, PointerHonest, OldRing
  <2>2. CASE ring # OldRing
    BY <2>2 DEF KeysInv, FilesInv, DaysInv, PromiseInv, PointerHonest, Ids
  <2>3. QED  BY <2>1, <2>2
<1>2. QED  BY <1>1, KeysInvariance, DaysInvariance, PTL

(***************************************************************************)
(* Whatever a run leaves in the journal and in the ring, the next one can  *)
(* go on from, again where no swap arrives late: the assertions of         *)
(* review_action_rotate.py are never met.                                  *)
(***************************************************************************)
LEMMA NeverRefused == ~Late => (RotationSpec => []Reconciles)
<1>1. DaysInv => Reconciles
  BY DEF DaysInv
<1>2. QED  BY <1>1, DaysInvariance, PTL
=============================================================================
