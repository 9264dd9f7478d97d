---------------------------- MODULE ReviewActions ---------------------------
(***************************************************************************)
(* The review queue and those who use it over a network that loses and     *)
(* delays: authors whose PUTs are retried under one request id, and the    *)
(* bounded workers (scripts/review_action_worker.py) that claim an         *)
(* instruction, infer an edit and finish, or die on the way.  A duplicate  *)
(* of a signed worker request is refused by its nonce, so only the PUTs    *)
(* are delivered more than once.                                           *)
(***************************************************************************)
EXTENDS ReviewQueue

CONSTANT Workers     \* worker processes that may be running at the same time

VARIABLES sent,      \* the save a request asks for, once its author composed it
          answer,    \* what the author of a request was told
          job,       \* the action and token a worker holds
          wire       \* finish requests on their way

vars == <<queueVars, sent, answer, job, wire>>

Unsent  == [page |-> "none", base |-> 0, instructs |-> FALSE, changes |-> FALSE]
Jobless == [page |-> "none", gen |-> 0, token |-> 0]

Init ==
  /\ QueueInit
  /\ sent = [r \in Requests |-> Unsent]
  /\ answer = [r \in Requests |-> "none"]
  /\ job = [w \in Workers |-> Jobless]
  /\ wire = {}

-----------------------------------------------------------------------------
\* An author who has loaded the page's current revision composes a save.
Compose(r, p, instructs, changes) ==
  /\ sent[r] = Unsent
  /\ sent' = [sent EXCEPT ![r] = [page |-> p, base |-> Generation(p),
                                  instructs |-> instructs, changes |-> changes]]
  /\ UNCHANGED <<queueVars, answer, job, wire>>

\* The reply may be lost; an author who has an answer asks no more.
Reply(r, what) ==
  answer' \in {answer, [answer EXCEPT ![r] = IF @ = "none" THEN what ELSE @]}

(***************************************************************************)
(* review_state handles a PUT of request r: the first, a retry, or a copy  *)
(* that was delayed.  A request id it knows is answered from the table.    *)
(***************************************************************************)
AnswerKnown(r) ==
  /\ saved[r] # 0
  /\ Reply(r, "saved")
  /\ UNCHANGED queueVars

\* A bug of review_state: the generation is compared before the request id.
ConflictFirst(r) ==
  /\ sent[r].base # Generation(sent[r].page)
  /\ Reply(r, "conflict")
  /\ UNCHANGED queueVars

AnswerConflict(r) ==
  /\ saved[r] = 0
  /\ sent[r].base # Generation(sent[r].page)
  /\ Reply(r, "conflict")
  /\ UNCHANGED queueVars

AnswerFull(r) ==
  /\ saved[r] = 0
  /\ sent[r].base = Generation(sent[r].page)
  /\ Full(sent[r].instructs)
  /\ Reply(r, "refused")
  /\ UNCHANGED queueVars

AnswerSaved(r) ==
  /\ Save(r, sent[r].page, sent[r].base, sent[r].instructs, sent[r].changes)
  /\ Reply(r, "saved")

HandleSave(r) ==
  /\ sent[r] # Unsent
  /\ AnswerKnown(r) \/ AnswerConflict(r) \/ AnswerFull(r) \/ AnswerSaved(r)
  /\ UNCHANGED <<sent, job, wire>>

HandleReady(p) ==
  /\ Ready(p)
  /\ UNCHANGED <<sent, answer, job, wire>>

-----------------------------------------------------------------------------
\* action-claim by a worker without a job; the reply reaches it or is lost,
\* with the reply of a page that has become too large or unknown.
HandleClaim(w) ==
  /\ job[w] = Jobless
  /\ \/ ClaimNothing /\ UNCHANGED job
     \/ \E a \in ActionIds :
          /\ Claim(a)
          /\ job' \in {job, [job EXCEPT ![w] = [page |-> a[1], gen |-> a[2],
                                                token |-> actions'[a].token]]}
  /\ UNCHANGED <<sent, answer, wire>>

\* The worker sends its proposal and ends, or dies (alarm, crash, timeout).
SendFinish(w) ==
  /\ job[w] # Jobless
  /\ wire' = wire \cup {job[w]}
  /\ job' = [job EXCEPT ![w] = Jobless]
  /\ UNCHANGED <<queueVars, sent, answer>>

WorkerDies(w) ==
  /\ job[w] # Jobless
  /\ job' = [job EXCEPT ![w] = Jobless]
  /\ UNCHANGED <<queueVars, sent, answer, wire>>

\* action-finish; what apply_proposal makes of the proposal is any outcome.
HandleFinish(m) ==
  LET a == <<m.page, m.gen>>
  IN  /\ \/ \E s \in Resolved : Return(a, m.token, s)
         \/ Correct(a, m.token)
         \/ ~HasLease(a, m.token) /\ UNCHANGED queueVars
      /\ wire' = wire \ {m}
      /\ UNCHANGED <<sent, answer, job>>

\* Lost on its way, or rolled back as a whole: a proposal without exactly one
\* edit of the body, a database that stays locked.
LoseFinish(m) ==
  /\ wire' = wire \ {m}
  /\ UNCHANGED <<queueVars, sent, answer, job>>

LeaseExpires ==
  /\ \E a \in ActionIds : Expire(a)
  /\ UNCHANGED <<sent, answer, job, wire>>

Next ==
  \/ \E r \in Requests : \/ \E p \in Pages, i, c \in BOOLEAN : Compose(r, p, i, c)
                         \/ HandleSave(r)
  \/ \E p \in Pages : HandleReady(p)
  \/ \E w \in Workers : HandleClaim(w) \/ SendFinish(w) \/ WorkerDies(w)
  \/ \E m \in wire : HandleFinish(m) \/ LoseFinish(m)
  \/ LeaseExpires

(***************************************************************************)
(* The supervisor starts a worker again and again and its 100-second alarm *)
(* ends it; time passes.  Authors, and replies that arrive, are not        *)
(* assumed.                                                                *)
(***************************************************************************)
Fairness ==
  /\ \A w \in Workers : WF_vars(HandleClaim(w)) /\ WF_vars(SendFinish(w) \/ WorkerDies(w))
  /\ WF_vars(LeaseExpires)

Spec == Init /\ [][Next]_vars
FairSpec == Spec /\ Fairness

-----------------------------------------------------------------------------
Job == [page : Pages, gen : 1..MaxGen, token : 1..MaxAttempts]

\* A line orders a set: of any two one is first.
Orders(line, S) ==
  /\ line \subseteq S \X S
  /\ \A a, b \in S : <<a, b>> \in line => <<b, a>> \notin line
  /\ \A a, b \in S : a # b => <<a, b>> \in line \/ <<b, a>> \in line
  /\ \A a, b, c \in S : <<a, b>> \in line /\ <<b, c>> \in line => <<a, c>> \in line

\* The types of the tables and of what clients hold, and that the queued
\* instructions, those that lost their lease among them, are in a line: there
\* is a first one to claim whenever there is any (ORDER BY updated_at of claim).
TypeOK ==
  /\ \A p \in Pages : revisions[p] \in Seq(Revision) /\ Generation(p) <= MaxGen
  /\ actions \in [ActionIds -> Action]
  /\ Orders(waiting, Queued)
  /\ saved \in [Requests -> 0..MaxGen]
  /\ sent \in [Requests -> {Unsent} \cup
                 [page : Pages, base : 0..MaxGen, instructs : BOOLEAN, changes : BOOLEAN]]
  /\ answer \in [Requests -> {"none", "saved", "conflict", "refused"}]
  /\ job \in [Workers -> {Jobless} \cup Job]
  /\ wire \subseteq Job

(***************************************************************************)
(* One instruction is worked on at a time, however many workers ask and    *)
(* however many of them are waiting for a lease to lapse.                  *)
(***************************************************************************)
OneRunning ==
  \A a, b \in ActionIds :
    actions[a].status = "running" /\ actions[b].status = "running" => a = b

(***************************************************************************)
(* A page marked ready rests on a revision that asks for nothing: nobody   *)
(* requested changes there, its instruction is completed or there was      *)
(* none, and no worker ever adds a correction on top.                      *)
(***************************************************************************)
ReadyIsResolved ==
  \A a \in ActionIds : LET p == a[1]  g == a[2] IN
    g <= Generation(p) /\ revisions[p][g].ready =>
      /\ g > 1
      /\ actions[a].status = "absent"
      /\ ~revisions[p][g - 1].changes
      /\ actions[<<p, g - 1>>].status \in {"absent", "completed"}
      /\ g < Generation(p) => revisions[p][g + 1].author # "worker"

(***************************************************************************)
(* finish commits the corrected revision and the outcome together: a       *)
(* correction lies directly on the revision whose instruction it carries   *)
(* out, never on a later save, and an instruction is completed exactly     *)
(* when its correction is there.                                           *)
(***************************************************************************)
CorrectionsAreAnswers ==
  \A a \in ActionIds : LET p == a[1]  g == a[2] IN
    g <= Generation(p) /\ revisions[p][g].author # "worker" =>
      (actions[a].status = "completed"
         <=> g < Generation(p) /\ revisions[p][g + 1].author = "worker")

(***************************************************************************)
(* A retried save is honest: an author told "saved" has one revision of    *)
(* that request, one told of a conflict has none and never will.           *)
(***************************************************************************)
RevisionsOf(r) ==
  {a \in ActionIds : a[2] <= Generation(a[1]) /\ revisions[a[1]][a[2]].author = r}

AnswersAreTrue ==
  \A r \in Requests :
    /\ Cardinality(RevisionsOf(r)) <= 1
    /\ answer[r] = "saved"    => RevisionsOf(r) # {}
    /\ answer[r] = "conflict" => RevisionsOf(r) = {}

(***************************************************************************)
(* What has been decided about an instruction stays: no retry, late finish *)
(* or expired lease changes it.                                            *)
(***************************************************************************)
ResolvedOnce ==
  [][\A a \in ActionIds : actions[a].status \in Resolved => actions'[a] = actions[a]]_vars

(***************************************************************************)
(* The promise of ReviewLedger: its entries are the revisions, its open    *)
(* instructions the queued and running actions.                            *)
(***************************************************************************)
Kind(author) == CASE author = "worker" -> "correction"
                  [] author = "ready"  -> "ready"
                  [] OTHER             -> "saved"

History == [p \in Pages |->
              [g \in 1..Generation(p) |-> Kind(revisions[p][g].author)]]

Ledger == INSTANCE ReviewLedger WITH history <- History, open <- UnresolvedActions

ImplementsLedger == Ledger!Spec

(***************************************************************************)
(* Every instruction is resolved, even if every worker dies and every      *)
(* reply is lost: leases lapse and attempts run out.                       *)
(***************************************************************************)
EveryInstructionResolves ==
  \A a \in ActionIds :
    actions[a].status \in Unresolved ~> actions[a].status \in Resolved
=============================================================================
