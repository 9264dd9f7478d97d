----------------------------- MODULE ReviewQueue ----------------------------
(***************************************************************************)
(* The private review database (app/beyond_basics_review_state.py and      *)
(* app/beyond_basics_action_queue.py): numbered revisions of each page and *)
(* the instructions an author leaves with them, which a worker claims      *)
(* under a lease and finishes.  Every operation is one BEGIN IMMEDIATE     *)
(* transaction, hence one atomic step.                                     *)
(*                                                                         *)
(* The text of a page, its notes and the proposed edits are left out: a    *)
(* revision keeps who made it, whether its notes instruct the worker,      *)
(* whether its decision is "Request changes", and the ready mark.  The     *)
(* random lease token of an attempt is the number of that attempt.         *)
(***************************************************************************)
EXTENDS Integers, Sequences, FiniteSets

CONSTANTS Pages,         \* pages of the course under review
          Requests,      \* save requests, by their request_id
          MaxGen,        \* bound: revisions a page may ever have
          MaxAttempts,   \* claims of one instruction (3 in the code)
          MaxActive      \* unresolved instructions admitted (100 in the code)

ASSUME ReviewAssumption ==
  /\ MaxGen \in Nat
  /\ MaxAttempts \in Nat \ {0}
  /\ MaxActive \in Nat
  /\ Requests \cap {"worker", "ready"} = {}

VARIABLES revisions,   \* the revisions of each page, in order of generation
          actions,     \* the row of review_actions for each page and generation
          waiting,     \* pairs of queued actions, the earlier updated_at first
          saved        \* review_save_requests: the generation a request made, or 0

queueVars == <<revisions, actions, waiting, saved>>

ActionIds == Pages \X (1..MaxGen)

Unresolved == {"queued", "running"}
Resolved   == {"completed", "needs-clarification", "failed"}

Revision == [author : Requests \cup {"worker", "ready"}, instructs : BOOLEAN,
             changes : BOOLEAN, ready : BOOLEAN]

Action == [status : {"absent"} \cup Unresolved \cup Resolved,
           attempts : 0..MaxAttempts, token : 0..MaxAttempts, expired : BOOLEAN]

NewAction(status) == [status |-> status, attempts |-> 0, token |-> 0, expired |-> FALSE]

NoAction == NewAction("absent")

\* The revision a later one is copied from keeps its notes and its decision.
Copy(revision, author, ready) ==
  [author |-> author, instructs |-> revision.instructs,
   changes |-> revision.changes, ready |-> ready]

QueueInit ==
  /\ revisions = [p \in Pages |-> <<>>]
  /\ actions = [a \in ActionIds |-> NoAction]
  /\ waiting = {}
  /\ saved = [r \in Requests |-> 0]

Generation(p) == Len(revisions[p])

Superseded(a) == a[2] # Generation(a[1])

Open(p) == Generation(p) < MaxGen

Queued == {a \in ActionIds : actions[a].status = "queued"}

UnresolvedActions == {a \in ActionIds : actions[a].status \in Unresolved}

-----------------------------------------------------------------------------
(***************************************************************************)
(* review_state, operation "save": a new revision on top of the one the    *)
(* author saw, its instruction enqueued, its request id remembered.        *)
(***************************************************************************)
Full(instructs) == instructs /\ Cardinality(UnresolvedActions) >= MaxActive

Save(r, p, base, instructs, changes) ==
  /\ saved[r] = 0
  /\ base = Generation(p)
  /\ ~Full(instructs)
  /\ Open(p)
  /\ LET new == <<p, base + 1>>
     IN  /\ revisions' = [revisions EXCEPT ![p] =
              Append(@, [author |-> r, instructs |-> instructs,
                         changes |-> changes, ready |-> FALSE])]
         /\ saved' = [saved EXCEPT ![r] = base + 1]
         /\ IF instructs
              THEN /\ actions' = [actions EXCEPT ![new] = NewAction("queued")]
                   /\ waiting' = waiting \cup (Queued \X {new})
              ELSE UNCHANGED <<actions, waiting>>

\* A bug of "ready": only the decision is looked at.
ReadyUnresolved(p) ==
  /\ Generation(p) > 0
  /\ ~revisions[p][Generation(p)].changes
  /\ Open(p)
  /\ revisions' = [revisions EXCEPT ![p] =
       Append(@, Copy(@[Len(@)], "ready", TRUE))]
  /\ UNCHANGED <<actions, waiting, saved>>

\* Operation "ready" of an author who saw the current revision.
Ready(p) ==
  /\ Generation(p) > 0
  /\ actions[<<p, Generation(p)>>].status \in {"absent", "completed"}
  /\ ~revisions[p][Generation(p)].changes
  /\ Open(p)
  /\ revisions' = [revisions EXCEPT ![p] =
       Append(@, Copy(@[Len(@)], "ready", TRUE))]
  /\ UNCHANGED <<actions, waiting, saved>>

-----------------------------------------------------------------------------
(***************************************************************************)
(* claim: three updates over the table, then at most one action started.   *)
(***************************************************************************)
Released(row, status) ==
  [status |-> status, attempts |-> row.attempts, token |-> 0, expired |-> FALSE]

Lapsed(a) == actions[a].status = "running" /\ actions[a].expired

\* A bug of claim: an instruction is retried without limit.
RequeuedAlways(a) == Lapsed(a)

Requeued(a) == Lapsed(a) /\ actions[a].attempts < MaxAttempts

Swept(a) ==
  CASE Lapsed(a) /\ ~Requeued(a) -> Released(actions[a], "failed")
    [] (Requeued(a) \/ actions[a].status = "queued") /\ Superseded(a)
                                 -> Released(actions[a], "needs-clarification")
    [] Requeued(a)               -> Released(actions[a], "queued")
    [] OTHER                     -> actions[a]

StillQueued == {a \in ActionIds : Swept(a).status = "queued"}

\* An action that has lost its lease waits behind those that wait already.
Line ==
  {pair \in StillQueued \X StillQueued :
     pair \in waiting \/ (~Requeued(pair[1]) /\ Requeued(pair[2]))}

First(a) == a \in StillQueued /\ \A b \in StillQueued : <<b, a>> \notin Line

\* A bug of claim: it does not look for an action that is running.
NeverBusy == FALSE

Busy == \E a \in ActionIds : actions[a].status = "running" /\ ~Lapsed(a)

ClaimNothing ==
  /\ Busy \/ StillQueued = {}
  /\ actions' = [a \in ActionIds |-> Swept(a)]
  /\ waiting' = Line
  /\ UNCHANGED <<revisions, saved>>

\* A bug of claim: the attempt is not counted.
ClaimUncounted(a) ==
  /\ ~Busy
  /\ First(a)
  /\ actions' = [b \in ActionIds |->
       IF b = a THEN [status |-> "running", attempts |-> actions[a].attempts,
                      token |-> 1, expired |-> FALSE]
                ELSE Swept(b)]
  /\ waiting' = {pair \in Line : pair[1] # a}
  /\ UNCHANGED <<revisions, saved>>

Claim(a) ==
  /\ ~Busy
  /\ First(a)
  /\ actions' = [b \in ActionIds |->
       IF b = a THEN [status |-> "running", attempts |-> actions[a].attempts + 1,
                      token |-> actions[a].attempts + 1, expired |-> FALSE]
                ELSE Swept(b)]
  /\ waiting' = {pair \in Line : pair[1] # a}
  /\ UNCHANGED <<revisions, saved>>

\* lease_until passes.
Expire(a) ==
  /\ actions[a].status = "running" /\ ~actions[a].expired
  /\ actions' = [actions EXCEPT ![a].expired = TRUE]
  /\ UNCHANGED <<revisions, waiting, saved>>

-----------------------------------------------------------------------------
(***************************************************************************)
(* finish: the lease must still be the caller's; a page that has moved on  *)
(* wins over the proposal; a completed proposal adds the corrected         *)
(* revision together with its own completed action.                        *)
(***************************************************************************)
\* A bug of finish: any worker that knows the action may finish it.
LeaseUnchecked(a, token) == actions[a].status # "absent"

HasLease(a, token) ==
  actions[a].status = "running" /\ actions[a].token = token /\ ~actions[a].expired

Settle(a, status) == actions' = [actions EXCEPT ![a] = Released(@, status)]

Return(a, token, status) ==
  /\ HasLease(a, token)
  /\ status \in {"needs-clarification", "failed"}
  /\ Superseded(a) => status = "needs-clarification"
  /\ Settle(a, status)
  /\ UNCHANGED <<revisions, waiting, saved>>

\* Two bugs of finish: a correction entered over a newer revision, and one
\* whose action is left for a second transaction.
CorrectStale(a, token) ==
  /\ HasLease(a, token)
  /\ Open(a[1])
  /\ revisions' = [revisions EXCEPT ![a[1]] =
       Append(@, Copy(@[a[2]], "worker", FALSE))]
  /\ Settle(a, "completed")
  /\ UNCHANGED <<waiting, saved>>

CorrectInTwo(a, token) ==
  /\ HasLease(a, token)
  /\ ~Superseded(a)
  /\ Open(a[1])
  /\ revisions' = [revisions EXCEPT ![a[1]] =
       Append(@, Copy(@[a[2]], "worker", FALSE))]
  /\ UNCHANGED <<actions, waiting, saved>>

Correct(a, token) ==
  /\ HasLease(a, token)
  /\ ~Superseded(a)
  /\ Open(a[1])
  /\ revisions' = [revisions EXCEPT ![a[1]] =
       Append(@, Copy(@[a[2]], "worker", FALSE))]
  /\ actions' = [actions EXCEPT ![a] = Released(@, "completed"),
                                ![<<a[1], a[2] + 1>>] = NewAction("completed")]
  /\ UNCHANGED <<waiting, saved>>
=============================================================================
