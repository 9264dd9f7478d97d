----------------------------- MODULE KeyRotation -----------------------------
(***************************************************************************)
(* The rotation of the key the review worker signs with                    *)
(* (review_action_rotate.py): a journal, two pointer files and the         *)
(* keychain of the worker's machine, and the ring of accepted keys on the  *)
(* server, which is changed by compare-and-swap                            *)
(* (review_action_keyring_admin.py).  Every line that leaves a trace is a  *)
(* step, and the rotation may die between any two.                         *)
(*                                                                         *)
(* One rotation, begun on day 21 of a key that lives for 30; locks make    *)
(* runs of it one at a time.  A run that dies leaves a swap it has sent;   *)
(* if Late that may still arrive.  MaxCrashes, MaxFaults and MaxDays bound *)
(* deaths, failures of the worker and of requests, and days.               *)
(***************************************************************************)
EXTENDS Integers, FiniteSets

CONSTANTS Late, MaxCrashes, MaxFaults, MaxDays

VARIABLES ring,      \* the server's keys.json
          keychain,  \* account -> secret, 0 for none
          journal,   \* rotation.json
          pointer,   \* active-key-id and active-key-expires
          run,       \* the rotation that runs: where it is and what it has read
          swaps,     \* compare-and-swaps with the server
          day, refused, steps
rotationVars == <<ring, keychain, journal, pointer, run, swaps, day, refused, steps>>

Ids == {"old", "next"}
Phases == {"none", "prepared", "ring-published", "bridge-selected", "successor-verified", "old-denied", "retired"}
Kinds == {"crashes", "faults"}
Most == [crashes |-> MaxCrashes, faults |-> MaxFaults]
May(kind) == steps[kind] < Most[kind] /\ steps' = [steps EXCEPT ![kind] = @ + 1]

Asleep == [at |-> "asleep", rows |-> {}, since |-> 0, answer |-> "none"]
RotationInit ==
  /\ ring = {[id |-> "old", key |-> 1, expires |-> 30]}
  /\ keychain = [i \in Ids |-> IF i = "old" THEN 1 ELSE 0]
  /\ journal = "none"
  /\ pointer = [id |-> "old", expires |-> 30]
  /\ run = Asleep /\ swaps = {} /\ day = 21 /\ refused = FALSE
  /\ steps = [k \in Kinds |-> 0]

Min2(a, b) == IF a < b THEN a ELSE b
Named(rows) == {r.id : r \in rows}
Row(rows, i) == CHOOSE r \in rows : r.id = i

At(place) == run.at = place
Go(place) == run' = [run EXCEPT !.at = place]
Raise == run' = Asleep
Remote == <<ring, swaps, day>>
Local == <<keychain, journal, pointer>>

-----------------------------------------------------------------------------
(* Where a run begins.                                                     *)

\* A bug of Resumed: a run that died after it prepared the successor, before
\* it published it, is not expected.
ResumedShort(rows) ==
  IF Cardinality(rows) = 1
  THEN CASE journal = "old-denied" /\ Named(rows) = {"next"} -> "delete"
         [] journal = "successor-verified" /\ Named(rows) = {"next"} -> "deny"
         [] journal \in {"none", "retired"} -> "prepare"
         [] OTHER -> "refuse"
  ELSE IF journal \in {"prepared", "ring-published", "bridge-selected", "successor-verified"} THEN "select" ELSE "refuse"

Resumed(rows) ==
  IF Cardinality(rows) = 1
  THEN CASE journal = "old-denied" /\ Named(rows) = {"next"} -> "delete"
         [] journal = "successor-verified" /\ Named(rows) = {"next"} -> "deny"
         [] journal = "prepared" /\ pointer.id = "old" -> "create"
         [] journal \in {"none", "retired"} -> "prepare"
         [] OTHER -> "refuse"
  ELSE IF journal \in {"prepared", "ring-published", "bridge-selected", "successor-verified"} THEN "select" ELSE "refuse"

\* The ring, the pointer and the journal are read.
Begin ==
  /\ At("asleep") /\ journal # "retired"
  /\ IF pointer.id \notin Named(ring) \/ Resumed(ring) = "refuse"
     THEN refused' = TRUE /\ UNCHANGED run
     ELSE run' = [at |-> Resumed(ring), rows |-> ring, since |-> day, answer |-> "none"] /\ UNCHANGED refused
  /\ UNCHANGED <<Remote, Local, steps>>

-----------------------------------------------------------------------------
(* The steps of a run.                                                     *)

\* Nothing but the journal is written; the run goes on.
Store(phase, then) == journal' = phase /\ Go(then) /\ UNCHANGED <<Remote, keychain, pointer, refused, steps>>

StorePrepared == At("prepare") /\ Store("prepared", "create")
\* A successor that is there already is used.
CreateKey ==
  /\ At("create")
  /\ keychain' = IF keychain["next"] = 0 THEN [keychain EXCEPT !["next"] = 2] ELSE keychain
  /\ Go("shorten")
  /\ UNCHANGED <<Remote, journal, pointer, refused, steps>>

Shortened == LET old == Row(run.rows, "old") IN [old EXCEPT !.expires = Min2(@, run.since + 1)]
\* A bug of Candidate: the old key is kept beside the shortened one.
CandidateBoth == run.rows \cup {Shortened, [id |-> "next", key |-> keychain["next"], expires |-> run.since + 30]}
Candidate == {Shortened, [id |-> "next", key |-> keychain["next"], expires |-> run.since + 30]}
\* A bug of ShortenExpiry: the file is left until the successor is selected.
ShortenLater == At("shorten") /\ Go("publish") /\ UNCHANGED <<Remote, Local, refused, steps>>
ShortenExpiry ==
  /\ At("shorten")
  /\ pointer' = [pointer EXCEPT !.expires = Shortened.expires]
  /\ Go("publish")
  /\ UNCHANGED <<Remote, keychain, journal, refused, steps>>

\* cas: sent to the server, and waited for.
Cas(rows, then) ==
  /\ swaps' = swaps \cup {[expected |-> run.rows, rows |-> rows, own |-> TRUE]}
  /\ Go(then)
  /\ UNCHANGED <<ring, day, Local, refused, steps>>
\* A bug of Publish: the answer is not waited for.
PublishBlind == At("publish") /\ Cas(Candidate, "store-published")
Publish == At("publish") /\ Cas(Candidate, "publishing")
Answered(place, then) ==
  /\ At(place) /\ run.answer # "none"
  /\ IF run.answer = "ok" THEN run' = [run EXCEPT !.at = then, !.answer = "none"] ELSE Raise
  /\ UNCHANGED <<Remote, Local, refused, steps>>
Published == Answered("publishing", "store-published")
StorePublished ==
  /\ At("store-published")
  /\ journal' = "ring-published"
  /\ run' = [run EXCEPT !.at = "select", !.rows = Candidate]
  /\ UNCHANGED <<Remote, keychain, pointer, refused, steps>>

SelectKey ==
  /\ At("select")
  /\ IF keychain["next"] # 0 /\ Row(run.rows, "next").key = keychain["next"]
     THEN pointer' = [pointer EXCEPT !.id = "next"] /\ Go("select-expiry")
     ELSE Raise /\ UNCHANGED pointer
  /\ UNCHANGED <<Remote, keychain, journal, refused, steps>>
SelectExpiry ==
  /\ At("select-expiry")
  /\ pointer' = [pointer EXCEPT !.expires = Row(run.rows, "next").expires]
  /\ Go("store-bridge")
  /\ UNCHANGED <<Remote, keychain, journal, refused, steps>>
StoreBridge == At("store-bridge") /\ Store("bridge-selected", "verify")

\* The worker runs with the key that is pointed at.
Accepted(i) == \E r \in ring : r.id = i /\ r.key = keychain[i] /\ day < r.expires
VerifySuccessor ==
  /\ At("verify")
  /\ IF Accepted(pointer.id) THEN Go("store-verified") ELSE Raise
  /\ UNCHANGED <<Remote, Local, refused, steps>>
\* The worker or a request fails.
Fails ==
  /\ run.at \in {"create", "verify", "retire", "deny"}
  /\ May("faults")
  /\ Raise
  /\ UNCHANGED <<Remote, Local, refused>>
StoreVerified == At("store-verified") /\ Store("successor-verified", "retire")

\* The ring is read anew and the old key taken out of it.
RetireOld ==
  /\ At("retire")
  /\ IF keychain["old"] # 0 /\ Named(ring) = Ids
     THEN /\ swaps' = swaps \cup {[expected |-> ring, rows |-> {Row(run.rows, "next")}, own |-> TRUE]}
          /\ Go("retiring")
     ELSE Raise /\ UNCHANGED swaps
  /\ UNCHANGED <<ring, day, Local, refused, steps>>
Retired == Answered("retiring", "deny")
\* The old key must be refused with a 403.
DenyOld ==
  /\ At("deny")
  /\ IF keychain["old"] # 0 /\ ~Accepted("old") THEN Go("store-denied") ELSE Raise
  /\ UNCHANGED <<Remote, Local, refused, steps>>
StoreDenied == At("store-denied") /\ Store("old-denied", "delete")
DeleteOld ==
  /\ At("delete")
  /\ keychain' = [keychain EXCEPT !["old"] = 0]
  /\ Go("store-retired")
  /\ UNCHANGED <<Remote, journal, pointer, refused, steps>>
StoreRetired == At("store-retired") /\ Store("retired", "asleep")

-----------------------------------------------------------------------------
(* The server, deaths and days.                                            *)

\* A bug of Swap: what is expected is not compared.
SwapAny(m) == ring' = m.rows
\* transaction: compare-and-swap of the ring.
Swap(m) == ring' = IF ring = m.expected THEN m.rows ELSE ring
SwapArrives(m) ==
  /\ m \in swaps
  /\ swaps' = swaps \ {m}
  /\ Swap(m)
  /\ run' = IF m.own THEN [run EXCEPT !.answer = IF ring = m.expected THEN "ok" ELSE "refused"] ELSE run
  /\ UNCHANGED <<day, Local, refused, steps>>
SwapLost(m) ==
  /\ m \in swaps /\ ~m.own
  /\ swaps' = swaps \ {m}
  /\ UNCHANGED <<ring, day, run, Local, refused, steps>>

Orphans == IF Late THEN {[m EXCEPT !.own = FALSE] : m \in swaps} ELSE {}
\* The run dies, or gives up a request after its time.
Crash ==
  /\ ~At("asleep")
  /\ May("crashes")
  /\ Raise /\ swaps' = Orphans
  /\ UNCHANGED <<ring, day, Local, refused>>
Tick ==
  /\ day < 21 + MaxDays
  /\ day' = day + 1
  /\ UNCHANGED <<ring, swaps, run, Local, refused, steps>>

RunStep ==
  \/ Begin \/ StorePrepared \/ CreateKey \/ ShortenExpiry \/ Publish \/ Published \/ StorePublished
  \/ SelectKey \/ SelectExpiry \/ StoreBridge \/ VerifySuccessor \/ StoreVerified
  \/ RetireOld \/ Retired \/ DenyOld \/ StoreDenied \/ DeleteOld \/ StoreRetired
ServerStep == \E m \in swaps : SwapArrives(m)
RotationNext == RunStep \/ ServerStep \/ (\E m \in swaps : SwapLost(m)) \/ Fails \/ Crash \/ Tick
RotationSpec == RotationInit /\ [][RotationNext]_rotationVars

\* The rotation is started again and again, and the server answers.
LiveSpec == RotationSpec /\ WF_rotationVars(RunStep) /\ WF_rotationVars(ServerStep)

-----------------------------------------------------------------------------
(* Properties.                                                             *)

\* The files have their types, and a ring has one or two keys
\* (install of review_action_keyring_admin.py).
RotationTypeOK ==
  /\ journal \in Phases /\ pointer.id \in Ids /\ keychain \in [Ids -> 0..2]
  /\ Named(ring) \subseteq Ids /\ Cardinality(ring) \in {1, 2}

\* Wherever a rotation dies, the key that is pointed at is in the ring and its
\* secret in the keychain: the worker is never left without a key
\* (the order of review_action_rotate.py).
PointerAccepted == \E r \in ring : r.id = pointer.id /\ r.key = keychain[r.id]

\* The file the alerts read never promises a longer life than the ring gives
\* the key (active-key-expires, check of review_action_supervisor.py).
PointerHonest == \A r \in ring : r.id = pointer.id => pointer.expires <= r.expires

\* A secret is not deleted while the ring still accepts it, and a key that was
\* retired does not come back, though swaps of dead runs arrive late.
SecretsKept == \A r \in ring : keychain[r.id] = r.key

\* The rotation ends, wherever it died before.
Rotates == <>(journal = "retired")

\* review_action_rotate.py:129 and 140 assert it: what a run has left in the
\* journal and in the ring, the next one can go on from.
Reconciles == ~refused
=============================================================================
