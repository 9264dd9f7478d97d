---------------------------- MODULE EffectsLibrary ----------------------------
(***************************************************************************)
(* The recording effects of the authors (effects_library.py): an index and *)
(* one media file for each effect, changed together under one lock, and    *)
(* put back when a step fails.                                             *)
(*                                                                         *)
(* A medium is known by its duration; effects that ship with a release     *)
(* keep their own medium and are overridden.  Requests of both processes   *)
(* wait for the one lock.  MaxAsks, MaxFaults and MaxCrashes bound         *)
(* requests, failing file operations and deaths of the process.            *)
(***************************************************************************)
EXTENDS Naturals, FiniteSets, Functions

CONSTANTS Requests, Uploads, Builtins, MaxAsks, MaxFaults, MaxCrashes

VARIABLES index,     \* index.json: effect -> entry
          media,     \* effect -> its file
          lock,      \* who changes the library, or None
          req,       \* the requests
          encoders,  \* requests whose encoder runs
          told,      \* effect -> how it may be shown, by the answers (a ghost)
          used, steps
vars == <<index, media, lock, req, encoders, told, used, steps>>

Ids == Uploads \cup Builtins
None == "none"
NoFile == 0
Durations == {1, 2}
Bundled == 3
EmptyFile == 4
Names == {"Spark", "Flash"}
Entry == [name : Names, dur : {1, 2, 3}, replaced : BOOLEAN, deleted : BOOLEAN]
Shipped == [name |-> "Spark", dur |-> Bundled, replaced |-> FALSE, deleted |-> FALSE]

\* How an effect is shown (public), or that it is not.
Effect(entry) == [name |-> entry.name, dur |-> entry.dur]
Gone == [name |-> None, dur |-> NoFile]

Kinds == {"asks", "faults", "crashes"}
Most == [asks |-> MaxAsks, faults |-> MaxFaults, crashes |-> MaxCrashes]
May(kind) == steps[kind] < Most[kind] /\ steps' = [steps EXCEPT ![kind] = @ + 1]

Free == [at |-> "free", op |-> None, id |-> None, name |-> "Spark", dur |-> Bundled,
         seen |-> <<>>, kept |-> NoFile, cancelled |-> FALSE]
Init ==
  /\ index = <<>>
  /\ media = [i \in Ids |-> NoFile]
  /\ lock = None
  /\ req = [r \in Requests |-> Free]
  /\ encoders = {}
  /\ told = [i \in Ids |-> {IF i \in Builtins THEN Effect(Shipped) ELSE Gone}]
  /\ used = {} /\ steps = [k \in Kinds |-> 0]

-----------------------------------------------------------------------------
(* What the library shows.                                                 *)

\* library_items: overridden built-ins, less the deleted, and the uploads.
EntryOf(i, x) == IF i \in DOMAIN x THEN x[i] ELSE Shipped
Listed(x) == {i \in Builtins : ~EntryOf(i, x).deleted} \cup (DOMAIN x \ Builtins)
Shown(i, x) == IF i \in Listed(x) THEN Effect(EntryOf(i, x)) ELSE Gone
Plays(i) == IF i \in Builtins /\ ~(EntryOf(i, index).replaced /\ media[i] # NoFile) THEN Bundled ELSE media[i]
With(x, i, entry) == [j \in DOMAIN x \cup {i} |-> IF j = i THEN entry ELSE x[j]]

-----------------------------------------------------------------------------
(* Requests, the lock and the encoder.                                     *)

At(r, place) == req[r].at = place
Go(r, place) == req' = [req EXCEPT ![r].at = place]
Library == <<index, media, told, used>>

Ask(r, op, i, name, dur) ==
  /\ At(r, "free")
  /\ op = "create" => i \in Uploads \ used
  /\ op # "create" => i \in Builtins \cup used
  /\ May("asks")
  /\ used' = IF op = "create" THEN used \cup {i} ELSE used
  /\ req' = [req EXCEPT ![r] = [Free EXCEPT !.at = "waiting", !.op = op, !.id = i, !.name = name, !.dur = dur]]
  /\ UNCHANGED <<index, media, lock, encoders, told>>

Leave(r) == req' = [req EXCEPT ![r] = Free]
\* A bug of Release: a cancelled request keeps the lock.
ReleaseUnless(r) == Leave(r) /\ lock' = IF req[r].cancelled THEN lock ELSE None
Release(r) == Leave(r) /\ lock' = None

\* A bug of MayEnter: uploads do not wait for each other.
MayEnterAny(r) == lock = None \/ req[r].op \in {"create", "replace"}
\* mutation_transaction
MayEnter(r) == lock = None
Enter(r) ==
  /\ At(r, "waiting") /\ MayEnter(r)
  /\ IF req[r].op # "create" /\ req[r].id \notin Listed(index)
     THEN Leave(r) /\ UNCHANGED lock
     ELSE /\ lock' = r
          /\ req' = [req EXCEPT ![r].seen = index,
                       ![r].at = CASE req[r].op \in {"create", "replace"} -> "stream"
                                   [] req[r].op = "rename" -> "body"
                                   [] OTHER -> IF req[r].id \in Builtins THEN "save" ELSE "bury"]
  /\ UNCHANGED <<Library, encoders, steps>>

Stream(r) == At(r, "stream") /\ encoders' = encoders \cup {r} /\ Go(r, "encode") /\ UNCHANGED <<Library, lock, steps>>
\* normalize_with_admission: the encoder ends by itself, and a request that was
\* cancelled meanwhile is given up then.
Encoded(r) ==
  /\ r \in encoders
  /\ encoders' = encoders \ {r}
  /\ IF At(r, "encode")
     THEN IF req[r].cancelled THEN Release(r) ELSE Go(r, "place") /\ UNCHANGED lock
     ELSE UNCHANGED <<req, lock>>
  /\ UNCHANGED <<Library, steps>>
EncodeFails(r) ==
  /\ At(r, "encode") /\ May("faults")
  /\ encoders' = encoders \ {r}
  /\ Release(r)
  /\ UNCHANGED Library
Body(r) == At(r, "body") /\ Go(r, "save") /\ UNCHANGED <<Library, lock, encoders, steps>>

\* A bug of Abandon: the request does not wait for its encoder.
AbandonAll(r) == Release(r)
\* Nothing is awaited after the encoder has ended, or for a deletion.
Abandon(r) == IF At(r, "encode") THEN req' = [req EXCEPT ![r].cancelled = TRUE] /\ UNCHANGED lock ELSE Release(r)
Cancel(r) ==
  /\ \/ At(r, "waiting") /\ Leave(r) /\ UNCHANGED lock
     \/ req[r].at \in {"stream", "body", "encode"} /\ ~req[r].cancelled /\ Abandon(r)
  /\ UNCHANGED <<Library, encoders, steps>>

-----------------------------------------------------------------------------
(* The files.  Each step may fail; operations in a row that end a request  *)
(* alike fail as one.  The removal of a temporary file whose name has been *)
(* moved away already does not fail: there is nothing to remove.           *)

Own(r) == req[r].id
Fault(r, place) == May("faults") /\ Go(r, place) /\ UNCHANGED <<Library, lock, encoders>>
Put(r, file) == media' = [media EXCEPT ![Own(r)] = file]

\* A bug of Kept: no copy is made of what is replaced.
KeptNothing(r) == NoFile
Kept(r) == media[Own(r)]
\* The new medium takes its place; what was there is copied.
Place(r) ==
  /\ At(r, "place")
  /\ Put(r, req[r].dur)
  /\ req' = [req EXCEPT ![r].kept = Kept(r), ![r].at = "save"]
  /\ UNCHANGED <<index, lock, encoders, told, used, steps>>
\* The medium of an effect that is deleted becomes a tombstone.  If there is
\* none, the tombstone is the empty file that was made for it.
Bury(r) ==
  /\ At(r, "bury")
  /\ IF media[Own(r)] # NoFile
     THEN Put(r, NoFile) /\ req' = [req EXCEPT ![r].kept = media[Own(r)], ![r].at = "save"]
     ELSE UNCHANGED media /\ req' = [req EXCEPT ![r].kept = EmptyFile, ![r].at = "undo"]
  /\ UNCHANGED <<index, lock, encoders, told, used, steps>>

\* The entry a request leaves.
Changed(r) ==
  LET was == EntryOf(Own(r), req[r].seen) IN
  CASE req[r].op = "create"  -> [name |-> req[r].name, dur |-> req[r].dur, replaced |-> FALSE, deleted |-> FALSE]
    [] req[r].op = "rename"  -> [was EXCEPT !.name = req[r].name,
                                  !.replaced = Own(r) \in Builtins /\ media[Own(r)] # NoFile]
    [] req[r].op = "replace" -> [was EXCEPT !.dur = req[r].dur, !.replaced = Own(r) \in Builtins]
    [] OTHER                 -> [was EXCEPT !.deleted = TRUE]
Buries(r) == req[r].op = "delete" /\ Own(r) \notin Builtins
\* A bug of Saved: a hole is left where the effect was.
SavedHole(r) == With(req[r].seen, Own(r), IF Buries(r) THEN Free ELSE Changed(r))
Saved(r) == IF Buries(r) THEN Restrict(req[r].seen, DOMAIN req[r].seen \ {Own(r)})
            ELSE With(IF req[r].op = "create" THEN index ELSE req[r].seen, Own(r), Changed(r))
\* save_index
SaveIndex(r) ==
  /\ At(r, "save")
  /\ index' = Saved(r)
  /\ Go(r, IF Buries(r) THEN "unlink" ELSE "answer")
  /\ UNCHANGED <<media, lock, encoders, told, used, steps>>

Unlink(r) == At(r, "unlink") /\ Go(r, "answer") /\ UNCHANGED <<Library, lock, encoders, steps>>
\* A bug of Restore: the medium is put back and the index is not.
RestoreFile(r) == At(r, "restore") /\ Go(r, "undo") /\ UNCHANGED <<Library, lock, encoders, steps>>
\* The tombstone could not be removed.
Restore(r) ==
  /\ At(r, "restore")
  /\ index' = req[r].seen
  /\ Go(r, "undo")
  /\ UNCHANGED <<media, lock, encoders, told, used, steps>>
\* The file that was moved away comes back, or the new one is removed.
Undo(r) ==
  /\ At(r, "undo")
  /\ IF Buries(r) \/ req[r].op \in {"create", "replace"} THEN Put(r, req[r].kept) ELSE UNCHANGED media
  /\ Release(r)
  /\ UNCHANGED <<index, encoders, told, used, steps>>
\* What an effect is after a request that found it as v.
After(r, v) ==
  CASE req[r].op = "create"  -> [name |-> req[r].name, dur |-> req[r].dur]
    [] req[r].op = "rename"  -> [v EXCEPT !.name = req[r].name]
    [] req[r].op = "replace" -> [v EXCEPT !.dur = req[r].dur]
    [] OTHER                 -> Gone
Telling(r) == [told EXCEPT ![Own(r)] = {After(r, v) : v \in @}]
\* An error after the index was saved: who asked does not learn of the change.
Doubting(r) == [told EXCEPT ![Own(r)] = @ \cup {After(r, v) : v \in @}]

\* A bug of ErrsLate: the medium is put back under the new index.
ErrsLateUndone(r) ==
  /\ At(r, "answer") /\ req[r].op # "delete"
  /\ IF req[r].op = "replace" THEN Put(r, req[r].kept) ELSE UNCHANGED media
  /\ told' = Doubting(r) /\ UNCHANGED <<index, used>>
\* The backup, the files of the upload or the index that is read for the answer.
\* A deletion has none of them left; the others have changed the library.
ErrsLate(r) == At(r, "answer") /\ req[r].op # "delete" /\ told' = Doubting(r) /\ UNCHANGED <<index, media, used>>
Fails(r) ==
  \/ req[r].at \in {"place", "bury"} /\ May("faults") /\ Release(r) /\ UNCHANGED <<Library, encoders>>
  \/ req[r].at \in {"save", "restore"} /\ Fault(r, "undo")
  \/ At(r, "unlink") /\ Fault(r, "restore")
  \/ At(r, "undo") /\ May("faults") /\ Release(r) /\ UNCHANGED <<Library, encoders>>
  \/ ErrsLate(r) /\ May("faults") /\ Release(r) /\ UNCHANGED encoders

Answer(r) ==
  /\ At(r, "answer")
  /\ told' = Telling(r)
  /\ Release(r)
  /\ UNCHANGED <<index, media, encoders, used, steps>>

\* The process dies, and its encoders with it; what it kept is never read.
Crash ==
  /\ May("crashes")
  /\ lock' = None /\ req' = [r \in Requests |-> Free] /\ encoders' = {}
  /\ UNCHANGED Library

RequestStep(r) ==
  \/ Enter(r) \/ Stream(r) \/ Encoded(r) \/ Body(r) \/ Place(r) \/ Bury(r)
  \/ SaveIndex(r) \/ Unlink(r) \/ Restore(r) \/ Undo(r) \/ Answer(r)
Next ==
  \/ \E r \in Requests : RequestStep(r) \/ Cancel(r) \/ EncodeFails(r) \/ Fails(r)
  \/ \E r \in Requests, op \in {"create", "rename", "replace", "delete"}, i \in Ids, n \in Names, d \in Durations :
       /\ op \in {"rename", "delete"} => d = 1
       /\ op \in {"replace", "delete"} => n = "Spark"
       /\ Ask(r, op, i, n, d)
  \/ Crash
Spec == Init /\ [][Next]_vars

\* A request goes on, and the lock is given to each that waits.
LiveSpec == Spec /\ \A r \in Requests : WF_vars(RequestStep(r))

-----------------------------------------------------------------------------
(* Properties.                                                             *)

Idle == lock = None /\ encoders = {}

\* The library and its requests have their types.
TypeOK ==
  /\ DOMAIN index \subseteq Ids /\ \A i \in DOMAIN index : index[i] \in Entry
  /\ media \in [Ids -> 0..4]
  /\ lock \in Requests \cup {None} /\ encoders \subseteq Requests

\* What is listed can be played, and lasts as long as is said
\* (effects_library.py:1: "Durable").
PlaysAsListed == Idle => \A i \in Listed(index) : Plays(i) = EntryOf(i, index).dur

\* effects_library.py:228: "Restore both sides rather than leave an unreachable
\* file."
NoneUnreachable == Idle => \A i \in Uploads : media[i] # NoFile => i \in DOMAIN index

\* Every effect is shown as it was last answered, or as a request asked that
\* has ended in an error since, once its index was saved (:245, :260-263).  So
\* nothing answered is lost, nothing shows that nobody asked for, and a request
\* that errs before its index stands has changed nothing
\* (test_cross_process_mixed_mutations).
AsAnswered == Idle => \A i \in Ids : Shown(i, index) \in told[i]

\* A cancelled request does not let another encoder in beside its own
\* (normalize_with_admission).
OneEncoder == Cardinality(encoders) <= 1

\* Every request is answered or fails, cancelled encoders or not.
Served == \A r \in Requests : At(r, "waiting") ~> At(r, "free")
=============================================================================
