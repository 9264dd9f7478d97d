------------------------- MODULE EffectsLibraryProofs -------------------------
(***************************************************************************)
(* Theorems about the effects library, for any requests, uploads and       *)
(* built-in effects: one encoder at a time however often the process dies; *)
(* and, when one file operation fails and the process lives, the library   *)
(* that is left is as was answered, or asked in a request that ended in an *)
(* error after its index was saved, and all of it plays.                   *)
(***************************************************************************)
EXTENDS EffectsLibrary, FiniteSetTheorems, TLAPS

\* Names of effects are not shared by uploads and built-ins, and a request is
\* not called as the lock is when nobody holds it.
Distinct == Uploads \cap Builtins = {} /\ None \notin Requests

(***************************************************************************)
(* Where a request holds the lock, and which operations get there.         *)
(***************************************************************************)
Ops == {"create", "rename", "replace", "delete"}
Inside == {"stream", "encode", "body", "place", "bury", "save", "unlink", "restore", "undo", "answer"}
Encodes == {"stream", "encode", "place"}

Indexes(x) == DOMAIN x \subseteq Ids /\ x = [i \in DOMAIN x |-> x[i]] /\ \A i \in DOMAIN x : x[i] \in Entry

RequestType(q) ==
  /\ q = [at |-> q.at, op |-> q.op, id |-> q.id, name |-> q.name, dur |-> q.dur,
          seen |-> q.seen, kept |-> q.kept, cancelled |-> q.cancelled]
  /\ q.at \in {"free", "waiting"} \cup Inside
  /\ q.name \in Names /\ q.dur \in {1, 2, 3} /\ q.kept \in 0..4
  /\ q.at # "free" => q.op \in Ops /\ q.id \in Ids /\ q.dur \in Durations
  /\ q.at = "free" => q.op = None
  /\ q.at \in Inside => Indexes(q.seen)

Requested ==
  /\ DOMAIN req = Requests /\ req = [r \in Requests |-> req[r]]
  /\ \A r \in Requests : RequestType(req[r])
TypeInv ==
  /\ Indexes(index) /\ media \in [Ids -> 0..4]
  /\ Requested
  /\ steps \in [Kinds -> Nat]

(***************************************************************************)
(* The lock is held by the one request that is inside, and an encoder that *)
(* runs is that request's.                                                 *)
(***************************************************************************)
LockInv ==
  /\ lock \in Requests \cup {None} /\ encoders \subseteq Requests
  /\ \A r \in Requests : req[r].at \in Inside <=> lock = r
  /\ \A r \in Requests : r \in encoders <=> req[r].at = "encode"

ControlInv == TypeInv /\ LockInv

(***************************************************************************)
(* A library that is as it may be shown: what is listed has a medium that  *)
(* lasts as long as its entry says, and no other upload has one.           *)
(***************************************************************************)
Whole(x, files, said) ==
  /\ \A i \in Uploads : i \in DOMAIN x <=> files[i] # NoFile
  /\ \A i \in Uploads : i \in DOMAIN x => x[i].dur = files[i]
  /\ \A i \in Builtins : ~EntryOf(i, x).deleted =>
       /\ EntryOf(i, x).replaced <=> files[i] # NoFile
       /\ EntryOf(i, x).dur = IF files[i] # NoFile THEN files[i] ELSE Bundled
  /\ \A i \in Ids : Shown(i, x) \in said[i]

(***************************************************************************)
(* The media as they were before the request that is inside moved one.     *)
(***************************************************************************)
Moves(r) == Buries(r) \/ req[r].op \in {"create", "replace"}
Before(r) == IF Moves(r) THEN [media EXCEPT ![Own(r)] = req[r].kept] ELSE media

\* What a request that is inside leaves or can put back, at each of its places.
InsideInv(r) ==
  /\ req[r].op # "create" => Own(r) \in Listed(req[r].seen)
  /\ req[r].at \in Encodes => req[r].op \in {"create", "replace"}
  /\ At(r, "body") => req[r].op = "rename"
  /\ At(r, "bury") => Buries(r)
  /\ req[r].at \in {"unlink", "restore"} => Buries(r)
  /\ req[r].at \in {"unlink", "restore"} =>
       index = Restrict(req[r].seen, DOMAIN req[r].seen \ {Own(r)})
  /\ req[r].at \in Inside \ {"unlink", "restore", "answer"} => index = req[r].seen
  /\ req[r].at \in Encodes \cup {"body", "bury"} => Whole(index, media, told)
  /\ req[r].at \in {"save", "unlink", "restore", "undo"} => Whole(req[r].seen, Before(r), told)
  /\ At(r, "save") /\ req[r].op \in {"create", "replace"} => media[Own(r)] = req[r].dur
  /\ req[r].at \in {"save", "unlink", "restore"} /\ Buries(r) => media[Own(r)] = NoFile
  /\ req[r].at \in {"restore", "undo"} => steps["faults"] >= 1
  /\ At(r, "answer") => Whole(index, media, Telling(r))

(***************************************************************************)
(* An effect is created once: its name is taken when it is asked for.      *)
(***************************************************************************)
Fresh(x, taken, asked) ==
  /\ DOMAIN x \ Builtins \subseteq taken
  /\ \A r \in Requests : asked[r].op = "create" /\ asked[r].at # "answer" => asked[r].id \notin DOMAIN x
CreateInv ==
  /\ Fresh(index, used, req)
  /\ \A r \in Requests : lock = r /\ ~At(r, "answer") => Fresh(req[r].seen, used, req)
  /\ \A r \in Requests : req[r].op = "create" => Own(r) \in Uploads \cap used
  /\ \A r, q \in Requests : req[r].op = "create" /\ req[q].op = "create" /\ Own(r) = Own(q) => r = q

LibraryInv ==
  /\ DOMAIN told = Ids
  /\ steps["faults"] <= 1
  /\ lock = None => Whole(index, media, told)
  /\ \A r \in Requests : lock = r => InsideInv(r)
  /\ CreateInv

-----------------------------------------------------------------------------
(* Entries and indexes.                                                    *)

\* Whatever an index says of an effect is an entry.
LEMMA EntryTypes == ASSUME NEW x, Indexes(x), NEW i PROVE EntryOf(i, x) \in Entry
BY DEF Indexes, EntryOf, Shipped, Entry, Names, Bundled

\* An index with one more entry, or another one, is an index.
LEMMA WithTypes ==
  ASSUME NEW x, Indexes(x), NEW i \in Ids, NEW e \in Entry
  PROVE  /\ Indexes(With(x, i, e))
         /\ DOMAIN With(x, i, e) = DOMAIN x \cup {i}
         /\ With(x, i, e)[i] = e
         /\ \A j \in DOMAIN x : j # i => With(x, i, e)[j] = x[j]
BY DEF Indexes, With

\* An index without one of its entries is an index.
LEMMA RestrictTypes ==
  ASSUME NEW x, Indexes(x), NEW i
  PROVE  LET y == Restrict(x, DOMAIN x \ {i}) IN
         /\ Indexes(y) /\ DOMAIN y = DOMAIN x \ {i}
         /\ \A j \in DOMAIN x \ {i} : y[j] = x[j]
BY DEF Indexes, Restrict

\* The entry that a request inside leaves is an entry.
LEMMA ChangedTypes ==
  ASSUME TypeInv, NEW r \in Requests, req[r].at \in Inside
  PROVE  Changed(r) \in Entry
<1> DEFINE was == EntryOf(Own(r), req[r].seen)
<1>1. was \in Entry
  BY EntryTypes DEF TypeInv, Requested, RequestType
<1>2. req[r].name \in Names /\ req[r].dur \in {1, 2, 3}
  BY DEF TypeInv, Requested, RequestType
<1>3. was = EntryOf(Own(r), req[r].seen)
  OBVIOUS
<1> HIDE DEF was
<1>4. \A n \in Names, d \in {1, 2, 3}, b \in BOOLEAN :
        /\ [name |-> n, dur |-> d, replaced |-> b, deleted |-> FALSE] \in Entry
        /\ [was EXCEPT !.name = n, !.replaced = b] \in Entry
        /\ [was EXCEPT !.dur = d, !.replaced = b] \in Entry
        /\ [was EXCEPT !.deleted = TRUE] \in Entry
  BY <1>1 DEF Entry
<1>5. /\ (Own(r) \in Builtins /\ media[Own(r)] # NoFile) \in BOOLEAN
      /\ (Own(r) \in Builtins) \in BOOLEAN /\ FALSE \in BOOLEAN
  OBVIOUS
<1>6. QED  BY <1>2, <1>3, <1>4, <1>5, Zenon DEF Changed

-----------------------------------------------------------------------------
(* The lock, for any number of deaths.                                     *)

\* A request that moves on keeps the lock to itself, if it takes or holds it
\* where it comes to, and gives it back if not; and it encodes at "encode".
LEMMA OneRequest ==
  ASSUME Distinct, ControlInv, NEW r \in Requests, NEW q, RequestType(q),
         req' = [req EXCEPT ![r] = q],
         q.at \in Inside => lock \in {None, r},
         lock' = IF q.at \in Inside THEN r ELSE IF lock = r THEN None ELSE lock,
         encoders' = IF q.at = "encode" THEN encoders \cup {r} ELSE encoders \ {r}
  PROVE  Requested' /\ LockInv'
<1>1. Requested /\ LockInv /\ None \notin Requests
  BY DEF ControlInv, TypeInv, Distinct
<1>2. req'[r] = q /\ \A s \in Requests \ {r} : req'[s] = req[s]
  BY <1>1 DEF Requested
<1>3. Requested'
  BY <1>1, <1>2 DEF Requested
<1>4. \A s \in Requests : req'[s].at \in Inside <=> lock' = s
  BY <1>1, <1>2 DEF LockInv
<1>5. \A s \in Requests : s \in encoders' <=> req'[s].at = "encode"
  BY <1>1, <1>2 DEF LockInv
<1>6. lock' \in Requests \cup {None} /\ encoders' \subseteq Requests
  BY <1>1 DEF LockInv
<1>7. QED  BY <1>3, <1>4, <1>5, <1>6 DEF LockInv

\* A request that is sent, given up or ended is free of the lock; what it is
\* then, and what it is after any other step, has its type.
LEMMA RequestTypes ==
  ASSUME TypeInv, NEW r \in Requests
  PROVE  /\ RequestType(Free)
         /\ RequestType(req[r])
         /\ \A place \in Inside : req[r].at \in Inside => RequestType([req[r] EXCEPT !.at = place])
         /\ \A place \in Inside, file \in 0..4 :
              req[r].at \in Inside => RequestType([req[r] EXCEPT !.kept = file, !.at = place])
         /\ \A flag \in BOOLEAN : RequestType([req[r] EXCEPT !.cancelled = flag])
         /\ \A place \in Inside : \A x : Indexes(x) /\ req[r].at = "waiting" =>
              RequestType([req[r] EXCEPT !.seen = x, !.at = place])
         /\ \A op \in Ops, i \in Ids, n \in Names, d \in Durations :
              RequestType([Free EXCEPT !.at = "waiting", !.op = op, !.id = i, !.name = n, !.dur = d])
<1>1. RequestType(req[r])
  BY DEF TypeInv, Requested
<1>2. RequestType(Free)
  BY DEF RequestType, Free, Inside, Names, NoFile, Bundled
<1>3. \A place \in Inside : req[r].at \in Inside => RequestType([req[r] EXCEPT !.at = place])
  BY <1>1 DEF RequestType, Inside
<1>4. \A place \in Inside, file \in 0..4 :
        req[r].at \in Inside => RequestType([req[r] EXCEPT !.kept = file, !.at = place])
  <2> SUFFICES ASSUME NEW place \in Inside, NEW file \in 0..4, req[r].at \in Inside,
                      NEW q, q = [req[r] EXCEPT !.kept = file, !.at = place]
               PROVE  RequestType(q)
    OBVIOUS
  <2>1. /\ q = [at |-> place, op |-> req[r].op, id |-> req[r].id, name |-> req[r].name, dur |-> req[r].dur,
               seen |-> req[r].seen, kept |-> file, cancelled |-> req[r].cancelled]
        /\ "free" \notin Inside
    BY <1>1 DEF RequestType, Inside
  <2>2. QED  BY <1>1, <2>1 DEF RequestType
<1>5. \A flag \in BOOLEAN : RequestType([req[r] EXCEPT !.cancelled = flag])
  BY <1>1 DEF RequestType
<1>6. \A place \in Inside : \A x : Indexes(x) /\ req[r].at = "waiting" =>
        RequestType([req[r] EXCEPT !.seen = x, !.at = place])
  <2> SUFFICES ASSUME NEW place \in Inside, NEW x, Indexes(x), req[r].at = "waiting",
                      NEW q, q = [req[r] EXCEPT !.seen = x, !.at = place]
               PROVE  RequestType(q)
    OBVIOUS
  <2>1. /\ q = [at |-> place, op |-> req[r].op, id |-> req[r].id, name |-> req[r].name, dur |-> req[r].dur,
               seen |-> x, kept |-> req[r].kept, cancelled |-> req[r].cancelled]
        /\ "free" \notin Inside
    BY <1>1 DEF RequestType, Inside
  <2>2. QED  BY <1>1, <2>1 DEF RequestType
<1>7. \A op \in Ops, i \in Ids, n \in Names, d \in Durations :
        RequestType([Free EXCEPT !.at = "waiting", !.op = op, !.id = i, !.name = n, !.dur = d])
  <2> SUFFICES ASSUME NEW op \in Ops, NEW i \in Ids, NEW n \in Names, NEW d \in Durations
               PROVE  RequestType([Free EXCEPT !.at = "waiting", !.op = op, !.id = i, !.name = n, !.dur = d])
    OBVIOUS
  <2>1. PICK q : q = [Free EXCEPT !.at = "waiting", !.op = op, !.id = i, !.name = n, !.dur = d]
    OBVIOUS
  <2>2. q = [at |-> "waiting", op |-> op, id |-> i, name |-> n, dur |-> d,
             seen |-> Free.seen, kept |-> NoFile, cancelled |-> Free.cancelled]
    BY <2>1 DEF Free
  <2>3. q.at = "waiting" /\ q.op = op /\ q.id = i /\ q.name = n /\ q.dur = d /\ q.kept = NoFile
    BY <2>2
  <2>4. q = [at |-> q.at, op |-> q.op, id |-> q.id, name |-> q.name, dur |-> q.dur,
             seen |-> q.seen, kept |-> q.kept, cancelled |-> q.cancelled]
    BY <2>2
  <2>5. d \in {1, 2, 3} /\ NoFile \in 0..4 /\ "waiting" \notin Inside
    BY DEF Durations, NoFile, Inside
  <2>6. RequestType(q)
    BY <2>3, <2>4, <2>5 DEF RequestType
  <2>7. QED  BY <2>1, <2>6
<1>8. QED  BY <1>1, <1>2, <1>3, <1>4, <1>5, <1>6, <1>7

\* The library begins in order.
LEMMA InitControl == ASSUME Distinct, Init PROVE ControlInv
<1>1. Indexes(index) /\ media \in [Ids -> 0..4] /\ steps \in [Kinds -> Nat]
  BY DEF Init, Indexes, NoFile
<1>2. DOMAIN req = Requests /\ \A r \in Requests : req[r] = Free
  BY DEF Init
<1>3. Requested
  <2>1. RequestType(Free)
    BY DEF RequestType, Free, Inside, Names, NoFile, Bundled
  <2>2. req = [r \in Requests |-> req[r]]
    BY DEF Init
  <2>3. QED  BY <1>2, <2>1, <2>2 DEF Requested
<1>4. LockInv
  BY <1>2 DEF Init, LockInv, Free, Inside, Distinct
<1>5. QED  BY <1>1, <1>3, <1>4 DEF ControlInv, TypeInv

\* A step of a request that keeps the lock keeps it for itself.
LEMMA StaysInside ==
  ASSUME Distinct, ControlInv, NEW r \in Requests, NEW place \in Inside \ {"encode"}, NEW file \in 0..4,
         req[r].at \in Inside, UNCHANGED lock, encoders' = encoders \ {r},
         \/ Go(r, place)
         \/ req' = [req EXCEPT ![r] = [req[r] EXCEPT !.kept = file, !.at = place]]
  PROVE  Requested' /\ LockInv'
<1>1. TypeInv /\ lock = r /\ req[r] = [req[r] EXCEPT !.kept = req[r].kept] /\ req[r].kept \in 0..4
  BY DEF ControlInv, TypeInv, LockInv, Requested, RequestType
<1>2. PICK kept \in 0..4 : req' = [req EXCEPT ![r] = [req[r] EXCEPT !.kept = kept, !.at = place]]
  <2>1. CASE Go(r, place)
    <3>1. req' = [req EXCEPT ![r] = [req[r] EXCEPT !.kept = req[r].kept, !.at = place]]
      BY <1>1, <2>1 DEF Go
    <3>2. QED  BY <1>1, <3>1
  <2>2. QED  BY <2>1
<1>3. PICK q : q = [req[r] EXCEPT !.kept = kept, !.at = place]
  OBVIOUS
<1>4. RequestType(q)
  BY <1>1, <1>3, RequestTypes
<1>5. q.at = place /\ place # "encode" /\ place \in Inside
  BY <1>1, <1>3 DEF TypeInv, Requested, RequestType
<1>6. QED  BY <1>1, <1>2, <1>3, <1>4, <1>5, OneRequest

\* A request that ends gives the lock back.
LEMMA Releases ==
  ASSUME Distinct, ControlInv, NEW r \in Requests, req[r].at \in Inside, Release(r), encoders' = encoders \ {r}
  PROVE  Requested' /\ LockInv' /\ lock' = None
<1>1. TypeInv /\ lock = r
  BY DEF ControlInv, LockInv
<1>2. RequestType(Free) /\ Free.at = "free" /\ "free" \notin Inside
  BY <1>1, RequestTypes DEF Free, Inside
<1>3. req' = [req EXCEPT ![r] = Free] /\ lock' = None
  BY DEF Release, Leave
<1>4. QED  BY <1>1, <1>2, <1>3, OneRequest

\* A request that waits or ends its wait does not touch the lock.
LEMMA StaysOutside ==
  ASSUME Distinct, ControlInv, NEW r \in Requests, NEW q, RequestType(q), req' = [req EXCEPT ![r] = q],
         req[r].at \notin Inside, q.at \notin Inside, UNCHANGED <<lock, encoders>>
  PROVE  Requested' /\ LockInv'
<1>1. lock # r /\ r \notin encoders /\ q.at # "encode"
  BY DEF ControlInv, LockInv, Inside
<1>2. QED  BY <1>1, OneRequest

\* Every step keeps the lock and the types.
LEMMA ControlStep == ASSUME Distinct, ControlInv, [Next]_vars PROVE ControlInv'
<1>0. /\ TypeInv /\ LockInv /\ Requested
      /\ Indexes(index) /\ media \in [Ids -> 0..4] /\ steps \in [Kinds -> Nat]
  BY DEF ControlInv, TypeInv
<1>a. ASSUME NEW kind \in Kinds, May(kind) PROVE steps' \in [Kinds -> Nat]
  BY <1>0, <1>a DEF May
<1>b. ASSUME Requested' /\ LockInv', Indexes(index'), media' \in [Ids -> 0..4], steps' \in [Kinds -> Nat]
      PROVE  ControlInv'
  BY <1>b DEF ControlInv, TypeInv, Indexes
<1>d. "asks" \in Kinds /\ "faults" \in Kinds /\ "crashes" \in Kinds
  BY DEF Kinds
<1>c. "free" \notin Inside /\ "waiting" \notin Inside /\ Free.at = "free"
  BY DEF Inside, Free
<1>1. ASSUME NEW r \in Requests, Enter(r) PROVE ControlInv'
  <2>1. Requested' /\ LockInv'
    <3>1. CASE req[r].op # "create" /\ req[r].id \notin Listed(index)
      BY <1>0, <1>1, <1>c, <3>1, RequestTypes, StaysOutside DEF Enter, Leave, At
    <3>2. CASE ~(req[r].op # "create" /\ req[r].id \notin Listed(index))
      <4>1. PICK place \in Inside \ {"encode"} : req' = [req EXCEPT ![r] = [req[r] EXCEPT !.seen = index, !.at = place]]
        <5>1. PICK place : /\ place \in {"stream", "body", "save", "bury"}
                           /\ req' = [req EXCEPT ![r].seen = index, ![r].at = place]
          BY <1>1, <3>2, Zenon DEF Enter
        <5>2. QED  BY <1>0, <5>1 DEF Inside, Requested
      <4>2. PICK q : q = [req[r] EXCEPT !.seen = index, !.at = place]
        OBVIOUS
      <4>3. RequestType(q)
        BY <1>0, <1>1, <4>2, RequestTypes DEF Enter, At
      <4>6. q.at = place /\ place # "encode" /\ place \in Inside
        BY <1>0, <4>2 DEF Requested, RequestType
      <4>7. req' = [req EXCEPT ![r] = q] /\ lock = None /\ lock' = r
        BY <1>1, <3>2, <4>1, <4>2 DEF Enter, MayEnter
      <4>4. encoders' = encoders \ {r}
        BY <1>0, <1>1 DEF Enter, At, LockInv
      <4>5. QED  BY <4>3, <4>4, <4>6, <4>7, OneRequest
    <3>3. QED  BY <3>1, <3>2
  <2>2. QED  BY <1>0, <1>1, <1>b, <2>1 DEF Enter, Library
<1>2. ASSUME NEW r \in Requests, Stream(r) PROVE ControlInv'
  <2>1. PICK q : q = [req[r] EXCEPT !.at = "encode"]
    OBVIOUS
  <2>2. RequestType(q) /\ q.at = "encode" /\ req' = [req EXCEPT ![r] = q] /\ lock = r
    <3>1. req[r].at = "stream" /\ "stream" \in Inside /\ "encode" \in Inside
      BY <1>2 DEF Stream, At, Inside
    <3>2. RequestType(q) /\ lock = r
      BY <1>0, <2>1, <3>1, RequestTypes DEF LockInv
    <3>3. q.at = "encode" /\ req' = [req EXCEPT ![r] = q]
      BY <1>0, <1>2, <2>1 DEF Stream, Go, Requested, RequestType
    <3>4. QED  BY <3>2, <3>3
  <2>3. Requested' /\ LockInv'
    BY <1>2, <2>2, OneRequest DEF Stream, Inside
  <2>4. QED  BY <1>0, <1>2, <1>b, <2>3 DEF Stream, Library
<1>3. ASSUME NEW r \in Requests, Encoded(r) PROVE ControlInv'
  <2>1. At(r, "encode") /\ req[r].at \in Inside
    BY <1>0, <1>3 DEF Encoded, LockInv, At, Inside
  <2>2. Requested' /\ LockInv'
    <3>1. CASE req[r].cancelled
      BY <1>3, <2>1, <3>1, Releases DEF Encoded
    <3>2. CASE ~req[r].cancelled
      <4>1. Go(r, "place") /\ UNCHANGED lock /\ encoders' = encoders \ {r}
        BY <1>3, <2>1, <3>2 DEF Encoded
      <4>2. "place" \in Inside \ {"encode"} /\ 0 \in 0..4
        BY DEF Inside
      <4>3. QED  BY <2>1, <4>1, <4>2, StaysInside
    <3>3. QED  BY <3>1, <3>2
  <2>3. QED  BY <1>0, <1>3, <1>b, <2>2 DEF Encoded, Library
<1>4. ASSUME NEW r \in Requests, Body(r) \/ Unlink(r) \/ Restore(r) \/ SaveIndex(r) PROVE ControlInv'
  <2>1. req[r].at \in Inside /\ encoders' = encoders \ {r}
    BY <1>0, <1>4 DEF Body, Unlink, Restore, SaveIndex, LockInv, At, Inside
  <2>2. Requested' /\ LockInv'
    <3>1. PICK place \in {"save", "answer", "undo", "unlink"} : Go(r, place) /\ UNCHANGED lock
      BY <1>4 DEF Body, Unlink, Restore, SaveIndex
    <3>2. place \in Inside \ {"encode"} /\ 0 \in 0..4
      BY DEF Inside
    <3>3. QED  BY <2>1, <3>1, <3>2, StaysInside
  <2>3. Indexes(index')
    <3>1. CASE SaveIndex(r)
      <4>1. Indexes(req[r].seen) /\ Own(r) \in Ids /\ Changed(r) \in Entry
        BY <1>0, <2>1, <1>c, ChangedTypes DEF Requested, RequestType, Own
      <4>2. Indexes(Saved(r))
        BY <1>0, <4>1, WithTypes, RestrictTypes DEF Saved
      <4>3. QED  BY <3>1, <4>2 DEF SaveIndex
    <3>2. CASE Restore(r)
      BY <1>0, <2>1, <3>2 DEF Restore, Requested, RequestType
    <3>3. QED  BY <1>0, <1>4, <3>1, <3>2 DEF Body, Unlink, Library
  <2>4. QED  BY <1>0, <1>4, <1>b, <2>2, <2>3 DEF Body, Unlink, Restore, SaveIndex, Library
<1>5. ASSUME NEW r \in Requests, Place(r) \/ Bury(r) PROVE ControlInv'
  <2>1. req[r].at \in Inside /\ encoders' = encoders \ {r} /\ Own(r) \in Ids
    BY <1>0, <1>5 DEF Place, Bury, LockInv, At, Inside, Requested, RequestType, Own
  <2>2. PICK place \in Inside \ {"encode"}, file \in 0..4 :
          req' = [req EXCEPT ![r] = [req[r] EXCEPT !.kept = file, !.at = place]]
    <3>1. PICK place, file : /\ place \in {"save", "undo"} /\ file \in {media[Own(r)], EmptyFile}
                             /\ req' = [req EXCEPT ![r].kept = file, ![r].at = place]
      BY <1>5, Zenon DEF Place, Bury, Kept
    <3>2. place \in Inside \ {"encode"} /\ file \in 0..4
      BY <1>0, <2>1, <3>1 DEF Inside, EmptyFile
    <3>3. req' = [req EXCEPT ![r] = [req[r] EXCEPT !.kept = file, !.at = place]]
      BY <1>0, <3>1 DEF Requested
    <3>4. QED  BY <3>2, <3>3
  <2>3. Requested' /\ LockInv'
    BY <1>5, <2>1, <2>2, StaysInside DEF Place, Bury
  <2>4. media' \in [Ids -> 0..4]
    BY <1>0, <1>5, <2>1 DEF Place, Bury, Put, NoFile, Requested, RequestType
  <2>5. QED  BY <1>0, <1>5, <1>b, <2>3, <2>4 DEF Place, Bury
<1>6. ASSUME NEW r \in Requests, Undo(r) \/ Answer(r) PROVE ControlInv'
  <2>1. req[r].at \in Inside /\ encoders' = encoders \ {r} /\ Release(r)
    BY <1>0, <1>6 DEF Undo, Answer, LockInv, At, Inside
  <2>2. Requested' /\ LockInv'
    BY <2>1, Releases
  <2>3. media' \in [Ids -> 0..4]
    BY <1>0, <1>6 DEF Undo, Answer, Put, Requested, RequestType
  <2>4. QED  BY <1>0, <1>6, <1>b, <2>2, <2>3 DEF Undo, Answer
<1>7. ASSUME NEW r \in Requests, Cancel(r) PROVE ControlInv'
  <2>1. CASE At(r, "waiting") /\ Leave(r) /\ UNCHANGED lock
    <3>1. Requested' /\ LockInv'
      BY <1>0, <1>7, <1>c, <2>1, RequestTypes, StaysOutside DEF Cancel, At, Leave
    <3>2. QED  BY <1>0, <1>7, <1>b, <3>1 DEF Cancel, Library
  <2>2. CASE req[r].at \in {"stream", "body", "encode"} /\ Abandon(r)
    <3>1. CASE At(r, "encode")
      <4>1. PICK q : q = [req[r] EXCEPT !.cancelled = TRUE]
        OBVIOUS
      <4>2. RequestType(q) /\ q.at = "encode" /\ req' = [req EXCEPT ![r] = q]
        <5>1. TRUE \in BOOLEAN /\ req[r].at = "encode"
          BY <3>1 DEF At
        <5>2. RequestType(q)
          BY <1>0, <4>1, <5>1, RequestTypes
        <5>3. q.at = "encode" /\ req' = [req EXCEPT ![r] = q]
          BY <1>0, <2>2, <3>1, <4>1, <5>1 DEF Abandon, Requested, RequestType
        <5>4. QED  BY <5>2, <5>3
      <4>3. lock = r /\ r \in encoders /\ UNCHANGED <<lock, encoders>>
        BY <1>0, <1>7, <2>2, <3>1 DEF LockInv, Inside, At, Abandon, Cancel
      <4>4. Requested' /\ LockInv'
        BY <4>2, <4>3, OneRequest DEF Inside
      <4>5. QED  BY <1>0, <1>7, <1>b, <4>4 DEF Cancel, Library
    <3>2. CASE ~At(r, "encode")
      <4>1. Release(r) /\ req[r].at \in Inside /\ encoders' = encoders \ {r}
        BY <1>0, <1>7, <2>2, <3>2 DEF Abandon, Cancel, Inside, LockInv, At
      <4>2. Requested' /\ LockInv'
        BY <4>1, Releases
      <4>3. QED  BY <1>0, <1>7, <1>b, <4>2 DEF Cancel, Library
    <3>3. QED  BY <3>1, <3>2
  <2>3. QED  BY <1>7, <2>1, <2>2 DEF Cancel
<1>8. ASSUME NEW r \in Requests, EncodeFails(r) PROVE ControlInv'
  <2>1. Requested' /\ LockInv'
    BY <1>8, Releases DEF EncodeFails, At, Inside
  <2>2. QED  BY <1>0, <1>8, <1>a, <1>b, <1>d, <2>1 DEF EncodeFails, Library
<1>9. ASSUME NEW r \in Requests, Fails(r) PROVE ControlInv'
  <2>1. req[r].at \in Inside /\ encoders' = encoders \ {r}
    BY <1>0, <1>9 DEF Fails, ErrsLate, Fault, LockInv, At, Inside
  <2>2. Requested' /\ LockInv'
    <3>1. CASE Release(r)
      BY <2>1, <3>1, Releases
    <3>2. CASE ~Release(r)
      <4>1. PICK place \in {"undo", "restore"} : Go(r, place) /\ UNCHANGED lock
        BY <1>9, <3>2 DEF Fails, Fault
      <4>2. place \in Inside \ {"encode"} /\ 0 \in 0..4
        BY DEF Inside
      <4>3. QED  BY <2>1, <4>1, <4>2, StaysInside
    <3>3. QED  BY <3>1, <3>2
  <2>3. steps' \in [Kinds -> Nat]
    BY <1>9, <1>a, <1>d DEF Fails, Fault
  <2>4. QED  BY <1>0, <1>9, <1>b, <2>2, <2>3 DEF Fails, ErrsLate, Fault, Library
<1>10. ASSUME NEW r \in Requests, NEW op \in Ops, NEW i \in Ids, NEW n \in Names, NEW d \in Durations,
              Ask(r, op, i, n, d)
       PROVE  ControlInv'
  <2>1. PICK q : q = [Free EXCEPT !.at = "waiting", !.op = op, !.id = i, !.name = n, !.dur = d]
    OBVIOUS
  <2>2. RequestType(q) /\ q.at = "waiting" /\ req' = [req EXCEPT ![r] = q]
    BY <1>0, <1>10, <2>1, RequestTypes DEF Ask, Free
  <2>3. Requested' /\ LockInv'
    BY <1>10, <1>c, <2>2, StaysOutside DEF Ask, At
  <2>4. QED  BY <1>0, <1>10, <1>a, <1>b, <1>d, <2>3 DEF Ask
<1>11. CASE Crash
  <2>1. RequestType(Free)
    BY DEF RequestType, Free, Inside, Names, NoFile, Bundled
  <2>2. Requested'
    BY <1>11, <2>1 DEF Crash, Requested
  <2>3. LockInv'
    <3>1. \A r \in Requests : req'[r] = Free /\ None # r
      BY <1>11 DEF Crash, Distinct
    <3>2. lock' = None /\ encoders' = {} /\ Free.at # "encode"
      BY <1>11, <1>c DEF Crash, Free
    <3>3. QED  BY <1>c, <3>1, <3>2 DEF LockInv
  <2>4. QED  BY <1>0, <1>11, <1>a, <1>b, <1>d, <2>2, <2>3 DEF Crash, Library
<1>12. CASE UNCHANGED vars
  BY <1>12 DEF vars, ControlInv, TypeInv, LockInv, Requested, Indexes
<1>13. QED
  BY <1>1, <1>2, <1>3, <1>4, <1>5, <1>6, <1>7, <1>8, <1>9, <1>10, <1>11, <1>12 DEF Next, RequestStep, Ops

\* ControlInv holds, whatever fails and dies.
THEOREM ControlInvariance == Distinct => (Spec => []ControlInv)
<1> SUFFICES ASSUME Distinct PROVE Spec => []ControlInv
  OBVIOUS
<1>1. Init => ControlInv
  BY InitControl
<1>2. ControlInv /\ [Next]_vars => ControlInv'
  BY ControlStep
<1>3. QED  BY <1>1, <1>2, PTL DEF Spec

\* The library and its requests keep their types (TypeOK).
THEOREM LibraryTypes == Distinct => (Spec => []TypeOK)
<1>1. ControlInv => TypeOK
  BY DEF ControlInv, TypeInv, LockInv, Indexes, TypeOK
<1>2. QED  BY <1>1, ControlInvariance, PTL

\* A cancelled request lets no other encoder in beside its own: the lock is
\* kept until the encoder has ended (OneEncoder, normalize_with_admission).
THEOREM EncodersAlone == Distinct => (Spec => []OneEncoder)
<1> SUFFICES ASSUME Distinct PROVE Spec => []OneEncoder
  OBVIOUS
<1>1. ControlInv => OneEncoder
  <2> SUFFICES ASSUME ControlInv PROVE OneEncoder
    OBVIOUS
  <2>1. encoders = {} \/ encoders = {lock}
    BY DEF ControlInv, LockInv, Inside
  <2>2. Cardinality({}) = 0 /\ Cardinality({lock}) = 1
    BY FS_EmptySet, FS_Singleton
  <2>3. QED  BY <2>1, <2>2 DEF OneEncoder
<1>2. Spec => []ControlInv
  BY ControlInvariance
<1>3. QED  BY <1>1, <1>2, PTL

-----------------------------------------------------------------------------
(* What the operations leave.                                              *)

\* What a request tells is of its own effect.
LEMMA Tellings ==
  ASSUME DOMAIN told = Ids, NEW r \in Requests, Own(r) \in Ids, NEW v \in told[Own(r)]
  PROVE  /\ After(r, v) \in Telling(r)[Own(r)]
         /\ \A j \in Ids \ {Own(r)} : Telling(r)[j] = told[j]
<1>1. PICK S : S = {After(r, w) : w \in told[Own(r)]}
  OBVIOUS
<1>2. Telling(r) = [told EXCEPT ![Own(r)] = S]
  BY <1>1 DEF Telling
<1>3. After(r, v) \in S
  BY <1>1
<1>4. QED  BY <1>2, <1>3

\* Another entry, or none, changes how one effect is shown.
LEMMA ShownElsewhere ==
  ASSUME NEW x, NEW z, NEW i, NEW j, j # i, EntryOf(j, z) = EntryOf(j, x), j \in DOMAIN z <=> j \in DOMAIN x
  PROVE  Shown(j, z) = Shown(j, x)
BY DEF Shown, Listed

\* A new effect is in the index, plays, and is told of.
LEMMA CreateTells ==
  ASSUME Distinct, Indexes(index), media \in [Ids -> 0..4], NEW i \in Uploads \ DOMAIN index,
         NEW e \in Entry, e.dur = media[i], media[i] # NoFile, Whole(index, [media EXCEPT ![i] = NoFile], told),
         NEW said, Effect(e) \in said[i], \A j \in Ids \ {i} : said[j] = told[j]
  PROVE  Whole(With(index, i, e), media, said)
<1>1. i \in Ids /\ i \notin Builtins
  BY DEF Distinct, Ids
<1> DEFINE x == With(index, i, e)
<1>2. DOMAIN x = DOMAIN index \cup {i} /\ x[i] = e /\ \A j \in DOMAIN index : j # i => x[j] = index[j]
  BY DEF With
<1> HIDE DEF x
<1>3. EntryOf(i, x) = e /\ \A j : j # i => EntryOf(j, x) = EntryOf(j, index)
  BY <1>2 DEF EntryOf
<1>4. Shown(i, x) = Effect(e) /\ \A j \in Ids \ {i} : Shown(j, x) = Shown(j, index)
  BY <1>1, <1>2, <1>3, ShownElsewhere DEF Shown, Listed
<1>5. \A j \in Ids : j # i => [media EXCEPT ![i] = NoFile][j] = media[j]
  OBVIOUS
<1>6. Whole(x, media, said)
  <2>1. \A j \in Uploads : (j \in DOMAIN x <=> media[j] # NoFile) /\ (j \in DOMAIN x => x[j].dur = media[j])
    BY <1>2, <1>5 DEF Whole, Ids
  <2>2. \A j \in Builtins : ~EntryOf(j, x).deleted =>
          /\ EntryOf(j, x).replaced <=> media[j] # NoFile
          /\ EntryOf(j, x).dur = IF media[j] # NoFile THEN media[j] ELSE Bundled
    BY <1>1, <1>3, <1>5 DEF Whole, Ids
  <2>3. \A j \in Ids : Shown(j, x) \in said[j]
    BY <1>4 DEF Whole
  <2>4. QED  BY <2>1, <2>2, <2>3 DEF Whole
<1>7. QED  BY <1>6 DEF x

\* The entry of a listed effect is changed, and it is told how: the medium
\* that is there fits the entry.
LEMMA ChangeTells ==
  ASSUME Distinct, Indexes(index), media \in [Ids -> 0..4], NEW i \in Listed(index), NEW e \in Entry,
         NEW file \in 0..4, Whole(index, [media EXCEPT ![i] = file], told), i \in Builtins => ~e.deleted,
         i \in Uploads => media[i] # NoFile /\ e.dur = media[i],
         i \in Builtins => /\ e.replaced <=> media[i] # NoFile
                          /\ e.dur = IF media[i] # NoFile THEN media[i] ELSE Bundled,
         NEW said, Effect(e) \in said[i], \A j \in Ids \ {i} : said[j] = told[j]
  PROVE  Whole(With(index, i, e), media, said)
<1>1. i \in Ids /\ (i \notin Builtins => i \in DOMAIN index)
  BY DEF Ids, Listed, Indexes
<1> DEFINE x == With(index, i, e)
<1>2. DOMAIN x = DOMAIN index \cup {i} /\ x[i] = e /\ \A j \in DOMAIN index : j # i => x[j] = index[j]
  BY DEF With
<1> HIDE DEF x
<1>3. EntryOf(i, x) = e /\ \A j : j # i => EntryOf(j, x) = EntryOf(j, index)
  BY <1>2 DEF EntryOf
<1>4. Shown(i, x) = Effect(e) /\ \A j \in Ids \ {i} : Shown(j, x) = Shown(j, index)
  BY <1>1, <1>2, <1>3, ShownElsewhere DEF Shown, Listed
<1>5. \A j \in Ids : j # i => [media EXCEPT ![i] = file][j] = media[j]
  OBVIOUS
<1>6. Whole(x, media, said)
  <2>1. \A j \in Uploads : (j \in DOMAIN x <=> media[j] # NoFile) /\ (j \in DOMAIN x => x[j].dur = media[j])
    BY <1>1, <1>2, <1>5 DEF Whole, Ids, Distinct
  <2>2. \A j \in Builtins : ~EntryOf(j, x).deleted =>
          /\ EntryOf(j, x).replaced <=> media[j] # NoFile
          /\ EntryOf(j, x).dur = IF media[j] # NoFile THEN media[j] ELSE Bundled
    BY <1>3, <1>5 DEF Whole, Ids
  <2>3. \A j \in Ids : Shown(j, x) \in said[j]
    BY <1>4 DEF Whole
  <2>4. QED  BY <2>1, <2>2, <2>3 DEF Whole
<1>7. QED  BY <1>6 DEF x

\* A built-in effect that is deleted is hidden by its entry.
LEMMA HideTells ==
  ASSUME Distinct, Indexes(index), NEW i \in Builtins, NEW e \in Entry, e.deleted, Whole(index, media, told),
         NEW said, Gone \in said[i], \A j \in Ids \ {i} : said[j] = told[j]
  PROVE  Whole(With(index, i, e), media, said)
<1>1. i \in Ids /\ i \notin Uploads
  BY DEF Ids, Distinct
<1> DEFINE x == With(index, i, e)
<1>2. DOMAIN x = DOMAIN index \cup {i} /\ x[i] = e /\ \A j \in DOMAIN index : j # i => x[j] = index[j]
  BY DEF With
<1> HIDE DEF x
<1>3. EntryOf(i, x) = e /\ \A j : j # i => EntryOf(j, x) = EntryOf(j, index)
  BY <1>2 DEF EntryOf
<1>4. Shown(i, x) = Gone /\ \A j \in Ids \ {i} : Shown(j, x) = Shown(j, index)
  BY <1>1, <1>2, <1>3, ShownElsewhere DEF Shown, Listed
<1>5. Whole(x, media, said)
  <2>1. \A j \in Uploads : (j \in DOMAIN x <=> media[j] # NoFile) /\ (j \in DOMAIN x => x[j].dur = media[j])
    BY <1>1, <1>2 DEF Whole, Ids
  <2>2. \A j \in Builtins : ~EntryOf(j, x).deleted =>
          /\ EntryOf(j, x).replaced <=> media[j] # NoFile
          /\ EntryOf(j, x).dur = IF media[j] # NoFile THEN media[j] ELSE Bundled
    BY <1>3 DEF Whole
  <2>3. \A j \in Ids : Shown(j, x) \in said[j]
    BY <1>4 DEF Whole
  <2>4. QED  BY <2>1, <2>2, <2>3 DEF Whole
<1>6. QED  BY <1>5 DEF x

\* An upload that is deleted is gone from the index, and its medium with it.
LEMMA BuryTells ==
  ASSUME NEW x, Indexes(x), media \in [Ids -> 0..4], NEW i \in Ids \ Builtins, NEW file \in 0..4,
         Whole(x, [media EXCEPT ![i] = file], told), media[i] = NoFile,
         NEW said, Gone \in said[i], \A j \in Ids \ {i} : said[j] = told[j]
  PROVE  Whole(Restrict(x, DOMAIN x \ {i}), media, said)
<1> DEFINE z == Restrict(x, DOMAIN x \ {i})
<1>2. DOMAIN z = DOMAIN x \ {i} /\ \A j \in DOMAIN x \ {i} : z[j] = x[j]
  BY RestrictTypes
<1> HIDE DEF z
<1>3. \A j : j # i => EntryOf(j, z) = EntryOf(j, x)
  BY <1>2 DEF EntryOf
<1>4. Shown(i, z) = Gone /\ \A j \in Ids \ {i} : Shown(j, z) = Shown(j, x)
  BY <1>2, <1>3, ShownElsewhere DEF Shown, Listed
<1>5. \A j \in Ids : j # i => [media EXCEPT ![i] = file][j] = media[j]
  OBVIOUS
<1>6. Whole(z, media, said)
  <2>1. \A j \in Uploads : (j \in DOMAIN z <=> media[j] # NoFile) /\ (j \in DOMAIN z => z[j].dur = media[j])
    BY <1>2, <1>5 DEF Whole, Ids
  <2>2. \A j \in Builtins : ~EntryOf(j, z).deleted =>
          /\ EntryOf(j, z).replaced <=> media[j] # NoFile
          /\ EntryOf(j, z).dur = IF media[j] # NoFile THEN media[j] ELSE Bundled
    BY <1>3, <1>5 DEF Whole, Ids
  <2>3. \A j \in Ids : Shown(j, z) \in said[j]
    BY <1>4 DEF Whole
  <2>4. QED  BY <2>1, <2>2, <2>3 DEF Whole
<1>7. QED  BY <1>6 DEF z

-----------------------------------------------------------------------------
(* The library, when one file operation fails.                             *)

\* At most one file operation fails, and the process does not die.
OneFault == MaxFaults \in 0..1 /\ MaxCrashes = 0

\* A request goes on with what it has asked and seen.
Carries(r) ==
  /\ req'[r].op = req[r].op /\ req'[r].id = req[r].id /\ req'[r].name = req[r].name
  /\ req'[r].dur = req[r].dur /\ req'[r].seen = req[r].seen

\* A request that goes on keeps what it asked for and leaves the others alone.
LEMMA GoCarries ==
  ASSUME Requested, NEW r \in Requests, NEW place, Go(r, place)
  PROVE  /\ Carries(r) /\ req'[r].at = place /\ req'[r].kept = req[r].kept
         /\ \A s \in Requests \ {r} : req'[s] = req[s]
BY DEF Requested, RequestType, Go, Carries

\* What it tells is then the same.
LEMMA TellsSame ==
  ASSUME NEW r \in Requests, Carries(r), UNCHANGED told
  PROVE  Telling(r)' = Telling(r)
<1>1. Own(r)' = Own(r) /\ \A v : After(r, v)' = After(r, v)
  BY DEF Carries, Own, After
<1>2. QED  BY <1>1 DEF Telling

\* The one fault may happen once.
LEMMA FaultOnce ==
  ASSUME OneFault, steps \in [Kinds -> Nat], steps["faults"] <= 1
  PROVE  /\ ~May("crashes")
         /\ May("faults") => steps["faults"] = 0 /\ steps'["faults"] = 1
         /\ May("asks") => steps'["faults"] = steps["faults"]
BY DEF OneFault, Kinds, May, Most

\* The request that is inside is not disturbed by those that are not.
LEMMA OthersInside ==
  ASSUME NEW s \in Requests, InsideInv(s), req'[s] = req[s], UNCHANGED <<index, media, told>>,
         steps["faults"] \in Nat, steps'["faults"] \in Nat, steps'["faults"] >= steps["faults"]
  PROVE  InsideInv(s)'
<1>1. Carries(s) /\ req'[s].at = req[s].at /\ req'[s].kept = req[s].kept
  BY DEF Carries
<1>2. Telling(s)' = Telling(s)
  BY <1>1, TellsSame
<1>3. Own(s)' = Own(s) /\ (Buries(s)' <=> Buries(s)) /\ (Moves(s)' <=> Moves(s))
  BY <1>1 DEF Own, Buries, Moves, Carries
<1>4. Before(s)' = Before(s)
  BY <1>1, <1>3 DEF Before
<1>5. QED  BY <1>1, <1>2, <1>3, <1>4 DEF InsideInv, At, Carries

\* Who creates an effect keeps its name for itself, and whoever is inside does
\* not find it.
LEMMA CreateStep ==
  ASSUME ControlInv, CreateInv, NEW r \in Requests, NEW q, req' = [req EXCEPT ![r] = q], UNCHANGED used,
         q.op = "create" => req[r].op = "create" /\ q.id = req[r].id /\ req[r].at # "answer",
         UNCHANGED index \/ Fresh(index', used, req'),
         q.at \notin {"free", "answer"} /\ lock' = r => Fresh(q.seen, used, req),
         lock' \in {lock, r, None}, lock' = r => q.at # "free", None \notin Requests
  PROVE  CreateInv'
<1>1. /\ req'[r] = q /\ \A s \in Requests \ {r} : req'[s] = req[s]
      /\ \A s \in Requests : req'[s].op = "create" => req[s].op = "create" /\ req'[s].id = req[s].id
      /\ \A s \in Requests : req'[s].op = "create" /\ req'[s].at # "answer" => req[s].at # "answer"
  BY DEF ControlInv, TypeInv, Requested
<1>2. \A x : Fresh(x, used, req) => Fresh(x, used', req')
  BY <1>1 DEF Fresh
<1>3. Fresh(index', used', req')
  BY <1>2 DEF CreateInv
<1>4. \A s \in Requests : lock' = s /\ req'[s].at # "answer" => Fresh(req'[s].seen, used', req')
  BY <1>1, <1>2 DEF CreateInv, At
<1>5. \A s \in Requests : req'[s].op = "create" => req'[s].id \in Uploads \cap used'
  BY <1>1 DEF CreateInv, Own
<1>6. \A s, t \in Requests : req'[s].op = "create" /\ req'[t].op = "create" /\ req'[s].id = req'[t].id => s = t
  BY <1>1 DEF CreateInv, Own
<1>7. QED  BY <1>3, <1>4, <1>5, <1>6 DEF CreateInv, At, Own

\* What is so of a request that is inside.
LEMMA Within ==
  ASSUME ControlInv, LibraryInv, NEW r \in Requests, req[r].at \in Inside
  PROVE  /\ lock = r /\ InsideInv(r) /\ req[r].op \in Ops /\ Own(r) \in Ids
         /\ req[r].dur \in Durations /\ req[r].kept \in 0..4 /\ Indexes(req[r].seen)
         /\ req[r].at # "answer" => Fresh(req[r].seen, used, req)
         /\ req[r].op = "create" => Own(r) \in Uploads
BY DEF ControlInv, TypeInv, LockInv, Requested, RequestType, LibraryInv, CreateInv, At, Own, Inside

\* A request that stays inside keeps the library, if it can put it back.
LEMMA GoesOn ==
  ASSUME Distinct, ControlInv, ControlInv', LibraryInv, NEW r \in Requests, req[r].at \in Inside \ {"answer"},
         req'[r].at \in Inside, Carries(r), \A s \in Requests \ {r} : req'[s] = req[s],
         UNCHANGED <<lock, told, used>>, UNCHANGED index \/ Fresh(index', used, req'),
         steps'["faults"] <= 1, InsideInv(r)'
  PROVE  LibraryInv'
<1>1. lock = r /\ lock' = r /\ None \notin Requests
  BY Within DEF Distinct
<1>2. PICK q : q = req'[r] /\ req' = [req EXCEPT ![r] = q]
  BY DEF ControlInv, TypeInv, Requested
<1>3. /\ q.op = "create" => req[r].op = "create" /\ q.id = req[r].id /\ req[r].at # "answer"
      /\ Fresh(q.seen, used, req) /\ q.at # "free"
  BY <1>2, Within DEF Carries, Inside
<1>4. CreateInv'
  BY <1>1, <1>2, <1>3, CreateStep DEF LibraryInv
<1>5. DOMAIN told' = Ids
  BY DEF LibraryInv
<1>6. QED  BY <1>1, <1>4, <1>5 DEF LibraryInv

\* A request that ends leaves the library whole.
LEMMA Ends ==
  ASSUME Distinct, ControlInv, ControlInv', LibraryInv, NEW r \in Requests, req[r].at \in Inside, Release(r),
         UNCHANGED <<index, used>>, steps'["faults"] <= 1, DOMAIN told' = Ids, Whole(index', media', told')
  PROVE  LibraryInv'
<1>1. lock' = None /\ None \notin Requests /\ req' = [req EXCEPT ![r] = Free]
  BY DEF Distinct, Release, Leave
<1>2. Free.op # "create" /\ Free.at = "free"
  BY DEF Free, None
<1>3. CreateInv'
  BY <1>1, <1>2, CreateStep DEF LibraryInv
<1>4. QED  BY <1>1, <1>3 DEF LibraryInv, Indexes

\* A request that only waits does not touch the library.
LEMMA Outside ==
  ASSUME Distinct, ControlInv, ControlInv', LibraryInv, NEW r \in Requests, req[r].at \notin Inside, Leave(r),
         UNCHANGED <<Library, lock, steps>>
  PROVE  LibraryInv'
<1>1. lock # r /\ None \notin Requests /\ req' = [req EXCEPT ![r] = Free] /\ \A s \in Requests \ {r} : req'[s] = req[s]
  BY DEF Distinct, Leave, ControlInv, LockInv, TypeInv, Requested
<1>2. Free.op # "create" /\ Free.at = "free"
  BY DEF Free, None
<1>3. CreateInv'
  BY <1>1, <1>2, CreateStep DEF LibraryInv, Library
<1>4. steps["faults"] \in Nat
  BY DEF ControlInv, TypeInv, Kinds
<1>5. \A s \in Requests : lock = s => InsideInv(s)'
  BY <1>1, <1>4, OthersInside DEF LibraryInv, Library
<1>6. QED  BY <1>3, <1>5 DEF LibraryInv, Library, Indexes

\* What a request saves, and what it tells when it does, fit the media.
LEMMA SaveTells ==
  ASSUME Distinct, ControlInv, LibraryInv, NEW r \in Requests, At(r, "save"), ~Buries(r)
  PROVE  Whole(Saved(r), media, Telling(r))
<1>1. /\ InsideInv(r) /\ req[r].op \in Ops /\ Own(r) \in Ids /\ req[r].dur \in Durations /\ req[r].kept \in 0..4
      /\ Indexes(index) /\ media \in [Ids -> 0..4] /\ Indexes(req[r].seen)
      /\ Fresh(req[r].seen, used, req) /\ (req[r].op = "create" => Own(r) \in Uploads)
  BY Within DEF ControlInv, TypeInv, At, Inside
<1>2. /\ req[r].seen = index /\ Whole(index, Before(r), told)
      /\ req[r].op # "create" => Own(r) \in Listed(index)
      /\ req[r].op \in {"create", "replace"} => media[Own(r)] = req[r].dur
  BY <1>1 DEF InsideInv, At, Inside, Encodes
<1>3. Changed(r) \in Entry
  BY ChangedTypes DEF ControlInv, At, Inside
<1>4. PICK was : was = EntryOf(Own(r), index)
  OBVIOUS
<1>5. was \in Entry
  BY <1>1, <1>4, EntryTypes
<1>6. PICK v : v = Shown(Own(r), index)
  OBVIOUS
<1>7. v \in told[Own(r)] /\ DOMAIN told = Ids
  BY <1>1, <1>2, <1>6 DEF Whole, LibraryInv
<1>8. PICK said : said = Telling(r)
  OBVIOUS
<1>9. After(r, v) \in said[Own(r)] /\ \A j \in Ids \ {Own(r)} : said[j] = told[j]
  BY <1>1, <1>7, <1>8, Tellings
<1>10. CASE req[r].op = "create"
  <2>1. Own(r) \in Uploads \ DOMAIN index
    BY <1>1, <1>2, <1>10 DEF Fresh, Own, At
  <2>2. Before(r) = [media EXCEPT ![Own(r)] = req[r].kept]
    BY <1>10 DEF Before, Moves
  <2>3. req[r].kept = NoFile
    BY <1>1, <1>2, <2>1, <2>2 DEF Whole
  <2>4. Changed(r).dur = media[Own(r)] /\ media[Own(r)] # NoFile
    BY <1>1, <1>2, <1>10 DEF Changed, Durations, NoFile
  <2>5. Saved(r) = With(index, Own(r), Changed(r)) /\ Effect(Changed(r)) = After(r, v)
    BY <1>2, <1>10 DEF Saved, Buries, Changed, After, Effect
  <2>6. PICK i, e : i = Own(r) /\ e = Changed(r)
    OBVIOUS
  <2>7. /\ i \in Uploads \ DOMAIN index /\ e \in Entry /\ e.dur = media[i] /\ media[i] # NoFile
        /\ Whole(index, [media EXCEPT ![i] = NoFile], told)
        /\ Effect(e) \in said[i] /\ \A j \in Ids \ {i} : said[j] = told[j]
    BY <1>2, <1>3, <1>9, <2>1, <2>2, <2>3, <2>4, <2>5, <2>6
  <2>8. Whole(With(index, i, e), media, said)
    BY <1>1, <2>7, CreateTells
  <2>9. QED  BY <1>8, <2>5, <2>6, <2>8
<1>11. CASE req[r].op \in {"rename", "replace"}
  <2>1. PICK i : i = Own(r)
    OBVIOUS
  <2>2. i \in Listed(index) /\ v = [name |-> was.name, dur |-> was.dur]
    BY <1>2, <1>4, <1>11, <1>6, <2>1 DEF Shown, Effect
  <2>3. PICK file \in 0..4 : Before(r) = [media EXCEPT ![i] = file] /\ (req[r].op = "rename" => file = media[i])
    <3>1. CASE req[r].op = "rename"
      <4>1. Before(r) = media /\ media = [media EXCEPT ![i] = media[i]] /\ media[i] \in 0..4
        BY <1>1, <2>1, <3>1 DEF Before, Moves, Buries
      <4>2. QED  BY <4>1
    <3>2. CASE req[r].op = "replace"
      BY <1>1, <2>1, <3>2 DEF Before, Moves
    <3>3. QED  BY <1>11, <3>1, <3>2
  <2>4. PICK e : e = Changed(r)
    OBVIOUS
  <2>5. /\ req[r].op = "rename" => e.name = req[r].name /\ e.dur = was.dur
        /\ req[r].op = "replace" => e.name = was.name /\ e.dur = req[r].dur
        /\ e.deleted <=> was.deleted
    BY <1>2, <1>4, <1>5, <1>11, <2>4 DEF Changed, Entry
  <2>6. /\ req[r].op = "rename" => (e.replaced <=> i \in Builtins /\ media[i] # NoFile)
        /\ req[r].op = "replace" => (e.replaced <=> i \in Builtins)
    BY <1>2, <1>4, <1>5, <2>1, <2>4 DEF Changed, Entry
  <2>7. Effect(e) = After(r, v)
    BY <1>11, <2>2, <2>5 DEF Effect, After
  <2>8. i \in Builtins => ~was.deleted
    BY <1>4, <2>1, <2>2 DEF Listed, Indexes
  <2>9. /\ e \in Entry /\ Whole(index, [media EXCEPT ![i] = file], told) /\ (i \in Builtins => ~e.deleted)
         /\ Effect(e) \in said[i] /\ \A j \in Ids \ {i} : said[j] = told[j]
    BY <1>2, <1>3, <1>9, <2>1, <2>3, <2>4, <2>5, <2>7, <2>8
  <2>10. CASE req[r].op = "rename"
    <3>1. Before(r) = media
      BY <1>1, <2>3, <2>10
    <3>2. i \in Uploads => media[i] # NoFile /\ e.dur = media[i]
      BY <1>2, <1>4, <2>1, <2>2, <2>5, <2>10, <3>1 DEF Whole, Listed, EntryOf, Distinct
    <3>3. i \in Builtins => /\ e.replaced <=> media[i] # NoFile
                           /\ e.dur = IF media[i] # NoFile THEN media[i] ELSE Bundled
      BY <1>2, <1>4, <2>1, <2>5, <2>6, <2>8, <2>10, <3>1 DEF Whole
    <3>4. Saved(r) = With(index, i, e)
      BY <1>2, <2>1, <2>4, <2>10 DEF Saved, Buries
    <3>5. Whole(With(index, i, e), media, said)
      BY <1>1, <2>2, <2>3, <2>9, <3>2, <3>3, ChangeTells
    <3>6. QED  BY <1>8, <3>4, <3>5
  <2>11. CASE req[r].op = "replace"
    <3>1. media[i] = req[r].dur /\ media[i] # NoFile
      BY <1>1, <1>2, <2>1, <2>11 DEF Durations, NoFile
    <3>2. Saved(r) = With(index, i, e)
      BY <1>2, <2>1, <2>4, <2>11 DEF Saved, Buries
    <3>3. /\ i \in Uploads => media[i] # NoFile /\ e.dur = media[i]
          /\ i \in Builtins => /\ e.replaced <=> media[i] # NoFile
                             /\ e.dur = IF media[i] # NoFile THEN media[i] ELSE Bundled
      BY <2>5, <2>6, <2>11, <3>1
    <3>4. Whole(With(index, i, e), media, said)
      BY <1>1, <2>2, <2>3, <2>9, <3>3, ChangeTells
    <3>5. QED  BY <1>8, <3>2, <3>4
  <2>12. QED  BY <1>11, <2>10, <2>11
<1>12. CASE req[r].op = "delete"
  <2>1. Own(r) \in Builtins /\ Changed(r) = [was EXCEPT !.deleted = TRUE]
    BY <1>2, <1>4, <1>12 DEF Buries, Changed
  <2>2. Changed(r).deleted /\ Before(r) = media
    BY <1>5, <1>12, <2>1 DEF Entry, Before, Moves, Buries
  <2>3. Saved(r) = With(index, Own(r), Changed(r)) /\ After(r, v) = Gone
    BY <1>2, <1>12 DEF Saved, After
  <2>4. QED  BY <1>1, <1>2, <1>3, <1>8, <1>9, <2>1, <2>2, <2>3, HideTells
<1>13. QED  BY <1>1, <1>10, <1>11, <1>12 DEF Ops

\* The library begins as it is told.
LEMMA InitLibrary == ASSUME Distinct, Init PROVE LibraryInv
<1>1. Whole(index, media, told)
  BY DEF Init, Whole, EntryOf, Listed, Shown, Shipped, Bundled, NoFile, Ids, Distinct
<1>2. DOMAIN told = Ids /\ steps["faults"] <= 1
  BY DEF Init, Kinds
<1>3. CreateInv
  BY DEF Init, CreateInv, Fresh, Free, None, At, Own, Distinct
<1>4. QED  BY <1>1, <1>2, <1>3 DEF LibraryInv, Init, Distinct

\* A request that enters finds the library whole.
LEMMA EnterStep ==
  ASSUME Distinct, ControlInv, ControlInv', LibraryInv, NEW r \in Requests, Enter(r)
  PROVE  LibraryInv'
<1>1. req[r].at = "waiting" /\ req[r].at \notin Inside /\ lock = None /\ UNCHANGED <<Library, steps>>
  BY DEF Enter, At, MayEnter, Inside
<1>2. CASE Leave(r) /\ UNCHANGED lock
  BY <1>1, <1>2, Outside
<1>3. CASE ~(req[r].op # "create" /\ req[r].id \notin Listed(index))
  <2> DEFINE goal == CASE req[r].op \in {"create", "replace"} -> "stream"
                       [] req[r].op = "rename" -> "body"
                       [] OTHER -> IF req[r].id \in Builtins THEN "save" ELSE "bury"
  <2>0. req' = [req EXCEPT ![r].seen = index, ![r].at = goal]
    BY <1>3, Zenon DEF Enter
  <2>1. PICK place : req' = [req EXCEPT ![r].seen = index, ![r].at = place] /\ place = goal
    BY <2>0
  <2> HIDE DEF goal
  <2>2. /\ req'[r].at = place /\ req'[r].seen = index /\ req'[r].op = req[r].op /\ req'[r].id = req[r].id
        /\ \A s \in Requests \ {r} : req'[s] = req[s]
        /\ req[r].op \in Ops /\ lock' = r
    <3>1. DOMAIN req = Requests /\ RequestType(req[r])
      BY DEF ControlInv, TypeInv, Requested
    <3>2. PICK q : q = [req[r] EXCEPT !.seen = index, !.at = place] /\ req' = [req EXCEPT ![r] = q]
      BY <2>1, <3>1
    <3>3. q.at = place /\ q.seen = index /\ q.op = req[r].op /\ q.id = req[r].id
      BY <3>1, <3>2 DEF RequestType
    <3>4. req[r].op \in Ops
      BY <1>1, <3>1 DEF RequestType
    <3>5. lock' = r
      BY <1>3 DEF Enter
    <3>6. QED  BY <3>1, <3>2, <3>3, <3>4, <3>5
  <2>3. /\ place \in {"stream", "body", "save", "bury"}
        /\ place = "stream" <=> req[r].op \in {"create", "replace"}
        /\ place = "body" <=> req[r].op = "rename"
        /\ place = "save" <=> req[r].op = "delete" /\ req[r].id \in Builtins
        /\ place = "bury" <=> req[r].op = "delete" /\ req[r].id \notin Builtins
    BY <2>1, <2>2 DEF Ops, goal
  <2>4. Whole(index, media, told) /\ (req[r].op # "create" => req[r].id \in Listed(index))
    BY <1>1, <1>3 DEF LibraryInv
  <2>5. Before(r)' = media \/ place # "save"
    BY <1>1, <2>2, <2>3 DEF Before, Moves, Buries, Own, Library
  <2>6. InsideInv(r)'
    BY <1>1, <2>2, <2>3, <2>4, <2>5 DEF InsideInv, At, Own, Buries, Encodes, Inside, Library
  <2>7. PICK q : q = req'[r] /\ req' = [req EXCEPT ![r] = q]
    BY <2>1 DEF ControlInv, TypeInv, Requested
  <2>8. /\ q.op = "create" => req[r].op = "create" /\ q.id = req[r].id /\ req[r].at # "answer"
        /\ Fresh(q.seen, used, req) /\ q.at # "free"
    BY <1>1, <2>2, <2>3, <2>7 DEF LibraryInv, CreateInv
  <2>9. CreateInv'
    BY <1>1, <2>2, <2>7, <2>8, CreateStep DEF LibraryInv, Library, Distinct
  <2>10. QED  BY <1>1, <2>2, <2>6, <2>9 DEF LibraryInv, Library, Indexes, Distinct
<1>4. QED  BY <1>2, <1>3 DEF Enter

\* The encoder of a request does not touch the library, nor does its body.
LEMMA EncodeStep ==
  ASSUME Distinct, ControlInv, ControlInv', LibraryInv, NEW r \in Requests, Stream(r) \/ Encoded(r) \/ Body(r)
  PROVE  LibraryInv'
<1>1. At(r, "stream") \/ At(r, "encode") \/ At(r, "body")
  BY DEF Stream, Encoded, Body, ControlInv, LockInv, At
<1>2. /\ req[r].at \in Inside \ {"answer"} /\ InsideInv(r) /\ lock = r
      /\ Whole(index, media, told) /\ DOMAIN told = Ids /\ steps["faults"] <= 1
  BY <1>1, Within DEF At, Inside, InsideInv, Encodes, LibraryInv
<1>3. UNCHANGED <<index, media, told, used, steps>>
  BY DEF Stream, Encoded, Body, Library
<1>4. CASE Release(r)
  BY <1>2, <1>3, <1>4, Ends DEF Indexes
<1>5. CASE ~Release(r)
  <2>1. PICK place : /\ Go(r, place) /\ UNCHANGED lock
                     /\ \/ place \in {"encode", "place"} /\ req[r].at \in {"stream", "encode"}
                        \/ place = "save" /\ At(r, "body")
    <3>1. CASE Stream(r)
      BY <3>1 DEF Stream, At
    <3>2. CASE Encoded(r)
      <4>1. At(r, "encode")
        BY <3>2 DEF Encoded, ControlInv, LockInv, At
      <4>2. Go(r, "place") /\ UNCHANGED lock
        BY <1>5, <3>2, <4>1 DEF Encoded
      <4>3. QED  BY <4>1, <4>2 DEF At
    <3>3. CASE Body(r)
      BY <3>3 DEF Body
    <3>4. QED  BY <3>1, <3>2, <3>3
  <2>2. /\ Carries(r) /\ req'[r].at = place /\ req'[r].kept = req[r].kept
        /\ \A s \in Requests \ {r} : req'[s] = req[s]
    BY <2>1, GoCarries DEF ControlInv, TypeInv
  <2>3. place = "save" => req[r].op = "rename"
    BY <1>2, <2>1 DEF InsideInv, At
  <2>4. place # "save" => req[r].op \in {"create", "replace"}
    BY <1>2, <2>1 DEF InsideInv, Encodes
  <2>5. place = "save" => Before(r)' = media
    BY <1>3, <2>2, <2>3 DEF Before, Moves, Buries, Carries
  <2>6. index = req[r].seen
    BY <1>1, <1>2 DEF InsideInv, At
  <2>7. InsideInv(r)'
    BY <1>2, <1>3, <2>1, <2>2, <2>3, <2>4, <2>5, <2>6 DEF InsideInv, At, Own, Buries, Encodes, Inside, Carries
  <2>8. QED  BY <1>2, <1>3, <2>1, <2>2, <2>7, GoesOn DEF Inside
<1>6. QED  BY <1>4, <1>5

\* Before a file is moved, the medium it replaces is kept.
LEMMA FileStep ==
  ASSUME Distinct, ControlInv, ControlInv', LibraryInv, NEW r \in Requests, Place(r) \/ Bury(r)
  PROVE  LibraryInv'
<1>1. At(r, "place") \/ At(r, "bury")
  BY DEF Place, Bury
<1>2. /\ req[r].at \in Inside \ {"answer"} /\ InsideInv(r) /\ lock = r /\ Own(r) \in Ids
      /\ req[r].dur \in Durations /\ Whole(index, media, told) /\ index = req[r].seen
      /\ steps["faults"] <= 1 /\ media \in [Ids -> 0..4]
  BY <1>1, Within DEF At, Inside, InsideInv, Encodes, LibraryInv, ControlInv, TypeInv
<1>3. UNCHANGED <<index, lock, told, used, steps>>
  BY DEF Place, Bury
<1>4. /\ At(r, "place") => req[r].op \in {"create", "replace"}
      /\ At(r, "bury") => Buries(r) /\ Own(r) \in Listed(index) /\ media[Own(r)] # NoFile
  BY <1>2 DEF InsideInv, At, Encodes, Buries, Listed, Ids, Whole
<1>5. PICK file : /\ req' = [req EXCEPT ![r].kept = media[Own(r)], ![r].at = "save"]
                  /\ media' = [media EXCEPT ![Own(r)] = file]
                  /\ (At(r, "place") /\ file = req[r].dur) \/ (At(r, "bury") /\ file = NoFile)
  <2>1. CASE Place(r)
    BY <2>1 DEF Place, Put, Kept
  <2>2. CASE Bury(r)
    BY <1>4, <2>2 DEF Bury, Put
  <2>3. QED  BY <2>1, <2>2
<1>6. /\ Carries(r) /\ req'[r].at = "save" /\ req'[r].kept = media[Own(r)]
      /\ \A s \in Requests \ {r} : req'[s] = req[s]
  <2>1. DOMAIN req = Requests /\ RequestType(req[r])
    BY DEF ControlInv, TypeInv, Requested
  <2>2. PICK q : q = [req[r] EXCEPT !.kept = media[Own(r)], !.at = "save"] /\ req' = [req EXCEPT ![r] = q]
    BY <1>5, <2>1
  <2>3. /\ q.at = "save" /\ q.kept = media[Own(r)] /\ q.op = req[r].op /\ q.id = req[r].id
        /\ q.name = req[r].name /\ q.dur = req[r].dur /\ q.seen = req[r].seen
    BY <2>1, <2>2 DEF RequestType
  <2>4. QED  BY <2>1, <2>2, <2>3 DEF Carries
<1>7. Own(r)' = Own(r) /\ (Buries(r)' <=> Buries(r)) /\ Moves(r)'
  BY <1>1, <1>4, <1>6 DEF Own, Buries, Moves, Carries
<1>8. Before(r)' = media
  <2>1. Before(r)' = [media' EXCEPT ![Own(r)] = media[Own(r)]]
    BY <1>6, <1>7 DEF Before
  <2>2. QED  BY <1>2, <1>5, <2>1
<1>9. InsideInv(r)'
  BY <1>1, <1>2, <1>3, <1>4, <1>5, <1>6, <1>7, <1>8
  DEF InsideInv, At, Encodes, Inside, Carries, Buries
<1>10. QED  BY <1>2, <1>3, <1>6, <1>9, GoesOn DEF Inside

\* What is saved fits the media, or can be put back.
LEMMA SaveStep ==
  ASSUME Distinct, ControlInv, ControlInv', LibraryInv, NEW r \in Requests, SaveIndex(r)
  PROVE  LibraryInv'
<1>1. At(r, "save") /\ UNCHANGED <<media, lock, told, used, steps>> /\ index' = Saved(r)
  BY DEF SaveIndex
<1>2. /\ req[r].at \in Inside \ {"answer"} /\ InsideInv(r) /\ lock = r /\ index = req[r].seen /\ Indexes(index)
      /\ steps["faults"] <= 1 /\ Own(r) \in Ids /\ Fresh(index, used, req) /\ Whole(index, Before(r), told)
  BY <1>1, Within DEF At, Inside, InsideInv, Encodes, LibraryInv, ControlInv, TypeInv
<1>3. PICK place : Go(r, place) /\ place = IF Buries(r) THEN "unlink" ELSE "answer"
  BY DEF SaveIndex
<1>4. /\ Carries(r) /\ req'[r].at = place /\ req'[r].kept = req[r].kept
      /\ \A s \in Requests \ {r} : req'[s] = req[s]
  BY <1>3, GoCarries DEF ControlInv, TypeInv
<1>5. Own(r)' = Own(r) /\ (Buries(r)' <=> Buries(r)) /\ (Moves(r)' <=> Moves(r))
  BY <1>4 DEF Own, Buries, Moves, Carries
<1>6. Before(r)' = Before(r) /\ Telling(r)' = Telling(r)
  BY <1>1, <1>4, <1>5, TellsSame DEF Before
<1>7. InsideInv(r)'
  <2>1. CASE Buries(r)
    <3>1. index' = Restrict(req[r].seen, DOMAIN req[r].seen \ {Own(r)})
      BY <1>1, <2>1 DEF Saved
    <3>2. media[Own(r)] = NoFile
      BY <1>1, <1>2, <2>1 DEF InsideInv, At
    <3>3. QED  BY <1>1, <1>2, <1>3, <1>4, <1>5, <1>6, <2>1, <3>1, <3>2
               DEF InsideInv, At, Encodes, Inside, Carries
  <2>2. CASE ~Buries(r)
    <3>1. Whole(index', media, Telling(r))
      BY <1>1, <2>2, SaveTells
    <3>2. QED  BY <1>1, <1>2, <1>3, <1>4, <1>5, <1>6, <2>2, <3>1
               DEF InsideInv, At, Encodes, Inside, Carries
  <2>3. QED  BY <2>1, <2>2
<1>8. Fresh(index', used, req')
  <2>1. Own(r) \in DOMAIN index \cup Builtins \/ (req[r].op = "create" /\ Own(r) \in used)
    BY <1>2 DEF InsideInv, Listed, LibraryInv, CreateInv
  <2>3. DOMAIN Saved(r) \subseteq DOMAIN index \cup {Own(r)} /\ (Buries(r) => DOMAIN Saved(r) \subseteq DOMAIN index)
    BY <1>2 DEF Saved, With, Restrict
  <2>4. \A s \in Requests : req'[s].op = "create" /\ req'[s].at # "answer" =>
          /\ req'[s].id = req[s].id /\ req[s].op = "create" /\ req[s].at # "answer"
          /\ req[s].id # Own(r) /\ req[s].id \notin DOMAIN index /\ req[s].id \in Uploads
    <3> SUFFICES ASSUME NEW s \in Requests, req'[s].op = "create", req'[s].at # "answer"
                 PROVE  /\ req'[s].id = req[s].id /\ req[s].op = "create" /\ req[s].at # "answer"
                        /\ req[s].id # Own(r) /\ req[s].id \notin DOMAIN index /\ req[s].id \in Uploads
      OBVIOUS
    <3>1. s # r /\ req'[s] = req[s]
      BY <1>3, <1>4 DEF Carries, Buries
    <3>2. req[s].id \notin DOMAIN index /\ req[s].id \in Uploads
      BY <1>2, <3>1 DEF Fresh, LibraryInv, CreateInv, Own
    <3>3. req[s].id # Own(r)
      BY <2>1, <3>1, <3>2 DEF Distinct, LibraryInv, CreateInv, Own
    <3>4. QED  BY <3>1, <3>2, <3>3
  <2>5. QED  BY <1>1, <1>2, <2>1, <2>3, <2>4 DEF Fresh
<1>9. place \in Inside
  BY <1>3 DEF Inside
<1>10. QED  BY <1>1, <1>2, <1>4, <1>7, <1>8, <1>9, GoesOn

\* After a deletion is saved its tombstone goes, or the index comes back.
LEMMA TombstoneStep ==
  ASSUME Distinct, OneFault, ControlInv, ControlInv', LibraryInv, NEW r \in Requests,
         Unlink(r) \/ Restore(r) \/ (At(r, "unlink") /\ Fault(r, "restore"))
  PROVE  LibraryInv'
<1>1. At(r, "unlink") \/ At(r, "restore")
  BY DEF Unlink, Restore
<1>2. /\ req[r].at \in Inside \ {"answer"} /\ InsideInv(r) /\ lock = r /\ Own(r) \in Ids /\ Buries(r)
      /\ index = Restrict(req[r].seen, DOMAIN req[r].seen \ {Own(r)}) /\ Whole(req[r].seen, Before(r), told)
      /\ media[Own(r)] = NoFile /\ Fresh(req[r].seen, used, req) /\ Indexes(req[r].seen) /\ DOMAIN told = Ids
      /\ req[r].kept \in 0..4 /\ media \in [Ids -> 0..4] /\ steps \in [Kinds -> Nat] /\ steps["faults"] <= 1
  BY <1>1, Within DEF At, Inside, InsideInv, LibraryInv, ControlInv, TypeInv
<1>3. UNCHANGED <<media, lock, told, used>>
  BY DEF Unlink, Restore, Fault, Library
<1>4. PICK place : /\ Go(r, place)
                   /\ \/ place = "answer" /\ At(r, "unlink") /\ UNCHANGED <<index, steps>>
                      \/ place = "restore" /\ At(r, "unlink") /\ UNCHANGED index /\ May("faults")
                      \/ place = "undo" /\ At(r, "restore") /\ index' = req[r].seen /\ UNCHANGED steps
  <2>1. CASE Unlink(r)
    BY <2>1 DEF Unlink, Library
  <2>2. CASE Restore(r)
    BY <2>2 DEF Restore
  <2>3. CASE At(r, "unlink") /\ Fault(r, "restore")
    BY <2>3 DEF Fault, Library
  <2>4. QED  BY <2>1, <2>2, <2>3
<1>5. /\ Carries(r) /\ req'[r].at = place /\ req'[r].kept = req[r].kept
      /\ \A s \in Requests \ {r} : req'[s] = req[s]
  BY <1>4, GoCarries DEF ControlInv, TypeInv
<1>6. Own(r)' = Own(r) /\ Buries(r)' /\ Moves(r)' /\ Moves(r)
  BY <1>2, <1>5 DEF Own, Buries, Moves, Carries
<1>7. Before(r)' = Before(r) /\ Telling(r)' = Telling(r)
  BY <1>3, <1>5, <1>6, TellsSame DEF Before
<1>8. steps'["faults"] <= 1 /\ (place \in {"restore", "undo"} => steps'["faults"] >= 1)
  BY <1>2, <1>4, FaultOnce DEF InsideInv, At
<1>9. Whole(index, media, Telling(r))
  <2>1. PICK x, i, file, said, v : /\ x = req[r].seen /\ i = Own(r) /\ file = req[r].kept /\ said = Telling(r)
                                   /\ v = Shown(i, x)
    OBVIOUS
  <2>2. Before(r) = [media EXCEPT ![i] = file]
    BY <1>6, <2>1 DEF Before
  <2>3. v \in told[i] /\ After(r, v) = Gone /\ i \in Ids \ Builtins
    BY <1>2, <2>1 DEF Whole, After, Buries
  <2>4. Gone \in said[i] /\ \A j \in Ids \ {i} : said[j] = told[j]
    BY <1>2, <2>1, <2>3, Tellings
  <2>5. /\ Indexes(x) /\ media \in [Ids -> 0..4] /\ i \in Ids \ Builtins /\ file \in 0..4
        /\ Whole(x, [media EXCEPT ![i] = file], told) /\ media[i] = NoFile
    BY <1>2, <2>1, <2>2, <2>3
  <2>6. Whole(Restrict(x, DOMAIN x \ {i}), media, said)
    BY <2>4, <2>5, BuryTells
  <2>7. QED  BY <1>2, <2>1, <2>6
<1>10. InsideInv(r)'
  BY <1>2, <1>3, <1>4, <1>5, <1>6, <1>7, <1>8, <1>9 DEF InsideInv, At, Encodes, Inside, Carries, Buries
<1>11. Fresh(index', used, req') \/ UNCHANGED index
  BY <1>2, <1>4, <1>5 DEF Fresh, Carries, At
<1>12. QED  BY <1>2, <1>3, <1>4, <1>5, <1>8, <1>10, <1>11, GoesOn DEF Inside

\* The medium that was moved comes back, and the library is as it was.
LEMMA UndoStep ==
  ASSUME Distinct, ControlInv, ControlInv', LibraryInv, NEW r \in Requests, Undo(r)
  PROVE  LibraryInv'
<1>1. At(r, "undo") /\ Release(r) /\ UNCHANGED <<index, told, used, steps>>
  BY DEF Undo
<1>2. /\ req[r].at \in Inside /\ InsideInv(r) /\ index = req[r].seen /\ Whole(index, Before(r), told)
      /\ DOMAIN told = Ids /\ steps["faults"] <= 1
  BY <1>1, Within DEF At, Inside, InsideInv, LibraryInv
<1>3. media' = Before(r)
  BY DEF Undo, Before, Moves, Put
<1>4. QED  BY <1>1, <1>2, <1>3, Ends DEF Indexes

\* The answer tells what the library is.
LEMMA AnswerStep ==
  ASSUME Distinct, ControlInv, ControlInv', LibraryInv, NEW r \in Requests, Answer(r)
  PROVE  LibraryInv'
<1>1. /\ At(r, "answer") /\ Release(r) /\ UNCHANGED <<index, media, used, steps>> /\ told' = Telling(r)
      /\ req[r].at \in Inside
  BY DEF Answer, At, Inside
<1>2. InsideInv(r) /\ steps["faults"] <= 1
  BY <1>1, Within DEF LibraryInv
<1>3. Whole(index, media, Telling(r))
  BY <1>1, <1>2 DEF InsideInv
<1>4. DOMAIN told' = Ids
  BY <1>1 DEF LibraryInv, Telling
<1>5. QED  BY <1>1, <1>2, <1>3, <1>4, Ends

\* An answer that is an error leaves the library as it was saved, in doubt.
LEMMA LateStep ==
  ASSUME Distinct, OneFault, ControlInv, ControlInv', LibraryInv, NEW r \in Requests,
         ErrsLate(r), May("faults"), Release(r)
  PROVE  LibraryInv'
<1>1. /\ At(r, "answer") /\ UNCHANGED <<index, media, used>> /\ told' = Doubting(r) /\ req[r].at \in Inside
  BY DEF ErrsLate, At, Inside
<1>2. InsideInv(r) /\ Own(r) \in Ids /\ steps'["faults"] <= 1 /\ DOMAIN told = Ids
  BY <1>1, Within, FaultOnce DEF LibraryInv, ControlInv, TypeInv
<1>3. Whole(index, media, Telling(r))
  BY <1>1, <1>2 DEF InsideInv
<1>4. DOMAIN Doubting(r) = Ids /\ \A j \in Ids : Telling(r)[j] \subseteq Doubting(r)[j]
  <2>1. PICK S : S = {After(r, v) : v \in told[Own(r)]}
    OBVIOUS
  <2>2. Telling(r) = [told EXCEPT ![Own(r)] = S] /\ Doubting(r) = [told EXCEPT ![Own(r)] = told[Own(r)] \cup S]
    BY <2>1 DEF Telling, Doubting
  <2>3. QED  BY <1>2, <2>2
<1>5. Whole(index, media, Doubting(r))
  BY <1>3, <1>4 DEF Whole
<1>6. QED  BY <1>1, <1>2, <1>4, <1>5, Ends

\* A step that fails leaves a library that is whole or can be put back; what
\* puts it back does not fail too.
LEMMA FailStep ==
  ASSUME Distinct, OneFault, ControlInv, ControlInv', LibraryInv, NEW r \in Requests, Fails(r)
  PROVE  LibraryInv'
<1>0. CASE ErrsLate(r) /\ May("faults") /\ Release(r)
  BY <1>0, LateStep
<1> SUFFICES ASSUME ~(ErrsLate(r) /\ May("faults") /\ Release(r)) PROVE LibraryInv'
  BY <1>0
<1>1. /\ req[r].at \in {"place", "bury", "save", "restore", "unlink", "undo"} /\ May("faults")
      /\ UNCHANGED <<index, media, told, used>>
  BY DEF Fails, Fault, At, Library
<1>2. /\ req[r].at \in Inside \ {"answer"} /\ InsideInv(r) /\ lock = r /\ DOMAIN told = Ids
      /\ steps \in [Kinds -> Nat] /\ steps["faults"] <= 1
  BY <1>1, Within DEF Inside, LibraryInv, ControlInv, TypeInv
<1>3. steps["faults"] = 0 /\ steps'["faults"] = 1
  BY <1>1, <1>2, FaultOnce
<1>4. req[r].at \notin {"restore", "undo"}
  BY <1>2, <1>3 DEF InsideInv
<1>5. CASE req[r].at \in {"place", "bury"}
  <2>1. Release(r)
    BY <1>5 DEF Fails, At
  <2>2. Whole(index, media, told)
    BY <1>2, <1>5 DEF InsideInv, Encodes
  <2>3. QED  BY <1>1, <1>2, <1>3, <2>1, <2>2, Ends DEF Indexes
<1>6. CASE At(r, "save")
  <2>1. Go(r, "undo") /\ UNCHANGED lock
    BY <1>6 DEF Fails, Fault, At
  <2>2. /\ Carries(r) /\ req'[r].at = "undo" /\ req'[r].kept = req[r].kept
        /\ \A s \in Requests \ {r} : req'[s] = req[s]
    BY <2>1, GoCarries DEF ControlInv, TypeInv
  <2>3. Own(r)' = Own(r) /\ (Buries(r)' <=> Buries(r)) /\ (Moves(r)' <=> Moves(r))
    BY <2>2 DEF Own, Buries, Moves, Carries
  <2>4. Before(r)' = Before(r)
    BY <1>1, <2>2, <2>3 DEF Before
  <2>5. InsideInv(r)'
    BY <1>1, <1>2, <1>3, <1>6, <2>2, <2>3, <2>4 DEF InsideInv, At, Encodes, Inside, Carries
  <2>6. QED  BY <1>1, <1>2, <1>3, <2>1, <2>2, <2>5, GoesOn DEF Inside
<1>7. CASE At(r, "unlink")
  <2>1. Fault(r, "restore")
    BY <1>7 DEF Fails, At
  <2>2. QED  BY <1>7, <2>1, TombstoneStep
<1>8. QED  BY <1>1, <1>4, <1>5, <1>6, <1>7 DEF At

\* A request that is given up, or whose encoder fails, has moved nothing.
LEMMA CancelStep ==
  ASSUME Distinct, OneFault, ControlInv, ControlInv', LibraryInv, NEW r \in Requests,
         Cancel(r) \/ EncodeFails(r)
  PROVE  LibraryInv'
<1>1. CASE At(r, "waiting") /\ Leave(r) /\ UNCHANGED lock /\ Cancel(r)
  BY <1>1, Outside DEF Cancel, At, Inside
<1>2. CASE req[r].at \in {"stream", "body", "encode"} /\ (EncodeFails(r) \/ (Cancel(r) /\ Abandon(r)))
  <2>1. /\ req[r].at \in Inside \ {"answer"} /\ InsideInv(r) /\ lock = r /\ DOMAIN told = Ids
        /\ steps \in [Kinds -> Nat] /\ steps["faults"] <= 1 /\ Whole(index, media, told)
    BY <1>2, Within DEF Inside, LibraryInv, ControlInv, TypeInv, InsideInv, Encodes
  <2>2. UNCHANGED <<index, media, told, used>> /\ steps'["faults"] <= 1
    BY <1>2, <2>1, FaultOnce DEF Cancel, EncodeFails, Library
  <2>3. CASE Release(r)
    BY <2>1, <2>2, <2>3, Ends DEF Indexes
  <2>4. CASE ~Release(r)
    <3>1. At(r, "encode") /\ req' = [req EXCEPT ![r].cancelled = TRUE] /\ UNCHANGED <<lock, steps>>
      BY <1>2, <2>4 DEF EncodeFails, Abandon, Cancel
    <3>2. DOMAIN req = Requests /\ RequestType(req[r])
      BY DEF ControlInv, TypeInv, Requested
    <3>3. /\ Carries(r) /\ req'[r].at = req[r].at /\ req'[r].kept = req[r].kept
          /\ \A s \in Requests \ {r} : req'[s] = req[s]
      BY <3>1, <3>2 DEF RequestType, Carries
    <3>4. InsideInv(r)'
      BY <2>1, <2>2, <3>1, <3>3 DEF InsideInv, At, Encodes, Inside, Carries, Own, Buries
    <3>5. QED  BY <2>1, <2>2, <3>1, <3>3, <3>4, GoesOn
  <2>5. QED  BY <2>3, <2>4
<1>3. QED  BY <1>1, <1>2 DEF Cancel, EncodeFails, At

\* A request that is sent takes the name of the effect it will create.
LEMMA AskStep ==
  ASSUME Distinct, OneFault, ControlInv, ControlInv', LibraryInv, NEW r \in Requests,
         NEW op \in Ops, NEW i \in Ids, NEW n \in Names, NEW d \in Durations, Ask(r, op, i, n, d)
  PROVE  LibraryInv'
<1>1. /\ UNCHANGED <<index, media, lock, told>> /\ lock # r /\ None \notin Requests
      /\ steps \in [Kinds -> Nat] /\ steps["faults"] <= 1 /\ steps'["faults"] = steps["faults"]
      /\ used' = IF op = "create" THEN used \cup {i} ELSE used
      /\ op = "create" => i \in Uploads \ used
  BY FaultOnce DEF Ask, Distinct, ControlInv, TypeInv, LockInv, LibraryInv, At, Inside
<1>2. PICK q : /\ q = [Free EXCEPT !.at = "waiting", !.op = op, !.id = i, !.name = n, !.dur = d]
               /\ req' = [req EXCEPT ![r] = q]
  BY DEF Ask
<1>3. q.at = "waiting" /\ q.op = op /\ q.id = i
  BY <1>2 DEF Free
<1>4. req'[r] = q /\ \A s \in Requests \ {r} : req'[s] = req[s]
  BY <1>2 DEF ControlInv, TypeInv, Requested
<1>5. \A s \in Requests : lock = s => InsideInv(s)'
  BY <1>1, <1>4, OthersInside DEF LibraryInv, Kinds
<1>6. \A x : Fresh(x, used, req) => Fresh(x, used', req')
  BY <1>1, <1>3, <1>4 DEF Fresh, Distinct
<1>7. CreateInv'
  <2>1. Fresh(index', used', req')
    BY <1>1, <1>6 DEF LibraryInv, CreateInv
  <2>2. \A s \in Requests : lock' = s /\ req'[s].at # "answer" => Fresh(req'[s].seen, used', req')
    BY <1>1, <1>4, <1>6 DEF LibraryInv, CreateInv, At
  <2>3. \A s \in Requests : req'[s].op = "create" => req'[s].id \in Uploads \cap used'
    BY <1>1, <1>3, <1>4 DEF LibraryInv, CreateInv, Own
  <2>4. \A s, t \in Requests : req'[s].op = "create" /\ req'[t].op = "create" /\ req'[s].id = req'[t].id => s = t
    BY <1>1, <1>3, <1>4 DEF LibraryInv, CreateInv, Own
  <2>5. QED  BY <2>1, <2>2, <2>3, <2>4 DEF CreateInv, At, Own
<1>8. QED  BY <1>1, <1>5, <1>7 DEF LibraryInv, Indexes

\* Every step keeps the library.
LEMMA LibraryStep ==
  ASSUME Distinct, OneFault, ControlInv, ControlInv', LibraryInv, [Next]_vars PROVE LibraryInv'
<1>1. ASSUME NEW r \in Requests, RequestStep(r) PROVE LibraryInv'
  BY <1>1, EnterStep, EncodeStep, FileStep, SaveStep, TombstoneStep, UndoStep, AnswerStep DEF RequestStep
<1>2. ASSUME NEW r \in Requests, Cancel(r) \/ EncodeFails(r) \/ Fails(r) PROVE LibraryInv'
  BY <1>2, CancelStep, FailStep
<1>3. ASSUME NEW r \in Requests, NEW op \in Ops, NEW i \in Ids, NEW n \in Names, NEW d \in Durations,
             Ask(r, op, i, n, d)
      PROVE  LibraryInv'
  BY <1>3, AskStep
<1>4. ~Crash
  BY FaultOnce DEF Crash, ControlInv, TypeInv, LibraryInv
<1>5. CASE UNCHANGED vars
  <2>1. steps["faults"] \in Nat
    BY DEF ControlInv, TypeInv, Kinds
  <2>2. \A r \in Requests : lock = r => InsideInv(r)'
    BY <1>5, <2>1, OthersInside DEF vars, LibraryInv
  <2>3. CreateInv'
    BY <1>5 DEF vars, LibraryInv, CreateInv, At, Own
  <2>4. QED  BY <1>5, <2>2, <2>3 DEF vars, LibraryInv, Indexes
<1>6. QED  BY <1>1, <1>2, <1>3, <1>4, <1>5 DEF Next, Ops

\* The library is whole whenever nobody is inside, and what is inside can be
\* put back.
THEOREM LibraryInvariance == Distinct /\ OneFault => (Spec => [](ControlInv /\ LibraryInv))
<1> SUFFICES ASSUME Distinct, OneFault PROVE Spec => [](ControlInv /\ LibraryInv)
  OBVIOUS
<1>1. Init => LibraryInv
  BY InitLibrary
<1>2. ControlInv /\ ControlInv' /\ LibraryInv /\ [Next]_vars => LibraryInv'
  BY LibraryStep
<1>3. Spec => []ControlInv
  BY ControlInvariance
<1>4. QED  BY <1>1, <1>2, <1>3, PTL DEF Spec

\* What is listed can be played and lasts as long as is said, when one file
\* operation fails (PlaysAsListed).
THEOREM ListedPlays == Distinct /\ OneFault => (Spec => []PlaysAsListed)
<1> SUFFICES ASSUME Distinct, OneFault PROVE Spec => []PlaysAsListed
  OBVIOUS
<1>1. ControlInv /\ LibraryInv => PlaysAsListed
  <2> SUFFICES ASSUME ControlInv, LibraryInv, Idle, NEW i \in Listed(index)
               PROVE  Plays(i) = EntryOf(i, index).dur
    BY DEF PlaysAsListed
  <2>1. Whole(index, media, told)
    BY DEF LibraryInv, Idle
  <2>2. CASE i \in Builtins
    BY <2>1, <2>2 DEF Whole, Plays, Listed, ControlInv, TypeInv, Indexes
  <2>3. CASE i \notin Builtins
    BY <2>1, <2>3 DEF Whole, Plays, Listed, EntryOf, ControlInv, TypeInv, Indexes, Ids
  <2>4. QED  BY <2>2, <2>3
<1>2. Spec => [](ControlInv /\ LibraryInv)
  BY LibraryInvariance
<1>3. QED  BY <1>1, <1>2, PTL

\* A failure leaves no file that the index does not know (NoneUnreachable).
THEOREM AllReachable == Distinct /\ OneFault => (Spec => []NoneUnreachable)
<1>1. LibraryInv => NoneUnreachable
  BY DEF LibraryInv, Idle, NoneUnreachable, Whole
<1>2. QED  BY <1>1, LibraryInvariance, PTL

\* Every effect is shown as it was last answered, or as a request asked that has
\* ended in an error since, after its index was saved (AsAnswered).
THEOREM IndexAnswers == Distinct /\ OneFault => (Spec => []AsAnswered)
<1>1. LibraryInv => AsAnswered
  BY DEF LibraryInv, Idle, AsAnswered, Whole
<1>2. QED  BY <1>1, LibraryInvariance, PTL
=============================================================================
