------------------------- MODULE StudioServerProofs -------------------------
(***************************************************************************)
(* Theorems about what the Studio page keeps on its servers, for any       *)
(* courses, tabs, files and bounds.                                        *)
(*                                                                         *)
(* StudioSave: what the page calls saved is what the server has as that    *)
(* revision, it shows a document of the course it says is open, it loses   *)
(* no edit, it replaces no draft of another browser unseen, and only what  *)
(* was reviewed goes live.  Two courses, restored versions and             *)
(* publications do not all go together: an answer of the server is put     *)
(* into whatever course is open by then.                                   *)
(*                                                                         *)
(* StagedUpload: what a recovery record says of the service's upload; that *)
(* every reservation is found again; and, until the author lets a video    *)
(* go, that a draft revision is reserved once and that a restart leaves no *)
(* operation in doubt, whatever the service denies and grants later.       *)
(***************************************************************************)
EXTENDS StudioSave, StagedUpload, SequenceTheorems, FiniteSetTheorems, TLAPS

-----------------------------------------------------------------------------
(* The draft that is saved, restored and published (StudioSave).           *)

\* NoCourse is no course; a save is tried at least once.
SaveSizes ==
  /\ NoCourse \notin Courses
  /\ MaxAttempts \in Nat \ {0}
  /\ MaxEdits \in Nat /\ MaxElsewhere \in Nat

\* The types of what the page and the server hold.
Doc == Docs \cup {NoDoc}
\* The page may have no course open.
AnyCourse == Courses \cup {NoCourse}
\* The crash recovery copy of a course (saveCrashRecovery).
Copy == [doc: Doc, rev: Nat]
\* A revision of a draft, and who saved it.
Version == [doc: Docs, by: {"here", "elsewhere"}]
\* What the page knows of the open course.
Tab == [course: AnyCourse, rev: Nat, doc: Doc, saved: Doc, undo: Seq(Doc), redo: Seq(Doc),
        seen: Nat, recovered: BOOLEAN, conflict: BOOLEAN]
\* The save in flight (performSaveDraft).
Save == [pc: {"idle", "sent", "saved", "conflict", "failed"}, course: AnyCourse, rev: Nat,
         doc: Doc, seen: Nat, recovered: BOOLEAN]
\* A course that is being opened (openCourse).
Opening == [pc: {"idle", "asked", "read"}, course: AnyCourse, rev: Nat, doc: Doc,
            discard: BOOLEAN]
\* A version that is being restored (restoreVersion).
Restoring == [pc: {"idle", "asked", "read"}, course: AnyCourse, rev: Nat, doc: Doc]
\* What the author is asked to publish (preparePublish).
Candidate == [course: AnyCourse, rev: Nat, hash: Doc, saved: Doc]
\* How far a publication has got.
PubPcs == {"idle", "saving", "checking", "validated", "listing", "reviewing", "sending",
           "published", "failed", "done"}
\* A publication (preparePublish, submitReviewedPublication).
Pub == [pc: PubPcs, round: Nat, course: AnyCourse, rev: Nat, hash: Doc,
        candidate: Candidate, sent: Candidate, shown: Doc]
\* A video that waits to become part of the draft.
Video == [pc: {"idle", "saving", "waiting", "committing"}, course: AnyCourse]
\* The bounds' counters.
Counts == [edits: 0 .. MaxEdits, opens: Nat, undos: Nat, elsewhere: 0 .. MaxElsewhere,
           restores: Nat, reviews: Nat, faults: Nat]

\* A page without a course has no document; a request names a course.
TabSound(t) ==
  /\ t \in Tab
  /\ t.course = NoCourse => t.doc = NoDoc /\ t.undo = <<>> /\ t.redo = <<>> /\ ~t.conflict
\* A save in flight is of a course and has a document.
SaveSound(s) ==
  /\ s \in Save
  /\ s.pc # "idle" => s.course \in Courses /\ s.doc \in Docs
\* A course that was read has a document.
OpeningSound(o) ==
  /\ o \in Opening
  /\ o.pc # "idle" => o.course \in Courses
  /\ o.pc = "read" => o.doc \in Docs
\* A version that is being restored has a course and a document.
RestoringSound(r) ==
  /\ r \in Restoring
  /\ r.pc # "idle" => r.course \in Courses /\ r.doc \in Docs
\* A publication that was checked, reviewed or sent names a course.
PubSound(p) ==
  /\ p \in Pub
  /\ p.pc \in {"checking", "validated", "listing"} => p.course \in Courses
  /\ p.candidate # NoCandidate => p.candidate.course \in Courses
  /\ p.pc \in {"sending", "published"} => p.sent.course \in Courses
\* Callers wait exactly while a save is in flight.
CallersSound ==
  /\ callers \in [Callers -> 0 .. MaxAttempts]
  /\ (save.pc = "idle") <=> \A k \in Callers : callers[k] = 0
\* A draft has a revision from the start.
ServerSound ==
  /\ server \in [Courses -> Seq(Version)]
  /\ \A c \in Courses : Len(server[c]) > 0

\* All types, and requests are of an open course.
PageTypes ==
  /\ TabSound(tab) /\ recovery \in [Courses -> Copy] /\ ServerSound
  /\ live \in [Courses -> Seq(Docs)]
  /\ SaveSound(save) /\ CallersSound
  /\ OpeningSound(opening) /\ RestoringSound(restoring) /\ PubSound(pub) /\ video \in Video
  /\ work \in [Courses -> Doc] /\ confirmed \in [Courses -> Seq(Doc)] /\ count \in Counts
  /\ save.pc # "idle" \/ restoring.pc # "idle" \/ pub.pc # "idle" => tab.course \in Courses

\* The empty sequence is one of any set.
LEMMA EmptySeqs == ASSUME NEW S PROVE <<>> \in Seq(S) /\ Len(<<>>) = 0
BY EmptySeq

\* No document is not a document; no course is what a page may have.
LEMMA NoDocSound == SaveSizes => NoDoc \in Doc /\ NoDoc \notin Docs /\ NoCourse \in AnyCourse /\ Docs \subseteq Doc
BY DEF SaveSizes, Doc, NoDoc, Docs, AnyCourse

\* What there is before anything happens has its type.
LEMMA Nothings ==
  SaveSizes => /\ TabSound(NoTab) /\ SaveSound(NoSave) /\ OpeningSound(NoOpening)
           /\ RestoringSound(NoRestoring) /\ PubSound(NoPub) /\ NoVideo \in Video
           /\ NoCopy \in Copy /\ NoCandidate \in Candidate
<1> SUFFICES ASSUME SaveSizes
             PROVE /\ TabSound(NoTab) /\ SaveSound(NoSave) /\ OpeningSound(NoOpening)
                   /\ RestoringSound(NoRestoring) /\ PubSound(NoPub) /\ NoVideo \in Video
                   /\ NoCopy \in Copy /\ NoCandidate \in Candidate
  OBVIOUS
<1>1. TabSound(NoTab)
  BY NoDocSound, EmptySeqs DEF TabSound, NoTab, Tab
<1>2. SaveSound(NoSave)
  BY NoDocSound DEF SaveSound, NoSave, Save
<1>3. OpeningSound(NoOpening)
  BY NoDocSound DEF OpeningSound, NoOpening, Opening
<1>4. RestoringSound(NoRestoring)
  BY NoDocSound DEF RestoringSound, NoRestoring, Restoring
<1>5. NoCandidate \in Candidate
  BY NoDocSound DEF NoCandidate, Candidate
<1>6. PubSound(NoPub)
  BY <1>5, NoDocSound DEF PubSound, NoPub, Pub, PubPcs
<1>7. NoVideo \in Video /\ NoCopy \in Copy
  BY NoDocSound DEF NoVideo, Video, NoCopy, Copy
<1>8. QED  BY <1>1, <1>2, <1>3, <1>4, <1>5, <1>6, <1>7

\* The types hold at the start.
LEMMA TypesInit == SaveSizes /\ SaveInit => PageTypes
<1> SUFFICES ASSUME SaveSizes, SaveInit PROVE PageTypes
  OBVIOUS
<1>1. ServerSound
  <2>1. \A c \in Courses : [of |-> c, n |-> 0] \in Docs
    BY DEF Docs, SaveSizes
  <2>2. \A c \in Courses : [doc |-> [of |-> c, n |-> 0], by |-> "here"] \in Version
    BY <2>1 DEF Version
  <2>3. ASSUME NEW c \in Courses PROVE server[c] \in Seq(Version) /\ Len(server[c]) > 0
    <3>1. PICK d \in Version : d = [doc |-> [of |-> c, n |-> 0], by |-> "here"]
      BY <2>2
    <3>2. server[c] = <<d>>
      BY <3>1 DEF SaveInit
    <3>3. <<d>> \in Seq(Version) /\ Len(<<d>>) = 1
      OBVIOUS
    <3>4. QED  BY <3>2, <3>3
  <2>4. server = [c \in Courses |-> server[c]]
    BY DEF SaveInit
  <2>5. QED  BY <2>3, <2>4 DEF ServerSound
<1>2. CallersSound
  BY DEF SaveInit, CallersSound, NoSave, SaveSizes
<1>3. count \in Counts
  BY DEF SaveInit, Counts, SaveSizes
<1>4. QED
  BY <1>1, <1>2, <1>3, Nothings, NoDocSound, EmptySeqs DEF SaveInit, PageTypes, NoSave, NoRestoring, NoPub

\* Counting keeps the counters' types.
LEMMA BumpSound ==
  ASSUME SaveSizes, count \in Counts
  PROVE  /\ Bump("opens") => count' \in Counts
         /\ Bump("undos") => count' \in Counts
         /\ Bump("restores") => count' \in Counts
         /\ Bump("reviews") => count' \in Counts
         /\ Bump("faults") => count' \in Counts
         /\ Bump("edits") /\ count.edits < MaxEdits => count' \in Counts
         /\ Bump("elsewhere") /\ count.elsewhere < MaxElsewhere => count' \in Counts
<1>1. Bump("opens") => count' \in Counts
  BY DEF Bump, Counts
<1>2. Bump("undos") => count' \in Counts
  BY DEF Bump, Counts
<1>3. Bump("restores") => count' \in Counts
  BY DEF Bump, Counts
<1>4. Bump("reviews") => count' \in Counts
  BY DEF Bump, Counts
<1>5. Bump("faults") => count' \in Counts
  BY DEF Bump, Counts
<1>6. Bump("edits") /\ count.edits < MaxEdits => count' \in Counts
  BY DEF Bump, Counts, SaveSizes
<1>7. Bump("elsewhere") /\ count.elsewhere < MaxElsewhere => count' \in Counts
  BY DEF Bump, Counts, SaveSizes
<1>8. QED  BY <1>1, <1>2, <1>3, <1>4, <1>5, <1>6, <1>7

\* ---------------------------------------------------------------- calls
LEMMA CopyOfSound ==
  ASSUME SaveSizes, NEW t, TabSound(t), NEW copies \in [Courses -> Copy]
  PROVE  CopyOf(t, copies) \in [Courses -> Copy]
<1>1. CASE t.doc = NoDoc \/ t.course = NoCourse
  BY <1>1 DEF CopyOf
<1>2. CASE ~(t.doc = NoDoc \/ t.course = NoCourse)
  <2>1. PICK x : x = [doc |-> t.doc, rev |-> t.rev]
    OBVIOUS
  <2>2. x \in Copy
    BY <2>1 DEF Copy, TabSound, Tab
  <2>3. CopyOf(t, copies) = [copies EXCEPT ![t.course] = x]
    BY <1>2, <2>1 DEF CopyOf
  <2>4. QED  BY <2>2, <2>3
<1>3. QED  BY <1>1, <1>2

\* A save that begins is of the open course and of what it holds.
LEMMA BegunSound ==
  ASSUME SaveSizes, NEW t, TabSound(t), Dirty(t)
  PROVE  /\ SaveSound(Begun(t)) /\ Begun(t).pc = "sent" /\ t.course \in Courses
         /\ Begun(t).course = t.course /\ Begun(t).rev = t.rev /\ Begun(t).doc = t.doc
         /\ Begun(t).seen = t.seen /\ Begun(t).recovered = t.recovered
<1>1. t.doc \in Docs /\ t.course \in Courses
  BY DEF Dirty, TabSound, Tab, Doc, AnyCourse
<1>2. Begun(t) \in Save
  BY DEF Begun, Save, TabSound, Tab
<1>3. QED  BY <1>1, <1>2 DEF Begun, SaveSound

\* A publication is sound after the save it waited for.
LEMMA PubAfterSound ==
  ASSUME SaveSizes, NEW p, PubSound(p), NEW k, NEW ok, NEW t, TabSound(t)
  PROVE  PubSound(PubAfter(p, k, ok, t))
<1>1. CASE k = "publish" /\ ok /\ t.doc # NoDoc
  <2>1. PICK x : x = [p EXCEPT !.pc = "checking", !.course = t.course, !.rev = t.rev]
    OBVIOUS
  <2>2. t.course \in Courses /\ t.rev \in Nat
    BY <1>1 DEF TabSound, Tab, AnyCourse
  <2>3. x \in Pub /\ x.pc = "checking" /\ x.course = t.course /\ x.candidate = p.candidate
    BY <2>1, <2>2 DEF PubSound, Pub, PubPcs, AnyCourse
  <2>4. PubSound(x)
    BY <2>2, <2>3 DEF PubSound
  <2>5. QED  BY <1>1, <2>1, <2>4 DEF PubAfter
<1>2. CASE ~(k = "publish" /\ ok /\ t.doc # NoDoc)
  BY <1>2, Nothings DEF PubAfter
<1>3. QED  BY <1>1, <1>2

\* A waiting video has its type after the save it waited for.
LEMMA VideoAfterSound ==
  ASSUME SaveSizes, NEW v \in Video, NEW k, NEW ok, NEW t
  PROVE  VideoAfter(v, k, ok, t) \in Video
<1>1. [v EXCEPT !.pc = "waiting"] \in Video
  BY DEF Video
<1>2. QED  BY <1>1, Nothings DEF VideoAfter

\* saveDraft keeps the types, whoever calls it.
LEMMA CallTypes ==
  ASSUME SaveSizes, PageTypes, NEW k \in Callers, NEW t, TabSound(t), NEW copies \in [Courses -> Copy],
         NEW p, PubSound(p), NEW v \in Video, t.course \in Courses, Call(k, t, copies, p, v)
  PROVE  /\ SaveSound(save') /\ CallersSound' /\ PubSound(pub') /\ video' \in Video
         /\ recovery' \in [Courses -> Copy]
<1>1. CASE save.pc = "idle" /\ ~Dirty(t)
  <2>1. /\ pub' = PubAfter(p, k, TRUE, t) /\ video' = VideoAfter(v, k, TRUE, t)
        /\ recovery' = copies /\ UNCHANGED <<save, callers>>
    BY <1>1 DEF Call
  <2>2. QED  BY <2>1, PubAfterSound, VideoAfterSound DEF PageTypes, CallersSound
<1>2. CASE ~(save.pc = "idle" /\ ~Dirty(t))
  <2>1. callers' = [callers EXCEPT ![k] = 1] /\ pub' = p /\ video' = v
    BY <1>2 DEF Call
  <2>2. callers' \in [Callers -> 0 .. MaxAttempts] /\ callers'[k] = 1
    BY <2>1 DEF PageTypes, CallersSound, SaveSizes
  <2>3. CASE save.pc = "idle"
    <3>1. save' = Begun(t) /\ recovery' = CopyOf(t, copies) /\ Dirty(t)
      BY <1>2, <2>3 DEF Call
    <3>2. QED  BY <2>1, <2>2, <3>1, BegunSound, CopyOfSound DEF CallersSound
  <2>4. CASE save.pc # "idle"
    <3>1. save' = save /\ recovery' = copies
      BY <1>2, <2>4 DEF Call
    <3>2. QED  BY <2>1, <2>2, <2>4, <3>1 DEF PageTypes, CallersSound
  <2>5. QED  BY <2>3, <2>4
<1>3. QED  BY <1>1, <1>2

\* ---------------------------------------------------------------- saves
LEMMA SaveClickTypes == SaveSizes /\ PageTypes /\ SaveClick => PageTypes'
<1> SUFFICES ASSUME SaveSizes, PageTypes, SaveClick PROVE PageTypes'
  OBVIOUS
<1>1. TabSound(tab) /\ PubSound(pub) /\ video \in Video /\ recovery \in [Courses -> Copy]
  BY DEF PageTypes
<1>2. tab.course \in Courses
  BY <1>1, BegunSound DEF SaveClick
<1>3. Call("author", tab, recovery, pub, video) /\ "author" \in Callers
  BY DEF SaveClick, Callers
<1>4. /\ SaveSound(save') /\ CallersSound' /\ PubSound(pub') /\ video' \in Video
      /\ recovery' \in [Courses -> Copy]
  BY <1>1, <1>2, <1>3, CallTypes
<1>5. QED  BY <1>2, <1>4 DEF SaveClick, PageTypes, ServerSound

\* A new revision stands behind the old ones, which stay.
LEMMA ServerAppends ==
  ASSUME SaveSizes, PageTypes, NEW c \in Courses, NEW d \in Version,
         server' = [server EXCEPT ![c] = Append(@, d)]
  PROVE  /\ ServerSound'
         /\ Len(server'[c]) = Len(server[c]) + 1 /\ server'[c][Len(server[c]) + 1] = d
         /\ \A e \in Courses : \A r \in DOMAIN server[e] :
              r \in DOMAIN server'[e] /\ server'[e][r] = server[e][r]
<1>1. PICK old \in Seq(Version) : old = server[c]
  BY DEF PageTypes, ServerSound
<1>2. PICK new : new = Append(old, d)
  OBVIOUS
<1>3. server' = [server EXCEPT ![c] = new]
  BY <1>1, <1>2
<1>4. /\ new \in Seq(Version) /\ Len(new) = Len(old) + 1 /\ new[Len(old) + 1] = d
      /\ Len(old) \in Nat /\ DOMAIN old = 1 .. Len(old) /\ DOMAIN new = 1 .. Len(new)
      /\ \A i \in 1 .. Len(old) : new[i] = old[i]
  BY <1>2, AppendProperties, LenProperties
<1>5. /\ server'[c] = new /\ server' \in [Courses -> Seq(Version)]
      /\ \A e \in Courses \ {c} : server'[e] = server[e]
  BY <1>3, <1>4 DEF PageTypes, ServerSound
<1>6. \A e \in Courses : Len(server'[e]) > 0
  BY <1>4, <1>5 DEF PageTypes, ServerSound
<1>7. ServerSound'
  BY <1>5, <1>6 DEF ServerSound
<1>8. \A r \in DOMAIN old : r \in DOMAIN new /\ new[r] = old[r]
  BY <1>4
<1>9. QED  BY <1>1, <1>4, <1>5, <1>7, <1>8

\* The types hold after SaveCommit.
LEMMA SaveCommitTypes == SaveSizes /\ PageTypes /\ SaveCommit => PageTypes'
<1> SUFFICES ASSUME SaveSizes, PageTypes, SaveCommit PROVE PageTypes'
  OBVIOUS
<1>1. save.course \in Courses /\ save.doc \in Docs /\ SaveSound(save) /\ save.pc = "sent"
  BY DEF PageTypes, SaveSound, SaveCommit
<1>2. PICK d : d = [doc |-> save.doc, by |-> "here"]
  OBVIOUS
<1>3. d \in Version
  BY <1>1, <1>2 DEF Version
<1>4. ServerSound'
  <2>1. CASE server' = server
    BY <2>1 DEF PageTypes, ServerSound
  <2>2. CASE server' = [server EXCEPT ![save.course] = Append(@, d)]
    BY <1>1, <1>3, <2>2, ServerAppends
  <2>3. QED  BY <1>2, <2>1, <2>2 DEF SaveCommit
<1>5. save'.pc # "idle" /\ SaveSound(save')
  <2>1. PICK x : x = [save EXCEPT !.pc = "saved"]
    OBVIOUS
  <2>2. PICK y : y = [save EXCEPT !.pc = "conflict"]
    OBVIOUS
  <2>3. SaveSound(x) /\ x.pc # "idle"
    BY <1>1, <2>1 DEF SaveSound, Save
  <2>4. SaveSound(y) /\ y.pc # "idle"
    BY <1>1, <2>2 DEF SaveSound, Save
  <2>5. QED  BY <2>1, <2>2, <2>3, <2>4 DEF SaveCommit
<1>6. CallersSound'
  BY <1>1, <1>5 DEF PageTypes, CallersSound, SaveCommit
<1>7. QED  BY <1>1, <1>4, <1>5, <1>6 DEF SaveCommit, PageTypes

\* The types hold after LoseSave.
LEMMA LoseSaveTypes == SaveSizes /\ PageTypes /\ LoseSave => PageTypes'
<1> SUFFICES ASSUME SaveSizes, PageTypes, LoseSave PROVE PageTypes'
  OBVIOUS
<1>1. PICK x : x = [save EXCEPT !.pc = "failed"]
  OBVIOUS
<1>2. save' = x /\ save.pc # "idle"
  BY <1>1 DEF LoseSave
<1>3. SaveSound(x) /\ x.pc # "idle"
  BY <1>1, <1>2 DEF SaveSound, Save, PageTypes
<1>4. CallersSound'
  BY <1>2, <1>3 DEF CallersSound, PageTypes, LoseSave
<1>5. count' \in Counts
  BY BumpSound DEF LoseSave, PageTypes
<1>6. QED  BY <1>2, <1>3, <1>4, <1>5 DEF LoseSave, PageTypes, ServerSound

\* The three ways a successful save lands: another course is open,
\* the document is gone, or it is acknowledged.
LEMMA OutcomeCases ==
  ASSUME SaveSizes, PageTypes, save.pc \in {"saved", "conflict", "failed"}, NEW o, o = Outcome
  PROVE  \/ /\ save.pc = "saved" /\ tab.course # save.course /\ o.ok = TRUE
            /\ o.tab = tab /\ o.recovery = recovery
         \/ /\ save.pc = "saved" /\ tab.course = save.course /\ tab.doc = NoDoc /\ o.ok = FALSE
            /\ o.tab = tab /\ o.recovery = recovery
         \/ /\ save.pc = "saved" /\ tab.course = save.course /\ tab.doc # NoDoc /\ o.ok = TRUE
            /\ o.tab = Acknowledged(tab)
            /\ o.recovery = IF Dirty(o.tab) THEN CopyOf(o.tab, recovery)
                            ELSE [recovery EXCEPT ![tab.course] = NoCopy]
         \/ /\ save.pc = "conflict" /\ o.ok = FALSE
            /\ o.tab = [tab EXCEPT !.conflict = TRUE] /\ o.recovery = recovery
         \/ /\ save.pc = "failed" /\ o.ok = FALSE
            /\ o.tab = tab /\ o.recovery = CopyOf(tab, recovery)
<1>1. CASE save.pc = "saved" /\ tab.course # save.course
  BY <1>1 DEF Outcome
<1>2. CASE save.pc = "saved" /\ tab.course = save.course /\ tab.doc = NoDoc
  BY <1>2 DEF Outcome
<1>3. CASE save.pc = "saved" /\ tab.course = save.course /\ tab.doc # NoDoc
  <2>1. PICK t : t = Acknowledged(tab)
    OBVIOUS
  <2>2. t.course = tab.course
    BY <2>1 DEF Acknowledged, PageTypes, TabSound, Tab
  <2>3. o = [tab |-> t, ok |-> TRUE,
             recovery |-> IF Dirty(t) THEN CopyOf(t, recovery)
                          ELSE [recovery EXCEPT ![t.course] = NoCopy]]
    BY <1>3, <2>1 DEF Outcome
  <2>4. o.tab = t /\ o.ok = TRUE
    BY <2>3
  <2>5. o.recovery = IF Dirty(t) THEN CopyOf(t, recovery)
                     ELSE [recovery EXCEPT ![t.course] = NoCopy]
    BY <2>3
  <2>6. QED  BY <1>3, <2>1, <2>2, <2>4, <2>5
<1>4. CASE save.pc = "conflict"
  BY <1>4 DEF Outcome
<1>5. CASE save.pc = "failed"
  BY <1>5 DEF Outcome
<1>6. QED  BY <1>1, <1>2, <1>3, <1>4, <1>5

\* What an acknowledged save changes in the page.
LEMMA AckSound ==
  ASSUME SaveSizes, NEW t, TabSound(t), SaveSound(save), save.pc = "saved"
  PROVE  LET a == Acknowledged(t)
         IN  /\ TabSound(a) /\ a.course = t.course /\ a.doc = t.doc /\ a.saved = save.doc
             /\ a.rev = save.rev + 1 /\ a.undo = t.undo /\ a.redo = t.redo
             /\ a.conflict = t.conflict
             /\ a.seen = (IF t.doc = save.doc THEN Later(t.seen, save.rev + 1) ELSE t.seen)
             /\ a.recovered = (t.recovered /\ t.doc # save.doc)
<1>1. PICK a : a = Acknowledged(t)
  OBVIOUS
<1>2. save.rev + 1 \in Nat /\ save.doc \in Doc /\ t \in Tab
  BY NoDocSound DEF SaveSound, Save, TabSound
<1>3. PICK n : n = IF t.doc = save.doc THEN Later(t.seen, save.rev + 1) ELSE t.seen
  OBVIOUS
<1>4. n \in Nat
  BY <1>2, <1>3 DEF Tab, Later
<1>5. PICK b \in BOOLEAN : b = (t.recovered /\ ~(t.doc = save.doc))
  BY <1>2 DEF Tab
<1>6. a = [t EXCEPT !.rev = save.rev + 1, !.saved = save.doc, !.seen = n, !.recovered = b]
  BY <1>1, <1>2, <1>3, <1>5 DEF Acknowledged, Tab
<1>7. /\ a \in Tab /\ a.course = t.course /\ a.doc = t.doc /\ a.saved = save.doc
      /\ a.rev = save.rev + 1 /\ a.undo = t.undo /\ a.redo = t.redo
      /\ a.conflict = t.conflict /\ a.seen = n /\ a.recovered = b
  BY <1>2, <1>4, <1>5, <1>6 DEF Tab
<1>8. TabSound(a)
  BY <1>7 DEF TabSound
<1>9. QED  BY <1>1, <1>3, <1>5, <1>7, <1>8

\* A landing save changes neither the open course nor its document.
LEMMA OutcomeSound ==
  ASSUME SaveSizes, PageTypes, save.pc \in {"saved", "conflict", "failed"}, NEW o, o = Outcome
  PROVE  /\ TabSound(o.tab) /\ o.recovery \in [Courses -> Copy] /\ o.ok \in BOOLEAN
         /\ o.tab.course = tab.course /\ o.tab.doc = tab.doc
         /\ o.tab.undo = tab.undo /\ o.tab.redo = tab.redo
<1>1. TabSound(tab) /\ SaveSound(save) /\ recovery \in [Courses -> Copy] /\ tab.course \in Courses
  BY DEF PageTypes
<1>2. PICK t : t = o.tab
  OBVIOUS
<1>3. CASE t = tab
  <2>1. \/ o.recovery = recovery \/ o.recovery = CopyOf(tab, recovery)
        \/ o.recovery = [recovery EXCEPT ![tab.course] = NoCopy]
    BY <1>2, <1>3, OutcomeCases
  <2>2. o.recovery \in [Courses -> Copy]
    BY <1>1, <2>1, CopyOfSound, Nothings
  <2>3. o.ok \in BOOLEAN
    BY OutcomeCases
  <2>4. QED  BY <1>1, <1>2, <1>3, <2>2, <2>3
<1>4. CASE save.pc = "saved" /\ t = Acknowledged(tab)
  <2>1. /\ TabSound(t) /\ t.course = tab.course /\ t.doc = tab.doc
        /\ t.undo = tab.undo /\ t.redo = tab.redo
    BY <1>1, <1>4, AckSound
  <2>2. o.ok \in BOOLEAN
    BY OutcomeCases
  <2>3. \/ o.recovery = recovery \/ o.recovery = CopyOf(t, recovery)
        \/ o.recovery = [recovery EXCEPT ![tab.course] = NoCopy]
    BY <1>2, <1>4, OutcomeCases
  <2>4. o.recovery \in [Courses -> Copy]
    BY <1>1, <2>1, <2>3, CopyOfSound, Nothings
  <2>5. QED  BY <1>2, <2>1, <2>2, <2>4
<1>5. CASE save.pc = "conflict" /\ t = [tab EXCEPT !.conflict = TRUE]
  <2>1. /\ t \in Tab /\ t.course = tab.course /\ t.doc = tab.doc
        /\ t.undo = tab.undo /\ t.redo = tab.redo
    BY <1>1, <1>5 DEF Tab, TabSound
  <2>2. TabSound(t)
    BY <1>1, <2>1 DEF TabSound, SaveSizes
  <2>3. o.ok \in BOOLEAN /\ o.recovery = recovery
    BY <1>5, OutcomeCases
  <2>4. QED  BY <1>1, <1>2, <2>1, <2>2, <2>3
<1>6. QED  BY <1>2, <1>3, <1>4, <1>5, OutcomeCases

\* A save that lands, as the steps of a page o.tab.
LEMMA SaveLandFacts ==
  ASSUME SaveSizes, PageTypes, SaveLand, NEW o, o = Outcome
  PROVE  /\ save.pc \in {"saved", "conflict", "failed"} /\ tab' = o.tab
         /\ UNCHANGED <<server, live, opening, restoring, work, confirmed, count>>
         /\ \/ save' = NoSave /\ recovery' = o.recovery
            \/ Dirty(o.tab) /\ o.ok /\ save' = Begun(o.tab) /\ recovery' = CopyOf(o.tab, o.recovery)
         /\ \E good \in BOOLEAN :
              /\ pub' = pub \/ pub' = PubAfter(pub, "publish", good, o.tab)
              /\ video' = video \/ video' = VideoAfter(video, "video", good, o.tab)
         /\ CallersSound'
<1>1. /\ save.pc \in {"saved", "conflict", "failed"} /\ tab' = o.tab
      /\ UNCHANGED <<server, live, opening, restoring, work, confirmed, count>>
  BY DEF SaveLand
<1>2. callers' = CallersAfter(o)
  BY DEF SaveLand
<1>3. /\ save' = IF Again(o) = {} THEN NoSave ELSE Begun(o.tab)
      /\ recovery' = IF Again(o) = {} THEN o.recovery ELSE CopyOf(o.tab, o.recovery)
  BY DEF SaveLand
<1>4. \E good \in BOOLEAN :
        /\ pub' = pub \/ pub' = PubAfter(pub, "publish", good, o.tab)
        /\ video' = video \/ video' = VideoAfter(video, "video", good, o.tab)
  <2>1. PICK good \in BOOLEAN : good = (o.ok /\ ~Dirty(o.tab))
    BY <1>1, OutcomeSound
  <2>2. /\ pub' = pub \/ pub' = PubAfter(pub, "publish", good, o.tab)
        /\ video' = video \/ video' = VideoAfter(video, "video", good, o.tab)
    BY <2>1 DEF SaveLand
  <2>3. QED  BY <2>2
<1>5. Again(o) \subseteq Callers /\ (Again(o) # {} => o.ok /\ Dirty(o.tab))
  BY DEF Again
<1>6. callers' \in [Callers -> 0 .. MaxAttempts]
  BY <1>2, <1>5 DEF CallersAfter, Again, PageTypes, CallersSound, SaveSizes
<1>7. (save'.pc = "idle") <=> \A k \in Callers : callers'[k] = 0
  <2>1. CASE Again(o) = {}
    BY <1>2, <1>3, <2>1 DEF CallersAfter, NoSave
  <2>2. CASE Again(o) # {}
    <3>1. save'.pc = "sent"
      BY <1>1, <1>3, <1>5, <2>2, BegunSound, OutcomeSound
    <3>2. PICK k \in Again(o) : TRUE
      BY <2>2
    <3>3. callers'[k] = callers[k] + 1 /\ callers[k] \in Nat
      BY <1>2, <1>5, <3>2 DEF CallersAfter, PageTypes, CallersSound
    <3>4. QED  BY <1>5, <3>1, <3>2, <3>3
  <2>3. QED  BY <2>1, <2>2
<1>8. QED  BY <1>1, <1>3, <1>4, <1>5, <1>6, <1>7 DEF CallersSound

\* The types hold after SaveLand.
LEMMA SaveLandTypes == SaveSizes /\ PageTypes /\ SaveLand => PageTypes'
<1> SUFFICES ASSUME SaveSizes, PageTypes, SaveLand PROVE PageTypes'
  OBVIOUS
<1>1. PICK o : o = Outcome
  OBVIOUS
<1>2. PICK t : t = o.tab
  OBVIOUS
<1>3. /\ save.pc \in {"saved", "conflict", "failed"} /\ tab' = t
      /\ UNCHANGED <<server, live, opening, restoring, work, confirmed, count>>
      /\ \/ save' = NoSave /\ recovery' = o.recovery
         \/ Dirty(t) /\ o.ok /\ save' = Begun(t) /\ recovery' = CopyOf(t, o.recovery)
      /\ CallersSound'
  BY <1>1, <1>2, SaveLandFacts
<1>4. TabSound(t) /\ o.recovery \in [Courses -> Copy] /\ t.course = tab.course
  BY <1>1, <1>2, <1>3, OutcomeSound
<1>5. PubSound(pub') /\ video' \in Video
  <2>1. PubSound(pub) /\ video \in Video
    BY DEF PageTypes
  <2>2. PICK good : /\ pub' = pub \/ pub' = PubAfter(pub, "publish", good, t)
                    /\ video' = video \/ video' = VideoAfter(video, "video", good, t)
    BY <1>1, <1>2, SaveLandFacts
  <2>3. QED  BY <1>4, <2>1, <2>2, PubAfterSound, VideoAfterSound
<1>6. SaveSound(save') /\ recovery' \in [Courses -> Copy]
  BY <1>3, <1>4, BegunSound, CopyOfSound, Nothings
<1>7. tab'.course \in Courses
  BY <1>3, <1>4 DEF PageTypes
<1>8. TabSound(tab')
  BY <1>3, <1>4
<1>9. QED  BY <1>3, <1>5, <1>6, <1>7, <1>8 DEF PageTypes, ServerSound

\* ---------------------------------------------------------------- edits
LEMMA NewDocSound == SaveSizes /\ PageTypes /\ tab.doc # NoDoc /\ count.edits < MaxEdits => NewDoc \in Docs
<1> SUFFICES ASSUME SaveSizes, PageTypes, tab.doc # NoDoc, count.edits < MaxEdits PROVE NewDoc \in Docs
  OBVIOUS
<1>1. tab.doc.of \in Courses
  BY DEF PageTypes, TabSound, Tab, Doc, Docs
<1>2. count.edits + count.elsewhere + 1 \in 0 .. MaxEdits + MaxElsewhere
  BY DEF SaveSizes, PageTypes, Counts
<1>3. QED  BY <1>1, <1>2 DEF NewDoc, Docs

\* What an edit changes in the page (commit).
LEMMA CommittedSound ==
  ASSUME SaveSizes, TabSound(tab), tab.doc # NoDoc, NEW d \in Docs, NEW t, t = Committed(tab, d)
  PROVE  /\ TabSound(t) /\ t.course = tab.course /\ t.course \in Courses /\ t.doc = d
         /\ t.rev = tab.rev /\ t.saved = tab.saved /\ t.seen = tab.seen
         /\ t.recovered = tab.recovered /\ t.redo = <<>>
         /\ t.undo = Append(tab.undo, tab.doc)
<1>1. PICK undo \in Seq(Doc) : undo = Append(tab.undo, tab.doc)
  BY AppendProperties DEF TabSound, Tab
<1>2. t = [tab EXCEPT !.doc = d, !.undo = undo, !.redo = <<>>]
  BY <1>1 DEF Committed, TabSound, Tab
<1>3. tab.course \in Courses /\ d \in Doc /\ <<>> \in Seq(Doc)
  BY NoDocSound, EmptySeqs DEF TabSound, Tab, AnyCourse
<1>4. /\ t \in Tab /\ t.course = tab.course /\ t.doc = d /\ t.rev = tab.rev
      /\ t.saved = tab.saved /\ t.seen = tab.seen /\ t.recovered = tab.recovered
      /\ t.redo = <<>> /\ t.undo = undo
  BY <1>1, <1>2, <1>3 DEF TabSound, Tab
<1>5. TabSound(t)
  BY <1>3, <1>4 DEF TabSound, SaveSizes
<1>6. QED  BY <1>1, <1>3, <1>4, <1>5

\* A publication whose candidate is withdrawn is sound.
LEMMA ForgetCandidate ==
  ASSUME SaveSizes, NEW p, PubSound(p), NEW q, q = [p EXCEPT !.candidate = NoCandidate]
  PROVE  /\ PubSound(q) /\ q.pc = p.pc /\ q.candidate = NoCandidate /\ q.sent = p.sent
         /\ q.rev = p.rev /\ q.hash = p.hash /\ q.course = p.course /\ q.shown = p.shown
<1>1. /\ q \in Pub /\ q.pc = p.pc /\ q.candidate = NoCandidate /\ q.sent = p.sent
      /\ q.rev = p.rev /\ q.hash = p.hash /\ q.course = p.course /\ q.shown = p.shown
  BY Nothings DEF PubSound, Pub
<1>2. QED  BY <1>1 DEF PubSound

\* An edit keeps the types.
LEMMA EditTypes == SaveSizes /\ PageTypes /\ Edit => PageTypes'
<1> SUFFICES ASSUME SaveSizes, PageTypes, Edit PROVE PageTypes'
  OBVIOUS
<1>1. TabSound(tab) /\ PubSound(pub) /\ recovery \in [Courses -> Copy]
  BY DEF PageTypes
<1>2. PICK d \in Docs : d = NewDoc
  BY NewDocSound DEF Edit
<1>3. PICK t : t = Committed(tab, d)
  OBVIOUS
<1>4. /\ TabSound(t) /\ t.course = tab.course /\ t.course \in Courses /\ tab.doc # NoDoc
  BY <1>1, <1>3, CommittedSound DEF Edit
<1>5. tab' = t /\ recovery' = CopyOf(t, recovery) /\ work' = [work EXCEPT ![tab.course] = d]
  BY <1>2, <1>3 DEF Edit
<1>6. PubSound(pub')
  BY <1>1, ForgetCandidate DEF Edit
<1>7. count' \in Counts
  BY BumpSound DEF Edit, PageTypes
<1>8. recovery' \in [Courses -> Copy] /\ work' \in [Courses -> Doc]
  BY <1>1, <1>4, <1>5, CopyOfSound, NoDocSound DEF PageTypes
<1>9. CallersSound' /\ ServerSound'
  BY DEF Edit, PageTypes, CallersSound, ServerSound
<1>10. QED  BY <1>4, <1>5, <1>6, <1>7, <1>8, <1>9 DEF Edit, PageTypes

\* The ends of a sequence.
LEMMA Ends ==
  ASSUME NEW S, NEW s \in Seq(S), s # <<>>
  PROVE  /\ Last(s) \in S /\ Front(s) \in Seq(S) /\ Len(s) \in Nat /\ Len(s) > 0
         /\ \A i \in 1 .. Len(Front(s)) : i \in 1 .. Len(s) /\ Front(s)[i] = s[i]
<1>1. Len(s) \in Nat /\ Len(s) > 0 /\ \A i \in 1 .. Len(s) : s[i] \in S
  BY EmptySeq, LenProperties, ElementOfSeq
<1>2. PICK n \in Nat : n = Len(s) - 1
  BY <1>1
<1>3. \A i \in 1 .. n : s[i] \in S
  BY <1>1, <1>2
<1>4. PICK f : f = SubSeq(s, 1, n)
  OBVIOUS
<1>5. f \in Seq(S) /\ Len(f) = IF 1 <= n THEN n - 1 + 1 ELSE 0
  BY <1>3, <1>4, SubSeqProperties
<1>6. \A i \in 1 .. n - 1 + 1 : f[i] = s[1 + i - 1]
  BY <1>3, <1>4, SubSeqProperties
<1>7. Len(f) = n /\ \A i \in 1 .. n : f[i] = s[i]
  BY <1>2, <1>5, <1>6
<1>8. f = Front(s)
  BY <1>2, <1>4 DEF Front
<1>9. QED  BY <1>1, <1>2, <1>5, <1>7, <1>8 DEF Last

\* What an undo changes in the page.
LEMMA UndoneSound ==
  ASSUME SaveSizes, TabSound(tab), tab.undo # <<>>, NEW t,
         t = [tab EXCEPT !.doc = Last(tab.undo), !.undo = Front(@), !.redo = Append(@, tab.doc)]
  PROVE  /\ TabSound(t) /\ t.course = tab.course /\ t.course \in Courses
         /\ t.doc = Last(tab.undo) /\ t.undo = Front(tab.undo) /\ t.redo = Append(tab.redo, tab.doc)
         /\ t.rev = tab.rev /\ t.saved = tab.saved /\ t.seen = tab.seen
         /\ t.recovered = tab.recovered
<1>1. PICK d \in Doc : d = Last(tab.undo)
  BY Ends DEF TabSound, Tab
<1>2. PICK undo \in Seq(Doc) : undo = Front(tab.undo)
  BY Ends DEF TabSound, Tab
<1>3. PICK redo \in Seq(Doc) : redo = Append(tab.redo, tab.doc)
  BY AppendProperties DEF TabSound, Tab
<1>4. t = [tab EXCEPT !.doc = d, !.undo = undo, !.redo = redo]
  BY <1>1, <1>2, <1>3 DEF TabSound, Tab
<1>5. /\ t \in Tab /\ t.course = tab.course /\ t.doc = d /\ t.rev = tab.rev
      /\ t.saved = tab.saved /\ t.seen = tab.seen /\ t.recovered = tab.recovered
      /\ t.redo = redo /\ t.undo = undo
  BY <1>4 DEF TabSound, Tab
<1>6. t.course \in Courses
  BY <1>5 DEF TabSound, Tab, AnyCourse
<1>7. TabSound(t)
  BY <1>5, <1>6 DEF TabSound, SaveSizes
<1>8. QED  BY <1>1, <1>2, <1>3, <1>5, <1>6, <1>7

\* An undo keeps the types.
LEMMA UndoTypes == SaveSizes /\ PageTypes /\ Undo => PageTypes'
<1> SUFFICES ASSUME SaveSizes, PageTypes, Undo PROVE PageTypes'
  OBVIOUS
<1>1. TabSound(tab) /\ recovery \in [Courses -> Copy] /\ work \in [Courses -> Doc]
  BY DEF PageTypes
<1>2. PICK t : t = [tab EXCEPT !.doc = Last(tab.undo), !.undo = Front(@),
                              !.redo = Append(@, tab.doc)]
  OBVIOUS
<1>3. tab' = t /\ recovery' = CopyOf(t, recovery) /\ work' = [work EXCEPT ![tab.course] = t.doc]
  BY <1>2 DEF Undo
<1>4. TabSound(t) /\ t.course = tab.course /\ t.course \in Courses
  BY <1>1, <1>2, UndoneSound DEF Undo
<1>5. t.doc \in Doc
  BY <1>4 DEF TabSound, Tab
<1>6. recovery' \in [Courses -> Copy] /\ work' \in [Courses -> Doc]
  BY <1>1, <1>3, <1>4, <1>5, CopyOfSound
<1>7. count' \in Counts
  BY BumpSound DEF Undo, PageTypes
<1>8. CallersSound' /\ ServerSound'
  BY DEF Undo, PageTypes, CallersSound, ServerSound
<1>9. QED  BY <1>3, <1>4, <1>6, <1>7, <1>8 DEF Undo, PageTypes

\* What a redo changes in the page.
LEMMA RedoneSound ==
  ASSUME SaveSizes, TabSound(tab), tab.redo # <<>>, NEW t,
         \/ t = [tab EXCEPT !.redo = Front(@)]
         \/ t = [tab EXCEPT !.doc = Last(tab.redo), !.redo = Front(@), !.undo = Append(@, tab.doc)]
  PROVE  /\ TabSound(t) /\ t.course = tab.course /\ t.course \in Courses
         /\ t.doc \in {tab.doc, Last(tab.redo)} /\ t.redo = Front(tab.redo)
         /\ t.undo \in {tab.undo, Append(tab.undo, tab.doc)}
         /\ t.rev = tab.rev /\ t.saved = tab.saved /\ t.seen = tab.seen
         /\ t.recovered = tab.recovered
<1>1. PICK d \in Doc : d = Last(tab.redo)
  BY Ends DEF TabSound, Tab
<1>2. PICK redo \in Seq(Doc) : redo = Front(tab.redo)
  BY Ends DEF TabSound, Tab
<1>3. PICK undo \in Seq(Doc) : undo = Append(tab.undo, tab.doc)
  BY AppendProperties DEF TabSound, Tab
<1>4. \/ t = [tab EXCEPT !.redo = redo]
      \/ t = [tab EXCEPT !.doc = d, !.redo = redo, !.undo = undo]
  BY <1>1, <1>2, <1>3 DEF TabSound, Tab
<1>5. /\ t \in Tab /\ t.course = tab.course /\ t.doc \in {tab.doc, d} /\ t.rev = tab.rev
      /\ t.saved = tab.saved /\ t.seen = tab.seen /\ t.recovered = tab.recovered
      /\ t.redo = redo /\ t.undo \in {tab.undo, undo}
  BY <1>4 DEF TabSound, Tab
<1>6. t.course \in Courses
  BY <1>5 DEF TabSound, Tab, AnyCourse
<1>7. TabSound(t)
  BY <1>5, <1>6 DEF TabSound, SaveSizes
<1>8. QED  BY <1>1, <1>2, <1>3, <1>5, <1>6, <1>7

\* A redo keeps the types.
LEMMA RedoTypes == SaveSizes /\ PageTypes /\ Redo => PageTypes'
<1> SUFFICES ASSUME SaveSizes, PageTypes, Redo PROVE PageTypes'
  OBVIOUS
<1>1. TabSound(tab) /\ recovery \in [Courses -> Copy] /\ work \in [Courses -> Doc]
  BY DEF PageTypes
<1>2. PICK t : /\ tab' = t
               /\ \/ t = [tab EXCEPT !.redo = Front(@)] /\ UNCHANGED <<recovery, work>>
                  \/ /\ t = [tab EXCEPT !.doc = Last(tab.redo), !.redo = Front(@),
                                        !.undo = Append(@, tab.doc)]
                     /\ recovery' = CopyOf(t, recovery)
                     /\ work' = [work EXCEPT ![tab.course] = t.doc]
  BY DEF Redo
<1>3. TabSound(t) /\ t.course = tab.course /\ t.course \in Courses
  BY <1>1, <1>2, RedoneSound DEF Redo
<1>4. t.doc \in Doc
  BY <1>3 DEF TabSound, Tab
<1>5. recovery' \in [Courses -> Copy] /\ work' \in [Courses -> Doc]
  BY <1>1, <1>2, <1>3, <1>4, CopyOfSound
<1>6. count' \in Counts
  BY BumpSound DEF Redo, PageTypes
<1>7. CallersSound' /\ ServerSound'
  BY DEF Redo, PageTypes, CallersSound, ServerSound
<1>8. QED  BY <1>2, <1>3, <1>5, <1>6, <1>7 DEF Redo, PageTypes

\* ---------------------------------------------------------------- opening
LEMMA OpenTypes == SaveSizes /\ PageTypes /\ (\E c \in Courses : Open(c)) => PageTypes'
<1> SUFFICES ASSUME SaveSizes, PageTypes, NEW c \in Courses, Open(c) PROVE PageTypes'
  OBVIOUS
<1>1. PICK x : x = [NoOpening EXCEPT !.pc = "asked", !.course = c]
  OBVIOUS
<1>2. OpeningSound(x)
  <2>1. NoOpening \in Opening /\ c \in AnyCourse
    BY Nothings DEF OpeningSound, AnyCourse
  <2>2. x \in Opening /\ x.pc = "asked" /\ x.course = c
    BY <1>1, <2>1 DEF Opening
  <2>3. QED  BY <2>2 DEF OpeningSound
<1>3. opening' = x /\ count' \in Counts
  BY <1>1, BumpSound DEF Open, PageTypes
<1>4. CallersSound' /\ ServerSound'
  BY DEF Open, PageTypes, CallersSound, ServerSound
<1>5. QED  BY <1>2, <1>3, <1>4 DEF Open, PageTypes

\* Closing the conflict dialog changes nothing else.
LEMMA ConflictClosed ==
  ASSUME TabSound(tab), NEW t, t = [tab EXCEPT !.conflict = FALSE]
  PROVE  /\ TabSound(t) /\ t.course = tab.course /\ t.rev = tab.rev /\ t.doc = tab.doc
         /\ t.saved = tab.saved /\ t.seen = tab.seen /\ t.recovered = tab.recovered
         /\ t.undo = tab.undo /\ t.redo = tab.redo
<1>1. /\ t \in Tab /\ t.course = tab.course /\ t.rev = tab.rev /\ t.doc = tab.doc
      /\ t.saved = tab.saved /\ t.seen = tab.seen /\ t.recovered = tab.recovered
      /\ t.undo = tab.undo /\ t.redo = tab.redo /\ ~t.conflict
  BY DEF TabSound, Tab
<1>2. QED  BY <1>1 DEF TabSound

\* Closing the conflict keeps the types.
LEMMA KeepTypes == SaveSizes /\ PageTypes /\ Keep => PageTypes'
<1> SUFFICES ASSUME SaveSizes, PageTypes, Keep PROVE PageTypes'
  OBVIOUS
<1>1. TabSound(tab') /\ tab'.course = tab.course
  BY ConflictClosed DEF Keep, PageTypes
<1>2. CallersSound' /\ ServerSound'
  BY DEF Keep, PageTypes, CallersSound, ServerSound
<1>3. QED  BY <1>1, <1>2 DEF Keep, PageTypes

\* A reload keeps the types.
LEMMA ReloadTypes == SaveSizes /\ PageTypes /\ Reload => PageTypes'
<1> SUFFICES ASSUME SaveSizes, PageTypes, Reload PROVE PageTypes'
  OBVIOUS
<1>1. TabSound(tab') /\ tab'.course = tab.course
  BY ConflictClosed DEF Reload, PageTypes
<1>2. tab.course \in Courses
  BY DEF Reload, PageTypes, TabSound, Tab, AnyCourse
<1>3. PICK x : x = [NoOpening EXCEPT !.pc = "asked", !.course = tab.course, !.discard = TRUE]
  OBVIOUS
<1>4. OpeningSound(x)
  <2>1. NoOpening \in Opening /\ tab.course \in AnyCourse
    BY <1>2, Nothings DEF OpeningSound, AnyCourse
  <2>2. x \in Opening /\ x.pc = "asked" /\ x.course = tab.course
    BY <1>3, <2>1 DEF Opening
  <2>3. QED  BY <1>2, <2>2 DEF OpeningSound
<1>5. opening' = x /\ work' \in [Courses -> Doc] /\ count' \in Counts
  BY <1>3, BumpSound, NoDocSound DEF Reload, PageTypes
<1>6. CallersSound' /\ ServerSound'
  BY DEF Reload, PageTypes, CallersSound, ServerSound
<1>7. QED  BY <1>1, <1>4, <1>5, <1>6 DEF Reload, PageTypes

\* The last revision of a course.
LEMMA LastVersion ==
  ASSUME ServerSound, NEW c \in Courses
  PROVE  /\ Len(server[c]) \in Nat /\ Len(server[c]) > 0
         /\ DOMAIN server[c] = 1 .. Len(server[c]) /\ Len(server[c]) \in DOMAIN server[c]
         /\ Last(server[c]) = server[c][Len(server[c])]
         /\ Last(server[c]) \in Version /\ Last(server[c]).doc \in Docs
<1>1. PICK s \in Seq(Version) : s = server[c] /\ Len(s) > 0
  BY DEF ServerSound
<1>2. Len(s) \in Nat /\ DOMAIN s = 1 .. Len(s) /\ s # <<>>
  BY <1>1, LenProperties, EmptySeq
<1>3. Last(s) \in Version
  BY <1>1, <1>2, Ends
<1>4. Last(s).doc \in Docs
  BY <1>3 DEF Version
<1>5. QED  BY <1>1, <1>2, <1>3, <1>4 DEF Last

\* What the server answers to openCourse.
LEMMA OpenReadFacts ==
  ASSUME SaveSizes, PageTypes, OpenRead
  PROVE  /\ OpeningSound(opening') /\ opening.course \in Courses
         /\ opening' = [opening EXCEPT !.pc = "read", !.rev = Len(server[opening.course]),
                                       !.doc = Last(server[opening.course]).doc]
         /\ opening'.pc = "read" /\ opening'.course = opening.course
         /\ opening'.rev = Len(server[opening.course])
         /\ opening'.doc = Last(server[opening.course]).doc
         /\ opening'.discard = opening.discard
<1>1. opening \in Opening /\ opening.course \in Courses
  BY DEF PageTypes, OpeningSound, OpenRead
<1>2. PICK n \in Nat, d \in Docs : n = Len(server[opening.course]) /\ d = Last(server[opening.course]).doc
  BY <1>1, LastVersion DEF PageTypes
<1>3. PICK x : x = [opening EXCEPT !.pc = "read", !.rev = n, !.doc = d]
  OBVIOUS
<1>4. x \in Opening /\ x.pc = "read" /\ x.course = opening.course /\ x.rev = n /\ x.doc = d /\ x.discard = opening.discard
  BY <1>1, <1>2, <1>3, NoDocSound DEF Opening
<1>5. OpeningSound(x)
  BY <1>1, <1>4 DEF OpeningSound
<1>6. opening' = x
  BY <1>2, <1>3 DEF OpenRead
<1>7. QED  BY <1>1, <1>2, <1>3, <1>4, <1>5, <1>6

\* The types hold after OpenRead.
LEMMA OpenReadTypes == SaveSizes /\ PageTypes /\ OpenRead => PageTypes'
<1> SUFFICES ASSUME SaveSizes, PageTypes, OpenRead PROVE PageTypes'
  OBVIOUS
<1>1. OpeningSound(opening')
  BY OpenReadFacts
<1>2. CallersSound' /\ ServerSound'
  BY DEF OpenRead, PageTypes, CallersSound, ServerSound
<1>3. QED  BY <1>1, <1>2 DEF OpenRead, PageTypes

\* The types hold after OpenFail.
LEMMA OpenFailTypes == SaveSizes /\ PageTypes /\ OpenFail => PageTypes'
<1> SUFFICES ASSUME SaveSizes, PageTypes, OpenFail PROVE PageTypes'
  OBVIOUS
<1>1. CallersSound' /\ ServerSound' /\ count' \in Counts
  BY BumpSound DEF OpenFail, PageTypes, CallersSound, ServerSound
<1>2. QED  BY <1>1, Nothings DEF OpenFail, PageTypes

\* What a landing opens: the course as it was read, or its recovery copy.
LEMMA OpenLandFacts ==
  ASSUME SaveSizes, PageTypes, OpenLand
  PROVE  /\ opening.pc = "read" /\ opening' = NoOpening /\ opening.course \in Courses
         /\ UNCHANGED <<save, callers, restoring, video, server, live, confirmed, count>>
         /\ pub' = [pub EXCEPT !.candidate = NoCandidate]
         /\ TabSound(tab') /\ tab'.course = opening.course /\ tab'.rev = opening.rev
         /\ tab'.saved = opening.doc /\ tab'.undo = <<>> /\ tab'.redo = <<>>
         /\ \/ /\ ~opening.discard /\ recovery[opening.course].doc # opening.doc
               /\ tab'.doc = recovery[opening.course].doc /\ tab'.recovered = TRUE
               /\ recovery' = recovery /\ work' = work
            \/ /\ tab'.doc = opening.doc /\ tab'.recovered = FALSE /\ tab'.seen >= opening.rev
               /\ recovery' = [recovery EXCEPT ![opening.course] = NoCopy]
               /\ work' = [work EXCEPT ![opening.course] = NoDoc]
            \/ /\ tab'.doc = opening.doc /\ tab'.recovered = FALSE /\ tab'.seen >= opening.rev
               /\ work' = work /\ opening.discard
               /\ recovery' = [recovery EXCEPT ![opening.course] = NoCopy]
            \/ /\ tab'.doc = opening.doc /\ tab'.recovered = FALSE /\ tab'.seen >= opening.rev
               /\ work' = work /\ recovery' = recovery
               /\ \/ recovery[opening.course].doc = NoDoc
                  \/ recovery[opening.course].doc = opening.doc
<1> DEFINE c == opening.course
           copy == recovery[c]
           before == IF tab.course = c THEN tab.seen ELSE 0
           fresh == [NoTab EXCEPT !.course = c, !.rev = opening.rev, !.doc = opening.doc,
                                  !.saved = opening.doc, !.seen = Later(before, opening.rev),
                                  !.conflict = tab.conflict]
           taken == [fresh EXCEPT !.doc = copy.doc, !.seen = Later(before, copy.rev),
                                  !.recovered = TRUE]
           offered == ~opening.discard /\ copy # NoCopy /\ copy.doc # opening.doc
<1>1. /\ opening \in Opening /\ c \in Courses /\ c \in AnyCourse /\ opening.doc \in Docs
      /\ opening.pc = "read" /\ tab \in Tab /\ copy \in Copy
  BY DEF PageTypes, OpeningSound, TabSound, OpenLand, AnyCourse
<1>2. PICK n \in Nat, m \in Nat : /\ n = Later(before, opening.rev) /\ m = Later(before, copy.rev)
                                  /\ n >= opening.rev
  BY <1>1 DEF Later, Opening, Tab, Copy
<1>3. PICK f : f = [NoTab EXCEPT !.course = c, !.rev = opening.rev, !.doc = opening.doc,
                                 !.saved = opening.doc, !.seen = n, !.conflict = tab.conflict]
  OBVIOUS
<1>4. /\ f.course = c /\ f.rev = opening.rev /\ f.doc = opening.doc /\ f.saved = opening.doc
      /\ f.undo = <<>> /\ f.redo = <<>> /\ f.seen = n /\ f.recovered = FALSE
      /\ f.conflict = tab.conflict
      /\ f = [course |-> f.course, rev |-> f.rev, doc |-> f.doc, saved |-> f.saved,
              undo |-> f.undo, redo |-> f.redo, seen |-> f.seen, recovered |-> f.recovered,
              conflict |-> f.conflict]
  BY <1>3 DEF NoTab
<1>5. f \in Tab
  BY <1>1, <1>2, <1>4, NoDocSound, EmptySeqs DEF Tab, Opening
<1>6. TabSound(f)
  BY <1>1, <1>4, <1>5 DEF TabSound, SaveSizes
<1>7. PICK g : g = [f EXCEPT !.doc = copy.doc, !.seen = m, !.recovered = TRUE]
  OBVIOUS
<1>8. /\ g \in Tab /\ g.course = c /\ g.rev = opening.rev /\ g.saved = opening.doc
      /\ g.undo = <<>> /\ g.redo = <<>> /\ g.doc = copy.doc /\ g.recovered = TRUE
  BY <1>1, <1>2, <1>4, <1>5, <1>7 DEF Tab, Copy
<1>9. TabSound(g)
  BY <1>1, <1>8 DEF TabSound, SaveSizes
<1>10. fresh = f /\ taken = g
  BY <1>2, <1>3, <1>7
<1>11. /\ opening' = NoOpening /\ pub' = [pub EXCEPT !.candidate = NoCandidate]
       /\ UNCHANGED <<save, callers, restoring, video, server, live, confirmed, count>>
       /\ \/ offered /\ tab' = taken /\ UNCHANGED <<recovery, work>>
          \/ /\ offered /\ tab' = fresh
             /\ recovery' = [recovery EXCEPT ![c] = NoCopy] /\ work' = [work EXCEPT ![c] = NoDoc]
          \/ /\ ~offered /\ tab' = fresh
             /\ recovery' = IF opening.discard THEN [recovery EXCEPT ![c] = NoCopy] ELSE recovery
             /\ UNCHANGED work
  BY DEF OpenLand
<1>12. ~offered /\ ~opening.discard => copy.doc = NoDoc \/ copy.doc = opening.doc
  BY DEF NoCopy
<1> HIDE DEF fresh, taken
<1>13. CASE offered /\ tab' = taken /\ UNCHANGED <<recovery, work>>
  BY <1>1, <1>8, <1>9, <1>10, <1>11, <1>13
<1>14. CASE /\ offered /\ tab' = fresh
            /\ recovery' = [recovery EXCEPT ![c] = NoCopy] /\ work' = [work EXCEPT ![c] = NoDoc]
  BY <1>1, <1>2, <1>4, <1>6, <1>10, <1>11, <1>14
<1>15. CASE /\ ~offered /\ tab' = fresh
            /\ recovery' = IF opening.discard THEN [recovery EXCEPT ![c] = NoCopy] ELSE recovery
            /\ UNCHANGED work
  BY <1>1, <1>2, <1>4, <1>6, <1>10, <1>11, <1>12, <1>15
<1>16. QED  BY <1>11, <1>13, <1>14, <1>15

\* The types hold after OpenLand.
LEMMA OpenLandTypes == SaveSizes /\ PageTypes /\ OpenLand => PageTypes'
<1> SUFFICES ASSUME SaveSizes, PageTypes, OpenLand PROVE PageTypes'
  OBVIOUS
<1>1. /\ opening' = NoOpening /\ opening.course \in Courses
      /\ UNCHANGED <<save, callers, restoring, video, server, live, confirmed, count>>
      /\ pub' = [pub EXCEPT !.candidate = NoCandidate]
      /\ TabSound(tab') /\ tab'.course = opening.course
      /\ recovery' = recovery \/ recovery' = [recovery EXCEPT ![opening.course] = NoCopy]
      /\ work' = work \/ work' = [work EXCEPT ![opening.course] = NoDoc]
  BY OpenLandFacts
<1>2. PubSound(pub') /\ OpeningSound(opening')
  BY <1>1, ForgetCandidate, Nothings DEF PageTypes
<1>3. recovery' \in [Courses -> Copy] /\ work' \in [Courses -> Doc]
  BY <1>1, Nothings, NoDocSound DEF PageTypes
<1>4. CallersSound' /\ ServerSound'
  BY <1>1 DEF PageTypes, CallersSound, ServerSound
<1>5. QED  BY <1>1, <1>2, <1>3, <1>4 DEF PageTypes

\* -------------------------------------------------------------- restoring
LEMMA RestoreClickTypes == SaveSizes /\ PageTypes /\ RestoreClick => PageTypes'
<1> SUFFICES ASSUME SaveSizes, PageTypes, RestoreClick PROVE PageTypes'
  OBVIOUS
<1>1. tab.course \in Courses /\ tab.rev \in Nat /\ tab.course \in AnyCourse
  BY DEF RestoreClick, PageTypes, TabSound, Tab, AnyCourse
<1>2. PICK i \in DOMAIN live[tab.course] :
        restoring' = [pc |-> "asked", course |-> tab.course, rev |-> tab.rev,
                      doc |-> live[tab.course][i]]
  BY DEF RestoreClick
<1>3. live[tab.course][i] \in Docs
  <2>1. PICK s \in Seq(Docs) : s = live[tab.course]
    BY <1>1 DEF PageTypes
  <2>2. QED  BY <1>2, <2>1, ElementOfSeq, LenProperties
<1>4. PICK d \in Docs : d = live[tab.course][i]
  BY <1>3
<1>5. RestoringSound(restoring')
  BY <1>1, <1>2, <1>4, NoDocSound DEF RestoringSound, Restoring
<1>6. work' \in [Courses -> Doc] /\ count' \in Counts
  BY BumpSound, NoDocSound DEF RestoreClick, PageTypes
<1>7. CallersSound' /\ ServerSound'
  BY DEF RestoreClick, PageTypes, CallersSound, ServerSound
<1>8. QED  BY <1>1, <1>5, <1>6, <1>7 DEF RestoreClick, PageTypes

\* What the server does with a restored version.
LEMMA RestoreCommitFacts ==
  ASSUME SaveSizes, PageTypes, RestoreCommit
  PROVE  /\ restoring.course \in Courses /\ restoring.doc \in Docs /\ restoring.rev \in Nat
         /\ UNCHANGED <<tab, recovery, save, callers, opening, pub, video, live, work, confirmed,
                        count>>
         /\ RestoringSound(restoring')
         /\ \/ restoring' = NoRestoring /\ server' = server
            \/ \E d \in Version :
                 /\ d = [doc |-> restoring.doc, by |-> "here"]
                 /\ d.doc = restoring.doc /\ d.by = "here"
                 /\ Len(server[restoring.course]) = restoring.rev
                 /\ server' = [server EXCEPT ![restoring.course] = Append(@, d)]
                 /\ restoring'.pc = "read" /\ restoring'.rev = restoring.rev + 1
                 /\ restoring'.course = restoring.course /\ restoring'.doc = restoring.doc
<1>1. /\ restoring.course \in Courses /\ restoring.doc \in Docs /\ restoring \in Restoring
      /\ restoring.rev \in Nat
  BY DEF PageTypes, RestoringSound, Restoring, RestoreCommit
<1>2. /\ UNCHANGED <<tab, recovery, save, callers, opening, pub, video, live, work, confirmed,
                     count>>
  BY DEF RestoreCommit
<1>3. CASE restoring' = NoRestoring /\ server' = server
  BY <1>1, <1>2, <1>3, Nothings
<1>4. CASE Len(server[restoring.course]) = restoring.rev
  <2>1. PICK d : d = [doc |-> restoring.doc, by |-> "here"]
    OBVIOUS
  <2>2. d \in Version /\ d.doc = restoring.doc /\ d.by = "here"
    BY <1>1, <2>1 DEF Version
  <2>3. PICK r \in Nat : r = restoring.rev + 1
    BY <1>1
  <2>8. PICK x : x = [restoring EXCEPT !.pc = "read", !.rev = r]
    OBVIOUS
  <2>4. restoring' = x /\ server' = [server EXCEPT ![restoring.course] = Append(@, d)]
    BY <1>1, <1>4, <2>1, <2>3, <2>8 DEF RestoreCommit, Restoring
  <2>5. /\ x \in Restoring /\ x.pc = "read" /\ x.rev = r
        /\ x.course = restoring.course /\ x.doc = restoring.doc
    BY <1>1, <2>8 DEF Restoring
  <2>6. RestoringSound(x)
    BY <1>1, <2>5 DEF RestoringSound
  <2>7. QED  BY <1>1, <1>2, <1>4, <2>1, <2>2, <2>3, <2>4, <2>5, <2>6
<1>5. QED  BY <1>3, <1>4 DEF RestoreCommit

\* The types hold after RestoreCommit.
LEMMA RestoreCommitTypes == SaveSizes /\ PageTypes /\ RestoreCommit => PageTypes'
<1> SUFFICES ASSUME SaveSizes, PageTypes, RestoreCommit PROVE PageTypes'
  OBVIOUS
<1>1. /\ restoring.course \in Courses /\ RestoringSound(restoring')
      /\ UNCHANGED <<tab, recovery, save, callers, opening, pub, video, live, work, confirmed,
                     count>>
      /\ \/ server' = server
         \/ \E d \in Version : server' = [server EXCEPT ![restoring.course] = Append(@, d)]
  BY RestoreCommitFacts
<1>2. ServerSound'
  BY <1>1, ServerAppends DEF PageTypes, ServerSound
<1>3. CallersSound'
  BY <1>1 DEF PageTypes, CallersSound
<1>4. tab.course \in Courses
  BY DEF PageTypes, RestoreCommit
<1>5. QED  BY <1>1, <1>2, <1>3, <1>4 DEF PageTypes

\* The types hold after RestoreFail.
LEMMA RestoreFailTypes == SaveSizes /\ PageTypes /\ RestoreFail => PageTypes'
<1> SUFFICES ASSUME SaveSizes, PageTypes, RestoreFail PROVE PageTypes'
  OBVIOUS
<1>1. CallersSound' /\ ServerSound' /\ count' \in Counts
  BY BumpSound DEF RestoreFail, PageTypes, CallersSound, ServerSound
<1>2. QED  BY <1>1, Nothings DEF RestoreFail, PageTypes

\* What a restored version changes in the page.
LEMMA RestoreLandFacts ==
  ASSUME SaveSizes, PageTypes, RestoreLand
  PROVE  /\ restoring.pc = "read" /\ tab.course \in Courses /\ restoring.doc \in Docs
         /\ TabSound(tab') /\ tab'.course = tab.course /\ tab'.rev = restoring.rev
         /\ tab'.doc = restoring.doc /\ tab'.saved = restoring.doc /\ tab'.undo = <<>>
         /\ tab'.redo = <<>> /\ tab'.recovered = FALSE /\ tab'.seen >= restoring.rev
         /\ recovery' = [recovery EXCEPT ![tab.course] = NoCopy]
         /\ pub' = [pub EXCEPT !.candidate = NoCandidate] /\ restoring' = NoRestoring
         /\ UNCHANGED <<save, callers, opening, video, server, live, work, confirmed, count>>
<1>1. /\ restoring \in Restoring /\ restoring.pc = "read" /\ restoring.doc \in Docs
      /\ restoring.doc \in Doc /\ tab \in Tab /\ tab.course \in Courses /\ <<>> \in Seq(Doc)
  BY NoDocSound, EmptySeqs DEF PageTypes, RestoringSound, TabSound, RestoreLand
<1>2. PICK n \in Nat : n = Later(tab.seen, restoring.rev) /\ n >= restoring.rev
  BY <1>1 DEF Later, Restoring, Tab
<1>3. PICK t : t = [tab EXCEPT !.rev = restoring.rev, !.doc = restoring.doc,
                       !.saved = restoring.doc, !.undo = <<>>, !.redo = <<>>, !.seen = n,
                       !.recovered = FALSE]
  OBVIOUS
<1>4. /\ t \in Tab /\ t.course = tab.course /\ t.rev = restoring.rev
      /\ t.doc = restoring.doc /\ t.saved = restoring.doc /\ t.undo = <<>>
      /\ t.redo = <<>> /\ t.recovered = FALSE /\ t.seen = n
  BY <1>1, <1>2, <1>3 DEF Tab, Restoring
<1>5. TabSound(t)
  BY <1>1, <1>4 DEF TabSound, SaveSizes
<1>6. tab' = t
  BY <1>1, <1>2, <1>3 DEF RestoreLand, Tab
<1>7. QED  BY <1>1, <1>2, <1>4, <1>5, <1>6 DEF RestoreLand

\* The types hold after RestoreLand.
LEMMA RestoreLandTypes == SaveSizes /\ PageTypes /\ RestoreLand => PageTypes'
<1> SUFFICES ASSUME SaveSizes, PageTypes, RestoreLand PROVE PageTypes'
  OBVIOUS
<1>1. /\ tab.course \in Courses /\ TabSound(tab') /\ tab'.course = tab.course
      /\ recovery' = [recovery EXCEPT ![tab.course] = NoCopy]
      /\ pub' = [pub EXCEPT !.candidate = NoCandidate] /\ restoring' = NoRestoring
      /\ UNCHANGED <<save, callers, opening, video, server, live, work, confirmed, count>>
  BY RestoreLandFacts
<1>2. PubSound(pub') /\ RestoringSound(restoring')
  BY <1>1, ForgetCandidate, Nothings DEF PageTypes
<1>3. recovery' \in [Courses -> Copy]
  BY <1>1, Nothings DEF PageTypes
<1>4. CallersSound' /\ ServerSound'
  BY <1>1 DEF PageTypes, CallersSound, ServerSound
<1>5. QED  BY <1>1, <1>2, <1>3, <1>4 DEF PageTypes

\* ------------------------------------------------------------- publishing
LEMMA PubAt ==
  ASSUME NEW p, PubSound(p), NEW x \in PubPcs \ {"checking", "validated", "sending", "published"},
         x = "listing" => p.course \in Courses, NEW q, q = [p EXCEPT !.pc = x]
  PROVE  /\ PubSound(q) /\ q.pc = x /\ q.course = p.course /\ q.rev = p.rev /\ q.hash = p.hash
         /\ q.candidate = p.candidate /\ q.sent = p.sent /\ q.shown = p.shown
         /\ q.round = p.round
<1>1. /\ q \in Pub /\ q.pc = x /\ q.course = p.course /\ q.rev = p.rev /\ q.hash = p.hash
      /\ q.candidate = p.candidate /\ q.sent = p.sent /\ q.shown = p.shown
      /\ q.round = p.round
  BY DEF PubSound, Pub
<1>2. QED  BY <1>1 DEF PubSound

\* A publication that starts over: its save is under way.
LEMMA PubSaving ==
  ASSUME NEW p, PubSound(p), NEW n \in Nat, NEW q, q = [p EXCEPT !.pc = "saving", !.round = n]
  PROVE  /\ PubSound(q) /\ q.pc = "saving" /\ q.course = p.course /\ q.rev = p.rev
         /\ q.hash = p.hash /\ q.candidate = p.candidate /\ q.sent = p.sent /\ q.shown = p.shown
<1>1. /\ q \in Pub /\ q.pc = "saving" /\ q.course = p.course /\ q.rev = p.rev
      /\ q.hash = p.hash /\ q.candidate = p.candidate /\ q.sent = p.sent /\ q.shown = p.shown
  BY DEF PubSound, Pub, PubPcs
<1>2. QED  BY <1>1 DEF PubSound

\* What a call of saveDraft does to the copies and to the save in flight.
LEMMA CallFacts ==
  ASSUME PageTypes, NEW k \in Callers, NEW t, NEW copies, NEW p, NEW v,
         Call(k, t, copies, p, v)
  PROVE  /\ \/ save' = save /\ recovery' = copies
            \/ Dirty(t) /\ save.pc = "idle" /\ save' = Begun(t) /\ recovery' = CopyOf(t, copies)
         /\ pub' = p \/ pub' = PubAfter(p, k, TRUE, t)
         /\ \A j \in Callers \ {k} : callers'[j] = callers[j]
<1>1. CASE save.pc = "idle" /\ ~Dirty(t)
  BY <1>1 DEF Call
<1>2. CASE ~(save.pc = "idle" /\ ~Dirty(t))
  <2>1. callers' = [callers EXCEPT ![k] = 1] /\ pub' = p /\ callers \in [Callers -> 0 .. MaxAttempts]
    BY <1>2 DEF Call, PageTypes, CallersSound
  <2>2. \A j \in Callers \ {k} : callers'[j] = callers[j]
    BY <2>1
  <2>3. CASE save.pc = "idle"
    <3>1. save' = Begun(t) /\ recovery' = CopyOf(t, copies) /\ Dirty(t)
      BY <1>2, <2>3 DEF Call
    <3>2. QED  BY <2>1, <2>2, <2>3, <3>1
  <2>4. CASE save.pc # "idle"
    <3>1. save' = save /\ recovery' = copies
      BY <1>2, <2>4 DEF Call
    <3>2. QED  BY <2>1, <2>2, <3>1
  <2>5. QED  BY <2>3, <2>4
<1>3. QED  BY <1>1, <1>2

\* The types hold after BeginPublish.
LEMMA BeginPublishTypes == SaveSizes /\ PageTypes /\ BeginPublish => PageTypes'
<1> SUFFICES ASSUME SaveSizes, PageTypes, BeginPublish PROVE PageTypes'
  OBVIOUS
<1>1. TabSound(tab) /\ video \in Video /\ recovery \in [Courses -> Copy] /\ tab.course \in Courses
  BY DEF PageTypes, TabSound, Tab, AnyCourse, BeginPublish
<1>2. PICK p : p = [NoPub EXCEPT !.pc = "saving", !.round = 1]
  OBVIOUS
<1>3. PubSound(p)
  BY <1>2, PubSaving, Nothings
<1>4. Call("publish", tab, recovery, p, video) /\ "publish" \in Callers
  BY <1>2 DEF BeginPublish, Callers
<1>5. /\ SaveSound(save') /\ CallersSound' /\ PubSound(pub') /\ video' \in Video
      /\ recovery' \in [Courses -> Copy]
  BY <1>1, <1>3, <1>4, CallTypes
<1>6. count' \in Counts
  BY BumpSound DEF BeginPublish, PageTypes
<1>7. QED  BY <1>1, <1>5, <1>6 DEF BeginPublish, PageTypes, ServerSound

\* What the server answers to a validation.
LEMMA ValidateFacts ==
  ASSUME SaveSizes, PageTypes, Validate
  PROVE  /\ pub.pc = "checking" /\ pub.course \in Courses
         /\ PubSound(pub') /\ pub'.pc = "validated" /\ pub'.course = pub.course
         /\ pub'.rev = Len(server[pub.course]) /\ pub'.hash = Last(server[pub.course]).doc
<1>1. pub \in Pub /\ pub.pc = "checking" /\ pub.course \in Courses /\ PubSound(pub)
  BY DEF Validate, PageTypes, PubSound
<1>2. PICK n \in Nat, d \in Docs : n = Len(server[pub.course]) /\ d = Last(server[pub.course]).doc
  BY <1>1, LastVersion DEF PageTypes
<1>3. PICK q : q = [pub EXCEPT !.pc = "validated", !.rev = n, !.hash = d]
  OBVIOUS
<1>4. /\ q \in Pub /\ q.pc = "validated" /\ q.course = pub.course /\ q.rev = n /\ q.hash = d
      /\ q.candidate = pub.candidate
  BY <1>1, <1>2, <1>3, NoDocSound DEF Pub, PubPcs
<1>5. PubSound(q)
  BY <1>1, <1>4 DEF PubSound
<1>6. pub' = q
  BY <1>2, <1>3 DEF Validate
<1>7. QED  BY <1>1, <1>2, <1>4, <1>5, <1>6

\* The types hold after Validate.
LEMMA ValidateTypes == SaveSizes /\ PageTypes /\ Validate => PageTypes'
<1> SUFFICES ASSUME SaveSizes, PageTypes, Validate PROVE PageTypes'
  OBVIOUS
<1>1. PubSound(pub') /\ tab.course \in Courses
  BY ValidateFacts DEF PageTypes
<1>2. CallersSound' /\ ServerSound'
  BY DEF Validate, PageTypes, CallersSound, ServerSound
<1>3. QED  BY <1>1, <1>2 DEF Validate, PageTypes

\* The check's answer: once more, on to the history, or the end.
LEMMA CheckedFacts ==
  ASSUME SaveSizes, PageTypes, Checked
  PROVE  /\ pub.pc = "validated"
         /\ UNCHANGED <<tab, opening, restoring, server, live, work, confirmed, count>>
         /\ \/ \E p : /\ p = [pub EXCEPT !.pc = "saving", !.round = 2]
                      /\ PubSound(p) /\ p.pc = "saving"
                      /\ Call("publish", tab, recovery, p, video)
            \/ /\ PubSound(pub') /\ pub'.pc = "listing" /\ pub'.course = pub.course
               /\ pub'.rev = pub.rev /\ pub'.hash = pub.hash
               /\ UNCHANGED <<recovery, save, callers, video>>
            \/ pub' = NoPub /\ UNCHANGED <<recovery, save, callers, video>>
<1>1. PubSound(pub) /\ pub.pc = "validated" /\ pub.course \in Courses
  BY DEF Checked, PageTypes, PubSound
<1>2. PICK p : p = [pub EXCEPT !.pc = "saving", !.round = 2]
  OBVIOUS
<1>3. PubSound(p) /\ p.pc = "saving"
  <2>1. PICK n \in Nat : n = 2
    OBVIOUS
  <2>2. p = [pub EXCEPT !.pc = "saving", !.round = n]
    BY <1>2, <2>1
  <2>3. QED  BY <1>1, <2>2, PubSaving
<1>4. PICK q : q = [pub EXCEPT !.pc = "listing"]
  OBVIOUS
<1>5. PubSound(q) /\ q.pc = "listing" /\ q.course = pub.course /\ q.rev = pub.rev /\ q.hash = pub.hash
  BY <1>1, <1>4, PubAt DEF PubPcs
<1>6. /\ UNCHANGED <<tab, opening, restoring, server, live, work, confirmed, count>>
      /\ \/ Call("publish", tab, recovery, p, video)
         \/ pub' = q /\ UNCHANGED <<recovery, save, callers, video>>
         \/ pub' = NoPub /\ UNCHANGED <<recovery, save, callers, video>>
  BY <1>2, <1>4 DEF Checked
<1>7. QED  BY <1>1, <1>2, <1>3, <1>5, <1>6

\* The types hold after Checked.
LEMMA CheckedTypes == SaveSizes /\ PageTypes /\ Checked => PageTypes'
<1> SUFFICES ASSUME SaveSizes, PageTypes, Checked PROVE PageTypes'
  OBVIOUS
<1>1. /\ tab.course \in Courses /\ TabSound(tab) /\ video \in Video
      /\ recovery \in [Courses -> Copy] /\ "publish" \in Callers
  BY CheckedFacts DEF PageTypes, Callers
<1>2. UNCHANGED <<tab, opening, restoring, server, live, work, confirmed, count>>
  BY CheckedFacts
<1>3. /\ SaveSound(save') /\ CallersSound' /\ PubSound(pub') /\ video' \in Video
      /\ recovery' \in [Courses -> Copy]
  <2>1. CASE \E p : PubSound(p) /\ Call("publish", tab, recovery, p, video)
    BY <1>1, <2>1, CallTypes
  <2>2. CASE PubSound(pub') /\ UNCHANGED <<recovery, save, callers, video>>
    BY <1>1, <2>2 DEF PageTypes, CallersSound
  <2>3. QED  BY <2>1, <2>2, CheckedFacts, Nothings
<1>4. ServerSound'
  BY <1>2 DEF PageTypes, ServerSound
<1>5. QED  BY <1>1, <1>2, <1>3, <1>4 DEF PageTypes

\* What the author is asked to review.
LEMMA ReviewFacts ==
  ASSUME SaveSizes, PageTypes, Review
  PROVE  /\ pub.pc = "listing" /\ pub.course \in Courses /\ PubSound(pub')
         /\ UNCHANGED <<tab, recovery, save, callers, opening, restoring, video, server, live,
                        work, confirmed, count>>
         /\ \/ pub' = NoPub
            \/ /\ tab.doc # NoDoc /\ tab.doc = tab.saved /\ pub.rev = tab.rev
               /\ pub'.pc = "reviewing" /\ pub'.shown = tab.doc
               /\ pub'.candidate.course = tab.course /\ pub'.candidate.rev = tab.rev
               /\ pub'.candidate.hash = pub.hash /\ pub'.candidate.saved = tab.saved
<1>1. PubSound(pub) /\ pub \in Pub /\ tab \in Tab /\ pub.pc = "listing" /\ pub.course \in Courses
  BY DEF Review, PageTypes, PubSound, TabSound
<1>2. UNCHANGED <<tab, recovery, save, callers, opening, restoring, video, server, live,
                  work, confirmed, count>>
  BY DEF Review
<1>3. CASE tab.doc = NoDoc \/ Dirty(tab) \/ pub.rev # tab.rev
  BY <1>1, <1>2, <1>3, Nothings DEF Review
<1>4. CASE ~(tab.doc = NoDoc \/ Dirty(tab) \/ pub.rev # tab.rev)
  <2>1. PICK x : x = [course |-> tab.course, rev |-> tab.rev, hash |-> pub.hash,
                      saved |-> tab.saved]
    OBVIOUS
  <2>2. tab.course \in Courses /\ tab.doc = tab.saved
    BY <1>1, <1>4 DEF PageTypes, Dirty
  <2>3. /\ x \in Candidate /\ x.course = tab.course /\ x.rev = tab.rev /\ x.hash = pub.hash
        /\ x.saved = tab.saved
    BY <1>1, <2>1 DEF Candidate, Tab, Pub
  <2>4. PICK q : q = [pub EXCEPT !.pc = "reviewing", !.shown = tab.doc, !.candidate = x]
    OBVIOUS
  <2>5. q \in Pub /\ q.pc = "reviewing" /\ q.shown = tab.doc /\ q.candidate = x
    BY <1>1, <2>3, <2>4 DEF Pub, PubPcs, Tab
  <2>6. PubSound(q)
    BY <2>2, <2>3, <2>5 DEF PubSound
  <2>7. pub' = q
    BY <1>4, <2>1, <2>4 DEF Review
  <2>8. QED  BY <1>1, <1>2, <1>4, <2>2, <2>3, <2>5, <2>6, <2>7
<1>5. QED  BY <1>3, <1>4

\* The types hold after Review.
LEMMA ReviewTypes == SaveSizes /\ PageTypes /\ Review => PageTypes'
<1> SUFFICES ASSUME SaveSizes, PageTypes, Review PROVE PageTypes'
  OBVIOUS
<1>1. /\ PubSound(pub') /\ tab.course \in Courses
      /\ UNCHANGED <<tab, recovery, save, callers, opening, restoring, video, server, live,
                     work, confirmed, count>>
  BY ReviewFacts DEF PageTypes
<1>2. CallersSound' /\ ServerSound'
  BY <1>1 DEF PageTypes, CallersSound, ServerSound
<1>3. QED  BY <1>1, <1>2 DEF PageTypes

\* What a confirmation sends.
LEMMA ConfirmFacts ==
  ASSUME SaveSizes, PageTypes, Confirm
  PROVE  /\ pub.pc = "reviewing" /\ PubSound(pub')
         /\ UNCHANGED <<tab, recovery, save, callers, opening, restoring, video, server, live,
                        work, count>>
         /\ \/ pub'.pc = "done" /\ UNCHANGED confirmed
            \/ /\ pub.candidate # NoCandidate /\ pub.candidate.course = tab.course
               /\ pub.candidate.course \in Courses
               /\ pub'.pc = "sending" /\ pub'.sent = pub.candidate
               /\ confirmed' = [confirmed EXCEPT ![pub.candidate.course] = Append(@, pub.shown)]
<1>1. PubSound(pub) /\ pub \in Pub /\ pub.pc = "reviewing"
  BY DEF Confirm, PageTypes, PubSound
<1>2. UNCHANGED <<tab, recovery, save, callers, opening, restoring, video, server, live,
                  work, count>>
  BY DEF Confirm
<1>3. PICK q : q = [NoPub EXCEPT !.pc = "done"]
  OBVIOUS
<1>4. PubSound(q) /\ q.pc = "done"
  BY <1>3, PubAt, Nothings DEF PubPcs
<1>5. PICK r : r = [pub EXCEPT !.pc = "sending", !.sent = pub.candidate]
  OBVIOUS
<1>6. CASE /\ pub.candidate # NoCandidate /\ pub.candidate.course = tab.course /\ pub' = r
           /\ confirmed' = [confirmed EXCEPT ![pub.candidate.course] = Append(@, pub.shown)]
  <2>1. r \in Pub /\ r.pc = "sending" /\ r.sent = pub.candidate /\ r.candidate = pub.candidate
    BY <1>1, <1>5 DEF Pub, PubPcs
  <2>2. pub.candidate.course \in Courses
    BY <1>1, <1>6 DEF PubSound
  <2>3. PubSound(r)
    BY <2>1, <2>2 DEF PubSound
  <2>4. QED  BY <1>1, <1>2, <1>6, <2>1, <2>2, <2>3
<1>7. CASE pub' = q /\ UNCHANGED confirmed
  BY <1>1, <1>2, <1>4, <1>7
<1>8. QED  BY <1>3, <1>5, <1>6, <1>7 DEF Confirm

\* A course's list of documents gets one more.
LEMMA ListAppends ==
  ASSUME NEW S, NEW f \in [Courses -> Seq(S)], NEW c \in Courses, NEW d \in S, NEW g,
         g = [f EXCEPT ![c] = Append(@, d)]
  PROVE  /\ g \in [Courses -> Seq(S)]
         /\ Len(f[c]) \in Nat /\ Len(g[c]) = Len(f[c]) + 1 /\ g[c][Len(g[c])] = d
         /\ DOMAIN f[c] = 1 .. Len(f[c]) /\ DOMAIN g[c] = 1 .. Len(g[c])
         /\ \A i \in DOMAIN f[c] : g[c][i] = f[c][i]
         /\ \A e \in Courses \ {c} : g[e] = f[e]
<1>1. PICK old \in Seq(S) : old = f[c]
  OBVIOUS
<1>2. PICK new : new = Append(old, d)
  OBVIOUS
<1>3. g = [f EXCEPT ![c] = new]
  BY <1>1, <1>2
<1>4. /\ new \in Seq(S) /\ Len(new) = Len(old) + 1 /\ new[Len(old) + 1] = d
      /\ Len(old) \in Nat /\ DOMAIN old = 1 .. Len(old) /\ DOMAIN new = 1 .. Len(new)
      /\ \A i \in 1 .. Len(old) : new[i] = old[i]
  BY <1>2, AppendProperties, LenProperties
<1>5. g[c] = new /\ g \in [Courses -> Seq(S)] /\ \A e \in Courses \ {c} : g[e] = f[e]
  BY <1>3, <1>4
<1>6. QED  BY <1>1, <1>4, <1>5

\* The types hold after Confirm.
LEMMA ConfirmTypes == SaveSizes /\ PageTypes /\ Confirm => PageTypes'
<1> SUFFICES ASSUME SaveSizes, PageTypes, Confirm PROVE PageTypes'
  OBVIOUS
<1>1. /\ PubSound(pub') /\ tab.course \in Courses
      /\ UNCHANGED <<tab, recovery, save, callers, opening, restoring, video, server, live,
                     work, count>>
  BY ConfirmFacts DEF PageTypes
<1>2. confirmed' \in [Courses -> Seq(Doc)]
  <2>1. pub.shown \in Doc
    BY DEF PageTypes, PubSound, Pub
  <2>2. CASE UNCHANGED confirmed
    BY <2>2 DEF PageTypes
  <2>3. CASE /\ pub.candidate.course \in Courses
             /\ confirmed' = [confirmed EXCEPT ![pub.candidate.course] = Append(@, pub.shown)]
    BY <2>1, <2>3, ListAppends DEF PageTypes
  <2>4. QED  BY <2>2, <2>3, ConfirmFacts
<1>3. CallersSound' /\ ServerSound'
  BY <1>1 DEF PageTypes, CallersSound, ServerSound
<1>4. QED  BY <1>1, <1>2, <1>3 DEF PageTypes

\* A publication that goes live, indexed or not, or is refused.
LEMMA PublishCommitFacts ==
  ASSUME SaveSizes, PageTypes, PublishCommit
  PROVE  /\ pub.pc = "sending" /\ pub.sent.course \in Courses /\ PubSound(pub')
         /\ pub'.sent = pub.sent
         /\ UNCHANGED <<tab, recovery, save, callers, opening, restoring, video, work, confirmed,
                        count>>
         /\ \/ pub'.pc = "failed" /\ UNCHANGED <<server, live>>
            \/ /\ pub'.pc = "published" /\ pub.sent.hash \in Docs
               /\ pub'.rev = Len(server'[pub.sent.course])
               /\ Last(server[pub.sent.course]).doc = pub.sent.hash
               /\ live' = [live EXCEPT ![pub.sent.course] = Append(@, pub.sent.hash)]
               /\ \/ server' = server
                  \/ \E d \in Version :
                       /\ d.doc = pub.sent.hash /\ d.by = "here"
                       /\ server' = [server EXCEPT ![pub.sent.course] = Append(@, d)]
<1>1. /\ PubSound(pub) /\ pub \in Pub /\ pub.pc = "sending" /\ pub.sent.course \in Courses
      /\ ServerSound
  BY DEF PublishCommit, PageTypes, PubSound
<1>2. PICK c \in Courses : c = pub.sent.course
  BY <1>1
<1>3. UNCHANGED <<tab, recovery, save, callers, opening, restoring, video, work, confirmed, count>>
  BY DEF PublishCommit
<1>4. CASE pub' = [pub EXCEPT !.pc = "failed"] /\ UNCHANGED <<server, live>>
  <2>1. PICK q : q = [pub EXCEPT !.pc = "failed"]
    OBVIOUS
  <2>2. PubSound(q) /\ q.pc = "failed" /\ q.sent = pub.sent
    BY <1>1, <2>1, PubAt DEF PubPcs
  <2>3. QED  BY <1>1, <1>3, <1>4, <2>1, <2>2
<1>5. CASE /\ Last(server[c]).doc = pub.sent.hash
           /\ live' = [live EXCEPT ![c] = Append(@, pub.sent.hash)]
           /\ \E indexed \in BOOLEAN :
                /\ server' = IF indexed
                             THEN [server EXCEPT ![c] = Append(@, [Last(@) EXCEPT !.by = "here"])]
                             ELSE server
                /\ pub' = [pub EXCEPT !.pc = "published", !.rev = Len(server'[c])]
  <2>1. PICK s \in Version : s = Last(server[c])
    BY <1>1, LastVersion
  <2>2. PICK d : d = [s EXCEPT !.by = "here"]
    OBVIOUS
  <2>3. d \in Version /\ d.doc = pub.sent.hash /\ d.by = "here" /\ d.doc \in Docs
    BY <1>5, <2>1, <2>2 DEF Version
  <2>4. server' = server \/ server' = [server EXCEPT ![c] = Append(@, d)]
    BY <1>5, <2>1, <2>2
  <2>5. Len(server'[c]) \in Nat
    <3>1. ServerSound'
      BY <1>1, <2>3, <2>4, ServerAppends DEF ServerSound
    <3>2. QED  BY <3>1, LenProperties DEF ServerSound
  <2>6. PICK n \in Nat : n = Len(server'[c])
    BY <2>5
  <2>7. PICK q : q = [pub EXCEPT !.pc = "published", !.rev = n]
    OBVIOUS
  <2>8. q \in Pub /\ q.pc = "published" /\ q.rev = n /\ q.sent = pub.sent /\ q.candidate = pub.candidate
    BY <1>1, <2>7 DEF Pub, PubPcs
  <2>9. PubSound(q)
    BY <1>1, <2>8 DEF PubSound
  <2>10. pub' = q
    BY <1>5, <2>6, <2>7
  <2>11. QED  BY <1>1, <1>2, <1>3, <1>5, <2>3, <2>4, <2>6, <2>8, <2>9, <2>10
<1>6. QED  BY <1>2, <1>4, <1>5 DEF PublishCommit

\* The types hold after PublishCommit.
LEMMA PublishCommitTypes == SaveSizes /\ PageTypes /\ PublishCommit => PageTypes'
<1> SUFFICES ASSUME SaveSizes, PageTypes, PublishCommit PROVE PageTypes'
  OBVIOUS
<1>1. /\ PubSound(pub') /\ pub.sent.course \in Courses
      /\ UNCHANGED <<tab, recovery, save, callers, opening, restoring, video, work, confirmed,
                     count>>
      /\ \/ server' = server
         \/ \E d \in Version : server' = [server EXCEPT ![pub.sent.course] = Append(@, d)]
      /\ \/ live' = live
         \/ /\ live' = [live EXCEPT ![pub.sent.course] = Append(@, pub.sent.hash)]
            /\ pub.sent.hash \in Docs
  BY PublishCommitFacts
<1>2. ServerSound'
  BY <1>1, ServerAppends DEF PageTypes, ServerSound
<1>3. live' \in [Courses -> Seq(Docs)]
  <2>1. live \in [Courses -> Seq(Docs)]
    BY DEF PageTypes
  <2>2. CASE live' = live
    BY <2>1, <2>2
  <2>3. CASE /\ live' = [live EXCEPT ![pub.sent.course] = Append(@, pub.sent.hash)]
             /\ pub.sent.hash \in Docs
    <3>1. PICK c \in Courses, d \in Docs : c = pub.sent.course /\ d = pub.sent.hash
      BY <1>1, <2>3
    <3>2. live' = [live EXCEPT ![c] = Append(@, d)]
      BY <2>3, <3>1
    <3>3. QED  BY <2>1, <3>2, ListAppends
  <2>4. QED  BY <1>1, <2>2, <2>3
<1>4. CallersSound' /\ tab.course \in Courses
  BY <1>1 DEF PageTypes, CallersSound, PublishCommit
<1>5. QED  BY <1>1, <1>2, <1>3, <1>4 DEF PageTypes

\* What a failed request of a publication changes.
LEMMA LosePublishFacts ==
  ASSUME SaveSizes, PageTypes, LosePublish
  PROVE  /\ PubSound(pub') /\ pub'.pc \in {"idle", "failed"} /\ pub.pc # "idle"
         /\ UNCHANGED <<tab, recovery, save, callers, opening, restoring, video, server, live,
                        work, confirmed>>
<1>1. PICK q : q = [pub EXCEPT !.pc = "failed"]
  OBVIOUS
<1>2. PubSound(q) /\ q.pc = "failed"
  <2>1. PubSound(pub)
    BY DEF PageTypes
  <2>2. QED  BY <1>1, <2>1, PubAt DEF PubPcs
<1>3. NoPub.pc = "idle"
  BY DEF NoPub
<1>4. QED  BY <1>1, <1>2, <1>3, Nothings DEF LosePublish

\* The types hold after LosePublish.
LEMMA LosePublishTypes == SaveSizes /\ PageTypes /\ LosePublish => PageTypes'
<1> SUFFICES ASSUME SaveSizes, PageTypes, LosePublish PROVE PageTypes'
  OBVIOUS
<1>1. /\ PubSound(pub') /\ tab.course \in Courses
      /\ UNCHANGED <<tab, recovery, save, callers, opening, restoring, video, server, live,
                     work, confirmed>>
  BY LosePublishFacts DEF PageTypes
<1>2. CallersSound' /\ ServerSound' /\ count' \in Counts
  BY <1>1, BumpSound DEF LosePublish, PageTypes, CallersSound, ServerSound
<1>3. QED  BY <1>1, <1>2 DEF PageTypes

\* What a publication that landed changes in the page.
LEMMA PublishLandFacts ==
  ASSUME SaveSizes, PageTypes, PublishLand
  PROVE  /\ PubSound(pub') /\ pub'.pc = "done" /\ tab.course \in Courses
         /\ UNCHANGED <<recovery, save, callers, opening, restoring, video, server, live, work,
                        confirmed, count>>
         /\ TabSound(tab') /\ tab'.course = tab.course /\ tab'.doc = tab.doc
         /\ tab'.undo = tab.undo /\ tab'.redo = tab.redo /\ tab'.seen = tab.seen
         /\ tab'.recovered = tab.recovered
         /\ \/ tab' = tab
            \/ pub.pc = "published" /\ tab'.rev = pub.rev /\ tab'.saved = pub.sent.saved
<1>1. /\ TabSound(tab) /\ tab \in Tab /\ PubSound(pub) /\ pub \in Pub /\ pub.pc # "idle"
      /\ tab.course \in Courses
  BY DEF PublishLand, PageTypes, TabSound, PubSound
<1>2. PICK q : q = [NoPub EXCEPT !.pc = "done"]
  OBVIOUS
<1>3. PubSound(q) /\ q.pc = "done" /\ pub' = q
  BY <1>2, PubAt, Nothings DEF PubPcs, PublishLand
<1>4. UNCHANGED <<recovery, save, callers, opening, restoring, video, server, live, work,
                  confirmed, count>>
  BY DEF PublishLand
<1>5. CASE tab' = tab
  BY <1>1, <1>3, <1>4, <1>5
<1>6. CASE pub.pc = "published" /\ tab' = [tab EXCEPT !.rev = pub.rev, !.saved = pub.sent.saved]
  <2>1. pub.rev \in Nat /\ pub.sent.saved \in Doc
    BY <1>1 DEF Pub, Candidate
  <2>2. PICK n \in Nat, d \in Doc : n = pub.rev /\ d = pub.sent.saved
    BY <2>1
  <2>3. PICK t : t = [tab EXCEPT !.rev = n, !.saved = d]
    OBVIOUS
  <2>4. /\ t \in Tab /\ t.course = tab.course /\ t.doc = tab.doc /\ t.undo = tab.undo
        /\ t.redo = tab.redo /\ t.seen = tab.seen /\ t.recovered = tab.recovered
        /\ t.conflict = tab.conflict /\ t.rev = n /\ t.saved = d
    BY <1>1, <2>3 DEF Tab
  <2>5. TabSound(t)
    BY <1>1, <2>4 DEF TabSound
  <2>6. tab' = t
    BY <1>6, <2>2, <2>3
  <2>7. QED  BY <1>1, <1>3, <1>4, <1>6, <2>2, <2>4, <2>5, <2>6
<1>7. QED  BY <1>5, <1>6 DEF PublishLand

\* The types hold after PublishLand.
LEMMA PublishLandTypes == SaveSizes /\ PageTypes /\ PublishLand => PageTypes'
<1> SUFFICES ASSUME SaveSizes, PageTypes, PublishLand PROVE PageTypes'
  OBVIOUS
<1>1. /\ PubSound(pub') /\ TabSound(tab') /\ tab'.course = tab.course /\ tab.course \in Courses
      /\ UNCHANGED <<recovery, save, callers, opening, restoring, video, server, live, work,
                     confirmed, count>>
  BY PublishLandFacts
<1>2. CallersSound' /\ ServerSound'
  BY <1>1 DEF PageTypes, CallersSound, ServerSound
<1>3. QED  BY <1>1, <1>2 DEF PageTypes

\* The types hold after CloseDialog.
LEMMA CloseDialogTypes == SaveSizes /\ PageTypes /\ CloseDialog => PageTypes'
<1> SUFFICES ASSUME SaveSizes, PageTypes, CloseDialog PROVE PageTypes'
  OBVIOUS
<1>1. CallersSound' /\ ServerSound'
  BY DEF CloseDialog, PageTypes, CallersSound, ServerSound
<1>2. tab.course \in Courses /\ PubSound(pub')
  BY Nothings DEF CloseDialog, PageTypes
<1>3. QED  BY <1>1, <1>2 DEF CloseDialog, PageTypes

\* ------------------------------------------------------------------ video
LEMMA StartVideoTypes == SaveSizes /\ PageTypes /\ StartVideo => PageTypes'
<1> SUFFICES ASSUME SaveSizes, PageTypes, StartVideo PROVE PageTypes'
  OBVIOUS
<1>1. TabSound(tab) /\ PubSound(pub) /\ recovery \in [Courses -> Copy] /\ tab.course \in Courses
  BY DEF PageTypes, TabSound, Tab, AnyCourse, StartVideo
<1>2. PICK v : v = [pc |-> "saving", course |-> tab.course]
  OBVIOUS
<1>3. v \in Video
  BY <1>1, <1>2 DEF Video, AnyCourse
<1>4. Call("video", tab, recovery, pub, v) /\ "video" \in Callers
  BY <1>2 DEF StartVideo, Callers
<1>5. /\ SaveSound(save') /\ CallersSound' /\ PubSound(pub') /\ video' \in Video
      /\ recovery' \in [Courses -> Copy]
  BY <1>1, <1>3, <1>4, CallTypes
<1>6. QED  BY <1>1, <1>5 DEF StartVideo, PageTypes, ServerSound

\* The video's document is committed on a page t and saved, or nothing is.
LEMMA VideoReadyFacts ==
  ASSUME SaveSizes, PageTypes, VideoReady
  PROVE  /\ UNCHANGED <<opening, restoring, server, live, confirmed>>
         /\ \/ /\ video' = NoVideo /\ UNCHANGED <<tab, work, count, recovery, save, callers, pub>>
            \/ \E d, t, p, v :
                 /\ d \in Docs /\ d = NewDoc /\ t = Committed(tab, d) /\ tab' = t /\ tab.doc # NoDoc
                 /\ TabSound(t) /\ t.course = tab.course /\ t.course \in Courses /\ t.doc = d
                 /\ p = [pub EXCEPT !.candidate = NoCandidate] /\ PubSound(p) /\ v \in Video
                 /\ work' = [work EXCEPT ![tab.course] = d]
                 /\ Bump("edits") /\ count.edits < MaxEdits
                 /\ Call("video", t, CopyOf(t, recovery), p, v)
<1>1. TabSound(tab) /\ PubSound(pub) /\ video \in Video
  BY DEF PageTypes
<1>2. UNCHANGED <<opening, restoring, server, live, confirmed>>
  BY DEF VideoReady
<1>3. CASE tab.course = video.course /\ tab.doc # NoDoc /\ count.edits < MaxEdits
  <2>1. PICK d \in Docs : d = NewDoc
    BY <1>3, NewDocSound
  <2>2. PICK t : t = Committed(tab, d)
    OBVIOUS
  <2>3. TabSound(t) /\ t.course = tab.course /\ t.course \in Courses /\ t.doc = d
    BY <1>1, <1>3, <2>2, CommittedSound
  <2>4. PICK p : p = [pub EXCEPT !.candidate = NoCandidate]
    OBVIOUS
  <2>5. PubSound(p)
    BY <1>1, <2>4, ForgetCandidate
  <2>6. PICK v : v = [video EXCEPT !.pc = "committing"]
    OBVIOUS
  <2>7. v \in Video
    BY <1>1, <2>6 DEF Video
  <2>8. /\ tab' = t /\ work' = [work EXCEPT ![tab.course] = d] /\ Bump("edits")
        /\ Call("video", t, CopyOf(t, recovery), p, v)
    BY <1>3, <2>1, <2>2, <2>4, <2>6 DEF VideoReady
  <2>9. QED  BY <1>2, <1>3, <2>1, <2>2, <2>3, <2>4, <2>5, <2>7, <2>8
<1>4. CASE ~(tab.course = video.course /\ tab.doc # NoDoc /\ count.edits < MaxEdits)
  BY <1>2, <1>4 DEF VideoReady
<1>5. QED  BY <1>3, <1>4

\* The types hold after VideoReady.
LEMMA VideoReadyTypes == SaveSizes /\ PageTypes /\ VideoReady => PageTypes'
<1> SUFFICES ASSUME SaveSizes, PageTypes, VideoReady PROVE PageTypes'
  OBVIOUS
<1>1. UNCHANGED <<opening, restoring, server, live, confirmed>> /\ ServerSound'
  BY VideoReadyFacts DEF PageTypes, ServerSound
<1>2. CASE video' = NoVideo /\ UNCHANGED <<tab, work, count, recovery, save, callers, pub>>
  BY <1>1, <1>2, Nothings DEF PageTypes, CallersSound
<1>3. CASE ~(video' = NoVideo /\ UNCHANGED <<tab, work, count, recovery, save, callers, pub>>)
  <2>1. PICK d, t, p, v :
          /\ d \in Docs /\ tab' = t /\ TabSound(t) /\ t.course = tab.course /\ t.course \in Courses
          /\ PubSound(p) /\ v \in Video /\ work' = [work EXCEPT ![tab.course] = d]
          /\ Bump("edits") /\ count.edits < MaxEdits
          /\ Call("video", t, CopyOf(t, recovery), p, v)
    BY <1>3, VideoReadyFacts
  <2>2. CopyOf(t, recovery) \in [Courses -> Copy] /\ "video" \in Callers
    BY <2>1, CopyOfSound DEF PageTypes, Callers
  <2>3. /\ SaveSound(save') /\ CallersSound' /\ PubSound(pub') /\ video' \in Video
        /\ recovery' \in [Courses -> Copy]
    BY <2>1, <2>2, CallTypes
  <2>4. work' \in [Courses -> Doc] /\ count' \in Counts
    BY <2>1, BumpSound, NoDocSound DEF PageTypes
  <2>5. QED  BY <1>1, <2>1, <2>3, <2>4 DEF PageTypes
<1>4. QED  BY <1>2, <1>3

\* ----------------------------------------------------------- around the tab
LEMMA LogoutFacts ==
  ASSUME PageTypes, SaveSizes, Logout
  PROVE  /\ TabSound(tab') /\ tab'.course = tab.course /\ tab'.doc = NoDoc /\ tab'.saved = NoDoc
         /\ tab'.rev = tab.rev /\ tab'.seen = tab.seen /\ tab'.recovered = tab.recovered
         /\ tab'.undo = tab.undo /\ tab'.redo = tab.redo
         /\ UNCHANGED <<recovery, save, callers, opening, restoring, pub, video, server, live,
                        work, confirmed>>
<1>1. PICK t : t = [tab EXCEPT !.doc = NoDoc, !.saved = NoDoc]
  OBVIOUS
<1>2. tab \in Tab /\ TabSound(tab)
  BY DEF PageTypes, TabSound
<1>3. /\ t \in Tab /\ t.course = tab.course /\ t.doc = NoDoc /\ t.saved = NoDoc
      /\ t.rev = tab.rev /\ t.seen = tab.seen /\ t.recovered = tab.recovered
      /\ t.undo = tab.undo /\ t.redo = tab.redo /\ t.conflict = tab.conflict
  BY <1>1, <1>2, NoDocSound DEF Tab
<1>4. TabSound(t)
  BY <1>2, <1>3 DEF TabSound
<1>5. QED  BY <1>1, <1>3, <1>4 DEF Logout

\* The types hold after Logout.
LEMMA LogoutTypes == SaveSizes /\ PageTypes /\ Logout => PageTypes'
<1> SUFFICES ASSUME SaveSizes, PageTypes, Logout PROVE PageTypes'
  OBVIOUS
<1>1. /\ TabSound(tab') /\ tab'.course = tab.course
      /\ UNCHANGED <<recovery, save, callers, opening, restoring, pub, video, server, live,
                     work, confirmed>>
  BY LogoutFacts
<1>2. CallersSound' /\ ServerSound' /\ count' \in Counts
  BY <1>1, BumpSound DEF Logout, PageTypes, CallersSound, ServerSound
<1>3. QED  BY <1>1, <1>2 DEF PageTypes

\* Closing the page keeps the types.
LEMMA ClosePageTypes == SaveSizes /\ PageTypes /\ ClosePage => PageTypes'
<1> SUFFICES ASSUME SaveSizes, PageTypes, ClosePage PROVE PageTypes'
  OBVIOUS
<1>1. /\ TabSound(tab') /\ SaveSound(save') /\ OpeningSound(opening') /\ PubSound(pub')
      /\ RestoringSound(restoring') /\ video' \in Video
  BY Nothings DEF ClosePage
<1>2. CallersSound'
  BY DEF ClosePage, CallersSound, NoSave, SaveSizes
<1>3. ServerSound' /\ count' \in Counts
  BY BumpSound DEF ClosePage, PageTypes, ServerSound
<1>4. save'.pc = "idle" /\ restoring'.pc = "idle" /\ pub'.pc = "idle"
  BY DEF ClosePage, NoSave, NoRestoring, NoPub
<1>5. QED  BY <1>1, <1>2, <1>3, <1>4 DEF ClosePage, PageTypes

\* What another browser changes.
LEMMA SaveElsewhereFacts ==
  ASSUME SaveSizes, PageTypes, NEW c \in Courses, SaveElsewhere(c)
  PROVE  /\ UNCHANGED <<client, live, work, confirmed>> /\ count' \in Counts
         /\ \E d \in Version : /\ d.doc.of = c /\ d.by = "elsewhere"
                               /\ server' = [server EXCEPT ![c] = Append(@, d)]
<1>1. PICK x : x = [of |-> c, n |-> count.edits + count.elsewhere + 1]
  OBVIOUS
<1>2. x \in Docs /\ x.of = c
  <2>1. count.edits + count.elsewhere + 1 \in 0 .. MaxEdits + MaxElsewhere
    BY DEF SaveSizes, PageTypes, Counts, SaveElsewhere
  <2>2. QED  BY <1>1, <2>1 DEF Docs
<1>3. PICK d : d = [doc |-> x, by |-> "elsewhere"]
  OBVIOUS
<1>4. d \in Version /\ d.doc = x /\ d.by = "elsewhere"
  BY <1>2, <1>3 DEF Version
<1>5. UNCHANGED <<client, live, work, confirmed>> /\ server' = [server EXCEPT ![c] = Append(@, d)]
  BY <1>1, <1>3 DEF SaveElsewhere
<1>6. count' \in Counts
  BY BumpSound DEF SaveElsewhere, PageTypes
<1>7. QED  BY <1>2, <1>4, <1>5, <1>6

\* The types hold after SaveElsewhere.
LEMMA SaveElsewhereTypes == SaveSizes /\ PageTypes /\ (\E c \in Courses : SaveElsewhere(c)) => PageTypes'
<1> SUFFICES ASSUME SaveSizes, PageTypes, NEW c \in Courses, SaveElsewhere(c) PROVE PageTypes'
  OBVIOUS
<1>1. PICK d \in Version : server' = [server EXCEPT ![c] = Append(@, d)]
  BY SaveElsewhereFacts
<1>2. UNCHANGED <<client, live, work, confirmed>> /\ count' \in Counts
  BY SaveElsewhereFacts
<1>3. ServerSound'
  BY <1>1, ServerAppends
<1>4. QED  BY <1>2, <1>3 DEF PageTypes, client, CallersSound

\* Every step keeps the types.
LEMMA TypesKept == SaveSizes /\ PageTypes /\ [SaveNext]_saveVars => PageTypes'
<1> SUFFICES ASSUME SaveSizes, PageTypes, [SaveNext]_saveVars PROVE PageTypes'
  OBVIOUS
<1>1. CASE Acts
  BY <1>1, EditTypes, UndoTypes, RedoTypes, SaveClickTypes, KeepTypes, ReloadTypes,
     RestoreClickTypes, BeginPublishTypes, ConfirmTypes, CloseDialogTypes, StartVideoTypes,
     LogoutTypes, OpenTypes DEF Acts
<1>2. CASE Goes
  BY <1>2, SaveCommitTypes, SaveLandTypes, OpenReadTypes, OpenLandTypes, RestoreCommitTypes,
     RestoreLandTypes, ValidateTypes, CheckedTypes, ReviewTypes, PublishCommitTypes,
     PublishLandTypes, VideoReadyTypes DEF Goes
<1>3. CASE Around
  BY <1>3, LoseSaveTypes, OpenFailTypes, RestoreFailTypes, LosePublishTypes, ClosePageTypes,
     SaveElsewhereTypes DEF Around
<1>4. CASE UNCHANGED saveVars
  BY <1>4 DEF saveVars, client, PageTypes, ServerSound, CallersSound
<1>5. QED  BY <1>1, <1>2, <1>3, <1>4 DEF SaveNext

\* The types are those of the specification.
LEMMA TypesGiveTypeOK == SaveSizes /\ PageTypes => SaveTypeOK
<1> SUFFICES ASSUME SaveSizes, PageTypes PROVE SaveTypeOK
  OBVIOUS
<1>1. tab.doc \in Docs \cup {NoDoc} /\ tab.saved \in Docs \cup {NoDoc} /\ tab.course \in Courses \cup {NoCourse}
  BY DEF PageTypes, TabSound, Tab, Doc, AnyCourse
<1>2. \A c \in Courses : recovery[c].doc \in Docs \cup {NoDoc}
  BY DEF PageTypes, Copy, Doc
<1>3. \A c \in Courses : \A r \in DOMAIN server[c] : server[c][r].doc \in Docs
  <2>1. SUFFICES ASSUME NEW c \in Courses, NEW r \in DOMAIN server[c]
                 PROVE server[c][r].doc \in Docs
    OBVIOUS
  <2>2. PICK s \in Seq(Version) : s = server[c]
    BY DEF PageTypes, ServerSound
  <2>3. s[r] \in Version
    BY <2>1, <2>2, ElementOfSeq, LenProperties
  <2>4. QED  BY <2>2, <2>3 DEF Version
<1>4. CallersSound
  BY DEF PageTypes
<1>5. QED  BY <1>1, <1>2, <1>3, <1>4 DEF SaveTypeOK, CallersSound

\* All that the page holds has its type, and callers wait exactly while a
\* save is in flight (SingleFlight, studio-save.mjs).
THEOREM SaveTypes == SaveSizes => (SaveSpec => []SaveTypeOK)
<1> SUFFICES ASSUME SaveSizes PROVE SaveSpec => []SaveTypeOK
  OBVIOUS
<1>1. SaveInit => PageTypes
  BY TypesInit
<1>2. PageTypes /\ [SaveNext]_saveVars => PageTypes'
  BY TypesKept
<1>3. PageTypes => SaveTypeOK
  BY TypesGiveTypeOK
<1>4. QED  BY <1>1, <1>2, <1>3, PTL DEF SaveSpec

\* ------------------------------------------------------------ kinds of steps
\* Revisions stay as they are; new ones come behind the last.
Grows == \A c \in Courses : \A r \in DOMAIN server[c] :
           r \in DOMAIN server'[c] /\ server'[c][r] = server[c][r]

\* Revision r of course c, in the server's revisions s, is document d.
StandsIn(s, c, r, d) == r \in DOMAIN s[c] /\ s[c][r].doc = d
\* The same of the server's revisions now.
Stands(c, r, d) == StandsIn(server, c, r, d)

\* What the page has the server's word for stays as it is.
SameWord(t, u) ==
  /\ u.course = t.course /\ u.rev = t.rev /\ u.saved = t.saved
  /\ u.seen = t.seen /\ u.recovered = t.recovered

\* No step changes a revision.
LEMMA ServerGrows == SaveSizes /\ PageTypes /\ [SaveNext]_saveVars => Grows
<1> SUFFICES ASSUME SaveSizes, PageTypes, [SaveNext]_saveVars PROVE Grows
  OBVIOUS
<1>1. \/ server' = server
      \/ \E c \in Courses, d \in Version : server' = [server EXCEPT ![c] = Append(@, d)]
  <2>1. CASE SaveCommit
    <3>1. save.course \in Courses /\ save.doc \in Docs
      BY <2>1 DEF PageTypes, SaveSound, SaveCommit
    <3>2. PICK d : d = [doc |-> save.doc, by |-> "here"]
      OBVIOUS
    <3>3. d \in Version
      BY <3>1, <3>2 DEF Version
    <3>4. QED  BY <2>1, <3>1, <3>2, <3>3 DEF SaveCommit
  <2>2. CASE RestoreCommit
    BY <2>2, RestoreCommitFacts
  <2>3. CASE PublishCommit
    BY <2>3, PublishCommitFacts
  <2>4. CASE \E c \in Courses : SaveElsewhere(c)
    BY <2>4, SaveElsewhereFacts
  <2>5. CASE Acts
    BY <2>5 DEF Acts, Edit, Undo, Redo, SaveClick, Keep, Reload, RestoreClick, BeginPublish,
       Confirm, CloseDialog, StartVideo, Logout, Open
  <2>6. CASE Goes /\ ~SaveCommit /\ ~RestoreCommit /\ ~PublishCommit
    BY <2>6, SaveLandFacts DEF Goes, OpenRead, OpenLand, RestoreLand, Validate, Checked, Review,
       PublishLand, VideoReady
  <2>7. CASE LoseSave \/ OpenFail \/ RestoreFail \/ LosePublish \/ ClosePage
    BY <2>7 DEF LoseSave, OpenFail, RestoreFail, LosePublish, ClosePage
  <2>8. CASE UNCHANGED saveVars
    BY <2>8 DEF saveVars
  <2>9. QED  BY <2>1, <2>2, <2>3, <2>4, <2>5, <2>6, <2>7, <2>8 DEF SaveNext, Around
<1>2. CASE server' = server
  BY <1>2 DEF Grows
<1>3. CASE \E c \in Courses, d \in Version : server' = [server EXCEPT ![c] = Append(@, d)]
  <2>1. PICK c \in Courses, d \in Version : server' = [server EXCEPT ![c] = Append(@, d)]
    BY <1>3
  <2>2. \A e \in Courses : \A r \in DOMAIN server[e] :
          r \in DOMAIN server'[e] /\ server'[e][r] = server[e][r]
    BY <2>1, ServerAppends
  <2>3. QED  BY <2>2 DEF Grows
<1>4. QED  BY <1>1, <1>2, <1>3

\* A document that stands as a revision goes on standing.
LEMMA StandsStays ==
  ASSUME Grows, NEW c \in Courses, NEW r, NEW d, StandsIn(server, c, r, d)
  PROVE  StandsIn(server', c, r, d)
BY DEF Grows, StandsIn

\* How the save in flight changes.
LEMMA SaveSteps ==
  ASSUME SaveSizes, PageTypes, [SaveNext]_saveVars
  PROVE  \/ save' = save \/ SaveCommit
         \/ save'.pc \in {"idle", "failed"}
         \/ Dirty(tab') /\ save' = Begun(tab') /\ save'.pc = "sent"
<1>1. /\ NoSave.pc = "idle" /\ \A t : Begun(t).pc = "sent"
  BY DEF NoSave, Begun
<1>2. CASE SaveLand
  BY <1>1, <1>2, SaveLandFacts
<1>3. CASE SaveClick \/ BeginPublish \/ StartVideo
  <2>1. "author" \in Callers /\ "publish" \in Callers /\ "video" \in Callers
    BY DEF Callers
  <2>2. CASE SaveClick
    <3>1. Call("author", tab, recovery, pub, video) /\ tab' = tab
      BY <2>2 DEF SaveClick
    <3>2. QED  BY <1>1, <2>1, <3>1, CallFacts
  <2>3. CASE BeginPublish
    <3>1. PICK p : Call("publish", tab, recovery, p, video) /\ tab' = tab
      BY <2>3 DEF BeginPublish
    <3>2. QED  BY <1>1, <2>1, <3>1, CallFacts
  <2>4. CASE StartVideo
    <3>1. PICK v : Call("video", tab, recovery, pub, v) /\ tab' = tab
      BY <2>4 DEF StartVideo
    <3>2. QED  BY <1>1, <2>1, <3>1, CallFacts
  <2>5. QED  BY <1>3, <2>2, <2>3, <2>4
<1>4. CASE Checked
  <2>1. "publish" \in Callers
    BY DEF Callers
  <2>2. \/ \E p : Call("publish", tab, recovery, p, video) /\ tab' = tab
        \/ save' = save
    BY <1>4, CheckedFacts
  <2>3. QED  BY <1>1, <2>1, <2>2, CallFacts
<1>5. CASE VideoReady
  <2>1. "video" \in Callers
    BY DEF Callers
  <2>2. \/ \E t, p, v : Call("video", t, CopyOf(t, recovery), p, v) /\ tab' = t
        \/ save' = save
    BY <1>5, VideoReadyFacts
  <2>3. QED  BY <1>1, <2>1, <2>2, CallFacts
<1>6. CASE LoseSave
  <2>1. save' = [save EXCEPT !.pc = "failed"] /\ save \in Save
    BY <1>6 DEF LoseSave, PageTypes, SaveSound
  <2>2. save'.pc = "failed"
    BY <2>1 DEF Save
  <2>3. QED  BY <2>2
<1>7. CASE ClosePage
  BY <1>1, <1>7 DEF ClosePage
<1>8. CASE Acts /\ ~SaveClick /\ ~BeginPublish /\ ~StartVideo
  BY <1>8 DEF Acts, Edit, Undo, Redo, Keep, Reload, RestoreClick, Confirm, CloseDialog, Logout, Open
<1>9. CASE Goes /\ ~SaveCommit /\ ~SaveLand /\ ~Checked /\ ~VideoReady
  BY <1>9 DEF Goes, OpenRead, OpenLand, RestoreCommit, RestoreLand, Validate, Review,
     PublishCommit, PublishLand
<1>10. CASE OpenFail \/ RestoreFail \/ LosePublish \/ \E c \in Courses : SaveElsewhere(c)
  BY <1>10 DEF OpenFail, RestoreFail, LosePublish, SaveElsewhere, client
<1>11. CASE UNCHANGED saveVars
  BY <1>11 DEF saveVars, client
<1>12. QED  BY <1>2, <1>3, <1>4, <1>5, <1>6, <1>7, <1>8, <1>9, <1>10, <1>11 DEF SaveNext, Around

\* How an opening changes.
LEMMA OpeningSteps ==
  ASSUME SaveSizes, PageTypes, [SaveNext]_saveVars
  PROVE  opening' = opening \/ opening'.pc \in {"idle", "asked"} \/ OpenRead
<1>1. NoOpening.pc = "idle"
  BY DEF NoOpening
<1>2. CASE \E c \in Courses : Open(c)
  <2>1. PICK c \in Courses : Open(c)
    BY <1>2
  <2>2. opening' = [NoOpening EXCEPT !.pc = "asked", !.course = c]
    BY <2>1 DEF Open
  <2>3. opening'.pc = "asked"
    BY <2>2 DEF NoOpening
  <2>4. QED  BY <2>3
<1>3. CASE Reload
  <2>1. opening'.pc = "asked"
    BY <1>3 DEF Reload, NoOpening
  <2>2. QED  BY <2>1
<1>4. CASE OpenLand \/ OpenFail \/ ClosePage
  BY <1>1, <1>4 DEF OpenLand, OpenFail, ClosePage
<1>5. CASE Acts /\ ~Reload /\ ~(\E c \in Courses : Open(c))
  BY <1>5 DEF Acts, Edit, Undo, Redo, SaveClick, Keep, RestoreClick, BeginPublish,
     Confirm, CloseDialog, StartVideo, Logout
<1>6. CASE Goes /\ ~OpenRead /\ ~OpenLand
  BY <1>6, SaveLandFacts DEF Goes, SaveCommit, RestoreCommit, RestoreLand, Validate, Checked,
     Review, PublishCommit, PublishLand, VideoReady
<1>7. CASE Around /\ ~OpenFail /\ ~ClosePage
  BY <1>7 DEF Around, LoseSave, RestoreFail, LosePublish, SaveElsewhere, client
<1>8. CASE UNCHANGED saveVars
  BY <1>8 DEF saveVars, client
<1>9. QED  BY <1>2, <1>3, <1>4, <1>5, <1>6, <1>7, <1>8 DEF SaveNext

\* How a restore changes; it begins only while some may.
LEMMA RestoringSteps ==
  ASSUME SaveSizes, PageTypes, [SaveNext]_saveVars
  PROVE  \/ restoring' = restoring \/ RestoreCommit \/ restoring'.pc = "idle"
         \/ /\ restoring'.pc = "asked" /\ count.restores < MaxRestores
            /\ tab.course \in Courses /\ live[tab.course] # <<>>
<1>1. NoRestoring.pc = "idle"
  BY DEF NoRestoring
<1>2. CASE RestoreClick
  <2>1. PICK d : restoring' = [pc |-> "asked", course |-> tab.course, rev |-> tab.rev, doc |-> d]
    BY <1>2 DEF RestoreClick
  <2>2. restoring'.pc = "asked" /\ count.restores < MaxRestores
    BY <1>2, <2>1 DEF RestoreClick
  <2>3. tab.doc # NoDoc /\ \E i : i \in DOMAIN live[tab.course]
    BY <1>2 DEF RestoreClick
  <2>4. tab.course \in Courses
    BY <2>3 DEF PageTypes, TabSound, Tab, AnyCourse
  <2>5. DOMAIN <<>> = {}
    OBVIOUS
  <2>6. QED  BY <2>2, <2>3, <2>4, <2>5
<1>3. CASE RestoreLand \/ RestoreFail \/ ClosePage
  BY <1>1, <1>3 DEF RestoreLand, RestoreFail, ClosePage
<1>4. CASE Acts /\ ~RestoreClick
  BY <1>4 DEF Acts, Edit, Undo, Redo, SaveClick, Keep, Reload, BeginPublish, Confirm,
     CloseDialog, StartVideo, Logout, Open
<1>5. CASE Goes /\ ~RestoreCommit /\ ~RestoreLand
  BY <1>5, SaveLandFacts DEF Goes, SaveCommit, OpenRead, OpenLand, Validate, Checked,
     Review, PublishCommit, PublishLand, VideoReady
<1>6. CASE Around /\ ~RestoreFail /\ ~ClosePage
  BY <1>6 DEF Around, LoseSave, OpenFail, LosePublish, SaveElsewhere, client
<1>7. CASE UNCHANGED saveVars
  BY <1>7 DEF saveVars, client
<1>8. QED  BY <1>2, <1>3, <1>4, <1>5, <1>6, <1>7 DEF SaveNext

\* How the page's word of the server changes.
LEMMA TabSteps ==
  ASSUME SaveSizes, PageTypes, [SaveNext]_saveVars
  PROVE  \/ SameWord(tab, tab')
         \/ /\ SaveLand /\ save.pc = "saved" /\ tab.course = save.course
            /\ tab'.course = tab.course /\ tab'.rev = save.rev + 1 /\ tab'.saved = save.doc
         \/ OpenLand \/ RestoreLand
         \/ PublishLand /\ pub.pc = "published"
         \/ Logout \/ tab' = NoTab
<1>1. TabSound(tab) /\ tab \in Tab
  BY DEF PageTypes, TabSound
<1>2. CASE SaveLand
  <2>1. PICK o : o = Outcome
    OBVIOUS
  <2>2. tab' = o.tab /\ save.pc \in {"saved", "conflict", "failed"}
    BY <1>2, <2>1, SaveLandFacts
  <2>3. CASE tab' = tab
    BY <2>3 DEF SameWord
  <2>4. CASE tab' = [tab EXCEPT !.conflict = TRUE]
    BY <1>1, <2>4 DEF SameWord, Tab
  <2>5. CASE save.pc = "saved" /\ tab.course = save.course /\ tab' = Acknowledged(tab)
    <3>1. SaveSound(save)
      BY DEF PageTypes
    <3>2. tab'.course = tab.course /\ tab'.rev = save.rev + 1 /\ tab'.saved = save.doc
      BY <1>1, <2>5, <3>1, AckSound
    <3>3. QED  BY <1>2, <2>5, <3>2
  <2>6. QED  BY <2>1, <2>2, <2>3, <2>4, <2>5, OutcomeCases
<1>3. CASE Edit
  <2>1. PICK d \in Docs : d = NewDoc
    BY <1>3, NewDocSound DEF Edit
  <2>2. tab' = Committed(tab, d) /\ tab.doc # NoDoc
    BY <1>3, <2>1 DEF Edit
  <2>3. QED  BY <1>1, <2>2, CommittedSound DEF SameWord
<1>4. CASE Undo
  <2>1. PICK t : /\ t = [tab EXCEPT !.doc = Last(tab.undo), !.undo = Front(@),
                                   !.redo = Append(@, tab.doc)]
                 /\ tab' = t /\ tab.undo # <<>>
    BY <1>4 DEF Undo
  <2>2. QED  BY <1>1, <2>1, UndoneSound DEF SameWord
<1>5. CASE Redo
  <2>1. PICK t : /\ tab' = t /\ tab.redo # <<>>
                 /\ \/ t = [tab EXCEPT !.redo = Front(@)]
                    \/ t = [tab EXCEPT !.doc = Last(tab.redo), !.redo = Front(@),
                                       !.undo = Append(@, tab.doc)]
    BY <1>5 DEF Redo
  <2>2. QED  BY <1>1, <2>1, RedoneSound DEF SameWord
<1>6. CASE Keep \/ Reload
  <2>1. tab' = [tab EXCEPT !.conflict = FALSE]
    BY <1>6 DEF Keep, Reload
  <2>2. QED  BY <1>1, <2>1 DEF SameWord, Tab
<1>7. CASE VideoReady
  <2>1. tab' = tab \/ \E d \in Docs : tab' = Committed(tab, d) /\ tab.doc # NoDoc
    BY <1>7, VideoReadyFacts
  <2>2. CASE tab' = tab
    BY <2>2 DEF SameWord
  <2>3. CASE \E d \in Docs : tab' = Committed(tab, d) /\ tab.doc # NoDoc
    BY <1>1, <2>3, CommittedSound DEF SameWord
  <2>4. QED  BY <2>1, <2>2, <2>3
<1>8. CASE PublishLand
  <2>1. tab' = tab \/ pub.pc = "published"
    BY <1>8 DEF PublishLand
  <2>2. QED  BY <1>8, <2>1 DEF SameWord
<1>9. CASE ClosePage
  BY <1>9 DEF ClosePage
<1>10. CASE tab' = tab
  BY <1>10 DEF SameWord
<1>11. CASE Acts /\ ~Edit /\ ~Undo /\ ~Redo /\ ~Keep /\ ~Reload /\ ~Logout
  <2>1. tab' = tab
    BY <1>11 DEF Acts, SaveClick, RestoreClick, BeginPublish, Confirm, CloseDialog,
       StartVideo, Open
  <2>2. QED  BY <1>10, <2>1
<1>12. CASE /\ Goes /\ ~SaveLand /\ ~OpenLand /\ ~RestoreLand /\ ~PublishLand /\ ~VideoReady
  <2>1. tab' = tab
    BY <1>12 DEF Goes, SaveCommit, OpenRead, RestoreCommit, Validate, Checked, Review, PublishCommit
  <2>2. QED  BY <1>10, <2>1
<1>13. CASE Around /\ ~ClosePage
  <2>1. tab' = tab
    BY <1>13 DEF Around, LoseSave, OpenFail, RestoreFail, LosePublish, SaveElsewhere, client
  <2>2. QED  BY <1>10, <2>1
<1>14. CASE UNCHANGED saveVars
  BY <1>10, <1>14 DEF saveVars, client
<1>15. QED
  BY <1>2, <1>3, <1>4, <1>5, <1>6, <1>7, <1>8, <1>9, <1>11, <1>12, <1>13, <1>14
  DEF SaveNext, Acts, Goes, Around

\* A publication as it was, but for a candidate that was dropped.
PubKept(p, q) ==
  /\ q.pc = p.pc /\ q.course = p.course /\ q.rev = p.rev /\ q.hash = p.hash
  /\ q.sent = p.sent /\ q.shown = p.shown /\ q.candidate \in {p.candidate, NoCandidate}

\* The stages of a publication at which nothing is known of the server.
Unknowing == {"idle", "saving", "checking", "failed", "done"}

\* A publication goes on or ends when the save it waited for has landed.
LEMMA PubAfterCases ==
  ASSUME NEW p \in Pub, NEW k, NEW ok, NEW t
  PROVE  PubAfter(p, k, ok, t) = p \/ PubAfter(p, k, ok, t).pc \in {"checking", "idle"}
<1>1. [p EXCEPT !.pc = "checking", !.course = t.course, !.rev = t.rev].pc = "checking"
  BY DEF Pub
<1>2. NoPub.pc = "idle"
  BY DEF NoPub
<1>3. QED  BY <1>1, <1>2 DEF PubAfter

\* How a publication changes.
LEMMA PubSteps ==
  ASSUME SaveSizes, PageTypes, [SaveNext]_saveVars
  PROVE  \/ PubKept(pub, pub')
         \/ pub'.pc \in Unknowing
         \/ Validate \/ Review \/ PublishCommit
         \/ Checked /\ pub'.pc = "listing" /\ pub'.course = pub.course /\ pub'.rev = pub.rev /\ pub'.hash = pub.hash
         \/ Confirm /\ pub'.pc = "sending"
<1>1. /\ PubSound(pub) /\ pub \in Pub /\ "idle" \in Unknowing /\ "saving" \in Unknowing
      /\ "checking" \in Unknowing /\ "failed" \in Unknowing /\ "done" \in Unknowing
      /\ NoPub.pc = "idle"
  BY DEF PageTypes, PubSound, Unknowing, NoPub
<1>2. CASE pub' = pub
  BY <1>2 DEF PubKept
<1>3. CASE pub' = [pub EXCEPT !.candidate = NoCandidate]
  BY <1>1, <1>3, ForgetCandidate DEF PubKept
<1>4. CASE Edit \/ OpenLand \/ RestoreLand
  <2>1. pub' = [pub EXCEPT !.candidate = NoCandidate]
    BY <1>4 DEF Edit, OpenLand, RestoreLand
  <2>2. QED  BY <1>3, <2>1
<1>5. CASE SaveLand
  <2>1. PICK t, good : pub' = pub \/ pub' = PubAfter(pub, "publish", good, t)
    BY <1>5, SaveLandFacts
  <2>2. QED  BY <1>1, <1>2, <2>1, PubAfterCases
<1>6. CASE SaveClick \/ StartVideo
  <2>1. PICK k, v : k \in Callers /\ Call(k, tab, recovery, pub, v)
    BY <1>6 DEF SaveClick, StartVideo, Callers
  <2>2. pub' = pub \/ pub' = PubAfter(pub, k, TRUE, tab)
    BY <2>1, CallFacts
  <2>3. QED  BY <1>1, <1>2, <2>2, PubAfterCases
<1>7. CASE BeginPublish
  <2>1. PICK p : /\ p = [NoPub EXCEPT !.pc = "saving", !.round = 1]
                 /\ Call("publish", tab, recovery, p, video)
    BY <1>7 DEF BeginPublish
  <2>2. PubSound(p) /\ p \in Pub /\ p.pc = "saving"
    <3>1. PICK n \in Nat : n = 1
      OBVIOUS
    <3>2. p = [NoPub EXCEPT !.pc = "saving", !.round = n] /\ PubSound(NoPub)
      BY <2>1, <3>1, Nothings
    <3>3. PubSound(p) /\ p.pc = "saving"
      BY <3>2, PubSaving
    <3>4. QED  BY <3>3 DEF PubSound
  <2>3. pub' = p \/ pub' = PubAfter(p, "publish", TRUE, tab)
    BY <2>1, CallFacts DEF Callers
  <2>4. QED  BY <1>1, <2>2, <2>3, PubAfterCases
<1>8. CASE Checked
  <2>1. CASE \E p : PubSound(p) /\ p.pc = "saving" /\ Call("publish", tab, recovery, p, video)
    <3>1. PICK p : PubSound(p) /\ p.pc = "saving" /\ Call("publish", tab, recovery, p, video)
      BY <2>1
    <3>2. pub' = p \/ pub' = PubAfter(p, "publish", TRUE, tab)
      BY <3>1, CallFacts DEF Callers
    <3>3. p \in Pub
      BY <3>1 DEF PubSound
    <3>4. QED  BY <1>1, <3>1, <3>2, <3>3, PubAfterCases
  <2>2. CASE pub' = NoPub
    BY <1>1, <2>2
  <2>3. CASE /\ pub'.pc = "listing" /\ pub'.course = pub.course
             /\ pub'.rev = pub.rev /\ pub'.hash = pub.hash
    BY <1>8, <2>3
  <2>4. QED  BY <1>8, <2>1, <2>2, <2>3, CheckedFacts
<1>9. CASE Confirm
  BY <1>1, <1>9, ConfirmFacts
<1>10. CASE LosePublish
  BY <1>1, <1>10, LosePublishFacts
<1>11. CASE PublishLand
  BY <1>1, <1>11, PublishLandFacts
<1>12. CASE CloseDialog \/ ClosePage
  BY <1>1, <1>12 DEF CloseDialog, ClosePage
<1>13. CASE VideoReady
  <2>1. CASE pub' = pub
    BY <1>2, <2>1
  <2>2. CASE \E t, p, v : /\ p = [pub EXCEPT !.candidate = NoCandidate]
                          /\ Call("video", t, CopyOf(t, recovery), p, v)
    <3>1. PICK t, p, v : /\ p = [pub EXCEPT !.candidate = NoCandidate]
                         /\ Call("video", t, CopyOf(t, recovery), p, v)
      BY <2>2
    <3>2. pub' = p \/ pub' = PubAfter(p, "video", TRUE, t)
      BY <3>1, CallFacts DEF Callers
    <3>3. pub' = p
      BY <3>2 DEF PubAfter
    <3>4. QED  BY <1>3, <3>1, <3>3
  <2>3. QED  BY <1>13, <2>1, <2>2, VideoReadyFacts
<1>14. CASE /\ Acts /\ ~Edit /\ ~SaveClick /\ ~StartVideo /\ ~BeginPublish /\ ~Confirm
            /\ ~CloseDialog
  <2>1. pub' = pub
    BY <1>14 DEF Acts, Undo, Redo, Keep, Reload, RestoreClick, Logout, Open
  <2>2. QED  BY <1>2, <2>1
<1>15. CASE SaveCommit \/ OpenRead \/ RestoreCommit
  <2>1. pub' = pub
    BY <1>15 DEF SaveCommit, OpenRead, RestoreCommit
  <2>2. QED  BY <1>2, <2>1
<1>16. CASE Around /\ ~LosePublish /\ ~ClosePage
  <2>1. pub' = pub
    BY <1>16 DEF Around, LoseSave, OpenFail, RestoreFail, SaveElsewhere, client
  <2>2. QED  BY <1>2, <2>1
<1>17. CASE UNCHANGED saveVars
  BY <1>2, <1>17 DEF saveVars, client
<1>18. QED
  BY <1>4, <1>5, <1>6, <1>7, <1>8, <1>9, <1>10, <1>11, <1>12, <1>13, <1>14, <1>15, <1>16, <1>17
  DEF SaveNext, Acts, Goes, Around

\* ------------------------------------------------------ what is called saved
\* What was answered is what the server has; what is not begun does not go on.
AnswersStand ==
  /\ save.pc = "saved" =>
       /\ Stands(save.course, save.rev + 1, save.doc)
       /\ server[save.course][save.rev + 1].by = "here"
  /\ opening.pc = "read" => Stands(opening.course, opening.rev, opening.doc)
  /\ restoring.pc = "read" => Stands(restoring.course, restoring.rev, restoring.doc)
\* No version is restored: none may be, or none is ever published.
NoRestore == MaxRestores = 0 \/ MaxReviews = 0

\* Nothing that the bounds leave out begins.
Begins ==
  /\ NoRestore => restoring.pc = "idle"
  /\ MaxReviews = 0 => /\ pub.pc = "idle" /\ callers["publish"] = 0
                       /\ \A c \in Courses : live[c] = <<>>

\* What every proof below uses.
Base == PageTypes /\ AnswersStand /\ Begins

\* Every step keeps that answers stand.
LEMMA AnswersKept ==
  SaveSizes /\ PageTypes /\ AnswersStand /\ [SaveNext]_saveVars => AnswersStand'
<1> SUFFICES ASSUME SaveSizes, PageTypes, AnswersStand, [SaveNext]_saveVars PROVE AnswersStand'
  OBVIOUS
<1>1. Grows
  BY ServerGrows
<1>2. ASSUME save'.pc = "saved"
      PROVE  /\ StandsIn(server', save'.course, save'.rev + 1, save'.doc)
             /\ server'[save'.course][save'.rev + 1].by = "here"
  <2>1. CASE save' = save
    <3>1. /\ save.course \in Courses /\ StandsIn(server, save.course, save.rev + 1, save.doc)
          /\ server[save.course][save.rev + 1].by = "here"
      BY <1>2, <2>1 DEF AnswersStand, PageTypes, SaveSound, Stands
    <3>2. QED  BY <1>1, <2>1, <3>1 DEF Grows, StandsIn
  <2>2. CASE SaveCommit
    <3>1. save \in Save /\ save.course \in Courses /\ save.doc \in Docs /\ save.pc = "sent"
      BY <2>2 DEF PageTypes, SaveSound, SaveCommit
    <3>2. PICK d : d = [doc |-> save.doc, by |-> "here"]
      OBVIOUS
    <3>3. d \in Version /\ d.doc = save.doc /\ d.by = "here"
      BY <3>1, <3>2 DEF Version
    <3>4. PICK x, y : x = [save EXCEPT !.pc = "saved"] /\ y = [save EXCEPT !.pc = "conflict"]
      OBVIOUS
    <3>5. /\ x.course = save.course /\ x.rev = save.rev /\ x.doc = save.doc /\ y.pc = "conflict"
      BY <3>1, <3>4 DEF Save
    <3>6. /\ save' = x /\ Len(server[save.course]) = save.rev
          /\ server' = [server EXCEPT ![save.course] = Append(@, d)]
      <4>1. CASE Len(server[save.course]) = save.rev
        BY <2>2, <3>2, <3>4, <4>1 DEF SaveCommit
      <4>2. CASE Len(server[save.course]) # save.rev
        <5>1. save' = y
          BY <2>2, <3>4, <4>2 DEF SaveCommit
        <5>2. QED  BY <1>2, <3>5, <5>1
      <4>3. QED  BY <4>1, <4>2
    <3>7. /\ ServerSound' /\ Len(server'[save.course]) = save.rev + 1
          /\ server'[save.course][save.rev + 1] = d
      BY <3>1, <3>3, <3>6, ServerAppends
    <3>8. save.rev + 1 \in DOMAIN server'[save.course]
      <4>1. PICK s \in Seq(Version) : s = server'[save.course] /\ Len(s) = save.rev + 1
        BY <3>1, <3>7 DEF ServerSound
      <4>2. DOMAIN s = 1 .. Len(s) /\ save.rev \in Nat
        BY <3>1, <4>1, LenProperties DEF Save
      <4>3. QED  BY <4>1, <4>2
    <3>9. QED  BY <3>3, <3>5, <3>6, <3>7, <3>8 DEF StandsIn
  <2>3. QED  BY <1>2, <2>1, <2>2, SaveSteps
<1>3. ASSUME opening'.pc = "read"
      PROVE  StandsIn(server', opening'.course, opening'.rev, opening'.doc)
  <2>1. CASE opening' = opening
    <3>1. opening.course \in Courses /\ StandsIn(server, opening.course, opening.rev, opening.doc)
      BY <1>3, <2>1 DEF AnswersStand, PageTypes, OpeningSound, Stands
    <3>2. QED  BY <1>1, <2>1, <3>1 DEF Grows, StandsIn
  <2>2. CASE OpenRead
    <3>1. /\ opening.course \in Courses /\ opening'.course = opening.course
          /\ opening'.rev = Len(server[opening.course])
          /\ opening'.doc = Last(server[opening.course]).doc
      BY <2>2, OpenReadFacts
    <3>2. StandsIn(server, opening.course, opening'.rev, opening'.doc)
      BY <3>1, LastVersion DEF StandsIn, PageTypes
    <3>3. QED  BY <1>1, <3>1, <3>2 DEF Grows, StandsIn
  <2>3. QED  BY <1>3, <2>1, <2>2, OpeningSteps
<1>4. ASSUME restoring'.pc = "read"
      PROVE  StandsIn(server', restoring'.course, restoring'.rev, restoring'.doc)
  <2>1. CASE restoring' = restoring
    <3>1. /\ restoring.course \in Courses
          /\ StandsIn(server, restoring.course, restoring.rev, restoring.doc)
      BY <1>4, <2>1 DEF AnswersStand, PageTypes, RestoringSound, Stands
    <3>2. QED  BY <1>1, <2>1, <3>1 DEF Grows, StandsIn
  <2>2. CASE RestoreCommit
    <3>1. /\ restoring.course \in Courses /\ restoring.rev \in Nat
          /\ \E d \in Version :
               /\ d.doc = restoring.doc /\ Len(server[restoring.course]) = restoring.rev
               /\ server' = [server EXCEPT ![restoring.course] = Append(@, d)]
               /\ restoring'.rev = restoring.rev + 1
               /\ restoring'.course = restoring.course /\ restoring'.doc = restoring.doc
      BY <1>4, <2>2, RestoreCommitFacts DEF NoRestoring
    <3>2. PICK d \in Version :
            /\ d.doc = restoring.doc /\ Len(server[restoring.course]) = restoring.rev
            /\ server' = [server EXCEPT ![restoring.course] = Append(@, d)]
            /\ restoring'.rev = restoring.rev + 1
            /\ restoring'.course = restoring.course /\ restoring'.doc = restoring.doc
      BY <3>1
    <3>3. /\ ServerSound' /\ Len(server'[restoring.course]) = restoring.rev + 1
          /\ server'[restoring.course][restoring.rev + 1] = d
      <4>1. PICK c \in Courses : c = restoring.course
        BY <3>1
      <4>2. /\ server' = [server EXCEPT ![c] = Append(@, d)] /\ Len(server[c]) = restoring.rev
        BY <3>2, <4>1
      <4>3. ServerSound' /\ Len(server'[c]) = Len(server[c]) + 1 /\ server'[c][Len(server[c]) + 1] = d
        BY <4>2, ServerAppends
      <4>4. QED  BY <4>1, <4>2, <4>3
    <3>4. restoring.rev + 1 \in DOMAIN server'[restoring.course]
      <4>1. PICK s \in Seq(Version) : s = server'[restoring.course] /\ Len(s) = restoring.rev + 1
        BY <3>1, <3>3 DEF ServerSound
      <4>2. DOMAIN s = 1 .. Len(s)
        BY <4>1, LenProperties
      <4>3. QED  BY <3>1, <4>1, <4>2
    <3>5. QED  BY <3>2, <3>3, <3>4 DEF StandsIn
  <2>3. QED  BY <1>4, <2>1, <2>2, RestoringSteps
<1>5. QED  BY <1>2, <1>3, <1>4 DEF AnswersStand, Stands

\* The counters are natural numbers.
LEMMA CountsGrow ==
  ASSUME SaveSizes, PageTypes
  PROVE  count.restores \in Nat /\ count.reviews \in Nat
BY DEF PageTypes, Counts

\* Only a confirmation and the publishing server touch what is live.
LEMMA LiveSteps ==
  ASSUME SaveSizes, PageTypes, [SaveNext]_saveVars
  PROVE  (live' = live /\ confirmed' = confirmed) \/ Confirm \/ PublishCommit
<1>1. CASE Acts /\ ~Confirm
  BY <1>1 DEF Acts, Edit, Undo, Redo, SaveClick, Keep, Reload, RestoreClick, BeginPublish,
     CloseDialog, StartVideo, Logout, Open
<1>2. CASE Goes /\ ~PublishCommit
  BY <1>2, SaveLandFacts DEF Goes, SaveCommit, OpenRead, OpenLand, RestoreCommit, RestoreLand,
     Validate, Checked, Review, PublishLand, VideoReady
<1>3. CASE Around
  BY <1>3 DEF Around, LoseSave, OpenFail, RestoreFail, LosePublish, ClosePage, SaveElsewhere, client
<1>4. CASE UNCHANGED saveVars
  BY <1>4 DEF saveVars
<1>5. QED  BY <1>1, <1>2, <1>3, <1>4 DEF SaveNext

\* Every step keeps that nothing left out begins.
LEMMA BeginsKept == SaveSizes /\ PageTypes /\ Begins /\ [SaveNext]_saveVars => Begins'
<1> SUFFICES ASSUME SaveSizes, PageTypes, Begins, [SaveNext]_saveVars PROVE Begins'
  OBVIOUS
<1>1. ASSUME NoRestore PROVE restoring'.pc = "idle"
  <2>1. restoring.pc = "idle"
    BY <1>1 DEF Begins
  <2>2. ~RestoreCommit
    BY <2>1 DEF RestoreCommit
  <2>3. ~(count.restores < MaxRestores) \/ \A c \in Courses : live[c] = <<>>
    BY <1>1, CountsGrow DEF NoRestore, Begins
  <2>4. QED  BY <2>1, <2>2, <2>3, RestoringSteps
<1>2. ASSUME MaxReviews = 0 PROVE pub'.pc = "idle" /\ callers'["publish"] = 0
  <2>1. pub.pc = "idle" /\ callers["publish"] = 0 /\ "publish" \in Callers
    BY <1>2 DEF Begins, Callers
  <2>2. /\ ~BeginPublish /\ ~Validate /\ ~Checked /\ ~Review /\ ~Confirm /\ ~PublishCommit
        /\ ~LosePublish /\ ~PublishLand /\ ~CloseDialog
    BY <1>2, <2>1, CountsGrow DEF BeginPublish, Validate, Checked, Review, Confirm,
       PublishCommit, LosePublish, PublishLand, CloseDialog
  <2>3. PubSound(pub) /\ callers \in [Callers -> 0 .. MaxAttempts]
    BY DEF PageTypes, CallersSound
  <2>4. CASE SaveLand
    <3>1. PICK o : o = Outcome
      OBVIOUS
    <3>2. callers' = CallersAfter(o)
      BY <2>4, <3>1 DEF SaveLand
    <3>3. "publish" \notin Again(o)
      BY <2>1 DEF Again
    <3>4. callers'["publish"] = 0
      BY <2>1, <3>2, <3>3 DEF CallersAfter
    <3>5. pub' = pub
      BY <2>1, <2>4, <3>1 DEF SaveLand
    <3>6. QED  BY <2>1, <3>4, <3>5
  <2>5. CASE SaveClick \/ StartVideo
    <3>1. PICK k, v : k \in {"author", "video"} /\ Call(k, tab, recovery, pub, v)
      BY <2>5 DEF SaveClick, StartVideo
    <3>2. k \in Callers /\ k # "publish"
      BY <3>1 DEF Callers
    <3>3. /\ pub' = pub \/ pub' = PubAfter(pub, k, TRUE, tab)
          /\ callers'["publish"] = callers["publish"]
      BY <2>1, <3>1, <3>2, CallFacts
    <3>4. pub' = pub
      BY <3>2, <3>3 DEF PubAfter
    <3>5. QED  BY <2>1, <3>3, <3>4
  <2>6. CASE VideoReady
    <3>1. CASE UNCHANGED <<callers, pub>>
      BY <2>1, <3>1
    <3>2. CASE \E t, p, v : /\ p = [pub EXCEPT !.candidate = NoCandidate]
                            /\ Call("video", t, CopyOf(t, recovery), p, v)
      <4>1. PICK t, p, v : /\ p = [pub EXCEPT !.candidate = NoCandidate]
                           /\ Call("video", t, CopyOf(t, recovery), p, v)
        BY <3>2
      <4>2. "video" \in Callers /\ "publish" \in Callers \ {"video"}
        BY DEF Callers
      <4>3. /\ pub' = p \/ pub' = PubAfter(p, "video", TRUE, t)
            /\ callers'["publish"] = callers["publish"]
        BY <4>1, <4>2, CallFacts
      <4>4. pub' = p
        BY <4>3 DEF PubAfter
      <4>5. p.pc = "idle"
        BY <2>1, <2>3, <4>1, ForgetCandidate
      <4>6. QED  BY <2>1, <4>3, <4>4, <4>5
    <3>3. QED  BY <2>6, <3>1, <3>2, VideoReadyFacts
  <2>7. CASE Edit \/ OpenLand \/ RestoreLand
    <3>1. pub' = [pub EXCEPT !.candidate = NoCandidate] /\ callers' = callers
      BY <2>7 DEF Edit, OpenLand, RestoreLand
    <3>2. QED  BY <2>1, <2>3, <3>1, ForgetCandidate
  <2>8. CASE ClosePage
    BY <2>1, <2>8 DEF ClosePage, NoPub
  <2>9. CASE pub' = pub /\ callers' = callers
    BY <2>1, <2>9
  <2>10. CASE Undo \/ Redo \/ Keep \/ Reload \/ RestoreClick \/ Logout \/ \E c \in Courses : Open(c)
    BY <2>9, <2>10 DEF Undo, Redo, Keep, Reload, RestoreClick, Logout, Open
  <2>11. CASE SaveCommit \/ OpenRead \/ RestoreCommit \/ LoseSave \/ OpenFail \/ RestoreFail
    BY <2>9, <2>11 DEF SaveCommit, OpenRead, RestoreCommit, LoseSave, OpenFail, RestoreFail
  <2>12. CASE (\E c \in Courses : SaveElsewhere(c)) \/ UNCHANGED saveVars
    BY <2>9, <2>12 DEF SaveElsewhere, saveVars, client
  <2>13. QED
    BY <2>2, <2>4, <2>5, <2>6, <2>7, <2>8, <2>10, <2>11, <2>12 DEF SaveNext, Acts, Goes, Around
<1>3. ASSUME MaxReviews = 0, NEW c \in Courses PROVE live'[c] = <<>>
  <2>1. pub.pc = "idle" /\ live[c] = <<>>
    BY <1>3 DEF Begins
  <2>2. ~Confirm /\ ~PublishCommit
    BY <2>1 DEF Confirm, PublishCommit
  <2>3. QED  BY <2>1, <2>2, LiveSteps
<1>4. QED  BY <1>1, <1>2, <1>3 DEF Begins

\* Base holds at the start.
LEMMA BaseInit == SaveSizes /\ SaveInit => Base
<1> SUFFICES ASSUME SaveSizes, SaveInit PROVE Base
  OBVIOUS
<1>1. AnswersStand /\ Begins
  BY DEF SaveInit, AnswersStand, Begins, NoSave, NoOpening, NoRestoring, NoPub, Callers
<1>2. QED  BY <1>1, TypesInit DEF Base

\* Every step keeps Base.
LEMMA BaseHolds == SaveSizes /\ Base /\ [SaveNext]_saveVars => Base'
BY TypesKept, AnswersKept, BeginsKept DEF Base

\* There is one course.
OneCourse == \A c, d \in Courses : c = d

\* What restoreVersion and submitReviewedPublication bring is put into
\* whatever course is open when it comes (studio.js:1564), so with two
\* courses, and one of those on its way, the page may call saved what the
\* open course never had.  The theorems below are for one course, or for
\* pages on which nothing is published, and so nothing restored.
Unmixed == OneCourse \/ MaxReviews = 0

\* What the page calls saved, what the server validated, what is under review
\* and what is published is what the server has.  A review is of the document
\* whose hash goes with it.
SavedStands ==
  /\ tab.saved # NoDoc => tab.course \in Courses /\ Stands(tab.course, tab.rev, tab.saved)
  /\ pub.pc \in {"validated", "listing"} => Stands(pub.course, pub.rev, pub.hash)
  /\ pub.pc = "reviewing" /\ pub.candidate # NoCandidate =>
       pub.candidate.hash = pub.candidate.saved /\ pub.shown = pub.candidate.hash
  /\ pub.pc \in {"sending", "published"} => pub.sent.hash = pub.sent.saved
  /\ pub.pc = "published" => Stands(pub.sent.course, pub.rev, pub.sent.hash)

\* With one course, requests are for the course that is open.
LEMMA SameCourse ==
  ASSUME SaveSizes, Base, Unmixed
  PROVE  /\ restoring.pc # "idle" => tab.course = restoring.course
         /\ pub.pc \in {"validated", "listing"} => tab.course = pub.course
         /\ pub.pc = "published" => tab.course = pub.sent.course
<1>1. CASE OneCourse
  BY <1>1 DEF OneCourse, Base, PageTypes, RestoringSound, PubSound
<1>2. CASE MaxReviews = 0
  BY <1>2 DEF Base, Begins, NoRestore
<1>3. QED  BY <1>1, <1>2 DEF Unmixed

\* Every step keeps it.
LEMMA SavedKept ==
  SaveSizes /\ Unmixed /\ Base /\ SavedStands /\ [SaveNext]_saveVars => SavedStands'
<1> SUFFICES ASSUME SaveSizes, Unmixed, Base, SavedStands, [SaveNext]_saveVars PROVE SavedStands'
  OBVIOUS
<1>1. PageTypes /\ AnswersStand /\ Grows
  BY ServerGrows DEF Base
<1>2. TabSound(tab) /\ tab \in Tab /\ PubSound(pub)
  BY <1>1 DEF PageTypes, TabSound
<1>3. ASSUME tab'.saved # NoDoc
      PROVE  tab'.course \in Courses /\ StandsIn(server', tab'.course, tab'.rev, tab'.saved)
  <2>1. CASE SameWord(tab, tab')
    <3>1. tab.course \in Courses /\ StandsIn(server, tab.course, tab.rev, tab.saved)
      BY <1>3, <2>1 DEF SameWord, SavedStands, Stands
    <3>2. StandsIn(server', tab.course, tab.rev, tab.saved)
      BY <1>1, <3>1, StandsStays
    <3>3. QED  BY <2>1, <3>1, <3>2 DEF SameWord
  <2>2. CASE /\ SaveLand /\ save.pc = "saved" /\ tab.course = save.course
             /\ tab'.course = tab.course /\ tab'.rev = save.rev + 1 /\ tab'.saved = save.doc
    <3>1. StandsIn(server, save.course, save.rev + 1, save.doc) /\ save.course \in Courses
      BY <1>1, <2>2 DEF AnswersStand, PageTypes, SaveSound, Stands
    <3>2. StandsIn(server', save.course, save.rev + 1, save.doc)
      BY <1>1, <3>1, StandsStays
    <3>3. QED  BY <2>2, <3>1, <3>2
  <2>3. CASE OpenLand
    <3>1. /\ opening.pc = "read" /\ opening.course \in Courses /\ server' = server
          /\ tab'.course = opening.course /\ tab'.rev = opening.rev /\ tab'.saved = opening.doc
      BY <1>1, <2>3, OpenLandFacts
    <3>2. QED  BY <1>1, <3>1 DEF AnswersStand, Stands
  <2>4. CASE RestoreLand
    <3>1. /\ restoring.pc = "read" /\ server' = server /\ tab'.course = tab.course
          /\ tab.course \in Courses
          /\ tab'.rev = restoring.rev /\ tab'.saved = restoring.doc
      BY <1>1, <2>4, RestoreLandFacts
    <3>2. tab.course = restoring.course
      BY <3>1, SameCourse
    <3>3. QED  BY <1>1, <3>1, <3>2 DEF AnswersStand, Stands
  <2>5. CASE PublishLand /\ pub.pc = "published"
    <3>1. /\ server' = server /\ tab'.course = tab.course /\ tab.course \in Courses
          /\ \/ tab' = tab
             \/ tab'.rev = pub.rev /\ tab'.saved = pub.sent.saved
      BY <1>1, <2>5, PublishLandFacts
    <3>2. tab.course = pub.sent.course
      BY <2>5, SameCourse
    <3>3. /\ StandsIn(server, pub.sent.course, pub.rev, pub.sent.hash)
          /\ pub.sent.hash = pub.sent.saved
      BY <2>5 DEF SavedStands, Stands
    <3>4. CASE tab' = tab
      BY <1>3, <3>1, <3>4 DEF SavedStands, Stands
    <3>5. QED  BY <3>1, <3>2, <3>3, <3>4
  <2>6. CASE Logout
    BY <1>1, <1>3, <2>6, LogoutFacts
  <2>7. CASE tab' = NoTab
    BY <1>3, <2>7 DEF NoTab
  <2>8. QED  BY <1>1, <2>1, <2>2, <2>3, <2>4, <2>5, <2>6, <2>7, TabSteps
<1>4. ASSUME pub'.pc \in {"validated", "listing"}
      PROVE  StandsIn(server', pub'.course, pub'.rev, pub'.hash)
  <2>1. CASE pub.pc \in {"validated", "listing"} /\ pub'.course = pub.course /\ pub'.rev = pub.rev
             /\ pub'.hash = pub.hash
    <3>1. pub.course \in Courses /\ StandsIn(server, pub.course, pub.rev, pub.hash)
      BY <1>2, <2>1 DEF SavedStands, Stands, PubSound
    <3>2. StandsIn(server', pub.course, pub.rev, pub.hash)
      BY <1>1, <3>1, StandsStays
    <3>3. QED  BY <2>1, <3>2
  <2>2. CASE PubKept(pub, pub')
    BY <1>4, <2>1, <2>2 DEF PubKept
  <2>3. CASE Checked /\ pub'.course = pub.course /\ pub'.rev = pub.rev /\ pub'.hash = pub.hash
    BY <2>1, <2>3 DEF Checked
  <2>4. CASE Validate
    <3>1. /\ pub.course \in Courses /\ pub'.course = pub.course
          /\ pub'.rev = Len(server[pub.course]) /\ pub'.hash = Last(server[pub.course]).doc
      BY <1>1, <2>4, ValidateFacts
    <3>2. server' = server
      BY <2>4 DEF Validate
    <3>3. StandsIn(server, pub.course, pub'.rev, pub'.hash)
      BY <1>1, <3>1, LastVersion DEF StandsIn, PageTypes
    <3>4. QED  BY <3>1, <3>2, <3>3
  <2>5. CASE Review \/ PublishCommit
    <3>1. pub'.pc \notin {"validated", "listing"}
      BY <1>1, <2>5, ReviewFacts, PublishCommitFacts DEF NoPub
    <3>2. QED  BY <1>4, <3>1
  <2>6. CASE pub'.pc \in Unknowing \/ pub'.pc = "sending"
    BY <1>4, <2>6 DEF Unknowing
  <2>7. QED  BY <1>1, <2>2, <2>3, <2>4, <2>5, <2>6, PubSteps
<1>5. ASSUME pub'.pc = "reviewing", pub'.candidate # NoCandidate
      PROVE  pub'.candidate.hash = pub'.candidate.saved /\ pub'.shown = pub'.candidate.hash
  <2>1. CASE PubKept(pub, pub')
    BY <1>5, <2>1 DEF PubKept, SavedStands
  <2>2. CASE Review
    <3>1. /\ pub.pc = "listing" /\ tab.doc # NoDoc /\ tab.doc = tab.saved /\ pub.rev = tab.rev
          /\ pub'.shown = tab.doc /\ pub'.candidate.hash = pub.hash
          /\ pub'.candidate.saved = tab.saved
      BY <1>1, <1>5, <2>2, ReviewFacts DEF NoPub
    <3>2. StandsIn(server, pub.course, pub.rev, pub.hash)
      BY <3>1 DEF SavedStands, Stands
    <3>3. StandsIn(server, tab.course, tab.rev, tab.saved) /\ tab.course = pub.course
      BY <3>1, SameCourse DEF SavedStands, Stands
    <3>4. pub.hash = tab.saved
      BY <3>1, <3>2, <3>3 DEF StandsIn
    <3>5. QED  BY <3>1, <3>4
  <2>3. CASE Validate \/ PublishCommit
    <3>1. pub'.pc # "reviewing"
      BY <1>1, <2>3, ValidateFacts, PublishCommitFacts
    <3>2. QED  BY <1>5, <3>1
  <2>4. CASE pub'.pc \in Unknowing \/ pub'.pc = "sending" \/ pub'.pc = "listing"
    BY <1>5, <2>4 DEF Unknowing
  <2>5. QED  BY <1>1, <2>1, <2>2, <2>3, <2>4, PubSteps
<1>6. ASSUME pub'.pc \in {"sending", "published"}
      PROVE  pub'.sent.hash = pub'.sent.saved
  <2>1. CASE PubKept(pub, pub')
    BY <1>6, <2>1 DEF PubKept, SavedStands
  <2>2. CASE Confirm /\ pub'.pc = "sending"
    BY <1>1, <2>2, ConfirmFacts DEF SavedStands
  <2>3. CASE PublishCommit
    BY <1>1, <2>3, PublishCommitFacts DEF SavedStands
  <2>4. CASE Validate \/ Review
    <3>1. pub'.pc \notin {"sending", "published"}
      BY <1>1, <2>4, ValidateFacts, ReviewFacts DEF NoPub
    <3>2. QED  BY <1>6, <3>1
  <2>5. CASE pub'.pc \in Unknowing \/ pub'.pc = "listing"
    BY <1>6, <2>5 DEF Unknowing
  <2>6. QED  BY <1>1, <2>1, <2>2, <2>3, <2>4, <2>5, PubSteps
<1>7. ASSUME pub'.pc = "published"
      PROVE  StandsIn(server', pub'.sent.course, pub'.rev, pub'.sent.hash)
  <2>1. CASE PubKept(pub, pub')
    <3>1. pub.sent.course \in Courses /\ StandsIn(server, pub.sent.course, pub.rev, pub.sent.hash)
      BY <1>2, <1>7, <2>1 DEF PubKept, SavedStands, Stands, PubSound
    <3>2. StandsIn(server', pub.sent.course, pub.rev, pub.sent.hash)
      BY <1>1, <3>1, StandsStays
    <3>3. QED  BY <2>1, <3>2 DEF PubKept
  <2>2. CASE PublishCommit
    <3>1. PICK c \in Courses : c = pub.sent.course
      BY <1>1, <2>2, PublishCommitFacts
    <3>10. PICK x : x = pub.sent.hash
      OBVIOUS
    <3>2. /\ pub'.sent = pub.sent /\ pub'.rev = Len(server'[c])
          /\ Last(server[c]).doc = x
          /\ \/ server' = server
             \/ \E d \in Version : d.doc = x /\ server' = [server EXCEPT ![c] = Append(@, d)]
      BY <1>1, <1>7, <2>2, <3>1, <3>10, PublishCommitFacts
    <3>3. CASE server' = server
      <4>1. StandsIn(server, c, Len(server[c]), x)
        BY <1>1, <3>1, <3>2, LastVersion DEF StandsIn, PageTypes
      <4>2. QED  BY <3>1, <3>2, <3>3, <3>10, <4>1
    <3>4. CASE \E d \in Version : d.doc = x /\ server' = [server EXCEPT ![c] = Append(@, d)]
      <4>1. PICK d \in Version : d.doc = x /\ server' = [server EXCEPT ![c] = Append(@, d)]
        BY <3>4
      <4>2. /\ ServerSound' /\ Len(server'[c]) = Len(server[c]) + 1
            /\ server'[c][Len(server[c]) + 1] = d
        BY <1>1, <3>1, <4>1, ServerAppends
      <4>3. PICK s \in Seq(Version) : s = server'[c] /\ Len(s) > 0
        BY <3>1, <4>2 DEF ServerSound
      <4>4. Len(s) \in DOMAIN s
        BY <4>3, LenProperties
      <4>5. StandsIn(server', c, Len(server'[c]), x)
        BY <4>1, <4>2, <4>3, <4>4 DEF StandsIn
      <4>6. QED  BY <3>1, <3>2, <3>10, <4>5
    <3>5. QED  BY <3>2, <3>3, <3>4
  <2>3. CASE Validate \/ Review
    <3>1. pub'.pc # "published"
      BY <1>1, <2>3, ValidateFacts, ReviewFacts DEF NoPub
    <3>2. QED  BY <1>7, <3>1
  <2>4. CASE pub'.pc \in Unknowing \/ pub'.pc = "listing" \/ pub'.pc = "sending"
    BY <1>7, <2>4 DEF Unknowing
  <2>5. QED  BY <1>1, <2>1, <2>2, <2>3, <2>4, PubSteps
<1>8. QED  BY <1>3, <1>4, <1>5, <1>6, <1>7 DEF SavedStands, Stands

\* It holds at the start.
LEMMA SavedInit == SaveSizes /\ SaveInit => SavedStands
BY NoDocSound DEF SaveInit, SavedStands, NoTab, NoPub

\* What the page calls saved is what the server has as that revision,
\* whatever answer comes late: a landing save, a restored version and a
\* publication put in what the server answered (performSaveDraft, openCourse,
\* restoreVersion, submitReviewedPublication).
THEOREM SavedIsWhatIsStored == SaveSizes /\ Unmixed => (SaveSpec => []SavedIsTrue)
<1> SUFFICES ASSUME SaveSizes, Unmixed PROVE SaveSpec => []SavedIsTrue
  OBVIOUS
<1>1. SaveInit => Base /\ SavedStands
  BY BaseInit, SavedInit
<1>2. Base /\ SavedStands /\ [SaveNext]_saveVars => (Base /\ SavedStands)'
  BY BaseHolds, SavedKept
<1>3. SavedStands => SavedIsTrue
  BY DEF SavedStands, SavedIsTrue, Stands, StandsIn
<1>4. QED  BY <1>1, <1>2, <1>3, PTL DEF SaveSpec

\* ------------------------------------------------------- what is published
\* Document d is among those the author confirmed, in the lists f.
KnownIn(f, c, d) == \E j \in DOMAIN f[c] : f[c][j] = d

\* A publication on its way was confirmed and has not been counted yet.
PublishedInv ==
  \A c \in Courses :
    /\ Len(live[c]) <= Len(confirmed[c])
    /\ pub.pc = "sending" /\ pub.sent.course = c =>
         Len(live[c]) < Len(confirmed[c]) /\ KnownIn(confirmed, c, pub.sent.hash)
    /\ \A i \in DOMAIN live[c] : KnownIn(confirmed, c, live[c][i])

\* Every step keeps it.
LEMMA PublishedKept ==
  SaveSizes /\ PageTypes /\ SavedStands /\ PublishedInv /\ [SaveNext]_saveVars => PublishedInv'
<1> SUFFICES ASSUME SaveSizes, PageTypes, SavedStands, PublishedInv, [SaveNext]_saveVars PROVE PublishedInv'
  OBVIOUS
<1>1. /\ \A c \in Courses : Len(live[c]) \in Nat /\ Len(confirmed[c]) \in Nat
      /\ live \in [Courses -> Seq(Docs)] /\ confirmed \in [Courses -> Seq(Doc)]
      /\ PubSound(pub) /\ pub \in Pub
  BY LenProperties DEF PageTypes, PubSound
<1>2. CASE Confirm /\ pub'.pc = "sending"
  <2>1. PICK c \in Courses, d \in Doc : c = pub.candidate.course /\ d = pub.shown
    BY <1>1, <1>2, ConfirmFacts DEF Pub, Unknowing
  <2>2. /\ pub.pc = "reviewing" /\ pub.candidate # NoCandidate /\ pub'.sent = pub.candidate
        /\ confirmed' = [confirmed EXCEPT ![c] = Append(@, d)] /\ live' = live
    BY <1>2, <2>1, ConfirmFacts
  <2>3. d = pub.candidate.hash
    BY <2>1, <2>2 DEF SavedStands
  <2>4. /\ Len(confirmed'[c]) = Len(confirmed[c]) + 1 /\ confirmed'[c][Len(confirmed'[c])] = d
        /\ DOMAIN confirmed[c] = 1 .. Len(confirmed[c])
        /\ DOMAIN confirmed'[c] = 1 .. Len(confirmed'[c])
        /\ \A i \in DOMAIN confirmed[c] : confirmed'[c][i] = confirmed[c][i]
        /\ \A e \in Courses \ {c} : confirmed'[e] = confirmed[e]
    BY <1>1, <2>2, ListAppends
  <2>5. KnownIn(confirmed', c, d)
    <3>1. PICK n \in Nat : n = Len(confirmed'[c])
      BY <1>1, <2>1, <2>4
    <3>2. n \in DOMAIN confirmed'[c] /\ confirmed'[c][n] = d
      BY <1>1, <2>1, <2>4, <3>1
    <3>3. QED  BY <3>2 DEF KnownIn
  <2>6. ASSUME NEW e \in Courses, NEW x, KnownIn(confirmed, e, x)
        PROVE  KnownIn(confirmed', e, x)
    <3>1. CASE e = c
      BY <1>1, <2>4, <2>6, <3>1 DEF KnownIn
    <3>2. CASE e # c
      BY <2>4, <2>6, <3>2 DEF KnownIn
    <3>3. QED  BY <3>1, <3>2
  <2>7. pub'.sent.course = c /\ pub'.sent.hash = d
    BY <2>1, <2>2, <2>3
  <2>8. ASSUME NEW e \in Courses
        PROVE  /\ Len(live'[e]) <= Len(confirmed'[e])
               /\ pub'.sent.course = e =>
                    Len(live'[e]) < Len(confirmed'[e]) /\ KnownIn(confirmed', e, pub'.sent.hash)
               /\ \A i \in DOMAIN live'[e] : KnownIn(confirmed', e, live'[e][i])
    <3>1. Len(live[e]) <= Len(confirmed[e]) /\ \A i \in DOMAIN live[e] : KnownIn(confirmed, e, live[e][i])
      BY DEF PublishedInv
    <3>2. \A i \in DOMAIN live'[e] : KnownIn(confirmed', e, live'[e][i])
      BY <2>2, <2>6, <3>1
    <3>3. CASE e = c
      <4>1. PICK m \in Nat, n \in Nat : m = Len(live[e]) /\ n = Len(confirmed[e])
        BY <1>1
      <4>2. Len(live'[e]) = m /\ Len(confirmed'[e]) = n + 1
        BY <2>2, <2>4, <3>3, <4>1
      <4>3. Len(live'[e]) < Len(confirmed'[e])
        BY <3>1, <4>1, <4>2
      <4>4. Len(live'[e]) <= Len(confirmed'[e])
        BY <3>1, <4>1, <4>2
      <4>5. QED  BY <2>5, <2>7, <3>2, <3>3, <4>3, <4>4
    <3>4. CASE e # c
      <4>1. confirmed'[e] = confirmed[e] /\ live'[e] = live[e]
        BY <2>2, <2>4, <3>4
      <4>2. QED  BY <2>7, <3>1, <3>2, <3>4, <4>1
    <3>5. QED  BY <3>3, <3>4
  <2>9. QED  BY <2>8 DEF PublishedInv
<1>3. CASE PublishCommit /\ pub'.pc = "published"
  <2>1. PICK c \in Courses, d \in Docs : c = pub.sent.course /\ d = pub.sent.hash
    BY <1>3, PublishCommitFacts
  <2>2. pub.pc = "sending" /\ live' = [live EXCEPT ![c] = Append(@, d)] /\ confirmed' = confirmed
    BY <1>3, <2>1, PublishCommitFacts
  <2>3. /\ Len(live'[c]) = Len(live[c]) + 1 /\ live'[c][Len(live'[c])] = d
        /\ DOMAIN live[c] = 1 .. Len(live[c]) /\ DOMAIN live'[c] = 1 .. Len(live'[c])
        /\ \A i \in DOMAIN live[c] : live'[c][i] = live[c][i]
        /\ \A e \in Courses \ {c} : live'[e] = live[e]
    BY <1>1, <2>2, ListAppends
  <2>4. Len(live[c]) < Len(confirmed[c]) /\ KnownIn(confirmed, c, d)
    BY <2>1, <2>2 DEF PublishedInv
  <2>5. ASSUME NEW e \in Courses
        PROVE  /\ Len(live'[e]) <= Len(confirmed'[e])
               /\ \A i \in DOMAIN live'[e] : KnownIn(confirmed', e, live'[e][i])
    <3>1. Len(live[e]) <= Len(confirmed[e]) /\ \A i \in DOMAIN live[e] : KnownIn(confirmed, e, live[e][i])
      BY DEF PublishedInv
    <3>2. CASE e = c
      <4>1. ASSUME NEW i \in DOMAIN live'[c] PROVE KnownIn(confirmed, c, live'[c][i])
        <5>1. i \in DOMAIN live[c] \/ i = Len(live'[c])
          BY <1>1, <2>3
        <5>2. QED  BY <2>3, <2>4, <3>1, <3>2, <5>1
      <4>2. QED  BY <1>1, <2>2, <2>3, <2>4, <3>2, <4>1
    <3>3. CASE e # c
      BY <2>2, <2>3, <3>1, <3>3
    <3>4. QED  BY <3>2, <3>3
  <2>6. QED  BY <1>3, <2>5 DEF PublishedInv
<1>4. CASE /\ live' = live /\ confirmed' = confirmed
           /\ pub'.pc = "sending" => pub.pc = "sending" /\ pub'.sent = pub.sent
  BY <1>4 DEF PublishedInv
<1>5. CASE Confirm /\ pub'.pc # "sending"
  BY <1>4, <1>5, ConfirmFacts
<1>6. CASE PublishCommit /\ pub'.pc # "published"
  BY <1>4, <1>6, PublishCommitFacts
<1>7. CASE live' = live /\ confirmed' = confirmed /\ ~Confirm
  <2>1. CASE PubKept(pub, pub')
    BY <1>4, <1>7, <2>1 DEF PubKept
  <2>2. CASE Validate \/ Review
    <3>1. pub'.pc # "sending"
      BY <2>2, ValidateFacts, ReviewFacts DEF NoPub
    <3>2. QED  BY <1>4, <1>7, <3>1
  <2>3. CASE pub'.pc \in Unknowing \/ pub'.pc = "listing"
    BY <1>4, <1>7, <2>3 DEF Unknowing
  <2>4. CASE PublishCommit
    BY <1>3, <1>6, <2>4
  <2>5. QED  BY <1>7, <2>1, <2>2, <2>3, <2>4, PubSteps
<1>8. QED  BY <1>2, <1>3, <1>5, <1>6, <1>7, LiveSteps

\* A draft goes live only as the author reviewed it, once for each
\* confirmation (preparePublish, submitReviewedPublication).
THEOREM PublishedOnlyReviewed == SaveSizes /\ Unmixed => (SaveSpec => []PublishedAsReviewed)
<1> SUFFICES ASSUME SaveSizes, Unmixed PROVE SaveSpec => []PublishedAsReviewed
  OBVIOUS
<1> DEFINE Inv == Base /\ SavedStands /\ PublishedInv
<1>1. SaveInit => Inv
  <2>1. ASSUME SaveInit PROVE PublishedInv
    BY <2>1, EmptySeqs DEF SaveInit, PublishedInv, NoPub
  <2>2. QED  BY <2>1, BaseInit, SavedInit
<1>2. Inv /\ [SaveNext]_saveVars => Inv'
  BY BaseHolds, SavedKept, PublishedKept DEF Base
<1>3. Inv => PublishedAsReviewed
  BY DEF PublishedInv, PublishedAsReviewed, KnownIn
<1> HIDE DEF Inv
<1>4. QED  BY <1>1, <1>2, <1>3, PTL DEF SaveSpec

\* -------------------------------------------------------- what the page holds
\* What stands in list s.
Items(s) == {s[i] : i \in DOMAIN s}
\* The documents an undo or a redo of tab t may show.
Held(t) == {t.doc} \cup Items(t.undo) \cup Items(t.redo)

\* A list that grew holds one thing more.
LEMMA AppendHolds ==
  ASSUME NEW S, NEW s \in Seq(S), NEW d \in S
  PROVE  Items(Append(s, d)) \subseteq Items(s) \cup {d}
<1>1. PICK u \in Seq(S) : u = Append(s, d)
  BY AppendProperties
<1>2. PICK n \in Nat : n = Len(s)
  BY LenProperties
<1>3. /\ DOMAIN s = 1 .. n /\ DOMAIN u = 1 .. n + 1 /\ u[n + 1] = d
      /\ \A i \in 1 .. n : u[i] = s[i]
  BY <1>1, <1>2, AppendProperties, LenProperties
<1>4. ASSUME NEW i \in DOMAIN u PROVE u[i] \in Items(s) \cup {d}
  <2>1. i \in 1 .. n \/ i = n + 1
    BY <1>2, <1>3
  <2>2. QED  BY <1>3, <2>1 DEF Items
<1>5. QED  BY <1>1, <1>4 DEF Items

\* The last thing and the rest of a list stand in it.
LEMMA FrontHolds ==
  ASSUME NEW S, NEW s \in Seq(S), s # <<>>
  PROVE  Items(Front(s)) \subseteq Items(s) /\ Last(s) \in Items(s)
<1>1. PICK f \in Seq(S) : f = Front(s)
  BY Ends
<1>2. /\ Len(s) \in Nat /\ Len(s) > 0 /\ \A i \in 1 .. Len(f) : i \in 1 .. Len(s) /\ f[i] = s[i]
      /\ DOMAIN s = 1 .. Len(s) /\ DOMAIN f = 1 .. Len(f)
  BY <1>1, Ends, LenProperties
<1>3. Items(f) \subseteq Items(s)
  BY <1>2 DEF Items
<1>4. Len(s) \in DOMAIN s
  BY <1>2
<1>5. Last(s) = s[Len(s)]
  BY DEF Last
<1>6. QED  BY <1>1, <1>3, <1>4, <1>5 DEF Items

\* Nothing stands in the empty list.
LEMMA EmptyHolds == Items(<<>>) = {}
<1>1. DOMAIN <<>> = {}
  OBVIOUS
<1>2. QED  BY <1>1 DEF Items

\* The copies after the page saved its crash recovery copy, or did not.
MayCopy(t, before, after) == after = before \/ after = CopyOf(t, before)

\* Copying twice is copying once.
LEMMA CopyTwice ==
  ASSUME SaveSizes, NEW t, NEW copies \in [Courses -> Copy]
  PROVE  CopyOf(t, CopyOf(t, copies)) = CopyOf(t, copies)
<1>1. CASE t.doc = NoDoc \/ t.course = NoCourse
  BY <1>1 DEF CopyOf
<1>2. CASE ~(t.doc = NoDoc \/ t.course = NoCourse)
  <2>1. PICK x : x = [doc |-> t.doc, rev |-> t.rev]
    OBVIOUS
  <2>2. \A y : CopyOf(t, y) = [y EXCEPT ![t.course] = x]
    BY <1>2, <2>1 DEF CopyOf
  <2>3. CopyOf(t, copies) = [copies EXCEPT ![t.course] = x]
    BY <2>2
  <2>4. CopyOf(t, CopyOf(t, copies)) = [[copies EXCEPT ![t.course] = x] EXCEPT ![t.course] = x]
    BY <2>2, <2>3
  <2>5. QED  BY <2>3, <2>4
<1>3. QED  BY <1>1, <1>2

\* The copies after a save of tab t.
LEMMA CopyOfCases ==
  ASSUME NEW t, NEW copies \in [Courses -> Copy], t.doc # NoDoc, t.course \in Courses, SaveSizes
  PROVE  /\ CopyOf(t, copies)[t.course].doc = t.doc
         /\ \A c \in Courses \ {t.course} : CopyOf(t, copies)[c] = copies[c]
<1>1. PICK x : x = [doc |-> t.doc, rev |-> t.rev]
  OBVIOUS
<1>2. x.doc = t.doc /\ t.course # NoCourse
  BY <1>1 DEF SaveSizes
<1>3. CopyOf(t, copies) = [copies EXCEPT ![t.course] = x]
  BY <1>1, <1>2 DEF CopyOf
<1>4. QED  BY <1>2, <1>3

\* The page stands as it is: its document stays, a copy of it may be made, and
\* the author may have given up his last edit (a reload, a restored version).
Rests ==
  /\ tab'.course = tab.course /\ tab'.doc = tab.doc /\ Held(tab') \subseteq Held(tab)
  /\ MayCopy(tab', recovery, recovery')
  /\ work' = work \/ \E c \in Courses : work' = [work EXCEPT ![c] = NoDoc]

\* The page has another document of the same course, and a copy of it is made.
Changes ==
  /\ tab.course \in Courses /\ tab'.course = tab.course
  /\ Held(tab') \subseteq Held(tab) \cup (IF tab.doc = NoDoc THEN {} ELSE {NewDoc})
  /\ recovery' = CopyOf(tab', recovery)
  /\ work' = [work EXCEPT ![tab.course] = tab'.doc]

\* A save of exactly what is on the page was acknowledged.
Cleans ==
  /\ save.pc = "saved" /\ tab.course = save.course /\ tab.course \in Courses
  /\ tab.doc # NoDoc /\ tab.doc = save.doc
  /\ tab'.course = tab.course /\ tab'.doc = tab.doc /\ Held(tab') \subseteq Held(tab)
  /\ recovery' = [recovery EXCEPT ![tab.course] = NoCopy] /\ work' = work

\* A landing save leaves the page as it is, or clears its copy.
LEMMA SaveLandPage == SaveSizes /\ PageTypes /\ SaveLand => Rests \/ Cleans
<1> SUFFICES ASSUME SaveSizes, PageTypes, SaveLand PROVE Rests \/ Cleans
  OBVIOUS
<1>1. PICK o : o = Outcome
  OBVIOUS
<1>2. /\ save.pc \in {"saved", "conflict", "failed"} /\ tab' = o.tab /\ work' = work
      /\ \/ recovery' = o.recovery
         \/ Dirty(o.tab) /\ recovery' = CopyOf(o.tab, o.recovery)
  BY <1>1, SaveLandFacts
<1>3. /\ o.tab.course = tab.course /\ o.tab.doc = tab.doc
      /\ o.tab.undo = tab.undo /\ o.tab.redo = tab.redo
  BY <1>1, <1>2, OutcomeSound
<1>4. /\ tab'.course = tab.course /\ tab'.doc = tab.doc /\ Held(tab') \subseteq Held(tab)
      /\ recovery \in [Courses -> Copy] /\ tab.course \in Courses
  BY <1>2, <1>3 DEF Held, PageTypes
<1>5. CASE MayCopy(o.tab, recovery, o.recovery)
  <2>1. MayCopy(o.tab, recovery, recovery')
    BY <1>2, <1>4, <1>5, CopyTwice DEF MayCopy
  <2>2. QED  BY <1>2, <1>4, <2>1 DEF Rests
<1>6. CASE /\ save.pc = "saved" /\ tab.course = save.course /\ tab.doc # NoDoc
           /\ o.tab = Acknowledged(tab)
           /\ o.recovery = IF Dirty(o.tab) THEN CopyOf(o.tab, recovery)
                           ELSE [recovery EXCEPT ![tab.course] = NoCopy]
  <2>1. CASE Dirty(o.tab)
    BY <1>5, <1>6, <2>1 DEF MayCopy
  <2>2. CASE ~Dirty(o.tab)
    <3>1. TabSound(tab) /\ SaveSound(save)
      BY DEF PageTypes
    <3>2. o.tab.saved = save.doc /\ o.tab.doc = tab.doc
      BY <1>6, <3>1, AckSound
    <3>3. tab.doc = save.doc
      BY <1>6, <2>2, <3>2 DEF Dirty
    <3>4. recovery' = [recovery EXCEPT ![tab.course] = NoCopy]
      BY <1>2, <1>6, <2>2
    <3>5. QED  BY <1>2, <1>4, <1>6, <3>3, <3>4 DEF Cleans
  <2>3. QED  BY <2>1, <2>2
<1>7. CASE o.tab = [tab EXCEPT !.conflict = TRUE] /\ o.recovery = recovery
  BY <1>5, <1>7 DEF MayCopy
<1>8. CASE o.tab = tab /\ o.recovery \in {recovery, CopyOf(tab, recovery)}
  BY <1>5, <1>8 DEF MayCopy
<1>9. QED  BY <1>1, <1>2, <1>6, <1>7, <1>8, OutcomeCases

\* An edit changes the document.
LEMMA EditPage == SaveSizes /\ PageTypes /\ Edit => Changes
<1> SUFFICES ASSUME SaveSizes, PageTypes, Edit PROVE Changes
  OBVIOUS
<1>1. PICK d \in Docs : d = NewDoc /\ tab' = Committed(tab, d) /\ tab.doc # NoDoc
  BY NewDocSound DEF Edit
<1>2. TabSound(tab) /\ tab.undo \in Seq(Doc) /\ tab.doc \in Doc
  BY DEF PageTypes, TabSound, Tab
<1>3. /\ tab'.course = tab.course /\ tab'.course \in Courses /\ tab'.doc = d /\ tab'.redo = <<>>
      /\ tab'.undo = Append(tab.undo, tab.doc)
  BY <1>1, <1>2, CommittedSound
<1>4. Held(tab') \subseteq Held(tab) \cup {NewDoc}
  BY <1>1, <1>2, <1>3, AppendHolds, EmptyHolds DEF Held
<1>5. recovery' = CopyOf(tab', recovery) /\ work' = [work EXCEPT ![tab.course] = tab'.doc]
  BY <1>1, <1>3 DEF Edit
<1>6. QED  BY <1>1, <1>3, <1>4, <1>5 DEF Changes

\* A finished video changes the document, or nothing.
LEMMA VideoPage == SaveSizes /\ PageTypes /\ VideoReady => Changes \/ Rests
<1> SUFFICES ASSUME SaveSizes, PageTypes, VideoReady PROVE Changes \/ Rests
  OBVIOUS
<1>1. TabSound(tab) /\ tab.undo \in Seq(Doc) /\ tab.doc \in Doc /\ recovery \in [Courses -> Copy]
  BY DEF PageTypes, TabSound, Tab
<1>2. CASE UNCHANGED <<tab, work, count, recovery, save, callers, pub>>
  BY <1>2 DEF Rests, MayCopy, Held
<1>3. CASE \E d, t, p, v :
             /\ d \in Docs /\ d = NewDoc /\ t = Committed(tab, d) /\ tab' = t /\ tab.doc # NoDoc
             /\ work' = [work EXCEPT ![tab.course] = d]
             /\ Call("video", t, CopyOf(t, recovery), p, v)
  <2>1. PICK d, t, p, v :
             /\ d \in Docs /\ d = NewDoc /\ t = Committed(tab, d) /\ tab' = t /\ tab.doc # NoDoc
             /\ work' = [work EXCEPT ![tab.course] = d]
             /\ Call("video", t, CopyOf(t, recovery), p, v)
    BY <1>3
  <2>2. /\ t.course = tab.course /\ t.course \in Courses /\ t.doc = d /\ t.redo = <<>>
        /\ t.undo = Append(tab.undo, tab.doc)
    BY <1>1, <2>1, CommittedSound
  <2>3. Held(t) \subseteq Held(tab) \cup {NewDoc}
    BY <1>1, <2>1, <2>2, AppendHolds, EmptyHolds DEF Held
  <2>4. recovery' = CopyOf(t, recovery) \/ recovery' = CopyOf(t, CopyOf(t, recovery))
    <3>1. "video" \in Callers
      BY DEF Callers
    <3>2. PICK copies : copies = CopyOf(t, recovery)
      OBVIOUS
    <3>3. recovery' = copies \/ recovery' = CopyOf(t, copies)
      BY <2>1, <3>1, <3>2, CallFacts
    <3>4. QED  BY <3>2, <3>3
  <2>5. recovery' = CopyOf(t, recovery)
    BY <1>1, <2>4, CopyTwice
  <2>6. QED  BY <2>1, <2>2, <2>3, <2>5 DEF Changes
<1>4. QED  BY <1>2, <1>3, VideoReadyFacts

\* An undo changes the document.
LEMMA UndoPage == SaveSizes /\ PageTypes /\ Undo => Changes
<1> SUFFICES ASSUME SaveSizes, PageTypes, Undo PROVE Changes
  OBVIOUS
<1>1. PICK t : /\ t = [tab EXCEPT !.doc = Last(tab.undo), !.undo = Front(@),
                                  !.redo = Append(@, tab.doc)]
               /\ tab' = t /\ tab.undo # <<>>
  BY DEF Undo
<1>2. /\ TabSound(tab) /\ tab.undo \in Seq(Doc) /\ tab.redo \in Seq(Doc) /\ tab.doc \in Doc
  BY DEF PageTypes, TabSound, Tab
<1>3. /\ t.course = tab.course /\ t.course \in Courses /\ t.doc = Last(tab.undo)
      /\ t.undo = Front(tab.undo) /\ t.redo = Append(tab.redo, tab.doc)
  BY <1>1, <1>2, UndoneSound
<1>4. /\ Items(t.undo) \subseteq Items(tab.undo) /\ t.doc \in Items(tab.undo)
      /\ Items(t.redo) \subseteq Items(tab.redo) \cup {tab.doc}
  BY <1>1, <1>2, <1>3, FrontHolds, AppendHolds
<1>5. Held(t) \subseteq Held(tab)
  BY <1>4 DEF Held
<1>6. recovery' = CopyOf(tab', recovery) /\ work' = [work EXCEPT ![tab.course] = tab'.doc]
  BY DEF Undo
<1>7. QED  BY <1>1, <1>3, <1>5, <1>6 DEF Changes

\* A redo changes the document, or nothing.
LEMMA RedoPage == SaveSizes /\ PageTypes /\ Redo => Changes \/ Rests
<1> SUFFICES ASSUME SaveSizes, PageTypes, Redo PROVE Changes \/ Rests
  OBVIOUS
<1>1. PICK t : tab' = t
  OBVIOUS
<1>2. /\ TabSound(tab) /\ tab.undo \in Seq(Doc) /\ tab.redo \in Seq(Doc) /\ tab.doc \in Doc
      /\ tab.redo # <<>> /\ tab \in Tab
  BY DEF PageTypes, TabSound, Tab, Redo
<1>3. \/ t = [tab EXCEPT !.redo = Front(@)]
      \/ t = [tab EXCEPT !.doc = Last(tab.redo), !.redo = Front(@), !.undo = Append(@, tab.doc)]
  BY <1>1 DEF Redo
<1>4. /\ t.course = tab.course /\ t.course \in Courses /\ t.doc \in {tab.doc, Last(tab.redo)}
      /\ t.redo = Front(tab.redo) /\ t.undo \in {tab.undo, Append(tab.undo, tab.doc)}
  BY <1>2, <1>3, RedoneSound
<1>5. /\ Items(t.redo) \subseteq Items(tab.redo) /\ Last(tab.redo) \in Items(tab.redo)
      /\ Items(t.undo) \subseteq Items(tab.undo) \cup {tab.doc}
  BY <1>2, <1>4, FrontHolds, AppendHolds
<1>6. Held(t) \subseteq Held(tab)
  BY <1>4, <1>5 DEF Held
<1>7. CASE Last(tab.redo) = NoDoc
  <2>1. t = [tab EXCEPT !.redo = Front(@)] /\ recovery' = recovery /\ work' = work
    BY <1>1, <1>7 DEF Redo
  <2>2. t.doc = tab.doc
    BY <1>2, <2>1 DEF Tab
  <2>3. QED  BY <1>1, <1>4, <1>6, <2>1, <2>2 DEF Rests, MayCopy
<1>8. CASE Last(tab.redo) # NoDoc
  <2>1. recovery' = CopyOf(tab', recovery) /\ work' = [work EXCEPT ![tab.course] = tab'.doc]
    BY <1>8 DEF Redo
  <2>2. QED  BY <1>1, <1>4, <1>6, <2>1 DEF Changes
<1>9. QED  BY <1>7, <1>8

\* How the page, its recovery copies and the author's last edits change.
LEMMA PageSteps ==
  ASSUME SaveSizes, PageTypes, [SaveNext]_saveVars
  PROVE  Rests \/ Changes \/ Cleans \/ OpenLand \/ RestoreLand \/ Logout \/ ClosePage
<1>1. tab \in Tab /\ recovery \in [Courses -> Copy]
  BY DEF PageTypes, TabSound
<1>2. CASE tab' = tab /\ recovery' \in {recovery, CopyOf(tab, recovery)} /\ work' = work
  BY <1>2 DEF Rests, MayCopy, Held
<1>3. CASE Keep \/ Reload
  <2>1. tab' = [tab EXCEPT !.conflict = FALSE] /\ recovery' = recovery
    BY <1>3 DEF Keep, Reload
  <2>2. /\ tab'.course = tab.course /\ tab'.doc = tab.doc /\ tab'.undo = tab.undo
        /\ tab'.redo = tab.redo
    BY <1>1, <2>1 DEF Tab
  <2>3. work' = work \/ \E c \in Courses : work' = [work EXCEPT ![c] = NoDoc]
    <3>1. CASE Keep
      BY <3>1 DEF Keep
    <3>2. CASE Reload
      <4>1. tab.course \in Courses /\ work' = [work EXCEPT ![tab.course] = NoDoc]
        BY <3>2 DEF Reload, PageTypes, TabSound, Tab, AnyCourse
      <4>2. QED  BY <4>1
    <3>3. QED  BY <1>3, <3>1, <3>2
  <2>4. QED  BY <2>1, <2>2, <2>3 DEF Rests, MayCopy, Held
<1>4. CASE RestoreClick
  <2>1. tab.course \in Courses /\ work' = [work EXCEPT ![tab.course] = NoDoc]
        /\ tab' = tab /\ recovery' = recovery
    BY <1>4 DEF RestoreClick, PageTypes, TabSound, Tab, AnyCourse
  <2>2. QED  BY <2>1 DEF Rests, MayCopy, Held
<1>5. CASE SaveClick \/ BeginPublish \/ StartVideo \/ Checked
  <2>1. tab' = tab /\ work' = work
    BY <1>5 DEF SaveClick, BeginPublish, StartVideo, Checked
  <2>2. recovery' = recovery \/ \E k \in Callers : \E p, v : Call(k, tab, recovery, p, v)
    <3>1. "author" \in Callers /\ "publish" \in Callers /\ "video" \in Callers
      BY DEF Callers
    <3>2. CASE SaveClick
      BY <3>1, <3>2 DEF SaveClick
    <3>3. CASE BeginPublish
      BY <3>1, <3>3 DEF BeginPublish
    <3>4. CASE StartVideo
      BY <3>1, <3>4 DEF StartVideo
    <3>5. CASE Checked
      BY <3>1, <3>5, CheckedFacts
    <3>6. QED  BY <1>5, <3>2, <3>3, <3>4, <3>5
  <2>3. recovery' = recovery \/ recovery' = CopyOf(tab, recovery)
    BY <2>2, CallFacts
  <2>4. QED  BY <1>2, <2>1, <2>3
<1>6. CASE PublishLand
  <2>1. /\ tab'.course = tab.course /\ tab'.doc = tab.doc
        /\ tab'.undo = tab.undo /\ tab'.redo = tab.redo
        /\ recovery' = recovery /\ work' = work
    BY <1>6, PublishLandFacts
  <2>2. QED  BY <2>1 DEF Rests, MayCopy, Held
<1>7. CASE Confirm \/ CloseDialog \/ \E c \in Courses : Open(c)
  <2>1. tab' = tab /\ recovery' = recovery /\ work' = work
    BY <1>7 DEF Confirm, CloseDialog, Open
  <2>2. QED  BY <1>2, <2>1
<1>8. CASE SaveCommit \/ OpenRead \/ RestoreCommit \/ Validate \/ Review \/ PublishCommit
  <2>1. tab' = tab /\ recovery' = recovery /\ work' = work
    BY <1>8 DEF SaveCommit, OpenRead, RestoreCommit, Validate, Review, PublishCommit
  <2>2. QED  BY <1>2, <2>1
<1>9. CASE LoseSave \/ OpenFail \/ RestoreFail \/ LosePublish \/ \E c \in Courses : SaveElsewhere(c)
  <2>1. tab' = tab /\ recovery' = recovery /\ work' = work
    BY <1>9 DEF LoseSave, OpenFail, RestoreFail, LosePublish, SaveElsewhere, client
  <2>2. QED  BY <1>2, <2>1
<1>10. CASE UNCHANGED saveVars
  BY <1>2, <1>10 DEF saveVars, client
<1>11. CASE SaveLand \/ Edit \/ VideoReady \/ Undo \/ Redo
  BY <1>11, SaveLandPage, EditPage, VideoPage, UndoPage, RedoPage
<1>12. QED
  BY <1>3, <1>4, <1>5, <1>6, <1>7, <1>8, <1>9, <1>10, <1>11 DEF SaveNext, Acts, Goes, Around

\* How the server's revisions change, and by whom.
LEMMA ServerSteps ==
  ASSUME SaveSizes, PageTypes, [SaveNext]_saveVars
  PROVE  \/ server' = server
         \/ \E c \in Courses, d \in Version :
              /\ server' = [server EXCEPT ![c] = Append(@, d)]
              /\ \/ /\ SaveCommit /\ save.pc = "sent" /\ c = save.course /\ d.doc = save.doc
                    /\ d.by = "here"
                 \/ RestoreCommit /\ d.by = "here"
                 \/ PublishCommit /\ d.doc = Last(server[c]).doc /\ d.by = "here"
                 \/ d.doc.of = c /\ d.by = "elsewhere" /\ client' = client
<1>1. CASE SaveCommit
  <2>1. PICK c \in Courses : c = save.course /\ save.doc \in Docs /\ save.pc = "sent"
    BY <1>1 DEF PageTypes, SaveSound, SaveCommit
  <2>2. PICK d : d = [doc |-> save.doc, by |-> "here"]
    OBVIOUS
  <2>3. d \in Version /\ d.doc = save.doc /\ d.by = "here"
    BY <2>1, <2>2 DEF Version
  <2>4. server' = server \/ server' = [server EXCEPT ![c] = Append(@, d)]
    BY <1>1, <2>1, <2>2 DEF SaveCommit
  <2>5. QED  BY <1>1, <2>1, <2>3, <2>4
<1>2. CASE RestoreCommit
  BY <1>2, RestoreCommitFacts
<1>3. CASE PublishCommit
  BY <1>3, PublishCommitFacts
<1>4. CASE \E c \in Courses : SaveElsewhere(c)
  BY <1>4, SaveElsewhereFacts
<1>5. CASE Acts
  BY <1>5 DEF Acts, Edit, Undo, Redo, SaveClick, Keep, Reload, RestoreClick, BeginPublish,
     Confirm, CloseDialog, StartVideo, Logout, Open
<1>6. CASE Goes /\ ~SaveCommit /\ ~RestoreCommit /\ ~PublishCommit
  BY <1>6, SaveLandFacts DEF Goes, OpenRead, OpenLand, RestoreLand, Validate, Checked, Review,
     PublishLand, VideoReady
<1>7. CASE LoseSave \/ OpenFail \/ RestoreFail \/ LosePublish \/ ClosePage
  BY <1>7 DEF LoseSave, OpenFail, RestoreFail, LosePublish, ClosePage
<1>8. CASE UNCHANGED saveVars
  BY <1>8 DEF saveVars
<1>9. QED  BY <1>1, <1>2, <1>3, <1>4, <1>5, <1>6, <1>7, <1>8 DEF SaveNext, Around

\* ---------------------------------------------------- of which course it is
\* Document d is of course c, if it is one.
OfCourse(d, c) == d = NoDoc \/ d.of = c

\* What is held, copied, stored or being saved under a course is of it.
DocsMatch ==
  /\ \A d \in Held(tab) : OfCourse(d, tab.course)
  /\ \A c \in Courses : OfCourse(recovery[c].doc, c)
  /\ \A c \in Courses : \A r \in DOMAIN server[c] : OfCourse(server[c][r].doc, c)
  /\ save.pc = "sent" => OfCourse(save.doc, save.course)

\* A revision holds a document of its course.
LEMMA ServerMatches ==
  SaveSizes /\ Base /\ DocsMatch /\ NoRestore /\ [SaveNext]_saveVars =>
    \A c \in Courses : \A r \in DOMAIN server'[c] : OfCourse(server'[c][r].doc, c)
<1> SUFFICES ASSUME SaveSizes, Base, DocsMatch, NoRestore, [SaveNext]_saveVars,
                    NEW c \in Courses, NEW r \in DOMAIN server'[c]
             PROVE  OfCourse(server'[c][r].doc, c)
  OBVIOUS
<1>1. PageTypes /\ ~RestoreCommit
  BY DEF Base, Begins, RestoreCommit
<1>2. CASE server' = server
  BY <1>2 DEF DocsMatch
<1>3. CASE \E e \in Courses, d \in Version :
             /\ server' = [server EXCEPT ![e] = Append(@, d)] /\ OfCourse(d.doc, e)
  <2>1. PICK e \in Courses, d \in Version :
             /\ server' = [server EXCEPT ![e] = Append(@, d)] /\ OfCourse(d.doc, e)
    BY <1>3
  <2>2. CASE c # e
    <3>1. server'[c] = server[c]
      BY <2>1, <2>2 DEF PageTypes, ServerSound, Base
    <3>2. QED  BY <3>1 DEF DocsMatch
  <2>3. CASE c = e
    <3>1. server[c] \in Seq(Version) /\ server'[c] = Append(server[c], d)
      BY <2>1, <2>3 DEF PageTypes, ServerSound, Base
    <3>2. server'[c][r] \in Items(server'[c])
      BY DEF Items
    <3>3. server'[c][r] \in Items(server[c]) \cup {d}
      BY <3>1, <3>2, AppendHolds
    <3>4. QED  BY <2>1, <2>3, <3>3 DEF Items, DocsMatch
  <2>4. QED  BY <2>2, <2>3
<1>4. ASSUME NEW e \in Courses, NEW d, d = Last(server[e]).doc PROVE OfCourse(d, e)
  BY <1>1, <1>4, LastVersion DEF DocsMatch, PageTypes
<1>5. QED
  <2>1. CASE \E e \in Courses, d \in Version :
              /\ server' = [server EXCEPT ![e] = Append(@, d)]
              /\ \/ save.pc = "sent" /\ e = save.course /\ d.doc = save.doc
                 \/ d.doc = Last(server[e]).doc
                 \/ d.doc.of = e
    <3>1. PICK e \in Courses, d \in Version :
              /\ server' = [server EXCEPT ![e] = Append(@, d)]
              /\ \/ save.pc = "sent" /\ e = save.course /\ d.doc = save.doc
                 \/ d.doc = Last(server[e]).doc
                 \/ d.doc.of = e
      BY <2>1
    <3>5. OfCourse(d.doc, e)
      <4>2. CASE save.pc = "sent" /\ e = save.course /\ d.doc = save.doc
        BY <4>2 DEF DocsMatch
      <4>3. CASE d.doc = Last(server[e]).doc
        BY <1>4, <4>3
      <4>4. CASE d.doc.of = e
        BY <4>4 DEF OfCourse
      <4>5. QED  BY <3>1, <4>2, <4>3, <4>4
    <3>6. QED  BY <1>3, <3>1, <3>5
  <2>2. CASE server' # server
    <3>1. PICK e \in Courses, d \in Version :
            /\ server' = [server EXCEPT ![e] = Append(@, d)]
            /\ \/ save.pc = "sent" /\ e = save.course /\ d.doc = save.doc
               \/ RestoreCommit
               \/ d.doc = Last(server[e]).doc
               \/ d.doc.of = e
      BY <1>1, <2>2, ServerSteps
    <3>2. QED  BY <1>1, <2>1, <3>1
  <2>3. QED  BY <1>2, <2>2

\* Every step keeps that documents match their courses.
LEMMA MatchKept ==
  SaveSizes /\ Base /\ DocsMatch /\ NoRestore /\ [SaveNext]_saveVars => DocsMatch'
<1> SUFFICES ASSUME SaveSizes, Base, DocsMatch, NoRestore, [SaveNext]_saveVars PROVE DocsMatch'
  OBVIOUS
<1>1. /\ PageTypes /\ tab \in Tab /\ recovery \in [Courses -> Copy] /\ ~RestoreLand
      /\ OfCourse(tab.doc, tab.course) /\ TabSound(tab) /\ NoCopy.doc = NoDoc
  BY DEF Base, Begins, RestoreLand, PageTypes, TabSound, DocsMatch, Held, NoCopy
<1>2. \A c : OfCourse(NoDoc, c)
  BY DEF OfCourse
<1>3. \A d \in Held(tab') : OfCourse(d, tab'.course)
  <2>1. CASE Rests \/ Cleans
    BY <2>1 DEF Rests, Cleans, DocsMatch
  <2>2. CASE Changes
    <3>1. tab.doc # NoDoc => OfCourse(NewDoc, tab.course)
      BY <1>1 DEF OfCourse, NewDoc
    <3>2. QED  BY <2>2, <3>1 DEF Changes, DocsMatch
  <2>3. CASE OpenLand
    <3>1. /\ opening.pc = "read" /\ opening.course \in Courses /\ tab'.course = opening.course
          /\ tab'.undo = <<>> /\ tab'.redo = <<>>
          /\ tab'.doc \in {recovery[opening.course].doc, opening.doc}
      BY <1>1, <2>3, OpenLandFacts
    <3>2. OfCourse(opening.doc, opening.course)
      BY <3>1 DEF Base, AnswersStand, Stands, StandsIn, DocsMatch
    <3>3. OfCourse(tab'.doc, tab'.course)
      BY <3>1, <3>2 DEF DocsMatch
    <3>4. Held(tab') = {tab'.doc}
      BY <3>1, EmptyHolds DEF Held
    <3>5. QED  BY <3>3, <3>4
  <2>4. CASE Logout
    <3>1. tab'.course = tab.course /\ Held(tab') \subseteq Held(tab) \cup {NoDoc}
      BY <1>1, <2>4, LogoutFacts DEF Held
    <3>2. QED  BY <1>2, <3>1 DEF DocsMatch
  <2>5. CASE ClosePage
    <3>1. Held(tab') = {NoDoc}
      BY <2>5, EmptyHolds DEF ClosePage, NoTab, Held
    <3>2. QED  BY <1>2, <3>1
  <2>6. QED  BY <1>1, <2>1, <2>2, <2>3, <2>4, <2>5, PageSteps
<1>4. /\ TabSound(tab') /\ OfCourse(tab'.doc, tab'.course)
  BY <1>1, <1>3, TypesKept DEF Held, PageTypes
<1>5. ASSUME NEW c \in Courses PROVE OfCourse(recovery'[c].doc, c)
  <2>1. OfCourse(recovery[c].doc, c)
    BY DEF DocsMatch
  <2>2. CASE MayCopy(tab', recovery, recovery')
    <3>1. CASE tab'.doc = NoDoc \/ tab'.course = NoCourse \/ recovery' = recovery
      BY <2>1, <2>2, <3>1 DEF MayCopy, CopyOf
    <3>2. CASE tab'.doc # NoDoc /\ tab'.course # NoCourse /\ recovery' = CopyOf(tab', recovery)
      <4>1. tab'.course \in Courses
        BY <1>4, <3>2 DEF TabSound, Tab, AnyCourse
      <4>2. QED  BY <1>1, <1>4, <2>1, <3>2, <4>1, CopyOfCases
    <3>3. QED  BY <2>2, <3>1, <3>2 DEF MayCopy
  <2>3. CASE Rests \/ Changes
    BY <2>2, <2>3 DEF Rests, Changes, MayCopy
  <2>4. CASE Cleans \/ OpenLand
    <3>1. recovery' = recovery \/ \E e \in Courses : recovery' = [recovery EXCEPT ![e] = NoCopy]
      BY <1>1, <2>4, OpenLandFacts DEF Cleans
    <3>2. QED  BY <1>1, <1>2, <2>1, <3>1
  <2>5. CASE Logout \/ ClosePage
    BY <2>1, <2>5 DEF Logout, ClosePage
  <2>6. QED  BY <1>1, <2>3, <2>4, <2>5, PageSteps
<1>6. ASSUME save'.pc = "sent" PROVE OfCourse(save'.doc, save'.course)
  <2>1. CASE save' = save
    BY <1>6, <2>1 DEF DocsMatch
  <2>2. CASE SaveCommit
    <3>1. save \in Save
      BY <1>1 DEF PageTypes, SaveSound
    <3>2. save'.pc \in {"saved", "conflict"}
      BY <2>2, <3>1 DEF SaveCommit, Save
    <3>3. QED  BY <1>6, <3>2
  <2>3. CASE save' = Begun(tab')
    BY <1>4, <2>3 DEF Begun
  <2>4. QED  BY <1>1, <1>6, <2>1, <2>2, <2>3, SaveSteps
<1>7. QED  BY <1>3, <1>5, <1>6, ServerMatches DEF DocsMatch

\* They match at the start.
LEMMA MatchInit == SaveSizes /\ SaveInit => DocsMatch
<1> SUFFICES ASSUME SaveSizes, SaveInit PROVE DocsMatch
  OBVIOUS
<1>1. Held(tab) = {NoDoc}
  BY EmptyHolds DEF SaveInit, NoTab, Held
<1>2. \A c \in Courses : recovery[c].doc = NoDoc
  BY DEF SaveInit, NoCopy
<1>3. ASSUME NEW c \in Courses, NEW r \in DOMAIN server[c] PROVE OfCourse(server[c][r].doc, c)
  <2>1. PICK d : d = [of |-> c, n |-> 0]
    OBVIOUS
  <2>2. server[c] = <<[doc |-> d, by |-> "here"]>>
    BY <2>1 DEF SaveInit
  <2>3. server[c][r].doc = d
    BY <2>2
  <2>4. QED  BY <2>1, <2>3 DEF OfCourse
<1>4. save.pc = "idle"
  BY DEF SaveInit, NoSave
<1>5. QED  BY <1>1, <1>2, <1>3, <1>4 DEF DocsMatch, OfCourse

\* No course but one is opened, or no version is restored: a restored version
\* is put into whatever course is open, where it is nobody's last edit and
\* takes the place of one (studio.js:1564).
RestoredHere == OneCourse \/ NoRestore

\* The page shows a document of the course it says is open, whatever answer
\* comes late (openCourse, performSaveDraft, submitReviewedPublication).
THEOREM ShownIsOfTheCourse ==
  SaveSizes /\ RestoredHere => (SaveSpec => []CourseMatches)
<1>1. ASSUME SaveSizes, OneCourse PROVE SaveSpec => []CourseMatches
  <2>1. PageTypes => CourseMatches
    BY <1>1 DEF PageTypes, TabSound, Tab, Doc, Docs, AnyCourse, CourseMatches, OneCourse
  <2>2. SaveInit => PageTypes
    BY <1>1, TypesInit
  <2>3. PageTypes /\ [SaveNext]_saveVars => PageTypes'
    BY <1>1, TypesKept
  <2>4. QED  BY <2>1, <2>2, <2>3, PTL DEF SaveSpec
<1>2. ASSUME SaveSizes, NoRestore PROVE SaveSpec => []CourseMatches
  <2>1. DocsMatch => CourseMatches
    BY DEF DocsMatch, Held, OfCourse, CourseMatches
  <2>2. SaveInit => Base /\ DocsMatch
    BY <1>2, BaseInit, MatchInit
  <2>3. Base /\ DocsMatch /\ [SaveNext]_saveVars => (Base /\ DocsMatch)'
    BY <1>2, BaseHolds, MatchKept
  <2>4. QED  BY <2>1, <2>2, <2>3, PTL DEF SaveSpec
<1>3. QED  BY <1>1, <1>2 DEF RestoredHere

\* ------------------------------------------------------------- edits are kept
\* Some revision of course c, in the server's revisions s, is document d.
StoredIn(s, c, d) == \E r \in DOMAIN s[c] : s[c][r].doc = d

\* A copy that holds the author's last edit is of the page, if the course is
\* open; an edit that is on the page has been copied; unless it is stored.
WorkSound(c) ==
  work[c] # NoDoc /\ tab.course = c /\ ~StoredIn(server, c, work[c]) =>
    /\ tab.doc # NoDoc /\ recovery[c].doc = work[c] => tab.doc = work[c]
    /\ tab.doc = work[c] => recovery[c].doc = work[c]
\* The same of every course.
WorkInv == \A c \in Courses : WorkSound(c)

\* What is stored stays stored.
LEMMA StoredStays ==
  ASSUME Grows, NEW c \in Courses, NEW d, StoredIn(server, c, d)
  PROVE  StoredIn(server', c, d)
BY DEF Grows, StoredIn

\* What stands as a revision is stored.
LEMMA StandsStored ==
  ASSUME NEW c, NEW r, NEW d, Stands(c, r, d)
  PROVE  StoredIn(server, c, d)
BY DEF Stands, StandsIn, StoredIn

\* The copies after the page saved its own or did not.
LEMMA CopiesAfter ==
  ASSUME SaveSizes, TabSound(tab'), recovery \in [Courses -> Copy], NEW c \in Courses,
         MayCopy(tab', recovery, recovery')
  PROVE  \/ recovery'[c] = recovery[c]
         \/ tab'.course = c /\ tab'.doc # NoDoc /\ recovery'[c].doc = tab'.doc
<1>1. CASE tab'.doc = NoDoc \/ tab'.course = NoCourse \/ recovery' = recovery
  BY <1>1 DEF MayCopy, CopyOf
<1>2. CASE tab'.doc # NoDoc /\ tab'.course # NoCourse /\ recovery' = CopyOf(tab', recovery)
  <2>1. tab'.course \in Courses
    BY <1>2 DEF TabSound, Tab, AnyCourse
  <2>2. QED  BY <1>2, <2>1, CopyOfCases
<1>3. QED  BY <1>1, <1>2 DEF MayCopy

\* Every step keeps it.
LEMMA WorkKeptInv ==
  SaveSizes /\ RestoredHere /\ Base /\ WorkInv /\ [SaveNext]_saveVars => WorkInv'
<1> SUFFICES ASSUME SaveSizes, RestoredHere, Base, WorkInv, [SaveNext]_saveVars, NEW c \in Courses,
                    work'[c] # NoDoc, tab'.course = c, ~StoredIn(server', c, work'[c])
             PROVE  /\ tab'.doc # NoDoc /\ recovery'[c].doc = work'[c] => tab'.doc = work'[c]
                    /\ tab'.doc = work'[c] => recovery'[c].doc = work'[c]
  BY DEF WorkInv, WorkSound
<1>1. /\ PageTypes /\ PageTypes' /\ Grows /\ recovery \in [Courses -> Copy] /\ work \in [Courses -> Doc]
      /\ TabSound(tab') /\ NoCopy.doc = NoDoc /\ tab \in Tab
  BY TypesKept, ServerGrows DEF Base, PageTypes, NoCopy, TabSound
<1>2. WorkSound(c)
  BY DEF WorkInv
<1>3. ASSUME work'[c] = work[c] PROVE ~StoredIn(server, c, work[c])
  BY <1>1, <1>3, StoredStays
<1>4. CASE Rests
  <2>1. work'[c] = work[c]
    BY <1>1, <1>4 DEF Rests
  <2>2. \/ recovery'[c] = recovery[c]
        \/ tab'.course = c /\ tab'.doc # NoDoc /\ recovery'[c].doc = tab'.doc
    BY <1>1, <1>4, CopiesAfter DEF Rests
  <2>3. QED  BY <1>2, <1>3, <1>4, <2>1, <2>2 DEF Rests, WorkSound
<1>5. CASE Changes
  <2>1. work'[c] = tab'.doc
    BY <1>1, <1>5 DEF Changes
  <2>2. recovery'[c].doc = tab'.doc
    BY <1>1, <1>5, <2>1, CopyOfCases DEF Changes
  <2>3. QED  BY <2>1, <2>2
<1>6. CASE Cleans
  <2>1. work'[c] = work[c] /\ recovery'[c].doc = NoDoc /\ tab'.doc = save.doc
    BY <1>1, <1>6 DEF Cleans
  <2>2. StoredIn(server, c, save.doc)
    BY <1>6, StandsStored DEF Cleans, Base, AnswersStand
  <2>3. QED  BY <1>3, <2>1, <2>2
<1>7. CASE OpenLand
  <2>1. /\ opening.pc = "read" /\ opening.course = c
        /\ \/ /\ tab'.doc = recovery[c].doc /\ recovery' = recovery /\ work' = work
           \/ work' = [work EXCEPT ![c] = NoDoc]
           \/ /\ tab'.doc = opening.doc /\ work' = work
              /\ recovery' = [recovery EXCEPT ![c] = NoCopy]
           \/ /\ tab'.doc = opening.doc /\ work' = work /\ recovery' = recovery
              /\ recovery[c].doc \in {NoDoc, opening.doc}
    BY <1>1, <1>7, OpenLandFacts
  <2>2. StoredIn(server, c, opening.doc)
    BY <2>1, StandsStored DEF Base, AnswersStand
  <2>3. QED  BY <1>1, <1>3, <2>1, <2>2
<1>8. CASE RestoreLand
  <2>1. /\ tab'.course = tab.course /\ tab'.doc = restoring.doc /\ work' = work
        /\ recovery' = [recovery EXCEPT ![tab.course] = NoCopy] /\ restoring.pc = "read"
    BY <1>1, <1>8, RestoreLandFacts
  <2>2. restoring.course = c
    BY <2>1 DEF RestoredHere, NoRestore, OneCourse, Base, Begins, PageTypes, RestoringSound
  <2>3. StoredIn(server, c, restoring.doc)
    BY <2>1, <2>2, StandsStored DEF Base, AnswersStand
  <2>4. QED  BY <1>1, <1>3, <2>1, <2>3
<1>9. CASE Logout
  BY <1>1, <1>9, LogoutFacts
<1>10. CASE ClosePage
  BY <1>10 DEF ClosePage, NoTab, SaveSizes
<1>11. QED  BY <1>1, <1>4, <1>5, <1>6, <1>7, <1>8, <1>9, <1>10, PageSteps

\* It holds at the start.
LEMMA WorkInit == SaveSizes /\ SaveInit => WorkInv
BY DEF SaveInit, WorkInv, WorkSound

\* From such a state, no step loses the author's last edit.
LEMMA WorkStep == SaveSizes /\ Base /\ WorkInv /\ [SaveNext]_saveVars => WorkKeptStep
<1> SUFFICES ASSUME SaveSizes, Base, WorkInv, [SaveNext]_saveVars, NEW c \in Courses, EditSafe(c),
                    ~RestoreLand, ~(OpenLand /\ opening.discard), work'[c] # NoDoc
             PROVE  \/ tab'.course = c /\ tab'.doc = work'[c]
                    \/ recovery'[c].doc = work'[c]
                    \/ StoredIn(server', c, work'[c])
  BY DEF WorkKeptStep, EditSafe, StoredIn
<1>1. /\ PageTypes /\ PageTypes' /\ Grows /\ recovery \in [Courses -> Copy] /\ work \in [Courses -> Doc]
      /\ TabSound(tab') /\ NoCopy.doc = NoDoc
  BY TypesKept, ServerGrows DEF Base, PageTypes, NoCopy
<1>2. WorkSound(c)
  BY DEF WorkInv
<1>3. CASE Changes
  <2>1. CASE tab.course = c
    BY <1>1, <1>3, <2>1 DEF Changes
  <2>2. CASE tab.course # c
    <3>1. work'[c] = work[c] /\ MayCopy(tab', recovery, recovery') /\ tab'.course # c
      BY <1>1, <1>3, <2>2 DEF Changes, MayCopy
    <3>2. recovery'[c] = recovery[c]
      BY <1>1, <3>1, CopiesAfter
    <3>3. QED  BY <1>1, <2>2, <3>1, <3>2, StoredStays DEF EditSafe, StoredIn
  <2>3. QED  BY <2>1, <2>2
<1>4. CASE work'[c] = work[c] /\ ~Changes
  <2>1. CASE StoredIn(server, c, work[c])
    BY <1>1, <1>4, <2>1, StoredStays
  <2>2. CASE ~StoredIn(server, c, work[c])
    <3>1. (tab.course = c /\ tab.doc = work[c]) \/ recovery[c].doc = work[c]
      BY <1>4, <2>2 DEF EditSafe, StoredIn
    <3>2. CASE recovery'[c] = recovery[c]
      BY <1>2, <1>4, <2>2, <3>1, <3>2 DEF WorkSound
    <3>3. CASE Rests /\ recovery'[c] # recovery[c]
      <4>1. tab'.course = c /\ tab'.doc # NoDoc /\ recovery'[c].doc = tab'.doc
        BY <1>1, <3>3, CopiesAfter DEF Rests
      <4>2. tab.course = c /\ tab.doc = tab'.doc
        BY <3>3, <4>1 DEF Rests
      <4>3. QED  BY <1>2, <1>4, <2>2, <3>1, <4>1, <4>2 DEF WorkSound
    <3>4. CASE Cleans
      <4>1. CASE tab.course = c
        BY <1>2, <1>4, <2>2, <3>1, <3>4, <4>1 DEF Cleans, WorkSound
      <4>2. CASE tab.course # c
        BY <1>1, <3>2, <3>4, <4>2 DEF Cleans
      <4>3. QED  BY <4>1, <4>2
    <3>5. CASE OpenLand
      <4>1. CASE opening.course = c
        BY <1>1, <1>4, <3>2, <3>5, <4>1, OpenLandFacts
      <4>2. CASE opening.course # c
        BY <1>1, <3>2, <3>5, <4>2, OpenLandFacts
      <4>3. QED  BY <4>1, <4>2
    <3>6. CASE Logout \/ ClosePage
      BY <3>2, <3>6 DEF Logout, ClosePage
    <3>7. QED  BY <1>1, <1>4, <3>2, <3>3, <3>4, <3>5, <3>6, PageSteps
  <2>3. QED  BY <2>1, <2>2
<1>5. CASE work'[c] # work[c] /\ ~Changes
  <2>1. \E e \in Courses : work' = [work EXCEPT ![e] = NoDoc]
    BY <1>1, <1>5, PageSteps, OpenLandFacts DEF Rests, Cleans, Logout, ClosePage
  <2>2. QED  BY <1>1, <1>5, <2>1
<1>6. QED  BY <1>3, <1>4, <1>5

\* No step of the page, no failure and no closed tab loses the author's last
\* edit, but the arrival of a restored or reloaded draft (saveCrashRecovery,
\* openCourse).
THEOREM EditsAreKept == SaveSizes /\ RestoredHere => (SaveSpec => WorkKept)
<1> SUFFICES ASSUME SaveSizes, RestoredHere PROVE SaveSpec => WorkKept
  OBVIOUS
<1>1. SaveInit => Base /\ WorkInv
  BY BaseInit, WorkInit
<1>2. Base /\ WorkInv /\ [SaveNext]_saveVars => (Base /\ WorkInv)'
  BY BaseHolds, WorkKeptInv
<1>3. Base /\ WorkInv /\ [SaveNext]_saveVars => [WorkKeptStep]_saveVars
  BY WorkStep
<1>4. QED  BY <1>1, <1>2, <1>3, PTL DEF SaveSpec, WorkKept

\* ---------------------------------------------------- drafts of other browsers
\* Revision r of course c is known to who has seen the revisions up to seen: he
\* stored it, has seen it, or has taken his own copy back.
FreshIn(s, c, r, seen, recovered) ==
  /\ r \in DOMAIN s[c]
  /\ s[c][r].by = "elsewhere" => recovered \/ r <= seen

\* The revision that the page has, and the one that a save replaces, are known.
FreshInv ==
  /\ tab.course \in Courses => FreshIn(server, tab.course, tab.rev, tab.seen, tab.recovered)
  /\ save.pc = "sent" => FreshIn(server, save.course, save.rev, save.seen, save.recovered)

\* A page that has seen the newest foreign revision has seen it later.
LEMMA FreshStays ==
  ASSUME Grows, NEW c \in Courses, NEW r, NEW seen, NEW recovered,
         FreshIn(server, c, r, seen, recovered)
  PROVE  FreshIn(server', c, r, seen, recovered)
BY DEF Grows, FreshIn

\* The page has a revision it knows, while nothing is published.
LEMMA TabFresh ==
  SaveSizes /\ MaxReviews = 0 /\ Base /\ FreshInv /\ [SaveNext]_saveVars =>
    (tab'.course \in Courses => FreshIn(server', tab'.course, tab'.rev, tab'.seen, tab'.recovered))
<1> SUFFICES ASSUME SaveSizes, MaxReviews = 0, Base, FreshInv, [SaveNext]_saveVars,
                    NEW c \in Courses, tab'.course = c
             PROVE  FreshIn(server', c, tab'.rev, tab'.seen, tab'.recovered)
  OBVIOUS
<1>1. PageTypes /\ Grows /\ pub.pc = "idle" /\ restoring.pc = "idle"
  BY ServerGrows DEF Base, Begins, NoRestore
<1>2. CASE /\ tab.course = c /\ tab'.rev = tab.rev
           /\ tab'.seen = tab.seen /\ tab'.recovered = tab.recovered
  <2>1. FreshIn(server, c, tab.rev, tab.seen, tab.recovered)
    BY <1>2 DEF FreshInv
  <2>2. QED  BY <1>1, <1>2, <2>1, FreshStays
<1>3. ASSUME NEW r, NEW d, Stands(c, r, d), tab'.rev = r,
             \/ server[c][r].by = "here"
             \/ tab'.recovered
             \/ r <= tab'.seen
      PROVE  FreshIn(server', c, tab'.rev, tab'.seen, tab'.recovered)
  <2>1. FreshIn(server, c, r, tab'.seen, tab'.recovered)
    BY <1>3 DEF Stands, StandsIn, FreshIn
  <2>2. QED  BY <1>1, <1>3, <2>1, FreshStays
<1>4. CASE SameWord(tab, tab')
  BY <1>2, <1>4 DEF SameWord
<1>5. CASE /\ SaveLand /\ save.pc = "saved" /\ tab.course = save.course
           /\ tab'.course = tab.course /\ tab'.rev = save.rev + 1
  <2>1. /\ Stands(c, save.rev + 1, save.doc) /\ server[c][save.rev + 1].by = "here"
    BY <1>5 DEF Base, AnswersStand
  <2>2. QED  BY <1>3, <1>5, <2>1
<1>6. CASE OpenLand
  <2>1. /\ opening.pc = "read" /\ opening.course = c /\ tab'.rev = opening.rev
        /\ tab'.recovered = TRUE \/ tab'.seen >= opening.rev
    BY <1>1, <1>6, OpenLandFacts
  <2>2. Stands(c, opening.rev, opening.doc)
    BY <2>1 DEF Base, AnswersStand
  <2>3. tab'.recovered = TRUE \/ opening.rev <= tab'.seen
    <3>1. PageTypes'
      BY <1>1, TypesKept
    <3>2. opening.rev \in Nat /\ tab'.seen \in Nat
      BY <1>1, <3>1 DEF PageTypes, OpeningSound, Opening, TabSound, Tab
    <3>3. QED  BY <2>1, <3>2
  <2>4. QED  BY <1>3, <2>1, <2>2, <2>3
<1>7. ~RestoreLand
  BY <1>1 DEF RestoreLand
<1>8. CASE Logout
  BY <1>1, <1>2, <1>8, LogoutFacts
<1>9. CASE tab' = NoTab
  BY <1>9 DEF NoTab, SaveSizes
<1>10. QED  BY <1>1, <1>4, <1>5, <1>6, <1>7, <1>8, <1>9, TabSteps

\* Every step keeps it.
LEMMA FreshKept ==
  SaveSizes /\ MaxReviews = 0 /\ Base /\ FreshInv /\ [SaveNext]_saveVars => FreshInv'
<1> SUFFICES ASSUME SaveSizes, MaxReviews = 0, Base, FreshInv, [SaveNext]_saveVars
             PROVE  FreshInv'
  OBVIOUS
<1>1. PageTypes /\ PageTypes' /\ Grows
  BY ServerGrows, TypesKept DEF Base
<1>2. tab'.course \in Courses => FreshIn(server', tab'.course, tab'.rev, tab'.seen, tab'.recovered)
  BY TabFresh
<1>3. ASSUME save'.pc = "sent"
      PROVE  FreshIn(server', save'.course, save'.rev, save'.seen, save'.recovered)
  <2>1. CASE save' = save
    <3>1. /\ save.course \in Courses
          /\ FreshIn(server, save.course, save.rev, save.seen, save.recovered)
      BY <1>1, <1>3, <2>1 DEF FreshInv, PageTypes, SaveSound
    <3>2. QED  BY <1>1, <2>1, <3>1, FreshStays
  <2>2. CASE SaveCommit
    <3>1. save \in Save
      BY <1>1 DEF PageTypes, SaveSound
    <3>2. save'.pc \in {"saved", "conflict"}
      BY <2>2, <3>1 DEF SaveCommit, Save
    <3>3. QED  BY <1>3, <3>2
  <2>3. CASE Dirty(tab') /\ save' = Begun(tab')
    <3>1. /\ tab'.course \in Courses /\ save'.course = tab'.course /\ save'.rev = tab'.rev
          /\ save'.seen = tab'.seen /\ save'.recovered = tab'.recovered
      <4>1. PICK t : t = tab' /\ TabSound(t) /\ Dirty(t)
        BY <1>1, <2>3 DEF PageTypes
      <4>2. QED  BY <2>3, <4>1, BegunSound
    <3>2. QED  BY <1>2, <3>1
  <2>4. QED  BY <1>1, <1>3, <2>1, <2>2, <2>3, SaveSteps
<1>4. QED  BY <1>2, <1>3 DEF FreshInv

\* It holds at the start.
LEMMA FreshInit == SaveSizes /\ SaveInit => FreshInv
<1> SUFFICES ASSUME SaveSizes, SaveInit PROVE FreshInv
  OBVIOUS
<1>1. tab.course = NoCourse /\ save.pc = "idle"
  BY DEF SaveInit, NoTab, NoSave
<1>2. QED  BY <1>1 DEF FreshInv, SaveSizes

\* From such a state, no save replaces an unseen draft.
LEMMA OverwriteStep == SaveSizes /\ Base /\ FreshInv /\ [SaveNext]_saveVars => NoUnseenOverwriteStep
<1> SUFFICES ASSUME SaveSizes, Base, FreshInv, SaveCommit, server' # server,
                    Last(server[save.course]).by = "elsewhere",
                    Len(server[save.course]) > save.seen
             PROVE  save.recovered
  BY DEF NoUnseenOverwriteStep, Overwrites
<1>1. /\ save.pc = "sent" /\ save.course \in Courses /\ save \in Save
      /\ Len(server[save.course]) = save.rev /\ ServerSound
  BY DEF SaveCommit, Base, PageTypes, SaveSound
<1>2. FreshIn(server, save.course, save.rev, save.seen, save.recovered)
  BY <1>1 DEF FreshInv
<1>3. Last(server[save.course]) = server[save.course][save.rev]
  BY <1>1, LastVersion
<1>4. save.recovered \/ save.rev <= save.seen
  BY <1>2, <1>3 DEF FreshIn
<1>5. save.rev \in Nat /\ save.seen \in Nat
  BY <1>1 DEF Save
<1>6. QED  BY <1>1, <1>4, <1>5

\* A save replaces no draft of another browser that was never shown here,
\* except from a recovery copy the author took back (performSaveDraft, the
\* compare-and-swap on the revision), while nothing is published: a version
\* that is restored, or a publication, puts a revision into the page that the
\* page has not opened (restoreVersion, submitReviewedPublication).
THEOREM NothingUnseenIsReplaced ==
  SaveSizes /\ MaxReviews = 0 => (SaveSpec => NoUnseenOverwrite)
<1> SUFFICES ASSUME SaveSizes, MaxReviews = 0 PROVE SaveSpec => NoUnseenOverwrite
  OBVIOUS
<1>1. SaveInit => Base /\ FreshInv
  BY BaseInit, FreshInit
<1>2. Base /\ FreshInv /\ [SaveNext]_saveVars => (Base /\ FreshInv)'
  BY BaseHolds, FreshKept
<1>3. Base /\ FreshInv /\ [SaveNext]_saveVars => [NoUnseenOverwriteStep]_saveVars
  BY OverwriteStep
<1>4. QED  BY <1>1, <1>2, <1>3, PTL DEF SaveSpec, NoUnseenOverwrite

-----------------------------------------------------------------------------
(* The videos that are uploaded (StagedUpload).                            *)

\* A chapter's uploads, which run under its lock; the names of the tabs and
\* files are not those of what stands for none.
Sizes ==
  /\ Chapter = TRUE
  /\ VideoParts \in Nat \ {0} /\ MaxRevision \in Nat \ {0}
  /\ MaxUploads \in Nat /\ MaxFaults \in Nat /\ MaxSlots \in Nat
  /\ NoOne \notin Tabs /\ "none" \notin Files

(***************************************************************************)
(* Where a call is, and the types of the variables.                        *)
(***************************************************************************)
\* What a call does, and where it is.
Modes == {"none", "run", "restart", "inspect"}
\* Uploading itself.
Working == {"reading", "deciding", "planning", "executing"}
\* A call that uploads.
Uploading == {"preparing", "reserving", "reserved", "denied"} \cup Working
\* Where a call is.
Pcs == {"idle", "asking", "listing", "examining", "loading", "inspecting"} \cup Uploading

\* A call of an uploader.
UploadCall == [pc: Pcs, mode: Modes, rev: 0 .. MaxRevision, key: Slots, current: BOOLEAN,
         file: Files \cup {"none"}, paused: BOOLEAN, rec: Record \cup {NoRecord},
         remote: Upload \cup {NoRecord}, op: Op \cup {NoOp}, left: SUBSET Slots]

\* The types of all variables.
Types ==
  /\ draft \in Revisions
  /\ storage \in [Slots -> Record \cup {NoRecord}]
  /\ lock \in Tabs \cup {NoOne}
  /\ panel \in [Tabs -> [rev: Revisions, key: Slots, staged: 0 .. NoStaged]]
  /\ run \in [Tabs -> UploadCall]
  /\ up \in Seq(Upload) /\ Len(up) <= MaxUploads
  /\ forgot \subseteq Ids
  /\ faults \in Nat

\* A call past the lock holds it.
Active(t) == run[t].pc \notin {"idle", "asking"}
LockSound == \A t \in Tabs : Active(t) <=> lock = t

\* What the service has of a record's upload is of the file the record names.
Content(rec, ups) ==
  /\ Matches(rec, ups[rec.id])
  /\ rec.state = "staged" => AllStored(ups[rec.id].files)

\* No two records name one upload, and what they say of it is so.
SlotsSound ==
  /\ \A s \in Slots :
       /\ storage[s].id <= Len(up)
       /\ storage[s].state = "staged" => storage[s].id # 0
       /\ storage[s].id # 0 => Content(storage[s], up)
  /\ \A s, r \in Slots : storage[s].id = storage[r].id /\ storage[s].id # 0 => s = r

\* A stored file has all its parts, and an operation is the next one.
UploadSound(u) ==
  /\ \A k \in Kinds : Len(u.files[k].parts) <= PartsOf(k)
                      /\ (u.files[k].stored => Len(u.files[k].parts) = PartsOf(k))
  /\ u.op # NoOp =>
       LET f == u.files[u.op.kind]
       IN  /\ ~f.stored
           /\ u.op.action = "upload_part" => Len(f.parts) < PartsOf(u.op.kind)
           /\ u.op.action = "complete_multipart" => Len(f.parts) = PartsOf(u.op.kind)

\* The same of every upload.
UploadsSound == \A i \in DOMAIN up : UploadSound(up[i])

\* The record a call works on is its own.
Owns(key, rec) ==
  /\ rec.id \in DOMAIN up
  /\ storage[key].id \in {0, rec.id}
  /\ storage[key].id = rec.id => storage[key].file = rec.file
  /\ \A s \in Slots \ {key} : storage[s].id # rec.id
  /\ Content(rec, up)

\* What a call read of its upload's bytes is still so.
Knows(r) == r.remote \in Upload /\ r.remote.files = up[r.rec.id].files

\* A call, from its start to its end.
CallSound(r) ==
  /\ r.pc # "idle" => r.rev \in Revisions /\ r.mode # "none"
  /\ r.pc \in {"listing", "examining"} => r.mode = "restart"
  /\ r.pc \in {"loading", "inspecting"} => r.mode = "inspect"
  /\ r.pc \in Uploading => r.mode \in {"run", "restart"}
  /\ r.mode \in {"run", "restart"} => r.file \in Files
  /\ r.pc \in {"reserving", "denied"} =>
       r.rec = [id |-> 0, draft |-> r.rev, file |-> r.file, state |-> "reservation_unconfirmed"]
  /\ r.pc = "reserved" =>
       r.rec = [id |-> r.rec.id, draft |-> r.rev, file |-> r.file, state |-> "reservation_unconfirmed"]
  /\ r.pc \in {"reserving", "denied", "reserved"} => storage[r.key].id = 0
  /\ r.pc \in {"reserved", "inspecting"} \cup Working => Owns(r.key, r.rec)
  /\ r.pc \in Working => r.rec.file = r.file
  /\ r.pc \in {"deciding", "planning", "inspecting"} => Knows(r)
  /\ r.pc = "planning" => ~AllStored(r.remote.files)
  /\ r.pc = "executing" => r.op # NoOp

\* The same of every call.
CallsSound == \A t \in Tabs : CallSound(run[t])

\* The inductive invariant of what records say.
Inv == Types /\ LockSound /\ SlotsSound /\ UploadsSound /\ CallsSound

(***************************************************************************)
(* Steps of one tab, and what they leave to the others.                    *)
(***************************************************************************)
\* A call that is over is one in which nothing can be wrong.
LEMMA IdleSound == Sizes => Idle \in UploadCall /\ CallSound(Idle) /\ CallSound(Idle)'
BY DEF Sizes, Idle, UploadCall, Pcs, Modes, Uploading, Working, CallSound, Slots

\* A tab that is not under the lock knows nothing of the records.
LEMMA OutsideSound ==
  ASSUME NEW r \in UploadCall, r.pc \in {"idle", "asking"}, CallSound(r)
  PROVE  CallSound(r)'
BY DEF CallSound, Uploading, Working

\* A step of one tab: its call is x now, and it took, kept or left the lock.
LEMMA OneTab ==
  ASSUME NEW t \in Tabs, NEW x \in UploadCall, Sizes, Types, LockSound, CallsSound,
         run' = [run EXCEPT ![t] = x], lock = t \/ UNCHANGED <<storage, up>>,
         (lock' = t) <=> x.pc \notin {"idle", "asking"},
         lock' = lock \/ (lock \in {t, NoOne} /\ lock' \in {t, NoOne}),
         CallSound(x)'
  PROVE  run' \in [Tabs -> UploadCall] /\ lock' \in Tabs \cup {NoOne} /\ LockSound' /\ CallsSound'
<1>1. run' \in [Tabs -> UploadCall] /\ lock' \in Tabs \cup {NoOne}
  BY DEF Types
<1>2. run'[t] = x /\ \A u \in Tabs \ {t} : run'[u] = run[u]
  BY DEF Types
<1>3. LockSound'
  BY <1>2 DEF LockSound, Active, Sizes
<1>4. ASSUME NEW u \in Tabs PROVE CallSound(run[u])'
  <2>1. CASE u = t
    BY <1>2, <2>1
  <2>2. CASE u # t /\ lock = t
    <3>1. run[u] \in UploadCall /\ run[u].pc \in {"idle", "asking"} /\ CallSound(run[u]) /\ run'[u] = run[u]
      BY <1>2, <2>2 DEF Types, LockSound, Active, CallsSound
    <3>2. QED  BY <3>1, OutsideSound
  <2>3. CASE u # t /\ UNCHANGED <<storage, up>>
    <3>1. run'[u] = run[u] /\ CallSound(run[u])
      BY <1>2, <2>3 DEF CallsSound
    <3>2. QED  BY <3>1, <2>3 DEF CallSound, Owns, Knows, Content
  <2>4. QED  BY <2>1, <2>2, <2>3
<1>5. QED  BY <1>1, <1>3, <1>4 DEF CallsSound

\* A tab leaves: its call is over and the lock free, if it was its.
LEMMA Leaves ==
  ASSUME NEW t \in Tabs, Sizes, Types, LockSound, CallsSound, Leave(t),
         lock = t \/ UNCHANGED <<storage, up>>
  PROVE  run' \in [Tabs -> UploadCall] /\ lock' \in Tabs \cup {NoOne} /\ LockSound' /\ CallsSound'
<1>1. run' = [run EXCEPT ![t] = Idle] /\ Idle.pc = "idle"
  BY DEF Leave, Idle
<1>2. lock' # t /\ (lock' = lock \/ (lock = t /\ lock' = NoOne))
  BY DEF Leave, Freed, Sizes
<1>3. QED  BY <1>1, <1>2, IdleSound, OneTab

\* The service's uploads are typed one by one.
LEMMA OneUpload ==
  ASSUME NEW i \in DOMAIN up, NEW u \in Upload, Types, up' = [up EXCEPT ![i] = u]
  PROVE  /\ up' \in Seq(Upload) /\ Len(up') = Len(up) /\ DOMAIN up' = DOMAIN up
         /\ up'[i] = u /\ \A j \in DOMAIN up \ {i} : up'[j] = up[j]
<1>1. DOMAIN up = 1 .. Len(up)
  BY LenProperties DEF Types
<1>2. QED  BY <1>1, ExceptSeq, LenProperties DEF Types

\* The uploads are typed, one by one.
LEMMA TheUpload ==
  ASSUME Types
  PROVE  /\ Len(up) \in Nat /\ DOMAIN up = 1 .. Len(up)
         /\ \A i \in DOMAIN up : up[i] \in Upload
BY LenProperties, ElementOfSeq DEF Types

\* Two records of one upload that name one file say the same of its bytes.
LEMMA SameContent ==
  ASSUME NEW rec \in Record, NEW state, NEW ups, Content(rec, ups),
         state = "staged" => AllStored(ups[rec.id].files)
  PROVE  Content([rec EXCEPT !.state = state], ups)
BY DEF Content, Matches, Record

\* The service's upload i is served, and what was said of its bytes for the
\* file f still holds.
Served(i, f, ups) ==
  /\ ups \in Seq(Upload) /\ Len(ups) = Len(up)
  /\ \A j \in DOMAIN up \ {i} : ups[j] = up[j]
  /\ \A q \in Record : q.id = i /\ q.file = f /\ Content(q, up) => Content(q, ups)

\* A step that leaves the service alone serves whatever it served.
LEMMA ServedSame ==
  ASSUME Types, UNCHANGED up, NEW i, NEW f
  PROVE  Served(i, f, up')
BY DEF Served, Types

\* A call that owns a slot's upload writes the slot, or leaves it as it is.
LEMMA Puts ==
  ASSUME Sizes, Inv, NEW k \in Slots, NEW own, Owns(k, own), NEW rec \in Record,
         rec.id = own.id, storage' = [storage EXCEPT ![k] = rec],
         Content(rec, up'), Served(own.id, own.file, up')
  PROVE  storage' \in [Slots -> Record \cup {NoRecord}] /\ SlotsSound'
<1>1. /\ storage' \in [Slots -> Record \cup {NoRecord}]
      /\ storage'[k] = rec /\ \A s \in Slots \ {k} : storage'[s] = storage[s]
  BY DEF Inv, Types
<1>2. rec.id \in 1 .. Len(up) /\ Len(up') = Len(up) /\ Len(up) \in Nat /\ DOMAIN up = 1 .. Len(up)
  BY TheUpload DEF Inv, Owns, Served
<1>3. \A s \in Slots \ {k} : storage[s].id # rec.id
  BY DEF Owns
<1>4. ASSUME NEW s \in Slots
      PROVE  /\ storage'[s].id <= Len(up')
             /\ storage'[s].state = "staged" => storage'[s].id # 0
             /\ storage'[s].id # 0 => Content(storage'[s], up')
  <2>1. CASE s = k
    BY <1>1, <1>2, <2>1
  <2>2. CASE s # k /\ storage[s].id = 0
    BY <1>1, <1>2, <2>2 DEF Inv, SlotsSound
  <2>3. CASE s # k /\ storage[s].id # 0
    <3>1. storage'[s] = storage[s] /\ storage[s].id <= Len(up) /\ Content(storage[s], up)
      BY <1>1, <2>3 DEF Inv, SlotsSound
    <3>2. storage[s].id \in DOMAIN up \ {rec.id}
      BY <1>2, <1>3, <2>3, <3>1 DEF Inv, Types, Record, NoRecord
    <3>3. up'[storage[s].id] = up[storage[s].id]
      BY <3>2 DEF Served
    <3>4. QED  BY <1>2, <2>3, <3>1, <3>3 DEF Content
  <2>4. QED  BY <2>1, <2>2, <2>3
<1>5. \A s, r \in Slots : storage'[s].id = storage'[r].id /\ storage'[s].id # 0 => s = r
  BY <1>1, <1>3 DEF Inv, SlotsSound
<1>6. QED  BY <1>1, <1>4, <1>5 DEF SlotsSound

\* A call that owns a slot's upload leaves the slot as it is.
LEMMA Keeps ==
  ASSUME Sizes, Inv, NEW k \in Slots, NEW own, Owns(k, own), UNCHANGED storage,
         Served(own.id, own.file, up')
  PROVE  SlotsSound'
<1>1. Len(up') = Len(up)
  BY DEF Served
<1>2. ASSUME NEW s \in Slots, storage[s].id # 0 PROVE Content(storage[s], up')
  <2>1. storage[s] \in Record /\ storage[s].id \in DOMAIN up /\ Content(storage[s], up)
    BY <1>2, TheUpload DEF Inv, SlotsSound, Types, Record, NoRecord
  <2>2. CASE storage[s].id # own.id
    BY <2>1, <2>2 DEF Served, Content
  <2>3. CASE storage[s].id = own.id
    BY <2>1, <2>3 DEF Owns, Served
  <2>4. QED  BY <2>2, <2>3
<1>3. QED  BY <1>1, <1>2 DEF Inv, SlotsSound

\* A slot that is cleared.
LEMMA Clears ==
  ASSUME Sizes, Inv, NEW k \in Slots, storage' = [storage EXCEPT ![k] = NoRecord], UNCHANGED up
  PROVE  /\ storage' \in [Slots -> Record \cup {NoRecord}] /\ SlotsSound'
         /\ storage'[k] = NoRecord /\ \A s \in Slots \ {k} : storage'[s] = storage[s]
<1>1. /\ storage' \in [Slots -> Record \cup {NoRecord}]
      /\ storage'[k] = NoRecord /\ \A s \in Slots \ {k} : storage'[s] = storage[s]
  BY DEF Inv, Types
<1>2. NoRecord.id = 0 /\ NoRecord.state = "none" /\ Len(up) \in Nat
  BY TheUpload DEF NoRecord, Inv
<1>3. QED  BY <1>1, <1>2 DEF Inv, SlotsSound

\* The upload of a slot's record is the slot's own.
LEMMA OwnSlot ==
  ASSUME Inv, NEW k \in Slots, storage[k].id # 0
  PROVE  storage[k] \in Record /\ Owns(k, storage[k])
<1>1. storage[k] \in Record /\ storage[k].id \in DOMAIN up
  BY TheUpload DEF Inv, Types, SlotsSound, Record, NoRecord
<1>2. QED  BY <1>1 DEF Inv, SlotsSound, Owns

\* The record of a call under way.
LEMMA OwnCall ==
  ASSUME NEW t \in Tabs, Inv, run[t].pc \in {"reserved", "inspecting"} \cup Working
  PROVE  /\ run[t] \in UploadCall /\ run[t].key \in Slots /\ run[t].rec \in Record
         /\ run[t].rec.id \in DOMAIN up /\ Owns(run[t].key, run[t].rec)
         /\ Content(run[t].rec, up) /\ lock = t
<1>1. run[t] \in UploadCall /\ CallSound(run[t]) /\ lock = t
  BY DEF Inv, Types, CallsSound, LockSound, Active, Working
<1>2. Owns(run[t].key, run[t].rec) /\ run[t].rec.id \in 1 .. Len(up) /\ run[t].rec.id \in DOMAIN up
  BY <1>1, TheUpload DEF CallSound, Owns, Inv
<1>3. QED  BY <1>1, <1>2 DEF UploadCall, NoRecord, Owns

\* A call that stops keeps its record as paused.
LEMMA Stops ==
  ASSUME NEW t \in Tabs, Sizes, Inv, run[t].key \in Slots, NEW rec \in Record,
         Owns(run[t].key, rec), Stop(t, rec), Served(rec.id, rec.file, up')
  PROVE  storage' \in [Slots -> Record \cup {NoRecord}] /\ SlotsSound'
<1>1. Content(rec, up') /\ rec.id # 0
  BY TheUpload DEF Inv, Owns, Served
<1>2. CASE rec.state # "blocked"
  <2> DEFINE new == [rec EXCEPT !.state = "paused"]
  <2>1. new \in Record /\ new.id = rec.id /\ Content(new, up')
    BY <1>1, SameContent DEF Record
  <2>2. storage' = [storage EXCEPT ![run[t].key] = new]
    BY <1>1, <1>2 DEF Stop
  <2>3. QED  BY <2>1, <2>2, Puts
<1>3. CASE rec.state = "blocked"
  <2>1. UNCHANGED storage
    BY <1>3 DEF Stop
  <2>2. QED  BY <2>1, Keeps DEF Inv, Types
<1>4. QED  BY <1>2, <1>3

(***************************************************************************)
(* The steps of the author.                                                *)
(***************************************************************************)
\* A panel that is refreshed is typed.
LEMMA Refreshes ==
  ASSUME NEW t \in Tabs, NEW rev \in Revisions, Sizes, Types, Refreshed(t, rev)
  PROVE  panel' \in [Tabs -> [rev: Revisions, key: Slots, staged: 0 .. NoStaged]]
<1>1. KeyFor(rev) \in Slots /\ Slots \subseteq 0 .. NoStaged
  BY DEF KeyFor, Slots, Revisions, NoStaged, Sizes
<1>2. StageOf(storage[KeyFor(rev)], rev, KeyFor(rev), panel[t].staged) \in 0 .. NoStaged
  BY <1>1 DEF StageOf, NoStaged, Sizes, Types
<1>3. QED  BY <1>1, <1>2 DEF Refreshed, Types

\* A new context detaches the call in progress.
LEMMA Detaches ==
  ASSUME NEW t \in Tabs, Sizes, Inv, UNCHANGED <<storage, up, lock>>,
         run' = [run EXCEPT ![t] = IF @.pc = "idle" THEN @ ELSE Detached(t)]
  PROVE  run' \in [Tabs -> UploadCall] /\ LockSound' /\ CallsSound'
<1>1. PICK x : x = IF run[t].pc = "idle" THEN run[t] ELSE Detached(t)
  OBVIOUS
<1>2. run[t] \in UploadCall /\ CallSound(run[t])
  BY DEF Inv, Types, CallsSound
<1>3. x \in UploadCall /\ x.pc = run[t].pc
  BY <1>1, <1>2 DEF Detached, UploadCall
<1>4. CallSound(x)'
  BY <1>1, <1>2 DEF Detached, UploadCall, CallSound, Owns, Knows, Content
<1>5. run' = [run EXCEPT ![t] = x]
  BY <1>1 DEF Inv, Types
<1>6. (lock' = t) <=> x.pc \notin {"idle", "asking"}
  BY <1>3 DEF Inv, LockSound, Active
<1>7. QED  BY <1>3, <1>4, <1>5, <1>6, OneTab DEF Inv

\* The author saves.
LEMMA SaveDraftInv == ASSUME NEW t \in Tabs, Sizes, Inv, SaveDraft(t) PROVE Inv'
<1>1. draft' \in Revisions /\ Refreshed(t, draft')
  BY DEF SaveDraft, Inv, Types, Revisions, Sizes
<1>2. panel' \in [Tabs -> [rev: Revisions, key: Slots, staged: 0 .. NoStaged]]
  BY <1>1, Refreshes DEF Inv
<1>3. run' \in [Tabs -> UploadCall] /\ LockSound' /\ CallsSound'
  BY Detaches DEF SaveDraft
<1>4. QED
  BY <1>1, <1>2, <1>3 DEF SaveDraft, Inv, Types, SlotsSound, UploadsSound

\* A tab opens the course again.
LEMMA ReopenInv == ASSUME NEW t \in Tabs, Sizes, Inv, Reopen(t) PROVE Inv'
<1>1. panel' \in [Tabs -> [rev: Revisions, key: Slots, staged: 0 .. NoStaged]]
  BY Refreshes DEF Reopen, Inv, Types
<1>2. run' \in [Tabs -> UploadCall] /\ LockSound' /\ CallsSound'
  BY Detaches DEF Reopen
<1>3. QED
  BY <1>1, <1>2 DEF Reopen, Inv, Types, SlotsSound, UploadsSound

\* A call that begins asks for the lock.
LEMMA Asks ==
  ASSUME NEW t \in Tabs, NEW x \in UploadCall, Sizes, Inv,
         x.pc = "asking" /\ x.mode # "none" /\ x.rev \in Revisions,
         x.mode \in {"run", "restart"} => x.file \in Files,
         run[t].pc = "idle", run' = [run EXCEPT ![t] = x],
         UNCHANGED <<draft, storage, lock, panel, up, forgot, faults>>
  PROVE  Inv'
<1>1. CallSound(x)'
  BY DEF CallSound, Uploading, Working
<1>2. (lock' = t) <=> x.pc \notin {"idle", "asking"}
  BY DEF Inv, LockSound, Active
<1>3. run' \in [Tabs -> UploadCall] /\ LockSound' /\ CallsSound'
  BY <1>1, <1>2, OneTab DEF Inv
<1>4. QED  BY <1>3 DEF Inv, Types, SlotsSound, UploadsSound

\* The author selects a video.
LEMMA SelectInv == ASSUME NEW t \in Tabs, NEW f \in Files, Sizes, Inv, Select(t, f) PROVE Inv'
<1> DEFINE restart == Chapter /\ storage[panel[t].key] # NoRecord
                      /\ storage[panel[t].key].draft # panel[t].rev
<1>1. PICK x : x = [Idle EXCEPT !.pc = IF Chapter THEN "asking" ELSE "preparing",
                                !.mode = IF restart THEN "restart" ELSE "run",
                                !.rev = panel[t].rev, !.key = panel[t].key,
                                !.current = TRUE, !.file = f]
  OBVIOUS
<1>2. panel[t].rev \in Revisions /\ panel[t].rev \in 0 .. MaxRevision /\ panel[t].key \in Slots
  BY DEF Sizes, Inv, Types, Revisions
<1>3. Idle \in UploadCall
  BY IdleSound
<1>4. /\ x \in UploadCall /\ x.pc = "asking" /\ x.mode \in {"run", "restart"}
      /\ x.rev = panel[t].rev /\ x.file = f
  BY <1>1, <1>2, <1>3, ZenonT(40) DEF UploadCall, Pcs, Modes, Sizes
<1>5. run' = [run EXCEPT ![t] = x]
  BY <1>1 DEF Select
<1>6. QED  BY <1>2, <1>4, <1>5, Asks DEF Select

\* The author asks for a check.
LEMMA CheckInv == ASSUME NEW t \in Tabs, Sizes, Inv, Check(t) PROVE Inv'
<1>1. PICK x : x = [Idle EXCEPT !.pc = IF Chapter THEN "asking" ELSE "loading",
                                !.mode = "inspect", !.rev = panel[t].rev,
                                !.key = panel[t].key, !.current = TRUE]
  OBVIOUS
<1>2. panel[t].rev \in Revisions /\ panel[t].rev \in 0 .. MaxRevision /\ panel[t].key \in Slots
  BY DEF Sizes, Inv, Types, Revisions
<1>3. Idle \in UploadCall
  BY IdleSound
<1>4. /\ x \in UploadCall /\ x.pc = "asking" /\ x.mode = "inspect"
      /\ x.rev = panel[t].rev
  BY <1>1, <1>2, <1>3, ZenonT(40) DEF UploadCall, Pcs, Modes, Sizes
<1>5. run' = [run EXCEPT ![t] = x]
  BY <1>1 DEF Check
<1>6. QED  BY <1>2, <1>4, <1>5, Asks DEF Check

\* The author pauses.
LEMMA PauseInv == ASSUME NEW t \in Tabs, Sizes, Inv, Pause(t) PROVE Inv'
<1>1. PICK x : x = [run[t] EXCEPT !.paused = TRUE]
  OBVIOUS
<1>2. run' = [run EXCEPT ![t] = x] /\ UNCHANGED <<draft, storage, lock, panel, up, forgot, faults>>
  BY <1>1 DEF Pause, Inv, Types
<1>3. run[t] \in UploadCall /\ CallSound(run[t])
  BY DEF Inv, Types, CallsSound
<1>4. x \in UploadCall /\ x.pc = run[t].pc
  BY <1>1, <1>3 DEF UploadCall
<1>5. CallSound(x)'
  BY <1>1, <1>2, <1>3 DEF UploadCall, CallSound, Owns, Knows, Content
<1>6. (lock' = t) <=> x.pc \notin {"idle", "asking"}
  BY <1>2, <1>4 DEF Inv, LockSound, Active
<1>7. run' \in [Tabs -> UploadCall] /\ LockSound' /\ CallsSound'
  BY <1>2, <1>4, <1>5, <1>6, OneTab DEF Inv
<1>8. QED  BY <1>2, <1>7 DEF Inv, Types, SlotsSound, UploadsSound

\* The author removes the video.
LEMMA RemoveVideoInv == ASSUME NEW t \in Tabs, Sizes, Inv, RemoveVideo(t) PROVE Inv'
<1> DEFINE rev == draft + 1
           key == KeyFor(rev)
           staged == StageOf(storage[key], rev, key, panel[t].staged)
           slot == IF staged # NoStaged THEN staged ELSE key
           again == IF storage'[rev] # NoRecord THEN rev ELSE 0
<1>1. rev \in Revisions /\ rev \in Slots /\ draft' = rev
  BY DEF RemoveVideo, Inv, Types, Revisions, Slots, Sizes
<1>2. key \in Slots
  BY <1>1 DEF KeyFor, Slots, Sizes
<1>3. slot \in Slots
  BY <1>2 DEF StageOf, NoStaged, Inv, Types, Slots, Sizes
<1>4. storage' = [storage EXCEPT ![slot] = NoRecord] /\ UNCHANGED <<lock, run, up, faults>>
  BY DEF RemoveVideo
<1>5. /\ storage' \in [Slots -> Record \cup {NoRecord}] /\ SlotsSound'
      /\ storage'[slot] = NoRecord /\ \A s \in Slots \ {slot} : storage'[s] = storage[s]
  BY <1>3, <1>4, Clears
<1>6. forgot' \subseteq Ids
  <2>1. storage[slot].id \in 0 .. MaxUploads
    BY <1>3 DEF Inv, Types, Record, NoRecord, Sizes
  <2>2. forgot' = forgot \cup ({storage[slot].id} \ {0})
    BY DEF RemoveVideo
  <2>3. storage[slot].id # 0 => storage[slot].id \in Ids
    BY <2>1 DEF Ids, Sizes
  <2>4. forgot \subseteq Ids
    BY DEF Inv, Types
  <2>5. QED  BY <2>2, <2>3, <2>4
<1>7. panel' \in [Tabs -> [rev: Revisions, key: Slots, staged: 0 .. NoStaged]]
  <2>1. again \in Slots
    BY <1>1 DEF Slots, Sizes
  <2>2. StageOf(storage'[again], rev, again, NoStaged) \in 0 .. NoStaged
    BY <2>1 DEF StageOf, NoStaged, Slots, Sizes
  <2>3. panel' = [panel EXCEPT ![t] =
          [rev |-> rev, key |-> again, staged |-> StageOf(storage'[again], rev, again, NoStaged)]]
    BY DEF RemoveVideo
  <2>4. QED  BY <1>1, <2>1, <2>2, <2>3 DEF Inv, Types
<1>8. ASSUME NEW u \in Tabs PROVE CallSound(run[u])'
  <2>1. run'[u] = run[u] /\ run[u] \in UploadCall /\ CallSound(run[u]) /\ NoRecord.id = 0
    BY <1>4 DEF Inv, Types, CallsSound, NoRecord
  <2>2. run[u].key \in Slots /\ DOMAIN up = 1 .. Len(up) /\ Len(up) \in Nat
    BY <2>1, TheUpload DEF UploadCall, Inv
  <2>3. Owns(run[u].key, run[u].rec) => Owns(run[u].key, run[u].rec)'
    BY <1>4, <1>5, <2>1, <2>2 DEF Owns
  <2>4. storage[run[u].key].id = 0 => storage'[run[u].key].id = 0
    BY <1>5, <2>1, <2>2
  <2>5. QED  BY <1>4, <2>1, <2>3, <2>4 DEF CallSound, Knows
<1>9. QED
  BY <1>1, <1>4, <1>5, <1>6, <1>7, <1>8 DEF Inv, Types, LockSound, Active, UploadsSound, CallsSound

(***************************************************************************)
(* The steps of a call.                                                    *)
(***************************************************************************)
\* Steps that change neither the slots nor the service, whose call goes on as x.
LEMMA GoesOn ==
  ASSUME NEW t \in Tabs, NEW x \in UploadCall, Sizes, Inv, run' = [run EXCEPT ![t] = x],
         CallSound(x), (lock' = t) <=> x.pc \notin {"idle", "asking"},
         lock' = lock \/ (lock \in {t, NoOne} /\ lock' \in {t, NoOne}),
         UNCHANGED <<draft, storage, up, forgot>>, faults' \in Nat,
         panel' \in [Tabs -> [rev: Revisions, key: Slots, staged: 0 .. NoStaged]]
  PROVE  Inv'
<1>1. CallSound(x)'
  BY DEF CallSound, Owns, Knows, Content
<1>2. run' \in [Tabs -> UploadCall] /\ lock' \in Tabs \cup {NoOne} /\ LockSound' /\ CallsSound'
  BY <1>1, OneTab DEF Inv
<1>3. QED  BY <1>2 DEF Inv, Types, SlotsSound, UploadsSound

\* Steps that change neither the slots nor the service, whose call is over.
LEMMA GoesAway ==
  ASSUME NEW t \in Tabs, Sizes, Inv, Leave(t),
         UNCHANGED <<draft, storage, up, forgot>>, faults' \in Nat,
         panel' \in [Tabs -> [rev: Revisions, key: Slots, staged: 0 .. NoStaged]]
  PROVE  Inv'
<1>1. run' \in [Tabs -> UploadCall] /\ lock' \in Tabs \cup {NoOne} /\ LockSound' /\ CallsSound'
  BY Leaves DEF Inv
<1>2. QED  BY <1>1 DEF Inv, Types, SlotsSound, UploadsSound

\* A call takes the lock or is refused.
LEMMA AskLockInv == ASSUME NEW t \in Tabs, Sizes, Inv, AskLock(t) PROVE Inv'
<1>1. /\ run[t] \in UploadCall /\ CallSound(run[t]) /\ run[t].pc = "asking"
      /\ UNCHANGED <<draft, storage, up, forgot, faults>> /\ faults' \in Nat
  BY DEF AskLock, Inv, Types, CallsSound
<1>2. CASE Leave(t) /\ UNCHANGED panel
  BY <1>1, <1>2, GoesAway DEF Inv, Types
<1>3. CASE ~(lock # NoOne \/ (run[t].paused /\ run[t].mode # "inspect"))
  <2>1. PICK key : key = IF run[t].mode = "run" /\ storage[run[t].rev] # NoRecord
                         THEN run[t].rev ELSE run[t].key
    OBVIOUS
  <2>2. PICK pc : pc = CASE run[t].mode = "run" -> "preparing"
                         [] run[t].mode = "inspect" -> "loading"
                         [] run[t].mode = "restart" -> "listing"
    OBVIOUS
  <2>3. PICK x : x = [run[t] EXCEPT !.pc = pc, !.key = key]
    OBVIOUS
  <2>4. run[t].rev \in Revisions /\ run[t].mode \in {"run", "inspect", "restart"}
    BY <1>1 DEF CallSound, UploadCall, Modes
  <2>5. key \in Slots
    BY <1>1, <2>1, <2>4 DEF UploadCall, Revisions, Slots, Sizes
  <2>6. /\ x \in UploadCall /\ x.pc \in {"preparing", "loading", "listing"}
        /\ x.mode = run[t].mode /\ x.rev = run[t].rev /\ x.file = run[t].file
        /\ x.pc = "preparing" <=> x.mode = "run"
        /\ x.pc = "loading" <=> x.mode = "inspect"
        /\ x.pc = "listing" <=> x.mode = "restart"
    BY <1>1, <2>2, <2>3, <2>4, <2>5 DEF UploadCall, Pcs, Uploading
  <2>7. CallSound(x)
    BY <1>1, <2>4, <2>6 DEF CallSound, Uploading, Working
  <2>8. /\ lock = NoOne /\ lock' = t /\ run' = [run EXCEPT ![t] = x]
        /\ panel' = IF run[t].current THEN [panel EXCEPT ![t].key = key] ELSE panel
    <3>1. /\ lock' = t /\ lock = NoOne
          /\ run' = [run EXCEPT ![t].pc = pc, ![t].key = key]
          /\ panel' = IF run[t].current THEN [panel EXCEPT ![t].key = key] ELSE panel
      BY <1>3, <2>1, <2>2 DEF AskLock
    <3>2. run' = [run EXCEPT ![t] = x]
      BY <2>3, <3>1 DEF Inv, Types
    <3>3. QED  BY <3>1, <3>2
  <2>9. panel' \in [Tabs -> [rev: Revisions, key: Slots, staged: 0 .. NoStaged]]
    BY <2>5, <2>8 DEF Inv, Types
  <2>10. QED  BY <1>1, <2>6, <2>7, <2>8, <2>9, GoesOn
<1>4. QED  BY <1>1, <1>2, <1>3 DEF AskLock

\* A restart lists the slots.
LEMMA ListSlotsInv == ASSUME NEW t \in Tabs, Sizes, Inv, ListSlots(t) PROVE Inv'
<1>1. /\ run[t] \in UploadCall /\ CallSound(run[t]) /\ run[t].pc = "listing" /\ lock = t
      /\ UNCHANGED <<draft, storage, panel, up, forgot, faults>> /\ faults' \in Nat
      /\ panel' \in [Tabs -> [rev: Revisions, key: Slots, staged: 0 .. NoStaged]]
  BY DEF ListSlots, Inv, Types, CallsSound, LockSound, Active
<1>2. CASE Leave(t)
  BY <1>1, <1>2, GoesAway
<1>3. CASE ~Leave(t)
  <2>1. PICK left : left = {s \in Slots : storage[s] # NoRecord}
    OBVIOUS
  <2>2. PICK x : x = [run[t] EXCEPT !.pc = "examining", !.left = left]
    OBVIOUS
  <2>3. x \in UploadCall /\ x.pc = "examining" /\ x.mode = run[t].mode /\ x.rev = run[t].rev
        /\ x.file = run[t].file
    BY <1>1, <2>1, <2>2 DEF UploadCall, Pcs
  <2>4. CallSound(x)
    BY <1>1, <2>3 DEF CallSound, Uploading, Working
  <2>5. run' = [run EXCEPT ![t] = x] /\ lock' = lock
    BY <1>3, <2>1, <2>2 DEF ListSlots, Inv, Types
  <2>6. QED  BY <1>1, <2>3, <2>4, <2>5, GoesOn
<1>4. QED  BY <1>2, <1>3

\* A restart examines a predecessor.
LEMMA ExamineInv == ASSUME NEW t \in Tabs, Sizes, Inv, Examine(t) PROVE Inv'
<1>1. /\ run[t] \in UploadCall /\ CallSound(run[t]) /\ run[t].pc = "examining" /\ lock = t
      /\ UNCHANGED <<draft, storage, panel, up, forgot, faults>> /\ faults' \in Nat
      /\ panel' \in [Tabs -> [rev: Revisions, key: Slots, staged: 0 .. NoStaged]]
  BY DEF Examine, Inv, Types, CallsSound, LockSound, Active
<1>2. CASE Leave(t)
  BY <1>1, <1>2, GoesAway
<1>3. ASSUME NEW s \in run[t].left, run' = [run EXCEPT ![t].left = @ \ {s}], UNCHANGED lock
      PROVE  Inv'
  <2>1. PICK x : x = [run[t] EXCEPT !.left = @ \ {s}]
    OBVIOUS
  <2>2. x \in UploadCall /\ x.pc = "examining" /\ x.mode = run[t].mode /\ x.rev = run[t].rev
        /\ x.file = run[t].file
    BY <1>1, <2>1 DEF UploadCall
  <2>3. CallSound(x)
    BY <1>1, <2>2 DEF CallSound, Uploading, Working
  <2>4. run' = [run EXCEPT ![t] = x]
    BY <1>3, <2>1 DEF Inv, Types
  <2>5. QED  BY <1>1, <1>3, <2>2, <2>3, <2>4, GoesOn
<1>4. CASE /\ run' = [run EXCEPT ![t].pc = "preparing", ![t].key = run[t].rev]
           /\ UNCHANGED lock
  <2>1. PICK x : x = [run[t] EXCEPT !.pc = "preparing", !.key = run[t].rev]
    OBVIOUS
  <2>2. run[t].rev \in Slots /\ run[t].mode = "restart"
    BY <1>1 DEF CallSound, Revisions, Slots, Sizes
  <2>3. x \in UploadCall /\ x.pc = "preparing" /\ x.mode = run[t].mode /\ x.rev = run[t].rev
        /\ x.file = run[t].file
    BY <1>1, <2>1, <2>2 DEF UploadCall, Pcs, Uploading
  <2>4. CallSound(x)
    BY <1>1, <2>2, <2>3 DEF CallSound, Uploading, Working
  <2>5. run' = [run EXCEPT ![t] = x]
    BY <1>4, <2>1 DEF Inv, Types
  <2>6. QED  BY <1>1, <1>4, <2>3, <2>4, <2>5, GoesOn
<1>5. QED  BY <1>2, <1>3, <1>4 DEF Examine

\* A call that ends by Stop, whatever the service did for it.
LEMMA StopsInv ==
  ASSUME NEW t \in Tabs, Sizes, Inv, lock = t, run[t].key \in Slots, NEW rec \in Record,
         Owns(run[t].key, rec), Stop(t, rec), Served(rec.id, rec.file, up'),
         UNCHANGED <<draft, forgot>>, UploadsSound', faults' \in Nat,
         panel' \in [Tabs -> [rev: Revisions, key: Slots, staged: 0 .. NoStaged]]
  PROVE  Inv'
<1>1. storage' \in [Slots -> Record \cup {NoRecord}] /\ SlotsSound'
  BY Stops
<1>2. Leave(t)
  BY DEF Stop
<1>3. run' \in [Tabs -> UploadCall] /\ lock' \in Tabs \cup {NoOne} /\ LockSound' /\ CallsSound'
  BY <1>2, Leaves DEF Inv
<1>4. up' \in Seq(Upload) /\ Len(up') <= MaxUploads
  BY DEF Served, Inv, Types
<1>5. QED  BY <1>1, <1>3, <1>4 DEF Inv, Types

\* A call that ends with its record in another state.
LEMMA SettlesInv ==
  ASSUME NEW t \in Tabs, Sizes, Inv, lock = t, run[t].key \in Slots, NEW rec \in Record,
         Owns(run[t].key, rec), NEW state \in {"paused", "blocked", "staged"},
         state = "staged" => AllStored(up[rec.id].files),
         Settle(t, [rec EXCEPT !.state = state]), UNCHANGED <<draft, up, forgot, faults>>,
         panel' \in [Tabs -> [rev: Revisions, key: Slots, staged: 0 .. NoStaged]]
  PROVE  Inv'
<1>1. [rec EXCEPT !.state = state] \in Record /\ [rec EXCEPT !.state = state].id = rec.id
  BY DEF Record
<1>2. Content([rec EXCEPT !.state = state], up)
  BY SameContent DEF Owns
<1>3. Content([rec EXCEPT !.state = state], up') /\ Served(rec.id, rec.file, up')
  BY <1>2, ServedSame DEF Inv
<1>4. /\ storage' = [storage EXCEPT ![run[t].key] = [rec EXCEPT !.state = state]]
      /\ Leave(t)
  BY DEF Settle
<1>5. storage' \in [Slots -> Record \cup {NoRecord}] /\ SlotsSound'
  BY <1>1, <1>3, <1>4, Puts
<1>6. run' \in [Tabs -> UploadCall] /\ lock' \in Tabs \cup {NoOne} /\ LockSound' /\ CallsSound'
  BY <1>4, Leaves DEF Inv
<1>7. QED  BY <1>5, <1>6 DEF Inv, Types, UploadsSound

\* A call takes up a record or persists one.
LEMMA PrepareInv == ASSUME NEW t \in Tabs, Sizes, Inv, Prepare(t) PROVE Inv'
<1> DEFINE r == run[t]
           old == storage[r.key]
<1>1. /\ r \in UploadCall /\ CallSound(r) /\ r.pc = "preparing" /\ lock = t /\ r.key \in Slots
      /\ r.rev \in Revisions /\ r.file \in Files /\ r.mode \in {"run", "restart"}
      /\ UNCHANGED <<draft, up, forgot, faults>> /\ faults' \in Nat
  BY DEF Prepare, Inv, Types, CallsSound, LockSound, Active, UploadCall, CallSound, Uploading
<1>2. CASE Leave(t) /\ UNCHANGED <<storage, panel>>
  BY <1>1, <1>2, GoesAway DEF Inv, Types
<1>3. CASE /\ old.id # 0 /\ old.draft = r.rev /\ old.file = r.file
           /\ run' = [run EXCEPT ![t].pc = "reading", ![t].rec = old]
           /\ UNCHANGED <<storage, lock, panel>>
  <2>1. old \in Record /\ Owns(r.key, old)
    BY <1>1, <1>3, OwnSlot
  <2>2. PICK x : x = [r EXCEPT !.pc = "reading", !.rec = old]
    OBVIOUS
  <2>3. /\ x \in UploadCall /\ x.pc = "reading" /\ x.mode = r.mode /\ x.rev = r.rev
        /\ x.file = r.file /\ x.rec = old /\ x.key = r.key
    BY <1>1, <2>1, <2>2 DEF UploadCall, Pcs, Uploading, Working
  <2>4. CallSound(x)
    BY <1>1, <1>3, <2>1, <2>3 DEF CallSound, Uploading, Working
  <2>5. run' = [run EXCEPT ![t] = x]
    BY <1>3, <2>2 DEF Inv, Types
  <2>6. QED  BY <1>1, <1>3, <2>3, <2>4, <2>5, GoesOn DEF Inv, Types
<1>4. CASE old.id # 0 /\ Stop(t, old) /\ UNCHANGED panel
  <2>1. old \in Record /\ Owns(r.key, old)
    BY <1>1, <1>4, OwnSlot
  <2>2. Served(old.id, old.file, up') /\ UploadsSound'
    BY <1>1, ServedSame DEF Inv, UploadsSound
  <2>3. QED  BY <1>1, <1>4, <2>1, <2>2, StopsInv DEF Inv, Types
<1>5. ASSUME NEW new, new = [id |-> 0, draft |-> r.rev, file |-> r.file, state |-> "reservation_unconfirmed"],
             old = NoRecord, storage' = [storage EXCEPT ![r.key] = new],
             run' = [run EXCEPT ![t].pc = "reserving", ![t].rec = new],
             panel' = IF r.current THEN [panel EXCEPT ![t].key = r.key] ELSE panel,
             UNCHANGED lock
      PROVE  Inv'
  <2>1. new \in Record /\ new.id = 0 /\ new.state = "reservation_unconfirmed"
    BY <1>1, <1>5 DEF Record, Sizes
  <2>2. PICK x : x = [r EXCEPT !.pc = "reserving", !.rec = new]
    OBVIOUS
  <2>3. /\ x \in UploadCall /\ x.pc = "reserving" /\ x.mode = r.mode /\ x.rev = r.rev
        /\ x.file = r.file /\ x.rec = new /\ x.key = r.key
    BY <1>1, <2>1, <2>2 DEF UploadCall, Pcs, Uploading, Working
  <2>4. /\ storage' \in [Slots -> Record \cup {NoRecord}] /\ storage'[r.key] = new
        /\ \A s \in Slots \ {r.key} : storage'[s] = storage[s]
    BY <1>1, <1>5, <2>1 DEF Inv, Types
  <2>5. SlotsSound'
    BY <1>1, <2>1, <2>4, TheUpload DEF Inv, SlotsSound
  <2>6. CallSound(x)'
    BY <1>1, <1>5, <2>1, <2>3, <2>4 DEF CallSound, Uploading, Working
  <2>7. run' = [run EXCEPT ![t] = x]
    BY <1>5, <2>2 DEF Inv, Types
  <2>8. panel' \in [Tabs -> [rev: Revisions, key: Slots, staged: 0 .. NoStaged]]
    BY <1>1, <1>5 DEF Inv, Types
  <2>9. run' \in [Tabs -> UploadCall] /\ LockSound' /\ CallsSound'
    BY <1>1, <1>5, <2>3, <2>6, <2>7, OneTab DEF Inv
  <2>10. QED  BY <1>1, <1>5, <2>4, <2>5, <2>8, <2>9 DEF Inv, Types, UploadsSound
<1>6. QED  BY <1>2, <1>3, <1>4, <1>5 DEF Prepare

\* The reply to a reservation is lost.
LEMMA LoseReservationInv ==
  ASSUME NEW t \in Tabs, Sizes, Inv, LoseReservation(t) PROVE Inv'
BY GoesAway DEF LoseReservation, Inv, Types

\* A tab is closed.
LEMMA CloseTabInv == ASSUME NEW t \in Tabs, Sizes, Inv, CloseTab(t) PROVE Inv'
<1> DEFINE key == KeyFor(draft)
<1>1. key \in Slots /\ Slots \subseteq 0 .. NoStaged /\ draft \in Revisions
  BY DEF KeyFor, Slots, Revisions, NoStaged, Sizes, Inv, Types
<1>2. StageOf(storage[key], draft, key, NoStaged) \in 0 .. NoStaged
  BY <1>1 DEF StageOf, NoStaged, Sizes
<1>3. panel' = [panel EXCEPT ![t] = [rev |-> draft, key |-> key,
                                     staged |-> StageOf(storage[key], draft, key, NoStaged)]]
  BY DEF CloseTab
<1>4. panel' \in [Tabs -> [rev: Revisions, key: Slots, staged: 0 .. NoStaged]]
  BY <1>1, <1>2, <1>3 DEF Inv, Types
<1>5. QED  BY <1>4, GoesAway DEF CloseTab, Inv, Types

\* A reply is lost.
LEMMA LoseReplyInv == ASSUME NEW t \in Tabs, Sizes, Inv, LoseReply(t) PROVE Inv'
<1>1. /\ run[t].key \in Slots /\ run[t].rec \in Record /\ lock = t
      /\ Owns(run[t].key, run[t].rec)
  BY OwnCall DEF LoseReply, Working
<1>2. Served(run[t].rec.id, run[t].rec.file, up') /\ UploadsSound'
  BY ServedSame DEF LoseReply, Inv, UploadsSound
<1>3. Stop(t, run[t].rec) /\ UNCHANGED <<draft, panel, forgot>> /\ faults' \in Nat
  BY DEF LoseReply, Inv, Types
<1>4. QED  BY <1>1, <1>2, <1>3, StopsInv DEF Inv, Types

\* The service reserves or denies.
LEMMA ReserveInv == ASSUME NEW t \in Tabs, Sizes, Inv, Reserve(t) PROVE Inv'
<1> DEFINE r == run[t]
           new == [draft |-> draft, fence |-> 0, blocked |-> FALSE, op |-> NoOp,
                   files |-> [k \in Kinds |-> NoProgress]]
<1>1. /\ r \in UploadCall /\ CallSound(r) /\ r.pc = "reserving" /\ lock = t /\ r.key \in Slots
      /\ r.rev \in Revisions /\ r.file \in Files /\ r.mode \in {"run", "restart"}
      /\ r.rec = [id |-> 0, draft |-> r.rev, file |-> r.file, state |-> "reservation_unconfirmed"]
      /\ storage[r.key].id = 0
      /\ UNCHANGED <<draft, storage, lock, panel, forgot, faults>> /\ faults' \in Nat
  BY DEF Reserve, Inv, Types, CallsSound, LockSound, Active, UploadCall, CallSound, Uploading
<1>2. CASE run' = [run EXCEPT ![t].pc = "denied"] /\ UNCHANGED up
  <2>1. PICK x : x = [r EXCEPT !.pc = "denied"]
    OBVIOUS
  <2>2. /\ x \in UploadCall /\ x.pc = "denied" /\ x.mode = r.mode /\ x.rev = r.rev
        /\ x.file = r.file /\ x.rec = r.rec /\ x.key = r.key
    BY <1>1, <2>1 DEF UploadCall, Pcs, Uploading, Working
  <2>3. CallSound(x)
    BY <1>1, <2>2 DEF CallSound, Uploading, Working
  <2>4. run' = [run EXCEPT ![t] = x]
    BY <1>2, <2>1 DEF Inv, Types
  <2>5. QED  BY <1>1, <1>2, <2>2, <2>3, <2>4, GoesOn DEF Inv, Types
<1>3. CASE /\ Len(up) < MaxUploads /\ up' = Append(up, new)
           /\ run' = [run EXCEPT ![t].pc = "reserved", ![t].rec.id = Len(up) + 1]
  <2>1. new \in Upload /\ UploadSound(new) /\ new.op = NoOp /\ NoOp.action = "none"
        /\ \A k \in Kinds : new.files[k] = NoProgress /\ ~new.files[k].stored
    <3>1. NoProgress \in Progress /\ ~NoProgress.stored /\ Len(NoProgress.parts) = 0
      BY EmptySeq DEF NoProgress, Progress
    <3>2. draft \in Revisions /\ \A k \in Kinds : PartsOf(k) \in Nat
      BY DEF Inv, Types, PartsOf, Sizes
    <3>3. QED  BY <3>1, <3>2 DEF Upload, UploadSound, NoOp
  <2>2. /\ up' \in Seq(Upload) /\ Len(up') = Len(up) + 1 /\ up'[Len(up) + 1] = new
        /\ \A i \in DOMAIN up : up'[i] = up[i]
        /\ Len(up) \in Nat /\ DOMAIN up = 1 .. Len(up) /\ DOMAIN up' = 1 .. Len(up')
    BY <1>3, <2>1, TheUpload, AppendProperties, LenProperties DEF Inv, Types
  <2>3. PICK i : i = Len(up) + 1
    OBVIOUS
  <2>4. PICK x : x = [r EXCEPT !.pc = "reserved", !.rec.id = i]
    OBVIOUS
  <2>5. /\ r.rec \in Record /\ i \in 0 .. MaxUploads /\ i \in DOMAIN up' /\ i # 0
    BY <1>1, <1>3, <2>2, <2>3 DEF Record, Sizes
  <2>6. [r.rec EXCEPT !.id = i] \in Record
    BY <2>5 DEF Record
  <2>7. /\ x \in UploadCall /\ x.pc = "reserved" /\ x.mode = r.mode /\ x.rev = r.rev
        /\ x.file = r.file /\ x.key = r.key /\ x.rec.id = i /\ x.rec = [r.rec EXCEPT !.id = i]
    BY <1>1, <2>4, <2>6 DEF UploadCall, Pcs, Uploading, Working
  <2>8. x.rec = [id |-> x.rec.id, draft |-> x.rev, file |-> x.file, state |-> "reservation_unconfirmed"]
    BY <1>1, <2>7
  <2>9. SlotsSound'
    <3>1. ASSUME NEW s \in Slots
          PROVE  storage'[s].id <= Len(up') /\ (storage[s].id # 0 => storage[s].id \in DOMAIN up)
      BY <1>1, <2>2 DEF Inv, SlotsSound, Types, Record, NoRecord
    <3>2. QED  BY <1>1, <2>2, <3>1 DEF Inv, SlotsSound, Content
  <2>10. Owns(x.key, x.rec)'
    <3>1. \A s \in Slots : storage'[s].id # i
      BY <1>1, <2>2, <2>3 DEF Inv, SlotsSound
    <3>2. up'[i] = new
      BY <2>2, <2>3
    <3>3. Matches(x.rec, up'[i])
      <4>1. \A k \in Kinds : Len(up'[i].files[k].parts) = 0
        BY <2>1, <3>2, EmptySeq DEF NoProgress
      <4>2. up'[i].op.action = "none"
        BY <2>1, <3>2
      <4>3. QED  BY <4>1, <4>2 DEF Matches
    <3>4. x.rec.state # "staged"
      BY <2>8
    <3>5. QED  BY <1>1, <2>5, <2>7, <3>1, <3>3, <3>4 DEF Owns, Content
  <2>11. CallSound(x)'
    BY <1>1, <2>7, <2>8, <2>10 DEF CallSound, Uploading, Working
  <2>12. UploadsSound'
    <3>1. ASSUME NEW j \in DOMAIN up' PROVE UploadSound(up'[j])
      <4>1. CASE j \in DOMAIN up
        BY <2>2, <4>1 DEF Inv, UploadsSound
      <4>2. CASE j \notin DOMAIN up
        <5>1. j = Len(up) + 1
          BY <2>2, <4>2
        <5>2. QED  BY <2>1, <2>2, <5>1
      <4>3. QED  BY <4>1, <4>2
    <3>2. QED  BY <3>1 DEF UploadsSound
  <2>13. run' = [run EXCEPT ![t] = x]
    BY <1>3, <2>3, <2>4 DEF Inv, Types
  <2>14. run' \in [Tabs -> UploadCall] /\ LockSound' /\ CallsSound'
    BY <1>1, <2>7, <2>11, <2>13, OneTab DEF Inv
  <2>15. Len(up') <= MaxUploads
    BY <1>3, <2>2 DEF Sizes
  <2>16. QED  BY <1>1, <2>2, <2>9, <2>12, <2>14, <2>15 DEF Inv, Types
<1>4. QED  BY <1>2, <1>3 DEF Reserve

\* The reservation is confirmed.
LEMMA ReservedInv == ASSUME NEW t \in Tabs, Sizes, Inv, Reserved(t) PROVE Inv'
<1> DEFINE r == run[t]
<1>1. /\ r \in UploadCall /\ CallSound(r) /\ r.pc = "reserved" /\ lock = t /\ r.key \in Slots
      /\ r.rec \in Record /\ r.rec.id \in DOMAIN up /\ Owns(r.key, r.rec)
      /\ Content(r.rec, up) /\ r.mode \in {"run", "restart"} /\ r.rec.file = r.file
      /\ UNCHANGED <<draft, lock, panel, up, forgot, faults>>
  <2>1. r.pc = "reserved" /\ UNCHANGED <<draft, lock, panel, up, forgot, faults>>
    BY DEF Reserved
  <2>2. CallSound(r)
    BY DEF Inv, CallsSound
  <2>3. r.mode \in {"run", "restart"} /\ r.rec.file = r.file
    BY <2>1, <2>2 DEF CallSound, Uploading
  <2>4. QED  BY <2>1, <2>2, <2>3, OwnCall
<1>2. PICK rec : rec = [r.rec EXCEPT !.state = "paused"]
  OBVIOUS
<1>3. rec \in Record /\ rec.id = r.rec.id /\ rec.file = r.rec.file /\ Content(rec, up)
  BY <1>1, <1>2, SameContent DEF Record
<1>4. storage' = [storage EXCEPT ![r.key] = rec] /\ Served(r.rec.id, r.rec.file, up') /\ Content(rec, up')
  BY <1>1, <1>2, <1>3, ServedSame DEF Reserved, Inv
<1>5. storage' \in [Slots -> Record \cup {NoRecord}] /\ SlotsSound'
  BY <1>1, <1>3, <1>4, Puts
<1>6. PICK x : x = [r EXCEPT !.pc = "reading", !.rec = rec]
  OBVIOUS
<1>7. /\ x \in UploadCall /\ x.pc = "reading" /\ x.mode = r.mode /\ x.rev = r.rev
      /\ x.file = r.file /\ x.key = r.key /\ x.rec = rec
  BY <1>1, <1>3, <1>6 DEF UploadCall, Pcs, Uploading, Working
<1>8. Owns(x.key, x.rec)'
  <2>1. storage'[r.key] = rec /\ \A s \in Slots \ {r.key} : storage'[s] = storage[s]
    BY <1>1, <1>4 DEF Inv, Types
  <2>2. QED  BY <1>1, <1>3, <1>4, <1>7, <2>1 DEF Owns
<1>9. CallSound(x)'
  BY <1>1, <1>3, <1>7, <1>8 DEF CallSound, Uploading, Working
<1>10. run' = [run EXCEPT ![t] = x]
  BY <1>2, <1>6 DEF Reserved, Inv, Types
<1>11. run' \in [Tabs -> UploadCall] /\ LockSound' /\ CallsSound'
  BY <1>1, <1>7, <1>9, <1>10, OneTab DEF Inv
<1>12. QED  BY <1>1, <1>5, <1>11 DEF Inv, Types, UploadsSound

\* The reservation was denied.
LEMMA DeniedInv == ASSUME NEW t \in Tabs, Sizes, Inv, Denied(t) PROVE Inv'
<1>1. /\ run[t].key \in Slots /\ lock = t /\ storage' = [storage EXCEPT ![run[t].key] = NoRecord]
      /\ Leave(t) /\ UNCHANGED <<draft, up, forgot, faults>>
  BY DEF Denied, Inv, Types, LockSound, Active, UploadCall
<1>2. panel' \in [Tabs -> [rev: Revisions, key: Slots, staged: 0 .. NoStaged]]
  <2>1. 0 \in Slots
    BY DEF Slots, Sizes
  <2>2. QED  BY <2>1 DEF Denied, Inv, Types
<1>3. storage' \in [Slots -> Record \cup {NoRecord}] /\ SlotsSound'
  BY <1>1, Clears
<1>4. run' \in [Tabs -> UploadCall] /\ lock' \in Tabs \cup {NoOne} /\ LockSound' /\ CallsSound'
  BY <1>1, Leaves DEF Inv
<1>5. QED  BY <1>1, <1>2, <1>3, <1>4 DEF Inv, Types, UploadsSound

\* A call reads its upload.
LEMMA ReadInv == ASSUME NEW t \in Tabs, Sizes, Inv, Read(t) PROVE Inv'
<1> DEFINE r == run[t]
<1>1. r.pc = "reading" /\ UNCHANGED <<draft, storage, lock, panel, up, forgot, faults>> /\ CallSound(r)
  BY DEF Read, Inv, CallsSound
<1>2. /\ r \in UploadCall /\ lock = t /\ Owns(r.key, r.rec) /\ up[r.rec.id] \in Upload
  BY <1>1, OwnCall, TheUpload DEF Inv, Working
<1>3. PICK x : x = [r EXCEPT !.pc = "deciding", !.remote = up[r.rec.id]]
  OBVIOUS
<1>4. /\ x \in UploadCall /\ x.pc = "deciding" /\ x.mode = r.mode /\ x.rev = r.rev
      /\ x.file = r.file /\ x.key = r.key /\ x.rec = r.rec /\ x.remote = up[r.rec.id]
  BY <1>2, <1>3 DEF UploadCall, Pcs, Uploading, Working
<1>5. CallSound(x)
  BY <1>1, <1>2, <1>4 DEF CallSound, Knows, Uploading, Working
<1>6. run' = [run EXCEPT ![t] = x]
  BY <1>3 DEF Read, Inv, Types
<1>7. QED  BY <1>1, <1>2, <1>4, <1>5, <1>6, GoesOn DEF Inv, Types

\* A check reads a record and its upload.
LEMMA LoadInv == ASSUME NEW t \in Tabs, Sizes, Inv, Load(t) PROVE Inv'
<1> DEFINE r == run[t]
           rec == storage[r.key]
<1>1. /\ r.pc = "loading" /\ UNCHANGED <<draft, storage, panel, up, forgot, faults>> /\ CallSound(r)
      /\ r \in UploadCall /\ lock = t /\ r.key \in Slots
  BY DEF Load, Inv, CallsSound, LockSound, Active, Types, UploadCall
<1>2. CASE Leave(t)
  BY <1>1, <1>2, GoesAway DEF Inv, Types
<1>3. CASE ~Leave(t)
  <2>1. rec.id # 0 /\ UNCHANGED lock
        /\ run' = [run EXCEPT ![t].pc = "inspecting", ![t].rec = rec, ![t].remote = up[rec.id]]
    BY <1>3 DEF Load
  <2>2. rec \in Record /\ Owns(r.key, rec) /\ up[rec.id] \in Upload
    BY <1>1, <2>1, OwnSlot, TheUpload DEF Owns, Inv
  <2>3. PICK x : x = [r EXCEPT !.pc = "inspecting", !.rec = rec, !.remote = up[rec.id]]
    OBVIOUS
  <2>4. /\ x \in UploadCall /\ x.pc = "inspecting" /\ x.mode = r.mode /\ x.rev = r.rev
        /\ x.file = r.file /\ x.key = r.key /\ x.rec = rec /\ x.remote = up[rec.id]
    BY <1>1, <2>2, <2>3 DEF UploadCall, Pcs
  <2>5. CallSound(x)
    BY <1>1, <2>2, <2>4 DEF CallSound, Knows, Uploading, Working
  <2>6. run' = [run EXCEPT ![t] = x]
    BY <2>1, <2>3 DEF Inv, Types
  <2>7. QED  BY <1>1, <2>1, <2>4, <2>5, <2>6, GoesOn DEF Inv, Types
<1>4. QED  BY <1>2, <1>3

\* A check is over.
LEMMA InspectInv == ASSUME NEW t \in Tabs, Sizes, Inv, Inspect(t) PROVE Inv'
<1> DEFINE r == run[t]
           state == IF AllStored(r.remote.files) THEN "staged"
                    ELSE IF r.remote.blocked THEN "blocked" ELSE "paused"
<1>1. r.pc = "inspecting" /\ UNCHANGED <<draft, up, forgot, faults>> /\ CallSound(r)
  BY DEF Inspect, Inv, CallsSound
<1>2. /\ lock = t /\ Owns(r.key, r.rec) /\ r.rec \in Record /\ r.key \in Slots
      /\ r.remote.files = up[r.rec.id].files
  BY <1>1, OwnCall DEF CallSound, Knows
<1>3. panel' \in [Tabs -> [rev: Revisions, key: Slots, staged: 0 .. NoStaged]]
  <2>1. r.key \in 0 .. NoStaged
    BY <1>2 DEF Slots, NoStaged, Sizes
  <2>2. QED  BY <2>1 DEF Inspect, Inv, Types
<1>4. CASE Settle(t, [r.rec EXCEPT !.state = state])
  <2>1. PICK st : st = state
    OBVIOUS
  <2>2. st \in {"paused", "blocked", "staged"} /\ (st = "staged" => AllStored(up[r.rec.id].files))
    BY <1>2, <2>1
  <2>3. Settle(t, [r.rec EXCEPT !.state = st])
    BY <1>4, <2>1
  <2>4. QED  BY <1>1, <1>2, <1>3, <2>2, <2>3, SettlesInv
<1>5. CASE Leave(t) /\ UNCHANGED <<storage, panel>>
  BY <1>1, <1>3, <1>5, GoesAway DEF Inv, Types
<1>6. QED  BY <1>4, <1>5 DEF Inspect

\* A call reconciles its record with the service's evidence.
LEMMA DecideInv == ASSUME NEW t \in Tabs, Sizes, Inv, Decide(t) PROVE Inv'
<1> DEFINE r == run[t]
<1>1. /\ r.pc = "deciding" /\ UNCHANGED <<draft, up, forgot, faults>> /\ CallSound(r)
      /\ faults' \in Nat
  BY DEF Decide, Inv, CallsSound, Types
<1>2. /\ r \in UploadCall /\ lock = t /\ Owns(r.key, r.rec) /\ r.rec \in Record /\ r.key \in Slots
      /\ r.remote \in Upload /\ r.remote.files = up[r.rec.id].files
  BY <1>1, OwnCall DEF CallSound, Knows, Working
<1>3. panel' \in [Tabs -> [rev: Revisions, key: Slots, staged: 0 .. NoStaged]]
  <2>1. r.key \in 0 .. NoStaged
    BY <1>2 DEF Slots, NoStaged, Sizes
  <2>2. QED  BY <2>1 DEF Decide, Inv, Types
<1>4. CASE Stop(t, r.rec)
  <2>1. Served(r.rec.id, r.rec.file, up') /\ UploadsSound'
    BY <1>1, ServedSame DEF Inv, UploadsSound
  <2>2. QED  BY <1>1, <1>2, <1>3, <1>4, <2>1, StopsInv
<1>5. CASE Settle(t, [r.rec EXCEPT !.state = "blocked"]) \/ Settle(t, [r.rec EXCEPT !.state = "paused"])
  BY <1>1, <1>2, <1>3, <1>5, SettlesInv
<1>6. CASE AllStored(r.remote.files) /\ Settle(t, [r.rec EXCEPT !.state = "staged"])
  BY <1>1, <1>2, <1>3, <1>6, SettlesInv
<1>7. ASSUME NEW new, new = [r.rec EXCEPT !.state = "uploading"], ~AllStored(r.remote.files),
             storage' = [storage EXCEPT ![r.key] = new], UNCHANGED lock,
             run' = [run EXCEPT ![t].rec = new, ![t].op = r.remote.op,
                       ![t].pc = IF r.remote.op = NoOp THEN "planning" ELSE "executing"]
      PROVE  Inv'
  <2>1. new \in Record /\ new.id = r.rec.id /\ new.file = r.rec.file /\ Content(new, up)
    <3>1. new \in Record /\ new.id = r.rec.id /\ new.file = r.rec.file
      BY <1>2, <1>7 DEF Record
    <3>2. Content(r.rec, up) /\ "uploading" # "staged"
      BY <1>2 DEF Owns
    <3>3. Content([r.rec EXCEPT !.state = "uploading"], up)
      BY <1>2, <3>2, SameContent
    <3>4. QED  BY <1>7, <3>1, <3>3
  <2>2. Served(r.rec.id, r.rec.file, up') /\ Content(new, up')
    BY <1>1, <2>1, ServedSame DEF Inv
  <2>3. storage' \in [Slots -> Record \cup {NoRecord}] /\ SlotsSound'
    BY <1>2, <1>7, <2>1, <2>2, Puts
  <2>4. PICK x : x = [r EXCEPT !.rec = new, !.op = r.remote.op,
                               !.pc = IF r.remote.op = NoOp THEN "planning" ELSE "executing"]
    OBVIOUS
  <2>5. r.remote.op \in Op \cup {NoOp}
    BY <1>2 DEF Upload
  <2>6. /\ x \in UploadCall /\ x.pc \in {"planning", "executing"} /\ x.mode = r.mode /\ x.rev = r.rev
        /\ x.file = r.file /\ x.key = r.key /\ x.rec = new /\ x.remote = r.remote
        /\ (x.pc = "executing" => x.op # NoOp)
    BY <1>2, <2>1, <2>4, <2>5 DEF UploadCall, Pcs, Uploading, Working
  <2>7. Owns(x.key, x.rec)'
    <3>1. storage'[r.key] = new /\ \A s \in Slots \ {r.key} : storage'[s] = storage[s]
      BY <1>2, <1>7 DEF Inv, Types
    <3>2. QED  BY <1>1, <1>2, <2>1, <2>2, <2>6, <3>1 DEF Owns
  <2>8. CallSound(x)'
    BY <1>1, <1>2, <1>7, <2>1, <2>6, <2>7 DEF CallSound, Knows, Uploading, Working
  <2>9. run' = [run EXCEPT ![t] = x]
    BY <1>7, <2>4 DEF Inv, Types
  <2>10. run' \in [Tabs -> UploadCall] /\ LockSound' /\ CallsSound'
    BY <1>2, <1>7, <2>6, <2>8, <2>9, OneTab DEF Inv
  <2>11. QED  BY <1>1, <1>3, <1>7, <2>3, <2>10 DEF Inv, Types, UploadsSound
<1>8. QED  BY <1>4, <1>5, <1>6, <1>7 DEF Decide

\* The upload v is u with more bytes, which are of the file f; its operation,
\* if it is another, is of f.
Extends(u, v, f) ==
  /\ \A k \in Kinds : u.files[k].stored => v.files[k].stored
  /\ \A k \in Kinds : \A n \in 1 .. Len(v.files[k].parts) :
       \/ v.files[k].parts[n] = f
       \/ n \in 1 .. Len(u.files[k].parts) /\ v.files[k].parts[n] = u.files[k].parts[n]
  /\ v.op.action = "upload_part" => v.op.file = f \/ v.op = u.op

\* The service's upload i becomes u.
LEMMA Serves ==
  ASSUME Sizes, Inv, NEW i \in DOMAIN up, NEW f, NEW u \in Upload, up' = [up EXCEPT ![i] = u],
         Extends(up[i], u, f), UploadSound(u)
  PROVE  Served(i, f, up') /\ UploadsSound' /\ up'[i] = u
<1>1. /\ up' \in Seq(Upload) /\ Len(up') = Len(up) /\ DOMAIN up' = DOMAIN up
      /\ up'[i] = u /\ \A j \in DOMAIN up \ {i} : up'[j] = up[j]
  BY OneUpload DEF Inv
<1>2. ASSUME NEW q \in Record, q.id = i, q.file = f, Content(q, up)
      PROVE  Content(q, up')
  <2>1. Matches(q, u)
    BY <1>2 DEF Content, Matches, Extends
  <2>2. q.state = "staged" => AllStored(u.files)
    BY <1>2 DEF Content, AllStored, Extends
  <2>3. QED  BY <1>1, <1>2, <2>1, <2>2 DEF Content
<1>3. UploadsSound'
  BY <1>1 DEF Inv, UploadsSound
<1>4. QED  BY <1>1, <1>2, <1>3 DEF Served

\* The next intent is for a file that is not stored, and has room for it.
LEMMA IntentSound ==
  ASSUME Sizes, NEW remote \in Upload, NEW file \in Files, ~AllStored(remote.files),
         \A k \in Kinds : Len(remote.files[k].parts) <= PartsOf(k)
  PROVE  LET op == Intent(remote, file)
         IN  /\ op \in Op /\ op # NoOp /\ op.file = file /\ ~remote.files[op.kind].stored
             /\ op.action = "upload_part" => Len(remote.files[op.kind].parts) < PartsOf(op.kind)
             /\ op.action = "complete_multipart" => Len(remote.files[op.kind].parts) = PartsOf(op.kind)
<1>1. PICK kind : kind = IF ~remote.files["video"].stored THEN "video" ELSE "thumbnail"
  OBVIOUS
<1>2. kind \in Kinds /\ ~remote.files[kind].stored
  BY <1>1 DEF AllStored, Kinds
<1>3. PICK action : action = CASE ~remote.files[kind].created -> "create_multipart"
                  [] remote.files[kind].created /\ Len(remote.files[kind].parts) = PartsOf(kind)
                       -> "complete_multipart"
                  [] OTHER -> "upload_part"
  OBVIOUS
<1>4. /\ Intent(remote, file) = [kind |-> kind, action |-> action, file |-> file, fence |-> remote.fence + 1]
  BY <1>1, <1>3 DEF Intent
<1>5. PartsOf(kind) \in Nat /\ Len(remote.files[kind].parts) \in Nat /\ remote.fence + 1 \in Nat
  BY <1>2, LenProperties DEF PartsOf, Sizes, Upload, Progress
<1>6. action \in {"create_multipart", "upload_part", "complete_multipart"}
  BY <1>3
<1>7. /\ action = "upload_part" => Len(remote.files[kind].parts) # PartsOf(kind)
      /\ action = "complete_multipart" => Len(remote.files[kind].parts) = PartsOf(kind)
  BY <1>3, <1>2 DEF Upload, Progress
<1>8. Intent(remote, file) \in Op /\ Intent(remote, file) # NoOp
  BY <1>2, <1>4, <1>5, <1>6 DEF Op, NoOp, Kinds
<1>9. QED  BY <1>2, <1>4, <1>5, <1>7, <1>8

\* A call goes on after the service has served its upload.
LEMMA GoesOnServed ==
  ASSUME NEW t \in Tabs, NEW x \in UploadCall, Sizes, Inv, lock = t, run' = [run EXCEPT ![t] = x],
         x.rec = run[t].rec, x.key = run[t].key, run[t].rec \in Record,
         Owns(run[t].key, run[t].rec), Served(run[t].rec.id, run[t].rec.file, up'), UploadsSound',
         x.pc \in {"reading", "executing"}, x.mode = run[t].mode, run[t].mode \in {"run", "restart"},
         x.rev = run[t].rev, x.file = run[t].file, CallSound(run[t]), run[t].pc \in Working,
         x.pc = "executing" => x.op # NoOp,
         UNCHANGED <<draft, storage, lock, panel, forgot, faults>>
  PROVE  Inv'
<1>1. SlotsSound'
  <2>1. run[t].key \in Slots
    BY DEF Inv, Types, UploadCall
  <2>2. QED  BY <2>1, Keeps
<1>2. /\ up' \in Seq(Upload) /\ Len(up') = Len(up) /\ DOMAIN up' = DOMAIN up
  BY TheUpload, LenProperties DEF Served, Inv
<1>3. Owns(x.key, x.rec)'
  <2>1. Content(x.rec, up')
    BY DEF Owns, Served
  <2>2. QED  BY <1>2, <2>1 DEF Owns
<1>4. CallSound(x)'
  BY <1>3 DEF CallSound, Uploading, Working
<1>5. run' \in [Tabs -> UploadCall] /\ LockSound' /\ CallsSound'
  BY <1>4, OneTab DEF Inv
<1>6. QED  BY <1>1, <1>2, <1>5 DEF Inv, Types

\* An operation is prepared.
LEMMA PlanInv == ASSUME NEW t \in Tabs, Sizes, Inv, Plan(t) PROVE Inv'
<1> DEFINE r == run[t]
           u == up[r.rec.id]
<1>1. /\ r.pc = "planning" /\ UNCHANGED <<draft, panel, forgot, faults>> /\ CallSound(r)
      /\ faults' \in Nat
      /\ panel' \in [Tabs -> [rev: Revisions, key: Slots, staged: 0 .. NoStaged]]
  BY DEF Plan, Inv, CallsSound, Types
<1>2. /\ r \in UploadCall /\ lock = t /\ Owns(r.key, r.rec) /\ r.rec \in Record /\ r.key \in Slots
      /\ r.rec.id \in DOMAIN up
  BY <1>1, OwnCall DEF Working
<1>3. /\ r.remote \in Upload /\ r.remote.files = u.files /\ ~AllStored(r.remote.files)
      /\ r.mode \in {"run", "restart"} /\ r.file \in Files /\ r.rec.file = r.file
  BY <1>1 DEF CallSound, Knows, Uploading, Working
<1>4. u \in Upload /\ UploadSound(u)
  BY <1>2, TheUpload DEF Inv, UploadsSound
<1>5. CASE Stop(t, r.rec) /\ UNCHANGED up
  <2>1. Served(r.rec.id, r.rec.file, up') /\ UploadsSound'
    BY <1>5, ServedSame DEF Inv, UploadsSound
  <2>2. QED  BY <1>1, <1>2, <1>5, <2>1, StopsInv
<1>6. ASSUME NEW op, op = Intent(r.remote, r.file),
             up' = [up EXCEPT ![r.rec.id].op = op, ![r.rec.id].fence = op.fence],
             run' = [run EXCEPT ![t].pc = "executing", ![t].op = op], UNCHANGED <<storage, lock>>
      PROVE  Inv'
  <2>1. /\ op \in Op /\ op # NoOp /\ op.file = r.file /\ ~u.files[op.kind].stored
        /\ op.action = "upload_part" => Len(u.files[op.kind].parts) < PartsOf(op.kind)
        /\ op.action = "complete_multipart" => Len(u.files[op.kind].parts) = PartsOf(op.kind)
    <3>1. \A k \in Kinds : Len(r.remote.files[k].parts) <= PartsOf(k)
      BY <1>3, <1>4, Zenon DEF UploadSound
    <3>2. PICK w : w = r.remote
      OBVIOUS
    <3>3. /\ w \in Upload /\ w.files = u.files /\ ~AllStored(w.files)
          /\ \A k \in Kinds : Len(w.files[k].parts) <= PartsOf(k)
          /\ op = Intent(w, r.file) /\ r.file \in Files
      BY <1>3, <1>6, <3>1, <3>2
    <3>4. QED  BY <3>3, IntentSound
  <2>2. PICK v : v = [u EXCEPT !.op = op, !.fence = op.fence]
    OBVIOUS
  <2>3. v \in Upload /\ v.files = u.files /\ v.op = op
    <3>1. op.fence \in Nat
      BY <2>1 DEF Op
    <3>2. QED  BY <1>4, <2>1, <2>2, <3>1 DEF Upload
  <2>4. UploadSound(v)
    BY <1>4, <2>1, <2>3 DEF UploadSound
  <2>5. up' = [up EXCEPT ![r.rec.id] = v]
    BY <1>2, <1>6, <2>2
  <2>6. Served(r.rec.id, r.rec.file, up') /\ UploadsSound'
    <3>1. Extends(u, v, r.rec.file)
      BY <1>3, <2>1, <2>3 DEF Extends
    <3>2. QED  BY <1>2, <2>3, <2>4, <2>5, <3>1, Serves
  <2>7. PICK x : x = [r EXCEPT !.pc = "executing", !.op = op]
    OBVIOUS
  <2>8. /\ x \in UploadCall /\ x.pc = "executing" /\ x.mode = r.mode /\ x.rev = r.rev
        /\ x.file = r.file /\ x.key = r.key /\ x.rec = r.rec /\ x.op # NoOp
    BY <1>2, <2>1, <2>7 DEF UploadCall, Pcs, Uploading, Working
  <2>9. run' = [run EXCEPT ![t] = x]
    BY <1>6, <2>7 DEF Inv, Types
  <2>10. QED  BY <1>1, <1>2, <1>3, <1>6, <2>6, <2>8, <2>9, GoesOnServed DEF Working
<1>7. QED  BY <1>5, <1>6 DEF Plan

\* What an operation does to its file, and that it leaves the other alone.
LEMMA EffectSound ==
  ASSUME NEW files \in [Kinds -> Progress], NEW op \in Op
  PROVE  /\ Effect(files, op) \in [Kinds -> Progress] /\ op.kind \in Kinds
         /\ \A k \in Kinds \ {op.kind} : Effect(files, op)[k] = files[k]
         /\ op.action = "create_multipart" =>
              /\ Effect(files, op)[op.kind].parts = files[op.kind].parts
              /\ Effect(files, op)[op.kind].stored = files[op.kind].stored
         /\ op.action = "upload_part" =>
              /\ Effect(files, op)[op.kind].parts = Append(files[op.kind].parts, op.file)
              /\ Effect(files, op)[op.kind].stored = files[op.kind].stored
         /\ op.action = "complete_multipart" =>
              /\ Effect(files, op)[op.kind].parts = files[op.kind].parts
              /\ Effect(files, op)[op.kind].stored
<1>1. /\ op.kind \in Kinds /\ op.file \in Files
      /\ op.action \in {"create_multipart", "upload_part", "complete_multipart"}
      /\ files[op.kind] \in Progress /\ files[op.kind].parts \in Seq(Files)
  BY DEF Op, Progress
<1>2. Append(files[op.kind].parts, op.file) \in Seq(Files)
  BY <1>1, AppendProperties
<1>3. CASE op.action = "create_multipart"
  BY <1>1, <1>3 DEF Effect, Progress
<1>4. CASE op.action = "upload_part"
  BY <1>1, <1>2, <1>4 DEF Effect, Progress
<1>5. CASE op.action = "complete_multipart"
  BY <1>1, <1>5 DEF Effect, Progress
<1>6. QED  BY <1>1, <1>3, <1>4, <1>5

\* What it does keeps the bytes there are, adds no more than a part of the
\* selected file, and stores what is whole.
LEMMA EffectKeeps ==
  ASSUME Sizes, NEW u \in Upload, UploadSound(u), NEW op \in Op, u.op = op, op # NoOp,
         NEW file \in Files, op.action = "upload_part" => op.file = file,
         NEW files, files = Effect(u.files, op), NEW k \in Kinds
  PROVE  /\ u.files[k].stored => files[k].stored
         /\ \A n \in 1 .. Len(files[k].parts) :
              \/ files[k].parts[n] = file
              \/ n \in 1 .. Len(u.files[k].parts) /\ files[k].parts[n] = u.files[k].parts[n]
         /\ Len(files[k].parts) <= PartsOf(k)
         /\ files[k].stored => Len(files[k].parts) = PartsOf(k)
<1>1. u.files \in [Kinds -> Progress] /\ u.files[k] \in Progress
  BY DEF Upload
<1>2. PICK p : p = u.files[k].parts
  OBVIOUS
<1>3. p \in Seq(Files) /\ Len(p) \in Nat /\ PartsOf(k) \in Nat
  BY <1>1, <1>2, LenProperties DEF Progress, PartsOf, Sizes
<1>4. Len(p) <= PartsOf(k) /\ (u.files[k].stored => Len(p) = PartsOf(k))
  BY <1>2 DEF UploadSound
<1>5. CASE files[k].parts = p /\ files[k].stored = u.files[k].stored
  BY <1>2, <1>3, <1>4, <1>5
<1>6. CASE k = op.kind /\ op.action = "upload_part"
  <2>1. ~u.files[k].stored /\ Len(p) < PartsOf(k) /\ op.file = file
    BY <1>2, <1>6 DEF UploadSound
  <2>2. PICK q : q = Append(p, file)
    OBVIOUS
  <2>3. files[k].parts = q /\ files[k].stored = u.files[k].stored
    BY <1>1, <1>2, <1>6, <2>1, <2>2, EffectSound
  <2>4. Len(q) = Len(p) + 1 /\ q[Len(p) + 1] = file /\ \A n \in 1 .. Len(p) : q[n] = p[n]
    BY <1>3, <2>2, AppendProperties
  <2>5. \A n \in 1 .. Len(q) : q[n] = file \/ (n \in 1 .. Len(p) /\ q[n] = p[n])
    BY <1>3, <2>4
  <2>6. Len(q) <= PartsOf(k)
    BY <1>3, <2>1, <2>4
  <2>7. QED  BY <1>2, <2>1, <2>3, <2>5, <2>6
<1>7. CASE k = op.kind /\ op.action = "complete_multipart"
  <2>1. Len(p) = PartsOf(k)
    BY <1>2, <1>7 DEF UploadSound
  <2>2. files[k].parts = p /\ files[k].stored
    BY <1>1, <1>2, <1>7, EffectSound
  <2>3. QED  BY <1>2, <1>3, <2>1, <2>2
<1>8. CASE k # op.kind \/ op.action = "create_multipart"
  <2>1. files[k].parts = p /\ files[k].stored = u.files[k].stored
    BY <1>1, <1>2, <1>8, EffectSound
  <2>2. QED  BY <1>5, <2>1
<1>9. op.action \in {"create_multipart", "upload_part", "complete_multipart"}
  BY DEF Op
<1>10. QED  BY <1>6, <1>7, <1>8, <1>9

\* An operation is executed.
LEMMA ExecuteInv == ASSUME NEW t \in Tabs, Sizes, Inv, Execute(t) PROVE Inv'
<1> DEFINE r == run[t]
           u == up[r.rec.id]
<1>1. /\ r.pc = "executing" /\ UNCHANGED <<draft, panel, forgot, faults>> /\ CallSound(r)
      /\ faults' \in Nat
      /\ panel' \in [Tabs -> [rev: Revisions, key: Slots, staged: 0 .. NoStaged]]
  BY DEF Execute, Inv, CallsSound, Types
<1>2. /\ r \in UploadCall /\ lock = t /\ Owns(r.key, r.rec) /\ r.rec \in Record /\ r.key \in Slots
      /\ r.rec.id \in DOMAIN up
  BY <1>1, OwnCall DEF Working
<1>3. /\ r.mode \in {"run", "restart"} /\ r.file \in Files /\ r.rec.file = r.file /\ r.op \in Op
  BY <1>1, <1>2 DEF CallSound, Uploading, Working, UploadCall
<1>4. u \in Upload /\ UploadSound(u) /\ u.files \in [Kinds -> Progress]
  BY <1>2, TheUpload DEF Inv, UploadsSound, Upload
<1>5. CASE Stop(t, r.rec) /\ UNCHANGED up
  <2>1. Served(r.rec.id, r.rec.file, up') /\ UploadsSound'
    BY <1>5, ServedSame DEF Inv, UploadsSound
  <2>2. QED  BY <1>1, <1>2, <1>5, <2>1, StopsInv
<1>6. CASE /\ r.op.action = "upload_part" => r.op.file = r.file
           /\ u.op = r.op
           /\ up' = [up EXCEPT ![r.rec.id].op = NoOp, ![r.rec.id].files = Effect(@, r.op)]
           /\ run' = [run EXCEPT ![t].pc = "reading"]
           /\ UNCHANGED <<storage, lock>>
  <2>1. PICK files : files = Effect(u.files, r.op)
    OBVIOUS
  <2>2. PICK v : v = [u EXCEPT !.op = NoOp, !.files = files]
    OBVIOUS
  <2>3. files \in [Kinds -> Progress]
    BY <1>3, <1>4, <2>1, EffectSound
  <2>4. v \in Upload /\ v.files = files /\ v.op = NoOp
    BY <1>4, <2>2, <2>3 DEF Upload
  <2>5. up' = [up EXCEPT ![r.rec.id] = v]
    BY <1>2, <1>6, <2>1, <2>2
  <2>6. \A k \in Kinds :
          /\ u.files[k].stored => files[k].stored
          /\ \A n \in 1 .. Len(files[k].parts) :
               \/ files[k].parts[n] = r.file
               \/ n \in 1 .. Len(u.files[k].parts) /\ files[k].parts[n] = u.files[k].parts[n]
          /\ Len(files[k].parts) <= PartsOf(k)
          /\ files[k].stored => Len(files[k].parts) = PartsOf(k)
    <3>1. PICK w : w = u
      OBVIOUS
    <3>2. PICK op : op = r.op
      OBVIOUS
    <3>3. PICK file : file = r.file
      OBVIOUS
    <3>4. /\ w \in Upload /\ UploadSound(w) /\ op \in Op /\ w.op = op /\ op # NoOp /\ file \in Files
          /\ op.action = "upload_part" => op.file = file
          /\ files = Effect(w.files, op)
      BY <1>1, <1>3, <1>4, <1>6, <2>1, <3>1, <3>2, <3>3 DEF CallSound
    <3>5. \A k \in Kinds :
            /\ w.files[k].stored => files[k].stored
            /\ \A n \in 1 .. Len(files[k].parts) :
                 \/ files[k].parts[n] = file
                 \/ n \in 1 .. Len(w.files[k].parts) /\ files[k].parts[n] = w.files[k].parts[n]
            /\ Len(files[k].parts) <= PartsOf(k)
            /\ files[k].stored => Len(files[k].parts) = PartsOf(k)
      <4>1. SUFFICES ASSUME NEW k \in Kinds
                     PROVE /\ w.files[k].stored => files[k].stored
                           /\ \A n \in 1 .. Len(files[k].parts) :
                                \/ files[k].parts[n] = file
                                \/ /\ n \in 1 .. Len(w.files[k].parts)
                                   /\ files[k].parts[n] = w.files[k].parts[n]
                           /\ Len(files[k].parts) <= PartsOf(k)
                           /\ files[k].stored => Len(files[k].parts) = PartsOf(k)
        OBVIOUS
      <4>2. QED  BY <3>4, EffectKeeps
    <3>6. QED  BY <3>1, <3>3, <3>5
  <2>7. UploadSound(v)
    BY <2>4, <2>6 DEF UploadSound
  <2>8. v.op.action # "upload_part"
    BY <2>4 DEF NoOp
  <2>9. Served(r.rec.id, r.rec.file, up') /\ UploadsSound'
    <3>1. Extends(u, v, r.rec.file)
      BY <1>3, <2>4, <2>6, <2>8 DEF Extends
    <3>2. QED  BY <1>2, <2>4, <2>5, <2>7, <3>1, Serves
  <2>10. PICK x : x = [r EXCEPT !.pc = "reading"]
    OBVIOUS
  <2>11. /\ x \in UploadCall /\ x.pc = "reading" /\ x.mode = r.mode /\ x.rev = r.rev
         /\ x.file = r.file /\ x.key = r.key /\ x.rec = r.rec
    BY <1>2, <2>10 DEF UploadCall, Pcs, Uploading, Working
  <2>12. run' = [run EXCEPT ![t] = x]
    BY <1>6, <2>10 DEF Inv, Types
  <2>13. QED  BY <1>1, <1>2, <1>3, <1>6, <2>9, <2>11, <2>12, GoesOnServed DEF Working
<1>7. QED  BY <1>5, <1>6 DEF Execute

\* An operation's outcome is unknown.
LEMMA ExecuteUncertainInv ==
  ASSUME NEW t \in Tabs, Sizes, Inv, ExecuteUncertain(t) PROVE Inv'
<1> DEFINE r == run[t]
           u == up[r.rec.id]
<1>1. /\ r.pc = "executing" /\ UNCHANGED <<draft, panel, forgot>> /\ faults' \in Nat
      /\ Stop(t, r.rec)
      /\ panel' \in [Tabs -> [rev: Revisions, key: Slots, staged: 0 .. NoStaged]]
  BY DEF ExecuteUncertain, Inv, Types
<1>2. /\ r \in UploadCall /\ lock = t /\ Owns(r.key, r.rec) /\ r.rec \in Record /\ r.key \in Slots
      /\ r.rec.id \in DOMAIN up
  BY <1>1, OwnCall DEF Working
<1>3. u \in Upload /\ UploadSound(u)
  BY <1>2, TheUpload DEF Inv, UploadsSound
<1>4. PICK v : v = [u EXCEPT !.op = NoOp, !.blocked = TRUE]
  OBVIOUS
<1>5. v \in Upload /\ v.files = u.files /\ v.op = NoOp /\ v.op.action # "upload_part"
  <2>1. NoOp.action # "upload_part"
    BY DEF NoOp
  <2>2. v \in Upload /\ v.files = u.files /\ v.op = NoOp
    BY <1>3, <1>4 DEF Upload
  <2>3. QED  BY <2>1, <2>2
<1>6. UploadSound(v)
  BY <1>3, <1>5, Zenon DEF UploadSound
<1>7. up' = [up EXCEPT ![r.rec.id] = v]
  BY <1>2, <1>4 DEF ExecuteUncertain
<1>8. Served(r.rec.id, r.rec.file, up') /\ UploadsSound'
  <2>1. Extends(u, v, r.rec.file)
    BY <1>5 DEF Extends
  <2>2. QED  BY <1>2, <1>5, <1>6, <1>7, <2>1, Serves
<1>9. QED  BY <1>1, <1>2, <1>8, StopsInv

\* An upload expires.
LEMMA ExpireInv == ASSUME NEW i \in Ids, Sizes, Inv, Expire(i) PROVE Inv'
<1>1. /\ i \in DOMAIN up /\ UNCHANGED <<draft, storage, lock, panel, run, forgot>> /\ faults' \in Nat
  BY DEF Expire, Inv, Types
<1>2. up[i] \in Upload /\ UploadSound(up[i])
  BY <1>1, TheUpload DEF Inv, UploadsSound
<1>3. PICK v : v = [up[i] EXCEPT !.blocked = TRUE, !.op = NoOp]
  OBVIOUS
<1>4. v \in Upload /\ v.files = up[i].files /\ v.op = NoOp /\ v.op.action # "upload_part"
  BY <1>2, <1>3 DEF Upload, NoOp
<1>5. up' = [up EXCEPT ![i] = v]
  BY <1>1, <1>3 DEF Expire
<1>6. /\ up' \in Seq(Upload) /\ Len(up') = Len(up) /\ DOMAIN up' = DOMAIN up
      /\ up'[i] = v /\ \A j \in DOMAIN up \ {i} : up'[j] = up[j]
  BY <1>1, <1>4, <1>5, OneUpload DEF Inv
<1>7. UploadsSound'
  BY <1>2, <1>4, <1>6 DEF Inv, UploadsSound, UploadSound
<1>8. ASSUME NEW q, q.id \in DOMAIN up, Content(q, up) PROVE Content(q, up')
  BY <1>4, <1>6, <1>8 DEF Content, Matches
<1>9. \A j \in DOMAIN up : up'[j].files = up[j].files
  BY <1>4, <1>6
<1>10. SlotsSound'
  <2>1. \A s \in Slots : storage[s].id # 0 => storage[s].id \in DOMAIN up
    BY TheUpload DEF Inv, SlotsSound, Types, Record, NoRecord
  <2>2. QED  BY <1>1, <1>6, <1>8, <2>1 DEF Inv, SlotsSound
<1>11. ASSUME NEW t \in Tabs PROVE CallSound(run[t])'
  <2>1. CallSound(run[t]) /\ run'[t] = run[t]
    BY <1>1 DEF Inv, CallsSound
  <2>2. Owns(run[t].key, run[t].rec) => Owns(run[t].key, run[t].rec)'
    BY <1>1, <1>6, <1>8 DEF Owns
  <2>3. Owns(run[t].key, run[t].rec) /\ Knows(run[t]) => Knows(run[t])'
    BY <1>1, <1>9 DEF Owns, Knows
  <2>4. QED  BY <1>1, <2>1, <2>2, <2>3 DEF CallSound, Working
<1>12. QED
  BY <1>1, <1>6, <1>7, <1>10, <1>11 DEF Inv, Types, LockSound, Active, CallsSound

(***************************************************************************)
(* The invariant of the calls and their records, and what follows.         *)
(***************************************************************************)
\* It holds before anything was uploaded.
LEMMA InvInit == Sizes /\ UploadInit => Inv
<1> SUFFICES ASSUME Sizes, UploadInit PROVE Inv
  OBVIOUS
<1>1. Types
  <2>1. up = <<>> /\ up \in Seq(Upload) /\ Len(up) = 0
    BY EmptySeq DEF UploadInit
  <2>2. \A t \in Tabs : run[t] = Idle /\ Idle \in UploadCall
    BY IdleSound DEF UploadInit
  <2>3. QED
    BY <2>1, <2>2 DEF UploadInit, Types, Sizes, Revisions, Slots, NoStaged
<1>2. \A t \in Tabs : run[t] = Idle /\ CallSound(run[t]) /\ Idle.pc = "idle"
  BY IdleSound DEF UploadInit, Idle
<1>3. LockSound
  BY <1>2 DEF UploadInit, LockSound, Active, Sizes
<1>4. SlotsSound
  <2>1. NoRecord.id = 0 /\ NoRecord.state = "none" /\ Len(up) = 0
    BY EmptySeq DEF UploadInit, NoRecord
  <2>2. QED  BY <2>1 DEF UploadInit, SlotsSound
<1>5. UploadsSound
  BY TheUpload, <1>1, EmptySeq DEF UploadInit, UploadsSound
<1>6. QED  BY <1>1, <1>2, <1>3, <1>4, <1>5 DEF Inv, CallsSound

\* Every step keeps it.
LEMMA InvStep == Sizes /\ Inv /\ [UploadNext]_vars => Inv'
<1> SUFFICES ASSUME Sizes, Inv, [UploadNext]_vars PROVE Inv'
  OBVIOUS
<1>1. ASSUME NEW t \in Tabs, Step(t) PROVE Inv'
  BY <1>1, AskLockInv, ListSlotsInv, ExamineInv, PrepareInv, ReserveInv, ReservedInv, DeniedInv,
     ReadInv, DecideInv, PlanInv, ExecuteInv, LoadInv, InspectInv DEF Step
<1>2. ASSUME NEW t \in Tabs, Author(t) PROVE Inv'
  BY <1>2, SaveDraftInv, ReopenInv, CheckInv, PauseInv, RemoveVideoInv, SelectInv DEF Author
<1>3. ASSUME NEW t \in Tabs, Fault(t) PROVE Inv'
  BY <1>3, LoseReservationInv, LoseReplyInv, ExecuteUncertainInv, CloseTabInv DEF Fault
<1>4. CASE UNCHANGED vars
  <2>1. UNCHANGED <<draft, storage, lock, panel, run, up, forgot, faults>>
    BY <1>4 DEF vars
  <2>2. \A t \in Tabs : CallSound(run[t])'
    BY <2>1 DEF Inv, CallsSound, CallSound, Owns, Knows
  <2>3. QED
    BY <2>1, <2>2 DEF Inv, Types, LockSound, Active, SlotsSound, UploadsSound, CallsSound
<1>5. QED  BY <1>1, <1>2, <1>3, <1>4, ExpireInv DEF UploadNext

\* What is true of every call, its record and the upload it works on, in
\* whatever order the tabs' calls, lost replies and expiries come.
THEOREM CallsInvariance == Sizes => (UploadSpec => []Inv)
<1> SUFFICES ASSUME Sizes PROVE UploadSpec => []Inv
  OBVIOUS
<1>1. UploadInit => Inv
  BY InvInit
<1>2. Inv /\ [UploadNext]_vars => Inv'
  BY InvStep
<1>3. QED  BY <1>1, <1>2, PTL DEF UploadSpec

\* The variables keep their types, and the lock is held by a call in progress
\* (TypeOK, withChapterLock).
THEOREM UploadTypes == Sizes => (UploadSpec => []TypeOK)
<1> SUFFICES ASSUME Sizes PROVE UploadSpec => []TypeOK
  OBVIOUS
<1>1. Inv => TypeOK
  <2> SUFFICES ASSUME Inv PROVE TypeOK
    OBVIOUS
  <2>1. lock # NoOne => run[lock].pc \notin {"idle", "asking"}
    BY DEF Inv, Types, LockSound, Active
  <2>2. ASSUME NEW i \in DOMAIN up
        PROVE  /\ up[i].draft \in Revisions /\ up[i].op \in Op \cup {NoOp}
               /\ \A k \in Kinds : Len(up[i].files[k].parts) \in 0 .. PartsOf(k)
    <3>1. up[i] \in Upload /\ UploadSound(up[i])
      BY TheUpload DEF Inv, UploadsSound
    <3>2. \A k \in Kinds : Len(up[i].files[k].parts) \in Nat /\ PartsOf(k) \in Nat
      BY <3>1, LenProperties DEF Upload, Progress, PartsOf, Sizes
    <3>3. QED  BY <3>1, <3>2 DEF Upload, UploadSound
  <2>3. \A t \in Tabs : run[t].key \in Slots /\ panel[t].key \in Slots
    BY DEF Inv, Types, UploadCall
  <2>4. QED  BY <2>1, <2>2, <2>3 DEF TypeOK, Inv, Types
<1>2. UploadSpec => []Inv
  BY CallsInvariance
<1>3. QED  BY <1>1, <1>2, PTL

\* A record that says staged has all bytes of the one file it names on the
\* service, whoever chose another file meanwhile (StagedIsWhole,
\* studio-upload.mjs:150, 189).
THEOREM StagedMeansWhole == Sizes => (UploadSpec => []StagedIsWhole)
<1> SUFFICES ASSUME Sizes PROVE UploadSpec => []StagedIsWhole
  OBVIOUS
<1>1. Inv => StagedIsWhole
  <2> SUFFICES ASSUME Inv, NEW s \in Slots, storage[s].state = "staged", NEW k \in Kinds
               PROVE  LET f == up[storage[s].id].files[k]
                      IN  /\ f.stored /\ Len(f.parts) = PartsOf(k)
                          /\ \A i \in DOMAIN f.parts : f.parts[i] = storage[s].file
    BY DEF StagedIsWhole
  <2>1. storage[s].id # 0 /\ Content(storage[s], up)
    BY DEF Inv, SlotsSound
  <2>2. storage[s].id \in DOMAIN up
    BY <2>1, OwnSlot DEF Owns, Inv
  <2>3. up[storage[s].id] \in Upload /\ UploadSound(up[storage[s].id])
    BY <2>2, TheUpload DEF Inv, UploadsSound
  <2>4. DOMAIN up[storage[s].id].files[k].parts = 1 .. Len(up[storage[s].id].files[k].parts)
    BY <2>3, LenProperties DEF Upload, Progress
  <2>5. QED  BY <2>1, <2>3, <2>4 DEF Content, Matches, AllStored, UploadSound
<1>2. UploadSpec => []Inv
  BY CallsInvariance
<1>3. QED  BY <1>1, <1>2, PTL

\* What is prepared or stored under an upload is of the file its record
\* names, so the author can resume with it (Resumable).
THEOREM AlwaysResumable == Sizes => (UploadSpec => []Resumable)
<1> SUFFICES ASSUME Sizes PROVE UploadSpec => []Resumable
  OBVIOUS
<1>1. Inv => Resumable
  <2> SUFFICES ASSUME Inv, NEW s \in Slots, storage[s].id # 0
               PROVE  LET u == up[storage[s].id]
                      IN  /\ u.op.action = "upload_part" => u.op.file = storage[s].file
                          /\ \A k \in Kinds : \A i \in DOMAIN u.files[k].parts :
                               u.files[k].parts[i] = storage[s].file
    BY DEF Resumable
  <2>1. Content(storage[s], up) /\ storage[s].id \in DOMAIN up
    BY OwnSlot DEF Inv, SlotsSound, Owns
  <2>2. up[storage[s].id] \in Upload
    BY <2>1, TheUpload DEF Inv
  <2>3. \A k \in Kinds : DOMAIN up[storage[s].id].files[k].parts = 1 .. Len(up[storage[s].id].files[k].parts)
    BY <2>2, LenProperties DEF Upload, Progress
  <2>4. QED  BY <2>1, <2>3 DEF Content, Matches
<1>2. UploadSpec => []Inv
  BY CallsInvariance
<1>3. QED  BY <1>1, <1>2, PTL

\* A slot that is written for the upload it has, or for its first, loses none.
LEMMA OneSlot ==
  ASSUME Inv, NEW k \in Slots, NEW rec, storage' = [storage EXCEPT ![k] = rec],
         storage[k].id # 0 => storage[k].id = rec.id
  PROVE  RecordsKeptStep
BY DEF Inv, Types, RecordsKeptStep

\* A call that settles or stops writes its own upload's record.
LEMMA OneState ==
  ASSUME Inv, NEW k \in Slots, NEW rec \in Record, NEW state, storage[k].id \in {0, rec.id},
         storage' = [storage EXCEPT ![k] = [rec EXCEPT !.state = state]]
  PROVE  RecordsKeptStep
<1>1. PICK new : new = [rec EXCEPT !.state = state]
  OBVIOUS
<1>2. storage[k].id # 0 => storage[k].id = new.id
  BY <1>1 DEF Record
<1>3. storage' = [storage EXCEPT ![k] = new]
  BY <1>1
<1>4. QED  BY <1>2, <1>3, OneSlot

\* So does a call that stops.
LEMMA StopKeeps ==
  ASSUME Inv, NEW t \in Tabs, run[t].key \in Slots, NEW rec \in Record,
         storage[run[t].key].id \in {0, rec.id}, Stop(t, rec)
  PROVE  RecordsKeptStep
<1>1. CASE storage' = storage
  BY <1>1 DEF RecordsKeptStep
<1>2. CASE storage' = [storage EXCEPT ![run[t].key] = [rec EXCEPT !.state = "paused"]]
  <2>1. PICK new : new = [rec EXCEPT !.state = "paused"]
    OBVIOUS
  <2>2. storage[run[t].key].id # 0 => storage[run[t].key].id = new.id
    BY <2>1 DEF Record
  <2>3. storage' = [storage EXCEPT ![run[t].key] = new]
    BY <1>2, <2>1
  <2>4. QED  BY <2>2, <2>3, OneSlot
<1>3. QED  BY <1>1, <1>2 DEF Stop

\* No step takes a record its upload, but the author's.
LEMMA RecordsStep == Sizes /\ Inv /\ [UploadNext]_vars => RecordsKeptStep
<1> SUFFICES ASSUME Sizes, Inv, [UploadNext]_vars PROVE RecordsKeptStep
  OBVIOUS
<1>1. UNCHANGED storage => RecordsKeptStep
  BY DEF RecordsKeptStep
<1>2. ASSUME NEW t \in Tabs, run[t].pc \in {"reserved", "inspecting"} \cup Working
      PROVE  /\ run[t].key \in Slots /\ run[t].rec \in Record
             /\ storage[run[t].key].id \in {0, run[t].rec.id}
  BY <1>2, OwnCall DEF Owns
<1>3. ASSUME NEW t \in Tabs, run[t].pc \in {"preparing", "denied"}
      PROVE  /\ run[t].key \in Slots
             /\ run[t].pc = "denied" => storage[run[t].key].id = 0
             /\ storage[run[t].key].id # 0 => storage[run[t].key] \in Record
  BY <1>3, OwnSlot DEF Inv, Types, UploadCall, CallsSound, CallSound
<1>4. ASSUME NEW t \in Tabs, Prepare(t) PROVE RecordsKeptStep
  <2> DEFINE k == run[t].key
             old == storage[k]
  <2>1. k \in Slots /\ (old.id # 0 => old \in Record) /\ NoRecord.id = 0
    BY <1>3, <1>4 DEF Prepare, NoRecord
  <2>2. CASE old.id # 0 /\ Stop(t, old)
    BY <2>1, <2>2, StopKeeps
  <2>3. ASSUME NEW new, old = NoRecord, storage' = [storage EXCEPT ![k] = new]
        PROVE  RecordsKeptStep
    <3>1. storage[k].id # 0 => storage[k].id = new.id
      BY <2>1, <2>3
    <3>2. QED  BY <2>1, <2>3, <3>1, OneSlot
  <2>4. QED  BY <1>1, <1>4, <2>2, <2>3 DEF Prepare
<1>5. ASSUME NEW t \in Tabs, Reserved(t) PROVE RecordsKeptStep
  <2>1. run[t].pc = "reserved" /\ storage' = [storage EXCEPT ![run[t].key] = [run[t].rec EXCEPT !.state = "paused"]]
    BY <1>5 DEF Reserved
  <2>2. /\ run[t].key \in Slots /\ run[t].rec \in Record
        /\ storage[run[t].key].id \in {0, run[t].rec.id}
    BY <1>2, <2>1
  <2>3. PICK new : new = [run[t].rec EXCEPT !.state = "paused"]
    OBVIOUS
  <2>4. storage[run[t].key].id # 0 => storage[run[t].key].id = new.id
    BY <2>2, <2>3 DEF Record
  <2>5. storage' = [storage EXCEPT ![run[t].key] = new]
    BY <2>1, <2>3
  <2>6. QED  BY <2>2, <2>4, <2>5, OneSlot
<1>6. ASSUME NEW t \in Tabs, Denied(t) PROVE RecordsKeptStep
  <2>1. run[t].pc = "denied" /\ storage' = [storage EXCEPT ![run[t].key] = NoRecord]
    BY <1>6 DEF Denied
  <2>2. run[t].key \in Slots /\ (storage[run[t].key].id # 0 => storage[run[t].key].id = NoRecord.id)
    BY <1>3, <2>1
  <2>3. QED  BY <2>1, <2>2, OneSlot
<1>7. ASSUME NEW t \in Tabs, Decide(t) PROVE RecordsKeptStep
  <2>1. run[t].pc = "deciding"
    BY <1>7 DEF Decide
  <2>2. /\ run[t].key \in Slots /\ run[t].rec \in Record
        /\ storage[run[t].key].id \in {0, run[t].rec.id}
    BY <1>2, <2>1 DEF Working
  <2>3. CASE Stop(t, run[t].rec)
    BY <2>2, <2>3, StopKeeps
  <2>4. ASSUME NEW state, storage' = [storage EXCEPT ![run[t].key] = [run[t].rec EXCEPT !.state = state]]
        PROVE  RecordsKeptStep
    <3>1. PICK new : new = [run[t].rec EXCEPT !.state = state]
      OBVIOUS
    <3>2. storage[run[t].key].id # 0 => storage[run[t].key].id = new.id
      BY <2>2, <3>1 DEF Record
    <3>3. storage' = [storage EXCEPT ![run[t].key] = new]
      BY <2>4, <3>1
    <3>4. QED  BY <2>2, <3>2, <3>3, OneSlot
  <2>5. QED  BY <1>7, <2>3, <2>4 DEF Decide, Settle
<1>8. ASSUME NEW t \in Tabs, Plan(t) \/ Execute(t) \/ ExecuteUncertain(t) \/ LoseReply(t)
      PROVE  RecordsKeptStep
  <2>1. run[t].pc \in Working /\ (UNCHANGED storage \/ Stop(t, run[t].rec))
    BY <1>8 DEF Plan, Execute, ExecuteUncertain, LoseReply, Working
  <2>2. QED  BY <1>1, <1>2, <2>1, StopKeeps
<1>9. ASSUME NEW t \in Tabs, Inspect(t) PROVE RecordsKeptStep
  <2> DEFINE state == IF AllStored(run[t].remote.files) THEN "staged"
                      ELSE IF run[t].remote.blocked THEN "blocked" ELSE "paused"
  <2>1. run[t].pc = "inspecting"
    BY <1>9 DEF Inspect
  <2>2. UNCHANGED storage \/ storage' = [storage EXCEPT ![run[t].key] = [run[t].rec EXCEPT !.state = state]]
    BY <1>9 DEF Inspect, Settle
  <2>3. QED  BY <1>1, <1>2, <2>1, <2>2, OneState
<1>10. ASSUME NEW t \in Tabs, RemoveVideo(t) PROVE RecordsKeptStep
  <2>1. PICK k : /\ storage' = [storage EXCEPT ![k] = NoRecord]
                 /\ forgot' = forgot \cup ({storage[k].id} \ {0})
    BY <1>10 DEF RemoveVideo
  <2>2. QED  BY <2>1 DEF RecordsKeptStep, Inv, Types
<1>11. ASSUME NEW t \in Tabs, Step(t) PROVE RecordsKeptStep
  BY <1>1, <1>4, <1>5, <1>6, <1>7, <1>8, <1>9, <1>11
     DEF Step, AskLock, ListSlots, Examine, Reserve, Read, Load
<1>12. ASSUME NEW t \in Tabs, Author(t) PROVE RecordsKeptStep
  BY <1>1, <1>10, <1>12 DEF Author, SaveDraft, Reopen, Check, Pause, Select
<1>13. ASSUME NEW t \in Tabs, Fault(t) PROVE RecordsKeptStep
  BY <1>1, <1>8, <1>13 DEF Fault, LoseReservation, CloseTab
<1>14. QED
  BY <1>1, <1>11, <1>12, <1>13 DEF UploadNext, Expire, vars

\* A confirmed record keeps its upload until the author removes the video: no
\* retry, restart or other tab takes its slot (RecordsKept).
THEOREM RecordsStay == Sizes => (UploadSpec => RecordsKept)
<1> SUFFICES ASSUME Sizes PROVE UploadSpec => RecordsKept
  OBVIOUS
<1>1. Inv /\ [UploadNext]_vars => [RecordsKeptStep]_vars
  BY RecordsStep
<1>2. UploadSpec => []Inv
  BY CallsInvariance
<1>3. QED  BY <1>1, <1>2, PTL DEF UploadSpec, RecordsKept

\* A denied reservation clears no record but an unconfirmed one
\* (DenialClearsUnconfirmed).
THEOREM DenialsClear == Sizes => (UploadSpec => DenialClearsUnconfirmed)
<1> SUFFICES ASSUME Sizes PROVE UploadSpec => DenialClearsUnconfirmed
  OBVIOUS
<1>1. Inv /\ [UploadNext]_vars => [\A t \in Tabs : Denied(t) => storage[run[t].key].id = 0]_vars
  BY DEF Inv, CallsSound, CallSound, Denied
<1>2. UploadSpec => []Inv
  BY CallsInvariance
<1>3. QED  BY <1>1, <1>2, PTL DEF UploadSpec, DenialClearsUnconfirmed
(***************************************************************************)
(* What the recovery records say of the service's reservations, whatever   *)
(* the service denies and grants later.                                    *)
(***************************************************************************)
\* The uploads the author did not let go.
Alive == DOMAIN up \ forgot

\* A record and its upload are of one draft, and a slot that is not the base
\* is of the draft it is named for.
DraftsSound ==
  /\ \A s \in Slots : storage[s] # NoRecord =>
       /\ storage[s].draft <= draft
       /\ s # 0 => storage[s].draft = s
       /\ storage[s].id # 0 => up[storage[s].id].draft = storage[s].draft
  /\ \A i \in DOMAIN up : up[i].draft <= draft
  /\ forgot \subseteq DOMAIN up

\* The slot s leads to the upload i.
Leads(s, i) ==
  \/ storage[s].id = i
  \/ storage[s].id = 0 /\ storage[s].draft = up[i].draft

\* The upload i was asked for through the slot w[i], the base or its draft's
\* own: until it is let go that slot leads to it, and no other was asked for
\* through it.  While nothing is let go, the base slot is of an earlier draft
\* than every upload asked for through another.
Led(w) ==
  /\ \A i \in DOMAIN up : w[i] \in {0, up[i].draft}
  /\ \A i \in Alive : Leads(w[i], i)
  /\ \A i, j \in Alive : w[i] = w[j] => i = j
  /\ forgot = {} => \A i \in DOMAIN up : w[i] # 0 => storage[0].draft < up[i].draft

\* A restart opened the draft k's own slot: the base slot leads to an upload of
\* another draft, and no upload of an earlier draft has an operation.
Opened(k) ==
  /\ k <= draft /\ storage[0].id # 0 /\ storage[0].draft # k
  /\ \A i \in DOMAIN up : up[i].draft < k => up[i].op = NoOp
Usable(k) == forgot = {} /\ k # 0 => Opened(k)
\* A draft's own slot that holds a record was opened by a restart.
SlotsOpened == \A s \in Revisions : storage[s] # NoRecord => Usable(s)

\* The slot a call or a panel uses for a draft: the base, or the draft's own.
KeySound(key, rev) == rev <= draft /\ key \in {0, rev} /\ Usable(key)

\* No upload of the slot k is left, and none will be asked for through it.
Spent(w, k) == k < draft /\ \A i \in Alive : w[i] # k
Kept(w, k) == storage[k].id # 0 \/ Spent(w, k)

\* What a restart has examined: of another draft, and nothing in doubt.
Examined(r) ==
  forgot = {} =>
    /\ storage[0] # NoRecord
    /\ \A s \in Slots \ r.left : storage[s] # NoRecord =>
         /\ storage[s].id # 0 /\ storage[s].draft # r.rev
         /\ up[storage[s].id].op = NoOp

\* A call, from its start to its end: the slot it reserves through leads to no
\* upload yet, and the record it works on is its slot's.
TurnSound(w, r) ==
  /\ r.pc # "idle" => KeySound(r.key, r.rev)
  /\ r.pc = "examining" => Examined(r)
  /\ r.pc \in {"reserving", "denied"} => \A i \in Alive : w[i] # r.key
  /\ r.pc = "reserving" /\ r.rev = draft => storage[r.key].draft = r.rev
  /\ r.pc = "reserved" => r.rec.id \in Alive /\ w[r.rec.id] = r.key
  /\ r.pc \in {"reserved", "inspecting"} \cup Working =>
       /\ r.rec.draft <= draft /\ (r.key # 0 => r.rec.draft = r.key)
       /\ up[r.rec.id].draft = r.rec.draft
  /\ r.pc \in {"inspecting"} \cup Working =>
       \/ storage[r.key].id = r.rec.id
       \/ storage[r.key] = NoRecord /\ r.rec.id \in forgot

\* What the panel p shows as staged has its record, or was let go.
Shows(w, p) ==
  /\ KeySound(p.key, p.rev)
  /\ p.staged \in Revisions => Kept(w, p.staged)
\* The call a panel waits for is of the draft the panel shows.
Attached(r, p) == r.current => r.pc # "idle" /\ r.rev = p.rev

\* The inductive invariant of what is reserved, for the slots w of the uploads.
Books(w) ==
  /\ DraftsSound /\ Led(w) /\ SlotsOpened
  /\ \A t \in Tabs : TurnSound(w, run[t]) /\ Shows(w, panel[t]) /\ Attached(run[t], panel[t])
\* The slots through which the uploads were asked for are not remembered.
Ledger == \E w : Books(w)

\* A record has a draft; one that is confirmed or staged is a record.
LEMMA Empty ==
  ASSUME Sizes, Types, NEW s \in Slots
  PROVE  /\ storage[s] = NoRecord <=> storage[s].draft = 0
         /\ storage[s].id # 0 => storage[s] # NoRecord
         /\ storage[s].state = "staged" => storage[s] # NoRecord
BY DEF Types, Record, NoRecord, Revisions, Sizes

\* The drafts of the uploads, and the slots.
LEMMA Drafts ==
  ASSUME Sizes, Inv
  PROVE  /\ draft \in Nat /\ draft > 0 /\ Len(up) \in Nat /\ DOMAIN up = 1 .. Len(up)
         /\ Len(up) <= MaxUploads /\ MaxUploads \in Nat
         /\ \A i \in DOMAIN up : up[i].draft \in Nat /\ up[i].draft > 0 /\ i # 0 /\ i \in Nat
         /\ \A s \in Slots : /\ storage[s].draft \in Nat /\ storage[s].id \in Nat
                             /\ s \in Nat /\ (s # 0 => s \in Revisions)
                             /\ (storage[s].id # 0 => storage[s].id \in DOMAIN up)
<1>1. Len(up) \in Nat /\ DOMAIN up = 1 .. Len(up) /\ \A i \in DOMAIN up : up[i] \in Upload
  BY TheUpload DEF Inv
<1>2. \A s \in Slots : storage[s] \in Record \cup {NoRecord} /\ storage[s].id <= Len(up)
  BY DEF Inv, Types, SlotsSound
<1>3. draft \in Nat /\ draft > 0
  BY DEF Inv, Types, Revisions, Sizes
<1>4. QED
  BY <1>1, <1>2, <1>3 DEF Inv, Types, Sizes, Upload, Revisions, Slots, Record, NoRecord

\* A slot that leads to an upload has a record, of the upload's draft.
LEMMA LedBy ==
  ASSUME NEW w, Sizes, Inv, DraftsSound, Led(w), NEW i \in Alive
  PROVE  /\ w[i] \in Slots /\ storage[w[i]] # NoRecord /\ storage[w[i]].draft = up[i].draft
         /\ storage[w[i]].id \in {0, i}
<1>1. /\ i \in DOMAIN up /\ w[i] \in {0, up[i].draft} /\ Leads(w[i], i)
      /\ up[i].draft \in Nat /\ up[i].draft > 0 /\ i # 0
  BY Drafts DEF Led, Alive
<1>2. PICK s : s = w[i]
  OBVIOUS
<1>3. s \in Slots
  <2>1. up[i] \in Upload
    BY <1>1, TheUpload DEF Inv
  <2>2. QED  BY <1>1, <1>2, <2>1 DEF Upload, Revisions, Slots, Sizes
<1>4. storage[s] # NoRecord /\ storage[s].id \in {0, i}
  BY <1>1, <1>2, <1>3, Empty DEF Leads, Inv
<1>5. storage[s].draft = up[i].draft
  BY <1>1, <1>2, <1>3, <1>4 DEF Leads, DraftsSound
<1>6. QED  BY <1>2, <1>3, <1>4, <1>5

\* While nothing is let go, a base slot that is not confirmed is the only one.
LEMMA BaseFirst ==
  ASSUME NEW w, Sizes, Inv, DraftsSound, Led(w), SlotsOpened, forgot = {}, storage[0].id = 0
  PROVE  /\ \A s \in Revisions : storage[s] = NoRecord
         /\ \A i \in DOMAIN up : w[i] = 0
         /\ \A k \in Revisions : ~Opened(k)
<1>1. \A s \in Revisions : storage[s] = NoRecord
  BY DEF SlotsOpened, Usable, Opened, Revisions
<1>2. ASSUME NEW i \in DOMAIN up PROVE w[i] = 0
  <2>1. i \in Alive
    BY <1>2 DEF Alive
  <2>2. QED  BY <1>1, <2>1, LedBy DEF Slots, Revisions
<1>3. QED  BY <1>1, <1>2 DEF Opened

\* A step that changes no record's upload or draft, no upload's draft, and
\* prepares no operation for an earlier draft.
SameUploads ==
  /\ forgot' = forgot /\ Len(up') = Len(up)
  /\ \A i \in DOMAIN up : /\ up'[i].draft = up[i].draft
                          /\ up[i].draft < draft => up'[i].op \in {up[i].op, NoOp}
\* It also keeps every slot's upload and draft.
Similar ==
  /\ SameUploads
  /\ \A s \in Slots : storage'[s].id = storage[s].id /\ storage'[s].draft = storage[s].draft

\* What the records lead to, after such a step.
LEMMA SimilarFacts ==
  ASSUME NEW w, Sizes, Inv, Inv', draft <= draft', Similar
  PROVE  /\ DOMAIN up' = DOMAIN up
         /\ \A s \in Slots : storage'[s] = NoRecord <=> storage[s] = NoRecord
         /\ \A k \in Revisions : Opened(k) => Opened(k)'
         /\ \A k \in Slots : Usable(k) => Usable(k)'
         /\ \A k \in Slots : Kept(w, k) => Kept(w, k)'
         /\ \A s \in Slots : \A i \in DOMAIN up : Leads(s, i) <=> Leads(s, i)'
<1>1. DOMAIN up' = DOMAIN up
  <2>1. DOMAIN up = 1 .. Len(up) /\ DOMAIN up' = 1 .. Len(up')
    BY TheUpload, LenProperties DEF Inv, Types
  <2>2. QED  BY <2>1 DEF Similar, SameUploads
<1>2. \A s \in Slots : /\ storage[s] = NoRecord <=> storage[s].draft = 0
                       /\ storage'[s] = NoRecord <=> storage'[s].draft = 0
  BY DEF Inv, Types, Record, NoRecord, Revisions, Sizes
<1>3. draft \in Nat /\ draft' \in Nat /\ 0 \in Slots /\ Revisions = Slots \ {0}
  BY DEF Inv, Types, Revisions, Slots, Sizes
<1>4. ASSUME NEW k \in Revisions, Opened(k) PROVE Opened(k)'
  <2>1. k \in Nat
    BY DEF Revisions
  <2>2. k <= draft' /\ storage'[0].id # 0 /\ storage'[0].draft # k
    BY <1>3, <1>4, <2>1 DEF Opened, Similar
  <2>3. ASSUME NEW i \in DOMAIN up, up'[i].draft < k PROVE up'[i].op = NoOp
    BY <1>3, <1>4, <2>1, <2>3, Drafts DEF Opened, Similar, SameUploads
  <2>4. QED  BY <1>1, <2>2, <2>3 DEF Opened
<1>5. \A k \in Slots : Usable(k) => Usable(k)'
  BY <1>3, <1>4 DEF Usable, Similar, SameUploads
<1>6. \A k \in Slots : Kept(w, k) => Kept(w, k)'
  BY <1>1, <1>3 DEF Kept, Spent, Alive, Similar, SameUploads, Slots
<1>7. \A s \in Slots : \A i \in DOMAIN up : Leads(s, i) <=> Leads(s, i)'
  BY DEF Leads, Similar, SameUploads
<1>8. QED  BY <1>1, <1>2, <1>4, <1>5, <1>6, <1>7 DEF Similar

\* The uploads' slots stay as they are.
LEMMA SimilarBooks ==
  ASSUME NEW w, Sizes, Inv, Inv', draft <= draft', Similar, DraftsSound, Led(w), SlotsOpened
  PROVE  DraftsSound' /\ Led(w)' /\ SlotsOpened'
<1>1. /\ DOMAIN up' = DOMAIN up
      /\ \A s \in Slots : storage'[s] = NoRecord <=> storage[s] = NoRecord
      /\ \A s \in Slots : \A i \in DOMAIN up : Leads(s, i) <=> Leads(s, i)'
      /\ \A k \in Slots : Usable(k) => Usable(k)'
  BY SimilarFacts
<1>2. draft' \in Nat /\ 0 \in Slots /\ Revisions \subseteq Slots
  BY DEF Inv, Types, Revisions, Slots, Sizes
<1>3. DraftsSound'
  BY <1>1, <1>2, Drafts DEF DraftsSound, Similar, SameUploads
<1>4. SlotsOpened'
  BY <1>1, <1>2 DEF SlotsOpened
<1>5. \A i \in Alive : Leads(w[i], i)'
  <2>1. \A i \in Alive : i \in DOMAIN up /\ w[i] \in Slots /\ Leads(w[i], i)
    BY LedBy DEF Alive, Led
  <2>2. QED  BY <1>1, <2>1
<1>6. Alive' = Alive
  BY <1>1 DEF Alive, Similar, SameUploads
<1>7. /\ \A i \in DOMAIN up' : w[i] \in {0, up'[i].draft}
      /\ forgot' = {} => \A i \in DOMAIN up' : w[i] # 0 => storage'[0].draft < up'[i].draft
  BY <1>1, <1>2 DEF Led, Similar, SameUploads
<1>8. QED  BY <1>3, <1>4, <1>5, <1>6, <1>7 DEF Led

\* What the tabs that are not under the lock, and the panels, rely on.
Grown(w, v) ==
  /\ draft <= draft' /\ (forgot' = {} => forgot = {})
  /\ \A k \in Revisions : forgot' = {} /\ Opened(k) => Opened(k)'
  /\ \A k \in Revisions : Kept(w, k) => Kept(v, k)'

\* The others may rely on it.
LEMMA SimilarGrown ==
  ASSUME NEW w, Sizes, Inv, Inv', draft <= draft', Similar
  PROVE  Grown(w, w)
<1>1. Revisions \subseteq Slots
  BY DEF Revisions, Slots, Sizes
<1>2. forgot' = forgot
  BY DEF Similar, SameUploads
<1>3. QED  BY <1>1, <1>2, SimilarFacts DEF Grown

\* A slot that was right for a draft stays right.
LEMMA GrownKey ==
  ASSUME NEW w, NEW v, Sizes, Inv, Inv', Grown(w, v), NEW key \in Slots, NEW rev \in Nat,
         KeySound(key, rev)
  PROVE  KeySound(key, rev)'
<1>1. draft \in Nat /\ draft' \in Nat /\ (key # 0 => key \in Revisions)
  BY DEF Inv, Types, Revisions, Slots
<1>2. QED  BY <1>1 DEF Grown, KeySound, Usable

\* A call that is not under the lock stays sound.
LEMMA GrownTurn ==
  ASSUME NEW w, NEW v, Sizes, Inv, Inv', Grown(w, v), NEW r \in UploadCall, CallSound(r),
         r.pc \in {"idle", "asking"}, TurnSound(w, r)
  PROVE  TurnSound(v, r)'
<1>1. r.rev \in Nat /\ r.key \in Slots
  BY DEF UploadCall
<1>2. CASE r.pc = "idle"
  BY <1>2 DEF TurnSound, Working
<1>3. CASE r.pc = "asking"
  <2>1. KeySound(r.key, r.rev)'
    BY <1>1, <1>3, GrownKey DEF TurnSound
  <2>2. QED  BY <1>3, <2>1 DEF TurnSound, Working
<1>4. QED  BY <1>2, <1>3

\* A panel stays sound.
LEMMA GrownPanel ==
  ASSUME NEW w, NEW v, Sizes, Inv, Inv', Grown(w, v),
         NEW p \in [rev: Revisions, key: Slots, staged: 0 .. NoStaged], Shows(w, p)
  PROVE  Shows(v, p)'
<1>1. p.rev \in Nat /\ p.key \in Slots
  BY DEF Revisions
<1>2. KeySound(p.key, p.rev)'
  BY <1>1, GrownKey DEF Shows
<1>3. QED  BY <1>2 DEF Shows, Grown

\* A step of one tab: its call is x and its panel is p now, and the uploads'
\* slots are v.
LEMMA OneTurn ==
  ASSUME NEW w, NEW v, NEW t \in Tabs, NEW x \in UploadCall, NEW p, Sizes, Inv, Inv', Books(w),
         run' = [run EXCEPT ![t] = x], panel' = [panel EXCEPT ![t] = p],
         DraftsSound', Led(v)', SlotsOpened', Grown(w, v),
         TurnSound(v, x)', Shows(v, p)', Attached(x, p),
         \/ lock = t
         \/ \A r \in UploadCall : CallSound(r) /\ TurnSound(w, r) => TurnSound(v, r)'
  PROVE  Books(v)'
<1>1. /\ run'[t] = x /\ \A u \in Tabs \ {t} : run'[u] = run[u]
      /\ panel'[t] = p /\ \A u \in Tabs \ {t} : panel'[u] = panel[u]
  BY DEF Inv, Types
<1>2. ASSUME NEW u \in Tabs, u # t PROVE TurnSound(v, run[u])' /\ Shows(v, panel[u])'
  <2>1. /\ run[u] \in UploadCall /\ CallSound(run[u]) /\ TurnSound(w, run[u]) /\ Shows(w, panel[u])
        /\ panel[u] \in [rev: Revisions, key: Slots, staged: 0 .. NoStaged]
        /\ run'[u] = run[u] /\ panel'[u] = panel[u]
    BY <1>1, <1>2 DEF Inv, Types, CallsSound, Books
  <2>2. Shows(v, panel[u])'
    <3>1. PICK q : q = panel[u]
      OBVIOUS
    <3>2. Shows(v, q)'
      BY <2>1, <3>1, GrownPanel
    <3>3. QED  BY <2>1, <3>1, <3>2
  <2>3. PICK r : r = run[u]
    OBVIOUS
  <2>4. TurnSound(v, r)'
    <3>1. CASE lock = t
      <4>1. r.pc \in {"idle", "asking"}
        BY <1>2, <2>3, <3>1 DEF Inv, LockSound, Active
      <4>2. QED  BY <2>1, <2>3, <4>1, GrownTurn
    <3>2. QED  BY <2>1, <2>3, <3>1
  <2>5. QED  BY <2>1, <2>2, <2>3, <2>4
<1>3. \A u \in Tabs : TurnSound(v, run[u])' /\ Shows(v, panel[u])' /\ Attached(run[u], panel[u])'
  <2> TAKE u \in Tabs
  <2>1. CASE u = t
    BY <1>1, <2>1 DEF Attached
  <2>2. CASE u # t
    <3>1. Attached(run[u], panel[u])
      BY DEF Books
    <3>2. QED  BY <1>1, <1>2, <2>2, <3>1 DEF Attached
  <2>3. QED  BY <2>1, <2>2
<1>4. QED  BY <1>3 DEF Books

\* A call that was sound stays so, when the service did nothing.
LEMMA SimilarTurn ==
  ASSUME NEW w, Sizes, Inv, Inv', draft <= draft', Similar, UNCHANGED up, NEW r \in UploadCall,
         TurnSound(w, r)
  PROVE  TurnSound(w, r)'
<1>1. /\ \A s \in Slots : storage'[s] = NoRecord <=> storage[s] = NoRecord
      /\ \A k \in Slots : Usable(k) => Usable(k)'
  BY SimilarFacts
<1>2. /\ r.rev \in Nat /\ r.key \in Slots /\ draft \in Nat /\ draft' \in Nat /\ r.rec.draft \in Nat
      /\ 0 \in Slots /\ forgot' = forgot /\ Alive' = Alive
  BY DEF UploadCall, Slots, Inv, Types, Revisions, Sizes, Record, NoRecord, Similar, SameUploads, Alive
<1>3. r.pc # "idle" => KeySound(r.key, r.rev)'
  BY <1>1, <1>2 DEF TurnSound, KeySound
<1>4. r.pc = "examining" => Examined(r)'
  BY <1>1, <1>2 DEF TurnSound, Examined, Similar
<1>5. r.pc = "reserving" /\ r.rev = draft' => storage'[r.key].draft = r.rev
  BY <1>2 DEF TurnSound, KeySound, Similar
<1>6. /\ r.pc \in {"reserved", "inspecting"} \cup Working => r.rec.draft <= draft'
      /\ r.pc \in {"inspecting"} \cup Working =>
           \/ storage'[r.key].id = r.rec.id
           \/ storage'[r.key] = NoRecord /\ r.rec.id \in forgot'
  BY <1>1, <1>2 DEF TurnSound, Similar
<1>7. QED  BY <1>2, <1>3, <1>4, <1>5, <1>6 DEF TurnSound

\* A step of one tab that changes no record's upload or draft, and nothing of
\* the service.
LEMMA SimilarStep ==
  ASSUME NEW w, NEW t \in Tabs, NEW x, NEW p, Sizes, Inv, Inv', Books(w), draft <= draft',
         Similar, UNCHANGED up, run' = [run EXCEPT ![t] = x], panel' = [panel EXCEPT ![t] = p],
         TurnSound(w, x), Shows(w, p)', Attached(x, p)
  PROVE  Books(w)'
<1>1. DraftsSound' /\ Led(w)' /\ SlotsOpened'
  BY SimilarBooks DEF Books
<1>2. \A r \in UploadCall : TurnSound(w, r) => TurnSound(w, r)'
  BY SimilarTurn
<1>3. x \in UploadCall
  BY DEF Inv, Types
<1>4. QED  BY <1>1, <1>2, <1>3, SimilarGrown, OneTurn

\* A panel that is refreshed shows what the records say.
LEMMA StageSound ==
  ASSUME NEW w, Sizes, Inv, Inv', SlotsOpened, NEW rev \in Revisions, NEW old,
         old \in Revisions => Kept(w, old), UNCHANGED <<storage, up, forgot>>,
         draft <= draft', rev <= draft', NEW p,
         p = [rev |-> rev, key |-> KeyFor(rev),
              staged |-> StageOf(storage[KeyFor(rev)], rev, KeyFor(rev), old)]
  PROVE  Shows(w, p)'
<1>1. PICK key : key = KeyFor(rev)
  OBVIOUS
<1>2. key \in {0, rev} /\ (key # 0 => storage[rev] # NoRecord) /\ key \in Slots
  BY <1>1 DEF KeyFor, Slots, Revisions, Sizes
<1>3. p.rev = rev /\ p.key = key /\ p.staged = StageOf(storage[key], rev, key, old)
  BY <1>1
<1>4. Similar
  BY DEF Similar, SameUploads
<1>5. KeySound(key, rev)'
  <2>1. Usable(key)
    BY <1>2 DEF SlotsOpened, Usable
  <2>2. Usable(key)'
    BY <1>2, <1>4, <2>1, SimilarFacts
  <2>3. QED  BY <1>2, <2>2 DEF KeySound
<1>6. ASSUME p.staged \in Revisions PROVE Kept(w, p.staged)
  <2>1. CASE p.staged = old
    BY <1>6, <2>1
  <2>2. CASE p.staged = NoStaged
    BY <1>6, <2>2 DEF NoStaged, Revisions, Sizes
  <2>3. CASE storage[key].state = "staged" /\ storage[key].draft = rev /\ p.staged = key
    BY <1>2, <2>3 DEF Inv, SlotsSound, Kept
  <2>4. QED  BY <1>3, <2>1, <2>2, <2>3 DEF StageOf
<1>7. p.staged \in Revisions => Kept(w, p.staged)'
  <2>1. Revisions \subseteq Slots
    BY DEF Revisions, Slots, Sizes
  <2>2. QED  BY <1>4, <1>6, <2>1, SimilarFacts
<1>8. QED  BY <1>3, <1>5, <1>7 DEF Shows

\* The author saves, or opens the saved draft.
LEMMA RefreshLedger ==
  ASSUME NEW w, NEW t \in Tabs, Sizes, Inv, Inv', Books(w), NEW rev \in Revisions, draft <= draft',
         rev <= draft', UNCHANGED <<storage, up, forgot>>, Refreshed(t, rev),
         run' = [run EXCEPT ![t] = IF @.pc = "idle" THEN @ ELSE Detached(t)]
  PROVE  Books(w)'
<1>1. PICK p : p = [rev |-> rev, key |-> KeyFor(rev),
                    staged |-> StageOf(storage[KeyFor(rev)], rev, KeyFor(rev), panel[t].staged)]
  OBVIOUS
<1>2. panel' = [panel EXCEPT ![t] = p]
  BY <1>1 DEF Refreshed
<1>3. Shows(w, p)'
  <2>1. panel[t].staged \in Revisions => Kept(w, panel[t].staged)
    BY DEF Books, Shows
  <2>2. QED  BY <1>1, <2>1, StageSound DEF Books
<1>4. PICK x : x = IF run[t].pc = "idle" THEN run[t] ELSE Detached(t)
  OBVIOUS
<1>5. run[t] \in UploadCall /\ CallSound(run[t]) /\ TurnSound(w, run[t]) /\ Attached(run[t], panel[t])
  BY DEF Inv, Types, CallsSound, Books
<1>6. /\ x \in UploadCall /\ x.pc = run[t].pc /\ x.mode = run[t].mode /\ x.rev = run[t].rev
      /\ x.key = run[t].key /\ x.file = run[t].file /\ x.rec = run[t].rec
      /\ x.remote = run[t].remote /\ x.op = run[t].op /\ x.left = run[t].left
      /\ ~x.current
  BY <1>4, <1>5 DEF Detached, UploadCall, Attached
<1>7. TurnSound(w, x) /\ Attached(x, p)
  BY <1>5, <1>6 DEF TurnSound, Examined, Attached
<1>8. run' = [run EXCEPT ![t] = x]
  BY <1>4 DEF Inv, Types
<1>9. Similar /\ UNCHANGED up
  BY DEF Similar, SameUploads
<1>10. QED  BY <1>2, <1>3, <1>6, <1>7, <1>8, <1>9, SimilarStep

\* The author saves.
LEMMA SaveDraftLedger ==
  ASSUME NEW w, NEW t \in Tabs, Sizes, Inv, Inv', Books(w), SaveDraft(t) PROVE Books(w)'
<1>1. /\ draft' = draft + 1 /\ draft' \in Revisions
      /\ UNCHANGED <<storage, up, forgot>> /\ Refreshed(t, draft')
      /\ run' = [run EXCEPT ![t] = IF @.pc = "idle" THEN @ ELSE Detached(t)]
  BY DEF SaveDraft, Inv, Types
<1>2. PICK rev \in Revisions : rev = draft'
  BY <1>1
<1>3. draft <= draft' /\ rev <= draft' /\ Refreshed(t, rev)
  BY <1>1, <1>2, Drafts
<1>4. QED  BY <1>1, <1>3, RefreshLedger

\* A tab opens the course again.
LEMMA ReopenLedger ==
  ASSUME NEW w, NEW t \in Tabs, Sizes, Inv, Inv', Books(w), Reopen(t) PROVE Books(w)'
<1>1. /\ draft' = draft /\ draft \in Revisions /\ UNCHANGED <<storage, up, forgot>> /\ Refreshed(t, draft)
      /\ run' = [run EXCEPT ![t] = IF @.pc = "idle" THEN @ ELSE Detached(t)]
  BY DEF Reopen, Inv, Types
<1>2. PICK rev \in Revisions : rev = draft
  BY <1>1
<1>3. draft <= draft' /\ rev <= draft' /\ Refreshed(t, rev)
  BY <1>1, <1>2, Drafts
<1>4. QED  BY <1>1, <1>3, RefreshLedger

\* A step that writes no record, of a call that goes on or is over.
LEMMA TurnStep ==
  ASSUME NEW w, NEW t \in Tabs, NEW x, NEW p, Sizes, Inv, Inv', Books(w),
         UNCHANGED <<draft, storage, up, forgot>>,
         run' = [run EXCEPT ![t] = x], panel' = [panel EXCEPT ![t] = p],
         TurnSound(w, x), Shows(w, p), Attached(x, p)
  PROVE  Books(w)'
<1>1. Similar
  BY DEF Similar, SameUploads
<1>2. draft <= draft'
  BY Drafts
<1>3. Shows(w, p)'
  BY DEF Shows, KeySound, Usable, Opened, Kept, Spent, Alive
<1>4. QED  BY <1>1, <1>2, <1>3, SimilarStep

\* The panel is as it was.
LEMMA PanelStays ==
  ASSUME NEW t \in Tabs, Inv, UNCHANGED panel
  PROVE  panel' = [panel EXCEPT ![t] = panel[t]]
BY DEF Inv, Types

\* Nothing is wrong with a call that is over.
LEMMA IdleTurn ==
  ASSUME NEW w, Sizes
  PROVE  /\ Idle \in UploadCall /\ CallSound(Idle) /\ TurnSound(w, Idle) /\ TurnSound(w, Idle)'
         /\ \A p : Attached(Idle, p)
<1>1. Idle.pc = "idle" /\ ~Idle.current
  BY DEF Idle
<1>2. QED  BY <1>1, IdleSound DEF TurnSound, Working, Attached

\* A call is over that wrote no record.
LEMMA LeaveLedger ==
  ASSUME NEW w, NEW t \in Tabs, Sizes, Inv, Inv', Books(w), Leave(t),
         UNCHANGED <<draft, storage, up, forgot, panel>>
  PROVE  Books(w)'
<1>1. run' = [run EXCEPT ![t] = Idle]
  BY DEF Leave
<1>2. Shows(w, panel[t])
  BY DEF Books
<1>3. QED  BY <1>1, <1>2, IdleTurn, PanelStays, TurnStep

\* A tab is closed.
LEMMA CloseTabLedger ==
  ASSUME NEW w, NEW t \in Tabs, Sizes, Inv, Inv', Books(w), CloseTab(t) PROVE Books(w)'
<1>1. PICK p : p = [rev |-> draft, key |-> KeyFor(draft),
                    staged |-> StageOf(storage[KeyFor(draft)], draft, KeyFor(draft), NoStaged)]
  OBVIOUS
<1>2. /\ run' = [run EXCEPT ![t] = Idle] /\ panel' = [panel EXCEPT ![t] = p]
      /\ UNCHANGED <<draft, storage, up, forgot>>
  BY <1>1 DEF CloseTab, Leave
<1>3. Shows(w, p)'
  <2>1. draft \in Revisions /\ draft <= draft' /\ NoStaged \notin Revisions
    BY <1>2, Drafts DEF Inv, Types, NoStaged, Revisions, Sizes
  <2>2. PICK rev \in Revisions : rev = draft
    BY <2>1
  <2>3. QED  BY <1>1, <1>2, <2>1, <2>2, StageSound DEF Books
<1>4. Similar /\ draft <= draft'
  BY <1>2, Drafts DEF Similar, SameUploads
<1>5. QED  BY <1>2, <1>3, <1>4, IdleTurn, SimilarStep

\* A tab's call is sound, and its panel.
LEMMA OwnTurn ==
  ASSUME NEW w, Sizes, NEW t \in Tabs, Inv, Books(w)
  PROVE  /\ run[t] \in UploadCall /\ CallSound(run[t]) /\ TurnSound(w, run[t])
         /\ Shows(w, panel[t]) /\ Attached(run[t], panel[t]) /\ run[t].key \in Slots
         /\ panel[t] \in [rev: Revisions, key: Slots, staged: 0 .. NoStaged]
         /\ run[t].pc # "idle" => run[t].rev \in Revisions /\ run[t].rev # 0 /\ run[t].rev \in Slots
BY DEF Inv, Types, CallsSound, CallSound, Books, UploadCall, Revisions, Slots, Sizes

\* The author selects a video.
LEMMA SelectLedger ==
  ASSUME NEW w, NEW t \in Tabs, NEW f \in Files, Sizes, Inv, Inv', Books(w), Select(t, f) PROVE Books(w)'
<1>1. PICK x : /\ x = run'[t] /\ run' = [run EXCEPT ![t] = x]
               /\ x.pc = "asking" /\ x.rev = panel[t].rev /\ x.key = panel[t].key
  <2>1. run' = [run EXCEPT ![t] = run'[t]]
    BY DEF Select, Inv, Types
  <2>2. run'[t].pc = "asking" /\ run'[t].rev = panel[t].rev /\ run'[t].key = panel[t].key
    BY DEF Select, Inv, Types, Idle, Sizes
  <2>3. QED  BY <2>1, <2>2
<1>2. UNCHANGED <<draft, storage, lock, panel, up, forgot>>
  BY DEF Select
<1>3. TurnSound(w, x) /\ Attached(x, panel[t])
  BY <1>1, OwnTurn DEF Shows, TurnSound, Attached, Working
<1>4. QED  BY <1>1, <1>2, <1>3, OwnTurn, PanelStays, TurnStep

\* The author asks for a check.
LEMMA CheckLedger ==
  ASSUME NEW w, NEW t \in Tabs, Sizes, Inv, Inv', Books(w), Check(t) PROVE Books(w)'
<1>1. PICK x : /\ x = run'[t] /\ run' = [run EXCEPT ![t] = x]
               /\ x.pc = "asking" /\ x.rev = panel[t].rev /\ x.key = panel[t].key
  <2>1. run' = [run EXCEPT ![t] = run'[t]]
    BY DEF Check, Inv, Types
  <2>2. run'[t].pc = "asking" /\ run'[t].rev = panel[t].rev /\ run'[t].key = panel[t].key
    BY DEF Check, Inv, Types, Idle, Sizes
  <2>3. QED  BY <2>1, <2>2
<1>2. UNCHANGED <<draft, storage, lock, panel, up, forgot>>
  BY DEF Check
<1>3. TurnSound(w, x) /\ Attached(x, panel[t])
  BY <1>1, OwnTurn DEF Shows, TurnSound, Attached, Working
<1>4. QED  BY <1>1, <1>2, <1>3, OwnTurn, PanelStays, TurnStep

\* The author pauses.
LEMMA PauseLedger ==
  ASSUME NEW w, NEW t \in Tabs, Sizes, Inv, Inv', Books(w), Pause(t) PROVE Books(w)'
<1>1. PICK x : x = [run[t] EXCEPT !.paused = TRUE]
  OBVIOUS
<1>2. /\ x.pc = run[t].pc /\ x.mode = run[t].mode /\ x.rev = run[t].rev /\ x.left = run[t].left
      /\ x.key = run[t].key /\ x.rec = run[t].rec /\ x.current = run[t].current
  BY <1>1, OwnTurn DEF UploadCall
<1>3. TurnSound(w, x) /\ Attached(x, panel[t])
  <2>1. TurnSound(w, run[t]) /\ Attached(run[t], panel[t])
    BY OwnTurn
  <2>2. QED  BY <1>2, <2>1 DEF TurnSound, Examined, Attached
<1>4. run' = [run EXCEPT ![t] = x] /\ UNCHANGED <<draft, storage, lock, panel, up, forgot>>
  BY <1>1 DEF Pause, Inv, Types
<1>5. QED  BY <1>3, <1>4, OwnTurn, PanelStays, TurnStep

\* A call takes the lock or is refused.
LEMMA AskLockLedger ==
  ASSUME NEW w, NEW t \in Tabs, Sizes, Inv, Inv', Books(w), AskLock(t) PROVE Books(w)'
<1>1. run[t].pc = "asking" /\ UNCHANGED <<draft, storage, up, forgot>>
  BY DEF AskLock
<1>2. CASE Leave(t) /\ UNCHANGED panel
  BY <1>1, <1>2, LeaveLedger
<1>3. ASSUME NEW key, NEW pc,
             key = IF run[t].mode = "run" /\ storage[run[t].rev] # NoRecord
                   THEN run[t].rev ELSE run[t].key,
             pc = CASE run[t].mode = "run" -> "preparing"
                    [] run[t].mode = "inspect" -> "loading"
                    [] run[t].mode = "restart" -> "listing",
             run' = [run EXCEPT ![t].pc = pc, ![t].key = key],
             panel' = IF run[t].current THEN [panel EXCEPT ![t].key = key] ELSE panel
      PROVE  Books(w)'
  <2>1. PICK x : x = [run[t] EXCEPT !.pc = pc, !.key = key]
    OBVIOUS
  <2>2. run[t].mode \in {"run", "inspect", "restart"}
    BY <1>1, OwnTurn DEF CallSound, UploadCall, Modes
  <2>3. /\ x.pc = pc /\ x.mode = run[t].mode /\ x.rev = run[t].rev /\ x.key = key
        /\ x.current = run[t].current
    BY <2>1, OwnTurn DEF UploadCall
  <2>4. KeySound(key, x.rev)
    BY <1>1, <1>3, <2>3, OwnTurn DEF TurnSound, KeySound, Books, SlotsOpened
  <2>5. TurnSound(w, x)
    BY <1>1, <1>3, <2>2, <2>3, <2>4, OwnTurn DEF TurnSound, Working
  <2>6. PICK p : p = IF run[t].current THEN [panel[t] EXCEPT !.key = key] ELSE panel[t]
    OBVIOUS
  <2>7. panel' = [panel EXCEPT ![t] = p] /\ run' = [run EXCEPT ![t] = x]
    <3>1. run' = [run EXCEPT ![t] = x]
      <4>1. run' = [run EXCEPT ![t].pc = pc, ![t].key = key]
        BY <1>3
      <4>2. QED  BY <2>1, <4>1 DEF Inv, Types
    <3>2. CASE run[t].current
      BY <1>3, <2>6, <3>1, <3>2 DEF Inv, Types
    <3>3. CASE ~run[t].current
      BY <1>3, <2>6, <3>1, <3>3 DEF Inv, Types
    <3>4. QED  BY <3>2, <3>3
  <2>8. Shows(w, p) /\ Attached(x, p)
    BY <1>1, <2>3, <2>4, <2>6, <1>3, <2>2, OwnTurn DEF Shows, Attached
  <2>9. QED  BY <1>1, <2>5, <2>7, <2>8, TurnStep
<1>4. QED  BY <1>2, <1>3 DEF AskLock

\* A restart lists the slots.
LEMMA ListSlotsLedger ==
  ASSUME NEW w, NEW t \in Tabs, Sizes, Inv, Inv', Books(w), ListSlots(t) PROVE Books(w)'
<1> DEFINE kept == {s \in Slots : storage[s] # NoRecord}
<1>1. run[t].pc = "listing" /\ UNCHANGED <<draft, storage, panel, up, forgot>>
  BY DEF ListSlots
<1>2. CASE Leave(t)
  BY <1>1, <1>2, LeaveLedger
<1>3. CASE kept # {} /\ run' = [run EXCEPT ![t].pc = "examining", ![t].left = kept]
  <2>1. PICK x : x = [run[t] EXCEPT !.pc = "examining", !.left = kept]
    BY Zenon
  <2>2. /\ x.pc = "examining" /\ x.mode = run[t].mode /\ x.rev = run[t].rev /\ x.left = kept
        /\ x.key = run[t].key /\ x.current = run[t].current
    BY <2>1, OwnTurn DEF UploadCall
  <2>3. forgot = {} => storage[0] # NoRecord
    <3>1. PICK s \in Slots : storage[s] # NoRecord
      BY <1>3
    <3>2. CASE s # 0
      <4>1. s \in Revisions /\ 0 \in Slots
        BY <3>2 DEF Slots, Revisions, Sizes
      <4>2. QED  BY <3>1, <4>1, Empty DEF Books, SlotsOpened, Usable, Opened, Revisions, Inv
    <3>3. QED  BY <3>1, <3>2
  <2>4. Examined(x)
    BY <2>2, <2>3 DEF Examined
  <2>5. TurnSound(w, x) /\ Attached(x, panel[t])
    BY <1>1, <2>2, <2>4, OwnTurn DEF TurnSound, Attached, Working
  <2>6. run' = [run EXCEPT ![t] = x]
    BY <1>3, <2>1 DEF Inv, Types
  <2>7. QED  BY <1>1, <2>5, <2>6, OwnTurn, PanelStays, TurnStep
<1>4. kept = {} => Cardinality(kept) = 0
  BY FS_EmptySet
<1>5. QED  BY <1>2, <1>3, <1>4 DEF ListSlots

\* A restart examines a predecessor.
LEMMA ExamineLedger ==
  ASSUME NEW w, NEW t \in Tabs, Sizes, Inv, Inv', Books(w), Examine(t) PROVE Books(w)'
<1>1. run[t].pc = "examining" /\ UNCHANGED <<draft, storage, panel, up, forgot>>
  BY DEF Examine
<1>2. CASE Leave(t)
  BY <1>1, <1>2, LeaveLedger
<1>3. ASSUME NEW s \in run[t].left, SlotIdle(t, s),
             run' = [run EXCEPT ![t].left = @ \ {s}]
      PROVE  Books(w)'
  <2>1. PICK x : x = [run[t] EXCEPT !.left = @ \ {s}]
    OBVIOUS
  <2>2. /\ x.pc = "examining" /\ x.mode = run[t].mode /\ x.rev = run[t].rev
        /\ x.left = run[t].left \ {s}
        /\ x.key = run[t].key /\ x.current = run[t].current
    BY <1>1, <2>1, OwnTurn DEF UploadCall
  <2>3. Examined(x)
    <3>1. Examined(run[t])
      BY <1>1, OwnTurn DEF TurnSound
    <3>2. QED  BY <1>3, <2>2, <3>1 DEF Examined, SlotIdle
  <2>4. TurnSound(w, x) /\ Attached(x, panel[t])
    BY <1>1, <2>2, <2>3, OwnTurn DEF TurnSound, Attached, Working
  <2>5. run' = [run EXCEPT ![t] = x]
    BY <1>3, <2>1 DEF Inv, Types
  <2>6. QED  BY <1>1, <2>4, <2>5, OwnTurn, PanelStays, TurnStep
<1>4. CASE run[t].left = {} /\ run' = [run EXCEPT ![t].pc = "preparing", ![t].key = run[t].rev]
  <2>1. PICK x : x = [run[t] EXCEPT !.pc = "preparing", !.key = run[t].rev]
    OBVIOUS
  <2>2. /\ x.pc = "preparing" /\ x.mode = run[t].mode /\ x.rev = run[t].rev
        /\ x.key = run[t].rev /\ x.current = run[t].current
    BY <2>1, OwnTurn DEF UploadCall
  <2>3. ASSUME forgot = {} PROVE Opened(run[t].rev)
    <3>1. /\ storage[0] # NoRecord /\ 0 \in Slots /\ run[t].rev <= draft
          /\ \A s \in Slots : storage[s] # NoRecord =>
               /\ storage[s].id # 0 /\ storage[s].draft # run[t].rev
               /\ up[storage[s].id].op = NoOp
      <4>1. Examined(run[t]) /\ KeySound(run[t].key, run[t].rev)
        BY <1>1, OwnTurn DEF TurnSound
      <4>2. QED  BY <1>4, <2>3, <4>1 DEF Examined, KeySound, Slots, Sizes
    <3>2. ASSUME NEW i \in DOMAIN up PROVE up[i].op = NoOp
      <4>1. i \in Alive
        BY <2>3 DEF Alive
      <4>2. PICK s \in Slots : storage[s] # NoRecord /\ storage[s].id \in {0, i}
        BY <4>1, LedBy DEF Books
      <4>3. QED  BY <3>1, <4>2
    <3>3. QED  BY <3>1, <3>2 DEF Opened
  <2>4. KeySound(run[t].rev, run[t].rev)
    BY <1>1, <2>3, OwnTurn DEF TurnSound, KeySound, Usable
  <2>5. TurnSound(w, x) /\ Attached(x, panel[t])
    BY <1>1, <2>2, <2>4, OwnTurn DEF TurnSound, Attached, Working
  <2>6. run' = [run EXCEPT ![t] = x]
    BY <1>4, <2>1 DEF Inv, Types
  <2>7. QED  BY <1>1, <2>5, <2>6, OwnTurn, PanelStays, TurnStep
<1>5. QED  BY <1>2, <1>3, <1>4 DEF Examine

\* A call that takes up the record of its slot.
LEMMA TakesUp ==
  ASSUME NEW w, NEW t \in Tabs, Sizes, Inv, Inv', Books(w), run[t].pc # "idle",
         UNCHANGED <<draft, storage, panel, up, forgot>>, storage[run[t].key].id # 0,
         run[t].pc = "loading" \/ storage[run[t].key].draft = run[t].rev,
         NEW x \in UploadCall, x.pc \in {"reading", "inspecting"}, x.rec = storage[run[t].key],
         x.rev = run[t].rev, x.key = run[t].key, x.current = run[t].current,
         run' = [run EXCEPT ![t] = x]
  PROVE  Books(w)'
<1> DEFINE old == storage[run[t].key]
<1>1. old # NoRecord /\ old.draft <= draft /\ up[old.id].draft = old.draft
      /\ (run[t].key # 0 => old.draft = run[t].key)
  BY OwnTurn, Empty DEF Books, DraftsSound, Inv
<1>2. KeySound(x.key, x.rev)
  BY <1>1, OwnTurn DEF TurnSound, KeySound
<1>3. TurnSound(w, x)
  BY <1>1, <1>2 DEF TurnSound, Working
<1>4. Attached(x, panel[t])
  BY OwnTurn DEF Attached
<1>5. QED  BY <1>3, <1>4, OwnTurn, PanelStays, TurnStep

\* A check takes up a record.
LEMMA LoadLedger ==
  ASSUME NEW w, NEW t \in Tabs, Sizes, Inv, Inv', Books(w), Load(t) PROVE Books(w)'
<1> DEFINE rec == storage[run[t].key]
<1>1. run[t].pc = "loading" /\ UNCHANGED <<draft, storage, panel, up, forgot>>
  BY DEF Load
<1>2. CASE Leave(t)
  BY <1>1, <1>2, LeaveLedger
<1>3. CASE /\ rec.id # 0
           /\ run' = [run EXCEPT ![t].pc = "inspecting", ![t].rec = rec, ![t].remote = up[rec.id]]
  <2>1. PICK x : x = [run[t] EXCEPT !.pc = "inspecting", !.rec = rec, !.remote = up[rec.id]]
    OBVIOUS
  <2>2. /\ x.pc = "inspecting" /\ x.rev = run[t].rev /\ x.rec = rec
        /\ x.key = run[t].key /\ x.current = run[t].current
    BY <2>1, OwnTurn DEF UploadCall
  <2>3. run' = [run EXCEPT ![t] = x]
    BY <1>3, <2>1 DEF Inv, Types
  <2>4. x \in UploadCall
    BY <2>3 DEF Inv, Types
  <2>5. QED  BY <1>1, <1>3, <2>2, <2>3, <2>4, TakesUp
<1>4. QED  BY <1>2, <1>3 DEF Load

\* The reply to a reservation is lost: its record stays.
LEMMA LoseReservationLedger ==
  ASSUME NEW w, NEW t \in Tabs, Sizes, Inv, Inv', Books(w), LoseReservation(t) PROVE Books(w)'
BY LeaveLedger DEF LoseReservation

(***************************************************************************)
(* The steps that write a record.                                          *)
(***************************************************************************)
\* No upload's draft changes.
SameDrafts == draft' = draft /\ SameUploads

\* No upload but id was asked for through the slot k.
Only(w, k, id) == \A i \in Alive : w[i] = k => i = id

\* A record that is written to a slot that no other upload was asked for through.
LEMMA Writes ==
  ASSUME NEW w, Sizes, Inv, Inv', DraftsSound, Led(w), SlotsOpened, SameDrafts,
         NEW k \in Slots, NEW new \in Record, storage' = [storage EXCEPT ![k] = new],
         new.draft <= draft, k # 0 => new.draft = k, storage[k].id = 0, Usable(k),
         new.id # 0 => new.id \in DOMAIN up /\ up[new.id].draft = new.draft,
         Only(w, k, new.id)
  PROVE  /\ DraftsSound' /\ Led(w)' /\ SlotsOpened' /\ Grown(w, w) /\ DOMAIN up' = DOMAIN up
         /\ storage'[k] = new /\ \A s \in Slots \ {k} : storage'[s] = storage[s]
<1>1. /\ storage'[k] = new /\ \A s \in Slots \ {k} : storage'[s] = storage[s]
      /\ new # NoRecord /\ new.id \in Nat /\ new.draft \in Nat
      /\ draft' = draft /\ forgot' = forgot /\ draft \in Nat /\ 0 \in Slots
      /\ \A i \in DOMAIN up : up'[i].draft = up[i].draft
  BY Drafts DEF Inv, Types, Record, NoRecord, Revisions, Sizes, SameDrafts, SameUploads, Slots
<1>2. DOMAIN up' = DOMAIN up
  <2>1. DOMAIN up = 1 .. Len(up) /\ DOMAIN up' = 1 .. Len(up')
    BY TheUpload DEF Inv
  <2>2. QED  BY <2>1 DEF SameDrafts, SameUploads
<1>3. Alive' = Alive
  BY <1>1, <1>2 DEF Alive
<1>4. ASSUME NEW s \in Revisions, Opened(s) PROVE Opened(s)'
  <2>1. s \in Nat /\ k # 0
    BY <1>4 DEF Opened, Revisions
  <2>2. s <= draft' /\ storage'[0].id # 0 /\ storage'[0].draft # s
    BY <1>1, <1>4, <2>1 DEF Opened
  <2>3. ASSUME NEW i \in DOMAIN up, up[i].draft < s PROVE up'[i].op = NoOp
    BY <1>1, <1>4, <2>1, <2>3, Drafts DEF Opened, SameDrafts, SameUploads
  <2>4. QED  BY <1>1, <1>2, <2>2, <2>3 DEF Opened
<1>5. SlotsOpened'
  <2>1. \A s \in Revisions : Usable(s) => Usable(s)'
    BY <1>1, <1>4 DEF Usable
  <2>2. \A s \in Revisions : storage'[s] # NoRecord => s = k \/ storage[s] # NoRecord
    BY <1>1 DEF Revisions, Slots, Sizes
  <2>3. QED  BY <2>1, <2>2 DEF SlotsOpened
<1>6. Led(w)'
  <2>1. ASSUME NEW i \in Alive PROVE Leads(w[i], i)'
    <3>1. i \in DOMAIN up /\ w[i] \in Slots /\ Leads(w[i], i)
      BY LedBy DEF Alive, Led
    <3>2. CASE w[i] = k
      BY <1>1, <3>2 DEF Leads, Only
    <3>3. CASE w[i] # k
      BY <1>1, <3>1, <3>3 DEF Leads
    <3>4. QED  BY <3>2, <3>3
  <2>2. ASSUME forgot = {}, NEW i \in DOMAIN up, w[i] # 0
        PROVE  storage'[0].draft < up'[i].draft
    <3>1. CASE k = 0
      BY <2>2, <3>1, BaseFirst
    <3>2. CASE k # 0
      BY <1>1, <2>2, <3>2 DEF Led
    <3>3. QED  BY <3>1, <3>2
  <2>3. \A i \in DOMAIN up : w[i] \in {0, up'[i].draft}
    BY <1>1 DEF Led
  <2>4. \A i, j \in Alive : w[i] = w[j] => i = j
    BY DEF Led
  <2>5. QED  BY <1>1, <1>2, <1>3, <2>1, <2>2, <2>3, <2>4 DEF Led
<1>7. DraftsSound'
  <2>1. ASSUME NEW s \in Slots, storage'[s] # NoRecord
        PROVE  /\ storage'[s].draft <= draft'
               /\ s # 0 => storage'[s].draft = s
               /\ storage'[s].id # 0 => up'[storage'[s].id].draft = storage'[s].draft
    <3>1. CASE s = k
      BY <1>1, <3>1
    <3>2. CASE s # k
      BY <1>1, <2>1, <3>2, Drafts DEF DraftsSound
    <3>3. QED  BY <3>1, <3>2
  <2>2. QED  BY <1>1, <1>2, <2>1 DEF DraftsSound
<1>8. Grown(w, w)
  <2>1. ASSUME NEW j \in Revisions, Kept(w, j) PROVE Kept(w, j)'
    BY <1>1, <1>3, <2>1 DEF Kept, Spent, Revisions, Slots
  <2>2. QED  BY <1>1, <1>4, <2>1 DEF Grown
<1>9. QED  BY <1>1, <1>2, <1>5, <1>6, <1>7, <1>8

\* No upload was asked for through the slot k, or it was let go.
Left(w, k) == \A i \in Alive : w[i] # k

\* A slot that is cleared, of which no upload is left that was not let go.
LEMMA Cleared ==
  ASSUME NEW w, Sizes, Inv, Inv', DraftsSound, Led(w), SlotsOpened, NEW k \in Slots,
         storage' = [storage EXCEPT ![k] = NoRecord], UNCHANGED up, draft <= draft',
         forgot \subseteq forgot', forgot' \subseteq DOMAIN up, Left(w, k)',
         k = 0 /\ forgot' = {} => storage[0].id = 0,
         k # 0 /\ storage[k].id # 0 => k < draft'
  PROVE  /\ DraftsSound' /\ Led(w)' /\ SlotsOpened' /\ Grown(w, w)
         /\ storage'[k] = NoRecord /\ \A s \in Slots \ {k} : storage'[s] = storage[s]
<1>1. /\ storage'[k] = NoRecord /\ \A s \in Slots \ {k} : storage'[s] = storage[s]
      /\ NoRecord.id = 0 /\ NoRecord.draft = 0 /\ draft \in Nat /\ draft' \in Nat /\ 0 \in Slots
      /\ Alive' \subseteq Alive /\ (forgot' = {} => forgot = {})
  BY Clears, Drafts DEF NoRecord, Slots, Sizes, Alive, Inv, Types, Revisions
<1>2. ASSUME NEW s \in Revisions, forgot' = {}, Opened(s) PROVE Opened(s)'
  BY <1>1, <1>2 DEF Opened, Revisions
<1>3. SlotsOpened'
  <2>1. \A s \in Revisions : Usable(s) => Usable(s)'
    BY <1>1, <1>2 DEF Usable
  <2>2. \A s \in Revisions : storage'[s] # NoRecord => storage[s] # NoRecord
    BY <1>1 DEF Revisions, Slots
  <2>3. QED  BY <2>1, <2>2 DEF SlotsOpened
<1>4. Led(w)'
  <2>1. ASSUME NEW i \in Alive' PROVE Leads(w[i], i)'
    <3>1. i \in Alive /\ w[i] # k
      BY <1>1, <2>1 DEF Left
    <3>2. w[i] \in Slots /\ Leads(w[i], i)
      BY <3>1, LedBy DEF Led
    <3>3. QED  BY <1>1, <3>1, <3>2 DEF Leads
  <2>2. ASSUME forgot' = {}, NEW i \in DOMAIN up, w[i] # 0
        PROVE  storage'[0].draft < up[i].draft
    <3>1. CASE k = 0
      BY <1>1, <3>1, Drafts
    <3>2. CASE k # 0
      BY <1>1, <2>2, <3>2 DEF Led
    <3>3. QED  BY <3>1, <3>2
  <2>3. \A i \in DOMAIN up : w[i] \in {0, up[i].draft}
    BY DEF Led
  <2>4. \A i, j \in Alive' : w[i] = w[j] => i = j
    BY <1>1 DEF Led
  <2>5. QED  BY <2>1, <2>2, <2>3, <2>4 DEF Led
<1>5. DraftsSound'
  <2>1. ASSUME NEW s \in Slots, storage'[s] # NoRecord
        PROVE  /\ storage'[s].draft <= draft'
               /\ s # 0 => storage'[s].draft = s
               /\ storage'[s].id # 0 => up[storage'[s].id].draft = storage'[s].draft
    <3>1. storage'[s] = storage[s] /\ storage[s] # NoRecord
      BY <1>1, <2>1
    <3>2. QED  BY <1>1, <3>1, Drafts DEF DraftsSound
  <2>2. \A i \in DOMAIN up : up[i].draft <= draft'
    BY <1>1, Drafts DEF DraftsSound
  <2>3. QED  BY <2>1, <2>2 DEF DraftsSound
<1>6. Grown(w, w)
  <2>1. ASSUME NEW j \in Revisions, Kept(w, j) PROVE Kept(w, j)'
    <3>1. j \in Nat /\ j \in Slots /\ j # 0
      BY DEF Revisions, Slots, Sizes
    <3>2. CASE Spent(w, j)
      BY <1>1, <3>1, <3>2 DEF Kept, Spent
    <3>3. CASE storage[j].id # 0 /\ j = k
      BY <1>1, <3>1, <3>3 DEF Kept, Spent, Left
    <3>4. CASE storage[j].id # 0 /\ j # k
      BY <1>1, <3>1, <3>4 DEF Kept
    <3>5. QED  BY <2>1, <3>2, <3>3, <3>4 DEF Kept
  <2>2. QED  BY <1>1, <1>2, <2>1 DEF Grown
<1>7. QED  BY <1>1, <1>3, <1>4, <1>5, <1>6

\* A call that works on an upload writes its record, or leaves it.
LEMMA OwnWrites ==
  ASSUME NEW w, NEW t \in Tabs, Sizes, Inv, Inv', Books(w), SameDrafts,
         run[t].pc \in {"inspecting"} \cup Working,
         \/ storage' = storage
         \/ \E new \in Record : /\ storage' = [storage EXCEPT ![run[t].key] = new]
                                 /\ new.id = run[t].rec.id /\ new.draft = run[t].rec.draft
  PROVE  /\ DraftsSound' /\ Led(w)' /\ SlotsOpened' /\ Grown(w, w) /\ DOMAIN up' = DOMAIN up /\ lock = t
         /\ \/ storage'[run[t].key].id = run[t].rec.id
            \/ storage'[run[t].key] = NoRecord /\ run[t].rec.id \in forgot
<1> DEFINE r == run[t]
<1>1. /\ r.key \in Slots /\ r.rec \in Record /\ r.rec.id \in DOMAIN up /\ lock = t
      /\ r.rec.id # 0
  BY OwnCall, Drafts
<1>2. /\ r.rec.draft <= draft /\ (r.key # 0 => r.rec.draft = r.key)
      /\ up[r.rec.id].draft = r.rec.draft
      /\ storage[r.key].id = r.rec.id \/ (storage[r.key] = NoRecord /\ r.rec.id \in forgot)
  BY OwnTurn DEF TurnSound
<1>3. ASSUME Similar PROVE /\ DraftsSound' /\ Led(w)' /\ SlotsOpened' /\ Grown(w, w)
                           /\ DOMAIN up' = DOMAIN up
  <2>1. draft <= draft'
    BY Drafts DEF SameDrafts
  <2>2. QED  BY <1>3, <2>1, SimilarBooks, SimilarGrown, SimilarFacts DEF Books
<1>4. CASE storage' = storage
  BY <1>1, <1>2, <1>3, <1>4 DEF Similar, SameDrafts
<1>5. ASSUME NEW new \in Record, storage' = [storage EXCEPT ![r.key] = new],
             new.id = r.rec.id, new.draft = r.rec.draft
      PROVE  /\ DraftsSound' /\ Led(w)' /\ SlotsOpened' /\ Grown(w, w) /\ DOMAIN up' = DOMAIN up
             /\ storage'[r.key].id = r.rec.id
  <2>1. storage'[r.key] = new /\ \A s \in Slots \ {r.key} : storage'[s] = storage[s]
    BY <1>1, <1>5 DEF Inv, Types
  <2>2. CASE storage[r.key].id = r.rec.id
    <3>1. storage[r.key].draft = r.rec.draft
      <4>1. storage[r.key] # NoRecord
        BY <1>1, <2>2, Empty DEF Inv
      <4>2. QED  BY <1>1, <1>2, <2>2, <4>1 DEF Books, DraftsSound
    <3>2. Similar
      BY <1>1, <1>5, <2>1, <2>2, <3>1 DEF Similar, SameDrafts
    <3>3. QED  BY <1>3, <1>5, <2>1, <3>2
  <2>3. CASE storage[r.key] = NoRecord /\ r.rec.id \in forgot
    <3>1. PICK k \in Slots : k = r.key
      BY <1>1
    <3>2. storage[k].id = 0 /\ Usable(k)
      BY <2>3, <3>1 DEF NoRecord, Usable
    <3>3. Only(w, k, new.id)
      BY <2>3, <3>1, LedBy DEF Books, Only
    <3>4. new.draft <= draft /\ (k # 0 => new.draft = k)
      BY <1>2, <1>5, <3>1
    <3>5. new.id \in DOMAIN up /\ up[new.id].draft = new.draft
      BY <1>1, <1>2, <1>5
    <3>6. storage' = [storage EXCEPT ![k] = new]
      BY <1>5, <3>1
    <3>7. DraftsSound /\ Led(w) /\ SlotsOpened
      BY DEF Books
    <3>8. DraftsSound' /\ Led(w)' /\ SlotsOpened' /\ Grown(w, w) /\ DOMAIN up' = DOMAIN up
      BY <3>2, <3>3, <3>4, <3>5, <3>6, <3>7, Writes
    <3>9. QED  BY <1>5, <2>1, <3>8
  <2>4. QED  BY <1>2, <2>2, <2>3
<1>6. QED  BY <1>1, <1>4, <1>5

\* Such a call is over, or goes on with that upload.
LEMMA OwnStep ==
  ASSUME NEW w, NEW t \in Tabs, Sizes, Inv, Inv', Books(w), SameDrafts,
         run[t].pc \in {"inspecting"} \cup Working,
         \/ storage' = storage
         \/ \E new \in Record : /\ storage' = [storage EXCEPT ![run[t].key] = new]
                                 /\ new.id = run[t].rec.id /\ new.draft = run[t].rec.draft,
         NEW x \in UploadCall, run' = [run EXCEPT ![t] = x],
         \/ x = Idle
         \/ /\ x.pc \in Working /\ x.rev = run[t].rev /\ x.key = run[t].key
            /\ x.current = run[t].current
            /\ x.rec.id = run[t].rec.id /\ x.rec.draft = run[t].rec.draft,
         NEW p, panel' = [panel EXCEPT ![t] = p],
         \/ p = panel[t]
         \/ /\ p = [panel[t] EXCEPT !.staged = run[t].key]
            /\ storage'[run[t].key] # NoRecord
  PROVE  Books(w)'
<1> DEFINE r == run[t]
<1>1. /\ DraftsSound' /\ Led(w)' /\ SlotsOpened' /\ Grown(w, w) /\ DOMAIN up' = DOMAIN up /\ lock = t
      /\ \/ storage'[run[t].key].id = run[t].rec.id
         \/ storage'[run[t].key] = NoRecord /\ run[t].rec.id \in forgot
  BY OwnWrites
<1>2. /\ r.rec.draft <= draft /\ (r.key # 0 => r.rec.draft = r.key)
      /\ up[r.rec.id].draft = r.rec.draft /\ r.rec.id \in DOMAIN up
      /\ KeySound(r.key, r.rev) /\ r.rev \in Revisions
  BY OwnTurn, OwnCall, <1>1 DEF TurnSound, Working
<1>3. TurnSound(w, x)'
  <2>1. CASE x = Idle
    BY <2>1, IdleTurn
  <2>2. CASE /\ x.pc \in Working /\ x.rev = r.rev /\ x.key = r.key
             /\ x.rec.id = r.rec.id /\ x.rec.draft = r.rec.draft
    <3>1. PICK q : q = r
      OBVIOUS
    <3>2. KeySound(q.key, q.rev)'
      <4>1. q.key \in Slots /\ q.rev \in Nat /\ KeySound(q.key, q.rev)
        BY <1>2, <3>1, OwnTurn DEF Revisions
      <4>2. QED  BY <1>1, <4>1, GrownKey
    <3>3. q.key = x.key /\ q.rev = x.rev
      BY <2>2, <3>1
    <3>4. KeySound(x.key, x.rev)'
      BY <3>2, <3>3
    <3>5. /\ x.rec.draft <= draft' /\ (x.key # 0 => x.rec.draft = x.key)
          /\ up'[x.rec.id].draft = x.rec.draft
          /\ \/ storage'[x.key].id = x.rec.id
             \/ storage'[x.key] = NoRecord /\ x.rec.id \in forgot'
      BY <1>1, <1>2, <2>2 DEF SameDrafts, SameUploads
    <3>6. QED  BY <2>2, <3>4, <3>5 DEF TurnSound, Working
  <2>3. QED  BY <2>1, <2>2
<1>4. Shows(w, p)'
  <2>1. PICK q \in [rev: Revisions, key: Slots, staged: 0 .. NoStaged] : q = panel[t]
    BY OwnTurn
  <2>2. Shows(w, q)'
    BY <1>1, <2>1, OwnTurn, GrownPanel
  <2>3. CASE p = q
    BY <2>2, <2>3
  <2>4. CASE /\ p = [panel[t] EXCEPT !.staged = r.key]
             /\ storage'[r.key] # NoRecord
    <3>1. p.rev = q.rev /\ p.key = q.key /\ p.staged = r.key
      BY <2>1, <2>4
    <3>2. PICK k : k = r.key
      OBVIOUS
    <3>3. Kept(w, k)'
      BY <1>1, <1>2, <2>4, <3>2, Drafts DEF Kept
    <3>4. p.staged \in Revisions => Kept(w, p.staged)'
      BY <3>1, <3>2, <3>3 DEF Revisions
    <3>5. QED  BY <2>2, <3>1, <3>4 DEF Shows
  <2>5. QED  BY <2>1, <2>3, <2>4
<1>5. Attached(x, p)
  <2>1. p.rev = panel[t].rev
    BY OwnTurn
  <2>2. QED  BY <1>1, <2>1, OwnTurn, IdleTurn DEF Attached, Working
<1>6. QED  BY <1>1, <1>3, <1>4, <1>5, OneTurn

\* The service changes an upload, and not its draft.
LEMMA DraftStays ==
  ASSUME Inv, Inv', NEW i \in DOMAIN up, NEW v, v.draft = up[i].draft,
         v.op = NoOp \/ up[i].draft = draft, draft \in Nat,
         up' = [up EXCEPT ![i] = v], UNCHANGED <<draft, forgot>>
  PROVE  SameDrafts
<1>1. /\ DOMAIN up' = DOMAIN up /\ up'[i] = v /\ \A j \in DOMAIN up \ {i} : up'[j] = up[j]
  OBVIOUS
<1>2. /\ DOMAIN up = 1 .. Len(up) /\ DOMAIN up' = 1 .. Len(up')
      /\ Len(up) \in Nat /\ Len(up') \in Nat
  BY LenProperties DEF Inv, Types
<1>3. Len(up') = Len(up)
  BY <1>1, <1>2
<1>4. QED  BY <1>1, <1>3 DEF SameDrafts, SameUploads

\* A step that leaves the drafts and the service alone.
LEMMA UpStays == ASSUME UNCHANGED <<draft, up, forgot>> PROVE SameDrafts
BY DEF SameDrafts, SameUploads

\* A call that stops.
LEMMA StopLedger ==
  ASSUME NEW w, NEW t \in Tabs, Sizes, Inv, Inv', Books(w), SameDrafts,
         run[t].pc \in {"inspecting"} \cup Working, Stop(t, run[t].rec), UNCHANGED panel
  PROVE  Books(w)'
<1>1. run' = [run EXCEPT ![t] = Idle] /\ run[t].rec \in Record
  BY OwnCall DEF Stop, Leave
<1>2. PICK new : new = [run[t].rec EXCEPT !.state = "paused"]
  OBVIOUS
<1>3. new \in Record /\ new.id = run[t].rec.id /\ new.draft = run[t].rec.draft
  BY <1>1, <1>2 DEF Record
<1>4. storage' = storage \/ storage' = [storage EXCEPT ![run[t].key] = new]
  BY <1>2 DEF Stop
<1>5. \/ storage' = storage
      \/ \E q \in Record : /\ storage' = [storage EXCEPT ![run[t].key] = q]
                            /\ q.id = run[t].rec.id /\ q.draft = run[t].rec.draft
  BY <1>3, <1>4
<1>6. QED  BY <1>1, <1>5, IdleTurn, PanelStays, OwnStep

\* A call that goes on with its upload and record.
LEMMA GoesOnLedger ==
  ASSUME NEW w, NEW t \in Tabs, Sizes, Inv, Inv', Books(w), SameDrafts, run[t].pc \in Working,
         UNCHANGED <<storage, panel>>, NEW x, run' = [run EXCEPT ![t] = x],
         x.pc \in Working, x.rev = run[t].rev, x.key = run[t].key,
         x.current = run[t].current, x.rec = run[t].rec
  PROVE  Books(w)'
<1>1. x \in UploadCall
  BY DEF Inv, Types
<1>2. QED  BY <1>1, PanelStays, OwnStep

\* A call reads its upload.
LEMMA ReadLedger ==
  ASSUME NEW w, NEW t \in Tabs, Sizes, Inv, Inv', Books(w), Read(t) PROVE Books(w)'
<1>1. PICK x : x = [run[t] EXCEPT !.pc = "deciding", !.remote = up[run[t].rec.id]]
  OBVIOUS
<1>2. /\ x.pc \in Working /\ x.rev = run[t].rev /\ x.key = run[t].key
      /\ x.current = run[t].current /\ x.rec = run[t].rec
  BY <1>1, OwnTurn DEF UploadCall, Working
<1>3. run' = [run EXCEPT ![t] = x]
  BY <1>1 DEF Read, Inv, Types
<1>4. run[t].pc \in Working /\ UNCHANGED <<draft, storage, panel, up, forgot>>
  BY DEF Read, Working
<1>5. QED  BY <1>2, <1>3, <1>4, UpStays, GoesOnLedger

\* A reply is lost.
LEMMA LoseReplyLedger ==
  ASSUME NEW w, NEW t \in Tabs, Sizes, Inv, Inv', Books(w), LoseReply(t) PROVE Books(w)'
BY UpStays, StopLedger DEF LoseReply, Working

\* An operation is prepared.
LEMMA PlanLedger ==
  ASSUME NEW w, NEW t \in Tabs, Sizes, Inv, Inv', Books(w), Plan(t) PROVE Books(w)'
<1> DEFINE r == run[t]
           u == up[r.rec.id]
<1>1. r.pc \in Working /\ UNCHANGED <<draft, panel, forgot>> /\ r.rec.id \in DOMAIN up
      /\ u \in Upload
  BY OwnCall, TheUpload DEF Plan, Working, Inv
<1>2. CASE Stop(t, r.rec) /\ UNCHANGED up
  BY <1>1, <1>2, UpStays, StopLedger
<1>3. ASSUME NEW op, up' = [up EXCEPT ![r.rec.id].op = op, ![r.rec.id].fence = op.fence],
             run' = [run EXCEPT ![t].pc = "executing", ![t].op = op], UNCHANGED storage,
             u.draft = draft
      PROVE  Books(w)'
  <2>1. PICK v : v = [u EXCEPT !.op = op, !.fence = op.fence]
    OBVIOUS
  <2>2. v.draft = u.draft /\ up' = [up EXCEPT ![r.rec.id] = v] /\ draft \in Nat
    BY <1>1, <1>3, <2>1, Drafts DEF Upload
  <2>3. PICK x : x = [r EXCEPT !.pc = "executing", !.op = op]
    OBVIOUS
  <2>4. /\ x.pc \in Working /\ x.rev = run[t].rev /\ x.key = run[t].key
        /\ x.current = run[t].current /\ x.rec = run[t].rec
    BY <2>3, OwnTurn DEF UploadCall, Working
  <2>5. run' = [run EXCEPT ![t] = x]
    BY <1>3, <2>3 DEF Inv, Types
  <2>6. SameDrafts
    BY <1>1, <1>3, <2>2, DraftStays
  <2>7. QED  BY <1>1, <1>3, <2>4, <2>5, <2>6, GoesOnLedger
<1>4. QED  BY <1>2, <1>3 DEF Plan

\* An operation is executed.
LEMMA ExecuteLedger ==
  ASSUME NEW w, NEW t \in Tabs, Sizes, Inv, Inv', Books(w), Execute(t) PROVE Books(w)'
<1> DEFINE r == run[t]
           u == up[r.rec.id]
<1>1. r.pc \in Working /\ UNCHANGED <<draft, panel, forgot>> /\ r.rec.id \in DOMAIN up
      /\ u \in Upload
  BY OwnCall, TheUpload DEF Execute, Working, Inv
<1>2. CASE Stop(t, r.rec) /\ UNCHANGED up
  BY <1>1, <1>2, UpStays, StopLedger
<1>3. ASSUME up' = [up EXCEPT ![r.rec.id].op = NoOp, ![r.rec.id].files = Effect(@, r.op)],
             run' = [run EXCEPT ![t].pc = "reading"], UNCHANGED storage
      PROVE  Books(w)'
  <2>1. PICK v : v = [u EXCEPT !.op = NoOp, !.files = Effect(@, r.op)]
    OBVIOUS
  <2>2. v.draft = u.draft /\ v.op = NoOp /\ up' = [up EXCEPT ![r.rec.id] = v] /\ draft \in Nat
    BY <1>1, <1>3, <2>1, Drafts DEF Upload
  <2>3. PICK x : x = [r EXCEPT !.pc = "reading"]
    OBVIOUS
  <2>4. /\ x.pc \in Working /\ x.rev = run[t].rev /\ x.key = run[t].key
        /\ x.current = run[t].current /\ x.rec = run[t].rec
    BY <2>3, OwnTurn DEF UploadCall, Working
  <2>5. run' = [run EXCEPT ![t] = x]
    BY <1>3, <2>3 DEF Inv, Types
  <2>6. SameDrafts
    BY <1>1, <2>2, DraftStays
  <2>7. QED  BY <1>1, <1>3, <2>4, <2>5, <2>6, GoesOnLedger
<1>4. QED  BY <1>2, <1>3 DEF Execute

\* An operation's outcome is unknown.
LEMMA ExecuteUncertainLedger ==
  ASSUME NEW w, NEW t \in Tabs, Sizes, Inv, Inv', Books(w), ExecuteUncertain(t) PROVE Books(w)'
<1> DEFINE r == run[t]
           u == up[r.rec.id]
<1>1. /\ r.pc \in Working /\ UNCHANGED <<draft, panel, forgot>> /\ r.rec.id \in DOMAIN up
      /\ u \in Upload /\ Stop(t, r.rec)
      /\ up' = [up EXCEPT ![r.rec.id].op = NoOp, ![r.rec.id].blocked = TRUE]
  BY OwnCall, TheUpload DEF ExecuteUncertain, Working, Inv
<1>2. PICK v : v = [u EXCEPT !.op = NoOp, !.blocked = TRUE]
  OBVIOUS
<1>3. v.draft = u.draft /\ v.op = NoOp /\ up' = [up EXCEPT ![r.rec.id] = v] /\ draft \in Nat
  BY <1>1, <1>2, Drafts DEF Upload
<1>4. SameDrafts
  BY <1>1, <1>3, DraftStays
<1>5. QED  BY <1>1, <1>4, StopLedger

\* An upload expires.
LEMMA ExpireLedger ==
  ASSUME NEW w, NEW i \in Ids, Sizes, Inv, Inv', Books(w), Expire(i) PROVE Books(w)'
<1>1. i \in DOMAIN up /\ UNCHANGED <<draft, storage, panel, run, forgot>> /\ up[i] \in Upload
  BY TheUpload DEF Expire, Inv
<1>2. PICK v : v = [up[i] EXCEPT !.blocked = TRUE, !.op = NoOp]
  OBVIOUS
<1>3. /\ v.draft = up[i].draft /\ v.op = NoOp /\ up' = [up EXCEPT ![i] = v] /\ draft \in Nat
      /\ DOMAIN up' = DOMAIN up /\ \A j \in DOMAIN up : up'[j].op \in {up[j].op, NoOp}
  BY <1>1, <1>2, Drafts DEF Expire, Upload
<1>4. SameDrafts
  BY <1>1, <1>3, DraftStays
<1>5. Similar /\ draft <= draft'
  BY <1>1, <1>4, Drafts DEF Similar, SameDrafts
<1>6. DraftsSound' /\ Led(w)' /\ SlotsOpened' /\ Grown(w, w)
  BY <1>5, SimilarBooks, SimilarGrown DEF Books
<1>7. ASSUME NEW r \in UploadCall, CallSound(r), TurnSound(w, r) PROVE TurnSound(w, r)'
  <2>1. /\ \A k \in Slots : Usable(k) => Usable(k)'
        /\ r.rev \in Nat /\ r.key \in Slots /\ Alive' = Alive
        /\ \A j \in DOMAIN up : up'[j].draft = up[j].draft
    <3>1. \A k \in Slots : Usable(k) => Usable(k)'
      BY <1>5, SimilarFacts
    <3>2. QED  BY <1>1, <1>3, <1>4, <3>1 DEF UploadCall, Slots, Alive, SameDrafts, SameUploads
  <2>2. r.pc # "idle" => KeySound(r.key, r.rev)'
    BY <1>1, <1>7, <2>1 DEF TurnSound, KeySound
  <2>3. Examined(r) => Examined(r)'
    <3>1. ASSUME NEW s \in Slots, storage[s].id # 0, up[storage[s].id].op = NoOp
          PROVE  up'[storage[s].id].op = NoOp
      BY <1>3, <3>1, Drafts
    <3>2. QED  BY <1>1, <3>1 DEF Examined
  <2>4. r.pc \in {"reserved", "inspecting"} \cup Working => r.rec.id \in DOMAIN up
    BY <1>7 DEF CallSound, Owns
  <2>5. QED  BY <1>1, <1>7, <2>1, <2>2, <2>3, <2>4 DEF TurnSound
<1>8. ASSUME NEW t \in Tabs
      PROVE  TurnSound(w, run[t])' /\ Shows(w, panel[t])' /\ Attached(run[t], panel[t])'
  <2>1. PICK r, p : r = run[t] /\ p = panel[t]
    OBVIOUS
  <2>2. /\ r \in UploadCall /\ CallSound(r) /\ TurnSound(w, r) /\ Shows(w, p) /\ Attached(r, p)
        /\ p \in [rev: Revisions, key: Slots, staged: 0 .. NoStaged]
    BY <2>1, OwnTurn
  <2>3. TurnSound(w, r)' /\ Shows(w, p)'
    BY <1>6, <1>7, <2>2, GrownPanel
  <2>4. run'[t] = r /\ panel'[t] = p
    BY <1>1, <2>1
  <2>5. QED  BY <2>2, <2>3, <2>4 DEF Attached
<1>9. QED  BY <1>6, <1>8 DEF Books

\* A call that ends with its record in another state, and shows it if staged.
LEMMA SettleLedger ==
  ASSUME NEW w, NEW t \in Tabs, Sizes, Inv, Inv', Books(w), UNCHANGED <<draft, up, forgot>>,
         run[t].pc \in {"inspecting"} \cup Working, NEW state \in {"paused", "blocked", "staged"},
         Settle(t, [run[t].rec EXCEPT !.state = state]),
         panel' = panel \/ panel' = [panel EXCEPT ![t].staged = run[t].key]
  PROVE  Books(w)'
<1>1. /\ run' = [run EXCEPT ![t] = Idle] /\ run[t].rec \in Record /\ run[t].key \in Slots
      /\ SameDrafts
  BY OwnCall, UpStays DEF Settle, Leave
<1>2. PICK new : new = [run[t].rec EXCEPT !.state = state]
  OBVIOUS
<1>3. new \in Record /\ new.id = run[t].rec.id /\ new.draft = run[t].rec.draft
  BY <1>1, <1>2 DEF Record
<1>4. storage' = [storage EXCEPT ![run[t].key] = new]
  BY <1>2 DEF Settle
<1>5. storage'[run[t].key] # NoRecord
  BY <1>1, <1>3, <1>4 DEF Inv, Types, Record, NoRecord, Revisions
<1>6. PICK p : /\ panel' = [panel EXCEPT ![t] = p]
               /\ p = panel[t] \/ p = [panel[t] EXCEPT !.staged = run[t].key]
  <2>1. CASE panel' = panel
    <3>1. panel' = [panel EXCEPT ![t] = panel[t]]
      BY <2>1, PanelStays
    <3>2. QED  BY <3>1
  <2>2. CASE panel' = [panel EXCEPT ![t].staged = run[t].key]
    BY <2>2
  <2>3. QED  BY <2>1, <2>2
<1>7. QED  BY <1>1, <1>3, <1>4, <1>5, <1>6, IdleTurn, OwnStep

\* A check is over.
LEMMA InspectLedger ==
  ASSUME NEW w, NEW t \in Tabs, Sizes, Inv, Inv', Books(w), Inspect(t) PROVE Books(w)'
<1> DEFINE state == IF AllStored(run[t].remote.files) THEN "staged"
                    ELSE IF run[t].remote.blocked THEN "blocked" ELSE "paused"
<1>1. run[t].pc = "inspecting" /\ UNCHANGED <<draft, up, forgot>>
  BY DEF Inspect
<1>2. CASE Leave(t) /\ UNCHANGED <<storage, panel>>
  BY <1>1, <1>2, LeaveLedger
<1>3. CASE /\ Settle(t, [run[t].rec EXCEPT !.state = state])
           /\ panel' = panel \/ panel' = [panel EXCEPT ![t].staged = run[t].key]
  <2>1. PICK st \in {"paused", "blocked", "staged"} : st = state
    OBVIOUS
  <2>2. Settle(t, [run[t].rec EXCEPT !.state = st])
    BY <1>3, <2>1
  <2>3. QED  BY <1>1, <1>3, <2>2, SettleLedger
<1>4. QED  BY <1>2, <1>3 DEF Inspect

\* A call reconciles its record with the service's evidence.
LEMMA DecideLedger ==
  ASSUME NEW w, NEW t \in Tabs, Sizes, Inv, Inv', Books(w), Decide(t) PROVE Books(w)'
<1> DEFINE r == run[t]
<1>1. r.pc = "deciding" /\ r.pc \in Working /\ UNCHANGED <<draft, up, forgot>>
      /\ SameDrafts /\ r.rec \in Record
  BY UpStays, OwnCall DEF Decide, Working
<1>2. CASE Stop(t, r.rec) /\ UNCHANGED panel
  BY <1>1, <1>2, StopLedger
<1>3. CASE Settle(t, [r.rec EXCEPT !.state = "blocked"]) /\ UNCHANGED panel
  BY <1>1, <1>3, SettleLedger
<1>4. CASE Settle(t, [r.rec EXCEPT !.state = "paused"]) /\ UNCHANGED panel
  BY <1>1, <1>4, SettleLedger
<1>5. CASE /\ Settle(t, [r.rec EXCEPT !.state = "staged"])
           /\ panel' = panel \/ panel' = [panel EXCEPT ![t].staged = r.key]
  BY <1>1, <1>5, SettleLedger
<1>6. ASSUME NEW new, new = [r.rec EXCEPT !.state = "uploading"],
             storage' = [storage EXCEPT ![r.key] = new], UNCHANGED panel,
             run' = [run EXCEPT ![t].rec = new, ![t].op = r.remote.op,
                       ![t].pc = IF r.remote.op = NoOp THEN "planning" ELSE "executing"]
      PROVE  Books(w)'
  <2>1. new \in Record /\ new.id = r.rec.id /\ new.draft = r.rec.draft
    BY <1>1, <1>6 DEF Record
  <2>2. PICK x : x = [r EXCEPT !.rec = new, !.op = r.remote.op,
                               !.pc = IF r.remote.op = NoOp THEN "planning" ELSE "executing"]
    OBVIOUS
  <2>3. /\ x.pc \in Working /\ x.rev = r.rev /\ x.key = r.key /\ x.current = r.current
        /\ x.rec = new
    BY <2>2, OwnTurn DEF UploadCall, Working
  <2>4. run' = [run EXCEPT ![t] = x] /\ x \in UploadCall
    <3>1. run' = [run EXCEPT ![t] = x]
      BY <1>6, <2>2 DEF Inv, Types
    <3>2. QED  BY <3>1 DEF Inv, Types
  <2>5. x.rec.id = r.rec.id /\ x.rec.draft = r.rec.draft
    BY <2>1, <2>3
  <2>6. \E q \in Record : /\ storage' = [storage EXCEPT ![r.key] = q]
                          /\ q.id = r.rec.id /\ q.draft = r.rec.draft
    BY <1>6, <2>1
  <2>7. panel' = [panel EXCEPT ![t] = panel[t]]
    BY <1>6, PanelStays
  <2>8. QED  BY <1>1, <2>3, <2>4, <2>5, <2>6, <2>7, OwnStep
<1>7. QED  BY <1>2, <1>3, <1>4, <1>5, <1>6 DEF Decide

\* A call resumes a record, is refused, or persists a new one.
LEMMA PrepareLedger ==
  ASSUME NEW w, NEW t \in Tabs, Sizes, Inv, Inv', Books(w), Prepare(t) PROVE Books(w)'
<1> DEFINE r == run[t]
           old == storage[r.key]
<1>1. /\ r.pc = "preparing" /\ UNCHANGED <<draft, up, forgot>> /\ SameDrafts /\ lock = t
      /\ r.key \in Slots /\ r.rev \in Revisions /\ r.file \in Files /\ r \in UploadCall
      /\ r.rev \in Nat /\ r.rev # 0 /\ KeySound(r.key, r.rev)
  <2>1. r.pc = "preparing" /\ UNCHANGED <<draft, up, forgot>>
    BY DEF Prepare
  <2>2. lock = t
    BY <2>1 DEF Inv, LockSound, Active
  <2>3. /\ r.key \in Slots /\ r.rev \in Revisions /\ r.file \in Files /\ r \in UploadCall /\ r.rev # 0
        /\ KeySound(r.key, r.rev)
    BY <2>1, OwnTurn DEF CallSound, Uploading, TurnSound
  <2>4. QED  BY <2>1, <2>2, <2>3, UpStays DEF Revisions
<1>2. CASE Leave(t) /\ UNCHANGED <<storage, panel>>
  BY <1>1, <1>2, LeaveLedger
<1>3. CASE /\ old.id # 0 /\ old.draft = r.rev
           /\ run' = [run EXCEPT ![t].pc = "reading", ![t].rec = old]
           /\ UNCHANGED <<storage, panel>>
  <2>1. PICK x : x = [r EXCEPT !.pc = "reading", !.rec = old]
    OBVIOUS
  <2>2. /\ x.pc = "reading" /\ x.rev = r.rev /\ x.rec = old
        /\ x.key = r.key /\ x.current = r.current
    BY <1>1, <2>1 DEF UploadCall
  <2>3. run' = [run EXCEPT ![t] = x]
    BY <1>3, <2>1 DEF Inv, Types
  <2>4. x \in UploadCall
    BY <2>3 DEF Inv, Types
  <2>5. QED  BY <1>1, <1>3, <2>2, <2>3, <2>4, TakesUp
<1>4. CASE old.id # 0 /\ Stop(t, old) /\ UNCHANGED panel
  <2>1. old \in Record
    BY <1>1, <1>4, OwnSlot
  <2>2. PICK new : new = [old EXCEPT !.state = "paused"]
    OBVIOUS
  <2>3. new.id = old.id /\ new.draft = old.draft
    BY <2>1, <2>2 DEF Record
  <2>4. storage' = storage \/ storage' = [storage EXCEPT ![r.key] = new]
    BY <1>4, <2>2 DEF Stop
  <2>5. Similar /\ draft <= draft'
    <3>1. \A s \in Slots : storage'[s].id = storage[s].id /\ storage'[s].draft = storage[s].draft
      <4>1. CASE storage' = storage
        BY <4>1
      <4>2. CASE storage' = [storage EXCEPT ![r.key] = new]
        BY <1>1, <2>3, <4>2 DEF Inv, Types
      <4>3. QED  BY <2>4, <4>1, <4>2
    <3>2. QED  BY <1>1, <3>1, Drafts DEF Similar, SameDrafts
  <2>6. run' = [run EXCEPT ![t] = Idle]
    BY <1>4 DEF Stop, Leave
  <2>7. Shows(w, panel[t])'
    <3>1. PICK p \in [rev: Revisions, key: Slots, staged: 0 .. NoStaged] : p = panel[t]
      BY OwnTurn
    <3>2. Shows(w, p)'
      BY <2>5, <3>1, OwnTurn, SimilarGrown, GrownPanel
    <3>3. panel'[t] = p
      BY <1>4, <3>1
    <3>4. QED  BY <3>2, <3>3
  <2>8. PICK p : p = panel[t] /\ Shows(w, p)'
    <3>1. PICK p : p = panel[t]
      OBVIOUS
    <3>2. panel'[t] = p
      BY <1>4, <3>1
    <3>3. QED  BY <2>7, <3>1, <3>2
  <2>9. UNCHANGED up /\ panel' = [panel EXCEPT ![t] = p]
    BY <1>1, <1>4, <2>8, PanelStays
  <2>10. QED  BY <2>5, <2>6, <2>8, <2>9, IdleTurn, SimilarStep
<1>5. ASSUME NEW new, new = [id |-> 0, draft |-> r.rev, file |-> r.file, state |-> "reservation_unconfirmed"],
             old = NoRecord, storage' = [storage EXCEPT ![r.key] = new],
             run' = [run EXCEPT ![t].pc = "reserving", ![t].rec = new],
             panel' = IF r.current THEN [panel EXCEPT ![t].key = r.key] ELSE panel
      PROVE  Books(w)'
  <2>1. new \in Record /\ new.id = 0 /\ new.draft = r.rev /\ new # NoRecord
    BY <1>1, <1>5 DEF Record, Sizes, NoRecord
  <2>2. PICK k \in Slots : k = r.key
    BY <1>1
  <2>3. /\ DraftsSound' /\ Led(w)' /\ SlotsOpened' /\ Grown(w, w) /\ DOMAIN up' = DOMAIN up
        /\ storage'[k] = new
    <3>1. /\ new.draft <= draft /\ (k # 0 => new.draft = k) /\ storage[k].id = 0 /\ Usable(k)
          /\ storage' = [storage EXCEPT ![k] = new]
      BY <1>1, <1>5, <2>1, <2>2 DEF KeySound, NoRecord
    <3>2. Only(w, k, new.id)
      BY <1>5, <2>2, LedBy DEF Only, Books
    <3>3. DraftsSound /\ Led(w) /\ SlotsOpened
      BY DEF Books
    <3>4. new.id # 0 => new.id \in DOMAIN up /\ up[new.id].draft = new.draft
      BY <2>1
    <3>5. DraftsSound' /\ Led(w)' /\ SlotsOpened' /\ Grown(w, w) /\ DOMAIN up' = DOMAIN up
      BY <1>1, <2>1, <3>1, <3>2, <3>3, <3>4, Writes
    <3>6. QED  BY <3>1, <3>5 DEF Inv, Types
  <2>4. PICK x : x = [r EXCEPT !.pc = "reserving", !.rec = new]
    OBVIOUS
  <2>5. /\ x.pc = "reserving" /\ x.rev = r.rev /\ x.rec = new /\ x.key = r.key
        /\ x.current = r.current
    BY <1>1, <2>4 DEF UploadCall
  <2>6. run' = [run EXCEPT ![t] = x] /\ x \in UploadCall
    <3>1. run' = [run EXCEPT ![t] = x]
      BY <1>5, <2>4 DEF Inv, Types
    <3>2. QED  BY <3>1 DEF Inv, Types
  <2>7. KeySound(x.key, x.rev)'
    <3>1. PICK rev : rev = r.rev
      OBVIOUS
    <3>2. k \in Slots /\ rev \in Nat /\ KeySound(k, rev)
      BY <1>1, <2>2, <3>1
    <3>3. KeySound(k, rev)'
      BY <2>3, <3>2, GrownKey
    <3>4. QED  BY <2>2, <2>5, <3>1, <3>3
  <2>8. storage'[x.key].draft = x.rev
    BY <2>1, <2>2, <2>3, <2>5
  <2>9. \A i \in Alive' : w[i] # x.key
    <3>1. Alive' = Alive
      BY <1>1 DEF Alive
    <3>2. QED  BY <1>5, <2>5, <3>1, LedBy DEF Books
  <2>10. TurnSound(w, x)'
    BY <2>5, <2>7, <2>8, <2>9 DEF TurnSound, Working
  <2>11. PICK p : p = IF r.current THEN [panel[t] EXCEPT !.key = r.key] ELSE panel[t]
    OBVIOUS
  <2>12. panel' = [panel EXCEPT ![t] = p]
    <3>1. CASE r.current
      BY <1>5, <2>11, <3>1 DEF Inv, Types
    <3>2. CASE ~r.current
      BY <1>5, <2>11, <3>2 DEF Inv, Types
    <3>3. QED  BY <3>1, <3>2
  <2>13. Shows(w, p)' /\ Attached(x, p)
    <3>1. PICK q \in [rev: Revisions, key: Slots, staged: 0 .. NoStaged] : q = panel[t]
      BY OwnTurn
    <3>2. Shows(w, q)' /\ Attached(r, q)
      BY <2>3, <3>1, OwnTurn, GrownPanel
    <3>3. CASE p = q
      BY <2>5, <3>2, <3>3 DEF Attached
    <3>4. CASE r.current /\ p = [q EXCEPT !.key = r.key]
      <4>1. p.rev = q.rev /\ p.key = x.key /\ p.staged = q.staged /\ q.rev = x.rev
        BY <2>5, <3>1, <3>2, <3>4 DEF Attached
      <4>2. QED  BY <2>5, <2>7, <3>2, <4>1 DEF Shows, Attached
    <3>5. QED  BY <2>11, <3>1, <3>3, <3>4
  <2>14. QED  BY <1>1, <2>3, <2>6, <2>10, <2>12, <2>13, OneTurn
<1>6. QED  BY <1>2, <1>3, <1>4, <1>5 DEF Prepare

(***************************************************************************)
(* The service's reservations.                                             *)
(***************************************************************************)
\* The service reserves or denies, for good or not.
LEMMA ReserveLedger ==
  ASSUME NEW w, NEW t \in Tabs, Sizes, Inv, Inv', Books(w), Reserve(t) PROVE Ledger'
<1> DEFINE r == run[t]
           new == [draft |-> draft, fence |-> 0, blocked |-> FALSE, op |-> NoOp,
                   files |-> [k \in Kinds |-> NoProgress]]
<1>1. /\ r.pc = "reserving" /\ UNCHANGED <<draft, storage, panel, forgot>> /\ lock = t
      /\ r.key \in Slots /\ r.rev \in Revisions /\ r \in UploadCall /\ r.rev # 0 /\ r.rev \in Nat
      /\ r.rec = [id |-> 0, draft |-> r.rev, file |-> r.file, state |-> "reservation_unconfirmed"]
      /\ storage[r.key].id = 0 /\ KeySound(r.key, r.rev) /\ \A i \in Alive : w[i] # r.key
  <2>1. r.pc = "reserving" /\ UNCHANGED <<draft, storage, panel, forgot>>
    BY DEF Reserve
  <2>2. lock = t
    BY <2>1 DEF Inv, LockSound, Active
  <2>3. /\ r \in UploadCall /\ r.key \in Slots /\ r.rev \in Revisions /\ r.rev # 0
        /\ CallSound(r) /\ TurnSound(w, r)
    BY <2>1, OwnTurn
  <2>4. /\ r.rec = [id |-> 0, draft |-> r.rev, file |-> r.file, state |-> "reservation_unconfirmed"]
        /\ storage[r.key].id = 0
    BY <2>1, <2>3 DEF CallSound
  <2>5. KeySound(r.key, r.rev) /\ \A i \in Alive : w[i] # r.key
    BY <2>1, <2>3 DEF TurnSound
  <2>6. QED  BY <2>1, <2>2, <2>3, <2>4, <2>5 DEF Revisions
<1>2. CASE run' = [run EXCEPT ![t].pc = "denied"] /\ UNCHANGED up
  <2>1. PICK x : x = [r EXCEPT !.pc = "denied"]
    OBVIOUS
  <2>2. /\ x.pc = "denied" /\ x.rev = r.rev /\ x.rec = r.rec /\ x.key = r.key
        /\ x.current = r.current
    BY <1>1, <2>1 DEF UploadCall
  <2>3. TurnSound(w, x) /\ Attached(x, panel[t])
    BY <1>1, <2>2, OwnTurn DEF TurnSound, Attached, Working
  <2>4. run' = [run EXCEPT ![t] = x]
    BY <1>2, <2>1 DEF Inv, Types
  <2>5. Books(w)'
    BY <1>1, <1>2, <2>3, <2>4, OwnTurn, PanelStays, TurnStep
  <2>6. QED  BY <2>5 DEF Ledger
<1>3. CASE /\ r.rev = draft /\ Len(up) < MaxUploads /\ up' = Append(up, new)
           /\ run' = [run EXCEPT ![t].pc = "reserved", ![t].rec.id = Len(up) + 1]
  <2>1. PICK n : n = Len(up) + 1
    OBVIOUS
  <2>2. /\ DOMAIN up' = DOMAIN up \cup {n} /\ n \notin DOMAIN up /\ n \in Nat /\ n # 0
        /\ up'[n].draft = draft /\ \A i \in DOMAIN up : up'[i] = up[i]
        /\ Len(up') = n /\ draft \in Nat /\ MaxUploads \in Nat /\ Len(up) \in Nat
    <3>1. new \in Upload
      <4>1. NoProgress \in Progress
        BY EmptySeq DEF NoProgress, Progress
      <4>2. QED  BY <4>1 DEF Inv, Types, Upload
    <3>2. /\ Len(up') = Len(up) + 1 /\ up'[Len(up) + 1] = new /\ new.draft = draft
          /\ \A i \in 1 .. Len(up) : up'[i] = up[i]
      BY <1>3, <3>1, AppendProperties DEF Inv, Types
    <3>3. DOMAIN up' = 1 .. Len(up')
      BY LenProperties DEF Inv, Types
    <3>4. QED  BY <2>1, <3>2, <3>3, Drafts
  <2>3. PICK v : v = [i \in DOMAIN up' |-> IF i = n THEN r.key ELSE w[i]]
    OBVIOUS
  <2>4. v[n] = r.key /\ \A i \in DOMAIN up : v[i] = w[i]
    BY <2>2, <2>3
  <2>5. n \notin forgot /\ Alive' = Alive \cup {n} /\ n \notin Alive /\ Alive \subseteq DOMAIN up
    BY <1>1, <2>2 DEF Books, DraftsSound, Alive
  <2>6. DraftsSound'
    <3>1. ASSUME NEW s \in Slots, storage[s] # NoRecord
          PROVE  /\ storage[s].draft <= draft /\ (s # 0 => storage[s].draft = s)
                 /\ storage[s].id # 0 => up'[storage[s].id].draft = storage[s].draft
      BY <2>2, <3>1, Drafts DEF Books, DraftsSound
    <3>2. \A i \in DOMAIN up' : up'[i].draft <= draft
      BY <2>2 DEF Books, DraftsSound
    <3>3. forgot \subseteq DOMAIN up'
      BY <2>2 DEF Books, DraftsSound
    <3>4. QED  BY <1>1, <3>1, <3>2, <3>3 DEF DraftsSound
  <2>7. ASSUME NEW k \in Revisions, Opened(k) PROVE Opened(k)'
    BY <1>1, <2>2, <2>7, Drafts DEF Opened, Revisions
  <2>8. SlotsOpened' /\ storage' = storage
    BY <1>1, <2>7 DEF Books, SlotsOpened, Usable
  <2>9. storage[r.key].draft = draft
    BY <1>1, <1>3, OwnTurn DEF TurnSound
  <2>11. Led(v)'
    <3>1. ASSUME NEW i \in Alive' PROVE Leads(v[i], i)'
      <4>1. CASE i = n
        BY <1>1, <2>2, <2>4, <2>9, <4>1 DEF Leads
      <4>2. CASE i \in Alive
        BY <1>1, <2>2, <2>4, <2>5, <4>2 DEF Books, Led, Leads
      <4>3. QED  BY <2>5, <4>1, <4>2
    <3>2. ASSUME forgot = {}, NEW i \in DOMAIN up', v[i] # 0
          PROVE  storage[0].draft < up'[i].draft
      <4>1. CASE i = n
        <5>1. Opened(r.key) /\ r.key = draft
          BY <1>1, <1>3, <2>4, <3>2, <4>1 DEF KeySound, Usable
        <5>2. storage[0].draft <= draft /\ storage[0].draft \in Nat
          <6>1. 0 \in Slots /\ storage[0].id # 0
            BY <5>1 DEF Opened, Slots, Sizes
          <6>2. QED  BY <6>1, Empty, Drafts DEF Books, DraftsSound, Inv
        <5>3. QED  BY <2>2, <4>1, <5>1, <5>2 DEF Opened
      <4>2. CASE i \in DOMAIN up
        BY <2>2, <2>4, <3>2, <4>2 DEF Books, Led
      <4>3. QED  BY <2>2, <4>1, <4>2
    <3>3. \A i \in DOMAIN up' : v[i] \in {0, up'[i].draft}
      BY <1>1, <1>3, <2>2, <2>4 DEF Books, Led, KeySound
    <3>4. ASSUME NEW i \in Alive', NEW j \in Alive', v[i] = v[j] PROVE i = j
      BY <1>1, <2>4, <2>5, <3>4 DEF Books, Led
    <3>5. QED  BY <1>1, <3>1, <3>2, <3>3, <3>4 DEF Led
  <2>12. Grown(w, v)
    <3>1. ASSUME NEW k \in Revisions, Spent(w, k) PROVE Spent(v, k)'
      <4>1. r.key # k
        BY <1>1, <1>3, <2>2, <3>1 DEF KeySound, Spent, Revisions
      <4>2. QED  BY <1>1, <2>4, <2>5, <3>1, <4>1 DEF Spent
    <3>2. QED  BY <1>1, <2>2, <2>7, <3>1 DEF Grown, Kept
  <2>13. PICK x : x = [r EXCEPT !.pc = "reserved", !.rec.id = n]
    OBVIOUS
  <2>14. /\ x.pc = "reserved" /\ x.rev = r.rev /\ x.key = r.key /\ x.current = r.current
         /\ x.rec.id = n /\ x.rec.draft = r.rev
    BY <1>1, <2>13 DEF UploadCall
  <2>15. run' = [run EXCEPT ![t] = x] /\ x \in UploadCall
    <3>1. run' = [run EXCEPT ![t].pc = "reserved", ![t].rec.id = n]
      BY <1>3, <2>1
    <3>2. run \in [Tabs -> UploadCall] /\ run' \in [Tabs -> UploadCall]
      BY DEF Inv, Types
    <3>3. run' = [run EXCEPT ![t] = x]
      BY <2>13, <3>1, <3>2
    <3>4. QED  BY <3>2, <3>3
  <2>16. TurnSound(v, x)'
    <3>1. KeySound(x.key, x.rev)'
      <4>1. PICK key, rev : key = r.key /\ rev = r.rev
        OBVIOUS
      <4>2. key \in Slots /\ rev \in Nat /\ KeySound(key, rev)
        BY <1>1, <4>1
      <4>3. KeySound(key, rev)'
        BY <2>12, <4>2, GrownKey
      <4>4. QED  BY <2>14, <4>1, <4>3
    <3>2. x.rec.id \in Alive' /\ v[x.rec.id] = x.key
      BY <2>4, <2>5, <2>14
    <3>3. /\ x.rec.draft <= draft' /\ (x.key # 0 => x.rec.draft = x.key)
          /\ up'[x.rec.id].draft = x.rec.draft
      BY <1>1, <1>3, <2>2, <2>14 DEF KeySound
    <3>4. QED  BY <2>14, <3>1, <3>2, <3>3 DEF TurnSound, Working
  <2>17. PICK p : p = panel[t]
    OBVIOUS
  <2>18. Shows(v, p)' /\ Attached(x, p) /\ panel' = [panel EXCEPT ![t] = p]
    BY <1>1, <2>12, <2>14, <2>17, OwnTurn, GrownPanel, PanelStays DEF Attached
  <2>19. Books(v)'
    BY <1>1, <2>6, <2>8, <2>11, <2>12, <2>15, <2>16, <2>18, OneTurn
  <2>20. QED  BY <2>19 DEF Ledger
<1>4. QED  BY <1>2, <1>3 DEF Reserve

\* The reservation is confirmed: its record leads to it.
LEMMA ReservedLedger ==
  ASSUME NEW w, NEW t \in Tabs, Sizes, Inv, Inv', Books(w), Reserved(t) PROVE Books(w)'
<1> DEFINE r == run[t]
<1>1. /\ r.pc = "reserved" /\ UNCHANGED <<draft, panel, up, forgot>> /\ SameDrafts
      /\ r.key \in Slots /\ r.rec \in Record /\ r.rec.id \in DOMAIN up /\ lock = t
      /\ r.rev \in Revisions /\ r \in UploadCall
  BY OwnCall, OwnTurn, UpStays DEF Reserved
<1>2. PICK new : new = [r.rec EXCEPT !.state = "paused"]
  OBVIOUS
<1>3. /\ storage' = [storage EXCEPT ![r.key] = new]
      /\ run' = [run EXCEPT ![t].pc = "reading", ![t].rec = new]
  BY <1>2 DEF Reserved
<1>4. new \in Record /\ new.id = r.rec.id /\ new.draft = r.rec.draft
  BY <1>1, <1>2 DEF Record
<1>5. /\ r.rec.draft <= draft /\ (r.key # 0 => r.rec.draft = r.key)
      /\ up[r.rec.id].draft = r.rec.draft /\ storage[r.key].id = 0
      /\ r.rec.id \in Alive /\ w[r.rec.id] = r.key /\ KeySound(r.key, r.rev)
  <2>1. CallSound(r) /\ TurnSound(w, r)
    BY OwnTurn
  <2>2. QED  BY <1>1, <2>1 DEF TurnSound, CallSound
<1>6. /\ DraftsSound' /\ Led(w)' /\ SlotsOpened' /\ Grown(w, w) /\ DOMAIN up' = DOMAIN up /\ storage'[r.key] = new
  <2>1. PICK k \in Slots : k = r.key
    BY <1>1
  <2>2. Only(w, k, new.id)
    BY <1>4, <1>5, <2>1 DEF Only, Books, Led
  <2>3. /\ new.draft <= draft /\ (k # 0 => new.draft = k) /\ storage[k].id = 0 /\ Usable(k)
        /\ new.id \in DOMAIN up /\ up[new.id].draft = new.draft
        /\ storage' = [storage EXCEPT ![k] = new]
    BY <1>1, <1>3, <1>4, <1>5, <2>1 DEF KeySound
  <2>4. DraftsSound /\ Led(w) /\ SlotsOpened
    BY DEF Books
  <2>5. SameDrafts /\ new \in Record
    BY <1>1, <1>4
  <2>6. DraftsSound' /\ Led(w)' /\ SlotsOpened' /\ Grown(w, w) /\ DOMAIN up' = DOMAIN up
    BY <2>2, <2>3, <2>4, <2>5, Writes
  <2>7. QED  BY <1>1, <1>3, <2>6 DEF Inv, Types
<1>7. PICK x : x = [r EXCEPT !.pc = "reading", !.rec = new]
  OBVIOUS
<1>8. /\ x.pc = "reading" /\ x.rev = r.rev /\ x.key = r.key /\ x.current = r.current
      /\ x.rec = new
  BY <1>1, <1>7 DEF UploadCall
<1>9. run' = [run EXCEPT ![t] = x] /\ x \in UploadCall
  <2>1. run' = [run EXCEPT ![t] = x]
    BY <1>3, <1>7 DEF Inv, Types
  <2>2. QED  BY <2>1 DEF Inv, Types
<1>10. TurnSound(w, x)'
  <2>1. KeySound(x.key, x.rev)
    BY <1>5, <1>8
  <2>2. KeySound(x.key, x.rev)'
    BY <1>1, <1>6, <1>8, <2>1, GrownKey DEF Revisions
  <2>3. QED  BY <1>1, <1>4, <1>5, <1>6, <1>8, <2>2 DEF TurnSound, Working
<1>11. PICK p : p = panel[t]
  OBVIOUS
<1>12. Shows(w, p)' /\ Attached(x, p) /\ panel' = [panel EXCEPT ![t] = p]
  BY <1>1, <1>6, <1>8, <1>11, OwnTurn, GrownPanel, PanelStays DEF Attached
<1>13. QED  BY <1>1, <1>6, <1>9, <1>10, <1>12, OneTurn

\* The reservation was denied: its record led to no upload.
LEMMA DeniedLedger ==
  ASSUME NEW w, NEW t \in Tabs, Sizes, Inv, Inv', Books(w), Denied(t) PROVE Books(w)'
<1> DEFINE r == run[t]
<1>1. /\ r.pc = "denied" /\ UNCHANGED <<draft, up, forgot>> /\ lock = t /\ SameDrafts
      /\ r.key \in Slots /\ r.rev \in Revisions /\ r \in UploadCall
      /\ storage' = [storage EXCEPT ![r.key] = NoRecord] /\ run' = [run EXCEPT ![t] = Idle]
  BY OwnTurn, UpStays DEF Denied, Leave, Inv, LockSound, Active
<1>2. storage[r.key].id = 0 /\ \A i \in Alive : w[i] # r.key
  <2>1. CallSound(r) /\ TurnSound(w, r)
    BY OwnTurn
  <2>2. QED  BY <1>1, <2>1 DEF TurnSound, CallSound
<1>3. DraftsSound' /\ Led(w)' /\ SlotsOpened' /\ Grown(w, w)
  <2>1. PICK k \in Slots : k = r.key
    BY <1>1
  <2>2. /\ draft <= draft' /\ forgot \subseteq forgot' /\ forgot' \subseteq DOMAIN up
        /\ storage' = [storage EXCEPT ![k] = NoRecord] /\ storage[k].id = 0 /\ UNCHANGED up
    BY <1>1, <1>2, <2>1, Drafts DEF Books, DraftsSound
  <2>3. Left(w, k)'
    BY <1>1, <1>2, <2>1 DEF Alive, Left
  <2>4. DraftsSound /\ Led(w) /\ SlotsOpened
    BY DEF Books
  <2>5. (k = 0 /\ forgot' = {} => storage[0].id = 0) /\ (k # 0 /\ storage[k].id # 0 => k < draft')
    BY <2>2
  <2>6. QED  BY <2>2, <2>3, <2>4, <2>5, Cleared
<1>4. PICK p : p = IF r.current /\ r.mode = "restart" THEN [panel[t] EXCEPT !.key = 0] ELSE panel[t]
  OBVIOUS
<1>5. panel' = [panel EXCEPT ![t] = p]
  <2>1. CASE r.current /\ r.mode = "restart"
    BY <1>4, <2>1 DEF Denied, Inv, Types
  <2>2. CASE ~(r.current /\ r.mode = "restart")
    BY <1>4, <2>2 DEF Denied, Inv, Types
  <2>3. QED  BY <2>1, <2>2
<1>6. Shows(w, p)'
  <2>1. PICK q \in [rev: Revisions, key: Slots, staged: 0 .. NoStaged] : q = panel[t]
    BY OwnTurn
  <2>2. Shows(w, q)'
    BY <1>3, <2>1, OwnTurn, GrownPanel
  <2>3. CASE p = q
    BY <2>2, <2>3
  <2>4. CASE p = [q EXCEPT !.key = 0]
    BY <2>1, <2>2, <2>4 DEF Shows, KeySound, Usable
  <2>5. QED  BY <1>4, <2>1, <2>3, <2>4
<1>7. QED  BY <1>1, <1>3, <1>5, <1>6, IdleTurn, OneTurn

(***************************************************************************)
(* The author removes the video.                                           *)
(***************************************************************************)
\* What the author lets go was reserved, or nothing of it is left.
LEMMA LetsGo ==
  ASSUME NEW w, NEW t \in Tabs, Sizes, Inv, Books(w), RemoveVideo(t)
  PROVE  \E slot \in Slots :
           /\ draft' = draft + 1 /\ draft' \in Revisions /\ storage' = [storage EXCEPT ![slot] = NoRecord]
           /\ storage[slot] # NoRecord
           /\ forgot' = forgot \cup ({storage[slot].id} \ {0})
           /\ UNCHANGED <<run, up>>
           /\ slot = 0 => storage[0].id # 0
           /\ storage[slot].id = 0 => Spent(w, slot)
           /\ panel' = [panel EXCEPT ![t] = [rev |-> draft', key |-> 0,
                staged |-> StageOf(storage'[0], draft', 0, NoStaged)]]
<1> DEFINE rev == draft + 1
           key == KeyFor(rev)
           staged == StageOf(storage[key], rev, key, panel[t].staged)
           slot == IF staged # NoStaged THEN staged ELSE key
<1>1. /\ rev \in Revisions /\ rev \in Slots /\ 0 \in Slots /\ draft' = rev /\ rev # 0
      /\ storage[key] = NoRecord \/ storage[key].state = "staged"
      /\ storage[slot] # NoRecord
      /\ storage' = [storage EXCEPT ![slot] = NoRecord]
      /\ forgot' = forgot \cup ({storage[slot].id} \ {0})
      /\ UNCHANGED <<run, up>>
  BY DEF RemoveVideo, Inv, Types, Revisions, Slots, Sizes
<1>2. storage[rev] = NoRecord
  BY <1>1, Drafts DEF Books, DraftsSound
<1>3. key = 0
  BY <1>2 DEF KeyFor
<1>4. storage[0].draft # rev
  <2>1. draft \in Nat /\ storage[0].draft <= draft
    BY <1>1, Drafts, Empty DEF Books, DraftsSound, Inv
  <2>2. QED  BY <1>1, <2>1, Drafts
<1>5. staged \in {panel[t].staged, NoStaged} /\ (storage[0] # NoRecord => staged = NoStaged)
  BY <1>3, <1>4 DEF StageOf
<1>6. \/ slot = 0 /\ storage[0].state = "staged"
      \/ slot \in Revisions /\ Kept(w, slot)
  <2>1. CASE storage[0] # NoRecord
    BY <1>1, <1>3, <1>5, <2>1
  <2>2. CASE storage[0] = NoRecord
    <3>1. slot # 0 /\ slot = panel[t].staged /\ slot # NoStaged
      BY <1>1, <1>3, <1>5, <2>2
    <3>2. slot \in Revisions
      BY <3>1, OwnTurn DEF Revisions, NoStaged, Sizes
    <3>3. QED  BY <3>1, <3>2, OwnTurn DEF Shows
  <2>3. QED  BY <2>1, <2>2
<1>7. slot \in Slots
  BY <1>1, <1>6 DEF Revisions, Slots, Sizes
<1>8. storage'[rev] = NoRecord
  BY <1>1, <1>2, <1>7 DEF Inv, Types
<1>9. panel' = [panel EXCEPT ![t] = [rev |-> rev, key |-> 0,
           staged |-> StageOf(storage'[0], rev, 0, NoStaged)]]
  BY <1>8 DEF RemoveVideo
<1>10. slot = 0 => storage[0].id # 0
  BY <1>1, <1>6 DEF Inv, SlotsSound, Revisions
<1>11. storage[slot].id = 0 => Spent(w, slot)
  BY <1>6, <1>10 DEF Kept
<1>12. QED  BY <1>1, <1>7, <1>9, <1>10, <1>11

\* The author removes the video: its upload is let go with its record.
LEMMA RemoveVideoLedger ==
  ASSUME NEW w, NEW t \in Tabs, Sizes, Inv, Inv', Books(w), RemoveVideo(t) PROVE Books(w)'
<1>1. PICK slot \in Slots :
        /\ draft' = draft + 1 /\ draft' \in Revisions /\ storage' = [storage EXCEPT ![slot] = NoRecord]
        /\ storage[slot] # NoRecord
        /\ forgot' = forgot \cup ({storage[slot].id} \ {0})
        /\ UNCHANGED <<run, up>>
        /\ slot = 0 => storage[0].id # 0
        /\ storage[slot].id = 0 => Spent(w, slot)
        /\ panel' = [panel EXCEPT ![t] = [rev |-> draft', key |-> 0,
             staged |-> StageOf(storage'[0], draft', 0, NoStaged)]]
  BY LetsGo
<1>2. /\ draft \in Nat /\ draft' \in Nat /\ draft < draft' /\ Alive' \subseteq Alive
      /\ forgot \subseteq forgot' /\ forgot' \subseteq DOMAIN up
      /\ slot = 0 => forgot' # {}
      /\ storage[slot].draft <= draft /\ (slot # 0 => slot <= draft)
  <2>1. storage[slot].id # 0 => storage[slot].id \in DOMAIN up
    BY Drafts
  <2>2. forgot \subseteq DOMAIN up
    BY DEF Books, DraftsSound
  <2>3. storage[slot].draft <= draft /\ (slot # 0 => slot <= draft)
    BY <1>1 DEF Books, DraftsSound
  <2>4. QED  BY <1>1, <2>1, <2>2, <2>3, Drafts DEF Alive
<1>3. Left(w, slot)'
  <2> SUFFICES ASSUME NEW i \in Alive' PROVE w[i] # slot
    BY <1>1 DEF Left
  <2>1. i \in Alive /\ i # storage[slot].id
    BY <1>1, <1>2, Drafts DEF Alive
  <2>2. CASE storage[slot].id = 0
    BY <1>1, <2>1, <2>2 DEF Spent
  <2>3. CASE storage[slot].id # 0
    BY <2>1, <2>3, LedBy DEF Books
  <2>4. QED  BY <2>2, <2>3
<1>4. /\ DraftsSound' /\ Led(w)' /\ SlotsOpened' /\ Grown(w, w)
      /\ storage'[slot] = NoRecord /\ \A s \in Slots \ {slot} : storage'[s] = storage[s]
  <2>1. DraftsSound /\ Led(w) /\ SlotsOpened
    BY DEF Books
  <2>2. /\ slot = 0 /\ forgot' = {} => storage[0].id = 0
        /\ slot # 0 /\ storage[slot].id # 0 => slot < draft'
        /\ draft <= draft' /\ UNCHANGED up /\ storage' = [storage EXCEPT ![slot] = NoRecord]
    BY <1>1, <1>2 DEF Slots
  <2>3. QED  BY <1>2, <1>3, <2>1, <2>2, Cleared
<1>5. ASSUME NEW r \in UploadCall, CallSound(r), TurnSound(w, r) PROVE TurnSound(w, r)'
  <2>1. r.rev \in Nat /\ r.key \in Slots /\ r.rec.draft \in Nat
    BY DEF UploadCall, Slots, Record, NoRecord, Revisions
  <2>2. r.pc # "idle" => KeySound(r.key, r.rev)' /\ r.rev < draft'
    <3>1. CASE r.pc # "idle"
      <4>1. KeySound(r.key, r.rev)
        BY <1>5, <3>1 DEF TurnSound
      <4>2. QED  BY <1>2, <1>4, <2>1, <4>1, GrownKey DEF KeySound
    <3>2. QED  BY <3>1
  <2>3. Examined(r) => Examined(r)'
    <3>1. \A s \in Slots : storage'[s] # NoRecord => storage'[s] = storage[s]
      BY <1>4
    <3>2. forgot' = {} => storage'[0] = storage[0]
      BY <1>2, <1>4 DEF Slots, Sizes
    <3>3. QED  BY <1>1, <1>2, <3>1, <3>2 DEF Examined
  <2>4. r.pc \in {"reserving", "denied"} => \A i \in Alive' : w[i] # r.key
    BY <1>2, <1>5 DEF TurnSound
  <2>5. r.pc = "reserved" => r.rec.id \in Alive' /\ w[r.rec.id] = r.key
    <3>1. CASE r.pc = "reserved"
      <4>1. r.rec.id \in Alive /\ w[r.rec.id] = r.key
        BY <1>5, <3>1 DEF TurnSound
      <4>2. storage[r.key].id = 0 /\ \A s \in Slots \ {r.key} : storage[s].id # r.rec.id
        BY <1>5, <3>1 DEF CallSound, Owns
      <4>3. r.rec.id # 0 /\ r.rec.id \in DOMAIN up
        BY <4>1, Drafts DEF Alive
      <4>4. storage[slot].id # r.rec.id
        BY <4>2, <4>3
      <4>5. QED  BY <1>1, <4>1, <4>3, <4>4 DEF Alive
    <3>2. QED  BY <3>1
  <2>6. r.pc \in {"reserved", "inspecting"} \cup Working =>
          /\ r.rec.draft <= draft' /\ (r.key # 0 => r.rec.draft = r.key)
          /\ up'[r.rec.id].draft = r.rec.draft
    BY <1>1, <1>2, <1>5, <2>1 DEF TurnSound
  <2>7. r.pc \in {"inspecting"} \cup Working =>
          \/ storage'[r.key].id = r.rec.id
          \/ storage'[r.key] = NoRecord /\ r.rec.id \in forgot'
    <3>1. CASE r.pc \in {"inspecting"} \cup Working
      <4>1. \/ storage[r.key].id = r.rec.id
            \/ storage[r.key] = NoRecord /\ r.rec.id \in forgot
        BY <1>5, <3>1 DEF TurnSound
      <4>2. r.rec.id # 0
        BY <1>5, <3>1, Drafts DEF CallSound, Owns
      <4>3. CASE r.key = slot
        BY <1>1, <1>2, <1>4, <4>1, <4>2, <4>3
      <4>4. CASE r.key # slot
        BY <1>2, <1>4, <2>1, <4>1, <4>4
      <4>5. QED  BY <4>3, <4>4
    <3>2. QED  BY <3>1
  <2>8. QED  BY <1>2, <1>5, <2>1, <2>2, <2>3, <2>4, <2>5, <2>6, <2>7 DEF TurnSound
<1>6. PICK p : p = [rev |-> draft', key |-> 0, staged |-> StageOf(storage'[0], draft', 0, NoStaged)]
  OBVIOUS
<1>7. Shows(w, p)'
  <2>1. p.rev = draft' /\ p.key = 0 /\ p.staged \in {0, NoStaged}
    BY <1>6 DEF StageOf
  <2>2. p.staged \notin Revisions
    BY <2>1 DEF Revisions, NoStaged, Sizes
  <2>3. QED  BY <1>2, <2>1, <2>2 DEF Shows, KeySound, Usable
<1>8. PICK x : x = run[t]
  OBVIOUS
<1>9. x \in UploadCall /\ CallSound(x) /\ TurnSound(w, x) /\ Attached(x, p) /\ run' = [run EXCEPT ![t] = x]
  <2>1. run[t].pc = "idle"
    BY DEF RemoveVideo
  <2>2. ~run[t].current
    BY <2>1, OwnTurn DEF Attached
  <2>3. run[t] \in UploadCall /\ CallSound(run[t]) /\ TurnSound(w, run[t])
    BY OwnTurn
  <2>4. run' = [run EXCEPT ![t] = run[t]]
    BY <1>1 DEF Inv, Types
  <2>5. QED  BY <1>8, <2>2, <2>3, <2>4 DEF Attached
<1>10. panel' = [panel EXCEPT ![t] = p]
  BY <1>1, <1>6
<1>11. TurnSound(w, x)'
  BY <1>5, <1>9
<1>12. QED  BY <1>4, <1>5, <1>7, <1>9, <1>10, <1>11, OneTurn

(***************************************************************************)
(* Every step.                                                             *)
(***************************************************************************)
\* There is nothing to find at first.
LEMMA LedgerInit == Sizes /\ UploadInit => Ledger
<1> SUFFICES ASSUME Sizes, UploadInit PROVE Ledger
  OBVIOUS
<1>1. /\ draft = 1 /\ up = <<>> /\ forgot = {} /\ DOMAIN up = {}
      /\ \A s \in Slots : storage[s] = NoRecord
      /\ \A t \in Tabs : run[t] = Idle /\ panel[t] = [rev |-> 1, key |-> 0, staged |-> NoStaged]
  BY DEF UploadInit
<1>2. PICK w : w = up
  OBVIOUS
<1>3. DraftsSound /\ Led(w) /\ SlotsOpened
  BY <1>1 DEF DraftsSound, Led, Alive, SlotsOpened, Revisions, Slots
<1>4. ASSUME NEW t \in Tabs PROVE TurnSound(w, run[t]) /\ Shows(w, panel[t]) /\ Attached(run[t], panel[t])
  <2>1. Shows(w, panel[t])
    BY <1>1 DEF Shows, KeySound, Usable, NoStaged, Revisions, Sizes
  <2>2. QED  BY <1>1, <2>1, IdleTurn
<1>5. QED  BY <1>3, <1>4 DEF Books, Ledger

\* Every step keeps the ledger.
LEMMA LedgerStep ==
  ASSUME Sizes, Inv, Inv', Ledger, [UploadNext]_vars PROVE Ledger'
<1>1. PICK w : Books(w)
  BY DEF Ledger
<1>2. CASE UNCHANGED vars
  <2>1. /\ DraftsSound' /\ Led(w)' /\ SlotsOpened'
        /\ \A t \in Tabs : TurnSound(w, run[t])' /\ Shows(w, panel[t])' /\ Attached(run[t], panel[t])'
    BY <1>1, <1>2 DEF vars, Books, DraftsSound, Led, Alive, Leads, SlotsOpened, Usable, Opened,
         TurnSound, Examined, KeySound, Shows, Kept, Spent, Attached
  <2>2. QED  BY <2>1 DEF Books, Ledger
<1>3. ASSUME NEW t \in Tabs, Step(t) PROVE Ledger'
  <2>1. CASE Reserve(t)
    BY <1>1, <2>1, ReserveLedger
  <2>2. CASE ~Reserve(t)
    <3>1. Books(w)'
      BY <1>1, <1>3, <2>2, AskLockLedger, ListSlotsLedger, ExamineLedger, PrepareLedger, ReservedLedger,
         DeniedLedger, ReadLedger, DecideLedger, PlanLedger, ExecuteLedger, LoadLedger, InspectLedger
         DEF Step
    <3>2. QED  BY <3>1 DEF Ledger
  <2>3. QED  BY <2>1, <2>2
<1>4. ASSUME NEW t \in Tabs, Author(t) PROVE Books(w)'
  BY <1>1, <1>4, SaveDraftLedger, ReopenLedger, CheckLedger, PauseLedger, RemoveVideoLedger, SelectLedger
     DEF Author
<1>5. ASSUME NEW t \in Tabs, Fault(t) PROVE Books(w)'
  BY <1>1, <1>5, LoseReservationLedger, LoseReplyLedger, ExecuteUncertainLedger, CloseTabLedger DEF Fault
<1>6. ASSUME NEW i \in Ids, Expire(i) PROVE Books(w)'
  BY <1>1, <1>6, ExpireLedger
<1>7. Books(w)' => Ledger'
  BY DEF Ledger
<1>8. QED  BY <1>2, <1>3, <1>4, <1>5, <1>6, <1>7 DEF UploadNext

\* The recovery records lead to every reservation that was not let go, each
\* through a slot of its own, whatever the service denies and grants later.
THEOREM LedgerInvariance == Sizes => (UploadSpec => [](Inv /\ Ledger))
<1>1. Sizes /\ UploadInit => Inv /\ Ledger
  BY InvInit, LedgerInit
<1>2. Sizes /\ (Inv /\ Ledger) /\ [UploadNext]_vars => (Inv /\ Ledger)'
  <2> SUFFICES ASSUME Sizes, Inv, Ledger, [UploadNext]_vars PROVE Inv' /\ Ledger'
    OBVIOUS
  <2>1. Inv'
    BY InvStep
  <2>2. QED  BY <2>1, LedgerStep
<1> SUFFICES ASSUME Sizes PROVE UploadSpec => [](Inv /\ Ledger)
  OBVIOUS
<1>3. UploadInit => Inv /\ Ledger
  BY <1>1
<1>4. (Inv /\ Ledger) /\ [UploadNext]_vars => (Inv /\ Ledger)'
  BY <1>2
<1>5. QED  BY <1>3, <1>4, PTL DEF UploadSpec

\* Of two uploads that were not let go, of which nothing was.
LEMMA TwoUploads ==
  ASSUME NEW w, Sizes, Inv, Books(w), forgot = {}, NEW i \in DOMAIN up, NEW j \in DOMAIN up, i # j
  PROVE  /\ up[i].draft # up[j].draft
         /\ up[i].draft < up[j].draft => up[i].op = NoOp
<1>1. i \in Alive /\ j \in Alive
  BY DEF Alive
<1>2. /\ w[i] \in {0, up[i].draft} /\ w[j] \in {0, up[j].draft} /\ w[i] # w[j]
      /\ up[i].draft \in Nat /\ up[i].draft > 0 /\ up[j].draft \in Nat /\ up[j].draft > 0
      /\ storage[0].draft \in Nat
  BY <1>1, Drafts DEF Books, Led, Slots, Sizes
<1>3. /\ w[i] = 0 => storage[0].draft = up[i].draft
      /\ w[j] = 0 => storage[0].draft = up[j].draft
      /\ w[i] # 0 => storage[0].draft < up[i].draft
      /\ w[j] # 0 => storage[0].draft < up[j].draft
  BY <1>1, LedBy DEF Books, Led
<1>4. up[i].draft # up[j].draft
  BY <1>2, <1>3
<1>5. ASSUME up[i].draft < up[j].draft PROVE up[i].op = NoOp
  <2>1. w[j] = up[j].draft /\ w[j] # 0
    BY <1>2, <1>3, <1>5
  <2>2. PICK k : k = w[j]
    OBVIOUS
  <2>3. k \in Revisions /\ storage[k] # NoRecord
    BY <1>1, <2>1, <2>2, LedBy DEF Books, Slots, Revisions
  <2>4. Opened(k)
    BY <2>1, <2>2, <2>3 DEF Books, SlotsOpened, Usable
  <2>5. QED  BY <1>5, <2>1, <2>2, <2>4 DEF Opened
<1>6. QED  BY <1>4, <1>5

\* Until the author lets a video go, a draft revision is reserved once, however
\* many tabs, retries and restarts there are, and whatever is denied and granted
\* later (run and restartForRevision).
THEOREM ReservedOnce == Sizes => (UploadSpec => []OneReservationEach)
<1> SUFFICES ASSUME Sizes PROVE UploadSpec => []OneReservationEach
  OBVIOUS
<1>1. UploadSpec => [](Inv /\ Ledger)
  BY LedgerInvariance
<1>2. Inv /\ Ledger => OneReservationEach
  BY TwoUploads DEF Ledger, OneReservationEach
<1>3. QED  BY <1>1, <1>2, PTL

\* Every reservation can be found again from the recovery records, or the
\* author let it go (a record is persisted before the reservation is asked for).
THEOREM ReservationsFound == Sizes => (UploadSpec => []NothingOrphaned)
<1> SUFFICES ASSUME Sizes PROVE UploadSpec => []NothingOrphaned
  OBVIOUS
<1>1. UploadSpec => [](Inv /\ Ledger)
  BY LedgerInvariance
<1>2. Inv /\ Ledger => NothingOrphaned
  <2> SUFFICES ASSUME Inv, NEW w, Books(w), NEW i \in DOMAIN up, i \notin forgot
               PROVE  \/ \E s \in Slots : storage[s].id = i
                      \/ \E s \in Slots : storage[s].id = 0 /\ storage[s].draft = up[i].draft
    BY DEF Ledger, NothingOrphaned
  <2>1. w[i] \in Slots /\ Leads(w[i], i)
    BY LedBy DEF Books, Led, Alive
  <2>2. QED  BY <2>1 DEF Leads
<1>3. QED  BY <1>1, <1>2, PTL

\* Until the author lets a video go, at most one upload has an operation
\* prepared: a restart leaves none in doubt behind (restartForRevision).
THEOREM RestartsLeaveNoDoubt == Sizes => (UploadSpec => []OneInDoubt)
<1> SUFFICES ASSUME Sizes PROVE UploadSpec => []OneInDoubt
  OBVIOUS
<1>1. UploadSpec => [](Inv /\ Ledger)
  BY LedgerInvariance
<1>2. Inv /\ Ledger => OneInDoubt
  <2> SUFFICES ASSUME Inv, NEW w, Books(w), forgot = {}, NEW i \in DOMAIN up, NEW j \in DOMAIN up,
                      i # j
               PROVE  up[i].op = NoOp \/ up[j].op = NoOp
    BY DEF Ledger, OneInDoubt
  <2>1. up[i].draft < up[j].draft \/ up[j].draft < up[i].draft
    <3>1. up[i].draft # up[j].draft
      BY TwoUploads
    <3>2. QED  BY <3>1, Drafts
  <2>2. QED  BY <2>1, TwoUploads
<1>3. QED  BY <1>1, <1>2, PTL
=============================================================================
