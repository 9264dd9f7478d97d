----------------------------- MODULE StudioSave -----------------------------
(***************************************************************************)
(* One tab of the Course Studio: how app/static/studio.js opens, edits,    *)
(* saves, restores and publishes courses, with studio-save.mjs and the     *)
(* requests of studio-api.mjs.                                             *)
(*                                                                         *)
(* Whatever follows an await in the code is a step of its own here, and    *)
(* the author, the video poll and other browsers act in between.  A        *)
(* document is a token: the course it was made for and a number that names *)
(* its content.  Revision r of a course is server[c][r].                   *)
(***************************************************************************)
EXTENDS Naturals, Sequences, SequencesExt

CONSTANTS
  Courses,
  NoCourse,      \* no course is open
  MaxAttempts,   \* saves that SaveQueue makes for one call
  MaxEdits,      \* bound: documents made by authors and by the video poll
  MaxOpens,      \* bound: times a course is opened
  MaxUndos,      \* bound: times the author undoes or redoes
  MaxElsewhere,  \* bound: drafts saved in another browser
  MaxRestores,   \* bound: published versions restored
  MaxReviews,    \* bound: publications prepared
  MaxMishaps      \* bound: lost replies, failed requests, closed tabs

\* NoCourse is not one of Courses; MaxAttempts is at least 1.

VARIABLES
  tab,        \* the open course: state of studio.js
  recovery,   \* course -> the crash recovery copy in local storage
  server,     \* course -> its revisions
  live,       \* course -> its publications
  save,       \* the save in flight
  callers,    \* caller of saveDraft -> its attempt, 0 when not waiting
  opening,    \* openCourse in flight
  restoring,  \* restoreVersion in flight
  pub,        \* the publication being prepared, reviewed or sent
  video,      \* the poll of a chapter's video
  work,       \* course -> the author's last edit that may not be lost
  confirmed,  \* course -> the documents the author confirmed to publish
  count       \* how often each bounded thing has happened

client == <<tab, recovery, save, callers, opening, restoring, pub, video>>
saveVars == <<client, server, live, work, confirmed, count>>

-----------------------------------------------------------------------------
NoDoc == [of |-> NoCourse, n |-> 0]
Docs == [of: Courses, n: 0 .. MaxEdits + MaxElsewhere]
NoCopy == [doc |-> NoDoc, rev |-> 0]
Callers == {"author", "publish", "video"}

NoTab == [course |-> NoCourse, rev |-> 0, doc |-> NoDoc, saved |-> NoDoc,
          undo |-> <<>>, redo |-> <<>>, seen |-> 0, recovered |-> FALSE,
          conflict |-> FALSE]
NoSave == [pc |-> "idle", course |-> NoCourse, rev |-> 0, doc |-> NoDoc, seen |-> 0,
           recovered |-> FALSE]
NoOpening == [pc |-> "idle", course |-> NoCourse, rev |-> 0, doc |-> NoDoc,
              discard |-> FALSE]
NoRestoring == [pc |-> "idle", course |-> NoCourse, rev |-> 0, doc |-> NoDoc]
NoCandidate == [course |-> NoCourse, rev |-> 0, hash |-> NoDoc, saved |-> NoDoc]
NoPub == [pc |-> "idle", round |-> 0, course |-> NoCourse, rev |-> 0, hash |-> NoDoc,
          candidate |-> NoCandidate, sent |-> NoCandidate, shown |-> NoDoc]
NoVideo == [pc |-> "idle", course |-> NoCourse]

SaveInit ==
  /\ tab = NoTab
  /\ recovery = [c \in Courses |-> NoCopy]
  /\ server = [c \in Courses |-> <<[doc |-> [of |-> c, n |-> 0], by |-> "here"]>>]
  /\ live = [c \in Courses |-> <<>>]
  /\ save = NoSave
  /\ callers = [k \in Callers |-> 0]
  /\ opening = NoOpening
  /\ restoring = NoRestoring
  /\ pub = NoPub
  /\ video = NoVideo
  /\ work = [c \in Courses |-> NoDoc]
  /\ confirmed = [c \in Courses |-> <<>>]
  /\ count = [edits |-> 0, opens |-> 0, undos |-> 0, elsewhere |-> 0, restores |-> 0,
              reviews |-> 0, faults |-> 0]

\* The tab remembers, for the properties only, the latest revision whose
\* content it has shown (seen) and that its document came from a recovery copy.
Later(a, b) == IF a > b THEN a ELSE b

\* dirty: the open document differs from the saved snapshot.
Dirty(t) == t.doc # NoDoc /\ t.doc # t.saved

\* A modal dialog keeps the page inert; key shortcuts still work.
Modal == tab.conflict \/ pub.pc \in {"reviewing", "sending", "published", "failed", "done"}

\* saveCrashRecovery.
CopyOf(t, copies) ==
  IF t.doc = NoDoc \/ t.course = NoCourse THEN copies
  ELSE [copies EXCEPT ![t.course] = [doc |-> t.doc, rev |-> t.rev]]

Bump(field) == count' = [count EXCEPT ![field] = @ + 1]
NewDoc == [of |-> tab.doc.of, n |-> count.edits + count.elsewhere + 1]

-----------------------------------------------------------------------------
(* SaveQueue, SingleFlight and performSaveDraft.                           *)

\* The start of performSaveDraft: what is exported and then sent is taken
\* from the page now.
Begun(t) == [pc |-> "sent", course |-> t.course, rev |-> t.rev, doc |-> t.doc,
             seen |-> t.seen, recovered |-> t.recovered]

\* A bug of PubAfter: a failed save leaves the preparation waiting.
PubAfterStuck(p, k, ok, t) ==
  IF k = "publish" /\ ok THEN [p EXCEPT !.pc = "checking", !.course = t.course] ELSE p

\* What a caller does with the answer of saveDraft.
PubAfter(p, k, ok, t) ==
  IF k # "publish" THEN p
  ELSE IF ok /\ t.doc # NoDoc
       THEN [p EXCEPT !.pc = "checking", !.course = t.course, !.rev = t.rev]
       ELSE NoPub
VideoAfter(v, k, ok, t) ==
  IF k # "video" THEN v
  ELSE IF ok /\ v.pc = "saving" /\ t.course = v.course
       THEN [v EXCEPT !.pc = "waiting"] ELSE NoVideo

\* saveDraft is called by k on tab t: it joins the save in flight, starts
\* one, or is answered at once when nothing is dirty.
Call(k, t, copies, p, v) ==
  IF save.pc = "idle" /\ ~Dirty(t)
  THEN /\ pub' = PubAfter(p, k, TRUE, t) /\ video' = VideoAfter(v, k, TRUE, t)
       /\ recovery' = copies
       /\ UNCHANGED <<save, callers>>
  ELSE /\ callers' = [callers EXCEPT ![k] = 1]
       /\ pub' = p /\ video' = v
       /\ IF save.pc = "idle"
          THEN save' = Begun(t) /\ recovery' = CopyOf(t, copies)
          ELSE recovery' = copies /\ UNCHANGED save

\* The save button and Ctrl+S, which works under a dialog too.
SaveClick ==
  /\ Dirty(tab) /\ callers["author"] = 0
  /\ Call("author", tab, recovery, pub, video)
  /\ UNCHANGED <<tab, server, live, opening, restoring, work, confirmed, count>>

\* PUT draft: a compare-and-swap on the revision.
SaveCommit ==
  /\ save.pc = "sent"
  /\ IF Len(server[save.course]) = save.rev
     THEN /\ server' = [server EXCEPT ![save.course] = Append(@, [doc |-> save.doc, by |-> "here"])]
          /\ save' = [save EXCEPT !.pc = "saved"]
     ELSE /\ save' = [save EXCEPT !.pc = "conflict"]
          /\ UNCHANGED server
  /\ UNCHANGED <<tab, recovery, callers, opening, restoring, pub, video, live, work,
                 confirmed, count>>

\* The export fails, or the draft or its reply is lost.
LoseSave ==
  /\ save.pc \in {"sent", "saved", "conflict"} /\ count.faults < MaxMishaps
  /\ save' = [save EXCEPT !.pc = "failed"]
  /\ Bump("faults")
  /\ UNCHANGED <<tab, recovery, callers, opening, restoring, pub, video, server, live, work,
                 confirmed>>

\* A bug of Acknowledged: what is on the page counts as saved.
AcknowledgedAll(t) == [t EXCEPT !.rev = save.rev + 1, !.saved = t.doc]

\* The page after an acknowledged save of the course that is open.
Acknowledged(t) ==
  LET same == t.doc = save.doc
  IN  [t EXCEPT !.rev = save.rev + 1, !.saved = save.doc,
                !.seen = IF same THEN Later(@, save.rev + 1) ELSE @,
                !.recovered = @ /\ ~same]

\* A bug of Outcome: the recovery copy is cleared although edits came in.
OutcomeClears ==
  IF save.pc = "saved" /\ tab.course = save.course /\ tab.doc # NoDoc
  THEN [tab |-> Acknowledged(tab), ok |-> TRUE,
        recovery |-> [recovery EXCEPT ![tab.course] = NoCopy]]
  ELSE [tab |-> tab, recovery |-> recovery, ok |-> FALSE]

\* A bug of Outcome: the revision that caused a conflict is adopted.
OutcomeAdopts ==
  IF save.pc = "saved"
  THEN [tab |-> Acknowledged(tab), recovery |-> recovery, ok |-> TRUE]
  ELSE [tab |-> IF tab.course = NoCourse THEN tab
                ELSE [tab EXCEPT !.rev = Len(server[tab.course])],
        recovery |-> recovery, ok |-> FALSE]

\* A bug of Outcome: the answer is put into whatever course is open.
OutcomeAnywhere ==
  IF save.pc = "saved" /\ tab.doc # NoDoc
  THEN [tab |-> [Acknowledged(tab) EXCEPT !.doc = save.doc], recovery |-> recovery, ok |-> TRUE]
  ELSE [tab |-> tab, recovery |-> recovery, ok |-> FALSE]

\* performSaveDraft after its last await: the tab, the recovery copies and
\* its answer.
Outcome ==
  CASE save.pc = "saved" /\ tab.course # save.course ->
         [tab |-> tab, recovery |-> recovery, ok |-> TRUE]
    [] save.pc = "saved" /\ tab.course = save.course /\ tab.doc = NoDoc ->
         [tab |-> tab, recovery |-> recovery, ok |-> FALSE]
    [] save.pc = "saved" /\ tab.course = save.course /\ tab.doc # NoDoc ->
         LET t == Acknowledged(tab)
         IN  [tab |-> t, ok |-> TRUE,
              recovery |-> IF Dirty(t) THEN CopyOf(t, recovery)
                           ELSE [recovery EXCEPT ![t.course] = NoCopy]]
    [] save.pc = "conflict" ->
         [tab |-> [tab EXCEPT !.conflict = TRUE], recovery |-> recovery, ok |-> FALSE]
    [] save.pc = "failed" ->
         [tab |-> tab, recovery |-> CopyOf(tab, recovery), ok |-> FALSE]

\* A bug of Again: a caller saves as long as edits arrive.
AgainUnbounded(o) == {k \in Callers : callers[k] > 0 /\ o.ok /\ Dirty(o.tab)}

\* SaveQueue.run: the callers that save once more.
Again(o) == {k \in Callers : /\ callers[k] \in 1 .. MaxAttempts - 1
                             /\ o.ok /\ Dirty(o.tab)}

\* A bug of CallersAfter: nobody is told of a save that failed.
CallersAfterSuccess(o) ==
  [k \in Callers |-> IF k \in Again(o) THEN callers[k] + 1 ELSE IF o.ok THEN 0 ELSE callers[k]]

\* The callers that do not save again have their answer.
CallersAfter(o) == [k \in Callers |-> IF k \in Again(o) THEN callers[k] + 1 ELSE 0]

\* The save settles and every caller that waited goes on: it saves again
\* while the page is dirty, at most MaxAttempts times.
SaveLand ==
  LET o == Outcome
      waiting == {k \in Callers : callers[k] > 0}
      again == Again(o)
      good == o.ok /\ ~Dirty(o.tab)
  IN  /\ save.pc \in {"saved", "conflict", "failed"}
      /\ tab' = o.tab
      /\ callers' = CallersAfter(o)
      /\ save' = IF again = {} THEN NoSave ELSE Begun(o.tab)
      /\ recovery' = IF again = {} THEN o.recovery ELSE CopyOf(o.tab, o.recovery)
      /\ pub' = IF "publish" \in waiting \ again THEN PubAfter(pub, "publish", good, o.tab)
                ELSE pub
      /\ video' = IF "video" \in waiting \ again THEN VideoAfter(video, "video", good, o.tab)
                  ELSE video
      /\ UNCHANGED <<server, live, opening, restoring, work, confirmed, count>>

-----------------------------------------------------------------------------
(* Editing.                                                                *)

\* commit, with a new document.
Committed(t, d) == [t EXCEPT !.doc = d, !.undo = Append(@, t.doc), !.redo = <<>>]

Edit ==
  /\ tab.doc # NoDoc /\ ~Modal /\ count.edits < MaxEdits
  /\ tab' = Committed(tab, NewDoc)
  /\ recovery' = CopyOf(tab', recovery)
  /\ pub' = [pub EXCEPT !.candidate = NoCandidate]
  /\ work' = [work EXCEPT ![tab.course] = NewDoc]
  /\ Bump("edits")
  /\ UNCHANGED <<save, callers, opening, restoring, video, server, live, confirmed>>

Undo ==
  /\ tab.undo # <<>> /\ count.undos < MaxUndos /\ Bump("undos")
  /\ tab' = [tab EXCEPT !.doc = Last(tab.undo), !.undo = Front(@), !.redo = Append(@, tab.doc)]
  /\ recovery' = CopyOf(tab', recovery)
  /\ work' = [work EXCEPT ![tab.course] = tab'.doc]
  /\ UNCHANGED <<save, callers, opening, restoring, pub, video, server, live, confirmed>>

Redo ==
  /\ tab.redo # <<>> /\ count.undos < MaxUndos /\ Bump("undos")
  /\ IF Last(tab.redo) = NoDoc
     THEN tab' = [tab EXCEPT !.redo = Front(@)] /\ UNCHANGED <<recovery, work>>
     ELSE /\ tab' = [tab EXCEPT !.doc = Last(tab.redo), !.redo = Front(@),
                                !.undo = Append(@, tab.doc)]
          /\ recovery' = CopyOf(tab', recovery)
          /\ work' = [work EXCEPT ![tab.course] = tab'.doc]
  /\ UNCHANGED <<save, callers, opening, restoring, pub, video, server, live, confirmed>>

-----------------------------------------------------------------------------
(* Opening a course.                                                       *)

Open(c) ==
  /\ opening.pc = "idle" /\ ~Modal /\ count.opens < MaxOpens
  /\ opening' = [NoOpening EXCEPT !.pc = "asked", !.course = c]
  /\ Bump("opens")
  /\ UNCHANGED <<tab, recovery, save, callers, restoring, pub, video, server, live, work,
                 confirmed>>

\* The conflict dialog: keep the work, or reload and discard it.
Keep ==
  /\ tab.conflict
  /\ tab' = [tab EXCEPT !.conflict = FALSE]
  /\ UNCHANGED <<recovery, save, callers, opening, restoring, pub, video, server, live, work,
                 confirmed, count>>

Reload ==
  /\ tab.conflict /\ opening.pc = "idle" /\ count.opens < MaxOpens /\ Bump("opens")
  /\ tab' = [tab EXCEPT !.conflict = FALSE]
  /\ opening' = [NoOpening EXCEPT !.pc = "asked", !.course = tab.course, !.discard = TRUE]
  /\ work' = [work EXCEPT ![tab.course] = NoDoc]
  /\ UNCHANGED <<recovery, save, callers, restoring, pub, video, server, live, confirmed>>

\* GET course.
OpenRead ==
  /\ opening.pc = "asked"
  /\ opening' = [opening EXCEPT !.pc = "read", !.rev = Len(server[opening.course]),
                                !.doc = Last(server[opening.course]).doc]
  /\ UNCHANGED <<tab, recovery, save, callers, restoring, pub, video, server, live, work,
                 confirmed, count>>

OpenFail ==
  /\ opening.pc # "idle" /\ count.faults < MaxMishaps
  /\ opening' = NoOpening
  /\ Bump("faults")
  /\ UNCHANGED <<tab, recovery, save, callers, restoring, pub, video, server, live, work,
                 confirmed>>

\* A recovery copy that differs is offered: restored, or declined and cleared.
OpenLand ==
  LET c == opening.course
      copy == recovery[c]
      before == IF tab.course = c THEN tab.seen ELSE 0
      fresh == [NoTab EXCEPT !.course = c, !.rev = opening.rev, !.doc = opening.doc,
                             !.saved = opening.doc, !.seen = Later(before, opening.rev),
                             !.conflict = tab.conflict]
      offered == ~opening.discard /\ copy # NoCopy /\ copy.doc # opening.doc
  IN  /\ opening.pc = "read"
      /\ opening' = NoOpening
      /\ pub' = [pub EXCEPT !.candidate = NoCandidate]
      /\ \/ /\ offered
            /\ tab' = [fresh EXCEPT !.doc = copy.doc, !.seen = Later(before, copy.rev),
                                    !.recovered = TRUE]
            /\ UNCHANGED <<recovery, work>>
         \/ /\ offered
            /\ tab' = fresh
            /\ recovery' = [recovery EXCEPT ![c] = NoCopy]
            /\ work' = [work EXCEPT ![c] = NoDoc]
         \/ /\ ~offered
            /\ tab' = fresh
            /\ recovery' = IF opening.discard THEN [recovery EXCEPT ![c] = NoCopy] ELSE recovery
            /\ UNCHANGED work
      /\ UNCHANGED <<save, callers, restoring, video, server, live, confirmed, count>>

-----------------------------------------------------------------------------
(* Restoring a published version.                                          *)

RestoreClick ==
  /\ restoring.pc = "idle" /\ tab.doc # NoDoc /\ ~Modal /\ count.restores < MaxRestores
  /\ \E i \in DOMAIN live[tab.course] :
       restoring' = [pc |-> "asked", course |-> tab.course, rev |-> tab.rev,
                     doc |-> live[tab.course][i]]
  /\ work' = [work EXCEPT ![tab.course] = NoDoc]
  /\ Bump("restores")
  /\ UNCHANGED <<tab, recovery, save, callers, opening, pub, video, server, live, confirmed>>

\* POST restore: a compare-and-swap that makes the version a new revision.
RestoreCommit ==
  /\ restoring.pc = "asked"
  /\ IF Len(server[restoring.course]) = restoring.rev
     THEN /\ server' = [server EXCEPT ![restoring.course] =
                          Append(@, [doc |-> restoring.doc, by |-> "here"])]
          /\ restoring' = [restoring EXCEPT !.pc = "read", !.rev = @ + 1]
     ELSE restoring' = NoRestoring /\ UNCHANGED server
  /\ UNCHANGED <<tab, recovery, save, callers, opening, pub, video, live, work, confirmed, count>>

RestoreFail ==
  /\ restoring.pc # "idle" /\ count.faults < MaxMishaps
  /\ restoring' = NoRestoring
  /\ Bump("faults")
  /\ UNCHANGED <<tab, recovery, save, callers, opening, pub, video, server, live, work, confirmed>>

\* The answer is put into the tab whatever course is open by now.
RestoreLand ==
  /\ restoring.pc = "read"
  /\ tab' = [tab EXCEPT !.rev = restoring.rev, !.doc = restoring.doc, !.saved = restoring.doc,
                        !.undo = <<>>, !.redo = <<>>, !.seen = Later(@, restoring.rev),
                        !.recovered = FALSE]
  /\ recovery' = [recovery EXCEPT ![tab.course] = NoCopy]
  /\ pub' = [pub EXCEPT !.candidate = NoCandidate]
  /\ restoring' = NoRestoring
  /\ UNCHANGED <<save, callers, opening, video, server, live, work, confirmed, count>>

-----------------------------------------------------------------------------
(* Publishing: preparePublish and submitReviewedPublication.               *)

BeginPublish ==
  /\ pub.pc = "idle" /\ tab.doc # NoDoc /\ ~Modal /\ count.reviews < MaxReviews
  /\ Bump("reviews")
  /\ Call("publish", tab, recovery, [NoPub EXCEPT !.pc = "saving", !.round = 1], video)
  /\ UNCHANGED <<tab, opening, restoring, server, live, work, confirmed>>

\* POST validate: the server checks its draft and names its revision and hash.
Validate ==
  /\ pub.pc = "checking"
  /\ pub' = [pub EXCEPT !.pc = "validated", !.rev = Len(server[pub.course]),
                        !.hash = Last(server[pub.course]).doc]
  /\ UNCHANGED <<tab, recovery, save, callers, opening, restoring, video, server, live, work,
                 confirmed, count>>

\* Edits made during the check are saved and checked once more; blockers,
\* a failed check or a closed course end the preparation.
Checked ==
  /\ pub.pc = "validated"
  /\ \/ /\ tab.doc # NoDoc /\ Dirty(tab) /\ pub.round = 1
        /\ Call("publish", tab, recovery, [pub EXCEPT !.pc = "saving", !.round = 2], video)
     \/ /\ tab.doc # NoDoc /\ (~Dirty(tab) \/ pub.round = 2)
        /\ pub' = [pub EXCEPT !.pc = "listing"]
        /\ UNCHANGED <<recovery, save, callers, video>>
     \/ /\ pub' = NoPub
        /\ UNCHANGED <<recovery, save, callers, video>>
  /\ UNCHANGED <<tab, opening, restoring, server, live, work, confirmed, count>>

\* The history has been read: the exact draft becomes the candidate, and the
\* dialog shows the open document.
Review ==
  /\ pub.pc = "listing"
  /\ pub' = IF tab.doc = NoDoc \/ Dirty(tab) \/ pub.rev # tab.rev
            THEN NoPub
            ELSE [pub EXCEPT !.pc = "reviewing", !.shown = tab.doc,
                    !.candidate = [course |-> tab.course, rev |-> tab.rev, hash |-> pub.hash,
                                   saved |-> tab.saved]]
  /\ UNCHANGED <<tab, recovery, save, callers, opening, restoring, video, server, live, work,
                 confirmed, count>>

\* The publish button of the dialog: nothing may have changed meanwhile.
Confirm ==
  LET c == pub.candidate
  IN  /\ pub.pc = "reviewing"
      /\ IF /\ c # NoCandidate /\ c.course = tab.course /\ c.rev = tab.rev
            /\ c.saved = tab.saved /\ ~Dirty(tab)
         THEN /\ pub' = [pub EXCEPT !.pc = "sending", !.sent = c]
              /\ confirmed' = [confirmed EXCEPT ![c.course] = Append(@, pub.shown)]
         ELSE /\ pub' = [NoPub EXCEPT !.pc = "done"]
              /\ UNCHANGED confirmed
      /\ UNCHANGED <<tab, recovery, save, callers, opening, restoring, video, server, live, work,
                     count>>

\* POST publish: fenced by revision and hash.  An indexed publication adds a
\* revision of its own.
PublishCommit ==
  LET c == pub.sent.course
  IN  /\ pub.pc = "sending"
      /\ IF Len(server[c]) = pub.sent.rev /\ Last(server[c]).doc = pub.sent.hash
         THEN /\ live' = [live EXCEPT ![c] = Append(@, pub.sent.hash)]
              /\ \E indexed \in BOOLEAN :
                   /\ server' = IF indexed
                                THEN [server EXCEPT ![c] = Append(@, [Last(@) EXCEPT !.by = "here"])]
                                ELSE server
                   /\ pub' = [pub EXCEPT !.pc = "published", !.rev = Len(server'[c])]
         ELSE pub' = [pub EXCEPT !.pc = "failed"] /\ UNCHANGED <<server, live>>
      /\ UNCHANGED <<tab, recovery, save, callers, opening, restoring, video, work, confirmed,
                     count>>

\* A check or a publication that fails, or whose reply is lost: no retry.
LosePublish ==
  /\ pub.pc \in {"checking", "sending", "published"} /\ count.faults < MaxMishaps
  /\ pub' = IF pub.pc = "checking" THEN NoPub ELSE [pub EXCEPT !.pc = "failed"]
  /\ Bump("faults")
  /\ UNCHANGED <<tab, recovery, save, callers, opening, restoring, video, server, live, work,
                 confirmed>>

\* A bug of PublishLand: a publication without an answer is sent again.
PublishLandRetries ==
  /\ pub.pc \in {"published", "failed"}
  /\ pub' = IF pub.pc = "failed" THEN [pub EXCEPT !.pc = "sending"] ELSE [NoPub EXCEPT !.pc = "done"]
  /\ UNCHANGED <<tab, recovery, save, callers, opening, restoring, video, server, live, work,
                 confirmed, count>>

PublishLand ==
  /\ pub.pc \in {"published", "failed"}
  /\ IF pub.pc = "published"
     THEN /\ tab' = [tab EXCEPT !.rev = pub.rev, !.saved = pub.sent.saved]
     ELSE UNCHANGED tab
  /\ pub' = [NoPub EXCEPT !.pc = "done"]
  /\ UNCHANGED <<recovery, save, callers, opening, restoring, video, server, live, work,
                 confirmed, count>>

CloseDialog ==
  /\ pub.pc \in {"reviewing", "done"}
  /\ pub' = NoPub
  /\ UNCHANGED <<tab, recovery, save, callers, opening, restoring, video, server, live, work,
                 confirmed, count>>

-----------------------------------------------------------------------------
(* The poll of a chapter's video, which commits and saves by itself.       *)

StartVideo ==
  /\ video.pc = "idle" /\ tab.doc # NoDoc /\ ~Modal /\ count.edits < MaxEdits
  /\ Call("video", tab, recovery, pub, [pc |-> "saving", course |-> tab.course])
  /\ UNCHANGED <<tab, opening, restoring, server, live, work, confirmed, count>>

\* The video is ready, whatever the author does at the moment.
VideoReady ==
  /\ video.pc = "waiting"
  /\ IF tab.course = video.course /\ tab.doc # NoDoc /\ count.edits < MaxEdits
     THEN LET t == Committed(tab, NewDoc)
          IN  /\ tab' = t
              /\ work' = [work EXCEPT ![tab.course] = NewDoc]
              /\ Bump("edits")
              /\ Call("video", t, CopyOf(t, recovery),
                      [pub EXCEPT !.candidate = NoCandidate],
                      [video EXCEPT !.pc = "committing"])
     ELSE video' = NoVideo /\ UNCHANGED <<tab, work, count, recovery, save, callers, pub>>
  /\ UNCHANGED <<opening, restoring, server, live, confirmed>>

-----------------------------------------------------------------------------
(* Signing out, closing the tab, and other browsers.                       *)

Logout ==
  /\ tab.doc # NoDoc /\ ~Modal /\ count.faults < MaxMishaps
  /\ tab' = [tab EXCEPT !.doc = NoDoc, !.saved = NoDoc]
  /\ Bump("faults")
  /\ UNCHANGED <<recovery, save, callers, opening, restoring, pub, video, server, live, work,
                 confirmed>>

ClosePage ==
  /\ tab # NoTab /\ count.faults < MaxMishaps
  /\ tab' = NoTab /\ save' = NoSave /\ callers' = [k \in Callers |-> 0]
  /\ opening' = NoOpening /\ restoring' = NoRestoring /\ pub' = NoPub /\ video' = NoVideo
  /\ Bump("faults")
  /\ UNCHANGED <<recovery, server, live, work, confirmed>>

SaveElsewhere(c) ==
  /\ count.elsewhere < MaxElsewhere
  /\ server' = [server EXCEPT ![c] = Append(@,
       [doc |-> [of |-> c, n |-> count.edits + count.elsewhere + 1], by |-> "elsewhere"])]
  /\ Bump("elsewhere")
  /\ UNCHANGED <<client, live, work, confirmed>>

-----------------------------------------------------------------------------
Acts ==
  \/ Edit \/ Undo \/ Redo \/ SaveClick \/ Keep \/ Reload \/ RestoreClick \/ BeginPublish
  \/ Confirm \/ CloseDialog \/ StartVideo \/ Logout
  \/ \E c \in Courses : Open(c)

\* The page and the server go on with what was asked of them.
Goes ==
  \/ SaveCommit \/ SaveLand \/ OpenRead \/ OpenLand \/ RestoreCommit \/ RestoreLand
  \/ Validate \/ Checked \/ Review \/ PublishCommit \/ PublishLand \/ VideoReady

Around ==
  \/ LoseSave \/ OpenFail \/ RestoreFail \/ LosePublish \/ ClosePage
  \/ \E c \in Courses : SaveElsewhere(c)

SaveNext == Acts \/ Goes \/ Around

SaveSpec == SaveInit /\ [][SaveNext]_saveVars

\* Every request is answered or fails, and the page handles what it gets.
LiveSaveSpec ==
  /\ SaveSpec
  /\ WF_saveVars(SaveCommit \/ SaveLand)
  /\ WF_saveVars(Validate \/ Checked \/ Review)

-----------------------------------------------------------------------------
(* Properties.                                                             *)

\* The types, and that callers wait exactly while a save is in flight
\* (SingleFlight, studio-save.mjs).
SaveTypeOK ==
  /\ tab.doc \in Docs \cup {NoDoc} /\ tab.saved \in Docs \cup {NoDoc}
  /\ tab.course \in Courses \cup {NoCourse}
  /\ \A c \in Courses : recovery[c].doc \in Docs \cup {NoDoc}
  /\ \A c \in Courses : \A r \in DOMAIN server[c] : server[c][r].doc \in Docs
  /\ \A k \in Callers : callers[k] \in 0 .. MaxAttempts
  /\ (save.pc = "idle") <=> \A k \in Callers : callers[k] = 0

\* The author's last edit of a course is on the page, in the recovery copy
\* or on the server.
EditSafe(c) ==
  \/ work[c] = NoDoc
  \/ tab.course = c /\ tab.doc = work[c]
  \/ recovery[c].doc = work[c]
  \/ \E r \in DOMAIN server[c] : server[c][r].doc = work[c]

\* No step of the page, no failure and no closed tab loses an edit, but the
\* arrival of a restored or reloaded draft.
WorkKeptStep ==
  \A c \in Courses : EditSafe(c) => EditSafe(c)' \/ RestoreLand
                                    \/ (OpenLand /\ opening.discard)
WorkKept == [][WorkKeptStep]_saveVars

\* A browser-local recovery copy protects unsaved edits.
EditsProtected == \A c \in Courses : EditSafe(c)

\* What the page calls saved is what the server has as that revision.
SavedIsTrue ==
  tab.doc # NoDoc /\ tab.saved # NoDoc =>
    tab.rev \in DOMAIN server[tab.course] /\ server[tab.course][tab.rev].doc = tab.saved

\* The page shows a document of the course it says is open.
CourseMatches == tab.doc # NoDoc => tab.doc.of = tab.course

\* An accepted save that replaces a draft of another browser unseen.
Overwrites ==
  LET revisions == server[save.course]
  IN  /\ SaveCommit /\ server' # server
      /\ Last(revisions).by = "elsewhere" /\ Len(revisions) > save.seen

\* A save replaces no draft of another browser that was never shown here,
\* except from a recovery copy the author took back.
NoUnseenOverwriteStep ==
  Overwrites => save.recovered
NoUnseenOverwrite == [][NoUnseenOverwriteStep]_saveVars

\* A draft goes live only as the author reviewed it, once for each
\* confirmation.
PublishedAsReviewed ==
  \A c \in Courses :
    /\ Len(live[c]) <= Len(confirmed[c])
    /\ \A i \in DOMAIN live[c] : \E j \in DOMAIN confirmed[c] : confirmed[c][j] = live[c][i]

\* The conflict dialog, which says that the course was saved in another tab
\* or browser, opens only when it was.
ConflictIsReal ==
  [][~tab.conflict /\ tab'.conflict =>
       /\ tab.course = save.course
       /\ \E r \in DOMAIN server[save.course] :
            r > save.rev /\ server[save.course][r].by = "elsewhere"]_saveVars

\* A save asked for by the author is answered.
SaveAnswered == callers["author"] > 0 ~> callers["author"] = 0

\* A publication being prepared reaches its dialog or ends.
PreparationEnds ==
  pub.pc \in {"saving", "checking", "validated", "listing"} ~>
    pub.pc \notin {"saving", "checking", "validated", "listing"}
=============================================================================
