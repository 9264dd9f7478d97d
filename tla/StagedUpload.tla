---------------------------- MODULE StagedUpload ----------------------------
(***************************************************************************)
(* The private video upload of a Studio chapter: the controller            *)
(* app/static/studio-upload.mjs, its panel app/static/studio-upload-       *)
(* panel.mjs and what both expect of the upload service.                   *)
(*                                                                         *)
(* Tabs of one browser share local storage.  Its slots hold the recovery   *)
(* records of one chapter: slot 0 is the base key, slot r > 0 the key of   *)
(* the draft revision r.  An upload of a chapter runs under the Web Lock   *)
(* of the base key; an upload of a whole course (Chapter = FALSE) does     *)
(* not.  Every request may lose its reply, and a tab may close at any      *)
(* point.                                                                  *)
(***************************************************************************)
EXTENDS Naturals, Sequences, FiniteSets

CONSTANTS
  Tabs,         \* the tabs of one browser
  Files,        \* videos the author may choose (the thumbnail is fixed)
  VideoParts,   \* parts of a video; the thumbnail has one
  MaxRevision,  \* bound: saved draft revisions
  MaxUploads,   \* bound: reservations the service hands out
  MaxFaults,    \* bound: lost replies, expiries, closed tabs
  MaxSlots,     \* recovery records kept for a chapter
  Chapter,      \* TRUE: a chapter's upload, FALSE: a course's
  Transient     \* TRUE: the service may deny what it grants later

\* VideoParts and MaxRevision are at least 1.

VARIABLES
  draft,    \* the draft revision saved on the server
  storage,  \* slot -> recovery record
  lock,     \* the tab that holds the chapter's Web Lock
  panel,    \* tab -> the panel's current uploader and its staged slot
  run,      \* tab -> the uploader call in progress
  up,       \* sequence of the service's uploads
  forgot,   \* uploads whose record startNew removed
  faults    \* faults so far

vars == <<draft, storage, lock, panel, run, up, forgot, faults>>

-----------------------------------------------------------------------------
Kinds == {"video", "thumbnail"}
Revisions == 1 .. MaxRevision
Slots == 0 .. MaxRevision
Ids == 1 .. MaxUploads
NoOne == "no one"
NoRecord == [id |-> 0, draft |-> 0, file |-> "none", state |-> "none"]
NoOp == [kind |-> "none", action |-> "none", file |-> "none", fence |-> 0]

PartsOf(kind) == IF kind = "video" THEN VideoParts ELSE 1

\* A record of local storage; id 0 is a reservation not confirmed.
Record == [id: 0 .. MaxUploads, draft: Revisions, file: Files,
           state: {"reservation_unconfirmed", "paused", "uploading", "blocked", "staged"}]

\* The stored progress of one file: its parts are named by the file whose
\* bytes they hold.
Progress == [created: BOOLEAN, parts: Seq(Files), stored: BOOLEAN]
NoProgress == [created |-> FALSE, parts |-> <<>>, stored |-> FALSE]

Op == [kind: Kinds, action: {"create_multipart", "upload_part", "complete_multipart"},
       file: Files, fence: Nat]
Upload == [draft: Revisions, fence: Nat, blocked: BOOLEAN, op: Op \cup {NoOp},
           files: [Kinds -> Progress]]

\* A bug of AllStored: one stored file is taken for both.
AnyStored(files) == \E k \in Kinds : files[k].stored

AllStored(files) == \A k \in Kinds : files[k].stored

Idle == [pc |-> "idle", mode |-> "none", rev |-> 0, key |-> 0, current |-> FALSE,
         file |-> "none", paused |-> FALSE, rec |-> NoRecord, remote |-> NoRecord,
         op |-> NoOp, left |-> {}]

\* new StagedUpload: the slot of the revision if it exists, else the base.
KeyFor(rev) == IF storage[rev] # NoRecord THEN rev ELSE 0

\* stage: a staged record of the revision that is open; any other record
\* withdraws what was staged, no record leaves it.
NoStaged == MaxRevision + 1
StageOf(rec, rev, key, old) ==
  CASE rec = NoRecord -> old
    [] rec # NoRecord /\ rec.state = "staged" /\ rec.draft = rev -> key
    [] OTHER -> NoStaged

UploadInit ==
  /\ draft = 1
  /\ storage = [s \in Slots |-> NoRecord]
  /\ lock = NoOne
  /\ panel = [t \in Tabs |-> [rev |-> 1, key |-> 0, staged |-> NoStaged]]
  /\ run = [t \in Tabs |-> Idle]
  /\ up = <<>>
  /\ forgot = {}
  /\ faults = 0

-----------------------------------------------------------------------------
(* The panel.                                                              *)

\* refresh under a new context: the running call is told to pause and goes
\* on without being the panel's uploader.
Refreshed(t, rev) ==
  LET key == KeyFor(rev)
  IN  panel' = [panel EXCEPT ![t] =
        [rev |-> rev, key |-> key,
         staged |-> StageOf(storage[key], rev, key, panel[t].staged)]]
Detached(t) == [run[t] EXCEPT !.paused = TRUE, !.current = FALSE]

\* The author saves in this tab, which has the latest draft.
SaveDraft(t) ==
  /\ panel[t].rev = draft /\ draft < MaxRevision
  /\ draft' = draft + 1
  /\ Refreshed(t, draft + 1)
  /\ run' = [run EXCEPT ![t] = IF @.pc = "idle" THEN @ ELSE Detached(t)]
  /\ UNCHANGED <<storage, lock, up, forgot, faults>>

\* A tab behind the draft opens the course again.
Reopen(t) ==
  /\ panel[t].rev < draft
  /\ Refreshed(t, draft)
  /\ run' = [run EXCEPT ![t] = IF @.pc = "idle" THEN @ ELSE Detached(t)]
  /\ UNCHANGED <<draft, storage, lock, up, forgot, faults>>

\* uploadSelectedVideo: the choice between resuming and restarting is made
\* on the record read before the lock is asked for.
Select(t, f) ==
  /\ run[t].pc = "idle"
  /\ LET previous == storage[panel[t].key]
         restart == Chapter /\ previous # NoRecord /\ previous.draft # panel[t].rev
     IN  run' = [run EXCEPT ![t] =
           [Idle EXCEPT !.pc = IF Chapter THEN "asking" ELSE "preparing",
                        !.mode = IF restart THEN "restart" ELSE "run",
                        !.rev = panel[t].rev, !.key = panel[t].key,
                        !.current = TRUE, !.file = f]]
  /\ UNCHANGED <<draft, storage, lock, panel, up, forgot, faults>>

\* The check button: inspect.
Check(t) ==
  /\ run[t].pc = "idle" /\ storage[panel[t].key] # NoRecord
  /\ run' = [run EXCEPT ![t] =
       [Idle EXCEPT !.pc = IF Chapter THEN "asking" ELSE "loading",
                    !.mode = "inspect", !.rev = panel[t].rev,
                    !.key = panel[t].key, !.current = TRUE]]
  /\ UNCHANGED <<draft, storage, lock, panel, up, forgot, faults>>

Pause(t) ==
  /\ run[t].pc # "idle" /\ run[t].current /\ ~run[t].paused
  /\ run' = [run EXCEPT ![t].paused = TRUE]
  /\ UNCHANGED <<draft, storage, lock, panel, up, forgot, faults>>

\* The delete button of the chapter's video: the draft without it is saved,
\* the panel refreshes, and startNew removes what is staged, or else the record
\* of the slot; a record that is not staged is in its way.
RemoveVideo(t) ==
  LET rev == draft + 1
      key == KeyFor(rev)
      staged == StageOf(storage[key], rev, key, panel[t].staged)
      slot == IF staged # NoStaged THEN staged ELSE key
  IN  /\ panel[t].rev = draft /\ draft < MaxRevision /\ run[t].pc = "idle"
      /\ storage[key] = NoRecord \/ storage[key].state = "staged"
      /\ storage[slot] # NoRecord
      /\ draft' = rev
      /\ storage' = [storage EXCEPT ![slot] = NoRecord]
      /\ forgot' = forgot \cup ({storage[slot].id} \ {0})
      /\ LET again == IF storage'[rev] # NoRecord THEN rev ELSE 0
         IN  panel' = [panel EXCEPT ![t] =
               [rev |-> rev, key |-> again,
                staged |-> StageOf(storage'[again], rev, again, NoStaged)]]
      /\ UNCHANGED <<lock, run, up, faults>>

-----------------------------------------------------------------------------
(* How a call ends.  Leaving the lock and the busy flag are one step.      *)

Freed(t) == IF lock = t THEN NoOne ELSE lock

\* The outcome of a call that is thrown or returned before a record exists.
Leave(t) ==
  /\ run' = [run EXCEPT ![t] = Idle]
  /\ lock' = Freed(t)

\* The catch block of runLocked: a reserved upload that is not blocked is
\* saved as paused.
Stop(t, rec) ==
  /\ storage' = IF rec.id # 0 /\ rec.state # "blocked"
                THEN [storage EXCEPT ![run[t].key] = [rec EXCEPT !.state = "paused"]]
                ELSE storage
  /\ Leave(t)

\* A run whose record is final.
Settle(t, rec) ==
  /\ storage' = [storage EXCEPT ![run[t].key] = rec]
  /\ Leave(t)

-----------------------------------------------------------------------------
(* withChapterLock, run and restartForRevision.                            *)

\* ifAvailable: the lock is granted at once or refused at once.
AskLock(t) ==
  /\ run[t].pc = "asking"
  /\ IF lock # NoOne \/ (run[t].paused /\ run[t].mode # "inspect")
     THEN Leave(t) /\ UNCHANGED panel
     ELSE LET own == storage[run[t].rev] # NoRecord
              key == IF run[t].mode = "run" /\ own THEN run[t].rev ELSE run[t].key
          IN  /\ lock' = t
              /\ run' = [run EXCEPT ![t].pc =
                   CASE run[t].mode = "run" -> "preparing"
                     [] run[t].mode = "inspect" -> "loading"
                     [] run[t].mode = "restart" -> "listing", ![t].key = key]
              /\ panel' = IF run[t].current THEN [panel EXCEPT ![t].key = key] ELSE panel
  /\ UNCHANGED <<draft, storage, up, forgot, faults>>

\* restartForRevision: the slots that exist are examined one by one.
ListSlots(t) ==
  LET kept == {s \in Slots : storage[s] # NoRecord}
  IN  /\ run[t].pc = "listing"
      /\ IF Cardinality(kept) \in 1 .. MaxSlots - 1 /\ storage[run[t].rev] = NoRecord
         THEN run' = [run EXCEPT ![t].pc = "examining", ![t].left = kept] /\ UNCHANGED lock
         ELSE Leave(t)
      /\ UNCHANGED <<draft, storage, panel, up, forgot, faults>>

\* A bug of SlotIdle: only an uncertain predecessor prevents a restart.
SlotNotBlocked(t, s) ==
  LET rec == storage[s]
  IN  rec # NoRecord /\ rec.id # 0 /\ rec.draft # run[t].rev /\ ~up[rec.id].blocked

\* One predecessor: its record is reserved, of another revision, and the
\* service has no operation of it in doubt.
SlotIdle(t, s) ==
  LET rec == storage[s]
  IN  /\ rec # NoRecord /\ rec.id # 0 /\ rec.draft # run[t].rev
      /\ ~up[rec.id].blocked /\ up[rec.id].op = NoOp

Examine(t) ==
  /\ run[t].pc = "examining"
  /\ \/ \E s \in run[t].left :
          IF SlotIdle(t, s)
          THEN run' = [run EXCEPT ![t].left = @ \ {s}] /\ UNCHANGED lock
          ELSE Leave(t)
     \/ /\ run[t].left = {}
        /\ IF run[t].paused
           THEN Leave(t)
           ELSE run' = [run EXCEPT ![t].pc = "preparing", ![t].key = run[t].rev]
                /\ UNCHANGED lock
  /\ UNCHANGED <<draft, storage, panel, up, forgot, faults>>

-----------------------------------------------------------------------------
(* runLocked.                                                              *)

\* What the service acknowledges must be a prefix of the selected bytes.
Matches(rec, remote) ==
  /\ \A k \in Kinds : \A i \in 1 .. Len(remote.files[k].parts) :
       remote.files[k].parts[i] = rec.file
  /\ remote.op.action = "upload_part" => remote.op.file = rec.file

\* A bug of Prepare: an unconfirmed record is tried again.
PrepareAgain(t) ==
  LET r == run[t]
      old == storage[r.key]
      new == [id |-> 0, draft |-> r.rev, file |-> r.file,
              state |-> "reservation_unconfirmed"]
  IN  /\ r.pc = "preparing"
      /\ IF old.id = 0
         THEN /\ storage' = [storage EXCEPT ![r.key] = new]
              /\ run' = [run EXCEPT ![t].pc = "reserving", ![t].rec = new]
         ELSE /\ run' = [run EXCEPT ![t].pc = "reading", ![t].rec = old]
              /\ UNCHANGED storage
      /\ UNCHANGED <<draft, lock, panel, up, forgot, faults>>

\* A bug of Prepare: a record is resumed with whatever file was chosen.
PrepareAnyFile(t) ==
  LET r == run[t]
      old == storage[r.key]
      new == [id |-> 0, draft |-> r.rev, file |-> r.file,
              state |-> "reservation_unconfirmed"]
  IN  /\ r.pc = "preparing"
      /\ IF old = NoRecord
         THEN /\ storage' = [storage EXCEPT ![r.key] = new]
              /\ run' = [run EXCEPT ![t].pc = "reserving", ![t].rec = new]
         ELSE /\ old.id # 0
              /\ run' = [run EXCEPT ![t].pc = "reading", ![t].rec = old]
              /\ UNCHANGED storage
      /\ UNCHANGED <<draft, lock, panel, up, forgot, faults>>

\* A bug of Prepare: another file makes another record.
PrepareOtherFile(t) ==
  LET r == run[t]
      old == storage[r.key]
      new == [id |-> 0, draft |-> r.rev, file |-> r.file,
              state |-> "reservation_unconfirmed"]
  IN  /\ r.pc = "preparing"
      /\ IF old = NoRecord \/ old.file # r.file
         THEN /\ storage' = [storage EXCEPT ![r.key] = new]
              /\ run' = [run EXCEPT ![t].pc = "reserving", ![t].rec = new]
         ELSE /\ old.id # 0
              /\ run' = [run EXCEPT ![t].pc = "reading", ![t].rec = old]
              /\ UNCHANGED storage
      /\ UNCHANGED <<draft, lock, panel, up, forgot, faults>>

\* The fingerprints are taken, the record is read: resume it, refuse, or
\* persist a new one before anything is asked of the service.
Prepare(t) ==
  LET r == run[t]
      old == storage[r.key]
      new == [id |-> 0, draft |-> r.rev, file |-> r.file,
              state |-> "reservation_unconfirmed"]
  IN  /\ r.pc = "preparing"
      /\ \/ /\ r.paused \/ (old # NoRecord /\ old.id = 0)
            /\ Leave(t) /\ UNCHANGED <<storage, panel>>
         \/ /\ ~r.paused /\ old # NoRecord /\ old.id # 0
            /\ IF old.draft = r.rev /\ old.file = r.file
               THEN /\ run' = [run EXCEPT ![t].pc = "reading", ![t].rec = old]
                    /\ UNCHANGED <<storage, lock>>
               ELSE Stop(t, old)
            /\ UNCHANGED panel
         \/ /\ ~r.paused /\ old = NoRecord
            /\ storage' = [storage EXCEPT ![r.key] = new]
            /\ run' = [run EXCEPT ![t].pc = "reserving", ![t].rec = new]
            /\ panel' = IF r.current THEN [panel EXCEPT ![t].key = r.key] ELSE panel
            /\ UNCHANGED lock
      /\ UNCHANGED <<draft, up, forgot, faults>>

\* The service reserves for the saved draft only, within its capacity, and, if
\* Transient, not when the session has lapsed or too much was asked.
Reserve(t) ==
  \E barred \in {FALSE, Transient} :
    /\ run[t].pc = "reserving"
    /\ IF run[t].rev = draft /\ Len(up) < MaxUploads /\ ~barred
       THEN /\ up' = Append(up, [draft |-> draft, fence |-> 0, blocked |-> FALSE, op |-> NoOp,
                                 files |-> [k \in Kinds |-> NoProgress]])
            /\ run' = [run EXCEPT ![t].pc = "reserved", ![t].rec.id = Len(up) + 1]
       ELSE run' = [run EXCEPT ![t].pc = "denied"] /\ UNCHANGED up
    /\ UNCHANGED <<draft, storage, lock, panel, forgot, faults>>

\* The reply names the upload.
Reserved(t) ==
  LET rec == [run[t].rec EXCEPT !.state = "paused"]
  IN  /\ run[t].pc = "reserved"
      /\ storage' = [storage EXCEPT ![run[t].key] = rec]
      /\ run' = [run EXCEPT ![t].pc = "reading", ![t].rec = rec]
      /\ UNCHANGED <<draft, lock, panel, up, forgot, faults>>

\* An explicit denial precedes every reservation: the slot is cleared, and an
\* uploader that was restarting is at the base slot again.
Denied(t) ==
  /\ run[t].pc = "denied"
  /\ storage' = [storage EXCEPT ![run[t].key] = NoRecord]
  /\ panel' = IF run[t].current /\ run[t].mode = "restart"
              THEN [panel EXCEPT ![t].key = 0] ELSE panel
  /\ Leave(t)
  /\ UNCHANGED <<draft, up, forgot, faults>>

\* A bug of LoseReservation: a lost reply is taken for a denial.
LoseReservationCleared(t) ==
  /\ run[t].pc \in {"reserving", "reserved", "denied"} /\ faults < MaxFaults
  /\ faults' = faults + 1
  /\ storage' = [storage EXCEPT ![run[t].key] = NoRecord]
  /\ Leave(t)
  /\ UNCHANGED <<draft, panel, up, forgot>>

\* The reply is lost: the record stays unconfirmed and nothing replaces it.
LoseReservation(t) ==
  /\ run[t].pc \in {"reserving", "reserved", "denied"} /\ faults < MaxFaults
  /\ faults' = faults + 1
  /\ Leave(t)
  /\ UNCHANGED <<draft, storage, panel, up, forgot>>

\* GET operations, as the service answers it.
Read(t) ==
  /\ run[t].pc = "reading"
  /\ run' = [run EXCEPT ![t].pc = "deciding", ![t].remote = up[run[t].rec.id]]
  /\ UNCHANGED <<draft, storage, lock, panel, up, forgot, faults>>

\* A bug of Decide: a blocked upload is read again until it is free.
DecideAgain(t) ==
  /\ run[t].pc = "deciding"
  /\ run' = [run EXCEPT ![t].pc = IF run[t].remote.blocked THEN "reading" ELSE "planning"]
  /\ UNCHANGED <<draft, storage, lock, panel, up, forgot, faults>>

\* Every round reconciles the service's evidence before it changes anything.
Decide(t) ==
  LET r == run[t]
      uploading == [r.rec EXCEPT !.state = "uploading"]
  IN  /\ r.pc = "deciding"
      /\ \/ /\ ~Matches(r.rec, r.remote)
            /\ Stop(t, r.rec) /\ UNCHANGED panel
         \/ /\ Matches(r.rec, r.remote) /\ r.remote.blocked
            /\ Settle(t, [r.rec EXCEPT !.state = "blocked"]) /\ UNCHANGED panel
         \/ /\ Matches(r.rec, r.remote) /\ ~r.remote.blocked /\ AllStored(r.remote.files)
            /\ Settle(t, [r.rec EXCEPT !.state = "staged"])
            /\ panel' = IF r.current /\ r.rec.draft = panel[t].rev
                        THEN [panel EXCEPT ![t].staged = r.key] ELSE panel
         \/ /\ Matches(r.rec, r.remote) /\ ~r.remote.blocked /\ ~AllStored(r.remote.files)
            /\ IF r.paused
               THEN Settle(t, [r.rec EXCEPT !.state = "paused"])
               ELSE /\ storage' = [storage EXCEPT ![r.key] = uploading]
                    /\ run' = [run EXCEPT ![t].rec = uploading, ![t].op = r.remote.op,
                         ![t].pc = IF r.remote.op = NoOp THEN "planning" ELSE "executing"]
                    /\ UNCHANGED lock
            /\ UNCHANGED panel
      /\ UNCHANGED <<draft, up, forgot, faults>>

\* A bug of Intent: one part more is planned than the file has.
IntentPastEnd(remote, file) ==
  LET kind == IF ~remote.files["video"].stored THEN "video" ELSE "thumbnail"
      f == remote.files[kind]
      action == CASE ~f.created -> "create_multipart"
                  [] f.created /\ Len(f.parts) > PartsOf(kind) -> "complete_multipart"
                  [] OTHER -> "upload_part"
  IN  [kind |-> kind, action |-> action, file |-> file, fence |-> remote.fence + 1]

\* The next intent: the video's operations, then the thumbnail's.
Intent(remote, file) ==
  LET kind == IF ~remote.files["video"].stored THEN "video" ELSE "thumbnail"
      f == remote.files[kind]
      action == CASE ~f.created -> "create_multipart"
                  [] f.created /\ Len(f.parts) = PartsOf(kind) -> "complete_multipart"
                  [] OTHER -> "upload_part"
  IN  [kind |-> kind, action |-> action, file |-> file, fence |-> remote.fence + 1]

\* POST operations: a compare-and-swap on the upload's revision.  The service
\* denies everything but reading once the draft has moved on.
Plan(t) ==
  LET r == run[t]
      u == up[r.rec.id]
      op == Intent(r.remote, r.file)
  IN  /\ r.pc = "planning"
      /\ IF u.fence = r.remote.fence /\ u.op = NoOp /\ ~u.blocked /\ u.draft = draft
         THEN /\ up' = [up EXCEPT ![r.rec.id].op = op, ![r.rec.id].fence = op.fence]
              /\ run' = [run EXCEPT ![t].pc = "executing", ![t].op = op]
              /\ UNCHANGED <<storage, lock>>
         ELSE Stop(t, r.rec) /\ UNCHANGED up
      /\ UNCHANGED <<draft, panel, forgot, faults>>

\* What an operation does to its file.
Effect(files, op) ==
  CASE op.action = "create_multipart" -> [files EXCEPT ![op.kind].created = TRUE]
    [] op.action = "upload_part" -> [files EXCEPT ![op.kind].parts = Append(@, op.file)]
    [] op.action = "complete_multipart" -> [files EXCEPT ![op.kind].stored = TRUE]

\* The bytes are hashed again; the fence lets one execution through.
Execute(t) ==
  LET r == run[t]
      u == up[r.rec.id]
  IN  /\ r.pc = "executing"
      /\ IF /\ (r.op.action = "upload_part" => r.op.file = r.file)
            /\ u.op = r.op /\ ~u.blocked /\ u.draft = draft
         THEN /\ up' = [up EXCEPT ![r.rec.id].op = NoOp,
                                   ![r.rec.id].files = Effect(@, r.op)]
              /\ run' = [run EXCEPT ![t].pc = "reading"]
              /\ UNCHANGED <<storage, lock>>
         ELSE Stop(t, r.rec) /\ UNCHANGED up
      /\ UNCHANGED <<draft, panel, forgot, faults>>

\* The effect was issued and its outcome is unknown: the service blocks.
ExecuteUncertain(t) ==
  LET r == run[t]
  IN  /\ r.pc = "executing" /\ faults < MaxFaults
      /\ up[r.rec.id].op = r.op
      /\ up' = [up EXCEPT ![r.rec.id].op = NoOp, ![r.rec.id].blocked = TRUE]
      /\ Stop(t, r.rec)
      /\ faults' = faults + 1
      /\ UNCHANGED <<draft, panel, forgot>>

\* A reply is lost, before or after the service acted: no retry.
LoseReply(t) ==
  /\ run[t].pc \in {"reading", "deciding", "planning", "executing"}
  /\ faults < MaxFaults /\ faults' = faults + 1
  /\ Stop(t, run[t].rec)
  /\ UNCHANGED <<draft, panel, up, forgot>>

-----------------------------------------------------------------------------
(* inspect.                                                                *)

Load(t) ==
  LET rec == storage[run[t].key]
  IN  /\ run[t].pc = "loading"
      /\ IF rec = NoRecord \/ rec.id = 0
         THEN Leave(t)
         ELSE run' = [run EXCEPT ![t].pc = "inspecting", ![t].rec = rec,
                                 ![t].remote = up[rec.id]] /\ UNCHANGED lock
      /\ UNCHANGED <<draft, storage, panel, up, forgot, faults>>

Inspect(t) ==
  LET r == run[t]
      state == IF AllStored(r.remote.files) THEN "staged"
               ELSE IF r.remote.blocked THEN "blocked" ELSE "paused"
  IN  /\ r.pc = "inspecting"
      /\ IF Matches(r.rec, r.remote)
         THEN /\ Settle(t, [r.rec EXCEPT !.state = state])
              /\ panel' = IF r.current /\ state = "staged" /\ r.rec.draft = panel[t].rev
                          THEN [panel EXCEPT ![t].staged = r.key] ELSE panel
         ELSE Leave(t) /\ UNCHANGED <<storage, panel>>
      /\ UNCHANGED <<draft, up, forgot, faults>>

-----------------------------------------------------------------------------
(* Expiry, closed tabs, and the whole.                                     *)

Expire(i) ==
  /\ faults < MaxFaults /\ i \in DOMAIN up /\ ~up[i].blocked
  /\ up' = [up EXCEPT ![i].blocked = TRUE, ![i].op = NoOp]
  /\ faults' = faults + 1
  /\ UNCHANGED <<draft, storage, lock, panel, run, forgot>>

\* The browser releases a closed tab's lock; the tab is opened again.
CloseTab(t) ==
  /\ faults < MaxFaults /\ run[t].pc # "idle"
  /\ faults' = faults + 1
  /\ Leave(t)
  /\ LET key == KeyFor(draft)
     IN  panel' = [panel EXCEPT ![t] = [rev |-> draft, key |-> key,
           staged |-> StageOf(storage[key], draft, key, NoStaged)]]
  /\ UNCHANGED <<draft, storage, up, forgot>>

\* The steps a call takes by itself once it was started.
Step(t) ==
  \/ AskLock(t) \/ ListSlots(t) \/ Examine(t) \/ Prepare(t) \/ Reserve(t)
  \/ Reserved(t) \/ Denied(t) \/ Read(t) \/ Decide(t) \/ Plan(t) \/ Execute(t)
  \/ Load(t) \/ Inspect(t)

Author(t) ==
  \/ SaveDraft(t) \/ Reopen(t) \/ Check(t) \/ Pause(t) \/ RemoveVideo(t)
  \/ \E f \in Files : Select(t, f)

Fault(t) ==
  \/ LoseReservation(t) \/ LoseReply(t) \/ ExecuteUncertain(t) \/ CloseTab(t)

UploadNext ==
  \/ \E t \in Tabs : Step(t) \/ Author(t) \/ Fault(t)
  \/ \E i \in Ids : Expire(i)

UploadSpec == UploadInit /\ [][UploadNext]_vars

\* A call in progress goes on: each request has a deadline of its own.
LiveUploadSpec == UploadSpec /\ \A t \in Tabs : WF_vars(Step(t))

-----------------------------------------------------------------------------
(* Properties.                                                             *)

\* The types of the variables, and that the lock is held by a call in
\* progress (withChapterLock).
TypeOK ==
  /\ draft \in Revisions
  /\ storage \in [Slots -> Record \cup {NoRecord}]
  /\ lock \in Tabs \cup {NoOne}
  /\ lock # NoOne => run[lock].pc \notin {"idle", "asking"}
  /\ \A i \in DOMAIN up :
       /\ up[i].draft \in Revisions /\ up[i].op \in Op \cup {NoOp}
       /\ \A k \in Kinds : Len(up[i].files[k].parts) \in 0 .. PartsOf(k)
  /\ \A t \in Tabs : run[t].key \in Slots /\ panel[t].key \in Slots

\* Until the author lets a video go, a draft revision is reserved once however
\* many tabs, retries and restarts there are, and whatever the service denies and
\* grants later: a lost reservation is never replaced (studio-upload.mjs:72,148).
OneReservationEach ==
  forgot = {} => \A i, j \in DOMAIN up : i # j => up[i].draft # up[j].draft

\* Every reservation can be found again: its record names it, or the record
\* of its revision says that its outcome is open, or the author let it go
\* (persisting precedes reserving, studio-upload.mjs:155).
NothingOrphaned ==
  \A i \in DOMAIN up :
    \/ i \in forgot
    \/ \E s \in Slots : storage[s].id = i
    \/ \E s \in Slots : storage[s].id = 0 /\ storage[s].draft = up[i].draft

\* A record that says staged has all bytes of one file on the service, and
\* never those of another the author chose meanwhile (studio-upload.mjs:150,189).
StagedIsWhole ==
  \A s \in Slots : storage[s].state = "staged" =>
    \A k \in Kinds : LET f == up[storage[s].id].files[k]
                     IN  /\ f.stored /\ Len(f.parts) = PartsOf(k)
                         /\ \A i \in DOMAIN f.parts : f.parts[i] = storage[s].file

\* What is prepared or stored under an upload is of the file its record
\* names, so the author can always resume with that file.
Resumable ==
  \A s \in Slots : storage[s].id # 0 =>
    LET u == up[storage[s].id]
    IN  /\ u.op.action = "upload_part" => u.op.file = storage[s].file
        /\ \A k \in Kinds : \A i \in DOMAIN u.files[k].parts :
             u.files[k].parts[i] = storage[s].file

\* Until the author starts anew, at most one upload of the chapter has a
\* prepared operation: a restart leaves none behind (restartForRevision).
OneInDoubt ==
  forgot = {} => \A i, j \in DOMAIN up : i # j => up[i].op = NoOp \/ up[j].op = NoOp

\* A confirmed record keeps its upload until the author starts anew: no
\* retry, restart or other tab takes its slot ("Keep every old slot intact").
RecordsKeptStep ==
  \A s \in Slots : storage[s].id # 0 =>
    storage'[s].id = storage[s].id \/ storage[s].id \in forgot'
RecordsKept == [][RecordsKeptStep]_vars

\* A denied reservation clears no record but an unconfirmed one.
DenialClearsUnconfirmed ==
  [][\A t \in Tabs : Denied(t) => storage[run[t].key].id = 0]_vars

\* A call that was started ends, so the lock and the panel become free.
CallsEnd == \A t \in Tabs : run[t].pc # "idle" ~> run[t].pc = "idle"
=============================================================================
