--------------------------- MODULE MCStudioServer ---------------------------
(***************************************************************************)
(* The Studio page against its servers: the draft that is saved and        *)
(* published (StudioSave), the videos that are uploaded (StagedUpload) and *)
(* the extractions that are started and reviewed (ExtractionPanel). The    *)
(* three meet on no state of these models, so a behaviour is one of one    *)
(* instance, `part`, and the others stay as they begin. The instances      *)
(* differ in their bounds: what is interesting together is bounded         *)
(* together.                                                               *)
(*                                                                         *)
(* They are taken from the modules that prove about them, for SuiteProofs  *)
(* to cite what is proved there.  The first two share one, and an instance *)
(* about one of them gives the constants of the other the bounds below.    *)
(***************************************************************************)
EXTENDS Naturals

CONSTANTS A, B, NoCourse, t1, t2, f1, f2, screened

\* No course is called as none is, no tab as the lock is when nobody holds it,
\* no file as none is.
StudioNames ==
  NoCourse \notin {A, B} /\ "no one" \notin {t1, t2} /\ "none" \notin {f1, f2}
ASSUME StudioNamesAssumption == StudioNames

VARIABLES
  part,  \* the instance whose behaviour this is
  tab, recovery, server, live, save, callers, opening, restoring, pub,  \* StudioSave
  video, work, confirmed, saveCount,
  draft, storage, lock, run, up, forgot, faults, uploaders,  \* StagedUpload
  panel, flights, ctx, jobs, saved, panelCount  \* ExtractionPanel

saveVars == <<tab, recovery, server, live, save, callers, opening, restoring, pub,
  video, work, confirmed, saveCount>>
uploadVars == <<draft, storage, lock, run, up, forgot, faults, uploaders>>
panelVars == <<panel, flights, ctx, jobs, saved, panelCount>>
studioVars == <<part, saveVars, uploadVars, panelVars>>

\* The bounds of a component an instance is not about.
Courses == {A}
MaxAttempts == 1
MaxEdits == 0
MaxOpens == 0
MaxUndos == 0
MaxElsewhere == 0
MaxRestores == 0
MaxReviews == 0
MaxMishaps == 0
Tabs == {t1}
Files == {f1}
VideoParts == 1
MaxRevision == 1
MaxUploads == 0
MaxFaults == 0
MaxSlots == 1
Chapter == TRUE
Transient == TRUE

Edit ==
  INSTANCE StudioServerProofs WITH
    Courses <- {A}, MaxAttempts <- 2, MaxEdits <- 2, MaxOpens <- 2,
    MaxUndos <- 1, MaxElsewhere <- 1, MaxRestores <- 0, MaxReviews <- 0,
    MaxMishaps <- 2, count <- saveCount, panel <- uploaders

Publish ==
  INSTANCE StudioServerProofs WITH
    Courses <- {A}, MaxAttempts <- 2, MaxEdits <- 2, MaxOpens <- 1,
    MaxUndos <- 0, MaxElsewhere <- 1, MaxRestores <- 1, MaxReviews <- 1,
    MaxMishaps <- 1, count <- saveCount, panel <- uploaders

TwoCourses ==
  INSTANCE StudioServerProofs WITH
    Courses <- {A, B}, MaxAttempts <- 2, MaxEdits <- 1, MaxOpens <- 3,
    MaxUndos <- 1, MaxElsewhere <- 1, MaxRestores <- 0, MaxReviews <- 0,
    MaxMishaps <- 1, count <- saveCount, panel <- uploaders

Videos ==
  INSTANCE StudioServerProofs WITH
    Tabs <- {t1}, Files <- {f1, f2}, VideoParts <- 1, MaxRevision <- 3,
    MaxUploads <- 3, MaxFaults <- 1, MaxSlots <- 4, Chapter <- TRUE,
    Transient <- TRUE, count <- saveCount, panel <- uploaders

TwoTabs ==
  INSTANCE StudioServerProofs WITH
    Tabs <- {t1, t2}, Files <- {f1}, VideoParts <- 1, MaxRevision <- 2,
    MaxUploads <- 3, MaxFaults <- 1, MaxSlots <- 3, Chapter <- TRUE,
    Transient <- TRUE, count <- saveCount, panel <- uploaders

Start ==
  INSTANCE ExtractionPanelProofs WITH
    Courses <- {A}, Views <- {screened}, FirstView <- screened, MaxJobs <- 2,
    MaxFlights <- 2, MaxClicks <- 2, MaxCancels <- 0, MaxForms <- 1,
    MaxEdits <- 0, MaxSaves <- 0, MaxPublishes <- 0, MaxVisits <- 1,
    MaxElsewhere <- 0, MaxFaults <- 1, count <- panelCount

Polls ==
  INSTANCE ExtractionPanelProofs WITH
    Courses <- {A}, Views <- {screened}, FirstView <- screened, MaxJobs <- 2,
    MaxFlights <- 2, MaxClicks <- 3, MaxCancels <- 1, MaxForms <- 0,
    MaxEdits <- 0, MaxSaves <- 0, MaxPublishes <- 0, MaxVisits <- 1,
    MaxElsewhere <- 0, MaxFaults <- 0, count <- panelCount

Review ==
  INSTANCE ExtractionPanelProofs WITH
    Courses <- {A}, Views <- {screened}, FirstView <- screened, MaxJobs <- 1,
    MaxFlights <- 2, MaxClicks <- 3, MaxCancels <- 0, MaxForms <- 0,
    MaxEdits <- 1, MaxSaves <- 0, MaxPublishes <- 0, MaxVisits <- 1,
    MaxElsewhere <- 1, MaxFaults <- 0, count <- panelCount

Moves ==
  INSTANCE ExtractionPanelProofs WITH
    Courses <- {A, B}, Views <- {screened}, FirstView <- screened,
    MaxJobs <- 1, MaxFlights <- 2, MaxClicks <- 1, MaxCancels <- 0,
    MaxForms <- 0, MaxEdits <- 0, MaxSaves <- 0, MaxPublishes <- 1,
    MaxVisits <- 3, MaxElsewhere <- 0, MaxFaults <- 0, count <- panelCount

-----------------------------------------------------------------------------
StudioInit ==
  /\ part \in {"edit", "publish", "courses", "videos", "tabs", "start", "polls",
             "review", "moves"}
  /\ CASE part = "courses" -> TwoCourses!SaveInit
       [] OTHER -> Edit!SaveInit
  /\ CASE part = "tabs" -> TwoTabs!UploadInit
       [] OTHER -> Videos!UploadInit
  /\ CASE part = "moves" -> Moves!PanelInit
       [] OTHER -> Start!PanelInit

StudioNext ==
  \/ part = "edit" /\ Edit!SaveNext /\ UNCHANGED <<part, uploadVars, panelVars>>
  \/ part = "publish" /\ Publish!SaveNext /\ UNCHANGED <<part, uploadVars, panelVars>>
  \/ part = "courses" /\ TwoCourses!SaveNext /\ UNCHANGED <<part, uploadVars, panelVars>>
  \/ part = "videos" /\ Videos!UploadNext /\ UNCHANGED <<part, saveVars, panelVars>>
  \/ part = "tabs" /\ TwoTabs!UploadNext /\ UNCHANGED <<part, saveVars, panelVars>>
  \/ part = "start" /\ Start!PanelNext /\ UNCHANGED <<part, saveVars, uploadVars>>
  \/ part = "polls" /\ Polls!PanelNext /\ UNCHANGED <<part, saveVars, uploadVars>>
  \/ part = "review" /\ Review!PanelNext /\ UNCHANGED <<part, saveVars, uploadVars>>
  \/ part = "moves" /\ Moves!PanelNext /\ UNCHANGED <<part, saveVars, uploadVars>>

StudioSpec == StudioInit /\ [][StudioNext]_studioVars

-----------------------------------------------------------------------------
\* Uploads from one tab and from two (studio-upload.mjs), of a service that may
\* deny what it grants later: every reservation can be found again through a
\* recovery record (:155); until the author lets a video go, a draft revision is
\* reserved once however many tabs, retries and restarts there are (:72, :148),
\* and at most one upload of the chapter has a prepared operation; and the lock
\* is held by a call in progress.
ReservationsSound ==
  /\ part = "tabs" => TwoTabs!TypeOK
  /\ part = "tabs" => TwoTabs!OneReservationEach /\ TwoTabs!NothingOrphaned /\ TwoTabs!OneInDoubt
  /\ part = "videos" => Videos!OneReservationEach /\ Videos!NothingOrphaned /\ Videos!OneInDoubt

\* A record that says staged has all bytes of the one file it names on the
\* service (studio-upload.mjs:150, 189); what is prepared or stored is of the
\* file its record names, so the author can resume with it.
StagedIsWhole ==
  /\ part = "tabs" => TwoTabs!StagedIsWhole
  /\ part = "videos" => Videos!StagedIsWhole /\ Videos!Resumable

\* What the page calls saved is what the server has as that revision, through
\* undo, two courses and publications, and the page shows a document of the
\* course it says is open, whatever save or answer comes late (studio.js
\* saveDraft, openCourse); callers wait exactly while a save is in flight.
SavedIsTrue ==
  /\ part = "edit" => Edit!SaveTypeOK
  /\ part = "publish" => Publish!SavedIsTrue
  /\ part = "courses" => TwoCourses!SavedIsTrue /\ TwoCourses!CourseMatches

\* A draft goes live only as the author reviewed it, once for each
\* confirmation (publishDocument).
PublishedAsReviewed == part = "publish" => Publish!PublishedAsReviewed

\* The extraction panel (studio-extraction.mjs): trying again after an
\* uncertain start makes no second extraction the author was not told of;
\* while a listed extraction is active and looked at, another poll is planned
\* or under way, unless one was reported to have failed; the observations
\* shown are of the selected extraction, and those listed of the panel's own
\* course; a panel that is left has no timer.
PanelSound ==
  /\ part = "start" => Start!OneJobPerForm
  /\ part = "polls" => Polls!PollingGoesOn /\ Polls!RowsOfSelected
  /\ part = "moves" => Moves!TypeOK /\ Moves!OwnCourse

\* No step of the page, no failure and no closed tab loses the author's last
\* edit (recovery copies), but the arrival of a restored or reloaded draft;
\* and no confirmed upload record loses its upload before the author starts
\* anew ("Keep every old slot intact").
WorkKept ==
  [][/\ part = "edit" => Edit!WorkKeptStep
     /\ part = "videos" => Videos!RecordsKeptStep]_studioVars

\* A save replaces no draft of another browser that was never shown here,
\* except from a recovery copy the author took back.
NoUnseenOverwrite == [][part = "edit" => Edit!NoUnseenOverwriteStep]_studioVars

\* A review decision is accepted only when the observations it was made on
\* showed every review of another tab.
NoBlindReview == [][part = "review" => Review!NoBlindReviewStep]_studioVars

\* docs/opening-drill-handoff.md:64: "A browser-local recovery snapshot
\* protects unsaved edits": an unsaved edit is on the page, in the recovery
\* copy or on the server.  A restored version that arrives late breaks it
\* (studio.js:1564).
EditsProtected == part = "publish" => Publish!EditsProtected
=============================================================================
