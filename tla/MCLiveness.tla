----------------------------- MODULE MCLiveness -----------------------------
(***************************************************************************)
(* What must eventually happen, under the fairness each part of the system *)
(* has: the smallest instances of the browser's and the services' modules  *)
(* in which requests are lost, late or cancelled.  A behaviour is one of   *)
(* one instance, `part`, and the others stay as they begin.                *)
(***************************************************************************)
EXTENDS VariationTree

CONSTANTS t1, t2, f1, A, NoCourse, screened, e4, d4, e5, d5, r1, r2, Nothing

\* A chapter with two replies.
Forked == <<Node(1, 0, e4), Node(2, 1, e5), Node(3, 1, d5)>>

VARIABLES
  part,  \* the instance whose behaviour this is
  draft, storage, lock, run, up, forgot, faults, uploaders,  \* StagedUpload
  tab, recovery, server, live, save, callers, opening, restoring, pub,  \* StudioSave
  video, work, confirmed, saveCount,
  panel, flights, ctx, jobs, saved, panelCount,  \* ExtractionPanel
  board, boardSteps,  \* StudioBoard
  ring, keychain, pointer, swaps, day, refused, journal, rotation,  \* KeyRotation
  rotationSteps,
  index, media, req, encoders, told, used, library, effectSteps  \* EffectsLibrary

uploadVars == <<draft, storage, lock, run, up, forgot, faults, uploaders>>
saveVars == <<tab, recovery, server, live, save, callers, opening, restoring, pub,
  video, work, confirmed, saveCount>>
panelVars == <<panel, flights, ctx, jobs, saved, panelCount>>
boardVars == <<board, boardSteps>>
rotationVars == <<ring, keychain, pointer, swaps, day, refused, journal, rotation,
  rotationSteps>>
effectsVars == <<index, media, req, encoders, told, used, library, effectSteps>>
vars == <<part, uploadVars, saveVars, panelVars, boardVars, rotationVars, effectsVars>>

ChapterUpload ==
  INSTANCE StagedUpload WITH
    Tabs <- {t1, t2}, Files <- {f1}, VideoParts <- 1, MaxRevision <- 1,
    MaxUploads <- 1, MaxFaults <- 2, MaxSlots <- 3, Chapter <- TRUE,
    Transient <- TRUE, panel <- uploaders

CourseUpload ==
  INSTANCE StagedUpload WITH
    Tabs <- {t1, t2}, Files <- {f1}, VideoParts <- 1, MaxRevision <- 1,
    MaxUploads <- 1, MaxFaults <- 0, MaxSlots <- 3, Chapter <- FALSE,
    Transient <- FALSE, panel <- uploaders

Save ==
  INSTANCE StudioSave WITH
    Courses <- {A}, MaxAttempts <- 2, MaxEdits <- 2, MaxOpens <- 1,
    MaxUndos <- 0, MaxElsewhere <- 1, MaxRestores <- 0, MaxReviews <- 1,
    MaxMishaps <- 1, count <- saveCount

Extract ==
  INSTANCE ExtractionPanel WITH
    Courses <- {A}, Views <- {screened}, FirstView <- screened, MaxJobs <- 1,
    MaxFlights <- 2, MaxClicks <- 2, MaxCancels <- 0, MaxForms <- 0,
    MaxEdits <- 0, MaxSaves <- 0, MaxPublishes <- 0, MaxVisits <- 1,
    MaxElsewhere <- 0, MaxFaults <- 1, count <- panelCount

Board ==
  INSTANCE StudioBoard WITH
    None <- Nothing, FirstMoves <- {e4, d4}, SecondMoves <- {e5, d5},
    MaxNodes <- 4, MaxPly <- 3, UndoDepth <- 1, Stages <- 2, MaxClicks <- 3,
    MaxEdits <- 1, MaxQuiet <- 0, MaxFlips <- 0, MaxSaves <- 0,
    MaxFaults <- 0, Trees <- {<<Forked>>}, tab <- board, steps <- boardSteps

Rotate ==
  INSTANCE KeyRotation WITH
    Late <- FALSE, MaxCrashes <- 3, MaxFaults <- 2, MaxDays <- 2,
    run <- rotation, steps <- rotationSteps

Effects ==
  INSTANCE EffectsLibrary WITH
    Requests <- {r1, r2}, Uploads <- {"e1"}, Builtins <- {"b"}, MaxAsks <- 2,
    MaxFaults <- 1, MaxCrashes <- 0, lock <- library, steps <- effectSteps

-----------------------------------------------------------------------------
Init ==
  /\ part \in {"chapter", "course", "save", "extract", "board", "rotate", "effects"}
  /\ CASE part = "course" -> CourseUpload!UploadInit
       [] OTHER -> ChapterUpload!UploadInit
  /\ Save!SaveInit
  /\ Extract!PanelInit
  /\ Board!Init
  /\ Rotate!RotationInit
  /\ Effects!Init

Next ==
  \/ /\ part = "chapter" /\ ChapterUpload!UploadNext
     /\ UNCHANGED <<part, saveVars, panelVars, boardVars, rotationVars, effectsVars>>
  \/ /\ part = "course" /\ CourseUpload!UploadNext
     /\ UNCHANGED <<part, saveVars, panelVars, boardVars, rotationVars, effectsVars>>
  \/ /\ part = "save" /\ Save!SaveNext
     /\ UNCHANGED <<part, uploadVars, panelVars, boardVars, rotationVars, effectsVars>>
  \/ /\ part = "extract" /\ Extract!PanelNext
     /\ UNCHANGED <<part, uploadVars, saveVars, boardVars, rotationVars, effectsVars>>
  \/ /\ part = "board" /\ Board!Next
     /\ UNCHANGED <<part, uploadVars, saveVars, panelVars, rotationVars, effectsVars>>
  \/ /\ part = "rotate" /\ Rotate!RotationNext
     /\ UNCHANGED <<part, uploadVars, saveVars, panelVars, boardVars, effectsVars>>
  \/ /\ part = "effects" /\ Effects!Next
     /\ UNCHANGED <<part, uploadVars, saveVars, panelVars, boardVars, rotationVars>>

Spec == Init /\ [][Next]_vars

\* Every request of the page is answered or fails in the end (deadlines of
\* uploads and publications, timeouts of the server, the network); the
\* engine's timer rings; a rotation is started again after it died, and the
\* server answers it; a request to the library goes on.
Fairness ==
  /\ \A t \in {t1, t2} :
       WF_uploadVars(\/ part = "chapter" /\ ChapterUpload!Step(t)
                     \/ part = "course" /\ CourseUpload!Step(t))
  /\ WF_saveVars(part = "save" /\ (Save!SaveCommit \/ Save!SaveLand))
  /\ WF_saveVars(part = "save" /\ (Save!Validate \/ Save!Checked \/ Save!Review))
  /\ WF_panelVars(part = "extract" /\ \E f \in flights : f.op = "list" /\ Extract!Answered(f))
  /\ WF_panelVars(part = "extract" /\ \E f \in flights : f.op # "list" /\ Extract!Answered(f))
  /\ WF_boardVars(part = "board" /\ Board!PositionAnswered)
  /\ WF_boardVars(part = "board" /\ Board!EngineTimer)
  /\ WF_boardVars(part = "board" /\ Board!EngineAnswered)
  /\ WF_boardVars(part = "board" /\ Board!MaiaAnswered)
  /\ WF_rotationVars(part = "rotate" /\ Rotate!RunStep)
  /\ WF_rotationVars(part = "rotate" /\ Rotate!ServerStep)
  /\ \A r \in {r1, r2} : WF_effectsVars(part = "effects" /\ Effects!RequestStep(r))

LiveSpec == Spec /\ Fairness

-----------------------------------------------------------------------------
\* In the browser, what was begun ends. An upload call that was started ends,
\* so the lock and the panel become free (runLocked of studio-upload.mjs); a
\* save asked for by the author is answered, however fast he edits
\* (createSaveCoordinator); a publication being prepared reaches its dialog
\* or ends (preparePublication); the buttons that a request of the extraction
\* panel disables are enabled again, while the draft is not published
\* meanwhile; and however the author hurries through the tree, the board and
\* the open panels catch up with him when he rests, if nothing fails.
BrowserSettles ==
  /\ ChapterUpload!CallsEnd
  /\ Save!SaveAnswered
  /\ Save!PreparationEnds
  /\ Extract!BusySettles
  /\ part = "board" => Board!CatchesUp

\* In the services, what was begun ends. A key rotation ends, wherever it
\* died before (review_action_rotate.py); and every request to the effects
\* library is answered or fails, cancelled encoders or not.
ServicesSettle ==
  /\ part = "rotate" => Rotate!Rotates
  /\ Effects!Served
=============================================================================
