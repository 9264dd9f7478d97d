----------------------------- MODULE MCServices -----------------------------
(***************************************************************************)
(* The services beside the Studio page: what is learned from saved hints   *)
(* (HintLearning), the review of suggested hints (HintReview), the         *)
(* rotation of the key that signs review actions (KeyRotation), the        *)
(* effects library (EffectsLibrary), and the table of extractions under    *)
(* any callers (JobStore). They meet on no state of these models, so a     *)
(* behaviour is one of one instance, `service`, and the others stay as     *)
(* they begin. ai is a suggested hint, h1 and h2 are the author's; e4 and  *)
(* d4 are moves.                                                           *)
(*                                                                         *)
(* Each is taken from the module that proves about it, for SuiteProofs to  *)
(* cite what is proved there.                                              *)
(***************************************************************************)
EXTENDS Naturals

CONSTANTS p1, p2, p3, ai, h1, h2, e4, d4, r1, r2, a1, a2, a3, q1, q2, Nothing

\* No request is called as the library's lock is when nobody holds it.
ASSUME RequestsAssumption == "none" \notin {r1, r2}

VARIABLES
  service,  \* the instance whose behaviour this is
  course, receipts, sent, journal, learned, proxies, suggested, applied,  \* HintLearning
  lessons, learnSteps,
  hintTab, asks, drafts, reviews, intents, written, reviewSteps,  \* HintReview
  ring, keychain, pointer, rotationRun, swaps, day, refused, rotation,  \* KeyRotation
  rotationSteps,
  index, media, libraryLock, req, encoders, told, used, effectSteps,  \* EffectsLibrary
  jobTable  \* JobStore

learnVars == <<course, receipts, sent, journal, learned, proxies, suggested, applied,
  lessons, learnSteps>>
reviewVars == <<hintTab, asks, drafts, reviews, intents, written, reviewSteps>>
rotationVars == <<ring, keychain, pointer, rotationRun, swaps, day, refused, rotation,
  rotationSteps>>
effectsVars == <<index, media, libraryLock, req, encoders, told, used, effectSteps>>
storeVars == <<jobTable>>
servicesVars == <<service, learnVars, reviewVars, rotationVars, effectsVars, storeVars>>

Order ==
  INSTANCE HintLearningProofs WITH
    None <- Nothing, Proxies <- {p1}, Slots <- {"a", "b"}, HandTexts <- {h1},
    SuggestedTexts <- {ai}, Between <- FALSE, MaxSaves <- 2, MaxReviews <- 1,
    MaxVerdicts <- 2, MaxRewrites <- 0, MaxBroken <- 0, MaxGivenUp <- 1,
    MaxFaults <- 1, reviews <- lessons, steps <- learnSteps

\* The author's texts, the suggestion and what stands for neither are distinct.
ASSUME NamesAssumption == Order!Apart /\ h2 # ai

Meet ==
  INSTANCE HintLearningProofs WITH
    None <- Nothing, Proxies <- {p2, p3}, Slots <- {"a"}, HandTexts <- {h1},
    SuggestedTexts <- {ai}, Between <- FALSE, MaxSaves <- 2, MaxReviews <- 0,
    MaxVerdicts <- 0, MaxRewrites <- 0, MaxBroken <- 1, MaxGivenUp <- 1,
    MaxFaults <- 2, reviews <- lessons, steps <- learnSteps

LateSave ==
  INSTANCE HintLearningProofs WITH
    None <- Nothing, Proxies <- {p1}, Slots <- {"a"}, HandTexts <- {h1, h2},
    SuggestedTexts <- {ai}, Between <- TRUE, MaxSaves <- 3, MaxReviews <- 1,
    MaxVerdicts <- 0, MaxRewrites <- 1, MaxBroken <- 1, MaxGivenUp <- 1,
    MaxFaults <- 0, reviews <- lessons, steps <- learnSteps

Panels ==
  INSTANCE HintReviewProofs WITH
    None <- Nothing, Moves <- {e4, d4}, Suggestions <- {ai}, OwnTexts <- {h1},
    MaxOpens <- 2, MaxClicks <- 2, MaxEdits <- 1, MaxSaves <- 1,
    MaxMoves <- 2, MaxFaults <- 1, tab <- hintTab, steps <- reviewSteps

Apply ==
  INSTANCE HintReviewProofs WITH
    None <- Nothing, Moves <- {e4, d4}, Suggestions <- {ai}, OwnTexts <- {h1},
    MaxOpens <- 1, MaxClicks <- 5, MaxEdits <- 0, MaxSaves <- 1,
    MaxMoves <- 1, MaxFaults <- 0, tab <- hintTab, steps <- reviewSteps

\* The key alone: the queue, its authors and its workers take no part.
Crashes ==
  INSTANCE ReviewServiceProofs WITH
    Late <- TRUE, MaxCrashes <- 3, MaxFaults <- 2, MaxDays <- 2,
    Pages <- {}, Requests <- {}, MaxGen <- 0, MaxAttempts <- 1, MaxActive <- 0,
    Workers <- {}, revisions <- <<>>, actions <- <<>>, waiting <- {}, saved <- <<>>,
    sent <- <<>>, answer <- <<>>, job <- <<>>, wire <- {},
    run <- rotationRun, journal <- rotation, steps <- rotationSteps

Days ==
  INSTANCE ReviewServiceProofs WITH
    Late <- FALSE, MaxCrashes <- 3, MaxFaults <- 2, MaxDays <- 2,
    Pages <- {}, Requests <- {}, MaxGen <- 0, MaxAttempts <- 1, MaxActive <- 0,
    Workers <- {}, revisions <- <<>>, actions <- <<>>, waiting <- {}, saved <- <<>>,
    sent <- <<>>, answer <- <<>>, job <- <<>>, wire <- {},
    run <- rotationRun, journal <- rotation, steps <- rotationSteps

Faults ==
  INSTANCE EffectsLibraryProofs WITH
    Requests <- {r1, r2}, Uploads <- {"e1", "e2"}, Builtins <- {"b"},
    MaxAsks <- 4, MaxFaults <- 1, MaxCrashes <- 0, lock <- libraryLock,
    steps <- effectSteps

Deaths ==
  INSTANCE EffectsLibraryProofs WITH
    Requests <- {r1, r2}, Uploads <- {"e1"}, Builtins <- {"b"}, MaxAsks <- 4,
    MaxFaults <- 1, MaxCrashes <- 1, lock <- libraryLock, steps <- effectSteps

\* The table alone: the worker and its cancel requests take no part.
Store ==
  INSTANCE VideoExtractionProofs WITH
    Owners <- {a1, a2, a3}, RequestIDs <- {q1, q2}, MaxJobs <- 3,
    GlobalLimit <- 2, OwnLimit <- 1, Procs <- {}, Handlers <- {}, MaxFaults <- 0,
    pc <- <<>>, cur <- <<>>, todo <- <<>>, seen <- <<>>, child <- <<>>,
    verdict <- <<>>, helper <- <<>>, source <- <<>>, manifest <- <<>>,
    request <- <<>>, lock <- "nobody", faults <- 0, jobs <- jobTable

-----------------------------------------------------------------------------
ServicesInit ==
  /\ service \in {"order", "meet", "late", "panels", "apply", "crashes", "days",
             "faults", "deaths", "store"}
  /\ CASE service = "meet" -> Meet!Init
       [] service = "late" -> LateSave!Init
       [] service = "order" -> Order!Init
       [] OTHER -> Meet!Init /\ course.doc.hint = [s \in {"a"} |-> Nothing]
  /\ CASE service = "apply" -> Apply!Init
       [] service = "panels" -> Panels!Init
       [] OTHER -> Panels!Init /\ hintTab.node = e4
  /\ Crashes!RotationInit
  /\ CASE service = "deaths" -> Deaths!Init
       [] OTHER -> Faults!Init
  /\ Store!JobStoreInit

ServicesNext ==
  \/ /\ service = "order" /\ Order!Next
     /\ UNCHANGED <<service, reviewVars, rotationVars, effectsVars, storeVars>>
  \/ /\ service = "meet" /\ Meet!Next
     /\ UNCHANGED <<service, reviewVars, rotationVars, effectsVars, storeVars>>
  \/ /\ service = "late" /\ LateSave!Next
     /\ UNCHANGED <<service, reviewVars, rotationVars, effectsVars, storeVars>>
  \/ /\ service = "panels" /\ Panels!Next
     /\ UNCHANGED <<service, learnVars, rotationVars, effectsVars, storeVars>>
  \/ /\ service = "apply" /\ Apply!Next
     /\ UNCHANGED <<service, learnVars, rotationVars, effectsVars, storeVars>>
  \/ /\ service = "crashes" /\ Crashes!RotationNext
     /\ UNCHANGED <<service, learnVars, reviewVars, effectsVars, storeVars>>
  \/ /\ service = "days" /\ Days!RotationNext
     /\ UNCHANGED <<service, learnVars, reviewVars, effectsVars, storeVars>>
  \/ /\ service = "faults" /\ Faults!Next
     /\ UNCHANGED <<service, learnVars, reviewVars, rotationVars, storeVars>>
  \/ /\ service = "deaths" /\ Deaths!Next
     /\ UNCHANGED <<service, learnVars, reviewVars, rotationVars, storeVars>>
  \/ /\ service = "store" /\ (Store!CreateAny \/ Store!ClaimAny \/ Store!UpdateAny)
     /\ UNCHANGED <<service, learnVars, reviewVars, rotationVars, effectsVars>>

ServicesSpec == ServicesInit /\ [][ServicesNext]_servicesVars

-----------------------------------------------------------------------------
\* What is learned was saved, in that place and revision (reconcile_stage); a
\* hint that was suggested, approved and applied, or suggested and not
\* rewritten, is not learned as the author's own (hint_learning.py:164);
\* saves are decided in the order of revisions, none passed over; a save the
\* journal has given up is not made any more (:213), and was not made before
\* while no other request saves between the two reads of a recovery (:214).
LearnedIsTrue ==
  /\ service = "order" => Order!AppliedStaysAI /\ Order!UnrewrittenNotManual
  /\ service = "meet" => Meet!TypeOK /\ Meet!NoneSuperseded /\ Meet!AbortedNotSaved
  /\ service = "late" =>
       /\ LateSave!LearnedAsSaved /\ LateSave!UnrewrittenNotManual
       /\ LateSave!NoneSuperseded /\ LateSave!GivenUpForGood

\* "A replacement panel must never receive an earlier panel's response"
\* (studio.js:1131), also after the author has come back to the move; a
\* suggestion the page writes was applied as that very text and for that move
\* by the server, whoever judged and rewrote it meanwhile, and is shown at
\* its move only.
ReviewSound ==
  /\ service = "panels" => Panels!TypeOK /\ Panels!OwnPanel
  /\ service = "apply" => Apply!WrittenWasApplied /\ Apply!OfThisMove

\* Wherever a rotation dies (review_action_rotate.py), the key that is
\* pointed at is in the ring and its secret in the keychain; a secret is not
\* deleted while the ring accepts it, and a retired key does not come back,
\* though swaps of dead runs arrive late; the file the alerts read promises
\* no longer life than the ring gives; and the next run can go on from what a
\* dead one left (:129, :140).
RotationSafe ==
  /\ service = "crashes" => Crashes!RotationTypeOK /\ Crashes!PointerAccepted /\ Crashes!SecretsKept
  /\ service = "days" => Days!PointerHonest /\ Days!Reconciles

\* What is listed can be played and lasts as long as is said, and "Restore both
\* sides rather than leave an unreachable file" (effects_library.py:228), when
\* one operation fails; an effect is listed as it was answered last, or as a
\* request asked that ended in an error after its index was saved (:260); a
\* cancelled request lets no other encoder in beside its own, also
\* when a process dies (normalize_with_admission).
LibraryTrue ==
  /\ service = "faults" => Faults!PlaysAsListed /\ Faults!NoneUnreachable /\ Faults!AsAnswered
  /\ service = "deaths" => Deaths!TypeOK /\ Deaths!OneEncoder

\* The active extractions never exceed the global bound nor those of an
\* author the author's, whoever counts and inserts (JobStore.create); a
\* request that is sent again gets the extraction it started (the unique
\* index of video_jobs.py); the queue is first come, first served: a claimed
\* extraction has no older one queued (claim).
AdmissionSound ==
  /\ [](service = "store" => Store!AdmissionBounds /\ Store!OneJobPerRequest)
  /\ Store!OldestFirst
=============================================================================
