----------------------------- MODULE SuiteProofs -----------------------------
(***************************************************************************)
(* Properties of the services taken together (MCServices) and of the       *)
(* Studio page against its servers (MCStudioServer) that follow from what  *)
(* is proved of each: a step of one instance leaves the others alone, so   *)
(* the behaviours of the suite in which an instance runs are its own.      *)
(***************************************************************************)
EXTENDS MCServices, MCStudioServer, TLAPS

\* In the behaviours of the instance whose runs die, the rotation is run as it
\* is specified, and nothing else moves it.
LEMMA CrashesRun == ServicesSpec => (service = "crashes" => Crashes!RotationSpec)
<1>1. ServicesInit => Crashes!RotationInit
  BY DEF ServicesInit
<1>2. service = "crashes" /\ [ServicesNext]_servicesVars => (service = "crashes")' /\ [Crashes!RotationNext]_Crashes!rotationVars
  BY DEF ServicesNext, servicesVars, rotationVars, Crashes!rotationVars
<1>3. QED  BY <1>1, <1>2, PTL DEF ServicesSpec, Crashes!RotationSpec

\* The same of the instance in which days pass and no swap is late.
LEMMA DaysRun == ServicesSpec => (service = "days" => Days!RotationSpec)
<1>1. ServicesInit => Days!RotationInit
  BY
     DEF ServicesInit, Crashes!RotationInit, Days!RotationInit, Crashes!Ids, Days!Ids, Crashes!Kinds, Days!Kinds, Crashes!Asleep, Days!Asleep
<1>2. service = "days" /\ [ServicesNext]_servicesVars => (service = "days")' /\ [Days!RotationNext]_Days!rotationVars
  BY DEF ServicesNext, servicesVars, rotationVars, Days!rotationVars
<1>3. QED  BY <1>1, <1>2, PTL DEF ServicesSpec, Days!RotationSpec

\* Wherever a rotation dies, the key that is pointed at is accepted and its
\* secret kept, what the alerts read is no promise too long, and the next run
\* can go on (RotationSafe, review_action_rotate.py).
THEOREM RotationIsSafe == ServicesSpec => []RotationSafe
<1>1. /\ ~(service = "crashes") /\ [ServicesNext]_servicesVars => ~(service = "crashes")'
      /\ ~(service = "days") /\ [ServicesNext]_servicesVars => ~(service = "days")'
  BY DEF ServicesNext, servicesVars
<1>2. Crashes!ReviewAssumption /\ Days!ReviewAssumption
  BY DEF Crashes!ReviewAssumption, Days!ReviewAssumption
<1>3. ServicesSpec =>
        [](service = "crashes" => /\ Crashes!RotationTypeOK
                                  /\ Crashes!PointerAccepted
                                  /\ Crashes!SecretsKept)
  BY <1>1, <1>2, CrashesRun, Crashes!RotationTypes, Crashes!NeverWithoutKey, Crashes!NoSecretLost,
     PTL DEF ServicesSpec
<1>4. ServicesSpec => [](service = "days" => Days!PointerHonest /\ Days!Reconciles)
  BY <1>1, <1>2, DaysRun, Days!PromiseKept, Days!NeverRefused, PTL DEF ServicesSpec
<1>5. QED  BY <1>3, <1>4, PTL DEF RotationSafe

\* The bounds on active extractions hold and a request starts one extraction,
\* whoever inserts; a claimed extraction has no older one queued
\* (AdmissionSound, JobStore).
THEOREM AdmissionIsSound == ServicesSpec => AdmissionSound
<1>1. ServicesInit => Store!JobStoreInit
  BY DEF ServicesInit
<1>2. [ServicesNext]_servicesVars => [Store!CreateAny \/ Store!ClaimAny \/ Store!UpdateAny]_jobTable
  BY DEF ServicesNext, servicesVars, storeVars
<1>3. ServicesSpec => Store!StoreSpec
  BY <1>1, <1>2, PTL DEF ServicesSpec, Store!StoreSpec
<1>4. Store!StoreAssumption /\ Store!WorkerAssumption
  BY DEF Store!StoreAssumption, Store!WorkerAssumption
<1>5. QED  BY <1>3, <1>4, Store!StoreAdmits, Store!StoreOrder, PTL DEF AdmissionSound

\* In the behaviours of the instance whose file operations fail, and of the
\* one whose process dies, the library is run as it is specified.
LEMMA FaultsRun == ServicesSpec => (service = "faults" => Faults!Spec)
<1>1. ServicesInit /\ service = "faults" => Faults!Init
  BY DEF ServicesInit
<1>2. service = "faults" /\ [ServicesNext]_servicesVars => (service = "faults")' /\ [Faults!Next]_Faults!vars
  BY DEF ServicesNext, servicesVars, effectsVars, Faults!vars
<1>3. QED  BY <1>1, <1>2, PTL DEF ServicesSpec, Faults!Spec

\* The same of the instance whose process dies.
LEMMA DeathsRun == ServicesSpec => (service = "deaths" => Deaths!Spec)
<1>1. ServicesInit /\ service = "deaths" => Deaths!Init
  BY DEF ServicesInit
<1>2. service = "deaths" /\ [ServicesNext]_servicesVars => (service = "deaths")' /\ [Deaths!Next]_Deaths!vars
  BY DEF ServicesNext, servicesVars, effectsVars, Deaths!vars
<1>3. QED  BY <1>1, <1>2, PTL DEF ServicesSpec, Deaths!Spec

\* What is listed plays, no file is unreachable and the index is as it was
\* answered, when one operation fails; one encoder runs at a time, also when
\* the process dies (LibraryTrue, effects_library.py).
THEOREM LibraryIsTrue == ServicesSpec => []LibraryTrue
<1>1. /\ ~(service = "faults") /\ [ServicesNext]_servicesVars => ~(service = "faults")'
      /\ ~(service = "deaths") /\ [ServicesNext]_servicesVars => ~(service = "deaths")'
  BY DEF ServicesNext, servicesVars
<1>2. Faults!Distinct /\ Faults!OneFault /\ Deaths!Distinct
  BY RequestsAssumption DEF Faults!Distinct, Faults!OneFault, Deaths!Distinct, Faults!None, Deaths!None
<1>3. ServicesSpec => [](service = "faults" => Faults!PlaysAsListed /\ Faults!NoneUnreachable /\ Faults!AsAnswered)
  BY <1>1, <1>2, FaultsRun, Faults!ListedPlays, Faults!AllReachable, Faults!IndexAnswers, PTL DEF ServicesSpec
<1>4. ServicesSpec => [](service = "deaths" => Deaths!TypeOK /\ Deaths!OneEncoder)
  BY <1>1, <1>2, DeathsRun, Deaths!LibraryTypes, Deaths!EncodersAlone, PTL DEF ServicesSpec
<1>5. QED  BY <1>3, <1>4, PTL DEF LibraryTrue

\* In the behaviours of either instance of the hint studio, it is run as it is
\* specified.
LEMMA PanelsRun == ServicesSpec => (service = "panels" => Panels!Spec)
<1>1. ServicesInit /\ service = "panels" => Panels!Init
  BY DEF ServicesInit
<1>2. service = "panels" /\ [ServicesNext]_servicesVars => (service = "panels")' /\ [Panels!Next]_Panels!vars
  BY DEF ServicesNext, servicesVars, reviewVars, Panels!vars
<1>3. QED  BY <1>1, <1>2, PTL DEF ServicesSpec, Panels!Spec

\* The same of the instance in which suggestions are applied.
LEMMA ApplyRun == ServicesSpec => (service = "apply" => Apply!Spec)
<1>1. ServicesInit /\ service = "apply" => Apply!Init
  BY DEF ServicesInit
<1>2. service = "apply" /\ [ServicesNext]_servicesVars => (service = "apply")' /\ [Apply!Next]_Apply!vars
  BY DEF ServicesNext, servicesVars, reviewVars, Apply!vars
<1>3. QED  BY <1>1, <1>2, PTL DEF ServicesSpec, Apply!Spec

\* A panel shows its own move's answers only, and a suggestion that is written
\* was applied as that text and for that move (ReviewSound, studio.js:1131).
THEOREM ReviewIsSound == ServicesSpec => []ReviewSound
<1>1. /\ ~(service = "panels") /\ [ServicesNext]_servicesVars => ~(service = "panels")'
      /\ ~(service = "apply") /\ [ServicesNext]_servicesVars => ~(service = "apply")'
  BY DEF ServicesNext, servicesVars
<1>2. ServicesSpec => [](service = "panels" => Panels!TypeOK /\ Panels!OwnPanel)
  BY <1>1, PanelsRun, Panels!PanelTypes, Panels!PanelsAreTheirOwn, PTL DEF ServicesSpec
<1>3. ServicesSpec => [](service = "apply" => Apply!WrittenWasApplied /\ Apply!OfThisMove)
  BY <1>1, ApplyRun, Apply!WritesAreApplied, Apply!ShownOfTheMove, PTL DEF ServicesSpec
<1>4. QED  BY <1>2, <1>3, PTL DEF ReviewSound

\* In the behaviours of each instance of what is learned, it is run as it is
\* specified.
LEMMA OrderRun == ServicesSpec => (service = "order" => Order!Spec)
<1>1. ServicesInit /\ service = "order" => Order!Init
  BY DEF ServicesInit
<1>2. service = "order" /\ [ServicesNext]_servicesVars => (service = "order")' /\ [Order!Next]_Order!vars
  BY DEF ServicesNext, servicesVars, learnVars, Order!vars
<1>3. QED  BY <1>1, <1>2, PTL DEF ServicesSpec, Order!Spec

\* The same of the instance in which two requests meet.
LEMMA MeetRun == ServicesSpec => (service = "meet" => Meet!Spec)
<1>1. ServicesInit /\ service = "meet" => Meet!Init
  BY DEF ServicesInit
<1>2. service = "meet" /\ [ServicesNext]_servicesVars => (service = "meet")' /\ [Meet!Next]_Meet!vars
  BY DEF ServicesNext, servicesVars, learnVars, Meet!vars
<1>3. QED  BY <1>1, <1>2, PTL DEF ServicesSpec, Meet!Spec

\* The same of the instance whose saves come late.
LEMMA LateRun == ServicesSpec => (service = "late" => LateSave!Spec)
<1>1. ServicesInit /\ service = "late" => LateSave!Init
  BY DEF ServicesInit
<1>2. service = "late" /\ [ServicesNext]_servicesVars => (service = "late")' /\ [LateSave!Next]_LateSave!vars
  BY DEF ServicesNext, servicesVars, learnVars, LateSave!vars
<1>3. QED  BY <1>1, <1>2, PTL DEF ServicesSpec, LateSave!Spec

\* What is learned was saved so, no suggestion is learned as the author's own,
\* saves are learned from in order and those given up are not made any more
\* (LearnedIsTrue, hint_learning.py).
THEOREM LearningIsTrue == ServicesSpec => []LearnedIsTrue
<1>1. /\ ~(service = "order") /\ [ServicesNext]_servicesVars => ~(service = "order")'
      /\ ~(service = "meet") /\ [ServicesNext]_servicesVars => ~(service = "meet")'
      /\ ~(service = "late") /\ [ServicesNext]_servicesVars => ~(service = "late")'
  BY DEF ServicesNext, servicesVars
<1>2. Meet!IsFiniteSet({p2, p3})
  <2>1. Meet!IsFiniteSet({p2})
    BY Meet!FS_Singleton
  <2>2. Meet!IsFiniteSet({p2} \cup {p3}) /\ {p2, p3} = {p2} \cup {p3}
    BY <2>1, Meet!FS_AddElement
  <2>3. QED  BY <2>2
<1>3. Order!Sizes /\ Meet!Sizes /\ LateSave!Sizes
  BY <1>2, Order!FS_Singleton, LateSave!FS_Singleton DEF Order!Sizes, Meet!Sizes, LateSave!Sizes
<1>4. Order!OneReview /\ Order!Apart /\ Order!Differ /\ LateSave!Differ
  BY NamesAssumption DEF Order!OneReview, Order!Apart, Order!Differ, LateSave!Differ
<1>5. ServicesSpec => [](service = "order" => Order!AppliedStaysAI /\ Order!UnrewrittenNotManual)
  BY <1>1, <1>3, <1>4, OrderRun, Order!AppliedIsNotManual, Order!SuggestedIsNotManual, PTL DEF ServicesSpec
<1>6. ServicesSpec => [](service = "meet" => Meet!TypeOK /\ Meet!NoneSuperseded /\ Meet!AbortedNotSaved)
  BY <1>1, <1>3, MeetRun, Meet!LearningTypes, Meet!PassesNoneOver, Meet!GivesUpNone, PTL DEF ServicesSpec
<1>7. ServicesSpec => [](service = "late" => /\ LateSave!LearnedAsSaved /\ LateSave!UnrewrittenNotManual
                                             /\ LateSave!NoneSuperseded /\ LateSave!GivenUpForGood)
  BY <1>1, <1>3, <1>4, LateRun, LateSave!LearnsWhatWasSaved, LateSave!SuggestedIsNotManual, LateSave!PassesNoneOver,
     LateSave!GivesUpForGood, PTL DEF ServicesSpec
<1>8. QED  BY <1>5, <1>6, <1>7, PTL DEF LearnedIsTrue

-----------------------------------------------------------------------------
(* The Studio page against its servers.                                    *)

\* The bounds of the two instances of StagedUpload are as its proofs assume.
LEMMA StudioBounds == TwoTabs!Sizes /\ Videos!Sizes
<1>1. "no one" \notin {t1, t2} /\ "none" \notin {f1, f2}
  BY StudioNamesAssumption DEF StudioNames
<1>2. "no one" \notin {t1} /\ "none" \notin {f1}
  BY <1>1
<1>3. /\ 1 \in Nat /\ 2 \in Nat /\ 3 \in Nat /\ 4 \in Nat
      /\ 1 \in Nat \ {0} /\ 2 \in Nat \ {0} /\ 3 \in Nat \ {0}
  OBVIOUS
<1>4. TwoTabs!NoOne = "no one" /\ Videos!NoOne = "no one"
  BY DEF TwoTabs!NoOne, Videos!NoOne
<1>5. TwoTabs!NoOne \notin {t1, t2} /\ Videos!NoOne \notin {t1}
  BY <1>1, <1>2, <1>4
<1>6. QED  BY <1>1, <1>2, <1>3, <1>5, Zenon DEF TwoTabs!Sizes, Videos!Sizes

\* In the behaviours of the instance with two tabs, uploads are run as they
\* are specified.
LEMMA TabsRun == StudioSpec => (part = "tabs" => TwoTabs!UploadSpec)
<1>1. StudioInit /\ part = "tabs" => TwoTabs!UploadInit
  BY DEF StudioInit
<1>2. part = "tabs" /\ [StudioNext]_studioVars =>
        (part = "tabs")' /\ [TwoTabs!UploadNext]_TwoTabs!vars
  BY DEF StudioNext, studioVars, uploadVars, TwoTabs!vars
<1>3. QED  BY <1>1, <1>2, PTL DEF StudioSpec, TwoTabs!UploadSpec

\* The same of the instance with two files and one tab.
LEMMA VideosRun == StudioSpec => (part = "videos" => Videos!UploadSpec)
<1>1. StudioInit /\ part = "videos" => Videos!UploadInit
  BY DEF StudioInit
<1>2. part = "videos" /\ [StudioNext]_studioVars =>
        (part = "videos")' /\ [Videos!UploadNext]_Videos!vars
  BY DEF StudioNext, studioVars, uploadVars, Videos!vars
<1>3. QED  BY <1>1, <1>2, PTL DEF StudioSpec, Videos!UploadSpec

\* The bounds of the three instances of StudioSave are as its proofs assume:
\* a course is open in each, one of one or one of two, and with two nothing is
\* published.
LEMMA SaveBounds ==
  /\ Edit!SaveSizes /\ Edit!OneCourse
  /\ Publish!SaveSizes /\ Publish!OneCourse
  /\ TwoCourses!SaveSizes
<1>1. NoCourse \notin {A} /\ NoCourse \notin {A, B}
  BY StudioNamesAssumption DEF StudioNames
<1>2. 1 \in Nat /\ 2 \in Nat /\ 2 \in Nat \ {0}
  OBVIOUS
<1>3. Edit!SaveSizes /\ Publish!SaveSizes /\ TwoCourses!SaveSizes
  BY <1>1, <1>2, Zenon DEF Edit!SaveSizes, Publish!SaveSizes, TwoCourses!SaveSizes
<1>4. Edit!OneCourse /\ Publish!OneCourse
  BY DEF Edit!OneCourse, Publish!OneCourse
<1>5. QED  BY <1>3, <1>4

\* In the behaviours of the instance whose author edits, drafts are saved as
\* is specified.
LEMMA EditRun == StudioSpec => (part = "edit" => Edit!SaveSpec)
<1>1. StudioInit /\ part = "edit" => Edit!SaveInit
  BY DEF StudioInit
<1>2. part = "edit" /\ [StudioNext]_studioVars => (part = "edit")' /\ [Edit!SaveNext]_Edit!saveVars
  BY DEF StudioNext, studioVars, saveVars, Edit!saveVars, Edit!client
<1>3. QED  BY <1>1, <1>2, PTL DEF StudioSpec, Edit!SaveSpec

\* The same of the instance whose author publishes, which begins alike.
LEMMA PublishRun == StudioSpec => (part = "publish" => Publish!SaveSpec)
<1>1. StudioInit /\ part = "publish" => Edit!SaveInit
  BY DEF StudioInit
<1>2. StudioInit /\ part = "publish" => Publish!SaveInit
  BY <1>1
     DEF Edit!SaveInit, Publish!SaveInit, Edit!NoTab, Publish!NoTab, Edit!NoDoc, Publish!NoDoc,
     Edit!NoCopy, Publish!NoCopy, Edit!NoSave, Publish!NoSave, Edit!NoOpening, Publish!NoOpening,
     Edit!NoRestoring, Publish!NoRestoring, Edit!NoPub, Publish!NoPub, Edit!NoVideo,
     Publish!NoVideo, Edit!Callers, Publish!Callers, Edit!NoCandidate, Publish!NoCandidate
<1>3. part = "publish" /\ [StudioNext]_studioVars =>
        (part = "publish")' /\ [Publish!SaveNext]_Publish!saveVars
  BY DEF StudioNext, studioVars, saveVars, Publish!saveVars, Publish!client
<1>4. QED  BY <1>2, <1>3, PTL DEF StudioSpec, Publish!SaveSpec

\* The same of the instance with two courses.
LEMMA CoursesRun == StudioSpec => (part = "courses" => TwoCourses!SaveSpec)
<1>1. StudioInit /\ part = "courses" => TwoCourses!SaveInit
  BY DEF StudioInit
<1>2. part = "courses" /\ [StudioNext]_studioVars =>
        (part = "courses")' /\ [TwoCourses!SaveNext]_TwoCourses!saveVars
  BY DEF StudioNext, studioVars, saveVars, TwoCourses!saveVars, TwoCourses!client
<1>3. QED  BY <1>1, <1>2, PTL DEF StudioSpec, TwoCourses!SaveSpec

\* The bounds of the four instances of ExtractionPanel are as its proofs
\* assume: there is one course where its polling is looked at, and nothing is
\* cancelled where its reviews are.
LEMMA PanelBounds ==
  /\ Start!PanelSizes /\ Polls!PanelSizes /\ Review!PanelSizes /\ Moves!PanelSizes
  /\ Polls!OneCourse /\ Review!NoCancel
<1>1. NoCourse \notin {A} /\ NoCourse \notin {A, B} /\ screened \in {screened}
  BY StudioNamesAssumption DEF StudioNames
<1>2. 0 \in Nat /\ 1 \in Nat /\ 2 \in Nat
  OBVIOUS
<1>3. Start!PanelSizes /\ Polls!PanelSizes /\ Review!PanelSizes /\ Moves!PanelSizes
  BY <1>1, <1>2, Zenon
     DEF Start!PanelSizes, Polls!PanelSizes, Review!PanelSizes, Moves!PanelSizes
<1>4. Polls!OneCourse /\ Review!NoCancel
  BY DEF Polls!OneCourse, Review!NoCancel
<1>5. QED  BY <1>3, <1>4

\* In the behaviours of the instance that starts extractions, the panel is run
\* as it is specified.
LEMMA StartRun == StudioSpec => (part = "start" => Start!PanelSpec)
<1>1. StudioInit /\ part = "start" => Start!PanelInit
  BY DEF StudioInit
<1>2. part = "start" /\ [StudioNext]_studioVars => (part = "start")' /\ [Start!PanelNext]_Start!vars
  BY DEF StudioNext, studioVars, panelVars, Start!vars
<1>3. QED  BY <1>1, <1>2, PTL DEF StudioSpec, Start!PanelSpec

\* The same of the instance that polls, which begins alike.
LEMMA PollsRun == StudioSpec => (part = "polls" => Polls!PanelSpec)
<1>1. StudioInit /\ part = "polls" => Start!PanelInit
  BY DEF StudioInit
<1>2. StudioInit /\ part = "polls" => Polls!PanelInit
  BY <1>1
     DEF Start!PanelInit, Polls!PanelInit, Start!ClosedPanel, Polls!ClosedPanel, Start!NoJob,
     Polls!NoJob, Start!NoRows, Polls!NoRows, Start!NoRequest, Polls!NoRequest, Start!NoDetail,
     Polls!NoDetail
<1>3. part = "polls" /\ [StudioNext]_studioVars => (part = "polls")' /\ [Polls!PanelNext]_Polls!vars
  BY DEF StudioNext, studioVars, panelVars, Polls!vars
<1>4. QED  BY <1>2, <1>3, PTL DEF StudioSpec, Polls!PanelSpec

\* The same of the instance that reviews.
LEMMA ReviewRun == StudioSpec => (part = "review" => Review!PanelSpec)
<1>1. StudioInit /\ part = "review" => Start!PanelInit
  BY DEF StudioInit
<1>2. StudioInit /\ part = "review" => Review!PanelInit
  BY <1>1
     DEF Start!PanelInit, Review!PanelInit, Start!ClosedPanel, Review!ClosedPanel, Start!NoJob,
     Review!NoJob, Start!NoRows, Review!NoRows, Start!NoRequest, Review!NoRequest, Start!NoDetail,
     Review!NoDetail
<1>3. part = "review" /\ [StudioNext]_studioVars =>
        (part = "review")' /\ [Review!PanelNext]_Review!vars
  BY DEF StudioNext, studioVars, panelVars, Review!vars
<1>4. QED  BY <1>2, <1>3, PTL DEF StudioSpec, Review!PanelSpec

\* The same of the instance with two courses.
LEMMA MovesRun == StudioSpec => (part = "moves" => Moves!PanelSpec)
<1>1. StudioInit /\ part = "moves" => Moves!PanelInit
  BY DEF StudioInit
<1>2. part = "moves" /\ [StudioNext]_studioVars => (part = "moves")' /\ [Moves!PanelNext]_Moves!vars
  BY DEF StudioNext, studioVars, panelVars, Moves!vars
<1>3. QED  BY <1>1, <1>2, PTL DEF StudioSpec, Moves!PanelSpec

\* A behaviour that is not of an instance never becomes one.
LEMMA OtherParts ==
  /\ ~(part = "tabs") /\ [StudioNext]_studioVars => ~(part = "tabs")'
  /\ ~(part = "videos") /\ [StudioNext]_studioVars => ~(part = "videos")'
  /\ ~(part = "edit") /\ [StudioNext]_studioVars => ~(part = "edit")'
  /\ ~(part = "publish") /\ [StudioNext]_studioVars => ~(part = "publish")'
  /\ ~(part = "courses") /\ [StudioNext]_studioVars => ~(part = "courses")'
  /\ ~(part = "start") /\ [StudioNext]_studioVars => ~(part = "start")'
  /\ ~(part = "polls") /\ [StudioNext]_studioVars => ~(part = "polls")'
  /\ ~(part = "review") /\ [StudioNext]_studioVars => ~(part = "review")'
  /\ ~(part = "moves") /\ [StudioNext]_studioVars => ~(part = "moves")'
  BY DEF StudioNext, studioVars

\* A record that says staged has all bytes of its file on the service, and the
\* author can resume with the file a record names (StagedIsWhole,
\* studio-upload.mjs:150, 189).
THEOREM StagedVideosAreWhole == StudioSpec => []StagedIsWhole
<1>1. StudioSpec => [](part = "tabs" => TwoTabs!StagedIsWhole)
  BY OtherParts, StudioBounds, TabsRun, TwoTabs!StagedMeansWhole, PTL DEF StudioSpec
<1>2. StudioSpec => [](part = "videos" => Videos!StagedIsWhole /\ Videos!Resumable)
  BY OtherParts, StudioBounds, VideosRun, Videos!StagedMeansWhole,
     Videos!AlwaysResumable, PTL DEF StudioSpec
<1>3. QED  BY <1>1, <1>2, PTL DEF StagedIsWhole

\* Every reservation can be found again, and until the author lets a video go a
\* draft revision is reserved once and one upload has a prepared operation,
\* whatever tabs, retries and restarts there are and whatever the service denies
\* and grants later (ReservationsSound, studio-upload.mjs:72, 148, 155).
THEOREM ReservationsAreSound == StudioSpec => []ReservationsSound
<1>1. StudioSpec => [](part = "tabs" => TwoTabs!TypeOK)
  BY OtherParts, StudioBounds, TabsRun, TwoTabs!UploadTypes, PTL DEF StudioSpec
<1>2. StudioSpec =>
        [](part = "tabs" => /\ TwoTabs!OneReservationEach
                            /\ TwoTabs!NothingOrphaned
                            /\ TwoTabs!OneInDoubt)
  BY OtherParts, StudioBounds, TabsRun, TwoTabs!ReservedOnce, TwoTabs!ReservationsFound,
     TwoTabs!RestartsLeaveNoDoubt, PTL DEF StudioSpec
<1>3. StudioSpec =>
        [](part = "videos" => /\ Videos!OneReservationEach
                              /\ Videos!NothingOrphaned
                              /\ Videos!OneInDoubt)
  BY OtherParts, StudioBounds, VideosRun, Videos!ReservedOnce, Videos!ReservationsFound,
     Videos!RestartsLeaveNoDoubt, PTL DEF StudioSpec
<1>4. QED  BY <1>1, <1>2, <1>3, PTL DEF ReservationsSound

\* What the page calls saved is what the server has as that revision, and the
\* page shows a document of the course it says is open, whatever save or
\* answer comes late (SavedIsTrue, studio.js saveDraft, openCourse).
THEOREM SavedDraftsAreTrue == StudioSpec => []SavedIsTrue
<1>1. StudioSpec => [](part = "edit" => Edit!SaveTypeOK)
  BY OtherParts, SaveBounds, EditRun, Edit!SaveTypes, PTL DEF StudioSpec
<1>2. Publish!Unmixed /\ TwoCourses!Unmixed /\ TwoCourses!RestoredHere
  BY SaveBounds
     DEF Publish!Unmixed, TwoCourses!Unmixed, TwoCourses!RestoredHere, TwoCourses!NoRestore
<1>3. StudioSpec => [](part = "publish" => Publish!SavedIsTrue)
  BY <1>2, OtherParts, SaveBounds, PublishRun, Publish!SavedIsWhatIsStored, PTL DEF StudioSpec
<1>4. StudioSpec => [](part = "courses" => TwoCourses!SavedIsTrue /\ TwoCourses!CourseMatches)
  BY <1>2, OtherParts, SaveBounds, CoursesRun, TwoCourses!SavedIsWhatIsStored,
     TwoCourses!ShownIsOfTheCourse, PTL DEF StudioSpec
<1>5. QED  BY <1>1, <1>3, <1>4, PTL DEF SavedIsTrue

\* A draft goes live only as the author reviewed it, once for each
\* confirmation (PublishedAsReviewed, studio.js publishDocument).
THEOREM LiveIsReviewed == StudioSpec => []PublishedAsReviewed
<1>1. Publish!Unmixed
  BY SaveBounds DEF Publish!Unmixed
<1>2. StudioSpec => [](part = "publish" => Publish!PublishedAsReviewed)
  BY <1>1, OtherParts, SaveBounds, PublishRun, Publish!PublishedOnlyReviewed, PTL DEF StudioSpec
<1>3. QED  BY <1>2, PTL DEF PublishedAsReviewed

\* A step of an instance is a step of the suite.
LEMMA StepsAreTheirs ==
  [StudioNext]_studioVars =>
    /\ part = "edit" /\ UNCHANGED Edit!saveVars => UNCHANGED studioVars
    /\ part = "videos" /\ UNCHANGED Videos!vars => UNCHANGED studioVars
    /\ part = "review" /\ UNCHANGED Review!vars => UNCHANGED studioVars
  BY DEF StudioNext, studioVars, saveVars, uploadVars, panelVars, Edit!saveVars, Edit!client,
     Videos!vars, Review!vars

\* No step of the page loses the author's last edit, but the arrival of a
\* restored or reloaded draft; no confirmed upload record loses its upload
\* before the author starts anew (WorkKept, studio.js saveCrashRecovery,
\* studio-upload.mjs:147).
THEOREM WorkIsKept == StudioSpec => WorkKept
<1>1. Edit!RestoredHere
  BY SaveBounds DEF Edit!RestoredHere
<1>2. StudioSpec => (part = "edit" => [][Edit!WorkKeptStep]_Edit!saveVars)
  BY <1>1, SaveBounds, EditRun, Edit!EditsAreKept, PTL DEF Edit!WorkKept
<1>3. StudioSpec => (part = "videos" => [][Videos!RecordsKeptStep]_Videos!vars)
  BY StudioBounds, VideosRun, Videos!RecordsStay, PTL DEF Videos!RecordsKept
<1>4. /\ [StudioNext]_studioVars
      /\ part = "edit" => [Edit!WorkKeptStep]_Edit!saveVars
      /\ part = "videos" => [Videos!RecordsKeptStep]_Videos!vars
      => [/\ part = "edit" => Edit!WorkKeptStep
          /\ part = "videos" => Videos!RecordsKeptStep]_studioVars
  BY StepsAreTheirs
<1>5. QED  BY <1>2, <1>3, <1>4, OtherParts, PTL DEF StudioSpec, WorkKept

\* A save replaces no draft of another browser that was never shown here,
\* except from a recovery copy the author took back (NoUnseenOverwrite,
\* studio.js performSaveDraft).
THEOREM NothingUnseenIsLost == StudioSpec => NoUnseenOverwrite
<1>1. 0 = 0
  OBVIOUS
<1>2. StudioSpec => (part = "edit" => [][Edit!NoUnseenOverwriteStep]_Edit!saveVars)
  BY <1>1, SaveBounds, EditRun, Edit!NothingUnseenIsReplaced, PTL DEF Edit!NoUnseenOverwrite
<1>3. /\ [StudioNext]_studioVars
      /\ part = "edit" => [Edit!NoUnseenOverwriteStep]_Edit!saveVars
      => [part = "edit" => Edit!NoUnseenOverwriteStep]_studioVars
  BY StepsAreTheirs
<1>4. QED  BY <1>2, <1>3, OtherParts, PTL DEF StudioSpec, NoUnseenOverwrite

\* Trying again after an uncertain start makes no second extraction the author
\* was not told of; polling goes on while an active extraction is looked at;
\* the observations shown are of the selected extraction, and those listed of
\* the panel's own course (PanelSound, studio-extraction.mjs).
THEOREM PanelIsSound == StudioSpec => []PanelSound
<1>1. StudioSpec => [](part = "start" => Start!OneJobPerForm)
  BY OtherParts, PanelBounds, StartRun, Start!RetryStartsNoSecond, PTL DEF StudioSpec
<1>2. StudioSpec => [](part = "polls" => Polls!PollingGoesOn /\ Polls!RowsOfSelected)
  BY OtherParts, PanelBounds, PollsRun, Polls!PollingContinues, Polls!RowsAreOfSelected,
     PTL DEF StudioSpec
<1>3. StudioSpec => [](part = "moves" => Moves!TypeOK /\ Moves!OwnCourse)
  BY OtherParts, PanelBounds, MovesRun, Moves!PanelTypes, Moves!ShowsItsCourse,
     PTL DEF StudioSpec
<1>4. QED  BY <1>1, <1>2, <1>3, PTL DEF PanelSound

\* A review decision is accepted only when the observations it was made on
\* showed every review of another tab (NoBlindReview, mutateJob).
THEOREM ReviewsAreInformed == StudioSpec => NoBlindReview
<1>1. StudioSpec => (part = "review" => [][Review!NoBlindReviewStep]_Review!vars)
  BY PanelBounds, ReviewRun, Review!NoReviewIsBlind, PTL DEF Review!NoBlindReview
<1>2. /\ [StudioNext]_studioVars
      /\ part = "review" => [Review!NoBlindReviewStep]_Review!vars
      => [part = "review" => Review!NoBlindReviewStep]_studioVars
  BY StepsAreTheirs
<1>3. QED  BY <1>1, <1>2, OtherParts, PTL DEF StudioSpec, NoBlindReview
=============================================================================
