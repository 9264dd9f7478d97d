# Verification of the human-move explorer and Course Studio

This directory holds TLA+ specifications of the stateful parts of this
repository, the services in Python and the Course Studio in the browser, the TLC
configurations that model-check them on small instances, and proofs, checked by
TLAPS, of what holds for every instance. Engines, linters, page layout and
streaming proxies are not modelled; the inventory below and section 5 say why.

Run from this directory:

    tlc -config MCVideoExtraction_worker.cfg MCVideoExtraction.tla
    tlapm VideoExtractionProofs.tla

and likewise the other `...Proofs` modules.

## 1. Inventory

| Part | State | Operations | What is hard |
|---|---|---|---|
| Extraction job store (`app/video_jobs.py`) | SQLite table `jobs` | create, update, claim, recover_interrupted, review | every caller of `update` may act on a row read long before; admission bounds; retried POSTs |
| Extraction worker (`app/video_jobs_worker.py`, `app/video_ocr/runtime.py`) | `worker.lock` (flock), supervisor process, child process, its FFmpeg, `source.mp4`, `manifest.json` | kick, lock, recover, claim, launch, poll, kill, settle; acquire, extract, report, verdict | crashes at any step, a lock that the child inherits, a killed child whose helper lives on, two writers of one row |
| Extraction API (`app/video_jobs_api.py`) | none of its own | create, cancel, review, read | cancel is a read, an await and a write |
| Review database (`app/beyond_basics_review_state.py`, `app/beyond_basics_action_queue.py`) | `revisions`, `review_actions`, `review_save_requests` | save, ready, claim, finish | retried saves, a newer save while an edit is inferred, leases that lapse, bounded attempts, a bounded queue |
| Review service and worker (`app/beyond_basics_action_service.py`, `scripts/review_action_worker.py`) | nonce table; the worker's claimed job | claim, infer, finish | lost replies, late finishes, workers that die |
| Review supervisor and alerts (`scripts/review_action_supervisor.py`) | `worker.lock`, `status.json`, `alert.json` | tick, check, alert | three timeouts, alert episodes whose delivery is unverified |
| Key rotation (`scripts/review_action_rotate.py`, `..._keyring_admin.py`, `app/beyond_basics_action_keyring.py`) | local keychain, journal, selected key; remote ring | one journalled rotation | a crash between any two of its steps; compare-and-swap on a ring others edit |
| Effects library (`app/effects_library.py`) | `index.json`, media files, two locks | add, rename, replace, delete | several files changed with compensation; cancelled requests with a live encoder |
| Hint learning (`app/hint_learning.py`, proxy in `app/main.py`) | journal, watermarks, learned reviews | stage, reconcile, recover, discard | ambiguous replies of the backend, receipts out of order |
| Hint studio (`app/hint_studio.py`) | reviews with versions, hourly allowance | reserve, review operations | stale versions, allowance at its bound |
| Draft saving (`app/static/studio-save.mjs`, `studio-api.mjs`, `studio.js`) | document, revision, saved snapshot, recovery copy, one save in flight | open, edit, undo, save, restore, publish, video poll, logout | edits, other courses and other browsers during a save; lost replies; closed tabs |
| Course document (`studio-document.mjs`, `studio-shared-hints.mjs`, `studio-training-branch.mjs`) | trees of chapters, hints with their origin, undo | edit moves, chapters and hints; save as PGN and open again | hints shared by transpositions, whose authors are deleted, archived or moved |
| Chapters of one PGN (`studio-document.mjs`) | drafts that name the node they start after | edit moves and chapters, paste PGN, save, open | edits of the moves change what is divided |
| Board and engines (`studio.js`, `studio-engine.mjs`, `studio-chessground.mjs`) | node, board, evaluation, Maia panel and arrows, four kinds of requests | navigate, play, undo, switch chapters and views | answers in any order, each guarded by a token of its own |
| Learner preview (`studio.js`) | place, board, card, attempt | next, previous, restart, answer, edit | edits and navigation while a position is asked for |
| Writing and coverage checks (`studio.js`, `writing-check.js`) | results, dictionary, busy buttons | check, fix, omit, add a word | a result is used after edits, undo and saves |
| Hint panel (`studio.js`, `app/hint_studio.py`) | panel and its context; reviews with versions | generate, judge, edit, apply | the panel is replaced while its requests go on |
| Staged upload (`studio-upload.mjs`, `studio-upload-panel.mjs`) | recovery records in local storage, server operations, a lock | reserve, run, inspect, restart | lost acknowledgements, several tabs, fences |
| Extraction panel (`studio-extraction.mjs`) | scope epoch, sequence numbers, busy, timer | list, open, start, cancel, review | answers that arrive after the panel moved on; another tab |
| Chapter page (`chapters.js`, `chapter-editor.mjs`) | course, division, what Reset goes back to | load, import, drag, add, remove, reset | boundaries at their neighbours, late loads |
| Proxies, engines, small pages, OCR post-processing, linters, deployment | caches, counters, none | | little or no interleaving; pure functions |

How they interact: the app's lifespan calls `kick_worker` every ten seconds, and
the API calls it after each create; API handlers, supervisor and child share one
SQLite table and talk to each other only through it, the lock and signals. The
review pages and the remote worker share the review database, each operation in
a transaction of its own. The Studio page is one thread: its handlers run to their
next `await`, and everything that may happen before the answer comes is an
interleaving. Its parts meet in the document and its revision: the save queue
sends it, the extraction panel, the checks, the hint panel and the engines
capture it before an `await` and compare afterwards; tabs meet in local storage,
browsers in the server's revision.

What makes each part correct, in one line:

- extraction: one extraction at a time, whoever crashes; a result called
  complete is complete; every admitted job ends; a cancelled one stops;
- review queue: one instruction at a time; a correction lies exactly on the
  revision it corrects; an outcome is final; authors are told the truth; every
  instruction ends;
- rotation: never without a working key, the old key denied in the end;
- effects: index and media agree after every failure;
- hint learning: only what the backend committed is learned, in order, and no
  suggestion as the author's own;
- saving: no edit is lost and none is called saved that is not;
- documents: what is saved and opened again trains the same; an edit changes what
  it is made at and no more;
- asynchronous panels: what is shown is of what is selected now, and what is busy
  ends;
- uploads: one reservation, findable, whole.

## 2. Modules

| Module | Models | Role |
|---|---|---|
| `JobStore` | the job table, one atomic step per transaction | component; `StoreSpec` runs it under any callers |
| `ExtractionWorker` | supervisors, child, helper, lock, files, faults (extends `JobStore`) | component |
| `VideoExtraction` | the above with the API handlers; fairness; all properties | composition |
| `ExtractionQueue` | what the subsystem promises, without processes or locks | abstract specification |
| `VideoExtractionProofs` | theorems about the job table and the extraction subsystem | proofs |
| `ReviewQueue` | the review database, one atomic step per transaction | component |
| `ReviewActions` | authors, workers and the network around it; all properties | composition |
| `ReviewLedger` | what the review queue promises, without leases or a network | abstract specification |
| `ReviewServiceProofs` | theorems about the review queue, its authors and workers, and about `KeyRotation` | proofs |
| `StudioSave` | one tab of the Studio that opens, edits, saves, restores and publishes | component |
| `StagedUpload` | the upload controller and panel, tabs, local storage, lock, what is expected of the service | component |
| `ExtractionPanel` | the panel that starts, follows and reviews extractions | component |
| `StudioServerProofs` | theorems about `StudioSave` and `StagedUpload` | proofs |
| `ExtractionPanelProofs` | theorems about the extraction panel | proofs |
| `VariationTree` | the variation tree of a chapter: operators only | used by the next three |
| `CourseDocument` | chapters that own trees, shared hints, undo, saving and opening | component |
| `ChapterDrafts` | the division of a course that is one PGN, under edits | component |
| `StudioBoard` | the node, the board, the engines, the Maia panel and arrows | component |
| `ChapterEditor` | the chapter page | component |
| `LearnerPreview` | the learner preview | component |
| `StudioChecks` | writing and coverage checks, the dictionary | component |
| `HintReview` | the hint panel and the reviews on the server | component |
| `HintLearning` | journal, receipts, what is learned | component |
| `KeyRotation` | the rotation of the signing key | component |
| `EffectsLibrary` | index and media of the recording effects | component |
| `HintReviewProofs`, `HintLearningProofs`, `EffectsLibraryProofs` | theorems about the components of these names | proofs |
| `SuiteProofs` | theorems about `MCServices` and `MCStudioServer` | proofs |
| `MCVideoExtraction`, `MCReviewActions` | symmetry sets; constants are in the `.cfg` files | instances |
| `MCStudioServer`, `MCStudioEditor`, `MCServices`, `MCLiveness` | several instances of the components each | instances |

Each component module also holds a few operators called "a bug of ...": variants
of an operation with the mistake its comment names. No specification uses them.
They show that each property can fail.

The last four modules put instances side by side. The components in them meet on
no state of these models (each names what it expects of the others: a save, a
course's revision, a position), so a behaviour is one of a single instance, the
one that `part` (in `MCServices`, `service`) names, and the variables of the others
stay as they begin. Several
instances of one component share its variables and differ in their bounds: what
is interesting together is bounded together. A property such as `BoardCurrent`
says what each of its instances must satisfy, with the component's own property
behind the name (`Follow!BoardFollows`); each of those is stated and explained in
the component's module. `MCServices` and, for the first two components,
`MCStudioServer` take their instances from the proof modules, so that `SuiteProofs` can
cite their theorems; they use nothing else that is defined there.
`StudioServerProofs` is about two components, so an instance of it also gives the
constants of the component it is not about, the smallest ones there are.

### Video extraction

A row keeps its owner, request id, status, phase and cancel flag. A supervisor
`w` is at a point `pc[w]` of `main`: probing and spawning belong to
`kick_worker`; `starting`, `recover`, `recovering`, `idle`, `claimed`, `polling`,
`deciding`, `marking`, `reaped`, `settling`, `failing`, `sweeping` follow the loop
line by line; `crashed` means the process is dead and its child still has the
lock's descriptor. The child of a job is at `child[j]`: `acquiring` to
`unlinking` follow `execute` and `run_video`, `erring` is the exception path. A
read and a later write of the same row are two steps wherever the code uses two
transactions: in the cancel handler, in `supervise_child`, in the final check of
the supervisor, in the child's own verdict, and in `recover_interrupted`.

Faults: the child is killed alone, the supervisor dies at any point, the host
restarts. An exception that leaves the supervisor's loop (the disk walk of
`check_capacity`, a database that stays locked) is `CrashSupervisor`, one within
the job is `Raise`.

Abstractions: creation times are the order of ids (a wall clock set back between
two creates could reorder them in the code); request ids stand for the pair
(course, request id), and the document revision and source of a retry are left
out since they only choose between 202 and 409; phases of progress are one
value; frames and recognition are one step. A job is claimed once, so its child and
files are indexed by the job. On hosts without `prctl` the parent-death signal
is missing: `ParentDeathGuard` is Linux, which the service runs on.

### Review actions

A page is a sequence of revisions, each with its author (a save request, the
worker, or "ready"), whether its notes instruct the worker, whether its
decision requests changes, and the ready mark. An action row has status,
attempts, lease token (the number of the attempt) and whether `lease_until` has
passed. `waiting` is the order `ORDER BY updated_at` gives the queued rows, as a set of
pairs, the earlier first.
`Claim` and `ClaimNothing` perform the three sweeping updates of `claim` before they
look for work. `sent` holds the PUT an author composed: it may arrive any number
of times, early or late, and its reply may be lost. `wire` holds finish requests: each
arrives at most once (the nonce refuses copies), late, or never.

Abstractions: `claim` reads the clock before it takes the database lock, so two
claims in a row may order rows they requeue by a slightly older time; saves
without a request id are requests that are never retried; a request id reused
for other content (409) and malformed input (400) change nothing; what
`apply_proposal` makes of a proposal is any outcome; a finish that is rolled back is
`LoseFinish`.

### Draft saving

`StudioSave`: the tab's document and the document the server is known to have,
the recovery copy per course, `save` for the one save in flight (exporting to PGN
and sending are one step), `callers` waiting for it, the opening, the restore and
the publication that are under way, the video poll. Everything after an `await` is a
step. The server keeps a list of drafts per course and refuses a revision that
is not the last; a reply may be lost, and another browser saves too. `work` and
`confirmed` are ghosts: the author's last edit of each course, and what he
confirmed in the publication dialog. One tab: two tabs of one browser differ from
two browsers only by the recovery copy.

### Staged upload

`StagedUpload`: the slots of local storage, the Web Lock, the call each tab is in
(`run`, one point per request of `runLocked`, `reconcile` and `restartForRevision`), the panel's
view, and the service's uploads with their parts and operations. A reply may be
lost after the service acted, an operation may expire, a tab may close.
`RemoveVideo` is the removal of a chapter's video, after which the panel starts anew.
`Transient` says whether a service that denied a revision may grant it later, or
has closed it for good (`Closed`); `studio_server` has it `TRUE`. A loop stops by what the service answers, not
after 600 rounds.

### Extraction panel

`ExtractionPanel`: the panel's fields, and `flights`: requests with the token that
`ExtractionScope` captured, what the server read, and in `then` what the calling
functions do after the answer. Whether a token is current is two flags, "live" (the
scope) and "latest" (the sequence of its kind). Answers that would be dropped and
change nothing are removed. The job table and its worker are seen from outside
(`jobs`: status, result, review revision). Ghosts: what was asked, what failed, the
form that was sent, what the author was told.

### Course document

`VariationTree` has the tree operations of `studio-document.mjs` and
`studio-training-branch.mjs`; `CourseDocument` has one action per command of the
page, through `commit`, with the chapter synchronised first. Chess is a toy: a move
is legal when its side is to move and it has not been played yet, so that lines
transpose, which is what shared hints need. Hints are numbers, 0 for blank; comments,
headers and videos are left out. `stored` is what the server has: PGN (a tree
numbered in PGN order with the hints that are shown) and origin records.
`Save` and `Reopen` count as edits.

### Chapters of one PGN, and the chapter page

`ChapterDrafts`: a draft is its id and the position it starts at; edits of the
moves reconcile the drafts, edits of the drafts move, add and delete boundaries.
The matching of published chapters to compiled positions and the warnings of
`validateDocument` are left out. `ChapterEditor`: positions are numbers, a course has an
order of them and maybe chapters; a late load replaces what is there. `mine` is a
ghost: the author's own edits since the course was loaded.

### Board, engines, Maia

`StudioBoard`: one record for the page's state: current node, position on the
board, tokens, the engine's stage, the Maia panel and the arrows of Recording. Of
superseded position requests only their number is kept, because their failures
are still reported. A move made from a node that is gone is left out, as is a
course without an active chapter.

### Preview, checks, hint panel

`LearnerPreview`: a document is what `chapterSlices` makes of it. `StudioChecks`: a text
has one word that may be misspelled; `title` belongs to all chapters; saving is
one step here. `HintReview`: the panel of one move with its context, and the server's
reviews changed by compare-and-swap; `intents` is the server's event log, `written` a
ghost of what the page wrote.

### Hint learning, key rotation, effects library

`HintLearning`: one course and author. A proxy request journals, sends, looks for
receipts of earlier saves and learns in order of revisions. `Between` says whether
another request may save between the two reads of a recovery. `KeyRotation`: every
line that leaves a trace is a step and the run may die before each; swaps of the
ring are compare-and-swap; `Late` says whether a swap of a dead run may still
arrive. `EffectsLibrary`: every file operation is a step that may fail, those after the
index is saved too (`ErrsLate`); operations in a row that end a request alike fail as
one, and the removal of a file whose name has been moved away already, as the
`finally` of `save_index` tries, does not fail. `told` is a ghost: how each effect may be shown,
by what was answered and by what was asked in requests that ended in an error
after their index was saved. Requests of both server processes wait for one lock;
encoders end by their 90 s timeout.

## 3. Runs

| Run | Checks | Shows |
|---|---|---|
| `worker` | `TypeOK`, `OneExtraction`, `RecoveryFindsNoWorker`, `CompletedIsWhole`, `GroupGoneBeforeClaim`, `SupervisorWritesLast`, `ImplementsQueue` | Exclusion through the inherited lock over crashes; whole results; nobody writes after the supervisor's own terminal write; refinement of `ExtractionQueue`. |
| `recovery` | `EveryJobSettles`, `CancelledStops` | Two competing worker slots and a stale cancel request over two faults: the job ends and a cancelled one stops for good. |
| `sources_removed` (violation) | `SourcesRemoved` | see Findings |
| `completed_retained` (violation) | `CompletedRetained` | see Findings |
| `review_queue` | `TypeOK`, `OneRunning`, `ReadyIsResolved`, `CorrectionsAreAnswers`, `AnswersAreTrue`, `ResolvedOnce`, `ImplementsLedger` | One instruction at a time; outcomes are final; ready marks, corrections and what authors are told; refinement of `ReviewLedger`. |
| `review_liveness` | `EveryInstructionResolves` | Every instruction ends although workers may always die and replies always be lost. |
| `studio_server` | `SavedIsTrue`, `WorkKept`, `NoUnseenOverwrite`, `PublishedAsReviewed`, `ReservationsSound`, `StagedIsWhole`, `PanelSound`, `NoBlindReview` | The page against its servers: drafts, uploads and extractions with lost replies, other tabs and other browsers. |
| `studio_editor` | `DocumentSound`, `ReopenedIsSaved`, `EditTakesEffect`, `EditsStayLocal`, `DivisionsSound`, `BoardCurrent`, `PreviewCurrent`, `ChecksCurrent` | The editing side: what a command changes, what survives saving and opening, and that what is shown is of what is selected. |
| `services` | `LearnedIsTrue`, `ReviewSound`, `RotationSafe`, `LibraryTrue`, `AdmissionSound` | Learning, reviews, rotation, effects and the job table under any callers. |
| `liveness` | `BrowserSettles`, `ServicesSettle` | What was begun ends, in the browser and in the services. |
| `save_restore` (violation) | `EditsProtected` | see Findings |
| `document_revived` (violation) | `NoRevivedHints` | see Findings |

Bounds. `worker`: two jobs, two supervisor slots, a cancel request in flight, two
faults: enough for a supervisor to crash, a replacement to start beside its
orphan and to crash too, with a second job waiting. `recovery` is the same for one
job and liveness, which is checked without symmetry. `review_queue`: two pages, two
workers, two requests and four revisions, so that a lease can lapse on one page
while another waits, each finish can be late, and save, correction, save and ready
come in any order. `review_liveness`: one worker, three attempts, two pages of two
revisions. `studio_server`: drafts of one course with two edits, an undo, two openings
and two faults, or with a restore and a publication, or of two courses opened
three times (a save, its late answer and the course it must not touch); uploads of
two videos over three revisions from one tab, or of one over two revisions from two
tabs, three uploads and one fault each; extractions
started twice, polled while a selection changes, reviewed in two tabs, and looked
at from two courses. `studio_editor`: a chapter of five or six moves with both
kinds of variations, two chapters that share a hint and trees that transpose over
four plies, for the two or three edits it takes to write, detach and reopen; four
drags on courses that are whole, stale or empty; a chain of three clicks on the
board with one fault; eight on the preview; two checks against two edits.
`services`: two saves meeting at two proxies, or three over a candidate; five clicks
on a review; three deaths and two faults of a rotation, over the days its key has
left; four requests to a library of three effects with one fault; three authors,
three rows, global bound 2 and own bound 1, so that each bound is met while the
other is not. `liveness` takes the smallest of these instances in which requests
are lost, late or cancelled. All bounds are guards on counters; the limits of the
code (`GlobalLimit`, `OwnLimit`, `MaxAttempts`, `MaxActive`, `Target`, `Stages`,
`UndoDepth`) are constants.

What an instance leaves out on purpose, because the property is known to fail
there (see "Seen while modelling"): `review` has no cancels, `panel` no turned board,
`meet` no save between the reads of a recovery, `apply` and `order` no rewritten
texts, `courses` no restore and no publication, `days` and the rotation of `liveness` no
late swaps (a rotation that meets one may never end), `faults` one fault and no death, `learner` no edits,
`extract` no publication.

Deadlock is not checked in the four suites and their two violation runs, nor in
`completed_retained`: there the page, the service or the last supervisor rests when
the bounds are reached.

Fairness. Video extraction: the kick loop and a running supervisor take steps (weak
fairness of `SupervisorStep`); a worker that finds the lock free again and again gets
it, since it is kept from it only by another kick's momentary probe (strong
fairness of `TakeLock`; without it two starters can refuse each other for ever);
a supervisor that decides again and again about a live child kills it in the
end, by the six-hour limit (strong fairness of `KillGroup`); the kernel delivers
the parent-death signal and FFmpeg stops at its `-t` and `-fs`; a cancel request
in flight continues. Nothing is assumed of the extraction child itself, which may hang,
nor of clients. Review actions: a worker is started again and again and its alarm
ends it, and time passes; nothing is assumed of authors or of replies. Browser:
every request is answered or fails in the end (uploads after 110 seconds,
publications after 70, the others by the proxy's 60 seconds, main.py:420, or the
network's), the engine's timer rings; weak fairness of those steps, one per kind of request,
and nothing of the author. Rotation: it is started again after it died, and the
server answers. Effects: a request that has the lock goes on, one that waits gets
it once it is free, and the encoder ends by its timeout. These too are weak.

### Findings

- `SourcesRemoved`. docs/studio-video-extraction.md:99 says "Downloaded sources
  are removed after completion/failure/cancellation." After a host restart (or
  the death of supervisor and child) `recover_interrupted` marks the job failed
  and leaves its `source.mp4` in place; nothing removes it later.
- `CompletedRetained`. docs/studio-video-extraction.md:104 says completed evidence
  is retained and existing results remain readable. A child may record its
  completed result after the supervisor read the row and before the supervisor
  kills it for time, storage or cancellation; the supervisor then writes failed
  or cancelled over it, and results are only served for completed jobs.

- `EditsProtected`. docs/opening-drill-handoff.md:64 says "A browser-local recovery
  snapshot protects unsaved edits". `restoreVersion` (studio.js:1564) asks for
  consent, awaits the server and then replaces the document and removes the
  recovery copy; an edit made meanwhile is nowhere any more.
- `NoRevivedHints`. studio-shared-hints.mjs:113 says the removal of a hint's last
  linked donor is an explicit removal, not to be revived by a fallback.
  `clearDetachedHintFallbacks` looks at the chapters in use only, so the copy in an
  archived chapter is shown again when the chapter is restored.

### Seen while modelling

The modules also state what the code or its docs say and what does not hold in
general. These definitions are in no run; TLC refuted each on a small instance with
the bound the table names (a cancel, a turned board, a death) at one or more.

| Definition | What the code does |
|---|---|
| `StagedUpload!DenialClearsUnconfirmed` | Two tabs upload a whole course (`Chapter` FALSE), without the chapter's lock: the denied one removes the record the other has confirmed (studio-upload.mjs:162; docs/studio-staged-upload.md:82). |
| `StudioSave!ConflictIsReal` | "This course was saved in another tab or browser" is shown after the tab's own publication or an older save set the revision back (studio.js:1543). |
| `StudioSave!SavedIsTrue` with two courses and a publication | Another course is opened while a publication is answered; the answer's revision and snapshot are put into it (studio.js:1543). |
| `StagedUpload!OneReservationEach` once a video was let go, with `Transient` | A tab that opens while another's restart has its unconfirmed record in the revision's own slot keeps that slot as its key. The restart is denied and the slot cleared; the base slot is empty too, since its video was removed, so one tab reserves the revision in the base slot and the other, granted later, in the revision's own (studio-upload.mjs:129, :162). |
| `CourseDocument!Exportable`, `ChapterDrafts!Exportable` | Reordering a variation can put a node before its parent; the PGN service refuses the draft (studio-document.mjs:400, chess_state.py:109). |
| `CourseDocument!NoFalseAuthors`, `!HintFieldWorks` | Copies in archived chapters lose their origin record when saved, and their hint field does nothing (studio.js:1626, studio-shared-hints.mjs:103). |
| `ExtractionPanel!BusySettles` with a publication | The answer that comes after a publication leaves the panel's buttons disabled (studio-extraction.mjs:239). |
| `ExtractionPanel!RowsLabelled`, `!ListedStay`, `!LastClickWins` | Rows of the old kind under the new kind's title until theirs come; a list read before a start hides the new extraction; a reopening drops the author's own click (studio-extraction.mjs:383, :190, :193). |
| `ExtractionPanel!NoBlindReview` with a cancel | The answer of a cancel brings a newer review revision without its rows; the next decision is accepted on rows that do not show another tab's (studio-extraction.mjs:365). |
| `ExtractionPanel!PollingGoesOn` with two courses | A course is opened, and the first one again before its view is drawn: a poll that falls in between asks for the wrong course, its answer is dropped, and none follows until the panel is refreshed (studio.js:210, studio-extraction.mjs:188). |
| `StudioBoard!LegalTree`, `!BoardFollows` with quiet edits | The old position stays on the board until the new one is answered, and some edits move the author without asking for one (studio.js:775, :936). |
| `StudioBoard!ArrowsMatchBoard`, `!ChoiceLocal`, `!PanelUpdates` with a turned board | Arrows drawn before their position; a menu of continuations left open by undo; a Maia request forgotten when the board is turned (studio.js:1050, :309, :1597). |
| `ChapterEditor!EditsStay`, `!AddStarts`, `!DropReaches` | A late course replaces the one being edited; the lines a chapter is added at cannot start one; a dragged boundary reaches only places next to its neighbours (chapters.js:39, :96). |
| `LearnerPreview!OnlyCorrectAdvances`, `!JudgesWhatItShows`, `!AnswersAreOfThis` with edits | Until the next position is answered the old card's buttons and board still act; an edit keeps the verdict on the move before it (studio.js:1458, :1449, :290). |
| `ChapterDrafts!Covered`, `!ChaptersStay`, `!SameMovesSameChapters` | Drafts keep their order when the learning order changes, and numbers when nodes are deleted or parsed anew (studio-document.mjs:506, :507, studio.js:1609). |
| `StudioChecks!ConfirmedWordsKnown`, `!RefusedWhenOlder`, `!AddingSettles` | The last answer replaces the whole dictionary; a save makes results outdated without drawing them anew, and a word's button then stays "Adding…" (studio.js:1391, :1281). |
| `HintLearning!AbortedNotSaved` with `Between`, `!SuggestionNotManual` with rewrites | A save made between the two reads of a recovery is given up; a text suggested first and rewritten in the review is learned as the author's own (hint_learning.py:215, :151). |
| `HintLearning!AppliedStaysAI` with two reviews, with a save that does not parse, or with rewrites | A text suggested and applied where it already stands teaches nothing, nor does a draft the index cannot read; a candidate rewritten to a text the course has is no sign of a suggestion. A later correction is then learned as the author's own (hint_learning.py:151). |
| `HintReview!GeneratingEnds`, `!ReviewKnown` | Suggestions for a context that was left and taken back are dropped under "Analyzing and generating…"; after a lost answer the panel keeps an old version (studio.js:1189, :1182). |
| `KeyRotation!Reconciles` with `Late` | A swap that arrives after its run died leaves a journal and a ring that no recovery expects (review_action_rotate.py:112). |
| `EffectsLibrary!AsAnswered` with `told` of the answers alone | An operation that fails after the index was saved (the removal of the backup or of the upload's files, the reading of the index for the answer) answers an error over a change that stands (effects_library.py:245, :260-263). |
| `EffectsLibrary!NoneUnreachable` with two faults, `!PlaysAsListed` with a death | A second failing operation leaves a file of no entry; a death between medium and index leaves them apart (effects_library.py:229, :252). |

## 4. Theorems

Every theorem holds for all values of the constants that satisfy the named
assumptions. Each module has the same layout: an inductive invariant in named
parts, that `Init` implies it, one lemma per group of actions that these keep it, and
the theorems that follow from it.

`VideoExtractionProofs`, of the job table alone (`StoreSpec`: the table under any
callers at all):

- `StoreAdmits`: the global bound, each owner's bound and one job per request.
  `AdmissionInv` says that no two rows of one request exist, where
  `OneJobPerRequest` counts them. Only an insertion makes a row active; every other
  update leaves a row's owner and request alone and activates none (`Settles`), so
  the counts stay within the bounds, by the theorems on finite sets.
- `StoreOrder`: a claim takes no job over an older queued one.

and of the whole subsystem, for all authors, requests, bounds, numbers of jobs,
supervisors, requests in flight and faults:

- `TypeCorrect`: `Spec => []TypeOK`.
- `AtMostOneExtraction`, `RecoverySparesTheLiving`: from `ExclusionInv`. Neither
  property is inductive: that a second child cannot start rests on who holds the
  lock (`LockHeld`), on a live child belonging to a supervisor that polls it or has
  crashed over it (`ChildOwned`), on a claimed job never having run before
  (`ClaimFresh`, `NeverStarted`) and on recovery marking rows only while nothing
  lives (`NotInterrupted`).
- `CompletedMeansWhole`: from `WholeInv`, which follows the verdict from the child's
  check through its write; a completed row's child is past every step that could
  rewrite the manifest.
- `GroupGone`, `WritesLast`: from `HelperInv`. FFmpeg outlives its child only by a
  kill of the child alone, which is a fault (`HelperPlaced`), and is then watched by
  the supervisor that polls that child or has cost a second fault
  (`HelperWatched`, `CrashCounted`); a supervisor past the kill has none left
  (`GroupReaped`).
- `QueueRefinement`: `Spec => ImplementsQueue`. Every action maps to one of
  `ExtractionQueue` or to a stutter (`NextQueueStep`). It needs `ReadInv`: what a cancel
  handler read is a row that exists, and what recovery has listed was started, so
  their stale writes are steps the abstract queue has too.
- `JobsAdmitted`: `AdmissionBounds` and `OneJobPerRequest` in the whole subsystem:
  the steps of supervisors, children and handlers settle rows as `StoreSpec`
  demands.

`ReviewServiceProofs`, of `ReviewActions`, for all pages, requests, workers, attempts and
queue bounds:

- `OneInstructionAtATime`, `CorrectionsAnswer`, `ReadyRests`, `OutcomesStay`, from
  `IInv`: the types of the tables, jobs and requests, that only an action with an
  attempt left is queued, that no action precedes its revision
  (`NothingAhead`), and the properties themselves. The argument sorts every
  action of the specification into three kinds (`StepKinds`): it appends a revision that is no
  correction, it corrects, or it moves unresolved instructions about. Each kind
  keeps the ledger (`AppendsLedger`, `CorrectsLedger`, `ShufflesLedger`). `NothingAhead`
  is what makes `ReadyIsResolved` inductive: the revision appended by a ready
  mark has no action, so no finish can ever put a correction on it.
- `AnswersHonest`: from `SavesInv`, which says for each request what was composed,
  which revision it made, if any, and why an arrival that comes later is answered
  as the first was: a request that was told "conflict" has a base the page has
  left for good.
- `TypeCorrect`: the types, and that `waiting` is a total order of the queued
  instructions. That a sweep keeps it one rests on `OneRunning`: at most one
  instruction loses its lease at a time and goes behind the others.
- `QueueIsBounded`: instructions without an outcome never exceed `MaxActive`. No run
  checks this one.
- `LedgerRefinement`: `Spec => ImplementsLedger`. The three kinds of steps are the
  three of `ReviewLedger`, or stutter; claims and lapsed leases are not seen there.

`ReviewServiceProofs`, of `KeyRotation`, for any numbers of deaths, faults and days:

- `RotationTypes`, `NeverWithoutKey`, `NoSecretLost`, with late swaps or without, from
  `KeysInv`: the ring has one of three shapes (the old key, both, the new one
  alone); the journal, the keychain and the selected key bound which
  (`FilesInv`), the point of the run bounds them further (`RunInv`), and each swap that may
  still arrive leads from one shape to the next, though its run is dead
  (`SwapsInv`).
- For an instance without late swaps only, as the lemmas `PromiseKept` and `NeverRefused`: the
  expiry the alerts read, and that the journal of a dead run can be gone on
  from. They rest on `DaysInv`: such a run knows the ring (`KnownInv`), so the journal tells
  how far it has come (`JournalInv`). Nothing in the script rules late swaps out, and
  with them neither holds (section 3); so these are no theorems about the
  rotation, and serve `RotationIsSafe` for `days` alone.

`EffectsLibraryProofs`:

- `LibraryTypes`, `EncodersAlone`, under `Distinct` (uploads are not named as built-ins;
  "none" is no request), for any number of faults and deaths, from `ControlInv`: the
  lock is held by the one request that is inside, and an encoder that runs is
  that request's.
- `ListedPlays`, `AllReachable`, `IndexAnswers`, under `Distinct` and `OneFault` (at most one
  file operation fails, the process lives), from `LibraryInv`. The properties speak of
  an idle library. The invariant says for each point of a request how index and
  media differ from those it began with, and that the compensation restores
  them; that no other request is inside is what makes it so. `IndexAnswers` covers
  the operations after the index is saved too: what is shown is what was last
  answered, or what a request asked that failed there.

`HintReviewProofs`, without assumptions: `PanelTypes`, `PanelsAreTheirOwn`,
`WritesAreApplied`, `ShownOfTheMove`, from `PanelInv`. A request whose ticket is current
was asked in the panel on show, and the version and text it read are of the
server's history (`AskInv`, `ViewInv`), so compare-and-swap accepts a text only if it
is the one the page will write.

`HintLearningProofs`, under `Sizes` (finitely many proxies, `MaxSaves` a number):

- `LearningTypes`, `LearnsWhatWasSaved`, from `JournalInv`: a receipt is of a journalled
  save and one past its base; what a proxy holds is of its own save.
- `GivesUpForGood`, `PassesNoneOver`, with a save between the reads of a recovery or without,
  from `OrderInv`: no two receipts share a revision; a save that is given up and still on
  its way has a base that has passed; of the receipts, those not learned are ahead
  of the watermark, and a request that has read the last revision has it.
- `SuggestedIsNotManual`, under `Differ` (suggested texts are nobody's own), for any number of
  reviews, saves that do not parse and saves found late, from `OriginsInv`: until a candidate
  is rewritten, a text in any document is the author's or is in a review, where it
  is recognised when it is learned. After a rewriting it is false (section 3).
- For the instances the runs have, as lemmas: `GivesUpNone`, for `~Between` (`MissingInv`), and
  `AppliedIsNotManual`, also for `OneReview` (one review, saves that parse, no rewrites) and
  `Apart` (`LineageInv`). The code promises neither in general (section 3); `LearningIsTrue` cites
  them for `meet`, `apply` and `order`.

`StudioServerProofs`, of `StudioSave`, for any courses, edits, attempts, faults and
other browsers, under `SaveSizes` (the value for no course is none; a save is tried
once at least). All rest on `Base`: the types, with which requests name a course
and a document (`PageTypes`); that what the server answered is what it has, for good,
since revisions are only appended (`ServerGrows`, `AnswersStand`); and that what the bounds
leave out never begins (`Begins`).

- `SaveTypes`: the types, and that callers wait exactly while a save is in flight.
- `SavedIsWhatIsStored`, under `Unmixed`, from `SavedStands`: what the page calls saved stands
  on the server as that revision, and so does each thing a publication carries
  from its check to its answer. Without them the property is not inductive: a
  publication that lands writes the snapshot its review took.
- `PublishedOnlyReviewed`, under `Unmixed`, from `PublishedInv`: what is under way has been
  confirmed and not been counted yet.
- `ShownIsOfTheCourse`, under `RestoredHere`, from `DocsMatch`: the document, everything undo and redo
  may show, the recovery copies, the answers under way and the drafts on the
  server are of their course.
- `EditsAreKept`, under `RestoredHere`, from `WorkInv`: of the open course, an edit that is on the
  page is in the recovery copy, and the copy of an edit is of what is on the page,
  unless the edit is stored. A landing save may clear the copy only since what it
  clears is stored (`Cleans`).
- `NothingUnseenIsReplaced`, while nothing is published, from `FreshInv`: the revision the page
  has, and the one a save under way replaces, is the author's own, was seen, or his
  own copy was taken back; compare-and-swap does the rest.

`Unmixed` says that there is one course or nothing is published, `RestoredHere` that there
is one course or nothing is restored (and nothing is while nothing was ever
published). Both are needed: `restoreVersion` and a publication put what the server
answered into whatever course is open by then (studio.js:1543, :1564; section 3).
That `NothingUnseenIsReplaced` excludes publications is a limit of the proof: for one
course with one publication TLC finds no violation.

`StudioServerProofs`, of `StagedUpload`, for any tabs, files, revisions, parts, faults and
uploads, under `Sizes` (a chapter's uploads, which run under its lock; names differ
from those for none):

- `UploadTypes`, `StagedMeansWhole`, `AlwaysResumable`, `RecordsStay`, `DenialsClear`, from `Inv`: a call past
  the lock holds it (`LockSound`), no two records name one upload and what they say
  of it is so (`SlotsSound`), an upload's operation is its next one
  (`UploadsSound`), and what a call has read is still true of its own upload
  (`CallsSound`).
- `ReservedOnce`, `ReservationsFound`, `RestartsLeaveNoDoubt`, whatever the service denies and grants
  later, from `Ledger`: there are slots `w`, one for each upload it was asked through, so
  that until the upload is let go its slot leads to it and no other upload has
  that slot (`Led`). The base slot is of the earliest draft, and a draft's own slot is used
  only while the base leads to an upload of another draft and no earlier upload
  has an operation (`Opened`, because a restart looks at every slot before it
  reserves: `Examined`). So two tabs that both want a draft have the same slot (`KeySound`),
  even where one was denied and the other is granted later. The properties speak of
  the slots alone; between the request that reserves and the write that records
  it only the call knows the upload, and a retry must meet the same record
  (`TurnSound`). `ReservedOnce` and `RestartsLeaveNoDoubt` speak of the time until the author lets a video
  go: after that a denial that is taken back breaks the first (section 3).

`ExtractionPanelProofs`, under `PanelSizes` (the value for no course is none; extractions and
clicks that cancel are bounded by numbers), for any courses, views, bounds, losses
and other tabs. What the page does is a function of the page, a record of panel,
requests and context; the parts of `SafeInv` are stated of any such page and of
what the server has, and each operator that steps are made of (`Refreshed`, `Opening`,
`ListOk` and so on) has its lemma, `RefreshedSound` and the like, so that a step of
the specification only composes them (`PanelKeeps`). Requests that are no longer wanted
weaken every part alike (`Fades`, `SoundFades`).

- `PanelTypes`, `ShowsItsCourse`, `RowsAreOfSelected`, from `Own` and `Shown`: an answer under way is
  of the course and the extraction that were asked for, a request that is still
  wanted is of the panel's course, and only one request for an extraction or its
  rows is the latest.
- `RetryStartsNoSecond`, from `OneChange` and `Once`: one change at a time is wanted, and the panel
  is busy with it; a form and a revision go with one request, an extraction with
  the request that made it, and what was asked for by the form as it stands is
  still pending or the author knows of it. `OneJobPerForm` speaks of the server
  alone; a start that is lost and tried again is only safe because the page keeps
  its number.
- `PollingContinues`, under `OneCourse`, from `PollInv`: a page that looks at an active extraction
  has the timer, the list under way, or a request after which `schedule` is called.
  Each operator is shown to hand this on (`Goes`). With two courses it is false
  (section 3).
- `NoReviewIsBlind`, under `NoCancel` (nothing is cancelled), from `Informed`: the page never knows
  a newer review than its observations show, unless they show what the other tabs
  decided, also while reviews and rows are under way. The server's comparison of
  review revisions does the rest. With a cancel it is false (section 3).

`SuiteProofs` states what the runs `services` and `studio_server` check: `RotationIsSafe`,
`AdmissionIsSound`, `LibraryIsTrue`, `ReviewIsSound` and `LearningIsTrue` of the one, `SavedDraftsAreTrue`,
`LiveIsReviewed`, `WorkIsKept`, `NothingUnseenIsLost`, `ReservationsAreSound`, `StagedVideosAreWhole`,
`PanelIsSound` and `ReviewsAreInformed` of the other. In the behaviours of an instance its specification holds (`CrashesRun`, `EditRun`
and the like), since only its own steps touch its variables, and the theorem of its
module applies; in the others the instance does not run and the property asks
nothing.

Assumptions on constants: `StoreAssumption`, `WorkerAssumption`, `ReviewAssumption` (bounds
are natural numbers, at least one attempt, names of slots and requests differ
from the values that mean nobody, the worker and the ready mark), `RequestsAssumption`
and `NamesAssumption` of `MCServices`, `StudioNamesAssumption` of `MCStudioServer`. The others are hypotheses of the theorems that
need them.

Only model-checked:

- the properties under fairness (`EveryJobSettles`, `CancelledStops`,
  `EveryInstructionResolves`, `BrowserSettles`, `ServicesSettle`): out of the prover's reach;
- what `studio_editor` checks; section 5 names what is in reach of a proof.

## 5. Not modelled, and the plan

Not modelled: engines, the linters' rules and pure chess functions; the small pages
(`app.js`, `check.js`, `portsmouth.js`, `spellcheck.js`); drawing, drag and drop, sounds
and effects of the page; OCR post-processing; streaming proxies; deployment; the
texts of hints, comments and proposals. Left out on purpose in the modelled
parts: an empty directory of a job whose insert never happened; the signature
and the nonce table of the action service; the supervisor's lock, `status.json` and
alert episodes; excluded courses, suppressed texts and the selection of
references in hint learning; ratings and the allowance of generations; the rotation's
checks of file permissions; logging. `component` notes in PROJECT.json say it for
each part.

What the rest could still get, in this order: the supervisor of the review worker
with its three timeouts and its alerts; the nonce window of the action service; the
review handler of the extraction API against the job table (`ExtractionPanel` has
it from outside).

Next proofs: of the browser, `BoardFollows` of `StudioBoard`, the parts of `PreviewCurrent`
(`LearnerPreview`); `NothingUnseenIsReplaced` with publications. What `CourseDocument` promises of the trees rests on functions that walk them
recursively (`VariationTree`), so on induction over data; it stays with TLC.
