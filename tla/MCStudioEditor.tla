--------------------------- MODULE MCStudioEditor ---------------------------
(***************************************************************************)
(* The editing side of the Studio page: the course tree with its chapters  *)
(* and hints (CourseDocument), the chapters of a flat course               *)
(* (ChapterDrafts), the board with its engines (StudioBoard), the preview  *)
(* (LearnerPreview), the writing and coverage checks (StudioChecks), and   *)
(* the chapter page beside it (ChapterEditor). They meet on no state of    *)
(* these models, so a behaviour is one of one instance, `part`, and the    *)
(* others stay as they begin. The instances differ in their courses and    *)
(* bounds. e4 and d4 are White's moves, e5, d5 and c5 Black's.             *)
(***************************************************************************)
EXTENDS VariationTree

CONSTANTS e4, d4, e5, d5, c5, teh, recieve, None

\* Saved courses, as documentForStorage writes them: numbered in PGN order,
\* with the hints that are shown.
M(id, parent, move, hint) == [Node(id, parent, move) EXCEPT !.hint = hint]
Tree(i, nodes) == [id |-> i, nodes |-> nodes, start |-> <<>>, archived |-> FALSE]
Inheriting(chapter, path, hint) ==
  [chapter |-> chapter, path |-> path, value |-> hint, mode |-> "inherited"]
Own(chapter, path, hint) == [chapter |-> chapter, path |-> path, value |-> hint, mode |-> "own"]
Course(side, origins, trees) ==
  [side |-> side, origins |-> origins, chapters |-> [i \in DOMAIN trees |-> Tree(i, trees[i])]]

\* One chapter with both kinds of variations, hinted; a second chapter that
\* shares the hint of the first; two lines that transpose, one with a blank of
\* its own; two chapters without hints, and a file with one move.
Branching == Course("white", {},
  <<<<M(1, 0, e4, 1), M(2, 1, e5, 0), M(3, 2, d4, 2), M(4, 1, d5, 0), M(5, 0, d4, 0)>>>>)
Sharing == Course("white", {Inheriting(2, <<e4>>, 1)},
  <<<<M(1, 0, e4, 1), M(2, 1, e5, 0)>>, <<M(1, 0, e4, 1), M(2, 0, d4, 0)>>>>)
Transposing == Course("black", {Own(1, <<d4, e5, e4, d5>>, 0)},
  <<<<M(1, 0, e4, 0), M(2, 1, e5, 0), M(3, 2, d4, 0), M(4, 3, d5, 1),
      M(5, 0, d4, 0), M(6, 5, e5, 0), M(7, 6, e4, 0), M(8, 7, d5, 0)>>>>)
TwoPlain == Course("white", {}, <<<<M(1, 0, e4, 0)>>, <<M(1, 0, d4, 0)>>>>)
OneMove == <<M(1, 0, e4, 0)>>

\* The course in the flat view: one answer to each of three replies.
Fork ==
  <<Node(1, 0, e4), Node(2, 1, e5), Node(3, 2, d4), Node(4, 1, d5), Node(5, 4, d4),
    Node(6, 1, c5), Node(7, 6, d4)>>
Pasted == {<<>>, <<Node(1, 0, e4), Node(2, 1, d5), Node(3, 2, d4)>>}

\* Chapters for the board.
Straight == <<Node(1, 0, e4), Node(2, 1, e5)>>
Forked == <<Node(1, 0, e4), Node(2, 1, e5), Node(3, 1, d5)>>
Wrong == <<Node(1, 0, e4), Node(2, 0, d4), Node(3, 2, e5)>>

\* Courses of the preview: two chapters; a chapter without positions; one
\* whose answer was changed; none at all.
Ask(line, answer) == [line |-> line, answer |-> answer]
Lessons == <<<<Ask("start", e4), Ask("later", d4), Ask("last", e4)>>, <<Ask("other", d4)>>>>
Shorter == <<<<Ask("start", e4)>>, <<>>>>
Changed == <<<<Ask("start", d4), Ask("later", d4)>>>>

\* Courses of the chapter page, one with chapters that are out of date, and
\* files of them.
Places(order) == {[id |-> i, order |-> order[i]] : i \in DOMAIN order}
Part(id, starts) == [id |-> id, ids |-> starts]
Sicilian == [id |-> "sicilian", positions |-> Places(<<2, 1, 3, 3, 5>>), chapters |-> None]
French ==
  [id |-> "french", positions |-> Places(<<1, 2, 3>>),
   chapters |-> <<Part(4, <<1>>), Part(2, <<3, 7>>)>>]
Dutch ==
  [id |-> "french", positions |-> Places(<<1, 2, 3, 4>>), chapters |-> <<Part(2, <<1, 2, 3, 4>>)>>]
Blank == [id |-> "blank", positions |-> {}, chapters |-> None]
Manifests ==
  {[packID |-> "sicilian", chapters |-> <<Part(1, <<2>>), Part(5, <<1, 3>>), Part(3, <<4, 5>>)>>],
   [packID |-> "french", chapters |-> <<Part(3, <<1>>), Part(1, <<2>>), Part(2, <<3>>)>>],
   [packID |-> "french", chapters |-> <<Part(1, <<2, 1, 3>>)>>]}

VARIABLES
  part,  \* the instance whose behaviour this is
  current, stored, edits, course, courseUndo, courseRedo,  \* CourseDocument
  flat, flatUndo, flatRedo, flatSteps,  \* ChapterDrafts
  pack, chapters, original, dragged, adding, chosen, loads, download,  \* ChapterEditor
  reset, mine, chapterSteps,
  board, boardSteps,  \* StudioBoard
  page, lessons, lessonSteps,  \* LearnerPreview
  asks, dictionary, confirmed, checks, checkSteps  \* StudioChecks

courseVars == <<current, stored, edits, course, courseUndo, courseRedo>>
flatVars == <<flat, flatUndo, flatRedo, flatSteps>>
chapterVars == <<pack, chapters, original, dragged, adding, chosen, loads, download,
  reset, mine, chapterSteps>>
boardVars == <<board, boardSteps>>
lessonVars == <<page, lessons, lessonSteps>>
checkVars == <<asks, dictionary, confirmed, checks, checkSteps>>
vars == <<part, courseVars, flatVars, chapterVars, boardVars, lessonVars, checkVars>>

Variations ==
  INSTANCE CourseDocument WITH
    FirstMoves <- {e4, d4}, SecondMoves <- {e5, d5}, Hints <- {1},
    Imports <- {}, MaxEdits <- 2, MaxNodes <- 6, MaxPly <- 4,
    MaxChapters <- 1, UndoDepth <- 1, Courses <- {Branching}, doc <- course,
    undo <- courseUndo, redo <- courseRedo

TwoChapters ==
  INSTANCE CourseDocument WITH
    FirstMoves <- {e4, d4}, SecondMoves <- {e5, d5}, Hints <- {},
    Imports <- {OneMove}, MaxEdits <- 2, MaxNodes <- 3, MaxPly <- 2,
    MaxChapters <- 3, UndoDepth <- 0, Courses <- {TwoPlain}, doc <- course,
    undo <- courseUndo, redo <- courseRedo

Shared ==
  INSTANCE CourseDocument WITH
    FirstMoves <- {e4, d4}, SecondMoves <- {e5, d5}, Hints <- {1, 2},
    Imports <- {}, MaxEdits <- 3, MaxNodes <- 2, MaxPly <- 2,
    MaxChapters <- 2, UndoDepth <- 0, Courses <- {Sharing}, doc <- course,
    undo <- courseUndo, redo <- courseRedo

Transposed ==
  INSTANCE CourseDocument WITH
    FirstMoves <- {e4, d4}, SecondMoves <- {e5, d5}, Hints <- {1, 2},
    Imports <- {}, MaxEdits <- 1, MaxNodes <- 8, MaxPly <- 4,
    MaxChapters <- 1, UndoDepth <- 0, Courses <- {Transposing}, doc <- course,
    undo <- courseUndo, redo <- courseRedo

Flat ==
  INSTANCE ChapterDrafts WITH
    FirstMoves <- {e4, d4}, SecondMoves <- {e5, d5, c5}, Sources <- {Fork},
    Files <- Pasted, Target <- 2, MaxSteps <- 3, MaxNodes <- 8, MaxPly <- 3,
    UndoDepth <- 1, doc <- flat, undo <- flatUndo, redo <- flatRedo,
    steps <- flatSteps

Division ==
  INSTANCE ChapterEditor WITH
    Courses <- [sicilian |-> Sicilian, french |-> French],
    First <- "sicilian", PackFiles <- {Dutch, Blank}, Target <- 2,
    MaxSteps <- 4, steps <- chapterSteps

Follow ==
  INSTANCE StudioBoard WITH
    FirstMoves <- {e4, d4}, SecondMoves <- {e5, d5}, MaxNodes <- 4,
    MaxPly <- 3, UndoDepth <- 1, Stages <- 2, MaxClicks <- 3, MaxEdits <- 1,
    MaxQuiet <- 0, MaxFlips <- 0, MaxSaves <- 0, MaxFaults <- 1,
    Trees <- {<<Forked>>}, tab <- board, steps <- boardSteps

Suggest ==
  INSTANCE StudioBoard WITH
    FirstMoves <- {e4, d4}, SecondMoves <- {e5, d5}, MaxNodes <- 4,
    MaxPly <- 3, UndoDepth <- 1, Stages <- 2, MaxClicks <- 3, MaxEdits <- 2,
    MaxQuiet <- 0, MaxFlips <- 0, MaxSaves <- 0, MaxFaults <- 0,
    Trees <- {<<Straight, Wrong>>}, tab <- board, steps <- boardSteps

Record ==
  INSTANCE StudioBoard WITH
    FirstMoves <- {e4, d4}, SecondMoves <- {e5, d5}, MaxNodes <- 4,
    MaxPly <- 3, UndoDepth <- 1, Stages <- 2, MaxClicks <- 3, MaxEdits <- 1,
    MaxQuiet <- 1, MaxFlips <- 1, MaxSaves <- 1, MaxFaults <- 1,
    Trees <- {<<Straight, Wrong>>}, tab <- board, steps <- boardSteps

Edited ==
  INSTANCE LearnerPreview WITH
    Docs <- {Lessons, Shorter, Changed, <<<<>>>>}, Moves <- {e4, d4},
    MaxClicks <- 5, MaxEdits <- 2, MaxFaults <- 1, doc <- lessons,
    steps <- lessonSteps

Lesson ==
  INSTANCE LearnerPreview WITH
    Docs <- {Lessons}, Moves <- {e4, d4}, MaxClicks <- 8, MaxEdits <- 0,
    MaxFaults <- 1, doc <- lessons, steps <- lessonSteps

Coverage ==
  INSTANCE StudioChecks WITH
    Chapters <- {"A", "B"}, Words <- {teh}, Replies <- {e5}, MaxRuns <- 2,
    MaxEdits <- 2, MaxAdds <- 0, MaxSaves <- 0, MaxFaults <- 1, tab <- checks,
    steps <- checkSteps

WordChecks ==
  INSTANCE StudioChecks WITH
    Chapters <- {"A"}, Words <- {teh, recieve}, Replies <- {}, MaxRuns <- 2,
    MaxEdits <- 1, MaxAdds <- 2, MaxSaves <- 1, MaxFaults <- 1, tab <- checks,
    steps <- checkSteps

-----------------------------------------------------------------------------
Init ==
  /\ part \in {"tree", "chapters", "sharing", "transposed", "flat", "division",
             "follow", "panel", "recording", "edited", "learner", "replies",
             "words"}
  /\ CASE part = "chapters" -> TwoChapters!Init
       [] part = "sharing" -> Shared!Init
       [] part = "transposed" -> Transposed!Init
       [] OTHER -> Variations!Init
  /\ Flat!Init
  /\ Division!Init
  /\ CASE part = "panel" -> Suggest!Init
       [] part = "recording" -> Record!Init
       [] OTHER -> Follow!Init
  /\ CASE part = "learner" -> Lesson!Init
       [] part = "edited" -> Edited!Init
       [] OTHER -> Lesson!Init
  /\ CASE part = "words" -> WordChecks!Init
       [] part = "replies" -> Coverage!Init
       [] OTHER -> checks = None /\ asks = {} /\ dictionary = {} /\ confirmed = {} /\ checkSteps = 0

Next ==
  \/ /\ part = "tree" /\ Variations!Next
     /\ UNCHANGED <<part, flatVars, chapterVars, boardVars, lessonVars, checkVars>>
  \/ /\ part = "chapters" /\ TwoChapters!Next
     /\ UNCHANGED <<part, flatVars, chapterVars, boardVars, lessonVars, checkVars>>
  \/ /\ part = "sharing" /\ Shared!Next
     /\ UNCHANGED <<part, flatVars, chapterVars, boardVars, lessonVars, checkVars>>
  \/ /\ part = "transposed" /\ Transposed!Next
     /\ UNCHANGED <<part, flatVars, chapterVars, boardVars, lessonVars, checkVars>>
  \/ /\ part = "flat" /\ Flat!Next
     /\ UNCHANGED <<part, courseVars, chapterVars, boardVars, lessonVars, checkVars>>
  \/ /\ part = "division" /\ Division!Next
     /\ UNCHANGED <<part, courseVars, flatVars, boardVars, lessonVars, checkVars>>
  \/ /\ part = "follow" /\ Follow!Next
     /\ UNCHANGED <<part, courseVars, flatVars, chapterVars, lessonVars, checkVars>>
  \/ /\ part = "panel" /\ Suggest!Next
     /\ UNCHANGED <<part, courseVars, flatVars, chapterVars, lessonVars, checkVars>>
  \/ /\ part = "recording" /\ Record!Next
     /\ UNCHANGED <<part, courseVars, flatVars, chapterVars, lessonVars, checkVars>>
  \/ /\ part = "edited" /\ Edited!Next
     /\ UNCHANGED <<part, courseVars, flatVars, chapterVars, boardVars, checkVars>>
  \/ /\ part = "learner" /\ Lesson!Next
     /\ UNCHANGED <<part, courseVars, flatVars, chapterVars, boardVars, checkVars>>
  \/ /\ part = "replies" /\ Coverage!Next
     /\ UNCHANGED <<part, courseVars, flatVars, chapterVars, boardVars, lessonVars>>
  \/ /\ part = "words" /\ WordChecks!Next
     /\ UNCHANGED <<part, courseVars, flatVars, chapterVars, boardVars, lessonVars>>

Spec == Init /\ [][Next]_vars

-----------------------------------------------------------------------------
\* The course tree (studio-document.mjs): every chapter's tree is a tree, the
\* selected move exists in the chapter that is open, and the board never
\* rests on a move the learner's view leaves out, also after the side or the
\* order of variations changed (setEffectivePosition); what the editor shows
\* is what its chapter holds, so nothing edited is lost when another chapter
\* is opened (syncActiveChapter).
DocumentSound ==
  /\ part = "tree" => Variations!TypeOK /\ Variations!CurrentVisible
  /\ part = "chapters" => TwoChapters!Synced

\* A course that is saved and opened again trains the same positions with the
\* same answers and hints in the same order: PGN and origin records lose
\* nothing of it, and saving it once more writes the same; a flat course has
\* the chapters it had, though its nodes are numbered anew
\* (hydrateRestoredDocument).
ReopenedIsSaved ==
  /\ part = "sharing" => Shared!ReloadKeepsTraining /\ Shared!SaveStable
  /\ part = "transposed" => Transposed!ReloadKeepsTraining
  /\ part = "flat" => Flat!TypeOK /\ Flat!ReopenKeepsChapters

\* Writing or removing a hint shows at the move it was written at, and at the
\* moves that share it, own or inherited (updateHint).
EditTakesEffect ==
  /\ part = "sharing" => Shared!EditTakesEffect
  /\ part = "transposed" => Transposed!EditTakesEffect

\* An edit changes the moves of the chapter that is open and of no other,
\* whichever chapter it leaves open (activateChapter); a hint of its own
\* stays what it is when hints are edited elsewhere; and when the last author
\* of a hint is gone, no copy of an earlier save brings it back
\* (clearDetachedHintFallbacks).
EditsStayLocal ==
  [][/\ part = "chapters" => TwoChapters!OnlyActiveTreeChangesStep
     /\ part = "sharing" => Shared!OwnKeptStep /\ Shared!RemovedHintGoneStep]_vars

\* Whatever is loaded, imported, dragged and removed on the chapter page
\* (chapters.js), the chapters, and those Reset goes back to, divide the
\* positions of the course in learning order; boundaries stand as near to the
\* wanted place as their neighbours allow; dragging one leaves the chapters
\* beyond its two neighbours, and every id, alone; adding and removing a
\* chapter leaves no trace. In a flat course an edit of the moves never
\* throws the author's division away for a balanced one
\* (reconcileChapterDrafts), and moving, adding and deleting chapters leaves
\* every position in one of them (moveChapterBoundary).
DivisionsSound ==
  /\ [](part = "division" => Division!TypeOK /\ Division!AlwaysValid /\ Division!OperationsSound)
  /\ [][/\ part = "flat" => Flat!DraftsFitStep /\ Flat!OrderKeptStep
        /\ part = "division" => Division!NeighboursOnlyStep]_vars

\* The board shows the author's node as soon as no position is asked for,
\* unless asking failed: the last request wins (requestToken); the evaluation
\* bar, the suggestions that can be accepted, the Maia panel while it is
\* open, and the recording arrows are of that node and of no node he has
\* left, through navigation, undo and late answers.
BoardCurrent ==
  /\ part = "follow" => Follow!BoardFollows /\ Follow!EvaluationCurrent
  /\ part = "panel" => Suggest!SuggestionsCurrent /\ Suggest!PanelUpdates
  /\ part = "recording" => Record!TypeOK /\ Record!ArrowsCurrent

\* Once nothing is asked, the preview's board and card show the position it
\* is at, through edits, undo and other chapters (renderPreview); an answer
\* shown was given to that position, and is called right only when it is the
\* author's (attemptPreviewMove).
PreviewCurrent ==
  /\ part = "edited" => Edited!TypeOK /\ Edited!PreviewFollows
  /\ part = "learner" => Lesson!AnswersAreOfThis

\* A check that is shown is of the document, the chapter and the edit it is
\* shown beside, also after undo (diagnosticIsCurrent); a reply the author
\* omits deliberately is not shown as missing again (runGapCheck); a button
\* says "Checking..." exactly while its check is under way (setBusy); and a
\* check by button knows every word that had been added when it was begun
\* (refreshIgnoredWords).
ChecksCurrent ==
  /\ [](/\ part = "replies" => Coverage!TypeOK /\ Coverage!ResultsCurrent /\ Coverage!OmittedStay
        /\ part = "words" => WordChecks!BusyWhileChecking)
  /\ [][part = "words" => WordChecks!ReadWordsPassStep]_vars

\* studio-shared-hints.mjs:114: "Do not revive a generated fallback": a saved
\* copy of a hint is shown only while its author is in the course.  Archiving
\* a chapter, removing the hint it shares and restoring it breaks this.
NoRevivedHints == part = "sharing" => Shared!NoRevivedHints
=============================================================================
