----------------------------- MODULE StudioBoard -----------------------------
(***************************************************************************)
(* The board of the Studio tab: the node the author is at, the position    *)
(* the server answered for it, the engine's progressive evaluation, the    *)
(* Maia panel of the editor and the Maia arrows of the Recording view.     *)
(* Four kinds of requests are under way at once, each guarded by a token   *)
(* or an abort signal of its own.  The asynchronous parts of studio.js and *)
(* studio-engine.mjs.                                                      *)
(*                                                                         *)
(* A move is legal when its side is to move and it has not been played.    *)
(* Requests whose answer nobody waits for are left out; of superseded      *)
(* position requests only their number is kept, for their failures show.   *)
(* The author takes at most MaxClicks steps that leave the document alone, *)
(* MaxEdits that edit the tree or its history, MaxQuiet edits after which  *)
(* no position is asked for, MaxFlips and MaxSaves; MaxFaults requests     *)
(* fail.                                                                   *)
(***************************************************************************)
EXTENDS VariationTree

CONSTANTS FirstMoves, SecondMoves, MaxNodes, MaxPly, UndoDepth,
          Trees,    \* the courses the author may open: a tree for every chapter
          Stages,   \* engine requests for one position, each deeper
          None,
          MaxClicks, MaxEdits, MaxQuiet, MaxFlips, MaxSaves, MaxFaults

\* Stages is at least 1.

VARIABLES tab,      \* the page's state
          steps     \* what the author and the network have done so far
vars == <<tab, steps>>

Views == {"editor", "recording", "other"}
Kinds == {"clicks", "edits", "quiet", "flips", "saves", "faults"}
Most == [clicks |-> MaxClicks, edits |-> MaxEdits, quiet |-> MaxQuiet,
         flips |-> MaxFlips, saves |-> MaxSaves, faults |-> MaxFaults]

Legal(line) == (IF Len(line) % 2 = 0 THEN FirstMoves ELSE SecondMoves) \ ToSet(line)
Nodes(d) == d.trees[d.active]

\* movesToNode: an id that is no node stands for the start.
LineOf(d, id) == IF id \in Ids(Nodes(d)) THEN MovesToNode(Nodes(d), id) ELSE <<>>
Here(t) == LineOf(t.doc, t.current)
Depth(d, id) == IF id \in Ids(Nodes(d)) THEN WrongBranchDepth(Nodes(d), d.side, id) ELSE -1
Stands(t) == t.current \in {0} \cup Ids(Nodes(t.doc))
Replies(t) == IF Stands(t) THEN VisibleChildren(Nodes(t.doc), t.doc.side, t.current) ELSE <<>>

Init ==
  /\ \E trees \in Trees :
       tab = [doc |-> [side |-> "white", active |-> 1, trees |-> trees, archived |-> {}], current |-> 0,
              undo |-> <<>>, redo |-> <<>>, view |-> "editor",
              shown |-> <<>>, asking |-> None, stale |-> 0, status |-> "",
              engine |-> FALSE, evaluation |-> None, job |-> None,
              maia |-> FALSE, panel |-> "blank", moves |-> None, maiaJob |-> None,
              recording |-> FALSE, arrows |-> None, arrowsJob |-> None,
              choice |-> <<>>]
  /\ steps = [k \in Kinds |-> 0]

-----------------------------------------------------------------------------
(* Parts of the handlers.                                                  *)

CancelEngine(t) == [t EXCEPT !.job = None]

QueueEditorEngineAnalysis(t) ==
  IF ~t.engine \/ t.view # "editor" THEN t
  ELSE IF Legal(t.shown) = {} THEN [t EXCEPT !.job = None, !.evaluation = None]
  ELSE [t EXCEPT !.job = [line |-> Here(t), stage |-> 0]]

\* A bug of Outdate: the buttons go on accepting.
OutdateAnswer(t) == [t EXCEPT !.maiaJob = None]

\* analysisToken and stopEditorMaia: the answer under way is not used, and
\* the buttons shown do not accept.
Outdate(t) == [t EXCEPT !.maiaJob = None, !.moves = None]

\* A bug of QueueEditorMaiaAnalysis: a question that shows is not asked again.
QueueEditorMaiaOnce(t) ==
  IF ~t.maia \/ t.view # "editor" \/ t.panel = "considering" THEN t
  ELSE [Outdate(t) EXCEPT !.maiaJob = Here(t), !.panel = "considering"]

QueueEditorMaiaAnalysis(t) ==
  IF ~t.maia \/ t.view # "editor" THEN t
  ELSE [Outdate(t) EXCEPT !.maiaJob = Here(t), !.panel = "considering"]

\* A bug of ClearRecordingMaia: what has been drawn stays.
ClearRecordingAnswer(t) == [t EXCEPT !.arrowsJob = None]
ClearRecordingMaia(t) == [t EXCEPT !.arrows = None, !.arrowsJob = None]

QueueRecordingMaia(t) ==
  IF ~t.recording \/ t.view # "recording" THEN t
  ELSE [t EXCEPT !.arrows = None, !.arrowsJob = [line |-> Here(t), live |-> TRUE]]

\* renderRecording asks when nothing is shown and nothing asked.
RenderRecording(t) ==
  IF t.arrowsJob = None /\ t.arrows = None THEN QueueRecordingMaia(t) ELSE t

InvalidateDiagnostics(t) == [ClearRecordingMaia(Outdate(t)) EXCEPT !.panel = "blank"]

\* The last node on the way to id that is not behind a wrong answer's reply.
Allowed(d, id) ==
  LET depth == Depth(d, id)
      path == PathToNode(Nodes(d), id)
  IN  IF depth > 1 THEN path[Len(path) - (depth - 1)] ELSE id

\* recordingPositionKey.
RecordingKey(d, id) == <<d.active, LineOf(d, id)>>

\* A bug of SetEffectivePosition: the arrows stay on.
SetEffectivePositionOnly(t, d, id) == [t EXCEPT !.doc = d, !.current = Allowed(d, id)]

\* setEffectivePosition with disableRecordingMaiaForPositionChange.
SetEffectivePosition(t, d, id) ==
  LET there == Allowed(d, id)
      moved == RecordingKey(d, there) # RecordingKey(t.doc, t.current)
      left == IF moved THEN [ClearRecordingMaia(t) EXCEPT !.recording = FALSE] ELSE t
  IN  [left EXCEPT !.doc = d, !.current = there]

\* Bugs of RefreshPosition: the evaluation or Maia's moves of the old
\* position stay.
RefreshPositionEvaluated(t) ==
  LET asked == [t EXCEPT !.asking = Here(t), !.stale = @ + (IF t.asking = None THEN 0 ELSE 1)]
  IN  IF t.maia THEN [asked EXCEPT !.maiaJob = None, !.panel = "considering", !.moves = None] ELSE asked
RefreshPositionUnasked(t) ==
  IF t.asking = None THEN [t EXCEPT !.asking = Here(t)] ELSE t

\* refreshPosition up to its request.
RefreshPosition(t) ==
  LET asked == [t EXCEPT !.asking = Here(t), !.stale = @ + (IF t.asking = None THEN 0 ELSE 1)]
      unevaluated == IF t.engine THEN [asked EXCEPT !.job = None, !.evaluation = None] ELSE asked
  IN  IF t.maia THEN [unevaluated EXCEPT !.maiaJob = None, !.panel = "considering", !.moves = None]
      ELSE unevaluated

CloseChoice(t) == [t EXCEPT !.choice = <<>>]

\* navigate.
NavigateTo(t, id) ==
  IF Depth(t.doc, id) > 1 THEN t
  ELSE IF id = t.current THEN CloseChoice(t)
  ELSE RefreshPosition(Outdate(SetEffectivePosition(CloseChoice(t), t.doc, id)))

\* commit: an edit that changes nothing only moves.
Commit(t, d, id) ==
  IF d = t.doc THEN
    IF id = t.current THEN t ELSE RenderRecording(SetEffectivePosition(t, d, id))
  ELSE LET next == SetEffectivePosition(InvalidateDiagnostics(t), d, id)
           undo == Append(t.undo, t.doc)
       IN  RenderRecording([next EXCEPT !.redo = <<>>,
             !.undo = IF Len(undo) > UndoDepth THEN Tail(undo) ELSE undo])

\* switchView.
Switch(t, v) ==
  LET there == [CloseChoice(t) EXCEPT !.view = v]
  IN  IF v = "editor" THEN QueueEditorMaiaAnalysis(QueueEditorEngineAnalysis(there))
      ELSE IF v = "recording" THEN RenderRecording([CancelEngine(there) EXCEPT !.maiaJob = None])
      ELSE [CancelEngine(there) EXCEPT !.maiaJob = None]

Step(kind) ==
  /\ steps[kind] < Most[kind]
  /\ steps' = [steps EXCEPT ![kind] = @ + 1]

-----------------------------------------------------------------------------
(* The author looks around.                                                *)

Navigate ==
  /\ Step("clicks")
  /\ tab.view \in {"editor", "recording"}
  /\ \E id \in ({0} \cup Ids(Nodes(tab.doc))) \ {tab.current} : tab' = NavigateTo(tab, id)

\* advanceEditor, advanceRecording: several replies open a menu.
Advance ==
  /\ Step("clicks")
  /\ tab.view \in {"editor", "recording"} /\ Replies(tab) # <<>>
  /\ tab' = IF Len(Replies(tab)) = 1 THEN NavigateTo(tab, Replies(tab)[1].id)
            ELSE [tab EXCEPT !.choice = Replies(tab)]

\* confirmEditorChoice, confirmRecordingChoice.
ConfirmChoice ==
  /\ Step("clicks")
  /\ \E i \in DOMAIN tab.choice : tab' = NavigateTo(CloseChoice(tab), tab.choice[i].id)

SwitchView ==
  /\ Step("clicks")
  /\ \E v \in Views \ {tab.view} : tab' = Switch(tab, v)

SelectIndependentChapter ==
  /\ Step("clicks")
  /\ \E c \in DOMAIN tab.doc.trees :
       LET there == SetEffectivePosition(InvalidateDiagnostics(CloseChoice(tab)),
                                         [tab.doc EXCEPT !.active = c], 0)
       IN  tab' = Switch(RefreshPosition(RenderRecording(CancelEngine(there))), "editor")

ToggleEditorEngine ==
  /\ Step("clicks")
  /\ tab.view = "editor"
  /\ tab' = QueueEditorEngineAnalysis([tab EXCEPT !.engine = ~@, !.evaluation = None, !.job = None])

\* toggleEditorPanel for Maia.
ToggleMaia ==
  /\ Step("clicks")
  /\ tab.view = "editor"
  /\ LET toggled == [Outdate(tab) EXCEPT !.maia = ~@]
     IN  tab' = IF toggled.maia THEN QueueEditorMaiaAnalysis(toggled) ELSE [toggled EXCEPT !.panel = "blank"]

ToggleRecordingMaia ==
  /\ Step("clicks")
  /\ tab.view = "recording"
  /\ tab' = RenderRecording(ClearRecordingMaia([tab EXCEPT !.recording = ~@]))

\* flip-board draws the preview too, which takes a new analysisToken.
FlipBoard ==
  /\ Step("flips")
  /\ tab.view = "editor"
  /\ \E c \in DOMAIN tab.doc.trees : TrainedPositions(tab.doc.trees[c], tab.doc.side) # <<>>
  /\ tab' = Outdate(tab)

-----------------------------------------------------------------------------
(* The author edits.                                                       *)

\* The limit on wrong answers' lines, and the tree with the move; <<>> when
\* it is refused.
Extended(t, move) ==
  LET nodes == Nodes(t.doc)
      depth == Depth(t.doc, t.current)
  IN  IF depth >= 1 \/ (depth = 0 /\ Replies(t) # <<>> /\ Replies(t)[1].move # move) THEN <<>>
      ELSE AddMove(nodes, t.current, move)

Play(t, move) ==
  LET nodes == Extended(t, move)
  IN  RefreshPosition(Commit(t, [t.doc EXCEPT !.trees[t.doc.active] = nodes], MoveID(nodes, t.current, move)))

\* Moves from a node that is gone are left out.
Playable(t, move) ==
  /\ Stands(t)
  /\ Extended(t, move) # <<>> /\ Len(Extended(t, move)) <= MaxNodes
  /\ Len(Here(t)) < MaxPly

\* boardSquare, tryBoardMove, chooseBoardMove: the moves are those of the
\* position on the board, the node is the current one.
ChooseBoardMove ==
  /\ Step("edits")
  /\ tab.view = "editor"
  /\ \E move \in Legal(tab.shown) : Playable(tab, move) /\ tab' = Play(tab, move)

\* bindSuggestedMoves: a suggested move is shown or added.
AcceptSuggestion ==
  /\ Step("edits")
  /\ tab.view = "editor" /\ tab.panel = "moves" /\ tab.moves = Here(tab)
  /\ \E move \in Legal(tab.moves) : Playable(tab, move) /\ tab' = Play(tab, move)

DeleteLine ==
  /\ Step("edits")
  /\ tab.view = "editor" /\ tab.current \in Ids(Nodes(tab.doc))
  /\ LET nodes == Nodes(tab.doc)
     IN  tab' = RefreshPosition(Commit(tab, [tab.doc EXCEPT !.trees[tab.doc.active] = RemoveBranch(nodes, tab.current)],
                                       NodeByID(nodes, tab.current).parent))

\* undo and redo keep the node when the other document has one of its id.
Replaced(t, d) ==
  RefreshPosition(RenderRecording(SetEffectivePosition(InvalidateDiagnostics(t), d,
    IF t.current \in Ids(Nodes(d)) THEN t.current ELSE 0)))
Undo ==
  /\ Step("edits")
  /\ tab.undo # <<>>
  /\ tab' = Replaced([tab EXCEPT !.undo = Front(@), !.redo = Append(@, tab.doc)], Last(tab.undo))
Redo ==
  /\ Step("edits")
  /\ tab.redo # <<>>
  /\ tab' = Replaced([tab EXCEPT !.redo = Front(@), !.undo = Append(@, tab.doc)], Last(tab.redo))

-----------------------------------------------------------------------------
(* Edits that ask for no position.                                         *)

\* Make main, move earlier, move later.
Rearrange ==
  /\ Step("quiet")
  /\ tab.view = "editor" /\ tab.current \in Ids(Nodes(tab.doc))
  /\ \E nodes \in {PromoteVariation(Nodes(tab.doc), tab.current),
                   ReorderVariation(Nodes(tab.doc), tab.current, -1),
                   ReorderVariation(Nodes(tab.doc), tab.current, 1)} \ {Nodes(tab.doc)} :
       tab' = Commit(tab, [tab.doc EXCEPT !.trees[tab.doc.active] = nodes], tab.current)

\* The side of the course: another side, other wrong answers.
ChangeSide ==
  /\ Step("quiet")
  /\ tab.view = "other"
  /\ \E side \in {"white", "black"} \ {tab.doc.side} :
       tab' = Commit(tab, [tab.doc EXCEPT !.side = side], tab.current)

ToggleChapterArchive ==
  /\ Step("quiet")
  /\ tab.view = "other"
  /\ \E c \in DOMAIN tab.doc.trees :
       LET archived == IF c \in tab.doc.archived THEN tab.doc.archived \ {c} ELSE tab.doc.archived \cup {c}
       IN  /\ archived # DOMAIN tab.doc.trees
           /\ tab' = Commit(tab, [tab.doc EXCEPT !.archived = archived], 0)

\* A save takes over a new revision: the answers under way are of the old one.
Save ==
  /\ Step("saves")
  /\ tab' = [tab EXCEPT !.maiaJob = None,
                        !.arrowsJob = IF @ = None THEN None ELSE [@ EXCEPT !.live = FALSE]]

-----------------------------------------------------------------------------
(* Answers.                                                                *)

\* refreshPosition after its request.
PositionAnswered ==
  /\ tab.asking # None
  /\ LET arrived == [tab EXCEPT !.shown = tab.asking, !.asking = None, !.status = ""]
         recorded == IF tab.view = "recording" THEN QueueRecordingMaia(arrived) ELSE arrived
     IN  tab' = QueueEditorMaiaAnalysis(QueueEditorEngineAnalysis(recorded))
  /\ UNCHANGED steps

PositionFailed ==
  /\ Step("faults")
  /\ tab.asking # None
  /\ tab' = [tab EXCEPT !.asking = None, !.status = "error"]

\* Only the answers of older requests are ignored.
StaleAnswered ==
  /\ tab.stale > 0
  /\ tab' = [tab EXCEPT !.stale = @ - 1]
  /\ UNCHANGED steps
StaleFailed ==
  /\ Step("faults")
  /\ tab.stale > 0
  /\ tab' = [tab EXCEPT !.stale = @ - 1, !.status = "error"]

EngineTimer ==
  /\ tab.job # None /\ tab.job.stage = 0
  /\ tab' = [tab EXCEPT !.job.stage = 1]
  /\ UNCHANGED steps

\* The stages of one run: every result replaces the one before.
EngineAnswered ==
  /\ tab.job # None /\ tab.job.stage > 0
  /\ tab' = [tab EXCEPT !.evaluation = tab.job.line,
                        !.job = IF tab.job.stage = Stages THEN None ELSE [tab.job EXCEPT !.stage = @ + 1]]
  /\ UNCHANGED steps
EngineFailed ==
  /\ Step("faults")
  /\ tab.job # None /\ tab.job.stage > 0
  /\ tab' = [tab EXCEPT !.evaluation = None, !.job = None]

MaiaAnswered ==
  /\ tab.maiaJob # None
  /\ tab' = IF tab.maiaJob = Here(tab)
            THEN [tab EXCEPT !.panel = "moves", !.moves = Here(tab), !.maiaJob = None]
            ELSE [tab EXCEPT !.maiaJob = None]
  /\ UNCHANGED steps
MaiaFailed ==
  /\ Step("faults")
  /\ tab.maiaJob # None
  /\ tab' = [tab EXCEPT !.panel = "failed", !.maiaJob = None]

ArrowsAnswered ==
  /\ tab.arrowsJob # None
  /\ LET current == tab.arrowsJob.live /\ tab.view = "recording" /\ tab.arrowsJob.line = Here(tab)
     IN  tab' = [tab EXCEPT !.arrowsJob = None,
                            !.arrows = IF current /\ Legal(Here(tab)) # {} THEN Here(tab) ELSE @]
  /\ UNCHANGED steps
ArrowsFailed ==
  /\ Step("faults")
  /\ tab.arrowsJob # None
  /\ tab' = [tab EXCEPT !.arrowsJob = None]

-----------------------------------------------------------------------------
Author ==
  \/ Navigate \/ Advance \/ ConfirmChoice \/ SwitchView \/ SelectIndependentChapter
  \/ ToggleEditorEngine \/ ToggleMaia \/ ToggleRecordingMaia \/ FlipBoard
  \/ ChooseBoardMove \/ AcceptSuggestion \/ DeleteLine \/ Undo \/ Redo
  \/ Rearrange \/ ChangeSide \/ ToggleChapterArchive \/ Save
Network == PositionAnswered \/ EngineTimer \/ EngineAnswered \/ MaiaAnswered \/ ArrowsAnswered
Next ==
  \/ Author \/ Network \/ StaleAnswered
  \/ PositionFailed \/ StaleFailed \/ EngineFailed \/ MaiaFailed \/ ArrowsFailed
Spec == Init /\ [][Next]_vars
\* Every request is answered or fails, and the engine's timer rings.
LiveSpec == Spec /\ WF_vars(PositionAnswered) /\ WF_vars(EngineTimer) /\ WF_vars(EngineAnswered)
                 /\ WF_vars(MaiaAnswered) /\ WF_vars(ArrowsAnswered)

-----------------------------------------------------------------------------
(* Properties.                                                             *)

Lines == Seq(FirstMoves \cup SecondMoves)
TypeOK ==
  /\ tab.view \in Views /\ tab.panel \in {"blank", "considering", "moves", "failed"}
  /\ tab.status \in {"", "error"} /\ tab.stale \in Nat
  /\ \A c \in DOMAIN tab.doc.trees : SoundTree(tab.doc.trees[c])
  /\ tab.shown \in Lines
  /\ \A line \in {tab.asking, tab.evaluation, tab.moves, tab.maiaJob, tab.arrows} : line \in Lines \cup {None}
  /\ tab.job # None => tab.engine /\ tab.view = "editor" /\ tab.job.stage \in 0 .. Stages
  /\ tab.arrows # None => tab.recording

\* The board shows the author's node as soon as no position is asked for,
\* unless asking failed: whatever was asked for in between and answered in
\* any order, the last request wins (requestToken).
BoardFollows == tab.asking = None /\ tab.status = "" => tab.shown = Here(tab)

\* The evaluation bar is about the node the author is at, never about one he
\* has left: a run that was replaced shows no more results (the controller's
\* token), and the result before is taken down with the question.
EvaluationCurrent == tab.evaluation # None => tab.engine /\ tab.evaluation = Here(tab)

\* Moves Maia suggests in the editor and still accepts are moves of the node
\* the author is at.
SuggestionsCurrent == tab.moves # None => tab.panel = "moves" /\ tab.moves = Here(tab)

\* Recording shows Maia's arrows only for the node the author is at, through
\* navigation, undo, edits and late answers.
ArrowsCurrent == tab.arrows # None => tab.arrows = Here(tab)

\* The arrows are drawn on the position they are about.
ArrowsMatchBoard == tab.arrows # None /\ tab.view = "recording" => tab.arrows = tab.shown

\* Every move of every chapter is legal after the moves before it.
LegalTree ==
  \A c \in DOMAIN tab.doc.trees :
    LET nodes == tab.doc.trees[c]
    IN  \A id \in Ids(nodes) : Last(MovesToNode(nodes, id)) \in Legal(Front(MovesToNode(nodes, id)))

\* Recording's menu of continuations offers those of the node the author is at.
ChoiceLocal == tab.choice # <<>> /\ tab.view = "recording" => ToSet(tab.choice) = ToSet(Replies(tab))

\* While the Maia panel is open it shows moves that can be accepted, or a
\* failure, or what it waits for is under way.
PanelUpdates ==
  tab.maia /\ tab.view = "editor" /\ tab.panel # "failed"
    => tab.moves # None \/ tab.maiaJob # None \/ tab.asking # None \/ tab.status = "error"

\* However the author hurries through the tree, the board and the open
\* panels catch up with him when he rests, if nothing fails.
CatchesUp ==
  []<>(/\ tab.shown = Here(tab)
       /\ tab.engine /\ tab.view = "editor" /\ Legal(Here(tab)) # {} => tab.evaluation = Here(tab)
       /\ tab.maia /\ tab.view = "editor" => tab.moves = Here(tab))
=============================================================================
