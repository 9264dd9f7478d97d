---------------------------- MODULE ChapterDrafts ----------------------------
(***************************************************************************)
(* The chapters of a course that is one PGN: its training positions in     *)
(* learning order, divided by drafts that name the node a chapter starts   *)
(* after.  Edits of the moves change the positions under the division.     *)
(* The rest of studio-document.mjs and the Chapters view of studio.js.     *)
(*                                                                         *)
(* A draft is its id and the position it starts at; the root is position   *)
(* 0 and the first chapter starts at None.  Names of chapters, hints and   *)
(* comments are left out.  Indices count from 1.  The author takes at most *)
(* MaxSteps steps, on at most MaxNodes moves, MaxPly deep.                 *)
(***************************************************************************)
EXTENDS VariationTree

CONSTANTS FirstMoves, SecondMoves, None,
          Sources,      \* the trees of the courses he may open
          Files,        \* the trees of PGN he may paste
          Target,       \* positions per chapter of a balanced draft (24)
          MaxSteps, MaxNodes, MaxPly, UndoDepth

\* Target is at least 1.

VARIABLES doc, undo, redo, steps
vars == <<doc, undo, redo, steps>>

Draft(id, start) == [id |-> id, start |-> start]
Trained(d) == TrainedPositions(d.nodes, d.side)
Place(s, x) == CHOOSE i \in DOMAIN s : s[i] = x

\* Math.round of a / b.
Rounded(a, b) == (2 * a + b) \div (2 * b)
Balanced(positions) ==
  LET count == Max({1, Rounded(Len(positions), Target)})
  IN  [i \in 1 .. count |->
        Draft(i, IF i = 1 THEN None ELSE positions[1 + Rounded((i - 1) * Len(positions), count)])]

Fits(drafts, positions) ==
  /\ drafts # <<>>
  /\ drafts[1].start = None
  /\ \A i \in DOMAIN drafts \ {1} : drafts[i].start \in ToSet(positions)

\* ensureChapters: the author's drafts when they fit the moves.
Ensured(drafts, positions) ==
  IF positions = <<>> THEN <<>> ELSE IF Fits(drafts, positions) THEN drafts ELSE Balanced(positions)
EnsureChapters(d) == Ensured(d.drafts, Trained(d))

\* Where the chapters start.
StartsIn(drafts, positions) == [i \in DOMAIN drafts |-> IF i = 1 THEN 1 ELSE Place(positions, drafts[i].start)]
StartsOf(d) == StartsIn(EnsureChapters(d), Trained(d))

Slices(starts, positions) ==
  LET end(i) == IF i = Len(starts) THEN Len(positions) ELSE starts[i + 1] - 1
  IN  [i \in DOMAIN starts |-> SubSeq(positions, starts[i], end(i))]
ChapterSlices(d) == Slices(StartsOf(d), Trained(d))

-----------------------------------------------------------------------------
(* The drafts follow the moves.                                            *)

\* A draft that starts nowhere, or where one before it does, goes.
Distinct(drafts) ==
  LET kept(i) == i = 1 \/ (drafts[i].start # None /\ \A j \in 2 .. i - 1 : drafts[j].start # drafts[i].start)
  IN  FlattenSeq([i \in DOMAIN drafts |-> IF kept(i) THEN <<drafts[i]>> ELSE <<>>])

\* A bug of ReconcileChapterDrafts: starts that are gone stay in the drafts.
ReconcileGone(before, after) == IF Trained(after) = <<>> THEN <<>> ELSE EnsureChapters(before)

\* reconcileChapterDrafts: a chapter whose start is gone starts at the same
\* place, or at the last.
Reconciled(drafts, old, new) ==
  LET moved(i) == new[Min({Place(old, drafts[i].start), Len(new)})]
      start(i) == IF i = 1 THEN None
                  ELSE IF drafts[i].start \in ToSet(new) THEN drafts[i].start ELSE moved(i)
  IN  IF new = <<>> THEN <<>>
      ELSE Distinct([i \in DOMAIN drafts |-> Draft(drafts[i].id, start(i))])
ReconcileChapterDrafts(before, after) == Reconciled(EnsureChapters(before), Trained(before), Trained(after))

\* structuralDocument.
Structural(d, nodes) ==
  LET next == [d EXCEPT !.nodes = nodes]
  IN  [next EXCEPT !.drafts = ReconcileChapterDrafts(d, next)]

-----------------------------------------------------------------------------
(* Saving and opening.                                                     *)

\* A bug of DocumentForStorage: the first positions are not told apart.
StoredByIndex(d) ==
  LET drafts == EnsureChapters(d)
  IN  [i \in DOMAIN drafts |-> [draft |-> drafts[i], path |-> <<>>, index |-> i]]

\* documentForStorage: a draft goes with the moves before its start.
MovesBefore(nodes, p) == IF p = 0 THEN <<>> ELSE MovesToNode(nodes, p)
Stored(nodes, drafts, starts, positions) ==
  [i \in DOMAIN drafts |->
    [draft |-> drafts[i], path |-> MovesBefore(nodes, positions[starts[i]]), index |-> starts[i]]]
DocumentForStorage(d) == Stored(d.nodes, EnsureChapters(d), StartsOf(d), Trained(d))

\* hydrateRestoredDocument: the PGN was written and read again; a chapter
\* starts at the position of its path, else at its index, else at its node.
RestoredStart(at, positions, s) ==
  IF at # {} THEN CHOOSE p \in at : TRUE
  ELSE IF s.index \in DOMAIN positions THEN positions[s.index] ELSE s.draft.start
RestoredDrafts(nodes, positions, stored) ==
  LET at(path) == {p \in ToSet(positions) : path = MovesBefore(nodes, p)}
  IN  [i \in DOMAIN stored |->
        Draft(stored[i].draft.id, IF i = 1 THEN None ELSE RestoredStart(at(stored[i].path), positions, stored[i]))]
WithDrafts(d, stored) == [d EXCEPT !.drafts = RestoredDrafts(d.nodes, Trained(d), stored)]
HydrateRestored(d, stored) == WithDrafts([d EXCEPT !.nodes = Renumbered(@)], stored)

Reopened(d) == HydrateRestored(d, DocumentForStorage(d))

-----------------------------------------------------------------------------
(* The Chapters view.                                                      *)

\* A bug of MoveChapterBoundary: the chapter may start where the next does.
MoveBoundaryOnto(d, i, to) ==
  LET drafts == EnsureChapters(d)
      starts == StartsOf(d)
      limit == IF i = Len(starts) THEN Len(Trained(d)) ELSE starts[i + 1]
      index == Max({starts[i - 1] + 1, Min({limit, to})})
  IN  IF index > Len(Trained(d)) THEN d
      ELSE [d EXCEPT !.drafts = [drafts EXCEPT ![i].start = Trained(d)[index]]]

\* moveChapterBoundary: the start stays between its neighbours'.  When there
\* is no position there, the handler fails and nothing is changed.
MoveChapterBoundary(d, i, to) ==
  LET drafts == EnsureChapters(d)
      starts == StartsOf(d)
      limit == IF i = Len(starts) THEN Len(Trained(d)) ELSE starts[i + 1] - 1
      index == Max({starts[i - 1] + 1, Min({limit, to})})
  IN  IF index > Len(Trained(d)) THEN d
      ELSE [d EXCEPT !.drafts = [drafts EXCEPT ![i].start = Trained(d)[index]]]

AddChapterBoundary(d, at) ==
  LET drafts == EnsureChapters(d)
      starts == StartsOf(d)
      later == {i \in DOMAIN starts : starts[i] > at}
      used == {drafts[i].id : i \in DOMAIN drafts}
      fresh == Draft(Min((1 .. Len(drafts) + 1) \ used), Trained(d)[at])
  IN  IF at \in ToSet(starts) THEN d
      ELSE [d EXCEPT !.drafts = InsertAt(drafts, IF later = {} THEN Len(drafts) + 1 ELSE Min(later), fresh)]

DeleteChapter(d, i) == [d EXCEPT !.drafts = RemoveAt(EnsureChapters(d), i)]

-----------------------------------------------------------------------------
Init ==
  /\ \E nodes \in Sources : doc = [side |-> "white", nodes |-> nodes, drafts |-> <<>>]
  /\ undo = <<>> /\ redo = <<>> /\ steps = 0

Step == steps < MaxSteps /\ steps' = steps + 1

\* commit: an edit that changes nothing leaves the history alone.
Commit(d) ==
  /\ Step
  /\ d # doc
  /\ doc' = d
  /\ redo' = <<>>
  /\ LET kept == Append(undo, doc)
     IN  undo' = IF Len(kept) > UndoDepth THEN Tail(kept) ELSE kept

Edited(nodes) == Len(nodes) <= MaxNodes /\ nodes # doc.nodes /\ Commit(Structural(doc, nodes))

\* The board and the inspector stop one move behind a wrong answer.
Shown == {id \in Ids(doc.nodes) : WrongBranchDepth(doc.nodes, doc.side, id) <= 1}
Add(p, move) ==
  LET line == IF p = 0 THEN <<>> ELSE MovesToNode(doc.nodes, p)
  IN  /\ WrongBranchDepth(doc.nodes, doc.side, p) < 1
      /\ WrongBranchDepth(doc.nodes, doc.side, p) = 0 => VisibleChildren(doc.nodes, doc.side, p) = <<>>
      /\ Len(line) < MaxPly
      /\ move \in (IF Len(line) % 2 = 0 THEN FirstMoves ELSE SecondMoves) \ ToSet(line)
      /\ Edited(AddMove(doc.nodes, p, move))
Promote(id) == Edited(PromoteVariation(doc.nodes, id))
Reorder(id, direction) == Edited(ReorderVariation(doc.nodes, id, direction))
Cut(id) == Edited(RemoveBranch(doc.nodes, id))

EditTree ==
  \/ \E p \in {0} \cup Shown, move \in FirstMoves \cup SecondMoves : Add(p, move)
  \/ \E id \in Shown : Promote(id)
  \/ \E id \in Shown, direction \in {-1, 1} : Reorder(id, direction)
  \/ \E id \in Shown : Cut(id)

\* The PGN as it is written out: refused when a move comes before its parent.
Exportable == ParentsFirst(doc.nodes)
ApplyRaw(nodes) == Commit(Structural(doc, nodes))
ApplySame == Exportable /\ ApplyRaw(Renumbered(doc.nodes))

\* A new name keeps what has been a proposal.
Rename == Commit([doc EXCEPT !.drafts = EnsureChapters(doc)])
Delete(i) == Commit(DeleteChapter(doc, i))
MoveTo(i, to) == Commit(MoveChapterBoundary(doc, i, to))
StepBoundary(i, by) == MoveTo(i, StartsOf(doc)[i] + by)
AddChapter(at) == Commit(AddChapterBoundary(doc, at))

Later == DOMAIN EnsureChapters(doc) \ {1}
Zones == DOMAIN Trained(doc) \ {1}
EditChapters ==
  \/ Rename
  \/ \E i \in Later : Delete(i)
  \/ \E i \in Later, by \in {-1, 1} : StepBoundary(i, by)
  \/ \E i \in Later, to \in Zones : MoveTo(i, to)
  \/ \E at \in Zones : AddChapter(at)

ChangeSide == Commit([doc EXCEPT !.side = IF @ = "white" THEN "black" ELSE "white"])

Undo ==
  /\ Step /\ undo # <<>>
  /\ doc' = Last(undo) /\ undo' = Front(undo) /\ redo' = Append(redo, doc)
Redo ==
  /\ Step /\ redo # <<>>
  /\ doc' = Last(redo) /\ redo' = Front(redo) /\ undo' = Append(undo, doc)

\* The draft is saved and the course opened again.
Reopen ==
  /\ Step /\ Exportable
  /\ doc' = Reopened(doc) /\ undo' = <<>> /\ redo' = <<>>

Next ==
  \/ EditTree \/ EditChapters \/ ApplySame \/ (\E nodes \in Files : ApplyRaw(nodes))
  \/ ChangeSide \/ Undo \/ Redo \/ Reopen

Spec == Init /\ [][Next]_vars

-----------------------------------------------------------------------------
(* Properties.                                                             *)

\* The tree is sound and the ids of chapters differ (documentForStorage).
TypeOK ==
  /\ SoundTree(doc.nodes)
  /\ \A i, j \in DOMAIN doc.drafts : doc.drafts[i].id = doc.drafts[j].id => i = j

\* An edit of the moves or of the chapters leaves drafts that fit the moves:
\* the author's division is never thrown away for a balanced one
\* (reconcileChapterDrafts, ensureChapters).
DraftsFitStep ==
  EditTree \/ EditChapters \/ ApplySame => doc'.drafts = <<>> \/ Fits(doc'.drafts, Trained(doc'))
DraftsFit == [][DraftsFitStep]_vars

\* Chapters by what the learner meets: the moves before every position.
LinesIn(nodes, drafts, slices) ==
  [i \in DOMAIN slices |->
    [id |-> drafts[i].id, lines |-> [k \in DOMAIN slices[i] |-> MovesBefore(nodes, slices[i][k])]]]
Lines(d) == LinesIn(d.nodes, EnsureChapters(d), ChapterSlices(d))

\* A course that is saved and opened again has the chapters it had, though
\* its nodes are numbered anew (documentForStorage, hydrateRestoredDocument).
ReopenKeepsChapters == Exportable => Lines(Reopened(doc)) = Lines(doc)

Increasing(starts) == \A i, j \in DOMAIN starts : i < j => starts[i] < starts[j]
Ordered(d) == Increasing(StartsOf(d))

\* Moving, adding, naming and deleting chapters leaves every position in one
\* chapter, none of them empty, when it was so (moveChapterBoundary,
\* addChapterBoundary).
OrderKeptStep ==
  EditChapters /\ Ordered(doc) => Ordered(doc')
OrderKept == [][OrderKeptStep]_vars

\* studio-document.mjs:672: "Every training position needs a named chapter."
Covered == FlattenSeq(ChapterSlices(doc)) = Trained(doc)

\* studio-document.test.mjs:175: structural edits preserve authored chapter
\* drafts.  A chapter whose first position is still trained is still there.
ChaptersStay ==
  [][EditTree =>
       \A i \in DOMAIN EnsureChapters(doc) : EnsureChapters(doc)[i].start \in ToSet(Trained(doc')) =>
         EnsureChapters(doc)[i] \in ToSet(EnsureChapters(doc'))]_vars

\* The same moves applied as raw PGN keep the chapters.
SameMovesSameChapters == [][ApplySame => Lines(doc') = Lines(doc)]_vars
=============================================================================
