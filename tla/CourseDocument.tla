--------------------------- MODULE CourseDocument ---------------------------
(***************************************************************************)
(* A course of independent chapters as the Studio tab holds it: every      *)
(* chapter owns a variation tree, the editor shows the active one, and     *)
(* hints are shared by the places that ask for the same answer in the same *)
(* position.  Saving writes every tree as PGN with the hints that are      *)
(* shown and a record of where they came from; opening reads both again.   *)
(* studio-document.mjs, studio-shared-hints.mjs, studio-training-branch.mjs*)
(* and the parts of studio.js that commit their results.                   *)
(*                                                                         *)
(* A hint is 0 (blank) or one of Hints; a move is legal when its side is   *)
(* to move and it has not been played, so that lines transpose.  Chapters  *)
(* have ids 1 .. MaxChapters, 0 stands for none.  At most MaxEdits edits,  *)
(* saves and reopenings are made, trees have at most MaxNodes moves of     *)
(* MaxPly plies, and undo remembers UndoDepth documents (100 in the code). *)
(***************************************************************************)
EXTENDS VariationTree

CONSTANTS FirstMoves, SecondMoves, Hints, MaxEdits, MaxNodes, MaxPly, MaxChapters, UndoDepth,
          Imports,    \* trees of PGN files the author has
          Courses     \* saved courses that are there to open

VARIABLES doc,        \* state.document: side, chapters, active, nodes, start
          current,    \* state.currentNodeID
          undo, redo, \* state.undo, state.redo
          stored,     \* the draft on the server
          edits
vars == <<doc, current, undo, redo, stored, edits>>

Chapter(id, nodes) == [id |-> id, nodes |-> nodes, start |-> <<>>, archived |-> FALSE]
ChapterAt(d, id) == CHOOSE i \in DOMAIN d.chapters : d.chapters[i].id = id
ChapterIDs(d) == {d.chapters[i].id : i \in DOMAIN d.chapters}
ChapterNodes(d, i) == IF d.chapters[i].id = d.active THEN d.nodes ELSE d.chapters[i].nodes
Active(d) == {i \in DOMAIN d.chapters : ~d.chapters[i].archived}

-----------------------------------------------------------------------------
(* The active chapter and its projection.                                  *)

\* syncActiveChapter: the projection is written back to its chapter.
SyncActiveChapter(d) ==
  [d EXCEPT !.chapters = [i \in DOMAIN d.chapters |->
     IF d.chapters[i].id # d.active THEN d.chapters[i]
     ELSE [d.chapters[i] EXCEPT !.nodes = d.nodes, !.start = d.start]]]

Projection(d, id) ==
  LET here == id \in ChapterIDs(d)
      chapter == d.chapters[ChapterAt(d, id)]
  IN  [d EXCEPT !.active = IF here THEN id ELSE 0,
                !.nodes = IF here THEN chapter.nodes ELSE <<>>,
                !.start = IF here THEN chapter.start ELSE <<>>]

\* A bug of ActivateChapter: the old projection is written to the new chapter.
ActivateThenSync(d, id) == Projection(SyncActiveChapter([d EXCEPT !.active = id]), id)

ActivateChapter(d, id) == Projection(SyncActiveChapter(d), id)

AddIndependentChapter(d, id, nodes) ==
  ActivateChapter([SyncActiveChapter(d) EXCEPT !.chapters = Append(@, Chapter(id, nodes)), !.active = 0], id)

DuplicateIndependentChapter(d, id, copy) ==
  LET next == SyncActiveChapter(d)
      i == ChapterAt(next, id)
  IN  ActivateChapter([next EXCEPT !.chapters = InsertAt(@, i + 1, [next.chapters[i] EXCEPT !.id = copy]),
                                   !.active = 0], copy)

\* The chapter that takes the place of a deleted one is shown next.
DeleteIndependentChapter(d, id) ==
  LET next == SyncActiveChapter(d)
      i == ChapterAt(next, id)
      rest == RemoveAt(next.chapters, i)
      selected == IF d.active = id THEN rest[Min({i, Len(rest)})].id ELSE d.active
  IN  ActivateChapter([next EXCEPT !.chapters = rest, !.active = 0], selected)

-----------------------------------------------------------------------------
(* Shared hints.                                                           *)

\* sharedHintIndex: the places where an answer is asked for, course order.
Occurrence(chapter, n, path) ==
  [chapter |-> chapter, node |-> n.id, hint |-> n.hint, mode |-> n.mode, path |-> path, key |-> PositionKey(path)]
OccurrencesIn(chapter, nodes, answers) ==
  [j \in DOMAIN answers |-> Occurrence(chapter, NodeByID(nodes, answers[j]), MovesToNode(nodes, answers[j]))]
Occurrences(d) ==
  FlattenSeq([i \in DOMAIN d.chapters |->
    IF d.chapters[i].archived THEN <<>>
    ELSE OccurrencesIn(d.chapters[i].id, ChapterNodes(d, i), Answers(ChapterNodes(d, i), d.side))])

Authored(o) == o.hint # 0 /\ o.mode = ""
Values(occurrences, key) == {o.hint : o \in {p \in ToSet(occurrences) : p.key = key /\ Authored(p)}}
Conflict(occurrences, o) == Cardinality(Values(occurrences, o.key)) > 1

\* The hint an occurrence shows: its own, or the first of those its position
\* has elsewhere, or the text it was saved with.
Shown(occurrences, o) ==
  LET values == Values(occurrences, o.key)
  IN  IF o.mode = "own" \/ Authored(o) THEN o.hint
      ELSE IF values # {} THEN Min(values)
      ELSE IF o.mode = "inherited" THEN o.hint ELSE 0
Inherited(occurrences, o) ==
  o.mode # "own" /\ Shown(occurrences, o) # 0 /\ (o.mode = "inherited" \/ o.hint = 0)

Here(occurrences, chapter, node) == {o \in ToSet(occurrences) : o.chapter = chapter /\ o.node = node}

\* Every node of the document rewritten, in its chapter or in the projection.
MapNodes(d, Change(_, _)) ==
  [d EXCEPT !.nodes = [j \in DOMAIN d.nodes |-> Change(d.active, d.nodes[j])],
            !.chapters = [i \in DOMAIN d.chapters |->
               IF d.chapters[i].id = d.active THEN d.chapters[i]
               ELSE [d.chapters[i] EXCEPT !.nodes =
                       [j \in DOMAIN @ |-> Change(d.chapters[i].id, @[j])]]]]
Blanked(d, places) ==
  MapNodes(d, LAMBDA c, n : IF <<c, n.id>> \in places THEN [n EXCEPT !.hint = 0] ELSE n)

\* coalesceIdenticalHints: equal hints of one position are one hint.
Repetitions(occurrences) ==
  {i \in DOMAIN occurrences :
     /\ Authored(occurrences[i])
     /\ Cardinality(Values(occurrences, occurrences[i].key)) = 1
     /\ \E j \in 1 .. i - 1 : Authored(occurrences[j]) /\ occurrences[j].key = occurrences[i].key}
Repeated(occurrences) ==
  {<<occurrences[i].chapter, occurrences[i].node>> : i \in Repetitions(occurrences)}
CoalesceIdenticalHints(d) == Blanked(d, Repeated(Occurrences(d)))

\* A bug of ClearDetachedHintFallbacks: the texts of earlier saves come back.
ClearNoFallbacks(before, after) == after

\* clearDetachedHintFallbacks: where the last author of a hint was removed,
\* the copies of it go too.
AuthoredKeys(occurrences) == {o.key : o \in {p \in ToSet(occurrences) : Authored(p)}}
Detached(before, after) ==
  LET gone == AuthoredKeys(before) \ AuthoredKeys(after)
  IN  {<<o.chapter, o.node>> : o \in {p \in ToSet(after) : p.key \in gone /\ p.mode = "inherited"}}
ClearDetachedHintFallbacks(before, after) == Blanked(after, Detached(Occurrences(before), Occurrences(after)))

\* Bugs of WriteSharedHint: only the place that was edited is written; a move
\* with a hint of its own passes it on.
WriteHintHere(d, occurrences, chapter, node, text) ==
  MapNodes(d, LAMBDA c, n : IF c = chapter /\ n.id = node THEN [n EXCEPT !.hint = text, !.mode = ""] ELSE n)
WriteHintEverywhere(d, occurrences, chapter, node, text) ==
  LET keys == {o.key : o \in Here(occurrences, chapter, node)}
  IN  MapNodes(d, LAMBDA c, n : IF \E o \in Here(occurrences, c, n.id) : o.key \in keys
                                THEN [n EXCEPT !.hint = text] ELSE n)

\* writeSharedHint: the hint is written where it comes from, unless the
\* place has one of its own or its position has several.
WriteSharedHint(d, occurrences, chapter, node, text) ==
  LET target == CHOOSE o \in Here(occurrences, chapter, node) : TRUE
      group == SelectSeq(occurrences, LAMBDA o : o.key = target.key)
      authors == SelectSeq(group, Authored)
      donor == IF authors # <<>> THEN authors[1] ELSE target
      alone == Conflict(occurrences, target) \/ target.mode = "own"
  IN  IF Here(occurrences, chapter, node) = {} THEN d
      ELSE MapNodes(d, LAMBDA c, n :
        IF alone THEN (IF c = chapter /\ n.id = node THEN [n EXCEPT !.hint = text, !.mode = "own"] ELSE n)
        ELSE IF c = donor.chapter /\ n.id = donor.node THEN [n EXCEPT !.hint = text, !.mode = ""]
        ELSE IF \E o \in Here(group, c, n.id) : o.mode = "inherited" THEN [n EXCEPT !.hint = text] ELSE n)

-----------------------------------------------------------------------------
(* Saving and opening.                                                     *)

\* reconcileImportedPositionHints: one hint per position, on the answer.
Placeable(nodes, side) ==
  /\ HintsPlaced(nodes, side)
  /\ \A i, j \in DOMAIN nodes : nodes[i].hint # 0 /\ nodes[j].hint # 0 /\ nodes[i].parent = nodes[j].parent => i = j
Reconciled(nodes) ==
  [i \in DOMAIN nodes |->
    LET hints == {n.hint : n \in ToSet(ChildrenOf(nodes, nodes[i].parent))} \ {0}
    IN  [nodes[i] EXCEPT !.hint = IF hints # {} /\ IsMain(nodes, nodes[i].id) THEN Min(hints) ELSE 0]]

\* normalizeDocument, for the save: it throws unless Savable.
Normalized(d) ==
  [d EXCEPT !.nodes = Reconciled(@),
            !.chapters = [i \in DOMAIN @ |-> [@[i] EXCEPT !.nodes = Reconciled(@)]]]
Savable(d) ==
  \A i \in DOMAIN d.chapters : Placeable(ChapterNodes(d, i), d.side) /\ ParentsFirst(ChapterNodes(d, i))

\* A bug of OriginRecords: a blank of its own is not recorded.
OriginRecordsOfTexts(occurrences) ==
  {[chapter |-> o.chapter, path |-> o.path, value |-> Shown(occurrences, o),
    mode |-> IF Inherited(occurrences, o) THEN "inherited" ELSE "own"] :
   o \in {p \in ToSet(occurrences) : Inherited(occurrences, p) \/ (p.mode = "own" /\ p.hint # 0)}}

\* hintOriginRecords: which hints of the PGN were not written there.
OriginRecords(occurrences) ==
  {[chapter |-> o.chapter, path |-> o.path, value |-> Shown(occurrences, o),
    mode |-> IF Inherited(occurrences, o) THEN "inherited" ELSE "own"] :
   o \in {p \in ToSet(occurrences) : Inherited(occurrences, p) \/ p.mode = "own"}}

\* exportAllChapterSources, documentForStorage: the PGN of every chapter has
\* the hints that are shown.
Effective(occurrences, chapter, n) ==
  LET here == Here(occurrences, chapter, n.id)
  IN  IF here = {} THEN n.hint ELSE Shown(occurrences, CHOOSE o \in here : TRUE)
ExportedChapter(occurrences, c) ==
  [c EXCEPT !.nodes = Renumbered([j \in DOMAIN @ |->
                        [@[j] EXCEPT !.hint = Effective(occurrences, c.id, c.nodes[j]), !.mode = ""]])]
ForStorage(d, occurrences) ==
  [side |-> d.side, origins |-> OriginRecords(occurrences),
   chapters |-> [i \in DOMAIN d.chapters |-> ExportedChapter(occurrences, d.chapters[i])]]
Exported(d) ==
  LET next == SyncActiveChapter(Normalized(d)) IN ForStorage(next, Occurrences(next))

\* restoreHintOrigins: a record counts while the text is the one it is about.
RecordsOf(origins, occurrences, c, n) ==
  {r \in origins : \E o \in Here(occurrences, c, n.id) : r.chapter = c /\ r.path = o.path /\ r.value = n.hint}
WithMode(n, records) == IF records = {} THEN n ELSE [n EXCEPT !.mode = (CHOOSE r \in records : TRUE).mode]
RestoreHintOrigins(d, occurrences, origins) ==
  MapNodes(d, LAMBDA c, n : WithMode(n, RecordsOf(origins, occurrences, c, n)))

\* hydrateSourceDocument, openCourse.
Opened(s) ==
  LET d == [side |-> s.side, chapters |-> s.chapters, active |-> 0, nodes |-> <<>>, start |-> <<>>]
      shown == ActivateChapter(d, IF s.chapters = <<>> THEN 0 ELSE s.chapters[1].id)
  IN  SyncActiveChapter(CoalesceIdenticalHints(RestoreHintOrigins(shown, Occurrences(shown), s.origins)))

-----------------------------------------------------------------------------
(* What the learner will train.                                            *)

HintIn(occurrences, chapter, node) ==
  LET here == Here(occurrences, chapter, node)
  IN  IF here = {} THEN 0 ELSE Shown(occurrences, CHOOSE o \in here : TRUE)
HintAt(d, chapter, node) == HintIn(Occurrences(d), chapter, node)

\* trainingPack of a course, with the start of every chapter.
TrainingPack(d) ==
  FlattenSeq([i \in DOMAIN d.chapters |->
    LET nodes == ChapterNodes(d, i)
        c == d.chapters[i]
        start == IF c.id = d.active THEN d.start ELSE c.start
        before(p) == IF p = 0 THEN <<>> ELSE MovesToNode(nodes, p)
        trained == SelectSeq(TrainedPositions(nodes, d.side), LAMBDA p : IsPrefix(start, before(p)))
    IN  IF c.archived THEN <<>>
        ELSE [j \in DOMAIN trained |->
               LET p == trained[j]
                   moves == ChildrenOf(nodes, p)
               IN  [chapter |-> c.id, path |-> before(p), moves |-> [k \in DOMAIN moves |-> moves[k].move],
                    hint |-> HintAt(d, c.id, moves[1].id)]]])

-----------------------------------------------------------------------------
(* The editor.                                                             *)

Init ==
  /\ stored \in Courses
  /\ doc = Opened(stored)
  /\ current = 0 /\ undo = <<>> /\ redo = <<>> /\ edits = 0

\* A bug of Clamp: a move that has become hidden stays selected.
ClampNot(d, id) == id

\* setEffectivePosition: the selection goes up to the last move that is
\* shown.
Clamp(d, id) ==
  LET path == IF id = 0 THEN <<>> ELSE PathToNode(d.nodes, id)
      depth == WrongBranchDepth(d.nodes, d.side, id)
  IN  IF depth > 1 THEN path[Len(path) - depth + 1] ELSE id

Remember(stack, d) ==
  IF Len(stack) < UndoDepth THEN Append(stack, d)
  ELSE IF UndoDepth = 0 THEN <<>> ELSE Append(Tail(stack), d)

\* A bug of Result: the chapter is not brought up to date.
ResultNotSynced(next) == CoalesceIdenticalHints(ClearDetachedHintFallbacks(doc, next))
ResultNotCoalesced(next) == SyncActiveChapter(ClearDetachedHintFallbacks(doc, next))

Result(next) == SyncActiveChapter(CoalesceIdenticalHints(ClearDetachedHintFallbacks(doc, next)))

\* commit: an edit that changes nothing only moves the selection.
Commit(next, id) ==
  /\ doc' = Result(next)
  /\ current' = Clamp(doc', id)
  /\ UNCHANGED stored
  /\ IF doc' = doc THEN UNCHANGED <<undo, redo, edits>>
     ELSE /\ edits < MaxEdits
          /\ undo' = Remember(undo, doc) /\ redo' = <<>> /\ edits' = edits + 1

Tree(nodes) == [doc EXCEPT !.nodes = nodes]
CurrentNode == NodeByID(doc.nodes, current)
Siblings == ChildrenOf(doc.nodes, CurrentNode.parent)
OnAnswer == current # 0 /\ Learner(doc.side, Ply(doc.nodes, current)) /\ IsMain(doc.nodes, current)

Legal(nodes, id) ==
  LET path == IF id = 0 THEN <<>> ELSE MovesToNode(nodes, id)
  IN  {m \in (IF Len(path) % 2 = 0 THEN FirstMoves ELSE SecondMoves) : m \notin ToSet(path)}

\* chooseBoardMove: below a wrong answer there is one reply and no more.
PlayMove(m) ==
  LET depth == WrongBranchDepth(doc.nodes, doc.side, current)
      visible == VisibleChildren(doc.nodes, doc.side, current)
      next == AddMove(doc.nodes, current, m)
  IN  /\ doc.active # 0 /\ m \in Legal(doc.nodes, current)
      /\ depth < 1 /\ (depth = 0 /\ visible # <<>> => visible[1].move = m)
      /\ Len(next) <= MaxNodes /\ (current # 0 => Ply(doc.nodes, current) < MaxPly)
      /\ Commit(Tree(next), MoveID(next, current, m))

Navigate(id) ==
  /\ id # current /\ WrongBranchDepth(doc.nodes, doc.side, id) <= 1
  /\ current' = id
  /\ UNCHANGED <<doc, undo, redo, stored, edits>>

DeleteLine == current # 0 /\ Commit(Tree(RemoveBranch(doc.nodes, current)), CurrentNode.parent)
Promote == /\ current # 0 /\ ~IsMain(doc.nodes, current)
           /\ Commit(Tree(PromoteVariation(doc.nodes, current)), current)
Reorder(direction) ==
  /\ current # 0 /\ At(Siblings, current) + direction \in DOMAIN Siblings
  /\ Commit(Tree(ReorderVariation(doc.nodes, current, direction)), current)

WriteOwn(hint) == MapNodes(doc, LAMBDA c, n :
  IF c = doc.active /\ n.id = current THEN [n EXCEPT !.hint = hint, !.mode = "own"] ELSE n)

\* The hint field of the inspector.
HintWritten(hint) ==
  IF CurrentNode.mode = "own" THEN WriteOwn(hint) ELSE WriteSharedHint(doc, Occurrences(doc), doc.active, current, hint)
WriteHint(hint) == OnAnswer /\ Commit(HintWritten(hint), current)

\* The choice beside it: own, or shared.
UseOwnHint == OnAnswer /\ CurrentNode.mode # "own" /\ Commit(WriteOwn(HintAt(doc, doc.active, current)), current)
UseSharedHint ==
  /\ OnAnswer
  /\ Commit(MapNodes(doc, LAMBDA c, n : IF c = doc.active /\ n.id = current
                                        THEN [n EXCEPT !.hint = 0, !.mode = ""] ELSE n), current)

\* The course details: the side the learner plays.
ChangeSide == Commit([doc EXCEPT !.side = IF @ = "white" THEN "black" ELSE "white"], current)

SelectChapter(id) ==
  /\ doc' = ActivateChapter(doc, id) /\ current' = 0
  /\ UNCHANGED <<undo, redo, stored, edits>>

FreshChapters == IF Len(doc.chapters) < MaxChapters THEN {Min((1 .. MaxChapters) \ ChapterIDs(doc))} ELSE {}
CreateChapter == \E id \in FreshChapters, nodes \in Imports : Commit(AddIndependentChapter(doc, id, nodes), 0)
DuplicateChapter(id) == \E copy \in FreshChapters : Commit(DuplicateIndependentChapter(doc, id, copy), 0)

\* Archive or restore; the last chapter in use cannot be archived.
ToggleChapterArchive(id) ==
  LET next == SyncActiveChapter(doc)
      i == ChapterAt(next, id)
  IN  /\ i \in Active(next) => Cardinality(Active(next)) > 1
      /\ Commit([next EXCEPT !.chapters[i].archived = ~@], 0)

ConfirmChapterDelete(id) == Len(doc.chapters) > 1 /\ Commit(DeleteIndependentChapter(doc, id), 0)
ReorderIndependentChapter(from, to) ==
  LET next == SyncActiveChapter(doc)
  IN  Commit([next EXCEPT !.chapters = InsertAt(RemoveAt(@, from), to, @[from])], current)

\* Training starts where the learner is to move on a line that is trained.
SetTrainingStart ==
  /\ \E i \in DOMAIN TrainedPositions(doc.nodes, doc.side) : TrainedPositions(doc.nodes, doc.side)[i] = current
  /\ Commit([doc EXCEPT !.start = IF current = 0 THEN <<>> ELSE MovesToNode(doc.nodes, current)], current)
ClearTrainingStart == doc.start # <<>> /\ Commit([doc EXCEPT !.start = <<>>], current)

Kept(d) == IF current \in Ids(d.nodes) THEN current ELSE 0
Undo ==
  /\ undo # <<>>
  /\ doc' = Last(undo) /\ current' = Clamp(doc', Kept(doc')) /\ undo' = Front(undo) /\ redo' = Remember(redo, doc)
  /\ UNCHANGED <<stored, edits>>
Redo ==
  /\ redo # <<>>
  /\ doc' = Last(redo) /\ current' = Clamp(doc', Kept(doc')) /\ redo' = Front(redo) /\ undo' = Remember(undo, doc)
  /\ UNCHANGED <<stored, edits>>

\* performSaveDraft; a save that throws leaves everything as it was.
Save ==
  /\ Savable(doc) /\ edits < MaxEdits
  /\ stored' = Exported(doc) /\ edits' = edits + 1
  /\ UNCHANGED <<doc, current, undo, redo>>

\* openCourse, after unsaved changes were given up if there were any.
Reopen ==
  /\ edits < MaxEdits
  /\ doc' = Opened(stored) /\ current' = 0 /\ undo' = <<>> /\ redo' = <<>> /\ edits' = edits + 1
  /\ UNCHANGED stored

EditTree == \/ \E m \in FirstMoves \cup SecondMoves : PlayMove(m)
            \/ DeleteLine \/ Promote \/ \E direction \in {-1, 1} : Reorder(direction)
EditHint == UseOwnHint \/ UseSharedHint \/ \E hint \in {0} \cup Hints : WriteHint(hint)
EditChapters ==
  \/ CreateChapter
  \/ \E id \in ChapterIDs(doc) : SelectChapter(id) \/ DuplicateChapter(id) \/ ToggleChapterArchive(id) \/ ConfirmChapterDelete(id)
  \/ \E from, to \in DOMAIN doc.chapters : ReorderIndependentChapter(from, to)
  \/ SetTrainingStart \/ ClearTrainingStart

Next == \/ EditTree \/ EditHint \/ EditChapters
        \/ \E id \in {0} \cup Ids(doc.nodes) : Navigate(id)
        \/ ChangeSide \/ Undo \/ Redo \/ Save \/ Reopen
Spec == Init /\ [][Next]_vars
-----------------------------------------------------------------------------
(* Properties.                                                             *)

\* Every chapter's tree stays a tree through every sequence of edits, and
\* the selected move exists in the chapter that is shown.
TypeOK ==
  /\ \A i \in DOMAIN doc.chapters : SoundTree(doc.chapters[i].nodes)
  /\ \A i, j \in DOMAIN doc.chapters : doc.chapters[i].id = doc.chapters[j].id => i = j
  /\ doc.active \in ChapterIDs(doc) /\ current \in {0} \cup Ids(doc.nodes)

\* What the editor shows is what its chapter holds, whatever edited it
\* (syncActiveChapter, commit): nothing that was edited is lost when another
\* chapter is opened.
Synced == doc = SyncActiveChapter(doc)

\* The board never rests on a move the learner's view leaves out, also after
\* the side or the order of variations changed (setEffectivePosition).
CurrentVisible == WrongBranchDepth(doc.nodes, doc.side, current) <= 1

\* A course that can be saved and is opened again trains the same positions
\* with the same answers and the same hints in the same order: PGN and origin
\* records together lose nothing of it.
ReloadKeepsTraining == Savable(doc) => TrainingPack(Opened(Exported(doc))) = TrainingPack(doc)

\* Saving what was opened writes what was saved (needsSharedHintSave stops).
SaveStable == Savable(doc) => Exported(Opened(Exported(doc))) = Exported(doc)

Edit == EditTree \/ EditHint \/ EditChapters
InUse == doc.chapters[ChapterAt(doc, doc.active)].archived = FALSE
CurrentOccurrence == CHOOSE o \in Here(Occurrences(doc), doc.active, current) : TRUE

\* A hint that is written is the one that is shown, and where it was shared
\* every place that shares it shows it, a blank included (writeSharedHint).
WriteTakesEffect(hint) ==
  LET before == Occurrences(doc)
      after == Occurrences(Result(HintWritten(hint)))
      shared == CurrentNode.mode # "own" /\ ~Conflict(before, CurrentOccurrence)
  IN  \A o \in ToSet(after) :
        \/ o.chapter = doc.active /\ o.node = current
        \/ shared /\ o.key = CurrentOccurrence.key /\ o.mode # "own"
        => Shown(after, o) = hint
EditTakesEffect == OnAnswer /\ InUse => \A hint \in {0} \cup Hints : WriteTakesEffect(hint)

\* A hint of its own stays what it is when hints are edited elsewhere.
OwnKeptStep ==
  EditHint => \A o \in ToSet(Occurrences(doc)) :
     /\ <<o.chapter, o.node>> # <<doc.active, current>>
     /\ o.mode = "own" \/ (Authored(o) /\ Conflict(Occurrences(doc), o))
     => HintAt(doc', o.chapter, o.node) = o.hint
OwnKept == [][OwnKeptStep]_vars

\* When an edit takes the last author of a hint away, no copy of an earlier
\* save brings it back (clearDetachedHintFallbacks).
RemovedHintGoneStep ==
  Edit => \A o \in ToSet(Occurrences(doc')) :
     o.mode = "inherited" /\ Values(Occurrences(doc), o.key) # {} /\ Values(Occurrences(doc'), o.key) = {}
     => Shown(Occurrences(doc'), o) = 0
RemovedHintGone == [][RemovedHintGoneStep]_vars

Moves(d, id) ==
  LET nodes == d.chapters[ChapterAt(d, id)].nodes
  IN  [i \in DOMAIN nodes |-> [nodes[i] EXCEPT !.hint = 0, !.mode = ""]]

\* An edit changes the moves of the chapter that is open and of no other,
\* whichever chapter it leaves open (activateChapter and its callers).
OnlyActiveTreeChangesStep ==
  Edit => \A id \in ChapterIDs(doc) \cap ChapterIDs(doc') :
     Moves(doc, id) = Moves(doc', id) \/ (id = doc.active /\ id = doc'.active)
OnlyActiveTreeChanges == [][OnlyActiveTreeChangesStep]_vars

\* "Every save first exports the current structured variation tree to PGN":
\* whatever the author arranged, the trees are in an order the PGN service
\* takes (docs/opening-drill-handoff.md).
Exportable == \A i \in DOMAIN doc.chapters : ParentsFirst(doc.chapters[i].nodes)

\* "Do not revive a generated fallback" (studio-shared-hints.mjs): a saved
\* copy of a hint is shown only while its author is in the course.
NoRevivedHints ==
  \A o \in ToSet(Occurrences(doc)) :
    o.mode = "inherited" /\ o.hint # 0 => Values(Occurrences(doc), o.key) # {}

\* "Loading the same PGN does not turn generated text into an authored
\* exception" (studio-shared-hints.mjs): an unmarked hint of the course that
\* would be opened again was an unmarked hint before.
AuthoredTexts(d) ==
  UNION {{[chapter |-> d.chapters[i].id, path |-> MovesToNode(d.chapters[i].nodes, n.id), hint |-> n.hint] :
          n \in {m \in ToSet(d.chapters[i].nodes) : Authored(m)}} : i \in DOMAIN d.chapters}
NoFalseAuthors == Savable(doc) => AuthoredTexts(Opened(Exported(doc))) \subseteq AuthoredTexts(doc)

\* "Editing updates the shared hint" (studio.js, renderInspector): the hint
\* field of an answer is never without effect.
HintFieldWorks ==
  OnAnswer => \A hint \in Hints :
    LET after == Result(HintWritten(hint))
    IN  hint \in {NodeByID(after.nodes, current).hint, HintAt(after, after.active, current)}
=============================================================================
