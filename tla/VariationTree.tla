--------------------------- MODULE VariationTree ---------------------------
(***************************************************************************)
(* The variation tree of one chapter, as studio-document.mjs and           *)
(* studio-training-branch.mjs keep it: a flat sequence of nodes that name  *)
(* their parents.  The order of the sequence is the order of siblings, and *)
(* the first of them is the main move.  The root is no node and has id 0.  *)
(***************************************************************************)
EXTENDS Integers, Sequences, SequencesExt, FiniteSetsExt

Node(id, parent, move) == [id |-> id, parent |-> parent, move |-> move, hint |-> 0, mode |-> ""]

Ids(nodes) == {nodes[i].id : i \in DOMAIN nodes}
At(nodes, id) == CHOOSE i \in DOMAIN nodes : nodes[i].id = id
NodeByID(nodes, id) == nodes[At(nodes, id)]
ChildrenOf(nodes, p) == SelectSeq(nodes, LAMBDA n : n.parent = p)
MainChild(nodes, p) == ChildrenOf(nodes, p)[1].id

\* pathToNode: the ids from the first move down to id.
PathToNode(nodes, id) ==
  LET path[k \in {0} \cup Ids(nodes)] ==
        IF k = 0 THEN <<>> ELSE Append(path[NodeByID(nodes, k).parent], k)
  IN  path[id]

MovesToNode(nodes, id) ==
  LET path == PathToNode(nodes, id)
  IN  [i \in DOMAIN path |-> NodeByID(nodes, path[i]).move]

Ply(nodes, id) == Len(PathToNode(nodes, id))
Learner(side, ply) == ply % 2 = (IF side = "black" THEN 0 ELSE 1)
IsMain(nodes, id) == id # 0 /\ MainChild(nodes, NodeByID(nodes, id).parent) = id

\* hintPositionKey: a position is the moves that led to it, in any order,
\* and the answer.
PositionKey(moves) == [before |-> ToSet(Front(moves)), answer |-> Last(moves)]

-----------------------------------------------------------------------------
(* Edits.                                                                  *)

FreshID(nodes) == CHOOSE k \in 1 .. Len(nodes) + 1 : k \notin Ids(nodes)

\* A bug of AddMove: a move that is there already is added again.
AddMoveTwice(nodes, p, move) == Append(nodes, Node(FreshID(nodes), p, move))

\* addMove: a move that is there already is only looked up.
AddMove(nodes, p, move) ==
  IF \E i \in DOMAIN nodes : nodes[i].parent = p /\ nodes[i].move = move THEN nodes
  ELSE Append(nodes, Node(FreshID(nodes), p, move))
MoveID(nodes, p, move) == (CHOOSE n \in ToSet(nodes) : n.parent = p /\ n.move = move).id

RemoveBranch(nodes, id) == SelectSeq(nodes, LAMBDA n : id \notin ToSet(PathToNode(nodes, n.id)))

\* transferPositionHint: the hint belongs to the position, so it follows the
\* main move.
TransferHint(nodes, p, old, new) ==
  LET kept == NodeByID(nodes, old).hint
      hint == IF kept # 0 THEN kept ELSE NodeByID(nodes, new).hint
  IN  IF old = new THEN nodes
      ELSE [i \in DOMAIN nodes |->
              IF nodes[i].parent # p THEN nodes[i]
              ELSE [nodes[i] EXCEPT !.hint = IF nodes[i].id = new THEN hint ELSE 0]]

\* promoteVariation: the node is moved before its first sibling.
PromoteVariation(nodes, id) ==
  LET p == NodeByID(nodes, id).parent
      old == MainChild(nodes, p)
      rest == SelectSeq(nodes, LAMBDA n : n.id # id)
      moved == InsertAt(rest, At(rest, old), NodeByID(nodes, id))
  IN  IF old = id THEN nodes ELSE TransferHint(moved, p, old, id)

\* reorderVariation: the node and the sibling beside it change places.
ReorderVariation(nodes, id, direction) ==
  LET p == NodeByID(nodes, id).parent
      siblings == ChildrenOf(nodes, p)
      target == At(siblings, id) + direction
      a == At(nodes, id)
      b == At(nodes, siblings[target].id)
      swapped == [nodes EXCEPT ![a] = nodes[b], ![b] = nodes[a]]
  IN  IF target \notin DOMAIN siblings THEN nodes
      ELSE TransferHint(swapped, p, siblings[1].id, MainChild(swapped, p))

-----------------------------------------------------------------------------
(* The learner's side of the tree.                                         *)

\* wrongBranchDepth: the moves below the first wrong answer on the way to
\* id, -1 when there is none.
WrongBranchDepth(nodes, side, id) ==
  LET path == IF id = 0 THEN <<>> ELSE PathToNode(nodes, id)
      wrong == {i \in DOMAIN path : Learner(side, i) /\ ~IsMain(nodes, path[i])}
  IN  IF wrong = {} THEN -1 ELSE Len(path) - Min(wrong)

VisibleChildren(nodes, side, p) ==
  LET children == ChildrenOf(nodes, p)
      depth == WrongBranchDepth(nodes, side, p)
  IN  IF depth < 0 THEN children
      ELSE IF depth = 0 THEN SubSeq(children, 1, IF children = <<>> THEN 0 ELSE 1)
      ELSE <<>>

\* The right answers in the order the tree is walked; what follows a wrong
\* answer is not trained.
Answers(nodes, side) ==
  LET visit[p \in {0} \cup Ids(nodes)] ==
        LET children == ChildrenOf(nodes, p)
        IN  FlattenSeq([i \in DOMAIN children |->
              LET id == children[i].id
                  learner == Learner(side, Ply(nodes, id))
              IN  IF learner /\ i > 1 THEN <<>>
                  ELSE (IF learner THEN <<id>> ELSE <<>>) \o visit[id]])
  IN  visit[0]

\* trainingPack: the positions to train, each by the node before it.  The
\* opponent's other moves wait until the main line has been walked.
TrainedPositions(nodes, side) ==
  LET line[p \in {0} \cup Ids(nodes)] ==
        LET children == ChildrenOf(nodes, p)
        IN  IF children = <<>> THEN <<>> ELSE <<p>> \o line[children[1].id]
      turn(p) == Learner(side, 1 + (IF p = 0 THEN 0 ELSE Ply(nodes, p)))
      visit[p \in {0} \cup Ids(nodes)] ==
        LET opponents == SelectSeq(line[p], LAMBDA q : ~turn(q))
            deferred == FlattenSeq([i \in DOMAIN opponents |-> Tail(ChildrenOf(nodes, opponents[i]))])
        IN  SelectSeq(line[p], turn) \o FlattenSeq([i \in DOMAIN deferred |-> visit[deferred[i].id]])
  IN  visit[0]

-----------------------------------------------------------------------------
(* The PGN.                                                                *)

\* The PGN service refuses a node that comes before its parent.
ParentsFirst(nodes) ==
  \A i \in DOMAIN nodes : nodes[i].parent # 0 => \E j \in 1 .. i - 1 : nodes[j].id = nodes[i].parent

\* reconcileImportedPositionHints refuses a hint that is on no answer.
HintsPlaced(nodes, side) ==
  \A i \in DOMAIN nodes : nodes[i].hint # 0 => Learner(side, Ply(nodes, nodes[i].id))

\* Written and read again: the same tree, numbered as it is walked.
Renumbered(nodes) ==
  LET visit[p \in {0} \cup Ids(nodes)] ==
        LET children == ChildrenOf(nodes, p)
        IN  FlattenSeq([i \in DOMAIN children |-> <<children[i].id>> \o visit[children[i].id]])
      order == visit[0]
      new(id) == IF id = 0 THEN 0 ELSE CHOOSE i \in DOMAIN order : order[i] = id
  IN  [i \in DOMAIN order |->
        LET n == NodeByID(nodes, order[i]) IN [n EXCEPT !.id = i, !.parent = new(n.parent)]]

\* Nodes have ids of their own and parents, and siblings differ.
SoundTree(nodes) ==
  /\ \A i, j \in DOMAIN nodes : i # j =>
       /\ nodes[i].id # nodes[j].id
       /\ <<nodes[i].parent, nodes[i].move>> # <<nodes[j].parent, nodes[j].move>>
  /\ \A i \in DOMAIN nodes : nodes[i].parent \in ({0} \cup Ids(nodes)) \ {nodes[i].id}
=============================================================================
