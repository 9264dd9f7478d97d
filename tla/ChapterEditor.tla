---------------------------- MODULE ChapterEditor ----------------------------
(***************************************************************************)
(* The chapter editor (/chapters): a published course is loaded, its       *)
(* positions are divided into chapters by boundaries the author moves,     *)
(* adds and removes, and the division is downloaded as a manifest.         *)
(* chapter-editor.mjs and the handlers of chapters.js.                     *)
(*                                                                         *)
(* Positions are numbers; a chapter is its id, the number that ends it,    *)
(* and its positions.  Names, the board and the text are left out.         *)
(* Indices count from 1.  The author takes at most MaxSteps steps.         *)
(***************************************************************************)
EXTENDS Integers, Sequences, SequencesExt, FiniteSetsExt

CONSTANTS Courses,     \* the packs of the catalogue
          First,       \* the course loaded first
          PackFiles,   \* packs and manifests the author has as files
          Manifests,
          Target,      \* positions per chapter of a balanced draft (24)
          MaxSteps, None

\* First is one of Courses; Target is at least 1.

VARIABLES pack, chapters, original,
          dragged, adding,
          chosen, loads,        \* the course selected, the courses asked for
          download, reset,      \* the buttons that are enabled
          mine,                 \* the author edited the course he chose last
          steps
data == <<pack, chapters, original>>
vars == <<pack, chapters, original, dragged, adding, chosen, loads, download, reset, mine, steps>>

Chapter(id, ids) == [id |-> id, ids |-> ids]

-----------------------------------------------------------------------------
(* chapter-editor.mjs.                                                     *)

\* orderedPositions: by learning order, then by id.
OrderedPositions(p) ==
  LET before(x, y) == x.order < y.order \/ (x.order = y.order /\ x.id < y.id)
      place(y) == 1 + Cardinality({x \in p.positions : before(x, y)})
  IN  [i \in 1 .. Cardinality(p.positions) |-> (CHOOSE y \in p.positions : place(y) = i).id]
Size(p) == Cardinality(p.positions)

\* Math.round of a / b.
Rounded(a, b) == (2 * a + b) \div (2 * b)

\* A bug of DefaultChapters: chapters start at rounded places and end at
\* truncated ones.
DefaultChaptersTruncated(p) ==
  LET count == Max({1, Rounded(Size(p), Target)})
      start(i) == Rounded(i * Size(p), count)
      end(i) == (i * Size(p)) \div count
  IN  IF Size(p) = 0 THEN <<>>
      ELSE [i \in 1 .. count |-> Chapter(i, SubSeq(OrderedPositions(p), start(i - 1) + 1, end(i)))]

\* defaultChapters: a balanced draft.
DefaultChapters(p) ==
  LET count == Max({1, Rounded(Size(p), Target)})
      start(i) == Rounded(i * Size(p), count)
  IN  IF Size(p) = 0 THEN <<>>
      ELSE [i \in 1 .. count |-> Chapter(i, SubSeq(OrderedPositions(p), start(i - 1) + 1, start(i)))]

Covered(cs) == FlattenSeq([i \in DOMAIN cs |-> cs[i].ids])

\* validateChapters finds no error.
Valid(p, cs) ==
  /\ cs # <<>>
  /\ \A i \in DOMAIN cs : cs[i].ids # <<>>
  /\ \A i, j \in DOMAIN cs : cs[i].id = cs[j].id => i = j
  /\ Covered(cs) = OrderedPositions(p)

\* startsFromChapters.
Starts(p, cs) ==
  LET known == \A i \in DOMAIN cs : cs[i].ids # <<>> /\ Head(cs[i].ids) \in ToSet(OrderedPositions(p))
  IN  IF known THEN [i \in DOMAIN cs |-> CHOOSE k \in 1 .. Size(p) : OrderedPositions(p)[k] = Head(cs[i].ids)]
      ELSE <<>>

\* uniqueChapterID.
UniqueID(cs, preferred) ==
  LET used == {cs[i].id : i \in DOMAIN cs}
  IN  Min((preferred .. preferred + Cardinality(used)) \ used)

\* A bug of ChaptersFromStarts: chapters are numbered anew.
ChaptersRenumbered(p, cs, starts) ==
  LET sorted == SortSeq(starts, <)
      end(i) == IF i = Len(sorted) THEN Size(p) ELSE sorted[i + 1] - 1
  IN  [i \in DOMAIN sorted |-> Chapter(i, SubSeq(OrderedPositions(p), sorted[i], end(i)))]

ChaptersFromStarts(p, cs, starts) ==
  LET sorted == SortSeq(starts, <)
      end(i) == IF i = Len(sorted) THEN Size(p) ELSE sorted[i + 1] - 1
  IN  [i \in DOMAIN sorted |-> Chapter(IF i \in DOMAIN cs THEN cs[i].id ELSE UniqueID(cs, i),
                                       SubSeq(OrderedPositions(p), sorted[i], end(i)))]

MoveBoundary(p, cs, i, to) ==
  LET starts == Starts(p, cs)
      limit == IF i = Len(starts) THEN Size(p) ELSE starts[i + 1] - 1
  IN  IF i \notin 2 .. Len(starts) THEN cs
      ELSE ChaptersFromStarts(p, cs, [starts EXCEPT ![i] = Max({starts[i - 1] + 1, Min({limit, to})})])

\* A bug of AddBoundary: the new chapter's id goes to the end.
AddBoundaryLast(p, cs, at) ==
  LET starts == Starts(p, cs)
  IN  IF at \notin 2 .. Size(p) \/ at \in ToSet(starts) THEN cs
      ELSE ChaptersFromStarts(p, cs, Append(starts, at))

AddBoundary(p, cs, at) ==
  LET starts == Starts(p, cs)
      later == {i \in DOMAIN starts : starts[i] > at}
      i == IF later = {} THEN Len(starts) + 1 ELSE Min(later)
  IN  IF at \notin 2 .. Size(p) \/ at \in ToSet(starts) THEN cs
      ELSE ChaptersFromStarts(p, InsertAt(cs, i, Chapter(UniqueID(cs, i), <<>>)), InsertAt(starts, i, at))

RemoveChapter(p, cs, i) ==
  IF Len(cs) <= 1 \/ i <= 1 THEN cs
  ELSE ChaptersFromStarts(p, RemoveAt(cs, i), RemoveAt(Starts(p, cs), i))

-----------------------------------------------------------------------------
(* chapters.js.                                                            *)

Init ==
  /\ pack = None /\ chapters = <<>> /\ original = <<>>
  /\ dragged = 0 /\ adding = FALSE
  /\ chosen = First /\ loads = {First}
  /\ download = FALSE /\ reset = FALSE /\ mine = FALSE /\ steps = 0

Authored == steps < MaxSteps /\ steps' = steps + 1

\* render, whose end enables the download.
Render(cs) ==
  /\ chapters' = cs
  /\ download' = Valid(pack', cs)

\* A bug of SetPack: the chapters of the pack are taken as they are.
SetPackUnchecked(p) ==
  /\ pack' = p
  /\ original' = IF p.chapters # None THEN p.chapters ELSE DefaultChapters(p)
  /\ Render(original')
  /\ reset' = TRUE

\* setPack: chapters that are not valid give way to a balanced draft.
SetPack(p) ==
  LET candidate == IF p.chapters # None THEN p.chapters ELSE DefaultChapters(p)
  IN  /\ pack' = p
      /\ original' = IF Valid(p, candidate) THEN candidate ELSE DefaultChapters(p)
      /\ Render(original')
      /\ reset' = TRUE

\* loadCourse up to its request.
ChooseCourse ==
  /\ Authored
  /\ \E c \in DOMAIN Courses \ {chosen} : chosen' = c /\ loads' = loads \cup {c}
  /\ download' = FALSE /\ reset' = FALSE /\ mine' = FALSE
  /\ UNCHANGED <<data, dragged, adding>>

CourseAnswered ==
  \E c \in loads :
    /\ loads' = loads \ {c}
    /\ SetPack(Courses[c])
    /\ UNCHANGED <<dragged, adding, chosen, mine, steps>>

CourseFailed ==
  /\ Authored
  /\ \E c \in loads : loads' = loads \ {c}
  /\ UNCHANGED <<data, dragged, adding, chosen, download, reset, mine>>

\* importJSON.
ImportPack ==
  /\ Authored
  /\ \E p \in PackFiles : SetPack(p)
  /\ UNCHANGED <<dragged, adding, chosen, loads, mine>>
ImportManifest ==
  /\ Authored
  /\ pack # None
  /\ \E m \in Manifests :
       /\ m.packID = pack.id /\ Valid(pack, m.chapters)
       /\ original' = m.chapters
       /\ pack' = pack /\ Render(m.chapters)
  /\ UNCHANGED <<dragged, adding, chosen, loads, reset, mine>>

Edit(cs) ==
  /\ pack' = pack /\ Render(cs)
  /\ mine' = (cs # chapters \/ mine)
  /\ UNCHANGED <<original, chosen, loads, reset>>

DeleteChapter ==
  /\ Authored
  /\ \E i \in 2 .. Len(chapters) : Edit(RemoveChapter(pack, chapters, i))
  /\ UNCHANGED <<dragged, adding>>

DragStart ==
  /\ Authored
  /\ dragged = 0 /\ \E i \in 2 .. Len(chapters) : dragged' = i
  /\ UNCHANGED <<data, adding, chosen, loads, download, reset, mine>>
DragEnd ==
  /\ dragged # 0 /\ dragged' = 0
  /\ UNCHANGED <<data, adding, chosen, loads, download, reset, mine, steps>>

\* dropZone: "Start chapter here", before every chapter and at the end.
DropZones == ({Starts(pack, chapters)[i] : i \in DOMAIN chapters} \ {1}) \cup {Size(pack) + 1}

Drop ==
  /\ dragged # 0 /\ dragged' = 0
  /\ \E to \in DropZones : Edit(MoveBoundary(pack, chapters, dragged, to))
  /\ UNCHANGED <<adding, steps>>

ToggleAdding ==
  /\ Authored
  /\ pack # None /\ adding' = ~adding
  /\ pack' = pack /\ Render(chapters)
  /\ UNCHANGED <<original, dragged, chosen, loads, reset, mine>>

ClickZone ==
  /\ adding /\ adding' = FALSE
  /\ \E at \in DropZones : Edit(AddBoundary(pack, chapters, at))
  /\ UNCHANGED <<dragged, steps>>

Reset ==
  /\ Authored
  /\ reset
  /\ pack' = pack /\ Render(original)
  /\ mine' = FALSE
  /\ UNCHANGED <<original, dragged, adding, chosen, loads, reset>>

Next ==
  \/ ChooseCourse \/ CourseAnswered \/ CourseFailed \/ ImportPack \/ ImportManifest
  \/ DeleteChapter \/ DragStart \/ DragEnd \/ Drop \/ ToggleAdding \/ ClickZone \/ Reset
Spec == Init /\ [][Next]_vars

-----------------------------------------------------------------------------
(* Properties.                                                             *)

TypeOK ==
  /\ chosen \in DOMAIN Courses /\ loads \subseteq DOMAIN Courses
  /\ adding \in BOOLEAN /\ mine \in BOOLEAN /\ dragged \in Nat
  /\ pack = None => ~download /\ ~reset /\ chapters = <<>>
  /\ \A cs \in {chapters, original} : \A i \in DOMAIN cs :
       cs[i].id \in Nat \ {0} /\ ToSet(cs[i].ids) \subseteq {x.id : x \in pack.positions}

\* Whatever is loaded, imported, dragged and removed, in any order: the
\* chapters, and those Reset goes back to, divide the positions of the loaded
\* course in learning order, and no chapter is empty.
AlwaysValid == pack # None /\ Size(pack) > 0 => Valid(pack, chapters) /\ Valid(pack, original)

\* The operations on the boundaries, at every place: the division stays
\* valid, a boundary comes to stand as near to the wanted place as its
\* neighbours allow, and a chapter that is added and removed leaves no trace.
OperationsSound ==
  pack # None =>
    /\ \A at \in 1 .. Size(pack) + 1 :
         LET added == AddBoundary(pack, chapters, at)
         IN  /\ Valid(pack, chapters) => Valid(pack, added)
             /\ added # chapters =>
                  \E i \in DOMAIN added : Starts(pack, added)[i] = at /\ RemoveChapter(pack, added, i) = chapters
    /\ \A i \in 2 .. Len(chapters), to \in 1 .. Size(pack) + 1 :
         LET moved == MoveBoundary(pack, chapters, i, to)
             between == (Starts(pack, chapters)[i - 1] + 1) ..
                        (IF i = Len(chapters) THEN Size(pack) ELSE Starts(pack, chapters)[i + 1] - 1)
         IN  /\ Valid(pack, moved)
             /\ to \in between => Starts(pack, moved)[i] = to

\* Dragging a boundary changes the two chapters it is between and leaves the
\* others, and every chapter's id, alone.
NeighboursOnlyStep ==
  Drop => /\ Len(chapters') = Len(chapters)
          /\ \A i \in DOMAIN chapters :
               /\ chapters'[i].id = chapters[i].id
               /\ i \notin {dragged - 1, dragged} => chapters'[i] = chapters[i]
NeighboursOnly == [][NeighboursOnlyStep]_vars

\* Once the author has edited the course he chose, no answer takes his edits
\* away.
EditsStay == [][mine /\ CourseAnswered => chapters' = chapters]_vars

\* In add mode a click on a "Start chapter here" line starts a chapter.
AddStarts == [][ClickZone => Len(chapters') = Len(chapters) + 1]_vars

\* A boundary can be brought to every place between its neighbours.
DropReaches ==
  dragged # 0 /\ Len(chapters) = 2 =>
    {MoveBoundary(pack, chapters, 2, to) : to \in DropZones}
      = {MoveBoundary(pack, chapters, 2, to) : to \in 1 .. Size(pack) + 1}
=============================================================================
