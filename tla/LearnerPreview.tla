---------------------------- MODULE LearnerPreview ----------------------------
(***************************************************************************)
(* The learner preview of the Studio: the author answers the positions of  *)
(* a chapter on a board as a learner would.  Every position is asked of    *)
(* the server first.  renderPreview and its handlers in studio.js.         *)
(*                                                                         *)
(* A document is what chapterSlices makes of it: a sequence of chapters,   *)
(* each a sequence of positions; an edit, an undo or a redo replaces it by *)
(* another.  Indices count from 1.  The learner takes at most MaxClicks    *)
(* steps, the author MaxEdits, and MaxFaults requests fail.                *)
(***************************************************************************)
EXTENDS Integers, Sequences, FiniteSetsExt, TLC

CONSTANTS Docs, Moves, None, MaxClicks, MaxEdits, MaxFaults

\* Every course of Docs has a chapter.

VARIABLES doc,
          page,     \* the page's state
          steps     \* what the author and the network have done so far
vars == <<doc, page, steps>>

Kinds == {"clicks", "edits", "faults"}
Most == [clicks |-> MaxClicks, edits |-> MaxEdits, faults |-> MaxFaults]

AllPositions == UNION {UNION {{d[c][i] : i \in DOMAIN d[c]} : c \in DOMAIN d} : d \in Docs}

\* previewChapter and previewIndex, the attempt made, the position on the
\* board with its lock, what the card was rendered with, the position asked.
Init ==
  /\ doc \in Docs
  /\ page = [view |-> "editor", chapter |-> 1, index |-> 1, attempt |-> None,
             position |-> None, locked |-> FALSE, card |-> None, asking |-> None]
  /\ steps = [k \in Kinds |-> 0]

May(kind) == steps[kind] < Most[kind] /\ steps' = [steps EXCEPT ![kind] = @ + 1]
ClickMay == May("clicks") /\ UNCHANGED doc

\* A bug of Within: the index of an empty chapter.
WithinAbove(i, s) == Min({i, Len(s)})
Within(i, s) == Max({1, Min({i, Len(s)})})

\* A bug of RenderPreview: the index is not brought into the chapter.
RenderPreviewAsIs(t, d) ==
  LET c == Within(t.chapter, d)
  IN  IF \A k \in DOMAIN d : d[k] = <<>> THEN [t EXCEPT !.position = None, !.card = None]
      ELSE [t EXCEPT !.chapter = c, !.asking = IF t.index \in DOMAIN d[c] THEN d[c][t.index] ELSE None]

\* renderPreview up to its request.  A chapter that has no position asks
\* nothing and shows nothing new.
RenderPreview(t, d) ==
  LET c == Within(t.chapter, d)
      i == Within(t.index, d[c])
  IN  IF \A k \in DOMAIN d : d[k] = <<>> THEN [t EXCEPT !.position = None, !.card = None]
      ELSE [t EXCEPT !.chapter = c, !.index = i,
                     !.asking = IF d[c] = <<>> THEN None ELSE d[c][i]]

Locked(t) == t.attempt # None /\ t.attempt.correct
RenderCard(t, position, size) ==
  [t EXCEPT !.locked = Locked(t),
            !.card = [position |-> position, pending |-> t.attempt = None,
                      previous |-> t.index > 1, next |-> Locked(t) /\ t.index < size]]

\* The rest of renderPreview, for the answer that is still waited for.
PositionShown ==
  /\ page.asking # None
  /\ page' = RenderCard([page EXCEPT !.position = page.asking, !.asking = None],
                        page.asking, Len(doc[page.chapter]))
  /\ UNCHANGED <<doc, steps>>
PositionFailed ==
  /\ page.asking # None
  /\ May("faults")
  /\ page' = [page EXCEPT !.asking = None]
  /\ UNCHANGED doc

-----------------------------------------------------------------------------
(* The learner's steps.                                                    *)

EvaluatePreviewMove(position, move) == [move |-> move, correct |-> move = position.answer]

\* tryPreviewMove and attemptPreviewMove: a move on the board is judged by
\* the position the page is at.  The attempt keeps, for the properties, what
\* it was judged by and what was on the board.
TryPreviewMove(move) ==
  LET chapter == doc[page.chapter]
      judged == chapter[page.index]
      attempt == EvaluatePreviewMove(judged, move) @@ [judged |-> judged, board |-> page.position]
  IN  /\ ClickMay
      /\ page.view = "preview" /\ page.position # None /\ ~page.locked
      /\ page.index \in DOMAIN chapter
      /\ page' = RenderCard([page EXCEPT !.attempt = attempt], judged, Len(chapter))

Go(i) == page' = RenderPreview([page EXCEPT !.index = i, !.attempt = None], doc)
OnCard == ClickMay /\ page.view = "preview" /\ page.card # None
Previous == OnCard /\ page.card.previous /\ Go(page.index - 1)
NextPosition == OnCard /\ page.card.next /\ Go(page.index + 1)

\* A bug of RestartPreviewChapter: the attempt stays.
RestartKeeping(t, d) == RenderPreview([t EXCEPT !.index = 1], d)
RestartPreviewChapter(t, d) == RenderPreview([t EXCEPT !.index = 1, !.attempt = None], d)
Restart == ClickMay /\ page.view = "preview" /\ page' = RestartPreviewChapter(page, doc)
ChooseChapter(c) ==
  /\ OnCard
  /\ c \in DOMAIN doc \ {page.chapter}
  /\ page' = RestartPreviewChapter([page EXCEPT !.chapter = c], doc)

-----------------------------------------------------------------------------
(* The author's steps.                                                     *)

OpenPreview ==
  /\ ClickMay
  /\ page.view = "editor"
  /\ page' = RenderPreview([page EXCEPT !.view = "preview"], doc)
LeavePreview ==
  /\ ClickMay
  /\ page.view = "preview"
  /\ page' = [page EXCEPT !.view = "editor"]

\* The list of chapters opens the preview of one.
PreviewChapter(c) ==
  /\ ClickMay
  /\ page.view = "editor"
  /\ page' = RenderPreview([page EXCEPT !.view = "preview", !.chapter = c, !.index = 1, !.attempt = None], doc)

\* navigate, or the editor's Maia: the same token guards their answers.
UseEditor ==
  /\ ClickMay
  /\ page.view = "editor" /\ page.asking # None
  /\ page' = [page EXCEPT !.asking = None]

\* selectIndependentChapter, which also opens the editor.
SelectChapter ==
  /\ ClickMay
  /\ page' = LET shown == [page EXCEPT !.attempt = None, !.asking = None]
              IN  [IF page.view = "preview" THEN RenderPreview(shown, doc) ELSE shown EXCEPT !.view = "editor"]

\* commit in the editor; undo and redo by the keyboard, also in the preview.
Edit(d) ==
  /\ May("edits")
  /\ doc' = d /\ d # doc
  /\ page' = LET unasked == [page EXCEPT !.asking = None]
              IN  IF page.view = "preview" THEN RenderPreview(unasked, d) ELSE unasked

Next ==
  \/ PositionShown \/ PositionFailed
  \/ Previous \/ NextPosition \/ Restart
  \/ OpenPreview \/ LeavePreview \/ UseEditor \/ SelectChapter
  \/ \E move \in Moves : TryPreviewMove(move)
  \/ \E c \in DOMAIN doc : ChooseChapter(c)
  \/ \E c \in DOMAIN doc : PreviewChapter(c)
  \/ \E d \in Docs : Edit(d)

Spec == Init /\ [][Next]_vars

-----------------------------------------------------------------------------
(* Properties.                                                             *)

\* The page's state has its types (the state object of studio.js).
TypeOK ==
  /\ doc \in Docs
  /\ page.view \in {"editor", "preview"}
  /\ page.chapter \in Nat \ {0} /\ page.index \in Nat \ {0}
  /\ {page.position, page.asking} \subseteq AllPositions \cup {None}
  /\ page.attempt # None =>
       page.attempt.correct \in BOOLEAN /\ {page.attempt.judged, page.attempt.board} \subseteq AllPositions

Settled == page.view = "preview" /\ page.asking = None /\ steps.faults = 0
Here == doc[page.chapter][page.index]

\* Once nothing is asked, the board and the card show the position the page
\* is at, through edits, undo, other chapters and answers that come late
\* (renderPreview), unless the chapter has none.
PreviewFollows ==
  Settled /\ (\E c \in DOMAIN doc : doc[c] # <<>>) =>
    /\ page.chapter \in DOMAIN doc
    /\ doc[page.chapter] # <<>> =>
         /\ page.index \in DOMAIN doc[page.chapter]
         /\ page.position = Here
         /\ page.card.position = Here

\* An answer that is shown was given to the position the page is at, and is
\* called right only when it is the answer the author wrote; it is hidden
\* until then (attemptPreviewMove, renderPreviewCard).
AnswersAreOfThis ==
  page.view = "preview" /\ page.attempt # None /\ page.index \in DOMAIN doc[page.chapter] =>
    /\ page.attempt.judged = Here
    /\ page.attempt.correct => page.attempt.move = Here.answer

\* docs/opening-drill-handoff.md:73: only a correct move enables the next
\* position.
OnlyCorrectAdvances ==
  [][page'.chapter = page.chapter /\ page'.index > page.index =>
       page.attempt # None /\ page.attempt.correct]_vars

\* docs/opening-drill-handoff.md:72: answers remain hidden until an attempted
\* move, one on the position they are of.
JudgesWhatItShows == page.attempt # None => page.attempt.judged = page.attempt.board
=============================================================================
