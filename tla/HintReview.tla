----------------------------- MODULE HintReview -----------------------------
(***************************************************************************)
(* The Hint Studio panel of the Studio: suggestions for the selected move  *)
(* are generated, judged and applied to the draft.  The panel is drawn     *)
(* anew at every edit and selection while its requests go on               *)
(* (renderHintStudio of studio.js); the server keeps a review under a      *)
(* version and changes it by compare-and-swap (update_review of            *)
(* hint_studio.py).                                                        *)
(*                                                                         *)
(* A review has one candidate; two equal requests are one; ratings,        *)
(* references and the limits of generation are left out. Saving is one     *)
(* step (its own steps are in StudioSave). MaxOpens, MaxClicks, MaxEdits,  *)
(* MaxSaves, MaxMoves and MaxFaults bound generations, operations, edits,  *)
(* saves, selections and answers that are lost.                            *)
(***************************************************************************)
EXTENDS Integers, FiniteSets

CONSTANTS Moves, Suggestions, OwnTexts, None, MaxOpens, MaxClicks, MaxEdits, MaxSaves, MaxMoves, MaxFaults

\* Suggestions and OwnTexts differ, and None is of neither.

VARIABLES tab,      \* the page
          asks,     \* its requests, with what the server said
          drafts,   \* the server's course: its revision
          reviews,  \* hint_reviews
          intents,  \* hint_review_events: what was applied, per the server
          written,  \* what the page wrote
          steps
vars == <<tab, asks, drafts, reviews, intents, written, steps>>

Texts == Suggestions \cup OwnTexts
Statuses == {"draft", "approved", "rejected"}
Kinds == {"opens", "clicks", "edits", "saves", "moves", "faults"}
Most == [opens |-> MaxOpens, clicks |-> MaxClicks, edits |-> MaxEdits, saves |-> MaxSaves, moves |-> MaxMoves, faults |-> MaxFaults]
May(kind) == steps[kind] < Most[kind] /\ steps' = [steps EXCEPT ![kind] = @ + 1]

Init ==
  /\ \E m \in Moves :
       tab = [node |-> m, hint |-> [o \in Moves |-> None], saved |-> TRUE, revision |-> 1,
              generation |-> 0, token |-> 0, panel |-> 0, generating |-> FALSE, view |-> None]
  /\ asks = {} /\ drafts = 1 /\ reviews = <<>> /\ intents = {} /\ written = {}
  /\ steps = [k \in Kinds |-> 0]

-----------------------------------------------------------------------------
(* The panel.                                                              *)

\* renderInspector: the panel is drawn anew.
Redrawn(t) == [t EXCEPT !.token = @ + 1, !.panel = @ + 1, !.generating = FALSE, !.view = None]

\* diagnosticContext, and openHintReview's token and move.
Ticket(t) == [token |-> t.token, node |-> t.node, revision |-> t.revision, generation |-> t.generation, hint |-> t.hint]
\* A bug of IsCurrent: the panel is not told from an earlier one.
IsCurrentAnywhere(ticket) == [Ticket(tab) EXCEPT !.token = ticket.token] = ticket
\* A bug of IsCurrent: the draft is compared and not the move.
IsCurrentDraft(ticket) == [Ticket(tab) EXCEPT !.token = ticket.token, !.node = ticket.node] = ticket
IsCurrent(ticket) == ticket = Ticket(tab)

\* A refusal has no version.
Refused == [version |-> 0]
Granted(a) == a.said.version # 0
Ask(kind, ticket) == [kind |-> kind, ticket |-> ticket, id |-> 0, version |-> 0, op |-> None, text |-> None, said |-> None, panel |-> tab.panel]
Elsewhere == UNCHANGED <<drafts, reviews, intents>>

\* openHintReview(true).
OpenHintReview ==
  /\ tab.saved
  /\ May("opens")
  /\ LET t == [tab EXCEPT !.token = @ + 1, !.generating = TRUE]
     IN  tab' = t /\ asks' = asks \cup {Ask("course", Ticket(t))}
  /\ Elsewhere /\ UNCHANGED written

\* What ends the generating of a panel: an error, which is shown, or the end.
Ended(ticket) == IF IsCurrent(ticket) THEN [tab EXCEPT !.generating = FALSE] ELSE tab

\* The course is read first; then suggestions are asked for.
CourseRead(a) ==
  /\ a \in asks /\ a.kind = "course" /\ a.said # None
  /\ IF IsCurrent(a.ticket) /\ a.said.revision = a.ticket.revision
     THEN asks' = (asks \ {a}) \cup {[a EXCEPT !.kind = "generate", !.said = None]} /\ UNCHANGED tab
     ELSE asks' = asks \ {a} /\ tab' = Ended(a.ticket)
  /\ Elsewhere /\ UNCHANGED <<written, steps>>

\* renderReview.
RenderReview(a) == [ticket |-> a.ticket, panel |-> a.panel, id |-> a.said.id, version |-> a.said.version,
                    text |-> a.said.text, status |-> a.said.status, box |-> a.said.text]
Generated(a) ==
  /\ a \in asks /\ a.kind = "generate" /\ a.said # None
  /\ asks' = asks \ {a}
  /\ tab' = IF IsCurrent(a.ticket) /\ Granted(a)
            THEN [Ended(a.ticket) EXCEPT !.view = RenderReview(a)]
            ELSE Ended(a.ticket)
  /\ Elsewhere /\ UNCHANGED <<written, steps>>

\* The author rewrites the text of the candidate in its box.
Rewrite(text) ==
  /\ tab.view # None /\ text # tab.view.box
  /\ May("clicks")
  /\ tab' = [tab EXCEPT !.view.box = text]
  /\ Elsewhere /\ UNCHANGED <<asks, written>>

Operation(op) ==
  [Ask(IF op = "apply" THEN "list" ELSE "update", tab.view.ticket) EXCEPT
     !.panel = tab.view.panel, !.id = tab.view.id, !.version = tab.view.version, !.op = op, !.text = IF op = "edit" THEN tab.view.box ELSE None]
\* update, and the click on Apply.
Click(op) ==
  /\ tab.view # None
  /\ IsCurrent(tab.view.ticket)
  /\ op = "apply" => tab.view.status = "approved"
  /\ May("clicks")
  /\ asks' = asks \cup {Operation(op)}
  /\ Elsewhere /\ UNCHANGED <<tab, written>>

\* An answer is kept by the view that asked; renderReview.
Updated(a) ==
  /\ a \in asks /\ a.kind = "update" /\ a.said # None
  /\ asks' = asks \ {a}
  /\ tab' = IF Granted(a) /\ IsCurrent(a.ticket)
            THEN [tab EXCEPT !.view = RenderReview(a)]
            ELSE tab
  /\ Elsewhere /\ UNCHANGED <<written, steps>>

\* Apply looks at the review as it is now.  The text applied is the saved one.
ListRead(a) ==
  LET agreed == /\ IsCurrent(a.ticket) /\ Granted(a) /\ tab.view.version = a.said.version
                /\ a.said.status = "approved" /\ tab.view.box = a.said.text
  IN  /\ a \in asks /\ a.kind = "list" /\ a.said # None
      /\ asks' = (asks \ {a}) \cup
           (IF agreed THEN {[a EXCEPT !.kind = "apply", !.version = tab.view.version, !.text = a.said.text, !.said = None]} ELSE {})
      /\ Elsewhere /\ UNCHANGED <<tab, written, steps>>

\* commit: what was edited is drawn anew and is not saved.
Commit(t, m, text) ==
  IF t.hint[m] = text THEN t
  ELSE Redrawn([t EXCEPT !.hint[m] = text, !.saved = FALSE, !.generation = @ + 1])
Applied(a) ==
  LET done == Granted(a) /\ IsCurrent(a.ticket)
      kept == [tab EXCEPT !.view.version = a.said.version]
  IN  /\ a \in asks /\ a.kind = "apply" /\ a.said # None
      /\ asks' = asks \ {a}
      /\ IF done THEN /\ tab' = Commit(kept, a.ticket.node, a.text)
                      /\ written' = written \cup {[id |-> a.id, node |-> a.ticket.node, text |-> a.text]}
         ELSE UNCHANGED <<tab, written>>
      /\ Elsewhere /\ UNCHANGED steps

\* An answer is lost.
AnswerLost(a) ==
  /\ a \in asks
  /\ May("faults")
  /\ asks' = asks \ {a}
  /\ tab' = IF a.kind \in {"course", "generate"} THEN Ended(a.ticket) ELSE tab
  /\ Elsewhere /\ UNCHANGED written

-----------------------------------------------------------------------------
(* The server.                                                             *)

Answer(a, said) == asks' = (asks \ {a}) \cup {[a EXCEPT !.said = said]}
Unanswered(a, kinds) == a \in asks /\ a.kind \in kinds /\ a.said = None

ServeCourse(a) ==
  /\ Unanswered(a, {"course"})
  /\ Answer(a, [version |-> 1, revision |-> drafts])
  /\ UNCHANGED <<tab, drafts, reviews, intents, written, steps>>
ServeGenerate(a, text) ==
  LET review == [id |-> Cardinality(DOMAIN reviews) + 1, node |-> a.ticket.node, revision |-> drafts, version |-> 1,
                 text |-> text, status |-> "draft"]
  IN  /\ Unanswered(a, {"generate"})
      /\ IF a.ticket.revision = drafts
         THEN Answer(a, review) /\ reviews' = [i \in DOMAIN reviews \cup {review.id} |-> IF i = review.id THEN review ELSE reviews[i]]
         ELSE Answer(a, Refused) /\ UNCHANGED reviews
      /\ UNCHANGED <<tab, drafts, intents, written, steps>>
ServeList(a) ==
  /\ Unanswered(a, {"list"})
  /\ Answer(a, IF a.ticket.revision = drafts THEN reviews[a.id] ELSE Refused)
  /\ UNCHANGED <<tab, drafts, reviews, intents, written, steps>>

\* A bug of Standing: the version is not compared.
StandingAny(a) == a.ticket.revision = drafts
Standing(a) == a.ticket.revision = drafts /\ reviews[a.id].version = a.version
\* A bug of After: the status is the operation.
AfterOperation(review, a) == [review EXCEPT !.version = @ + 1, !.text = IF a.op = "edit" THEN a.text ELSE @, !.status = a.op]
After(review, a) ==
  [review EXCEPT !.version = @ + 1,
     !.text = IF a.op = "edit" THEN a.text ELSE @,
     !.status = CASE a.op = "edit" -> "draft" [] a.op = "approve" -> "approved" [] a.op = "reject" -> "rejected" [] OTHER -> @]
\* update_review.
UpdateReview(a) ==
  /\ Unanswered(a, {"update", "apply"})
  /\ IF Standing(a) /\ (a.op = "apply" => reviews[a.id].status = "approved")
     THEN /\ reviews' = [reviews EXCEPT ![a.id] = After(@, a)]
          /\ Answer(a, reviews'[a.id])
          /\ intents' = IF a.op = "apply" THEN intents \cup {[id |-> a.id, node |-> reviews[a.id].node, text |-> reviews[a.id].text]} ELSE intents
     ELSE Answer(a, Refused) /\ UNCHANGED <<reviews, intents>>
  /\ UNCHANGED <<tab, drafts, written, steps>>

-----------------------------------------------------------------------------
(* The author, elsewhere.                                                  *)

Navigate(m) ==
  /\ m # tab.node
  /\ May("moves")
  /\ tab' = Redrawn([tab EXCEPT !.node = m])
  /\ Elsewhere /\ UNCHANGED <<asks, written>>
Edit(m, text) ==
  /\ text # tab.hint[m]
  /\ May("edits")
  /\ tab' = Commit(tab, m, text)
  /\ Elsewhere /\ UNCHANGED <<asks, written>>
\* markPendingInput: what is typed is taken back before it is committed.
Type ==
  /\ May("edits")
  /\ tab' = [tab EXCEPT !.generation = @ + 1]
  /\ Elsewhere /\ UNCHANGED <<asks, written>>
\* performSaveDraft, answered.
Save ==
  /\ ~tab.saved
  /\ tab.revision = drafts
  /\ May("saves")
  /\ tab' = [tab EXCEPT !.saved = TRUE, !.revision = @ + 1] /\ drafts' = drafts + 1
  /\ UNCHANGED <<asks, reviews, intents, written>>
\* Another page saves the course.
SaveElsewhere ==
  /\ May("saves")
  /\ drafts' = drafts + 1
  /\ UNCHANGED <<tab, asks, reviews, intents, written>>

AnswerStep == \E a \in asks :
  CourseRead(a) \/ Generated(a) \/ Updated(a) \/ ListRead(a) \/ Applied(a) \/ AnswerLost(a)
ServerStep == \E a \in asks :
  ServeCourse(a) \/ ServeList(a) \/ UpdateReview(a) \/ (\E text \in Suggestions : ServeGenerate(a, text))
AuthorStep ==
  \/ OpenHintReview
  \/ \E text \in OwnTexts : Rewrite(text)
  \/ \E op \in {"edit", "approve", "reject", "apply"} : Click(op)
  \/ \E m \in Moves : Navigate(m)
  \/ \E m \in Moves, text \in OwnTexts : Edit(m, text)
  \/ Type \/ Save \/ SaveElsewhere

Next == AnswerStep \/ ServerStep \/ AuthorStep
Spec == Init /\ [][Next]_vars

-----------------------------------------------------------------------------
(* Properties.                                                             *)

\* The page and the reviews have their types (renderReview, the record of
\* hint_studio.py).
TypeOK ==
  /\ tab.node \in Moves /\ tab.hint \in [Moves -> Texts \cup {None}]
  /\ tab.generating \in BOOLEAN
  /\ tab.view # None => tab.view.status \in Statuses /\ tab.view.box \in Texts
  /\ \A i \in DOMAIN reviews : reviews[i].status \in Statuses /\ reviews[i].text \in Texts /\ reviews[i].node \in Moves

\* studio.js:1131: "A replacement panel must never receive an earlier panel's
\* response."  The suggestions in a panel were asked for in it, also after the
\* author has come back to the move.
OwnPanel == tab.view # None => tab.view.panel = tab.panel

\* A suggestion the page writes was applied as that very text and for that
\* move by the server, whoever judged and rewrote it meanwhile.
WrittenWasApplied == written \subseteq intents

\* Suggestions are shown of the move that is selected.
OfThisMove == tab.view # None => tab.view.ticket.node = tab.node /\ reviews[tab.view.id].node = tab.node

\* studio.js:1145: "Analyzing and generating…"  A panel that says so has a
\* request.
GeneratingEnds == tab.generating => \E a \in asks : a.kind \in {"course", "generate"}

\* studio.js:1168: "Approval or draft changed; reload the review."  While
\* nothing is asked, a review that may be judged is shown as the server has it.
ReviewKnown ==
  tab.view # None /\ asks = {} /\ IsCurrent(tab.view.ticket) /\ tab.revision = drafts =>
    reviews[tab.view.id].version = tab.view.version
=============================================================================
