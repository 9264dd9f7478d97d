--------------------------- MODULE HintReviewProofs ---------------------------
(***************************************************************************)
(* Theorems about the hint panel, for any moves, texts and bounds: a panel *)
(* shows what was asked for in it and what is of its move, and what the    *)
(* page writes into a course is what the server applied.                   *)
(***************************************************************************)
EXTENDS HintReview, FiniteSetTheorems, TLAPS

(***************************************************************************)
(* The reviews on the server, and how they may change: a version has one   *)
(* text and a review one move.                                             *)
(***************************************************************************)
ReviewType(r) ==
  /\ r = [id |-> r.id, node |-> r.node, revision |-> r.revision, version |-> r.version,
          text |-> r.text, status |-> r.status]
  /\ r.node \in Moves /\ r.version \in Nat \ {0} /\ r.text \in Texts /\ r.status \in Statuses
StoreInv(rs) ==
  /\ \E n \in Nat : DOMAIN rs = 1..n
  /\ rs = [i \in DOMAIN rs |-> rs[i]]
  /\ \A i \in DOMAIN rs : ReviewType(rs[i]) /\ rs[i].id = i
Grown(rs, more) ==
  /\ DOMAIN rs \subseteq DOMAIN more
  /\ \A i \in DOMAIN rs :
       /\ more[i].node = rs[i].node /\ more[i].version >= rs[i].version
       /\ more[i].version = rs[i].version => more[i].text = rs[i].text

\* A text that was read at a version is the review's while that is its version.
Read(i, version, text, rs) ==
  /\ i \in DOMAIN rs /\ version \in Nat /\ text \in Texts /\ version <= rs[i].version
  /\ version = rs[i].version => text = rs[i].text

(***************************************************************************)
(* The page and the view of its panel.                                     *)
(***************************************************************************)
TabType(t) ==
  /\ t = [node |-> t.node, hint |-> t.hint, saved |-> t.saved, revision |-> t.revision, generation |-> t.generation,
          token |-> t.token, panel |-> t.panel, generating |-> t.generating, view |-> t.view]
  /\ t.node \in Moves /\ t.hint \in [Moves -> Texts \cup {None}] /\ t.generating \in BOOLEAN
  /\ t.token \in Nat /\ t.panel \in Nat
ViewInv(t, rs) ==
  /\ t.view = [ticket |-> t.view.ticket, panel |-> t.view.panel, id |-> t.view.id, version |-> t.view.version,
               text |-> t.view.text, status |-> t.view.status, box |-> t.view.box]
  /\ t.view.panel = t.panel /\ t.view.ticket.node = t.node /\ t.view.ticket.token <= t.token
  /\ t.view.ticket.token \in Nat
  /\ t.view.status \in Statuses /\ t.view.box \in Texts
  /\ t.view.id \in DOMAIN rs /\ rs[t.view.id].node = t.node

(***************************************************************************)
(* A request of a panel, whose token is not newer than the page's.  If it  *)
(* is the page's, the panel is the one that asked, and what it judges is   *)
(* in view.                                                                *)
(***************************************************************************)
OfReview == {"update", "list", "apply"}
AskInv(a, t, rs, done) ==
  /\ a = [kind |-> a.kind, ticket |-> a.ticket, id |-> a.id, version |-> a.version, op |-> a.op, text |-> a.text,
          said |-> a.said, panel |-> a.panel]
  /\ a.kind \in {"course", "generate"} \cup OfReview
  /\ a.ticket.token \in Nat /\ a.ticket.token <= t.token /\ a.ticket.node \in Moves
  /\ a.ticket.token = t.token => a.panel = t.panel /\ a.ticket.node = t.node
  /\ a.kind \in OfReview => a.id \in DOMAIN rs /\ rs[a.id].node = a.ticket.node
  /\ a.kind \in OfReview /\ a.ticket.token = t.token => ViewInv(t, rs)
  /\ a.kind = "update" => a.op \in {"edit", "approve", "reject"} /\ (a.op = "edit" => a.text \in Texts)
  /\ a.kind \in {"list", "apply"} => a.op = "apply"
  /\ a.kind = "apply" => Read(a.id, a.version, a.text, rs)
  /\ a.said # None /\ a.said.version # 0 /\ a.kind \in {"generate"} \cup OfReview =>
       /\ a.said.id \in DOMAIN rs /\ rs[a.said.id].node = a.ticket.node
       /\ a.said.status \in Statuses /\ Read(a.said.id, a.said.version, a.said.text, rs)
       /\ a.kind \in OfReview => a.said.id = a.id
       /\ a.kind = "apply" => [id |-> a.id, node |-> a.ticket.node, text |-> a.text] \in done

PanelInv ==
  /\ TabType(tab) /\ StoreInv(reviews)
  /\ tab.view # None => ViewInv(tab, reviews)
  /\ \A a \in asks : AskInv(a, tab, reviews, intents)
  /\ written \subseteq intents

-----------------------------------------------------------------------------
(* What a change of the page, or of the reviews, leaves of a request.      *)

\* A request stays what it is while the panel and its token stay.
LEMMA AskKept ==
  ASSUME NEW a, NEW t, NEW u, NEW rs, NEW done, AskInv(a, t, rs, done),
         u.token = t.token, u.panel = t.panel, u.node = t.node, ViewInv(t, rs) => ViewInv(u, rs)
  PROVE  AskInv(a, u, rs, done)
BY DEF AskInv

\* It is of an earlier panel when the token is renewed.
LEMMA AskPassed ==
  ASSUME NEW a, NEW t, NEW u, NEW rs, NEW done,
         AskInv(a, t, rs, done), t.token \in Nat, u.token \in Nat, u.token > t.token
  PROVE  AskInv(a, u, rs, done)
BY DEF AskInv

\* What was read of a review stays so when reviews change or come.
LEMMA ReadGrown ==
  ASSUME NEW rs, NEW more, StoreInv(rs), StoreInv(more), Grown(rs, more), NEW i, NEW v, NEW x, Read(i, v, x, rs)
  PROVE  Read(i, v, x, more)
<1>1. rs[i].version \in Nat /\ more[i].version \in Nat
  BY DEF StoreInv, ReviewType, Grown, Read
<1>2. QED  BY <1>1 DEF Grown, Read

\* So does what a panel has in view.
LEMMA ViewGrown ==
  ASSUME NEW t, NEW rs, NEW more, Grown(rs, more), ViewInv(t, rs)
  PROVE  ViewInv(t, more)
BY DEF Grown, ViewInv

\* A request knows what it knew when reviews and what was done have grown.
LEMMA AskGrown ==
  ASSUME NEW a, NEW t, NEW rs, NEW more, NEW done, NEW later, AskInv(a, t, rs, done),
         StoreInv(rs), StoreInv(more), Grown(rs, more), done \subseteq later
  PROVE  AskInv(a, t, more, later)
<1>1. \A i \in DOMAIN rs : i \in DOMAIN more /\ more[i].node = rs[i].node
  BY DEF Grown
<1>2. \A i, v, x : Read(i, v, x, rs) => Read(i, v, x, more)
  BY ReadGrown
<1>3. ViewInv(t, rs) => ViewInv(t, more)
  BY ViewGrown
<1>4. QED  BY <1>1, <1>2, <1>3 DEF AskInv

\* A step of the page keeps the invariant, if the requests that are new have
\* their form and what is in view is of the panel.
LEMMA PageStep ==
  ASSUME PanelInv, NEW u, tab' = u, TabType(u), UNCHANGED <<reviews, intents>>,
         \/ u.token > tab.token
         \/ /\ u.token = tab.token /\ u.panel = tab.panel /\ u.node = tab.node
            /\ ViewInv(tab, reviews) => ViewInv(u, reviews),
         u.view # None => ViewInv(u, reviews),
         \A a \in asks' : a \in asks \/ AskInv(a, u, reviews, intents),
         written' \subseteq intents
  PROVE  PanelInv'
<1>1. tab.token \in Nat /\ u.token \in Nat
  BY DEF PanelInv, TabType
<1>2. \A a \in asks : AskInv(a, u, reviews, intents)
  BY <1>1, AskKept, AskPassed DEF PanelInv
<1>3. QED  BY <1>2 DEF PanelInv

\* A step of the server keeps it, if reviews only grow.
LEMMA ServerKeeps ==
  ASSUME PanelInv, UNCHANGED <<tab, written>>, StoreInv(reviews'),
         Grown(reviews, reviews'), intents \subseteq intents',
         \A a \in asks' : a \in asks \/ AskInv(a, tab, reviews', intents')
  PROVE  PanelInv'
<1>1. \A a \in asks : AskInv(a, tab, reviews', intents')
  BY AskGrown DEF PanelInv
<1>2. ViewInv(tab, reviews) => ViewInv(tab, reviews')
  BY ViewGrown
<1>3. QED  BY <1>1, <1>2 DEF PanelInv

-----------------------------------------------------------------------------
(* The panel's own steps.                                                  *)

\* A panel that is drawn anew has its type, a later token and no view.
LEMMA RedrawnTypes ==
  ASSUME NEW t, TabType(t)
  PROVE  TabType(Redrawn(t)) /\ Redrawn(t).token > t.token /\ Redrawn(t).view = None
<1>1. PICK u : u = [t EXCEPT !.token = @ + 1, !.panel = @ + 1, !.generating = FALSE, !.view = None]
  OBVIOUS
<1>2. /\ u.token = t.token + 1 /\ u.panel = t.panel + 1 /\ u.node = t.node /\ u.view = None
      /\ u.hint = t.hint /\ u.generating = FALSE
      /\ u = [node |-> u.node, hint |-> u.hint, saved |-> u.saved, revision |-> u.revision, generation |-> u.generation,
              token |-> u.token, panel |-> u.panel, generating |-> u.generating, view |-> u.view]
  BY <1>1 DEF TabType
<1>3. TabType(u)
  <2>1. u.generating \in BOOLEAN
    BY <1>2
  <2>2. t.node \in Moves /\ t.hint \in [Moves -> Texts \cup {None}] /\ t.token \in Nat /\ t.panel \in Nat
    BY DEF TabType
  <2>3. QED  BY <1>2, <2>1, <2>2 DEF TabType
<1>4. QED  BY <1>1, <1>2, <1>3 DEF Redrawn, TabType

\* A panel that has ended, or goes on, is the same panel.
LEMMA EndedTypes ==
  ASSUME PanelInv, NEW ticket
  PROVE  LET u == Ended(ticket) IN
         /\ TabType(u) /\ u.token = tab.token /\ u.panel = tab.panel /\ u.node = tab.node /\ u.view = tab.view
         /\ ViewInv(tab, reviews) => ViewInv(u, reviews)
<1>1. TabType(tab)
  BY DEF PanelInv
<1>2. CASE ~IsCurrent(ticket)
  BY <1>1, <1>2 DEF Ended
<1>3. CASE IsCurrent(ticket)
  <2>1. PICK u : u = [tab EXCEPT !.generating = FALSE]
    OBVIOUS
  <2>2. TabType(u) /\ u.token = tab.token /\ u.panel = tab.panel /\ u.node = tab.node /\ u.view = tab.view
    BY <1>1, <2>1 DEF TabType
  <2>3. ViewInv(tab, reviews) => ViewInv(u, reviews)
    BY <2>2 DEF ViewInv
  <2>4. QED  BY <1>3, <2>1, <2>2, <2>3 DEF Ended
<1>4. QED  BY <1>2, <1>3

\* A request that is current has the page's token.
LEMMA CurrentToken ==
  ASSUME NEW ticket, IsCurrent(ticket)
  PROVE  ticket.token = tab.token /\ ticket.node = tab.node
BY DEF IsCurrent, Ticket

\* PanelInv holds in the page that has been loaded.
LEMMA InitPanel == ASSUME Init PROVE PanelInv
<1>1. PICK m \in Moves :
        tab = [node |-> m, hint |-> [o \in Moves |-> None], saved |-> TRUE, revision |-> 1,
               generation |-> 0, token |-> 0, panel |-> 0, generating |-> FALSE, view |-> None]
  BY DEF Init
<1>2. TabType(tab) /\ tab.view = None
  BY <1>1 DEF TabType
<1>3. StoreInv(reviews)
  <2>1. reviews = <<>> /\ DOMAIN reviews = 1..0 /\ 0 \in Nat
    BY DEF Init
  <2>2. QED  BY <2>1 DEF StoreInv
<1>4. QED  BY <1>2, <1>3 DEF Init, PanelInv

\* A panel is opened with a number of its own, and no request is of it yet.
LEMMA OpenStep == ASSUME PanelInv, OpenHintReview PROVE PanelInv'
<1>1. PICK t : t = [tab EXCEPT !.token = @ + 1, !.generating = TRUE]
  OBVIOUS
<1>2. /\ tab' = t /\ asks' = asks \cup {Ask("course", Ticket(t))} /\ UNCHANGED <<reviews, intents, written>>
  BY <1>1 DEF OpenHintReview, Elsewhere
<1>3. /\ TabType(t) /\ t.token = tab.token + 1 /\ t.token > tab.token /\ t.panel = tab.panel /\ t.node = tab.node
      /\ t.view = tab.view /\ tab.token \in Nat
  <2>1. TabType(tab)
    BY DEF PanelInv
  <2>2. /\ t.token = tab.token + 1 /\ t.panel = tab.panel /\ t.node = tab.node /\ t.view = tab.view
        /\ t.hint = tab.hint /\ t.generating = TRUE
        /\ t = [node |-> t.node, hint |-> t.hint, saved |-> t.saved, revision |-> t.revision, generation |-> t.generation,
                token |-> t.token, panel |-> t.panel, generating |-> t.generating, view |-> t.view]
    BY <1>1, <2>1 DEF TabType
  <2>3. t.generating \in BOOLEAN
    BY <2>2
  <2>4. tab.node \in Moves /\ tab.hint \in [Moves -> Texts \cup {None}] /\ tab.token \in Nat /\ tab.panel \in Nat
    BY <2>1 DEF TabType
  <2>5. TabType(t)
    BY <2>2, <2>3, <2>4 DEF TabType
  <2>6. QED  BY <2>2, <2>4, <2>5
<1>4. ViewInv(tab, reviews) => ViewInv(t, reviews)
  BY <1>3 DEF ViewInv
<1>5. PICK a : a = Ask("course", Ticket(t))
  OBVIOUS
<1>6. /\ a = [kind |-> "course", ticket |-> Ticket(t), id |-> 0, version |-> 0, op |-> None, text |-> None,
              said |-> None, panel |-> tab.panel]
      /\ Ticket(t).token = t.token /\ Ticket(t).node = t.node
  BY <1>5 DEF Ask, Ticket
<1>7. AskInv(a, t, reviews, intents)
  BY <1>3, <1>6 DEF AskInv, OfReview, TabType
<1>8. QED  BY <1>2, <1>3, <1>4, <1>5, <1>7, PageStep DEF PanelInv

\* A request of the page's token is of its panel and its move.
LEMMA OfThePanel ==
  ASSUME PanelInv, NEW a \in asks, IsCurrent(a.ticket)
  PROVE  /\ a.ticket.token = tab.token /\ a.ticket.node = tab.node /\ a.panel = tab.panel
         /\ a.kind \in OfReview => ViewInv(tab, reviews)
<1>1. AskInv(a, tab, reviews, intents)
  BY DEF PanelInv
<1>2. a.ticket.token = tab.token /\ a.ticket.node = tab.node
  BY CurrentToken
<1>3. QED  BY <1>1, <1>2 DEF AskInv

\* An answer that is granted is shown: it is a review of this panel's move.
LEMMA ShownReview ==
  ASSUME PanelInv, NEW a \in asks, a.kind \in {"generate", "update"}, a.said # None, Granted(a),
         IsCurrent(a.ticket),
         NEW t, TabType(t), t.token = tab.token, t.panel = tab.panel, t.node = tab.node,
         NEW u, u = [t EXCEPT !.view = RenderReview(a)]
  PROVE  /\ TabType(u) /\ ViewInv(u, reviews)
         /\ u.token = tab.token /\ u.panel = tab.panel /\ u.node = tab.node
<1>1. AskInv(a, tab, reviews, intents)
  BY DEF PanelInv
<1>2. a.ticket.token = tab.token /\ a.ticket.node = tab.node /\ a.panel = tab.panel
  BY OfThePanel
<1>3. /\ a.said.id \in DOMAIN reviews /\ reviews[a.said.id].node = a.ticket.node
      /\ a.said.status \in Statuses /\ Read(a.said.id, a.said.version, a.said.text, reviews)
  BY <1>1 DEF AskInv, Granted, OfReview
<1>4. a.said.text \in Texts /\ a.ticket.token \in Nat /\ tab.token \in Nat
  BY <1>1, <1>3 DEF Read, AskInv, PanelInv, TabType
<1>5. PICK v : v = [ticket |-> a.ticket, panel |-> a.panel, id |-> a.said.id, version |-> a.said.version,
                    text |-> a.said.text, status |-> a.said.status, box |-> a.said.text]
  OBVIOUS
<1>6. v = RenderReview(a)
  BY <1>5 DEF RenderReview
<1>7. u = [t EXCEPT !.view = v]
  BY <1>6
<1>8. /\ u.token = tab.token /\ u.panel = tab.panel /\ u.node = tab.node /\ u.view = v
      /\ u.hint = t.hint /\ u.generating = t.generating
      /\ u = [node |-> u.node, hint |-> u.hint, saved |-> u.saved, revision |-> u.revision, generation |-> u.generation,
              token |-> u.token, panel |-> u.panel, generating |-> u.generating, view |-> u.view]
  BY <1>7 DEF TabType
<1>9. TabType(u)
  <2>1. t.generating \in BOOLEAN /\ t.node \in Moves /\ t.hint \in [Moves -> Texts \cup {None}]
        /\ t.token \in Nat /\ t.panel \in Nat
    BY DEF TabType
  <2>2. u.generating \in BOOLEAN
    BY <1>8, <2>1
  <2>3. QED  BY <1>8, <2>1, <2>2 DEF TabType
<1>10. /\ v = [ticket |-> v.ticket, panel |-> v.panel, id |-> v.id, version |-> v.version,
              text |-> v.text, status |-> v.status, box |-> v.box]
       /\ v.panel = tab.panel /\ v.ticket.node = tab.node /\ v.ticket.token = tab.token
       /\ v.status \in Statuses /\ v.box \in Texts /\ v.id \in DOMAIN reviews /\ reviews[v.id].node = tab.node
  BY <1>2, <1>3, <1>4, <1>5
<1>11. ViewInv(u, reviews)
  BY <1>4, <1>8, <1>10 DEF ViewInv
<1>12. QED  BY <1>8, <1>9, <1>11

\* The answer to a generation is shown in the panel that asked for it.
LEMMA GeneratedStep == ASSUME PanelInv, NEW a \in asks, Generated(a) PROVE PanelInv'
<1>1. asks' = asks \ {a} /\ UNCHANGED <<reviews, intents, written>> /\ a.kind = "generate" /\ a.said # None
  BY DEF Generated, Elsewhere
<1>2. PICK t : t = Ended(a.ticket)
  OBVIOUS
<1>3. /\ TabType(t) /\ t.token = tab.token /\ t.panel = tab.panel /\ t.node = tab.node /\ t.view = tab.view
      /\ ViewInv(tab, reviews) => ViewInv(t, reviews)
  BY <1>2, EndedTypes
<1>4. written' \subseteq intents /\ tab.view # None => ViewInv(tab, reviews)
  BY <1>1 DEF PanelInv
<1>5. CASE IsCurrent(a.ticket) /\ Granted(a)
  <2>1. PICK u : u = [t EXCEPT !.view = RenderReview(a)]
    OBVIOUS
  <2>2. tab' = u
    BY <1>2, <1>5, <2>1 DEF Generated
  <2>3. TabType(u) /\ ViewInv(u, reviews) /\ u.token = tab.token /\ u.panel = tab.panel /\ u.node = tab.node
    BY <1>1, <1>3, <1>5, <2>1, ShownReview
  <2>4. QED  BY <1>1, <1>4, <2>2, <2>3, PageStep DEF PanelInv
<1>6. CASE ~(IsCurrent(a.ticket) /\ Granted(a))
  <2>1. tab' = t
    BY <1>2, <1>6 DEF Generated
  <2>2. t.view # None => ViewInv(t, reviews)
    BY <1>3 DEF PanelInv
  <2>3. QED  BY <1>1, <1>3, <2>1, <2>2, PageStep DEF PanelInv
<1>7. QED  BY <1>5, <1>6

\* The answer to a decision is shown in the panel that asked for it.
LEMMA UpdatedStep == ASSUME PanelInv, NEW a \in asks, Updated(a) PROVE PanelInv'
<1>1. asks' = asks \ {a} /\ UNCHANGED <<reviews, intents, written>> /\ a.kind = "update" /\ a.said # None
  BY DEF Updated, Elsewhere
<1>2. TabType(tab) /\ (tab.view # None => ViewInv(tab, reviews)) /\ written' \subseteq intents
  BY <1>1 DEF PanelInv
<1>3. CASE IsCurrent(a.ticket) /\ Granted(a)
  <2>1. PICK u : u = [tab EXCEPT !.view = RenderReview(a)]
    OBVIOUS
  <2>2. tab' = u
    BY <1>3, <2>1 DEF Updated
  <2>3. TabType(u) /\ ViewInv(u, reviews) /\ u.token = tab.token /\ u.panel = tab.panel /\ u.node = tab.node
    BY <1>1, <1>2, <1>3, <2>1, ShownReview
  <2>4. QED  BY <1>1, <1>2, <2>2, <2>3, PageStep
<1>4. CASE ~(IsCurrent(a.ticket) /\ Granted(a))
  <2>1. tab' = tab
    BY <1>4 DEF Updated
  <2>2. QED  BY <1>1, <1>2, <2>1, PageStep
<1>5. QED  BY <1>3, <1>4

\* The course has been read for a suggestion that is to be applied.
LEMMA CourseReadStep == ASSUME PanelInv, NEW a \in asks, CourseRead(a) PROVE PanelInv'
<1>1. UNCHANGED <<reviews, intents, written>> /\ a.kind = "course"
  BY DEF CourseRead, Elsewhere
<1>2. TabType(tab) /\ (tab.view # None => ViewInv(tab, reviews)) /\ written' \subseteq intents
      /\ AskInv(a, tab, reviews, intents)
  BY <1>1 DEF PanelInv
<1>3. CASE IsCurrent(a.ticket) /\ a.said.revision = a.ticket.revision
  <2>1. PICK b : b = [a EXCEPT !.kind = "generate", !.said = None]
    OBVIOUS
  <2>2. asks' = (asks \ {a}) \cup {b} /\ tab' = tab
    BY <1>3, <2>1 DEF CourseRead
  <2>3. /\ b = [kind |-> "generate", ticket |-> a.ticket, id |-> a.id, version |-> a.version, op |-> a.op,
               text |-> a.text, said |-> None, panel |-> a.panel]
    BY <1>2, <2>1 DEF AskInv
  <2>4. AskInv(b, tab, reviews, intents)
    BY <1>2, <2>3 DEF AskInv, OfReview
  <2>5. QED  BY <1>1, <1>2, <2>2, <2>4, PageStep
<1>4. CASE ~(IsCurrent(a.ticket) /\ a.said.revision = a.ticket.revision)
  <2>1. PICK t : t = Ended(a.ticket)
    OBVIOUS
  <2>2. asks' = asks \ {a} /\ tab' = t
    BY <1>4, <2>1 DEF CourseRead
  <2>3. /\ TabType(t) /\ t.token = tab.token /\ t.panel = tab.panel /\ t.node = tab.node /\ t.view = tab.view
        /\ ViewInv(tab, reviews) => ViewInv(t, reviews)
    BY <2>1, EndedTypes
  <2>4. QED  BY <1>1, <1>2, <2>2, <2>3, PageStep
<1>5. QED  BY <1>3, <1>4

\* An answer is lost.
LEMMA LostStep == ASSUME PanelInv, NEW a \in asks, AnswerLost(a) PROVE PanelInv'
<1>1. UNCHANGED <<reviews, intents, written>> /\ asks' = asks \ {a}
  BY DEF AnswerLost, Elsewhere
<1>2. TabType(tab) /\ (tab.view # None => ViewInv(tab, reviews)) /\ written' \subseteq intents
  BY <1>1 DEF PanelInv
<1>3. PICK t : t = Ended(a.ticket)
  OBVIOUS
<1>4. /\ TabType(t) /\ t.token = tab.token /\ t.panel = tab.panel /\ t.node = tab.node /\ t.view = tab.view
      /\ ViewInv(tab, reviews) => ViewInv(t, reviews)
  BY <1>3, EndedTypes
<1>5. CASE tab' = t
  BY <1>1, <1>2, <1>4, <1>5, PageStep
<1>6. CASE tab' = tab
  BY <1>1, <1>2, <1>6, PageStep
<1>7. QED  BY <1>3, <1>5, <1>6 DEF AnswerLost

-----------------------------------------------------------------------------
(* What is judged and applied.                                             *)

\* The author rewrites the candidate in the panel.
LEMMA RewriteStep == ASSUME PanelInv, NEW text \in OwnTexts, Rewrite(text) PROVE PanelInv'
<1>1. UNCHANGED <<reviews, intents, written, asks>> /\ tab.view # None
  BY DEF Rewrite, Elsewhere
<1>2. TabType(tab) /\ ViewInv(tab, reviews) /\ written' \subseteq intents
  BY <1>1 DEF PanelInv
<1>3. PICK v : v = [tab.view EXCEPT !.box = text]
  OBVIOUS
<1>4. PICK u : u = [tab EXCEPT !.view = v]
  OBVIOUS
<1>5. tab' = u
  BY <1>3, <1>4 DEF Rewrite
<1>6. /\ u.token = tab.token /\ u.panel = tab.panel /\ u.node = tab.node /\ u.view = v
      /\ u.hint = tab.hint /\ u.generating = tab.generating
      /\ u = [node |-> u.node, hint |-> u.hint, saved |-> u.saved, revision |-> u.revision, generation |-> u.generation,
              token |-> u.token, panel |-> u.panel, generating |-> u.generating, view |-> u.view]
  BY <1>2, <1>4 DEF TabType
<1>7. TabType(u)
  <2>1. tab.generating \in BOOLEAN /\ tab.node \in Moves /\ tab.hint \in [Moves -> Texts \cup {None}]
        /\ tab.token \in Nat /\ tab.panel \in Nat
    BY <1>2 DEF TabType
  <2>2. u.generating \in BOOLEAN
    BY <1>6, <2>1
  <2>3. QED  BY <1>6, <2>1, <2>2 DEF TabType
<1>8. /\ v = [ticket |-> v.ticket, panel |-> v.panel, id |-> v.id, version |-> v.version,
             text |-> v.text, status |-> v.status, box |-> v.box]
      /\ v.panel = tab.view.panel /\ v.ticket = tab.view.ticket /\ v.id = tab.view.id
      /\ v.status = tab.view.status /\ v.box = text
  BY <1>2, <1>3 DEF ViewInv
<1>9. ViewInv(u, reviews)
  BY <1>2, <1>6, <1>8 DEF ViewInv, Texts
<1>10. QED  BY <1>1, <1>2, <1>5, <1>6, <1>7, <1>9, PageStep

\* A decision is asked for, of the review and version that are shown.
LEMMA ClickStep == ASSUME PanelInv, NEW op \in {"edit", "approve", "reject", "apply"}, Click(op) PROVE PanelInv'
<1>1. UNCHANGED <<reviews, intents, written, tab>> /\ tab.view # None
  BY DEF Click, Elsewhere
<1>2. TabType(tab) /\ ViewInv(tab, reviews) /\ written' \subseteq intents
  BY <1>1 DEF PanelInv
<1>3. PICK b : b = Operation(op)
  OBVIOUS
<1>4. asks' = asks \cup {b}
  BY <1>3 DEF Click
<1>5. b = [kind |-> IF op = "apply" THEN "list" ELSE "update", ticket |-> tab.view.ticket, id |-> tab.view.id,
           version |-> tab.view.version, op |-> op, text |-> IF op = "edit" THEN tab.view.box ELSE None,
           said |-> None, panel |-> tab.view.panel]
  BY <1>3 DEF Operation, Ask
<1>6. AskInv(b, tab, reviews, intents)
  <2>1. b.ticket.token \in Nat /\ b.ticket.token <= tab.token /\ b.ticket.node \in Moves
        /\ b.panel = tab.panel /\ b.ticket.node = tab.node /\ b.said = None
    BY <1>2, <1>5 DEF TabType, ViewInv
  <2>2. b.id \in DOMAIN reviews /\ reviews[b.id].node = b.ticket.node
    BY <1>2, <1>5 DEF ViewInv
  <2>3. /\ b.kind \in {"update", "list"}
        /\ b.kind = "update" => b.op \in {"edit", "approve", "reject"} /\ (b.op = "edit" => b.text \in Texts)
        /\ b.kind = "list" => b.op = "apply"
    BY <1>2, <1>5 DEF ViewInv
  <2>4. b = [kind |-> b.kind, ticket |-> b.ticket, id |-> b.id, version |-> b.version, op |-> b.op, text |-> b.text,
             said |-> b.said, panel |-> b.panel]
    BY <1>5
  <2>5. QED  BY <1>2, <2>1, <2>2, <2>3, <2>4 DEF AskInv, OfReview
<1>7. QED  BY <1>1, <1>2, <1>4, <1>6, PageStep

\* A review that is approved, and as the panel shows it, is applied next.
LEMMA ListReadStep == ASSUME PanelInv, NEW a \in asks, ListRead(a) PROVE PanelInv'
<1>1. UNCHANGED <<reviews, intents, written, tab>> /\ a.kind = "list" /\ a.said # None
  BY DEF ListRead, Elsewhere
<1>2. TabType(tab) /\ (tab.view # None => ViewInv(tab, reviews)) /\ written' \subseteq intents
      /\ AskInv(a, tab, reviews, intents)
  BY <1>1 DEF PanelInv
<1>3. CASE asks' = asks \ {a}
  BY <1>1, <1>2, <1>3, PageStep
<1>4. CASE asks' # asks \ {a}
  <2>1. IsCurrent(a.ticket) /\ Granted(a) /\ tab.view.version = a.said.version
    BY <1>4 DEF ListRead
  <2>2. PICK b : b = [a EXCEPT !.kind = "apply", !.version = tab.view.version, !.text = a.said.text, !.said = None]
    OBVIOUS
  <2>3. asks' = (asks \ {a}) \cup {b}
    BY <1>4, <2>2 DEF ListRead
  <2>4. b = [kind |-> "apply", ticket |-> a.ticket, id |-> a.id, version |-> tab.view.version, op |-> a.op,
             text |-> a.said.text, said |-> None, panel |-> a.panel]
    BY <1>2, <2>2 DEF AskInv
  <2>5. ViewInv(tab, reviews) /\ a.op = "apply"
    BY <1>1, <1>2, <2>1, OfThePanel DEF AskInv, OfReview
  <2>6. Read(a.id, tab.view.version, a.said.text, reviews) /\ a.id \in DOMAIN reviews /\ reviews[a.id].node = a.ticket.node
    BY <1>1, <1>2, <2>1 DEF AskInv, OfReview, Granted
  <2>7. AskInv(b, tab, reviews, intents)
    BY <1>2, <2>4, <2>5, <2>6 DEF AskInv, OfReview
  <2>8. QED  BY <1>1, <1>2, <2>3, <2>7, PageStep
<1>5. QED  BY <1>3, <1>4

\* What is edited is kept as it is or is drawn anew.
LEMMA CommitTypes ==
  ASSUME NEW t, TabType(t), NEW m \in Moves, NEW text \in Texts, NEW u, u = Commit(t, m, text)
  PROVE  TabType(u) /\ (u = t \/ (u.token > t.token /\ u.view = None))
<1>1. CASE t.hint[m] = text
  BY <1>1 DEF Commit
<1>2. CASE t.hint[m] # text
  <2>1. PICK w : w = [t EXCEPT !.hint[m] = text, !.saved = FALSE, !.generation = @ + 1]
    OBVIOUS
  <2>2. u = Redrawn(w)
    BY <1>2, <2>1 DEF Commit
  <2>3. /\ w.token = t.token /\ w.panel = t.panel /\ w.node = t.node /\ w.generating = t.generating
        /\ w.hint = [t.hint EXCEPT ![m] = text]
        /\ w = [node |-> w.node, hint |-> w.hint, saved |-> w.saved, revision |-> w.revision, generation |-> w.generation,
                token |-> w.token, panel |-> w.panel, generating |-> w.generating, view |-> w.view]
    BY <2>1 DEF TabType
  <2>4. t.generating \in BOOLEAN /\ t.node \in Moves /\ t.hint \in [Moves -> Texts \cup {None}]
        /\ t.token \in Nat /\ t.panel \in Nat
    BY DEF TabType
  <2>5. w.generating \in BOOLEAN /\ w.hint \in [Moves -> Texts \cup {None}]
    BY <2>3, <2>4
  <2>6. TabType(w)
    BY <2>3, <2>4, <2>5 DEF TabType
  <2>7. QED  BY <2>2, <2>3, <2>6, RedrawnTypes
<1>3. QED  BY <1>1, <1>2

\* A suggestion is written that the server has applied, if the page is still
\* where it was.
LEMMA AppliedStep == ASSUME PanelInv, NEW a \in asks, Applied(a) PROVE PanelInv'
<1>1. UNCHANGED <<reviews, intents>> /\ asks' = asks \ {a} /\ a.kind = "apply" /\ a.said # None
  BY DEF Applied, Elsewhere
<1>2. TabType(tab) /\ (tab.view # None => ViewInv(tab, reviews)) /\ written \subseteq intents
      /\ AskInv(a, tab, reviews, intents)
  BY DEF PanelInv
<1>3. CASE ~(Granted(a) /\ IsCurrent(a.ticket))
  <2>1. UNCHANGED <<tab, written>>
    BY <1>3 DEF Applied
  <2>2. QED  BY <1>1, <1>2, <2>1, PageStep
<1>4. CASE Granted(a) /\ IsCurrent(a.ticket)
  <2>1. ViewInv(tab, reviews) /\ a.ticket.node \in Moves /\ a.text \in Texts
        /\ [id |-> a.id, node |-> a.ticket.node, text |-> a.text] \in intents
    BY <1>1, <1>2, <1>4, OfThePanel DEF AskInv, OfReview, Granted, Read
  <2>2. PICK v : v = [tab.view EXCEPT !.version = a.said.version]
    OBVIOUS
  <2>3. PICK t : t = [tab EXCEPT !.view = v]
    OBVIOUS
  <2>4. PICK u : u = Commit(t, a.ticket.node, a.text)
    OBVIOUS
  <2>5. tab' = u /\ written' \subseteq intents
    BY <1>2, <1>4, <2>1, <2>2, <2>3, <2>4 DEF Applied
  <2>6. /\ t.token = tab.token /\ t.panel = tab.panel /\ t.node = tab.node /\ t.view = v
        /\ t.hint = tab.hint /\ t.generating = tab.generating
        /\ t = [node |-> t.node, hint |-> t.hint, saved |-> t.saved, revision |-> t.revision, generation |-> t.generation,
                token |-> t.token, panel |-> t.panel, generating |-> t.generating, view |-> t.view]
    BY <1>2, <2>3 DEF TabType
  <2>7. TabType(t)
    <3>1. tab.generating \in BOOLEAN /\ tab.node \in Moves /\ tab.hint \in [Moves -> Texts \cup {None}]
          /\ tab.token \in Nat /\ tab.panel \in Nat
      BY <1>2 DEF TabType
    <3>2. t.generating \in BOOLEAN
      BY <2>6, <3>1
    <3>3. QED  BY <2>6, <3>1, <3>2 DEF TabType
  <2>8. /\ v = [ticket |-> v.ticket, panel |-> v.panel, id |-> v.id, version |-> v.version,
               text |-> v.text, status |-> v.status, box |-> v.box]
        /\ v.panel = tab.view.panel /\ v.ticket = tab.view.ticket /\ v.id = tab.view.id
        /\ v.status = tab.view.status /\ v.box = tab.view.box
    BY <2>1, <2>2 DEF ViewInv
  <2>9. ViewInv(t, reviews)
    BY <2>1, <2>6, <2>8 DEF ViewInv
  <2>10. TabType(u) /\ (u = t \/ (u.token > tab.token /\ u.view = None))
    BY <2>1, <2>4, <2>6, <2>7, CommitTypes
  <2>11. CASE u = t
    BY <1>1, <2>5, <2>6, <2>9, <2>10, <2>11, PageStep
  <2>12. CASE u.token > tab.token /\ u.view = None
    BY <1>1, <2>5, <2>10, <2>12, PageStep
  <2>13. QED  BY <2>10, <2>11, <2>12
<1>5. QED  BY <1>3, <1>4

-----------------------------------------------------------------------------
(* The author, elsewhere.                                                  *)

\* The author goes to another move: its panel is gone.
LEMMA NavigateStep == ASSUME PanelInv, NEW m \in Moves, Navigate(m) PROVE PanelInv'
<1>1. UNCHANGED <<reviews, intents, written, asks>>
  BY DEF Navigate, Elsewhere
<1>2. TabType(tab) /\ written' \subseteq intents
  BY <1>1 DEF PanelInv
<1>3. PICK t : t = [tab EXCEPT !.node = m]
  OBVIOUS
<1>4. TabType(t) /\ t.token = tab.token
  <2>1. /\ t.token = tab.token /\ t.panel = tab.panel /\ t.node = m
        /\ t.hint = tab.hint /\ t.generating = tab.generating
        /\ t = [node |-> t.node, hint |-> t.hint, saved |-> t.saved, revision |-> t.revision, generation |-> t.generation,
                token |-> t.token, panel |-> t.panel, generating |-> t.generating, view |-> t.view]
    BY <1>2, <1>3 DEF TabType
  <2>2. tab.generating \in BOOLEAN /\ tab.hint \in [Moves -> Texts \cup {None}]
        /\ tab.token \in Nat /\ tab.panel \in Nat
    BY <1>2 DEF TabType
  <2>3. t.generating \in BOOLEAN
    BY <2>1, <2>2
  <2>4. QED  BY <2>1, <2>2, <2>3 DEF TabType
<1>5. PICK u : u = Redrawn(t)
  OBVIOUS
<1>6. tab' = u /\ TabType(u) /\ u.token > tab.token /\ u.view = None
  BY <1>3, <1>4, <1>5, RedrawnTypes DEF Navigate
<1>7. QED  BY <1>1, <1>2, <1>6, PageStep

\* The author writes a hint, and what is edited is drawn anew.
LEMMA EditStep == ASSUME PanelInv, NEW m \in Moves, NEW text \in OwnTexts, Edit(m, text) PROVE PanelInv'
<1>1. UNCHANGED <<reviews, intents, written, asks>>
  BY DEF Edit, Elsewhere
<1>2. TabType(tab) /\ written' \subseteq intents /\ (tab.view # None => ViewInv(tab, reviews))
  BY <1>1 DEF PanelInv
<1>3. PICK u : u = Commit(tab, m, text)
  OBVIOUS
<1>4. tab' = u /\ TabType(u) /\ (u = tab \/ (u.token > tab.token /\ u.view = None))
  BY <1>2, <1>3, CommitTypes DEF Edit, Texts
<1>5. QED  BY <1>1, <1>2, <1>4, PageStep

\* What is typed, and a save, leave the panel.
LEMMA SamePanel ==
  ASSUME PanelInv, UNCHANGED <<reviews, intents, written, asks>>, NEW s, NEW r, NEW g,
         tab' = [tab EXCEPT !.saved = s, !.revision = r, !.generation = g]
  PROVE  PanelInv'
<1>1. TabType(tab) /\ written' \subseteq intents /\ (tab.view # None => ViewInv(tab, reviews))
  BY DEF PanelInv
<1>2. PICK t : t = [tab EXCEPT !.saved = s, !.revision = r, !.generation = g]
  OBVIOUS
<1>3. /\ t.token = tab.token /\ t.panel = tab.panel /\ t.node = tab.node /\ t.view = tab.view
      /\ t.hint = tab.hint /\ t.generating = tab.generating
      /\ t = [node |-> t.node, hint |-> t.hint, saved |-> t.saved, revision |-> t.revision, generation |-> t.generation,
              token |-> t.token, panel |-> t.panel, generating |-> t.generating, view |-> t.view]
  BY <1>1, <1>2 DEF TabType
<1>4. TabType(t)
  <2>1. tab.generating \in BOOLEAN /\ tab.node \in Moves /\ tab.hint \in [Moves -> Texts \cup {None}]
        /\ tab.token \in Nat /\ tab.panel \in Nat
    BY <1>1 DEF TabType
  <2>2. t.generating \in BOOLEAN
    BY <1>3, <2>1
  <2>3. QED  BY <1>3, <2>1, <2>2 DEF TabType
<1>5. ViewInv(tab, reviews) => ViewInv(t, reviews)
  BY <1>3 DEF ViewInv
<1>6. QED  BY <1>1, <1>2, <1>3, <1>4, <1>5, PageStep

\* What is typed is not committed yet, and a panel is no longer current.
LEMMA TypeStep == ASSUME PanelInv, Type PROVE PanelInv'
<1>1. UNCHANGED <<reviews, intents, written, asks>> /\ tab' = [tab EXCEPT !.generation = @ + 1]
  BY DEF Type, Elsewhere
<1>2. PICK s, r, g : s = tab.saved /\ r = tab.revision /\ g = tab.generation + 1
  OBVIOUS
<1>3. tab' = [tab EXCEPT !.saved = s, !.revision = r, !.generation = g]
  BY <1>1, <1>2 DEF PanelInv, TabType
<1>4. QED  BY <1>1, <1>3, SamePanel

\* A save gives the course its next revision.
LEMMA SaveStep == ASSUME PanelInv, Save PROVE PanelInv'
<1>1. UNCHANGED <<reviews, intents, written, asks>> /\ tab' = [tab EXCEPT !.saved = TRUE, !.revision = @ + 1]
  BY DEF Save
<1>2. PICK s, r, g : s = TRUE /\ r = tab.revision + 1 /\ g = tab.generation
  OBVIOUS
<1>3. tab' = [tab EXCEPT !.saved = s, !.revision = r, !.generation = g]
  BY <1>1, <1>2 DEF PanelInv, TabType
<1>4. QED  BY <1>1, <1>3, SamePanel

-----------------------------------------------------------------------------
(* The server.                                                             *)

\* A request that is answered is what it was, but for what is said.
LEMMA AnsweredKeeps ==
  ASSUME NEW a, NEW t, NEW rs, NEW done, AskInv(a, t, rs, done), NEW said, NEW b, b = [a EXCEPT !.said = said],
         said.version # 0 /\ a.kind \in {"generate"} \cup OfReview =>
           /\ said.id \in DOMAIN rs /\ rs[said.id].node = a.ticket.node
           /\ said.status \in Statuses /\ Read(said.id, said.version, said.text, rs)
           /\ a.kind \in OfReview => said.id = a.id
           /\ a.kind = "apply" => [id |-> a.id, node |-> a.ticket.node, text |-> a.text] \in done
  PROVE  AskInv(b, t, rs, done)
<1>1. b = [kind |-> a.kind, ticket |-> a.ticket, id |-> a.id, version |-> a.version, op |-> a.op, text |-> a.text,
           said |-> said, panel |-> a.panel]
  BY DEF AskInv
<1>2. QED  BY <1>1 DEF AskInv

\* The server reads the course.
LEMMA ServeCourseStep == ASSUME PanelInv, NEW a \in asks, ServeCourse(a) PROVE PanelInv'
<1>1. UNCHANGED <<tab, reviews, intents, written>> /\ a.kind = "course"
  BY DEF ServeCourse, Unanswered
<1>2. StoreInv(reviews) /\ TabType(tab) /\ AskInv(a, tab, reviews, intents)
      /\ (tab.view # None => ViewInv(tab, reviews)) /\ written' \subseteq intents
  BY <1>1 DEF PanelInv
<1>3. PICK b : b = [a EXCEPT !.said = [version |-> 1, revision |-> drafts]]
  OBVIOUS
<1>4. asks' = (asks \ {a}) \cup {b}
  BY <1>3 DEF ServeCourse, Answer
<1>5. AskInv(b, tab, reviews, intents)
  BY <1>1, <1>2, <1>3, AnsweredKeeps DEF OfReview
<1>6. QED  BY <1>1, <1>2, <1>4, <1>5, PageStep

\* The server lists reviews.
LEMMA ServeListStep == ASSUME PanelInv, NEW a \in asks, ServeList(a) PROVE PanelInv'
<1>1. UNCHANGED <<tab, reviews, intents, written>> /\ a.kind = "list"
  BY DEF ServeList, Unanswered
<1>2. StoreInv(reviews) /\ TabType(tab) /\ AskInv(a, tab, reviews, intents)
      /\ (tab.view # None => ViewInv(tab, reviews)) /\ written' \subseteq intents
  BY <1>1 DEF PanelInv
<1>3. PICK said : said = IF a.ticket.revision = drafts THEN reviews[a.id] ELSE Refused
  OBVIOUS
<1>4. PICK b : b = [a EXCEPT !.said = said]
  OBVIOUS
<1>5. asks' = (asks \ {a}) \cup {b}
  BY <1>3, <1>4 DEF ServeList, Answer
<1>6. a.id \in DOMAIN reviews /\ reviews[a.id].node = a.ticket.node /\ ReviewType(reviews[a.id]) /\ reviews[a.id].id = a.id
  BY <1>1, <1>2 DEF AskInv, OfReview, StoreInv
<1>7. said.version # 0 => said = reviews[a.id]
  BY <1>3 DEF Refused
<1>8. Read(a.id, reviews[a.id].version, reviews[a.id].text, reviews)
  BY <1>6 DEF Read, ReviewType
<1>9. reviews[a.id].status \in Statuses
  BY <1>6 DEF ReviewType
<1>10. AskInv(b, tab, reviews, intents)
  BY <1>1, <1>2, <1>4, <1>6, <1>7, <1>8, <1>9, AnsweredKeeps
<1>11. QED  BY <1>1, <1>2, <1>5, <1>10, PageStep

\* A review that is added leaves the others.
LEMMA AddedReview ==
  ASSUME NEW rs, StoreInv(rs), NEW r, ReviewType(r), r.id = Cardinality(DOMAIN rs) + 1,
         NEW more, more = [i \in DOMAIN rs \cup {r.id} |-> IF i = r.id THEN r ELSE rs[i]]
  PROVE  StoreInv(more) /\ Grown(rs, more) /\ r.id \in DOMAIN more /\ more[r.id] = r
<1>1. PICK n \in Nat : DOMAIN rs = 1..n
  BY DEF StoreInv
<1>2. Cardinality(1..n) = n
  BY FS_Interval
<1>3. r.id = n + 1 /\ DOMAIN more = 1..(n + 1)
  BY <1>1, <1>2
<1>4. more[r.id] = r /\ r.id \in DOMAIN more
  OBVIOUS
<1>5. \A i \in DOMAIN rs : i \in DOMAIN more /\ more[i] = rs[i]
  BY <1>1, <1>3
<1>6. \A i \in DOMAIN more : ReviewType(more[i]) /\ more[i].id = i
  <2>1. \A i \in DOMAIN rs : ReviewType(rs[i]) /\ rs[i].id = i
    BY DEF StoreInv
  <2>2. QED  BY <1>4, <1>5, <2>1
<1>7. StoreInv(more)
  <2>1. n + 1 \in Nat /\ more = [i \in DOMAIN more |-> more[i]]
    OBVIOUS
  <2>2. QED  BY <1>3, <1>6, <2>1 DEF StoreInv
<1>8. Grown(rs, more)
  <2>1. \A i \in DOMAIN rs : rs[i].version \in Nat
    BY DEF StoreInv, ReviewType
  <2>2. QED  BY <1>5, <2>1 DEF Grown
<1>9. QED  BY <1>4, <1>7, <1>8

\* The server makes a review, of the move it was asked for.
LEMMA ServeGenerateStep ==
  ASSUME PanelInv, NEW a \in asks, NEW text \in Suggestions, ServeGenerate(a, text)
  PROVE  PanelInv'
<1>1. UNCHANGED <<tab, intents, written>> /\ a.kind = "generate"
  BY DEF ServeGenerate, Unanswered
<1>2. StoreInv(reviews) /\ TabType(tab) /\ AskInv(a, tab, reviews, intents)
      /\ (tab.view # None => ViewInv(tab, reviews)) /\ written' \subseteq intents
  BY <1>1 DEF PanelInv
<1>3. CASE a.ticket.revision # drafts
  <2>1. PICK b : b = [a EXCEPT !.said = Refused]
    OBVIOUS
  <2>2. asks' = (asks \ {a}) \cup {b} /\ reviews' = reviews
    BY <1>3, <2>1 DEF ServeGenerate, Answer
  <2>3. AskInv(b, tab, reviews, intents)
    BY <1>2, <2>1, AnsweredKeeps DEF Refused
  <2>4. QED  BY <1>1, <1>2, <2>2, <2>3, PageStep
<1>4. CASE a.ticket.revision = drafts
  <2>1. PICK r : r = [id |-> Cardinality(DOMAIN reviews) + 1, node |-> a.ticket.node, revision |-> drafts, version |-> 1,
                      text |-> text, status |-> "draft"]
    OBVIOUS
  <2>2. PICK b : b = [a EXCEPT !.said = r]
    OBVIOUS
  <2>3. /\ asks' = (asks \ {a}) \cup {b}
        /\ reviews' = [i \in DOMAIN reviews \cup {r.id} |-> IF i = r.id THEN r ELSE reviews[i]]
    BY <1>4, <2>1, <2>2 DEF ServeGenerate, Answer
  <2>4. ReviewType(r)
    BY <1>2, <2>1 DEF ReviewType, AskInv, Texts, Statuses
  <2>5. PICK more : more = [i \in DOMAIN reviews \cup {r.id} |-> IF i = r.id THEN r ELSE reviews[i]]
    OBVIOUS
  <2>6. StoreInv(more) /\ Grown(reviews, more) /\ r.id \in DOMAIN more /\ more[r.id] = r
    <3>1. r.id = Cardinality(DOMAIN reviews) + 1
      BY <2>1
    <3>2. QED  BY <1>2, <2>4, <2>5, <3>1, AddedReview
  <2>7. AskInv(a, tab, more, intents)
    BY <1>2, <2>6, AskGrown
  <2>8. Read(r.id, r.version, r.text, more) /\ r.node = a.ticket.node /\ r.status \in Statuses
    BY <2>1, <2>4, <2>6 DEF Read, ReviewType
  <2>9. AskInv(b, tab, more, intents)
    BY <1>1, <2>2, <2>6, <2>7, <2>8, AnsweredKeeps DEF OfReview
  <2>10. reviews' = more /\ intents' = intents
    BY <1>1, <2>3, <2>5
  <2>11. QED  BY <1>1, <2>3, <2>6, <2>9, <2>10, ServerKeeps
<1>5. QED  BY <1>3, <1>4

\* A review that is judged, rewritten or applied has a later version.
LEMMA LaterReview ==
  ASSUME NEW q, ReviewType(q), NEW a, a.op = "edit" => a.text \in Texts, NEW r, r = After(q, a)
  PROVE  ReviewType(r) /\ r.id = q.id /\ r.node = q.node /\ r.version = q.version + 1
<1>1. r = [id |-> q.id, node |-> q.node, revision |-> q.revision, version |-> q.version + 1,
           text |-> IF a.op = "edit" THEN a.text ELSE q.text,
           status |-> CASE a.op = "edit" -> "draft" [] a.op = "approve" -> "approved" [] a.op = "reject" -> "rejected"
                        [] OTHER -> q.status]
  BY DEF After, ReviewType
<1>2. r.status \in Statuses
  BY <1>1 DEF Statuses, ReviewType
<1>3. r.text \in Texts /\ r.version = q.version + 1 /\ q.version \in Nat \ {0} /\ r.node = q.node /\ r.id = q.id
  BY <1>1 DEF ReviewType
<1>4. r = [id |-> r.id, node |-> r.node, revision |-> r.revision, version |-> r.version, text |-> r.text, status |-> r.status]
  BY <1>1
<1>5. QED  BY <1>2, <1>3, <1>4 DEF ReviewType

\* A review that is changed leaves the others.
LEMMA ChangedReview ==
  ASSUME NEW rs, StoreInv(rs), NEW i \in DOMAIN rs, NEW r, ReviewType(r), r.id = i, r.node = rs[i].node,
         r.version > rs[i].version, NEW more, more = [rs EXCEPT ![i] = r]
  PROVE  StoreInv(more) /\ Grown(rs, more) /\ DOMAIN more = DOMAIN rs /\ more[i] = r
<1>1. more[i] = r /\ DOMAIN more = DOMAIN rs /\ \A j \in DOMAIN rs : j # i => more[j] = rs[j]
  OBVIOUS
<1>2. StoreInv(more)
  <2>1. more = [j \in DOMAIN more |-> more[j]]
    OBVIOUS
  <2>2. \A j \in DOMAIN more : ReviewType(more[j]) /\ more[j].id = j
    BY <1>1 DEF StoreInv
  <2>3. \E n \in Nat : DOMAIN more = 1..n
    BY <1>1 DEF StoreInv
  <2>4. QED  BY <2>1, <2>2, <2>3 DEF StoreInv
<1>3. Grown(rs, more)
  <2>1. r.version \in Nat /\ \A j \in DOMAIN rs : rs[j].version \in Nat
    BY DEF StoreInv, ReviewType
  <2>2. QED  BY <1>1, <2>1 DEF Grown
<1>4. QED  BY <1>1, <1>2, <1>3

\* The server decides on the version it was sent, or refuses another.
LEMMA UpdateReviewStep == ASSUME PanelInv, NEW a \in asks, UpdateReview(a) PROVE PanelInv'
<1>1. UNCHANGED <<tab, written>> /\ a.kind \in {"update", "apply"}
  BY DEF UpdateReview, Unanswered
<1>2. StoreInv(reviews) /\ TabType(tab) /\ AskInv(a, tab, reviews, intents)
      /\ (tab.view # None => ViewInv(tab, reviews)) /\ written' \subseteq intents
  BY <1>1 DEF PanelInv
<1>3. CASE ~(Standing(a) /\ (a.op = "apply" => reviews[a.id].status = "approved"))
  <2>1. PICK b : b = [a EXCEPT !.said = Refused]
    OBVIOUS
  <2>2. asks' = (asks \ {a}) \cup {b} /\ reviews' = reviews /\ intents' = intents
    BY <1>3, <2>1 DEF UpdateReview, Answer
  <2>3. AskInv(b, tab, reviews, intents)
    BY <1>2, <2>1, AnsweredKeeps DEF Refused
  <2>4. QED  BY <1>1, <1>2, <2>2, <2>3, PageStep
<1>4. CASE Standing(a) /\ (a.op = "apply" => reviews[a.id].status = "approved")
  <2>1. /\ a.id \in DOMAIN reviews /\ reviews[a.id].node = a.ticket.node
        /\ a.op \in {"edit", "approve", "reject", "apply"} /\ (a.op = "edit" => a.text \in Texts)
        /\ a.kind = "apply" => a.op = "apply" /\ Read(a.id, a.version, a.text, reviews)
    BY <1>1, <1>2 DEF AskInv, OfReview
  <2>2. PICK i : i = a.id
    OBVIOUS
  <2>3. PICK r : r = After(reviews[i], a)
    OBVIOUS
  <2>4. PICK more : more = [reviews EXCEPT ![i] = r]
    OBVIOUS
  <2>5. /\ StoreInv(more) /\ Grown(reviews, more) /\ DOMAIN more = DOMAIN reviews /\ more[i] = r
        /\ ReviewType(r) /\ r.id = i /\ r.node = reviews[i].node
    <3>1. i \in DOMAIN reviews /\ ReviewType(reviews[i]) /\ reviews[i].id = i
      BY <1>2, <2>1, <2>2 DEF StoreInv
    <3>2. ReviewType(r) /\ r.id = i /\ r.node = reviews[i].node /\ r.version = reviews[i].version + 1
      BY <2>1, <2>3, <3>1, LaterReview
    <3>3. r.version > reviews[i].version
      BY <3>1, <3>2 DEF ReviewType
    <3>4. QED  BY <1>2, <2>4, <3>1, <3>2, <3>3, ChangedReview
  <2>6. reviews' = more
    BY <1>4, <2>2, <2>3, <2>4 DEF UpdateReview
  <2>7. PICK b : b = [a EXCEPT !.said = r]
    OBVIOUS
  <2>8. asks' = (asks \ {a}) \cup {b}
    BY <1>4, <2>2, <2>5, <2>6, <2>7 DEF UpdateReview, Answer
  <2>9. intents \subseteq intents'
        /\ (a.op = "apply" => [id |-> i, node |-> reviews[i].node, text |-> reviews[i].text] \in intents')
    BY <1>4, <2>2 DEF UpdateReview
  <2>10. AskInv(a, tab, more, intents')
    BY <1>2, <2>5, <2>9, AskGrown
  <2>11. Read(r.id, r.version, r.text, more) /\ r.status \in Statuses /\ r.id \in DOMAIN more /\ more[r.id].node = a.ticket.node
    BY <2>1, <2>2, <2>5 DEF Read, ReviewType
  <2>12. a.kind = "apply" => [id |-> a.id, node |-> a.ticket.node, text |-> a.text] \in intents'
    BY <1>4, <2>1, <2>2, <2>9 DEF Read, Standing
  <2>13. AskInv(b, tab, more, intents')
    <3>1. r.id = a.id
      BY <2>2, <2>5
    <3>2. QED  BY <2>7, <2>10, <2>11, <2>12, <3>1, AnsweredKeeps
  <2>14. QED  BY <1>1, <2>5, <2>6, <2>8, <2>9, <2>13, ServerKeeps
<1>5. QED  BY <1>3, <1>4

-----------------------------------------------------------------------------
(* Every step, and what the invariant says.                                *)

\* Every step keeps PanelInv.
LEMMA NextPanel == ASSUME PanelInv, [Next]_vars PROVE PanelInv'
<1>1. CASE AnswerStep
  BY <1>1, CourseReadStep, GeneratedStep, UpdatedStep, ListReadStep, AppliedStep, LostStep DEF AnswerStep
<1>2. CASE ServerStep
  BY <1>2, ServeCourseStep, ServeListStep, UpdateReviewStep, ServeGenerateStep DEF ServerStep
<1>3. CASE AuthorStep
  <2>1. CASE SaveElsewhere
    <3>1. UNCHANGED <<tab, asks, reviews, intents, written>>
      BY <2>1 DEF SaveElsewhere
    <3>2. QED  BY <3>1 DEF PanelInv
  <2>2. QED  BY <1>3, <2>1, OpenStep, RewriteStep, ClickStep, NavigateStep, EditStep, TypeStep,
                SaveStep DEF AuthorStep
<1>4. CASE UNCHANGED vars
  BY <1>4 DEF vars, PanelInv
<1>5. QED  BY <1>1, <1>2, <1>3, <1>4 DEF Next

\* PanelInv is inductive, for any moves, texts and bounds.
THEOREM PanelInvariance == Spec => []PanelInv
<1>1. Init => PanelInv
  BY InitPanel
<1>2. PanelInv /\ [Next]_vars => PanelInv'
  BY NextPanel
<1>3. QED  BY <1>1, <1>2, PTL DEF Spec

\* The page and the reviews have their types (renderReview, the record of
\* hint_studio.py).
THEOREM PanelTypes == Spec => []TypeOK
<1>1. PanelInv => TypeOK
  BY DEF PanelInv, TabType, ViewInv, StoreInv, ReviewType, TypeOK
<1>2. QED  BY <1>1, PanelInvariance, PTL

\* studio.js:1131: a replacement panel never receives an earlier panel's
\* response, however requests and answers interleave.
THEOREM PanelsAreTheirOwn == Spec => []OwnPanel
<1>1. PanelInv => OwnPanel
  BY DEF PanelInv, ViewInv, OwnPanel
<1>2. QED  BY <1>1, PanelInvariance, PTL

\* What the page writes into the course was applied by the server, as that
\* text and for that move.
THEOREM WritesAreApplied == Spec => []WrittenWasApplied
<1>1. PanelInv => WrittenWasApplied
  BY DEF PanelInv, WrittenWasApplied
<1>2. QED  BY <1>1, PanelInvariance, PTL

\* Suggestions are shown of the move that is selected.
THEOREM ShownOfTheMove == Spec => []OfThisMove
<1>1. PanelInv => OfThisMove
  BY DEF PanelInv, ViewInv, OfThisMove
<1>2. QED  BY <1>1, PanelInvariance, PTL

=============================================================================
