---------------------------- MODULE HintLearning ----------------------------
(***************************************************************************)
(* What is learned from the hints an author saves.  A save goes through    *)
(* the proxy (studio_api_proxy of main.py), which journals it beforehand   *)
(* in the review database and learns from it only when the course's        *)
(* backend shows an immutable receipt of it (hint_learning.py).  Any       *)
(* request for the course may look for the receipts of earlier saves.      *)
(* Hints that were suggested come from reviews (hint_studio.py).           *)
(*                                                                         *)
(* One course and one author.  Slots are places with a hint which show the *)
(* same position and answer, so a hint may be shared between them.  A      *)
(* review has one candidate.  A request about a review reads the course's  *)
(* revision when it changes the review.  A save with another revision than *)
(* the course's is not journalled and changes nothing.                     *)
(* MaxSaves, MaxReviews, MaxVerdicts, MaxRewrites, MaxBroken, MaxGivenUp   *)
(* and MaxFaults bound saves, reviews, verdicts on candidates, edits of    *)
(* candidates, saves that do not parse, requests given up and reads that   *)
(* fail.                                                                   *)
(***************************************************************************)
EXTENDS Integers, FiniteSets

CONSTANTS Proxies, Slots, HandTexts, SuggestedTexts, None, Between,
          MaxSaves, MaxReviews, MaxVerdicts, MaxRewrites, MaxBroken, MaxGivenUp, MaxFaults

\* HandTexts and SuggestedTexts differ, and None is of neither.

VARIABLES course,    \* the backend: the revision and the document
          receipts,  \* the backend: token -> what was saved under it
          sent,      \* saves that are with the backend
          reviews,   \* id -> review
          journal,   \* token -> hint_learning_journal
          learned,   \* hint_learning_examples, _lineage and _watermarks
          proxies,   \* requests at the proxy
          suggested, \* texts that have been suggested
          applied,   \* revision -> slots whose hint was once suggested and applied
          steps
vars == <<course, receipts, sent, reviews, journal, learned, proxies, suggested, applied, steps>>

Texts == HandTexts \cup SuggestedTexts
Documents == [hint : [Slots -> Texts \cup {None}], broken : BOOLEAN]
Tokens == 1..MaxSaves
Revisions == 1..(MaxSaves + 1)

Kinds == {"verdicts", "rewrites", "broken", "givenUp", "faults"}
Most == [verdicts |-> MaxVerdicts, rewrites |-> MaxRewrites, broken |-> MaxBroken,
         givenUp |-> MaxGivenUp, faults |-> MaxFaults]
May(kind) == steps[kind] < Most[kind] /\ steps' = [steps EXCEPT ![kind] = @ + 1]

Free == [at |-> "free", token |-> 0, doc |-> None, base |-> 0, before |-> None, slot |-> None, todo |-> {}, failed |-> 0, then |-> "free"]
Init ==
  /\ \E hint \in [Slots -> HandTexts \cup {None}] :
       course = [revision |-> 1, doc |-> [hint |-> hint, broken |-> FALSE]]
  /\ receipts = <<>> /\ sent = {} /\ reviews = <<>> /\ journal = <<>>
  /\ learned = [examples |-> [s \in Slots |-> None], lineage |-> {}, watermark |-> 0]
  /\ proxies = [p \in Proxies |-> Free]
  /\ suggested = {} /\ applied = [r \in Revisions |-> {}]
  /\ steps = [k \in Kinds |-> 0]

With(f, k, v) == [x \in DOMAIN f \cup {k} |-> IF x = k THEN v ELSE f[x]]
Pending == {t \in DOMAIN journal : journal[t].state = "pending"}

-----------------------------------------------------------------------------
(* Reconciling: what a receipt teaches.                                    *)

ReviewsOf(s) == {reviews[i] : i \in {j \in DOMAIN reviews : reviews[j].slot = s}}
\* _reviews: the candidate was approved and applied, as it stands now.
AppliedHere(s, base, hint) ==
  \E r \in ReviewsOf(s) : r.revision = base /\ r.status = "approved" /\ r.text = hint[s] /\ r.last = "apply" /\ r.approved
SharedApplied(s, base, hint) == \E o \in Slots : hint[o] = hint[s] /\ AppliedHere(o, base, hint)
Generated(base, hint) == \E o \in Slots : hint[o] # None /\ \E r \in ReviewsOf(o) : r.revision = base
\* A bug of GeneratedText: a text is compared with the reviews of its own place.
GeneratedTextHere(s, text) == \E r \in ReviewsOf(s) : r.text = text
GeneratedText(s, text) == \E i \in DOMAIN reviews : reviews[i].text = text

\* Bugs of Learn: what the last save taught stands for a text that was there
\* before; corrections are the author's own.
LearnStale(s, base, old, new) ==
  LET existing == learned.examples[s]
  IN  IF new[s] = None THEN None
      ELSE IF old[s] = new[s] THEN existing
      ELSE IF SharedApplied(s, base, new) THEN [kind |-> "ai", text |-> new[s]]
      ELSE [kind |-> "manual", text |-> new[s]]
LearnAnew(s, base, old, new) ==
  IF new[s] = None THEN None
  ELSE IF SharedApplied(s, base, new) THEN [kind |-> "ai", text |-> new[s]]
  ELSE IF Generated(base, new) \/ GeneratedText(s, new[s]) \/ ReviewsOf(s) # {} THEN None
  ELSE [kind |-> "manual", text |-> new[s]]

Learn(s, base, old, new) ==
  LET existing == learned.examples[s]
  IN  IF new[s] = None THEN None
      ELSE IF old[s] = new[s] THEN IF existing # None /\ existing.text = new[s] THEN [kind |-> existing.kind, text |-> new[s]] ELSE None
      ELSE IF SharedApplied(s, base, new) THEN [kind |-> "ai", text |-> new[s]]
      ELSE IF Generated(base, new) \/ GeneratedText(s, new[s]) THEN None
      ELSE IF s \in learned.lineage \/ (existing # None /\ existing.kind = "ai" /\ existing.text = old[s])
           THEN [kind |-> "ai", text |-> new[s]]
      ELSE IF ReviewsOf(s) # {} THEN None
      ELSE [kind |-> "manual", text |-> new[s]]

\* A bug of Waits: a receipt is used when it comes.
WaitsNot(t) == FALSE
\* An earlier save of the course is not decided.
Waits(t) == \E e \in Pending : journal[e].base < journal[t].base

\* reconcile_stage, and quarantine_stage when a text does not parse.
ReconcileStage(t) ==
  LET base == journal[t].base  old == journal[t].before  new == receipts[t].doc
      examples == [s \in Slots |-> LET e == Learn(s, base, old.hint, new.hint)
                                   IN  IF e = None THEN None ELSE [kind |-> e.kind, text |-> e.text, revision |-> receipts[t].revision]]
      To(state) == journal' = [journal EXCEPT ![t].state = state]
  IN  IF t \notin Pending \/ Waits(t) THEN UNCHANGED <<journal, learned>>
      ELSE IF learned.watermark >= receipts[t].revision THEN To("superseded") /\ UNCHANGED learned
      ELSE IF old.broken \/ new.broken
           THEN To("unindexable") /\ learned' = [learned EXCEPT !.examples = [s \in Slots |-> None]]
      ELSE /\ To("reconciled")
           /\ learned' = [examples |-> examples, watermark |-> receipts[t].revision,
                          lineage |-> learned.lineage \cup {s \in Slots : examples[s] # None /\ examples[s].kind = "ai"}]

\* A bug of DiscardStage: the state is the reason.
DiscardAs(t) == journal' = IF t \in Pending THEN [journal EXCEPT ![t].state = "missing"] ELSE journal
\* discard_stage.
DiscardStage(t) == journal' = IF t \in Pending THEN [journal EXCEPT ![t].state = "aborted"] ELSE journal

-----------------------------------------------------------------------------
(* recover_stages.                                                         *)

\* The course's undecided saves are looked at in the order of what they were
\* based on, a save that was refused just now first.
FirstOf(todo) == {t \in todo : \A o \in todo : journal[t].base < journal[o].base \/ (journal[t].base = journal[o].base /\ t <= o)}
OneOf(tokens) == CHOOSE t \in tokens : TRUE
NextIn(todo, failed) == IF failed \in todo THEN failed ELSE OneOf(FirstOf(todo))
Recovering(q, then, failed) == [q EXCEPT !.at = "receipt", !.todo = Pending, !.failed = failed, !.then = then]
Recovered(q) == IF q.then = "free" THEN Free ELSE [q EXCEPT !.at = q.then, !.todo = {}, !.failed = 0]
Set(p, q) == proxies' = [proxies EXCEPT ![p] = q]
At(p, place) == proxies[p].at = place
Backend == <<course, receipts, sent, suggested, applied>>

\* A bug of Gone: the course is still at the revision the save was based on.
GoneStill(t, failed) == t = failed \/ course.revision >= journal[t].base
\* The save can no longer be made.
Gone(t, failed) == t = failed \/ course.revision > journal[t].base

RecoverDone(p) ==
  /\ At(p, "receipt") /\ proxies[p].todo = {}
  /\ Set(p, Recovered(proxies[p]))
  /\ UNCHANGED <<Backend, reviews, journal, learned, steps>>
ReceiptFound(p) ==
  LET q == proxies[p]  t == NextIn(q.todo, q.failed)
  IN  /\ At(p, "receipt") /\ q.todo # {} /\ t \in DOMAIN receipts
      /\ ReconcileStage(t)
      /\ Set(p, [q EXCEPT !.todo = @ \ {t}])
      /\ UNCHANGED <<Backend, reviews, steps>>
ReceiptMissing(p) ==
  LET q == proxies[p]
  IN  /\ At(p, "receipt") /\ q.todo # {} /\ NextIn(q.todo, q.failed) \notin DOMAIN receipts
      /\ Set(p, [q EXCEPT !.at = "latest"])
      /\ UNCHANGED <<Backend, reviews, journal, learned, steps>>
LatestRead(p) ==
  LET q == proxies[p]  t == NextIn(q.todo, q.failed)
      gone == Gone(t, q.failed)
  IN  /\ At(p, "latest")
      /\ IF gone THEN DiscardStage(t) ELSE UNCHANGED journal
      /\ Set(p, [q EXCEPT !.at = "receipt", !.todo = IF gone THEN @ \ {t} ELSE {}])
      /\ UNCHANGED <<Backend, reviews, learned, steps>>
\* A read fails.  The save goes on without it, a generation does not.
ReadFails(p) ==
  LET q == proxies[p]
  IN  /\ At(p, "receipt") \/ At(p, "latest")
      /\ q.todo # {}
      /\ May("faults")
      /\ Set(p, IF q.then = "generate" THEN Free ELSE Recovered(q))
      /\ UNCHANGED <<Backend, reviews, journal, learned>>

-----------------------------------------------------------------------------
(* A save (studio_api_proxy).                                              *)

\* The author saves what was typed or suggested.
BeginSave(p, hint, broken) ==
  /\ At(p, "free")
  /\ Cardinality(DOMAIN journal) + Cardinality({o \in Proxies : proxies[o].then = "stage"}) < MaxSaves
  /\ \A s \in Slots : hint[s] \in HandTexts \cup suggested \cup {None, course.doc.hint[s]}
  /\ IF broken THEN May("broken") ELSE UNCHANGED steps
  /\ Set(p, Recovering([Free EXCEPT !.doc = [hint |-> hint, broken |-> broken], !.base = course.revision,
                                    !.before = course.doc], "stage", 0))
  /\ UNCHANGED <<Backend, reviews, journal, learned>>
\* stage_save; then the save is sent.
StageSave(p) ==
  LET q == proxies[p]  t == Cardinality(DOMAIN journal) + 1
  IN  /\ At(p, "stage")
      /\ journal' = With(journal, t, [state |-> "pending", base |-> q.base, before |-> q.before])
      /\ sent' = sent \cup {[token |-> t, base |-> q.base, doc |-> q.doc]}
      /\ Set(p, [q EXCEPT !.at = "sent", !.token = t, !.then = "free"])
      /\ UNCHANGED <<course, receipts, suggested, applied, reviews, learned, steps>>

\* The backend saves under a compare-and-swap of the revision; between the two
\* reads of a recovery only if Between.
BackendSaves(m) ==
  /\ m \in sent /\ m.base = course.revision
  /\ Between \/ \A p \in Proxies : ~At(p, "latest")
  /\ sent' = sent \ {m}
  /\ course' = [revision |-> m.base + 1, doc |-> m.doc]
  /\ receipts' = With(receipts, m.token, course')
  /\ applied' = [applied EXCEPT ![m.base + 1] =
       applied[m.base] \cup {s \in Slots : m.doc.hint[s] # None /\ SharedApplied(s, m.base, m.doc.hint)}]
  /\ UNCHANGED <<suggested, reviews, journal, learned, proxies, steps>>
BackendRefuses(m) ==
  /\ m \in sent /\ m.base # course.revision
  /\ sent' = sent \ {m}
  /\ UNCHANGED <<course, receipts, suggested, applied, reviews, journal, learned, proxies, steps>>

\* The backend has answered.  A status says nothing of the save.
Answered(p, refused) ==
  LET q == proxies[p]
  IN  /\ At(p, "sent") /\ \A m \in sent : m.token # q.token
      /\ IF refused /\ q.token \in DOMAIN receipts THEN May("faults") ELSE UNCHANGED steps
      /\ Set(p, Recovering(q, "free", IF refused THEN q.token ELSE 0))
      /\ UNCHANGED <<Backend, reviews, journal, learned>>
\* The backend takes too long, or the proxy is stopped; the save may arrive.
GivenUp(p) ==
  /\ ~At(p, "free")
  /\ May("givenUp")
  /\ \/ At(p, "sent") /\ Set(p, Recovering(proxies[p], "free", 0))
     \/ Set(p, Free)
  /\ UNCHANGED <<Backend, reviews, journal, learned>>
\* A save that was given up is lost on its way.
SaveLost(m) ==
  /\ m \in sent /\ \A p \in Proxies : proxies[p].token # m.token
  /\ sent' = sent \ {m}
  /\ UNCHANGED <<course, receipts, suggested, applied, reviews, journal, learned, proxies, steps>>

-----------------------------------------------------------------------------
(* Reviews (hint_studio.py).                                               *)

BeginGenerate(p, s) ==
  /\ At(p, "free")
  /\ Cardinality(DOMAIN reviews) < MaxReviews
  /\ \A o \in Proxies : proxies[o].then # "generate"   \* GENERATION_LOCK
  /\ Set(p, Recovering([Free EXCEPT !.slot = s, !.base = course.revision], "generate", 0))
  /\ UNCHANGED <<Backend, reviews, journal, learned, steps>>
Generate(p, text) ==
  LET q == proxies[p]  i == Cardinality(DOMAIN reviews) + 1
  IN  /\ At(p, "generate")
      /\ IF course.revision = q.base
         THEN /\ reviews' = With(reviews, i, [slot |-> q.slot, revision |-> q.base, text |-> text, status |-> "draft",
                                              last |-> None, approved |-> FALSE])
              /\ suggested' = suggested \cup {text}
         ELSE UNCHANGED <<reviews, suggested>>
      /\ Set(p, Free)
      /\ UNCHANGED <<course, receipts, sent, applied, journal, learned, steps>>

\* update_review, of the revision the course has.
Judge(i, verdict) ==
  /\ reviews[i].revision = course.revision
  /\ verdict = "apply" => reviews[i].status = "approved"
  /\ May("verdicts")
  /\ reviews' = [reviews EXCEPT ![i].last = verdict, ![i].approved = @ \/ verdict = "approve",
                                ![i].status = CASE verdict = "approve" -> "approved" [] verdict = "reject" -> "rejected" [] OTHER -> @]
  /\ UNCHANGED <<Backend, journal, learned, proxies>>
Rewrite(i, text) ==
  /\ reviews[i].revision = course.revision
  /\ text # reviews[i].text
  /\ May("rewrites")
  /\ reviews' = [reviews EXCEPT ![i].text = text, ![i].status = "draft", ![i].last = "edit"]
  /\ UNCHANGED <<Backend, journal, learned, proxies>>

RecoverStep(p) == RecoverDone(p) \/ ReceiptFound(p) \/ ReceiptMissing(p) \/ LatestRead(p) \/ ReadFails(p)
SaveStep(p) ==
  \/ \E hint \in [Slots -> Texts \cup {None}], broken \in BOOLEAN : BeginSave(p, hint, broken)
  \/ StageSave(p)
  \/ \E refused \in BOOLEAN : Answered(p, refused)
  \/ GivenUp(p)
BackendStep == \E m \in sent : BackendSaves(m) \/ BackendRefuses(m) \/ SaveLost(m)
ReviewStep ==
  \/ \E p \in Proxies, s \in Slots : BeginGenerate(p, s)
  \/ \E p \in Proxies, text \in SuggestedTexts : Generate(p, text)
  \/ \E i \in DOMAIN reviews, verdict \in {"approve", "reject", "apply"} : Judge(i, verdict)
  \/ \E i \in DOMAIN reviews, text \in HandTexts : Rewrite(i, text)

Next == (\E p \in Proxies : RecoverStep(p) \/ SaveStep(p)) \/ BackendStep \/ ReviewStep
Spec == Init /\ [][Next]_vars

-----------------------------------------------------------------------------
(* Properties.                                                             *)

\* The two databases have their types (learning_schema).
TypeOK ==
  /\ course.revision \in Revisions /\ course.doc \in Documents
  /\ DOMAIN receipts \subseteq DOMAIN journal /\ DOMAIN journal \subseteq Tokens
  /\ \A t \in DOMAIN journal : journal[t].state \in {"pending", "aborted", "superseded", "unindexable", "reconciled"}
  /\ learned.lineage \subseteq Slots /\ learned.watermark \in Revisions \cup {0}

\* What is learned was saved, in that place and in the revision it is marked
\* with, whatever was journalled, refused or found late (reconcile_stage).
LearnedAsSaved ==
  \A s \in Slots : learned.examples[s] # None =>
    \E t \in DOMAIN receipts : /\ receipts[t].revision = learned.examples[s].revision
                              /\ receipts[t].doc.hint[s] = learned.examples[s].text

\* A hint that was suggested, approved and applied is not learned as the
\* author's own, nor is a later correction of it, in whatever order the
\* receipts of the saves are found (the lineage of hint_learning.py).
AppliedStaysAI ==
  \A s \in Slots : learned.examples[s] # None /\ learned.examples[s].kind = "manual" =>
    s \notin applied[learned.examples[s].revision]

\* hint_learning.py:164: "Unapplied/draft/rejected suggestions are never ...
\* reclassified as manual."  A text that was suggested is not learned as the
\* author's own.
SuggestionNotManual ==
  \A s \in Slots : learned.examples[s] # None /\ learned.examples[s].kind = "manual" =>
    learned.examples[s].text \notin SuggestedTexts

\* That holds of every suggestion until a candidate is rewritten: a text that
\* no review has any more is taken for the author's.
UnrewrittenNotManual == steps["rewrites"] = 0 => SuggestionNotManual

\* A save that was decided is decided in the order of the course's revisions:
\* nothing is passed over as superseded (the watermark).
NoneSuperseded == \A t \in DOMAIN journal : journal[t].state # "superseded"

\* hint_learning.py:214: "a missing immutable receipt means it was not this
\* save."  A save the journal has given up was not made.
AbortedNotSaved == \A t \in DOMAIN journal : journal[t].state = "aborted" => t \notin DOMAIN receipts

\* hint_learning.py:213: "this CAS can no longer commit."  A save the journal
\* has given up that is still on its way will be refused, also when another
\* save was made between the two reads.
GivenUpForGood == \A m \in sent : journal[m.token].state = "aborted" => m.base < course.revision
=============================================================================
