-------------------------- MODULE HintLearningProofs --------------------------
(***************************************************************************)
(* Theorems about what is learned, for any proxies, places and texts and   *)
(* any number of saves: what is learned was saved so, saves that are given *)
(* up are not made any more and none is passed over, and a suggestion is   *)
(* not learned as the author's own while none is rewritten.                *)
(***************************************************************************)
EXTENDS HintLearning, FiniteSetTheorems, TLAPS

\* What the constants are.
Sizes == IsFiniteSet(Proxies) /\ MaxSaves \in Nat

\* One review, saves that parse, and candidates that are not rewritten: with
\* more of any, a text that was applied can be learned as the author's own.
\* Only the lemmas about an instance of this kind assume it.
OneReview == MaxReviews \in 0..1 /\ MaxBroken = 0 /\ MaxRewrites = 0

\* The texts of authors and of suggestions differ.
Differ == HandTexts \cap SuggestedTexts = {}

\* None is neither of them nor an example.
Apart ==
  /\ Differ /\ None \notin Texts
  /\ \A x \in Texts : None # [kind |-> "ai", text |-> x]
  /\ \A x \in Texts, r \in Revisions : None # [kind |-> "ai", text |-> x, revision |-> r]

-----------------------------------------------------------------------------
(***************************************************************************)
(* The journal (js), the receipts (rs), what is under way (out) and the    *)
(* requests (q) of a course that is at revision n.  A receipt is of a save *)
(* that the journal has.                                                   *)
(***************************************************************************)
States == {"pending", "aborted", "superseded", "unindexable", "reconciled"}

EntryInv(e, n) ==
  /\ e = [state |-> e.state, base |-> e.base, before |-> e.before]
  /\ e.state \in States /\ e.base \in 1..n /\ e.before \in Documents

ReceiptInv(t, rs, js, n) ==
  /\ t \in DOMAIN js /\ rs[t].revision = js[t].base + 1
  /\ rs[t].revision <= n /\ rs[t].doc \in Documents

SentInv(m, out, js, rs) ==
  /\ m = [token |-> m.token, base |-> m.base, doc |-> m.doc]
  /\ m.token \in DOMAIN js /\ m.token \notin DOMAIN rs /\ m.base = js[m.token].base
  /\ m.doc \in Documents
  /\ \A k \in out : k.token = m.token => k = m

\* A request that is saving has what the author saves and what was there; one
\* that was refused has nothing under way.
ProxyInv(q, out, js, n) ==
  /\ q = [at |-> q.at, token |-> q.token, doc |-> q.doc, base |-> q.base, before |-> q.before, slot |-> q.slot,
          todo |-> q.todo, failed |-> q.failed, then |-> q.then]
  /\ q.at \in {"free", "receipt", "latest", "stage", "sent", "generate"}
  /\ q.then \in {"free", "stage", "generate"}
  /\ q.at \in {"stage", "generate"} => q.then = q.at
  /\ q.at \in {"free", "sent"} => q.then = "free"
  /\ q.then = "stage" => q.base \in 1..n /\ q.before \in Documents /\ q.doc \in Documents
  /\ q.todo \subseteq DOMAIN js /\ q.failed \in DOMAIN js \cup {0}
  /\ q.at = "sent" => q.token \in DOMAIN js
  /\ \A m \in out : m.token # q.failed

CourseInv(c) ==
  /\ c = [revision |-> c.revision, doc |-> c.doc]
  /\ c.revision \in Nat \ {0} /\ c.doc \in Documents

\* Saves that are journalled, or about to be, are bounded.
StagingOf(ps) == {p \in Proxies : ps[p].then = "stage"}
CountInv(js, rs, ps, n) ==
  /\ \E k \in Nat : DOMAIN js = 1..k /\ k + Cardinality(StagingOf(ps)) <= MaxSaves
  /\ Cardinality(DOMAIN rs) = n - 1

\* What is learned was saved so.
LearnedInv(l, rs, n) ==
  /\ l = [examples |-> l.examples, lineage |-> l.lineage, watermark |-> l.watermark]
  /\ l.lineage \subseteq Slots /\ l.watermark \in 0..n
  /\ \A s \in Slots : l.examples[s] # None =>
       \E t \in DOMAIN rs : rs[t].revision = l.examples[s].revision /\ rs[t].doc.hint[s] = l.examples[s].text

JournalInv ==
  /\ CourseInv(course) /\ CountInv(journal, receipts, proxies, course.revision)
  /\ LearnedInv(learned, receipts, course.revision)
  /\ \A t \in DOMAIN journal : EntryInv(journal[t], course.revision)
  /\ \A t \in DOMAIN receipts : ReceiptInv(t, receipts, journal, course.revision)
  /\ \A m \in sent : SentInv(m, sent, journal, receipts)
  /\ DOMAIN proxies = Proxies /\ \A p \in Proxies : ProxyInv(proxies[p], sent, journal, course.revision)

-----------------------------------------------------------------------------
(* Requests and counts.                                                    *)

\* A request stays what it is when the course and the journal grow and what
\* is under way is of saves the journal did not have.
LEMMA ProxyGrown ==
  ASSUME NEW q, NEW out, NEW js, NEW n \in Nat, ProxyInv(q, out, js, n), NEW more, NEW ks,
         NEW k \in Nat, n <= k,
         DOMAIN js \subseteq DOMAIN ks, \A m \in more : m \in out \/ m.token \notin DOMAIN js \cup {0}
  PROVE  ProxyInv(q, more, ks, k)
BY DEF ProxyInv

\* Fewer requests are about to journal a save, or one more.
LEMMA StagingChanges ==
  ASSUME Sizes, NEW ps, DOMAIN ps = Proxies, NEW p \in Proxies, NEW q, NEW more, more = [ps EXCEPT ![p] = q]
  PROVE  /\ Cardinality(StagingOf(ps)) \in Nat /\ Cardinality(StagingOf(more)) \in Nat
         /\ (q.then = "stage" => ps[p].then = "stage") => Cardinality(StagingOf(more)) <= Cardinality(StagingOf(ps))
         /\ Cardinality(StagingOf(more)) <= Cardinality(StagingOf(ps)) + 1
         /\ ps[p].then = "stage" /\ q.then # "stage" => Cardinality(StagingOf(more)) = Cardinality(StagingOf(ps)) - 1
<1>1. IsFiniteSet(StagingOf(ps)) /\ IsFiniteSet(StagingOf(more))
  BY FS_Subset DEF Sizes, StagingOf
<1>2. Cardinality(StagingOf(ps)) \in Nat /\ Cardinality(StagingOf(more)) \in Nat
  BY <1>1, FS_CardinalityType
<1>3. \A o \in Proxies : more[o] = IF o = p THEN q ELSE ps[o]
  OBVIOUS
<1>4. ASSUME q.then = "stage" => ps[p].then = "stage"
      PROVE  Cardinality(StagingOf(more)) <= Cardinality(StagingOf(ps))
  <2>1. StagingOf(more) \subseteq StagingOf(ps)
    BY <1>3, <1>4 DEF StagingOf
  <2>2. QED  BY <1>1, <2>1, FS_Subset
<1>5. Cardinality(StagingOf(more)) <= Cardinality(StagingOf(ps)) + 1
  <2>1. StagingOf(more) \subseteq StagingOf(ps) \cup {p}
    BY <1>3 DEF StagingOf
  <2>2. IsFiniteSet(StagingOf(ps) \cup {p}) /\ Cardinality(StagingOf(ps) \cup {p}) <= Cardinality(StagingOf(ps)) + 1
    <3>1. PICK S : S = StagingOf(ps)
      OBVIOUS
    <3>2. IsFiniteSet(S \cup {p}) /\ Cardinality(S \cup {p}) = IF p \in S THEN Cardinality(S) ELSE Cardinality(S) + 1
      BY <1>1, <3>1, FS_AddElement
    <3>3. QED  BY <1>2, <3>1, <3>2
  <2>3. Cardinality(StagingOf(more)) <= Cardinality(StagingOf(ps) \cup {p}) /\ Cardinality(StagingOf(ps) \cup {p}) \in Nat
    BY <2>1, <2>2, FS_Subset, FS_CardinalityType
  <2>4. QED  BY <1>2, <2>2, <2>3
<1>6. ASSUME ps[p].then = "stage", q.then # "stage"
      PROVE  Cardinality(StagingOf(more)) = Cardinality(StagingOf(ps)) - 1
  <2>1. StagingOf(more) = StagingOf(ps) \ {p} /\ p \in StagingOf(ps)
    BY <1>3, <1>6 DEF StagingOf
  <2>2. QED  BY <1>1, <2>1, FS_RemoveElement
<1>7. QED  BY <1>2, <1>4, <1>5, <1>6

-----------------------------------------------------------------------------
(* A request goes on, and decides a save of the journal or none.           *)

Restated(js, ks) ==
  /\ DOMAIN ks = DOMAIN js
  /\ \A t \in DOMAIN js : /\ ks[t] = [state |-> ks[t].state, base |-> js[t].base, before |-> js[t].before]
                         /\ ks[t].state \in States

\* A journal is the same journal, and so is one in which a save is decided.
LEMMA SameRestated ==
  ASSUME NEW js, NEW n, \A t \in DOMAIN js : EntryInv(js[t], n)
  PROVE  Restated(js, js)
BY DEF EntryInv, Restated

\* One save is decided.
LEMMA DecidedRestated ==
  ASSUME NEW js, NEW n, \A t \in DOMAIN js : EntryInv(js[t], n), NEW t \in DOMAIN js, NEW s \in States,
         NEW ks, ks = [js EXCEPT ![t].state = s]
  PROVE  Restated(js, ks)
<1>1. \A u \in DOMAIN js : ks[u] = IF u = t THEN [js[u] EXCEPT !.state = s] ELSE js[u]
  OBVIOUS
<1>2. QED  BY <1>1 DEF EntryInv, Restated

\* One request is set, which begins to save only while a save may still be
\* journalled, and at most one save is decided.
LEMMA GoesOn ==
  ASSUME Sizes, JournalInv, NEW p \in Proxies, NEW q, ProxyInv(q, sent, journal, course.revision),
         q.then = "stage" => proxies[p].then = "stage" \/ Cardinality(DOMAIN journal) + Cardinality(StagingOf(proxies)) < MaxSaves,
         proxies' = [proxies EXCEPT ![p] = q], UNCHANGED <<course, receipts, sent>>,
         Restated(journal, journal'), LearnedInv(learned', receipts, course.revision)
  PROVE  JournalInv'
<1>1. course.revision \in Nat
  BY DEF JournalInv, CourseInv
<1>2. DOMAIN journal' = DOMAIN journal /\ \A t \in DOMAIN journal : journal'[t].base = journal[t].base
  BY DEF Restated
<1>3. \A t \in DOMAIN journal' : EntryInv(journal'[t], course.revision)
  BY DEF JournalInv, EntryInv, Restated
<1>4. \A t \in DOMAIN receipts : ReceiptInv(t, receipts, journal', course.revision)
  BY <1>2 DEF JournalInv, ReceiptInv
<1>5. \A m \in sent : SentInv(m, sent, journal', receipts)
  BY <1>2 DEF JournalInv, SentInv
<1>6. DOMAIN proxies' = Proxies /\ \A o \in Proxies : ProxyInv(proxies'[o], sent, journal', course.revision)
  <2>1. DOMAIN proxies' = Proxies /\ \A o \in Proxies : ProxyInv(proxies'[o], sent, journal, course.revision)
    BY DEF JournalInv
  <2>2. QED  BY <1>1, <1>2, <2>1, ProxyGrown
<1>7. CountInv(journal', receipts, proxies', course.revision)
  <2>1. PICK k \in Nat : DOMAIN journal = 1..k /\ k + Cardinality(StagingOf(proxies)) <= MaxSaves
    BY DEF JournalInv, CountInv
  <2>2. Cardinality(DOMAIN journal) = k
    <3>1. Cardinality(1..k) = IF 1 > k THEN 0 ELSE k - 1 + 1
      BY FS_Interval
    <3>2. QED  BY <2>1, <3>1
  <2>3. PICK ps, more : ps = proxies /\ more = [ps EXCEPT ![p] = q] /\ more = proxies'
    OBVIOUS
  <2>4. /\ Cardinality(StagingOf(ps)) \in Nat /\ Cardinality(StagingOf(more)) \in Nat
        /\ (q.then = "stage" => ps[p].then = "stage") => Cardinality(StagingOf(more)) <= Cardinality(StagingOf(ps))
        /\ Cardinality(StagingOf(more)) <= Cardinality(StagingOf(ps)) + 1
    <3>1. DOMAIN ps = Proxies
      BY <2>3 DEF JournalInv
    <3>2. QED  BY <2>3, <3>1, StagingChanges
  <2>5. k + Cardinality(StagingOf(more)) <= MaxSaves
    BY <2>1, <2>2, <2>3, <2>4 DEF Sizes
  <2>6. QED  BY <1>2, <2>1, <2>3, <2>5 DEF JournalInv, CountInv
<1>8. QED  BY <1>3, <1>4, <1>5, <1>6, <1>7 DEF JournalInv

-----------------------------------------------------------------------------
(* The steps of a recovery.                                                *)

\* No token is 0, which stands for no save.
LEMMA TokensPositive ==
  ASSUME JournalInv
  PROVE  0 \notin DOMAIN journal /\ \A m \in sent : m.token \in DOMAIN journal /\ m.token # 0
BY DEF JournalInv, CountInv, SentInv

\* What a request is when it begins, looks for receipts, and has looked.
LEMMA FreeInv == ASSUME JournalInv PROVE ProxyInv(Free, sent, journal, course.revision) /\ Free.then = "free"
BY TokensPositive DEF Free, ProxyInv

\* A request looks for receipts, and goes on with what it was for.
LEMMA RecoveringInv ==
  ASSUME JournalInv, NEW w, NEW then \in {"free", "stage", "generate"}, NEW failed \in DOMAIN journal \cup {0},
         w = [at |-> w.at, token |-> w.token, doc |-> w.doc, base |-> w.base, before |-> w.before, slot |-> w.slot,
              todo |-> w.todo, failed |-> w.failed, then |-> w.then],
         \A m \in sent : m.token # failed,
         then = "stage" => w.base \in 1..course.revision /\ w.before \in Documents /\ w.doc \in Documents,
         NEW q, q = Recovering(w, then, failed)
  PROVE  ProxyInv(q, sent, journal, course.revision) /\ q.then = then
<1>1. q = [at |-> "receipt", token |-> w.token, doc |-> w.doc, base |-> w.base, before |-> w.before, slot |-> w.slot,
           todo |-> Pending, failed |-> failed, then |-> then]
  BY DEF Recovering
<1>2. Pending \subseteq DOMAIN journal
  BY DEF Pending
<1>3. QED  BY <1>1, <1>2 DEF ProxyInv

\* A request that has looked for receipts goes on, or ends.
LEMMA RecoveredInv ==
  ASSUME JournalInv, NEW p \in Proxies, At(p, "receipt") \/ At(p, "latest"), NEW q, q = Recovered(proxies[p])
  PROVE  ProxyInv(q, sent, journal, course.revision) /\ q.then = proxies[p].then
<1>1. ProxyInv(proxies[p], sent, journal, course.revision)
  BY DEF JournalInv
<1>2. CASE proxies[p].then = "free"
  BY <1>2, FreeInv DEF Recovered
<1>3. CASE proxies[p].then # "free"
  <2>1. PICK w : w = proxies[p]
    OBVIOUS
  <2>2. q = [at |-> w.then, token |-> w.token, doc |-> w.doc, base |-> w.base, before |-> w.before, slot |-> w.slot,
             todo |-> {}, failed |-> 0, then |-> w.then]
    BY <1>1, <1>3, <2>1 DEF Recovered, ProxyInv
  <2>3. QED  BY <1>1, <1>3, <2>1, <2>2, TokensPositive DEF ProxyInv
<1>4. QED  BY <1>2, <1>3

\* A request that goes on looking at receipts.
LEMMA LookingInv ==
  ASSUME JournalInv, NEW p \in Proxies, At(p, "receipt") \/ At(p, "latest"),
         NEW at \in {"receipt", "latest"}, NEW todo \in SUBSET proxies[p].todo,
         NEW q, q = [proxies[p] EXCEPT !.at = at, !.todo = todo]
  PROVE  ProxyInv(q, sent, journal, course.revision) /\ q.then = proxies[p].then
<1>1. PICK w : w = proxies[p]
  OBVIOUS
<1>2. ProxyInv(w, sent, journal, course.revision)
  BY <1>1 DEF JournalInv
<1>3. q = [at |-> at, token |-> w.token, doc |-> w.doc, base |-> w.base, before |-> w.before, slot |-> w.slot,
           todo |-> todo, failed |-> w.failed, then |-> w.then]
  BY <1>1, <1>2 DEF ProxyInv
<1>4. QED  BY <1>1, <1>2, <1>3 DEF ProxyInv

\* Nothing is decided, and nothing is learned.
LEMMA SameLearned ==
  ASSUME JournalInv
  PROVE  Restated(journal, journal) /\ LearnedInv(learned, receipts, course.revision)
BY SameRestated DEF JournalInv

\* A request is set, and the journal, the course and what is learned are not.
LEMMA RequestSet ==
  ASSUME Sizes, JournalInv, NEW p \in Proxies, NEW q, ProxyInv(q, sent, journal, course.revision),
         q.then = "stage" => proxies[p].then = "stage" \/ Cardinality(DOMAIN journal) + Cardinality(StagingOf(proxies)) < MaxSaves,
         Set(p, q), UNCHANGED <<course, receipts, sent, journal, learned>>
  PROVE  JournalInv'
<1>1. proxies' = [proxies EXCEPT ![p] = q]
  BY DEF Set
<1>2. Restated(journal, journal') /\ LearnedInv(learned', receipts, course.revision)
  BY SameLearned
<1>3. QED  BY <1>1, <1>2, GoesOn

\* Each step of a recovery keeps JournalInv.
LEMMA RecoverDoneStep == ASSUME Sizes, JournalInv, NEW p \in Proxies, RecoverDone(p) PROVE JournalInv'
<1>1. PICK q : q = Recovered(proxies[p])
  OBVIOUS
<1>2. Set(p, q) /\ UNCHANGED <<course, receipts, sent, journal, learned>> /\ At(p, "receipt")
  BY <1>1 DEF RecoverDone, Backend
<1>3. QED  BY <1>1, <1>2, RecoveredInv, RequestSet

\* The save has no receipt: the course is read next.
LEMMA ReceiptMissingStep == ASSUME Sizes, JournalInv, NEW p \in Proxies, ReceiptMissing(p) PROVE JournalInv'
<1>1. PICK q : q = [proxies[p] EXCEPT !.at = "latest"]
  OBVIOUS
<1>2. Set(p, q) /\ UNCHANGED <<course, receipts, sent, journal, learned>> /\ At(p, "receipt")
  BY <1>1 DEF ReceiptMissing, Backend
<1>3. PICK todo : todo = proxies[p].todo
  OBVIOUS
<1>4. q = [proxies[p] EXCEPT !.at = "latest", !.todo = todo]
  BY <1>1, <1>3 DEF JournalInv, ProxyInv
<1>5. ProxyInv(q, sent, journal, course.revision) /\ q.then = proxies[p].then
  BY <1>2, <1>3, <1>4, LookingInv
<1>6. QED  BY <1>2, <1>5, RequestSet

\* A read fails: the request goes on without it, or ends.
LEMMA ReadFailsStep == ASSUME Sizes, JournalInv, NEW p \in Proxies, ReadFails(p) PROVE JournalInv'
<1>1. PICK q : q = IF proxies[p].then = "generate" THEN Free ELSE Recovered(proxies[p])
  OBVIOUS
<1>2. Set(p, q) /\ UNCHANGED <<course, receipts, sent, journal, learned>> /\ (At(p, "receipt") \/ At(p, "latest"))
  BY <1>1 DEF ReadFails, Backend
<1>3. ProxyInv(q, sent, journal, course.revision) /\ (q.then = "stage" => proxies[p].then = "stage")
  BY <1>1, <1>2, RecoveredInv, FreeInv
<1>4. QED  BY <1>2, <1>3, RequestSet

\* The course has been read: the save is given up, or looked at later.
LEMMA LatestReadStep == ASSUME Sizes, JournalInv, NEW p \in Proxies, LatestRead(p) PROVE JournalInv'
<1>1. PICK t, gone : t = NextIn(proxies[p].todo, proxies[p].failed) /\ gone = Gone(t, proxies[p].failed)
  OBVIOUS
<1>2. PICK todo : todo = IF gone THEN proxies[p].todo \ {t} ELSE {}
  OBVIOUS
<1>3. PICK q : q = [proxies[p] EXCEPT !.at = "receipt", !.todo = todo]
  OBVIOUS
<1>4. /\ Set(p, q) /\ UNCHANGED <<course, receipts, sent, learned>> /\ At(p, "latest")
      /\ IF gone THEN DiscardStage(t) ELSE UNCHANGED journal
  BY <1>1, <1>2, <1>3 DEF LatestRead, Backend
<1>5. ProxyInv(q, sent, journal, course.revision) /\ q.then = proxies[p].then
  BY <1>2, <1>3, <1>4, LookingInv
<1>6. Restated(journal, journal')
  <2>1. CASE UNCHANGED journal
    BY <2>1, SameLearned
  <2>2. CASE t \in Pending /\ journal' = [journal EXCEPT ![t].state = "aborted"]
    BY <2>2, DecidedRestated DEF Pending, JournalInv, States
  <2>3. QED  BY <1>4, <2>1, <2>2 DEF DiscardStage
<1>7. LearnedInv(learned', receipts, course.revision)
  BY <1>4, SameLearned
<1>8. proxies' = [proxies EXCEPT ![p] = q]
  BY <1>4 DEF Set
<1>9. QED  BY <1>4, <1>5, <1>6, <1>7, <1>8, GoesOn

\* What is learned of a place is its text.
LEMMA LearnText ==
  ASSUME NEW s, NEW base, NEW old, NEW new, NEW e, e = Learn(s, base, old, new), e # None
  PROVE  e.text = new[s]
BY DEF Learn

\* A receipt decides its save, and what is learned was saved under it.
LEMMA Reconciling ==
  ASSUME JournalInv, NEW t \in DOMAIN receipts, ReconcileStage(t)
  PROVE  Restated(journal, journal') /\ LearnedInv(learned', receipts, course.revision)
<1>1. PICK examples : examples = [s \in Slots |->
        LET e == Learn(s, journal[t].base, journal[t].before.hint, receipts[t].doc.hint)
        IN  IF e = None THEN None ELSE [kind |-> e.kind, text |-> e.text, revision |-> receipts[t].revision]]
  OBVIOUS
<1>2. /\ LearnedInv(learned, receipts, course.revision) /\ course.revision \in Nat
      /\ receipts[t].revision \in 1..course.revision
  BY DEF JournalInv, CourseInv, ReceiptInv, EntryInv
<1>3. CASE UNCHANGED <<journal, learned>>
  BY <1>3, SameLearned
<1>4. CASE t \in Pending /\ journal' = [journal EXCEPT ![t].state = "superseded"] /\ UNCHANGED learned
  BY <1>2, <1>4, DecidedRestated DEF Pending, JournalInv, States
<1>5. CASE /\ t \in Pending /\ journal' = [journal EXCEPT ![t].state = "unindexable"]
           /\ learned' = [learned EXCEPT !.examples = [s \in Slots |-> None]]
  <2>1. Restated(journal, journal')
    BY <1>5, DecidedRestated DEF Pending, JournalInv, States
  <2>2. LearnedInv(learned', receipts, course.revision)
    BY <1>2, <1>5 DEF LearnedInv
  <2>3. QED  BY <2>1, <2>2
<1>6. CASE /\ t \in Pending /\ journal' = [journal EXCEPT ![t].state = "reconciled"]
           /\ learned' = [examples |-> examples, watermark |-> receipts[t].revision,
                          lineage |-> learned.lineage \cup {s \in Slots : examples[s] # None /\ examples[s].kind = "ai"}]
  <2>1. Restated(journal, journal')
    BY <1>6, DecidedRestated DEF Pending, JournalInv, States
  <2>2. ASSUME NEW s \in Slots, examples[s] # None
        PROVE  receipts[t].revision = examples[s].revision /\ receipts[t].doc.hint[s] = examples[s].text
    <3>1. PICK e : e = Learn(s, journal[t].base, journal[t].before.hint, receipts[t].doc.hint)
      OBVIOUS
    <3>2. e # None /\ examples[s] = [kind |-> e.kind, text |-> e.text, revision |-> receipts[t].revision]
      BY <1>1, <2>2, <3>1
    <3>3. e.text = receipts[t].doc.hint[s]
      BY <3>1, <3>2, LearnText
    <3>4. QED  BY <3>2, <3>3
  <2>3. PICK lineage : lineage = learned.lineage \cup {s \in Slots : examples[s] # None /\ examples[s].kind = "ai"}
    OBVIOUS
  <2>4. lineage \subseteq Slots
    BY <1>2, <2>3 DEF LearnedInv
  <2>5. learned' = [examples |-> examples, watermark |-> receipts[t].revision, lineage |-> lineage]
    BY <1>6, <2>3
  <2>6. LearnedInv(learned', receipts, course.revision)
    BY <1>2, <2>2, <2>4, <2>5 DEF LearnedInv
  <2>7. QED  BY <2>1, <2>6
<1>7. QED  BY <1>1, <1>3, <1>4, <1>5, <1>6 DEF ReconcileStage

\* A save is looked at that has a receipt.
LEMMA ReceiptFoundStep == ASSUME Sizes, JournalInv, NEW p \in Proxies, ReceiptFound(p) PROVE JournalInv'
<1>1. PICK t : t = NextIn(proxies[p].todo, proxies[p].failed)
  OBVIOUS
<1>2. PICK todo : todo = proxies[p].todo \ {t}
  OBVIOUS
<1>3. PICK q : q = [proxies[p] EXCEPT !.todo = todo]
  OBVIOUS
<1>4. /\ Set(p, q) /\ UNCHANGED <<course, receipts, sent>> /\ At(p, "receipt")
      /\ t \in DOMAIN receipts /\ ReconcileStage(t)
  BY <1>1, <1>2, <1>3 DEF ReceiptFound, Backend
<1>5. q = [proxies[p] EXCEPT !.at = "receipt", !.todo = todo]
  BY <1>3, <1>4 DEF At, JournalInv, ProxyInv
<1>6. ProxyInv(q, sent, journal, course.revision) /\ q.then = proxies[p].then
  BY <1>2, <1>4, <1>5, LookingInv
<1>7. Restated(journal, journal') /\ LearnedInv(learned', receipts, course.revision)
  BY <1>4, Reconciling
<1>8. proxies' = [proxies EXCEPT ![p] = q]
  BY <1>4 DEF Set
<1>9. QED  BY <1>4, <1>6, <1>7, <1>8, GoesOn

-----------------------------------------------------------------------------
(* The steps of a save.                                                    *)

\* A save begins only while one may still be journalled.
LEMMA BeginSaveStep ==
  ASSUME Sizes, JournalInv, NEW p \in Proxies, NEW hint \in [Slots -> Texts \cup {None}],
         NEW broken \in BOOLEAN,
         BeginSave(p, hint, broken)
  PROVE  JournalInv'
<1>1. PICK d, w : /\ d = [hint |-> hint, broken |-> broken]
                  /\ w = [Free EXCEPT !.doc = d, !.base = course.revision, !.before = course.doc]
  OBVIOUS
<1>2. PICK q : q = Recovering(w, "stage", 0)
  OBVIOUS
<1>3. d \in Documents
  BY <1>1 DEF Documents
<1>4. w = [at |-> "free", token |-> 0, doc |-> d, base |-> course.revision, before |-> course.doc, slot |-> None,
           todo |-> {}, failed |-> 0, then |-> "free"]
  BY <1>1 DEF Free
<1>5. course.revision \in 1..course.revision /\ course.doc \in Documents
  BY DEF JournalInv, CourseInv
<1>6. ProxyInv(q, sent, journal, course.revision) /\ q.then = "stage"
  <2>1. \A m \in sent : m.token # 0
    BY TokensPositive
  <2>2. w.base \in 1..course.revision /\ w.before \in Documents /\ w.doc \in Documents
    BY <1>3, <1>4, <1>5
  <2>3. w = [at |-> w.at, token |-> w.token, doc |-> w.doc, base |-> w.base, before |-> w.before, slot |-> w.slot,
             todo |-> w.todo, failed |-> w.failed, then |-> w.then]
    BY <1>4
  <2>4. QED  BY <1>2, <2>1, <2>2, <2>3, RecoveringInv
<1>7. Set(p, q) /\ UNCHANGED <<course, receipts, sent, journal, learned>>
  BY <1>1, <1>2 DEF BeginSave, Backend
<1>8. Cardinality(DOMAIN journal) + Cardinality(StagingOf(proxies)) < MaxSaves
  BY DEF BeginSave, StagingOf
<1>9. QED  BY <1>6, <1>7, <1>8, RequestSet

\* A journal with one more entry.
LEMMA JournalGrown ==
  ASSUME JournalInv, NEW e, NEW t, t = Cardinality(DOMAIN journal) + 1, NEW js, js = With(journal, t, e)
  PROVE  \E k \in Nat : /\ DOMAIN journal = 1..k /\ DOMAIN js = 1..(k + 1) /\ t = k + 1 /\ js[t] = e
                        /\ t \notin DOMAIN journal
                        /\ k + Cardinality(StagingOf(proxies)) <= MaxSaves
                        /\ \A u \in DOMAIN journal : js[u] = journal[u]
<1>1. PICK k \in Nat : DOMAIN journal = 1..k /\ k + Cardinality(StagingOf(proxies)) <= MaxSaves
  BY DEF JournalInv, CountInv
<1>2. Cardinality(DOMAIN journal) = k
  <2>1. Cardinality(1..k) = IF 1 > k THEN 0 ELSE k - 1 + 1
    BY FS_Interval
  <2>2. QED  BY <1>1, <2>1
<1>3. t = k + 1 /\ DOMAIN js = 1..(k + 1)
  BY <1>1, <1>2 DEF With
<1>4. js[t] = e /\ \A u \in DOMAIN journal : js[u] = journal[u]
  BY <1>1, <1>3 DEF With
<1>5. QED  BY <1>1, <1>3, <1>4

\* A save is journalled under a token of its own before it is sent.
LEMMA StageSaveStep == ASSUME Sizes, JournalInv, NEW p \in Proxies, StageSave(p) PROVE JournalInv'
<1>1. PICK q : q = proxies[p]
  OBVIOUS
<1>2. PICK t, e, m, js :
        /\ t = Cardinality(DOMAIN journal) + 1
        /\ e = [state |-> "pending", base |-> q.base, before |-> q.before]
        /\ m = [token |-> t, base |-> q.base, doc |-> q.doc]
        /\ js = With(journal, t, e)
  OBVIOUS
<1>3. PICK r : r = [q EXCEPT !.at = "sent", !.token = t, !.then = "free"]
  OBVIOUS
<1>4. /\ journal' = js /\ sent' = sent \cup {m} /\ proxies' = [proxies EXCEPT ![p] = r]
      /\ UNCHANGED <<course, receipts, learned>> /\ q.at = "stage"
  BY <1>1, <1>2, <1>3 DEF StageSave, Set, At
<1>5. PICK k \in Nat : /\ DOMAIN journal = 1..k /\ DOMAIN js = 1..(k + 1) /\ t = k + 1 /\ js[t] = e
                       /\ t \notin DOMAIN journal
                       /\ k + Cardinality(StagingOf(proxies)) <= MaxSaves
                       /\ \A u \in DOMAIN journal : js[u] = journal[u]
  BY <1>2, JournalGrown
<1>6. /\ ProxyInv(q, sent, journal, course.revision) /\ q.then = "stage" /\ course.revision \in Nat
      /\ q.base \in 1..course.revision /\ q.before \in Documents /\ q.doc \in Documents
  BY <1>1, <1>4 DEF JournalInv, CourseInv, ProxyInv
<1>7. \A u \in DOMAIN js : EntryInv(js[u], course.revision)
  <2>1. EntryInv(js[t], course.revision)
    BY <1>2, <1>5, <1>6 DEF EntryInv, States
  <2>2. QED  BY <1>5, <2>1 DEF JournalInv
<1>8. \A u \in DOMAIN receipts : ReceiptInv(u, receipts, js, course.revision)
  BY <1>5 DEF JournalInv, ReceiptInv
<1>9. \A o \in sent \cup {m} : SentInv(o, sent \cup {m}, js, receipts)
  <2>1. \A o \in sent : SentInv(o, sent, journal, receipts)
    BY DEF JournalInv
  <2>2. \A u \in DOMAIN receipts : u \in DOMAIN journal
    BY DEF JournalInv, ReceiptInv
  <2>3. \A o \in sent : o.token # t
    BY <1>5, <2>1 DEF SentInv
  <2>4. \A o \in sent : SentInv(o, sent \cup {m}, js, receipts)
    BY <1>2, <1>5, <2>1, <2>3 DEF SentInv
  <2>5. SentInv(m, sent \cup {m}, js, receipts)
    BY <1>2, <1>5, <1>6, <2>2, <2>3 DEF SentInv
  <2>6. QED  BY <2>4, <2>5
<1>10. DOMAIN proxies' = Proxies /\ \A o \in Proxies : ProxyInv(proxies'[o], sent \cup {m}, js, course.revision)
  <2>1. \A o \in Proxies : ProxyInv(proxies[o], sent \cup {m}, js, course.revision)
    <3>1. \A o \in sent \cup {m} : o \in sent \/ o.token \notin DOMAIN journal \cup {0}
      BY <1>2, <1>5
    <3>2. \A o \in Proxies : ProxyInv(proxies[o], sent, journal, course.revision)
      BY DEF JournalInv
    <3>3. DOMAIN journal \subseteq DOMAIN js
      BY <1>5
    <3>4. QED  BY <1>6, <3>1, <3>2, <3>3, ProxyGrown
  <2>2. r = [at |-> "sent", token |-> t, doc |-> q.doc, base |-> q.base, before |-> q.before, slot |-> q.slot,
             todo |-> q.todo, failed |-> q.failed, then |-> "free"]
    BY <1>3, <1>6 DEF ProxyInv
  <2>3. ProxyInv(r, sent \cup {m}, js, course.revision)
    <3>1. t \in DOMAIN js
      BY <1>5
    <3>2. ProxyInv(q, sent \cup {m}, js, course.revision)
      BY <1>1, <2>1
    <3>3. QED  BY <2>2, <3>1, <3>2 DEF ProxyInv
  <2>4. QED  BY <1>4, <2>1, <2>3 DEF JournalInv
<1>11. CountInv(js, receipts, proxies', course.revision)
  <2>1. PICK ps, more : ps = proxies /\ more = [ps EXCEPT ![p] = r] /\ more = proxies'
    BY <1>4
  <2>2. ps[p].then = "stage" /\ r.then # "stage" /\ DOMAIN ps = Proxies
    BY <1>1, <1>3, <1>6, <2>1 DEF JournalInv, ProxyInv
  <2>3. Cardinality(StagingOf(more)) = Cardinality(StagingOf(ps)) - 1
        /\ Cardinality(StagingOf(ps)) \in Nat /\ Cardinality(StagingOf(more)) \in Nat
    <3>1. DOMAIN ps = Proxies /\ more = [ps EXCEPT ![p] = r]
      BY <2>1, <2>2
    <3>2. /\ Cardinality(StagingOf(ps)) \in Nat /\ Cardinality(StagingOf(more)) \in Nat
          /\ ps[p].then = "stage" /\ r.then # "stage" => Cardinality(StagingOf(more)) = Cardinality(StagingOf(ps)) - 1
      BY <3>1, StagingChanges
    <3>3. QED  BY <2>2, <3>2
  <2>4. (k + 1) + Cardinality(StagingOf(proxies')) <= MaxSaves
    BY <1>5, <2>1, <2>3 DEF Sizes
  <2>5. Cardinality(DOMAIN receipts) = course.revision - 1
    BY DEF JournalInv, CountInv
  <2>6. k + 1 \in Nat
    OBVIOUS
  <2>7. QED  BY <1>5, <2>4, <2>5, <2>6 DEF CountInv
<1>12. LearnedInv(learned', receipts, course.revision) /\ CourseInv(course)
  BY <1>4 DEF JournalInv
<1>13. QED  BY <1>4, <1>7, <1>8, <1>9, <1>10, <1>11, <1>12 DEF JournalInv

\* A save that is made is a receipt more and a revision more.
LEMMA BackendSavesStep == ASSUME Sizes, JournalInv, NEW m \in sent, BackendSaves(m) PROVE JournalInv'
<1>1. PICK n, c, rs : n = course.revision /\ c = [revision |-> m.base + 1, doc |-> m.doc] /\ rs = With(receipts, m.token, c)
  OBVIOUS
<1>2. /\ m.base = n /\ sent' = sent \ {m} /\ course' = c /\ receipts' = rs
      /\ UNCHANGED <<journal, learned, proxies>>
  BY <1>1 DEF BackendSaves
<1>3. /\ SentInv(m, sent, journal, receipts) /\ n \in Nat \ {0} /\ n + 1 \in Nat /\ n <= n + 1
      /\ c.revision = n + 1 /\ c.doc = m.doc /\ c = [revision |-> c.revision, doc |-> c.doc]
  BY <1>1, <1>2 DEF JournalInv, CourseInv
<1>4. CourseInv(course')
  BY <1>2, <1>3 DEF CourseInv, SentInv
<1>5. /\ DOMAIN rs = DOMAIN receipts \cup {m.token} /\ rs[m.token] = c /\ m.token \notin DOMAIN receipts
      /\ \A t \in DOMAIN receipts : rs[t] = receipts[t]
  BY <1>1, <1>3 DEF With, SentInv
<1>6. \A t \in DOMAIN rs : ReceiptInv(t, rs, journal, n + 1)
  BY <1>1, <1>2, <1>3, <1>5 DEF JournalInv, CourseInv, ReceiptInv, SentInv, EntryInv
<1>7. \A t \in DOMAIN journal : EntryInv(journal[t], n + 1)
  BY <1>1, <1>3 DEF JournalInv, EntryInv
<1>8. \A o \in sent \ {m} : SentInv(o, sent \ {m}, journal, rs)
  <2>1. \A o \in sent : SentInv(o, sent, journal, receipts)
    BY DEF JournalInv
  <2>2. \A o \in sent \ {m} : o.token # m.token
    BY <1>3 DEF SentInv
  <2>3. QED  BY <1>5, <2>1, <2>2 DEF SentInv
<1>9. \A p \in Proxies : ProxyInv(proxies[p], sent \ {m}, journal, n + 1)
  BY <1>1, <1>3, ProxyGrown DEF JournalInv
<1>10. CountInv(journal, rs, proxies, n + 1)
  <2>1. PICK k \in Nat : DOMAIN journal = 1..k /\ k + Cardinality(StagingOf(proxies)) <= MaxSaves
    BY DEF JournalInv, CountInv
  <2>2. IsFiniteSet(DOMAIN receipts)
    <3>1. IsFiniteSet(1..k)
      BY FS_Interval
    <3>2. DOMAIN receipts \subseteq 1..k
      BY <2>1 DEF JournalInv, ReceiptInv
    <3>3. QED  BY <3>1, <3>2, FS_Subset
  <2>3. PICK S, x : S = DOMAIN receipts /\ x = m.token
    OBVIOUS
  <2>4. Cardinality(S \cup {x}) = IF x \in S THEN Cardinality(S) ELSE Cardinality(S) + 1
    BY <2>2, <2>3, FS_AddElement
  <2>5. Cardinality(S) = n - 1
    BY <1>1, <2>3 DEF JournalInv, CountInv
  <2>6. Cardinality(DOMAIN rs) = (n + 1) - 1
    BY <1>3, <1>5, <2>3, <2>4, <2>5
  <2>7. QED  BY <2>1, <2>6 DEF CountInv
<1>11. LearnedInv(learned, rs, n + 1)
  BY <1>1, <1>3, <1>5 DEF JournalInv, LearnedInv
<1>12. QED  BY <1>2, <1>3, <1>4, <1>6, <1>7, <1>8, <1>9, <1>10, <1>11 DEF JournalInv

\* A save that is refused or lost is no longer under way.
LEMMA EndedStep ==
  ASSUME JournalInv, NEW m \in sent, sent' = sent \ {m},
         UNCHANGED <<course, receipts, journal, learned, proxies>>
  PROVE  JournalInv'
<1>1. \A o \in sent' : SentInv(o, sent', journal, receipts)
  BY DEF JournalInv, SentInv
<1>2. \A p \in Proxies : ProxyInv(proxies[p], sent', journal, course.revision)
  BY DEF JournalInv, ProxyInv
<1>3. QED  BY <1>1, <1>2 DEF JournalInv

\* A save that was refused is no longer under way.
LEMMA AnsweredStep ==
  ASSUME Sizes, JournalInv, NEW p \in Proxies, NEW refused \in BOOLEAN, Answered(p, refused)
  PROVE  JournalInv'
<1>1. PICK w, failed : w = proxies[p] /\ failed = IF refused THEN w.token ELSE 0
  OBVIOUS
<1>2. PICK q : q = Recovering(w, "free", failed)
  OBVIOUS
<1>3. Set(p, q) /\ UNCHANGED <<course, receipts, sent, journal, learned>> /\ w.at = "sent"
      /\ \A m \in sent : m.token # w.token
  BY <1>1, <1>2 DEF Answered, Backend, At
<1>4. ProxyInv(w, sent, journal, course.revision)
  BY <1>1 DEF JournalInv
<1>5. failed \in DOMAIN journal \cup {0} /\ \A m \in sent : m.token # failed
  BY <1>1, <1>3, <1>4, TokensPositive DEF ProxyInv
<1>6. w = [at |-> w.at, token |-> w.token, doc |-> w.doc, base |-> w.base, before |-> w.before, slot |-> w.slot,
           todo |-> w.todo, failed |-> w.failed, then |-> w.then]
  BY <1>4 DEF ProxyInv
<1>7. ProxyInv(q, sent, journal, course.revision) /\ q.then = "free"
  BY <1>2, <1>5, <1>6, RecoveringInv
<1>8. QED  BY <1>3, <1>7, RequestSet

\* A request that is given up ends, or looks for receipts.
LEMMA GivenUpStep == ASSUME Sizes, JournalInv, NEW p \in Proxies, GivenUp(p) PROVE JournalInv'
<1>1. UNCHANGED <<course, receipts, sent, journal, learned>>
  BY DEF GivenUp, Backend
<1>2. CASE Set(p, Free)
  <2>1. PICK q : q = Free
    OBVIOUS
  <2>2. QED  BY <1>1, <1>2, <2>1, FreeInv, RequestSet
<1>3. CASE Set(p, Recovering(proxies[p], "free", 0))
  <2>1. PICK w : w = proxies[p]
    OBVIOUS
  <2>2. PICK q : q = Recovering(w, "free", 0)
    OBVIOUS
  <2>3. ProxyInv(w, sent, journal, course.revision)
    BY <2>1 DEF JournalInv
  <2>4. w = [at |-> w.at, token |-> w.token, doc |-> w.doc, base |-> w.base, before |-> w.before, slot |-> w.slot,
             todo |-> w.todo, failed |-> w.failed, then |-> w.then]
    BY <2>3 DEF ProxyInv
  <2>5. ProxyInv(q, sent, journal, course.revision) /\ q.then = "free"
    BY <2>2, <2>4, RecoveringInv, TokensPositive
  <2>6. QED  BY <1>1, <1>3, <2>1, <2>2, <2>5, RequestSet
<1>4. QED  BY <1>2, <1>3 DEF GivenUp

\* A generation looks for receipts first.
LEMMA BeginGenerateStep ==
  ASSUME Sizes, JournalInv, NEW p \in Proxies, NEW s \in Slots, BeginGenerate(p, s)
  PROVE  JournalInv'
<1>1. PICK w : w = [Free EXCEPT !.slot = s, !.base = course.revision]
  OBVIOUS
<1>2. PICK q : q = Recovering(w, "generate", 0)
  OBVIOUS
<1>3. w = [at |-> "free", token |-> 0, doc |-> None, base |-> course.revision, before |-> None, slot |-> s,
           todo |-> {}, failed |-> 0, then |-> "free"]
  BY <1>1 DEF Free
<1>4. ProxyInv(q, sent, journal, course.revision) /\ q.then = "generate"
  <2>1. w = [at |-> w.at, token |-> w.token, doc |-> w.doc, base |-> w.base, before |-> w.before, slot |-> w.slot,
             todo |-> w.todo, failed |-> w.failed, then |-> w.then]
    BY <1>3
  <2>2. QED  BY <1>2, <2>1, RecoveringInv, TokensPositive
<1>5. Set(p, q) /\ UNCHANGED <<course, receipts, sent, journal, learned>>
  BY <1>1, <1>2 DEF BeginGenerate, Backend
<1>6. QED  BY <1>4, <1>5, RequestSet

\* A generation ends; its review is none of the journal.
LEMMA GenerateStep == ASSUME Sizes, JournalInv, NEW p \in Proxies, NEW text, Generate(p, text) PROVE JournalInv'
<1>1. PICK q : q = Free
  OBVIOUS
<1>2. Set(p, q) /\ UNCHANGED <<course, receipts, sent, journal, learned>>
  BY <1>1 DEF Generate
<1>3. QED  BY <1>1, <1>2, FreeInv, RequestSet

-----------------------------------------------------------------------------
(* Every step, and what is learned.                                        *)

\* JournalInv holds when the course has its first revision.
LEMMA InitJournal == ASSUME Sizes, Init PROVE JournalInv
<1>1. PICK hint \in [Slots -> HandTexts \cup {None}] : course = [revision |-> 1, doc |-> [hint |-> hint, broken |-> FALSE]]
  BY DEF Init
<1>2. CourseInv(course) /\ course.revision = 1
  BY <1>1 DEF CourseInv, Documents, Texts
<1>3. /\ receipts = <<>> /\ DOMAIN receipts = {} /\ journal = <<>> /\ DOMAIN journal = {} /\ sent = {}
      /\ learned = [examples |-> [s \in Slots |-> None], lineage |-> {}, watermark |-> 0]
      /\ DOMAIN proxies = Proxies /\ \A p \in Proxies : proxies[p] = Free
  BY DEF Init
<1>4. LearnedInv(learned, receipts, course.revision)
  BY <1>2, <1>3 DEF LearnedInv
<1>5. CountInv(journal, receipts, proxies, course.revision)
  <2>1. StagingOf(proxies) = {}
    BY <1>3 DEF StagingOf, Free
  <2>2. Cardinality({}) = 0 /\ DOMAIN journal = 1..0
    BY <1>3, FS_EmptySet
  <2>3. 0 \in Nat /\ 0 + 0 <= MaxSaves
    BY DEF Sizes
  <2>4. QED  BY <1>2, <1>3, <2>1, <2>2, <2>3 DEF CountInv
<1>6. \A p \in Proxies : ProxyInv(proxies[p], sent, journal, course.revision)
  BY <1>3 DEF ProxyInv, Free
<1>7. QED  BY <1>2, <1>3, <1>4, <1>5, <1>6 DEF JournalInv

\* Every step keeps JournalInv.
LEMMA NextJournal == ASSUME Sizes, JournalInv, [Next]_vars PROVE JournalInv'
<1>1. ASSUME NEW p \in Proxies, RecoverStep(p) PROVE JournalInv'
  BY <1>1, RecoverDoneStep, ReceiptFoundStep, ReceiptMissingStep, LatestReadStep, ReadFailsStep DEF RecoverStep
<1>2. ASSUME NEW p \in Proxies, SaveStep(p) PROVE JournalInv'
  BY <1>2, BeginSaveStep, StageSaveStep, AnsweredStep, GivenUpStep DEF SaveStep
<1>3. ASSUME NEW m \in sent, BackendSaves(m) \/ BackendRefuses(m) \/ SaveLost(m) PROVE JournalInv'
  BY <1>3, BackendSavesStep, EndedStep DEF BackendRefuses, SaveLost
<1>4. ASSUME ReviewStep PROVE JournalInv'
  <2>1. ASSUME NEW i \in DOMAIN reviews, NEW v, Judge(i, v) \/ Rewrite(i, v) PROVE JournalInv'
    <3>1. UNCHANGED <<course, receipts, sent, journal, learned, proxies>>
      BY <2>1 DEF Judge, Rewrite, Backend
    <3>2. QED  BY <3>1 DEF JournalInv
  <2>2. QED  BY <1>4, <2>1, BeginGenerateStep, GenerateStep DEF ReviewStep
<1>5. CASE UNCHANGED vars
  BY <1>5 DEF vars, JournalInv
<1>6. QED  BY <1>1, <1>2, <1>3, <1>4, <1>5 DEF Next, BackendStep

\* JournalInv is inductive, for any number of saves, reviews and failures, and
\* whether or not a save is made between the two reads of a recovery.
THEOREM JournalInvariance == Sizes => (Spec => []JournalInv)
<1> SUFFICES ASSUME Sizes PROVE Spec => []JournalInv
  OBVIOUS
<1>1. Init => JournalInv
  BY InitJournal
<1>2. JournalInv /\ [Next]_vars => JournalInv'
  BY NextJournal
<1>3. QED  BY <1>1, <1>2, PTL DEF Spec

\* The course has at most a revision for each save.
LEMMA RevisionsBounded ==
  ASSUME Sizes, NEW js, NEW rs, NEW ps, NEW n \in Nat \ {0},
         CountInv(js, rs, ps, n), DOMAIN rs \subseteq DOMAIN js
  PROVE  n \in Revisions /\ DOMAIN js \subseteq Tokens
<1>1. PICK k \in Nat : DOMAIN js = 1..k /\ k + Cardinality(StagingOf(ps)) <= MaxSaves
  BY DEF CountInv
<1>2. Cardinality(StagingOf(ps)) \in Nat
  BY FS_Subset, FS_CardinalityType DEF Sizes, StagingOf
<1>3. IsFiniteSet(1..k) /\ Cardinality(1..k) = IF 1 > k THEN 0 ELSE k - 1 + 1
  BY FS_Interval
<1>4. Cardinality(DOMAIN rs) <= Cardinality(1..k)
  BY <1>1, <1>3, FS_Subset
<1>5. n <= MaxSaves + 1 /\ k <= MaxSaves
  BY <1>1, <1>2, <1>3, <1>4 DEF CountInv, Sizes
<1>6. QED  BY <1>1, <1>5 DEF Revisions, Tokens, Sizes

\* The two databases have their types, and the course has a revision for each
\* save (learning_schema).
THEOREM LearningTypes == Sizes => (Spec => []TypeOK)
<1> SUFFICES ASSUME Sizes PROVE Spec => []TypeOK
  OBVIOUS
<1>1. JournalInv => TypeOK
  <2> SUFFICES ASSUME JournalInv PROVE TypeOK
    OBVIOUS
  <2>1. DOMAIN receipts \subseteq DOMAIN journal
    BY DEF JournalInv, ReceiptInv
  <2>2. course.revision \in Nat \ {0} /\ course.doc \in Documents
    BY DEF JournalInv, CourseInv
  <2>3. course.revision \in Revisions /\ DOMAIN journal \subseteq Tokens
    BY <2>1, <2>2, RevisionsBounded DEF JournalInv
  <2>4. learned.lineage \subseteq Slots /\ learned.watermark \in Revisions \cup {0}
    BY <2>2, <2>3 DEF JournalInv, LearnedInv, Revisions, Sizes
  <2>5. \A t \in DOMAIN journal : journal[t].state \in States
    BY DEF JournalInv, EntryInv
  <2>6. QED  BY <2>1, <2>2, <2>3, <2>4, <2>5 DEF TypeOK, States
<1>2. QED  BY <1>1, JournalInvariance, PTL

\* What is learned was saved, in that place and in the revision it is marked
\* with, whatever was journalled, refused or found late (reconcile_stage).
THEOREM LearnsWhatWasSaved == Sizes => (Spec => []LearnedAsSaved)
<1> SUFFICES ASSUME Sizes PROVE Spec => []LearnedAsSaved
  OBVIOUS
<1>1. JournalInv => LearnedAsSaved
  BY DEF JournalInv, LearnedInv, LearnedAsSaved
<1>2. QED  BY <1>1, JournalInvariance, PTL

-----------------------------------------------------------------------------
(***************************************************************************)
(* A save that is given up cannot be made any more, also when another was  *)
(* made between the two reads of a recovery; and a save that was made is   *)
(* learned from after those before it (w is the watermark).                *)
(***************************************************************************)
ForGoodInv(t, js, out, n) == js[t].state = "aborted" => js[t].base < n \/ \A m \in out : m.token # t
AheadInv(t, js, rs, w) == js[t].state = "pending" => rs[t].revision > w
RevisionsInv(rs) == \A t \in DOMAIN rs, u \in DOMAIN rs : rs[t].revision = rs[u].revision => t = u

OrderInv ==
  /\ RevisionsInv(receipts)
  /\ \A t \in DOMAIN journal : ForGoodInv(t, journal, sent, course.revision) /\ journal[t].state # "superseded"
  /\ \A t \in DOMAIN receipts : AheadInv(t, journal, receipts, learned.watermark)

\* A request is set that awaits nothing of the course, or no request is.
Goes(p, q) == q.at # "latest" /\ Set(p, q)
Settled == UNCHANGED <<course, receipts, sent, journal, learned>>

\* The steps that are of the journal and the receipts, and the others.
LEMMA OrderSteps ==
  ASSUME JournalInv, [Next]_vars
  PROVE  \/ \E p \in Proxies : ReceiptFound(p) \/ ReceiptMissing(p) \/ LatestRead(p) \/ StageSave(p)
         \/ \E m \in sent : BackendSaves(m)
         \/ \E m \in sent : sent' = sent \ {m} /\ UNCHANGED <<course, receipts, journal, learned, proxies>>
         \/ Settled /\ \E p \in Proxies : Goes(p, proxies'[p])
         \/ Settled /\ UNCHANGED proxies
<1> DEFINE Other == Settled /\ \E p \in Proxies : Goes(p, proxies'[p])
\* A request that begins, ends or looks for receipts awaits nothing.
<1>1. ASSUME NEW p \in Proxies, NEW q, Set(p, q), q.at # "latest", Settled PROVE Other
  <2>1. proxies'[p] = q
    BY <1>1 DEF Set, JournalInv
  <2>2. QED  BY <1>1, <2>1 DEF Goes
<1>2. Free.at # "latest"
  BY DEF Free
<1>3. ASSUME NEW w,
             w = [at |-> w.at, token |-> w.token, doc |-> w.doc, base |-> w.base, before |-> w.before, slot |-> w.slot,
                         todo |-> w.todo, failed |-> w.failed, then |-> w.then], NEW then, NEW failed
      PROVE  Recovering(w, then, failed).at = "receipt"
  BY <1>3 DEF Recovering
<1>4. ASSUME NEW p \in Proxies PROVE Recovered(proxies[p]).at # "latest"
  <2>1. ProxyInv(proxies[p], sent, journal, course.revision)
    BY DEF JournalInv
  <2>2. QED  BY <2>1 DEF Recovered, Free, ProxyInv
<1>5. ASSUME NEW p \in Proxies, RecoverDone(p) \/ ReadFails(p) PROVE Other
  <2>1. PICK q : q \in {Free, Recovered(proxies[p])} /\ Set(p, q)
    BY <1>5 DEF RecoverDone, ReadFails
  <2>2. Settled
    BY <1>5 DEF RecoverDone, ReadFails, Backend, Settled
  <2>3. QED  BY <1>1, <1>2, <1>4, <2>1, <2>2
<1>6. ASSUME NEW p \in Proxies, NEW hint, NEW broken, BeginSave(p, hint, broken) PROVE Other
  <2>1. PICK q : q = Recovering([Free EXCEPT !.doc = [hint |-> hint, broken |-> broken], !.base = course.revision,
                                             !.before = course.doc], "stage", 0)
    OBVIOUS
  <2>2. q.at = "receipt"
    BY <2>1 DEF Recovering, Free
  <2>3. Set(p, q) /\ Settled
    BY <1>6, <2>1 DEF BeginSave, Backend, Settled
  <2>4. QED  BY <1>1, <2>2, <2>3
<1>7. ASSUME NEW p \in Proxies, NEW refused \in BOOLEAN, Answered(p, refused) PROVE Other
  <2>1. PICK q : q = Recovering(proxies[p], "free", IF refused THEN proxies[p].token ELSE 0)
    OBVIOUS
  <2>2. q.at = "receipt"
    BY <1>3, <2>1 DEF JournalInv, ProxyInv
  <2>3. Set(p, q) /\ Settled
    BY <1>7, <2>1 DEF Answered, Backend, Settled
  <2>4. QED  BY <1>1, <2>2, <2>3
<1>8. ASSUME NEW p \in Proxies, GivenUp(p) PROVE Other
  <2>1. PICK q : q = Recovering(proxies[p], "free", 0)
    OBVIOUS
  <2>2. q.at = "receipt"
    BY <1>3, <2>1 DEF JournalInv, ProxyInv
  <2>3. Settled /\ (Set(p, q) \/ Set(p, Free))
    BY <1>8, <2>1 DEF GivenUp, Backend, Settled
  <2>4. QED  BY <1>1, <1>2, <2>2, <2>3
<1>9. ASSUME NEW p \in Proxies, NEW s \in Slots, BeginGenerate(p, s) PROVE Other
  <2>1. PICK q : q = Recovering([Free EXCEPT !.slot = s, !.base = course.revision], "generate", 0)
    OBVIOUS
  <2>2. q.at = "receipt"
    BY <2>1 DEF Recovering, Free
  <2>3. Set(p, q) /\ Settled
    BY <1>9, <2>1 DEF BeginGenerate, Backend, Settled
  <2>4. QED  BY <1>1, <2>2, <2>3
<1>10. ASSUME NEW p \in Proxies, NEW text, Generate(p, text) PROVE Other
  <2>1. Set(p, Free) /\ Settled
    BY <1>10 DEF Generate, Settled
  <2>2. QED  BY <1>1, <1>2, <2>1
<1>11. ASSUME NEW i \in DOMAIN reviews, NEW v, Judge(i, v) \/ Rewrite(i, v) PROVE Settled /\ UNCHANGED proxies
  BY <1>11 DEF Judge, Rewrite, Backend, Settled
<1>12. CASE UNCHANGED vars
  BY <1>12 DEF vars, Settled
<1> HIDE DEF Other
<1>13. ASSUME NEW p \in Proxies, RecoverStep(p)
       PROVE  ReceiptFound(p) \/ ReceiptMissing(p) \/ LatestRead(p) \/ Other
  BY <1>5, <1>13 DEF RecoverStep
<1>14. ASSUME NEW p \in Proxies, SaveStep(p) PROVE StageSave(p) \/ Other
  BY <1>6, <1>7, <1>8, <1>14 DEF SaveStep
<1>15. ASSUME NEW m \in sent, BackendSaves(m) \/ BackendRefuses(m) \/ SaveLost(m)
       PROVE  BackendSaves(m) \/ (sent' = sent \ {m} /\ UNCHANGED <<course, receipts, journal, learned, proxies>>)
  BY <1>15 DEF BackendRefuses, SaveLost
<1>16. ASSUME ReviewStep PROVE Other \/ (Settled /\ UNCHANGED proxies)
  BY <1>9, <1>10, <1>11, <1>16 DEF ReviewStep
<1>17. QED  BY <1>12, <1>13, <1>14, <1>15, <1>16 DEF Next, BackendStep, Other

\* A save that is learned from is the next: those before it are decided, and
\* it is past the watermark.
LEMMA ReceiptFoundOrder ==
  ASSUME JournalInv, OrderInv, NEW p \in Proxies, ReceiptFound(p)
  PROVE  /\ OrderInv'
         /\ DOMAIN journal' = DOMAIN journal
         /\ \A u \in DOMAIN journal : journal'[u].state = "aborted" => journal[u].state = "aborted"
<1>1. PICK t : t = NextIn(proxies[p].todo, proxies[p].failed)
  OBVIOUS
<1>2. /\ UNCHANGED <<course, receipts, sent>> /\ At(p, "receipt")
      /\ t \in DOMAIN receipts /\ ReconcileStage(t)
  BY <1>1 DEF ReceiptFound, Backend
<1>3. CASE UNCHANGED <<journal, learned>>
  BY <1>2, <1>3 DEF OrderInv
<1>4. CASE t \in Pending /\ ~Waits(t) /\ ~UNCHANGED <<journal, learned>>
  <2>1. receipts[t].revision > learned.watermark
    BY <1>2, <1>4 DEF OrderInv, AheadInv, Pending
  <2>2. /\ \E s \in {"unindexable", "reconciled"} : journal' = [journal EXCEPT ![t].state = s]
        /\ learned'.watermark \in {learned.watermark, receipts[t].revision}
    <3>1. ~(learned.watermark >= receipts[t].revision)
      BY <1>2, <2>1 DEF JournalInv, LearnedInv, ReceiptInv, EntryInv, CourseInv
    <3>2. learned = [examples |-> learned.examples, lineage |-> learned.lineage, watermark |-> learned.watermark]
      BY DEF JournalInv, LearnedInv
    <3>3. QED  BY <1>2, <1>4, <3>1, <3>2 DEF ReconcileStage
  <2>3. PICK s \in {"unindexable", "reconciled"} : journal' = [journal EXCEPT ![t].state = s]
    BY <2>2
  <2>4. \A u \in DOMAIN journal : /\ journal'[u].base = journal[u].base
                                  /\ u # t => journal'[u].state = journal[u].state
                                  /\ u = t => journal'[u].state = s
    BY <2>3 DEF JournalInv, EntryInv
  <2>5. DOMAIN journal' = DOMAIN journal
    BY <2>3
  <2>6. \A u \in DOMAIN journal' : ForGoodInv(u, journal', sent, course.revision) /\ journal'[u].state # "superseded"
    BY <2>4, <2>5 DEF OrderInv, ForGoodInv
  <2>7. ASSUME NEW u \in DOMAIN receipts PROVE AheadInv(u, journal', receipts, learned'.watermark)
    <3>1. /\ u \in DOMAIN journal /\ t \in DOMAIN journal
          /\ receipts[u].revision = journal[u].base + 1 /\ receipts[t].revision = journal[t].base + 1
          /\ journal[u].base \in Nat /\ journal[t].base \in Nat /\ course.revision \in Nat
      BY <1>2 DEF JournalInv, ReceiptInv, EntryInv, CourseInv
    <3>2. CASE journal'[u].state # "pending"
      BY <3>2 DEF AheadInv
    <3>3. CASE journal'[u].state = "pending"
      <4>1. u # t /\ journal[u].state = "pending"
        BY <2>4, <3>1, <3>3
      <4>2. receipts[u].revision > learned.watermark
        BY <4>1 DEF OrderInv, AheadInv
      <4>3. journal[u].base >= journal[t].base
        BY <1>4, <3>1, <4>1 DEF Waits, Pending
      <4>4. receipts[u].revision # receipts[t].revision
        BY <1>2, <4>1 DEF OrderInv, RevisionsInv
      <4>5. receipts[u].revision > receipts[t].revision
        BY <3>1, <4>3, <4>4
      <4>6. QED  BY <2>2, <4>2, <4>5 DEF AheadInv
    <3>4. QED  BY <3>2, <3>3
  <2>8. QED  BY <1>2, <2>4, <2>5, <2>6, <2>7 DEF OrderInv
<1>5. QED  BY <1>2, <1>3, <1>4 DEF ReconcileStage

\* A save is given up that cannot get a receipt: it was refused, or the course
\* has moved past what it was based on.
LEMMA LatestReadOrder == ASSUME JournalInv, OrderInv, NEW p \in Proxies, LatestRead(p) PROVE OrderInv'
<1>1. PICK t, gone : t = NextIn(proxies[p].todo, proxies[p].failed) /\ gone = Gone(t, proxies[p].failed)
  OBVIOUS
<1>2. /\ UNCHANGED <<course, receipts, sent, learned>>
      /\ IF gone THEN DiscardStage(t) ELSE UNCHANGED journal
  BY <1>1 DEF LatestRead, Backend
<1>3. CASE UNCHANGED journal
  BY <1>2, <1>3 DEF OrderInv
<1>4. CASE gone /\ t \in Pending /\ journal' = [journal EXCEPT ![t].state = "aborted"]
  <2>1. journal[t].base < course.revision \/ \A m \in sent : m.token # t
    <3>1. t = proxies[p].failed \/ course.revision > journal[t].base
      BY <1>1, <1>4 DEF Gone
    <3>2. \A m \in sent : m.token # proxies[p].failed
      BY DEF JournalInv, ProxyInv
    <3>3. course.revision \in Nat /\ journal[t].base \in Nat
      BY <1>4 DEF JournalInv, CourseInv, EntryInv, Pending
    <3>4. QED  BY <3>1, <3>2, <3>3
  <2>2. /\ DOMAIN journal' = DOMAIN journal
        /\ \A u \in DOMAIN journal : /\ journal'[u].base = journal[u].base
                                     /\ u # t => journal'[u].state = journal[u].state
                                     /\ u = t => journal'[u].state = "aborted"
    BY <1>4 DEF JournalInv, EntryInv
  <2>3. \A u \in DOMAIN journal' : ForGoodInv(u, journal', sent, course.revision) /\ journal'[u].state # "superseded"
    BY <2>1, <2>2 DEF OrderInv, ForGoodInv
  <2>4. \A u \in DOMAIN receipts : AheadInv(u, journal', receipts, learned.watermark)
    BY <2>2 DEF OrderInv, AheadInv, JournalInv, ReceiptInv
  <2>5. QED  BY <1>2, <2>3, <2>4 DEF OrderInv
<1>5. QED  BY <1>2, <1>3, <1>4 DEF DiscardStage

\* A save that is journalled is pending and has no receipt.
LEMMA StageSaveOrder == ASSUME JournalInv, OrderInv, NEW p \in Proxies, StageSave(p) PROVE OrderInv'
<1>1. PICK q : q = proxies[p]
  OBVIOUS
<1>2. PICK t, e, m, js :
        /\ t = Cardinality(DOMAIN journal) + 1
        /\ e = [state |-> "pending", base |-> q.base, before |-> q.before]
        /\ m = [token |-> t, base |-> q.base, doc |-> q.doc]
        /\ js = With(journal, t, e)
  OBVIOUS
<1>3. journal' = js /\ sent' = sent \cup {m} /\ UNCHANGED <<course, receipts, learned>>
  BY <1>1, <1>2 DEF StageSave
<1>4. PICK k \in Nat : /\ DOMAIN journal = 1..k /\ DOMAIN js = 1..(k + 1) /\ t = k + 1 /\ js[t] = e
                       /\ t \notin DOMAIN journal
                       /\ k + Cardinality(StagingOf(proxies)) <= MaxSaves
                       /\ \A u \in DOMAIN journal : js[u] = journal[u]
  BY <1>2, JournalGrown
<1>5. \A u \in DOMAIN js : ForGoodInv(u, js, sent \cup {m}, course.revision) /\ js[u].state # "superseded"
  BY <1>2, <1>4 DEF OrderInv, ForGoodInv
<1>6. \A u \in DOMAIN receipts : AheadInv(u, js, receipts, learned.watermark)
  BY <1>4 DEF OrderInv, AheadInv, JournalInv, ReceiptInv
<1>7. QED  BY <1>3, <1>5, <1>6 DEF OrderInv

\* What a save that is made adds to the receipts.
LEMMA ReceiptAdded ==
  ASSUME JournalInv, NEW m \in sent, BackendSaves(m),
         NEW rs, rs = With(receipts, m.token, [revision |-> m.base + 1, doc |-> m.doc])
  PROVE  /\ receipts' = rs /\ m.base = course.revision /\ sent' = sent \ {m} /\ course'.revision = m.base + 1
         /\ UNCHANGED <<journal, learned, proxies>>
         /\ SentInv(m, sent, journal, receipts) /\ course.revision \in Nat \ {0}
         /\ DOMAIN rs = DOMAIN receipts \cup {m.token} /\ rs[m.token].revision = m.base + 1
         /\ m.token \notin DOMAIN receipts /\ \A t \in DOMAIN receipts : rs[t] = receipts[t]
<1>1. PICK c : c = [revision |-> m.base + 1, doc |-> m.doc]
  OBVIOUS
<1>2. /\ m.base = course.revision /\ sent' = sent \ {m} /\ course' = c /\ receipts' = rs
      /\ UNCHANGED <<journal, learned, proxies>>
  BY <1>1 DEF BackendSaves
<1>3. SentInv(m, sent, journal, receipts) /\ course.revision \in Nat \ {0} /\ c.revision = m.base + 1
  BY <1>1, <1>2 DEF JournalInv, CourseInv
<1>4. /\ DOMAIN rs = DOMAIN receipts \cup {m.token} /\ rs[m.token] = c /\ m.token \notin DOMAIN receipts
      /\ \A t \in DOMAIN receipts : rs[t] = receipts[t]
  BY <1>1, <1>3 DEF With, SentInv
<1>5. QED  BY <1>2, <1>3, <1>4

\* A save that is made was not given up, and is past the watermark.
LEMMA BackendSavesOrder ==
  ASSUME JournalInv, OrderInv, NEW m \in sent, BackendSaves(m)
  PROVE  OrderInv' /\ journal[m.token].state # "aborted"
<1>1. PICK n, rs : n = course.revision /\ rs = With(receipts, m.token, [revision |-> m.base + 1, doc |-> m.doc])
  OBVIOUS
<1>2. /\ m.base = n /\ receipts' = rs /\ sent' = sent \ {m} /\ course'.revision = n + 1
      /\ UNCHANGED <<journal, learned, proxies>>
      /\ SentInv(m, sent, journal, receipts) /\ n \in Nat \ {0}
      /\ DOMAIN rs = DOMAIN receipts \cup {m.token} /\ rs[m.token].revision = n + 1
      /\ m.token \notin DOMAIN receipts /\ \A t \in DOMAIN receipts : rs[t] = receipts[t]
  BY <1>1, ReceiptAdded
<1>3. \A t \in DOMAIN receipts : t \in DOMAIN journal /\ receipts[t].revision <= n /\ receipts[t].revision \in Nat
  BY <1>1 DEF JournalInv, ReceiptInv, EntryInv, CourseInv
<1>4. RevisionsInv(rs)
  BY <1>2, <1>3 DEF OrderInv, RevisionsInv
<1>5. ASSUME NEW t \in DOMAIN journal
      PROVE  ForGoodInv(t, journal, sent \ {m}, n + 1) /\ journal[m.token].state # "aborted"
  <2>1. ForGoodInv(t, journal, sent, n) /\ ForGoodInv(m.token, journal, sent, n) /\ journal[t].base \in Nat
    BY <1>1, <1>2 DEF OrderInv, JournalInv, EntryInv, SentInv
  <2>2. journal[m.token].state # "aborted"
    BY <1>2, <2>1 DEF ForGoodInv, SentInv
  <2>3. ForGoodInv(t, journal, sent \ {m}, n + 1)
    BY <1>2, <2>1 DEF ForGoodInv
  <2>4. QED  BY <2>2, <2>3
<1>6. \A t \in DOMAIN rs : AheadInv(t, journal, rs, learned.watermark)
  <2>1. learned.watermark \in 0..n
    BY <1>1 DEF JournalInv, LearnedInv
  <2>2. QED  BY <1>2, <2>1 DEF OrderInv, AheadInv
<1>7. OrderInv'
  BY <1>2, <1>4, <1>5, <1>6 DEF OrderInv
<1>8. QED  BY <1>2, <1>5, <1>7 DEF SentInv

\* Every step keeps OrderInv.
LEMMA NextOrder == ASSUME JournalInv, OrderInv, [Next]_vars PROVE OrderInv'
<1>1. ASSUME NEW p \in Proxies, ReceiptFound(p) \/ LatestRead(p) \/ StageSave(p) PROVE OrderInv'
  BY <1>1, ReceiptFoundOrder, LatestReadOrder, StageSaveOrder
<1>2. ASSUME NEW m \in sent, BackendSaves(m) PROVE OrderInv'
  BY <1>2, BackendSavesOrder
<1>3. ASSUME NEW m \in sent, sent' = sent \ {m}, UNCHANGED <<course, receipts, journal, learned>> PROVE OrderInv'
  BY <1>3 DEF OrderInv, ForGoodInv
<1>4. ASSUME Settled PROVE OrderInv'
  BY <1>4 DEF OrderInv, Settled
<1>5. ASSUME NEW p \in Proxies, ReceiptMissing(p) PROVE OrderInv'
  BY <1>4, <1>5 DEF ReceiptMissing, Backend, Settled
<1>6. QED  BY <1>1, <1>2, <1>3, <1>4, <1>5, OrderSteps

\* OrderInv is inductive on top of JournalInv, whether or not a save is made
\* between the two reads of a recovery.
THEOREM OrderInvariance == Sizes => (Spec => []OrderInv)
<1> SUFFICES ASSUME Sizes PROVE Spec => []OrderInv
  OBVIOUS
<1>1. Init => OrderInv
  BY DEF Init, OrderInv, RevisionsInv
<1>2. JournalInv /\ OrderInv /\ [Next]_vars => OrderInv'
  BY NextOrder
<1>3. QED  BY <1>1, <1>2, JournalInvariance, PTL DEF Spec

\* A save the journal has given up that is still on its way will be refused:
\* it "can no longer commit" (hint_learning.py:213), whatever is saved between
\* the two reads of a recovery.
THEOREM GivesUpForGood == Sizes => (Spec => []GivenUpForGood)
<1> SUFFICES ASSUME Sizes PROVE Spec => []GivenUpForGood
  OBVIOUS
<1>1. JournalInv /\ OrderInv => GivenUpForGood
  BY DEF JournalInv, SentInv, OrderInv, ForGoodInv, GivenUpForGood
<1>2. QED  BY <1>1, JournalInvariance, OrderInvariance, PTL

\* Saves are learned from in the order of the course's revisions: none is
\* passed over (the watermark of reconcile_stage), whatever is saved between
\* the two reads of a recovery.
THEOREM PassesNoneOver == Sizes => (Spec => []NoneSuperseded)
<1> SUFFICES ASSUME Sizes PROVE Spec => []NoneSuperseded
  OBVIOUS
<1>1. OrderInv => NoneSuperseded
  BY DEF OrderInv, NoneSuperseded
<1>2. QED  BY <1>1, OrderInvariance, PTL

-----------------------------------------------------------------------------
(***************************************************************************)
(* The texts of documents are the author's and those that were suggested,  *)
(* and until a candidate is rewritten every text that was suggested is in  *)
(* a review; so it is known when it is learned, for any number of reviews. *)
(***************************************************************************)
StepsInv == steps = [k \in Kinds |-> steps[k]] /\ \A k \in Kinds : steps[k] \in Nat

Written(d, texts) == \A s \in Slots : d.hint[s] \in HandTexts \cup texts \cup {None}
ReviewForm(r) ==
  r = [slot |-> r.slot, revision |-> r.revision, text |-> r.text, status |-> r.status, last |-> r.last, approved |-> r.approved]
Reviewed(texts, rv) == \A x \in texts : \E i \in DOMAIN rv : rv[i].text = x

OriginsInv ==
  /\ suggested \subseteq SuggestedTexts
  /\ \E k \in Nat : DOMAIN reviews = 1..k
  /\ \A i \in DOMAIN reviews : ReviewForm(reviews[i])
  /\ steps["rewrites"] = 0 => Reviewed(suggested, reviews)
  /\ Written(course.doc, suggested)
  /\ \A t \in DOMAIN receipts : Written(receipts[t].doc, suggested)
  /\ \A m \in sent : Written(m.doc, suggested)
  /\ \A p \in Proxies : proxies[p].then = "stage" => Written(proxies[p].doc, suggested)

\* Steps are counted, and rewritings never less than before.
LEMMA NextSteps ==
  ASSUME StepsInv, [Next]_vars
  PROVE  StepsInv' /\ (steps'["rewrites"] = 0 => steps["rewrites"] = 0)
<1> DEFINE Counted == StepsInv' /\ (steps'["rewrites"] = 0 => steps["rewrites"] = 0)
<1>1. ASSUME NEW kind \in Kinds, May(kind) PROVE Counted
  <2>1. StepsInv'
    BY <1>1 DEF May, StepsInv
  <2>2. steps'["rewrites"] \in {steps["rewrites"], steps["rewrites"] + 1} /\ steps["rewrites"] \in Nat
    BY <1>1 DEF May, StepsInv, Kinds
  <2>3. QED  BY <2>1, <2>2
<1>2. ASSUME UNCHANGED steps PROVE Counted
  BY <1>2 DEF StepsInv
<1>3. {"verdicts", "rewrites", "broken", "givenUp", "faults"} \subseteq Kinds
  BY DEF Kinds
<1> HIDE DEF Counted
<1>4. ASSUME NEW p \in Proxies, RecoverStep(p) PROVE Counted
  BY <1>1, <1>2, <1>3, <1>4 DEF RecoverStep, RecoverDone, ReceiptFound, ReceiptMissing, LatestRead, ReadFails
<1>5. ASSUME NEW p \in Proxies, SaveStep(p) PROVE Counted
  BY <1>1, <1>2, <1>3, <1>5 DEF SaveStep, BeginSave, StageSave, Answered, GivenUp
<1>6. ASSUME NEW m \in sent, BackendSaves(m) \/ BackendRefuses(m) \/ SaveLost(m) PROVE Counted
  BY <1>2, <1>6 DEF BackendSaves, BackendRefuses, SaveLost
<1>7. ASSUME ReviewStep PROVE Counted
  BY <1>1, <1>2, <1>3, <1>7 DEF ReviewStep, BeginGenerate, Generate, Judge, Rewrite
<1>8. Counted
  BY <1>2, <1>4, <1>5, <1>6, <1>7 DEF Next, BackendStep, vars
<1>9. QED  BY <1>8 DEF Counted

\* A text is learned as the author's own if it was so before, or if it was
\* not suggested and its place has had no suggestion.
LEMMA LearnManual ==
  ASSUME Differ, Reviewed(suggested, reviews), NEW s \in Slots, NEW base, NEW old,
         NEW new, new[s] \in HandTexts \cup suggested \cup {None},
         NEW e, e = Learn(s, base, old, new), e # None, e.kind = "manual"
  PROVE  \/ /\ learned.examples[s] # None /\ learned.examples[s].kind = "manual" /\ learned.examples[s].text = new[s]
         \/ s \notin learned.lineage /\ new[s] \notin SuggestedTexts
<1>1. new[s] # None
  BY DEF Learn
<1>2. CASE old[s] = new[s]
  BY <1>1, <1>2 DEF Learn
<1>3. CASE old[s] # new[s]
  <2>1. ~GeneratedText(s, new[s]) /\ s \notin learned.lineage
    BY <1>1, <1>3 DEF Learn
  <2>2. new[s] \in HandTexts
    BY <1>1, <2>1 DEF Reviewed, GeneratedText
  <2>3. QED  BY <2>1, <2>2 DEF Differ
<1>4. QED  BY <1>2, <1>3

\* A request is set, whose document is of such texts when it is to be saved.
LEMMA OriginsSet ==
  ASSUME JournalInv, OriginsInv, steps'["rewrites"] = 0 => steps["rewrites"] = 0,
         NEW p \in Proxies, NEW q, Set(p, q), UNCHANGED <<course, receipts, sent, suggested, reviews>>,
         q.then = "stage" => Written(q.doc, suggested)
  PROVE  OriginsInv'
<1>1. \A o \in Proxies : proxies'[o] = IF o = p THEN q ELSE proxies[o]
  BY DEF Set, JournalInv
<1>2. QED  BY <1>1 DEF OriginsInv

\* A step of a recovery takes a request on as it is, or ends it.
LEMMA RecoverOrigins ==
  ASSUME JournalInv, OriginsInv, steps'["rewrites"] = 0 => steps["rewrites"] = 0,
         NEW p \in Proxies, RecoverStep(p)
  PROVE  OriginsInv'
<1>1. PICK w : w = proxies[p] /\ ProxyInv(w, sent, journal, course.revision)
  BY DEF JournalInv
<1>2. ASSUME NEW q, Set(p, q), q.then = "free" \/ (q.then = w.then /\ q.doc = w.doc) PROVE OriginsInv'
  <2>1. UNCHANGED <<course, receipts, sent, suggested, reviews>>
    BY DEF RecoverStep, RecoverDone, ReceiptFound, ReceiptMissing, LatestRead, ReadFails, Backend
  <2>2. q.then = "stage" => Written(q.doc, suggested)
    BY <1>1, <1>2 DEF OriginsInv
  <2>3. QED  BY <1>2, <2>1, <2>2, OriginsSet
<1>3. ASSUME NEW q, q \in {Free, Recovered(w)}, Set(p, q) PROVE OriginsInv'
  BY <1>1, <1>2, <1>3 DEF Recovered, Free, ProxyInv
<1>4. CASE RecoverDone(p) \/ ReadFails(p)
  BY <1>1, <1>3, <1>4 DEF RecoverDone, ReadFails
<1>5. ASSUME NEW at, NEW todo, NEW q, q = [w EXCEPT !.at = at, !.todo = todo], Set(p, q) PROVE OriginsInv'
  BY <1>1, <1>2, <1>5 DEF ProxyInv
<1>6. CASE ReceiptFound(p)
  <2>1. PICK at, todo : at = w.at /\ todo = w.todo \ {NextIn(w.todo, w.failed)}
    OBVIOUS
  <2>2. PICK q : q = [w EXCEPT !.todo = @ \ {NextIn(w.todo, w.failed)}]
    OBVIOUS
  <2>3. q = [w EXCEPT !.at = at, !.todo = todo] /\ Set(p, q)
    BY <1>1, <1>6, <2>1, <2>2 DEF ReceiptFound, ProxyInv
  <2>4. QED  BY <1>5, <2>3
<1>7. CASE ReceiptMissing(p)
  <2>1. PICK todo, q : todo = w.todo /\ q = [w EXCEPT !.at = "latest"]
    OBVIOUS
  <2>2. q = [w EXCEPT !.at = "latest", !.todo = todo] /\ Set(p, q)
    BY <1>1, <1>7, <2>1 DEF ReceiptMissing, ProxyInv
  <2>3. QED  BY <1>5, <2>2
<1>8. CASE LatestRead(p)
  BY <1>1, <1>5, <1>8 DEF LatestRead
<1>9. QED  BY <1>4, <1>6, <1>7, <1>8 DEF RecoverStep

\* What a request is that goes on.
LEMMA RecoveringIs ==
  ASSUME JournalInv, NEW p \in Proxies, NEW then, NEW failed, NEW q, q = Recovering(proxies[p], then, failed)
  PROVE  q.then = then
<1>1. ProxyInv(proxies[p], sent, journal, course.revision)
  BY DEF JournalInv
<1>2. QED  BY <1>1 DEF ProxyInv, Recovering

\* A save begins with what is in the course, what the author types and what
\* was suggested; it is journalled and sent as it began.
LEMMA SaveOrigins ==
  ASSUME JournalInv, OriginsInv, steps'["rewrites"] = 0 => steps["rewrites"] = 0,
         NEW p \in Proxies, SaveStep(p)
  PROVE  OriginsInv'
<1>1. PICK w : w = proxies[p] /\ ProxyInv(w, sent, journal, course.revision)
  BY DEF JournalInv
<1>2. ASSUME NEW hint \in [Slots -> Texts \cup {None}], NEW broken \in BOOLEAN, BeginSave(p, hint, broken) PROVE OriginsInv'
  <2>1. PICK d, q : /\ d = [hint |-> hint, broken |-> broken]
                    /\ q = Recovering([Free EXCEPT !.doc = d, !.base = course.revision, !.before = course.doc], "stage", 0)
    OBVIOUS
  <2>2. Set(p, q) /\ UNCHANGED <<course, receipts, sent, suggested, reviews>>
    BY <1>2, <2>1 DEF BeginSave, Backend
  <2>3. q.doc = d
    BY <2>1 DEF Recovering, Free
  <2>4. Written(d, suggested)
    BY <1>2, <2>1 DEF BeginSave, OriginsInv, Written
  <2>5. QED  BY <2>2, <2>3, <2>4, OriginsSet
<1>3. CASE StageSave(p)
  <2>1. PICK m, r : /\ m = [token |-> Cardinality(DOMAIN journal) + 1, base |-> w.base, doc |-> w.doc]
                    /\ r = [w EXCEPT !.at = "sent", !.token = Cardinality(DOMAIN journal) + 1, !.then = "free"]
    OBVIOUS
  <2>2. /\ sent' = sent \cup {m} /\ Set(p, r) /\ w.at = "stage" /\ UNCHANGED <<course, receipts, suggested, reviews>>
    BY <1>1, <1>3, <2>1 DEF StageSave, At
  <2>3. m.doc = w.doc /\ r.then = "free" /\ w.then = "stage"
    BY <1>1, <2>1, <2>2 DEF ProxyInv
  <2>4. \A o \in Proxies : proxies'[o] = IF o = p THEN r ELSE proxies[o]
    BY <2>2 DEF Set, JournalInv
  <2>5. Written(m.doc, suggested)
    BY <1>1, <2>3 DEF OriginsInv
  <2>6. QED  BY <2>2, <2>3, <2>4, <2>5 DEF OriginsInv
<1>4. ASSUME NEW refused \in BOOLEAN, Answered(p, refused) \/ GivenUp(p) PROVE OriginsInv'
  <2>1. PICK failed, q : q \in {Free, Recovering(proxies[p], "free", failed)} /\ Set(p, q)
    BY <1>4 DEF Answered, GivenUp
  <2>2. q.then = "free"
    BY <2>1, RecoveringIs DEF Free
  <2>3. UNCHANGED <<course, receipts, sent, suggested, reviews>>
    BY <1>4 DEF Answered, GivenUp, Backend
  <2>4. QED  BY <2>1, <2>2, <2>3, OriginsSet
<1>5. QED  BY <1>2, <1>3, <1>4 DEF SaveStep

\* A save that is made is the course, and its receipt.
LEMMA BackendOrigins ==
  ASSUME JournalInv, OriginsInv, steps'["rewrites"] = 0 => steps["rewrites"] = 0,
         NEW m \in sent, BackendSaves(m) \/ BackendRefuses(m) \/ SaveLost(m)
  PROVE  OriginsInv'
<1>1. CASE BackendSaves(m)
  <2>1. PICK c, rs : c = [revision |-> m.base + 1, doc |-> m.doc] /\ rs = With(receipts, m.token, c)
    OBVIOUS
  <2>2. course' = c /\ receipts' = rs /\ sent' = sent \ {m} /\ UNCHANGED <<suggested, reviews, proxies>>
    BY <1>1, <2>1 DEF BackendSaves
  <2>3. \A t \in DOMAIN rs : rs[t] = c \/ (t \in DOMAIN receipts /\ rs[t] = receipts[t])
    BY <2>1 DEF With
  <2>4. c.doc = m.doc /\ Written(m.doc, suggested)
    BY <2>1 DEF OriginsInv
  <2>5. QED  BY <2>2, <2>3, <2>4 DEF OriginsInv
<1>2. CASE BackendRefuses(m) \/ SaveLost(m)
  BY <1>2 DEF BackendRefuses, SaveLost, OriginsInv
<1>3. QED  BY <1>1, <1>2

\* What is suggested is in a review, and stays there until it is rewritten.
LEMMA ReviewOrigins ==
  ASSUME JournalInv, StepsInv, OriginsInv, steps'["rewrites"] = 0 => steps["rewrites"] = 0, ReviewStep
  PROVE  OriginsInv'
<1>1. ASSUME NEW p \in Proxies, NEW s \in Slots, BeginGenerate(p, s) PROVE OriginsInv'
  <2>1. PICK q : q = Recovering([Free EXCEPT !.slot = s, !.base = course.revision], "generate", 0)
    OBVIOUS
  <2>2. q.then = "generate"
    BY <2>1 DEF Recovering, Free
  <2>3. Set(p, q) /\ UNCHANGED <<course, receipts, sent, suggested, reviews>>
    BY <1>1, <2>1 DEF BeginGenerate, Backend
  <2>4. QED  BY <2>2, <2>3, OriginsSet
<1>2. ASSUME NEW p \in Proxies, NEW text \in SuggestedTexts, Generate(p, text) PROVE OriginsInv'
  <2>1. PICK r : r = [slot |-> proxies[p].slot, revision |-> proxies[p].base, text |-> text, status |-> "draft",
                      last |-> None, approved |-> FALSE]
    OBVIOUS
  <2>2. PICK k \in Nat : DOMAIN reviews = 1..k /\ Cardinality(DOMAIN reviews) = k
    <3>1. PICK k \in Nat : DOMAIN reviews = 1..k
      BY DEF OriginsInv
    <3>2. Cardinality(1..k) = IF 1 > k THEN 0 ELSE k - 1 + 1
      BY FS_Interval
    <3>3. QED  BY <3>1, <3>2
  <2>3. Set(p, Free) /\ UNCHANGED <<course, receipts, sent>>
    BY <1>2 DEF Generate
  <2>4. CASE UNCHANGED <<reviews, suggested>>
    BY <2>3, <2>4, OriginsSet DEF Free
  <2>5. CASE reviews' = With(reviews, k + 1, r) /\ suggested' = suggested \cup {text}
    <3>1. /\ DOMAIN reviews' = 1..(k + 1) /\ reviews'[k + 1] = r
          /\ \A i \in DOMAIN reviews : i \in DOMAIN reviews' /\ reviews'[i] = reviews[i]
      BY <2>2, <2>5 DEF With
    <3>2. \A i \in DOMAIN reviews' : i = k + 1 \/ i \in DOMAIN reviews
      BY <2>2, <3>1
    <3>3. \A i \in DOMAIN reviews' : ReviewForm(reviews'[i])
      BY <2>1, <3>1, <3>2 DEF OriginsInv, ReviewForm
    <3>4. Reviewed(suggested, reviews) => Reviewed(suggested', reviews')
      <4>1. k + 1 \in DOMAIN reviews' /\ reviews'[k + 1].text = text
        BY <2>1, <3>1
      <4>2. QED  BY <2>5, <3>1, <4>1 DEF Reviewed
    <3>5. \A d : Written(d, suggested) => Written(d, suggested')
      BY <2>5 DEF Written
    <3>6. \A o \in Proxies : proxies'[o] = IF o = p THEN Free ELSE proxies[o]
      BY <2>3 DEF Set, JournalInv
    <3>7. \A o \in Proxies : proxies'[o].then = "stage" => Written(proxies'[o].doc, suggested')
      BY <3>5, <3>6 DEF OriginsInv, Free
    <3>8. k + 1 \in Nat /\ suggested' \subseteq SuggestedTexts
      BY <2>5 DEF OriginsInv
    <3>9. QED  BY <2>3, <3>1, <3>3, <3>4, <3>5, <3>7, <3>8 DEF OriginsInv
  <2>6. QED  BY <1>2, <2>1, <2>2, <2>4, <2>5 DEF Generate
<1>3. ASSUME NEW i \in DOMAIN reviews, NEW v, Judge(i, v) PROVE OriginsInv'
  <2>1. PICK more : /\ more.text = reviews[i].text /\ ReviewForm(more) /\ reviews' = [reviews EXCEPT ![i] = more]
    <3>1. PICK r, status : /\ r = reviews[i]
                           /\ status = CASE v = "approve" -> "approved" [] v = "reject" -> "rejected" [] OTHER -> r.status
      OBVIOUS
    <3>2. PICK more : more = [r EXCEPT !.last = v, !.approved = @ \/ v = "approve", !.status = status]
      OBVIOUS
    <3>3. more = [slot |-> r.slot, revision |-> r.revision, text |-> r.text, status |-> status, last |-> v,
                  approved |-> r.approved \/ v = "approve"]
      <4>1. ReviewForm(r)
        BY <3>1 DEF OriginsInv
      <4>2. QED  BY <3>2, <4>1 DEF ReviewForm
    <3>4. reviews' = [reviews EXCEPT ![i] = more]
      BY <1>3, <3>1, <3>2 DEF Judge
    <3>5. more.text = reviews[i].text /\ ReviewForm(more)
      BY <3>1, <3>3 DEF ReviewForm
    <3>6. QED  BY <3>4, <3>5
  <2>2. UNCHANGED <<course, receipts, sent, suggested, proxies>>
    BY <1>3 DEF Judge, Backend
  <2>3. DOMAIN reviews' = DOMAIN reviews /\ \A j \in DOMAIN reviews : reviews'[j] = IF j = i THEN more ELSE reviews[j]
    BY <2>1
  <2>4. Reviewed(suggested, reviews) => Reviewed(suggested, reviews')
    BY <2>1, <2>3 DEF Reviewed
  <2>5. QED  BY <2>1, <2>2, <2>3, <2>4 DEF OriginsInv
<1>4. ASSUME NEW i \in DOMAIN reviews, NEW text, Rewrite(i, text) PROVE OriginsInv'
  <2>1. PICK r, more : r = reviews[i] /\ more = [r EXCEPT !.text = text, !.status = "draft", !.last = "edit"]
    OBVIOUS
  <2>2. reviews' = [reviews EXCEPT ![i] = more] /\ UNCHANGED <<course, receipts, sent, suggested, proxies>>
    BY <1>4, <2>1 DEF Rewrite, Backend
  <2>3. ReviewForm(more)
    BY <2>1 DEF OriginsInv, ReviewForm
  <2>4. steps'["rewrites"] # 0
    BY <1>4 DEF Rewrite, May, StepsInv, Kinds
  <2>5. QED  BY <2>2, <2>3, <2>4 DEF OriginsInv
<1>5. QED  BY <1>1, <1>2, <1>3, <1>4 DEF ReviewStep

\* Every step keeps OriginsInv.
LEMMA NextOrigins == ASSUME JournalInv, StepsInv, OriginsInv, [Next]_vars PROVE OriginsInv'
<1>1. steps'["rewrites"] = 0 => steps["rewrites"] = 0
  BY NextSteps
<1>2. CASE UNCHANGED vars
  BY <1>2 DEF vars, OriginsInv
<1>3. QED  BY <1>1, <1>2, RecoverOrigins, SaveOrigins, BackendOrigins, ReviewOrigins DEF Next, BackendStep

\* What is learned comes from a receipt.
LEMMA NextUnrewritten ==
  ASSUME Differ, JournalInv, StepsInv, OriginsInv, UnrewrittenNotManual, [Next]_vars
  PROVE  UnrewrittenNotManual'
<1> SUFFICES ASSUME steps'["rewrites"] = 0, NEW s \in Slots, learned'.examples[s] # None,
                    learned'.examples[s].kind = "manual"
             PROVE  learned'.examples[s].text \notin SuggestedTexts
  BY DEF UnrewrittenNotManual, SuggestionNotManual
<1>1. steps["rewrites"] = 0 /\ Reviewed(suggested, reviews)
  BY NextSteps DEF OriginsInv
<1>2. CASE UNCHANGED learned
  BY <1>1, <1>2 DEF UnrewrittenNotManual, SuggestionNotManual
<1>3. ASSUME NEW p \in Proxies, ReceiptFound(p), ~UNCHANGED learned
      PROVE  learned'.examples[s].text \notin SuggestedTexts
  <2>1. PICK t : t \in DOMAIN receipts /\ ReconcileStage(t)
    BY <1>3 DEF ReceiptFound
  <2>2. PICK base, old, new, n : base = journal[t].base /\ old = journal[t].before.hint
                                 /\ new = receipts[t].doc.hint /\ n = receipts[t].revision
    OBVIOUS
  <2>3. PICK e : e = Learn(s, base, old, new)
    OBVIOUS
  <2>4. learned'.examples[s] = None \/ learned'.examples[s] = IF e = None THEN None ELSE [kind |-> e.kind, text |-> e.text, revision |-> n]
    <3>1. PICK taught : taught = [o \in Slots |-> LET l == Learn(o, base, old, new)
                                                  IN  IF l = None THEN None ELSE [kind |-> l.kind, text |-> l.text, revision |-> n]]
      OBVIOUS
    <3>2. taught[s] = IF e = None THEN None ELSE [kind |-> e.kind, text |-> e.text, revision |-> n]
      BY <2>3, <3>1
    <3>3. \/ learned' = [learned EXCEPT !.examples = [o \in Slots |-> None]]
          \/ learned'.examples = taught
      BY <1>3, <2>1, <2>2, <3>1 DEF ReconcileStage
    <3>4. learned = [examples |-> learned.examples, lineage |-> learned.lineage, watermark |-> learned.watermark]
      BY DEF JournalInv, LearnedInv
    <3>5. QED  BY <3>2, <3>3, <3>4
  <2>5. e # None /\ e.kind = "manual" /\ learned'.examples[s].text = new[s]
    BY <2>3, <2>4, LearnText
  <2>6. new[s] \in HandTexts \cup suggested \cup {None}
    BY <2>1, <2>2 DEF OriginsInv, Written
  <2>7. CASE learned.examples[s] # None /\ learned.examples[s].kind = "manual" /\ learned.examples[s].text = new[s]
    BY <1>1, <2>5, <2>7 DEF UnrewrittenNotManual, SuggestionNotManual
  <2>8. QED  BY <1>1, <2>3, <2>5, <2>6, <2>7, LearnManual
<1>4. ASSUME NEW p \in Proxies, RecoverStep(p), ~ReceiptFound(p) PROVE UNCHANGED learned
  BY <1>4 DEF RecoverStep, RecoverDone, ReceiptMissing, LatestRead, ReadFails
<1>5. ASSUME NEW p \in Proxies, SaveStep(p) PROVE UNCHANGED learned
  BY <1>5 DEF SaveStep, BeginSave, StageSave, Answered, GivenUp
<1>6. ASSUME NEW m \in sent, BackendSaves(m) \/ BackendRefuses(m) \/ SaveLost(m) PROVE UNCHANGED learned
  BY <1>6 DEF BackendSaves, BackendRefuses, SaveLost
<1>7. ASSUME ReviewStep PROVE UNCHANGED learned
  BY <1>7 DEF ReviewStep, BeginGenerate, Generate, Judge, Rewrite
<1>8. QED  BY <1>2, <1>3, <1>4, <1>5, <1>6, <1>7 DEF Next, BackendStep, vars

\* A text that was suggested is not learned as the author's own until a
\* candidate is rewritten (hint_learning.py:164), for any number of reviews,
\* saves that do not parse and saves that are found late.
THEOREM SuggestedIsNotManual == Sizes /\ Differ => (Spec => []UnrewrittenNotManual)
<1> SUFFICES ASSUME Sizes, Differ PROVE Spec => []UnrewrittenNotManual
  OBVIOUS
<1>1. Init => StepsInv /\ OriginsInv /\ UnrewrittenNotManual
  <2> SUFFICES ASSUME Init PROVE StepsInv /\ OriginsInv /\ UnrewrittenNotManual
    OBVIOUS
  <2>1. PICK hint \in [Slots -> HandTexts \cup {None}] : course = [revision |-> 1, doc |-> [hint |-> hint, broken |-> FALSE]]
    BY DEF Init
  <2>2. /\ DOMAIN receipts = {} /\ sent = {} /\ DOMAIN reviews = 1..0 /\ suggested = {}
        /\ \A p \in Proxies : proxies[p].then = "free"
        /\ learned = [examples |-> [s \in Slots |-> None], lineage |-> {}, watermark |-> 0]
        /\ steps = [k \in Kinds |-> 0]
    BY DEF Init, Free
  <2>3. StepsInv /\ UnrewrittenNotManual
    BY <2>2 DEF StepsInv, UnrewrittenNotManual, SuggestionNotManual
  <2>4. OriginsInv
    BY <2>1, <2>2 DEF OriginsInv, Written, Reviewed
  <2>5. QED  BY <2>3, <2>4
<1>2. JournalInv /\ StepsInv /\ OriginsInv /\ UnrewrittenNotManual /\ [Next]_vars
        => StepsInv' /\ OriginsInv' /\ UnrewrittenNotManual'
  BY NextSteps, NextOrigins, NextUnrewritten
<1>3. QED  BY <1>1, <1>2, JournalInvariance, PTL DEF Spec

-----------------------------------------------------------------------------
(***************************************************************************)
(* When no save is made between the two reads of a recovery, what is given *)
(* up was not made either.  The instances that are checked without such a  *)
(* save rest on it; of the code it is not true (hint_learning.py:214).     *)
(***************************************************************************)
NextOf(todo, failed, js) ==
  IF failed \in todo THEN failed
  ELSE OneOf({t \in todo : \A o \in todo : js[t].base < js[o].base \/ (js[t].base = js[o].base /\ t <= o)})

LatestInv(q, js, rs) == q.at = "latest" => NextOf(q.todo, q.failed, js) \notin DOMAIN rs
UnmadeInv(t, js, rs) == js[t].state = "aborted" => t \notin DOMAIN rs

MissingInv ==
  /\ \A t \in DOMAIN journal : UnmadeInv(t, journal, receipts)
  /\ \A p \in Proxies : LatestInv(proxies[p], journal, receipts)

\* The save that is looked at.
LEMMA NextIs == ASSUME NEW todo, NEW failed PROVE NextIn(todo, failed) = NextOf(todo, failed, journal)
BY DEF NextIn, FirstOf, NextOf

\* It is the same as long as the entries of those to be looked at have their
\* revisions.
LEMMA NextKept ==
  ASSUME NEW todo, NEW failed, NEW js, NEW ks, \A t \in todo : ks[t].base = js[t].base
  PROVE  NextOf(todo, failed, ks) = NextOf(todo, failed, js)
<1>1. {t \in todo : \A o \in todo : ks[t].base < ks[o].base \/ (ks[t].base = ks[o].base /\ t <= o)}
      = {t \in todo : \A o \in todo : js[t].base < js[o].base \/ (js[t].base = js[o].base /\ t <= o)}
  OBVIOUS
<1>2. QED  BY <1>1 DEF NextOf

\* The requests that await the course, when one is set and the saves that are
\* looked at keep their revisions.
LEMMA LatestKept ==
  ASSUME JournalInv, MissingInv, NEW p \in Proxies, NEW q, Set(p, q), LatestInv(q, journal', receipts),
         \A t \in DOMAIN journal : journal'[t].base = journal[t].base
  PROVE  \A o \in Proxies : LatestInv(proxies'[o], journal', receipts)
<1>1. ASSUME NEW o \in Proxies PROVE LatestInv(proxies[o], journal', receipts)
  <2>1. LatestInv(proxies[o], journal, receipts) /\ proxies[o].todo \subseteq DOMAIN journal
    BY DEF MissingInv, JournalInv, ProxyInv
  <2>2. QED  BY <2>1, NextKept DEF LatestInv
<1>2. QED  BY <1>1 DEF Set, JournalInv

\* A request awaits the course for a save without a receipt.
LEMMA ReceiptMissingMissing ==
  ASSUME JournalInv, MissingInv, NEW p \in Proxies, ReceiptMissing(p)
  PROVE  MissingInv'
<1>1. PICK q : q = [proxies[p] EXCEPT !.at = "latest"]
  OBVIOUS
<1>2. /\ Set(p, q) /\ UNCHANGED <<receipts, journal>>
      /\ NextIn(proxies[p].todo, proxies[p].failed) \notin DOMAIN receipts
  BY <1>1 DEF ReceiptMissing, Backend
<1>3. q.todo = proxies[p].todo /\ q.failed = proxies[p].failed
  BY <1>1 DEF JournalInv, ProxyInv
<1>4. LatestInv(q, journal, receipts)
  BY <1>2, <1>3, NextIs DEF LatestInv
<1>5. QED  BY <1>2, <1>4, LatestKept DEF MissingInv

\* A save that has a receipt is not given up.
LEMMA ReceiptFoundMissing ==
  ASSUME JournalInv, OrderInv, MissingInv, NEW p \in Proxies, ReceiptFound(p)
  PROVE  MissingInv'
<1>1. PICK t : t = NextIn(proxies[p].todo, proxies[p].failed)
  OBVIOUS
<1>2. PICK q : q = [proxies[p] EXCEPT !.todo = @ \ {t}]
  OBVIOUS
<1>3. Set(p, q) /\ UNCHANGED receipts /\ At(p, "receipt") /\ t \in DOMAIN receipts /\ ReconcileStage(t)
  BY <1>1, <1>2 DEF ReceiptFound, Backend
<1>4. q.at # "latest"
  BY <1>2, <1>3 DEF At, JournalInv, ProxyInv
<1>5. Restated(journal, journal')
  BY <1>3, Reconciling
<1>6. \A o \in Proxies : LatestInv(proxies'[o], journal', receipts)
  BY <1>3, <1>4, <1>5, LatestKept DEF LatestInv, Restated
<1>7. /\ DOMAIN journal' = DOMAIN journal
      /\ \A u \in DOMAIN journal : journal'[u].state = "aborted" => journal[u].state = "aborted"
  BY ReceiptFoundOrder
<1>8. QED  BY <1>3, <1>6, <1>7 DEF MissingInv, UnmadeInv

\* A save is given up that has no receipt.
LEMMA LatestReadMissing == ASSUME JournalInv, MissingInv, NEW p \in Proxies, LatestRead(p) PROVE MissingInv'
<1>1. PICK t, gone : t = NextIn(proxies[p].todo, proxies[p].failed) /\ gone = Gone(t, proxies[p].failed)
  OBVIOUS
<1>2. PICK q : q = [proxies[p] EXCEPT !.at = "receipt", !.todo = IF gone THEN @ \ {t} ELSE {}]
  OBVIOUS
<1>3. /\ Set(p, q) /\ UNCHANGED receipts /\ At(p, "latest")
      /\ IF gone THEN DiscardStage(t) ELSE UNCHANGED journal
  BY <1>1, <1>2 DEF LatestRead, Backend
<1>4. q.at # "latest"
  BY <1>2 DEF JournalInv, ProxyInv
<1>5. LatestInv(q, journal', receipts)
  BY <1>4 DEF LatestInv
<1>6. CASE UNCHANGED journal
  BY <1>3, <1>5, <1>6, LatestKept DEF MissingInv
<1>7. CASE t \in Pending /\ journal' = [journal EXCEPT ![t].state = "aborted"]
  <2>1. t \notin DOMAIN receipts
    BY <1>1, <1>3, NextIs DEF MissingInv, LatestInv, At
  <2>2. /\ DOMAIN journal' = DOMAIN journal
        /\ \A u \in DOMAIN journal : /\ journal'[u].base = journal[u].base
                                     /\ u # t => journal'[u].state = journal[u].state
    BY <1>7 DEF JournalInv, EntryInv
  <2>3. \A o \in Proxies : LatestInv(proxies'[o], journal', receipts)
    BY <1>3, <1>5, <2>2, LatestKept
  <2>4. QED  BY <1>3, <2>1, <2>2, <2>3 DEF MissingInv, UnmadeInv
<1>8. QED  BY <1>3, <1>6, <1>7 DEF DiscardStage

\* A save that is journalled is looked at by no request yet.
LEMMA StageSaveMissing == ASSUME JournalInv, MissingInv, NEW p \in Proxies, StageSave(p) PROVE MissingInv'
<1>1. PICK q : q = proxies[p]
  OBVIOUS
<1>2. PICK t, e, js :
        /\ t = Cardinality(DOMAIN journal) + 1
        /\ e = [state |-> "pending", base |-> q.base, before |-> q.before]
        /\ js = With(journal, t, e)
  OBVIOUS
<1>3. PICK r : r = [q EXCEPT !.at = "sent", !.token = t, !.then = "free"]
  OBVIOUS
<1>4. journal' = js /\ Set(p, r) /\ UNCHANGED receipts
  BY <1>1, <1>2, <1>3 DEF StageSave
<1>5. PICK k \in Nat : /\ DOMAIN journal = 1..k /\ DOMAIN js = 1..(k + 1) /\ t = k + 1 /\ js[t] = e
                       /\ t \notin DOMAIN journal
                       /\ k + Cardinality(StagingOf(proxies)) <= MaxSaves
                       /\ \A u \in DOMAIN journal : js[u] = journal[u]
  BY <1>2, JournalGrown
<1>6. r.at # "latest"
  BY <1>1, <1>3 DEF JournalInv, ProxyInv
<1>7. \A o \in Proxies : LatestInv(proxies'[o], js, receipts)
  BY <1>4, <1>5, <1>6, LatestKept DEF LatestInv
<1>8. \A u \in DOMAIN js : UnmadeInv(u, js, receipts)
  BY <1>2, <1>5 DEF MissingInv, UnmadeInv
<1>9. QED  BY <1>4, <1>7, <1>8 DEF MissingInv

\* A save that is made was not given up, and no request awaits the course.
LEMMA BackendSavesMissing ==
  ASSUME ~Between, JournalInv, OrderInv, MissingInv, NEW m \in sent, BackendSaves(m)
  PROVE  MissingInv'
<1>1. PICK rs : rs = With(receipts, m.token, [revision |-> m.base + 1, doc |-> m.doc])
  OBVIOUS
<1>2. receipts' = rs /\ UNCHANGED <<journal, proxies>> /\ DOMAIN rs = DOMAIN receipts \cup {m.token}
  BY <1>1, ReceiptAdded
<1>3. \A p \in Proxies : proxies[p].at # "latest"
  BY DEF BackendSaves, At
<1>4. journal[m.token].state # "aborted"
  BY BackendSavesOrder
<1>5. QED  BY <1>2, <1>3, <1>4 DEF MissingInv, LatestInv, UnmadeInv

\* Every step keeps MissingInv.
LEMMA NextMissing == ASSUME ~Between, JournalInv, OrderInv, MissingInv, [Next]_vars PROVE MissingInv'
<1>1. ASSUME NEW p \in Proxies, ReceiptFound(p) \/ ReceiptMissing(p) \/ LatestRead(p) \/ StageSave(p) PROVE MissingInv'
  BY <1>1, ReceiptFoundMissing, ReceiptMissingMissing, LatestReadMissing, StageSaveMissing
<1>2. ASSUME NEW m \in sent, BackendSaves(m) PROVE MissingInv'
  BY <1>2, BackendSavesMissing
<1>3. ASSUME NEW p \in Proxies, NEW q, Goes(p, q), Settled PROVE MissingInv'
  <2>1. Set(p, q) /\ LatestInv(q, journal', receipts) /\ UNCHANGED <<journal, receipts>>
    BY <1>3 DEF Goes, LatestInv, Settled
  <2>2. QED  BY <2>1, LatestKept DEF MissingInv
<1>4. ASSUME UNCHANGED <<receipts, journal, proxies>> PROVE MissingInv'
  BY <1>4 DEF MissingInv
<1>5. QED  BY <1>1, <1>2, <1>3, <1>4, OrderSteps DEF Settled

\* MissingInv is inductive on top of the two others, without such a save.
LEMMA MissingInvariance == ~Between /\ Sizes => (Spec => []MissingInv)
<1> SUFFICES ASSUME ~Between, Sizes PROVE Spec => []MissingInv
  OBVIOUS
<1>1. Init => MissingInv
  BY DEF Init, Free, MissingInv, LatestInv
<1>2. JournalInv /\ OrderInv /\ MissingInv /\ [Next]_vars => MissingInv'
  BY NextMissing
<1>3. QED  BY <1>1, <1>2, JournalInvariance, OrderInvariance, PTL DEF Spec

\* Without such a save, one the journal has given up was not made.
LEMMA GivesUpNone == ~Between /\ Sizes => (Spec => []AbortedNotSaved)
<1> SUFFICES ASSUME ~Between, Sizes PROVE Spec => []AbortedNotSaved
  OBVIOUS
<1>1. MissingInv => AbortedNotSaved
  BY DEF MissingInv, UnmadeInv, AbortedNotSaved
<1>2. QED  BY <1>1, MissingInvariance, PTL

-----------------------------------------------------------------------------
(***************************************************************************)
(* Where the texts of a document come from, and that a text is not in the  *)
(* course when it is suggested.                                            *)
(***************************************************************************)
Sourced(d, texts) == d.broken = FALSE /\ \A s \in Slots : d.hint[s] \in HandTexts \cup texts \cup {None}
Bare(d) == \A s \in Slots : d.hint[s] \notin SuggestedTexts

SourcesInv ==
  /\ suggested \subseteq SuggestedTexts
  /\ \A x \in suggested : \E i \in DOMAIN reviews : reviews[i].text = x
  /\ Sourced(course.doc, suggested)
  /\ \A t \in DOMAIN journal : Sourced(journal[t].before, suggested)
  /\ \A t \in DOMAIN receipts : Sourced(receipts[t].doc, suggested)
  /\ \A m \in sent : Sourced(m.doc, suggested)
  /\ \A p \in Proxies : proxies[p].then = "stage" => Sourced(proxies[p].doc, suggested) /\ Sourced(proxies[p].before, suggested)

\* A review is of a revision whose document has no suggestion.
ReviewInv(r, c, js, ps) ==
  /\ r = [slot |-> r.slot, revision |-> r.revision, text |-> r.text, status |-> r.status, last |-> r.last, approved |-> r.approved]
  /\ r.revision \in 1..c.revision /\ r.text \in SuggestedTexts
  /\ r.revision = c.revision => Bare(c.doc)
  /\ \A t \in DOMAIN js : js[t].base = r.revision => Bare(js[t].before)
  /\ \A p \in Proxies : ps[p].then = "stage" /\ ps[p].base = r.revision => Bare(ps[p].before)

\* One request generates, and there is no review before it has.
GeneratingInv(ps, rv, n) ==
  /\ \A p \in Proxies : ps[p].then = "generate" => DOMAIN rv = {} /\ ps[p].base \in 1..n
  /\ \A p \in Proxies, o \in Proxies : ps[p].then = "generate" /\ ps[o].then = "generate" => p = o

ReviewsInv ==
  /\ DOMAIN reviews \in {{}, {1}}
  /\ GeneratingInv(proxies, reviews, course.revision)
  /\ \A i \in DOMAIN reviews : ReviewInv(reviews[i], course, journal, proxies)

(***************************************************************************)
(* Receipts up to the watermark are learned from and those past it wait;   *)
(* so what is learned next is the next revision.  What was applied up to   *)
(* the watermark is in the lineage.                                        *)
(***************************************************************************)
SettledInv ==
  /\ \A t \in DOMAIN journal : journal[t].state = "reconciled" => t \in DOMAIN receipts /\ receipts[t].revision <= learned.watermark
  /\ \A t \in DOMAIN journal : journal[t].state # "unindexable"
  /\ \A r \in 2..course.revision : \E t \in DOMAIN receipts : receipts[t].revision = r

SharedIn(s, base, hint, rv) ==
  \E o \in Slots : hint[o] = hint[s] /\ \E i \in DOMAIN rv :
    /\ rv[i].slot = o /\ rv[i].revision = base /\ rv[i].status = "approved" /\ rv[i].text = hint[o]
    /\ rv[i].last = "apply" /\ rv[i].approved

PassedOf(l) == IF l.watermark = 0 THEN 1 ELSE l.watermark
AddedBy(t, js, rs, rv) == {s \in Slots : rs[t].doc.hint[s] # None /\ SharedIn(s, js[t].base, rs[t].doc.hint, rv)}
LinesInv(l, ap) ==
  /\ ap[PassedOf(l)] \subseteq l.lineage
  /\ \A s \in Slots : l.examples[s] # None =>
       /\ l.examples[s].revision = l.watermark /\ l.watermark # 0
       /\ l.examples[s].kind = "manual" => s \notin ap[l.watermark] /\ l.examples[s].text \notin SuggestedTexts
AppliedInv ==
  /\ applied = [r \in Revisions |-> applied[r]]
  /\ \A t \in DOMAIN receipts : applied[receipts[t].revision] = applied[journal[t].base] \cup AddedBy(t, journal, receipts, reviews)
  /\ LinesInv(learned, applied)

LineageInv == StepsInv /\ SourcesInv /\ ReviewsInv /\ SettledInv /\ AppliedInv

\* What is applied is known by the reviews alone.
LEMMA SharedIs ==
  ASSUME NEW s, NEW base, NEW hint
  PROVE  SharedApplied(s, base, hint) <=> SharedIn(s, base, hint, reviews)
BY DEF SharedApplied, AppliedHere, ReviewsOf, SharedIn

\* Reviews of earlier revisions are final.
LEMMA SharedFrozen ==
  ASSUME NEW rv, NEW more, NEW n \in Nat, NEW base \in Nat, base < n, NEW s,
         NEW hint, DOMAIN rv \subseteq DOMAIN more,
         \A i \in DOMAIN more : (i \in DOMAIN rv /\ more[i] = rv[i]) \/ (more[i].revision = n /\ (i \in DOMAIN rv => rv[i].revision = n))
  PROVE  SharedIn(s, base, hint, more) <=> SharedIn(s, base, hint, rv)
BY DEF SharedIn

\* Before anything is suggested, no document has a suggestion.
LEMMA SourcedBare ==
  ASSUME Apart, NEW d, Sourced(d, {})
  PROVE  Bare(d)
BY DEF Apart, Differ, Sourced, Bare, Texts

\* A document is of the author and of suggestions, also of more of them.
LEMMA SourcedGrown ==
  ASSUME NEW d, NEW texts, NEW more, texts \subseteq more, Sourced(d, texts)
  PROVE  Sourced(d, more)
BY DEF Sourced

\* What was suggested has a review.
LEMMA NothingSuggested ==
  ASSUME SourcesInv, DOMAIN reviews = {}
  PROVE  suggested = {}
BY DEF SourcesInv

\* LineageInv holds when nothing was suggested.
LEMMA InitLineage == ASSUME Apart, Sizes, Init PROVE LineageInv
<1>1. PICK hint \in [Slots -> HandTexts \cup {None}] : course = [revision |-> 1, doc |-> [hint |-> hint, broken |-> FALSE]]
  BY DEF Init
<1>2. /\ DOMAIN receipts = {} /\ DOMAIN journal = {} /\ sent = {} /\ DOMAIN reviews = {} /\ suggested = {}
      /\ \A p \in Proxies : proxies[p] = Free
      /\ learned = [examples |-> [s \in Slots |-> None], lineage |-> {}, watermark |-> 0]
      /\ applied = [r \in Revisions |-> {}] /\ steps = [k \in Kinds |-> 0]
  BY DEF Init
<1>3. StepsInv
  BY <1>2 DEF StepsInv
<1>4. SourcesInv
  BY <1>1, <1>2 DEF SourcesInv, Sourced, Free
<1>5. ReviewsInv
  BY <1>2 DEF ReviewsInv, GeneratingInv, Free
<1>6. SettledInv
  BY <1>1, <1>2 DEF SettledInv
<1>7. AppliedInv
  <2>1. 1 \in Revisions
    BY DEF Revisions, Sizes
  <2>2. QED  BY <1>2, <2>1 DEF AppliedInv, LinesInv, PassedOf
<1>8. QED  BY <1>3, <1>4, <1>5, <1>6, <1>7 DEF LineageInv

-----------------------------------------------------------------------------
(***************************************************************************)
(* A request is set.  One that is saving has what was read of the course,  *)
(* and one that generates is alone and the first.                          *)
(***************************************************************************)
Allowed(p, q) ==
  /\ q.then = "stage" => /\ Sourced(q.doc, suggested) /\ Sourced(q.before, suggested)
                         /\ \A i \in DOMAIN reviews : q.base = reviews[i].revision => Bare(q.before)
  /\ q.then = "generate" => /\ DOMAIN reviews = {} /\ q.base \in 1..course.revision
                            /\ \A o \in Proxies : proxies[o].then = "generate" => o = p

\* A request that goes on is allowed as it was.
LEMMA AllowedStill ==
  ASSUME SourcesInv, ReviewsInv, NEW p \in Proxies, NEW q,
         q.then = "free" \/ (q.then = proxies[p].then /\ q.doc = proxies[p].doc /\ q.base = proxies[p].base
                             /\ q.before = proxies[p].before)
  PROVE  Allowed(p, q)
BY DEF SourcesInv, ReviewsInv, ReviewInv, GeneratingInv, Allowed

\* Documents and reviews are as they were when a request is set and saves are
\* decided.
LEMMA AllowedSet ==
  ASSUME JournalInv, SourcesInv, ReviewsInv, NEW p \in Proxies, NEW q, Set(p, q), Allowed(p, q),
         UNCHANGED <<course, receipts, sent, suggested, reviews>>, Restated(journal, journal')
  PROVE  SourcesInv' /\ ReviewsInv'
<1>1. \A o \in Proxies : proxies'[o] = IF o = p THEN q ELSE proxies[o]
  BY DEF Set, JournalInv
<1>2. /\ DOMAIN journal' = DOMAIN journal
      /\ \A t \in DOMAIN journal : journal'[t].base = journal[t].base /\ journal'[t].before = journal[t].before
  BY DEF Restated
<1>3. SourcesInv'
  BY <1>1, <1>2 DEF SourcesInv, Allowed
<1>4. GeneratingInv(proxies', reviews, course.revision)
  <2>1. GeneratingInv(proxies, reviews, course.revision)
    BY DEF ReviewsInv
  <2>2. QED  BY <1>1, <2>1 DEF GeneratingInv, Allowed
<1>5. ASSUME NEW i \in DOMAIN reviews PROVE ReviewInv(reviews[i], course, journal', proxies')
  <2>1. ReviewInv(reviews[i], course, journal, proxies)
    BY DEF ReviewsInv
  <2>2. \A o \in Proxies : proxies'[o].then = "stage" /\ proxies'[o].base = reviews[i].revision => Bare(proxies'[o].before)
    BY <1>1, <2>1 DEF ReviewInv, Allowed
  <2>3. QED  BY <1>2, <2>1, <2>2 DEF ReviewInv
<1>6. QED  BY <1>3, <1>4, <1>5 DEF ReviewsInv

\* A request is set, and nothing is decided.
LEMMA LineageSet ==
  ASSUME JournalInv, LineageInv, StepsInv', NEW p \in Proxies, NEW q, Set(p, q), Allowed(p, q),
         UNCHANGED <<course, receipts, sent, suggested, applied, reviews, journal, learned>>
  PROVE  LineageInv'
<1>1. Restated(journal, journal')
  BY SameLearned
<1>2. SourcesInv' /\ ReviewsInv'
  BY <1>1, AllowedSet DEF LineageInv
<1>3. SettledInv' /\ AppliedInv'
  BY DEF LineageInv, SettledInv, AppliedInv
<1>4. QED  BY <1>2, <1>3 DEF LineageInv

\* A request that has looked for receipts goes on as it was.
LEMMA RecoveredAllowed ==
  ASSUME JournalInv, SourcesInv, ReviewsInv, NEW p \in Proxies, NEW q, q = Recovered(proxies[p])
  PROVE  Allowed(p, q)
<1>1. ProxyInv(proxies[p], sent, journal, course.revision)
  BY DEF JournalInv
<1>2. CASE proxies[p].then = "free"
  BY <1>2, AllowedStill DEF Recovered, Free
<1>3. CASE proxies[p].then # "free"
  <2>1. q.then = proxies[p].then /\ q.doc = proxies[p].doc /\ q.base = proxies[p].base /\ q.before = proxies[p].before
    BY <1>1, <1>3 DEF ProxyInv, Recovered
  <2>2. QED  BY <2>1, AllowedStill
<1>4. QED  BY <1>2, <1>3

\* A request may always end.
LEMMA FreeAllowed ==
  ASSUME SourcesInv, ReviewsInv, NEW p \in Proxies
  PROVE  Allowed(p, Free)
BY AllowedStill DEF Free

\* The steps of a recovery that decide nothing.
LEMMA RecoverDoneLineage ==
  ASSUME JournalInv, LineageInv, StepsInv', NEW p \in Proxies, RecoverDone(p)
  PROVE  LineageInv'
<1>1. PICK q : q = Recovered(proxies[p])
  OBVIOUS
<1>2. Set(p, q) /\ UNCHANGED <<course, receipts, sent, suggested, applied, reviews, journal, learned>>
  BY <1>1 DEF RecoverDone, Backend
<1>3. QED  BY <1>1, <1>2, RecoveredAllowed, LineageSet DEF LineageInv

\* Nothing is decided when a read fails.
LEMMA ReadFailsLineage ==
  ASSUME JournalInv, LineageInv, StepsInv', NEW p \in Proxies, ReadFails(p)
  PROVE  LineageInv'
<1>1. PICK q : q = IF proxies[p].then = "generate" THEN Free ELSE Recovered(proxies[p])
  OBVIOUS
<1>2. Set(p, q) /\ UNCHANGED <<course, receipts, sent, suggested, applied, reviews, journal, learned>>
  BY <1>1 DEF ReadFails, Backend
<1>3. Allowed(p, q)
  BY <1>1, FreeAllowed, RecoveredAllowed DEF LineageInv
<1>4. QED  BY <1>2, <1>3, LineageSet

\* Nothing is decided when there is no receipt.
LEMMA ReceiptMissingLineage ==
  ASSUME JournalInv, LineageInv, StepsInv', NEW p \in Proxies, ReceiptMissing(p)
  PROVE  LineageInv'
<1>1. PICK q : q = [proxies[p] EXCEPT !.at = "latest"]
  OBVIOUS
<1>2. Set(p, q) /\ UNCHANGED <<course, receipts, sent, suggested, applied, reviews, journal, learned>>
  BY <1>1 DEF ReceiptMissing, Backend
<1>3. q.then = proxies[p].then /\ q.doc = proxies[p].doc /\ q.base = proxies[p].base /\ q.before = proxies[p].before
  BY <1>1 DEF JournalInv, ProxyInv
<1>4. QED  BY <1>2, <1>3, AllowedStill, LineageSet DEF LineageInv

\* A save that is answered or given up looks for receipts or ends.
LEMMA AnsweredLineage ==
  ASSUME JournalInv, LineageInv, StepsInv', NEW p \in Proxies, NEW refused \in BOOLEAN, Answered(p, refused)
  PROVE  LineageInv'
<1>1. PICK q : q = Recovering(proxies[p], "free", IF refused THEN proxies[p].token ELSE 0)
  OBVIOUS
<1>2. Set(p, q) /\ UNCHANGED <<course, receipts, sent, suggested, applied, reviews, journal, learned>>
  BY <1>1 DEF Answered, Backend
<1>3. q.then = "free"
  BY <1>1, RecoveringIs
<1>4. QED  BY <1>2, <1>3, AllowedStill, LineageSet DEF LineageInv

\* Nothing is decided when a request is given up.
LEMMA GivenUpLineage ==
  ASSUME JournalInv, LineageInv, StepsInv', NEW p \in Proxies, GivenUp(p)
  PROVE  LineageInv'
<1>1. PICK q, r : q = Recovering(proxies[p], "free", 0) /\ r = Free
  OBVIOUS
<1>2. /\ Set(p, q) \/ Set(p, r)
      /\ UNCHANGED <<course, receipts, sent, suggested, applied, reviews, journal, learned>>
  BY <1>1 DEF GivenUp, Backend
<1>3. q.then = "free" /\ r.then = "free"
  BY <1>1, RecoveringIs DEF Free
<1>4. QED  BY <1>2, <1>3, AllowedStill, LineageSet DEF LineageInv

\* A save begins with what is in the course, what the author types and what
\* was suggested.
LEMMA BeginSaveLineage ==
  ASSUME OneReview, JournalInv, LineageInv, StepsInv', NEW p \in Proxies,
         NEW hint \in [Slots -> Texts \cup {None}],
         NEW broken \in BOOLEAN, BeginSave(p, hint, broken)
  PROVE  LineageInv'
<1>1. PICK d, q : /\ d = [hint |-> hint, broken |-> broken]
                  /\ q = Recovering([Free EXCEPT !.doc = d, !.base = course.revision, !.before = course.doc], "stage", 0)
  OBVIOUS
<1>2. Set(p, q) /\ UNCHANGED <<course, receipts, sent, suggested, applied, reviews, journal, learned>>
  BY <1>1 DEF BeginSave, Backend
<1>3. q.then = "stage" /\ q.doc = d /\ q.base = course.revision /\ q.before = course.doc
  BY <1>1 DEF Recovering, Free
<1>4. broken = FALSE
  <2>1. ~May("broken")
    <3>1. steps["broken"] \in Nat /\ Most["broken"] = 0
      BY DEF LineageInv, StepsInv, Kinds, Most, OneReview
    <3>2. QED  BY <3>1 DEF May
  <2>2. QED  BY <2>1 DEF BeginSave
<1>5. Sourced(d, suggested)
  BY <1>1, <1>4 DEF BeginSave, LineageInv, SourcesInv, Sourced
<1>6. Allowed(p, q)
  BY <1>3, <1>5 DEF Allowed, LineageInv, SourcesInv, ReviewsInv, ReviewInv
<1>7. QED  BY <1>2, <1>6, LineageSet

\* A request that begins to generate is the first and alone.
LEMMA BeginGenerateLineage ==
  ASSUME OneReview, JournalInv, LineageInv, StepsInv', NEW p \in Proxies, NEW s \in Slots, BeginGenerate(p, s)
  PROVE  LineageInv'
<1>1. PICK q : q = Recovering([Free EXCEPT !.slot = s, !.base = course.revision], "generate", 0)
  OBVIOUS
<1>2. Set(p, q) /\ UNCHANGED <<course, receipts, sent, suggested, applied, reviews, journal, learned>>
  BY <1>1 DEF BeginGenerate, Backend
<1>3. q.then = "generate" /\ q.base = course.revision
  BY <1>1 DEF Recovering, Free
<1>4. DOMAIN reviews = {}
  <2>1. Cardinality({1}) = 1
    BY FS_Singleton
  <2>2. QED  BY <2>1 DEF BeginGenerate, OneReview, LineageInv, ReviewsInv
<1>5. course.revision \in 1..course.revision
  BY DEF JournalInv, CourseInv
<1>6. Allowed(p, q)
  BY <1>3, <1>4, <1>5 DEF Allowed, BeginGenerate
<1>7. QED  BY <1>2, <1>6, LineageSet

-----------------------------------------------------------------------------
(* Saves that are sent and made.                                           *)

\* What a save adds is known by what it is based on and what it saves.
LEMMA AddedKept ==
  ASSUME NEW t, NEW js, NEW rs, NEW ks, NEW ss, NEW rv, ks[t].base = js[t].base, ss[t] = rs[t]
  PROVE  AddedBy(t, ks, ss, rv) = AddedBy(t, js, rs, rv)
BY DEF AddedBy

\* What is journalled and sent is what the request had.
LEMMA StageSaveLineage ==
  ASSUME JournalInv, LineageInv, StepsInv', NEW p \in Proxies, StageSave(p)
  PROVE  LineageInv'
<1>1. PICK q : q = proxies[p]
  OBVIOUS
<1>2. PICK t, e, m, js :
        /\ t = Cardinality(DOMAIN journal) + 1
        /\ e = [state |-> "pending", base |-> q.base, before |-> q.before]
        /\ m = [token |-> t, base |-> q.base, doc |-> q.doc]
        /\ js = With(journal, t, e)
  OBVIOUS
<1>3. PICK r : r = [q EXCEPT !.at = "sent", !.token = t, !.then = "free"]
  OBVIOUS
<1>4. /\ journal' = js /\ sent' = sent \cup {m} /\ Set(p, r) /\ q.at = "stage"
      /\ UNCHANGED <<course, receipts, suggested, applied, reviews, learned>>
  BY <1>1, <1>2, <1>3 DEF StageSave, At
<1>5. PICK k \in Nat : /\ DOMAIN journal = 1..k /\ DOMAIN js = 1..(k + 1) /\ t = k + 1 /\ js[t] = e
                       /\ t \notin DOMAIN journal
                       /\ k + Cardinality(StagingOf(proxies)) <= MaxSaves
                       /\ \A u \in DOMAIN journal : js[u] = journal[u]
  BY <1>2, JournalGrown
<1>6. /\ q.then = "stage" /\ r.then = "free" /\ Sourced(q.doc, suggested) /\ Sourced(q.before, suggested)
      /\ \A i \in DOMAIN reviews : q.base = reviews[i].revision => Bare(q.before)
  BY <1>1, <1>3, <1>4 DEF JournalInv, ProxyInv, LineageInv, SourcesInv, ReviewsInv, ReviewInv
<1>7. \A o \in Proxies : proxies'[o] = IF o = p THEN r ELSE proxies[o]
  BY <1>4 DEF Set, JournalInv
<1>8. DOMAIN js = DOMAIN journal \cup {t} /\ e.before = q.before /\ e.base = q.base /\ m.doc = q.doc
  <2>1. DOMAIN js = DOMAIN journal \cup {t}
    BY <1>5
  <2>2. e.before = q.before /\ e.base = q.base
    BY <1>2
  <2>3. m.doc = q.doc
    BY <1>2
  <2>4. QED  BY <2>1, <2>2, <2>3
<1>9. SourcesInv'
  BY <1>4, <1>5, <1>6, <1>7, <1>8 DEF LineageInv, SourcesInv
<1>10. ReviewsInv'
  <2>1. GeneratingInv(proxies', reviews, course.revision)
    BY <1>6, <1>7 DEF LineageInv, ReviewsInv, GeneratingInv
  <2>2. ASSUME NEW i \in DOMAIN reviews PROVE ReviewInv(reviews[i], course, js, proxies')
    <3>1. ReviewInv(reviews[i], course, journal, proxies)
      BY DEF LineageInv, ReviewsInv
    <3>2. \A u \in DOMAIN js : js[u].base = reviews[i].revision => Bare(js[u].before)
      BY <1>5, <1>6, <1>8, <3>1 DEF ReviewInv
    <3>3. \A o \in Proxies : proxies'[o].then = "stage" /\ proxies'[o].base = reviews[i].revision => Bare(proxies'[o].before)
      BY <1>6, <1>7, <3>1 DEF ReviewInv
    <3>4. QED  BY <3>1, <3>2, <3>3 DEF ReviewInv
  <2>3. QED  BY <1>4, <2>1, <2>2 DEF LineageInv, ReviewsInv
<1>11. SettledInv'
  BY <1>2, <1>4, <1>5, <1>8 DEF LineageInv, SettledInv
<1>12. AppliedInv'
  <2>1. \A u \in DOMAIN receipts : js[u] = journal[u]
    BY <1>5 DEF JournalInv, ReceiptInv
  <2>2. \A u \in DOMAIN receipts : AddedBy(u, js, receipts, reviews) = AddedBy(u, journal, receipts, reviews)
    BY <2>1, AddedKept
  <2>3. QED  BY <1>4, <2>1, <2>2 DEF LineageInv, AppliedInv
<1>13. QED  BY <1>9, <1>10, <1>11, <1>12 DEF LineageInv

\* A save that is made adds to what was applied before it the places whose text
\* was approved and applied in the reviews of the revision it is based on.
LEMMA BackendSavesLineage ==
  ASSUME Sizes, JournalInv, JournalInv', LineageInv, StepsInv', NEW m \in sent, BackendSaves(m)
  PROVE  LineageInv'
<1>1. PICK n, c, rs, hint : /\ n = course.revision /\ c = [revision |-> m.base + 1, doc |-> m.doc]
                            /\ rs = With(receipts, m.token, c) /\ hint = m.doc.hint
  OBVIOUS
<1>2. PICK added : added = {s \in Slots : hint[s] # None /\ SharedIn(s, n, hint, reviews)}
  OBVIOUS
<1>3. /\ m.base = n /\ sent' = sent \ {m} /\ course' = c /\ receipts' = rs
      /\ applied' = [applied EXCEPT ![n + 1] = applied[n] \cup added]
      /\ UNCHANGED <<suggested, reviews, journal, learned, proxies>>
  BY <1>1, <1>2, SharedIs DEF BackendSaves
<1>4. /\ SentInv(m, sent, journal, receipts) /\ n \in Nat \ {0} /\ c.revision = n + 1 /\ c.doc = m.doc
      /\ m.token \in DOMAIN journal /\ journal[m.token].base = n
  BY <1>1, <1>3 DEF JournalInv, CourseInv, SentInv
<1>5. /\ DOMAIN rs = DOMAIN receipts \cup {m.token} /\ rs[m.token] = c /\ m.token \notin DOMAIN receipts
      /\ \A t \in DOMAIN receipts : rs[t] = receipts[t]
  BY <1>1, <1>4 DEF With, SentInv
<1>6. n \in Revisions /\ n + 1 \in Revisions
  <2>1. DOMAIN receipts \subseteq DOMAIN journal /\ DOMAIN rs \subseteq DOMAIN journal
    BY <1>4, <1>5 DEF JournalInv, ReceiptInv
  <2>2. CountInv(journal, receipts, proxies, n)
    BY <1>1 DEF JournalInv
  <2>3. CountInv(journal, rs, proxies, n + 1)
    BY <1>3, <1>4 DEF JournalInv
  <2>4. QED  BY <1>4, <2>1, <2>2, <2>3, RevisionsBounded
<1>7. SourcesInv'
  BY <1>3, <1>4, <1>5 DEF LineageInv, SourcesInv
<1>8. ReviewsInv'
  <2>1. GeneratingInv(proxies, reviews, n + 1)
    BY <1>1, <1>4 DEF LineageInv, ReviewsInv, GeneratingInv
  <2>2. \A i \in DOMAIN reviews : ReviewInv(reviews[i], c, journal, proxies)
    BY <1>1, <1>4 DEF LineageInv, ReviewsInv, ReviewInv
  <2>3. QED  BY <1>3, <1>4, <2>1, <2>2 DEF LineageInv, ReviewsInv
<1>9. SettledInv'
  <2>1. \A r \in 2..(n + 1) : \E t \in DOMAIN rs : rs[t].revision = r
    BY <1>1, <1>4, <1>5 DEF LineageInv, SettledInv
  <2>2. QED  BY <1>3, <1>4, <1>5, <2>1 DEF LineageInv, SettledInv
<1>10. applied'[n + 1] = applied[n] \cup added /\ applied' = [r \in Revisions |-> applied'[r]]
       /\ \A r \in Revisions : r # n + 1 => applied'[r] = applied[r]
  BY <1>3, <1>6 DEF LineageInv, AppliedInv
<1>11. ASSUME NEW t \in DOMAIN rs
       PROVE  applied'[rs[t].revision] = applied'[journal[t].base] \cup AddedBy(t, journal, rs, reviews)
  <2>1. CASE t = m.token
    <3>1. AddedBy(t, journal, rs, reviews) = added
      BY <1>1, <1>2, <1>4, <1>5, <2>1 DEF AddedBy
    <3>2. applied'[n] = applied[n]
      BY <1>4, <1>6, <1>10
    <3>3. QED  BY <1>4, <1>5, <1>10, <2>1, <3>1, <3>2
  <2>2. CASE t \in DOMAIN receipts
    <3>1. /\ receipts[t].revision \in 1..n /\ journal[t].base \in 1..n
      BY <1>1, <1>4, <2>2 DEF JournalInv, ReceiptInv, EntryInv
    <3>2. applied'[receipts[t].revision] = applied[receipts[t].revision] /\ applied'[journal[t].base] = applied[journal[t].base]
      BY <1>4, <1>6, <1>10, <3>1 DEF Revisions, Sizes
    <3>3. AddedBy(t, journal, rs, reviews) = AddedBy(t, journal, receipts, reviews)
      BY <1>5, <2>2, AddedKept
    <3>4. QED  BY <1>5, <2>2, <3>2, <3>3 DEF LineageInv, AppliedInv
  <2>3. QED  BY <1>5, <2>1, <2>2
<1>12. LinesInv(learned, applied')
  <2>1. learned.watermark \in 0..n
    BY <1>1 DEF JournalInv, LearnedInv
  <2>2. PassedOf(learned) \in 1..n /\ (learned.watermark # 0 => learned.watermark \in 1..n)
    BY <1>4, <2>1 DEF PassedOf
  <2>3. applied'[PassedOf(learned)] = applied[PassedOf(learned)]
        /\ (learned.watermark # 0 => applied'[learned.watermark] = applied[learned.watermark])
    BY <1>4, <1>6, <1>10, <2>2 DEF Revisions, Sizes
  <2>4. QED  BY <2>3 DEF LineageInv, AppliedInv, LinesInv
<1>13. AppliedInv'
  BY <1>3, <1>10, <1>11, <1>12 DEF AppliedInv
<1>14. QED  BY <1>7, <1>8, <1>9, <1>13 DEF LineageInv

\* A save that is refused or lost changes nothing.
LEMMA EndedLineage ==
  ASSUME LineageInv, StepsInv', NEW m \in sent, sent' = sent \ {m},
         UNCHANGED <<course, receipts, suggested, applied, reviews, journal, learned, proxies>>
  PROVE  LineageInv'
<1>1. SourcesInv' /\ ReviewsInv'
  BY DEF LineageInv, SourcesInv, ReviewsInv
<1>2. SettledInv' /\ AppliedInv'
  BY DEF LineageInv, SettledInv, AppliedInv
<1>3. QED  BY <1>1, <1>2 DEF LineageInv

-----------------------------------------------------------------------------
(* Reviews.                                                                *)

\* Reviews of the course's revision change what a later save adds, and not
\* what those that were made have added.
LEMMA AppliedKept ==
  ASSUME JournalInv, AppliedInv,
         UNCHANGED <<receipts, applied, journal, learned>>, DOMAIN reviews \subseteq DOMAIN reviews',
         \A i \in DOMAIN reviews' :
           \/ i \in DOMAIN reviews /\ reviews'[i] = reviews[i]
           \/ /\ reviews'[i].revision = course.revision
              /\ i \in DOMAIN reviews => reviews[i].revision = course.revision
  PROVE  AppliedInv'
<1>1. PICK n, rv, more : n = course.revision /\ rv = reviews /\ more = reviews'
  OBVIOUS
<1>2. ASSUME NEW t \in DOMAIN receipts
      PROVE  AddedBy(t, journal, receipts, more) = AddedBy(t, journal, receipts, rv)
  <2>1. n \in Nat /\ journal[t].base \in Nat /\ journal[t].base < n
    BY <1>1, <1>2 DEF JournalInv, CourseInv, ReceiptInv, EntryInv
  <2>2. ASSUME NEW s, NEW hint
        PROVE  SharedIn(s, journal[t].base, hint, more) <=> SharedIn(s, journal[t].base, hint, rv)
    BY <1>1, <2>1, SharedFrozen
  <2>3. QED  BY <2>2 DEF AddedBy
<1>3. QED  BY <1>1, <1>2 DEF AppliedInv

\* The first suggestion is of a revision, and of saves, without one.
LEMMA GenerateLineage ==
  ASSUME Apart, JournalInv, LineageInv, StepsInv', NEW p \in Proxies, NEW text \in SuggestedTexts,
         Generate(p, text)
  PROVE  LineageInv'
<1>1. PICK q, r : /\ q = proxies[p]
                  /\ r = [slot |-> q.slot, revision |-> q.base, text |-> text, status |-> "draft", last |-> None, approved |-> FALSE]
  OBVIOUS
<1>2. /\ q.then = "generate" /\ DOMAIN reviews = {} /\ Set(p, Free)
      /\ UNCHANGED <<course, receipts, sent, applied, journal, learned>>
  BY <1>1 DEF Generate, At, JournalInv, ProxyInv, LineageInv, ReviewsInv, GeneratingInv
<1>3. CASE UNCHANGED <<reviews, suggested>>
  BY <1>2, <1>3, FreeAllowed, LineageSet DEF LineageInv
<1>4. CASE /\ course.revision = q.base /\ suggested' = suggested \cup {text}
           /\ reviews' = With(reviews, Cardinality(DOMAIN reviews) + 1, r)
  <2>1. DOMAIN reviews' = {1} /\ reviews'[1] = r
    <3>1. Cardinality(DOMAIN reviews) = 0
      BY <1>2, FS_EmptySet
    <3>2. QED  BY <1>2, <1>4, <3>1 DEF With
  <2>2. suggested = {} /\ suggested' = {text}
    BY <1>2, <1>4, NothingSuggested DEF LineageInv
  <2>3. \A o \in Proxies : proxies'[o] = IF o = p THEN Free ELSE proxies[o]
    BY <1>2 DEF Set, JournalInv
  <2>4. Free.then = "free" /\ r.text = text /\ r.revision = course.revision
    BY <1>1, <1>4 DEF Free
  <2>5. SourcesInv'
    <3>1. \A d : Sourced(d, suggested) => Sourced(d, suggested')
      BY <2>2, SourcedGrown
    <3>2. suggested' \subseteq SuggestedTexts /\ \A x \in suggested' : reviews'[1].text = x
      BY <2>1, <2>2, <2>4
    <3>3. QED  BY <1>2, <2>1, <2>3, <2>4, <3>1, <3>2 DEF LineageInv, SourcesInv
  <2>6. ReviewsInv'
    <3>1. \A o \in Proxies : proxies'[o].then # "generate"
      BY <1>1, <1>2, <2>3, <2>4 DEF LineageInv, ReviewsInv, GeneratingInv
    <3>2. \A d : Sourced(d, {}) => Bare(d)
      BY SourcedBare
    <3>3. Bare(course.doc) /\ \A t \in DOMAIN journal : Bare(journal[t].before)
      BY <2>2, <3>2 DEF LineageInv, SourcesInv
    <3>4. \A o \in Proxies : proxies'[o].then = "stage" => Bare(proxies'[o].before)
      BY <2>2, <2>3, <2>4, <3>2 DEF LineageInv, SourcesInv
    <3>5. course.revision \in 1..course.revision
      BY DEF JournalInv, CourseInv
    <3>6. ReviewInv(r, course, journal, proxies')
      BY <1>1, <2>4, <3>3, <3>4, <3>5 DEF ReviewInv
    <3>7. QED  BY <1>2, <2>1, <3>1, <3>6 DEF ReviewsInv, GeneratingInv
  <2>7. SettledInv'
    BY <1>2 DEF LineageInv, SettledInv
  <2>8. AppliedInv'
    BY <1>2, <2>1, <2>4, AppliedKept DEF LineageInv
  <2>9. QED  BY <2>5, <2>6, <2>7, <2>8 DEF LineageInv
<1>5. QED  BY <1>1, <1>3, <1>4 DEF Generate

\* Only a review of the revision the course has is judged, and of that no save
\* has been made yet.
LEMMA JudgeLineage ==
  ASSUME JournalInv, LineageInv, StepsInv', NEW i \in DOMAIN reviews, NEW verdict, Judge(i, verdict)
  PROVE  LineageInv'
<1>1. PICK r, status : /\ r = reviews[i]
                       /\ status = CASE verdict = "approve" -> "approved" [] verdict = "reject" -> "rejected" [] OTHER -> r.status
  OBVIOUS
<1>2. PICK more : more = [r EXCEPT !.last = verdict, !.approved = @ \/ verdict = "approve", !.status = status]
  OBVIOUS
<1>3. r.revision = course.revision /\ ReviewInv(r, course, journal, proxies)
  BY <1>1 DEF Judge, LineageInv, ReviewsInv
<1>4. more = [slot |-> r.slot, revision |-> r.revision, text |-> r.text, status |-> status, last |-> verdict,
              approved |-> r.approved \/ verdict = "approve"]
  BY <1>2, <1>3 DEF ReviewInv
<1>5. /\ reviews' = [reviews EXCEPT ![i] = more]
      /\ UNCHANGED <<course, receipts, sent, suggested, applied, journal, learned, proxies>>
  BY <1>1, <1>2 DEF Judge, Backend
<1>6. DOMAIN reviews' = DOMAIN reviews /\ \A j \in DOMAIN reviews : reviews'[j] = IF j = i THEN more ELSE reviews[j]
  BY <1>5
<1>7. more.text = r.text /\ more.revision = r.revision
  BY <1>4
<1>8. SourcesInv'
  BY <1>1, <1>5, <1>6, <1>7 DEF LineageInv, SourcesInv
<1>9. ReviewsInv'
  <2>1. ReviewInv(more, course, journal, proxies)
    BY <1>3, <1>4 DEF ReviewInv
  <2>2. QED  BY <1>5, <1>6, <2>1 DEF LineageInv, ReviewsInv, GeneratingInv
<1>10. SettledInv'
  BY <1>5 DEF LineageInv, SettledInv
<1>11. AppliedInv'
  BY <1>1, <1>3, <1>5, <1>6, <1>7, AppliedKept DEF LineageInv
<1>12. QED  BY <1>8, <1>9, <1>10, <1>11 DEF LineageInv

\* No candidate is rewritten.
LEMMA RewriteLineage ==
  ASSUME OneReview, LineageInv, NEW i \in DOMAIN reviews, NEW text, Rewrite(i, text)
  PROVE  LineageInv'
<1>1. steps["rewrites"] \in Nat /\ Most["rewrites"] = 0
  BY DEF LineageInv, StepsInv, Kinds, Most, OneReview
<1>2. QED  BY <1>1 DEF Rewrite, May

-----------------------------------------------------------------------------
(* Saves that are decided.                                                 *)

\* A request is set, and a save is decided of which nothing is learned.
LEMMA DecidedLineage ==
  ASSUME JournalInv, LineageInv, StepsInv', NEW p \in Proxies, NEW q, Set(p, q), Allowed(p, q),
         UNCHANGED <<course, receipts, sent, suggested, applied, reviews, learned>>,
         Restated(journal, journal'),
         \A t \in DOMAIN journal : \/ journal'[t].state = journal[t].state
                                   \/ journal'[t].state \in {"aborted", "superseded"}
  PROVE  LineageInv'
<1>1. SourcesInv' /\ ReviewsInv'
  BY AllowedSet DEF LineageInv
<1>2. DOMAIN journal' = DOMAIN journal /\ \A t \in DOMAIN journal : journal'[t].base = journal[t].base
  BY DEF Restated
<1>3. SettledInv'
  BY <1>2 DEF LineageInv, SettledInv
<1>4. AppliedInv'
  <2>1. \A t \in DOMAIN receipts : t \in DOMAIN journal
    BY DEF JournalInv, ReceiptInv
  <2>2. \A t \in DOMAIN receipts : AddedBy(t, journal', receipts, reviews) = AddedBy(t, journal, receipts, reviews)
    BY <1>2, <2>1, AddedKept
  <2>3. QED  BY <1>2, <2>1, <2>2 DEF LineageInv, AppliedInv
<1>5. QED  BY <1>1, <1>3, <1>4 DEF LineageInv

\* Nothing is learned of a save that is given up.
LEMMA LatestReadLineage ==
  ASSUME JournalInv, LineageInv, StepsInv', NEW p \in Proxies, LatestRead(p)
  PROVE  LineageInv'
<1>1. PICK t, gone : t = NextIn(proxies[p].todo, proxies[p].failed) /\ gone = Gone(t, proxies[p].failed)
  OBVIOUS
<1>2. PICK q : q = [proxies[p] EXCEPT !.at = "receipt", !.todo = IF gone THEN @ \ {t} ELSE {}]
  OBVIOUS
<1>3. /\ Set(p, q) /\ UNCHANGED <<course, receipts, sent, suggested, applied, reviews, learned>>
      /\ UNCHANGED journal \/ (t \in Pending /\ journal' = [journal EXCEPT ![t].state = "aborted"])
  BY <1>1, <1>2 DEF LatestRead, Backend, DiscardStage
<1>4. q.then = proxies[p].then /\ q.doc = proxies[p].doc /\ q.base = proxies[p].base /\ q.before = proxies[p].before
  BY <1>2 DEF JournalInv, ProxyInv
<1>5. Allowed(p, q)
  BY <1>4, AllowedStill DEF LineageInv
<1>6. CASE UNCHANGED journal
  BY <1>3, <1>5, <1>6, LineageSet
<1>7. CASE t \in Pending /\ journal' = [journal EXCEPT ![t].state = "aborted"]
  <2>1. Restated(journal, journal')
    BY <1>7, DecidedRestated DEF Pending, JournalInv, States
  <2>2. \A u \in DOMAIN journal : journal'[u].state \in {journal[u].state, "aborted"}
    BY <1>7 DEF JournalInv, EntryInv
  <2>3. QED  BY <1>3, <1>5, <2>1, <2>2, DecidedLineage
<1>8. QED  BY <1>3, <1>6, <1>7

\* The next save to learn from is based on the revision that was learned from
\* last: the receipts between are decided, and so learned from.
LEMMA NextRevision ==
  ASSUME JournalInv, OrderInv, MissingInv, SettledInv, NEW t \in DOMAIN receipts, t \in Pending, ~Waits(t)
  PROVE  PassedOf(learned) = journal[t].base
<1>1. PICK b, w, n : b = journal[t].base /\ w = learned.watermark /\ n = course.revision
  OBVIOUS
<1>2. /\ b \in 1..n /\ n \in Nat /\ receipts[t].revision = b + 1 /\ b + 1 <= n /\ w \in 0..n
      /\ receipts[t].revision > w
  BY <1>1 DEF JournalInv, CourseInv, EntryInv, ReceiptInv, LearnedInv, OrderInv, AheadInv, Pending
<1>3. CASE b = 1
  BY <1>1, <1>2, <1>3 DEF PassedOf
<1>4. CASE b # 1
  <2>1. PICK u \in DOMAIN receipts : receipts[u].revision = b
    BY <1>1, <1>2, <1>4 DEF SettledInv
  <2>2. u \in DOMAIN journal /\ journal[u].base \in Nat /\ b = journal[u].base + 1
    BY <1>1, <1>2, <2>1 DEF JournalInv, EntryInv, ReceiptInv
  <2>3. journal[u].state # "pending"
    BY <1>1, <1>2, <2>2 DEF Waits, Pending
  <2>4. journal[u].state = "reconciled"
    BY <2>1, <2>2, <2>3 DEF OrderInv, MissingInv, UnmadeInv, SettledInv, JournalInv, EntryInv, States
  <2>5. b <= w
    BY <1>1, <2>1, <2>2, <2>4 DEF SettledInv
  <2>6. QED  BY <1>1, <1>2, <1>4, <2>5 DEF PassedOf
<1>5. QED  BY <1>3, <1>4

\* What is learned of a text that was applied there in this save.
LEMMA LearnApplied ==
  ASSUME Apart, SourcesInv, ReviewsInv, NEW s \in Slots, NEW base, NEW old, NEW new,
         SharedIn(s, base, new, reviews),
         \A i \in DOMAIN reviews : reviews[i].revision = base => old[s] \notin SuggestedTexts,
         NEW e, e = Learn(s, base, old, new)
  PROVE  e = [kind |-> "ai", text |-> new[s]] /\ e # None /\ new[s] \in SuggestedTexts
<1>1. new[s] \in SuggestedTexts /\ old[s] # new[s]
  BY DEF SharedIn, ReviewsInv, ReviewInv
<1>2. new[s] # None /\ None # [kind |-> "ai", text |-> new[s]]
  BY <1>1 DEF Apart, Texts
<1>3. SharedApplied(s, base, new)
  BY SharedIs
<1>4. QED  BY <1>1, <1>2, <1>3 DEF Learn

\* What a save of revision n teaches, and what is known then.
TaughtBy(base, old, new, n) ==
  [s \in Slots |-> LET e == Learn(s, base, old, new)
                   IN  IF e = None THEN None ELSE [kind |-> e.kind, text |-> e.text, revision |-> n]]
Taught(examples, n) ==
  [examples |-> examples, watermark |-> n,
   lineage |-> learned.lineage \cup {s \in Slots : examples[s] # None /\ examples[s].kind = "ai"}]

\* What is learned of a place, of a text and by a save.
LEMMA TaughtIs ==
  ASSUME NEW base, NEW old, NEW new, NEW n, NEW s \in Slots, NEW e, e = Learn(s, base, old, new)
  PROVE  /\ e = None => TaughtBy(base, old, new, n)[s] = None
         /\ e # None => TaughtBy(base, old, new, n)[s] = [kind |-> e.kind, text |-> new[s], revision |-> n]
BY LearnText DEF TaughtBy

\* A text that is applied in this save is learned as a suggestion; what is
\* learned as the author's own was not applied, in this save or before.
LEMMA PlaceTaught ==
  ASSUME Apart, SourcesInv, ReviewsInv, LinesInv(learned, applied), NEW s \in Slots, NEW base, NEW old,
         NEW new, NEW n \in Revisions,
         new[s] \in HandTexts \cup suggested \cup {None}, PassedOf(learned) = base,
         \A i \in DOMAIN reviews : reviews[i].revision = base => old[s] \notin SuggestedTexts,
         NEW x, x = TaughtBy(base, old, new, n)[s]
  PROVE  /\ SharedIn(s, base, new, reviews) => x # None /\ x.kind = "ai"
         /\ x # None => x.revision = n
         /\ x # None /\ x.kind = "manual" => s \notin applied[base] /\ x.text \notin SuggestedTexts
<1>1. PICK e : e = Learn(s, base, old, new)
  OBVIOUS
<1>2. /\ e = None => x = None
      /\ e # None => x = [kind |-> e.kind, text |-> new[s], revision |-> n]
  BY <1>1, TaughtIs
<1>3. ASSUME SharedIn(s, base, new, reviews) PROVE x # None /\ x.kind = "ai"
  <2>1. e = [kind |-> "ai", text |-> new[s]] /\ e # None /\ new[s] \in SuggestedTexts
    BY <1>1, <1>3, LearnApplied
  <2>2. x = [kind |-> "ai", text |-> new[s], revision |-> n]
    BY <1>2, <2>1
  <2>3. QED  BY <2>1, <2>2 DEF Apart, Texts
<1>4. ASSUME x # None PROVE x.revision = n
  BY <1>2, <1>4
<1>5. ASSUME x # None, x.kind = "manual" PROVE s \notin applied[base] /\ x.text \notin SuggestedTexts
  <2>1. e # None /\ e.kind = "manual" /\ x.text = new[s]
    BY <1>2, <1>5
  <2>2. CASE learned.examples[s] # None /\ learned.examples[s].kind = "manual" /\ learned.examples[s].text = new[s]
    <3>1. s \notin applied[learned.watermark] /\ learned.watermark # 0 /\ new[s] \notin SuggestedTexts
      BY <2>2 DEF LinesInv
    <3>2. base = learned.watermark
      BY <3>1 DEF PassedOf
    <3>3. QED  BY <2>1, <3>1, <3>2
  <2>3. CASE s \notin learned.lineage /\ new[s] \notin SuggestedTexts
    BY <2>1, <2>3 DEF LinesInv
  <2>4. Reviewed(suggested, reviews) /\ Differ
    BY DEF SourcesInv, Reviewed, Apart
  <2>5. QED  BY <1>1, <2>1, <2>2, <2>3, <2>4, LearnManual
<1>6. QED  BY <1>3, <1>4, <1>5

\* What was applied in this save or before is in the lineage, and none of it
\* is learned as the author's own.
LEMMA LinesLearned ==
  ASSUME Sizes, Apart, JournalInv, SourcesInv, ReviewsInv, AppliedInv, NEW t \in DOMAIN receipts,
         PassedOf(learned) = journal[t].base, receipts[t].revision \in Revisions,
         NEW l,
         l = Taught(TaughtBy(journal[t].base, journal[t].before.hint, receipts[t].doc.hint, receipts[t].revision),
                           receipts[t].revision)
  PROVE  LinesInv(l, applied)
<1>1. PICK base, old, new, n : /\ base = journal[t].base /\ old = journal[t].before.hint
                               /\ new = receipts[t].doc.hint /\ n = receipts[t].revision
  OBVIOUS
<1>2. t \in DOMAIN journal /\ n \in Revisions /\ n \in Nat \ {0} /\ n = base + 1 /\ base \in Nat
  BY <1>1 DEF JournalInv, CourseInv, ReceiptInv, EntryInv, Revisions, Sizes
<1>3. /\ applied[n] = applied[base] \cup {s \in Slots : new[s] # None /\ SharedIn(s, base, new, reviews)}
      /\ LinesInv(learned, applied)
  BY <1>1 DEF AppliedInv, AddedBy
<1>4. PICK examples : examples = TaughtBy(base, old, new, n)
  OBVIOUS
<1>5. ASSUME NEW s \in Slots
      PROVE  /\ SharedIn(s, base, new, reviews) => examples[s] # None /\ examples[s].kind = "ai"
             /\ examples[s] # None => examples[s].revision = n
             /\ examples[s] # None /\ examples[s].kind = "manual" => s \notin applied[base] /\ examples[s].text \notin SuggestedTexts
  <2>1. new[s] \in HandTexts \cup suggested \cup {None}
    BY <1>1 DEF SourcesInv, Sourced
  <2>2. \A i \in DOMAIN reviews : reviews[i].revision = base => old[s] \notin SuggestedTexts
    BY <1>1, <1>2 DEF ReviewsInv, ReviewInv, Bare
  <2>3. PassedOf(learned) = base
    BY <1>1
  <2>4. PICK x : x = TaughtBy(base, old, new, n)[s]
    OBVIOUS
  <2>5. /\ SharedIn(s, base, new, reviews) => x # None /\ x.kind = "ai"
        /\ x # None => x.revision = n
        /\ x # None /\ x.kind = "manual" => s \notin applied[base] /\ x.text \notin SuggestedTexts
    BY <1>2, <1>3, <2>1, <2>2, <2>3, <2>4, PlaceTaught
  <2>6. QED  BY <1>4, <2>4, <2>5
<1>6. l = Taught(examples, n)
  BY <1>1, <1>4
<1>7. /\ l.examples = examples /\ l.watermark = n
      /\ l.lineage = learned.lineage \cup {s \in Slots : examples[s] # None /\ examples[s].kind = "ai"}
  BY <1>6 DEF Taught
<1>8. PassedOf(l) = n
  BY <1>2, <1>7 DEF PassedOf
<1>9. applied[n] \subseteq l.lineage
  BY <1>1, <1>3, <1>5, <1>7 DEF LinesInv
<1>10. ASSUME NEW s \in Slots, examples[s] # None, examples[s].kind = "manual" PROVE s \notin applied[n]
  BY <1>3, <1>5, <1>10
<1>11. QED  BY <1>2, <1>5, <1>7, <1>8, <1>9, <1>10 DEF LinesInv

\* A save that has a receipt is learned from in its turn, or not yet.
LEMMA ReceiptFoundLineage ==
  ASSUME Sizes, Apart, JournalInv, OrderInv, MissingInv, LineageInv, StepsInv', NEW p \in Proxies, ReceiptFound(p)
  PROVE  LineageInv'
<1>1. PICK t : t = NextIn(proxies[p].todo, proxies[p].failed)
  OBVIOUS
<1>2. PICK q : q = [proxies[p] EXCEPT !.todo = @ \ {t}]
  OBVIOUS
<1>3. /\ Set(p, q) /\ UNCHANGED <<course, receipts, sent, suggested, applied, reviews>>
      /\ t \in DOMAIN receipts /\ ReconcileStage(t)
  BY <1>1, <1>2 DEF ReceiptFound, Backend
<1>4. q.then = proxies[p].then /\ q.doc = proxies[p].doc /\ q.base = proxies[p].base /\ q.before = proxies[p].before
  BY <1>2 DEF JournalInv, ProxyInv
<1>5. Allowed(p, q)
  BY <1>4, AllowedStill DEF LineageInv
<1>6. Restated(journal, journal')
  BY <1>3, Reconciling
<1>7. CASE UNCHANGED <<journal, learned>>
  BY <1>3, <1>5, <1>7, LineageSet
<1>8. CASE t \in Pending /\ ~Waits(t) /\ ~UNCHANGED <<journal, learned>>
  <2>1. PICK l : l = Taught(TaughtBy(journal[t].base, journal[t].before.hint, receipts[t].doc.hint, receipts[t].revision),
                            receipts[t].revision)
    OBVIOUS
  <2>2. receipts[t].revision > learned.watermark
    BY <1>3, <1>8 DEF OrderInv, AheadInv, Pending
  <2>3. ~(learned.watermark >= receipts[t].revision)
    BY <1>3, <2>2 DEF JournalInv, LearnedInv, ReceiptInv, EntryInv, CourseInv
  <2>4. journal[t].before.broken = FALSE /\ receipts[t].doc.broken = FALSE
    BY <1>3, <1>8 DEF LineageInv, SourcesInv, Sourced, Pending
  <2>5. journal' = [journal EXCEPT ![t].state = "reconciled"] /\ learned' = l
    BY <1>3, <1>8, <2>1, <2>3, <2>4 DEF ReconcileStage, Taught, TaughtBy
  <2>6. PassedOf(learned) = journal[t].base
    BY <1>3, <1>8, NextRevision DEF LineageInv
  <2>7. receipts[t].revision \in Revisions
    <3>1. course.revision \in Revisions /\ course.revision \in Nat
      <4>1. DOMAIN receipts \subseteq DOMAIN journal
        BY DEF JournalInv, ReceiptInv
      <4>2. QED  BY <4>1, RevisionsBounded DEF JournalInv, CourseInv
    <3>2. receipts[t].revision \in 1..course.revision
      BY <1>3, <3>1 DEF JournalInv, ReceiptInv, EntryInv
    <3>3. QED  BY <3>1, <3>2 DEF Revisions, Sizes
  <2>8. LinesInv(l, applied)
    BY <1>3, <2>1, <2>6, <2>7, LinesLearned DEF LineageInv
  <2>9. SourcesInv' /\ ReviewsInv'
    BY <1>3, <1>5, <1>6, AllowedSet DEF LineageInv
  <2>10. /\ DOMAIN journal' = DOMAIN journal
         /\ \A u \in DOMAIN journal : /\ journal'[u].base = journal[u].base
                                      /\ u # t => journal'[u].state = journal[u].state
                                      /\ u = t => journal'[u].state = "reconciled"
    BY <2>5 DEF JournalInv, EntryInv
  <2>11. l.watermark = receipts[t].revision /\ l.watermark > learned.watermark
    BY <2>1, <2>2 DEF Taught
  <2>12. SettledInv'
    <3>1. ASSUME NEW u \in DOMAIN journal, journal'[u].state = "reconciled"
          PROVE  u \in DOMAIN receipts /\ receipts[u].revision <= l.watermark
      <4>1. receipts[t].revision \in Nat /\ learned.watermark \in Nat /\ l.watermark \in Nat
        BY <2>7, <2>11 DEF Revisions, JournalInv, LearnedInv, CourseInv
      <4>2. CASE u = t
        BY <1>3, <2>11, <4>1, <4>2
      <4>3. CASE u # t
        <5>1. u \in DOMAIN receipts /\ receipts[u].revision <= learned.watermark
          BY <2>10, <3>1, <4>3 DEF LineageInv, SettledInv
        <5>2. receipts[u].revision \in Nat
          BY <5>1 DEF JournalInv, ReceiptInv, EntryInv, CourseInv
        <5>3. QED  BY <2>11, <4>1, <5>1, <5>2
      <4>4. QED  BY <4>2, <4>3
    <3>2. QED  BY <1>3, <2>5, <2>10, <3>1 DEF LineageInv, SettledInv
  <2>13. AppliedInv'
    <3>1. \A u \in DOMAIN receipts : u \in DOMAIN journal
      BY DEF JournalInv, ReceiptInv
    <3>2. \A u \in DOMAIN receipts : AddedBy(u, journal', receipts, reviews) = AddedBy(u, journal, receipts, reviews)
      BY <2>10, <3>1, AddedKept
    <3>3. QED  BY <1>3, <2>5, <2>8, <2>10, <3>1, <3>2 DEF LineageInv, AppliedInv
  <2>14. QED  BY <2>9, <2>12, <2>13 DEF LineageInv
<1>9. QED  BY <1>3, <1>7, <1>8 DEF ReconcileStage

\* Every step keeps LineageInv.
LEMMA NextLineage ==
  ASSUME ~Between, Sizes, OneReview, Apart, JournalInv, JournalInv', OrderInv, MissingInv, LineageInv, [Next]_vars
  PROVE  LineageInv'
<1>1. StepsInv'
  BY NextSteps DEF LineageInv
<1>2. ASSUME NEW p \in Proxies, RecoverStep(p) PROVE LineageInv'
  BY <1>1, <1>2, RecoverDoneLineage, ReceiptFoundLineage, ReceiptMissingLineage, LatestReadLineage,
     ReadFailsLineage
     DEF RecoverStep
<1>3. ASSUME NEW p \in Proxies, SaveStep(p) PROVE LineageInv'
  BY <1>1, <1>3, BeginSaveLineage, StageSaveLineage, AnsweredLineage, GivenUpLineage DEF SaveStep
<1>4. ASSUME NEW m \in sent, BackendSaves(m) \/ BackendRefuses(m) \/ SaveLost(m) PROVE LineageInv'
  BY <1>1, <1>4, BackendSavesLineage, EndedLineage DEF BackendRefuses, SaveLost
<1>5. ASSUME ReviewStep PROVE LineageInv'
  BY <1>1, <1>5, BeginGenerateLineage, GenerateLineage, JudgeLineage, RewriteLineage DEF ReviewStep
<1>6. CASE UNCHANGED vars
  <2>1. SourcesInv' /\ ReviewsInv'
    BY <1>6 DEF vars, LineageInv, SourcesInv, ReviewsInv
  <2>2. SettledInv' /\ AppliedInv'
    BY <1>6 DEF vars, LineageInv, SettledInv, AppliedInv
  <2>3. QED  BY <1>1, <2>1, <2>2 DEF LineageInv
<1>7. QED  BY <1>2, <1>3, <1>4, <1>5, <1>6 DEF Next, BackendStep

\* LineageInv is inductive on top of the others.
LEMMA LineageInvariance == ~Between /\ Sizes /\ OneReview /\ Apart => (Spec => []LineageInv)
<1> SUFFICES ASSUME ~Between, Sizes, OneReview, Apart PROVE Spec => []LineageInv
  OBVIOUS
<1>1. Init => LineageInv
  BY InitLineage
<1>2. JournalInv /\ JournalInv' /\ OrderInv /\ MissingInv /\ LineageInv /\ [Next]_vars => LineageInv'
  BY NextLineage
<1>3. QED  BY <1>1, <1>2, JournalInvariance, OrderInvariance, MissingInvariance, PTL DEF Spec

\* A hint that was suggested, approved and applied is not learned as the
\* author's own, nor is a later correction of it, in whatever order the
\* receipts of the saves are found (the lineage of hint_learning.py).
LEMMA AppliedIsNotManual == ~Between /\ Sizes /\ OneReview /\ Apart => (Spec => []AppliedStaysAI)
<1> SUFFICES ASSUME ~Between, Sizes, OneReview, Apart PROVE Spec => []AppliedStaysAI
  OBVIOUS
<1>1. LineageInv => AppliedStaysAI
  BY DEF LineageInv, AppliedInv, LinesInv, AppliedStaysAI
<1>2. QED  BY <1>1, LineageInvariance, PTL

=============================================================================
