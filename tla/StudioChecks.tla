---------------------------- MODULE StudioChecks ----------------------------
(***************************************************************************)
(* The checks of the Studio: spelling of the author's texts against a      *)
(* dictionary all courses share, and replies the repertoire does not       *)
(* answer.  A result is a capability for the exact source it was found in, *)
(* and fixes, omissions and dictionary words start from one.  The          *)
(* diagnostics of studio.js.                                               *)
(*                                                                         *)
(* A text has one misspelled word or None.  "title" belongs to every       *)
(* chapter.  Saving is one step here, when it is answered: its own steps   *)
(* are in StudioSave.  Opening another course ends a check like an edit.   *)
(* The author makes at most MaxRuns checks by button, MaxEdits edits,      *)
(* MaxAdds words and MaxSaves saves; MaxFaults requests fail.              *)
(***************************************************************************)
EXTENDS Integers, Sequences, FiniteSets, TLC

CONSTANTS Chapters, Words, Replies, None, MaxRuns, MaxEdits, MaxAdds, MaxSaves, MaxFaults

\* There is a chapter, and none is called "title".

VARIABLES tab,         \* the page
          asks,        \* requests to the dictionary: what was read there
          dictionary,  \* the words the server has
          confirmed,   \* the words the page said were added
          steps
vars == <<tab, asks, dictionary, confirmed, steps>>

Kinds == {"runs", "edits", "adds", "saves", "faults"}
Most == [runs |-> MaxRuns, edits |-> MaxEdits, adds |-> MaxAdds, saves |-> MaxSaves, faults |-> MaxFaults]
May(kind) == steps[kind] < Most[kind] /\ steps' = [steps EXCEPT ![kind] = @ + 1]

Places == Chapters \cup {"title"}
Documents == [active : Chapters, text : [Places -> Words \cup {None}],
              missing : [Chapters -> SUBSET Replies], omitted : SUBSET Replies]

Idle == [job |-> None, busy |-> FALSE, results |-> None]
Init ==
  /\ \E text \in [Places -> Words \cup {None}], missing \in [Chapters -> SUBSET Replies], c \in Chapters :
       tab = [doc |-> [active |-> c, text |-> text, missing |-> missing, omitted |-> {}],
              saved |-> TRUE, revision |-> 0, generation |-> 0, undo |-> None,
              words |-> {}, adding |-> {}, writing |-> Idle, coverage |-> Idle]
  /\ asks = {} /\ dictionary = {} /\ confirmed = {}
  /\ steps = [k \in Kinds |-> 0]

-----------------------------------------------------------------------------
(* Contexts.                                                               *)

\* diagnosticContext and diagnosticIsCurrent.
Context(t) == [revision |-> t.revision, generation |-> t.generation, doc |-> t.doc]
Current(t, context) == context = Context(t)

\* Bugs of InvalidateDiagnostics: the results stay; a check that is under way
\* leaves its button busy.
InvalidateJobs(t) == [t EXCEPT !.generation = @ + 1, !.adding = {},
  !.writing.job = None, !.writing.busy = FALSE, !.coverage.job = None, !.coverage.busy = FALSE]
InvalidateQuietly(t) == [t EXCEPT !.generation = @ + 1, !.adding = {},
  !.writing.job = None, !.writing.results = None, !.coverage.job = None, !.coverage.results = None]

\* invalidateDiagnostics: checks under way are not used, results are cleared.
InvalidateDiagnostics(t) == [t EXCEPT !.generation = @ + 1, !.adding = {}, !.writing = Idle, !.coverage = Idle]

\* commit.
Commit(t, d) ==
  IF d = t.doc THEN t
  ELSE [InvalidateDiagnostics(t) EXCEPT !.doc = d, !.undo = <<t.doc>>, !.saved = FALSE]

-----------------------------------------------------------------------------
(* The writing check.                                                      *)

\* writingSources: the title and the open chapter.
Sources(d) == {"title", d.active}
Misspelled(d, words) == {p \in Sources(d) : d.text[p] \notin words \cup {None}}

\* runSpellcheck up to its first request.  The page remembers the request by
\* what was confirmed then.
RunSpellcheck(t) ==
  [t EXCEPT !.writing.job = [context |-> Context(t), stage |-> "dictionary", words |-> {}],
            !.writing.busy = TRUE]

\* A bug of Lint: the words are those of the last check.
LintOld(t) == [t EXCEPT !.writing.job = [context |-> Context(t), stage |-> "lint", words |-> {}], !.writing.busy = TRUE]
Lint(t) == [t EXCEPT !.writing.job = [context |-> Context(t), stage |-> "lint", words |-> t.words], !.writing.busy = TRUE]

EndWriting(t) == [t EXCEPT !.writing.job = None, !.writing.busy = FALSE]

Refresh == [kind |-> "refresh", word |-> None, context |-> None, said |-> None, since |-> confirmed]
\* Only the request the check waits for goes on being its own.
Disowned == {[a EXCEPT !.context = IF a.kind = "refresh" THEN None ELSE @] : a \in asks}
AskAnew(t) == asks' = Disowned \cup {[Refresh EXCEPT !.context = Context(t)]}

CheckWriting ==
  /\ ~tab.writing.busy
  /\ May("runs")
  /\ tab' = RunSpellcheck(tab) /\ AskAnew(tab)
  /\ UNCHANGED <<dictionary, confirmed>>

\* The server reads the dictionary, or adds a word to it.
DictionaryServes(a) ==
  /\ a \in asks /\ a.said = None
  /\ dictionary' = IF a.kind = "add" THEN dictionary \cup {a.word} ELSE dictionary
  /\ asks' = (asks \ {a}) \cup {[a EXCEPT !.said = dictionary']}
  /\ UNCHANGED <<tab, confirmed, steps>>

Waiting(a) == tab.writing.job # None /\ tab.writing.job.stage = "dictionary" /\ a.context # None

DictionaryRead(a) ==
  /\ a \in asks /\ a.kind = "refresh" /\ a.said # None
  /\ asks' = asks \ {a}
  /\ LET read == [tab EXCEPT !.words = a.said]
     IN  tab' = IF ~Waiting(a) THEN read
                ELSE IF Current(tab, tab.writing.job.context) THEN Lint(read) ELSE EndWriting(read)
  /\ UNCHANGED <<dictionary, confirmed, steps>>
DictionaryFails(a) ==
  /\ a \in asks /\ a.kind = "refresh"
  /\ May("faults")
  /\ asks' = asks \ {a}
  /\ tab' = IF Waiting(a) THEN EndWriting(tab) ELSE tab
  /\ UNCHANGED <<dictionary, confirmed>>

\* checkWriting has looked at the sources; renderWriting.
WritingChecked ==
  LET job == tab.writing.job
      places == Misspelled(job.context.doc, job.words)
      rendered == [EndWriting(tab) EXCEPT !.adding = {}, !.writing.results = [context |-> job.context, places |-> places]]
  IN  /\ job # None /\ job.stage = "lint"
      /\ tab' = IF Current(tab, job.context) THEN rendered ELSE EndWriting(tab)
      /\ UNCHANGED <<asks, dictionary, confirmed, steps>>
WritingFails ==
  /\ tab.writing.job # None /\ tab.writing.job.stage = "lint"
  /\ May("faults")
  /\ tab' = EndWriting(tab)
  /\ UNCHANGED <<asks, dictionary, confirmed>>

\* requireCurrentDiagnostic: what is offered is of the document as it is.
Offered(results) == results # None /\ Current(tab, results.context)
WordAt(p) == tab.writing.results.context.doc.text[p]

\* applyWritingFixAll with the places of one word, applyWritingFix with one.
Fix(places) ==
  /\ Offered(tab.writing.results)
  /\ places # {}
  /\ May("edits")
  /\ LET fixed == Commit(tab, [tab.doc EXCEPT !.text = [p \in Places |-> IF p \in places THEN None ELSE @[p]]])
     IN  tab' = RunSpellcheck(fixed) /\ AskAnew(fixed)
  /\ UNCHANGED <<dictionary, confirmed>>
FixOne(p) == Offered(tab.writing.results) /\ p \in tab.writing.results.places /\ Fix({p})
FixAll(w) == Offered(tab.writing.results) /\ Fix({p \in tab.writing.results.places : WordAt(p) = w})

\* ignoreWritingWord.
AddWord(w) ==
  /\ Offered(tab.writing.results)
  /\ \E p \in tab.writing.results.places : WordAt(p) = w
  /\ w \notin tab.adding
  /\ May("adds")
  /\ tab' = [tab EXCEPT !.adding = @ \cup {w}]
  /\ asks' = asks \cup {[kind |-> "add", word |-> w, context |-> Context(tab), said |-> None, since |-> {}]}
  /\ UNCHANGED <<dictionary, confirmed>>
\* Its check reads no dictionary and is newer than the one under way.
WordAdded(a) ==
  /\ a \in asks /\ a.kind = "add" /\ a.said # None
  /\ confirmed' = confirmed \cup {a.word}
  /\ LET read == [tab EXCEPT !.words = a.said]
     IN  IF Current(tab, a.context) THEN tab' = Lint(read) /\ asks' = Disowned \ {a}
         ELSE tab' = read /\ asks' = asks \ {a}
  /\ UNCHANGED <<dictionary, steps>>
AddFails(a) ==
  /\ a \in asks /\ a.kind = "add"
  /\ May("faults")
  /\ asks' = asks \ {a}
  /\ tab' = [tab EXCEPT !.adding = @ \ {a.word}]
  /\ UNCHANGED <<dictionary, confirmed>>

-----------------------------------------------------------------------------
(* The coverage check.                                                     *)

EndCoverage(t) == [t EXCEPT !.coverage.job = None, !.coverage.busy = FALSE]

\* runGapCheck up to its first request, the export of the PGN.
RunGapCheck(t) ==
  [t EXCEPT !.coverage.job = [context |-> Context(t), stage |-> "export"], !.coverage.busy = TRUE]
Alone == UNCHANGED <<asks, dictionary, confirmed>>

CheckCoverage == ~tab.coverage.busy /\ May("runs") /\ tab' = RunGapCheck(tab) /\ Alone
GapExported ==
  /\ tab.coverage.job # None /\ tab.coverage.job.stage = "export"
  /\ tab' = IF Current(tab, tab.coverage.job.context) THEN [tab EXCEPT !.coverage.job.stage = "gaps"]
            ELSE EndCoverage(tab)
  /\ UNCHANGED steps /\ Alone

\* Bugs of Gaps: replies that were omitted come again.
GapsAll(d) == d.missing[d.active]
Gaps(d) == d.missing[d.active] \ d.omitted
GapsAnswered ==
  LET job == tab.coverage.job
  IN  /\ job # None /\ job.stage = "gaps"
      /\ tab' = IF Current(tab, job.context)
                THEN [EndCoverage(tab) EXCEPT !.coverage.results = [context |-> job.context, replies |-> Gaps(tab.doc)]]
                ELSE EndCoverage(tab)
      /\ UNCHANGED steps /\ Alone
CoverageFails == tab.coverage.job # None /\ May("faults") /\ tab' = EndCoverage(tab) /\ Alone

\* addGapMove.
AddGapMove(r) ==
  /\ Offered(tab.coverage.results) /\ r \in tab.coverage.results.replies
  /\ May("edits")
  /\ tab' = Commit(tab, [tab.doc EXCEPT !.missing[tab.doc.active] = @ \ {r}])
  /\ Alone
OmitGap(r) ==
  /\ Offered(tab.coverage.results) /\ r \in tab.coverage.results.replies
  /\ May("edits")
  /\ tab' = RunGapCheck(Commit(tab, [tab.doc EXCEPT !.omitted = @ \cup {r}]))
  /\ Alone

-----------------------------------------------------------------------------
(* The author, elsewhere.                                                  *)

Write(p, w) ==
  /\ p \in Sources(tab.doc) /\ w # tab.doc.text[p]
  /\ May("edits")
  /\ tab' = Commit(tab, [tab.doc EXCEPT !.text[p] = w])
  /\ Alone
\* markPendingInput: what is typed is not yet committed.
Type == May("edits") /\ tab' = InvalidateDiagnostics(tab) /\ Alone
SelectChapter(c) ==
  /\ c # tab.doc.active
  /\ May("edits")
  /\ tab' = [InvalidateDiagnostics(tab) EXCEPT !.doc.active = c]
  /\ Alone
Undo ==
  /\ tab.undo # None
  /\ May("edits")
  /\ tab' = [InvalidateDiagnostics(tab) EXCEPT !.doc = tab.undo[1], !.undo = None, !.saved = FALSE]
  /\ Alone
\* performSaveDraft, answered: the revision moves on.
Save ==
  /\ ~tab.saved
  /\ May("saves")
  /\ tab' = [tab EXCEPT !.saved = TRUE, !.revision = @ + 1]
  /\ Alone

CheckStep ==
  \/ CheckWriting \/ WritingChecked \/ WritingFails
  \/ CheckCoverage \/ GapExported \/ GapsAnswered \/ CoverageFails
DictionaryStep ==
  \/ \E a \in asks : DictionaryServes(a)
  \/ \E a \in asks : DictionaryRead(a)
  \/ \E a \in asks : DictionaryFails(a)
  \/ \E a \in asks : WordAdded(a)
  \/ \E a \in asks : AddFails(a)
ResultStep ==
  \/ \E p \in Places : FixOne(p)
  \/ \E w \in Words : FixAll(w)
  \/ \E w \in Words : AddWord(w)
  \/ \E r \in Replies : AddGapMove(r)
  \/ \E r \in Replies : OmitGap(r)
EditStep ==
  \/ \E p \in Places, w \in Words \cup {None} : Write(p, w)
  \/ \E c \in Chapters : SelectChapter(c)
  \/ Type \/ Undo \/ Save

Next == CheckStep \/ DictionaryStep \/ ResultStep \/ EditStep
Spec == Init /\ [][Next]_vars

-----------------------------------------------------------------------------
(* Properties.                                                             *)

\* The page's state has its types (the state object of studio.js).
TypeOK ==
  /\ tab.doc \in Documents
  /\ tab.words \subseteq Words /\ tab.adding \subseteq Words /\ confirmed \subseteq Words
  /\ \A c \in {tab.writing, tab.coverage} : c.busy \in BOOLEAN

\* A check that is shown is of the document, the chapter and the edit it is
\* shown beside, also after undo has brought the old text back
\* (invalidateDiagnostics, diagnosticIsCurrent).
ResultsCurrent ==
  \A c \in {tab.writing, tab.coverage} : c.results # None => Current(tab, c.results.context)

\* A button says "Checking…" exactly while its check is under way, whatever
\* else the author does (setBusy in runSpellcheck and runGapCheck).
BusyWhileChecking == \A c \in {tab.writing, tab.coverage} : c.busy <=> c.job # None

\* A reply the author omits deliberately is not shown as missing again
\* (runGapCheck).
OmittedStay == tab.coverage.results # None => tab.coverage.results.replies \cap tab.doc.omitted = {}

\* A check by button knows every word that had been added when it was begun
\* (refreshIgnoredWords).
ReadWordsPassStep ==
  \A a \in asks : DictionaryRead(a) /\ Waiting(a) /\ tab'.writing.job # None =>
    a.since \subseteq tab'.writing.job.words
ReadWordsPass == [][ReadWordsPassStep]_vars

\* studio.js:1391: the word was added to the shared dictionary.  The page's
\* own list has it.
ConfirmedWordsKnown == confirmed \subseteq tab.words

\* studio.js:1281: "This check belongs to an older chapter or edit."  A result
\* that is refused is of another text.
RefusedWhenOlder ==
  tab.writing.results # None /\ ~Current(tab, tab.writing.results.context) =>
    tab.writing.results.context.doc # tab.doc

\* studio.js:1391: "Adding…".  A word is being added, or checked again.
AddingSettles == tab.adding # {} => (\E a \in asks : a.kind = "add") \/ tab.writing.job # None
=============================================================================
