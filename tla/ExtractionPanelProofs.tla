----------------------- MODULE ExtractionPanelProofs -----------------------
(***************************************************************************)
(* Theorems about the extraction panel, for any courses, views and bounds. *)
(*                                                                         *)
(* What the page does is a function of the page w (the panel, its requests *)
(* and what it reads of the Studio); the parts of the invariant are stated *)
(* of such a page, of the extractions js and the revisions sv on the       *)
(* server, and each operator that a step of the page is made of is shown   *)
(* to keep them.                                                           *)
(***************************************************************************)
EXTENDS ExtractionPanel, SequenceTheorems, FiniteSetTheorems, TLAPS

\* NoCourse is not one of Courses, FirstView is one of Views,
\* and the bounds on extractions and on clicks that cancel one are numbers.
PanelSizes ==
  NoCourse \notin Courses /\ FirstView \in Views /\ MaxJobs \in Nat /\ MaxCancels \in Nat

\* One course: while it is open, no other is.
OneCourse == \A c, d \in Courses : c = d
\* No extraction is cancelled from the panel.
NoCancel == MaxCancels = 0

-----------------------------------------------------------------------------
(* Types.                                                                  *)

\* The page may have no course open.
AnyCourse == Courses \cup {NoCourse}
\* What may follow a request.
Thens == {"schedule", "started", "mutated", "reopen"}
\* A job as the page knows it, and the rows of one.
JobView == [id: Nat \ {0}, course: Courses, status: Statuses, rev: Nat, rr: Nat, stale: BOOLEAN]
\* The rows of one.
RowView == [id: Nat \ {0}, view: Views, rr: Nat]
\* A start that is not settled.
RequestView == [course: AnyCourse, rev: Nat, form: Nat, id: Nat]
\* What the detail shows.
DetailView == [id: Nat, view: Views, rows: RowView \cup {NoRows}]

\* The panel.
PanelT ==
  [course: AnyCourse, active: BOOLEAN, jobs: SUBSET JobView, selected: JobView \cup {NoJob},
   rows: RowView \cup {NoRows}, view: Views, timer: BOOLEAN, busy: BOOLEAN,
   pending: RequestView, form: Nat, shown: DetailView, asked: Nat,
   failed: {"no", "list", "other"}, since: Nat]
\* A request under way.
FlightT ==
  [op: Ops, pc: {"sent", "answered", "failed"}, live: BOOLEAN, latest: BOOLEAN,
   course: AnyCourse, rev: Nat, of: AnyCourse, id: Nat, view: Views, form: Nat, rr: Nat,
   base: Nat, seen: SUBSET (JobView \cup RowView), then: SUBSET Thens]
\* What the panel reads of the Studio.
ContextT == [course: AnyCourse, rev: Nat, dirty: BOOLEAN, videos: BOOLEAN, hidden: BOOLEAN]
\* The page.
PageT == [p: PanelT, fs: SUBSET FlightT, c: ContextT]
\* An extraction on the server.
JobT ==
  [course: Courses, status: Statuses, rev: Nat, rr: Nat, req: Nat \ {0}, form: Nat,
   told: BOOLEAN, other: Nat]

-----------------------------------------------------------------------------
(* The parts of the invariant.                                             *)

\* A job on the page is one of course c on the server.
Known(j, c, js) ==
  /\ j \in JobView /\ j.id \in DOMAIN js
  /\ j.course = c /\ js[j.id].course = c /\ j.rr <= js[j.id].rr

\* What an answer brings is of the course and the job that was asked for.
Answer(f, js) ==
  /\ f.op = "list" => \A j \in f.seen : Known(j, f.of, js)
  /\ f.op \in {"open", "cancel", "review", "start"} =>
       f.seen # {} /\ \A j \in f.seen : Known(j, f.of, js)
  /\ f.op \in {"open", "cancel", "review"} => \A j \in f.seen : j.id = f.id
  /\ f.op = "start" => \A j \in f.seen : js[j.id].req = f.id
  /\ f.op = "rows" =>
       f.seen # {} /\ \A r \in f.seen : r \in RowView /\ r.id = f.id /\ r.rr <= js[f.id].rr

\* The requests about one extraction.
OfOneJob == {"open", "rows", "cancel", "review"}
\* A request is of a course and of an extraction of that course.
FlightOwn(f, js) ==
  /\ f.of \in Courses
  /\ f.op \in OfOneJob => f.id \in DOMAIN js /\ js[f.id].course = f.of
  /\ f.pc = "answered" => Answer(f, js)

\* The page is about its own course, and so are its requests while they are
\* wanted.
Own(w, js) ==
  /\ w.p.active => w.p.course \in Courses
  /\ ~w.p.active => ~w.p.timer /\ ~w.p.busy
  /\ \A j \in w.p.jobs : Known(j, w.p.course, js)
  /\ w.p.selected # NoJob => Known(w.p.selected, w.p.course, js)
  /\ \A f \in w.fs : FlightOwn(f, js) /\ (w.p.active /\ f.live => f.of = w.p.course)

\* One request for a job or its rows is the latest.
OneLatest(fs) ==
  \A f, g \in fs : f.op \in Selection /\ g.op \in Selection /\ f.latest /\ g.latest => f = g

\* The detail of panel p shows the selected job.
Detail(p) ==
  /\ p.shown.id # 0 => p.selected # NoJob /\ p.shown.id = p.selected.id
  /\ p.shown.rows # NoRows => p.shown.id # 0 /\ p.rows # NoRows

\* The rows are of the selected job, and so is the detail.
Shown(w) ==
  /\ w.p.rows # NoRows => w.p.selected # NoJob /\ w.p.rows.id = w.p.selected.id
  /\ Detail(w.p)
  /\ OneLatest(w.fs)

-----------------------------------------------------------------------------
(* One extraction for a form.                                              *)

\* What a start is for.
Key(x) == [course |-> x.course, rev |-> x.rev, form |-> x.form]
\* What request f asks to start.
KeyOf(f) == [course |-> f.of, rev |-> f.rev, form |-> f.form]
\* The starts under way.
Starts(w) == {f \in w.fs : f.op = "start"}
\* What follows a change.
Changes == {"started", "mutated"}
\* The request has started an extraction.
Made(id, js) == \E i \in DOMAIN js : js[i].req = id
\* The author knows of it.
Settled(id, js) == \E i \in DOMAIN js : js[i].req = id /\ js[i].told

\* A request for key k with this id, of a page with the form and the pending
\* request of p.
Dated(k, id, p, sv, ids) ==
  /\ id <= ids /\ k.form <= p.form /\ k.rev <= sv[k.course]
  /\ k.form = p.form => k.course = p.course
  /\ id = p.pending.id => k = Key(p.pending)

\* The page knows the draft's revision, and the start that is not settled is
\* of the form as it is.
Pending(w, sv, ids) ==
  /\ w.c.course \in Courses => w.c.rev = sv[w.c.course]
  /\ w.p.pending.id <= ids
  /\ w.p.pending.id # 0 =>
       /\ w.p.pending.form = w.p.form /\ w.p.pending.course = w.p.course
       /\ w.p.course \in Courses /\ w.p.pending.rev <= sv[w.p.course]

\* The request is the change that the panel is busy with.
Changing(f) == f.live /\ f.then \cap Changes # {}
\* One request is that change.
OneLive(fs) == \A f, g \in fs : Changing(f) /\ Changing(g) => f = g

\* One change at a time, and the panel is busy while it is wanted.
OneChange(w) ==
  /\ \A f \in w.fs : f.op \in {"start", "cancel", "review"} => f.then \cap Changes # {}
  /\ OneLive(w.fs)
  /\ \A f \in w.fs : w.p.active /\ Changing(f) => w.p.busy

\* The start is of the form as it is and of the draft as it is.
OfNow(k, p, sv) == k.form = p.form /\ k.rev = sv[k.course]

\* A form and a revision go with one request, an extraction with the request
\* that made it, and of two extractions for one form the author knew the first.
Once(w, js, sv, ids) ==
  /\ Pending(w, sv, ids)
  /\ \A f \in Starts(w) :
       /\ f.id # 0 /\ Dated(KeyOf(f), f.id, w.p, sv, ids)
       /\ OfNow(KeyOf(f), w.p, sv) => f.id = w.p.pending.id \/ Settled(f.id, js)
       /\ w.p.active /\ f.live => w.p.pending.id \in {0, f.id}
       /\ \A g \in Starts(w) :
            KeyOf(f) = KeyOf(g) => f.id = g.id \/ Made(f.id, js) \/ Made(g.id, js)
       /\ \A i \in DOMAIN js :
            /\ KeyOf(f) = Key(js[i]) => f.id = js[i].req \/ js[i].told \/ Made(f.id, js)
            /\ f.id = js[i].req => KeyOf(f) = Key(js[i])
       /\ \A g \in Starts(w) : f.id = g.id => KeyOf(f) = KeyOf(g)
  /\ \A i \in DOMAIN js :
       /\ Dated(Key(js[i]), js[i].req, w.p, sv, ids)
       /\ OfNow(Key(js[i]), w.p, sv) => js[i].req = w.p.pending.id \/ js[i].told
       /\ \A k \in DOMAIN js :
            /\ js[i].req = js[k].req => i = k
            /\ i < k /\ Key(js[i]) = Key(js[k]) => js[i].told

-----------------------------------------------------------------------------
(* Informed decisions.                                                     *)

\* Whoever knows review rr of job i and has rows as of base has seen what
\* another tab decided.
Sees(i, rr, base, js) == js[i].other <= rr => js[i].other <= base
\* Observations that will be shown.
WantedRows(f) == f.op = "rows" /\ f.pc = "answered" /\ f.live /\ f.latest

\* Without a cancellation, the page never knows a newer review than its
\* observations show, unless they show what other tabs decided; nor does a
\* review that is under way.
Informed(w, js) ==
  /\ \A f \in w.fs : f.op # "cancel"
  /\ w.p.rows # NoRows =>
       /\ w.p.rows.rr <= js[w.p.rows.id].rr
       /\ Sees(w.p.rows.id, w.p.selected.rr, w.p.rows.rr, js)
  /\ \A f \in w.fs : f.op = "review" =>
       /\ f.rr <= js[f.id].rr /\ f.base <= js[f.id].rr
       /\ f.pc = "sent" => Sees(f.id, f.rr, f.base, js)
       /\ f.pc = "answered" => \A j \in f.seen : Sees(f.id, j.rr, f.base, js)
       /\ f.live /\ w.p.rows # NoRows /\ w.p.rows.id = f.id => f.base <= w.p.rows.rr
  /\ \A g \in w.fs : WantedRows(g) => \A r \in g.seen :
       /\ w.p.rows # NoRows /\ w.p.rows.id = g.id => w.p.rows.rr <= r.rr
       /\ w.p.selected # NoJob /\ w.p.selected.id = g.id => w.p.selected.rr <= r.rr
       /\ \A f \in w.fs : f.op = "review" /\ f.live /\ f.id = g.id => f.base <= r.rr

-----------------------------------------------------------------------------
\* The last review of another tab is one of the reviews there were.
Counted(js) == \A i \in DOMAIN js : js[i].other <= js[i].rr

\* All of it, but the polling.
Sound(w, js, sv, ids) ==
  /\ w \in PageT /\ js \in Seq(JobT) /\ sv \in [Courses -> Nat] /\ ids \in Nat /\ Counted(js)
  /\ Own(w, js) /\ Shown(w) /\ OneChange(w) /\ Once(w, js, sv, ids)
  /\ NoCancel => Informed(w, js)

-----------------------------------------------------------------------------
(* What a page keeps while its requests only fade.                         *)

\* A request g is f, or f that is no longer wanted.
Faded(g, f) ==
  /\ g.op = f.op /\ g.pc = f.pc /\ g.course = f.course /\ g.rev = f.rev /\ g.of = f.of /\ g.id = f.id
  /\ g.view = f.view /\ g.form = f.form /\ g.rr = f.rr /\ g.base = f.base
  /\ g.seen = f.seen /\ g.then = f.then
  /\ (g.live => f.live) /\ (g.latest => f.latest)
\* Every request is one of before, perhaps no longer wanted.
Fades(new, old) == \A g \in new : \E f \in old : Faded(g, f)

\* No job and no rows are not one.
LEMMA NoneOfThem == NoJob \notin JobView /\ NoRows \notin RowView /\ NoJob.id = 0 /\ NoRows.id = 0
BY DEF NoJob, NoRows, JobView, RowView

\* The fields of an extraction.
LEMMA JobFields ==
  ASSUME NEW js \in Seq(JobT), NEW i \in DOMAIN js
  PROVE  /\ js[i] \in JobT /\ js[i].course \in Courses /\ js[i].status \in Statuses
         /\ js[i].rev \in Nat /\ js[i].rr \in Nat /\ js[i].req \in Nat \ {0} /\ js[i].form \in Nat
         /\ js[i].told \in BOOLEAN /\ js[i].other \in Nat
<1>1. i \in 1 .. Len(js)
  BY LenProperties
<1>2. js[i] \in JobT
  BY <1>1, ElementOfSeq
<1>3. QED  BY <1>2 DEF JobT

\* An answer is what it was when the request has faded.
LEMMA FadedOwn ==
  ASSUME NEW f, NEW g, NEW js, Faded(g, f), FlightOwn(f, js)
  PROVE  FlightOwn(g, js)
BY DEF Faded, FlightOwn, Answer

\* The jobs of the page stay those of its course.
LEMMA OwnFades ==
  ASSUME NEW w, NEW v, NEW js, Own(w, js), Fades(v.fs, w.fs),
         v.p.active => v.p.course \in Courses,
         ~v.p.active => ~v.p.timer /\ ~v.p.busy,
         \A j \in v.p.jobs : Known(j, v.p.course, js),
         v.p.selected # NoJob => Known(v.p.selected, v.p.course, js),
         v.p.active => (w.p.active /\ v.p.course = w.p.course) \/ \A f \in v.fs : ~f.live
  PROVE  Own(v, js)
<1>1. ASSUME NEW g \in v.fs
      PROVE  FlightOwn(g, js) /\ (v.p.active /\ g.live => g.of = v.p.course)
  <2>1. PICK f \in w.fs : Faded(g, f)
    BY DEF Fades
  <2>2. FlightOwn(f, js) /\ (w.p.active /\ f.live => f.of = w.p.course)
    BY DEF Own
  <2>3. g.of = f.of /\ (g.live => f.live)
    BY <2>1 DEF Faded
  <2>4. QED  BY <2>1, <2>2, <2>3, FadedOwn
<1>2. QED  BY <1>1 DEF Own

\* There is still one change at a time.
LEMMA OneChangeFades ==
  ASSUME NEW w, NEW v, OneChange(w), Fades(v.fs, w.fs), OneLive(v.fs),
         \A f \in v.fs : v.p.active /\ Changing(f) => v.p.busy
  PROVE  OneChange(v)
<1>1. ASSUME NEW g \in v.fs, g.op \in {"start", "cancel", "review"} PROVE g.then \cap Changes # {}
  BY <1>1 DEF OneChange, Fades, Faded
<1>2. QED  BY <1>1 DEF OneChange

\* Starts are what they were, of an earlier form or of the pending request.
LEMMA OnceKept ==
  ASSUME NEW w, NEW v, NEW js, NEW sv, NEW tv, NEW ids \in Nat,
         w \in PageT, v \in PageT, js \in Seq(JobT), sv \in [Courses -> Nat], tv \in [Courses -> Nat],
         Once(w, js, sv, ids), Own(w, js),
         \A g \in Starts(v) : \E f \in Starts(w) :
           g.id = f.id /\ (g.live => f.live) /\ KeyOf(g) = KeyOf(f),
         \A c \in Courses : sv[c] <= tv[c],
         v.c.course \in Courses => v.c.rev = tv[v.c.course],
         \/ v.p.form = w.p.form /\ v.p.pending = w.p.pending /\ v.p.course = w.p.course
         \/ v.p.form > w.p.form /\ v.p.pending.id = 0,
         v.p.active => w.p.active \/ \A f \in v.fs : ~f.live
  PROVE  Once(v, js, tv, ids)
<1>1. \A g \in Starts(v) : \E f \in Starts(w) :
        g.id = f.id /\ (g.live => f.live) /\ KeyOf(g) = KeyOf(f)
  OBVIOUS
<1>2. \A f \in Starts(w) : f.of \in Courses /\ f.rev \in Nat /\ f.form \in Nat /\ f.id \in Nat
  BY DEF Starts, Own, FlightOwn, PageT, FlightT
<1>3. \A i \in DOMAIN js : js[i].course \in Courses /\ js[i].rev \in Nat /\ js[i].form \in Nat /\ js[i].req \in Nat \ {0}
  BY JobFields
<1>4. w.p.form \in Nat /\ v.p.form \in Nat /\ w.p.pending \in RequestView /\ v.p.pending \in RequestView
  BY DEF PageT, PanelT
<1>5. \A c \in Courses : sv[c] \in Nat /\ tv[c] \in Nat
  OBVIOUS
<1>6. Pending(v, tv, ids)
  <2>1. Pending(w, sv, ids)
    BY DEF Once
  <2>2. w.p.pending.id \in Nat /\ v.p.pending.id \in Nat /\ w.p.pending.rev \in Nat
    BY <1>4 DEF RequestView
  <2>3. v.p.pending.id # 0 =>
          v.p.form = w.p.form /\ v.p.pending = w.p.pending /\ v.p.course = w.p.course
    BY <1>4
  <2>4. v.p.pending.id <= ids
    BY <2>1, <2>2, <2>3 DEF Pending
  <2>5. ASSUME v.p.pending.id # 0
        PROVE  /\ v.p.pending.form = v.p.form /\ v.p.pending.course = v.p.course
               /\ v.p.course \in Courses /\ v.p.pending.rev <= tv[v.p.course]
    <3>1. /\ w.p.pending.form = w.p.form /\ w.p.pending.course = w.p.course
          /\ w.p.course \in Courses /\ w.p.pending.rev <= sv[w.p.course]
      BY <2>1, <2>3, <2>5 DEF Pending
    <3>2. sv[w.p.course] <= tv[w.p.course] /\ sv[w.p.course] \in Nat /\ tv[w.p.course] \in Nat
      BY <1>5, <3>1
    <3>3. QED  BY <2>2, <2>3, <2>5, <3>1, <3>2
  <2>6. QED  BY <2>4, <2>5 DEF Pending
<1>7. ASSUME NEW k, k.course \in Courses, k.rev \in Nat, k.form \in Nat, NEW id \in Nat \ {0}, Dated(k, id, w.p, sv, ids)
      PROVE  Dated(k, id, v.p, tv, ids) /\ (OfNow(k, v.p, tv) => OfNow(k, w.p, sv) /\ v.p.pending = w.p.pending)
  BY <1>4, <1>5, <1>7 DEF Dated, OfNow
<1>8. ASSUME NEW g \in Starts(v)
      PROVE  /\ g.id # 0 /\ Dated(KeyOf(g), g.id, v.p, tv, ids)
             /\ OfNow(KeyOf(g), v.p, tv) => g.id = v.p.pending.id \/ Settled(g.id, js)
             /\ v.p.active /\ g.live => v.p.pending.id \in {0, g.id}
  <2>1. PICK f \in Starts(w) : g.id = f.id /\ KeyOf(g) = KeyOf(f) /\ (g.live => f.live)
    BY <1>1
  <2>2. /\ f.id # 0 /\ Dated(KeyOf(f), f.id, w.p, sv, ids)
        /\ OfNow(KeyOf(f), w.p, sv) => f.id = w.p.pending.id \/ Settled(f.id, js)
        /\ w.p.active /\ f.live => w.p.pending.id \in {0, f.id}
    BY DEF Once
  <2>3. Dated(KeyOf(f), f.id, v.p, tv, ids) /\ (OfNow(KeyOf(f), v.p, tv) => OfNow(KeyOf(f), w.p, sv) /\ v.p.pending = w.p.pending)
    BY <1>2, <1>7, <2>2 DEF KeyOf
  <2>4. v.p.active /\ g.live => w.p.active
    BY DEF Starts
  <2>5. QED  BY <2>1, <2>2, <2>3, <2>4
<1>9. ASSUME NEW g \in Starts(v), NEW h \in Starts(v)
      PROVE  /\ KeyOf(g) = KeyOf(h) => g.id = h.id \/ Made(g.id, js) \/ Made(h.id, js)
             /\ g.id = h.id => KeyOf(g) = KeyOf(h)
  <2>1. PICK f \in Starts(w) : g.id = f.id /\ KeyOf(g) = KeyOf(f)
    BY <1>1
  <2>2. PICK e \in Starts(w) : h.id = e.id /\ KeyOf(h) = KeyOf(e)
    BY <1>1
  <2>3. QED  BY <2>1, <2>2 DEF Once
<1>10. ASSUME NEW g \in Starts(v), NEW i \in DOMAIN js
       PROVE  /\ KeyOf(g) = Key(js[i]) => g.id = js[i].req \/ js[i].told \/ Made(g.id, js)
              /\ g.id = js[i].req => KeyOf(g) = Key(js[i])
  <2>1. PICK f \in Starts(w) : g.id = f.id /\ KeyOf(g) = KeyOf(f)
    BY <1>1
  <2>2. QED  BY <2>1 DEF Once
<1>11. ASSUME NEW i \in DOMAIN js
       PROVE  /\ Dated(Key(js[i]), js[i].req, v.p, tv, ids)
              /\ OfNow(Key(js[i]), v.p, tv) => js[i].req = v.p.pending.id \/ js[i].told
  <2>1. /\ Dated(Key(js[i]), js[i].req, w.p, sv, ids)
        /\ OfNow(Key(js[i]), w.p, sv) => js[i].req = w.p.pending.id \/ js[i].told
    BY DEF Once
  <2>2. QED  BY <1>3, <1>7, <2>1 DEF Key
<1>12. \A i, k \in DOMAIN js :
         /\ js[i].req = js[k].req => i = k
         /\ i < k /\ Key(js[i]) = Key(js[k]) => js[i].told
  BY DEF Once
<1>13. QED  BY <1>6, <1>8, <1>9, <1>10, <1>11, <1>12 DEF Once

\* One change at a time and one extraction for a form, of such a page.
LEMMA OnceFades ==
  ASSUME NEW w, NEW v, NEW js, NEW sv, NEW tv, NEW ids \in Nat,
         w \in PageT, v \in PageT, js \in Seq(JobT), sv \in [Courses -> Nat], tv \in [Courses -> Nat],
         Once(w, js, sv, ids), Own(w, js), Fades(v.fs, w.fs),
         \A c \in Courses : sv[c] <= tv[c],
         v.c.course \in Courses => v.c.rev = tv[v.c.course],
         \/ v.p.form = w.p.form /\ v.p.pending = w.p.pending /\ v.p.course = w.p.course
         \/ v.p.form > w.p.form /\ v.p.pending.id = 0,
         v.p.active => w.p.active \/ \A f \in v.fs : ~f.live
  PROVE  Once(v, js, tv, ids)
<1>1. \A g \in Starts(v) : \E f \in Starts(w) :
        g.id = f.id /\ (g.live => f.live) /\ KeyOf(g) = KeyOf(f)
  <2> TAKE g \in Starts(v)
  <2>1. PICK f \in w.fs : Faded(g, f)
    BY DEF Fades, Starts
  <2>2. f \in Starts(w) /\ g.id = f.id /\ (g.live => f.live) /\ KeyOf(g) = KeyOf(f)
    BY <2>1 DEF Starts, Faded, KeyOf
  <2>3. QED  BY <2>2
<1>2. QED  BY <1>1, OnceKept

\* Decisions are still informed, while the rows are the same or gone and the
\* selected job was not reviewed anew.
LEMMA InformedFades ==
  ASSUME NEW w, NEW v, NEW js, Informed(w, js), Fades(v.fs, w.fs),
         \/ v.p.rows = NoRows
         \/ v.p.rows = w.p.rows /\ v.p.selected.rr = w.p.selected.rr,
         \/ v.p.selected = NoJob
         \/ w.p.selected # NoJob /\ v.p.selected.id = w.p.selected.id /\ v.p.selected.rr = w.p.selected.rr
         \/ \A g \in v.fs : ~WantedRows(g)
  PROVE  Informed(v, js)
<1>1. \A f \in v.fs : f.op # "cancel"
  BY DEF Informed, Fades, Faded
<1>2. v.p.rows # NoRows =>
        /\ v.p.rows.rr <= js[v.p.rows.id].rr
        /\ Sees(v.p.rows.id, v.p.selected.rr, v.p.rows.rr, js)
  BY DEF Informed
<1>3. ASSUME NEW g \in v.fs, g.op = "review"
      PROVE /\ g.rr <= js[g.id].rr /\ g.base <= js[g.id].rr
            /\ g.pc = "sent" => Sees(g.id, g.rr, g.base, js)
            /\ g.pc = "answered" => \A j \in g.seen : Sees(g.id, j.rr, g.base, js)
            /\ g.live /\ v.p.rows # NoRows /\ v.p.rows.id = g.id => g.base <= v.p.rows.rr
  <2>1. PICK f \in w.fs : Faded(g, f)
    BY DEF Fades
  <2>2. /\ f.rr <= js[f.id].rr /\ f.base <= js[f.id].rr
        /\ f.pc = "sent" => Sees(f.id, f.rr, f.base, js)
        /\ f.pc = "answered" => \A j \in f.seen : Sees(f.id, j.rr, f.base, js)
        /\ f.live /\ w.p.rows # NoRows /\ w.p.rows.id = f.id => f.base <= w.p.rows.rr
    BY <1>3, <2>1 DEF Informed, Faded
  <2>3. QED  BY <2>1, <2>2 DEF Faded
<1>4. ASSUME NEW g \in v.fs, WantedRows(g), NEW r \in g.seen
      PROVE  /\ v.p.rows # NoRows /\ v.p.rows.id = g.id => v.p.rows.rr <= r.rr
             /\ v.p.selected # NoJob /\ v.p.selected.id = g.id => v.p.selected.rr <= r.rr
             /\ \A f \in v.fs : f.op = "review" /\ f.live /\ f.id = g.id => f.base <= r.rr
  <2>1. PICK f \in w.fs : Faded(g, f)
    BY DEF Fades
  <2>2. WantedRows(f) /\ r \in f.seen /\ f.id = g.id
    BY <1>4, <2>1 DEF Faded, WantedRows
  <2>3. /\ w.p.rows # NoRows /\ w.p.rows.id = f.id => w.p.rows.rr <= r.rr
        /\ w.p.selected # NoJob /\ w.p.selected.id = f.id => w.p.selected.rr <= r.rr
        /\ \A e \in w.fs : e.op = "review" /\ e.live /\ e.id = f.id => e.base <= r.rr
    BY <2>2 DEF Informed
  <2>4. ASSUME NEW h \in v.fs, h.op = "review", h.live, h.id = g.id PROVE h.base <= r.rr
    BY <2>2, <2>3, <2>4 DEF Fades, Faded
  <2>5. QED  BY <1>4, <2>2, <2>3, <2>4
<1>5. QED  BY <1>1, <1>2, <1>3, <1>4 DEF Informed

\* All of that together.
LEMMA SoundFades ==
  ASSUME NEW w, NEW v, NEW js, NEW sv, NEW tv, NEW ids, NEW more \in Nat, ids <= more,
         Sound(w, js, sv, ids), v \in PageT, tv \in [Courses -> Nat], Fades(v.fs, w.fs),
         OneLatest(v.fs), OneLive(v.fs),
         \A c \in Courses : sv[c] <= tv[c],
         v.c.course \in Courses => v.c.rev = tv[v.c.course],
         v.p.active => v.p.course \in Courses,
         ~v.p.active => ~v.p.timer /\ ~v.p.busy,
         \A j \in v.p.jobs : Known(j, v.p.course, js),
         v.p.selected # NoJob => Known(v.p.selected, v.p.course, js),
         v.p.rows # NoRows => v.p.selected # NoJob /\ v.p.rows.id = v.p.selected.id,
         Detail(v.p),
         v.p.active => (w.p.active /\ v.p.course = w.p.course) \/ \A f \in v.fs : ~f.live,
         \A f \in v.fs : v.p.active /\ Changing(f) => v.p.busy,
         \/ v.p.form = w.p.form /\ v.p.pending = w.p.pending /\ v.p.course = w.p.course
         \/ v.p.form > w.p.form /\ v.p.pending.id = 0,
         NoCancel =>
           /\ \/ v.p.rows = NoRows
              \/ v.p.rows = w.p.rows /\ v.p.selected.rr = w.p.selected.rr
           /\ \/ v.p.selected = NoJob
              \/ w.p.selected # NoJob /\ v.p.selected.id = w.p.selected.id /\ v.p.selected.rr = w.p.selected.rr
              \/ \A g \in v.fs : ~WantedRows(g)
  PROVE  Sound(v, js, tv, more)
<1>1. w \in PageT /\ js \in Seq(JobT) /\ sv \in [Courses -> Nat] /\ ids \in Nat
  BY DEF Sound
<1>2. Own(w, js) /\ Shown(w) /\ OneChange(w) /\ Once(w, js, sv, ids)
  BY DEF Sound
<1>3. Own(v, js)
  BY <1>2, OwnFades
<1>4. Shown(v)
  BY DEF Shown
<1>5. OneChange(v)
  BY <1>2, OneChangeFades
<1>6. Once(v, js, tv, ids)
  <2>1. v.p.active => w.p.active \/ \A f \in v.fs : ~f.live
    OBVIOUS
  <2>2. QED  BY <1>1, <1>2, <2>1, OnceFades
<1>7. Once(v, js, tv, more)
  <2>1. /\ v.p.pending.id \in Nat
        /\ \A f \in Starts(v) : f.id \in Nat
        /\ \A i \in DOMAIN js : js[i].req \in Nat
    BY <1>1, JobFields DEF PageT, PanelT, RequestView, FlightT, Starts
  <2>2. Pending(v, tv, more)
    BY <1>1, <1>6, <2>1 DEF Once, Pending
  <2>3. \A k : \A id \in Nat : Dated(k, id, v.p, tv, ids) => Dated(k, id, v.p, tv, more)
    BY <1>1 DEF Dated
  <2>4. /\ \A f \in Starts(v) : Dated(KeyOf(f), f.id, v.p, tv, more)
        /\ \A i \in DOMAIN js : Dated(Key(js[i]), js[i].req, v.p, tv, more)
    BY <1>6, <2>1, <2>3 DEF Once
  <2>5. QED  BY <1>6, <2>2, <2>4 DEF Once
<1>8. ASSUME NoCancel PROVE Informed(v, js)
  <2>1. Informed(w, js)
    BY <1>8 DEF Sound
  <2>2. QED  BY <1>8, <2>1, InformedFades
<1>9. QED  BY <1>1, <1>3, <1>4, <1>5, <1>7, <1>8 DEF Sound

\* A change of the panel only.
LEMMA PanelChanges ==
  ASSUME NEW w, NEW v, NEW js, NEW sv, NEW ids, Sound(w, js, sv, ids),
         v.p \in PanelT, v = [w EXCEPT !.p = v.p],
         v.p.active = w.p.active, v.p.course = w.p.course, v.p.rows = w.p.rows,
         v.p.selected = w.p.selected, v.p.form = w.p.form, v.p.pending = w.p.pending,
         v.p.timer => v.p.active,
         \A j \in v.p.jobs : Known(j, w.p.course, js),
         Detail(v.p),
         \/ v.p.busy = w.p.busy
         \/ v.p.busy = FALSE /\ \A f \in w.fs : ~Changing(f)
  PROVE  Sound(v, js, sv, ids)
<1>1. w \in PageT /\ js \in Seq(JobT) /\ sv \in [Courses -> Nat] /\ ids \in Nat
  BY DEF Sound
<1>2. Own(w, js) /\ Shown(w) /\ OneChange(w) /\ Once(w, js, sv, ids)
  BY DEF Sound
<1>3. v \in PageT /\ v.fs = w.fs /\ v.c = w.c
  BY <1>1 DEF PageT
<1>4. Fades(v.fs, w.fs)
  BY <1>3 DEF Fades, Faded
<1>5. OneLatest(v.fs) /\ OneLive(v.fs)
  BY <1>2, <1>3 DEF Shown, OneChange
<1>6. \A c \in Courses : sv[c] <= sv[c]
  BY <1>1
<1>7. v.c.course \in Courses => v.c.rev = sv[v.c.course]
  BY <1>2, <1>3 DEF Once, Pending
<1>8. /\ v.p.active => v.p.course \in Courses
      /\ ~v.p.active => ~v.p.timer /\ ~v.p.busy
      /\ v.p.selected # NoJob => Known(v.p.selected, v.p.course, js)
      /\ \A f \in v.fs : v.p.active /\ Changing(f) => v.p.busy
  BY <1>2, <1>3 DEF Own, OneChange
<1>9. v.p.rows # NoRows => v.p.selected # NoJob /\ v.p.rows.id = v.p.selected.id
  BY <1>2 DEF Shown
<1>10. ids <= ids
  BY <1>1
<1>11. QED  BY <1>1, <1>3, <1>4, <1>5, <1>6, <1>7, <1>8, <1>9, <1>10, SoundFades, Zenon

-----------------------------------------------------------------------------
(* Requests that fade, come and go.                                        *)

\* Superseded requests only fade.
LEMMA SupersededFades ==
  ASSUME NEW fs \in SUBSET FlightT, NEW ops
  PROVE  /\ Superseded(fs, ops) \in SUBSET FlightT /\ Fades(Superseded(fs, ops), fs)
         /\ \A g \in Superseded(fs, ops) : g.op \in ops => ~g.latest
         /\ OneLatest(fs) => OneLatest(Superseded(fs, ops))
         /\ OneLive(fs) => OneLive(Superseded(fs, ops))
<1> DEFINE S(f) == IF f.op \in ops THEN [f EXCEPT !.latest = FALSE] ELSE f
<1>1. ASSUME NEW f \in fs
      PROVE S(f) \in FlightT /\ Faded(S(f), f) /\ (f.op \in ops => ~S(f).latest)
  BY DEF FlightT, Faded
<1>2. \A g \in Superseded(fs, ops) : \E f \in fs : g = S(f)
  BY DEF Superseded
<1> HIDE DEF S
<1>3. /\ Superseded(fs, ops) \in SUBSET FlightT /\ Fades(Superseded(fs, ops), fs)
      /\ \A g \in Superseded(fs, ops) : g.op \in ops => ~g.latest
  BY <1>1, <1>2 DEF Fades, Faded
<1>4. ASSUME NEW g \in Superseded(fs, ops), NEW h \in Superseded(fs, ops)
      PROVE  /\ OneLatest(fs) /\ g.op \in Selection /\ h.op \in Selection /\ g.latest /\ h.latest => g = h
             /\ OneLive(fs) /\ Changing(g) /\ Changing(h) => g = h
  <2>1. PICK f \in fs : g = S(f)
    BY <1>2
  <2>2. PICK e \in fs : h = S(e)
    BY <1>2
  <2>3. Faded(g, f) /\ Faded(h, e)
    BY <1>1, <2>1, <2>2
  <2>4. QED  BY <2>1, <2>2, <2>3 DEF OneLatest, OneLive, Changing, Faded
<1>5. QED  BY <1>3, <1>4 DEF OneLatest, OneLive

\* Requests of a generation that is over only fade.
LEMMA ExpiredFades ==
  ASSUME NEW fs \in SUBSET FlightT
  PROVE  /\ Expired(fs) \in SUBSET FlightT /\ Fades(Expired(fs), fs)
         /\ \A g \in Expired(fs) : ~g.live
         /\ OneLive(Expired(fs))
         /\ OneLatest(fs) => \A ops : Selection \subseteq ops => OneLatest(Superseded(Expired(fs), ops))
<1> DEFINE S(f) == [f EXCEPT !.live = FALSE]
<1>1. ASSUME NEW f \in fs
      PROVE S(f) \in FlightT /\ Faded(S(f), f) /\ ~S(f).live
  BY DEF FlightT, Faded
<1>2. \A g \in Expired(fs) : \E f \in fs : g = S(f)
  BY DEF Expired
<1> HIDE DEF S
<1>3. /\ Expired(fs) \in SUBSET FlightT /\ Fades(Expired(fs), fs)
      /\ \A g \in Expired(fs) : ~g.live
  BY <1>1, <1>2 DEF Fades
<1>4. OneLive(Expired(fs))
  BY <1>3 DEF OneLive, Changing
<1>5. \A ops : Selection \subseteq ops => OneLatest(Superseded(Expired(fs), ops))
  BY <1>3, SupersededFades DEF OneLatest
<1>6. QED  BY <1>3, <1>4, <1>5

\* Fading is of one's fading.
LEMMA FadesOn == ASSUME NEW a, NEW b, NEW c, Fades(a, b), Fades(b, c) PROVE Fades(a, c)
<1>1. ASSUME NEW g \in a PROVE \E f \in c : Faded(g, f)
  <2>1. PICK f \in b : Faded(g, f)
    BY DEF Fades
  <2>2. PICK e \in c : Faded(f, e)
    BY DEF Fades
  <2>3. Faded(g, e)
    BY <2>1, <2>2 DEF Faded
  <2>4. QED  BY <2>3
<1>2. QED  BY <1>1 DEF Fades

\* The page with fewer or fainter requests.
LEMMA RequestsFade ==
  ASSUME NEW w, NEW fs, NEW js, NEW sv, NEW ids, Sound(w, js, sv, ids),
         fs \in SUBSET FlightT, Fades(fs, w.fs), OneLatest(fs), OneLive(fs)
  PROVE  Sound([w EXCEPT !.fs = fs], js, sv, ids)
<1> DEFINE v == [w EXCEPT !.fs = fs]
<1>1. w \in PageT /\ js \in Seq(JobT) /\ sv \in [Courses -> Nat] /\ ids \in Nat
  BY DEF Sound
<1>2. Own(w, js) /\ Shown(w) /\ OneChange(w) /\ Once(w, js, sv, ids)
  BY DEF Sound
<1>3. v \in PageT /\ v.fs = fs /\ v.c = w.c /\ v.p = w.p
  BY <1>1 DEF PageT
<1> HIDE DEF v
<1>4. \A c \in Courses : sv[c] <= sv[c]
  BY <1>1
<1>5. v.c.course \in Courses => v.c.rev = sv[v.c.course]
  BY <1>2, <1>3 DEF Once, Pending
<1>6. /\ v.p.active => v.p.course \in Courses
      /\ ~v.p.active => ~v.p.timer /\ ~v.p.busy
      /\ \A j \in v.p.jobs : Known(j, v.p.course, js)
      /\ v.p.selected # NoJob => Known(v.p.selected, v.p.course, js)
  BY <1>2, <1>3 DEF Own
<1>7. \A f \in v.fs : v.p.active /\ Changing(f) => v.p.busy
  BY <1>2, <1>3 DEF OneChange, Fades, Faded, Changing
<1>8. v.p.rows # NoRows => v.p.selected # NoJob /\ v.p.rows.id = v.p.selected.id
  BY <1>2, <1>3 DEF Shown
<1>9. Detail(v.p)
  BY <1>2, <1>3 DEF Shown
<1>10. ids <= ids
  BY <1>1
<1>11. Sound(v, js, sv, ids)
  BY <1>1, <1>3, <1>4, <1>5, <1>6, <1>7, <1>8, <1>9, <1>10, SoundFades, Zenon
<1>12. QED  BY <1>11 DEF v

\* Later requests of the same kind.
LEMMA SupersededSound ==
  ASSUME NEW w, NEW js, NEW sv, NEW ids, Sound(w, js, sv, ids), NEW ops
  PROVE  Sound([w EXCEPT !.fs = Superseded(@, ops)], js, sv, ids)
<1>1. w.fs \in SUBSET FlightT /\ OneLatest(w.fs) /\ OneLive(w.fs)
  BY DEF Sound, PageT, Shown, OneChange
<1>2. QED  BY <1>1, SupersededFades, RequestsFade

\* A request that has ended is gone.
LEMMA LandedSound ==
  ASSUME NEW w, NEW js, NEW sv, NEW ids, Sound(w, js, sv, ids), NEW f
  PROVE  Sound([w EXCEPT !.fs = @ \ {f}], js, sv, ids)
<1>1. w.fs \in SUBSET FlightT /\ OneLatest(w.fs) /\ OneLive(w.fs)
  BY DEF Sound, PageT, Shown, OneChange
<1>2. Fades(w.fs \ {f}, w.fs)
  BY DEF Fades, Faded
<1>3. OneLatest(w.fs \ {f}) /\ OneLive(w.fs \ {f})
  BY <1>1 DEF OneLatest, OneLive
<1>4. QED  BY <1>1, <1>2, <1>3, RequestsFade

\* A new request to read, which is the latest of its kind.
LEMMA ReadAdded ==
  ASSUME NEW w, NEW f, NEW js, NEW sv, NEW ids, Sound(w, js, sv, ids),
         f \in FlightT, f.op \in {"list", "open", "rows"}, f.pc = "sent",
         w.p.course \in Courses, f.of = w.p.course,
         f.op \in Selection =>
           /\ f.id \in DOMAIN js /\ js[f.id].course = f.of
           /\ \A g \in w.fs : g.op \in Selection => ~g.latest,
         Changing(f) => (\A g \in w.fs : ~Changing(g)) /\ w.p.busy
  PROVE  Sound([w EXCEPT !.fs = @ \cup {f}], js, sv, ids)
<1> DEFINE v == [w EXCEPT !.fs = @ \cup {f}]
<1>1. w \in PageT /\ js \in Seq(JobT) /\ sv \in [Courses -> Nat] /\ ids \in Nat
  BY DEF Sound
<1>2. Own(w, js) /\ Shown(w) /\ OneChange(w) /\ Once(w, js, sv, ids)
  BY DEF Sound
<1>3. v \in PageT /\ v.fs = w.fs \cup {f} /\ v.c = w.c /\ v.p = w.p
  BY <1>1 DEF PageT
<1> HIDE DEF v
<1>4. FlightOwn(f, js)
  BY DEF FlightOwn, OfOneJob, Selection
<1>5. Own(v, js)
  BY <1>2, <1>3, <1>4 DEF Own
<1>6. Shown(v)
  BY <1>2, <1>3 DEF Shown, OneLatest
<1>7. OneChange(v)
  BY <1>2, <1>3 DEF OneChange, OneLive
<1>8. Starts(v) = Starts(w)
  BY <1>3 DEF Starts
<1>9. Once(v, js, sv, ids)
  BY <1>2, <1>3, <1>8 DEF Once, Pending
<1>10. ASSUME NoCancel PROVE Informed(v, js)
  <2>1. Informed(w, js)
    BY <1>10 DEF Sound
  <2>2. ~WantedRows(f) /\ f.op # "review" /\ f.op # "cancel"
    BY DEF WantedRows
  <2>3. QED  BY <1>3, <2>1, <2>2 DEF Informed
<1>11. Sound(v, js, sv, ids)
  BY <1>1, <1>3, <1>5, <1>6, <1>7, <1>9, <1>10 DEF Sound
<1>12. QED  BY <1>11 DEF v

\* What a flight is made of.
LEMMA FlightForm ==
  ASSUME PanelSizes, NEW w \in PageT, NEW op \in Ops, NEW id \in Nat, NEW then \in SUBSET Thens,
         op = "review" => w.p.selected # NoJob /\ w.p.rows # NoRows
  PROVE  LET f == Flight(w, op, id, then)
         IN  /\ f \in FlightT /\ f.op = op /\ f.pc = "sent" /\ f.live /\ f.latest /\ f.then = then
             /\ f.course = w.c.course /\ f.rev = w.c.rev /\ f.of = w.p.course /\ f.id = id
             /\ op = "start" => f.form = w.p.form
             /\ op = "review" => f.rr = w.p.selected.rr /\ f.base = w.p.rows.rr
<1> DEFINE f == Flight(w, op, id, then)
<1>1. /\ w.p.view \in Views /\ FirstView \in Views /\ w.p.form \in Nat /\ w.p.course \in AnyCourse
      /\ w.c.course \in AnyCourse /\ w.c.rev \in Nat
      /\ op = "review" => w.p.selected.rr \in Nat /\ w.p.rows.rr \in Nat
  BY DEF PanelSizes, PageT, PanelT, ContextT, JobView, RowView
<1>2. f = [op |-> op, pc |-> "sent", live |-> TRUE, latest |-> TRUE,
           course |-> w.c.course, rev |-> w.c.rev, of |-> w.p.course, id |-> id,
           view |-> f.view, form |-> f.form, rr |-> f.rr, base |-> f.base,
           seen |-> {}, then |-> then]
  BY DEF Flight
<1>3. /\ f.view = IF op = "rows" THEN w.p.view ELSE FirstView
      /\ f.form = IF op = "start" THEN w.p.form ELSE 0
      /\ f.rr = IF op = "review" THEN w.p.selected.rr ELSE 0
      /\ f.base = IF op = "review" THEN w.p.rows.rr ELSE 0
  BY DEF Flight
<1> HIDE DEF f
<1>4. f.view \in Views /\ f.form \in Nat /\ f.rr \in Nat /\ f.base \in Nat
  BY <1>1, <1>3
<1>5. \A view \in Views : \A form, rr, base \in Nat :
        [op |-> op, pc |-> "sent", live |-> TRUE, latest |-> TRUE,
         course |-> w.c.course, rev |-> w.c.rev, of |-> w.p.course, id |-> id,
         view |-> view, form |-> form, rr |-> rr, base |-> base,
         seen |-> {}, then |-> then] \in FlightT
  BY <1>1 DEF FlightT
<1>6. f \in FlightT
  BY <1>2, <1>4, <1>5
<1>7. QED  BY <1>2, <1>3, <1>6 DEF f

\* No request of the page is a change that it waits for.
Free(w) == \A g \in w.fs : ~Changing(g)

\* Sending a request to read.
LEMMA ReadSent ==
  ASSUME PanelSizes, NEW w, NEW js, NEW sv, NEW ids, Sound(w, js, sv, ids),
         NEW op \in {"list", "open", "rows"}, NEW id \in Nat, NEW then \in SUBSET Thens, NEW ops,
         w.p.course \in Courses,
         op \in Selection => id \in DOMAIN js /\ js[id].course = w.p.course /\ Selection \subseteq ops,
         then \cap Changes # {} => Free(w) /\ w.p.busy
  PROVE  Sound(Sent(w, Flight(w, op, id, then), ops), js, sv, ids)
<1> DEFINE f == Flight(w, op, id, then)
<1> DEFINE v == [w EXCEPT !.fs = Superseded(@, ops)]
<1>1. w \in PageT /\ op \in Ops
  BY DEF Sound, Ops
<1>2. /\ f \in FlightT /\ f.op = op /\ f.pc = "sent" /\ f.of = w.p.course /\ f.id = id
      /\ f.then = then
  BY <1>1, FlightForm
<1>3. Sound(v, js, sv, ids)
  BY SupersededSound
<1>4. v.p = w.p /\ v.fs = Superseded(w.fs, ops) /\ w.fs \in SUBSET FlightT
  BY <1>1 DEF PageT
<1>5. \A g \in v.fs : g.op \in ops => ~g.latest
  BY <1>4, SupersededFades
<1>6. Free(w) => Free(v)
  <2>1. Fades(v.fs, w.fs)
    BY <1>4, SupersededFades
  <2>2. QED  BY <2>1 DEF Free, Fades, Faded, Changing
<1>7. Sent(w, f, ops) = [v EXCEPT !.fs = @ \cup {f}]
  BY <1>1 DEF Sent, PageT
<1> HIDE DEF f, v
<1>8. Changing(f) => then \cap Changes # {}
  BY <1>2 DEF Changing
<1>9. Sound([v EXCEPT !.fs = @ \cup {f}], js, sv, ids)
  BY <1>2, <1>3, <1>4, <1>5, <1>6, <1>8, ReadAdded DEF Free
<1>10. QED  BY <1>7, <1>9 DEF f

-----------------------------------------------------------------------------
(* The operators of the page.                                              *)

\* What a panel keeps when only what it shows, or its timer, changes.
SamePanel(q, p) ==
  /\ q.course = p.course /\ q.active = p.active /\ q.jobs = p.jobs /\ q.selected = p.selected
  /\ q.rows = p.rows /\ q.pending = p.pending /\ q.form = p.form /\ q.busy = p.busy
  /\ q.failed = p.failed /\ q.since = p.since
\* The same page, but for what the panel displays.
Same(v, w) == v.c = w.c /\ v.fs = w.fs /\ SamePanel(v.p, w.p)

\* render keeps it.
LEMMA RenderedSound ==
  ASSUME PanelSizes, NEW w, NEW js, NEW sv, NEW ids, Sound(w, js, sv, ids)
  PROVE  /\ Sound(Rendered(w), js, sv, ids) /\ Same(Rendered(w), w)
         /\ Rendered(w).p.timer = w.p.timer /\ Rendered(w).p.view = w.p.view
<1> DEFINE d == IF w.p.selected = NoJob THEN NoDetail
                ELSE [id |-> w.p.selected.id, view |-> w.p.view, rows |-> w.p.rows]
<1>1. w \in PageT /\ w.p \in PanelT
  BY DEF Sound, PageT
<1>2. d \in DetailView
  BY <1>1 DEF PanelT, PanelSizes, NoDetail, DetailView, JobView
<1>3. Rendered(w) = [w EXCEPT !.p = [w.p EXCEPT !.shown = d]]
  BY <1>1 DEF Rendered
<1>4. Shown(w)
  BY DEF Sound
<1>5. /\ d.id # 0 => w.p.selected # NoJob /\ d.id = w.p.selected.id
      /\ d.rows # NoRows => d.id # 0 /\ w.p.rows # NoRows
  BY <1>1, <1>4, NoneOfThem DEF PanelT, NoDetail, Shown, JobView
<1> HIDE DEF d
<1> DEFINE q == [w.p EXCEPT !.shown = d]
<1>6. q \in PanelT /\ SamePanel(q, w.p) /\ q.timer = w.p.timer /\ q.view = w.p.view /\ q.shown = d
  BY <1>1, <1>2 DEF PanelT, SamePanel
<1>7. Detail(q)
  BY <1>5, <1>6 DEF Detail, SamePanel
<1> HIDE DEF q
<1> DEFINE v == [w EXCEPT !.p = q]
<1>8. v.p = q /\ v.c = w.c /\ v.fs = w.fs
  BY <1>1 DEF PageT
<1>9. Own(w, js)
  BY DEF Sound
<1>10. Sound(v, js, sv, ids)
  BY <1>6, <1>7, <1>8, <1>9, PanelChanges DEF SamePanel, Own
<1>11. QED  BY <1>3, <1>6, <1>8, <1>10 DEF Same, q

\* showLoading keeps it.
LEMMA LoadingSound ==
  ASSUME PanelSizes, NEW w, NEW js, NEW sv, NEW ids, Sound(w, js, sv, ids)
  PROVE  /\ Sound(Loading(w), js, sv, ids) /\ Same(Loading(w), w)
         /\ Loading(w).p.timer = w.p.timer /\ Loading(w).p.view = w.p.view
<1>1. w \in PageT /\ w.p \in PanelT
  BY DEF Sound, PageT
<1> DEFINE q == [w.p EXCEPT !.shown = NoDetail]
<1>2. NoDetail \in DetailView
  BY DEF NoDetail, DetailView, PanelSizes
<1>3. /\ q \in PanelT /\ SamePanel(q, w.p) /\ q.timer = w.p.timer /\ q.view = w.p.view
      /\ q.shown = NoDetail
  BY <1>1, <1>2 DEF PanelT, SamePanel
<1>4. Loading(w) = [w EXCEPT !.p = q]
  BY <1>1 DEF Loading
<1>5. Detail(q)
  BY <1>3 DEF Detail, NoDetail
<1> HIDE DEF q
<1> DEFINE v == [w EXCEPT !.p = q]
<1>6. v.p = q /\ v.c = w.c /\ v.fs = w.fs
  BY <1>1 DEF PageT
<1>7. Own(w, js)
  BY DEF Sound
<1>8. Sound(v, js, sv, ids)
  BY <1>3, <1>5, <1>6, <1>7, PanelChanges DEF SamePanel, Own
<1>9. QED  BY <1>3, <1>4, <1>6, <1>8 DEF Same

\* schedule keeps it.
LEMMA ScheduledSound ==
  ASSUME NEW w, NEW js, NEW sv, NEW ids, Sound(w, js, sv, ids)
  PROVE  /\ Sound(Scheduled(w), js, sv, ids) /\ Same(Scheduled(w), w)
         /\ Scheduled(w).p.timer = (/\ w.p.active /\ ~w.c.hidden
                                    /\ \E j \in w.p.jobs : j.status \in Active)
<1>1. w \in PageT /\ w.p \in PanelT /\ w.c \in ContextT
  BY DEF Sound, PageT
<1> DEFINE b == /\ w.p.active /\ ~w.c.hidden
                /\ \E j \in w.p.jobs : j.status \in Active
<1>2. b \in BOOLEAN
  OBVIOUS
<1>3. Scheduled(w) = [w EXCEPT !.p = [w.p EXCEPT !.timer = b]]
  BY <1>1 DEF Scheduled
<1>4. b => w.p.active
  OBVIOUS
<1> HIDE DEF b
<1> DEFINE q == [w.p EXCEPT !.timer = b]
<1>5. q \in PanelT /\ SamePanel(q, w.p) /\ q.timer = b /\ q.shown = w.p.shown
  BY <1>1, <1>2 DEF PanelT, SamePanel
<1>6. Detail(q)
  BY <1>5 DEF Sound, Shown, Detail, SamePanel
<1> HIDE DEF q
<1> DEFINE v == [w EXCEPT !.p = q]
<1>7. v.p = q /\ v.c = w.c /\ v.fs = w.fs
  BY <1>1 DEF PageT
<1>8. Own(w, js)
  BY DEF Sound
<1>9. Sound(v, js, sv, ids)
  BY <1>4, <1>5, <1>6, <1>7, <1>8, PanelChanges DEF SamePanel, Own
<1>10. QED  BY <1>3, <1>5, <1>7, <1>9 DEF Same, b, q

\* refreshJobs that asks for the list keeps it.
LEMMA ListingSound ==
  ASSUME PanelSizes, NEW w, NEW js, NEW sv, NEW ids, Sound(w, js, sv, ids),
         NEW then \in SUBSET Thens, then \cap Changes = {}, w.p.course \in Courses
  PROVE  Sound(Listing(w, then), js, sv, ids)
<1>1. "list" \notin Selection
  BY DEF Selection
<1>2. QED  BY <1>1, ReadSent DEF Listing

\* openJob keeps it, for an extraction of the panel's course.
LEMMA OpeningSound ==
  ASSUME PanelSizes, NEW w, NEW js, NEW sv, NEW ids, Sound(w, js, sv, ids),
         NEW id \in DOMAIN js, js[id].course = w.p.course, NEW reset \in BOOLEAN,
         NEW then \in SUBSET Thens, w.p.course \in Courses,
         then \cap Changes # {} => Free(w) /\ w.p.busy
  PROVE  Sound(Opening(w, id, reset, then), js, sv, ids)
<1> DEFINE u == IF reset THEN [w EXCEPT !.p.view = FirstView] ELSE w
<1>1. w \in PageT /\ w.p \in PanelT /\ js \in Seq(JobT)
  BY DEF Sound, PageT
<1>2. id \in Nat
  BY <1>1, LenProperties
<1> DEFINE q == [w.p EXCEPT !.view = FirstView]
<1>3. q \in PanelT /\ SamePanel(q, w.p) /\ q.timer = w.p.timer /\ q.shown = w.p.shown
  BY <1>1 DEF PanelT, SamePanel, PanelSizes
<1>4. Detail(q)
  BY <1>3 DEF Sound, Shown, Detail, SamePanel
<1>5. [w EXCEPT !.p.view = FirstView] = [w EXCEPT !.p = q]
  BY <1>1 DEF PageT
<1> HIDE DEF q
<1>6. Sound([w EXCEPT !.p = q], js, sv, ids) /\ Same([w EXCEPT !.p = q], w)
  <2> DEFINE v == [w EXCEPT !.p = q]
  <2>1. v.p = q /\ v.c = w.c /\ v.fs = w.fs
    BY <1>1 DEF PageT
  <2>2. Own(w, js)
    BY DEF Sound
  <2>3. Sound(v, js, sv, ids)
    BY <1>3, <1>4, <2>1, <2>2, PanelChanges DEF SamePanel, Own
  <2>4. QED  BY <1>3, <2>1, <2>3 DEF Same
<1>7. Sound(u, js, sv, ids) /\ Same(u, w)
  BY <1>5, <1>6 DEF Same, SamePanel
<1> HIDE DEF u
<1> DEFINE v == Loading(u)
<1>8. Sound(v, js, sv, ids) /\ Same(v, u)
  BY <1>7, LoadingSound
<1> HIDE DEF v
<1>9. v.p.course = w.p.course /\ v.p.busy = w.p.busy /\ (Free(w) => Free(v))
  BY <1>7, <1>8 DEF Same, SamePanel, Free
<1>10. Sound(Sent(v, Flight(v, "open", id, then), Selection), js, sv, ids)
  BY <1>2, <1>8, <1>9, ReadSent
<1>11. QED  BY <1>10 DEF Opening, u, v

\* loadObservations keeps it.
LEMMA LoadingRowsSound ==
  ASSUME PanelSizes, NEW w, NEW js, NEW sv, NEW ids, Sound(w, js, sv, ids),
         w.p.selected # NoJob, NEW then \in SUBSET Thens, w.p.course \in Courses,
         then \cap Changes # {} => Free(w) /\ w.p.busy
  PROVE  Sound(LoadingRows(w, then), js, sv, ids)
<1> DEFINE v == Loading(w)
<1>1. Sound(v, js, sv, ids) /\ Same(v, w) /\ v.p.view = w.p.view
  BY LoadingSound
<1>2. /\ w.p.selected.id \in DOMAIN js /\ w.p.selected.id \in Nat
      /\ js[w.p.selected.id].course = w.p.course
  BY DEF Sound, Own, Known, JobView
<1> HIDE DEF v
<1>3. /\ v.p.course = w.p.course /\ v.p.busy = w.p.busy /\ (Free(w) => Free(v))
      /\ v.p.selected = w.p.selected /\ v.p.view = w.p.view /\ v.c = w.c
  BY <1>1 DEF Same, SamePanel, Free
<1> DEFINE id == w.p.selected.id
<1>4. id \in Nat /\ id \in DOMAIN js /\ js[id].course = v.p.course
  BY <1>2, <1>3
<1> HIDE DEF id
<1>5. Sound(Sent(v, Flight(v, "rows", id, then), Selection), js, sv, ids)
  BY <1>1, <1>3, <1>4, ReadSent
<1>6. Flight(v, "rows", id, then) = Flight(w, "rows", w.p.selected.id, then)
  BY <1>3 DEF id, Flight
<1>7. LoadingRows(w, then) = Sent(v, Flight(w, "rows", w.p.selected.id, then), Selection)
  BY Zenon DEF LoadingRows, v
<1>8. QED  BY <1>5, <1>6, <1>7

\* A failure is reported.
LEMMA ReportedSound ==
  ASSUME NEW w, NEW js, NEW sv, NEW ids, Sound(w, js, sv, ids), NEW what \in {"list", "other"}
  PROVE  /\ Sound(Reported(w, what), js, sv, ids)
         /\ Reported(w, what).c = w.c /\ Reported(w, what).fs = w.fs
         /\ Reported(w, what).p = [w.p EXCEPT !.failed = IF @ = "list" THEN @ ELSE what]
<1>1. w \in PageT /\ w.p \in PanelT
  BY DEF Sound, PageT
<1> DEFINE q == [w.p EXCEPT !.failed = IF @ = "list" THEN @ ELSE what]
<1>2. /\ q \in PanelT /\ q.course = w.p.course /\ q.active = w.p.active /\ q.jobs = w.p.jobs
      /\ q.selected = w.p.selected /\ q.rows = w.p.rows /\ q.pending = w.p.pending
      /\ q.form = w.p.form /\ q.busy = w.p.busy /\ q.timer = w.p.timer /\ q.shown = w.p.shown
  BY <1>1 DEF PanelT
<1>3. Reported(w, what) = [w EXCEPT !.p = q]
  BY <1>1 DEF Reported
<1>4. Detail(q)
  BY <1>2 DEF Sound, Shown, Detail
<1>5. Own(w, js)
  BY DEF Sound
<1> DEFINE v == [w EXCEPT !.p = q]
<1>6. v.p = q /\ v.c = w.c /\ v.fs = w.fs
  BY <1>1 DEF PageT
<1>7. Sound(v, js, sv, ids)
  <2> HIDE DEF q
  <2>1. QED  BY <1>2, <1>4, <1>5, <1>6, PanelChanges DEF Own
<1>8. QED  BY <1>3, <1>6, <1>7

\* The end of a request: of a change, the panel was busy with no other.
LEMMA OverSound ==
  ASSUME PanelSizes, NEW w, NEW js, NEW sv, NEW ids, Sound(w, js, sv, ids),
         NEW f, NEW then \in SUBSET Thens, f.live /\ then \cap Changes # {} => Free(w)
  PROVE  Sound(Over(w, f, then), js, sv, ids)
<1> DEFINE planned == IF "schedule" \in then THEN Scheduled(w) ELSE w
<1> DEFINE settled == IF then \cap {"started", "mutated"} # {} /\ Current(planned, f)
                      THEN [planned EXCEPT !.p.busy = FALSE] ELSE planned
<1> DEFINE drawn == IF "mutated" \in then /\ Current(settled, f) THEN Rendered(settled) ELSE settled
<1>1. Over(w, f, then) = IF "reopen" \in then /\ Current(drawn, f) /\ drawn.p.selected # NoJob
                         THEN Opening(drawn, drawn.p.selected.id, FALSE, {})
                         ELSE drawn
  BY DEF Over
<1>2. Sound(planned, js, sv, ids) /\ planned.fs = w.fs
  BY ScheduledSound DEF Same
<1> HIDE DEF planned
<1>3. Sound(settled, js, sv, ids)
  <2>1. CASE then \cap {"started", "mutated"} # {} /\ Current(planned, f)
    <3> DEFINE q == [planned.p EXCEPT !.busy = FALSE]
    <3> DEFINE v == [planned EXCEPT !.p = q]
    <3>1. planned \in PageT /\ planned.p \in PanelT
      BY <1>2 DEF Sound, PageT
    <3>2. /\ q \in PanelT /\ q.course = planned.p.course /\ q.active = planned.p.active
          /\ q.jobs = planned.p.jobs /\ q.selected = planned.p.selected /\ q.rows = planned.p.rows
          /\ q.pending = planned.p.pending /\ q.form = planned.p.form /\ q.busy = FALSE
          /\ q.timer = planned.p.timer /\ q.shown = planned.p.shown
      BY <3>1 DEF PanelT
    <3>3. Detail(q)
      BY <1>2, <3>2 DEF Sound, Shown, Detail
    <3>4. Own(planned, js)
      BY <1>2 DEF Sound
    <3>5. v.p = q /\ v.c = planned.c /\ v.fs = planned.fs /\ settled = v
      BY <2>1, <3>1 DEF PageT
    <3>6. \A g \in planned.fs : ~Changing(g)
      BY <1>2, <2>1 DEF Current, Free, Changes
    <3> HIDE DEF q
    <3>7. Sound(v, js, sv, ids)
      BY <1>2, <3>2, <3>3, <3>4, <3>5, <3>6, PanelChanges DEF Own
    <3>8. QED  BY <3>5, <3>7
  <2>2. CASE ~(then \cap {"started", "mutated"} # {} /\ Current(planned, f))
    BY <1>2, <2>2
  <2>3. QED  BY <2>1, <2>2
<1> HIDE DEF settled
<1>4. Sound(drawn, js, sv, ids)
  BY <1>3, RenderedSound
<1> HIDE DEF drawn
<1>5. ASSUME Current(drawn, f), drawn.p.selected # NoJob
      PROVE  Sound(Opening(drawn, drawn.p.selected.id, FALSE, {}), js, sv, ids)
  <2>1. Own(drawn, js)
    BY <1>4 DEF Sound
  <2>2. drawn.p.course \in Courses
    BY <1>5, <2>1 DEF Own, Current
  <2>3. drawn.p.selected.id \in DOMAIN js /\ js[drawn.p.selected.id].course = drawn.p.course
    BY <1>5, <2>1 DEF Own, Known
  <2>4. QED  BY <1>4, <2>2, <2>3, OpeningSound
<1>6. QED  BY <1>1, <1>4, <1>5

-----------------------------------------------------------------------------
(* The panel that is left, refreshed or cleared.                           *)

\* suspend keeps it.
LEMMA SuspendedSound ==
  ASSUME PanelSizes, NEW w, NEW js, NEW sv, NEW ids, Sound(w, js, sv, ids)
  PROVE  /\ Sound(Suspended(w), js, sv, ids) /\ Suspended(w).c = w.c
         /\ Suspended(w).p = [w.p EXCEPT !.active = FALSE, !.timer = FALSE, !.busy = FALSE, !.asked = 0]
         /\ \A g \in Suspended(w).fs : ~g.live /\ ~g.latest
<1> DEFINE q == [w.p EXCEPT !.active = FALSE, !.timer = FALSE, !.busy = FALSE, !.asked = 0]
<1> DEFINE fs == Superseded(Expired(w.fs), Ops)
<1> DEFINE v == [w EXCEPT !.p = q, !.fs = fs]
<1>1. w \in PageT /\ w.p \in PanelT /\ w.fs \in SUBSET FlightT /\ OneLatest(w.fs)
  BY DEF Sound, PageT, Shown
<1>2. Expired(w.fs) \in SUBSET FlightT /\ Fades(Expired(w.fs), w.fs) /\ OneLive(Expired(w.fs)) /\ \A g \in Expired(w.fs) : ~g.live
  BY <1>1, ExpiredFades
<1>3. fs \in SUBSET FlightT /\ Fades(fs, Expired(w.fs)) /\ OneLive(fs) /\ \A g \in fs : g.op \in Ops => ~g.latest
  BY <1>2, SupersededFades
<1>4. Fades(fs, w.fs) /\ OneLatest(fs) /\ \A g \in fs : ~g.live /\ ~g.latest
  <2>1. Fades(fs, w.fs)
    BY <1>2, <1>3, FadesOn
  <2>2. \A g \in fs : ~g.live
    BY <1>2, <1>3 DEF Fades, Faded
  <2>3. \A g \in fs : ~g.latest
    BY <1>3 DEF FlightT
  <2>4. QED  BY <2>1, <2>2, <2>3 DEF OneLatest
<1> HIDE DEF fs
<1>5. /\ q \in PanelT /\ q.course = w.p.course /\ ~q.active /\ q.jobs = w.p.jobs
      /\ q.selected = w.p.selected /\ q.rows = w.p.rows /\ q.pending = w.p.pending
      /\ q.form = w.p.form /\ ~q.busy /\ ~q.timer /\ q.shown = w.p.shown
  BY <1>1 DEF PanelT
<1>6. v \in PageT /\ v.p = q /\ v.fs = fs /\ v.c = w.c
  BY <1>1, <1>3, <1>5 DEF PageT
<1>7. Suspended(w) = v
  BY <1>1 DEF Suspended, fs, PageT
<1> HIDE DEF q, v
<1>8. js \in Seq(JobT) /\ sv \in [Courses -> Nat] /\ ids \in Nat /\ ids <= ids /\ \A c \in Courses : sv[c] <= sv[c]
  BY DEF Sound
<1>9. v.c.course \in Courses => v.c.rev = sv[v.c.course]
  BY <1>6 DEF Sound, Once, Pending
<1>10. /\ \A j \in v.p.jobs : Known(j, v.p.course, js)
       /\ v.p.selected # NoJob => Known(v.p.selected, v.p.course, js)
       /\ v.p.rows # NoRows => v.p.selected # NoJob /\ v.p.rows.id = v.p.selected.id
       /\ Detail(v.p)
  BY <1>5, <1>6 DEF Sound, Own, Shown, Detail
<1>11. \A g \in v.fs : ~WantedRows(g)
  BY <1>4, <1>6 DEF WantedRows
<1>12. Sound(v, js, sv, ids)
  BY <1>3, <1>4, <1>5, <1>6, <1>8, <1>9, <1>10, <1>11, SoundFades
<1>13. QED  BY <1>4, <1>6, <1>7, <1>12 DEF q

\* The panel of another course, or of none, begins anew.
LEMMA AnewSound ==
  ASSUME PanelSizes, NEW w, NEW v, NEW js, NEW sv, NEW ids, Sound(w, js, sv, ids),
         v.p \in PanelT, v = [w EXCEPT !.p = v.p, !.fs = v.fs], v.fs \in SUBSET FlightT,
         Fades(v.fs, w.fs), \A g \in v.fs : ~g.live /\ (g.op \in Selection => ~g.latest),
         v.p.active => v.p.course \in Courses,
         v.p.jobs = {}, v.p.selected = NoJob, v.p.rows = NoRows, v.p.shown = NoDetail,
         ~v.p.timer, ~v.p.busy, v.p.pending = NoRequest, v.p.form > w.p.form
  PROVE  Sound(v, js, sv, ids)
<1>1. w \in PageT /\ w.p \in PanelT /\ w.fs \in SUBSET FlightT
  BY DEF Sound, PageT
<1>2. v \in PageT /\ v.c = w.c
  BY <1>1 DEF PageT
<1>3. js \in Seq(JobT) /\ sv \in [Courses -> Nat] /\ ids \in Nat /\ ids <= ids /\ \A c \in Courses : sv[c] <= sv[c]
  BY DEF Sound
<1>4. v.c.course \in Courses => v.c.rev = sv[v.c.course]
  BY <1>2 DEF Sound, Once, Pending
<1>5. OneLatest(v.fs) /\ OneLive(v.fs) /\ \A g \in v.fs : ~Changing(g)
  BY DEF OneLatest, OneLive, Changing
<1>6. Detail(v.p)
  BY DEF Detail, NoDetail
<1>7. v.p.pending.id = 0
  BY DEF NoRequest
<1>8. /\ \A j \in v.p.jobs : Known(j, v.p.course, js)
      /\ v.p.selected # NoJob => Known(v.p.selected, v.p.course, js)
      /\ v.p.rows # NoRows => v.p.selected # NoJob /\ v.p.rows.id = v.p.selected.id
  OBVIOUS
<1>9. QED  BY <1>2, <1>3, <1>4, <1>5, <1>6, <1>7, <1>8, SoundFades

\* The panel when there is no course.
LEMMA ClosedType ==
  PanelSizes => /\ ClosedPanel \in PanelT /\ NoDetail \in DetailView /\ NoRequest \in RequestView
BY DEF PanelSizes, ClosedPanel, PanelT, NoDetail, DetailView, NoRequest, RequestView, AnyCourse

\* It may be of a course and have a view and a form.
LEMMA ClosedChanged ==
  ASSUME PanelSizes, NEW course \in AnyCourse, NEW view \in Views, NEW form \in Nat
  PROVE  /\ [ClosedPanel EXCEPT !.view = view, !.form = form] \in PanelT
         /\ [ClosedPanel EXCEPT !.course = course, !.form = form] \in PanelT
<1>1. ClosedPanel \in PanelT
  BY ClosedType
<1>2. QED  BY <1>1 DEF PanelT

\* clear keeps it.
LEMMA ClearedSound ==
  ASSUME PanelSizes, NEW w, NEW js, NEW sv, NEW ids, Sound(w, js, sv, ids)
  PROVE  Sound(Cleared(w), js, sv, ids) /\ Cleared(w).c = w.c /\ ~Cleared(w).p.active
<1> DEFINE u == Suspended(w)
<1> DEFINE q == [ClosedPanel EXCEPT !.view = w.p.view, !.form = w.p.form + 1]
<1> DEFINE v == [u EXCEPT !.p = q]
<1>1. w \in PageT /\ w.p \in PanelT
  BY DEF Sound, PageT
<1>2. /\ Sound(u, js, sv, ids) /\ u.c = w.c /\ u.p.form = w.p.form
      /\ \A g \in u.fs : ~g.live /\ ~g.latest
  <2>1. [w.p EXCEPT !.active = FALSE, !.timer = FALSE, !.busy = FALSE, !.asked = 0].form = w.p.form
    BY <1>1 DEF PanelT
  <2>2. QED  BY <2>1, SuspendedSound
<1>3. Cleared(w) = v
  BY DEF Cleared
<1> HIDE DEF u
<1>4. u \in PageT /\ u.fs \in SUBSET FlightT
  BY <1>2 DEF Sound, PageT
<1>5. w.p.view \in Views /\ w.p.form \in Nat
  BY <1>1 DEF PanelT
<1>6. /\ q \in PanelT /\ ~q.active /\ q.jobs = {} /\ q.selected = NoJob /\ q.rows = NoRows
      /\ q.shown = NoDetail /\ ~q.timer /\ ~q.busy /\ q.pending = NoRequest /\ q.form > w.p.form
  <2>1. q \in PanelT
    <3>1. w.p.form + 1 \in Nat /\ NoCourse \in AnyCourse
      BY <1>5 DEF AnyCourse
    <3>2. QED  BY <1>5, <3>1, ClosedChanged
  <2>2. QED  BY <1>5, <2>1 DEF ClosedPanel
<1>7. v.p = q /\ v.fs = u.fs /\ v.c = u.c /\ v = [u EXCEPT !.p = v.p, !.fs = v.fs]
  BY <1>4 DEF PageT
<1>8. Fades(u.fs, u.fs)
  BY DEF Fades, Faded
<1> HIDE DEF q, v
<1>9. Sound(v, js, sv, ids)
  BY <1>2, <1>4, <1>6, <1>7, <1>8, AnewSound
<1>10. QED  BY <1>2, <1>3, <1>6, <1>7, <1>9

\* refresh keeps it.
LEMMA RefreshedSound ==
  ASSUME PanelSizes, NEW w, NEW js, NEW sv, NEW ids, Sound(w, js, sv, ids)
  PROVE  Sound(Refreshed(w), js, sv, ids)
<1> DEFINE changed == w.p.course # w.c.course
<1> DEFINE old == [w.p EXCEPT !.timer = FALSE, !.busy = FALSE, !.asked = 0, !.failed = "no"]
<1> DEFINE p == IF changed THEN [ClosedPanel EXCEPT !.course = w.c.course, !.form = w.p.form + 1]
                ELSE old
<1> DEFINE q == [p EXCEPT !.active = TRUE, !.since = w.c.rev]
<1> DEFINE fs == Superseded(Expired(w.fs), Selection)
<1> DEFINE v == [w EXCEPT !.p = q, !.fs = fs]
<1> DEFINE then == IF changed THEN {} ELSE {"reopen"}
<1>1. Refreshed(w) = IF w.c.course = NoCourse THEN Cleared(w) ELSE Listing(v, then)
  BY DEF Refreshed
<1>2. w \in PageT /\ w.p \in PanelT /\ w.fs \in SUBSET FlightT /\ OneLatest(w.fs) /\ w.c \in ContextT
  BY DEF Sound, PageT, Shown
<1>3. Expired(w.fs) \in SUBSET FlightT /\ Fades(Expired(w.fs), w.fs) /\ OneLive(Expired(w.fs)) /\ \A g \in Expired(w.fs) : ~g.live
  BY <1>2, ExpiredFades
<1>4. fs \in SUBSET FlightT /\ Fades(fs, Expired(w.fs)) /\ OneLive(fs) /\ \A g \in fs : g.op \in Selection => ~g.latest
  BY <1>3, SupersededFades
<1>5. Fades(fs, w.fs) /\ OneLatest(fs) /\ \A g \in fs : ~g.live /\ (g.op \in Selection => ~g.latest)
  <2>1. Fades(fs, w.fs)
    BY <1>3, <1>4, FadesOn
  <2>2. \A g \in fs : ~g.live
    BY <1>3, <1>4 DEF Fades, Faded
  <2>3. QED  BY <1>4, <2>1, <2>2 DEF OneLatest
<1> HIDE DEF fs
<1>6. ASSUME w.c.course # NoCourse PROVE Sound(v, js, sv, ids) /\ v.p.course \in Courses
  <2>1. w.c.course \in Courses /\ w.c.rev \in Nat
    BY <1>2, <1>6 DEF ContextT, AnyCourse
  <2>2. CASE changed
    <3>1. p \in PanelT
      <4>1. w.p.form + 1 \in Nat /\ w.c.course \in AnyCourse /\ w.p.view \in Views
        BY <1>2, <2>1 DEF PanelT, AnyCourse
      <4>2. QED  BY <2>2, <4>1, ClosedChanged
    <3>2. /\ p.course = w.c.course /\ p.jobs = {} /\ p.selected = NoJob /\ p.rows = NoRows
          /\ p.shown = NoDetail /\ ~p.timer /\ ~p.busy /\ p.pending = NoRequest
          /\ p.form > w.p.form
      BY <1>2, <2>2 DEF ClosedPanel, PanelT
    <3> HIDE DEF p
    <3>3. /\ q \in PanelT /\ q.course \in Courses /\ q.jobs = {} /\ q.selected = NoJob /\ q.rows = NoRows
          /\ q.shown = NoDetail /\ ~q.timer /\ ~q.busy /\ q.pending = NoRequest
          /\ q.form > w.p.form
      BY <2>1, <3>1, <3>2 DEF PanelT
    <3> HIDE DEF q
    <3>4. v.p = q /\ v.fs = fs /\ v = [w EXCEPT !.p = v.p, !.fs = v.fs]
      BY <1>2 DEF PageT
    <3> HIDE DEF v
    <3>5. Sound(v, js, sv, ids)
      BY <1>4, <1>5, <3>3, <3>4, AnewSound
    <3>6. QED  BY <3>3, <3>4, <3>5
  <2>3. CASE ~changed
    <3>1. /\ old \in PanelT /\ old.course = w.p.course /\ old.jobs = w.p.jobs
          /\ old.selected = w.p.selected /\ old.rows = w.p.rows /\ old.pending = w.p.pending
          /\ old.form = w.p.form /\ ~old.busy /\ ~old.timer /\ old.shown = w.p.shown
      BY <1>2 DEF PanelT
    <3>2. p = old /\ w.p.course = w.c.course
      BY <2>3
    <3> HIDE DEF old, p
    <3>3. /\ q \in PanelT /\ q.course = w.p.course /\ q.active /\ q.jobs = w.p.jobs
          /\ q.selected = w.p.selected /\ q.rows = w.p.rows /\ q.pending = w.p.pending
          /\ q.form = w.p.form /\ ~q.busy /\ ~q.timer /\ q.shown = w.p.shown
      BY <2>1, <3>1, <3>2 DEF PanelT
    <3> HIDE DEF q
    <3>4. v.p = q /\ v.fs = fs /\ v.c = w.c /\ v \in PageT
      BY <1>2, <1>4, <3>3 DEF PageT
    <3> HIDE DEF v
    <3>5. js \in Seq(JobT) /\ sv \in [Courses -> Nat] /\ ids \in Nat /\ ids <= ids /\ \A c \in Courses : sv[c] <= sv[c]
      BY DEF Sound
    <3>6. v.c.course \in Courses => v.c.rev = sv[v.c.course]
      BY <3>4 DEF Sound, Once, Pending
    <3>7. /\ \A j \in v.p.jobs : Known(j, v.p.course, js)
          /\ v.p.selected # NoJob => Known(v.p.selected, v.p.course, js)
          /\ v.p.rows # NoRows => v.p.selected # NoJob /\ v.p.rows.id = v.p.selected.id
          /\ Detail(v.p)
      BY <3>3, <3>4 DEF Sound, Own, Shown, Detail
    <3>8. (\A g \in v.fs : ~WantedRows(g)) /\ (\A g \in v.fs : ~g.live) /\ (\A g \in v.fs : ~Changing(g))
      BY <1>5, <3>4 DEF WantedRows, Selection, Changing
    <3>9. Sound(v, js, sv, ids)
      BY <1>4, <1>5, <2>1, <3>2, <3>3, <3>4, <3>5, <3>6, <3>7, <3>8, SoundFades
    <3>10. QED  BY <2>1, <3>2, <3>3, <3>4, <3>9
  <2>4. QED  BY <2>2, <2>3
<1> HIDE DEF q, v, changed
<1>7. then \in SUBSET Thens /\ then \cap Changes = {}
  BY DEF Thens, Changes
<1> HIDE DEF then
<1>8. QED  BY <1>1, <1>6, <1>7, ClearedSound, ListingSound

-----------------------------------------------------------------------------
(* Changes are sent.                                                       *)

\* The context changes, or drafts are saved.
LEMMA ContextMoves ==
  ASSUME NEW w, NEW v, NEW js, NEW sv, NEW tv, NEW ids, NEW more \in Nat, ids <= more,
         Sound(w, js, sv, ids), v.c \in ContextT, v = [w EXCEPT !.c = v.c],
         tv \in [Courses -> Nat], \A c \in Courses : sv[c] <= tv[c],
         v.c.course \in Courses => v.c.rev = tv[v.c.course]
  PROVE  Sound(v, js, tv, more) /\ v.p = w.p /\ v.fs = w.fs
<1>1. w \in PageT /\ js \in Seq(JobT) /\ sv \in [Courses -> Nat] /\ ids \in Nat
  BY DEF Sound
<1>2. Own(w, js) /\ Shown(w) /\ OneChange(w) /\ Once(w, js, sv, ids)
  BY DEF Sound
<1>3. v \in PageT /\ v.fs = w.fs /\ v.p = w.p
  BY <1>1 DEF PageT
<1>4. Fades(v.fs, w.fs)
  BY <1>3 DEF Fades, Faded
<1>5. OneLatest(v.fs) /\ OneLive(v.fs)
  BY <1>2, <1>3 DEF Shown, OneChange
<1>6. /\ v.p.active => v.p.course \in Courses
      /\ ~v.p.active => ~v.p.timer /\ ~v.p.busy
      /\ \A j \in v.p.jobs : Known(j, v.p.course, js)
      /\ v.p.selected # NoJob => Known(v.p.selected, v.p.course, js)
      /\ \A f \in v.fs : v.p.active /\ Changing(f) => v.p.busy
  BY <1>2, <1>3 DEF Own, OneChange
<1>7. (v.p.rows # NoRows => v.p.selected # NoJob /\ v.p.rows.id = v.p.selected.id) /\ Detail(v.p)
  BY <1>2, <1>3 DEF Shown
<1>8. Sound(v, js, tv, more)
  BY <1>1, <1>3, <1>4, <1>5, <1>6, <1>7, SoundFades, Zenon
<1>9. QED  BY <1>3, <1>8

\* What a panel keeps when it begins to be busy.
Beginning(q, p) ==
  /\ q.course = p.course /\ q.active = p.active /\ q.jobs = p.jobs /\ q.selected = p.selected
  /\ q.rows = p.rows /\ q.shown = p.shown /\ q.form = p.form /\ q.timer = p.timer /\ q.busy

\* The pending request is kept, or is one of a new number for what is asked
\* for now.
LEMMA PendingSound ==
  ASSUME NEW w, NEW v, NEW js, NEW sv, NEW ids, NEW more \in Nat, NEW r \in RequestView,
         ids <= more, Sound(w, js, sv, ids), w.p.active, ~w.p.busy, w.p.course = w.c.course,
         r.course = w.p.course, r.rev = w.c.rev, r.form = w.p.form, r.id # 0, r.id <= more,
         \/ r = w.p.pending
         \/ r.id > ids /\ (w.p.pending.id = 0 \/ Key(w.p.pending) # Key(r)),
         v \in PageT, v.fs = w.fs, v.c = w.c, Beginning(v.p, w.p), v.p.pending = r
  PROVE  Sound(v, js, sv, more) /\ Free(w)
<1>1. w \in PageT /\ w.p \in PanelT /\ js \in Seq(JobT) /\ sv \in [Courses -> Nat] /\ ids \in Nat
  BY DEF Sound, PageT
<1>2. Own(w, js) /\ Shown(w) /\ OneChange(w) /\ Once(w, js, sv, ids)
  BY DEF Sound
<1>3. /\ v \in PageT /\ v.fs = w.fs /\ v.c = w.c
      /\ v.p.course = w.p.course /\ v.p.active = w.p.active /\ v.p.jobs = w.p.jobs
      /\ v.p.selected = w.p.selected /\ v.p.rows = w.p.rows /\ v.p.shown = w.p.shown
      /\ v.p.form = w.p.form /\ v.p.timer = w.p.timer /\ v.p.pending = r /\ v.p.busy
  BY DEF Beginning
<1>4. Own(v, js)
  BY <1>2, <1>3 DEF Own
<1>5. Shown(v)
  BY <1>2, <1>3 DEF Shown, Detail
<1>6. OneChange(v)
  BY <1>2, <1>3 DEF OneChange
<1>7. w.p.course \in Courses /\ w.c.rev = sv[w.p.course] /\ sv[w.p.course] \in Nat /\ w.p.form \in Nat
  BY <1>1, <1>2 DEF Own, Once, Pending, PanelT
<1>8. Free(w)
  BY <1>2 DEF OneChange, Free
<1>9. \A f \in Starts(w) : ~f.live
  BY <1>2, <1>8 DEF OneChange, Free, Changing, Starts
<1>10. Starts(v) = Starts(w)
  BY <1>3 DEF Starts
<1>11. /\ \A f \in Starts(w) : f.id \in Nat
       /\ \A i \in DOMAIN js : js[i].req \in Nat
       /\ w.p.pending.id \in Nat /\ r.id \in Nat
  BY <1>1, JobFields DEF PageT, PanelT, RequestView, FlightT, Starts
<1>12. Pending(v, sv, more)
  BY <1>2, <1>3, <1>7 DEF Once, Pending
<1>13. ASSUME NEW k, NEW id \in Nat, Dated(k, id, w.p, sv, ids)
       PROVE  /\ Dated(k, id, v.p, sv, more)
              /\ OfNow(k, v.p, sv) /\ id = w.p.pending.id /\ id # 0 => id = r.id
  <2>1. k.form = w.p.form => k.course = w.p.course
    BY <1>13 DEF Dated
  <2>2. id <= ids /\ (id = w.p.pending.id => k = Key(w.p.pending))
    BY <1>13 DEF Dated
  <2>3. id = r.id => r = w.p.pending
    BY <1>1, <1>11, <2>2
  <2>4. Dated(k, id, v.p, sv, more)
    BY <1>1, <1>3, <1>13, <2>2, <2>3 DEF Dated
  <2>5. ASSUME OfNow(k, v.p, sv), id = w.p.pending.id, id # 0 PROVE id = r.id
    <3>1. k = Key(w.p.pending) /\ k.form = w.p.form /\ k.rev = sv[k.course]
      BY <1>3, <2>2, <2>5 DEF OfNow
    <3>2. k.course = w.p.course /\ k.rev = w.c.rev
      BY <1>7, <2>1, <3>1
    <3>3. Key(w.p.pending) = Key(r)
      BY <3>1, <3>2 DEF Key
    <3>4. QED  BY <2>5, <3>3
  <2>6. QED  BY <2>4, <2>5
<1>14. ASSUME NEW f \in Starts(v)
       PROVE  /\ f.id # 0 /\ Dated(KeyOf(f), f.id, v.p, sv, more)
              /\ OfNow(KeyOf(f), v.p, sv) => f.id = v.p.pending.id \/ Settled(f.id, js)
              /\ v.p.active /\ f.live => v.p.pending.id \in {0, f.id}
  <2>1. f \in Starts(w) /\ ~f.live
    BY <1>9, <1>10
  <2>2. /\ f.id # 0 /\ Dated(KeyOf(f), f.id, w.p, sv, ids)
        /\ OfNow(KeyOf(f), w.p, sv) => f.id = w.p.pending.id \/ Settled(f.id, js)
    BY <1>2, <2>1 DEF Once
  <2>3. OfNow(KeyOf(f), v.p, sv) => OfNow(KeyOf(f), w.p, sv)
    BY <1>3 DEF OfNow
  <2>4. QED  BY <1>3, <1>11, <1>13, <2>1, <2>2, <2>3
<1>15. ASSUME NEW i \in DOMAIN js
       PROVE  /\ Dated(Key(js[i]), js[i].req, v.p, sv, more)
              /\ OfNow(Key(js[i]), v.p, sv) => js[i].req = v.p.pending.id \/ js[i].told
  <2>1. /\ Dated(Key(js[i]), js[i].req, w.p, sv, ids)
        /\ OfNow(Key(js[i]), w.p, sv) => js[i].req = w.p.pending.id \/ js[i].told
    BY <1>2 DEF Once
  <2>2. OfNow(Key(js[i]), v.p, sv) => OfNow(Key(js[i]), w.p, sv)
    BY <1>3 DEF OfNow
  <2>3. js[i].req # 0
    BY <1>1, JobFields
  <2>4. QED  BY <1>3, <1>11, <1>13, <2>1, <2>2, <2>3
<1>16. Once(v, js, sv, more)
  BY <1>2, <1>10, <1>12, <1>14, <1>15 DEF Once
<1>17. ASSUME NoCancel PROVE Informed(v, js)
  BY <1>3, <1>17 DEF Sound, Informed
<1>18. QED  BY <1>1, <1>3, <1>4, <1>5, <1>6, <1>8, <1>16, <1>17 DEF Sound

\* A start of what is pending is sent.
LEMMA StartAdded ==
  ASSUME NEW w, NEW f, NEW js, NEW sv, NEW ids, Sound(w, js, sv, ids),
         f \in FlightT, f.op = "start", f.pc = "sent", f.then \cap Changes # {},
         w.p.course \in Courses, w.c.course = w.p.course, w.p.busy, Free(w),
         f.id = w.p.pending.id, f.id # 0, KeyOf(f) = Key(w.p.pending), f.of = w.p.course, f.rev = w.c.rev
  PROVE  Sound([w EXCEPT !.fs = @ \cup {f}], js, sv, ids)
<1> DEFINE v == [w EXCEPT !.fs = @ \cup {f}]
<1>1. w \in PageT /\ js \in Seq(JobT) /\ sv \in [Courses -> Nat] /\ ids \in Nat
  BY DEF Sound
<1>2. Own(w, js) /\ Shown(w) /\ OneChange(w) /\ Once(w, js, sv, ids)
  BY DEF Sound
<1>3. v \in PageT /\ v.fs = w.fs \cup {f} /\ v.c = w.c /\ v.p = w.p
  BY <1>1 DEF PageT
<1> HIDE DEF v
<1>4. FlightOwn(f, js)
  BY DEF FlightOwn, OfOneJob
<1>5. Own(v, js)
  BY <1>2, <1>3, <1>4 DEF Own
<1>6. Shown(v)
  BY <1>2, <1>3 DEF Shown, OneLatest, Selection
<1>7. OneChange(v)
  BY <1>2, <1>3 DEF OneChange, OneLive, Free
<1>8. Starts(v) = Starts(w) \cup {f}
  BY <1>3 DEF Starts
<1>9. f.form = w.p.form /\ f.rev = sv[f.of] /\ f.form \in Nat /\ sv[f.of] \in Nat /\ w.p.pending.id <= ids
  BY <1>1, <1>2 DEF Once, Pending, KeyOf, Key, FlightT
<1>10. OfNow(KeyOf(f), w.p, sv) /\ Dated(KeyOf(f), f.id, w.p, sv, ids)
  BY <1>9 DEF OfNow, Dated, KeyOf
<1>11. ASSUME NEW g \in Starts(w)
       PROVE  /\ KeyOf(f) = KeyOf(g) => f.id = g.id \/ Made(g.id, js)
              /\ f.id = g.id => KeyOf(f) = KeyOf(g)
  <2>1. /\ Dated(KeyOf(g), g.id, w.p, sv, ids)
        /\ OfNow(KeyOf(g), w.p, sv) => g.id = w.p.pending.id \/ Settled(g.id, js)
    BY <1>2 DEF Once
  <2>2. f.id = g.id => KeyOf(f) = KeyOf(g)
    BY <2>1 DEF Dated
  <2>3. QED  BY <1>10, <2>1, <2>2 DEF Settled, Made
<1>12. ASSUME NEW i \in DOMAIN js
       PROVE  /\ KeyOf(f) = Key(js[i]) => f.id = js[i].req \/ js[i].told
              /\ f.id = js[i].req => KeyOf(f) = Key(js[i])
  <2>1. /\ Dated(Key(js[i]), js[i].req, w.p, sv, ids)
        /\ OfNow(Key(js[i]), w.p, sv) => js[i].req = w.p.pending.id \/ js[i].told
    BY <1>2 DEF Once
  <2>2. f.id = js[i].req => KeyOf(f) = Key(js[i])
    BY <2>1 DEF Dated
  <2>3. QED  BY <1>10, <2>1, <2>2
<1>13. Pending(v, sv, ids)
  BY <1>2, <1>3 DEF Once, Pending
<1>14. \A g \in Starts(w) :
       /\ g.id # 0 /\ Dated(KeyOf(g), g.id, v.p, sv, ids)
       /\ OfNow(KeyOf(g), v.p, sv) => g.id = v.p.pending.id \/ Settled(g.id, js)
       /\ v.p.active /\ g.live => v.p.pending.id \in {0, g.id}
       /\ \A h \in Starts(w) :
            KeyOf(g) = KeyOf(h) => g.id = h.id \/ Made(g.id, js) \/ Made(h.id, js)
       /\ \A i \in DOMAIN js :
            /\ KeyOf(g) = Key(js[i]) => g.id = js[i].req \/ js[i].told \/ Made(g.id, js)
            /\ g.id = js[i].req => KeyOf(g) = Key(js[i])
       /\ \A h \in Starts(w) : g.id = h.id => KeyOf(g) = KeyOf(h)
  BY <1>2, <1>3 DEF Once
<1>15. \A i \in DOMAIN js :
       /\ Dated(Key(js[i]), js[i].req, v.p, sv, ids)
       /\ OfNow(Key(js[i]), v.p, sv) => js[i].req = v.p.pending.id \/ js[i].told
       /\ \A k \in DOMAIN js :
            /\ js[i].req = js[k].req => i = k
            /\ i < k /\ Key(js[i]) = Key(js[k]) => js[i].told
  BY <1>2, <1>3 DEF Once
<1>16. /\ f.id # 0 /\ Dated(KeyOf(f), f.id, v.p, sv, ids)
       /\ OfNow(KeyOf(f), v.p, sv) => f.id = v.p.pending.id \/ Settled(f.id, js)
       /\ v.p.active /\ f.live => v.p.pending.id \in {0, f.id}
  BY <1>3, <1>10
<1>17. Once(v, js, sv, ids)
  BY <1>8, <1>11, <1>12, <1>13, <1>14, <1>15, <1>16 DEF Once
<1>18. ASSUME NoCancel PROVE Informed(v, js)
  <2>1. Informed(w, js)
    BY <1>18 DEF Sound
  <2>2. ~WantedRows(f) /\ f.op # "review" /\ f.op # "cancel"
    BY DEF WantedRows
  <2>3. QED  BY <1>3, <2>1, <2>2 DEF Informed
<1>19. Sound(v, js, sv, ids)
  BY <1>1, <1>3, <1>5, <1>6, <1>7, <1>17, <1>18 DEF Sound
<1>20. QED  BY <1>19 DEF v

\* A cancellation or a review of the selected job is sent; a review of rows
\* that are there.
LEMMA MutationAdded ==
  ASSUME NEW w, NEW f, NEW js, NEW sv, NEW ids, Sound(w, js, sv, ids),
         f \in FlightT, f.op \in {"cancel", "review"}, f.pc = "sent", f.then \cap Changes # {},
         w.p.course \in Courses, w.p.busy, Free(w), w.p.selected # NoJob,
         f.id = w.p.selected.id, f.of = w.p.course,
         f.op = "review" => w.p.rows # NoRows /\ f.rr = w.p.selected.rr /\ f.base = w.p.rows.rr,
         NoCancel => f.op = "review"
  PROVE  Sound([w EXCEPT !.fs = @ \cup {f}], js, sv, ids)
<1> DEFINE v == [w EXCEPT !.fs = @ \cup {f}]
<1>1. w \in PageT /\ js \in Seq(JobT) /\ sv \in [Courses -> Nat] /\ ids \in Nat
  BY DEF Sound
<1>2. Own(w, js) /\ Shown(w) /\ OneChange(w) /\ Once(w, js, sv, ids)
  BY DEF Sound
<1>3. v \in PageT /\ v.fs = w.fs \cup {f} /\ v.c = w.c /\ v.p = w.p
  BY <1>1 DEF PageT
<1> HIDE DEF v
<1>4. Known(w.p.selected, w.p.course, js)
  BY <1>2 DEF Own
<1>5. FlightOwn(f, js)
  BY <1>4 DEF FlightOwn, OfOneJob, Known
<1>6. Own(v, js)
  BY <1>2, <1>3, <1>5 DEF Own
<1>7. Shown(v)
  BY <1>2, <1>3 DEF Shown, OneLatest, Selection
<1>8. OneChange(v)
  BY <1>2, <1>3 DEF OneChange, OneLive, Free
<1>9. Starts(v) = Starts(w)
  BY <1>3 DEF Starts
<1>10. Once(v, js, sv, ids)
  BY <1>2, <1>3, <1>9 DEF Once, Pending
<1>11. ASSUME NoCancel PROVE Informed(v, js)
  <2>1. Informed(w, js)
    BY <1>11 DEF Sound
  <2>2. f.op = "review" /\ ~WantedRows(f) /\ w.p.rows.id = f.id
    BY <1>2, <1>11 DEF WantedRows, Shown
  <2>3. /\ f.rr <= js[f.id].rr /\ f.base <= js[f.id].rr
        /\ Sees(f.id, f.rr, f.base, js)
    BY <1>4, <2>1, <2>2 DEF Known, Informed
  <2>4. ASSUME NEW g \in w.fs, WantedRows(g), NEW r \in g.seen, f.id = g.id PROVE f.base <= r.rr
    BY <2>1, <2>2, <2>4 DEF Informed
  <2>5. w.p.rows # NoRows =>
          w.p.rows.rr <= js[w.p.rows.id].rr /\ Sees(w.p.rows.id, w.p.selected.rr, w.p.rows.rr, js)
    BY <2>1 DEF Informed
  <2>6. \A h \in v.fs : h.op # "cancel"
    BY <1>3, <2>1, <2>2 DEF Informed
  <2>7. f.base <= f.base
    BY DEF FlightT
  <2>8. \A h \in v.fs : h.op = "review" =>
          /\ h.rr <= js[h.id].rr /\ h.base <= js[h.id].rr
          /\ h.pc = "sent" => Sees(h.id, h.rr, h.base, js)
          /\ h.pc = "answered" => \A j \in h.seen : Sees(h.id, j.rr, h.base, js)
          /\ h.live /\ v.p.rows # NoRows /\ v.p.rows.id = h.id => h.base <= v.p.rows.rr
    BY <1>3, <2>1, <2>2, <2>3, <2>7 DEF Informed
  <2>9. \A g \in v.fs : WantedRows(g) => \A r \in g.seen :
       /\ v.p.rows # NoRows /\ v.p.rows.id = g.id => v.p.rows.rr <= r.rr
       /\ v.p.selected # NoJob /\ v.p.selected.id = g.id => v.p.selected.rr <= r.rr
       /\ \A h \in v.fs : h.op = "review" /\ h.live /\ h.id = g.id => h.base <= r.rr
    BY <1>3, <2>1, <2>2, <2>4 DEF Informed
  <2>10. QED  BY <1>3, <2>5, <2>6, <2>8, <2>9 DEF Informed
<1>12. Sound(v, js, sv, ids)
  BY <1>1, <1>3, <1>6, <1>7, <1>8, <1>10, <1>11 DEF Sound
<1>13. QED  BY <1>12 DEF v

-----------------------------------------------------------------------------
(* The steps of the author.                                                *)

\* How often each bounded thing has happened.
CountT ==
  [ids: Nat, clicks: Nat, cancels: Nat, forms: Nat, edits: Nat, saves: Nat, publishes: Nat,
   visits: Nat, elsewhere: Nat, faults: Nat]
\* The invariant: the page as it is and the server as it is, the polling apart.
SafeInv == Sound(Page, jobs, saved, count.ids) /\ count \in CountT

\* The bounds that steps count.
Fields ==
  {"clicks", "cancels", "forms", "edits", "saves", "publishes", "visits", "elsewhere", "faults"}

\* The page is what a step makes of it.
LEMMA TurnIs == ASSUME NEW w \in PageT, Turn(w) PROVE Page' = w
BY DEF PageT, Turn, Page

\* Counting a step keeps the other counters.
LEMMA Bumped ==
  ASSUME count \in CountT, NEW field \in Fields, Bump(field)
  PROVE  count' \in CountT /\ count'.ids = count.ids
BY DEF CountT, Fields, Bump

\* A step that leaves the server alone.
LEMMA TurnSound ==
  ASSUME SafeInv, NEW w, Sound(w, jobs, saved, count.ids), Turn(w), UNCHANGED <<jobs, saved>>,
         count' \in CountT, count'.ids = count.ids
  PROVE  SafeInv'
<1>1. Page' = w
  BY TurnIs DEF Sound
<1>2. QED  BY <1>1 DEF SafeInv

\* contextChanged keeps it.
LEMMA ContextChangedSound ==
  ASSUME PanelSizes, NEW w, NEW js, NEW sv, NEW ids, Sound(w, js, sv, ids)
  PROVE  Sound(ContextChanged(w), js, sv, ids)
BY RenderedSound DEF ContextChanged

\* What the invariant says of the page that there is.
LEMMA PageIs ==
  ASSUME SafeInv
  PROVE  /\ Page \in PageT /\ Page.p = panel /\ Page.fs = flights /\ Page.c = ctx
         /\ panel \in PanelT /\ ctx \in ContextT /\ flights \in SUBSET FlightT
         /\ saved \in [Courses -> Nat] /\ \A c \in Courses : saved[c] <= saved[c]
         /\ count \in CountT /\ count.ids \in Nat /\ count.ids <= count.ids
         /\ jobs \in Seq(JobT)
         /\ ctx.course \in Courses => ctx.rev = saved[ctx.course]
         /\ panel.active => panel.course \in Courses
         /\ panel.timer => panel.active
         /\ panel.selected # NoJob => Known(panel.selected, panel.course, jobs)
         /\ \A j \in panel.jobs : Known(j, panel.course, jobs)
<1>1. Page.p = panel /\ Page.fs = flights /\ Page.c = ctx
  BY DEF Page
<1>2. Page \in PageT /\ jobs \in Seq(JobT) /\ saved \in [Courses -> Nat] /\ count \in CountT /\ count.ids \in Nat
  BY DEF SafeInv, Sound
<1>3. panel \in PanelT /\ ctx \in ContextT /\ flights \in SUBSET FlightT
  BY <1>1, <1>2 DEF PageT
<1>4. \A c \in Courses : saved[c] <= saved[c]
  BY <1>2
<1>5. Own(Page, jobs) /\ Once(Page, jobs, saved, count.ids)
  BY DEF SafeInv, Sound
<1>6. ctx.course \in Courses => ctx.rev = saved[ctx.course]
  BY <1>1, <1>5 DEF Once, Pending
<1>7. QED  BY <1>1, <1>2, <1>3, <1>4, <1>5, <1>6 DEF Own

\* The author comes to the extraction panel, or leaves it.
LEMMA VisitKeeps == ASSUME PanelSizes, SafeInv, NEW videos \in BOOLEAN, Visit(videos) PROVE SafeInv'
<1> DEFINE u == Suspended(Page)
<1> DEFINE w == [u EXCEPT !.c.videos = videos]
<1>1. Sound(u, jobs, saved, count.ids) /\ u.c = ctx
  BY SuspendedSound, PageIs DEF SafeInv
<1>2. Turn(IF videos THEN Refreshed(w) ELSE w) /\ UNCHANGED <<jobs, saved>> /\ Bump("visits")
  BY DEF Visit
<1> HIDE DEF u
<1>3. Sound(w, jobs, saved, count.ids)
  <2>1. u \in PageT
    BY <1>1 DEF Sound
  <2>2. w.c \in ContextT /\ w = [u EXCEPT !.c = w.c] /\ w.c.course = ctx.course /\ w.c.rev = ctx.rev
    BY <1>1, <2>1, PageIs DEF PageT, ContextT
  <2>3. w.c.course \in Courses => w.c.rev = saved[w.c.course]
    BY <2>2, PageIs
  <2> HIDE DEF w
  <2>4. QED  BY <1>1, <2>2, <2>3, PageIs, ContextMoves
<1> HIDE DEF w
<1>4. Sound(Refreshed(w), jobs, saved, count.ids)
  BY <1>3, RefreshedSound
<1>5. count' \in CountT /\ count'.ids = count.ids
  BY <1>2, Bumped, PageIs DEF Fields
<1>6. QED  BY <1>2, <1>3, <1>4, <1>5, TurnSound

\* The author refreshes the panel.
LEMMA RefreshClickKeeps == ASSUME PanelSizes, SafeInv, RefreshClick PROVE SafeInv'
<1>1. Sound(Refreshed(Page), jobs, saved, count.ids)
  BY RefreshedSound DEF SafeInv
<1>2. count' \in CountT /\ count'.ids = count.ids
  BY Bumped, PageIs DEF Fields, RefreshClick
<1>3. QED  BY <1>1, <1>2, TurnSound DEF RefreshClick

\* Another course is opened.
LEMMA OpenCourseKeeps == ASSUME PanelSizes, SafeInv, NEW c \in Courses, OpenCourse(c) PROVE SafeInv'
<1> DEFINE w == [Page EXCEPT !.c.course = c, !.c.rev = saved[c], !.c.dirty = FALSE]
<1>1. /\ w.c \in ContextT /\ w = [Page EXCEPT !.c = w.c] /\ w.c.course = c /\ w.c.rev = saved[c]
  BY PageIs DEF PageT, ContextT, AnyCourse
<1>2. Turn(ContextChanged(w)) /\ UNCHANGED <<jobs, saved>> /\ Bump("visits")
  BY DEF OpenCourse
<1> HIDE DEF w
<1>3. Sound(w, jobs, saved, count.ids)
  BY <1>1, PageIs, ContextMoves DEF SafeInv
<1>4. Sound(ContextChanged(w), jobs, saved, count.ids)
  BY <1>3, ContextChangedSound
<1>5. count' \in CountT /\ count'.ids = count.ids
  BY <1>2, Bumped, PageIs DEF Fields
<1>6. QED  BY <1>2, <1>4, <1>5, TurnSound

\* The author signs out.
LEMMA SignOutKeeps == ASSUME PanelSizes, SafeInv, SignOut PROVE SafeInv'
<1> DEFINE u == Cleared(Page)
<1> DEFINE w == [u EXCEPT !.c.course = NoCourse, !.c.dirty = FALSE, !.c.videos = FALSE]
<1>1. Sound(u, jobs, saved, count.ids) /\ u.c = ctx
  BY ClearedSound, PageIs DEF SafeInv
<1>2. Turn(w) /\ UNCHANGED <<jobs, saved>> /\ Bump("visits")
  BY DEF SignOut
<1> HIDE DEF u
<1>3. u \in PageT
  BY <1>1 DEF Sound
<1>4. w.c \in ContextT /\ w = [u EXCEPT !.c = w.c] /\ w.c.course \notin Courses
  BY <1>1, <1>3, PageIs DEF PageT, ContextT, AnyCourse, PanelSizes
<1> HIDE DEF w
<1>5. Sound(w, jobs, saved, count.ids)
  BY <1>1, <1>4, PageIs, ContextMoves
<1>6. count' \in CountT /\ count'.ids = count.ids
  BY <1>2, Bumped, PageIs DEF Fields
<1>7. QED  BY <1>2, <1>5, <1>6, TurnSound

\* The timer is stopped.
LEMMA TimerStops ==
  ASSUME NEW w, NEW js, NEW sv, NEW ids, Sound(w, js, sv, ids)
  PROVE  Sound([w EXCEPT !.p.timer = FALSE], js, sv, ids)
<1>1. w \in PageT /\ w.p \in PanelT
  BY DEF Sound, PageT
<1> DEFINE q == [w.p EXCEPT !.timer = FALSE]
<1>2. q \in PanelT /\ SamePanel(q, w.p) /\ q.timer = FALSE /\ q.shown = w.p.shown
  BY <1>1 DEF PanelT, SamePanel
<1>3. Detail(q)
  BY <1>2 DEF Sound, Shown, Detail, SamePanel
<1>4. [w EXCEPT !.p.timer = FALSE] = [w EXCEPT !.p = q]
  BY <1>1 DEF PageT
<1> HIDE DEF q
<1> DEFINE v == [w EXCEPT !.p = q]
<1>5. v.p = q /\ v.c = w.c /\ v.fs = w.fs
  BY <1>1 DEF PageT
<1>6. Own(w, js)
  BY DEF Sound
<1>7. Sound(v, js, sv, ids)
  BY <1>2, <1>3, <1>5, <1>6, PanelChanges DEF SamePanel, Own
<1>8. QED  BY <1>4, <1>7

\* The browser's tab is hidden.
LEMMA HideKeeps == ASSUME PanelSizes, SafeInv, Hide PROVE SafeInv'
<1> DEFINE u == [Page EXCEPT !.p.timer = FALSE]
<1> DEFINE w == [Page EXCEPT !.c.hidden = TRUE, !.p.timer = FALSE]
<1>1. Sound(u, jobs, saved, count.ids)
  BY TimerStops DEF SafeInv
<1>2. u.c = ctx
  BY PageIs DEF PageT
<1>3. w = [u EXCEPT !.c = [ctx EXCEPT !.hidden = TRUE]]
  BY PageIs DEF PageT
<1>4. Turn(w) /\ UNCHANGED <<jobs, saved>> /\ Bump("visits")
  BY DEF Hide
<1>5. u \in PageT
  BY <1>1 DEF Sound
<1> HIDE DEF u, w
<1>6. w.c \in ContextT /\ w = [u EXCEPT !.c = w.c] /\ w.c.course = ctx.course /\ w.c.rev = ctx.rev
  BY <1>2, <1>3, <1>5, PageIs DEF PageT, ContextT
<1>7. Sound(w, jobs, saved, count.ids)
  BY <1>1, <1>6, PageIs, ContextMoves
<1>8. count' \in CountT /\ count'.ids = count.ids
  BY <1>4, Bumped, PageIs DEF Fields
<1>9. QED  BY <1>4, <1>7, <1>8, TurnSound

\* The page with another context of the same course and revision.
LEMMA ContextField ==
  ASSUME SafeInv, NEW c \in ContextT, c.course = ctx.course, c.rev = ctx.rev
  PROVE  LET w == [Page EXCEPT !.c = c]
         IN  Sound(w, jobs, saved, count.ids) /\ w.p = panel /\ w.fs = flights /\ w.c = c
<1> DEFINE w == [Page EXCEPT !.c = c]
<1>1. w.c = c /\ w = [Page EXCEPT !.c = w.c] /\ w.p = panel /\ w.fs = flights
  BY PageIs DEF PageT
<1> HIDE DEF w
<1>2. w.c \in ContextT /\ (w.c.course \in Courses => w.c.rev = saved[w.c.course])
  BY <1>1, PageIs
<1>3. Sound(Page, jobs, saved, count.ids)
  BY DEF SafeInv
<1>4. Sound(w, jobs, saved, count.ids)
  BY <1>1, <1>2, <1>3, PageIs, ContextMoves, Zenon
<1>5. QED  BY <1>1, <1>4 DEF w

\* The browser's tab is seen again.
LEMMA ReturnKeeps == ASSUME PanelSizes, SafeInv, Return PROVE SafeInv'
<1> DEFINE w == [Page EXCEPT !.c = [ctx EXCEPT !.hidden = FALSE]]
<1>1. Turn(IF w.p.active THEN Listing(w, {}) ELSE w) /\ UNCHANGED <<jobs, saved, count>>
  <2>1. [Page EXCEPT !.c.hidden = FALSE] = w
    BY PageIs
  <2>2. QED  BY <2>1 DEF Return
<1>2. Sound(w, jobs, saved, count.ids) /\ w.p = panel
  <2>1. [ctx EXCEPT !.hidden = FALSE] \in ContextT
    BY PageIs DEF ContextT
  <2>2. [ctx EXCEPT !.hidden = FALSE].course = ctx.course /\ [ctx EXCEPT !.hidden = FALSE].rev = ctx.rev
    BY PageIs DEF ContextT
  <2>3. QED  BY <2>1, <2>2, ContextField
<1> HIDE DEF w
<1>3. w.p.active => Sound(Listing(w, {}), jobs, saved, count.ids)
  BY <1>2, PageIs, ListingSound
<1>4. QED  BY <1>1, <1>2, <1>3, PageIs, TurnSound

\* The draft is edited.
LEMMA EditKeeps == ASSUME PanelSizes, SafeInv, Edit PROVE SafeInv'
<1> DEFINE w == [Page EXCEPT !.c = [ctx EXCEPT !.dirty = TRUE]]
<1>1. Turn(ContextChanged(w)) /\ UNCHANGED <<jobs, saved>> /\ Bump("edits")
  <2>1. [Page EXCEPT !.c.dirty = TRUE] = w
    BY PageIs
  <2>2. QED  BY <2>1 DEF Edit
<1>2. Sound(w, jobs, saved, count.ids)
  <2>1. [ctx EXCEPT !.dirty = TRUE] \in ContextT
    BY PageIs DEF ContextT
  <2>2. [ctx EXCEPT !.dirty = TRUE].course = ctx.course /\ [ctx EXCEPT !.dirty = TRUE].rev = ctx.rev
    BY PageIs DEF ContextT
  <2>3. QED  BY <2>1, <2>2, ContextField
<1> HIDE DEF w
<1>3. Sound(ContextChanged(w), jobs, saved, count.ids)
  BY <1>2, ContextChangedSound
<1>4. count' \in CountT /\ count'.ids = count.ids
  BY <1>1, Bumped, PageIs DEF Fields
<1>5. QED  BY <1>1, <1>3, <1>4, TurnSound

\* The draft of the open course has a new revision, which the page knows.
LEMMA RevisionMoves ==
  ASSUME SafeInv, ctx.course # NoCourse, saved' = [saved EXCEPT ![ctx.course] = @ + 1],
         NEW dirty \in BOOLEAN
  PROVE  LET w == [Page EXCEPT !.c = [ctx EXCEPT !.rev = saved'[ctx.course], !.dirty = dirty]]
         IN  /\ Sound(w, jobs, saved', count.ids) /\ saved' \in [Courses -> Nat]
             /\ w.p = panel /\ w.fs = flights
             /\ w.c = [ctx EXCEPT !.rev = saved'[ctx.course], !.dirty = dirty]
<1> DEFINE c == [ctx EXCEPT !.rev = saved'[ctx.course], !.dirty = dirty]
<1> DEFINE w == [Page EXCEPT !.c = c]
<1>1. ctx.course \in Courses
  BY PageIs DEF ContextT, AnyCourse
<1>2. saved' \in [Courses -> Nat] /\ \A d \in Courses : saved[d] <= saved'[d]
  BY <1>1, PageIs
<1>3. c \in ContextT /\ c.course = ctx.course /\ c.rev = saved'[ctx.course]
  BY <1>1, <1>2, PageIs DEF ContextT
<1> HIDE DEF c
<1>4. w.c = c /\ w = [Page EXCEPT !.c = w.c] /\ w.p = panel /\ w.fs = flights
  BY PageIs DEF PageT
<1> HIDE DEF w
<1>5. w.c \in ContextT /\ (w.c.course \in Courses => w.c.rev = saved'[w.c.course])
  BY <1>3, <1>4
<1>6. Sound(Page, jobs, saved, count.ids)
  BY DEF SafeInv
<1>7. count.ids \in Nat /\ count.ids <= count.ids /\ w = [Page EXCEPT !.c = w.c]
  BY <1>4, PageIs
<1>8. ASSUME NEW tv \in [Courses -> Nat], \A d \in Courses : saved[d] <= tv[d],
             w.c.course \in Courses => w.c.rev = tv[w.c.course]
      PROVE  Sound(w, jobs, tv, count.ids)
  BY <1>5, <1>6, <1>7, <1>8, ContextMoves, Zenon
<1>9. Sound(w, jobs, saved', count.ids)
  BY <1>2, <1>5, <1>8
<1>10. QED  BY <1>2, <1>4, <1>9 DEF w, c

\* The draft is saved.
LEMMA SaveKeeps == ASSUME PanelSizes, SafeInv, Save PROVE SafeInv'
<1> DEFINE w == [Page EXCEPT !.c = [ctx EXCEPT !.rev = saved'[ctx.course], !.dirty = FALSE]]
<1>1. Turn(IF ctx.videos THEN Refreshed(w) ELSE w) /\ UNCHANGED jobs /\ Bump("saves")
  <2>1. [Page EXCEPT !.c.rev = saved'[ctx.course], !.c.dirty = FALSE] = w
    BY PageIs DEF PageT
  <2>2. QED  BY <2>1 DEF Save
<1>2. Sound(w, jobs, saved', count.ids)
  BY RevisionMoves DEF Save
<1> HIDE DEF w
<1>3. Sound(Refreshed(w), jobs, saved', count.ids)
  BY <1>2, RefreshedSound
<1>4. count' \in CountT /\ count'.ids = count.ids
  BY <1>1, Bumped, PageIs DEF Fields
<1>5. Page' = IF ctx.videos THEN Refreshed(w) ELSE w
  BY <1>1, <1>2, <1>3, TurnIs DEF Sound
<1>6. QED  BY <1>1, <1>2, <1>3, <1>4, <1>5 DEF SafeInv

\* The draft is published.
LEMMA PublishKeeps == ASSUME PanelSizes, SafeInv, Publish PROVE SafeInv'
<1> DEFINE w == [Page EXCEPT !.c = [ctx EXCEPT !.rev = saved'[ctx.course], !.dirty = ctx.dirty]]
<1>1. Turn(w) /\ UNCHANGED jobs /\ Bump("publishes")
  <2>1. [ctx EXCEPT !.rev = saved'[ctx.course]] = [ctx EXCEPT !.rev = saved'[ctx.course], !.dirty = ctx.dirty]
    BY PageIs DEF ContextT
  <2>2. [Page EXCEPT !.c.rev = saved'[ctx.course]] = w
    BY <2>1, PageIs DEF PageT
  <2>3. QED  BY <2>2 DEF Publish
<1>2. ctx.dirty \in BOOLEAN
  BY PageIs DEF ContextT
<1>3. Sound(w, jobs, saved', count.ids)
  BY <1>2, RevisionMoves DEF Publish
<1> HIDE DEF w
<1>4. count' \in CountT /\ count'.ids = count.ids
  BY <1>1, Bumped, PageIs DEF Fields
<1>5. Page' = w
  BY <1>1, <1>3, TurnIs DEF Sound
<1>6. QED  BY <1>1, <1>3, <1>4, <1>5 DEF SafeInv

\* The timer goes off.
LEMMA PollKeeps == ASSUME PanelSizes, SafeInv, Poll PROVE SafeInv'
<1> DEFINE w == [Page EXCEPT !.p.timer = FALSE]
<1>1. Sound(w, jobs, saved, count.ids)
  BY TimerStops DEF SafeInv
<1>2. w.p.course = panel.course
  BY PageIs DEF PageT, PanelT
<1>3. panel.course \in Courses
  BY PageIs DEF Poll
<1> HIDE DEF w
<1>4. Sound(Listing(w, {}), jobs, saved, count.ids)
  BY <1>1, <1>2, <1>3, ListingSound
<1>5. QED  BY <1>4, PageIs, TurnSound DEF Poll, w

\* The panel shows something else, or remembers what was asked for.
LEMMA SideSound ==
  ASSUME NEW w, NEW js, NEW sv, NEW ids, Sound(w, js, sv, ids), NEW q \in PanelT,
         SamePanel(q, w.p), q.timer = w.p.timer, q.shown = w.p.shown
  PROVE  Sound([w EXCEPT !.p = q], js, sv, ids) /\ Same([w EXCEPT !.p = q], w)
         /\ [w EXCEPT !.p = q].p = q
<1> DEFINE v == [w EXCEPT !.p = q]
<1>1. w \in PageT
  BY DEF Sound
<1>2. v.p = q /\ v.c = w.c /\ v.fs = w.fs
  BY <1>1 DEF PageT
<1>3. Own(w, js) /\ Detail(q)
  BY DEF Sound, Shown, Detail, SamePanel
<1>4. Sound(v, js, sv, ids)
  BY <1>2, <1>3, PanelChanges DEF SamePanel, Own
<1>5. QED  BY <1>2, <1>4 DEF Same

\* The form is changed.
LEMMA ChangeFormKeeps == ASSUME PanelSizes, SafeInv, ChangeForm PROVE SafeInv'
<1> DEFINE q == [panel EXCEPT !.form = @ + 1, !.pending = NoRequest]
<1> DEFINE v == [Page EXCEPT !.p = q]
<1>1. Turn(v) /\ UNCHANGED <<jobs, saved>> /\ Bump("forms")
  <2>1. [Page EXCEPT !.p.form = @ + 1, !.p.pending = NoRequest] = v
    BY PageIs DEF PageT
  <2>2. QED  BY <2>1 DEF ChangeForm
<1>2. /\ q \in PanelT /\ q.course = panel.course /\ q.active = panel.active /\ q.jobs = panel.jobs
      /\ q.selected = panel.selected /\ q.rows = panel.rows /\ q.timer = panel.timer
      /\ q.busy = panel.busy /\ q.shown = panel.shown /\ q.form = panel.form + 1
      /\ q.pending = NoRequest
  <2>1. panel \in PanelT /\ NoRequest \in RequestView
    BY PageIs, ClosedType
  <2>2. panel.form + 1 \in Nat
    BY <2>1 DEF PanelT
  <2> DEFINE more == panel.form + 1
  <2>3. q = [panel EXCEPT !.form = more, !.pending = NoRequest] /\ more \in Nat
    BY <2>1, <2>2 DEF PanelT
  <2> HIDE DEF more, q
  <2>4. /\ q \in PanelT /\ q.course = panel.course /\ q.active = panel.active /\ q.jobs = panel.jobs
        /\ q.selected = panel.selected /\ q.rows = panel.rows /\ q.timer = panel.timer
        /\ q.busy = panel.busy /\ q.shown = panel.shown /\ q.form = more /\ q.pending = NoRequest
    BY <2>1, <2>3 DEF PanelT
  <2>5. QED  BY <2>4 DEF more
<1> HIDE DEF q
<1>3. v \in PageT /\ v.p = q /\ v.fs = flights /\ v.c = ctx
  BY <1>2, PageIs DEF PageT
<1> HIDE DEF v
<1>4. Own(Page, jobs) /\ Shown(Page) /\ OneChange(Page)
  BY DEF SafeInv, Sound
<1>5. Fades(v.fs, Page.fs) /\ OneLatest(v.fs) /\ OneLive(v.fs)
  BY <1>3, <1>4, PageIs DEF Fades, Faded, Shown, OneChange
<1>6. /\ v.p.active => v.p.course \in Courses
      /\ ~v.p.active => ~v.p.timer /\ ~v.p.busy
      /\ \A j \in v.p.jobs : Known(j, v.p.course, jobs)
      /\ v.p.selected # NoJob => Known(v.p.selected, v.p.course, jobs)
      /\ \A f \in v.fs : v.p.active /\ Changing(f) => v.p.busy
  BY <1>2, <1>3, <1>4, PageIs DEF Own, OneChange
<1>7. (v.p.rows # NoRows => v.p.selected # NoJob /\ v.p.rows.id = v.p.selected.id) /\ Detail(v.p)
  BY <1>2, <1>3, <1>4, PageIs DEF Shown, Detail
<1>8. v.p.form > Page.p.form /\ v.p.pending.id = 0
  BY <1>2, <1>3, PageIs DEF PanelT, NoRequest
<1>9. v.c.course \in Courses => v.c.rev = saved[v.c.course]
  BY <1>3, PageIs
<1>10. /\ v.p.active => Page.p.active /\ v.p.course = Page.p.course
       /\ v.p.rows = Page.p.rows /\ v.p.selected = Page.p.selected
  BY <1>2, <1>3, PageIs
<1>11. Sound(v, jobs, saved, count.ids)
  BY <1>3, <1>5, <1>6, <1>7, <1>8, <1>9, <1>10, PageIs, SoundFades DEF SafeInv
<1>12. count' \in CountT /\ count'.ids = count.ids
  BY <1>1, Bumped, PageIs DEF Fields
<1>13. QED  BY <1>1, <1>11, <1>12, TurnSound

\* An extraction is opened.
LEMMA OpenClickKeeps == ASSUME PanelSizes, SafeInv, NEW id \in Nat, OpenClick(id) PROVE SafeInv'
<1> DEFINE u == Opening(Page, id, TRUE, {})
<1> DEFINE q == [u.p EXCEPT !.asked = id]
<1>1. id \in DOMAIN jobs /\ jobs[id].course = panel.course /\ panel.course \in Courses
  <2>1. PICK j \in panel.jobs : j.id = id
    BY DEF OpenClick
  <2>2. Known(j, panel.course, jobs)
    BY PageIs
  <2>3. QED  BY <2>1, <2>2, PageIs, JobFields DEF Known
<1>2. Sound(u, jobs, saved, count.ids)
  BY <1>1, PageIs, OpeningSound DEF SafeInv
<1>3. Turn([u EXCEPT !.p.asked = id]) /\ UNCHANGED <<jobs, saved>> /\ Bump("clicks")
  BY DEF OpenClick
<1> HIDE DEF u
<1>4. u \in PageT /\ u.p \in PanelT
  BY <1>2 DEF Sound, PageT
<1>5. q \in PanelT /\ SamePanel(q, u.p) /\ q.timer = u.p.timer /\ q.shown = u.p.shown
  BY <1>4 DEF PanelT, SamePanel
<1>6. [u EXCEPT !.p.asked = id] = [u EXCEPT !.p = q]
  BY <1>4 DEF PageT
<1> HIDE DEF q
<1>7. Sound([u EXCEPT !.p = q], jobs, saved, count.ids)
  BY <1>2, <1>5, SideSound
<1>8. count' \in CountT /\ count'.ids = count.ids
  BY <1>3, Bumped, PageIs DEF Fields
<1>9. QED  BY <1>3, <1>6, <1>7, <1>8, TurnSound

\* Another view is chosen.
LEMMA ViewClickKeeps == ASSUME PanelSizes, SafeInv, NEW view \in Views, ViewClick(view) PROVE SafeInv'
<1> DEFINE q == [panel EXCEPT !.view = view]
<1> DEFINE w == [Page EXCEPT !.p = q]
<1>1. Turn(LoadingRows(w, {})) /\ UNCHANGED <<jobs, saved>> /\ Bump("clicks")
  <2>1. [Page EXCEPT !.p.view = view] = w
    BY PageIs DEF PageT
  <2>2. QED  BY <2>1 DEF ViewClick
<1>2. q \in PanelT /\ SamePanel(q, panel) /\ q.timer = panel.timer /\ q.shown = panel.shown
  BY PageIs DEF PanelT, SamePanel
<1> HIDE DEF q
<1>3. Sound(w, jobs, saved, count.ids) /\ w.p = q
  BY <1>2, PageIs, SideSound DEF SafeInv
<1>4. panel.selected # NoJob
  BY PageIs DEF ViewClick, SafeInv, Sound, Shown, Detail
<1>5. panel.course \in Courses
  BY <1>4, PageIs, JobFields DEF Known
<1>6. w.p.selected # NoJob /\ w.p.course \in Courses
  BY <1>2, <1>3, <1>4, <1>5 DEF SamePanel
<1> HIDE DEF w
<1>7. Sound(LoadingRows(w, {}), jobs, saved, count.ids)
  BY <1>3, <1>6, LoadingRowsSound
<1>8. count' \in CountT /\ count'.ids = count.ids
  BY <1>1, Bumped, PageIs DEF Fields
<1>9. QED  BY <1>1, <1>7, <1>8, TurnSound

\* An extraction is started.
LEMMA StartClickKeeps == ASSUME PanelSizes, SafeInv, StartClick PROVE SafeInv'
<1> DEFINE r == RequestFor(Page)
<1> DEFINE more == IF r.id > count.ids THEN r.id ELSE count.ids
<1> DEFINE w == [Page EXCEPT !.p.pending = r, !.p.busy = TRUE]
<1> DEFINE f == Flight(w, "start", r.id, {"started"})
<1>1. /\ panel.active /\ ~panel.busy /\ panel.course = ctx.course
      /\ Turn(Sent(w, f, {}))
      /\ count' = [count EXCEPT !.clicks = @ + 1, !.ids = IF r.id > @ THEN r.id ELSE @]
      /\ UNCHANGED <<jobs, saved>>
  BY DEF StartClick
<1>2. panel.course \in Courses /\ ctx.rev \in Nat /\ panel.form \in Nat /\ panel.pending \in RequestView
  BY <1>1, PageIs DEF ContextT, PanelT
<1>3. panel.pending.id <= count.ids
  BY PageIs DEF SafeInv, Sound, Once, Pending
<1>4. /\ r \in RequestView /\ r.course = panel.course /\ r.rev = ctx.rev /\ r.form = panel.form /\ r.id # 0
      /\ \/ r = panel.pending
         \/ r.id > count.ids /\ (panel.pending.id = 0 \/ Key(panel.pending) # Key(r))
  <2>1. CASE panel.pending.id # 0 /\ panel.pending = Identity(Page, panel.pending.id)
    BY <2>1, <1>2, PageIs DEF RequestFor, Identity
  <2>2. CASE ~(panel.pending.id # 0 /\ panel.pending = Identity(Page, panel.pending.id))
    <3>1. r = [course |-> panel.course, rev |-> ctx.rev, form |-> panel.form, id |-> count.ids + 1]
      BY <2>2, PageIs DEF RequestFor, Identity
    <3>2. r \in RequestView /\ r.id > count.ids /\ r.id # 0
      BY <1>2, <3>1, PageIs DEF RequestView, AnyCourse
    <3>3. panel.pending.id = 0 \/ Key(panel.pending) # Key(r)
      BY <1>2, <2>2, <3>1, PageIs DEF RequestView, Identity, Key
    <3>4. QED  BY <3>1, <3>2, <3>3
  <2>3. QED  BY <2>1, <2>2
<1> HIDE DEF r
<1>5. more \in Nat /\ count.ids <= more /\ r.id <= more /\ r.id \in Nat
  BY <1>4, PageIs DEF RequestView
<1>6. count' \in CountT /\ count'.ids = more
  <2>1. count' = [count EXCEPT !.clicks = @ + 1, !.ids = more]
    BY <1>1, PageIs DEF CountT
  <2> HIDE DEF more
  <2>2. count \in CountT /\ count.clicks + 1 \in Nat
    BY PageIs DEF CountT
  <2>3. \A n, m \in Nat : LET c == [count EXCEPT !.clicks = n, !.ids = m] IN c \in CountT /\ c.ids = m
    BY <2>2 DEF CountT
  <2>4. QED  BY <1>5, <2>1, <2>2, <2>3
<1> HIDE DEF more
<1>7. /\ w \in PageT /\ w.fs = flights /\ w.c = ctx /\ Beginning(w.p, panel)
      /\ w.p.pending = r /\ w.p.course = panel.course /\ w.p.busy /\ w.p.form = panel.form
  <2> DEFINE q == [panel EXCEPT !.pending = r, !.busy = TRUE]
  <2>1. q \in PanelT /\ Beginning(q, panel) /\ q.pending = r
    BY <1>4, PageIs DEF PanelT, Beginning
  <2>2. w = [Page EXCEPT !.p = q]
    BY PageIs DEF PageT
  <2> HIDE DEF q, w
  <2>3. w \in PageT /\ w.fs = flights /\ w.c = ctx /\ w.p = q
    BY <2>1, <2>2, PageIs DEF PageT
  <2>4. QED  BY <2>1, <2>3 DEF Beginning
<1> HIDE DEF w
<1>8. Sound(w, jobs, saved, more) /\ Free(Page)
  <2>1. /\ Page.p = panel /\ Page.fs = flights /\ Page.c = ctx
        /\ Sound(Page, jobs, saved, count.ids)
    BY PageIs DEF SafeInv
  <2>2. QED  BY <1>1, <1>4, <1>5, <1>7, <2>1, PendingSound
<1> DEFINE u == [w EXCEPT !.fs = Superseded(@, {})]
<1>9. Sound(u, jobs, saved, more)
  BY <1>8, SupersededSound
<1>10. u.fs = Superseded(flights, {}) /\ u.p = w.p /\ u.c = ctx
  BY <1>7 DEF PageT
<1>11. Free(u)
  <2>1. Fades(u.fs, flights)
    BY <1>10, PageIs, SupersededFades
  <2>2. QED  BY <1>8, <2>1, PageIs DEF Free, Fades, Faded, Changing
<1>12. {"started"} \in SUBSET Thens /\ "start" \in Ops /\ {"started"} \cap Changes # {}
  BY DEF Thens, Ops, Changes
<1>13. /\ f \in FlightT /\ f.op = "start" /\ f.pc = "sent" /\ f.then = {"started"}
       /\ f.rev = ctx.rev /\ f.of = panel.course /\ f.id = r.id /\ f.form = panel.form
  <2>1. /\ f \in FlightT /\ f.op = "start" /\ f.pc = "sent" /\ f.then = {"started"}
        /\ f.rev = w.c.rev /\ f.of = w.p.course /\ f.id = r.id /\ f.form = w.p.form
    BY <1>5, <1>7, <1>12, FlightForm
  <2>2. QED  BY <1>7, <2>1
<1>14. Sent(w, f, {}) = [u EXCEPT !.fs = @ \cup {f}]
  BY <1>7 DEF Sent, PageT
<1> HIDE DEF f, u
<1>15. KeyOf(f) = Key(u.p.pending) /\ f.id = u.p.pending.id
  BY <1>4, <1>7, <1>10, <1>13 DEF KeyOf, Key
<1>16. Sound([u EXCEPT !.fs = @ \cup {f}], jobs, saved, more)
  BY <1>1, <1>2, <1>4, <1>7, <1>9, <1>10, <1>11, <1>12, <1>13, <1>15, StartAdded
<1>17. Page' = Sent(w, f, {})
  BY <1>1, <1>14, <1>16, TurnIs DEF Sound
<1>18. QED  BY <1>1, <1>6, <1>14, <1>16, <1>17 DEF SafeInv

\* The panel begins to be busy.
LEMMA BusySound ==
  ASSUME SafeInv, NEW b \in PageT, b.fs = flights, b.c = ctx, panel.active,
         Beginning(b.p, panel), b.p.pending = panel.pending
  PROVE  Sound(b, jobs, saved, count.ids)
<1> USE DEF Beginning
<1>1. Own(Page, jobs) /\ Shown(Page) /\ OneChange(Page)
  BY DEF SafeInv, Sound
<1>2. Fades(b.fs, Page.fs) /\ OneLatest(b.fs) /\ OneLive(b.fs)
  BY <1>1, PageIs DEF Fades, Faded, Shown, OneChange
<1>3. /\ \A j \in b.p.jobs : Known(j, b.p.course, jobs)
      /\ b.p.selected # NoJob => Known(b.p.selected, b.p.course, jobs)
      /\ b.p.active => b.p.course \in Courses
  BY PageIs
<1>4. (b.p.rows # NoRows => b.p.selected # NoJob /\ b.p.rows.id = b.p.selected.id) /\ Detail(b.p)
  BY <1>1, PageIs DEF Shown, Detail
<1>5. b.c.course \in Courses => b.c.rev = saved[b.c.course]
  BY PageIs
<1>6. Sound(Page, jobs, saved, count.ids) /\ count.ids \in Nat /\ count.ids <= count.ids
      /\ saved \in [Courses -> Nat] /\ \A c \in Courses : saved[c] <= saved[c]
  BY PageIs DEF SafeInv
<1>7. /\ b.p.active => Page.p.active /\ b.p.course = Page.p.course
      /\ ~b.p.active => ~b.p.timer /\ ~b.p.busy
      /\ b.p.form = Page.p.form /\ b.p.pending = Page.p.pending /\ b.p.course = Page.p.course
      /\ b.p.rows = Page.p.rows /\ b.p.selected = Page.p.selected
  BY PageIs
<1>8. QED  BY <1>2, <1>3, <1>4, <1>5, <1>6, <1>7, SoundFades

\* An extraction is cancelled or reviewed.
LEMMA MutateClickKeeps ==
  ASSUME PanelSizes, SafeInv, NEW op \in {"cancel", "review"}, MutateClick(op)
  PROVE SafeInv'
<1> DEFINE q == [panel EXCEPT !.busy = TRUE]
<1> DEFINE b == [Page EXCEPT !.p = q]
<1> DEFINE w == Rendered(b)
<1> DEFINE f == Flight(w, op, w.p.selected.id, {"mutated"})
<1>1. /\ panel.active /\ ~panel.busy /\ panel.course = ctx.course /\ panel.shown.id # 0
      /\ op = "review" => panel.shown.rows # NoRows
      /\ UNCHANGED <<jobs, saved>>
  BY DEF MutateClick
<1>2. Turn(Sent(w, f, {}))
  <2>1. [Page EXCEPT !.p.busy = TRUE] = b
    BY PageIs DEF PageT
  <2>2. QED  BY <2>1 DEF MutateClick
<1>3. count' \in CountT /\ count'.ids = count.ids /\ (NoCancel => op = "review")
  <2>1. Bump("cancels") \/ Bump("clicks")
    BY DEF MutateClick
  <2>2. count.cancels \in Nat
    BY PageIs DEF CountT
  <2>3. NoCancel => op = "review"
    BY <2>2 DEF MutateClick, NoCancel, PanelSizes
  <2>4. QED  BY <2>1, <2>3, Bumped, PageIs DEF Fields
<1>4. panel.course \in Courses
  BY <1>1, PageIs
<1>5. panel.selected # NoJob /\ (op = "review" => panel.rows # NoRows)
  BY <1>1, PageIs DEF SafeInv, Sound, Shown, Detail
<1>6. Free(Page)
  BY <1>1, PageIs DEF Free, SafeInv, Sound, OneChange
<1>7. q \in PanelT /\ Beginning(q, panel) /\ q.pending = panel.pending
  BY PageIs DEF PanelT, Beginning
<1> HIDE DEF q
<1>8. b \in PageT /\ b.p = q /\ b.fs = flights /\ b.c = ctx
  BY <1>7, PageIs DEF PageT
<1> HIDE DEF b
<1>9. Sound(b, jobs, saved, count.ids)
  BY <1>1, <1>7, <1>8, PageIs, BusySound
<1>10. Sound(w, jobs, saved, count.ids) /\ Same(w, b)
  BY <1>9, RenderedSound
<1> HIDE DEF w
<1>11. /\ w \in PageT /\ w.p.course = panel.course /\ w.p.busy /\ w.p.selected = panel.selected
       /\ w.p.rows = panel.rows /\ w.c = ctx /\ w.fs = flights
  BY <1>7, <1>8, <1>10 DEF Same, SamePanel, Sound, Beginning
<1> DEFINE u == [w EXCEPT !.fs = Superseded(@, {})]
<1>12. Sound(u, jobs, saved, count.ids)
  BY <1>10, SupersededSound
<1>13. u.fs = Superseded(flights, {}) /\ u.p = w.p /\ u.c = ctx
  BY <1>11 DEF PageT
<1>14. Free(u)
  <2>1. Fades(u.fs, flights)
    BY <1>13, PageIs, SupersededFades
  <2>2. QED  BY <1>6, <2>1, PageIs DEF Free, Fades, Faded, Changing
<1>15. {"mutated"} \in SUBSET Thens /\ op \in Ops /\ {"mutated"} \cap Changes # {}
  BY DEF Thens, Ops, Changes
<1>16. w.p.selected.id \in Nat
  BY <1>5, <1>11, PageIs DEF PanelT, JobView
<1>17. /\ f \in FlightT /\ f.op = op /\ f.pc = "sent" /\ f.then = {"mutated"}
       /\ f.of = panel.course /\ f.id = panel.selected.id
       /\ op = "review" => f.rr = panel.selected.rr /\ f.base = panel.rows.rr
  BY <1>5, <1>11, <1>15, <1>16, FlightForm
<1>18. Sent(w, f, {}) = [u EXCEPT !.fs = @ \cup {f}]
  BY <1>11 DEF Sent, PageT
<1> HIDE DEF f, u
<1>19. Sound([u EXCEPT !.fs = @ \cup {f}], jobs, saved, count.ids)
  BY <1>3, <1>4, <1>5, <1>11, <1>12, <1>13, <1>14, <1>15, <1>17, MutationAdded
<1>20. QED  BY <1>1, <1>2, <1>3, <1>18, <1>19, TurnSound

-----------------------------------------------------------------------------
(* The steps of the server.                                                *)

\* The extractions go on: more are known of, and more is known of them.
Grows(js, jt) ==
  /\ js \in Seq(JobT) /\ jt \in Seq(JobT) /\ DOMAIN js \subseteq DOMAIN jt
  /\ \A i \in DOMAIN js :
       /\ jt[i].course = js[i].course /\ jt[i].rev = js[i].rev /\ jt[i].form = js[i].form
       /\ jt[i].req = js[i].req /\ js[i].rr <= jt[i].rr /\ (js[i].told => jt[i].told)
       /\ jt[i].other = js[i].other \/ jt[i].other > js[i].rr

\* What is known of an extraction stays true as the server goes on.
LEMMA KnownGrows ==
  ASSUME NEW js, NEW jt, Grows(js, jt), NEW j, NEW c, Known(j, c, js)
  PROVE  Known(j, c, jt)
<1>1. j.rr \in Nat /\ js[j.id].rr \in Nat /\ jt[j.id].rr \in Nat /\ j.id \in DOMAIN jt
  BY JobFields DEF Known, Grows, JobView
<1>2. js[j.id].rr <= jt[j.id].rr /\ jt[j.id].course = js[j.id].course /\ j.rr <= js[j.id].rr
  BY DEF Known, Grows
<1>3. QED  BY <1>1, <1>2 DEF Known

\* So does what a request has brought.
LEMMA FlightGrows ==
  ASSUME NEW js, NEW jt, Grows(js, jt), NEW f \in FlightT, FlightOwn(f, js)
  PROVE  FlightOwn(f, jt)
<1>1. f.op \in OfOneJob => f.id \in DOMAIN jt /\ jt[f.id].course = f.of
  BY DEF FlightOwn, Grows
<1>2. ASSUME f.pc = "answered" PROVE Answer(f, jt)
  <2>1. Answer(f, js)
    BY <1>2 DEF FlightOwn
  <2>2. f.op = "rows" => \A r \in f.seen : r \in RowView /\ r.id = f.id /\ r.rr <= jt[f.id].rr
    <3> SUFFICES ASSUME f.op = "rows", NEW r \in f.seen PROVE r \in RowView /\ r.id = f.id /\ r.rr <= jt[f.id].rr
      OBVIOUS
    <3>1. r \in RowView /\ r.id = f.id /\ r.rr <= js[f.id].rr /\ f.id \in DOMAIN js
      BY <2>1 DEF Answer, FlightOwn, OfOneJob
    <3>2. r.rr \in Nat /\ js[f.id].rr \in Nat /\ jt[f.id].rr \in Nat /\ js[f.id].rr <= jt[f.id].rr
      BY <3>1, JobFields DEF Grows, RowView
    <3>3. QED  BY <3>1, <3>2
  <2>3. f.op = "start" => \A j \in f.seen : jt[j.id].req = f.id
    <3> SUFFICES ASSUME f.op = "start", NEW j \in f.seen PROVE jt[j.id].req = f.id
      OBVIOUS
    <3>1. Known(j, f.of, js) /\ js[j.id].req = f.id
      BY <2>1 DEF Answer
    <3>2. QED  BY <3>1 DEF Known, Grows
  <2>4. \A j : Known(j, f.of, js) => Known(j, f.of, jt)
    BY KnownGrows
  <2>5. /\ f.op = "list" => \A j \in f.seen : Known(j, f.of, jt)
        /\ f.op \in {"open", "cancel", "review", "start"} => f.seen # {} /\ \A j \in f.seen : Known(j, f.of, jt)
        /\ f.op \in {"open", "cancel", "review"} => \A j \in f.seen : j.id = f.id
        /\ f.op = "rows" => f.seen # {}
    BY <2>1, <2>4 DEF Answer
  <2>6. QED  BY <2>2, <2>3, <2>5 DEF Answer
<1>3. QED  BY <1>1, <1>2 DEF FlightOwn

\* The page stays about its own course.
LEMMA OwnGrows ==
  ASSUME NEW w \in PageT, NEW js, NEW jt, Grows(js, jt), Own(w, js)
  PROVE  Own(w, jt)
<1>1. \A f \in w.fs : f \in FlightT
  BY DEF PageT
<1>2. \A f \in w.fs : FlightOwn(f, jt)
  BY <1>1, FlightGrows DEF Own
<1>3. QED  BY <1>2, KnownGrows DEF Own

\* Another tab's review is newer than what anybody here has seen.
LEMMA SeesGrows ==
  ASSUME NEW js, NEW jt, Grows(js, jt), NEW i \in DOMAIN js, NEW rr \in Nat, rr <= js[i].rr, NEW base,
         Sees(i, rr, base, js)
  PROVE  Sees(i, rr, base, jt)
<1>1. js[i].rr \in Nat /\ js[i].other \in Nat /\ jt[i].other \in Nat
  BY JobFields DEF Grows
<1>2. QED  BY <1>1 DEF Sees, Grows

\* Decisions stay informed.
LEMMA InformedGrows ==
  ASSUME NEW w \in PageT, NEW js, NEW jt, Grows(js, jt), Own(w, js), Shown(w), Informed(w, js)
  PROVE  Informed(w, jt)
<1>1. \A i \in DOMAIN js : js[i].rr \in Nat /\ jt[i].rr \in Nat /\ js[i].rr <= jt[i].rr
  BY JobFields DEF Grows
<1>2. ASSUME w.p.rows # NoRows
      PROVE  /\ w.p.rows.rr <= jt[w.p.rows.id].rr
             /\ Sees(w.p.rows.id, w.p.selected.rr, w.p.rows.rr, jt)
  <2>1. /\ w.p.rows.rr <= js[w.p.rows.id].rr
        /\ Sees(w.p.rows.id, w.p.selected.rr, w.p.rows.rr, js)
    BY <1>2 DEF Informed
  <2>2. Known(w.p.selected, w.p.course, js) /\ w.p.selected.id = w.p.rows.id
    BY <1>2 DEF Own, Shown
  <2>3. w.p.rows.id \in DOMAIN js /\ w.p.selected.rr \in Nat /\ w.p.selected.rr <= js[w.p.rows.id].rr
    BY <2>2 DEF Known, JobView
  <2>4. w.p.rows.rr \in Nat
    BY <1>2 DEF PageT, PanelT, RowView
  <2>5. QED  BY <1>1, <2>1, <2>3, <2>4, SeesGrows
<1>3. ASSUME NEW f \in w.fs, f.op = "review"
      PROVE  /\ f.rr <= jt[f.id].rr /\ f.base <= jt[f.id].rr
             /\ f.pc = "sent" => Sees(f.id, f.rr, f.base, jt)
             /\ f.pc = "answered" => \A j \in f.seen : Sees(f.id, j.rr, f.base, jt)
  <2>1. /\ f.rr <= js[f.id].rr /\ f.base <= js[f.id].rr
        /\ f.pc = "sent" => Sees(f.id, f.rr, f.base, js)
        /\ f.pc = "answered" => \A j \in f.seen : Sees(f.id, j.rr, f.base, js)
    BY <1>3 DEF Informed
  <2>2. f.id \in DOMAIN js /\ f.rr \in Nat /\ f.base \in Nat
    BY <1>3 DEF Own, FlightOwn, OfOneJob, PageT, FlightT
  <2>3. ASSUME f.pc = "answered", NEW j \in f.seen PROVE j.rr \in Nat /\ j.rr <= js[f.id].rr
    BY <1>3, <2>3 DEF Own, FlightOwn, Answer, Known, JobView
  <2>4. f.pc = "answered" => \A j \in f.seen : Sees(f.id, j.rr, f.base, jt)
    BY <2>1, <2>2, <2>3, SeesGrows
  <2>5. f.pc = "sent" => Sees(f.id, f.rr, f.base, jt)
    BY <2>1, <2>2, SeesGrows
  <2>6. QED  BY <1>1, <2>1, <2>2, <2>4, <2>5
<1>4. QED  BY <1>2, <1>3 DEF Informed

\* No extraction is new.
LEMMA OnceGrows ==
  ASSUME NEW w, NEW js, NEW jt, Grows(js, jt), DOMAIN jt = DOMAIN js, NEW sv, NEW ids, Once(w, js, sv, ids)
  PROVE  Once(w, jt, sv, ids)
<1>1. \A i \in DOMAIN js : Key(jt[i]) = Key(js[i]) /\ jt[i].req = js[i].req /\ (js[i].told => jt[i].told)
  BY DEF Grows, Key
<1>2. \A id : (Made(id, js) => Made(id, jt)) /\ (Settled(id, js) => Settled(id, jt))
  BY <1>1 DEF Made, Settled
<1>3. \A f \in Starts(w) :
       /\ f.id # 0 /\ Dated(KeyOf(f), f.id, w.p, sv, ids)
       /\ OfNow(KeyOf(f), w.p, sv) => f.id = w.p.pending.id \/ Settled(f.id, jt)
       /\ w.p.active /\ f.live => w.p.pending.id \in {0, f.id}
       /\ \A g \in Starts(w) :
            KeyOf(f) = KeyOf(g) => f.id = g.id \/ Made(f.id, jt) \/ Made(g.id, jt)
       /\ \A g \in Starts(w) : f.id = g.id => KeyOf(f) = KeyOf(g)
  BY <1>2 DEF Once
<1>4. \A f \in Starts(w) : \A i \in DOMAIN jt :
        /\ KeyOf(f) = Key(jt[i]) => f.id = jt[i].req \/ jt[i].told \/ Made(f.id, jt)
        /\ f.id = jt[i].req => KeyOf(f) = Key(jt[i])
  BY <1>1, <1>2 DEF Once
<1>5. \A i \in DOMAIN jt :
       /\ Dated(Key(jt[i]), jt[i].req, w.p, sv, ids)
       /\ OfNow(Key(jt[i]), w.p, sv) => jt[i].req = w.p.pending.id \/ jt[i].told
       /\ \A k \in DOMAIN jt :
            /\ jt[i].req = jt[k].req => i = k
            /\ i < k /\ Key(jt[i]) = Key(jt[k]) => jt[i].told
  BY <1>1 DEF Once
<1>6. QED  BY <1>3, <1>4, <1>5 DEF Once

\* All of it stays as the server goes on.
LEMMA SoundGrows ==
  ASSUME NEW w, NEW js, NEW jt, Grows(js, jt), DOMAIN jt = DOMAIN js, Counted(jt), NEW sv, NEW ids,
         Sound(w, js, sv, ids)
  PROVE  Sound(w, jt, sv, ids)
<1>1. w \in PageT
  BY DEF Sound
<1>2. Own(w, jt) /\ Once(w, jt, sv, ids)
  BY <1>1, OwnGrows, OnceGrows DEF Sound
<1>3. NoCancel => Informed(w, jt)
  BY <1>1, InformedGrows DEF Sound
<1>4. QED  BY <1>2, <1>3 DEF Sound, Grows

\* An extraction is made for a request that has made none.
LEMMA OnceAdded ==
  ASSUME NEW w, NEW js \in Seq(JobT), NEW sv, NEW ids, Once(w, js, sv, ids), NEW f \in Starts(w),
         ~Made(f.id, js), NEW job \in JobT, job.req = f.id, Key(job) = KeyOf(f)
  PROVE  Once(w, Append(js, job), sv, ids)
<1> DEFINE jt == Append(js, job)
<1> DEFINE new == Len(js) + 1
<1>1. /\ DOMAIN jt = DOMAIN js \cup {new} /\ jt[new] = job /\ new \notin DOMAIN js
      /\ \A i \in DOMAIN js : jt[i] = js[i] /\ i < new /\ ~(new < i)
  <2>1. Len(js) \in Nat /\ DOMAIN js = 1 .. Len(js)
    BY LenProperties
  <2>2. /\ jt \in Seq(JobT) /\ Len(jt) = new /\ jt[new] = job
        /\ \A i \in 1 .. Len(js) : jt[i] = js[i]
    BY AppendProperties
  <2>3. DOMAIN jt = 1 .. new
    BY <2>2, LenProperties
  <2>4. QED  BY <2>1, <2>2, <2>3
<1> HIDE DEF jt, new
<1>2. \A id : (Made(id, js) => Made(id, jt)) /\ (Settled(id, js) => Settled(id, jt))
  BY <1>1 DEF Made, Settled
<1>3. /\ Dated(KeyOf(f), f.id, w.p, sv, ids)
      /\ OfNow(KeyOf(f), w.p, sv) => f.id = w.p.pending.id
  BY DEF Once, Settled, Made
<1>4. \A g \in Starts(w) :
       /\ g.id # 0 /\ Dated(KeyOf(g), g.id, w.p, sv, ids)
       /\ OfNow(KeyOf(g), w.p, sv) => g.id = w.p.pending.id \/ Settled(g.id, jt)
       /\ w.p.active /\ g.live => w.p.pending.id \in {0, g.id}
       /\ \A h \in Starts(w) :
            KeyOf(g) = KeyOf(h) => g.id = h.id \/ Made(g.id, jt) \/ Made(h.id, jt)
       /\ \A h \in Starts(w) : g.id = h.id => KeyOf(g) = KeyOf(h)
  BY <1>2 DEF Once
<1>5. ASSUME NEW g \in Starts(w), NEW i \in DOMAIN jt
      PROVE  /\ KeyOf(g) = Key(jt[i]) => g.id = jt[i].req \/ jt[i].told \/ Made(g.id, jt)
             /\ g.id = jt[i].req => KeyOf(g) = Key(jt[i])
  <2>1. CASE i \in DOMAIN js
    BY <1>1, <1>2, <2>1 DEF Once
  <2>2. CASE i = new
    <3>1. KeyOf(f) = KeyOf(g) => f.id = g.id \/ Made(g.id, js)
      BY DEF Once
    <3>2. f.id = g.id => KeyOf(f) = KeyOf(g)
      BY DEF Once
    <3>3. QED  BY <1>1, <1>2, <2>2, <3>1, <3>2
  <2>3. QED  BY <1>1, <2>1, <2>2
<1>6. ASSUME NEW i \in DOMAIN jt
      PROVE  /\ Dated(Key(jt[i]), jt[i].req, w.p, sv, ids)
             /\ OfNow(Key(jt[i]), w.p, sv) => jt[i].req = w.p.pending.id \/ jt[i].told
  <2>1. CASE i \in DOMAIN js
    BY <1>1, <2>1 DEF Once
  <2>2. CASE i = new
    BY <1>1, <1>3, <2>2
  <2>3. QED  BY <1>1, <2>1, <2>2
<1>7. ASSUME NEW i \in DOMAIN jt, NEW k \in DOMAIN jt
      PROVE  /\ jt[i].req = jt[k].req => i = k
             /\ i < k /\ Key(jt[i]) = Key(jt[k]) => jt[i].told
  <2>1. CASE i \in DOMAIN js /\ k \in DOMAIN js
    BY <1>1, <2>1 DEF Once
  <2>2. CASE i \in DOMAIN js /\ k = new
    <3>1. js[i].req # f.id
      BY <2>2 DEF Made
    <3>2. KeyOf(f) = Key(js[i]) => f.id = js[i].req \/ js[i].told \/ Made(f.id, js)
      BY <2>2 DEF Once
    <3>3. QED  BY <1>1, <2>2, <3>1, <3>2
  <2>3. CASE i = new /\ k \in DOMAIN js
    <3>1. js[k].req # f.id
      BY <2>3 DEF Made
    <3>2. QED  BY <1>1, <2>3, <3>1
  <2>4. CASE i = new /\ k = new
    <3>1. new \in Nat
      BY LenProperties DEF new
    <3>2. QED  BY <2>4, <3>1
  <2>5. QED  BY <1>1, <2>1, <2>2, <2>3, <2>4
<1>8. Pending(w, sv, ids)
  BY DEF Once
<1>9. Once(w, jt, sv, ids)
  BY <1>4, <1>5, <1>6, <1>7, <1>8 DEF Once
<1>10. QED  BY <1>9 DEF jt

\* A request is served, or its failure is.
Resumed(g, f) ==
  /\ g.op = f.op /\ g.live = f.live /\ g.latest = f.latest /\ g.course = f.course /\ g.rev = f.rev
  /\ g.of = f.of /\ g.id = f.id /\ g.form = f.form /\ g.rr = f.rr /\ g.base = f.base /\ g.then = f.then

\* A request that is served, or fails, keeps it.
LEMMA ResumedSound ==
  ASSUME NEW w, NEW js, NEW sv, NEW ids, Sound(w, js, sv, ids),
         NEW f \in w.fs, NEW g \in FlightT, Resumed(g, f), g.pc # "sent", FlightOwn(g, js),
         NoCancel /\ g.op = "review" /\ g.pc = "answered" => \A j \in g.seen : Sees(g.id, j.rr, g.base, js),
         g.op = "rows" /\ g.pc = "answered" => \A r \in g.seen : r.rr = js[g.id].rr
  PROVE  Sound([w EXCEPT !.fs = (@ \ {f}) \cup {g}], js, sv, ids)
<1> DEFINE v == [w EXCEPT !.fs = (@ \ {f}) \cup {g}]
<1>1. /\ w \in PageT /\ js \in Seq(JobT) /\ sv \in [Courses -> Nat] /\ ids \in Nat
      /\ Own(w, js) /\ Shown(w) /\ OneChange(w) /\ Once(w, js, sv, ids)
  BY DEF Sound
<1>2. v \in PageT /\ v.fs = (w.fs \ {f}) \cup {g} /\ v.c = w.c /\ v.p = w.p
  BY <1>1 DEF PageT
<1> HIDE DEF v
<1>3. Own(v, js)
  BY <1>1, <1>2 DEF Own, Resumed
<1>4. Shown(v)
  <2>1. OneLatest(v.fs)
    <3>1. \A h \in w.fs \ {f} : ~(h.op \in Selection /\ g.op \in Selection /\ h.latest /\ g.latest)
      BY <1>1 DEF Shown, OneLatest, Resumed
    <3>2. \A h, e \in w.fs \ {f} : h.op \in Selection /\ e.op \in Selection /\ h.latest /\ e.latest => h = e
      BY <1>1 DEF Shown, OneLatest
    <3>3. QED  BY <1>2, <3>1, <3>2 DEF OneLatest
  <2>2. QED  BY <1>1, <1>2, <2>1 DEF Shown
<1>5. OneChange(v)
  <2>1. OneLive(v.fs)
    <3>1. Changing(g) = Changing(f)
      BY DEF Changing, Resumed
    <3>2. QED  BY <1>1, <1>2, <3>1 DEF OneChange, OneLive
  <2>2. \A h \in v.fs : h.op \in {"start", "cancel", "review"} => h.then \cap Changes # {}
    BY <1>1, <1>2 DEF OneChange, Resumed
  <2>3. \A h \in v.fs : v.p.active /\ Changing(h) => v.p.busy
    BY <1>1, <1>2 DEF OneChange, Changing, Resumed
  <2>4. QED  BY <2>1, <2>2, <2>3 DEF OneChange
<1>6. Once(v, js, sv, ids)
  <2>1. \A h \in Starts(v) : \E e \in Starts(w) :
          h.id = e.id /\ (h.live => e.live) /\ KeyOf(h) = KeyOf(e)
    <3> TAKE h \in Starts(v)
    <3>1. CASE h = g
      <4>1. f \in Starts(w) /\ h.id = f.id /\ (h.live => f.live) /\ KeyOf(h) = KeyOf(f)
        BY <3>1 DEF Starts, Resumed, KeyOf
      <4>2. QED  BY <4>1
    <3>2. CASE h # g
      BY <1>2, <3>2 DEF Starts
    <3>3. QED  BY <3>1, <3>2
  <2>2. \A c \in Courses : sv[c] <= sv[c]
    BY <1>1
  <2>3. v.c.course \in Courses => v.c.rev = sv[v.c.course]
    BY <1>1, <1>2 DEF Once, Pending
  <2>4. QED  BY <1>1, <1>2, <2>1, <2>2, <2>3, OnceKept
<1>7. ASSUME NoCancel PROVE Informed(v, js)
  <2>1. Informed(w, js)
    BY <1>7 DEF Sound
  <2>2. w.p.rows # NoRows =>
          w.p.rows.rr <= js[w.p.rows.id].rr /\ Sees(w.p.rows.id, w.p.selected.rr, w.p.rows.rr, js)
    BY <2>1 DEF Informed
  <2>3. \A h \in v.fs : h.op # "cancel"
    BY <1>2, <2>1 DEF Informed, Resumed
  <2>4. ASSUME NEW h \in v.fs, h.op = "review"
        PROVE  /\ h.rr <= js[h.id].rr /\ h.base <= js[h.id].rr
               /\ h.pc = "sent" => Sees(h.id, h.rr, h.base, js)
               /\ h.pc = "answered" => \A j \in h.seen : Sees(h.id, j.rr, h.base, js)
               /\ h.live /\ w.p.rows # NoRows /\ w.p.rows.id = h.id => h.base <= w.p.rows.rr
    <3>1. CASE h = g
      BY <1>7, <2>1, <2>4, <3>1 DEF Informed, Resumed
    <3>2. CASE h # g
      BY <1>2, <2>1, <2>4, <3>2 DEF Informed
    <3>3. QED  BY <3>1, <3>2
  <2>5. ASSUME NEW e \in v.fs, WantedRows(e), NEW r \in e.seen
        PROVE  /\ w.p.rows # NoRows /\ w.p.rows.id = e.id => w.p.rows.rr <= r.rr
               /\ w.p.selected # NoJob /\ w.p.selected.id = e.id => w.p.selected.rr <= r.rr
               /\ \A h \in v.fs : h.op = "review" /\ h.live /\ h.id = e.id => h.base <= r.rr
    <3>1. CASE e = g
      <4>1. r.rr = js[e.id].rr
        BY <2>5, <3>1 DEF WantedRows
      <4>2. w.p.selected # NoJob => w.p.selected.rr <= js[w.p.selected.id].rr
        BY <1>1 DEF Own, Known
      <4>3. QED  BY <2>2, <2>4, <4>1, <4>2
    <3>2. CASE e # g
      <4>1. e \in w.fs
        BY <1>2, <3>2
      <4>2. /\ w.p.rows # NoRows /\ w.p.rows.id = e.id => w.p.rows.rr <= r.rr
            /\ w.p.selected # NoJob /\ w.p.selected.id = e.id => w.p.selected.rr <= r.rr
            /\ \A h \in w.fs : h.op = "review" /\ h.live /\ h.id = e.id => h.base <= r.rr
        BY <2>1, <2>5, <4>1 DEF Informed
      <4>3. \A h \in v.fs : h.op = "review" /\ h.live /\ h.id = e.id => h.base <= r.rr
        BY <1>2, <4>2 DEF Resumed
      <4>4. QED  BY <4>2, <4>3
    <3>3. QED  BY <3>1, <3>2
  <2>6. QED  BY <1>2, <2>2, <2>3, <2>4, <2>5 DEF Informed
<1>8. Sound(v, js, sv, ids)
  BY <1>1, <1>2, <1>3, <1>4, <1>5, <1>6, <1>7 DEF Sound
<1>9. QED  BY <1>8 DEF v

\* The page when one of its requests has been replaced.
LEMMA PageOf ==
  ASSUME NEW f, NEW g, flights' = (flights \ {f}) \cup {g}, UNCHANGED <<panel, ctx>>
  PROVE  Page' = [Page EXCEPT !.fs = (@ \ {f}) \cup {g}]
BY DEF Page

\* What the server shows of an extraction.
LEMMA SeenKnown ==
  ASSUME SafeInv, NEW i \in DOMAIN jobs
  PROVE  /\ Seen(i) \in JobView /\ Seen(i).id = i /\ Known(Seen(i), jobs[i].course, jobs)
         /\ Seen(i).rr = jobs[i].rr /\ Seen(i).status = jobs[i].status
<1>1. i \in Nat \ {0}
  BY PageIs, LenProperties
<1>2. /\ jobs[i].course \in Courses /\ jobs[i].status \in Statuses /\ jobs[i].rev \in Nat /\ jobs[i].rr \in Nat
  BY PageIs, JobFields
<1>3. /\ Seen(i) \in JobView /\ Seen(i).id = i /\ Seen(i).rr = jobs[i].rr /\ Seen(i).status = jobs[i].status
      /\ Seen(i).course = jobs[i].course
  BY <1>1, <1>2 DEF Seen, JobView
<1>4. Known(Seen(i), jobs[i].course, jobs)
  BY <1>2, <1>3 DEF Known
<1>5. QED  BY <1>3, <1>4

\* A request fails.
LEMMA RefuseKeeps ==
  ASSUME SafeInv, NEW f \in flights, Refuse(f), UNCHANGED <<panel, ctx, jobs, saved>>,
         count' \in CountT, count'.ids = count.ids
  PROVE  SafeInv'
<1> DEFINE g == [f EXCEPT !.pc = "failed"]
<1>1. f \in FlightT /\ f \in Page.fs
  BY PageIs
<1>2. g \in FlightT /\ Resumed(g, f) /\ g.pc = "failed"
  BY <1>1 DEF FlightT, Resumed
<1>3. flights' = (flights \ {f}) \cup {g}
  BY DEF Refuse
<1> HIDE DEF g
<1>4. FlightOwn(f, jobs)
  BY <1>1 DEF SafeInv, Sound, Own
<1>5. FlightOwn(g, jobs)
  BY <1>2, <1>4 DEF FlightOwn, Resumed
<1>6. Sound([Page EXCEPT !.fs = (@ \ {f}) \cup {g}], jobs, saved, count.ids)
  BY <1>1, <1>2, <1>5, ResumedSound DEF SafeInv
<1>7. Page' = [Page EXCEPT !.fs = (@ \ {f}) \cup {g}]
  BY <1>3, PageOf
<1>8. QED  BY <1>6, <1>7 DEF SafeInv

\* A request is answered, of extractions that have gone on.
LEMMA ReplyKeeps ==
  ASSUME SafeInv, NEW f \in flights, NEW seen \in SUBSET (JobView \cup RowView), Reply(f, seen),
         UNCHANGED <<panel, ctx, saved, count>>, Sound(Page, jobs', saved, count.ids),
         \A g : Resumed(g, f) /\ g.pc = "answered" /\ g.seen = seen => Answer(g, jobs'),
         NoCancel /\ f.op = "review" => \A j \in seen : Sees(f.id, j.rr, f.base, jobs'),
         f.op = "rows" => \A r \in seen : r.rr = jobs'[f.id].rr
  PROVE  SafeInv'
<1> DEFINE g == [f EXCEPT !.pc = "answered", !.seen = seen]
<1>1. f \in FlightT /\ f \in Page.fs
  BY PageIs
<1>2. g \in FlightT /\ Resumed(g, f) /\ g.pc = "answered" /\ g.seen = seen
  BY <1>1 DEF FlightT, Resumed
<1>3. flights' = (flights \ {f}) \cup {g}
  BY DEF Reply
<1> HIDE DEF g
<1>4. FlightOwn(f, jobs')
  BY <1>1 DEF Sound, Own
<1>5. Answer(g, jobs')
  BY <1>2
<1>6. FlightOwn(g, jobs')
  BY <1>2, <1>4, <1>5 DEF FlightOwn, Resumed
<1>7. g.op = f.op /\ g.id = f.id /\ g.base = f.base
  BY <1>2 DEF Resumed
<1>8. Sound([Page EXCEPT !.fs = (@ \ {f}) \cup {g}], jobs', saved, count.ids)
  BY <1>1, <1>2, <1>6, <1>7, ResumedSound
<1>9. Page' = [Page EXCEPT !.fs = (@ \ {f}) \cup {g}]
  BY <1>3, PageOf
<1>10. QED  BY <1>8, <1>9 DEF SafeInv

\* One extraction goes on.
LEMMA JobGoesOn ==
  ASSUME SafeInv, NEW i \in DOMAIN jobs, NEW j \in JobT, jobs' = [jobs EXCEPT ![i] = j],
         j.course = jobs[i].course, j.rev = jobs[i].rev, j.form = jobs[i].form, j.req = jobs[i].req,
         jobs[i].rr <= j.rr, jobs[i].told => j.told,
         j.other = jobs[i].other \/ j.other > jobs[i].rr, j.other <= j.rr
  PROVE  /\ DOMAIN jobs' = DOMAIN jobs /\ jobs'[i] = j
         /\ Sound(Page, jobs', saved, count.ids)
<1>1. jobs \in Seq(JobT) /\ DOMAIN jobs = 1 .. Len(jobs) /\ Counted(jobs)
  BY PageIs, LenProperties DEF SafeInv, Sound
<1>2. /\ jobs' \in Seq(JobT) /\ Len(jobs') = Len(jobs)
      /\ \A k \in DOMAIN jobs : jobs'[k] = IF k = i THEN j ELSE jobs[k]
  BY <1>1, ExceptSeq
<1>3. DOMAIN jobs' = DOMAIN jobs
  BY <1>1, <1>2, LenProperties
<1>4. \A k \in DOMAIN jobs : jobs[k].rr \in Nat
  BY <1>1, JobFields
<1>5. Grows(jobs, jobs')
  BY <1>1, <1>2, <1>3, <1>4 DEF Grows
<1>6. Counted(jobs')
  BY <1>1, <1>2, <1>3 DEF Counted
<1>7. Sound(Page, jobs', saved, count.ids)
  BY <1>3, <1>5, <1>6, SoundGrows DEF SafeInv
<1>8. QED  BY <1>2, <1>3, <1>7

\* The worker changes an extraction.
LEMMA WorkKeeps == ASSUME SafeInv, NEW i \in DOMAIN jobs, Work(i) PROVE SafeInv'
<1>1. PICK s \in Statuses : jobs' = [jobs EXCEPT ![i].status = s]
  BY DEF Work, Statuses, Active
<1> DEFINE j == [jobs[i] EXCEPT !.status = s]
<1>2. jobs[i] \in JobT /\ jobs[i].rr \in Nat
  BY PageIs, JobFields
<1>3. /\ j \in JobT /\ j.course = jobs[i].course /\ j.rev = jobs[i].rev /\ j.form = jobs[i].form
      /\ j.req = jobs[i].req /\ j.rr = jobs[i].rr /\ j.told = jobs[i].told /\ j.other = jobs[i].other
  BY <1>2 DEF JobT
<1>4. jobs' = [jobs EXCEPT ![i] = j]
  BY <1>1
<1> HIDE DEF j
<1>5. jobs[i].rr <= j.rr /\ (jobs[i].told => j.told) /\ j.other <= j.rr
  BY <1>2, <1>3 DEF SafeInv, Sound, Counted
<1>6. Sound(Page, jobs', saved, count.ids)
  BY <1>3, <1>4, <1>5, JobGoesOn
<1>7. Page' = Page /\ saved' = saved /\ count' = count
  BY DEF Work, Page
<1>8. QED  BY <1>6, <1>7 DEF SafeInv

\* Another tab reviews an extraction.
LEMMA ReviewElsewhereKeeps == ASSUME SafeInv, NEW i \in DOMAIN jobs, ReviewElsewhere(i) PROVE SafeInv'
<1> DEFINE j == [jobs[i] EXCEPT !.rr = @ + 1, !.other = jobs[i].rr + 1]
<1>1. jobs[i] \in JobT /\ jobs[i].rr \in Nat
  BY PageIs, JobFields
<1>2. /\ j \in JobT /\ j.course = jobs[i].course /\ j.rev = jobs[i].rev /\ j.form = jobs[i].form
      /\ j.req = jobs[i].req /\ j.rr = jobs[i].rr + 1 /\ j.told = jobs[i].told /\ j.other = jobs[i].rr + 1
  <2> DEFINE more == jobs[i].rr + 1
  <2>1. j = [jobs[i] EXCEPT !.rr = more, !.other = more] /\ more \in Nat
    BY <1>1 DEF JobT
  <2> HIDE DEF j, more
  <2>2. /\ j \in JobT /\ j.course = jobs[i].course /\ j.rev = jobs[i].rev /\ j.form = jobs[i].form
        /\ j.req = jobs[i].req /\ j.rr = more /\ j.told = jobs[i].told /\ j.other = more
    BY <1>1, <2>1 DEF JobT
  <2>3. QED  BY <2>2 DEF more
<1>3. jobs' = [jobs EXCEPT ![i] = j]
  BY DEF ReviewElsewhere
<1> HIDE DEF j
<1>4. Sound(Page, jobs', saved, count.ids)
  <2>1. jobs[i].rr <= j.rr /\ (jobs[i].told => j.told) /\ j.other > jobs[i].rr /\ j.other <= j.rr
    BY <1>1, <1>2
  <2>2. QED  BY <1>2, <1>3, <2>1, JobGoesOn
<1>5. Page' = Page /\ saved' = saved /\ count' \in CountT /\ count'.ids = count.ids
  BY Bumped, PageIs DEF ReviewElsewhere, Page, Fields
<1>6. QED  BY <1>4, <1>5 DEF SafeInv

\* A request or its answer is lost.
LEMMA LoseKeeps == ASSUME SafeInv, NEW f \in flights, Lose(f) PROVE SafeInv'
<1>1. count' \in CountT /\ count'.ids = count.ids
  BY Bumped, PageIs DEF Lose, Fields
<1>2. QED  BY <1>1, RefuseKeeps DEF Lose

\* The server answers what was asked for.
LEMMA ServeReadKeeps == ASSUME SafeInv, NEW f \in flights, ServeRead(f) PROVE SafeInv'
<1>1. f.op \in {"list", "open", "rows"} /\ UNCHANGED <<panel, ctx, jobs, saved, count>>
  BY DEF ServeRead
<1>2. Sound(Page, jobs', saved, count.ids) /\ jobs' = jobs
  BY <1>1 DEF SafeInv
<1>3. f \in Page.fs /\ f \in FlightT /\ FlightOwn(f, jobs)
  BY PageIs DEF SafeInv, Sound, Own
<1>4. CASE f.op = "list"
  <2> DEFINE seen == {Seen(i) : i \in {k \in DOMAIN jobs : jobs[k].course = f.of}}
  <2>1. \A j \in seen : j \in JobView /\ Known(j, f.of, jobs)
    BY SeenKnown
  <2>2. Reply(f, seen)
    BY <1>4 DEF ServeRead
  <2> HIDE DEF seen
  <2>3. \A g : Resumed(g, f) /\ g.pc = "answered" /\ g.seen = seen => Answer(g, jobs')
    BY <1>2, <1>4, <2>1 DEF Answer, Resumed
  <2>4. QED  BY <1>1, <1>2, <1>4, <2>1, <2>2, <2>3, ReplyKeeps
<1>5. CASE f.op = "open"
  <2>1. f.id \in DOMAIN jobs /\ jobs[f.id].course = f.of
    BY <1>3, <1>5 DEF FlightOwn, OfOneJob
  <2> DEFINE seen == {Seen(f.id)}
  <2>2. \A j \in seen : j \in JobView /\ Known(j, f.of, jobs) /\ j.id = f.id
    BY <2>1, SeenKnown
  <2>3. Reply(f, seen) /\ seen # {}
    BY <1>5 DEF ServeRead
  <2> HIDE DEF seen
  <2>4. \A g : Resumed(g, f) /\ g.pc = "answered" /\ g.seen = seen => Answer(g, jobs')
    BY <1>2, <1>5, <2>2, <2>3 DEF Answer, Resumed
  <2>5. QED  BY <1>1, <1>2, <1>5, <2>2, <2>3, <2>4, ReplyKeeps
<1>6. CASE f.op = "rows"
  <2>1. f.id \in DOMAIN jobs
    BY <1>3, <1>6 DEF FlightOwn, OfOneJob
  <2>2. f.id \in Nat \ {0} /\ f.view \in Views /\ jobs[f.id].rr \in Nat
    BY <1>3, <2>1, PageIs, LenProperties, JobFields DEF FlightT
  <2> DEFINE seen == {RowsOf(f)}
  <2>3. \A r \in seen : r \in RowView /\ r.id = f.id /\ r.rr = jobs[f.id].rr
    BY <2>2 DEF RowsOf, RowView
  <2>4. Reply(f, seen) /\ seen # {}
    BY <1>6 DEF ServeRead
  <2> HIDE DEF seen
  <2>5. \A g : Resumed(g, f) /\ g.pc = "answered" /\ g.seen = seen => Answer(g, jobs')
    BY <1>2, <1>6, <2>2, <2>3, <2>4 DEF Answer, Resumed
  <2>6. QED  BY <1>1, <1>2, <1>6, <2>3, <2>4, <2>5, ReplyKeeps
<1>7. QED  BY <1>1, <1>4, <1>5, <1>6

\* The server cancels or counts a review, or refuses.
LEMMA ServeMutationKeeps == ASSUME SafeInv, NEW f \in flights, ServeMutation(f) PROVE SafeInv'
<1>1. /\ f.op \in {"cancel", "review"} /\ f.pc = "sent" /\ UNCHANGED <<panel, ctx, saved, count>>
  BY DEF ServeMutation
<1>2. f \in Page.fs /\ f \in FlightT /\ FlightOwn(f, jobs)
  BY PageIs DEF SafeInv, Sound, Own
<1>3. CASE Refuse(f) /\ UNCHANGED jobs
  BY <1>1, <1>3, RefuseKeeps, PageIs
<1> DEFINE j == Mutated(f)
<1> DEFINE seen == {[Seen(f.id) EXCEPT !.status = j.status, !.rr = j.rr]}
<1>4. CASE /\ ~(f.rev # saved[f.of] \/ (f.op = "review" /\ (jobs[f.id].rr # f.rr \/ jobs[f.id].rev # f.rev)))
           /\ jobs' = [jobs EXCEPT ![f.id] = j]
           /\ Reply(f, seen)
  <2>1. f.id \in DOMAIN jobs /\ jobs[f.id].course = f.of
    BY <1>1, <1>2 DEF FlightOwn, OfOneJob
  <2>2. jobs[f.id] \in JobT /\ jobs[f.id].rr \in Nat /\ jobs[f.id].other \in Nat
    BY <2>1, PageIs, JobFields
  <2>3. /\ j \in JobT /\ j.course = jobs[f.id].course /\ j.rev = jobs[f.id].rev /\ j.form = jobs[f.id].form
        /\ j.req = jobs[f.id].req /\ j.told = jobs[f.id].told /\ j.other = jobs[f.id].other
        /\ j.rr = jobs[f.id].rr \/ j.rr = jobs[f.id].rr + 1
    BY <1>1, <2>2 DEF Mutated, JobT, Statuses, Active
  <2> HIDE DEF j
  <2>4. jobs[f.id].other <= jobs[f.id].rr
    BY <2>1 DEF SafeInv, Sound, Counted
  <2>5. /\ DOMAIN jobs' = DOMAIN jobs /\ jobs'[f.id] = j
        /\ Sound(Page, jobs', saved, count.ids)
    <3>1. jobs[f.id].rr <= j.rr /\ (jobs[f.id].told => j.told) /\ j.other <= j.rr
      BY <2>2, <2>3, <2>4
    <3>2. QED  BY <1>4, <2>1, <2>3, <3>1, JobGoesOn
  <2>6. /\ Seen(f.id) \in JobView /\ Seen(f.id).id = f.id /\ Known(Seen(f.id), f.of, jobs)
    BY <2>1, SeenKnown
  <2>7. \A k \in seen : k \in JobView /\ k.id = f.id /\ k.course = f.of /\ k.rr = j.rr
    BY <2>3, <2>6 DEF JobView, JobT, Known
  <2>8. seen # {}
    OBVIOUS
  <2> HIDE DEF seen
  <2>9. \A k \in seen : Known(k, f.of, jobs')
    BY <2>1, <2>3, <2>5, <2>7 DEF Known, JobT
  <2>10. \A g : Resumed(g, f) /\ g.pc = "answered" /\ g.seen = seen => Answer(g, jobs')
    BY <1>1, <2>7, <2>8, <2>9 DEF Answer, Resumed
  <2>11. ASSUME NoCancel, f.op = "review", NEW k \in seen PROVE Sees(f.id, k.rr, f.base, jobs')
    <3>1. Sees(f.id, f.rr, f.base, jobs) /\ f.rr = jobs[f.id].rr
      BY <1>1, <1>2, <1>4, <2>11 DEF SafeInv, Sound, Informed
    <3>2. jobs'[f.id].other = jobs[f.id].other
      BY <2>3, <2>5
    <3>3. QED  BY <2>4, <3>1, <3>2 DEF Sees
  <2>12. QED  BY <1>1, <1>4, <2>5, <2>7, <2>10, <2>11, ReplyKeeps
<1>5. QED  BY <1>3, <1>4 DEF ServeMutation

\* The server starts an extraction, or finds the one it has started.
LEMMA ServeStartKeeps == ASSUME SafeInv, NEW f \in flights, ServeStart(f) PROVE SafeInv'
<1> DEFINE known == {i \in DOMAIN jobs : jobs[i].req = f.id}
<1> DEFINE new == Len(jobs) + 1
<1> DEFINE job == [course |-> f.of, status |-> "queued", rev |-> f.rev, rr |-> 0,
                   req |-> f.id, form |-> f.form, told |-> FALSE, other |-> 0]
<1> DEFINE made == [id |-> new, course |-> f.of, status |-> "queued", rev |-> f.rev,
                    rr |-> 0, stale |-> FALSE]
<1>1. /\ f.op = "start" /\ UNCHANGED <<panel, ctx, saved, count>>
      /\ \/ Refuse(f) /\ UNCHANGED jobs
         \/ known # {} /\ Reply(f, {Seen(i) : i \in known}) /\ UNCHANGED jobs
         \/ known = {} /\ jobs' = Append(jobs, job) /\ Reply(f, {made})
  BY DEF ServeStart
<1>2. f \in Page.fs /\ f \in FlightT /\ FlightOwn(f, jobs) /\ f \in Starts(Page)
  BY <1>1, PageIs DEF SafeInv, Sound, Own, Starts
<1>3. f.of \in Courses /\ f.id \in Nat \ {0} /\ f.rev \in Nat /\ f.form \in Nat
  <2>1. f.id # 0
    BY <1>2 DEF SafeInv, Sound, Once
  <2>2. QED  BY <1>2, <2>1 DEF FlightOwn, FlightT
<1>4. Own(Page, jobs) /\ Shown(Page) /\ OneChange(Page) /\ Once(Page, jobs, saved, count.ids) /\ Counted(jobs)
  BY DEF SafeInv, Sound
<1>5. CASE Refuse(f) /\ UNCHANGED jobs
  BY <1>1, <1>5, RefuseKeeps, PageIs
<1>6. CASE known # {} /\ Reply(f, {Seen(i) : i \in known}) /\ UNCHANGED jobs
  <2> DEFINE seen == {Seen(i) : i \in known}
  <2>1. \A j \in seen : j \in JobView /\ Known(j, f.of, jobs) /\ jobs[j.id].req = f.id
    <3> TAKE j \in seen
    <3>1. PICK i \in known : j = Seen(i)
      OBVIOUS
    <3>2. KeyOf(f) = Key(jobs[i])
      BY <1>2, <1>4, <3>1 DEF Once
    <3>3. jobs[i].course = f.of
      BY <3>2 DEF Key, KeyOf
    <3>4. QED  BY <3>1, <3>3, SeenKnown
  <2>2. seen # {} /\ Reply(f, seen) /\ jobs' = jobs
    BY <1>6
  <2> HIDE DEF seen, known
  <2>3. \A g : Resumed(g, f) /\ g.pc = "answered" /\ g.seen = seen => Answer(g, jobs')
    BY <1>1, <2>1, <2>2 DEF Answer, Resumed
  <2>4. Sound(Page, jobs', saved, count.ids)
    BY <2>2 DEF SafeInv
  <2>5. QED  BY <1>1, <2>1, <2>2, <2>3, <2>4, ReplyKeeps
<1>7. CASE known = {} /\ jobs' = Append(jobs, job) /\ Reply(f, {made})
  <2>1. job \in JobT /\ job.req = f.id /\ Key(job) = KeyOf(f) /\ job.course = f.of /\ job.other = 0 /\ job.rr = 0
    BY <1>3 DEF JobT, Statuses, Active, Key, KeyOf
  <2>2. ~Made(f.id, jobs)
    BY <1>7 DEF Made
  <2> HIDE DEF known, job
  <2>3. jobs \in Seq(JobT) /\ Len(jobs) \in Nat /\ DOMAIN jobs = 1 .. Len(jobs)
    BY PageIs, LenProperties
  <2>4. Once(Page, jobs', saved, count.ids)
    BY <1>2, <1>4, <1>7, <2>1, <2>2, <2>3, OnceAdded
  <2>5. /\ jobs' \in Seq(JobT) /\ Len(jobs') = new /\ jobs'[new] = job
        /\ \A i \in DOMAIN jobs : jobs'[i] = jobs[i]
    BY <1>7, <2>1, <2>3, AppendProperties
  <2>6. DOMAIN jobs' = DOMAIN jobs \cup {new}
    <3>1. DOMAIN jobs' = 1 .. new
      BY <2>5, LenProperties
    <3>2. QED  BY <2>3, <3>1
  <2>7. \A i \in DOMAIN jobs : jobs[i].rr \in Nat
    BY <2>3, JobFields
  <2>8. Grows(jobs, jobs')
    BY <2>3, <2>5, <2>6, <2>7 DEF Grows
  <2>9. Counted(jobs')
    BY <1>4, <2>1, <2>5, <2>6 DEF Counted
  <2>10. Own(Page, jobs') /\ (NoCancel => Informed(Page, jobs'))
    BY <1>4, <2>8, PageIs, OwnGrows, InformedGrows DEF SafeInv, Sound
  <2>11. Sound(Page, jobs', saved, count.ids)
    BY <1>4, <2>4, <2>5, <2>9, <2>10, PageIs DEF Sound
  <2>12. made \in JobView /\ made.id = new /\ made.course = f.of /\ made.rr = 0
    BY <1>3, <2>3 DEF JobView, Statuses, Active
  <2> HIDE DEF made, new
  <2>13. Known(made, f.of, jobs') /\ jobs'[made.id].req = f.id
    BY <2>1, <2>5, <2>6, <2>12 DEF Known
  <2>14. \A g : Resumed(g, f) /\ g.pc = "answered" /\ g.seen = {made} => Answer(g, jobs')
    BY <1>1, <2>13 DEF Answer, Resumed
  <2>15. QED  BY <1>1, <1>7, <2>11, <2>12, <2>14, ReplyKeeps
<1>8. QED  BY <1>1, <1>5, <1>6, <1>7

-----------------------------------------------------------------------------
(* What becomes of an answer.                                              *)

\* Request f has left page w, of which it was one.
Arrived(w, f, js) ==
  /\ f \in FlightT /\ FlightOwn(f, js)
  /\ f.live /\ f.then \cap Changes # {} => Free(w) /\ (w.p.active => w.p.busy)
  /\ w.p.active /\ f.live => f.of = w.p.course /\ w.p.course \in Courses
  /\ f.op \in Selection /\ f.latest => \A g \in w.fs : g.op \in Selection => ~g.latest
  /\ f.op = "start" /\ w.p.active /\ f.live => w.p.pending.id \in {0, f.id}
  /\ NoCancel =>
       /\ f.op # "cancel"
       /\ f.op = "review" =>
            /\ f.pc = "answered" => \A j \in f.seen : Sees(f.id, j.rr, f.base, js)
            /\ f.live /\ w.p.rows # NoRows /\ w.p.rows.id = f.id => f.base <= w.p.rows.rr
       /\ WantedRows(f) => \A r \in f.seen :
            /\ w.p.selected # NoJob /\ w.p.selected.id = f.id => w.p.selected.rr <= r.rr
            /\ \A g \in w.fs : g.op = "review" /\ g.live /\ g.id = f.id => g.base <= r.rr

\* A request that has landed is no longer under way, and what it brought is
\* of the page's course while it is wanted.
LEMMA LandedArrived ==
  ASSUME NEW u, NEW js, NEW sv, NEW ids, Sound(u, js, sv, ids), NEW f \in u.fs
  PROVE  LET w == [u EXCEPT !.fs = @ \ {f}]
         IN  Sound(w, js, sv, ids) /\ Arrived(w, f, js) /\ w.p = u.p /\ w.c = u.c
<1> DEFINE w == [u EXCEPT !.fs = @ \ {f}]
<1>1. Sound(w, js, sv, ids)
  BY LandedSound
<1>2. u \in PageT /\ Own(u, js) /\ Shown(u) /\ OneChange(u) /\ Once(u, js, sv, ids)
  BY DEF Sound
<1>3. w.p = u.p /\ w.c = u.c /\ w.fs = u.fs \ {f} /\ f \in FlightT
  BY <1>2 DEF PageT
<1> HIDE DEF w
<1>4. FlightOwn(f, js) /\ (w.p.active /\ f.live => f.of = w.p.course /\ w.p.course \in Courses)
  BY <1>2, <1>3 DEF Own
<1>5. f.live /\ f.then \cap Changes # {} => Free(w) /\ (w.p.active => w.p.busy)
  BY <1>2, <1>3 DEF OneChange, OneLive, Changing, Free
<1>6. f.op \in Selection /\ f.latest => \A g \in w.fs : g.op \in Selection => ~g.latest
  BY <1>2, <1>3 DEF Shown, OneLatest
<1>7. f.op = "start" /\ w.p.active /\ f.live => w.p.pending.id \in {0, f.id}
  BY <1>2, <1>3 DEF Once, Starts
<1>8. ASSUME NoCancel
      PROVE  /\ f.op # "cancel"
             /\ f.op = "review" =>
                  /\ f.pc = "answered" => \A j \in f.seen : Sees(f.id, j.rr, f.base, js)
                  /\ f.live /\ w.p.rows # NoRows /\ w.p.rows.id = f.id => f.base <= w.p.rows.rr
             /\ WantedRows(f) => \A r \in f.seen :
                  /\ w.p.selected # NoJob /\ w.p.selected.id = f.id => w.p.selected.rr <= r.rr
                  /\ \A g \in w.fs : g.op = "review" /\ g.live /\ g.id = f.id => g.base <= r.rr
  <2>1. Informed(u, js)
    BY <1>8 DEF Sound
  <2>2. QED  BY <1>3, <2>1 DEF Informed
<1>9. Arrived(w, f, js)
  BY <1>3, <1>4, <1>5, <1>6, <1>7, <1>8 DEF Arrived
<1>10. QED  BY <1>1, <1>3, <1>9 DEF w

\* The answer to a request that is current.
LEMMA CurrentArrived ==
  ASSUME NEW w, NEW f, NEW js, Arrived(w, f, js), Current(w, f)
  PROVE  /\ f \in FlightT /\ f.then \in SUBSET Thens /\ f.live /\ w.p.active
         /\ f.of = w.p.course /\ w.p.course \in Courses
         /\ f.then \cap Changes # {} => Free(w) /\ w.p.busy
         /\ (f.then \cup {"schedule"}) \in SUBSET Thens
         /\ (f.then \cup {"schedule"}) \cap Changes # {} => Free(w) /\ w.p.busy
BY DEF Arrived, Current, FlightT, Thens, Changes

\* An answer nobody wants changes nothing but what waits for it.
LEMMA DroppedSound ==
  ASSUME PanelSizes, NEW w, NEW f, NEW js, NEW sv, NEW ids, Sound(w, js, sv, ids), Arrived(w, f, js)
  PROVE  Sound(Over(w, f, f.then), js, sv, ids)
BY OverSound DEF Arrived, FlightT

\* A failure is reported.
LEMMA FailureSound ==
  ASSUME PanelSizes, NEW w, NEW f, NEW js, NEW sv, NEW ids, Sound(w, js, sv, ids), Arrived(w, f, js),
         Current(w, f)
  PROVE  Sound(Failure(w, f), js, sv, ids)
<1> DEFINE what == IF f.op = "list" THEN "list" ELSE "other"
<1> DEFINE v == Reported(w, what)
<1>1. what \in {"list", "other"}
  OBVIOUS
<1>2. Sound(v, js, sv, ids) /\ v.c = w.c /\ v.fs = w.fs /\ v.p = [w.p EXCEPT !.failed = IF @ = "list" THEN @ ELSE what]
  BY <1>1, ReportedSound
<1> HIDE DEF v
<1>3. w \in PageT /\ w.p \in PanelT /\ v \in PageT
  BY <1>2 DEF Sound, PageT
<1>4. v.p.course = w.p.course /\ v.p.busy = w.p.busy /\ (Free(w) => Free(v))
  BY <1>2, <1>3 DEF PanelT, Free
<1>5. /\ f.then \in SUBSET Thens /\ w.p.course \in Courses /\ f.of = w.p.course
      /\ f.then \cap Changes # {} => Free(w) /\ w.p.busy
  BY CurrentArrived
<1>6. CASE f.op = "list"
  <2> DEFINE u == [v EXCEPT !.p.timer = FALSE]
  <2>1. Sound(u, js, sv, ids) /\ u.fs = v.fs
    BY <1>2, <1>3, TimerStops DEF PageT
  <2> HIDE DEF u
  <2>2. Sound(Over(u, f, f.then), js, sv, ids)
    BY <1>4, <1>5, <2>1, OverSound DEF Free
  <2>3. QED  BY <1>6, <2>2 DEF Failure, v, u
<1>7. CASE f.op \in {"cancel", "review"} /\ w.p.selected # NoJob /\ w.p.selected.id = f.id
  <2>1. f.id \in DOMAIN js /\ js[f.id].course = f.of
    BY <1>7 DEF Arrived, FlightOwn, OfOneJob
  <2>2. Sound(Opening(v, f.id, FALSE, f.then), js, sv, ids)
    BY <1>2, <1>4, <1>5, <2>1, OpeningSound
  <2>3. QED  BY <1>7, <2>2 DEF Failure, v
<1>8. CASE ~(f.op = "list") /\ ~(f.op \in {"cancel", "review"} /\ w.p.selected # NoJob /\ w.p.selected.id = f.id)
  <2>1. Sound(Over(v, f, f.then), js, sv, ids)
    BY <1>2, <1>4, <1>5, OverSound
  <2>2. Failure(w, f) = Over(v, f, f.then)
    BY <1>8 DEF Failure, v
  <2>3. QED  BY <2>1, <2>2
<1>9. QED  BY <1>6, <1>7, <1>8

\* Another list of jobs.
LEMMA ListedSound ==
  ASSUME NEW w, NEW js, NEW sv, NEW ids, Sound(w, js, sv, ids),
         NEW seen \in SUBSET JobView, \A j \in seen : Known(j, w.p.course, js)
  PROVE  LET v == [w EXCEPT !.p.jobs = seen]
         IN  /\ Sound(v, js, sv, ids) /\ v.c = w.c /\ v.fs = w.fs
             /\ v.p = [w.p EXCEPT !.jobs = seen]
<1> DEFINE q == [w.p EXCEPT !.jobs = seen]
<1> DEFINE v == [w EXCEPT !.p = q]
<1>1. w \in PageT /\ w.p \in PanelT
  BY DEF Sound, PageT
<1>2. /\ q \in PanelT /\ q.course = w.p.course /\ q.active = w.p.active /\ q.jobs = seen
      /\ q.selected = w.p.selected /\ q.rows = w.p.rows /\ q.pending = w.p.pending
      /\ q.form = w.p.form /\ q.busy = w.p.busy /\ q.timer = w.p.timer /\ q.shown = w.p.shown
  BY <1>1 DEF PanelT
<1>3. [w EXCEPT !.p.jobs = seen] = v
  BY <1>1 DEF PageT
<1>4. v.p = q /\ v.c = w.c /\ v.fs = w.fs
  BY <1>1 DEF PageT
<1>5. Own(w, js) /\ Detail(q)
  BY <1>2 DEF Sound, Shown, Detail
<1>6. Sound(v, js, sv, ids)
  <2> HIDE DEF q
  <2>1. QED  BY <1>2, <1>4, <1>5, PanelChanges DEF Own
<1>7. QED  BY <1>3, <1>4, <1>6

\* The list arrives.
LEMMA ListOkSound ==
  ASSUME PanelSizes, NEW w, NEW f, NEW js, NEW sv, NEW ids, Sound(w, js, sv, ids), Arrived(w, f, js),
         Current(w, f), f.op = "list", f.pc = "answered"
  PROVE  Sound(ListOk(w, f), js, sv, ids)
<1> DEFINE v == [w EXCEPT !.p.jobs = f.seen]
<1> DEFINE same == {j \in f.seen : v.p.selected # NoJob /\ j.id = v.p.selected.id}
<1> DEFINE j0 == CHOOSE j \in same : TRUE
<1> DEFINE u == IF \E j \in same : j.status \in Active
                THEN Rendered([v EXCEPT !.p.selected = j0]) ELSE v
<1>1. ListOk(w, f) = IF \E j \in same : Differs(v.p.selected, j)
                     THEN Opening(v, v.p.selected.id, FALSE, f.then \cup {"schedule"})
                     ELSE Over(Scheduled(u), f, f.then)
  BY DEF ListOk
<1>2. /\ f.then \in SUBSET Thens /\ (f.then \cup {"schedule"}) \in SUBSET Thens
      /\ w.p.course \in Courses /\ f.of = w.p.course
      /\ f.then \cap Changes # {} => Free(w)
      /\ (f.then \cup {"schedule"}) \cap Changes # {} => Free(w) /\ w.p.busy
  BY CurrentArrived
<1>3. \A j \in f.seen : Known(j, w.p.course, js) /\ j \in JobView
  BY <1>2 DEF Arrived, FlightOwn, Answer, Known
<1>4. /\ Sound(v, js, sv, ids) /\ v.c = w.c /\ v.fs = w.fs
      /\ v.p = [w.p EXCEPT !.jobs = f.seen]
  BY <1>3, ListedSound
<1>5. w \in PageT /\ w.p \in PanelT /\ js \in Seq(JobT) /\ v \in PageT
  BY <1>4 DEF Sound, PageT
<1>6. /\ v.p \in PanelT /\ v.p.course = w.p.course /\ v.p.busy = w.p.busy /\ v.p.jobs = f.seen
      /\ Free(w) => Free(v)
  BY <1>4, <1>5 DEF PageT, PanelT, Free
<1> HIDE DEF v
<1>7. ASSUME \E j \in same : Differs(v.p.selected, j)
      PROVE  Sound(Opening(v, v.p.selected.id, FALSE, f.then \cup {"schedule"}), js, sv, ids)
  <2>1. v.p.selected # NoJob
    BY <1>7
  <2>2. v.p.selected.id \in DOMAIN js /\ js[v.p.selected.id].course = v.p.course
    BY <1>4, <2>1 DEF Sound, Own, Known
  <2>3. QED  BY <1>2, <1>4, <1>6, <2>2, OpeningSound
<1>8. ASSUME ~\E j \in same : Differs(v.p.selected, j)
      PROVE  Sound(u, js, sv, ids) /\ u.fs = v.fs
  <2>1. CASE \E j \in same : j.status \in Active
    <3>1. j0 \in same
      BY <2>1
    <3>2. ~Differs(v.p.selected, j0)
      BY <1>8, <3>1
    <3> DEFINE q == [v.p EXCEPT !.selected = j0]
    <3> DEFINE x == [v EXCEPT !.p = q]
    <3>3. [v EXCEPT !.p.selected = j0] = x
      BY <1>4 DEF Sound, PageT
    <3>4. /\ j0 \in JobView /\ Known(j0, v.p.course, js) /\ v.p.selected # NoJob
          /\ j0.id = v.p.selected.id /\ j0.rr = v.p.selected.rr
      BY <1>3, <1>6, <3>1, <3>2 DEF Differs
    <3> HIDE DEF j0, same
    <3>5. /\ q \in PanelT /\ q.course = v.p.course /\ q.active = v.p.active /\ q.jobs = v.p.jobs
          /\ q.selected = j0 /\ q.rows = v.p.rows /\ q.pending = v.p.pending
          /\ q.form = v.p.form /\ q.busy = v.p.busy /\ q.timer = v.p.timer /\ q.shown = v.p.shown
      BY <1>6, <3>4 DEF PanelT
    <3> HIDE DEF q
    <3>6. v \in PageT /\ x \in PageT /\ x.p = q /\ x.fs = v.fs /\ x.c = v.c
      BY <1>4, <3>5 DEF Sound, PageT
    <3> HIDE DEF x
    <3>7. Own(v, js) /\ Shown(v) /\ OneChange(v) /\ j0 # NoJob
      BY <1>4, <3>4, NoneOfThem DEF Sound
    <3>8. Fades(x.fs, v.fs) /\ OneLatest(x.fs) /\ OneLive(x.fs)
      BY <3>6, <3>7 DEF Fades, Faded, Shown, OneChange
    <3>9. /\ x.p.active => x.p.course \in Courses
          /\ ~x.p.active => ~x.p.timer /\ ~x.p.busy
          /\ \A j \in x.p.jobs : Known(j, x.p.course, js)
          /\ Known(x.p.selected, x.p.course, js)
          /\ \A g \in x.fs : x.p.active /\ Changing(g) => x.p.busy
      BY <3>4, <3>5, <3>6, <3>7 DEF Own, OneChange
    <3>10. (x.p.rows # NoRows => x.p.selected # NoJob /\ x.p.rows.id = x.p.selected.id) /\ Detail(x.p)
      BY <3>4, <3>5, <3>6, <3>7 DEF Shown, Detail
    <3>11. /\ sv \in [Courses -> Nat] /\ ids \in Nat /\ ids <= ids /\ \A c \in Courses : sv[c] <= sv[c]
           /\ x.c.course \in Courses => x.c.rev = sv[x.c.course]
      BY <1>4, <3>6 DEF Sound, Once, Pending
    <3>12. /\ x.p.form = v.p.form /\ x.p.pending = v.p.pending /\ x.p.course = v.p.course
           /\ x.p.active => v.p.active
           /\ x.p.rows = v.p.rows /\ x.p.selected.rr = v.p.selected.rr
           /\ v.p.selected # NoJob /\ x.p.selected.id = v.p.selected.id
      BY <3>4, <3>5, <3>6
    <3>13. Sound(x, js, sv, ids)
      BY <1>4, <3>6, <3>8, <3>9, <3>10, <3>11, <3>12, SoundFades
    <3>14. Sound(Rendered(x), js, sv, ids) /\ Rendered(x).fs = x.fs
      BY <3>13, RenderedSound DEF Same
    <3>15. QED  BY <2>1, <3>3, <3>6, <3>14
  <2>2. CASE ~\E j \in same : j.status \in Active
    BY <1>4, <2>2
  <2>3. QED  BY <2>1, <2>2
<1> HIDE DEF u
<1>9. ASSUME ~\E j \in same : Differs(v.p.selected, j)
      PROVE  Sound(Over(Scheduled(u), f, f.then), js, sv, ids)
  <2>1. Sound(u, js, sv, ids) /\ u.fs = v.fs
    BY <1>8, <1>9
  <2>2. Sound(Scheduled(u), js, sv, ids) /\ Scheduled(u).fs = v.fs
    BY <2>1, ScheduledSound DEF Same
  <2>3. QED  BY <1>2, <1>4, <2>2, OverSound DEF Free
<1> HIDE DEF same
<1>10. QED  BY <1>1, <1>7, <1>9

\* Another job is selected, whose rows are still to be read.
LEMMA SelectedSound ==
  ASSUME PanelSizes, NEW w, NEW v, NEW js, NEW sv, NEW ids, Sound(w, js, sv, ids),
         NEW j \in JobView, Known(j, w.p.course, js), \A g \in w.fs : g.op \in Selection => ~g.latest,
         v = Loading([w EXCEPT !.p.selected = j, !.p.rows = NoRows])
  PROVE  /\ Sound(v, js, sv, ids) /\ v.c = w.c /\ v.fs = w.fs
         /\ v.p = [w.p EXCEPT !.selected = j, !.rows = NoRows, !.shown = NoDetail]
<1> DEFINE q == [w.p EXCEPT !.selected = j, !.rows = NoRows, !.shown = NoDetail]
<1>1. w \in PageT /\ w.p \in PanelT /\ js \in Seq(JobT) /\ sv \in [Courses -> Nat] /\ ids \in Nat
  BY DEF Sound, PageT
<1>2. v = [w EXCEPT !.p = q]
  BY <1>1 DEF Loading, PageT, PanelT
<1>3. /\ q \in PanelT /\ q.course = w.p.course /\ q.active = w.p.active /\ q.jobs = w.p.jobs
      /\ q.selected = j /\ q.rows = NoRows /\ q.pending = w.p.pending /\ q.shown = NoDetail
      /\ q.form = w.p.form /\ q.busy = w.p.busy /\ q.timer = w.p.timer
  <2>1. NoDetail \in DetailView
    BY ClosedType
  <2>2. QED  BY <1>1, <2>1 DEF PanelT
<1> HIDE DEF q
<1>4. v \in PageT /\ v.p = q /\ v.fs = w.fs /\ v.c = w.c
  BY <1>1, <1>2, <1>3 DEF PageT
<1>5. Own(w, js) /\ Shown(w) /\ OneChange(w)
  BY DEF Sound
<1>6. Fades(v.fs, w.fs) /\ OneLatest(v.fs) /\ OneLive(v.fs)
  BY <1>4, <1>5 DEF Fades, Faded, Shown, OneChange
<1>7. /\ v.p.active => v.p.course \in Courses
      /\ ~v.p.active => ~v.p.timer /\ ~v.p.busy
      /\ \A k \in v.p.jobs : Known(k, v.p.course, js)
      /\ Known(v.p.selected, v.p.course, js)
      /\ \A g \in v.fs : v.p.active /\ Changing(g) => v.p.busy
      /\ v.p.rows = NoRows
  BY <1>3, <1>4, <1>5 DEF Own, OneChange
<1>8. Detail(v.p)
  BY <1>3, <1>4 DEF Detail, NoDetail
<1>9. /\ sv \in [Courses -> Nat] /\ ids \in Nat /\ ids <= ids /\ \A c \in Courses : sv[c] <= sv[c]
      /\ v.c.course \in Courses => v.c.rev = sv[v.c.course]
  BY <1>1, <1>4 DEF Sound, Once, Pending
<1>10. /\ v.p.form = w.p.form /\ v.p.pending = w.p.pending /\ v.p.course = w.p.course
       /\ v.p.active => w.p.active
       /\ \A g \in v.fs : ~WantedRows(g)
  BY <1>3, <1>4 DEF WantedRows, Selection
<1>11. Sound(v, js, sv, ids)
  BY <1>4, <1>6, <1>7, <1>8, <1>9, <1>10, SoundFades
<1>12. QED  BY <1>4, <1>11 DEF q

\* What renderDetail draws does not depend on what was drawn.
LEMMA RenderedAnew ==
  ASSUME NEW w \in PageT
  PROVE  Rendered(w) = Rendered(Loading(w))
<1> DEFINE d == IF w.p.selected = NoJob THEN NoDetail
                ELSE [id |-> w.p.selected.id, view |-> w.p.view, rows |-> w.p.rows]
<1>1. Rendered(w) = [w EXCEPT !.p = [w.p EXCEPT !.shown = d]]
  BY DEF Rendered, PageT
<1>2. /\ Loading(w) = [w EXCEPT !.p = [w.p EXCEPT !.shown = NoDetail]]
      /\ Loading(w).p = [w.p EXCEPT !.shown = NoDetail]
  BY DEF Loading, PageT
<1>3. /\ Loading(w).p.selected = w.p.selected /\ Loading(w).p.view = w.p.view
      /\ Loading(w).p.rows = w.p.rows
  BY <1>2 DEF PageT, PanelT
<1>4. Rendered(Loading(w)) = [Loading(w) EXCEPT !.p = [Loading(w).p EXCEPT !.shown = d]]
  BY <1>3 DEF Rendered
<1> HIDE DEF d
<1>5. [Loading(w).p EXCEPT !.shown = d] = [w.p EXCEPT !.shown = d]
  BY <1>2 DEF PageT, PanelT
<1>6. QED  BY <1>1, <1>2, <1>4, <1>5 DEF PageT

\* An extraction arrives.
LEMMA OpenOkSound ==
  ASSUME PanelSizes, NEW w, NEW f, NEW js, NEW sv, NEW ids, Sound(w, js, sv, ids), Arrived(w, f, js),
         Current(w, f), f.op = "open", f.latest, f.pc = "answered"
  PROVE  Sound(OpenOk(w, f), js, sv, ids)
<1> DEFINE j == CHOOSE j \in f.seen : TRUE
<1> DEFINE x == [w EXCEPT !.p.selected = j, !.p.rows = NoRows]
<1> DEFINE v == Loading(x)
<1> DEFINE g == [f EXCEPT !.op = "rows", !.pc = "sent", !.view = x.p.view, !.seen = {}]
<1>1. OpenOk(w, f) = IF x.p.selected.status = "completed" THEN [v EXCEPT !.fs = @ \cup {g}]
                     ELSE Over(Rendered(x), f, f.then)
  BY DEF OpenOk
<1>2. /\ f \in FlightT /\ f.then \in SUBSET Thens /\ f.live /\ w.p.active
      /\ w.p.course \in Courses /\ f.of = w.p.course
      /\ f.then \cap Changes # {} => Free(w) /\ w.p.busy
  BY CurrentArrived
<1>3. FlightOwn(f, js) /\ \A h \in w.fs : h.op \in Selection => ~h.latest
  BY DEF Arrived, Selection
<1>4. f.seen # {} /\ \A k \in f.seen : Known(k, w.p.course, js) /\ k.id = f.id /\ k \in JobView
  BY <1>2, <1>3 DEF FlightOwn, Answer, Known
<1>5. j \in JobView /\ Known(j, w.p.course, js)
  BY <1>4
<1> HIDE DEF j
<1>6. w \in PageT /\ w.p \in PanelT
  BY DEF Sound, PageT
<1>7. x \in PageT /\ x.p.view = w.p.view /\ w.p.view \in Views
  BY <1>5, <1>6 DEF PageT, PanelT
<1>8. /\ Sound(v, js, sv, ids) /\ v.c = w.c /\ v.fs = w.fs
      /\ v.p = [w.p EXCEPT !.selected = j, !.rows = NoRows, !.shown = NoDetail]
  <2> DEFINE y == v
  <2>1. y = Loading([w EXCEPT !.p.selected = j, !.p.rows = NoRows])
    OBVIOUS
  <2> HIDE DEF y
  <2>2. /\ Sound(y, js, sv, ids) /\ y.c = w.c /\ y.fs = w.fs
        /\ y.p = [w.p EXCEPT !.selected = j, !.rows = NoRows, !.shown = NoDetail]
    BY <1>3, <1>5, <2>1, SelectedSound
  <2>3. QED  BY <2>2 DEF y
<1>9. Rendered(x) = Rendered(v)
  BY <1>7, RenderedAnew
<1> HIDE DEF x, v
<1>10. v.p.course = w.p.course /\ v.p.busy = w.p.busy /\ (Free(w) => Free(v))
  BY <1>6, <1>8 DEF PanelT, Free
<1>11. Sound(Over(Rendered(x), f, f.then), js, sv, ids)
  <2>1. Sound(Rendered(v), js, sv, ids) /\ Rendered(v).fs = v.fs
    BY <1>8, RenderedSound DEF Same
  <2>2. Sound(Over(Rendered(v), f, f.then), js, sv, ids)
    BY <1>2, <1>8, <2>1, OverSound DEF Free
  <2>3. QED  BY <1>9, <2>2
<1>12. Sound([v EXCEPT !.fs = @ \cup {g}], js, sv, ids)
  <2>1. /\ g \in FlightT /\ g.op = "rows" /\ g.pc = "sent" /\ g.of = f.of /\ g.id = f.id
        /\ g.then = f.then /\ g.live = f.live
    BY <1>2, <1>7 DEF FlightT, Ops
  <2> HIDE DEF g
  <2>2. f.id \in DOMAIN js /\ js[f.id].course = f.of
    BY <1>3 DEF FlightOwn, OfOneJob
  <2>3. \A h \in v.fs : h.op \in Selection => ~h.latest
    BY <1>3, <1>8
  <2>4. Changing(g) => (\A h \in v.fs : ~Changing(h)) /\ v.p.busy
    BY <1>2, <1>10, <2>1 DEF Changing, Free
  <2>5. v.p.course \in Courses /\ g.of = v.p.course /\ g.id \in DOMAIN js /\ js[g.id].course = g.of
    BY <1>2, <1>10, <2>1, <2>2
  <2>6. QED  BY <1>8, <2>1, <2>3, <2>4, <2>5, ReadAdded
<1> HIDE DEF g
<1>13. QED  BY <1>1, <1>11, <1>12

\* Observations arrive.
LEMMA RowsOkSound ==
  ASSUME PanelSizes, NEW w, NEW f, NEW js, NEW sv, NEW ids, Sound(w, js, sv, ids), Arrived(w, f, js),
         Current(w, f), f.op = "rows", f.latest, f.pc = "answered",
         w.p.selected # NoJob, w.p.selected.id = f.id
  PROVE  Sound(RowsOk(w, f), js, sv, ids)
<1> DEFINE r == CHOOSE r \in f.seen : TRUE
<1> DEFINE q == [w.p EXCEPT !.rows = r]
<1> DEFINE v == [w EXCEPT !.p.rows = r]
<1>1. RowsOk(w, f) = Over(Rendered(v), f, f.then)
  BY DEF RowsOk
<1>2. /\ f \in FlightT /\ f.then \in SUBSET Thens /\ f.live
      /\ f.then \cap Changes # {} => Free(w) /\ w.p.busy
  BY CurrentArrived
<1>3. FlightOwn(f, js) /\ \A h \in w.fs : h.op \in Selection => ~h.latest
  BY DEF Arrived, Selection
<1>4. f.seen # {} /\ \A x \in f.seen : x \in RowView /\ x.id = f.id /\ x.rr <= js[f.id].rr
  BY <1>3 DEF FlightOwn, Answer
<1>5. r \in f.seen /\ r \in RowView /\ r.id = f.id /\ r.rr <= js[f.id].rr /\ r # NoRows
  BY <1>4, NoneOfThem
<1> HIDE DEF r
<1>6. w \in PageT /\ w.p \in PanelT
  BY DEF Sound, PageT
<1>7. /\ q \in PanelT /\ q.course = w.p.course /\ q.active = w.p.active /\ q.jobs = w.p.jobs
      /\ q.selected = w.p.selected /\ q.rows = r /\ q.pending = w.p.pending /\ q.shown = w.p.shown
      /\ q.form = w.p.form /\ q.busy = w.p.busy /\ q.timer = w.p.timer
  BY <1>5, <1>6 DEF PanelT
<1>8. v = [w EXCEPT !.p = q]
  BY <1>6 DEF PageT
<1> HIDE DEF q, v
<1>9. v \in PageT /\ v.p = q /\ v.fs = w.fs /\ v.c = w.c
  BY <1>6, <1>7, <1>8 DEF PageT
<1>10. Own(w, js) /\ Shown(w) /\ OneChange(w) /\ Once(w, js, sv, ids)
  BY DEF Sound
<1>11. Own(v, js)
  BY <1>7, <1>9, <1>10 DEF Own
<1>12. Shown(v)
  BY <1>5, <1>7, <1>9, <1>10 DEF Shown, Detail
<1>13. OneChange(v)
  BY <1>7, <1>9, <1>10 DEF OneChange
<1>14. Once(v, js, sv, ids)
  BY <1>7, <1>9, <1>10 DEF Once, Pending, Starts, Dated, OfNow
<1>15. ASSUME NoCancel PROVE Informed(v, js)
  <2>1. Informed(w, js)
    BY <1>15 DEF Sound
  <2>2. /\ w.p.selected.rr <= r.rr
        /\ \A g \in w.fs : g.op = "review" /\ g.live /\ g.id = f.id => g.base <= r.rr
    BY <1>2, <1>5, <1>15 DEF Arrived, WantedRows
  <2>3. Known(w.p.selected, w.p.course, js)
    BY <1>10 DEF Own
  <2>4. w.p.selected.rr \in Nat /\ r.rr \in Nat /\ f.id \in DOMAIN js /\ js \in Seq(JobT)
    BY <1>5, <2>3 DEF Known, JobView, RowView, Sound
  <2>5. js[f.id].other \in Nat
    BY <2>4, JobFields
  <2>6. Sees(f.id, w.p.selected.rr, r.rr, js)
    BY <2>2, <2>4, <2>5 DEF Sees
  <2>7. \A g \in w.fs : ~WantedRows(g)
    BY <1>3 DEF WantedRows, Selection
  <2>8. v.p.rows.rr <= js[v.p.rows.id].rr /\ Sees(v.p.rows.id, v.p.selected.rr, v.p.rows.rr, js)
    BY <1>5, <1>7, <1>9, <2>6
  <2>9. \A g \in v.fs : g.op # "cancel"
    BY <1>9, <2>1 DEF Informed
  <2>10. \A g \in v.fs : g.op = "review" =>
          /\ g.rr <= js[g.id].rr /\ g.base <= js[g.id].rr
          /\ g.pc = "sent" => Sees(g.id, g.rr, g.base, js)
          /\ g.pc = "answered" => \A j \in g.seen : Sees(g.id, j.rr, g.base, js)
          /\ g.live /\ v.p.rows # NoRows /\ v.p.rows.id = g.id => g.base <= v.p.rows.rr
    BY <1>5, <1>7, <1>9, <2>1, <2>2 DEF Informed
  <2>11. QED  BY <1>9, <2>7, <2>8, <2>9, <2>10 DEF Informed
<1>16. Sound(v, js, sv, ids)
  BY <1>9, <1>11, <1>12, <1>13, <1>14, <1>15 DEF Sound
<1>17. Sound(Rendered(v), js, sv, ids) /\ Rendered(v).fs = w.fs
  BY <1>9, <1>16, RenderedSound DEF Same
<1>18. QED  BY <1>1, <1>2, <1>17, OverSound DEF Free

\* What was asked for is no longer pending: the author knows of it.
LEMMA StartedSound ==
  ASSUME PanelSizes, NEW w, NEW v, NEW js, NEW sv, NEW ids, Sound(w, js, sv, ids),
         NEW id, Settled(id, js), w.p.pending.id \in {0, id},
         v \in PageT, v.fs = w.fs, v.c = w.c,
         v.p.course = w.p.course, v.p.active = w.p.active, v.p.selected = w.p.selected,
         v.p.rows = w.p.rows, v.p.shown = w.p.shown, v.p.form = w.p.form, v.p.timer = w.p.timer,
         v.p.busy = w.p.busy, v.p.pending = NoRequest, \A j \in v.p.jobs : Known(j, w.p.course, js)
  PROVE  Sound(v, js, sv, ids)
<1>1. w \in PageT /\ js \in Seq(JobT) /\ sv \in [Courses -> Nat] /\ ids \in Nat
  BY DEF Sound
<1>2. Own(w, js) /\ Shown(w) /\ OneChange(w) /\ Once(w, js, sv, ids)
  BY DEF Sound
<1>3. Own(v, js)
  BY <1>2 DEF Own
<1>4. Shown(v)
  BY <1>2 DEF Shown, Detail
<1>5. OneChange(v)
  BY <1>2 DEF OneChange
<1>6. Starts(v) = Starts(w) /\ v.p.pending.id = 0
  BY DEF Starts, NoRequest
<1>7. Pending(v, sv, ids)
  BY <1>1, <1>2, <1>6 DEF Once, Pending
<1>8. \A k : \A n : n # 0 /\ Dated(k, n, w.p, sv, ids) => Dated(k, n, v.p, sv, ids)
  BY <1>6 DEF Dated
<1>9. ASSUME NEW g \in Starts(v)
      PROVE  /\ g.id # 0 /\ Dated(KeyOf(g), g.id, v.p, sv, ids)
             /\ OfNow(KeyOf(g), v.p, sv) => g.id = v.p.pending.id \/ Settled(g.id, js)
             /\ v.p.active /\ g.live => v.p.pending.id \in {0, g.id}
  <2>1. /\ g.id # 0 /\ Dated(KeyOf(g), g.id, w.p, sv, ids)
        /\ OfNow(KeyOf(g), w.p, sv) => g.id = w.p.pending.id \/ Settled(g.id, js)
    BY <1>2, <1>6 DEF Once
  <2>2. OfNow(KeyOf(g), v.p, sv) => OfNow(KeyOf(g), w.p, sv)
    BY DEF OfNow
  <2>3. QED  BY <1>6, <1>8, <2>1, <2>2
<1>10. ASSUME NEW i \in DOMAIN js
       PROVE  /\ Dated(Key(js[i]), js[i].req, v.p, sv, ids)
              /\ OfNow(Key(js[i]), v.p, sv) => js[i].req = v.p.pending.id \/ js[i].told
  <2>1. /\ Dated(Key(js[i]), js[i].req, w.p, sv, ids)
        /\ OfNow(Key(js[i]), w.p, sv) => js[i].req = w.p.pending.id \/ js[i].told
        /\ \A k \in DOMAIN js : js[i].req = js[k].req => i = k
    BY <1>2 DEF Once
  <2>2. js[i].req # 0
    BY <1>1, JobFields
  <2>3. js[i].req = id => js[i].told
    BY <2>1 DEF Settled
  <2>4. OfNow(Key(js[i]), v.p, sv) => OfNow(Key(js[i]), w.p, sv)
    BY DEF OfNow
  <2>5. QED  BY <1>8, <2>1, <2>2, <2>3, <2>4
<1>11. Once(v, js, sv, ids)
  BY <1>2, <1>6, <1>7, <1>9, <1>10 DEF Once
<1>12. ASSUME NoCancel PROVE Informed(v, js)
  BY <1>12 DEF Sound, Informed
<1>13. QED  BY <1>1, <1>3, <1>4, <1>5, <1>11, <1>12 DEF Sound

\* The extraction that was started arrives.
LEMMA StartOkSound ==
  ASSUME PanelSizes, NEW w, NEW f, NEW js, NEW sv, NEW ids, Sound(w, js, sv, ids), Arrived(w, f, js),
         Current(w, f), f.op = "start", f.pc = "answered", Settled(f.id, js)
  PROVE  Sound(StartOk(w, f), js, sv, ids)
<1> DEFINE job == CHOOSE j \in f.seen : TRUE
<1> DEFINE list == {job} \cup {j \in w.p.jobs : j.id # job.id}
<1> DEFINE q == [w.p EXCEPT !.pending = NoRequest, !.asked = job.id, !.jobs = list]
<1> DEFINE v == [w EXCEPT !.p.pending = NoRequest, !.p.asked = job.id,
                          !.p.jobs = {job} \cup {j \in @ : j.id # job.id}]
<1>1. StartOk(w, f) = Opening(v, job.id, TRUE, f.then \cup {"schedule"})
  BY DEF StartOk
<1>2. /\ f \in FlightT /\ (f.then \cup {"schedule"}) \in SUBSET Thens /\ f.live /\ w.p.active
      /\ w.p.course \in Courses /\ f.of = w.p.course
      /\ (f.then \cup {"schedule"}) \cap Changes # {} => Free(w) /\ w.p.busy
  BY CurrentArrived
<1>3. FlightOwn(f, js) /\ w.p.pending.id \in {0, f.id}
  BY <1>2 DEF Arrived
<1>4. f.seen # {} /\ \A k \in f.seen : Known(k, w.p.course, js)
  BY <1>2, <1>3 DEF FlightOwn, Answer
<1>5. Known(job, w.p.course, js) /\ job \in JobView
  BY <1>4 DEF Known
<1> HIDE DEF job
<1>6. w \in PageT /\ w.p \in PanelT /\ Own(w, js)
  BY DEF Sound, PageT
<1>7. (\A j \in list : Known(j, w.p.course, js)) /\ list \in SUBSET JobView
  BY <1>5, <1>6 DEF Own, PanelT
<1>8. v = [w EXCEPT !.p = q]
  BY <1>6 DEF PageT, PanelT
<1> HIDE DEF list
<1>9. /\ q \in PanelT /\ q.course = w.p.course /\ q.active = w.p.active /\ q.jobs = list
      /\ q.selected = w.p.selected /\ q.rows = w.p.rows /\ q.pending = NoRequest /\ q.shown = w.p.shown
      /\ q.form = w.p.form /\ q.busy = w.p.busy /\ q.timer = w.p.timer
  <2>1. NoRequest \in RequestView /\ job.id \in Nat
    BY <1>5, ClosedType DEF JobView
  <2>2. QED  BY <1>6, <1>7, <2>1 DEF PanelT
<1> HIDE DEF q, v
<1>10. v \in PageT /\ v.p = q /\ v.fs = w.fs /\ v.c = w.c
  BY <1>6, <1>8, <1>9 DEF PageT
<1>11. Sound(v, js, sv, ids)
  BY <1>3, <1>7, <1>9, <1>10, StartedSound
<1>12. job.id \in DOMAIN js /\ js[job.id].course = v.p.course
  BY <1>5, <1>9, <1>10 DEF Known
<1>13. v.p.course \in Courses /\ ((f.then \cup {"schedule"}) \cap Changes # {} => Free(v) /\ v.p.busy)
  BY <1>2, <1>9, <1>10 DEF Free
<1>14. Sound(Opening(v, job.id, TRUE, f.then \cup {"schedule"}), js, sv, ids)
  BY <1>2, <1>11, <1>12, <1>13, OpeningSound
<1>15. QED  BY <1>1, <1>14

\* The selected job and the list are brought up to date.
LEMMA UpdatedSound ==
  ASSUME NEW w, NEW v, NEW js, NEW sv, NEW ids, Sound(w, js, sv, ids),
         v \in PageT, v.fs = w.fs, v.c = w.c,
         v.p.course = w.p.course, v.p.active = w.p.active,
         v.p.rows = w.p.rows, v.p.form = w.p.form, v.p.timer = w.p.timer,
         v.p.busy = w.p.busy, v.p.pending = w.p.pending, \A j \in v.p.jobs : Known(j, w.p.course, js),
         v.p.selected # NoJob, w.p.selected # NoJob, v.p.selected.id = w.p.selected.id,
         Known(v.p.selected, w.p.course, js), Detail(v.p),
         NoCancel =>
           /\ \A g \in w.fs : ~WantedRows(g)
           /\ w.p.rows # NoRows => Sees(w.p.rows.id, v.p.selected.rr, w.p.rows.rr, js)
  PROVE  Sound(v, js, sv, ids)
<1>1. w \in PageT /\ js \in Seq(JobT) /\ sv \in [Courses -> Nat] /\ ids \in Nat
  BY DEF Sound
<1>2. Own(w, js) /\ Shown(w) /\ OneChange(w) /\ Once(w, js, sv, ids)
  BY DEF Sound
<1>3. Own(v, js)
  BY <1>2 DEF Own
<1>4. Shown(v)
  BY <1>2 DEF Shown
<1>5. OneChange(v)
  BY <1>2 DEF OneChange
<1>6. Once(v, js, sv, ids)
  <2>1. Starts(v) = Starts(w)
    BY DEF Starts
  <2>2. \A k, id : /\ Dated(k, id, w.p, sv, ids) => Dated(k, id, v.p, sv, ids)
                   /\ OfNow(k, v.p, sv) => OfNow(k, w.p, sv)
    BY DEF Dated, OfNow
  <2>3. Pending(v, sv, ids)
    BY <1>2 DEF Once, Pending
  <2>4. QED  BY <1>2, <2>1, <2>2, <2>3 DEF Once
<1>7. ASSUME NoCancel PROVE Informed(v, js)
  BY <1>7 DEF Sound, Informed
<1>8. QED  BY <1>1, <1>3, <1>4, <1>5, <1>6, <1>7 DEF Sound

\* The extraction that was cancelled or reviewed arrives.
LEMMA MutationOkSound ==
  ASSUME PanelSizes, NEW w, NEW f, NEW js, NEW sv, NEW ids, Sound(w, js, sv, ids), Arrived(w, f, js),
         Current(w, f), f.op \in {"cancel", "review"}, f.pc = "answered"
  PROVE  Sound(MutationOk(w, f), js, sv, ids)
<1> DEFINE job == CHOOSE j \in f.seen : TRUE
<1> DEFINE mine == w.p.selected # NoJob /\ w.p.selected.id = f.id
<1> DEFINE list == {IF j.id = f.id THEN job ELSE j : j \in w.p.jobs}
<1> DEFINE v == [w EXCEPT !.p.selected = IF mine THEN job ELSE @,
                          !.p.jobs = {IF j.id = f.id THEN job ELSE j : j \in @}]
<1> DEFINE then == f.then \cup {"schedule"}
<1>1. MutationOk(w, f) = IF mine /\ f.op = "review" THEN LoadingRows(v, then)
                         ELSE Over(Scheduled(v), f, f.then)
  BY DEF MutationOk
<1>2. /\ f \in FlightT /\ f.then \in SUBSET Thens /\ then \in SUBSET Thens /\ f.live /\ w.p.active
      /\ w.p.course \in Courses /\ f.of = w.p.course
      /\ f.then \cap Changes # {} => Free(w) /\ w.p.busy
      /\ then \cap Changes # {} => Free(w) /\ w.p.busy
  BY CurrentArrived
<1>3. FlightOwn(f, js)
  BY DEF Arrived
<1>4. f.seen # {} /\ \A k \in f.seen : Known(k, w.p.course, js) /\ k.id = f.id
  BY <1>2, <1>3 DEF FlightOwn, Answer
<1>5. job \in f.seen /\ Known(job, w.p.course, js) /\ job \in JobView /\ job.id = f.id /\ job # NoJob
  BY <1>4, NoneOfThem DEF Known
<1> HIDE DEF job, then
<1>6. w \in PageT /\ w.p \in PanelT /\ Own(w, js) /\ Shown(w) /\ w.fs \in SUBSET FlightT
  BY DEF Sound, PageT
<1>7. (\A j \in list : Known(j, w.p.course, js)) /\ list \in SUBSET JobView
  BY <1>5, <1>6 DEF Own, PanelT
<1> HIDE DEF list
<1>8. CASE ~mine
  <2>1. v = [w EXCEPT !.p.jobs = list]
    BY <1>6, <1>8 DEF list, PageT, PanelT
  <2>2. Sound(v, js, sv, ids) /\ v.fs = w.fs
    BY <1>7, <2>1, ListedSound
  <2> HIDE DEF v
  <2>3. Sound(Scheduled(v), js, sv, ids) /\ Scheduled(v).fs = w.fs
    BY <2>2, ScheduledSound DEF Same
  <2>4. Sound(Over(Scheduled(v), f, f.then), js, sv, ids)
    BY <1>2, <2>3, OverSound DEF Free
  <2>5. QED  BY <1>1, <1>8, <2>4
<1>9. CASE mine
  <2> DEFINE q == [w.p EXCEPT !.selected = job, !.jobs = list]
  <2>1. v = [w EXCEPT !.p = q]
    BY <1>6, <1>9 DEF list, PageT, PanelT
  <2>2. /\ q \in PanelT /\ q.course = w.p.course /\ q.active = w.p.active /\ q.jobs = list
        /\ q.selected = job /\ q.rows = w.p.rows /\ q.pending = w.p.pending /\ q.shown = w.p.shown
        /\ q.form = w.p.form /\ q.busy = w.p.busy /\ q.timer = w.p.timer /\ q.view = w.p.view
    BY <1>5, <1>6, <1>7 DEF PanelT
  <2> HIDE DEF q, v
  <2>3. v \in PageT /\ v.p = q /\ v.fs = w.fs /\ v.c = w.c
    BY <1>6, <2>1, <2>2 DEF PageT
  <2>4. Detail(q)
    BY <1>5, <1>6, <1>9, <2>2 DEF Shown, Detail
  <2>5. CASE f.op = "review"
    <3> DEFINE fs == Superseded(w.fs, Selection)
    <3> DEFINE u == [w EXCEPT !.fs = fs]
    <3>1. Sound(u, js, sv, ids)
      BY SupersededSound
    <3>2. u.p = w.p /\ u.fs = fs /\ u.c = w.c
      BY <1>6 DEF PageT
    <3>3. fs \in SUBSET FlightT /\ Fades(fs, w.fs) /\ \A g \in fs : g.op \in Selection => ~g.latest
      BY <1>6, SupersededFades
    <3> HIDE DEF fs, u
    <3> DEFINE p == [q EXCEPT !.shown = NoDetail]
    <3> DEFINE x == [w EXCEPT !.p = p, !.fs = fs]
    <3>4. /\ p \in PanelT /\ p.course = w.p.course /\ p.active = w.p.active /\ p.jobs = list
          /\ p.selected = job /\ p.rows = w.p.rows /\ p.pending = w.p.pending /\ p.shown = NoDetail
          /\ p.form = w.p.form /\ p.busy = w.p.busy /\ p.timer = w.p.timer /\ p.view = w.p.view
      BY <2>2, ClosedType DEF PanelT
    <3> HIDE DEF p
    <3>5. x \in PageT /\ x.p = p /\ x.fs = fs /\ x.c = w.c
      BY <1>6, <3>3, <3>4 DEF PageT
    <3> HIDE DEF x
    <3>6. Detail(p)
      BY <3>4 DEF Detail, NoDetail
    <3>7. \A g \in fs : ~WantedRows(g)
      BY <3>3 DEF WantedRows, Selection
    <3>8. ASSUME NoCancel, w.p.rows # NoRows PROVE Sees(w.p.rows.id, job.rr, w.p.rows.rr, js)
      <4>1. w.p.rows.id = f.id
        BY <1>6, <1>9, <3>8 DEF Shown
      <4>2. Sees(f.id, job.rr, f.base, js) /\ f.base <= w.p.rows.rr
        BY <1>2, <1>5, <2>5, <3>8, <4>1 DEF Arrived
      <4>3. f.base \in Nat /\ w.p.rows.rr \in Nat /\ js[f.id].other \in Nat
        <5>1. f.id \in DOMAIN js /\ js \in Seq(JobT)
          BY <1>5 DEF Known, Sound
        <5>2. QED  BY <1>2, <1>6, <3>8, <5>1, JobFields DEF FlightT, PanelT, RowView
      <4>4. QED  BY <4>1, <4>2, <4>3 DEF Sees
    <3>9. Sound(x, js, sv, ids)
      BY <1>5, <1>7, <1>9, <3>1, <3>2, <3>4, <3>5, <3>6, <3>7, <3>8, UpdatedSound
    <3> DEFINE g == Flight(v, "rows", v.p.selected.id, then)
    <3>10. LoadingRows(v, then) = [x EXCEPT !.fs = @ \cup {g}]
      <4>1. Loading(v) = [v EXCEPT !.p = p]
        BY <2>3 DEF Loading, p, PageT
      <4>2. Loading(v).fs = w.fs /\ Loading(v) = [w EXCEPT !.p = p]
        BY <1>6, <2>1, <2>3, <4>1 DEF PageT
      <4>3. Sent(Loading(v), g, Selection) = [Loading(v) EXCEPT !.fs = fs \cup {g}]
        BY <4>2 DEF Sent, fs
      <4>4. [x EXCEPT !.fs = @ \cup {g}] = [w EXCEPT !.p = p, !.fs = fs \cup {g}]
        BY <1>6 DEF x, PageT
      <4>5. QED  BY <1>6, <4>2, <4>3, <4>4 DEF LoadingRows, PageT
    <3>11. /\ g \in FlightT /\ g.op = "rows" /\ g.pc = "sent" /\ g.of = v.p.course
           /\ g.id = v.p.selected.id /\ g.then = then
      <4>1. "rows" \in Ops /\ v.p.selected.id \in Nat
        BY <1>5, <2>2, <2>3 DEF Ops, JobView
      <4>2. QED  BY <1>2, <2>3, <4>1, FlightForm
    <3> HIDE DEF g
    <3>12. g.of = x.p.course /\ g.id \in DOMAIN js /\ js[g.id].course = g.of /\ x.p.course \in Courses
      BY <1>2, <1>5, <2>2, <2>3, <3>4, <3>5, <3>11 DEF Known
    <3>13. Changing(g) => (\A h \in x.fs : ~Changing(h)) /\ x.p.busy
      <4>1. Changing(g) => Free(w) /\ w.p.busy
        BY <1>2, <3>11 DEF Changing
      <4>2. QED  BY <3>3, <3>4, <3>5, <4>1 DEF Free, Changing, Fades, Faded
    <3>14. Sound([x EXCEPT !.fs = @ \cup {g}], js, sv, ids)
      BY <3>3, <3>5, <3>9, <3>11, <3>12, <3>13, ReadAdded
    <3>15. QED  BY <1>1, <1>9, <2>5, <3>10, <3>14
  <2>6. CASE f.op = "cancel"
    <3>1. ~NoCancel
      BY <2>6 DEF Arrived
    <3>2. Sound(v, js, sv, ids)
      BY <1>5, <1>7, <1>9, <2>2, <2>3, <2>4, <3>1, UpdatedSound
    <3>3. Sound(Scheduled(v), js, sv, ids) /\ Scheduled(v).fs = w.fs
      BY <2>3, <3>2, ScheduledSound DEF Same
    <3>4. Sound(Over(Scheduled(v), f, f.then), js, sv, ids)
      BY <1>2, <3>3, OverSound DEF Free
    <3>5. QED  BY <1>1, <2>6, <3>4
  <2>7. QED  BY <2>5, <2>6
<1>10. QED  BY <1>8, <1>9

\* The author is told of the jobs that a wanted answer lists.
LEMMA ToldGrows ==
  ASSUME SafeInv, NEW told \in [DOMAIN jobs -> BOOLEAN],
         jobs' = [i \in DOMAIN jobs |-> IF told[i] THEN [jobs[i] EXCEPT !.told = TRUE] ELSE jobs[i]]
  PROVE  /\ DOMAIN jobs' = DOMAIN jobs /\ \A i \in DOMAIN jobs : jobs'[i].req = jobs[i].req
         /\ \A i \in DOMAIN jobs : told[i] => jobs'[i].told
         /\ Sound(Page, jobs', saved, count.ids)
<1>1. Sound(Page, jobs, saved, count.ids) /\ jobs \in Seq(JobT) /\ Counted(jobs)
  BY DEF SafeInv, Sound
<1>2. Len(jobs) \in Nat /\ DOMAIN jobs = 1 .. Len(jobs) /\ \A i \in DOMAIN jobs : jobs[i] \in JobT
  BY <1>1
<1>3. ASSUME NEW i \in DOMAIN jobs
      PROVE  /\ jobs'[i] \in JobT /\ jobs'[i].course = jobs[i].course /\ jobs'[i].rev = jobs[i].rev
             /\ jobs'[i].form = jobs[i].form /\ jobs'[i].req = jobs[i].req
             /\ jobs'[i].rr = jobs[i].rr /\ jobs'[i].other = jobs[i].other
             /\ jobs[i].told => jobs'[i].told
             /\ told[i] => jobs'[i].told
  <2>1. jobs[i] \in JobT
    BY <1>2
  <2>2. CASE told[i]
    <3>1. jobs'[i] = [jobs[i] EXCEPT !.told = TRUE]
      BY <2>2
    <3>2. QED  BY <2>1, <3>1 DEF JobT
  <2>3. CASE ~told[i]
    BY <2>1, <2>3
  <2>4. QED  BY <2>2, <2>3
<1>4. DOMAIN jobs' = DOMAIN jobs
  OBVIOUS
<1>5. jobs' \in Seq(JobT) /\ Len(jobs') = Len(jobs)
  <2>1. \A i \in 1 .. Len(jobs) : jobs'[i] \in JobT
    BY <1>2, <1>3
  <2>2. jobs' = [i \in 1 .. Len(jobs) |-> jobs'[i]]
    BY <1>2
  <2>3. QED  BY <1>2, <2>1, <2>2
<1>6. Grows(jobs, jobs')
  <2>1. \A i \in DOMAIN jobs : jobs[i].rr \in Nat
    BY <1>1, JobFields
  <2>2. QED  BY <1>1, <1>3, <1>4, <1>5, <2>1 DEF Grows
<1>7. Counted(jobs')
  BY <1>1, <1>3, <1>4 DEF Counted
<1>8. QED  BY <1>1, <1>3, <1>4, <1>6, <1>7, SoundGrows

\* An answer arrives, whatever it answers.
LEMMA DeliverKeeps == ASSUME PanelSizes, SafeInv, NEW f \in flights, Deliver(f) PROVE SafeInv'
<1> DEFINE w == Landed(f)
<1> DEFINE v == IF ~Wanted(w, f) THEN Dropped(f)
                ELSE IF f.pc = "answered" THEN Handlers(w, f) ELSE Failure(w, f)
<1> DEFINE heard == f.pc = "answered" /\ f.op \in {"start", "list"} /\ Wanted(Page, f)
<1> DEFINE told == [i \in DOMAIN jobs |-> heard /\ \E j \in f.seen : j.id = i]
<1>1. /\ f.pc \in {"answered", "failed"} /\ Turn(v) /\ saved' = saved /\ count' = count
      /\ jobs' = [i \in DOMAIN jobs |-> IF told[i] THEN [jobs[i] EXCEPT !.told = TRUE] ELSE jobs[i]]
  BY DEF Deliver
<1>2. told \in [DOMAIN jobs -> BOOLEAN]
  OBVIOUS
<1>3. \A i \in DOMAIN jobs : told[i] <=> heard /\ \E j \in f.seen : j.id = i
  OBVIOUS
<1> HIDE DEF told
<1>4. /\ DOMAIN jobs' = DOMAIN jobs /\ \A i \in DOMAIN jobs : jobs'[i].req = jobs[i].req
      /\ \A i \in DOMAIN jobs : told[i] => jobs'[i].told
      /\ Sound(Page, jobs', saved, count.ids)
  BY <1>1, <1>2, ToldGrows
<1>5. Page.fs = flights /\ w = [Page EXCEPT !.fs = @ \ {f}]
  BY DEF Page, Landed
<1>6. /\ Sound(w, jobs', saved, count.ids) /\ Arrived(w, f, jobs') /\ w.p = Page.p /\ w.c = Page.c
  BY <1>4, <1>5, LandedArrived
<1>7. Wanted(w, f) <=> Wanted(Page, f)
  BY <1>6 DEF Wanted, Current
<1>8. f \in FlightT /\ FlightOwn(f, jobs)
  BY <1>5, PageIs DEF SafeInv, Sound, Own
<1> HIDE DEF w
<1>9. ASSUME ~Wanted(w, f)
      PROVE  Sound(v, jobs', saved, count.ids)
  <2>1. Sound(Over(w, f, f.then), jobs', saved, count.ids)
    BY <1>6, DroppedSound
  <2>2. v = Over(w, f, f.then)
    BY <1>9 DEF Dropped, w
  <2>3. QED  BY <2>1, <2>2
<1>10. ASSUME Wanted(w, f) /\ f.pc # "answered"
       PROVE  Sound(v, jobs', saved, count.ids)
  <2>1. Sound(Failure(w, f), jobs', saved, count.ids)
    BY <1>6, <1>10, FailureSound DEF Wanted
  <2>2. QED  BY <1>10, <2>1
<1>11. ASSUME Wanted(w, f) /\ f.pc = "answered"
       PROVE  Sound(v, jobs', saved, count.ids)
  <2>1. Current(w, f) /\ v = Handlers(w, f)
    BY <1>11 DEF Wanted
  <2>2. CASE f.op = "list"
    <3>1. Sound(ListOk(w, f), jobs', saved, count.ids)
      BY <1>6, <1>11, <2>1, <2>2, ListOkSound
    <3>2. QED  BY <2>1, <2>2, <3>1 DEF Handlers
  <2>3. CASE f.op = "open"
    <3>1. f.latest
      BY <1>11, <2>3 DEF Wanted
    <3>2. Sound(OpenOk(w, f), jobs', saved, count.ids)
      BY <1>6, <1>11, <2>1, <2>3, <3>1, OpenOkSound
    <3>3. QED  BY <2>1, <2>3, <3>2 DEF Handlers
  <2>4. CASE f.op = "rows"
    <3>1. f.latest /\ w.p.selected # NoJob /\ w.p.selected.id = f.id
      BY <1>11, <2>4 DEF Wanted
    <3>2. Sound(RowsOk(w, f), jobs', saved, count.ids)
      BY <1>6, <1>11, <2>1, <2>4, <3>1, RowsOkSound
    <3>3. QED  BY <2>1, <2>4, <3>2 DEF Handlers
  <2>5. CASE f.op = "start"
    <3>1. heard
      BY <1>7, <1>11, <2>5
    <3>2. f.seen # {} /\ \A j \in f.seen : j.id \in DOMAIN jobs /\ jobs[j.id].req = f.id
      BY <1>8, <1>11, <2>5 DEF FlightOwn, Answer, Known
    <3>3. PICK j \in f.seen : TRUE
      BY <3>2
    <3>4. j.id \in DOMAIN jobs' /\ jobs'[j.id].req = f.id /\ jobs'[j.id].told
      BY <1>3, <1>4, <3>1, <3>2
    <3>5. Settled(f.id, jobs')
      BY <3>4 DEF Settled
    <3>6. Sound(StartOk(w, f), jobs', saved, count.ids)
      BY <1>6, <1>11, <2>1, <2>5, <3>5, StartOkSound
    <3>7. QED  BY <2>1, <2>5, <3>6 DEF Handlers
  <2>6. CASE f.op \in {"cancel", "review"}
    <3>1. Sound(MutationOk(w, f), jobs', saved, count.ids)
      BY <1>6, <1>11, <2>1, <2>6, MutationOkSound
    <3>2. QED  BY <2>1, <2>6, <3>1 DEF Handlers
  <2>7. QED  BY <1>8, <2>2, <2>3, <2>4, <2>5, <2>6 DEF FlightT, Ops
<1>12. Sound(v, jobs', saved, count.ids)
  BY <1>9, <1>10, <1>11
<1> HIDE DEF v
<1>13. Page' = v
  BY <1>1, <1>12, TurnIs DEF Sound
<1>14. QED  BY <1>1, <1>12, <1>13 DEF SafeInv

-----------------------------------------------------------------------------
(* The invariant.                                                          *)

\* It holds of a closed panel.
LEMMA InitialPanel == ASSUME PanelSizes, PanelInit PROVE SafeInv
<1>1. /\ panel = ClosedPanel /\ flights = {} /\ jobs = <<>> /\ saved = [c \in Courses |-> 1]
      /\ count.ids = 0 /\ count \in CountT
  BY DEF PanelInit, CountT
<1>2. PICK c \in Courses : ctx = [course |-> c, rev |-> 1, dirty |-> FALSE, videos |-> FALSE, hidden |-> FALSE]
  BY DEF PanelInit
<1>3. Page \in PageT /\ Page.p = ClosedPanel /\ Page.fs = {} /\ Page.c = ctx
  BY <1>1, <1>2, ClosedType DEF PageT, Page, ContextT, AnyCourse
<1>4. /\ ClosedPanel.active = FALSE /\ ClosedPanel.timer = FALSE /\ ClosedPanel.busy = FALSE
      /\ ClosedPanel.jobs = {} /\ ClosedPanel.selected = NoJob /\ ClosedPanel.rows = NoRows
      /\ ClosedPanel.shown = NoDetail /\ ClosedPanel.pending.id = 0
      /\ NoDetail.id = 0 /\ NoDetail.rows = NoRows
  BY DEF ClosedPanel, NoDetail, NoRequest
<1>5. jobs \in Seq(JobT) /\ DOMAIN jobs = {}
  BY <1>1, EmptySeq
<1>6. Own(Page, jobs) /\ Shown(Page) /\ OneChange(Page)
  BY <1>3, <1>4 DEF Own, Shown, Detail, OneLatest, OneChange, OneLive
<1>7. Once(Page, jobs, saved, count.ids)
  BY <1>1, <1>2, <1>3, <1>4, <1>5 DEF Once, Pending, Starts
<1>8. Informed(Page, jobs)
  BY <1>3, <1>4 DEF Informed
<1>9. saved \in [Courses -> Nat] /\ Counted(jobs) /\ count.ids \in Nat
  BY <1>1, <1>5 DEF Counted
<1>10. QED  BY <1>1, <1>3, <1>5, <1>6, <1>7, <1>8, <1>9 DEF SafeInv, Sound

\* Every step keeps it.
LEMMA PanelKeeps ==
  ASSUME PanelSizes, SafeInv, [PanelNext]_vars
  PROVE  SafeInv'
<1>1. ASSUME Author PROVE SafeInv'
  <2>1. CASE \E videos \in BOOLEAN : Visit(videos)
    BY <2>1, VisitKeeps
  <2>2. CASE \E c \in Courses : OpenCourse(c)
    BY <2>2, OpenCourseKeeps
  <2>3. CASE SignOut \/ Hide \/ Return \/ RefreshClick \/ Edit
    BY <2>3, SignOutKeeps, HideKeeps, ReturnKeeps, RefreshClickKeeps, EditKeeps
  <2>4. CASE Save \/ Publish \/ ChangeForm \/ StartClick
    BY <2>4, SaveKeeps, PublishKeeps, ChangeFormKeeps, StartClickKeeps
  <2>5. CASE \E i \in 1 .. MaxJobs : OpenClick(i)
    <3>1. PICK i \in 1 .. MaxJobs : OpenClick(i)
      BY <2>5
    <3>2. QED  BY <3>1, OpenClickKeeps DEF PanelSizes
  <2>6. CASE \E view \in Views : ViewClick(view)
    BY <2>6, ViewClickKeeps
  <2>7. CASE \E op \in {"cancel", "review"} : MutateClick(op)
    BY <2>7, MutateClickKeeps
  <2>8. QED  BY <1>1, <2>1, <2>2, <2>3, <2>4, <2>5, <2>6, <2>7 DEF Author
<1>2. ASSUME NEW f \in flights, Answered(f) \/ Lose(f) PROVE SafeInv'
  BY <1>2, ServeReadKeeps, ServeStartKeeps, ServeMutationKeeps, DeliverKeeps, LoseKeeps DEF Answered
<1>3. ASSUME NEW i \in DOMAIN jobs, Work(i) \/ ReviewElsewhere(i) PROVE SafeInv'
  BY <1>3, WorkKeeps, ReviewElsewhereKeeps
<1>4. CASE UNCHANGED vars
  BY <1>4 DEF vars, SafeInv, Page
<1>5. CASE PanelNext
  BY <1>1, <1>2, <1>3, <1>5, PollKeeps DEF PanelNext
<1>6. QED  BY <1>4, <1>5

-----------------------------------------------------------------------------
(* Polling.                                                                *)

\* A poll follows when request f has ended, or f is the poll.
Waiting(w, f) == "schedule" \in f.then \/ (f.op = "list" /\ Wanted(w, f))
\* Another poll is planned or under way.
Awake(w) == w.p.timer \/ \E f \in w.fs : Waiting(w, f)
\* An active extraction is listed and looked at, and no poll has failed.
Watched(w) ==
  /\ w.p.active /\ ~w.c.hidden /\ w.p.failed # "list" /\ w.p.since = w.c.rev
  /\ \E j \in w.p.jobs : j.status \in Active

\* A page that looks at an active job polls.
Polls(w) == Watched(w) => Awake(w)
\* A panel in use is of the course that is open and no newer than its draft.
Here(w) ==
  w.p.active => w.c.course \in Courses /\ w.p.course = w.c.course /\ w.p.since <= w.c.rev

\* Page v looks at what page w does.
SameVisit(v, w) ==
  /\ v.c = w.c /\ v.p.active = w.p.active /\ v.p.course = w.p.course /\ v.p.since = w.p.since
  /\ v.p.failed # "list" => w.p.failed # "list"
\* It waits for what page w does.
Goes(v, w) ==
  /\ SameVisit(v, w) /\ v.p.jobs = w.p.jobs /\ (w.p.timer => v.p.timer)
  /\ \A f \in w.fs : Waiting(w, f) => \E g \in v.fs : Waiting(v, g)

\* Such a page polls if page w does.
LEMMA GoesPolls ==
  ASSUME NEW v, NEW w, Goes(v, w)
  PROVE  (Polls(w) => Polls(v)) /\ (Here(w) => Here(v))
<1>1. Watched(v) => Watched(w)
  BY DEF Goes, SameVisit, Watched
<1>2. Awake(w) => Awake(v)
  BY DEF Goes, Awake
<1>3. QED  BY <1>1, <1>2 DEF Polls, Goes, SameVisit, Here

\* The same visit is to the same course.
LEMMA SameHere == ASSUME NEW v, NEW w, SameVisit(v, w), Here(w) PROVE Here(v)
BY DEF SameVisit, Here

\* One after the other.
LEMMA GoesOn == ASSUME NEW u, NEW v, NEW w, Goes(u, v), Goes(v, w) PROVE Goes(u, w)
BY DEF Goes, SameVisit

\* Another panel with the same jobs and timer.
LEMMA PanelGoes ==
  ASSUME NEW w \in PageT, NEW q \in PanelT, q.active = w.p.active, q.course = w.p.course,
         q.since = w.p.since, q.failed # "list" => w.p.failed # "list",
         q.jobs = w.p.jobs, w.p.timer => q.timer
  PROVE  LET v == [w EXCEPT !.p = q]
         IN  v \in PageT /\ v.p = q /\ v.c = w.c /\ v.fs = w.fs
             /\ (\A f \in w.fs : f.op = "list" => (Wanted(v, f) <=> Wanted(w, f)))
             /\ Goes(v, w)
<1> DEFINE v == [w EXCEPT !.p = q]
<1>1. v \in PageT /\ v.p = q /\ v.c = w.c /\ v.fs = w.fs
  BY DEF PageT
<1> HIDE DEF v
<1>2. \A f \in w.fs : f.op = "list" => (Wanted(v, f) <=> Wanted(w, f))
  BY <1>1 DEF Wanted, Current
<1>3. Goes(v, w)
  BY <1>1, <1>2 DEF Goes, SameVisit, Waiting
<1>4. QED  BY <1>1, <1>2, <1>3 DEF v

\* render goes on polling.
LEMMA RenderedGoes ==
  ASSUME PanelSizes, NEW w \in PageT
  PROVE  Rendered(w) \in PageT /\ Goes(Rendered(w), w) /\ Rendered(w).p.selected = w.p.selected
<1> DEFINE d == IF w.p.selected = NoJob THEN NoDetail
                ELSE [id |-> w.p.selected.id, view |-> w.p.view, rows |-> w.p.rows]
<1>1. w.p \in PanelT
  BY DEF PageT
<1>2. d \in DetailView
  BY <1>1 DEF PanelT, PanelSizes, NoDetail, DetailView, JobView
<1>3. Rendered(w) = [w EXCEPT !.p = [w.p EXCEPT !.shown = d]]
  BY <1>1 DEF Rendered
<1> HIDE DEF d
<1> DEFINE q == [w.p EXCEPT !.shown = d]
<1>4. /\ q \in PanelT /\ q.active = w.p.active /\ q.course = w.p.course /\ q.since = w.p.since
      /\ q.failed = w.p.failed /\ q.jobs = w.p.jobs /\ q.timer = w.p.timer /\ q.selected = w.p.selected
  BY <1>1, <1>2 DEF PanelT
<1> HIDE DEF q
<1>5. Rendered(w) = [w EXCEPT !.p = q]
  BY <1>3 DEF q
<1>6. QED  BY <1>4, <1>5, PanelGoes

\* So does showLoading.
LEMMA LoadingGoes ==
  ASSUME PanelSizes, NEW w \in PageT
  PROVE  Loading(w) \in PageT /\ Goes(Loading(w), w) /\ Loading(w).fs = w.fs
<1> DEFINE q == [w.p EXCEPT !.shown = NoDetail]
<1>1. /\ q \in PanelT /\ q.active = w.p.active /\ q.course = w.p.course /\ q.since = w.p.since
      /\ q.failed = w.p.failed /\ q.jobs = w.p.jobs /\ q.timer = w.p.timer
  BY ClosedType DEF PageT, PanelT
<1>2. Loading(w) = [w EXCEPT !.p = q]
  BY DEF Loading, PageT
<1> HIDE DEF q
<1>3. QED  BY <1>1, <1>2, PanelGoes

\* A request for a job or for rows leaves the others to be waited for.
LEMMA SentStays ==
  ASSUME NEW w \in PageT, NEW f, NEW ops, "list" \notin ops
  PROVE  /\ Goes(Sent(w, f, ops), w)
         /\ "schedule" \in f.then => Polls(Sent(w, f, ops))
<1> DEFINE fs == Superseded(w.fs, ops) \cup {f}
<1> DEFINE v == [w EXCEPT !.fs = fs]
<1>1. w.fs \in SUBSET FlightT /\ Superseded(w.fs, ops) \in SUBSET FlightT
  BY SupersededFades DEF PageT
<1>2. Sent(w, f, ops) = v
  BY DEF Sent
<1>3. ASSUME NEW g \in w.fs, Waiting(w, g)
      PROVE  \E h \in Superseded(w.fs, ops) : /\ h.then = g.then /\ h.op = g.op /\ h.live = g.live
                                              /\ h.course = g.course /\ h.rev = g.rev
                                              /\ g.op = "list" => h.latest = g.latest
  <2> DEFINE h == IF g.op \in ops THEN [g EXCEPT !.latest = FALSE] ELSE g
  <2>1. /\ h.then = g.then /\ h.op = g.op /\ h.live = g.live /\ h.course = g.course /\ h.rev = g.rev
        /\ g.op = "list" => h.latest = g.latest
    BY <1>1 DEF FlightT
  <2>2. "schedule" \in g.then \/ (g.op = "list" /\ g.latest)
    BY <1>3 DEF Waiting, Wanted
  <2> HIDE DEF h
  <2>3. h.latest \/ Kept(h) \/ h.then # {}
    <3>1. CASE "schedule" \in g.then
      BY <2>1, <3>1
    <3>2. CASE g.op = "list" /\ g.latest
      BY <2>1, <3>2
    <3>3. QED  BY <2>2, <3>1, <3>2
  <2>4. h \in Superseded(w.fs, ops)
    BY <2>3 DEF Superseded, h
  <2>5. QED  BY <2>1, <2>4
<1>4. v.p = w.p /\ v.c = w.c /\ v.fs = fs
  BY <1>1 DEF PageT
<1> HIDE DEF v
<1>5. ASSUME NEW g \in w.fs, Waiting(w, g)
      PROVE  \E h \in v.fs : Waiting(v, h)
  <2>1. PICK h \in Superseded(w.fs, ops) :
          /\ h.then = g.then /\ h.op = g.op /\ h.live = g.live
          /\ h.course = g.course /\ h.rev = g.rev /\ (g.op = "list" => h.latest = g.latest)
    BY <1>3, <1>5
  <2>2. Waiting(v, h)
    BY <1>4, <1>5, <2>1 DEF Waiting, Wanted, Current
  <2>3. QED  BY <1>4, <2>2
<1>6. Goes(v, w)
  BY <1>4, <1>5 DEF Goes, SameVisit
<1>7. "schedule" \in f.then => Polls(v)
  BY <1>4 DEF Polls, Awake, Waiting
<1>8. QED  BY <1>2, <1>6, <1>7

\* So does a request that is no list.
LEMMA SentGoes ==
  ASSUME NEW w \in PageT, NEW f \in FlightT, NEW ops, "list" \notin ops
  PROVE  /\ Sent(w, f, ops) \in PageT /\ Goes(Sent(w, f, ops), w)
         /\ "schedule" \in f.then => Polls(Sent(w, f, ops))
<1>1. Superseded(w.fs, ops) \in SUBSET FlightT
  BY SupersededFades DEF PageT
<1>2. Sent(w, f, ops) \in PageT
  BY <1>1 DEF Sent, PageT
<1>3. QED  BY <1>2, SentStays

\* So does openJob.
LEMMA OpeningGoes ==
  ASSUME PanelSizes, NEW w \in PageT, NEW id \in Nat, NEW reset \in BOOLEAN, NEW then \in SUBSET Thens
  PROVE  LET v == Opening(w, id, reset, then)
         IN  v \in PageT /\ Goes(v, w) /\ ("schedule" \in then => Polls(v))
<1> DEFINE q == [w.p EXCEPT !.view = FirstView]
<1> DEFINE x == [w EXCEPT !.p = q]
<1> DEFINE u == IF reset THEN [w EXCEPT !.p.view = FirstView] ELSE w
<1>1. /\ q \in PanelT /\ q.active = w.p.active /\ q.course = w.p.course /\ q.since = w.p.since
      /\ q.failed = w.p.failed /\ q.jobs = w.p.jobs /\ q.timer = w.p.timer
  BY DEF PageT, PanelT, PanelSizes
<1>2. [w EXCEPT !.p.view = FirstView] = x
  BY DEF PageT
<1> HIDE DEF q
<1>3. x \in PageT /\ Goes(x, w)
  BY <1>1, PanelGoes
<1> HIDE DEF x
<1>4. u \in PageT /\ Goes(u, w)
  BY <1>2, <1>3 DEF Goes, SameVisit
<1> HIDE DEF u
<1> DEFINE v == Loading(u)
<1>5. v \in PageT /\ Goes(v, w)
  BY <1>4, LoadingGoes, GoesOn
<1> HIDE DEF v
<1> DEFINE f == Flight(v, "open", id, then)
<1>6. f \in FlightT /\ f.then = then
  BY <1>5, FlightForm DEF Ops
<1> HIDE DEF f
<1>7. /\ Sent(v, f, Selection) \in PageT /\ Goes(Sent(v, f, Selection), v)
      /\ "schedule" \in then => Polls(Sent(v, f, Selection))
  BY <1>5, <1>6, SentGoes DEF Selection
<1>8. Goes(Sent(v, f, Selection), w)
  BY <1>5, <1>7, GoesOn
<1>9. QED  BY <1>7, <1>8 DEF Opening, f, v, u

\* So does loadObservations.
LEMMA LoadingRowsGoes ==
  ASSUME PanelSizes, NEW w \in PageT, w.p.selected # NoJob, NEW then \in SUBSET Thens
  PROVE  LET v == LoadingRows(w, then)
         IN  v \in PageT /\ Goes(v, w) /\ ("schedule" \in then => Polls(v))
<1> DEFINE v == Loading(w)
<1> DEFINE f == Flight(w, "rows", w.p.selected.id, then)
<1>1. v \in PageT /\ Goes(v, w)
  BY LoadingGoes
<1>2. w.p.selected.id \in Nat
  BY DEF PageT, PanelT, JobView
<1>3. f \in FlightT /\ f.then = then
  BY <1>2, FlightForm DEF Ops
<1>4. LoadingRows(w, then) = Sent(v, f, Selection)
  BY Zenon DEF LoadingRows
<1> HIDE DEF v, f
<1>5. /\ Sent(v, f, Selection) \in PageT /\ Goes(Sent(v, f, Selection), v)
      /\ "schedule" \in then => Polls(Sent(v, f, Selection))
  BY <1>1, <1>3, SentGoes DEF Selection
<1>6. QED  BY <1>1, <1>4, <1>5, GoesOn

\* A list that is asked for is the latest.
LEMMA ListingPolls ==
  ASSUME PanelSizes, NEW w \in PageT, NEW then \in SUBSET Thens
  PROVE  LET v == Listing(w, then)
         IN  v \in PageT /\ SameVisit(v, w) /\ Polls(v)
<1> DEFINE f == Flight(w, "list", 0, then)
<1> DEFINE v == [w EXCEPT !.fs = Superseded(@, {"list"}) \cup {f}]
<1>1. /\ f \in FlightT /\ f.op = "list" /\ f.live /\ f.latest
      /\ f.course = w.c.course /\ f.rev = w.c.rev
  BY FlightForm DEF Ops
<1> HIDE DEF f
<1>2. Superseded(w.fs, {"list"}) \in SUBSET FlightT
  BY SupersededFades DEF PageT
<1>3. v \in PageT /\ v.p = w.p /\ v.c = w.c /\ f \in v.fs
  BY <1>1, <1>2 DEF PageT
<1>4. Listing(w, then) = v
  BY DEF Listing, Sent, f
<1> HIDE DEF v
<1>5. Polls(v)
  BY <1>1, <1>3 DEF Polls, Awake, Watched, Waiting, Wanted, Current
<1>6. QED  BY <1>3, <1>4, <1>5 DEF SameVisit

\* schedule plans a poll if one is due.
LEMMA ScheduledPolls ==
  ASSUME NEW w \in PageT
  PROVE  LET v == Scheduled(w)
         IN  v \in PageT /\ SameVisit(v, w) /\ Polls(v)
<1> DEFINE b == w.p.active /\ ~w.c.hidden /\ \E j \in w.p.jobs : j.status \in Active
<1>1. b \in BOOLEAN /\ w.p \in PanelT
  BY DEF PageT
<1>2. Scheduled(w) = [w EXCEPT !.p = [w.p EXCEPT !.timer = b]]
  BY <1>1 DEF Scheduled, PageT
<1>3. b <=> w.p.active /\ ~w.c.hidden /\ \E j \in w.p.jobs : j.status \in Active
  OBVIOUS
<1> HIDE DEF b
<1> DEFINE q == [w.p EXCEPT !.timer = b]
<1> DEFINE v == [w EXCEPT !.p = q]
<1>4. /\ q \in PanelT /\ q.active = w.p.active /\ q.course = w.p.course /\ q.since = w.p.since
      /\ q.failed = w.p.failed /\ q.jobs = w.p.jobs /\ q.timer = b
  BY <1>1 DEF PanelT
<1> HIDE DEF q
<1>5. v \in PageT /\ v.p = q /\ v.c = w.c
  BY <1>4 DEF PageT
<1>6. Scheduled(w) = v
  BY <1>2 DEF q
<1> HIDE DEF v
<1>7. Polls(v)
  BY <1>3, <1>4, <1>5 DEF Polls, Watched, Awake
<1>8. QED  BY <1>4, <1>5, <1>6, <1>7 DEF SameVisit

\* The end of a request: one that was to schedule does.
LEMMA OverPolls ==
  ASSUME PanelSizes, NEW w \in PageT, NEW f, NEW then \in SUBSET Thens
  PROVE  LET v == Over(w, f, then)
         IN  v \in PageT /\ SameVisit(v, w) /\ (Polls(w) \/ "schedule" \in then => Polls(v))
<1> DEFINE planned == IF "schedule" \in then THEN Scheduled(w) ELSE w
<1> DEFINE settled == IF then \cap {"started", "mutated"} # {} /\ Current(planned, f)
                      THEN [planned EXCEPT !.p.busy = FALSE] ELSE planned
<1> DEFINE drawn == IF "mutated" \in then /\ Current(settled, f) THEN Rendered(settled) ELSE settled
<1> DEFINE again == "reopen" \in then /\ Current(drawn, f) /\ drawn.p.selected # NoJob
<1>1. Over(w, f, then) = IF again THEN Opening(drawn, drawn.p.selected.id, FALSE, {}) ELSE drawn
  BY DEF Over
<1>2. /\ planned \in PageT /\ SameVisit(planned, w)
      /\ Polls(w) \/ "schedule" \in then => Polls(planned)
  <2>1. SameVisit(w, w)
    BY DEF SameVisit
  <2>2. QED  BY <2>1, ScheduledPolls
<1> HIDE DEF planned
<1>3. settled \in PageT /\ Goes(settled, planned)
  <2>1. Goes(planned, planned)
    BY DEF Goes, SameVisit
  <2> DEFINE q == [planned.p EXCEPT !.busy = FALSE]
  <2>2. /\ q \in PanelT /\ q.active = planned.p.active /\ q.course = planned.p.course
        /\ q.since = planned.p.since /\ q.failed = planned.p.failed /\ q.jobs = planned.p.jobs
        /\ q.timer = planned.p.timer
    BY <1>2 DEF PageT, PanelT
  <2>3. [planned EXCEPT !.p.busy = FALSE] = [planned EXCEPT !.p = q]
    BY <1>2 DEF PageT
  <2> HIDE DEF q
  <2>4. [planned EXCEPT !.p = q] \in PageT /\ Goes([planned EXCEPT !.p = q], planned)
    BY <1>2, <2>2, PanelGoes
  <2>5. QED  BY <1>2, <2>1, <2>3, <2>4
<1> HIDE DEF settled
<1>4. drawn \in PageT /\ Goes(drawn, planned)
  BY <1>3, RenderedGoes, GoesOn
<1> HIDE DEF drawn
<1>5. ASSUME again
      PROVE  LET v == Opening(drawn, drawn.p.selected.id, FALSE, {})
             IN  v \in PageT /\ Goes(v, planned)
  <2>1. drawn.p.selected.id \in Nat
    BY <1>4, <1>5 DEF PageT, PanelT, JobView
  <2>2. QED  BY <1>4, <2>1, OpeningGoes, GoesOn
<1> HIDE DEF again
<1>6. Over(w, f, then) \in PageT /\ Goes(Over(w, f, then), planned)
  BY <1>1, <1>4, <1>5
<1>7. QED  BY <1>2, <1>6, GoesPolls DEF Goes, SameVisit

\* A report of a failure goes on polling, but after a failed list.
LEMMA ReportedGoes ==
  ASSUME NEW w \in PageT, NEW what \in {"list", "other"}
  PROVE  LET v == Reported(w, what)
         IN  /\ v \in PageT /\ Goes(v, w) /\ v.fs = w.fs
             /\ what = "list" => v.p.failed = "list"
<1> DEFINE q == [w.p EXCEPT !.failed = IF @ = "list" THEN @ ELSE what]
<1>1. /\ q \in PanelT /\ q.active = w.p.active /\ q.course = w.p.course /\ q.since = w.p.since
      /\ q.failed = (IF w.p.failed = "list" THEN "list" ELSE what)
      /\ q.jobs = w.p.jobs /\ q.timer = w.p.timer
  BY DEF PageT, PanelT
<1>2. Reported(w, what) = [w EXCEPT !.p = q]
  BY DEF Reported, PageT
<1> HIDE DEF q
<1>3. QED  BY <1>1, <1>2, PanelGoes

\* Another panel of the same visit.
LEMMA PanelVisit ==
  ASSUME NEW w \in PageT, NEW q \in PanelT, q.active = w.p.active, q.course = w.p.course,
         q.since = w.p.since, q.failed # "list" => w.p.failed # "list"
  PROVE  LET v == [w EXCEPT !.p = q]
         IN  v \in PageT /\ v.p = q /\ v.c = w.c /\ v.fs = w.fs /\ SameVisit(v, w)
<1> DEFINE v == [w EXCEPT !.p = q]
<1>1. v \in PageT /\ v.p = q /\ v.c = w.c /\ v.fs = w.fs
  BY DEF PageT
<1> HIDE DEF v
<1>2. SameVisit(v, w)
  BY <1>1 DEF SameVisit
<1>3. QED  BY <1>1, <1>2 DEF v

\* One after the other.
LEMMA VisitOn == ASSUME NEW u, NEW v, NEW w, SameVisit(u, v), SameVisit(v, w) PROVE SameVisit(u, w)
BY DEF SameVisit

\* What a request that has left page w leaves to be scheduled.
Owed(w, f) == Polls(w) \/ "schedule" \in f.then \/ f.op = "list"

\* After a failure.
LEMMA FailurePolls ==
  ASSUME PanelSizes, NEW w \in PageT, NEW f \in FlightT, Owed(w, f)
  PROVE  LET v == Failure(w, f) IN v \in PageT /\ SameVisit(v, w) /\ Polls(v)
<1> DEFINE what == IF f.op = "list" THEN "list" ELSE "other"
<1> DEFINE v == Reported(w, what)
<1>1. v \in PageT /\ Goes(v, w) /\ v.fs = w.fs /\ (f.op = "list" => v.p.failed = "list")
  BY ReportedGoes
<1>2. f.then \in SUBSET Thens /\ f.id \in Nat
  BY DEF FlightT
<1> HIDE DEF v
<1>3. SameVisit(v, w) /\ (f.op # "list" => Polls(v) \/ "schedule" \in f.then)
  BY <1>1, GoesPolls DEF Goes, Owed
<1>4. CASE f.op = "list"
  <2> DEFINE q == [v.p EXCEPT !.timer = FALSE]
  <2> DEFINE u == [v EXCEPT !.p = q]
  <2>1. /\ q \in PanelT /\ q.active = v.p.active /\ q.course = v.p.course /\ q.since = v.p.since
        /\ q.failed = "list"
    BY <1>1, <1>4 DEF PageT, PanelT
  <2>2. [v EXCEPT !.p.timer = FALSE] = u
    BY <1>1 DEF PageT
  <2> HIDE DEF q
  <2>3. u \in PageT /\ SameVisit(u, v) /\ u.p.failed = "list"
    BY <1>1, <2>1, PanelVisit
  <2> HIDE DEF u
  <2>4. Polls(u)
    BY <2>3 DEF Polls, Watched
  <2>5. Over(u, f, f.then) \in PageT /\ SameVisit(Over(u, f, f.then), u) /\ Polls(Over(u, f, f.then))
    BY <1>2, <2>3, <2>4, OverPolls
  <2>6. Failure(w, f) = Over(u, f, f.then)
    BY <1>4, <2>2 DEF Failure, v
  <2>7. QED  BY <1>3, <2>3, <2>5, <2>6, VisitOn
<1>5. CASE f.op \in {"cancel", "review"} /\ w.p.selected # NoJob /\ w.p.selected.id = f.id
  <2> DEFINE u == Opening(v, f.id, FALSE, f.then)
  <2>1. u \in PageT /\ Goes(u, v) /\ ("schedule" \in f.then => Polls(u))
    BY <1>1, <1>2, OpeningGoes
  <2>2. Failure(w, f) = u
    BY <1>5 DEF Failure, v
  <2> HIDE DEF u
  <2>3. SameVisit(u, v) /\ Polls(u)
    BY <1>3, <1>5, <2>1, GoesPolls DEF Goes
  <2>4. QED  BY <1>3, <2>1, <2>2, <2>3, VisitOn
<1>6. CASE ~(f.op = "list") /\ ~(f.op \in {"cancel", "review"} /\ w.p.selected # NoJob /\ w.p.selected.id = f.id)
  <2>1. Over(v, f, f.then) \in PageT /\ SameVisit(Over(v, f, f.then), v) /\ Polls(Over(v, f, f.then))
    BY <1>1, <1>2, <1>3, <1>6, OverPolls
  <2>2. Failure(w, f) = Over(v, f, f.then)
    BY <1>6 DEF Failure, v
  <2>3. QED  BY <1>3, <2>1, <2>2, VisitOn
<1>7. QED  BY <1>4, <1>5, <1>6

\* After the list has arrived.
LEMMA ListOkPolls ==
  ASSUME PanelSizes, NEW w \in PageT, NEW f \in FlightT, f.seen \in SUBSET JobView
  PROVE  LET v == ListOk(w, f) IN v \in PageT /\ SameVisit(v, w) /\ Polls(v)
<1> DEFINE v == [w EXCEPT !.p.jobs = f.seen]
<1> DEFINE same == {j \in f.seen : v.p.selected # NoJob /\ j.id = v.p.selected.id}
<1> DEFINE j0 == CHOOSE j \in same : TRUE
<1> DEFINE x == [v EXCEPT !.p.selected = j0]
<1> DEFINE u == IF \E j \in same : j.status \in Active THEN Rendered(x) ELSE v
<1>1. ListOk(w, f) = IF \E j \in same : Differs(v.p.selected, j)
                     THEN Opening(v, v.p.selected.id, FALSE, f.then \cup {"schedule"})
                     ELSE Over(Scheduled(u), f, f.then)
  BY DEF ListOk
<1>2. f.then \in SUBSET Thens /\ (f.then \cup {"schedule"}) \in SUBSET Thens
  BY DEF FlightT, Thens
<1>3. v \in PageT /\ SameVisit(v, w)
  <2> DEFINE q == [w.p EXCEPT !.jobs = f.seen]
  <2>1. /\ q \in PanelT /\ q.active = w.p.active /\ q.course = w.p.course /\ q.since = w.p.since
        /\ q.failed = w.p.failed
    BY DEF PageT, PanelT
  <2>2. v = [w EXCEPT !.p = q]
    BY DEF PageT
  <2> HIDE DEF q
  <2>3. QED  BY <2>1, <2>2, PanelVisit
<1> HIDE DEF v
<1>4. ASSUME \E j \in same : Differs(v.p.selected, j)
      PROVE  LET y == Opening(v, v.p.selected.id, FALSE, f.then \cup {"schedule"})
             IN  y \in PageT /\ SameVisit(y, v) /\ Polls(y)
  <2>1. v.p.selected.id \in Nat
    BY <1>3, <1>4 DEF PageT, PanelT, JobView
  <2> DEFINE y == Opening(v, v.p.selected.id, FALSE, f.then \cup {"schedule"})
  <2>2. y \in PageT /\ Goes(y, v) /\ Polls(y)
    BY <1>2, <1>3, <2>1, OpeningGoes
  <2> HIDE DEF y
  <2>3. SameVisit(y, v)
    BY <2>2 DEF Goes
  <2>4. QED  BY <2>2, <2>3 DEF y
<1>5. u \in PageT /\ SameVisit(u, v)
  <2>1. CASE \E j \in same : j.status \in Active
    <3>1. j0 \in JobView
      BY <2>1
    <3> HIDE DEF j0
    <3> DEFINE q == [v.p EXCEPT !.selected = j0]
    <3>2. /\ q \in PanelT /\ q.active = v.p.active /\ q.course = v.p.course /\ q.since = v.p.since
          /\ q.failed = v.p.failed
      BY <1>3, <3>1 DEF PageT, PanelT
    <3>3. x = [v EXCEPT !.p = q]
      BY <1>3 DEF PageT
    <3> HIDE DEF q
    <3>4. x \in PageT /\ SameVisit(x, v)
      BY <1>3, <3>2, <3>3, PanelVisit
    <3> HIDE DEF x
    <3>5. Rendered(x) \in PageT /\ SameVisit(Rendered(x), v)
      BY <3>4, RenderedGoes, VisitOn DEF Goes
    <3>6. QED  BY <2>1, <3>5
  <2>2. CASE ~\E j \in same : j.status \in Active
    BY <1>3, <2>2 DEF SameVisit
  <2>3. QED  BY <2>1, <2>2
<1> HIDE DEF u, same
<1> DEFINE z == Scheduled(u)
<1>6. z \in PageT /\ SameVisit(z, v) /\ Polls(z)
  BY <1>5, ScheduledPolls, VisitOn
<1>7. /\ Over(z, f, f.then) \in PageT /\ SameVisit(Over(z, f, f.then), z) /\ Polls(Over(z, f, f.then))
  <2> HIDE DEF z
  <2>1. QED  BY <1>2, <1>6, OverPolls
<1>8. SameVisit(Over(z, f, f.then), v)
  <2> HIDE DEF z
  <2>1. QED  BY <1>6, <1>7, VisitOn
<1>9. QED  BY <1>1, <1>3, <1>4, <1>7, <1>8, VisitOn

\* After an extraction has arrived.
LEMMA OpenOkPolls ==
  ASSUME PanelSizes, NEW w \in PageT, NEW f \in FlightT, f.seen \in SUBSET JobView, f.seen # {},
         Polls(w) \/ "schedule" \in f.then
  PROVE  LET v == OpenOk(w, f) IN v \in PageT /\ SameVisit(v, w) /\ Polls(v)
<1> DEFINE j == CHOOSE k \in f.seen : TRUE
<1> DEFINE v == [w EXCEPT !.p.selected = j, !.p.rows = NoRows]
<1> DEFINE y == Loading(v)
<1> DEFINE g == [f EXCEPT !.op = "rows", !.pc = "sent", !.view = v.p.view, !.seen = {}]
<1> DEFINE x == [y EXCEPT !.fs = @ \cup {g}]
<1>1. OpenOk(w, f) = IF v.p.selected.status = "completed" THEN x ELSE Over(Rendered(v), f, f.then)
  BY DEF OpenOk
<1>2. j \in JobView /\ f.then \in SUBSET Thens
  BY DEF FlightT
<1> HIDE DEF j
<1>3. v \in PageT /\ Goes(v, w)
  <2> DEFINE q == [w.p EXCEPT !.selected = j, !.rows = NoRows]
  <2>1. /\ q \in PanelT /\ q.active = w.p.active /\ q.course = w.p.course /\ q.since = w.p.since
        /\ q.failed = w.p.failed /\ q.jobs = w.p.jobs /\ q.timer = w.p.timer
    BY <1>2 DEF PageT, PanelT
  <2>2. v = [w EXCEPT !.p = q]
    BY DEF PageT
  <2> HIDE DEF q
  <2>3. QED  BY <2>1, <2>2, PanelGoes
<1> HIDE DEF v
<1>4. SameVisit(v, w) /\ (Polls(v) \/ "schedule" \in f.then)
  BY <1>3, GoesPolls DEF Goes
<1>5. y \in PageT /\ Goes(y, v)
  BY <1>3, LoadingGoes
<1>6. g \in FlightT /\ g.then = f.then
  BY <1>3 DEF FlightT, PageT, PanelT, Ops
<1> HIDE DEF y, g
<1>7. x \in PageT /\ x.p = y.p /\ x.c = y.c /\ x.fs = y.fs \cup {g}
  BY <1>5, <1>6 DEF PageT
<1> HIDE DEF x
<1>8. Goes(x, y)
  BY <1>7 DEF Goes, SameVisit, Waiting, Wanted, Current
<1>9. Polls(x)
  <2>1. CASE Polls(v)
    BY <1>5, <1>8, <2>1, GoesPolls
  <2>2. CASE "schedule" \in f.then
    BY <1>6, <1>7, <2>2 DEF Polls, Awake, Waiting
  <2>3. QED  BY <1>4, <2>1, <2>2
<1>10. SameVisit(x, v)
  BY <1>5, <1>8, VisitOn DEF Goes
<1> DEFINE z == Rendered(v)
<1>11. z \in PageT /\ SameVisit(z, v) /\ (Polls(z) \/ "schedule" \in f.then)
  BY <1>3, <1>4, RenderedGoes, GoesPolls DEF Goes
<1> HIDE DEF z
<1>12. Over(z, f, f.then) \in PageT /\ SameVisit(Over(z, f, f.then), z) /\ Polls(Over(z, f, f.then))
  BY <1>2, <1>11, OverPolls
<1>13. SameVisit(Over(z, f, f.then), v)
  BY <1>11, <1>12, VisitOn
<1>14. QED  BY <1>1, <1>4, <1>7, <1>9, <1>10, <1>12, <1>13, VisitOn DEF z

\* After observations have arrived.
LEMMA RowsOkPolls ==
  ASSUME PanelSizes, NEW w \in PageT, NEW f \in FlightT, f.seen \in SUBSET RowView, f.seen # {},
         Polls(w) \/ "schedule" \in f.then
  PROVE  LET v == RowsOk(w, f) IN v \in PageT /\ SameVisit(v, w) /\ Polls(v)
<1> DEFINE r == CHOOSE s \in f.seen : TRUE
<1> DEFINE v == [w EXCEPT !.p.rows = r]
<1>1. RowsOk(w, f) = Over(Rendered(v), f, f.then)
  BY DEF RowsOk
<1>2. r \in RowView /\ f.then \in SUBSET Thens
  BY DEF FlightT
<1> HIDE DEF r
<1>3. v \in PageT /\ Goes(v, w)
  <2> DEFINE q == [w.p EXCEPT !.rows = r]
  <2>1. /\ q \in PanelT /\ q.active = w.p.active /\ q.course = w.p.course /\ q.since = w.p.since
        /\ q.failed = w.p.failed /\ q.jobs = w.p.jobs /\ q.timer = w.p.timer
    BY <1>2 DEF PageT, PanelT
  <2>2. v = [w EXCEPT !.p = q]
    BY DEF PageT
  <2> HIDE DEF q
  <2>3. QED  BY <2>1, <2>2, PanelGoes
<1> HIDE DEF v
<1> DEFINE z == Rendered(v)
<1>4. z \in PageT /\ Goes(z, w)
  BY <1>3, RenderedGoes, GoesOn
<1> HIDE DEF z
<1>5. SameVisit(z, w) /\ (Polls(z) \/ "schedule" \in f.then)
  BY <1>4, GoesPolls DEF Goes
<1>6. Over(z, f, f.then) \in PageT /\ SameVisit(Over(z, f, f.then), z) /\ Polls(Over(z, f, f.then))
  BY <1>2, <1>4, <1>5, OverPolls
<1>7. QED  BY <1>1, <1>5, <1>6, VisitOn DEF z

\* After the extraction that was started has arrived.
LEMMA StartOkPolls ==
  ASSUME PanelSizes, NEW w \in PageT, NEW f \in FlightT, f.seen \in SUBSET JobView, f.seen # {}
  PROVE  LET v == StartOk(w, f) IN v \in PageT /\ SameVisit(v, w) /\ Polls(v)
<1> DEFINE job == CHOOSE k \in f.seen : TRUE
<1> DEFINE listed == {job} \cup {j \in w.p.jobs : j.id # job.id}
<1> DEFINE q == [w.p EXCEPT !.pending = NoRequest, !.asked = job.id, !.jobs = listed]
<1> DEFINE v == [w EXCEPT !.p = q]
<1> DEFINE then == f.then \cup {"schedule"}
<1>1. [w EXCEPT !.p.pending = NoRequest, !.p.asked = job.id,
                !.p.jobs = {job} \cup {j \in @ : j.id # job.id}] = v
  BY DEF PageT, PanelT
<1>2. StartOk(w, f) = Opening(v, job.id, TRUE, then)
  BY <1>1, Zenon DEF StartOk
<1>3. job \in JobView /\ then \in SUBSET Thens /\ "schedule" \in then
  BY DEF FlightT, Thens
<1> HIDE DEF job, then
<1>4. job.id \in Nat /\ listed \in SUBSET JobView
  BY <1>3 DEF JobView, PageT, PanelT
<1> HIDE DEF listed
<1>5. /\ q \in PanelT /\ q.active = w.p.active /\ q.course = w.p.course /\ q.since = w.p.since
      /\ q.failed = w.p.failed
  BY <1>4, ClosedType DEF PageT, PanelT
<1> HIDE DEF q
<1>6. v \in PageT /\ SameVisit(v, w)
  BY <1>5, PanelVisit
<1> HIDE DEF v
<1> DEFINE u == Opening(v, job.id, TRUE, then)
<1>7. u \in PageT /\ Goes(u, v) /\ Polls(u)
  BY <1>3, <1>4, <1>6, OpeningGoes
<1>8. StartOk(w, f) = u
  BY <1>2
<1> HIDE DEF u
<1>9. SameVisit(u, w)
  BY <1>6, <1>7, VisitOn DEF Goes
<1>10. QED  BY <1>7, <1>8, <1>9

\* After the extraction that was cancelled or reviewed has arrived.
LEMMA MutationOkPolls ==
  ASSUME PanelSizes, NEW w \in PageT, NEW f \in FlightT, f.seen \in SUBSET JobView, f.seen # {}
  PROVE  LET v == MutationOk(w, f) IN v \in PageT /\ SameVisit(v, w) /\ Polls(v)
<1> DEFINE job == CHOOSE k \in f.seen : TRUE
<1> DEFINE mine == w.p.selected # NoJob /\ w.p.selected.id = f.id
<1> DEFINE chosen == IF mine THEN job ELSE w.p.selected
<1> DEFINE listed == {IF j.id = f.id THEN job ELSE j : j \in w.p.jobs}
<1> DEFINE q == [w.p EXCEPT !.selected = chosen, !.jobs = listed]
<1> DEFINE v == [w EXCEPT !.p = q]
<1> DEFINE then == f.then \cup {"schedule"}
<1> DEFINE u == [w EXCEPT !.p.selected = IF mine THEN job ELSE @,
                          !.p.jobs = {IF j.id = f.id THEN job ELSE j : j \in @}]
<1>1. MutationOk(w, f) = IF mine /\ f.op = "review" THEN LoadingRows(u, then)
                         ELSE Over(Scheduled(u), f, f.then)
  BY DEF MutationOk
<1>2. u = v
  BY DEF PageT, PanelT
<1> HIDE DEF u
<1>3. job \in JobView /\ then \in SUBSET Thens /\ "schedule" \in then /\ f.then \in SUBSET Thens
  BY DEF FlightT, Thens
<1> HIDE DEF job, then
<1>4. listed \in SUBSET JobView /\ chosen \in JobView \cup {NoJob} /\ (mine => chosen # NoJob)
  BY <1>3, NoneOfThem DEF PageT, PanelT
<1> HIDE DEF listed, chosen
<1>5. /\ q \in PanelT /\ q.active = w.p.active /\ q.course = w.p.course /\ q.since = w.p.since
      /\ q.failed = w.p.failed /\ q.selected = chosen
  BY <1>4 DEF PageT, PanelT
<1> HIDE DEF q
<1>6. v \in PageT /\ SameVisit(v, w) /\ v.p.selected = chosen
  BY <1>5, PanelVisit
<1> HIDE DEF v
<1>7. CASE mine /\ f.op = "review"
  <2> DEFINE x == LoadingRows(v, then)
  <2>1. x \in PageT /\ Goes(x, v) /\ Polls(x)
    BY <1>3, <1>4, <1>6, <1>7, LoadingRowsGoes
  <2>2. MutationOk(w, f) = x
    BY <1>1, <1>2, <1>7
  <2> HIDE DEF x
  <2>3. QED  BY <1>6, <2>1, <2>2, VisitOn DEF Goes
<1>8. CASE ~(mine /\ f.op = "review")
  <2> DEFINE z == Scheduled(v)
  <2>1. z \in PageT /\ SameVisit(z, v) /\ Polls(z)
    BY <1>6, ScheduledPolls
  <2>2. MutationOk(w, f) = Over(z, f, f.then)
    BY <1>1, <1>2, <1>8
  <2> HIDE DEF z
  <2>3. Over(z, f, f.then) \in PageT /\ SameVisit(Over(z, f, f.then), z) /\ Polls(Over(z, f, f.then))
    BY <1>3, <2>1, OverPolls
  <2>4. QED  BY <1>6, <2>1, <2>2, <2>3, VisitOn
<1>9. QED  BY <1>7, <1>8

\* The invariant of polling: an open panel polls for the course that is open.
PollInv == Here(Page) /\ Polls(Page)

\* Page w is what a step makes of the page.
LEMMA TurnPolls == ASSUME NEW w \in PageT, Turn(w), Here(w), Polls(w) PROVE PollInv'
<1>1. Page' = w
  BY TurnIs
<1>2. QED  BY <1>1 DEF PollInv

\* Page w waits for what the page does.
LEMMA GoesTurn == ASSUME NEW w \in PageT, Turn(w), Goes(w, Page), PollInv PROVE PollInv'
BY TurnPolls, GoesPolls DEF PollInv

\* A page goes on as itself.
LEMMA GoesSelf == ASSUME NEW w PROVE Goes(w, w) /\ SameVisit(w, w)
BY DEF Goes, SameVisit

\* Another context, with the course and the revision as they are.
LEMMA ContextGoes ==
  ASSUME NEW w \in PageT, NEW c \in ContextT, c.course = w.c.course, c.rev = w.c.rev
  PROVE  LET v == [w EXCEPT !.c = c]
         IN  /\ v \in PageT /\ v.c = c /\ v.p = w.p /\ (Here(w) => Here(v))
             /\ c.hidden = w.c.hidden /\ Polls(w) => Polls(v)
<1> DEFINE v == [w EXCEPT !.c = c]
<1>1. v \in PageT /\ v.c = c /\ v.p = w.p /\ v.fs = w.fs
  BY DEF PageT
<1> HIDE DEF v
<1>2. Here(w) => Here(v)
  BY <1>1 DEF Here
<1>3. \A f \in w.fs : Waiting(w, f) => Waiting(v, f)
  BY <1>1 DEF Waiting, Wanted, Current
<1>4. c.hidden = w.c.hidden /\ Polls(w) => Polls(v)
  BY <1>1, <1>3 DEF Polls, Watched, Awake
<1>5. QED  BY <1>1, <1>2, <1>4 DEF v

\* A panel that is not in use does not poll.
LEMMA IdlePolls == ASSUME NEW w, ~w.p.active PROVE Here(w) /\ Polls(w)
BY DEF Here, Polls, Watched

\* suspend leaves no panel in use.
LEMMA SuspendedPage ==
  ASSUME PanelSizes, NEW w \in PageT
  PROVE  /\ Suspended(w) \in PageT /\ ~Suspended(w).p.active /\ Suspended(w).c = w.c
<1> DEFINE q == [w.p EXCEPT !.active = FALSE, !.timer = FALSE, !.busy = FALSE, !.asked = 0]
<1> DEFINE fs == Superseded(Expired(w.fs), Ops)
<1> DEFINE v == [w EXCEPT !.p = q, !.fs = fs]
<1>1. q \in PanelT /\ ~q.active
  BY DEF PageT, PanelT
<1>2. Suspended(w) = v
  BY DEF Suspended, PageT
<1>3. fs \in SUBSET FlightT
  BY ExpiredFades, SupersededFades DEF PageT
<1> HIDE DEF q, fs
<1>4. v \in PageT /\ v.p = q /\ v.c = w.c
  BY <1>1, <1>3 DEF PageT
<1>5. QED  BY <1>1, <1>2, <1>4

\* Neither does clear.
LEMMA ClearedPage ==
  ASSUME PanelSizes, NEW w \in PageT
  PROVE  Cleared(w) \in PageT /\ ~Cleared(w).p.active /\ Cleared(w).c = w.c
<1> DEFINE u == Suspended(w)
<1> DEFINE q == [ClosedPanel EXCEPT !.view = w.p.view, !.form = w.p.form + 1]
<1> DEFINE v == [u EXCEPT !.p = q]
<1>1. u \in PageT /\ u.c = w.c
  BY SuspendedPage
<1>2. w.p.view \in Views /\ w.p.form + 1 \in Nat /\ NoCourse \in AnyCourse
  BY DEF PageT, PanelT, AnyCourse
<1>3. q \in PanelT
  BY <1>2, ClosedChanged
<1>4. ~q.active
  BY DEF ClosedPanel
<1>5. Cleared(w) = v
  BY DEF Cleared
<1> HIDE DEF u, q
<1>6. v \in PageT /\ v.p = q /\ v.c = u.c
  BY <1>1, <1>3 DEF PageT
<1>7. QED  BY <1>1, <1>4, <1>5, <1>6

\* A refresh asks for the list.
LEMMA RefreshedPolls ==
  ASSUME PanelSizes, NEW w \in PageT
  PROVE  Refreshed(w) \in PageT /\ Here(Refreshed(w)) /\ Polls(Refreshed(w))
<1> DEFINE changed == w.p.course # w.c.course
<1> DEFINE old == [w.p EXCEPT !.timer = FALSE, !.busy = FALSE, !.asked = 0, !.failed = "no"]
<1> DEFINE p == IF changed THEN [ClosedPanel EXCEPT !.course = w.c.course, !.form = w.p.form + 1]
                ELSE old
<1> DEFINE q == [p EXCEPT !.active = TRUE, !.since = w.c.rev]
<1> DEFINE fs == Superseded(Expired(w.fs), Selection)
<1> DEFINE v == [w EXCEPT !.p = q, !.fs = fs]
<1> DEFINE then == IF changed THEN {} ELSE {"reopen"}
<1>1. Refreshed(w) = IF w.c.course = NoCourse THEN Cleared(w) ELSE Listing(v, then)
  BY DEF Refreshed
<1>2. w.p \in PanelT /\ w.fs \in SUBSET FlightT /\ w.c \in ContextT
  BY DEF PageT
<1>3. fs \in SUBSET FlightT
  BY <1>2, ExpiredFades, SupersededFades
<1>4. p \in PanelT /\ p.course = w.c.course
  <2>1. CASE changed
    <3>1. w.p.form + 1 \in Nat /\ w.c.course \in AnyCourse /\ w.p.view \in Views
      BY <1>2 DEF PanelT, ContextT
    <3>2. p = [ClosedPanel EXCEPT !.course = w.c.course, !.form = w.p.form + 1]
      BY <2>1
    <3>3. p \in PanelT
      BY <3>1, <3>2, ClosedChanged
    <3>4. QED  BY <3>2, <3>3 DEF ClosedPanel
  <2>2. CASE ~changed
    BY <1>2, <2>2 DEF PanelT
  <2>3. QED  BY <2>1, <2>2
<1>5. then \in SUBSET Thens
  BY DEF Thens
<1> HIDE DEF fs, p, then
<1>6. q \in PanelT /\ q.course = w.c.course /\ q.since = w.c.rev
  BY <1>2, <1>4 DEF PanelT, ContextT
<1> HIDE DEF q
<1>7. v \in PageT /\ v.p = q /\ v.c = w.c
  BY <1>3, <1>6 DEF PageT
<1> HIDE DEF v
<1>8. ASSUME w.c.course # NoCourse PROVE Here(v)
  BY <1>2, <1>6, <1>7, <1>8 DEF Here, ContextT, AnyCourse
<1>9. Listing(v, then) \in PageT /\ Polls(Listing(v, then)) /\ SameVisit(Listing(v, then), v)
  BY <1>5, <1>7, ListingPolls
<1>10. QED  BY <1>1, <1>8, <1>9, ClearedPage, IdlePolls, SameHere

\* The author comes to the extraction panel, or leaves it.
LEMMA VisitPolls == ASSUME PanelSizes, SafeInv, NEW videos \in BOOLEAN, Visit(videos) PROVE PollInv'
<1> DEFINE u == Suspended(Page)
<1> DEFINE w == [u EXCEPT !.c.videos = videos]
<1>1. u \in PageT /\ ~u.p.active
  BY PageIs, SuspendedPage
<1>2. Turn(IF videos THEN Refreshed(w) ELSE w)
  BY DEF Visit
<1> HIDE DEF u
<1>3. w \in PageT /\ ~w.p.active
  <2> DEFINE c == [u.c EXCEPT !.videos = videos]
  <2>1. c \in ContextT /\ w = [u EXCEPT !.c = c]
    BY <1>1 DEF PageT, ContextT
  <2> HIDE DEF c
  <2>2. QED  BY <1>1, <2>1 DEF PageT
<1> HIDE DEF w
<1>4. QED  BY <1>2, <1>3, RefreshedPolls, IdlePolls, TurnPolls

\* With one course, the course that is opened is the one that was open, or none was.
LEMMA OpenCoursePolls ==
  ASSUME PanelSizes, OneCourse, SafeInv, PollInv, NEW c \in Courses, OpenCourse(c)
  PROVE  PollInv'
<1> DEFINE more == [ctx EXCEPT !.course = c, !.rev = saved[c], !.dirty = FALSE]
<1> DEFINE w == [Page EXCEPT !.c = more]
<1>1. ~panel.active
  BY PageIs DEF OneCourse, OpenCourse, PollInv, Here
<1>2. more \in ContextT
  BY PageIs DEF ContextT, AnyCourse
<1>3. Turn(ContextChanged(w))
  BY PageIs DEF OpenCourse, PageT, ContextT
<1> HIDE DEF more
<1>4. w \in PageT /\ w.p = panel
  BY <1>2, PageIs DEF PageT
<1> HIDE DEF w
<1>5. ContextChanged(w) = w
  BY <1>1, <1>4 DEF ContextChanged
<1>6. QED  BY <1>1, <1>3, <1>4, <1>5, IdlePolls, TurnPolls

\* The author signs out.
LEMMA SignOutPolls == ASSUME PanelSizes, SafeInv, SignOut PROVE PollInv'
<1> DEFINE u == Cleared(Page)
<1> DEFINE w == [u EXCEPT !.c.course = NoCourse, !.c.dirty = FALSE, !.c.videos = FALSE]
<1>1. u \in PageT /\ ~u.p.active
  BY PageIs, ClearedPage
<1>2. Turn(w)
  BY DEF SignOut
<1> HIDE DEF u
<1>3. w \in PageT /\ ~w.p.active
  <2> DEFINE c == [u.c EXCEPT !.course = NoCourse, !.dirty = FALSE, !.videos = FALSE]
  <2>1. c \in ContextT /\ w = [u EXCEPT !.c = c]
    BY <1>1 DEF PageT, ContextT, AnyCourse
  <2> HIDE DEF c
  <2>2. QED  BY <1>1, <2>1 DEF PageT
<1> HIDE DEF w
<1>4. QED  BY <1>2, <1>3, IdlePolls, TurnPolls

\* The browser's tab is hidden.
LEMMA HidePolls == ASSUME PanelSizes, SafeInv, PollInv, Hide PROVE PollInv'
<1> DEFINE w == [Page EXCEPT !.c.hidden = TRUE, !.p.timer = FALSE]
<1> DEFINE c == [ctx EXCEPT !.hidden = TRUE]
<1> DEFINE q == [panel EXCEPT !.timer = FALSE]
<1>1. /\ c \in ContextT /\ c.hidden /\ c.course = ctx.course /\ c.rev = ctx.rev
      /\ q \in PanelT /\ q.active = panel.active /\ q.course = panel.course /\ q.since = panel.since
  BY PageIs DEF ContextT, PanelT
<1>2. w = [Page EXCEPT !.c = c, !.p = q] /\ Turn(w)
  BY PageIs DEF Hide, PageT
<1> HIDE DEF w, c, q
<1>3. w \in PageT /\ w.p = q /\ w.c = c
  BY <1>1, <1>2, PageIs DEF PageT
<1>4. Here(w) /\ Polls(w)
  BY <1>1, <1>3, PageIs DEF PollInv, Here, Polls, Watched
<1>5. QED  BY <1>2, <1>3, <1>4, TurnPolls

\* The browser's tab is seen again: the list is asked for.
LEMMA ReturnPolls == ASSUME PanelSizes, SafeInv, PollInv, Return PROVE PollInv'
<1> DEFINE c == [ctx EXCEPT !.hidden = FALSE]
<1> DEFINE w == [Page EXCEPT !.c = c]
<1>1. c \in ContextT /\ c.course = ctx.course /\ c.rev = ctx.rev
  BY PageIs DEF ContextT
<1>2. Turn(IF w.p.active THEN Listing(w, {}) ELSE w)
  BY PageIs DEF Return, PageT
<1> HIDE DEF c
<1>3. w \in PageT /\ Here(w)
  BY <1>1, PageIs, ContextGoes DEF PollInv
<1> HIDE DEF w
<1>4. Listing(w, {}) \in PageT /\ SameVisit(Listing(w, {}), w) /\ Polls(Listing(w, {}))
  BY <1>3, ListingPolls
<1>5. CASE w.p.active
  BY <1>2, <1>3, <1>4, <1>5, SameHere, TurnPolls
<1>6. CASE ~w.p.active
  BY <1>2, <1>3, <1>6, IdlePolls, TurnPolls
<1>7. QED  BY <1>5, <1>6

\* The draft is edited.
LEMMA EditPolls == ASSUME PanelSizes, SafeInv, PollInv, Edit PROVE PollInv'
<1> DEFINE c == [ctx EXCEPT !.dirty = TRUE]
<1> DEFINE w == [Page EXCEPT !.c = c]
<1>1. c \in ContextT /\ c.course = ctx.course /\ c.rev = ctx.rev /\ c.hidden = ctx.hidden
  BY PageIs DEF ContextT
<1>2. Turn(ContextChanged(w))
  BY PageIs DEF Edit, PageT
<1> HIDE DEF c
<1>3. w \in PageT /\ Here(w) /\ Polls(w)
  BY <1>1, PageIs, ContextGoes DEF PollInv
<1> HIDE DEF w
<1>4. ContextChanged(w) \in PageT /\ Goes(ContextChanged(w), w)
  BY <1>3, RenderedGoes, GoesSelf DEF ContextChanged
<1>5. QED  BY <1>2, <1>3, <1>4, GoesPolls, TurnPolls

\* A step after which the page goes on polling keeps the invariant.
LEMMA TurnGoes == ASSUME PollInv, NEW v, Turn(v), Goes(v, Page) PROVE PollInv'
<1>1. Page'.p = v.p /\ Page'.fs = v.fs /\ Page'.c = v.c
  BY DEF Page, Turn
<1> DEFINE w == Page'
<1>2. w.p = v.p /\ w.fs = v.fs /\ w.c = v.c
  BY <1>1
<1> HIDE DEF w
<1>3. Here(v) /\ Polls(v)
  BY GoesPolls DEF PollInv
<1>4. Here(w) /\ Polls(w)
  BY <1>2, <1>3 DEF Here, Polls, Watched, Awake, Waiting, Wanted, Current
<1>5. QED  BY <1>4 DEF PollInv, w

\* The draft has a new revision, that no refresh of the panel has seen.
LEMMA RevisionPolls ==
  ASSUME SafeInv, PollInv, ctx.course # NoCourse, saved' = [saved EXCEPT ![ctx.course] = @ + 1],
         NEW dirty \in BOOLEAN
  PROVE  LET w == [Page EXCEPT !.c = [ctx EXCEPT !.rev = saved'[ctx.course], !.dirty = dirty]]
         IN  w \in PageT /\ Here(w) /\ Polls(w)
<1> DEFINE c == [ctx EXCEPT !.rev = saved'[ctx.course], !.dirty = dirty]
<1> DEFINE w == [Page EXCEPT !.c = c]
<1>1. ctx.course \in Courses
  BY PageIs DEF ContextT, AnyCourse
<1>2. saved'[ctx.course] = ctx.rev + 1 /\ ctx.rev \in Nat /\ panel.since \in Nat
  BY <1>1, PageIs DEF ContextT, PanelT
<1>3. c \in ContextT /\ c.course = ctx.course /\ c.rev = ctx.rev + 1
  <2> DEFINE more == saved'[ctx.course]
  <2>1. more \in Nat /\ more = ctx.rev + 1
    BY <1>2
  <2> HIDE DEF more
  <2>2. LET d == [ctx EXCEPT !.rev = more, !.dirty = dirty]
        IN  d \in ContextT /\ d.course = ctx.course /\ d.rev = more
    BY <2>1, PageIs DEF ContextT
  <2>3. QED  BY <2>1, <2>2 DEF more
<1> HIDE DEF c
<1>4. w \in PageT /\ w.p = panel /\ w.c = c
  BY <1>3, PageIs DEF PageT
<1>5. panel.active => ctx.course \in Courses /\ panel.course = ctx.course /\ panel.since <= ctx.rev
  BY PageIs DEF PollInv, Here
<1> HIDE DEF w
<1>6. Here(w) /\ Polls(w)
  BY <1>2, <1>3, <1>4, <1>5 DEF Here, Polls, Watched
<1>7. QED  BY <1>4, <1>6 DEF w, c

\* The draft is saved: a newer revision is not looked at.
LEMMA SavePolls == ASSUME PanelSizes, SafeInv, PollInv, Save PROVE PollInv'
<1> DEFINE w == [Page EXCEPT !.c = [ctx EXCEPT !.rev = saved'[ctx.course], !.dirty = FALSE]]
<1>1. Turn(IF ctx.videos THEN Refreshed(w) ELSE w)
  <2>1. [Page EXCEPT !.c.rev = saved'[ctx.course], !.c.dirty = FALSE] = w
    BY PageIs DEF PageT
  <2>2. QED  BY <2>1 DEF Save
<1>2. w \in PageT /\ Here(w) /\ Polls(w)
  BY RevisionPolls DEF Save
<1> HIDE DEF w
<1>3. QED  BY <1>1, <1>2, RefreshedPolls, TurnPolls

\* The draft is published.
LEMMA PublishPolls == ASSUME PanelSizes, SafeInv, PollInv, Publish PROVE PollInv'
<1> DEFINE w == [Page EXCEPT !.c = [ctx EXCEPT !.rev = saved'[ctx.course], !.dirty = ctx.dirty]]
<1>1. Turn(w)
  <2>1. [ctx EXCEPT !.rev = saved'[ctx.course]] = [ctx EXCEPT !.rev = saved'[ctx.course], !.dirty = ctx.dirty]
    BY PageIs DEF ContextT
  <2>2. [Page EXCEPT !.c.rev = saved'[ctx.course]] = w
    BY <2>1, PageIs DEF PageT
  <2>3. QED  BY <2>2 DEF Publish
<1>2. ctx.dirty \in BOOLEAN
  BY PageIs DEF ContextT
<1>3. w \in PageT /\ Here(w) /\ Polls(w)
  BY <1>2, RevisionPolls DEF Publish
<1> HIDE DEF w
<1>4. QED  BY <1>1, <1>3, TurnPolls

\* The timer goes off: the list is asked for, or is not wanted.
LEMMA PollPolls == ASSUME PanelSizes, SafeInv, PollInv, Poll PROVE PollInv'
<1> DEFINE q == [panel EXCEPT !.timer = FALSE]
<1> DEFINE w == [Page EXCEPT !.p = q]
<1>1. /\ q \in PanelT /\ q.active = panel.active /\ q.course = panel.course /\ q.since = panel.since
  BY PageIs DEF PanelT
<1>2. Turn(Listing(w, {}))
  BY PageIs DEF Poll, PageT
<1> HIDE DEF q
<1>3. w \in PageT /\ w.p = q /\ w.c = ctx
  BY <1>1, PageIs DEF PageT
<1> HIDE DEF w
<1>4. Here(w)
  BY <1>1, <1>3, PageIs DEF Here, PollInv
<1>5. Listing(w, {}) \in PageT /\ SameVisit(Listing(w, {}), w) /\ Polls(Listing(w, {}))
  BY <1>3, ListingPolls
<1>6. QED  BY <1>2, <1>4, <1>5, SameHere, TurnPolls

\* The form is changed.
LEMMA ChangeFormPolls == ASSUME PanelSizes, SafeInv, PollInv, ChangeForm PROVE PollInv'
<1> DEFINE q == [panel EXCEPT !.form = @ + 1, !.pending = NoRequest]
<1> DEFINE w == [Page EXCEPT !.p = q]
<1>1. /\ q \in PanelT /\ q.active = panel.active /\ q.course = panel.course /\ q.since = panel.since
      /\ q.failed = panel.failed /\ q.jobs = panel.jobs /\ q.timer = panel.timer
  <2> DEFINE more == panel.form + 1
  <2>1. q = [panel EXCEPT !.form = more, !.pending = NoRequest] /\ more \in Nat
    BY PageIs DEF PanelT
  <2> HIDE DEF q, more
  <2>2. QED  BY <2>1, PageIs, ClosedType DEF PanelT
<1>2. Turn(w)
  BY PageIs DEF ChangeForm, PageT
<1> HIDE DEF q
<1>3. Goes(w, Page)
  BY <1>1, PageIs, PanelGoes
<1>4. QED  BY <1>2, <1>3, TurnGoes

\* An extraction is opened.
LEMMA OpenClickPolls == ASSUME PanelSizes, SafeInv, PollInv, NEW id \in Nat, OpenClick(id) PROVE PollInv'
<1> DEFINE u == Opening(Page, id, TRUE, {})
<1> DEFINE q == [u.p EXCEPT !.asked = id]
<1>1. u \in PageT /\ Goes(u, Page)
  BY PageIs, OpeningGoes
<1>2. Turn([u EXCEPT !.p.asked = id])
  BY DEF OpenClick
<1> HIDE DEF u
<1>3. /\ q \in PanelT /\ q.active = u.p.active /\ q.course = u.p.course /\ q.since = u.p.since
      /\ q.failed = u.p.failed /\ q.jobs = u.p.jobs /\ q.timer = u.p.timer
  BY <1>1 DEF PageT, PanelT
<1>4. [u EXCEPT !.p.asked = id] = [u EXCEPT !.p = q]
  BY <1>1 DEF PageT
<1> HIDE DEF q
<1>5. Goes([u EXCEPT !.p = q], Page)
  BY <1>1, <1>3, PanelGoes, GoesOn
<1>6. QED  BY <1>2, <1>4, <1>5, TurnGoes

\* Another view is chosen.
LEMMA ViewClickPolls == ASSUME PanelSizes, SafeInv, PollInv, NEW view \in Views, ViewClick(view) PROVE PollInv'
<1> DEFINE q == [panel EXCEPT !.view = view]
<1> DEFINE w == [Page EXCEPT !.p = q]
<1>1. Turn(LoadingRows(w, {}))
  <2>1. [Page EXCEPT !.p.view = view] = w
    BY PageIs DEF PageT
  <2>2. QED  BY <2>1 DEF ViewClick
<1>2. /\ q \in PanelT /\ q.active = panel.active /\ q.course = panel.course /\ q.since = panel.since
      /\ q.failed = panel.failed /\ q.jobs = panel.jobs /\ q.timer = panel.timer
      /\ q.selected = panel.selected
  BY PageIs DEF PanelT
<1>3. panel.selected # NoJob
  BY PageIs DEF ViewClick, SafeInv, Sound, Shown, Detail
<1> HIDE DEF q
<1>4. w \in PageT /\ Goes(w, Page) /\ w.p = q
  BY <1>2, PageIs, PanelGoes
<1> HIDE DEF w
<1>5. Goes(LoadingRows(w, {}), Page)
  BY <1>2, <1>3, <1>4, LoadingRowsGoes, GoesOn
<1>6. QED  BY <1>1, <1>5, TurnGoes

\* An extraction is started.
LEMMA StartClickPolls == ASSUME PanelSizes, SafeInv, PollInv, StartClick PROVE PollInv'
<1> DEFINE r == RequestFor(Page)
<1> DEFINE q == [panel EXCEPT !.pending = r, !.busy = TRUE]
<1> DEFINE w == [Page EXCEPT !.p = q]
<1> DEFINE f == Flight(w, "start", r.id, {"started"})
<1>1. Turn(Sent(w, f, {}))
  <2>1. [Page EXCEPT !.p.pending = r, !.p.busy = TRUE] = w
    BY PageIs DEF PageT
  <2> HIDE DEF r
  <2>2. QED  BY <2>1 DEF StartClick, r
<1>2. r \in RequestView
  <2>1. panel.course \in AnyCourse /\ ctx.rev \in Nat /\ panel.form \in Nat /\ panel.pending \in RequestView
    BY PageIs DEF PanelT, ContextT
  <2>2. QED  BY <2>1, PageIs DEF RequestFor, Identity, RequestView
<1> HIDE DEF r
<1>3. /\ q \in PanelT /\ q.active = panel.active /\ q.course = panel.course /\ q.since = panel.since
      /\ q.failed = panel.failed /\ q.jobs = panel.jobs /\ q.timer = panel.timer
  BY <1>2, PageIs DEF PanelT
<1> HIDE DEF q
<1>4. w \in PageT /\ Goes(w, Page)
  BY <1>3, PageIs, PanelGoes
<1> HIDE DEF w, f
<1>5. Goes(Sent(w, f, {}), Page)
  BY <1>4, SentStays, GoesOn
<1>6. QED  BY <1>1, <1>5, TurnGoes

\* An extraction is cancelled or reviewed.
LEMMA MutateClickPolls ==
  ASSUME PanelSizes, SafeInv, PollInv, NEW op \in {"cancel", "review"}, MutateClick(op)
  PROVE  PollInv'
<1> DEFINE q == [panel EXCEPT !.busy = TRUE]
<1> DEFINE b == [Page EXCEPT !.p = q]
<1> DEFINE w == Rendered(b)
<1> DEFINE f == Flight(w, op, w.p.selected.id, {"mutated"})
<1>1. Turn(Sent(w, f, {}))
  <2>1. [Page EXCEPT !.p.busy = TRUE] = b
    BY PageIs DEF PageT
  <2>2. QED  BY <2>1 DEF MutateClick
<1>2. /\ q \in PanelT /\ q.active = panel.active /\ q.course = panel.course /\ q.since = panel.since
      /\ q.failed = panel.failed /\ q.jobs = panel.jobs /\ q.timer = panel.timer
  BY PageIs DEF PanelT
<1> HIDE DEF q
<1>3. b \in PageT /\ Goes(b, Page)
  BY <1>2, PageIs, PanelGoes
<1> HIDE DEF b
<1>4. w \in PageT /\ Goes(w, Page)
  BY <1>3, RenderedGoes, GoesOn
<1> HIDE DEF w, f
<1>5. Goes(Sent(w, f, {}), Page)
  BY <1>4, SentStays, GoesOn
<1>6. QED  BY <1>1, <1>5, TurnGoes

-----------------------------------------------------------------------------
\* A request is served, or fails.
LEMMA ResumedPolls ==
  ASSUME PollInv, NEW f \in flights, NEW g, flights' = (flights \ {f}) \cup {g}, Resumed(g, f),
         UNCHANGED <<panel, ctx>>
  PROVE  PollInv'
<1> DEFINE v == [p |-> panel, fs |-> flights', c |-> ctx]
<1>1. Turn(v) /\ v.p = panel /\ v.c = ctx /\ v.fs = (flights \ {f}) \cup {g}
  BY DEF Turn
<1> HIDE DEF v
<1>2. Page.p = panel /\ Page.c = ctx /\ Page.fs = flights
  BY DEF Page
<1>3. ASSUME NEW h \in flights, Waiting(Page, h) PROVE \E k \in v.fs : Waiting(v, k)
  <2>1. CASE h = f
    <3>1. Waiting(v, g)
      BY <1>1, <1>2, <1>3, <2>1 DEF Waiting, Wanted, Current, Resumed
    <3>2. QED  BY <1>1, <3>1
  <2>2. CASE h # f
    <3>1. Waiting(v, h)
      BY <1>1, <1>2, <1>3 DEF Waiting, Wanted, Current
    <3>2. QED  BY <1>1, <2>2, <3>1
  <2>3. QED  BY <2>1, <2>2
<1>4. Goes(v, Page)
  BY <1>1, <1>2, <1>3 DEF Goes, SameVisit
<1>5. QED  BY <1>1, <1>4, TurnGoes

\* A request that is served, or fails, waits on.
LEMMA ServedPolls ==
  ASSUME SafeInv, PollInv, NEW f \in flights,
         ServeRead(f) \/ ServeStart(f) \/ ServeMutation(f) \/ Lose(f)
  PROVE  PollInv'
<1>1. f \in FlightT
  BY PageIs
<1>2. UNCHANGED <<panel, ctx>> /\ (Refuse(f) \/ \E seen : Reply(f, seen))
  <2>1. CASE ServeRead(f)
    <3>1. Reply(f, {Seen(i) : i \in {k \in DOMAIN jobs : jobs[k].course = f.of}})
          \/ Reply(f, {Seen(f.id)}) \/ Reply(f, {RowsOf(f)})
      BY <2>1 DEF ServeRead
    <3>2. QED  BY <2>1, <3>1 DEF ServeRead
  <2>2. CASE ServeStart(f)
    <3> DEFINE known == {i \in DOMAIN jobs : jobs[i].req = f.id}
    <3>1. \/ Refuse(f) \/ Reply(f, {Seen(i) : i \in known})
          \/ Reply(f, {[id |-> Len(jobs) + 1, course |-> f.of, status |-> "queued", rev |-> f.rev,
                        rr |-> 0, stale |-> FALSE]})
      BY <2>2 DEF ServeStart
    <3>2. QED  BY <2>2, <3>1 DEF ServeStart
  <2>3. CASE ServeMutation(f)
    <3>1. Refuse(f) \/ Reply(f, {[Seen(f.id) EXCEPT !.status = Mutated(f).status, !.rr = Mutated(f).rr]})
      BY <2>3 DEF ServeMutation
    <3>2. QED  BY <2>3, <3>1 DEF ServeMutation
  <2>4. CASE Lose(f)
    BY <2>4 DEF Lose
  <2>5. QED  BY <2>1, <2>2, <2>3, <2>4
<1>3. \E g : flights' = (flights \ {f}) \cup {g} /\ Resumed(g, f)
  <2>1. CASE Refuse(f)
    <3>1. Resumed([f EXCEPT !.pc = "failed"], f)
      BY <1>1 DEF FlightT, Resumed
    <3>2. QED  BY <2>1, <3>1 DEF Refuse
  <2>2. CASE \E seen : Reply(f, seen)
    <3>1. PICK seen : Reply(f, seen)
      BY <2>2
    <3>2. Resumed([f EXCEPT !.pc = "answered", !.seen = seen], f)
      BY <1>1 DEF FlightT, Resumed
    <3>3. QED  BY <3>1, <3>2 DEF Reply
  <2>3. QED  BY <1>2, <2>1, <2>2
<1>4. QED  BY <1>2, <1>3, ResumedPolls

\* An answer arrives, whatever it answers.
LEMMA DeliverPolls ==
  ASSUME PanelSizes, SafeInv, PollInv, NEW f \in flights, Deliver(f)
  PROVE  PollInv'
<1> DEFINE w == Landed(f)
<1> DEFINE v == IF ~Wanted(w, f) THEN Dropped(f)
                ELSE IF f.pc = "answered" THEN Handlers(w, f) ELSE Failure(w, f)
<1>1. Turn(v) /\ f \in FlightT /\ f.then \in SUBSET Thens /\ FlightOwn(f, jobs)
  BY PageIs DEF Deliver, SafeInv, Sound, Own, FlightT
<1>2. w \in PageT /\ w.p = panel /\ w.c = ctx /\ w.fs = flights \ {f}
  BY PageIs DEF Landed, PageT
<1> HIDE DEF w
<1>3. SameVisit(w, Page) /\ Here(w)
  BY <1>2, PageIs, SameHere DEF SameVisit, PollInv
<1>4. Polls(w) \/ "schedule" \in f.then \/ (f.op = "list" /\ Wanted(w, f))
  <2>1. ASSUME NEW g \in flights, Waiting(Page, g) PROVE Waiting(w, g)
    BY <1>2, <2>1, PageIs DEF Waiting, Wanted, Current
  <2>2. Watched(w) => Watched(Page)
    BY <1>2, PageIs DEF Watched
  <2>3. Polls(Page)
    BY DEF PollInv
  <2>4. QED  BY <1>2, <2>1, <2>2, <2>3, PageIs DEF Polls, Awake, Waiting
<1>5. CASE ~Wanted(w, f)
  <2>1. v = Over(w, f, f.then)
    BY <1>5 DEF Dropped, w
  <2>2. Over(w, f, f.then) \in PageT /\ SameVisit(Over(w, f, f.then), w) /\ Polls(Over(w, f, f.then))
    BY <1>1, <1>2, <1>4, <1>5, OverPolls
  <2>3. QED  BY <1>1, <1>3, <2>1, <2>2, SameHere, TurnPolls
<1>6. Owed(w, f)
  BY <1>4 DEF Owed
<1>7. CASE Wanted(w, f) /\ f.pc # "answered"
  <2>1. Failure(w, f) \in PageT /\ SameVisit(Failure(w, f), w) /\ Polls(Failure(w, f))
    BY <1>1, <1>2, <1>6, FailurePolls
  <2>2. v = Failure(w, f)
    BY <1>7
  <2>3. QED  BY <1>1, <1>3, <2>1, <2>2, SameHere, TurnPolls
<1>8. CASE Wanted(w, f) /\ f.pc = "answered"
  <2>1. v = Handlers(w, f) /\ Answer(f, jobs)
    BY <1>1, <1>8 DEF FlightOwn
  <2> HIDE DEF v
  <2> DEFINE u == Handlers(w, f)
  <2>2. u \in PageT /\ SameVisit(u, w) /\ Polls(u)
    <3>1. CASE f.op = "list"
      <4>1. f.seen \in SUBSET JobView
        BY <2>1, <3>1 DEF Answer, Known
      <4>2. QED  BY <1>1, <1>2, <3>1, <4>1, ListOkPolls DEF Handlers
    <3>2. CASE f.op = "open"
      <4>1. f.seen \in SUBSET JobView /\ f.seen # {}
        BY <2>1, <3>2 DEF Answer, Known
      <4>2. Polls(w) \/ "schedule" \in f.then
        BY <1>4, <3>2
      <4>3. QED  BY <1>1, <1>2, <3>2, <4>1, <4>2, OpenOkPolls DEF Handlers
    <3>3. CASE f.op = "rows"
      <4>1. f.seen \in SUBSET RowView /\ f.seen # {}
        BY <2>1, <3>3 DEF Answer
      <4>2. Polls(w) \/ "schedule" \in f.then
        BY <1>4, <3>3
      <4>3. QED  BY <1>1, <1>2, <3>3, <4>1, <4>2, RowsOkPolls DEF Handlers
    <3>4. CASE f.op = "start"
      <4>1. f.seen \in SUBSET JobView /\ f.seen # {}
        BY <2>1, <3>4 DEF Answer, Known
      <4>2. QED  BY <1>1, <1>2, <3>4, <4>1, StartOkPolls DEF Handlers
    <3>5. CASE f.op \in {"cancel", "review"}
      <4>1. f.seen \in SUBSET JobView /\ f.seen # {}
        BY <2>1, <3>5 DEF Answer, Known
      <4>2. QED  BY <1>1, <1>2, <3>5, <4>1, MutationOkPolls DEF Handlers
    <3>6. QED  BY <1>1, <3>1, <3>2, <3>3, <3>4, <3>5 DEF FlightT, Ops
  <2> HIDE DEF u
  <2>3. QED  BY <1>1, <1>3, <2>1, <2>2, SameHere, TurnPolls DEF u
<1>9. QED  BY <1>5, <1>7, <1>8

\* Every step keeps it.
LEMMA PollingKeeps ==
  ASSUME PanelSizes, OneCourse, SafeInv, PollInv, [PanelNext]_vars
  PROVE  PollInv'
<1>1. ASSUME Author PROVE PollInv'
  <2>1. CASE \E videos \in BOOLEAN : Visit(videos)
    BY <2>1, VisitPolls
  <2>2. CASE \E c \in Courses : OpenCourse(c)
    BY <2>2, OpenCoursePolls
  <2>3. CASE SignOut \/ Hide \/ Return \/ Edit
    BY <2>3, SignOutPolls, HidePolls, ReturnPolls, EditPolls
  <2>4. CASE RefreshClick
    BY <2>4, PageIs, RefreshedPolls, TurnPolls DEF RefreshClick
  <2>5. CASE Save \/ Publish \/ ChangeForm \/ StartClick
    BY <2>5, SavePolls, PublishPolls, ChangeFormPolls, StartClickPolls
  <2>6. CASE \E i \in 1 .. MaxJobs : OpenClick(i)
    <3>1. PICK i \in 1 .. MaxJobs : OpenClick(i)
      BY <2>6
    <3>2. QED  BY <3>1, OpenClickPolls DEF PanelSizes
  <2>7. CASE \E view \in Views : ViewClick(view)
    BY <2>7, ViewClickPolls
  <2>8. CASE \E op \in {"cancel", "review"} : MutateClick(op)
    BY <2>8, MutateClickPolls
  <2>9. QED  BY <1>1, <2>1, <2>2, <2>3, <2>4, <2>5, <2>6, <2>7, <2>8 DEF Author
<1>2. ASSUME NEW f \in flights, Answered(f) \/ Lose(f) PROVE PollInv'
  BY <1>2, ServedPolls, DeliverPolls DEF Answered
<1>3. ASSUME NEW i \in DOMAIN jobs, Work(i) \/ ReviewElsewhere(i) PROVE PollInv'
  BY <1>3 DEF Work, ReviewElsewhere, PollInv, Page
<1>4. CASE UNCHANGED vars
  BY <1>4 DEF vars, PollInv, Page
<1>5. CASE PanelNext
  BY <1>1, <1>2, <1>3, <1>5, PollPolls DEF PanelNext
<1>6. QED  BY <1>4, <1>5

\* What the page knows and waits for, and what the server has, fit together
\* whatever is lost, comes late or is done in another tab (SafeInv: Own, Shown,
\* OneChange, Once and, without a cancellation, Informed).
THEOREM PanelInvariance == PanelSizes => (PanelSpec => []SafeInv)
<1> SUFFICES ASSUME PanelSizes PROVE PanelSpec => []SafeInv
  OBVIOUS
<1>1. PanelInit => SafeInv
  BY InitialPanel
<1>2. SafeInv /\ [PanelNext]_vars => SafeInv'
  BY PanelKeeps
<1>3. QED  BY <1>1, <1>2, PTL DEF PanelSpec

\* The types; a panel that is left has no timer and is not busy (TypeOK,
\* suspend and clear).
THEOREM PanelTypes == PanelSizes => (PanelSpec => []TypeOK)
<1>1. SafeInv => TypeOK
  <2> SUFFICES ASSUME SafeInv PROVE TypeOK
    OBVIOUS
  <2>1. ~panel.active => ~panel.timer /\ ~panel.busy
    BY PageIs DEF SafeInv, Sound, Own
  <2>2. QED  BY <2>1, PageIs DEF TypeOK, PanelT, AnyCourse, JobView, FlightT
<1> SUFFICES ASSUME PanelSizes PROVE PanelSpec => []TypeOK
  OBVIOUS
<1>2. PanelSpec => []SafeInv
  BY PanelInvariance
<1>3. QED  BY <1>1, <1>2, PTL

\* The panel lists and shows extractions of its own course only, however late
\* the answers of another course come (OwnCourse, ExtractionScope).
THEOREM ShowsItsCourse == PanelSizes => (PanelSpec => []OwnCourse)
<1>1. SafeInv => OwnCourse
  BY PageIs DEF OwnCourse, Known
<1> SUFFICES ASSUME PanelSizes PROVE PanelSpec => []OwnCourse
  OBVIOUS
<1>2. PanelSpec => []SafeInv
  BY PanelInvariance
<1>3. QED  BY <1>1, <1>2, PTL

\* The observations shown are those of the selected extraction (RowsOfSelected,
\* openJob and loadObservations).
THEOREM RowsAreOfSelected == PanelSizes => (PanelSpec => []RowsOfSelected)
<1>1. SafeInv => RowsOfSelected
  BY PageIs DEF SafeInv, Sound, Shown, RowsOfSelected
<1> SUFFICES ASSUME PanelSizes PROVE PanelSpec => []RowsOfSelected
  OBVIOUS
<1>2. PanelSpec => []SafeInv
  BY PanelInvariance
<1>3. QED  BY <1>1, <1>2, PTL

\* Trying again after an uncertain start makes no second extraction the author
\* was not told of (OneJobPerForm, startJob).
THEOREM RetryStartsNoSecond == PanelSizes => (PanelSpec => []OneJobPerForm)
<1>1. SafeInv => OneJobPerForm
  BY DEF SafeInv, Sound, Once, OneJobPerForm, Key
<1> SUFFICES ASSUME PanelSizes PROVE PanelSpec => []OneJobPerForm
  OBVIOUS
<1>2. PanelSpec => []SafeInv
  BY PanelInvariance
<1>3. QED  BY <1>1, <1>2, PTL

\* While a listed extraction is active and looked at, another poll is planned
\* or under way, unless one was reported to have failed (PollingGoesOn,
\* schedule), when no other course can be opened.
THEOREM PollingContinues == PanelSizes /\ OneCourse => (PanelSpec => []PollingGoesOn)
<1> SUFFICES ASSUME PanelSizes, OneCourse PROVE PanelSpec => []PollingGoesOn
  OBVIOUS
<1>1. PanelInit => PollInv
  BY IdlePolls DEF PanelInit, PollInv, Page, ClosedPanel
<1>2. SafeInv /\ PollInv /\ [PanelNext]_vars => PollInv'
  BY PollingKeeps
<1>3. PollInv => PollingGoesOn
  BY DEF PollInv, Polls, Watched, Awake, Waiting, Page, PollingGoesOn
<1>4. PanelSpec => []SafeInv
  BY PanelInvariance
<1>5. QED  BY <1>1, <1>2, <1>3, <1>4, PTL DEF PanelSpec

-----------------------------------------------------------------------------
\* The server counts a review of this panel only when it has seen the others.
LEMMA ReviewSeesOthers ==
  ASSUME NoCancel, SafeInv, NEW f \in flights, ServeMutation(f), NEW i \in DOMAIN jobs,
         jobs'[i].rr # jobs[i].rr
  PROVE  \E g \in flights \ flights' : g.op = "review" /\ g.id = i /\ g.base >= jobs[i].other
<1>1. f \in Page.fs /\ f \in FlightT /\ FlightOwn(f, jobs) /\ Informed(Page, jobs) /\ Counted(jobs)
  BY PageIs DEF SafeInv, Sound, Own
<1>2. f.op = "review" /\ f.pc = "sent"
  BY <1>1 DEF ServeMutation, Informed
<1>3. /\ jobs[f.id].rr = f.rr /\ jobs' = [jobs EXCEPT ![f.id] = Mutated(f)]
      /\ \E seen : Reply(f, seen)
  BY <1>2 DEF ServeMutation
<1>4. i = f.id /\ jobs[i].other \in Nat /\ f.base \in Nat /\ jobs[i].rr \in Nat
  BY <1>1, <1>3, PageIs, JobFields DEF FlightT
<1>5. jobs[i].other <= f.base
  BY <1>1, <1>2, <1>3, <1>4 DEF Informed, Sees, Counted
<1>6. f \notin flights'
  <2>1. PICK seen : Reply(f, seen)
    BY <1>3
  <2>2. [f EXCEPT !.pc = "answered", !.seen = seen].pc = "answered"
    BY <1>1 DEF FlightT
  <2>3. QED  BY <1>2, <2>1, <2>2 DEF Reply
<1>7. f.base >= jobs[i].other
  BY <1>4, <1>5
<1>8. QED  BY <1>2, <1>4, <1>6, <1>7

\* No other step counts a review, but one of another tab.
LEMMA OthersCountNone ==
  ASSUME SafeInv, PanelNext, \A f \in flights : ~ServeMutation(f),
         NEW i \in DOMAIN jobs, jobs'[i].other = jobs[i].other
  PROVE  jobs'[i].rr = jobs[i].rr
<1>1. jobs \in Seq(JobT) /\ jobs[i] \in JobT /\ jobs[i].rr \in Nat /\ jobs[i].other \in Nat
      /\ jobs[i].other <= jobs[i].rr /\ Len(jobs) \in Nat /\ DOMAIN jobs = 1 .. Len(jobs)
  BY PageIs, JobFields, LenProperties DEF SafeInv, Sound, Counted
<1>2. CASE Author \/ Poll
  BY <1>2 DEF Author, Poll, Visit, OpenCourse, SignOut, Hide, Return, RefreshClick, Edit, Save, Publish,
     ChangeForm, OpenClick, ViewClick, StartClick, MutateClick
<1>3. ASSUME NEW f \in flights, ServeRead(f) \/ Lose(f) PROVE jobs' = jobs
  BY <1>3 DEF ServeRead, Lose
<1>4. ASSUME NEW f \in flights, ServeStart(f) PROVE jobs'[i] = jobs[i]
  <2>1. jobs' = jobs \/ \E job : jobs' = Append(jobs, job)
    BY <1>4 DEF ServeStart
  <2>2. ASSUME NEW job, jobs' = Append(jobs, job) PROVE jobs'[i] = jobs[i]
    BY <1>1, <2>2
  <2>3. QED  BY <2>1, <2>2
<1>5. ASSUME NEW f \in flights, Deliver(f) PROVE jobs'[i].rr = jobs[i].rr
  <2>1. jobs'[i] = jobs[i] \/ jobs'[i] = [jobs[i] EXCEPT !.told = TRUE]
    BY <1>5 DEF Deliver
  <2>2. QED  BY <1>1, <2>1 DEF JobT
<1>6. ASSUME NEW k \in DOMAIN jobs, Work(k) PROVE jobs'[i].rr = jobs[i].rr
  <2>1. PICK s : jobs' = [jobs EXCEPT ![k].status = s]
    BY <1>6 DEF Work
  <2>2. jobs'[i] = jobs[i] \/ jobs'[i] = [jobs[i] EXCEPT !.status = s]
    BY <1>1, <2>1
  <2>3. QED  BY <1>1, <2>2 DEF JobT
<1>7. ASSUME NEW k \in DOMAIN jobs, ReviewElsewhere(k) PROVE jobs'[i].rr = jobs[i].rr
  <2>1. CASE k = i
    <3> DEFINE more == jobs[i].rr + 1
    <3>1. jobs'[i] = [jobs[i] EXCEPT !.rr = more, !.other = more] /\ more \in Nat /\ more > jobs[i].other
      BY <1>1, <1>7, <2>1 DEF ReviewElsewhere, JobT
    <3> HIDE DEF more
    <3>2. jobs'[i].other = more
      BY <1>1, <3>1 DEF JobT
    <3>3. QED  BY <1>1, <3>1, <3>2
  <2>2. CASE k # i
    BY <1>1, <1>7, <2>2 DEF ReviewElsewhere
  <2>3. QED  BY <2>1, <2>2
<1>8. QED  BY <1>2, <1>3, <1>4, <1>5, <1>6, <1>7 DEF PanelNext, Answered

\* A review decision is accepted only when the observations it was made on
\* showed every review of another tab, as long as nothing is cancelled
\* (NoBlindReview, mutateJob).
THEOREM NoReviewIsBlind == PanelSizes /\ NoCancel => (PanelSpec => NoBlindReview)
<1> SUFFICES ASSUME PanelSizes, NoCancel PROVE PanelSpec => NoBlindReview
  OBVIOUS
<1>1. SafeInv /\ PanelNext => NoBlindReviewStep
  BY ReviewSeesOthers, OthersCountNone DEF NoBlindReviewStep
<1>2. SafeInv /\ [PanelNext]_vars => [NoBlindReviewStep]_vars
  BY <1>1
<1>3. PanelSpec => []SafeInv
  BY PanelInvariance
<1>4. QED  BY <1>2, <1>3, PTL DEF PanelSpec, NoBlindReview
=============================================================================
