-------------------------- MODULE ExtractionPanel --------------------------
(***************************************************************************)
(* The panel of the Course Studio that starts, follows and reviews video   *)
(* extractions: app/static/studio-extraction.mjs, with the calls that      *)
(* studio.js makes to it.                                                  *)
(*                                                                         *)
(* Every await is a step: a request is sent with the token that            *)
(* ExtractionScope captures, is served or fails, and is delivered; what    *)
(* the calling functions do after it is the set "then" of the request.     *)
(* The job store and its worker are modelled from the outside here; their  *)
(* own modules are JobStore and ExtractionWorker.                          *)
(***************************************************************************)
EXTENDS Naturals, Sequences, FiniteSets

CONSTANTS
  Courses,
  NoCourse,     \* no course is open
  Views,        \* kinds and pages of results that are looked at
  FirstView,    \* the screened candidates, first page
  MaxJobs,      \* bound: extractions created
  MaxFlights,   \* bound: requests in flight
  MaxClicks,    \* bound: clicks in the panel
  MaxCancels,   \* bound: clicks that cancel an extraction
  MaxForms,     \* bound: changes of the source or the range
  MaxEdits,     \* bound: edits of a saved draft
  MaxSaves,     \* bound: drafts saved
  MaxPublishes, \* bound: publications and restored versions
  MaxVisits,    \* bound: moves between views, courses and windows
  MaxElsewhere, \* bound: reviews in another tab
  MaxFaults     \* bound: requests and replies lost

\* NoCourse is not one of Courses, FirstView is one of Views.

VARIABLES
  panel,    \* the state of createExtractionPanel
  flights,  \* its requests
  ctx,      \* what getContext and document.hidden say
  jobs,     \* the extractions on the server
  saved,    \* course -> the revision of its draft on the server
  count     \* how often each bounded thing has happened

vars == <<panel, flights, ctx, jobs, saved, count>>

-----------------------------------------------------------------------------
Active == {"queued", "running"}
Statuses == Active \cup {"completed", "ended"}
Ops == {"list", "open", "rows", "start", "cancel", "review"}
Selection == {"open", "rows"}

NoJob == [id |-> 0]
NoRows == [id |-> 0]
NoRequest == [course |-> NoCourse, rev |-> 0, form |-> 0, id |-> 0]
NoDetail == [id |-> 0, view |-> FirstView, rows |-> NoRows]

\* A server job as a list or a request shows it.
Seen(i) == [id |-> i, course |-> jobs[i].course, status |-> jobs[i].status,
            rev |-> jobs[i].rev, rr |-> jobs[i].rr,
            stale |-> jobs[i].rev # saved[jobs[i].course]]

ClosedPanel == [course |-> NoCourse, active |-> FALSE, jobs |-> {}, selected |-> NoJob,
                rows |-> NoRows, view |-> FirstView, timer |-> FALSE, busy |-> FALSE,
                pending |-> NoRequest, form |-> 0, shown |-> NoDetail,
                asked |-> 0, failed |-> "no", since |-> 0]

\* For the properties only: "asked" is the job the author last opened on this
\* visit, "failed" what was reported since, "since" the revision of the last
\* refresh, and a form number names one filling-in of source and range.
PanelInit ==
  /\ panel = ClosedPanel
  /\ flights = {}
  /\ ctx \in {[course |-> c, rev |-> 1, dirty |-> FALSE, videos |-> FALSE, hidden |-> FALSE] :
                c \in Courses}
  /\ jobs = <<>>
  /\ saved = [c \in Courses |-> 1]
  /\ count = [ids |-> 0, clicks |-> 0, cancels |-> 0, forms |-> 0, edits |-> 0, saves |-> 0, publishes |-> 0, visits |-> 0,
              elsewhere |-> 0, faults |-> 0]

Bump(field) == count' = [count EXCEPT ![field] = @ + 1]

-----------------------------------------------------------------------------
(* The page w: the panel p, its flights fs and the context c it reads.     *)

Page == [p |-> panel, fs |-> flights, c |-> ctx]
Turn(w) == panel' = w.p /\ flights' = w.fs /\ ctx' = w.c

\* ExtractionScope.current.  The epoch of a token is its "live" flag.
Current(w, f) == w.p.active /\ f.live /\ f.course = w.c.course /\ f.rev = w.c.rev

\* A read whose answer nobody wants any more matters only when its callers
\* go on to schedule or to end being busy.
Kept(f) == f.op \notin {"list", "open", "rows"} \/ f.then \ {"reopen"} # {}

\* listSequence and selectionSequence: a later request of the same kind.
Superseded(fs, ops) ==
  {f \in {IF f.op \in ops THEN [f EXCEPT !.latest = FALSE] ELSE f : f \in fs} :
     f.latest \/ Kept(f) \/ f.then # {}}

\* scope.open and scope.close: another epoch.
Expired(fs) == {f \in {[f EXCEPT !.live = FALSE] : f \in fs} : Kept(f)}

\* A request of the page; form, rr and base, the review the observations on
\* the page were read at, matter to some requests only.
Flight(w, op, id, then) ==
  [op |-> op, pc |-> "sent", live |-> TRUE, latest |-> TRUE,
   course |-> w.c.course, rev |-> w.c.rev, of |-> w.p.course, id |-> id,
   view |-> IF op = "rows" THEN w.p.view ELSE FirstView,
   form |-> IF op = "start" THEN w.p.form ELSE 0,
   rr |-> IF op = "review" THEN w.p.selected.rr ELSE 0,
   base |-> IF op = "review" THEN w.p.rows.rr ELSE 0,
   seen |-> {}, then |-> then]

Sent(w, f, ops) == [w EXCEPT !.fs = Superseded(@, ops) \cup {f}]

\* renderDetail.
Rendered(w) ==
  [w EXCEPT !.p.shown = IF w.p.selected = NoJob THEN NoDetail
                        ELSE [id |-> w.p.selected.id, view |-> w.p.view, rows |-> w.p.rows]]
Loading(w) == [w EXCEPT !.p.shown = NoDetail]

\* schedule: a timer while some job of the list is active.
Scheduled(w) ==
  [w EXCEPT !.p.timer = /\ w.p.active /\ ~w.c.hidden
                        /\ \E j \in w.p.jobs : j.status \in Active]

Listing(w, then) == Sent(w, Flight(w, "list", 0, then), {"list"})

Opening(w, id, reset, then) ==
  LET v == Loading(IF reset THEN [w EXCEPT !.p.view = FirstView] ELSE w)
  IN  Sent(v, Flight(v, "open", id, then), Selection)

LoadingRows(w, then) ==
  Sent(Loading(w), Flight(w, "rows", w.p.selected.id, then), Selection)

\* A bug of Over: the end of a start that failed is forgotten.
OverBusy(w, f, then) ==
  LET planned == IF "schedule" \in then THEN Scheduled(w) ELSE w
  IN  IF then \cap {"schedule", "started"} = {"started"} THEN planned
      ELSE [planned EXCEPT !.p.busy = IF then \cap {"started", "mutated"} # {} THEN FALSE ELSE @]

\* What the callers of a request do when it is over: loadJobs and startJob
\* schedule the next poll, startJob and mutateJob end being busy, refresh
\* opens the selected job again.
Over(w, f, then) ==
  LET planned == IF "schedule" \in then THEN Scheduled(w) ELSE w
      settled == IF then \cap {"started", "mutated"} # {} /\ Current(planned, f)
                 THEN [planned EXCEPT !.p.busy = FALSE] ELSE planned
      drawn == IF "mutated" \in then /\ Current(settled, f) THEN Rendered(settled) ELSE settled
  IN  IF "reopen" \in then /\ Current(drawn, f) /\ drawn.p.selected # NoJob
      THEN Opening(drawn, drawn.p.selected.id, FALSE, {})
      ELSE drawn

Reported(w, what) == [w EXCEPT !.p.failed = IF @ = "list" THEN @ ELSE what]

-----------------------------------------------------------------------------
(* What the author and the rest of the Studio do to the panel.             *)

\* A bug of Suspended: the timer goes on.
SuspendedTicking(w) ==
  [w EXCEPT !.p.active = FALSE, !.p.busy = FALSE, !.p.asked = 0,
            !.fs = Superseded(Expired(@), Ops)]

\* suspend.
Suspended(w) ==
  [w EXCEPT !.p.active = FALSE, !.p.timer = FALSE, !.p.busy = FALSE,
            !.p.asked = 0, !.fs = Superseded(Expired(@), Ops)]

\* clear, on a login page or without a course.
Cleared(w) ==
  [Suspended(w) EXCEPT !.p = [ClosedPanel EXCEPT !.view = w.p.view, !.form = w.p.form + 1]]

\* A bug of Refreshed: another course starts from what there is.
RefreshedKeeping(w) ==
  IF w.c.course = NoCourse THEN Cleared(w)
  ELSE Listing([w EXCEPT !.p.course = w.c.course, !.p.active = TRUE, !.p.busy = FALSE,
                         !.p.timer = FALSE, !.fs = Superseded(Expired(@), Selection)], {})

\* refresh: a new epoch; another course starts from nothing.
Refreshed(w) ==
  IF w.c.course = NoCourse THEN Cleared(w)
  ELSE LET changed == w.p.course # w.c.course
           p == IF changed
                THEN [ClosedPanel EXCEPT !.course = w.c.course, !.form = w.p.form + 1]
                ELSE [w.p EXCEPT !.timer = FALSE, !.busy = FALSE, !.asked = 0, !.failed = "no"]
       IN  Listing([w EXCEPT !.p = [p EXCEPT !.active = TRUE, !.since = w.c.rev],
                             !.fs = Superseded(Expired(@), Selection)],
                   IF changed THEN {} ELSE {"reopen"})

\* contextChanged.
ContextChanged(w) == IF w.p.active THEN Rendered(w) ELSE w

\* Room for another request, under the bound.
Room == Cardinality(flights) < MaxFlights

Visit(videos) ==
  /\ Room /\ count.visits < MaxVisits /\ Bump("visits") /\ ctx.course # NoCourse
  /\ LET w == [Suspended(Page) EXCEPT !.c.videos = videos]
     IN  Turn(IF videos THEN Refreshed(w) ELSE w)
  /\ UNCHANGED <<jobs, saved>>

RefreshClick ==
  /\ Room /\ ctx.videos /\ count.clicks < MaxClicks /\ Bump("clicks")
  /\ Turn(Refreshed(Page))
  /\ UNCHANGED <<jobs, saved>>

\* openCourse, up to the await before its switchView.
OpenCourse(c) ==
  /\ c # ctx.course /\ count.visits < MaxVisits /\ Bump("visits")
  /\ Turn(ContextChanged([Page EXCEPT !.c.course = c, !.c.rev = saved[c], !.c.dirty = FALSE]))
  /\ UNCHANGED <<jobs, saved>>

\* showLogin.
SignOut ==
  /\ ctx.course # NoCourse /\ count.visits < MaxVisits /\ Bump("visits")
  /\ Turn([Cleared(Page) EXCEPT !.c.course = NoCourse, !.c.dirty = FALSE, !.c.videos = FALSE])
  /\ UNCHANGED <<jobs, saved>>

\* visibilitychange.
Hide ==
  /\ ~ctx.hidden /\ count.visits < MaxVisits /\ Bump("visits")
  /\ Turn([Page EXCEPT !.c.hidden = TRUE, !.p.timer = FALSE])
  /\ UNCHANGED <<jobs, saved>>

Return ==
  /\ Room /\ ctx.hidden
  /\ LET w == [Page EXCEPT !.c.hidden = FALSE]
     IN  Turn(IF w.p.active THEN Listing(w, {}) ELSE w)
  /\ UNCHANGED <<jobs, saved, count>>

\* An edit, and a save, which refreshes the panel when it is on the page.
Edit ==
  /\ ctx.course # NoCourse /\ ~ctx.dirty /\ count.edits < MaxEdits /\ Bump("edits")
  /\ Turn(ContextChanged([Page EXCEPT !.c.dirty = TRUE]))
  /\ UNCHANGED <<jobs, saved>>

Save ==
  /\ Room /\ ctx.course # NoCourse /\ ctx.dirty /\ count.saves < MaxSaves /\ Bump("saves")
  /\ saved' = [saved EXCEPT ![ctx.course] = @ + 1]
  /\ LET w == [Page EXCEPT !.c.rev = saved'[ctx.course], !.c.dirty = FALSE]
     IN  Turn(IF ctx.videos THEN Refreshed(w) ELSE w)
  /\ UNCHANGED jobs

\* A publication takes over the new revision and leaves the panel alone.
Publish ==
  /\ ctx.course # NoCourse /\ ~ctx.dirty
  /\ count.publishes < MaxPublishes /\ Bump("publishes")
  /\ saved' = [saved EXCEPT ![ctx.course] = @ + 1]
  /\ Turn([Page EXCEPT !.c.rev = saved'[ctx.course]])
  /\ UNCHANGED jobs

\* The timer of schedule.
Poll ==
  /\ Room /\ panel.timer
  /\ Turn(Listing([Page EXCEPT !.p.timer = FALSE], {}))
  /\ UNCHANGED <<jobs, saved, count>>

\* Another source or range: what was pending is no longer the same request.
ChangeForm ==
  /\ ctx.videos /\ count.forms < MaxForms /\ Bump("forms")
  /\ Turn([Page EXCEPT !.p.form = @ + 1, !.p.pending = NoRequest])
  /\ UNCHANGED <<jobs, saved>>

OpenClick(id) ==
  /\ Room /\ ctx.videos /\ count.clicks < MaxClicks /\ Bump("clicks")
  /\ \E j \in panel.jobs : j.id = id
  /\ Turn([Opening(Page, id, TRUE, {}) EXCEPT !.p.asked = id])
  /\ UNCHANGED <<jobs, saved>>

\* A kind of result or a page of them, offered where a detail is shown.
ViewClick(view) ==
  /\ Room /\ ctx.videos /\ count.clicks < MaxClicks /\ Bump("clicks")
  /\ panel.shown.id # 0 /\ panel.selected.status = "completed" /\ view # panel.view
  /\ Turn(LoadingRows([Page EXCEPT !.p.view = view], {}))
  /\ UNCHANGED <<jobs, saved>>

Identity(w, n) == [course |-> w.p.course, rev |-> w.c.rev, form |-> w.p.form, id |-> n]

\* A bug of RequestFor: every click is a request of its own.
RequestForClick(w) == Identity(w, count.ids + 1)

\* The request ID of startJob is kept while what it asks for is the same.
RequestFor(w) ==
  IF w.p.pending.id # 0 /\ w.p.pending = Identity(w, w.p.pending.id)
  THEN w.p.pending
  ELSE Identity(w, count.ids + 1)

StartClick ==
  /\ Room /\ ctx.videos /\ count.clicks < MaxClicks
  /\ ~panel.busy /\ panel.active /\ panel.course = ctx.course /\ ~ctx.dirty
  /\ LET request == RequestFor(Page)
         w == [Page EXCEPT !.p.pending = request, !.p.busy = TRUE]
     IN  /\ Turn(Sent(w, Flight(w, "start", request.id, {"started"}), {}))
         /\ count' = [count EXCEPT !.clicks = @ + 1, !.ids = IF request.id > @ THEN request.id ELSE @]
  /\ UNCHANGED <<jobs, saved>>

\* extractionReviewAllowed.
ReviewAllowed ==
  ~ctx.dirty /\ panel.selected.status = "completed" /\ ~panel.selected.stale
  /\ ctx.rev = panel.selected.rev

\* mutateJob, from the buttons of the detail that is shown.
MutateClick(op) ==
  /\ Room /\ ctx.videos
  /\ ~panel.busy /\ panel.active /\ panel.course = ctx.course /\ ~ctx.dirty
  /\ panel.shown.id # 0
  /\ IF op = "cancel" THEN count.cancels < MaxCancels /\ Bump("cancels")
     ELSE count.clicks < MaxClicks /\ Bump("clicks")
  /\ \/ op = "cancel" /\ panel.selected.status \in Active
     \/ op = "review" /\ ReviewAllowed /\ panel.shown.rows # NoRows
  /\ LET w == Rendered([Page EXCEPT !.p.busy = TRUE])
     IN  Turn(Sent(w, Flight(w, op, w.p.selected.id, {"mutated"}), {}))
  /\ UNCHANGED <<jobs, saved>>

-----------------------------------------------------------------------------
(* The server: the job store, its worker, and another tab.                 *)

Reply(f, seen) == flights' = (flights \ {f}) \cup {[f EXCEPT !.pc = "answered", !.seen = seen]}
Refuse(f) == flights' = (flights \ {f}) \cup {[f EXCEPT !.pc = "failed"]}

\* The rows of a job carry the review they were read at.
RowsOf(f) == [id |-> f.id, view |-> f.view, rr |-> jobs[f.id].rr]

ServeRead(f) ==
  /\ f.pc = "sent" /\ f.op \in {"list", "open", "rows"}
  /\ CASE f.op = "list" -> Reply(f, {Seen(i) : i \in {k \in DOMAIN jobs : jobs[k].course = f.of}})
       [] f.op = "open" -> Reply(f, {Seen(f.id)})
       [] f.op = "rows" -> Reply(f, {RowsOf(f)})
  /\ UNCHANGED <<panel, ctx, jobs, saved, count>>

\* One extraction for a request ID, and none for an outdated revision or
\* when the queue is full.
ServeStart(f) ==
  /\ f.pc = "sent" /\ f.op = "start"
  /\ LET known == {i \in DOMAIN jobs : jobs[i].req = f.id}
         new == Len(jobs) + 1
     IN  IF f.rev # saved[f.of] \/ (known = {} /\ new > MaxJobs)
         THEN Refuse(f) /\ UNCHANGED jobs
         ELSE IF known # {}
         THEN Reply(f, {Seen(i) : i \in known}) /\ UNCHANGED jobs
         ELSE /\ jobs' = Append(jobs, [course |-> f.of, status |-> "queued", rev |-> f.rev, rr |-> 0,
                                       req |-> f.id, form |-> f.form, told |-> FALSE, other |-> 0])
              /\ Reply(f, {[id |-> new, course |-> f.of, status |-> "queued", rev |-> f.rev,
                            rr |-> 0, stale |-> FALSE]})
  /\ UNCHANGED <<panel, ctx, saved, count>>

\* The job as the server has it after a cancellation or a review of it.
Mutated(f) ==
  IF f.op = "review" THEN [jobs[f.id] EXCEPT !.rr = @ + 1]
  ELSE IF jobs[f.id].status = "queued" THEN [jobs[f.id] EXCEPT !.status = "ended"]
  ELSE jobs[f.id]

ServeMutation(f) ==
  /\ f.pc = "sent" /\ f.op \in {"cancel", "review"}
  /\ IF f.rev # saved[f.of] \/ (f.op = "review" /\ (jobs[f.id].rr # f.rr \/ jobs[f.id].rev # f.rev))
     THEN Refuse(f) /\ UNCHANGED jobs
     ELSE LET j == Mutated(f)
          IN  /\ jobs' = [jobs EXCEPT ![f.id] = j]
              /\ Reply(f, {[Seen(f.id) EXCEPT !.status = j.status, !.rr = j.rr]})
  /\ UNCHANGED <<panel, ctx, saved, count>>

\* A request, or its reply, is lost.
Lose(f) ==
  /\ f.pc = "sent" \/ (f.pc = "answered" /\ f.live)
  /\ count.faults < MaxFaults /\ Bump("faults")
  /\ Refuse(f)
  /\ UNCHANGED <<panel, ctx, jobs, saved>>

\* The worker takes, completes or gives up a job.
Work(i) ==
  /\ \/ jobs[i].status = "queued" /\ jobs' = [jobs EXCEPT ![i].status = "running"]
     \/ /\ jobs[i].status = "running"
        /\ \E s \in {"completed", "ended"} : jobs' = [jobs EXCEPT ![i].status = s]
  /\ UNCHANGED <<panel, flights, ctx, saved, count>>

ReviewElsewhere(i) ==
  /\ jobs[i].status = "completed" /\ jobs[i].rev = saved[jobs[i].course]
  /\ count.elsewhere < MaxElsewhere /\ Bump("elsewhere")
  /\ jobs' = [jobs EXCEPT ![i].rr = @ + 1, ![i].other = jobs[i].rr + 1]
  /\ UNCHANGED <<panel, flights, ctx, saved>>

-----------------------------------------------------------------------------
(* What becomes of an answer.                                              *)

Landed(f) == [Page EXCEPT !.fs = @ \ {f}]
Dropped(f) == Over(Landed(f), f, f.then)

Differs(old, new) == old.status # new.status \/ old.stale # new.stale \/ old.rr # new.rr

\* A bug of ListOk: the next poll is planned only when nothing changed.
ListOkIdle(w, f) ==
  LET v == [w EXCEPT !.p.jobs = f.seen]
      same == {j \in f.seen : v.p.selected # NoJob /\ j.id = v.p.selected.id}
  IN  IF \E j \in same : Differs(v.p.selected, j)
      THEN Opening(v, v.p.selected.id, FALSE, f.then)
      ELSE Over(Scheduled(v), f, f.then)

\* A bug of ListOk: a review of another tab is taken over without its rows.
ListOkUpdating(w, f) ==
  LET same == {j \in f.seen : w.p.selected # NoJob /\ j.id = w.p.selected.id}
  IN  Over(Scheduled([w EXCEPT !.p.jobs = f.seen,
                               !.p.selected = IF same = {} THEN @ ELSE CHOOSE j \in same : TRUE]),
           f, f.then)

\* loadJobs with the list it asked for: the selected job is read again when
\* it differs, is brought up to date when it is active.
ListOk(w, f) ==
  LET v == [w EXCEPT !.p.jobs = f.seen]
      same == {j \in f.seen : v.p.selected # NoJob /\ j.id = v.p.selected.id}
  IN  IF \E j \in same : Differs(v.p.selected, j)
      THEN Opening(v, v.p.selected.id, FALSE, f.then \cup {"schedule"})
      ELSE LET u == IF \E j \in same : j.status \in Active
                    THEN Rendered([v EXCEPT !.p.selected = CHOOSE j \in same : TRUE]) ELSE v
           IN  Over(Scheduled(u), f, f.then)

\* A bug of OpenOk: the rows of the job before stay.
OpenOkKeepsRows(w, f) ==
  LET v == [w EXCEPT !.p.selected = CHOOSE j \in f.seen : TRUE]
  IN  IF v.p.selected.status = "completed"
      THEN [Loading(v) EXCEPT !.fs = @ \cup {[f EXCEPT !.op = "rows", !.pc = "sent",
                                                        !.view = v.p.view, !.seen = {}]}]
      ELSE Over(Rendered(v), f, f.then)

\* openJob goes on to the rows of a completed job, as the same request.
OpenOk(w, f) ==
  LET v == [w EXCEPT !.p.selected = CHOOSE j \in f.seen : TRUE, !.p.rows = NoRows]
  IN  IF v.p.selected.status = "completed"
      THEN [Loading(v) EXCEPT !.fs = @ \cup {[f EXCEPT !.op = "rows", !.pc = "sent",
                                                        !.view = v.p.view, !.seen = {}]}]
      ELSE Over(Rendered(v), f, f.then)

RowsOk(w, f) == Over(Rendered([w EXCEPT !.p.rows = CHOOSE r \in f.seen : TRUE]), f, f.then)

StartOk(w, f) ==
  LET job == CHOOSE j \in f.seen : TRUE
      v == [w EXCEPT !.p.pending = NoRequest, !.p.asked = job.id,
                     !.p.jobs = {job} \cup {j \in @ : j.id # job.id}]
  IN  Opening(v, job.id, TRUE, f.then \cup {"schedule"})

MutationOk(w, f) ==
  LET job == CHOOSE j \in f.seen : TRUE
      mine == w.p.selected # NoJob /\ w.p.selected.id = f.id
      v == [w EXCEPT !.p.selected = IF mine THEN job ELSE @,
                     !.p.jobs = {IF j.id = f.id THEN job ELSE j : j \in @}]
  IN  IF mine /\ f.op = "review" THEN LoadingRows(v, f.then \cup {"schedule"})
      ELSE Over(Scheduled(v), f, f.then)

Handlers(w, f) ==
  CASE f.op = "list" -> ListOk(w, f)
    [] f.op = "open" -> OpenOk(w, f)
    [] f.op = "rows" -> RowsOk(w, f)
    [] f.op = "start" -> StartOk(w, f)
    [] f.op \in {"cancel", "review"} -> MutationOk(w, f)

\* A refused or lost request is reported; a list stops the timer, a mutation
\* reads its job again.
Failure(w, f) ==
  LET v == Reported(w, IF f.op = "list" THEN "list" ELSE "other")
  IN  CASE f.op = "list" -> Over([v EXCEPT !.p.timer = FALSE], f, f.then)
        [] f.op \in {"cancel", "review"} /\ w.p.selected # NoJob /\ w.p.selected.id = f.id ->
             Opening(v, f.id, FALSE, f.then)
        [] OTHER -> Over(v, f, f.then)

\* Reads are wanted while they are the latest of their kind.
Wanted(w, f) ==
  /\ Current(w, f)
  /\ f.op \in {"list", "open", "rows"} => f.latest
  /\ f.op = "rows" /\ f.pc = "answered" => w.p.selected # NoJob /\ w.p.selected.id = f.id

Deliver(f) ==
  /\ f.pc \in {"answered", "failed"}
  /\ LET w == Landed(f)
     IN  Turn(IF ~Wanted(w, f) THEN Dropped(f)
              ELSE IF f.pc = "answered" THEN Handlers(w, f) ELSE Failure(w, f))
  /\ jobs' = [i \in DOMAIN jobs |->
               IF f.pc = "answered" /\ f.op \in {"start", "list"} /\ Wanted(Page, f)
                  /\ \E j \in f.seen : j.id = i
               THEN [jobs[i] EXCEPT !.told = TRUE] ELSE jobs[i]]
  /\ UNCHANGED <<saved, count>>

-----------------------------------------------------------------------------
Author ==
  \/ \E videos \in BOOLEAN : Visit(videos)
  \/ \E c \in Courses : OpenCourse(c)
  \/ SignOut \/ Hide \/ Return \/ RefreshClick \/ Edit \/ Save \/ Publish \/ ChangeForm
  \/ \E i \in 1 .. MaxJobs : OpenClick(i)
  \/ \E v \in Views : ViewClick(v)
  \/ StartClick
  \/ \E op \in {"cancel", "review"} : MutateClick(op)

Answered(f) == ServeRead(f) \/ ServeStart(f) \/ ServeMutation(f) \/ Deliver(f)

PanelNext ==
  \/ Author \/ Poll
  \/ \E f \in flights : Answered(f) \/ Lose(f)
  \/ \E i \in DOMAIN jobs : Work(i) \/ ReviewElsewhere(i)

PanelSpec == PanelInit /\ [][PanelNext]_vars

\* Every request is answered or fails, and what it brings is handled.
LivePanelSpec ==
  PanelSpec /\ \A op \in Ops : WF_vars(\E f \in flights : f.op = op /\ Answered(f))

-----------------------------------------------------------------------------
(* Properties.                                                             *)

\* The types, and that a page that is not in use has no timer and is not busy.
TypeOK ==
  /\ panel.course \in Courses \cup {NoCourse} /\ panel.view \in Views
  /\ \A j \in panel.jobs : j.status \in Statuses
  /\ \A f \in flights : f.op \in Ops /\ f.pc \in {"sent", "answered", "failed"}
  /\ ~panel.active => ~panel.timer /\ ~panel.busy

\* The panel lists and shows extractions of its own course only, however late
\* the answers of another course come.
OwnCourse ==
  /\ \A j \in panel.jobs : j.course = panel.course
  /\ panel.selected # NoJob => panel.selected.course = panel.course

\* The observations shown are those of the selected extraction.
RowsOfSelected ==
  panel.rows # NoRows => panel.selected # NoJob /\ panel.rows.id = panel.selected.id

\* Trying again after an uncertain start makes no second extraction: two that
\* were asked for by the same form are made only when the author was told of
\* the first.
OneJobPerForm ==
  \A i, k \in DOMAIN jobs :
    i < k /\ jobs[i].course = jobs[k].course /\ jobs[i].rev = jobs[k].rev
          /\ jobs[i].form = jobs[k].form => jobs[i].told

\* A review decision is accepted only when the observations it was made on
\* already showed every review of another tab.
NoBlindReviewStep ==
  \A i \in DOMAIN jobs :
    jobs'[i].rr # jobs[i].rr /\ jobs'[i].other = jobs[i].other =>
      \E f \in flights \ flights' :
        f.op = "review" /\ f.id = i /\ f.base >= jobs[i].other
NoBlindReview == [][NoBlindReviewStep]_vars

\* While a listed extraction is active and the panel is looked at, another
\* poll is planned or under way, unless one was reported to have failed or
\* the revision went on without a refresh.
PollingGoesOn ==
  /\ panel.active /\ ~ctx.hidden /\ panel.failed # "list"
  /\ panel.course = ctx.course /\ panel.since = ctx.rev
  /\ \E j \in panel.jobs : j.status \in Active
  => \/ panel.timer
     \/ \E f \in flights : "schedule" \in f.then \/ (f.op = "list" /\ Wanted(Page, f))

\* The buttons that a request disables are enabled again.
BusySettles == panel.busy ~> ~panel.busy

\* The observations are shown under the name of the kind they are of.
RowsLabelled == panel.shown.rows # NoRows => panel.shown.rows.view = panel.shown.view

\* An extraction that the list has shown stays in it while the course is open.
ListedStay ==
  [][panel'.course = panel.course =>
       \A j \in panel.jobs : \E k \in panel'.jobs : k.id = j.id]_vars

\* What the author opened last is shown, is still being read, or its failure
\* was reported.
LastClickWins ==
  panel.asked # 0 /\ panel.selected # NoJob /\ panel.selected.id # panel.asked =>
    \/ panel.failed # "no"
    \/ \E f \in flights : f.op = "open" /\ f.id = panel.asked /\ f.latest /\ f.live
=============================================================================
