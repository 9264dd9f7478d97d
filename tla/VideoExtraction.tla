--------------------------- MODULE VideoExtraction --------------------------
(***************************************************************************)
(* The video extraction subsystem: the HTTP handlers that create and       *)
(* cancel jobs (app/video_jobs_api.py) run concurrently with the worker    *)
(* over the same table.  Creating a job is one transaction; cancelling is  *)
(* a read, an await, and a write that trusts what was read.                *)
(***************************************************************************)
EXTENDS ExtractionWorker

CONSTANT Handlers    \* cancel requests in flight at the same time

VARIABLE request     \* what a cancel request has read: a job and its status

vars == <<workerVars, request>>

Idle == [job |-> 0, status |-> "absent"]

Init ==
  /\ WorkerInit
  /\ request = [h \in Handlers |-> Idle]

\* POST .../extractions.  kick_worker follows, as do the ten-second kicks of
\* the app's lifespan: both are Probe and Spawn.
CreateJob ==
  /\ \E o \in Owners, r \in RequestIDs, j \in JobIds : Create(o, r, j)
  /\ UNCHANGED <<supervisorVars, childVars, faults, request>>

\* POST .../cancel: store.get in the thread pool ...
CancelRead(h, j) ==
  /\ request[h] = Idle
  /\ Exists(j)
  /\ request' = [request EXCEPT ![h] = [job |-> j, status |-> jobs[j].status]]
  /\ UNCHANGED workerVars

\* Two bugs of the cancel handler: the row that was read is written back whole,
\* and the phase is written as a status.
CancelWriteStale(h) ==
  /\ request[h] # Idle
  /\ IF request[h].status \in Active
       THEN RequestCancel(request[h].job, request[h].status, "cancelling")
       ELSE UNCHANGED jobs
  /\ request' = [request EXCEPT ![h] = Idle]
  /\ UNCHANGED <<supervisorVars, childVars, faults>>

CancelWritePhase(h) ==
  /\ request[h] # Idle
  /\ RequestCancel(request[h].job, "cancelling", "cancelling")
  /\ request' = [request EXCEPT ![h] = Idle]
  /\ UNCHANGED <<supervisorVars, childVars, faults>>

\* ... then store.update, by the status that was read.
CancelWrite(h) ==
  /\ request[h] # Idle
  /\ LET j == request[h].job
     IN  CASE request[h].status = "queued"  -> RequestCancel(j, "cancelled", "cancelled")
           [] request[h].status = "running" -> RequestCancel(j, jobs[j].status, "cancelling")
           [] OTHER                         -> UNCHANGED jobs
  /\ request' = [request EXCEPT ![h] = Idle]
  /\ UNCHANGED <<supervisorVars, childVars, faults>>

\* systemd stops the app with its worker: requests in flight are lost.
Restart ==
  /\ HostRestart
  /\ request' = [h \in Handlers |-> Idle]

Next ==
  \/ CreateJob
  \/ \E h \in Handlers : (\E j \in JobIds : CancelRead(h, j)) \/ CancelWrite(h)
  \/ \E w \in Procs : SupervisorStep(w) /\ UNCHANGED request
  \/ \E j \in JobIds : ChildStep(j) /\ UNCHANGED request
  \/ WorkerFault /\ UNCHANGED request
  \/ Restart

(***************************************************************************)
(* The kick loop, a supervisor and a request in flight keep running; nobody*)
(* has to create, cancel or fault.  An extraction may hang: what ends it is*)
(* the six-hour limit its supervisor checks every second, so a supervisor  *)
(* that decides again and again about a live child kills it in the end     *)
(* (strong fairness of KillGroup), or, once the supervisor has died, the   *)
(* kernel's parent-death signal; FFmpeg ends at its -t and -fs.  A starting*)
(* worker is refused the lock only by the short probe of a kick or by a    *)
(* worker that has it, so one that finds it free again and again gets it   *)
(* (strong fairness of TakeLock).                                          *)
(***************************************************************************)
Fairness ==
  /\ \A w \in Procs :
       /\ WF_vars(SupervisorStep(w) /\ UNCHANGED request)
       /\ SF_vars(TakeLock(w) /\ UNCHANGED request)
       /\ SF_vars(KillGroup(w) /\ UNCHANGED request)
  /\ \A j \in JobIds :
       WF_vars((ParentDeathGuard(j) \/ HelperEnds(j)) /\ UNCHANGED request)
  /\ \A h \in Handlers : WF_vars(CancelWrite(h))

Spec == Init /\ [][Next]_vars
FairSpec == Spec /\ Fairness

-----------------------------------------------------------------------------
TypeOK ==
  /\ WorkerTypeOK
  /\ request \in [Handlers -> [job : 0..MaxJobs, status : Statuses]]

LiveJobs == {j \in JobIds : Live(j)}

(***************************************************************************)
(* "One extraction child runs at a time" (docs/studio-video-extraction.md),*)
(* whatever supervisors crash and are replaced: the child keeps the lock   *)
(* its parent gave it, so no replacement can claim before it has died.     *)
(***************************************************************************)
OneExtraction == \A j, k \in LiveJobs : j = k

(***************************************************************************)
(* "Only called by the exclusive worker-lock holder; never interrupts a    *)
(* live worker" (recover_interrupted): no extraction process lives while   *)
(* a supervisor recovers, and a row marked as interrupted has none.        *)
(***************************************************************************)
RecoveryFindsNoWorker ==
  /\ (\E w \in Procs : pc[w] \in {"recover", "recovering"}) => LiveJobs = {}
  /\ \A j \in LiveJobs : jobs[j].phase # "interrupted"

(***************************************************************************)
(* "Only a completed manifest means exports are complete" (run_video): a   *)
(* row says completed only over a complete set of exports, whoever else    *)
(* wrote the row and however the child was stopped.                        *)
(***************************************************************************)
CompletedIsWhole ==
  \A j \in JobIds : jobs[j].status = "completed" => manifest[j] = "completed"

(***************************************************************************)
(* cleanup_job_group runs for every child before the next claim: while a   *)
(* supervisor looks for work, an FFmpeg process still alive belongs to a   *)
(* job whose child was killed and whose supervisor then crashed too.       *)
(***************************************************************************)
GroupGoneBeforeClaim ==
  (\E w \in Procs : pc[w] = "idle") => (\A j \in JobIds : helper[j] => faults >= 2)

(***************************************************************************)
(* "No terminal write before process wait": when the supervisor writes a   *)
(* terminal status for the job it ran, no process of that job's group is   *)
(* left to write after it.                                                 *)
(***************************************************************************)
SupervisorWritesLast ==
  [][\A w \in Procs : pc[w] \in {"marking", "failing"} /\ pc'[w] # pc[w]
        => ~Live(cur[w]) /\ ~helper[cur[w]]]_vars

(***************************************************************************)
(* Why it holds: the lock is open in the process that is past taking it    *)
(* and in the child it spawned; a live child belongs to the supervisor     *)
(* that claimed its job; a claimed job has not run before.                 *)
(***************************************************************************)
LockHeld == \A w \in Procs : pc[w] \in Holding => lock = w

ChildOwned ==
  \A j \in LiveJobs : \E w \in Procs :
    cur[w] = j /\ pc[w] \in {"polling", "deciding", "crashed"}

ClaimFresh ==
  \A w \in Procs :
    /\ pc[w] \in Working => jobs[cur[w]].status \notin {"absent", "queued"}
    /\ pc[w] = "claimed" => /\ child[cur[w]] = "none"
                            /\ jobs[cur[w]].phase # "interrupted"

NeverStarted ==
  \A j \in JobIds : jobs[j].status \in {"absent", "queued"} => child[j] = "none"

NotInterrupted == \A j \in LiveJobs : jobs[j].phase # "interrupted"

ExclusionInv == LockHeld /\ ChildOwned /\ ClaimFresh /\ NeverStarted /\ NotInterrupted

(***************************************************************************)
(* Why CompletedIsWhole holds: a child decides on "completed" only after   *)
(* the manifest says so, and a completed row's child writes no more.       *)
(***************************************************************************)
WholeInv ==
  \A j \in JobIds :
    /\ child[j] \in {"finished", "checking"} => manifest[j] = "completed"
    /\ verdict[j] = "completed"
         => manifest[j] = "completed" /\ child[j] \in {"writing", "exited"}
    /\ jobs[j].status = "completed"
         => manifest[j] = "completed" /\ child[j] \in {"unlinking", "exited"}

(***************************************************************************)
(* The promise of ExtractionQueue.                                         *)
(***************************************************************************)
Queue == INSTANCE ExtractionQueue
           WITH status <- [j \in JobIds |-> jobs[j].status], executing <- LiveJobs

ImplementsQueue == Queue!Spec

(***************************************************************************)
(* The ten-second kick and the fair worker settle every admitted job, also *)
(* over crashes and restarts ("a replacement marks unfinished running jobs *)
(* failed; queued jobs remain durable").                                   *)
(***************************************************************************)
EveryJobSettles ==
  \A j \in JobIds : jobs[j].status \in Active ~> jobs[j].status \in Terminal

(***************************************************************************)
(* "Cancellation terminates the child process group": once the flag is set *)
(* the job's process and its FFmpeg end and do not come back.              *)
(***************************************************************************)
CancelledStops ==
  \A j \in JobIds : jobs[j].cancelRequested ~> [](~Live(j) /\ ~helper[j])

(***************************************************************************)
(* "Downloaded sources are removed after completion/failure/cancellation"  *)
(* (docs/studio-video-extraction.md): while a supervisor looks for work no *)
(* finished job keeps its source.mp4.                                      *)
(***************************************************************************)
SourcesRemoved ==
  (\E w \in Procs : pc[w] = "idle")
    => \A j \in JobIds : jobs[j].status \in Terminal => ~source[j]

(***************************************************************************)
(* "Completed evidence/reviews are retained ... existing results remain    *)
(* readable" (docs/studio-video-extraction.md): results are only served    *)
(* while the row says completed, so a completed row stays completed.       *)
(***************************************************************************)
CompletedRetained ==
  [][\A j \in JobIds : jobs[j].status = "completed" => jobs'[j].status = "completed"]_vars
=============================================================================
