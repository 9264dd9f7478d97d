-------------------------- MODULE ExtractionWorker --------------------------
(***************************************************************************)
(* The private extraction worker (app/video_jobs_worker.py): supervisor    *)
(* processes that compete for one flock, the extraction child a supervisor *)
(* spawns for the job it claimed, and the FFmpeg helper of that child.     *)
(*                                                                         *)
(* A supervisor is a member of Procs; its slot is reused once the process  *)
(* and every holder of its lock descriptor are gone.  A job is claimed at  *)
(* most once, so the child and the files of a job are indexed by the job.  *)
(***************************************************************************)
EXTENDS JobStore

CONSTANTS Procs,         \* slots for supervisor processes
          MaxFaults      \* bound: crashes, kills and host restarts in a run

ASSUME WorkerAssumption == MaxFaults \in Nat /\ "nobody" \notin Procs

VARIABLES lock,      \* who holds worker.lock, a flock on an open file
          pc,        \* where each supervisor is
          cur,       \* the job a supervisor claimed, 0 for none
          todo,      \* ids recover_interrupted has read and not yet marked
          seen,      \* the cancelRequested flag of the row read while polling
          child,     \* where the extraction process of each job is
          verdict,   \* the status that process has decided to write
          helper,    \* whether an FFmpeg process of the job's group is alive
          source,    \* whether source.mp4* lies in the job's directory
          manifest,  \* what results/manifest.json says
          faults     \* faults so far

supervisorVars == <<lock, pc, cur, todo, seen>>
childVars      == <<child, verdict, helper, source, manifest>>
workerVars     == <<jobs, lock, pc, cur, todo, seen, child, verdict, helper,
                    source, manifest, faults>>

Unlocked == "nobody"

\* The supervisor's own points, and those at which it has a job of its own.
Owning == {"recover", "recovering", "idle", "claimed", "polling", "deciding",
           "marking", "reaped", "settling", "failing", "sweeping"}
Working == (Owning \ {"recover", "recovering", "idle"}) \cup {"crashed"}
\* Points at which a process or, once it has crashed, its child has the lock.
Holding == Owning \cup {"probing", "crashed"}

SupervisorPoints == Holding \cup {"off", "starting"}

Alive == {"acquiring", "downloading", "extracting", "finished", "checking",
          "erring", "writing", "unlinking"}
ChildPoints == Alive \cup {"none", "exited"}

Live(j) == child[j] \in Alive

WorkerInit ==
  /\ JobStoreInit
  /\ lock = Unlocked
  /\ pc = [w \in Procs |-> "off"]
  /\ cur = [w \in Procs |-> 0]
  /\ todo = [w \in Procs |-> {}]
  /\ seen = [w \in Procs |-> FALSE]
  /\ child = [j \in JobIds |-> "none"]
  /\ verdict = [j \in JobIds |-> "failed"]
  /\ helper = [j \in JobIds |-> FALSE]
  /\ source = [j \in JobIds |-> FALSE]
  /\ manifest = [j \in JobIds |-> "none"]
  /\ faults = 0

Goto(w, from, to) == pc[w] = from /\ pc' = [pc EXCEPT ![w] = to]

-----------------------------------------------------------------------------
(***************************************************************************)
(* kick_worker: probe the lock without blocking, release it, start a       *)
(* worker process.  A kick that finds the lock held does nothing.          *)
(***************************************************************************)
Probe(w) ==
  /\ Goto(w, "off", "probing")
  /\ lock = Unlocked
  /\ lock' = w
  /\ UNCHANGED <<jobs, cur, todo, seen, childVars, faults>>

Spawn(w) ==
  /\ Goto(w, "probing", "starting")
  /\ lock' = Unlocked
  /\ UNCHANGED <<jobs, cur, todo, seen, childVars, faults>>

\* A bug of main: the answer of a lock that would block goes unread.
TakeLockUnasked(w) ==
  /\ Goto(w, "starting", "recover")
  /\ lock' = w
  /\ UNCHANGED <<jobs, cur, todo, seen, childVars, faults>>

\* main: a started worker takes the lock or, finding it held, returns.
TakeLock(w) ==
  /\ Goto(w, "starting", "recover")
  /\ lock = Unlocked
  /\ lock' = w
  /\ UNCHANGED <<jobs, cur, todo, seen, childVars, faults>>

LoseLock(w) ==
  /\ Goto(w, "starting", "off")
  /\ lock # Unlocked
  /\ UNCHANGED <<jobs, lock, cur, todo, seen, childVars, faults>>

-----------------------------------------------------------------------------
\* recover_interrupted: one transaction reads the running rows, then each is
\* marked in a transaction of its own.
ReadInterrupted(w) ==
  /\ Goto(w, "recover", "recovering")
  /\ todo' = [todo EXCEPT ![w] = {j \in JobIds : jobs[j].status = "running"}]
  /\ UNCHANGED <<jobs, lock, cur, seen, childVars, faults>>

MarkInterrupted(w) ==
  /\ pc[w] = "recovering"
  /\ \E j \in todo[w] :
       /\ SetStatus(j, "failed", "interrupted")
       /\ todo' = [todo EXCEPT ![w] = @ \ {j}]
  /\ UNCHANGED <<lock, pc, cur, seen, childVars, faults>>

RecoveryDone(w) ==
  /\ Goto(w, "recovering", "idle")
  /\ todo[w] = {}
  /\ UNCHANGED <<jobs, lock, cur, todo, seen, childVars, faults>>

Claim(w) ==
  /\ Goto(w, "idle", "claimed")
  /\ \E j \in JobIds : ClaimRow(j) /\ cur' = [cur EXCEPT ![w] = j]
  /\ UNCHANGED <<lock, todo, seen, childVars, faults>>

\* check_worker_capacity refuses after the claim.
RefuseClaim(w) ==
  /\ Goto(w, "claimed", "idle")
  /\ SetStatus(cur[w], "failed", "stopped")
  /\ cur' = [cur EXCEPT ![w] = 0]
  /\ UNCHANGED <<lock, todo, seen, childVars, faults>>

\* Popen with the lock's descriptor inherited, in a process group of its own.
Launch(w) ==
  /\ Goto(w, "claimed", "polling")
  /\ child' = [child EXCEPT ![cur[w]] = "acquiring"]
  /\ UNCHANGED <<jobs, lock, cur, todo, seen, verdict, helper, source, manifest, faults>>

-----------------------------------------------------------------------------
\* The poll loop: child.poll() is None, then store.get.
Poll(w) ==
  /\ Goto(w, "polling", "deciding")
  /\ Live(cur[w])
  /\ seen' = [seen EXCEPT ![w] = jobs[cur[w]].cancelRequested]
  /\ UNCHANGED <<jobs, lock, cur, todo, childVars, faults>>

\* supervise_child finds no reason to stop: only when no cancellation was read.
KeepPolling(w) ==
  /\ Goto(w, "deciding", "polling")
  /\ ~seen[w]
  /\ UNCHANGED <<jobs, lock, cur, todo, seen, childVars, faults>>

\* Two bugs of supervise_child: the row is marked while the group still runs, and
\* only the child is killed, not its group.
MarkWithoutKill(w) ==
  /\ Goto(w, "deciding", "marking")
  /\ UNCHANGED <<jobs, lock, cur, todo, seen, childVars, faults>>

KillChildOnly(w) ==
  /\ Goto(w, "deciding", "marking")
  /\ child' = [child EXCEPT ![cur[w]] = "exited"]
  /\ UNCHANGED <<jobs, lock, cur, todo, seen, verdict, helper, source, manifest, faults>>

\* It stops the job: cancelled, out of time or out of storage.  The group is
\* killed and the child waited for before anything is written.
KillGroup(w) ==
  /\ Goto(w, "deciding", "marking")
  /\ child' = [child EXCEPT ![cur[w]] = "exited"]
  /\ helper' = [helper EXCEPT ![cur[w]] = FALSE]
  /\ UNCHANGED <<jobs, lock, cur, todo, seen, verdict, source, manifest, faults>>

MarkStopped(w) ==
  /\ Goto(w, "marking", "reaped")
  /\ IF seen[w] THEN SetStatus(cur[w], "cancelled", "cancelled")
                ELSE SetStatus(cur[w], "failed", "stopped")
  /\ seen' = [seen EXCEPT ![w] = FALSE]
  /\ UNCHANGED <<lock, cur, todo, childVars, faults>>

ChildGone(w) ==
  /\ Goto(w, "polling", "reaped")
  /\ ~Live(cur[w])
  /\ UNCHANGED <<jobs, lock, cur, todo, seen, childVars, faults>>

\* A bug of main: no cleanup once the child is gone.
ReapNothing(w) ==
  /\ Goto(w, "reaped", "settling")
  /\ UNCHANGED <<jobs, lock, cur, todo, seen, childVars, faults>>

\* The loop's finally: cleanup_job_group again, for descendants of a dead child.
Reap(w) ==
  /\ Goto(w, "reaped", "settling")
  /\ helper' = [helper EXCEPT ![cur[w]] = FALSE]
  /\ UNCHANGED <<jobs, lock, cur, todo, seen, child, verdict, source, manifest, faults>>

\* A bug of main: the child is trusted to have written its verdict.
TrustChild(w) ==
  /\ Goto(w, "settling", "sweeping")
  /\ UNCHANGED <<jobs, lock, cur, todo, seen, childVars, faults>>

\* store.get()["status"] == "running" is read before the update it guards.
ReadSettled(w) ==
  /\ pc[w] = "settling"
  /\ pc' = [pc EXCEPT ![w] = IF jobs[cur[w]].status = "running" THEN "failing" ELSE "sweeping"]
  /\ UNCHANGED <<jobs, lock, cur, todo, seen, childVars, faults>>

MarkUnreported(w) ==
  /\ Goto(w, "failing", "sweeping")
  /\ SetStatus(cur[w], "failed", "failed")
  /\ UNCHANGED <<lock, cur, todo, seen, childVars, faults>>

SweepSource(w) ==
  /\ Goto(w, "sweeping", "idle")
  /\ source' = [source EXCEPT ![cur[w]] = FALSE]
  /\ cur' = [cur EXCEPT ![w] = 0]
  /\ UNCHANGED <<jobs, lock, todo, seen, child, verdict, helper, manifest, faults>>

-----------------------------------------------------------------------------
(***************************************************************************)
(* The extraction process of job j (execute, obtain_source, run_video).    *)
(***************************************************************************)
ChildGoto(j, from, to) == child[j] = from /\ child' = [child EXCEPT ![j] = to]

Download(j) ==
  /\ ChildGoto(j, "acquiring", "downloading")
  /\ source' = [source EXCEPT ![j] = TRUE]
  /\ helper' = [helper EXCEPT ![j] = TRUE]
  /\ SetPhase(j, "working")
  /\ UNCHANGED <<supervisorVars, verdict, manifest, faults>>

Acquired(j) ==
  /\ ChildGoto(j, "downloading", "extracting")
  /\ helper' = [helper EXCEPT ![j] = FALSE]
  /\ manifest' = [manifest EXCEPT ![j] = "running"]
  /\ SetPhase(j, "working")
  /\ UNCHANGED <<supervisorVars, verdict, source, faults>>

\* progress() writes the phase it is given over whatever phase the row shows.
ReportProgress(j) ==
  /\ child[j] \in {"downloading", "extracting"}
  /\ SetPhase(j, "working")
  /\ UNCHANGED <<supervisorVars, childVars, faults>>

\* A bug of run_video: the completed manifest is never written.
FinishWithoutManifest(j) ==
  /\ ChildGoto(j, "extracting", "finished")
  /\ UNCHANGED <<jobs, supervisorVars, verdict, helper, source, manifest, faults>>

\* run_video writes every export, then the completed manifest ...
FinishArtifacts(j) ==
  /\ ChildGoto(j, "extracting", "finished")
  /\ manifest' = [manifest EXCEPT ![j] = "completed"]
  /\ UNCHANGED <<jobs, supervisorVars, verdict, helper, source, faults>>

\* ... and reports progress a last time, inside the try that rewrites the
\* manifest as failed when the report raises.
ReportFinished(j) ==
  /\ ChildGoto(j, "finished", "checking")
  /\ SetPhase(j, "completed")
  /\ UNCHANGED <<supervisorVars, verdict, helper, source, manifest, faults>>

\* cancelled() is read before the update it guards.
CheckCancelled(j) ==
  /\ ChildGoto(j, "checking", "writing")
  /\ verdict' = [verdict EXCEPT ![j] = IF jobs[j].cancelRequested THEN "cancelled" ELSE "completed"]
  /\ UNCHANGED <<jobs, supervisorVars, helper, source, manifest, faults>>

\* An exception of the job: cancellation noticed, a limit, a bad source, ...
Raise(j) ==
  /\ child[j] \in {"acquiring", "downloading", "extracting", "finished"}
  /\ child' = [child EXCEPT ![j] = "erring"]
  /\ helper' = [helper EXCEPT ![j] = FALSE]
  /\ manifest' = [manifest EXCEPT ![j] = IF @ = "none" THEN "none" ELSE "failed"]
  /\ UNCHANGED <<jobs, supervisorVars, verdict, source, faults>>

\* A JobError or VideoOCRError of a cancelled job is a cancellation; any other
\* exception is a failure without a look at the flag.
JudgeError(j) ==
  /\ ChildGoto(j, "erring", "writing")
  /\ \/ verdict' = [verdict EXCEPT ![j] = "failed"]
     \/ /\ jobs[j].cancelRequested
        /\ verdict' = [verdict EXCEPT ![j] = "cancelled"]
  /\ UNCHANGED <<jobs, supervisorVars, helper, source, manifest, faults>>

WriteVerdict(j) ==
  /\ ChildGoto(j, "writing", "unlinking")
  /\ SetStatus(j, verdict[j], verdict[j])
  /\ verdict' = [verdict EXCEPT ![j] = "failed"]
  /\ UNCHANGED <<supervisorVars, helper, source, manifest, faults>>

\* When the child of a crashed supervisor ends, the last descriptor of the
\* lock is closed.
Orphaned(j) == {w \in Procs : pc[w] = "crashed" /\ cur[w] = j}

ReleaseLock(j) ==
  /\ lock' = IF Orphaned(j) # {} THEN Unlocked ELSE lock
  /\ pc' = [w \in Procs |-> IF w \in Orphaned(j) THEN "off" ELSE pc[w]]
  /\ cur' = [w \in Procs |-> IF w \in Orphaned(j) THEN 0 ELSE cur[w]]

\* execute's finally, and the end of the process.
Exit(j) ==
  /\ ChildGoto(j, "unlinking", "exited")
  /\ source' = [source EXCEPT ![j] = FALSE]
  /\ ReleaseLock(j)
  /\ UNCHANGED <<jobs, todo, seen, verdict, helper, manifest, faults>>

-----------------------------------------------------------------------------
(***************************************************************************)
(* Faults.                                                                 *)
(***************************************************************************)
Fault == faults < MaxFaults /\ faults' = faults + 1

\* The child is killed alone (out of memory): its FFmpeg helper may survive.
KillChild(j) ==
  /\ Fault
  /\ Live(j)
  /\ child' = [child EXCEPT ![j] = "exited"]
  /\ ReleaseLock(j)
  /\ UNCHANGED <<jobs, todo, seen, verdict, helper, source, manifest>>

\* A bug of Popen: without pass_fds the lock dies with the supervisor.
CrashReleasingLock(w) ==
  /\ Fault
  /\ pc[w] \in Owning
  /\ pc' = [pc EXCEPT ![w] = "off"]
  /\ cur' = [cur EXCEPT ![w] = 0]
  /\ lock' = Unlocked
  /\ todo' = [todo EXCEPT ![w] = {}]
  /\ seen' = [seen EXCEPT ![w] = FALSE]
  /\ UNCHANGED <<jobs, childVars>>

\* The supervisor dies at any point of its loop; its lock stays with its child.
CrashSupervisor(w) ==
  /\ Fault
  /\ pc[w] \in Owning
  /\ LET orphan == pc[w] \in {"polling", "deciding"} /\ Live(cur[w])
     IN  /\ pc' = [pc EXCEPT ![w] = IF orphan THEN "crashed" ELSE "off"]
         /\ cur' = [cur EXCEPT ![w] = IF orphan THEN @ ELSE 0]
         /\ lock' = IF orphan THEN lock ELSE Unlocked
  /\ todo' = [todo EXCEPT ![w] = {}]
  /\ seen' = [seen EXCEPT ![w] = FALSE]
  /\ UNCHANGED <<jobs, childVars>>

\* PR_SET_PDEATHSIG: the orphaned child kills its own process group.
ParentDeathGuard(j) ==
  /\ Orphaned(j) # {}
  /\ Live(j)
  /\ child' = [child EXCEPT ![j] = "exited"]
  /\ helper' = [helper EXCEPT ![j] = FALSE]
  /\ ReleaseLock(j)
  /\ UNCHANGED <<jobs, todo, seen, verdict, source, manifest, faults>>

\* An FFmpeg process that outlived its child ends by itself (-t and -fs).
HelperEnds(j) ==
  /\ helper[j]
  /\ ~Live(j)
  /\ helper' = [helper EXCEPT ![j] = FALSE]
  /\ UNCHANGED <<jobs, supervisorVars, child, verdict, source, manifest, faults>>

\* systemd stops the whole control group: only the files are left.
HostRestart ==
  /\ Fault
  /\ lock' = Unlocked
  /\ pc' = [w \in Procs |-> "off"]
  /\ cur' = [w \in Procs |-> 0]
  /\ todo' = [w \in Procs |-> {}]
  /\ seen' = [w \in Procs |-> FALSE]
  /\ child' = [j \in JobIds |-> IF Live(j) THEN "exited" ELSE child[j]]
  /\ helper' = [j \in JobIds |-> FALSE]
  /\ UNCHANGED <<jobs, verdict, source, manifest>>

-----------------------------------------------------------------------------
SupervisorStep(w) ==
  \/ Probe(w) \/ Spawn(w) \/ TakeLock(w) \/ LoseLock(w)
  \/ ReadInterrupted(w) \/ MarkInterrupted(w) \/ RecoveryDone(w)
  \/ Claim(w) \/ RefuseClaim(w) \/ Launch(w)
  \/ Poll(w) \/ KeepPolling(w) \/ KillGroup(w) \/ MarkStopped(w) \/ ChildGone(w)
  \/ Reap(w) \/ ReadSettled(w) \/ MarkUnreported(w) \/ SweepSource(w)

ChildStep(j) ==
  \/ Download(j) \/ Acquired(j) \/ ReportProgress(j) \/ FinishArtifacts(j)
  \/ ReportFinished(j) \/ CheckCancelled(j) \/ Raise(j) \/ JudgeError(j)
  \/ WriteVerdict(j) \/ Exit(j) \/ ParentDeathGuard(j) \/ HelperEnds(j)

WorkerFault ==
  \/ \E j \in JobIds : KillChild(j)
  \/ \E w \in Procs : CrashSupervisor(w)

WorkerTypeOK ==
  /\ jobs \in [JobIds -> Row]
  /\ lock \in Procs \cup {Unlocked}
  /\ pc \in [Procs -> SupervisorPoints]
  /\ cur \in [Procs -> 0..MaxJobs]
  /\ todo \in [Procs -> SUBSET JobIds]
  /\ seen \in [Procs -> BOOLEAN]
  /\ child \in [JobIds -> ChildPoints]
  /\ verdict \in [JobIds -> Terminal]
  /\ helper \in [JobIds -> BOOLEAN]
  /\ source \in [JobIds -> BOOLEAN]
  /\ manifest \in [JobIds -> {"none", "running", "completed", "failed"}]
  /\ faults \in 0..MaxFaults
=============================================================================
