-------------------------- MODULE ExtractionQueue ---------------------------
(***************************************************************************)
(* What the video extraction subsystem promises, without processes, locks  *)
(* or crashes: jobs are admitted within bounds and started oldest first    *)
(* while nothing executes; at most one job executes; a job that has        *)
(* stopped counting against the bounds never counts again; and it is only  *)
(* recorded as completed while its own process executes.                   *)
(***************************************************************************)
EXTENDS Integers, FiniteSets

CONSTANTS MaxJobs, GlobalLimit

VARIABLES status,      \* the recorded status of each job, "absent" before it exists
          executing    \* the jobs whose extraction process is alive

JobIds   == 1..MaxJobs
Active   == {"queued", "running"}
Terminal == {"completed", "failed", "cancelled"}

Init ==
  /\ status = [j \in JobIds |-> "absent"]
  /\ executing = {}

Submit(j) ==
  /\ status[j] = "absent"
  /\ \A k \in 1..(j - 1) : status[k] # "absent"
  /\ Cardinality({k \in JobIds : status[k] \in Active}) < GlobalLimit
  /\ status' = [status EXCEPT ![j] = "queued"]
  /\ UNCHANGED executing

Start(j) ==
  /\ executing = {}
  /\ status[j] = "queued"
  /\ \A k \in JobIds : status[k] = "queued" => j <= k
  /\ status' = [status EXCEPT ![j] = "running"]
  /\ UNCHANGED executing

\* The process of a started job begins; the job may have been cancelled since.
Execute(j) ==
  /\ executing = {}
  /\ status[j] \in {"running"} \cup Terminal
  /\ executing' = {j}
  /\ UNCHANGED status

Halt ==
  /\ executing # {}
  /\ executing' = {}
  /\ UNCHANGED status

Complete(j) ==
  /\ executing = {j}
  /\ status[j] \in {"running"} \cup Terminal
  /\ status' = [status EXCEPT ![j] = "completed"]
  /\ UNCHANGED executing

\* A queued job can only be cancelled; a started one can also fail, and a
\* late writer may replace one terminal status by another.
Abandon(j) ==
  /\ status[j] # "absent"
  /\ \E s \in {"failed", "cancelled"} :
       /\ status[j] = "queued" => s = "cancelled"
       /\ status' = [status EXCEPT ![j] = s]
  /\ UNCHANGED executing

Next ==
  \/ Halt
  \/ \E j \in JobIds : Submit(j) \/ Start(j) \/ Execute(j) \/ Complete(j) \/ Abandon(j)

Spec == Init /\ [][Next]_<<status, executing>>
=============================================================================
