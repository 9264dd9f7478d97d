------------------------------ MODULE JobStore ------------------------------
(***************************************************************************)
(* The durable table of video extraction jobs (app/video_jobs.py).         *)
(*                                                                         *)
(* Every operation of JobStore is one SQLite transaction (BEGIN IMMEDIATE  *)
(* for the writers), hence one atomic step.  Job ids are numbered in order *)
(* of creation, so "ORDER BY created" is the order of the numbers.  A      *)
(* request id stands for the pair (course, request_id) of the unique       *)
(* index; the document revision, the source and the statistics of a row    *)
(* are not read by any decision modelled here and are left out.            *)
(***************************************************************************)
EXTENDS Integers, FiniteSets

CONSTANTS Owners,        \* authors who may start extractions
          RequestIDs,    \* (course, request_id) pairs a client may send
          MaxJobs,       \* bound: rows the table may ever hold
          GlobalLimit,   \* active jobs admitted in all (8 in the code)
          OwnLimit       \* active jobs admitted per author (2 in the code)

ASSUME StoreAssumption ==
  /\ MaxJobs \in Nat
  /\ GlobalLimit \in Nat
  /\ OwnLimit \in Nat

VARIABLE jobs

JobIds == 1..MaxJobs

Active   == {"queued", "running"}
Terminal == {"completed", "failed", "cancelled"}
Statuses == {"absent"} \cup Active \cup Terminal

(***************************************************************************)
(* The phases an author is shown.  "working" stands for every phase the    *)
(* running child reports (source, downloading, extracting, ...), "stopped" *)
(* for the two the supervisor writes (timeout, storage-limit).             *)
(***************************************************************************)
Phases == {"queued", "working", "cancelling", "cancelled", "completed",
           "failed", "interrupted", "stopped"}

Nobody == "nobody"

Row == [owner : Owners \cup {Nobody}, request : RequestIDs \cup {Nobody},
        status : Statuses, phase : Phases, cancelRequested : BOOLEAN]

NoRow == [owner |-> Nobody, request |-> Nobody, status |-> "absent",
          phase |-> "queued", cancelRequested |-> FALSE]

JobStoreInit == jobs = [j \in JobIds |-> NoRow]

Exists(j) == jobs[j].status # "absent"

ActiveJobs     == {j \in JobIds : jobs[j].status \in Active}
ActiveJobsOf(o) == {j \in ActiveJobs : jobs[j].owner = o}

\* The rows the unique index (owner, course, request_id) maps a request to.
Matching(o, r) == {j \in JobIds : Exists(j) /\ jobs[j].owner = o /\ jobs[j].request = r}

IsNextId(j) == ~Exists(j) /\ \A k \in 1..(j - 1) : Exists(k)

NewRow(o, r) == [owner |-> o, request |-> r, status |-> "queued", phase |-> "queued",
                 cancelRequested |-> FALSE]

\* Two bugs of create for the runs to catch: a bound that admits one too many,
\* and a request id that is free again once its job has ended.
CreateOverLimit(o, r, j) ==
  /\ Matching(o, r) = {}
  /\ Cardinality(ActiveJobs) < GlobalLimit
  /\ Cardinality(ActiveJobsOf(o)) <= OwnLimit
  /\ IsNextId(j)
  /\ jobs' = [jobs EXCEPT ![j] = NewRow(o, r)]

CreateAgain(o, r, j) ==
  /\ Matching(o, r) \cap ActiveJobs = {}
  /\ Cardinality(ActiveJobs) < GlobalLimit
  /\ Cardinality(ActiveJobsOf(o)) < OwnLimit
  /\ IsNextId(j)
  /\ jobs' = [jobs EXCEPT ![j] = NewRow(o, r)]

(***************************************************************************)
(* JobStore.create when it inserts.  A request that matches a row answers  *)
(* with that row or 409, a full queue with 429, a full disk with 507: none *)
(* of these changes the table.                                             *)
(***************************************************************************)
Create(o, r, j) ==
  /\ Matching(o, r) = {}
  /\ Cardinality(ActiveJobs) < GlobalLimit
  /\ Cardinality(ActiveJobsOf(o)) < OwnLimit
  /\ IsNextId(j)
  /\ jobs' = [jobs EXCEPT ![j] = NewRow(o, r)]

(***************************************************************************)
(* JobStore.update merges fields into whatever row it finds: it does not   *)
(* look at the status it replaces.  The three shapes its callers use.      *)
(***************************************************************************)
SetStatus(j, status, phase) ==
  jobs' = [jobs EXCEPT ![j].status = status, ![j].phase = phase]

SetPhase(j, phase) == jobs' = [jobs EXCEPT ![j].phase = phase]

RequestCancel(j, status, phase) ==
  jobs' = [jobs EXCEPT ![j].status = status, ![j].phase = phase,
                       ![j].cancelRequested = TRUE]

\* A bug of claim: the newest row first.
ClaimNewest(j) ==
  /\ jobs[j].status = "queued"
  /\ \A k \in JobIds : jobs[k].status = "queued" => k <= j
  /\ SetStatus(j, "running", "working")

\* JobStore.claim: the oldest queued row starts running.
ClaimRow(j) ==
  /\ jobs[j].status = "queued"
  /\ \A k \in JobIds : jobs[k].status = "queued" => j <= k
  /\ SetStatus(j, "running", "working")

-----------------------------------------------------------------------------
(***************************************************************************)
(* The store under any callers: whoever calls update may do so long after  *)
(* it read the row, so nothing but the shape of the write is assumed.  A   *)
(* finished job's status is only ever replaced by a terminal one.          *)
(***************************************************************************)
CreateAny == \E o \in Owners, r \in RequestIDs, j \in JobIds : Create(o, r, j)

ClaimAny == \E j \in JobIds : ClaimRow(j)

UpdateAny ==
  \E j \in JobIds :
    /\ Exists(j)
    /\ \/ \E s \in Terminal : SetStatus(j, s, s)
       \/ SetPhase(j, "working")
       \/ RequestCancel(j, "cancelled", "cancelled")
       \/ RequestCancel(j, jobs[j].status, "cancelling")

StoreSpec == JobStoreInit /\ [][CreateAny \/ ClaimAny \/ UpdateAny]_jobs

(***************************************************************************)
(* create counts and inserts in one transaction, and no writer of a stale  *)
(* status brings a finished job back: the active jobs never exceed the     *)
(* global bound, nor those of an author the author's.                      *)
(***************************************************************************)
AdmissionBounds ==
  /\ Cardinality(ActiveJobs) <= GlobalLimit
  /\ \A o \in Owners : Cardinality(ActiveJobsOf(o)) <= OwnLimit

(***************************************************************************)
(* A retried POST never starts a second job: a request id names one row,   *)
(* also after the job it started has ended.                                *)
(***************************************************************************)
OneJobPerRequest ==
  \A o \in Owners, r \in RequestIDs : Cardinality(Matching(o, r)) <= 1

(***************************************************************************)
(* ORDER BY created: a job only starts when no older job is left queued.   *)
(***************************************************************************)
OldestFirst ==
  [][\A j \in JobIds : jobs[j].status = "queued" /\ jobs'[j].status = "running"
        => \A k \in 1..(j - 1) : jobs[k].status # "queued"]_jobs
=============================================================================
