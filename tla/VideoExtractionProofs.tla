------------------------ MODULE VideoExtractionProofs -----------------------
(***************************************************************************)
(* Theorems about VideoExtraction and the job table it is built on, for    *)
(* all authors, requests, jobs, limits, supervisors, requests in flight    *)
(* and any number of faults.                                               *)
(***************************************************************************)
EXTENDS VideoExtraction, FiniteSetTheorems, TLAPS

-----------------------------------------------------------------------------
(***************************************************************************)
(* The table of extractions under any callers: whoever creates, claims and *)
(* updates, the limits hold, a request id names one extraction, and the    *)
(* oldest that is queued is claimed first.                                 *)
(***************************************************************************)

(***************************************************************************)
(* What every update but an insertion does to a row: it stays with its     *)
(* author and request, and none becomes active that was not.               *)
(***************************************************************************)
RowSettles(j) ==
  /\ jobs'[j].owner = jobs[j].owner /\ jobs'[j].request = jobs[j].request
  /\ \/ jobs'[j].status = jobs[j].status
     \/ jobs[j].status = "queued" /\ jobs'[j].status = "running"
     \/ jobs[j].status # "absent" /\ jobs'[j].status \in Terminal

Settles == jobs' \in [JobIds -> Row] /\ \A j \in JobIds : RowSettles(j)

(***************************************************************************)
(* The inductive invariant: the bounds, and no two rows of one request.    *)
(***************************************************************************)
RequestsDistinct ==
  \A j, k \in JobIds :
    Exists(j) /\ Exists(k) /\ jobs[j].owner = jobs[k].owner /\ jobs[j].request = jobs[k].request
      => j = k

AdmissionInv == jobs \in [JobIds -> Row] /\ AdmissionBounds /\ RequestsDistinct

(***************************************************************************)
(* Sets of rows are finite, and counting is monotone.                      *)
(***************************************************************************)
LEMMA RowsFinite ==
  ASSUME NEW S \in SUBSET JobIds
  PROVE  IsFiniteSet(S) /\ Cardinality(S) \in Nat /\ \A T \in SUBSET S : Cardinality(T) <= Cardinality(S)
<1>1. 1 \in Int /\ MaxJobs \in Int
  BY StoreAssumption
<1>2. IsFiniteSet(JobIds)
  BY <1>1, FS_Interval DEF JobIds
<1>3. IsFiniteSet(S)
  BY <1>2, FS_Subset
<1>4. QED  BY <1>3, FS_Subset, FS_CardinalityType

(***************************************************************************)
(* An invariant that is inductive says that a request id names one row.    *)
(***************************************************************************)
LEMMA DistinctIsOne == RequestsDistinct => OneJobPerRequest
<1> SUFFICES ASSUME RequestsDistinct, NEW o \in Owners, NEW r \in RequestIDs
             PROVE  Cardinality(Matching(o, r)) <= 1
  BY DEF OneJobPerRequest
<1>1. CASE Matching(o, r) = {}
  BY <1>1, FS_EmptySet
<1>2. CASE Matching(o, r) # {}
  <2>1. PICK j \in Matching(o, r) : TRUE
    BY <1>2
  <2>2. Matching(o, r) = {j}
    BY <2>1 DEF Matching, RequestsDistinct
  <2>3. QED  BY <2>2, FS_Singleton
<1>3. QED  BY <1>1, <1>2

(***************************************************************************)
(* create counts and inserts in one transaction: one row more is active,   *)
(* and there was room for it.                                              *)
(***************************************************************************)
LEMMA CreateAdmits ==
  ASSUME AdmissionInv, NEW o \in Owners, NEW r \in RequestIDs, NEW j \in JobIds, Create(o, r, j)
  PROVE  AdmissionInv'
<1>1. /\ jobs' = [jobs EXCEPT ![j] = NewRow(o, r)] /\ jobs \in [JobIds -> Row]
      /\ jobs[j].status = "absent" /\ Matching(o, r) = {}
      /\ Cardinality(ActiveJobs) < GlobalLimit /\ Cardinality(ActiveJobsOf(o)) < OwnLimit
  BY DEF Create, IsNextId, Exists, AdmissionInv
<1>2. NewRow(o, r) \in Row /\ NewRow(o, r).status = "queued"
      /\ NewRow(o, r).owner = o /\ NewRow(o, r).request = r
  BY DEF NewRow, Row, Statuses, Active, Phases
<1>3. jobs' \in [JobIds -> Row] /\ \A k \in JobIds : jobs'[k] = IF k = j THEN NewRow(o, r) ELSE jobs[k]
  BY <1>1, <1>2
<1>4. /\ ActiveJobs' = ActiveJobs \cup {j} /\ j \notin ActiveJobs
      /\ \A q \in Owners : ActiveJobsOf(q)' = IF q = o THEN ActiveJobsOf(q) \cup {j} ELSE ActiveJobsOf(q)
      /\ ActiveJobs \in SUBSET JobIds /\ \A q \in Owners : ActiveJobsOf(q) \in SUBSET JobIds /\ j \notin ActiveJobsOf(q)
  BY <1>1, <1>2, <1>3 DEF ActiveJobs, ActiveJobsOf, Active
<1>5. AdmissionBounds'
  <2>1. Cardinality(ActiveJobs') = Cardinality(ActiveJobs) + 1 /\ Cardinality(ActiveJobs) \in Nat
    BY <1>4, RowsFinite, FS_AddElement
  <2>2. ASSUME NEW q \in Owners
        PROVE  Cardinality(ActiveJobsOf(q)') <= OwnLimit
    <3>1. CASE q = o
      <4>1. /\ Cardinality(ActiveJobsOf(o)') = Cardinality(ActiveJobsOf(o)) + 1
            /\ Cardinality(ActiveJobsOf(o)) \in Nat
        BY <1>4, RowsFinite, FS_AddElement
      <4>2. QED  BY <1>1, <3>1, <4>1, StoreAssumption
    <3>2. CASE q # o
      BY <1>4, <3>2 DEF AdmissionInv, AdmissionBounds
    <3>3. QED  BY <3>1, <3>2
  <2>3. QED  BY <1>1, <2>1, <2>2, StoreAssumption DEF AdmissionBounds
<1>6. RequestsDistinct'
  BY <1>1, <1>2, <1>3 DEF AdmissionInv, RequestsDistinct, Exists, Matching
<1>7. QED  BY <1>3, <1>5, <1>6 DEF AdmissionInv

(***************************************************************************)
(* Every other write leaves no more active rows than there were.           *)
(***************************************************************************)
LEMMA SettlingAdmits ==
  ASSUME AdmissionInv, Settles
  PROVE  AdmissionInv'
<1>1. \A j \in JobIds : RowSettles(j) /\ jobs[j] \in Row /\ jobs'[j] \in Row
  BY DEF AdmissionInv, Settles
<1>2. /\ ActiveJobs' \in SUBSET ActiveJobs /\ ActiveJobs \in SUBSET JobIds
      /\ \A o \in Owners : ActiveJobsOf(o)' \in SUBSET ActiveJobsOf(o) /\ ActiveJobsOf(o) \in SUBSET JobIds
  BY <1>1 DEF RowSettles, ActiveJobs, ActiveJobsOf, Active, Terminal
<1>3. AdmissionBounds'
  <2>1. Cardinality(ActiveJobs') <= Cardinality(ActiveJobs) /\ Cardinality(ActiveJobs) \in Nat
        /\ Cardinality(ActiveJobs') \in Nat
    BY <1>2, RowsFinite
  <2>2. ASSUME NEW o \in Owners
        PROVE  Cardinality(ActiveJobsOf(o)') <= OwnLimit
    <3>1. Cardinality(ActiveJobsOf(o)') <= Cardinality(ActiveJobsOf(o)) /\ Cardinality(ActiveJobsOf(o)) \in Nat
          /\ Cardinality(ActiveJobsOf(o)') \in Nat
      BY <1>2, RowsFinite
    <3>2. QED  BY <3>1, StoreAssumption DEF AdmissionInv, AdmissionBounds
  <2>3. QED  BY <2>1, <2>2, StoreAssumption DEF AdmissionInv, AdmissionBounds
<1>4. RequestsDistinct'
  BY <1>1 DEF AdmissionInv, RequestsDistinct, RowSettles, Exists, Terminal
<1>5. QED  BY <1>3, <1>4 DEF AdmissionInv, Settles

\* No extraction is admitted in an empty table.
LEMMA InitAdmits == JobStoreInit => AdmissionInv
<1> SUFFICES ASSUME JobStoreInit PROVE AdmissionInv
  OBVIOUS
<1>1. NoRow \in Row /\ NoRow.status = "absent"
  BY DEF NoRow, Row, Statuses, Phases
<1>2. jobs \in [JobIds -> Row] /\ \A j \in JobIds : jobs[j].status = "absent"
  BY <1>1 DEF JobStoreInit
<1>3. ActiveJobs = {} /\ \A o \in Owners : ActiveJobsOf(o) = {}
  BY <1>2 DEF ActiveJobs, ActiveJobsOf, Active
<1>4. AdmissionBounds
  BY <1>3, FS_EmptySet, StoreAssumption DEF AdmissionBounds
<1>5. QED  BY <1>2, <1>4 DEF AdmissionInv, RequestsDistinct, Exists

(***************************************************************************)
(* A claim and the updates of any caller settle rows.                      *)
(***************************************************************************)
LEMMA StatusSettles ==
  ASSUME jobs \in [JobIds -> Row], NEW j \in JobIds, NEW s \in Statuses, NEW p \in Phases, SetStatus(j, s, p),
         \/ jobs[j].status = s
         \/ jobs[j].status = "queued" /\ s = "running"
         \/ jobs[j].status # "absent" /\ s \in Terminal
  PROVE  Settles
<1>1. jobs' = [jobs EXCEPT ![j] = [@ EXCEPT !.status = s, !.phase = p]]
  BY DEF SetStatus
<1>2. QED  BY <1>1 DEF Settles, RowSettles, Row

\* A phase is written over.
LEMMA PhaseSettles ==
  ASSUME jobs \in [JobIds -> Row], NEW j \in JobIds, NEW p \in Phases, SetPhase(j, p)
  PROVE  Settles
BY DEF SetPhase, Settles, RowSettles, Row

\* A cancellation is written over.
LEMMA CancelSettles ==
  ASSUME jobs \in [JobIds -> Row], NEW j \in JobIds, NEW s \in Statuses, NEW p \in Phases,
         RequestCancel(j, s, p),
         jobs[j].status = s \/ (jobs[j].status # "absent" /\ s \in Terminal)
  PROVE  Settles
BY DEF RequestCancel, Settles, RowSettles, Row

\* Every operation of any caller keeps the bounds and the requests apart.
LEMMA StoreStep ==
  ASSUME AdmissionInv, CreateAny \/ ClaimAny \/ UpdateAny
  PROVE  AdmissionInv'
<1>1. CASE CreateAny
  BY <1>1, CreateAdmits DEF CreateAny
<1>2. jobs \in [JobIds -> Row] /\ Terminal \subseteq Statuses /\ Terminal \subseteq Phases
      /\ {"running", "queued"} \subseteq Statuses /\ {"working", "cancelled", "cancelling"} \subseteq Phases
  BY DEF AdmissionInv, Terminal, Statuses, Active, Phases
<1>3. CASE ClaimAny
  <2>1. PICK j \in JobIds : jobs[j].status = "queued" /\ SetStatus(j, "running", "working")
    BY <1>3 DEF ClaimAny, ClaimRow
  <2>2. QED  BY <1>2, <2>1, StatusSettles, SettlingAdmits
<1>4. CASE UpdateAny
  <2>1. PICK j \in JobIds :
          /\ Exists(j)
          /\ \/ \E s \in Terminal : SetStatus(j, s, s)
             \/ SetPhase(j, "working")
             \/ RequestCancel(j, "cancelled", "cancelled")
             \/ RequestCancel(j, jobs[j].status, "cancelling")
    BY <1>4 DEF UpdateAny
  <2>2. jobs[j].status \in Statuses /\ jobs[j].status # "absent"
    BY <1>2, <2>1 DEF Row, Exists
  <2>3. "cancelled" \in Terminal
    BY DEF Terminal
  <2>4. Settles
    BY <1>2, <2>1, <2>2, <2>3, StatusSettles, PhaseSettles, CancelSettles
  <2>5. QED  BY <2>4, SettlingAdmits
<1>5. QED  BY <1>1, <1>3, <1>4

\* AdmissionInv is inductive, whoever calls the store.
THEOREM StoreInvariance == StoreSpec => []AdmissionInv
<1>1. AdmissionInv /\ UNCHANGED jobs => AdmissionInv'
  BY DEF AdmissionInv, AdmissionBounds, RequestsDistinct, ActiveJobs, ActiveJobsOf, Exists
<1>2. QED  BY InitAdmits, StoreStep, <1>1, PTL DEF StoreSpec

(***************************************************************************)
(* Whoever calls the store, and however stale what a caller read: the      *)
(* active extractions stay within the global bound and each author's, and  *)
(* a request that is sent again has one extraction (JobStore.create).      *)
(***************************************************************************)
THEOREM StoreAdmits == StoreSpec => [](AdmissionBounds /\ OneJobPerRequest)
<1>1. AdmissionInv => AdmissionBounds /\ OneJobPerRequest
  BY DistinctIsOne DEF AdmissionInv
<1>2. QED  BY <1>1, StoreInvariance, PTL

(***************************************************************************)
(* First come, first served: a claimed extraction has no older one queued. *)
(***************************************************************************)
(***************************************************************************)
(* First come, first served: an extraction is claimed only when no older   *)
(* one is queued (JobStore.claim).                                         *)
(***************************************************************************)
THEOREM StoreOrder == StoreSpec => OldestFirst
<1>1. ASSUME AdmissionInv, [CreateAny \/ ClaimAny \/ UpdateAny]_jobs,
             NEW j \in JobIds, jobs[j].status = "queued", jobs'[j].status = "running"
      PROVE  \A k \in 1..(j - 1) : jobs[k].status # "queued"
  <2>1. jobs \in [JobIds -> Row]
    BY <1>1 DEF AdmissionInv
  <2>2. ~CreateAny /\ ~UpdateAny /\ jobs' # jobs
    <3>1. ~CreateAny
      <4>1. SUFFICES ASSUME NEW o, NEW r, NEW i \in JobIds, jobs' = [jobs EXCEPT ![i] = NewRow(o, r)]
                     PROVE  FALSE
        BY DEF CreateAny, Create
      <4>2. QED  BY <1>1, <2>1, <4>1 DEF NewRow
    <3>2. ASSUME UpdateAny PROVE FALSE
      <4>1. PICK i \in JobIds :
              \/ \E s \in Terminal : SetStatus(i, s, s)
              \/ SetPhase(i, "working")
              \/ RequestCancel(i, "cancelled", "cancelled")
              \/ RequestCancel(i, jobs[i].status, "cancelling")
        BY <3>2 DEF UpdateAny
      <4>2. CASE \E s \in Terminal : SetStatus(i, s, s)
        BY <1>1, <2>1, <4>2 DEF SetStatus, Row, Terminal
      <4>3. CASE SetPhase(i, "working")
        BY <1>1, <2>1, <4>3 DEF SetPhase, Row
      <4>4. CASE RequestCancel(i, "cancelled", "cancelled") \/ RequestCancel(i, jobs[i].status, "cancelling")
        BY <1>1, <2>1, <4>4 DEF RequestCancel, Row
      <4>5. QED  BY <4>1, <4>2, <4>3, <4>4
    <3>3. QED  BY <1>1, <3>1, <3>2
  <2>3. PICK i \in JobIds : /\ \A k \in JobIds : jobs[k].status = "queued" => i <= k
                            /\ jobs' = [jobs EXCEPT ![i].status = "running", ![i].phase = "working"]
    BY <1>1, <2>2 DEF ClaimAny, ClaimRow, SetStatus
  <2>4. i = j
    BY <1>1, <2>1, <2>3
  <2>5. \A k \in 1..(j - 1) : k \in JobIds /\ ~(j <= k)
    BY StoreAssumption DEF JobIds
  <2>6. QED  BY <2>3, <2>4, <2>5
<1>2. AdmissionInv /\ [CreateAny \/ ClaimAny \/ UpdateAny]_jobs
        => [\A j \in JobIds : jobs[j].status = "queued" /\ jobs'[j].status = "running"
              => \A k \in 1..(j - 1) : jobs[k].status # "queued"]_jobs
  BY <1>1
<1>3. QED  BY <1>2, StoreInvariance, PTL DEF StoreSpec, OldestFirst

-----------------------------------------------------------------------------
(***************************************************************************)
(* The subsystem: the worker and the handlers over that table.             *)
(***************************************************************************)

(***************************************************************************)
(* What the three shapes of JobStore.update do to the table.               *)
(***************************************************************************)
LEMMA SetStatusEffect ==
  ASSUME jobs \in [JobIds -> Row], NEW j, NEW s \in Statuses, NEW p \in Phases,
         SetStatus(j, s, p)
  PROVE  /\ jobs' \in [JobIds -> Row]
         /\ \A k \in JobIds :
              /\ jobs'[k].status = IF k = j THEN s ELSE jobs[k].status
              /\ jobs'[k].phase = IF k = j THEN p ELSE jobs[k].phase
              /\ jobs'[k].owner = jobs[k].owner
  BY DEF SetStatus, Row

(***************************************************************************)
(* What a phase report of the child writes: no status, no request to       *)
(* cancel.                                                                 *)
(***************************************************************************)
LEMMA SetPhaseEffect ==
  ASSUME jobs \in [JobIds -> Row], NEW j, NEW p \in Phases, SetPhase(j, p)
  PROVE  /\ jobs' \in [JobIds -> Row]
         /\ \A k \in JobIds :
              /\ jobs'[k].status = jobs[k].status
              /\ jobs'[k].phase = IF k = j THEN p ELSE jobs[k].phase
              /\ jobs'[k].owner = jobs[k].owner
  BY DEF SetPhase, Row

(***************************************************************************)
(* What the cancel handler writes: the request, and a terminal status only *)
(* for a job that was still queued when it was read.                       *)
(***************************************************************************)
LEMMA RequestCancelEffect ==
  ASSUME jobs \in [JobIds -> Row], NEW j, NEW s \in Statuses, NEW p \in Phases,
         RequestCancel(j, s, p)
  PROVE  /\ jobs' \in [JobIds -> Row]
         /\ \A k \in JobIds :
              /\ jobs'[k].status = IF k = j THEN s ELSE jobs[k].status
              /\ jobs'[k].phase = IF k = j THEN p ELSE jobs[k].phase
              /\ jobs'[k].owner = jobs[k].owner
  BY DEF RequestCancel, Row

(***************************************************************************)
(* What JobStore.create writes: one fresh queued row.                      *)
(***************************************************************************)
LEMMA CreateEffect ==
  ASSUME jobs \in [JobIds -> Row], NEW o \in Owners, NEW r \in RequestIDs,
         NEW j \in JobIds, Create(o, r, j)
  PROVE  /\ jobs' \in [JobIds -> Row]
         /\ jobs[j].status = "absent"
         /\ \A k \in JobIds :
              /\ jobs'[k].status = IF k = j THEN "queued" ELSE jobs[k].status
              /\ jobs'[k].phase = IF k = j THEN "queued" ELSE jobs[k].phase
              /\ jobs'[k].owner = IF k = j THEN o ELSE jobs[k].owner
  BY DEF Create, NewRow, Row, IsNextId, Exists, Statuses, Active, Phases


-----------------------------------------------------------------------------
(***************************************************************************)
(* Type correctness.  TypeOK alone is not inductive: a supervisor indexes  *)
(* the table by the job it works on, so that must be a job.                *)
(***************************************************************************)
LEMMA Constants ==
  /\ MaxJobs \in Nat /\ MaxFaults \in Nat /\ Unlocked \notin Procs
  /\ Active \subseteq Statuses /\ "absent" \in Statuses
  /\ Terminal \subseteq Statuses
  /\ Terminal \subseteq Phases
  /\ {"completed", "failed", "cancelled"} \subseteq Terminal
  /\ {"queued", "running", "completed", "failed", "cancelled"} \subseteq Statuses
  /\ {"queued", "working", "cancelling", "cancelled", "completed", "failed",
       "interrupted", "stopped"} \subseteq Phases
  BY StoreAssumption, WorkerAssumption
     DEF StoreAssumption, WorkerAssumption, Unlocked, Active, Terminal, Statuses, Phases

WorksOnJob == \A w \in Procs : pc[w] \in Working => cur[w] \in JobIds

TypeInv == TypeOK /\ WorksOnJob

(***************************************************************************)
(* The types hold of an empty table and idle worker slots.                 *)
(***************************************************************************)
LEMMA InitTypeInv == Init => TypeInv
<1> SUFFICES ASSUME Init PROVE TypeInv
  OBVIOUS
<1> USE Constants DEF Init, WorkerInit
<1>1. jobs \in [JobIds -> Row]
  BY DEF JobStoreInit, NoRow, Row, Phases
<1>2. /\ lock \in Procs \cup {Unlocked}
      /\ pc \in [Procs -> SupervisorPoints]
      /\ child \in [JobIds -> ChildPoints]
  BY DEF SupervisorPoints, ChildPoints
<1>3. /\ cur \in [Procs -> 0..MaxJobs]
      /\ faults \in 0..MaxFaults
  OBVIOUS
<1>4. /\ todo \in [Procs -> SUBSET JobIds]
      /\ seen \in [Procs -> BOOLEAN]
      /\ verdict \in [JobIds -> Terminal]
      /\ helper \in [JobIds -> BOOLEAN]
      /\ source \in [JobIds -> BOOLEAN]
      /\ manifest \in [JobIds -> {"none", "running", "completed", "failed"}]
  BY DEF Terminal
<1>5. request \in [Handlers -> [job : 0..MaxJobs, status : Statuses]]
  BY DEF Idle
<1>6. WorksOnJob
  BY DEF WorksOnJob, Working, Owning
<1>7. QED
  BY <1>1, <1>2, <1>3, <1>4, <1>5, <1>6 DEF TypeInv, TypeOK, WorkerTypeOK

(***************************************************************************)
(* Every step of supervisors, children, handlers and the host keeps the    *)
(* types.                                                                  *)
(***************************************************************************)
LEMMA NextTypeInv == TypeInv /\ [Next]_vars => TypeInv'
<1> SUFFICES ASSUME TypeInv, [Next]_vars PROVE TypeInv'
  OBVIOUS
<1> USE Constants DEF TypeInv, WorksOnJob, Working, Owning, TypeOK, WorkerTypeOK, supervisorVars, childVars
<1>1. ASSUME CreateJob PROVE TypeInv'
  BY <1>1, CreateEffect DEF CreateJob
<1>2. ASSUME NEW h \in Handlers, NEW j \in JobIds, CancelRead(h, j) PROVE TypeInv'
  BY <1>2 DEF CancelRead, workerVars, JobIds, Row
<1>3. ASSUME NEW h \in Handlers, CancelWrite(h) PROVE TypeInv'
  <2> DEFINE j == request[h].job
  <2>1. CASE request[h].status = "queued"
    <3>1. RequestCancel(j, "cancelled", "cancelled")
      BY <1>3, <2>1 DEF CancelWrite
    <3>2. jobs' \in [JobIds -> Row]
      BY <3>1, RequestCancelEffect DEF Terminal, Phases
    <3>3. QED  BY <1>3, <3>2 DEF CancelWrite, Idle
  <2>2. CASE request[h].status = "running"
    <3>1. RequestCancel(j, jobs[j].status, "cancelling")
      BY <1>3, <2>2 DEF CancelWrite
    <3>2. CASE j \in JobIds
      <4>1. jobs[j].status \in Statuses
        BY <3>2 DEF Row
      <4>2. jobs' \in [JobIds -> Row]
        BY <3>1, <4>1, RequestCancelEffect
      <4>3. QED  BY <1>3, <4>2 DEF CancelWrite, Idle
    <3>3. CASE j \notin JobIds
      <4>1. jobs' = jobs
        BY <3>1, <3>3 DEF RequestCancel
      <4>2. QED  BY <1>3, <4>1 DEF CancelWrite, Idle
    <3>4. QED  BY <3>2, <3>3
  <2>3. CASE request[h].status \notin {"queued", "running"}
    BY <1>3, <2>3 DEF CancelWrite, Idle
  <2>4. QED  BY <2>1, <2>2, <2>3
<1>4. ASSUME NEW w \in Procs, Probe(w), UNCHANGED request PROVE TypeInv'
  BY <1>4 DEF Probe, Goto, SupervisorPoints, Holding, Owning, ChildPoints,
     Alive
<1>5. ASSUME NEW w \in Procs, Spawn(w), UNCHANGED request PROVE TypeInv'
  BY <1>5 DEF Spawn, Goto, SupervisorPoints, Holding, Owning, ChildPoints,
     Alive
<1>6. ASSUME NEW w \in Procs, TakeLock(w), UNCHANGED request PROVE TypeInv'
  BY <1>6 DEF TakeLock, Goto, SupervisorPoints, Holding, Owning,
     ChildPoints, Alive
<1>7. ASSUME NEW w \in Procs, LoseLock(w), UNCHANGED request PROVE TypeInv'
  BY <1>7 DEF LoseLock, Goto, SupervisorPoints, Holding, Owning,
     ChildPoints, Alive
<1>8. ASSUME NEW w \in Procs, ReadInterrupted(w), UNCHANGED request PROVE TypeInv'
  BY <1>8 DEF ReadInterrupted, Goto, SupervisorPoints, Holding, Owning,
     ChildPoints, Alive
<1>9. ASSUME NEW w \in Procs, RecoveryDone(w), UNCHANGED request PROVE TypeInv'
  BY <1>9 DEF RecoveryDone, Goto, SupervisorPoints, Holding, Owning,
     ChildPoints, Alive
<1>10. ASSUME NEW w \in Procs, Launch(w), UNCHANGED request PROVE TypeInv'
  BY <1>10 DEF Launch, Goto, SupervisorPoints, Holding, Owning, ChildPoints,
     Alive
<1>11. ASSUME NEW w \in Procs, Poll(w), UNCHANGED request PROVE TypeInv'
  BY <1>11 DEF Poll, Goto, SupervisorPoints, Holding, Owning, ChildPoints,
     Alive, JobIds, Row
<1>12. ASSUME NEW w \in Procs, KeepPolling(w), UNCHANGED request PROVE TypeInv'
  BY <1>12 DEF KeepPolling, Goto, SupervisorPoints, Holding, Owning,
     ChildPoints, Alive
<1>13. ASSUME NEW w \in Procs, KillGroup(w), UNCHANGED request PROVE TypeInv'
  BY <1>13 DEF KillGroup, Goto, SupervisorPoints, Holding, Owning,
     ChildPoints, Alive
<1>14. ASSUME NEW w \in Procs, ChildGone(w), UNCHANGED request PROVE TypeInv'
  BY <1>14 DEF ChildGone, Goto, SupervisorPoints, Holding, Owning,
     ChildPoints, Alive
<1>15. ASSUME NEW w \in Procs, Reap(w), UNCHANGED request PROVE TypeInv'
  BY <1>15 DEF Reap, Goto, SupervisorPoints, Holding, Owning, ChildPoints,
     Alive
<1>16. ASSUME NEW w \in Procs, ReadSettled(w), UNCHANGED request PROVE TypeInv'
  BY <1>16 DEF ReadSettled, Goto, SupervisorPoints, Holding, Owning,
     ChildPoints, Alive
<1>17. ASSUME NEW w \in Procs, SweepSource(w), UNCHANGED request PROVE TypeInv'
  <2>1. /\ cur' \in [Procs -> 0..MaxJobs]
        /\ source' \in [JobIds -> BOOLEAN]
        /\ pc' \in [Procs -> SupervisorPoints]
    BY <1>17 DEF SweepSource, Goto, SupervisorPoints, Holding, Owning
  <2>2. WorksOnJob'
    BY <1>17 DEF SweepSource, Goto
  <2>3. QED  BY <1>17, <2>1, <2>2 DEF SweepSource
<1>18. ASSUME NEW w \in Procs, MarkInterrupted(w), UNCHANGED request PROVE TypeInv'
  <2>1. PICK k \in todo[w] : SetStatus(k, "failed", "interrupted")
    BY <1>18 DEF MarkInterrupted
  <2>2. jobs' \in [JobIds -> Row]
    BY <2>1, SetStatusEffect
  <2>3. QED
    BY <1>18, <2>1, <2>2 DEF MarkInterrupted, Goto, SupervisorPoints, Holding, Owning, JobIds
<1>19. ASSUME NEW w \in Procs, Claim(w), UNCHANGED request PROVE TypeInv'
  <2>1. PICK k \in JobIds : SetStatus(k, "running", "working") /\ cur' = [cur EXCEPT ![w] = k]
    BY <1>19 DEF Claim, ClaimRow
  <2>2. jobs' \in [JobIds -> Row]
    BY <2>1, SetStatusEffect
  <2>3. QED
    BY <1>19, <2>1, <2>2 DEF Claim, Goto, SupervisorPoints, Holding, Owning, JobIds
<1>20. ASSUME NEW w \in Procs, RefuseClaim(w), UNCHANGED request PROVE TypeInv'
  <2>1. SetStatus(cur[w], "failed", "stopped")
    BY <1>20 DEF RefuseClaim
  <2>2. jobs' \in [JobIds -> Row]
    BY <2>1, SetStatusEffect
  <2>3. QED
    BY <1>20, <2>1, <2>2 DEF RefuseClaim, Goto, SupervisorPoints, Holding, Owning, JobIds
<1>21. ASSUME NEW w \in Procs, MarkStopped(w), UNCHANGED request PROVE TypeInv'
  <2>1. SetStatus(cur[w], "cancelled", "cancelled") \/ SetStatus(cur[w], "failed", "stopped")
    BY <1>21 DEF MarkStopped
  <2>2. jobs' \in [JobIds -> Row]
    BY <2>1, SetStatusEffect
  <2>3. QED
    BY <1>21, <2>1, <2>2 DEF MarkStopped, Goto, SupervisorPoints, Holding, Owning, JobIds
<1>22. ASSUME NEW w \in Procs, MarkUnreported(w), UNCHANGED request PROVE TypeInv'
  <2>1. SetStatus(cur[w], "failed", "failed")
    BY <1>22 DEF MarkUnreported
  <2>2. jobs' \in [JobIds -> Row]
    BY <2>1, SetStatusEffect
  <2>3. QED
    BY <1>22, <2>1, <2>2 DEF MarkUnreported, Goto, SupervisorPoints, Holding, Owning, JobIds
<1>23. ASSUME NEW j \in JobIds, FinishArtifacts(j), UNCHANGED request PROVE TypeInv'
  BY <1>23 DEF FinishArtifacts, ChildGoto, ReleaseLock, Terminal,
     SupervisorPoints, Holding, Owning, ChildPoints, Alive, JobIds
<1>24. ASSUME NEW j \in JobIds, CheckCancelled(j), UNCHANGED request PROVE TypeInv'
  BY <1>24 DEF CheckCancelled, ChildGoto, ReleaseLock, Terminal,
     SupervisorPoints, Holding, Owning, ChildPoints, Alive, JobIds
<1>25. ASSUME NEW j \in JobIds, Raise(j), UNCHANGED request PROVE TypeInv'
  BY <1>25 DEF Raise, ChildGoto, ReleaseLock, Terminal, SupervisorPoints,
     Holding, Owning, ChildPoints, Alive, JobIds
<1>26. ASSUME NEW j \in JobIds, JudgeError(j), UNCHANGED request PROVE TypeInv'
  BY <1>26 DEF JudgeError, ChildGoto, ReleaseLock, Terminal,
     SupervisorPoints, Holding, Owning, ChildPoints, Alive, JobIds
<1>27. ASSUME NEW j \in JobIds, Exit(j), UNCHANGED request PROVE TypeInv'
  BY <1>27 DEF Exit, ChildGoto, ReleaseLock, Terminal, SupervisorPoints,
     Holding, Owning, ChildPoints, Alive, JobIds
<1>28. ASSUME NEW j \in JobIds, ParentDeathGuard(j), UNCHANGED request PROVE TypeInv'
  BY <1>28 DEF ParentDeathGuard, ChildGoto, ReleaseLock, Terminal,
     SupervisorPoints, Holding, Owning, ChildPoints, Alive, JobIds
<1>29. ASSUME NEW j \in JobIds, HelperEnds(j), UNCHANGED request PROVE TypeInv'
  BY <1>29 DEF HelperEnds, ChildGoto, ReleaseLock, Terminal,
     SupervisorPoints, Holding, Owning, ChildPoints, Alive, JobIds
<1>30. ASSUME NEW j \in JobIds, Download(j), UNCHANGED request PROVE TypeInv'
  BY <1>30, SetPhaseEffect, SetStatusEffect DEF Download, ChildGoto,
     Terminal, ChildPoints, Alive, Phases, Statuses
<1>31. ASSUME NEW j \in JobIds, Acquired(j), UNCHANGED request PROVE TypeInv'
  BY <1>31, SetPhaseEffect, SetStatusEffect DEF Acquired, ChildGoto,
     Terminal, ChildPoints, Alive, Phases, Statuses
<1>32. ASSUME NEW j \in JobIds, ReportProgress(j), UNCHANGED request PROVE TypeInv'
  BY <1>32, SetPhaseEffect, SetStatusEffect DEF ReportProgress, ChildGoto,
     Terminal, ChildPoints, Alive, Phases, Statuses
<1>33. ASSUME NEW j \in JobIds, ReportFinished(j), UNCHANGED request PROVE TypeInv'
  BY <1>33, SetPhaseEffect, SetStatusEffect DEF ReportFinished, ChildGoto,
     Terminal, ChildPoints, Alive, Phases, Statuses
<1>34. ASSUME NEW j \in JobIds, WriteVerdict(j), UNCHANGED request PROVE TypeInv'
  BY <1>34, SetPhaseEffect, SetStatusEffect DEF WriteVerdict, ChildGoto,
     Terminal, ChildPoints, Alive, Phases, Statuses
<1>35. ASSUME NEW j \in JobIds, KillChild(j), UNCHANGED request PROVE TypeInv'
  BY <1>35 DEF KillChild, Fault, ReleaseLock, SupervisorPoints, Holding,
     Owning, ChildPoints, Alive, JobIds
<1>36. ASSUME NEW w \in Procs, CrashSupervisor(w), UNCHANGED request PROVE TypeInv'
  BY <1>36 DEF CrashSupervisor, Fault, SupervisorPoints, Holding, Owning,
     ChildPoints, Alive, JobIds
<1>37. ASSUME Restart PROVE TypeInv'
  BY <1>37 DEF Restart, HostRestart, Fault, Idle, SupervisorPoints, Holding,
     Owning, ChildPoints, Alive, JobIds
<1>38. ASSUME UNCHANGED vars PROVE TypeInv'
  BY <1>38 DEF vars, workerVars
<1>39. QED
  BY <1>1, <1>2, <1>3, <1>4, <1>5, <1>6, <1>7, <1>8, <1>9, <1>10, <1>11,
     <1>12, <1>13, <1>14, <1>15, <1>16, <1>17, <1>18, <1>19, <1>20, <1>21,
     <1>22, <1>23, <1>24, <1>25, <1>26, <1>27, <1>28, <1>29, <1>30, <1>31,
     <1>32, <1>33, <1>34, <1>35, <1>36, <1>37, <1>38
     DEF Next, SupervisorStep, ChildStep, WorkerFault

(***************************************************************************)
(* Every variable of the worker and of the handlers is of its type in      *)
(* every reachable state.                                                  *)
(***************************************************************************)
THEOREM TypeCorrect == Spec => []TypeOK
<1>1. TypeInv => TypeOK
  BY DEF TypeInv
<1>2. QED  BY <1>1, InitTypeInv, NextTypeInv, PTL DEF Spec

-----------------------------------------------------------------------------
(***************************************************************************)
(* Every write of a row but recover_interrupted's leaves started jobs      *)
(* started and marks none as interrupted.                                  *)
(***************************************************************************)
RowsKeep ==
  \A k \in JobIds :
    /\ jobs'[k].status \in {"absent", "queued"} => jobs[k].status \in {"absent", "queued"}
    /\ jobs'[k].phase = "interrupted" => jobs[k].phase = "interrupted"

(***************************************************************************)
(* Recording a status for a job the worker has started keeps RowsKeep.     *)
(***************************************************************************)
LEMMA SetStatusKeeps ==
  ASSUME jobs \in [JobIds -> Row], NEW j, NEW s \in {"running"} \cup Terminal,
         NEW p \in Phases \ {"interrupted"}, SetStatus(j, s, p)
  PROVE  RowsKeep
<1>1. s \in Statuses /\ s \notin {"absent", "queued"}
  BY Constants DEF Terminal
<1>2. QED  BY <1>1, SetStatusEffect DEF RowsKeep

(***************************************************************************)
(* So does a progress report.                                              *)
(***************************************************************************)
LEMMA SetPhaseKeeps ==
  ASSUME jobs \in [JobIds -> Row], NEW j, NEW p \in Phases \ {"interrupted"}, SetPhase(j, p)
  PROVE  RowsKeep
  BY SetPhaseEffect DEF RowsKeep

(***************************************************************************)
(* So does the write of the cancel handler, whatever happened since it     *)
(* read the row.                                                           *)
(***************************************************************************)
LEMMA CancelWriteKeeps ==
  ASSUME TypeOK, NEW h \in Handlers, CancelWrite(h)
  PROVE  RowsKeep
<1> DEFINE j == request[h].job
<1> USE DEF TypeOK, WorkerTypeOK
<1>1. CASE request[h].status = "queued"
  <2>1. RequestCancel(j, "cancelled", "cancelled")
    BY <1>1 DEF CancelWrite
  <2>2. QED  BY <2>1, Constants, RequestCancelEffect DEF RowsKeep
<1>2. CASE request[h].status = "running"
  <2>1. RequestCancel(j, jobs[j].status, "cancelling")
    BY <1>2 DEF CancelWrite
  <2>2. QED  BY <2>1 DEF RequestCancel, Row, RowsKeep
<1>3. CASE request[h].status \notin {"queued", "running"}
  BY <1>3 DEF CancelWrite, RowsKeep
<1>4. QED  BY <1>1, <1>2, <1>3


-----------------------------------------------------------------------------
(***************************************************************************)
(* The lock, its inheritance by the child, and the order of the            *)
(* supervisor's steps exclude a second extraction.                         *)
(***************************************************************************)
LEMMA NextExclusionInv == TypeInv /\ ExclusionInv /\ [Next]_vars => ExclusionInv'
<1> SUFFICES ASSUME TypeInv, ExclusionInv, [Next]_vars PROVE ExclusionInv'
  OBVIOUS
<1> USE Constants DEF TypeInv, WorksOnJob, Working, Owning, TypeOK, WorkerTypeOK,
      supervisorVars, childVars, ExclusionInv, LockHeld, ChildOwned, ClaimFresh, NeverStarted, NotInterrupted,
      LiveJobs, Live
<1>1. ASSUME NEW o \in Owners, NEW r \in RequestIDs, NEW j \in JobIds,
            Create(o, r, j), UNCHANGED <<supervisorVars, childVars>>
     PROVE  ExclusionInv'
  <2>1. RowsKeep
    BY <1>1, CreateEffect DEF RowsKeep
  <2>2. QED  BY <1>1, <2>1 DEF RowsKeep
<1>2. ASSUME NEW h \in Handlers, NEW j \in JobIds, CancelRead(h, j) PROVE ExclusionInv'
  BY <1>2 DEF CancelRead, workerVars
<1>3. ASSUME NEW h \in Handlers, CancelWrite(h) PROVE ExclusionInv'
  BY <1>3, CancelWriteKeeps DEF CancelWrite, RowsKeep
<1>4. ASSUME NEW w \in Procs, Probe(w) PROVE ExclusionInv'
  BY <1>4 DEF Probe, Goto, Holding, Owning, Alive
<1>5. ASSUME NEW w \in Procs, Spawn(w) PROVE ExclusionInv'
  BY <1>5 DEF Spawn, Goto, Holding, Owning, Alive
<1>6. ASSUME NEW w \in Procs, TakeLock(w) PROVE ExclusionInv'
  BY <1>6 DEF TakeLock, Goto, Holding, Owning, Alive
<1>7. ASSUME NEW w \in Procs, LoseLock(w) PROVE ExclusionInv'
  BY <1>7 DEF LoseLock, Goto, Holding, Owning, Alive
<1>8. ASSUME NEW w \in Procs, ReadInterrupted(w) PROVE ExclusionInv'
  BY <1>8 DEF ReadInterrupted, Goto, Holding, Owning, Alive
<1>9. ASSUME NEW w \in Procs, RecoveryDone(w) PROVE ExclusionInv'
  BY <1>9 DEF RecoveryDone, Goto, Holding, Owning, Alive
<1>10. ASSUME NEW w \in Procs, Launch(w) PROVE ExclusionInv'
  BY <1>10 DEF Launch, Goto, Holding, Owning, Alive
<1>11. ASSUME NEW w \in Procs, Poll(w) PROVE ExclusionInv'
  BY <1>11 DEF Poll, Goto, Holding, Owning, Alive
<1>12. ASSUME NEW w \in Procs, KeepPolling(w) PROVE ExclusionInv'
  BY <1>12 DEF KeepPolling, Goto, Holding, Owning, Alive
<1>13. ASSUME NEW w \in Procs, KillGroup(w) PROVE ExclusionInv'
  BY <1>13 DEF KillGroup, Goto, Holding, Owning, Alive
<1>14. ASSUME NEW w \in Procs, ChildGone(w) PROVE ExclusionInv'
  BY <1>14 DEF ChildGone, Goto, Holding, Owning, Alive
<1>15. ASSUME NEW w \in Procs, Reap(w) PROVE ExclusionInv'
  BY <1>15 DEF Reap, Goto, Holding, Owning, Alive
<1>16. ASSUME NEW w \in Procs, ReadSettled(w) PROVE ExclusionInv'
  BY <1>16 DEF ReadSettled, Goto, Holding, Owning, Alive
<1>17. ASSUME NEW w \in Procs, SweepSource(w) PROVE ExclusionInv'
  BY <1>17 DEF SweepSource, Goto, Holding, Owning, Alive
<1>18. ASSUME NEW w \in Procs, MarkInterrupted(w) PROVE ExclusionInv'
  <2>1. PICK k \in todo[w] : SetStatus(k, "failed", "interrupted")
    BY <1>18 DEF MarkInterrupted
  <2>2. LiveJobs = {} /\ \A v \in Procs : pc[v] # "claimed"
    BY <1>18 DEF MarkInterrupted, Holding, Owning
  <2>3. \A i \in JobIds :
          jobs'[i].status \in {"absent", "queued"} => jobs[i].status \in {"absent", "queued"}
    <3>1. "failed" \in Statuses /\ "interrupted" \in Phases
      OBVIOUS
    <3>2. QED  BY <2>1, <3>1, SetStatusEffect
  <2>4. QED
    BY <1>18, <2>2, <2>3 DEF MarkInterrupted
<1>19. ASSUME NEW w \in Procs, Claim(w) PROVE ExclusionInv'
  <2>1. PICK k \in JobIds : /\ SetStatus(k, "running", "working")
                            /\ cur' = [cur EXCEPT ![w] = k]
                            /\ jobs[k].status = "queued"
    BY <1>19 DEF Claim, ClaimRow
  <2>2. RowsKeep
    BY <2>1, SetStatusKeeps, SetStatusEffect
  <2>3. QED
    BY <1>19, <2>1, <2>2, SetStatusEffect DEF RowsKeep, Claim, Goto, Holding, Owning, Alive
<1>20. ASSUME NEW w \in Procs, RefuseClaim(w) PROVE ExclusionInv'
  <2>1. SetStatus(cur[w], "failed", "stopped")
    BY <1>20 DEF RefuseClaim
  <2>2. RowsKeep
    BY <2>1, SetStatusKeeps
  <2>3. QED
    BY <1>20, <2>1, <2>2 DEF RowsKeep, RefuseClaim, Goto, Holding, Owning, Alive
<1>21. ASSUME NEW w \in Procs, MarkStopped(w) PROVE ExclusionInv'
  <2>1. SetStatus(cur[w], "cancelled", "cancelled") \/ SetStatus(cur[w], "failed", "stopped")
    BY <1>21 DEF MarkStopped
  <2>2. RowsKeep
    BY <2>1, SetStatusKeeps
  <2>3. QED
    BY <1>21, <2>1, <2>2 DEF RowsKeep, MarkStopped, Goto, Holding, Owning, Alive
<1>22. ASSUME NEW w \in Procs, MarkUnreported(w) PROVE ExclusionInv'
  <2>1. SetStatus(cur[w], "failed", "failed")
    BY <1>22 DEF MarkUnreported
  <2>2. RowsKeep
    BY <2>1, SetStatusKeeps
  <2>3. QED
    BY <1>22, <2>1, <2>2 DEF RowsKeep, MarkUnreported, Goto, Holding, Owning, Alive
<1>23. ASSUME NEW j \in JobIds, FinishArtifacts(j) PROVE ExclusionInv'
  BY <1>23 DEF FinishArtifacts, ChildGoto, ReleaseLock, Orphaned, Terminal,
     Holding, Owning, Alive
<1>24. ASSUME NEW j \in JobIds, CheckCancelled(j) PROVE ExclusionInv'
  BY <1>24 DEF CheckCancelled, ChildGoto, ReleaseLock, Orphaned, Terminal,
     Holding, Owning, Alive
<1>25. ASSUME NEW j \in JobIds, Raise(j) PROVE ExclusionInv'
  BY <1>25 DEF Raise, ChildGoto, ReleaseLock, Orphaned, Terminal, Holding,
     Owning, Alive
<1>26. ASSUME NEW j \in JobIds, JudgeError(j) PROVE ExclusionInv'
  BY <1>26 DEF JudgeError, ChildGoto, ReleaseLock, Orphaned, Terminal,
     Holding, Owning, Alive
<1>27. ASSUME NEW j \in JobIds, Exit(j) PROVE ExclusionInv'
  BY <1>27 DEF Exit, ChildGoto, ReleaseLock, Orphaned, Terminal, Holding,
     Owning, Alive
<1>28. ASSUME NEW j \in JobIds, ParentDeathGuard(j) PROVE ExclusionInv'
  BY <1>28 DEF ParentDeathGuard, ChildGoto, ReleaseLock, Orphaned, Terminal,
     Holding, Owning, Alive
<1>29. ASSUME NEW j \in JobIds, HelperEnds(j) PROVE ExclusionInv'
  BY <1>29 DEF HelperEnds, ChildGoto, ReleaseLock, Orphaned, Terminal,
     Holding, Owning, Alive
<1>30. ASSUME NEW j \in JobIds, Download(j) PROVE ExclusionInv'
  <2>1. SetPhase(j, "working")
    BY <1>30 DEF Download
  <2>2. RowsKeep
    BY <2>1, SetPhaseKeeps
  <2>3. QED
    BY <1>30, <2>2 DEF RowsKeep, Download, ChildGoto, Alive
<1>31. ASSUME NEW j \in JobIds, Acquired(j) PROVE ExclusionInv'
  <2>1. SetPhase(j, "working")
    BY <1>31 DEF Acquired
  <2>2. RowsKeep
    BY <2>1, SetPhaseKeeps
  <2>3. QED
    BY <1>31, <2>2 DEF RowsKeep, Acquired, ChildGoto, Alive
<1>32. ASSUME NEW j \in JobIds, ReportProgress(j) PROVE ExclusionInv'
  <2>1. SetPhase(j, "working")
    BY <1>32 DEF ReportProgress
  <2>2. RowsKeep
    BY <2>1, SetPhaseKeeps
  <2>3. QED
    BY <1>32, <2>2 DEF RowsKeep, ReportProgress, ChildGoto, Alive
<1>33. ASSUME NEW j \in JobIds, ReportFinished(j) PROVE ExclusionInv'
  <2>1. SetPhase(j, "completed")
    BY <1>33 DEF ReportFinished
  <2>2. RowsKeep
    BY <2>1, SetPhaseKeeps
  <2>3. QED
    BY <1>33, <2>2 DEF RowsKeep, ReportFinished, ChildGoto, Alive
<1>34. ASSUME NEW j \in JobIds, WriteVerdict(j) PROVE ExclusionInv'
  <2>1. SetStatus(j, verdict[j], verdict[j])
    BY <1>34 DEF WriteVerdict
  <2>2. RowsKeep
    <3>1. verdict[j] \in Terminal /\ verdict[j] \in Phases \ {"interrupted"}
      BY DEF Terminal
    <3>2. QED  BY <2>1, <3>1, SetStatusKeeps
  <2>3. QED
    BY <1>34, <2>2 DEF RowsKeep, WriteVerdict, ChildGoto, Alive
<1>35. ASSUME NEW j \in JobIds, KillChild(j) PROVE ExclusionInv'
  BY <1>35 DEF KillChild, ReleaseLock, Orphaned, Holding, Owning, Alive
<1>36. ASSUME NEW w \in Procs, CrashSupervisor(w) PROVE ExclusionInv'
  BY <1>36 DEF CrashSupervisor, Holding, Owning, Alive
<1>37. ASSUME Restart PROVE ExclusionInv'
  BY <1>37 DEF Restart, HostRestart, Holding, Owning, Alive
<1>38. ASSUME UNCHANGED vars PROVE ExclusionInv'
  BY <1>38 DEF vars, workerVars
<1>39. QED
  BY <1>1, <1>2, <1>3, <1>4, <1>5, <1>6, <1>7, <1>8, <1>9, <1>10, <1>11,
     <1>12, <1>13, <1>14, <1>15, <1>16, <1>17, <1>18, <1>19, <1>20, <1>21,
     <1>22, <1>23, <1>24, <1>25, <1>26, <1>27, <1>28, <1>29, <1>30, <1>31,
     <1>32, <1>33, <1>34, <1>35, <1>36, <1>37, <1>38
     DEF Next, CreateJob, SupervisorStep, ChildStep, WorkerFault

-----------------------------------------------------------------------------
(***************************************************************************)
(* A row says completed only over a completed manifest.  Only the child    *)
(* ever writes completed.                                                  *)
(***************************************************************************)
NoneCompleted ==
  \A k \in JobIds : jobs'[k].status = "completed" => jobs[k].status = "completed"

(***************************************************************************)
(* A status other than completed completes no row.                         *)
(***************************************************************************)
LEMMA SetStatusNoneCompleted ==
  ASSUME jobs \in [JobIds -> Row], NEW j, NEW s \in Statuses \ {"completed"},
         NEW p \in Phases, SetStatus(j, s, p)
  PROVE  NoneCompleted
  BY SetStatusEffect DEF NoneCompleted

(***************************************************************************)
(* The cancel handler completes no row.                                    *)
(***************************************************************************)
LEMMA CancelWriteNoneCompleted ==
  ASSUME TypeOK, NEW h \in Handlers, CancelWrite(h)
  PROVE  NoneCompleted
<1> DEFINE j == request[h].job
<1> USE DEF TypeOK, WorkerTypeOK
<1>1. CASE request[h].status = "queued"
  <2>1. RequestCancel(j, "cancelled", "cancelled")
    BY <1>1 DEF CancelWrite
  <2>2. "cancelled" \in Statuses /\ "cancelled" \in Phases
    BY Constants
  <2>3. \A k \in JobIds : jobs'[k].status = IF k = j THEN "cancelled" ELSE jobs[k].status
    BY <2>1, <2>2, RequestCancelEffect
  <2>4. QED  BY <2>3 DEF NoneCompleted
<1>2. CASE request[h].status = "running"
  <2>1. RequestCancel(j, jobs[j].status, "cancelling")
    BY <1>2 DEF CancelWrite
  <2>2. QED  BY <2>1 DEF RequestCancel, Row, NoneCompleted
<1>3. CASE request[h].status \notin {"queued", "running"}
  BY <1>3 DEF CancelWrite, NoneCompleted
<1>4. QED  BY <1>1, <1>2, <1>3

(***************************************************************************)
(* A job is completed only by a child that has seen its own manifest       *)
(* written.                                                                *)
(***************************************************************************)
LEMMA NextWholeInv == TypeInv /\ ExclusionInv /\ WholeInv /\ [Next]_vars => WholeInv'
<1> SUFFICES ASSUME TypeInv, ExclusionInv, WholeInv, [Next]_vars PROVE WholeInv'
  OBVIOUS
<1> USE Constants DEF TypeInv, WorksOnJob, Working, Owning, TypeOK, WorkerTypeOK,
      supervisorVars, childVars, WholeInv
<1>1. ASSUME NEW o \in Owners, NEW r \in RequestIDs, NEW j \in JobIds,
            Create(o, r, j), UNCHANGED <<supervisorVars, childVars>>
     PROVE  WholeInv'
  <2>1. NoneCompleted
    BY <1>1, CreateEffect DEF NoneCompleted
  <2>2. QED  BY <1>1, <2>1 DEF NoneCompleted
<1>2. ASSUME NEW h \in Handlers, NEW j \in JobIds, CancelRead(h, j) PROVE WholeInv'
  BY <1>2 DEF CancelRead, workerVars
<1>3. ASSUME NEW h \in Handlers, CancelWrite(h) PROVE WholeInv'
  BY <1>3, CancelWriteNoneCompleted DEF CancelWrite, NoneCompleted
<1>4. ASSUME NEW w \in Procs, Probe(w) PROVE WholeInv'
  BY <1>4 DEF Probe, Goto
<1>5. ASSUME NEW w \in Procs, Spawn(w) PROVE WholeInv'
  BY <1>5 DEF Spawn, Goto
<1>6. ASSUME NEW w \in Procs, TakeLock(w) PROVE WholeInv'
  BY <1>6 DEF TakeLock, Goto
<1>7. ASSUME NEW w \in Procs, LoseLock(w) PROVE WholeInv'
  BY <1>7 DEF LoseLock, Goto
<1>8. ASSUME NEW w \in Procs, ReadInterrupted(w) PROVE WholeInv'
  BY <1>8 DEF ReadInterrupted, Goto
<1>9. ASSUME NEW w \in Procs, RecoveryDone(w) PROVE WholeInv'
  BY <1>9 DEF RecoveryDone, Goto
<1>10. ASSUME NEW w \in Procs, Launch(w) PROVE WholeInv'
  BY <1>10 DEF Launch, Goto, ExclusionInv, ClaimFresh
<1>11. ASSUME NEW w \in Procs, Poll(w) PROVE WholeInv'
  BY <1>11 DEF Poll, Goto
<1>12. ASSUME NEW w \in Procs, KeepPolling(w) PROVE WholeInv'
  BY <1>12 DEF KeepPolling, Goto
<1>13. ASSUME NEW w \in Procs, KillGroup(w) PROVE WholeInv'
  BY <1>13 DEF KillGroup, Goto, ExclusionInv, ClaimFresh
<1>14. ASSUME NEW w \in Procs, ChildGone(w) PROVE WholeInv'
  BY <1>14 DEF ChildGone, Goto
<1>15. ASSUME NEW w \in Procs, Reap(w) PROVE WholeInv'
  BY <1>15 DEF Reap, Goto
<1>16. ASSUME NEW w \in Procs, ReadSettled(w) PROVE WholeInv'
  BY <1>16 DEF ReadSettled, Goto
<1>17. ASSUME NEW w \in Procs, SweepSource(w) PROVE WholeInv'
  BY <1>17 DEF SweepSource, Goto
<1>18. ASSUME NEW w \in Procs, MarkInterrupted(w) PROVE WholeInv'
  <2>1. PICK k \in todo[w] : SetStatus(k, "failed", "interrupted")
    BY <1>18 DEF MarkInterrupted
  <2>2. NoneCompleted
    BY <2>1, SetStatusNoneCompleted
  <2>3. QED
    BY <1>18, <2>2 DEF NoneCompleted, MarkInterrupted
<1>19. ASSUME NEW w \in Procs, Claim(w) PROVE WholeInv'
  <2>1. PICK k \in JobIds : /\ SetStatus(k, "running", "working")
                            /\ cur' = [cur EXCEPT ![w] = k]
                            /\ jobs[k].status = "queued"
    BY <1>19 DEF Claim, ClaimRow
  <2>2. NoneCompleted
    BY <2>1, SetStatusNoneCompleted
  <2>3. QED
    BY <1>19, <2>2 DEF NoneCompleted, Claim
<1>20. ASSUME NEW w \in Procs, RefuseClaim(w) PROVE WholeInv'
  <2>1. SetStatus(cur[w], "failed", "stopped")
    BY <1>20 DEF RefuseClaim
  <2>2. NoneCompleted
    BY <2>1, SetStatusNoneCompleted
  <2>3. QED
    BY <1>20, <2>2 DEF NoneCompleted, RefuseClaim
<1>21. ASSUME NEW w \in Procs, MarkStopped(w) PROVE WholeInv'
  <2>1. SetStatus(cur[w], "cancelled", "cancelled") \/ SetStatus(cur[w], "failed", "stopped")
    BY <1>21 DEF MarkStopped
  <2>2. NoneCompleted
    BY <2>1, SetStatusNoneCompleted
  <2>3. QED
    BY <1>21, <2>2 DEF NoneCompleted, MarkStopped
<1>22. ASSUME NEW w \in Procs, MarkUnreported(w) PROVE WholeInv'
  <2>1. SetStatus(cur[w], "failed", "failed")
    BY <1>22 DEF MarkUnreported
  <2>2. NoneCompleted
    BY <2>1, SetStatusNoneCompleted
  <2>3. QED
    BY <1>22, <2>2 DEF NoneCompleted, MarkUnreported
<1>23. ASSUME NEW j \in JobIds, FinishArtifacts(j) PROVE WholeInv'
  BY <1>23 DEF FinishArtifacts, ChildGoto, ReleaseLock, Live, Alive,
     Terminal
<1>24. ASSUME NEW j \in JobIds, CheckCancelled(j) PROVE WholeInv'
  BY <1>24 DEF CheckCancelled, ChildGoto, ReleaseLock, Live, Alive, Terminal
<1>25. ASSUME NEW j \in JobIds, Raise(j) PROVE WholeInv'
  BY <1>25 DEF Raise, ChildGoto, ReleaseLock, Live, Alive, Terminal
<1>26. ASSUME NEW j \in JobIds, JudgeError(j) PROVE WholeInv'
  BY <1>26 DEF JudgeError, ChildGoto, ReleaseLock, Live, Alive, Terminal
<1>27. ASSUME NEW j \in JobIds, Exit(j) PROVE WholeInv'
  BY <1>27 DEF Exit, ChildGoto, ReleaseLock, Live, Alive, Terminal
<1>28. ASSUME NEW j \in JobIds, ParentDeathGuard(j) PROVE WholeInv'
  BY <1>28 DEF ParentDeathGuard, ChildGoto, ReleaseLock, Live, Alive,
     Terminal
<1>29. ASSUME NEW j \in JobIds, HelperEnds(j) PROVE WholeInv'
  BY <1>29 DEF HelperEnds, ChildGoto, ReleaseLock, Live, Alive, Terminal
<1>30. ASSUME NEW j \in JobIds, Download(j) PROVE WholeInv'
  <2>1. SetPhase(j, "working")
    BY <1>30 DEF Download
  <2>2. NoneCompleted
    BY <2>1, SetPhaseEffect DEF NoneCompleted
  <2>3. QED
    BY <1>30, <2>2 DEF NoneCompleted, Download, ChildGoto
<1>31. ASSUME NEW j \in JobIds, Acquired(j) PROVE WholeInv'
  <2>1. SetPhase(j, "working")
    BY <1>31 DEF Acquired
  <2>2. NoneCompleted
    BY <2>1, SetPhaseEffect DEF NoneCompleted
  <2>3. QED
    BY <1>31, <2>2 DEF NoneCompleted, Acquired, ChildGoto
<1>32. ASSUME NEW j \in JobIds, ReportProgress(j) PROVE WholeInv'
  <2>1. SetPhase(j, "working")
    BY <1>32 DEF ReportProgress
  <2>2. NoneCompleted
    BY <2>1, SetPhaseEffect DEF NoneCompleted
  <2>3. QED
    BY <1>32, <2>2 DEF NoneCompleted, ReportProgress, ChildGoto
<1>33. ASSUME NEW j \in JobIds, ReportFinished(j) PROVE WholeInv'
  <2>1. SetPhase(j, "completed")
    BY <1>33 DEF ReportFinished
  <2>2. NoneCompleted
    BY <2>1, SetPhaseEffect DEF NoneCompleted
  <2>3. QED
    BY <1>33, <2>2 DEF NoneCompleted, ReportFinished, ChildGoto
<1>34. ASSUME NEW j \in JobIds, WriteVerdict(j) PROVE WholeInv'
  <2>1. verdict[j] \in Statuses /\ verdict[j] \in Phases /\ SetStatus(j, verdict[j], verdict[j])
    BY <1>34 DEF WriteVerdict, Terminal
  <2>2. \A k \in JobIds : jobs'[k].status = IF k = j THEN verdict[j] ELSE jobs[k].status
    BY <2>1, SetStatusEffect
  <2>3. QED
    BY <1>34, <2>2 DEF WriteVerdict, ChildGoto
<1>35. ASSUME NEW j \in JobIds, KillChild(j) PROVE WholeInv'
  BY <1>35 DEF KillChild, ReleaseLock, Live, Alive
<1>36. ASSUME NEW w \in Procs, CrashSupervisor(w) PROVE WholeInv'
  BY <1>36 DEF CrashSupervisor
<1>37. ASSUME Restart PROVE WholeInv'
  BY <1>37 DEF Restart, HostRestart, Live, Alive
<1>38. ASSUME UNCHANGED vars PROVE WholeInv'
  BY <1>38 DEF vars, workerVars
<1>39. QED
  BY <1>1, <1>2, <1>3, <1>4, <1>5, <1>6, <1>7, <1>8, <1>9, <1>10, <1>11,
     <1>12, <1>13, <1>14, <1>15, <1>16, <1>17, <1>18, <1>19, <1>20, <1>21,
     <1>22, <1>23, <1>24, <1>25, <1>26, <1>27, <1>28, <1>29, <1>30, <1>31,
     <1>32, <1>33, <1>34, <1>35, <1>36, <1>37, <1>38
     DEF Next, CreateJob, SupervisorStep, ChildStep, WorkerFault

-----------------------------------------------------------------------------
(***************************************************************************)
(* Both invariants hold before anything has run.                           *)
(***************************************************************************)
LEMMA InitInvs == Init => ExclusionInv /\ WholeInv
<1> SUFFICES ASSUME Init PROVE ExclusionInv /\ WholeInv
  OBVIOUS
<1> USE DEF Init, WorkerInit
<1>1. LockHeld /\ ClaimFresh
  BY DEF LockHeld, ClaimFresh, Holding, Owning, Working
<1>2. ChildOwned /\ NeverStarted /\ NotInterrupted
  BY DEF ChildOwned, NeverStarted, NotInterrupted, LiveJobs, Live, Alive
<1>3. WholeInv
  BY DEF WholeInv, JobStoreInit, NoRow
<1>4. QED  BY <1>1, <1>2, <1>3 DEF ExclusionInv

(***************************************************************************)
(* The inductive invariant behind every theorem below.                     *)
(***************************************************************************)
THEOREM Invariance == Spec => [](TypeInv /\ ExclusionInv /\ WholeInv)
  BY InitTypeInv, InitInvs, NextTypeInv, NextExclusionInv, NextWholeInv, PTL DEF Spec

(***************************************************************************)
(* At most one extraction process is alive, across crashes, kills,         *)
(* restarts and competing supervisors: two live children have owners that  *)
(* both hold the one lock.                                                 *)
(***************************************************************************)
THEOREM AtMostOneExtraction == Spec => []OneExtraction
<1>1. TypeInv /\ ExclusionInv => OneExtraction
  <2> SUFFICES ASSUME TypeInv, ExclusionInv, NEW j \in LiveJobs, NEW k \in LiveJobs
               PROVE  j = k
    BY DEF OneExtraction
  <2>1. PICK v \in Procs : cur[v] = j /\ pc[v] \in {"polling", "deciding", "crashed"}
    BY DEF ExclusionInv, ChildOwned
  <2>2. PICK w \in Procs : cur[w] = k /\ pc[w] \in {"polling", "deciding", "crashed"}
    BY DEF ExclusionInv, ChildOwned
  <2>3. v = w
    BY <2>1, <2>2 DEF ExclusionInv, LockHeld, Holding, Owning
  <2>4. QED  BY <2>1, <2>2, <2>3
<1>2. QED  BY <1>1, Invariance, PTL

(***************************************************************************)
(* Recovery never interrupts a live worker: no extraction process lives    *)
(* while a supervisor recovers, and none lives behind an interrupted row.  *)
(***************************************************************************)
THEOREM RecoverySparesTheLiving == Spec => []RecoveryFindsNoWorker
<1>1. TypeInv /\ ExclusionInv => RecoveryFindsNoWorker
  <2> SUFFICES ASSUME TypeInv, ExclusionInv PROVE RecoveryFindsNoWorker
    OBVIOUS
  <2>1. ASSUME NEW w \in Procs, pc[w] \in {"recover", "recovering"}, NEW j \in LiveJobs
        PROVE  FALSE
    <3>1. PICK v \in Procs : cur[v] = j /\ pc[v] \in {"polling", "deciding", "crashed"}
      BY DEF ExclusionInv, ChildOwned
    <3>2. v = w
      BY <2>1, <3>1 DEF ExclusionInv, LockHeld, Holding, Owning
    <3>3. QED  BY <2>1, <3>1, <3>2
  <2>2. QED  BY <2>1 DEF RecoveryFindsNoWorker, ExclusionInv, NotInterrupted
<1>2. QED  BY <1>1, Invariance, PTL

(***************************************************************************)
(* Completed is only ever recorded over a complete set of exports.         *)
(***************************************************************************)
THEOREM CompletedMeansWhole == Spec => []CompletedIsWhole
<1>1. WholeInv => CompletedIsWhole
  BY DEF WholeInv, CompletedIsWhole
<1>2. QED  BY <1>1, Invariance, PTL

-----------------------------------------------------------------------------
(***************************************************************************)
(* The process group of a job is gone before the next claim and before the *)
(* supervisor writes, the worker implements the queue of ExtractionQueue,  *)
(* and the table stays within the bounds it admits by.                     *)
(***************************************************************************)

(***************************************************************************)
(* A process past taking the lock is the only one; so a live child is its  *)
(* own, and it is at one of the points where it has one.                   *)
(***************************************************************************)
LEMMA HolderOwns ==
  ASSUME ExclusionInv, NEW w \in Procs, pc[w] \in Holding, NEW j \in JobIds, Live(j)
  PROVE  cur[w] = j /\ pc[w] \in {"polling", "deciding", "crashed"}
<1>1. PICK v \in Procs : cur[v] = j /\ pc[v] \in {"polling", "deciding", "crashed"}
  BY DEF ExclusionInv, ChildOwned, LiveJobs
<1>2. v = w
  BY <1>1 DEF ExclusionInv, LockHeld, Holding, Owning
<1>3. QED  BY <1>1, <1>2

-----------------------------------------------------------------------------
(***************************************************************************)
(* Where an FFmpeg process may be: in the job of a child that downloads,   *)
(* or left behind by a child killed alone.  In the second case the         *)
(* supervisor that spawned the child is still to clean up, or it has       *)
(* crashed as well, which makes two faults.                                *)
(***************************************************************************)
HelperPlaced == \A j \in JobIds : helper[j] => child[j] \in {"downloading", "exited"}

CrashCounted == \A w \in Procs : pc[w] = "crashed" => faults >= 1

HelperWatched ==
  \A j \in JobIds : helper[j] /\ child[j] = "exited" =>
    \/ faults >= 2
    \/ faults >= 1 /\ \E w \in Procs : cur[w] = j /\ pc[w] \in {"polling", "deciding", "reaped"}

GroupReaped ==
  \A w \in Procs : pc[w] \in {"marking", "settling", "failing", "sweeping"} => ~helper[cur[w]]

HelperInv == HelperPlaced /\ CrashCounted /\ HelperWatched /\ GroupReaped

(***************************************************************************)
(* A helper starts under a live child, so under the supervisor that holds  *)
(* the lock; whatever ends the child ends it, but for a kill of the child  *)
(* alone, which is a fault.                                                *)
(***************************************************************************)
LEMMA NextHelperInv == TypeInv /\ ExclusionInv /\ HelperInv /\ [Next]_vars => HelperInv'
<1> SUFFICES ASSUME TypeInv, ExclusionInv, HelperInv, [Next]_vars PROVE HelperInv'
  OBVIOUS
<1> USE Constants DEF TypeInv, WorksOnJob, Working, Owning, TypeOK, WorkerTypeOK,
      supervisorVars, childVars, HelperInv, HelperPlaced, CrashCounted, HelperWatched, GroupReaped
<1>1. ASSUME CreateJob PROVE HelperInv'
  BY <1>1 DEF CreateJob
<1>2. ASSUME NEW h \in Handlers, NEW j \in JobIds, CancelRead(h, j) PROVE HelperInv'
  BY <1>2 DEF CancelRead, workerVars
<1>3. ASSUME NEW h \in Handlers, CancelWrite(h) PROVE HelperInv'
  BY <1>3 DEF CancelWrite
<1>4. ASSUME NEW w \in Procs, Probe(w) PROVE HelperInv'
  BY <1>4 DEF Probe, Goto
<1>5. ASSUME NEW w \in Procs, Spawn(w) PROVE HelperInv'
  BY <1>5 DEF Spawn, Goto
<1>6. ASSUME NEW w \in Procs, TakeLock(w) PROVE HelperInv'
  BY <1>6 DEF TakeLock, Goto
<1>7. ASSUME NEW w \in Procs, LoseLock(w) PROVE HelperInv'
  BY <1>7 DEF LoseLock, Goto
<1>8. ASSUME NEW w \in Procs, ReadInterrupted(w) PROVE HelperInv'
  BY <1>8 DEF ReadInterrupted, Goto
<1>9. ASSUME NEW w \in Procs, MarkInterrupted(w) PROVE HelperInv'
  BY <1>9 DEF MarkInterrupted, Goto
<1>10. ASSUME NEW w \in Procs, RecoveryDone(w) PROVE HelperInv'
  BY <1>10 DEF RecoveryDone, Goto
<1>11. ASSUME NEW w \in Procs, Claim(w) PROVE HelperInv'
  BY <1>11 DEF Claim, Goto
<1>12. ASSUME NEW w \in Procs, RefuseClaim(w) PROVE HelperInv'
  BY <1>12 DEF RefuseClaim, Goto
<1>13. ASSUME NEW w \in Procs, Poll(w) PROVE HelperInv'
  BY <1>13 DEF Poll, Goto
<1>14. ASSUME NEW w \in Procs, KeepPolling(w) PROVE HelperInv'
  BY <1>14 DEF KeepPolling, Goto
<1>15. ASSUME NEW w \in Procs, MarkStopped(w) PROVE HelperInv'
  BY <1>15 DEF MarkStopped, Goto
<1>16. ASSUME NEW w \in Procs, ChildGone(w) PROVE HelperInv'
  BY <1>16 DEF ChildGone, Goto
<1>17. ASSUME NEW w \in Procs, Reap(w) PROVE HelperInv'
  BY <1>17 DEF Reap, Goto
<1>18. ASSUME NEW w \in Procs, ReadSettled(w) PROVE HelperInv'
  BY <1>18 DEF ReadSettled, Goto
<1>19. ASSUME NEW w \in Procs, MarkUnreported(w) PROVE HelperInv'
  BY <1>19 DEF MarkUnreported, Goto
<1>20. ASSUME NEW w \in Procs, SweepSource(w) PROVE HelperInv'
  BY <1>20 DEF SweepSource, Goto
<1>21. ASSUME NEW w \in Procs, KillGroup(w) PROVE HelperInv'
  BY <1>21 DEF KillGroup, Goto
<1>22. ASSUME NEW w \in Procs, Launch(w) PROVE HelperInv'
  BY <1>22 DEF Launch, Goto, ExclusionInv, ClaimFresh
<1>23. ASSUME NEW j \in JobIds, FinishArtifacts(j) PROVE HelperInv'
  BY <1>23 DEF FinishArtifacts, ChildGoto, Live, Alive
<1>24. ASSUME NEW j \in JobIds, CheckCancelled(j) PROVE HelperInv'
  BY <1>24 DEF CheckCancelled, ChildGoto, Live, Alive
<1>25. ASSUME NEW j \in JobIds, Raise(j) PROVE HelperInv'
  BY <1>25 DEF Raise, ChildGoto, Live, Alive
<1>26. ASSUME NEW j \in JobIds, JudgeError(j) PROVE HelperInv'
  BY <1>26 DEF JudgeError, ChildGoto, Live, Alive
<1>27. ASSUME NEW j \in JobIds, Acquired(j) PROVE HelperInv'
  BY <1>27 DEF Acquired, ChildGoto, Live, Alive
<1>28. ASSUME NEW j \in JobIds, ReportProgress(j) PROVE HelperInv'
  BY <1>28 DEF ReportProgress, ChildGoto, Live, Alive
<1>29. ASSUME NEW j \in JobIds, ReportFinished(j) PROVE HelperInv'
  BY <1>29 DEF ReportFinished, ChildGoto, Live, Alive
<1>30. ASSUME NEW j \in JobIds, WriteVerdict(j) PROVE HelperInv'
  BY <1>30 DEF WriteVerdict, ChildGoto, Live, Alive
<1>31. ASSUME NEW j \in JobIds, HelperEnds(j) PROVE HelperInv'
  BY <1>31 DEF HelperEnds, ChildGoto, Live, Alive
<1>32. ASSUME NEW j \in JobIds, Exit(j) PROVE HelperInv'
  BY <1>32 DEF Exit, ChildGoto, ReleaseLock, Orphaned
<1>33. ASSUME NEW j \in JobIds, ParentDeathGuard(j) PROVE HelperInv'
  BY <1>33 DEF ParentDeathGuard, ChildGoto, ReleaseLock, Orphaned
<1>34. ASSUME NEW j \in JobIds, Download(j) PROVE HelperInv'
  BY <1>34, HolderOwns DEF Download, ChildGoto, Live, Alive, Holding
<1>35. ASSUME NEW j \in JobIds, KillChild(j) PROVE HelperInv'
  <2>1. /\ child' = [child EXCEPT ![j] = "exited"] /\ Live(j) /\ faults' = faults + 1
        /\ UNCHANGED helper
        /\ \A w \in Procs : pc[w] # "crashed" => pc'[w] = pc[w] /\ cur'[w] = cur[w]
        /\ \A w \in Procs : pc'[w] \in {pc[w], "off"}
    BY <1>35 DEF KillChild, Fault, ReleaseLock, Orphaned
  <2>2. PICK v \in Procs : cur[v] = j /\ pc[v] \in {"polling", "deciding", "crashed"}
    BY <2>1 DEF ExclusionInv, ChildOwned, LiveJobs
  <2>3. HelperPlaced' /\ CrashCounted'
    BY <2>1
  <2>4. HelperWatched'
    <3>1. CASE pc[v] = "crashed"
      BY <2>1, <2>2, <3>1
    <3>2. CASE pc[v] \in {"polling", "deciding"}
      BY <2>1, <2>2, <3>2
    <3>3. QED  BY <2>2, <3>1, <3>2
  <2>5. GroupReaped'
    BY <2>1
  <2>6. QED  BY <2>3, <2>4, <2>5
<1>36. ASSUME NEW w \in Procs, CrashSupervisor(w) PROVE HelperInv'
  BY <1>36 DEF CrashSupervisor, Fault
<1>37. ASSUME Restart PROVE HelperInv'
  BY <1>37 DEF Restart, HostRestart, Fault
<1>38. ASSUME UNCHANGED vars PROVE HelperInv'
  BY <1>38 DEF vars, workerVars
<1>39. QED
  BY <1>1, <1>2, <1>3, <1>4, <1>5, <1>6, <1>7, <1>8, <1>9, <1>10, <1>11,
     <1>12, <1>13, <1>14, <1>15, <1>16, <1>17, <1>18, <1>19, <1>20, <1>21,
     <1>22, <1>23, <1>24, <1>25, <1>26, <1>27, <1>28, <1>29, <1>30, <1>31,
     <1>32, <1>33, <1>34, <1>35, <1>36, <1>37, <1>38
     DEF Next, SupervisorStep, ChildStep, WorkerFault

\* HelperInv holds before anything was launched.
LEMMA InitHelperInv == Init => HelperInv
  BY DEF Init, WorkerInit, HelperInv, HelperPlaced, CrashCounted, HelperWatched, GroupReaped

\* HelperInv, who still watches the FFmpeg of each job, is inductive on top of
\* the types and ExclusionInv.
THEOREM HelperInvariance == Spec => [](TypeInv /\ ExclusionInv /\ HelperInv)
<1>1. Init => TypeInv /\ ExclusionInv /\ HelperInv
  BY InitTypeInv, InitInvs, InitHelperInv
<1>2. TypeInv /\ ExclusionInv /\ HelperInv /\ [Next]_vars => (TypeInv /\ ExclusionInv /\ HelperInv)'
  BY NextTypeInv, NextExclusionInv, NextHelperInv
<1>3. QED  BY <1>1, <1>2, PTL DEF Spec

(***************************************************************************)
(* cleanup_job_group: while a supervisor looks for work, no FFmpeg process *)
(* of an earlier job is alive, unless its child was killed alone and the   *)
(* supervisor that would have cleaned up crashed before it did.            *)
(***************************************************************************)
THEOREM GroupGone == Spec => []GroupGoneBeforeClaim
<1>1. ASSUME TypeInv, ExclusionInv, HelperInv, NEW w \in Procs, pc[w] = "idle",
             NEW j \in JobIds, helper[j]
      PROVE  faults >= 2
  <2>1. w \in Procs /\ pc[w] \in Holding
    BY <1>1 DEF Holding, Owning
  <2>2. child[j] # "downloading"
    BY <1>1, <2>1, HolderOwns DEF Live, Alive
  <2>3. child[j] = "exited"
    BY <1>1, <2>2 DEF HelperInv, HelperPlaced
  <2>4. ASSUME NEW v \in Procs, pc[v] \in {"polling", "deciding", "reaped"}
        PROVE  FALSE
    BY <1>1, <2>1, <2>4 DEF ExclusionInv, LockHeld, Holding, Owning
  <2>5. QED  BY <1>1, <2>3, <2>4 DEF HelperInv, HelperWatched
<1>2. TypeInv /\ ExclusionInv /\ HelperInv => GroupGoneBeforeClaim
  BY <1>1 DEF GroupGoneBeforeClaim
<1>3. QED  BY <1>2, HelperInvariance, PTL

(***************************************************************************)
(* "No terminal write before process wait" (supervise_child): when the     *)
(* supervisor writes a terminal status, neither the child nor its FFmpeg   *)
(* is alive to write after it.                                             *)
(***************************************************************************)
THEOREM WritesLast == Spec => SupervisorWritesLast
<1>1. ASSUME TypeInv, ExclusionInv, HelperInv, NEW w \in Procs, pc[w] \in {"marking", "failing"}
      PROVE  ~Live(cur[w]) /\ ~helper[cur[w]]
  <2>1. cur[w] \in JobIds /\ pc[w] \in Holding
    BY <1>1 DEF TypeInv, WorksOnJob, Working, Holding, Owning
  <2>2. ~Live(cur[w])
    BY <1>1, <2>1, HolderOwns
  <2>3. QED  BY <1>1, <2>2 DEF HelperInv, GroupReaped
<1>2. TypeInv /\ ExclusionInv /\ HelperInv /\ [Next]_vars =>
        [\A w \in Procs : pc[w] \in {"marking", "failing"} /\ pc'[w] # pc[w]
           => ~Live(cur[w]) /\ ~helper[cur[w]]]_vars
  BY <1>1
<1>3. QED  BY <1>2, HelperInvariance, PTL DEF Spec, SupervisorWritesLast

-----------------------------------------------------------------------------
(***************************************************************************)
(* The refinement of ExtractionQueue: its statuses are those of the rows,  *)
(* its executing jobs those with a live child.                             *)
(***************************************************************************)
Recorded == [j \in JobIds |-> jobs[j].status]

QueueStep == Queue!Next \/ UNCHANGED <<Recorded, LiveJobs>>

\* What a handler has read and what a recovering supervisor has listed was
\* there, and no writer takes it away: rows are not deleted, nor requeued.
ReadsExist ==
  \A h \in Handlers : request[h] # Idle => request[h].job \in JobIds /\ Exists(request[h].job)

TodoStarted ==
  \A w \in Procs : \A j \in todo[w] : jobs[j].status \notin {"absent", "queued"}

ReadInv == ReadsExist /\ TodoStarted

(***************************************************************************)
(* At most one job executes, and none while a supervisor is between jobs.  *)
(***************************************************************************)
LEMMA AloneAlive ==
  ASSUME ExclusionInv, NEW j \in JobIds, Live(j)
  PROVE  LiveJobs = {j}
<1>1. PICK v \in Procs : cur[v] = j /\ pc[v] \in {"polling", "deciding", "crashed"}
  BY DEF ExclusionInv, ChildOwned, LiveJobs
<1>2. ASSUME NEW k \in LiveJobs
      PROVE  k = j
  BY <1>1, <1>2, HolderOwns DEF Holding, Owning, LiveJobs
<1>3. QED  BY <1>2 DEF LiveJobs

\* While a supervisor that polls no child holds the lock, no child is alive.
LEMMA NoneAlive ==
  ASSUME ExclusionInv, NEW w \in Procs, pc[w] \in Holding \ {"polling", "deciding", "crashed"}
  PROVE  LiveJobs = {}
BY HolderOwns DEF LiveJobs

(***************************************************************************)
(* The shapes of update, on the recorded statuses.                         *)
(***************************************************************************)
LEMMA SetStatusRecords ==
  ASSUME jobs \in [JobIds -> Row], NEW j \in JobIds, NEW s \in Statuses, NEW p \in Phases,
         SetStatus(j, s, p)
  PROVE  Recorded' = [Recorded EXCEPT ![j] = s]
<1>1. \A k \in JobIds : jobs'[k].status = IF k = j THEN s ELSE jobs[k].status
  BY SetStatusEffect
<1>2. QED  BY <1>1 DEF Recorded

\* A phase is no part of what is recorded.
LEMMA SetPhaseRecords ==
  ASSUME jobs \in [JobIds -> Row], NEW j, NEW p \in Phases, SetPhase(j, p)
  PROVE  Recorded' = Recorded
<1>1. \A k \in JobIds : jobs'[k].status = jobs[k].status
  BY SetPhaseEffect
<1>2. QED  BY <1>1 DEF Recorded

(***************************************************************************)
(* The steps of the queue, from what the worker does to the table and to   *)
(* the children.                                                           *)
(***************************************************************************)
LEMMA Abandons ==
  ASSUME NEW j \in JobIds, NEW s \in {"failed", "cancelled"}, jobs[j].status # "absent",
         jobs[j].status = "queued" => s = "cancelled",
         Recorded' = [Recorded EXCEPT ![j] = s], LiveJobs' = LiveJobs
  PROVE  QueueStep
<1>1. Recorded[j] # "absent" /\ (Recorded[j] = "queued" => s = "cancelled")
  BY DEF Recorded
<1>2. Queue!Abandon(j)
  BY <1>1 DEF Queue!Abandon, Recorded
<1>3. QED  BY <1>2 DEF QueueStep, Queue!Next, Queue!JobIds, JobIds

\* A row that is written as failed or cancelled is a step of the queue.
LEMMA AbandonsRow ==
  ASSUME jobs \in [JobIds -> Row], NEW j \in JobIds, NEW s \in {"failed", "cancelled"},
         NEW p \in Phases, SetStatus(j, s, p), jobs[j].status # "absent",
         jobs[j].status = "queued" => s = "cancelled", UNCHANGED child
  PROVE  QueueStep
<1>1. s \in Statuses
  BY Constants
<1>2. Recorded' = [Recorded EXCEPT ![j] = s]
  BY <1>1, SetStatusRecords
<1>3. LiveJobs' = LiveJobs
  BY DEF LiveJobs, Live
<1>4. QED  BY <1>2, <1>3, Abandons

\* The end of every live child is a step of the queue.
LEMMA Halts ==
  ASSUME Recorded' = Recorded, LiveJobs' = {}
  PROVE  QueueStep
<1>1. CASE LiveJobs = {}
  BY <1>1 DEF QueueStep
<1>2. CASE LiveJobs # {}
  <2>1. Queue!Halt
    BY <1>2 DEF Queue!Halt, Recorded
  <2>2. QED  BY <2>1 DEF QueueStep, Queue!Next
<1>3. QED  BY <1>1, <1>2

\* The queue counts as the table does.
LEMMA SameCount == \A S : Queue!Cardinality(S) = Cardinality(S)
  BY DEF Queue!Cardinality, Cardinality

(***************************************************************************)
(* create admits a job by the same count of active rows.                   *)
(***************************************************************************)
LEMMA CreateSubmits ==
  ASSUME TypeOK, CreateJob
  PROVE  QueueStep
<1>1. PICK o \in Owners, r \in RequestIDs, j \in JobIds : Create(o, r, j)
  BY DEF CreateJob
<1>2. /\ jobs[j].status = "absent" /\ \A k \in 1..(j - 1) : jobs[k].status # "absent"
      /\ Cardinality(ActiveJobs) < GlobalLimit
      /\ \A k \in JobIds : jobs'[k].status = IF k = j THEN "queued" ELSE jobs[k].status
  BY <1>1, CreateEffect DEF Create, IsNextId, Exists, TypeOK, WorkerTypeOK
<1>3. Recorded' = [Recorded EXCEPT ![j] = "queued"]
  BY <1>2 DEF Recorded
<1>4. LiveJobs' = LiveJobs
  BY DEF LiveJobs, Live, CreateJob, childVars
<1>5. {k \in Queue!JobIds : Recorded[k] \in Queue!Active} = ActiveJobs
  BY DEF Queue!JobIds, JobIds, Recorded, Queue!Active, ActiveJobs, Active
<1>6. \A k \in 1..(j - 1) : Recorded[k] # "absent"
  BY <1>2, StoreAssumption DEF Recorded, JobIds
<1>7. Cardinality({k \in Queue!JobIds : Recorded[k] \in Queue!Active}) < GlobalLimit
  BY <1>2, <1>5
<1>8. Recorded[j] = "absent"
  BY <1>2 DEF Recorded
<1>9. Queue!Submit(j)
  BY <1>3, <1>4, <1>6, <1>7, <1>8, SameCount DEF Queue!Submit, Recorded
<1>10. QED  BY <1>9 DEF QueueStep, Queue!Next, Queue!JobIds, JobIds

(***************************************************************************)
(* A write by the status that was read cancels a queued job, whatever has  *)
(* become of it, or leaves every status as it is.                          *)
(***************************************************************************)
LEMMA CancelAbandons ==
  ASSUME TypeOK, ReadsExist, NEW h \in Handlers, CancelWrite(h)
  PROVE  QueueStep
<1> DEFINE j == request[h].job
<1>1. j \in JobIds /\ jobs[j].status # "absent" /\ jobs \in [JobIds -> Row]
  BY DEF CancelWrite, ReadsExist, Exists, TypeOK, WorkerTypeOK
<1>2. LiveJobs' = LiveJobs
  BY DEF LiveJobs, Live, CancelWrite, childVars
<1>3. CASE request[h].status = "queued"
  <2>1. RequestCancel(j, "cancelled", "cancelled")
    BY <1>3 DEF CancelWrite
  <2>2. \A k \in JobIds : jobs'[k].status = IF k = j THEN "cancelled" ELSE jobs[k].status
    BY <1>1, <2>1, Constants, RequestCancelEffect
  <2>3. Recorded' = [Recorded EXCEPT ![j] = "cancelled"]
    BY <2>2 DEF Recorded
  <2>4. QED  BY <1>1, <1>2, <2>3, Abandons
<1>4. CASE request[h].status = "running"
  <2>1. RequestCancel(j, jobs[j].status, "cancelling")
    BY <1>4 DEF CancelWrite
  <2>2. jobs[j].status \in Statuses
    BY <1>1 DEF Row
  <2>3. \A k \in JobIds : jobs'[k].status = jobs[k].status
    BY <1>1, <2>1, <2>2, Constants, RequestCancelEffect
  <2>4. QED  BY <1>2, <2>3 DEF Recorded, QueueStep
<1>5. CASE request[h].status \notin {"queued", "running"}
  <2>1. jobs' = jobs
    BY <1>5 DEF CancelWrite
  <2>2. QED  BY <1>2, <2>1 DEF Recorded, QueueStep
<1>6. QED  BY <1>3, <1>4, <1>5

(***************************************************************************)
(* claim starts the oldest queued job while no child is alive; spawning    *)
(* its child makes it the executing one.                                   *)
(***************************************************************************)
LEMMA ClaimStarts ==
  ASSUME TypeInv, ExclusionInv, NEW w \in Procs, Claim(w)
  PROVE  QueueStep
<1>1. PICK j \in JobIds : ClaimRow(j)
  BY DEF Claim
<1>2. jobs[j].status = "queued" /\ \A k \in JobIds : jobs[k].status = "queued" => j <= k
  BY <1>1 DEF ClaimRow
<1>3. Recorded' = [Recorded EXCEPT ![j] = "running"]
  BY <1>1, Constants, SetStatusRecords DEF ClaimRow, TypeInv, TypeOK, WorkerTypeOK
<1>4. LiveJobs = {} /\ LiveJobs' = LiveJobs
  BY NoneAlive DEF Claim, Goto, Holding, Owning, LiveJobs, Live, childVars
<1>5. Queue!Start(j)
  BY <1>2, <1>3, <1>4 DEF Queue!Start, Queue!JobIds, JobIds, Recorded
<1>6. QED  BY <1>5 DEF QueueStep, Queue!Next, Queue!JobIds, JobIds

\* The launch of a child is a step of the queue: no other is alive.
LEMMA LaunchExecutes ==
  ASSUME TypeInv, ExclusionInv, NEW w \in Procs, Launch(w)
  PROVE  QueueStep
<1> DEFINE j == cur[w]
<1>1. /\ pc[w] = "claimed" /\ j \in JobIds /\ jobs[j].status \in Statuses \ {"absent", "queued"}
      /\ child' = [child EXCEPT ![j] = "acquiring"] /\ jobs' = jobs
      /\ child \in [JobIds -> ChildPoints]
  BY DEF Launch, Goto, TypeInv, WorksOnJob, Working, Owning, ExclusionInv, ClaimFresh, TypeOK,
         WorkerTypeOK, Row
<1>2. LiveJobs = {}
  BY <1>1, NoneAlive DEF Holding, Owning
<1>3. LiveJobs' = {j}
  BY <1>1, <1>2 DEF LiveJobs, Live, Alive
<1>4. Recorded[j] \in {"running"} \cup Queue!Terminal /\ Recorded' = Recorded
  BY <1>1 DEF Recorded, Statuses, Active, Terminal, Queue!Terminal
<1>5. Queue!Execute(j)
  BY <1>2, <1>3, <1>4 DEF Queue!Execute, Recorded
<1>6. QED  BY <1>1, <1>5 DEF QueueStep, Queue!Next, Queue!JobIds, JobIds

(***************************************************************************)
(* The only live child completes or abandons its own started job.          *)
(***************************************************************************)
LEMMA VerdictSettles ==
  ASSUME TypeInv, ExclusionInv, NEW j \in JobIds, WriteVerdict(j)
  PROVE  QueueStep
<1>1. /\ jobs \in [JobIds -> Row] /\ verdict[j] \in Terminal /\ child \in [JobIds -> ChildPoints]
      /\ child[j] = "writing" /\ child' = [child EXCEPT ![j] = "unlinking"]
      /\ SetStatus(j, verdict[j], verdict[j])
  BY DEF WriteVerdict, ChildGoto, TypeInv, TypeOK, WorkerTypeOK
<1>2. verdict[j] \in Statuses /\ verdict[j] \in Phases
  BY <1>1, Constants
<1>3. Recorded' = [Recorded EXCEPT ![j] = verdict[j]]
  BY <1>1, <1>2, SetStatusRecords
<1>4. LiveJobs = {j} /\ LiveJobs' = LiveJobs
  BY <1>1, AloneAlive DEF LiveJobs, Live, Alive
<1>5. jobs[j].status \in Statuses \ {"absent", "queued"}
  BY <1>1 DEF ExclusionInv, NeverStarted, Row
<1>6. CASE verdict[j] = "completed"
  <2>1. Recorded[j] \in {"running"} \cup Queue!Terminal
    BY <1>5 DEF Recorded, Statuses, Active, Terminal, Queue!Terminal
  <2>2. Queue!Complete(j)
    BY <1>3, <1>4, <1>6, <2>1 DEF Queue!Complete, Recorded
  <2>3. QED  BY <2>2 DEF QueueStep, Queue!Next, Queue!JobIds, JobIds
<1>7. CASE verdict[j] \in {"failed", "cancelled"}
  BY <1>3, <1>4, <1>5, <1>7, Abandons
<1>8. QED  BY <1>1, <1>6, <1>7 DEF Terminal

(***************************************************************************)
(* The remaining steps move no status and end or keep the executing child. *)
(***************************************************************************)
LEMMA QuietStep ==
  ASSUME jobs' = jobs, child' = child
  PROVE  QueueStep
BY DEF QueueStep, Recorded, LiveJobs, Live

\* A child that reports its phase makes no step of the queue.
LEMMA ReportStep ==
  ASSUME jobs \in [JobIds -> Row], child \in [JobIds -> ChildPoints], NEW j \in JobIds, NEW p \in Phases,
         SetPhase(j, p), NEW to \in Alive, Live(j), child' = [child EXCEPT ![j] = to]
  PROVE  QueueStep
<1>1. Recorded' = Recorded
  BY SetPhaseRecords
<1>2. LiveJobs' = LiveJobs
  BY DEF LiveJobs, Live
<1>3. QED  BY <1>1, <1>2 DEF QueueStep

\* A child that goes on makes no step of the queue.
LEMMA AdvanceStep ==
  ASSUME child \in [JobIds -> ChildPoints], NEW j \in JobIds, jobs' = jobs,
         NEW to \in Alive, Live(j), child' = [child EXCEPT ![j] = to]
  PROVE  QueueStep
<1>1. LiveJobs' = LiveJobs
  BY DEF LiveJobs, Live
<1>2. QED  BY <1>1 DEF QueueStep, Recorded

\* A child that exits was the only one.
LEMMA EndStep ==
  ASSUME ExclusionInv, child \in [JobIds -> ChildPoints], NEW j \in JobIds, jobs' = jobs,
         Live(j), child' = [child EXCEPT ![j] = "exited"]
  PROVE  QueueStep
<1>1. LiveJobs = {j}
  BY AloneAlive
<1>2. LiveJobs' = {}
  BY <1>1 DEF LiveJobs, Live, Alive
<1>3. QED  BY <1>2, Halts DEF Recorded

(***************************************************************************)
(* Every step of the subsystem is a step of the queue.                     *)
(***************************************************************************)
LEMMA NextQueueStep ==
  ASSUME TypeInv, ExclusionInv, ReadInv, [Next]_vars
  PROVE  QueueStep
<1>0. /\ jobs \in [JobIds -> Row] /\ child \in [JobIds -> ChildPoints] /\ TypeOK
      /\ \A w \in Procs : todo[w] \subseteq JobIds
      /\ \A w \in Procs : pc[w] \in Working => cur[w] \in JobIds /\ jobs[cur[w]].status \notin {"absent", "queued"}
  BY DEF TypeInv, TypeOK, WorkerTypeOK, WorksOnJob, ExclusionInv, ClaimFresh
<1>1. ASSUME CreateJob PROVE QueueStep
  BY <1>0, <1>1, CreateSubmits
<1>2. ASSUME NEW h \in Handlers, NEW j \in JobIds, CancelRead(h, j) PROVE QueueStep
  BY <1>2, QuietStep DEF CancelRead, workerVars
<1>3. ASSUME NEW h \in Handlers, CancelWrite(h) PROVE QueueStep
  BY <1>0, <1>3, CancelAbandons DEF ReadInv
<1>4. ASSUME NEW w \in Procs,
             \/ Probe(w) \/ Spawn(w) \/ TakeLock(w) \/ LoseLock(w) \/ ReadInterrupted(w)
             \/ RecoveryDone(w) \/ Poll(w) \/ KeepPolling(w) \/ ChildGone(w) \/ Reap(w)
             \/ ReadSettled(w) \/ SweepSource(w) \/ CrashSupervisor(w)
      PROVE  QueueStep
  BY <1>4, QuietStep
     DEF Probe, Spawn, TakeLock, LoseLock, ReadInterrupted, RecoveryDone, Poll, KeepPolling,
         ChildGone, Reap, ReadSettled, SweepSource, CrashSupervisor, childVars
<1>5. ASSUME NEW w \in Procs, MarkInterrupted(w) PROVE QueueStep
  <2>1. PICK j \in todo[w] : SetStatus(j, "failed", "interrupted")
    BY <1>5 DEF MarkInterrupted
  <2>2. j \in JobIds /\ jobs[j].status \notin {"absent", "queued"}
    BY <1>0 DEF ReadInv, TodoStarted
  <2>3. child' = child
    BY <1>5 DEF MarkInterrupted, childVars
  <2>4. QED  BY <1>0, <2>1, <2>2, <2>3, Constants, AbandonsRow
<1>6. ASSUME NEW w \in Procs, Claim(w) PROVE QueueStep
  BY <1>6, ClaimStarts
<1>7. ASSUME NEW w \in Procs, RefuseClaim(w) \/ MarkStopped(w) \/ MarkUnreported(w) PROVE QueueStep
  <2>1. pc[w] \in Working /\ child' = child
    BY <1>7 DEF RefuseClaim, MarkStopped, MarkUnreported, Goto, childVars, Working, Owning
  <2>2. \/ SetStatus(cur[w], "failed", "stopped")
        \/ SetStatus(cur[w], "cancelled", "cancelled")
        \/ SetStatus(cur[w], "failed", "failed")
    BY <1>7 DEF RefuseClaim, MarkStopped, MarkUnreported
  <2>3. QED  BY <1>0, <2>1, <2>2, Constants, AbandonsRow
<1>8. ASSUME NEW w \in Procs, Launch(w) PROVE QueueStep
  BY <1>8, LaunchExecutes
<1>9. ASSUME NEW w \in Procs, KillGroup(w) PROVE QueueStep
  <2>1. cur[w] \in JobIds /\ jobs' = jobs /\ child' = [child EXCEPT ![cur[w]] = "exited"]
    BY <1>0, <1>9 DEF KillGroup, Goto, Working, Owning
  <2>2. CASE Live(cur[w])
    BY <1>0, <2>1, <2>2, EndStep
  <2>3. CASE ~Live(cur[w])
    <3>1. LiveJobs' = LiveJobs
      BY <1>0, <2>1, <2>3 DEF LiveJobs, Live, Alive
    <3>2. QED  BY <2>1, <3>1 DEF QueueStep, Recorded
  <2>4. QED  BY <2>2, <2>3
<1>10. ASSUME NEW j \in JobIds, Download(j) \/ Acquired(j) \/ ReportFinished(j) PROVE QueueStep
  BY <1>0, <1>10, ReportStep, Constants
     DEF Download, Acquired, ReportFinished, ChildGoto, Live, Alive
<1>11. ASSUME NEW j \in JobIds, ReportProgress(j) PROVE QueueStep
  <2>1. SetPhase(j, "working") /\ child' = child
    BY <1>11 DEF ReportProgress, childVars
  <2>2. Recorded' = Recorded
    BY <1>0, <2>1, Constants, SetPhaseRecords
  <2>3. QED  BY <2>1, <2>2 DEF QueueStep, LiveJobs, Live
<1>12. ASSUME NEW j \in JobIds, FinishArtifacts(j) \/ CheckCancelled(j) \/ Raise(j) \/ JudgeError(j)
       PROVE  QueueStep
  BY <1>0, <1>12, AdvanceStep
     DEF FinishArtifacts, CheckCancelled, Raise, JudgeError, ChildGoto, Live, Alive
<1>13. ASSUME NEW j \in JobIds, WriteVerdict(j) PROVE QueueStep
  BY <1>13, VerdictSettles
<1>14. ASSUME NEW j \in JobIds, Exit(j) \/ ParentDeathGuard(j) \/ KillChild(j) PROVE QueueStep
  BY <1>0, <1>14, EndStep DEF Exit, ParentDeathGuard, KillChild, ChildGoto, Live, Alive
<1>15. ASSUME NEW j \in JobIds, HelperEnds(j) PROVE QueueStep
  BY <1>15, QuietStep DEF HelperEnds
<1>16. ASSUME Restart PROVE QueueStep
  <2>1. jobs' = jobs /\ child' = [j \in JobIds |-> IF Live(j) THEN "exited" ELSE child[j]]
    BY <1>16 DEF Restart, HostRestart
  <2>2. LiveJobs' = {}
    BY <1>0, <2>1 DEF LiveJobs, Live, Alive
  <2>3. QED  BY <2>1, <2>2, Halts DEF Recorded
<1>17. ASSUME UNCHANGED vars PROVE QueueStep
  BY <1>17, QuietStep DEF vars, workerVars
<1>18. QED
  BY <1>1, <1>2, <1>3, <1>4, <1>5, <1>6, <1>7, <1>8, <1>9, <1>10, <1>11, <1>12, <1>13, <1>14, <1>15,
     <1>16, <1>17 DEF Next, SupervisorStep, ChildStep, WorkerFault

(***************************************************************************)
(* The queue never forgets a job nor queues one again, so what was read    *)
(* of a row stays true.                                                    *)
(***************************************************************************)
LEMMA RowsStay ==
  ASSUME QueueStep, NEW k \in JobIds
  PROVE  /\ jobs[k].status # "absent" => jobs'[k].status # "absent"
         /\ jobs[k].status \notin {"absent", "queued"} => jobs'[k].status \notin {"absent", "queued"}
<1>1. Recorded[k] = jobs[k].status /\ Recorded'[k] = jobs'[k].status
  BY DEF Recorded
<1>2. \/ Recorded' = Recorded
      \/ \E j \in Queue!JobIds :
           \/ Recorded[j] = "absent" /\ Recorded' = [Recorded EXCEPT ![j] = "queued"]
           \/ Recorded[j] = "queued" /\ Recorded' = [Recorded EXCEPT ![j] = "running"]
           \/ \E s \in Terminal : Recorded' = [Recorded EXCEPT ![j] = s]
  BY DEF QueueStep, Queue!Next, Queue!Submit, Queue!Start, Queue!Execute, Queue!Complete,
         Queue!Abandon, Queue!Halt, Recorded, Terminal
<1>3. CASE Recorded' = Recorded
  BY <1>1, <1>3
<1>4. CASE Recorded' # Recorded
  <2>1. PICK j \in Queue!JobIds :
           \/ Recorded[j] = "absent" /\ Recorded' = [Recorded EXCEPT ![j] = "queued"]
           \/ Recorded[j] = "queued" /\ Recorded' = [Recorded EXCEPT ![j] = "running"]
           \/ \E s \in Terminal : Recorded' = [Recorded EXCEPT ![j] = s]
    BY <1>2, <1>4
  <2>2. \A t : Recorded' = [Recorded EXCEPT ![j] = t] => Recorded'[k] = IF k = j THEN t ELSE Recorded[k]
    BY DEF Recorded
  <2>3. QED  BY <1>1, <2>1, <2>2 DEF Terminal
<1>5. QED  BY <1>3, <1>4

\* The list of rows to mark as interrupted is read once and then only shrinks.
TodoStep ==
  \/ todo' = todo
  \/ \E v \in Procs : todo' = [todo EXCEPT ![v] = {k \in JobIds : jobs[k].status = "running"}]
  \/ \E v \in Procs : \E k \in todo[v] : todo' = [todo EXCEPT ![v] = @ \ {k}]
  \/ \E v \in Procs : todo' = [todo EXCEPT ![v] = {}]
  \/ todo' = [v \in Procs |-> {}]

\* Every step keeps ReadInv: rows do not go away.
LEMMA NextReadInv ==
  ASSUME TypeInv, ExclusionInv, ReadInv, [Next]_vars
  PROVE  ReadInv'
<1>1. QueueStep
  BY NextQueueStep
<1>2. /\ todo \in [Procs -> SUBSET JobIds] /\ request \in [Handlers -> [job : 0..MaxJobs, status : Statuses]]
      /\ \A k \in JobIds : Exists(k) => Exists(k)'
  BY <1>1, RowsStay DEF TypeInv, TypeOK, WorkerTypeOK, Exists
<1>3. ASSUME NEW h \in Handlers, request'[h] # Idle
      PROVE  request'[h].job \in JobIds /\ jobs'[request'[h].job].status # "absent"
  <2>1. \/ request' = request
        \/ \E g \in Handlers, j \in JobIds :
             Exists(j) /\ request' = [request EXCEPT ![g] = [job |-> j, status |-> jobs[j].status]]
        \/ \E g \in Handlers : request' = [request EXCEPT ![g] = Idle]
        \/ request' = [g \in Handlers |-> Idle]
    BY DEF Next, vars, CreateJob, CancelRead, CancelWrite, Restart
  <2>2. request'[h].job \in JobIds /\ Exists(request'[h].job)
    BY <2>1, <1>2, <1>3 DEF ReadInv, ReadsExist
  <2>3. QED  BY <2>2, <1>2 DEF Exists
<1>4. ASSUME NEW w \in Procs, NEW j \in todo'[w]
      PROVE  jobs'[j].status \notin {"absent", "queued"}
  <2>1. CASE todo'[w] \subseteq todo[w]
    BY <2>1, <1>1, <1>2, <1>4, RowsStay DEF ReadInv, TodoStarted
  <2>2. CASE todo'[w] = {k \in JobIds : jobs[k].status = "running"}
    BY <2>2, <1>1, <1>4, RowsStay
  <2>3. todo'[w] \subseteq todo[w] \/ todo'[w] = {k \in JobIds : jobs[k].status = "running"}
    <3>1. TodoStep
      <4>1. ASSUME NEW v \in Procs, SupervisorStep(v) PROVE TodoStep
        BY <4>1
           DEF TodoStep, SupervisorStep, Probe, Spawn, TakeLock, LoseLock, ReadInterrupted, MarkInterrupted,
           RecoveryDone, Claim, RefuseClaim, Launch, Poll, KeepPolling, KillGroup, MarkStopped,
           ChildGone, Reap, ReadSettled, MarkUnreported, SweepSource
      <4>2. ASSUME NEW k \in JobIds, ChildStep(k) PROVE TodoStep
        BY <4>2 DEF TodoStep, ChildStep, Download, Acquired, ReportProgress, FinishArtifacts, ReportFinished,
           CheckCancelled, Raise, JudgeError, WriteVerdict, Exit, ParentDeathGuard, HelperEnds,
           supervisorVars
      <4>3. ASSUME WorkerFault PROVE TodoStep
        BY <4>3 DEF TodoStep, WorkerFault, KillChild, CrashSupervisor
      <4>4. CASE Restart
        BY <4>4 DEF TodoStep, Restart, HostRestart
      <4>5. CASE \/ CreateJob \/ UNCHANGED vars
                 \/ \E h \in Handlers : (\E k \in JobIds : CancelRead(h, k)) \/ CancelWrite(h)
        BY <4>5 DEF TodoStep, CreateJob, CancelRead, CancelWrite, supervisorVars, workerVars, vars
      <4>6. QED  BY <4>1, <4>2, <4>3, <4>4, <4>5 DEF Next
    <3>2. QED  BY <3>1, <1>2 DEF TodoStep
  <2>4. QED  BY <2>1, <2>2, <2>3
<1>5. QED  BY <1>3, <1>4 DEF ReadInv, ReadsExist, TodoStarted, Exists

\* ReadInv holds before anything was read.
LEMMA InitReadInv == Init => ReadInv
  BY DEF Init, WorkerInit, ReadInv, ReadsExist, TodoStarted

\* ReadInv, that what was read of a row is of one that exists, is inductive on
\* top of the types and ExclusionInv.
THEOREM ReadInvariance == Spec => [](TypeInv /\ ExclusionInv /\ ReadInv)
<1>1. Init => TypeInv /\ ExclusionInv /\ ReadInv
  BY InitTypeInv, InitInvs, InitReadInv
<1>2. TypeInv /\ ExclusionInv /\ ReadInv /\ [Next]_vars => (TypeInv /\ ExclusionInv /\ ReadInv)'
  BY NextTypeInv, NextExclusionInv, NextReadInv
<1>3. QED  BY <1>1, <1>2, PTL DEF Spec

(***************************************************************************)
(* The worker, the handlers and their faults keep the promise of           *)
(* ExtractionQueue: jobs are admitted within the bound and started oldest  *)
(* first, one executes at a time, none is queued twice, and completed is   *)
(* only recorded by the executing job.                                     *)
(***************************************************************************)
THEOREM QueueRefinement == Spec => ImplementsQueue
<1>1. Init => Queue!Init
  <2> SUFFICES ASSUME Init PROVE Queue!Init
    OBVIOUS
  <2>1. Recorded = [j \in Queue!JobIds |-> "absent"]
    BY DEF Init, WorkerInit, JobStoreInit, NoRow, Recorded, Queue!JobIds, JobIds
  <2>2. LiveJobs = {}
    BY DEF Init, WorkerInit, LiveJobs, Live, Alive
  <2>3. QED  BY <2>1, <2>2 DEF Queue!Init, Recorded
<1>2. TypeInv /\ ExclusionInv /\ ReadInv /\ [Next]_vars
        => [Queue!Next]_<<[j \in JobIds |-> jobs[j].status], LiveJobs>>
  BY NextQueueStep DEF QueueStep, Recorded
<1>3. QED  BY <1>1, <1>2, ReadInvariance, PTL DEF Spec, ImplementsQueue, Queue!Spec

-----------------------------------------------------------------------------
(***************************************************************************)
(* What the store promises of any callers holds of these callers: only     *)
(* create makes a row active, every other write settles rows.              *)
(***************************************************************************)
LEMMA NextSettles ==
  ASSUME TypeInv, ExclusionInv, ReadInv, Next, ~CreateJob, jobs' # jobs
  PROVE  Settles
<1>0. /\ jobs \in [JobIds -> Row] /\ child \in [JobIds -> ChildPoints] /\ \A w \in Procs : todo[w] \subseteq JobIds
      /\ \A w \in Procs : pc[w] \in Working => cur[w] \in JobIds /\ jobs[cur[w]].status \notin {"absent", "queued"}
      /\ Terminal \subseteq Statuses \cap Phases /\ {"running"} \subseteq Statuses
      /\ {"working", "completed", "stopped", "failed", "cancelled", "cancelling", "interrupted"} \subseteq Phases
  BY DEF TypeInv, TypeOK, WorkerTypeOK, WorksOnJob, ExclusionInv, ClaimFresh, Terminal, Statuses, Active, Phases
<1>1. ASSUME NEW h \in Handlers, CancelWrite(h) PROVE Settles
  <2> DEFINE j == request[h].job
  <2>1. j \in JobIds /\ jobs[j].status # "absent" /\ jobs[j].status \in Statuses
    BY <1>0, <1>1 DEF CancelWrite, ReadInv, ReadsExist, Exists, Row
  <2>2. \/ RequestCancel(j, "cancelled", "cancelled")
        \/ RequestCancel(j, jobs[j].status, "cancelling")
    BY <1>1 DEF CancelWrite
  <2>3. "cancelled" \in Terminal
    BY DEF Terminal
  <2> HIDE DEF j
  <2>4. QED  BY <1>0, <2>1, <2>2, <2>3, CancelSettles
<1>2. ASSUME NEW w \in Procs, MarkInterrupted(w) PROVE Settles
  <2>1. PICK j \in todo[w] : SetStatus(j, "failed", "interrupted")
    BY <1>2 DEF MarkInterrupted
  <2>2. j \in JobIds /\ jobs[j].status # "absent" /\ "failed" \in Terminal
    BY <1>0 DEF ReadInv, TodoStarted, Terminal
  <2>3. QED  BY <1>0, <2>1, <2>2, StatusSettles
<1>3. ASSUME NEW w \in Procs, Claim(w) PROVE Settles
  <2>1. PICK j \in JobIds : jobs[j].status = "queued" /\ SetStatus(j, "running", "working")
    BY <1>3 DEF Claim, ClaimRow
  <2>2. QED  BY <1>0, <2>1, StatusSettles
<1>4. ASSUME NEW w \in Procs, RefuseClaim(w) \/ MarkStopped(w) \/ MarkUnreported(w) PROVE Settles
  <2>1. cur[w] \in JobIds /\ jobs[cur[w]].status # "absent"
    BY <1>0, <1>4 DEF RefuseClaim, MarkStopped, MarkUnreported, Goto, Working, Owning
  <2>2. \/ SetStatus(cur[w], "failed", "stopped")
        \/ SetStatus(cur[w], "cancelled", "cancelled")
        \/ SetStatus(cur[w], "failed", "failed")
    BY <1>4 DEF RefuseClaim, MarkStopped, MarkUnreported
  <2>3. {"failed", "cancelled"} \subseteq Terminal
    BY DEF Terminal
  <2>4. QED  BY <1>0, <2>1, <2>2, <2>3, StatusSettles
<1>5. ASSUME NEW j \in JobIds, Download(j) \/ Acquired(j) \/ ReportProgress(j) \/ ReportFinished(j)
      PROVE  Settles
  <2>1. SetPhase(j, "working") \/ SetPhase(j, "completed")
    BY <1>5 DEF Download, Acquired, ReportProgress, ReportFinished
  <2>2. QED  BY <1>0, <2>1, PhaseSettles
<1>6. ASSUME NEW j \in JobIds, WriteVerdict(j) PROVE Settles
  <2>1. /\ SetStatus(j, verdict[j], verdict[j]) /\ verdict[j] \in Terminal /\ child[j] = "writing"
    BY <1>0, <1>6 DEF WriteVerdict, ChildGoto, TypeInv, TypeOK, WorkerTypeOK
  <2>2. jobs[j].status # "absent"
    BY <2>1 DEF ExclusionInv, NeverStarted
  <2>3. QED  BY <1>0, <2>1, <2>2, StatusSettles
<1>7. QED
  BY <1>1, <1>2, <1>3, <1>4, <1>5, <1>6
  DEF Next, SupervisorStep, ChildStep, WorkerFault, CancelRead, workerVars, Probe, Spawn, TakeLock, LoseLock,
      ReadInterrupted, RecoveryDone, Launch, Poll, KeepPolling, KillGroup, ChildGone, Reap, ReadSettled, SweepSource,
      CrashSupervisor, KillChild, FinishArtifacts, CheckCancelled, Raise, JudgeError, Exit, ParentDeathGuard,
      HelperEnds, Restart, HostRestart

(***************************************************************************)
(* However handlers, worker, children and faults interleave, the active    *)
(* extractions stay within the global bound and each author's, and a       *)
(* request that is sent again finds the extraction it started.             *)
(***************************************************************************)
THEOREM JobsAdmitted == Spec => [](AdmissionBounds /\ OneJobPerRequest)
<1>1. Init => AdmissionInv
  BY InitAdmits DEF Init, WorkerInit
<1>2. ASSUME TypeInv, ExclusionInv, ReadInv, AdmissionInv, [Next]_vars PROVE AdmissionInv'
  <2>1. CASE CreateJob
    BY <1>2, <2>1, CreateAdmits DEF CreateJob
  <2>2. CASE jobs' = jobs
    BY <1>2, <2>2 DEF AdmissionInv, AdmissionBounds, RequestsDistinct, ActiveJobs, ActiveJobsOf, Exists
  <2>3. CASE Next /\ ~CreateJob /\ jobs' # jobs
    BY <1>2, <2>3, NextSettles, SettlingAdmits
  <2>4. QED  BY <1>2, <2>1, <2>2, <2>3 DEF vars, workerVars
<1>3. AdmissionInv => AdmissionBounds /\ OneJobPerRequest
  BY DistinctIsOne DEF AdmissionInv
<1>4. QED  BY <1>1, <1>2, <1>3, ReadInvariance, PTL DEF Spec
=============================================================================
