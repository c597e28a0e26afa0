-------------------------- MODULE ExportJobs_proofs --------------------------
(***************************************************************************)
(* Machine-checked proofs about ExportJobs, for every set of jobs and      *)
(* executors and every number of faults.                                   *)
(***************************************************************************)
EXTENDS ExportJobs, FiniteSetTheorems, TLAPS

\* The key of a working executor is the row id and the token it works for.
LEMMA KeyParts ==
    ASSUME TypeOK, NEW w \in Worker, worker[w].pc # "idle"
    PROVE  /\ JobOf(w) \in Job
           /\ TokenOf(w) \in Nat
           /\ worker[w].key = <<JobOf(w), TokenOf(w)>>
           /\ ArtifactKey(JobOf(w), TokenOf(w)) = worker[w].key
           /\ worker[w].key \in Key
BY DEF TypeOK, JobOf, TokenOf, ArtifactKey, Key

\* An executor that moves on keeps its key.
LEMMA GoToType ==
    ASSUME TypeOK, NEW w \in Worker, worker[w].pc # "idle",
           NEW step \in Step, GoTo(w, step)
    PROVE  /\ worker' \in [Worker -> Executor]
           /\ \A v \in Worker : worker'[v].pc # "idle" => worker'[v].key \in Key
BY DEF TypeOK, GoTo, Executor

\* Likewise when it learns, or forgets, that it stored an object.
LEMMA StepType ==
    ASSUME TypeOK, NEW w \in Worker, worker[w].pc # "idle",
           NEW step \in Step, NEW b \in BOOLEAN,
           worker' = [worker EXCEPT ![w].pc = step, ![w].stored = b]
    PROVE  /\ worker' \in [Worker -> Executor]
           /\ \A v \in Worker : worker'[v].pc # "idle" => worker'[v].key \in Key
BY DEF TypeOK, Executor

\* An executor that is done, or dead, is idle.
LEMMA IdleType ==
    ASSUME TypeOK, NEW w \in Worker, worker' = [worker EXCEPT ![w] = Idle]
    PROVE  /\ worker' \in [Worker -> Executor]
           /\ \A v \in Worker : worker'[v].pc # "idle" => worker'[v].key \in Key
BY DEF TypeOK, Executor, Idle, Step

\* A fault stays within the bound.
LEMMA FaultType ==
    ASSUME TypeOK, Fault
    PROVE  faults' \in 0..MaxFaults
BY FaultBound DEF TypeOK, Fault

LEMMA StoredType ==
    ASSUME TypeOK, NEW w \in Worker, worker[w].pc # "idle", Stored(w)
    PROVE  /\ store' \subseteq Key
           /\ worker' \in [Worker -> Executor]
           /\ \A v \in Worker : worker'[v].pc # "idle" => worker'[v].key \in Key
<1>1. store' \subseteq Key
  BY KeyParts DEF Stored, TypeOK
<1>2. QED
  BY <1>1, StepType DEF Stored, Step

LEMMA DeleteType ==
    ASSUME TypeOK, NEW k, Delete(k)
    PROVE  store' \subseteq Key /\ dirs' \subseteq Job
BY DEF Delete, TypeOK

LEMMA DeleteOwnType ==
    ASSUME TypeOK, NEW w \in Worker, DeleteOwn(w)
    PROVE  store' \subseteq Key /\ dirs' \subseteq Job
BY DeleteType DEF DeleteOwn, TypeOK

LEMMA RenewedType ==
    ASSUME TypeOK, NEW j, NEW n, Renewed(j, n)
    PROVE  job' \in [Job -> Row]
BY DEF Renewed, TypeOK, Row

\* A row that is settled: no token, and the document of attempt n (or none).
LEMMA SettledRowType ==
    ASSUME TypeOK, NEW j \in Job, NEW s \in Status, NEW n \in Nat
    PROVE  [job EXCEPT ![j].status = s, ![j].token = 0, ![j].artifact = n]
              \in [Job -> Row]
<1>1. [job[j] EXCEPT !.status = s, !.token = 0, !.artifact = n] \in Row
  BY DEF TypeOK, Row
<1>2. [job EXCEPT ![j].status = s, ![j].token = 0, ![j].artifact = n]
        = [job EXCEPT ![j] =
             [job[j] EXCEPT !.status = s, !.token = 0, !.artifact = n]]
  BY DEF TypeOK, Row
<1>3. QED
  BY <1>1, <1>2 DEF TypeOK

LEMMA CompletedRowType ==
    ASSUME TypeOK, NEW w \in Worker, worker[w].pc # "idle"
    PROVE  CompletedRow(w) \in [Job -> Row]
<1>1. JobOf(w) \in Job /\ TokenOf(w) \in Nat /\ "completed" \in Status
  BY KeyParts DEF Status
<1>2. QED
  BY <1>1, SettledRowType, Zenon DEF CompletedRow

LEMMA ExpiredType ==
    ASSUME NEW row \in Row
    PROVE  Expired(row) \in Row
BY DEF Expired, Row, Status

-----------------------------------------------------------------------------

\* Executors keep every type (the disjuncts of Progress and Trouble).
LEMMA ExecutorType ==
    ASSUME TypeOK, NEW w \in Worker, Progress(w) \/ Trouble(w)
    PROVE  TypeOK'
<1>1. CASE FinishRender(w)
  BY <1>1, GoToType DEF FinishRender, TypeOK, Step
<1>2. CASE MakeDirectory(w)
  <2>1. dirs' \subseteq Job
    BY <1>2, KeyParts DEF MakeDirectory, TypeOK
  <2>2. QED
    BY <1>2, <2>1, GoToType DEF MakeDirectory, TypeOK, Step
<1>3. CASE WriteFile(w)
  BY <1>3, StoredType DEF WriteFile, TypeOK
<1>4. CASE DirectoryVanished(w)
  BY <1>4, GoToType DEF DirectoryVanished, TypeOK, Step
<1>5. CASE UploadObject(w)
  BY <1>5, StoredType DEF UploadObject, TypeOK
<1>6. CASE Complete(w)
  BY <1>6, CompletedRowType, IdleType DEF Complete, TypeOK
<1>7. CASE CompleteRefused(w)
  BY <1>7, GoToType DEF CompleteRefused, TypeOK, Step
<1>8. CASE Undo(w)
  BY <1>8, DeleteOwnType, IdleType DEF Undo, TypeOK
<1>9. CASE Discard(w)
  BY <1>9, DeleteOwnType, StepType DEF Discard, TypeOK, Step
<1>10. CASE RecordFailure(w)
  <2>1. job' \in [Job -> Row]
    <3>1. CASE Owns(w)
      <4>1. JobOf(w) \in Job /\ "failed" \in Status /\ 0 \in Nat
        BY <3>1, KeyParts DEF Status, Owns
      <4>2. job' = [job EXCEPT ![JobOf(w)].status = "failed",
                               ![JobOf(w)].token = 0,
                               ![JobOf(w)].artifact = 0]
        BY <1>10, <3>1 DEF RecordFailure, FailedRow
      <4>3. QED
        BY <4>1, <4>2, SettledRowType, Zenon
    <3>2. CASE ~Owns(w)
      BY <1>10, <3>2 DEF RecordFailure, TypeOK
    <3>3. QED
      BY <3>1, <3>2
  <2>2. QED
    BY <1>10, <2>1, IdleType DEF RecordFailure, TypeOK
<1>11. CASE FinishRenderWithLateRenewal(w)
  <2>1. late' \subseteq Key
    BY <1>11, KeyParts DEF FinishRenderWithLateRenewal, TypeOK
  <2>2. QED
    BY <1>11, <2>1, GoToType, FaultType
       DEF FinishRenderWithLateRenewal, TypeOK, Step
<1>12. CASE RenderFails(w)
  <2>1. late' \subseteq Key
    BY <1>12, KeyParts DEF RenderFails, TypeOK
  <2>2. QED
    BY <1>12, <2>1, GoToType, FaultType DEF RenderFails, TypeOK, Step
<1>13. CASE PutFails(w)
  <2>1. store' \subseteq Key
    BY <1>13, KeyParts DEF PutFails, TypeOK
  <2>2. QED
    BY <1>13, <2>1, GoToType, FaultType DEF PutFails, TypeOK, Step
<1>14. CASE CompleteRaises(w)
  <2>1. job' \in [Job -> Row] /\ unacked' \subseteq Job
    BY <1>14, KeyParts, CompletedRowType DEF CompleteRaises, TypeOK
  <2>2. QED
    BY <1>14, <2>1, GoToType, FaultType DEF CompleteRaises, TypeOK, Step
<1>15. CASE DeleteFails(w)
  <2>1. CASE worker[w].pc = "undoing"
    BY <1>15, <2>1, IdleType, FaultType DEF DeleteFails, TypeOK
  <2>2. CASE worker[w].pc = "discarding"
    BY <1>15, <2>2, StepType, FaultType DEF DeleteFails, TypeOK, Step
  <2>3. QED
    BY <1>15, <2>1, <2>2 DEF DeleteFails
<1>16. CASE RecordFailureRaises(w)
  BY <1>16, IdleType, FaultType DEF RecordFailureRaises, TypeOK
<1>17. CASE Crash(w)
  BY <1>17, IdleType, FaultType DEF Crash, TypeOK
<1>18. QED
  BY <1>1, <1>2, <1>3, <1>4, <1>5, <1>6, <1>7, <1>8, <1>9, <1>10, <1>11,
     <1>12, <1>13, <1>14, <1>15, <1>16, <1>17 DEF Progress, Trouble

\* Requests, claims, renewals and sweeps keep every type.
LEMMA RequestType ==
    ASSUME TypeOK, NEW j \in Job,
           CreateJob(j) \/ LeaseGoesStale(j) \/ RetentionEnds(j) \/ Sweep(j)
    PROVE  TypeOK'
<1>1. CASE CreateJob(j)
  <2>1. job' \in [Job -> Row]
    BY <1>1 DEF CreateJob, TypeOK, Row, Status
  <2>2. QED
    BY <1>1, <2>1 DEF CreateJob, TypeOK
<1>2. CASE LeaseGoesStale(j)
  <2>1. job' \in [Job -> Row]
    BY <1>2 DEF LeaseGoesStale, TypeOK, Row
  <2>2. faults' \in 0..MaxFaults
    BY <1>2, FaultType DEF LeaseGoesStale, TypeOK
  <2>3. QED
    BY <1>2, <2>1, <2>2 DEF LeaseGoesStale, TypeOK
<1>3. CASE RetentionEnds(j)
  <2>1. job' \in [Job -> Row]
    BY <1>3 DEF RetentionEnds, TypeOK, Row
  <2>2. QED
    BY <1>3, <2>1 DEF RetentionEnds, TypeOK
<1>4. CASE ExpireOnRead(j)
  <2>1. job' \in [Job -> Row]
    BY <1>4, ExpiredType DEF ExpireOnRead, TypeOK
  <2>2. QED
    BY <1>4, <2>1 DEF ExpireOnRead, TypeOK
<1>5. CASE SweepDelete(j)
  <2>1. store' \subseteq Key /\ dirs' \subseteq Job
    BY <1>5, DeleteType DEF SweepDelete
  <2>2. QED
    BY <1>5, <2>1 DEF SweepDelete, TypeOK
<1>6. CASE SweepClear(j)
  <2>1. job' \in [Job -> Row]
    BY <1>6 DEF SweepClear, TypeOK, Row
  <2>2. QED
    BY <1>6, <2>1 DEF SweepClear, TypeOK
<1>7. CASE SweepInterrupted(j)
  BY <1>7, FaultType DEF SweepInterrupted, TypeOK
<1>8. QED
  BY <1>1, <1>2, <1>3, <1>4, <1>5, <1>6, <1>7 DEF Sweep

\* A claim makes a row of a row and gives the executor a key.
LEMMA ClaimType ==
    ASSUME TypeOK, NEW w \in Worker, NEW j \in Job, Claim(w, j)
    PROVE  TypeOK'
<1>1. job' \in [Job -> Row]
  BY DEF Claim, NewToken, TypeOK, Row, Status
<1>2. <<j, NewToken(j)>> \in Key
  BY DEF NewToken, TypeOK, Row, Key
<1>3. /\ worker' \in [Worker -> Executor]
      /\ \A v \in Worker : worker'[v].pc # "idle" => worker'[v].key \in Key
  BY <1>2 DEF Claim, TypeOK, Executor, Step
<1>4. QED
  BY <1>1, <1>3 DEF Claim, TypeOK

\* The invariant of types is inductive.
LEMMA TypeStep == TypeOK /\ [Next]_vars => TypeOK'
<1> SUFFICES ASSUME TypeOK, [Next]_vars PROVE TypeOK'
  OBVIOUS
<1>1. ASSUME NEW j \in Job,
             CreateJob(j) \/ LeaseGoesStale(j) \/ RetentionEnds(j) \/ Sweep(j)
      PROVE  TypeOK'
  BY <1>1, RequestType
<1>2. ASSUME NEW w \in Worker, NEW j \in Job, Claim(w, j) PROVE TypeOK'
  BY <1>2, ClaimType
<1>3. ASSUME NEW w \in Worker, RenewLease(w) PROVE TypeOK'
  BY <1>3, RenewedType DEF RenewLease, TypeOK
<1>4. ASSUME NEW w \in Worker, Progress(w) \/ Trouble(w) PROVE TypeOK'
  BY <1>4, ExecutorType
<1>5. ASSUME NEW k \in late, LateRenewal(k) PROVE TypeOK'
  BY <1>5, RenewedType DEF LateRenewal, TypeOK
<1>6. CASE ExpireJobs
  <2>1. job' \in [Job -> Row]
    BY <1>6, ExpiredType DEF ExpireJobs, TypeOK
  <2>2. QED
    BY <1>6, <2>1 DEF ExpireJobs, TypeOK
<1>7. CASE UNCHANGED vars
  BY <1>7 DEF vars, TypeOK
<1>8. QED
  BY <1>1, <1>2, <1>3, <1>4, <1>5, <1>6, <1>7 DEF Next

\* Every variable keeps its type: rows stay rows of export_job, working
\* executors hold keys, and no more than MaxFaults faults are spent.
THEOREM TypeCorrect == Spec => []TypeOK
<1>1. Init => TypeOK
  BY FaultBound DEF Init, TypeOK, NewRow, Row, Status, Idle, Executor, Step
<1>2. QED
  BY <1>1, TypeStep, PTL DEF Spec

-----------------------------------------------------------------------------
(* The leases: LeaseInv is inductive.                                      *)

\* What a completing UPDATE does, column by column.
LEMMA CompletedRowFields ==
    ASSUME TypeOK, NEW w \in Worker, worker[w].pc # "idle", NEW j \in Job
    PROVE  /\ CompletedRow(w)[j].status =
                 IF j = JobOf(w) THEN "completed" ELSE job[j].status
           /\ CompletedRow(w)[j].token =
                 IF j = JobOf(w) THEN 0 ELSE job[j].token
           /\ CompletedRow(w)[j].artifact =
                 IF j = JobOf(w) THEN TokenOf(w) ELSE job[j].artifact
           /\ CompletedRow(w)[j].attempt = job[j].attempt
BY DEF CompletedRow, TypeOK, Row

\* The holder of a lease works for the last attempt of a running job.
LEMMA HolderKey ==
    ASSUME TypeOK, RowsConsistent, NEW w \in Worker, Owns(w)
    PROVE  /\ worker[w].pc # "idle"
           /\ JobOf(w) \in Job
           /\ TokenOf(w) = job[JobOf(w)].token
           /\ TokenOf(w) = job[JobOf(w)].attempt
           /\ TokenOf(w) > 0
           /\ job[JobOf(w)].status = "running"
           /\ job[JobOf(w)].artifact = 0
BY KeyParts DEF Owns, Matches, RowsConsistent, TypeOK, Row

\* The fenced completion keeps the leases in order, whether the executor then
\* is done or (when the commit reported an error) goes on to discard.
LEMMA CompletionStep ==
    ASSUME TypeOK, LeaseInv, NEW w \in Worker,
           worker[w].pc = "completing", Owns(w), job' = CompletedRow(w),
           \/ worker' = [worker EXCEPT ![w] = Idle] /\ UNCHANGED unacked
           \/ GoTo(w, "discarding") /\ unacked' = unacked \cup {JobOf(w)},
           UNCHANGED <<backend, store, sweeping>>
    PROVE  LeaseInv'
<1> USE DEF LeaseInv
<1>1. \A v \in Worker : v # w =>
        /\ worker'[v] = worker[v]
        /\ JobOf(v)' = JobOf(v)
        /\ TokenOf(v)' = TokenOf(v)
  BY DEF TypeOK, Idle, GoTo, JobOf, TokenOf
<1>2. \/ worker'[w].pc = "idle"
      \/ /\ worker'[w].pc = "discarding"
         /\ worker'[w].key = worker[w].key
         /\ JobOf(w) \in unacked'
  <2>1. CASE worker' = [worker EXCEPT ![w] = Idle]
    BY <2>1 DEF TypeOK, Idle
  <2>2. CASE GoTo(w, "discarding") /\ unacked' = unacked \cup {JobOf(w)}
    BY <2>2 DEF TypeOK, GoTo, Executor
  <2>3. QED
    BY <2>1, <2>2
<1>3. worker'[w].pc # "idle" =>
        /\ worker'[w].key = worker[w].key
        /\ JobOf(w)' = JobOf(w)
        /\ TokenOf(w)' = TokenOf(w)
        /\ JobOf(w) \in unacked'
  BY <1>2 DEF JobOf, TokenOf
<1>4. unacked \subseteq unacked'
  OBVIOUS
<1>5. RowsConsistent'
  BY CompletedRowFields, HolderKey DEF RowsConsistent
<1>6. KeysGranted'
  BY <1>1, <1>3, CompletedRowFields, KeyParts DEF KeysGranted
<1>7. KeysDistinct'
  BY <1>1, <1>3 DEF KeysDistinct
<1>8. WinnerIsDone'
  <2> SUFFICES ASSUME NEW v \in Worker, v # w, worker'[v].pc # "idle",
                      job'[JobOf(v)'].artifact = TokenOf(v)'
               PROVE  /\ worker'[v].pc \in {"discarding", "recording"}
                      /\ JobOf(v)' \in unacked'
    BY <1>2, <1>3 DEF WinnerIsDone
  <2>1. JobOf(v) # JobOf(w)
    BY <1>1, CompletedRowFields, HolderKey, KeyParts DEF KeysDistinct
  <2>2. QED
    BY <1>1, <1>4, <2>1, CompletedRowFields, KeyParts DEF WinnerIsDone
<1>9. UploadedIsStored'
  BY <1>1, <1>2 DEF UploadedIsStored, External
<1>10. SweptAreExpired'
  BY CompletedRowFields, HolderKey DEF SweptAreExpired, TypeOK
<1>11. CompletedIsServable'
  BY <1>4, CompletedRowFields, HolderKey, KeyParts
     DEF CompletedIsServable, UploadedIsStored, External, ArtifactKey
<1>12. QED
  BY <1>5, <1>6, <1>7, <1>8, <1>9, <1>10, <1>11

\* So does the fenced failure.
LEMMA FailureStep ==
    ASSUME TypeOK, LeaseInv, NEW w \in Worker, Owns(w),
           job' = FailedRow(w), worker' = [worker EXCEPT ![w] = Idle],
           UNCHANGED <<backend, store, sweeping, unacked>>
    PROVE  LeaseInv'
<1>1. \A j \in Job :
        /\ job'[j].status = IF j = JobOf(w) THEN "failed" ELSE job[j].status
        /\ job'[j].token = IF j = JobOf(w) THEN 0 ELSE job[j].token
        /\ job'[j].artifact = job[j].artifact
        /\ job'[j].attempt = job[j].attempt
  BY HolderKey DEF FailedRow, LeaseInv, TypeOK, Row
<1>2. job[JobOf(w)].status = "running" /\ job[JobOf(w)].artifact = 0
  BY HolderKey DEF LeaseInv
<1>3. ASSUME NEW v \in Worker, worker'[v].pc # "idle"
      PROVE  /\ v # w
             /\ worker'[v] = worker[v]
             /\ JobOf(v)' = JobOf(v)
             /\ TokenOf(v)' = TokenOf(v)
  BY <1>3 DEF TypeOK, Idle, JobOf, TokenOf
<1>4. RowsConsistent'
  BY <1>1, <1>2 DEF LeaseInv, RowsConsistent
<1>5. KeysGranted'
  BY <1>1, <1>3, KeyParts DEF LeaseInv, KeysGranted
<1>6. WinnerIsDone'
  BY <1>1, <1>3, KeyParts DEF LeaseInv, WinnerIsDone
<1>7. KeysDistinct'
  BY <1>3 DEF LeaseInv, KeysDistinct
<1>8. UploadedIsStored'
  BY <1>3 DEF LeaseInv, UploadedIsStored, External
<1>9. SweptAreExpired' /\ CompletedIsServable'
  BY <1>1, <1>2 DEF LeaseInv, SweptAreExpired, CompletedIsServable, External,
                    ArtifactKey, TypeOK
<1>10. QED
  BY <1>4, <1>5, <1>6, <1>7, <1>8, <1>9 DEF LeaseInv

\* Executors keep the leases in order.
LEMMA ExecutorStep ==
    ASSUME TypeOK, LeaseInv, NEW w \in Worker, Progress(w) \/ Trouble(w)
    PROVE  LeaseInv'
<1> USE DEF LeaseInv, RowsConsistent, KeysGranted, KeysDistinct, WinnerIsDone,
            UploadedIsStored, SweptAreExpired, CompletedIsServable,
            External, ArtifactKey, JobOf, TokenOf, TypeOK, Row, Executor, Key
<1>1. CASE FinishRender(w)
  BY <1>1 DEF FinishRender, GoTo
<1>2. CASE MakeDirectory(w)
  BY <1>2 DEF MakeDirectory, GoTo
<1>3. CASE WriteFile(w)
  BY <1>3 DEF WriteFile, Stored
<1>4. CASE DirectoryVanished(w)
  BY <1>4 DEF DirectoryVanished, GoTo
<1>5. CASE UploadObject(w)
  BY <1>5 DEF UploadObject, Stored
<1>6. CASE Complete(w)
  BY <1>6, CompletionStep DEF Complete
<1>7. CASE CompleteRefused(w)
  BY <1>7 DEF CompleteRefused, GoTo
<1>8. CASE Undo(w)
  BY <1>8 DEF Undo, DeleteOwn, Delete, Idle
<1>9. CASE Discard(w)
  BY <1>9 DEF Discard, DeleteOwn, Delete
<1>10. CASE RecordFailure(w)
  <2>1. CASE Owns(w)
    BY <1>10, <2>1, FailureStep DEF RecordFailure
  <2>2. CASE ~Owns(w)
    BY <1>10, <2>2 DEF RecordFailure, Idle
  <2>3. QED
    BY <2>1, <2>2
<1>11. CASE FinishRenderWithLateRenewal(w)
  BY <1>11 DEF FinishRenderWithLateRenewal, GoTo
<1>12. CASE RenderFails(w)
  BY <1>12 DEF RenderFails, GoTo
<1>13. CASE PutFails(w)
  BY <1>13 DEF PutFails, GoTo
<1>14. CASE CompleteRaises(w)
  <2>1. CASE UNCHANGED <<job, unacked>>
    BY <1>14, <2>1 DEF CompleteRaises, GoTo
  <2>2. CASE Owns(w) /\ job' = CompletedRow(w)
             /\ unacked' = unacked \cup {JobOf(w)}
    BY <1>14, <2>2, CompletionStep DEF CompleteRaises
  <2>3. QED
    BY <1>14, <2>1, <2>2 DEF CompleteRaises
<1>15. CASE DeleteFails(w)
  <2>1. CASE worker[w].pc = "undoing"
    <3>1. /\ worker' = [worker EXCEPT ![w] = Idle]
          /\ UNCHANGED <<backend, job, store, sweeping, unacked>>
      BY <1>15, <2>1 DEF DeleteFails
    <3>2. QED
      BY <3>1 DEF Idle
  <2>2. CASE worker[w].pc = "discarding"
    <3>1. /\ worker' = [worker EXCEPT ![w].pc = "recording",
                                      ![w].stored = FALSE]
          /\ UNCHANGED <<backend, job, store, sweeping, unacked>>
      BY <1>15, <2>2 DEF DeleteFails
    <3>2. QED
      BY <2>2, <3>1
  <2>3. QED
    BY <1>15, <2>1, <2>2 DEF DeleteFails
<1>16. CASE RecordFailureRaises(w)
  BY <1>16 DEF RecordFailureRaises, Idle
<1>17. CASE Crash(w)
  BY <1>17 DEF Crash, Idle
<1>18. QED
  BY <1>1, <1>2, <1>3, <1>4, <1>5, <1>6, <1>7, <1>8, <1>9, <1>10, <1>11,
     <1>12, <1>13, <1>14, <1>15, <1>16, <1>17 DEF Progress, Trouble

\* A new claim takes an attempt number nobody works for.
LEMMA ClaimStep ==
    ASSUME TypeOK, LeaseInv, NEW w \in Worker, NEW j \in Job, Claim(w, j)
    PROVE  LeaseInv'
<1> USE DEF Claim, Claimable, NewToken, LeaseInv, External, ArtifactKey, JobOf, TokenOf
<1>1. RowsConsistent'
  BY DEF RowsConsistent, TypeOK, Row, Executor, Key
<1>2. KeysGranted'
  BY DEF KeysGranted, TypeOK, Row, Executor, Key
<1>3. KeysDistinct'
  BY DEF KeysDistinct, KeysGranted, TypeOK, Row, Executor, Key
<1>4. WinnerIsDone'
  <2> SUFFICES ASSUME NEW v \in Worker, worker'[v].pc # "idle",
                      job'[worker'[v].key[1]].artifact = worker'[v].key[2]
               PROVE  worker'[v].pc \in {"discarding", "recording"} /\ worker'[v].key[1] \in unacked'
    BY DEF WinnerIsDone
  <2>1. job[j].artifact = 0 /\ job[j].attempt \in Nat
    BY DEF RowsConsistent, TypeOK, Row
  <2>2. CASE v = w
    <3>1. worker'[v].key = <<j, job[j].attempt + 1>>
      BY <2>2 DEF TypeOK
    <3>2. job'[j].artifact = job[j].artifact
      BY DEF TypeOK, Row
    <3>3. worker'[v].key[1] = j /\ worker'[v].key[2] = job[j].attempt + 1
      BY <3>1
    <3>4. job[j].artifact = job[j].attempt + 1
      BY <3>2, <3>3
    <3>5. QED
      BY <2>1, <3>4
  <2>3. CASE v # w
    <3>1. worker'[v] = worker[v] /\ unacked' = unacked
      BY <2>3 DEF TypeOK
    <3>2. worker[v].key \in Key /\ worker[v].key[1] \in Job
      BY <3>1 DEF TypeOK, Key
    <3>3. job'[worker[v].key[1]].artifact = job[worker[v].key[1]].artifact
      BY <3>2 DEF TypeOK, Row
    <3>4. QED
      BY <3>1, <3>3 DEF WinnerIsDone
  <2>4. QED
    BY <2>2, <2>3
<1>5. UploadedIsStored'
  BY DEF UploadedIsStored, TypeOK, Row, Executor, Key
<1>6. SweptAreExpired'
  BY DEF SweptAreExpired, RowsConsistent, TypeOK, Row, Executor, Key
<1>7. CompletedIsServable'
  BY DEF CompletedIsServable, RowsConsistent, TypeOK, Row, Executor, Key
<1>8. QED
  BY <1>1, <1>2, <1>3, <1>4, <1>5, <1>6, <1>7

\* Requests, the clock and sweeps keep the leases in order.
LEMMA RequestStep ==
    ASSUME TypeOK, LeaseInv, NEW j \in Job,
           CreateJob(j) \/ LeaseGoesStale(j) \/ RetentionEnds(j) \/ Sweep(j)
    PROVE  LeaseInv'
<1> USE DEF LeaseInv, RowsConsistent, KeysGranted, KeysDistinct, WinnerIsDone,
            UploadedIsStored, SweptAreExpired, CompletedIsServable,
            External, ArtifactKey, JobOf, TokenOf, TypeOK, Row, Executor, Key
<1>1. CASE CreateJob(j)
  BY <1>1 DEF CreateJob
<1>2. CASE LeaseGoesStale(j)
  BY <1>2 DEF LeaseGoesStale
<1>3. CASE RetentionEnds(j)
  BY <1>3 DEF RetentionEnds
<1>4. CASE ExpireOnRead(j)
  BY <1>4 DEF ExpireOnRead, Expired, DueJobs
<1>5. CASE SweepDelete(j)
  BY <1>5 DEF SweepDelete, Delete
<1>6. CASE SweepClear(j)
  BY <1>6 DEF SweepClear
<1>7. CASE SweepInterrupted(j)
  BY <1>7 DEF SweepInterrupted
<1>8. QED
  BY <1>1, <1>2, <1>3, <1>4, <1>5, <1>6, <1>7 DEF Sweep

LEMMA RenewedStep ==
    ASSUME TypeOK, LeaseInv, NEW j, NEW n, Renewed(j, n),
           UNCHANGED <<backend, worker, store, sweeping, unacked>>
    PROVE  LeaseInv'
<1>1. \A i \in Job : /\ job'[i].status = job[i].status
                     /\ job'[i].token = job[i].token
                     /\ job'[i].attempt = job[i].attempt
                     /\ job'[i].artifact = job[i].artifact
  BY DEF Renewed, TypeOK, Row
<1>2. QED
  BY <1>1, KeyParts
     DEF LeaseInv, RowsConsistent, KeysGranted, KeysDistinct, WinnerIsDone,
         UploadedIsStored, SweptAreExpired, CompletedIsServable, External,
         ArtifactKey, JobOf, TokenOf, TypeOK

LEMMA ExpireJobsStep ==
    ASSUME TypeOK, LeaseInv, ExpireJobs
    PROVE  LeaseInv'
<1>1. ASSUME NEW i \in Job
      PROVE  /\ job'[i].status =
                   IF i \in DueJobs THEN "expired" ELSE job[i].status
             /\ job'[i].token = job[i].token
             /\ job'[i].attempt = job[i].attempt
             /\ job'[i].artifact \in {job[i].artifact, 0}
             /\ i \notin DueJobs => job'[i].artifact = job[i].artifact
  BY DEF ExpireJobs, Expired, TypeOK, Row
<1>2. QED
  BY <1>1 DEF ExpireJobs, DueJobs, LeaseInv, RowsConsistent, KeysGranted,
              KeysDistinct, WinnerIsDone, UploadedIsStored, SweptAreExpired,
              CompletedIsServable, External, ArtifactKey, JobOf, TokenOf,
              TypeOK, Row, Executor, Key

LEMMA LeaseStep == TypeOK /\ LeaseInv /\ [Next]_vars => LeaseInv'
<1> SUFFICES ASSUME TypeOK, LeaseInv, [Next]_vars PROVE LeaseInv'
  OBVIOUS
<1>1. ASSUME NEW j \in Job,
             CreateJob(j) \/ LeaseGoesStale(j) \/ RetentionEnds(j) \/ Sweep(j)
      PROVE  LeaseInv'
  BY <1>1, RequestStep
<1>2. ASSUME NEW w \in Worker, NEW j \in Job, Claim(w, j) PROVE LeaseInv'
  BY <1>2, ClaimStep
<1>3. ASSUME NEW w \in Worker, RenewLease(w) PROVE LeaseInv'
  BY <1>3, RenewedStep DEF RenewLease
<1>4. ASSUME NEW w \in Worker, Progress(w) \/ Trouble(w) PROVE LeaseInv'
  BY <1>4, ExecutorStep
<1>5. ASSUME NEW k \in late, LateRenewal(k) PROVE LeaseInv'
  BY <1>5, RenewedStep DEF LateRenewal
<1>6. CASE ExpireJobs
  BY <1>6, ExpireJobsStep
<1>7. CASE UNCHANGED vars
  BY <1>7 DEF vars, LeaseInv, RowsConsistent, KeysGranted, KeysDistinct,
              WinnerIsDone, UploadedIsStored, SweptAreExpired,
              CompletedIsServable, External, ArtifactKey, JobOf, TokenOf
<1>8. QED
  BY <1>1, <1>2, <1>3, <1>4, <1>5, <1>6, <1>7 DEF Next

\* In every reachable state rows, executors and objects agree: attempts are
\* granted once, and what is uploaded or delivered is in the store.
THEOREM LeasesHold == Spec => []LeaseInv
<1>1. Init => LeaseInv
  BY DEF Init, NewRow, Idle, LeaseInv, RowsConsistent, KeysGranted,
         KeysDistinct, WinnerIsDone, UploadedIsStored, SweptAreExpired,
         CompletedIsServable
<1>2. QED
  BY <1>1, LeaseStep, TypeCorrect, PTL DEF Spec

\* At most one executor holds the lease of a job, so at most one result of
\* complete_export_job or fail_export_job can be accepted.
THEOREM OneHolderAlways == Spec => []OneHolder
<1>1. TypeOK /\ LeaseInv => OneHolder
  <2> SUFFICES ASSUME TypeOK, LeaseInv, NEW v \in Worker, NEW w \in Worker,
                      Owns(v), Owns(w), JobOf(v) = JobOf(w)
               PROVE  v = w
    BY DEF OneHolder
  <2>1. TokenOf(v) = TokenOf(w)
    BY HolderKey DEF LeaseInv
  <2>2. worker[v].pc # "idle" /\ worker[w].pc # "idle"
    BY DEF Owns
  <2>3. worker[v].key = worker[w].key
    BY <2>1, <2>2, KeyParts
  <2>4. QED
    BY <2>2, <2>3 DEF LeaseInv, KeysDistinct
<1>2. QED
  BY <1>1, TypeCorrect, LeasesHold, PTL

\* The object of a completed job is in the store until the job expires, unless
\* the completing commit took effect and reported an error.
THEOREM CompletedAlwaysServable == Spec => []CompletedIsServable
<1>1. LeaseInv => CompletedIsServable
  BY DEF LeaseInv
<1>2. QED
  BY <1>1, LeasesHold, PTL

-----------------------------------------------------------------------------
(* The rows implement ExportPromise.                                       *)

\* A step that changes no status, attempt or document is a stutter.
LEMMA SameFace ==
    ASSUME TypeOK, TypeOK',
           \A j \in Job : /\ job'[j].status = job[j].status
                          /\ job'[j].attempt = job[j].attempt
                          /\ WinnerOf(job'[j]) = WinnerOf(job[j])
    PROVE  UNCHANGED Promise!promiseVars
BY DEF Promise!promiseVars, OutcomeOf

\* The completing UPDATE delivers the document of the attempt granted last.
LEMMA DeliverStep ==
    ASSUME TypeOK, LeaseInv, NEW w \in Worker, Owns(w), job' = CompletedRow(w)
    PROVE  Promise!Deliver(JobOf(w))
<1>1. /\ JobOf(w) \in Job /\ TokenOf(w) > 0
      /\ job[JobOf(w)].status = "running"
      /\ TokenOf(w) = job[JobOf(w)].attempt
  BY HolderKey DEF LeaseInv
<1>2. \A j \in Job :
        /\ job'[j].attempt = job[j].attempt
        /\ OutcomeOf(job'[j]) =
              IF j = JobOf(w) THEN "ready" ELSE OutcomeOf(job[j])
        /\ WinnerOf(job'[j]) =
              IF j = JobOf(w) THEN TokenOf(w) ELSE WinnerOf(job[j])
  BY <1>1, CompletedRowFields DEF OutcomeOf, WinnerOf, Owns
<1>3. OutcomeOf(job[JobOf(w)]) = "open"
  BY <1>1 DEF OutcomeOf
<1>4. QED
  BY <1>1, <1>2, <1>3 DEF Promise!Deliver

LEMMA RejectStep ==
    ASSUME TypeOK, LeaseInv, NEW w \in Worker, Owns(w), job' = FailedRow(w)
    PROVE  Promise!Reject(JobOf(w))
<1>1. /\ JobOf(w) \in Job /\ TokenOf(w) > 0
      /\ job[JobOf(w)].status = "running"
      /\ TokenOf(w) = job[JobOf(w)].attempt
  BY HolderKey DEF LeaseInv
<1>2. \A j \in Job :
        /\ job'[j].attempt = job[j].attempt
        /\ job'[j].status = IF j = JobOf(w) THEN "failed" ELSE job[j].status
        /\ job'[j].artifact = IF j = JobOf(w) THEN 0 ELSE job[j].artifact
  BY <1>1 DEF FailedRow, TypeOK, Row
<1>3. \A j \in Job :
        /\ OutcomeOf(job'[j]) =
              IF j = JobOf(w) THEN "failed" ELSE OutcomeOf(job[j])
        /\ WinnerOf(job'[j]) = WinnerOf(job[j])
  BY <1>1, <1>2 DEF OutcomeOf, WinnerOf
<1>4. OutcomeOf(job[JobOf(w)]) = "open"
  BY <1>1 DEF OutcomeOf
<1>5. QED
  BY <1>1, <1>2, <1>3, <1>4 DEF Promise!Reject

\* Expiring any set of completed rows withdraws them.
LEMMA WithdrawStep ==
    ASSUME TypeOK, NEW J \in SUBSET Job,
           \A j \in J : job[j].status = "completed",
           job' = [j \in Job |-> IF j \in J THEN Expired(job[j]) ELSE job[j]]
    PROVE  Promise!Withdraw(J)
<1>1. \A j \in Job :
        /\ job'[j].attempt = job[j].attempt
        /\ job'[j].status = IF j \in J THEN "expired" ELSE job[j].status
        /\ j \notin J => job'[j] = job[j]
  BY DEF Expired, TypeOK, Row
<1>2. \A j \in Job :
        /\ OutcomeOf(job'[j]) =
              IF j \in J THEN "withdrawn" ELSE OutcomeOf(job[j])
        /\ WinnerOf(job'[j]) = IF j \in J THEN 0 ELSE WinnerOf(job[j])
  BY <1>1 DEF OutcomeOf, WinnerOf
<1>3. \A j \in J : OutcomeOf(job[j]) = "ready"
  BY DEF OutcomeOf
<1>4. QED
  BY <1>1, <1>2, <1>3 DEF Promise!Withdraw

LEMMA PromiseStep ==
    TypeOK /\ TypeOK' /\ LeaseInv /\ [Next]_vars
        => [Promise!PromiseNext]_(Promise!promiseVars)
<1> SUFFICES ASSUME TypeOK, TypeOK', LeaseInv, [Next]_vars
             PROVE  Promise!PromiseNext \/ UNCHANGED Promise!promiseVars
  OBVIOUS
<1>1. ASSUME NEW j \in Job, CreateJob(j) PROVE Promise!Submit(j)
  BY <1>1, ZenonT(60) DEF CreateJob, Promise!Submit, OutcomeOf, WinnerOf, TypeOK, Row
<1>2. ASSUME NEW w \in Worker, NEW j \in Job, Claim(w, j)
      PROVE  Promise!Grant(j)
  <2>1. \A i \in Job :
          /\ job'[i].status = IF i = j THEN "running" ELSE job[i].status
          /\ job'[i].attempt =
                IF i = j THEN job[i].attempt + 1 ELSE job[i].attempt
          /\ job'[i].artifact = job[i].artifact
    BY <1>2 DEF Claim, TypeOK, Row
  <2>2. job[j].status \in {"pending", "running"}
    BY <1>2 DEF Claim, Claimable
  <2>3. \A i \in Job : /\ OutcomeOf(job'[i]) = OutcomeOf(job[i])
                       /\ WinnerOf(job'[i]) = WinnerOf(job[i])
    BY <2>1, <2>2 DEF OutcomeOf, WinnerOf
  <2>4. OutcomeOf(job[j]) = "open"
    BY <2>2 DEF OutcomeOf
  <2>5. QED
    BY <2>1, <2>3, <2>4 DEF Promise!Grant
<1>3. ASSUME NEW w \in Worker, Progress(w) \/ Trouble(w)
      PROVE  Promise!PromiseNext \/ UNCHANGED Promise!promiseVars
  <2>1. CASE Owns(w) /\ job' = CompletedRow(w)
    BY <2>1, DeliverStep, HolderKey DEF Promise!PromiseNext, LeaseInv
  <2>2. CASE Owns(w) /\ job' = FailedRow(w)
    BY <2>2, RejectStep, HolderKey DEF Promise!PromiseNext, LeaseInv
  <2>3. CASE job' = job
    BY <2>3, SameFace
  <2>4. \/ Owns(w) /\ job' = CompletedRow(w)
        \/ Owns(w) /\ job' = FailedRow(w)
        \/ job' = job
    BY <1>3 DEF Progress, Trouble, FinishRender, MakeDirectory, WriteFile,
                DirectoryVanished, UploadObject, Complete, CompleteRefused,
                Undo, Discard, RecordFailure, FinishRenderWithLateRenewal,
                RenderFails, PutFails, CompleteRaises, DeleteFails,
                RecordFailureRaises, Crash
  <2>5. QED
    BY <2>1, <2>2, <2>3, <2>4
<1>4. CASE ExpireJobs
  BY <1>4, WithdrawStep DEF ExpireJobs, DueJobs, Promise!PromiseNext
<1>5. ASSUME NEW j \in Job, ExpireOnRead(j) PROVE Promise!Withdraw({j})
  <2>1. job' = [i \in Job |-> IF i \in {j} THEN Expired(job[i]) ELSE job[i]]
    BY <1>5 DEF ExpireOnRead, TypeOK
  <2>2. QED
    BY <1>5, <2>1, WithdrawStep DEF ExpireOnRead, DueJobs
<1>6. ASSUME NEW j \in Job, SweepClear(j) PROVE UNCHANGED Promise!promiseVars
  <2>1. job[j].status = "expired"
    BY <1>6 DEF SweepClear, LeaseInv, SweptAreExpired
  <2>2. \A i \in Job : /\ job'[i].status = job[i].status
                       /\ job'[i].attempt = job[i].attempt
                       /\ i # j => job'[i].artifact = job[i].artifact
    BY <1>6 DEF SweepClear, TypeOK, Row
  <2>3. QED
    BY <2>1, <2>2, SameFace DEF WinnerOf
<1>7. ASSUME NEW j, NEW n, Renewed(j, n)
      PROVE  UNCHANGED Promise!promiseVars
  <2>1. \A i \in Job : /\ job'[i].status = job[i].status
                       /\ job'[i].attempt = job[i].attempt
                       /\ job'[i].artifact = job[i].artifact
    BY <1>7 DEF Renewed, TypeOK, Row
  <2>2. QED
    BY <2>1, SameFace DEF WinnerOf
<1>8. ASSUME NEW j \in Job,
             \/ LeaseGoesStale(j) \/ RetentionEnds(j)
             \/ SweepDelete(j) \/ SweepInterrupted(j)
      PROVE  UNCHANGED Promise!promiseVars
  <2>1. \A i \in Job : /\ job'[i].status = job[i].status
                       /\ job'[i].attempt = job[i].attempt
                       /\ job'[i].artifact = job[i].artifact
    BY <1>8 DEF LeaseGoesStale, RetentionEnds, SweepDelete, SweepInterrupted,
                TypeOK, Row
  <2>2. QED
    BY <2>1, SameFace DEF WinnerOf
<1>9. CASE UNCHANGED vars
  BY <1>9, SameFace DEF vars
<1>10. ASSUME NEW w \in Worker, RenewLease(w) PROVE UNCHANGED Promise!promiseVars
  BY <1>10, <1>7 DEF RenewLease
<1>11. ASSUME NEW k \in late, LateRenewal(k) PROVE UNCHANGED Promise!promiseVars
  BY <1>11, <1>7, KeyParts DEF LateRenewal
<1>12. QED
  BY <1>1, <1>2, <1>3, <1>4, <1>5, <1>6, <1>8, <1>9, <1>10, <1>11
     DEF Next, Sweep, Promise!PromiseNext

\* However often a job is taken over, crashed on or raced for, what the client
\* sees follows ExportPromise.
THEOREM PromiseKept == Spec => ImplementsPromise
<1>1. Init => Promise!PromiseInit
  BY DEF Init, NewRow, Promise!PromiseInit, OutcomeOf, WinnerOf
<1>2. QED
  BY <1>1, PromiseStep, TypeCorrect, LeasesHold, PTL
     DEF Spec, ImplementsPromise, Promise!PromiseSpec

-----------------------------------------------------------------------------
(* Orphaned objects.  A step without a fault adds none, and a fault at     *)
(* most one: an object that a row stops naming is gone, one an executor    *)
(* lets go of is gone or named by the row, one that is stored is held.     *)

Orphans == store \ (Referenced \cup Held)

StoreIsUsed == ~External => store = {} /\ \A w \in Worker :
                                   worker[w].pc \notin {"rendered", "opening"}

StoredAreAttempts == \A k \in store : k[2] # 0

DoneHoldsNothing ==
    \A w \in Worker : worker[w].pc \in {"idle", "recording"} => ~worker[w].stored

SweptIsGone == \A j \in sweeping : ArtifactKey(j, job[j].artifact) \notin store

StoreInv ==
    /\ StoreIsUsed
    /\ StoredAreAttempts
    /\ DoneHoldsNothing
    /\ SweptIsGone

\* No new orphan and no fault, or one of each.
OrphansExplained ==
    \/ Orphans' \subseteq Orphans /\ faults' = faults
    \/ /\ faults' = faults + 1
       /\ \E k : Orphans' \subseteq Orphans \cup {k}

OrphansCounted == IsFiniteSet(Orphans) /\ Cardinality(Orphans) <= faults

LEMMA StoreExecutorStep ==
    ASSUME TypeOK, LeaseInv, StoreInv, NEW w \in Worker, Progress(w) \/ Trouble(w)
    PROVE  StoreInv'
<1> USE DEF StoreInv, StoreIsUsed, StoredAreAttempts, DoneHoldsNothing,
            SweptIsGone, LeaseInv, RowsConsistent, KeysGranted, WinnerIsDone,
            SweptAreExpired, External, ArtifactKey, JobOf, TokenOf, TypeOK,
            Row, Executor, Key
<1>1. CASE FinishRender(w)
  BY <1>1 DEF FinishRender, GoTo
<1>2. CASE MakeDirectory(w)
  BY <1>2 DEF MakeDirectory, GoTo
<1>3. CASE WriteFile(w)
  BY <1>3 DEF WriteFile, Stored
<1>4. CASE DirectoryVanished(w)
  BY <1>4 DEF DirectoryVanished, GoTo
<1>5. CASE UploadObject(w)
  BY <1>5 DEF UploadObject, Stored
<1>6. CASE Complete(w)
  BY <1>6, CompletedRowFields, HolderKey DEF Complete, Idle
<1>7. CASE CompleteRefused(w)
  BY <1>7 DEF CompleteRefused, GoTo
<1>8. CASE Undo(w)
  BY <1>8 DEF Undo, DeleteOwn, Delete, Idle
<1>9. CASE Discard(w)
  BY <1>9 DEF Discard, DeleteOwn, Delete
<1>10. CASE RecordFailure(w)
  <2>1. \A j \in sweeping : job'[j] = job[j]
    BY <1>10 DEF RecordFailure, FailedRow, Owns, Matches
  <2>2. UNCHANGED <<backend, store, sweeping>>
        /\ worker' = [worker EXCEPT ![w] = Idle]
    BY <1>10 DEF RecordFailure
  <2>3. QED
    BY <2>1, <2>2 DEF Idle
<1>11. CASE FinishRenderWithLateRenewal(w)
  BY <1>11 DEF FinishRenderWithLateRenewal, GoTo
<1>12. CASE RenderFails(w)
  BY <1>12 DEF RenderFails, GoTo
<1>13. CASE PutFails(w)
  BY <1>13 DEF PutFails, GoTo
<1>14. CASE CompleteRaises(w)
  <2>1. \A j \in sweeping : job'[j] = job[j]
    BY <1>14 DEF CompleteRaises, CompletedRow, Owns, Matches
  <2>2. UNCHANGED <<backend, store, sweeping>> /\ GoTo(w, "discarding")
    BY <1>14 DEF CompleteRaises
  <2>3. QED
    BY <2>1, <2>2 DEF GoTo
<1>15. CASE DeleteFails(w)
  <2>1. UNCHANGED <<backend, job, store, sweeping>>
    BY <1>15 DEF DeleteFails
  <2>2. CASE worker' = [worker EXCEPT ![w] = Idle]
    BY <2>1, <2>2 DEF Idle
  <2>3. CASE worker' = [worker EXCEPT ![w].pc = "recording", ![w].stored = FALSE]
    BY <2>1, <2>3
  <2>4. QED
    BY <1>15, <2>2, <2>3 DEF DeleteFails
<1>16. CASE RecordFailureRaises(w)
  BY <1>16 DEF RecordFailureRaises, Idle
<1>17. CASE Crash(w)
  BY <1>17 DEF Crash, Idle
<1>18. QED
  BY <1>1, <1>2, <1>3, <1>4, <1>5, <1>6, <1>7, <1>8, <1>9, <1>10, <1>11,
     <1>12, <1>13, <1>14, <1>15, <1>16, <1>17 DEF Progress, Trouble

LEMMA StoreStep ==
    ASSUME TypeOK, LeaseInv, StoreInv, [Next]_vars
    PROVE  StoreInv'
<1> USE DEF StoreInv, StoreIsUsed, StoredAreAttempts, DoneHoldsNothing,
            SweptIsGone, LeaseInv, SweptAreExpired, External, ArtifactKey,
            TypeOK, Row, Executor, Key
<1>1. ASSUME NEW j \in Job, CreateJob(j) PROVE StoreInv'
  BY <1>1 DEF CreateJob
<1>2. ASSUME NEW j \in Job, LeaseGoesStale(j) PROVE StoreInv'
  BY <1>2 DEF LeaseGoesStale
<1>3. ASSUME NEW j \in Job, RetentionEnds(j) PROVE StoreInv'
  BY <1>3 DEF RetentionEnds
<1>4. ASSUME NEW w \in Worker, NEW j \in Job, Claim(w, j) PROVE StoreInv'
  BY <1>4 DEF Claim, Claimable
<1>5. ASSUME NEW w \in Worker, RenewLease(w) PROVE StoreInv'
  BY <1>5 DEF RenewLease, Renewed
<1>6. ASSUME NEW w \in Worker, Progress(w) \/ Trouble(w) PROVE StoreInv'
  BY <1>6, StoreExecutorStep
<1>7. ASSUME NEW k \in late, LateRenewal(k) PROVE StoreInv'
  BY <1>7 DEF LateRenewal, Renewed
<1>8. CASE ExpireJobs
  <2>1. \A j \in sweeping : job'[j] = job[j]
    BY <1>8 DEF ExpireJobs, DueJobs
  <2>2. UNCHANGED <<backend, worker, store, sweeping>>
    BY <1>8 DEF ExpireJobs
  <2>3. QED
    BY <2>1, <2>2
<1>9. ASSUME NEW j \in Job, ExpireOnRead(j) PROVE StoreInv'
  BY <1>9 DEF ExpireOnRead, Expired, DueJobs
<1>10. ASSUME NEW j \in Job, SweepDelete(j) PROVE StoreInv'
  BY <1>10 DEF SweepDelete, Delete
<1>11. ASSUME NEW j \in Job, SweepClear(j) PROVE StoreInv'
  BY <1>11 DEF SweepClear
<1>12. ASSUME NEW j \in Job, SweepInterrupted(j) PROVE StoreInv'
  BY <1>12 DEF SweepInterrupted
<1>13. CASE UNCHANGED vars
  BY <1>13 DEF vars
<1>14. QED
  BY <1>1, <1>2, <1>3, <1>4, <1>5, <1>6, <1>7, <1>8, <1>9, <1>10, <1>11,
     <1>12, <1>13 DEF Next, Sweep

-----------------------------------------------------------------------------

\* An object is an orphan when its row does not name it and nobody holds it.
LEMMA OrphanFacts ==
    /\ \A k : k \in Orphans <=>
           /\ k \in store
           /\ job[k[1]].artifact # k[2]
           /\ \A w \in Worker : ~(worker[w].key = k /\ worker[w].stored)
    /\ \A k : k \in Orphans' <=>
           /\ k \in store'
           /\ job'[k[1]].artifact # k[2]
           /\ \A w \in Worker : ~(worker'[w].key = k /\ worker'[w].stored)
BY DEF Orphans, Referenced, Held

\* Whoever stores an object holds it.
LEMMA StoredIsHeld ==
    ASSUME TypeOK, NEW w \in Worker, worker[w].pc # "idle", Stored(w), job' = job
    PROVE  Orphans' \subseteq Orphans
<1> SUFFICES ASSUME NEW k \in Orphans' PROVE k \in Orphans
  OBVIOUS
<1>1. worker'[w].key = worker[w].key /\ worker'[w].stored
  BY DEF Stored, TypeOK, Executor
<1>2. \A v \in Worker : v # w => worker'[v] = worker[v]
  BY DEF Stored, TypeOK
<1>3. k # worker[w].key
  BY <1>1, OrphanFacts
<1>4. k \in store
  BY <1>3, KeyParts, OrphanFacts DEF Stored
<1>5. QED
  BY <1>2, <1>3, <1>4, OrphanFacts

\* A failure is recorded of a job without an artifact.
LEMMA FailureNamesNothing ==
    ASSUME TypeOK, RowsConsistent, NEW w \in Worker, RecordFailure(w)
    PROVE  \A k \in store : job'[k[1]].artifact = job[k[1]].artifact
<1>1. CASE Owns(w)
  <2>1. job[JobOf(w)].artifact = 0 /\ job' = FailedRow(w)
    BY <1>1, HolderKey DEF RecordFailure
  <2>2. \A j \in Job : job'[j].artifact = job[j].artifact
    BY <2>1 DEF FailedRow, TypeOK, Row
  <2>3. \A k \in store : k[1] \in Job
    BY DEF TypeOK, Key
  <2>4. QED
    BY <2>2, <2>3
<1>2. CASE ~Owns(w)
  BY <1>2 DEF RecordFailure
<1>3. QED
  BY <1>1, <1>2

LEMMA OrphanExecutorStep ==
    ASSUME TypeOK, LeaseInv, StoreInv, NEW w \in Worker, Progress(w)
    PROVE  Orphans' \subseteq Orphans /\ faults' = faults
<1> USE OrphanFacts
    DEF StoreInv, StoreIsUsed, StoredAreAttempts, DoneHoldsNothing,
        SweptIsGone, LeaseInv, RowsConsistent, KeysGranted, WinnerIsDone,
        SweptAreExpired, External, ArtifactKey, JobOf, TokenOf, TypeOK,
        Row, Executor, Key
<1>1. CASE FinishRender(w)
  BY <1>1 DEF FinishRender, GoTo
<1>2. CASE MakeDirectory(w)
  BY <1>2 DEF MakeDirectory, GoTo
<1>3. CASE WriteFile(w)
  <2>1. worker[w].pc # "idle" /\ Stored(w) /\ job' = job /\ faults' = faults
    BY <1>3 DEF WriteFile
  <2>2. QED
    BY <2>1, StoredIsHeld
<1>4. CASE DirectoryVanished(w)
  BY <1>4 DEF DirectoryVanished, GoTo
<1>5. CASE UploadObject(w)
  <2>1. worker[w].pc # "idle" /\ Stored(w) /\ job' = job /\ faults' = faults
    BY <1>5 DEF UploadObject
  <2>2. QED
    BY <2>1, StoredIsHeld
<1>6. CASE Complete(w)
  <2>1. Owns(w) /\ job' = CompletedRow(w) /\ UNCHANGED <<store, faults>>
    BY <1>6 DEF Complete
  <2>2. \A v \in Worker : v # w => worker'[v] = worker[v]
    BY <1>6 DEF Complete
  <2>3. /\ job'[JobOf(w)].artifact = TokenOf(w)
        /\ worker[w].key = <<JobOf(w), TokenOf(w)>>
    <3>1. worker[w].pc # "idle"
      BY <2>1 DEF Owns
    <3>2. QED
      BY <2>1, <3>1, CompletedRowFields, KeyParts
  <2>4. ASSUME NEW k \in store, job[k[1]].artifact = k[2]
        PROVE  job'[k[1]].artifact = k[2]
    <3>1. worker[w].pc # "idle" /\ job[JobOf(w)].artifact = 0
      BY <2>1, HolderKey
    <3>2. k[1] \in Job /\ k[1] # JobOf(w)
      BY <2>4, <3>1
    <3>3. QED
      BY <2>1, <2>4, <3>1, <3>2, CompletedRowFields
  <2>5. ASSUME NEW k \in Orphans' PROVE k # worker[w].key
    BY <2>3
  <2>6. QED
    BY <2>1, <2>2, <2>4, <2>5
<1>7. CASE CompleteRefused(w)
  BY <1>7 DEF CompleteRefused, GoTo
<1>8. CASE Undo(w)
  BY <1>8 DEF Undo, DeleteOwn, Delete, Idle
<1>9. CASE Discard(w)
  BY <1>9 DEF Discard, DeleteOwn, Delete
<1>10. CASE RecordFailure(w)
  <2>1. /\ UNCHANGED <<store, faults>> /\ worker[w].pc = "recording"
        /\ worker' = [worker EXCEPT ![w] = Idle]
    BY <1>10 DEF RecordFailure
  <2>2. \A k \in store : job'[k[1]].artifact = job[k[1]].artifact
    BY <1>10, FailureNamesNothing
  <2>3. \A v \in Worker : v # w => worker'[v] = worker[v]
    BY <2>1 DEF TypeOK
  <2>4. Orphans' \subseteq Orphans
    BY <2>1, <2>2, <2>3
  <2>5. QED
    BY <2>1, <2>4
<1>11. QED
  BY <1>1, <1>2, <1>3, <1>4, <1>5, <1>6, <1>7, <1>8, <1>9, <1>10 DEF Progress

\* A fault concerns one executor, and so at most one object.
LEMMA OrphanFaultStep ==
    ASSUME TypeOK, LeaseInv, StoreInv, NEW w \in Worker, Trouble(w)
    PROVE  /\ Orphans' \subseteq Orphans \cup {worker[w].key}
           /\ faults' = faults + 1
<1> USE OrphanFacts
    DEF StoreInv, StoredAreAttempts, LeaseInv, RowsConsistent, ArtifactKey, JobOf, TokenOf, TypeOK,
        Row, Executor, Key, Fault
<1>1. CASE FinishRenderWithLateRenewal(w)
  BY <1>1 DEF FinishRenderWithLateRenewal, GoTo
<1>2. CASE RenderFails(w)
  BY <1>2 DEF RenderFails, GoTo
<1>3. CASE PutFails(w)
  BY <1>3, KeyParts DEF PutFails, GoTo
<1>4. CASE CompleteRaises(w)
  <2>1. store' = store /\ faults' = faults + 1
    BY <1>4 DEF CompleteRaises
  <2>2. \A v \in Worker : /\ worker'[v].key = worker[v].key
                          /\ worker'[v].stored = worker[v].stored
    BY <1>4 DEF CompleteRaises, GoTo
  <2>3. \A k \in store : job[k[1]].artifact = k[2] => job'[k[1]].artifact = k[2]
    <3>1. CASE job' = job
      BY <3>1
    <3>2. CASE Owns(w) /\ job' = CompletedRow(w)
      BY <3>2, CompletedRowFields, HolderKey DEF StoreInv, StoredAreAttempts
    <3>3. QED
      BY <1>4, <3>1, <3>2 DEF CompleteRaises
  <2>4. QED
    BY <2>1, <2>2, <2>3
<1>5. CASE DeleteFails(w)
  BY <1>5 DEF DeleteFails, Idle
<1>6. CASE RecordFailureRaises(w)
  BY <1>6 DEF RecordFailureRaises, Idle
<1>7. CASE Crash(w)
  BY <1>7 DEF Crash, Idle
<1>8. QED
  BY <1>1, <1>2, <1>3, <1>4, <1>5, <1>6, <1>7 DEF Trouble

LEMMA OrphanStep ==
    ASSUME TypeOK, LeaseInv, StoreInv, [Next]_vars
    PROVE  OrphansExplained
<1> USE OrphanFacts
    DEF StoreInv, StoreIsUsed, StoredAreAttempts, DoneHoldsNothing, SweptIsGone,
        External, ArtifactKey, TypeOK, Row, Executor, Key
<1> DEFINE NoOrphan == Orphans' \subseteq Orphans /\ faults' = faults
           OneOrphan(k) == /\ faults' = faults + 1
                           /\ Orphans' \subseteq Orphans \cup {k}
<1>1. ASSUME NEW j \in Job, CreateJob(j) PROVE NoOrphan
  BY <1>1 DEF CreateJob
<1>2. ASSUME NEW j \in Job, LeaseGoesStale(j)
      PROVE  Orphans' \subseteq Orphans /\ faults' \in {faults, faults + 1}
  BY <1>2 DEF LeaseGoesStale, Fault
<1>3. ASSUME NEW j \in Job, RetentionEnds(j) PROVE NoOrphan
  BY <1>3 DEF RetentionEnds
<1>4. ASSUME NEW w \in Worker, NEW j \in Job, Claim(w, j) PROVE NoOrphan
  BY <1>4 DEF Claim
<1>5. ASSUME NEW w \in Worker, RenewLease(w) PROVE NoOrphan
  BY <1>5 DEF RenewLease, Renewed
<1>6. ASSUME NEW w \in Worker, Progress(w) PROVE NoOrphan
  BY <1>6, OrphanExecutorStep
<1>7. ASSUME NEW w \in Worker, Trouble(w) PROVE OneOrphan(worker[w].key)
  BY <1>7, OrphanFaultStep
<1>8. ASSUME NEW k \in late, LateRenewal(k) PROVE NoOrphan
  BY <1>8 DEF LateRenewal, Renewed
<1>9. ASSUME ExpireJobs PROVE NoOrphan
  <2>1. UNCHANGED <<backend, worker, store, faults>>
    BY <1>9 DEF ExpireJobs
  <2>2. ASSUME NEW k \in store PROVE job'[k[1]].artifact = job[k[1]].artifact
    <3>1. k[1] \in Job /\ External
      OBVIOUS
    <3>2. Expired(job[k[1]]).artifact = job[k[1]].artifact
      BY <3>1 DEF Expired
    <3>3. job'[k[1]] \in {job[k[1]], Expired(job[k[1]])}
      BY <1>9, <3>1 DEF ExpireJobs
    <3>4. QED
      BY <3>2, <3>3
  <2>3. QED
    BY <2>1, <2>2
<1>10. ASSUME NEW j \in Job, ExpireOnRead(j) PROVE NoOrphan
  BY <1>10 DEF ExpireOnRead, Expired, DueJobs
<1>11. ASSUME NEW j \in Job, SweepDelete(j) PROVE NoOrphan
  BY <1>11 DEF SweepDelete, Delete
<1>12. ASSUME NEW j \in Job, SweepClear(j) PROVE NoOrphan
  BY <1>12 DEF SweepClear
<1>13. ASSUME NEW j \in Job, SweepInterrupted(j)
       PROVE  Orphans' \subseteq Orphans /\ faults' = faults + 1
  BY <1>13 DEF SweepInterrupted, Fault
<1>14. ASSUME UNCHANGED vars PROVE NoOrphan
  BY <1>14 DEF vars
<1>15. QED
  BY <1>1, <1>2, <1>3, <1>4, <1>5, <1>6, <1>7, <1>8, <1>9, <1>10, <1>11,
     <1>12, <1>13, <1>14 DEF Next, Sweep, OrphansExplained

\* A set that is finite, of at most n elements, and gains at most one.
LEMMA OneMore ==
    ASSUME NEW S, NEW T, NEW x, NEW n \in Nat,
           IsFiniteSet(S), Cardinality(S) <= n, T \subseteq S \cup {x}
    PROVE  IsFiniteSet(T) /\ Cardinality(T) <= n + 1
<1>1. Cardinality(S) \in Nat
  BY FS_CardinalityType
<1>2. IsFiniteSet(S \cup {x})
  BY FS_AddElement
<1>3. Cardinality(S \cup {x}) \in {Cardinality(S), Cardinality(S) + 1}
  BY FS_AddElement
<1>4. IsFiniteSet(T) /\ Cardinality(T) <= Cardinality(S \cup {x})
  BY <1>2, FS_Subset
<1>5. Cardinality(T) \in Nat
  BY <1>4, FS_CardinalityType
<1>6. QED
  BY <1>1, <1>3, <1>4, <1>5

LEMMA NoneMore ==
    ASSUME NEW S, NEW T, NEW n \in Nat,
           IsFiniteSet(S), Cardinality(S) <= n, T \subseteq S
    PROVE  IsFiniteSet(T) /\ Cardinality(T) <= n
BY FS_Subset, FS_CardinalityType

LEMMA CountStep ==
    ASSUME TypeOK, OrphansCounted, OrphansExplained
    PROVE  OrphansCounted'
<1>1. faults \in Nat
  BY FaultBound DEF TypeOK
<1>2. CASE Orphans' \subseteq Orphans /\ faults' = faults
  BY <1>1, <1>2, NoneMore DEF OrphansCounted
<1>3. ASSUME faults' = faults + 1, NEW k, Orphans' \subseteq Orphans \cup {k}
      PROVE  OrphansCounted'
  BY <1>1, <1>3, OneMore DEF OrphansCounted
<1>4. QED
  BY <1>2, <1>3 DEF OrphansExplained

\* No more objects are left in the store without a row or an executor than
\* faults have happened, for any number of jobs, executors and faults.
THEOREM OrphansAlwaysBounded == Spec => []OrphansBoundedByFaults
<1>1. Init => StoreInv
  BY DEF Init, NewRow, Idle, StoreInv, StoreIsUsed, StoredAreAttempts,
         DoneHoldsNothing, SweptIsGone
<1>2. Init => OrphansCounted
  BY FS_EmptySet DEF Init, Orphans, OrphansCounted
<1>3. TypeOK /\ LeaseInv /\ StoreInv /\ OrphansCounted /\ [Next]_vars
        => StoreInv' /\ OrphansCounted'
  BY StoreStep, OrphanStep, CountStep
<1>4. OrphansCounted => OrphansBoundedByFaults
  BY DEF OrphansCounted, Orphans, OrphansBoundedByFaults
<1>5. QED
  BY <1>1, <1>2, <1>3, <1>4, TypeCorrect, LeasesHold, PTL DEF Spec
==============================================================================
