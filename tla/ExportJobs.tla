------------------------------ MODULE ExportJobs ------------------------------
(***************************************************************************)
(* The persistent document exports of the API: the export_job rows of      *)
(* db/repository.py, the executors that run process_export_job of          *)
(* documents/export_service.py (export workers, or the background tasks of *)
(* the inline mode), the artifact store of documents/artifact_store.py and *)
(* the retention sweep every worker round and every export request runs.   *)
(*                                                                         *)
(* A claim token is modelled by the attempt number: claim_export_job draws *)
(* a fresh token and increments attempt_count in one UPDATE, so the two    *)
(* name the same thing.  Time is abstract: a lease is fresh or stale and a *)
(* document's retention has ended or not (the lease arithmetic is in       *)
(* ExportLease).  Every step outside the code's control that goes wrong    *)
(* (a crash, a failed or unanswered call, a lease that goes stale under a  *)
(* live executor) spends one of MaxFaults faults.                          *)
(***************************************************************************)
EXTENDS Naturals, FiniteSets

CONSTANTS
    Job,        \* ids of export_job rows
    Worker,     \* executors of process_export_job
    NoKey,      \* the key of an executor that executes nothing
    MaxFaults   \* bound on the faults of one behaviour

ASSUME FaultBound == MaxFaults \in Nat
ASSUME NoKeyIsNotAKey == NoKey \notin Job \X Nat

VARIABLES
    backend,    \* export_storage_backend, fixed when the processes start
    job,        \* the rows of export_job
    worker,     \* the executors: where they are, for which attempt
    store,      \* keys of the objects in the artifact store
    dirs,       \* jobs whose directory exists in the filesystem store
    late,       \* renewals still in flight when heartbeat.stop() gave up
    sweeping,   \* jobs whose object a sweep deleted, row not yet cleared
    unacked,    \* jobs completed by a commit that reported an error
    faults      \* faults so far

vars == <<backend, job, worker, store, dirs, late, sweeping, unacked, faults>>

Status == {"absent", "pending", "running", "completed", "failed", "expired"}
Step == {"idle", "rendering", "rendered", "opening", "completing", "undoing",
         "discarding", "recording"}
Key == Job \X Nat

\* token and artifact are attempt numbers, 0 for NULL.  With the database
\* backend the artifact is the row's own content, otherwise the object whose
\* key the row holds.  fresh: the heartbeat is younger than the stale window.
\* due: expires_at has passed.
Row == [status : Status, token : Nat, attempt : Nat, artifact : Nat,
        fresh : BOOLEAN, due : BOOLEAN]

\* stored: the local variable stored_artifact is set.
Executor == [pc : Step, key : Key \cup {NoKey}, stored : BOOLEAN]

TypeOK ==
    /\ backend \in {"database", "filesystem", "s3"}
    /\ job \in [Job -> Row]
    /\ worker \in [Worker -> Executor]
    /\ \A w \in Worker : worker[w].pc # "idle" => worker[w].key \in Key
    /\ store \subseteq Key
    /\ dirs \subseteq Job
    /\ late \subseteq Key
    /\ sweeping \subseteq Job
    /\ unacked \subseteq Job
    /\ faults \in 0..MaxFaults

NewRow == [status |-> "absent", token |-> 0, attempt |-> 0, artifact |-> 0,
           fresh |-> FALSE, due |-> FALSE]
Idle == [pc |-> "idle", key |-> NoKey, stored |-> FALSE]

Init ==
    /\ backend \in {"database", "filesystem", "s3"}
    /\ job = [j \in Job |-> NewRow]
    /\ worker = [w \in Worker |-> Idle]
    /\ store = {}
    /\ dirs = {}
    /\ late = {}
    /\ sweeping = {}
    /\ unacked = {}
    /\ faults = 0

-----------------------------------------------------------------------------
(* Helpers.  An operator whose name starts with Bug is not part of the     *)
(* system: it is a plausible mistake in the definition that follows it,    *)
(* and shows that a property would notice.                                 *)

Fault == faults < MaxFaults /\ faults' = faults + 1

External == backend # "database"

\* The id of the row and the token of the attempt an executor works for.
JobOf(w) == worker[w].key[1]
TokenOf(w) == worker[w].key[2]

BugSharedToken(j) == 1
BugEarlyToken(j) == job[j].attempt - 1
NewToken(j) == job[j].attempt + 1

\* The object key <export_id>/<claim_token>.artifact is scoped to the attempt.
BugArtifactKey(j, n) == <<j, 1>>
ArtifactKey(j, n) == <<j, n>>

\* The WHERE clause that fences renewals and results.
BugMatches(j, n) == job[j].status = "running"
Matches(j, n) == job[j].status = "running" /\ job[j].token = n

Owns(w) == worker[w].pc # "idle" /\ Matches(JobOf(w), TokenOf(w))

\* An executor holds the lease of the job.
Executed(j) == \E w \in Worker : Owns(w) /\ JobOf(w) = j

BugClaimable(j) == job[j].status = "pending"
Claimable(j) ==
    \/ job[j].status = "pending"
    \/ job[j].status = "running" /\ ~job[j].fresh

\* delete(): the object goes, and in the filesystem store the job's directory
\* with it once it is empty.
Delete(k) ==
    /\ store' = store \ {k}
    /\ dirs' = IF \E other \in store \ {k} : other[1] = k[1]
                  THEN dirs ELSE dirs \ {k[1]}

\* Rows an expiry touches: inline content goes at once, an object key stays.
BugExpired(row) == [row EXCEPT !.status = "expired", !.artifact = 0]
Expired(row) ==
    [row EXCEPT !.status = "expired",
                !.artifact = IF External THEN @ ELSE 0]

GoTo(w, step) == worker' = [worker EXCEPT ![w].pc = step]

-----------------------------------------------------------------------------
(* Requests and claims.                                                    *)

CreateJob(j) ==
    /\ job[j].status = "absent"
    /\ job' = [job EXCEPT ![j].status = "pending"]
    /\ UNCHANGED <<backend, worker, store, dirs, late, sweeping, unacked, faults>>

\* claim_export_job in one UPDATE; the executor then reads the process, its
\* project and the revision, starts the heartbeat thread and renders.
Claim(w, j) ==
    /\ worker[w].pc = "idle"
    /\ Claimable(j)
    /\ job' = [job EXCEPT ![j].status = "running",
                          ![j].token = NewToken(j),
                          ![j].attempt = @ + 1,
                          ![j].fresh = TRUE,
                          ![j].due = FALSE]
    /\ worker' = [worker EXCEPT
                    ![w] = [pc |-> "rendering", key |-> <<j, NewToken(j)>>,
                            stored |-> FALSE]]
    /\ UNCHANGED <<backend, store, dirs, late, sweeping, unacked, faults>>

Renewed(j, n) ==
    job' = IF Matches(j, n) THEN [job EXCEPT ![j].fresh = TRUE] ELSE job

\* The heartbeat thread runs while the executor renders.
RenewLease(w) ==
    /\ worker[w].pc = "rendering"
    /\ Renewed(JobOf(w), TokenOf(w))
    /\ UNCHANGED <<backend, worker, store, dirs, late, sweeping, unacked, faults>>

\* A renewal that heartbeat.stop() did not wait for commits at last.
LateRenewal(k) ==
    /\ k \in late
    /\ Renewed(k[1], k[2])
    /\ late' = late \ {k}
    /\ UNCHANGED <<backend, worker, store, dirs, sweeping, unacked, faults>>

\* The stale window passes without a renewal: the executor is gone, or it is
\* alive and slow, which counts as a fault.
LeaseGoesStale(j) ==
    /\ job[j].status = "running"
    /\ job[j].fresh
    /\ job' = [job EXCEPT ![j].fresh = FALSE]
    /\ IF Executed(j) THEN Fault ELSE UNCHANGED faults
    /\ UNCHANGED <<backend, worker, store, dirs, late, sweeping, unacked>>

-----------------------------------------------------------------------------
(* process_export_job after the claim.                                     *)

\* The document is rendered and the heartbeat stopped.
FinishRender(w) ==
    /\ worker[w].pc = "rendering"
    /\ GoTo(w, IF External THEN "rendered" ELSE "completing")
    /\ UNCHANGED <<backend, job, store, dirs, late, sweeping, unacked, faults>>

\* The join of the heartbeat thread times out with a renewal in flight.
FinishRenderWithLateRenewal(w) ==
    /\ worker[w].pc = "rendering"
    /\ Fault
    /\ GoTo(w, IF External THEN "rendered" ELSE "completing")
    /\ late' = late \cup {worker[w].key}
    /\ UNCHANGED <<backend, job, store, dirs, sweeping, unacked>>

\* Reading the revision or rendering raises; the `finally` block stops a heartbeat
\* that has been started, which may leave a renewal in flight here too.
RenderFails(w) ==
    /\ worker[w].pc = "rendering"
    /\ Fault
    /\ GoTo(w, "discarding")
    /\ late' \in {late, late \cup {worker[w].key}}
    /\ UNCHANGED <<backend, job, store, dirs, sweeping, unacked>>

\* FilesystemArtifactStore.put: the directory is made first...
MakeDirectory(w) ==
    /\ worker[w].pc = "rendered"
    /\ backend = "filesystem"
    /\ GoTo(w, "opening")
    /\ dirs' = dirs \cup {JobOf(w)}
    /\ UNCHANGED <<backend, job, store, late, sweeping, unacked, faults>>

Stored(w) ==
    /\ store' = store \cup {ArtifactKey(JobOf(w), TokenOf(w))}
    /\ worker' = [worker EXCEPT ![w].pc = "completing", ![w].stored = TRUE]

\* ...and the temporary file is created in it, written and renamed.
WriteFile(w) ==
    /\ worker[w].pc = "opening"
    /\ JobOf(w) \in dirs
    /\ Stored(w)
    /\ UNCHANGED <<backend, job, dirs, late, sweeping, unacked, faults>>

\* Somebody's delete removed the empty directory in between: OSError.
DirectoryVanished(w) ==
    /\ worker[w].pc = "opening"
    /\ JobOf(w) \notin dirs
    /\ GoTo(w, "discarding")
    /\ UNCHANGED <<backend, job, store, dirs, late, sweeping, unacked, faults>>

\* S3ArtifactStore.put.
UploadObject(w) ==
    /\ worker[w].pc = "rendered"
    /\ backend = "s3"
    /\ Stored(w)
    /\ UNCHANGED <<backend, job, dirs, late, sweeping, unacked, faults>>

\* put raises, and stored_artifact stays None.  The answer to an S3 upload can
\* also be lost after the object was stored.
PutFails(w) ==
    /\ worker[w].pc \in {"rendered", "opening"}
    /\ Fault
    /\ GoTo(w, "discarding")
    /\ \/ UNCHANGED store
       \/ /\ backend = "s3"
          /\ store' = store \cup {ArtifactKey(JobOf(w), TokenOf(w))}
    /\ UNCHANGED <<backend, job, dirs, late, sweeping, unacked>>

CompletedRow(w) ==
    [job EXCEPT ![JobOf(w)].status = "completed",
                ![JobOf(w)].token = 0,
                ![JobOf(w)].artifact = TokenOf(w)]

\* complete_export_job matches its row.
Complete(w) ==
    /\ worker[w].pc = "completing"
    /\ Owns(w)
    /\ job' = CompletedRow(w)
    /\ worker' = [worker EXCEPT ![w] = Idle]
    /\ UNCHANGED <<backend, store, dirs, late, sweeping, unacked, faults>>

\* The lease was lost: the result is refused and the object taken back.
CompleteRefused(w) ==
    /\ worker[w].pc = "completing"
    /\ ~Owns(w)
    /\ GoTo(w, "undoing")
    /\ UNCHANGED <<backend, job, store, dirs, late, sweeping, unacked, faults>>

\* The commit raises: rolled back, or done by a server whose answer is lost.
CompleteRaises(w) ==
    /\ worker[w].pc = "completing"
    /\ Fault
    /\ GoTo(w, "discarding")
    /\ \/ UNCHANGED <<job, unacked>>
       \/ /\ Owns(w)
          /\ job' = CompletedRow(w)
          /\ unacked' = unacked \cup {JobOf(w)}
    /\ UNCHANGED <<backend, store, dirs, late, sweeping>>

\* _delete_artifact_safely
DeleteOwn(w) ==
    IF worker[w].stored
       THEN Delete(ArtifactKey(JobOf(w), TokenOf(w)))
       ELSE UNCHANGED <<store, dirs>>

\* After a refused result the executor is done...
Undo(w) ==
    /\ worker[w].pc = "undoing"
    /\ DeleteOwn(w)
    /\ worker' = [worker EXCEPT ![w] = Idle]
    /\ UNCHANGED <<backend, job, late, sweeping, unacked, faults>>

\* ...and after an exception it goes on to record the failure.
Discard(w) ==
    /\ worker[w].pc = "discarding"
    /\ DeleteOwn(w)
    /\ worker' = [worker EXCEPT ![w].pc = "recording", ![w].stored = FALSE]
    /\ UNCHANGED <<backend, job, late, sweeping, unacked, faults>>

\* The delete fails, which is logged and forgotten.
DeleteFails(w) ==
    /\ worker[w].stored
    /\ Fault
    /\ \/ /\ worker[w].pc = "undoing"
          /\ worker' = [worker EXCEPT ![w] = Idle]
       \/ /\ worker[w].pc = "discarding"
          /\ worker' = [worker EXCEPT ![w].pc = "recording", ![w].stored = FALSE]
    /\ UNCHANGED <<backend, job, store, dirs, late, sweeping, unacked>>

FailedRow(w) ==
    [job EXCEPT ![JobOf(w)].status = "failed",
                ![JobOf(w)].token = 0,
                ![JobOf(w)].artifact = 0]

\* fail_export_job, fenced like the result.
RecordFailure(w) ==
    /\ worker[w].pc = "recording"
    /\ job' = IF Owns(w) THEN FailedRow(w) ELSE job
    /\ worker' = [worker EXCEPT ![w] = Idle]
    /\ UNCHANGED <<backend, store, dirs, late, sweeping, unacked, faults>>

\* Recording the failure raises: the row stays running until it is stale.
RecordFailureRaises(w) ==
    /\ worker[w].pc = "recording"
    /\ Fault
    /\ worker' = [worker EXCEPT ![w] = Idle]
    /\ UNCHANGED <<backend, job, store, dirs, late, sweeping, unacked>>

\* The process dies, its heartbeat thread with it, and is started again.
Crash(w) ==
    /\ worker[w].pc # "idle"
    /\ Fault
    /\ worker' = [worker EXCEPT ![w] = Idle]
    /\ UNCHANGED <<backend, job, store, dirs, late, sweeping, unacked>>

-----------------------------------------------------------------------------
(* Retention.                                                              *)

RetentionEnds(j) ==
    /\ job[j].status = "completed"
    /\ ~job[j].due
    /\ job' = [job EXCEPT ![j].due = TRUE]
    /\ UNCHANGED <<backend, worker, store, dirs, late, sweeping, unacked, faults>>

DueJobs == {j \in Job : job[j].status = "completed" /\ job[j].due}

\* expire_export_jobs: one UPDATE for every due row.
ExpireJobs ==
    /\ DueJobs # {}
    /\ job' = [j \in Job |-> IF j \in DueJobs THEN Expired(job[j]) ELSE job[j]]
    /\ UNCHANGED <<backend, worker, store, dirs, late, sweeping, unacked, faults>>

\* require_export_job expires the row a request reads.
ExpireOnRead(j) ==
    /\ j \in DueJobs
    /\ job' = [job EXCEPT ![j] = Expired(@)]
    /\ UNCHANGED <<backend, worker, store, dirs, late, sweeping, unacked, faults>>

\* cleanup_expired_export_artifacts, for one listed row: the object first...
SweepDelete(j) ==
    /\ job[j].status = "expired"
    /\ job[j].artifact # 0
    /\ Delete(ArtifactKey(j, job[j].artifact))
    /\ sweeping' = sweeping \cup {j}
    /\ UNCHANGED <<backend, job, worker, late, unacked, faults>>

\* ...then clear_export_artifact, which names the row by its id alone.
BugSweepForgets(j) ==
    /\ j \in sweeping
    /\ sweeping' = sweeping \ {j}
    /\ UNCHANGED <<backend, job, worker, store, dirs, late, unacked, faults>>
SweepClear(j) ==
    /\ j \in sweeping
    /\ job' = [job EXCEPT ![j].artifact = 0]
    /\ sweeping' = sweeping \ {j}
    /\ UNCHANGED <<backend, worker, store, dirs, late, unacked, faults>>

\* The sweep dies or its commit fails between the two.
SweepInterrupted(j) ==
    /\ j \in sweeping
    /\ Fault
    /\ sweeping' = sweeping \ {j}
    /\ UNCHANGED <<backend, job, worker, store, dirs, late, unacked>>

-----------------------------------------------------------------------------

\* What an executor does when nothing outside the code goes wrong.
Progress(w) ==
    \/ FinishRender(w) \/ MakeDirectory(w) \/ WriteFile(w)
    \/ DirectoryVanished(w) \/ UploadObject(w)
    \/ Complete(w) \/ CompleteRefused(w)
    \/ Undo(w) \/ Discard(w) \/ RecordFailure(w)

Trouble(w) ==
    \/ FinishRenderWithLateRenewal(w) \/ RenderFails(w) \/ PutFails(w)
    \/ CompleteRaises(w) \/ DeleteFails(w) \/ RecordFailureRaises(w)
    \/ Crash(w)

Sweep(j) ==
    \/ ExpireOnRead(j) \/ SweepDelete(j) \/ SweepClear(j) \/ SweepInterrupted(j)

Next ==
    \/ \E j \in Job : CreateJob(j) \/ LeaseGoesStale(j) \/ RetentionEnds(j)
    \/ \E w \in Worker, j \in Job : Claim(w, j)
    \/ \E w \in Worker : RenewLease(w) \/ Progress(w) \/ Trouble(w)
    \/ \E k \in late : LateRenewal(k)
    \/ ExpireJobs
    \/ \E j \in Job : Sweep(j)

\* Executors are loops that always take their next step, and poll for work; a
\* round of any of them sweeps; time passes.
Fairness ==
    /\ \A w \in Worker : WF_vars(Progress(w))
    /\ \A w \in Worker : WF_vars(\E j \in Job : Claim(w, j))
    /\ \A j \in Job : WF_vars(LeaseGoesStale(j) /\ ~Executed(j))
    /\ WF_vars(ExpireJobs)
    /\ \A j \in Job : WF_vars(SweepDelete(j) /\ j \notin sweeping)
    /\ \A j \in Job : WF_vars(SweepClear(j))

Spec == Init /\ [][Next]_vars

FairSpec == Spec /\ Fairness

-----------------------------------------------------------------------------
(* Properties.                                                             *)

\* At most one executor holds the lease of a job, however many took it over:
\* the fence of complete_export_job and fail_export_job lets at most one through.
OneHolder ==
    \A v, w \in Worker :
        Owns(v) /\ Owns(w) /\ JobOf(v) = JobOf(w) => v = w

\* A completed job can be downloaded: the object its row names is in the store,
\* whatever earlier attempts of the same job still write, undo or sweep.  The
\* exception is a completing commit that took effect and reported an error,
\* after which process_export_job deletes the object of the completed job.
CompletedIsServable ==
    \A j \in Job :
        job[j].status = "completed" /\ External /\ j \notin unacked =>
            ArtifactKey(j, job[j].artifact) \in store

Referenced == {k \in store : job[k[1]].artifact = k[2]}
Held == {k \in store : \E w \in Worker : worker[w].key = k /\ worker[w].stored}

\* The lease fence keeps a superseded executor from deciding the outcome: the
\* attempt that holds the lease goes wrong only when a call of its own fails.
HolderFailsOnlyByFault ==
    [][\A w \in Worker :
         Owns(w) /\ worker[w].pc # "discarding" /\ worker'[w].pc = "discarding"
            => faults' > faults]_vars

\* No object is left in the store that neither a row names nor an executor
\* still holds, unless a fault (a crash after the upload, a lost answer, a
\* failed delete) left it there, one object for one fault at most.  No sweep
\* ever finds such an object again.
OrphansBoundedByFaults ==
    Cardinality(store \ (Referenced \cup Held)) <= faults

\* Every export that was requested is settled in the end: work goes on after
\* crashes and takeovers until the job is delivered or has failed.
EveryJobSettles ==
    \A j \in Job : job[j].status = "pending" ~>
        job[j].status \in {"completed", "failed", "expired"}

\* A document whose retention has ended is withdrawn and its row cleared, also
\* when the sweep is interrupted between the delete and the clear.
DueDocumentsAreSwept ==
    \A j \in Job : job[j].due ~> job[j].status = "expired" /\ job[j].artifact = 0

\* What a client polling a row can conclude, and whose document it can get.
OutcomeOf(row) ==
    CASE row.status \in {"pending", "running"} -> "open"
      [] row.status = "completed" -> "ready"
      [] row.status = "expired" -> "withdrawn"
      [] OTHER -> row.status
WinnerOf(row) == IF row.status = "completed" THEN row.artifact ELSE 0

Promise == INSTANCE ExportPromise WITH
    outcome <- [j \in Job |-> OutcomeOf(job[j])],
    granted <- [j \in Job |-> job[j].attempt],
    winner <- [j \in Job |-> WinnerOf(job[j])]

\* The rows implement the promise made to the client: only the last claimant
\* settles a job, and a settled job never opens again.
ImplementsPromise == Promise!PromiseSpec
-----------------------------------------------------------------------------
(* The inductive invariant behind OneHolder, CompletedIsServable and       *)
(* ImplementsPromise, in named parts.                                      *)

\* Only a running row has a token, the token of its last attempt, and only a
\* settled row has a document.
RowsConsistent ==
    \A j \in Job :
        /\ job[j].status = "running" =>
              job[j].attempt > 0 /\ job[j].token = job[j].attempt
        /\ job[j].status # "running" => job[j].token = 0
        /\ job[j].artifact # 0 => job[j].status \in {"completed", "expired"}

\* Executors work for attempts that were granted, no two for the same one.
KeysGranted ==
    \A w \in Worker : worker[w].pc # "idle" =>
        TokenOf(w) > 0 /\ TokenOf(w) <= job[JobOf(w)].attempt
KeysDistinct ==
    \A v, w \in Worker :
        worker[v].pc # "idle" /\ worker[w].pc # "idle" /\ v # w =>
            worker[v].key # worker[w].key

\* Whoever still works for the attempt that won is cleaning up after a
\* completing commit that reported an error.
WinnerIsDone ==
    \A w \in Worker :
        worker[w].pc # "idle" /\ job[JobOf(w)].artifact = TokenOf(w) =>
            worker[w].pc \in {"discarding", "recording"} /\ JobOf(w) \in unacked

UploadedIsStored ==
    \A w \in Worker :
        worker[w].pc = "completing" /\ External => worker[w].key \in store

SweptAreExpired == \A j \in sweeping : job[j].status = "expired"

LeaseInv ==
    /\ RowsConsistent
    /\ KeysGranted
    /\ KeysDistinct
    /\ WinnerIsDone
    /\ UploadedIsStored
    /\ SweptAreExpired
    /\ CompletedIsServable
==============================================================================
