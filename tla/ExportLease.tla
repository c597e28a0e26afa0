----------------------------- MODULE ExportLease -----------------------------
(***************************************************************************)
(* The clock side of one export lease, which ExportJobs leaves abstract:   *)
(* the executor that claimed the job, the heartbeat thread that renews the *)
(* lease while the document is rendered (ExportLeaseHeartbeat), and a      *)
(* rival that claims the job once the heartbeat is older than the stale    *)
(* window.  Time advances in ticks.  Claiming, reading, renewing,          *)
(* rendering and uploading take any time; whether a claim or a renewal was *)
(* slow is recorded, and ClaimTime and RenewalTime say what counts as      *)
(* slow.                                                                   *)
(***************************************************************************)
EXTENDS Naturals

CONSTANTS
    Beat,       \* export_lease_heartbeat_seconds, in ticks
    Stale,      \* export_stale_minutes, in ticks
    ClaimTime,  \* a claim with the reads after it is slow if it takes longer
    RenewalTime \* a renewal is slow if it takes longer

\* validate_export_lease_window
ASSUME LeaseWindow ==
    /\ Beat \in Nat \ {0}
    /\ Stale \in Nat
    /\ Beat * 3 <= Stale

\* How slow a claim and renewals may be and leave two renewals room to fail.
\* This bounds the word "slow" of the properties, not the database.
ASSUME SlowMeans ==
    /\ ClaimTime \in Nat
    /\ RenewalTime \in Nat
    /\ ClaimTime + 2 * RenewalTime <= Beat
    /\ 3 * RenewalTime <= Beat

VARIABLES
    phase,      \* the executor: claiming, rendering, delivering or done
    thread,     \* the heartbeat thread: idle (not running), waiting or renewing
    timer,      \* ticks since the thread began to wait, or to renew
    age,        \* ticks since heartbeat_at, counted up to Stale + 1
    misses,     \* renewals in a row that raised, counted up to 2
    pace,       \* history: whether a call since the last renewal was slow
    lost        \* a rival has claimed the job

vars == <<phase, thread, timer, age, misses, pace, lost>>

TypeOK ==
    /\ phase \in {"claiming", "rendering", "delivering", "done"}
    /\ thread \in {"idle", "waiting", "renewing"}
    /\ timer \in 0..(Stale + 1)
    /\ thread = "waiting" => timer <= Beat
    /\ age \in 0..(Stale + 1)
    /\ misses \in 0..2
    /\ pace \in {"prompt", "slow"}
    /\ lost \in BOOLEAN

\* claim_export_job takes the time it will write: its UPDATE, the commit and the
\* reads of the job, the process, the project and the revision are still to come.
Init ==
    /\ phase = "claiming"
    /\ thread = "idle"
    /\ timer = 0
    /\ age = 0
    /\ misses = 0
    /\ pace = "prompt"
    /\ lost = FALSE

-----------------------------------------------------------------------------

\* heartbeat_at < now - stale window.
BugIsStale == age > Beat
IsStale == age > Stale

\* Event.wait returns after Beat ticks; nothing bounds a call.
BugMayGoOn == thread = "waiting" => timer <= Beat
MayGoOn == thread = "waiting" => timer < Beat

\* Both clocks stop mattering beyond the stale window.
Later(ticks) == IF ticks <= Stale THEN ticks + 1 ELSE ticks

Tick ==
    /\ phase # "done"
    /\ MayGoOn
    /\ timer' = IF thread = "idle" THEN timer ELSE Later(timer)
    /\ age' = Later(age)
    /\ UNCHANGED <<phase, thread, misses, pace, lost>>

PaceOf(wasSlow) == IF wasSlow THEN "slow" ELSE "prompt"
SlowRenewal == timer > RenewalTime

\* The claim is made, everything read, and the thread starts to wait.
StartHeartbeat ==
    /\ phase = "claiming"
    /\ phase' = "rendering"
    /\ thread' = "waiting"
    /\ timer' = 0
    /\ pace' = PaceOf(age > ClaimTime)
    /\ UNCHANGED <<age, misses, lost>>

\* A read after the claim raises: the failure is recorded without a heartbeat.
ReadFails ==
    /\ phase = "claiming"
    /\ phase' = "delivering"
    /\ UNCHANGED <<thread, timer, age, misses, pace, lost>>

\* Event.wait timed out.
BeginRenewal ==
    /\ thread = "waiting"
    /\ timer = Beat
    /\ thread' = "renewing"
    /\ timer' = 0
    /\ UNCHANGED <<phase, age, misses, pace, lost>>

\* After a renewal the thread waits again, unless stop() was called.
NextWait ==
    /\ thread' = IF phase = "rendering" THEN "waiting" ELSE "idle"
    /\ timer' = 0

\* renew_export_job_lease has matched its row and returns; the heartbeat it wrote
\* is the time of some moment since the call began.
BugRenew ==
    /\ thread = "renewing"
    /\ ~lost
    /\ misses' = 0
    /\ pace' = PaceOf(SlowRenewal)
    /\ NextWait
    /\ UNCHANGED <<phase, age, lost>>
Renew ==
    /\ thread = "renewing"
    /\ ~lost
    /\ age' \in 0..timer
    /\ misses' = 0
    /\ pace' = PaceOf(SlowRenewal)
    /\ NextWait
    /\ UNCHANGED <<phase, lost>>

\* The renewal raises: logged, and tried again after the next wait.
RenewRaises ==
    /\ thread = "renewing"
    /\ misses' = IF misses < 2 THEN misses + 1 ELSE misses
    /\ pace' = PaceOf(pace = "slow" \/ SlowRenewal)
    /\ NextWait
    /\ UNCHANGED <<phase, age, lost>>

\* The renewal matches no row: the thread notes the lost lease and ends.
RenewRefused ==
    /\ thread = "renewing"
    /\ lost
    /\ thread' = "idle"
    /\ timer' = 0
    /\ UNCHANGED <<phase, age, misses, pace, lost>>

\* The document is rendered or the renderer has raised, and the `finally` block
\* stops the heartbeat, which ends a thread that waits; a renewal in progress may
\* outlive the join.  What follows runs without a heartbeat.
StopHeartbeat ==
    /\ phase = "rendering"
    /\ phase' = "delivering"
    /\ thread' = IF thread = "waiting" THEN "idle" ELSE thread
    /\ timer' = IF thread = "waiting" THEN 0 ELSE timer
    /\ UNCHANGED <<age, misses, pace, lost>>

\* The upload and the completing UPDATE, or the record of the failure.
Deliver ==
    /\ phase = "delivering"
    /\ phase' = "done"
    /\ UNCHANGED <<thread, timer, age, misses, pace, lost>>

\* claim_export_job by a rival.
Takeover ==
    /\ phase # "done"
    /\ ~lost
    /\ IsStale
    /\ age' = 0
    /\ lost' = TRUE
    /\ UNCHANGED <<phase, thread, timer, misses, pace>>

Next ==
    \/ Tick \/ StartHeartbeat \/ ReadFails
    \/ BeginRenewal \/ Renew \/ RenewRaises \/ RenewRefused
    \/ StopHeartbeat \/ Deliver \/ Takeover

Spec == Init /\ [][Next]_vars

-----------------------------------------------------------------------------
(* Properties.                                                             *)

\* A call was slow, or one that has not returned is slow by now.
SlowCall ==
    \/ pace = "slow"
    \/ phase = "claiming" /\ age > ClaimTime
    \/ thread = "renewing" /\ SlowRenewal

\* A document is not rendered twice because rendering is slow (the claim of
\* validate_export_lease_window, a beat of a third of the stale window): until the
\* executor has rendered, the job is taken over only after two renewals in a row
\* failed or a call to the database was slow, however the claim, the renewals and
\* the waits between them add up.
TakeoverNeedsCause ==
    [][lost' /\ ~lost /\ phase \in {"claiming", "rendering"} =>
          misses = 2 \/ SlowCall]_vars

-----------------------------------------------------------------------------
(* The inductive invariant behind it: how old a heartbeat can get.         *)

\* The oldest a heartbeat is when the thread begins to wait.
StartAge == IF ClaimTime > RenewalTime THEN ClaimTime ELSE RenewalTime

Missed(m) == misses = m /\ phase = "rendering" /\ ~lost /\ pace = "prompt"

HeartbeatAge ==
    /\ phase = "claiming" => misses = 0 /\ thread = "idle" /\ pace = "prompt"
    /\ phase = "rendering" /\ ~lost => thread # "idle"
    /\ Missed(0) /\ thread = "waiting" => age <= StartAge + timer
    /\ Missed(0) /\ thread = "renewing" => age <= StartAge + Beat + timer
    /\ Missed(1) /\ thread = "waiting" =>
          age <= StartAge + Beat + RenewalTime + timer
    /\ Missed(1) /\ thread = "renewing" =>
          age <= StartAge + 2 * Beat + RenewalTime + timer
==============================================================================
