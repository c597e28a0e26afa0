---------------------------- MODULE ExportPromise ----------------------------
(***************************************************************************)
(* What the export service promises the client of an export job, whatever  *)
(* the number of workers, crashes, takeovers and failed calls behind it:   *)
(* execution is granted to one attempt at a time, the attempt granted last *)
(* is the only one that can settle the job, and a settled job never opens  *)
(* again; a delivered document can only be withdrawn.                      *)
(***************************************************************************)
EXTENDS Naturals

CONSTANT Job

VARIABLES
    outcome,  \* what a client polling the job can conclude
    granted,  \* how many attempts have been granted, the last is the current
    winner    \* the attempt whose document can be downloaded, 0 if none can

promiseVars == <<outcome, granted, winner>>

Outcome == {"absent", "open", "ready", "failed", "withdrawn"}

PromiseTypeOK ==
    /\ outcome \in [Job -> Outcome]
    /\ granted \in [Job -> Nat]
    /\ winner \in [Job -> Nat]

PromiseInit ==
    /\ outcome = [j \in Job |-> "absent"]
    /\ granted = [j \in Job |-> 0]
    /\ winner = [j \in Job |-> 0]

Submit(j) ==
    /\ outcome[j] = "absent"
    /\ outcome' = [outcome EXCEPT ![j] = "open"]
    /\ UNCHANGED <<granted, winner>>

Grant(j) ==
    /\ outcome[j] = "open"
    /\ granted' = [granted EXCEPT ![j] = @ + 1]
    /\ UNCHANGED <<outcome, winner>>

Deliver(j) ==
    /\ outcome[j] = "open"
    /\ granted[j] > 0
    /\ outcome' = [outcome EXCEPT ![j] = "ready"]
    /\ winner' = [winner EXCEPT ![j] = granted[j]]
    /\ UNCHANGED granted

Reject(j) ==
    /\ outcome[j] = "open"
    /\ granted[j] > 0
    /\ outcome' = [outcome EXCEPT ![j] = "failed"]
    /\ UNCHANGED <<granted, winner>>

\* One retention sweep withdraws every document that is due.
Withdraw(J) ==
    /\ \A j \in J : outcome[j] = "ready"
    /\ outcome' = [j \in Job |-> IF j \in J THEN "withdrawn" ELSE outcome[j]]
    /\ winner' = [j \in Job |-> IF j \in J THEN 0 ELSE winner[j]]
    /\ UNCHANGED granted

PromiseNext ==
    \/ \E j \in Job : Submit(j) \/ Grant(j) \/ Deliver(j) \/ Reject(j)
    \/ \E J \in SUBSET Job : Withdraw(J)

PromiseSpec == PromiseInit /\ [][PromiseNext]_promiseVars
==============================================================================
