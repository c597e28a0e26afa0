-------------------------- MODULE ExportLease_proofs --------------------------
(* Machine-checked proofs about ExportLease, for every beat and stale window  *)
(* that validate_export_lease_window accepts and every time that any call     *)
(* takes; ClaimTime and RenewalTime only say which calls are named slow.      *)
EXTENDS ExportLease, TLAPS

IInv == TypeOK /\ HeartbeatAge

LEMMA LeaseInit == Init => IInv
<1> SUFFICES ASSUME Init PROVE IInv
  OBVIOUS
<1>1. lost \in BOOLEAN
  BY Zenon DEF Init
<1>2. QED
  BY <1>1, LeaseWindow DEF Init, IInv, TypeOK, HeartbeatAge, Missed, LeaseWindow

LEMMA LeaseStep == IInv /\ [Next]_vars => IInv'
<1> SUFFICES ASSUME IInv, [Next]_vars PROVE IInv'
  OBVIOUS
<1> USE LeaseWindow, SlowMeans
    DEF IInv, TypeOK, HeartbeatAge, Missed, StartAge, PaceOf,
        SlowRenewal, LeaseWindow, SlowMeans
<1>1. CASE Tick
  BY <1>1 DEF Tick, MayGoOn, Later
<1>2. CASE StartHeartbeat
  BY <1>2 DEF StartHeartbeat
<1>3. CASE ReadFails
  BY <1>3 DEF ReadFails
<1>4. CASE BeginRenewal
  BY <1>4 DEF BeginRenewal
<1>5. CASE Renew
  BY <1>5 DEF Renew, NextWait
<1>6. CASE RenewRaises
  BY <1>6 DEF RenewRaises, NextWait
<1>7. CASE RenewRefused
  BY <1>7 DEF RenewRefused
<1>8. CASE StopHeartbeat
  BY <1>8 DEF StopHeartbeat
<1>9. CASE Deliver
  BY <1>9 DEF Deliver
<1>10. CASE Takeover
  BY <1>10 DEF Takeover
<1>11. CASE UNCHANGED vars
  BY <1>11 DEF vars
<1>12. QED
  BY <1>1, <1>2, <1>3, <1>4, <1>5, <1>6, <1>7, <1>8, <1>9, <1>10, <1>11 DEF Next

\* A lease that neither two renewals in a row nor a slow call have spoilt is
\* younger than the stale window.
LEMMA LeaseFresh ==
    ASSUME IInv, phase \in {"claiming", "rendering"}, ~lost, misses # 2, ~SlowCall
    PROVE  ~IsStale
<1> USE LeaseWindow, SlowMeans
    DEF IInv, TypeOK, HeartbeatAge, Missed, StartAge, SlowCall, SlowRenewal,
        IsStale, LeaseWindow, SlowMeans
<1>1. CASE phase = "claiming"
  BY <1>1
<1>2. CASE phase = "rendering"
  BY <1>2
<1>3. QED
  BY <1>1, <1>2

LEMMA LeaseInvariant == Spec => []IInv
BY LeaseInit, LeaseStep, PTL DEF Spec

\* Clocks, thread, executor and history keep their types, for every accepted
\* configuration.
THEOREM LeaseTyped == Spec => []TypeOK
<1>1. IInv => TypeOK
  BY DEF IInv
<1>2. QED
  BY <1>1, LeaseInvariant, PTL

\* As long as no call is slow, the age of the heartbeat is bounded by the renewals
\* that failed in a row, for every configuration validate_export_lease_window
\* accepts.
THEOREM HeartbeatAgeBounded == Spec => []HeartbeatAge
<1>1. IInv => HeartbeatAge
  BY DEF IInv
<1>2. QED
  BY <1>1, LeaseInvariant, PTL

\* For every configuration validate_export_lease_window accepts, and however long
\* rendering takes, a live executor loses its lease before it has rendered only
\* after two renewals in a row have failed or a call to the database was slow.
THEOREM SlowRenderingIsSafe == Spec => TakeoverNeedsCause
<1> DEFINE Caused ==
      lost' /\ ~lost /\ phase \in {"claiming", "rendering"} =>
          misses = 2 \/ SlowCall
<1>1. IInv /\ [Next]_vars => [Caused]_vars
  <2> SUFFICES ASSUME IInv, Next, lost', ~lost,
                      phase \in {"claiming", "rendering"}
               PROVE  misses = 2 \/ SlowCall
    BY DEF vars
  <2>1. Takeover
    BY DEF Next, Tick, StartHeartbeat, ReadFails, BeginRenewal, Renew, RenewRaises,
           RenewRefused, StopHeartbeat, Deliver
  <2>2. QED
    BY <2>1, LeaseFresh DEF Takeover
<1>2. QED
  BY <1>1, LeaseInvariant, PTL DEF Spec, TakeoverNeedsCause
==============================================================================
