------------------------------ MODULE ModelCache ------------------------------
(***************************************************************************)
(* The cache of model results (agent/result_cache.py): callers with the    *)
(* same key share one provider call, its flight; the last caller to leave  *)
(* a call that still runs cancels it; a successful result is kept for a    *)
(* while, and the least recently used one makes room.                      *)
(*                                                                         *)
(* All callers run in one event loop.  Between two awaits nothing else     *)
(* runs, so an action is what a caller does up to its next await.  Callers *)
(* that wait for the same call wake one after the other, and others may    *)
(* come in between.  Results are told apart by the flight they came from.  *)
(***************************************************************************)
EXTENDS Naturals, Sequences, FiniteSets

CONSTANTS
    Caller,         \* requests being served at once
    Key,
    MaxEntries,
    MaxFlights      \* bound on provider calls

ASSUME CacheEnabled == MaxEntries \in Nat \ {0} /\ MaxFlights \in Nat

ASSUME CallersAreFinite == IsFiniteSet(Caller)

VARIABLES
    flights,    \* the provider calls made, in order: key, state and waiters
    inflight,   \* key -> number of its flight, 0 if there is none
    entries,    \* _entries, least recently used first
    waitsFor    \* the flight each caller awaits, 0 outside get_or_create

vars == <<flights, inflight, entries, waitsFor>>

FlightState == {"running", "succeeded", "failed", "cancelled"}
Flight == [key : Key, state : FlightState, waiters : Nat]
Entry == [key : Key, flight : 1..MaxFlights, expired : BOOLEAN]

Flights == DOMAIN flights

TypeOK ==
    /\ flights \in Seq(Flight) /\ Len(flights) <= MaxFlights
    /\ inflight \in [Key -> 0..Len(flights)]
    /\ entries \in Seq(Entry) /\ Len(entries) <= MaxEntries
    /\ waitsFor \in [Caller -> 0..Len(flights)]

Init ==
    /\ flights = <<>>
    /\ inflight = [k \in Key |-> 0]
    /\ entries = <<>>
    /\ waitsFor = [c \in Caller |-> 0]

-----------------------------------------------------------------------------

\* The elements of s that are in kept, in their order.
Keep(s, kept) ==
    LET upTo[n \in 0..Len(s)] ==
            IF n = 0 THEN <<>>
            ELSE IF s[n] \in kept THEN Append(upTo[n - 1], s[n]) ELSE upTo[n - 1]
    IN  upTo[Len(s)]

\* _discard_expired.
Fresh == Keep(entries, {e \in Entry : ~e.expired})
FreshOf(k) == Keep(Fresh, {e \in Entry : e.key = k})
FreshOthers(k) == Keep(Fresh, {e \in Entry : e.key # k})
FreshKeys == {Fresh[i].key : i \in DOMAIN Fresh}

Running(f) == flights[f].state = "running"

\* The newest n elements of s.
BugLastOf(s, n) == s
LastOf(s, n) == IF Len(s) <= n THEN s ELSE SubSeq(s, Len(s) - n + 1, Len(s))

\* _store.
Store(k, f) ==
    entries' = Append(LastOf(FreshOthers(k), MaxEntries - 1),
                      [key |-> k, flight |-> f, expired |-> FALSE])

\* A flight that is over leaves the map, and its result is kept if it has one.
BugHasResult(f) == ~Running(f)
HasResult(f) == flights[f].state = "succeeded"

Settle(k, f) ==
    /\ inflight' = [inflight EXCEPT ![k] = 0]
    /\ IF HasResult(f) THEN Store(k, f) ELSE UNCHANGED entries

\* The result is there: it becomes the most recently used one.
Hit(k) ==
    /\ k \in FreshKeys
    /\ entries' = FreshOthers(k) \o FreshOf(k)
    /\ UNCHANGED <<flights, inflight, waitsFor>>

\* The caller starts the provider call and waits for it.
Miss(c, k) ==
    /\ k \notin FreshKeys
    /\ inflight[k] = 0
    /\ Len(flights) < MaxFlights
    /\ flights' = Append(flights, [key |-> k, state |-> "running", waiters |-> 1])
    /\ inflight' = [inflight EXCEPT ![k] = Len(flights) + 1]
    /\ entries' = Fresh
    /\ waitsFor' = [waitsFor EXCEPT ![c] = Len(flights) + 1]

\* The caller waits for a call that is running.
Share(c, k) ==
    LET f == inflight[k] IN
    /\ k \notin FreshKeys
    /\ f # 0
    /\ Running(f)
    /\ flights' = [flights EXCEPT ![f].waiters = @ + 1]
    /\ entries' = Fresh
    /\ waitsFor' = [waitsFor EXCEPT ![c] = f]
    /\ UNCHANGED inflight

\* The call is over and none of its callers has woken yet: awaiting it does not
\* suspend, and this caller settles it.
ShareSettled(k) ==
    LET f == inflight[k] IN
    /\ k \notin FreshKeys
    /\ f # 0
    /\ ~Running(f)
    /\ IF HasResult(f)
       THEN Settle(k, f)
       ELSE inflight' = [inflight EXCEPT ![k] = 0] /\ entries' = Fresh
    /\ UNCHANGED <<flights, waitsFor>>

GetOrCreate(c, k) ==
    /\ waitsFor[c] = 0
    /\ Hit(k) \/ Miss(c, k) \/ Share(c, k) \/ ShareSettled(k)

\* The provider answers or raises.
Finish(f) ==
    /\ Running(f)
    /\ \E outcome \in {"succeeded", "failed"} :
          flights' = [flights EXCEPT ![f].state = outcome]
    /\ UNCHANGED <<inflight, entries, waitsFor>>

\* `current is flight`: another caller has not settled it, nor has a newer call
\* taken its place.
BugIsCurrent(f) == inflight[flights[f].key] # 0
IsCurrent(f) == inflight[flights[f].key] = f

BugUnwanted(f) == TRUE
Unwanted(f) == flights[f].waiters = 1

\* The finally block of a caller that its flight's result wakes, or that is
\* itself cancelled.
Leave(c) ==
    LET f == waitsFor[c]
        k == flights[f].key
        left == [flights EXCEPT ![f].waiters = @ - 1]
    IN  /\ waitsFor' = [waitsFor EXCEPT ![c] = 0]
        /\ \/ /\ ~IsCurrent(f)
              /\ UNCHANGED <<flights, inflight, entries>>
           \/ /\ IsCurrent(f)
              /\ ~Running(f)
              /\ flights' = left
              /\ Settle(k, f)
           \/ /\ IsCurrent(f)
              /\ Running(f)
              /\ Unwanted(f)
              /\ flights' = [left EXCEPT ![f].state = "cancelled"]
              /\ inflight' = [inflight EXCEPT ![k] = 0]
              /\ UNCHANGED entries
           \/ /\ IsCurrent(f)
              /\ Running(f)
              /\ ~Unwanted(f)
              /\ flights' = left
              /\ UNCHANGED <<inflight, entries>>

Wake(c) == waitsFor[c] # 0 /\ ~Running(waitsFor[c]) /\ Leave(c)

CallerCancelled(c) == waitsFor[c] # 0 /\ Leave(c)

\* ttl_seconds have passed since the entry was stored.
Expire(i) ==
    /\ ~entries[i].expired
    /\ entries' = [entries EXCEPT ![i].expired = TRUE]
    /\ UNCHANGED <<flights, inflight, waitsFor>>

Next ==
    \/ \E c \in Caller :
          \/ \E k \in Key : GetOrCreate(c, k)
          \/ Wake(c)
          \/ CallerCancelled(c)
    \/ \E f \in Flights : Finish(f)
    \/ \E i \in DOMAIN entries : Expire(i)

Spec == Init /\ [][Next]_vars

-----------------------------------------------------------------------------
(* Properties.                                                             *)

\* Concurrent callers with one key cost one provider call, whoever joins,
\* leaves, fails or comes back in between.
OneCallPerKey ==
    \A f, g \in Flights :
        Running(f) /\ Running(g) /\ flights[f].key = flights[g].key => f = g

\* A running call can be found by later callers and has somebody waiting, all of
\* them counted: a caller that goes away neither leaves a call running for
\* nobody nor cancels one that another caller still awaits.
CallsAreWanted ==
    \A f \in Flights :
        LET waiting == {c \in Caller : waitsFor[c] = f} IN
        /\ Running(f) =>
              /\ inflight[flights[f].key] = f
              /\ waiting # {}
              /\ flights[f].waiters = Cardinality(waiting)
        /\ flights[f].state = "cancelled" => waiting = {}

\* What is cached for a key is the result of the last call made for it, and that
\* call succeeded: a caller that wakes late does not put an older result back.
CachedIsNewest ==
    \A i \in DOMAIN entries :
        LET k == entries[i].key IN
        /\ flights[entries[i].flight].state = "succeeded"
        /\ flights[entries[i].flight].key = k
        /\ \A f \in Flights : flights[f].key = k => f <= entries[i].flight
        /\ inflight[k] = 0
        /\ \A j \in DOMAIN entries : entries[j].key = k => j = i
==============================================================================
