-------------------------- MODULE ModelCache_proofs --------------------------
(***************************************************************************)
(* Theorems about the cache of model results.                              *)
(*                                                                         *)
(* First the calls in flight and their callers (IInv); what the entries    *)
(* hold does not matter to them, a hit or a miss may go either way.  A     *)
(* flight is waited for by exactly the callers it counts as long as the    *)
(* map holds it, and a flight the map does not hold is over.               *)
(*                                                                         *)
(* Then the entries (RInv).  Keep is a recursive function, so what it      *)
(* returns is proved by induction over the sequence, with a set of         *)
(* naturals in the place of the property.                                  *)
(***************************************************************************)
EXTENDS ModelCache, FiniteSetTheorems, SequenceTheorems, WellFoundedInduction,
        TLAPS

Waiting(f) == {c \in Caller : waitsFor[c] = f}

CallsTyped ==
    /\ flights \in Seq(Flight)
    /\ inflight \in [Key -> 0..Len(flights)]
    /\ waitsFor \in [Caller -> 0..Len(flights)]

MapIsKeyed == \A k \in Key : inflight[k] # 0 => flights[inflight[k]].key = k

RunningIsCurrent == \A f \in Flights : Running(f) => IsCurrent(f)

RunningIsCounted == \A f \in Flights : Running(f) => flights[f].waiters # 0

CurrentCountsCallers ==
    \A f \in Flights : IsCurrent(f) => flights[f].waiters = Cardinality(Waiting(f))

CancelledIsLeft ==
    \A f \in Flights : flights[f].state = "cancelled" => Waiting(f) = {}

IInv ==
    /\ CallsTyped
    /\ MapIsKeyed
    /\ RunningIsCurrent
    /\ RunningIsCounted
    /\ CurrentCountsCallers
    /\ CancelledIsLeft

-----------------------------------------------------------------------------

\* The callers of a flight can be counted.
LEMMA WaitingIsFinite ==
    ASSUME NEW f
    PROVE  IsFiniteSet(Waiting(f)) /\ Cardinality(Waiting(f)) \in Nat
<1>1. Waiting(f) \in SUBSET Caller
  BY DEF Waiting
<1>2. QED
  BY <1>1, CallersAreFinite, FS_Subset, FS_CardinalityType

\* A caller that joins a flight is one more, one that leaves it one fewer.
LEMMA JoinCounts ==
    ASSUME CallsTyped, NEW c \in Caller, NEW f, NEW g, waitsFor[c] # f,
           waitsFor' = [waitsFor EXCEPT ![c] = g]
    PROVE  /\ Waiting(f)' = IF g = f THEN Waiting(f) \cup {c} ELSE Waiting(f)
           /\ g = f => Cardinality(Waiting(f)') = Cardinality(Waiting(f)) + 1
<1>1. Waiting(f)' = IF g = f THEN Waiting(f) \cup {c} ELSE Waiting(f)
  BY DEF Waiting, CallsTyped
<1>2. c \notin Waiting(f)
  BY DEF Waiting
<1>3. QED
  BY <1>1, <1>2, WaitingIsFinite, FS_AddElement

LEMMA LeaveCounts ==
    ASSUME CallsTyped, NEW c \in Caller, NEW f \in Flights, waitsFor[c] = f,
           waitsFor' = [waitsFor EXCEPT ![c] = 0]
    PROVE  /\ Waiting(f)' = Waiting(f) \ {c}
           /\ Cardinality(Waiting(f)') = Cardinality(Waiting(f)) - 1
           /\ \A g \in Flights : g # f => Waiting(g)' = Waiting(g)
<1>1. f # 0 /\ \A g \in Flights : g # 0
  BY DEF Flights, CallsTyped
<1>2. Waiting(f)' = Waiting(f) \ {c}
  BY <1>1 DEF Waiting, CallsTyped
<1>3. c \in Waiting(f)
  BY DEF Waiting
<1>4. Cardinality(Waiting(f) \ {c}) = Cardinality(Waiting(f)) - 1
  BY <1>3, WaitingIsFinite, FS_RemoveElement
<1>6. Cardinality(Waiting(f)') = Cardinality(Waiting(f)) - 1
  BY <1>2, <1>4
<1>5. ASSUME NEW g \in Flights, g # f PROVE Waiting(g)' = Waiting(g)
  BY <1>1, <1>5 DEF Waiting, CallsTyped
<1>7. QED
  BY <1>2, <1>6, <1>5

\* Counting a caller in or out keeps a flight a flight.
LEMMA FlightRecounted ==
    ASSUME NEW r \in Flight, NEW n \in Nat
    PROVE  /\ [r EXCEPT !.waiters = n] \in Flight
           /\ [r EXCEPT !.waiters = n].key = r.key
           /\ [r EXCEPT !.waiters = n].state = r.state
           /\ [r EXCEPT !.waiters = n].waiters = n
BY DEF Flight

LEMMA FlightCounts == \A r \in Flight : r.waiters \in Nat
BY DEF Flight

\* One flight gets a new record, for the same key.
LEMMA FlightReplaced ==
    ASSUME CallsTyped, NEW j \in Flights, NEW new \in Flight,
           new.key = flights[j].key,
           flights' = [flights EXCEPT ![j] = new]
    PROVE  /\ flights' \in Seq(Flight)
           /\ Len(flights') = Len(flights)
           /\ Flights' = Flights
           /\ \A f \in Flights :
                 /\ f # 0
                 /\ flights[f] \in Flight
                 /\ flights'[f] = IF f = j THEN new ELSE flights[f]
                 /\ flights'[f].key = flights[f].key
<1> USE DEF CallsTyped, Flights
<1>1. /\ flights' \in Seq(Flight)
      /\ Len(flights') = Len(flights)
      /\ Flights' = Flights
  OBVIOUS
<1>2. \A f \in Flights :
          f # 0 /\ flights[f] \in Flight
                /\ flights'[f] = IF f = j THEN new ELSE flights[f]
  OBVIOUS
<1>3. QED
  BY <1>1, <1>2

LEMMA CallsInit == Init => IInv
<1> SUFFICES ASSUME Init PROVE IInv
  OBVIOUS
<1>1. Flights = {}
  BY DEF Init, Flights
<1>2. QED
  BY <1>1 DEF Init, IInv, CallsTyped, MapIsKeyed, RunningIsCurrent,
              RunningIsCounted, CurrentCountsCallers, CancelledIsLeft

-----------------------------------------------------------------------------
(* One lemma for each action that changes a flight or its callers.         *)

\* A miss makes the newest flight, with its caller for its only one.
LEMMA MissStep ==
    ASSUME IInv, NEW c \in Caller, NEW k \in Key, waitsFor[c] = 0, Miss(c, k)
    PROVE  IInv'
<1> PICK n : n = Len(flights) + 1
  OBVIOUS
<1> DEFINE new == [key |-> k, state |-> "running", waiters |-> 1]
<1> USE DEF IInv, CallsTyped
<1>1. /\ new \in Flight
      /\ inflight[k] = 0
      /\ flights' = Append(flights, new)
      /\ inflight' = [inflight EXCEPT ![k] = n]
      /\ waitsFor' = [waitsFor EXCEPT ![c] = n]
  BY DEF Miss, Flight, FlightState
<1>2. /\ flights' \in Seq(Flight)
      /\ Len(flights') = n
      /\ n \in Nat
      /\ Flights = 1..Len(flights)
      /\ Flights' = 1..n
      /\ flights'[n] = new
      /\ \A f \in Flights : f \in Flights' /\ f # n /\ flights'[f] = flights[f]
      /\ \A f \in Flights' : f \in Flights \/ f = n
  <2>1. flights' \in Seq(Flight) /\ Len(flights') = n /\ n \in Nat
    BY <1>1
  <2>2. Flights = 1..Len(flights) /\ Flights' = 1..n
    BY <2>1 DEF Flights
  <2>3. flights'[n] = new /\ \A f \in 1..Len(flights) : flights'[f] = flights[f]
    BY <1>1
  <2>4. QED
    BY <2>1, <2>2, <2>3
<1>3. CallsTyped'
  BY <1>1, <1>2
<1>4. MapIsKeyed'
  <2> SUFFICES ASSUME NEW j \in Key, inflight'[j] # 0
               PROVE  flights'[inflight'[j]].key = j
    BY DEF MapIsKeyed
  <2>1. CASE j = k
    BY <1>1, <1>2, <2>1
  <2>2. CASE j # k
    BY <1>1, <1>2, <2>2 DEF MapIsKeyed
  <2>3. QED
    BY <2>1, <2>2
<1>5. ASSUME NEW f \in Flights
      PROVE  /\ flights[f].key \in Key
             /\ flights[f].key = k => ~IsCurrent(f) /\ ~Running(f)
             /\ Running(f)' <=> Running(f)
             /\ IsCurrent(f)' <=> IsCurrent(f)
             /\ Waiting(f)' = Waiting(f)
  <2>1. flights[f] \in Flight /\ f # 0 /\ f # n
    BY <1>2
  <2>2. flights[f].key \in Key
    BY <2>1 DEF Flight
  <2>3. flights[f].key = k => ~IsCurrent(f) /\ ~Running(f)
    BY <1>1, <2>1 DEF IsCurrent, RunningIsCurrent
  <2>4. IsCurrent(f)' <=> IsCurrent(f)
    BY <1>1, <1>2, <2>1, <2>2 DEF IsCurrent
  <2>5. Running(f)' <=> Running(f)
    BY <1>2 DEF Running
  <2>6. Waiting(f)' = Waiting(f)
    BY <1>1, <2>1, JoinCounts
  <2>7. QED
    BY <2>2, <2>3, <2>4, <2>5, <2>6
<1>6. RunningIsCurrent' /\ RunningIsCounted'
  BY <1>1, <1>2, <1>5 DEF RunningIsCurrent, RunningIsCounted, IsCurrent, Running
<1>7. Waiting(n) = {} /\ Cardinality(Waiting(n)') = 1
  <2>1. Waiting(n) = {}
    BY <1>2 DEF Waiting
  <2>2. Cardinality(Waiting(n)') = Cardinality(Waiting(n)) + 1
    <3>1. waitsFor[c] # n
      BY <1>2
    <3>2. QED
      BY <1>1, <3>1, JoinCounts
  <2>3. Cardinality(Waiting(n)) = 0
    BY <2>1, FS_EmptySet
  <2>4. QED
    BY <2>1, <2>2, <2>3
<1>8. CurrentCountsCallers'
  <2> SUFFICES ASSUME NEW f \in Flights', IsCurrent(f)'
               PROVE  flights'[f].waiters = Cardinality(Waiting(f)')
    BY DEF CurrentCountsCallers
  <2>1. CASE f = n
    BY <1>2, <1>7, <2>1
  <2>2. CASE f \in Flights
    BY <1>2, <1>5, <2>2 DEF CurrentCountsCallers
  <2>3. QED
    BY <1>2, <2>1, <2>2
<1>9. CancelledIsLeft'
  <2> SUFFICES ASSUME NEW f \in Flights', flights'[f].state = "cancelled"
               PROVE  Waiting(f)' = {}
    BY DEF CancelledIsLeft
  <2>1. f \in Flights /\ flights[f].state = "cancelled"
    BY <1>2
  <2>2. QED
    BY <1>5, <2>1 DEF CancelledIsLeft
<1>10. QED
  BY <1>3, <1>4, <1>6, <1>8, <1>9

\* What is said of a flight is about its record, the map and its callers.
LEMMA SameFlights ==
    ASSUME IInv, UNCHANGED <<flights, waitsFor>>,
           NEW k \in Key,
           inflight' = inflight \/
               /\ inflight' = [inflight EXCEPT ![k] = 0]
               /\ inflight[k] # 0 => ~Running(inflight[k])
    PROVE  IInv'
<1> USE DEF IInv, CallsTyped, Flights
<1>1. CallsTyped' /\ MapIsKeyed'
  BY DEF MapIsKeyed
<1>2. \A f \in Flights : IsCurrent(f)' => IsCurrent(f)
  <2> SUFFICES ASSUME NEW f \in Flights, IsCurrent(f)' PROVE IsCurrent(f)
    OBVIOUS
  <2>1. flights[f] \in Flight /\ f # 0
    OBVIOUS
  <2>2. QED
    BY <2>1 DEF IsCurrent, Flight
<1>3. RunningIsCurrent' /\ RunningIsCounted'
  <2> SUFFICES ASSUME NEW f \in Flights, Running(f)
               PROVE  IsCurrent(f)' /\ flights[f].waiters # 0
    BY DEF RunningIsCurrent, RunningIsCounted, Running
  <2>1. flights[f] \in Flight /\ f # 0 /\ IsCurrent(f)
    BY DEF RunningIsCurrent
  <2>2. QED
    BY <2>1 DEF IsCurrent, Flight, RunningIsCounted
<1>4. \A f : Waiting(f)' = Waiting(f)
  BY DEF Waiting
<1>5. CurrentCountsCallers' /\ CancelledIsLeft'
  BY <1>2, <1>4 DEF CurrentCountsCallers, CancelledIsLeft
<1>6. QED
  BY <1>1, <1>3, <1>5

\* A caller that joins a running flight is counted by it.
LEMMA ShareStep ==
    ASSUME IInv, NEW c \in Caller, NEW k \in Key, waitsFor[c] = 0, Share(c, k)
    PROVE  IInv'
<1> PICK j : j = inflight[k]
  OBVIOUS
<1> USE DEF IInv, CallsTyped, Flights
<1>1. /\ j \in Flights /\ j # 0 /\ Running(j)
      /\ flights' = [flights EXCEPT ![j].waiters = @ + 1]
      /\ waitsFor' = [waitsFor EXCEPT ![c] = j]
      /\ inflight' = inflight
  BY DEF Share
<1>2. PICK new \in Flight :
          /\ flights' = [flights EXCEPT ![j] = new]
          /\ new.key = flights[j].key
          /\ new.state = "running"
          /\ new.waiters = flights[j].waiters + 1
  <2>1. flights[j] \in Flight
    BY <1>1
  <2>2. flights[j].waiters + 1 \in Nat
    BY <2>1, FlightCounts
  <2>3. PICK new : new = [flights[j] EXCEPT !.waiters = flights[j].waiters + 1]
    OBVIOUS
  <2>4. /\ new \in Flight /\ new.key = flights[j].key
        /\ new.state = flights[j].state
        /\ new.waiters = flights[j].waiters + 1
    BY <2>1, <2>2, <2>3, FlightRecounted
  <2>5. flights' = [flights EXCEPT ![j] = new]
    BY <1>1, <2>3
  <2>6. QED
    BY <1>1, <2>4, <2>5 DEF Running
<1>3. /\ flights' \in Seq(Flight)
      /\ Len(flights') = Len(flights)
      /\ Flights' = Flights
      /\ \A f \in Flights :
            /\ f # 0
            /\ flights[f] \in Flight
            /\ flights'[f] = IF f = j THEN new ELSE flights[f]
            /\ flights'[f].key = flights[f].key
  BY <1>1, <1>2, FlightReplaced, ZenonT(60)
<1> HIDE DEF Flights
<1>4. CallsTyped'
  BY <1>1, <1>3
<1>5. MapIsKeyed'
  BY <1>1, <1>2, <1>3 DEF MapIsKeyed
<1>6. \A f \in Flights : /\ IsCurrent(f)' <=> IsCurrent(f)
                         /\ Running(f)' <=> Running(f)
  BY <1>1, <1>2 DEF IsCurrent, Running
<1>7. RunningIsCurrent' /\ RunningIsCounted'
  <2>1. RunningIsCurrent'
    BY <1>3, <1>6 DEF RunningIsCurrent
  <2>2. \A f \in Flights : flights[f].waiters \in Nat
    BY <1>3, FlightCounts
  <2>3. RunningIsCounted'
    BY <1>2, <1>3, <1>6, <2>2 DEF RunningIsCounted
  <2>4. QED
    BY <2>1, <2>3
<1>8. ASSUME NEW f \in Flights
      PROVE  /\ Waiting(f)' = IF f = j THEN Waiting(f) \cup {c} ELSE Waiting(f)
             /\ f = j => Cardinality(Waiting(f)') = Cardinality(Waiting(f)) + 1
  <2>1. waitsFor[c] # f
    BY <1>3
  <2>2. QED
    BY <1>1, <2>1, JoinCounts
<1>9. CurrentCountsCallers'
  BY <1>2, <1>3, <1>6, <1>8 DEF CurrentCountsCallers
<1>10. CancelledIsLeft'
  BY <1>1, <1>2, <1>3, <1>8 DEF CancelledIsLeft, Running
<1>11. QED
  BY <1>4, <1>5, <1>7, <1>9, <1>10

\* An answer ends a flight; its callers and the map do not know yet.
LEMMA FinishStep ==
    ASSUME IInv, NEW j \in Flights, Finish(j)
    PROVE  IInv'
<1> USE DEF IInv, CallsTyped, Flights
<1>1. PICK outcome \in {"succeeded", "failed"} :
          flights' = [flights EXCEPT ![j].state = outcome]
  BY DEF Finish
<1>2. inflight' = inflight /\ waitsFor' = waitsFor /\ Running(j)
  BY DEF Finish
<1>3. PICK new \in Flight :
          /\ flights' = [flights EXCEPT ![j] = new]
          /\ new.key = flights[j].key
          /\ new.state = outcome
          /\ new.waiters = flights[j].waiters
  <2>1. flights[j] \in Flight
    OBVIOUS
  <2>2. [flights[j] EXCEPT !.state = outcome] \in Flight
    BY <2>1 DEF Flight, FlightState
  <2>3. QED
    BY <1>1, <2>1, <2>2 DEF Flight
<1>4. /\ flights' \in Seq(Flight)
      /\ Len(flights') = Len(flights)
      /\ Flights' = Flights
      /\ \A f \in Flights :
            /\ f # 0
            /\ flights[f] \in Flight
            /\ flights'[f] = IF f = j THEN new ELSE flights[f]
            /\ flights'[f].key = flights[f].key
  BY <1>3, FlightReplaced
<1> HIDE DEF Flights
<1>5. CallsTyped' /\ MapIsKeyed'
  BY <1>2, <1>3, <1>4 DEF MapIsKeyed
<1>6. \A f \in Flights : /\ IsCurrent(f)' <=> IsCurrent(f)
                         /\ Running(f)' => Running(f)
                         /\ Waiting(f)' = Waiting(f)
  BY <1>2, <1>3, <1>4 DEF IsCurrent, Running, Waiting
<1>7. RunningIsCurrent' /\ RunningIsCounted'
  BY <1>3, <1>4, <1>6 DEF RunningIsCurrent, RunningIsCounted
<1>8. CurrentCountsCallers'
  BY <1>3, <1>4, <1>6 DEF CurrentCountsCallers
<1>9. CancelledIsLeft'
  BY <1>3, <1>4, <1>6 DEF CancelledIsLeft
<1>10. QED
  BY <1>5, <1>7, <1>8, <1>9

\* Leaving a flight the map does not hold: it is over, and nobody counts.
LEMMA LeaveOther ==
    ASSUME IInv, NEW c \in Caller, NEW j \in Flights, waitsFor[c] = j,
           waitsFor' = [waitsFor EXCEPT ![c] = 0],
           UNCHANGED <<flights, inflight>>, ~IsCurrent(j)
    PROVE  IInv'
<1> USE DEF IInv
<1>1. CallsTyped' /\ Flights' = Flights
  BY DEF CallsTyped, Flights
<1>2. /\ Waiting(j)' = Waiting(j) \ {c}
      /\ \A f \in Flights : f # j => Waiting(f)' = Waiting(f)
  BY LeaveCounts
<1>3. \A f \in Flights : /\ IsCurrent(f)' <=> IsCurrent(f)
                         /\ Running(f)' <=> Running(f)
  BY DEF IsCurrent, Running
<1>4. MapIsKeyed' /\ RunningIsCurrent' /\ RunningIsCounted'
  BY <1>1, <1>3 DEF MapIsKeyed, RunningIsCurrent, RunningIsCounted
<1>5. CurrentCountsCallers' /\ CancelledIsLeft'
  BY <1>1, <1>2, <1>3 DEF CurrentCountsCallers, CancelledIsLeft
<1>6. QED
  BY <1>1, <1>4, <1>5

\* Leaving the flight the map holds, which is over, or which nobody else awaits:
\* the map lets go of it, and it is not left running.
LEMMA LeaveAndSettle ==
    ASSUME IInv, NEW c \in Caller, NEW j \in Flights, waitsFor[c] = j,
           IsCurrent(j), NEW new \in Flight,
           new.key = flights[j].key, new.state # "running",
           new.state = "cancelled" =>
               flights[j].state = "cancelled" \/ flights[j].waiters = 1,
           flights' = [flights EXCEPT ![j] = new],
           inflight' = [inflight EXCEPT ![new.key] = 0],
           waitsFor' = [waitsFor EXCEPT ![c] = 0]
    PROVE  IInv'
<1> USE DEF IInv
<1>1. /\ flights' \in Seq(Flight)
      /\ Len(flights') = Len(flights)
      /\ Flights' = Flights
      /\ \A f \in Flights :
            /\ f # 0
            /\ flights[f] \in Flight
            /\ flights'[f] = IF f = j THEN new ELSE flights[f]
            /\ flights'[f].key = flights[f].key
  BY FlightReplaced
<1>2. new.key \in Key /\ \A f \in Flights : flights[f].key \in Key
  BY <1>1 DEF Flight
<1>3. CallsTyped'
  BY <1>1, <1>2 DEF CallsTyped
<1>4. /\ Waiting(j)' = Waiting(j) \ {c}
      /\ \A f \in Flights : f # j => Waiting(f)' = Waiting(f)
  BY LeaveCounts
<1>5. ASSUME NEW f \in Flights
      PROVE  /\ IsCurrent(f)' => IsCurrent(f) /\ f # j
             /\ IsCurrent(f) /\ f # j => IsCurrent(f)'
             /\ f # j => (Running(f)' <=> Running(f))
  BY <1>1, <1>2 DEF IsCurrent, Running, CallsTyped
<1>6. MapIsKeyed'
  <2> SUFFICES ASSUME NEW k \in Key, inflight'[k] # 0
               PROVE  flights'[inflight'[k]].key = k
    BY DEF MapIsKeyed
  <2>1. inflight'[k] = inflight[k] /\ inflight[k] \in Flights
    BY <1>2 DEF CallsTyped, Flights
  <2>2. QED
    BY <1>1, <2>1 DEF MapIsKeyed
<1>7. ~Running(j)'
  BY <1>1 DEF Running
<1>8. RunningIsCurrent' /\ RunningIsCounted'
  <2> SUFFICES ASSUME NEW f \in Flights, Running(f)'
               PROVE  IsCurrent(f)' /\ flights'[f].waiters # 0
    BY <1>1 DEF RunningIsCurrent, RunningIsCounted
  <2>1. f # j /\ Running(f) /\ flights'[f] = flights[f]
    BY <1>1, <1>5, <1>7
  <2>2. QED
    BY <1>5, <2>1 DEF RunningIsCurrent, RunningIsCounted
<1>9. CurrentCountsCallers'
  <2> SUFFICES ASSUME NEW f \in Flights, IsCurrent(f)'
               PROVE  flights'[f].waiters = Cardinality(Waiting(f)')
    BY <1>1 DEF CurrentCountsCallers
  <2>1. f # j /\ IsCurrent(f) /\ flights'[f] = flights[f]
    BY <1>1, <1>5
  <2>2. QED
    BY <1>4, <2>1 DEF CurrentCountsCallers
<1>10. new.state = "cancelled" => Waiting(j)' = {}
  <2>1. CASE flights[j].state = "cancelled"
    BY <1>4, <2>1 DEF CancelledIsLeft
  <2>2. CASE flights[j].waiters = 1
    <3>1. c \in Waiting(j) /\ IsFiniteSet(Waiting(j))
      BY WaitingIsFinite DEF Waiting
    <3>2. Cardinality(Waiting(j)) = 1
      BY <2>2 DEF CurrentCountsCallers
    <3>3. PICK x : Waiting(j) = {x}
      BY <3>1, <3>2, FS_Singleton
    <3>4. QED
      BY <1>4, <3>1, <3>3
  <2>3. QED
    BY <2>1, <2>2
<1>11. CancelledIsLeft'
  BY <1>1, <1>4, <1>10 DEF CancelledIsLeft
<1>12. QED
  BY <1>3, <1>6, <1>8, <1>9, <1>11

\* Leaving a running flight that others await.
LEMMA LeaveOthersWaiting ==
    ASSUME IInv, NEW c \in Caller, NEW j \in Flights, waitsFor[c] = j,
           IsCurrent(j), Running(j), ~Unwanted(j),
           flights' = [flights EXCEPT ![j].waiters = @ - 1],
           inflight' = inflight,
           waitsFor' = [waitsFor EXCEPT ![c] = 0]
    PROVE  IInv'
<1> USE DEF IInv
<1>1. flights[j] \in Flight /\ flights[j].waiters \in Nat \ {0, 1}
  <2>1. flights[j] \in Flight
    BY DEF CallsTyped, Flights
  <2>2. QED
    BY <2>1, FlightCounts DEF Unwanted, RunningIsCounted
<1>2. PICK n \in Nat \ {0} : n = flights[j].waiters - 1
  BY <1>1
<1>3. PICK new : new = [flights[j] EXCEPT !.waiters = n]
  OBVIOUS
<1>4. /\ new \in Flight /\ new.key = flights[j].key /\ new.state = "running"
      /\ new.waiters = n
      /\ flights' = [flights EXCEPT ![j] = new]
  BY <1>1, <1>2, <1>3, FlightRecounted DEF Running
<1>5. /\ flights' \in Seq(Flight)
      /\ Len(flights') = Len(flights)
      /\ Flights' = Flights
      /\ \A f \in Flights :
            /\ f # 0
            /\ flights[f] \in Flight
            /\ flights'[f] = IF f = j THEN new ELSE flights[f]
            /\ flights'[f].key = flights[f].key
  BY <1>4, FlightReplaced
<1>6. CallsTyped' /\ MapIsKeyed'
  <2>1. CallsTyped'
    BY <1>5 DEF CallsTyped
  <2>2. \A k \in Key : inflight[k] # 0 => inflight[k] \in Flights
    BY DEF CallsTyped, Flights
  <2>3. QED
    BY <1>5, <2>1, <2>2 DEF MapIsKeyed
<1>7. /\ Waiting(j)' = Waiting(j) \ {c}
      /\ Cardinality(Waiting(j)') = Cardinality(Waiting(j)) - 1
      /\ \A f \in Flights : f # j => Waiting(f)' = Waiting(f)
  BY LeaveCounts
<1>8. \A f \in Flights : /\ IsCurrent(f)' <=> IsCurrent(f)
                         /\ Running(f)' <=> Running(f)
  BY <1>4, <1>5 DEF IsCurrent, Running
<1>9. RunningIsCurrent' /\ RunningIsCounted'
  BY <1>2, <1>4, <1>5, <1>8 DEF RunningIsCurrent, RunningIsCounted
<1>10. CurrentCountsCallers'
  <2> SUFFICES ASSUME NEW f \in Flights, IsCurrent(f)'
               PROVE  flights'[f].waiters = Cardinality(Waiting(f)')
    BY <1>5 DEF CurrentCountsCallers
  <2>1. flights[f].waiters = Cardinality(Waiting(f))
    BY <1>8 DEF CurrentCountsCallers
  <2>2. CASE f = j
    BY <1>2, <1>4, <1>5, <1>7, <2>1, <2>2, ZenonT(60)
  <2>3. CASE f # j
    BY <1>5, <1>7, <2>1, <2>3
  <2>4. QED
    BY <2>2, <2>3
<1>11. CancelledIsLeft'
  BY <1>4, <1>5, <1>7 DEF CancelledIsLeft
<1>12. QED
  BY <1>6, <1>9, <1>10, <1>11

\* Somebody who awaits a flight is one of those it counts.
LEMMA LeaverIsCounted ==
    ASSUME IInv, NEW c \in Caller, NEW j \in Flights, waitsFor[c] = j,
           IsCurrent(j)
    PROVE  /\ flights[j] \in Flight
           /\ flights[j].waiters \in Nat \ {0}
           /\ flights[j].waiters - 1 \in Nat
<1>1. flights[j] \in Flight /\ flights[j].waiters \in Nat
  <2>1. flights[j] \in Flight
    BY DEF IInv, CallsTyped, Flights
  <2>2. QED
    BY <2>1, FlightCounts
<1>2. c \in Waiting(j)
  BY DEF Waiting
<1>3. Cardinality(Waiting(j)) # 0
  BY <1>2, WaitingIsFinite, FS_EmptySet
<1>4. flights[j].waiters # 0
  BY <1>3 DEF IInv, CurrentCountsCallers
<1>5. QED
  BY <1>1, <1>4

LEMMA LeaveStep ==
    ASSUME IInv, NEW c \in Caller, waitsFor[c] # 0, Leave(c)
    PROVE  IInv'
<1>1. PICK j \in Flights : j = waitsFor[c]
  BY DEF IInv, CallsTyped, Flights
<1>2. waitsFor' = [waitsFor EXCEPT ![c] = 0]
  BY DEF Leave
<1> DEFINE k == flights[j].key
           left == [flights EXCEPT ![j].waiters = @ - 1]
<1>3. CASE ~IsCurrent(j) /\ UNCHANGED <<flights, inflight, entries>>
  BY <1>1, <1>2, <1>3, LeaveOther
<1>4. CASE IsCurrent(j) /\ ~Running(j) /\ flights' = left /\ Settle(k, j)
  <2>1. flights[j] \in Flight /\ flights[j].waiters - 1 \in Nat
    BY <1>1, <1>4, LeaverIsCounted
  <2>2. PICK new : new = [flights[j] EXCEPT !.waiters = flights[j].waiters - 1]
    OBVIOUS
  <2>3. new \in Flight /\ new.key = k /\ new.state = flights[j].state
    BY <2>1, <2>2, FlightRecounted
  <2>4. flights' = [flights EXCEPT ![j] = new]
    BY <1>4, <2>2
  <2>5. inflight' = [inflight EXCEPT ![new.key] = 0]
    BY <1>4, <2>3 DEF Settle
  <2>6. new.state # "running"
    BY <1>4, <2>3 DEF Running
  <2>7. waitsFor[c] = j /\ IsCurrent(j)
    BY <1>1, <1>4
  <2>8. new.state = "cancelled"
            => flights[j].state = "cancelled" \/ flights[j].waiters = 1
    BY <2>3
  <2>9. QED
    BY <1>2, <2>3, <2>4, <2>5, <2>6, <2>7, <2>8, LeaveAndSettle
<1>5. CASE /\ IsCurrent(j) /\ Running(j) /\ Unwanted(j)
           /\ flights' = [left EXCEPT ![j].state = "cancelled"]
           /\ inflight' = [inflight EXCEPT ![k] = 0]
  <2>1. flights[j] \in Flight /\ flights[j].waiters - 1 \in Nat
    BY <1>1, <1>5, LeaverIsCounted
  <2>2. PICK one : one = [flights[j] EXCEPT !.waiters = flights[j].waiters - 1]
    OBVIOUS
  <2>3. PICK new : new = [one EXCEPT !.state = "cancelled"]
    OBVIOUS
  <2>4. one \in Flight /\ one.key = k
    BY <2>1, <2>2, FlightRecounted
  <2>5. new \in Flight /\ new.key = k /\ new.state = "cancelled"
    BY <2>3, <2>4 DEF Flight, FlightState
  <2>6. flights' = [flights EXCEPT ![j] = new]
    <3>1. left = [flights EXCEPT ![j] = one]
      BY <2>2
    <3>2. left[j] = one
      BY <3>1 DEF Flights
    <3>3. QED
      BY <1>5, <2>3, <3>1, <3>2
  <2>7. inflight' = [inflight EXCEPT ![new.key] = 0]
    BY <1>5, <2>5
  <2>8. flights[j].waiters = 1
    BY <1>5 DEF Unwanted
  <2>9. QED
    BY <1>1, <1>2, <1>5, <2>5, <2>6, <2>7, <2>8, LeaveAndSettle
<1>6. CASE /\ IsCurrent(j) /\ Running(j) /\ ~Unwanted(j)
           /\ flights' = left
           /\ UNCHANGED <<inflight, entries>>
  BY <1>1, <1>2, <1>6, LeaveOthersWaiting
<1>7. QED
  BY <1>1, <1>3, <1>4, <1>5, <1>6 DEF Leave

-----------------------------------------------------------------------------

\* Every step of the cache keeps its calls in order.
LEMMA CallsStep == IInv /\ [Next]_vars => IInv'
<1> SUFFICES ASSUME IInv, [Next]_vars PROVE IInv'
  OBVIOUS
<1>1. ASSUME NEW c \in Caller, NEW k \in Key, GetOrCreate(c, k)
      PROVE  IInv'
  <2>1. CASE Hit(k)
    BY <2>1, SameFlights DEF Hit
  <2>2. CASE Miss(c, k)
    BY <1>1, <2>2, MissStep DEF GetOrCreate
  <2>3. CASE Share(c, k)
    BY <1>1, <2>3, ShareStep DEF GetOrCreate
  <2>4. CASE ShareSettled(k)
    <3>1. /\ UNCHANGED <<flights, waitsFor>>
          /\ inflight' = [inflight EXCEPT ![k] = 0]
          /\ ~Running(inflight[k])
      BY <2>4 DEF ShareSettled, Settle
    <3>2. QED
      BY <3>1, SameFlights
  <2>5. QED
    BY <1>1, <2>1, <2>2, <2>3, <2>4 DEF GetOrCreate
<1>2. ASSUME NEW c \in Caller, Wake(c) PROVE IInv'
  BY <1>2, LeaveStep DEF Wake
<1>3. ASSUME NEW c \in Caller, CallerCancelled(c) PROVE IInv'
  BY <1>3, LeaveStep DEF CallerCancelled
<1>4. ASSUME NEW f \in Flights, Finish(f) PROVE IInv'
  BY <1>4, FinishStep
<1>5. CASE UNCHANGED <<flights, inflight, waitsFor>>
  BY <1>5 DEF IInv, CallsTyped, MapIsKeyed, RunningIsCurrent, RunningIsCounted,
              CurrentCountsCallers, CancelledIsLeft, Waiting, Flights, Running,
              IsCurrent
<1>6. QED
  BY <1>1, <1>2, <1>3, <1>4, <1>5 DEF Next, Expire, vars

LEMMA CallsInvariant == Spec => []IInv
BY CallsInit, CallsStep, PTL DEF Spec

\* Concurrent callers with one key cost one provider call, for any number of
\* callers, keys and calls.
THEOREM CallsAreShared == Spec => []OneCallPerKey
<1>1. IInv => OneCallPerKey
  BY DEF IInv, RunningIsCurrent, IsCurrent, OneCallPerKey
<1>2. QED
  BY <1>1, CallsInvariant, PTL

\* A call that runs can be found, and the callers it counts are those that wait
\* for it, at least one; a cancelled call has none.
THEOREM NoCallIsAbandoned == Spec => []CallsAreWanted
<1>1. IInv => CallsAreWanted
  <2> SUFFICES ASSUME IInv, NEW f \in Flights
               PROVE  /\ Running(f) =>
                            /\ inflight[flights[f].key] = f
                            /\ Waiting(f) # {}
                            /\ flights[f].waiters = Cardinality(Waiting(f))
                      /\ flights[f].state = "cancelled" => Waiting(f) = {}
    BY DEF CallsAreWanted, Waiting
  <2>1. flights[f].state = "cancelled" => Waiting(f) = {}
    BY DEF IInv, CancelledIsLeft
  <2>2. ASSUME Running(f)
        PROVE  /\ inflight[flights[f].key] = f
               /\ flights[f].waiters = Cardinality(Waiting(f))
               /\ flights[f].waiters # 0
    BY <2>2 DEF IInv, RunningIsCurrent, RunningIsCounted, CurrentCountsCallers,
                IsCurrent
  <2>3. Running(f) => Waiting(f) # {}
    BY <2>2, FS_EmptySet
  <2>4. QED
    BY <2>1, <2>2, <2>3
<1>2. QED
  BY <1>1, CallsInvariant, PTL

-----------------------------------------------------------------------------
\* Every set of naturals that is not empty has a smallest element.
LEMMA NatMin ==
    \A T \in SUBSET Nat : T # {} => \E m \in T : \A k \in T : m <= k
<1> SUFFICES ASSUME NEW T \in SUBSET Nat, T # {}
             PROVE  \E m \in T : \A k \in T : m <= k
  OBVIOUS
<1>1. PICK m \in T : \A k \in T : ~(<<k, m>> \in OpToRel(<, Nat))
  BY NatLessThanWellFounded, WFMin, Zenon
<1>2. ASSUME NEW k \in T PROVE ~(k < m)
  BY <1>1, Zenon DEF OpToRel
<1>3. ASSUME NEW k \in T PROVE m <= k
  BY <1>2, k \in Nat, m \in Nat
<1>4. QED
  BY <1>3, m \in T, Zenon

\* Induction, with a set for the property.
LEMMA SetInduction ==
    ASSUME NEW S, 0 \in S, \A n \in Nat : n \in S => n + 1 \in S
    PROVE  Nat \subseteq S
<1> SUFFICES ASSUME Nat \ S # {} PROVE FALSE
  OBVIOUS
<1>1. PICK m \in Nat \ S : \A k \in Nat \ S : m <= k
  BY NatMin
<1>2. m # 0 /\ m - 1 \in Nat
  BY <1>1
<1>3. m - 1 \in S
  BY <1>1, <1>2
<1>4. QED
  BY <1>1, <1>2, <1>3

\* f is computed up to n from its first value, one step at a time.
Computes(f, n, X, first, step) ==
    /\ f \in [0..n -> X]
    /\ f[0] = first
    /\ \A i \in 1..n : f[i] = step[<<i, f[i - 1]>>]

\* There is such a computation, however long.
LEMMA RecursionExists ==
    ASSUME NEW N \in Nat, NEW X, NEW first \in X, NEW step \in [(1..N) \X X -> X]
    PROVE  \E f : Computes(f, N, X, first, step)
<1> DEFINE S == {m \in Nat : m <= N => \E f : Computes(f, m, X, first, step)}
<1>1. 0 \in S
  <2>1. Computes([n \in 0..0 |-> first], 0, X, first, step)
    BY DEF Computes
  <2>2. QED
    BY <2>1
<1>2. ASSUME NEW m \in Nat, m \in S PROVE m + 1 \in S
  <2> SUFFICES ASSUME m + 1 <= N PROVE \E f : Computes(f, m + 1, X, first, step)
    OBVIOUS
  <2>1. PICK f : Computes(f, m, X, first, step)
    BY <1>2
  <2> DEFINE x == step[<<m + 1, f[m]>>]
             g == [n \in 0..(m + 1) |-> IF n = m + 1 THEN x ELSE f[n]]
  <2> USE <2>1 DEF Computes
  <2>2. x \in X
    <3>1. <<m + 1, f[m]>> \in (1..N) \X X
      OBVIOUS
    <3>2. QED
      BY <3>1
  <2> HIDE DEF x
  <2>3. g \in [0..(m + 1) -> X]
    <3>1. \A n \in 0..(m + 1) : n = m + 1 \/ n \in 0..m
      OBVIOUS
    <3>2. QED
      BY <2>2, <3>1
  <2>4. g[0] = first
    OBVIOUS
  <2>5. ASSUME NEW n \in 1..(m + 1) PROVE g[n] = step[<<n, g[n - 1]>>]
    <3>1. CASE n = m + 1
      <4>1. n - 1 = m /\ m \in 0..(m + 1) /\ m # m + 1
        BY <3>1
      <4>2. g[n] = x /\ g[n - 1] = f[m]
        BY <3>1, <4>1
      <4>3. QED
        BY <3>1, <4>2 DEF x
    <3>2. CASE n \in 1..m
      <4>1. n - 1 \in 0..m /\ n # m + 1 /\ n - 1 # m + 1
        BY <3>2
      <4>2. g[n] = f[n] /\ g[n - 1] = f[n - 1]
        BY <3>2, <4>1
      <4>3. QED
        BY <3>2, <4>2
    <3>3. QED
      BY <3>1, <3>2
  <2> HIDE DEF g
  <2>6. QED
    BY <2>3, <2>4, <2>5
<1>3. N \in S
  <2> HIDE DEF S
  <2>1. QED
    BY <1>1, <1>2, SetInduction
<1>4. QED
  BY <1>3

\* f gives what Keep has kept of the first n elements of s, for every n.
KeptUpTo(f, s, kept, T) ==
    /\ f \in [0..Len(s) -> Seq(T)]
    /\ f[0] = <<>>
    /\ \A n \in 1..Len(s) :
          f[n] = IF s[n] \in kept THEN Append(f[n - 1], s[n]) ELSE f[n - 1]

\* Keep is what its recursion says.
LEMMA KeepUnfolds ==
    ASSUME NEW T, NEW s \in Seq(T), NEW kept
    PROVE  \E f : KeptUpTo(f, s, kept, T) /\ Keep(s, kept) = f[Len(s)]
<1> PICK N \in Nat : N = Len(s)
  OBVIOUS
<1> PICK X : X = Seq(T)
  OBVIOUS
<1> DEFINE step == [p \in (1..N) \X X |->
                      IF s[p[1]] \in kept THEN Append(p[2], s[p[1]]) ELSE p[2]]
           Rec(f) == [n \in 0..Len(s) |->
                        IF n = 0 THEN <<>>
                        ELSE IF s[n] \in kept THEN Append(f[n - 1], s[n]) ELSE f[n - 1]]
           upTo == CHOOSE f : f = Rec(f)
<1>1. step \in [(1..N) \X X -> X] /\ <<>> \in X
  <2>1. ASSUME NEW n \in 1..N, NEW t \in X
        PROVE  (IF s[n] \in kept THEN Append(t, s[n]) ELSE t) \in X
    OBVIOUS
  <2>2. QED
    BY <2>1
<1>2. \A n \in 1..N, t \in X :
          step[<<n, t>>] = IF s[n] \in kept THEN Append(t, s[n]) ELSE t
  OBVIOUS
<1> HIDE DEF step
<1>3. PICK f \in [0..N -> X] :
          f[0] = <<>> /\ \A n \in 1..N : f[n] = step[<<n, f[n - 1]>>]
  <2>1. PICK f : Computes(f, N, X, <<>>, step)
    BY <1>1, RecursionExists
  <2>2. QED
    BY <2>1 DEF Computes
<1>4. ASSUME NEW n \in 1..N
      PROVE  f[n] = IF s[n] \in kept THEN Append(f[n - 1], s[n]) ELSE f[n - 1]
  <2>1. f[n - 1] \in X
    BY <1>3
  <2>2. QED
    BY <1>2, <1>3, <2>1
<1>5. f = Rec(f)
  <2>1. f = [n \in 0..N |-> f[n]] /\ f[0] = <<>>
    BY <1>3
  <2>2. \A n \in 0..N : n = 0 \/ n \in 1..N
    OBVIOUS
  <2>3. QED
    BY <1>4, <2>1, <2>2
<1>6. upTo = Rec(upTo)
  <2> HIDE DEF Rec
  <2>1. QED
    BY <1>5
<1>7. \A n \in 1..N : upTo[n] = IF s[n] \in kept THEN Append(upTo[n - 1], s[n]) ELSE upTo[n - 1]
  <2>1. \A n \in 1..N : n \in 0..Len(s) /\ n # 0
    OBVIOUS
  <2>2. PICK g : g = upTo
    OBVIOUS
  <2>3. g = Rec(g)
    BY <1>6, <2>2
  <2>4. \A n \in 1..N : g[n] = IF s[n] \in kept THEN Append(g[n - 1], s[n]) ELSE g[n - 1]
    <3> HIDE DEF upTo
    <3>1. QED
    BY <2>1, <2>3
  <2> HIDE DEF upTo
  <2>5. QED
    BY <2>2, <2>4
<1>8. Keep(s, kept) = upTo[Len(s)]
  BY DEF Keep
<1> HIDE DEF upTo
<1>9. upTo = f
  <2> DEFINE S == {m \in Nat : m <= N => upTo[m] = f[m]}
  <2>1. 0 \in S
    BY <1>3, <1>6
  <2>2. ASSUME NEW m \in Nat, m \in S PROVE m + 1 \in S
    <3> SUFFICES ASSUME m + 1 \in 1..N PROVE upTo[m + 1] = f[m + 1]
      OBVIOUS
    <3>1. upTo[m + 1] = IF s[m + 1] \in kept THEN Append(upTo[m], s[m + 1]) ELSE upTo[m]
      BY <1>7, m + 1 - 1 = m
    <3>2. upTo[m] = f[m]
      BY <2>2
    <3>3. QED
      BY <1>4, <3>1, <3>2
  <2>3. \A m \in 0..N : upTo[m] = f[m]
    <3> HIDE DEF S
    <3>1. Nat \subseteq S
      BY <2>1, <2>2, SetInduction
    <3>2. QED
      BY <3>1 DEF S
  <2>4. DOMAIN upTo = 0..N /\ upTo = [n \in 0..N |-> upTo[n]]
    BY <1>6
  <2>5. QED
    BY <1>3, <2>3, <2>4
<1>10. KeptUpTo(f, s, kept, T)
  BY <1>3, <1>4 DEF KeptUpTo
<1>11. QED
  BY <1>8, <1>9, <1>10

\* t holds elements of the first n of s, each at most as often as s does; o says
\* where they come from.
Origin(o, t, s, n) ==
    /\ o \in [1..Len(t) -> 1..n]
    /\ \A i \in 1..Len(t) : t[i] = s[o[i]]
    /\ \A i, j \in 1..Len(t) : i # j => o[i] # o[j]

PicksFrom(t, s) == \E o : Origin(o, t, s, Len(s))

\* Keep keeps elements of the set only, none twice; it is shorter if one is not
\* in the set.
LEMMA KeepPicks ==
    ASSUME NEW T, NEW s \in Seq(T), NEW kept
    PROVE  /\ Keep(s, kept) \in Seq(T)
           /\ PicksFrom(Keep(s, kept), s)
           /\ \A i \in 1..Len(Keep(s, kept)) : Keep(s, kept)[i] \in kept
           /\ Len(Keep(s, kept)) <= Len(s)
           /\ \A i \in 1..Len(s) : s[i] \notin kept => Len(Keep(s, kept)) < Len(s)
<1>1. PICK f : KeptUpTo(f, s, kept, T) /\ Keep(s, kept) = f[Len(s)]
  BY KeepUnfolds
<1>2. /\ f \in [0..Len(s) -> Seq(T)]
      /\ f[0] = <<>>
      /\ \A n \in 1..Len(s) :
            f[n] = IF s[n] \in kept THEN Append(f[n - 1], s[n]) ELSE f[n - 1]
  BY <1>1 DEF KeptUpTo
<1> DEFINE Right(n) == /\ \E o : Origin(o, f[n], s, n)
                       /\ \A i \in 1..Len(f[n]) : f[n][i] \in kept
                       /\ Len(f[n]) <= n
                       /\ \A i \in 1..n : s[i] \notin kept => Len(f[n]) < n
           S == {n \in Nat : n <= Len(s) => Right(n)}
<1>3. 0 \in S
  <2>1. Origin([i \in 1..0 |-> 0], <<>>, s, 0)
    BY DEF Origin
  <2>2. QED
    BY <1>2, <2>1
<1>4. ASSUME NEW n \in Nat, n \in S PROVE n + 1 \in S
  <2> SUFFICES ASSUME n + 1 \in 1..Len(s) PROVE Right(n + 1)
    OBVIOUS
  <2>1. Right(n)
    BY <1>4
  <2>2. f[n] \in Seq(T) /\ s[n + 1] \in T
    BY <1>2
  <2>3. f[n + 1] = IF s[n + 1] \in kept THEN Append(f[n], s[n + 1]) ELSE f[n]
    BY <1>2, n + 1 - 1 = n
  <2>4. PICK o : Origin(o, f[n], s, n)
    BY <2>1
  <2>5. CASE s[n + 1] \in kept
    <3>1. PICK l \in Nat : l = Len(f[n])
      BY <2>2
    <3>2. PICK t : t = Append(f[n], s[n + 1])
      OBVIOUS
    <3>3. t \in Seq(T) /\ l = Len(f[n]) /\ t = f[n + 1]
      BY <2>2, <2>3, <2>5, <3>1, <3>2
    <3>4. /\ Len(t) = l + 1
          /\ \A i \in 1..l : t[i] = f[n][i]
          /\ t[l + 1] = s[n + 1]
      BY <2>2, <2>3, <2>5, <3>3
    <3> DEFINE p == [i \in 1..(l + 1) |-> IF i = l + 1 THEN n + 1 ELSE o[i]]
    <3>5. /\ \A i \in 1..l : p[i] = o[i] /\ o[i] \in 1..n
          /\ p[l + 1] = n + 1
      <4>1. \A i \in 1..l : i # l + 1 /\ i \in 1..(l + 1)
        OBVIOUS
      <4>2. o \in [1..l -> 1..n]
        BY <2>4, <3>3 DEF Origin
      <4>3. QED
        BY <4>1, <4>2
    <3>6. \A i \in 1..(l + 1) : i \in 1..l \/ i = l + 1
      OBVIOUS
    <3>7. p \in [1..(l + 1) -> 1..(n + 1)]
      <4>1. \A i \in 1..(l + 1) : p[i] \in 1..(n + 1)
        <5> HIDE DEF p
        <5>1. QED
          BY <3>5, <3>6
      <4>2. QED
        BY <4>1
    <3> HIDE DEF p
    <3>8. \A i \in 1..(l + 1) : t[i] = s[p[i]]
      BY <2>4, <3>3, <3>4, <3>5, <3>6 DEF Origin
    <3>9. \A i, j \in 1..(l + 1) : i # j => p[i] # p[j]
      BY <2>4, <3>3, <3>5, <3>6 DEF Origin
    <3>10. Origin(p, f[n + 1], s, n + 1)
      BY <3>3, <3>4, <3>7, <3>8, <3>9 DEF Origin
    <3>11. \A i \in 1..Len(f[n + 1]) : f[n + 1][i] \in kept
      BY <2>1, <2>5, <3>3, <3>4, <3>6
    <3>12. Len(f[n + 1]) <= n + 1
      BY <2>1, <3>3, <3>4
    <3>13. \A i \in 1..(n + 1) : s[i] \notin kept => Len(f[n + 1]) < n + 1
      <4>1. \A i \in 1..(n + 1) : i \in 1..n \/ i = n + 1
        OBVIOUS
      <4>2. QED
        BY <2>1, <2>5, <3>3, <3>4, <4>1
    <3>14. QED
      BY <3>10, <3>11, <3>12, <3>13
  <2>6. CASE s[n + 1] \notin kept
    <3>1. Origin(o, f[n + 1], s, n + 1)
      BY <2>2, <2>3, <2>4, <2>6 DEF Origin
    <3>2. QED
      BY <2>1, <2>2, <2>3, <2>6, <3>1
  <2>7. QED
    BY <2>5, <2>6
<1>5. Right(Len(s))
  <2>1. Nat \subseteq S
    <3> HIDE DEF S
    <3>1. QED
      BY <1>3, <1>4, SetInduction
  <2>2. QED
    BY <2>1, Len(s) \in Nat
<1>6. QED
  BY <1>1, <1>2, <1>5 DEF PicksFrom

\* The newest elements of a sequence are elements of it.
LEMMA LastOfPicks ==
    ASSUME NEW T, NEW s \in Seq(T), NEW n \in Nat
    PROVE  LastOf(s, n) \in Seq(T) /\ PicksFrom(LastOf(s, n), s)
           /\ Len(LastOf(s, n)) <= n
<1>1. CASE Len(s) <= n
  <2>1. Origin([i \in 1..Len(s) |-> i], s, s, Len(s))
    BY DEF Origin
  <2>2. QED
    BY <1>1, <2>1 DEF LastOf, PicksFrom
<1>2. CASE ~(Len(s) <= n)
  <2>1. PICK l \in Nat : l = Len(s)
    OBVIOUS
  <2>2. PICK t : t = SubSeq(s, l - n + 1, l)
    OBVIOUS
  <2>3. /\ t \in Seq(T) /\ Len(t) = n
        /\ \A i \in 1..n : t[i] = s[l - n + i]
    <3>1. PICK m \in Int : m = l - n + 1
      OBVIOUS
    <3>2. \A i \in m..l : s[i] \in T
      BY <1>2, <2>1, <3>1
    <3>3. /\ t \in Seq(T) /\ Len(t) = IF m <= l THEN l - m + 1 ELSE 0
          /\ \A i \in 1..(l - m + 1) : t[i] = s[m + i - 1]
      BY <2>2, <3>1, <3>2, SubSeqProperties
    <3>4. l - m + 1 = n /\ \A i \in 1..n : m + i - 1 = l - n + i
      BY <3>1
    <3>5. Len(t) = n
      BY <3>1, <3>3
    <3>6. \A i \in 1..n : t[i] = s[l - n + i]
      BY <3>3, <3>4
    <3>7. QED
      BY <3>3, <3>5, <3>6
  <2> DEFINE o == [i \in 1..n |-> l - n + i]
  <2>4. o \in [1..n -> 1..l] /\ \A i \in 1..n : o[i] = l - n + i
    BY <1>2, <2>1
  <2> HIDE DEF o
  <2>5. \A i, j \in 1..n : i # j => o[i] # o[j]
    BY <2>1, <2>4
  <2>6. Origin(o, t, s, l)
    BY <2>3, <2>4, <2>5 DEF Origin
  <2>7. LastOf(s, n) = t
    BY <1>2, <2>1, <2>2 DEF LastOf
  <2>8. QED
    BY <2>1, <2>3, <2>6, <2>7 DEF PicksFrom
<1>3. QED
  BY <1>1, <1>2

-----------------------------------------------------------------------------

\* A result is the one of the last call made for its key, which succeeded; no
\* call for the key is in flight, and no other result for it is kept.
EntryRight(e) ==
    /\ e.flight \in Flights
    /\ flights[e.flight].state = "succeeded"
    /\ flights[e.flight].key = e.key
    /\ \A f \in Flights : flights[f].key = e.key => f <= e.flight
    /\ inflight[e.key] = 0

EntriesRight(s) ==
    /\ s \in Seq(Entry)
    /\ \A i \in 1..Len(s) : EntryRight(s[i])
    /\ \A i, j \in 1..Len(s) : s[i].key = s[j].key => i = j

CurrentIsNewest ==
    \A k \in Key : inflight[k] # 0 =>
        \A f \in Flights : flights[f].key = k => f <= inflight[k]

RInv ==
    /\ IInv
    /\ Len(flights) <= MaxFlights
    /\ Len(entries) <= MaxEntries
    /\ EntriesRight(entries)
    /\ CurrentIsNewest

\* Entries picked from entries that are right are right.
LEMMA PickedAreRight ==
    ASSUME NEW s, EntriesRight(s), NEW t \in Seq(Entry), PicksFrom(t, s)
    PROVE  EntriesRight(t)
<1>1. PICK o : Origin(o, t, s, Len(s))
  BY DEF PicksFrom
<1>2. \A i \in 1..Len(t) : o[i] \in 1..Len(s) /\ t[i] = s[o[i]]
  BY <1>1 DEF Origin
<1>3. \A i \in 1..Len(t) : EntryRight(t[i])
  BY <1>2 DEF EntriesRight
<1>4. \A i, j \in 1..Len(t) : t[i].key = t[j].key => i = j
  BY <1>1, <1>2 DEF EntriesRight, Origin
<1>5. QED
  BY <1>3, <1>4 DEF EntriesRight

\* A step that ends no successful call and starts none for the keys of some
\* entries leaves these right.
LEMMA EntriesStay ==
    ASSUME NEW CONSTANT s, EntriesRight(s), NEW CONSTANT busy,
           \A i \in 1..Len(s) : s[i].key \notin busy,
           \A f \in Flights :
              /\ f \in Flights'
              /\ flights'[f].key = flights[f].key
              /\ flights[f].state = "succeeded" => flights'[f].state = "succeeded",
           \A f \in Flights' : f \notin Flights => flights'[f].key \in busy,
           \A k \in Key : k \notin busy /\ inflight[k] = 0 => inflight'[k] = 0
    PROVE  EntriesRight(s)'
<1>1. ASSUME NEW i \in 1..Len(s) PROVE EntryRight(s[i])'
  <2>1. PICK e \in Entry : e = s[i]
    BY DEF EntriesRight
  <2>2. EntryRight(e) /\ e.key \notin busy /\ e.key \in Key
    BY <2>1 DEF EntriesRight, Entry
  <2>3. EntryRight(e)'
    BY <2>2 DEF EntryRight
  <2>4. QED
    BY <2>1, <2>3
<1>2. QED
  BY <1>1 DEF EntriesRight

\* What Fresh and its parts hold.
LEMMA FreshFacts ==
    ASSUME RInv
    PROVE  /\ EntriesRight(Fresh) /\ Len(Fresh) <= MaxEntries
           /\ \A i \in 1..Len(Fresh) : Fresh[i].key \in Key
<1>1. entries \in Seq(Entry)
  BY DEF RInv, EntriesRight
<1>2. PICK kept : kept = {e \in Entry : ~e.expired}
  OBVIOUS
<1>3. Fresh = Keep(entries, kept)
  BY <1>2 DEF Fresh
<1>4. /\ Fresh \in Seq(Entry) /\ PicksFrom(Fresh, entries)
      /\ Len(Fresh) <= Len(entries)
  BY <1>1, <1>3, KeepPicks
<1>5. EntriesRight(Fresh)
  BY <1>4, PickedAreRight DEF RInv
<1>6. Len(Fresh) <= MaxEntries
  BY <1>1, <1>4, CacheEnabled DEF RInv
<1>7. ASSUME NEW i \in 1..Len(Fresh) PROVE Fresh[i].key \in Key
  <2>1. Fresh[i] \in Entry
    BY <1>4
  <2>2. QED
    BY <2>1 DEF Entry
<1>8. QED
  BY <1>5, <1>6, <1>7

LEMMA FreshPartsFacts ==
    ASSUME RInv, NEW k
    PROVE  /\ EntriesRight(FreshOthers(k)) /\ EntriesRight(FreshOf(k))
           /\ \A i \in 1..Len(FreshOthers(k)) : FreshOthers(k)[i].key # k
           /\ \A i \in 1..Len(FreshOf(k)) : FreshOf(k)[i].key = k
           /\ Len(FreshOf(k)) <= 1
           /\ Len(FreshOthers(k)) <= MaxEntries
           /\ k \in FreshKeys => Len(FreshOthers(k)) < MaxEntries
<1>1. EntriesRight(Fresh) /\ Len(Fresh) <= MaxEntries /\ Fresh \in Seq(Entry)
  BY FreshFacts DEF EntriesRight
<1>2. PICK others : others = {e \in Entry : e.key # k}
  OBVIOUS
<1>3. PICK of : of = {e \in Entry : e.key = k}
  OBVIOUS
<1>4. FreshOthers(k) = Keep(Fresh, others) /\ FreshOf(k) = Keep(Fresh, of)
  BY <1>2, <1>3 DEF FreshOthers, FreshOf
<1>5. /\ FreshOthers(k) \in Seq(Entry) /\ PicksFrom(FreshOthers(k), Fresh)
      /\ \A i \in 1..Len(FreshOthers(k)) : FreshOthers(k)[i] \in others
      /\ Len(FreshOthers(k)) <= Len(Fresh)
      /\ \A i \in 1..Len(Fresh) :
            Fresh[i] \notin others => Len(FreshOthers(k)) < Len(Fresh)
  BY <1>1, <1>4, KeepPicks
<1>6. /\ FreshOf(k) \in Seq(Entry) /\ PicksFrom(FreshOf(k), Fresh)
      /\ \A i \in 1..Len(FreshOf(k)) : FreshOf(k)[i] \in of
  BY <1>1, <1>4, KeepPicks
<1>7. EntriesRight(FreshOthers(k)) /\ EntriesRight(FreshOf(k))
  BY <1>1, <1>5, <1>6, PickedAreRight
<1>8. /\ \A i \in 1..Len(FreshOthers(k)) : FreshOthers(k)[i].key # k
      /\ \A i \in 1..Len(FreshOf(k)) : FreshOf(k)[i].key = k
  BY <1>2, <1>3, <1>5, <1>6
<1>9. Len(FreshOf(k)) <= 1
  <2> SUFFICES ASSUME ~(Len(FreshOf(k)) <= 1) PROVE FALSE
    OBVIOUS
  <2>1. 1 \in 1..Len(FreshOf(k)) /\ 2 \in 1..Len(FreshOf(k))
    BY <1>6
  <2>2. 1 = 2
    BY <1>7, <1>8, <2>1 DEF EntriesRight
  <2>3. QED
    BY <2>2
<1>10. Len(FreshOthers(k)) <= MaxEntries
  BY <1>1, <1>5, CacheEnabled
<1>11. ASSUME k \in FreshKeys PROVE Len(FreshOthers(k)) < MaxEntries
  <2>1. PICK i \in 1..Len(Fresh) : Fresh[i].key = k
    BY <1>1, <1>11 DEF FreshKeys
  <2>2. Fresh[i] \notin others
    BY <1>2, <2>1
  <2>3. QED
    BY <1>1, <1>5, <2>2, CacheEnabled
<1>12. QED
  BY <1>7, <1>8, <1>9, <1>10, <1>11

-----------------------------------------------------------------------------

LEMMA ResultsInit == Init => RInv
<1> SUFFICES ASSUME Init PROVE RInv
  OBVIOUS
<1>1. IInv
  BY CallsInit
<1>2. EntriesRight(entries) /\ Len(entries) <= MaxEntries /\ Len(flights) <= MaxFlights
  BY CacheEnabled DEF Init, EntriesRight
<1>3. CurrentIsNewest
  BY DEF Init, CurrentIsNewest
<1>4. QED
  BY <1>1, <1>2, <1>3 DEF RInv

\* The calls are typed in both states of a step.
LEMMA FlightsTyped ==
    ASSUME IInv
    PROVE  /\ flights \in Seq(Flight) /\ Flights = 1..Len(flights)
           /\ \A f \in Flights : flights[f] \in Flight /\ flights[f].key \in Key
<1>1. flights \in Seq(Flight) /\ Flights = 1..Len(flights)
  BY DEF IInv, CallsTyped, Flights
<1>2. \A f \in Flights : flights[f] \in Flight
  BY <1>1
<1>3. \A r \in Flight : r.key \in Key
  BY DEF Flight
<1>4. QED
  BY <1>1, <1>2, <1>3

\* A call that the map holds and that succeeded is stored for its key.
LEMMA StoreStep ==
    ASSUME RInv, NEW k \in Key, NEW f \in Flights, inflight[k] = f, HasResult(f),
           flights[f].key = k, Store(k, f),
           inflight' = [inflight EXCEPT ![k] = 0],
           Len(flights') = Len(flights), Flights' = Flights,
           \A g \in Flights : /\ flights'[g].key = flights[g].key
                              /\ flights[g].state = "succeeded"
                                    => flights'[g].state = "succeeded"
    PROVE  EntriesRight(entries)' /\ Len(entries') <= MaxEntries
<1>1. PICK n \in Nat : n = MaxEntries - 1
  BY CacheEnabled
<1>2. PICK e : e = [key |-> k, flight |-> f, expired |-> FALSE]
  OBVIOUS
<1>3. /\ e \in Entry /\ e.key = k /\ e.flight = f
  BY <1>2, FlightsTyped, CacheEnabled DEF Entry, RInv
<1>4. PICK s : s = LastOf(FreshOthers(k), n)
  OBVIOUS
<1>5. PICK others \in Seq(Entry) : others = FreshOthers(k)
  BY FreshPartsFacts DEF EntriesRight
<1>6. s \in Seq(Entry) /\ PicksFrom(s, others) /\ Len(s) <= n
  BY <1>4, <1>5, LastOfPicks
<1>7. EntriesRight(s)
  BY <1>5, <1>6, FreshPartsFacts, PickedAreRight
<1>8. \A i \in 1..Len(s) : s[i].key # k
  <2>1. PICK o : Origin(o, s, others, Len(others))
    BY <1>6 DEF PicksFrom
  <2>2. \A i \in 1..Len(s) : o[i] \in 1..Len(others) /\ s[i] = others[o[i]]
    BY <2>1 DEF Origin
  <2>3. QED
    BY <1>5, <2>2, FreshPartsFacts
<1>9. EntriesRight(s)'
  <2>1. PICK busy : busy = {}
    OBVIOUS
  <2>2. \A i \in 1..Len(s) : s[i].key \notin busy
    BY <2>1
  <2>3. \A j \in Key : j \notin busy /\ inflight[j] = 0 => inflight'[j] = 0
    BY DEF RInv, IInv, CallsTyped
  <2>4. \A g \in Flights' : g \notin Flights => flights'[g].key \in busy
    OBVIOUS
  <2>5. QED
    BY <1>7, <2>2, <2>3, <2>4, EntriesStay
<1>10. EntryRight(e)'
  <2>1. inflight'[k] = 0
    BY DEF RInv, IInv, CallsTyped
  <2>2. \A g \in Flights : flights[g].key = k => g <= f
    BY FlightsTyped DEF RInv, CurrentIsNewest
  <2>3. QED
    BY <1>3, <2>1, <2>2 DEF EntryRight, HasResult
<1>11. entries' = Append(s, e)
  BY <1>1, <1>2, <1>4 DEF Store
<1>12. PICK t : t = Append(s, e)
  OBVIOUS
<1>13. /\ t \in Seq(Entry) /\ Len(t) = Len(s) + 1
       /\ \A i \in 1..Len(s) : t[i] = s[i]
       /\ t[Len(s) + 1] = e
       /\ \A i \in 1..Len(t) : i \in 1..Len(s) \/ i = Len(s) + 1
  BY <1>3, <1>6, <1>12
<1>14. EntriesRight(t)'
  <2>1. \A i \in 1..Len(t) : EntryRight(t[i])'
    BY <1>9, <1>10, <1>13 DEF EntriesRight
  <2>2. \A i, j \in 1..Len(t) : t[i].key = t[j].key => i = j
    BY <1>3, <1>7, <1>8, <1>13, ZenonT(60) DEF EntriesRight
  <2>3. QED
    BY <1>13, <2>1, <2>2 DEF EntriesRight
<1>15. QED
  BY <1>1, <1>6, <1>11, <1>12, <1>13, <1>14, CacheEnabled DEF EntriesRight

\* A step of the calls that starts none keeps the order in which the map and the
\* keys see them.
LEMMA NewestStays ==
    ASSUME RInv, Len(flights') = Len(flights), Flights' = Flights,
           \A f \in Flights : flights'[f].key = flights[f].key,
           \A k \in Key : inflight'[k] = inflight[k] \/ inflight'[k] = 0
    PROVE  CurrentIsNewest' /\ Len(flights') <= MaxFlights
BY DEF RInv, CurrentIsNewest

\* A step of the calls that neither starts one nor stores a result.
LEMMA EntriesKept ==
    ASSUME RInv, IInv', UNCHANGED entries, Len(flights') = Len(flights),
           Flights' = Flights,
           \A f \in Flights :
              /\ flights'[f].key = flights[f].key
              /\ flights[f].state = "succeeded" => flights'[f].state = "succeeded",
           \A k \in Key : inflight'[k] = inflight[k] \/ inflight'[k] = 0
    PROVE  RInv'
<1>1. PICK s : s = entries
  OBVIOUS
<1>2. PICK busy : busy = {}
  OBVIOUS
<1>3. EntriesRight(s)
  BY <1>1 DEF RInv
<1>4. /\ \A i \in 1..Len(s) : s[i].key \notin busy
      /\ \A f \in Flights' : f \notin Flights => flights'[f].key \in busy
      /\ \A k \in Key : k \notin busy /\ inflight[k] = 0 => inflight'[k] = 0
  BY <1>2
<1>5. EntriesRight(s)'
  BY <1>3, <1>4, EntriesStay
<1>6. EntriesRight(entries)' /\ Len(entries') <= MaxEntries
  BY <1>1, <1>5 DEF RInv
<1>7. QED
  BY <1>6, NewestStays DEF RInv

LEMMA HitResults ==
    ASSUME RInv, IInv', NEW k \in Key, Hit(k)
    PROVE  RInv'
<1>1. PICK s \in Seq(Entry), t \in Seq(Entry) : s = FreshOthers(k) /\ t = FreshOf(k)
  BY FreshPartsFacts DEF EntriesRight
<1>2. /\ EntriesRight(s) /\ EntriesRight(t)
      /\ \A i \in 1..Len(s) : s[i].key # k
      /\ \A i \in 1..Len(t) : t[i].key = k
      /\ Len(t) <= 1 /\ Len(s) < MaxEntries
  BY <1>1, FreshPartsFacts DEF Hit
<1>3. PICK u : u = s \o t
  OBVIOUS
<1>4. /\ u \in Seq(Entry) /\ Len(u) = Len(s) + Len(t)
      /\ \A i \in 1..Len(s) : u[i] = s[i]
      /\ \A i \in 1..Len(u) : i \in 1..Len(s) \/ i = Len(s) + 1
      /\ Len(t) # 0 => u[Len(s) + 1] = t[1]
  BY <1>1, <1>2, <1>3
<1>5. \A i \in 1..Len(u) : i \notin 1..Len(s) => Len(t) # 0 /\ 1 \in 1..Len(t)
  BY <1>1, <1>4
<1>6. EntriesRight(u)
  <2>1. /\ \A i \in 1..Len(s) : EntryRight(s[i])
        /\ \A i \in 1..Len(t) : EntryRight(t[i])
        /\ \A i, j \in 1..Len(s) : s[i].key = s[j].key => i = j
    BY <1>2 DEF EntriesRight
  <2>2. ASSUME NEW i \in 1..Len(u), i \notin 1..Len(s)
        PROVE  i = Len(s) + 1 /\ EntryRight(u[i]) /\ u[i].key = k
    BY <1>2, <1>4, <1>5, <2>1, <2>2
  <2>3. \A i \in 1..Len(s) : EntryRight(u[i]) /\ u[i].key # k
    BY <1>2, <1>4, <2>1
  <2>4. ASSUME NEW i \in 1..Len(u), NEW j \in 1..Len(u), u[i].key = u[j].key
        PROVE  i = j
    <3>1. CASE i \in 1..Len(s) /\ j \in 1..Len(s)
      BY <1>4, <2>1, <2>4, <3>1
    <3>2. CASE i \notin 1..Len(s) \/ j \notin 1..Len(s)
      BY <2>2, <2>3, <2>4, <3>2
    <3>3. QED
      BY <3>1, <3>2
  <2>5. QED
    BY <1>4, <2>2, <2>3, <2>4 DEF EntriesRight
<1>7. Len(u) <= MaxEntries
  BY <1>1, <1>2, <1>4, CacheEnabled
<1>8. entries' = u /\ UNCHANGED <<flights, inflight>>
  BY <1>1, <1>3 DEF Hit
<1>9. EntriesRight(u)' /\ CurrentIsNewest'
  BY <1>6, <1>8 DEF RInv, EntriesRight, EntryRight, CurrentIsNewest, Flights
<1>10. QED
  BY <1>7, <1>8, <1>9 DEF RInv

LEMMA ExpireResults ==
    ASSUME RInv, IInv', NEW j \in DOMAIN entries, Expire(j)
    PROVE  RInv'
<1>1. PICK s \in Seq(Entry) : s = entries
  BY DEF RInv, EntriesRight
<1>2. PICK e : e = [s[j] EXCEPT !.expired = TRUE]
  OBVIOUS
<1>3. j \in 1..Len(s) /\ s[j] \in Entry
  BY <1>1
<1>4. e \in Entry /\ e.key = s[j].key /\ e.flight = s[j].flight
  BY <1>2, <1>3 DEF Entry
<1>5. PICK t : t = [s EXCEPT ![j] = e]
  OBVIOUS
<1>6. /\ t \in Seq(Entry) /\ Len(t) = Len(s)
      /\ \A i \in 1..Len(s) : t[i] = IF i = j THEN e ELSE s[i]
  BY <1>3, <1>4, <1>5
<1>7. \A i \in 1..Len(s) : t[i].key = s[i].key /\ t[i].flight = s[i].flight
  BY <1>4, <1>6
<1>8. EntriesRight(t)
  <2>1. EntriesRight(s)
    BY <1>1 DEF RInv
  <2>2. QED
    BY <1>6, <1>7, <2>1 DEF EntriesRight, EntryRight
<1>9. entries' = t /\ UNCHANGED <<flights, inflight>>
  BY <1>1, <1>2, <1>5 DEF Expire
<1>10. EntriesRight(t)' /\ CurrentIsNewest'
  BY <1>8, <1>9 DEF RInv, EntriesRight, EntryRight, CurrentIsNewest, Flights
<1>11. QED
  BY <1>1, <1>6, <1>9, <1>10 DEF RInv

\* A miss starts a call for a key of which no result is left.
LEMMA MissResults ==
    ASSUME RInv, IInv', NEW c \in Caller, NEW k \in Key, Miss(c, k)
    PROVE  RInv'
<1>1. PICK n \in Nat : n = Len(flights) + 1
  BY FlightsTyped DEF RInv
<1>2. PICK new : new = [key |-> k, state |-> "running", waiters |-> 1]
  OBVIOUS
<1>3. PICK s : s = Fresh
  OBVIOUS
<1>4. /\ flights' = Append(flights, new) /\ new.key = k
      /\ inflight' = [inflight EXCEPT ![k] = n]
      /\ entries' = s /\ Len(flights) < MaxFlights
      /\ k \notin FreshKeys
  BY <1>1, <1>2, <1>3 DEF Miss
<1>5. /\ Flights = 1..Len(flights)
      /\ Len(flights') = n /\ Flights' = 1..n
      /\ \A f \in Flights : f \in Flights' /\ flights'[f] = flights[f]
      /\ flights'[n] = new
      /\ \A f \in Flights' : f \in Flights \/ f = n
  BY <1>1, <1>4, FlightsTyped DEF RInv, Flights
<1>6. EntriesRight(s) /\ Len(s) <= MaxEntries
  BY <1>3, FreshFacts
<1>7. \A i \in 1..Len(s) : s[i].key \notin {k}
  BY <1>3, <1>4, <1>6 DEF FreshKeys, EntriesRight
<1>8. EntriesRight(s)'
  <2>1. PICK busy : busy = {k}
    OBVIOUS
  <2>2. /\ \A i \in 1..Len(s) : s[i].key \notin busy
        /\ \A f \in Flights' : f \notin Flights => flights'[f].key \in busy
        /\ \A j \in Key : j \notin busy /\ inflight[j] = 0 => inflight'[j] = 0
    BY <1>4, <1>5, <1>7, <2>1 DEF RInv, IInv, CallsTyped
  <2>3. QED
    BY <1>5, <1>6, <2>2, EntriesStay
<1>9. CurrentIsNewest'
  <2> SUFFICES ASSUME NEW j \in Key, inflight'[j] # 0, NEW f \in Flights',
                      flights'[f].key = j
               PROVE  f <= inflight'[j]
    BY DEF CurrentIsNewest
  <2>1. CASE j = k
    BY <1>1, <1>4, <1>5, <2>1 DEF RInv, IInv, CallsTyped
  <2>2. CASE j # k
    <3>1. f \in Flights /\ inflight'[j] = inflight[j]
      BY <1>4, <1>5, <2>2 DEF RInv, IInv, CallsTyped
    <3>2. QED
      BY <1>5, <3>1 DEF RInv, CurrentIsNewest
  <2>3. QED
    BY <2>1, <2>2
<1>10. Len(flights') <= MaxFlights
  BY <1>1, <1>4, <1>5, CacheEnabled, FlightsTyped DEF RInv
<1>11. QED
  BY <1>4, <1>6, <1>8, <1>9, <1>10 DEF RInv

LEMMA ShareSettledResults ==
    ASSUME RInv, IInv', NEW k \in Key, ShareSettled(k)
    PROVE  RInv'
<1>1. PICK f : f = inflight[k]
  OBVIOUS
<1>2. /\ f # 0 /\ f \in Flights /\ flights[f].key = k
      /\ UNCHANGED flights /\ Flights' = Flights
      /\ inflight' = [inflight EXCEPT ![k] = 0]
  BY <1>1 DEF ShareSettled, Settle, RInv, IInv, CallsTyped, MapIsKeyed, Flights
<1>3. \A j \in Key : inflight'[j] = inflight[j] \/ inflight'[j] = 0
  BY <1>2 DEF RInv, IInv, CallsTyped
<1>4. CurrentIsNewest' /\ Len(flights') <= MaxFlights
  BY <1>2, <1>3, NewestStays
<1>5. CASE HasResult(f)
  <2>1. Store(k, f)
    BY <1>1, <1>5 DEF ShareSettled, Settle
  <2>2. EntriesRight(entries)' /\ Len(entries') <= MaxEntries
    BY <1>1, <1>2, <1>5, <2>1, StoreStep
  <2>3. QED
    BY <1>4, <2>2 DEF RInv
<1>6. CASE ~HasResult(f)
  <2>1. PICK s : s = Fresh
    OBVIOUS
  <2>2. EntriesRight(s) /\ Len(s) <= MaxEntries /\ entries' = s
    BY <1>1, <1>6, <2>1, FreshFacts DEF ShareSettled
  <2>3. EntriesRight(s)'
    <3>1. PICK busy : busy = {}
      OBVIOUS
    <3>2. /\ \A i \in 1..Len(s) : s[i].key \notin busy
          /\ \A g \in Flights' : g \notin Flights => flights'[g].key \in busy
          /\ \A j \in Key : j \notin busy /\ inflight[j] = 0 => inflight'[j] = 0
      BY <1>2, <1>3, <3>1
    <3>3. QED
      BY <1>2, <2>2, <3>2, EntriesStay
  <2>4. QED
    BY <1>4, <2>2, <2>3 DEF RInv
<1>7. QED
  BY <1>5, <1>6

LEMMA ShareResults ==
    ASSUME RInv, IInv', NEW c \in Caller, NEW k \in Key, Share(c, k)
    PROVE  RInv'
<1>1. PICK j : j = inflight[k]
  OBVIOUS
<1>2. /\ j \in Flights /\ flights[j] \in Flight
      /\ flights' = [flights EXCEPT ![j].waiters = @ + 1]
      /\ inflight' = inflight
  BY <1>1, FlightsTyped DEF Share, RInv, IInv, CallsTyped, Flights
<1>3. PICK new : new = [flights[j] EXCEPT !.waiters = flights[j].waiters + 1]
  OBVIOUS
<1>4. /\ new \in Flight /\ new.key = flights[j].key /\ new.state = flights[j].state
      /\ flights' = [flights EXCEPT ![j] = new]
  BY <1>2, <1>3, FlightCounts, FlightRecounted
<1>5. /\ Len(flights') = Len(flights) /\ Flights' = Flights
      /\ \A f \in Flights : /\ flights'[f].key = flights[f].key
                            /\ flights'[f].state = flights[f].state
  <2>1. /\ Len(flights') = Len(flights) /\ Flights' = Flights
        /\ \A f \in Flights : /\ flights'[f] = IF f = j THEN new ELSE flights[f]
                              /\ flights'[f].key = flights[f].key
    <3>1. j \in Flights /\ CallsTyped
      BY <1>2 DEF RInv, IInv
    <3>2. QED
      BY <1>4, <3>1, FlightReplaced, ZenonT(60)
  <2>2. QED
    BY <1>4, <2>1
<1>6. PICK s : s = Fresh
  OBVIOUS
<1>7. EntriesRight(s) /\ Len(s) <= MaxEntries /\ entries' = s
  BY <1>6, FreshFacts DEF Share
<1>8. EntriesRight(s)'
  <2>1. PICK busy : busy = {}
    OBVIOUS
  <2>2. /\ \A i \in 1..Len(s) : s[i].key \notin busy
        /\ \A f \in Flights' : f \notin Flights => flights'[f].key \in busy
        /\ \A i \in Key : i \notin busy /\ inflight[i] = 0 => inflight'[i] = 0
    BY <1>2, <1>5, <2>1
  <2>3. QED
    BY <1>5, <1>7, <2>2, EntriesStay
<1>9. CurrentIsNewest' /\ Len(flights') <= MaxFlights
  BY <1>2, <1>5, NewestStays
<1>10. QED
  BY <1>7, <1>8, <1>9 DEF RInv

LEMMA FinishResults ==
    ASSUME RInv, IInv', NEW j \in Flights, Finish(j)
    PROVE  RInv'
<1>1. PICK outcome \in {"succeeded", "failed"} :
          flights' = [flights EXCEPT ![j].state = outcome]
  BY DEF Finish
<1>2. PICK new : new = [flights[j] EXCEPT !.state = outcome]
  OBVIOUS
<1>3. flights[j] \in Flight
  BY FlightsTyped DEF RInv
<1>4. new \in Flight /\ new.key = flights[j].key
  BY <1>2, <1>3 DEF Flight, FlightState
<1>5. flights' = [flights EXCEPT ![j] = new]
  BY <1>1, <1>2
<1>6. /\ Len(flights') = Len(flights) /\ Flights' = Flights
      /\ \A f \in Flights : /\ flights'[f].key = flights[f].key
                            /\ f # j => flights'[f] = flights[f]
  <2>1. /\ Len(flights') = Len(flights) /\ Flights' = Flights
        /\ \A f \in Flights : /\ flights'[f] = IF f = j THEN new ELSE flights[f]
                              /\ flights'[f].key = flights[f].key
    BY <1>4, <1>5, FlightReplaced DEF RInv, IInv
  <2>2. QED
    BY <2>1
<1>7. flights[j].state # "succeeded"
  BY DEF Finish, Running
<1>8. \A f \in Flights :
         flights[f].state = "succeeded" => flights'[f].state = "succeeded"
  BY <1>6, <1>7
<1>9. UNCHANGED <<inflight, entries>>
  BY DEF Finish
<1>10. QED
  BY <1>6, <1>8, <1>9, EntriesKept

LEMMA LeaveResults ==
    ASSUME RInv, IInv', NEW c \in Caller, waitsFor[c] # 0, Leave(c)
    PROVE  RInv'
<1>1. PICK j \in Flights : j = waitsFor[c]
  BY DEF RInv, IInv, CallsTyped, Flights
<1>2. PICK k \in Key : k = flights[j].key
  BY FlightsTyped DEF RInv
<1> DEFINE left == [flights EXCEPT ![j].waiters = @ - 1]
<1>3. CASE ~IsCurrent(j) /\ UNCHANGED <<flights, inflight, entries>>
  BY <1>3, EntriesKept DEF Flights
<1>4. ASSUME IsCurrent(j)
      PROVE  \E one \in Flight : /\ left = [flights EXCEPT ![j] = one]
                                 /\ left[j] = one
                                 /\ one.key = k /\ one.state = flights[j].state
  <2>1. flights[j] \in Flight /\ flights[j].waiters - 1 \in Nat
    BY <1>1, <1>4, LeaverIsCounted DEF RInv
  <2>2. PICK one : one = [flights[j] EXCEPT !.waiters = flights[j].waiters - 1]
    OBVIOUS
  <2>3. one \in Flight /\ one.key = k /\ one.state = flights[j].state
    BY <1>2, <2>1, <2>2, FlightRecounted
  <2>4. left = [flights EXCEPT ![j] = one]
    BY <2>2
  <2>5. left[j] = one
    BY <2>4 DEF Flights
  <2>6. QED
    BY <2>3, <2>4, <2>5
<1>5. ASSUME NEW new \in Flight, new.key = k,
             flights[j].state = "succeeded" => new.state = "succeeded",
             flights' = [flights EXCEPT ![j] = new]
      PROVE  /\ Len(flights') = Len(flights) /\ Flights' = Flights
             /\ \A f \in Flights :
                   /\ flights'[f].key = flights[f].key
                   /\ flights[f].state = "succeeded" => flights'[f].state = "succeeded"
  <2>1. /\ Len(flights') = Len(flights) /\ Flights' = Flights
        /\ \A f \in Flights : /\ flights'[f] = IF f = j THEN new ELSE flights[f]
                              /\ flights'[f].key = flights[f].key
    BY <1>2, <1>5, FlightReplaced, ZenonT(60) DEF RInv, IInv
  <2>2. QED
    BY <1>5, <2>1
<1>6. inflight' = [inflight EXCEPT ![k] = 0]
          => \A i \in Key : inflight'[i] = inflight[i] \/ inflight'[i] = 0
  BY DEF RInv, IInv, CallsTyped
<1>7. CASE IsCurrent(j) /\ ~Running(j) /\ flights' = left /\ Settle(k, j)
  <2>1. PICK one \in Flight : /\ left = [flights EXCEPT ![j] = one]
                              /\ one.key = k /\ one.state = flights[j].state
    BY <1>4, <1>7
  <2>2. /\ Len(flights') = Len(flights) /\ Flights' = Flights
        /\ \A f \in Flights :
              /\ flights'[f].key = flights[f].key
              /\ flights[f].state = "succeeded" => flights'[f].state = "succeeded"
    BY <1>5, <1>7, <2>1
  <2>3. inflight' = [inflight EXCEPT ![k] = 0] /\ inflight[k] = j
    BY <1>2, <1>7 DEF Settle, IsCurrent
  <2>4. CASE HasResult(j)
    <3>1. Store(k, j)
      BY <1>7, <2>4 DEF Settle
    <3>2. EntriesRight(entries)' /\ Len(entries') <= MaxEntries
      BY <1>2, <2>2, <2>3, <2>4, <3>1, StoreStep
    <3>3. QED
      BY <1>6, <2>2, <2>3, <3>2, NewestStays DEF RInv
  <2>5. CASE ~HasResult(j)
    BY <1>6, <1>7, <2>2, <2>3, <2>5, EntriesKept DEF Settle
  <2>6. QED
    BY <2>4, <2>5
<1>8. CASE /\ IsCurrent(j) /\ Running(j) /\ Unwanted(j)
           /\ flights' = [left EXCEPT ![j].state = "cancelled"]
           /\ inflight' = [inflight EXCEPT ![k] = 0]
           /\ UNCHANGED entries
  <2>1. PICK one \in Flight : /\ left = [flights EXCEPT ![j] = one] /\ left[j] = one
                              /\ one.key = k
    BY <1>4, <1>8
  <2>2. PICK new : new = [one EXCEPT !.state = "cancelled"]
    OBVIOUS
  <2>3. new \in Flight /\ new.key = k
    BY <2>1, <2>2 DEF Flight, FlightState
  <2>4. flights' = [flights EXCEPT ![j] = new]
    BY <1>8, <2>1, <2>2
  <2>5. flights[j].state # "succeeded"
    BY <1>8 DEF Running
  <2>6. QED
    BY <1>5, <1>6, <1>8, <2>3, <2>4, <2>5, EntriesKept
<1>9. CASE /\ IsCurrent(j) /\ Running(j) /\ ~Unwanted(j)
           /\ flights' = left
           /\ UNCHANGED <<inflight, entries>>
  <2>1. PICK one \in Flight : /\ left = [flights EXCEPT ![j] = one]
                              /\ one.key = k /\ one.state = flights[j].state
    BY <1>4, <1>9
  <2>2. QED
    BY <1>5, <1>9, <2>1, EntriesKept
<1>10. QED
  BY <1>1, <1>2, <1>3, <1>7, <1>8, <1>9 DEF Leave

LEMMA ResultsStep == RInv /\ [Next]_vars => RInv'
<1> SUFFICES ASSUME RInv, [Next]_vars PROVE RInv'
  OBVIOUS
<1>1. IInv'
  BY CallsStep DEF RInv
<1>2. ASSUME NEW c \in Caller, NEW k \in Key, GetOrCreate(c, k)
      PROVE  RInv'
  BY <1>1, <1>2, HitResults, MissResults, ShareResults, ShareSettledResults
     DEF GetOrCreate
<1>3. ASSUME NEW c \in Caller, Wake(c) PROVE RInv'
  BY <1>1, <1>3, LeaveResults DEF Wake
<1>4. ASSUME NEW c \in Caller, CallerCancelled(c) PROVE RInv'
  BY <1>1, <1>4, LeaveResults DEF CallerCancelled
<1>5. ASSUME NEW f \in Flights, Finish(f) PROVE RInv'
  BY <1>1, <1>5, FinishResults
<1>6. ASSUME NEW i \in DOMAIN entries, Expire(i) PROVE RInv'
  BY <1>1, <1>6, ExpireResults
<1>7. CASE UNCHANGED vars
  BY <1>1, <1>7, EntriesKept DEF vars, Flights
<1>8. QED
  BY <1>2, <1>3, <1>4, <1>5, <1>6, <1>7 DEF Next

LEMMA ResultsInvariant == Spec => []RInv
BY ResultsInit, ResultsStep, PTL DEF Spec

\* The cache never holds more results than it may, for any number of callers,
\* keys, calls and entries.
THEOREM CacheIsBounded == Spec => []TypeOK
<1>1. RInv => TypeOK
  BY DEF RInv, IInv, CallsTyped, EntriesRight, TypeOK
<1>2. QED
  BY <1>1, ResultsInvariant, PTL

\* What is cached for a key is the result of the last call made for it.
THEOREM NoOldResultReturns == Spec => []CachedIsNewest
<1>1. RInv => CachedIsNewest
  BY DEF RInv, EntriesRight, EntryRight, CachedIsNewest
<1>2. QED
  BY <1>1, ResultsInvariant, PTL
==============================================================================
