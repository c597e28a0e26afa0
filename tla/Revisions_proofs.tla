--------------------------- MODULE Revisions_proofs ---------------------------
(* Machine-checked proofs about Revisions, for every number of concurrent     *)
(* requests and every bound on the revisions.                                 *)
EXTENDS Revisions, TLAPS

IInv == TypeOK /\ HistoryInv

\* A revision is committed only from the current one: every older number is taken.
LEMMA CommitsAtTheEnd ==
    ASSUME IInv, NEW c \in Client, CommitRevision(c)
    PROVE  NewRevision(c) = current + 1 /\ Rows' = First..(current + 1)
<1> USE RevisionBounds DEF RevisionBounds
<1>1. current \in First..MaxRevision /\ Rows = First..current
  BY DEF IInv, TypeOK, HistoryInv, CurrentIsNewest
<1>2. request[c].base \in Rows
  BY DEF IInv, HistoryInv, RequestsReadHistory, Pending, CommitRevision
<1>3. request[c].base + 1 \notin Rows
  BY DEF CommitRevision, RevisionFree, NewRevision
<1>4. NewRevision(c) = current + 1
  BY <1>1, <1>2, <1>3 DEF NewRevision
<1>5. Rows' = Rows \cup {NewRevision(c)}
  BY DEF CommitRevision, Rows
<1>6. QED
  BY <1>1, <1>4, <1>5

\* A release that commits gives its base the next number, or the number the base
\* has already: the number read is stale only in ways the constraint catches.
LEMMA ReleaseNumber ==
    ASSUME IInv, NEW c \in Client, CommitRelease(c)
    PROVE  LET b == request[c].base IN
           /\ b \in Rows
           /\ NextNumber(c) \in Nat \ {0}
           /\ \A r \in Rows \ {b} : release[r] # NextNumber(c)
           /\ \A n \in 1..request[c].latest :
                 \E r \in Rows \ {b} : release[r] = n
           /\ release[b] = 0 \/ release[b] = NextNumber(c)
<1> DEFINE b == request[c].base
           m == NextNumber(c)
<1>1. request[c] \in Request /\ m = request[c].latest + 1 /\ m \in Nat \ {0}
  BY DEF IInv, TypeOK, NextNumber, Request
<1>2. b \in Rows /\ \A n \in 1..request[c].latest :
                       \E r \in Rows \ {b} : release[r] = n
  BY DEF IInv, HistoryInv, RequestsReadHistory, Pending, CommitRelease
<1>3. \A r \in Rows \ {b} : release[r] # m
  BY DEF CommitRelease, NumberFree
<1>4. ASSUME release[b] # 0, release[b] # m PROVE FALSE
  <2>1. release[b] \in Nat \ {0} /\ release[b] \in Assigned
    BY <1>2, <1>4 DEF IInv, TypeOK, Assigned
  <2>2. CASE release[b] < m
    <3>1. release[b] \in 1..request[c].latest
      BY <1>1, <2>1, <2>2 DEF Request
    <3>2. PICK r \in Rows \ {b} : release[r] = release[b]
      BY <1>2, <3>1
    <3>3. QED
      BY <1>2, <2>1, <3>2 DEF IInv, HistoryInv, NumbersDistinct
  <2>3. CASE release[b] > m
    <3>1. m \in Assigned
      BY <1>1, <2>1, <2>3 DEF IInv, HistoryInv, NumbersDense
    <3>2. PICK r \in Rows : release[r] = m
      BY <3>1 DEF Assigned
    <3>3. QED
      BY <1>3, <1>4, <3>2
  <2>4. QED
    BY <1>1, <1>4, <2>1, <2>2, <2>3
<1>5. QED
  BY <1>1, <1>2, <1>3, <1>4

LEMMA RevisionsInit == Init => IInv
<1> SUFFICES ASSUME Init PROVE IInv
  OBVIOUS
<1> USE RevisionBounds DEF RevisionBounds, Init
<1>1. Rows = {First} /\ \A r \in Rows : release[r] = 0
  BY DEF Rows
<1>2. Assigned = {}
  BY <1>1 DEF Assigned
<1>3. TypeOK
  BY <1>1 DEF TypeOK, Idle, Request, Kind, Lifecycle, Rows
<1>4. CurrentIsNewest
  BY <1>1 DEF CurrentIsNewest
<1>5. NumbersDense /\ NumbersDistinct /\ LatestWasAssigned
  BY <1>1, <1>2 DEF NumbersDense, NumbersDistinct, LatestWasAssigned
<1>6. RequestsReadHistory
  BY DEF RequestsReadHistory, Pending, Idle
<1>7. QED
  BY <1>3, <1>4, <1>5, <1>6 DEF IInv, HistoryInv

\* A request that begins, gives up or is refused leaves the rows alone.
LEMMA RequestOnly ==
    ASSUME IInv, UNCHANGED <<current, status, latest, release>>,
           request' \in [Client -> Request], RequestsReadHistory'
    PROVE  IInv'
BY DEF IInv, TypeOK, HistoryInv, CurrentIsNewest, NumbersDense,
       NumbersDistinct, LatestWasAssigned, Rows, Assigned

\* ...and is all the more so when it becomes idle.
LEMMA EndsIdle ==
    ASSUME IInv, NEW c \in Client, UNCHANGED <<current, status, latest, release>>,
           request' = [request EXCEPT ![c] = Idle]
    PROVE  IInv'
<1>1. request' \in [Client -> Request]
  BY DEF IInv, TypeOK, Idle, Request, Kind, Lifecycle
<1>2. RequestsReadHistory'
  BY DEF IInv, TypeOK, HistoryInv, RequestsReadHistory, Pending, Idle, Rows, Assigned
<1>3. QED
  BY <1>1, <1>2, RequestOnly

LEMMA BeginStep ==
    ASSUME IInv, NEW c \in Client, NEW kind \in Kind, Begin(c, kind)
    PROVE  IInv'
<1> USE RevisionBounds DEF RevisionBounds, Begin
<1>1. request' \in [Client -> Request]
  BY DEF IInv, TypeOK, Request
<1>2. current \in Rows /\ \A n \in 1..latest : n \in Assigned
  BY DEF IInv, TypeOK, HistoryInv, CurrentIsNewest, LatestWasAssigned, NumbersDense
<1>3. RequestsReadHistory'
  BY <1>2 DEF IInv, TypeOK, HistoryInv, RequestsReadHistory, Pending, Rows, Assigned
<1>4. QED
  BY <1>1, <1>3, RequestOnly

LEMMA LoadStep ==
    ASSUME IInv, NEW c \in Client, Load(c)
    PROVE  IInv'
<1> USE DEF Load
<1>1. request' \in [Client -> Request]
  BY DEF IInv, TypeOK, Request
<1>2. ASSUME request[c].kind = "publish", NEW n \in 1..request[c].latest
      PROVE  \E r \in Rows \ {request[c].base} : release[r] = n
  <2>1. n \in Assigned /\ n # 0
    BY DEF IInv, HistoryInv, RequestsReadHistory, Pending
  <2>2. release[request[c].base] = 0
    BY <1>2 DEF Admitted
  <2>3. QED
    BY <2>1, <2>2 DEF Assigned
<1>3. RequestsReadHistory'
  <2> SUFFICES ASSUME NEW d \in Client, Pending(d)'
               PROVE  /\ request'[d].base \in Rows
                      /\ request'[d].kind # "publish" =>
                            request'[d].base < MaxRevision
                      /\ \A n \in 1..request'[d].latest : n \in Assigned
                      /\ request'[d].kind = "publish" /\ request'[d].pc = "ready" =>
                            \A n \in 1..request'[d].latest :
                                \E r \in Rows \ {request'[d].base} : release[r] = n
    BY DEF RequestsReadHistory, Rows, Assigned
  <2>1. Pending(d)
    BY DEF Pending, IInv, TypeOK
  <2>2. CASE d = c
    BY <1>2, <2>1, <2>2 DEF IInv, TypeOK, HistoryInv, RequestsReadHistory
  <2>3. CASE d # c
    BY <2>1, <2>3 DEF IInv, TypeOK, HistoryInv, RequestsReadHistory
  <2>4. QED
    BY <2>2, <2>3
<1>4. QED
  BY <1>1, <1>3, RequestOnly

LEMMA CommitRevisionStep ==
    ASSUME IInv, NEW c \in Client, CommitRevision(c)
    PROVE  IInv'
<1> DEFINE n == current + 1
<1> USE RevisionBounds DEF RevisionBounds
<1>1. /\ current \in First..MaxRevision
      /\ Rows = First..current
      /\ release \in [Rows -> Nat]
  BY DEF IInv, TypeOK, HistoryInv, CurrentIsNewest, Rows
<1>2. /\ current' = n
      /\ Rows' = First..n
      /\ \A r \in Rows : release'[r] = release[r]
      /\ release'[n] = 0
      /\ latest' = latest
  BY <1>1, CommitsAtTheEnd DEF CommitRevision, RevisionFree, Rows
<1>3. Assigned' = Assigned
  BY <1>1, <1>2 DEF Assigned
<1>4. TypeOK'
  <2>1. release' \in [Rows' -> Nat]
    BY <1>1, <1>2, CommitsAtTheEnd DEF CommitRevision, Rows
  <2>2. n \in First..MaxRevision
    <3>1. request[c].base \in Rows /\ request[c].base < MaxRevision
      BY DEF CommitRevision, IInv, HistoryInv, RequestsReadHistory, Pending
    <3>2. request[c].base + 1 = n
      BY CommitsAtTheEnd DEF NewRevision
    <3>3. QED
      BY <1>1, <3>1, <3>2
  <2>3. request' \in [Client -> Request]
    BY DEF CommitRevision, IInv, TypeOK, Idle, Request, Kind, Lifecycle
  <2>4. status' \in Lifecycle
    BY DEF CommitRevision, WriteStatus, IInv, TypeOK, Lifecycle
  <2>5. QED
    BY <1>1, <1>2, <2>1, <2>2, <2>3, <2>4 DEF IInv, TypeOK
<1>5. CurrentIsNewest'
  BY <1>2 DEF CurrentIsNewest
<1>6. NumbersDense' /\ LatestWasAssigned'
  BY <1>2, <1>3 DEF IInv, HistoryInv, NumbersDense, LatestWasAssigned
<1>7. NumbersDistinct'
  BY <1>1, <1>2 DEF IInv, HistoryInv, NumbersDistinct
<1>8. RequestsReadHistory'
  BY <1>1, <1>2, <1>3
     DEF IInv, TypeOK, HistoryInv, RequestsReadHistory, Pending, CommitRevision, Idle
<1>9. QED
  BY <1>4, <1>5, <1>6, <1>7, <1>8 DEF IInv, HistoryInv

LEMMA CommitReleaseStep ==
    ASSUME IInv, NEW c \in Client, CommitRelease(c)
    PROVE  IInv'
<1> DEFINE b == request[c].base
           m == NextNumber(c)
<1>1. /\ b \in Rows
      /\ m \in Nat \ {0}
      /\ m = request[c].latest + 1
      /\ \A r \in Rows \ {b} : release[r] # m
      /\ \A n \in 1..request[c].latest : \E r \in Rows \ {b} : release[r] = n
      /\ release[b] = 0 \/ release[b] = m
  BY ReleaseNumber DEF NextNumber
<1>2. /\ Rows' = Rows
      /\ release \in [Rows -> Nat]
      /\ release' = [release EXCEPT ![b] = m]
      /\ latest' = m
      /\ current' = current
  BY DEF CommitRelease, IInv, TypeOK, Rows
<1>3. release'[b] = m /\ \A r \in Rows \ {b} : release'[r] = release[r]
  BY <1>1, <1>2
<1>4. Assigned' = Assigned \cup {m}
  BY <1>1, <1>2, <1>3 DEF Assigned
<1>5. TypeOK'
  <2>1. release' \in [Rows' -> Nat]
    BY <1>1, <1>2
  <2>2. request' \in [Client -> Request]
    BY DEF CommitRelease, IInv, TypeOK, Idle, Request, Kind, Lifecycle
  <2>3. status' \in Lifecycle
    BY DEF CommitRelease, WriteStatus, IInv, TypeOK, Lifecycle
  <2>4. QED
    BY <1>1, <1>2, <2>1, <2>2, <2>3 DEF IInv, TypeOK
<1>6. CurrentIsNewest'
  BY <1>2 DEF IInv, HistoryInv, CurrentIsNewest
<1>7. NumbersDense'
  <2>1. \A n \in 1..request[c].latest : n \in Assigned
    BY <1>1 DEF Assigned
  <2>2. request[c].latest \in Nat
    BY DEF IInv, TypeOK, Request
  <2>3. QED
    BY <1>1, <1>4, <2>1, <2>2 DEF IInv, HistoryInv, NumbersDense
<1>8. NumbersDistinct'
  BY <1>1, <1>2, <1>3 DEF IInv, HistoryInv, NumbersDistinct
<1>9. LatestWasAssigned'
  BY <1>2, <1>4 DEF LatestWasAssigned
<1>10. RequestsReadHistory'
  <2> SUFFICES ASSUME NEW d \in Client, Pending(d)'
               PROVE  /\ request'[d].base \in Rows'
                      /\ request'[d].kind # "publish" =>
                            request'[d].base < MaxRevision
                      /\ \A n \in 1..request'[d].latest : n \in Assigned'
                      /\ request'[d].kind = "publish" /\ request'[d].pc = "ready" =>
                            \A n \in 1..request'[d].latest :
                                \E r \in Rows' \ {request'[d].base} : release'[r] = n
    BY DEF RequestsReadHistory
  <2>1. d # c /\ request'[d] = request[d] /\ Pending(d)
    BY DEF CommitRelease, Pending, IInv, TypeOK, Idle
  <2>2. /\ request[d].base \in Rows
        /\ request[d].kind # "publish" => request[d].base < MaxRevision
        /\ \A n \in 1..request[d].latest : n \in Assigned
    BY <2>1 DEF IInv, HistoryInv, RequestsReadHistory
  <2>3. ASSUME request[d].kind = "publish", request[d].pc = "ready",
               NEW n \in 1..request[d].latest
        PROVE  \E r \in Rows \ {request[d].base} : release'[r] = n
    <3>1. PICK r \in Rows \ {request[d].base} : release[r] = n
      BY <2>1, <2>3 DEF IInv, HistoryInv, RequestsReadHistory
    <3>2. release[r] # 0
      BY <3>1
    <3>3. release'[r] = n
      BY <1>1, <1>2, <1>3, <3>1, <3>2
    <3>4. QED
      BY <3>3
  <2>4. QED
    BY <1>2, <1>4, <2>1, <2>2, <2>3
<1>11. QED
  BY <1>5, <1>6, <1>7, <1>8, <1>9, <1>10 DEF IInv, HistoryInv

LEMMA RevisionsStep == IInv /\ [Next]_vars => IInv'
<1> SUFFICES ASSUME IInv, [Next]_vars PROVE IInv'
  OBVIOUS
<1>1. CASE UNCHANGED vars
  BY <1>1 DEF vars, IInv, TypeOK, HistoryInv, CurrentIsNewest, NumbersDense,
              NumbersDistinct, LatestWasAssigned, RequestsReadHistory, Pending,
              Rows, Assigned
<1>2. ASSUME NEW c \in Client, NEW kind \in Kind, Begin(c, kind) PROVE IInv'
  BY <1>2, BeginStep
<1>3. ASSUME NEW c \in Client, Load(c) PROVE IInv'
  BY <1>3, LoadStep
<1>4. ASSUME NEW c \in Client, GiveUp(c) \/ RevisionConflict(c) \/ ReleaseRefused(c)
      PROVE  IInv'
  BY <1>4, EndsIdle DEF GiveUp, RevisionConflict, ReleaseRefused
<1>5. ASSUME NEW c \in Client, CommitRevision(c) PROVE IInv'
  BY <1>5, CommitRevisionStep
<1>6. ASSUME NEW c \in Client, CommitRelease(c) PROVE IInv'
  BY <1>6, CommitReleaseStep
<1>7. QED
  BY <1>1, <1>2, <1>3, <1>4, <1>5, <1>6 DEF Next

LEMMA RevisionsInvariant == Spec => []IInv
BY RevisionsInit, RevisionsStep, PTL DEF Spec

\* The rows and the requests are well typed, whatever the bound on revisions.
THEOREM RevisionsTyped == Spec => []TypeOK
<1>1. IInv => TypeOK
  BY DEF IInv
<1>2. QED
  BY <1>1, RevisionsInvariant, PTL

\* No save loses or replaces a revision, however many requests race.
THEOREM NoRevisionIsLost == Spec => []CurrentIsNewest
<1>1. IInv => CurrentIsNewest
  BY DEF IInv, HistoryInv
<1>2. QED
  BY <1>1, RevisionsInvariant, PTL

\* Release numbers have no gaps and no duplicates, and what a request read of
\* them stays true enough for the constraint to catch the rest.
THEOREM ReleasesAreNumbered == Spec => []HistoryInv
<1>1. IInv => HistoryInv
  BY DEF IInv
<1>2. QED
  BY <1>1, RevisionsInvariant, PTL

LEMMA SameNumbers == Assigned = History!Assigned
BY DEF Assigned, Rows, History!Assigned

\* Every step appends a draft, numbers a release or leaves the history alone.
LEMMA HistoryStep == IInv /\ [Next]_vars => [History!HistoryNext]_release
<1> SUFFICES ASSUME IInv, Next, release' # release PROVE History!HistoryNext
  BY DEF vars
<1>1. ASSUME NEW c \in Client, CommitRevision(c) PROVE History!HistoryNext
  <2>1. Rows = First..current /\ current \in Rows
    BY RevisionBounds DEF RevisionBounds, IInv, TypeOK, HistoryInv, CurrentIsNewest
  <2>2. release' = [r \in First..(current + 1) |->
                       IF r = current + 1 THEN 0 ELSE release[r]]
    <3>1. NewRevision(c) = current + 1 /\ Rows' = First..(current + 1)
      BY <1>1, CommitsAtTheEnd
    <3>2. Rows' = Rows \cup {NewRevision(c)}
      BY <1>1 DEF CommitRevision, Rows
    <3>3. QED
      BY <1>1, <3>1, <3>2 DEF CommitRevision
  <2>3. QED
    BY <2>1, <2>2 DEF History!HistoryNext, History!AppendDraft, Rows
<1>2. ASSUME NEW c \in Client, CommitRelease(c) PROVE History!HistoryNext
  <2> DEFINE b == request[c].base
             m == NextNumber(c)
  <2>1. /\ b \in Rows
        /\ m \in Nat \ {0}
        /\ m = request[c].latest + 1
        /\ \A r \in Rows \ {b} : release[r] # m
        /\ \A n \in 1..request[c].latest : \E r \in Rows \ {b} : release[r] = n
        /\ release[b] = 0 \/ release[b] = m
    BY <1>2, ReleaseNumber DEF NextNumber
  <2>2. release' = [release EXCEPT ![b] = m] /\ release \in [Rows -> Nat]
    BY <1>2 DEF CommitRelease, IInv, TypeOK
  <2>3. release[b] = 0
    BY <2>1, <2>2
  <2>4. m \notin Assigned
    BY <2>1, <2>3 DEF Assigned
  <2>5. request[c].latest \in Assigned \cup {0}
    BY <2>1 DEF Assigned, IInv, TypeOK, Request
  <2>6. m \in History!NextNumber
    BY <2>1, <2>4, <2>5, SameNumbers DEF History!NextNumber
  <2>7. QED
    BY <2>1, <2>2, <2>3, <2>6 DEF History!HistoryNext, History!AssignNext, Rows
<1>3. QED
  BY <1>1, <1>2 DEF Next, Begin, Load, GiveUp, RevisionConflict, ReleaseRefused

\* The rows implement the history a reader relies on: revisions are appended, and
\* a release keeps its number, also when requests publish the same revision.
THEOREM HistoryKept == Spec => ImplementsHistory
<1>1. Init => History!HistoryInit
  BY DEF Init, History!HistoryInit
<1>2. QED
  BY <1>1, RevisionsInvariant, HistoryStep, PTL
     DEF Spec, ImplementsHistory, History!HistorySpec
==============================================================================
