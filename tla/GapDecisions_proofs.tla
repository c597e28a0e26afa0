------------------------- MODULE GapDecisions_proofs -------------------------
(***************************************************************************)
(* Proofs about GapDecisions, for any nodes and any number of revisions.   *)
(***************************************************************************)
EXTENDS GapDecisions, TLAPS

LEMMA CopyType ==
    ASSUME TypeOK, NEW n \in Node, NEW to \in Decided,
           StatusAt(current, n) \in Open \cup Decided
    PROVE  [graph[current] EXCEPT ![n].status = to] \in [Node -> Gap]
<1> DEFINE old == graph[current]
           g == [old EXCEPT ![n].status = to]
<1>1. old \in [Node -> Gap]
  BY DEF TypeOK
<1>2. old[n] \in [status : Open \cup Decided, evidence : BOOLEAN]
  BY <1>1 DEF Gap, StatusAt, Open, Decided, Absent
<1>3. [old[n] EXCEPT !.status = to] \in Gap
  BY <1>2 DEF Gap
<1> QED BY <1>1, <1>3

\* A decision is taken on a node that has an open or a confirmed gap.
LEMMA DecidedFrom ==
    ASSUME NEW from, NEW to \in Transitions(from)
    PROVE  /\ from \in {"candidate", "confirmed"}
           /\ to \in Decided /\ to # from
           /\ (to = "resolved") <=> (from = "confirmed")
BY DEF Transitions, Decided

\* Appending keeps the revisions there are.
LEMMA Appended ==
    ASSUME TypeOK, NEW g \in [Node -> Gap], AppendRevision(g)
    PROVE  /\ current \in 1..MaxRevision /\ current' \in 1..MaxRevision
           /\ current' = current + 1
           /\ graph' \in [1..current' -> [Node -> Gap]]
           /\ graph'[current + 1] = g
           /\ \A r \in 1..current : graph'[r] = graph[r]
BY RevisionBound DEF TypeOK, AppendRevision

\* Rows, revisions and releases keep their types.
THEOREM GapsTyped == Spec => []TypeOK
<1>1. Init => TypeOK
  BY RevisionBound DEF Init, TypeOK
<1>2. ASSUME TypeOK, [Next]_vars PROVE TypeOK'
  <2> USE <1>2
  <2>1. CASE Edit
    <3>1. PICK g \in [Node -> Gap] :
             AppendRevision(g) /\ UNCHANGED <<decisions, released>>
      BY <2>1 DEF Edit
    <3> QED BY <3>1, Appended DEF TypeOK, Decision
  <2>2. ASSUME NEW n \in Node, NEW to \in Decided, Decide(n, to) PROVE TypeOK'
    <3> DEFINE g == [graph[current] EXCEPT ![n].status = to]
    <3>1. g \in [Node -> Gap]
      BY <2>2, DecidedFrom, CopyType DEF Decide, Open, Decided
    <3>2. AppendRevision(g)
      BY <2>2 DEF Decide
    <3> HIDE DEF g
    <3> QED BY <2>2, <3>1, <3>2, Appended DEF TypeOK, Decide, DecidedIn, Decision
  <2>3. CASE CopyRelease
    <3>1. graph[current] \in [Node -> Gap]
      BY DEF TypeOK
    <3> QED BY <2>3, <3>1, Appended DEF CopyRelease, TypeOK, Decision
  <2>4. ASSUME NEW r \in 1..current, Publish(r) PROVE TypeOK'
    BY <2>4 DEF Publish, TypeOK
  <2>5. CASE UNCHANGED vars
    BY <2>5 DEF vars, TypeOK
  <2> QED BY <2>1, <2>2, <2>3, <2>4, <2>5 DEF Next
<1> QED BY <1>1, <1>2, PTL DEF Spec

-----------------------------------------------------------------------------

\* An appended revision changes nothing for the revisions before it.
LEMMA HistoryStays ==
    ASSUME TypeOK, GapInv, NEW g \in [Node -> Gap], AppendRevision(g),
           released' = released, decisions \subseteq decisions',
           \A d \in decisions' \ decisions : d.revision = current + 1,
           NEW r \in 1..current, NEW n \in Node
    PROVE  /\ StatusAt(r, n)' = StatusAt(r, n)
           /\ DecisionStands(n, r) => DecisionStands(n, r)'
           /\ Unchanged(n, 1, r) => Unchanged(n, 1, r)'
           /\ Preflight(r) => Preflight(r)'
<1>1. \A k \in 1..r, m \in Node : StatusAt(k, m)' = StatusAt(k, m)
  <2>1. \A k \in 1..current : graph'[k] = graph[k]
    BY Appended
  <2>2. 1..r \subseteq 1..current
    BY Appended
  <2> QED BY <2>1, <2>2 DEF StatusAt
<1>2. \A d \in decisions : d.revision \in 1..current
  BY DEF TypeOK, Decision
<1>3. DecisionStands(n, r) => DecisionStands(n, r)'
  BY <1>1, <1>2 DEF DecisionStands, Unchanged
<1>4. \A m \in Node : DecisionsOn(m, r)' = DecisionsOn(m, r)
  BY <1>2, Appended DEF DecisionsOn
<1>5. graph'[r] = graph[r]
  BY Appended
<1>6. Preflight(r) => Preflight(r)'
  BY <1>1, <1>4, <1>5 DEF Preflight, Audited, LatestIs, WasConfirmed
<1> QED BY <1>1, <1>3, <1>6 DEF Unchanged

\* A gap that keeps its decided status in the appended revision keeps its
\* decision, or is still as it was imported.
LEMMA DecisionCarriesOver ==
    ASSUME TypeOK, GapInv, NEW g \in [Node -> Gap], AppendRevision(g),
           decisions \subseteq decisions',
           NEW n \in Node, g[n].status = StatusAt(current, n),
           g[n].status \in Decided
    PROVE  \/ DecisionStands(n, current)'
           \/ Unchanged(n, 1, current)'
<1>1. \A k \in 1..current : StatusAt(k, n)' = StatusAt(k, n)
  BY Appended DEF StatusAt
<1>2. StatusAt(current, n)' = StatusAt(current, n)
  BY Appended DEF StatusAt
<1>3. current \in 1..current /\ current' = current + 1
  BY Appended
<1>4. DecisionStands(n, current) \/ Unchanged(n, 1, current)
  BY <1>3 DEF GapInv, DecidedOrImported, StatusAt
<1>5. CASE DecisionStands(n, current)
  <2>1. PICK d \in decisions :
           /\ d.node = n /\ d.revision <= current
           /\ d.to = StatusAt(current, n)
           /\ Unchanged(n, d.revision, current)
    BY <1>5 DEF DecisionStands
  <2>2. d.revision \in 1..current
    BY <2>1 DEF TypeOK, Decision
  <2>3. \A k \in d.revision..(current + 1) :
           StatusAt(k, n)' = StatusAt(current, n)'
    <3> TAKE k \in d.revision..(current + 1)
    <3>1. CASE k = current + 1
      BY <3>1, <1>3
    <3>2. CASE k # current + 1
      <4>1. k \in d.revision..current /\ k \in 1..current
        BY <3>2, <2>2, <1>3
      <4> QED BY <4>1, <1>1, <1>2, <2>1 DEF Unchanged
    <3> QED BY <3>1, <3>2
  <2>4. d \in decisions' /\ d.revision <= current'
    BY <2>1, <2>2, <1>3
  <2> QED BY <2>1, <2>3, <2>4, <1>2, <1>3 DEF DecisionStands, Unchanged
<1>6. CASE Unchanged(n, 1, current)
  <2>1. \A k \in 1..(current + 1) : StatusAt(k, n)' = StatusAt(current, n)'
    <3> TAKE k \in 1..(current + 1)
    <3>1. CASE k = current + 1
      BY <3>1, <1>3
    <3>2. CASE k # current + 1
      <4>1. k \in 1..current
        BY <3>2, <1>3
      <4> QED BY <4>1, <1>1, <1>2, <1>6 DEF Unchanged
    <3> QED BY <3>1, <3>2
  <2> QED BY <2>1, <1>3 DEF Unchanged
<1> QED BY <1>4, <1>5, <1>6

\* What is left to show of a step that appends a revision.
LEMMA AppendStep ==
    ASSUME TypeOK, GapInv, NEW g \in [Node -> Gap], AppendRevision(g),
           released' = released, decisions \subseteq decisions',
           \A d \in decisions' \ decisions : d.revision = current + 1,
           \A n \in Node : g[n].status \in Decided =>
               DecisionStands(n, current)' \/ Unchanged(n, 1, current)',
           \A d \in decisions' \ decisions :
               /\ d.node \in Node
               /\ g[d.node].status = d.to
               /\ d.to \in Transitions(StatusAt(current, d.node))
    PROVE  GapInv'
<1>1. /\ current' = current + 1 /\ current \in Nat /\ current >= 1
      /\ \A n \in Node : StatusAt(current, n)' = g[n].status
  BY Appended DEF StatusAt
<1>2. DecidedOrImported'
  <2> SUFFICES ASSUME NEW r \in 1..(current + 1), NEW n \in Node,
                      StatusAt(r, n)' \in Decided
               PROVE  DecisionStands(n, r)' \/ Unchanged(n, 1, r)'
    BY <1>1 DEF DecidedOrImported
  <2>1. CASE r = current + 1
    BY <2>1, <1>1
  <2>2. CASE r # current + 1
    <3>1. r \in 1..current
      BY <2>2, <1>1
    <3>2. StatusAt(r, n)' = StatusAt(r, n)
      BY <3>1, HistoryStays
    <3>3. DecisionStands(n, r) \/ Unchanged(n, 1, r)
      BY <3>1, <3>2 DEF GapInv, DecidedOrImported
    <3> QED BY <3>1, <3>3, HistoryStays
  <2> QED BY <2>1, <2>2
<1>3. DecisionsAreSteps'
  <2> SUFFICES ASSUME NEW d \in decisions'
               PROVE  /\ d.revision > 1
                      /\ StatusAt(d.revision, d.node)' = d.to
                      /\ d.to \in Transitions(StatusAt(d.revision - 1, d.node)')
    BY DEF DecisionsAreSteps
  <2>1. CASE d \in decisions
    <3>1. d.revision \in 1..current /\ d.revision > 1 /\ d.node \in Node
      BY <2>1 DEF TypeOK, Decision, GapInv, DecisionsAreSteps
    <3>2. d.revision - 1 \in 1..current
      BY <3>1, <1>1
    <3>3. /\ StatusAt(d.revision, d.node)' = StatusAt(d.revision, d.node)
          /\ StatusAt(d.revision - 1, d.node)' = StatusAt(d.revision - 1, d.node)
      BY <3>1, <3>2, HistoryStays
    <3> QED BY <2>1, <3>1, <3>3 DEF GapInv, DecisionsAreSteps
  <2>2. CASE d \notin decisions
    <3>1. d.revision = current + 1 /\ d.node \in Node
      BY <2>2
    <3>2. d.revision - 1 = current /\ d.revision > 1 /\ current \in 1..current
      BY <3>1, <1>1
    <3>3. StatusAt(d.revision - 1, d.node)' = StatusAt(current, d.node)
      BY <3>1, <3>2, HistoryStays
    <3>4. StatusAt(d.revision, d.node)' = d.to
      BY <2>2, <3>1, <1>1
    <3> QED BY <2>2, <3>2, <3>3, <3>4
  <2> QED BY <2>1, <2>2
<1>4. \A r \in released' : Preflight(r)'
  <2> SUFFICES ASSUME NEW r \in released PROVE Preflight(r)'
    OBVIOUS
  <2>1. r \in 1..current /\ Preflight(r)
    BY DEF TypeOK, GapInv
  <2>2. \A n \in Node : Preflight(r) => Preflight(r)'
    BY <2>1, HistoryStays
  <2>3. CASE Node = {}
    BY <2>3 DEF Preflight
  <2> QED BY <2>1, <2>2, <2>3
<1> QED BY <1>2, <1>3, <1>4 DEF GapInv

\* In every revision a decided gap is imported or its decision stands, and
\* releases have passed the preflight.
THEOREM GapsAreDecided == Spec => []GapInv
<1>1. Init => GapInv
  BY DEF Init, GapInv, DecidedOrImported, DecisionsAreSteps, Unchanged
<1>2. ASSUME TypeOK, GapInv, [Next]_vars PROVE GapInv'
  <2> USE <1>2
  <2>0. graph[current] \in [Node -> Gap] /\ current \in Nat
    BY DEF TypeOK
  <2>1. CASE Edit
    <3>1. PICK g \in [Node -> Gap] :
             /\ \A n \in Node : MayBecome(StatusAt(current, n), g[n].status)
             /\ AppendRevision(g)
             /\ UNCHANGED <<decisions, released>>
      BY <2>1 DEF Edit
    <3>2. ASSUME NEW n \in Node, g[n].status \in Decided
          PROVE  g[n].status = StatusAt(current, n)
      BY <3>1, <3>2 DEF MayBecome, Decided, Open, Absent
    <3>3. \A n \in Node : g[n].status \in Decided =>
             DecisionStands(n, current)' \/ Unchanged(n, 1, current)'
      BY <3>1, <3>2, DecisionCarriesOver
    <3> QED BY <3>1, <3>3, AppendStep
  <2>2. ASSUME NEW m \in Node, NEW to \in Decided, Decide(m, to) PROVE GapInv'
    <3> DEFINE g == [graph[current] EXCEPT ![m].status = to]
               new == [node |-> m, revision |-> current + 1, to |-> to]
    <3>1. g \in [Node -> Gap]
      BY <2>2, DecidedFrom, CopyType DEF Decide, Open, Decided
    <3>2. /\ AppendRevision(g) /\ released' = released
          /\ decisions' = decisions \cup {new}
          /\ to \in Transitions(StatusAt(current, m))
      BY <2>2 DEF Decide, DecidedIn
    <3>3. g[m].status = to
      <4>1. to \in Transitions(StatusAt(current, m))
        BY <3>2
      <4>2. StatusAt(current, m) \in Open \cup Decided
        BY <4>1, DecidedFrom DEF Open, Decided
      <4>3. graph[current][m] \in [status : Open \cup Decided, evidence : BOOLEAN]
        BY <4>2, <2>0 DEF Gap, StatusAt, Open, Decided, Absent
      <4> QED BY <4>3, <2>0
    <3>4. \A n \in Node \ {m} : g[n] = graph[current][n]
      BY <2>0
    <3>5. new.node = m /\ new.revision = current + 1 /\ new.to = to
      OBVIOUS
    <3> HIDE DEF g, new
    <3>6. ASSUME NEW n \in Node, g[n].status \in Decided
          PROVE  DecisionStands(n, current)' \/ Unchanged(n, 1, current)'
      <4>1. CASE n = m
        <5>1. StatusAt(current, m)' = to
          BY <3>1, <3>2, <3>3, Appended DEF StatusAt
        <5>2. current' = current + 1 /\ \A k \in current'..current' : k = current'
          BY <3>1, <3>2, Appended
        <5>3. new \in decisions' /\ new.revision <= current'
          BY <3>2, <3>5, <5>2, <2>0
        <5> QED BY <4>1, <5>1, <5>2, <5>3, <3>5 DEF DecisionStands, Unchanged
      <4>2. CASE n # m
        <5>1. g[n].status = StatusAt(current, n)
          BY <4>2, <3>4 DEF StatusAt
        <5> QED BY <5>1, <3>1, <3>2, <3>6, DecisionCarriesOver
      <4> QED BY <4>1, <4>2
    <3>7. \A d \in decisions' \ decisions : d = new
      BY <3>2
    <3> QED BY <3>1, <3>2, <3>3, <3>5, <3>6, <3>7, AppendStep
  <2>3. CASE CopyRelease
    <3> DEFINE g == graph[current]
    <3>1. AppendRevision(g) /\ UNCHANGED <<decisions, released>>
      BY <2>3 DEF CopyRelease
    <3>2. \A n \in Node : g[n].status \in Decided =>
             DecisionStands(n, current)' \/ Unchanged(n, 1, current)'
      BY <2>0, <3>1, DecisionCarriesOver DEF StatusAt
    <3> QED BY <2>0, <3>1, <3>2, AppendStep
  <2>4. ASSUME NEW r \in 1..current, Publish(r) PROVE GapInv'
    <3>1. Preflight(r) /\ released' = released \cup {r}
          /\ UNCHANGED <<current, graph, decisions>>
      BY <2>4 DEF Publish
    <3> QED BY <3>1 DEF GapInv, DecidedOrImported, DecisionsAreSteps, Preflight,
                        Audited, LatestIs, WasConfirmed, DecisionsOn, StatusAt,
                        DecisionStands, Unchanged
  <2>5. CASE UNCHANGED vars
    BY <2>5 DEF vars, GapInv, DecidedOrImported, DecisionsAreSteps, Preflight,
                Audited, LatestIs, WasConfirmed, DecisionsOn, StatusAt,
                DecisionStands, Unchanged
  <2> QED BY <2>1, <2>2, <2>3, <2>4, <2>5 DEF Next
<1> QED BY <1>1, <1>2, GapsTyped, PTL DEF Spec

-----------------------------------------------------------------------------

\* The preflight tells an imported status from a decided one.
LEMMA PreflightFindsDecision ==
    ASSUME TypeOK, GapInv, NEW r \in released, NEW n \in Node,
           StatusAt(r, n) \in Decided
    PROVE  DecisionStands(n, r)
<1>1. r \in 1..current /\ Preflight(r)
  BY DEF TypeOK, GapInv
<1>2. PICK d \in decisions :
         d.node = n /\ d.revision <= r /\ d.to = StatusAt(r, n)
  BY <1>1 DEF Preflight, Audited, LatestIs, DecisionsOn
<1>3. /\ d.revision \in Int /\ d.revision > 1
      /\ d.to \in Transitions(StatusAt(d.revision - 1, n))
  BY <1>2 DEF TypeOK, Decision, GapInv, DecisionsAreSteps
<1>4. d.revision - 1 \in 1..r
  BY <1>1, <1>2, <1>3
<1>5. ~Unchanged(n, 1, r)
  BY <1>2, <1>3, <1>4, DecidedFrom DEF Unchanged
<1> QED BY <1>1, <1>5 DEF GapInv, DecidedOrImported

\* A gap that a release shows as decided was decided by a consultant, and the
\* decision stands.
THEOREM ReleasesShowDecisions == Spec => []ReleasedGapsWereDecided
<1>1. TypeOK /\ GapInv => ReleasedGapsWereDecided
  BY PreflightFindsDecision DEF ReleasedGapsWereDecided
<1> QED BY <1>1, GapsTyped, GapsAreDecided, PTL

\* A gap that a release shows as resolved was confirmed first.
THEOREM ResolvedAfterConfirmed == Spec => []ResolvedWasConfirmed
<1>1. ASSUME TypeOK, GapInv, NEW r \in released, NEW n \in Node,
             StatusAt(r, n) = "resolved"
      PROVE  \E c \in DecisionsOn(n, r) :
                /\ c.to = "confirmed"
                /\ \A k \in c.revision..r : StatusAt(k, n) \in {"confirmed", "resolved"}
  <2> USE <1>1
  <2>1. r \in 1..current /\ current \in Int /\ Preflight(r)
    BY DEF TypeOK, GapInv
  <2>2. PICK e \in decisions :
           /\ e.node = n /\ e.revision <= r
           /\ e.to = "resolved"
           /\ Unchanged(n, e.revision, r)
    BY PreflightFindsDecision DEF Decided, DecisionStands
  <2>3. /\ e.revision \in Int /\ e.revision > 1
        /\ e.to \in Transitions(StatusAt(e.revision - 1, n))
    BY <2>2 DEF TypeOK, Decision, GapInv, DecisionsAreSteps
  <2> DEFINE q == e.revision - 1
  <2>4. StatusAt(q, n) = "confirmed"
    BY <2>2, <2>3, DecidedFrom
  <2>5. q \in 1..current /\ q \in 1..r /\ q + 1 = e.revision
    BY <2>1, <2>2, <2>3
  <2>6. \A k \in e.revision..r : StatusAt(k, n) = "resolved"
    BY <2>2 DEF Unchanged
  <2>7. PICK c \in decisions : c.node = n /\ c.revision <= r /\ c.to = "confirmed"
    BY <2>1 DEF Preflight, WasConfirmed, DecisionsOn
  <2>8. /\ c.revision \in Int /\ c.revision > 1
        /\ StatusAt(c.revision, n) = "confirmed"
        /\ "confirmed" \in Transitions(StatusAt(c.revision - 1, n))
    BY <2>7 DEF TypeOK, Decision, GapInv, DecisionsAreSteps
  <2> HIDE DEF q
  <2>9. c.revision \in 1..q /\ c.revision - 1 \in 1..q
    <3>1. c.revision \notin e.revision..r
      BY <2>6, <2>8
    <3> QED BY <3>1, <2>3, <2>5, <2>7, <2>8
  <2>10. ~Unchanged(n, 1, q)
    BY <2>4, <2>8, <2>9, DecidedFrom DEF Unchanged
  <2>11. PICK d \in decisions :
            /\ d.node = n /\ d.revision <= q
            /\ d.to = "confirmed"
            /\ Unchanged(n, d.revision, q)
    BY <2>4, <2>5, <2>10 DEF GapInv, DecidedOrImported, DecisionStands, Decided
  <2>12. d.revision \in Int
    BY DEF TypeOK, Decision
  <2>13. ASSUME NEW k \in d.revision..r
         PROVE  StatusAt(k, n) \in {"confirmed", "resolved"}
    <3>1. CASE k <= q
      <4>1. k \in d.revision..q
        BY <3>1, <2>5, <2>12
      <4> QED BY <4>1, <2>4, <2>11 DEF Unchanged
    <3>2. CASE ~(k <= q)
      <4>1. k \in e.revision..r
        BY <3>2, <2>3, <2>5, <2>12
      <4> QED BY <4>1, <2>6
    <3> QED BY <3>1, <3>2
  <2>14. d \in DecisionsOn(n, r)
    BY <2>1, <2>5, <2>11, <2>12 DEF DecisionsOn
  <2> QED BY <2>11, <2>13, <2>14
<1>2. TypeOK /\ GapInv => ResolvedWasConfirmed
  BY <1>1 DEF ResolvedWasConfirmed
<1> QED BY <1>2, GapsTyped, GapsAreDecided, PTL
==============================================================================
