------------------------- MODULE Modification_proofs --------------------------
(***************************************************************************)
(* Proofs about Modification: for any library, any patch of a model and    *)
(* any graphs.  Every step of a request is a step of the patch or leaves   *)
(* it alone, so what Patcher_proofs shows of patches holds here; what the  *)
(* patch claims is followed from the evidence to the result.               *)
(***************************************************************************)
EXTENDS Modification, Patcher_proofs, SequenceTheorems, FiniteSetTheorems, WellFoundedInduction

-----------------------------------------------------------------------------
(* The local rules make patches.                                           *)

LEMMA NumbersOfTheRules ==
    /\ MaxRefs \in Nat /\ MaxSteps \in Nat /\ MaxSteps + 3 <= MaxRefs
    /\ \A i \in 1..MaxRefs : -i \in Ref /\ -i \in Target
    /\ -1 \in Target /\ 1 \in 1..MaxRefs
BY PatcherAssumption, LocalAssumption DEF Ref, Target

\* What the rules add to a diagram claims nothing, but for the seed of a flow.
Quiet(found) ==
    {o \in Operation :
        ClaimsOf(o) \subseteq IF o.op = "add_node" THEN {BlankSap, SeedSap(found)} ELSE {}}

LEMMA SeedIsTyped == ASSUME NEW found PROVE SeedSap(found) \in SapMetadata
<1> DEFINE F == Seed \cap DOMAIN found
           ref == IF F = {} THEN None ELSE CHOOSE r \in F : TRUE
           status == IF ref # None /\ found[ref] = "approved" THEN "verified" ELSE "pending"
<1>1. ref \in Evidence \cup {None}
  BY LocalAssumption
<1>2. status \in ItemStatus /\ None \in ItemStatus
  BY DEF ItemStatus
<1>3. SeedSap(found) = [items |-> {[ref |-> ref, status |-> status], [ref |-> ref, status |-> None]},
                        gap |-> "none", gapRefs |-> {}]
  BY DEF SeedSap
<1> HIDE DEF ref, status
<1> QED BY <1>1, <1>2, <1>3 DEF SapMetadata, SapItem, GapStatus

\* The operations that the rules are made of.
LEMMA OperationsOfTheRules ==
    ASSUME NEW found
    PROVE  /\ \A n \in Target, l \in Label : OpRename(n, l) \in Quiet(found)
           /\ \A n, l \in Target : OpMove(n, l) \in Quiet(found)
           /\ \A what \in {"remove_node", "remove_edge", "remove_lane"}, id \in Target :
                 OpRemove(what, id) \in Quiet(found)
           /\ \A s, t \in Target, l \in EdgeLabel : OpAddEdge(s, t, l) \in Quiet(found)
           /\ \A i \in 1..MaxRefs, l \in Label : OpAddLane(i, l) \in Quiet(found)
           /\ \A i \in 1..MaxRefs, type \in NodeType, l \in Label, lane \in Target \cup {None},
                 sap \in {BlankSap, SeedSap(found)} :
                    OpAddNode(i, type, l, lane, sap) \in Quiet(found)
           /\ \A id \in Target, l \in EdgeLabel :
                 [op |-> "update_edge", id |-> id, label |-> l] \in Quiet(found)
           /\ \A id \in Target, l \in Label :
                 [op |-> "update_lane", id |-> id, label |-> l] \in Quiet(found)
<1>1. /\ \A l \in Label : [NoChange EXCEPT !.label = l] \in NodeChanges
      /\ \A l \in Target : [NoChange EXCEPT !.lane = l] \in NodeChanges
      /\ \A l : [NoChange EXCEPT !.label = l].sap = Unset
      /\ \A l : [NoChange EXCEPT !.lane = l].sap = Unset
  BY DEF NoChange, NodeChanges
<1>2. \A n \in Target, c \in NodeChanges : c.sap = Unset => OpUpdate(n, c) \in Quiet(found)
  BY DEF OpUpdate, Operation, Quiet, ClaimsOf
<1>3. \A n \in Target, l \in Label : OpRename(n, l) \in Quiet(found)
  BY <1>1, <1>2 DEF OpRename
<1>4. \A n, l \in Target : OpMove(n, l) \in Quiet(found)
  BY <1>1, <1>2 DEF OpMove
<1>5. \A i \in 1..MaxRefs, type \in NodeType, l \in Label, lane \in Target \cup {None},
         sap \in {BlankSap, SeedSap(found)} :
            OpAddNode(i, type, l, lane, sap) \in Quiet(found)
  <2>1. BlankSap \in SapMetadata /\ SeedSap(found) \in SapMetadata
    BY SeedIsTyped DEF BlankSap, SapMetadata, GapStatus
  <2>2. \A i \in 1..MaxRefs, type \in NodeType, l \in Label, lane \in Target \cup {None},
           sap \in SapMetadata :
              /\ OpAddNode(i, type, l, lane, sap) \in Operation
              /\ ClaimsOf(OpAddNode(i, type, l, lane, sap)) = {sap}
              /\ OpAddNode(i, type, l, lane, sap).op = "add_node"
    BY NumbersOfTheRules DEF OpAddNode, Operation, ClaimsOf
  <2> QED BY <2>1, <2>2 DEF Quiet
<1>6. /\ \A what \in {"remove_node", "remove_edge", "remove_lane"}, id \in Target :
            OpRemove(what, id) \in Quiet(found)
      /\ \A s, t \in Target, l \in EdgeLabel : OpAddEdge(s, t, l) \in Quiet(found)
      /\ \A i \in 1..MaxRefs, l \in Label : OpAddLane(i, l) \in Quiet(found)
  BY NumbersOfTheRules DEF OpRemove, OpAddEdge, OpAddLane, Operation, Quiet, ClaimsOf
<1>7. /\ \A id \in Target, l \in EdgeLabel :
            [op |-> "update_edge", id |-> id, label |-> l] \in Quiet(found)
      /\ \A id \in Target, l \in Label :
            [op |-> "update_lane", id |-> id, label |-> l] \in Quiet(found)
  BY DEF Operation, Quiet, ClaimsOf
<1> QED BY <1>3, <1>4, <1>5, <1>6, <1>7

LEMMA ShortPatches ==
    ASSUME NEW S, NEW o \in S, NEW p \in S, NEW q \in S, NEW r \in S
    PROVE  <<o>> \in Seq(S) /\ <<o, p>> \in Seq(S) /\ <<o, p, q, r>> \in Seq(S)
OBVIOUS

LEMMA LongPatches ==
    ASSUME NEW S, NEW n \in Nat, NEW p \in [1..n -> S]
    PROVE  p \in Seq(S) /\ Len(p) = n
BY SeqDef

\* What is known of a graph that patches are made for.
LEMMA GivenGraph ==
    ASSUME NEW g \in InitialGraph
    PROVE  /\ IsGraph(g) /\ ValidGraph(g)
           /\ NodeIds(g) \subseteq Target /\ EdgeIds(g) \subseteq Target /\ LaneIds(g) \subseteq Target
           /\ \A n \in NodeIds(g) : g.nodes[n].lane \in Target \cup {None}
           /\ \A e \in EdgeIds(g) : /\ g.edges[e].source \in Target /\ g.edges[e].target \in Target
                                    /\ g.edges[e].label \in EdgeLabel
<1>1. /\ IsGraph(g) /\ ValidGraph(g)
      /\ NodeIds(g) \cup EdgeIds(g) \cup LaneIds(g) \subseteq Target
  BY PatcherAssumption DEF Document, Target
<1>2. \A n \in NodeIds(g) : g.nodes[n].lane \in Target \cup {None}
  BY <1>1 DEF ValidGraph, LanesAreKnown
<1>3. \A e \in EdgeIds(g) : /\ g.edges[e].source \in Target /\ g.edges[e].target \in Target
                            /\ g.edges[e].label \in EdgeLabel
  BY <1>1 DEF ValidGraph, EndsAreKnown, IsGraph, Edge
<1> QED BY <1>1, <1>2, <1>3

LEMMA SimplePatches ==
    ASSUME NEW g \in InitialGraph, NEW found
    PROVE  LanePatches(g) \cup EdgePatches(g) \cup Renamings(g) \cup Removals(g) \subseteq Seq(Quiet(found))
<1>0. NodeIds(g) \subseteq Target /\ EdgeIds(g) \subseteq Target /\ LaneIds(g) \subseteq Target
  BY GivenGraph
<1>1. LanePatches(g) \subseteq Seq(Quiet(found))
  <2>1. \A n \in NodeIds(g), l \in LaneIds(g) :
           <<OpMove(n, l)>> \in Seq(Quiet(found))
    BY <1>0, OperationsOfTheRules, ShortPatches
  <2>2. \A l \in LaneIds(g), t \in Label :
           <<[op |-> "update_lane", id |-> l, label |-> t]>> \in Seq(Quiet(found))
    BY <1>0, OperationsOfTheRules, ShortPatches
  <2>3. \A l \in LaneIds(g) : <<OpRemove("remove_lane", l)>> \in Seq(Quiet(found))
    BY <1>0, OperationsOfTheRules, ShortPatches
  <2>4. ASSUME NEW k \in 1..MaxRefs, NEW t \in Label
        PROVE  [i \in 1..k |-> OpAddLane(i, t)] \in Seq(Quiet(found))
    <3>1. k \in Nat /\ \A i \in 1..k : OpAddLane(i, t) \in Quiet(found)
      BY NumbersOfTheRules, OperationsOfTheRules
    <3>2. [i \in 1..k |-> OpAddLane(i, t)] \in [1..k -> Quiet(found)]
      BY <3>1
    <3> QED BY <3>1, <3>2, LongPatches
  <2>5. ASSUME NEW p \in LanePatches(g) PROVE p \in Seq(Quiet(found))
    <3>1. \/ \E n \in NodeIds(g), l \in LaneIds(g) :
                p = <<OpMove(n, l)>>
          \/ \E l \in LaneIds(g), t \in Label : p = <<[op |-> "update_lane", id |-> l, label |-> t]>>
          \/ \E l \in LaneIds(g) : p = <<OpRemove("remove_lane", l)>>
          \/ \E k \in 1..MaxRefs, t \in Label : p = [i \in 1..k |-> OpAddLane(i, t)]
      BY DEF LanePatches
    <3> QED BY <2>1, <2>2, <2>3, <2>4, <3>1
  <2> QED BY <2>5
<1>2. EdgePatches(g) \subseteq Seq(Quiet(found))
  <2>1. \A e \in EdgeIds(g), l \in Label \cup {None} :
           <<[op |-> "update_edge", id |-> e, label |-> l]>> \in Seq(Quiet(found))
    BY <1>0, OperationsOfTheRules, ShortPatches DEF EdgeLabel
  <2>2. \A e \in EdgeIds(g) : <<OpRemove("remove_edge", e)>> \in Seq(Quiet(found))
    BY <1>0, OperationsOfTheRules, ShortPatches
  <2>3. \A st \in NodeIds(g) \X NodeIds(g) : <<OpAddEdge(st[1], st[2], None)>> \in Seq(Quiet(found))
    <3>1. ASSUME NEW s \in NodeIds(g), NEW t \in NodeIds(g)
          PROVE  <<OpAddEdge(s, t, None)>> \in Seq(Quiet(found))
      BY <1>0, OperationsOfTheRules, ShortPatches DEF EdgeLabel
    <3> QED BY <3>1
  <2>4. Findable(g) \subseteq EdgeIds(g) /\ Connectable(g) \subseteq NodeIds(g) \X NodeIds(g)
    BY DEF Findable, Connectable
  <2>5. ASSUME NEW p \in EdgePatches(g) PROVE p \in Seq(Quiet(found))
    <3>1. \/ \E e \in Findable(g), l \in Label \cup {None} :
                p = <<[op |-> "update_edge", id |-> e, label |-> l]>>
          \/ \E e \in Findable(g) : p = <<OpRemove("remove_edge", e)>>
          \/ \E st \in Connectable(g) : p = <<OpAddEdge(st[1], st[2], None)>>
      BY DEF EdgePatches
    <3> QED BY <2>1, <2>2, <2>3, <2>4, <3>1
  <2> QED BY <2>5
<1>3. Renamings(g) \subseteq Seq(Quiet(found))
  <2>1. \A n \in NodeIds(g), l \in Label :
           <<OpRename(n, l)>> \in Seq(Quiet(found))
    BY <1>0, OperationsOfTheRules, ShortPatches
  <2>2. ASSUME NEW p \in Renamings(g) PROVE p \in Seq(Quiet(found))
    <3>1. PICK n \in NodeIds(g), l \in Label : p = <<OpRename(n, l)>>
      BY DEF Renamings
    <3> QED BY <2>1, <3>1
  <2> QED BY <2>2
<1>4. Removals(g) \subseteq Seq(Quiet(found))
  <2>1. \A n \in NodeIds(g) : <<OpRemove("remove_node", n)>> \in Seq(Quiet(found))
    BY <1>0, OperationsOfTheRules, ShortPatches
  <2> QED BY <2>1 DEF Removals
<1> QED BY <1>1, <1>2, <1>3, <1>4

LEMMA LeastExists ==
    ASSUME NEW S \in SUBSET Nat, S # {}
    PROVE  \E m \in S : \A k \in S : m <= k
<1>1. PICK x \in S : \A y \in S : ~ (<<y, x>> \in OpToRel(<, Nat))
  BY NatLessThanWellFounded, WFMin
<1>2. OpToRel(<, Nat) = {ss \in Nat \X Nat : ss[1] < ss[2]}
  BY DEF OpToRel
<1>3. \A y \in S : ~ (y < x)
  BY <1>1, <1>2
<1> QED BY <1>3

LEMMA LeastIsIn ==
    ASSUME NEW S \in SUBSET Nat, S # {}
    PROVE  Min(S) \in S
BY LeastExists DEF Min

LEMMA NewSteps ==
    ASSUME NEW g \in InitialGraph, NEW n \in NodeIds(g), NEW t \in NodeType, NEW l \in Label,
           NEW found
    PROVE  NewStep(g, n, t, l) \in Quiet(found)
<1>1. BlankSap \in SapMetadata
  BY DEF BlankSap, SapMetadata, GapStatus
<1>2. 1 \in 1..MaxRefs
  BY NumbersOfTheRules
<1> QED BY <1>1, <1>2, GivenGraph, OperationsOfTheRules DEF NewStep

LEMMA PatchesAfter ==
    ASSUME NEW g \in InitialGraph, NEW n \in NodeIds(g), NEW found, NEW step \in Quiet(found)
    PROVE  InsertAfter(g, n, step) \in Seq(Quiet(found))
<1>0. n \in Target /\ -1 \in Target /\ None \in EdgeLabel
  BY GivenGraph, NumbersOfTheRules DEF EdgeLabel
<1>1. CASE Outgoing(g, n) = {}
  <2>1. OpAddEdge(n, -1, None) \in Quiet(found)
    BY <1>0, OperationsOfTheRules
  <2> QED BY <1>1, <2>1, ShortPatches DEF InsertAfter
<1>2. CASE Outgoing(g, n) # {}
  <2> DEFINE e == Preferred(g, n)
             yes == {f \in Outgoing(g, n) : g.edges[f].label \in Positive}
  <2>1. Outgoing(g, n) \in SUBSET Nat
    BY PatcherAssumption DEF Outgoing, GivenId
  <2>2. e \in Outgoing(g, n)
    <3>1. yes # {} => Min(yes) \in yes
      BY <2>1, LeastIsIn
    <3>2. Min(Outgoing(g, n)) \in Outgoing(g, n)
      BY <1>2, <2>1, LeastIsIn
    <3> QED BY <3>1, <3>2 DEF Preferred
  <2>3. e \in EdgeIds(g)
    BY <2>2 DEF Outgoing
  <2> HIDE DEF e
  <2>4. /\ OpRemove("remove_edge", e) \in Quiet(found)
        /\ OpAddEdge(n, -1, g.edges[e].label) \in Quiet(found)
        /\ OpAddEdge(-1, g.edges[e].target, None) \in Quiet(found)
    BY <1>0, <2>3, GivenGraph, OperationsOfTheRules
  <2>5. InsertAfter(g, n, step) =
           <<step, OpRemove("remove_edge", e), OpAddEdge(n, -1, g.edges[e].label),
             OpAddEdge(-1, g.edges[e].target, None)>>
    BY <1>2 DEF InsertAfter, e
  <2> QED BY <2>4, <2>5, ShortPatches
<1> QED BY <1>1, <1>2

LEMMA PatchesBefore ==
    ASSUME NEW g \in InitialGraph, NEW n \in NodeIds(g), NEW found, NEW step \in Quiet(found),
           NEW edges \in InOrder(Incoming(g, n))
    PROVE  InsertBefore(n, step, g, edges) \in Seq(Quiet(found))
<1>1. EdgeIds(g) \subseteq GivenId /\ Incoming(g, n) \subseteq EdgeIds(g) /\ MaxGivenId \in Nat
  BY PatcherAssumption DEF Incoming
<1>2. Cardinality(Incoming(g, n)) \in Nat
  <2>1. IsFiniteSet(GivenId)
    BY <1>1, FS_Interval DEF GivenId
  <2>2. IsFiniteSet(Incoming(g, n))
    BY <1>1, <2>1, FS_Subset
  <2> QED BY <2>2, FS_CardinalityType
<1> DEFINE k == Cardinality(Incoming(g, n))
           middle == [i \in 1..(2 * Len(edges)) |->
                        IF i % 2 = 1 THEN OpRemove("remove_edge", edges[(i + 1) \div 2])
                        ELSE Reconnected(g, edges[i \div 2])]
<1>3. edges \in [1..k -> Incoming(g, n)]
  BY DEF InOrder
<1> HIDE DEF k
<1>4. k \in Nat /\ Len(edges) = k
  BY <1>2, <1>3, SeqDef DEF k
<1>5. \A e \in EdgeIds(g) : OpRemove("remove_edge", e) \in Quiet(found) /\ Reconnected(g, e) \in Quiet(found)
  BY GivenGraph, NumbersOfTheRules, OperationsOfTheRules DEF Reconnected
<1>6. ASSUME NEW i \in 1..(2 * k)
      PROVE  middle[i] \in Quiet(found)
  <2>1. CASE i % 2 = 1
    <3>1. (i + 1) \div 2 \in 1..k
      BY <1>4, <2>1
    <3>2. edges[(i + 1) \div 2] \in EdgeIds(g)
      BY <1>1, <1>3, <3>1
    <3> QED BY <1>4, <1>5, <2>1, <3>2
  <2>2. CASE i % 2 # 1
    <3>1. i \div 2 \in 1..k
      BY <1>4, <2>2
    <3>2. edges[i \div 2] \in EdgeIds(g)
      BY <1>1, <1>3, <3>1
    <3> QED BY <1>4, <1>5, <2>2, <3>2
  <2> QED BY <2>1, <2>2
<1>7. middle \in Seq(Quiet(found))
  <2>1. middle \in [1..(2 * k) -> Quiet(found)]
    BY <1>4, <1>6
  <2> HIDE DEF middle
  <2> QED BY <1>4, <2>1, LongPatches
<1>8. <<step>> \in Seq(Quiet(found)) /\ <<OpAddEdge(-1, n, None)>> \in Seq(Quiet(found))
  BY GivenGraph, NumbersOfTheRules, OperationsOfTheRules, ShortPatches DEF EdgeLabel
<1>9. InsertBefore(n, step, g, edges) = <<step>> \o middle \o <<OpAddEdge(-1, n, None)>>
  BY DEF InsertBefore
<1> HIDE DEF middle
<1> QED BY <1>7, <1>8, <1>9, ConcatProperties

\* Two parts of a sequence, by place.
LEMMA Joined ==
    ASSUME NEW U, NEW s \in Seq(U), NEW t \in Seq(U)
    PROVE  /\ s \o t \in Seq(U) /\ Len(s \o t) = Len(s) + Len(t)
           /\ DOMAIN (s \o t) = 1..(Len(s) + Len(t))
           /\ \A i \in 1..Len(s) : (s \o t)[i] = s[i]
           /\ \A i \in (Len(s) + 1)..(Len(s) + Len(t)) : (s \o t)[i] = t[i - Len(s)]
<1> DEFINE q == s \o t
<1>1. q \in Seq(U) /\ Len(q) = Len(s) + Len(t)
  BY ConcatProperties
<1>2. \A i \in 1..(Len(s) + Len(t)) : q[i] = IF i <= Len(s) THEN s[i] ELSE t[i - Len(s)]
  BY ConcatProperties
<1> HIDE DEF q
<1>3. DOMAIN q = 1..(Len(s) + Len(t))
  BY <1>1
<1>4. Len(s) \in Nat /\ Len(t) \in Nat
  OBVIOUS
<1>5. \A i \in 1..Len(s) : q[i] = s[i]
  BY <1>2, <1>4
<1>6. \A i \in (Len(s) + 1)..(Len(s) + Len(t)) : q[i] = t[i - Len(s)]
  BY <1>2, <1>4
<1> QED BY <1>1, <1>3, <1>5, <1>6 DEF q

\* The types of a flow's nodes.
LEMMA FlowTypes ==
    ASSUME NEW k \in 0..MaxSteps, NEW steps \in [1..k -> {"task", "decision"}]
    PROVE  /\ Around(steps) \in Seq(NodeType) /\ Len(Around(steps)) = k + 2
           /\ k + 3 \in 1..MaxRefs
           /\ Around(steps)[1] = "start" /\ Around(steps)[k + 2] = "end"
<1>1. k \in Nat /\ k + 3 \in 1..MaxRefs
  BY NumbersOfTheRules
<1>2. steps \in Seq({"task", "decision"}) /\ Len(steps) = k
  BY <1>1, SeqDef
<1>3. steps \in Seq(NodeType)
  BY <1>2, SeqMonotonic DEF NodeType
<1>4. /\ <<"start">> \in Seq(NodeType) /\ Len(<<"start">>) = 1
      /\ <<"end">> \in Seq(NodeType) /\ Len(<<"end">>) = 1
  BY DEF NodeType
<1>f. PICK first, last, front :
         first = <<"start">> /\ last = <<"end">> /\ front = first \o steps
  OBVIOUS
<1>5. /\ first \in Seq(NodeType) /\ Len(first) = 1 /\ first[1] = "start"
      /\ last \in Seq(NodeType) /\ Len(last) = 1 /\ last[1] = "end"
  BY <1>4, <1>f
<1>6. front \in Seq(NodeType) /\ Len(front) = 1 + k /\ front[1] = "start"
  <2>1. /\ front \in Seq(NodeType) /\ Len(front) = Len(first) + Len(steps)
        /\ \A i \in 1..Len(first) : front[i] = first[i]
    BY <1>3, <1>5, <1>f, Joined
  <2> QED BY <1>2, <1>5, <2>1
<1>a. PICK around : around = front \o last
  OBVIOUS
<1>b. Around(steps) = around
  BY <1>a, <1>f DEF Around
<1>7. /\ around \in Seq(NodeType) /\ Len(around) = Len(front) + Len(last)
      /\ \A i \in 1..Len(front) : around[i] = front[i]
      /\ \A i \in (Len(front) + 1)..(Len(front) + Len(last)) : around[i] = last[i - Len(front)]
  <2>1. front \in Seq(NodeType) /\ last \in Seq(NodeType)
    BY <1>5, <1>6
  <2> QED BY <2>1, <1>a, Joined
<1>8. around[1] = "start" /\ around[k + 2] = "end"
  <2>1. 1 \in 1..(1 + k) /\ k + 2 \in ((1 + k) + 1)..((1 + k) + 1) /\ k + 2 - (1 + k) = 1
    BY <1>1
  <2> QED BY <1>5, <1>6, <1>7, <2>1
<1> QED BY <1>1, <1>5, <1>6, <1>7, <1>8, <1>b

LEMMA ChainsAreTyped ==
    ASSUME NEW length \in 1..MaxRefs, NEW passed, NEW found
    PROVE  Chain(length, passed) \in Seq(Quiet(found))
<1>1. \A i \in 1..(length - 1) :
         OpAddEdge(-i, -(i + 1), IF i \in passed THEN Passed ELSE None) \in Quiet(found)
  <2>1. ASSUME NEW i \in 1..(length - 1)
        PROVE  OpAddEdge(-i, -(i + 1), IF i \in passed THEN Passed ELSE None) \in Quiet(found)
    <3>1. i \in 1..MaxRefs /\ i + 1 \in 1..MaxRefs
      BY NumbersOfTheRules
    <3>2. -i \in Target /\ -(i + 1) \in Target
      BY <3>1, NumbersOfTheRules
    <3>3. (IF i \in passed THEN Passed ELSE None) \in EdgeLabel
      BY LocalAssumption DEF EdgeLabel
    <3> QED BY <3>2, <3>3, OperationsOfTheRules
  <2> QED BY <2>1
<1>2. Chain(length, passed) \in [1..(length - 1) -> Quiet(found)] /\ length - 1 \in Nat
  BY <1>1, NumbersOfTheRules DEF Chain
<1> QED BY <1>2, LongPatches

LEMMA FlowsAreTyped == ASSUME NEW found PROVE Flows(found) \subseteq Seq(Quiet(found))
<1>1. ASSUME NEW k \in 1..MaxSteps, NEW steps \in [1..k -> {"task", "decision"}], NEW l \in Label
      PROVE  Flow(steps, l) \in Seq(Quiet(found))
  <2> DEFINE types == Around(steps)
             nodes == [i \in DOMAIN types |-> OpAddNode(i, types[i], l, None, BlankSap)]
  <2>1. k \in 0..MaxSteps
    BY NumbersOfTheRules
  <2>2. types \in Seq(NodeType) /\ Len(types) = k + 2 /\ k + 3 \in 1..MaxRefs
    BY <2>1, FlowTypes
  <2>3. Flow(steps, l) = nodes \o Chain(Len(types), Decisions(types))
    BY DEF Flow
  <2> HIDE DEF types
  <2>4. DOMAIN types = 1..(k + 2) /\ \A i \in 1..(k + 2) : types[i] \in NodeType /\ i \in 1..MaxRefs
    BY <2>1, <2>2, NumbersOfTheRules
  <2>5. nodes \in [1..(k + 2) -> Quiet(found)]
    BY <2>4, OperationsOfTheRules
  <2> HIDE DEF nodes
  <2>6. nodes \in Seq(Quiet(found))
    BY <2>1, <2>5, LongPatches
  <2>7. Chain(Len(types), Decisions(types)) \in Seq(Quiet(found))
    BY <2>2, <2>1, ChainsAreTyped, NumbersOfTheRules
  <2> QED BY <2>3, <2>6, <2>7, ConcatProperties
<1>2. ASSUME NEW l \in Label
      PROVE  P2PFlow(MaxSteps, l, found) \in Seq(Quiet(found))
  <2> DEFINE steps == [i \in 1..MaxSteps |-> "task"]
             types == Around(steps)
             lane == Len(types) + 1
             sap(i) == IF types[i] = "task" THEN SeedSap(found) ELSE BlankSap
             nodes == [i \in DOMAIN types |-> OpAddNode(i, types[i], l, -lane, sap(i))]
  <2>1. MaxSteps \in 0..MaxSteps /\ steps \in [1..MaxSteps -> {"task", "decision"}]
    BY NumbersOfTheRules
  <2>2. types \in Seq(NodeType) /\ Len(types) = MaxSteps + 2 /\ lane \in 1..MaxRefs
    <3> HIDE DEF steps
    <3> QED BY <2>1, FlowTypes
  <2>3. P2PFlow(MaxSteps, l, found) = <<OpAddLane(lane, l)>> \o nodes \o Chain(Len(types), {3})
    BY DEF P2PFlow
  <2> HIDE DEF types
  <2>4. /\ DOMAIN types = 1..(MaxSteps + 2)
        /\ \A i \in 1..(MaxSteps + 2) : types[i] \in NodeType /\ i \in 1..MaxRefs
    BY <2>2, NumbersOfTheRules
  <2>5. -lane \in Target /\ \A i : sap(i) \in {BlankSap, SeedSap(found)}
    BY <2>2, NumbersOfTheRules
  <2> HIDE DEF lane, sap
  <2>6. nodes \in [1..(MaxSteps + 2) -> Quiet(found)]
    BY <2>4, <2>5, OperationsOfTheRules
  <2> HIDE DEF nodes
  <2>7. nodes \in Seq(Quiet(found))
    BY <2>6, LongPatches, NumbersOfTheRules
  <2>8. <<OpAddLane(lane, l)>> \in Seq(Quiet(found))
    BY <2>2, OperationsOfTheRules, ShortPatches
  <2>9. Chain(Len(types), {3}) \in Seq(Quiet(found))
    BY <2>2, ChainsAreTyped, NumbersOfTheRules
  <2> QED BY <2>3, <2>7, <2>8, <2>9, ConcatProperties
<1>3. ASSUME NEW p \in Flows(found) PROVE p \in Seq(Quiet(found))
  <2>1. \/ \E steps \in StepTypes, l \in Label : p = Flow(steps, l)
        \/ \E l \in Label : p = P2PFlow(MaxSteps, l, found)
    BY DEF Flows
  <2> QED BY <1>1, <1>2, <2>1 DEF StepTypes
<1> QED BY <1>3

\* Whatever the rules propose is a patch.
LEMMA RulesMakePatches ==
    ASSUME NEW g \in InitialGraph, NEW found
    PROVE  LocalPatches(g, found) \subseteq Seq(Quiet(found)) \cap Seq(Operation)
<1>1. ASSUME NEW p \in Insertions(g) PROVE p \in Seq(Quiet(found))
  <2>1. PICK n \in NodeIds(g), t \in NodeType, l \in Label :
           \/ p = InsertAfter(g, n, NewStep(g, n, t, l))
           \/ \E edges \in InOrder(Incoming(g, n)) :
                 p = InsertBefore(n, NewStep(g, n, t, l), g, edges)
    BY <1>1 DEF Insertions
  <2>2. NewStep(g, n, t, l) \in Quiet(found)
    BY NewSteps
  <2> QED BY <2>1, <2>2, PatchesAfter, PatchesBefore
<1>2. LocalPatches(g, found) \subseteq Seq(Quiet(found))
  BY <1>1, SimplePatches, FlowsAreTyped DEF LocalPatches
<1>3. Seq(Quiet(found)) \subseteq Seq(Operation)
  BY SeqMonotonic DEF Quiet
<1> QED BY <1>2, <1>3

-----------------------------------------------------------------------------
(* A request and its patch.                                                *)

\* Which steps change which part of the state.
LEMMA StepsOfTheRequest ==
    ASSUME current \in InitialGraph, [Next]_vars
    PROVE  /\ UNCHANGED <<current, stateless, allowPending, external>>
           /\ \/ UNCHANGED patchVars
              \/ WorkOnPatch
              \/ /\ stage = "provider" /\ stage' = AfterAnswer /\ error' = error
                 /\ answers' = <<>> /\ retrieved' = retrieved
                 /\ \E p \in Seq(Operation) : Receive(p)
           /\ retrieved' = retrieved \/ RetrieveKnowledge
<1>1. CASE ClassifyIntent \/ ValidateEvidence \/ ValidateGaps \/ Retry
  BY <1>1 DEF ClassifyIntent, ValidateEvidence, ValidateGaps, Retry, Proceed, patchVars
<1>2. CASE RetrieveKnowledge
  BY <1>2 DEF RetrieveKnowledge, Proceed, patchVars
<1>3. CASE LocalAnswer
  <2>1. PICK p \in LocalPatches(current, retrieved) : AnswerWith(p) /\ stage = "provider"
    BY <1>3 DEF LocalAnswer
  <2>2. p \in Seq(Operation)
    BY <2>1, RulesMakePatches
  <2> QED BY <2>1, <2>2 DEF AnswerWith, Receive, KeepRequest
<1>4. CASE ExternalAnswer
  <2>1. PICK p \in ExternalPatch : AnswerWith(p) /\ stage = "provider"
    BY <1>4 DEF ExternalAnswer
  <2>2. p \in Seq(Operation)
    BY <2>1, ModificationAssumption
  <2> QED BY <2>1, <2>2 DEF AnswerWith, Receive, KeepRequest
<1>5. CASE LocalFailure \/ AttemptIsRefused \/ AttemptFails \/ TotalTimeout
  BY <1>5 DEF LocalFailure, AttemptIsRefused, AttemptFails, TotalTimeout, Fail, KeepRequest, patchVars
<1>6. CASE WorkOnPatch
  BY <1>6 DEF WorkOnPatch, ApplyPatch, ApplyOperation, RefuseOperation, FailOperation, Validate,
              KeepRequest
<1>7. CASE UNCHANGED vars
  BY <1>7 DEF vars, patchVars, requestVars
<1> QED BY <1>1, <1>2, <1>3, <1>4, <1>5, <1>6, <1>7 DEF Next

LEMMA RequestsArePatchSteps ==
    ASSUME current \in InitialGraph, [Next]_vars
    PROVE  [PatchNext]_patchVars
<1>1. CASE WorkOnPatch
  BY <1>1 DEF WorkOnPatch, PatchNext
<1> QED BY <1>1, StepsOfTheRequest DEF PatchNext

CurrentIsGiven == current \in InitialGraph

\* To its patch, a request is a patch that arrives and is applied: the workflow,
\* the provider and the checks around it only decide whether it is, and when.
THEOREM RequestsApplyPatches == Spec => PatchSpec
<1>1. Init => PatchInit /\ CurrentIsGiven
  BY DEF Init, PatchInit, CurrentIsGiven
<1>2. CurrentIsGiven /\ [Next]_vars => CurrentIsGiven'
  BY StepsOfTheRequest DEF CurrentIsGiven
<1>3. CurrentIsGiven /\ [Next]_vars => [PatchNext]_patchVars
  BY RequestsArePatchSteps DEF CurrentIsGiven
<1> QED BY <1>1, <1>2, <1>3, PTL DEF Spec, PatchSpec

\* So the results about patches hold of the requests.
THEOREM ResultsAreValid == Spec => []WorkingIsValid
BY RequestsApplyPatches, PatchKeepsGraphsValid, PTL

THEOREM RequestRefsAreLive == Spec => []RefsAreLive
BY RequestsApplyPatches, PatchKeepsRefsLive, PTL

THEOREM RequestsChangeOnlyNamed == Spec => []OnlyNamedChange
BY RequestsApplyPatches, PatchChangesOnlyNamed, PTL

-----------------------------------------------------------------------------
(* Types and attempts.                                                     *)

RequestTypeOK ==
    /\ stage \in Stage
    /\ {stateless, allowPending, external} \subseteq BOOLEAN
    /\ knowledge \in KnowledgeStatus
    /\ DOMAIN retrieved \subseteq Evidence
    /\ \A r \in DOMAIN retrieved : retrieved[r] \in {"approved", "pending"}
    /\ answers \in Seq(Transient \cup Permanent \cup {Unhandled})
    /\ error \in Transient \cup Permanent \cup {Unhandled, LocalError, None}

LEMMA RetrievedIsTyped ==
    ASSUME NEW top \in SearchResults(allowPending), NEW r \in Retrievals(top)
    PROVE  /\ DOMAIN r \subseteq Evidence
           /\ \A ref \in DOMAIN r : r[ref] \in {"approved", "pending"} /\ Source(ref, {r[ref]})
<1>1. \A c \in top : /\ c \in Library /\ c.ref \in Evidence
                     /\ c.fits /\ c.release # "other"
                     /\ allowPending \/ (c.licensed /\ c.review = "approved")
  BY LibraryAssumption DEF SearchResults, Indexed, Fits, ProductionEligible, Chunk
<1>2. /\ r \in [{c.ref : c \in top} -> {"approved", "pending"}]
      /\ \A ref \in DOMAIN r : \E c \in top : c.ref = ref /\ c.review = r[ref]
  BY DEF Retrievals
<1>3. \A ref \in DOMAIN r : r[ref] \in {"approved", "pending"}
  BY <1>2
<1>4. ASSUME NEW ref \in DOMAIN r PROVE Source(ref, {r[ref]})
  <2>1. PICK c \in top : c.ref = ref /\ c.review = r[ref]
    BY <1>2
  <2> QED BY <1>1, <2>1 DEF Source
<1>5. DOMAIN r \subseteq Evidence
  BY <1>1, <1>2
<1> QED BY <1>3, <1>4, <1>5

LEMMA RequestTypedAtFirst == ASSUME Init PROVE RequestTypeOK
BY DEF Init, RequestTypeOK, Stage, KnowledgeStatus

LEMMA RequestTypedAfterStep ==
    ASSUME RequestTypeOK, current \in InitialGraph, [Next]_vars
    PROVE  RequestTypeOK'
<1> USE DEF RequestTypeOK
<1>1. CASE ClassifyIntent \/ ValidateEvidence \/ ValidateGaps \/ Retry
  BY <1>1 DEF ClassifyIntent, ValidateEvidence, ValidateGaps, Retry, Proceed, callVars, Stage
<1>2. CASE RetrieveKnowledge
  <2>1. PICK top \in SearchResults(allowPending) : retrieved' \in Retrievals(top)
    BY <1>2 DEF RetrieveKnowledge
  <2>2. knowledge' \in KnowledgeStatus
    BY <1>2 DEF RetrieveKnowledge, KnowledgeStatus
  <2> QED BY <1>2, <2>1, <2>2, RetrievedIsTyped DEF RetrieveKnowledge, Proceed, callVars, Stage
<1>3. CASE LocalAnswer \/ ExternalAnswer
  <2>1. UNCHANGED <<stateless, allowPending, external, knowledge, retrieved, error>>
    BY <1>3 DEF LocalAnswer, ExternalAnswer, AnswerWith, KeepRequest
  <2>2. stage' \in Stage
    BY <1>3 DEF LocalAnswer, ExternalAnswer, AnswerWith, AfterAnswer, Stage
  <2>3. answers' = <<>>
    BY <1>3 DEF LocalAnswer, ExternalAnswer, AnswerWith
  <2> QED BY <2>1, <2>2, <2>3
<1>4. CASE LocalFailure \/ TotalTimeout
  BY <1>4 DEF LocalFailure, TotalTimeout, Fail, KeepRequest, Stage, Transient
<1>5. CASE AttemptIsRefused
  BY <1>5 DEF AttemptIsRefused, Fail, KeepRequest, Stage
<1>6. CASE AttemptFails
  <2>1. /\ UNCHANGED <<stateless, allowPending, external, knowledge, retrieved>>
        /\ stage' \in Stage
    BY <1>6 DEF AttemptFails, Fail, KeepRequest, Stage
  <2>2. PICK code \in Transient : answers' = Append(answers, code) /\ error' \in {error, code}
    BY <1>6 DEF AttemptFails, Fail
  <2> QED BY <2>1, <2>2
<1>7. CASE WorkOnPatch
  BY <1>7 DEF WorkOnPatch, KeepRequest, callVars, Stage
<1>8. CASE UNCHANGED vars
  BY <1>8 DEF vars, requestVars, callVars
<1> QED BY <1>1, <1>2, <1>3, <1>4, <1>5, <1>6, <1>7, <1>8 DEF Next

\* Nothing has been asked before the provider is, and an error ends the request.
AttemptsInv ==
    /\ AttemptsAreBounded
    /\ stage \in {"classify", "retrieve"} => answers = <<>>
    /\ error # None => stage = "failed"

LEMMA AttemptsAtFirst == ASSUME Init PROVE AttemptsInv
BY ModificationAssumption DEF Init, AttemptsInv, AttemptsAreBounded

\* Answers that go on from, or end, the attempts that have been made.
LEMMA OneMoreAttempt ==
    ASSUME RequestTypeOK, AttemptsInv, stage = "provider",
           NEW code \in Transient \cup Permanent \cup {Unhandled}, answers' = Append(answers, code)
    PROVE  /\ Len(answers') = Len(answers) + 1 /\ Len(answers') <= MaxAttempts
           /\ answers' # <<>> /\ answers'[Len(answers')] = code
           /\ \A i \in 1..(Len(answers') - 1) : answers'[i] \in Transient
           /\ code \in Transient => \A i \in DOMAIN answers' : answers'[i] \in Transient
<1>1. /\ answers \in Seq(Transient \cup Permanent \cup {Unhandled}) /\ Len(answers) \in Nat
      /\ Len(answers) < MaxAttempts /\ MaxAttempts \in Nat
      /\ \A i \in DOMAIN answers : answers[i] \in Transient
  BY ModificationAssumption DEF RequestTypeOK, AttemptsInv, AttemptsAreBounded
<1>2. /\ Len(answers') = Len(answers) + 1 /\ answers'[Len(answers) + 1] = code
      /\ \A i \in 1..Len(answers) : answers'[i] = answers[i]
      /\ DOMAIN answers' = 1..(Len(answers) + 1)
  BY <1>1
<1>3. \A i \in 1..Len(answers) : answers'[i] \in Transient
  BY <1>1, <1>2
<1>4. \A i \in 1..(Len(answers) + 1) : i \in 1..Len(answers) \/ i = Len(answers) + 1
  BY <1>1
<1>5. answers' # <<>>
  BY <1>1, <1>2
<1> QED BY <1>1, <1>2, <1>3, <1>4, <1>5

LEMMA AttemptsAfterStep ==
    ASSUME RequestTypeOK, AttemptsInv, current \in InitialGraph, [Next]_vars
    PROVE  AttemptsInv'
<1>0. external' = external /\ MaxAttempts \in Nat \ {0}
  BY StepsOfTheRequest, ModificationAssumption
<1>1. CASE ClassifyIntent \/ RetrieveKnowledge \/ Retry
  BY <1>0, <1>1 DEF ClassifyIntent, RetrieveKnowledge, Retry, Proceed, callVars,
                    AttemptsInv, AttemptsAreBounded
<1>2. CASE ValidateEvidence \/ ValidateGaps
  BY <1>0, <1>2 DEF ValidateEvidence, ValidateGaps, Proceed, callVars, AttemptsInv, AttemptsAreBounded
<1>3. CASE LocalAnswer \/ ExternalAnswer
  <2>1. answers' = <<>> /\ error' = error /\ stage = "provider" /\ stage' \in {"patch", "evidence"}
    BY <1>3 DEF LocalAnswer, ExternalAnswer, AnswerWith, AfterAnswer
  <2>2. error = None
    BY <2>1 DEF AttemptsInv
  <2> QED BY <1>0, <2>1, <2>2 DEF AttemptsInv, AttemptsAreBounded
<1>4. CASE LocalFailure
  <2>1. answers' = answers /\ stage' = "failed" /\ ~external
    BY <1>4 DEF LocalFailure, Fail
  <2> QED BY <1>0, <2>1 DEF AttemptsInv, AttemptsAreBounded
<1>5. CASE TotalTimeout
  <2>1. answers' = answers /\ stage' = "failed" /\ error' = "PROVIDER_TIMEOUT"
    BY <1>5 DEF TotalTimeout, Fail
  <2> QED BY <1>0, <2>1 DEF AttemptsInv, AttemptsAreBounded
<1>6. CASE AttemptIsRefused
  <2>1. PICK code \in Permanent \cup {Unhandled} :
           answers' = Append(answers, code) /\ stage = "provider" /\ stage' = "failed" /\ error' = code
    BY <1>6 DEF AttemptIsRefused, Fail
  <2> QED BY <1>0, <2>1, OneMoreAttempt DEF AttemptsInv, AttemptsAreBounded
<1>7. CASE AttemptFails
  <2>1. PICK code \in Transient :
           /\ answers' = Append(answers, code) /\ stage = "provider"
           /\ \/ Len(answers) + 1 < MaxAttempts /\ stage' = "backoff" /\ error' = error
              \/ stage' = "failed" /\ error' = code
    BY <1>7 DEF AttemptFails, Fail, Retries
  <2>2. error = None
    BY <2>1 DEF AttemptsInv
  <2> QED BY <1>0, <2>1, <2>2, OneMoreAttempt DEF AttemptsInv, AttemptsAreBounded
<1>8. CASE WorkOnPatch
  <2>1. answers' = answers /\ error' = error /\ stage = "patch"
        /\ stage' \in {"done", "gaps", "failed", "patch"}
    BY <1>8 DEF WorkOnPatch, callVars
  <2> QED BY <1>0, <2>1 DEF AttemptsInv, AttemptsAreBounded
<1>9. CASE UNCHANGED vars
  BY <1>9 DEF vars, requestVars, callVars, AttemptsInv, AttemptsAreBounded
<1> QED BY <1>1, <1>2, <1>3, <1>4, <1>5, <1>6, <1>7, <1>8, <1>9 DEF Next

THEOREM RequestsCore == Spec => [](RequestTypeOK /\ AttemptsInv /\ CurrentIsGiven)
<1>1. Init => RequestTypeOK /\ AttemptsInv /\ CurrentIsGiven
  BY RequestTypedAtFirst, AttemptsAtFirst DEF Init, PatchInit, CurrentIsGiven
<1>2. RequestTypeOK /\ AttemptsInv /\ CurrentIsGiven /\ [Next]_vars
         => (RequestTypeOK /\ AttemptsInv /\ CurrentIsGiven)'
  BY RequestTypedAfterStep, AttemptsAfterStep, StepsOfTheRequest DEF CurrentIsGiven
<1> QED BY <1>1, <1>2, PTL DEF Spec

\* A request and its patch keep their types, and no more than MaxAttempts
\* answers are ever recorded.
THEOREM RequestsTyped == Spec => []TypeOK
<1>1. PatchTypeOK /\ RequestTypeOK /\ AttemptsInv => TypeOK
  BY DEF TypeOK, RequestTypeOK, AttemptsInv, AttemptsAreBounded
<1> QED BY <1>1, RequestsApplyPatches, PatchTyped, RequestsCore, PTL

\* Attempts are bounded, follow only failures that may pass, and the error that
\* is reported is the last.
THEOREM AttemptsStayBounded == Spec => []AttemptsAreBounded
<1>1. AttemptsInv => AttemptsAreBounded
  BY DEF AttemptsInv
<1> QED BY <1>1, RequestsCore, PTL

-----------------------------------------------------------------------------
(* What a result claims.                                                   *)

\* The metadata that the operations applied so far have brought.
Claimed == UNION {ClaimsOf(patch[i]) : i \in 1..applied}

\* All metadata is that of the current graph or has come with the patch.
SapIsKnown ==
    \A n \in NodeIds(working) :
        \/ n \in NodeIds(current) /\ working.nodes[n].sap = current.nodes[n].sap
        \/ working.nodes[n].sap \in Claimed

\* What is retrieved can be used, a patch is applied only when its claims are
\* supported, and a request is done only when no gap has been decided.
ClaimsInv ==
    /\ \A ref \in DOMAIN retrieved : Source(ref, {retrieved[ref]})
    /\ ~stateless /\ stage \in {"patch", "gaps", "done"} => PatchIsSupported
    /\ ~stateless /\ stage = "done" => GapsAreUndecided
    /\ SapIsKnown

LEMMA ClaimsGrow ==
    ASSUME CoreInv, ApplyOperation
    PROVE  Claimed' = Claimed \cup ClaimsOf(Op)
<1>1. applied \in Nat /\ applied' = applied + 1 /\ patch' = patch
  BY OpIsOperation DEF ApplyOperation, CoreInv
<1>2. 1..applied' = 1..applied \cup {applied + 1}
  BY <1>1
<1>3. \A o : ClaimsOf(o)' = ClaimsOf(o)
  BY DEF ClaimsOf
<1> QED BY <1>1, <1>2, <1>3 DEF Claimed, Op, ClaimsOf

\* The metadata of a node was there before or is claimed now.
LEMMA SapOfOperation ==
    ASSUME CoreInv, ApplyOperation, NEW n \in NodeIds(working)'
    PROVE  \/ n \in NodeIds(working) /\ working'.nodes[n].sap = working.nodes[n].sap
           \/ /\ working'.nodes[n].sap \in ClaimsOf(Op)
              /\ Op.op = "update_node" \/ (Op.op = "add_node" /\ n = NewId)
<1>0. IsGraph(working)
  BY DEF CoreInv, Core, Whole
<1>2. CASE Op.op \notin {"add_node", "remove_node", "update_node", "remove_lane"}
  BY <1>2, PartsLeftAlone DEF NodeIds
<1>3. CASE Op.op = "add_node"
  <2>1. working'.nodes = Put(working.nodes, NewId,
           [type |-> Op.type, label |-> Op.label, lane |-> Resolve(Op.lane), sap |-> Op.sap])
    BY <1>3, <1>0 DEF ApplyOperation, AddNode, IsGraph, GraphOf
  <2> QED BY <1>3, <2>1 DEF Put, NodeIds, ClaimsOf
<1>4. CASE Op.op = "remove_node"
  <2>1. working'.nodes = Without(working.nodes, {Op.id})
    BY <1>4 DEF ApplyOperation, RemoveNode, GraphOf
  <2> QED BY <2>1 DEF Without, NodeIds
<1>5. CASE Op.op = "update_node"
  <2> DEFINE node == working.nodes[Op.id]
             new == [type |-> Given(Op.changes.type, node.type),
                     label |-> Given(Op.changes.label, node.label),
                     lane |-> Given(Resolve(Op.changes.lane), node.lane),
                     sap |-> Given(Op.changes.sap, node.sap)]
  <2>1. working'.nodes = Put(working.nodes, Op.id, new) /\ Op.id \in NodeIds(working)
    BY <1>5, <1>0 DEF ApplyOperation, UpdateNode, CanUpdateNode, IsGraph, GraphOf
  <2>2. new.sap = node.sap \/ new.sap \in ClaimsOf(Op)
    BY <1>5 DEF Given, ClaimsOf
  <2> HIDE DEF new
  <2> QED BY <1>5, <2>1, <2>2 DEF Put, NodeIds
<1>6. CASE Op.op = "remove_lane"
  <2>1. working'.nodes = [m \in NodeIds(working) |-> LeaveLane(working.nodes[m], Op.id)]
    BY <1>6, <1>0 DEF ApplyOperation, RemoveLane, IsGraph, GraphOf, NodeIds
  <2>2. n \in NodeIds(working) /\ working.nodes[n] \in Node
    BY <1>0, <2>1 DEF NodeIds, IsGraph
  <2> QED BY <2>1, <2>2 DEF LeaveLane, Node
<1> QED BY <1>2, <1>3, <1>4, <1>5, <1>6

LEMMA SapAfterOperation ==
    ASSUME CoreInv, SapIsKnown, ApplyOperation
    PROVE  SapIsKnown'
<1>1. current' = current /\ Claimed' = Claimed \cup ClaimsOf(Op)
  BY ClaimsGrow DEF ApplyOperation
<1> QED BY <1>1, SapOfOperation DEF SapIsKnown, NodeIds

LEMMA SapAfterStep ==
    ASSUME CoreInv, SapIsKnown, [PatchNext]_patchVars
    PROVE  SapIsKnown'
<1>1. CASE ApplyOperation
  BY <1>1, SapAfterOperation
<1>2. CASE RefuseOperation \/ FailOperation
  BY <1>2 DEF RefuseOperation, FailOperation, SapIsKnown, Claimed, ClaimsOf
<1>3. CASE Validate
  <2>1. working' = working
    BY <1>3, NothingIsCut DEF Validate, CoreInv
  <2> QED BY <2>1, <1>3 DEF Validate, SapIsKnown, Claimed, ClaimsOf
<1>4. ASSUME NEW p \in Seq(Operation), Receive(p) PROVE SapIsKnown'
  <2>1. applied = 0 /\ Claimed = {} /\ Claimed' = {}
    BY <1>4 DEF Receive, CoreInv, Claimed
  <2> QED BY <2>1, <1>4 DEF Receive, SapIsKnown
<1>5. CASE UNCHANGED patchVars
  BY <1>5 DEF patchVars, SapIsKnown, Claimed, ClaimsOf
<1> QED BY <1>1, <1>2, <1>3, <1>4, <1>5 DEF PatchNext, ApplyPatch

LEMMA ClaimsAtFirst == ASSUME Init PROVE ClaimsInv
BY DEF Init, PatchInit, ClaimsInv, SapIsKnown

\* What the checks read is not changed once they have passed.
LEMMA SupportIsKept ==
    ASSUME PatchIsSupported, UNCHANGED <<current, patch, retrieved>>
    PROVE  PatchIsSupported'
BY DEF PatchIsSupported, ClaimsOf

LEMMA ClaimsAfterStep ==
    ASSUME CoreInv, ClaimsInv, current \in InitialGraph, [Next]_vars
    PROVE  ClaimsInv'
<1>1. SapIsKnown'
  BY SapAfterStep, RequestsArePatchSteps DEF ClaimsInv
<1>2. (\A ref \in DOMAIN retrieved : Source(ref, {retrieved[ref]}))'
  <2>1. allowPending' = allowPending
    BY StepsOfTheRequest
  <2>2. CASE retrieved' = retrieved
    BY <2>1, <2>2 DEF ClaimsInv, Source
  <2>3. CASE RetrieveKnowledge
    <3>1. PICK top \in SearchResults(allowPending) : retrieved' \in Retrievals(top)
      BY <2>3 DEF RetrieveKnowledge
    <3>2. \A ref \in DOMAIN retrieved' : Source(ref, {retrieved'[ref]})
      BY <3>1, RetrievedIsTyped
    <3> QED BY <2>1, <3>2 DEF Source
  <2> QED BY <2>2, <2>3, StepsOfTheRequest
<1>3. /\ (~stateless /\ stage \in {"patch", "gaps", "done"} => PatchIsSupported)'
      /\ (~stateless /\ stage = "done" => GapsAreUndecided)'
  <2>1. CASE ValidateEvidence
    BY <2>1, SupportIsKept DEF ValidateEvidence, Proceed, patchVars
  <2>2. CASE WorkOnPatch
    <3>1. stage = "patch" /\ UNCHANGED <<current, patch, retrieved, stateless>>
      BY <2>2 DEF WorkOnPatch, ApplyPatch, ApplyOperation, RefuseOperation, FailOperation, Validate,
                  KeepRequest
    <3>2. stateless \/ stage' # "done"
      BY <2>2, <3>1 DEF WorkOnPatch
    <3> QED BY <3>1, <3>2, SupportIsKept DEF ClaimsInv
  <2>3. CASE ValidateGaps
    <3>1. UNCHANGED <<current, patch, retrieved, stateless, working>> /\ stage = "gaps"
          /\ (stage' = "done" => GapsAreUndecided)
      BY <2>3 DEF ValidateGaps, Proceed, patchVars
    <3>2. GapsAreUndecided => GapsAreUndecided'
      BY <3>1 DEF GapsAreUndecided, GapBefore
    <3> QED BY <3>1, <3>2, SupportIsKept DEF ClaimsInv
  <2>4. CASE UNCHANGED vars
    <3>1. UNCHANGED <<current, patch, retrieved, stateless, working, stage>>
      BY <2>4 DEF vars, patchVars, requestVars
    <3>2. GapsAreUndecided => GapsAreUndecided'
      BY <3>1 DEF GapsAreUndecided, GapBefore
    <3> QED BY <3>1, <3>2, SupportIsKept DEF ClaimsInv
  <2>5. CASE ClassifyIntent \/ RetrieveKnowledge \/ Retry
    BY <2>5 DEF ClassifyIntent, RetrieveKnowledge, Retry, Proceed
  <2>6. CASE LocalAnswer \/ ExternalAnswer
    BY <2>6 DEF LocalAnswer, ExternalAnswer, AnswerWith, AfterAnswer, KeepRequest
  <2>7. CASE LocalFailure \/ AttemptIsRefused \/ AttemptFails \/ TotalTimeout
    BY <2>7 DEF LocalFailure, AttemptIsRefused, AttemptFails, TotalTimeout, Fail
  <2> QED BY <2>1, <2>2, <2>3, <2>4, <2>5, <2>6, <2>7 DEF Next
<1> QED BY <1>1, <1>2, <1>3 DEF ClaimsInv

\* Metadata that the check of the evidence has passed.
LEMMA SupportedIsTraceable ==
    ASSUME RequestTypeOK, ClaimsInv, NEW sap, SapIsSupported(sap, current, retrieved)
    PROVE  /\ \A i \in sap.items :
                 /\ i.ref # None =>
                       i.ref \in GraphRefs(current) \/ Source(i.ref, {"approved", "pending"})
                 /\ i.status = "verified" =>
                       i.ref \in VerifiedRefs(current) \/ Source(i.ref, {"approved"})
           /\ \A ref \in sap.gapRefs : ref \in GraphRefs(current) \/ Source(ref, {"approved", "pending"})
           /\ sap.gap # "none" => sap.gapRefs # {}
<1>1. \A ref \in DOMAIN retrieved : Source(ref, {"approved", "pending"})
  BY DEF ClaimsInv, RequestTypeOK, Source
<1>2. \A ref \in DOMAIN retrieved : retrieved[ref] = "approved" => Source(ref, {"approved"})
  BY DEF ClaimsInv
<1> QED BY <1>1, <1>2 DEF SapIsSupported, RefIsKnown, VerifiedIsBacked

LEMMA ClaimsFollow ==
    ASSUME CoreInv, RequestTypeOK, ClaimsInv
    PROVE  ClaimsAreTraceable
<1> SUFFICES ASSUME stage = "done", ~stateless, NEW n \in NodeIds(working)
             PROVE  LET new == working.nodes[n].sap
                        old == IF n \in NodeIds(current) THEN current.nodes[n].sap ELSE BlankSap
                    IN
                    /\ \A i \in new.items \ old.items :
                          /\ i.ref # None =>
                                i.ref \in GraphRefs(current) \/ Source(i.ref, {"approved", "pending"})
                          /\ i.status = "verified" =>
                                i.ref \in VerifiedRefs(current) \/ Source(i.ref, {"approved"})
                    /\ new.gap # old.gap => /\ old.gap = "none" /\ new.gap = "candidate"
                                            /\ new.gapRefs # {}
                    /\ \A ref \in new.gapRefs \ GraphRefs(current) : Source(ref, {"approved", "pending"})
  BY DEF ClaimsAreTraceable
<1> DEFINE new == working.nodes[n].sap
           old == IF n \in NodeIds(current) THEN current.nodes[n].sap ELSE BlankSap
<1>1. GapMayBecome(old.gap, new.gap)
  BY DEF ClaimsInv, GapsAreUndecided, GapBefore, BlankSap
<1>2. CASE n \in NodeIds(current) /\ new = current.nodes[n].sap
  <2>1. new.gapRefs \subseteq GraphRefs(current)
    BY <1>2 DEF GraphRefs
  <2> QED BY <1>2, <2>1
<1>3. CASE new \in Claimed
  <2>1. PICK i \in 1..applied : new \in ClaimsOf(patch[i])
    BY <1>3 DEF Claimed
  <2>2. i \in DOMAIN patch
    BY <2>1 DEF CoreInv, Core, PatchTypeOK
  <2>3. SapIsSupported(new, current, retrieved)
    BY <2>1, <2>2 DEF ClaimsInv, PatchIsSupported
  <2> HIDE DEF new, old
  <2>4. /\ \A j \in new.items :
              /\ j.ref # None =>
                    j.ref \in GraphRefs(current) \/ Source(j.ref, {"approved", "pending"})
              /\ j.status = "verified" =>
                    j.ref \in VerifiedRefs(current) \/ Source(j.ref, {"approved"})
        /\ \A ref \in new.gapRefs : ref \in GraphRefs(current) \/ Source(ref, {"approved", "pending"})
        /\ new.gap # "none" => new.gapRefs # {}
    BY <2>3, SupportedIsTraceable
  <2>5. new.gap # old.gap => old.gap = "none" /\ new.gap = "candidate" /\ new.gapRefs # {}
    BY <1>1, <2>4 DEF GapMayBecome
  <2> QED BY <2>4, <2>5 DEF new, old
<1> QED BY <1>2, <1>3 DEF ClaimsInv, SapIsKnown

\* Everything a graph that is saved or previewed newly claims comes from the
\* library or from the graph before, for any patch of a model or of the rules.
THEOREM ClaimsStayTraceable == Spec => []ClaimsAreTraceable
<1>1. Init => ClaimsInv
  BY ClaimsAtFirst
<1>2. CoreInv /\ ClaimsInv /\ CurrentIsGiven /\ [Next]_vars => ClaimsInv'
  BY ClaimsAfterStep DEF CurrentIsGiven
<1>3. CoreInv /\ RequestTypeOK /\ ClaimsInv => ClaimsAreTraceable
  BY ClaimsFollow
<1> QED BY <1>1, <1>2, <1>3, RequestsApplyPatches, PatchCore, RequestsCore, PTL DEF Spec

-----------------------------------------------------------------------------
(* The patches of the local rules apply.                                   *)

\* What a patch adds keeps the ways between the nodes of a graph: an edge to
\* something new leads on only where an edge from its source did, and what an
\* edge that goes away led to is reached past something new.
KeepsWays(p, g) ==
    /\ \A i, j \in DOMAIN p :
          /\ p[i].op = "add_edge" /\ p[i].source \in NodeIds(g)
          /\ p[j].op = "add_edge" /\ p[j].source = p[i].target
          => p[j].target \in Targets(g, p[i].source)
    /\ \A i \in DOMAIN p : p[i].op = "remove_edge" =>
          \E j, k \in DOMAIN p :
             /\ p[j].op = "add_edge" /\ p[j].source = g.edges[p[i].id].source
             /\ p[j].target \in Ref
             /\ p[k].op = "add_edge" /\ p[k].source = p[j].target
             /\ p[k].target = g.edges[p[i].id].target

\* What is known of the ids of a graph.
LEMMA GivenIds ==
    ASSUME NEW g \in InitialGraph
    PROVE  /\ NodeIds(g) \cup EdgeIds(g) \cup LaneIds(g) \subseteq GivenId
           /\ \A e \in EdgeIds(g) : /\ g.edges[e].source \in NodeIds(g)
                                    /\ g.edges[e].target \in NodeIds(g)
                                    /\ g.edges[e].source # g.edges[e].target
           /\ \A e, f \in EdgeIds(g) : Key(g.edges[e]) = Key(g.edges[f]) => e = f
           /\ \A n \in NodeIds(g) : g.nodes[n].lane \in LaneIds(g) \cup {None}
           /\ GivenId \cap Ref = {} /\ Unset \notin GivenId /\ None \notin GivenId
BY PatcherAssumption DEF Document, ValidGraph, EndsAreKnown, NoEdgeIsALoop, EdgesAreDistinct,
                         LanesAreKnown, GivenId, Ref

LEMMA LonePatches ==
    ASSUME NEW g \in InitialGraph, NEW o, FitsAlone(o, g)
    PROVE  Sound(<<o>>, g) /\ <<o>>[1] = o
BY DEF Sound

\* The patches of one operation.
LEMMA SmallPatchesAreSound ==
    ASSUME NEW g \in InitialGraph
    PROVE  /\ \A p \in Renamings(g) \cup Removals(g) \cup EdgePatches(g) :
                 Sound(p, g) /\ p[1].op # "add_node"
           /\ \A n \in NodeIds(g), l \in LaneIds(g) : FitsAlone(OpMove(n, l), g)
           /\ \A l \in LaneIds(g) : FitsAlone(OpRemove("remove_lane", l), g)
<1>0. /\ \A t \in Label : t # None
      /\ Unset # None
  BY PatcherAssumption
<1>1. \A n \in NodeIds(g), t \in Label : FitsAlone(OpRename(n, t), g)
  BY <1>0 DEF OpRename, OpUpdate, NoChange, FitsAlone, Makes
<1>2. \A n \in NodeIds(g), l \in LaneIds(g) : FitsAlone(OpMove(n, l), g)
  BY <1>0 DEF OpMove, OpUpdate, NoChange, FitsAlone, Makes
<1>3. \A n \in NodeIds(g) : FitsAlone(OpRemove("remove_node", n), g)
  BY DEF OpRemove, FitsAlone, Makes
<1>4. \A l \in LaneIds(g) : FitsAlone(OpRemove("remove_lane", l), g)
  BY DEF OpRemove, FitsAlone, Makes
<1>5. \A e \in EdgeIds(g) : FitsAlone(OpRemove("remove_edge", e), g)
  BY DEF OpRemove, FitsAlone, Makes
<1>6. ASSUME NEW e \in Findable(g), NEW t \in Label \cup {None}
      PROVE  FitsAlone([op |-> "update_edge", id |-> e, label |-> t], g)
  <2>1. e \in EdgeIds(g) /\ EdgesBetween(g, g.edges[e].source, g.edges[e].target) = {e}
    BY DEF Findable
  <2>2. g.edges[e] \in Edge
    BY <2>1, GivenGraph DEF IsGraph
  <2>3. ASSUME NEW f \in EdgeIds(g) \ {e}
        PROVE  Key(g.edges[f]) # Key([g.edges[e] EXCEPT !.label = t])
    <3>1. g.edges[f].source # g.edges[e].source \/ g.edges[f].target # g.edges[e].target
      BY <2>1 DEF EdgesBetween
    <3> QED BY <2>2, <3>1 DEF Key, Edge
  <2> QED BY <2>1, <2>3 DEF FitsAlone, Makes
<1>7. ASSUME NEW st \in Connectable(g) PROVE FitsAlone(OpAddEdge(st[1], st[2], None), g)
  <2>1. /\ st[1] \in NodeIds(g) /\ st[2] \in NodeIds(g) /\ st[1] # st[2]
        /\ EdgesBetween(g, st[1], st[2]) = {}
    BY DEF Connectable
  <2>2. \A e \in EdgeIds(g) : Key(g.edges[e]) # OpKey(OpAddEdge(st[1], st[2], None))
    BY <2>1 DEF EdgesBetween, Key, OpKey, OpAddEdge
  <2> QED BY <2>1, <2>2 DEF FitsAlone, Makes, OpAddEdge
<1>8. ASSUME NEW p \in Renamings(g) PROVE Sound(p, g) /\ p[1].op # "add_node"
  <2>1. PICK n \in NodeIds(g), t \in Label : p = <<OpRename(n, t)>>
    BY DEF Renamings
  <2> QED BY <2>1, <1>1, LonePatches DEF FitsAlone, Makes
<1>9. ASSUME NEW p \in Removals(g) PROVE Sound(p, g) /\ p[1].op # "add_node"
  <2>1. PICK n \in NodeIds(g) : p = <<OpRemove("remove_node", n)>>
    BY DEF Removals
  <2> QED BY <2>1, <1>3, LonePatches DEF FitsAlone, Makes
<1>10. ASSUME NEW p \in EdgePatches(g) PROVE Sound(p, g) /\ p[1].op # "add_node"
  <2>1. \/ \E e \in Findable(g), l \in Label \cup {None} :
              p = <<[op |-> "update_edge", id |-> e, label |-> l]>>
        \/ \E e \in Findable(g) : p = <<OpRemove("remove_edge", e)>>
        \/ \E st \in Connectable(g) : p = <<OpAddEdge(st[1], st[2], None)>>
    BY DEF EdgePatches
  <2>2. PICK o : p = <<o>> /\ FitsAlone(o, g)
    BY <1>5, <1>6, <1>7, <2>1 DEF Findable
  <2> QED BY <2>2, LonePatches DEF FitsAlone, Makes
<1> QED BY <1>2, <1>4, <1>8, <1>9, <1>10

LEMMA LanePatchesAreSound ==
    ASSUME NEW g \in InitialGraph, NEW p \in LanePatches(g)
    PROVE  Sound(p, g) /\ p[1].op # "add_node"
<1>1. \/ \E n \in NodeIds(g), l \in LaneIds(g) : p = <<OpMove(n, l)>>
      \/ \E l \in LaneIds(g), t \in Label : p = <<[op |-> "update_lane", id |-> l, label |-> t]>>
      \/ \E l \in LaneIds(g) : p = <<OpRemove("remove_lane", l)>>
      \/ \E k \in 1..MaxRefs, t \in Label : p = [i \in 1..k |-> OpAddLane(i, t)]
  BY DEF LanePatches
<1>2. \A l \in LaneIds(g), t \in Label :
         FitsAlone([op |-> "update_lane", id |-> l, label |-> t], g)
  BY DEF FitsAlone, Makes
<1>3. ASSUME NEW o, p = <<o>>, FitsAlone(o, g) PROVE Sound(p, g) /\ p[1].op # "add_node"
  BY <1>3, LonePatches DEF FitsAlone, Makes
<1>4. ASSUME NEW k \in 1..MaxRefs, NEW t \in Label, p = [i \in 1..k |-> OpAddLane(i, t)]
      PROVE  Sound(p, g) /\ p[1].op # "add_node"
  <2>1. DOMAIN p = 1..k /\ k \in Nat /\ 1 \in 1..k
    BY <1>4, NumbersOfTheRules
  <2>2. \A i \in 1..k : p[i].op = "add_lane" /\ p[i].ref = -i
    BY <1>4 DEF OpAddLane
  <2>3. \A i, j \in 1..k : p[i].ref = p[j].ref => i = j
    BY <2>1, <2>2
  <2> QED BY <2>1, <2>2, <2>3 DEF Sound, Builds
<1> QED BY <1>1, <1>2, <1>3, <1>4, SmallPatchesAreSound

\* The edge that a new step takes over.
LEMMA PreferredIsOut ==
    ASSUME NEW g \in InitialGraph, NEW n, Outgoing(g, n) # {}
    PROVE  /\ Preferred(g, n) \in EdgeIds(g)
           /\ g.edges[Preferred(g, n)].source = n
<1> DEFINE yes == {f \in Outgoing(g, n) : g.edges[f].label \in Positive}
<1>1. Outgoing(g, n) \in SUBSET Nat
  BY GivenIds DEF Outgoing, GivenId
<1>2. yes # {} => Min(yes) \in yes
  BY <1>1, LeastIsIn
<1>3. Min(Outgoing(g, n)) \in Outgoing(g, n)
  BY <1>1, LeastIsIn
<1>4. Preferred(g, n) \in Outgoing(g, n)
  BY <1>2, <1>3 DEF Preferred
<1> QED BY <1>4 DEF Outgoing

\* A new step, as the operation that adds it.
LEMMA StepFields ==
    ASSUME NEW g \in InitialGraph, NEW n \in NodeIds(g), NEW t, NEW l
    PROVE  /\ NewStep(g, n, t, l).op = "add_node" /\ NewStep(g, n, t, l).ref = -1
           /\ NewStep(g, n, t, l).lane \in LaneIds(g) \cup {None}
           /\ -1 \in Ref /\ -1 \notin NodeIds(g)
<1>1. -1 \in Ref
  BY NumbersOfTheRules
<1> QED BY <1>1, GivenIds DEF NewStep, OpAddNode

LEMMA InsertAfterIsSound ==
    ASSUME NEW g \in InitialGraph, NEW n \in NodeIds(g), NEW step,
           step.op = "add_node", step.ref = -1, step.lane \in LaneIds(g) \cup {None}
    PROVE  LET p == InsertAfter(g, n, step) IN Builds(p, g) /\ KeepsWays(p, g)
<1> DEFINE p == InsertAfter(g, n, step)
<1>0. -1 \in Ref /\ -1 \notin NodeIds(g) /\ n # -1
  BY NumbersOfTheRules, GivenIds
<1>1. CASE Outgoing(g, n) = {}
  <2>1. p = <<step, OpAddEdge(n, -1, None)>>
    BY <1>1 DEF InsertAfter
  <2>2. /\ DOMAIN p = {1, 2} /\ p[1] = step /\ p[2] = OpAddEdge(n, -1, None)
        /\ p[2].op = "add_edge" /\ p[2].source = n /\ p[2].target = -1
    BY <2>1 DEF OpAddEdge
  <2> HIDE DEF p
  <2>3. /\ LaneBefore(p, g, step.lane, 1) \/ step.lane = None
        /\ NodeBefore(p, g, n, 2) /\ NodeBefore(p, g, -1, 2)
    BY <2>2 DEF NodeBefore, LaneBefore
  <2>4. Builds(p, g)
    BY <1>0, <2>2, <2>3 DEF Builds, Makes
  <2>5. KeepsWays(p, g)
    BY <1>0, <2>2 DEF KeepsWays
  <2> QED BY <2>4, <2>5 DEF p
<1>2. CASE Outgoing(g, n) # {}
  <2> PICK e : e = Preferred(g, n)
    OBVIOUS
  <2>0. /\ e \in EdgeIds(g) /\ g.edges[e].source = n /\ g.edges[e].target \in NodeIds(g)
    BY <1>2, PreferredIsOut, GivenIds
  <2>1. p = <<step, OpRemove("remove_edge", e), OpAddEdge(n, -1, g.edges[e].label),
              OpAddEdge(-1, g.edges[e].target, None)>>
    BY <1>2 DEF InsertAfter
  <2>2. /\ DOMAIN p = {1, 2, 3, 4} /\ p[1] = step
        /\ p[2].op = "remove_edge" /\ p[2].id = e
        /\ p[3].op = "add_edge" /\ p[3].source = n /\ p[3].target = -1
        /\ p[4].op = "add_edge" /\ p[4].source = -1 /\ p[4].target = g.edges[e].target
    BY <2>1 DEF OpAddEdge, OpRemove
  <2> HIDE DEF p
  <2>3. /\ LaneBefore(p, g, step.lane, 1) \/ step.lane = None
        /\ NodeBefore(p, g, n, 3) /\ NodeBefore(p, g, -1, 3)
        /\ NodeBefore(p, g, -1, 4) /\ NodeBefore(p, g, g.edges[e].target, 4)
    BY <2>0, <2>2 DEF NodeBefore, LaneBefore
  <2>4. OpKey(p[3]) # OpKey(p[4])
    BY <1>0, <2>2 DEF OpKey
  <2>5. Builds(p, g)
    BY <1>0, <2>0, <2>2, <2>3, <2>4 DEF Builds, Makes
  <2>6. g.edges[e].target \in Targets(g, n)
    BY <2>0 DEF Targets, Outgoing
  <2>7. ASSUME NEW i \in DOMAIN p, NEW j \in DOMAIN p,
               p[i].op = "add_edge", p[i].source \in NodeIds(g),
               p[j].op = "add_edge", p[j].source = p[i].target
        PROVE  p[j].target \in Targets(g, p[i].source)
    <3>1. i = 3
      BY <1>0, <2>2, <2>7
    <3>2. j = 4
      BY <1>0, <2>2, <2>7, <3>1
    <3> QED BY <2>2, <2>6, <3>1, <3>2
  <2>8. /\ 3 \in DOMAIN p /\ 4 \in DOMAIN p /\ p[3].target \in Ref
        /\ p[3].source = g.edges[p[2].id].source /\ p[4].source = p[3].target
        /\ p[4].target = g.edges[p[2].id].target
    BY <1>0, <2>0, <2>2
  <2>9. ASSUME NEW i \in DOMAIN p, p[i].op = "remove_edge"
        PROVE  \E j, k \in DOMAIN p :
                  /\ p[j].op = "add_edge" /\ p[j].source = g.edges[p[i].id].source
                  /\ p[j].target \in Ref
                  /\ p[k].op = "add_edge" /\ p[k].source = p[j].target
                  /\ p[k].target = g.edges[p[i].id].target
    <3>1. i = 2
      BY <1>0, <2>2, <2>9
    <3> QED BY <2>2, <2>8, <3>1
  <2>10. KeepsWays(p, g)
    BY <2>7, <2>9 DEF KeepsWays
  <2> QED BY <2>5, <2>10 DEF p
<1> QED BY <1>1, <1>2

\* The operations of an insertion before a node, by place.
LEMMA InsertBeforeByPlace ==
    ASSUME NEW g \in InitialGraph, NEW n, NEW step, NEW edges \in InOrder(Incoming(g, n)),
           NEW p, p = InsertBefore(n, step, g, edges)
    PROVE  \E k \in Nat :
              /\ DOMAIN p = 1..(2 * k + 2)
              /\ p[1] = step /\ p[2 * k + 2] = OpAddEdge(-1, n, None)
              /\ \A i \in 1..k : /\ edges[i] \in Incoming(g, n)
                                 /\ p[2 * i] = OpRemove("remove_edge", edges[i])
                                 /\ p[2 * i + 1] = Reconnected(g, edges[i])
              /\ \A i, j \in 1..k : edges[i] = edges[j] => i = j
<1>1. EdgeIds(g) \subseteq GivenId /\ Incoming(g, n) \subseteq EdgeIds(g) /\ MaxGivenId \in Nat
  BY PatcherAssumption DEF Incoming
<1>2. Cardinality(Incoming(g, n)) \in Nat
  <2>1. IsFiniteSet(GivenId)
    BY <1>1, FS_Interval DEF GivenId
  <2>2. IsFiniteSet(Incoming(g, n))
    BY <1>1, <2>1, FS_Subset
  <2> QED BY <2>2, FS_CardinalityType
<1> PICK k : k = Cardinality(Incoming(g, n))
  OBVIOUS
<1>3. /\ edges \in [1..k -> Incoming(g, n)]
      /\ \A i, j \in 1..k : i < j => edges[i] < edges[j]
  BY DEF InOrder
<1>4. k \in Nat /\ Len(edges) = k
  BY <1>2, <1>3, SeqDef
<1>5. \A i, j \in 1..k : edges[i] = edges[j] => i = j
  BY <1>1, <1>3, <1>4 DEF GivenId
<1> DEFINE middle == [i \in 1..(2 * k) |->
                        IF i % 2 = 1 THEN OpRemove("remove_edge", edges[(i + 1) \div 2])
                        ELSE Reconnected(g, edges[i \div 2])]
           last == OpAddEdge(-1, n, None)
<1>6. p = <<step>> \o middle \o <<last>>
  BY <1>4 DEF InsertBefore
<1>7. /\ DOMAIN middle = 1..(2 * k)
      /\ \A i \in 1..k : middle[2 * i - 1] = OpRemove("remove_edge", edges[i])
      /\ \A i \in 1..k : middle[2 * i] = Reconnected(g, edges[i])
  <2>1. ASSUME NEW i \in 1..k PROVE middle[2 * i - 1] = OpRemove("remove_edge", edges[i])
    <3>1. 2 * i - 1 \in 1..(2 * k) /\ (2 * i - 1) % 2 = 1 /\ ((2 * i - 1) + 1) \div 2 = i
      BY <1>4
    <3> QED BY <3>1
  <2>2. ASSUME NEW i \in 1..k PROVE middle[2 * i] = Reconnected(g, edges[i])
    <3>1. 2 * i \in 1..(2 * k) /\ (2 * i) % 2 # 1 /\ (2 * i) \div 2 = i
      BY <1>4
    <3> QED BY <3>1
  <2> QED BY <2>1, <2>2
<1> PICK U : U = {step, last} \cup {middle[i] : i \in 1..(2 * k)}
  OBVIOUS
<1>8. middle \in Seq(U) /\ Len(middle) = 2 * k
  <2>1. middle \in [1..(2 * k) -> U] /\ 2 * k \in Nat
    BY <1>4
  <2> HIDE DEF middle
  <2> QED BY <2>1, SeqDef
<1> HIDE DEF middle, last
<1>9. <<step>> \in Seq(U) /\ <<last>> \in Seq(U) /\ Len(<<step>>) = 1 /\ Len(<<last>>) = 1
  OBVIOUS
<1>10. PICK q : q = <<step>> \o middle
  OBVIOUS
<1>11. /\ q \in Seq(U) /\ Len(q) = 2 * k + 1 /\ q[1] = step
       /\ \A i \in 1..(2 * k) : q[i + 1] = middle[i]
  <2>1. q \in Seq(U) /\ Len(q) = 1 + 2 * k
    BY <1>8, <1>9, <1>10, ConcatProperties
  <2>2. q[1] = <<step>>[1]
    BY <1>8, <1>9, <1>10, ConcatProperties
  <2>3. \A i \in 1..Len(middle) : q[1 + i] = middle[i]
    BY <1>8, <1>9, <1>10, ConcatProperties
  <2> QED BY <1>4, <1>8, <2>1, <2>2, <2>3
<1>12. /\ p \in Seq(U) /\ Len(p) = 2 * k + 2 /\ p[2 * k + 2] = last
       /\ \A i \in 1..(2 * k + 1) : p[i] = q[i]
  <2>1. p = q \o <<last>>
    BY <1>6, <1>10
  <2>2. p \in Seq(U) /\ Len(p) = (2 * k + 1) + 1
    BY <1>9, <1>11, <2>1, ConcatProperties
  <2>3. \A i \in 1..Len(q) : p[i] = q[i]
    BY <1>9, <1>11, <2>1, ConcatProperties
  <2>4. p[Len(q) + 1] = <<last>>[1]
    BY <1>9, <1>11, <2>1
  <2> QED BY <1>4, <1>11, <2>2, <2>3, <2>4
<1>13. p[1] = step
  BY <1>4, <1>11, <1>12
<1>14. ASSUME NEW i \in 1..k
       PROVE  /\ edges[i] \in Incoming(g, n)
              /\ p[2 * i] = OpRemove("remove_edge", edges[i])
              /\ p[2 * i + 1] = Reconnected(g, edges[i])
  <2>1. /\ 2 * i - 1 \in 1..(2 * k) /\ 2 * i \in 1..(2 * k)
        /\ (2 * i - 1) + 1 = 2 * i
        /\ 2 * i \in 1..(2 * k + 1) /\ 2 * i + 1 \in 1..(2 * k + 1)
    BY <1>4
  <2>2. q[2 * i] = middle[2 * i - 1] /\ q[2 * i + 1] = middle[2 * i]
    BY <1>11, <2>1
  <2> QED BY <1>3, <1>7, <1>12, <2>1, <2>2
<1>15. DOMAIN p = 1..(2 * k + 2)
  BY <1>12
<1> QED BY <1>4, <1>5, <1>12, <1>13, <1>14, <1>15 DEF last

LEMMA InsertBeforeIsSound ==
    ASSUME NEW g \in InitialGraph, NEW n \in NodeIds(g), NEW step,
           step.op = "add_node", step.ref = -1, step.lane \in LaneIds(g) \cup {None},
           NEW edges \in InOrder(Incoming(g, n))
    PROVE  LET p == InsertBefore(n, step, g, edges) IN Builds(p, g) /\ KeepsWays(p, g)
<1>a. PICK p : p = InsertBefore(n, step, g, edges)
  OBVIOUS
<1>0. -1 \in Ref /\ -1 \notin NodeIds(g) /\ n # -1 /\ n \notin Ref
  BY NumbersOfTheRules, GivenIds
<1>b. PICK k \in Nat :
       /\ DOMAIN p = 1..(2 * k + 2)
       /\ p[1] = step /\ p[2 * k + 2] = OpAddEdge(-1, n, None)
       /\ \A i \in 1..k : /\ edges[i] \in Incoming(g, n)
                          /\ p[2 * i] = OpRemove("remove_edge", edges[i])
                          /\ p[2 * i + 1] = Reconnected(g, edges[i])
       /\ \A i, j \in 1..k : edges[i] = edges[j] => i = j
  BY <1>a, InsertBeforeByPlace
<1> DEFINE Removing(j) == \E i \in 1..k : j = 2 * i
           Joining(j) == \E i \in 1..k : j = 2 * i + 1
\* Every operation has one of the four places.
<1>1. \A j \in DOMAIN p : j = 1 \/ j = 2 * k + 2 \/ Removing(j) \/ Joining(j)
  <2> SUFFICES ASSUME NEW j \in DOMAIN p, j # 1, j # 2 * k + 2 PROVE Removing(j) \/ Joining(j)
    OBVIOUS
  <2>0. j \in 1..(2 * k + 2)
    BY <1>b
  <2>1. j \in 2..(2 * k + 1)
    BY <2>0
  <2>2. CASE j % 2 = 0
    <3>1. j \div 2 \in 1..k /\ j = 2 * (j \div 2)
      BY <2>1, <2>2
    <3> QED BY <3>1
  <2>3. CASE j % 2 = 1
    <3>1. j \div 2 \in 1..k /\ j = 2 * (j \div 2) + 1
      BY <2>1, <2>3
    <3> QED BY <3>1
  <2> QED BY <2>1, <2>2, <2>3
<1>2. /\ p[1] = step
      /\ p[2 * k + 2].op = "add_edge" /\ p[2 * k + 2].source = -1 /\ p[2 * k + 2].target = n
  BY <1>b DEF OpAddEdge
<1>3. ASSUME NEW i \in 1..k
      PROVE  /\ edges[i] \in EdgeIds(g) /\ g.edges[edges[i]].target = n
             /\ g.edges[edges[i]].source \in NodeIds(g)
             /\ p[2 * i].op = "remove_edge" /\ p[2 * i].id = edges[i]
             /\ p[2 * i + 1].op = "add_edge"
             /\ p[2 * i + 1].source = g.edges[edges[i]].source /\ p[2 * i + 1].target = -1
             /\ p[2 * i + 1].label = g.edges[edges[i]].label
  <2>1. /\ edges[i] \in Incoming(g, n)
        /\ p[2 * i] = OpRemove("remove_edge", edges[i])
        /\ p[2 * i + 1] = Reconnected(g, edges[i])
    BY <1>b
  <2>2. edges[i] \in EdgeIds(g) /\ g.edges[edges[i]].target = n /\ g.edges[edges[i]].source \in NodeIds(g)
    BY <2>1, GivenIds DEF Incoming
  <2> QED BY <2>1, <2>2 DEF OpRemove, Reconnected, OpAddEdge
<1>4. /\ 1 \in DOMAIN p /\ 2 * k + 2 \in DOMAIN p
      /\ \A i \in 1..k : 2 * i \in DOMAIN p /\ 2 * i + 1 \in DOMAIN p
  BY <1>b
\* Which kind of operation is where.
<1>5. ASSUME NEW j \in DOMAIN p
      PROVE  /\ p[j].op \in {"add_node", "add_edge", "remove_edge"}
             /\ p[j].op = "add_node" => j = 1
             /\ p[j].op = "remove_edge" => Removing(j)
             /\ p[j].op = "add_edge" => j = 2 * k + 2 \/ Joining(j)
  <2> HIDE DEF Removing, Joining
  <2>1. Removing(j) => p[j].op = "remove_edge"
    BY <1>3 DEF Removing
  <2>2. Joining(j) => p[j].op = "add_edge"
    BY <1>3 DEF Joining
  <2> QED BY <1>1, <1>2, <2>1, <2>2
<1> HIDE DEF Removing, Joining
\* The edge that an operation is about.
<1>j. ASSUME NEW j \in DOMAIN p, p[j].op = "add_edge", j # 2 * k + 2
      PROVE  \E i \in 1..k :
                /\ j = 2 * i + 1 /\ j > 1
                /\ edges[i] \in EdgeIds(g) /\ g.edges[edges[i]].target = n
                /\ g.edges[edges[i]].source \in NodeIds(g)
                /\ p[j].source = g.edges[edges[i]].source /\ p[j].target = -1
                /\ p[j].label = g.edges[edges[i]].label
  <2>1. PICK i \in 1..k : j = 2 * i + 1
    BY <1>5, <1>j DEF Joining
  <2>2. j > 1
    BY <2>1
  <2> QED BY <1>3, <2>1, <2>2
<1>r. ASSUME NEW j \in DOMAIN p, p[j].op = "remove_edge"
      PROVE  \E i \in 1..k :
                /\ j = 2 * i /\ p[j].id = edges[i]
                /\ edges[i] \in EdgeIds(g) /\ g.edges[edges[i]].target = n
  <2>1. PICK i \in 1..k : j = 2 * i
    BY <1>5, <1>r DEF Removing
  <2> QED BY <1>3, <2>1
<1>6. \A i \in DOMAIN p : i > 1 => NodeBefore(p, g, -1, i)
  <2>1. \A i \in DOMAIN p : i > 1 => 1 \in 1..(i - 1)
    BY <1>b
  <2> QED BY <1>2, <2>1 DEF NodeBefore
<1>7. ASSUME NEW j \in DOMAIN p, p[j].op = "add_edge"
      PROVE  /\ NodeBefore(p, g, p[j].source, j) /\ NodeBefore(p, g, p[j].target, j)
             /\ p[j].source # p[j].target
             /\ p[j].source \in Ref \/ p[j].target \in Ref
  <2>0. \A v \in NodeIds(g) : NodeBefore(p, g, v, j)
    BY DEF NodeBefore
  <2>1. CASE j = 2 * k + 2
    <3>1. j > 1
      BY <2>1
    <3> QED BY <1>0, <1>2, <1>6, <2>0, <2>1, <3>1
  <2>2. CASE j # 2 * k + 2
    <3>1. p[j].source \in NodeIds(g) /\ p[j].target = -1 /\ j > 1
      BY <1>7, <1>j, <2>2
    <3> QED BY <1>0, <1>6, <2>0, <3>1
  <2> QED BY <2>1, <2>2
<1>8. ASSUME NEW j \in DOMAIN p, NEW l \in DOMAIN p, p[j].op = "add_edge", p[l].op = "add_edge",
             OpKey(p[j]) = OpKey(p[l])
      PROVE  j = l
  <2>1. p[j].source = p[l].source /\ p[j].target = p[l].target /\ Text(p[j].label) = Text(p[l].label)
    BY <1>8 DEF OpKey
  <2>2. CASE j = 2 * k + 2 \/ l = 2 * k + 2
    <3>1. \A i \in DOMAIN p : p[i].op = "add_edge" /\ i # 2 * k + 2 => p[i].target = -1
      BY <1>j
    <3> QED BY <1>0, <1>2, <1>8, <2>1, <2>2, <3>1
  <2>3. CASE j # 2 * k + 2 /\ l # 2 * k + 2
    <3>1. PICK i \in 1..k : /\ j = 2 * i + 1 /\ edges[i] \in EdgeIds(g)
                            /\ g.edges[edges[i]].target = n
                            /\ p[j].source = g.edges[edges[i]].source
                            /\ p[j].label = g.edges[edges[i]].label
      BY <1>8, <1>j, <2>3
    <3>2. PICK m \in 1..k : /\ l = 2 * m + 1 /\ edges[m] \in EdgeIds(g)
                            /\ g.edges[edges[m]].target = n
                            /\ p[l].source = g.edges[edges[m]].source
                            /\ p[l].label = g.edges[edges[m]].label
      BY <1>8, <1>j, <2>3
    <3>3. Key(g.edges[edges[i]]) = Key(g.edges[edges[m]])
      BY <2>1, <3>1, <3>2 DEF Key
    <3>4. edges[i] = edges[m]
      BY <3>1, <3>2, <3>3, GivenIds
    <3> QED BY <1>b, <3>1, <3>2, <3>4
  <2> QED BY <2>2, <2>3
<1>9. ASSUME NEW j \in DOMAIN p, NEW l \in DOMAIN p, p[j].op = "remove_edge",
             p[l].op = "remove_edge", p[j].id = p[l].id
      PROVE  j = l
  <2>1. PICK i \in 1..k : j = 2 * i /\ p[j].id = edges[i]
    BY <1>9, <1>r
  <2>2. PICK m \in 1..k : l = 2 * m /\ p[l].id = edges[m]
    BY <1>9, <1>r
  <2> QED BY <1>9, <1>b, <2>1, <2>2
<1>10. Builds(p, g)
  <2>1. \A j \in DOMAIN p : p[j].op = "remove_edge" => p[j].id \in EdgeIds(g)
    BY <1>r
  <2>2. \A j \in DOMAIN p : p[j].op = "add_node" =>
           p[j].lane = None \/ LaneBefore(p, g, p[j].lane, j)
    BY <1>2, <1>5 DEF LaneBefore
  <2>3. \A i, j \in DOMAIN p : Makes(p[i]) /\ Makes(p[j]) => i = j
    BY <1>5 DEF Makes
  <2> QED BY <1>5, <1>7, <1>8, <1>9, <2>1, <2>2, <2>3 DEF Builds
<1>11. KeepsWays(p, g)
  <2>1. ASSUME NEW i \in DOMAIN p, NEW j \in DOMAIN p,
               p[i].op = "add_edge", p[i].source \in NodeIds(g),
               p[j].op = "add_edge", p[j].source = p[i].target
        PROVE  p[j].target \in Targets(g, p[i].source)
    <3>1. i # 2 * k + 2
      BY <1>0, <1>2, <2>1
    <3>2. PICK m \in 1..k : /\ edges[m] \in EdgeIds(g) /\ g.edges[edges[m]].target = n
                            /\ p[i].source = g.edges[edges[m]].source /\ p[i].target = -1
      BY <1>j, <2>1, <3>1
    <3>3. n \in Targets(g, p[i].source)
      BY <3>2 DEF Targets, Outgoing
    <3>4. p[j].source \notin NodeIds(g)
      BY <1>0, <2>1, <3>2
    <3>5. j = 2 * k + 2
      BY <1>j, <2>1, <3>4
    <3> QED BY <1>2, <3>3, <3>5
  <2>2. ASSUME NEW i \in DOMAIN p, p[i].op = "remove_edge"
        PROVE  \E j, l \in DOMAIN p :
                  /\ p[j].op = "add_edge" /\ p[j].source = g.edges[p[i].id].source
                  /\ p[j].target \in Ref
                  /\ p[l].op = "add_edge" /\ p[l].source = p[j].target
                  /\ p[l].target = g.edges[p[i].id].target
    <3>1. PICK m \in 1..k : i = 2 * m /\ p[i].id = edges[m] /\ g.edges[edges[m]].target = n
      BY <1>r, <2>2
    <3>a. PICK j : j = 2 * m + 1
      OBVIOUS
    <3>b. PICK l : l = 2 * k + 2
      OBVIOUS
    <3>2. /\ j \in DOMAIN p /\ p[j].op = "add_edge"
          /\ p[j].source = g.edges[p[i].id].source /\ p[j].target = -1
      BY <1>3, <1>4, <3>a, <3>1
    <3>3. l \in DOMAIN p /\ p[l].op = "add_edge" /\ p[l].source = -1 /\ p[l].target = n
      BY <1>2, <1>4, <3>b
    <3> QED BY <1>0, <3>1, <3>2, <3>3, Zenon
  <2> QED BY <2>1, <2>2 DEF KeepsWays
<1> QED BY <1>a, <1>10, <1>11

\* A patch that makes m nodes, in a new lane or in none, and then an edge from
\* each to the next.
IsChain(p, o, m) ==
    /\ DOMAIN p = 1..(o + m + (m - 1))
    /\ o = 1 => p[1].op = "add_lane" /\ p[1].ref = -(m + 1)
    /\ \A i \in (o + 1)..(o + m) :
          /\ p[i].op = "add_node" /\ p[i].ref = o - i
          /\ p[i].lane = IF o = 1 THEN -(m + 1) ELSE None
    /\ \A i \in (o + m + 1)..(o + m + (m - 1)) :
          /\ p[i].op = "add_edge"
          /\ p[i].source = (o + m) - i /\ p[i].target = (o + m) - i - 1

\* The nodes are those of a flow from a start to an end.
IsFlow(p, o, m, found) ==
    /\ p[o + 1].type = "start" /\ p[o + m].type = "end"
    /\ \A i \in (o + 1)..(o + m) :
          p[i].sap = IF o = 1 /\ p[i].type = "task" THEN SeedSap(found) ELSE BlankSap

LEMMA ChainsAreSound ==
    ASSUME NEW g \in InitialGraph, NEW o \in {0, 1}, NEW m \in Nat, m >= 1, m + o <= MaxRefs,
           NEW p, IsChain(p, o, m)
    PROVE  Builds(p, g) /\ KeepsWays(p, g) /\ p[1].op = IF o = 1 THEN "add_lane" ELSE "add_node"
<1>0. MaxRefs \in Nat /\ MaxRefs >= m /\ DOMAIN p = 1..(o + m + (m - 1))
  BY PatcherAssumption DEF IsChain
<1>1. ASSUME NEW i \in (o + 1)..(o + m)
      PROVE  p[i].op = "add_node" /\ p[i].ref = o - i /\ p[i].lane = IF o = 1 THEN -(m + 1) ELSE None
  BY DEF IsChain
<1>2. ASSUME NEW i \in (o + m + 1)..(o + m + (m - 1))
      PROVE  p[i].op = "add_edge" /\ p[i].source = (o + m) - i /\ p[i].target = (o + m) - i - 1
  BY DEF IsChain
<1>3. o = 1 => p[1].op = "add_lane" /\ p[1].ref = -(m + 1)
  BY DEF IsChain
<1>4. ASSUME NEW i \in DOMAIN p
      PROVE  /\ i \in Int
             /\ \/ o = 1 /\ i = 1
                \/ i \in (o + 1)..(o + m)
                \/ i \in (o + m + 1)..(o + m + (m - 1))
  BY <1>0
<1>5. ASSUME NEW i \in DOMAIN p
      PROVE  /\ p[i].op \in {"add_lane", "add_node", "add_edge"}
             /\ p[i].op = "add_lane" => o = 1 /\ i = 1
             /\ p[i].op = "add_node" => i \in (o + 1)..(o + m)
             /\ p[i].op = "add_edge" => i \in (o + m + 1)..(o + m + (m - 1))
  BY <1>1, <1>2, <1>3, <1>4
<1>6. ASSUME NEW i \in DOMAIN p, NEW j \in DOMAIN p, Makes(p[i]), Makes(p[j]), p[i].ref = p[j].ref
      PROVE  i = j
  <2>1. (o = 1 /\ i = 1) \/ i \in (o + 1)..(o + m)
    BY <1>5, <1>6 DEF Makes
  <2>2. (o = 1 /\ j = 1) \/ j \in (o + 1)..(o + m)
    BY <1>5, <1>6 DEF Makes
  <2>3. CASE i \in (o + 1)..(o + m) /\ j \in (o + 1)..(o + m)
    <3>1. o - i = o - j
      BY <1>1, <1>6, <2>3
    <3> QED BY <2>3, <3>1
  <2>4. CASE o = 1 /\ i = 1 /\ j \in (o + 1)..(o + m)
    <3>1. -(m + 1) = o - j
      BY <1>1, <1>3, <1>6, <2>4
    <3> QED BY <2>4, <3>1
  <2>5. CASE o = 1 /\ j = 1 /\ i \in (o + 1)..(o + m)
    <3>1. -(m + 1) = o - i
      BY <1>1, <1>3, <1>6, <2>5
    <3> QED BY <2>5, <3>1
  <2> QED BY <2>1, <2>2, <2>3, <2>4, <2>5
<1>7. ASSUME NEW i \in DOMAIN p, p[i].op = "add_node"
      PROVE  p[i].lane = None \/ LaneBefore(p, g, p[i].lane, i)
  <2>1. i \in (o + 1)..(o + m)
    BY <1>5, <1>7
  <2>2. CASE o = 1
    <3>1. 1 \in 1..(i - 1) /\ p[i].lane = -(m + 1)
      BY <1>1, <2>1, <2>2
    <3> QED BY <1>3, <2>2, <3>1 DEF LaneBefore
  <2> QED BY <1>1, <2>1, <2>2
<1>8. ASSUME NEW i \in DOMAIN p, p[i].op = "add_edge"
      PROVE  /\ NodeBefore(p, g, p[i].source, i) /\ NodeBefore(p, g, p[i].target, i)
             /\ p[i].source # p[i].target
             /\ p[i].source \in Ref
  <2>1. i \in (o + m + 1)..(o + m + (m - 1))
    BY <1>5, <1>8
  <2>2. p[i].source = (o + m) - i /\ p[i].target = (o + m) - i - 1
    BY <1>2, <2>1
  <2>3. PICK a : a = i - m
    OBVIOUS
  <2>4. /\ a \in (o + 1)..(o + m) /\ a + 1 \in (o + 1)..(o + m)
        /\ a \in 1..(i - 1) /\ a + 1 \in 1..(i - 1)
        /\ o - a = (o + m) - i /\ o - (a + 1) = (o + m) - i - 1
    BY <2>1, <2>3
  <2>5. /\ p[a].op = "add_node" /\ p[a].ref = p[i].source
        /\ p[a + 1].op = "add_node" /\ p[a + 1].ref = p[i].target
    BY <1>1, <2>2, <2>4
  <2>6. NodeBefore(p, g, p[i].source, i) /\ NodeBefore(p, g, p[i].target, i)
    BY <2>4, <2>5 DEF NodeBefore
  <2>7. p[i].source \in Ref /\ p[i].source # p[i].target
    BY <1>0, <2>1, <2>2 DEF Ref
  <2> QED BY <2>6, <2>7
<1>9. ASSUME NEW i \in DOMAIN p, NEW j \in DOMAIN p, p[i].op = "add_edge", p[j].op = "add_edge",
             OpKey(p[i]) = OpKey(p[j])
      PROVE  i = j
  <2>1. i \in (o + m + 1)..(o + m + (m - 1)) /\ j \in (o + m + 1)..(o + m + (m - 1))
    BY <1>5, <1>9
  <2>2. (o + m) - i = (o + m) - j
    BY <1>2, <1>9, <2>1 DEF OpKey
  <2> QED BY <2>1, <2>2
<1>10. Builds(p, g)
  BY <1>5, <1>6, <1>7, <1>8, <1>9 DEF Builds
<1>11. KeepsWays(p, g)
  <2>1. \A i \in DOMAIN p : p[i].op = "add_edge" => p[i].source \notin NodeIds(g)
    BY <1>8, GivenIds
  <2> QED BY <1>5, <2>1 DEF KeepsWays
<1>12. p[1].op = IF o = 1 THEN "add_lane" ELSE "add_node"
  <2>1. o = 0 => 1 \in (o + 1)..(o + m)
    OBVIOUS
  <2> QED BY <1>1, <1>3, <2>1
<1> QED BY <1>10, <1>11, <1>12

\* The edges of a chain, by place.
LEMMA ChainByPlace ==
    ASSUME NEW m \in Nat, m >= 1, NEW passed
    PROVE  /\ DOMAIN Chain(m, passed) = 1..(m - 1)
           /\ \A i \in 1..(m - 1) :
                 /\ Chain(m, passed)[i].op = "add_edge"
                 /\ Chain(m, passed)[i].source = -i /\ Chain(m, passed)[i].target = -(i + 1)
BY DEF Chain, OpAddEdge

LEMMA FlowsAreChains ==
    ASSUME NEW steps \in StepTypes, NEW l \in Label, NEW found
    PROVE  \E m \in Nat : /\ m >= 2 /\ m + 0 <= MaxRefs
                          /\ IsChain(Flow(steps, l), 0, m) /\ IsFlow(Flow(steps, l), 0, m, found)
<1>1. PICK k \in 1..MaxSteps : steps \in [1..k -> {"task", "decision"}]
  BY DEF StepTypes
<1>2. k \in 0..MaxSteps
  BY <1>1, NumbersOfTheRules
<1>t. PICK types : types = Around(steps)
  OBVIOUS
<1>m. PICK m : m = k + 2
  OBVIOUS
<1>3. /\ types \in Seq(NodeType) /\ Len(types) = m /\ DOMAIN types = 1..m
      /\ m \in Nat /\ m >= 2 /\ m <= MaxRefs
      /\ types[1] = "start" /\ types[m] = "end"
  BY <1>1, <1>2, <1>t, <1>m, FlowTypes, NumbersOfTheRules
<1> DEFINE nodes == [i \in 1..m |-> OpAddNode(i, types[i], l, None, BlankSap)]
           chain == Chain(m, Decisions(types))
           p == Flow(steps, l)
<1>4. p = nodes \o chain
  BY <1>3, <1>t DEF Flow
<1>5. \A i \in 1..m : /\ nodes[i].op = "add_node" /\ nodes[i].ref = -i /\ nodes[i].lane = None
                      /\ nodes[i].type = types[i] /\ nodes[i].sap = BlankSap
  BY DEF OpAddNode
<1>6. /\ DOMAIN chain = 1..(m - 1)
      /\ \A i \in 1..(m - 1) :
            chain[i].op = "add_edge" /\ chain[i].source = -i /\ chain[i].target = -(i + 1)
  BY <1>3, ChainByPlace
<1>u. PICK U : U = {nodes[i] : i \in 1..m} \cup {chain[i] : i \in 1..(m - 1)}
  OBVIOUS
<1>7. nodes \in Seq(U) /\ Len(nodes) = m
  <2>1. nodes \in [1..m -> U]
    BY <1>u
  <2> HIDE DEF nodes
  <2> QED BY <1>3, <2>1, SeqDef
<1>8. chain \in Seq(U) /\ Len(chain) = m - 1
  <2>1. chain = [i \in 1..(m - 1) |-> chain[i]]
    BY DEF Chain
  <2>2. chain \in [1..(m - 1) -> U] /\ m - 1 \in Nat
    BY <1>3, <1>6, <1>u, <2>1
  <2> HIDE DEF chain
  <2> QED BY <2>2, SeqDef
<1> HIDE DEF nodes, chain, p
<1>9. /\ DOMAIN p = 1..(m + (m - 1))
      /\ \A i \in 1..m : p[i] = nodes[i]
      /\ \A i \in (m + 1)..(m + (m - 1)) : p[i] = chain[i - m]
  <2>1. /\ DOMAIN p = 1..(Len(nodes) + Len(chain))
        /\ \A i \in 1..Len(nodes) : p[i] = nodes[i]
        /\ \A i \in (Len(nodes) + 1)..(Len(nodes) + Len(chain)) : p[i] = chain[i - Len(nodes)]
    BY <1>4, <1>7, <1>8, Joined
  <2> QED BY <1>7, <1>8, <2>1
<1>10. DOMAIN p = 1..(0 + m + (m - 1))
  BY <1>3, <1>9
<1>11. ASSUME NEW i \in (0 + 1)..(0 + m)
       PROVE  p[i].op = "add_node" /\ p[i].ref = 0 - i /\ p[i].lane = None
  BY <1>3, <1>5, <1>9
<1>12. ASSUME NEW i \in (0 + m + 1)..(0 + m + (m - 1))
       PROVE  p[i].op = "add_edge" /\ p[i].source = (0 + m) - i /\ p[i].target = (0 + m) - i - 1
  <2>1. p[i] = chain[i - m] /\ i - m \in 1..(m - 1)
    BY <1>3, <1>9
  <2> QED BY <1>3, <1>6, <2>1
<1>13. IsChain(p, 0, m)
  BY <1>10, <1>11, <1>12 DEF IsChain
<1>14. \A i \in (0 + 1)..(0 + m) : p[i].type = types[i] /\ p[i].sap = BlankSap
  BY <1>3, <1>5, <1>9
<1>15. IsFlow(p, 0, m, found)
  <2>1. 0 + 1 \in (0 + 1)..(0 + m) /\ 0 + m \in (0 + 1)..(0 + m) /\ 0 + 1 = 1 /\ 0 + m = m
    BY <1>3
  <2> QED BY <1>3, <1>14, <2>1 DEF IsFlow
<1> QED BY <1>3, <1>13, <1>15 DEF p

LEMMA P2PFlowIsChain ==
    ASSUME NEW l \in Label, NEW found
    PROVE  \E m \in Nat : /\ m >= 2 /\ m + 1 <= MaxRefs
                          /\ IsChain(P2PFlow(MaxSteps, l, found), 1, m)
                          /\ IsFlow(P2PFlow(MaxSteps, l, found), 1, m, found)
<1> DEFINE steps == [i \in 1..MaxSteps |-> "task"]
<1>t. PICK types : types = Around(steps)
  OBVIOUS
<1>m. PICK m : m = MaxSteps + 2
  OBVIOUS
<1>3. /\ types \in Seq(NodeType) /\ Len(types) = m /\ DOMAIN types = 1..m
      /\ m \in Nat /\ m >= 2 /\ m + 1 <= MaxRefs
      /\ types[1] = "start" /\ types[m] = "end"
  <2>1. MaxSteps \in 0..MaxSteps /\ steps \in [1..MaxSteps -> {"task", "decision"}]
    BY NumbersOfTheRules
  <2> HIDE DEF steps
  <2> QED BY <1>t, <1>m, <2>1, FlowTypes, NumbersOfTheRules
<1> DEFINE sap(i) == IF types[i] = "task" THEN SeedSap(found) ELSE BlankSap
           nodes == [i \in 1..m |-> OpAddNode(i, types[i], l, -(m + 1), sap(i))]
           chain == Chain(m, {3})
           lane == OpAddLane(m + 1, l)
           p == P2PFlow(MaxSteps, l, found)
<1>4. p = <<lane>> \o nodes \o chain
  BY <1>3, <1>t DEF P2PFlow
<1>5. \A i \in 1..m : /\ nodes[i].op = "add_node" /\ nodes[i].ref = -i
                      /\ nodes[i].lane = -(m + 1)
                      /\ nodes[i].type = types[i] /\ nodes[i].sap = sap(i)
  BY DEF OpAddNode
<1>l. lane.op = "add_lane" /\ lane.ref = -(m + 1)
  BY DEF OpAddLane
<1>6. /\ DOMAIN chain = 1..(m - 1)
      /\ \A i \in 1..(m - 1) :
            chain[i].op = "add_edge" /\ chain[i].source = -i /\ chain[i].target = -(i + 1)
  BY <1>3, ChainByPlace
<1> HIDE DEF lane
<1>u. PICK U : U = {lane} \cup {nodes[i] : i \in 1..m} \cup {chain[i] : i \in 1..(m - 1)}
  OBVIOUS
<1>7. nodes \in Seq(U) /\ Len(nodes) = m
  <2>1. nodes \in [1..m -> U]
    BY <1>u
  <2> HIDE DEF nodes
  <2> QED BY <1>3, <2>1, SeqDef
<1>8. chain \in Seq(U) /\ Len(chain) = m - 1
  <2>1. chain = [i \in 1..(m - 1) |-> chain[i]]
    BY DEF Chain
  <2>2. chain \in [1..(m - 1) -> U] /\ m - 1 \in Nat
    BY <1>3, <1>6, <1>u, <2>1
  <2> HIDE DEF chain
  <2> QED BY <2>2, SeqDef
<1> HIDE DEF nodes, chain, p
<1>9. <<lane>> \in Seq(U) /\ Len(<<lane>>) = 1 /\ <<lane>>[1] = lane
  BY <1>u
<1>q. PICK q : q = <<lane>> \o nodes
  OBVIOUS
<1>10. /\ q \in Seq(U) /\ Len(q) = 1 + m
       /\ \A i \in 1..1 : q[i] = <<lane>>[i]
       /\ \A i \in (1 + 1)..(1 + m) : q[i] = nodes[i - 1]
  <2>1. /\ q \in Seq(U) /\ Len(q) = Len(<<lane>>) + Len(nodes)
        /\ \A i \in 1..Len(<<lane>>) : q[i] = <<lane>>[i]
        /\ \A i \in (Len(<<lane>>) + 1)..(Len(<<lane>>) + Len(nodes)) :
              q[i] = nodes[i - Len(<<lane>>)]
    BY <1>7, <1>9, <1>q, Joined
  <2> QED BY <1>7, <1>9, <2>1
<1>11. /\ DOMAIN p = 1..((1 + m) + (m - 1))
       /\ \A i \in 1..(1 + m) : p[i] = q[i]
       /\ \A i \in ((1 + m) + 1)..((1 + m) + (m - 1)) : p[i] = chain[i - (1 + m)]
  <2>0. p = q \o chain
    BY <1>4, <1>q
  <2>1. /\ DOMAIN p = 1..(Len(q) + Len(chain))
        /\ \A i \in 1..Len(q) : p[i] = q[i]
        /\ \A i \in (Len(q) + 1)..(Len(q) + Len(chain)) : p[i] = chain[i - Len(q)]
    <3>1. q \in Seq(U) /\ chain \in Seq(U)
      BY <1>8, <1>10
    <3> QED BY <2>0, <3>1, Joined
  <2> QED BY <1>8, <1>10, <2>1
<1>12. DOMAIN p = 1..(1 + m + (m - 1)) /\ p[1] = lane
  BY <1>3, <1>9, <1>10, <1>11
<1>13. ASSUME NEW i \in (1 + 1)..(1 + m)
       PROVE  p[i].op = "add_node" /\ p[i].ref = 1 - i /\ p[i].lane = -(m + 1)
  <2>1. p[i] = nodes[i - 1] /\ i - 1 \in 1..m
    BY <1>3, <1>10, <1>11
  <2> QED BY <1>3, <1>5, <2>1
<1>14. ASSUME NEW i \in (1 + m + 1)..(1 + m + (m - 1))
       PROVE  p[i].op = "add_edge" /\ p[i].source = (1 + m) - i /\ p[i].target = (1 + m) - i - 1
  <2>1. p[i] = chain[i - (1 + m)] /\ i - (1 + m) \in 1..(m - 1)
    BY <1>3, <1>11
  <2> QED BY <1>3, <1>6, <2>1
<1>15. IsChain(p, 1, m)
  BY <1>l, <1>12, <1>13, <1>14 DEF IsChain
<1>16. ASSUME NEW i \in (1 + 1)..(1 + m)
       PROVE  p[i].type = types[i - 1] /\ p[i].sap = sap(i - 1)
  <2>1. p[i] = nodes[i - 1] /\ i - 1 \in 1..m
    BY <1>3, <1>10, <1>11
  <2> QED BY <1>5, <2>1
<1>17. IsFlow(p, 1, m, found)
  <2>1. 1 + 1 \in (1 + 1)..(1 + m) /\ 1 + m \in (1 + 1)..(1 + m) /\ (1 + 1) - 1 = 1 /\ (1 + m) - 1 = m
    BY <1>3
  <2>2. p[1 + 1].type = "start" /\ p[1 + m].type = "end"
    BY <1>3, <1>16, <2>1
  <2> QED BY <1>16, <2>2 DEF IsFlow
<1> QED BY <1>3, <1>15, <1>17 DEF p

\* Whatever the rules propose applies, and what they insert keeps the ways.
LEMMA RulesAreSound ==
    ASSUME NEW g \in InitialGraph, NEW found, NEW p \in LocalPatches(g, found)
    PROVE  Sound(p, g) /\ (p[1].op = "add_node" => Builds(p, g) /\ KeepsWays(p, g))
<1>1. CASE p \in LanePatches(g) \cup EdgePatches(g) \cup Renamings(g) \cup Removals(g)
  BY <1>1, LanePatchesAreSound, SmallPatchesAreSound
<1>2. CASE p \in Flows(found)
  <2>1. CASE \E steps \in StepTypes, l \in Label : p = Flow(steps, l)
    <3>1. PICK m \in Nat : m >= 2 /\ m + 0 <= MaxRefs /\ IsChain(p, 0, m)
      BY <2>1, FlowsAreChains
    <3>2. m >= 1
      BY <3>1
    <3> QED BY <3>1, <3>2, ChainsAreSound DEF Sound
  <2>2. CASE \E l \in Label : p = P2PFlow(MaxSteps, l, found)
    <3>1. PICK m \in Nat : m >= 2 /\ m + 1 <= MaxRefs /\ IsChain(p, 1, m)
      BY <2>2, P2PFlowIsChain
    <3>2. m >= 1
      BY <3>1
    <3> QED BY <3>1, <3>2, ChainsAreSound DEF Sound
  <2> QED BY <1>2, <2>1, <2>2 DEF Flows
<1>3. CASE p \in Insertions(g)
  <2>1. PICK n \in NodeIds(g), t \in NodeType, l \in Label :
           \/ p = InsertAfter(g, n, NewStep(g, n, t, l))
           \/ \E edges \in InOrder(Incoming(g, n)) :
                 p = InsertBefore(n, NewStep(g, n, t, l), g, edges)
    BY <1>3 DEF Insertions
  <2> PICK step : step = NewStep(g, n, t, l)
    OBVIOUS
  <2>2. step.op = "add_node" /\ step.ref = -1 /\ step.lane \in LaneIds(g) \cup {None}
    BY StepFields
  <2>3. Builds(p, g) /\ KeepsWays(p, g)
    BY <2>1, <2>2, InsertAfterIsSound, InsertBeforeIsSound
  <2> QED BY <2>3 DEF Sound
<1> QED BY <1>1, <1>2, <1>3 DEF LocalPatches

\* The check of the evidence has nothing against them.
LEMMA QuietIsSupported ==
    ASSUME NEW g, NEW found, NEW sap \in {BlankSap, SeedSap(found)}
    PROVE  SapIsSupported(sap, g, found) /\ sap.gap = "none"
<1>1. CASE sap = BlankSap
  BY <1>1 DEF BlankSap, SapIsSupported
<1>2. CASE sap = SeedSap(found)
  <2> DEFINE F == Seed \cap DOMAIN found
             ref == IF F = {} THEN None ELSE CHOOSE r \in F : TRUE
             status == IF ref # None /\ found[ref] = "approved" THEN "verified" ELSE "pending"
  <2>1. ref # None => ref \in DOMAIN found
    OBVIOUS
  <2>2. status = "verified" => ref \in DOMAIN found /\ found[ref] = "approved"
    BY <2>1
  <2>3. SeedSap(found) = [items |-> {[ref |-> ref, status |-> status], [ref |-> ref, status |-> None]},
                          gap |-> "none", gapRefs |-> {}]
    BY DEF SeedSap
  <2>4. None # "verified"
    BY StatusAssumption
  <2> HIDE DEF ref, status
  <2>5. /\ sap.gap = "none" /\ sap.gapRefs = {}
        /\ \A i \in sap.items : i.ref = ref /\ i.status \in {status, None}
    BY <1>2, <2>3
  <2> QED BY <2>1, <2>2, <2>4, <2>5 DEF SapIsSupported, RefIsKnown, VerifiedIsBacked
<1> QED BY <1>1, <1>2

\* The metadata of what was there is left alone, what is new has no gap.
SapsAreQuiet ==
    \A n \in NodeIds(working) :
        IF n \in NodeIds(current) THEN working.nodes[n].sap = current.nodes[n].sap
        ELSE working.nodes[n].sap.gap = "none"

\* A patch arrives when the provider answers, and one of the local rules only
\* fails for what the document is after it.
LocalInv ==
    /\ stage \in {"classify", "retrieve", "provider", "backoff"} => outcome = "waiting"
    /\ stage \in {"evidence", "patch", "gaps", "done"} => outcome # "waiting"
    /\ ~external =>
          /\ outcome # "waiting" => patch \in LocalPatches(current, retrieved)
          /\ SapsAreQuiet
          /\ stage = "failed" /\ error = None => outcome = "invalid"

SoundIsNotRefused == Sound(patch, current) => outcome \notin {"refused", "unhandled"}

LEMMA LocalAtFirst == ASSUME Init PROVE LocalInv
BY DEF Init, PatchInit, LocalInv, SapsAreQuiet

LEMMA QuietAfterStep ==
    ASSUME CoreInv, SapsAreQuiet, WorkOnPatch, patch \in Seq(Quiet(retrieved))
    PROVE  SapsAreQuiet'
<1>1. CASE ApplyOperation
  <2>1. /\ current' = current /\ Op \in Quiet(retrieved)
        /\ NewId \notin NodeIds(current)
    <3>1. applied + 1 \in DOMAIN patch
      BY <1>1, OpIsOperation DEF ApplyOperation, CoreInv
    <3> QED BY <1>1, <3>1, GivenBefore DEF ApplyOperation, Op, CoreInv
  <2>2. ASSUME NEW n \in NodeIds(working)'
        PROVE  IF n \in NodeIds(current) THEN working'.nodes[n].sap = current.nodes[n].sap
               ELSE working'.nodes[n].sap.gap = "none"
    <3>1. CASE n \in NodeIds(working) /\ working'.nodes[n].sap = working.nodes[n].sap
      BY <3>1 DEF SapsAreQuiet
    <3>2. CASE /\ working'.nodes[n].sap \in ClaimsOf(Op)
               /\ Op.op = "update_node" \/ (Op.op = "add_node" /\ n = NewId)
      <4>1. n \notin NodeIds(current) /\ working'.nodes[n].sap \in {BlankSap, SeedSap(retrieved)}
        BY <2>1, <3>2 DEF Quiet
      <4> QED BY <4>1, QuietIsSupported
    <3> QED BY <1>1, <3>1, <3>2, SapOfOperation
  <2> QED BY <2>1, <2>2 DEF SapsAreQuiet, NodeIds
<1>2. CASE RefuseOperation \/ FailOperation
  BY <1>2 DEF RefuseOperation, FailOperation, SapsAreQuiet
<1>3. CASE Validate
  <2>1. working' = working /\ current' = current
    BY <1>3, NothingIsCut DEF Validate, CoreInv
  <2> QED BY <2>1 DEF SapsAreQuiet
<1> QED BY <1>1, <1>2, <1>3 DEF WorkOnPatch, ApplyPatch

LEMMA LocalAfterStep ==
    ASSUME CoreInv, RequestTypeOK, AttemptsInv, LocalInv, current \in InitialGraph,
           [Next]_vars, SoundIsNotRefused'
    PROVE  LocalInv'
<1>0. current' = current /\ external' = external
  BY StepsOfTheRequest
\* Nothing is seen of the step but the stage, the error and what is retrieved.
<1>k. SapsAreQuiet /\ UNCHANGED patchVars => SapsAreQuiet'
  BY DEF patchVars, SapsAreQuiet
<1>p. ~external /\ outcome # "waiting" =>
         /\ patch \in Seq(Quiet(retrieved)) /\ Sound(patch, current)
         /\ \A i \in DOMAIN patch : patch[i] \in Quiet(retrieved)
  BY RulesMakePatches, RulesAreSound DEF LocalInv
<1>1. CASE ClassifyIntent
  BY <1>0, <1>1, <1>k DEF ClassifyIntent, Proceed, callVars, LocalInv, patchVars
<1>2. CASE RetrieveKnowledge
  <2>1. outcome = "waiting" /\ outcome' = "waiting" /\ stage' = "provider" /\ UNCHANGED patchVars
    BY <1>2 DEF RetrieveKnowledge, Proceed, LocalInv, patchVars
  <2> QED BY <1>0, <2>1, <1>k DEF LocalInv
<1>3. CASE LocalAnswer
  <2>1. PICK p \in LocalPatches(current, retrieved) : AnswerWith(p)
    BY <1>3 DEF LocalAnswer
  <2>2. /\ patch' = p /\ outcome' = "applying" /\ stage' \in {"patch", "evidence"}
        /\ UNCHANGED <<working, retrieved>>
    BY <2>1 DEF AnswerWith, Receive, KeepRequest, AfterAnswer
  <2>3. SapsAreQuiet => SapsAreQuiet'
    BY <1>0, <2>2 DEF SapsAreQuiet
  <2> QED BY <1>0, <2>2, <2>3 DEF LocalInv
<1>4. CASE ExternalAnswer
  BY <1>0, <1>4 DEF ExternalAnswer, AnswerWith, Receive, AfterAnswer, LocalInv
<1>5. CASE LocalFailure \/ AttemptIsRefused \/ TotalTimeout
  <2>1. /\ stage \in {"provider", "backoff"} /\ stage' = "failed" /\ error' # None
        /\ UNCHANGED patchVars /\ outcome' = outcome
    <3>1. PICK code \in Transient \cup Permanent \cup {Unhandled, LocalError} :
             stage \in {"provider", "backoff"} /\ Fail(code)
      BY <1>5 DEF LocalFailure, AttemptIsRefused, TotalTimeout, Transient
    <3> QED BY <3>1, ErrorAssumption DEF Fail, patchVars
  <2> QED BY <1>0, <2>1, <1>k DEF LocalInv
<1>6. CASE AttemptFails \/ Retry
  BY <1>0, <1>6, <1>k DEF AttemptFails, Retry, Fail, Proceed, LocalInv, patchVars, KeepRequest
<1>7. CASE ValidateEvidence
  <2>1. UNCHANGED patchVars /\ UNCHANGED <<retrieved, error>> /\ stage = "evidence"
        /\ (stage' = "patch" \/ (stage' = "failed" /\ ~PatchIsSupported))
        /\ outcome' = outcome /\ patch' = patch
    BY <1>7 DEF ValidateEvidence, Proceed, patchVars, callVars
  <2>2. ~external => PatchIsSupported
    <3> SUFFICES ASSUME ~external, NEW i \in DOMAIN patch, NEW sap \in ClaimsOf(patch[i])
                 PROVE  SapIsSupported(sap, current, retrieved)
      BY DEF PatchIsSupported
    <3>1. sap \in {BlankSap, SeedSap(retrieved)}
      BY <1>p, <2>1 DEF LocalInv, Quiet
    <3> QED BY <3>1, QuietIsSupported
  <2> QED BY <1>0, <1>k, <2>1, <2>2 DEF LocalInv
<1>8. CASE WorkOnPatch
  <2>1. /\ stage = "patch" /\ UNCHANGED <<retrieved, error, patch>>
        /\ outcome' \in {"applying", "applied", "refused", "invalid", "unhandled"}
        /\ stage' \in {"done", "gaps", "failed", "patch"}
        /\ stage' = "failed" => outcome' \in {"refused", "invalid", "unhandled"}
    <3>1. /\ stage = "patch" /\ UNCHANGED <<retrieved, error, patch>>
          /\ outcome' \in {"applying", "applied", "refused", "invalid", "unhandled"}
      BY <1>8 DEF WorkOnPatch, ApplyPatch, ApplyOperation, RefuseOperation, FailOperation, Validate,
                  KeepRequest, callVars, Applying
    <3> QED BY <1>8, <3>1 DEF WorkOnPatch
  <2>2. ~external => outcome' \notin {"refused", "unhandled"}
    <3>1. ~external => patch \in LocalPatches(current, retrieved)
      BY <2>1 DEF LocalInv
    <3> PICK p, g : p = patch /\ g = current
      OBVIOUS
    <3>2. p = patch' /\ g = current'
      BY <1>0, <2>1
    <3>3. ~external => Sound(p, g)
      BY <1>p, <2>1 DEF LocalInv
    <3>4. Sound(p, g) => outcome' \notin {"refused", "unhandled"}
      BY <3>2 DEF SoundIsNotRefused
    <3> QED BY <3>3, <3>4
  <2>3. ~external => SapsAreQuiet'
    BY <1>8, <1>p, <2>1, QuietAfterStep DEF LocalInv
  <2> QED BY <1>0, <2>1, <2>2, <2>3 DEF LocalInv
<1>9. CASE ValidateGaps
  <2>1. UNCHANGED patchVars /\ UNCHANGED <<retrieved, error>> /\ stage = "gaps"
        /\ (stage' = "done" \/ (stage' = "failed" /\ ~GapsAreUndecided))
        /\ outcome' = outcome /\ patch' = patch
    BY <1>9 DEF ValidateGaps, Proceed, patchVars, callVars
  <2>2. SapsAreQuiet => GapsAreUndecided
    BY DEF SapsAreQuiet, GapsAreUndecided, GapBefore, GapMayBecome
  <2> QED BY <1>0, <1>k, <2>1, <2>2 DEF LocalInv
<1>10. CASE UNCHANGED vars
  BY <1>10, <1>k DEF vars, patchVars, requestVars, callVars, LocalInv
<1> QED BY <1>1, <1>2, <1>3, <1>4, <1>5, <1>6, <1>7, <1>8, <1>9, <1>10 DEF Next

THEOREM LocalCore == Spec => []LocalInv
<1>1. Init => LocalInv
  BY LocalAtFirst
<1>2. CoreInv /\ RequestTypeOK /\ AttemptsInv /\ CurrentIsGiven /\ LocalInv /\ [Next]_vars
         /\ SoundIsNotRefused' => LocalInv'
  BY LocalAfterStep DEF CurrentIsGiven
<1>3. Spec => []SoundIsNotRefused
  BY RequestsApplyPatches, SoundPatchesApply, PTL DEF SoundIsNotRefused
<1> QED BY <1>1, <1>2, <1>3, RequestsApplyPatches, PatchCore, RequestsCore, PTL DEF Spec

\* A patch of the local rules applies: it is sound for the graph it was made for,
\* it claims no more than what was retrieved and it decides no gap, so only a
\* limit of the document is left to refuse it.
THEOREM LocalRulesApply == Spec => []LocalPatchesApply
<1>1. LocalInv /\ WorkingIsValid => LocalPatchesApply
  BY DEF LocalInv, WorkingIsValid, LocalPatchesApply
<1> QED BY <1>1, LocalCore, ResultsAreValid, PTL

-----------------------------------------------------------------------------
(* What the rules insert keeps the ways between the nodes of a graph.      *)

\* If edges between old nodes are old ones, what is new leads on only where an
\* edge from what leads to it did, and an old edge is still there or leads past
\* something new, then what a node leads to among the old ones is what it did.
LEMMA ReachIsKept ==
    ASSUME NEW g, NEW h, NodeIds(g) \subseteq NodeIds(h),
           \A s : Targets(g, s) \subseteq NodeIds(g) /\ Targets(h, s) \subseteq NodeIds(h),
           \A s \in NodeIds(g) : Targets(h, s) \cap NodeIds(g) \subseteq Targets(g, s),
           \A s \in NodeIds(g) : \A m \in Targets(h, s) \ NodeIds(g) :
              Targets(h, m) \subseteq Targets(g, s),
           \A s \in NodeIds(g) : \A x \in Targets(g, s) :
              x \in Targets(h, s) \/ \E m \in Targets(h, s) : x \in Targets(h, m),
           NEW n \in NodeIds(g)
    PROVE  Reach(h, {n}) \cap NodeIds(g) = Reach(g, {n})
<1>1. ASSUME NEW x \in Reach(h, {n}), x \in NodeIds(g) PROVE x \in Reach(g, {n})
  <2> SUFFICES ASSUME NEW C \in SUBSET NodeIds(g), n \in C, Closed(g, C) PROVE x \in C
    BY <1>1 DEF Reach
  <2> DEFINE D == C \cup {m \in NodeIds(h) \ NodeIds(g) : Targets(h, m) \subseteq C}
  <2>1. ASSUME NEW s \in D, NEW t \in Targets(h, s) PROVE t \in D
    <3>1. CASE s \in C
      <4>1. s \in NodeIds(g) /\ Targets(g, s) \subseteq C
        BY <3>1 DEF Closed
      <4>2. t \in NodeIds(h)
        BY <2>1
      <4>3. CASE t \in NodeIds(g)
        BY <2>1, <4>1, <4>3
      <4>4. CASE t \notin NodeIds(g)
        <5>1. Targets(h, t) \subseteq Targets(g, s)
          BY <2>1, <4>1, <4>4
        <5> QED BY <4>1, <4>2, <4>4, <5>1
      <4> QED BY <4>3, <4>4
    <3>2. CASE s \notin C
      BY <2>1, <3>2
    <3> QED BY <3>1, <3>2
  <2>2. Closed(h, D) /\ D \in SUBSET NodeIds(h) /\ {n} \subseteq D
    BY <2>1 DEF Closed
  <2>3. x \in D
    BY <1>1, <2>2 DEF Reach
  <2> QED BY <1>1, <2>3
<1>2. ASSUME NEW x \in Reach(g, {n}) PROVE x \in Reach(h, {n}) /\ x \in NodeIds(g)
  <2>0. x \in NodeIds(g)
    BY <1>2 DEF Reach
  <2> SUFFICES ASSUME NEW D \in SUBSET NodeIds(h), n \in D, Closed(h, D) PROVE x \in D
    BY <2>0 DEF Reach
  <2> DEFINE C == D \cap NodeIds(g)
  <2>1. ASSUME NEW s \in C, NEW t \in Targets(g, s) PROVE t \in C
    <3>1. t \in Targets(h, s) \/ \E m \in Targets(h, s) : t \in Targets(h, m)
      BY <2>1
    <3>2. Targets(h, s) \subseteq D /\ \A m \in Targets(h, s) : Targets(h, m) \subseteq D
      BY <2>1 DEF Closed
    <3> QED BY <2>1, <3>1, <3>2
  <2>2. Closed(g, C) /\ C \in SUBSET NodeIds(g) /\ {n} \subseteq C
    BY <2>1 DEF Closed
  <2>3. x \in C
    BY <1>2, <2>2 DEF Reach
  <2> QED BY <2>3
<1> QED BY <1>1, <1>2

\* References name nothing of the current graph, and other names are ids.
LEMMA NamesAreIds ==
    ASSUME CoreInv, NEW v \in Target, NEW things, Known(v, things)
    PROVE  /\ v \in Ref => Resolve(v) \notin NodeIds(current)
           /\ v \notin Ref => Resolve(v) = v
<1>1. NodeIds(current) \subseteq GivenId
  BY GivenBefore
<1>2. \A r \in DOMAIN refs : refs[r] \notin GivenId
  BY PatcherAssumption DEF GivenId, CoreInv, Core, RefsAreDrawn
<1> QED BY <1>1, <1>2 DEF Known, Resolve

\* The names that an edge a patch adds has, once it is applied.
LEMMA NamesOfEdges ==
    ASSUME CoreInv, NamedInv, Builds(patch, current), Built,
           NEW i \in 1..applied, patch[i].op = "add_edge"
    PROVE  /\ i \in DOMAIN patch
           /\ patch[i].source \in Target /\ patch[i].target \in Target
           /\ Known(patch[i].source, working.nodes) /\ Known(patch[i].target, working.nodes)
           /\ patch[i].source \in Ref \/ patch[i].target \in Ref
<1>1. i \in DOMAIN patch /\ patch[i] \in Operation /\ i \in 1..(applied + 1)
  BY AppliedAreOperations
<1>2. /\ NodeBefore(patch, current, patch[i].source, i)
      /\ NodeBefore(patch, current, patch[i].target, i)
      /\ patch[i].source \in Ref \/ patch[i].target \in Ref
  BY <1>1 DEF Builds
<1>3. Known(patch[i].source, working.nodes) /\ Known(patch[i].target, working.nodes)
  BY <1>1, <1>2, BeforeIsKnown DEF Built
<1> QED BY <1>1, <1>2, <1>3, OperationFields

\* An edge of the result is one of the current graph, as it was, or made by the
\* patch.
LEMMA EdgesOfResults ==
    ASSUME CoreInv, NamedInv, Builds(patch, current), Built, NEW e \in EdgeIds(working)
    PROVE  \/ e \in EdgeIds(current) /\ working.edges[e] = current.edges[e]
           \/ \E i \in 1..applied : MadeBy(e, i)
BY CurrentIsThere DEF Built, NewEdgesAreMade

\* Between old nodes there are only old edges.
LEMMA OldTargets ==
    ASSUME CoreInv, NamedInv, Builds(patch, current), Built,
           NEW s \in NodeIds(current), NEW x \in Targets(working, s), x \in NodeIds(current)
    PROVE  x \in Targets(current, s)
<1>1. PICK e \in EdgeIds(working) : working.edges[e].source = s /\ working.edges[e].target = x
  BY DEF Targets, Outgoing
<1>2. ASSUME NEW i \in 1..applied, MadeBy(e, i) PROVE FALSE
  <2>1. Resolve(patch[i].source) = s /\ Resolve(patch[i].target) = x /\ patch[i].op = "add_edge"
    BY <1>1, <1>2 DEF MadeBy, NewEdge
  <2>2. /\ patch[i].source \in Target /\ patch[i].target \in Target
        /\ Known(patch[i].source, working.nodes) /\ Known(patch[i].target, working.nodes)
        /\ patch[i].source \in Ref \/ patch[i].target \in Ref
    BY <2>1, NamesOfEdges
  <2> QED BY <2>1, <2>2, NamesAreIds
<1>3. e \in EdgeIds(current) /\ working.edges[e] = current.edges[e]
  BY <1>2, EdgesOfResults
<1> QED BY <1>1, <1>3 DEF Targets, Outgoing

\* An edge that has an end among what is new was made by the patch.
LEMMA NewEnds ==
    ASSUME CoreInv, NamedInv, Builds(patch, current), Built, current \in InitialGraph,
           NEW e \in EdgeIds(working),
           working.edges[e].source \notin NodeIds(current)
             \/ working.edges[e].target \notin NodeIds(current)
    PROVE  \E i \in 1..applied : MadeBy(e, i)
<1>1. \A f \in EdgeIds(current) : /\ current.edges[f].source \in NodeIds(current)
                                  /\ current.edges[f].target \in NodeIds(current)
  BY GivenIds
<1> QED BY <1>1, EdgesOfResults

\* What is new leads on only where an edge from what leads to it did.
LEMMA NewTargets ==
    ASSUME CoreInv, NamedInv, Builds(patch, current), Built, current \in InitialGraph,
           KeepsWays(patch, current),
           NEW s \in NodeIds(current), NEW m \in Targets(working, s), m \notin NodeIds(current),
           NEW x \in Targets(working, m)
    PROVE  x \in Targets(current, s)
<1>1. PICK e \in EdgeIds(working) : working.edges[e].source = s /\ working.edges[e].target = m
  BY DEF Targets, Outgoing
<1>2. PICK f \in EdgeIds(working) : working.edges[f].source = m /\ working.edges[f].target = x
  BY DEF Targets, Outgoing
<1>3. PICK i \in 1..applied : MadeBy(e, i)
  BY <1>1, NewEnds
<1>4. PICK j \in 1..applied : MadeBy(f, j)
  BY <1>2, NewEnds
<1>5. /\ Resolve(patch[i].source) = s /\ Resolve(patch[i].target) = m /\ patch[i].op = "add_edge"
      /\ Resolve(patch[j].source) = m /\ Resolve(patch[j].target) = x /\ patch[j].op = "add_edge"
  BY <1>1, <1>2, <1>3, <1>4 DEF MadeBy, NewEdge
<1>6. /\ i \in DOMAIN patch /\ j \in DOMAIN patch
      /\ patch[i].source \in Target /\ patch[i].target \in Target
      /\ patch[j].source \in Target /\ patch[j].target \in Target
      /\ Known(patch[i].source, working.nodes) /\ Known(patch[i].target, working.nodes)
      /\ Known(patch[j].source, working.nodes) /\ Known(patch[j].target, working.nodes)
  BY <1>5, NamesOfEdges
<1>7. patch[j].source = patch[i].target
  BY <1>5, <1>6, KnownAreDistinct
<1>8. patch[i].source = s
  BY <1>5, <1>6, NamesAreIds
<1>9. patch[j].target \in Targets(current, s)
  BY <1>5, <1>6, <1>7, <1>8 DEF KeepsWays
<1>10. patch[j].target \in NodeIds(current) /\ NodeIds(current) \cap Ref = {}
  BY <1>9, GivenIds DEF Targets, Outgoing
<1>11. Resolve(patch[j].target) = patch[j].target
  BY <1>6, <1>10, NamesAreIds
<1> QED BY <1>5, <1>9, <1>11

\* An old edge is still there, or leads past something new.
LEMMA TargetsStay ==
    ASSUME CoreInv, NamedInv, Builds(patch, current), Built, current \in InitialGraph,
           KeepsWays(patch, current), applied = Len(patch),
           NEW s \in NodeIds(current), NEW x \in Targets(current, s)
    PROVE  x \in Targets(working, s) \/ \E m \in Targets(working, s) : x \in Targets(working, m)
<1>1. PICK e \in EdgeIds(current) : current.edges[e].source = s /\ current.edges[e].target = x
  BY DEF Targets, Outgoing
<1>2. CASE e \in EdgeIds(working)
  <2>1. working.edges[e] = current.edges[e]
    BY <1>2, CurrentIsThere
  <2> QED BY <1>1, <1>2, <2>1 DEF Targets, Outgoing
<1>3. CASE e \notin EdgeIds(working)
  <2>1. e \in Named({"remove_edge"})
    BY <1>3, CurrentIsThere
  <2>2. PICK r \in 1..applied : patch[r].op = "remove_edge" /\ patch[r].id = e
    BY <2>1 DEF Named
  <2>3. r \in DOMAIN patch
    BY AppliedAreOperations
  <2>4. PICK j, k \in DOMAIN patch :
           /\ patch[j].op = "add_edge" /\ patch[j].source = s /\ patch[j].target \in Ref
           /\ patch[k].op = "add_edge" /\ patch[k].source = patch[j].target /\ patch[k].target = x
    BY <1>1, <2>2, <2>3 DEF KeepsWays
  <2>5. j \in 1..applied /\ k \in 1..applied
    BY DEF CoreInv, Core, PatchTypeOK
  <2>6. /\ patch[j].source \in Target /\ patch[k].target \in Target
        /\ Known(patch[j].source, working.nodes) /\ Known(patch[k].target, working.nodes)
    BY <2>4, <2>5, NamesOfEdges
  <2>7. s \notin Ref /\ x \notin Ref
    BY <1>1, GivenIds
  <2>8. Resolve(patch[j].source) = s /\ Resolve(patch[k].target) = x
    BY <2>4, <2>6, <2>7, NamesAreIds
  <2>9. PICK ej \in EdgeIds(working) : working.edges[ej] = NewEdge(patch[j])
    BY <2>4, <2>5 DEF Built, MadeEdgesAreThere, MadeBy
  <2>10. PICK ek \in EdgeIds(working) : working.edges[ek] = NewEdge(patch[k])
    BY <2>4, <2>5 DEF Built, MadeEdgesAreThere, MadeBy
  <2>11. PICK m : m = Resolve(patch[j].target)
    OBVIOUS
  <2>12. m \in Targets(working, s)
    BY <2>8, <2>9, <2>11 DEF Targets, Outgoing, NewEdge
  <2>13. x \in Targets(working, m)
    BY <2>4, <2>8, <2>10, <2>11 DEF Targets, Outgoing, NewEdge
  <2> QED BY <2>12, <2>13
<1> QED BY <1>2, <1>3

\* A patch that keeps the ways has kept them when it is applied.
LEMMA WaysAreKept ==
    ASSUME CoreInv, NamedInv, ApplyInv, current \in InitialGraph, applied = Len(patch),
           Builds(patch, current), KeepsWays(patch, current),
           NEW n \in NodeIds(current)
    PROVE  Reach(working, {n}) \cap NodeIds(current) = Reach(current, {n})
<1> PICK g, h : g = current /\ h = working
  OBVIOUS
<1>0. Built
  BY DEF ApplyInv
<1>1. NodeIds(g) \subseteq NodeIds(h)
  BY CurrentIsThere
<1>2. \A s : Targets(g, s) \subseteq NodeIds(g) /\ Targets(h, s) \subseteq NodeIds(h)
  <2>1. \A e \in EdgeIds(g) : g.edges[e].target \in NodeIds(g)
    BY GivenIds
  <2>2. \A e \in EdgeIds(h) : h.edges[e].target \in NodeIds(h)
    BY DEF CoreInv, Core, Whole, ValidGraph, EndsAreKnown
  <2> QED BY <2>1, <2>2 DEF Targets, Outgoing
<1>3. \A s \in NodeIds(g) : Targets(h, s) \cap NodeIds(g) \subseteq Targets(g, s)
  BY <1>0, OldTargets
<1>4. \A s \in NodeIds(g) : \A m \in Targets(h, s) \ NodeIds(g) : Targets(h, m) \subseteq Targets(g, s)
  BY <1>0, NewTargets
<1>5. \A s \in NodeIds(g) : \A x \in Targets(g, s) :
         x \in Targets(h, s) \/ \E m \in Targets(h, s) : x \in Targets(h, m)
  BY <1>0, TargetsStay
<1>6. Reach(h, {n}) \cap NodeIds(g) = Reach(g, {n})
  BY <1>1, <1>2, <1>3, <1>4, <1>5, ReachIsKept
<1> QED BY <1>6

\* Between the nodes there were one can still get wherever one could, and nowhere
\* else, when the rules have put a step between them: all incoming edges pass it,
\* or the preferred one that goes out.
THEOREM InsertionsKeepPaths == Spec => []InsertKeepsPaths
<1>1. CoreInv /\ NamedInv /\ ApplyInv /\ CurrentIsGiven /\ LocalInv
         /\ (outcome = "applied" => applied = Len(patch)) => InsertKeepsPaths
  <2> SUFFICES ASSUME CoreInv, NamedInv, ApplyInv, CurrentIsGiven, LocalInv,
                      outcome = "applied", applied = Len(patch),
                      ~external, Head(patch).op = "add_node", NEW n \in NodeIds(current)
               PROVE  Reach(working, {n}) \cap NodeIds(current) = Reach(current, {n})
    BY DEF InsertKeepsPaths
  <2>1. patch \in LocalPatches(current, retrieved) /\ current \in InitialGraph
    BY DEF LocalInv, CurrentIsGiven
  <2>2. patch[1].op = "add_node"
    BY DEF CoreInv, Core, PatchTypeOK
  <2>3. Builds(patch, current) /\ KeepsWays(patch, current)
    BY <2>1, <2>2, RulesAreSound
  <2> QED BY <2>1, <2>3, WaysAreKept
<1>2. PatchInit => NamedInv /\ ApplyInv
  BY NamedAtFirst, ApplyAtFirst
<1>3. CoreInv /\ NamedInv /\ [PatchNext]_patchVars => NamedInv'
  BY NamedAfterStep
<1>4. CoreInv /\ NamedInv /\ ApplyInv /\ [PatchNext]_patchVars => ApplyInv'
  BY ApplyAfterStep
<1>5. PatchSpec => [](CoreInv /\ NamedInv /\ ApplyInv)
  BY <1>2, <1>3, <1>4, PatchCore, PTL DEF PatchSpec
<1> QED BY <1>1, <1>5, AppliedAsAWhole, RequestsApplyPatches, RequestsCore, LocalCore, PTL

-----------------------------------------------------------------------------
(* What the searches for warnings find.                                    *)

\* Induction, with a set for the property.
LEMMA SetInduction ==
    ASSUME NEW S, 0 \in S, \A n \in Nat : n \in S => n + 1 \in S
    PROVE  \A n \in Nat : n \in S
<1> DEFINE T == {n \in Nat : n \notin S}
<1>1. ASSUME T # {} PROVE FALSE
  <2>1. PICK m \in T : \A k \in T : m <= k
    BY <1>1, LeastExists
  <2>2. m # 0 /\ m \in Nat
    BY <2>1
  <2>3. m - 1 \in Nat /\ m - 1 \notin T /\ (m - 1) + 1 = m
    BY <2>1, <2>2
  <2> QED BY <2>1, <2>3
<1> QED BY <1>1

\* The elements of a finite set, in some order.
LEMMA SetsInOrder ==
    ASSUME NEW S, IsFiniteSet(S)
    PROVE  /\ SetToSeq(S) \in Seq(S)
           /\ Len(SetToSeq(S)) = Cardinality(S)
           /\ \A x \in S : \E i \in 1..Len(SetToSeq(S)) : SetToSeq(S)[i] = x
<1>1. Cardinality(S) \in Nat /\ \E f \in [1..Cardinality(S) -> S] : IsInjective(f)
  <2>1. Cardinality(S) \in Nat /\ ExistsBijection(1..Cardinality(S), S)
    BY FS_CardinalityType
  <2> QED BY <2>1 DEF ExistsBijection, Bijection, Injection
<1> PICK n \in Nat : n = Cardinality(S)
  BY <1>1
<1> PICK f : f = SetToSeq(S)
  OBVIOUS
<1>2. f \in [1..n -> S] /\ IsInjective(f)
  BY <1>1 DEF SetToSeq
<1>3. f \in Surjection(1..n, S)
  <2>1. f \in Injection(1..n, S)
    BY <1>2 DEF Injection
  <2>2. IsFiniteSet(1..n) /\ Cardinality(1..n) = n
    BY FS_Interval
  <2> QED BY <2>1, <2>2, FS_Injection
<1>4. f \in Seq(S) /\ Len(f) = n
  BY <1>2
<1>5. \A x \in S : \E i \in 1..n : f[i] = x
  BY <1>3 DEF Surjection
<1> QED BY <1>4, <1>5

\* The nodes of a graph can be counted and edges lead to them.
Finite(g) == IsFiniteSet(NodeIds(g)) /\ \A n : Targets(g, n) \subseteq NodeIds(g)

Queued(s) == {s.queue[i] : i \in 1..Len(s.queue)}

\* How many turns are left at most.
Size(g, s) == Cardinality(NodeIds(g) \ s.reachable) + Len(s.queue)

LEMMA TurnOfSearch ==
    ASSUME NEW g, Finite(g), NEW s \in SearchState(g), s.queue # <<>>
    PROVE  LET t == Turn(g, s)
               found == Targets(g, Head(s.queue)) \ s.reachable
           IN  /\ t \in SearchState(g)
               /\ t.reachable = s.reachable \cup found
               /\ Head(s.queue) \in Queued(s)
               /\ Queued(t) \subseteq Queued(s) \cup found
               /\ found \subseteq Queued(t)
               /\ Queued(s) \subseteq Queued(t) \cup {Head(s.queue)}
               /\ Size(g, t) < Size(g, s)
<1> DEFINE t == Turn(g, s)
           found == Targets(g, Head(s.queue)) \ s.reachable
           N == NodeIds(g)
<1> PICK q : q = s.queue
  OBVIOUS
<1> PICK r : r = SetToSeq(found)
  OBVIOUS
<1>1. /\ q \in Seq(N) /\ q # <<>> /\ s.reachable \subseteq N /\ found \subseteq N
      /\ IsFiniteSet(found)
  <2>1. found \subseteq N /\ q \in Seq(N) /\ s.reachable \subseteq N
    BY DEF SearchState, Finite
  <2> QED BY <2>1, FS_Subset DEF Finite
<1>2. t.reachable = s.reachable \cup found /\ t.queue = Tail(q) \o r
      /\ t = [reachable |-> s.reachable \cup found, queue |-> Tail(q) \o r]
  BY DEF Turn, Unseen
<1>3. /\ r \in Seq(found) /\ Len(r) = Cardinality(found)
      /\ \A x \in found : \E i \in 1..Len(r) : r[i] = x
  BY <1>1, SetsInOrder
<1>4. Cardinality(N \ t.reachable) = Cardinality(N \ s.reachable) - Cardinality(found)
      /\ Cardinality(N \ s.reachable) \in Nat /\ Cardinality(found) \in Nat
  <2>1. IsFiniteSet(N \ s.reachable) /\ (N \ s.reachable) \cap found = found
    BY <1>1, FS_Difference DEF Finite
  <2>2. N \ t.reachable = (N \ s.reachable) \ found
    BY <1>2
  <2>3. Cardinality((N \ s.reachable) \ found)
           = Cardinality(N \ s.reachable) - Cardinality((N \ s.reachable) \cap found)
    BY <2>1, FS_Difference
  <2>4. Cardinality(N \ s.reachable) \in Nat /\ Cardinality(found) \in Nat
    BY <1>1, <2>1, FS_CardinalityType
  <2> QED BY <2>1, <2>2, <2>3, <2>4
<1> HIDE DEF found, t, N
<1>5. PICK a : a = Tail(q)
  OBVIOUS
<1>6. /\ a \in Seq(N) /\ Len(q) = Len(a) + 1 /\ Len(a) \in Nat /\ q[1] = Head(q)
      /\ \A i \in 1..Len(a) : a[i] = q[i + 1]
  BY <1>1, <1>5
<1>7. r \in Seq(N) /\ Len(r) \in Nat
  BY <1>1, <1>3
<1>8. PICK b : b = t.queue
  OBVIOUS
<1>9. /\ b \in Seq(N) /\ Len(b) = Len(a) + Len(r)
      /\ \A i \in 1..Len(b) : b[i] = IF i <= Len(a) THEN a[i] ELSE r[i - Len(a)]
  BY <1>2, <1>5, <1>6, <1>7, <1>8
<1>10. t \in SearchState(g)
  BY <1>1, <1>2, <1>8, <1>9 DEF SearchState, N
<1>11. Head(q) \in Queued(s)
  <2>1. 1 \in 1..Len(q)
    BY <1>6
  <2> QED BY <1>6, <2>1 DEF Queued
<1>12. ASSUME NEW i \in 1..Len(b) PROVE b[i] \in Queued(s) \cup found
  <2>1. CASE i <= Len(a)
    <3>1. b[i] = q[i + 1] /\ i + 1 \in 1..Len(q)
      BY <1>6, <1>9, <2>1
    <3> QED BY <3>1 DEF Queued
  <2>2. CASE ~(i <= Len(a))
    <3>1. b[i] = r[i - Len(a)] /\ i - Len(a) \in 1..Len(r)
      BY <1>6, <1>7, <1>9, <2>2
    <3> QED BY <1>3, <3>1
  <2> QED BY <2>1, <2>2
<1>13. ASSUME NEW x \in found PROVE x \in Queued(t)
  <2>1. PICK i \in 1..Len(r) : r[i] = x
    BY <1>3
  <2>2. PICK j : j = i + Len(a)
    OBVIOUS
  <2>3. j \in 1..Len(b) /\ ~(j <= Len(a)) /\ j - Len(a) = i
    BY <1>6, <1>7, <1>9, <2>2
  <2>4. b[j] = x
    BY <1>9, <2>1, <2>3
  <2> QED BY <1>8, <2>3, <2>4 DEF Queued
<1>14. ASSUME NEW i \in 1..Len(q) PROVE q[i] \in Queued(t) \cup {Head(q)}
  <2>1. CASE i = 1
    BY <1>6, <2>1
  <2>2. CASE i # 1
    <3>1. PICK j : j = i - 1
      OBVIOUS
    <3>2. j \in 1..Len(a) /\ j \in 1..Len(b) /\ j <= Len(a) /\ j + 1 = i
      BY <1>6, <1>7, <1>9, <2>2, <3>1
    <3>3. b[j] = q[i]
      BY <1>6, <1>9, <3>2
    <3> QED BY <1>8, <3>2, <3>3 DEF Queued
  <2> QED BY <2>1, <2>2
<1>15. Size(g, t) < Size(g, s)
  <2>1. PICK c : c = Cardinality(N \ s.reachable)
    OBVIOUS
  <2>2. Size(g, s) = c + Len(q) /\ Size(g, t) = (c - Cardinality(found)) + Len(b)
    BY <1>4, <1>8, <2>1 DEF Size, N
  <2> QED BY <1>3, <1>4, <1>6, <1>9, <2>1, <2>2
<1>16. Queued(t) \subseteq Queued(s) \cup found /\ Queued(s) \subseteq Queued(t) \cup {Head(q)}
  <2>1. Queued(t) \subseteq Queued(s) \cup found
    BY <1>8, <1>12 DEF Queued
  <2>2. Queued(s) \subseteq Queued(t) \cup {Head(q)}
    BY <1>14 DEF Queued
  <2> QED BY <2>1, <2>2
<1> QED BY <1>2, <1>10, <1>11, <1>13, <1>15, <1>16 DEF found, t

\* A set that has what the search has found, and whatever it is to lead to.
Admits(g, s, C) ==
    /\ s.reachable \subseteq C
    /\ \A n \in Queued(s) : Targets(g, n) \subseteq C
    /\ \A n \in C \ s.reachable : Targets(g, n) \subseteq C

Finds(g, s) == {x \in NodeIds(g) : \A C \in SUBSET NodeIds(g) : Admits(g, s, C) => x \in C}

\* A turn changes nothing about what the search is going to find.
LEMMA TurnsFindTheSame ==
    ASSUME NEW g, Finite(g), NEW s \in SearchState(g)
    PROVE  /\ s.queue = <<>> => Finds(g, s) = s.reachable
           /\ s.queue # <<>> => Finds(g, Turn(g, s)) = Finds(g, s)
<1>1. CASE s.queue = <<>>
  <2>1. Queued(s) = {} /\ s.reachable \in SUBSET NodeIds(g)
    BY <1>1 DEF Queued, SearchState
  <2>2. Admits(g, s, s.reachable)
    BY <2>1 DEF Admits
  <2>3. \A C : Admits(g, s, C) => s.reachable \subseteq C
    BY DEF Admits
  <2> QED BY <1>1, <2>1, <2>2, <2>3 DEF Finds
<1>2. CASE s.queue # <<>>
  <2> PICK t : t = Turn(g, s)
    OBVIOUS
  <2> PICK h, found : h = Head(s.queue) /\ found = Targets(g, h) \ s.reachable
    OBVIOUS
  <2>1. /\ t.reachable = s.reachable \cup found /\ h \in Queued(s)
        /\ Queued(t) \subseteq Queued(s) \cup found /\ found \subseteq Queued(t)
        /\ Queued(s) \subseteq Queued(t) \cup {h}
    BY <1>2, TurnOfSearch
  <2>2. ASSUME NEW C, Admits(g, s, C) PROVE Admits(g, t, C)
    <3>1. t.reachable \subseteq C
      BY <2>1, <2>2 DEF Admits
    <3>2. ASSUME NEW n \in Queued(t) PROVE Targets(g, n) \subseteq C
      BY <2>1, <2>2, <3>1 DEF Admits
    <3>3. \A n \in C \ t.reachable : Targets(g, n) \subseteq C
      BY <2>1, <2>2 DEF Admits
    <3> QED BY <3>1, <3>2, <3>3 DEF Admits
  <2>3. ASSUME NEW C, Admits(g, t, C) PROVE Admits(g, s, C)
    <3>1. s.reachable \subseteq C /\ Targets(g, h) \subseteq C
      BY <2>1, <2>3 DEF Admits
    <3>2. ASSUME NEW n \in Queued(s) PROVE Targets(g, n) \subseteq C
      BY <2>1, <2>3, <3>1 DEF Admits
    <3>3. ASSUME NEW n \in C \ s.reachable PROVE Targets(g, n) \subseteq C
      BY <2>1, <2>3, <3>3 DEF Admits
    <3> QED BY <3>1, <3>2, <3>3 DEF Admits
  <2> QED BY <1>2, <2>2, <2>3 DEF Finds
<1> QED BY <1>1, <1>2

\* The breadth-first search finds what can be reached from the start nodes.
LEMMA SearchFinds ==
    ASSUME NEW g, Finite(g)
    PROVE  Search(g) = Reach(g, Starts(g))
<1> DEFINE Rec(f) == [s \in SearchState(g) |->
                        IF s.queue = <<>> THEN s.reachable ELSE f[Turn(g, s)]]
           from == CHOOSE f : f = Rec(f)
           first == [reachable |-> Starts(g), queue |-> SetToSeq(Starts(g))]
<1>1. \E f : f = Rec(f)
  <2> DEFINE F == [s \in SearchState(g) |-> Finds(g, s)]
  <2>1. ASSUME NEW s \in SearchState(g)
        PROVE  F[s] = IF s.queue = <<>> THEN s.reachable ELSE F[Turn(g, s)]
    BY TurnsFindTheSame, TurnOfSearch
  <2>2. F = Rec(F)
    BY <2>1
  <2> QED BY <2>2
<1>2. from = Rec(from)
  <2> HIDE DEF Rec
  <2> QED BY <1>1
<1>3. Search(g) = from[first]
  BY DEF Search
<1> PICK f : f = from
  OBVIOUS
<1>4. \A s \in SearchState(g) : f[s] = IF s.queue = <<>> THEN s.reachable ELSE f[Turn(g, s)]
  <2>1. f = Rec(f)
    BY <1>2
  <2> HIDE DEF from
  <2> QED BY <2>1
<1> HIDE DEF from
<1> DEFINE S == {k \in Nat : \A s \in SearchState(g) : Size(g, s) < k => f[s] = Finds(g, s)}
<1>5. \A s \in SearchState(g) : Size(g, s) \in Nat
  <2> SUFFICES ASSUME NEW s \in SearchState(g) PROVE Size(g, s) \in Nat
    OBVIOUS
  <2>1. IsFiniteSet(NodeIds(g) \ s.reachable)
    BY FS_Difference DEF Finite
  <2>2. Cardinality(NodeIds(g) \ s.reachable) \in Nat /\ Len(s.queue) \in Nat
    BY <2>1, FS_CardinalityType DEF SearchState
  <2> QED BY <2>2 DEF Size
<1>6. 0 \in S
  BY <1>5
<1>7. ASSUME NEW k \in Nat, k \in S PROVE k + 1 \in S
  <2> SUFFICES ASSUME NEW s \in SearchState(g), Size(g, s) < k + 1 PROVE f[s] = Finds(g, s)
    OBVIOUS
  <2>1. CASE s.queue = <<>>
    BY <1>4, <2>1, TurnsFindTheSame
  <2>2. CASE s.queue # <<>>
    <3>1. Turn(g, s) \in SearchState(g) /\ Size(g, Turn(g, s)) < Size(g, s)
      BY <2>2, TurnOfSearch
    <3>2. Size(g, Turn(g, s)) < k
      BY <1>5, <3>1
    <3>3. f[Turn(g, s)] = Finds(g, Turn(g, s))
      BY <1>7, <3>1, <3>2
    <3> QED BY <1>4, <2>2, <3>3, TurnsFindTheSame
  <2> QED BY <2>1, <2>2
<1>8. \A k \in Nat : k \in S
  <2> HIDE DEF S
  <2> QED BY <1>6, <1>7, SetInduction
<1>9. IsFiniteSet(Starts(g)) /\ Starts(g) \subseteq NodeIds(g)
  <2>1. Starts(g) \in SUBSET NodeIds(g)
    BY DEF Starts
  <2> QED BY <2>1, FS_Subset DEF Finite
<1>10. /\ first \in SearchState(g) /\ first.reachable = Starts(g) /\ Queued(first) = Starts(g)
  <2>1. /\ SetToSeq(Starts(g)) \in Seq(Starts(g))
        /\ \A x \in Starts(g) : \E i \in 1..Len(SetToSeq(Starts(g))) : SetToSeq(Starts(g))[i] = x
    BY <1>9, SetsInOrder
  <2>2. Queued(first) = Starts(g)
    BY <2>1 DEF Queued
  <2>3. SetToSeq(Starts(g)) \in Seq(NodeIds(g))
    BY <1>9, <2>1
  <2> QED BY <1>9, <2>2, <2>3 DEF SearchState
<1> HIDE DEF first
<1>11. f[first] = Finds(g, first)
  <2>1. Size(g, first) + 1 \in Nat /\ Size(g, first) < Size(g, first) + 1
    BY <1>5, <1>10
  <2> QED BY <1>8, <1>10, <2>1
<1>12. \A C : Admits(g, first, C) <=> Starts(g) \subseteq C /\ Closed(g, C)
  BY <1>10 DEF Admits, Closed
<1>13. Finds(g, first) = Reach(g, Starts(g))
  BY <1>12 DEF Finds, Reach
<1> QED BY <1>3, <1>11, <1>13

\* The visits that a visit of what is to do may make.
Below(g, w, n) ==
    [todo |-> Targets(g, n), visiting |-> w.visiting \cup {n}, visited |-> w.visited]
Others(w, n, visited) == [todo |-> w.todo \ {n}, visiting |-> w.visiting, visited |-> visited]

\* They have less to do, by this measure: more is being visited or, with the same
\* path, less is to do.
Weight(g, w) ==
    Cardinality(NodeIds(g) \ w.visiting) * (Cardinality(NodeIds(g)) + 1) + Cardinality(w.todo)

LEMMA LessIsToDo ==
    ASSUME NEW g, Finite(g), NEW w \in Walk(g)
    PROVE  /\ Weight(g, w) \in Nat
           /\ \A n \in w.todo, visited \in SUBSET NodeIds(g) :
                 /\ Others(w, n, visited) \in Walk(g)
                 /\ Weight(g, Others(w, n, visited)) < Weight(g, w)
           /\ \A n \in w.todo \ w.visiting :
                 /\ Below(g, w, n) \in Walk(g)
                 /\ Weight(g, Below(g, w, n)) < Weight(g, w)
<1> DEFINE N == NodeIds(g)
<1> PICK K : K = Cardinality(N)
  OBVIOUS
<1>1. \A T \in SUBSET N : IsFiniteSet(T) /\ Cardinality(T) \in Nat /\ Cardinality(T) <= K
  BY FS_Subset, FS_CardinalityType DEF Finite
<1>2. w.todo \in SUBSET N /\ w.visiting \in SUBSET N /\ w.visited \in SUBSET N
  BY DEF Walk
<1>3. K \in Nat
  BY <1>1
<1> PICK a : a = Cardinality(N \ w.visiting)
  OBVIOUS
<1>4. a \in Nat /\ N \ w.visiting \in SUBSET N
  BY <1>1
<1>5. a * (K + 1) \in Nat
  BY <1>3, <1>4
<1>6. Weight(g, w) = a * (K + 1) + Cardinality(w.todo)
  BY DEF Weight
<1>7. Weight(g, w) \in Nat
  BY <1>1, <1>2, <1>5, <1>6
<1>8. ASSUME NEW n \in w.todo, NEW visited \in SUBSET N
      PROVE  /\ Others(w, n, visited) \in Walk(g)
             /\ Weight(g, Others(w, n, visited)) < Weight(g, w)
  <2> PICK o : o = Others(w, n, visited)
    OBVIOUS
  <2>1. o.todo = w.todo \ {n} /\ o.visiting = w.visiting /\ o \in Walk(g)
    BY <1>2 DEF Others, Walk
  <2>2. Weight(g, o) = a * (K + 1) + Cardinality(o.todo)
    BY <2>1 DEF Weight
  <2>3. Cardinality(o.todo) = Cardinality(w.todo) - 1
    BY <1>1, <1>2, <2>1, FS_RemoveElement
  <2>4. Cardinality(w.todo) \in Nat
    BY <1>1, <1>2
  <2> QED BY <1>5, <1>6, <2>1, <2>2, <2>3, <2>4
<1>9. ASSUME NEW n \in w.todo \ w.visiting
      PROVE  Below(g, w, n) \in Walk(g) /\ Weight(g, Below(g, w, n)) < Weight(g, w)
  <2> PICK o : o = Below(g, w, n)
    OBVIOUS
  <2>1. o.todo = Targets(g, n) /\ o.visiting = w.visiting \cup {n} /\ o \in Walk(g)
    BY <1>2 DEF Below, Walk, Finite
  <2>2. Weight(g, o) = Cardinality(N \ o.visiting) * (K + 1) + Cardinality(o.todo)
    BY DEF Weight
  <2>3. Cardinality(N \ o.visiting) = a - 1
    <3> PICK M : M = N \ w.visiting
      OBVIOUS
    <3>1. N \ o.visiting = M \ {n} /\ n \in M
      BY <1>2, <2>1
    <3>2. IsFiniteSet(M) /\ Cardinality(M) = a
      BY <1>1, <1>4
    <3>3. Cardinality(M \ {n}) = Cardinality(M) - 1
      BY <3>1, <3>2, FS_RemoveElement
    <3> QED BY <3>1, <3>2, <3>3
  <2>4. /\ Cardinality(o.todo) \in Nat /\ Cardinality(o.todo) <= K
        /\ Cardinality(w.todo) \in Nat
    BY <1>1, <1>2, <2>1 DEF Finite
  <2>5. (a - 1) * (K + 1) = a * (K + 1) - (K + 1)
    BY <1>3, <1>4
  <2> PICK b : b = a * (K + 1)
    OBVIOUS
  <2>6. Weight(g, o) = b - (K + 1) + Cardinality(o.todo) /\ Weight(g, w) = b + Cardinality(w.todo)
        /\ b \in Nat
    BY <1>5, <1>6, <2>2, <2>3, <2>5
  <2> QED BY <1>3, <2>1, <2>4, <2>6
<1> QED BY <1>7, <1>8, <1>9

\* The node that is next, and its visit by the cases of the code.
First(w) == CHOOSE x \in w.todo : TRUE

VisitAt(g, w, n, f) ==
    IF n \in w.visiting THEN [cycle |-> TRUE, visited |-> w.visited]
    ELSE IF n \in w.visited THEN f[Others(w, n, w.visited)]
    ELSE IF f[Below(g, w, n)].cycle THEN f[Below(g, w, n)]
    ELSE f[Others(w, n, f[Below(g, w, n)].visited \cup {n})]

LEMMA VisitOfNext ==
    ASSUME NEW g, NEW w, NEW f
    PROVE  /\ w.todo # {} => First(w) \in w.todo
           /\ VisitNext(g, w, f) = VisitAt(g, w, First(w), f)
<1>1. w.todo # {} => First(w) \in w.todo
  BY DEF First
<1> QED BY <1>1 DEF VisitNext, VisitAt, OnPath, Below, Others, First

\* What a visit is, from the visits it makes.
VisitOf(g, w, f) ==
    IF w.todo = {} THEN [cycle |-> FALSE, visited |-> w.visited] ELSE VisitNext(g, w, f)

LEMMA VisitsAgree ==
    ASSUME NEW g, Finite(g), NEW w \in Walk(g),
           NEW f, NEW h,
           \A v \in Walk(g) : Weight(g, v) < Weight(g, w) => f[v] = h[v] /\ f[v] \in Found(g)
    PROVE  VisitOf(g, w, f) \in Found(g) /\ VisitOf(g, w, f) = VisitOf(g, w, h)
<1>1. w.todo \subseteq NodeIds(g) /\ w.visited \in SUBSET NodeIds(g)
  BY DEF Walk
<1>2. CASE w.todo = {}
  BY <1>1, <1>2 DEF VisitOf, Found
<1>3. CASE w.todo # {}
  <2> PICK n : n = First(w)
    OBVIOUS
  <2>1. n \in w.todo /\ n \in NodeIds(g)
    BY <1>1, <1>3, VisitOfNext
  <2>2. ASSUME NEW visited \in SUBSET NodeIds(g)
        PROVE  /\ f[Others(w, n, visited)] = h[Others(w, n, visited)]
               /\ f[Others(w, n, visited)] \in Found(g)
    BY <2>1, LessIsToDo
  <2>3. n \notin w.visiting =>
           f[Below(g, w, n)] = h[Below(g, w, n)] /\ f[Below(g, w, n)] \in Found(g)
    BY <2>1, LessIsToDo
  <2>4. n \notin w.visiting => f[Below(g, w, n)].visited \cup {n} \in SUBSET NodeIds(g)
    BY <2>1, <2>3 DEF Found
  <2>a. VisitNext(g, w, f) = VisitAt(g, w, n, f) /\ VisitNext(g, w, h) = VisitAt(g, w, n, h)
    BY VisitOfNext
  <2>5. VisitAt(g, w, n, f) \in Found(g) /\ VisitAt(g, w, n, f) = VisitAt(g, w, n, h)
    <3>1. CASE n \in w.visiting
      BY <1>1, <3>1 DEF VisitAt, Found
    <3>2. CASE n \notin w.visiting /\ n \in w.visited
      <4>1. /\ VisitAt(g, w, n, f) = f[Others(w, n, w.visited)]
            /\ VisitAt(g, w, n, h) = h[Others(w, n, w.visited)]
        BY <3>2 DEF VisitAt
      <4> QED BY <1>1, <2>2, <4>1
    <3>3. CASE n \notin w.visiting /\ n \notin w.visited
      <4> PICK b : b = f[Below(g, w, n)]
        OBVIOUS
      <4>1. b = h[Below(g, w, n)] /\ b \in Found(g) /\ b.visited \cup {n} \in SUBSET NodeIds(g)
        BY <2>3, <2>4, <3>3
      <4>2. /\ VisitAt(g, w, n, f) = IF b.cycle THEN b ELSE f[Others(w, n, b.visited \cup {n})]
            /\ VisitAt(g, w, n, h) = IF b.cycle THEN b ELSE h[Others(w, n, b.visited \cup {n})]
        BY <3>3, <4>1 DEF VisitAt
      <4> QED BY <2>2, <4>1, <4>2
    <3> QED BY <3>1, <3>2, <3>3
  <2> QED BY <1>3, <2>5, <2>a DEF VisitOf
<1> QED BY <1>2, <1>3

\* Such visits there are, and the recursion computes them.
LEMMA VisitsExist ==
    ASSUME NEW g, Finite(g)
    PROVE  \E f : f = [w \in Walk(g) |-> VisitOf(g, w, f)]
<1> PICK B \in Nat : \A w \in Walk(g) : Weight(g, w) <= B
  <2> PICK K : K = Cardinality(NodeIds(g))
    OBVIOUS
  <2>1. \A T \in SUBSET NodeIds(g) : Cardinality(T) \in Nat /\ Cardinality(T) <= K
    BY FS_Subset, FS_CardinalityType DEF Finite
  <2>2. K \in Nat /\ K * (K + 1) \in Nat
    BY <2>1
  <2>3. ASSUME NEW w \in Walk(g) PROVE Weight(g, w) <= K * (K + 1) + K
    <3> PICK a, b : a = Cardinality(NodeIds(g) \ w.visiting) /\ b = Cardinality(w.todo)
      OBVIOUS
    <3>1. a \in Nat /\ a <= K /\ b \in Nat /\ b <= K
      BY <2>1 DEF Walk
    <3>2. a * (K + 1) <= K * (K + 1) /\ a * (K + 1) \in Nat
      BY <2>2, <3>1
    <3>3. Weight(g, w) = a * (K + 1) + b
      BY DEF Weight
    <3> QED BY <2>2, <3>1, <3>2, <3>3
  <2>4. K * (K + 1) + K \in Nat
    BY <2>2
  <2> QED BY <2>3, <2>4
<1> DEFINE S == {k \in Nat : \E f \in [Walk(g) -> Found(g)] :
                    \A w \in Walk(g) : Weight(g, w) < k => f[w] = VisitOf(g, w, f)}
<1>0. \A w \in Walk(g) : Weight(g, w) \in Nat
  BY LessIsToDo
<1>1. 0 \in S
  <2>1. [w \in Walk(g) |-> [cycle |-> FALSE, visited |-> {}]] \in [Walk(g) -> Found(g)]
    BY DEF Found
  <2>2. PICK f : f \in [Walk(g) -> Found(g)]
    BY <2>1
  <2>3. \A w \in Walk(g) : ~(Weight(g, w) < 0)
    BY <1>0
  <2> QED BY <2>2, <2>3
<1>2. ASSUME NEW k \in Nat, k \in S PROVE k + 1 \in S
  <2>1. PICK f \in [Walk(g) -> Found(g)] :
           \A w \in Walk(g) : Weight(g, w) < k => f[w] = VisitOf(g, w, f)
    BY <1>2
  <2> DEFINE h == [w \in Walk(g) |-> VisitOf(g, w, f)]
  <2>2. \A w \in Walk(g) : VisitOf(g, w, f) \in Found(g)
    BY VisitsAgree
  <2>3. h \in [Walk(g) -> Found(g)] /\ \A w \in Walk(g) : h[w] = VisitOf(g, w, f)
    BY <2>2
  <2> HIDE DEF h
  <2>4. ASSUME NEW w \in Walk(g), Weight(g, w) < k + 1 PROVE h[w] = VisitOf(g, w, h)
    <3>1. ASSUME NEW v \in Walk(g), Weight(g, v) < Weight(g, w)
          PROVE  f[v] = h[v] /\ f[v] \in Found(g)
      <4>1. Weight(g, v) < k
        BY <1>0, <2>4, <3>1
      <4> QED BY <2>1, <2>3, <4>1
    <3>2. VisitOf(g, w, f) = VisitOf(g, w, h)
      BY <3>1, VisitsAgree
    <3> QED BY <2>3, <3>2
  <2> QED BY <2>3, <2>4
<1>3. B + 1 \in S
  <2> HIDE DEF S
  <2> QED BY <1>1, <1>2, SetInduction
<1>4. PICK f \in [Walk(g) -> Found(g)] :
         \A w \in Walk(g) : Weight(g, w) < B + 1 => f[w] = VisitOf(g, w, f)
  BY <1>3
<1>5. \A w \in Walk(g) : Weight(g, w) < B + 1
  BY <1>0
<1>6. f = [w \in Walk(g) |-> VisitOf(g, w, f)]
  BY <1>4, <1>5
<1> QED BY <1>6

LEMMA VisitUnfolds ==
    ASSUME NEW g, Finite(g)
    PROVE  \A w \in Walk(g) :
              Visit(g)[w] = VisitOf(g, w, Visit(g)) /\ Visit(g)[w] \in Found(g)
<1> DEFINE Rec(f) == [w \in Walk(g) |-> VisitOf(g, w, f)]
<1>1. Visit(g) = CHOOSE f : f = Rec(f)
  BY DEF Visit, VisitOf
<1>2. \E f : f = Rec(f)
  BY VisitsExist
<1> PICK f : f = Visit(g)
  OBVIOUS
<1>3. f = Rec(f)
  <2> HIDE DEF Rec
  <2> QED BY <1>1, <1>2
<1>4. \A w \in Walk(g) : f[w] = VisitOf(g, w, f)
  BY <1>3
<1> HIDE DEF Rec
<1> DEFINE S == {k \in Nat : \A w \in Walk(g) : Weight(g, w) < k => f[w] \in Found(g)}
<1>0. \A w \in Walk(g) : Weight(g, w) \in Nat
  BY LessIsToDo
<1>5. 0 \in S
  BY <1>0
<1>6. ASSUME NEW k \in Nat, k \in S PROVE k + 1 \in S
  <2> SUFFICES ASSUME NEW w \in Walk(g), Weight(g, w) < k + 1 PROVE f[w] \in Found(g)
    OBVIOUS
  <2>1. \A v \in Walk(g) : Weight(g, v) < Weight(g, w) => f[v] \in Found(g)
    BY <1>0, <1>6
  <2>2. VisitOf(g, w, f) \in Found(g)
    BY <2>1, VisitsAgree
  <2> QED BY <1>4, <2>2
<1>7. \A k \in Nat : k \in S
  <2> HIDE DEF S
  <2> QED BY <1>5, <1>6, SetInduction
<1>8. ASSUME NEW w \in Walk(g) PROVE f[w] \in Found(g)
  <2>1. Weight(g, w) + 1 \in Nat /\ Weight(g, w) < Weight(g, w) + 1
    BY <1>0
  <2> QED BY <1>7, <2>1
<1> QED BY <1>4, <1>8

\* What has been visited leads nowhere else and into no cycle, and is not being
\* visited.
Settled(g, visited, visiting) ==
    /\ Closed(g, visited)
    /\ visited \cap visiting = {}
    /\ ~\E C \in SUBSET visited : C # {} /\ \A n \in C : Targets(g, n) \cap C # {}

\* What is being visited leads on to what is being visited, or to all that is to
\* do.
OnTheWay(g, todo, visiting) ==
    \A n \in visiting : Targets(g, n) \cap visiting # {} \/ todo \subseteq Targets(g, n)

\* A visit finds a cycle only if there is one, or else visits all it has to do.
VisitIsRight(g, w, r) ==
    /\ OnTheWay(g, w.todo, w.visiting) /\ r.cycle => IsCyclic(g)
    /\ Settled(g, w.visited, w.visiting) /\ ~r.cycle =>
          Settled(g, r.visited, w.visiting) /\ w.visited \cup w.todo \subseteq r.visited

LEMMA OneMoreIsSettled ==
    ASSUME NEW g, NEW visited, NEW visiting, NEW n,
           Settled(g, visited, visiting \cup {n}), Targets(g, n) \subseteq visited, n \notin visiting
    PROVE  Settled(g, visited \cup {n}, visiting)
<1>1. Closed(g, visited \cup {n}) /\ (visited \cup {n}) \cap visiting = {} /\ n \notin visited
  BY DEF Settled, Closed
<1>2. ASSUME NEW C \in SUBSET (visited \cup {n}), C # {}, \A m \in C : Targets(g, m) \cap C # {}
      PROVE  FALSE
  <2> DEFINE D == C \ {n}
  <2>1. D \in SUBSET visited
    OBVIOUS
  <2>2. \A m \in D : Targets(g, m) \cap D # {}
    BY <1>1, <1>2 DEF Settled, Closed
  <2>3. D # {}
    <3>1. CASE n \in C
      BY <1>1, <1>2, <3>1
    <3>2. CASE n \notin C
      BY <1>2, <3>2
    <3> QED BY <3>1, <3>2
  <2> QED BY <2>1, <2>2, <2>3 DEF Settled
<1> QED BY <1>1, <1>2 DEF Settled

LEMMA VisitsAreRight ==
    ASSUME NEW g, Finite(g), NEW w \in Walk(g)
    PROVE  VisitIsRight(g, w, Visit(g)[w])
<1> PICK f : f = Visit(g)
  OBVIOUS
<1>1. \A v \in Walk(g) : f[v] = VisitOf(g, v, f) /\ f[v] \in Found(g)
  BY VisitUnfolds
<1> DEFINE S == {k \in Nat : \A v \in Walk(g) : Weight(g, v) < k => VisitIsRight(g, v, f[v])}
<1>0. \A v \in Walk(g) : Weight(g, v) \in Nat
  BY LessIsToDo
<1>2. 0 \in S
  BY <1>0
<1>3. ASSUME NEW k \in Nat, k \in S PROVE k + 1 \in S
  <2> SUFFICES ASSUME NEW v \in Walk(g), Weight(g, v) < k + 1 PROVE VisitIsRight(g, v, f[v])
    OBVIOUS
  <2>0. \A u \in Walk(g) : Weight(g, u) < Weight(g, v) => VisitIsRight(g, u, f[u])
    BY <1>0, <1>3
  <2>1. CASE v.todo = {}
    <3>1. f[v] = [cycle |-> FALSE, visited |-> v.visited]
      BY <1>1, <2>1 DEF VisitOf
    <3> QED BY <2>1, <3>1 DEF VisitIsRight
  <2>2. CASE v.todo # {}
    <3> PICK n : n = First(v)
      OBVIOUS
    <3>1. n \in v.todo /\ v.todo \subseteq NodeIds(g) /\ v.visited \in SUBSET NodeIds(g)
      BY <2>2, VisitOfNext DEF Walk
    <3>2. f[v] = VisitAt(g, v, n, f)
      <4>1. f[v] = VisitNext(g, v, f)
        BY <1>1, <2>2 DEF VisitOf
      <4> QED BY <4>1, VisitOfNext
    \* The rest, if n has been found to be harmless.
    <3>3. ASSUME NEW visited \in SUBSET NodeIds(g), f[v] = f[Others(v, n, visited)],
                 n \in visited,
                 Settled(g, v.visited, v.visiting)
                   => v.visited \subseteq visited /\ Settled(g, visited, v.visiting)
          PROVE  VisitIsRight(g, v, f[v])
      <4> PICK u : u = Others(v, n, visited)
        OBVIOUS
      <4>1. VisitIsRight(g, u, f[u]) /\ f[v] = f[u]
        BY <2>0, <3>1, <3>3, LessIsToDo
      <4>2. u.todo = v.todo \ {n} /\ u.visiting = v.visiting /\ u.visited = visited
        BY DEF Others
      <4>3. OnTheWay(g, v.todo, v.visiting) => OnTheWay(g, u.todo, u.visiting)
        BY <4>2 DEF OnTheWay
      <4> QED BY <3>3, <4>1, <4>2, <4>3 DEF VisitIsRight
    <3>4. CASE n \in v.visiting
      <4>1. f[v].cycle
        BY <3>2, <3>4 DEF VisitAt
      <4>2. ASSUME OnTheWay(g, v.todo, v.visiting) PROVE IsCyclic(g)
        <5>1. \A m \in v.visiting : Targets(g, m) \cap v.visiting # {}
          BY <3>1, <3>4, <4>2 DEF OnTheWay
        <5>2. v.visiting \in SUBSET NodeIds(g) /\ v.visiting # {}
          BY <3>4 DEF Walk
        <5> QED BY <5>1, <5>2 DEF IsCyclic
      <4> QED BY <4>1, <4>2 DEF VisitIsRight
    <3>5. CASE n \notin v.visiting /\ n \in v.visited
      <4>1. f[v] = f[Others(v, n, v.visited)]
        BY <3>2, <3>5 DEF VisitAt
      <4> QED BY <3>1, <3>3, <3>5, <4>1
    <3>6. CASE n \notin v.visiting /\ n \notin v.visited
      <4> PICK b : b = Below(g, v, n)
        OBVIOUS
      <4>1. VisitIsRight(g, b, f[b]) /\ f[b] \in Found(g)
        BY <1>1, <2>0, <3>1, <3>6, LessIsToDo
      <4>2. /\ b.todo = Targets(g, n) /\ b.visiting = v.visiting \cup {n}
            /\ b.visited = v.visited
        BY DEF Below
      <4>3. CASE f[b].cycle
        <5>1. f[v] = f[b]
          BY <3>2, <3>6, <4>3 DEF VisitAt
        <5>2. OnTheWay(g, v.todo, v.visiting) => OnTheWay(g, b.todo, b.visiting)
          BY <3>1, <4>2 DEF OnTheWay
        <5> QED BY <4>1, <4>3, <5>1, <5>2 DEF VisitIsRight
      <4>4. CASE ~f[b].cycle
        <5>1. f[v] = f[Others(v, n, f[b].visited \cup {n})]
          BY <3>2, <3>6, <4>4 DEF VisitAt
        <5>2. f[b].visited \cup {n} \in SUBSET NodeIds(g)
          BY <3>1, <4>1 DEF Found
        <5>3. ASSUME Settled(g, v.visited, v.visiting)
              PROVE  /\ Settled(g, f[b].visited \cup {n}, v.visiting)
                     /\ v.visited \subseteq f[b].visited
          <6>1. Settled(g, b.visited, b.visiting)
            BY <3>6, <4>2, <5>3 DEF Settled
          <6>2. /\ Settled(g, f[b].visited, v.visiting \cup {n})
                /\ Targets(g, n) \subseteq f[b].visited /\ v.visited \subseteq f[b].visited
            BY <4>1, <4>2, <4>4, <6>1 DEF VisitIsRight
          <6> QED BY <3>6, <6>2, OneMoreIsSettled
        <5> QED BY <3>3, <5>1, <5>2, <5>3
      <4> QED BY <4>3, <4>4
    <3> QED BY <3>4, <3>5, <3>6
  <2> QED BY <2>1, <2>2
<1>4. \A k \in Nat : k \in S
  <2> HIDE DEF S
  <2> QED BY <1>2, <1>3, SetInduction
<1>5. Weight(g, w) + 1 \in Nat /\ Weight(g, w) < Weight(g, w) + 1
  BY <1>0
<1> QED BY <1>4, <1>5

\* The depth-first search finds a cycle if and only if there is one.
LEMMA CyclesAreFound ==
    ASSUME NEW g, Finite(g)
    PROVE  HasCycle(g) <=> IsCyclic(g)
<1> PICK w : w = [todo |-> NodeIds(g), visiting |-> {}, visited |-> {}]
  OBVIOUS
<1> PICK r : r = Visit(g)[w]
  OBVIOUS
<1>1. w \in Walk(g) /\ w.todo = NodeIds(g) /\ w.visiting = {} /\ w.visited = {}
  BY DEF Walk
<1>2. VisitIsRight(g, w, r) /\ HasCycle(g) = r.cycle /\ r \in Found(g)
  BY <1>1, VisitsAreRight, VisitUnfolds DEF HasCycle
<1>3. OnTheWay(g, w.todo, w.visiting) /\ Settled(g, w.visited, w.visiting)
  BY <1>1 DEF OnTheWay, Settled, Closed
<1>4. ASSUME ~r.cycle PROVE ~IsCyclic(g)
  <2>1. Settled(g, r.visited, {}) /\ NodeIds(g) \subseteq r.visited
    BY <1>1, <1>2, <1>3, <1>4 DEF VisitIsRight
  <2> QED BY <2>1 DEF Settled, IsCyclic
<1>5. r.cycle => IsCyclic(g)
  BY <1>2, <1>3 DEF VisitIsRight
<1> QED BY <1>2, <1>4, <1>5

LEMMA WholeIsFinite ==
    ASSUME NEW g, NEW bound \in Int, Whole(g, bound)
    PROVE  Finite(g)
<1>1. NodeIds(g) \subseteq 1..bound /\ EndsAreKnown(g)
  BY DEF Whole, ValidGraph
<1>2. IsFiniteSet(NodeIds(g))
  BY <1>1, FS_Interval, FS_Subset
<1>3. \A n : Targets(g, n) \subseteq NodeIds(g)
  BY <1>1 DEF Targets, Outgoing, EndsAreKnown
<1> QED BY <1>2, <1>3 DEF Finite

\* The searches of graph_warnings (graph/validator.py) say of any graph a patch
\* leads to what they are to say: which nodes no start node leads to, and
\* whether one can walk around for ever.
THEOREM WarningsStayTrue == Spec => []WarningsAreTrue
<1>1. CoreInv => WarningsAreTrue
  <2> SUFFICES ASSUME CoreInv PROVE WarningsAreTrue
    OBVIOUS
  <2>1. Finite(working)
    BY WholeIsFinite DEF CoreInv, Core, PatchTypeOK
  <2>2. Search(working) = Reach(working, Starts(working))
    BY <2>1, SearchFinds
  <2>3. HasCycle(working) <=> IsCyclic(working)
    BY <2>1, CyclesAreFound
  <2> QED BY <2>2, <2>3 DEF WarningsAreTrue, Unreachable
<1> QED BY <1>1, RequestsApplyPatches, PatchCore, PTL

-----------------------------------------------------------------------------
(* What a new flow is.                                                     *)

\* The nodes of a graph are one after the other, from a start to an end.
IsLine(g, at, m) ==
    /\ m \in Nat /\ m >= 2
    /\ at \in [1..m -> NodeIds(g)]
    /\ \A i, j \in 1..m : at[i] = at[j] => i = j
    /\ \A n \in NodeIds(g) : \E i \in 1..m : at[i] = n
    /\ g.nodes[at[1]].type = "start" /\ g.nodes[at[m]].type = "end"
    /\ \A e \in EdgeIds(g) : \E i \in 1..(m - 1) :
          g.edges[e].source = at[i] /\ g.edges[e].target = at[i + 1]
    /\ \A i \in 1..(m - 1) : \E e \in EdgeIds(g) :
          g.edges[e].source = at[i] /\ g.edges[e].target = at[i + 1]
    /\ \A e, f \in EdgeIds(g) : g.edges[e].source = g.edges[f].source => e = f

LEMMA TargetsOfLines ==
    ASSUME NEW g, NEW at, NEW m, IsLine(g, at, m)
    PROVE  /\ \A i \in 1..(m - 1) : at[i + 1] \in Targets(g, at[i])
           /\ \A i \in 1..m : \A x \in Targets(g, at[i]) : i < m /\ x = at[i + 1]
<1>1. \A i \in 1..(m - 1) : at[i + 1] \in Targets(g, at[i])
  BY DEF IsLine, Targets, Outgoing
<1>a. \A i, j \in 1..m : at[i] = at[j] => i = j
  BY DEF IsLine
<1>2. ASSUME NEW i \in 1..m, NEW x \in Targets(g, at[i]) PROVE i < m /\ x = at[i + 1]
  <2>1. PICK e \in EdgeIds(g) : g.edges[e].source = at[i] /\ g.edges[e].target = x
    BY <1>2 DEF Targets, Outgoing
  <2>2. PICK j \in 1..(m - 1) : g.edges[e].source = at[j] /\ g.edges[e].target = at[j + 1]
    BY DEF IsLine
  <2>3. m \in Nat /\ j \in 1..m /\ j < m
    BY <2>2 DEF IsLine
  <2>4. i = j
    BY <1>a, <2>1, <2>2, <2>3
  <2> QED BY <2>1, <2>2, <2>3, <2>4
<1> QED BY <1>1, <1>2

\* All of it is reached from the start.
LEMMA LinesAreReached ==
    ASSUME NEW g, NEW at, NEW m, IsLine(g, at, m)
    PROVE  Starts(g) # {} /\ Ends(g) # {} /\ Reach(g, Starts(g)) = NodeIds(g)
<1>1. /\ m \in Nat /\ 1 \in 1..m /\ m \in 1..m
      /\ \A i \in 1..m : at[i] \in NodeIds(g)
  BY DEF IsLine
<1>2. at[1] \in Starts(g) /\ at[m] \in Ends(g)
  BY <1>1 DEF IsLine, Starts, Ends
<1>3. ASSUME NEW C \in SUBSET NodeIds(g), Starts(g) \subseteq C, Closed(g, C), NEW n \in NodeIds(g)
      PROVE  n \in C
  <2> DEFINE S == {k \in Nat : k + 1 <= m => at[k + 1] \in C}
  <2>1. 0 \in S
    BY <1>2, <1>3
  <2>2. ASSUME NEW k \in Nat, k \in S PROVE k + 1 \in S
    <3> SUFFICES ASSUME (k + 1) + 1 <= m PROVE at[(k + 1) + 1] \in C
      OBVIOUS
    <3>1. k + 1 \in 1..(m - 1) /\ at[k + 1] \in C
      BY <1>1, <2>2
    <3>2. at[(k + 1) + 1] \in Targets(g, at[k + 1])
      BY <3>1, TargetsOfLines
    <3> QED BY <1>3, <3>1, <3>2 DEF Closed
  <2>3. \A k \in Nat : k \in S
    <3> HIDE DEF S
    <3> QED BY <2>1, <2>2, SetInduction
  <2>4. PICK i \in 1..m : at[i] = n
    BY DEF IsLine
  <2>5. i - 1 \in Nat /\ (i - 1) + 1 = i /\ i <= m
    BY <1>1
  <2>6. i - 1 \in S
    BY <2>3, <2>5
  <2> QED BY <2>4, <2>5, <2>6
<1>4. Reach(g, Starts(g)) = NodeIds(g)
  BY <1>3 DEF Reach
<1> QED BY <1>2, <1>4

\* One cannot walk around: the last node of a circle would lead on.
LEMMA LinesHaveAnEnd ==
    ASSUME NEW g, NEW at, NEW m, IsLine(g, at, m)
    PROVE  ~IsCyclic(g)
<1> SUFFICES ASSUME NEW C \in SUBSET NodeIds(g), C # {}, \A n \in C : Targets(g, n) \cap C # {}
             PROVE  FALSE
  BY DEF IsCyclic
<1>0. m \in Nat
  BY DEF IsLine
<1> DEFINE S == {m - i : i \in {j \in 1..m : at[j] \in C}}
<1>1. S \in SUBSET Nat
  BY <1>0
<1>2. S # {}
  <2>1. PICK n : n \in C
    OBVIOUS
  <2>2. PICK i \in 1..m : at[i] = n
    BY <2>1 DEF IsLine
  <2> QED BY <2>1, <2>2
<1>3. PICK k \in S : \A l \in S : k <= l
  <2> HIDE DEF S
  <2> QED BY <1>1, <1>2, LeastExists
<1>4. PICK i \in 1..m : at[i] \in C /\ k = m - i
  BY <1>3
<1>5. PICK x : x \in Targets(g, at[i]) /\ x \in C
  BY <1>4
<1>6. i < m /\ x = at[i + 1]
  BY <1>5, TargetsOfLines
<1>7. i + 1 \in 1..m /\ at[i + 1] \in C
  BY <1>0, <1>5, <1>6
<1>8. m - (i + 1) \in S
  BY <1>7
<1>9. k <= m - (i + 1)
  BY <1>3, <1>8
<1> QED BY <1>0, <1>4, <1>9

\* No node of it is alone, and none has two ways on.
LEMMA LinesAreThin ==
    ASSUME NEW g, NEW at, NEW m, IsLine(g, at, m)
    PROVE  /\ Isolated(g) = {}
           /\ Undecided(g) = {n \in NodeIds(g) : g.nodes[n].type = "decision"}
<1>0. m \in Nat /\ m >= 2
  BY DEF IsLine
<1>a. \A e, f \in EdgeIds(g) : g.edges[e].source = g.edges[f].source => e = f
  BY DEF IsLine
<1>1. ASSUME NEW n \in NodeIds(g) PROVE Incoming(g, n) \cup Outgoing(g, n) # {}
  <2>1. PICK i \in 1..m : at[i] = n
    BY DEF IsLine
  <2>2. CASE i < m
    <3>1. i \in 1..(m - 1)
      BY <1>0, <2>2
    <3>2. PICK e \in EdgeIds(g) : g.edges[e].source = at[i]
      BY <3>1 DEF IsLine
    <3> QED BY <2>1, <3>2 DEF Outgoing
  <2>3. CASE i = m
    <3>1. i - 1 \in 1..(m - 1) /\ (i - 1) + 1 = i
      BY <1>0, <2>3
    <3>2. PICK e \in EdgeIds(g) : g.edges[e].target = at[(i - 1) + 1]
      BY <3>1 DEF IsLine
    <3> QED BY <2>1, <3>1, <3>2 DEF Incoming
  <2> QED BY <1>0, <2>2, <2>3
<1>2. ASSUME NEW n \in NodeIds(g) PROVE Cardinality(Outgoing(g, n)) < 2
  <2>1. CASE Outgoing(g, n) = {}
    BY <2>1, FS_EmptySet
  <2>2. CASE Outgoing(g, n) # {}
    <3>1. PICK e : e \in Outgoing(g, n)
      BY <2>2
    <3>2. \A f \in Outgoing(g, n) : f = e
      BY <1>a, <3>1 DEF Outgoing
    <3>3. Outgoing(g, n) = {e}
      BY <3>1, <3>2
    <3>4. Cardinality({e}) = 1
      BY FS_Singleton
    <3> QED BY <3>3, <3>4
  <2> QED BY <2>1, <2>2
<1> QED BY <1>1, <1>2 DEF Isolated, Undecided

\* A chain of operations in an empty graph makes a line.
LEMMA FlowsAreLines ==
    ASSUME CoreInv, NamedInv, Built, Builds(patch, current), applied = Len(patch),
           NodeIds(current) = {}, EdgeIds(current) = {},
           NEW o \in {0, 1}, NEW m \in Nat, m >= 2, m + o <= MaxRefs,
           IsChain(patch, o, m), IsFlow(patch, o, m, retrieved)
    PROVE  /\ \E at : IsLine(working, at, m)
           /\ \A n \in NodeIds(working) :
                 working.nodes[n].sap = IF o = 1 /\ working.nodes[n].type = "task"
                                        THEN SeedSap(retrieved) ELSE BlankSap
<1> PICK p : p = patch
  OBVIOUS
<1>0. /\ MaxRefs \in Nat /\ DOMAIN p = 1..(o + m + (m - 1))
      /\ applied = o + m + (m - 1) /\ 1..applied = DOMAIN p
  <2>1. MaxRefs \in Nat /\ DOMAIN p = 1..(o + m + (m - 1)) /\ o + m + (m - 1) \in Nat
    BY PatcherAssumption DEF IsChain
  <2>2. Len(p) \in Nat /\ DOMAIN p = 1..Len(p)
    BY DEF CoreInv, Core, PatchTypeOK
  <2>3. Len(p) = o + m + (m - 1)
    BY <2>1, <2>2
  <2> QED BY <2>1, <2>3
<1>1. ASSUME NEW i \in 1..m
      PROVE  /\ o + i \in 1..applied /\ p[o + i].op = "add_node" /\ p[o + i].ref = -i
             /\ -i \in Ref
  <2>1. o + i \in (o + 1)..(o + m) /\ o + i \in 1..applied /\ -i \in Ref /\ o - (o + i) = -i
    BY <1>0 DEF Ref
  <2> QED BY <2>1 DEF IsChain
<1>2. ASSUME NEW j \in 1..applied, p[j].op = "add_node"
      PROVE  \E i \in 1..m : j = o + i
  <2>1. \/ o = 1 /\ j = 1
        \/ j \in (o + 1)..(o + m)
        \/ j \in (o + m + 1)..(o + m + (m - 1))
    BY <1>0
  <2>2. j \in (o + 1)..(o + m)
    BY <1>2, <2>1 DEF IsChain
  <2>3. j - o \in 1..m /\ j = o + (j - o)
    BY <2>2
  <2> QED BY <2>3
<1>3. ASSUME NEW i \in 1..(m - 1)
      PROVE  /\ o + m + i \in 1..applied /\ p[o + m + i].op = "add_edge"
             /\ p[o + m + i].source = -i /\ p[o + m + i].target = -(i + 1)
  <2>1. /\ o + m + i \in (o + m + 1)..(o + m + (m - 1)) /\ o + m + i \in 1..applied
        /\ (o + m) - (o + m + i) = -i /\ (o + m) - (o + m + i) - 1 = -(i + 1)
    BY <1>0
  <2> QED BY <2>1 DEF IsChain
<1>4. ASSUME NEW j \in 1..applied, p[j].op = "add_edge"
      PROVE  \E i \in 1..(m - 1) : j = o + m + i
  <2>1. \/ o = 1 /\ j = 1
        \/ j \in (o + 1)..(o + m)
        \/ j \in (o + m + 1)..(o + m + (m - 1))
    BY <1>0
  <2>2. j \in (o + m + 1)..(o + m + (m - 1))
    BY <1>4, <2>1 DEF IsChain
  <2>3. j - (o + m) \in 1..(m - 1) /\ j = o + m + (j - (o + m))
    BY <2>2
  <2> QED BY <2>3
<1>t. PICK at : at = [i \in 1..m |-> refs[-i]]
  OBVIOUS
<1>5. ASSUME NEW i \in 1..m
      PROVE  /\ at[i] = refs[-i] /\ -i \in DOMAIN refs /\ at[i] \in NodeIds(working)
             /\ Resolve(-i) = at[i]
  <2>1. -i \in DOMAIN refs /\ refs[-i] \in NodeIds(working)
    BY <1>1 DEF Built, MadeIsNamed, Makes
  <2> QED BY <1>1, <1>t, <2>1 DEF Resolve
<1>6. \A i, j \in 1..m : at[i] = at[j] => i = j
  <2>1. \A r, s \in DOMAIN refs : refs[r] = refs[s] => r = s
    BY DEF CoreInv, Core, RefsAreDrawn
  <2>2. \A i, j \in 1..m : -i = -j => i = j
    OBVIOUS
  <2> QED BY <1>5, <2>1, <2>2
<1>7. \A n \in NodeIds(working) : \E i \in 1..m :
         /\ at[i] = n
         /\ working.nodes[n].type = p[o + i].type /\ working.nodes[n].sap = p[o + i].sap
  <2> TAKE n \in NodeIds(working)
  <2>1. PICK j \in 1..applied : MadeNode(n, j)
    BY DEF Built, NodesAreMade
  <2>2. PICK i \in 1..m : j = o + i
    BY <1>2, <2>1 DEF MadeNode
  <2> QED BY <1>1, <1>5, <2>1, <2>2 DEF MadeNode
<1>8. \A i \in 1..m : /\ working.nodes[at[i]].type = p[o + i].type
                      /\ working.nodes[at[i]].sap = p[o + i].sap
  <2> TAKE i \in 1..m
  <2>1. PICK j \in 1..m : /\ at[j] = at[i]
                          /\ working.nodes[at[i]].type = p[o + j].type
                          /\ working.nodes[at[i]].sap = p[o + j].sap
    BY <1>5, <1>7
  <2>2. j = i
    BY <1>6, <2>1
  <2> QED BY <2>1, <2>2
<1>9. \A i \in 1..(m - 1) : i \in 1..m /\ i + 1 \in 1..m
  OBVIOUS
<1>10. \A i \in 1..(m - 1) : /\ NewEdge(p[o + m + i]).source = at[i]
                             /\ NewEdge(p[o + m + i]).target = at[i + 1]
  BY <1>3, <1>5, <1>9 DEF NewEdge
<1>11. ASSUME NEW e \in EdgeIds(working)
       PROVE  \E i \in 1..(m - 1) : working.edges[e] = NewEdge(p[o + m + i])
  <2>1. PICK j \in 1..applied : MadeBy(e, j)
    BY DEF Built, NewEdgesAreMade
  <2>2. PICK i \in 1..(m - 1) : j = o + m + i
    BY <1>4, <2>1 DEF MadeBy
  <2> QED BY <2>1, <2>2 DEF MadeBy
<1>12. ASSUME NEW i \in 1..(m - 1)
       PROVE  \E e \in EdgeIds(working) : working.edges[e] = NewEdge(p[o + m + i])
  BY <1>3 DEF Built, MadeEdgesAreThere, MadeBy
<1>13. ASSUME NEW e \in EdgeIds(working), NEW f \in EdgeIds(working),
              working.edges[e].source = working.edges[f].source
       PROVE  e = f
  <2>1. PICK i \in 1..(m - 1) : working.edges[e] = NewEdge(p[o + m + i])
    BY <1>11
  <2>2. PICK j \in 1..(m - 1) : working.edges[f] = NewEdge(p[o + m + j])
    BY <1>11
  <2>3. at[i] = at[j]
    BY <1>10, <1>13, <2>1, <2>2
  <2>4. i = j
    BY <1>6, <1>9, <2>3
  <2>5. Key(working.edges[e]) = Key(working.edges[f])
    BY <2>1, <2>2, <2>4
  <2> QED BY <2>5 DEF CoreInv, Core, Whole, ValidGraph, EdgesAreDistinct
<1>14. at \in [1..m -> NodeIds(working)]
  BY <1>5, <1>t
<1>15. 1 \in 1..m /\ m \in 1..m
  OBVIOUS
<1>16. working.nodes[at[1]].type = "start" /\ working.nodes[at[m]].type = "end"
  BY <1>8, <1>15 DEF IsFlow
<1>17. IsLine(working, at, m)
  <2>1. \A n \in NodeIds(working) : \E i \in 1..m : at[i] = n
    BY <1>7
  <2>2. \A e \in EdgeIds(working) : \E i \in 1..(m - 1) :
           working.edges[e].source = at[i] /\ working.edges[e].target = at[i + 1]
    <3> TAKE e \in EdgeIds(working)
    <3>1. PICK i \in 1..(m - 1) : working.edges[e] = NewEdge(p[o + m + i])
      BY <1>11
    <3>2. working.edges[e].source = at[i] /\ working.edges[e].target = at[i + 1]
      BY <1>10, <3>1
    <3> QED BY <3>2
  <2>3. \A i \in 1..(m - 1) : \E e \in EdgeIds(working) :
           working.edges[e].source = at[i] /\ working.edges[e].target = at[i + 1]
    <3> TAKE i \in 1..(m - 1)
    <3>1. PICK e \in EdgeIds(working) : working.edges[e] = NewEdge(p[o + m + i])
      BY <1>12
    <3>2. working.edges[e].source = at[i] /\ working.edges[e].target = at[i + 1]
      BY <1>10, <3>1
    <3> QED BY <3>2
  <2> QED BY <1>6, <1>13, <1>14, <1>16, <2>1, <2>2, <2>3 DEF IsLine
<1>18. ASSUME NEW n \in NodeIds(working)
       PROVE  working.nodes[n].sap = IF o = 1 /\ working.nodes[n].type = "task"
                                     THEN SeedSap(retrieved) ELSE BlankSap
  <2>1. PICK i \in 1..m : working.nodes[n].type = p[o + i].type /\ working.nodes[n].sap = p[o + i].sap
    BY <1>7
  <2>2. o + i \in (o + 1)..(o + m)
    OBVIOUS
  <2> QED BY <2>1, <2>2 DEF IsFlow
<1> QED BY <1>17, <1>18

\* A step with the claims of the seed asks for a confirmation, unless the seed
\* has been approved.
LEMMA SeedAwaitsReview ==
    ASSUME NEW found, NEW g, NEW n \in NodeIds(g), g.nodes[n].sap = SeedSap(found)
    PROVE  HasPendingReview(g) \/ \E r \in Seed \cap DOMAIN found : found[r] = "approved"
<1> DEFINE F == Seed \cap DOMAIN found
           ref == IF F = {} THEN None ELSE CHOOSE r \in F : TRUE
           status == IF ref # None /\ found[ref] = "approved" THEN "verified" ELSE "pending"
           item == [ref |-> ref, status |-> status]
<1>1. item \in g.nodes[n].sap.items
  BY DEF SeedSap
<1>2. CASE status = "pending"
  BY <1>1, <1>2 DEF HasPendingReview
<1>3. CASE status # "pending"
  <2>1. ref # None /\ found[ref] = "approved"
    BY <1>3
  <2>2. ref \in F
    BY <2>1
  <2> QED BY <2>1, <2>2
<1> QED BY <1>2, <1>3

\* In an empty graph there is nothing to make but lanes and flows.
LEMMA NothingElseIsNew ==
    ASSUME NEW found, NEW p \in LocalPatches(EmptyGraph, found)
    PROVE  \/ p \in Flows(found)
           \/ p[1].op = "add_lane" /\ \A i \in DOMAIN p : p[i].op = "add_lane"
<1>1. NodeIds(EmptyGraph) = {} /\ EdgeIds(EmptyGraph) = {} /\ LaneIds(EmptyGraph) = {}
  BY DEF EmptyGraph, GraphOf, NodeIds, EdgeIds, LaneIds
<1>2. /\ Renamings(EmptyGraph) = {} /\ Removals(EmptyGraph) = {}
      /\ Findable(EmptyGraph) = {} /\ Connectable(EmptyGraph) = {}
  BY <1>1 DEF Renamings, Removals, Findable, Connectable
<1>3. EdgePatches(EmptyGraph) = {}
  BY <1>2 DEF EdgePatches
<1>4. Insertions(EmptyGraph) = {}
  BY <1>1 DEF Insertions
<1>5. ASSUME NEW q \in LanePatches(EmptyGraph)
      PROVE  q[1].op = "add_lane" /\ \A i \in DOMAIN q : q[i].op = "add_lane"
  <2>1. PICK k \in 1..MaxRefs, t \in Label : q = [i \in 1..k |-> OpAddLane(i, t)]
    BY <1>1, <1>5 DEF LanePatches
  <2>2. 1 \in 1..k /\ DOMAIN q = 1..k
    BY <2>1, NumbersOfTheRules
  <2> QED BY <2>1, <2>2 DEF OpAddLane
<1> QED BY <1>2, <1>3, <1>4, <1>5 DEF LocalPatches

\* A flow that the local rules make of nothing comes with no warning but those
\* that are meant: it runs from a start past every step to an end, and it is
\* presented as confirmed only if it claims nothing or the seed is approved.
THEOREM NewFlowsStayWhole == Spec => []NewFlowsAreWhole
<1>1. CoreInv /\ NamedInv /\ ApplyInv /\ CurrentIsGiven /\ LocalInv
         /\ (outcome = "applied" => applied = Len(patch)) => NewFlowsAreWhole
  <2> SUFFICES ASSUME CoreInv, NamedInv, ApplyInv, CurrentIsGiven, LocalInv,
                      outcome = "applied", applied = Len(patch),
                      ~external, current = EmptyGraph, NodeIds(working) # {}
               PROVE  LET w == Warnings(working) IN
                      /\ ~w.noStart /\ ~w.noEnd /\ ~w.cycle
                      /\ w.isolated = {} /\ w.unreachable = {}
                      /\ w.undecided = {n \in NodeIds(working) : working.nodes[n].type = "decision"}
                      /\ \/ HasPendingReview(working)
                         \/ \A n \in NodeIds(working) : working.nodes[n].sap = BlankSap
                         \/ \E r \in Seed \cap DOMAIN retrieved : retrieved[r] = "approved"
    BY DEF NewFlowsAreWhole
  <2>0. NodeIds(current) = {} /\ EdgeIds(current) = {}
    BY DEF EmptyGraph, GraphOf, NodeIds, EdgeIds
  <2>1. patch \in LocalPatches(current, retrieved) /\ current \in InitialGraph
    BY DEF LocalInv, CurrentIsGiven
  <2>2. Sound(patch, current)
    BY <2>1, RulesAreSound
  <2>3. CASE patch[1].op = "add_lane" /\ \A i \in DOMAIN patch : patch[i].op = "add_lane"
    <3>1. Built
      BY <2>2, <2>3 DEF Sound, FitsAlone, Makes, ApplyInv
    <3>2. PICK n : n \in NodeIds(working) \ NodeIds(current)
      BY <2>0
    <3>3. PICK i \in 1..applied : MadeNode(n, i)
      BY <3>1, <3>2 DEF Built, NodesAreMade
    <3> QED BY <2>3, <3>3, AppliedAreOperations DEF MadeNode
  <2>4. CASE patch \in Flows(retrieved)
    <3>1. PICK o \in {0, 1}, m \in Nat :
             m >= 2 /\ m + o <= MaxRefs /\ IsChain(patch, o, m) /\ IsFlow(patch, o, m, retrieved)
      <4>1. CASE \E steps \in StepTypes, l \in Label : patch = Flow(steps, l)
        <5>1. PICK steps \in StepTypes, l \in Label : patch = Flow(steps, l)
          BY <4>1
        <5>2. PICK m \in Nat : /\ m >= 2 /\ m + 0 <= MaxRefs /\ IsChain(patch, 0, m)
                               /\ IsFlow(patch, 0, m, retrieved)
          BY <5>1, FlowsAreChains
        <5> QED BY <5>2
      <4>2. CASE \E l \in Label : patch = P2PFlow(MaxSteps, l, retrieved)
        <5>1. PICK l \in Label : patch = P2PFlow(MaxSteps, l, retrieved)
          BY <4>2
        <5>2. PICK m \in Nat : /\ m >= 2 /\ m + 1 <= MaxRefs /\ IsChain(patch, 1, m)
                               /\ IsFlow(patch, 1, m, retrieved)
          BY <5>1, P2PFlowIsChain
        <5> QED BY <5>2
      <4> QED BY <2>4, <4>1, <4>2 DEF Flows
    <3>2. Builds(patch, current)
      <4>1. m >= 1
        BY <3>1
      <4> QED BY <2>1, <3>1, <4>1, ChainsAreSound
    <3>3. Built
      BY <3>2 DEF ApplyInv
    <3>4. /\ \E at : IsLine(working, at, m)
          /\ \A n \in NodeIds(working) :
                working.nodes[n].sap = IF o = 1 /\ working.nodes[n].type = "task"
                                       THEN SeedSap(retrieved) ELSE BlankSap
      BY <2>0, <3>1, <3>2, <3>3, FlowsAreLines
    <3>5. PICK at : IsLine(working, at, m)
      BY <3>4
    <3>6. Finite(working)
      BY WholeIsFinite DEF CoreInv, Core, PatchTypeOK
    <3>7. Starts(working) # {} /\ Ends(working) # {} /\ Unreachable(working) = {}
      <4>1. Search(working) = NodeIds(working)
        BY <3>5, <3>6, LinesAreReached, SearchFinds
      <4> QED BY <3>5, <4>1, LinesAreReached DEF Unreachable
    <3>8. ~HasCycle(working)
      BY <3>5, <3>6, LinesHaveAnEnd, CyclesAreFound
    <3>9. /\ Isolated(working) = {}
          /\ Undecided(working) = {n \in NodeIds(working) : working.nodes[n].type = "decision"}
      BY <3>5, LinesAreThin
    <3>10. \/ HasPendingReview(working)
           \/ \A n \in NodeIds(working) : working.nodes[n].sap = BlankSap
           \/ \E r \in Seed \cap DOMAIN retrieved : retrieved[r] = "approved"
      BY <3>4, SeedAwaitsReview
    <3> QED BY <3>7, <3>8, <3>9, <3>10 DEF Warnings
  <2> QED BY <2>1, <2>3, <2>4, NothingElseIsNew
<1>2. PatchInit => NamedInv /\ ApplyInv
  BY NamedAtFirst, ApplyAtFirst
<1>3. CoreInv /\ NamedInv /\ [PatchNext]_patchVars => NamedInv'
  BY NamedAfterStep
<1>4. CoreInv /\ NamedInv /\ ApplyInv /\ [PatchNext]_patchVars => ApplyInv'
  BY ApplyAfterStep
<1>5. PatchSpec => [](CoreInv /\ NamedInv /\ ApplyInv)
  BY <1>2, <1>3, <1>4, PatchCore, PTL DEF PatchSpec
<1> QED BY <1>1, <1>5, AppliedAsAWhole, RequestsApplyPatches, RequestsCore, LocalCore, PTL
==============================================================================
