------------------------------ MODULE LocalRules ------------------------------
(***************************************************************************)
(* The patches the local rule provider makes (agent/local_provider.py).    *)
(* Which rule an instruction matches and which nodes, edges and lanes its  *)
(* words find is text matching: here any rule may apply to any element.    *)
(***************************************************************************)
EXTENDS Patcher, FiniteSetsExt

CONSTANTS
    Positive,       \* the edge labels that mean yes
    Passed,         \* the one the rules give to the way out of a decision
    Seed,           \* evidence of the transaction mapping of the J45 seed
    MaxSteps        \* bound on the steps of a new flow

ASSUME LocalAssumption ==
    /\ Positive \subseteq Label /\ Passed \in Positive /\ Seed \subseteq Evidence
    /\ MaxSteps \in Nat /\ MaxSteps + 3 <= MaxRefs

NoChange == [type |-> Unset, label |-> Unset, lane |-> Unset, sap |-> Unset]

OpUpdate(n, changes) == [op |-> "update_node", id |-> n, changes |-> changes]
OpRename(n, label) == OpUpdate(n, [NoChange EXCEPT !.label = label])
OpMove(n, lane) == OpUpdate(n, [NoChange EXCEPT !.lane = lane])
OpRemove(what, id) == [op |-> what, id |-> id]
OpAddEdge(s, t, label) == [op |-> "add_edge", source |-> s, target |-> t, label |-> label]
OpAddLane(i, label) == [op |-> "add_lane", ref |-> -i, label |-> label]
OpAddNode(i, type, label, lane, sap) ==
    [op |-> "add_node", ref |-> -i, type |-> type, label |-> label, lane |-> lane, sap |-> sap]

-----------------------------------------------------------------------------
(* Nodes, lanes and edges that exist.                                      *)

\* Renaming, and setting or removing an icon.
Renamings(g) ==
    {<<OpRename(n, l)>> : n \in NodeIds(g), l \in Label}

Removals(g) == {<<OpRemove("remove_node", n)>> : n \in NodeIds(g)}

Lanes(g) == Cardinality(LaneIds(g))

\* New lanes come with their number checked.
LanePatches(g) ==
    {<<OpMove(n, l)>> : n \in NodeIds(g), l \in LaneIds(g)}
    \cup {<<[op |-> "update_lane", id |-> l, label |-> t]>> : l \in LaneIds(g), t \in Label}
    \cup {<<OpRemove("remove_lane", l)>> : l \in LaneIds(g)}
    \cup {[i \in 1..k |-> OpAddLane(i, t)] :
             k \in {j \in 1..MaxRefs : Lanes(g) + j <= MaxLanes}, t \in Label}

EdgesBetween(g, s, t) ==
    {e \in EdgeIds(g) : g.edges[e].source = s /\ g.edges[e].target = t}

\* _find_edge: the only edge between two nodes, or an error.
BugFindable(g) == EdgeIds(g)
Findable(g) ==
    {e \in EdgeIds(g) : EdgesBetween(g, g.edges[e].source, g.edges[e].target) = {e}}

\* Nodes to connect: not connected yet, under any label.
Connectable(g) ==
    {st \in NodeIds(g) \X NodeIds(g) : st[1] # st[2] /\ EdgesBetween(g, st[1], st[2]) = {}}

EdgePatches(g) ==
    {<<[op |-> "update_edge", id |-> e, label |-> l]>> : e \in Findable(g), l \in Label \cup {None}}
    \cup {<<OpRemove("remove_edge", e)>> : e \in Findable(g)}
    \cup {<<OpAddEdge(st[1], st[2], None)>> : st \in Connectable(g)}

-----------------------------------------------------------------------------
(* New steps.                                                              *)

NewStep(g, anchor, type, label) ==
    OpAddNode(1, type, label, g.nodes[anchor].lane, BlankSap)

\* The first edge that means yes, else the first.
Preferred(g, n) ==
    LET yes == {e \in Outgoing(g, n) : g.edges[e].label \in Positive} IN
    IF yes # {} THEN Min(yes) ELSE Min(Outgoing(g, n))

\* _insert_after: the new step takes over the preferred edge, if there is one.
InsertAfter(g, n, step) ==
    IF Outgoing(g, n) = {}
    THEN <<step, OpAddEdge(n, -1, None)>>
    ELSE LET e == Preferred(g, n) IN
         <<step, OpRemove("remove_edge", e), OpAddEdge(n, -1, g.edges[e].label),
           OpAddEdge(-1, g.edges[e].target, None)>>

\* _insert_before: it takes over all incoming edges, in their order.
BugReconnected(g, e) == OpAddEdge(-1, g.edges[e].source, g.edges[e].label)
Reconnected(g, e) == OpAddEdge(g.edges[e].source, -1, g.edges[e].label)

\* The one way to list the ids of S in their order.
InOrder(S) ==
    {f \in [1..Cardinality(S) -> S] : \A i, j \in DOMAIN f : i < j => f[i] < f[j]}

InsertBefore(n, step, g, edges) ==
    <<step>>
    \o [i \in 1..(2 * Len(edges)) |->
          IF i % 2 = 1 THEN OpRemove("remove_edge", edges[(i + 1) \div 2])
          ELSE Reconnected(g, edges[i \div 2])]
    \o <<OpAddEdge(-1, n, None)>>

Insertions(g) ==
    UNION {LET step == NewStep(g, n, t, l) IN
           {InsertAfter(g, n, step)}
           \cup {InsertBefore(n, step, g, edges) : edges \in InOrder(Incoming(g, n))} :
           n \in NodeIds(g), t \in NodeType, l \in Label}

-----------------------------------------------------------------------------
(* New flows: start, steps and end, one after the other.                   *)

\* Edges along the nodes that refs -1, -2, ... name.
BugChain(length, passed) ==
    [i \in 1..(length - 2) |-> OpAddEdge(-i, -(i + 1), IF i \in passed THEN Passed ELSE None)]
Chain(length, passed) ==
    [i \in 1..(length - 1) |-> OpAddEdge(-i, -(i + 1), IF i \in passed THEN Passed ELSE None)]

Around(steps) == <<"start">> \o steps \o <<"end">>
Decisions(types) == {i \in DOMAIN types : types[i] = "decision"}

\* _create_flow with steps of these types.
Flow(steps, label) ==
    LET types == Around(steps) IN
    [i \in DOMAIN types |-> OpAddNode(i, types[i], label, None, BlankSap)]
    \o Chain(Len(types), Decisions(types))

\* Both claims of a step name the seed if it was retrieved, and the transaction
\* is verified if the seed has been approved.
SeedSap(retrieved) ==
    LET found == Seed \cap DOMAIN retrieved
        ref == IF found = {} THEN None ELSE CHOOSE r \in found : TRUE
        status == IF ref # None /\ retrieved[ref] = "approved" THEN "verified" ELSE "pending"
    IN  [items |-> {[ref |-> ref, status |-> status], [ref |-> ref, status |-> None]},
         gap |-> "none", gapRefs |-> {}]

\* _create_p2p_flow: tasks in a lane, with the seed's claims; the second is the
\* approval.
P2PFlow(k, label, retrieved) ==
    LET types == Around([i \in 1..k |-> "task"])
        lane == Len(types) + 1
    IN  <<OpAddLane(lane, label)>>
        \o [i \in DOMAIN types |->
              OpAddNode(i, types[i], label, -lane,
                        IF types[i] = "task" THEN SeedSap(retrieved) ELSE BlankSap)]
        \o Chain(Len(types), {3})

StepTypes == UNION {[1..k -> {"task", "decision"}] : k \in 1..MaxSteps}

Flows(retrieved) ==
    {Flow(steps, l) : steps \in StepTypes, l \in Label}
    \cup {P2PFlow(MaxSteps, l, retrieved) : l \in Label}

\* _build_patch: without nodes there is nothing but flows and lanes to make.
LocalPatches(g, retrieved) ==
    LanePatches(g) \cup EdgePatches(g) \cup Flows(retrieved)
    \cup Renamings(g) \cup Insertions(g) \cup Removals(g)
==============================================================================
