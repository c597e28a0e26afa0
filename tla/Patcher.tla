------------------------------- MODULE Patcher --------------------------------
(***************************************************************************)
(* apply_patch (graph/patcher.py): the operations of a patch are applied   *)
(* to a copy of the current graph one after the other, temporary           *)
(* references are resolved on the way, and the result is validated as a    *)
(* whole.  The first operation that does not apply refuses the patch.      *)
(*                                                                         *)
(* A temporary reference, "@name" in a patch, is a negative number; the    *)
(* ids a patch can name are those of the current graph, MaxGivenId at most *)
(* (or of nothing): the ids that new_id draws are not known beforehand.    *)
(***************************************************************************)
EXTENDS FlowGraph, Sequences

CONSTANTS
    Unset,          \* a field that a change leaves alone
    MaxGivenId,
    MaxRefs,        \* bound on temporary references
    InitialGraph    \* the graphs patches are made for

Ref == (-MaxRefs)..(-1)
GivenId == 1..MaxGivenId
Target == GivenId \cup Ref

NodeChanges == [type : NodeType \cup {None, Unset}, label : Label \cup {None, Unset},
                lane : Target \cup {None, Unset}, sap : SapMetadata \cup {Unset}]

Operation ==
    [op : {"add_node"}, ref : Ref, type : NodeType, label : Label,
     lane : Target \cup {None}, sap : SapMetadata]
    \cup [op : {"update_node"}, id : Target, changes : NodeChanges]
    \cup [op : {"add_edge"}, source : Target, target : Target, label : EdgeLabel]
    \cup [op : {"update_edge"}, id : Target, label : EdgeLabel]
    \cup [op : {"add_lane"}, ref : Ref, label : Label]
    \cup [op : {"update_lane"}, id : Target, label : Label \cup {None}]
    \cup [op : {"remove_node", "remove_edge", "remove_lane"}, id : Target]

ASSUME PatcherAssumption ==
    /\ MaxGivenId \in Nat /\ MaxRefs \in Nat
    /\ None \notin Int /\ Unset \notin Int \cup {None}
    /\ Unset \notin Label /\ Unset \notin NodeType /\ Unset \notin SapMetadata
    /\ None \notin Label /\ None \notin NodeType
    /\ \A g \in InitialGraph :
          /\ IsGraph(g) /\ Document(g)
          /\ NodeIds(g) \cup EdgeIds(g) \cup LaneIds(g) \subseteq GivenId

VARIABLES
    current,        \* the graph the patch is for
    patch,          \* its operations
    applied,        \* how many of them have been applied
    working,        \* the copy they are applied to
    refs,           \* temporary reference -> id
    lastId,         \* the last id drawn
    outcome         \* what has become of the patch

patchVars == <<current, patch, applied, working, refs, lastId, outcome>>

Outcome == {"waiting", "applying", "applied", "refused", "invalid", "unhandled"}

PatchTypeOK ==
    /\ current \in InitialGraph
    /\ patch \in Seq(Operation)
    /\ applied \in 0..Len(patch)
    /\ IsGraph(working)
    /\ DOMAIN refs \subseteq Ref /\ \A r \in DOMAIN refs : refs[r] \in Int
    /\ lastId \in Int /\ lastId >= MaxGivenId
    /\ outcome \in Outcome

PatchInit ==
    /\ current \in InitialGraph
    /\ patch = <<>>
    /\ applied = 0
    /\ working = current
    /\ refs = <<>>
    /\ lastId = MaxGivenId
    /\ outcome = "waiting"

Receive(p) ==
    /\ outcome = "waiting"
    /\ patch' = p
    /\ outcome' = "applying"
    /\ UNCHANGED <<current, applied, working, refs, lastId>>

-----------------------------------------------------------------------------
(* References and ids.                                                     *)

\* _resolve_reference followed by _require_node or _require_lane.
Resolve(v) == IF v \in Ref THEN refs[v] ELSE v
Known(v, things) == (v \in Ref => v \in DOMAIN refs) /\ Resolve(v) \in DOMAIN things

NewId == lastId + 1
BugDeclare(ref) == lastId' = NewId /\ refs' = Put(refs, ref, lastId)
Declare(ref) == lastId' = NewId /\ refs' = Put(refs, ref, NewId)

BugGiven(change, old) == IF change = Unset THEN None ELSE change
Given(change, old) == IF change = Unset THEN old ELSE change

NoOtherEdgeIs(edge, id) ==
    \A e \in EdgeIds(working) \ {id} : Key(working.edges[e]) # Key(edge)

-----------------------------------------------------------------------------
(* The operations: when each applies, and the graph it makes.              *)

CanAddNode(o) ==
    /\ o.ref \notin DOMAIN refs
    /\ o.lane = None \/ Known(o.lane, working.lanes)

AddNode(o) ==
    /\ CanAddNode(o)
    /\ Declare(o.ref)
    /\ working' = [working EXCEPT !.nodes = Put(@, NewId,
          [type |-> o.type, label |-> o.label, lane |-> Resolve(o.lane), sap |-> o.sap])]

CanRemoveNode(o) == o.id \in NodeIds(working)

\* The edges that remove_node keeps.
BugTouches(e, n) == working.edges[e].source = n
Touches(e, n) == n \in {working.edges[e].source, working.edges[e].target}

RemoveNode(o) ==
    /\ CanRemoveNode(o)
    /\ working' = GraphOf(Without(working.nodes, {o.id}),
                          Without(working.edges, {e \in EdgeIds(working) : Touches(e, o.id)}),
                          working.lanes,
                          working.layout \ {o.id})
    /\ UNCHANGED <<refs, lastId>>

CanUpdateNode(o) ==
    /\ o.id \in NodeIds(working)
    /\ o.changes.lane \in {None, Unset} \/ Known(o.changes.lane, working.lanes)

\* The whole node is validated again, and the error is not a PatchError.
ChangesAreNull(o) == None \in {o.changes.type, o.changes.label}

UpdateNode(o) ==
    LET node == working.nodes[o.id] IN
    /\ CanUpdateNode(o)
    /\ ~ChangesAreNull(o)
    /\ working' = [working EXCEPT !.nodes = Put(@, o.id,
          [type |-> Given(o.changes.type, node.type),
           label |-> Given(o.changes.label, node.label),
           lane |-> Given(Resolve(o.changes.lane), node.lane),
           sap |-> Given(o.changes.sap, node.sap)])]
    /\ UNCHANGED <<refs, lastId>>

NewEdge(o) == [source |-> Resolve(o.source), target |-> Resolve(o.target), label |-> o.label]

CanAddEdge(o) ==
    /\ Known(o.source, working.nodes)
    /\ Known(o.target, working.nodes)
    /\ Resolve(o.source) # Resolve(o.target)
    /\ NoOtherEdgeIs(NewEdge(o), NewId)

AddEdge(o) ==
    /\ CanAddEdge(o)
    /\ lastId' = NewId
    /\ working' = [working EXCEPT !.edges = Put(@, NewId, NewEdge(o))]
    /\ UNCHANGED refs

Relabelled(o) == [working.edges[o.id] EXCEPT !.label = o.label]

CanUpdateEdge(o) ==
    /\ o.id \in EdgeIds(working)
    /\ NoOtherEdgeIs(Relabelled(o), o.id)

UpdateEdge(o) ==
    /\ CanUpdateEdge(o)
    /\ working' = [working EXCEPT !.edges = Put(@, o.id, Relabelled(o))]
    /\ UNCHANGED <<refs, lastId>>

CanRemoveEdge(o) == o.id \in EdgeIds(working)

RemoveEdge(o) ==
    /\ CanRemoveEdge(o)
    /\ working' = [working EXCEPT !.edges = Without(@, {o.id})]
    /\ UNCHANGED <<refs, lastId>>

CanAddLane(o) == o.ref \notin DOMAIN refs

AddLane(o) ==
    /\ CanAddLane(o)
    /\ Declare(o.ref)
    /\ working' = [working EXCEPT !.lanes = Put(@, NewId, o.label)]

CanUpdateLane(o) == o.id \in LaneIds(working)

\* Unlike a node, a lane is not validated until the end.
UpdateLane(o) ==
    /\ CanUpdateLane(o)
    /\ working' = [working EXCEPT !.lanes = Put(@, o.id, o.label)]
    /\ UNCHANGED <<refs, lastId>>

CanRemoveLane(o) == o.id \in LaneIds(working)

BugLeaveLane(node, l) == [node EXCEPT !.lane = None]
LeaveLane(node, l) == IF node.lane = l THEN [node EXCEPT !.lane = None] ELSE node

RemoveLane(o) ==
    /\ CanRemoveLane(o)
    /\ working' = [working EXCEPT
          !.lanes = Without(@, {o.id}),
          !.nodes = [n \in DOMAIN @ |-> LeaveLane(@[n], o.id)]]
    /\ UNCHANGED <<refs, lastId>>

-----------------------------------------------------------------------------

Op == patch[applied + 1]
Applying == outcome = "applying" /\ applied < Len(patch)

\* One turn of the loop.
ApplyOperation ==
    /\ Applying
    /\ \/ Op.op = "add_node" /\ AddNode(Op)
       \/ Op.op = "remove_node" /\ RemoveNode(Op)
       \/ Op.op = "update_node" /\ UpdateNode(Op)
       \/ Op.op = "add_edge" /\ AddEdge(Op)
       \/ Op.op = "update_edge" /\ UpdateEdge(Op)
       \/ Op.op = "remove_edge" /\ RemoveEdge(Op)
       \/ Op.op = "add_lane" /\ AddLane(Op)
       \/ Op.op = "update_lane" /\ UpdateLane(Op)
       \/ Op.op = "remove_lane" /\ RemoveLane(Op)
    /\ applied' = applied + 1
    /\ UNCHANGED <<current, patch, outcome>>

\* A PatchError, with the index of the operation.
Applicable(o) ==
    \/ o.op = "add_node" /\ CanAddNode(o)
    \/ o.op = "remove_node" /\ CanRemoveNode(o)
    \/ o.op = "update_node" /\ CanUpdateNode(o)
    \/ o.op = "add_edge" /\ CanAddEdge(o)
    \/ o.op = "update_edge" /\ CanUpdateEdge(o)
    \/ o.op = "remove_edge" /\ CanRemoveEdge(o)
    \/ o.op = "add_lane" /\ CanAddLane(o)
    \/ o.op = "update_lane" /\ CanUpdateLane(o)
    \/ o.op = "remove_lane" /\ CanRemoveLane(o)

RefuseOperation ==
    /\ Applying
    /\ ~Applicable(Op)
    /\ outcome' = "refused"
    /\ UNCHANGED <<current, patch, applied, working, refs, lastId>>

FailOperation ==
    /\ Applying
    /\ Op.op = "update_node" /\ CanUpdateNode(Op) /\ ChangesAreNull(Op)
    /\ outcome' = "unhandled"
    /\ UNCHANGED <<current, patch, applied, working, refs, lastId>>

\* GraphDocument.model_validate on the result.
Validate ==
    /\ outcome = "applying"
    /\ applied = Len(patch)
    /\ \/ /\ ValidGraph(working) /\ FieldsAreValid(working)
          /\ working' = CutLayout(working)
          /\ outcome' = "applied"
       \/ /\ ~(ValidGraph(working) /\ FieldsAreValid(working))
          /\ outcome' = "invalid"
          /\ UNCHANGED working
    /\ UNCHANGED <<current, patch, applied, refs, lastId>>

ApplyPatch == ApplyOperation \/ RefuseOperation \/ FailOperation \/ Validate

\* Any patch at all, for any of the graphs.
PatchNext == ApplyPatch \/ \E p \in Seq(Operation) : Receive(p)

PatchSpec == PatchInit /\ [][PatchNext]_patchVars

-----------------------------------------------------------------------------
(* Properties.                                                             *)

\* After every operation, not only after the last, the graph is one that
\* validate_graph admits and no position is left of a node that is gone: the
\* checks and cascades of the operations leave the final validation nothing to
\* refuse but a limit or the null label of a lane.
WorkingIsValid ==
    /\ ValidGraph(working)
    /\ LayoutIsKnown(working)
    /\ outcome = "invalid" => ~FieldsAreValid(working)

\* Every temporary reference stays the name of one node or lane that the patch
\* has made: later operations cannot take it away, and no two share one.
RefsAreLive ==
    /\ \A r \in DOMAIN refs :
          refs[r] \in (NodeIds(working) \ NodeIds(current)) \cup (LaneIds(working) \ LaneIds(current))
    /\ \A r, s \in DOMAIN refs : refs[r] = refs[s] => r = s

\* What the operations applied so far have named.
Named(ops) == {patch[i].id : i \in {j \in 1..applied : patch[j].op \in ops}}

NodesStay ==
    LET gone == Named({"remove_node"}) IN
    NodeIds(current) \ gone \subseteq NodeIds(working) /\ gone \cap NodeIds(working) = {}

NodesStayAsTheyAre ==
    \A n \in NodeIds(current) \cap NodeIds(working) :
        \/ working.nodes[n] = current.nodes[n]
        \/ n \in Named({"update_node"})
        \/ /\ current.nodes[n].lane \in Named({"remove_lane"})
           /\ working.nodes[n] = [current.nodes[n] EXCEPT !.lane = None]

EdgesStay ==
    \A e \in EdgeIds(current) \ Named({"remove_edge"}) :
        \/ e \in EdgeIds(working)
        \/ {current.edges[e].source, current.edges[e].target} \cap Named({"remove_node"}) # {}

EdgesStayAsTheyAre ==
    \A e \in EdgeIds(current) \cap EdgeIds(working) :
        \/ working.edges[e] = current.edges[e]
        \/ /\ e \in Named({"update_edge"})
           /\ working.edges[e] = [current.edges[e] EXCEPT !.label = working.edges[e].label]

LanesStay ==
    \A l \in LaneIds(current) \ Named({"remove_lane"}) :
        /\ l \in LaneIds(working)
        /\ l \in Named({"update_lane"}) \/ working.lanes[l] = current.lanes[l]

LayoutStays == current.layout \ Named({"remove_node"}) \subseteq working.layout

\* "Ids and fields of objects that are not concerned must stay" (IMPLEMENTATION.md,
\* 8.2), and the endpoints of an edge that is: an element goes or changes only by
\* name, but for the edges of a removed node and the lane of a removed lane's
\* nodes; what is gone does not come back, and every position stays.
OnlyNamedChange ==
    /\ NodesStay /\ NodesStayAsTheyAre
    /\ EdgesStay /\ EdgesStayAsTheyAre
    /\ LanesStay
    /\ LayoutStays

\* What a reference names was drawn, so no operation can name its id: why
\* RefsAreLive holds.
RefsAreDrawn ==
    /\ \A r \in DOMAIN refs :
          /\ refs[r] \in (MaxGivenId + 1)..lastId
          /\ refs[r] \in NodeIds(working) \cup LaneIds(working)
    /\ \A r, s \in DOMAIN refs : refs[r] = refs[s] => r = s
==============================================================================
