---------------------------- MODULE Patcher_proofs ----------------------------
(***************************************************************************)
(* Proofs about Patcher: for any graphs, any patch and any limits.  The    *)
(* argument is CoreInv: every operation takes a graph of known ids that    *)
(* validate_graph admits to another, and the ids it draws are ids that no  *)
(* operation can name.                                                     *)
(***************************************************************************)
EXTENDS Patcher, TLAPS

\* A graph that is whole: IsGraph, valid, and with ids up to a bound.
Whole(g, bound) ==
    /\ IsGraph(g) /\ ValidGraph(g) /\ LayoutIsKnown(g)
    /\ NodeIds(g) \cup EdgeIds(g) \cup LaneIds(g) \subseteq 1..bound

-----------------------------------------------------------------------------
(* The operations of a patch.                                              *)

LEMMA OperationFields ==
    ASSUME NEW o \in Operation
    PROVE  /\ o.op = "add_node" =>
                  /\ o.ref \in Ref /\ o.type \in NodeType /\ o.label \in Label
                  /\ o.lane \in Target \cup {None} /\ o.sap \in SapMetadata
           /\ o.op = "update_node" => o.id \in Target /\ o.changes \in NodeChanges
           /\ o.op = "add_edge" => o.source \in Target /\ o.target \in Target /\ o.label \in EdgeLabel
           /\ o.op = "update_edge" => o.id \in Target /\ o.label \in EdgeLabel
           /\ o.op = "add_lane" => o.ref \in Ref /\ o.label \in Label
           /\ o.op = "update_lane" => o.id \in Target /\ o.label \in Label \cup {None}
           /\ o.op \in {"remove_node", "remove_edge", "remove_lane"} => o.id \in Target
BY DEF Operation

\* An id that is in a graph and can be named is the id of something given.
LEMMA NamedIsGiven ==
    ASSUME NEW id \in Target, id >= 1
    PROVE  id \in GivenId
BY PatcherAssumption DEF Target, GivenId, Ref

-----------------------------------------------------------------------------
(* Changes to one part of a graph.                                         *)

\* A node is added or replaced.
LEMMA PutNode ==
    ASSUME NEW g, NEW bound \in Int, NEW n \in 1..bound, NEW node \in Node, Whole(g, bound),
           node.lane \in LaneIds(g) \cup {None}
    PROVE  Whole(GraphOf(Put(g.nodes, n, node), g.edges, g.lanes, g.layout), bound)
BY DEF Whole, IsGraph, ValidGraph, LanesAreKnown, EndsAreKnown, NoEdgeIsALoop,
       EdgesAreDistinct, LayoutIsKnown, GraphOf, Put, NodeIds, EdgeIds, LaneIds

\* An edge is added or replaced.
LEMMA PutEdge ==
    ASSUME NEW g, NEW bound \in Int, NEW e \in 1..bound, NEW edge \in Edge, Whole(g, bound),
           edge.source \in NodeIds(g), edge.target \in NodeIds(g), edge.source # edge.target,
           \A f \in EdgeIds(g) \ {e} : Key(g.edges[f]) # Key(edge)
    PROVE  Whole(GraphOf(g.nodes, Put(g.edges, e, edge), g.lanes, g.layout), bound)
BY DEF Whole, IsGraph, ValidGraph, LanesAreKnown, EndsAreKnown, NoEdgeIsALoop,
       EdgesAreDistinct, LayoutIsKnown, GraphOf, Put, NodeIds, EdgeIds, LaneIds

\* A lane is added or replaced.
LEMMA PutLane ==
    ASSUME NEW g, NEW bound \in Int, NEW l \in 1..bound, NEW label \in Label \cup {None},
           Whole(g, bound)
    PROVE  Whole(GraphOf(g.nodes, g.edges, Put(g.lanes, l, label), g.layout), bound)
BY DEF Whole, IsGraph, ValidGraph, LanesAreKnown, EndsAreKnown, NoEdgeIsALoop,
       EdgesAreDistinct, LayoutIsKnown, GraphOf, Put, NodeIds, EdgeIds, LaneIds

\* Edges are removed.
LEMMA WithoutEdges ==
    ASSUME NEW g, NEW bound \in Int, NEW S, Whole(g, bound)
    PROVE  Whole(GraphOf(g.nodes, Without(g.edges, S), g.lanes, g.layout), bound)
BY DEF Whole, IsGraph, ValidGraph, LanesAreKnown, EndsAreKnown, NoEdgeIsALoop,
       EdgesAreDistinct, LayoutIsKnown, GraphOf, Without, NodeIds, EdgeIds, LaneIds

\* A node is removed that no edge touches any more.
LEMMA WithoutNode ==
    ASSUME NEW g, NEW bound \in Int, NEW n, Whole(g, bound),
           \A e \in EdgeIds(g) : g.edges[e].source # n /\ g.edges[e].target # n
    PROVE  Whole(GraphOf(Without(g.nodes, {n}), g.edges, g.lanes, g.layout \ {n}), bound)
BY DEF Whole, IsGraph, ValidGraph, LanesAreKnown, EndsAreKnown, NoEdgeIsALoop,
       EdgesAreDistinct, LayoutIsKnown, GraphOf, Without, NodeIds, EdgeIds, LaneIds

\* A lane is removed and its nodes leave it.
LEMMA LeaveLaneType ==
    ASSUME NEW node \in Node, NEW l
    PROVE  /\ LeaveLane(node, l) \in Node
           /\ LeaveLane(node, l).lane # l \/ l = None
           /\ LeaveLane(node, l).lane \in {node.lane, None}
BY DEF LeaveLane, Node

LEMMA WithoutLane ==
    ASSUME NEW g, NEW bound \in Int, NEW l \in 1..bound, Whole(g, bound)
    PROVE  Whole(GraphOf([n \in NodeIds(g) |-> LeaveLane(g.nodes[n], l)], g.edges,
                         Without(g.lanes, {l}), g.layout), bound)
<1> DEFINE nodes == [n \in NodeIds(g) |-> LeaveLane(g.nodes[n], l)]
           h == GraphOf(nodes, g.edges, Without(g.lanes, {l}), g.layout)
<1>1. \A n \in NodeIds(g) : g.nodes[n] \in Node
  BY DEF Whole, IsGraph
<1>2. l # None
  BY PatcherAssumption
<1>3. \A n \in NodeIds(g) : /\ nodes[n] \in Node
                            /\ nodes[n].lane # l
                            /\ nodes[n].lane \in {g.nodes[n].lane, None}
  BY <1>1, <1>2, LeaveLaneType
<1>4. NodeIds(h) = NodeIds(g) /\ EdgeIds(h) = EdgeIds(g) /\ LaneIds(h) = LaneIds(g) \ {l}
  BY DEF GraphOf, Without, NodeIds, EdgeIds, LaneIds
<1>5. h.nodes = nodes /\ h.edges = g.edges /\ h.layout = g.layout
  BY DEF GraphOf
<1>6. \A k \in LaneIds(h) : h.lanes[k] = g.lanes[k]
  BY DEF GraphOf, Without, LaneIds
<1> HIDE DEF nodes
<1>7. IsGraph(h)
  BY <1>3, <1>4, <1>5, <1>6 DEF Whole, IsGraph, GraphOf
<1>8. ValidGraph(h) /\ LayoutIsKnown(h)
  <2>1. LanesAreKnown(h)
    BY <1>3, <1>4, <1>5, ZenonT(60) DEF Whole, ValidGraph, LanesAreKnown
  <2> QED BY <2>1, <1>4, <1>5, ZenonT(60) DEF Whole, ValidGraph, EndsAreKnown, NoEdgeIsALoop,
                                  EdgesAreDistinct, LayoutIsKnown
<1>9. NodeIds(h) \cup EdgeIds(h) \cup LaneIds(h) \subseteq 1..bound
  BY <1>4 DEF Whole
<1> QED BY <1>7, <1>8, <1>9 DEF Whole, nodes

-----------------------------------------------------------------------------
(* The operations as changes of the working copy.                          *)

\* What the proofs of the operations share.
Core == PatchTypeOK /\ Whole(working, lastId) /\ RefsAreDrawn

LEMMA MoreIds ==
    ASSUME NEW g, NEW b \in Int, NEW c \in Int, b <= c, Whole(g, b)
    PROVE  Whole(g, c)
BY DEF Whole

\* The next id is new and the refs stay below it.
LEMMA NewIdIsNew ==
    ASSUME Core
    PROVE  /\ lastId \in Int /\ lastId >= MaxGivenId /\ MaxGivenId \in Nat
           /\ NewId \in Int /\ NewId >= 1 /\ NewId > MaxGivenId /\ lastId <= NewId
           /\ NewId \in 1..NewId
           /\ NewId \notin NodeIds(working) \cup EdgeIds(working) \cup LaneIds(working)
           /\ Whole(working, NewId)
<1>1. lastId \in Int /\ lastId >= MaxGivenId /\ MaxGivenId \in Nat
  BY PatcherAssumption DEF Core, PatchTypeOK
<1>2. Whole(working, NewId)
  BY <1>1, MoreIds DEF Core, NewId
<1> QED BY <1>1, <1>2 DEF Core, Whole, NewId

\* A field of the working copy is replaced.
LEMMA Replaced ==
    ASSUME IsGraph(working), NEW x
    PROVE  /\ [working EXCEPT !.nodes = x] = GraphOf(x, working.edges, working.lanes, working.layout)
           /\ [working EXCEPT !.edges = x] = GraphOf(working.nodes, x, working.lanes, working.layout)
           /\ [working EXCEPT !.lanes = x] = GraphOf(working.nodes, working.edges, x, working.layout)
BY DEF IsGraph, GraphOf

\* What a name that is known stands for.
LEMMA Resolved ==
    ASSUME NEW v \in Target \cup {None, Unset}, NEW things
    PROVE  /\ v \in {None, Unset} => Resolve(v) = v
           /\ Known(v, things) => Resolve(v) \in DOMAIN things
<1>1. None \notin Ref /\ Unset \notin Ref
  BY PatcherAssumption DEF Ref
<1> QED BY <1>1 DEF Resolve, Known

\* References stay drawn when nodes and lanes only come and what goes was given.
LEMMA RefsStay ==
    ASSUME Core, UNCHANGED <<refs, lastId>>, NEW id \in GivenId,
           (NodeIds(working) \cup LaneIds(working)) \ {id} \subseteq (NodeIds(working) \cup LaneIds(working))'
    PROVE  RefsAreDrawn'
BY PatcherAssumption DEF Core, RefsAreDrawn, GivenId

\* A reference is declared for what has the new id.
LEMMA RefsGrow ==
    ASSUME Core, NEW ref \in Ref, ref \notin DOMAIN refs, Declare(ref),
           NodeIds(working) \cup LaneIds(working) \cup {NewId} \subseteq (NodeIds(working) \cup LaneIds(working))'
    PROVE  /\ RefsAreDrawn'
           /\ DOMAIN refs' \subseteq Ref /\ \A r \in DOMAIN refs' : refs'[r] \in Int
<1>1. lastId \in Int /\ MaxGivenId \in Nat /\ lastId >= MaxGivenId
  BY PatcherAssumption DEF Core, PatchTypeOK
<1>2. DOMAIN refs' = DOMAIN refs \cup {ref} /\ lastId' = lastId + 1
  BY DEF Declare, Put, NewId
<1>3. refs'[ref] = lastId + 1 /\ \A r \in DOMAIN refs : refs'[r] = refs[r]
  BY DEF Declare, Put, NewId
<1>4. \A r \in DOMAIN refs : refs[r] \in (MaxGivenId + 1)..lastId
  BY DEF Core, RefsAreDrawn
<1>5. \A r \in DOMAIN refs' : refs'[r] \in (MaxGivenId + 1)..lastId'
  BY <1>1, <1>2, <1>3, <1>4
<1>6. \A r \in DOMAIN refs' : refs'[r] \in (NodeIds(working) \cup LaneIds(working))'
  BY <1>2, <1>3 DEF Core, RefsAreDrawn, NewId
<1>7. \A r, q \in DOMAIN refs' : refs'[r] = refs'[q] => r = q
  <2>1. \A r \in DOMAIN refs : refs'[r] # refs'[ref]
    BY <1>1, <1>3, <1>4
  <2> QED BY <2>1, <1>2, <1>3 DEF Core, RefsAreDrawn
<1>8. DOMAIN refs' \subseteq Ref
  BY <1>2 DEF Core, PatchTypeOK
<1>9. \A r \in DOMAIN refs' : refs'[r] \in Int
  BY <1>1, <1>2, <1>5
<1> QED BY <1>5, <1>6, <1>7, <1>8, <1>9 DEF RefsAreDrawn

LEMMA AddNodeStep ==
    ASSUME Core, NEW o \in Operation, o.op = "add_node", AddNode(o)
    PROVE  /\ Whole(working', lastId')
           /\ RefsAreDrawn'
           /\ DOMAIN refs' \subseteq Ref /\ \A r \in DOMAIN refs' : refs'[r] \in Int
<1> DEFINE node == [type |-> o.type, label |-> o.label, lane |-> Resolve(o.lane), sap |-> o.sap]
<1>1. /\ o.ref \in Ref /\ o.type \in NodeType /\ o.label \in Label
      /\ o.lane \in Target \cup {None} /\ o.sap \in SapMetadata
  BY OperationFields
<1>2. Resolve(o.lane) \in LaneIds(working) \cup {None}
  BY <1>1, Resolved DEF AddNode, CanAddNode, LaneIds
<1>3. LaneIds(working) \subseteq Int
  BY DEF Core, Whole, IsGraph
<1>4. node \in Node /\ node.lane \in LaneIds(working) \cup {None}
  BY <1>1, <1>2, <1>3 DEF Node
<1>5. working' = GraphOf(Put(working.nodes, NewId, node), working.edges, working.lanes, working.layout)
  BY Replaced DEF AddNode, Core, Whole
<1>6. lastId' = NewId
  BY DEF AddNode, Declare
<1>7. Whole(working', lastId')
  <2> HIDE DEF node
  <2> QED BY <1>4, <1>5, <1>6, NewIdIsNew, PutNode
<1>8. NodeIds(working) \cup LaneIds(working) \cup {NewId} \subseteq (NodeIds(working) \cup LaneIds(working))'
  BY <1>5 DEF GraphOf, Put, NodeIds, LaneIds
<1> QED BY <1>1, <1>7, <1>8, RefsGrow DEF AddNode, CanAddNode

LEMMA RemoveNodeStep ==
    ASSUME Core, NEW o \in Operation, o.op = "remove_node", RemoveNode(o)
    PROVE  Whole(working', lastId') /\ RefsAreDrawn' /\ o.id \in GivenId
<1> DEFINE T == {e \in EdgeIds(working) : Touches(e, o.id)}
           g == GraphOf(working.nodes, Without(working.edges, T), working.lanes, working.layout)
<1>1. o.id \in GivenId
  <2>1. o.id \in Target
    BY OperationFields
  <2>2. o.id >= 1
    BY DEF RemoveNode, CanRemoveNode, Core, Whole
  <2> QED BY <2>1, <2>2, NamedIsGiven
<1>2. lastId' = lastId /\ lastId \in Int
  BY DEF RemoveNode, Core, PatchTypeOK
<1>3. Whole(g, lastId)
  BY <1>2, WithoutEdges DEF Core
<1>4. /\ g.nodes = working.nodes /\ g.edges = Without(working.edges, T)
      /\ g.lanes = working.lanes /\ g.layout = working.layout
  BY DEF GraphOf
<1>5. \A e \in EdgeIds(g) : g.edges[e].source # o.id /\ g.edges[e].target # o.id
  BY <1>4 DEF EdgeIds, Without, Touches
<1>6. working' = GraphOf(Without(g.nodes, {o.id}), g.edges, g.lanes, g.layout \ {o.id})
  BY <1>4 DEF RemoveNode
<1>7. Whole(working', lastId')
  <2> HIDE DEF g
  <2> QED BY <1>2, <1>3, <1>5, <1>6, WithoutNode
<1>8. (NodeIds(working) \cup LaneIds(working)) \ {o.id} \subseteq (NodeIds(working) \cup LaneIds(working))'
  BY <1>4, <1>6 DEF GraphOf, Without, NodeIds, LaneIds
<1> QED BY <1>1, <1>7, <1>8, RefsStay DEF RemoveNode

LEMMA UpdateNodeStep ==
    ASSUME Core, NEW o \in Operation, o.op = "update_node", UpdateNode(o)
    PROVE  Whole(working', lastId') /\ RefsAreDrawn'
<1> DEFINE old == working.nodes[o.id]
           node == [type |-> Given(o.changes.type, old.type),
                    label |-> Given(o.changes.label, old.label),
                    lane |-> Given(Resolve(o.changes.lane), old.lane),
                    sap |-> Given(o.changes.sap, old.sap)]
<1>1. /\ o.changes.type \in NodeType \cup {None, Unset} /\ o.changes.label \in Label \cup {None, Unset}
      /\ o.changes.lane \in Target \cup {None, Unset} /\ o.changes.sap \in SapMetadata \cup {Unset}
  BY OperationFields DEF NodeChanges
<1>2. old \in Node /\ old.lane \in LaneIds(working) \cup {None} /\ o.id \in 1..lastId
  BY DEF UpdateNode, CanUpdateNode, Core, Whole, IsGraph, ValidGraph, LanesAreKnown
<1>3. o.changes.type # None /\ o.changes.label # None
  BY DEF UpdateNode, ChangesAreNull
<1>4. Given(Resolve(o.changes.lane), old.lane) \in LaneIds(working) \cup {None}
  BY <1>1, <1>2, Resolved DEF UpdateNode, CanUpdateNode, LaneIds, Given
<1>5. LaneIds(working) \subseteq Int /\ lastId \in Int
  BY DEF Core, Whole, IsGraph, PatchTypeOK
<1>6. node \in Node /\ node.lane \in LaneIds(working) \cup {None}
  BY <1>1, <1>2, <1>3, <1>4, <1>5 DEF Node, Given
<1>7. working' = GraphOf(Put(working.nodes, o.id, node), working.edges, working.lanes, working.layout)
  BY Replaced DEF UpdateNode, Core, Whole
<1>8. Whole(working', lastId)
  <2> HIDE DEF node
  <2> QED BY <1>2, <1>5, <1>6, <1>7, PutNode DEF Core
<1>9. NodeIds(working) \cup LaneIds(working) \subseteq (NodeIds(working) \cup LaneIds(working))'
  BY <1>7 DEF GraphOf, Put, NodeIds, LaneIds
<1> QED BY <1>8, <1>9 DEF UpdateNode, Core, RefsAreDrawn

\* A step that leaves nodes, lanes and references alone and only draws an id.
LEMMA OnlyEdges ==
    ASSUME Core, UNCHANGED refs, lastId' \in Int, lastId <= lastId',
           NodeIds(working)' = NodeIds(working), LaneIds(working)' = LaneIds(working)
    PROVE  RefsAreDrawn'
<1>1. lastId \in Int /\ MaxGivenId \in Nat
  BY PatcherAssumption DEF Core, PatchTypeOK
<1> QED BY <1>1 DEF Core, RefsAreDrawn

LEMMA AddEdgeStep ==
    ASSUME Core, NEW o \in Operation, o.op = "add_edge", AddEdge(o)
    PROVE  Whole(working', lastId') /\ RefsAreDrawn'
<1>1. o.source \in Target /\ o.target \in Target /\ o.label \in EdgeLabel
  BY OperationFields
<1>2. /\ Resolve(o.source) \in NodeIds(working) /\ Resolve(o.target) \in NodeIds(working)
      /\ Resolve(o.source) # Resolve(o.target)
  BY <1>1, Resolved DEF AddEdge, CanAddEdge, NodeIds
<1>3. NewEdge(o) \in Edge /\ NewEdge(o).source = Resolve(o.source)
      /\ NewEdge(o).target = Resolve(o.target)
  BY <1>1, <1>2 DEF NewEdge, Edge, Core, Whole, IsGraph
<1>4. \A f \in EdgeIds(working) \ {NewId} : Key(working.edges[f]) # Key(NewEdge(o))
  BY DEF AddEdge, CanAddEdge, NoOtherEdgeIs
<1>5. working' = GraphOf(working.nodes, Put(working.edges, NewId, NewEdge(o)), working.lanes, working.layout)
  BY Replaced DEF AddEdge, Core, Whole
<1>6. Whole(working', lastId')
  BY <1>2, <1>3, <1>4, <1>5, NewIdIsNew, PutEdge DEF AddEdge
<1>7. NodeIds(working)' = NodeIds(working) /\ LaneIds(working)' = LaneIds(working)
  BY <1>5 DEF GraphOf, NodeIds, LaneIds
<1> QED BY <1>6, <1>7, OnlyEdges, NewIdIsNew DEF AddEdge

LEMMA UpdateEdgeStep ==
    ASSUME Core, NEW o \in Operation, o.op = "update_edge", UpdateEdge(o)
    PROVE  Whole(working', lastId') /\ RefsAreDrawn'
<1> DEFINE old == working.edges[o.id]
           edge == Relabelled(o)
<1>1. o.label \in EdgeLabel /\ o.id \in EdgeIds(working) /\ o.id \in 1..lastId
  BY OperationFields DEF UpdateEdge, CanUpdateEdge, Core, Whole
<1>2. old \in Edge /\ {old.source, old.target} \subseteq NodeIds(working) /\ old.source # old.target
  BY <1>1 DEF Core, Whole, IsGraph, ValidGraph, EndsAreKnown, NoEdgeIsALoop
<1>3. edge \in Edge /\ edge.source = old.source /\ edge.target = old.target
  BY <1>1, <1>2 DEF Relabelled, Edge
<1>4. \A f \in EdgeIds(working) \ {o.id} : Key(working.edges[f]) # Key(edge)
  BY DEF UpdateEdge, CanUpdateEdge, NoOtherEdgeIs
<1>5. working' = GraphOf(working.nodes, Put(working.edges, o.id, edge), working.lanes, working.layout)
  BY Replaced DEF UpdateEdge, Core, Whole
<1>6. lastId \in Int /\ lastId' = lastId
  BY DEF UpdateEdge, Core, PatchTypeOK
<1>7. Whole(working', lastId')
  <2> HIDE DEF edge
  <2>1. edge.source \in NodeIds(working) /\ edge.target \in NodeIds(working) /\ edge.source # edge.target
    BY <1>2, <1>3
  <2> QED BY <2>1, <1>1, <1>3, <1>4, <1>5, <1>6, PutEdge DEF Core
<1>8. NodeIds(working)' = NodeIds(working) /\ LaneIds(working)' = LaneIds(working)
  BY <1>5 DEF GraphOf, NodeIds, LaneIds
<1> QED BY <1>6, <1>7, <1>8, OnlyEdges DEF UpdateEdge

LEMMA RemoveEdgeStep ==
    ASSUME Core, NEW o \in Operation, RemoveEdge(o)
    PROVE  Whole(working', lastId') /\ RefsAreDrawn'
<1>1. lastId \in Int /\ lastId' = lastId
  BY DEF RemoveEdge, Core, PatchTypeOK
<1>2. working' = GraphOf(working.nodes, Without(working.edges, {o.id}), working.lanes, working.layout)
  BY Replaced DEF RemoveEdge, Core, Whole
<1>3. Whole(working', lastId')
  BY <1>1, <1>2, WithoutEdges DEF Core
<1>4. NodeIds(working)' = NodeIds(working) /\ LaneIds(working)' = LaneIds(working)
  BY <1>2 DEF GraphOf, NodeIds, LaneIds
<1> QED BY <1>1, <1>3, <1>4, OnlyEdges DEF RemoveEdge

LEMMA AddLaneStep ==
    ASSUME Core, NEW o \in Operation, o.op = "add_lane", AddLane(o)
    PROVE  /\ Whole(working', lastId')
           /\ RefsAreDrawn'
           /\ DOMAIN refs' \subseteq Ref /\ \A r \in DOMAIN refs' : refs'[r] \in Int
<1>1. o.ref \in Ref /\ o.label \in Label
  BY OperationFields
<1>2. working' = GraphOf(working.nodes, working.edges, Put(working.lanes, NewId, o.label), working.layout)
  BY Replaced DEF AddLane, Core, Whole
<1>3. Whole(working', lastId')
  BY <1>1, <1>2, NewIdIsNew, PutLane DEF AddLane, Declare
<1>4. NodeIds(working) \cup LaneIds(working) \cup {NewId} \subseteq (NodeIds(working) \cup LaneIds(working))'
  BY <1>2 DEF GraphOf, Put, NodeIds, LaneIds
<1> QED BY <1>1, <1>3, <1>4, RefsGrow DEF AddLane, CanAddLane

LEMMA UpdateLaneStep ==
    ASSUME Core, NEW o \in Operation, o.op = "update_lane", UpdateLane(o)
    PROVE  Whole(working', lastId') /\ RefsAreDrawn'
<1>1. o.label \in Label \cup {None} /\ o.id \in 1..lastId
  BY OperationFields DEF UpdateLane, CanUpdateLane, Core, Whole
<1>2. lastId \in Int /\ lastId' = lastId
  BY DEF UpdateLane, Core, PatchTypeOK
<1>3. working' = GraphOf(working.nodes, working.edges, Put(working.lanes, o.id, o.label), working.layout)
  BY Replaced DEF UpdateLane, Core, Whole
<1>4. Whole(working', lastId')
  BY <1>1, <1>2, <1>3, PutLane DEF Core
<1>5. NodeIds(working) \cup LaneIds(working) \subseteq (NodeIds(working) \cup LaneIds(working))'
  BY <1>3 DEF GraphOf, Put, NodeIds, LaneIds
<1> QED BY <1>4, <1>5 DEF UpdateLane, Core, RefsAreDrawn

LEMMA RemoveLaneStep ==
    ASSUME Core, NEW o \in Operation, o.op = "remove_lane", RemoveLane(o)
    PROVE  Whole(working', lastId') /\ RefsAreDrawn'
<1>1. o.id \in Target /\ o.id \in 1..lastId
  BY OperationFields DEF RemoveLane, CanRemoveLane, Core, Whole
<1>2. lastId \in Int /\ lastId' = lastId
  BY DEF RemoveLane, Core, PatchTypeOK
<1>3. o.id \in GivenId
  BY <1>1, <1>2, NamedIsGiven
<1>4. working' = GraphOf([n \in NodeIds(working) |-> LeaveLane(working.nodes[n], o.id)],
                         working.edges, Without(working.lanes, {o.id}), working.layout)
  BY DEF RemoveLane, Core, Whole, IsGraph, GraphOf, NodeIds
<1>5. Whole(working', lastId')
  BY <1>1, <1>2, <1>4, WithoutLane DEF Core
<1>6. (NodeIds(working) \cup LaneIds(working)) \ {o.id} \subseteq (NodeIds(working) \cup LaneIds(working))'
  BY <1>4 DEF GraphOf, Without, NodeIds, LaneIds
<1> QED BY <1>3, <1>5, <1>6, RefsStay DEF RemoveLane

-----------------------------------------------------------------------------
(* Every step of a patch.                                                  *)

CoreInv ==
    /\ Core
    /\ outcome = "invalid" => ~FieldsAreValid(working)
    /\ outcome = "waiting" => applied = 0

LEMMA OpIsOperation ==
    ASSUME Core, Applying
    PROVE  /\ Op \in Operation /\ applied \in Nat /\ applied + 1 \in 1..Len(patch)
           /\ outcome = "applying"
BY DEF Core, PatchTypeOK, Applying, Op

\* The layout holds nothing that the final validation could cut.
LEMMA NothingIsCut ==
    ASSUME Core
    PROVE  CutLayout(working) = working
BY DEF Core, Whole, IsGraph, LayoutIsKnown, CutLayout, GraphOf

LEMMA CoreAtFirst == ASSUME PatchInit PROVE CoreInv
<1>1. /\ IsGraph(current) /\ Document(current)
      /\ NodeIds(current) \cup EdgeIds(current) \cup LaneIds(current) \subseteq GivenId
  BY PatcherAssumption DEF PatchInit
<1>2. MaxGivenId \in Nat
  BY PatcherAssumption
<1>3. PatchTypeOK
  BY <1>1, <1>2 DEF PatchInit, PatchTypeOK, Outcome
<1>4. Whole(working, lastId)
  BY <1>1 DEF PatchInit, Whole, Document, GivenId
<1>5. RefsAreDrawn
  BY DEF PatchInit, RefsAreDrawn
<1> QED BY <1>3, <1>4, <1>5 DEF PatchInit, CoreInv, Core

LEMMA CoreAfterOperation == ASSUME CoreInv, ApplyOperation PROVE CoreInv'
<1>0. Core /\ Op \in Operation /\ outcome' = "applying"
  BY OpIsOperation DEF CoreInv, ApplyOperation
<1>1. /\ Whole(working', lastId') /\ RefsAreDrawn'
      /\ DOMAIN refs' \subseteq Ref /\ \A r \in DOMAIN refs' : refs'[r] \in Int
      /\ lastId' \in Int /\ lastId' >= MaxGivenId
  <2>0. /\ DOMAIN refs \subseteq Ref /\ \A r \in DOMAIN refs : refs[r] \in Int
        /\ lastId \in Int /\ lastId >= MaxGivenId
    BY <1>0 DEF Core, PatchTypeOK
  <2>1. CASE Op.op = "add_node" /\ AddNode(Op)
    BY <2>1, <1>0, AddNodeStep, NewIdIsNew DEF AddNode, Declare
  <2>2. CASE Op.op = "remove_node" /\ RemoveNode(Op)
    BY <2>0, <2>2, <1>0, RemoveNodeStep DEF RemoveNode
  <2>3. CASE Op.op = "update_node" /\ UpdateNode(Op)
    BY <2>0, <2>3, <1>0, UpdateNodeStep DEF UpdateNode
  <2>4. CASE Op.op = "add_edge" /\ AddEdge(Op)
    BY <2>0, <2>4, <1>0, AddEdgeStep, NewIdIsNew DEF AddEdge
  <2>5. CASE Op.op = "update_edge" /\ UpdateEdge(Op)
    BY <2>0, <2>5, <1>0, UpdateEdgeStep DEF UpdateEdge
  <2>6. CASE Op.op = "remove_edge" /\ RemoveEdge(Op)
    BY <2>0, <2>6, <1>0, RemoveEdgeStep DEF RemoveEdge
  <2>7. CASE Op.op = "add_lane" /\ AddLane(Op)
    BY <2>7, <1>0, AddLaneStep, NewIdIsNew DEF AddLane, Declare
  <2>8. CASE Op.op = "update_lane" /\ UpdateLane(Op)
    BY <2>0, <2>8, <1>0, UpdateLaneStep DEF UpdateLane
  <2>9. CASE Op.op = "remove_lane" /\ RemoveLane(Op)
    BY <2>0, <2>9, <1>0, RemoveLaneStep DEF RemoveLane
  <2> QED BY <2>1, <2>2, <2>3, <2>4, <2>5, <2>6, <2>7, <2>8, <2>9 DEF ApplyOperation
<1>2. applied' \in 0..Len(patch')
  BY <1>0, OpIsOperation DEF ApplyOperation
<1>3. PatchTypeOK'
  BY <1>0, <1>1, <1>2 DEF ApplyOperation, PatchTypeOK, Core, Whole, Outcome
<1> QED BY <1>0, <1>1, <1>3 DEF CoreInv, Core

LEMMA CoreAfterStep == ASSUME CoreInv, [PatchNext]_patchVars PROVE CoreInv'
<1>1. CASE ApplyOperation
  BY <1>1, CoreAfterOperation
<1>2. CASE RefuseOperation \/ FailOperation
  BY <1>2, OpIsOperation
     DEF RefuseOperation, FailOperation, CoreInv, Core, PatchTypeOK, Whole, RefsAreDrawn, Outcome
<1>3. CASE Validate
  <2>1. working' = working
    BY <1>3, NothingIsCut DEF Validate, CoreInv
  <2> QED BY <2>1, <1>3 DEF Validate, CoreInv, Core, PatchTypeOK, Whole, RefsAreDrawn, Outcome
<1>4. ASSUME NEW p \in Seq(Operation), Receive(p) PROVE CoreInv'
  <2>1. applied' \in 0..Len(patch')
    BY <1>4 DEF Receive, CoreInv
  <2> QED BY <2>1, <1>4 DEF Receive, CoreInv, Core, PatchTypeOK, Whole, RefsAreDrawn, Outcome
<1>5. CASE UNCHANGED patchVars
  BY <1>5 DEF patchVars, CoreInv, Core, PatchTypeOK, Whole, RefsAreDrawn
<1> QED BY <1>1, <1>2, <1>3, <1>4, <1>5 DEF PatchNext, ApplyPatch

THEOREM PatchCore == PatchSpec => []CoreInv
BY CoreAtFirst, CoreAfterStep, PTL DEF PatchSpec

\* The working copy, the references and the outcome of a patch keep their types.
THEOREM PatchTyped == PatchSpec => []PatchTypeOK
<1>1. CoreInv => PatchTypeOK
  BY DEF CoreInv, Core
<1> QED BY <1>1, PatchCore, PTL

\* Whatever a patch does, after every operation the graph is one that
\* validate_graph admits, and the final validation refuses only limits and null
\* labels.
THEOREM PatchKeepsGraphsValid == PatchSpec => []WorkingIsValid
<1>1. CoreInv => WorkingIsValid
  BY DEF CoreInv, Core, Whole, WorkingIsValid
<1> QED BY <1>1, PatchCore, PTL

\* No operation takes away what a temporary reference names.
THEOREM PatchKeepsRefsLive == PatchSpec => []RefsAreLive
<1>1. ASSUME CoreInv PROVE RefsAreLive
  <2>1. NodeIds(current) \cup LaneIds(current) \subseteq 1..MaxGivenId /\ MaxGivenId \in Nat
    BY <1>1, PatcherAssumption DEF CoreInv, Core, PatchTypeOK, GivenId
  <2>2. \A r \in DOMAIN refs : refs[r] \notin 1..MaxGivenId
    BY <1>1, <2>1 DEF CoreInv, Core, RefsAreDrawn
  <2> QED BY <1>1, <2>1, <2>2 DEF CoreInv, Core, RefsAreDrawn, RefsAreLive
<1> QED BY <1>1, PatchCore, PTL

-----------------------------------------------------------------------------
(* What a patch does not name.                                             *)

NamedInv == Named({"remove_node"}) \subseteq GivenId /\ OnlyNamedChange

\* An operation that is applied adds its id to the names of its kind.
LEMMA NamesGrow ==
    ASSUME CoreInv, ApplyOperation, NEW kind
    PROVE  Named({kind})' = Named({kind}) \cup (IF Op.op = kind THEN {Op.id} ELSE {})
<1>1. applied \in Nat /\ applied' = applied + 1 /\ patch' = patch
  BY OpIsOperation DEF ApplyOperation, CoreInv
<1>2. 1..applied' = 1..applied \cup {applied + 1}
  BY <1>1
<1> QED BY <1>1, <1>2 DEF Named, Op

\* Which parts of the graph each operation leaves alone.
LEMMA PartsLeftAlone ==
    ASSUME CoreInv, ApplyOperation
    PROVE  /\ Op.op \notin {"add_node", "remove_node", "update_node", "remove_lane"} =>
                  working'.nodes = working.nodes
           /\ Op.op \notin {"remove_node", "add_edge", "update_edge", "remove_edge"} =>
                  working'.edges = working.edges
           /\ Op.op \notin {"add_lane", "update_lane", "remove_lane"} =>
                  working'.lanes = working.lanes
           /\ Op.op # "remove_node" => working'.layout = working.layout
<1>1. working = GraphOf(working.nodes, working.edges, working.lanes, working.layout)
  BY DEF CoreInv, Core, Whole, IsGraph
<1>2. CASE Op.op = "add_node"
  BY <1>1, <1>2 DEF ApplyOperation, GraphOf, AddNode
<1>3. CASE Op.op = "remove_node"
  BY <1>1, <1>3 DEF ApplyOperation, GraphOf, RemoveNode
<1>4. CASE Op.op = "update_node"
  BY <1>1, <1>4 DEF ApplyOperation, GraphOf, UpdateNode
<1>5. CASE Op.op = "add_edge"
  BY <1>1, <1>5 DEF ApplyOperation, GraphOf, AddEdge
<1>6. CASE Op.op = "update_edge"
  BY <1>1, <1>6 DEF ApplyOperation, GraphOf, UpdateEdge
<1>7. CASE Op.op = "remove_edge"
  BY <1>1, <1>7 DEF ApplyOperation, GraphOf, RemoveEdge
<1>8. CASE Op.op = "add_lane"
  BY <1>1, <1>8 DEF ApplyOperation, GraphOf, AddLane
<1>9. CASE Op.op = "update_lane"
  BY <1>1, <1>9 DEF ApplyOperation, GraphOf, UpdateLane
<1>10. CASE Op.op = "remove_lane"
  BY <1>1, <1>10 DEF ApplyOperation, GraphOf, RemoveLane
<1> QED BY <1>2, <1>3, <1>4, <1>5, <1>6, <1>7, <1>8, <1>9, <1>10 DEF ApplyOperation

\* The ids of the current graph are given, and those drawn are not.
LEMMA GivenBefore ==
    ASSUME CoreInv
    PROVE  /\ IsGraph(current) /\ current.layout \subseteq NodeIds(current)
           /\ NodeIds(current) \cup EdgeIds(current) \cup LaneIds(current) \subseteq GivenId
           /\ NewId \notin GivenId
BY PatcherAssumption, NewIdIsNew DEF CoreInv, Core, PatchTypeOK, Document, LayoutIsKnown, GivenId

LEMMA GoneWereGiven ==
    ASSUME CoreInv, NamedInv, ApplyOperation
    PROVE  Named({"remove_node"})' \subseteq GivenId
<1>1. CASE Op.op # "remove_node"
  BY <1>1, NamesGrow DEF NamedInv
<1>2. CASE Op.op = "remove_node"
  <2>1. RemoveNode(Op)
    BY <1>2 DEF ApplyOperation
  <2>2. Op.id \in GivenId
    BY <1>2, <2>1, RemoveNodeStep, OpIsOperation DEF CoreInv, ApplyOperation
  <2> QED BY <2>2, NamesGrow DEF NamedInv
<1> QED BY <1>1, <1>2

\* What is left to show of the nodes, once it is known how an operation changes
\* them and that their removals are recorded.
LEMMA NodesAfterChange ==
    ASSUME CoreInv, NamedInv, ApplyOperation,
           (NodeIds(current) \cap NodeIds(working)) \ NodeIds(working)' \subseteq Named({"remove_node"})',
           Named({"remove_node"})' \cap NodeIds(working)' = {},
           NodeIds(current) \cap NodeIds(working)' \subseteq NodeIds(working),
           \A n \in NodeIds(current) \cap NodeIds(working)' :
              \/ working'.nodes[n] = working.nodes[n]
              \/ n \in Named({"update_node"})'
              \/ /\ current.nodes[n].lane \in Named({"remove_lane"})'
                 /\ working'.nodes[n] = [current.nodes[n] EXCEPT !.lane = None]
    PROVE  NodesStay' /\ NodesStayAsTheyAre'
<1>1. current' = current /\ NodesStay /\ NodesStayAsTheyAre
  BY DEF ApplyOperation, NamedInv, OnlyNamedChange
<1>2. /\ Named({"remove_node"}) \subseteq Named({"remove_node"})'
      /\ Named({"update_node"}) \subseteq Named({"update_node"})'
      /\ Named({"remove_lane"}) \subseteq Named({"remove_lane"})'
  BY NamesGrow
<1>3. NodesStay'
  BY <1>1, <1>2 DEF NodesStay, NodeIds
<1>4. NodesStayAsTheyAre'
  BY <1>1, <1>2 DEF NodesStayAsTheyAre, NodeIds
<1> QED BY <1>3, <1>4

LEMMA NodesAfter ==
    ASSUME CoreInv, NamedInv, ApplyOperation
    PROVE  NodesStay' /\ NodesStayAsTheyAre'
<1> DEFINE gone == Named({"remove_node"})
<1>0. /\ IsGraph(working) /\ gone \cap NodeIds(working) = {}
      /\ NodeIds(current) \subseteq GivenId /\ gone \subseteq GivenId /\ NewId \notin GivenId
      /\ \A n \in NodeIds(current) : current.nodes[n] \in Node
  BY GivenBefore DEF NamedInv, OnlyNamedChange, NodesStay, CoreInv, Core, Whole, IsGraph
<1>g. gone' = gone \cup (IF Op.op = "remove_node" THEN {Op.id} ELSE {})
  BY NamesGrow
<1>u. Named({"update_node"})' = Named({"update_node"}) \cup (IF Op.op = "update_node" THEN {Op.id} ELSE {})
  BY NamesGrow
<1>l. Named({"remove_lane"})' = Named({"remove_lane"}) \cup (IF Op.op = "remove_lane" THEN {Op.id} ELSE {})
  BY NamesGrow
<1> HIDE DEF gone
<1>1. CASE Op.op \notin {"add_node", "remove_node", "update_node", "remove_lane"}
  <2>1. working'.nodes = working.nodes
    BY <1>1, PartsLeftAlone
  <2> QED BY <1>0, <1>1, <1>g, <2>1, NodesAfterChange DEF NodeIds, gone
<1>2. CASE Op.op = "add_node"
  <2>1. PICK node : working'.nodes = Put(working.nodes, NewId, node)
    BY <1>2, <1>0 DEF ApplyOperation, AddNode, IsGraph, GraphOf
  <2>2. /\ NodeIds(working)' = NodeIds(working) \cup {NewId}
        /\ \A n \in NodeIds(working) : n # NewId => working'.nodes[n] = working.nodes[n]
    BY <2>1 DEF Put, NodeIds
  <2> QED BY <1>0, <1>2, <1>g, <2>2, NodesAfterChange DEF gone
<1>3. CASE Op.op = "remove_node"
  <2>1. working'.nodes = Without(working.nodes, {Op.id})
    BY <1>3 DEF ApplyOperation, RemoveNode, GraphOf
  <2>2. /\ NodeIds(working)' = NodeIds(working) \ {Op.id}
        /\ \A n \in NodeIds(working)' : working'.nodes[n] = working.nodes[n]
    BY <2>1 DEF Without, NodeIds
  <2> QED BY <1>0, <1>3, <1>g, <2>2, NodesAfterChange DEF gone
<1>4. CASE Op.op = "update_node"
  <2>1. PICK node : working'.nodes = Put(working.nodes, Op.id, node) /\ Op.id \in NodeIds(working)
    BY <1>4, <1>0 DEF ApplyOperation, UpdateNode, CanUpdateNode, IsGraph, GraphOf
  <2>2. /\ NodeIds(working)' = NodeIds(working)
        /\ \A n \in NodeIds(working) : n # Op.id => working'.nodes[n] = working.nodes[n]
    BY <2>1 DEF Put, NodeIds
  <2> QED BY <1>0, <1>4, <1>g, <1>u, <2>2, NodesAfterChange DEF gone
<1>5. CASE Op.op = "remove_lane"
  <2>1. working'.nodes = [n \in NodeIds(working) |-> LeaveLane(working.nodes[n], Op.id)]
    BY <1>5, <1>0 DEF ApplyOperation, RemoveLane, IsGraph, GraphOf, NodeIds
  <2>2. NodeIds(working)' = NodeIds(working)
    BY <2>1 DEF NodeIds
  <2>3. Op.id # None
    BY <1>5, PatcherAssumption, OpIsOperation, OperationFields
       DEF ApplyOperation, CoreInv, Target, GivenId, Ref
  <2>4. ASSUME NEW n \in NodeIds(current) \cap NodeIds(working)
        PROVE  \/ working'.nodes[n] = working.nodes[n]
               \/ n \in Named({"update_node"})'
               \/ /\ current.nodes[n].lane \in Named({"remove_lane"})'
                  /\ working'.nodes[n] = [current.nodes[n] EXCEPT !.lane = None]
    <3>1. working'.nodes[n] = LeaveLane(working.nodes[n], Op.id)
      BY <2>1
    <3>2. CASE working.nodes[n] = current.nodes[n]
      BY <1>5, <1>l, <3>1, <3>2 DEF LeaveLane
    <3>3. CASE n \in Named({"update_node"})
      BY <1>u, <3>3
    <3>4. CASE working.nodes[n] = [current.nodes[n] EXCEPT !.lane = None]
      <4>1. working.nodes[n].lane = None
        BY <1>0, <3>4 DEF Node
      <4> QED BY <2>3, <3>1, <4>1 DEF LeaveLane
    <3> QED BY <3>2, <3>3, <3>4 DEF NamedInv, OnlyNamedChange, NodesStayAsTheyAre
  <2> QED BY <1>0, <1>5, <1>g, <2>2, <2>4, NodesAfterChange DEF gone
<1> QED BY <1>1, <1>2, <1>3, <1>4, <1>5

\* The ends of an edge of the current graph are those it has in the working copy.
LEMMA EndsStay ==
    ASSUME CoreInv, NamedInv, NEW e \in EdgeIds(current) \cap EdgeIds(working)
    PROVE  /\ current.edges[e] \in Edge /\ working.edges[e] \in Edge
           /\ working.edges[e].source = current.edges[e].source
           /\ working.edges[e].target = current.edges[e].target
<1>1. current.edges[e] \in Edge /\ working.edges[e] \in Edge
  BY GivenBefore DEF CoreInv, Core, Whole, IsGraph
<1> QED BY <1>1 DEF NamedInv, OnlyNamedChange, EdgesStayAsTheyAre, Edge

\* The same for the edges.
LEMMA EdgesAfterChange ==
    ASSUME CoreInv, NamedInv, ApplyOperation,
           \A e \in (EdgeIds(current) \cap EdgeIds(working)) \ EdgeIds(working)' :
              \/ e \in Named({"remove_edge"})'
              \/ {current.edges[e].source, current.edges[e].target} \cap Named({"remove_node"})' # {},
           EdgeIds(current) \cap EdgeIds(working)' \subseteq EdgeIds(working),
           \A e \in EdgeIds(current) \cap EdgeIds(working)' :
              \/ working'.edges[e] = working.edges[e]
              \/ /\ e \in Named({"update_edge"})'
                 /\ working'.edges[e] = [current.edges[e] EXCEPT !.label = working'.edges[e].label]
    PROVE  EdgesStay' /\ EdgesStayAsTheyAre'
<1>1. current' = current /\ EdgesStay /\ EdgesStayAsTheyAre
  BY DEF ApplyOperation, NamedInv, OnlyNamedChange
<1>2. /\ Named({"remove_node"}) \subseteq Named({"remove_node"})'
      /\ Named({"remove_edge"}) \subseteq Named({"remove_edge"})'
      /\ Named({"update_edge"}) \subseteq Named({"update_edge"})'
  BY NamesGrow
<1>3. EdgesStay'
  BY <1>1, <1>2 DEF EdgesStay, EdgeIds
<1>4. EdgesStayAsTheyAre'
  BY <1>1, <1>2 DEF EdgesStayAsTheyAre, EdgeIds
<1> QED BY <1>3, <1>4

LEMMA EdgesAfter ==
    ASSUME CoreInv, NamedInv, ApplyOperation
    PROVE  EdgesStay' /\ EdgesStayAsTheyAre'
<1>0. /\ IsGraph(working) /\ EdgeIds(current) \subseteq GivenId /\ NewId \notin GivenId
  BY GivenBefore DEF CoreInv, Core, Whole
<1>g. Named({"remove_node"})' = Named({"remove_node"}) \cup (IF Op.op = "remove_node" THEN {Op.id} ELSE {})
  BY NamesGrow
<1>r. Named({"remove_edge"})' = Named({"remove_edge"}) \cup (IF Op.op = "remove_edge" THEN {Op.id} ELSE {})
  BY NamesGrow
<1>u. Named({"update_edge"})' = Named({"update_edge"}) \cup (IF Op.op = "update_edge" THEN {Op.id} ELSE {})
  BY NamesGrow
<1>1. CASE Op.op \notin {"remove_node", "add_edge", "update_edge", "remove_edge"}
  <2>1. working'.edges = working.edges
    BY <1>1, PartsLeftAlone
  <2> QED BY <2>1, EdgesAfterChange DEF EdgeIds
<1>2. CASE Op.op = "remove_node"
  <2>1. working'.edges = Without(working.edges, {e \in EdgeIds(working) : Touches(e, Op.id)})
    BY <1>2 DEF ApplyOperation, RemoveNode, GraphOf
  <2>2. /\ EdgeIds(working)' = {e \in EdgeIds(working) : ~Touches(e, Op.id)}
        /\ \A e \in EdgeIds(working)' : working'.edges[e] = working.edges[e]
    BY <2>1 DEF Without, EdgeIds
  <2>3. ASSUME NEW e \in (EdgeIds(current) \cap EdgeIds(working)) \ EdgeIds(working)'
        PROVE  {current.edges[e].source, current.edges[e].target} \cap Named({"remove_node"})' # {}
    <3>1. Op.id \in {current.edges[e].source, current.edges[e].target}
      BY <2>2, EndsStay DEF Touches
    <3> QED BY <3>1, <1>2, <1>g
  <2> QED BY <2>2, <2>3, EdgesAfterChange
<1>3. CASE Op.op = "add_edge"
  <2>1. working'.edges = Put(working.edges, NewId, NewEdge(Op))
    BY <1>3, <1>0 DEF ApplyOperation, AddEdge, IsGraph, GraphOf
  <2>2. /\ EdgeIds(working)' = EdgeIds(working) \cup {NewId}
        /\ \A e \in EdgeIds(working) : e # NewId => working'.edges[e] = working.edges[e]
    BY <2>1 DEF Put, EdgeIds
  <2> QED BY <1>0, <2>2, EdgesAfterChange
<1>4. CASE Op.op = "update_edge"
  <2>1. working'.edges = Put(working.edges, Op.id, Relabelled(Op)) /\ Op.id \in EdgeIds(working)
    BY <1>4, <1>0 DEF ApplyOperation, UpdateEdge, CanUpdateEdge, IsGraph, GraphOf
  <2>2. /\ EdgeIds(working)' = EdgeIds(working)
        /\ \A e \in EdgeIds(working) : e # Op.id => working'.edges[e] = working.edges[e]
        /\ working'.edges[Op.id] = [working.edges[Op.id] EXCEPT !.label = Op.label]
    BY <2>1 DEF Put, EdgeIds, Relabelled
  <2>3. ASSUME Op.id \in EdgeIds(current)
        PROVE  working'.edges[Op.id] = [current.edges[Op.id] EXCEPT !.label = working'.edges[Op.id].label]
    BY <2>1, <2>2, <2>3, EndsStay DEF Edge
  <2> QED BY <1>4, <1>u, <2>2, <2>3, EdgesAfterChange
<1>5. CASE Op.op = "remove_edge"
  <2>1. working'.edges = Without(working.edges, {Op.id})
    BY <1>5, <1>0 DEF ApplyOperation, RemoveEdge, IsGraph, GraphOf
  <2>2. /\ EdgeIds(working)' = EdgeIds(working) \ {Op.id}
        /\ \A e \in EdgeIds(working)' : working'.edges[e] = working.edges[e]
    BY <2>1 DEF Without, EdgeIds
  <2> QED BY <1>5, <1>r, <2>2, EdgesAfterChange
<1> QED BY <1>1, <1>2, <1>3, <1>4, <1>5

LEMMA LanesAfter ==
    ASSUME CoreInv, NamedInv, ApplyOperation
    PROVE  LanesStay'
<1>0. /\ IsGraph(working) /\ LaneIds(current) \subseteq GivenId /\ NewId \notin GivenId
      /\ current' = current /\ LanesStay
  BY GivenBefore DEF CoreInv, Core, Whole, ApplyOperation, NamedInv, OnlyNamedChange
<1>r. Named({"remove_lane"})' = Named({"remove_lane"}) \cup (IF Op.op = "remove_lane" THEN {Op.id} ELSE {})
  BY NamesGrow
<1>u. Named({"update_lane"})' = Named({"update_lane"}) \cup (IF Op.op = "update_lane" THEN {Op.id} ELSE {})
  BY NamesGrow
<1>1. \A l \in LaneIds(current) \cap LaneIds(working) :
         \/ l \in Named({"remove_lane"})'
         \/ l \in LaneIds(working)' /\ (l \in Named({"update_lane"})' \/ working'.lanes[l] = working.lanes[l])
  <2>1. CASE Op.op \notin {"add_lane", "update_lane", "remove_lane"}
    <3>1. working'.lanes = working.lanes
      BY <2>1, PartsLeftAlone
    <3> QED BY <3>1 DEF LaneIds
  <2>2. CASE Op.op = "add_lane"
    <3>1. working'.lanes = Put(working.lanes, NewId, Op.label)
      BY <2>2, <1>0 DEF ApplyOperation, AddLane, IsGraph, GraphOf
    <3> QED BY <3>1, <1>0 DEF Put, LaneIds
  <2>3. CASE Op.op = "update_lane"
    <3>1. working'.lanes = Put(working.lanes, Op.id, Op.label)
      BY <2>3, <1>0 DEF ApplyOperation, UpdateLane, IsGraph, GraphOf
    <3> QED BY <3>1, <2>3, <1>u DEF Put, LaneIds
  <2>4. CASE Op.op = "remove_lane"
    <3>1. working'.lanes = Without(working.lanes, {Op.id})
      BY <2>4, <1>0 DEF ApplyOperation, RemoveLane, IsGraph, GraphOf
    <3> QED BY <3>1, <2>4, <1>r DEF Without, LaneIds
  <2> QED BY <2>1, <2>2, <2>3, <2>4
<1> QED BY <1>0, <1>1, <1>r, <1>u DEF LanesStay, LaneIds

LEMMA LayoutAfter ==
    ASSUME CoreInv, NamedInv, ApplyOperation
    PROVE  LayoutStays'
<1>0. current' = current /\ LayoutStays
  BY DEF ApplyOperation, NamedInv, OnlyNamedChange
<1>g. Named({"remove_node"})' = Named({"remove_node"}) \cup (IF Op.op = "remove_node" THEN {Op.id} ELSE {})
  BY NamesGrow
<1>1. CASE Op.op # "remove_node"
  BY <1>0, <1>1, <1>g, PartsLeftAlone DEF LayoutStays
<1>2. CASE Op.op = "remove_node"
  <2>1. working'.layout = working.layout \ {Op.id}
    BY <1>2 DEF ApplyOperation, RemoveNode, GraphOf
  <2> QED BY <1>0, <1>2, <1>g, <2>1 DEF LayoutStays
<1> QED BY <1>1, <1>2

LEMMA NamedAtFirst == ASSUME PatchInit PROVE NamedInv
<1>1. working = current /\ \A kinds : Named(kinds) = {}
  BY DEF PatchInit, Named
<1> QED BY <1>1 DEF NamedInv, OnlyNamedChange, NodesStay, NodesStayAsTheyAre, EdgesStay,
                    EdgesStayAsTheyAre, LanesStay, LayoutStays

\* What has been named, and the parts of the graphs, are all that NamedInv reads.
LEMMA NamedIsKept ==
    ASSUME NamedInv, UNCHANGED <<current, working, applied>>,
           \A kind : Named({kind})' = Named({kind})
    PROVE  NamedInv'
<1>1. /\ Named({"remove_node"})' = Named({"remove_node"})
      /\ Named({"update_node"})' = Named({"update_node"})
      /\ Named({"remove_edge"})' = Named({"remove_edge"})
      /\ Named({"update_edge"})' = Named({"update_edge"})
      /\ Named({"remove_lane"})' = Named({"remove_lane"})
      /\ Named({"update_lane"})' = Named({"update_lane"})
  OBVIOUS
<1>2. NodesStay' /\ NodesStayAsTheyAre'
  BY <1>1 DEF NamedInv, OnlyNamedChange, NodesStay, NodesStayAsTheyAre, NodeIds
<1>3. EdgesStay' /\ EdgesStayAsTheyAre'
  BY <1>1 DEF NamedInv, OnlyNamedChange, EdgesStay, EdgesStayAsTheyAre, EdgeIds
<1>4. LanesStay' /\ LayoutStays'
  BY <1>1 DEF NamedInv, OnlyNamedChange, LanesStay, LayoutStays, LaneIds
<1> QED BY <1>1, <1>2, <1>3, <1>4 DEF NamedInv, OnlyNamedChange

LEMMA NamedAfterStep == ASSUME CoreInv, NamedInv, [PatchNext]_patchVars PROVE NamedInv'
<1>1. CASE ApplyOperation
  BY <1>1, GoneWereGiven, NodesAfter, EdgesAfter, LanesAfter, LayoutAfter DEF NamedInv, OnlyNamedChange
<1>2. CASE RefuseOperation \/ FailOperation
  BY <1>2, NamedIsKept DEF RefuseOperation, FailOperation, Named
<1>3. CASE Validate
  <2>1. working' = working
    BY <1>3, NothingIsCut DEF Validate, CoreInv
  <2> QED BY <2>1, <1>3, NamedIsKept DEF Validate, Named
<1>4. ASSUME NEW p \in Seq(Operation), Receive(p) PROVE NamedInv'
  <2>1. applied = 0
    BY <1>4 DEF Receive, CoreInv
  <2> QED BY <2>1, <1>4, NamedIsKept DEF Receive, Named
<1>5. CASE UNCHANGED patchVars
  BY <1>5, NamedIsKept DEF patchVars, Named
<1> QED BY <1>1, <1>2, <1>3, <1>4, <1>5 DEF PatchNext, ApplyPatch

\* Of the graph a patch is for, an element goes or changes only by name, but for
\* the edges of a removed node and the lane of a removed lane's nodes.
THEOREM PatchChangesOnlyNamed == PatchSpec => []OnlyNamedChange
<1>1. PatchInit => NamedInv
  BY NamedAtFirst
<1>2. CoreInv /\ NamedInv /\ [PatchNext]_patchVars => NamedInv'
  BY NamedAfterStep
<1>3. NamedInv => OnlyNamedChange
  BY DEF NamedInv
<1> QED BY <1>1, <1>2, <1>3, PatchCore, PTL DEF PatchSpec

-----------------------------------------------------------------------------
(* Patches that apply.                                                     *)

Makes(o) == o.op \in {"add_node", "add_lane"}

\* v is a node, or a lane, of the graph or of an operation before the i-th.
NodeBefore(p, g, v, i) ==
    v \in NodeIds(g) \/ \E j \in 1..(i - 1) : p[j].op = "add_node" /\ p[j].ref = v
LaneBefore(p, g, v, i) ==
    v \in LaneIds(g) \/ \E j \in 1..(i - 1) : p[j].op = "add_lane" /\ p[j].ref = v

OpKey(o) == <<o.source, o.target, Text(o.label)>>

\* A patch that only makes nodes, lanes and edges, whose edges touch what it
\* has made, and that takes away no more than edges.
Builds(p, g) ==
    /\ \A i \in DOMAIN p : p[i].op \in {"add_node", "add_lane", "add_edge", "remove_edge"}
    /\ \A i, j \in DOMAIN p : Makes(p[i]) /\ Makes(p[j]) /\ p[i].ref = p[j].ref => i = j
    /\ \A i \in DOMAIN p : p[i].op = "add_node" =>
          p[i].lane = None \/ LaneBefore(p, g, p[i].lane, i)
    /\ \A i \in DOMAIN p : p[i].op = "add_edge" =>
          /\ NodeBefore(p, g, p[i].source, i) /\ NodeBefore(p, g, p[i].target, i)
          /\ p[i].source # p[i].target
          /\ p[i].source \in Ref \/ p[i].target \in Ref
    /\ \A i, j \in DOMAIN p :
          p[i].op = "add_edge" /\ p[j].op = "add_edge" /\ OpKey(p[i]) = OpKey(p[j]) => i = j
    /\ \A i \in DOMAIN p : p[i].op = "remove_edge" => p[i].id \in EdgeIds(g)
    /\ \A i, j \in DOMAIN p :
          p[i].op = "remove_edge" /\ p[j].op = "remove_edge" /\ p[i].id = p[j].id => i = j

\* An operation that a graph admits, without references.
FitsAlone(o, g) ==
    /\ ~Makes(o)
    /\ o.op = "update_node" =>
          /\ o.id \in NodeIds(g) /\ o.changes.lane \in LaneIds(g) \cup {Unset}
          /\ o.changes.type # None /\ o.changes.label # None
    /\ o.op = "remove_node" => o.id \in NodeIds(g)
    /\ o.op \in {"update_lane", "remove_lane"} => o.id \in LaneIds(g)
    /\ o.op \in {"update_edge", "remove_edge"} => o.id \in EdgeIds(g)
    /\ o.op = "update_edge" =>
          \A e \in EdgeIds(g) \ {o.id} :
             Key(g.edges[e]) # Key([g.edges[o.id] EXCEPT !.label = o.label])
    /\ o.op = "add_edge" =>
          /\ o.source \in NodeIds(g) /\ o.target \in NodeIds(g) /\ o.source # o.target
          /\ \A e \in EdgeIds(g) : Key(g.edges[e]) # OpKey(o)

Sound(p, g) == Builds(p, g) \/ (Len(p) = 1 /\ FitsAlone(p[1], g))

\* What a patch that builds has made so far has its name, names stand for what
\* it has made, and all nodes and edges are old or made by it.
StartsAtCurrent == applied = 0 => working = current /\ refs = <<>>

MadeIsNamed ==
    \A i \in 1..applied : Makes(patch[i]) =>
        /\ patch[i].ref \in DOMAIN refs
        /\ patch[i].op = "add_node" => refs[patch[i].ref] \in NodeIds(working)
        /\ patch[i].op = "add_lane" => refs[patch[i].ref] \in LaneIds(working)
NamesAreMade ==
    \A r \in DOMAIN refs : \E i \in 1..applied : Makes(patch[i]) /\ patch[i].ref = r

MadeNode(n, i) ==
    /\ patch[i].op = "add_node" /\ refs[patch[i].ref] = n
    /\ working.nodes[n].type = patch[i].type /\ working.nodes[n].sap = patch[i].sap
NodesAreMade ==
    \A n \in NodeIds(working) \ NodeIds(current) : \E i \in 1..applied : MadeNode(n, i)

MadeBy(e, i) == patch[i].op = "add_edge" /\ working.edges[e] = NewEdge(patch[i])
NewEdgesAreMade ==
    \A e \in EdgeIds(working) \ EdgeIds(current) : \E i \in 1..applied : MadeBy(e, i)
MadeEdgesAreThere ==
    \A i \in 1..applied : patch[i].op = "add_edge" =>
        \E e \in EdgeIds(working) \ GivenId : MadeBy(e, i)

Built == MadeIsNamed /\ NamesAreMade /\ NodesAreMade /\ NewEdgesAreMade /\ MadeEdgesAreThere

\* A sound patch is not refused.
ApplyInv ==
    /\ StartsAtCurrent
    /\ Builds(patch, current) => Built
    /\ Sound(patch, current) => outcome \notin {"refused", "unhandled"}

\* What has been applied are operations of the patch.
LEMMA AppliedAreOperations ==
    ASSUME CoreInv
    PROVE  applied \in Nat /\ \A i \in 1..applied : i \in DOMAIN patch /\ patch[i] \in Operation
BY DEF CoreInv, Core, PatchTypeOK

\* A patch that builds names, of the kinds that could take something away, only
\* edges, and each of them once.
LEMMA OnlyEdgesAreNamed ==
    ASSUME CoreInv, Builds(patch, current)
    PROVE  \A kind : kind \in {"remove_node", "update_node", "update_edge", "remove_lane",
                               "update_lane"} => Named({kind}) = {}
<1>1. \A i \in 1..applied : patch[i].op \in {"add_node", "add_lane", "add_edge", "remove_edge"}
  BY AppliedAreOperations DEF Builds
<1> QED BY <1>1 DEF Named

LEMMA OnlyEdgesGo ==
    ASSUME CoreInv, Applying, Builds(patch, current)
    PROVE  /\ Op.op = "remove_edge" => Op.id \notin Named({"remove_edge"})
           /\ \A i \in 1..applied : i \in DOMAIN patch /\ i # applied + 1
           /\ applied + 1 \in DOMAIN patch /\ Op = patch[applied + 1]
<1>1. /\ applied + 1 \in DOMAIN patch /\ applied \in Nat
      /\ \A i \in 1..applied : i \in DOMAIN patch /\ i # applied + 1
  BY OpIsOperation DEF CoreInv, Core, PatchTypeOK
<1>2. ASSUME Op.op = "remove_edge", Op.id \in Named({"remove_edge"}) PROVE FALSE
  <2>1. PICK i \in 1..applied : patch[i].op = "remove_edge" /\ patch[i].id = Op.id
    BY <1>2 DEF Named
  <2> QED BY <2>1, <1>1, <1>2 DEF Builds, Op
<1> QED BY <1>1, <1>2 DEF Op

\* So the graph it was made for is still there, but for those edges.
LEMMA CurrentIsThere ==
    ASSUME CoreInv, NamedInv, Builds(patch, current)
    PROVE  /\ NodeIds(current) \subseteq NodeIds(working)
           /\ LaneIds(current) \subseteq LaneIds(working)
           /\ EdgeIds(current) \ Named({"remove_edge"}) \subseteq EdgeIds(working)
           /\ \A e \in EdgeIds(current) \cap EdgeIds(working) : working.edges[e] = current.edges[e]
<1>1. /\ Named({"remove_node"}) = {} /\ Named({"remove_lane"}) = {}
      /\ Named({"update_edge"}) = {}
  BY OnlyEdgesAreNamed
<1>2. NodesStay /\ EdgesStay /\ EdgesStayAsTheyAre /\ LanesStay
  BY DEF NamedInv, OnlyNamedChange
<1> QED BY <1>1, <1>2 DEF NodesStay, EdgesStay, EdgesStayAsTheyAre, LanesStay

\* What a patch that builds names as a node or a lane is known.
LEMMA BeforeIsKnown ==
    ASSUME CoreInv, NamedInv, Builds(patch, current), MadeIsNamed,
           NEW i \in 1..(applied + 1), NEW v
    PROVE  /\ NodeBefore(patch, current, v, i) => Known(v, working.nodes)
           /\ LaneBefore(patch, current, v, i) => Known(v, working.lanes)
<1>1. /\ NodeIds(current) \subseteq NodeIds(working) /\ LaneIds(current) \subseteq LaneIds(working)
      /\ NodeIds(current) \cup LaneIds(current) \subseteq GivenId
      /\ GivenId \cap Ref = {}
  BY CurrentIsThere, GivenBefore, PatcherAssumption DEF GivenId, Ref
<1>2. \A j \in 1..(i - 1) : j \in 1..applied /\ j \in DOMAIN patch
  BY AppliedAreOperations
<1>3. \A j \in DOMAIN patch : Makes(patch[j]) => patch[j].ref \in Ref
  <2>1. \A j \in DOMAIN patch : patch[j] \in Operation
    BY DEF CoreInv, Core, PatchTypeOK
  <2> QED BY <2>1, OperationFields DEF Makes
<1>4. NodeBefore(patch, current, v, i) => Known(v, working.nodes)
  <2>1. CASE v \in NodeIds(current)
    BY <1>1, <2>1 DEF Known, Resolve, NodeIds
  <2>2. ASSUME NEW j \in 1..(i - 1), patch[j].op = "add_node", patch[j].ref = v
        PROVE  Known(v, working.nodes)
    BY <1>2, <1>3, <2>2 DEF MadeIsNamed, Makes, Known, Resolve, NodeIds
  <2> QED BY <2>1, <2>2 DEF NodeBefore
<1>5. LaneBefore(patch, current, v, i) => Known(v, working.lanes)
  <2>1. CASE v \in LaneIds(current)
    BY <1>1, <2>1 DEF Known, Resolve, LaneIds
  <2>2. ASSUME NEW j \in 1..(i - 1), patch[j].op = "add_lane", patch[j].ref = v
        PROVE  Known(v, working.lanes)
    BY <1>2, <1>3, <2>2 DEF MadeIsNamed, Makes, Known, Resolve, LaneIds
  <2> QED BY <2>1, <2>2 DEF LaneBefore
<1> QED BY <1>4, <1>5

\* Names that are known stand for different things.
LEMMA KnownAreDistinct ==
    ASSUME CoreInv, NEW v \in Target, NEW w \in Target, NEW things, NEW others,
           Known(v, things), Known(w, others), Resolve(v) = Resolve(w)
    PROVE  v = w
<1>1. GivenId \cap Ref = {} /\ \A r \in DOMAIN refs : refs[r] \notin GivenId
  BY PatcherAssumption DEF GivenId, Ref, CoreInv, Core, RefsAreDrawn
<1>2. \A r, s \in DOMAIN refs : refs[r] = refs[s] => r = s
  BY DEF CoreInv, Core, RefsAreDrawn
<1> QED BY <1>1, <1>2 DEF Known, Resolve, Target

\* An edge that such a patch adds is not there yet.
LEMMA EdgeIsNew ==
    ASSUME CoreInv, NamedInv, Applying, Builds(patch, current), Built, Op.op = "add_edge"
    PROVE  NoOtherEdgeIs(NewEdge(Op), NewId)
<1>0. /\ applied + 1 \in DOMAIN patch /\ Op = patch[applied + 1] /\ applied + 1 \in 1..(applied + 1)
      /\ \A i \in 1..applied : i \in DOMAIN patch /\ i # applied + 1 /\ i \in 1..(applied + 1)
      /\ \A i \in DOMAIN patch : patch[i] \in Operation
      /\ Op \in Operation
  BY OnlyEdgesGo, OpIsOperation DEF CoreInv, Core, PatchTypeOK
<1>1. /\ Known(Op.source, working.nodes) /\ Known(Op.target, working.nodes)
      /\ Op.source \in Target /\ Op.target \in Target
      /\ Op.source \in Ref \/ Op.target \in Ref
  <2>1. NodeBefore(patch, current, Op.source, applied + 1)
        /\ NodeBefore(patch, current, Op.target, applied + 1)
        /\ (Op.source \in Ref \/ Op.target \in Ref)
    BY <1>0 DEF Builds
  <2> QED BY <1>0, <2>1, BeforeIsKnown, OperationFields DEF Built
<1>2. ASSUME NEW e \in EdgeIds(working), Key(working.edges[e]) = Key(NewEdge(Op))
      PROVE  FALSE
  <2>0. /\ working.edges[e].source = Resolve(Op.source)
        /\ working.edges[e].target = Resolve(Op.target)
        /\ Text(working.edges[e].label) = Text(Op.label)
    BY <1>2 DEF Key, NewEdge
  <2>1. CASE e \in EdgeIds(current)
    <3>1. working.edges[e] = current.edges[e]
      BY <2>1, CurrentIsThere
    <3>2. /\ current.edges[e].source \in NodeIds(current) /\ current.edges[e].target \in NodeIds(current)
          /\ NodeIds(current) \subseteq GivenId
      BY <2>1, GivenBefore, PatcherAssumption
         DEF CoreInv, Core, PatchTypeOK, Document, ValidGraph, EndsAreKnown
    <3>3. \A r \in DOMAIN refs : refs[r] \notin GivenId
      BY PatcherAssumption DEF GivenId, CoreInv, Core, RefsAreDrawn
    <3> QED BY <1>1, <2>0, <3>1, <3>2, <3>3 DEF Resolve, Known
  <2>2. CASE e \notin EdgeIds(current)
    <3>1. PICK i \in 1..applied : MadeBy(e, i)
      BY <2>2 DEF Built, NewEdgesAreMade
    <3>2. /\ NodeBefore(patch, current, patch[i].source, i)
          /\ NodeBefore(patch, current, patch[i].target, i)
      BY <1>0, <3>1 DEF Builds, MadeBy
    <3>3. /\ Known(patch[i].source, working.nodes) /\ Known(patch[i].target, working.nodes)
      BY <1>0, <3>2, BeforeIsKnown DEF Built
    <3>4. patch[i].source \in Target /\ patch[i].target \in Target
      BY <1>0, <3>1, OperationFields DEF MadeBy
    <3>5. /\ Resolve(patch[i].source) = Resolve(Op.source)
          /\ Resolve(patch[i].target) = Resolve(Op.target)
          /\ Text(patch[i].label) = Text(Op.label)
      BY <2>0, <3>1 DEF MadeBy, NewEdge
    <3>6. patch[i].source = Op.source /\ patch[i].target = Op.target
      BY <1>1, <3>3, <3>4, <3>5, KnownAreDistinct
    <3>7. OpKey(patch[i]) = OpKey(Op)
      BY <3>5, <3>6 DEF OpKey
    <3> QED BY <1>0, <3>1, <3>7 DEF Builds, MadeBy
  <2> QED BY <2>1, <2>2
<1> QED BY <1>2 DEF NoOtherEdgeIs

\* No operation of a patch that builds is refused.
LEMMA BuildsFit ==
    ASSUME CoreInv, NamedInv, Applying, Builds(patch, current), Built
    PROVE  Applicable(Op) /\ Op.op # "update_node"
<1>0. /\ applied + 1 \in DOMAIN patch /\ Op = patch[applied + 1] /\ applied + 1 \in 1..(applied + 1)
      /\ \A i \in 1..applied : i \in DOMAIN patch /\ i # applied + 1
      /\ Op \in Operation
  BY OnlyEdgesGo, OpIsOperation DEF CoreInv
<1>1. Op.op \in {"add_node", "add_lane", "add_edge", "remove_edge"}
  BY <1>0 DEF Builds
<1>2. Makes(Op) => Op.ref \notin DOMAIN refs
  <2> SUFFICES ASSUME Makes(Op), Op.ref \in DOMAIN refs PROVE FALSE
    OBVIOUS
  <2>1. PICK i \in 1..applied : Makes(patch[i]) /\ patch[i].ref = Op.ref
    BY DEF Built, NamesAreMade
  <2> QED BY <1>0, <2>1 DEF Builds
<1>3. CASE Op.op = "add_node"
  <2>1. Op.lane = None \/ LaneBefore(patch, current, Op.lane, applied + 1)
    BY <1>0, <1>3 DEF Builds
  <2>2. Op.lane = None \/ Known(Op.lane, working.lanes)
    BY <1>0, <2>1, BeforeIsKnown DEF Built
  <2> QED BY <1>2, <1>3, <2>2 DEF Applicable, CanAddNode, Makes
<1>4. CASE Op.op = "add_lane"
  BY <1>2, <1>4 DEF Applicable, CanAddLane, Makes
<1>5. CASE Op.op = "add_edge"
  <2>1. /\ NodeBefore(patch, current, Op.source, applied + 1)
        /\ NodeBefore(patch, current, Op.target, applied + 1)
        /\ Op.source # Op.target
    BY <1>0, <1>5 DEF Builds
  <2>2. Known(Op.source, working.nodes) /\ Known(Op.target, working.nodes)
    BY <1>0, <2>1, BeforeIsKnown DEF Built
  <2>3. Op.source \in Target /\ Op.target \in Target
    BY <1>0, <1>5, OperationFields
  <2>4. Resolve(Op.source) # Resolve(Op.target)
    BY <2>1, <2>2, <2>3, KnownAreDistinct
  <2> QED BY <1>5, <2>2, <2>4, EdgeIsNew DEF Applicable, CanAddEdge
<1>6. CASE Op.op = "remove_edge"
  <2>1. Op.id \in EdgeIds(current)
    BY <1>0, <1>6 DEF Builds
  <2>2. Op.id \notin Named({"remove_edge"})
    BY <1>6, OnlyEdgesGo
  <2>3. Op.id \in EdgeIds(working)
    BY <2>1, <2>2, CurrentIsThere
  <2> QED BY <1>6, <2>3 DEF Applicable, CanRemoveEdge
<1> QED BY <1>1, <1>3, <1>4, <1>5, <1>6

\* Nor is one that is alone, in the graph it was made for.
LEMMA LoneFits ==
    ASSUME CoreInv, StartsAtCurrent, Applying, Len(patch) = 1, FitsAlone(patch[1], current)
    PROVE  Applicable(Op) /\ (Op.op = "update_node" => ~ChangesAreNull(Op))
<1>1. applied = 0 /\ Op = patch[1] /\ working = current /\ refs = <<>> /\ Op \in Operation
  BY OpIsOperation DEF StartsAtCurrent, Applying, Op, CoreInv
<1>2. NodeIds(current) \cup LaneIds(current) \subseteq GivenId /\ GivenId \cap Ref = {}
  BY GivenBefore, PatcherAssumption DEF GivenId, Ref
<1>3. \A v \in GivenId : \A things : (v \in DOMAIN things => Known(v, things)) /\ Resolve(v) = v
  BY <1>2 DEF Known, Resolve
<1>4. Op.op \in {"remove_node", "update_node", "add_edge", "update_edge", "remove_edge",
                 "update_lane", "remove_lane"}
  BY <1>1 DEF FitsAlone, Makes, Operation
<1>5. CASE Op.op \in {"remove_node", "remove_edge", "update_lane", "remove_lane"}
  BY <1>1, <1>5 DEF FitsAlone, Applicable, CanRemoveNode, CanRemoveEdge, CanUpdateLane, CanRemoveLane
<1>6. CASE Op.op = "update_node"
  <2>1. /\ Op.id \in NodeIds(working) /\ Op.changes.lane \in LaneIds(current) \cup {Unset}
        /\ Op.changes.type # None /\ Op.changes.label # None
    BY <1>1, <1>6 DEF FitsAlone
  <2>2. Op.changes.lane = Unset \/ Known(Op.changes.lane, working.lanes)
    BY <1>1, <1>2, <1>3, <2>1 DEF LaneIds
  <2> QED BY <1>6, <2>1, <2>2 DEF Applicable, CanUpdateNode, ChangesAreNull
<1>7. CASE Op.op = "update_edge"
  BY <1>1, <1>7 DEF FitsAlone, Applicable, CanUpdateEdge, NoOtherEdgeIs, Relabelled
<1>8. CASE Op.op = "add_edge"
  <2>1. /\ Op.source \in NodeIds(working) /\ Op.target \in NodeIds(working) /\ Op.source # Op.target
        /\ \A e \in EdgeIds(working) : Key(working.edges[e]) # OpKey(Op)
    BY <1>1, <1>8 DEF FitsAlone
  <2>2. /\ Known(Op.source, working.nodes) /\ Known(Op.target, working.nodes)
        /\ Resolve(Op.source) = Op.source /\ Resolve(Op.target) = Op.target
    BY <1>1, <1>2, <1>3, <2>1 DEF NodeIds
  <2>3. Key(NewEdge(Op)) = OpKey(Op)
    BY <2>2 DEF Key, NewEdge, OpKey
  <2> QED BY <1>8, <2>1, <2>2, <2>3 DEF Applicable, CanAddEdge, NoOtherEdgeIs
<1> QED BY <1>4, <1>5, <1>6, <1>7, <1>8

\* Names stay what they are, and so do the edges they give.
LEMMA NamesStay ==
    ASSUME CoreInv, NamedInv, ApplyOperation, Builds(patch, current), Built
    PROVE  /\ \A r \in DOMAIN refs : r \in DOMAIN refs' /\ refs'[r] = refs[r]
           /\ \A i \in 1..(applied + 1) :
                 patch[i].op = "add_edge" => NewEdge(patch[i])' = NewEdge(patch[i])
           /\ Makes(Op) => /\ DOMAIN refs' = DOMAIN refs \cup {Op.ref}
                           /\ refs'[Op.ref] = NewId
           /\ ~Makes(Op) => refs' = refs
<1>0. /\ applied + 1 \in DOMAIN patch /\ Op = patch[applied + 1] /\ Applying
      /\ \A i \in 1..(applied + 1) : i \in DOMAIN patch
      /\ patch' = patch
  BY OnlyEdgesGo, OpIsOperation DEF ApplyOperation, CoreInv
<1>1. Op.op \in {"add_node", "add_lane", "add_edge", "remove_edge"}
  BY <1>0 DEF Builds
<1>2. Makes(Op) => refs' = Put(refs, Op.ref, NewId) /\ Op.ref \notin DOMAIN refs
  BY DEF ApplyOperation, Makes, AddNode, AddLane, Declare, CanAddNode, CanAddLane
<1>3. ~Makes(Op) => refs' = refs
  BY <1>1 DEF ApplyOperation, Makes, AddEdge, RemoveEdge
<1>4. \A r \in DOMAIN refs : r \in DOMAIN refs' /\ refs'[r] = refs[r]
  BY <1>2, <1>3 DEF Put
<1>5. Makes(Op) => DOMAIN refs' = DOMAIN refs \cup {Op.ref} /\ refs'[Op.ref] = NewId
  BY <1>2 DEF Put
<1>6. ASSUME NEW i \in 1..(applied + 1), patch[i].op = "add_edge"
      PROVE  NewEdge(patch[i])' = NewEdge(patch[i])
  <2>1. /\ NodeBefore(patch, current, patch[i].source, i)
        /\ NodeBefore(patch, current, patch[i].target, i)
    BY <1>0, <1>6 DEF Builds
  <2>2. Known(patch[i].source, working.nodes) /\ Known(patch[i].target, working.nodes)
    BY <1>0, <2>1, BeforeIsKnown DEF Built
  <2>3. /\ Resolve(patch[i].source)' = Resolve(patch[i].source)
        /\ Resolve(patch[i].target)' = Resolve(patch[i].target)
    BY <1>0, <1>4, <2>2 DEF Resolve, Known
  <2> QED BY <1>0, <2>3 DEF NewEdge
<1> QED BY <1>3, <1>4, <1>5, <1>6

\* Of the nodes, it adds one or leaves them as they are.
LEMMA NodesMade ==
    ASSUME CoreInv, ApplyOperation, Builds(patch, current), NEW n \in NodeIds(working)'
    PROVE  \/ n \in NodeIds(working) /\ working'.nodes[n] = working.nodes[n]
           \/ /\ Op.op = "add_node" /\ n = NewId
              /\ working'.nodes[n].type = Op.type /\ working'.nodes[n].sap = Op.sap
<1>0. Op.op \in {"add_node", "add_lane", "add_edge", "remove_edge"} /\ IsGraph(working)
  BY OnlyEdgesGo DEF ApplyOperation, Builds, CoreInv, Core, Whole
<1>1. CASE Op.op = "add_node"
  <2> DEFINE node == [type |-> Op.type, label |-> Op.label, lane |-> Resolve(Op.lane), sap |-> Op.sap]
  <2>1. working'.nodes = Put(working.nodes, NewId, node)
    BY <1>0, <1>1 DEF ApplyOperation, AddNode, IsGraph, GraphOf
  <2>2. node.type = Op.type /\ node.sap = Op.sap
    OBVIOUS
  <2> HIDE DEF node
  <2> QED BY <1>1, <2>1, <2>2 DEF Put, NodeIds
<1>2. CASE Op.op # "add_node"
  <2>1. working'.nodes = working.nodes
    BY <1>0, <1>2, PartsLeftAlone
  <2> QED BY <2>1 DEF NodeIds
<1> QED BY <1>1, <1>2

\* What an operation makes is recorded, and what was made is not taken away.
LEMMA BuiltAfterOperation ==
    ASSUME CoreInv, NamedInv, ApplyOperation, Builds(patch, current), Built
    PROVE  Built'
<1> PICK k : k = applied + 1
  OBVIOUS
<1>0. /\ k \in DOMAIN patch /\ Op = patch[k] /\ Applying
      /\ 1..applied' = 1..applied \cup {k}
      /\ \A i \in 1..applied : i \in DOMAIN patch /\ i \in 1..k
      /\ k \in 1..k
      /\ current' = current /\ patch' = patch
      /\ IsGraph(working)
      /\ Op \in Operation
  BY OnlyEdgesGo, OpIsOperation DEF ApplyOperation, CoreInv, Core, Whole
<1>1. Op.op \in {"add_node", "add_lane", "add_edge", "remove_edge"}
  BY <1>0 DEF Builds
<1>2. /\ \A r \in DOMAIN refs : r \in DOMAIN refs' /\ refs'[r] = refs[r]
      /\ \A i \in 1..k : patch[i].op = "add_edge" => NewEdge(patch[i])' = NewEdge(patch[i])
      /\ Makes(Op) => DOMAIN refs' = DOMAIN refs \cup {Op.ref} /\ refs'[Op.ref] = NewId
      /\ ~Makes(Op) => refs' = refs
  BY NamesStay
<1>3. /\ NodeIds(working)' = NodeIds(working) \cup (IF Op.op = "add_node" THEN {NewId} ELSE {})
      /\ LaneIds(working)' = LaneIds(working) \cup (IF Op.op = "add_lane" THEN {NewId} ELSE {})
  <2>1. CASE Op.op = "add_node"
    <3>1. working'.lanes = working.lanes
      BY <2>1, PartsLeftAlone
    <3>2. PICK node : working'.nodes = Put(working.nodes, NewId, node)
      BY <1>0, <2>1 DEF ApplyOperation, AddNode, IsGraph, GraphOf
    <3> QED BY <2>1, <3>1, <3>2 DEF NodeIds, LaneIds, Put
  <2>2. CASE Op.op = "add_lane"
    <3>1. working'.nodes = working.nodes
      BY <2>2, PartsLeftAlone
    <3>2. working'.lanes = Put(working.lanes, NewId, Op.label)
      BY <1>0, <2>2 DEF ApplyOperation, AddLane, IsGraph, GraphOf
    <3> QED BY <2>2, <3>1, <3>2 DEF NodeIds, LaneIds, Put
  <2>3. CASE Op.op \in {"add_edge", "remove_edge"}
    <3>1. working'.nodes = working.nodes /\ working'.lanes = working.lanes
      BY <2>3, PartsLeftAlone
    <3> QED BY <2>3, <3>1 DEF NodeIds, LaneIds
  <2> QED BY <1>1, <2>1, <2>2, <2>3
<1>4. MadeIsNamed'
  <2>1. ASSUME NEW i \in 1..applied, Makes(patch[i])
        PROVE  /\ patch[i].ref \in DOMAIN refs'
               /\ patch[i].op = "add_node" => refs'[patch[i].ref] \in NodeIds(working)'
               /\ patch[i].op = "add_lane" => refs'[patch[i].ref] \in LaneIds(working)'
    BY <1>2, <1>3, <2>1 DEF Built, MadeIsNamed
  <2>2. ASSUME Makes(patch[k])
        PROVE  /\ patch[k].ref \in DOMAIN refs'
               /\ patch[k].op = "add_node" => refs'[patch[k].ref] \in NodeIds(working)'
               /\ patch[k].op = "add_lane" => refs'[patch[k].ref] \in LaneIds(working)'
    BY <1>0, <1>2, <1>3, <2>2
  <2> QED BY <1>0, <2>1, <2>2 DEF MadeIsNamed, Makes
<1>5. NamesAreMade'
  <2>1. ASSUME NEW r \in DOMAIN refs'
        PROVE  \E i \in 1..applied' : Makes(patch[i]) /\ patch[i].ref = r
    <3>1. CASE r \in DOMAIN refs
      BY <1>0, <3>1 DEF Built, NamesAreMade
    <3>2. CASE r \notin DOMAIN refs
      BY <1>0, <1>2, <3>2
    <3> QED BY <3>1, <3>2
  <2> QED BY <1>0, <2>1 DEF NamesAreMade, Makes
<1>6. /\ \A e \in EdgeIds(working)' :
            \/ e \in EdgeIds(working) /\ working'.edges[e] = working.edges[e]
            \/ Op.op = "add_edge" /\ working'.edges[e] = NewEdge(Op)
      /\ EdgeIds(working) \ GivenId \subseteq EdgeIds(working)'
      /\ \A e \in EdgeIds(working) \ GivenId : working'.edges[e] = working.edges[e]
      /\ Op.op = "add_edge" => NewId \in EdgeIds(working)' /\ working'.edges[NewId] = NewEdge(Op)
  <2>1. CASE Op.op \in {"add_node", "add_lane"}
    <3>1. working'.edges = working.edges
      BY <2>1, PartsLeftAlone
    <3> QED BY <2>1, <3>1 DEF EdgeIds
  <2>2. CASE Op.op = "add_edge"
    <3>1. working'.edges = Put(working.edges, NewId, NewEdge(Op))
      BY <1>0, <2>2 DEF ApplyOperation, AddEdge, IsGraph, GraphOf
    <3>2. NewId \notin EdgeIds(working)
      BY NewIdIsNew DEF CoreInv
    <3> QED BY <2>2, <3>1, <3>2 DEF Put, EdgeIds
  <2>3. CASE Op.op = "remove_edge"
    <3>1. working'.edges = Without(working.edges, {Op.id})
      BY <1>0, <2>3 DEF ApplyOperation, RemoveEdge, IsGraph, GraphOf
    <3>2. Op.id \in GivenId
      BY <1>0, <2>3, GivenBefore DEF Builds
    <3> QED BY <2>3, <3>1, <3>2 DEF Without, EdgeIds
  <2> QED BY <1>1, <2>1, <2>2, <2>3
<1>7. \A e, i : MadeBy(e, i)' <=> patch[i].op = "add_edge" /\ working'.edges[e] = NewEdge(patch[i])'
  BY <1>0 DEF MadeBy
<1>8. NewEdgesAreMade'
  <2>1. ASSUME NEW e \in EdgeIds(working)', e \notin EdgeIds(current)
        PROVE  \E i \in 1..applied' : MadeBy(e, i)'
    <3>1. CASE e \in EdgeIds(working) /\ working'.edges[e] = working.edges[e]
      <4>1. PICK i \in 1..applied : MadeBy(e, i)
        BY <2>1, <3>1 DEF Built, NewEdgesAreMade
      <4>2. i \in 1..k /\ patch[i].op = "add_edge" /\ working.edges[e] = NewEdge(patch[i])
        BY <1>0, <4>1 DEF MadeBy
      <4>3. MadeBy(e, i)'
        BY <1>2, <1>7, <3>1, <4>2
      <4> QED BY <1>0, <4>1, <4>3
    <3>2. CASE Op.op = "add_edge" /\ working'.edges[e] = NewEdge(Op)
      <4>1. MadeBy(e, k)'
        BY <1>0, <1>2, <1>7, <3>2
      <4> QED BY <1>0, <4>1
    <3> QED BY <1>6, <3>1, <3>2
  <2> QED BY <1>0, <2>1 DEF NewEdgesAreMade, EdgeIds
<1>9. MadeEdgesAreThere'
  <2>1. ASSUME NEW i \in 1..applied, patch[i].op = "add_edge"
        PROVE  \E e \in EdgeIds(working)' \ GivenId : MadeBy(e, i)'
    <3>1. PICK e \in EdgeIds(working) \ GivenId : MadeBy(e, i)
      BY <2>1 DEF Built, MadeEdgesAreThere
    <3>2. i \in 1..k /\ working.edges[e] = NewEdge(patch[i])
      BY <1>0, <3>1 DEF MadeBy
    <3>3. MadeBy(e, i)'
      BY <1>2, <1>6, <1>7, <2>1, <3>1, <3>2
    <3> QED BY <1>6, <3>1, <3>3
  <2>2. ASSUME patch[k].op = "add_edge"
        PROVE  \E e \in EdgeIds(working)' \ GivenId : MadeBy(e, k)'
    <3>1. PICK e : e = NewId
      OBVIOUS
    <3>2. e \in EdgeIds(working)' \ GivenId
      BY <1>0, <1>6, <2>2, <3>1, GivenBefore
    <3>3. MadeBy(e, k)'
      BY <1>0, <1>2, <1>6, <1>7, <2>2, <3>1
    <3> QED BY <3>2, <3>3
  <2> QED BY <1>0, <2>1, <2>2 DEF MadeEdgesAreThere
<1>10. NodesAreMade'
  <2>1. ASSUME NEW n \in NodeIds(working)', n \notin NodeIds(current)
        PROVE  \E i \in 1..applied' : MadeNode(n, i)'
    <3>0. \A i : MadeNode(n, i)' <=> /\ patch[i].op = "add_node" /\ refs'[patch[i].ref] = n
                                    /\ working'.nodes[n].type = patch[i].type
                                    /\ working'.nodes[n].sap = patch[i].sap
      BY <1>0 DEF MadeNode
    <3>1. CASE n \in NodeIds(working) /\ working'.nodes[n] = working.nodes[n]
      <4>1. PICK i \in 1..applied : MadeNode(n, i)
        BY <2>1, <3>1 DEF Built, NodesAreMade
      <4>2. patch[i].op = "add_node" /\ patch[i].ref \in DOMAIN refs
        BY <4>1 DEF MadeNode, Built, MadeIsNamed, Makes
      <4>3. MadeNode(n, i)'
        BY <1>2, <3>0, <3>1, <4>1, <4>2 DEF MadeNode
      <4> QED BY <1>0, <4>1, <4>3
    <3>2. CASE Op.op = "add_node" /\ n = NewId /\ working'.nodes[n].type = Op.type
                 /\ working'.nodes[n].sap = Op.sap
      <4>1. MadeNode(n, k)'
        BY <1>0, <1>2, <3>0, <3>2 DEF Makes
      <4> QED BY <1>0, <4>1
    <3> QED BY <2>1, <3>1, <3>2, NodesMade
  <2> QED BY <1>0, <2>1 DEF NodesAreMade, NodeIds
<1> QED BY <1>4, <1>5, <1>8, <1>9, <1>10 DEF Built

LEMMA ApplyAtFirst == ASSUME PatchInit PROVE ApplyInv
BY DEF PatchInit, ApplyInv, StartsAtCurrent, Built, MadeIsNamed, NamesAreMade, NodesAreMade,
       NewEdgesAreMade, MadeEdgesAreThere

\* What ApplyInv says of a patch is left alone.
LEMMA ApplyIsKept ==
    ASSUME ApplyInv, UNCHANGED <<current, patch, applied, working, refs>>,
           Sound(patch, current) => outcome' \notin {"refused", "unhandled"}
    PROVE  ApplyInv'
<1>1. Built => Built'
  <2>1. \A e, i : MadeBy(e, i)' <=> MadeBy(e, i)
    BY DEF MadeBy, NewEdge, Resolve
  <2>2. MadeIsNamed => MadeIsNamed'
    BY DEF MadeIsNamed, Makes, NodeIds, LaneIds
  <2>3. NamesAreMade => NamesAreMade'
    BY DEF NamesAreMade, Makes
  <2>4. NewEdgesAreMade => NewEdgesAreMade'
    BY <2>1 DEF NewEdgesAreMade, EdgeIds
  <2>5. MadeEdgesAreThere => MadeEdgesAreThere'
    BY <2>1 DEF MadeEdgesAreThere, EdgeIds
  <2>6. NodesAreMade => NodesAreMade'
    BY DEF NodesAreMade, MadeNode, NodeIds
  <2> QED BY <2>2, <2>3, <2>4, <2>5, <2>6 DEF Built
<1>2. Builds(patch, current)' <=> Builds(patch, current)
  BY DEF Builds, NodeBefore, LaneBefore, OpKey, Makes, Text, NodeIds, EdgeIds, LaneIds
<1>3. Sound(patch, current)' <=> Sound(patch, current)
  BY <1>2 DEF Sound, FitsAlone, Makes, OpKey, Key, Text, NodeIds, EdgeIds, LaneIds
<1> QED BY <1>1, <1>2, <1>3 DEF ApplyInv, StartsAtCurrent

LEMMA ApplyAfterStep ==
    ASSUME CoreInv, NamedInv, ApplyInv, [PatchNext]_patchVars
    PROVE  ApplyInv'
<1>1. CASE ApplyOperation
  <2>1. /\ current' = current /\ patch' = patch /\ outcome' = outcome
        /\ applied \in Nat /\ applied' = applied + 1
    BY <1>1, OpIsOperation DEF ApplyOperation, CoreInv
  <2>2. Builds(patch, current) => Built'
    BY <1>1, BuiltAfterOperation DEF ApplyInv
  <2>3. StartsAtCurrent'
    BY <2>1 DEF StartsAtCurrent
  <2>4. PICK p, g : p = patch /\ g = current
    OBVIOUS
  <2>5. /\ Builds(p, g) => Built'
        /\ Sound(p, g) => outcome' \notin {"refused", "unhandled"}
        /\ patch' = p /\ current' = g
    BY <2>1, <2>2, <2>4 DEF ApplyInv
  <2> QED BY <2>3, <2>5 DEF ApplyInv
<1>2. CASE RefuseOperation \/ FailOperation
  <2>1. Applying /\ UNCHANGED <<current, patch, applied, working, refs>>
        /\ (~Applicable(Op) \/ (Op.op = "update_node" /\ ChangesAreNull(Op)))
    BY <1>2 DEF RefuseOperation, FailOperation
  <2>2. ~Builds(patch, current)
    BY <2>1, BuildsFit DEF ApplyInv
  <2>3. ~(Len(patch) = 1 /\ FitsAlone(patch[1], current))
    BY <2>1, LoneFits DEF ApplyInv
  <2> QED BY <2>1, <2>2, <2>3, ApplyIsKept DEF Sound
<1>3. CASE Validate
  <2>1. working' = working /\ UNCHANGED <<current, patch, applied, refs>>
        /\ outcome' \in {"applied", "invalid"}
    BY <1>3, NothingIsCut DEF Validate, CoreInv
  <2> QED BY <2>1, ApplyIsKept
<1>4. ASSUME NEW p \in Seq(Operation), Receive(p) PROVE ApplyInv'
  <2>1. /\ applied = 0 /\ applied' = 0 /\ working' = current' /\ refs' = <<>>
        /\ outcome' = "applying"
    BY <1>4 DEF Receive, CoreInv, ApplyInv, StartsAtCurrent
  <2>2. StartsAtCurrent' /\ Built'
    BY <2>1 DEF StartsAtCurrent, Built, MadeIsNamed, NamesAreMade, NodesAreMade, NewEdgesAreMade,
                MadeEdgesAreThere
  <2> QED BY <2>1, <2>2 DEF ApplyInv
<1>5. CASE UNCHANGED patchVars
  <2>1. UNCHANGED <<current, patch, applied, working, refs, outcome>>
    BY <1>5 DEF patchVars
  <2> QED BY <2>1, ApplyIsKept DEF ApplyInv
<1> QED BY <1>1, <1>2, <1>3, <1>4, <1>5 DEF PatchNext, ApplyPatch

\* A patch that only builds, from what is there or what it has made before, and
\* one of a single operation that the graph admits, are never refused: references,
\* cascades and the ids drawn on the way get no operation into another's way.
THEOREM SoundPatchesApply ==
    PatchSpec => [](Sound(patch, current) => outcome \notin {"refused", "unhandled"})
<1>1. PatchInit => ApplyInv
  BY ApplyAtFirst
<1>2. CoreInv /\ NamedInv /\ ApplyInv /\ [PatchNext]_patchVars => ApplyInv'
  BY ApplyAfterStep
<1>3. ApplyInv => (Sound(patch, current) => outcome \notin {"refused", "unhandled"})
  BY DEF ApplyInv
<1>4. PatchInit => NamedInv
  BY NamedAtFirst
<1>5. CoreInv /\ NamedInv /\ [PatchNext]_patchVars => NamedInv'
  BY NamedAfterStep
<1> QED BY <1>1, <1>2, <1>3, <1>4, <1>5, PatchCore, PTL DEF PatchSpec

\* A patch is applied as a whole or not at all.
THEOREM AppliedAsAWhole == PatchSpec => [](outcome = "applied" => applied = Len(patch))
<1> DEFINE Inv == outcome = "applied" => applied = Len(patch)
<1>1. PatchInit => Inv
  BY DEF PatchInit
<1>2. CoreInv /\ Inv /\ [PatchNext]_patchVars => Inv'
  <2> SUFFICES ASSUME CoreInv, Inv, [PatchNext]_patchVars PROVE Inv'
    OBVIOUS
  <2>1. CASE ApplyOperation \/ RefuseOperation \/ FailOperation
    BY <2>1 DEF ApplyOperation, RefuseOperation, FailOperation, Applying
  <2>2. CASE Validate
    BY <2>2 DEF Validate
  <2>3. CASE \E p \in Seq(Operation) : Receive(p)
    BY <2>3 DEF Receive
  <2>4. CASE UNCHANGED patchVars
    BY <2>4 DEF patchVars
  <2> QED BY <2>1, <2>2, <2>3, <2>4 DEF PatchNext, ApplyPatch
<1> QED BY <1>1, <1>2, PatchCore, PTL DEF PatchSpec
==============================================================================
