------------------------------- MODULE FlowGraph -------------------------------
(***************************************************************************)
(* The graph of a process (models/graph.py): nodes, edges and swimlanes    *)
(* by id, and the positions of the layout.  A graph is a value; what it    *)
(* must satisfy is ValidGraph, the checks of validate_graph.               *)
(*                                                                         *)
(* Lists are functions from ids, which are numbers.  Of a node, `label`    *)
(* stands for its label, description and icon, and "task" for subprocess   *)
(* too; of a layout only the ids are kept; the revision number is in       *)
(* module Revisions and the title and SAP context never change here.       *)
(***************************************************************************)
EXTENDS Integers, FiniteSets

CONSTANTS
    None,           \* JSON null
    NoText,         \* the empty string, as the label of an edge
    Label,          \* labels with text
    Evidence,       \* references to knowledge
    MaxNodes, MaxEdges, MaxLanes

NodeType == {"start", "end", "task", "decision"}
EdgeLabel == Label \cup {None, NoText}

\* Transactions, apps and configuration points have a status; best practice
\* references have none.
ItemStatus == {"pending", "verified", None}
ASSUME StatusAssumption == None \notin {"pending", "verified"}
SapItem == [ref : Evidence \cup {None}, status : ItemStatus]
GapStatus == {"none", "candidate", "confirmed", "rejected", "resolved"}
SapMetadata == [items : SUBSET SapItem, gap : GapStatus, gapRefs : SUBSET Evidence]
BlankSap == [items |-> {}, gap |-> "none", gapRefs |-> {}]

Node == [type : NodeType, label : Label, lane : Int \cup {None}, sap : SapMetadata]
Edge == [source : Int, target : Int, label : EdgeLabel]

GraphOf(nodes, edges, lanes, layout) ==
    [nodes |-> nodes, edges |-> edges, lanes |-> lanes, layout |-> layout]

EmptyGraph == GraphOf(<<>>, <<>>, <<>>, {})

NodeIds(g) == DOMAIN g.nodes
EdgeIds(g) == DOMAIN g.edges
LaneIds(g) == DOMAIN g.lanes

Outgoing(g, n) == {e \in EdgeIds(g) : g.edges[e].source = n}
Incoming(g, n) == {e \in EdgeIds(g) : g.edges[e].target = n}

\* The label of a lane may become null while a patch is applied.
IsGraph(g) ==
    /\ g = GraphOf(g.nodes, g.edges, g.lanes, g.layout)
    /\ NodeIds(g) \subseteq Int /\ \A n \in NodeIds(g) : g.nodes[n] \in Node
    /\ EdgeIds(g) \subseteq Int /\ \A e \in EdgeIds(g) : g.edges[e] \in Edge
    /\ LaneIds(g) \subseteq Int /\ \A l \in LaneIds(g) : g.lanes[l] \in Label \cup {None}
    /\ g.layout \subseteq Int

\* f with x mapped to v, and f without the elements of S.
Put(f, x, v) == [y \in DOMAIN f \cup {x} |-> IF y = x THEN v ELSE f[y]]
Without(f, S) == [y \in DOMAIN f \ S |-> f[y]]

-----------------------------------------------------------------------------

\* `label or ""`.
Text(label) == IF label = NoText THEN None ELSE label

Key(edge) == <<edge.source, edge.target, Text(edge.label)>>

LanesAreKnown(g) ==
    \A n \in NodeIds(g) : g.nodes[n].lane \in LaneIds(g) \cup {None}
EndsAreKnown(g) ==
    \A e \in EdgeIds(g) : {g.edges[e].source, g.edges[e].target} \subseteq NodeIds(g)
NoEdgeIsALoop(g) ==
    \A e \in EdgeIds(g) : g.edges[e].source # g.edges[e].target
EdgesAreDistinct(g) ==
    \A e, f \in EdgeIds(g) : Key(g.edges[e]) = Key(g.edges[f]) => e = f
LayoutIsKnown(g) == g.layout \subseteq NodeIds(g)

\* validate_graph.  The layout is not checked but cut down to the nodes.
ValidGraph(g) ==
    /\ LanesAreKnown(g)
    /\ EndsAreKnown(g)
    /\ NoEdgeIsALoop(g)
    /\ EdgesAreDistinct(g)

CutLayout(g) == [g EXCEPT !.layout = @ \cap NodeIds(g)]

\* The limits and types of the fields of GraphDocument.
FieldsAreValid(g) ==
    /\ Cardinality(NodeIds(g)) <= MaxNodes
    /\ Cardinality(EdgeIds(g)) <= MaxEdges
    /\ Cardinality(LaneIds(g)) <= MaxLanes
    /\ \A l \in LaneIds(g) : g.lanes[l] # None

Document(g) == ValidGraph(g) /\ LayoutIsKnown(g) /\ FieldsAreValid(g)
==============================================================================
