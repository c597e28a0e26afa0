---------------------------- MODULE MCModification ----------------------------
(***************************************************************************)
(* Modification for TLC: the graphs, the library and the patches a model   *)
(* may answer with.  Nodes are 1 to 3, edges 4 to 8, lanes 8 and 9; 10 is  *)
(* the id of nothing.                                                      *)
(***************************************************************************)
EXTENDS Modification, TLC

SapOf(status, ref, gap, gapRefs) ==
    [items |-> IF status = "no item" THEN {} ELSE {[ref |-> ref, status |-> status]},
     gap |-> gap, gapRefs |-> gapRefs]

NodeOf(type, lane, sap) == [type |-> type, label |-> "step", lane |-> lane, sap |-> sap]
EdgeOf(s, t, label) == [source |-> s, target |-> t, label |-> label]

\* A decision with two ways to the end, one of them marked yes, two more from
\* the start, a verified transaction and a gap candidate.
Approval ==
    GraphOf(1 :> NodeOf("start", 9, BlankSap)
            @@ 2 :> NodeOf("decision", 9, SapOf("verified", "old", "candidate", {"old"}))
            @@ 3 :> NodeOf("end", None, BlankSap),
            4 :> EdgeOf(1, 2, NoText) @@ 5 :> EdgeOf(2, 3, "step") @@ 6 :> EdgeOf(2, 3, "yes")
            @@ 7 :> EdgeOf(1, 3, None) @@ 8 :> EdgeOf(1, 3, "yes"),
            9 :> "step",
            {1, 2})

\* A task that leads back to the start, in a lane of its own, and one that is
\* not reached.
Loop ==
    GraphOf(1 :> NodeOf("start", 8, BlankSap)
            @@ 2 :> NodeOf("task", 9, SapOf("pending", None, "none", {}))
            @@ 3 :> NodeOf("task", None, SapOf("no item", None, "confirmed", {"old"})),
            4 :> EdgeOf(1, 2, None) @@ 5 :> EdgeOf(2, 1, None),
            8 :> "step" @@ 9 :> "yes",
            {3})

MCInitialGraph == {EmptyGraph, Approval, Loop}

ChunkOf(id, ref, release, review, licensed) ==
    [id |-> id, ref |-> ref, fits |-> TRUE, release |-> release, review |-> review,
     licensed |-> licensed]

\* An approved section, one for all releases that no consultant has seen, one of
\* another release, and one without a licence.
MCLibrary ==
    {ChunkOf(1, "seed", "same", "approved", TRUE),
     ChunkOf(2, "draft", "none", "pending", TRUE),
     ChunkOf(3, "other", "other", "approved", TRUE),
     ChunkOf(4, "unlicensed", "same", "approved", FALSE)}

-----------------------------------------------------------------------------
(* Patches of a model.                                                     *)

OpUpdateLane(l, label) == [op |-> "update_lane", id |-> l, label |-> label]
OpUpdateEdge(e, label) == [op |-> "update_edge", id |-> e, label |-> label]
Task(i, lane, sap) == OpAddNode(i, "task", "step", lane, sap)

Moves == {OpAddEdge(1, -1, None), OpAddEdge(-1, 3, NoText), OpAddEdge(3, 1, None),
          OpRemove("remove_edge", 4), OpRemove("remove_node", 2), Task(1, None, BlankSap),
          OpAddLane(2, "step"), OpRemove("remove_lane", 9)}

Structural ==
    Moves \cup
    {Task(1, 9, BlankSap), Task(1, -2, BlankSap), Task(1, -1, BlankSap),
     OpUpdate(2, [NoChange EXCEPT !.lane = None]), OpUpdate(1, [NoChange EXCEPT !.lane = -2]),
     OpUpdate(2, [NoChange EXCEPT !.label = None]), OpUpdate(1, [NoChange EXCEPT !.type = "task"]),
     OpRemove("remove_node", 10), OpRemove("remove_node", -1),
     OpAddEdge(2, 2, None), OpAddEdge(1, 2, None),
     OpUpdateEdge(5, "yes"), OpUpdateEdge(7, NoText),
     OpUpdateLane(9, "yes"), OpUpdateLane(9, None)}

Claims ==
    {SapOf("verified", r, "none", {}) : r \in {"seed", "draft", "unlicensed", "old", None}}
    \cup {SapOf("pending", r, "none", {}) : r \in {"other", "draft", None}}
    \cup {SapOf("no item", None, gap, by) : gap \in {"candidate", "confirmed"}, by \in {{}, {"draft"}}}
    \cup {BlankSap}

Professional ==
    {Task(2, None, sap) : sap \in Claims}
    \cup {OpUpdate(n, [NoChange EXCEPT !.sap = sap]) : n \in {2, 3}, sap \in Claims}

MCExternalPatch ==
    LET either == Structural \cup Professional IN
    {<<o>> : o \in either}
    \cup {<<o, p>> : o, p \in either}
    \cup {<<o, p, q>> : o, p, q \in Moves}
==============================================================================
