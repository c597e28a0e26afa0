------------------------------- MODULE Knowledge -------------------------------
(***************************************************************************)
(* What the knowledge service may return as evidence (knowledge/service.py *)
(* and knowledge/index.py), and what a patch may claim on the strength of  *)
(* it (graph/evidence.py).  Scores are left open: any entries that pass    *)
(* the filters may turn out to be the best ones.                           *)
(***************************************************************************)
EXTENDS FlowGraph

CONSTANTS
    Library,        \* the sections of the knowledge files
    TopK            \* how many a search returns at most

\* fits: its module and scope are those of the graph.  release: that of the
\* graph, another, or none.  Sections may share a reference.
Chunk == [id : Nat, ref : Evidence, fits : BOOLEAN, release : {"same", "other", "none"},
          review : {"approved", "pending"}, licensed : BOOLEAN]

ASSUME LibraryAssumption == Library \subseteq Chunk /\ TopK \in Nat

\* production_eligible.
ProductionEligible(c) == c.licensed /\ c.review = "approved"

\* KnowledgeIndex.sync: what is searched after a start.
Indexed(allowPending) == {c \in Library : allowPending \/ ProductionEligible(c)}

Fits(c) == c.fits /\ c.release # "other"

\* search: the best of those that match, or nothing below the threshold.
SearchResults(allowPending) ==
    {top \in SUBSET {c \in Indexed(allowPending) : Fits(c)} : Cardinality(top) <= TopK}

\* {evidence_ref: review_status}: of entries that share a reference, one counts.
Retrievals(top) ==
    {r \in [{c.ref : c \in top} -> {"approved", "pending"}] :
        \A ref \in DOMAIN r : \E c \in top : c.ref = ref /\ c.review = r[ref]}

-----------------------------------------------------------------------------

\* _graph_evidence_refs and _graph_verified_refs.
GraphRefs(g) ==
    UNION {({i.ref : i \in g.nodes[n].sap.items} \ {None}) \cup g.nodes[n].sap.gapRefs :
           n \in NodeIds(g)}
VerifiedRefs(g) ==
    UNION {{i.ref : i \in {j \in g.nodes[n].sap.items : j.status = "verified"}} \ {None} :
           n \in NodeIds(g)}

\* A reference must have been retrieved or be in the graph.
RefIsKnown(ref, g, retrieved) == ref \in DOMAIN retrieved \cup GraphRefs(g)

\* A verified item must name an approved source, or one verified before.
BugVerifiedIsBacked(item, g, retrieved) ==
    item.ref \in DOMAIN retrieved \cup VerifiedRefs(g)
VerifiedIsBacked(item, g, retrieved) ==
    \/ item.ref \in DOMAIN retrieved /\ retrieved[item.ref] = "approved"
    \/ item.ref \in VerifiedRefs(g)

\* What validate_patch_evidence asks of the metadata of one node.
SapIsSupported(sap, g, retrieved) ==
    /\ \A i \in sap.items : i.ref # None => RefIsKnown(i.ref, g, retrieved)
    /\ \A i \in sap.items : i.status = "verified" => VerifiedIsBacked(i, g, retrieved)
    /\ \A ref \in sap.gapRefs : RefIsKnown(ref, g, retrieved)
    /\ sap.gap # "none" => sap.gapRefs # {}
==============================================================================
