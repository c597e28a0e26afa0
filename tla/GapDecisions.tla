----------------------------- MODULE GapDecisions -----------------------------
(***************************************************************************)
(* The SAP gaps of one process: the status each node's gap has in every    *)
(* revision, the decisions consultants record about it, and the preflight  *)
(* that decides whether a revision may be released (api/routes/projects.py *)
(* on db/repository.py).                                                   *)
(*                                                                         *)
(* A request that saves is one step: its revision is appended to the one   *)
(* it started from or it is refused, whatever runs beside it (Revisions).  *)
(* A publication is late at will: the graph it checks is never updated.    *)
(***************************************************************************)
EXTENDS Integers

CONSTANTS
    Node,           \* ids of nodes
    MaxRevision     \* bound on revisions

ASSUME RevisionBound == MaxRevision \in Nat \ {0}

VARIABLES
    current,        \* process.current_revision, counted from 1
    graph,          \* revision -> the gap of each node
    decisions,      \* the gap_decision rows
    released        \* revisions that have a release number

vars == <<current, graph, decisions, released>>

\* GapStatus, and a node that is not in the graph.
Absent == "absent"
Open == {"none", "candidate"}
Decided == {"confirmed", "rejected", "resolved"}

\* evidence: the gap names evidence.
Gap == [status : Open \cup Decided, evidence : BOOLEAN] \cup
       {[status |-> Absent, evidence |-> FALSE]}

Decision == [node : Node, revision : 1..MaxRevision, to : Decided]

TypeOK ==
    /\ current \in 1..MaxRevision
    /\ graph \in [1..current -> [Node -> Gap]]
    /\ decisions \subseteq Decision
    /\ \A d \in decisions : d.revision <= current
    /\ released \subseteq 1..current

\* create_process takes the initial graph as it is, decided gaps included.
Init ==
    /\ current = 1
    /\ graph \in [{1} -> [Node -> Gap]]
    /\ decisions = {}
    /\ released = {}

-----------------------------------------------------------------------------

StatusAt(r, n) == graph[r][n].status

BugAppendRevision(g) ==
    /\ current < MaxRevision
    /\ UNCHANGED current
    /\ graph' = [r \in 1..(current + 1) |-> IF r = current + 1 THEN g ELSE graph[r]]
AppendRevision(g) ==
    /\ current < MaxRevision
    /\ current' = current + 1
    /\ graph' = [r \in 1..(current + 1) |-> IF r = current + 1 THEN g ELSE graph[r]]

\* _validate_gap_edit, for one node: a node that was not there counts as one
\* without a gap.
BugMayBecome(old, new) ==
    \/ new \in {old, Absent}
    \/ old = Absent
    \/ old = "none" /\ new = "candidate"
MayBecome(old, new) ==
    \/ new \in {old, Absent}
    \/ old = Absent /\ new \in Open
    \/ old = "none" /\ new = "candidate"

\* A manual save, a Draw.io save or a modification by the model.
Edit ==
    \E g \in [Node -> Gap] :
        /\ \A n \in Node : MayBecome(StatusAt(current, n), g[n].status)
        /\ AppendRevision(g)
        /\ UNCHANGED <<decisions, released>>

Transitions(from) ==
    CASE from = "candidate" -> {"confirmed", "rejected"}
      [] from = "confirmed" -> {"resolved"}
      [] OTHER -> {}

\* The revision a decision is filed under is the one it creates.
BugDecidedIn == current
DecidedIn == current + 1

\* decide_gap.
Decide(n, to) ==
    /\ to \in Transitions(StatusAt(current, n))
    /\ AppendRevision([graph[current] EXCEPT ![n].status = to])
    /\ decisions' = decisions \cup {[node |-> n, revision |-> DecidedIn, to |-> to]}
    /\ UNCHANGED released

\* create_draft_from_revision.
CopyRelease ==
    /\ current \in released
    /\ AppendRevision(graph[current])
    /\ UNCHANGED <<decisions, released>>

DecisionsOn(n, r) == {d \in decisions : d.node = n /\ d.revision <= r}

\* latest_gap_decisions has to_status to for the node.
LatestIs(n, r, to) ==
    \E d \in DecisionsOn(n, r) :
        /\ d.to = to
        /\ \A e \in DecisionsOn(n, r) : e.revision <= d.revision

\* has_gap_decision(confirmed).
BugWasConfirmed(n, r) == TRUE
WasConfirmed(n, r) == \E d \in DecisionsOn(n, r) : d.to = "confirmed"

\* _validate_release_graph, as far as gaps are concerned.
Audited(n, r) == LatestIs(n, r, StatusAt(r, n))

Preflight(r) ==
    \A n \in Node :
        /\ StatusAt(r, n) \in Decided => Audited(n, r)
        /\ StatusAt(r, n) = "resolved" => WasConfirmed(n, r)
        /\ StatusAt(r, n) = "confirmed" => graph[r][n].evidence

\* create_release.
Publish(r) ==
    /\ r \notin released
    /\ Preflight(r)
    /\ released' = released \cup {r}
    /\ UNCHANGED <<current, graph, decisions>>

Next ==
    \/ Edit
    \/ \E n \in Node, to \in Decided : Decide(n, to)
    \/ CopyRelease
    \/ \E r \in 1..current : Publish(r)

Spec == Init /\ [][Next]_vars

-----------------------------------------------------------------------------
(* Properties.                                                             *)

\* The node has had one status, and so has been there, from revision q to r.
Unchanged(n, q, r) == \A k \in q..r : StatusAt(k, n) = StatusAt(r, n)

\* The status is the one a consultant decided, and stood since the decision.
DecisionStands(n, r) ==
    \E d \in decisions :
        /\ d.node = n /\ d.revision <= r
        /\ d.to = StatusAt(r, n)
        /\ Unchanged(n, d.revision, r)

\* A gap that a release shows as decided was decided by a consultant, and has
\* not been edited, removed and put back, or imported with the initial graph.
ReleasedGapsWereDecided ==
    \A r \in released, n \in Node :
        StatusAt(r, n) \in Decided => DecisionStands(n, r)

\* A gap that a release shows as resolved was confirmed first, as the gap of the
\* same node: the node was not removed and put back in between.
ResolvedWasConfirmed ==
    \A r \in released, n \in Node :
        StatusAt(r, n) = "resolved" =>
            \E c \in DecisionsOn(n, r) :
                /\ c.to = "confirmed"
                /\ \A k \in c.revision..r : StatusAt(k, n) \in {"confirmed", "resolved"}

-----------------------------------------------------------------------------
(* The inductive invariant behind both.                                    *)

\* In any revision, a decided gap is one whose decision stands, or it has been
\* so since the initial graph.
DecidedOrImported ==
    \A r \in 1..current, n \in Node :
        StatusAt(r, n) \in Decided => DecisionStands(n, r) \/ Unchanged(n, 1, r)

\* A decision is the step from the revision before to the one it is filed under.
DecisionsAreSteps ==
    \A d \in decisions :
        /\ d.revision > 1
        /\ StatusAt(d.revision, d.node) = d.to
        /\ d.to \in Transitions(StatusAt(d.revision - 1, d.node))

GapInv ==
    /\ DecidedOrImported
    /\ DecisionsAreSteps
    /\ \A r \in released : Preflight(r)
==============================================================================
