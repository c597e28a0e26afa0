----------------------------- MODULE FlowWarnings -----------------------------
(***************************************************************************)
(* The warnings that go with a graph (graph/validator.py) and the review   *)
(* state of an export (_has_pending_review of agent/orchestrator.py).      *)
(* Nothing is refused for them: a consultant reads them.  The searches are *)
(* written as the code's, step by step, to be compared with what they are  *)
(* to find; the order in which edges are followed is any.                  *)
(***************************************************************************)
EXTENDS FlowGraph, FiniteSetsExt, SequencesExt

Starts(g) == {n \in NodeIds(g) : g.nodes[n].type = "start"}
Ends(g) == {n \in NodeIds(g) : g.nodes[n].type = "end"}

Targets(g, n) == {g.edges[e].target : e \in Outgoing(g, n)}

Isolated(g) ==
    {n \in NodeIds(g) : Incoming(g, n) \cup Outgoing(g, n) = {} /\ Cardinality(NodeIds(g)) > 1}

Undecided(g) ==
    {n \in NodeIds(g) : g.nodes[n].type = "decision" /\ Cardinality(Outgoing(g, n)) < 2}

\* The breadth-first search from the start nodes: one turn of its loop.
SearchState(g) == [reachable : SUBSET NodeIds(g), queue : Seq(NodeIds(g))]

Unseen(g, n, reachable) == Targets(g, n) \ reachable

Turn(g, s) ==
    LET found == Unseen(g, Head(s.queue), s.reachable)
    IN  [reachable |-> s.reachable \cup found, queue |-> Tail(s.queue) \o SetToSeq(found)]

Search(g) ==
    LET from[s \in SearchState(g)] == IF s.queue = <<>> THEN s.reachable ELSE from[Turn(g, s)]
    IN  from[[reachable |-> Starts(g), queue |-> SetToSeq(Starts(g))]]

Unreachable(g) ==
    IF Starts(g) = {} THEN {}
    ELSE NodeIds(g) \ Search(g)

\* The depth-first search for a cycle: nodes on the path to where it is are
\* being visited, nodes it has come back from have been.
BugOnPath(n, visiting, visited) == n \in visiting \cup visited
OnPath(n, visiting, visited) == n \in visiting

Walk(g) ==
    [todo : SUBSET NodeIds(g), visiting : SUBSET NodeIds(g), visited : SUBSET NodeIds(g)]
Found(g) == [cycle : BOOLEAN, visited : SUBSET NodeIds(g)]

\* The nodes to do are visited one after the other until one finds a cycle; a
\* node is visited by visiting its targets.
VisitNext(g, w, visit) ==
    LET n == CHOOSE x \in w.todo : TRUE
        below == visit[[todo |-> Targets(g, n), visiting |-> w.visiting \cup {n},
                        visited |-> w.visited]]
        Others(visited) == visit[[todo |-> w.todo \ {n}, visiting |-> w.visiting,
                                  visited |-> visited]]
    IN  IF OnPath(n, w.visiting, w.visited) THEN [cycle |-> TRUE, visited |-> w.visited]
        ELSE IF n \in w.visited THEN Others(w.visited)
        ELSE IF below.cycle THEN below
        ELSE Others(below.visited \cup {n})

Visit(g) ==
    LET visit[w \in Walk(g)] ==
          IF w.todo = {} THEN [cycle |-> FALSE, visited |-> w.visited]
          ELSE VisitNext(g, w, visit)
    IN  visit

HasCycle(g) == Visit(g)[[todo |-> NodeIds(g), visiting |-> {}, visited |-> {}]].cycle

\* graph_warnings: which there are, and the nodes they name.
Warnings(g) ==
    [noStart |-> Starts(g) = {}, noEnd |-> Ends(g) = {}, isolated |-> Isolated(g),
     unreachable |-> Unreachable(g), undecided |-> Undecided(g), cycle |-> HasCycle(g)]

\* _has_pending_review: an export says that it is not for signature.
HasPendingReview(g) ==
    \E n \in NodeIds(g) :
        LET sap == g.nodes[n].sap IN
        \/ \E i \in sap.items : i.status = "pending" \/ (i.status = None /\ i.ref = None)
        \/ sap.gap = "candidate"

-----------------------------------------------------------------------------
(* What the warnings mean, without a search.                               *)

Closed(g, S) == \A n \in S : Targets(g, n) \subseteq S

\* The least closed set of nodes around S.
Reach(g, S) ==
    {n \in NodeIds(g) : \A C \in SUBSET NodeIds(g) : S \subseteq C /\ Closed(g, C) => n \in C}

\* Nodes one could walk around in for ever.
IsCyclic(g) ==
    \E C \in SUBSET NodeIds(g) : C # {} /\ \A n \in C : Targets(g, n) \cap C # {}
==============================================================================
