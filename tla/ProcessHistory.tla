---------------------------- MODULE ProcessHistory ----------------------------
(***************************************************************************)
(* What the version history of one process promises its readers: revisions *)
(* are appended one by one and none is replaced, releases are numbered 1,  *)
(* 2, 3 and so on in the order they are made, and a number once given      *)
(* stays with its revision.                                                *)
(***************************************************************************)
EXTENDS Integers

CONSTANT First      \* number of the first revision

VARIABLE release    \* revision number -> release number, 0 for a draft

Assigned == {release[r] : r \in DOMAIN release} \ {0}

HistoryInit == release = [r \in {First} |-> 0]

AppendDraft ==
    \E n \in DOMAIN release :
        /\ DOMAIN release = First..n
        /\ release' = [r \in First..(n + 1) |->
                          IF r = n + 1 THEN 0 ELSE release[r]]

\* The next number is the one after the last, or 1.
NextNumber == {k + 1 : k \in Assigned \cup {0}} \ Assigned

AssignNext(r) ==
    /\ release[r] = 0
    /\ \E n \in NextNumber : release' = [release EXCEPT ![r] = n]

HistoryNext == AppendDraft \/ \E r \in DOMAIN release : AssignNext(r)

HistorySpec == HistoryInit /\ [][HistoryNext]_release
==============================================================================
