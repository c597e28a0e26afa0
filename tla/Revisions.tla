------------------------------ MODULE Revisions ------------------------------
(***************************************************************************)
(* The versions of one process: the process row, its process_revision rows *)
(* and the requests that save a revision, copy a release into a draft or   *)
(* publish (api/routes/projects.py on db/repository.py).                   *)
(*                                                                         *)
(* A request is one database session.  It reads the process row, then the  *)
(* revision row, checks what it read and commits.  Nothing locks the rows  *)
(* between, the session keeps the objects it read, and an UPDATE writes    *)
(* only the columns whose value differs from the one that was read; the    *)
(* unique constraints uq_process_revision and uq_process_release are what  *)
(* stops a request that read too early.  The content of a graph is left    *)
(* out: a revision's graph is never updated.                               *)
(***************************************************************************)
EXTENDS Integers

CONSTANTS
    Client,         \* requests in flight at once
    First,          \* version of the graph the process was created with
    MaxRevision     \* bound on revision numbers

ASSUME RevisionBounds ==
    First \in Nat /\ MaxRevision \in Nat /\ First <= MaxRevision

VARIABLES
    current,        \* process.current_revision
    status,         \* process.status
    latest,         \* process.latest_release_no, 0 for NULL
    release,        \* revision_no -> release_no, 0 for NULL, of every row
    request         \* what each request has read

vars == <<current, status, latest, release, request>>

Lifecycle == {"DRAFT", "APPROVED"}

\* Saves are manual saves, Draw.io saves, confirmed AI modifications and GAP
\* decisions.
Kind == {"save", "draft", "publish"}

\* status, latest: the columns of the process row the session read.
Request == [pc : {"idle", "read", "ready"}, kind : Kind, base : Nat,
            status : Lifecycle, latest : Nat]

Rows == DOMAIN release
Assigned == {release[r] : r \in Rows} \ {0}

TypeOK ==
    /\ current \in First..MaxRevision
    /\ status \in Lifecycle
    /\ latest \in Nat
    /\ Rows \subseteq First..MaxRevision
    /\ release \in [Rows -> Nat]
    /\ request \in [Client -> Request]

Idle == [pc |-> "idle", kind |-> "save", base |-> 0, status |-> "DRAFT",
         latest |-> 0]

\* create_process.
Init ==
    /\ current = First
    /\ status = "DRAFT"
    /\ latest = 0
    /\ release = [r \in {First} |-> 0]
    /\ request = [c \in Client |-> Idle]

-----------------------------------------------------------------------------

\* The request reads the process row; its base revision must be the current one.
Begin(c, kind) ==
    /\ request[c].pc = "idle"
    /\ kind # "publish" => current < MaxRevision
    /\ request' = [request EXCEPT
                     ![c] = [pc |-> "read", kind |-> kind, base |-> current,
                             status |-> status, latest |-> latest]]
    /\ UNCHANGED <<current, status, latest, release>>

\* What it requires of the revision row.
BugAdmitted(c) == TRUE
Admitted(c) ==
    CASE request[c].kind = "publish" -> release[request[c].base] = 0
      [] request[c].kind = "draft" -> release[request[c].base] # 0
      [] OTHER -> TRUE

\* The request reads the revision row; a modification then waits for the model.
Load(c) ==
    /\ request[c].pc = "read"
    /\ Admitted(c)
    /\ request' = [request EXCEPT ![c].pc = "ready"]
    /\ UNCHANGED <<current, status, latest, release>>

\* A check fails, the model or the database fails, or the client goes away:
\* the session is rolled back.
GiveUp(c) ==
    /\ request[c].pc # "idle"
    /\ request' = [request EXCEPT ![c] = Idle]
    /\ UNCHANGED <<current, status, latest, release>>

\* The UPDATE leaves the column out when the value set is the value read.
WriteStatus(c, new) ==
    status' = IF request[c].status = new THEN status ELSE new

BugNewRevision(c) == request[c].base + 2
NewRevision(c) == request[c].base + 1

BugRevisionFree(n) == TRUE
RevisionFree(n) == n \notin Rows        \* uq_process_revision

\* save_manual_graph, save_drawio_revision, save_modified_graph,
\* save_gap_decision and create_draft_from_revision.
CommitRevision(c) ==
    LET n == NewRevision(c) IN
    /\ request[c].pc = "ready"
    /\ request[c].kind # "publish"
    /\ RevisionFree(n)
    /\ release' = [r \in Rows \cup {n} |-> IF r = n THEN 0 ELSE release[r]]
    /\ current' = n
    /\ WriteStatus(c, "DRAFT")
    /\ request' = [request EXCEPT ![c] = Idle]
    /\ UNCHANGED latest

\* IntegrityError: 409 REVISION_CONFLICT.
RevisionConflict(c) ==
    /\ request[c].pc = "ready"
    /\ request[c].kind # "publish"
    /\ ~RevisionFree(NewRevision(c))
    /\ request' = [request EXCEPT ![c] = Idle]
    /\ UNCHANGED <<current, status, latest, release>>

NextNumber(c) == request[c].latest + 1

BugNumberFree(c) == TRUE
NumberFree(c) ==                        \* uq_process_release
    \A r \in Rows \ {request[c].base} : release[r] # NextNumber(c)

\* publish_release.
CommitRelease(c) ==
    /\ request[c].pc = "ready"
    /\ request[c].kind = "publish"
    /\ NumberFree(c)
    /\ release' = [release EXCEPT ![request[c].base] = NextNumber(c)]
    /\ latest' = NextNumber(c)
    /\ WriteStatus(c, "APPROVED")
    /\ request' = [request EXCEPT ![c] = Idle]
    /\ UNCHANGED current

\* IntegrityError: 503 DATABASE_WRITE_FAILED.
ReleaseRefused(c) ==
    /\ request[c].pc = "ready"
    /\ request[c].kind = "publish"
    /\ ~NumberFree(c)
    /\ request' = [request EXCEPT ![c] = Idle]
    /\ UNCHANGED <<current, status, latest, release>>

Next == \E c \in Client :
    \/ \E kind \in Kind : Begin(c, kind)
    \/ Load(c) \/ GiveUp(c)
    \/ CommitRevision(c) \/ RevisionConflict(c)
    \/ CommitRelease(c) \/ ReleaseRefused(c)

Spec == Init /\ [][Next]_vars

-----------------------------------------------------------------------------
(* Properties.                                                             *)

\* Optimistic concurrency loses no revision: the current revision is the newest
\* and every number up to it has its row, though the check of base_revision in
\* ensure_current_revision only ever compares with what the session read.
CurrentIsNewest == Rows = First..current

\* The rows implement the history: revisions are appended, and a release keeps
\* the number it was given even when two requests publish it at once.
History == INSTANCE ProcessHistory
ImplementsHistory == History!HistorySpec

\* The number the next publication will be given is not in use.  If it is, every
\* publish_release fails on uq_process_release, however often it is retried.
NextNumberIsFree == latest + 1 \notin Assigned

\* A publication whose base_revision is not the current revision any more is
\* refused (409 REVISION_CONFLICT), as a save is.
PublishOnlyCurrent ==
    [][\A r \in Rows : release[r] = 0 /\ release'[r] # 0 => r = current]_vars

-----------------------------------------------------------------------------
(* The inductive invariant behind ImplementsHistory.                       *)

\* Release numbers leave no gap, and each is given to one revision.
NumbersDense == \A n \in Assigned : \A m \in 1..n : m \in Assigned
NumbersDistinct ==
    \A r, s \in Rows : release[r] = release[s] /\ r # s => release[r] = 0

LatestWasAssigned == latest = 0 \/ latest \in Assigned

Pending(c) == request[c].pc # "idle"

\* All numbers up to the one a request read are taken, and by other revisions
\* once the request has found its base unreleased.
RequestsReadHistory ==
    \A c \in Client : Pending(c) =>
        /\ request[c].base \in Rows
        /\ request[c].kind # "publish" => request[c].base < MaxRevision
        /\ \A n \in 1..request[c].latest : n \in Assigned
        /\ request[c].kind = "publish" /\ request[c].pc = "ready" =>
              \A n \in 1..request[c].latest :
                  \E r \in Rows \ {request[c].base} : release[r] = n

HistoryInv ==
    /\ CurrentIsNewest
    /\ NumbersDense
    /\ NumbersDistinct
    /\ LatestWasAssigned
    /\ RequestsReadHistory
==============================================================================
