--------------------------- MODULE ProjectMembers ---------------------------
(***************************************************************************)
(* The members of one project, their roles and the audit log of changes    *)
(* (db/repository.py).  A request is one database session: it reads the    *)
(* roles it depends on, checks them, and commits its change together with  *)
(* the audit entry.  Nothing locks what it read until then.  An entry gets *)
(* its created_at, by which the log is read, when the session is flushed,  *)
(* before the member's row is locked.                                      *)
(***************************************************************************)
EXTENDS Naturals

CONSTANTS
    Client,     \* requests in flight at once
    User,
    Owner,      \* project.created_by
    MaxTime     \* bound on the audit entries that are flushed

ASSUME OwnerIsAUser == Owner \in User
ASSUME TimeBound == MaxTime \in Nat

\* The roles below project_admin differ in nothing this module is about.
Role == {"viewer", "project_admin"}
None == "none"      \* no project_member row
Kind == {"add", "update", "remove"}

VARIABLES
    role,       \* the project_member rows
    log,        \* the newest committed audit entry about each user
    request,    \* what each request is about to do, and what it read
    created_at, \* of the entry a request has flushed, 0 before it has
    now,        \* the time at which the last entry was flushed
    crossed,    \* history: users whose last change crossed another one
    overlapped  \* history: two requests have been in flight at once

vars == <<role, log, request, created_at, now, crossed, overlapped>>

Idle == [pc |-> "idle"]
Request ==
    {Idle} \cup
    [pc : {"authorized"}, actor : User] \cup
    [pc : {"read", "checked", "flushed"}, kind : Kind, target : User, new : Role \cup {None},
     seen : Role \cup {None}]

TypeOK ==
    /\ role \in [User -> Role \cup {None}]
    /\ log \in [User -> [after_value : Role \cup {None}, created_at : 0..MaxTime]]
    /\ request \in [Client -> Request]
    /\ created_at \in [Client -> 0..MaxTime]
    /\ now \in 0..MaxTime
    /\ crossed \subseteq User
    /\ overlapped \in BOOLEAN

Admins == {u \in User : role[u] = "project_admin"}
Members == {u \in User : role[u] # None}

\* Not one of the roles the policy knows.
BugCreatorRole == "owner"
CreatorRole == "project_admin"

\* A project is created with its creator as administrator; a project from before
\* there were members has none.
Init ==
    /\ \/ role = [u \in User |-> IF u = Owner THEN CreatorRole ELSE None]
       \/ role = [u \in User |-> None]
    /\ log = [u \in User |-> [after_value |-> None, created_at |-> 0]]
    /\ request = [c \in Client |-> Idle]
    /\ created_at = [c \in Client |-> 0]
    /\ now = 0
    /\ crossed = {}
    /\ overlapped = FALSE

\* The creator of a project without members becomes its administrator, unaudited.
BackfillOwner ==
    /\ Members = {}
    /\ role' = [role EXCEPT ![Owner] = CreatorRole]
    /\ UNCHANGED <<log, request, created_at, now, crossed, overlapped>>

\* _authorize_project: the request comes from an administrator.
Authorize(c, actor) ==
    /\ request[c] = Idle
    /\ actor \in Admins
    /\ request' = [request EXCEPT ![c] = [pc |-> "authorized", actor |-> actor]]
    /\ overlapped' = (overlapped \/ \E d \in Client : request[d] # Idle)
    /\ UNCHANGED <<role, log, created_at, now, crossed>>

\* The role of the target as the session sees it: the actor's own row is not read
\* again once it has been authorized.
BugRoleSeen(c, target) ==
    IF role[target] = None THEN None ELSE role[request[c].actor]
RoleSeen(c, target) ==
    IF target = request[c].actor THEN "project_admin" ELSE role[target]

\* The row of the target is read; a row that is gone is never seen.
Begin(c, kind, target, new) ==
    /\ request[c].pc = "authorized"
    /\ kind = "add" => RoleSeen(c, target) = None /\ new # None
    /\ kind = "update" =>
          role[target] # None /\ new # None /\ new # RoleSeen(c, target)
    /\ kind = "remove" => role[target] # None /\ new = None
    /\ request' = [request EXCEPT
                     ![c] = [pc |-> "read", kind |-> kind, target |-> target,
                             new |-> new, seen |-> RoleSeen(c, target)]]
    /\ UNCHANGED <<role, log, created_at, now, crossed, overlapped>>

BugAnotherAdmin(u) == Admins # {}
AnotherAdmin(u) == Admins \ {u} # {}

\* _ensure_another_project_admin, when an administrator is to lose the role.
Check(c) ==
    /\ request[c].pc = "read"
    /\ request[c].seen = "project_admin" => AnotherAdmin(request[c].target)
    /\ request' = [request EXCEPT ![c].pc = "checked"]
    /\ UNCHANGED <<role, log, created_at, now, crossed, overlapped>>

\* The flush before the commit inserts the audit entry, whose created_at is the
\* time now; the statement about the member's row comes after it.
Flush(c) ==
    /\ request[c].pc = "checked"
    /\ now < MaxTime
    /\ now' = now + 1
    /\ created_at' = [created_at EXCEPT ![c] = now + 1]
    /\ request' = [request EXCEPT ![c].pc = "flushed"]
    /\ UNCHANGED <<role, log, crossed, overlapped>>

\* The check or the database refuses, and the session is rolled back.
GiveUp(c) ==
    /\ request[c] # Idle
    /\ request' = [request EXCEPT ![c] = Idle]
    /\ created_at' = [created_at EXCEPT ![c] = 0]
    /\ UNCHANGED <<role, log, now, crossed, overlapped>>

\* The entry a request flushed is in the log, and the newest about its member
\* unless one with a later created_at was committed first.
Entry(c) == [after_value |-> request[c].new, created_at |-> created_at[c]]
Overtaken(c) == created_at[c] < log[request[c].target].created_at

BugCommitAudit(c) == IF request[c].kind = "add" THEN log
                     ELSE [log EXCEPT ![request[c].target] = Entry(c)]
CommitAudit(c) == IF Overtaken(c) THEN log
                  ELSE [log EXCEPT ![request[c].target] = Entry(c)]

\* Other requests between flush and commit that are about the same member.
Rivals(c) ==
    {d \in Client \ {c} : /\ request[d].pc = "flushed"
                          /\ request[d].target = request[c].target}

\* A change without a rival whose entry is the newest has crossed no other.
Crossing(c) ==
    IF Rivals(c) # {} THEN crossed \cup {request[c].target}
    ELSE IF Overtaken(c) THEN crossed ELSE crossed \ {request[c].target}

\* The statement about the row, which waits for whoever has locked it, and the
\* commit.  An INSERT fails if the row exists by now and an UPDATE if it is gone; a
\* DELETE of no row does not.
Commit(c) ==
    /\ request[c].pc = "flushed"
    /\ request[c].kind = "add" => role[request[c].target] = None
    /\ request[c].kind = "update" => role[request[c].target] # None
    /\ role' = [role EXCEPT ![request[c].target] = request[c].new]
    /\ log' = CommitAudit(c)
    /\ crossed' = Crossing(c)
    /\ request' = [request EXCEPT ![c] = Idle]
    /\ created_at' = [created_at EXCEPT ![c] = 0]
    /\ UNCHANGED <<now, overlapped>>

Next ==
    \/ BackfillOwner
    \/ \E c \in Client :
          \/ \E actor \in User : Authorize(c, actor)
          \/ \E target \in User, kind \in Kind, new \in Role \cup {None} :
                Begin(c, kind, target, new)
          \/ Check(c) \/ Flush(c) \/ Commit(c) \/ GiveUp(c)

Spec == Init /\ [][Next]_vars

-----------------------------------------------------------------------------
(* Properties.                                                             *)

\* A project that has members has an administrator among them: the last one can
\* be neither demoted nor removed, by others or by herself.
AdminRemains == Members # {} => Admins # {}

\* ...as long as requests come one at a time, in any order: it takes two that
\* overlap, each counting on the administrator the other takes away.
AdminRemainsAlone == ~overlapped => AdminRemains

\* The audit log, read by created_at as the administrators see it, ends in the role
\* of every member but the creator, whose first role is not audited: also when
\* requests work on what they read before others changed it, and when two remove
\* the same row.  The exception is a member whose last change was between flush
\* and commit while another change of the same member was; the next change that
\* crosses no other sets it right.
AuditTellsRoles ==
    \A u \in User \ {Owner} : u \notin crossed => log[u].after_value = role[u]

-----------------------------------------------------------------------------
(* The inductive invariant behind AdminRemainsAlone.                       *)

Pending(c) == request[c] # Idle
HasRead(c) == request[c].pc \in {"read", "checked", "flushed"}

\* What the one request in flight has read and checked is still so.
ReadStillHolds(c) ==
    /\ Admins # {}
    /\ request[c].pc = "authorized" => request[c].actor \in Admins
    /\ HasRead(c) => request[c].seen = role[request[c].target]
    /\ /\ request[c].pc \in {"checked", "flushed"}
       /\ request[c].seen = "project_admin"
       =>
          AnotherAdmin(request[c].target)

\* Without overlap there is one request in flight, what it has read holds until
\* it commits, and an administrator remains.
AloneInv ==
    ~overlapped =>
        /\ AdminRemains
        /\ \A c, d \in Client : Pending(c) /\ Pending(d) => c = d
        /\ \A c \in Client : Pending(c) => ReadStillHolds(c)

-----------------------------------------------------------------------------
(* The strengthening behind AuditTellsRoles.                               *)

\* A request whose entry was overtaken is about a member whose last change
\* crossed another one.
OvertakenHaveCrossed ==
    \A c \in Client : request[c].pc = "flushed" /\ Overtaken(c) =>
        request[c].target \in crossed

\* An entry that is yet to be flushed will be newer than every other.
TimesArePast ==
    /\ \A u \in User : log[u].created_at <= now
    /\ \A c \in Client : created_at[c] <= now
==============================================================================
