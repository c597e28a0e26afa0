------------------------ MODULE ProjectMembers_proofs ------------------------
(***************************************************************************)
(* Proofs about ProjectMembers, for any users and any number of requests.  *)
(***************************************************************************)
EXTENDS ProjectMembers, TLAPS

\* A request that is not idle and not merely authorized has all its fields.
LEMMA RequestFields ==
    ASSUME TypeOK, NEW c \in Client, HasRead(c)
    PROVE  /\ request[c].target \in User
           /\ request[c].new \in Role \cup {None}
           /\ request[c].seen \in Role \cup {None}
           /\ request[c] # Idle
BY DEF TypeOK, Request, Idle, HasRead

\* Rows, audit entries and requests keep their types.
THEOREM MembersTyped == Spec => []TypeOK
<1>1. ASSUME Init PROVE TypeOK
  <2>1. role \in [User -> Role \cup {None}]
    BY <1>1, OwnerIsAUser DEF Init, Role, CreatorRole
  <2>2. log \in [User -> [after_value : Role \cup {None}, created_at : 0..MaxTime]]
    BY <1>1, TimeBound DEF Init
  <2>3. /\ request \in [Client -> Request]
        /\ created_at \in [Client -> 0..MaxTime] /\ now \in 0..MaxTime
        /\ crossed \subseteq User
    BY <1>1, TimeBound DEF Init, Request
  <2>4. overlapped \in BOOLEAN
    BY <1>1, Zenon DEF Init
  <2> QED BY <2>1, <2>2, <2>3, <2>4 DEF TypeOK
<1>2. ASSUME TypeOK, [Next]_vars PROVE TypeOK'
  <2> USE <1>2, TimeBound
  <2>1. CASE BackfillOwner
    BY <2>1, OwnerIsAUser DEF BackfillOwner, TypeOK, Role, CreatorRole
  <2>2. ASSUME NEW c \in Client, NEW actor \in User, Authorize(c, actor)
        PROVE  TypeOK'
    <3>1. [pc |-> "authorized", actor |-> actor] \in Request
      BY DEF Request
    <3> QED BY <2>2, <3>1 DEF Authorize, TypeOK
  <2>3. ASSUME NEW c \in Client, NEW kind \in Kind, NEW target \in User,
               NEW new \in Role \cup {None}, Begin(c, kind, target, new)
        PROVE TypeOK'
    <3>0. RoleSeen(c, target) \in Role \cup {None}
      BY DEF RoleSeen, TypeOK, Role
    <3>1. [pc |-> "read", kind |-> kind, target |-> target, new |-> new,
           seen |-> RoleSeen(c, target)] \in Request
      BY <2>3, <3>0 DEF Request
    <3> QED BY <2>3, <3>1 DEF Begin, TypeOK
  <2>4. ASSUME NEW c \in Client, Check(c) PROVE TypeOK'
    <3>1. request[c] \in [pc : {"read", "checked", "flushed"}, kind : Kind,
                          target : User, new : Role \cup {None},
                          seen : Role \cup {None}]
      BY <2>4 DEF Check, TypeOK, Request, Idle
    <3>2. [request[c] EXCEPT !.pc = "checked"] \in Request
      BY <3>1 DEF Request
    <3> QED BY <2>4, <3>2 DEF Check, TypeOK
  <2>5. ASSUME NEW c \in Client, Flush(c) PROVE TypeOK'
    <3>1. [request[c] EXCEPT !.pc = "flushed"] \in Request
      <4>1. request[c] \in [pc : {"read", "checked", "flushed"}, kind : Kind,
                            target : User, new : Role \cup {None},
                            seen : Role \cup {None}]
        BY <2>5 DEF Flush, TypeOK, Request, Idle
      <4>2. QED
        BY <4>1 DEF Request
    <3>2. now + 1 \in 0..MaxTime
      BY <2>5 DEF Flush, TypeOK
    <3> QED BY <2>5, <3>1, <3>2 DEF Flush, TypeOK
  <2>6. ASSUME NEW c \in Client, GiveUp(c) PROVE TypeOK'
    BY <2>6 DEF GiveUp, TypeOK, Request
  <2>7. ASSUME NEW c \in Client, Commit(c) PROVE TypeOK'
    <3>1. HasRead(c)
      BY <2>7 DEF Commit, HasRead
    <3>2. log' \in [User -> [after_value : Role \cup {None}, created_at : 0..MaxTime]]
      BY <2>7, <3>1, RequestFields DEF Commit, CommitAudit, Entry, TypeOK
    <3>3. crossed' \subseteq User
      BY <2>7, <3>1, RequestFields DEF Commit, Crossing, TypeOK
    <3>4. role' \in [User -> Role \cup {None}]
      BY <2>7, <3>1, RequestFields DEF Commit, TypeOK
    <3>5. request' \in [Client -> Request] /\ created_at' \in [Client -> 0..MaxTime]
      BY <2>7 DEF Commit, TypeOK, Request
    <3> QED BY <2>7, <3>2, <3>3, <3>4, <3>5 DEF Commit, TypeOK
  <2>8. CASE UNCHANGED vars
    BY <2>8 DEF vars, TypeOK
  <2> QED BY <2>1, <2>2, <2>3, <2>4, <2>5, <2>6, <2>7, <2>8 DEF Next
<1> QED BY <1>1, <1>2, PTL DEF Spec

-----------------------------------------------------------------------------

AuditInv == AuditTellsRoles /\ OvertakenHaveCrossed /\ TimesArePast

\* A commit that has no rival is the newest entry, or its member has crossed.
LEMMA CommitKeepsAudit ==
    ASSUME TypeOK, TypeOK', AuditInv, NEW c \in Client, Commit(c)
    PROVE  AuditInv'
<1> DEFINE t == request[c].target
<1>1. t \in User /\ request[c].pc = "flushed"
  BY RequestFields DEF Commit, HasRead
<1>2. /\ request'[c] = Idle /\ created_at'[c] = 0 /\ now' = now
      /\ role'[t] = request[c].new
      /\ \A u \in User \ {t} : role'[u] = role[u] /\ log'[u] = log[u]
      /\ \A u \in User \ {t} : u \in crossed' <=> u \in crossed
      /\ \A d \in Client \ {c} : /\ request'[d] = request[d]
                                /\ created_at'[d] = created_at[d]
  BY <1>1 DEF Commit, CommitAudit, Crossing, TypeOK
<1>3. log'[t] = IF Overtaken(c) THEN log[t] ELSE Entry(c)
  BY <1>1 DEF Commit, CommitAudit, TypeOK
<1>4. t \notin crossed' => Rivals(c) = {} /\ ~Overtaken(c)
  BY <1>1 DEF Commit, Crossing, AuditInv, OvertakenHaveCrossed
<1>5. AuditTellsRoles'
  BY <1>1, <1>2, <1>3, <1>4 DEF AuditInv, AuditTellsRoles, Entry
<1>6. OvertakenHaveCrossed'
  <2> SUFFICES ASSUME NEW d \in Client, request'[d].pc = "flushed", Overtaken(d)'
               PROVE  request'[d].target \in crossed'
    BY DEF OvertakenHaveCrossed
  <2>1. d # c /\ request'[d] = request[d] /\ created_at'[d] = created_at[d]
    BY <1>2 DEF Idle
  <2>2. request[d].target \in User
    BY <2>1, RequestFields DEF HasRead
  <2>3. CASE request[d].target = t
    BY <1>4, <2>1, <2>3 DEF Rivals
  <2>4. CASE request[d].target # t
    BY <1>2, <2>1, <2>2, <2>4 DEF AuditInv, OvertakenHaveCrossed, Overtaken
  <2> QED BY <2>3, <2>4
<1>7. TimesArePast'
  <2>1. \A u \in User : log'[u].created_at <= now
    BY <1>1, <1>2, <1>3 DEF AuditInv, TimesArePast, Entry
  <2>2. \A d \in Client : created_at'[d] <= now
    BY <1>2 DEF AuditInv, TimesArePast, TypeOK
  <2> QED BY <1>2, <2>1, <2>2 DEF TimesArePast
<1> QED BY <1>5, <1>6, <1>7 DEF AuditInv

\* The log, read by created_at, ends in the role of every member but the creator
\* whose last change crossed no other change of the same member.
THEOREM AuditAgrees == Spec => []AuditTellsRoles
<1>1. Init => AuditInv
  BY TimeBound DEF Init, AuditInv, AuditTellsRoles, OvertakenHaveCrossed, TimesArePast, Idle
<1>2. ASSUME TypeOK, TypeOK', AuditInv, [Next]_vars PROVE AuditInv'
  <2> USE <1>2
  <2>1. CASE BackfillOwner
    BY <2>1 DEF BackfillOwner, AuditInv, AuditTellsRoles, OvertakenHaveCrossed,
                Overtaken, TimesArePast, TypeOK
  <2>2. ASSUME NEW c \in Client, NEW actor \in User, Authorize(c, actor)
        PROVE  AuditInv'
    BY <2>2 DEF Authorize, AuditInv, AuditTellsRoles, OvertakenHaveCrossed,
                Overtaken, TimesArePast, TypeOK
  <2>3. ASSUME NEW c \in Client, NEW kind \in Kind, NEW target \in User,
               NEW new \in Role \cup {None}, Begin(c, kind, target, new)
        PROVE  AuditInv'
    BY <2>3 DEF Begin, AuditInv, AuditTellsRoles, OvertakenHaveCrossed,
                Overtaken, TimesArePast, TypeOK
  <2>4. ASSUME NEW c \in Client, Check(c) PROVE AuditInv'
    <3>1. request'[c].pc # "flushed"
      <4>1. request[c] \in [pc : {"read", "checked", "flushed"}, kind : Kind,
                            target : User, new : Role \cup {None},
                            seen : Role \cup {None}]
        BY <2>4 DEF Check, TypeOK, Request, Idle
      <4>2. QED
        BY <2>4, <4>1 DEF Check, TypeOK
    <3> QED BY <2>4, <3>1
            DEF Check, AuditInv, AuditTellsRoles, OvertakenHaveCrossed,
                Overtaken, TimesArePast, TypeOK
  <2>5. ASSUME NEW c \in Client, Flush(c) PROVE AuditInv'
    <3>1. /\ now' = now + 1 /\ created_at'[c] = now + 1
          /\ \A d \in Client \ {c} : /\ request'[d] = request[d]
                                    /\ created_at'[d] = created_at[d]
          /\ UNCHANGED <<role, log, crossed>>
      BY <2>5 DEF Flush, TypeOK
    <3>2. HasRead(c)' /\ request'[c].target \in User
      <4>1. request[c] \in [pc : {"read", "checked", "flushed"}, kind : Kind,
                            target : User, new : Role \cup {None},
                            seen : Role \cup {None}]
        BY <2>5 DEF Flush, TypeOK, Request, Idle
      <4>2. QED
        BY <2>5, <4>1 DEF Flush, TypeOK, HasRead
    <3>3. ~Overtaken(c)'
      BY <3>1, <3>2 DEF Overtaken, AuditInv, TimesArePast, TypeOK
    <3>4. OvertakenHaveCrossed'
      BY <3>1, <3>3 DEF AuditInv, OvertakenHaveCrossed, Overtaken
    <3>5. TimesArePast'
      BY <3>1 DEF AuditInv, TimesArePast, TypeOK
    <3> QED BY <3>1, <3>4, <3>5 DEF AuditInv, AuditTellsRoles
  <2>6. ASSUME NEW c \in Client, GiveUp(c) PROVE AuditInv'
    BY <2>6 DEF GiveUp, AuditInv, AuditTellsRoles, OvertakenHaveCrossed,
                Overtaken, TimesArePast, TypeOK, Idle
  <2>7. ASSUME NEW c \in Client, Commit(c) PROVE AuditInv'
    BY <2>7, CommitKeepsAudit
  <2>8. CASE UNCHANGED vars
    BY <2>8 DEF vars, AuditInv, AuditTellsRoles, OvertakenHaveCrossed, Overtaken,
                TimesArePast
  <2> QED BY <2>1, <2>2, <2>3, <2>4, <2>5, <2>6, <2>7, <2>8 DEF Next
<1>3. AuditInv => AuditTellsRoles
  BY DEF AuditInv
<1> QED BY <1>1, <1>2, <1>3, MembersTyped, PTL DEF Spec

-----------------------------------------------------------------------------

\* The one request in flight changes its stage and nothing else.
LEMMA StageKeepsAlone ==
    ASSUME AloneInv, NEW c \in Client, request[c] # Idle,
           \A d \in Client \ {c} : request'[d] = request[d],
           UNCHANGED <<role, overlapped>>,
           ~overlapped => request'[c] = Idle \/ ReadStillHolds(c)'
    PROVE  AloneInv'
BY DEF AloneInv, AdminRemains, Pending, Admins, Members, ReadStillHolds, HasRead,
       AnotherAdmin

\* Requests that do not overlap keep an administrator.
THEOREM AloneIsSafe == Spec => []AloneInv
<1>1. Init => AloneInv
  BY OwnerIsAUser
     DEF Init, AloneInv, AdminRemains, Pending, Admins, Members, CreatorRole, None
<1>2. ASSUME TypeOK, AloneInv, [Next]_vars PROVE AloneInv'
  <2> USE <1>2
  <2>1. CASE BackfillOwner
    <3>1. Admins = {} /\ Admins' # {}
      BY <2>1, OwnerIsAUser
         DEF BackfillOwner, Members, Admins, TypeOK, CreatorRole, None
    <3>2. ~overlapped => \A c \in Client : ~Pending(c)
      BY <3>1 DEF AloneInv, ReadStillHolds
    <3> QED BY <2>1, <3>1, <3>2
            DEF BackfillOwner, AloneInv, AdminRemains, Pending
  <2>2. ASSUME NEW c \in Client, NEW actor \in User, Authorize(c, actor)
        PROVE  AloneInv'
    <3>1. /\ request'[c] = [pc |-> "authorized", actor |-> actor]
          /\ actor \in Admins'
          /\ \A d \in Client \ {c} : request'[d] = request[d]
          /\ Admins' = Admins /\ Members' = Members /\ Admins # {}
          /\ ~overlapped' => ~overlapped /\ \A d \in Client : request[d] = Idle
      BY <2>2 DEF Authorize, Admins, Members, TypeOK
    <3>2. ~overlapped' => \A d \in Client : Pending(d)' => d = c
      BY <3>1 DEF Pending
    <3>3. ReadStillHolds(c)'
      BY <3>1 DEF ReadStillHolds, HasRead
    <3> QED BY <3>1, <3>2, <3>3 DEF AloneInv, AdminRemains
  <2>3. ASSUME NEW c \in Client, NEW kind \in Kind, NEW target \in User,
               NEW new \in Role \cup {None}, Begin(c, kind, target, new)
        PROVE AloneInv'
    <3>1. /\ request[c] # Idle /\ request[c].pc = "authorized"
          /\ request'[c].pc = "read"
          /\ request'[c].target = target
          /\ request'[c].seen = RoleSeen(c, target)
          /\ \A d \in Client \ {c} : request'[d] = request[d]
          /\ UNCHANGED <<role, overlapped>>
      BY <2>3 DEF Begin, TypeOK, Idle
    <3>2. ~overlapped => ReadStillHolds(c)'
      BY <3>1 DEF AloneInv, ReadStillHolds, Pending, Admins, RoleSeen, HasRead
    <3> QED BY <3>1, <3>2, StageKeepsAlone
  <2>4. ASSUME NEW c \in Client, Check(c) PROVE AloneInv'
    <3>0. request[c] \in [pc : {"read", "checked", "flushed"}, kind : Kind,
                          target : User, new : Role \cup {None},
                          seen : Role \cup {None}]
      BY <2>4 DEF Check, TypeOK, Request, Idle
    <3>1. /\ request[c] # Idle /\ HasRead(c)
          /\ request'[c].target = request[c].target
          /\ request'[c].seen = request[c].seen
          /\ \A d \in Client \ {c} : request'[d] = request[d]
          /\ UNCHANGED <<role, overlapped>>
          /\ request[c].seen = "project_admin" => AnotherAdmin(request[c].target)
      BY <2>4, <3>0 DEF Check, TypeOK, Idle, HasRead
    <3>1a. request'[c].pc = "checked"
      BY <2>4, <3>0 DEF Check, TypeOK
    <3>2. ~overlapped => ReadStillHolds(c)'
      BY <3>1, <3>1a DEF AloneInv, ReadStillHolds, Pending, Admins, AnotherAdmin
    <3> QED BY <3>1, <3>2, StageKeepsAlone
  <2>5. ASSUME NEW c \in Client, Flush(c) PROVE AloneInv'
    <3>0. request[c] \in [pc : {"read", "checked", "flushed"}, kind : Kind,
                          target : User, new : Role \cup {None},
                          seen : Role \cup {None}]
      BY <2>5 DEF Flush, TypeOK, Request, Idle
    <3>1. /\ request[c] # Idle /\ HasRead(c) /\ request[c].pc = "checked"
          /\ request'[c].target = request[c].target
          /\ request'[c].seen = request[c].seen
          /\ request'[c].pc = "flushed"
          /\ \A d \in Client \ {c} : request'[d] = request[d]
          /\ UNCHANGED <<role, overlapped>>
      BY <2>5, <3>0 DEF Flush, TypeOK, Idle, HasRead
    <3>2. ~overlapped => ReadStillHolds(c)'
      BY <3>1 DEF AloneInv, ReadStillHolds, Pending, Admins, AnotherAdmin
    <3> QED BY <3>1, <3>2, StageKeepsAlone
  <2>6. ASSUME NEW c \in Client, GiveUp(c) PROVE AloneInv'
    BY <2>6, StageKeepsAlone DEF GiveUp, TypeOK
  <2>7. ASSUME NEW c \in Client, Commit(c) PROVE AloneInv'
    <3> DEFINE u == request[c].target
    <3>1. HasRead(c) /\ request[c].pc = "flushed"
      BY <2>7 DEF Commit, HasRead
    <3>2. /\ u \in User /\ request[c] # Idle
          /\ request'[c] = Idle
          /\ \A d \in Client \ {c} : request'[d] = request[d]
          /\ \A v \in User \ {u} : role'[v] = role[v]
          /\ overlapped' = overlapped
      BY <2>7, <3>1, RequestFields DEF Commit, TypeOK
    <3>3. SUFFICES ASSUME ~overlapped PROVE AloneInv'
      BY <3>2 DEF AloneInv
    <3>4. \A d \in Client : ~Pending(d)'
      BY <3>2, <3>3 DEF AloneInv, Pending
    <3>5. ReadStillHolds(c)
      BY <3>2, <3>3 DEF AloneInv, Pending
    <3>6. Admins \ {u} # {}
      BY <3>1, <3>5 DEF ReadStillHolds, AnotherAdmin, Admins
    <3>7. Admins' # {}
      BY <3>2, <3>6 DEF Admins
    <3> QED BY <3>4, <3>7 DEF AloneInv, AdminRemains
  <2>8. CASE UNCHANGED vars
    BY <2>8 DEF vars, AloneInv, AdminRemains, Pending, Admins, Members,
                ReadStillHolds, HasRead, AnotherAdmin
  <2> QED BY <2>1, <2>2, <2>3, <2>4, <2>5, <2>6, <2>7, <2>8 DEF Next
<1> QED BY <1>1, <1>2, MembersTyped, PTL DEF Spec

\* Until two requests overlap, a project that has members has an administrator.
THEOREM AdminsOutlastLoneRequests == Spec => []AdminRemainsAlone
<1>1. AloneInv => AdminRemainsAlone
  BY DEF AloneInv, AdminRemainsAlone
<1> QED BY <1>1, AloneIsSafe, PTL
==============================================================================
