---------------------------- MODULE Services_proofs ----------------------------
(***************************************************************************)
(* The tables of users and sessions stay consistent and no revoked token   *)
(* is admitted, for any number of requests, names, users and sessions; one *)
(* licence is active, never given up, and no clock wound back revives a    *)
(* lapsed one, for any number of overlapping evaluations and activations.  *)
(***************************************************************************)
EXTENDS ServicesMC, FiniteSetTheorems, TLAPS

-----------------------------------------------------------------------------
(* Identity.  The invariant says of every request under way what the       *)
(* tables still owe it: a late token has no session left, an opened        *)
(* deletion leaves another administrator, and what a request read of a     *)
(* user is, as far as the role goes, what the user still is.               *)

(* A request is about to write a row for the user id, or to remove it,     *)
(* having read that its role is role.                                      *)
PendingWrite(q, id, role) ==
    \/ q.call.op = "delete" /\ q.at \in {"count", "remove"} /\ id = q.call.target /\ role = q.row.role
    \/ q.call.op = "setup" /\ q.at = "save" /\ q.id # Nobody /\ id = q.id /\ role = q.row.role

LateOK(q) ==
    Guarded(q.call) /\ q.late
        => q.at = "session" /\ q.call.token <= lastToken /\ Active(q.call.token) = {}

RowOK(q) ==
    /\ q.call.op = "delete" /\ q.at \in {"count", "remove"} => q.row \in UserRow
    /\ q.call.op = "setup" /\ q.at = "save" /\ q.id # Nobody => q.row \in UserRow /\ q.id \in UserIds
    /\ q.call.op = "login" /\ q.at = "verify" => q.row \in UserRow /\ q.id \in UserIds
    /\ q.call.op = "setup" => q.at \in {"status", "find", "save"} /\ (q.at # "save" => q.id = Nobody)
    /\ q.at = "principal" => q.id \in UserIds /\ lastUserId > 0
    /\ q.call.op \in {"create", "delete"} /\ q.at # "session" => lastUserId > 0

RolesOK(q) ==
    \A id \in UserIds, role \in Role :
        PendingWrite(q, id, role) => id <= lastUserId /\ (Exists(id) => users[id].role = role)

DeletionOK(q) ==
    ~overlapped /\ q.call.op = "delete" /\ q.at = "remove" => \E a \in Admins : a # q.call.target

RequestOK(q) == LateOK(q) /\ RowOK(q) /\ RolesOK(q) /\ DeletionOK(q)

(* Two requests that read the same user read the same role.                *)
Agree(q, p) ==
    \A id \in UserIds, role, other \in Role :
        PendingWrite(q, id, role) /\ PendingWrite(p, id, other) => role = other

IdentityIInv ==
    /\ IdentityTypeOK /\ SessionsHaveUsers /\ OneUserPerName
    /\ \A r \in Requests : served[r] # Nobody => RequestOK(served[r])
    /\ \A r, s \in Requests :
           served[r] # Nobody /\ served[s] # Nobody => Agree(served[r], served[s])
    /\ ~overlapped => \A r, s \in OpenDeletions : r = s
    /\ ~overlapped /\ lastUserId > 0 => Admins # {}
    /\ setupDone => seeded
    /\ seeded => lastUserId > 0

tables == <<users, sessions, lastUserId, lastToken, setupDone, seeded, authClock, overlapped>>

-----------------------------------------------------------------------------
LEMMA IdentityBegins == IdentityInit => IdentityIInv
<1> SUFFICES ASSUME IdentityInit PROVE IdentityIInv
    OBVIOUS
<1> USE IdentityAssumption, RowsAssumption
<1>1. /\ \A r \in Requests : served[r] = Nobody
      /\ served \in [Requests -> Served \cup {Nobody}]
      /\ OpenDeletions = {} /\ overlapped = FALSE /\ authClock = 0 /\ sent = 0
    BY DEF IdentityInit, OpenDeletions
<1>2. CASE NewStore
    <2>1. IdentityTypeOK
        <3>1. \A id \in UserIds : users[id] = Nobody
            BY <1>2 DEF NewStore
        <3>2. users \in [UserIds -> UserRow \cup {Nobody}]
            BY <1>2 DEF NewStore
        <3>3. sessions \subseteq Session /\ \A s \in sessions : s.token <= lastToken
            BY <1>2 DEF NewStore
        <3>4. lastUserId \in 0 .. MaxUserId /\ lastToken \in 0 .. MaxToken
            BY <1>2 DEF NewStore
        <3>5. setupDone \in BOOLEAN /\ seeded \in BOOLEAN /\ overlapped \in BOOLEAN
            BY <1>1, <1>2 DEF NewStore
        <3>6. authClock \in 0 .. MaxClock /\ sent \in 0 .. MaxRequests
            BY <1>1
        <3>7. \A id \in UserIds : Exists(id) => id <= lastUserId
            BY <3>1 DEF Exists
        <3> QED BY <1>1, <3>2, <3>3, <3>4, <3>5, <3>6, <3>7 DEF IdentityTypeOK
    <2> QED BY <1>1, <1>2, <2>1 DEF NewStore, IdentityIInv, SessionsHaveUsers, OneUserPerName, Exists
<1>3. CASE MaxUserId >= 2 /\ MaxToken >= 2 /\ StoreOfTwo
    <2>1. PICK name \in [1 .. 2 -> Usernames], password \in Passwords :
              /\ name[1] # name[2]
              /\ users = [id \in UserIds |->
                     IF id > 2 THEN Nobody
                     ELSE [username |-> name[id], password |-> password, role |-> "admin"]]
        BY <1>3 DEF StoreOfTwo
    <2>2. 1 \in UserIds /\ 2 \in UserIds /\ \A id \in UserIds : id > 2 \/ id = 1 \/ id = 2
        BY <1>3 DEF UserIds
    <2>3. ASSUME NEW id \in UserIds, id <= 2
          PROVE  users[id] \in UserRow /\ users[id].role = "admin" /\ users[id].username = name[id]
        <3>1. id \in 1 .. 2 /\ ~(id > 2)
            BY <2>2, <2>3 DEF UserIds
        <3>2. users[id] = [username |-> name[id], password |-> password, role |-> "admin"]
            BY <2>1, <3>1
        <3> QED BY <3>1, <3>2 DEF UserRow, Role
    <2>4. \A id \in UserIds : Exists(id) <=> id <= 2
        BY <2>1, <2>2, <2>3 DEF Exists, UserIds
    <2>5. users \in [UserIds -> UserRow \cup {Nobody}]
        BY <2>1, <2>2, <2>3 DEF UserIds
    <2>6. /\ lastUserId = 2 /\ lastToken = 2 /\ setupDone = TRUE /\ seeded = TRUE
          /\ sessions \subseteq Session
          /\ \A s \in sessions : s.token <= 2 /\ s.user <= 2
        BY <1>3, <2>2 DEF StoreOfTwo, Session, Tokens, UserIds
    <2>7. IdentityTypeOK
        <3>1. lastUserId \in 0 .. MaxUserId /\ lastToken \in 0 .. MaxToken
            BY <1>3, <2>6
        <3>2. setupDone \in BOOLEAN /\ seeded \in BOOLEAN /\ overlapped \in BOOLEAN
            BY <1>1, <2>6
        <3>3. authClock \in 0 .. MaxClock /\ sent \in 0 .. MaxRequests
            BY <1>1
        <3>4. \A id \in UserIds : Exists(id) => id <= lastUserId
            BY <2>4, <2>6
        <3> QED BY <1>1, <2>5, <2>6, <3>1, <3>2, <3>3, <3>4 DEF IdentityTypeOK
    <2>8. SessionsHaveUsers
        BY <2>4, <2>6 DEF SessionsHaveUsers, Session
    <2>9. OneUserPerName
        <3> SUFFICES ASSUME NEW id \in UserIds, Exists(id)
                     PROVE  Named(users[id].username) = {id}
            BY DEF OneUserPerName
        <3>1. ASSUME NEW other \in UserIds, Exists(other), users[other].username = users[id].username
              PROVE  other = id
          <4>1. id \in {1, 2} /\ other \in {1, 2}
              BY <2>2, <2>4, <3>1 DEF UserIds
          <4> QED BY <2>1, <2>2, <2>3, <3>1, <4>1
        <3> QED BY <3>1 DEF Named
    <2>10. 1 \in Admins
        BY <2>2, <2>3, <2>4 DEF Admins
    <2> QED BY <1>1, <2>6, <2>7, <2>8, <2>9, <2>10 DEF IdentityIInv
<1> QED BY <1>2, <1>3 DEF IdentityInit

-----------------------------------------------------------------------------
LEMMA RequestsAreOK ==
    ASSUME IdentityIInv, NEW r \in Requests, served[r] # Nobody
    PROVE  served[r] \in Served /\ RequestOK(served[r])
BY DEF IdentityIInv, IdentityTypeOK

LEMMA AgreeIsSymmetric ==
    ASSUME NEW q, NEW p, Agree(q, p) PROVE Agree(p, q)
BY DEF Agree

(* What is said of a request depends on the tables only.                   *)
LEMMA SameTables ==
    ASSUME UNCHANGED tables, NEW q
    PROVE  RequestOK(q)' <=> RequestOK(q)
<1>1. LateOK(q)' <=> LateOK(q)
    BY DEF LateOK, tables, Active, Guarded
<1>2. RowOK(q)' <=> RowOK(q)
    BY DEF RowOK, tables
<1>3. RolesOK(q)' <=> RolesOK(q)
    BY DEF RolesOK, tables, Exists, PendingWrite
<1>4. DeletionOK(q)' <=> DeletionOK(q)
    BY DEF DeletionOK, tables, Admins, Exists
<1> QED BY <1>1, <1>2, <1>3, <1>4 DEF RequestOK

(* A request goes on, or is answered, and leaves the tables alone.         *)
LEMMA MoveOn ==
    ASSUME IdentityIInv, NEW r \in Requests, NEW q, served' = [served EXCEPT ![r] = q],
           UNCHANGED tables, sent' \in 0 .. MaxRequests,
           \/ q = Nobody
           \/ /\ q \in Served /\ RequestOK(q) /\ q.at # "remove"
              /\ \A s \in Requests : served[s] # Nobody => Agree(q, served[s])
    PROVE  IdentityIInv'
<1>1. served \in [Requests -> Served \cup {Nobody}]
    BY DEF IdentityIInv, IdentityTypeOK
<1>2. /\ served' \in [Requests -> Served \cup {Nobody}]
      /\ served'[r] = q /\ \A s \in Requests \ {r} : served'[s] = served[s]
    BY <1>1
<1>3. IdentityTypeOK'
    BY <1>2 DEF IdentityIInv, IdentityTypeOK, tables, Exists
<1>4. SessionsHaveUsers' /\ OneUserPerName'
    BY DEF IdentityIInv, SessionsHaveUsers, OneUserPerName, Named, tables, Exists
<1>5. ASSUME NEW s \in Requests, served'[s] # Nobody PROVE RequestOK(served[s])'
    <2>1. RequestOK(served'[s])
        BY <1>2, <1>5, RequestsAreOK
    <2>2. \A p : RequestOK(p)' <=> RequestOK(p)
        BY SameTables
    <2>3. PICK p : p = served'[s]
        OBVIOUS
    <2>4. RequestOK(p)'
        BY <2>1, <2>2, <2>3
    <2> QED BY <2>3, <2>4 DEF RequestOK, LateOK, RowOK, RolesOK, DeletionOK, PendingWrite
<1>6. ASSUME NEW s \in Requests, NEW t \in Requests, served'[s] # Nobody, served'[t] # Nobody
      PROVE  Agree(served'[s], served'[t])
    <2>1. Agree(q, q)
        BY DEF Agree, PendingWrite
    <2>2. \A u \in Requests : q # Nobody /\ served[u] # Nobody => Agree(q, served[u]) /\ Agree(served[u], q)
        BY AgreeIsSymmetric
    <2>3. served[s] # Nobody /\ served[t] # Nobody => Agree(served[s], served[t])
        BY DEF IdentityIInv
    <2> QED BY <1>2, <1>6, <2>1, <2>2, <2>3
<1>7. OpenDeletions' \subseteq OpenDeletions
    BY <1>2 DEF OpenDeletions
<1>8. Admins' = Admins
    BY DEF Admins, tables, Exists
<1> QED BY <1>3, <1>4, <1>5, <1>6, <1>7, <1>8 DEF IdentityIInv, tables

(* A request is answered and changes the tables: no token gets its         *)
(* sessions back, an id keeps its role, and at most the target of a        *)
(* deletion stops being an administrator.                                  *)
LEMMA Settled ==
    ASSUME IdentityIInv, NEW r \in Requests, served[r] # Nobody,
           served' = [served EXCEPT ![r] = Nobody],
           UNCHANGED <<setupDone, authClock, sent, overlapped>>,
           users' \in [UserIds -> UserRow \cup {Nobody}], sessions' \subseteq Session,
           lastUserId' \in lastUserId .. MaxUserId, lastToken' \in lastToken .. MaxToken,
           seeded' \in BOOLEAN, seeded => seeded', seeded' => lastUserId' > 0,
           \A id \in UserIds : Exists(id)' => id <= lastUserId',
           \A s \in sessions' : s.token <= lastToken' /\ (s \in sessions \/ s.token > lastToken),
           SessionsHaveUsers', OneUserPerName',
           \A id \in UserIds : Exists(id)' =>
               \/ Exists(id) /\ users[id].role = users'[id].role
               \/ PendingWrite(served[r], id, users'[id].role)
               \/ id > lastUserId,
           \/ Admins \subseteq Admins'
           \/ r \in OpenDeletions /\ served[r].call.op = "delete"
              /\ Admins \ {served[r].call.target} \subseteq Admins',
           lastUserId = 0 /\ lastUserId' > 0 => Admins' # {}
    PROVE  IdentityIInv'
<1> USE IdentityAssumption
<1>1. served \in [Requests -> Served \cup {Nobody}] /\ lastUserId \in Nat /\ lastToken \in Nat
    BY DEF IdentityIInv, IdentityTypeOK
<1>2. /\ served' \in [Requests -> Served \cup {Nobody}]
      /\ served'[r] = Nobody /\ \A s \in Requests \ {r} : served'[s] = served[s]
    BY <1>1
<1>3. IdentityTypeOK'
    <2>1. lastUserId' \in 0 .. MaxUserId /\ lastToken' \in 0 .. MaxToken
        BY <1>1
    <2>2. /\ setupDone' \in BOOLEAN /\ overlapped' \in BOOLEAN
          /\ authClock' \in 0 .. MaxClock /\ sent' \in 0 .. MaxRequests
        BY DEF IdentityIInv, IdentityTypeOK
    <2> QED BY <1>2, <2>1, <2>2 DEF IdentityTypeOK
<1>4. ASSUME NEW s \in Requests, served'[s] # Nobody PROVE RequestOK(served[s])'
    <2> DEFINE q == served[s]
    <2>1. s # r /\ q' = q /\ q # Nobody /\ q \in Served /\ RequestOK(q)
        BY <1>2, <1>4, RequestsAreOK
    <2> HIDE DEF q
    <2>2. LateOK(q)'
        <3> SUFFICES ASSUME Guarded(q.call), q.late
                     PROVE  /\ q.at = "session" /\ q.call.token <= lastToken'
                            /\ Active(q.call.token)' = {}
            BY <2>1 DEF LateOK, Guarded
        <3>1. q.at = "session" /\ q.call.token <= lastToken /\ Active(q.call.token) = {}
            BY <2>1 DEF RequestOK, LateOK
        <3>2. \A s2 \in sessions' : s2.token \in Int /\ (s2.token = q.call.token => s2 \in sessions)
            BY <1>1, <3>1 DEF Session, Tokens
        <3>3. \A s2 \in sessions : ~(s2.token = q.call.token /\ s2.expiresAt > authClock)
            BY <3>1 DEF Active
        <3>4. q'.call.token = q.call.token
            BY <2>1
        <3>5. Active(q.call.token)' = {}
            BY <3>2, <3>3, <3>4 DEF Active
        <3>6. q.call.token \in Nat
            BY <2>1, <3>1 DEF Served, Call, Guarded, Tokens
        <3> QED BY <1>1, <3>1, <3>5, <3>6
    <2>3. RowOK(q)'
        BY <1>1, <2>1 DEF RequestOK, RowOK
    <2>4. RolesOK(q)'
        <3> SUFFICES ASSUME NEW id \in UserIds, NEW role \in Role, PendingWrite(q, id, role)
                     PROVE  id <= lastUserId' /\ (Exists(id)' => users'[id].role = role)
            BY <2>1 DEF RolesOK, PendingWrite
        <3>1. id <= lastUserId /\ (Exists(id) => users[id].role = role)
            BY <2>1 DEF RequestOK, RolesOK
        <3>2. id <= lastUserId' /\ ~(id > lastUserId)
            BY <1>1, <3>1 DEF UserIds
        <3>3. ASSUME Exists(id)', PendingWrite(served[r], id, users'[id].role)
              PROVE  users'[id].role = role
            <4>1. users'[id] \in UserRow
                BY <3>3 DEF Exists
            <4>2. users'[id].role \in Role
                BY <4>1 DEF UserRow
            <4>3. Agree(served[r], served[s])
                BY <2>1 DEF IdentityIInv, q
            <4> QED BY <3>3, <4>2, <4>3 DEF Agree, q
        <3> QED BY <3>1, <3>2, <3>3
    <2>5. DeletionOK(q)'
        <3> SUFFICES ASSUME ~overlapped, q.call.op = "delete", q.at = "remove"
                     PROVE  \E a \in Admins' : a # q.call.target
            BY <2>1 DEF DeletionOK
        <3>1. PICK a \in Admins : a # q.call.target
            BY <2>1 DEF RequestOK, DeletionOK
        <3>2. s \in OpenDeletions
            BY <2>1 DEF OpenDeletions, q
        <3>3. r \notin OpenDeletions
            BY <2>1, <3>2 DEF IdentityIInv
        <3> QED BY <3>1, <3>3
    <2> QED BY <2>2, <2>3, <2>4, <2>5 DEF RequestOK, LateOK, RowOK, RolesOK, DeletionOK, q
<1>5. ASSUME NEW s \in Requests, NEW t \in Requests, served'[s] # Nobody, served'[t] # Nobody
      PROVE  Agree(served'[s], served'[t])
    BY <1>2, <1>5 DEF IdentityIInv
<1>6. OpenDeletions' \subseteq OpenDeletions
    BY <1>2 DEF OpenDeletions
<1>7. ~overlapped /\ lastUserId' > 0 => Admins' # {}
    <2>1. CASE lastUserId = 0
        BY <2>1
    <2>2. CASE Admins \subseteq Admins' /\ lastUserId > 0
        BY <2>2 DEF IdentityIInv
    <2>3. CASE r \in OpenDeletions /\ served[r].call.op = "delete"
               /\ Admins \ {served[r].call.target} \subseteq Admins'
        <3>1. ~overlapped => \E a \in Admins : a # served[r].call.target
            BY <2>3, RequestsAreOK DEF RequestOK, DeletionOK, OpenDeletions
        <3> QED BY <2>3, <3>1
    <2> QED BY <1>1, <2>1, <2>2, <2>3
<1> QED BY <1>3, <1>4, <1>5, <1>6, <1>7 DEF IdentityIInv

-----------------------------------------------------------------------------
(* Arrival and the guard.                                                  *)

LEMMA ArriveStep ==
    ASSUME IdentityIInv, NEW r \in Requests, NEW call \in Call, Arrive(r, call) PROVE IdentityIInv'
<1> DEFINE q == [call |-> call, at |-> FirstStage(call), id |-> Nobody, row |-> Nobody,
                 late |-> Guarded(call) /\ ~Valid(call.token)]
<1>1. q \in Served
    BY DEF Served, FirstStage, Stages
<1>2. q.call = call /\ q.at = FirstStage(call) /\ q.id = Nobody
      /\ (q.late <=> Guarded(call) /\ ~Valid(call.token))
    OBVIOUS
<1> HIDE DEF q
<1>3. call.op \in {"login", "setup", "logout", "create", "delete"}
    BY DEF Call
<1>4. LateOK(q)
    <2> SUFFICES ASSUME Guarded(call), ~Valid(call.token)
                 PROVE  q.at = "session" /\ call.token <= lastToken /\ Active(call.token) = {}
        BY <1>2 DEF LateOK
    <2>1. Active(call.token) = {}
        BY DEF Valid, Active, IdentityIInv, SessionsHaveUsers
    <2> QED BY <1>2, <2>1 DEF Arrive, FirstStage
<1>5. RowOK(q) /\ DeletionOK(q) /\ \A id, role : ~PendingWrite(q, id, role)
    BY <1>2, <1>3 DEF RowOK, DeletionOK, PendingWrite, FirstStage, Guarded
<1>6. RequestOK(q) /\ q.at # "remove" /\ \A s \in Requests : Agree(q, served[s])
    BY <1>2, <1>3, <1>4, <1>5 DEF RequestOK, RolesOK, Agree, FirstStage
<1>7. sent' \in 0 .. MaxRequests
    BY IdentityAssumption DEF Arrive, IdentityIInv, IdentityTypeOK
<1>8. served' = [served EXCEPT ![r] = q] /\ UNCHANGED tables
    BY DEF Arrive, q, tables
<1> QED BY <1>1, <1>6, <1>7, <1>8, MoveOn

(* A request that is not late, or no longer in the tables, is simply       *)
(* answered.                                                               *)
LEMMA AnswerStep ==
    ASSUME IdentityIInv, NEW r \in Requests, Answer(r), UNCHANGED <<tables, sent>> PROVE IdentityIInv'
<1>1. sent' \in 0 .. MaxRequests
    BY DEF IdentityIInv, IdentityTypeOK
<1> QED BY <1>1, MoveOn DEF Answer

LEMMA FindSessionStep ==
    ASSUME IdentityIInv, NEW r \in Requests, FindSession(r) PROVE IdentityIInv'
<1>1. served[r] # Nobody /\ served[r].at = "session" /\ UNCHANGED <<tables, sent>>
    BY DEF FindSession, tables
<1>2. CASE FindActiveByTokenHash(served[r].call.token) = {} /\ Answer(r)
    BY <1>1, <1>2, AnswerStep
<1>3. ASSUME NEW s \in FindActiveByTokenHash(served[r].call.token),
             served' = [served EXCEPT ![r].at = "principal", ![r].id = s.user]
      PROVE  IdentityIInv'
    <2> DEFINE q == [served[r] EXCEPT !.at = "principal", !.id = s.user]
    <2>1. served[r] \in Served /\ RequestOK(served[r])
        BY <1>1, RequestsAreOK
    <2>2. s \in sessions /\ s \in Session /\ s \in Active(served[r].call.token)
        BY <1>3 DEF FindActiveByTokenHash, Active, IdentityIInv, IdentityTypeOK
    <2>3. s.user \in UserIds /\ Exists(s.user) /\ s.user <= lastUserId /\ lastUserId > 0
        <3>1. s.user \in UserIds /\ Exists(s.user)
            BY <2>2 DEF Session, IdentityIInv, SessionsHaveUsers
        <3> QED BY <3>1 DEF UserIds, IdentityIInv, IdentityTypeOK
    <2>4. q \in Served /\ q.at = "principal" /\ q.id = s.user
          /\ q.call = served[r].call /\ q.late = served[r].late
        BY <2>1, <2>3 DEF Served, Stages
    <2> HIDE DEF q
    <2>5. ~(Guarded(q.call) /\ q.late)
        BY <2>1, <2>2, <2>4 DEF RequestOK, LateOK
    <2>6. RowOK(q) /\ DeletionOK(q) /\ LateOK(q) /\ \A id, role : ~PendingWrite(q, id, role)
        BY <1>1, <2>1, <2>3, <2>4, <2>5 DEF RequestOK, RowOK, DeletionOK, LateOK, PendingWrite
    <2>7. RequestOK(q) /\ \A p \in Requests : Agree(q, served[p])
        BY <2>6 DEF RequestOK, RolesOK, Agree
    <2>8. served' = [served EXCEPT ![r] = q]
        BY <1>3 DEF q
    <2>9. sent' \in 0 .. MaxRequests
        BY <1>1 DEF IdentityIInv, IdentityTypeOK
    <2> QED BY <1>1, <2>4, <2>7, <2>8, <2>9, MoveOn
<1> QED BY <1>2, <1>3 DEF FindSession

(* A request goes on to a stage at which it has read no row of the users.  *)
LEMMA GoStep ==
    ASSUME IdentityIInv, NEW r \in Requests, served[r] # Nobody, NEW stage \in Stages, Go(r, stage),
           UNCHANGED <<tables, sent>>, served[r].at # "session", stage \in {"end", "find", "save"},
           served[r].call.op = "setup" => served[r].id = Nobody /\ stage # "end",
           served[r].call.op \in {"create", "delete"} => lastUserId > 0
    PROVE  IdentityIInv'
<1> DEFINE q == [served[r] EXCEPT !.at = stage]
<1>1. served[r] \in Served /\ RequestOK(served[r])
    BY RequestsAreOK
<1>2. q \in Served /\ q.at = stage /\ q.id = served[r].id
      /\ q.call = served[r].call /\ q.late = served[r].late
    BY <1>1 DEF Served
<1> HIDE DEF q
<1>3. LateOK(q)
    BY <1>1, <1>2 DEF RequestOK, LateOK
<1>4. RowOK(q) /\ DeletionOK(q) /\ \A id, role : ~PendingWrite(q, id, role)
    BY <1>2 DEF RowOK, DeletionOK, PendingWrite
<1>5. RequestOK(q) /\ \A p \in Requests : Agree(q, served[p])
    BY <1>3, <1>4 DEF RequestOK, RolesOK, Agree
<1>6. served' = [served EXCEPT ![r] = q]
    BY DEF q, Go
<1>7. sent' \in 0 .. MaxRequests
    BY DEF IdentityIInv, IdentityTypeOK
<1> QED BY <1>2, <1>5, <1>6, <1>7, MoveOn

LEMMA FindPrincipalStep ==
    ASSUME IdentityIInv, NEW r \in Requests, FindPrincipal(r) PROVE IdentityIInv'
<1> DEFINE stage == IF served[r].call.op = "logout" THEN "end" ELSE "find"
<1>1. served[r] # Nobody /\ served[r].at = "principal" /\ UNCHANGED <<tables, sent>>
    BY DEF FindPrincipal, tables
<1>2. RowOK(served[r])
    BY <1>1, RequestsAreOK DEF RequestOK
<1>3. served[r].call.op # "setup" /\ lastUserId > 0
    BY <1>1, <1>2 DEF RowOK
<1>4. stage \in Stages /\ stage \in {"end", "find", "save"}
    BY DEF Stages
<1>5. CASE Go(r, stage)
    BY <1>1, <1>3, <1>4, <1>5, GoStep
<1>6. CASE Answer(r)
    BY <1>1, <1>6, AnswerStep
<1> QED BY <1>5, <1>6 DEF FindPrincipal

LEMMA CreateFindStep ==
    ASSUME IdentityIInv, NEW r \in Requests, CreateFind(r) PROVE IdentityIInv'
<1>1. /\ served[r] # Nobody /\ served[r].at = "find" /\ served[r].call.op = "create"
      /\ UNCHANGED <<tables, sent>>
    BY DEF CreateFind, tables, At
<1>2. RowOK(served[r])
    BY <1>1, RequestsAreOK DEF RequestOK
<1>3. lastUserId > 0
    BY <1>1, <1>2 DEF RowOK
<1>4. CASE Go(r, "save")
    BY <1>1, <1>3, <1>4, GoStep DEF Stages
<1>5. CASE Answer(r)
    BY <1>1, <1>5, AnswerStep
<1> QED BY <1>4, <1>5 DEF CreateFind

LEMMA SetupStatusStep ==
    ASSUME IdentityIInv, NEW r \in Requests, SetupStatus(r) PROVE IdentityIInv'
<1>1. /\ served[r] # Nobody /\ served[r].at = "status" /\ served[r].call.op = "setup"
      /\ UNCHANGED <<tables, sent>>
    BY DEF SetupStatus, tables, At
<1>2. RowOK(served[r])
    BY <1>1, RequestsAreOK DEF RequestOK
<1>3. served[r].id = Nobody
    BY <1>1, <1>2 DEF RowOK
<1>4. CASE Go(r, "find")
    BY <1>1, <1>3, <1>4, GoStep DEF Stages
<1>5. CASE Answer(r)
    BY <1>1, <1>5, AnswerStep
<1> QED BY <1>4, <1>5 DEF SetupStatus

-----------------------------------------------------------------------------
(* The steps that read a row of the users.                                 *)

LEMMA SubjectAgrees ==
    ASSUME IdentityIInv, NEW q, NEW subject \in UserIds, Exists(subject),
           \A id, role : PendingWrite(q, id, role) => id = subject /\ role = users[subject].role
    PROVE  RolesOK(q) /\ \A s \in Requests : served[s] # Nobody => Agree(q, served[s])
<1>1. subject <= lastUserId
    BY DEF IdentityIInv, IdentityTypeOK
<1>2. RolesOK(q)
    BY <1>1 DEF RolesOK
<1>3. ASSUME NEW s \in Requests, served[s] # Nobody PROVE Agree(q, served[s])
    <2>1. RolesOK(served[s])
        BY <1>3, RequestsAreOK DEF RequestOK
    <2> QED BY <2>1 DEF RolesOK, Agree
<1> QED BY <1>2, <1>3

LEMMA LoginFindStep ==
    ASSUME IdentityIInv, NEW r \in Requests, LoginFind(r) PROVE IdentityIInv'
<1>1. /\ served[r] # Nobody /\ served[r].at = "find" /\ served[r].call.op = "login"
      /\ UNCHANGED <<tables, sent>>
    BY DEF LoginFind, tables, At
<1>2. CASE Answer(r)
    BY <1>1, <1>2, AnswerStep
<1>3. ASSUME NEW id \in Named(served[r].call.username),
             served' = [served EXCEPT ![r].at = "verify", ![r].id = id, ![r].row = users[id]]
      PROVE  IdentityIInv'
    <2> DEFINE q == [served[r] EXCEPT !.at = "verify", !.id = id, !.row = users[id]]
    <2>1. served[r] \in Served
        BY <1>1, RequestsAreOK
    <2>2. id \in UserIds /\ users[id] \in UserRow
        BY <1>3 DEF Named, Exists, IdentityIInv, IdentityTypeOK
    <2>3. q \in Served /\ q.at = "verify" /\ q.id = id /\ q.row = users[id] /\ q.call.op = "login"
        BY <1>1, <2>1, <2>2 DEF Served, Stages
    <2> HIDE DEF q
    <2>4. RequestOK(q) /\ \A p \in Requests : Agree(q, served[p])
        BY <2>2, <2>3 DEF RequestOK, RolesOK, Agree, LateOK, RowOK, DeletionOK, PendingWrite, Guarded
    <2>5. served' = [served EXCEPT ![r] = q]
        BY <1>3 DEF q
    <2>6. sent' \in 0 .. MaxRequests
        BY <1>1 DEF IdentityIInv, IdentityTypeOK
    <2> QED BY <1>1, <2>3, <2>4, <2>5, <2>6, MoveOn
<1> QED BY <1>2, <1>3 DEF LoginFind

LEMMA SetupFindStep ==
    ASSUME IdentityIInv, NEW r \in Requests, SetupFind(r) PROVE IdentityIInv'
<1>1. /\ served[r] # Nobody /\ served[r].at = "find" /\ served[r].call.op = "setup"
      /\ UNCHANGED <<tables, sent>>
    BY DEF SetupFind, tables, At
<1>2. served[r] \in Served /\ RowOK(served[r])
    BY <1>1, RequestsAreOK DEF RequestOK
<1>3. CASE Go(r, "save")
    <2>1. served[r].id = Nobody
        BY <1>1, <1>2 DEF RowOK
    <2> QED BY <1>1, <1>3, <2>1, GoStep DEF Stages
<1>4. ASSUME NEW id \in Named(served[r].call.username),
             served' = [served EXCEPT ![r].at = "save", ![r].id = id,
                            ![r].row = [users[id] EXCEPT !.password = served[r].call.password]]
      PROVE  IdentityIInv'
    <2> DEFINE row == [users[id] EXCEPT !.password = served[r].call.password]
               q == [served[r] EXCEPT !.at = "save", !.id = id, !.row = row]
    <2>1. id \in UserIds /\ Exists(id) /\ users[id] \in UserRow
        BY <1>4 DEF Named, Exists, IdentityIInv, IdentityTypeOK
    <2>2. served[r].call.password \in Passwords
        BY <1>1, <1>2 DEF Served, Call
    <2>3. row \in UserRow /\ row.role = users[id].role
        BY <2>1, <2>2 DEF UserRow
    <2> HIDE DEF row
    <2>4. /\ q \in Served /\ q.at = "save" /\ q.id = id /\ q.row = row /\ q.call.op = "setup"
        BY <1>1, <1>2, <2>1, <2>3 DEF Served, Stages
    <2>5. served' = [served EXCEPT ![r] = q]
        BY <1>4 DEF row
    <2> HIDE DEF q
    <2>6. LateOK(q) /\ RowOK(q) /\ DeletionOK(q)
        BY <2>1, <2>3, <2>4 DEF LateOK, RowOK, DeletionOK, Guarded
    <2>7. \A i, role : PendingWrite(q, i, role) => i = id /\ role = users[id].role
        BY <2>3, <2>4 DEF PendingWrite
    <2>8. RolesOK(q) /\ \A s \in Requests : served[s] # Nobody => Agree(q, served[s])
        BY <2>1, <2>7, SubjectAgrees
    <2>9. sent' \in 0 .. MaxRequests
        BY <1>1 DEF IdentityIInv, IdentityTypeOK
    <2> QED BY <1>1, <2>4, <2>5, <2>6, <2>8, <2>9, MoveOn DEF RequestOK
<1> QED BY <1>3, <1>4 DEF SetupFind

LEMMA DeleteFindStep ==
    ASSUME IdentityIInv, NEW r \in Requests, DeleteFind(r) PROVE IdentityIInv'
<1> DEFINE target == served[r].call.target
<1>1. /\ served[r] # Nobody /\ served[r].at = "find" /\ served[r].call.op = "delete"
      /\ UNCHANGED <<tables, sent>>
    BY DEF DeleteFind, tables, At
<1>2. served[r] \in Served /\ LateOK(served[r]) /\ RowOK(served[r])
    BY <1>1, RequestsAreOK DEF RequestOK
<1>3. CASE Answer(r)
    BY <1>1, <1>3, AnswerStep
<1>4. CASE /\ Exists(target)
           /\ served' = [served EXCEPT ![r].at = "count", ![r].row = users[target]]
    <2> DEFINE q == [served[r] EXCEPT !.at = "count", !.row = users[target]]
    <2>1. target \in UserIds
        BY <1>1, <1>2 DEF Served, Call
    <2>2. users[target] \in UserRow
        BY <1>4, <2>1 DEF Exists, IdentityIInv, IdentityTypeOK
    <2>3. /\ q \in Served /\ q.at = "count" /\ q.row = users[target]
          /\ q.call = served[r].call /\ q.late = served[r].late
        BY <1>2, <2>2 DEF Served, Stages
    <2>4. served' = [served EXCEPT ![r] = q]
        BY <1>4
    <2> HIDE DEF q
    <2>5. LateOK(q) /\ RowOK(q) /\ DeletionOK(q)
        BY <1>1, <1>2, <2>2, <2>3 DEF LateOK, RowOK, DeletionOK
    <2>6. \A i, role : PendingWrite(q, i, role) => i = target /\ role = users[target].role
        BY <1>1, <2>3 DEF PendingWrite
    <2>7. RolesOK(q) /\ \A s \in Requests : served[s] # Nobody => Agree(q, served[s])
        BY <1>4, <2>1, <2>6, SubjectAgrees
    <2>8. sent' \in 0 .. MaxRequests
        BY <1>1 DEF IdentityIInv, IdentityTypeOK
    <2> QED BY <1>1, <2>3, <2>4, <2>5, <2>7, <2>8, MoveOn DEF RequestOK
<1> QED BY <1>3, <1>4 DEF DeleteFind

-----------------------------------------------------------------------------
(* The count opens a deletion: another administrator is left, or it        *)
(* overlaps with one that is open.                                         *)
LEMMA AnotherIsLeft ==
    ASSUME IdentityAssumption, NEW target, Cardinality(Admins) > 1
    PROVE  \E a \in Admins : a # target
<1>1. IsFiniteSet(UserIds)
    BY FS_Interval, IdentityAssumption DEF UserIds
<1>2. IsFiniteSet(Admins)
    BY <1>1, FS_Subset DEF Admins
<1>3. Admins # {}
    BY FS_EmptySet
<1>4. Cardinality({target}) = 1
    BY FS_Singleton
<1>5. Admins # {target}
    BY <1>4
<1> QED BY <1>3, <1>5

LEMMA DeleteCountStep ==
    ASSUME IdentityIInv, NEW r \in Requests, DeleteCount(r) PROVE IdentityIInv'
<1> DEFINE q == [served[r] EXCEPT !.at = "remove"]
<1>1. /\ served[r] # Nobody /\ served[r].at = "count" /\ served[r].call.op = "delete"
      /\ UNCHANGED <<users, sessions, lastUserId, lastToken, setupDone, seeded, authClock, sent>>
    BY DEF DeleteCount, At
<1>2. served[r] \in Served /\ RequestOK(served[r])
    BY <1>1, RequestsAreOK
<1>3. served[r].row \in UserRow /\ lastUserId > 0 /\ served[r].call.target \in UserIds
    BY <1>1, <1>2 DEF RequestOK, RowOK, Served, Call
<1>4. CASE ~MayDelete(served[r].row)
    <2>1. Answer(r) /\ overlapped' = overlapped
        BY <1>4 DEF DeleteCount, IdentityIInv, IdentityTypeOK
    <2> QED BY <1>1, <2>1, AnswerStep DEF tables
<1>5. CASE MayDelete(served[r].row)
    <2>1. served' = [served EXCEPT ![r] = q]
        BY <1>5 DEF DeleteCount, Go
    <2>2. overlapped' \in BOOLEAN /\ (~overlapped' => ~overlapped /\ OpenDeletions = {})
        BY <1>5 DEF DeleteCount, IdentityIInv, IdentityTypeOK
    <2>3. /\ q \in Served /\ q.at = "remove" /\ q.call = served[r].call
          /\ q.late = served[r].late /\ q.row = served[r].row
        BY <1>2 DEF Served, Stages
    <2> HIDE DEF q
    <2>4. served \in [Requests -> Served \cup {Nobody}]
        BY DEF IdentityIInv, IdentityTypeOK
    <2>5. /\ served' \in [Requests -> Served \cup {Nobody}]
          /\ served'[r] = q /\ \A s \in Requests \ {r} : served'[s] = served[s]
        BY <2>1, <2>3, <2>4
    <2>6. UNCHANGED <<Admins>> /\ \A id : Exists(id)' <=> Exists(id)
        BY <1>1 DEF Admins, Exists
    <2>7. IdentityTypeOK'
        BY <1>1, <2>2, <2>5 DEF IdentityIInv, IdentityTypeOK, Exists
    <2>8. SessionsHaveUsers' /\ OneUserPerName'
        BY <1>1 DEF IdentityIInv, SessionsHaveUsers, OneUserPerName, Named, Exists
    <2>9. \A id, role : PendingWrite(q, id, role) <=> PendingWrite(served[r], id, role)
        BY <1>1, <2>3 DEF PendingWrite
    <2>10. ~overlapped' => \E a \in Admins : a # q.call.target
        <3> SUFFICES ASSUME ~overlapped' PROVE \E a \in Admins : a # q.call.target
            OBVIOUS
        <3>1. CASE served[r].row.role = "admin"
            BY <1>5, <3>1, AnotherIsLeft, IdentityAssumption DEF MayDelete
        <3>2. CASE served[r].row.role # "admin"
            <4>1. Admins # {}
                BY <1>3, <2>2 DEF IdentityIInv
            <4>2. PendingWrite(served[r], served[r].call.target, served[r].row.role)
                BY <1>1 DEF PendingWrite
            <4>3. served[r].row.role \in Role
                BY <1>3 DEF UserRow
            <4>4. served[r].call.target \notin Admins
                BY <1>2, <1>3, <3>2, <4>2, <4>3 DEF RequestOK, RolesOK, Admins
            <4> QED BY <2>3, <4>1, <4>4
        <3> QED BY <3>1, <3>2
    <2>11. LateOK(q) /\ RowOK(q) /\ RolesOK(q)
        BY <1>1, <1>2, <1>3, <2>3, <2>9 DEF RequestOK, LateOK, RowOK, RolesOK
    <2>12. ASSUME NEW s \in Requests, served'[s] # Nobody PROVE RequestOK(served[s])'
        <3> DEFINE p == IF s = r THEN q ELSE served[s]
        <3>1. p = served'[s]
            BY <2>5
        <3>2. LateOK(p) /\ RowOK(p) /\ RolesOK(p)
            BY <2>5, <2>11, <2>12, RequestsAreOK DEF RequestOK
        <3>3. ~overlapped' /\ p.call.op = "delete" /\ p.at = "remove"
                  => \E a \in Admins : a # p.call.target
            BY <2>2, <2>5, <2>10, <2>12 DEF OpenDeletions
        <3> HIDE DEF p
        <3>4. LateOK(served[s])'
            BY <1>1, <3>1, <3>2 DEF LateOK, Active, Guarded
        <3>5. RowOK(served[s])'
            BY <1>1, <3>1, <3>2 DEF RowOK
        <3>6. RolesOK(served[s])'
            BY <1>1, <3>1, <3>2 DEF RolesOK, Exists, PendingWrite
        <3>7. DeletionOK(served[s])'
            BY <2>6, <3>1, <3>3 DEF DeletionOK
        <3> QED BY <3>4, <3>5, <3>6, <3>7 DEF RequestOK
    <2>13. ASSUME NEW s \in Requests, NEW t \in Requests, served'[s] # Nobody, served'[t] # Nobody
           PROVE  Agree(served'[s], served'[t])
        <3>1. served[s] # Nobody /\ served[t] # Nobody
            BY <1>1, <2>5, <2>13
        <3>2. Agree(served[s], served[t])
            BY <3>1 DEF IdentityIInv
        <3> QED BY <2>5, <2>9, <3>2 DEF Agree
    <2>14. ~overlapped' => OpenDeletions' \subseteq {r}
        BY <2>2, <2>5 DEF OpenDeletions
    <2> QED BY <1>1, <2>2, <2>6, <2>7, <2>8, <2>12, <2>13, <2>14 DEF IdentityIInv
<1> QED BY <1>4, <1>5

-----------------------------------------------------------------------------
(* The steps that answer a request and write the tables.                   *)

LEMMA LogoutStep ==
    ASSUME IdentityIInv, NEW r \in Requests, Logout(r) PROVE IdentityIInv'
<1>1. /\ served[r] # Nobody /\ served' = [served EXCEPT ![r] = Nobody]
      /\ UNCHANGED <<users, lastUserId, lastToken, setupDone, seeded, authClock, sent, overlapped>>
      /\ sessions' \subseteq sessions
    BY DEF Logout, At, Answer
<1>2. UNCHANGED <<Admins>> /\ \A id : Exists(id)' <=> Exists(id)
    BY <1>1 DEF Admins, Exists
<1>3. SessionsHaveUsers' /\ OneUserPerName'
    BY <1>1 DEF IdentityIInv, SessionsHaveUsers, OneUserPerName, Named, Exists
<1>4. /\ users \in [UserIds -> UserRow \cup {Nobody}] /\ sessions \subseteq Session
      /\ lastUserId \in 0 .. MaxUserId /\ lastToken \in 0 .. MaxToken
      /\ seeded \in BOOLEAN /\ (seeded => lastUserId > 0)
      /\ \A s \in sessions : s.token <= lastToken
      /\ \A id \in UserIds : Exists(id) => id <= lastUserId
    BY DEF IdentityIInv, IdentityTypeOK
<1>5. lastUserId' \in lastUserId .. MaxUserId /\ lastToken' \in lastToken .. MaxToken
    BY <1>1, <1>4, IdentityAssumption
<1>6. \A id \in UserIds : Exists(id)' =>
          /\ id <= lastUserId'
          /\ Exists(id) /\ users[id].role = users'[id].role
    BY <1>1, <1>2, <1>4
<1>7. /\ users' \in [UserIds -> UserRow \cup {Nobody}] /\ sessions' \subseteq Session
      /\ seeded' \in BOOLEAN /\ (seeded => seeded') /\ (seeded' => lastUserId' > 0)
      /\ \A s \in sessions' : s.token <= lastToken' /\ (s \in sessions \/ s.token > lastToken)
    BY <1>1, <1>4
<1>8. Admins \subseteq Admins' /\ ~(lastUserId = 0 /\ lastUserId' > 0)
    BY <1>1, <1>2, <1>4
<1> QED BY <1>1, <1>3, <1>5, <1>6, <1>7, <1>8, Settled

(* A session is minted for a user that exists, with a token of its own.    *)
LEMMA LoginVerifyStep ==
    ASSUME IdentityIInv, NEW r \in Requests, LoginVerify(r) PROVE IdentityIInv'
<1> DEFINE q == served[r]
           new == [token |-> lastToken + 1, user |-> q.id, expiresAt |-> authClock + SessionTtl]
<1>1. /\ q # Nobody /\ q.call.op = "login" /\ q.at = "verify"
      /\ served' = [served EXCEPT ![r] = Nobody]
      /\ UNCHANGED <<users, lastUserId, setupDone, seeded, authClock, sent, overlapped>>
    BY DEF LoginVerify, At, Answer
<1>2. UNCHANGED <<Admins>> /\ \A id : Exists(id)' <=> Exists(id)
    BY <1>1 DEF Admins, Exists
<1>3. /\ users \in [UserIds -> UserRow \cup {Nobody}] /\ sessions \subseteq Session
      /\ lastUserId \in 0 .. MaxUserId /\ lastToken \in 0 .. MaxToken /\ authClock \in Nat
      /\ seeded \in BOOLEAN /\ (seeded => lastUserId > 0)
      /\ \A s \in sessions : s.token <= lastToken
      /\ \A id \in UserIds : Exists(id) => id <= lastUserId
    BY IdentityAssumption DEF IdentityIInv, IdentityTypeOK
<1>4. q.id \in UserIds
    BY <1>1, RequestsAreOK DEF RequestOK, RowOK
<1>5. /\ lastToken' \in lastToken .. MaxToken /\ sessions' \subseteq Session
      /\ \A s \in sessions' :
             /\ s.token <= lastToken' /\ (s \in sessions \/ s.token > lastToken)
             /\ s \in sessions \/ Exists(s.user)
    <2>1. CASE UNCHANGED <<sessions, lastToken>>
        BY <1>3, <2>1, IdentityAssumption
    <2>2. CASE /\ Exists(q.id) /\ lastToken < MaxToken /\ lastToken' = lastToken + 1
               /\ sessions' = sessions \cup {new}
        <3>1. new \in Session /\ new.token = lastToken + 1 /\ new.user = q.id
            BY <1>3, <1>4, <2>2, IdentityAssumption DEF Session, Tokens
        <3> HIDE DEF new
        <3>2. \A s \in sessions : s.token \in Nat
            BY <1>3 DEF Session, Tokens
        <3> QED BY <1>3, <2>2, <3>1, <3>2, IdentityAssumption
    <2> QED BY <2>1, <2>2 DEF LoginVerify, ForeignKey
<1>6. SessionsHaveUsers' /\ OneUserPerName'
    BY <1>1, <1>2, <1>5 DEF IdentityIInv, SessionsHaveUsers, OneUserPerName, Named, Exists
<1>7. \A id \in UserIds : Exists(id)' =>
          /\ id <= lastUserId'
          /\ Exists(id) /\ users[id].role = users'[id].role
    BY <1>1, <1>2, <1>3
<1>8. /\ users' \in [UserIds -> UserRow \cup {Nobody}] /\ lastUserId' \in lastUserId .. MaxUserId
      /\ seeded' \in BOOLEAN /\ (seeded => seeded') /\ (seeded' => lastUserId' > 0)
    BY <1>1, <1>3, IdentityAssumption
<1>9. Admins \subseteq Admins' /\ ~(lastUserId = 0 /\ lastUserId' > 0)
    BY <1>1, <1>2, <1>3
<1>10. \A s \in sessions' : s.token <= lastToken' /\ (s \in sessions \/ s.token > lastToken)
    BY <1>5
<1>11. /\ served[r] # Nobody /\ served' = [served EXCEPT ![r] = Nobody]
       /\ UNCHANGED <<setupDone, authClock, sent, overlapped>>
       /\ lastToken' \in lastToken .. MaxToken /\ sessions' \subseteq Session
    BY <1>1, <1>5
<1> HIDE DEF q, new
<1> QED BY <1>6, <1>7, <1>8, <1>9, <1>10, <1>11, Settled

(* A row is written under its id unless another user has its name.         *)
LEMMA SaveWrites ==
    ASSUME IdentityIInv, NEW id \in UserIds, NEW row \in UserRow, Save(id, row)
    PROVE  /\ users' \in [UserIds -> UserRow \cup {Nobody}]
           /\ OneUserPerName'
           /\ \A i \in UserIds : Exists(i) => Exists(i)'
           /\ \A i \in UserIds : users'[i] = users[i] \/ (i = id /\ users'[i] = row)
           /\ UniqueName(id, row.username) => users'[id] = row
           /\ ~UniqueName(id, row.username) => lastUserId > 0
<1>1. users \in [UserIds -> UserRow \cup {Nobody}] /\ OneUserPerName
    BY DEF IdentityIInv, IdentityTypeOK
<1>2. CASE UniqueName(id, row.username) /\ users' = [users EXCEPT ![id] = row]
    <2>1. users' \in [UserIds -> UserRow \cup {Nobody}]
          /\ users'[id] = row /\ \A i \in UserIds \ {id} : users'[i] = users[i]
        BY <1>1, <1>2
    <2>2. row # Nobody
        BY RowsAssumption
    <2>3. \A i \in UserIds : Exists(i)' <=> (i = id \/ Exists(i))
        BY <2>1, <2>2 DEF Exists
    <2>4. \A i \in UserIds \ {id} : Exists(i) => users[i].username # row.username
        BY <1>2 DEF UniqueName, Named
    <2>5. ASSUME NEW i \in UserIds, Exists(i)' PROVE Named(users[i].username)' = {i}
        <3>1. ASSUME NEW j \in UserIds, Exists(j)', users'[j].username = users'[i].username
              PROVE  j = i
            <4>1. CASE i = id \/ j = id
                BY <2>1, <2>3, <2>4, <2>5, <3>1, <4>1
            <4>2. CASE i # id /\ j # id
                <5>1. Exists(i) /\ Exists(j) /\ users[j].username = users[i].username
                    BY <2>1, <2>3, <2>5, <3>1, <4>2
                <5> QED BY <1>1, <5>1 DEF OneUserPerName, Named
            <4> QED BY <4>1, <4>2
        <3> QED BY <2>5, <3>1 DEF Named
    <2>6. OneUserPerName'
        BY <2>5 DEF OneUserPerName
    <2> QED BY <1>2, <2>1, <2>3, <2>6
<1>3. CASE ~UniqueName(id, row.username) /\ UNCHANGED users
    <2>1. OneUserPerName' /\ \A i \in UserIds : Exists(i)' <=> Exists(i)
        BY <1>1, <1>3 DEF OneUserPerName, Named, Exists
    <2>2. \E i \in UserIds : Exists(i)
        BY <1>3 DEF UniqueName, Named
    <2>3. lastUserId > 0
        BY <2>2 DEF IdentityIInv, IdentityTypeOK, UserIds
    <2> QED BY <1>1, <1>3, <2>1, <2>3
<1> QED BY <1>2, <1>3 DEF Save

(* What a save leaves to Settled: the row of a new id is new, and that of  *)
(* an old one has the role that was read.                                  *)
LEMMA SaveSettles ==
    ASSUME IdentityIInv, NEW r \in Requests, served[r] # Nobody,
           served' = [served EXCEPT ![r] = Nobody],
           NEW id \in UserIds, NEW row \in UserRow, Save(id, row),
           UNCHANGED <<sessions, lastToken, setupDone, authClock, sent, overlapped>>,
           lastUserId' \in lastUserId .. MaxUserId, id <= lastUserId',
           id > lastUserId \/ PendingWrite(served[r], id, row.role),
           seeded' \in BOOLEAN, seeded => seeded', seeded' => lastUserId' > 0,
           lastUserId = 0 => row.role = "admin"
    PROVE  IdentityIInv'
<1>1. /\ users \in [UserIds -> UserRow \cup {Nobody}] /\ sessions \subseteq Session
      /\ lastUserId \in Nat /\ lastToken \in Nat /\ lastToken <= MaxToken
      /\ \A s \in sessions : s.token <= lastToken /\ Exists(s.user)
      /\ \A i \in UserIds : Exists(i) => i <= lastUserId
    BY IdentityAssumption DEF IdentityIInv, IdentityTypeOK, SessionsHaveUsers
<1>2. /\ users' \in [UserIds -> UserRow \cup {Nobody}]
      /\ OneUserPerName'
      /\ \A i \in UserIds : Exists(i) => Exists(i)'
      /\ \A i \in UserIds : users'[i] = users[i] \/ (i = id /\ users'[i] = row)
      /\ UniqueName(id, row.username) => users'[id] = row
      /\ ~UniqueName(id, row.username) => lastUserId > 0
    BY SaveWrites
<1>3. row.role \in Role
    BY DEF UserRow
<1>4. RolesOK(served[r])
    BY RequestsAreOK DEF RequestOK
<1>5. ASSUME NEW i \in UserIds, Exists(i)'
      PROVE  /\ i <= lastUserId'
             /\ \/ Exists(i) /\ users[i].role = users'[i].role
                \/ PendingWrite(served[r], i, users'[i].role)
                \/ i > lastUserId
    <2>1. CASE users'[i] = users[i]
        BY <1>1, <1>5, <2>1, IdentityAssumption DEF Exists, UserIds
    <2>2. CASE i = id /\ users'[i] = row
        BY <2>2
    <2> QED BY <1>2, <2>1, <2>2
<1>6. ASSUME NEW i \in Admins PROVE i \in Admins'
    <2>1. i \in UserIds /\ Exists(i) /\ Exists(i)' /\ users[i].role = "admin" /\ i <= lastUserId
        BY <1>1, <1>2 DEF Admins
    <2>2. users'[i].role = "admin"
        <3>1. CASE users'[i] = users[i]
            BY <2>1, <3>1
        <3>2. CASE i = id /\ users'[i] = row
            <4>1. PendingWrite(served[r], id, row.role)
                BY <1>1, <2>1, <3>2 DEF UserIds
            <4> QED BY <1>3, <1>4, <2>1, <3>2, <4>1 DEF RolesOK
        <3> QED BY <1>2, <2>1, <3>1, <3>2
    <2> QED BY <2>1, <2>2 DEF Admins
<1>7. ASSUME lastUserId = 0 PROVE Admins' # {}
    <2>1. users'[id] = row /\ row # Nobody /\ row.role = "admin"
        BY <1>2, <1>7, RowsAssumption
    <2> QED BY <2>1 DEF Admins, Exists
<1>8. SessionsHaveUsers'
    BY <1>1, <1>2 DEF SessionsHaveUsers, Session
<1>9. /\ sessions' \subseteq Session /\ lastToken' \in lastToken .. MaxToken
      /\ \A s \in sessions' : s.token <= lastToken' /\ (s \in sessions \/ s.token > lastToken)
    BY <1>1, IdentityAssumption
<1> QED BY <1>2, <1>5, <1>6, <1>7, <1>8, <1>9, Settled

LEMMA CreateSaveStep ==
    ASSUME IdentityIInv, NEW r \in Requests, CreateSave(r) PROVE IdentityIInv'
<1>1. /\ served[r] # Nobody /\ served[r].at = "save" /\ served[r].call.op = "create"
      /\ served' = [served EXCEPT ![r] = Nobody] /\ lastUserId < MaxUserId
      /\ lastUserId' = lastUserId + 1
      /\ UNCHANGED <<sessions, lastToken, setupDone, seeded, authClock, sent, overlapped>>
    BY DEF CreateSave, At, Answer
<1>2. PICK password \in Passwords :
          Save(lastUserId + 1, [username |-> served[r].call.username, password |-> password,
                            role |-> served[r].call.role])
    BY DEF CreateSave
<1> DEFINE row == [username |-> served[r].call.username, password |-> password,
                   role |-> served[r].call.role]
<1>3. served[r] \in Served /\ RowOK(served[r])
    BY <1>1, RequestsAreOK DEF RequestOK
<1>4. row \in UserRow
    BY <1>1, <1>3 DEF UserRow, Served, Call
<1>5. lastUserId \in Nat /\ lastUserId > 0 /\ seeded \in BOOLEAN
    BY <1>1, <1>3 DEF RowOK, IdentityIInv, IdentityTypeOK
<1>6. lastUserId + 1 \in UserIds /\ lastUserId' \in lastUserId .. MaxUserId
    BY <1>1, <1>5, IdentityAssumption DEF UserIds
<1> HIDE DEF row
<1>7. Save(lastUserId + 1, row)
    BY <1>2 DEF row
<1>8. /\ lastUserId + 1 <= lastUserId' /\ lastUserId + 1 > lastUserId /\ lastUserId # 0
      /\ lastUserId' > 0
    BY <1>1, <1>5
<1>9. seeded' \in BOOLEAN /\ (seeded => seeded')
    BY <1>1, <1>5
<1>10. UNCHANGED <<sessions, lastToken, setupDone, authClock, sent, overlapped>>
    BY <1>1
<1> DEFINE id == lastUserId + 1
<1> HIDE DEF id
<1>11. id \in UserIds /\ Save(id, row) /\ id <= lastUserId' /\ id > lastUserId
    BY <1>6, <1>7, <1>8 DEF id
<1> QED BY <1>1, <1>4, <1>6, <1>8, <1>9, <1>10, <1>11, SaveSettles

LEMMA SetupSaveStep ==
    ASSUME IdentityIInv, NEW r \in Requests, SetupSave(r) PROVE IdentityIInv'
<1>1. /\ served[r] # Nobody /\ served[r].at = "save" /\ served[r].call.op = "setup"
      /\ served' = [served EXCEPT ![r] = Nobody]
      /\ UNCHANGED <<sessions, lastToken, setupDone, authClock, sent, overlapped>>
    BY DEF SetupSave, At, Answer
<1>2. served[r] \in Served /\ RowOK(served[r]) /\ RolesOK(served[r])
    BY <1>1, RequestsAreOK DEF RequestOK
<1>3. lastUserId \in Nat /\ lastUserId <= MaxUserId /\ seeded \in BOOLEAN /\ (seeded => lastUserId > 0)
    BY IdentityAssumption DEF IdentityIInv, IdentityTypeOK
<1>4. seeded' \in BOOLEAN /\ (seeded => seeded')
    BY <1>3 DEF SetupSave
<1>5. CASE served[r].id # Nobody /\ Save(served[r].id, served[r].row) /\ UNCHANGED lastUserId
    <2>1. served[r].row \in UserRow /\ served[r].id \in UserIds
        BY <1>1, <1>2, <1>5 DEF RowOK
    <2>2. PendingWrite(served[r], served[r].id, served[r].row.role) /\ served[r].row.role \in Role
        BY <1>1, <1>5, <2>1 DEF PendingWrite, UserRow
    <2>3. served[r].id <= lastUserId
        BY <1>2, <2>1, <2>2 DEF RolesOK
    <2>4. lastUserId' \in lastUserId .. MaxUserId /\ lastUserId' > 0 /\ lastUserId # 0
          /\ served[r].id <= lastUserId'
        BY <1>3, <1>5, <2>1, <2>3, IdentityAssumption DEF UserIds
    <2> QED BY <1>1, <1>4, <1>5, <2>1, <2>2, <2>4, SaveSettles
<1>6. CASE /\ lastUserId < MaxUserId /\ lastUserId' = lastUserId + 1
           /\ Save(lastUserId + 1, NewAdmin(served[r].call))
    <2>1. NewAdmin(served[r].call) \in UserRow /\ NewAdmin(served[r].call).role = "admin"
        BY <1>1, <1>2 DEF NewAdmin, UserRow, Role, Served, Call
    <2>2. /\ lastUserId + 1 \in UserIds /\ lastUserId' \in lastUserId .. MaxUserId
          /\ lastUserId' > 0 /\ lastUserId + 1 <= lastUserId' /\ lastUserId + 1 > lastUserId
        BY <1>3, <1>6, IdentityAssumption DEF UserIds
    <2> QED BY <1>1, <1>4, <1>6, <2>1, <2>2, SaveSettles
<1> QED BY <1>5, <1>6 DEF SetupSave

LEMMA DeleteCommitStep ==
    ASSUME IdentityIInv, NEW r \in Requests, DeleteCommit(r) PROVE IdentityIInv'
<1> DEFINE target == served[r].call.target
<1>1. /\ served[r] # Nobody /\ served[r].at = "remove" /\ served[r].call.op = "delete"
      /\ served' = [served EXCEPT ![r] = Nobody]
      /\ users' = [users EXCEPT ![target] = Nobody]
      /\ sessions' = {s \in sessions : s.user # target}
      /\ UNCHANGED <<lastUserId, lastToken, setupDone, seeded, authClock, sent, overlapped>>
    BY DEF DeleteCommit, At, Answer, SessionsWithout
<1>2. target \in UserIds /\ r \in OpenDeletions
    BY <1>1, RequestsAreOK DEF Served, Call, OpenDeletions
<1> HIDE DEF target
<1>3. /\ users \in [UserIds -> UserRow \cup {Nobody}] /\ sessions \subseteq Session
      /\ lastUserId \in Nat /\ lastUserId <= MaxUserId /\ lastToken \in Nat /\ lastToken <= MaxToken
      /\ seeded \in BOOLEAN /\ (seeded => lastUserId > 0)
      /\ \A s \in sessions : s.token <= lastToken /\ Exists(s.user)
      /\ \A i \in UserIds : Exists(i) => i <= lastUserId
    BY IdentityAssumption DEF IdentityIInv, IdentityTypeOK, SessionsHaveUsers
<1>4. /\ users' \in [UserIds -> UserRow \cup {Nobody}]
      /\ users'[target] = Nobody /\ \A i \in UserIds \ {target} : users'[i] = users[i]
    BY <1>1, <1>2, <1>3
<1>5. \A i \in UserIds : Exists(i)' <=> (Exists(i) /\ i # target)
    BY <1>4 DEF Exists
<1>6. OneUserPerName'
    <2> SUFFICES ASSUME NEW i \in UserIds, Exists(i)' PROVE Named(users[i].username)' = {i}
        BY DEF OneUserPerName
    <2>1. ASSUME NEW j \in UserIds, Exists(j)', users'[j].username = users'[i].username
          PROVE  j = i
        <3>1. Exists(i) /\ Exists(j) /\ users[j].username = users[i].username
            BY <1>4, <1>5, <2>1
        <3> QED BY <3>1 DEF IdentityIInv, OneUserPerName, Named
    <2> QED BY <2>1 DEF Named
<1>7. SessionsHaveUsers'
    <2> SUFFICES ASSUME NEW s \in sessions' PROVE Exists(s.user)'
        BY DEF SessionsHaveUsers
    <2>1. s \in sessions /\ s.user # target /\ s.user \in UserIds
        BY <1>1, <1>3 DEF Session
    <2> QED BY <1>3, <1>5, <2>1
<1>8. \A i \in UserIds : Exists(i)' =>
          /\ i <= lastUserId'
          /\ Exists(i) /\ users[i].role = users'[i].role
    BY <1>1, <1>3, <1>4, <1>5
<1>9. Admins \ {target} \subseteq Admins' /\ ~(lastUserId = 0 /\ lastUserId' > 0)
    BY <1>1, <1>3, <1>4, <1>5 DEF Admins
<1>10. /\ sessions' \subseteq Session
       /\ lastUserId' \in lastUserId .. MaxUserId /\ lastToken' \in lastToken .. MaxToken
       /\ seeded' \in BOOLEAN /\ (seeded => seeded') /\ (seeded' => lastUserId' > 0)
       /\ \A s \in sessions' : s.token <= lastToken' /\ (s \in sessions \/ s.token > lastToken)
    BY <1>1, <1>3, IdentityAssumption
<1> QED BY <1>1, <1>2, <1>4, <1>6, <1>7, <1>8, <1>9, <1>10, Settled DEF target

-----------------------------------------------------------------------------
(* The wizard saves the configuration, and time passes.                    *)

LEMMA CompleteSetupStep ==
    ASSUME IdentityIInv, CompleteSetup PROVE IdentityIInv'
<1>1. /\ seeded /\ setupDone' = TRUE
      /\ UNCHANGED <<users, sessions, lastUserId, lastToken, seeded, authClock, served, sent, overlapped>>
    BY DEF CompleteSetup
<1>2. IdentityTypeOK'
    BY <1>1 DEF IdentityIInv, IdentityTypeOK, Exists
<1>3. SessionsHaveUsers' /\ OneUserPerName'
    BY <1>1 DEF IdentityIInv, SessionsHaveUsers, OneUserPerName, Named, Exists
<1>4. ASSUME NEW r \in Requests, served[r] # Nobody PROVE RequestOK(served[r])'
    <2>1. RequestOK(served[r])
        BY <1>4 DEF IdentityIInv
    <2> QED BY <1>1, <2>1
            DEF RequestOK, LateOK, RowOK, RolesOK, DeletionOK, Active, Guarded, Exists, PendingWrite, Admins
<1>5. UNCHANGED <<Admins, OpenDeletions>>
    BY <1>1 DEF Admins, Exists, OpenDeletions
<1> QED BY <1>1, <1>2, <1>3, <1>4, <1>5 DEF IdentityIInv

LEMMA PassStep ==
    ASSUME IdentityIInv, Pass PROVE IdentityIInv'
<1>1. /\ authClock' = authClock + 1 /\ authClock' \in 0 .. MaxClock /\ authClock \in Nat
      /\ UNCHANGED <<users, sessions, lastUserId, lastToken, setupDone, seeded, served, sent, overlapped>>
    BY IdentityAssumption DEF Pass, IdentityIInv, IdentityTypeOK
<1>2. IdentityTypeOK'
    BY <1>1 DEF IdentityIInv, IdentityTypeOK, Exists
<1>3. SessionsHaveUsers' /\ OneUserPerName'
    BY <1>1 DEF IdentityIInv, SessionsHaveUsers, OneUserPerName, Named, Exists
<1>4. \A t : Active(t)' \subseteq Active(t)
    <2>1. \A s \in sessions : s.expiresAt \in Nat
        BY DEF IdentityIInv, IdentityTypeOK, Session
    <2> QED BY <1>1, <2>1 DEF Active
<1>5. ASSUME NEW r \in Requests, served[r] # Nobody PROVE RequestOK(served[r])'
    <2>1. RequestOK(served[r])
        BY <1>5 DEF IdentityIInv
    <2>2. LateOK(served[r])'
        BY <1>1, <1>4, <2>1 DEF RequestOK, LateOK, Guarded
    <2> QED BY <1>1, <2>1, <2>2 DEF RequestOK, RowOK, RolesOK, DeletionOK, Exists, PendingWrite, Admins
<1>6. UNCHANGED <<Admins, OpenDeletions>>
    BY <1>1 DEF Admins, Exists, OpenDeletions
<1> QED BY <1>1, <1>2, <1>3, <1>5, <1>6 DEF IdentityIInv

-----------------------------------------------------------------------------
LEMMA IdentityStepKeeps == IdentityIInv /\ [IdentityNext]_identityVars => IdentityIInv'
<1> SUFFICES ASSUME IdentityIInv, [IdentityNext]_identityVars PROVE IdentityIInv'
    OBVIOUS
<1>1. CASE UNCHANGED identityVars
    <2>1. UNCHANGED <<users, sessions, lastUserId, lastToken, setupDone, seeded, authClock, served,
                      sent, overlapped>>
        BY <1>1 DEF identityVars
    <2> QED BY <2>1
            DEF IdentityIInv, IdentityTypeOK, SessionsHaveUsers, OneUserPerName, Named, Exists, RequestOK,
                LateOK, RowOK, RolesOK, DeletionOK, Active, Guarded, PendingWrite, Admins, Agree,
                OpenDeletions
<1>2. ASSUME NEW r \in Requests, NEW call \in Call, Arrive(r, call) PROVE IdentityIInv'
    BY <1>2, ArriveStep
<1>3. ASSUME NEW r \in Requests, Serve(r) PROVE IdentityIInv'
    BY <1>3, FindSessionStep, FindPrincipalStep, LogoutStep, LoginFindStep, LoginVerifyStep,
       CreateFindStep, CreateSaveStep, SetupStatusStep, SetupFindStep, SetupSaveStep,
       DeleteFindStep, DeleteCountStep, DeleteCommitStep
       DEF Serve
<1> QED BY <1>1, <1>2, <1>3, CompleteSetupStep, PassStep DEF IdentityNext

LEMMA IdentityInvariance == IdentitySpec => []IdentityIInv
<1> QED BY IdentityBegins, IdentityStepKeeps, PTL DEF IdentitySpec

(* No session without its user, no two users of one name, and an           *)
(* administrator as long as no two deletions overlap: whatever the logins, *)
(* creations and deletions do between each other's awaits                  *)
(* (DeleteUserUseCase, LoginUseCase, CreateUserUseCase, SetupInitialAdmin).*)
THEOREM TablesStayConsistent == IdentitySpec => []IdentityIsConsistent
<1>1. IdentityIInv => IdentityIsConsistent
    BY DEF IdentityIInv, IdentityIsConsistent, AnAdminRemainsWithoutOverlap
<1> QED BY <1>1, IdentityInvariance, PTL

(* A token that was logged out, had expired or whose user was gone when    *)
(* the request arrived never passes the guard (GetSessionUserUseCase).     *)
THEOREM RevokedStaysOut == IdentitySpec => []RevokedNeverAdmitted
<1>1. IdentityIInv => RevokedNeverAdmitted
    BY DEF IdentityIInv, RequestOK, LateOK, RevokedNeverAdmitted
<1> QED BY <1>1, IdentityInvariance, PTL

-----------------------------------------------------------------------------
(* Licensing.  The argument is the high-water mark: a licence is found     *)
(* lapsed only after the time it was judged at has been recorded, the mark *)
(* never falls, and an evaluation that begins later judges at a time at or *)
(* past the mark.                                                          *)

(* What is known of an evaluation or an activation at its stage.           *)
JobOK(job) ==
    /\ job.lapsed \subseteq lapsed
    /\ job.at # "read" => \A licence \in job.lapsed : ExpiredPastGrace(licence, job.now)
    /\ job.at \notin {"read", "touch"} => lastSeen # Never /\ job.now <= lastSeen
    /\ job.at = "window" /\ job.licence \in job.lapsed => Restricts(job.verdict)
    /\ job.at \in {"deactivate", "insert"} => job.licence \in Licences

LapsedOK(licence) ==
    licence.genuine /\ licence.ours /\ lastSeen # Never /\ ExpiredPastGrace(licence, lastSeen)

LicensingIInv ==
    /\ LicensingTypeOK /\ OneActiveLicence
    /\ \A licence \in lapsed : LapsedOK(licence)
    /\ \A p \in Places : jobs[p] # NoJob => JobOK(jobs[p])

(* The mark rises from its unset value, and never falls after.             *)
MarkRises == lastSeen # Never => lastSeen' # Never /\ lastSeen <= lastSeen'

-----------------------------------------------------------------------------
LEMMA LatestIsLater ==
    ASSUME NEW a \in 0 .. MaxDay, NEW b \in 0 .. MaxDay \cup {Never}
    PROVE  Latest(a, b) \in 0 .. MaxDay /\ a <= Latest(a, b) /\ (b # Never => b <= Latest(a, b))
BY VerdictAssumption, LicensingAssumption DEF Latest

(* Past its grace once, past it at every later time.                       *)
LEMMA ExpiryIsForGood ==
    ASSUME NEW licence \in Licences, NEW m \in Int, NEW n \in Int, m <= n,
           ExpiredPastGrace(licence, m)
    PROVE  ExpiredPastGrace(licence, n)
<1>1. /\ licence.expiresAt \in Int \cup {Never}
      /\ licence.expiryGrace \in Nat
    BY LicensingAssumption
<1> QED BY <1>1 DEF ExpiredPastGrace

LEMMA EvaluateIsAVerdict ==
    ASSUME NEW licence, NEW reading, NEW since, NEW now
    PROVE  Evaluate(licence, reading, since, now) \in Verdict
BY DEF Evaluate, Ladder, Refusal, Finding, Verdict

LEMMA LapsedIsFoundGenuine ==
    ASSUME NEW licence, NEW reading, NEW since, NEW now,
           Evaluate(licence, reading, since, now) = Finding("RESTRICTED", "EXPIRED")
    PROVE  licence # NoLicence /\ licence.genuine /\ licence.ours /\ ExpiredPastGrace(licence, now)
BY DEF Evaluate, Ladder, Refusal, Finding

LEMMA PastGraceRestricts ==
    ASSUME NEW licence \in Licences, NEW reading, NEW since, NEW now,
           ExpiredPastGrace(licence, now)
    PROVE  Restricts(Evaluate(licence, reading, since, now))
BY DEF Evaluate, Ladder, Refusal, Finding, Restricts

-----------------------------------------------------------------------------
LEMMA NewJobIsOK ==
    ASSUME LicensingTypeOK, NEW purpose \in {"boot", "refresh", "before", "after", "show"}
    PROVE  /\ NewJob(purpose) \in Job
           /\ NewJob(purpose).at = "read" /\ NewJob(purpose).lapsed = lapsed
BY LicensingAssumption, VerdictAssumption DEF NewJob, Job, LicensingTypeOK

LEMMA JobsAreOK ==
    ASSUME LicensingIInv, NEW p \in Places, jobs[p] # NoJob
    PROVE  jobs[p] \in Job /\ JobOK(jobs[p])
BY DEF LicensingIInv, LicensingTypeOK

(* What is known of a job stays known while the mark and the lapsed grow.  *)
LEMMA JobStaysOK ==
    ASSUME LicensingTypeOK, LicensingTypeOK', MarkRises, lapsed \subseteq lapsed',
           NEW job \in Job, JobOK(job)
    PROVE  JobOK(job)'
<1>1. lastSeen \in 0 .. MaxDay \cup {Never} /\ lastSeen' \in 0 .. MaxDay \cup {Never}
    BY DEF LicensingTypeOK
<1>2. job.now \in 0 .. MaxDay
    BY DEF Job
<1>3. job.at \notin {"read", "touch"} => lastSeen' # Never /\ job.now <= lastSeen'
    BY <1>1, <1>2, VerdictAssumption, LicensingAssumption DEF JobOK, MarkRises
<1> QED BY <1>3 DEF JobOK

LEMMA LapsedStays ==
    ASSUME LicensingTypeOK, LicensingTypeOK', MarkRises, NEW licence \in Licences,
           LapsedOK(licence)
    PROVE  LapsedOK(licence)'
<1>1. /\ lastSeen # Never /\ lastSeen' # Never /\ lastSeen <= lastSeen'
      /\ lastSeen \in Int /\ lastSeen' \in Int
    BY VerdictAssumption, LicensingAssumption DEF LapsedOK, MarkRises, LicensingTypeOK
<1>2. ExpiredPastGrace(licence, lastSeen')
    BY <1>1, ExpiryIsForGood DEF LapsedOK
<1> QED BY <1>1, <1>2 DEF LapsedOK

(* A step that replaces one job.                                           *)
LEMMA OneJobMoves ==
    ASSUME LicensingIInv, LicensingTypeOK', OneActiveLicence', MarkRises, lapsed \subseteq lapsed',
           \A licence \in lapsed' \ lapsed : LapsedOK(licence)',
           NEW p \in Places, NEW job,
           jobs' = [jobs EXCEPT ![p] = job],
           job # NoJob => JobOK(job)'
    PROVE  LicensingIInv'
<1>1. \A licence \in lapsed' : LapsedOK(licence)'
    BY LapsedStays DEF LicensingIInv, LicensingTypeOK
<1>2. ASSUME NEW q \in Places, jobs'[q] # NoJob PROVE JobOK(jobs[q])'
    <2>1. jobs \in [Places -> Job \cup {NoJob}]
        BY DEF LicensingIInv, LicensingTypeOK
    <2>2. CASE q = p
        <3>1. jobs'[q] = job
            BY <2>1, <2>2
        <3> QED BY <3>1, <1>2 DEF JobOK
    <2>3. CASE q # p
        <3>1. jobs'[q] = jobs[q]
            BY <2>1, <2>3
        <3>2. PICK other : other = jobs[q]
            OBVIOUS
        <3>3. other \in Job /\ JobOK(other)
            BY <1>2, <3>1, <3>2, JobsAreOK
        <3>4. JobOK(other)'
            BY <3>3, JobStaysOK DEF LicensingIInv
        <3> QED BY <3>1, <3>2, <3>4 DEF JobOK
    <2> QED BY <2>2, <2>3
<1> QED BY <1>1, <1>2 DEF LicensingIInv

(* A step that changes nothing but one job (and counts an activation).     *)
LEMMA OnlyAJobMoves ==
    ASSUME LicensingIInv, NEW p \in Places, NEW job \in Job \cup {NoJob},
           jobs' = [jobs EXCEPT ![p] = job], job # NoJob => JobOK(job),
           UNCHANGED <<active, lastSeen, mismatchSince, cached, ready, lapsed, answered, faults,
                       outside>>,
           activations' \in 0 .. MaxActivations
    PROVE  LicensingIInv'
<1>1. LicensingTypeOK' /\ OneActiveLicence'
    BY DEF LicensingIInv, LicensingTypeOK, OneActiveLicence, outside
<1>2. MarkRises
    BY VerdictAssumption, LicensingAssumption DEF MarkRises, LicensingIInv, LicensingTypeOK
<1>3. job # NoJob => JobOK(job)'
    BY DEF JobOK
<1> QED BY <1>1, <1>2, <1>3, OneJobMoves

-----------------------------------------------------------------------------
LEMMA LicensingBegins == LicensingInit => LicensingIInv
<1> SUFFICES ASSUME LicensingInit PROVE LicensingIInv
    OBVIOUS
<1> USE LicensingAssumption
<1>1. /\ active = {} /\ lapsed = {} /\ lastSeen = Never /\ mismatchSince = Never
      /\ wallDay \in 0 .. MaxDay
    BY DEF LicensingInit
<1>2. NewJob("boot") \in Job /\ NewJob("boot").at = "read" /\ NewJob("boot").lapsed = {}
    BY <1>1, VerdictAssumption DEF NewJob, Job
<1>3. PICK boot \in Places :
          jobs = [p \in Places |-> IF p = boot THEN NewJob("boot") ELSE NoJob]
    BY DEF LicensingInit
<1>4. LicensingTypeOK
    <2>1. jobs \in [Places -> Job \cup {NoJob}]
        BY <1>2, <1>3
    <2>2. /\ changes \in 0 .. MaxChanges /\ activations \in 0 .. MaxActivations
          /\ faults \in 0 .. MaxFaults /\ host \in Hosts
        BY DEF LicensingInit
    <2>3. cached \in Verdict \cup {NoVerdict} /\ {ready, answered} \subseteq BOOLEAN
        BY DEF LicensingInit
    <2> QED BY <1>1, <2>1, <2>2, <2>3 DEF LicensingTypeOK
<1>5. OneActiveLicence
    BY <1>1, FS_EmptySet DEF OneActiveLicence
<1>6. \A p \in Places : jobs[p] # NoJob => JobOK(jobs[p])
    BY <1>1, <1>2, <1>3 DEF JobOK
<1> QED BY <1>1, <1>4, <1>5, <1>6 DEF LicensingIInv

LEMMA FreshJobIsOK ==
    ASSUME LicensingIInv, NEW purpose \in {"boot", "refresh", "before", "after", "show"},
           NEW job, job = NewJob(purpose)
    PROVE  job \in Job /\ JobOK(job)
BY NewJobIsOK DEF JobOK, LicensingIInv

LEMMA StartStep ==
    ASSUME LicensingIInv, NEW p \in Places, StartRefresh(p) \/ StartActivation(p)
    PROVE  LicensingIInv'
<1>1. CASE StartRefresh(p)
    <2>1. PICK job : job = NewJob("refresh")
        OBVIOUS
    <2>2. job \in Job /\ JobOK(job)
        BY <2>1, FreshJobIsOK
    <2>3. /\ jobs' = [jobs EXCEPT ![p] = job] /\ activations' \in 0 .. MaxActivations
          /\ UNCHANGED <<active, lastSeen, mismatchSince, cached, ready, lapsed, answered, faults,
                         outside>>
        BY <1>1, <2>1 DEF StartRefresh, LicensingIInv, LicensingTypeOK
    <2> QED BY <2>2, <2>3, OnlyAJobMoves
<1>2. CASE StartActivation(p)
    <2>1. PICK job : job = NewJob("before")
        OBVIOUS
    <2>2. job \in Job /\ JobOK(job)
        BY <2>1, FreshJobIsOK
    <2>3. /\ jobs' = [jobs EXCEPT ![p] = job] /\ activations' \in 0 .. MaxActivations
          /\ UNCHANGED <<active, lastSeen, mismatchSince, cached, ready, lapsed, answered, faults,
                         outside>>
        BY <1>2, <2>1, LicensingAssumption DEF StartActivation, LicensingIInv, LicensingTypeOK
    <2> QED BY <2>2, <2>3, OnlyAJobMoves
<1> QED BY <1>1, <1>2

(* The time of the evaluation is at or past the mark it read, and whatever *)
(* had lapsed when it began has lapsed at that time.                       *)
LEMMA ReadInstallationStep ==
    ASSUME LicensingIInv, NEW p \in Places, ReadInstallation(p) PROVE LicensingIInv'
<1>1. jobs[p] \in Job /\ JobOK(jobs[p]) /\ jobs[p] # NoJob /\ jobs[p].at = "read"
    BY JobsAreOK DEF ReadInstallation, JobAt
<1>2. PICK job : job = [jobs[p] EXCEPT !.at = "touch", !.now = EffectiveNow(jobs[p].now),
                                       !.since = mismatchSince]
    OBVIOUS
<1>3. /\ lastSeen \in 0 .. MaxDay \cup {Never} /\ mismatchSince \in 0 .. MaxDay \cup {Never}
      /\ jobs[p].now \in 0 .. MaxDay /\ jobs \in [Places -> Job \cup {NoJob}]
    BY <1>1 DEF LicensingIInv, LicensingTypeOK, Job
<1>4. /\ EffectiveNow(jobs[p].now) \in 0 .. MaxDay
      /\ lastSeen # Never => lastSeen <= EffectiveNow(jobs[p].now)
    BY <1>3, LatestIsLater DEF EffectiveNow
<1>5. /\ job \in Job /\ job.at = "touch" /\ job.now = EffectiveNow(jobs[p].now)
      /\ job.lapsed = jobs[p].lapsed
    BY <1>1, <1>2, <1>3, <1>4 DEF Job
<1>6. jobs' = [jobs EXCEPT ![p] = job]
    BY <1>2 DEF ReadInstallation
<1>7. MarkRises /\ lastSeen' \in 0 .. MaxDay \cup {Never}
    BY <1>3, VerdictAssumption, LicensingAssumption DEF ReadInstallation, MarkRises
<1>8. LicensingTypeOK' /\ OneActiveLicence' /\ lapsed' = lapsed
    <2>1. jobs' \in [Places -> Job \cup {NoJob}]
        BY <1>3, <1>5, <1>6
    <2> QED BY <1>7, <2>1 DEF ReadInstallation, LicensingIInv, LicensingTypeOK, OneActiveLicence, outside
<1>9. ASSUME NEW licence \in job.lapsed PROVE ExpiredPastGrace(licence, job.now)
    <2>1. licence \in lapsed /\ licence \in Licences
        BY <1>1, <1>5 DEF JobOK, LicensingIInv, LicensingTypeOK
    <2>2. lastSeen # Never /\ ExpiredPastGrace(licence, lastSeen)
        BY <2>1 DEF LicensingIInv, LapsedOK
    <2>3. lastSeen \in Int /\ job.now \in Int /\ lastSeen <= job.now
        BY <1>3, <1>4, <1>5, <2>2, LicensingAssumption
    <2> QED BY <2>1, <2>2, <2>3, ExpiryIsForGood
<1>10. JobOK(job)'
    BY <1>1, <1>5, <1>8, <1>9 DEF JobOK
<1> QED BY <1>6, <1>7, <1>8, <1>10, OneJobMoves

LEMMA TouchStep ==
    ASSUME LicensingIInv, NEW p \in Places, Touch(p) PROVE LicensingIInv'
<1>1. jobs[p] \in Job /\ JobOK(jobs[p]) /\ jobs[p] # NoJob /\ jobs[p].at = "touch"
    BY JobsAreOK DEF Touch, JobAt
<1>2. PICK job : job = [jobs[p] EXCEPT !.at = "licence"]
    OBVIOUS
<1>3. /\ lastSeen \in 0 .. MaxDay \cup {Never} /\ jobs \in [Places -> Job \cup {NoJob}]
      /\ jobs[p].now \in 0 .. MaxDay
    BY <1>1 DEF LicensingIInv, LicensingTypeOK, Job
<1>4. /\ job \in Job /\ job.at = "licence" /\ job.now = jobs[p].now
      /\ job.lapsed = jobs[p].lapsed
    BY <1>1, <1>2 DEF Job
<1>5. jobs' = [jobs EXCEPT ![p] = job] /\ lastSeen' = Latest(jobs[p].now, lastSeen)
    BY <1>2 DEF Touch
<1>6. /\ lastSeen' \in 0 .. MaxDay /\ jobs[p].now <= lastSeen'
      /\ lastSeen # Never => lastSeen <= lastSeen'
    BY <1>3, <1>5, LatestIsLater
<1>7. MarkRises /\ lastSeen' # Never
    BY <1>6, VerdictAssumption, LicensingAssumption DEF MarkRises
<1>8. LicensingTypeOK' /\ OneActiveLicence' /\ lapsed' = lapsed
    <2>1. jobs' \in [Places -> Job \cup {NoJob}]
        BY <1>3, <1>4, <1>5
    <2> QED BY <1>6, <2>1 DEF Touch, LicensingIInv, LicensingTypeOK, OneActiveLicence, outside
<1>9. JobOK(job)'
    BY <1>1, <1>4, <1>6, <1>7, <1>8 DEF JobOK
<1> QED BY <1>5, <1>7, <1>8, <1>9, OneJobMoves

LEMMA ReadLicenceStep ==
    ASSUME LicensingIInv, NEW p \in Places, ReadLicence(p) PROVE LicensingIInv'
<1>1. jobs[p] \in Job /\ JobOK(jobs[p]) /\ jobs[p].at = "licence"
    BY JobsAreOK DEF ReadLicence, JobAt
<1>2. PICK licence \in IF active = {} THEN {NoLicence} ELSE active :
          jobs' = [jobs EXCEPT ![p].at = "host", ![p].licence = licence]
    BY DEF ReadLicence
<1>3. licence \in Licences \cup {NoLicence}
    BY <1>2 DEF LicensingIInv, LicensingTypeOK
<1>4. PICK job : job = [jobs[p] EXCEPT !.at = "host", !.licence = licence]
    OBVIOUS
<1>5. /\ job \in Job /\ job.at = "host" /\ job.now = jobs[p].now
      /\ job.lapsed = jobs[p].lapsed
    BY <1>1, <1>3, <1>4 DEF Job
<1>6. JobOK(job)
    BY <1>1, <1>5 DEF JobOK
<1>7. jobs' = [jobs EXCEPT ![p] = job]
    BY <1>2, <1>4
<1>8. /\ activations' \in 0 .. MaxActivations
      /\ UNCHANGED <<active, lastSeen, mismatchSince, cached, ready, lapsed, answered, faults,
                     outside>>
    BY DEF ReadLicence, LicensingIInv, LicensingTypeOK
<1> QED BY <1>5, <1>6, <1>7, <1>8, OnlyAJobMoves

(* What had lapsed when the evaluation began is restricted, and what it    *)
(* finds lapsed had lapsed by the mark.                                    *)
LEMMA ReadHostStep ==
    ASSUME LicensingIInv, NEW p \in Places, ReadHost(p) PROVE LicensingIInv'
<1>1. jobs[p] \in Job /\ JobOK(jobs[p]) /\ jobs[p].at = "host"
    BY JobsAreOK DEF ReadHost, JobAt
<1>2. PICK verdict : verdict = Evaluate(jobs[p].licence, host, jobs[p].since, jobs[p].now)
    OBVIOUS
<1>3. PICK mismatch \in BOOLEAN :
          mismatch = (/\ jobs[p].licence # NoLicence
                      /\ jobs[p].licence.genuine /\ jobs[p].licence.ours
                      /\ IsMismatch(jobs[p].licence, host))
    OBVIOUS
<1>4. PICK job : job = [jobs[p] EXCEPT !.at = "window", !.verdict = verdict,
                                       !.mismatch = mismatch]
    OBVIOUS
<1>5. /\ jobs' = [jobs EXCEPT ![p] = job]
      /\ lapsed' = IF verdict = Finding("RESTRICTED", "EXPIRED")
                   THEN lapsed \cup {jobs[p].licence} ELSE lapsed
    BY <1>2, <1>3, <1>4 DEF ReadHost
<1>6. /\ jobs[p].licence \in Licences \cup {NoLicence} /\ jobs[p].now \in 0 .. MaxDay
      /\ jobs[p].lapsed \subseteq Licences /\ verdict \in Verdict
      /\ jobs \in [Places -> Job \cup {NoJob}] /\ lapsed \subseteq Licences
      /\ lastSeen \in 0 .. MaxDay \cup {Never}
    BY <1>1, <1>2, EvaluateIsAVerdict DEF Job, LicensingIInv, LicensingTypeOK
<1>7. /\ job \in Job /\ job.at = "window" /\ job.now = jobs[p].now /\ job.verdict = verdict
      /\ job.lapsed = jobs[p].lapsed /\ job.licence = jobs[p].licence
    BY <1>1, <1>4, <1>6 DEF Job
<1>8. lastSeen' = lastSeen /\ lastSeen # Never /\ lastSeen \in Int /\ jobs[p].now \in Int
      /\ jobs[p].now <= lastSeen
    BY <1>1, <1>6, LicensingAssumption DEF JobOK, ReadHost
<1>9. ASSUME NEW licence \in lapsed' \ lapsed
      PROVE  licence \in Licences /\ LapsedOK(licence)'
    <2>1. licence = jobs[p].licence /\ verdict = Finding("RESTRICTED", "EXPIRED")
        BY <1>5, <1>9
    <2>2. /\ licence # NoLicence /\ licence.genuine /\ licence.ours
          /\ ExpiredPastGrace(licence, jobs[p].now)
        BY <1>2, <2>1, LapsedIsFoundGenuine
    <2>3. licence \in Licences
        BY <1>6, <2>1, <2>2
    <2>4. ExpiredPastGrace(licence, lastSeen')
        BY <1>8, <2>2, <2>3, ExpiryIsForGood
    <2> QED BY <1>8, <2>2, <2>3, <2>4 DEF LapsedOK
<1>10. lapsed \subseteq lapsed' /\ lapsed' \subseteq Licences
    BY <1>5, <1>6, <1>9
<1>11. LicensingTypeOK' /\ OneActiveLicence'
    <2>1. jobs' \in [Places -> Job \cup {NoJob}]
        BY <1>5, <1>6, <1>7
    <2> QED BY <1>10, <2>1 DEF ReadHost, LicensingIInv, LicensingTypeOK, OneActiveLicence, outside
<1>12. MarkRises
    BY <1>8 DEF MarkRises
<1>13. job.licence \in job.lapsed => Restricts(job.verdict)
    <2>1. ASSUME job.licence \in job.lapsed PROVE Restricts(job.verdict)
        <3>1. jobs[p].licence \in Licences /\ ExpiredPastGrace(jobs[p].licence, jobs[p].now)
            BY <1>1, <1>6, <1>7, <2>1 DEF JobOK
        <3> QED BY <1>2, <1>7, <3>1, PastGraceRestricts
    <2> QED BY <2>1
<1>14. JobOK(job)'
    BY <1>1, <1>7, <1>8, <1>10, <1>13 DEF JobOK
<1> QED BY <1>5, <1>9, <1>10, <1>11, <1>12, <1>14, OneJobMoves

LEMMA WindowTyped ==
    ASSUME LicensingTypeOK, NEW job \in Job
    PROVE  MismatchWindow(job) \in 0 .. MaxDay \cup {Never}
BY DEF MismatchWindow, LicensingTypeOK, Job

LEMMA FinishEvaluationStep ==
    ASSUME LicensingIInv, NEW p \in Places, FinishEvaluation(p) PROVE LicensingIInv'
<1>1. jobs[p] \in Job /\ JobOK(jobs[p]) /\ jobs[p].at = "window"
    BY JobsAreOK DEF FinishEvaluation, JobAt
<1>2. PICK job : job = CASE jobs[p].for = "before" -> [jobs[p] EXCEPT !.at = "redeem"]
                         [] jobs[p].for = "after" -> NewJob("show")
                         [] OTHER -> NoJob
    OBVIOUS
<1>3. jobs' = [jobs EXCEPT ![p] = job]
    BY <1>2 DEF FinishEvaluation
<1>4. job \in Job \cup {NoJob} /\ (job # NoJob => JobOK(job))
    <2>1. CASE jobs[p].for = "before"
        <3>1. job = [jobs[p] EXCEPT !.at = "redeem"]
            BY <1>2, <2>1
        <3>2. /\ job \in Job /\ job.at = "redeem" /\ job.now = jobs[p].now
              /\ job.lapsed = jobs[p].lapsed
            BY <1>1, <3>1 DEF Job
        <3> QED BY <1>1, <3>2 DEF JobOK
    <2>2. CASE jobs[p].for = "after"
        <3>1. job = NewJob("show")
            BY <1>2, <2>2
        <3> QED BY <3>1, FreshJobIsOK
    <2>3. CASE jobs[p].for \notin {"before", "after"}
        BY <1>2, <2>3
    <2> QED BY <2>1, <2>2, <2>3
<1>5. UNCHANGED <<active, lastSeen, lapsed>>
    BY DEF FinishEvaluation
<1>6. LicensingTypeOK' /\ OneActiveLicence'
    <2>1. jobs' \in [Places -> Job \cup {NoJob}]
        BY <1>3, <1>4 DEF LicensingIInv, LicensingTypeOK
    <2>2. mismatchSince' \in 0 .. MaxDay \cup {Never}
        BY <1>1, WindowTyped DEF FinishEvaluation, LicensingIInv
    <2>3. cached' \in Verdict \cup {NoVerdict} /\ {ready', answered'} \subseteq BOOLEAN
        BY <1>1 DEF FinishEvaluation, LicensingIInv, LicensingTypeOK, Job
    <2> QED BY <1>5, <2>1, <2>2, <2>3
            DEF FinishEvaluation, LicensingIInv, LicensingTypeOK, OneActiveLicence, outside
<1>7. MarkRises
    BY <1>5, VerdictAssumption, LicensingAssumption DEF MarkRises, LicensingIInv, LicensingTypeOK
<1>8. job # NoJob => JobOK(job)'
    BY <1>4, <1>5 DEF JobOK
<1> QED BY <1>3, <1>5, <1>6, <1>7, <1>8, OneJobMoves

-----------------------------------------------------------------------------
LEMMA RedeemStep ==
    ASSUME LicensingIInv, NEW p \in Places, Redeem(p) PROVE LicensingIInv'
<1>1. jobs[p] \in Job /\ JobOK(jobs[p]) /\ jobs[p].at = "redeem"
    BY JobsAreOK DEF Redeem, JobAt
<1>2. /\ activations' \in 0 .. MaxActivations
      /\ UNCHANGED <<active, lastSeen, mismatchSince, cached, ready, lapsed, answered, faults,
                     outside>>
    BY DEF Redeem, LicensingIInv, LicensingTypeOK
<1>3. CASE jobs' = [jobs EXCEPT ![p] = NoJob]
    BY <1>2, <1>3, OnlyAJobMoves
<1>4. ASSUME NEW licence \in Licences,
             jobs' = [jobs EXCEPT ![p] = IF Accepted(licence)
                         THEN [@ EXCEPT !.at = "deactivate", !.licence = licence]
                         ELSE NoJob]
      PROVE  LicensingIInv'
    <2>1. CASE Accepted(licence)
        <3>1. PICK job : job = [jobs[p] EXCEPT !.at = "deactivate", !.licence = licence]
            OBVIOUS
        <3>2. /\ job \in Job /\ job.at = "deactivate" /\ job.now = jobs[p].now
              /\ job.lapsed = jobs[p].lapsed /\ job.licence = licence
            BY <1>1, <3>1 DEF Job
        <3>3. JobOK(job)
            BY <1>1, <3>2 DEF JobOK
        <3>4. jobs' = [jobs EXCEPT ![p] = job]
            BY <1>4, <2>1, <3>1
        <3> QED BY <1>2, <3>2, <3>3, <3>4, OnlyAJobMoves
    <2>2. CASE ~Accepted(licence)
        <3>1. jobs' = [jobs EXCEPT ![p] = NoJob]
            BY <1>4, <2>2
        <3> QED BY <1>2, <3>1, OnlyAJobMoves
    <2> QED BY <2>1, <2>2
<1> QED BY <1>3, <1>4 DEF Redeem

LEMMA DeactivateStep ==
    ASSUME LicensingIInv, NEW p \in Places, Deactivate(p) PROVE LicensingIInv'
<1>1. jobs[p] \in Job /\ JobOK(jobs[p]) /\ jobs[p].at = "deactivate"
    BY JobsAreOK DEF Deactivate, JobAt
<1>2. PICK job : job = [jobs[p] EXCEPT !.at = "insert", !.replaced = active]
    OBVIOUS
<1>3. active \in SUBSET Licences
    BY DEF LicensingIInv, LicensingTypeOK
<1>4. /\ job \in Job /\ job.at = "insert" /\ job.now = jobs[p].now
      /\ job.lapsed = jobs[p].lapsed /\ job.licence = jobs[p].licence
    BY <1>1, <1>2, <1>3 DEF Job
<1>5. JobOK(job)
    BY <1>1, <1>4 DEF JobOK
<1>6. jobs' = [jobs EXCEPT ![p] = job] /\ activations' \in 0 .. MaxActivations
    BY <1>2 DEF Deactivate, LicensingIInv, LicensingTypeOK
<1>7. UNCHANGED <<active, lastSeen, mismatchSince, cached, ready, lapsed, answered, faults,
                  outside>>
    BY DEF Deactivate, RowsAfterUpdate
<1> QED BY <1>4, <1>5, <1>6, <1>7, OnlyAJobMoves

(* The unique index lets the INSERT through only over the rows the UPDATE  *)
(* took: one row is left.                                                  *)
LEMMA InsertAndCommitStep ==
    ASSUME LicensingIInv, NEW p \in Places, InsertAndCommit(p) PROVE LicensingIInv'
<1>1. jobs[p] \in Job /\ JobOK(jobs[p]) /\ jobs[p].at = "insert"
    BY JobsAreOK DEF InsertAndCommit, JobAt
<1>2. activations' \in 0 .. MaxActivations
    BY DEF InsertAndCommit, LicensingIInv, LicensingTypeOK
<1>3. CASE SingleActiveIndex(jobs[p])
    <2>1. PICK job : job = NewJob("after")
        OBVIOUS
    <2>2. job \in Job /\ JobOK(job)
        BY <2>1, FreshJobIsOK
    <2>3. jobs' = [jobs EXCEPT ![p] = job] /\ active' = {jobs[p].licence}
        BY <1>3, <2>1 DEF InsertAndCommit, SingleActiveIndex
    <2>4. jobs[p].licence \in Licences
        BY <1>1 DEF JobOK
    <2>5. UNCHANGED <<lastSeen, lapsed>>
        BY DEF InsertAndCommit
    <2>6. LicensingTypeOK'
        <3>1. jobs' \in [Places -> Job \cup {NoJob}]
            BY <2>2, <2>3 DEF LicensingIInv, LicensingTypeOK
        <3>2. active' \subseteq Licences
            BY <2>3, <2>4
        <3> QED BY <1>2, <3>1, <3>2 DEF InsertAndCommit, LicensingIInv, LicensingTypeOK, outside
    <2>7. OneActiveLicence'
        <3>1. Cardinality({jobs[p].licence}) = 1
            BY FS_Singleton, Zenon
        <3> QED BY <2>3, <3>1 DEF OneActiveLicence
    <2>8. MarkRises
        BY <2>5, VerdictAssumption, LicensingAssumption DEF MarkRises, LicensingIInv, LicensingTypeOK
    <2>9. JobOK(job)'
        BY <2>2, <2>5 DEF JobOK
    <2> QED BY <2>3, <2>5, <2>6, <2>7, <2>8, <2>9, OneJobMoves
<1>4. CASE ~SingleActiveIndex(jobs[p])
    <2>1. jobs' = [jobs EXCEPT ![p] = NoJob] /\ UNCHANGED active
        BY <1>4 DEF InsertAndCommit
    <2>2. UNCHANGED <<lastSeen, mismatchSince, cached, ready, lapsed, answered, faults, outside>>
        BY DEF InsertAndCommit
    <2> QED BY <1>2, <2>1, <2>2, OnlyAJobMoves
<1> QED BY <1>3, <1>4

LEMMA FailStep ==
    ASSUME LicensingIInv, NEW p \in Places, Fail(p) PROVE LicensingIInv'
<1>1. jobs' = [jobs EXCEPT ![p] = NoJob] /\ UNCHANGED <<active, lastSeen, lapsed>>
    BY DEF Fail
<1>2. LicensingTypeOK' /\ OneActiveLicence'
    <2>1. jobs' \in [Places -> Job \cup {NoJob}]
        BY <1>1 DEF LicensingIInv, LicensingTypeOK
    <2>2. faults' \in 0 .. MaxFaults /\ ready' \in BOOLEAN /\ answered' \in BOOLEAN
        BY LicensingAssumption DEF Fail, LicensingIInv, LicensingTypeOK
    <2> QED BY <1>1, <2>1, <2>2 DEF Fail, LicensingIInv, LicensingTypeOK, OneActiveLicence, outside
<1>3. MarkRises
    BY <1>1, VerdictAssumption, LicensingAssumption DEF MarkRises, LicensingIInv, LicensingTypeOK
<1> QED BY <1>1, <1>2, <1>3, OneJobMoves

LEMMA RestartStep == ASSUME LicensingIInv, Restart PROVE LicensingIInv'
<1>0. PICK job : job = NewJob("boot")
    OBVIOUS
<1>1. PICK boot \in Places : jobs' = [p \in Places |-> IF p = boot THEN job ELSE NoJob]
    BY <1>0 DEF Restart
<1>2. job \in Job /\ JobOK(job)
    BY <1>0, FreshJobIsOK
<1>3. UNCHANGED <<active, lastSeen, lapsed>>
    BY DEF Restart
<1>4. LicensingTypeOK' /\ OneActiveLicence'
    <2>1. jobs' \in [Places -> Job \cup {NoJob}]
        BY <1>1, <1>2
    <2>2. faults' \in 0 .. MaxFaults
        BY LicensingAssumption DEF Restart, LicensingIInv, LicensingTypeOK
    <2> QED BY <1>3, <2>1, <2>2 DEF Restart, LicensingIInv, LicensingTypeOK, OneActiveLicence, outside
<1>5. \A licence \in lapsed' : LapsedOK(licence)'
    BY <1>3 DEF LicensingIInv, LapsedOK
<1>6. ASSUME NEW p \in Places, jobs'[p] # NoJob PROVE JobOK(jobs[p])'
    <2>1. jobs'[p] = job
        BY <1>1, <1>6
    <2>2. JobOK(job)'
        BY <1>2, <1>3 DEF JobOK
    <2> QED BY <2>1, <2>2 DEF JobOK
<1> QED BY <1>4, <1>5, <1>6 DEF LicensingIInv

LEMMA ChangeOutsideStep == ASSUME LicensingIInv, ChangeOutside PROVE LicensingIInv'
<1>1. /\ changes' \in 0 .. MaxChanges /\ wallDay' \in 0 .. MaxDay /\ host' \in Hosts
      /\ UNCHANGED <<active, lastSeen, mismatchSince, cached, ready, jobs, lapsed, answered,
                     activations, faults>>
    BY LicensingAssumption DEF ChangeOutside, LicensingIInv, LicensingTypeOK
<1> QED BY <1>1 DEF LicensingIInv, LicensingTypeOK, OneActiveLicence, LapsedOK, JobOK

LEMMA LicensingStepKeeps == LicensingIInv /\ [LicensingNext]_licensingVars => LicensingIInv'
<1> SUFFICES ASSUME LicensingIInv, [LicensingNext]_licensingVars PROVE LicensingIInv'
    OBVIOUS
<1>1. CASE UNCHANGED licensingVars
    BY <1>1 DEF licensingVars, LicensingIInv, LicensingTypeOK, OneActiveLicence, LapsedOK, JobOK
<1>2. ASSUME NEW p \in Places, Work(p) PROVE LicensingIInv'
    BY <1>2, ReadInstallationStep, TouchStep, ReadLicenceStep, ReadHostStep,
       FinishEvaluationStep, RedeemStep, DeactivateStep, InsertAndCommitStep
       DEF Work
<1> QED BY <1>1, <1>2, StartStep, FailStep, RestartStep, ChangeOutsideStep DEF LicensingNext

LEMMA LicensingInvariance == LicensingSpec => []LicensingIInv
<1> QED BY LicensingBegins, LicensingStepKeeps, PTL DEF LicensingSpec

-----------------------------------------------------------------------------
(* The ladder only climbs with time.                                       *)
LEMMA LadderClimbs == VerdictNeverImproves
<1> SUFFICES ASSUME NEW licence \in Terms, NEW mismatch \in BOOLEAN,
                    NEW since \in Days \cup {Never}, NEW now \in Days, NEW later \in Days,
                    now <= later
             PROVE  Severity(Ladder(licence, mismatch, since, now))
                        <= Severity(Ladder(licence, mismatch, since, later))
    BY DEF VerdictNeverImproves
<1>1. /\ now \in Int /\ later \in Int /\ ExpiringSoonDays \in Int
      /\ licence.expiresAt \in Int \cup {Never}
      /\ licence.expiryGrace \in Nat /\ licence.mismatchGrace \in Nat
      /\ since \in Int \cup {Never}
    <2>1. /\ licence.expiresAt \in Days \cup {Never}
          /\ licence.expiryGrace \in Graces /\ licence.mismatchGrace \in Graces
        BY DEF Terms
    <2>2. Days \subseteq Int /\ Graces \subseteq Nat /\ ExpiringSoonDays \in Int
        BY VerdictAssumption
    <2> QED BY <2>1, <2>2
<1>2. ExpiredPastGrace(licence, now) => ExpiredPastGrace(licence, later)
    BY <1>1 DEF ExpiredPastGrace
<1>3. MismatchPastGrace(licence, mismatch, since, now)
          => MismatchPastGrace(licence, mismatch, since, later)
    BY <1>1 DEF MismatchPastGrace
<1>4. IsExpired(licence, now) => IsExpired(licence, later)
    BY <1>1 DEF IsExpired
<1>5. ExpiringSoon(licence, now) => ExpiringSoon(licence, later)
    BY <1>1 DEF ExpiringSoon
<1> DEFINE Past(m) == \/ ExpiredPastGrace(licence, m)
                      \/ MismatchPastGrace(licence, mismatch, since, m)
           Height(m) == Severity(Ladder(licence, mismatch, since, m))
<1>6. ASSUME NEW m \in Int
      PROVE  /\ Past(m) => Height(m) = 4
             /\ ~Past(m) /\ IsExpired(licence, m) => Height(m) = 3
             /\ ~Past(m) /\ ~IsExpired(licence, m) /\ mismatch => Height(m) = 2
             /\ ~Past(m) /\ ~IsExpired(licence, m) /\ ~mismatch /\ ExpiringSoon(licence, m)
                    => Height(m) = 1
             /\ ~Past(m) /\ ~IsExpired(licence, m) /\ ~mismatch /\ ~ExpiringSoon(licence, m)
                    => Height(m) = 0
    BY DEF Ladder, Finding, Severity
<1>7. Past(now) => Past(later)
    BY <1>2, <1>3
<1> HIDE DEF Past, Height
<1> QED BY <1>1, <1>4, <1>5, <1>6, <1>7 DEF Height

(* A licence once found expired past its grace is restricted for every     *)
(* evaluation that begins later, whatever the clock, the restarts and the  *)
(* evaluations and activations beside it do; and a verdict never gets      *)
(* better by time alone (GetLicenseStatusUseCase.execute, evaluateLicense).*)
THEOREM LapsedStaysRestricted == LicensingSpec => []VerdictsAreSound
<1>1. LicensingIInv => VerdictsAreSound
    <2> SUFFICES ASSUME LicensingIInv PROVE LapsedStaysLapsed
        BY LadderClimbs DEF VerdictsAreSound
    <2> SUFFICES ASSUME NEW p \in Places, JobAt(p, "window"),
                        jobs[p].licence \in jobs[p].lapsed
                 PROVE  Restricts(jobs[p].verdict)
        BY DEF LapsedStaysLapsed
    <2> QED BY DEF JobAt, LicensingIInv, JobOK
<1> QED BY <1>1, LicensingInvariance, PTL

(* A store never has two active licences, and once it has one it is never  *)
(* without: overlapping activations, failures and restarts in the midst of *)
(* the transaction included (PostgresLicenseRepository.activate).          *)
THEOREM OneLicenceAtATime == LicensingSpec => OneLicenceStays
<1> DEFINE Keeps == active # {} => active' # {}
<1>1. LicensingIInv => LicensingTypeOK /\ OneActiveLicence
    BY DEF LicensingIInv
<1>2. LicensingIInv /\ [LicensingNext]_licensingVars => [Keeps]_licensingVars
    <2> SUFFICES ASSUME LicensingIInv, LicensingNext PROVE Keeps
        OBVIOUS
    <2>1. ASSUME NEW p \in Places, Work(p) PROVE Keeps
        <3>1. CASE InsertAndCommit(p)
            BY <3>1 DEF InsertAndCommit
        <3>2. CASE Deactivate(p)
            BY <3>2 DEF Deactivate, RowsAfterUpdate
        <3> QED BY <2>1, <3>1, <3>2
                DEF Work, ReadInstallation, Touch, ReadLicence, ReadHost, FinishEvaluation, Redeem
    <2>2. ASSUME NEW p \in Places, StartRefresh(p) \/ StartActivation(p) \/ Fail(p)
          PROVE  Keeps
        BY <2>2 DEF StartRefresh, StartActivation, Fail
    <2>3. Restart \/ ChangeOutside => Keeps
        BY DEF Restart, ChangeOutside
    <2> QED BY <2>1, <2>2, <2>3 DEF LicensingNext
<1> HIDE DEF Keeps
<1>3. LicensingSpec => [][Keeps]_licensingVars
    BY <1>2, LicensingInvariance, PTL DEF LicensingSpec
<1>4. [][Keeps]_licensingVars => NeverWithoutLicence
    BY PTL DEF Keeps, NeverWithoutLicence
<1> QED BY <1>1, <1>3, <1>4, LicensingInvariance, PTL DEF OneLicenceStays

(* The same of the services side by side.                                  *)
THEOREM ServicesStaySound ==
    ServicesSpec => /\ [](IdentityIsConsistent /\ RevokedNeverAdmitted /\ VerdictsAreSound)
                    /\ OneLicenceStays
<1>1. ServicesInit => IdentityInit /\ LicensingInit
    BY DEF ServicesInit
<1>2. [ServicesNext]_servicesVars => [IdentityNext]_identityVars
    BY DEF ServicesNext, servicesVars
<1>3. [ServicesNext]_servicesVars => [LicensingNext]_licensingVars
    BY DEF ServicesNext, servicesVars
<1>4. ServicesSpec => IdentitySpec /\ LicensingSpec
    BY <1>1, <1>2, <1>3, PTL DEF ServicesSpec, IdentitySpec, LicensingSpec
<1> QED BY <1>4, TablesStayConsistent, RevokedStaysOut, LapsedStaysRestricted,
           OneLicenceAtATime, PTL
=================================================================================
