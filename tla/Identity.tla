------------------------------- MODULE Identity -------------------------------
(***************************************************************************)
(* Users and sessions of the core API over PostgreSQL: the guards and the  *)
(* use cases of /api/auth and /api/users, for requests that interleave at  *)
(* every await.  A statement outside a transaction commits at once; the    *)
(* deletion of a user is a READ COMMITTED transaction, whose effects are   *)
(* seen by others at its last step and whose count sees what is committed. *)
(***************************************************************************)
EXTENDS Integers, FiniteSets

CONSTANTS
    Requests,           \* places for requests that are served at once
    Usernames, Passwords,
    Nobody,             \* no request, no row, no token
    SessionTtl,         \* DEFAULT_SESSION_TTL_MS
    MaxClock,           \* bound: latest time
    MaxUserId,          \* bound: users ever created
    MaxToken,           \* bound: tokens ever minted
    MaxRequests         \* bound: requests sent

ASSUME IdentityAssumption ==
    /\ SessionTtl \in Nat /\ MaxClock \in Nat
    /\ MaxUserId \in Nat /\ MaxToken \in Nat /\ MaxRequests \in Nat
    /\ Nobody \notin Nat \cup Usernames \cup Passwords

VARIABLES
    users,              \* table users: row or Nobody, by id
    sessions,           \* table sessions
    lastUserId, lastToken, \* the last id and the last token minted
    setupDone,          \* isInitialSetupCompleted
    seeded,             \* the wizard's setup-admin has been answered
    authClock,          \* Date.now()
    served,             \* requests served, by place
    sent,               \* requests sent
    overlapped          \* history: two deletions were open at once

identityVars == <<users, sessions, lastUserId, lastToken, setupDone, seeded, authClock, served, sent,
                  overlapped>>

UserIds == 1 .. MaxUserId
Tokens == 1 .. MaxToken
Role == {"admin", "caller-staff"}

UserRow == [username : Usernames, password : Passwords, role : Role]
Session == [token : Tokens, user : UserIds, expiresAt : Nat]

(* What a request carries; a field an operation does not use is Nobody.    *)
Call ==
    [op : {"login"}, username : Usernames, password : Passwords]
        \cup [op : {"setup"}, username : Usernames, password : Passwords]
        \cup [op : {"logout"}, token : Tokens]
        \cup [op : {"create"}, token : Tokens, username : Usernames, role : Role]
        \cup [op : {"delete"}, token : Tokens, target : UserIds]

Stages == {"session", "principal", "find", "verify", "status", "save", "count", "remove", "end"}

(* late: the token was no longer valid when the request arrived.           *)
Served == [call : Call, at : Stages, id : UserIds \cup {Nobody}, row : UserRow \cup {Nobody},
           late : BOOLEAN]

ASSUME RowsAssumption == Nobody \notin UserRow

-----------------------------------------------------------------------------
Exists(id) == users[id] # Nobody
Named(name) == {id \in UserIds : Exists(id) /\ users[id].username = name}
Admins == {id \in UserIds : Exists(id) /\ users[id].role = "admin"}
Active(t) == {s \in sessions : s.token = t /\ s.expiresAt > authClock}
Valid(t) == \E s \in Active(t) : Exists(s.user)

Guarded(call) == call.op \in {"logout", "create", "delete"}
OpenDeletions == {r \in Requests : served[r] # Nobody /\ served[r].at = "remove"}

At(r, op, stage) == served[r] # Nobody /\ served[r].call.op = op /\ served[r].at = stage
Go(r, stage) == served' = [served EXCEPT ![r].at = stage]
Answer(r) == served' = [served EXCEPT ![r] = Nobody]

(* A request arrives: the guarded ones at AuthGuard.                       *)
FirstStage(call) ==
    IF Guarded(call) THEN "session" ELSE IF call.op = "setup" THEN "status" ELSE "find"

Arrive(r, call) ==
    /\ served[r] = Nobody /\ sent < MaxRequests
    /\ Guarded(call) => call.token <= lastToken
    /\ served' = [served EXCEPT ![r] =
           [call |-> call, at |-> FirstStage(call), id |-> Nobody, row |-> Nobody,
            late |-> Guarded(call) /\ ~Valid(call.token)]]
    /\ sent' = sent + 1
    /\ UNCHANGED <<users, sessions, lastUserId, lastToken, setupDone, seeded, authClock, overlapped>>

(* GetSessionUserUseCase: first the session, then its user.  (Mutant: the  *)
(* expiry is not part of the query.)                                       *)
FindAnySession(t) == {s \in sessions : s.token = t}

FindActiveByTokenHash(t) == Active(t)

FindSession(r) ==
    /\ served[r] # Nobody /\ served[r].at = "session"
    /\ \/ \E s \in FindActiveByTokenHash(served[r].call.token) :
             served' = [served EXCEPT ![r].at = "principal", ![r].id = s.user]
       \/ FindActiveByTokenHash(served[r].call.token) = {} /\ Answer(r)
    /\ UNCHANGED <<users, sessions, lastUserId, lastToken, setupDone, seeded, authClock, sent, overlapped>>

(* RolesGuard admits administrators only to /api/users.                    *)
Permitted(call, id) == call.op = "logout" \/ id \in Admins

FindPrincipal(r) ==
    /\ served[r] # Nobody /\ served[r].at = "principal"
    /\ IF Exists(served[r].id) /\ Permitted(served[r].call, served[r].id)
       THEN Go(r, IF served[r].call.op = "logout" THEN "end" ELSE "find")
       ELSE Answer(r)
    /\ UNCHANGED <<users, sessions, lastUserId, lastToken, setupDone, seeded, authClock, sent, overlapped>>

(* LogoutUseCase.                                                          *)
Logout(r) ==
    /\ At(r, "logout", "end")
    /\ sessions' = {s \in sessions : s.token # served[r].call.token}
    /\ Answer(r)
    /\ UNCHANGED <<users, lastUserId, lastToken, setupDone, seeded, authClock, sent, overlapped>>

-----------------------------------------------------------------------------
(* LoginUseCase: an unknown name is answered after a dummy verification.   *)
LoginFind(r) ==
    /\ At(r, "login", "find")
    /\ \/ \E id \in Named(served[r].call.username) :
             served' = [served EXCEPT ![r].at = "verify", ![r].id = id, ![r].row = users[id]]
       \/ Named(served[r].call.username) = {} /\ Answer(r)
    /\ UNCHANGED <<users, sessions, lastUserId, lastToken, setupDone, seeded, authClock, sent, overlapped>>

(* The password is compared with the row read before; the foreign key      *)
(* refuses the session of a user deleted since.  (Mutant: no foreign key.) *)
NoForeignKey(id) == TRUE

ForeignKey(id) == Exists(id)

LoginVerify(r) ==
    /\ At(r, "login", "verify")
    /\ IF /\ served[r].row.password = served[r].call.password
          /\ ForeignKey(served[r].id)
       THEN /\ lastToken < MaxToken
            /\ lastToken' = lastToken + 1
            /\ sessions' = sessions \cup
                   {[token |-> lastToken + 1, user |-> served[r].id,
                     expiresAt |-> authClock + SessionTtl]}
       ELSE UNCHANGED <<sessions, lastToken>>
    /\ Answer(r)
    /\ UNCHANGED <<users, lastUserId, setupDone, seeded, authClock, sent, overlapped>>

-----------------------------------------------------------------------------
(* PostgresUserRepository.save: upsert by id, unless another row has the   *)
(* name.  (Mutant: no UNIQUE constraint.)                                  *)
AnyName(id, name) == TRUE

UniqueName(id, name) == Named(name) \subseteq {id}

Save(id, row) ==
    IF UniqueName(id, row.username) THEN users' = [users EXCEPT ![id] = row] ELSE UNCHANGED users

(* CreateUserUseCase: a taken name is refused before the hashing.          *)
CreateFind(r) ==
    /\ At(r, "create", "find")
    /\ IF Named(served[r].call.username) # {} THEN Answer(r) ELSE Go(r, "save")
    /\ UNCHANGED <<users, sessions, lastUserId, lastToken, setupDone, seeded, authClock, sent, overlapped>>

CreateSave(r) ==
    /\ At(r, "create", "save") /\ lastUserId < MaxUserId
    /\ lastUserId' = lastUserId + 1
    /\ \E password \in Passwords :
           Save(lastUserId + 1, [username |-> served[r].call.username, password |-> password,
                             role |-> served[r].call.role])
    /\ Answer(r)
    /\ UNCHANGED <<sessions, lastToken, setupDone, seeded, authClock, sent, overlapped>>

(* AuthController.setupAdmin and SetupInitialAdminUseCase.                 *)
SetupStatus(r) ==
    /\ At(r, "setup", "status")
    /\ IF setupDone THEN Answer(r) ELSE Go(r, "find")
    /\ UNCHANGED <<users, sessions, lastUserId, lastToken, setupDone, seeded, authClock, sent, overlapped>>

SetupFind(r) ==
    /\ At(r, "setup", "find")
    /\ \/ \E id \in Named(served[r].call.username) :
             served' = [served EXCEPT ![r].at = "save", ![r].id = id,
                            ![r].row = [users[id] EXCEPT !.password = served[r].call.password]]
       \/ Named(served[r].call.username) = {} /\ Go(r, "save")
    /\ UNCHANGED <<users, sessions, lastUserId, lastToken, setupDone, seeded, authClock, sent, overlapped>>

(* (Mutant: without a role.)                                               *)
NewAccount(call) == [username |-> call.username, password |-> call.password]

NewAdmin(call) == [username |-> call.username, password |-> call.password, role |-> "admin"]

SetupSave(r) ==
    /\ At(r, "setup", "save")
    /\ IF served[r].id # Nobody
       THEN Save(served[r].id, served[r].row) /\ UNCHANGED lastUserId
       ELSE /\ lastUserId < MaxUserId
            /\ lastUserId' = lastUserId + 1
            /\ Save(lastUserId + 1, NewAdmin(served[r].call))
    /\ \E id \in {served[r].id, lastUserId + 1} \ {Nobody} :
           /\ served[r].id \in {id, Nobody}
           /\ seeded' = (seeded \/ UniqueName(id, served[r].call.username))
    /\ Answer(r)
    /\ UNCHANGED <<sessions, lastToken, setupDone, authClock, sent, overlapped>>

(* The wizard saves the first configuration once setup-admin has answered. *)
CompleteSetup ==
    /\ seeded /\ ~setupDone
    /\ setupDone' = TRUE
    /\ UNCHANGED <<users, sessions, lastUserId, lastToken, seeded, authClock, served, sent, overlapped>>

-----------------------------------------------------------------------------
(* DeleteUserUseCase: not oneself; the target is read before the           *)
(* transaction, which counts the administrators and then deletes.          *)
DeleteFind(r) ==
    /\ At(r, "delete", "find")
    /\ LET target == served[r].call.target IN
           IF target = served[r].id \/ ~Exists(target)
           THEN Answer(r)
           ELSE served' = [served EXCEPT ![r].at = "count", ![r].row = users[target]]
    /\ UNCHANGED <<users, sessions, lastUserId, lastToken, setupDone, seeded, authClock, sent, overlapped>>

(* (Mutant: the last administrator may be deleted.)                        *)
MayDeleteLast(row) == row.role = "admin" => Cardinality(Admins) >= 1

MayDelete(row) == row.role = "admin" => Cardinality(Admins) > 1

DeleteCount(r) ==
    /\ At(r, "delete", "count")
    /\ IF MayDelete(served[r].row) THEN Go(r, "remove") ELSE Answer(r)
    /\ overlapped' = (overlapped \/ (MayDelete(served[r].row) /\ OpenDeletions # {}))
    /\ UNCHANGED <<users, sessions, lastUserId, lastToken, setupDone, seeded, authClock, sent>>

(* (Mutant: the sessions stay.)                                            *)
SessionsLeft(id) == sessions

SessionsWithout(id) == {s \in sessions : s.user # id}

DeleteCommit(r) ==
    /\ At(r, "delete", "remove")
    /\ users' = [users EXCEPT ![served[r].call.target] = Nobody]
    /\ sessions' = SessionsWithout(served[r].call.target)
    /\ Answer(r)
    /\ UNCHANGED <<lastUserId, lastToken, setupDone, seeded, authClock, sent, overlapped>>

Pass ==
    /\ authClock < MaxClock
    /\ authClock' = authClock + 1
    /\ UNCHANGED <<users, sessions, lastUserId, lastToken, setupDone, seeded, served, sent, overlapped>>

-----------------------------------------------------------------------------
(* A store where nobody has signed up yet, or one set up by a first        *)
(* administrator who has created a second; both are signed in.             *)
NewStore ==
    /\ users = [id \in UserIds |-> Nobody] /\ sessions = {}
    /\ lastUserId = 0 /\ lastToken = 0
    /\ setupDone = FALSE /\ seeded = FALSE

StoreOfTwo ==
    /\ \E name \in [1 .. 2 -> Usernames], password \in Passwords :
           /\ name[1] # name[2]
           /\ users = [id \in UserIds |->
                  IF id > 2 THEN Nobody
                  ELSE [username |-> name[id], password |-> password, role |-> "admin"]]
    /\ sessions = [token : {1}, user : {1}, expiresAt : {SessionTtl}]
                      \cup [token : {2}, user : {2}, expiresAt : {SessionTtl}]
    /\ lastUserId = 2 /\ lastToken = 2
    /\ setupDone = TRUE /\ seeded = TRUE

IdentityInit ==
    /\ NewStore \/ (MaxUserId >= 2 /\ MaxToken >= 2 /\ StoreOfTwo)
    /\ authClock = 0 /\ sent = 0 /\ overlapped = FALSE
    /\ served = [r \in Requests |-> Nobody]

Serve(r) ==
    \/ FindSession(r) \/ FindPrincipal(r) \/ Logout(r)
    \/ LoginFind(r) \/ LoginVerify(r)
    \/ CreateFind(r) \/ CreateSave(r)
    \/ SetupStatus(r) \/ SetupFind(r) \/ SetupSave(r)
    \/ DeleteFind(r) \/ DeleteCount(r) \/ DeleteCommit(r)

IdentityNext ==
    \/ \E r \in Requests : Serve(r) \/ \E call \in Call : Arrive(r, call)
    \/ CompleteSetup
    \/ Pass

IdentitySpec == IdentityInit /\ [][IdentityNext]_identityVars

-----------------------------------------------------------------------------
(* Type invariant; the ids and tokens in use have been minted.             *)
IdentityTypeOK ==
    /\ users \in [UserIds -> UserRow \cup {Nobody}]
    /\ sessions \subseteq Session
    /\ lastUserId \in 0 .. MaxUserId /\ lastToken \in 0 .. MaxToken
    /\ \A id \in UserIds : Exists(id) => id <= lastUserId
    /\ \A s \in sessions : s.token <= lastToken
    /\ setupDone \in BOOLEAN /\ seeded \in BOOLEAN /\ overlapped \in BOOLEAN
    /\ authClock \in 0 .. MaxClock /\ sent \in 0 .. MaxRequests
    /\ served \in [Requests -> Served \cup {Nobody}]

(* No request gets past the guard with a token that had been logged out,   *)
(* had expired or whose user had been deleted when it arrived, whatever    *)
(* happens between the two reads of the guard (GetSessionUserUseCase).     *)
RevokedNeverAdmitted ==
    \A r \in Requests :
        served[r] # Nobody /\ Guarded(served[r].call) /\ served[r].late
            => served[r].at = "session"

(* Every session has its user, also when the user is deleted while the     *)
(* password of a login is being verified (LoginUseCase, DeleteUserUseCase).*)
SessionsHaveUsers == \A s \in sessions : Exists(s.user)

(* Of two requests that both found a name free only one gets it            *)
(* (CreateUserUseCase, SetupInitialAdminUseCase).                          *)
OneUserPerName == \A id \in UserIds : Exists(id) => Named(users[id].username) = {id}

(* Once setup is complete an administrator is left: deletions that do not  *)
(* overlap never remove the last one (DeleteUserUseCase).                  *)
AnAdminRemainsWithoutOverlap == setupDone /\ ~overlapped => Admins # {}

(* The tables never fall apart: no session without its user and no two     *)
(* users of one name, whatever overlaps, and an administrator as long as   *)
(* no two deletions do.                                                    *)
IdentityIsConsistent ==
    IdentityTypeOK /\ SessionsHaveUsers /\ OneUserPerName /\ AnAdminRemainsWithoutOverlap

(* What the use case promises of concurrent deletions too.                 *)
AnAdminRemains == setupDone => Admins # {}
===============================================================================
