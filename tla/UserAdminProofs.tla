-------------------------- MODULE UserAdminProofs --------------------------
(***************************************************************************)
(* Proofs about UserAdmin, for any tenants, users, tokens and requests.    *)
(***************************************************************************)
EXTENDS UserAdmin, TLAPS

Known == users \cup deleted

\* A token is its user's and of the tenant that user is, or was, in.
TokenOfUser(t) ==
  token[t].role \in Roles =>
    /\ token[t].user \in Known
    /\ token[t].tenant = home[token[t].user]

\* What is about to be signed is as well.
SignsForUser(r) ==
  request[r].pc = "sign" =>
    /\ request[r].user \in Known
    /\ request[r].role \in Roles
    /\ request[r].tenant = home[request[r].user]

\* Who passed the access check showed a token that allows it.
ShowedToken(r) ==
  request[r].pc \in {"admin", "update", "delete"} =>
    LET t == request[r].token
    IN /\ t \in Tokens
       /\ token[t].role = "admin"
       /\ token[t].tenant \in {request[r].tenant, Platform}

\* What is about to be written is the role asked for, or the role there is.
WritesRole(r) ==
  LET u == request[r].user
      want == request[r].want
  IN request[r].pc = "update" =>
       /\ u \in Known /\ home[u] = request[r].tenant
       /\ request[r].role \in Roles
       /\ want # None => request[r].role = want
       /\ want = None => request[r].role = role[u] \/ u \in crossed

Administered ==
  /\ TypeOK
  /\ RoleIsAsAsked
  /\ \A t \in Tokens : TokenOfUser(t)
  /\ \A r \in Requests :
       SignsForUser(r) /\ ShowedToken(r) /\ WritesRole(r)
-----------------------------------------------------------------------------
(***************************************************************************)
(* The invariant holds at first, and each action keeps it.                 *)
(***************************************************************************)
LEMMA InitAdministered == Init => Administered
<1> SUFFICES ASSUME Init PROVE Administered
  OBVIOUS
<1> USE DEF Init, Idle
<1>1. TypeOK
  BY AdminAssumption DEF TypeOK, NoToken, Roles
<1>2. RoleIsAsAsked
  BY DEF RoleIsAsAsked
<1>3. \A t \in Tokens : TokenOfUser(t)
  BY AdminAssumption DEF TokenOfUser, NoToken, Roles
<1>4. \A r \in Requests :
        SignsForUser(r) /\ ShowedToken(r) /\ WritesRole(r)
  BY DEF SignsForUser, ShowedToken, WritesRole
<1> QED BY <1>1, <1>2, <1>3, <1>4 DEF Administered

\* A request that ends leaves nothing to say of it.
LEMMA IdleRequest ==
  ASSUME Administered, NEW r \in Requests, request' = [request EXCEPT ![r] = Idle],
         UNCHANGED <<rows, tokens, observers>>
  PROVE  Administered'
<1> USE DEF rows, tokens, observers, Idle
<1>1. TypeOK'
  BY DEF Administered, TypeOK
<1>2. RoleIsAsAsked'
  BY DEF Administered, RoleIsAsAsked
<1>3. \A t \in Tokens : TokenOfUser(t)'
  BY DEF Administered, TokenOfUser, Known
<1>4. ASSUME NEW q \in Requests
      PROVE  (SignsForUser(q) /\ ShowedToken(q) /\ WritesRole(q))'
  BY DEF Administered, TypeOK, SignsForUser, ShowedToken, WritesRole, Known
<1> QED BY <1>1, <1>2, <1>3, <1>4 DEF Administered

\* A new row is nobody's that a token or a request speaks of.
LEMMA InsertAdministered ==
  ASSUME Administered, NEW u \in Users, NEW x \in Tenants, NEW y \in Roles,
         Fresh(u), InsertUser(u, x, y), seed' \in users' \cup {None},
         UNCHANGED <<tokens, crossed>>,
         request' = request \/ request' = [r \in Requests |-> Idle]
  PROVE  Administered'
<1> USE DEF Idle, tokens
<1>1. /\ u \notin Known /\ Known' = Known \cup {u}
      /\ \A v \in Known : home'[v] = home[v] /\ role'[v] = role[v] /\ v # u
  BY DEF Fresh, InsertUser, Known, Administered, TypeOK
<1>2. TypeOK'
  BY DEF Administered, TypeOK, Fresh, InsertUser, Roles
<1>3. RoleIsAsAsked'
  BY DEF Administered, TypeOK, RoleIsAsAsked, Fresh, InsertUser
<1>4. \A t \in Tokens : TokenOfUser(t)'
  BY <1>1 DEF Administered, TypeOK, TokenOfUser
<1>5. ASSUME NEW r \in Requests, request'[r] = request[r]
      PROVE  (SignsForUser(r) /\ ShowedToken(r) /\ WritesRole(r))'
  <2>1. SignsForUser(r)'
    BY <1>1, <1>5 DEF Administered, SignsForUser
  <2>2. ShowedToken(r)'
    BY <1>5 DEF Administered, ShowedToken
  <2>3. WritesRole(r)'
    BY <1>1, <1>5 DEF Administered, WritesRole
  <2> QED BY <2>1, <2>2, <2>3
<1>6. ASSUME NEW r \in Requests, request'[r] = Idle
      PROVE  (SignsForUser(r) /\ ShowedToken(r) /\ WritesRole(r))'
  BY <1>6 DEF SignsForUser, ShowedToken, WritesRole
<1> QED BY <1>2, <1>3, <1>4, <1>5, <1>6 DEF Administered

LEMMA RegisterAdministered ==
  ASSUME Administered, NEW u \in Users, NEW x \in Tenants, Register(u, x)
  PROVE  Administered'
<1>1. seed' \in users' \cup {None}
  BY DEF Register, InsertUser, Administered, TypeOK
<1> QED BY <1>1, InsertAdministered DEF Register, Roles

LEMMA RestartAdministered ==
  ASSUME Administered, Restart
  PROVE  Administered'
<1>1. CASE seed \in users
  <2> USE DEF Idle, tokens
  <2>1. /\ seed \in Users
        /\ role' = [role EXCEPT ![seed] = "admin"]
        /\ asked' = [asked EXCEPT ![seed] = "admin"]
        /\ request' = [r \in Requests |-> Idle]
        /\ UNCHANGED <<users, deleted, home, seed, tokens, crossed>>
    BY <1>1 DEF Restart, Administered, TypeOK
  <2>2. TypeOK'
    BY <2>1 DEF Administered, TypeOK, Roles
  <2>3. RoleIsAsAsked'
    BY <2>1 DEF Administered, TypeOK, RoleIsAsAsked
  <2>4. \A t \in Tokens : TokenOfUser(t)'
    BY <2>1 DEF Administered, TokenOfUser, Known
  <2>5. ASSUME NEW r \in Requests
        PROVE  (SignsForUser(r) /\ ShowedToken(r) /\ WritesRole(r))'
    BY <2>1 DEF SignsForUser, ShowedToken, WritesRole
  <2> QED BY <2>2, <2>3, <2>4, <2>5 DEF Administered
<1>2. CASE seed \notin users
  <2>1. PICK u \in Users : Fresh(u) /\ InsertUser(u, Platform, "admin") /\ seed' = u
    BY <1>2 DEF Restart
  <2>2. seed' \in users' \cup {None}
    BY <2>1 DEF InsertUser
  <2> QED BY <2>1, <2>2, InsertAdministered, AdminAssumption DEF Restart, Roles
<1> QED BY <1>1, <1>2

\* A step that changes nothing but the locals of one request keeps the
\* invariant when it keeps what the invariant says of that request.
LEMMA LocalStep ==
  ASSUME Administered, NEW r \in Requests, NEW locals,
         request' = [request EXCEPT ![r] = locals],
         locals \in [pc : {"idle", "sign", "admin", "update", "delete"},
                     token : Tokens \cup {None}, tenant : Tenants \cup {None},
                     user : Users \cup {None}, role : Roles \cup {None},
                     want : Roles \cup {None}],
         UNCHANGED <<rows, tokens, observers>>,
         (SignsForUser(r) /\ ShowedToken(r) /\ WritesRole(r))'
  PROVE  Administered'
<1> USE DEF rows, tokens, observers
<1>1. TypeOK'
  BY DEF Administered, TypeOK
<1>2. RoleIsAsAsked' /\ \A s \in Tokens : TokenOfUser(s)'
  BY DEF Administered, RoleIsAsAsked, TokenOfUser, Known
<1>3. ASSUME NEW q \in Requests, q # r
      PROVE  (SignsForUser(q) /\ ShowedToken(q) /\ WritesRole(q))'
  BY <1>3 DEF Administered, TypeOK, SignsForUser, ShowedToken, WritesRole, Known
<1> QED BY <1>1, <1>2, <1>3 DEF Administered

\* Who reads a row signs for the user in it.
LEMMA ReadUserAdministered ==
  ASSUME Administered, NEW r \in Requests, NEW u \in Users, ReadUser(r, u)
  PROVE  Administered'
<1> DEFINE locals == [Idle EXCEPT !.pc = "sign", !.user = u, !.tenant = home[u],
                        !.role = RoleOf(u)]
<1>1. /\ u \in users /\ role[u] \in Roles /\ home[u] \in Tenants
      /\ request' = [request EXCEPT ![r] = locals]
      /\ UNCHANGED <<rows, tokens, observers>>
  BY DEF ReadUser, Administered, TypeOK
<1>2. locals \in [pc : {"idle", "sign", "admin", "update", "delete"},
                  token : Tokens \cup {None}, tenant : Tenants \cup {None},
                  user : Users \cup {None}, role : Roles \cup {None},
                  want : Roles \cup {None}]
  BY <1>1 DEF Idle, RoleOf
<1>3. /\ locals.pc = "sign" /\ locals.user = u /\ locals.tenant = home[u]
      /\ locals.role = role[u]
  BY DEF Idle, RoleOf
<1>4. request'[r] = locals
  BY <1>1 DEF Administered, TypeOK
<1> HIDE DEF locals
<1>5. (SignsForUser(r) /\ ShowedToken(r) /\ WritesRole(r))'
  BY <1>1, <1>3, <1>4
     DEF SignsForUser, ShowedToken, WritesRole, Known, rows
<1> QED BY <1>1, <1>2, <1>5, LocalStep

\* A signature adds a token and leaves alone those that were shown.
LEMMA SignAdministered ==
  ASSUME Administered, NEW t \in Tokens, NEW claims, SignToken(t, claims),
         claims \in [user : Users \cup {None}, tenant : Tenants \cup {None},
                     role : Roles \cup {"service", None}],
         claims.role \in Roles =>
           claims.user \in Known /\ claims.tenant = home[claims.user],
         UNCHANGED <<rows, observers>>,
         request' = request
           \/ \E r \in Requests : request' = [request EXCEPT ![r] = Idle]
  PROVE  Administered'
<1> USE DEF rows, tokens, observers, Idle
<1>1. TypeOK'
  BY DEF Administered, TypeOK, SignToken
<1>2. RoleIsAsAsked'
  BY DEF Administered, RoleIsAsAsked
<1>3. \A s \in Tokens : TokenOfUser(s)'
  BY DEF Administered, TypeOK, TokenOfUser, SignToken, Known
<1>4. ASSUME NEW r \in Requests, request'[r] = request[r]
      PROVE  (SignsForUser(r) /\ ShowedToken(r) /\ WritesRole(r))'
  <2>1. SignsForUser(r)' /\ WritesRole(r)'
    BY <1>4 DEF Administered, SignsForUser, WritesRole, Known
  <2>2. request[r].pc \in {"admin", "update", "delete"} =>
          /\ token'[request[r].token] = token[request[r].token]
          /\ request[r].token \in valid' => request[r].token \in valid
    BY AdminAssumption
       DEF Administered, TypeOK, ShowedToken, SignToken, NoToken, Roles
  <2>3. ShowedToken(r)'
    BY <1>4, <2>2 DEF Administered, ShowedToken
  <2> QED BY <2>1, <2>3
<1>5. ASSUME NEW r \in Requests, request'[r] = Idle
      PROVE  (SignsForUser(r) /\ ShowedToken(r) /\ WritesRole(r))'
  BY <1>5 DEF SignsForUser, ShowedToken, WritesRole
<1>6. \A r \in Requests : request'[r] \in {request[r], Idle}
  BY DEF Administered, TypeOK
<1> QED BY <1>1, <1>2, <1>3, <1>4, <1>5, <1>6 DEF Administered

LEMMA CreateAccessTokenAdministered ==
  ASSUME Administered, NEW r \in Requests, NEW t \in Tokens,
         CreateAccessToken(r, t)
  PROVE  Administered'
<1> DEFINE claims == [user |-> request[r].user, tenant |-> request[r].tenant,
                      role |-> request[r].role]
<1>1. /\ claims \in [user : Users \cup {None}, tenant : Tenants \cup {None},
                     role : Roles \cup {"service", None}]
      /\ claims.user \in Known /\ claims.tenant = home[claims.user]
  BY DEF CreateAccessToken, Administered, TypeOK, SignsForUser
<1>2. /\ SignToken(t, claims) /\ request' = [request EXCEPT ![r] = Idle]
      /\ UNCHANGED <<rows, observers>>
  BY DEF CreateAccessToken, Answer
<1> HIDE DEF claims
<1> QED BY <1>1, <1>2, SignAdministered

LEMMA CreateServiceTokenAdministered ==
  ASSUME Administered, NEW t \in Tokens, NEW x \in Tenants,
         CreateServiceToken(t, x)
  PROVE  Administered'
<1> DEFINE claims == [user |-> None, tenant |-> x, role |-> "service"]
<1>1. /\ claims \in [user : Users \cup {None}, tenant : Tenants \cup {None},
                     role : Roles \cup {"service", None}]
      /\ claims.role \notin Roles
  BY DEF Roles
<1>2. /\ SignToken(t, claims) /\ request' = request
      /\ UNCHANGED <<rows, observers>>
  BY DEF CreateServiceToken
<1> HIDE DEF claims
<1> QED BY <1>1, <1>2, SignAdministered

LEMMA TokenExpiresAdministered ==
  ASSUME Administered, NEW t \in Tokens, TokenExpires(t)
  PROVE  Administered'
<1> USE DEF TokenExpires, rows, tokens, observers
<1>1. TypeOK'
  BY DEF Administered, TypeOK
<1>2. RoleIsAsAsked' /\ \A s \in Tokens : TokenOfUser(s)'
  BY DEF Administered, RoleIsAsAsked, TokenOfUser, Known
<1>3. \A r \in Requests :
        (SignsForUser(r) /\ ShowedToken(r) /\ WritesRole(r))'
  BY DEF Administered, SignsForUser, ShowedToken, WritesRole, Known
<1> QED BY <1>1, <1>2, <1>3 DEF Administered

LEMMA ServiceReplacedAdministered ==
  ASSUME Administered, NEW x \in Tenants, ServiceReplaced(x)
  PROVE  Administered'
<1> USE DEF rows, observers
<1>1. refused' \subseteq valid /\ UNCHANGED <<rows, token, valid, request, observers>>
  BY DEF ServiceReplaced, Administered, TypeOK
<1>2. TypeOK'
  BY <1>1 DEF Administered, TypeOK
<1>3. RoleIsAsAsked' /\ \A s \in Tokens : TokenOfUser(s)'
  BY <1>1 DEF Administered, RoleIsAsAsked, TokenOfUser, Known
<1>4. \A r \in Requests : (SignsForUser(r) /\ ShowedToken(r) /\ WritesRole(r))'
  BY <1>1 DEF Administered, SignsForUser, ShowedToken, WritesRole, Known
<1> QED BY <1>2, <1>3, <1>4 DEF Administered

LEMMA RequireAdminAdministered ==
  ASSUME Administered, NEW r \in Requests, NEW t \in Tokens, NEW x \in Tenants,
         RequireAdmin(r, t, x)
  PROVE  Administered'
<1> DEFINE locals == [Idle EXCEPT !.pc = "admin", !.token = t, !.tenant = x]
<1>1. /\ request' = [request EXCEPT ![r] = locals]
      /\ UNCHANGED <<rows, tokens, observers>>
      /\ token[t].role = "admin" /\ token[t].tenant \in {x, Platform}
  BY DEF RequireAdmin, OfTenant
<1>2. locals \in [pc : {"idle", "sign", "admin", "update", "delete"},
                  token : Tokens \cup {None}, tenant : Tenants \cup {None},
                  user : Users \cup {None}, role : Roles \cup {None},
                  want : Roles \cup {None}]
  BY DEF Idle
<1>3. locals.pc = "admin" /\ locals.token = t /\ locals.tenant = x
  BY DEF Idle
<1>4. request'[r] = locals
  BY <1>1 DEF Administered, TypeOK
<1> HIDE DEF locals
<1>5. (SignsForUser(r) /\ ShowedToken(r) /\ WritesRole(r))'
  BY <1>1, <1>3, <1>4 DEF SignsForUser, ShowedToken, WritesRole, tokens
<1> QED BY <1>1, <1>2, <1>5, LocalStep

LEMMA GetUserByIDAdministered ==
  ASSUME Administered, NEW r \in Requests, NEW u \in Users,
         NEW want \in Roles \cup {None}, GetUserByID(r, u, want)
  PROVE  Administered'
<1> DEFINE locals == [request[r] EXCEPT !.pc = "update", !.user = u,
                        !.role = RoleToWrite(u, want), !.want = want]
<1>1. /\ request[r].pc = "admin" /\ u \in users /\ home[u] = request[r].tenant
      /\ UNCHANGED <<rows, tokens, observers>>
      /\ role[u] \in Roles
  BY DEF GetUserByID, InTenant, Administered, TypeOK
<1>2. request' = [request EXCEPT ![r] = locals]
  BY DEF GetUserByID, Administered, TypeOK
<1>3. locals \in [pc : {"idle", "sign", "admin", "update", "delete"},
                  token : Tokens \cup {None}, tenant : Tenants \cup {None},
                  user : Users \cup {None}, role : Roles \cup {None},
                  want : Roles \cup {None}]
  <2>1. RoleToWrite(u, want) \in Roles \cup {None}
    BY <1>1 DEF RoleToWrite
  <2>2. request[r] \in [pc : {"idle", "sign", "admin", "update", "delete"},
                       token : Tokens \cup {None}, tenant : Tenants \cup {None},
                       user : Users \cup {None}, role : Roles \cup {None},
                       want : Roles \cup {None}]
    BY DEF Administered, TypeOK
  <2> QED BY <2>1, <2>2
<1>4. /\ locals.pc = "update" /\ locals.user = u /\ locals.want = want
      /\ locals.role = RoleToWrite(u, want)
      /\ locals.token = request[r].token /\ locals.tenant = request[r].tenant
  BY DEF Administered, TypeOK
<1>5. request'[r] = locals
  BY <1>2 DEF Administered, TypeOK
<1> HIDE DEF locals
<1>6. ShowedToken(r)'
  BY <1>1, <1>4, <1>5 DEF Administered, ShowedToken, tokens
<1>7. WritesRole(r)'
  BY <1>1, <1>4, <1>5 DEF WritesRole, RoleToWrite, Known, rows, observers
<1>8. SignsForUser(r)'
  BY <1>4, <1>5 DEF SignsForUser
<1> QED BY <1>1, <1>2, <1>3, <1>6, <1>7, <1>8, LocalStep

LEMMA CheckNotSelfAdministered ==
  ASSUME Administered, NEW r \in Requests, NEW u \in Users, CheckNotSelf(r, u)
  PROVE  Administered'
<1> DEFINE locals == [request[r] EXCEPT !.pc = "delete", !.user = u]
<1>1. /\ request[r].pc = "admin"
      /\ UNCHANGED <<rows, tokens, observers>>
  BY DEF CheckNotSelf
<1>2. request' = [request EXCEPT ![r] = locals]
  BY DEF CheckNotSelf, Administered, TypeOK
<1>3. locals \in [pc : {"idle", "sign", "admin", "update", "delete"},
                  token : Tokens \cup {None}, tenant : Tenants \cup {None},
                  user : Users \cup {None}, role : Roles \cup {None},
                  want : Roles \cup {None}]
  BY DEF Administered, TypeOK
<1>4. /\ locals.pc = "delete" /\ locals.user = u
      /\ locals.token = request[r].token /\ locals.tenant = request[r].tenant
  BY DEF Administered, TypeOK
<1>5. request'[r] = locals
  BY <1>2 DEF Administered, TypeOK
<1> HIDE DEF locals
<1>6. ShowedToken(r)'
  BY <1>1, <1>4, <1>5 DEF Administered, ShowedToken, tokens
<1>7. SignsForUser(r)' /\ WritesRole(r)'
  BY <1>4, <1>5 DEF SignsForUser, WritesRole
<1> QED BY <1>1, <1>2, <1>3, <1>6, <1>7, LocalStep

LEMMA UpdateUserAdministered ==
  ASSUME Administered, NEW r \in Requests, UpdateUser(r)
  PROVE  Administered'
<1> DEFINE u == request[r].user
           want == request[r].want
           others == \E q \in Requests \ {r} :
                       request[q].pc = "update" /\ request[q].user = u
<1> USE DEF Idle, tokens
<1>1. /\ request[r].pc = "update" /\ u \in users
      /\ role' = [role EXCEPT ![u] = request[r].role]
      /\ asked' = IF want = None THEN asked ELSE [asked EXCEPT ![u] = want]
      /\ crossed' = IF others THEN crossed \cup {u}
                    ELSE IF want # None THEN crossed \ {u} ELSE crossed
      /\ request' = [request EXCEPT ![r] = Idle]
      /\ UNCHANGED <<users, deleted, home, seed, tokens>>
  BY DEF UpdateUser, Answer
<1>2. /\ u \in Users /\ request[r].role \in Roles /\ want \in Roles \cup {None}
      /\ want # None => request[r].role = want
      /\ want = None => request[r].role = role[u] \/ u \in crossed
  BY <1>1 DEF Administered, TypeOK, WritesRole
<1> HIDE DEF others
<1>3. TypeOK'
  BY <1>1, <1>2 DEF Administered, TypeOK
<1>4. RoleIsAsAsked'
  BY <1>1, <1>2 DEF Administered, TypeOK, RoleIsAsAsked
<1>5. \A t \in Tokens : TokenOfUser(t)'
  BY <1>1 DEF Administered, TokenOfUser, Known
<1>6. ASSUME NEW q \in Requests
      PROVE  (SignsForUser(q) /\ ShowedToken(q) /\ WritesRole(q))'
  <2>1. CASE q = r
    BY <1>1, <2>1
       DEF Administered, TypeOK, SignsForUser, ShowedToken, WritesRole
  <2>2. CASE q # r
    <3>1. request'[q] = request[q]
      BY <1>1, <2>2 DEF Administered, TypeOK
    <3>2. SignsForUser(q)' /\ ShowedToken(q)'
      BY <1>1, <3>1 DEF Administered, SignsForUser, ShowedToken, Known
    <3>3. WritesRole(q)'
      <4>1. CASE request[q].pc = "update" /\ request[q].user = u
        <5>1. others
          BY <2>2, <4>1 DEF others
        <5> QED BY <1>1, <3>1, <4>1, <5>1 DEF Administered, WritesRole, Known
      <4>2. CASE ~(request[q].pc = "update" /\ request[q].user = u)
        BY <1>1, <3>1, <4>2 DEF Administered, TypeOK, WritesRole, Known
      <4> QED BY <4>1, <4>2
    <3> QED BY <3>2, <3>3
  <2> QED BY <2>1, <2>2
<1> QED BY <1>3, <1>4, <1>5, <1>6 DEF Administered

LEMMA DeleteUserAdministered ==
  ASSUME Administered, NEW r \in Requests, DeleteUser(r)
  PROVE  Administered'
<1> USE DEF DeleteUser, Answer, Idle, observers, tokens
<1>1. TypeOK'
  BY DEF Administered, TypeOK, InTenant
<1>2. RoleIsAsAsked'
  BY DEF Administered, RoleIsAsAsked
<1>3. Known' = Known
  BY DEF Known, InTenant
<1>4. \A t \in Tokens : TokenOfUser(t)'
  BY <1>3 DEF Administered, TokenOfUser
<1>5. \A q \in Requests :
        (SignsForUser(q) /\ ShowedToken(q) /\ WritesRole(q))'
  BY <1>3 DEF Administered, TypeOK, SignsForUser, ShowedToken, WritesRole
<1> QED BY <1>1, <1>2, <1>4, <1>5 DEF Administered

LEMMA StepAdministered == Administered /\ [Next]_vars => Administered'
<1> SUFFICES ASSUME Administered, [Next]_vars PROVE Administered'
  OBVIOUS
<1>1. ASSUME NEW u \in Users, NEW x \in Tenants, Register(u, x)
      PROVE  Administered'
  BY <1>1, RegisterAdministered
<1>2. CASE Restart
  BY <1>2, RestartAdministered
<1>3. ASSUME NEW r \in Requests, NEW u \in Users,
             ReadUser(r, u) \/ CheckNotSelf(r, u)
      PROVE  Administered'
  BY <1>3, ReadUserAdministered, CheckNotSelfAdministered
<1>4. ASSUME NEW r \in Requests, NEW t \in Tokens, CreateAccessToken(r, t)
      PROVE  Administered'
  BY <1>4, CreateAccessTokenAdministered
<1>5. ASSUME NEW t \in Tokens, NEW x \in Tenants, CreateServiceToken(t, x)
      PROVE  Administered'
  BY <1>5, CreateServiceTokenAdministered
<1>6. ASSUME NEW t \in Tokens, TokenExpires(t)
      PROVE  Administered'
  BY <1>6, TokenExpiresAdministered
<1>7. ASSUME NEW r \in Requests, NEW t \in Tokens, NEW x \in Tenants,
             RequireAdmin(r, t, x)
      PROVE  Administered'
  BY <1>7, RequireAdminAdministered
<1>8. ASSUME NEW r \in Requests, NEW u \in Users, NEW want \in Roles \cup {None},
             GetUserByID(r, u, want)
      PROVE  Administered'
  BY <1>8, GetUserByIDAdministered
<1>9. ASSUME NEW r \in Requests, UpdateUser(r) \/ DeleteUser(r)
      PROVE  Administered'
  BY <1>9, UpdateUserAdministered, DeleteUserAdministered
<1>10. ASSUME NEW r \in Requests, Fail(r)
       PROVE  Administered'
  BY <1>10, IdleRequest DEF Fail, Answer
<1>11. CASE UNCHANGED vars
  BY <1>11
     DEF vars, rows, tokens, observers, Administered, TypeOK, RoleIsAsAsked, TokenOfUser,
         SignsForUser, ShowedToken, WritesRole, Known
<1>12. ASSUME NEW x \in Tenants, ServiceReplaced(x)
       PROVE  Administered'
  BY <1>12, ServiceReplacedAdministered
<1> QED
  BY <1>1, <1>2, <1>3, <1>4, <1>5, <1>6, <1>7, <1>8, <1>9, <1>10, <1>11, <1>12
     DEF Next

LEMMA AlwaysAdministered == Spec => []Administered
BY InitAdministered, StepAdministered, PTL DEF Spec
-----------------------------------------------------------------------------
\* The type invariant, and that an id is never of two rows.
THEOREM TypeCorrect == Spec => []TypeOK
<1>1. Administered => TypeOK
  BY DEF Administered
<1> QED BY <1>1, AlwaysAdministered, PTL

\* A user has the role last asked for, unless two updates of it crossed.
THEOREM RolesAreAsAsked == Spec => []RoleIsAsAsked
<1>1. Administered => RoleIsAsAsked
  BY DEF Administered
<1> QED BY <1>1, AlwaysAdministered, PTL

\* Who was demoted and has no token from before gets none with the role again.
LEMMA ShutOutStep ==
  ASSUME Administered, [Next]_vars, NEW u \in Users, ShutOut(u),
         u \in users' => role'[u] = "user"
  PROVE  ShutOut(u)'
<1> DEFINE NoOldToken == \A t \in valid : token[t].user = u => token[t].role # "admin"
           NoneOnTheWay(r) ==
             request[r].pc = "sign" /\ request[r].user = u => request[r].role # "admin"
<1> USE DEF rows, tokens, observers, Idle
<1>1. NoOldToken /\ \A r \in Requests : NoneOnTheWay(r)
  BY DEF ShutOut
<1>2. SUFFICES NoOldToken' /\ \A r \in Requests : NoneOnTheWay(r)'
  BY DEF ShutOut
<1>3. CASE \E r \in Requests, v \in Users : ReadUser(r, v)
  <2>1. PICK r \in Requests, v \in Users : ReadUser(r, v)
    BY <1>3
  <2>2. /\ v \in users /\ UNCHANGED <<token, valid>>
        /\ request' = [request EXCEPT ![r] = request'[r]]
        /\ request'[r].user = v /\ request'[r].role = role[v]
    BY <2>1 DEF ReadUser, RoleOf, Administered, TypeOK
  <2>3. v = u => role[v] # "admin"
    BY <2>2 DEF ShutOut
  <2> QED BY <1>1, <2>2, <2>3 DEF Administered, TypeOK
<1>4. CASE \E r \in Requests, t \in Tokens : CreateAccessToken(r, t)
  BY <1>1, <1>4 DEF CreateAccessToken, SignToken, Answer, Administered, TypeOK
<1>5. CASE \E t \in Tokens, x \in Tenants : CreateServiceToken(t, x)
  BY <1>1, <1>5 DEF CreateServiceToken, SignToken, Administered, TypeOK
<1>6. CASE /\ UNCHANGED token /\ valid' \subseteq valid
           /\ \A r \in Requests : \/ request'[r] = request[r]
                                  \/ request'[r].pc # "sign"
  BY <1>1, <1>6
<1>7. \/ \E r \in Requests, v \in Users : ReadUser(r, v)
      \/ \E r \in Requests, t \in Tokens : CreateAccessToken(r, t)
      \/ \E t \in Tokens, x \in Tenants : CreateServiceToken(t, x)
      \/ /\ UNCHANGED token /\ valid' \subseteq valid
         /\ \A r \in Requests : \/ request'[r] = request[r]
                                \/ request'[r].pc # "sign"
  <2> DEFINE Quiet == /\ UNCHANGED token /\ valid' \subseteq valid
                      /\ \A r \in Requests : \/ request'[r] = request[r]
                                             \/ request'[r].pc # "sign"
  <2> HIDE DEF Quiet
  <2>1. ASSUME NEW v \in Users, NEW x \in Tenants, Register(v, x)
        PROVE  Quiet
    BY <2>1 DEF Quiet, Register
  <2>2. ASSUME Restart
        PROVE  Quiet
    BY <2>2 DEF Quiet, Restart
  <2>3. ASSUME NEW t \in Tokens, TokenExpires(t)
        PROVE  Quiet
    BY <2>3 DEF Quiet, TokenExpires
  <2>4. ASSUME NEW r \in Requests, NEW t \in Tokens, NEW x \in Tenants,
               RequireAdmin(r, t, x)
        PROVE  Quiet
    BY <2>4 DEF Quiet, RequireAdmin, Administered, TypeOK
  <2>5. ASSUME NEW r \in Requests, NEW v \in Users, NEW want \in Roles \cup {None},
               GetUserByID(r, v, want)
        PROVE  Quiet
    BY <2>5 DEF Quiet, GetUserByID, Administered, TypeOK
  <2>6. ASSUME NEW r \in Requests, NEW v \in Users, CheckNotSelf(r, v)
        PROVE  Quiet
    BY <2>6 DEF Quiet, CheckNotSelf, Administered, TypeOK
  <2>7. ASSUME NEW r \in Requests, UpdateUser(r) \/ DeleteUser(r) \/ Fail(r)
        PROVE  Quiet
    BY <2>7 DEF Quiet, UpdateUser, DeleteUser, Fail, Answer, Administered, TypeOK
  <2>8. ASSUME UNCHANGED vars \/ \E x \in Tenants : ServiceReplaced(x)
        PROVE  Quiet
    BY <2>8 DEF Quiet, vars, ServiceReplaced
  <2>9. \/ \E r \in Requests, v \in Users : ReadUser(r, v)
        \/ \E r \in Requests, t \in Tokens : CreateAccessToken(r, t)
        \/ \E t \in Tokens, x \in Tenants : CreateServiceToken(t, x)
        \/ Quiet
    BY <2>1, <2>2, <2>3, <2>4, <2>5, <2>6, <2>7, <2>8 DEF Next
  <2> QED BY <2>9 DEF Quiet
<1> QED BY <1>3, <1>4, <1>5, <1>6, <1>7

\* A demoted administrator stays one for as long as its tokens last and no
\* longer.
THEOREM DemotedStaysOut == Spec => DemotedIsShutOut
<1>1. Administered /\ [Next]_vars =>
        [\A u \in Users :
           ShutOut(u) /\ (u \in users' => role'[u] = "user") => ShutOut(u)']_vars
  BY ShutOutStep
<1> QED BY <1>1, AlwaysAdministered, PTL DEF Spec, DemotedIsShutOut

\* Who updates or deletes a user showed an administrator's token, of a user of
\* the same tenant or of the platform.
LEMMA ActedStep ==
  ASSUME Administered, NEW r \in Requests, UpdateUser(r) \/ DeleteUser(r)
  PROVE  Acted(request[r].user)
<1> DEFINE t == request[r].token
           u == request[r].user
<1>1. /\ request[r].pc \in {"update", "delete"} /\ request'[r].pc = "idle"
      /\ home[u] = request[r].tenant
  BY DEF UpdateUser, DeleteUser, Answer, Idle, InTenant, Administered, TypeOK,
         WritesRole
<1>2. /\ t \in Tokens /\ token[t].role = "admin"
      /\ token[t].tenant \in {request[r].tenant, Platform}
      /\ token[t].tenant = home[token[t].user]
  BY <1>1 DEF Administered, ShowedToken, TokenOfUser, Roles
<1> QED BY <1>1, <1>2 DEF Acted

\* Roles change, and users disappear, by administrators in charge only.
THEOREM OnlyAdminsChange == Spec => ChangedByAdmins
<1> DEFINE ByAdmins ==
             \A u \in users :
               u \notin users' \/ role'[u] # role[u] =>
                 Acted(u) \/ (u = seed /\ role'[u] = "admin" /\ u \in users')
<1>1. ASSUME Administered, Next
      PROVE  ByAdmins
  <2> USE DEF rows, tokens, observers
  <2>1. ASSUME NEW u \in Users, NEW x \in Tenants, Register(u, x)
        PROVE  ByAdmins
    BY <1>1, <2>1 DEF Register, Fresh, InsertUser, Administered, TypeOK
  <2>2. CASE Restart
    BY <1>1, <2>2 DEF Restart, Fresh, InsertUser, Administered, TypeOK
  <2>3. ASSUME NEW r \in Requests, UpdateUser(r) \/ DeleteUser(r)
        PROVE  ByAdmins
    <3>1. Acted(request[r].user)
      BY <1>1, <2>3, ActedStep
    <3>2. \A u \in users : u # request[r].user => u \in users' /\ role'[u] = role[u]
      BY <1>1, <2>3 DEF UpdateUser, DeleteUser, Administered, TypeOK
    <3> QED BY <3>1, <3>2
  <2>4. CASE UNCHANGED rows
    BY <2>4
  <2> QED
    BY <1>1, <2>1, <2>2, <2>3, <2>4
       DEF Next, ReadUser, CheckNotSelf, CreateAccessToken, CreateServiceToken,
           TokenExpires, ServiceReplaced, RequireAdmin, GetUserByID, Fail
<1>2. Administered /\ [Next]_vars => [ByAdmins]_vars
  BY <1>1
<1> QED BY <1>2, AlwaysAdministered, PTL DEF Spec, ChangedByAdmins

(***************************************************************************)
(* Nobody acts for a deleted user who did not when it was deleted.         *)
(***************************************************************************)
\* What a request may become without acting for one more user.
NoNewActor(r, u) ==
  \/ request'[r] = request[r]
  \/ request'[r].pc = "idle"
  \/ /\ request[r].pc = "admin" /\ request'[r].pc \in {"update", "delete"}
     /\ request'[r].token = request[r].token
  \/ request'[r].pc = "sign" /\ request'[r].user # u
  \/ request'[r].pc = "admin" /\ token'[request'[r].token].user # u

LEMMA ActingFrame ==
  ASSUME Administered, NEW u,
         \A t \in Tokens : token[t].role = "admin" => token'[t] = token[t],
         \A r \in Requests : NoNewActor(r, u)
  PROVE  ActingFor(u)' \subseteq ActingFor(u)
BY DEF ActingFor, NoNewActor, Administered, ShowedToken

LEMMA ActingForStep ==
  ASSUME Administered, [Next]_vars, NEW u \in deleted
  PROVE  ActingFor(u)' \subseteq ActingFor(u)
<1> DEFINE Old == \A t \in Tokens : token[t].role = "admin" => token'[t] = token[t]
           Actors == \A r \in Requests : NoNewActor(r, u)
<1> USE DEF rows, tokens, observers, Idle
<1>1. u \notin users
  BY DEF Administered, TypeOK
<1>2. ASSUME NEW t \in Tokens, NEW claims, SignToken(t, claims)
      PROVE  Old
  BY <1>2, AdminAssumption DEF SignToken, NoToken, Administered, TypeOK
<1>3. ASSUME NEW r \in Requests, Answer(r)
      PROVE  Actors
  BY <1>3 DEF Answer, NoNewActor, Administered, TypeOK
<1>4. ASSUME NEW r \in Requests, NEW t \in Tokens, CreateAccessToken(r, t)
      PROVE  Old /\ Actors
  BY <1>2, <1>3, <1>4 DEF CreateAccessToken
<1>5. ASSUME NEW t \in Tokens, NEW x \in Tenants, CreateServiceToken(t, x)
      PROVE  Old /\ Actors
  BY <1>2, <1>5 DEF CreateServiceToken, NoNewActor
<1>6. ASSUME NEW r \in Requests, UpdateUser(r) \/ DeleteUser(r) \/ Fail(r)
      PROVE  Old /\ Actors
  BY <1>3, <1>6 DEF UpdateUser, DeleteUser, Fail
<1>7. ASSUME NEW r \in Requests, NEW v \in Users, ReadUser(r, v)
      PROVE  Old /\ Actors
  BY <1>1, <1>7 DEF ReadUser, NoNewActor, Administered, TypeOK
<1>8. ASSUME NEW r \in Requests, NEW t \in Tokens, NEW x \in Tenants,
             RequireAdmin(r, t, x)
      PROVE  Old /\ Actors
  BY <1>1, <1>8 DEF RequireAdmin, HolderIsThere, NoNewActor, Administered, TypeOK
<1>9. ASSUME NEW r \in Requests, NEW v \in Users, CheckNotSelf(r, v)
      PROVE  Old /\ Actors
  BY <1>9 DEF CheckNotSelf, NoNewActor, Administered, TypeOK
<1>10. ASSUME NEW r \in Requests, NEW v \in Users, NEW want \in Roles \cup {None},
              GetUserByID(r, v, want)
       PROVE  Old /\ Actors
  BY <1>10 DEF GetUserByID, NoNewActor, Administered, TypeOK
<1>11. ASSUME \/ \E v \in Users, x \in Tenants : Register(v, x)
              \/ Restart
              \/ \E t \in Tokens : TokenExpires(t)
              \/ \E x \in Tenants : ServiceReplaced(x)
              \/ UNCHANGED vars
       PROVE  Old /\ Actors
  BY <1>11 DEF Register, Restart, TokenExpires, ServiceReplaced, vars, NoNewActor
<1>12. Old /\ Actors
  <2> HIDE DEF Old, Actors
  <2> QED BY <1>4, <1>5, <1>6, <1>7, <1>8, <1>9, <1>10, <1>11 DEF Next
<1> QED BY <1>12, ActingFrame

\* The tokens of a deleted user open nothing.
THEOREM DeletedAreOut == Spec => DeletedBeginNothing
<1>1. Administered /\ [Next]_vars =>
        [\A u \in deleted : ActingFor(u)' \subseteq ActingFor(u)]_vars
  BY ActingForStep
<1> QED BY <1>1, AlwaysAdministered, PTL DEF Spec, DeletedBeginNothing
=============================================================================
