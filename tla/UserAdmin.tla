----------------------------- MODULE UserAdmin -----------------------------
(***************************************************************************)
(* Who may administer whom: roles in the users table, roles in access      *)
(* tokens, the check every handler below /admin starts with, and the       *)
(* handlers of single users (backend/iam/handlers.go, AdminUserByID).      *)
(*                                                                         *)
(* A token is signed with the role its user had when the request read the  *)
(* row, and is good until it expires, for a token service with the key and *)
(* the issuer it was signed with; of the services themselves, which are in *)
(* SigningKeys, there is only which tokens they refuse.  Passwords are in  *)
(* Accounts; a user's name is abstracted to whether a request wants to     *)
(* change the role as well.                                                *)
(***************************************************************************)
EXTENDS Naturals, FiniteSets

CONSTANTS
  Tenants, Platform,    \* Platform: the default tenant
  Users, Tokens,
  Requests,             \* requests the server handles at the same time
  None

ASSUME AdminAssumption ==
  /\ Platform \in Tenants
  /\ None \notin Tenants \cup Users \cup Tokens \cup {"user", "admin"}

VARIABLES
  users, deleted,   \* the rows there are, and those there were
  home, role,       \* columns of the users table
  seed,             \* the user with the address ADMIN_EMAIL in Platform
  token, valid,     \* the tokens signed, and those that have not expired
  refused,          \* of these, what the cached services refuse now
  request,          \* locals of the handlers
  asked,            \* asked[u]: the role last given to u
  crossed           \* users updated while another update of them was under way

rows == <<users, deleted, home, role, seed>>
tokens == <<token, valid, refused>>
observers == <<asked, crossed>>
vars == <<rows, tokens, request, observers>>

Roles == {"user", "admin"}
NoToken == [user |-> None, tenant |-> None, role |-> None]
Idle == [pc |-> "idle", token |-> None, tenant |-> None, user |-> None,
         role |-> None, want |-> None]

TypeOK ==
  /\ users \in SUBSET Users
  /\ deleted \in SUBSET (Users \ users)
  /\ home \in [Users -> Tenants \cup {None}]
  /\ role \in [Users -> Roles \cup {None}]
  /\ \A u \in users : home[u] \in Tenants /\ role[u] \in Roles
  /\ seed \in users \cup {None}
  /\ token \in [Tokens -> [user : Users \cup {None}, tenant : Tenants \cup {None},
                           role : Roles \cup {"service", None}]]
  /\ valid \in SUBSET Tokens
  /\ refused \in SUBSET valid
  /\ request \in [Requests ->
       [pc : {"idle", "sign", "admin", "update", "delete"},
        token : Tokens \cup {None}, tenant : Tenants \cup {None},
        user : Users \cup {None}, role : Roles \cup {None},
        want : Roles \cup {None}]]
  /\ asked \in [Users -> Roles \cup {None}]
  /\ crossed \in SUBSET Users

\* What main leaves before it serves: the administrator it seeds.
Init ==
  \E s \in Users :
    /\ users = {s} /\ deleted = {} /\ seed = s
    /\ home = [u \in Users |-> IF u = s THEN Platform ELSE None]
    /\ role = [u \in Users |-> IF u = s THEN "admin" ELSE None]
    /\ asked = role
    /\ token = [t \in Tokens |-> NoToken]
    /\ valid = {} /\ refused = {} /\ crossed = {}
    /\ request = [r \in Requests |-> Idle]

Answer(r) == request' = [request EXCEPT ![r] = Idle]

\* Mutant: the ids of deleted rows come back.
BuggyFresh(u) == u \notin users

Fresh(u) == u \notin users \cup deleted

InsertUser(u, t, x) ==
  /\ users' = users \cup {u}
  /\ home' = [home EXCEPT ![u] = t]
  /\ role' = [role EXCEPT ![u] = x]
  /\ asked' = [asked EXCEPT ![u] = x]
  /\ UNCHANGED deleted

\* With the address of the administrator, if nobody has it.
Register(u, t) ==
  /\ Fresh(u)
  /\ InsertUser(u, t, "user")
  /\ seed' \in IF t = Platform /\ seed = None THEN {None, u} ELSE {seed}
  /\ UNCHANGED <<tokens, request, crossed>>

\* SeedAdmin: the row with the address is made an administrator's, or one is
\* inserted.  Whatever requests were under way are gone.
Restart ==
  /\ request' = [r \in Requests |-> Idle]
  /\ IF seed \in users
     THEN /\ role' = [role EXCEPT ![seed] = "admin"]
          /\ asked' = [asked EXCEPT ![seed] = "admin"]
          /\ UNCHANGED <<users, deleted, home, seed>>
     ELSE \E u \in Users :
            Fresh(u) /\ InsertUser(u, Platform, "admin") /\ seed' = u
  /\ UNCHANGED <<tokens, crossed>>

(***************************************************************************)
(* Tokens.                                                                 *)
(***************************************************************************)
\* Mutant: a refresh keeps the role of the tokens before.
BuggyRoleOf(u) ==
  IF \E t \in Tokens : token[t].user = u /\ token[t].role = "admin"
  THEN "admin" ELSE role[u]

RoleOf(u) == role[u]

\* Login, a code or a refresh: the row, and then the signature.
ReadUser(r, u) ==
  /\ request[r].pc = "idle" /\ u \in users
  /\ request' = [request EXCEPT ![r] = [Idle EXCEPT !.pc = "sign", !.user = u,
                                          !.tenant = home[u], !.role = RoleOf(u)]]
  /\ UNCHANGED <<rows, tokens, observers>>

SignToken(t, claims) ==
  /\ token[t] = NoToken
  /\ token' = [token EXCEPT ![t] = claims]
  /\ valid' = valid \cup {t}
  /\ UNCHANGED refused

CreateAccessToken(r, t) ==
  /\ request[r].pc = "sign"
  /\ SignToken(t, [user |-> request[r].user, tenant |-> request[r].tenant,
                   role |-> request[r].role])
  /\ Answer(r)
  /\ UNCHANGED <<rows, observers>>

\* client_credentials: no user, no role.
CreateServiceToken(t, x) ==
  /\ SignToken(t, [user |-> None, tenant |-> x, role |-> "service"])
  /\ UNCHANGED <<rows, request, observers>>

TokenExpires(t) ==
  /\ t \in valid
  /\ valid' = valid \ {t}
  /\ refused' = refused \ {t}
  /\ UNCHANGED <<rows, token, request, observers>>

\* ForTenant: of overlapping first uses, each puts its service into the cache,
\* with the key it read and the issuer of its slug; which of the tenant's tokens
\* that service refuses is left open.
ServiceReplaced(x) ==
  /\ \E S \in SUBSET {t \in valid : token[t].tenant = x} :
       refused' = {t \in refused : token[t].tenant # x} \cup S
  /\ UNCHANGED <<rows, token, valid, request, observers>>

(***************************************************************************)
(* /admin/users/{id}.                                                      *)
(***************************************************************************)
\* Mutant: any administrator will do.
BuggyOfTenant(t, x) == TRUE

OfTenant(t, x) == token[t].tenant \in {x, Platform}

\* Mutant: whom the claims name is not looked up.
BuggyHolderIsThere(t) == TRUE

HolderIsThere(t) == token[t].user \in users

\* requireAdmin: the role is the token's; of the row, only that it is there.
RequireAdmin(r, t, x) ==
  /\ request[r].pc = "idle"
  /\ t \in valid \ refused /\ token[t].role = "admin" /\ OfTenant(t, x)
  /\ HolderIsThere(t)
  /\ request' = [request EXCEPT ![r] = [Idle EXCEPT !.pc = "admin",
                                          !.token = t, !.tenant = x]]
  /\ UNCHANGED <<rows, tokens, observers>>

InTenant(r, u) == u \in users /\ home[u] = request[r].tenant

\* Mutant: no role in the request makes an ordinary user.
BuggyRoleToWrite(u, want) == IF want = None THEN "user" ELSE want

RoleToWrite(u, want) == IF want = None THEN role[u] ELSE want

\* UpdateUser: the row, and then all of it.
GetUserByID(r, u, want) ==
  /\ request[r].pc = "admin" /\ InTenant(r, u)
  /\ request' = [request EXCEPT ![r].pc = "update", ![r].user = u,
                   ![r].role = RoleToWrite(u, want), ![r].want = want]
  /\ UNCHANGED <<rows, tokens, observers>>

UpdateUser(r) ==
  LET u == request[r].user
      want == request[r].want
      others == \E q \in Requests \ {r} :
                  request[q].pc = "update" /\ request[q].user = u
  IN /\ request[r].pc = "update" /\ u \in users
     /\ role' = [role EXCEPT ![u] = request[r].role]
     /\ asked' = IF want = None THEN asked ELSE [asked EXCEPT ![u] = want]
     /\ crossed' = IF others THEN crossed \cup {u}
                   ELSE IF want # None THEN crossed \ {u} ELSE crossed
     /\ Answer(r)
     /\ UNCHANGED <<users, deleted, home, seed, tokens>>

\* The token is validated once more, by the service of the tenant in the path,
\* and an error is ignored: nobody, then, is oneself.
AdminID(r) ==
  LET t == request[r].token
  IN IF t \in valid \ refused /\ token[t].tenant = request[r].tenant
     THEN token[t].user ELSE None

CheckNotSelf(r, u) ==
  /\ request[r].pc = "admin" /\ u # AdminID(r)
  /\ request' = [request EXCEPT ![r].pc = "delete", ![r].user = u]
  /\ UNCHANGED <<rows, tokens, observers>>

DeleteUser(r) ==
  LET u == request[r].user
  IN /\ request[r].pc = "delete" /\ InTenant(r, u)
     /\ users' = users \ {u}
     /\ deleted' = deleted \cup {u}
     /\ seed' = IF seed = u THEN None ELSE seed
     /\ Answer(r)
     /\ UNCHANGED <<home, role, tokens, observers>>

\* A check fails, a row is not there, or a statement fails.
Fail(r) ==
  /\ request[r].pc # "idle"
  /\ Answer(r)
  /\ UNCHANGED <<rows, tokens, observers>>

Next ==
  \/ \E u \in Users, x \in Tenants : Register(u, x)
  \/ Restart
  \/ \E r \in Requests, u \in Users : ReadUser(r, u) \/ CheckNotSelf(r, u)
  \/ \E r \in Requests, t \in Tokens : CreateAccessToken(r, t)
  \/ \E t \in Tokens, x \in Tenants : CreateServiceToken(t, x)
  \/ \E t \in Tokens : TokenExpires(t)
  \/ \E x \in Tenants : ServiceReplaced(x)
  \/ \E r \in Requests, t \in Tokens, x \in Tenants : RequireAdmin(r, t, x)
  \/ \E r \in Requests, u \in Users, want \in Roles \cup {None} :
       GetUserByID(r, u, want)
  \/ \E r \in Requests : UpdateUser(r) \/ DeleteUser(r) \/ Fail(r)

Spec == Init /\ [][Next]_vars
-----------------------------------------------------------------------------
\* Who is not, or no longer, an administrator and has no token left from the
\* time it was one, in a response or on its way there.
ShutOut(u) ==
  /\ u \in users => role[u] = "user"
  /\ \A t \in valid : token[t].user = u => token[t].role # "admin"
  /\ \A r \in Requests :
       request[r].pc = "sign" /\ request[r].user = u => request[r].role # "admin"

\* A demoted or deleted administrator stays one for as long as its tokens last
\* and not longer: refreshing them does not bring the role back, only being
\* made an administrator again does (CheckAdmin, tokenRefreshToken).
DemotedIsShutOut ==
  [][\A u \in Users :
       ShutOut(u) /\ (u \in users' => role'[u] = "user") => ShutOut(u)']_vars

\* A user has the role it was last given, unless updates of the user crossed:
\* one that only changes the name writes back the role it read (UpdateUser).
RoleIsAsAsked ==
  \A u \in users : role[u] # asked[u] => u \in crossed

\* Roles change and users disappear by an administrator of their own tenant
\* or of the platform, however the check and the write are interleaved with
\* deletions, and else only when main seeds its administrator (CheckAdmin).
Acted(u) ==
  \E r \in Requests :
    /\ request[r].pc \in {"update", "delete"} /\ request[r].user = u
    /\ request'[r].pc = "idle"
    /\ token[request[r].token].role = "admin"
    /\ home[token[request[r].token].user] \in {home[u], Platform}
ChangedByAdmins ==
  [][\A u \in users :
       u \notin users' \/ role'[u] # role[u] =>
         Acted(u) \/ (u = seed /\ role'[u] = "admin" /\ u \in users')]_vars

\* The tokens of a deleted user stay good for up to an hour, and open nothing:
\* what it began before goes on, an administrator's work or a login, but it
\* begins nothing again (CheckAdmin, tokenRefreshToken, DeleteUser).
ActingFor(u) ==
  {r \in Requests :
     \/ request[r].pc = "sign" /\ request[r].user = u
     \/ /\ request[r].pc \in {"admin", "update", "delete"}
        /\ token[request[r].token].user = u}
DeletedBeginNothing ==
  [][\A u \in deleted : ActingFor(u)' \subseteq ActingFor(u)]_vars
=============================================================================
