---------------------------- MODULE TokenGrants ----------------------------
(***************************************************************************)
(* Authorization codes and refresh tokens of one tenant: the rows of       *)
(* auth_codes and refresh_tokens, and the handlers /authorize, /login,     *)
(* /token and /revoke that write them between the same handlers of other   *)
(* requests (backend/iam/{store,handlers}.go).                             *)
(*                                                                         *)
(* One statement is one step.  Reads that only decide whether a request    *)
(* goes on (client and password at /authorize) are one step when no other  *)
(* outcome is possible with more.  A request that got a 200 answer or an   *)
(* error is idle again.  The rows are for ever: nothing deletes a code or  *)
(* a token except with its tenant.                                         *)
(***************************************************************************)
EXTENDS Naturals, FiniteSets

CONSTANTS
  Users, Clients, Codes, Tokens,
  Requests,     \* requests the server handles at the same time
  None,         \* no client (a login), no user, no grant
  MaxFaults     \* bound on revocations the database refuses unnoticed

ASSUME GrantsAssumption ==
  /\ Codes \cap Tokens = {}
  /\ None \notin Users \cup Clients \cup Codes \cup Tokens
  /\ MaxFaults \in Nat

Grants == Codes \cup Tokens

VARIABLES
  tenant,     \* the tenant row exists
  users,      \* the users and clients rows
  clients,
  code,       \* code[x]: the auth_codes row
  token,      \* token[t]: the refresh_tokens row
  issue,      \* issue[g]: to which client and user the row was issued,
              \*   whether a code has a PKCE challenge
  expired,    \* the rows whose expires_at has passed
  request,    \* locals of the handlers
  yields,     \* yields[g]: how often g was answered with tokens
  root,       \* root[t]: the code, or the login's token, t descends from
  revoked,    \* tokens whose revocation was answered
  faults

rowVars == <<tenant, users, clients, code, token, issue, expired>>
observerVars == <<yields, root, revoked>>
vars == <<rowVars, request, observerVars, faults>>

Issues == [client : Clients \cup {None}, user : Users \cup {None},
           pkce : BOOLEAN]
Unissued == [client |-> None, user |-> None, pkce |-> FALSE]
Idle == [pc |-> "idle", grant |-> None, issue |-> Unissued]

Locals ==
  {Idle} \cup
  [pc : {"authorize", "check", "rotate", "lookup", "issue"},
   grant : Grants \cup {None}, issue : Issues]

TypeOK ==
  /\ tenant \in BOOLEAN
  /\ users \in SUBSET Users
  /\ clients \in SUBSET Clients
  /\ code \in [Codes -> {"none", "fresh", "used", "gone"}]
  /\ token \in [Tokens -> {"none", "valid", "revoked", "gone"}]
  /\ issue \in [Grants -> Issues]
  /\ expired \in SUBSET Grants
  /\ request \in [Requests -> Locals]
  /\ yields \in [Grants -> Nat]
  /\ root \in [Tokens -> Grants \cup {None}]
  /\ revoked \in SUBSET Tokens
  /\ faults \in 0..MaxFaults

Init ==
  /\ tenant = TRUE
  /\ users = Users
  /\ clients = Clients
  /\ code = [x \in Codes |-> "none"]
  /\ token = [t \in Tokens |-> "none"]
  /\ issue = [g \in Grants |-> Unissued]
  /\ expired = {}
  /\ request = [r \in Requests |-> Idle]
  /\ yields = [g \in Grants |-> 0]
  /\ root = [t \in Tokens |-> None]
  /\ revoked = {}
  /\ faults = 0

Become(r, pc, g, i) ==
  request' = [request EXCEPT ![r] = [pc |-> pc, grant |-> g, issue |-> i]]
Goto(r, pc) == request' = [request EXCEPT ![r].pc = pc]
Answer(r) == request' = [request EXCEPT ![r] = Idle]

(***************************************************************************)
(* /authorize and /login.                                                  *)
(***************************************************************************)
\* AuthorizePOST: the client and its redirect_uri, then the password.
Authorize(r, c, u, pkce) ==
  /\ tenant /\ request[r].pc = "idle"
  /\ c \in clients /\ u \in users
  /\ Become(r, "authorize", None, [client |-> c, user |-> u, pkce |-> pkce])
  /\ UNCHANGED <<rowVars, observerVars, faults>>

CreateAuthCode(r, x) ==
  /\ request[r].pc = "authorize"
  /\ code[x] = "none"
  /\ code' = [code EXCEPT ![x] = "fresh"]
  /\ issue' = [issue EXCEPT ![x] = request[r].issue]
  /\ Answer(r)
  /\ UNCHANGED <<tenant, users, clients, token, expired, observerVars, faults>>

\* Login: the refresh token belongs to no client.
Login(r, u) ==
  /\ tenant /\ request[r].pc = "idle"
  /\ u \in users
  /\ Become(r, "issue", None, [Unissued EXCEPT !.user = u])
  /\ UNCHANGED <<rowVars, observerVars, faults>>

(***************************************************************************)
(* /token with an authorization code.                                      *)
(***************************************************************************)
\* Mutant: the code is read here and marked used by another statement later.
BuggyConsumeAuthCode(r, x) ==
  /\ tenant /\ request[r].pc = "idle"
  /\ code[x] = "fresh" /\ x \notin expired
  /\ Become(r, "check", x, issue[x])
  /\ UNCHANGED <<rowVars, observerVars, faults>>

\* One UPDATE tests and sets used; the row it then reads does not change.
ConsumeAuthCode(r, x) ==
  /\ tenant /\ request[r].pc = "idle"
  /\ code[x] = "fresh" /\ x \notin expired
  /\ code' = [code EXCEPT ![x] = "used"]
  /\ Become(r, "check", x, issue[x])
  /\ UNCHANGED <<tenant, users, clients, token, issue, expired, observerVars,
                 faults>>

\* tokenAuthorizationCode: client_id, redirect_uri and the verifier have to
\* match; without a challenge the client has to exist and to prove its
\* secret.  Whatever fails, the code stays used.
CheckRedemption(r) ==
  /\ request[r].pc = "check"
  /\ \/ /\ request[r].issue.pkce \/ request[r].issue.client \in clients
        /\ Goto(r, "lookup")
     \/ Answer(r)
  /\ UNCHANGED <<rowVars, observerVars, faults>>

(***************************************************************************)
(* /token with a refresh token, and /revoke.                               *)
(***************************************************************************)
ValidateRefreshToken(r, t) ==
  /\ tenant /\ request[r].pc = "idle"
  /\ token[t] = "valid" /\ t \notin expired
  /\ Become(r, "rotate", t, issue[t])
  /\ UNCHANGED <<rowVars, observerVars, faults>>

\* Mutant: a status ValidateRefreshToken does not know.
BuggyRevokedRow(t) == [token EXCEPT ![t] = IF @ = "valid" THEN "used" ELSE @]

RevokedRow(t) == [token EXCEPT ![t] = IF @ = "valid" THEN "revoked" ELSE @]

\* Mutant: the used token is left valid.
BuggyRotate(r) ==
  /\ request[r].pc = "rotate"
  /\ Goto(r, "lookup")
  /\ UNCHANGED <<rowVars, observerVars, faults>>

\* RevokeRefreshToken on the token just validated: it neither tests that the
\* row is still valid, nor is its error looked at.
Rotate(r) ==
  /\ request[r].pc = "rotate"
  /\ \/ token' = RevokedRow(request[r].grant) /\ UNCHANGED faults
     \/ faults < MaxFaults /\ faults' = faults + 1 /\ UNCHANGED token
  /\ Goto(r, "lookup")
  /\ UNCHANGED <<tenant, users, clients, code, issue, expired, observerVars>>

\* The revocation endpoint answers 200 whatever becomes of its statement: the
\* error of the UPDATE is not looked at.
Revoke(t) ==
  /\ tenant /\ token[t] = "valid"
  /\ \/ token' = RevokedRow(t) /\ UNCHANGED faults
     \/ faults < MaxFaults /\ faults' = faults + 1 /\ UNCHANGED token
  /\ revoked' = revoked \cup {t}
  /\ UNCHANGED <<tenant, users, clients, code, issue, expired, request, yields,
                 root>>

(***************************************************************************)
(* The end both grants share.                                              *)
(***************************************************************************)
\* Mutant: the tokens are made from the row of the grant alone.
BuggyGetUserByID(r) ==
  /\ request[r].pc = "lookup"
  /\ Goto(r, "issue")
  /\ UNCHANGED <<rowVars, observerVars, faults>>

GetUserByID(r) ==
  /\ request[r].pc = "lookup"
  /\ IF request[r].issue.user \in users THEN Goto(r, "issue") ELSE Answer(r)
  /\ UNCHANGED <<rowVars, observerVars, faults>>

\* The new refresh token is the last thing that can fail; the answer follows.
CreateRefreshToken(r, t) ==
  LET g == request[r].grant
  IN /\ request[r].pc = "issue"
     /\ token[t] = "none"
     /\ token' = [token EXCEPT ![t] = "valid"]
     /\ issue' = [issue EXCEPT ![t] = [request[r].issue EXCEPT !.pkce = FALSE]]
     /\ root' = [root EXCEPT ![t] = IF g \in Tokens THEN root[g]
                                    ELSE IF g \in Codes THEN g ELSE t]
     /\ yields' = IF g = None THEN yields ELSE [yields EXCEPT ![g] = @ + 1]
     /\ Answer(r)
     /\ UNCHANGED <<tenant, users, clients, code, expired, revoked, faults>>

\* A statement, the signing key or a signature fails, or the process stops:
\* the request is over, what it wrote stays.
Fail(r) ==
  /\ request[r].pc # "idle"
  /\ Answer(r)
  /\ UNCHANGED <<rowVars, observerVars, faults>>

(***************************************************************************)
(* Around them: the clock, and what administrators delete.                 *)
(***************************************************************************)
\* Of a used or revoked row nobody asks any more whether it expired.
Expire(g) ==
  /\ g \notin expired
  /\ g \in Codes => code[g] = "fresh"
  /\ g \in Tokens => token[g] = "valid"
  /\ expired' = expired \cup {g}
  /\ UNCHANGED <<tenant, users, clients, code, token, issue, request,
                 observerVars, faults>>

\* Neither deletes codes or tokens.
DeleteUser(u) ==
  /\ tenant /\ u \in users
  /\ users' = users \ {u}
  /\ UNCHANGED <<tenant, clients, code, token, issue, expired, request,
                 observerVars, faults>>

DeleteClient(c) ==
  /\ tenant /\ c \in clients
  /\ clients' = clients \ {c}
  /\ UNCHANGED <<tenant, users, code, token, issue, expired, request,
                 observerVars, faults>>

DeleteTenant ==
  /\ tenant
  /\ tenant' = FALSE
  /\ users' = {}
  /\ clients' = {}
  /\ code' = [x \in Codes |-> IF code[x] = "none" THEN "none" ELSE "gone"]
  /\ token' = [t \in Tokens |-> IF token[t] = "none" THEN "none" ELSE "gone"]
  /\ UNCHANGED <<issue, expired, request, observerVars, faults>>

CodeStep ==
  \E r \in Requests :
    \/ \E c \in Clients, u \in Users, pkce \in BOOLEAN : Authorize(r, c, u, pkce)
    \/ \E x \in Codes : CreateAuthCode(r, x) \/ ConsumeAuthCode(r, x)
    \/ CheckRedemption(r)

TokenStep ==
  \/ \E r \in Requests :
       \/ \E u \in Users : Login(r, u)
       \/ \E t \in Tokens : ValidateRefreshToken(r, t) \/ CreateRefreshToken(r, t)
       \/ Rotate(r) \/ GetUserByID(r) \/ Fail(r)
  \/ \E t \in Tokens : Revoke(t)

OtherStep ==
  \/ \E g \in Grants : Expire(g)
  \/ \E u \in Users : DeleteUser(u)
  \/ \E c \in Clients : DeleteClient(c)
  \/ DeleteTenant

Next == CodeStep \/ TokenStep \/ OtherStep

Spec == Init /\ [][Next]_vars
-----------------------------------------------------------------------------
(***************************************************************************)
(* What the component gets right.                                          *)
(***************************************************************************)
Holds(r, g) == request[r].grant = g

\* Why codes are good once: the request that claimed a code holds it alone,
\* until then nobody got anything for it, and a code somebody got tokens for
\* is used and held by nobody (ConsumeAuthCode).  Only a row can expire.
CodesHeldOnce ==
  \A x \in Codes :
    /\ code[x] = "none" => x \notin expired
    /\ code[x] \in {"none", "fresh"} =>
         yields[x] = 0 /\ \A r \in Requests : ~Holds(r, x)
    /\ \A r \in Requests : Holds(r, x) =>
         yields[x] = 0 /\ \A q \in Requests : Holds(q, x) => q = r

\* An authorization code is redeemed at most once, by one request that claimed
\* it before it expired, however many present it at the same time and wherever
\* that request fails (tokenAuthorizationCode).
CodeStage ==
  [x \in Codes |->
     IF code[x] = "none" THEN "none"
     ELSE IF code[x] = "fresh" /\ x \notin expired THEN "open"
     ELSE IF yields[x] > 0 THEN "spent"
     ELSE IF \E r \in Requests : Holds(r, x) THEN "claimed" ELSE "void"]
CodeYields == [x \in Codes |-> yields[x]]
CodeGrant == INSTANCE OneShot
               WITH Grants <- Codes, stage <- CodeStage, yields <- CodeYields
CodesAreOneShot == CodeGrant!Spec

\* A refresh request that starts after the token was refreshed or revoked gets
\* nowhere, as long as no revocation failed unnoticed (ValidateRefreshToken;
\* main_test.go, "used refresh token is rejected (rotation)").
UsedTokenIsRefused ==
  [][\A r \in Requests :
       faults = 0 /\ request[r].pc = "idle" /\ request'[r].pc = "rotate" =>
         LET t == request'[r].grant IN yields[t] = 0 /\ t \notin revoked]_vars

\* A deleted user gets no more tokens once the requests that had looked it up
\* are answered, although its codes and tokens stay valid (GetUserByID).
ShutOut(u) ==
  /\ u \notin users
  /\ \A r \in Requests : request[r].pc = "issue" => request[r].issue.user # u
DeletedUserIsShutOut ==
  [][\A u \in Users : ShutOut(u) =>
       /\ ShutOut(u)'
       /\ \A t \in Tokens :
            token[t] = "none" /\ token'[t] = "valid" => issue'[t].user # u]_vars

\* Rotation loses track of a session, all that descends from one login or code,
\* in two ways only: one of its tokens was refreshed twice, or a revocation
\* failed.  Otherwise it has one token that can be refreshed, or none
\* (tokenRefreshToken).
OneTokenPerSession ==
  \A t, s \in Tokens :
    token[t] = "valid" /\ token[s] = "valid" /\ root[t] = root[s] /\ t # s =>
      \/ faults > 0
      \/ \E used \in Tokens : root[used] = root[t] /\ yields[used] > 1
=============================================================================
