---------------------------- MODULE SigningKeys ----------------------------
(***************************************************************************)
(* The key a tenant signs with and the issuer it calls itself: the rows of *)
(* the keys table, the cache of TokenRegistry, and the handlers that sign, *)
(* validate or publish with what ForTenant gives them                      *)
(* (backend/iam/{registry,store,token,handlers}.go, main.go).              *)
(*                                                                         *)
(* ForTenant holds no lock between its look into the cache and the         *)
(* database, and each statement on the keys table is one step.  A token is *)
(* good for an hour; the model only has tokens that have not expired.      *)
(***************************************************************************)
EXTENDS Naturals, FiniteSets

CONSTANTS
  Tenants,
  Default,      \* the default tenant: main loads its key before it serves
  Keys,         \* an RSA key each
  Requests,     \* requests the server handles at the same time
  Spellings,    \* how requests name their tenant: by its "slug", or not at
                \*   all, which means the default tenant ("base")
  None,         \* no tenant, no key
  MaxRestarts, MaxFaults

ASSUME KeysAssumption ==
  /\ Default \subseteq Tenants
  /\ None \notin Keys \cup Tenants
  /\ Spellings \subseteq {"slug", "base"}
  /\ MaxRestarts \in Nat /\ MaxFaults \in Nat

VARIABLES
  exists,     \* the tenants rows
  rows,       \* rows[t]: the keys rows of t
  generated,  \* every key ever generated
  cache,      \* cache[t]: the TokenService in TokenRegistry.cache, if any
  tokens,     \* the tokens that were signed
  request,    \* locals of the handlers
  restarts, faults

keyVars == <<rows, generated>>
countVars == <<restarts, faults>>
vars == <<exists, keyVars, cache, tokens, request, countVars>>

Issuers == {"slug", "base"}     \* baseIssuer/t/slug and baseIssuer
Services == [key : Keys, issuer : Issuers]
NoService == [key |-> None, issuer |-> "base"]
Tokens == [tenant : Tenants, by : Services]
NoToken == [tenant |-> None, by |-> NoService]

Idle == [pc |-> "idle", tenant |-> None, slug |-> "base", service |-> NoService,
         does |-> "nothing", token |-> NoToken]

\* tenant and slug are what ForTenant was called with, service is what it
\* returns, and does what the handler wants it for.
Busy ==
  {l \in [pc : {"lookup", "load", "create", "store", "use"}, tenant : Tenants,
          slug : Issuers, service : Services \cup {NoService},
          does : {"sign", "validate", "publish"}, token : Tokens \cup {NoToken}] :
     l.pc \in {"store", "use"} => l.service \in Services}
Locals == {Idle} \cup Busy

TypeOK ==
  /\ exists \in SUBSET Tenants
  /\ rows \in [Tenants -> SUBSET Keys]
  /\ generated \in SUBSET Keys
  /\ cache \in [Tenants -> Services \cup {NoService}]
  /\ tokens \in SUBSET Tokens
  /\ request \in [Requests -> Locals]
  /\ restarts \in 0..MaxRestarts
  /\ faults \in 0..MaxFaults

\* main has run LoadOrCreateRSAKey for the default tenant.
Init ==
  /\ exists = Tenants
  /\ rows \in {[t \in Tenants |-> IF t \in Default THEN {key[t]} ELSE {}] :
                 key \in {f \in [Default -> Keys] :
                            \A t, s \in Default : f[t] = f[s] => t = s}}
  /\ generated = UNION {rows[t] : t \in Tenants}
  /\ cache = [t \in Tenants |-> NoService]
  /\ tokens = {}
  /\ request = [r \in Requests |-> Idle]
  /\ restarts = 0
  /\ faults = 0

(***************************************************************************)
(* Requests that need a TokenService.                                      *)
(***************************************************************************)
\* The tenant middleware: a slug has to be there; the default tenant is an id
\* main remembers.
Names(t, slug) ==
  /\ slug \in Spellings
  /\ slug = "slug" => t \in exists
  /\ slug = "base" => t \in Default

Begin(r, t, slug, does, token) ==
  /\ request[r].pc = "idle"
  /\ request' = [request EXCEPT ![r] =
       [pc |-> "lookup", tenant |-> t, slug |-> slug, service |-> NoService,
        does |-> does, token |-> token]]
  /\ UNCHANGED <<exists, keyVars, cache, tokens, countVars>>

\* Login, the grants of /token: the user or client was found.
Sign(r, t, slug) ==
  Names(t, slug) /\ t \in exists /\ Begin(r, t, slug, "sign", NoToken)

\* UserInfo, requireAuth: a token is brought to its tenant.  One of another
\* tenant changes nothing here and is refused for its key (KeysIsolated).
Validate(r, t, slug, token) ==
  /\ Names(t, slug)
  /\ token \in tokens /\ token.tenant = t
  /\ Begin(r, t, slug, "validate", token)

\* CheckAdmin, CheckAdminCrossTenant: the tenant is the one the token names,
\* and it has no slug.
CheckAdmin(r, token) ==
  token \in tokens /\ Begin(r, token.tenant, "base", "validate", token)

Publish(r, t, slug) ==
  Names(t, slug) /\ Begin(r, t, slug, "publish", NoToken)

(***************************************************************************)
(* TokenRegistry.ForTenant.                                                *)
(***************************************************************************)
At(r, pc) == request[r].pc = pc
Goto(r, pc, service) ==
  request' = [request EXCEPT ![r].pc = pc, ![r].service = service]
Answer(r) == request' = [request EXCEPT ![r] = Idle]

\* Mutant: a look that finds nothing is taken for one that finds something.
BuggyLookup(r) ==
  /\ At(r, "lookup")
  /\ Goto(r, "use", cache[request[r].tenant])
  /\ UNCHANGED <<exists, keyVars, cache, tokens, countVars>>

\* Both looks into the cache; the lock of the second is given back before the
\* key is loaded.
Lookup(r) ==
  LET s == cache[request[r].tenant]
  IN /\ At(r, "lookup")
     /\ Goto(r, IF s = NoService THEN "load" ELSE "use", s)
     /\ UNCHANGED <<exists, keyVars, cache, tokens, countVars>>

\* Mutant: a key is looked for without its tenant.
BuggyRowsOf(t) == UNION {rows[s] : s \in Tenants}

RowsOf(t) == rows[t]

\* Mutant: each ForTenant generates a key.
BuggyLoadKey(r) ==
  /\ At(r, "load")
  /\ Goto(r, "create", NoService)
  /\ UNCHANGED <<exists, keyVars, cache, tokens, countVars>>

\* SELECT ... LIMIT 1 without an order.  If it fails for whatever reason a key
\* is generated.
LoadKey(r) ==
  /\ At(r, "load")
  /\ \/ /\ \E k \in RowsOf(request[r].tenant) :
             Goto(r, "store", [key |-> k, issuer |-> request[r].slug])
        /\ UNCHANGED faults
     \/ /\ RowsOf(request[r].tenant) = {}
        /\ Goto(r, "create", NoService)
        /\ UNCHANGED faults
     \/ /\ faults < MaxFaults
        /\ faults' = faults + 1
        /\ Goto(r, "create", NoService)
  /\ UNCHANGED <<exists, keyVars, cache, tokens, restarts>>

InsertKey(t, k) ==
  /\ k \notin generated
  /\ generated' = generated \cup {k}
  /\ rows' = [rows EXCEPT ![t] = @ \cup {k}]

\* No constraint says that a tenant has one key.
CreateKey(r) ==
  /\ At(r, "create")
  /\ \E k \in Keys :
       /\ InsertKey(request[r].tenant, k)
       /\ Goto(r, "store", [key |-> k, issuer |-> request[r].slug])
  /\ UNCHANGED <<exists, cache, tokens, countVars>>

\* Whoever comes last is in the cache.
StoreService(r) ==
  /\ At(r, "store")
  /\ cache' = [cache EXCEPT ![request[r].tenant] = request[r].service]
  /\ Goto(r, "use", request[r].service)
  /\ UNCHANGED <<exists, keyVars, tokens, countVars>>

\* CreateAccessToken, ValidateAccessToken or JWKS, and the answer.
Use(r) ==
  /\ At(r, "use")
  /\ tokens' = IF request[r].does = "sign"
               THEN tokens \cup {[tenant |-> request[r].tenant,
                                  by |-> request[r].service]}
               ELSE tokens
  /\ Answer(r)
  /\ UNCHANGED <<exists, keyVars, cache, countVars>>

\* An INSERT or something else the request needs fails.
Fail(r) ==
  /\ request[r].pc # "idle"
  /\ Answer(r)
  /\ UNCHANGED <<exists, keyVars, cache, tokens, countVars>>

(***************************************************************************)
(* Around them.                                                            *)
(***************************************************************************)
\* The cache is not told.
DeleteTenant(t) ==
  /\ t \in exists
  /\ exists' = exists \ {t}
  /\ rows' = [rows EXCEPT ![t] = {}]
  /\ UNCHANGED <<generated, cache, tokens, request, countVars>>

\* The cache is gone; main loads the key of the default tenant, and generates
\* one if that fails.  A default tenant that was deleted is made anew, with
\* another id.
Restart ==
  /\ restarts < MaxRestarts
  /\ restarts' = restarts + 1
  /\ cache' = [t \in Tenants |-> NoService]
  /\ request' = [r \in Requests |-> Idle]
  /\ \/ UNCHANGED <<keyVars, faults>>
     \/ /\ faults < MaxFaults
        /\ faults' = faults + 1
        /\ \E t \in Default \cap exists, k \in Keys : InsertKey(t, k)
  /\ UNCHANGED <<exists, tokens>>

RequestStep ==
  \E r \in Requests :
    \/ \E t \in Tenants, slug \in Issuers :
         \/ Sign(r, t, slug) \/ Publish(r, t, slug)
         \/ \E token \in tokens : Validate(r, t, slug, token)
    \/ \E token \in tokens : CheckAdmin(r, token)
    \/ Lookup(r) \/ LoadKey(r) \/ CreateKey(r) \/ StoreService(r)
    \/ Use(r) \/ Fail(r)

Next == RequestStep \/ Restart \/ \E t \in Tenants : DeleteTenant(t)

Spec == Init /\ [][Next]_vars
-----------------------------------------------------------------------------
(***************************************************************************)
(* What holds.                                                             *)
(***************************************************************************)
\* The keys that are, or may come to be, used in the name of t: its rows, its
\* cached service, what requests hold, and what signed its tokens.
KeysOf(t) ==
  {k \in Keys :
     \/ k \in rows[t]
     \/ cache[t].key = k
     \/ \E r \in Requests : request[r].tenant = t /\ request[r].service.key = k
     \/ \E token \in tokens : token.tenant = t /\ token.by.key = k}

\* A key is one that was generated, and of one tenant: a token of one tenant
\* fails validation on every other, whatever interleaves, fails, restarts or is
\* deleted (LoadOrCreateRSAKey; docs/api.md, "Token Format").
KeysIsolated ==
  \A t \in Tenants :
    /\ KeysOf(t) \subseteq generated
    /\ \A s \in Tenants : t # s => KeysOf(t) \cap KeysOf(s) = {}

\* The default tenant has one key for ever, because main loads it before there
\* are requests: no request generates another one, as long as no read of the
\* key fails (LoadOrCreateRSAKey, main).
DefaultKeyStays ==
  faults = 0 =>
    \A t \in Default \cap exists :
      /\ \E k \in Keys : rows[t] = {k} /\ KeysOf(t) = {k}
      /\ \A r \in Requests : ~(At(r, "create") /\ request[r].tenant = t)

\* Requests that overlap before the tenant has a key may generate one each, and
\* that is all: once there is a row nobody starts to generate another, as long
\* as no read fails (ForTenant, LoadOrCreateRSAKey).
Creators(t) == {r \in Requests : At(r, "create") /\ request[r].tenant = t}
KeysPerFirstUse ==
  faults = 0 =>
    \A t \in Tenants :
      rows[t] # {} =>
        Cardinality(rows[t]) + Cardinality(Creators(t)) <= Cardinality(Requests)

(***************************************************************************)
(* What documents or tests say and the code does not keep.                 *)
(***************************************************************************)
\* Does the service r was given accept the token it was brought?
Accepts(r) == request[r].service = request[r].token.by

\* "Tokens expire after 1 hour.": until then the handlers of their tenant accept
\* them, also after a restart (ForTenant, ValidateAccessToken).
SignedIsAccepted ==
  \A r \in Requests :
    LET q == request[r]
    IN q.pc = "use" /\ q.does = "validate" /\ q.tenant \in exists => Accepts(r)
=============================================================================
