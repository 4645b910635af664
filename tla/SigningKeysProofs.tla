------------------------- MODULE SigningKeysProofs -------------------------
(***************************************************************************)
(* Proofs about SigningKeys for any sets of tenants, keys and concurrent   *)
(* requests, any number of restarts and failing reads: no two tenants      *)
(* share a key, and the default tenant keeps the one it started with.      *)
(***************************************************************************)
EXTENDS SigningKeys, FiniteSetTheorems, TLAPS

-----------------------------------------------------------------------------
(* Type correctness. *)

LEMMA IdleType == Idle \in Locals
BY DEF Locals

LEMMA AnswerType ==
  ASSUME TypeOK, NEW r \in Requests, Answer(r)
  PROVE  request' \in [Requests -> Locals]
BY IdleType DEF TypeOK, Answer

\* A request that moves on keeps what it was asked for.
LEMMA GotoSplit ==
  ASSUME TypeOK, NEW r \in Requests, NEW pc, NEW s, Goto(r, pc, s)
  PROVE  /\ request' = [request EXCEPT ![r] =
                          [request[r] EXCEPT !.pc = pc, !.service = s]]
         /\ request'[r].tenant = request[r].tenant
         /\ request'[r].service = s
         /\ request'[r].pc = pc
         /\ \A q \in Requests : q # r => request'[q] = request[q]
<1>1. request[r] \in Locals /\ request \in [Requests -> Locals]
  BY DEF TypeOK
<1>2. request' = [request EXCEPT ![r] =
                    [request[r] EXCEPT !.pc = pc, !.service = s]]
  BY <1>1 DEF Goto, Locals, Busy, Idle
<1>3. QED
  BY <1>1, <1>2 DEF Locals, Busy, Idle

LEMMA GotoType ==
  ASSUME TypeOK, NEW r \in Requests, request[r].pc # "idle",
         NEW pc \in {"load", "create", "store", "use"},
         NEW s \in Services \cup {NoService}, Goto(r, pc, s),
         pc \in {"store", "use"} => s \in Services
  PROVE  request' \in [Requests -> Locals]
<1>1. request[r] \in Busy
  BY DEF TypeOK, Locals, Idle
<1>2. [request[r] EXCEPT !.pc = pc, !.service = s] \in Busy
  BY <1>1 DEF Busy
<1>3. request' = [request EXCEPT ![r] =
                    [request[r] EXCEPT !.pc = pc, !.service = s]]
  BY GotoSplit
<1>4. QED
  BY <1>2, <1>3 DEF TypeOK, Locals

\* A busy request works for a tenant.
LEMMA BusyTenant ==
  ASSUME TypeOK, NEW r \in Requests, request[r].pc # "idle"
  PROVE  /\ request[r] \in Busy
         /\ request[r].tenant \in Tenants /\ request[r].slug \in Issuers
         /\ request[r].service \in Services \cup {NoService}
         /\ request[r].pc \in {"store", "use"} => request[r].service \in Services
<1>1. request[r] \in Busy
  BY DEF TypeOK, Locals, Idle
<1>2. QED
  BY <1>1 DEF Busy

LEMMA BeginType ==
  ASSUME TypeOK, NEW r \in Requests, NEW t \in Tenants, NEW slug \in Issuers,
         NEW does \in {"sign", "validate", "publish"},
         NEW token \in Tokens \cup {NoToken}, Begin(r, t, slug, does, token)
  PROVE  TypeOK'
<1>1. [pc |-> "lookup", tenant |-> t, slug |-> slug, service |-> NoService,
       does |-> does, token |-> token] \in Locals
  BY DEF Locals, Busy
<1>2. request' \in [Requests -> Locals]
  BY <1>1 DEF Begin, TypeOK
<1>3. QED
  BY <1>2 DEF Begin, TypeOK, keyVars, countVars

LEMMA InsertType ==
  ASSUME TypeOK, NEW t \in Tenants, NEW k \in Keys, InsertKey(t, k)
  PROVE  rows' \in [Tenants -> SUBSET Keys] /\ generated' \in SUBSET Keys
BY DEF TypeOK, InsertKey

LEMMA RequestStepType == TypeOK /\ RequestStep => TypeOK'
<1> SUFFICES ASSUME TypeOK, RequestStep PROVE TypeOK'
  OBVIOUS
<1> USE DEF keyVars, countVars
<1>1. ASSUME NEW r \in Requests, NEW t \in Tenants, NEW slug \in Issuers,
             \/ Sign(r, t, slug) \/ Publish(r, t, slug)
             \/ \E token \in tokens : Validate(r, t, slug, token)
      PROVE  TypeOK'
  <2>1. PICK does \in {"sign", "validate", "publish"},
             token \in Tokens \cup {NoToken} : Begin(r, t, slug, does, token)
    BY <1>1 DEF Sign, Publish, Validate, TypeOK
  <2>2. QED
    BY <2>1, BeginType
<1>2. ASSUME NEW r \in Requests, NEW token \in tokens, CheckAdmin(r, token)
      PROVE  TypeOK'
  <2>1. token \in Tokens /\ token.tenant \in Tenants /\ "base" \in Issuers
    BY DEF TypeOK, Tokens, Issuers
  <2>2. QED
    BY <1>2, <2>1, BeginType DEF CheckAdmin
<1>3. ASSUME NEW r \in Requests, Lookup(r) PROVE TypeOK'
  <2> DEFINE s == cache[request[r].tenant]
             pc == IF s = NoService THEN "load" ELSE "use"
  <2>1. request[r].pc # "idle" /\ Goto(r, pc, s)
    BY <1>3 DEF Lookup, At
  <2>2. s \in Services \cup {NoService}
    BY <2>1, BusyTenant DEF TypeOK
  <2>3. pc \in {"load", "use"} /\ (pc = "use" => s \in Services)
    BY <2>2
  <2> HIDE DEF s, pc
  <2>4. request' \in [Requests -> Locals]
    BY <2>1, <2>2, <2>3, GotoType
  <2>5. QED
    BY <1>3, <2>4 DEF Lookup, TypeOK
<1>4. ASSUME NEW r \in Requests, LoadKey(r) PROVE TypeOK'
  <2>1. request[r].pc # "idle"
    BY <1>4 DEF LoadKey, At
  <2>2. PICK pc \in {"load", "create", "store", "use"},
             s \in Services \cup {NoService} :
               Goto(r, pc, s) /\ (pc \in {"store", "use"} => s \in Services)
    <3>1. rows[request[r].tenant] \subseteq Keys
      BY <2>1, BusyTenant DEF TypeOK
    <3>2. \A k \in rows[request[r].tenant] :
            [key |-> k, issuer |-> request[r].slug] \in Services
      BY <2>1, <3>1, BusyTenant DEF Services
    <3>3. QED
      BY <1>4, <3>2 DEF LoadKey, RowsOf
  <2>3. request' \in [Requests -> Locals]
    BY <2>1, <2>2, GotoType
  <2>4. faults' \in 0..MaxFaults
    BY <1>4, KeysAssumption DEF LoadKey, TypeOK
  <2>5. QED
    BY <1>4, <2>3, <2>4 DEF LoadKey, TypeOK
<1>5. ASSUME NEW r \in Requests, CreateKey(r) PROVE TypeOK'
  <2>1. request[r].pc # "idle"
    BY <1>5 DEF CreateKey, At
  <2>2. PICK k \in Keys : /\ InsertKey(request[r].tenant, k)
                          /\ Goto(r, "store", [key |-> k, issuer |-> request[r].slug])
    BY <1>5 DEF CreateKey
  <2>3. [key |-> k, issuer |-> request[r].slug] \in Services
    BY <2>1, BusyTenant DEF Services
  <2>4. request' \in [Requests -> Locals]
    BY <2>1, <2>2, <2>3, GotoType
  <2>5. rows' \in [Tenants -> SUBSET Keys] /\ generated' \in SUBSET Keys
    BY <2>1, <2>2, BusyTenant, InsertType
  <2>6. QED
    BY <1>5, <2>4, <2>5 DEF CreateKey, TypeOK
<1>6. ASSUME NEW r \in Requests, StoreService(r) PROVE TypeOK'
  <2>1. request[r].pc # "idle" /\ request[r].service \in Services
    BY <1>6, BusyTenant DEF StoreService, At
  <2>2. request' \in [Requests -> Locals]
    BY <1>6, <2>1, GotoType DEF StoreService
  <2>3. cache' \in [Tenants -> Services \cup {NoService}]
    BY <1>6, <2>1, BusyTenant DEF StoreService, TypeOK
  <2>4. QED
    BY <1>6, <2>2, <2>3 DEF StoreService, TypeOK
<1>7. ASSUME NEW r \in Requests, Use(r) PROVE TypeOK'
  <2>1. request[r].tenant \in Tenants /\ request[r].service \in Services
    BY <1>7, BusyTenant DEF Use, At
  <2>2. tokens' \in SUBSET Tokens
    BY <1>7, <2>1 DEF Use, TypeOK, Tokens
  <2>3. QED
    BY <1>7, <2>2, AnswerType DEF Use, TypeOK
<1>8. ASSUME NEW r \in Requests, Fail(r) PROVE TypeOK'
  BY <1>8, AnswerType DEF Fail, TypeOK
<1>9. QED
  BY <1>1, <1>2, <1>3, <1>4, <1>5, <1>6, <1>7, <1>8 DEF RequestStep

LEMMA OtherStepType ==
  TypeOK /\ (Restart \/ \E t \in Tenants : DeleteTenant(t)) => TypeOK'
<1> SUFFICES ASSUME TypeOK, Restart \/ \E t \in Tenants : DeleteTenant(t)
             PROVE  TypeOK'
  OBVIOUS
<1> USE DEF keyVars, countVars
<1>1. CASE \E t \in Tenants : DeleteTenant(t)
  BY <1>1 DEF DeleteTenant, TypeOK
<1>2. CASE Restart
  <2>1. /\ rows' \in [Tenants -> SUBSET Keys] /\ generated' \in SUBSET Keys
        /\ faults' \in 0..MaxFaults /\ restarts' \in 0..MaxRestarts
    BY <1>2, InsertType, KeysAssumption DEF Restart, TypeOK
  <2>2. /\ request' \in [Requests -> Locals]
        /\ cache' \in [Tenants -> Services \cup {NoService}]
    BY <1>2, IdleType DEF Restart
  <2>3. QED
    BY <1>2, <2>1, <2>2 DEF Restart, TypeOK
<1>3. QED
  BY <1>1, <1>2

\* The state always has its type; in particular whoever uses a service was
\* given one.
THEOREM TypeCorrect == Spec => []TypeOK
<1>1. Init => TypeOK
  BY IdleType, KeysAssumption DEF Init, TypeOK
<1>2. TypeOK /\ [Next]_vars => TypeOK'
  <2>1. TypeOK /\ UNCHANGED vars => TypeOK'
    BY DEF TypeOK, vars, keyVars, countVars
  <2>2. QED
    BY <2>1, RequestStepType, OtherStepType DEF Next
<1>3. QED
  BY <1>1, <1>2, PTL DEF Spec
-----------------------------------------------------------------------------
(* Keys spread no further than their tenant. *)

\* A step that generates no key uses no key in another tenant's name.
NoNewKey ==
  /\ generated' = generated
  /\ \A t \in Tenants :
       /\ KeysOf(t)' \subseteq KeysOf(t)
       /\ rows'[t] = rows[t] \/ t \notin exists'

NewKey(t, k) ==
  /\ InsertKey(t, k)
  /\ KeysOf(t)' \subseteq KeysOf(t) \cup {k}
  /\ \A s \in Tenants \ {t} : KeysOf(s)' \subseteq KeysOf(s)

\* What the locals of the next state may hold.
RequestsKeep ==
  \A q \in Requests, t \in Tenants, k \in Keys :
    request'[q].tenant = t /\ request'[q].service.key = k => k \in KeysOf(t)

LEMMA Keep ==
  ASSUME UNCHANGED <<rows, generated, cache, tokens>>, RequestsKeep
  PROVE  NoNewKey
BY DEF NoNewKey, RequestsKeep, KeysOf

LEMMA NoKeyIsNone == None \notin Keys /\ NoService.key = None /\ Idle.service = NoService
BY KeysAssumption DEF NoService, Idle

LEMMA BeginKeeps ==
  ASSUME TypeOK, NEW r \in Requests, NEW t, NEW slug, NEW does, NEW token,
         Begin(r, t, slug, does, token)
  PROVE  NoNewKey
<1>1. /\ request'[r].service = NoService
      /\ \A q \in Requests : q # r => request'[q] = request[q]
  BY DEF Begin, TypeOK
<1>2. RequestsKeep
  BY <1>1, NoKeyIsNone DEF RequestsKeep, KeysOf
<1>3. QED
  BY <1>2, Keep DEF Begin, keyVars

LEMMA AnswerKeeps ==
  ASSUME TypeOK, NEW r \in Requests, Answer(r)
  PROVE  RequestsKeep
<1>1. /\ request'[r] = Idle
      /\ \A q \in Requests : q # r => request'[q] = request[q]
  BY DEF Answer, TypeOK
<1>2. QED
  BY <1>1, NoKeyIsNone DEF RequestsKeep, KeysOf

LEMMA GotoKeeps ==
  ASSUME TypeOK, NEW r \in Requests, NEW pc, NEW s, Goto(r, pc, s),
         s.key \in Keys => s.key \in KeysOf(request[r].tenant)
  PROVE  RequestsKeep
<1>1. /\ request'[r].tenant = request[r].tenant /\ request'[r].service = s
      /\ \A q \in Requests : q # r => request'[q] = request[q]
  BY GotoSplit
<1>2. \A q \in Requests, t \in Tenants, k \in Keys :
        request[q].tenant = t /\ request[q].service.key = k => k \in KeysOf(t)
  BY DEF KeysOf
<1>3. QED
  BY <1>1, <1>2 DEF RequestsKeep

LEMMA LookupKeeps ==
  ASSUME TypeOK, NEW r \in Requests, Lookup(r)
  PROVE  NoNewKey
<1> DEFINE s == cache[request[r].tenant]
<1>1. s.key \in Keys => s.key \in KeysOf(request[r].tenant)
  BY DEF KeysOf
<1>2. \E pc : Goto(r, pc, s)
  BY DEF Lookup
<1> HIDE DEF s
<1>3. QED
  BY <1>1, <1>2, GotoKeeps, Keep DEF Lookup, keyVars

LEMMA LoadKeeps ==
  ASSUME TypeOK, NEW r \in Requests, LoadKey(r)
  PROVE  NoNewKey
<1> DEFINE t == request[r].tenant
<1>1. t \in Tenants
  BY BusyTenant DEF LoadKey, At
<1>2. PICK pc, s : /\ Goto(r, pc, s)
                   /\ s = NoService \/ s.key \in rows[t]
  <2>1. CASE \E k \in rows[t] : Goto(r, "store", [key |-> k, issuer |-> request[r].slug])
    <3>1. PICK k \in rows[t] : Goto(r, "store", [key |-> k, issuer |-> request[r].slug])
      BY <2>1
    <3>2. [key |-> k, issuer |-> request[r].slug].key \in rows[t]
      OBVIOUS
    <3>3. QED
      BY <3>1, <3>2
  <2>2. CASE Goto(r, "create", NoService)
    BY <2>2
  <2>3. QED
    BY <2>1, <2>2 DEF LoadKey, RowsOf
<1>3. s.key \in Keys => s.key \in KeysOf(t)
  BY <1>1, <1>2, NoKeyIsNone DEF KeysOf, TypeOK
<1>4. QED
  BY <1>2, <1>3, GotoKeeps, Keep DEF LoadKey, keyVars

LEMMA StoreKeeps ==
  ASSUME TypeOK, NEW r \in Requests, StoreService(r)
  PROVE  NoNewKey
<1> DEFINE t == request[r].tenant
           s == request[r].service
<1>1. t \in Tenants
  BY BusyTenant DEF StoreService, At
<1>2. s.key \in Keys => s.key \in KeysOf(t)
  BY <1>1 DEF KeysOf
<1>3. Goto(r, "use", s) /\ cache' = [cache EXCEPT ![t] = s]
  BY DEF StoreService
<1>4. RequestsKeep
  BY <1>2, <1>3, GotoKeeps
<1>5. \A u \in Tenants, k \in Keys : cache'[u].key = k => k \in KeysOf(u)
  <2>1. \A u \in Tenants : u # t => cache'[u] = cache[u]
    BY <1>3 DEF TypeOK
  <2>2. cache'[t] = s
    BY <1>1, <1>3 DEF TypeOK
  <2>3. QED
    BY <1>2, <2>1, <2>2 DEF KeysOf
<1>6. QED
  BY <1>4, <1>5 DEF StoreService, keyVars, NoNewKey, RequestsKeep, KeysOf

LEMMA UseKeeps ==
  ASSUME TypeOK, NEW r \in Requests, Use(r)
  PROVE  NoNewKey
<1>1. RequestsKeep
  BY AnswerKeeps DEF Use
<1>2. \A token \in tokens', k \in Keys :
        token.by.key = k => token \in tokens \/ (token.tenant = request[r].tenant
                                              /\ request[r].service.key = k)
  BY DEF Use
<1>3. \A t \in Tenants, token \in tokens', k \in Keys :
        token.tenant = t /\ token.by.key = k => k \in KeysOf(t)
  BY <1>2 DEF KeysOf
<1>4. QED
  BY <1>1, <1>3 DEF Use, keyVars, NoNewKey, RequestsKeep, KeysOf

LEMMA CreateMakesNew ==
  ASSUME TypeOK, NEW r \in Requests, CreateKey(r)
  PROVE  \E k \in Keys : NewKey(request[r].tenant, k)
<1> DEFINE t == request[r].tenant
<1>1. t \in Tenants
  BY BusyTenant DEF CreateKey, At
<1>2. PICK k \in Keys : /\ InsertKey(t, k)
                        /\ Goto(r, "store", [key |-> k, issuer |-> request[r].slug])
  BY DEF CreateKey
<1>3. /\ request'[r].tenant = t /\ request'[r].service.key = k
      /\ \A q \in Requests : q # r => request'[q] = request[q]
  <2> DEFINE s == [key |-> k, issuer |-> request[r].slug]
             pc == "store"
  <2>1. s.key = k /\ Goto(r, pc, s)
    BY <1>2
  <2> HIDE DEF s, pc
  <2>2. /\ request'[r].tenant = t /\ request'[r].service = s
        /\ \A q \in Requests : q # r => request'[q] = request[q]
    BY <2>1, GotoSplit, Zenon
  <2>3. QED
    BY <2>1, <2>2
<1>4. rows'[t] = rows[t] \cup {k} /\ \A u \in Tenants : u # t => rows'[u] = rows[u]
  BY <1>1, <1>2 DEF InsertKey, TypeOK
<1>5. UNCHANGED <<cache, tokens>>
  BY DEF CreateKey
<1>6. KeysOf(t)' \subseteq KeysOf(t) \cup {k}
  BY <1>3, <1>4, <1>5 DEF KeysOf
<1>7. \A u \in Tenants \ {t} : KeysOf(u)' \subseteq KeysOf(u)
  BY <1>3, <1>4, <1>5 DEF KeysOf
<1>8. QED
  BY <1>2, <1>6, <1>7 DEF NewKey

LEMMA RestartMakesNew ==
  ASSUME TypeOK, Restart
  PROVE  \/ NoNewKey
         \/ faults' # 0 /\ \E t \in Tenants, k \in Keys : NewKey(t, k)
<1>1. /\ \A t \in Tenants : cache'[t] = NoService
      /\ \A q \in Requests : request'[q] = Idle
      /\ tokens' = tokens
  BY DEF Restart
<1>2. CASE UNCHANGED <<keyVars, faults>>
  BY <1>1, <1>2, NoKeyIsNone DEF NoNewKey, KeysOf, keyVars
<1>3. CASE faults' = faults + 1 /\ \E t \in Default \cap exists, k \in Keys : InsertKey(t, k)
  <2>1. PICK t \in Tenants, k \in Keys : InsertKey(t, k)
    BY <1>3, KeysAssumption
  <2>2. rows'[t] = rows[t] \cup {k} /\ \A u \in Tenants : u # t => rows'[u] = rows[u]
    BY <2>1 DEF InsertKey, TypeOK
  <2>3. KeysOf(t)' \subseteq KeysOf(t) \cup {k}
    BY <1>1, <2>2, NoKeyIsNone DEF KeysOf
  <2>4. \A u \in Tenants \ {t} : KeysOf(u)' \subseteq KeysOf(u)
    BY <1>1, <2>2, NoKeyIsNone DEF KeysOf
  <2>5. NewKey(t, k)
    BY <2>1, <2>3, <2>4 DEF NewKey
  <2>6. faults' # 0
    BY <1>3, KeysAssumption DEF TypeOK
  <2>7. QED
    BY <2>5, <2>6
<1>4. QED
  BY <1>2, <1>3 DEF Restart

\* Every step either generates no key, or one for a tenant: at "create", or at
\* a restart that failed to read it.
LEMMA KeysStep ==
  ASSUME TypeOK, [Next]_vars
  PROVE  \/ NoNewKey
         \/ \E r \in Requests, k \in Keys :
              At(r, "create") /\ request[r].tenant \in Tenants
                /\ NewKey(request[r].tenant, k)
         \/ faults' # 0 /\ \E t \in Tenants, k \in Keys : NewKey(t, k)
<1>1. CASE UNCHANGED vars
  <2>1. RequestsKeep
    BY <1>1 DEF vars, RequestsKeep, KeysOf
  <2>2. QED
    BY <1>1, <2>1, Keep DEF vars, keyVars
<1>2. ASSUME NEW t \in Tenants, DeleteTenant(t) PROVE NoNewKey
  <2>1. \A u \in Tenants : rows'[u] \subseteq rows[u]
                             /\ (rows'[u] = rows[u] \/ u \notin exists')
    BY <1>2 DEF DeleteTenant, TypeOK
  <2>2. UNCHANGED <<generated, cache, tokens, request>>
    BY <1>2 DEF DeleteTenant
  <2>3. QED
    BY <2>1, <2>2 DEF NoNewKey, KeysOf
<1>3. ASSUME NEW r \in Requests, CreateKey(r)
      PROVE  \E k \in Keys : At(r, "create") /\ request[r].tenant \in Tenants
                                /\ NewKey(request[r].tenant, k)
  BY <1>3, CreateMakesNew, BusyTenant DEF CreateKey, At
<1>4. ASSUME NEW r \in Requests, Fail(r) PROVE NoNewKey
  BY <1>4, AnswerKeeps, Keep DEF Fail, keyVars
<1>5. ASSUME NEW r \in Requests,
             \/ \E t \in Tenants, slug \in Issuers :
                  \/ Sign(r, t, slug) \/ Publish(r, t, slug)
                  \/ \E token \in tokens : Validate(r, t, slug, token)
             \/ \E token \in tokens : CheckAdmin(r, token)
      PROVE  NoNewKey
  BY <1>5, BeginKeeps DEF Sign, Publish, Validate, CheckAdmin
<1>6. QED
  BY <1>1, <1>2, <1>3, <1>4, <1>5, LookupKeeps, LoadKeeps, StoreKeeps, UseKeeps,
     RestartMakesNew DEF Next, RequestStep
-----------------------------------------------------------------------------
(* No two tenants share a key. *)

LEMMA StepIsolates ==
  TypeOK /\ KeysIsolated /\ [Next]_vars => KeysIsolated'
<1> SUFFICES ASSUME TypeOK, KeysIsolated, [Next]_vars PROVE KeysIsolated'
  OBVIOUS
<1>1. CASE NoNewKey
  BY <1>1 DEF NoNewKey, KeysIsolated
<1>2. ASSUME NEW t \in Tenants, NEW k \in Keys, NewKey(t, k)
      PROVE  KeysIsolated'
  <2>1. k \notin generated /\ generated' = generated \cup {k}
    BY <1>2 DEF NewKey, InsertKey
  <2>2. \A s \in Tenants : k \notin KeysOf(s) /\ KeysOf(s)' \subseteq generated'
    BY <1>2, <2>1 DEF NewKey, KeysIsolated
  <2>3. QED
    BY <1>2, <2>2 DEF NewKey, KeysIsolated
<1>3. QED
  BY <1>1, <1>2, KeysStep

\* Whatever interleaves, fails, restarts or is deleted: a key is never used in
\* the name of two tenants (LoadOrCreateRSAKey).
THEOREM Isolated == Spec => []KeysIsolated
<1>1. Init => KeysIsolated
  <2> SUFFICES ASSUME Init PROVE KeysIsolated
    OBVIOUS
  <2>1. PICK key \in [Default -> Keys] :
          /\ \A t, s \in Default : key[t] = key[s] => t = s
          /\ rows = [t \in Tenants |-> IF t \in Default THEN {key[t]} ELSE {}]
    BY DEF Init
  <2>2. \A t \in Tenants : KeysOf(t) = rows[t]
    BY <2>1, NoKeyIsNone DEF Init, KeysOf
  <2>3. QED
    BY <2>1, <2>2 DEF Init, KeysIsolated
<1>2. QED
  BY <1>1, StepIsolates, TypeCorrect, PTL DEF Spec
-----------------------------------------------------------------------------
(* The default tenant keeps its key. *)

\* Reads that failed stay counted, and tenants deleted.
LEMMA GoneStays ==
  ASSUME TypeOK, [Next]_vars, faults' = 0, NEW t \in exists'
  PROVE  faults = 0 /\ t \in exists
<1> USE DEF keyVars, countVars
<1>1. exists' \subseteq exists
  BY DEF Next, RequestStep, Sign, Validate, CheckAdmin, Publish, Begin, Lookup,
     LoadKey, CreateKey, StoreService, Use, Fail, DeleteTenant, Restart, vars
<1>2. faults' = faults \/ faults' = faults + 1
  BY DEF Next, RequestStep, Sign, Validate, CheckAdmin, Publish, Begin, Lookup,
     LoadKey, CreateKey, StoreService, Use, Fail, DeleteTenant, Restart, vars
<1>3. QED
  BY <1>1, <1>2, KeysAssumption DEF TypeOK

\* A request comes to "create" only where there was no row or a read failed.
LEMMA NobodyCreates ==
  ASSUME TypeOK, DefaultKeyStays, [Next]_vars, faults' = 0,
         NEW t \in Default \cap exists',
         NEW r \in Requests
  PROVE  ~(At(r, "create") /\ request[r].tenant = t)'
<1> USE DEF keyVars, countVars
<1>1. faults = 0 /\ t \in exists
  BY GoneStays
<1>2. rows[t] # {} /\ ~(At(r, "create") /\ request[r].tenant = t)
  BY <1>1 DEF DefaultKeyStays
<1>3. ASSUME NEW q \in Requests, NEW pc, NEW s, Goto(q, pc, s), pc # "create"
      PROVE  ~(At(r, "create") /\ request[r].tenant = t)'
  BY <1>2, <1>3, GotoSplit DEF At
<1>4. ASSUME NEW q \in Requests, Answer(q)
      PROVE  ~(At(r, "create") /\ request[r].tenant = t)'
  BY <1>2, <1>4 DEF Answer, At, TypeOK, Idle
<1>5. ASSUME NEW q \in Requests, NEW u, NEW slug, NEW does, NEW token,
             Begin(q, u, slug, does, token)
      PROVE  ~(At(r, "create") /\ request[r].tenant = t)'
  BY <1>2, <1>5 DEF Begin, At, TypeOK
<1>6. ASSUME NEW q \in Requests, LoadKey(q)
      PROVE  ~(At(r, "create") /\ request[r].tenant = t)'
  <2>1. CASE rows[request[q].tenant] = {} /\ Goto(q, "create", NoService)
    <3>1. /\ request'[q].tenant = request[q].tenant
          /\ \A p \in Requests : p # q => request'[p] = request[p]
      BY <2>1, GotoSplit
    <3>2. QED
      BY <1>2, <2>1, <3>1 DEF At
  <2>2. CASE \E s : Goto(q, "store", s)
    BY <1>3, <2>2
  <2>3. CASE faults' = faults + 1
    BY <1>1, <2>3
  <2>4. QED
    BY <1>6, <2>1, <2>2, <2>3 DEF LoadKey, RowsOf
<1>7. CASE UNCHANGED request
  BY <1>2, <1>7 DEF At
<1>8. ASSUME NEW q \in Requests,
             \/ \E u \in Tenants, slug \in Issuers :
                  \/ Sign(q, u, slug) \/ Publish(q, u, slug)
                  \/ \E token \in tokens : Validate(q, u, slug, token)
             \/ \E token \in tokens : CheckAdmin(q, token)
      PROVE  ~(At(r, "create") /\ request[r].tenant = t)'
  BY <1>5, <1>8 DEF Sign, Publish, Validate, CheckAdmin
<1>9. ASSUME NEW q \in Requests,
             Lookup(q) \/ CreateKey(q) \/ StoreService(q) \/ Use(q) \/ Fail(q)
      PROVE  ~(At(r, "create") /\ request[r].tenant = t)'
  BY <1>3, <1>4, <1>9 DEF Lookup, CreateKey, StoreService, Use, Fail
<1>10. CASE Restart
  BY <1>10 DEF Restart, At, Idle
<1>11. CASE \E u \in Tenants : DeleteTenant(u)
  BY <1>7, <1>11 DEF DeleteTenant
<1>12. QED
  BY <1>1, <1>6, <1>7, <1>8, <1>9, <1>10, <1>11 DEF Next, RequestStep, vars

LEMMA StepKeepsDefault ==
  TypeOK /\ DefaultKeyStays /\ [Next]_vars => DefaultKeyStays'
<1> SUFFICES ASSUME TypeOK, DefaultKeyStays, [Next]_vars, faults' = 0,
                    NEW t \in Default \cap exists'
             PROVE  /\ \E k \in Keys : rows'[t] = {k} /\ KeysOf(t)' = {k}
                    /\ \A r \in Requests :
                         ~(At(r, "create") /\ request[r].tenant = t)'
  BY DEF DefaultKeyStays
<1>1. \A r \in Requests : ~(At(r, "create") /\ request[r].tenant = t)'
  BY NobodyCreates
<1>2. PICK k \in Keys : faults = 0 /\ t \in exists /\ rows[t] = {k} /\ KeysOf(t) = {k}
  BY GoneStays DEF DefaultKeyStays
<1>3. \A r \in Requests : ~(At(r, "create") /\ request[r].tenant = t)
  BY <1>2 DEF DefaultKeyStays
<1>4. t \in Tenants
  BY KeysAssumption
<1>5. rows'[t] = rows[t] /\ KeysOf(t)' \subseteq KeysOf(t)
  <2>1. CASE NoNewKey
    BY <1>4, <2>1 DEF NoNewKey
  <2>2. ASSUME NEW r \in Requests, NEW l \in Keys,
               At(r, "create"), request[r].tenant \in Tenants,
               NewKey(request[r].tenant, l)
        PROVE  rows'[t] = rows[t] /\ KeysOf(t)' \subseteq KeysOf(t)
    <3>1. request[r].tenant # t
      BY <1>3, <2>2
    <3>2. QED
      BY <1>4, <2>2, <3>1 DEF NewKey, InsertKey, TypeOK
  <2>3. QED
    BY <2>1, <2>2, KeysStep
<1>6. rows'[t] \subseteq KeysOf(t)'
  BY <1>2, <1>5 DEF KeysOf
<1>7. QED
  BY <1>1, <1>2, <1>5, <1>6

\* No request ever generates a second key for the default tenant
\* (main, LoadOrCreateRSAKey).
THEOREM DefaultStays == Spec => []DefaultKeyStays
<1>1. Init => DefaultKeyStays
  <2> SUFFICES ASSUME Init, NEW t \in Default
               PROVE  /\ \E k \in Keys : rows[t] = {k} /\ KeysOf(t) = {k}
                      /\ \A r \in Requests : ~At(r, "create")
    BY DEF DefaultKeyStays
  <2>1. PICK key \in [Default -> Keys] :
          rows = [u \in Tenants |-> IF u \in Default THEN {key[u]} ELSE {}]
    BY DEF Init
  <2>2. t \in Tenants /\ rows[t] = {key[t]} /\ key[t] \in Keys
    BY <2>1, KeysAssumption
  <2>3. KeysOf(t) = {key[t]}
    BY <2>2, NoKeyIsNone DEF Init, KeysOf
  <2>4. \A r \in Requests : ~At(r, "create")
    BY DEF Init, At, Idle
  <2>5. QED
    BY <2>2, <2>3, <2>4
<1>2. QED
  BY <1>1, StepKeepsDefault, TypeCorrect, PTL DEF Spec
-----------------------------------------------------------------------------
(* Overlapping first requests generate one key each at most.                *)

\* The stronger form, which also counts while there is no row.
RowsAndCreators ==
  faults = 0 =>
    \A t \in Tenants :
      /\ IsFiniteSet(rows[t])
      /\ Cardinality(rows[t]) + Cardinality(Creators(t)) <= Cardinality(Requests)

\* What a step without a failing read does to the keys of t: nothing new, a
\* first look that found no row, or one creator that turns into one row.
Quiet(t) == rows'[t] \subseteq rows[t] /\ Creators(t)' \subseteq Creators(t)
FoundNone(t) == rows'[t] = {}
Created(t) ==
  \E r \in Creators(t), k \in Keys :
    rows'[t] = rows[t] \cup {k} /\ Creators(t)' \subseteq Creators(t) \ {r}

LEMMA CreatorsStep ==
  ASSUME TypeOK, [Next]_vars, faults = 0, faults' = 0, NEW t \in Tenants
  PROVE  Quiet(t) \/ FoundNone(t) \/ Created(t)
<1> USE DEF keyVars, countVars
<1>1. ASSUME NEW q \in Requests, NEW pc, NEW s, Goto(q, pc, s), pc # "create"
      PROVE  Creators(t)' \subseteq Creators(t) \ {q}
  <2>1. /\ request'[q].pc # "create"
        /\ \A p \in Requests : p # q => request'[p] = request[p]
    BY <1>1, GotoSplit
  <2>2. QED
    BY <2>1 DEF Creators, At
<1>2. ASSUME NEW q \in Requests, Answer(q)
      PROVE  Creators(t)' \subseteq Creators(t)
  BY <1>2 DEF Answer, Creators, At, TypeOK, Idle
<1>3. ASSUME NEW q \in Requests, NEW u, NEW slug, NEW does, NEW token,
             Begin(q, u, slug, does, token)
      PROVE  Quiet(t)
  BY <1>3 DEF Begin, Creators, At, TypeOK, Quiet
<1>4. ASSUME NEW q \in Requests,
             \/ \E u \in Tenants, slug \in Issuers :
                  \/ Sign(q, u, slug) \/ Publish(q, u, slug)
                  \/ \E token \in tokens : Validate(q, u, slug, token)
             \/ \E token \in tokens : CheckAdmin(q, token)
      PROVE  Quiet(t)
  BY <1>3, <1>4 DEF Sign, Publish, Validate, CheckAdmin
<1>5. ASSUME NEW q \in Requests,
             Lookup(q) \/ StoreService(q) \/ Use(q) \/ Fail(q)
      PROVE  Quiet(t)
  <2>1. UNCHANGED rows
    BY <1>5 DEF Lookup, StoreService, Use, Fail
  <2>2. Creators(t)' \subseteq Creators(t)
    BY <1>1, <1>2, <1>5 DEF Lookup, StoreService, Use, Fail
  <2>3. QED
    BY <2>1, <2>2 DEF Quiet
<1>6. ASSUME NEW q \in Requests, LoadKey(q)
      PROVE  Quiet(t) \/ FoundNone(t)
  <2>1. UNCHANGED rows
    BY <1>6 DEF LoadKey
  <2>2. CASE \E s : Goto(q, "store", s)
    BY <1>1, <2>1, <2>2 DEF Quiet
  <2>3. CASE rows[request[q].tenant] = {} /\ Goto(q, "create", NoService)
    <3>1. /\ request'[q].tenant = request[q].tenant
          /\ \A p \in Requests : p # q => request'[p] = request[p]
      BY <2>3, GotoSplit
    <3>2. CASE request[q].tenant = t
      BY <2>1, <2>3, <3>2 DEF FoundNone
    <3>3. CASE request[q].tenant # t
      BY <2>1, <3>1, <3>3 DEF Quiet, Creators, At
    <3>4. QED
      BY <3>2, <3>3
  <2>4. CASE faults' = faults + 1
    BY <2>4
  <2>5. QED
    BY <1>6, <2>2, <2>3, <2>4 DEF LoadKey, RowsOf
<1>7. ASSUME NEW q \in Requests, CreateKey(q)
      PROVE  Quiet(t) \/ Created(t)
  <2>1. PICK k \in Keys : /\ InsertKey(request[q].tenant, k)
                          /\ Goto(q, "store", [key |-> k, issuer |-> request[q].slug])
    BY <1>7 DEF CreateKey
  <2>2. Creators(t)' \subseteq Creators(t) \ {q}
    BY <1>1, <2>1
  <2>3. CASE request[q].tenant = t
    <3>1. q \in Creators(t) /\ rows'[t] = rows[t] \cup {k}
      BY <1>7, <2>1, <2>3 DEF CreateKey, InsertKey, Creators, TypeOK
    <3>2. QED
      BY <2>2, <3>1 DEF Created
  <2>4. CASE request[q].tenant # t
    <3>1. rows'[t] = rows[t]
      BY <2>1, <2>4 DEF InsertKey, TypeOK
    <3>2. QED
      BY <2>2, <3>1 DEF Quiet
  <2>5. QED
    BY <2>3, <2>4
<1>8. CASE Restart
  <2>1. UNCHANGED rows
    BY <1>8 DEF Restart
  <2>2. Creators(t)' = {}
    BY <1>8 DEF Restart, Creators, At, Idle
  <2>3. QED
    BY <2>1, <2>2 DEF Quiet
<1>9. ASSUME NEW u \in Tenants, DeleteTenant(u)
      PROVE  Quiet(t)
  <2>1. rows'[t] \subseteq rows[t]
    BY <1>9 DEF DeleteTenant, TypeOK
  <2>2. Creators(t)' = Creators(t)
    BY <1>9 DEF DeleteTenant, Creators, At
  <2>3. QED
    BY <2>1, <2>2 DEF Quiet
<1>10. CASE UNCHANGED vars
  BY <1>10 DEF vars, Quiet, Creators, At
<1>11. QED
  BY <1>4, <1>5, <1>6, <1>7, <1>8, <1>9, <1>10 DEF Next, RequestStep

LEMMA StepKeepsCount ==
  ASSUME IsFiniteSet(Requests), TypeOK, RowsAndCreators, [Next]_vars
  PROVE  RowsAndCreators'
<1>1. SUFFICES ASSUME faults' = 0, NEW t \in Tenants
               PROVE  /\ IsFiniteSet(rows'[t])
                      /\ Cardinality(rows'[t]) + Cardinality(Creators(t)')
                           <= Cardinality(Requests)
  BY DEF RowsAndCreators
<1>2. faults = 0
  <2>1. faults' = faults \/ faults' = faults + 1
    BY DEF Next, RequestStep, Sign, Validate, CheckAdmin, Publish, Begin, Lookup,
       LoadKey, CreateKey, StoreService, Use, Fail, DeleteTenant, Restart, vars,
       countVars
  <2>2. QED
    BY <1>1, <2>1, KeysAssumption DEF TypeOK
<1>3. /\ IsFiniteSet(rows[t])
      /\ Cardinality(rows[t]) + Cardinality(Creators(t)) <= Cardinality(Requests)
  BY <1>2 DEF RowsAndCreators
<1>4. /\ IsFiniteSet(Creators(t)) /\ IsFiniteSet(Creators(t)')
      /\ Cardinality(Creators(t)') <= Cardinality(Requests)
  BY FS_Subset DEF Creators
<1>5. /\ Cardinality(Requests) \in Nat /\ Cardinality(rows[t]) \in Nat
      /\ Cardinality(Creators(t)) \in Nat /\ Cardinality(Creators(t)') \in Nat
  BY <1>3, <1>4, FS_CardinalityType
<1>6. CASE Quiet(t)
  <2>1. /\ IsFiniteSet(rows'[t]) /\ Cardinality(rows'[t]) <= Cardinality(rows[t])
        /\ Cardinality(rows'[t]) \in Nat
    BY <1>3, <1>6, FS_Subset, FS_CardinalityType DEF Quiet
  <2>2. Cardinality(Creators(t)') <= Cardinality(Creators(t))
    BY <1>4, <1>6, FS_Subset DEF Quiet
  <2>3. QED
    BY <1>3, <1>5, <2>1, <2>2
<1>7. CASE FoundNone(t)
  <2>1. IsFiniteSet(rows'[t]) /\ Cardinality(rows'[t]) = 0
    BY <1>7, FS_EmptySet DEF FoundNone
  <2>2. QED
    BY <1>4, <1>5, <2>1
<1>8. CASE Created(t)
  <2>1. PICK r \in Creators(t), k \in Keys :
          rows'[t] = rows[t] \cup {k} /\ Creators(t)' \subseteq Creators(t) \ {r}
    BY <1>8 DEF Created
  <2>2. /\ IsFiniteSet(rows'[t]) /\ Cardinality(rows'[t]) \in Nat
        /\ Cardinality(rows'[t]) <= Cardinality(rows[t]) + 1
    <3>1. /\ IsFiniteSet(rows[t] \cup {k})
          /\ Cardinality(rows[t] \cup {k}) =
               IF k \in rows[t] THEN Cardinality(rows[t])
               ELSE Cardinality(rows[t]) + 1
      BY <1>3, FS_AddElement
    <3>2. QED
      BY <1>5, <2>1, <3>1
  <2>3. /\ IsFiniteSet(Creators(t) \ {r})
        /\ Cardinality(Creators(t) \ {r}) = Cardinality(Creators(t)) - 1
    BY <1>4, <2>1, FS_RemoveElement
  <2>4. Cardinality(Creators(t)') <= Cardinality(Creators(t)) - 1
    BY <2>1, <2>3, FS_Subset
  <2>5. QED
    BY <1>3, <1>5, <2>2, <2>4
<1>9. QED
  BY <1>1, <1>2, <1>6, <1>7, <1>8, CreatorsStep

\* Whatever overlaps before a tenant has a key: there are never more keys, and
\* requests about to insert one, than requests at the same time (ForTenant,
\* LoadOrCreateRSAKey).
THEOREM KeysAreFew ==
  ASSUME IsFiniteSet(Requests), Requests # {}
  PROVE  Spec => []KeysPerFirstUse
<1>1. Init => RowsAndCreators
  <2>1. SUFFICES ASSUME Init, NEW t \in Tenants
                 PROVE  /\ IsFiniteSet(rows[t])
                        /\ Cardinality(rows[t]) + Cardinality(Creators(t))
                             <= Cardinality(Requests)
    BY DEF RowsAndCreators
  <2>2. Creators(t) = {}
    BY <2>1 DEF Init, Creators, At, Idle
  <2>3. rows[t] = {} \/ \E k : rows[t] = {k}
    BY <2>1 DEF Init
  <2>4. IsFiniteSet(rows[t]) /\ Cardinality(rows[t]) \in {0, 1}
    BY <2>3, FS_EmptySet, FS_Singleton
  <2>5. Cardinality(Requests) \in Nat /\ Cardinality(Requests) # 0
    BY FS_CardinalityType, FS_EmptySet
  <2>6. QED
    BY <2>2, <2>4, <2>5, FS_EmptySet
<1>2. TypeOK /\ RowsAndCreators /\ [Next]_vars => RowsAndCreators'
  BY StepKeepsCount
<1>3. RowsAndCreators => KeysPerFirstUse
  BY DEF RowsAndCreators, KeysPerFirstUse
<1>4. QED
  BY <1>1, <1>2, <1>3, TypeCorrect, PTL DEF Spec
=============================================================================
