--------------------------- MODULE TenantTransfer ---------------------------
(***************************************************************************)
(* Tenants: exporting one into a file, importing the file as another, and  *)
(* deleting one, while requests go on changing them                        *)
(* (backend/tenant/{export_import,tenant}.go).                             *)
(*                                                                         *)
(* Export reads the tables one after the other, and import writes row by   *)
(* row, outside a transaction.  A tenant has one campaign at most.  What   *)
(* has an address or a name is a person or a segment: a row that is        *)
(* deleted and added again under the same name is not told from one that   *)
(* stayed.  A contact and its links to segments are written in one step.   *)
(* Links are those a query that joins them shows: one that leads nowhere,  *)
(* which a connection without foreign keys lets in or leaves behind, is    *)
(* not there.  SMTP settings are left out, and so are what no export       *)
(* brings back: attachments, and invitation tokens.                        *)
(***************************************************************************)
EXTENDS Naturals, FiniteSets

CONSTANTS
  Tenants, Slugs, People, Clients, Segments,
  UnfitUsers,   \* people an import takes for no user, for no contact: their
  UnfitContacts,\*   address or name is empty, too long or malformed
  UnfitClients, \* clients an import refuses for their name or redirect URIs
  Twins,        \* sets of people whose addresses differ only in case
  Requests,     \* requests the server handles at the same time
  None,
  Beginnings,   \* what the tenant may hold at first
  MaxExports, MaxEdits,  \* bounds on exports and on changes by other requests
  MaxFaults     \* bound on statements that fail, or processes that stop

ASSUME TransferAssumption ==
  /\ None \notin Tenants \cup Slugs \cup People \cup Clients \cup Segments
  /\ None \notin Requests
  /\ UnfitUsers \subseteq People /\ UnfitContacts \subseteq People
  /\ UnfitClients \subseteq Clients
  /\ MaxExports \in Nat /\ MaxEdits \in Nat /\ MaxFaults \in Nat

VARIABLES
  slug,       \* slug[t]: of the tenants row; None when there is none
  made,       \* ids of tenants there are or were
  rows,       \* rows[t]: what the other tables hold for t
  file,       \* the last export
  request,    \* locals of the handlers
  origin,     \* origin[t]: the file t was made from
  outcome,    \* outcome[t]: what became of the import that made t
  edited,     \* tenants changed by other requests
  exports, edits, faults

observers == <<origin, outcome, edited>>
counters == <<exports, edits, faults>>
vars == <<slug, made, rows, file, request, observers, counters>>

Roles == {"user", "admin", "member"}
Statuses == {"draft", "sending", "sent", "failed"}
NoCampaign == [status |-> None, segments |-> {}, recipients |-> {}]
Empty ==
  [open |-> FALSE, users |-> [e \in People |-> None], clients |-> {},
   segments |-> {}, contacts |-> [e \in People |-> None], unsubscribed |-> {},
   campaign |-> NoCampaign]

\* What a tenant can hold: links lead to rows of the tenant.
Campaigns ==
  {NoCampaign} \cup
  [status : Statuses, segments : SUBSET Segments, recipients : SUBSET People]
Tables ==
  [open : BOOLEAN, users : [People -> {None, "user", "admin", "member"}],
   clients : SUBSET Clients, segments : SUBSET Segments,
   contacts : [People -> {None} \cup SUBSET Segments],
   unsubscribed : SUBSET People, campaign : Campaigns]
LinksLead(x) ==
  /\ \A e \in People : x.contacts[e] \in {None} \cup SUBSET x.segments
  /\ x.campaign.segments \subseteq x.segments
Consistent(x) ==
  \A e \in x.campaign.recipients \cup x.unsubscribed : x.contacts[e] # None

ASSUME BeginningsAssumption ==
  /\ None \notin Roles \cup Statuses /\ \A S \in SUBSET Segments : S # None
  /\ \A x \in Beginnings :
       /\ x \in Tables /\ LinksLead(x) /\ Consistent(x)
       /\ x.campaign.status = "draft" => x.campaign.recipients = {}

\* A file, and, for the properties, what was exported into it and whether
\* nothing got in the way of the export.
NoFile == [mode |-> None, rows |-> Empty, source |-> Empty, sound |-> TRUE]
Idle == [job |-> "idle", tenant |-> None, slug |-> None, file |-> NoFile,
         todo |-> {}, user |-> None]

Parts == {"open", "users", "clients", "segments", "contacts", "campaign",
          "recipients"}
Rank(p) == CASE p = "open" -> 0 [] p = "users" -> 1 [] p = "clients" -> 2
             [] p = "segments" -> 3 [] p = "contacts" -> 4
             [] p = "campaign" -> 5 [] p = "recipients" -> 6
Row(p, k) == [part |-> p, key |-> k]

Exists(t) == slug[t] # None
BySlug(s) == {t \in Tenants : slug[t] = s}

TypeOK ==
  /\ slug \in [Tenants -> Slugs \cup {None}]
  /\ {t \in Tenants : Exists(t)} \subseteq made /\ made \subseteq Tenants
  /\ \A t, u \in Tenants : slug[t] = slug[u] /\ Exists(t) => t = u
  /\ \A t \in made :
       rows[t] \in Tables /\ LinksLead(rows[t]) /\ Consistent(rows[t])
  /\ \A t, u \in Tenants : t # u => rows[t].clients \cap rows[u].clients = {}
  /\ \A r \in Requests :
       /\ request[r].job \in {"idle", "edit", "export", "create", "import"}
       /\ request[r].job \in {"edit", "export", "import"} =>
            request[r].tenant \in made
  /\ outcome \in [Tenants -> {"none", "running", "done", "refused", "broken"}]
  /\ edited \subseteq made
  /\ exports \in 0..MaxExports /\ edits \in 0..MaxEdits /\ faults \in 0..MaxFaults

Init ==
  \E t \in Tenants, s \in Slugs, x \in Beginnings :
    /\ slug = [u \in Tenants |-> IF u = t THEN s ELSE None]
    /\ made = {t}
    /\ rows = [u \in Tenants |-> IF u = t THEN x ELSE Empty]
    /\ file = NoFile
    /\ request = [r \in Requests |-> Idle]
    /\ origin = [u \in Tenants |-> NoFile]
    /\ outcome = [u \in Tenants |-> "none"]
    /\ edited = {}
    /\ exports = 0 /\ edits = 0 /\ faults = 0

Become(r, locals) == request' = [request EXCEPT ![r] = locals]
Answer(r) == Become(r, Idle)

\* A step that writes to t; the exports that are reading t are no longer of one
\* state of it.
Disturb(t, r, locals) ==
  request' = [q \in Requests |->
     IF q = r THEN locals
     ELSE IF request[q].job = "export" /\ request[q].tenant = t
     THEN [request[q] EXCEPT !.file.sound = FALSE] ELSE request[q]]

\* Mutant: rows are written as they come.
BuggyDue(r, row) == row \in request[r].todo

\* The rows are read and written in the order of their parts.
Due(r, row) ==
  /\ row \in request[r].todo
  /\ \A other \in request[r].todo : Rank(row.part) <= Rank(other.part)
Rest(r, row) == request[r].todo \ {row}
-----------------------------------------------------------------------------
(***************************************************************************)
(* Export.                                                                 *)
(***************************************************************************)
StartExport(r, t, mode) ==
  /\ request[r].job = "idle" /\ Exists(t) /\ exports < MaxExports
  /\ exports' = exports + 1
  /\ Become(r, [Idle EXCEPT
       !.job = "export", !.tenant = t,
       !.file = [mode |-> mode, source |-> rows[t], sound |-> TRUE,
                 rows |-> [Empty EXCEPT !.open = rows[t].open]],
       !.todo = {Row(p, None) : p \in Parts \ {"open", "recipients"}}])
  /\ UNCHANGED <<slug, made, rows, file, observers, edits, faults>>

\* Mutant: the segments of the campaign are those it has now.
BuggySegmentNames(seen, S) == {}

\* The campaign's segments are named by those read before it.
SegmentNames(seen, S) == seen.segments \cap S

\* A seed has drafts only, and no recipients.
CampaignOf(x, seen, mode) ==
  IF mode = "seed" /\ x.status # "draft" THEN NoCampaign
  ELSE [x EXCEPT !.segments = SegmentNames(seen, @)]

\* A seed does not say who has unsubscribed.
Forgetful(mode, x) == IF mode = "seed" THEN {} ELSE x.unsubscribed

\* A part that cannot be read is left out, and nobody is told.
ReadPart(r, row) ==
  LET q == request[r]
      now == rows[q.tenant]
      seen == q.file.rows
      read == CASE row.part = "users" -> [seen EXCEPT !.users = now.users]
                [] row.part = "clients" -> [seen EXCEPT !.clients = now.clients]
                [] row.part = "segments" -> [seen EXCEPT !.segments = now.segments]
                [] row.part = "contacts" ->
                     [seen EXCEPT !.contacts = now.contacts,
                                  !.unsubscribed = Forgetful(q.file.mode, now)]
                [] row.part = "campaign" ->
                     [seen EXCEPT !.campaign =
                        CampaignOf(now.campaign, seen, q.file.mode)]
  IN /\ q.job = "export" /\ Due(r, row)
     /\ \/ /\ request' = [request EXCEPT ![r].file.rows = read,
                                         ![r].todo = Rest(r, row)]
           /\ UNCHANGED faults
        \/ /\ faults < MaxFaults /\ faults' = faults + 1
           /\ request' = [request EXCEPT ![r].file.sound = FALSE,
                                         ![r].todo = Rest(r, row)]
     /\ UNCHANGED <<slug, made, rows, file, observers, exports, edits>>

FinishExport(r) ==
  /\ request[r].job = "export" /\ request[r].todo = {}
  /\ file' = request[r].file
  /\ Answer(r)
  /\ UNCHANGED <<slug, made, rows, observers, counters>>
-----------------------------------------------------------------------------
(***************************************************************************)
(* Import.                                                                 *)
(***************************************************************************)
\* What a file asks for, row by row.
RowsOf(f) ==
  (IF f.rows.open THEN {Row("open", None)} ELSE {})
    \cup {Row("users", e) : e \in {e \in People : f.rows.users[e] # None}}
    \cup {Row("clients", c) : c \in f.rows.clients}
    \cup {Row("segments", s) : s \in f.rows.segments}
    \cup {Row("contacts", e) : e \in {e \in People : f.rows.contacts[e] # None}}
    \cup (IF f.rows.campaign = NoCampaign THEN {} ELSE {Row("campaign", None)})
    \cup {Row("recipients", e) : e \in f.rows.campaign.recipients}

\* GetBySlug: when the tenant is there, the import is skipped.
StartImport(r, s) ==
  /\ request[r].job = "idle" /\ file.mode # None
  /\ BySlug(s) = {}
  /\ Become(r, [Idle EXCEPT !.job = "create", !.slug = s, !.file = file,
                            !.todo = RowsOf(file)])
  /\ UNCHANGED <<slug, made, rows, file, observers, counters>>

\* Mutant: the import goes on with the tenant that is already there.
BuggyCreateTenant(r, t) ==
  /\ request[r].job = "create"
  /\ IF BySlug(request[r].slug) = {} THEN t \notin made
     ELSE t \in BySlug(request[r].slug)
  /\ slug' = [slug EXCEPT ![t] = request[r].slug]
  /\ made' = made \cup {t}
  /\ origin' = [origin EXCEPT ![t] = request[r].file]
  /\ outcome' = [outcome EXCEPT ![t] = "running"]
  /\ request' = [request EXCEPT ![r].job = "import", ![r].tenant = t]
  /\ UNCHANGED <<rows, file, edited, counters>>

\* Slugs are unique: another import of the file may have been faster.
CreateTenant(r, t) ==
  /\ request[r].job = "create" /\ t \notin made
  /\ BySlug(request[r].slug) = {}
  /\ slug' = [slug EXCEPT ![t] = request[r].slug]
  /\ made' = made \cup {t}
  /\ origin' = [origin EXCEPT ![t] = request[r].file]
  /\ outcome' = [outcome EXCEPT ![t] = "running"]
  /\ request' = [request EXCEPT ![r].job = "import", ![r].tenant = t]
  /\ UNCHANGED <<rows, file, edited, counters>>

\* UpdateRegistrationEnabled, if the file says so; its error is ignored.
SetRegistration(r) ==
  LET row == Row("open", None)
      t == request[r].tenant
  IN /\ request[r].job = "import" /\ Due(r, row)
     /\ \/ /\ rows' = IF Exists(t) THEN [rows EXCEPT ![t].open = TRUE] ELSE rows
           /\ UNCHANGED faults
        \/ faults < MaxFaults /\ faults' = faults + 1 /\ UNCHANGED rows
     /\ Disturb(t, r, [request[r] EXCEPT !.todo = Rest(r, row)])
     /\ UNCHANGED <<slug, made, file, observers, exports, edits>>

\* validateUsers, before the first user is inserted: no two addresses that
\* differ only in case, nobody unfit, and not the role of those who registered.
ValidUsers(f) ==
  LET users == {e \in People : f.rows.users[e] # None}
  IN /\ \A twins \in Twins : ~(twins \subseteq users)
     /\ users \cap UnfitUsers = {}
     /\ \A e \in users : f.rows.users[e] # "user"

\* All clients are looked at before the first is inserted.
ValidClients(f) == f.rows.clients \cap UnfitClients = {}

\* Mutant: the ids of clients are unique within a tenant.
BuggyUnused(c) == TRUE

Unused(c) == \A t \in Tenants : c \notin rows[t].clients
KnownSegments(f, S) == S \cap f.rows.segments

\* A contact the import does not like is left out with a warning.
Skipped(row) == row.part = "contacts" /\ row.key \in UnfitContacts

\* Whether the row is valid, and its INSERT meets no other.  SeedAdmin takes a
\* user that is already there; a recipient is a contact of this import, or is
\* looked up by its address.
Accepted(r, row) ==
  LET f == request[r].file
      now == rows[request[r].tenant]
      k == row.key
  IN CASE row.part = "users" ->
            /\ ValidUsers(f)
            /\ now.users[k] = None
                 \/ (f.mode = "seed" /\ f.rows.users[k] = "admin")
       [] row.part = "clients" ->
            ValidClients(f) /\ (f.mode = "migration" => Unused(k))
       [] row.part = "segments" -> k \notin now.segments
       [] row.part = "contacts" -> Skipped(row) \/ now.contacts[k] = None
       [] row.part = "campaign" -> TRUE
       [] row.part = "recipients" ->
            \/ f.rows.contacts[k] # None /\ k \notin UnfitContacts
            \/ now.contacts[k] # None

\* Whether the row refers to one that has been deleted since it was inserted:
\* where foreign keys are enforced it is refused, elsewhere the link is lost.
Dangling(r, row) ==
  LET f == request[r].file
      now == rows[request[r].tenant]
      k == row.key
  IN CASE row.part = "contacts" ->
            /\ ~Skipped(row)
            /\ ~(KnownSegments(f, f.rows.contacts[k]) \subseteq now.segments)
       [] row.part = "campaign" ->
            ~(KnownSegments(f, f.rows.campaign.segments) \subseteq now.segments)
       [] row.part = "recipients" ->
            now.contacts[k] = None \/ now.campaign = NoCampaign
       [] OTHER -> FALSE

\* CreateUser knows one role; a migration and SeedAdmin give the row its own.
RoleInserted(f, e) ==
  IF f.mode = "seed" /\ f.rows.users[e] = "member" THEN "user"
  ELSE f.rows.users[e]

\* A migration keeps the ids of clients, a seed gives them new ones; what is
\* unfit stays so.
ClientIds(f, row) ==
  IF row.part # "clients" THEN {None}
  ELSE IF f.mode = "migration" THEN {row.key}
  ELSE {c \in Clients \ UnfitClients : Unused(c)}

Written(f, now, row, c) ==
  LET k == row.key
  IN CASE row.part = "users" -> [now EXCEPT !.users[k] = RoleInserted(f, k)]
       [] row.part = "clients" -> [now EXCEPT !.clients = @ \cup {c}]
       [] row.part = "segments" -> [now EXCEPT !.segments = @ \cup {k}]
       [] row.part = "contacts" ->
            IF Skipped(row) THEN now
            ELSE [now EXCEPT
                   !.contacts[k] = KnownSegments(f, f.rows.contacts[k]) \cap now.segments,
                   !.unsubscribed = @ \cup ({k} \cap f.rows.unsubscribed)]
       [] row.part = "campaign" ->
            [now EXCEPT !.campaign =
               [status |-> f.rows.campaign.status, recipients |-> {},
                segments |-> KnownSegments(f, f.rows.campaign.segments) \cap now.segments]]
       [] row.part = "recipients" ->
            IF now.contacts[k] = None \/ now.campaign = NoCampaign THEN now
            ELSE [now EXCEPT !.campaign.recipients = @ \cup {k}]

ImportRow(r, row) ==
  LET q == request[r]
      t == q.tenant
  IN /\ q.job = "import" /\ q.user = None
     /\ Due(r, row) /\ row.part # "open" /\ Accepted(r, row)
     /\ \E c \in ClientIds(q.file, row) :
          rows' = [rows EXCEPT ![t] = Written(q.file, @, row, c)]
     /\ LET unfinished == row.part = "users" /\ q.file.rows.users[row.key] = "member"
                            /\ q.file.mode = "seed"
        IN Disturb(t, r, [q EXCEPT !.todo = Rest(r, row),
                                   !.user = IF unfinished THEN row.key ELSE None])
     /\ UNCHANGED <<slug, made, file, observers, counters>>

\* UpdateUser of the user just created.
MakeMember(r) ==
  LET e == request[r].user
      t == request[r].tenant
  IN /\ request[r].job = "import" /\ e # None /\ rows[t].users[e] # None
     /\ rows' = [rows EXCEPT ![t].users[e] = "member"]
     /\ Disturb(t, r, [request[r] EXCEPT !.user = None])
     /\ UNCHANGED <<slug, made, file, observers, counters>>

FinishImport(r) ==
  /\ request[r].job = "import" /\ request[r].todo = {} /\ request[r].user = None
  /\ outcome' = [outcome EXCEPT ![request[r].tenant] = "done"]
  /\ Answer(r)
  /\ UNCHANGED <<slug, made, rows, file, origin, edited, counters>>

\* The first row that is not accepted ends the import; what was written stays.
Refused(r) ==
  LET q == request[r]
  IN /\ \/ q.job = "create" /\ BySlug(q.slug) # {}
        \/ /\ q.job = "import" /\ q.user = None
           /\ \E row \in q.todo :
                /\ row.part # "open" /\ Due(r, row)
                /\ ~Accepted(r, row) \/ Dangling(r, row)
        \/ q.job = "import" /\ q.user # None /\ rows[q.tenant].users[q.user] = None
     /\ outcome' = IF q.job = "import"
                   THEN [outcome EXCEPT ![q.tenant] = "refused"] ELSE outcome
     /\ Answer(r)
     /\ UNCHANGED <<slug, made, rows, file, origin, edited, counters>>

\* Any other statement fails, or the process stops.
Fail(r) ==
  LET q == request[r]
  IN /\ q.job # "idle" /\ faults < MaxFaults
     /\ faults' = faults + 1
     /\ outcome' = IF q.job = "import"
                   THEN [outcome EXCEPT ![q.tenant] = "broken"] ELSE outcome
     /\ Answer(r)
     /\ UNCHANGED <<slug, made, rows, file, origin, edited, exports, edits>>
-----------------------------------------------------------------------------
(***************************************************************************)
(* Everybody else.                                                         *)
(***************************************************************************)
\* A user becomes an admin, or is deleted.
OldUsers(x) ==
  {[x EXCEPT !.users[e] = role] :
     e \in {e \in People : x.users[e] # None}, role \in {"admin", None}}

\* A contact is added, with its segments.
NewContacts(x) ==
  {[x EXCEPT !.contacts[e] = S] :
     e \in {e \in People : x.contacts[e] = None}, S \in SUBSET x.segments}

\* The campaign is sent to the contacts of its segments.
Audience(x) ==
  {e \in People \ x.unsubscribed :
     x.contacts[e] # None /\ x.contacts[e] \cap x.campaign.segments # {}}

\* What one request changes, of the rows x of a tenant.
Edited(x) ==
  LET contacts == {e \in People : x.contacts[e] # None}
      draft == x.campaign.status = "draft"
  IN {[x EXCEPT !.users[e] = "user"] : e \in People}
       \cup OldUsers(x) \cup NewContacts(x)
       \cup {[x EXCEPT !.contacts[e] = None, !.unsubscribed = @ \ {e},
                       !.campaign.recipients = @ \ {e}] : e \in contacts}
       \cup {[x EXCEPT !.unsubscribed = @ \cup {e}] : e \in contacts}
       \cup {[x EXCEPT !.segments = @ \cup {s}] : s \in Segments \ x.segments}
       \cup {[x EXCEPT !.segments = @ \ {s},
                !.contacts = [e \in People |->
                                IF @[e] = None THEN None ELSE @[e] \ {s}],
                !.campaign.segments = @ \ {s}] : s \in x.segments}
       \cup {[x EXCEPT !.campaign = [status |-> "draft", segments |-> S,
                                     recipients |-> {}]] :
               S \in IF x.campaign = NoCampaign THEN SUBSET x.segments ELSE {}}
       \cup {[x EXCEPT !.campaign.status = y, !.campaign.recipients = Audience(x)] :
               y \in IF draft THEN {"sent", "failed"} ELSE {}}
       \cup {[x EXCEPT !.campaign = y] : y \in IF draft THEN {NoCampaign} ELSE {}}

\* Middleware finds the tenant, and the handler writes later.
StartEdit(r, t) ==
  /\ request[r].job = "idle" /\ Exists(t) /\ edits < MaxEdits
  /\ edits' = edits + 1
  /\ Become(r, [Idle EXCEPT !.job = "edit", !.tenant = t])
  /\ UNCHANGED <<slug, made, rows, file, observers, exports, faults>>

Edit(r) ==
  LET t == request[r].tenant
  IN /\ request[r].job = "edit"
     /\ \E x \in Edited(rows[t]) : rows' = [rows EXCEPT ![t] = x]
     /\ edited' = edited \cup {t}
     /\ Disturb(t, r, Idle)
     /\ UNCHANGED <<slug, made, file, origin, outcome, counters>>

\* Delete: one transaction, over the tables with a tenant_id; the links of the
\* rows go with them, or lead nowhere.  A request under way is not stopped, and
\* what it inserts later stays.
DeleteTenant(t) ==
  /\ Exists(t)
  /\ slug' = [slug EXCEPT ![t] = None]
  /\ rows' = [rows EXCEPT ![t] = Empty]
  /\ Disturb(t, None, Idle)
  /\ UNCHANGED <<made, file, origin, outcome, edited, counters>>

Next ==
  \/ \E r \in Requests :
       \/ \E t \in Tenants, mode \in {"seed", "migration"} : StartExport(r, t, mode)
       \/ \E row \in request[r].todo : ReadPart(r, row) \/ ImportRow(r, row)
       \/ \E s \in Slugs : StartImport(r, s)
       \/ \E t \in Tenants : CreateTenant(r, t) \/ StartEdit(r, t)
       \/ FinishExport(r) \/ SetRegistration(r) \/ MakeMember(r)
       \/ FinishImport(r) \/ Refused(r) \/ Fail(r) \/ Edit(r)
  \/ \E t \in Tenants : DeleteTenant(t)

Spec == Init /\ [][Next]_vars
-----------------------------------------------------------------------------
(***************************************************************************)
(* What the component gets right.                                          *)
(***************************************************************************)
\* The rows x a tenant has after the import of an export of the rows y.
Restores(x, y, mode) ==
  /\ x.users = y.users /\ x.segments = y.segments
  /\ \A e \in People :
       x.contacts[e] = IF e \in UnfitContacts THEN None ELSE y.contacts[e]
  /\ IF mode = "migration"
     THEN /\ x.clients = y.clients
          /\ x.unsubscribed = y.unsubscribed \ UnfitContacts
     ELSE Cardinality(x.clients) = Cardinality(y.clients) /\ x.unsubscribed = {}
  /\ x.campaign = IF mode = "migration" \/ y.campaign.status = "draft"
                  THEN y.campaign ELSE NoCampaign

\* An export during which nothing was changed and no table could not be read,
\* imported without an error, brings the tenant back, without the contacts the
\* import skips: a migration with those who unsubscribed, the campaigns and
\* their recipients, a seed with its drafts and nobody unsubscribed
\* (handleExport, ImportTenantConfig).
RoundTrip ==
  \A t \in made :
    Exists(t) /\ outcome[t] = "done" /\ t \notin edited /\ origin[t].sound =>
      /\ Restores(rows[t], origin[t].source, origin[t].mode)
      /\ rows[t].open = origin[t].source.open \/ faults > 0

\* An import is refused after it created the tenant only for what the file says
\* (a user or a client that is not valid, a recipient among the contacts that
\* were skipped), for a client whose id is still in use, for an export that
\* others disturbed, or because others changed the tenant it was making
\* (ImportTenantConfig).
Importable(f) ==
  /\ ValidUsers(f) /\ ValidClients(f)
  /\ f.rows.campaign.recipients \cap UnfitContacts = {}
Disputed(t) ==
  \/ t \in edited \/ ~Exists(t) \/ ~origin[t].sound
  \/ origin[t].mode = "migration"
       /\ \E u \in Tenants \ {t} : rows[u].clients \cap origin[t].rows.clients # {}
IsRefused(t) == outcome[t] = "running" /\ outcome'[t] = "refused"
RefusedForAReason ==
  [][\A t \in Tenants : IsRefused(t) => Disputed(t) \/ ~Importable(origin[t])]_vars

\* Two imports into one slug do not mix, although both may have found it free:
\* as long as an import is under way one request works on its tenant, with the
\* file the tenant is from, and afterwards none does (ImportTenantConfig,
\* CreateWithSMTP).
ImportsDoNotMix ==
  \A t \in Tenants :
    LET importers == {r \in Requests :
                        request[r].job = "import" /\ request[r].tenant = t}
    IN IF outcome[t] = "running"
       THEN \E r \in importers : importers = {r} /\ request[r].file = origin[t]
       ELSE importers = {}

(***************************************************************************)
(* What a document says and the code does not keep.                        *)
(***************************************************************************)
\* What was exported can be imported.
ExportIsImportable == [][\A t \in Tenants : IsRefused(t) => Disputed(t)]_vars
=============================================================================
