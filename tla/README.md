# Launch Kit in TLA+

A verification project for Launch Kit (`src/`): a multi-tenant identity
provider (OAuth2/OIDC) with an email marketing module, written in Go over
SQLite, with a Vue admin frontend. The modules here describe the backend's
behaviour step by step, TLC checks them on small instances, and TLAPS proves
the results that matter most for every instance.

## 1. The system

One Go process (`src/backend`) serves HTTP over one SQLite database in WAL
mode. Every request runs in its own goroutine and passes the rate limiter and
the tenant middleware; handlers call stores, and a store call is one SQL
statement or one transaction. Nothing else synchronises requests: a handler
that makes two store calls interleaves with all others in between. One
background goroutine sends campaigns, another cleans the rate limiter.

| Component | State | Operations | Talks to |
|---|---|---|---|
| Campaign sender (`marketing/sender.go`) | a queue of 100 requests, the locals of one worker goroutine | Enqueue, Start, processCampaign, fetchAttachment | campaign tables, mail server, attachment host |
| Campaigns (`marketing/store.go`, `handlers.go`) | campaigns, campaign_segments, campaign_recipients | create, update, delete, send, stats, open tracking | sender, contacts, segments |
| Contacts and segments (same files) | contacts, segments, contact_segments | create, import, update, delete, add, remove, unsubscribe | campaigns, activation |
| Signing keys and issuers (`iam/registry.go`, `iam/token.go`, `LoadOrCreateRSAKey`) | keys table, in-memory cache per tenant | ForTenant, sign, validate, JWKS, discovery | every handler that needs a token |
| Authorization codes (`iam/store.go`, `iam/handlers.go`) | auth_codes | authorize, redeem | clients, users, refresh tokens |
| Refresh tokens | refresh_tokens | login, redeem, rotate, revoke | users, clients |
| Accounts (`iam`) | users (hash, role, reset token) | register, authenticate, change and reset password, update, delete, seed | refresh tokens, activation, contacts |
| Activation (`ActivateContact`, `Activate`) | contacts.invite_token, contacts.user_id, users | show form, activate | accounts, contacts |
| Clients (`iam`) | clients | create, update, delete, authenticate | codes |
| Access checks (`CheckAdmin`, `CheckAdminCrossTenant`, `requireAuth`) | claims of a signed token | check role, tenant, audience | registry |
| Tenants (`tenant/tenant.go`) | tenants | create, rename, SMTP, registration flag, delete, resolve a request's tenant | everything |
| Import and export (`tenant/export_import.go`, startup in `main.go`) | all tables | import one, import a batch, export | tenants, accounts, clients, marketing |
| Rate limiter (`middleware_ratelimit.go`) | token buckets and mutexes per address and path | allow, cleanup | login, register, forgot password, token |
| Database (`openDB`, `migrate`) | schema, per-connection pragmas | open, migrate | all stores |
| HTTP glue (`middleware.go`, `hardening.go`, `compat.go`, `tenantctx`) | none | headers, CORS, decoding, test facade | - |
| Frontend (`src/frontend`), demo app (`src/example`) | browser state, notes | views | the HTTP API |

What is hard about it: handlers that read, decide, and write in separate
statements; a worker that runs for minutes on data read once; in-memory state
(queue, key cache, buckets) that a restart loses while the database stays;
tokens that must be good for one use; imports that fail half way; foreign keys
that depend on which pooled connection serves a statement.

What makes each part correct:

- *Sender and campaigns*: a campaign is sent at most once and nobody gets it
  twice; only drafts change; statistics are true; an accepted campaign is
  settled in the end; unsubscribing is respected; what is deleted is not mailed.
- *Contacts and segments*: a row that refers to one that is gone has no effect.
- *Keys and issuers*: what one handler signs every other handler of the same
  tenant accepts, also after a restart, and no other tenant does.
- *Codes, refresh tokens, reset and invite tokens*: each is good once, however
  many requests bring it at the same time; a redeemed, revoked or expired one
  gives nothing; what was issued is accounted to its user and client.
- *Accounts and activation*: one account per address and tenant, one account
  per invitation, and a contact refers to the account it was activated to.
- *Tenants and import*: an export that is imported brings the tenant back or says
  why not; imports do not mix.
- *Rate limiter*: no key is granted more than its burst and its rate allow.

## 2. The plan

Modules in order of importance, with their composition and what they promise:

1. `CampaignLifecycle` (abstract) and `CampaignSender` (detailed, with contacts
   and segments): **done**, section 3.
2. `CampaignSenderProofs`: type correctness, the inductive invariant, at most
   one mail, final outcomes, refinement; `CampaignDeliveryProofs`: what the tables
   say of the mails, deleted and unsubscribed contacts: **done**, section 12.
3. `OneShot` (abstract: a grant is redeemed at most once and never after it was
   voided) and `TokenGrants` (authorization codes, refresh token rotation,
   revocation, user and client deletion, concurrent redemptions), with
   `TokenGrantsProofs`: **done**, sections 4 and 12.
4. `SigningKeys`: `ForTenant` with its unlocked key creation, cached issuers,
   restart, tenant deletion; agreement of what is signed and what is accepted;
   with `SigningKeysProofs`: **done**, sections 5 and 12.
5. `Accounts` (registration, activation by invitation, password change, reset
   links, deletion, against the contacts of the marketing module; reset links
   implement `OneShot`) and `UserAdmin` (roles, tokens that carry them, the
   check below `/admin`, seeding), with `AccountsProofs` and `UserAdminProofs`:
   **done**, sections 6, 7 and 12.
6. `TenantTransfer`: export table by table, import row by row, its failure in
   the middle, the retry, deletion, with `TenantTransferProofs`: **done**,
   sections 8 and 12. Left out: SMTP settings, invitation tokens that an import
   brings, `handleUpdateTenant`.
7. `RateLimiter` with `RateLimiterProofs`: allow and cleanup with their locks,
   bucket arithmetic and the limit: **done**, sections 9 and 12.

Each has an MC module only where symmetry or bounds need one, one passing run
that answers its questions together where its size allows, and proofs in a
`...Proofs` module of its own.

## 3. Campaign sender

`CampaignSender` models one tenant. A database statement, or a transaction, is
one step. Looking the tenant and the admin up and the one statement that
follows are one step: no property here depends on the order of the two. A
handler that reads a *campaign* and acts on what it read is two steps.

| TLA+ | Code |
|---|---|
| `contact[k]`, `segment[s]`, `member` | rows of contacts, segments, contact_segments; "gone" after a delete, ids are never reused |
| `row`, `status`, `text`, `target` | a campaigns row: does it exist, its status, its content (a version number), its campaign_segments |
| `recipient[c][k]`, `opened` | the campaign_recipients row of `c` and `k`: status, opened_at |
| `queue`, `worker` | `CampaignSender.queue` and the locals of `processCampaign` |
| `request[r]` | an admin handler between its read and its write, or blocked in `Enqueue` |
| `mails[c][k]` | not in the program: how many mails of `c` the mail server took for `k` |
| `faults`, `crashes` | count what the bounds limit |

Actions are named after the functions. `ReadDraft` is the read that send,
update and delete share; `Enqueue`, `UpdateWrite` and `DeleteWrite` are what
follows. `Take` to `Finish` are `processCampaign`: `Load` and `Mark` read and
mark the draft, `FetchAttachment` may fail, `Prepare` is the transaction of
`PrepareCampaignRecipients`, `ListRecipients` the read of the recipients,
`SendMail` and `RecordOutcome` one turn of the loop, `Finish` the last status.
`Crash` stops the process and starts it again.

The parameter `fk` of an action is what the connection that served it does with
foreign keys. `openDB` runs the pragma on one connection of a pool, so the code
as built is `FkModes = {TRUE, FALSE}`; `FkModes = {TRUE}` is what the schema
means, or a pool that never opens a second connection. Without it, deletes
neither cascade nor are refused: the rows that refer to what is gone stay. The
passing runs have both.

Abstractions: subject, body and attachment are one version number; names and
addresses are left out (`UpdateContact`, `UpdateSegment` change nothing else);
campaigns and recipients that come with an imported tenant are left to the
import module; the transaction of `Prepare` reads and writes in one step,
because SQLite fails a transaction whose snapshot is stale when it first
writes, which is the `Fault` disjunct; a mail server may take a mail and still
report an error. The SQLite driver's busy time-out is part of `Fault`.

### Runs

| Run | Shows |
|---|---|
| `sender_safety` | With two contacts, one admin request at a time, one restart and connections with and without foreign keys: `TypeOK`, `WorkerOwnsCampaign`, `MailedAtMostOnce`, `SentMeansDelivered`, `MailsAreAccounted`, `OutcomeIsFinal`, `DeletedIsNotMailed`, and that the sender implements `CampaignLifecycle` (`LifecycleSpec`) |
| `sender_live` | With two concurrent admin requests, on both kinds of connections: `UnsubscribedBeforeSending`, `SendHandlerReturns`, and `QueuedIsProcessed` unless a call of the worker failed or the process restarted |
| `draft_race` | violated: a delete or update that read a draft acts on a campaign that is being sent |
| `restart` | violated: a restart loses accepted campaigns |

Two more consequences of the same steps are not runs of their own. The
recipients are read once, so an unsubscription after `ListRecipients`, or the
deletion of the contact, the campaign or the tenant, does not stop a mail:
`UnsubscribedBeforeSending` and `DeletedIsNotMailed` state what is left. And on a
connection without the pragma rows dangle, contrary to the comment at
`tenant.go:154`. `DeletedIsNotMailed` says that they bring no mail about: the
query of the recipients joins the contacts, and the worker gives up on a campaign
it cannot read. They do have another effect, for which there is no
property: the contacts of a segment that was deleted on such a connection stay in
the audience of its campaigns (`Audience`), because `PrepareCampaignRecipients`
joins the link tables and the contacts, not the segments.

### Bounds

One campaign is enough: campaigns share nothing but the queue and the worker,
and a draft that several requests enqueue fills a queue of one slot as the
101st request fills the one in the code. Two contacts are needed for the loop
to be interrupted between mails; two requests for two sends, or a send and an
edit or delete, of the same draft. Two contacts, two requests and both kinds of
connections together are beyond the time a run has, so `sender_safety` takes
one request beside the worker and `sender_live` one contact; what `sender_safety`
shows of double mails and final outcomes is proved for any number of both. One
edit, one failed database call and one restart each reach every branch that
depends on them. All runs set `CHECK_DEADLOCK FALSE`: when the tenant is
deleted, the worker idle and the bounds used up, nothing is left to do in an
instance.

### Fairness

`WF_vars(WorkerStep)`: the worker is a goroutine the runtime schedules, and
each call it makes returns. For the database and the attachment (30 s limit)
this is so in the code; for the mail server it is an assumption, since
`smtp.SendMail` has no time-out. `SF_vars(Enqueue(r))`: a Go channel serves
blocked senders in order, so a handler that waits gets a slot that becomes
free. Requests, faults and restarts are never owed.

## 4. Authorization codes and refresh tokens

`TokenGrants` models one tenant: the rows of auth_codes and refresh_tokens, and
`Requests` handlers that run at the same time, each a few statements long. One
statement is one step.

| TLA+ | Code |
|---|---|
| `code[x]`, `token[t]` | rows of auth_codes and refresh_tokens: "fresh" and "used", "valid" and "revoked"; "gone" when the tenant's deletion took them |
| `issue[g]` | client_id, user_id of the row, and whether a code has a code_challenge |
| `expired` | the rows whose expires_at has passed |
| `users`, `clients`, `tenant` | which rows exist |
| `request[r]` | where a handler stands, the grant it was brought, what it read of its row |
| `yields`, `root`, `revoked` | not in the program: how often a grant was answered with tokens, the login or code a token descends from, the tokens whose revocation was answered |

| Actions | Code |
|---|---|
| `Authorize`, `CreateAuthCode` | `AuthorizePOST`: check client and password, insert the code |
| `Login` | `Login`: check the password; the refresh token comes with `CreateRefreshToken` |
| `ConsumeAuthCode`, `CheckRedemption` | `tokenAuthorizationCode`: one UPDATE claims the code, then client, redirect URI, verifier or secret are checked |
| `ValidateRefreshToken`, `Rotate` | `tokenRefreshToken`: a SELECT, then an UPDATE whose error is ignored |
| `GetUserByID`, `CreateRefreshToken` | the end both grants share |
| `Revoke` | `Revoke`, which answers 200 also when its UPDATE fails |
| `Fail` | any call of a handler fails, or the process stops: what was written stays |
| `Expire`, `DeleteUser`, `DeleteClient`, `DeleteTenant` | the clock and the administrators |

`OneShot` is what a credential that is good once promises, for codes here and
for reset links in `Accounts`. A code maps to it by its row, its expiry
and who holds it: `CreateAuthCode` opens, `ConsumeAuthCode` claims,
`CreateRefreshToken` yields, any way a request ends without tokens abandons,
expiry and tenant deletion void. Refresh tokens do not implement it,
since they are validated by one statement and revoked by another whose error
nobody looks at. What is left to them is stated as `UsedTokenIsRefused`, and as
`OneTokenPerSession`: a session branches only where one of its tokens was
refreshed twice or a revocation failed.

Abstractions: scope, nonce and redirect URI are among the checks that may fail;
a code or token is a model value, so two never coincide; the tokens handed out
besides the refresh token are signed as `SigningKeys` says.

| Run | Shows |
|---|---|
| `grants_safety` | Two overlapping requests, a code, three refresh tokens, a revocation that fails: `TypeOK`, `CodesHeldOnce`, `OneTokenPerSession`, `CodesAreOneShot`, `UsedTokenIsRefused`, `DeletedUserIsShutOut` |

Two more consequences of the same steps are not runs of their own: a refresh
that validated its token before the token was revoked still gets new tokens, and
a login under way while the tenant is deleted leaves a refresh token behind.

One code and two requests suffice for two redemptions of a code to overlap in
every way; three tokens are one and what two overlapping refreshes make of it,
or three generations of a session. Tokens and requests are interchangeable and
no property is a liveness property, so `grants_safety` uses their symmetry.
Deadlock is not checked, since codes and tokens of an instance are used up.
There is no liveness here: a handler owes an answer, not a success.

## 5. Signing keys and issuers

`SigningKeys` models several tenants, because what matters is which of them a
token is good for.

| TLA+ | Code |
|---|---|
| `rows[t]`, `exists` | keys and tenants rows |
| `cache[t]` | `TokenRegistry.cache`: a `TokenService` is a key and an issuer, "slug" for `base/t/{slug}` and "base" for the base URL |
| `request[r]` | a handler: the arguments of `ForTenant`, the service it got, what it wants it for and the token it was brought |
| `Default` | the tenant main knows by id and whose key it loads before it serves |
| `Spellings` | whether requests name their tenant by slug or come without one |
| `generated`, `tokens` | not in the program: all keys ever generated, all tokens signed |

`Sign`, `Validate`, `CheckAdmin` and `Publish` are the kinds of callers and
what they call `ForTenant` with: an admin check has the tenant from the token
and no slug. `Lookup`, `LoadKey`, `CreateKey` and `StoreService` are
`ForTenant` and `LoadOrCreateRSAKey`, between which no lock is held. `Use` is
the signature, the validation or the key set. `Restart` empties the cache and
runs main's loading of the default key, which may fail to find it;
`DeleteTenant` deletes the row and the keys and leaves the cache alone.

Abstractions: a signature verifies with the key that made it and no other; the
audience, the expiry and the claims are left out, so `tokens` holds tokens that
are still good; `SELECT ... LIMIT 1` without an order returns any row.

| Run | Shows |
|---|---|
| `keys_safety` | Two overlapping requests, the default tenant and another, a restart, a read of a key that fails: `TypeOK`, `KeysIsolated`, `DefaultKeyStays`, `KeysPerFirstUse` |
| `keys_restart` | violated: the first caller after a restart decides the issuer, and an admin check has no slug |

Nothing makes a first use of a tenant alone: requests that overlap generate a
key each, and the cached one wins until a restart picks another.
`KeysPerFirstUse` says that this is all, unless a read fails, which makes a
second key too, also for the default tenant. `SignedIsAccepted` fails in more
ways than the trace of `keys_restart` shows: after an admin check came first a
tenant signs with the base issuer until the next restart.

Two tenants are needed for isolation, two requests for the race, three keys for
a tenant that gets two beside the default one's. Keys and requests are
interchangeable and no property is temporal, so `keys_safety` uses their
symmetry. Deadlock is not checked: tenants are deleted and restarts used up.

## 6. Accounts

`Accounts` models the users of one tenant, their passwords, reset links and the
contacts that may be activated to accounts. One statement or transaction is one
step.

| TLA+ | Code |
|---|---|
| `users`, `deleted`, `email`, `password` | the users table; ids of deleted rows do not come back, a password stands for its hash |
| `link[u]`, `recent`, `expired` | reset_token, reset_token_expires_at: `recent` while the rate limit of five minutes looks at it, `expired` after the hour |
| `contact[k]` | the contact's address, user_id and invite_token: "invited", "lapsed" after seven days, "plain" without one |
| `request[r]` | a handler between its statements, with what it read |
| `invitation`, `moved`, `period`, `unread`, `yields` | not in the program: the invitation an account came by, contacts readdressed during their activation, links per five minutes, requests that could not read their limit, passwords set through a link |

| Actions | Code |
|---|---|
| `Register` | `Register`: one INSERT, with (tenant_id, email) unique |
| `ReadInvitation`, `ActivateContact` | `ActivateContact`: the read, then the transaction that inserts the user and updates the contact |
| `AuthenticateUser`, `UpdateUserPassword` | `ChangePassword`: check the current password, write the new one |
| `ForgotPassword`, `GetUserByEmail`, `CreateResetToken` | `ForgotPassword`: limit, user, token; a limit that cannot be read is none |
| `GetUserByResetToken`, `ConsumeResetToken` | `ResetPassword`: validate, then an UPDATE that asks for the token again |
| `CreateContact`, `UpdateContact`, `DeleteContact`, `InvitationLapses` | the contact handlers and the clock |
| `DeleteUser` | `DeleteUser`, refused by the foreign key of contacts.user_id where that is enforced |
| `Fail` | a statement finds nothing or fails, or the process stops |

| Run | Shows |
|---|---|
| `accounts_safety` | Two overlapping requests, two accounts, a contact, three links: `TypeOK`, `LinksPerPeriod`, `OneAccountPerInvitation`, `InvitationIsUsedUp`, `LinksAreOneShot` |

A reset link is claimed and redeemed by one statement (`OneShot`'s `Redeem`),
and a new link takes the place of the old one (`Reissue`); a link that expires
after `GetUserByResetToken` accepted it is still good, so its abstract stage
stays "open" while somebody holds it. `LinksPerPeriod` is the strongest bound
there is: the limit is looked up three statements before the link is written, so
each request handled at the same time may add one. It does not count the links of
requests that could not read the limit: `ResetTokenRateLimited` lets those pass,
and there is no bound on them (a failed read is always possible in the model).
What it says of the others is that such a link does not reopen the limit for
them. `OneAccountPerInvitation`
rests on the address: the UPDATE of the contact does not ask whether it is still
invited, but a second account for it meets the first one's address, unless the
contact was readdressed in between. `InvitationIsUsedUp` has no such exception: it
counts the accounts an invitation ever made together with the requests about to
make one, and so also says that deleting the account, which on a connection
without foreign keys leaves the contact with a reference to nobody, does not
make the invitation good again. A change of the password whose check came before
a reset overwrites the reset; there is no property that says otherwise, and one
that excepted it would repeat the check.

Two addresses are needed to readdress a contact, two accounts for two
activations, three links for one to be replaced while another is held. Rows,
links, addresses, passwords and requests are interchangeable and no property is
a liveness property. Deadlock is not checked: ids are used up.

## 7. Roles and administrators

`UserAdmin` models what `CheckAdmin`, `requireAdmin` and `AdminUserByID` do with
roles, for a platform tenant and others. A token carries the role its user had
when the row was read, and is signed in a later step. The token services that
validate are in `SigningKeys`; here is only which of the valid tokens they refuse
at the moment, because the cached service has another key or issuer.

| TLA+ | Code |
|---|---|
| `users`, `deleted`, `home`, `role` | the users table: tenant_id and role |
| `seed` | the user with the address ADMIN_EMAIL of the default tenant |
| `token[t]`, `valid` | claims of the access tokens signed, and those not expired |
| `refused` | the valid tokens that the service now in the cache of their tenant does not accept |
| `request[r]` | a handler: signing, past its access check, about to update or delete |
| `asked`, `crossed` | not in the program: the role last given to a user, users updated while another update of them was under way |

| Actions | Code |
|---|---|
| `Register`, `Restart` | `CreateUser`; main's `SeedAdmin` at each start, with all requests lost |
| `ReadUser`, `CreateAccessToken`, `CreateServiceToken`, `TokenExpires` | login, code and refresh; client credentials; the clock |
| `ServiceReplaced` | `ForTenant`: an overlapping first use puts another service into the cache |
| `RequireAdmin` | `requireAdmin`: the token's role and tenant, and whether the user exists |
| `GetUserByID`, `UpdateUser` | `UpdateUser`: read the row, write name and role back |
| `CheckNotSelf`, `DeleteUser` | the DELETE branch of `AdminUserByID` with its second validation, whose error is ignored |

| Run | Shows |
|---|---|
| `user_admin_safety` | Two tenants, users, tokens and requests: `TypeOK`, `RoleIsAsAsked`, `DeletedBeginNothing`, `DemotedIsShutOut`, `ChangedByAdmins` |

The properties say what exactly is left of the obvious ones. A demoted
administrator acts as one until its tokens expire; `DemotedIsShutOut` says that
once they have, refreshing does not bring the role back. The tokens of a deleted
administrator are good for as long, but open nothing (`DeletedBeginNothing`):
`CheckAdmin` looks the user up last, after the claims. Roles are the ones
asked for, unless two updates cross (`RoleIsAsAsked`), and a restart makes the
seeded user an administrator whatever was asked.

An administrator can delete itself. The handler takes the id it compares with
from a second validation of the token and ignores its error (`AdminID`); that
validation fails when the token expires between the two, and when the service of
the tenant has been replaced by one with another key or issuer, and then the
handler compares with nothing. (It also fails for a platform token used on
another tenant, whose users do not include the administrator.) `docs/api.md:313`
says "Cannot delete yourself."; the model reaches the deletion in both ways, and
no property claims that it does not.

Two tokens are needed for an administrator that signs one with the old role while
it holds another; two users for one to change the other.

## 8. Import and export of tenants

`TenantTransfer` models tenants as a whole: `rows[t]` is what the tables hold
for the tenant `t`, `file` the last export, and a request that exports or
imports works off `todo`, its rows in the order of the code.

| TLA+ | Code |
|---|---|
| `slug[t]`, `made` | the tenants table; slugs are unique |
| `rows[t]` | the registration flag, users with their roles, clients, segments, contacts with their segments, who unsubscribed, a campaign with segments and recipients |
| `file` | the JSON of an export; for the properties also what was there when the export began, and whether anything disturbed it |
| `request[r]` | `handleExport`, `ImportTenantConfig` or another handler between its statements |
| `origin`, `outcome`, `edited` | not in the program: the file a tenant was made from and what became of its import, tenants changed by other requests |
| `UnfitUsers`, `UnfitContacts`, `UnfitClients`, `Twins` | people and clients whose address, name or redirect URIs the import does not take, and people whose addresses differ only in case |

| Actions | Code |
|---|---|
| `StartExport`, `ReadPart`, `FinishExport` | `handleExport`: a table per step, and one that cannot be read is left out; a seed does not say who unsubscribed (`Forgetful`) and has drafts only |
| `ValidUsers`, `ValidClients`, `Skipped` | `validateUsers` and the loop over the clients, both before the first insert of their kind; a contact that is skipped with a warning |
| `StartImport`, `CreateTenant`, `SetRegistration` | `ImportTenantConfig` up to the tenant: skipped when the slug is there |
| `ImportRow`, `MakeMember`, `FinishImport`, `Refused` | the rest of it, row by row, in both modes: a migration keeps roles, hashes, client ids, campaigns and recipients; a seed makes new clients, takes an existing administrator, and has drafts only |
| `Accepted`, `Dangling` | an INSERT that meets another row; one that refers to a row deleted meanwhile, which is refused or leads nowhere, depending on the connection |
| `Fail` | another statement fails, or the process stops: what was written stays, and a retry is skipped |
| `StartEdit`, `Edit` | any other request to a tenant, from the middleware's lookup to its write |
| `DeleteTenant` | `Delete`: one transaction over the tables with a tenant_id |

| Run | Shows |
|---|---|
| `transfer_safety` | Tenants with rows of each kind, for each role and each status of a campaign, and with what an import skips or refuses: `TypeOK`, `RoundTrip`, `ImportsDoNotMix`, `RefusedForAReason` |
| `export_role` | violated: what the program exports it does not always import (`ExportIsImportable`) |

`RoundTrip` is the promise of the pair: an export nobody disturbed, imported
without an error, brings the tenant back, except for what the code leaves out:
contacts without a name or with a malformed address are skipped, although
`AdminContacts` creates them without complaint, and a seed brings back neither
who unsubscribed nor what is not a draft. Every step that writes to a tenant, an
import's included, disturbs the exports that are reading it (`Disturb`): what
they have read so far and what they will read is of no one moment. That a draft
has no recipients is asked of the beginnings only; no property needs it later.
`RefusedForAReason` lists all there is that ends an import half way: users that
`validateUsers` does not take, clients with a name or URI that is not taken, a
recipient among the contacts that were skipped, a client id in use, an export that
was disturbed, and others' changes to the tenant. Most of these the program lets in
at the front and refuses here; `export_role` shows the one that every tenant
with a registered user meets. `ImportsDoNotMix` is about two imports that both
found the slug free: the unique slug refuses one of them, so a tenant has the
rows of one file, and a half-made tenant is not gone on with by a retry.

A batch is a sequence of imports; startup runs the same code. Abstractions: a
contact and its links to segments are one step, although the code writes them in
two; a link is there when a query that joins it shows it, so one that a
connection without foreign keys lets in, or leaves behind in a deletion, is not
in `rows` (what such rows do is in `CampaignSender`, where they are shown); a
row that is deleted and added again under its old name counts as the same; the
HTTP import handler checks `validateUsers` before it creates the tenant, so a
refusal for a user after the creation is that of a batch or of startup;
attachments and invitation tokens, which a migration loses, and SMTP settings are
left out.

Rows of a table are written by the same loop and refer to rows of earlier tables
only, so one row of each kind that goes through is enough, and beside it one that
does not: three people, of whom two differ in case and one is unfit, two clients
and one that is unfit, one segment (`Full` in `MCTenantTransfer`). Two tenants and
slugs let an import meet the tenant it came from, two requests two imports of one
slug. One export, one edit and one fault each reach every branch that depends on
them, in any order. What takes more
than one export, in particular exporting a tenant that is still being imported,
is beyond the time a run has; for that there is `TenantsComeBack` (section 12),
which is about any number of exports.

## 9. The rate limiter

`RateLimiter` models `allow` and `cleanup` call by call on the two maps:
`LoadOrStore` and `Lock` of the mutex, the clock, `LoadOrStore` of the bucket,
refill, and the decision; the sweep, for a stale key, drops first the bucket and
then the mutex. Buckets and mutexes are objects with an identity, so a request
can hold one that is in no map any more.

| TLA+ | Code |
|---|---|
| `mu`, `entries` | the two `sync.Map`s |
| `holder[m]`, `bucket[b]` | a mutex and an entry: who holds it, its tokens and lastCheck |
| `request[r]`, `cleaner` | the locals of `allow` and of `cleanup` |
| `clock` | `time.Now()`, in ticks; a bucket gets `Rate` in one |
| `Token`, `Limit`, `Rate` | tokens are counted in parts: the code has floating-point numbers, and a limit need not be whole |
| `admitted`, `crossed` | not in the program: requests allowed per key and tick, keys forgotten while a request for them was under way |

| Run | Shows |
|---|---|
| `limiter` | Two requests for one key, a burst of two tokens and a half, one and a half per tick: `TypeOK`, `Serialized`, `WithinLimit`, `RefusedWhenSpent`, `AllowReturns` |

Keys share nothing but the sweep, so one key is enough; three buckets and three
mutexes are more than two requests and a map can hold at once. Five clock values
let a bucket empty, go stale (`Ttl` 2), be forgotten and be made again.
`LimiterAssumption` is main's configuration: limits of at least one token, and a
time to live of five minutes where a bucket is full after one. `floatEnvOr` takes
smaller limits too: with 0.5, say, the first request for a key passes and leaves
the bucket below zero, where it stays below one until cleanup forgets it, so that
no promise of the limiter is left to check. What Go's memory
model makes of `cleanup` reading lastCheck without the mutex is limited to
reading an older or a newer value, since `now.Sub` uses one word of it, the
monotonic clock; both are orders of steps of the model.

Fairness: `WF_vars(Allow(r))`, because each call between `Lock` and `Unlock`
returns; `SF_vars(Lock(r))`, because a `sync.Mutex` hands itself to a waiter that
waited for a millisecond (starvation mode), so newcomers do not overtake for ever.
The key whose bucket is forgotten while a request for it is under way is excepted
from all safety properties: two requests may then hold two mutexes.

## 10. What is not modelled

Listed in `PROJECT.json` under `components`. The frontend, the demo app,
headers, CORS, MIME formatting, page templates and the test facade (`compat.go`)
hold no state the properties are about. `handleUpdateTenant` and `UpdateClient`
overwrite columns that nothing else is decided by; SMTP settings, attachments
and imported invitation tokens are data that is passed on. The audience of
tokens and the fixed tenant of `CheckAdminCrossTenant` are comparisons of
constants.

## 11. Mutants

Operators named `Buggy...` are variants of a definition with one planted
mistake (a missing check, a missing join, a wrong final status). Nothing
uses them in a specification; they show that each property of a passing run
can fail.

## 12. Proofs

`CampaignSenderProofs` proves, for any sets of campaigns, contacts, segments
and requests, any queue capacity, any bounds and either treatment of foreign
keys, from `SenderAssumption` alone:

- `TypeCorrect`: `Spec => []TypeOK`, one lemma per group of actions.
- `OwnsCampaign`: `Spec => []WorkerOwnsCampaign`. It has three parts.
  `DraftsUntouched`: a draft has mailed nobody. `HeldCampaign`: the worker's
  campaign is a draft at `Mark` and afterwards "sending", or its row is gone,
  because only the worker writes a status. `TodoUntouched`: who is still to be
  mailed has no mail and no outcome. Neither part is inductive alone: `Mark`
  needs the first to establish the third, `RecordOutcome` needs the second
  not to touch a draft.
- `AtMostOnce`: `Spec => []MailedAtMostOnce`, since `SendMail` takes its
  contact from `todo` (`FirstMail`). `MailedAtMostOnce` itself is not
  inductive: it does not say whom the worker mails next.
- `OutcomesStay`: `Spec => OutcomeIsFinal`.
- `ImplementsLifecycle`: `Spec => LifecycleSpec`: `Mark` maps to `Begin` (or to
  a stutter when the row is gone), `SendMail` to `Mail`, `Finish` to `Finish`,
  every other action to a stutter.

`CampaignDeliveryProofs` goes on from there, from the same assumption. Its
invariant `Records` joins what the worker has in hand to what the tables say: a
draft has no recipients (`DraftsUnprepared`), whoever is to be mailed was listed
(`TodoListed`), the answer about to be recorded is the mail server's
(`OutcomeTrue`), and as long as all went well each recipient is still to be
mailed, is being recorded, or is recorded as sent (`LoopCovers`). The last one
is what `Finish` needs to write "sent", and none of the two properties is
inductive without it.

- `SentIsTrue`, `AllAccounted`: `Spec => []SentMeansDelivered` and
  `Spec => []MailsAreAccounted`.
- `DeletedIsLeftAlone`: `Spec => DeletedIsNotMailed`, whatever connections do with
  foreign keys. A deleted row does not come back, and who is not in `todo` gets
  there only through `ListRecipients`, which takes what it finds joined.
- `UnsubscribedInTime`: `Spec => UnsubscribedBeforeSending`. A temporal property
  with a precondition: from a state where the contact has unsubscribed and the
  campaign is a draft on, `OutOfReach` stays true (the contact is no recipient,
  has no mail and is not in `todo`).

`TokenGrantsProofs` proves, from `GrantsAssumption` (codes and tokens are
different things and none of them is "nothing"):

- `TypeCorrect`: `Spec => []TypeOK`.
- `HeldOnce`: `Spec => []CodesHeldOnce`. It is inductive given the types: a
  claim needs a fresh code, a fresh code is held by nobody, and only the holder
  yields, after which it holds nothing.
- `CodesGoodOnce`: `Spec => CodesAreOneShot`. Besides `CodesHeldOnce` it needs
  `AuthorizeHoldsNone`, that a request which is about to insert a code has no
  other to give up. Each action maps to one step of `OneShot` or a stutter;
  the deletion of the tenant voids all open codes in one step.
- `OneToken`: `Spec => []OneTokenPerSession`, and `UsedIsRefused`:
  `Spec => UsedTokenIsRefused`. Their invariant is `Sessions`. `OneEndPerSession`
  speaks of the tokens that were never answered, valid or not, because a request
  that revoked its token has still to write the next one; `UsedIsInvalid` says
  that as long as no revocation was lost, a token that was used or is about to be
  is not valid; `NewIsUntouched` and `Rooted` keep a new token out of the sessions
  there are.
- `DeletedIsShutOut`: `Spec => DeletedUserIsShutOut`, from the types alone, since
  only `GetUserByID` and `Login` bring a user to the step that issues.

`SigningKeysProofs` proves, from `KeysAssumption`:

- `TypeCorrect`: `Spec => []TypeOK`.
- `Isolated`: `Spec => []KeysIsolated`. The lemma `KeysStep` says of every step
  that it either generates no key, and then no tenant comes by another one, or
  it generates one for one tenant. `KeysOf` counts in what requests hold and
  what has been signed; about the keys rows alone the invariant would not be
  inductive.
- `DefaultStays`: `Spec => []DefaultKeyStays`. That no request is about to
  generate a key for the default tenant is part of the invariant, since `LoadKey`
  decides and `CreateKey` acts.
- `KeysAreFew`: `Spec => []KeysPerFirstUse`, for a finite set of requests that is
  not empty (the key of the default tenant is there before any request, and the
  bound counts requests). `RowsAndCreators` counts the keys of a tenant together
  with the requests that found none: a step either adds nothing, or lets one
  request that was not counted find no key, or turns one of those into one key.

`RateLimiterProofs` proves, from `LimiterAssumption`:

- `TakeTurns`: `Spec => []Serialized`. Its invariant `Turns` says what a request
  has found: a request that is not idle knows its key and its mutex; between
  `Lock` and `Unlock` it holds that mutex; and unless its key was forgotten
  under it, that mutex is the one the map has for the key. Two requests of one
  key then hold one mutex, which has one holder. `Forgets` is what makes the
  third part inductive: a key the sweep is about to forget has no request under
  way, or counts as crossed.

- `TypeCorrect`: `Spec => []TypeOK`. The invariant `Filling` says of a key that was
  not forgotten under a request that a request with a bucket in hand has the one
  of its key, and that it read the clock after whoever refilled that bucket
  before it; so a refill never takes tokens away, and `Enough` keeps the bucket
  from going below empty. A bucket that is made was nobody's (`FreeBuckets`).
- `LimitHolds`: `Spec => []WithinLimit`, and `RefusalsAreDue`:
  `Spec => RefusedWhenSpent`, from the invariant `Budget`. `Level` says that a
  bucket accounts for what was admitted: for every `a` up to its last refill, its
  tokens and all requests admitted since `a` are at most the allowance from `a` to
  that refill, and for some `a` they are exactly that. The bound gives the limit;
  that it is attained gives the other theorem, because an empty bucket then stands
  for an interval that has had all of its allowance. A key without a bucket has
  made up (`MadeUp`): what was admitted for it is no more than the rate alone
  would have given by some time, and whoever is about to make a bucket read the
  clock after that time. This is where `LimiterAssumption` is needed: cleanup
  forgets a bucket that was idle for longer than the ttl (five minutes in main), in
  which even an empty one would have been filled (after one minute), as
  `LevelDropped` says. `DropsTheOld` carries the age cleanup saw to the step that
  deletes.

  The sums are the library's `SumFunctionOnSet`, a fold that picks its elements
  with CHOOSE. That a sum may be taken apart at any element is proved from the
  smallest subset for which it would be otherwise (`SmallestSubset`, from the
  well-foundedness of strict inclusion), which needs no induction theorem.

`AccountsProofs` proves, from `AccountsAssumption`:

- `TypeCorrect`: `Spec => []TypeOK`. Its invariant `Shape` adds what the other
  proofs need of the ids: a request carries rows and links that exist or
  existed, and a link in a row was created.
- `OneAccount`: `Spec => []OneAccountPerInvitation`. The invariant `Invited` adds
  `UsedUp` (an account's invitation is used up or its contact gone) and
  `OneAddress` (all who activate a contact that was not readdressed have read one
  address, and so has the account it became): the second INSERT then violates the
  uniqueness of the address.
- `UsedUpForGood`: `Spec => []InvitationIsUsedUp`, from `Invited`. `InvitationUseStep`
  says that a step adds nobody to the accounts of an invitation and to those who
  are about to make one, or turns one of the latter into one of the former, or
  happens before there is any account; so the sum stays within the number of
  requests, which `AccountsAssumption` takes to be finite.
- `LinksGoodOnce`: `Spec => LinksAreOneShot`. The invariant `Linked` says that a
  link is in one row at most and has set no password while it is there.
  `CreateResetToken` maps to `Reissue` or, when the old link was good no longer,
  to `Open`; `ConsumeResetToken` to `Redeem`; expiry, deletion and a request that
  gives up to `Void` or a stutter.
- `LinksAreLimited`: `Spec => []LinksPerPeriod`. The invariant `Limited` counts the
  links of the running five minutes together with the requests that passed the
  limit and have still to write theirs (`Pending`, without those that could not
  read it), and says that a link of the period is in the row, where the limit
  finds it. A link that was not counted takes the row of one that was, and is
  found there just as well.

`UserAdminProofs` proves, from `AdminAssumption`, with one invariant,
`Administered`: a token is of a user there was, of that user's tenant or of the
platform (`TokenOfUser`); who signs has read a row (`SignsForUser`); who passed
the access check has shown an administrator's token (`ShowedToken`); and what
`UpdateUser` writes is the role asked for or the one there is (`WritesRole`). A
new row is nobody's that a token or a request speaks of.

- `TypeCorrect`, `RolesAreAsAsked`: `TypeOK` and `RoleIsAsAsked` hold always.
- `DemotedStaysOut`, `OnlyAdminsChange`: the action properties `DemotedIsShutOut`
  and `ChangedByAdmins`, from `ShowedToken`, `TokenOfUser` and `WritesRole`.
- `DeletedAreOut`: `Spec => DeletedBeginNothing`. A request begins to act for a user
  by reading the row or by passing the access check, both of which ask that the
  user is there; what is already under way keeps its token, and no token a
  request carries is signed anew.

`TenantTransferProofs` proves, from `TransferAssumption` and
`BeginningsAssumption`:

- `TypeCorrect`: `Spec => []TypeOK`. The invariant `Shape` adds what a request
  has in hand (`RequestsFit`: its tenant was made, what is left to do is rows of
  its file), that tenants not made yet hold nothing (`TablesFit`), and that a slug
  is of one tenant (`TenantsFit`). Links and recipients lead to rows of
  the tenant because an import writes parents first, which `Due` enforces.
- `ImportsStayApart`: `Spec => []ImportsDoNotMix`. `Apart` says it of requests: two
  never import into one tenant, who imports has the file the tenant is from, and
  its outcome is open exactly as long. `CreateTenant` keeps it because it takes an
  id that never was.
- `TenantsComeBack`: `Spec => []RoundTrip`, for a finite set of clients. The
  invariant `Transfers` follows a tenant all the way: a sound file has what the
  tenant had (`Whole`); a sound export that is under way has read what the
  tenant still has (`Reading`); an import has written what is not left to do,
  table by table, and nothing else (`Importing`, `Progress`), in the order of
  the parts (`Ordered`); and what it has written when it is done is the whole
  file (`Imported`), without the contacts it skips. Two requests never import
  into one tenant. For clients a seed keeps their number only, which is why
  cardinalities appear and the set has to be finite.
- `RefusalsHaveReasons`: `Spec => RefusedForAReason`, from the same invariant: an
  undisturbed import of a file that is `Importable` neither finds the row it
  inserts nor misses the one it refers to (`RowIsAccepted`, `NothingDangles`).

The finite sets that the hypotheses of `KeysAreFew` and `TenantsComeBack` ask
for are no restriction: requests handled at a time and rows of a table are
always finitely many.

Only model-checked: the liveness properties (`QueuedIsProcessed`,
`SendHandlerReturns`, `AllowReturns`), because fairness is out of the prover's
reach. The other properties of the passing runs are all proved.
