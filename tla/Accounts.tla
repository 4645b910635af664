------------------------------ MODULE Accounts ------------------------------
(***************************************************************************)
(* The accounts of one tenant: how they come into being (registration, an  *)
(* invitation), how their password changes (the form, a reset link), and   *)
(* how they are deleted, between edits of the contacts that invitations    *)
(* belong to (backend/iam/{store,handlers}.go, marketing/store.go).        *)
(*                                                                         *)
(* One statement, or one transaction, is one step.  A row's id is fresh;   *)
(* ids of deleted rows do not come back.  A password stands for its hash,  *)
(* a link for the reset token in it, and a contact for its one invitation: *)
(* no code writes a second token to a contact.  Names and roles are in     *)
(* UserAdmin, the deletion of the tenant in TenantTransfer.                *)
(***************************************************************************)
EXTENDS Naturals, FiniteSets

CONSTANTS
  Users, Contacts,      \* ids of rows
  Emails, Passwords, Links,
  Requests,             \* requests the server handles at the same time
  None,
  FkModes               \* whether connections enforce foreign keys

ASSUME AccountsAssumption ==
  /\ None \notin Users \cup Contacts \cup Emails \cup Passwords \cup Links
  /\ IsFiniteSet(Requests)
  /\ FkModes \subseteq BOOLEAN

VARIABLES
  users, deleted,         \* the rows there are, and those there were
  email, password, link,  \* columns of the users table
  recent,                 \* users whose link is not five minutes old
  issued, expired,        \* links created, and those of them an hour old
  contact,                \* the contacts table
  request,                \* locals of the handlers
  invitation,             \* invitation[u]: the one the account u was made by
  moved,                  \* contacts readdressed during their activation
  unread,                 \* requests that could not read the limit on links
  period,                 \* links of a user in the running five minutes, of
                          \* requests that could
  yields                  \* yields[l]: passwords set through the link l

userVars == <<users, deleted, email, password, link, recent, issued, expired>>
observerVars == <<invitation, moved, unread, period, yields>>
vars == <<userVars, contact, request, observerVars>>

NoContact == [state |-> "none", email |-> None, user |-> None]
Idle == [pc |-> "idle", user |-> None, email |-> None, item |-> None]

ContactRows ==
  [state : {"none", "plain", "invited", "lapsed", "gone"},
   email : Emails \cup {None}, user : Users \cup {None}]
Locals ==
  [pc : {"idle", "activate", "forgot", "create", "consume", "change"},
   user : Users \cup {None}, email : Emails \cup {None},
   item : Contacts \cup Links \cup Passwords \cup {None}]

TypeOK ==
  /\ users \in SUBSET Users
  /\ deleted \in SUBSET (Users \ users)
  /\ email \in [Users -> Emails \cup {None}]
  /\ password \in [Users -> Passwords \cup {None}]
  /\ link \in [Users -> Links \cup {None}]
  /\ recent \in SUBSET users
  /\ issued \in SUBSET Links
  /\ expired \in SUBSET issued
  /\ contact \in [Contacts -> ContactRows]
  /\ request \in [Requests -> Locals]
  /\ invitation \in [Users -> Contacts \cup {None}]
  /\ moved \in SUBSET Contacts
  /\ unread \in SUBSET Requests
  /\ period \in [Users -> Nat]
  /\ yields \in [Links -> Nat]

Init ==
  /\ users = {} /\ deleted = {}
  /\ email = [u \in Users |-> None]
  /\ password = [u \in Users |-> None]
  /\ link = [u \in Users |-> None]
  /\ recent = {} /\ issued = {} /\ expired = {}
  /\ contact = [k \in Contacts |-> NoContact]
  /\ request = [r \in Requests |-> Idle]
  /\ invitation = [u \in Users |-> None]
  /\ moved = {} /\ unread = {}
  /\ period = [u \in Users |-> 0]
  /\ yields = [l \in Links |-> 0]

Become(r, pc, u, e, x) ==
  request' = [request EXCEPT ![r] =
                [pc |-> pc, user |-> u, email |-> e, item |-> x]]
Answer(r) == request' = [request EXCEPT ![r] = Idle]

(***************************************************************************)
(* New accounts.                                                           *)
(***************************************************************************)
\* The INSERT: (tenant_id, email) is unique.
InsertUser(u, e, p) ==
  /\ u \notin users \cup deleted
  /\ \A v \in users : email[v] # e
  /\ users' = users \cup {u}
  /\ email' = [email EXCEPT ![u] = e]
  /\ password' = [password EXCEPT ![u] = p]

Register(u, e, p) ==
  /\ InsertUser(u, e, p)
  /\ UNCHANGED <<deleted, link, recent, issued, expired, contact, request,
                 observerVars>>

\* Mutant: whoever follows the link gets an account.
BuggyReadInvitation(r, k) ==
  /\ request[r].pc = "idle"
  /\ contact[k].state \notin {"none", "gone"}
  /\ Become(r, "activate", None, contact[k].email, k)
  /\ UNCHANGED <<userVars, contact, observerVars>>

\* ActivateContact, up to its transaction.
ReadInvitation(r, k) ==
  /\ request[r].pc = "idle"
  /\ contact[k].state = "invited" /\ contact[k].user = None
  /\ Become(r, "activate", None, contact[k].email, k)
  /\ UNCHANGED <<userVars, contact, observerVars>>

\* The transaction: the address is the one read, and the UPDATE asks neither
\* whether the contact is still there nor whether it is still invited.
ActivateContact(r, u, p) ==
  LET k == request[r].item
  IN /\ request[r].pc = "activate"
     /\ InsertUser(u, request[r].email, p)
     /\ contact' = IF contact[k].state = "gone" THEN contact
                   ELSE [contact EXCEPT ![k].state = "plain", ![k].user = u]
     /\ invitation' = [invitation EXCEPT ![u] = k]
     /\ Answer(r)
     /\ UNCHANGED <<deleted, link, recent, issued, expired, moved, unread,
                    period, yields>>

(***************************************************************************)
(* The contacts.                                                           *)
(***************************************************************************)
LiveContact(k) == contact[k].state \notin {"none", "gone"}
FreeAddress(e) == \A k \in Contacts : LiveContact(k) => contact[k].email # e

\* CreateContact and the import of contacts invite whom they add.
CreateContact(k, e) ==
  /\ contact[k].state = "none" /\ FreeAddress(e)
  /\ contact' = [contact EXCEPT ![k] =
                   [state |-> "invited", email |-> e, user |-> None]]
  /\ UNCHANGED <<userVars, request, observerVars>>

\* That it writes back the address it read when only the name is to change is
\* one more edit of the address.
UpdateContact(k, e) ==
  /\ LiveContact(k) /\ FreeAddress(e)
  /\ contact' = [contact EXCEPT ![k].email = e]
  /\ moved' = IF \E r \in Requests :
                   request[r].pc = "activate" /\ request[r].item = k
              THEN moved \cup {k} ELSE moved
  /\ UNCHANGED <<userVars, request, invitation, unread, period, yields>>

DeleteContact(k) ==
  /\ LiveContact(k)
  /\ contact' = [contact EXCEPT ![k] = [NoContact EXCEPT !.state = "gone"]]
  /\ UNCHANGED <<userVars, request, observerVars>>

\* Seven days later.
InvitationLapses(k) ==
  /\ contact[k].state = "invited"
  /\ contact' = [contact EXCEPT ![k].state = "lapsed"]
  /\ UNCHANGED <<userVars, request, observerVars>>

(***************************************************************************)
(* Passwords.                                                              *)
(***************************************************************************)
\* ChangePassword: the user by the token's id, the password by its address,
\* which is the same row while there is one: addresses do not change.
AuthenticateUser(r, u, p) ==
  /\ request[r].pc = "idle"
  /\ u \in users /\ password[u] = p
  /\ Become(r, "change", u, None, p)
  /\ UNCHANGED <<userVars, contact, observerVars>>

\* Mutant: the UPDATE inserts the row it does not find.
BuggyRowIsThere(r) == TRUE

\* An UPDATE by id has a row to change.
RowIsThere(r) == request[r].user \in users

UpdateUserPassword(r, p) ==
  /\ request[r].pc = "change" /\ RowIsThere(r)
  /\ password' = [password EXCEPT ![request[r].user] = p]
  /\ Answer(r)
  /\ UNCHANGED <<users, deleted, email, link, recent, issued, expired, contact,
                 observerVars>>

\* Mutant: the limit is looked up for links that have expired.
BuggyRateLimited(e) ==
  \E u \in users : email[u] = e /\ link[u] \in expired

RateLimited(e) == \E u \in recent : email[u] = e /\ link[u] # None

\* ForgotPassword: the limit, the user of the address, the token, the mail.  A
\* limit that cannot be read is none.
ForgotPassword(r, e) ==
  /\ request[r].pc = "idle"
  /\ \/ ~RateLimited(e) /\ UNCHANGED unread
     \/ unread' = unread \cup {r}
  /\ Become(r, "forgot", None, e, None)
  /\ UNCHANGED <<userVars, contact, invitation, moved, period, yields>>

GetUserByEmail(r, u) ==
  /\ request[r].pc = "forgot"
  /\ u \in users /\ email[u] = request[r].email
  /\ Become(r, "create", u, None, None)
  /\ UNCHANGED <<userVars, contact, observerVars>>

\* The new link takes the place of the one there is.
CreateResetToken(r, l) ==
  LET u == request[r].user
  IN /\ request[r].pc = "create" /\ RowIsThere(r)
     /\ l \notin issued
     /\ issued' = issued \cup {l}
     /\ link' = [link EXCEPT ![u] = l]
     /\ recent' = recent \cup {u}
     /\ period' = IF r \in unread THEN period ELSE [period EXCEPT ![u] = @ + 1]
     /\ unread' = unread \ {r}
     /\ Answer(r)
     /\ UNCHANGED <<users, deleted, email, password, expired, contact,
                    invitation, moved, yields>>

GetUserByResetToken(r, u) ==
  /\ request[r].pc = "idle"
  /\ link[u] # None /\ link[u] \notin expired
  /\ Become(r, "consume", u, None, link[u])
  /\ UNCHANGED <<userVars, contact, observerVars>>

\* Mutant: the UPDATE does not ask for the token.
BuggyTokenMatches(r) == request[r].user \in users

TokenMatches(r) == link[request[r].user] = request[r].item

\* The UPDATE asks for the token again, not for its expiry.
ConsumeResetToken(r, p) ==
  LET u == request[r].user
  IN /\ request[r].pc = "consume" /\ TokenMatches(r)
     /\ password' = [password EXCEPT ![u] = p]
     /\ link' = [link EXCEPT ![u] = None]
     /\ recent' = recent \ {u}
     /\ period' = [period EXCEPT ![u] = 0]
     /\ yields' = [yields EXCEPT ![request[r].item] = @ + 1]
     /\ Answer(r)
     /\ UNCHANGED <<users, deleted, email, issued, expired, contact, invitation,
                    moved, unread>>

FiveMinutesPass(u) ==
  /\ u \in recent
  /\ recent' = recent \ {u}
  /\ period' = [period EXCEPT ![u] = 0]
  /\ UNCHANGED <<users, deleted, email, password, link, issued, expired,
                 contact, request, invitation, moved, unread, yields>>

LinkExpires(u) ==
  /\ link[u] # None /\ u \notin recent /\ link[u] \notin expired
  /\ expired' = expired \cup {link[u]}
  /\ UNCHANGED <<users, deleted, email, password, link, recent, issued,
                 contact, request, observerVars>>

\* A request finds nothing, an INSERT hits a row with the address, an UPDATE
\* no row, a statement fails or the process stops: what was written stays.
Fail(r) ==
  /\ request[r].pc # "idle"
  /\ Answer(r)
  /\ unread' = unread \ {r}
  /\ UNCHANGED <<userVars, contact, invitation, moved, period, yields>>

(***************************************************************************)
(* Deletion: contacts.user_id refers to users, without a cascade.          *)
(***************************************************************************)
Referred(u) == \E k \in Contacts : contact[k].user = u

DeleteUser(u, fk) ==
  /\ u \in users /\ (fk => ~Referred(u))
  /\ users' = users \ {u}
  /\ deleted' = deleted \cup {u}
  /\ email' = [email EXCEPT ![u] = None]
  /\ password' = [password EXCEPT ![u] = None]
  /\ link' = [link EXCEPT ![u] = None]
  /\ recent' = recent \ {u}
  /\ period' = [period EXCEPT ![u] = 0]
  /\ UNCHANGED <<issued, expired, contact, request, invitation, moved, unread,
                 yields>>

AccountStep ==
  \/ \E u \in Users, e \in Emails, p \in Passwords : Register(u, e, p)
  \/ \E r \in Requests, u \in Users, p \in Passwords :
       ActivateContact(r, u, p) \/ AuthenticateUser(r, u, p)
  \/ \E r \in Requests, p \in Passwords :
       UpdateUserPassword(r, p) \/ ConsumeResetToken(r, p)
  \/ \E r \in Requests, u \in Users :
       GetUserByEmail(r, u) \/ GetUserByResetToken(r, u)
  \/ \E r \in Requests, e \in Emails : ForgotPassword(r, e)
  \/ \E r \in Requests, l \in Links : CreateResetToken(r, l)
  \/ \E r \in Requests : Fail(r)
  \/ \E u \in Users : FiveMinutesPass(u) \/ LinkExpires(u)
  \/ \E u \in Users, fk \in FkModes : DeleteUser(u, fk)

ContactStep ==
  \/ \E r \in Requests, k \in Contacts : ReadInvitation(r, k)
  \/ \E k \in Contacts, e \in Emails : CreateContact(k, e) \/ UpdateContact(k, e)
  \/ \E k \in Contacts : DeleteContact(k) \/ InvitationLapses(k)

Next == AccountStep \/ ContactStep

Spec == Init /\ [][Next]_vars
-----------------------------------------------------------------------------
(***************************************************************************)
(* What the component gets right.                                          *)
(***************************************************************************)
\* A reset link sets at most one password, however many follow it at the same
\* time, and none once it was replaced or its account deleted, nor when it
\* had expired before the request came (ConsumeResetToken).
Held(l) == \E r \in Requests : request[r].pc = "consume" /\ request[r].item = l
LinkStage ==
  [l \in Links |->
     IF l \notin issued THEN "none"
     ELSE IF yields[l] > 0 THEN "spent"
     ELSE IF /\ \E u \in users : link[u] = l
             /\ l \notin expired \/ Held(l) THEN "open" ELSE "void"]
ResetLink == INSTANCE OneShot
               WITH Grants <- Links, stage <- LinkStage, yields <- yields
LinksAreOneShot == ResetLink!Spec

\* Within five minutes nobody gets more links than requests are handled at the
\* same time, unless one was used: the limit is looked up three statements
\* before the link is written (ForgotPassword).  Links asked for while the limit
\* could not be read are not counted: ResetTokenRateLimited lets them pass.
LinksPerPeriod == \A u \in Users : period[u] <= Cardinality(Requests)

\* Two accounts come from one invitation only when the contact was readdressed
\* while it was being activated: otherwise the second INSERT meets the first
\* (ActivateContact).
OneAccountPerInvitation ==
  \A u, v \in users :
    u # v /\ invitation[u] = invitation[v] /\ invitation[u] # None =>
      invitation[u] \in moved

\* However contacts are readdressed and accounts deleted meanwhile, the accounts
\* an invitation ever made, and those that requests are about to make of it,
\* are no more than requests handled at the same time: once it has made one,
\* nobody begins to use it again, not even when that account is deleted and the
\* contact left with a reference to nobody (ActivateContact, DeleteUser).
MadeBy(k) == {u \in Users : invitation[u] = k}
Activating(k) ==
  {r \in Requests : request[r].pc = "activate" /\ request[r].item = k}
InvitationIsUsedUp ==
  \A k \in Contacts :
    Cardinality(MadeBy(k)) + Cardinality(Activating(k)) <= Cardinality(Requests)
=============================================================================
