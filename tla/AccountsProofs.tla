--------------------------- MODULE AccountsProofs ---------------------------
(***************************************************************************)
(* Proofs about Accounts, for any users, contacts, addresses, passwords,   *)
(* links and requests, and either treatment of foreign keys.               *)
(***************************************************************************)
EXTENDS Accounts, FiniteSetTheorems, TLAPS

Known == users \cup deleted

\* What a request carries from one statement to the next.
Carries(r) ==
  /\ request[r].pc = "activate" =>
       /\ request[r].item \in Contacts
       /\ contact[request[r].item].state # "none"
  /\ request[r].pc \in {"create", "consume", "change"} => request[r].user \in Known
  /\ request[r].pc = "consume" => request[r].item \in issued

\* A link in a row was created, and the row is there.
LinksAreIssued ==
  \A u \in Users : link[u] # None => u \in users /\ link[u] \in issued

Shape == TypeOK /\ LinksAreIssued /\ \A r \in Requests : Carries(r)

LEMMA InitShape == Init => Shape
<1> SUFFICES ASSUME Init PROVE Shape
  OBVIOUS
<1>1. TypeOK
  BY DEF Init, TypeOK, ContactRows, Locals, NoContact, Idle
<1>2. LinksAreIssued
  BY DEF Init, LinksAreIssued
<1>3. \A r \in Requests : Carries(r)
  BY DEF Init, Carries, Idle
<1> QED BY <1>1, <1>2, <1>3 DEF Shape

\* What a request becomes, and that it is in the table of requests then.
LEMMA BecomeFacts ==
  ASSUME TypeOK, NEW r \in Requests, NEW pc, NEW u, NEW e, NEW x,
         Become(r, pc, u, e, x)
  PROVE  /\ request'[r].pc = pc /\ request'[r].user = u
         /\ request'[r].email = e /\ request'[r].item = x
         /\ \A q \in Requests : q # r => request'[q] = request[q]
         /\ [pc |-> pc, user |-> u, email |-> e, item |-> x] \in Locals =>
              request' \in [Requests -> Locals]
BY DEF TypeOK, Become

LEMMA AnswerFacts ==
  ASSUME TypeOK, NEW r \in Requests, Answer(r)
  PROVE  /\ request'[r].pc = "idle"
         /\ \A q \in Requests : q # r => request'[q] = request[q]
         /\ request' \in [Requests -> Locals]
BY DEF TypeOK, Answer, Idle, Locals

\* The steps that only change what requests carry.
LEMMA BecomeShape ==
  ASSUME Shape, NEW r \in Requests, NEW pc, NEW u, NEW e, NEW x,
         Become(r, pc, u, e, x),
         [pc |-> pc, user |-> u, email |-> e, item |-> x] \in Locals,
         UNCHANGED <<userVars, contact, invitation, moved, period, yields>>,
         unread' \in SUBSET Requests, Carries(r)'
  PROVE  Shape'
<1> USE DEF userVars
<1>1. /\ request' \in [Requests -> Locals]
      /\ \A q \in Requests : q # r => request'[q] = request[q]
  BY BecomeFacts DEF Shape
<1>2. TypeOK'
  BY <1>1 DEF Shape, TypeOK
<1>3. LinksAreIssued' /\ \A q \in Requests : Carries(q)'
  BY <1>1 DEF Shape, LinksAreIssued, Carries, Known
<1> QED BY <1>2, <1>3 DEF Shape

\* The steps that change tables: what is carried stays true of them, when rows
\* stay known and contacts stay there.
LEMMA CarriesFrame ==
  ASSUME Shape, Known \subseteq Known', issued \subseteq issued',
         \A k \in Contacts : contact[k].state # "none" => contact'[k].state # "none",
         \A q \in Requests : request'[q] = request[q] \/ request'[q].pc = "idle"
  PROVE  \A q \in Requests : Carries(q)'
BY DEF Shape, Carries

LEMMA InsertUserFacts ==
  ASSUME TypeOK, NEW u \in Users, NEW e \in Emails \cup {None}, NEW p \in Passwords,
         InsertUser(u, e, p), UNCHANGED deleted
  PROVE  /\ users' \in SUBSET Users /\ deleted' \in SUBSET (Users \ users')
         /\ email' \in [Users -> Emails \cup {None}]
         /\ password' \in [Users -> Passwords \cup {None}]
         /\ Known' = Known \cup {u} /\ u \notin Known
BY DEF TypeOK, InsertUser, Known

LEMMA RegisterShape ==
  ASSUME Shape, NEW u \in Users, NEW e \in Emails, NEW p \in Passwords,
         Register(u, e, p)
  PROVE  Shape'
<1> USE DEF Register, observerVars
<1>1. /\ users' \in SUBSET Users /\ deleted' \in SUBSET (Users \ users')
      /\ email' \in [Users -> Emails \cup {None}]
      /\ password' \in [Users -> Passwords \cup {None}]
      /\ Known' = Known \cup {u}
  BY InsertUserFacts DEF Shape
<1>2. TypeOK'
  BY <1>1 DEF Shape, TypeOK, InsertUser
<1>3. \A q \in Requests : Carries(q)'
  BY <1>1, CarriesFrame
<1>4. LinksAreIssued'
  BY DEF Shape, TypeOK, LinksAreIssued, InsertUser
<1> QED BY <1>2, <1>3, <1>4 DEF Shape

LEMMA ActivateContactShape ==
  ASSUME Shape, NEW r \in Requests, NEW u \in Users, NEW p \in Passwords,
         ActivateContact(r, u, p)
  PROVE  Shape'
<1> DEFINE k == request[r].item
<1>1. /\ k \in Contacts /\ contact[k].state # "none"
      /\ request[r].email \in Emails \cup {None}
      /\ InsertUser(u, request[r].email, p)
      /\ contact' = IF contact[k].state = "gone" THEN contact
                    ELSE [contact EXCEPT ![k].state = "plain", ![k].user = u]
      /\ invitation' = [invitation EXCEPT ![u] = k]
      /\ Answer(r)
      /\ UNCHANGED <<deleted, link, recent, issued, expired, moved, unread,
                     period, yields>>
  BY DEF ActivateContact, Shape, Carries, TypeOK, Locals
<1>2. /\ users' \in SUBSET Users /\ deleted' \in SUBSET (Users \ users')
      /\ email' \in [Users -> Emails \cup {None}]
      /\ password' \in [Users -> Passwords \cup {None}]
      /\ Known' = Known \cup {u}
  BY <1>1, InsertUserFacts DEF Shape
<1>3. /\ request' \in [Requests -> Locals]
      /\ \A q \in Requests : request'[q] = request[q] \/ request'[q].pc = "idle"
  BY <1>1, AnswerFacts DEF Shape
<1>4. /\ contact' \in [Contacts -> ContactRows]
      /\ \A c \in Contacts : contact[c].state # "none" => contact'[c].state # "none"
  BY <1>1 DEF Shape, TypeOK, ContactRows
<1>5. TypeOK'
  BY <1>1, <1>2, <1>3, <1>4 DEF Shape, TypeOK, InsertUser
<1>6. \A q \in Requests : Carries(q)'
  BY <1>1, <1>2, <1>3, <1>4, CarriesFrame
<1>7. LinksAreIssued'
  BY <1>1 DEF Shape, TypeOK, LinksAreIssued, InsertUser
<1> QED BY <1>5, <1>6, <1>7 DEF Shape

LEMMA ReadShape ==
  ASSUME Shape, NEW r \in Requests
  PROVE  /\ \A k \in Contacts : ReadInvitation(r, k) => Shape'
         /\ \A u \in Users, p \in Passwords : AuthenticateUser(r, u, p) => Shape'
         /\ \A e \in Emails : ForgotPassword(r, e) => Shape'
         /\ \A u \in Users : GetUserByEmail(r, u) => Shape'
         /\ \A u \in Users : GetUserByResetToken(r, u) => Shape'
<1> USE DEF Locals, observerVars
<1>0. unread \in SUBSET Requests
  BY DEF Shape, TypeOK
<1>1. ASSUME NEW k \in Contacts, ReadInvitation(r, k)
      PROVE  Shape'
  <2>1. contact[k].email \in Emails \cup {None}
    BY DEF Shape, TypeOK, ContactRows
  <2>2. Carries(r)'
    BY <1>1, BecomeFacts DEF ReadInvitation, Carries, Shape
  <2> QED BY <1>0, <1>1, <2>1, <2>2, BecomeShape DEF ReadInvitation
<1>2. ASSUME NEW u \in Users, NEW p \in Passwords, AuthenticateUser(r, u, p)
      PROVE  Shape'
  <2>1. Carries(r)'
    BY <1>2, BecomeFacts DEF AuthenticateUser, Carries, Shape, Known, userVars
  <2> QED BY <1>0, <1>2, <2>1, BecomeShape DEF AuthenticateUser
<1>3. ASSUME NEW e \in Emails, ForgotPassword(r, e)
      PROVE  Shape'
  <2>1. Carries(r)'
    BY <1>3, BecomeFacts DEF ForgotPassword, Carries, Shape
  <2>2. unread' \in SUBSET Requests
    BY <1>0, <1>3 DEF ForgotPassword
  <2> QED BY <1>3, <2>1, <2>2, BecomeShape DEF ForgotPassword
<1>4. ASSUME NEW u \in Users, GetUserByEmail(r, u)
      PROVE  Shape'
  <2>1. Carries(r)'
    BY <1>4, BecomeFacts DEF GetUserByEmail, Carries, Shape, Known, userVars
  <2> QED BY <1>0, <1>4, <2>1, BecomeShape DEF GetUserByEmail
<1>5. ASSUME NEW u \in Users, GetUserByResetToken(r, u)
      PROVE  Shape'
  <2>1. Carries(r)'
    BY <1>5, BecomeFacts
       DEF GetUserByResetToken, Carries, Shape, LinksAreIssued, Known, userVars
  <2>2. link[u] \in Links
    BY <1>5 DEF GetUserByResetToken, Shape, TypeOK
  <2> QED BY <1>0, <1>5, <2>1, <2>2, BecomeShape DEF GetUserByResetToken
<1> QED BY <1>1, <1>2, <1>3, <1>4, <1>5

LEMMA PasswordShape ==
  ASSUME Shape, NEW r \in Requests, NEW p \in Passwords,
         UpdateUserPassword(r, p) \/ ConsumeResetToken(r, p)
  PROVE  Shape'
<1>1. /\ request' \in [Requests -> Locals]
      /\ \A q \in Requests : request'[q] = request[q] \/ request'[q].pc = "idle"
  BY AnswerFacts DEF UpdateUserPassword, ConsumeResetToken, Shape
<1>2. TypeOK'
  BY <1>1 DEF UpdateUserPassword, ConsumeResetToken, observerVars, Shape, TypeOK
<1>3. \A q \in Requests : Carries(q)'
  BY <1>1, CarriesFrame DEF UpdateUserPassword, ConsumeResetToken, Known
<1>4. LinksAreIssued'
  BY DEF UpdateUserPassword, ConsumeResetToken, observerVars, Shape, TypeOK, LinksAreIssued
<1> QED BY <1>2, <1>3, <1>4 DEF Shape

LEMMA CreateResetTokenShape ==
  ASSUME Shape, NEW r \in Requests, NEW l \in Links, CreateResetToken(r, l)
  PROVE  Shape'
<1>1. /\ request' \in [Requests -> Locals]
      /\ \A q \in Requests : request'[q] = request[q] \/ request'[q].pc = "idle"
  BY AnswerFacts DEF CreateResetToken, Shape
<1>2. TypeOK'
  BY <1>1 DEF CreateResetToken, RowIsThere, Shape, TypeOK
<1>3. \A q \in Requests : Carries(q)'
  BY <1>1, CarriesFrame DEF CreateResetToken, Known
<1>4. LinksAreIssued'
  BY DEF CreateResetToken, RowIsThere, Shape, TypeOK, LinksAreIssued
<1> QED BY <1>2, <1>3, <1>4 DEF Shape

LEMMA FailShape ==
  ASSUME Shape, NEW r \in Requests, Fail(r)
  PROVE  Shape'
<1>1. /\ request' \in [Requests -> Locals]
      /\ \A q \in Requests : request'[q] = request[q] \/ request'[q].pc = "idle"
  BY AnswerFacts DEF Fail, Shape
<1>2. TypeOK'
  BY <1>1 DEF Fail, Shape, TypeOK, userVars
<1>3. \A q \in Requests : Carries(q)'
  BY <1>1, CarriesFrame DEF Fail, Known, userVars
<1>4. LinksAreIssued'
  BY DEF Fail, userVars, Shape, TypeOK, LinksAreIssued
<1> QED BY <1>2, <1>3, <1>4 DEF Shape

LEMMA TimeShape ==
  ASSUME Shape, NEW u \in Users, FiveMinutesPass(u) \/ LinkExpires(u)
  PROVE  Shape'
<1> USE DEF FiveMinutesPass, LinkExpires, observerVars
<1>1. TypeOK'
  BY DEF Shape, TypeOK, LinksAreIssued
<1>2. \A q \in Requests : Carries(q)'
  BY CarriesFrame DEF Known
<1>3. LinksAreIssued'
  BY DEF Shape, TypeOK, LinksAreIssued
<1> QED BY <1>1, <1>2, <1>3 DEF Shape

LEMMA DeleteUserShape ==
  ASSUME Shape, NEW u \in Users, NEW fk, DeleteUser(u, fk)
  PROVE  Shape'
<1>1. TypeOK'
  BY DEF DeleteUser, Shape, TypeOK
<1>2. \A q \in Requests : Carries(q)'
  BY CarriesFrame DEF DeleteUser, Known
<1>3. LinksAreIssued'
  BY DEF DeleteUser, Shape, TypeOK, LinksAreIssued
<1> QED BY <1>1, <1>2, <1>3 DEF Shape

LEMMA ContactShape ==
  ASSUME Shape, NEW k \in Contacts,
         \/ \E e \in Emails : CreateContact(k, e) \/ UpdateContact(k, e)
         \/ DeleteContact(k) \/ InvitationLapses(k)
  PROVE  Shape'
<1>1. /\ contact' \in [Contacts -> ContactRows]
      /\ \A c \in Contacts : contact[c].state # "none" => contact'[c].state # "none"
  <2>1. ASSUME NEW e \in Emails, CreateContact(k, e)
        PROVE  <1>1!1 /\ <1>1!2
    BY <2>1 DEF CreateContact, Shape, TypeOK, ContactRows
  <2>2. ASSUME NEW e \in Emails, UpdateContact(k, e)
        PROVE  <1>1!1 /\ <1>1!2
    BY <2>2 DEF UpdateContact, Shape, TypeOK, ContactRows, LiveContact
  <2>3. CASE DeleteContact(k)
    <3> DEFINE d == [NoContact EXCEPT !.state = "gone"]
    <3>1. d \in ContactRows /\ d.state = "gone"
      BY DEF ContactRows, NoContact
    <3>2. contact' = [contact EXCEPT ![k] = d]
      BY <2>3 DEF DeleteContact
    <3> HIDE DEF d
    <3> QED BY <3>1, <3>2 DEF Shape, TypeOK
  <2>4. CASE InvitationLapses(k)
    BY <2>4 DEF InvitationLapses, Shape, TypeOK, ContactRows
  <2> QED BY <2>1, <2>2, <2>3, <2>4
<1> USE DEF CreateContact, UpdateContact, DeleteContact, InvitationLapses,
            userVars, observerVars
<1>2. TypeOK'
  BY <1>1 DEF Shape, TypeOK
<1>3. \A q \in Requests : Carries(q)'
  BY <1>1, CarriesFrame DEF Known
<1>4. LinksAreIssued'
  BY DEF Shape, LinksAreIssued
<1> QED BY <1>2, <1>3, <1>4 DEF Shape

LEMMA ShapeStep == Shape /\ [Next]_vars => Shape'
<1> SUFFICES ASSUME Shape, [Next]_vars PROVE Shape'
  OBVIOUS
<1>1. CASE AccountStep
  BY <1>1, RegisterShape, ActivateContactShape, ReadShape, PasswordShape,
     CreateResetTokenShape, FailShape, TimeShape, DeleteUserShape DEF AccountStep
<1>2. CASE ContactStep
  BY <1>2, ReadShape, ContactShape DEF ContactStep
<1>3. CASE UNCHANGED vars
  BY <1>3 DEF vars, userVars, observerVars, Shape, TypeOK, LinksAreIssued,
              Carries, Known
<1> QED BY <1>1, <1>2, <1>3 DEF Next

LEMMA AlwaysShape == Spec => []Shape
BY InitShape, ShapeStep, PTL DEF Spec

\* The type invariant.
THEOREM TypeCorrect == Spec => []TypeOK
<1>1. Shape => TypeOK
  BY DEF Shape
<1> QED BY <1>1, AlwaysShape, PTL
-----------------------------------------------------------------------------
(***************************************************************************)
(* Invitations: the second account meets the first one's address.          *)
(***************************************************************************)
Activates(r, k) == request[r].pc = "activate" /\ request[r].item = k

\* An account made by an invitation has used it up.
UsedUp(u) ==
  /\ u \notin Known => invitation[u] = None
  /\ invitation[u] # None =>
       /\ contact[invitation[u]].state # "none"
       /\ \/ contact[invitation[u]].state = "gone"
          \/ contact[invitation[u]].user # None

\* As long as a contact is not readdressed, all who activate it have read the
\* address it has, and the accounts it became have that address.
OneAddress(k) ==
  k \notin moved =>
    \A r \in Requests : Activates(r, k) =>
      /\ contact[k].state # "gone" => contact[k].email = request[r].email
      /\ \A q \in Requests : Activates(q, k) => request[q].email = request[r].email
      /\ \A u \in users : invitation[u] = k => email[u] = request[r].email

Invited ==
  /\ OneAccountPerInvitation
  /\ \A u \in Users : UsedUp(u)
  /\ \A k \in Contacts : OneAddress(k)

LEMMA InitInvited == Init => Invited
BY DEF Init, Idle, Invited, OneAccountPerInvitation, UsedUp, OneAddress, Activates

\* Steps that add no account, no contact and no activation.
LEMMA InvitedFrame ==
  ASSUME Shape, Invited, users' \subseteq users, Known' = Known,
         \A u \in users' : email'[u] = email[u],
         UNCHANGED <<invitation, contact, moved>>,
         \A r \in Requests :
           request'[r] = request[r] \/ request'[r].pc # "activate"
  PROVE  Invited'
<1>1. OneAccountPerInvitation'
  BY DEF Invited, OneAccountPerInvitation
<1>2. \A u \in Users : UsedUp(u)'
  BY DEF Invited, UsedUp
<1>3. \A k \in Contacts : OneAddress(k)'
  BY DEF Invited, OneAddress, Activates
<1> QED BY <1>1, <1>2, <1>3 DEF Invited

LEMMA RegisterInvited ==
  ASSUME Shape, Invited, NEW u \in Users, NEW e \in Emails, NEW p \in Passwords,
         Register(u, e, p)
  PROVE  Invited'
<1>1. /\ u \notin Known /\ users' = users \cup {u} /\ Known' = Known \cup {u}
      /\ \A v \in users : email'[v] = email[v] /\ v # u
      /\ invitation[u] = None
      /\ UNCHANGED <<contact, request, invitation, moved>>
  BY DEF Register, InsertUser, Known, Shape, TypeOK, observerVars, Invited, UsedUp
<1>2. OneAccountPerInvitation'
  BY <1>1 DEF Invited, OneAccountPerInvitation
<1>3. \A v \in Users : UsedUp(v)'
  BY <1>1 DEF Invited, UsedUp
<1>4. \A k \in Contacts : OneAddress(k)'
  BY <1>1, AccountsAssumption DEF Invited, OneAddress, Activates
<1> QED BY <1>2, <1>3, <1>4 DEF Invited

\* The contact of the new account is not that of another one, which would have
\* the same address, unless it was readdressed.
LEMMA ActivateContactInvited ==
  ASSUME Shape, Invited, NEW r \in Requests, NEW u \in Users, NEW p \in Passwords,
         ActivateContact(r, u, p)
  PROVE  Invited'
<1> DEFINE k == request[r].item
           e == request[r].email
<1>1. /\ k \in Contacts /\ contact[k].state # "none" /\ Activates(r, k)
      /\ u \notin Known /\ users' = users \cup {u} /\ Known' = Known \cup {u}
      /\ \A v \in users : email[v] # e /\ email'[v] = email[v] /\ v # u
      /\ email'[u] = e
      /\ invitation'[u] = k
      /\ \A v \in users : invitation'[v] = invitation[v]
      /\ \A v \in Users : v # u => invitation'[v] = invitation[v]
      /\ UNCHANGED moved
  BY DEF ActivateContact, InsertUser, Known, Shape, TypeOK, Carries, Activates
<1>2. /\ \A c \in Contacts : c # k => contact'[c] = contact[c]
      /\ contact'[k].state # "none"
      /\ contact'[k].state = "gone" \/ contact'[k].user = u
      /\ contact'[k].state = "gone" <=> contact[k].state = "gone"
      /\ contact'[k].email = contact[k].email
  BY <1>1 DEF ActivateContact, Shape, TypeOK, ContactRows
<1>3. \A q \in Requests : request'[q] = request[q] \/ request'[q].pc = "idle"
  BY AnswerFacts DEF ActivateContact, Shape
<1>4. OneAccountPerInvitation'
  <2>1. ASSUME NEW v \in users, invitation[v] = k
        PROVE  k \in moved
    BY <1>1, <2>1 DEF Invited, OneAddress
  <2>2. SUFFICES ASSUME NEW v \in users', NEW w \in users', v # w,
                        invitation'[v] = invitation'[w], invitation'[v] # None
                 PROVE  invitation'[v] \in moved
    BY <1>1 DEF OneAccountPerInvitation
  <2>3. CASE v \in users /\ w \in users
    BY <1>1, <2>2, <2>3 DEF Invited, OneAccountPerInvitation
  <2>4. CASE v = u \/ w = u
    BY <1>1, <2>1, <2>2, <2>4
  <2> QED BY <1>1, <2>3, <2>4
<1>5. ASSUME NEW v \in Users
      PROVE  UsedUp(v)'
  <2>1. CASE v = u
    BY <1>1, <1>2, <2>1, AccountsAssumption DEF UsedUp
  <2>2. CASE v # u
    <3>1. invitation[v] \in Contacts \cup {None}
      BY DEF Shape, TypeOK
    <3>2. UsedUp(v)
      BY DEF Invited
    <3> QED BY <1>1, <1>2, <2>2, <3>1, <3>2, AccountsAssumption DEF UsedUp
  <2> QED BY <2>1, <2>2
<1>6. ASSUME NEW c \in Contacts
      PROVE  OneAddress(c)'
  <2>1. \A q \in Requests : Activates(q, c)' =>
          Activates(q, c) /\ request'[q] = request[q]
    BY <1>3 DEF Activates
  <2>2. SUFFICES ASSUME c \notin moved, NEW q \in Requests, Activates(q, c)'
                 PROVE  /\ contact'[c].state # "gone" =>
                             contact'[c].email = request[q].email
                        /\ \A s \in Requests :
                             Activates(s, c)' => request[s].email = request[q].email
                        /\ \A v \in users' :
                             invitation'[v] = c => email'[v] = request[q].email
    BY <1>1, <2>1 DEF OneAddress
  <2>3. /\ contact[c].state # "gone" => contact[c].email = request[q].email
        /\ \A s \in Requests :
             Activates(s, c) => request[s].email = request[q].email
        /\ \A v \in users : invitation[v] = c => email[v] = request[q].email
    BY <2>1, <2>2 DEF Invited, OneAddress
  <2>4. contact'[c].state # "gone" => contact'[c].email = request[q].email
    BY <1>2, <2>3
  <2>5. \A s \in Requests : Activates(s, c)' => request[s].email = request[q].email
    BY <2>1, <2>3
  <2>6. \A v \in users' : invitation'[v] = c => email'[v] = request[q].email
    BY <1>1, <2>3
  <2> QED BY <2>4, <2>5, <2>6
<1> QED BY <1>4, <1>5, <1>6 DEF Invited

\* Who begins to activate a contact finds that it has become no account, and
\* reads the address all others have read.
LEMMA ReadInvitationInvited ==
  ASSUME Shape, Invited, NEW r \in Requests, NEW k \in Contacts,
         ReadInvitation(r, k)
  PROVE  Invited'
<1>1. /\ contact[k].state = "invited" /\ contact[k].user = None
      /\ request'[r].pc = "activate" /\ request'[r].item = k
      /\ request'[r].email = contact[k].email
      /\ \A q \in Requests : q # r => request'[q] = request[q]
      /\ UNCHANGED <<users, deleted, email, contact, invitation, moved>>
  <2>1. Become(r, "activate", None, contact[k].email, k)
    BY DEF ReadInvitation
  <2>2. TypeOK
    BY DEF Shape
  <2>3. /\ request'[r].pc = "activate" /\ request'[r].item = k
        /\ request'[r].email = contact[k].email
        /\ \A q \in Requests : q # r => request'[q] = request[q]
    BY <2>1, <2>2 DEF Become, TypeOK
  <2> QED BY <2>3 DEF ReadInvitation, userVars, observerVars
<1>2. OneAccountPerInvitation' /\ \A u \in Users : UsedUp(u)'
  BY <1>1 DEF Invited, OneAccountPerInvitation, UsedUp, Known
<1>3. \A u \in users : invitation[u] # k
  BY <1>1, AccountsAssumption DEF Invited, UsedUp, Shape, TypeOK
<1>4. ASSUME NEW c \in Contacts
      PROVE  OneAddress(c)'
  <2>1. CASE c = k
    BY <1>1, <1>3, <2>1 DEF Invited, OneAddress, Activates
  <2>2. CASE c # k
    BY <1>1, <2>2 DEF Invited, OneAddress, Activates
  <2> QED BY <2>1, <2>2
<1> QED BY <1>2, <1>4 DEF Invited

\* A contact is created once, and one that is readdressed while it is activated
\* is an exception from then on.
LEMMA ContactInvited ==
  ASSUME Shape, Invited, NEW k \in Contacts,
         \/ \E e \in Emails : CreateContact(k, e) \/ UpdateContact(k, e)
         \/ DeleteContact(k) \/ InvitationLapses(k)
  PROVE  Invited'
<1> USE DEF CreateContact, UpdateContact, DeleteContact, InvitationLapses,
            LiveContact, NoContact
<1>1. /\ UNCHANGED <<users, deleted, email, request, invitation>>
      /\ moved \subseteq moved'
      /\ \A c \in Contacts : c # k => contact'[c] = contact[c]
  BY DEF Shape, TypeOK, userVars, observerVars
<1>2. \/ contact[k].state = "none"
      \/ /\ contact[k].state # "none" /\ contact'[k].state # "none"
         /\ contact'[k].state = "gone" \/ contact'[k].user = contact[k].user
         /\ contact[k].state = "gone" => contact'[k].state = "gone"
  BY DEF Shape, TypeOK, ContactRows
<1>3. \/ contact[k].state = "none"
      \/ contact'[k].state = "gone" \/ contact'[k].email = contact[k].email
      \/ \A r \in Requests : ~Activates(r, k)
      \/ k \in moved'
  BY DEF Shape, TypeOK, ContactRows, Activates
<1>4. OneAccountPerInvitation'
  BY <1>1 DEF Invited, OneAccountPerInvitation
<1>5. \A u \in Users : UsedUp(u)'
  BY <1>1, <1>2 DEF Invited, UsedUp, Known, Shape, TypeOK
<1>6. ASSUME NEW c \in Contacts
      PROVE  OneAddress(c)'
  <2>1. contact[c].state = "none" => \A r \in Requests : ~Activates(r, c)
    BY DEF Activates, Shape, Carries
  <2>2. CASE c # k
    BY <1>1, <2>2 DEF Invited, OneAddress, Activates
  <2>3. CASE c = k
    BY <1>1, <1>2, <1>3, <2>1, <2>3 DEF Invited, OneAddress, Activates
  <2> QED BY <2>2, <2>3
<1> QED BY <1>4, <1>5, <1>6 DEF Invited

LEMMA InvitedStep == Shape /\ Invited /\ [Next]_vars => Invited'
<1> SUFFICES ASSUME Shape, Invited, [Next]_vars PROVE Invited'
  OBVIOUS
<1> USE DEF userVars, observerVars
<1>1. ASSUME NEW r \in Requests, NEW pc, NEW u, NEW e, NEW x,
             Become(r, pc, u, e, x), pc # "activate",
             UNCHANGED <<userVars, contact, invitation, moved>>
      PROVE  Invited'
  <2>1. \A q \in Requests : request'[q] = request[q] \/ request'[q].pc # "activate"
    BY <1>1, BecomeFacts DEF Shape
  <2> QED BY <1>1, <2>1, InvitedFrame DEF Known
<1>2. ASSUME NEW r \in Requests, Answer(r),
             UNCHANGED <<users, deleted, email, contact, invitation, moved>>
      PROVE  Invited'
  <2>1. \A q \in Requests : request'[q] = request[q] \/ request'[q].pc # "activate"
    BY <1>2, AnswerFacts DEF Shape
  <2> QED BY <1>2, <2>1, InvitedFrame DEF Known
<1>3. ASSUME NEW r \in Requests,
             \/ \E u \in Users, p \in Passwords : AuthenticateUser(r, u, p)
             \/ \E e \in Emails : ForgotPassword(r, e)
             \/ \E u \in Users : GetUserByEmail(r, u) \/ GetUserByResetToken(r, u)
      PROVE  Invited'
  BY <1>1, <1>3
     DEF AuthenticateUser, ForgotPassword, GetUserByEmail, GetUserByResetToken
<1>4. ASSUME NEW r \in Requests,
             \/ \E p \in Passwords : UpdateUserPassword(r, p) \/ ConsumeResetToken(r, p)
             \/ \E l \in Links : CreateResetToken(r, l)
             \/ Fail(r)
      PROVE  Invited'
  BY <1>2, <1>4 DEF UpdateUserPassword, ConsumeResetToken, CreateResetToken, Fail
<1>5. ASSUME NEW u \in Users, FiveMinutesPass(u) \/ LinkExpires(u)
      PROVE  Invited'
  BY <1>5, InvitedFrame DEF FiveMinutesPass, LinkExpires, Known
<1>6. ASSUME NEW u \in Users, NEW fk, DeleteUser(u, fk)
      PROVE  Invited'
  <2>1. /\ users' \subseteq users /\ Known' = Known
        /\ \A v \in users' : email'[v] = email[v]
    BY <1>6 DEF DeleteUser, Known, Shape, TypeOK
  <2> QED BY <1>6, <2>1, InvitedFrame DEF DeleteUser
<1>7. CASE AccountStep
  BY <1>3, <1>4, <1>5, <1>6, <1>7, RegisterInvited, ActivateContactInvited
     DEF AccountStep
<1>8. CASE ContactStep
  BY <1>8, ReadInvitationInvited, ContactInvited DEF ContactStep
<1>9. CASE UNCHANGED vars
  BY <1>9, InvitedFrame DEF vars, Known
<1> QED BY <1>7, <1>8, <1>9 DEF Next

\* One invitation makes one account, unless the contact was readdressed while it
\* was being activated.
THEOREM OneAccount == Spec => []OneAccountPerInvitation
<1>1. Invited => OneAccountPerInvitation
  BY DEF Invited
<1> QED BY <1>1, InitInvited, InvitedStep, AlwaysShape, PTL DEF Spec
\* What a step does to the accounts of an invitation and to those who are about
\* to make one of it: nothing new, or there is no account yet, or one more is
\* made by one who was about to.
Keeps(k) == MadeBy(k)' = MadeBy(k) /\ Activating(k)' \subseteq Activating(k)
Makes(k) ==
  \E r \in Activating(k), u \in Users \ MadeBy(k) :
    /\ MadeBy(k)' = MadeBy(k) \cup {u}
    /\ Activating(k)' \subseteq Activating(k) \ {r}

LEMMA KeepsFrame ==
  ASSUME NEW k \in Contacts, UNCHANGED invitation,
         \A r \in Requests : \/ request'[r] = request[r]
                             \/ request'[r].pc # "activate"
                             \/ request'[r].item # k
  PROVE  Keeps(k)
BY DEF Keeps, MadeBy, Activating

LEMMA ActivateContactMakes ==
  ASSUME Shape, Invited, NEW k \in Contacts,
         NEW r \in Requests, NEW u \in Users, NEW p \in Passwords,
         ActivateContact(r, u, p)
  PROVE  Keeps(k) \/ Makes(k)
<1>1. /\ invitation' = [invitation EXCEPT ![u] = request[r].item]
      /\ u \notin Known /\ request[r].pc = "activate"
  BY DEF ActivateContact, InsertUser, Known
<1>2. /\ request'[r].pc = "idle"
      /\ \A q \in Requests : q # r => request'[q] = request[q]
  BY AnswerFacts DEF ActivateContact, Shape
<1>3. invitation \in [Users -> Contacts \cup {None}] /\ invitation[u] = None
  BY <1>1 DEF Shape, TypeOK, Invited, UsedUp
<1>4. CASE request[r].item = k
  <2>1. r \in Activating(k) /\ u \in Users \ MadeBy(k)
    BY <1>1, <1>3, <1>4, AccountsAssumption DEF Activating, MadeBy
  <2>2. MadeBy(k)' = MadeBy(k) \cup {u}
    BY <1>1, <1>3, <1>4 DEF MadeBy
  <2>3. Activating(k)' \subseteq Activating(k) \ {r}
    BY <1>2 DEF Activating
  <2> QED BY <2>1, <2>2, <2>3 DEF Makes
<1>5. CASE request[r].item # k
  <2>1. MadeBy(k)' = MadeBy(k)
    BY <1>1, <1>3, <1>5, AccountsAssumption DEF MadeBy
  <2>2. Activating(k)' \subseteq Activating(k)
    BY <1>2 DEF Activating
  <2> QED BY <2>1, <2>2 DEF Keeps
<1> QED BY <1>4, <1>5

LEMMA InvitationUseStep ==
  ASSUME Shape, Invited, [Next]_vars, NEW k \in Contacts
  PROVE  Keeps(k) \/ Makes(k) \/ MadeBy(k)' = {}
<1> USE DEF userVars, observerVars
<1>1. ASSUME NEW r \in Requests, NEW pc, NEW u, NEW e, NEW x,
             Become(r, pc, u, e, x), pc # "activate" \/ x # k,
             UNCHANGED invitation
      PROVE  Keeps(k)
  <2>1. \A q \in Requests : \/ request'[q] = request[q]
                            \/ request'[q].pc # "activate"
                            \/ request'[q].item # k
    BY <1>1, BecomeFacts DEF Shape
  <2> QED BY <1>1, <2>1, KeepsFrame
<1>2. ASSUME NEW r \in Requests, Answer(r), UNCHANGED invitation
      PROVE  Keeps(k)
  <2>1. \A q \in Requests : request'[q] = request[q] \/ request'[q].pc # "activate"
    BY <1>2, AnswerFacts DEF Shape
  <2> QED BY <1>2, <2>1, KeepsFrame
<1>3. ASSUME NEW r \in Requests,
             \/ \E u \in Users, p \in Passwords : AuthenticateUser(r, u, p)
             \/ \E e \in Emails : ForgotPassword(r, e)
             \/ \E u \in Users : GetUserByEmail(r, u) \/ GetUserByResetToken(r, u)
      PROVE  Keeps(k)
  BY <1>1, <1>3
     DEF AuthenticateUser, ForgotPassword, GetUserByEmail, GetUserByResetToken
<1>4. ASSUME NEW r \in Requests,
             \/ \E p \in Passwords : UpdateUserPassword(r, p)
             \/ \E p \in Passwords : ConsumeResetToken(r, p)
             \/ \E l \in Links : CreateResetToken(r, l)
             \/ Fail(r)
      PROVE  Keeps(k)
  BY <1>2, <1>4 DEF UpdateUserPassword, ConsumeResetToken, CreateResetToken, Fail
<1>5. ASSUME \/ \E u \in Users, e \in Emails, p \in Passwords : Register(u, e, p)
             \/ \E u \in Users : FiveMinutesPass(u) \/ LinkExpires(u)
             \/ \E u \in Users, fk \in FkModes : DeleteUser(u, fk)
             \/ \E c \in Contacts, e \in Emails :
                  CreateContact(c, e) \/ UpdateContact(c, e)
             \/ \E c \in Contacts : DeleteContact(c) \/ InvitationLapses(c)
             \/ UNCHANGED vars
      PROVE  Keeps(k)
  BY <1>5, KeepsFrame
     DEF Register, FiveMinutesPass, LinkExpires, DeleteUser, CreateContact,
         UpdateContact, DeleteContact, InvitationLapses, vars
<1>6. ASSUME NEW r \in Requests, NEW c \in Contacts, ReadInvitation(r, c)
      PROVE  Keeps(k) \/ MadeBy(k)' = {}
  <2>1. CASE c = k
    <3>1. contact[k].state = "invited" /\ contact[k].user = None /\ UNCHANGED invitation
      BY <1>6, <2>1 DEF ReadInvitation
    <3>2. \A u \in Users : invitation[u] # k
      BY <3>1, AccountsAssumption DEF Invited, UsedUp
    <3> QED BY <3>1, <3>2 DEF MadeBy
  <2>2. CASE c # k
    BY <1>1, <1>6, <2>2 DEF ReadInvitation
  <2> QED BY <2>1, <2>2
<1>7. CASE AccountStep
  BY <1>3, <1>4, <1>5, <1>7, ActivateContactMakes DEF AccountStep
<1>8. CASE ContactStep
  BY <1>5, <1>6, <1>8 DEF ContactStep
<1> QED BY <1>5, <1>7, <1>8 DEF Next

Used(k) ==
  /\ IsFiniteSet(MadeBy(k))
  /\ Cardinality(MadeBy(k)) + Cardinality(Activating(k)) <= Cardinality(Requests)

LEMMA UsedStep ==
  ASSUME Shape, Invited, [Next]_vars, NEW k \in Contacts, Used(k)
  PROVE  Used(k)'
<1>1. /\ IsFiniteSet(Requests)
      /\ IsFiniteSet(Activating(k)) /\ IsFiniteSet(Activating(k)')
      /\ Cardinality(Activating(k)') <= Cardinality(Requests)
  BY FS_Subset, AccountsAssumption DEF Activating
<1>2. /\ Cardinality(Requests) \in Nat /\ Cardinality(Activating(k)) \in Nat
      /\ Cardinality(Activating(k)') \in Nat /\ Cardinality(MadeBy(k)) \in Nat
  BY <1>1, FS_CardinalityType DEF Used
<1>3. CASE MadeBy(k)' = {}
  <2>1. IsFiniteSet(MadeBy(k)') /\ Cardinality(MadeBy(k)') = 0
    BY <1>3, FS_EmptySet
  <2> QED BY <1>1, <1>2, <2>1 DEF Used
<1>4. CASE Keeps(k)
  <2>1. /\ Cardinality(Activating(k)') <= Cardinality(Activating(k))
        /\ MadeBy(k)' = MadeBy(k)
    BY <1>1, <1>4, FS_Subset DEF Keeps
  <2> QED BY <1>2, <2>1 DEF Used
<1>5. CASE Makes(k)
  <2>1. PICK r \in Activating(k), u \in Users \ MadeBy(k) :
          /\ MadeBy(k)' = MadeBy(k) \cup {u}
          /\ Activating(k)' \subseteq Activating(k) \ {r}
    BY <1>5 DEF Makes
  <2>2. /\ IsFiniteSet(Activating(k) \ {r})
        /\ Cardinality(Activating(k) \ {r}) = Cardinality(Activating(k)) - 1
    BY <1>1, <2>1, FS_RemoveElement
  <2>3. Cardinality(Activating(k)') <= Cardinality(Activating(k)) - 1
    BY <2>1, <2>2, FS_Subset
  <2>4. /\ IsFiniteSet(MadeBy(k)')
        /\ Cardinality(MadeBy(k)') = Cardinality(MadeBy(k)) + 1
    BY <2>1, FS_AddElement DEF Used
  <2> QED BY <1>2, <2>3, <2>4 DEF Used
<1> QED BY <1>3, <1>4, <1>5, InvitationUseStep

AllUsed == \A k \in Contacts : Used(k)

\* What an invitation makes, over all its accounts that ever were, is bounded by
\* the requests handled at the same time.
THEOREM UsedUpForGood == Spec => []InvitationIsUsedUp
<1>1. Init => AllUsed
  <2>1. SUFFICES ASSUME Init, NEW k \in Contacts PROVE Used(k)
    BY DEF AllUsed
  <2>2. MadeBy(k) = {} /\ Activating(k) = {}
    BY <2>1, AccountsAssumption DEF Init, MadeBy, Activating, Idle
  <2>3. Cardinality(Requests) \in Nat
    BY AccountsAssumption, FS_CardinalityType
  <2> QED BY <2>2, <2>3, FS_EmptySet DEF Used
<1>2. Shape /\ Invited /\ AllUsed /\ [Next]_vars => AllUsed'
  BY UsedStep DEF AllUsed
<1>3. AllUsed => InvitationIsUsedUp
  BY DEF AllUsed, Used, InvitationIsUsedUp
<1> QED
  BY <1>1, <1>2, <1>3, InitInvited, InvitedStep, AlwaysShape, PTL DEF Spec
-----------------------------------------------------------------------------
(***************************************************************************)
(* Reset links implement OneShot.                                          *)
(***************************************************************************)
\* A link is in one row at most, and nobody has set a password through it as
\* long as it is there, or before it was created.
Linked ==
  /\ \A u, v \in Users : u # v /\ link[u] # None => link[u] # link[v]
  /\ \A u \in Users : link[u] # None => yields[link[u]] = 0
  /\ \A l \in Links : l \notin issued => yields[l] = 0

LinkedShape == Shape /\ Linked

LEMMA InitLinked == Init => Linked
BY DEF Init, Linked

LEMMA CreateLinked ==
  ASSUME LinkedShape, NEW r \in Requests, NEW l \in Links, CreateResetToken(r, l)
  PROVE  Linked'
<1>1. \A u \in Users : link[u] # l
  BY AccountsAssumption DEF CreateResetToken, LinkedShape, Shape, LinksAreIssued
<1> QED BY <1>1
  DEF CreateResetToken, LinkedShape, Shape, TypeOK, Linked

LEMMA ConsumeLinked ==
  ASSUME LinkedShape, NEW r \in Requests, NEW p \in Passwords,
         ConsumeResetToken(r, p)
  PROVE  Linked'
<1> DEFINE u == request[r].user
           l == request[r].item
<1>1. /\ u \in Users /\ l \in issued /\ link[u] = l
      /\ link' = [link EXCEPT ![u] = None]
      /\ yields' = [yields EXCEPT ![l] = @ + 1]
      /\ UNCHANGED issued
  BY DEF ConsumeResetToken, TokenMatches, LinkedShape, Shape, TypeOK, Carries, Known
<1>2. l \in Links /\ l # None
  BY <1>1, AccountsAssumption DEF LinkedShape, Shape, TypeOK
<1> QED BY <1>1, <1>2 DEF LinkedShape, Shape, TypeOK, Linked

LEMMA DeleteLinked ==
  ASSUME LinkedShape, NEW u \in Users, NEW fk, DeleteUser(u, fk)
  PROVE  Linked'
BY DEF DeleteUser, LinkedShape, Shape, TypeOK, Linked

\* The steps that write no link: the rows may become more.
Quiet == UNCHANGED <<link, issued, expired, yields>>

LEMMA QuietSteps ==
  ASSUME [Next]_vars
  PROVE  \/ \E r \in Requests, l \in Links : CreateResetToken(r, l)
         \/ \E r \in Requests, p \in Passwords : ConsumeResetToken(r, p)
         \/ \E u \in Users : LinkExpires(u)
         \/ \E u \in Users, fk \in FkModes : DeleteUser(u, fk)
         \/ \E r \in Requests : Fail(r)
         \/ \E r \in Requests, u \in Users : GetUserByResetToken(r, u)
         \/ /\ Quiet /\ users \subseteq users'
            /\ \/ UNCHANGED request
               \/ \E r \in Requests : \E pc, u, e, x :
                    /\ request[r].pc # "consume" /\ pc # "consume"
                    /\ Become(r, pc, u, e, x)
<1> DEFINE Other == /\ Quiet /\ users \subseteq users'
                    /\ \/ UNCHANGED request
                       \/ \E r \in Requests : \E pc, u, e, x :
                            /\ request[r].pc # "consume" /\ pc # "consume"
                            /\ Become(r, pc, u, e, x)
<1> USE DEF userVars, observerVars
<1>1. ASSUME NEW u \in Users, NEW e \in Emails, NEW p \in Passwords,
             Register(u, e, p)
      PROVE  Other
  BY <1>1 DEF Register, InsertUser, Quiet
<1>2. ASSUME NEW r \in Requests, Answer(r)
      PROVE  Become(r, "idle", None, None, None)
  BY <1>2 DEF Answer, Become, Idle
<1>3. ASSUME NEW r \in Requests, NEW u \in Users, NEW p \in Passwords,
             ActivateContact(r, u, p)
      PROVE  Other
  <2>1. Quiet /\ users \subseteq users' /\ request[r].pc = "activate" /\ Answer(r)
    BY <1>3 DEF ActivateContact, InsertUser, Quiet
  <2> QED BY <1>2, <2>1
<1>4. ASSUME NEW r \in Requests, NEW u \in Users, NEW p \in Passwords,
             AuthenticateUser(r, u, p)
      PROVE  Other
  BY <1>4 DEF AuthenticateUser, Quiet
<1>5. ASSUME NEW r \in Requests, NEW p \in Passwords, UpdateUserPassword(r, p)
      PROVE  Other
  <2>1. Quiet /\ users \subseteq users' /\ request[r].pc = "change" /\ Answer(r)
    BY <1>5 DEF UpdateUserPassword, Quiet
  <2> QED BY <1>2, <2>1
<1>6. ASSUME NEW r \in Requests, NEW e \in Emails, ForgotPassword(r, e)
      PROVE  Other
  <2>1. /\ Quiet /\ users \subseteq users' /\ request[r].pc = "idle"
        /\ Become(r, "forgot", None, e, None)
    BY <1>6 DEF ForgotPassword, Quiet
  <2> QED BY <2>1
<1>7. ASSUME NEW r \in Requests, NEW u \in Users, GetUserByEmail(r, u)
      PROVE  Other
  BY <1>7 DEF GetUserByEmail, Quiet
<1>8. ASSUME NEW u \in Users, FiveMinutesPass(u)
      PROVE  Other
  BY <1>8 DEF FiveMinutesPass, Quiet
<1>9. ASSUME NEW r \in Requests, NEW k \in Contacts, ReadInvitation(r, k)
      PROVE  Other
  BY <1>9 DEF ReadInvitation, Quiet
<1>10. ASSUME NEW k \in Contacts,
              \/ \E e \in Emails : CreateContact(k, e) \/ UpdateContact(k, e)
              \/ DeleteContact(k) \/ InvitationLapses(k)
       PROVE  Other
  BY <1>10 DEF CreateContact, UpdateContact, DeleteContact, InvitationLapses, Quiet
<1>11. ASSUME UNCHANGED vars
       PROVE  Other
  BY <1>11 DEF vars, Quiet
<1> HIDE DEF Other
<1>12. CASE AccountStep
  BY <1>1, <1>3, <1>4, <1>5, <1>6, <1>7, <1>8, <1>12 DEF AccountStep, Other
<1>13. CASE ContactStep
  BY <1>9, <1>10, <1>13 DEF ContactStep, Other
<1> QED BY <1>11, <1>12, <1>13 DEF Next, Other

LEMMA LinkedStep == LinkedShape /\ [Next]_vars => Linked'
<1> SUFFICES ASSUME LinkedShape, [Next]_vars PROVE Linked'
  OBVIOUS
<1>1. ASSUME UNCHANGED <<link, issued, yields>>
      PROVE  Linked'
  BY <1>1 DEF LinkedShape, Linked
<1>2. ASSUME \/ \E u \in Users : LinkExpires(u)
             \/ \E r \in Requests : Fail(r)
             \/ \E r \in Requests, u \in Users : GetUserByResetToken(r, u)
             \/ Quiet
      PROVE  Linked'
  BY <1>1, <1>2
     DEF LinkExpires, Fail, GetUserByResetToken, Quiet, userVars, observerVars
<1> QED BY <1>2, CreateLinked, ConsumeLinked, DeleteLinked, QuietSteps

-----------------------------------------------------------------------------
\* Where a link stands, in the terms of its row: it is in one, or in none.
InRow(l) == \E u \in users : link[u] = l

LEMMA StageIs ==
  ASSUME NEW l \in Links
  PROVE  LinkStage[l] = IF l \notin issued THEN "none"
                        ELSE IF yields[l] > 0 THEN "spent"
                        ELSE IF InRow(l) /\ (l \notin expired \/ Held(l))
                        THEN "open" ELSE "void"
BY DEF LinkStage, InRow

LEMMA StageFunction ==
  /\ LinkStage = [l \in Links |-> LinkStage[l]]
  /\ LinkStage' = [l \in Links |-> LinkStage'[l]]
BY DEF LinkStage

\* A step after which some open links are void, and all others as before.
LEMMA VoidsSome ==
  ASSUME UNCHANGED yields,
         \A l \in Links : \/ LinkStage'[l] = LinkStage[l]
                          \/ LinkStage[l] = "open" /\ LinkStage'[l] = "void"
  PROVE  ResetLink!Next
<1> DEFINE G == {l \in Links : LinkStage[l] = "open" /\ LinkStage'[l] = "void"}
<1>1. G \in SUBSET Links /\ \A l \in G : LinkStage[l] = "open"
  OBVIOUS
<1>2. LinkStage' = [l \in Links |-> IF l \in G THEN "void" ELSE LinkStage[l]]
  <2>1. \A l \in Links : LinkStage'[l] = IF l \in G THEN "void" ELSE LinkStage[l]
    OBVIOUS
  <2> QED BY <2>1, StageFunction
<1> HIDE DEF G
<1> QED BY <1>1, <1>2 DEF ResetLink!Next, ResetLink!Void

\* A new link is open; the one it replaces, if that was still good, is void.
LEMMA CreateOpens ==
  ASSUME LinkedShape, NEW r \in Requests, NEW l \in Links, CreateResetToken(r, l)
  PROVE  ResetLink!Next
<1> DEFINE u == request[r].user
           old == link[u]
<1>1. /\ u \in users /\ u \in Users /\ l \notin issued
      /\ issued' = issued \cup {l} /\ link' = [link EXCEPT ![u] = l]
      /\ request[r].pc = "create" /\ Answer(r)
      /\ UNCHANGED <<users, expired, yields>>
  BY DEF CreateResetToken, RowIsThere, LinkedShape, Shape, TypeOK
<1>2. \A h \in Links : Held(h)' <=> Held(h)
  BY <1>1, AnswerFacts DEF Held, LinkedShape, Shape
<1>3. /\ InRow(l)'
      /\ \A h \in Links : h # l /\ h # old => (InRow(h)' <=> InRow(h))
      /\ old \in Links => ~\E v \in users' : link'[v] = old
  <2>1. /\ users \subseteq Users /\ users' = users
        /\ link'[u] = l /\ \A v \in Users : v # u => link'[v] = link[v]
    BY <1>1 DEF LinkedShape, Shape, TypeOK
  <2>2. InRow(l)'
    BY <1>1, <2>1 DEF InRow
  <2>3. \A h \in Links : h # l /\ h # old => (InRow(h)' <=> InRow(h))
    BY <1>1, <2>1 DEF InRow
  <2>4. ASSUME old \in Links, NEW v \in users', link'[v] = old
        PROVE  FALSE
    <3>1. old # None /\ old # l
      BY <1>1, <2>4, AccountsAssumption DEF LinkedShape, Shape, LinksAreIssued
    <3>2. v \in Users /\ v # u /\ link[v] = old
      BY <1>1, <2>1, <2>4, <3>1
    <3> QED BY <1>1, <3>1, <3>2 DEF LinkedShape, Linked
  <2> QED BY <2>2, <2>3, <2>4
<1>4. yields[l] = 0 /\ l \notin expired
  BY <1>1 DEF LinkedShape, Shape, TypeOK, Linked
<1>5. LinkStage[l] = "none" /\ LinkStage'[l] = "open"
  <2>1. LinkStage[l] = "none"
    BY <1>1, StageIs
  <2>2. LinkStage'[l] = "open"
    BY <1>1, <1>3, <1>4 DEF LinkStage, InRow
  <2> QED BY <2>1, <2>2
<1>6. \A h \in Links : h # l /\ h # old => LinkStage'[h] = LinkStage[h]
  BY <1>1, <1>2, <1>3 DEF LinkStage, InRow
<1>7. CASE old \in Links /\ LinkStage[old] = "open"
  <2>1. old # l /\ LinkStage'[old] = "void"
    <3>1. old \in issued /\ yields[old] = 0 /\ old # l
      BY <1>1, <1>7, AccountsAssumption
         DEF LinkedShape, Shape, LinksAreIssued, Linked
    <3> QED BY <1>1, <1>3, <1>7, <3>1 DEF LinkStage, InRow
  <2>2. LinkStage' = [LinkStage EXCEPT ![old] = "void", ![l] = "open"]
    BY <1>5, <1>6, <1>7, <2>1, StageFunction
  <2>3. ResetLink!Reissue(old, l)
    BY <1>1, <1>5, <1>7, <2>2 DEF ResetLink!Reissue
  <2> QED BY <1>7, <2>3 DEF ResetLink!Next
<1>8. CASE ~(old \in Links /\ LinkStage[old] = "open")
  <2>1. ASSUME old \in Links
        PROVE  old # l /\ LinkStage'[old] = LinkStage[old]
    <3>1. old \in issued /\ yields[old] = 0 /\ old # l
      BY <1>1, <2>1, AccountsAssumption
         DEF LinkedShape, Shape, LinksAreIssued, Linked
    <3>2. LinkStage[old] = "void"
      BY <1>8, <2>1, <3>1, StageIs
    <3>3. LinkStage'[old] = "void"
      BY <1>1, <1>3, <2>1, <3>1 DEF LinkStage, InRow
    <3> QED BY <3>1, <3>2, <3>3
  <2>2. LinkStage' = [LinkStage EXCEPT ![l] = "open"]
    BY <1>5, <1>6, <2>1, StageFunction
  <2>3. ResetLink!Open(l)
    BY <1>1, <1>5, <2>2 DEF ResetLink!Open, ResetLink!Move
  <2> QED BY <2>3 DEF ResetLink!Next
<1> QED BY <1>7, <1>8

\* One UPDATE claims the link and redeems it.
LEMMA ConsumeRedeems ==
  ASSUME LinkedShape, NEW r \in Requests, NEW p \in Passwords,
         ConsumeResetToken(r, p)
  PROVE  ResetLink!Next
<1> DEFINE u == request[r].user
           l == request[r].item
<1>1. /\ u \in Users /\ l \in issued /\ link[u] = l /\ l \in Links /\ l # None
      /\ request[r].pc = "consume" /\ Answer(r)
      /\ link' = [link EXCEPT ![u] = None]
      /\ yields' = [yields EXCEPT ![l] = @ + 1]
      /\ UNCHANGED <<users, issued, expired>>
  BY AccountsAssumption
     DEF ConsumeResetToken, TokenMatches, LinkedShape, Shape, TypeOK, Carries, Known
<1>2. u \in users /\ yields[l] = 0
  BY <1>1 DEF LinkedShape, Shape, LinksAreIssued, Linked
<1>3. \A h \in Links : h # l => (Held(h)' <=> Held(h))
  BY <1>1, AnswerFacts DEF Held, LinkedShape, Shape
<1>4. \A h \in Links : h # l => (InRow(h)' <=> InRow(h))
  BY <1>1, AccountsAssumption DEF InRow, LinkedShape, Shape, TypeOK
<1>5. /\ yields' = [yields EXCEPT ![l] = 1] /\ yields'[l] = 1
      /\ \A h \in Links : h # l => yields'[h] = yields[h]
  BY <1>1, <1>2 DEF LinkedShape, Shape, TypeOK
<1>6. LinkStage[l] = "open"
  <2>1. InRow(l) /\ Held(l)
    BY <1>1, <1>2 DEF InRow, Held
  <2> QED BY <1>1, <1>2, <2>1, StageIs
<1>7. LinkStage'[l] = "spent"
  BY <1>1, <1>5 DEF LinkStage
<1>8. \A h \in Links : h # l => LinkStage'[h] = LinkStage[h]
  BY <1>1, <1>3, <1>4, <1>5 DEF LinkStage, InRow
<1>9. LinkStage' = [LinkStage EXCEPT ![l] = "spent"]
  BY <1>7, <1>8, StageFunction
<1> QED BY <1>1, <1>5, <1>6, <1>9 DEF ResetLink!Next, ResetLink!Redeem, ResetLink!Move

\* A link expires, its row goes, or who held it gives up: it may be void then.
LEMMA OthersVoid ==
  ASSUME UNCHANGED <<issued, yields>>,
         \A l \in Links : l \in expired => l \in expired',
         \A l \in Links : InRow(l)' => InRow(l),
         \A l \in Links : Held(l)' => Held(l) \/ l \notin expired
  PROVE  ResetLink!Next
<1>1. \A l \in Links : \/ LinkStage'[l] = LinkStage[l]
                       \/ LinkStage[l] = "open" /\ LinkStage'[l] = "void"
  BY DEF LinkStage, InRow
<1> QED BY <1>1, VoidsSome

LEMMA LinkStageStep ==
  LinkedShape /\ [Next]_vars => [ResetLink!Next]_<<LinkStage, yields>>
<1> SUFFICES ASSUME LinkedShape, [Next]_vars PROVE ResetLink!Next
  OBVIOUS
<1> USE DEF userVars, observerVars
<1>1. TypeOK
  BY DEF LinkedShape, Shape
<1>2. ASSUME NEW u \in Users, LinkExpires(u)
      PROVE  ResetLink!Next
  BY <1>2, OthersVoid DEF LinkExpires, InRow, Held
<1>3. ASSUME NEW u \in Users, NEW fk, DeleteUser(u, fk)
      PROVE  ResetLink!Next
  <2>1. \A l \in Links : InRow(l)' => InRow(l)
    BY <1>1, <1>3 DEF DeleteUser, InRow, TypeOK
  <2> QED BY <1>3, <2>1, OthersVoid DEF DeleteUser, Held
<1>4. ASSUME NEW r \in Requests, Fail(r)
      PROVE  ResetLink!Next
  <2>1. \A l \in Links : Held(l)' => Held(l)
    BY <1>1, <1>4, AnswerFacts DEF Fail, Held
  <2> QED BY <1>4, <2>1, OthersVoid DEF Fail, InRow
<1>5. ASSUME NEW r \in Requests, NEW u \in Users, GetUserByResetToken(r, u)
      PROVE  ResetLink!Next
  <2>1. /\ Become(r, "consume", u, None, link[u]) /\ link[u] \notin expired
        /\ UNCHANGED <<userVars, observerVars>>
    BY <1>5 DEF GetUserByResetToken
  <2>2. /\ request'[r].item = link[u]
        /\ \A q \in Requests : q # r => request'[q] = request[q]
    BY <1>1, <2>1 DEF Become, TypeOK
  <2>3. \A l \in Links : Held(l)' => Held(l) \/ l \notin expired
    BY <2>1, <2>2 DEF Held
  <2> QED BY <2>1, <2>3, OthersVoid DEF InRow
<1>6. ASSUME Quiet, users \subseteq users',
             \/ UNCHANGED request
             \/ \E r \in Requests : \E pc, u, e, x :
                  /\ request[r].pc # "consume" /\ pc # "consume"
                  /\ Become(r, pc, u, e, x)
      PROVE  ResetLink!Next
  <2>1. \A l \in Links : Held(l)' => Held(l)
    <3>1. CASE UNCHANGED request
      BY <3>1 DEF Held
    <3>2. ASSUME NEW r \in Requests, NEW pc, NEW u, NEW e, NEW x,
                 pc # "consume", Become(r, pc, u, e, x)
          PROVE  \A l \in Links : Held(l)' => Held(l)
      <4>1. /\ request'[r].pc # "consume"
            /\ \A q \in Requests : q # r => request'[q] = request[q]
        BY <1>1, <3>2 DEF Become, TypeOK
      <4> QED BY <4>1 DEF Held
    <3> QED BY <1>6, <3>1, <3>2
  <2>2. \A l \in Links : InRow(l)' => InRow(l)
    <3>1. users' \subseteq Users /\ link' = link
      BY <1>6, ShapeStep DEF Quiet, LinkedShape, Shape, TypeOK
    <3>2. \A v \in Users : link[v] \in Links => v \in users
      BY AccountsAssumption DEF LinkedShape, Shape, LinksAreIssued
    <3> QED BY <3>1, <3>2 DEF InRow
  <2> QED BY <1>6, <2>1, <2>2, OthersVoid DEF Quiet
<1> QED BY <1>2, <1>3, <1>4, <1>5, <1>6, CreateOpens, ConsumeRedeems, QuietSteps

\* A reset link sets one password at most, however many requests follow it.
THEOREM LinksGoodOnce == Spec => LinksAreOneShot
<1>1. Init => ResetLink!Init
  BY DEF Init, ResetLink!Init, LinkStage
<1>2. Spec => []Linked
  BY InitLinked, LinkedStep, AlwaysShape, PTL DEF Spec, LinkedShape
<1>3. LinkedShape <=> Shape /\ Linked
  BY DEF LinkedShape
<1> QED
  BY <1>1, <1>2, <1>3, LinkStageStep, AlwaysShape, PTL
     DEF Spec, LinksAreOneShot, ResetLink!Spec, ResetLink!oneShotVars
-----------------------------------------------------------------------------
(***************************************************************************)
(* The limit on links: who passed it is counted with the links there are.  *)
(***************************************************************************)
\* Requests that read the limit, passed it and may still write a link for u.
Pending(u) ==
  {r \in Requests \ unread :
     \/ request[r].pc = "forgot" /\ request[r].email = email[u]
     \/ request[r].pc = "create" /\ request[r].user = u}

\* A link of the running five minutes is in the row and limits new requests,
\* and with those already past the limit there are no more than requests.
Limited ==
  \A u \in Users :
    /\ period[u] > 0 => u \in recent /\ link[u] # None
    /\ period[u] + Cardinality(Pending(u)) <= Cardinality(Requests)

\* What a step does to the links of u: forgets them, counts nothing new, or
\* turns one pending request into a link.
Forgets(u) == period'[u] = 0
AddsNone(u) ==
  /\ period'[u] = period[u] /\ Pending(u)' \subseteq Pending(u)
  /\ u \in recent /\ link[u] # None => u \in recent' /\ link'[u] # None
AddsOne(u) ==
  \E r \in Pending(u) :
    /\ period'[u] = period[u] + 1 /\ Pending(u)' \subseteq Pending(u) \ {r}
    /\ u \in recent' /\ link'[u] # None

LEMMA AddsNoneFrame ==
  ASSUME NEW u \in Users, period'[u] = period[u],
         u \in recent /\ link[u] # None =>
           u \in recent' /\ link'[u] # None,
         email'[u] = email[u],
         \A q \in Requests :
           \/ request'[q] = request[q] /\ (q \in unread => q \in unread')
           \/ request'[q].pc \notin {"forgot", "create"}
  PROVE  AddsNone(u)
BY DEF AddsNone, Pending

LEMMA PendingStep ==
  ASSUME Shape, Limited, [Next]_vars, NEW u \in Users
  PROVE  Forgets(u) \/ AddsNone(u) \/ AddsOne(u)
<1> USE DEF userVars, observerVars
<1> DEFINE Goal == Forgets(u) \/ AddsNone(u) \/ AddsOne(u)
<1>1. period[u] \in Nat /\ (period[u] = 0 \/ (u \in recent /\ link[u] # None))
  BY DEF Shape, TypeOK, Limited
<1>2. ASSUME NEW r \in Requests, Answer(r)
      PROVE  \A q \in Requests :
               request'[q] = request[q] \/ request'[q].pc = "idle"
  BY <1>2, AnswerFacts DEF Shape
<1>3. ASSUME NEW r \in Requests, NEW pc, NEW v, NEW e, NEW x,
             Become(r, pc, v, e, x), pc \notin {"forgot", "create"}
      PROVE  \A q \in Requests : \/ request'[q] = request[q]
                                \/ request'[q].pc \notin {"forgot", "create"}
  BY <1>3 DEF Become, Shape, TypeOK
<1>4. ASSUME NEW v \in Users, NEW e \in Emails \cup {None}, NEW p \in Passwords,
             InsertUser(v, e, p), UNCHANGED <<period, recent, link, unread>>,
             \A q \in Requests :
               request'[q] = request[q] \/ request'[q].pc = "idle"
      PROVE  Goal
  <2>1. CASE u = v
    <3>1. u \notin recent
      BY <1>4, <2>1 DEF InsertUser, Shape, TypeOK
    <3>2. QED
      BY <1>1, <1>4, <3>1 DEF Forgets
  <2>2. CASE u # v
    <3>1. email'[u] = email[u]
      BY <1>4, <2>2 DEF InsertUser, Shape, TypeOK
    <3>2. QED
      BY <1>4, <3>1, AddsNoneFrame
  <2>3. QED
    BY <2>1, <2>2
<1>5. ASSUME NEW v \in Users, NEW e \in Emails, NEW p \in Passwords,
             Register(v, e, p)
      PROVE  Goal
  BY <1>4, <1>5 DEF Register
<1>6. ASSUME NEW r \in Requests, NEW v \in Users, NEW p \in Passwords,
             ActivateContact(r, v, p)
      PROVE  Goal
  <2>1. request[r].email \in Emails \cup {None}
    BY DEF Shape, TypeOK, Locals
  <2>2. /\ InsertUser(v, request[r].email, p) /\ Answer(r)
        /\ UNCHANGED <<period, recent, link, unread>>
    BY <1>6 DEF ActivateContact
  <2>3. QED
    BY <1>2, <1>4, <2>1, <2>2
<1>7. ASSUME NEW r \in Requests, NEW p \in Passwords, UpdateUserPassword(r, p)
      PROVE  Goal
  <2>1. UNCHANGED <<period, recent, link, email, unread>> /\ Answer(r)
    BY <1>7 DEF UpdateUserPassword
  <2>2. QED
    BY <1>2, <2>1, AddsNoneFrame
<1>8. ASSUME NEW r \in Requests, Fail(r)
      PROVE  Goal
  <2>1. /\ UNCHANGED <<period, recent, link, email>> /\ Answer(r)
        /\ unread' = unread \ {r}
    BY <1>8 DEF Fail
  <2>2. request'[r].pc = "idle"
    BY <2>1, AnswerFacts DEF Shape
  <2>3. QED
    BY <1>2, <2>1, <2>2, AddsNoneFrame
<1>9. ASSUME NEW r \in Requests,
             \/ \E v \in Users, p \in Passwords : AuthenticateUser(r, v, p)
             \/ \E v \in Users : GetUserByResetToken(r, v)
             \/ \E k \in Contacts : ReadInvitation(r, k)
      PROVE  Goal
  <2>1. UNCHANGED <<period, recent, link, email, unread>>
    BY <1>9 DEF AuthenticateUser, GetUserByResetToken, ReadInvitation
  <2>2. \A q \in Requests : \/ request'[q] = request[q]
                            \/ request'[q].pc \notin {"forgot", "create"}
    BY <1>3, <1>9 DEF AuthenticateUser, GetUserByResetToken, ReadInvitation
  <2>3. QED
    BY <2>1, <2>2, AddsNoneFrame
<1>10. ASSUME NEW r \in Requests, NEW p \in Passwords, ConsumeResetToken(r, p)
       PROVE  Goal
  <2>1. PICK v \in Users : request[r].pc = "consume" /\ v = request[r].user
    BY <1>10 DEF ConsumeResetToken, Shape, TypeOK, Carries, Known
  <2>2. /\ Answer(r) /\ UNCHANGED <<email, unread>>
        /\ link' = [link EXCEPT ![v] = None]
        /\ recent' = recent \ {v}
        /\ period' = [period EXCEPT ![v] = 0]
    BY <1>10, <2>1 DEF ConsumeResetToken
  <2>3. CASE u = v
    BY <2>2, <2>3 DEF Forgets, Shape, TypeOK
  <2>4. CASE u # v
    <3>1. /\ period'[u] = period[u] /\ link'[u] = link[u]
          /\ (u \in recent => u \in recent')
      BY <2>2, <2>4 DEF Shape, TypeOK
    <3>2. QED
      BY <1>2, <2>2, <3>1, AddsNoneFrame
  <2>5. QED
    BY <2>3, <2>4
<1>11. ASSUME NEW v \in Users,
              \/ FiveMinutesPass(v) \/ LinkExpires(v)
              \/ \E fk \in FkModes : DeleteUser(v, fk)
       PROVE  Goal
  <2>1. CASE period'[u] = 0
    BY <2>1 DEF Forgets
  <2>2. CASE period'[u] # 0
    <3>1. /\ period'[u] = period[u] /\ link'[u] = link[u] /\ email'[u] = email[u]
          /\ (u \in recent => u \in recent') /\ UNCHANGED <<request, unread>>
      BY <1>11, <2>2
         DEF FiveMinutesPass, LinkExpires, DeleteUser, Shape, TypeOK
    <3>2. QED
      BY <3>1, AddsNoneFrame
  <2>3. QED
    BY <2>1, <2>2
<1>12. ASSUME \/ UNCHANGED vars
              \/ \E k \in Contacts :
                   \/ \E e \in Emails : CreateContact(k, e) \/ UpdateContact(k, e)
                   \/ DeleteContact(k) \/ InvitationLapses(k)
       PROVE  Goal
  <2>1. UNCHANGED <<period, recent, link, email, request, unread>>
    BY <1>12 DEF vars, CreateContact, UpdateContact, DeleteContact,
                 InvitationLapses
  <2>2. QED
    BY <2>1, AddsNoneFrame
\* The limit: a request passes it only when there is no link to count.
<1>13. ASSUME NEW r \in Requests, NEW e \in Emails, ForgotPassword(r, e)
       PROVE  Goal
  <2>1. /\ UNCHANGED <<period, recent, link, email>>
        /\ Become(r, "forgot", None, e, None)
    BY <1>13 DEF ForgotPassword
  <2>2. /\ request'[r].pc = "forgot" /\ request'[r].email = e
        /\ \A q \in Requests : q # r => request'[q] = request[q]
    BY <2>1, BecomeFacts DEF Shape
  <2>3. CASE unread' = unread \cup {r}
    <3>1. Pending(u)' \subseteq Pending(u)
      BY <2>1, <2>2, <2>3 DEF Pending
    <3>2. QED
      BY <2>1, <3>1 DEF AddsNone
  <2>4. CASE ~RateLimited(e) /\ email[u] = e
    <3>1. period[u] = 0
      BY <1>1, <2>4 DEF RateLimited
    <3>2. QED
      BY <2>1, <3>1 DEF Forgets
  <2>5. CASE unread' = unread /\ email[u] # e
    <3>1. Pending(u)' \subseteq Pending(u)
      BY <2>1, <2>2, <2>5 DEF Pending
    <3>2. QED
      BY <2>1, <3>1 DEF AddsNone
  <2>6. QED
    BY <1>13, <2>3, <2>4, <2>5 DEF ForgotPassword
\* The user is the one the address is of.
<1>14. ASSUME NEW r \in Requests, NEW v \in Users, GetUserByEmail(r, v)
       PROVE  Goal
  <2>1. UNCHANGED <<period, recent, link, email>>
    BY <1>14 DEF GetUserByEmail
  <2>2. Pending(u)' \subseteq Pending(u)
    BY <1>14, <2>1 DEF GetUserByEmail, Become, Pending, Shape, TypeOK
  <2>3. QED
    BY <2>1, <2>2 DEF AddsNone
<1>15. ASSUME NEW r \in Requests, NEW l \in Links, CreateResetToken(r, l)
       PROVE  Goal
  <2>1. PICK v \in Users : request[r].pc = "create" /\ v = request[r].user
    BY <1>15 DEF CreateResetToken, RowIsThere, Shape, TypeOK
  <2>2. /\ Answer(r) /\ UNCHANGED email
        /\ link' = [link EXCEPT ![v] = l]
        /\ recent' = recent \cup {v}
        /\ period' = IF r \in unread THEN period ELSE [period EXCEPT ![v] = @ + 1]
        /\ unread' = unread \ {r}
    BY <1>15, <2>1 DEF CreateResetToken
  <2>3. /\ request'[r].pc = "idle"
        /\ \A q \in Requests : q # r => request'[q] = request[q]
    BY <2>2, AnswerFacts DEF Shape
  <2>4. CASE u = v /\ r \notin unread
    <3>1. r \in Pending(u)
      BY <2>1, <2>4 DEF Pending
    <3>2. Pending(u)' \subseteq Pending(u) \ {r}
      BY <2>2, <2>3 DEF Pending
    <3>3. period'[u] = period[u] + 1 /\ u \in recent' /\ link'[u] # None
      BY <2>2, <2>4, AccountsAssumption DEF Shape, TypeOK
    <3>4. QED
      BY <3>1, <3>2, <3>3 DEF AddsOne
  <2>5. CASE u # v \/ r \in unread
    <3>1. /\ period'[u] = period[u]
          /\ (u \in recent => u \in recent')
      BY <2>2, <2>5 DEF Shape, TypeOK
    <3>2. link[u] # None => link'[u] # None
      BY <2>2, AccountsAssumption DEF Shape, TypeOK
    <3>3. QED
      BY <2>2, <2>3, <3>1, <3>2, AddsNoneFrame
  <2>6. QED
    BY <2>4, <2>5
<1> HIDE DEF Goal
<1>16. ASSUME AccountStep PROVE Goal
  BY <1>5, <1>6, <1>7, <1>8, <1>9, <1>10, <1>11, <1>13, <1>14, <1>15, <1>16
     DEF AccountStep
<1>17. ASSUME ContactStep PROVE Goal
  BY <1>9, <1>12, <1>17 DEF ContactStep
<1>18. Goal
  BY <1>12, <1>16, <1>17 DEF Next
<1> QED BY <1>18 DEF Goal

LEMMA LimitedStep == Shape /\ Limited /\ [Next]_vars => Limited'
<1> SUFFICES ASSUME Shape, Limited, [Next]_vars, NEW u \in Users
             PROVE  /\ period'[u] > 0 => u \in recent' /\ link'[u] # None
                    /\ period'[u] + Cardinality(Pending(u)')
                         <= Cardinality(Requests)
  BY DEF Limited
<1>1. /\ IsFiniteSet(Requests)
      /\ IsFiniteSet(Pending(u)) /\ IsFiniteSet(Pending(u)')
      /\ Cardinality(Pending(u)') <= Cardinality(Requests)
  BY FS_Subset, AccountsAssumption DEF Pending
<1>2. /\ Cardinality(Requests) \in Nat /\ Cardinality(Pending(u)) \in Nat
      /\ Cardinality(Pending(u)') \in Nat
  BY <1>1, FS_CardinalityType
<1>3. /\ period[u] \in Nat
      /\ period[u] > 0 => u \in recent /\ link[u] # None
      /\ period[u] + Cardinality(Pending(u)) <= Cardinality(Requests)
  BY DEF Shape, TypeOK, Limited
<1>4. CASE Forgets(u)
  BY <1>1, <1>2, <1>4 DEF Forgets
<1>5. CASE AddsNone(u)
  <2>1. Cardinality(Pending(u)') <= Cardinality(Pending(u))
    BY <1>1, <1>5, FS_Subset DEF AddsNone
  <2>2. QED
    BY <1>2, <1>3, <1>5, <2>1 DEF AddsNone
<1>6. CASE AddsOne(u)
  <2>1. PICK r \in Pending(u) :
          /\ period'[u] = period[u] + 1 /\ Pending(u)' \subseteq Pending(u) \ {r}
          /\ u \in recent' /\ link'[u] # None
    BY <1>6 DEF AddsOne
  <2>2. /\ IsFiniteSet(Pending(u) \ {r})
        /\ Cardinality(Pending(u) \ {r}) = Cardinality(Pending(u)) - 1
    BY <1>1, <2>1, FS_RemoveElement
  <2>3. Cardinality(Pending(u)') <= Cardinality(Pending(u)) - 1
    BY <2>1, <2>2, FS_Subset
  <2>4. QED
    BY <1>2, <1>3, <2>1, <2>3
<1> QED BY <1>4, <1>5, <1>6, PendingStep

\* However the requests for links overlap: of those that could read the limit,
\* an account gets in five minutes no more links than requests are handled at the
\* same time (ForgotPassword).
THEOREM LinksAreLimited == Spec => []LinksPerPeriod
<1>1. Init => Limited
  <2>1. SUFFICES ASSUME Init, NEW u \in Users
                 PROVE  /\ period[u] > 0 => u \in recent /\ link[u] # None
                        /\ period[u] + Cardinality(Pending(u))
                             <= Cardinality(Requests)
    BY DEF Limited
  <2>2. period[u] = 0 /\ Pending(u) = {}
    BY <2>1 DEF Init, Pending, Idle
  <2>3. Cardinality(Requests) \in Nat
    BY AccountsAssumption, FS_CardinalityType
  <2>4. QED
    BY <2>2, <2>3, FS_EmptySet
<1>2. Shape /\ Limited => LinksPerPeriod
  <2>1. SUFFICES ASSUME Shape, Limited, NEW u \in Users
                 PROVE  period[u] <= Cardinality(Requests)
    BY DEF LinksPerPeriod
  <2>2. IsFiniteSet(Pending(u)) /\ IsFiniteSet(Requests)
    BY FS_Subset, AccountsAssumption DEF Pending
  <2>3. Cardinality(Pending(u)) \in Nat /\ Cardinality(Requests) \in Nat
    BY <2>2, FS_CardinalityType
  <2>4. /\ period[u] \in Nat
        /\ period[u] + Cardinality(Pending(u)) <= Cardinality(Requests)
    BY <2>1 DEF Shape, TypeOK, Limited
  <2>5. QED
    BY <2>3, <2>4
<1>3. QED
  BY <1>1, <1>2, LimitedStep, AlwaysShape, PTL DEF Spec
=============================================================================
