------------------------ MODULE TenantTransferProofs ------------------------
(***************************************************************************)
(* Proofs about TenantTransfer, for any tenants, people, clients, segments *)
(* and requests, whatever the bounds on exports, edits and faults.         *)
(***************************************************************************)
EXTENDS TenantTransfer, FiniteSetTheorems, TLAPS

-----------------------------------------------------------------------------
(* What a tenant holds. *)

LEMMA EmptyIs ==
  /\ Empty \in Tables /\ LinksLead(Empty) /\ Consistent(Empty)
  /\ Empty.open = FALSE /\ Empty.clients = {} /\ Empty.segments = {}
  /\ Empty.campaign = NoCampaign /\ Empty.unsubscribed = {}
  /\ \A e \in People : Empty.users[e] = None /\ Empty.contacts[e] = None
BY DEF Empty, Tables, Campaigns, LinksLead, NoCampaign, Consistent

\* What an edit may do keeps links and recipients.
LEMMA EditedIs ==
  ASSUME NEW x \in Tables, LinksLead(x), Consistent(x), NEW y \in Edited(x)
  PROVE  /\ y \in Tables /\ LinksLead(y) /\ Consistent(y)
         /\ y.clients = x.clients
<1> DEFINE
  UserSet == \E e \in People, role \in {"user", "admin", None} :
               y = [x EXCEPT !.users[e] = role]
  ContactAdded == \E e \in People, S \in SUBSET x.segments :
               x.contacts[e] = None /\ y = [x EXCEPT !.contacts[e] = S]
  ContactGone == \E e \in People :
               y = [x EXCEPT !.contacts[e] = None, !.unsubscribed = @ \ {e},
                             !.campaign.recipients = @ \ {e}]
  OptedOut == \E e \in People :
               /\ x.contacts[e] # None
               /\ y = [x EXCEPT !.unsubscribed = @ \cup {e}]
  SegmentAdded == \E s \in Segments : y = [x EXCEPT !.segments = @ \cup {s}]
  SegmentGone == \E s \in x.segments :
               y = [x EXCEPT !.segments = @ \ {s},
                      !.contacts = [e \in People |->
                                      IF @[e] = None THEN None ELSE @[e] \ {s}],
                      !.campaign.segments = @ \ {s}]
  Drafted == \E S \in SUBSET x.segments :
               y = [x EXCEPT !.campaign = [status |-> "draft", segments |-> S,
                                           recipients |-> {}]]
  Sent == \E z \in {"sent", "failed"} :
               /\ x.campaign.status = "draft"
               /\ y = [x EXCEPT !.campaign.status = z,
                                !.campaign.recipients = Audience(x)]
  CampaignGone == y = [x EXCEPT !.campaign = NoCampaign]
<1>0. /\ x.open \in BOOLEAN
      /\ x.users \in [People -> {None, "user", "admin", "member"}]
      /\ x.clients \in SUBSET Clients /\ x.segments \in SUBSET Segments
      /\ x.contacts \in [People -> {None} \cup SUBSET Segments]
      /\ x.unsubscribed \in SUBSET People /\ x.campaign \in Campaigns
      /\ DOMAIN x = {"open", "users", "clients", "segments", "contacts",
                     "unsubscribed", "campaign"}
  BY DEF Tables
<1>1. ASSUME UserSet
      PROVE  y \in Tables /\ LinksLead(y) /\ Consistent(y) /\ y.clients = x.clients
  <2>1. PICK e \in People, role \in {"user", "admin", None} :
          y = [x EXCEPT !.users[e] = role]
    BY <1>1
  <2>2. y \in Tables
    BY <2>1 DEF Tables
  <2>3. /\ y.contacts = x.contacts /\ y.campaign = x.campaign
        /\ y.segments = x.segments /\ y.clients = x.clients
        /\ y.unsubscribed = x.unsubscribed
    BY <2>1 DEF Tables
  <2>4. QED
    BY <2>2, <2>3 DEF LinksLead, Consistent
<1>2. ASSUME ContactAdded
      PROVE  y \in Tables /\ LinksLead(y) /\ Consistent(y) /\ y.clients = x.clients
  <2>1. PICK e \in People, S \in SUBSET x.segments :
          x.contacts[e] = None /\ y = [x EXCEPT !.contacts[e] = S]
    BY <1>2
  <2>2. /\ y.contacts = [x.contacts EXCEPT ![e] = S]
        /\ y.clients = x.clients /\ y.unsubscribed = x.unsubscribed
        /\ y.segments = x.segments /\ y.campaign = x.campaign
    BY <2>1 DEF Tables
  <2>3. S # None /\ S \in SUBSET Segments
    BY <1>0, BeginningsAssumption
  <2>4. y \in Tables
    BY <2>1, <2>3 DEF Tables
  <2>5. LinksLead(y)
    BY <1>0, <2>2 DEF LinksLead
  <2>6. Consistent(y)
    BY <1>0, <2>2, <2>3 DEF Consistent
  <2>7. QED
    BY <2>2, <2>4, <2>5, <2>6
<1>3. ASSUME ContactGone
      PROVE  y \in Tables /\ LinksLead(y) /\ Consistent(y) /\ y.clients = x.clients
  <2>1. PICK e \in People :
          y = [x EXCEPT !.contacts[e] = None, !.unsubscribed = @ \ {e},
                        !.campaign.recipients = @ \ {e}]
    BY <1>3
  <2>2. PICK z : z = [x.campaign EXCEPT !.recipients = @ \ {e}]
    OBVIOUS
  <2>3. /\ z \in Campaigns /\ z.segments = x.campaign.segments
        /\ z.recipients = x.campaign.recipients \ {e}
    <3>1. CASE x.campaign = NoCampaign
      <4>1. PICK old : old = x.campaign
        OBVIOUS
      <4>2. /\ old = [status |-> None, segments |-> {}, recipients |-> {}]
            /\ {} \ {e} = {}
        BY <3>1, <4>1 DEF NoCampaign
      <4>3. /\ [old EXCEPT !.recipients = {}] = old
            /\ old.recipients = {} /\ old.recipients \ {e} = {}
        BY <4>2
      <4>4. z = old
        BY <2>2, <4>1, <4>3
      <4>5. QED
        BY <1>0, <4>1, <4>3, <4>4
    <3>2. CASE x.campaign # NoCampaign
      BY <1>0, <2>2, <3>2 DEF Campaigns
    <3>3. QED
      BY <3>1, <3>2
  <2>4. PICK U : U = x.unsubscribed \ {e}
    OBVIOUS
  <2>5. PICK v : v = [x.contacts EXCEPT ![e] = None]
    OBVIOUS
  <2>6. y = [x EXCEPT !.contacts = v, !.unsubscribed = U, !.campaign = z]
    BY <2>1, <2>2, <2>4, <2>5 DEF Tables
  <2>7. /\ v \in [People -> {None} \cup SUBSET Segments] /\ U \in SUBSET People
        /\ \A d \in People : v[d] = IF d = e THEN None ELSE x.contacts[d]
    BY <1>0, <2>4, <2>5
  <2>8. /\ y.contacts = v /\ y.clients = x.clients /\ y.unsubscribed = U
        /\ y.segments = x.segments /\ y.campaign = z
    BY <1>0, <2>6 DEF Tables
  <2>9. y \in Tables
    BY <2>3, <2>6, <2>7 DEF Tables
  <2>10. LinksLead(y)
    BY <1>0, <2>3, <2>7, <2>8 DEF LinksLead
  <2>11. x.campaign.recipients \subseteq People
    BY <1>0 DEF Campaigns, NoCampaign
  <2>12. Consistent(y)
    BY <1>0, <2>3, <2>4, <2>7, <2>8, <2>11 DEF Consistent
  <2>13. QED
    BY <2>8, <2>9, <2>10, <2>12
<1>4. ASSUME OptedOut
      PROVE  y \in Tables /\ LinksLead(y) /\ Consistent(y) /\ y.clients = x.clients
  <2>1. PICK e \in People :
          x.contacts[e] # None /\ y = [x EXCEPT !.unsubscribed = @ \cup {e}]
    BY <1>4
  <2>2. /\ y.contacts = x.contacts /\ y.clients = x.clients
        /\ y.unsubscribed = x.unsubscribed \cup {e}
        /\ y.segments = x.segments /\ y.campaign = x.campaign
    BY <2>1 DEF Tables
  <2>3. y \in Tables
    BY <2>1 DEF Tables
  <2>4. QED
    BY <2>1, <2>2, <2>3 DEF LinksLead, Consistent
<1>5. ASSUME SegmentAdded
      PROVE  y \in Tables /\ LinksLead(y) /\ Consistent(y) /\ y.clients = x.clients
  <2>1. PICK s \in Segments : y = [x EXCEPT !.segments = @ \cup {s}]
    BY <1>5
  <2>2. /\ y.segments = x.segments \cup {s} /\ y.clients = x.clients
        /\ y.contacts = x.contacts /\ y.campaign = x.campaign
        /\ y.unsubscribed = x.unsubscribed
    BY <2>1 DEF Tables
  <2>3. y \in Tables
    BY <2>1 DEF Tables
  <2>4. QED
    BY <2>2, <2>3 DEF LinksLead, Consistent
<1>6. ASSUME SegmentGone
      PROVE  y \in Tables /\ LinksLead(y) /\ Consistent(y) /\ y.clients = x.clients
  <2>1. PICK s \in x.segments :
             y = [x EXCEPT !.segments = @ \ {s},
                    !.contacts = [e \in People |->
                                    IF @[e] = None THEN None ELSE @[e] \ {s}],
                    !.campaign.segments = @ \ {s}]
    BY <1>6
  <2>2. /\ y.open = x.open /\ y.users = x.users /\ y.clients = x.clients
        /\ y.segments = x.segments \ {s} /\ y.unsubscribed = x.unsubscribed
        /\ y.contacts = [e \in People |-> IF x.contacts[e] = None THEN None
                                          ELSE x.contacts[e] \ {s}]
        /\ y.campaign = [x.campaign EXCEPT !.segments = @ \ {s}]
    BY <2>1 DEF Tables
  <2>3. /\ y.campaign \in Campaigns
        /\ y.campaign.segments = x.campaign.segments \ {s}
        /\ y.campaign.recipients = x.campaign.recipients
    <3>1. CASE x.campaign = NoCampaign
      <4>1. PICK old : old = x.campaign
        OBVIOUS
      <4>2. /\ old = [status |-> None, segments |-> {}, recipients |-> {}]
            /\ {} \ {s} = {}
        BY <3>1, <4>1 DEF NoCampaign
      <4>3. /\ [old EXCEPT !.segments = {}] = old
            /\ old.segments = {} /\ old.segments \ {s} = {}
        BY <4>2
      <4>4. y.campaign = old
        BY <2>2, <4>1, <4>3
      <4>5. QED
        BY <1>0, <4>1, <4>3, <4>4
    <3>2. CASE x.campaign # NoCampaign
      BY <1>0, <2>2, <3>2 DEF Campaigns
    <3>3. QED
      BY <3>1, <3>2
  <2>4. ASSUME NEW e \in People
        PROVE  /\ y.contacts[e] \in {None} \cup SUBSET y.segments
               /\ y.contacts[e] \in {None} \cup SUBSET Segments
               /\ x.contacts[e] # None => y.contacts[e] # None
    <3>1. CASE x.contacts[e] = None
      BY <2>2, <3>1
    <3>2. CASE x.contacts[e] # None
      <4>1. /\ y.contacts[e] = x.contacts[e] \ {s}
            /\ x.contacts[e] \subseteq x.segments
        BY <2>2, <3>2 DEF LinksLead
      <4>2. x.contacts[e] \ {s} \in SUBSET Segments
        BY <1>0, <4>1
      <4>3. QED
        BY <2>2, <4>1, <4>2, BeginningsAssumption
    <3>3. QED
      BY <3>1, <3>2
  <2>5. y.contacts \in [People -> {None} \cup SUBSET Segments]
    BY <2>2, <2>4
  <2>6. y \in Tables
    <3>1. DOMAIN y = DOMAIN x /\ y = [z \in DOMAIN y |-> y[z]]
      BY <1>0, <2>1 DEF Tables
    <3>2. QED
      BY <1>0, <2>2, <2>3, <2>5, <3>1 DEF Tables
  <2>7. LinksLead(y)
    BY <2>2, <2>3, <2>4 DEF LinksLead
  <2>8. Consistent(y)
    BY <1>0, <2>2, <2>3, <2>4 DEF Consistent, Campaigns, NoCampaign
  <2>9. QED
    BY <2>2, <2>6, <2>7, <2>8
<1>7. ASSUME Drafted
      PROVE  y \in Tables /\ LinksLead(y) /\ Consistent(y) /\ y.clients = x.clients
  <2>1. PICK S \in SUBSET x.segments :
          y = [x EXCEPT !.campaign = [status |-> "draft", segments |-> S,
                                      recipients |-> {}]]
    BY <1>7
  <2>2. [status |-> "draft", segments |-> S, recipients |-> {}] \in Campaigns
    BY <1>0 DEF Campaigns, Statuses
  <2>3. /\ y.clients = x.clients /\ y.unsubscribed = x.unsubscribed
        /\ y.segments = x.segments /\ y.contacts = x.contacts
        /\ y.campaign = [status |-> "draft", segments |-> S, recipients |-> {}]
    BY <2>1 DEF Tables
  <2>4. y \in Tables
    BY <2>1, <2>2 DEF Tables
  <2>5. QED
    BY <2>3, <2>4 DEF LinksLead, Consistent
<1>8. ASSUME Sent
      PROVE  y \in Tables /\ LinksLead(y) /\ Consistent(y) /\ y.clients = x.clients
  <2>0. PICK A \in SUBSET People :
          A = Audience(x) /\ \A e \in A : x.contacts[e] # None
    <3>1. /\ Audience(x) \in SUBSET People
          /\ \A e \in Audience(x) : x.contacts[e] # None
      BY DEF Audience
    <3>2. QED
      BY <3>1
  <2>1. PICK z \in {"sent", "failed"} :
             /\ x.campaign.status = "draft"
             /\ y = [x EXCEPT !.campaign.status = z, !.campaign.recipients = A]
    BY <1>8, <2>0
  <2>2. x.campaign \in [status : Statuses, segments : SUBSET Segments,
                        recipients : SUBSET People]
    BY <1>0, <2>1, BeginningsAssumption DEF Campaigns, NoCampaign, Statuses
  <2>3. /\ y.clients = x.clients /\ y.unsubscribed = x.unsubscribed
        /\ y.segments = x.segments /\ y.contacts = x.contacts
        /\ y.campaign = [x.campaign EXCEPT !.status = z, !.recipients = A]
    BY <2>1 DEF Tables
  <2>4. /\ y.campaign \in Campaigns
        /\ y.campaign.segments = x.campaign.segments
        /\ y.campaign.recipients = A
    BY <2>2, <2>3 DEF Campaigns, Statuses
  <2>5. y \in Tables
    <3>1. y = [x EXCEPT !.campaign = y.campaign]
      BY <2>1, <2>3 DEF Tables
    <3>2. QED
      BY <2>4, <3>1 DEF Tables
  <2>6. QED
    BY <2>0, <2>3, <2>4, <2>5 DEF LinksLead, Consistent
<1>9. ASSUME CampaignGone
      PROVE  y \in Tables /\ LinksLead(y) /\ Consistent(y) /\ y.clients = x.clients
  <2>1. NoCampaign \in Campaigns
    BY DEF Campaigns
  <2>2. /\ y.campaign = NoCampaign /\ y.clients = x.clients
        /\ y.contacts = x.contacts /\ y.segments = x.segments
        /\ y.unsubscribed = x.unsubscribed
    BY <1>9 DEF Tables
  <2>3. y \in Tables
    BY <1>9, <2>1 DEF Tables
  <2>4. QED
    BY <2>2, <2>3 DEF LinksLead, Consistent, NoCampaign
<1>10. \/ UserSet \/ ContactAdded \/ ContactGone \/ OptedOut \/ SegmentAdded
       \/ SegmentGone \/ Drafted \/ Sent \/ CampaignGone
  <2> DEFINE
    Users == {[x EXCEPT !.users[e] = "user"] : e \in People}
    Contacts == {e \in People : x.contacts[e] # None}
    OldContacts == {[x EXCEPT !.contacts[e] = None, !.unsubscribed = @ \ {e},
                              !.campaign.recipients = @ \ {e}] : e \in Contacts}
    Leavers == {[x EXCEPT !.unsubscribed = @ \cup {e}] : e \in Contacts}
    NewSegments == {[x EXCEPT !.segments = @ \cup {s}] : s \in Segments \ x.segments}
    OldSegments == {[x EXCEPT !.segments = @ \ {s},
                       !.contacts = [e \in People |->
                                       IF @[e] = None THEN None ELSE @[e] \ {s}],
                       !.campaign.segments = @ \ {s}] : s \in x.segments}
    Drafts == {[x EXCEPT !.campaign = [status |-> "draft", segments |-> S,
                                       recipients |-> {}]] :
                 S \in IF x.campaign = NoCampaign THEN SUBSET x.segments ELSE {}}
    Sendings == {[x EXCEPT !.campaign.status = z,
                           !.campaign.recipients = Audience(x)] :
                 z \in IF x.campaign.status = "draft" THEN {"sent", "failed"} ELSE {}}
    Deletions == {[x EXCEPT !.campaign = z] :
                  z \in IF x.campaign.status = "draft" THEN {NoCampaign} ELSE {}}
  <2>1. Edited(x) = Users \cup OldUsers(x) \cup NewContacts(x) \cup OldContacts
                     \cup Leavers \cup NewSegments
                     \cup OldSegments \cup Drafts \cup Sendings \cup Deletions
    BY Zenon DEF Edited
  <2>2. y \in Users => UserSet
    OBVIOUS
  <2>3. y \in OldUsers(x) => UserSet
    BY DEF OldUsers
  <2>4. y \in NewContacts(x) => ContactAdded
    BY DEF NewContacts
  <2>5. y \in OldContacts => ContactGone
    OBVIOUS
  <2>6. y \in Leavers => OptedOut
    OBVIOUS
  <2>7. y \in NewSegments => SegmentAdded
    OBVIOUS
  <2>8. y \in OldSegments => SegmentGone
    OBVIOUS
  <2>9. y \in Drafts => Drafted
    OBVIOUS
  <2>10. y \in Sendings => Sent
    OBVIOUS
  <2>11. y \in Deletions => CampaignGone
    OBVIOUS
  <2> HIDE DEF Users, OldContacts, Leavers, NewSegments,
               OldSegments, Drafts, Sendings, Deletions,
               UserSet, ContactAdded, ContactGone, OptedOut, SegmentAdded,
               SegmentGone, Drafted, Sent, CampaignGone
  <2>12. QED
    BY <2>1, <2>2, <2>3, <2>4, <2>5, <2>6, <2>7, <2>8, <2>9, <2>10, <2>11
<1> HIDE DEF UserSet, ContactAdded, ContactGone, OptedOut, SegmentAdded,
             SegmentGone, Drafted, Sent, CampaignGone
<1>11. QED
  BY <1>1, <1>2, <1>3, <1>4, <1>5, <1>6, <1>7, <1>8, <1>9, <1>10
-----------------------------------------------------------------------------
(* Files, and the rows an import makes of one. *)

Files == [mode : {None, "seed", "migration"}, rows : Tables, source : Tables,
          sound : BOOLEAN]
Rows == [part : Parts, key : People \cup Clients \cup Segments \cup {None}]
PartsRead == {Row(p, None) : p \in Parts \ {"open", "recipients"}}

\* What the rows of a file are of.
LEMMA RowsOfAre ==
  ASSUME NEW f \in Files, NEW row \in RowsOf(f)
  PROVE  /\ row \in Rows
         /\ \/ row.part = "open" /\ row.key = None /\ f.rows.open = TRUE
            \/ row.part = "users" /\ row.key \in People /\ f.rows.users[row.key] # None
            \/ row.part = "clients" /\ row.key \in f.rows.clients
            \/ row.part = "segments" /\ row.key \in f.rows.segments
            \/ /\ row.part = "contacts" /\ row.key \in People
               /\ f.rows.contacts[row.key] # None
            \/ row.part = "campaign" /\ row.key = None /\ f.rows.campaign # NoCampaign
            \/ row.part = "recipients" /\ row.key \in f.rows.campaign.recipients
<1>1. /\ f.rows.clients \subseteq Clients /\ f.rows.segments \subseteq Segments
      /\ f.rows.campaign.recipients \subseteq People /\ f.rows.open \in BOOLEAN
  BY DEF Files, Tables, Campaigns, NoCampaign
<1>2. QED
  BY <1>1 DEF RowsOf, Row, Rows, Parts

\* What keeps the links of the rows x and their recipients, table by table.
Sound(x) == x \in Tables /\ LinksLead(x) /\ Consistent(x)

LEMMA UserKeeps ==
  ASSUME NEW x, Sound(x), NEW e \in People,
         NEW v \in {None, "user", "admin", "member"},
         NEW y, y = [x EXCEPT !.users[e] = v]
  PROVE  Sound(y) /\ y.clients = x.clients
<1>1. /\ y \in Tables /\ y.clients = x.clients /\ y.segments = x.segments
      /\ y.contacts = x.contacts /\ y.campaign = x.campaign
      /\ y.unsubscribed = x.unsubscribed
  BY DEF Sound, Tables
<1>2. QED
  BY <1>1 DEF Sound, LinksLead, Consistent

LEMMA ClientKeeps ==
  ASSUME NEW x, Sound(x), NEW c \in Clients
  PROVE  /\ Sound([x EXCEPT !.clients = @ \cup {c}])
         /\ [x EXCEPT !.clients = @ \cup {c}].clients = x.clients \cup {c}
<1>1. PICK y : y = [x EXCEPT !.clients = @ \cup {c}]
  OBVIOUS
<1>2. /\ y \in Tables /\ y.clients = x.clients \cup {c} /\ y.segments = x.segments
      /\ y.contacts = x.contacts /\ y.campaign = x.campaign
      /\ y.unsubscribed = x.unsubscribed
  BY <1>1 DEF Sound, Tables
<1>3. QED
  BY <1>1, <1>2 DEF Sound, LinksLead, Consistent

LEMMA SegmentKeeps ==
  ASSUME NEW x, Sound(x), NEW s \in Segments
  PROVE  /\ Sound([x EXCEPT !.segments = @ \cup {s}])
         /\ [x EXCEPT !.segments = @ \cup {s}].clients = x.clients
<1>1. PICK y : y = [x EXCEPT !.segments = @ \cup {s}]
  OBVIOUS
<1>2. /\ y \in Tables /\ y.clients = x.clients /\ y.segments = x.segments \cup {s}
      /\ y.contacts = x.contacts /\ y.campaign = x.campaign
      /\ y.unsubscribed = x.unsubscribed
  BY <1>1 DEF Sound, Tables
<1>3. QED
  BY <1>1, <1>2 DEF Sound, LinksLead, Consistent

\* y is x with the segments S for the contact e, and U unsubscribed.
WithContact(x, e, S, U, y) ==
  y = [x EXCEPT !.contacts = [x.contacts EXCEPT ![e] = S], !.unsubscribed = U]

LEMMA ContactKeeps ==
  ASSUME NEW x, Sound(x), NEW e \in People, NEW S \in SUBSET x.segments,
         NEW U \in SUBSET People, U \subseteq x.unsubscribed \cup {e},
         NEW y, WithContact(x, e, S, U, y)
  PROVE  Sound(y) /\ y.clients = x.clients
<1>0. /\ x.segments \in SUBSET Segments
      /\ x.contacts \in [People -> {None} \cup SUBSET Segments]
  BY DEF Sound, Tables
<1>1. S # None /\ S \in SUBSET Segments
  BY <1>0, BeginningsAssumption
<1>2. PICK v : v = [x.contacts EXCEPT ![e] = S]
  OBVIOUS
<1>3. v \in [People -> {None} \cup SUBSET Segments]
  BY <1>0, <1>1, <1>2
<1>4. y = [x EXCEPT !.contacts = v, !.unsubscribed = U]
  BY <1>2 DEF WithContact
<1>5. /\ y \in Tables /\ y.clients = x.clients /\ y.segments = x.segments
      /\ y.contacts = v /\ y.campaign = x.campaign /\ y.unsubscribed = U
  BY <1>3, <1>4 DEF Sound, Tables
<1>6. ASSUME NEW d \in People
      PROVE  /\ v[d] \in {None} \cup SUBSET x.segments
             /\ x.contacts[d] # None \/ d = e => v[d] # None
  BY <1>0, <1>1, <1>2 DEF Sound, LinksLead
<1>7. LinksLead(y)
  BY <1>5, <1>6 DEF Sound, LinksLead
<1>8. x.campaign.recipients \subseteq People
  BY DEF Sound, Tables, Campaigns, NoCampaign
<1>9. Consistent(y)
  BY <1>5, <1>6, <1>8 DEF Sound, Consistent
<1>10. QED
  BY <1>5, <1>7, <1>9 DEF Sound

LEMMA CampaignKeeps ==
  ASSUME NEW x, Sound(x), NEW z \in Campaigns, z.segments \subseteq x.segments,
         \A e \in z.recipients : x.contacts[e] # None
  PROVE  /\ Sound([x EXCEPT !.campaign = z])
         /\ [x EXCEPT !.campaign = z].clients = x.clients
<1>1. PICK y : y = [x EXCEPT !.campaign = z]
  OBVIOUS
<1>2. /\ y \in Tables /\ y.clients = x.clients /\ y.segments = x.segments
      /\ y.contacts = x.contacts /\ y.campaign = z
      /\ y.unsubscribed = x.unsubscribed
  BY <1>1 DEF Sound, Tables
<1>3. QED
  BY <1>1, <1>2 DEF Sound, LinksLead, Consistent

\* A row that was accepted is written so that its links lead somewhere; the
\* clients of the tenant change with a row of the clients only.
LEMMA WrittenIs ==
  ASSUME NEW r \in Requests, NEW f, f = request[r].file, f \in Files,
         NEW now, now = rows[request[r].tenant], Sound(now),
         NEW row \in RowsOf(f), row.part # "open", Accepted(r, row),
         NEW c \in ClientIds(f, row), NEW y, y = Written(f, now, row, c)
  PROVE  /\ Sound(y)
         /\ y.clients = IF row.part = "clients" THEN now.clients \cup {c}
                        ELSE now.clients
         /\ row.part = "clients" => c \in Clients /\ Unused(c)
<1>0. /\ f.rows.users \in [People -> {None, "user", "admin", "member"}]
      /\ f.rows.clients \in SUBSET Clients /\ f.rows.segments \in SUBSET Segments
      /\ f.rows.campaign \in Campaigns /\ now.campaign \in Campaigns
  BY DEF Tables, Files, Sound
<1>1. CASE row.part = "users" /\ row.key \in People
  <2>1. RoleInserted(f, row.key) \in {None, "user", "admin", "member"}
    BY <1>0, <1>1 DEF RoleInserted
  <2>2. y = [now EXCEPT !.users[row.key] = RoleInserted(f, row.key)]
    BY <1>1 DEF Written
  <2>3. PICK role \in {None, "user", "admin", "member"} : role = RoleInserted(f, row.key)
    BY <2>1
  <2>4. PICK e \in People : e = row.key
    BY <1>1
  <2>5. y = [now EXCEPT !.users[e] = role]
    BY <2>2, <2>3, <2>4
  <2>6. Sound(y) /\ y.clients = now.clients
    BY <2>5, UserKeeps
  <2>7. QED
    BY <1>1, <2>6
<1>2. CASE row.part = "clients" /\ row.key \in f.rows.clients
  <2>1. c \in Clients /\ Unused(c)
    BY <1>0, <1>2 DEF ClientIds, Accepted
  <2>2. y = [now EXCEPT !.clients = @ \cup {c}]
    BY <1>2 DEF Written
  <2>3. QED
    BY <1>2, <2>1, <2>2, ClientKeeps
<1>3. CASE row.part = "segments" /\ row.key \in f.rows.segments
  <2>1. y = [now EXCEPT !.segments = @ \cup {row.key}] /\ row.key \in Segments
    BY <1>0, <1>3 DEF Written
  <2>2. QED
    BY <1>3, <2>1, SegmentKeeps
<1>4. CASE row.part = "contacts" /\ row.key \in People
  <2>1. PICK S : S = KnownSegments(f, f.rows.contacts[row.key]) \cap now.segments
    OBVIOUS
  <2>2. PICK U : U = now.unsubscribed \cup ({row.key} \cap f.rows.unsubscribed)
    OBVIOUS
  <2>3. /\ S \in SUBSET now.segments /\ U \in SUBSET People
        /\ U \subseteq now.unsubscribed \cup {row.key}
    BY <1>4, <2>1, <2>2 DEF Sound, Tables
  <2>4. CASE Skipped(row)
    BY <1>4, <2>4 DEF Written
  <2>5. CASE ~Skipped(row)
    <3>1. y = [now EXCEPT !.contacts[row.key] = S, !.unsubscribed = U]
      BY <1>4, <2>1, <2>2, <2>5 DEF Written, Sound
    <3>2. PICK e \in People : e = row.key
      BY <1>4
    <3>3. WithContact(now, e, S, U, y)
      BY <3>1, <3>2 DEF WithContact, Sound, Tables
    <3>4. U \subseteq now.unsubscribed \cup {e}
      BY <2>3, <3>2
    <3>5. Sound(y) /\ y.clients = now.clients
      BY <2>3, <3>2, <3>3, <3>4, ContactKeeps
    <3>6. QED
      BY <1>4, <3>5
  <2>6. QED
    BY <2>4, <2>5
<1>5. CASE row.part = "campaign" /\ f.rows.campaign # NoCampaign
  <2>1. PICK S : S = KnownSegments(f, f.rows.campaign.segments) \cap now.segments
    OBVIOUS
  <2>2. /\ S \in SUBSET now.segments /\ S \in SUBSET Segments
        /\ f.rows.campaign.status \in Statuses
    BY <1>0, <1>5, <2>1 DEF Campaigns, KnownSegments
  <2>3. PICK z : z = [status |-> f.rows.campaign.status, recipients |-> {},
                      segments |-> S]
    OBVIOUS
  <2>4. z \in Campaigns /\ z.segments = S /\ z.recipients = {}
    BY <2>2, <2>3 DEF Campaigns
  <2>5. y = [now EXCEPT !.campaign = z]
    BY <1>5, <2>1, <2>3 DEF Written
  <2>6. QED
    BY <1>5, <2>2, <2>4, <2>5, CampaignKeeps
<1>6. CASE row.part = "recipients" /\ row.key \in f.rows.campaign.recipients
  <2>1. CASE now.contacts[row.key] = None \/ now.campaign = NoCampaign
    BY <1>6, <2>1 DEF Written
  <2>2. CASE now.contacts[row.key] # None /\ now.campaign # NoCampaign
    <3>1. row.key \in People
      BY <1>0, <1>6 DEF Campaigns, NoCampaign
    <3>2. PICK old \in [status : Statuses, segments : SUBSET Segments,
                        recipients : SUBSET People] : old = now.campaign
      BY <1>0, <2>2 DEF Campaigns
    <3>3. PICK z : z = [old EXCEPT !.recipients = @ \cup {row.key}]
      OBVIOUS
    <3>4. /\ z \in Campaigns /\ z.segments = old.segments
          /\ z.recipients = old.recipients \cup {row.key}
      BY <3>1, <3>3 DEF Campaigns
    <3>5. y = [now EXCEPT !.campaign = z]
      BY <1>6, <2>2, <3>2, <3>3 DEF Written
    <3>6. /\ z.segments \subseteq now.segments
          /\ \A e \in z.recipients : now.contacts[e] # None
      BY <2>2, <3>2, <3>4 DEF Sound, LinksLead, Consistent
    <3>7. QED
      BY <1>6, <3>4, <3>5, <3>6, CampaignKeeps
  <2>3. QED
    BY <2>1, <2>2
<1>7. QED
  BY <1>1, <1>2, <1>3, <1>4, <1>5, <1>6, RowsOfAre
-----------------------------------------------------------------------------
(***************************************************************************)
(* What everything is, and what the tenants hold.                          *)
(***************************************************************************)
Locals ==
  [job : {"idle", "edit", "export", "create", "import"},
   tenant : Tenants \cup {None}, slug : Slugs \cup {None}, file : Files,
   todo : SUBSET Rows, user : People \cup {None}]

\* What a request has in hand fits what it does.
Fits(q) ==
  /\ q.job \in {"edit", "export", "import"} => q.tenant \in made
  /\ q.job = "export" => q.todo \subseteq PartsRead
  /\ q.job \in {"create", "import"} => q.todo \subseteq RowsOf(q.file)

RequestsFit ==
  /\ request \in [Requests -> Locals]
  /\ \A r \in Requests : Fits(request[r])
  /\ file \in Files

\* Ids are never given twice, so a tenant that was not made yet holds nothing.
TablesFit ==
  /\ rows \in [Tenants -> Tables]
  /\ \A t \in Tenants : LinksLead(rows[t]) /\ Consistent(rows[t])
  /\ \A t \in Tenants \ made : rows[t] = Empty
  /\ \A t, u \in Tenants : t # u => rows[t].clients \cap rows[u].clients = {}

TenantsFit ==
  /\ slug \in [Tenants -> Slugs \cup {None}]
  /\ {t \in Tenants : Exists(t)} \subseteq made /\ made \subseteq Tenants
  /\ \A t, u \in Tenants : slug[t] = slug[u] /\ Exists(t) => t = u
  /\ origin \in [Tenants -> Files]
  /\ outcome \in [Tenants -> {"none", "running", "done", "refused", "broken"}]
  /\ edited \subseteq made
  /\ exports \in 0..MaxExports /\ edits \in 0..MaxEdits /\ faults \in 0..MaxFaults

Shape == RequestsFit /\ TablesFit /\ TenantsFit

LEMMA ShapeTypes == Shape => TypeOK
<1>1. ASSUME Shape, NEW r \in Requests
      PROVE  /\ request[r].job \in {"idle", "edit", "export", "create", "import"}
             /\ request[r].job \in {"edit", "export", "import"} =>
                  request[r].tenant \in made
  BY <1>1 DEF Shape, RequestsFit, Locals, Fits
<1>2. ASSUME Shape, NEW t \in made 
      PROVE  rows[t] \in Tables /\ LinksLead(rows[t]) /\ Consistent(rows[t])
  BY <1>2 DEF Shape, TablesFit, TenantsFit
<1>3. QED
  BY <1>1, <1>2 DEF Shape, TypeOK, TablesFit, TenantsFit

LEMMA NoFileIs ==
  /\ NoFile \in Files /\ NoFile.mode = None /\ NoFile.sound = TRUE
  /\ NoFile.rows = Empty /\ NoFile.source = Empty
BY EmptyIs DEF NoFile, Files

LEMMA IdleIs ==
  /\ Idle \in Locals /\ Fits(Idle)
  /\ Idle.job = "idle" /\ Idle.tenant = None /\ Idle.slug = None
  /\ Idle.file = NoFile /\ Idle.todo = {} /\ Idle.user = None
BY NoFileIs DEF Idle, Locals, Fits

LEMMA RequestIs ==
  ASSUME Shape, NEW r \in Requests
  PROVE  /\ request[r] \in Locals /\ request[r].file \in Files
         /\ request[r].todo \in SUBSET Rows
         /\ request[r].job \in {"create", "import"} =>
              request[r].todo \subseteq RowsOf(request[r].file)
         /\ request[r].job \in {"edit", "export", "import"} =>
              request[r].tenant \in made /\ request[r].tenant \in Tenants
BY DEF Shape, RequestsFit, Locals, Fits, TenantsFit

LEMMA ShapeInit == Init => Shape
<1> SUFFICES ASSUME Init PROVE Shape
  OBVIOUS
<1>1. PICK t \in Tenants, s \in Slugs, x \in Beginnings :
    /\ slug = [u \in Tenants |-> IF u = t THEN s ELSE None]
    /\ made = {t}
    /\ rows = [u \in Tenants |-> IF u = t THEN x ELSE Empty]
    /\ file = NoFile
    /\ request = [r \in Requests |-> Idle]
    /\ origin = [u \in Tenants |-> NoFile]
    /\ outcome = [u \in Tenants |-> "none"]
    /\ edited = {}
    /\ exports = 0 /\ edits = 0 /\ faults = 0
  BY DEF Init
<1>2. x \in Tables /\ LinksLead(x) /\ Consistent(x)
  BY BeginningsAssumption
<1>3. RequestsFit
  BY <1>1, IdleIs, NoFileIs DEF RequestsFit
<1>4. TablesFit
  BY <1>1, <1>2, EmptyIs DEF TablesFit
<1>5. TenantsFit
  BY <1>1, NoFileIs, TransferAssumption DEF TenantsFit, Exists
<1>6. QED
  BY <1>3, <1>4, <1>5 DEF Shape
-----------------------------------------------------------------------------
(***************************************************************************)
(* What each action does to the requests.                                  *)
(***************************************************************************)
Others(r) == \A q \in Requests \ {r} : request'[q] = request[q]

\* The step was another's: all it can have done to q is disturb its export.
Kept(q) ==
  /\ request'[q].job = request[q].job /\ request'[q].tenant = request[q].tenant
  /\ request'[q].slug = request[q].slug /\ request'[q].todo = request[q].todo
  /\ request'[q].user = request[q].user
  /\ request'[q].file.mode = request[q].file.mode
  /\ request'[q].file.rows = request[q].file.rows
  /\ request'[q].file.source = request[q].file.source
  /\ request'[q].file.sound => request[q].file.sound
  /\ request[q].job # "export" => request'[q] = request[q]

LEMMA Becomes ==
  ASSUME RequestsFit, NEW r \in Requests, NEW locals \in Locals, Become(r, locals)
  PROVE  /\ request' \in [Requests -> Locals] /\ request'[r] = locals
         /\ Others(r)
BY DEF RequestsFit, Become, Others

LEMMA OthersAreKept ==
  ASSUME RequestsFit, NEW r \in Requests, Others(r), NEW q \in Requests, q # r
  PROVE  Kept(q)
<1>1. request'[q] = request[q] /\ request[q] \in Locals
  BY DEF Others, RequestsFit
<1>2. QED
  BY <1>1 DEF Kept

LEMMA Disturbs ==
  ASSUME RequestsFit, NEW t, NEW r \in Requests \cup {None}, NEW locals \in Locals,
         Disturb(t, r, locals)
  PROVE  /\ request' \in [Requests -> Locals]
         /\ r \in Requests => request'[r] = locals
         /\ \A q \in Requests : q # r =>
              /\ Kept(q)
              /\ request[q].job = "export" /\ request[q].tenant = t =>
                   request'[q].file.sound = FALSE
<1>1. ASSUME NEW q \in Requests, q # r
      PROVE  /\ request'[q] \in Locals /\ Kept(q)
             /\ request[q].job = "export" /\ request[q].tenant = t =>
                  request'[q].file.sound = FALSE
  <2>1. PICK old \in Locals : old = request[q]
    BY DEF RequestsFit
  <2>2. CASE old.job = "export" /\ old.tenant = t
    <3>1. request'[q] = [old EXCEPT !.file.sound = FALSE]
      BY <1>1, <2>1, <2>2 DEF Disturb
    <3>2. /\ request'[q] \in Locals /\ request'[q].file.sound = FALSE
          /\ request'[q].job = old.job /\ request'[q].tenant = old.tenant
          /\ request'[q].slug = old.slug /\ request'[q].todo = old.todo
          /\ request'[q].user = old.user
          /\ request'[q].file.mode = old.file.mode
          /\ request'[q].file.rows = old.file.rows
          /\ request'[q].file.source = old.file.source
      <4>1. old.file \in Files
        BY DEF Locals
      <4>2. PICK f \in Files : f = old.file
        BY <4>1
      <4>3. PICK g : g = [f EXCEPT !.sound = FALSE]
        OBVIOUS
      <4>4. /\ g \in Files /\ g.sound = FALSE /\ g.mode = f.mode
            /\ g.rows = f.rows /\ g.source = f.source
        BY <4>3 DEF Files
      <4>5. request'[q] = [old EXCEPT !.file = g]
        BY <3>1, <4>2, <4>3 DEF Locals
      <4>6. QED
        BY <4>2, <4>4, <4>5 DEF Locals
    <3>3. QED
      BY <2>1, <2>2, <3>2 DEF Kept
  <2>3. CASE ~(old.job = "export" /\ old.tenant = t)
    <3>1. request'[q] = old
      BY <1>1, <2>1, <2>3 DEF Disturb
    <3>2. QED
      BY <2>1, <2>3, <3>1 DEF Kept
  <2>4. QED
    BY <2>2, <2>3
<1>2. r \in Requests => request'[r] = locals
  BY DEF Disturb
<1>3. request' = [q \in Requests |-> request'[q]]
  BY DEF Disturb
<1>4. QED
  BY <1>1, <1>2, <1>3

Modes == {"seed", "migration"}

LEMMA StartExportDoes ==
  ASSUME Shape, NEW r \in Requests, NEW t \in Tenants,
         NEW mode \in Modes, StartExport(r, t, mode)
  PROVE  /\ request' \in [Requests -> Locals] /\ Others(r)
         /\ request'[r].job = "export" /\ request'[r].tenant = t
         /\ request'[r].user = None /\ request'[r].todo = PartsRead
         /\ request'[r].file.mode = mode /\ request'[r].file.source = rows[t]
         /\ request'[r].file.sound = TRUE
         /\ request'[r].file.rows = [Empty EXCEPT !.open = rows[t].open]
<1> DEFINE f == [mode |-> mode, source |-> rows[t], sound |-> TRUE,
                 rows |-> [Empty EXCEPT !.open = rows[t].open]]
           n == [Idle EXCEPT !.job = "export", !.tenant = t, !.file = f,
                             !.todo = PartsRead]
<1>1. Become(r, n)
  BY DEF StartExport, PartsRead
<1>2. rows[t] \in Tables /\ rows[t].open \in BOOLEAN
  BY DEF Shape, TablesFit, Tables
<1>3. [Empty EXCEPT !.open = rows[t].open] \in Tables
  BY <1>2, EmptyIs DEF Tables
<1>4. /\ f \in Files /\ f.mode = mode /\ f.source = rows[t] /\ f.sound = TRUE
      /\ f.rows = [Empty EXCEPT !.open = rows[t].open]
  BY <1>2, <1>3 DEF Files, Modes
<1> HIDE DEF f
<1>5. PartsRead \in SUBSET Rows
  BY DEF PartsRead, Row, Rows
<1>6. /\ n \in Locals /\ n.job = "export" /\ n.tenant = t /\ n.file = f
      /\ n.todo = PartsRead /\ n.user = None
  BY <1>4, <1>5, IdleIs DEF Locals
<1> HIDE DEF n
<1>7. QED
  BY <1>1, <1>4, <1>6, Becomes DEF Shape

\* A campaign without the segments that were not read.
LEMMA CampaignOfIs ==
  ASSUME NEW x \in Campaigns, NEW seen \in Tables, NEW mode
  PROVE  /\ CampaignOf(x, seen, mode) \in Campaigns
         /\ IF mode = "seed" /\ x.status # "draft"
            THEN CampaignOf(x, seen, mode) = NoCampaign
            ELSE /\ CampaignOf(x, seen, mode).status = x.status
                 /\ CampaignOf(x, seen, mode).recipients = x.recipients
                 /\ CampaignOf(x, seen, mode).segments = seen.segments \cap x.segments
                 /\ x.segments \subseteq seen.segments =>
                      CampaignOf(x, seen, mode) = x
<1>1. CASE mode = "seed" /\ x.status # "draft"
  BY <1>1 DEF CampaignOf, Campaigns
<1>2. CASE ~(mode = "seed" /\ x.status # "draft")
  <2>1. PICK y : y = [x EXCEPT !.segments = seen.segments \cap x.segments]
    OBVIOUS
  <2>2. CampaignOf(x, seen, mode) = y
    BY <1>2, <2>1 DEF CampaignOf, SegmentNames
  <2>3. x \in [status : {None} \cup Statuses, segments : SUBSET Segments,
               recipients : SUBSET People]
    BY DEF Campaigns, NoCampaign
  <2>4. /\ y.status = x.status /\ y.recipients = x.recipients
        /\ y.segments = seen.segments \cap x.segments
    BY <2>1, <2>3
  <2>5. x.segments \subseteq seen.segments => y = x
    <3>1. HAVE x.segments \subseteq seen.segments
    <3>2. y = [x EXCEPT !.segments = x.segments]
      BY <2>1, <3>1
    <3>3. QED
      BY <2>3, <3>2
  <2>6. y \in Campaigns
    <3>1. CASE x = NoCampaign
      BY <2>5, <3>1 DEF NoCampaign
    <3>2. CASE x # NoCampaign
      BY <2>1, <2>3, <3>2 DEF Campaigns
    <3>3. QED
      BY <3>1, <3>2
  <2>7. QED
    BY <1>2, <2>2, <2>4, <2>5, <2>6
<1>3. QED
  BY <1>1, <1>2

\* x is the file's rows after the part p of now was read.
ReadInto(x, seen, now, p, mode) ==
  /\ x.open = seen.open
  /\ x.users = IF p = "users" THEN now.users ELSE seen.users
  /\ x.clients = IF p = "clients" THEN now.clients ELSE seen.clients
  /\ x.segments = IF p = "segments" THEN now.segments ELSE seen.segments
  /\ x.contacts = IF p = "contacts" THEN now.contacts ELSE seen.contacts
  /\ x.unsubscribed = IF p = "contacts" THEN Forgetful(mode, now)
                      ELSE seen.unsubscribed
  /\ x.campaign = IF p = "campaign" THEN CampaignOf(now.campaign, seen, mode)
                  ELSE seen.campaign

LEMMA ReadPartDoes ==
  ASSUME Shape, NEW r \in Requests, NEW row \in request[r].todo, ReadPart(r, row)
  PROVE  /\ request' \in [Requests -> Locals] /\ Others(r)
         /\ request[r].job = "export" /\ request'[r].job = "export"
         /\ request'[r].tenant = request[r].tenant
         /\ request'[r].user = request[r].user
         /\ request'[r].todo = request[r].todo \ {row} /\ row \in PartsRead
         /\ request'[r].file.mode = request[r].file.mode
         /\ request'[r].file.source = request[r].file.source
         /\ \/ /\ request'[r].file.sound = request[r].file.sound
               /\ ReadInto(request'[r].file.rows, request[r].file.rows,
                           rows[request[r].tenant], row.part,
                           request[r].file.mode)
            \/ request'[r].file.sound = FALSE
<1>1. PICK old \in Locals : old = request[r]
  BY DEF Shape, RequestsFit
<1>2. PICK f \in Files : f = old.file
  BY DEF Locals
<1>3. PICK seen \in Tables : seen = f.rows
  BY DEF Files
<1>4. old.job = "export" /\ row \in PartsRead
  BY <1>1 DEF ReadPart, Shape, RequestsFit, Fits
<1>5. old.tenant \in Tenants
  BY <1>1, <1>4 DEF Shape, RequestsFit, Fits, TenantsFit
<1>6. PICK now \in Tables : now = rows[old.tenant]
  BY <1>5 DEF Shape, TablesFit
<1>7. Rest(r, row) = old.todo \ {row} /\ Rest(r, row) \in SUBSET Rows
  BY <1>1 DEF Rest, Locals
<1>8. PICK todo \in SUBSET Rows : todo = Rest(r, row)
  BY <1>7
<1> DEFINE Read == CASE row.part = "users" -> [seen EXCEPT !.users = now.users]
                [] row.part = "clients" -> [seen EXCEPT !.clients = now.clients]
                [] row.part = "segments" -> [seen EXCEPT !.segments = now.segments]
                [] row.part = "contacts" ->
                     [seen EXCEPT !.contacts = now.contacts,
                                  !.unsubscribed = Forgetful(f.mode, now)]
                [] row.part = "campaign" ->
                     [seen EXCEPT !.campaign = CampaignOf(now.campaign, seen, f.mode)]
<1>9. \/ request' = [request EXCEPT ![r].file.rows = Read, ![r].todo = Rest(r, row)]
      \/ request' = [request EXCEPT ![r].file.sound = FALSE,
                                    ![r].todo = Rest(r, row)]
  BY <1>1, <1>2, <1>3, <1>6 DEF ReadPart
<1>10. CampaignOf(now.campaign, seen, f.mode) \in Campaigns
  BY CampaignOfIs DEF Tables
<1>11. row.part \in {"users", "clients", "segments", "contacts", "campaign"}
  BY <1>4 DEF PartsRead, Row, Parts
<1>12. Read \in Tables /\ ReadInto(Read, seen, now, row.part, f.mode)
  <2>1. CASE row.part = "users"
    BY <2>1 DEF Tables, ReadInto
  <2>2. CASE row.part = "clients"
    BY <2>2 DEF Tables, ReadInto
  <2>3. CASE row.part = "segments"
    BY <2>3 DEF Tables, ReadInto
  <2>4. CASE row.part = "contacts"
    <3>1. Forgetful(f.mode, now) \in SUBSET People
      BY DEF Forgetful, Tables
    <3>2. QED
      BY <2>4, <3>1 DEF Tables, ReadInto
  <2>5. CASE row.part = "campaign"
    BY <1>10, <2>5 DEF Tables, ReadInto
  <2>6. QED
    BY <1>11, <2>1, <2>2, <2>3, <2>4, <2>5
<1> HIDE DEF Read
<1>13. PICK read \in Tables : read = Read
  BY <1>12
<1>14. CASE request' = [request EXCEPT ![r].file.rows = Read,
                                       ![r].todo = Rest(r, row)]
  <2>1. PICK g : g = [f EXCEPT !.rows = read]
    OBVIOUS
  <2>2. /\ g \in Files /\ g.sound = f.sound /\ g.mode = f.mode
        /\ g.rows = read /\ g.source = f.source
    BY <2>1 DEF Files
  <2>3. PICK n : n = [old EXCEPT !.file = g, !.todo = todo]
    OBVIOUS
  <2>4. /\ n \in Locals /\ n.job = old.job /\ n.tenant = old.tenant
        /\ n.user = old.user /\ n.todo = todo /\ n.file = g
    BY <2>2, <2>3 DEF Locals
  <2>5. request' = [request EXCEPT ![r] = n]
    <3>1. n = [[old EXCEPT !.file.rows = read] EXCEPT !.todo = todo]
      BY <1>2, <2>1, <2>3 DEF Locals
    <3>2. QED
      BY <1>1, <1>8, <1>13, <1>14, <3>1 DEF Shape, RequestsFit
  <2>6. request' \in [Requests -> Locals] /\ request'[r] = n /\ Others(r)
    BY <2>4, <2>5, Becomes DEF Become, Shape
  <2>7. QED
    BY <1>1, <1>2, <1>3, <1>4, <1>6, <1>7, <1>8, <1>12, <1>13, <2>2, <2>4, <2>6
<1>15. CASE request' = [request EXCEPT ![r].file.sound = FALSE,
                                       ![r].todo = Rest(r, row)]
  <2>1. PICK g : g = [f EXCEPT !.sound = FALSE]
    OBVIOUS
  <2>2. /\ g \in Files /\ g.sound = FALSE /\ g.mode = f.mode
        /\ g.rows = f.rows /\ g.source = f.source
    BY <2>1 DEF Files
  <2>3. PICK n : n = [old EXCEPT !.file = g, !.todo = todo]
    OBVIOUS
  <2>4. /\ n \in Locals /\ n.job = old.job /\ n.tenant = old.tenant
        /\ n.user = old.user /\ n.todo = todo /\ n.file = g
    BY <2>2, <2>3 DEF Locals
  <2>5. request' = [request EXCEPT ![r] = n]
    <3>1. n = [[old EXCEPT !.file.sound = FALSE] EXCEPT !.todo = todo]
      BY <1>2, <2>1, <2>3 DEF Locals
    <3>2. QED
      BY <1>1, <1>8, <1>15, <3>1 DEF Shape, RequestsFit
  <2>6. request' \in [Requests -> Locals] /\ request'[r] = n /\ Others(r)
    BY <2>4, <2>5, Becomes DEF Become, Shape
  <2>7. QED
    BY <1>1, <1>2, <1>4, <1>7, <1>8, <2>2, <2>4, <2>6
<1>16. QED
  BY <1>9, <1>14, <1>15

LEMMA FinishExportDoes ==
  ASSUME Shape, NEW r \in Requests, FinishExport(r)
  PROVE  /\ request' \in [Requests -> Locals] /\ Others(r) /\ request'[r] = Idle
         /\ request[r].job = "export" /\ request[r].todo = {}
         /\ file' = request[r].file /\ file' \in Files
<1>1. request[r] \in Locals
  BY DEF Shape, RequestsFit
<1>2. request[r].file \in Files
  BY <1>1 DEF Locals
<1>3. QED
  BY <1>2, IdleIs, Becomes DEF FinishExport, Answer, Shape

LEMMA StartImportDoes ==
  ASSUME Shape, NEW r \in Requests, NEW s \in Slugs, StartImport(r, s)
  PROVE  /\ request' \in [Requests -> Locals] /\ Others(r)
         /\ request'[r].job = "create" /\ request'[r].tenant = None
         /\ request'[r].slug = s /\ request'[r].file = file
         /\ request'[r].todo = RowsOf(file) /\ request'[r].user = None
<1>1. file \in Files
  BY DEF Shape, RequestsFit
<1>2. RowsOf(file) \in SUBSET Rows
  BY <1>1, RowsOfAre
<1>3. PICK f \in Files, todo \in SUBSET Rows : f = file /\ todo = RowsOf(file)
  BY <1>1, <1>2
<1>4. PICK n : n = [Idle EXCEPT !.job = "create", !.slug = s, !.file = f,
                                !.todo = todo]
  OBVIOUS
<1>5. /\ n \in Locals /\ n.job = "create" /\ n.slug = s /\ n.file = f
      /\ n.todo = todo /\ n.user = None /\ n.tenant = None
  BY <1>4, IdleIs DEF Locals
<1>6. Become(r, n)
  BY <1>3, <1>4 DEF StartImport
<1>7. QED
  BY <1>3, <1>5, <1>6, Becomes DEF Shape

LEMMA CreateTenantDoes ==
  ASSUME Shape, NEW r \in Requests, NEW t \in Tenants, CreateTenant(r, t)
  PROVE  /\ request' \in [Requests -> Locals] /\ Others(r)
         /\ request[r].job = "create" /\ request'[r].job = "import"
         /\ request'[r].tenant = t /\ request'[r].file = request[r].file
         /\ request'[r].todo = request[r].todo
         /\ request'[r].user = request[r].user
<1>1. PICK old \in Locals : old = request[r]
  BY DEF Shape, RequestsFit
<1>2. PICK n : n = [old EXCEPT !.job = "import", !.tenant = t]
  OBVIOUS
<1>3. /\ n \in Locals /\ n.job = "import" /\ n.tenant = t /\ n.file = old.file
      /\ n.todo = old.todo /\ n.user = old.user
  BY <1>2 DEF Locals
<1>4. request' = [request EXCEPT ![r].job = "import", ![r].tenant = t]
  BY DEF CreateTenant
<1>5. request' = [request EXCEPT ![r] = n]
  BY <1>1, <1>2, <1>4 DEF Shape, RequestsFit
<1>6. request' \in [Requests -> Locals] /\ request'[r] = n /\ Others(r)
  BY <1>3, <1>5, Becomes DEF Become, Shape
<1>7. QED
  BY <1>1, <1>3, <1>6 DEF CreateTenant

\* What a step that writes to t leaves of the others.
DisturbedOthers(r, t) ==
  \A q \in Requests : q # r =>
    /\ Kept(q)
    /\ request[q].job = "export" /\ request[q].tenant = t =>
         request'[q].file.sound = FALSE

LEMMA DisturbsOthers ==
  ASSUME RequestsFit, NEW t, NEW r \in Requests, NEW locals \in Locals,
         Disturb(t, r, locals)
  PROVE  /\ request' \in [Requests -> Locals] /\ request'[r] = locals
         /\ DisturbedOthers(r, t)
BY Disturbs DEF DisturbedOthers

LEMMA SetRegistrationDoes ==
  ASSUME Shape, NEW r \in Requests, SetRegistration(r)
  PROVE  /\ request' \in [Requests -> Locals]
         /\ DisturbedOthers(r, request[r].tenant)
         /\ request[r].job = "import" /\ request'[r].job = "import"
         /\ request'[r].tenant = request[r].tenant
         /\ request'[r].file = request[r].file
         /\ request'[r].todo = request[r].todo \ {Row("open", None)}
         /\ request'[r].user = request[r].user
<1>1. PICK old \in Locals : old = request[r]
  BY DEF Shape, RequestsFit
<1>2. PICK todo \in SUBSET Rows : todo = old.todo \ {Row("open", None)}
  BY DEF Locals
<1>3. PICK n : n = [old EXCEPT !.todo = todo]
  OBVIOUS
<1>4. /\ n \in Locals /\ n.job = old.job /\ n.tenant = old.tenant
      /\ n.file = old.file /\ n.todo = todo /\ n.user = old.user
  BY <1>3 DEF Locals
<1>5. Disturb(old.tenant, r, n)
  BY <1>1, <1>2, <1>3 DEF SetRegistration, Rest
<1>6. request' \in [Requests -> Locals] /\ request'[r] = n
      /\ DisturbedOthers(r, old.tenant)
  BY <1>4, <1>5, DisturbsOthers DEF Shape
<1>7. QED
  BY <1>1, <1>2, <1>4, <1>6 DEF SetRegistration

LEMMA ImportRowDoes ==
  ASSUME Shape, NEW r \in Requests, NEW row \in request[r].todo, ImportRow(r, row)
  PROVE  /\ request' \in [Requests -> Locals]
         /\ DisturbedOthers(r, request[r].tenant)
         /\ request[r].job = "import" /\ request'[r].job = "import"
         /\ request'[r].tenant = request[r].tenant
         /\ request'[r].file = request[r].file
         /\ request'[r].todo = request[r].todo \ {row}
         /\ request'[r].user =
              IF /\ row.part = "users" /\ request[r].file.mode = "seed"
                 /\ request[r].file.rows.users[row.key] = "member"
              THEN row.key ELSE None
<1>1. PICK old \in Locals : old = request[r]
  BY DEF Shape, RequestsFit
<1>2. PICK todo \in SUBSET Rows : todo = old.todo \ {row}
  BY DEF Locals
<1> DEFINE unfinished == row.part = "users" /\ old.file.rows.users[row.key] = "member"
                           /\ old.file.mode = "seed"
<1>3. old.job = "import" /\ row \in RowsOf(old.file) /\ old.file \in Files
  BY <1>1 DEF ImportRow, Shape, RequestsFit, Fits, Locals
<1>4. (IF unfinished THEN row.key ELSE None) \in People \cup {None}
  BY <1>3, RowsOfAre
<1>5. PICK e \in People \cup {None} : e = IF unfinished THEN row.key ELSE None
  BY <1>4
<1>6. PICK n : n = [old EXCEPT !.todo = todo, !.user = e]
  OBVIOUS
<1>7. /\ n \in Locals /\ n.job = old.job /\ n.tenant = old.tenant
      /\ n.file = old.file /\ n.todo = todo /\ n.user = e
  BY <1>6 DEF Locals
<1>8. Disturb(old.tenant, r, n)
  BY <1>1, <1>2, <1>5, <1>6 DEF ImportRow, Rest
<1>9. request' \in [Requests -> Locals] /\ request'[r] = n
      /\ DisturbedOthers(r, old.tenant)
  BY <1>7, <1>8, DisturbsOthers DEF Shape
<1>10. QED
  BY <1>1, <1>2, <1>3, <1>5, <1>7, <1>9

LEMMA MakeMemberDoes ==
  ASSUME Shape, NEW r \in Requests, MakeMember(r)
  PROVE  /\ request' \in [Requests -> Locals]
         /\ DisturbedOthers(r, request[r].tenant)
         /\ request[r].job = "import" /\ request'[r].job = "import"
         /\ request'[r].tenant = request[r].tenant
         /\ request'[r].file = request[r].file
         /\ request'[r].todo = request[r].todo
         /\ request'[r].user = None /\ request[r].user \in People
<1>1. PICK old \in Locals : old = request[r]
  BY DEF Shape, RequestsFit
<1>2. PICK n : n = [old EXCEPT !.user = None]
  OBVIOUS
<1>3. /\ n \in Locals /\ n.job = old.job /\ n.tenant = old.tenant
      /\ n.file = old.file /\ n.todo = old.todo /\ n.user = None
  BY <1>2 DEF Locals
<1>4. Disturb(old.tenant, r, n)
  BY <1>1, <1>2 DEF MakeMember
<1>5. request' \in [Requests -> Locals] /\ request'[r] = n
      /\ DisturbedOthers(r, old.tenant)
  BY <1>3, <1>4, DisturbsOthers DEF Shape
<1>6. old.user \in People
  BY <1>1 DEF MakeMember, Locals
<1>7. QED
  BY <1>1, <1>3, <1>5, <1>6 DEF MakeMember

LEMMA AnswerDoes ==
  ASSUME Shape, NEW r \in Requests, FinishImport(r) \/ Refused(r) \/ Fail(r)
  PROVE  request' \in [Requests -> Locals] /\ Others(r) /\ request'[r] = Idle
BY IdleIs, Becomes DEF FinishImport, Refused, Fail, Answer, Shape

LEMMA StartEditDoes ==
  ASSUME Shape, NEW r \in Requests, NEW t \in Tenants, StartEdit(r, t)
  PROVE  /\ request' \in [Requests -> Locals] /\ Others(r)
         /\ request'[r].job = "edit" /\ request'[r].tenant = t
<1>1. PICK n : n = [Idle EXCEPT !.job = "edit", !.tenant = t]
  OBVIOUS
<1>2. n \in Locals /\ n.job = "edit" /\ n.tenant = t
  BY <1>1, IdleIs DEF Locals
<1>3. Become(r, n)
  BY <1>1 DEF StartEdit
<1>4. QED
  BY <1>2, <1>3, Becomes DEF Shape

LEMMA EditDoes ==
  ASSUME Shape, NEW r \in Requests, Edit(r)
  PROVE  /\ request' \in [Requests -> Locals]
         /\ DisturbedOthers(r, request[r].tenant)
         /\ request[r].job = "edit" /\ request'[r] = Idle
<1>1. PICK t : t = request[r].tenant
  OBVIOUS
<1>2. Disturb(t, r, Idle) /\ request[r].job = "edit"
  BY <1>1 DEF Edit
<1>3. request' \in [Requests -> Locals] /\ request'[r] = Idle
      /\ DisturbedOthers(r, t)
  BY <1>2, IdleIs, DisturbsOthers DEF Shape
<1>4. QED
  BY <1>1, <1>2, <1>3

LEMMA DeleteTenantDoes ==
  ASSUME Shape, NEW t \in Tenants, DeleteTenant(t)
  PROVE  request' \in [Requests -> Locals] /\ DisturbedOthers(None, t)
BY IdleIs, Disturbs DEF DeleteTenant, Shape, DisturbedOthers

-----------------------------------------------------------------------------
(***************************************************************************)
(* Every step keeps the shape.                                             *)
(***************************************************************************)
LEMMA KeptFits ==
  ASSUME NEW q \in Requests, Kept(q), Fits(request[q]), made \subseteq made'
  PROVE  Fits(request[q])'
BY DEF Kept, Fits

LEMMA OthersFit ==
  ASSUME RequestsFit, NEW r, made \subseteq made',
         \A q \in Requests \ {r} : Kept(q)
  PROVE  \A q \in Requests \ {r} : Fits(request[q])'
BY KeptFits DEF RequestsFit

LEMMA AllFit ==
  ASSUME RequestsFit, made \subseteq made', NEW r,
         request' \in [Requests -> Locals],
         \A q \in Requests \ {r} : Kept(q),
         r \in Requests => Fits(request[r])',
         file' \in Files
  PROVE  RequestsFit'
<1>1. \A q \in Requests : Fits(request[q])'
  BY OthersFit
<1>2. QED
  BY <1>1 DEF RequestsFit

LEMMA RequestsStayFit == Shape /\ [Next]_vars => RequestsFit'
<1> SUFFICES ASSUME Shape, [Next]_vars PROVE RequestsFit'
  OBVIOUS
<1>0. RequestsFit /\ file \in Files
  BY DEF Shape, RequestsFit
<1>1. ASSUME NEW r \in Requests, NEW t \in Tenants,
             NEW mode \in Modes, StartExport(r, t, mode)
      PROVE  RequestsFit'
  <2>1. t \in made /\ UNCHANGED <<made, file>>
    BY <1>1 DEF StartExport, Shape, TenantsFit
  <2>2. /\ request' \in [Requests -> Locals] /\ Others(r)
        /\ request'[r].job = "export" /\ request'[r].tenant = t
        /\ request'[r].todo = PartsRead
    BY <1>1, StartExportDoes
  <2>3. Fits(request[r])'
    BY <2>1, <2>2 DEF Fits
  <2>4. QED
    BY <1>0, <2>1, <2>2, <2>3, OthersAreKept, AllFit
<1>2. ASSUME NEW r \in Requests, NEW row \in request[r].todo, ReadPart(r, row)
      PROVE  RequestsFit'
  <2>1. UNCHANGED <<made, file>>
    BY <1>2 DEF ReadPart
  <2>2. Fits(request[r])'
    BY <1>0, <1>2, <2>1, ReadPartDoes DEF Fits, RequestsFit
  <2>3. QED
    BY <1>0, <1>2, <2>1, <2>2, ReadPartDoes, OthersAreKept, AllFit
<1>3. ASSUME NEW r \in Requests, NEW row \in request[r].todo, ImportRow(r, row)
      PROVE  RequestsFit'
  <2>1. UNCHANGED <<made, file>>
    BY <1>3 DEF ImportRow
  <2>2. Fits(request[r])'
    BY <1>0, <1>3, <2>1, ImportRowDoes DEF Fits, RequestsFit
  <2>3. QED
    BY <1>0, <1>3, <2>1, <2>2, ImportRowDoes, AllFit DEF DisturbedOthers
<1>4. ASSUME NEW r \in Requests, NEW s \in Slugs, StartImport(r, s)
      PROVE  RequestsFit'
  <2>1. UNCHANGED <<made, file>>
    BY <1>4 DEF StartImport
  <2>2. Fits(request[r])'
    BY <1>4, <2>1, StartImportDoes DEF Fits
  <2>3. QED
    BY <1>0, <1>4, <2>1, <2>2, StartImportDoes, OthersAreKept, AllFit
<1>5. ASSUME NEW r \in Requests, NEW t \in Tenants, CreateTenant(r, t)
      PROVE  RequestsFit'
  <2>1. made' = made \cup {t} /\ UNCHANGED file
    BY <1>5 DEF CreateTenant
  <2>2. Fits(request[r])'
    BY <1>0, <1>5, <2>1, CreateTenantDoes DEF Fits, RequestsFit
  <2>3. QED
    BY <1>0, <1>5, <2>1, <2>2, CreateTenantDoes, OthersAreKept, AllFit
<1>6. ASSUME NEW r \in Requests, NEW t \in Tenants, StartEdit(r, t)
      PROVE  RequestsFit'
  <2>1. t \in made /\ UNCHANGED <<made, file>>
    BY <1>6 DEF StartEdit, Shape, TenantsFit
  <2>2. Fits(request[r])'
    BY <1>6, <2>1, StartEditDoes DEF Fits
  <2>3. QED
    BY <1>0, <1>6, <2>1, <2>2, StartEditDoes, OthersAreKept, AllFit
<1>7. ASSUME NEW r \in Requests, FinishExport(r) PROVE RequestsFit'
  <2>1. UNCHANGED made
    BY <1>7 DEF FinishExport
  <2>2. Fits(request[r])'
    BY <1>7, FinishExportDoes, IdleIs DEF Fits
  <2>3. QED
    BY <1>0, <1>7, <2>1, <2>2, FinishExportDoes, OthersAreKept, AllFit
<1>8. ASSUME NEW r \in Requests, SetRegistration(r) PROVE RequestsFit'
  <2>1. UNCHANGED <<made, file>>
    BY <1>8 DEF SetRegistration
  <2>2. Fits(request[r])'
    BY <1>0, <1>8, <2>1, SetRegistrationDoes DEF Fits, RequestsFit
  <2>3. QED
    BY <1>0, <1>8, <2>1, <2>2, SetRegistrationDoes, AllFit DEF DisturbedOthers
<1>9. ASSUME NEW r \in Requests, MakeMember(r) PROVE RequestsFit'
  <2>1. UNCHANGED <<made, file>>
    BY <1>9 DEF MakeMember
  <2>2. Fits(request[r])'
    BY <1>0, <1>9, <2>1, MakeMemberDoes DEF Fits, RequestsFit
  <2>3. QED
    BY <1>0, <1>9, <2>1, <2>2, MakeMemberDoes, AllFit DEF DisturbedOthers
<1>10. ASSUME NEW r \in Requests, FinishImport(r) \/ Refused(r) \/ Fail(r)
       PROVE  RequestsFit'
  <2>1. UNCHANGED <<made, file>>
    BY <1>10 DEF FinishImport, Refused, Fail
  <2>2. Fits(request[r])'
    BY <1>10, AnswerDoes, IdleIs DEF Fits
  <2>3. QED
    BY <1>0, <1>10, <2>1, <2>2, AnswerDoes, OthersAreKept, AllFit
<1>11. ASSUME NEW r \in Requests, Edit(r) PROVE RequestsFit'
  <2>1. UNCHANGED <<made, file>>
    BY <1>11 DEF Edit
  <2>2. Fits(request[r])'
    BY <1>11, EditDoes, IdleIs DEF Fits
  <2>3. QED
    BY <1>0, <1>11, <2>1, <2>2, EditDoes, AllFit DEF DisturbedOthers
<1>12. ASSUME NEW t \in Tenants, DeleteTenant(t) PROVE RequestsFit'
  <2>1. UNCHANGED <<made, file>>
    BY <1>12 DEF DeleteTenant
  <2>2. None \notin Requests
    BY TransferAssumption
  <2>3. QED
    BY <1>0, <1>12, <2>1, <2>2, DeleteTenantDoes, AllFit DEF DisturbedOthers
<1>13. CASE UNCHANGED vars
  BY <1>0, <1>13 DEF vars, RequestsFit, Fits
<1>14. QED
  BY <1>1, <1>2, <1>3, <1>4, <1>5, <1>6, <1>7, <1>8, <1>9, <1>10, <1>11, <1>12,
     <1>13 DEF Next, Modes

\* One tenant's rows are replaced by rows that fit.
LEMMA TablesWith ==
  ASSUME TablesFit, NEW t \in Tenants, t \in made, UNCHANGED made,
         NEW y \in Tables, LinksLead(y), Consistent(y),
         \A c \in y.clients : c \in rows[t].clients \/ Unused(c),
         rows' = [rows EXCEPT ![t] = y]
  PROVE  TablesFit'
<1>1. rows' \in [Tenants -> Tables] /\ rows'[t] = y
      /\ \A u \in Tenants \ {t} : rows'[u] = rows[u]
  BY DEF TablesFit
<1>2. ASSUME NEW u \in Tenants
      PROVE  /\ (LinksLead(rows[u]) /\ Consistent(rows[u]))'
             /\ u \notin made' => rows'[u] = Empty
  <2>1. CASE u = t
    BY <1>1, <2>1 DEF LinksLead, Consistent
  <2>2. CASE u # t
    BY <1>1, <2>2 DEF LinksLead, Consistent, TablesFit
  <2>3. QED
    BY <2>1, <2>2
<1>3. ASSUME NEW u \in Tenants, NEW v \in Tenants, u # v
      PROVE  (rows[u].clients \cap rows[v].clients)' = {}
  BY <1>1, <1>3 DEF TablesFit, Unused
<1>4. QED
  BY <1>1, <1>2, <1>3 DEF TablesFit

LEMMA TablesAsTheyWere ==
  ASSUME TablesFit, UNCHANGED rows, made \subseteq made'
  PROVE  TablesFit'
BY DEF TablesFit, LinksLead, Consistent

LEMMA TablesStayFit == Shape /\ [Next]_vars => TablesFit'
<1> SUFFICES ASSUME Shape, [Next]_vars PROVE TablesFit'
  OBVIOUS
<1>0. /\ TablesFit /\ made \subseteq Tenants /\ RequestsFit
      /\ \A t \in Tenants : rows[t] \in Tables /\ LinksLead(rows[t])
                            /\ Consistent(rows[t])
      /\ \A t \in Tenants : Exists(t) => t \in made
  BY DEF Shape, TablesFit, TenantsFit
<1>1. ASSUME NEW r \in Requests, request[r].job \in {"edit", "export", "import"}
      PROVE  request[r].tenant \in made /\ request[r].tenant \in Tenants
  BY <1>0, <1>1 DEF RequestsFit, Fits
<1>2. ASSUME NEW r \in Requests, NEW row \in request[r].todo, ImportRow(r, row)
      PROVE  TablesFit'
  <2>1. PICK t \in Tenants : t = request[r].tenant /\ t \in made
    BY <1>1, <1>2 DEF ImportRow
  <2>2. PICK f \in Files : f = request[r].file
    BY <1>0 DEF RequestsFit, Locals
  <2>3. row \in RowsOf(f) /\ row.part # "open" /\ Accepted(r, row)
    BY <1>0, <1>2, <2>2 DEF ImportRow, RequestsFit, Fits
  <2>4. PICK c \in ClientIds(f, row) :
          rows' = [rows EXCEPT ![t] = Written(f, rows[t], row, c)]
    BY <1>2, <2>1, <2>2 DEF ImportRow
  <2>5. PICK now : now = rows[t]
    OBVIOUS
  <2>6. PICK y : y = Written(f, now, row, c)
    OBVIOUS
  <2>7. /\ y \in Tables /\ LinksLead(y) /\ Consistent(y)
        /\ y.clients = IF row.part = "clients" THEN now.clients \cup {c}
                       ELSE now.clients
        /\ row.part = "clients" => c \in Clients /\ Unused(c)
    BY <1>0, <2>1, <2>2, <2>3, <2>5, <2>6, WrittenIs DEF Sound
  <2>8. \A d \in y.clients : d \in rows[t].clients \/ Unused(d)
    BY <2>5, <2>7
  <2>9. UNCHANGED made /\ rows' = [rows EXCEPT ![t] = y]
    BY <1>2, <2>4, <2>5, <2>6 DEF ImportRow
  <2>10. QED
    BY <1>0, <2>1, <2>7, <2>8, <2>9, TablesWith
<1>3. ASSUME NEW r \in Requests, SetRegistration(r) PROVE TablesFit'
  <2>1. PICK t \in Tenants : t = request[r].tenant /\ t \in made
    BY <1>1, <1>3 DEF SetRegistration
  <2>2. PICK x \in Tables : x = rows[t] /\ LinksLead(x) /\ Consistent(x)
    BY <1>0
  <2>3. PICK y : y = [x EXCEPT !.open = TRUE]
    OBVIOUS
  <2>4. /\ y \in Tables /\ y.clients = x.clients /\ y.segments = x.segments
        /\ y.contacts = x.contacts /\ y.campaign = x.campaign
        /\ y.unsubscribed = x.unsubscribed
    BY <2>3 DEF Tables
  <2>5. LinksLead(y) /\ Consistent(y)
    BY <2>2, <2>4 DEF LinksLead, Consistent
  <2>6. UNCHANGED made
        /\ (rows' = [rows EXCEPT ![t] = y] \/ UNCHANGED rows)
    BY <1>3, <2>1, <2>2, <2>3 DEF SetRegistration
  <2>7. QED
    BY <1>0, <2>1, <2>2, <2>4, <2>5, <2>6, TablesWith, TablesAsTheyWere
<1>4. ASSUME NEW r \in Requests, MakeMember(r) PROVE TablesFit'
  <2>1. PICK t \in Tenants : t = request[r].tenant /\ t \in made
    BY <1>1, <1>4 DEF MakeMember
  <2>2. PICK x \in Tables : x = rows[t] /\ LinksLead(x) /\ Consistent(x)
    BY <1>0
  <2>3. PICK e \in People : e = request[r].user
    BY <1>4, MakeMemberDoes
  <2>4. PICK y : y = [x EXCEPT !.users[e] = "member"]
    OBVIOUS
  <2>5. /\ y \in Tables /\ y.clients = x.clients /\ y.segments = x.segments
        /\ y.contacts = x.contacts /\ y.campaign = x.campaign
        /\ y.unsubscribed = x.unsubscribed
    BY <2>4 DEF Tables
  <2>6. LinksLead(y) /\ Consistent(y)
    BY <2>2, <2>5 DEF LinksLead, Consistent
  <2>7. UNCHANGED made /\ rows' = [rows EXCEPT ![t].users[e] = "member"]
    BY <1>4, <2>1, <2>3 DEF MakeMember
  <2>8. rows' = [rows EXCEPT ![t] = y]
    BY <1>0, <2>2, <2>4, <2>7 DEF TablesFit
  <2>9. QED
    BY <1>0, <2>1, <2>2, <2>5, <2>6, <2>7, <2>8, TablesWith
<1>5. ASSUME NEW r \in Requests, Edit(r) PROVE TablesFit'
  <2>1. PICK t \in Tenants : t = request[r].tenant /\ t \in made
    BY <1>1, <1>5 DEF Edit
  <2>2. PICK x \in Tables : x = rows[t] /\ LinksLead(x) /\ Consistent(x)
    BY <1>0
  <2>3. PICK y \in Edited(x) : rows' = [rows EXCEPT ![t] = y]
    BY <1>5, <2>1, <2>2 DEF Edit
  <2>4. /\ y \in Tables /\ LinksLead(y) /\ Consistent(y)
        /\ y.clients = x.clients
    BY <2>2, EditedIs
  <2>5. UNCHANGED made
    BY <1>5 DEF Edit
  <2>6. QED
    BY <1>0, <2>1, <2>2, <2>3, <2>4, <2>5, TablesWith
<1>6. ASSUME NEW t \in Tenants, DeleteTenant(t) PROVE TablesFit'
  <2>1. t \in made /\ UNCHANGED made /\ rows' = [rows EXCEPT ![t] = Empty]
    BY <1>0, <1>6 DEF DeleteTenant
  <2>2. QED
    BY <1>0, <2>1, EmptyIs, TablesWith
<1>7. ASSUME NEW r \in Requests,
             NEW t \in Tenants, CreateTenant(r, t)
      PROVE  TablesFit'
  BY <1>0, <1>7, TablesAsTheyWere DEF CreateTenant
<1>8. ASSUME NEW r \in Requests,
             \/ \E t \in Tenants, mode \in {"seed", "migration"} :
                  StartExport(r, t, mode)
             \/ \E row \in request[r].todo : ReadPart(r, row)
             \/ \E s \in Slugs : StartImport(r, s)
             \/ \E t \in Tenants : StartEdit(r, t)
             \/ FinishExport(r) \/ FinishImport(r) \/ Refused(r) \/ Fail(r)
      PROVE  TablesFit'
  <2>1. UNCHANGED <<rows, made>>
    BY <1>8 DEF StartExport, ReadPart, StartImport, StartEdit, FinishExport,
                FinishImport, Refused, Fail
  <2>2. QED
    BY <1>0, <2>1, TablesAsTheyWere
<1>9. CASE UNCHANGED vars
  BY <1>0, <1>9, TablesAsTheyWere DEF vars
<1>10. QED
  BY <1>2, <1>3, <1>4, <1>5, <1>6, <1>7, <1>8, <1>9 DEF Next

LEMMA TenantsStayFit == Shape /\ [Next]_vars => TenantsFit'
<1> SUFFICES ASSUME Shape, [Next]_vars PROVE TenantsFit'
  OBVIOUS
<1>0. /\ TenantsFit /\ RequestsFit
      /\ MaxExports \in Nat /\ MaxEdits \in Nat /\ MaxFaults \in Nat
  BY TransferAssumption DEF Shape
<1>1. ASSUME NEW r \in Requests
      PROVE  /\ request[r].job \in {"edit", "export", "import"} =>
                  request[r].tenant \in made
             /\ request[r].file \in Files
             /\ request[r].slug \in Slugs \cup {None}
  BY <1>0 DEF RequestsFit, Fits, Locals
<1>2. ASSUME NEW r \in Requests, NEW t \in Tenants, CreateTenant(r, t)
      PROVE  TenantsFit'
  <2>1. /\ slug' \in [Tenants -> Slugs \cup {None}]
        /\ made' = made \cup {t} /\ made' \subseteq Tenants
        /\ slug'[t] = request[r].slug
        /\ \A u \in Tenants \ {t} : slug'[u] = slug[u]
        /\ \A u \in Tenants : slug[u] # request[r].slug
    BY <1>0, <1>1, <1>2 DEF TenantsFit, CreateTenant, BySlug
  <2>2. \A u, v \in Tenants : slug'[u] = slug'[v] /\ slug'[u] # None => u = v
    BY <1>0, <2>1 DEF TenantsFit, Exists
  <2>3. {u \in Tenants : slug'[u] # None} \subseteq made'
    BY <1>0, <2>1 DEF TenantsFit, Exists
  <2>4. /\ origin' \in [Tenants -> Files]
        /\ outcome' \in [Tenants -> {"none", "running", "done", "refused", "broken"}]
        /\ edited' = edited
        /\ UNCHANGED <<exports, edits, faults>>
    BY <1>0, <1>1, <1>2 DEF TenantsFit, CreateTenant, counters
  <2>5. QED
    BY <1>0, <2>1, <2>2, <2>3, <2>4 DEF TenantsFit, Exists
<1>3. ASSUME NEW t \in Tenants, DeleteTenant(t) PROVE TenantsFit'
  <2>1. /\ slug' \in [Tenants -> Slugs \cup {None}] /\ slug'[t] = None
        /\ \A u \in Tenants \ {t} : slug'[u] = slug[u]
        /\ t \in made /\ UNCHANGED <<made, origin, outcome, edited>>
        /\ UNCHANGED <<exports, edits, faults>>
    BY <1>0, <1>3 DEF TenantsFit, DeleteTenant, counters, Exists
  <2>2. QED
    BY <1>0, <2>1 DEF TenantsFit, Exists
<1>4. ASSUME UNCHANGED <<slug, made, origin>>,
             outcome' \in [Tenants -> {"none", "running", "done", "refused", "broken"}],
             edited' \subseteq made,
             exports' \in 0..MaxExports, edits' \in 0..MaxEdits,
             faults' \in 0..MaxFaults
      PROVE  TenantsFit'
  BY <1>0, <1>4 DEF TenantsFit, Exists
<1>5. ASSUME NEW r \in Requests, NEW t \in Tenants,
             NEW mode \in Modes, StartExport(r, t, mode)
      PROVE  TenantsFit'
  BY <1>0, <1>4, <1>5 DEF StartExport, observers, TenantsFit
<1>6. ASSUME NEW r \in Requests, NEW row \in request[r].todo, ReadPart(r, row)
      PROVE  TenantsFit'
  <2>1. /\ UNCHANGED <<slug, made, origin, outcome, edited, exports, edits>>
        /\ faults' \in 0..MaxFaults
    BY <1>0, <1>6 DEF ReadPart, observers, TenantsFit
  <2>2. QED
    BY <1>0, <1>4, <2>1 DEF TenantsFit
<1>7. ASSUME NEW r \in Requests, NEW row \in request[r].todo, ImportRow(r, row)
      PROVE  TenantsFit'
  BY <1>0, <1>4, <1>7 DEF ImportRow, observers, counters, TenantsFit
<1>8. ASSUME NEW r \in Requests, NEW s \in Slugs, StartImport(r, s)
      PROVE  TenantsFit'
  BY <1>0, <1>4, <1>8 DEF StartImport, observers, counters, TenantsFit
<1>9. ASSUME NEW r \in Requests, NEW t \in Tenants, StartEdit(r, t)
      PROVE  TenantsFit'
  BY <1>0, <1>4, <1>9 DEF StartEdit, observers, TenantsFit
<1>10. ASSUME NEW r \in Requests, FinishExport(r) PROVE TenantsFit'
  BY <1>0, <1>4, <1>10 DEF FinishExport, observers, counters, TenantsFit
<1>11. ASSUME NEW r \in Requests, SetRegistration(r) PROVE TenantsFit'
  <2>1. /\ UNCHANGED <<slug, made, origin, outcome, edited, exports, edits>>
        /\ faults' \in 0..MaxFaults
    BY <1>0, <1>11 DEF SetRegistration, observers, TenantsFit
  <2>2. QED
    BY <1>0, <1>4, <2>1 DEF TenantsFit
<1>12. ASSUME NEW r \in Requests, MakeMember(r) PROVE TenantsFit'
  BY <1>0, <1>4, <1>12 DEF MakeMember, observers, counters, TenantsFit
<1>13. ASSUME NEW r \in Requests, FinishImport(r) \/ Refused(r) \/ Fail(r)
       PROVE  TenantsFit'
  <2>1. /\ UNCHANGED <<slug, made, origin, edited, exports, edits>>
        /\ faults' \in 0..MaxFaults
    BY <1>0, <1>13 DEF FinishImport, Refused, Fail, counters, TenantsFit
  <2>2. outcome' \in [Tenants -> {"none", "running", "done", "refused", "broken"}]
    BY <1>0, <1>13 DEF FinishImport, Refused, Fail, TenantsFit
  <2>3. QED
    BY <1>0, <1>4, <2>1, <2>2 DEF TenantsFit
<1>14. ASSUME NEW r \in Requests, Edit(r) PROVE TenantsFit'
  BY <1>0, <1>1, <1>4, <1>14 DEF Edit, counters, TenantsFit
<1>15. CASE UNCHANGED vars
  BY <1>0, <1>4, <1>15 DEF vars, observers, counters, TenantsFit
<1>16. QED
  BY <1>2, <1>3, <1>5, <1>6, <1>7, <1>8, <1>9, <1>10, <1>11, <1>12, <1>13, <1>14,
     <1>15 DEF Next, Modes

LEMMA ShapeStays == Shape /\ [Next]_vars => Shape'
BY RequestsStayFit, TablesStayFit, TenantsStayFit DEF Shape

LEMMA ShapeAlways == Spec => []Shape
BY ShapeInit, ShapeStays, PTL DEF Spec

\* What is stored has its types, whoever changes a tenant while others export,
\* import or delete it; links and recipients lead to rows of the tenant, slugs
\* are unique, and a client belongs to one tenant (the tables of export_import.go
\* and tenant.go).
THEOREM TypeCorrect == Spec => []TypeOK
BY ShapeAlways, ShapeTypes, PTL
-----------------------------------------------------------------------------
(***************************************************************************)
(* Who works on a tenant.                                                  *)
(***************************************************************************)
Imports(q, t) == q.job = "import" /\ q.tenant = t

Apart ==
  /\ \A q, r \in Requests, t \in Tenants :
       Imports(request[q], t) /\ Imports(request[r], t) => q = r
  /\ \A r \in Requests, t \in Tenants :
       Imports(request[r], t) => outcome[t] = "running" /\ request[r].file = origin[t]
  /\ \A t \in Tenants :
       outcome[t] = "running" => \E r \in Requests : Imports(request[r], t)

\* The step was nobody's who works on a tenant, or left the work to its request.
LEMMA ApartFrame ==
  ASSUME Apart, NEW r, \A q \in Requests : q # r => Kept(q),
         UNCHANGED <<origin, outcome>>,
         r \in Requests => \A t \in Tenants :
           /\ Imports(request'[r], t) <=> Imports(request[r], t)
           /\ Imports(request[r], t) => request'[r].file = request[r].file
  PROVE  Apart'
<1>1. ASSUME NEW q \in Requests, NEW t \in Tenants
      PROVE  /\ Imports(request[q], t)' <=> Imports(request[q], t)
             /\ Imports(request[q], t) => request'[q].file = request[q].file
  <2>1. CASE q = r
    BY <2>1 DEF Imports
  <2>2. CASE q # r
    BY <2>2 DEF Imports, Kept
  <2>3. QED
    BY <2>1, <2>2
<1>2. QED
  BY <1>1 DEF Apart

\* The work on the tenant t is over.
LEMMA ApartEnds ==
  ASSUME Shape, Apart, NEW r \in Requests, Others(r), request'[r] = Idle,
         request[r].job = "import", UNCHANGED origin, NEW result, result # "running",
         outcome' = [outcome EXCEPT ![request[r].tenant] = result]
  PROVE  Apart'
<1>1. PICK t \in Tenants : t = request[r].tenant /\ Imports(request[r], t)
  BY RequestIs DEF Imports
<1>2. /\ outcome'[t] = result
      /\ \A u \in Tenants : u # t => outcome'[u] = outcome[u]
  BY <1>1 DEF Shape, TenantsFit
<1>3. \A u \in Tenants : ~Imports(request[r], u)'
  BY IdleIs DEF Imports
<1>4. \A q \in Requests, u \in Tenants : q # r =>
        (Imports(request[q], u)' <=> Imports(request[q], u))
  BY DEF Others, Imports
<1>5. \A q \in Requests : q # r => ~Imports(request[q], t)
  BY <1>1 DEF Apart
<1>6. \A u \in Tenants : u # t => ~Imports(request[r], u)
  BY <1>1 DEF Imports
<1>7. \A q, p \in Requests, u \in Tenants :
        Imports(request[q], u)' /\ Imports(request[p], u)' => q = p
  BY <1>3, <1>4 DEF Apart
<1>8. ASSUME NEW q \in Requests, NEW u \in Tenants, Imports(request[q], u)'
      PROVE  outcome'[u] = "running" /\ request'[q].file = origin'[u]
  <2>1. q # r
    BY <1>3, <1>8
  <2>2. Imports(request[q], u) /\ request'[q] = request[q] /\ u # t
    BY <1>4, <1>5, <1>8, <2>1 DEF Others
  <2>3. QED
    BY <1>2, <2>2 DEF Apart
<1>9. ASSUME NEW u \in Tenants, outcome'[u] = "running"
      PROVE  \E q \in Requests : Imports(request[q], u)'
  <2>1. u # t /\ outcome[u] = "running"
    BY <1>2, <1>9
  <2>2. PICK q \in Requests : Imports(request[q], u)
    BY <2>1 DEF Apart
  <2>3. QED
    BY <1>4, <1>6, <2>1, <2>2
<1>10. QED
  BY <1>7, <1>8, <1>9 DEF Apart

\* The work on a tenant begins.
LEMMA ApartBegins ==
  ASSUME Shape, Apart, NEW r \in Requests, NEW t \in Tenants, CreateTenant(r, t)
  PROVE  Apart'
<1>1. /\ Others(r) /\ request[r].job = "create" /\ request'[r].job = "import"
      /\ request'[r].tenant = t /\ request'[r].file = request[r].file
  BY CreateTenantDoes
<1>2. /\ t \notin made /\ outcome'[t] = "running" /\ origin'[t] = request[r].file
      /\ \A u \in Tenants : u # t => outcome'[u] = outcome[u] /\ origin'[u] = origin[u]
  BY DEF CreateTenant, Shape, TenantsFit
<1>3. \A q \in Requests : ~Imports(request[q], t)
  BY <1>2, RequestIs DEF Imports
<1>4. \A q \in Requests, u \in Tenants : q # r =>
        (Imports(request[q], u)' <=> Imports(request[q], u))
  BY <1>1 DEF Others, Imports
<1>5. \A u \in Tenants : Imports(request[r], u)' <=> u = t
  BY <1>1 DEF Imports
<1>6. \A u \in Tenants : ~Imports(request[r], u)
  BY <1>1 DEF Imports
<1>7. \A q, p \in Requests, u \in Tenants :
        Imports(request[q], u)' /\ Imports(request[p], u)' => q = p
  BY <1>3, <1>4, <1>5 DEF Apart
<1>8. ASSUME NEW q \in Requests, NEW u \in Tenants, Imports(request[q], u)'
      PROVE  outcome'[u] = "running" /\ request'[q].file = origin'[u]
  <2>1. CASE q = r
    BY <1>1, <1>2, <1>5, <1>8, <2>1
  <2>2. CASE q # r
    <3>1. Imports(request[q], u) /\ request'[q] = request[q] /\ u # t
      BY <1>1, <1>3, <1>4, <1>8, <2>2 DEF Others
    <3>2. QED
      BY <1>2, <3>1 DEF Apart
  <2>3. QED
    BY <2>1, <2>2
<1>9. ASSUME NEW u \in Tenants, outcome'[u] = "running"
      PROVE  \E q \in Requests : Imports(request[q], u)'
  <2>1. CASE u = t
    BY <1>5, <2>1
  <2>2. CASE u # t
    <3>1. outcome[u] = "running"
      BY <1>2, <1>9, <2>2
    <3>2. PICK q \in Requests : Imports(request[q], u)
      BY <3>1 DEF Apart
    <3>3. QED
      BY <1>4, <1>6, <3>2
  <2>3. QED
    BY <2>1, <2>2
<1>10. QED
  BY <1>7, <1>8, <1>9 DEF Apart

LEMMA ApartStays == Shape /\ Apart /\ [Next]_vars => Apart'
<1> SUFFICES ASSUME Shape, Apart, [Next]_vars PROVE Apart'
  OBVIOUS
<1>0. RequestsFit
  BY DEF Shape
<1>1. ASSUME NEW r \in Requests, NEW t \in Tenants,
             NEW mode \in Modes, StartExport(r, t, mode)
      PROVE  Apart'
  <2>1. UNCHANGED <<origin, outcome>> /\ request[r].job = "idle"
    BY <1>1 DEF StartExport, observers
  <2>2. Others(r) /\ request'[r].job = "export"
    BY <1>1, StartExportDoes
  <2>3. QED
    BY <1>0, <2>1, <2>2, OthersAreKept, ApartFrame DEF Imports
<1>2. ASSUME NEW r \in Requests, NEW row \in request[r].todo, ReadPart(r, row)
      PROVE  Apart'
  <2>1. UNCHANGED <<origin, outcome>>
    BY <1>2 DEF ReadPart, observers
  <2>2. Others(r) /\ request[r].job = "export" /\ request'[r].job = "export"
    BY <1>2, ReadPartDoes
  <2>3. QED
    BY <1>0, <2>1, <2>2, OthersAreKept, ApartFrame DEF Imports
<1>3. ASSUME NEW r \in Requests, NEW row \in request[r].todo, ImportRow(r, row)
      PROVE  Apart'
  <2>1. UNCHANGED <<origin, outcome>>
    BY <1>3 DEF ImportRow, observers
  <2>2. /\ \A q \in Requests : q # r => Kept(q)
        /\ request[r].job = "import" /\ request'[r].job = "import"
        /\ request'[r].tenant = request[r].tenant
        /\ request'[r].file = request[r].file
    BY <1>3, ImportRowDoes DEF DisturbedOthers
  <2>3. QED
    BY <2>1, <2>2, ApartFrame DEF Imports
<1>4. ASSUME NEW r \in Requests, NEW s \in Slugs, StartImport(r, s)
      PROVE  Apart'
  <2>1. UNCHANGED <<origin, outcome>> /\ request[r].job = "idle"
    BY <1>4 DEF StartImport, observers
  <2>2. Others(r) /\ request'[r].job = "create"
    BY <1>4, StartImportDoes
  <2>3. QED
    BY <1>0, <2>1, <2>2, OthersAreKept, ApartFrame DEF Imports
<1>5. ASSUME NEW r \in Requests, NEW t \in Tenants, StartEdit(r, t)
      PROVE  Apart'
  <2>1. UNCHANGED <<origin, outcome>> /\ request[r].job = "idle"
    BY <1>5 DEF StartEdit, observers
  <2>2. Others(r) /\ request'[r].job = "edit"
    BY <1>5, StartEditDoes
  <2>3. QED
    BY <1>0, <2>1, <2>2, OthersAreKept, ApartFrame DEF Imports
<1>6. ASSUME NEW r \in Requests, FinishExport(r) PROVE Apart'
  <2>1. UNCHANGED <<origin, outcome>>
    BY <1>6 DEF FinishExport, observers
  <2>2. Others(r) /\ request[r].job = "export" /\ request'[r].job = "idle"
    BY <1>6, FinishExportDoes, IdleIs
  <2>3. QED
    BY <1>0, <2>1, <2>2, OthersAreKept, ApartFrame DEF Imports
<1>7. ASSUME NEW r \in Requests, SetRegistration(r) PROVE Apart'
  <2>1. UNCHANGED <<origin, outcome>>
    BY <1>7 DEF SetRegistration, observers
  <2>2. /\ \A q \in Requests : q # r => Kept(q)
        /\ request[r].job = "import" /\ request'[r].job = "import"
        /\ request'[r].tenant = request[r].tenant
        /\ request'[r].file = request[r].file
    BY <1>7, SetRegistrationDoes DEF DisturbedOthers
  <2>3. QED
    BY <2>1, <2>2, ApartFrame DEF Imports
<1>8. ASSUME NEW r \in Requests, MakeMember(r) PROVE Apart'
  <2>1. UNCHANGED <<origin, outcome>>
    BY <1>8 DEF MakeMember, observers
  <2>2. /\ \A q \in Requests : q # r => Kept(q)
        /\ request[r].job = "import" /\ request'[r].job = "import"
        /\ request'[r].tenant = request[r].tenant
        /\ request'[r].file = request[r].file
    BY <1>8, MakeMemberDoes DEF DisturbedOthers
  <2>3. QED
    BY <2>1, <2>2, ApartFrame DEF Imports
<1>9. ASSUME NEW r \in Requests, Edit(r) PROVE Apart'
  <2>1. UNCHANGED <<origin, outcome>>
    BY <1>9 DEF Edit
  <2>2. /\ \A q \in Requests : q # r => Kept(q)
        /\ request[r].job = "edit" /\ request'[r].job = "idle"
    BY <1>9, EditDoes, IdleIs DEF DisturbedOthers
  <2>3. QED
    BY <2>1, <2>2, ApartFrame DEF Imports
<1>10. ASSUME NEW t \in Tenants, DeleteTenant(t) PROVE Apart'
  <2>1. UNCHANGED <<origin, outcome>> /\ None \notin Requests
    BY <1>10, TransferAssumption DEF DeleteTenant
  <2>2. \A q \in Requests : q # None => Kept(q)
    BY <1>10, DeleteTenantDoes DEF DisturbedOthers
  <2>3. QED
    BY <2>1, <2>2, ApartFrame
<1>11. ASSUME NEW r \in Requests, FinishImport(r) \/ Refused(r) \/ Fail(r)
       PROVE  Apart'
  <2>1. Others(r) /\ request'[r] = Idle
    BY <1>11, AnswerDoes
  <2>2. UNCHANGED origin
    BY <1>11 DEF FinishImport, Refused, Fail
  <2>3. CASE request[r].job = "import"
    <3>1. PICK result \in {"done", "refused", "broken"} :
            outcome' = [outcome EXCEPT ![request[r].tenant] = result]
      BY <1>11, <2>3 DEF FinishImport, Refused, Fail
    <3>2. QED
      BY <2>1, <2>2, <2>3, <3>1, ApartEnds
  <2>4. CASE request[r].job # "import"
    <3>1. outcome' = outcome
      BY <1>11, <2>4 DEF FinishImport, Refused, Fail
    <3>2. QED
      BY <1>0, <2>1, <2>2, <2>4, <3>1, IdleIs, OthersAreKept, ApartFrame DEF Imports
  <2>5. QED
    BY <2>3, <2>4
<1>12. CASE UNCHANGED vars
  BY <1>12 DEF vars, observers, Apart, Imports
<1>13. QED
  BY <1>1, <1>2, <1>3, <1>4, <1>5, <1>6, <1>7, <1>8, <1>9, <1>10, <1>11, <1>12,
     ApartBegins DEF Next, Modes

\* Two imports into one slug do not mix, however many requests import at the same
\* time: the one that created the tenant works on it alone, with the file the
\* tenant is from, and when it is done, was refused or broke off nobody does
\* (ImportTenantConfig, CreateWithSMTP).
THEOREM ImportsStayApart == Spec => []ImportsDoNotMix
<1>1. Init => Apart
  BY IdleIs DEF Init, Apart, Imports
<1>2. Shape /\ Apart => ImportsDoNotMix
  <2> SUFFICES ASSUME Shape, Apart, NEW t \in Tenants,
                      NEW S, S = {r \in Requests : /\ request[r].job = "import"
                                                  /\ request[r].tenant = t}
               PROVE  IF outcome[t] = "running"
                      THEN \E r \in S : S = {r} /\ request[r].file = origin[t]
                      ELSE S = {}
    BY DEF ImportsDoNotMix
  <2>1. \A r \in Requests : r \in S <=> Imports(request[r], t)
    BY DEF Imports
  <2>2. CASE outcome[t] = "running"
    <3>1. PICK r \in Requests : Imports(request[r], t)
      BY <2>2 DEF Apart
    <3>2. S = {r} /\ request[r].file = origin[t]
      BY <2>1, <3>1 DEF Apart
    <3>3. QED
      BY <2>1, <2>2, <3>1, <3>2
  <2>3. CASE outcome[t] # "running"
    <3>1. S = {}
      BY <2>1, <2>3 DEF Apart
    <3>2. QED
      BY <2>3, <3>1
  <2>4. QED
    BY <2>2, <2>3
<1>3. QED
  BY <1>1, <1>2, ShapeAlways, ApartStays, PTL DEF Spec
-----------------------------------------------------------------------------
(***************************************************************************)
(* The way of a tenant through an export and an import.                    *)
(***************************************************************************)
\* What a sound file has of the campaign.
CampaignTold(f) ==
  IF f.mode = "migration" \/ f.source.campaign.status = "draft"
  THEN f.source.campaign ELSE NoCampaign

\* A sound file has what the tenant had.
Whole(f) ==
  f.sound =>
    /\ LinksLead(f.source) /\ Consistent(f.source)
    /\ f.rows.open = f.source.open /\ f.rows.users = f.source.users
    /\ f.rows.clients = f.source.clients /\ f.rows.segments = f.source.segments
    /\ f.rows.contacts = f.source.contacts
    /\ f.rows.unsubscribed = Forgetful(f.mode, f.source)
    /\ f.rows.campaign = CampaignTold(f)
    /\ f.mode \in Modes \/ f.source = Empty

\* What was read in a sound export is what the tenant still has.
Reading(q) ==
  q.job = "export" =>
    /\ q.file.mode \in Modes
    /\ q.file.sound =>
         LET x == q.file.rows
             now == q.file.source
         IN /\ now = rows[q.tenant] /\ x.open = now.open
            /\ Row("users", None) \in q.todo \/ x.users = now.users
            /\ Row("clients", None) \in q.todo \/ x.clients = now.clients
            /\ Row("segments", None) \in q.todo \/ x.segments = now.segments
            /\ \/ Row("contacts", None) \in q.todo
               \/ /\ x.contacts = now.contacts
                  /\ x.unsubscribed = Forgetful(q.file.mode, now)
            /\ Row("campaign", None) \in q.todo \/ x.campaign = CampaignTold(q.file)

\* Of the registration flag, an error is ignored.
Opened(x, f, todo) ==
  x.open = f.rows.open \/ Row("open", None) \in todo \/ faults > 0

\* x has of the rest of the file what is not left to do.
Progress(x, f, todo, user) ==
  /\ \A e \in People :
       x.users[e] = IF Row("users", e) \in todo THEN None
                    ELSE IF e = user THEN "user" ELSE f.rows.users[e]
  /\ IF f.mode = "migration"
     THEN x.clients = {c \in f.rows.clients : Row("clients", c) \notin todo}
     ELSE Cardinality(x.clients) =
            Cardinality({c \in f.rows.clients : Row("clients", c) \notin todo})
  /\ x.segments = {s \in f.rows.segments : Row("segments", s) \notin todo}
  /\ \A e \in People :
       x.contacts[e] = IF Row("contacts", e) \in todo \/ e \in UnfitContacts
                       THEN None ELSE f.rows.contacts[e]
  /\ x.unsubscribed =
       {e \in f.rows.unsubscribed \ UnfitContacts : Row("contacts", e) \notin todo}
  /\ x.campaign.status = IF Row("campaign", None) \in todo THEN None
                         ELSE f.rows.campaign.status
  /\ x.campaign.segments = IF Row("campaign", None) \in todo THEN {}
                           ELSE f.rows.campaign.segments
  /\ x.campaign.recipients =
       {e \in f.rows.campaign.recipients : Row("recipients", e) \notin todo}

\* The rows of later parts are still to do.
Ordered(q) ==
  \A a \in q.todo, b \in RowsOf(q.file) :
    Rank(a.part) < Rank(b.part) => b \in q.todo

Untroubled(t) == Exists(t) /\ t \notin edited /\ origin[t].sound

Importing(q) ==
  /\ q.job \in {"create", "import"} => Whole(q.file)
  /\ q.job = "create" => q.todo = RowsOf(q.file) /\ q.user = None
  /\ q.job = "import" =>
       /\ outcome[q.tenant] = "running" /\ q.file = origin[q.tenant]
       /\ Ordered(q)
       /\ q.user # None => /\ q.file.rows.users[q.user] = "member"
                           /\ Row("users", q.user) \notin q.todo
       /\ Untroubled(q.tenant) =>
            /\ Opened(rows[q.tenant], q.file, q.todo)
            /\ Progress(rows[q.tenant], q.file, q.todo, q.user)

Imported(t) ==
  /\ Whole(origin[t])
  /\ outcome[t] = "done" /\ Untroubled(t) =>
       Opened(rows[t], origin[t], {}) /\ Progress(rows[t], origin[t], {}, None)

Transfers ==
  /\ Whole(file)
  /\ \A r \in Requests : Reading(request[r]) /\ Importing(request[r])
  /\ \A q, r \in Requests :
       request[q].job = "import" /\ request[r].job = "import"
         /\ request[q].tenant = request[r].tenant => q = r
  /\ \A t \in Tenants : Imported(t)

LEMMA RowsDiffer ==
  /\ \A row \in Rows : row = Row(row.part, row.key)
  /\ \A p, k : Row(p, k).part = p /\ Row(p, k).key = k
BY DEF Rows, Row

\* What is left to do without one row of it.
LEMMA RestIs ==
  ASSUME NEW todo \in SUBSET Rows, NEW row \in Rows
  PROVE  \A p, k : Row(p, k) \in todo \ {row} <=>
                     Row(p, k) \in todo /\ ~(p = row.part /\ k = row.key)
BY RowsDiffer

\* A campaign is what its fields are.
LEMMA CampaignIs ==
  ASSUME NEW x \in Campaigns, NEW y \in Campaigns, x.status = y.status,
         x.segments = y.segments, x.recipients = y.recipients
  PROVE  x = y
<1>1. \A z \in Campaigns : z \in [status : Statuses \cup {None},
                                  segments : SUBSET Segments,
                                  recipients : SUBSET People]
  BY DEF Campaigns, NoCampaign
<1>2. QED
  BY <1>1

\* Once all of a sound file is written, the tenant is back.
LEMMA AllIsBack ==
  ASSUME NEW f \in Files, Whole(f), f.sound, NEW x \in Tables,
         Opened(x, f, {}), Progress(x, f, {}, None)
  PROVE  /\ Restores(x, f.source, f.mode)
         /\ x.open = f.source.open \/ faults > 0
<1>1. /\ x.users \in [People -> {None, "user", "admin", "member"}]
      /\ f.source.users \in [People -> {None, "user", "admin", "member"}]
      /\ x.contacts \in [People -> {None} \cup SUBSET Segments]
      /\ f.source.contacts \in [People -> {None} \cup SUBSET Segments]
      /\ x.campaign \in Campaigns /\ f.rows.campaign \in Campaigns
      /\ f.source \in Tables /\ f.mode \in {None, "seed", "migration"}
  BY DEF Files, Tables
<1>2. None \notin People
  BY TransferAssumption
<1>3. x.users = f.source.users
  BY <1>1, <1>2 DEF Progress, Whole
<1>4. \A e \in People :
        x.contacts[e] = IF e \in UnfitContacts THEN None ELSE f.source.contacts[e]
  BY <1>1 DEF Progress, Whole
<1>5. x.segments = f.source.segments
  BY DEF Progress, Whole
<1>6. x.campaign = f.rows.campaign
  <2>1. /\ x.campaign.status = f.rows.campaign.status
        /\ x.campaign.segments = f.rows.campaign.segments
    BY DEF Progress
  <2>2. PICK S : S = f.rows.campaign.recipients
    OBVIOUS
  <2>3. x.campaign.recipients = {e \in S : Row("recipients", e) \notin {}}
    BY <2>2 DEF Progress
  <2>4. x.campaign.recipients = S
    BY <2>3
  <2>5. QED
    BY <1>1, <2>1, <2>2, <2>4, CampaignIs
<1>11. IF f.mode = "migration"
       THEN x.unsubscribed = f.source.unsubscribed \ UnfitContacts
       ELSE x.unsubscribed = {}
  <2>1. PICK S : S = f.rows.unsubscribed \ UnfitContacts
    OBVIOUS
  <2>2. x.unsubscribed = {e \in S : Row("contacts", e) \notin {}}
    BY <2>1 DEF Progress
  <2>3. x.unsubscribed = S
    BY <2>2
  <2>4. f.rows.unsubscribed = Forgetful(f.mode, f.source)
    BY DEF Whole
  <2>5. f.mode \in {"seed", "migration"} \/ f.source.unsubscribed = {}
    BY EmptyIs DEF Whole, Modes
  <2>6. CASE f.mode = "migration"
    BY <2>1, <2>3, <2>4, <2>6 DEF Forgetful
  <2>7. CASE f.mode # "migration"
    BY <2>1, <2>3, <2>4, <2>5, <2>7 DEF Forgetful
  <2>8. QED
    BY <2>6, <2>7
<1>7. IF f.mode = "migration" THEN x.clients = f.source.clients
      ELSE Cardinality(x.clients) = Cardinality(f.source.clients)
  <2>1. PICK S : S = {c \in f.rows.clients : Row("clients", c) \notin {}}
    OBVIOUS
  <2>2. S = f.source.clients
    BY <2>1 DEF Whole
  <2>3. IF f.mode = "migration" THEN x.clients = S
        ELSE Cardinality(x.clients) = Cardinality(S)
    BY <2>1 DEF Progress
  <2>4. QED
    BY <2>2, <2>3
<1>8. x.open = f.source.open \/ faults > 0
  BY DEF Opened, Whole
<1>9. x.campaign = IF f.mode = "migration" \/ f.source.campaign.status = "draft"
                   THEN f.source.campaign ELSE NoCampaign
  <2>1. x.campaign = CampaignTold(f)
    BY <1>6 DEF Whole
  <2>2. QED
    BY <2>1 DEF CampaignTold
<1>10. QED
  BY <1>3, <1>4, <1>5, <1>7, <1>8, <1>9, <1>11 DEF Restores

-----------------------------------------------------------------------------
(* The export. *)

LEMMA ReadingStarts ==
  ASSUME Shape, NEW r \in Requests, NEW t \in Tenants, NEW mode \in Modes,
         StartExport(r, t, mode)
  PROVE  Reading(request[r])'
<1>1. PICK n \in Locals : n = request'[r]
  BY StartExportDoes
<1>2. /\ n.tenant = t /\ n.todo = PartsRead /\ n.file.mode = mode
      /\ n.file.source = rows[t]
      /\ n.file.rows = [Empty EXCEPT !.open = rows[t].open]
  BY <1>1, StartExportDoes
<1>3. n.file.rows.open = rows[t].open
  BY <1>2, EmptyIs DEF Tables
<1>4. \A p \in {"users", "clients", "segments", "contacts", "campaign"} :
        Row(p, None) \in PartsRead
  BY DEF PartsRead, Parts
<1>5. rows'[t] = rows[t]
  BY DEF StartExport
<1>6. QED
  BY <1>1, <1>2, <1>3, <1>4, <1>5 DEF Reading

LEMMA ReadingGoesOn ==
  ASSUME Shape, NEW r \in Requests, Reading(request[r]),
         NEW row \in request[r].todo, ReadPart(r, row)
  PROVE  Reading(request[r])'
<1>1. PICK q \in Locals, n \in Locals : q = request[r] /\ n = request'[r]
  BY ReadPartDoes DEF Shape, RequestsFit
<1>2. /\ n.job = "export" /\ q.job = "export" /\ n.tenant = q.tenant
      /\ n.todo = q.todo \ {row} /\ row \in PartsRead
      /\ n.file.mode = q.file.mode /\ n.file.source = q.file.source
  BY <1>1, ReadPartDoes
<1>3. n.file.mode \in Modes
  BY <1>1, <1>2 DEF Reading
<1>4. ASSUME n.file.sound
      PROVE  /\ q.file.sound
             /\ ReadInto(n.file.rows, q.file.rows, rows[q.tenant], row.part,
                         q.file.mode)
  <2>1. \/ /\ n.file.sound = q.file.sound
           /\ ReadInto(n.file.rows, q.file.rows, rows[q.tenant], row.part,
                       q.file.mode)
        \/ n.file.sound = FALSE
    BY <1>1, ReadPartDoes
  <2>2. QED
    BY <1>4, <2>1
<1>5. \A t : rows'[t] = rows[t]
  BY DEF ReadPart
<1>6. row = Row(row.part, None) /\ row.part \in Parts \ {"open", "recipients"}
  BY <1>2 DEF PartsRead, Row
<1>7. \A p : p # row.part => (Row(p, None) \in n.todo <=> Row(p, None) \in q.todo)
  BY <1>2, <1>6, RowsDiffer
<1>8. Row("segments", None) \in q.todo => row.part # "campaign"
  <2>1. \A other \in request[r].todo : Rank(row.part) <= Rank(other.part)
    BY DEF ReadPart, Due
  <2>2. Rank("campaign") = 5 /\ Rank("segments") = 3
    BY DEF Rank
  <2>3. Row("segments", None).part = "segments"
    BY RowsDiffer
  <2>4. QED
    BY <1>1, <2>1, <2>2, <2>3
<1>9. ASSUME n.file.sound
      PROVE  LET x == n.file.rows
                 now == n.file.source
             IN /\ now = rows[n.tenant] /\ x.open = now.open
                /\ Row("users", None) \in n.todo \/ x.users = now.users
                /\ Row("clients", None) \in n.todo \/ x.clients = now.clients
                /\ Row("segments", None) \in n.todo \/ x.segments = now.segments
                /\ \/ Row("contacts", None) \in n.todo
                   \/ /\ x.contacts = now.contacts
                      /\ x.unsubscribed = Forgetful(n.file.mode, now)
                /\ Row("campaign", None) \in n.todo \/ x.campaign = CampaignTold(n.file)
  <2> DEFINE x == n.file.rows
             seen == q.file.rows
             now == q.file.source
  <2>1. /\ now = rows[q.tenant] /\ seen.open = now.open
        /\ Row("users", None) \in q.todo \/ seen.users = now.users
        /\ Row("clients", None) \in q.todo \/ seen.clients = now.clients
        /\ Row("segments", None) \in q.todo \/ seen.segments = now.segments
        /\ \/ Row("contacts", None) \in q.todo
           \/ /\ seen.contacts = now.contacts
              /\ seen.unsubscribed = Forgetful(q.file.mode, now)
        /\ Row("campaign", None) \in q.todo \/ seen.campaign = CampaignTold(q.file)
    BY <1>1, <1>2, <1>4, <1>9 DEF Reading
  <2>2. ReadInto(x, seen, now, row.part, q.file.mode)
    BY <1>4, <1>9, <2>1
  <2>3. CampaignTold(n.file) = CampaignTold(q.file)
    BY <1>2 DEF CampaignTold
  <2>4. now \in Tables /\ seen \in Tables /\ now.campaign \in Campaigns
    BY DEF Locals, Files, Tables
  <2>5. LinksLead(now)
    <3>1. q.tenant \in Tenants
      BY <1>1, <1>2 DEF Shape, RequestsFit, Fits, TenantsFit
    <3>2. QED
      BY <2>1, <3>1 DEF Shape, TablesFit
  <2>6. row.part = "campaign" =>
          CampaignOf(now.campaign, seen, q.file.mode) = CampaignTold(q.file)
    <3>1. HAVE row.part = "campaign"
    <3>2. now.campaign.segments \subseteq seen.segments
      BY <1>8, <2>1, <2>5, <3>1 DEF LinksLead
    <3>3. q.file.mode \in {"seed", "migration"}
      BY <1>2, <1>3 DEF Modes
    <3>4. QED
      BY <2>4, <3>2, <3>3, CampaignOfIs DEF CampaignTold
  <2> HIDE DEF x, seen, now
  <2>7. /\ now = rows[q.tenant] /\ x.open = now.open
        /\ Row("users", None) \in n.todo \/ x.users = now.users
        /\ Row("clients", None) \in n.todo \/ x.clients = now.clients
        /\ Row("segments", None) \in n.todo \/ x.segments = now.segments
        /\ \/ Row("contacts", None) \in n.todo
           \/ /\ x.contacts = now.contacts
              /\ x.unsubscribed = Forgetful(q.file.mode, now)
        /\ Row("campaign", None) \in n.todo \/ x.campaign = CampaignTold(q.file)
    BY <1>7, <2>1, <2>2, <2>6 DEF ReadInto
  <2>8. QED
    BY <1>2, <2>3, <2>7 DEF x, now
<1>10. QED
  BY <1>1, <1>3, <1>5, <1>9 DEF Reading

LEMMA ReadingEnds ==
  ASSUME Shape, NEW r \in Requests, Reading(request[r]),
         request[r].job = "export", request[r].todo = {}
  PROVE  Whole(request[r].file)
<1>1. PICK q \in Locals : q = request[r]
  BY DEF Shape, RequestsFit
<1>2. q.tenant \in Tenants
  BY <1>1 DEF Shape, RequestsFit, Fits, TenantsFit
<1>3. LinksLead(rows[q.tenant]) /\ Consistent(rows[q.tenant])
  BY <1>2 DEF Shape, TablesFit
<1>4. QED
  BY <1>1, <1>3 DEF Reading, Whole

-----------------------------------------------------------------------------
(* The import. *)

LEMMA WholeLinks ==
  ASSUME NEW f, Whole(f), f.sound
  PROVE  LinksLead(f.rows) /\ Consistent(f.rows)
<1>1. f.rows.campaign = f.source.campaign \/ f.rows.campaign = NoCampaign
  BY DEF Whole, CampaignTold
<1>2. f.rows.unsubscribed \subseteq f.source.unsubscribed
  BY DEF Whole, Forgetful
<1>3. LinksLead(f.rows)
  BY <1>1 DEF Whole, LinksLead, NoCampaign
<1>4. Consistent(f.rows)
  BY <1>1, <1>2 DEF Whole, Consistent, NoCampaign
<1>5. QED
  BY <1>3, <1>4

LEMMA RowsOfHas ==
  ASSUME NEW f \in Files
  PROVE  /\ f.rows.open => Row("open", None) \in RowsOf(f)
         /\ \A e \in People : Row("users", e) \in RowsOf(f) <=> f.rows.users[e] # None
         /\ \A c \in f.rows.clients : Row("clients", c) \in RowsOf(f)
         /\ \A s \in f.rows.segments : Row("segments", s) \in RowsOf(f)
         /\ \A e \in People :
              Row("contacts", e) \in RowsOf(f) <=> f.rows.contacts[e] # None
         /\ Row("campaign", None) \in RowsOf(f) <=> f.rows.campaign # NoCampaign
         /\ \A e \in f.rows.campaign.recipients : Row("recipients", e) \in RowsOf(f)
BY DEF RowsOf, Row

LEMMA ProgressStarts ==
  ASSUME NEW f \in Files, Consistent(f.rows)
  PROVE  Opened(Empty, f, RowsOf(f)) /\ Progress(Empty, f, RowsOf(f), None)
<1>1. f.rows.open \in BOOLEAN
  BY DEF Files, Tables
<1>2. Opened(Empty, f, RowsOf(f))
  BY <1>1, EmptyIs, RowsOfHas DEF Opened
<1>3. None \notin People
  BY TransferAssumption
<1>4. \A e \in People :
       /\ Empty.users[e] = IF Row("users", e) \in RowsOf(f) THEN None
                           ELSE IF e = None THEN "user" ELSE f.rows.users[e]
       /\ Empty.contacts[e] =
            IF Row("contacts", e) \in RowsOf(f) \/ e \in UnfitContacts THEN None
            ELSE f.rows.contacts[e]
  BY <1>3, EmptyIs, RowsOfHas
<1>5. {c \in f.rows.clients : Row("clients", c) \notin RowsOf(f)} = {}
  BY RowsOfHas
<1>6. {s \in f.rows.segments : Row("segments", s) \notin RowsOf(f)} = {}
  BY RowsOfHas
<1>7. {e \in f.rows.campaign.recipients : Row("recipients", e) \notin RowsOf(f)} = {}
  BY RowsOfHas
<1>8. /\ Empty.campaign.status = None /\ Empty.campaign.segments = {}
      /\ Empty.campaign.recipients = {} /\ Empty.clients = {} /\ Empty.segments = {}
      /\ Empty.unsubscribed = {}
  BY EmptyIs DEF NoCampaign
<1>12. {e \in f.rows.unsubscribed \ UnfitContacts :
          Row("contacts", e) \notin RowsOf(f)} = {}
  <2>1. f.rows.unsubscribed \subseteq People
    BY DEF Files, Tables
  <2>2. \A e \in f.rows.unsubscribed : Row("contacts", e) \in RowsOf(f)
    BY <2>1, RowsOfHas DEF Consistent
  <2>3. QED
    BY <2>2
<1>9. CASE Row("campaign", None) \in RowsOf(f)
  BY <1>2, <1>4, <1>5, <1>6, <1>7, <1>8, <1>9, <1>12 DEF Progress
<1>10. CASE Row("campaign", None) \notin RowsOf(f)
  <2>1. f.rows.campaign.status = None /\ f.rows.campaign.segments = {}
    BY <1>10, RowsOfHas DEF NoCampaign
  <2>2. QED
    BY <1>2, <1>4, <1>5, <1>6, <1>7, <1>8, <1>10, <1>12, <2>1 DEF Progress
<1>11. QED
  BY <1>9, <1>10

\* y is now after the row of the file f was written, c being its client.
WrittenInto(y, now, f, row, c) ==
  /\ y.open = now.open
  /\ y.users = IF row.part = "users"
               THEN [now.users EXCEPT ![row.key] = RoleInserted(f, row.key)]
               ELSE now.users
  /\ y.clients = IF row.part = "clients" THEN now.clients \cup {c} ELSE now.clients
  /\ y.segments = IF row.part = "segments" THEN now.segments \cup {row.key}
                  ELSE now.segments
  /\ y.contacts = IF row.part = "contacts" /\ ~Skipped(row)
                  THEN [now.contacts EXCEPT ![row.key] = f.rows.contacts[row.key]]
                  ELSE now.contacts
  /\ y.unsubscribed = IF row.part = "contacts" /\ ~Skipped(row)
                      THEN now.unsubscribed \cup ({row.key} \cap f.rows.unsubscribed)
                      ELSE now.unsubscribed
  /\ y.campaign.status = IF row.part = "campaign" THEN f.rows.campaign.status
                         ELSE now.campaign.status
  /\ y.campaign.segments = IF row.part = "campaign" THEN f.rows.campaign.segments
                           ELSE now.campaign.segments
  /\ y.campaign.recipients =
       IF row.part = "campaign" THEN {}
       ELSE IF row.part = "recipients" THEN now.campaign.recipients \cup {row.key}
       ELSE now.campaign.recipients

LEMMA WrittenFields ==
  ASSUME NEW r \in Requests, NEW f \in Files, f = request[r].file,
         LinksLead(f.rows), NEW now \in Tables, now = rows[request[r].tenant],
         NEW row \in RowsOf(f), row.part # "open", ~Dangling(r, row), NEW c,
         NEW y, y = Written(f, now, row, c)
  PROVE  WrittenInto(y, now, f, row, c)
<1>0. /\ f.rows \in Tables /\ now.campaign \in Campaigns
      /\ f.rows.campaign \in Campaigns
  BY DEF Files, Tables
<1>1. CASE row.part = "users"
  <2>1. y = [now EXCEPT !.users[row.key] = RoleInserted(f, row.key)]
    BY <1>1 DEF Written
  <2>2. QED
    BY <1>1, <2>1 DEF WrittenInto, Tables
<1>2. CASE row.part = "clients"
  <2>1. y = [now EXCEPT !.clients = @ \cup {c}]
    BY <1>2 DEF Written
  <2>2. QED
    BY <1>2, <2>1 DEF WrittenInto, Tables
<1>3. CASE row.part = "segments"
  <2>1. y = [now EXCEPT !.segments = @ \cup {row.key}]
    BY <1>3 DEF Written
  <2>2. QED
    BY <1>3, <2>1 DEF WrittenInto, Tables
<1>4. CASE row.part = "contacts"
  <2>1. row.key \in People /\ f.rows.contacts[row.key] # None
    BY <1>4, RowsOfAre
  <2>2. f.rows.contacts[row.key] \subseteq f.rows.segments
    BY <2>1 DEF LinksLead
  <2>3. KnownSegments(f, f.rows.contacts[row.key]) = f.rows.contacts[row.key]
    BY <2>2 DEF KnownSegments
  <2>4. CASE Skipped(row)
    BY <1>4, <2>4 DEF Written, WrittenInto
  <2>5. CASE ~Skipped(row)
    <3>1. f.rows.contacts[row.key] \cap now.segments = f.rows.contacts[row.key]
      BY <1>4, <2>3, <2>5 DEF Dangling
    <3>2. PICK U : U = now.unsubscribed \cup ({row.key} \cap f.rows.unsubscribed)
      OBVIOUS
    <3>3. y = [now EXCEPT !.contacts[row.key] = f.rows.contacts[row.key],
                          !.unsubscribed = U]
      BY <1>4, <2>3, <2>5, <3>1, <3>2 DEF Written
    <3>4. QED
      BY <1>4, <2>5, <3>2, <3>3 DEF WrittenInto, Tables
  <2>6. QED
    BY <2>4, <2>5
<1>5. CASE row.part = "campaign"
  <2>1. f.rows.campaign.segments \subseteq f.rows.segments
    BY DEF LinksLead
  <2>2. /\ KnownSegments(f, f.rows.campaign.segments) = f.rows.campaign.segments
        /\ f.rows.campaign.segments \cap now.segments = f.rows.campaign.segments
    BY <1>5, <2>1 DEF KnownSegments, Dangling
  <2>3. PICK z : z = [status |-> f.rows.campaign.status, recipients |-> {},
                      segments |-> f.rows.campaign.segments]
    OBVIOUS
  <2>4. /\ z.status = f.rows.campaign.status /\ z.recipients = {}
        /\ z.segments = f.rows.campaign.segments
    BY <2>3
  <2>5. y = [now EXCEPT !.campaign = z]
    BY <1>5, <2>2, <2>3 DEF Written
  <2>6. /\ y.open = now.open /\ y.users = now.users /\ y.clients = now.clients
        /\ y.segments = now.segments /\ y.contacts = now.contacts
        /\ y.unsubscribed = now.unsubscribed /\ y.campaign = z
    BY <2>5 DEF Tables
  <2>7. QED
    BY <1>5, <2>4, <2>6 DEF WrittenInto
<1>6. CASE row.part = "recipients"
  <2>1. y = [now EXCEPT !.campaign.recipients = @ \cup {row.key}]
    BY <1>6 DEF Written, Dangling
  <2>2. /\ y.open = now.open /\ y.users = now.users /\ y.clients = now.clients
        /\ y.segments = now.segments /\ y.contacts = now.contacts
        /\ y.unsubscribed = now.unsubscribed
        /\ y.campaign = [now.campaign EXCEPT !.recipients = @ \cup {row.key}]
    BY <2>1 DEF Tables
  <2>3. now.campaign \in [status : Statuses \cup {None}, segments : SUBSET Segments,
                          recipients : SUBSET People]
    BY <1>0 DEF Campaigns, NoCampaign
  <2>4. /\ y.campaign.status = now.campaign.status
        /\ y.campaign.segments = now.campaign.segments
        /\ y.campaign.recipients = now.campaign.recipients \cup {row.key}
    BY <2>2, <2>3
  <2>5. QED
    BY <1>6, <2>2, <2>4 DEF WrittenInto
<1>7. QED
  BY <1>1, <1>2, <1>3, <1>4, <1>5, <1>6, RowsOfAre

LEMMA ProgressGoesOn ==
  ASSUME IsFiniteSet(Clients),
         NEW f \in Files, NEW x \in Tables, NEW todo \in SUBSET Rows,
         NEW row \in todo, row \in RowsOf(f), row.part # "open",
         NEW y, NEW c, WrittenInto(y, x, f, row, c),
         row.part = "clients" =>
           IF f.mode = "migration" THEN c = row.key ELSE c \notin x.clients,
         row.part = "campaign" =>
           \A e \in f.rows.campaign.recipients : Row("recipients", e) \in todo,
         Progress(x, f, todo, None),
         NEW user, user = IF /\ row.part = "users" /\ f.mode = "seed"
                             /\ f.rows.users[row.key] = "member"
                          THEN row.key ELSE None
  PROVE  Progress(y, f, todo \ {row}, user)
<1> DEFINE left == todo \ {row}
<1>1. \A p, k : Row(p, k) \in left <=>
                  Row(p, k) \in todo /\ ~(p = row.part /\ k = row.key)
  BY RestIs
<1>2. row = Row(row.part, row.key)
  BY RowsDiffer
<1>3. None \notin People
  BY TransferAssumption
<1>4. /\ x.users \in [People -> {None, "user", "admin", "member"}]
      /\ x.contacts \in [People -> {None} \cup SUBSET Segments]
      /\ x.clients \in SUBSET Clients /\ f.rows.clients \in SUBSET Clients
  BY DEF Tables, Files
<1> HIDE DEF left
<1>6. ASSUME NEW e \in People
      PROVE  y.users[e] = IF Row("users", e) \in left THEN None
                          ELSE IF e = user THEN "user" ELSE f.rows.users[e]
  <2>1. x.users[e] = IF Row("users", e) \in todo THEN None ELSE f.rows.users[e]
    BY <1>3 DEF Progress
  <2>2. CASE row.part = "users" /\ row.key = e
    <3>1. y.users[e] = RoleInserted(f, e) /\ Row("users", e) \notin left
      BY <1>1, <1>4, <2>2 DEF WrittenInto
    <3>2. CASE f.mode = "seed" /\ f.rows.users[e] = "member"
      BY <2>2, <3>1, <3>2 DEF RoleInserted
    <3>3. CASE ~(f.mode = "seed" /\ f.rows.users[e] = "member")
      BY <1>3, <2>2, <3>1, <3>3 DEF RoleInserted
    <3>4. QED
      BY <3>2, <3>3
  <2>3. CASE row.part = "users" /\ row.key # e
    BY <1>1, <1>3, <1>4, <2>1, <2>3 DEF WrittenInto
  <2>4. CASE row.part # "users"
    BY <1>1, <1>3, <2>1, <2>4 DEF WrittenInto
  <2>5. QED
    BY <2>2, <2>3, <2>4
<1>7. IF f.mode = "migration"
      THEN y.clients = {d \in f.rows.clients : Row("clients", d) \notin left}
      ELSE Cardinality(y.clients) =
             Cardinality({d \in f.rows.clients : Row("clients", d) \notin left})
  <2>1. PICK S : S = {d \in f.rows.clients : Row("clients", d) \notin todo}
    OBVIOUS
  <2>2. PICK T : T = {d \in f.rows.clients : Row("clients", d) \notin left}
    OBVIOUS
  <2>3. IF f.mode = "migration" THEN x.clients = S
        ELSE Cardinality(x.clients) = Cardinality(S)
    BY <2>1 DEF Progress
  <2>4. CASE row.part # "clients"
    <3>1. T = S /\ y.clients = x.clients
      BY <1>1, <2>1, <2>2, <2>4 DEF WrittenInto
    <3>2. QED
      BY <2>2, <2>3, <3>1
  <2>5. CASE row.part = "clients"
    <3>1. row.key \in f.rows.clients
      BY <2>5, RowsOfAre
    <3>2. T = S \cup {row.key} /\ row.key \notin S
      BY <1>1, <1>2, <2>1, <2>2, <2>5, <3>1
    <3>3. y.clients = x.clients \cup {c}
      BY <2>5 DEF WrittenInto
    <3>4. CASE f.mode = "migration"
      BY <2>2, <2>3, <2>5, <3>2, <3>3, <3>4
    <3>5. CASE f.mode # "migration"
      <4>1. IsFiniteSet(S) /\ IsFiniteSet(x.clients)
        <5>1. S \in SUBSET Clients
          BY <1>4, <2>1
        <5>2. QED
          BY <1>4, <5>1, FS_Subset
      <4>2. Cardinality(T) = Cardinality(S) + 1
        BY <3>2, <4>1, FS_AddElement
      <4>3. Cardinality(y.clients) = Cardinality(x.clients) + 1
        BY <2>5, <3>3, <3>5, <4>1, FS_AddElement
      <4>4. QED
        BY <2>2, <2>3, <3>5, <4>2, <4>3
    <3>6. QED
      BY <3>4, <3>5
  <2>6. QED
    BY <2>4, <2>5
<1>8. y.segments = {s \in f.rows.segments : Row("segments", s) \notin left}
  <2>1. PICK S : S = {s \in f.rows.segments : Row("segments", s) \notin todo}
    OBVIOUS
  <2>2. PICK T : T = {s \in f.rows.segments : Row("segments", s) \notin left}
    OBVIOUS
  <2>3. x.segments = S
    BY <2>1 DEF Progress
  <2>4. CASE row.part # "segments"
    <3>1. T = S /\ y.segments = x.segments
      BY <1>1, <2>1, <2>2, <2>4 DEF WrittenInto
    <3>2. QED
      BY <2>2, <2>3, <3>1
  <2>5. CASE row.part = "segments"
    <3>1. row.key \in f.rows.segments
      BY <2>5, RowsOfAre
    <3>2. T = S \cup {row.key}
      BY <1>1, <1>2, <2>1, <2>2, <2>5, <3>1
    <3>3. y.segments = x.segments \cup {row.key}
      BY <2>5 DEF WrittenInto
    <3>4. QED
      BY <2>2, <2>3, <3>2, <3>3
  <2>6. QED
    BY <2>4, <2>5
<1>9. ASSUME NEW e \in People
      PROVE  y.contacts[e] = IF Row("contacts", e) \in left \/ e \in UnfitContacts
                             THEN None ELSE f.rows.contacts[e]
  <2>1. x.contacts[e] = IF Row("contacts", e) \in todo \/ e \in UnfitContacts
                        THEN None ELSE f.rows.contacts[e]
    BY DEF Progress
  <2>2. CASE row.part = "contacts" /\ row.key = e /\ e \notin UnfitContacts
    BY <1>1, <1>4, <2>2 DEF WrittenInto, Skipped
  <2>3. CASE row.part = "contacts" /\ row.key # e
    BY <1>1, <1>4, <2>1, <2>3 DEF WrittenInto
  <2>4. CASE row.part = "contacts" /\ row.key = e /\ e \in UnfitContacts
    BY <2>1, <2>4 DEF WrittenInto, Skipped
  <2>5. CASE row.part # "contacts"
    BY <1>1, <2>1, <2>5 DEF WrittenInto
  <2>6. QED
    BY <2>2, <2>3, <2>4, <2>5
<1>14. y.unsubscribed = {e \in f.rows.unsubscribed \ UnfitContacts :
                          Row("contacts", e) \notin left}
  <2>1. PICK S : S = {e \in f.rows.unsubscribed \ UnfitContacts :
                        Row("contacts", e) \notin todo}
    OBVIOUS
  <2>2. PICK T : T = {e \in f.rows.unsubscribed \ UnfitContacts :
                        Row("contacts", e) \notin left}
    OBVIOUS
  <2>3. x.unsubscribed = S
    BY <2>1 DEF Progress
  <2>4. CASE row.part # "contacts"
    <3>1. T = S /\ y.unsubscribed = x.unsubscribed
      BY <1>1, <2>1, <2>2, <2>4 DEF WrittenInto
    <3>2. QED
      BY <2>2, <2>3, <3>1
  <2>5. CASE row.part = "contacts" /\ Skipped(row)
    <3>1. T = S
      BY <1>1, <2>1, <2>2, <2>5 DEF Skipped
    <3>2. y.unsubscribed = x.unsubscribed
      BY <2>5 DEF WrittenInto
    <3>3. QED
      BY <2>2, <2>3, <3>1, <3>2
  <2>6. CASE row.part = "contacts" /\ ~Skipped(row)
    <3>1. row.key \notin UnfitContacts
      BY <2>6 DEF Skipped
    <3>2. T = S \cup ({row.key} \cap f.rows.unsubscribed)
      BY <1>1, <1>2, <2>1, <2>2, <2>6, <3>1
    <3>3. y.unsubscribed = x.unsubscribed \cup ({row.key} \cap f.rows.unsubscribed)
      BY <2>6 DEF WrittenInto
    <3>4. QED
      BY <2>2, <2>3, <3>2, <3>3
  <2>7. QED
    BY <2>4, <2>5, <2>6
<1>10. row.part = "campaign" => row.key = None
  BY RowsOfAre
<1>11. /\ y.campaign.status = IF Row("campaign", None) \in left THEN None
                              ELSE f.rows.campaign.status
       /\ y.campaign.segments = IF Row("campaign", None) \in left THEN {}
                                ELSE f.rows.campaign.segments
  BY <1>1, <1>10 DEF WrittenInto, Progress
<1>12. y.campaign.recipients =
         {e \in f.rows.campaign.recipients : Row("recipients", e) \notin left}
  <2>1. PICK S : S = {e \in f.rows.campaign.recipients :
                        Row("recipients", e) \notin todo}
    OBVIOUS
  <2>2. PICK T : T = {e \in f.rows.campaign.recipients :
                        Row("recipients", e) \notin left}
    OBVIOUS
  <2>3. x.campaign.recipients = S
    BY <2>1 DEF Progress
  <2>4. CASE row.part \notin {"campaign", "recipients"}
    <3>1. T = S /\ y.campaign.recipients = x.campaign.recipients
      BY <1>1, <2>1, <2>2, <2>4 DEF WrittenInto
    <3>2. QED
      BY <2>2, <2>3, <3>1
  <2>5. CASE row.part = "campaign"
    <3>1. T = {}
      BY <1>1, <2>2, <2>5
    <3>2. y.campaign.recipients = {}
      BY <2>5 DEF WrittenInto
    <3>3. QED
      BY <2>2, <3>1, <3>2
  <2>6. CASE row.part = "recipients"
    <3>1. row.key \in f.rows.campaign.recipients
      BY <2>6, RowsOfAre
    <3>2. T = S \cup {row.key}
      BY <1>1, <1>2, <2>1, <2>2, <2>6, <3>1
    <3>3. y.campaign.recipients = x.campaign.recipients \cup {row.key}
      BY <2>6 DEF WrittenInto
    <3>4. QED
      BY <2>2, <2>3, <3>2, <3>3
  <2>7. QED
    BY <2>4, <2>5, <2>6
<1>13. Progress(y, f, left, user)
  BY <1>6, <1>7, <1>8, <1>9, <1>11, <1>12, <1>14 DEF Progress
<1>15. QED
  BY <1>13 DEF left

\* The seed's user gets its role.
LEMMA MemberProgress ==
  ASSUME NEW f \in Files, NEW x \in Tables, NEW todo \in SUBSET Rows,
         NEW e \in People, f.rows.users[e] = "member", Row("users", e) \notin todo,
         Progress(x, f, todo, e), NEW y, y = [x EXCEPT !.users[e] = "member"]
  PROVE  Progress(y, f, todo, None)
<1>1. /\ y.users = [x.users EXCEPT ![e] = "member"]
      /\ y.clients = x.clients /\ y.segments = x.segments
      /\ y.contacts = x.contacts /\ y.campaign = x.campaign
      /\ y.unsubscribed = x.unsubscribed
      /\ x.users \in [People -> {None, "user", "admin", "member"}]
  BY DEF Tables
<1>2. None \notin People
  BY TransferAssumption
<1>3. ASSUME NEW d \in People
      PROVE  y.users[d] = IF Row("users", d) \in todo THEN None
                          ELSE IF d = None THEN "user" ELSE f.rows.users[d]
  BY <1>1, <1>2 DEF Progress
<1>4. QED
  BY <1>1, <1>3 DEF Progress

\* The flag of the tenant is no part of the rest.
LEMMA FlagProgress ==
  ASSUME NEW f, NEW x \in Tables, NEW todo \in SUBSET Rows,
         NEW user, Progress(x, f, todo, user),
         NEW y, y = x \/ y = [x EXCEPT !.open = TRUE]
  PROVE  Progress(y, f, todo \ {Row("open", None)}, user)
<1>1. /\ y.users = x.users /\ y.clients = x.clients /\ y.segments = x.segments
      /\ y.contacts = x.contacts /\ y.campaign = x.campaign
      /\ y.unsubscribed = x.unsubscribed
  BY DEF Tables
<1> DEFINE left == todo \ {Row("open", None)}
<1>2. \A p, k : p # "open" => (Row(p, k) \in left <=> Row(p, k) \in todo)
  BY RowsDiffer
<1>3. /\ \A k : Row("users", k) \in left <=> Row("users", k) \in todo
      /\ \A k : Row("clients", k) \in left <=> Row("clients", k) \in todo
      /\ \A k : Row("segments", k) \in left <=> Row("segments", k) \in todo
      /\ \A k : Row("contacts", k) \in left <=> Row("contacts", k) \in todo
      /\ \A k : Row("campaign", k) \in left <=> Row("campaign", k) \in todo
      /\ \A k : Row("recipients", k) \in left <=> Row("recipients", k) \in todo
  BY <1>2
<1> HIDE DEF left
<1>4. /\ {c \in f.rows.clients : Row("clients", c) \notin left}
           = {c \in f.rows.clients : Row("clients", c) \notin todo}
      /\ {s \in f.rows.segments : Row("segments", s) \notin left}
           = {s \in f.rows.segments : Row("segments", s) \notin todo}
      /\ {e \in f.rows.campaign.recipients : Row("recipients", e) \notin left}
           = {e \in f.rows.campaign.recipients : Row("recipients", e) \notin todo}
      /\ {e \in f.rows.unsubscribed \ UnfitContacts : Row("contacts", e) \notin left}
           = {e \in f.rows.unsubscribed \ UnfitContacts :
                Row("contacts", e) \notin todo}
  BY <1>3
<1>5. Progress(y, f, left, user)
  BY <1>1, <1>3, <1>4 DEF Progress
<1>6. QED
  BY <1>5 DEF left

LEMMA RankIs == \A p \in Parts : Rank(p) \in Nat
BY DEF Parts, Rank

LEMMA OrderStays ==
  ASSUME NEW q \in Locals, Ordered(q), q.todo \subseteq RowsOf(q.file),
         NEW row \in q.todo,
         \A other \in q.todo : Rank(row.part) <= Rank(other.part),
         NEW n \in Locals, n.file = q.file, n.todo = q.todo \ {row}
  PROVE  Ordered(n)
<1> SUFFICES ASSUME NEW a \in n.todo, NEW b \in RowsOf(n.file),
                    Rank(a.part) < Rank(b.part)
             PROVE  b \in n.todo
  BY DEF Ordered
<1>1. b \in q.todo
  BY DEF Ordered
<1>2. row \in Rows /\ a \in Rows /\ b \in Rows
  BY <1>1 DEF Locals
<1>3. Rank(row.part) \in Nat /\ Rank(a.part) \in Nat /\ Rank(b.part) \in Nat
  BY <1>2, RankIs DEF Rows
<1>4. Rank(row.part) <= Rank(a.part)
  OBVIOUS
<1>5. b # row
  BY <1>3, <1>4
<1>6. QED
  BY <1>1, <1>5

-----------------------------------------------------------------------------
(* Every step. *)

\* The step was not about the tenant t, or it troubled it.
Steady(t) ==
  /\ origin'[t] = origin[t] /\ outcome'[t] = outcome[t]
  /\ Untroubled(t)' => Untroubled(t) /\ rows'[t] = rows[t]

\* The step was not the request's, whose tenant is as it was or whose export is
\* disturbed.
Passed(q) ==
  /\ Kept(q)
  /\ request[q].job = "export" /\ request'[q].file.sound =>
       rows'[request[q].tenant] = rows[request[q].tenant]

LEMMA OtherRequests ==
  ASSUME Shape, Transfers, faults > 0 => faults' > 0,
         NEW q \in Requests, Passed(q),
         request[q].job = "import" => Steady(request[q].tenant)
  PROVE  Reading(request[q])' /\ Importing(request[q])'
<1>0. Reading(request[q]) /\ Importing(request[q])
  BY DEF Transfers
<1>1. CASE request[q].job = "export"
  <2>1. PICK old, new : old = request[q] /\ new = request'[q]
    OBVIOUS
  <2>2. /\ new.job = "export" /\ new.tenant = old.tenant /\ new.todo = old.todo
        /\ new.file.mode = old.file.mode /\ new.file.rows = old.file.rows
        /\ new.file.source = old.file.source
        /\ new.file.sound => old.file.sound
        /\ new.file.sound => rows'[new.tenant] = rows[old.tenant]
    BY <1>1, <2>1 DEF Passed, Kept
  <2>3. CampaignTold(new.file) = CampaignTold(old.file)
    BY <2>2 DEF CampaignTold
  <2>4. Reading(request[q])'
    BY <1>0, <1>1, <2>1, <2>2, <2>3 DEF Reading
  <2>5. Importing(request[q])'
    BY <2>1, <2>2 DEF Importing
  <2>6. QED
    BY <2>4, <2>5
<1>2. CASE request[q].job # "export"
  <2>1. request'[q] = request[q]
    BY <1>2 DEF Passed, Kept
  <2>2. PICK old : old = request[q]
    OBVIOUS
  <2>3. Reading(request[q])'
    BY <1>2, <2>1 DEF Reading
  <2>4. CASE old.job = "import"
    <3>1. Steady(old.tenant)
      BY <2>2, <2>4
    <3>2. PICK t : t = old.tenant
      OBVIOUS
    <3>3. /\ Whole(old.file) /\ outcome[t] = "running" /\ old.file = origin[t]
          /\ Ordered(old)
          /\ old.user # None => /\ old.file.rows.users[old.user] = "member"
                                /\ Row("users", old.user) \notin old.todo
          /\ Untroubled(t) => /\ Opened(rows[t], old.file, old.todo)
                              /\ Progress(rows[t], old.file, old.todo, old.user)
      BY <1>0, <2>2, <2>4, <3>2 DEF Importing
    <3>4. /\ outcome'[t] = "running" /\ old.file = origin'[t]
          /\ Untroubled(t)' => /\ Opened(rows[t], old.file, old.todo)'
                               /\ Progress(rows'[t], old.file, old.todo, old.user)
      BY <3>1, <3>2, <3>3 DEF Steady, Opened
    <3>5. QED
      BY <2>1, <2>2, <2>3, <2>4, <3>2, <3>3, <3>4 DEF Importing
  <2>5. CASE old.job # "import"
    BY <1>0, <2>1, <2>2, <2>3, <2>5 DEF Importing
  <2>6. QED
    BY <2>4, <2>5
<1>3. QED
  BY <1>1, <1>2

LEMMA OtherTenants ==
  ASSUME Transfers, faults > 0 => faults' > 0, NEW t \in Tenants, Steady(t)
  PROVE  Imported(t)'
<1>1. Imported(t)
  BY DEF Transfers
<1>2. PICK f : f = origin[t] /\ f = origin'[t]
  BY DEF Steady
<1>3. Whole(f)
  BY <1>1, <1>2 DEF Imported
<1>4. ASSUME outcome'[t] = "done", Untroubled(t)'
      PROVE  Opened(rows[t], f, {})' /\ Progress(rows'[t], f, {}, None)
  BY <1>1, <1>2, <1>4 DEF Imported, Steady, Opened
<1>5. QED
  BY <1>2, <1>3, <1>4 DEF Imported

LEMMA TransfersFrame ==
  ASSUME Shape, Transfers, faults > 0 => faults' > 0, Whole(file)', NEW r,
         \A q \in Requests : q # r => Passed(q),
         NEW T, \A t \in Tenants : t \notin T => Steady(t),
         \A q \in Requests : q # r /\ request[q].job = "import" =>
           request[q].tenant \notin T,
         \A t \in Tenants : t \in T => Imported(t)',
         r \in Requests =>
           /\ Reading(request[r])' /\ Importing(request[r])'
           /\ request'[r].job = "import" =>
                \A q \in Requests : q # r /\ request[q].job = "import" =>
                  request[q].tenant # request'[r].tenant
  PROVE  Transfers'
<1>1. ASSUME NEW q \in Requests, request[q].job = "import"
      PROVE  request[q].tenant \in Tenants
  BY <1>1 DEF Shape, RequestsFit, Fits, TenantsFit
<1>2. ASSUME NEW q \in Requests
      PROVE  Reading(request[q])' /\ Importing(request[q])'
  <2>1. CASE q = r
    BY <2>1
  <2>2. CASE q # r
    <3>1. Passed(q) /\ (request[q].job = "import" => Steady(request[q].tenant))
      BY <1>1, <2>2
    <3>2. QED
      BY <3>1, OtherRequests
  <2>3. QED
    BY <2>1, <2>2
<1>3. ASSUME NEW p \in Requests, NEW q \in Requests,
             request'[p].job = "import", request'[q].job = "import",
             request'[p].tenant = request'[q].tenant
      PROVE  p = q
  <2>1. \A o \in Requests : o # r => request'[o].job = request[o].job
                                     /\ request'[o].tenant = request[o].tenant
    BY DEF Passed, Kept
  <2>2. QED
    BY <1>3, <2>1 DEF Transfers
<1>4. \A t \in Tenants : Imported(t)'
  BY OtherTenants
<1>5. QED
  BY <1>2, <1>3, <1>4 DEF Transfers

LEMMA OthersPass ==
  ASSUME RequestsFit, NEW r \in Requests, Others(r), UNCHANGED rows
  PROVE  \A q \in Requests : q # r => Passed(q)
BY OthersAreKept DEF Passed

LEMMA DisturbedPass ==
  ASSUME Shape, NEW r, NEW t \in Tenants, DisturbedOthers(r, t),
         \A u \in Tenants : u # t => rows'[u] = rows[u]
  PROVE  \A q \in Requests : q # r => Passed(q)
<1> SUFFICES ASSUME NEW q \in Requests, q # r PROVE Passed(q)
  OBVIOUS
<1>1. Kept(q)
  BY DEF DisturbedOthers
<1>2. request[q].job = "export" => request[q].tenant \in Tenants
  BY DEF Shape, RequestsFit, Fits, TenantsFit
<1>3. QED
  BY <1>1, <1>2 DEF Passed, DisturbedOthers

LEMMA NothingHappened ==
  ASSUME UNCHANGED <<slug, edited, origin, outcome, rows>>
  PROVE  \A t \in Tenants : Steady(t)
BY DEF Steady, Untroubled, Exists

LEMMA IdleHasNothing == Reading(Idle) /\ Importing(Idle)
BY IdleIs DEF Reading, Importing

LEMMA FaultsGrow == Shape /\ [Next]_vars => (faults > 0 => faults' > 0)
<1> SUFFICES ASSUME Shape, [Next]_vars PROVE faults > 0 => faults' > 0
  OBVIOUS
<1>1. faults \in Nat
  BY TransferAssumption DEF Shape, TenantsFit
<1> DEFINE Grown == faults' = faults \/ faults' = faults + 1
<1>2. Grown
  <2>1. ASSUME NEW r \in Requests, NEW t \in Tenants,
               NEW mode \in {"seed", "migration"}, StartExport(r, t, mode)
        PROVE  Grown
    BY <2>1 DEF StartExport
  <2>2. ASSUME NEW r \in Requests, NEW row \in request[r].todo,
               ReadPart(r, row) \/ ImportRow(r, row)
        PROVE  Grown
    BY <2>2 DEF ReadPart, ImportRow, counters
  <2>3. ASSUME NEW r \in Requests, NEW s \in Slugs, StartImport(r, s)
        PROVE  Grown
    BY <2>3 DEF StartImport, counters
  <2>4. ASSUME NEW r \in Requests, NEW t \in Tenants,
               CreateTenant(r, t) \/ StartEdit(r, t)
        PROVE  Grown
    BY <2>4 DEF CreateTenant, StartEdit, counters
  <2>5. ASSUME NEW r \in Requests,
               \/ FinishExport(r) \/ SetRegistration(r) \/ MakeMember(r)
               \/ FinishImport(r) \/ Refused(r) \/ Fail(r) \/ Edit(r)
        PROVE  Grown
    BY <2>5 DEF FinishExport, SetRegistration, MakeMember, FinishImport,
                Refused, Fail, Edit, counters
  <2>6. ASSUME NEW t \in Tenants, DeleteTenant(t) PROVE Grown
    BY <2>6 DEF DeleteTenant, counters
  <2>7. CASE UNCHANGED vars
    BY <2>7 DEF vars, counters
  <2> HIDE DEF Grown
  <2>8. QED
    BY <2>1, <2>2, <2>3, <2>4, <2>5, <2>6, <2>7 DEF Next
<1>3. QED
  BY <1>1, <1>2

\* A request that has no import to write, and changes no tenant.
LEMMA QuietStep ==
  ASSUME Shape, Transfers, faults > 0 => faults' > 0, NEW r \in Requests,
         Others(r), UNCHANGED <<slug, edited, origin, outcome, rows>>,
         Whole(file)', request'[r].job # "import",
         Reading(request[r])' /\ Importing(request[r])'
  PROVE  Transfers'
<1>1. \A q \in Requests : q # r => Passed(q)
  BY OthersPass DEF Shape
<1>2. \A t \in Tenants : Steady(t)
  BY NothingHappened
<1>3. PICK T : T = {}
  OBVIOUS
<1>4. QED
  BY <1>1, <1>2, <1>3, TransfersFrame

\* A request that writes to the tenant it is making.
LEMMA MakingStep ==
  ASSUME Shape, Transfers, faults > 0 => faults' > 0, NEW r \in Requests,
         NEW t \in Tenants, t = request[r].tenant,
         request[r].job = "import",
         \A q \in Requests : q # r => Passed(q),
         \A u \in Tenants : u # t => Steady(u),
         UNCHANGED file, Reading(request[r])' /\ Importing(request[r])',
         Imported(t)',
         request'[r].job = "import" => request'[r].tenant = t
  PROVE  Transfers'
<1>1. \A q \in Requests : q # r /\ request[q].job = "import" =>
        request[q].tenant # t
  BY DEF Transfers
<1>2. PICK T : T = {t}
  OBVIOUS
<1>3. Whole(file)'
  BY DEF Transfers, Whole
<1>4. QED
  BY <1>1, <1>2, <1>3, TransfersFrame

\* The tenant is made, and has nothing yet.
LEMMA CreateStep ==
  ASSUME Shape, Transfers, faults > 0 => faults' > 0, NEW r \in Requests,
         NEW t \in Tenants, CreateTenant(r, t)
  PROVE  Transfers'
<1>1. PICK q \in Locals, n \in Locals : q = request[r] /\ n = request'[r]
  BY RequestIs, CreateTenantDoes
<1>2. PICK f \in Files : f = q.file
  BY <1>1, RequestIs
<1>3. /\ Others(r) /\ q.job = "create" /\ n.job = "import" /\ n.tenant = t
      /\ n.file = f /\ n.todo = q.todo /\ n.user = q.user
  BY <1>1, <1>2, CreateTenantDoes
<1>4. q.todo = RowsOf(f) /\ q.user = None /\ Whole(f)
  BY <1>1, <1>2, <1>3 DEF Transfers, Importing
<1>5. /\ t \notin made /\ UNCHANGED <<rows, file, edited>>
      /\ origin'[t] = f /\ outcome'[t] = "running"
      /\ \A u \in Tenants : u # t =>
           origin'[u] = origin[u] /\ outcome'[u] = outcome[u] /\ slug'[u] = slug[u]
  BY <1>1, <1>2 DEF CreateTenant, Shape, TenantsFit
<1>6. rows'[t] = Empty
  BY <1>5 DEF Shape, TablesFit
<1>7. ASSUME Untroubled(t)'
      PROVE  Opened(rows[t], f, RowsOf(f))' /\ Progress(rows'[t], f, RowsOf(f), None)
  <2>0. f.sound
    BY <1>5, <1>7 DEF Untroubled
  <2>1. Opened(Empty, f, RowsOf(f)) /\ Progress(Empty, f, RowsOf(f), None)
    BY <1>4, <2>0, ProgressStarts, WholeLinks
  <2>2. QED
    BY <1>6, <2>1 DEF Opened
<1>8. Ordered(n)
  BY <1>3, <1>4 DEF Ordered
<1>9. Reading(request[r])' /\ Importing(request[r])'
  BY <1>1, <1>3, <1>4, <1>5, <1>7, <1>8 DEF Reading, Importing
<1>10. Imported(t)'
  BY <1>4, <1>5 DEF Imported
<1>11. \A u \in Tenants : u # t => Steady(u)
  BY <1>5 DEF Steady, Untroubled, Exists
<1>12. \A p \in Requests : request[p].job = "import" => request[p].tenant # t
  BY <1>5, RequestIs
<1>13. \A p \in Requests : p # r => Passed(p)
  BY <1>3, <1>5, OthersPass DEF Shape
<1>14. Whole(file)'
  BY <1>5 DEF Transfers, Whole
<1>15. PICK T : T = {t}
  OBVIOUS
<1>16. QED
  BY <1>1, <1>3, <1>9, <1>10, <1>11, <1>12, <1>13, <1>14, <1>15, TransfersFrame

LEMMA RegistrationStep ==
  ASSUME Shape, Transfers, faults > 0 => faults' > 0, NEW r \in Requests,
         SetRegistration(r)
  PROVE  Transfers'
<1>1. PICK q \in Locals, n \in Locals, f \in Files :
        q = request[r] /\ n = request'[r] /\ f = q.file
  BY RequestIs, SetRegistrationDoes
<1>2. /\ DisturbedOthers(r, q.tenant) /\ q.job = "import" /\ n.job = "import"
      /\ n.tenant = q.tenant /\ n.file = f
      /\ n.todo = q.todo \ {Row("open", None)} /\ n.user = q.user
  BY <1>1, SetRegistrationDoes
<1>3. PICK t \in Tenants : t = q.tenant
  BY <1>1, <1>2, RequestIs
<1>4. PICK x \in Tables : x = rows[t]
  BY DEF Shape, TablesFit
<1>5. /\ UNCHANGED <<slug, file, origin, outcome, edited>>
      /\ Row("open", None) \in q.todo
      /\ \A other \in q.todo : Rank(Row("open", None).part) <= Rank(other.part)
      /\ \/ rows' = IF Exists(t) THEN [rows EXCEPT ![t] = [x EXCEPT !.open = TRUE]]
                    ELSE rows
         \/ faults' = faults + 1 /\ UNCHANGED rows
  <2>1. rows \in [Tenants -> Tables]
    BY DEF Shape, TablesFit
  <2>2. [rows EXCEPT ![t].open = TRUE] = [rows EXCEPT ![t] = [x EXCEPT !.open = TRUE]]
    BY <1>4, <2>1
  <2>3. QED
    BY <1>1, <1>3, <2>2 DEF SetRegistration, Due, observers
<1>6. \A u \in Tenants : u # t => rows'[u] = rows[u]
  BY <1>5 DEF Shape, TablesFit
<1>7. /\ Whole(f) /\ outcome[t] = "running" /\ f = origin[t] /\ Ordered(q)
      /\ q.user # None => /\ f.rows.users[q.user] = "member"
                          /\ Row("users", q.user) \notin q.todo
      /\ Untroubled(t) => Opened(x, f, q.todo) /\ Progress(x, f, q.todo, q.user)
  BY <1>1, <1>2, <1>3, <1>4 DEF Transfers, Importing
<1>8. f.rows.open = TRUE
  <2>1. PICK row \in RowsOf(f) : row = Row("open", None)
    BY <1>1, <1>2, <1>5, RequestIs
  <2>2. row.part = "open"
    BY <2>1, RowsDiffer
  <2>3. QED
    BY <2>2, RowsOfAre
<1>9. ASSUME Untroubled(t)'
      PROVE  /\ Opened(rows[t], f, n.todo)'
             /\ Progress(rows'[t], f, n.todo, n.user)
  <2>1. Untroubled(t) /\ Exists(t)
    BY <1>5, <1>9 DEF Untroubled, Exists
  <2>2. rows \in [Tenants -> Tables] /\ faults \in Nat
    BY TransferAssumption DEF Shape, TablesFit, TenantsFit
  <2>3. \/ rows'[t] = [x EXCEPT !.open = TRUE]
        \/ rows'[t] = x /\ faults' > 0
    <3>1. CASE rows' = IF Exists(t) THEN [rows EXCEPT ![t] = [x EXCEPT !.open = TRUE]]
                       ELSE rows
      <4>1. PICK y : y = [x EXCEPT !.open = TRUE]
        OBVIOUS
      <4>2. rows' = [rows EXCEPT ![t] = y]
        BY <2>1, <3>1, <4>1
      <4>3. QED
        BY <2>2, <4>1, <4>2
    <3>2. CASE faults' = faults + 1 /\ UNCHANGED rows
      BY <1>4, <2>2, <3>2
    <3>3. QED
      BY <1>5, <3>1, <3>2
  <2>4. rows'[t].open = TRUE \/ faults' > 0
    BY <2>3 DEF Tables
  <2>5. Opened(rows[t], f, n.todo)'
    BY <1>8, <2>4 DEF Opened
  <2>6. PICK y : y = rows'[t]
    OBVIOUS
  <2>7. y = x \/ y = [x EXCEPT !.open = TRUE]
    BY <2>3, <2>6
  <2>8. q.todo \in SUBSET Rows /\ Progress(x, f, q.todo, q.user)
    BY <1>7, <2>1 DEF Locals
  <2>9. Progress(y, f, q.todo \ {Row("open", None)}, q.user)
    BY <2>7, <2>8, FlagProgress
  <2>10. QED
    BY <1>2, <2>5, <2>6, <2>9
<1>10. Ordered(n)
  BY <1>1, <1>2, <1>5, <1>7, RequestIs, OrderStays
<1>11. Reading(request[r])' /\ Importing(request[r])'
  BY <1>1, <1>2, <1>3, <1>5, <1>7, <1>9, <1>10 DEF Reading, Importing
<1>12. Imported(t)'
  BY <1>5, <1>7 DEF Imported
<1>13. \A u \in Tenants : u # t => Steady(u)
  BY <1>5, <1>6 DEF Steady, Untroubled, Exists
<1>14. \A p \in Requests : p # r => Passed(p)
  BY <1>2, <1>3, <1>6, DisturbedPass
<1>15. QED
  BY <1>1, <1>2, <1>3, <1>5, <1>11, <1>12, <1>13, <1>14, MakingStep

\* The next row of an import nobody got in the way of: what it refers to is
\* there.
LEMMA EarlierRows ==
  ASSUME Shape, NEW r \in Requests, request[r].job = "import",
         Importing(request[r]), Untroubled(request[r].tenant),
         request[r].user = None,
         NEW row \in request[r].todo, row.part # "open", Due(r, row),
         NEW q, q = request[r], NEW f, f = q.file, NEW x, x = rows[q.tenant]
  PROVE  /\ q \in Locals /\ f \in Files /\ x \in Tables /\ q.tenant \in Tenants
         /\ Whole(f) /\ Progress(x, f, q.todo, None)
         /\ LinksLead(f.rows) /\ Consistent(f.rows)
         /\ row \in RowsOf(f) /\ row = Row(row.part, row.key)
         /\ row.part \in {"contacts", "campaign"} => x.segments = f.rows.segments
         /\ row.part = "recipients" =>
              /\ Row("contacts", row.key) \notin q.todo
              /\ row.key \in People /\ x.campaign # NoCampaign
<1>1. q \in Locals /\ f \in Files /\ q.tenant \in Tenants
  BY RequestIs
<1>2. x \in Tables
  BY <1>1 DEF Shape, TablesFit
<1>3. Whole(f) /\ f.sound /\ Progress(x, f, q.todo, None)
  BY DEF Importing, Untroubled
<1>4. LinksLead(f.rows) /\ Consistent(f.rows)
  BY <1>3, WholeLinks
<1>5. row \in RowsOf(f) /\ row \in Rows /\ row = Row(row.part, row.key)
  BY RequestIs, RowsDiffer
<1>6. ASSUME NEW p \in Parts, NEW k, Rank(p) < Rank(row.part)
      PROVE  Row(p, k) \notin q.todo
  <2>1. SUFFICES ASSUME Row(p, k) \in q.todo PROVE FALSE
    OBVIOUS
  <2>2. PICK other \in q.todo : other.part = p
    BY <2>1, RowsDiffer
  <2>3. Rank(row.part) <= Rank(p)
    BY <2>2 DEF Due
  <2>4. Rank(row.part) \in Nat /\ Rank(p) \in Nat
    BY <1>5, RankIs DEF Rows
  <2>5. QED
    BY <1>6, <2>3, <2>4
<1>7. row.part \in {"contacts", "campaign"} => x.segments = f.rows.segments
  <2>1. HAVE row.part \in {"contacts", "campaign"}
  <2>2. Rank("segments") < Rank(row.part) /\ "segments" \in Parts
    BY <2>1 DEF Rank, Parts
  <2>3. \A s : Row("segments", s) \notin q.todo
    BY <1>6, <2>2
  <2>4. PICK S : S = f.rows.segments
    OBVIOUS
  <2>5. x.segments = {s \in S : Row("segments", s) \notin q.todo}
    BY <1>3, <2>4 DEF Progress
  <2>6. QED
    BY <2>3, <2>4, <2>5
<1>8. row.part = "recipients" =>
        /\ Row("contacts", row.key) \notin q.todo
        /\ row.key \in People /\ x.campaign # NoCampaign
  <2>1. HAVE row.part = "recipients"
  <2>2. /\ Rank("contacts") < Rank(row.part) /\ "contacts" \in Parts
        /\ Rank("campaign") < Rank(row.part) /\ "campaign" \in Parts
    BY <2>1 DEF Rank, Parts
  <2>3. Row("contacts", row.key) \notin q.todo /\ Row("campaign", None) \notin q.todo
    BY <1>6, <2>2
  <2>4. row.key \in f.rows.campaign.recipients
    BY <1>1, <1>5, <2>1, RowsOfAre
  <2>5. f.rows.campaign \in Campaigns
    BY <1>1 DEF Files, Tables
  <2>6. row.key \in People /\ f.rows.campaign.status \in Statuses
    BY <2>4, <2>5 DEF Campaigns, NoCampaign
  <2>7. x.campaign.status \in Statuses
    BY <1>3, <2>3, <2>6 DEF Progress
  <2>8. x.campaign # NoCampaign
    BY <2>7, BeginningsAssumption DEF NoCampaign
  <2>9. QED
    BY <2>3, <2>6, <2>8
<1>9. QED
  BY <1>1, <1>2, <1>3, <1>4, <1>5, <1>7, <1>8

LEMMA NothingDangles ==
  ASSUME Shape, NEW r \in Requests, request[r].job = "import",
         Importing(request[r]), Untroubled(request[r].tenant),
         request[r].user = None,
         NEW row \in request[r].todo, row.part # "open", Due(r, row),
         Accepted(r, row)
  PROVE  ~Dangling(r, row)
<1>1. PICK q, f, x : q = request[r] /\ f = q.file /\ x = rows[q.tenant]
  OBVIOUS
<1>2. /\ f \in Files /\ x \in Tables /\ Progress(x, f, q.todo, None)
      /\ row \in RowsOf(f)
      /\ row.part \in {"contacts", "campaign"} => x.segments = f.rows.segments
      /\ row.part = "recipients" =>
           /\ Row("contacts", row.key) \notin q.todo
           /\ row.key \in People /\ x.campaign # NoCampaign
  BY <1>1, EarlierRows
<1>3. CASE row.part = "contacts"
  BY <1>1, <1>2, <1>3 DEF Dangling, KnownSegments
<1>4. CASE row.part = "campaign"
  BY <1>1, <1>2, <1>4 DEF Dangling, KnownSegments
<1>5. CASE row.part = "recipients"
  <2>1. x.contacts[row.key] # None
    <3>1. CASE f.rows.contacts[row.key] # None /\ row.key \notin UnfitContacts
      BY <1>2, <1>5, <3>1 DEF Progress
    <3>2. CASE x.contacts[row.key] # None
      BY <3>2
    <3>3. QED
      BY <1>1, <1>5, <3>1, <3>2 DEF Accepted
  <2>2. QED
    BY <1>1, <1>2, <1>5, <2>1 DEF Dangling
<1>6. CASE row.part \notin {"contacts", "campaign", "recipients"}
  BY <1>6 DEF Dangling
<1>7. QED
  BY <1>3, <1>4, <1>5, <1>6

\* An import that goes as a valid file asks meets no row that is not accepted.
LEMMA RowIsAccepted ==
  ASSUME Shape, NEW r \in Requests, request[r].job = "import",
         Importing(request[r]), Untroubled(request[r].tenant),
         request[r].user = None, Importable(request[r].file),
         request[r].file.mode = "migration" =>
           \A u \in Tenants \ {request[r].tenant} :
             rows[u].clients \cap request[r].file.rows.clients = {},
         NEW row \in request[r].todo, row.part # "open", Due(r, row)
  PROVE  Accepted(r, row)
<1>1. PICK q, f, x : q = request[r] /\ f = q.file /\ x = rows[q.tenant]
  OBVIOUS
<1>2. /\ f \in Files /\ x \in Tables /\ Progress(x, f, q.todo, None)
      /\ Consistent(f.rows) /\ q.tenant \in Tenants
      /\ row \in RowsOf(f) /\ row = Row(row.part, row.key)
  BY <1>1, EarlierRows
<1>3. PICK t \in Tenants : t = q.tenant
  BY <1>2
<1>4. None \notin People
  BY TransferAssumption
<1>5. /\ ValidUsers(f) /\ ValidClients(f)
      /\ f.rows.campaign.recipients \cap UnfitContacts = {}
  BY <1>1 DEF Importable
<1>6. CASE row.part = "users" /\ row.key \in People
  <2>1. x.users[row.key] = None
    BY <1>1, <1>2, <1>6 DEF Progress
  <2>2. QED
    BY <1>1, <1>5, <1>6, <2>1 DEF Accepted
<1>7. CASE row.part = "clients" /\ row.key \in f.rows.clients
  <2>1. f.mode = "migration" => Unused(row.key)
    <3>1. HAVE f.mode = "migration"
    <3>2. PICK S : S = {c \in f.rows.clients : Row("clients", c) \notin q.todo}
      OBVIOUS
    <3>3. x.clients = S /\ row.key \notin S
      BY <1>1, <1>2, <1>7, <3>1, <3>2 DEF Progress
    <3>4. ASSUME NEW u \in Tenants PROVE row.key \notin rows[u].clients
      BY <1>1, <1>3, <1>7, <3>1, <3>3
    <3>5. QED
      BY <3>4 DEF Unused
  <2>2. QED
    BY <1>1, <1>5, <1>7, <2>1 DEF Accepted
<1>8. CASE row.part = "segments" /\ row.key \in f.rows.segments
  <2>1. PICK S : S = {s \in f.rows.segments : Row("segments", s) \notin q.todo}
    OBVIOUS
  <2>2. x.segments = S /\ row.key \notin S
    BY <1>1, <1>2, <1>8, <2>1 DEF Progress
  <2>3. QED
    BY <1>1, <1>8, <2>2 DEF Accepted
<1>9. CASE row.part = "contacts" /\ row.key \in People
  <2>1. x.contacts[row.key] = None
    BY <1>1, <1>2, <1>9 DEF Progress
  <2>2. QED
    BY <1>1, <1>9, <2>1 DEF Accepted
<1>10. CASE row.part = "campaign"
  BY <1>10 DEF Accepted
<1>11. CASE row.part = "recipients" /\ row.key \in f.rows.campaign.recipients
  <2>1. f.rows.contacts[row.key] # None /\ row.key \notin UnfitContacts
    BY <1>2, <1>5, <1>11 DEF Consistent
  <2>2. QED
    BY <1>1, <1>11, <2>1 DEF Accepted
<1>12. QED
  BY <1>2, <1>6, <1>7, <1>8, <1>9, <1>10, <1>11, RowsOfAre

LEMMA ImportRowStep ==
  ASSUME IsFiniteSet(Clients), Shape, Transfers, faults > 0 => faults' > 0,
         NEW r \in Requests, NEW row \in request[r].todo, ImportRow(r, row)
  PROVE  Transfers'
<1>1. PICK q \in Locals, n \in Locals, f \in Files :
        q = request[r] /\ n = request'[r] /\ f = q.file
  BY RequestIs, ImportRowDoes
<1>2. /\ DisturbedOthers(r, q.tenant) /\ q.job = "import" /\ n.job = "import"
      /\ n.tenant = q.tenant /\ n.file = f /\ n.todo = q.todo \ {row}
      /\ n.user = IF /\ row.part = "users" /\ f.mode = "seed"
                     /\ f.rows.users[row.key] = "member"
                  THEN row.key ELSE None
  BY <1>1, ImportRowDoes
<1>3. PICK t \in Tenants : t = q.tenant
  BY <1>1, <1>2, RequestIs
<1>4. PICK x \in Tables : x = rows[t] /\ LinksLead(x) /\ Consistent(x)
  BY DEF Shape, TablesFit
<1>5. /\ UNCHANGED <<slug, file, origin, outcome, edited, faults>>
      /\ q.user = None /\ row \in q.todo /\ row.part # "open" /\ Accepted(r, row)
      /\ \A other \in q.todo : Rank(row.part) <= Rank(other.part)
      /\ \E c \in ClientIds(f, row) : rows' = [rows EXCEPT ![t] = Written(f, x, row, c)]
  BY <1>1, <1>3, <1>4 DEF ImportRow, Due, observers, counters
<1>6. PICK c \in ClientIds(f, row) : rows' = [rows EXCEPT ![t] = Written(f, x, row, c)]
  BY <1>5
<1>7. PICK y : y = Written(f, x, row, c)
  OBVIOUS
<1>8. rows'[t] = y /\ \A u \in Tenants : u # t => rows'[u] = rows[u]
  BY <1>6, <1>7 DEF Shape, TablesFit
<1>9. q.todo \in SUBSET Rows /\ q.todo \subseteq RowsOf(f) /\ row \in RowsOf(f)
  BY <1>1, <1>2, <1>5, RequestIs
<1>10. /\ Whole(f) /\ outcome[t] = "running" /\ f = origin[t] /\ Ordered(q)
       /\ Untroubled(t) => Opened(x, f, q.todo) /\ Progress(x, f, q.todo, None)
  BY <1>1, <1>2, <1>3, <1>4, <1>5 DEF Transfers, Importing
<1>11. row.part = "clients" =>
         IF f.mode = "migration" THEN c = row.key ELSE c \notin x.clients
  <2>1. HAVE row.part = "clients"
  <2>2. CASE f.mode = "migration"
    BY <1>6, <2>1, <2>2 DEF ClientIds
  <2>3. CASE f.mode # "migration"
    <3>1. Unused(c)
      BY <1>6, <2>1, <2>3 DEF ClientIds
    <3>2. QED
      BY <1>4, <2>3, <3>1 DEF Unused
  <2>4. QED
    BY <2>2, <2>3
<1>12. row.part = "campaign" =>
         \A e \in f.rows.campaign.recipients : Row("recipients", e) \in q.todo
  <2>1. HAVE row.part = "campaign"
  <2>2. TAKE e \in f.rows.campaign.recipients
  <2>3. PICK b \in RowsOf(f) : b = Row("recipients", e) /\ b.part = "recipients"
    BY RowsOfHas, RowsDiffer
  <2>4. Rank(row.part) < Rank(b.part)
    BY <2>1, <2>3 DEF Rank
  <2>5. QED
    BY <1>1, <1>5, <1>10, <2>3, <2>4 DEF Ordered
<1>13. ASSUME Untroubled(t)'
       PROVE  /\ Opened(rows[t], f, n.todo)'
              /\ Progress(rows'[t], f, n.todo, n.user)
  <2>1. Untroubled(t)
    BY <1>5, <1>13 DEF Untroubled, Exists
  <2>2. f.sound
    BY <1>10, <2>1 DEF Untroubled
  <2>3. LinksLead(f.rows)
    BY <1>10, <2>2, WholeLinks
  <2>4. WrittenInto(y, x, f, row, c)
    <3>1. ~Dangling(r, row)
      BY <1>1, <1>2, <1>3, <1>5, <2>1, NothingDangles DEF Transfers, ImportRow
    <3>2. QED
      BY <1>1, <1>3, <1>4, <1>5, <1>7, <1>9, <2>3, <3>1, WrittenFields
  <2>5. Progress(y, f, q.todo \ {row}, n.user)
    BY <1>2, <1>5, <1>9, <1>10, <1>11, <1>12, <2>1, <2>4, ProgressGoesOn
  <2>6. Row("open", None) \in q.todo => Row("open", None) \in n.todo
    BY <1>2, <1>5, RowsDiffer
  <2>7. y.open = x.open
    BY <2>4 DEF WrittenInto
  <2>8. Opened(rows[t], f, n.todo)'
    BY <1>5, <1>8, <1>10, <2>1, <2>6, <2>7 DEF Opened
  <2>9. QED
    BY <1>2, <1>8, <2>5, <2>8
<1>14. Ordered(n)
  BY <1>1, <1>2, <1>5, <1>9, <1>10, OrderStays
<1>15. n.user # None => /\ f.rows.users[n.user] = "member"
                        /\ Row("users", n.user) \notin n.todo
  <2>1. HAVE n.user # None
  <2>2. row.part = "users" /\ n.user = row.key /\ f.rows.users[row.key] = "member"
    BY <1>2, <2>1
  <2>3. row = Row("users", n.user)
    <3>1. row \in Rows
      BY <1>5, <1>9
    <3>2. row = Row(row.part, row.key)
      BY <3>1, RowsDiffer
    <3>3. QED
      BY <2>2, <3>2
  <2>4. QED
    BY <1>2, <2>2, <2>3
<1>16. Reading(request[r])' /\ Importing(request[r])'
  BY <1>1, <1>2, <1>3, <1>5, <1>10, <1>13, <1>14, <1>15 DEF Reading, Importing
<1>17. Imported(t)'
  BY <1>5, <1>10 DEF Imported
<1>18. \A u \in Tenants : u # t => Steady(u)
  BY <1>5, <1>8 DEF Steady, Untroubled, Exists
<1>19. \A p \in Requests : p # r => Passed(p)
  BY <1>2, <1>3, <1>8, DisturbedPass
<1>20. QED
  BY <1>1, <1>2, <1>3, <1>5, <1>16, <1>17, <1>18, <1>19, MakingStep

LEMMA MemberStep ==
  ASSUME Shape, Transfers, faults > 0 => faults' > 0, NEW r \in Requests,
         MakeMember(r)
  PROVE  Transfers'
<1>1. PICK q \in Locals, n \in Locals, f \in Files :
        q = request[r] /\ n = request'[r] /\ f = q.file
  BY RequestIs, MakeMemberDoes
<1>2. /\ DisturbedOthers(r, q.tenant) /\ q.job = "import" /\ n.job = "import"
      /\ n.tenant = q.tenant /\ n.file = f /\ n.todo = q.todo
      /\ n.user = None /\ q.user \in People
  BY <1>1, MakeMemberDoes
<1>3. PICK t \in Tenants, e \in People : t = q.tenant /\ e = q.user
  BY <1>1, <1>2, RequestIs
<1>4. PICK x \in Tables : x = rows[t]
  BY DEF Shape, TablesFit
<1>5. PICK y : y = [x EXCEPT !.users[e] = "member"]
  OBVIOUS
<1>6. /\ UNCHANGED <<slug, file, origin, outcome, edited, faults>>
      /\ rows' = [rows EXCEPT ![t].users[e] = "member"]
  BY <1>1, <1>3 DEF MakeMember, observers, counters
<1>7. rows'[t] = y /\ \A u \in Tenants : u # t => rows'[u] = rows[u]
  BY <1>4, <1>5, <1>6 DEF Shape, TablesFit
<1>8. /\ Whole(f) /\ outcome[t] = "running" /\ f = origin[t] /\ Ordered(q)
      /\ f.rows.users[e] = "member" /\ Row("users", e) \notin q.todo
      /\ Untroubled(t) => Opened(x, f, q.todo) /\ Progress(x, f, q.todo, e)
  <2>1. e # None
    BY TransferAssumption
  <2>2. QED
    BY <1>1, <1>2, <1>3, <1>4, <2>1 DEF Transfers, Importing
<1>9. q.todo \in SUBSET Rows
  BY <1>1, RequestIs
<1>10. ASSUME Untroubled(t)'
       PROVE  /\ Opened(rows[t], f, n.todo)'
              /\ Progress(rows'[t], f, n.todo, None)
  <2>1. Untroubled(t)
    BY <1>6, <1>10 DEF Untroubled, Exists
  <2>2. Progress(y, f, q.todo, None)
    BY <1>5, <1>8, <1>9, <2>1, MemberProgress
  <2>3. y.open = x.open
    BY <1>5 DEF Tables
  <2>4. Opened(rows[t], f, n.todo)'
    BY <1>2, <1>6, <1>7, <1>8, <2>1, <2>3 DEF Opened
  <2>5. QED
    BY <1>2, <1>7, <2>2, <2>4
<1>11. Ordered(n)
  BY <1>1, <1>2, <1>8 DEF Ordered
<1>12. Reading(request[r])' /\ Importing(request[r])'
  BY <1>1, <1>2, <1>3, <1>6, <1>8, <1>10, <1>11 DEF Reading, Importing
<1>13. Imported(t)'
  BY <1>6, <1>8 DEF Imported
<1>14. \A u \in Tenants : u # t => Steady(u)
  BY <1>6, <1>7 DEF Steady, Untroubled, Exists
<1>15. \A p \in Requests : p # r => Passed(p)
  BY <1>2, <1>3, <1>7, DisturbedPass
<1>16. QED
  BY <1>1, <1>2, <1>3, <1>6, <1>12, <1>13, <1>14, <1>15, MakingStep

\* The end of an import, good or bad, or of a request that was none.
LEMMA AnswerStep ==
  ASSUME Shape, Transfers, faults > 0 => faults' > 0, NEW r \in Requests,
         FinishImport(r) \/ Refused(r) \/ Fail(r)
  PROVE  Transfers'
<1>1. PICK q \in Locals, f \in Files : q = request[r] /\ f = q.file
  BY RequestIs
<1>2. /\ request'[r] = Idle /\ Others(r) /\ Idle.job = "idle"
      /\ UNCHANGED <<slug, file, rows, origin, edited>>
      /\ IF q.job = "import"
         THEN \/ /\ outcome' = [outcome EXCEPT ![q.tenant] = "done"]
                 /\ q.todo = {} /\ q.user = None
              \/ outcome' = [outcome EXCEPT ![q.tenant] = "refused"]
              \/ outcome' = [outcome EXCEPT ![q.tenant] = "broken"]
         ELSE UNCHANGED outcome
  BY <1>1, AnswerDoes, IdleIs DEF FinishImport, Refused, Fail
<1>3. Reading(request[r])' /\ Importing(request[r])'
  BY <1>2, IdleHasNothing DEF Reading, Importing
<1>4. \A p \in Requests : p # r => Passed(p)
  BY <1>2, OthersPass DEF Shape
<1>5. CASE q.job = "import"
  <2>1. PICK t \in Tenants : t = q.tenant
    BY <1>1, <1>5, RequestIs
  <2>2. \A u \in Tenants : u # t => Steady(u)
    BY <1>2, <1>5, <2>1 DEF Steady, Untroubled, Exists, Shape, TenantsFit
  <2>3. /\ Whole(f) /\ f = origin[t]
        /\ Untroubled(t) => /\ Opened(rows[t], f, q.todo)
                            /\ Progress(rows[t], f, q.todo, q.user)
    BY <1>1, <1>5, <2>1 DEF Transfers, Importing
  <2>4. outcome'[t] = "done" => q.todo = {} /\ q.user = None
    BY <1>2, <1>5, <2>1 DEF Shape, TenantsFit
  <2>5. Untroubled(t)' => Untroubled(t)
    BY <1>2 DEF Untroubled, Exists
  <2>6. origin'[t] = f /\ rows'[t] = rows[t]
    BY <1>2, <2>3
  <2>7. ASSUME outcome'[t] = "done", Untroubled(t)'
        PROVE  Opened(rows[t], f, {})' /\ Progress(rows'[t], f, {}, None)
    BY <2>3, <2>4, <2>5, <2>6, <2>7 DEF Opened
  <2>8. Imported(t)'
    BY <2>3, <2>6, <2>7 DEF Imported
  <2>9. QED
    BY <1>1, <1>2, <1>3, <1>4, <1>5, <2>1, <2>2, <2>8, MakingStep
<1>6. CASE q.job # "import"
  <2>1. Whole(file)'
    BY <1>2 DEF Transfers, Whole
  <2>2. QED
    BY <1>2, <1>3, <1>6, <2>1, QuietStep
<1>7. QED
  BY <1>5, <1>6

LEMMA TransfersStay ==
  ASSUME IsFiniteSet(Clients)
  PROVE  Shape /\ Transfers /\ [Next]_vars => Transfers'
<1> SUFFICES ASSUME Shape, Transfers, [Next]_vars PROVE Transfers'
  OBVIOUS
<1>0. faults > 0 => faults' > 0
  BY FaultsGrow
<1>1. ASSUME NEW r \in Requests, NEW t \in Tenants,
             NEW mode \in Modes, StartExport(r, t, mode)
      PROVE  Transfers'
  <2>1. Others(r) /\ request'[r].job = "export"
    BY <1>1, StartExportDoes
  <2>2. UNCHANGED <<slug, edited, origin, outcome, rows, file>>
    BY <1>1 DEF StartExport, observers
  <2>3. Reading(request[r])' /\ Importing(request[r])'
    BY <1>1, <2>1, ReadingStarts DEF Importing
  <2>4. Whole(file)'
    BY <2>2 DEF Transfers, Whole
  <2>5. QED
    BY <1>0, <2>1, <2>2, <2>3, <2>4, QuietStep
<1>2. ASSUME NEW r \in Requests, NEW row \in request[r].todo, ReadPart(r, row)
      PROVE  Transfers'
  <2>1. Others(r) /\ request'[r].job = "export"
    BY <1>2, ReadPartDoes
  <2>2. UNCHANGED <<slug, edited, origin, outcome, rows, file>>
    BY <1>2 DEF ReadPart, observers
  <2>3. Reading(request[r])' /\ Importing(request[r])'
    BY <1>2, <2>1, ReadingGoesOn DEF Importing, Transfers
  <2>4. Whole(file)'
    BY <2>2 DEF Transfers, Whole
  <2>5. QED
    BY <1>0, <2>1, <2>2, <2>3, <2>4, QuietStep
<1>3. ASSUME NEW r \in Requests, FinishExport(r) PROVE Transfers'
  <2>1. /\ Others(r) /\ request'[r] = Idle /\ request[r].job = "export"
        /\ request[r].todo = {} /\ file' = request[r].file
    BY <1>3, FinishExportDoes
  <2>2. UNCHANGED <<slug, edited, origin, outcome, rows>>
    BY <1>3 DEF FinishExport, observers
  <2>3. /\ Reading(request[r])' /\ Importing(request[r])'
        /\ request'[r].job # "import"
    BY <2>1, IdleIs DEF Reading, Importing
  <2>4. Whole(request[r].file)
    BY <2>1, ReadingEnds DEF Transfers
  <2>5. PICK f : f = request[r].file
    OBVIOUS
  <2>6. Whole(f) /\ file' = f
    BY <2>1, <2>4, <2>5
  <2>7. Whole(file)'
    BY <2>6 DEF Whole
  <2>8. QED
    BY <1>0, <2>1, <2>2, <2>3, <2>7, QuietStep
<1>4. ASSUME NEW r \in Requests, NEW s \in Slugs, StartImport(r, s)
      PROVE  Transfers'
  <2>1. /\ Others(r) /\ request'[r].job = "create" /\ request'[r].file = file
        /\ request'[r].todo = RowsOf(file) /\ request'[r].user = None
    BY <1>4, StartImportDoes
  <2>2. UNCHANGED <<slug, edited, origin, outcome, rows, file>>
    BY <1>4 DEF StartImport, observers
  <2>3. Whole(file)
    BY DEF Transfers
  <2>4. Reading(request[r])' /\ Importing(request[r])'
    BY <2>1, <2>3 DEF Reading, Importing
  <2>5. Whole(file)'
    BY <2>2, <2>3 DEF Whole
  <2>6. QED
    BY <1>0, <2>1, <2>2, <2>4, <2>5, QuietStep
<1>5. ASSUME NEW r \in Requests, NEW t \in Tenants, StartEdit(r, t)
      PROVE  Transfers'
  <2>1. Others(r) /\ request'[r].job = "edit"
    BY <1>5, StartEditDoes
  <2>2. UNCHANGED <<slug, edited, origin, outcome, rows, file>>
    BY <1>5 DEF StartEdit, observers
  <2>3. Reading(request[r])' /\ Importing(request[r])'
    BY <2>1 DEF Reading, Importing
  <2>4. Whole(file)'
    BY <2>2 DEF Transfers, Whole
  <2>5. QED
    BY <1>0, <2>1, <2>2, <2>3, <2>4, QuietStep
<1>6. ASSUME NEW r \in Requests, Edit(r) PROVE Transfers'
  <2>1. /\ DisturbedOthers(r, request[r].tenant) /\ request[r].job = "edit"
        /\ request'[r] = Idle
    BY <1>6, EditDoes
  <2>2. PICK t \in Tenants : t = request[r].tenant
    BY <2>1, RequestIs
  <2>3. /\ UNCHANGED <<slug, file, origin, outcome>> /\ edited' = edited \cup {t}
        /\ \A u \in Tenants : u # t => rows'[u] = rows[u]
    BY <1>6, <2>2 DEF Edit, Shape, TablesFit
  <2>4. \A u \in Tenants : Steady(u)
    BY <2>3 DEF Steady, Untroubled, Exists
  <2>5. \A p \in Requests : p # r => Passed(p)
    BY <2>1, <2>2, <2>3, DisturbedPass
  <2>6. /\ Reading(request[r])' /\ Importing(request[r])'
        /\ request'[r].job # "import"
    BY <2>1, IdleIs DEF Reading, Importing
  <2>7. Whole(file)'
    BY <2>3 DEF Transfers, Whole
  <2>8. PICK T : T = {}
    OBVIOUS
  <2>9. QED
    BY <1>0, <2>4, <2>5, <2>6, <2>7, <2>8, TransfersFrame
<1>7. ASSUME NEW t \in Tenants, DeleteTenant(t) PROVE Transfers'
  <2>1. DisturbedOthers(None, t) /\ None \notin Requests
    BY <1>7, DeleteTenantDoes, TransferAssumption
  <2>2. /\ UNCHANGED <<file, origin, outcome, edited>> /\ slug'[t] = None
        /\ \A u \in Tenants : u # t => rows'[u] = rows[u] /\ slug'[u] = slug[u]
    BY <1>7 DEF DeleteTenant, Shape, TablesFit, TenantsFit
  <2>3. \A u \in Tenants : Steady(u)
    BY <2>2 DEF Steady, Untroubled, Exists
  <2>4. \A p \in Requests : p # None => Passed(p)
    BY <2>1, <2>2, DisturbedPass
  <2>5. Whole(file)'
    BY <2>2 DEF Transfers, Whole
  <2>6. PICK T : T = {}
    OBVIOUS
  <2>7. QED
    BY <1>0, <2>1, <2>3, <2>4, <2>5, <2>6, TransfersFrame
<1>8. CASE UNCHANGED vars
  <2>1. UNCHANGED <<slug, rows, file, request, origin, outcome, edited, faults>>
    BY <1>8 DEF vars, observers, counters
  <2>2. \A u \in Tenants : Steady(u)
    BY <2>1, NothingHappened
  <2>3. \A p \in Requests : Passed(p)
    BY <2>1 DEF Passed, Kept
  <2>4. Whole(file)'
    BY <2>1 DEF Transfers, Whole
  <2>5. PICK T, r : T = {} /\ r = None /\ r \notin Requests
    BY TransferAssumption
  <2>6. QED
    BY <1>0, <2>2, <2>3, <2>4, <2>5, TransfersFrame
<1>9. QED
  BY <1>0, <1>1, <1>2, <1>3, <1>4, <1>5, <1>6, <1>7, <1>8, ImportRowStep,
     CreateStep, RegistrationStep, MemberStep, AnswerStep DEF Next, Modes

LEMMA TransfersInit == Init => Transfers
<1> SUFFICES ASSUME Init PROVE Transfers
  OBVIOUS
<1>1. /\ file = NoFile /\ request = [r \in Requests |-> Idle]
      /\ origin = [u \in Tenants |-> NoFile]
      /\ outcome = [u \in Tenants |-> "none"]
  BY DEF Init
<1>2. Whole(NoFile)
  <2>1. CampaignTold(NoFile) = NoCampaign
    BY NoFileIs, EmptyIs DEF CampaignTold
  <2>2. QED
    BY <2>1, NoFileIs, EmptyIs DEF Whole, Forgetful
<1>3. \A r \in Requests : Reading(request[r]) /\ Importing(request[r])
  BY <1>1, IdleHasNothing
<1>4. \A t \in Tenants : Imported(t)
  BY <1>1, <1>2 DEF Imported
<1>5. QED
  BY <1>1, <1>2, <1>3, <1>4, IdleIs DEF Transfers

LEMMA TransfersAlways ==
  ASSUME IsFiniteSet(Clients)
  PROVE  Spec => [](Shape /\ Transfers)
<1>1. Init => Shape /\ Transfers
  BY ShapeInit, TransfersInit
<1>2. (Shape /\ Transfers) /\ [Next]_vars => (Shape /\ Transfers)'
  BY ShapeStays, TransfersStay
<1>3. QED
  BY <1>1, <1>2, PTL DEF Spec

\* An export during which nothing was changed and no table could not be read,
\* imported without an error, brings the tenant back, however many requests
\* export, import, edit and delete tenants at the same time, and also when what
\* is exported is itself the result of an import (handleExport,
\* ImportTenantConfig).
THEOREM TenantsComeBack ==
  ASSUME IsFiniteSet(Clients)
  PROVE  Spec => []RoundTrip
<1>1. Shape /\ Transfers => RoundTrip
  <2> SUFFICES ASSUME Shape, Transfers,
                      NEW t \in made, Exists(t), outcome[t] = "done",
                      t \notin edited, origin[t].sound
               PROVE  /\ Restores(rows[t], origin[t].source, origin[t].mode)
                      /\ rows[t].open = origin[t].source.open \/ faults > 0
    BY DEF RoundTrip
  <2>1. t \in Tenants /\ origin[t] \in Files /\ rows[t] \in Tables
    BY DEF Shape, TenantsFit, TablesFit
  <2>2. /\ Whole(origin[t]) /\ Opened(rows[t], origin[t], {})
        /\ Progress(rows[t], origin[t], {}, None)
    BY <2>1 DEF Transfers, Imported, Untroubled
  <2>3. QED
    BY <2>1, <2>2, AllIsBack
<1>2. QED
  BY <1>1, TransfersAlways, PTL

\* An import that has created its tenant is refused only for what its file says,
\* for a client whose id is in use, for an export that others disturbed, or
\* because others changed what it was making, whichever requests are under way
\* (ImportTenantConfig).
THEOREM RefusalsHaveReasons ==
  ASSUME IsFiniteSet(Clients)
  PROVE  Spec => RefusedForAReason
<1>1. ASSUME Shape, Transfers, [Next]_vars, NEW t \in Tenants, IsRefused(t),
             ~Disputed(t), Importable(origin[t])
      PROVE  FALSE
  <2>1. PICK r \in Requests : Refused(r) /\ request[r].job = "import"
                                         /\ request[r].tenant = t
    <3>1. outcome[t] = "running" /\ outcome'[t] = "refused"
          /\ outcome \in [Tenants -> {"none", "running", "done", "refused", "broken"}]
      BY <1>1 DEF IsRefused, Shape, TenantsFit
    <3>2. ASSUME NEW r \in Requests, Refused(r)
          PROVE  request[r].job = "import" /\ request[r].tenant = t
      BY <3>1, <3>2 DEF Refused
    <3>3. ASSUME NEW r \in Requests
          PROVE  ~FinishImport(r) /\ ~Fail(r)
      BY <3>1 DEF FinishImport, Fail
    <3>4. ASSUME NEW r \in Requests, NEW u \in Tenants
          PROVE  ~CreateTenant(r, u)
      BY <3>1 DEF CreateTenant
    <3>5. outcome' # outcome
      BY <3>1
    <3>6. QED
      <4>1. ASSUME NEW r \in Requests, NEW u \in Tenants,
                   NEW mode \in {"seed", "migration"}
            PROVE  ~StartExport(r, u, mode)
        BY <3>5 DEF StartExport, observers
      <4>2. ASSUME NEW r \in Requests, NEW row \in request[r].todo
            PROVE  ~ReadPart(r, row) /\ ~ImportRow(r, row)
        BY <3>5 DEF ReadPart, ImportRow, observers
      <4>3. ASSUME NEW r \in Requests, NEW s \in Slugs
            PROVE  ~StartImport(r, s)
        BY <3>5 DEF StartImport, observers
      <4>4. ASSUME NEW r \in Requests, NEW u \in Tenants
            PROVE  ~StartEdit(r, u) /\ ~DeleteTenant(u)
        BY <3>5 DEF StartEdit, DeleteTenant, observers
      <4>5. ASSUME NEW r \in Requests
            PROVE  ~FinishExport(r) /\ ~SetRegistration(r) /\ ~MakeMember(r)
                   /\ ~Edit(r)
        BY <3>5 DEF FinishExport, SetRegistration, MakeMember, Edit, observers
      <4>6. ASSUME NEW u \in Tenants PROVE ~DeleteTenant(u)
        BY <3>5 DEF DeleteTenant
      <4>7. ~UNCHANGED vars
        BY <3>5 DEF vars, observers
      <4>8. \E r \in Requests : Refused(r)
        BY <1>1, <3>3, <3>4, <4>1, <4>2, <4>3, <4>4, <4>5, <4>6, <4>7 DEF Next
      <4>9. QED
        BY <3>2, <4>8
  <2>2. PICK q \in Locals, f \in Files : q = request[r] /\ f = q.file
    BY <1>1, RequestIs
  <2>3. Importing(q) /\ f = origin[t] /\ q.job = "import" /\ q.tenant = t
    BY <1>1, <2>1, <2>2 DEF Transfers, Importing
  <2>4. /\ Untroubled(t)
        /\ f.mode = "migration" =>
             \A u \in Tenants \ {t} : rows[u].clients \cap f.rows.clients = {}
    BY <1>1, <2>3 DEF Disputed, Untroubled
  <2>5. CASE q.user = None
    <3>1. PICK row \in q.todo :
            /\ row.part # "open" /\ Due(r, row)
            /\ ~Accepted(r, row) \/ Dangling(r, row)
      BY <2>1, <2>2, <2>5 DEF Refused
    <3>2. Accepted(r, row)
      BY <1>1, <2>1, <2>2, <2>3, <2>4, <2>5, <3>1, RowIsAccepted
    <3>3. QED
      BY <1>1, <2>1, <2>2, <2>3, <2>4, <2>5, <3>1, <3>2, NothingDangles
  <2>6. CASE q.user # None
    <3>1. rows[t].users[q.user] = None
      BY <2>1, <2>2, <2>6 DEF Refused
    <3>2. q.user \in People /\ Row("users", q.user) \notin q.todo
      BY <2>3, <2>6 DEF Importing, Locals
    <3>3. rows[t].users[q.user] = "user"
      BY <2>3, <2>4, <3>2 DEF Importing, Progress
    <3>4. QED
      BY <3>1, <3>3, BeginningsAssumption DEF Roles
  <2>7. QED
    BY <2>5, <2>6
<1>2. Shape /\ Transfers /\ [Next]_vars =>
        [\A t \in Tenants : IsRefused(t) => Disputed(t) \/ ~Importable(origin[t])]_vars
  BY <1>1
<1>3. QED
  BY <1>2, TransfersAlways, PTL DEF Spec, RefusedForAReason
=============================================================================
