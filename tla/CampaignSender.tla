--------------------------- MODULE CampaignSender ---------------------------
(***************************************************************************)
(* Email marketing of one tenant: contacts, segments and campaigns in      *)
(* SQLite, the admin and public HTTP handlers that change them, and the    *)
(* one worker goroutine that sends the campaigns of a bounded queue        *)
(* (backend/marketing/{store,handlers,sender}.go).                         *)
(*                                                                         *)
(* One database statement, or one transaction, is one step.  A handler     *)
(* that reads a campaign and then acts on what it read is two steps, and   *)
(* the worker's processCampaign one step per statement or mail, so that    *)
(* requests and the worker interleave as they do in the program.           *)
(*                                                                         *)
(* Operators named Buggy... are variants with a planted mistake; nothing    *)
(* uses them except the mutation check of the properties.                  *)
(*                                                                         *)
(* A deleted row keeps its last values in status, text and target with     *)
(* row[c] = "gone": nothing reads them, and the row never comes back       *)
(* because its id is a fresh UUID.                                         *)
(***************************************************************************)
EXTENDS Naturals, Sequences, FiniteSets

CONSTANTS
  Campaigns, Contacts, Segments,
  Requests,        \* admin requests the server handles at the same time
  None,            \* no campaign, no contact
  QueueCapacity,   \* slots of the send queue (100 in the code)
  FkModes,         \* {TRUE}: every pooled connection enforces foreign keys;
                   \* BOOLEAN: only the one openDB ran the pragma on
  MaxEdits,        \* bound on committed campaign updates, per campaign
  MaxFaults,       \* bound on failed database calls of the worker
  MaxCrashes       \* bound on restarts of the process

ASSUME SenderAssumption ==
  /\ None \notin Campaigns \cup Contacts
  /\ QueueCapacity \in Nat \ {0}
  /\ FkModes \subseteq BOOLEAN /\ FkModes # {}
  /\ MaxEdits \in Nat /\ MaxFaults \in Nat /\ MaxCrashes \in Nat

VARIABLES
  tenant,     \* the tenant row exists
  contact,    \* contact[k]: the contacts row
  segment,    \* segment[s]: the segments row
  member,     \* contact_segments
  row,        \* row[c]: is there a campaigns row
  status,     \* status[c], text[c] (subject and body), target[c]
  text,       \*   (campaign_segments) of that row
  target,
  recipient,  \* recipient[c][k]: status of the campaign_recipients row
  opened,     \* the recipient rows whose opened_at is set
  queue,      \* CampaignSender.queue
  worker,     \* locals of processCampaign
  request,    \* locals of the admin handlers between read and write
  mails,      \* mails[c][k]: mails of c the mail server took for k
  faults, crashes

audienceVars == <<tenant, contact, segment, member>>
campaignVars == <<row, status, text, target>>
deliveryVars == <<recipient, opened, mails>>
processVars == <<queue, worker, request>>
boundVars == <<faults, crashes>>
vars == <<audienceVars, campaignVars, deliveryVars, processVars, boundVars>>

Statuses == {"draft", "sending", "sent", "failed"}
RowStates == {"none", "live", "gone"}

Idle == [pc |-> "idle", campaign |-> None, todo |-> {},
         contact |-> None, outcome |-> "sent", allSuccess |-> TRUE]
NoRequest == [op |-> "idle", campaign |-> None, target |-> {}]

Busy ==
  [pc : {"load", "mark", "attach", "prepare", "list", "send", "record",
         "abort"},
   campaign : Campaigns, todo : SUBSET Contacts,
   contact : Contacts \cup {None},
   outcome : {"sent", "failed"}, allSuccess : BOOLEAN]
Workers == {Idle} \cup Busy
AdminRequests ==
  {NoRequest} \cup
  [op : {"enqueue", "update", "delete"}, campaign : Campaigns,
   target : SUBSET Segments]

TypeOK ==
  /\ tenant \in BOOLEAN
  /\ contact \in [Contacts -> {"none", "subscribed", "unsubscribed", "gone"}]
  /\ segment \in [Segments -> RowStates]
  /\ member \in SUBSET (Contacts \X Segments)
  /\ row \in [Campaigns -> RowStates]
  /\ status \in [Campaigns -> Statuses]
  /\ text \in [Campaigns -> 0..MaxEdits]
  /\ target \in [Campaigns -> SUBSET Segments]
  /\ recipient \in [Campaigns ->
                     [Contacts -> {"none", "queued", "sent", "failed"}]]
  /\ opened \in SUBSET (Campaigns \X Contacts)
  /\ mails \in [Campaigns -> [Contacts -> Nat]]
  /\ queue \in Seq(Campaigns)
  /\ worker \in Workers
  /\ request \in [Requests -> AdminRequests]
  /\ faults \in 0..MaxFaults
  /\ crashes \in 0..MaxCrashes

Init ==
  /\ tenant = TRUE
  /\ contact = [k \in Contacts |-> "none"]
  /\ segment = [s \in Segments |-> "none"]
  /\ member = {}
  /\ row = [c \in Campaigns |-> "none"]
  /\ status = [c \in Campaigns |-> "draft"]
  /\ text = [c \in Campaigns |-> 0]
  /\ target = [c \in Campaigns |-> {}]
  /\ recipient = [c \in Campaigns |-> [k \in Contacts |-> "none"]]
  /\ opened = {}
  /\ mails = [c \in Campaigns |-> [k \in Contacts |-> 0]]
  /\ queue = <<>>
  /\ worker = Idle
  /\ request = [r \in Requests |-> NoRequest]
  /\ faults = 0
  /\ crashes = 0

Exists(k) == contact[k] \in {"subscribed", "unsubscribed"}
LiveSegments == {s \in Segments : segment[s] = "live"}
Draft(c) == row[c] = "live" /\ status[c] = "draft"

(***************************************************************************)
(* Contacts and segments.  fk says whether the connection the pool picked  *)
(* enforces foreign keys: if so, dangling references are refused and       *)
(* deletes cascade; if not, neither happens.                               *)
(***************************************************************************)
\* One INSERT OR IGNORE per contact, in one transaction.
ImportContacts(K) ==
  /\ tenant
  /\ contact' = [k \in Contacts |-> IF k \in K /\ contact[k] = "none"
                                    THEN "subscribed" ELSE contact[k]]
  /\ UNCHANGED <<tenant, segment, member, campaignVars, deliveryVars,
                 processVars, boundVars>>

\* An address that is taken is refused with 409.
CreateContact(k) == contact[k] = "none" /\ ImportContacts({k})

CreateSegment(s) ==
  /\ tenant /\ segment[s] = "none"
  /\ segment' = [segment EXCEPT ![s] = "live"]
  /\ UNCHANGED <<tenant, contact, member, campaignVars, deliveryVars,
                 processVars, boundVars>>

AddContactToSegment(k, s, fk) ==
  /\ tenant /\ contact[k] # "none" /\ segment[s] # "none"
  /\ fk => Exists(k) /\ segment[s] = "live"
  /\ member' = member \cup {<<k, s>>}
  /\ UNCHANGED <<tenant, contact, segment, campaignVars, deliveryVars,
                 processVars, boundVars>>

RemoveContactFromSegment(k, s) ==
  /\ tenant /\ <<k, s>> \in member
  /\ member' = member \ {<<k, s>>}
  /\ UNCHANGED <<tenant, contact, segment, campaignVars, deliveryVars,
                 processVars, boundVars>>

\* campaign_recipients references contacts without ON DELETE CASCADE, so an
\* enforcing connection refuses to delete a contact a campaign was prepared
\* for.
DeleteContact(k, fk) ==
  /\ tenant /\ Exists(k)
  /\ fk => \A c \in Campaigns : recipient[c][k] = "none"
  /\ contact' = [contact EXCEPT ![k] = "gone"]
  /\ member' = IF fk THEN member \ ({k} \X Segments) ELSE member
  /\ UNCHANGED <<tenant, segment, campaignVars, deliveryVars, processVars,
                 boundVars>>

DeleteSegment(s, fk) ==
  /\ tenant /\ segment[s] = "live"
  /\ segment' = [segment EXCEPT ![s] = "gone"]
  /\ member' = IF fk THEN member \ (Contacts \X {s}) ELSE member
  /\ target' = [c \in Campaigns |-> IF fk THEN target[c] \ {s} ELSE target[c]]
  /\ UNCHANGED <<tenant, contact, row, status, text, deliveryVars,
                 processVars, boundVars>>

\* The public unsubscribe form; there is no way back.
Unsubscribe(k) ==
  /\ tenant /\ Exists(k)
  /\ contact' = [contact EXCEPT ![k] = "unsubscribed"]
  /\ UNCHANGED <<tenant, segment, member, campaignVars, deliveryVars,
                 processVars, boundVars>>

\* The tracking pixel.  Its URL carries the recipient id, which only a mail
\* tells; of several opens the first is kept.
RecordOpen(c, k) ==
  /\ tenant /\ mails[c][k] > 0 /\ recipient[c][k] # "none"
  /\ opened' = opened \cup {<<c, k>>}
  /\ UNCHANGED <<audienceVars, campaignVars, recipient, mails, processVars,
                 boundVars>>

(***************************************************************************)
(* Campaigns: the admin handlers.  Update, Delete and Send read the        *)
(* campaign first, refuse all but drafts, and act in a later step.         *)
(***************************************************************************)
CreateCampaign(c, T, fk) ==
  /\ tenant /\ row[c] = "none"
  /\ T \subseteq (IF fk THEN LiveSegments
                  ELSE {s \in Segments : segment[s] # "none"})
  /\ row' = [row EXCEPT ![c] = "live"]
  /\ target' = [target EXCEPT ![c] = T]
  /\ UNCHANGED <<audienceVars, status, text, deliveryVars, processVars,
                 boundVars>>

ReadDraft(r, op, c, T) ==
  /\ tenant /\ request[r].op = "idle"
  /\ Draft(c)
  /\ request' = [request EXCEPT ![r] = [op |-> op, campaign |-> c,
                                        target |-> T]]
  /\ UNCHANGED <<audienceVars, campaignVars, deliveryVars, queue, worker,
                 boundVars>>

SendRead(r, c) == ReadDraft(r, "enqueue", c, {})
UpdateRead(r, c, T) ==
  /\ \A s \in T : segment[s] # "none"
  /\ ReadDraft(r, "update", c, T)
DeleteRead(r, c) == ReadDraft(r, "delete", c, {})

\* Blocks while the queue is full; then the handler answers 202 "sending".
Enqueue(r) ==
  /\ request[r].op = "enqueue"
  /\ Len(queue) < QueueCapacity
  /\ queue' = Append(queue, request[r].campaign)
  /\ request' = [request EXCEPT ![r] = NoRequest]
  /\ UNCHANGED <<audienceVars, campaignVars, deliveryVars, worker, boundVars>>

\* The transaction of UpdateCampaign: it repeats neither the status check nor
\* the lookup.  A dangling segment or campaign makes an enforcing connection
\* roll back.
UpdateWrite(r, fk) ==
  LET c == request[r].campaign
      T == request[r].target
      commits == fk => T \subseteq LiveSegments /\ (T = {} \/ row[c] = "live")
  IN /\ request[r].op = "update"
     /\ row[c] = "live" => text[c] < MaxEdits
     /\ text' = IF commits /\ row[c] = "live"
                THEN [text EXCEPT ![c] = @ + 1] ELSE text
     /\ target' = IF commits THEN [target EXCEPT ![c] = T] ELSE target
     /\ request' = [request EXCEPT ![r] = NoRequest]
     /\ UNCHANGED <<audienceVars, row, status, deliveryVars, queue, worker,
                    boundVars>>

\* DELETE FROM campaigns for the campaigns C: an enforcing connection also
\* drops their segments and recipients.
RemoveCampaigns(C, fk) ==
  LET D == {c \in C : row[c] = "live"}
      dropped == IF fk THEN D ELSE {}
  IN /\ row' = [c \in Campaigns |-> IF c \in D THEN "gone" ELSE row[c]]
     /\ target' = [c \in Campaigns |->
                     IF c \in dropped THEN {} ELSE target[c]]
     /\ recipient' = [c \in Campaigns |-> [k \in Contacts |->
                        IF c \in dropped THEN "none" ELSE recipient[c][k]]]
     /\ opened' = opened \ (dropped \X Contacts)
     /\ UNCHANGED <<status, text, mails>>

DeleteWrite(r, fk) ==
  /\ request[r].op = "delete"
  /\ RemoveCampaigns({request[r].campaign}, fk)
  /\ request' = [request EXCEPT ![r] = NoRequest]
  /\ UNCHANGED <<audienceVars, queue, worker, boundVars>>

\* tenant.Store.Delete: campaigns, contacts, segments and the tenant in one
\* transaction.  A recipient row that outlived its campaign makes an enforcing
\* connection refuse the contact, and the transaction rolls back.
DeleteTenant(fk) ==
  /\ tenant
  /\ fk => \A c \in Campaigns, k \in Contacts :
             recipient[c][k] # "none" => row[c] = "live" \/ ~Exists(k)
  /\ tenant' = FALSE
  /\ RemoveCampaigns(Campaigns, fk)
  /\ contact' = [k \in Contacts |-> IF Exists(k) THEN "gone" ELSE contact[k]]
  /\ segment' = [s \in Segments |->
                   IF segment[s] = "live" THEN "gone" ELSE segment[s]]
  /\ member' = {m \in member : ~fk}
  /\ UNCHANGED <<processVars, boundVars>>

(***************************************************************************)
(* The worker: Start's loop over the queue and processCampaign.            *)
(***************************************************************************)
Goto(pc) == worker' = [worker EXCEPT !.pc = pc]

\* A database call of the worker returns an error.
Fault == faults < MaxFaults /\ faults' = faults + 1 /\ UNCHANGED crashes

\* SetCampaignStatus, an UPDATE by id: no effect on a row that is gone.
\* Callers other than Mark ignore its error.
WriteStatus(c, s) ==
  /\ status' = IF row[c] = "live" THEN [status EXCEPT ![c] = s] ELSE status
  /\ UNCHANGED boundVars

Take ==
  /\ worker.pc = "idle" /\ queue # <<>>
  /\ worker' = [Idle EXCEPT !.pc = "load", !.campaign = Head(queue)]
  /\ queue' = Tail(queue)
  /\ UNCHANGED <<audienceVars, campaignVars, deliveryVars, request, boundVars>>

\* Mutant: the status check of processCampaign is missing.
BuggyLoadAny ==
  /\ worker.pc = "load"
  /\ \/ /\ row[worker.campaign] = "live"
        /\ Goto("mark") /\ UNCHANGED boundVars
     \/ row[worker.campaign] # "live" /\ worker' = Idle /\ UNCHANGED boundVars
     \/ Fault /\ worker' = Idle
  /\ UNCHANGED <<audienceVars, campaignVars, deliveryVars, queue, request>>

\* Mutant: a campaign that is not a draft ends the goroutine, not the call.
BuggyLoadEndsWorker ==
  /\ worker.pc = "load"
  /\ \/ Draft(worker.campaign) /\ Goto("mark") /\ UNCHANGED boundVars
     \/ ~Draft(worker.campaign) /\ Goto("ended") /\ UNCHANGED boundVars
     \/ Fault /\ worker' = Idle
  /\ UNCHANGED <<audienceVars, campaignVars, deliveryVars, queue, request>>

\* GetCampaignByID; anything but a draft is skipped.
Load ==
  /\ worker.pc = "load"
  /\ \/ /\ Draft(worker.campaign)
        /\ Goto("mark")
        /\ UNCHANGED boundVars
     \/ ~Draft(worker.campaign) /\ worker' = Idle /\ UNCHANGED boundVars
     \/ Fault /\ worker' = Idle
  /\ UNCHANGED <<audienceVars, campaignVars, deliveryVars, queue, request>>

Mark ==
  /\ worker.pc = "mark"
  /\ \/ WriteStatus(worker.campaign, "sending") /\ Goto("attach")
     \/ Fault /\ worker' = Idle /\ UNCHANGED status
  /\ UNCHANGED <<audienceVars, row, text, target, deliveryVars, queue, request>>

\* Mutant: an attachment error returns without a final status.
BuggyFetchAttachment ==
  /\ worker.pc = "attach"
  /\ Goto("prepare") \/ worker' = Idle
  /\ UNCHANGED <<audienceVars, campaignVars, deliveryVars, queue, request,
                 boundVars>>

\* fetchAttachment, if the campaign has one: refused URLs, errors and the
\* 30 s timeout fail the campaign.
FetchAttachment ==
  /\ worker.pc = "attach"
  /\ Goto("prepare") \/ Goto("abort")
  /\ UNCHANGED <<audienceVars, campaignVars, deliveryVars, queue, request,
                 boundVars>>

\* Mutant: the query lacks unsubscribed = 0.
BuggyAudience(c) ==
  {k \in Contacts : Exists(k) /\ \E s \in target[c] : <<k, s>> \in member}

Audience(c) ==
  {k \in Contacts : /\ contact[k] = "subscribed"
                    /\ \E s \in target[c] : <<k, s>> \in member}

\* Mutant: the recipients get a status the statistics do not know.
BuggyPrepare(fk) ==
  LET c == worker.campaign
  IN /\ worker.pc = "prepare"
     /\ recipient' = [recipient EXCEPT ![c] =
          [k \in Contacts |-> IF k \in Audience(c) /\ @[k] = "none"
                              THEN "pending" ELSE @[k]]]
     /\ Goto("list")
     /\ UNCHANGED <<audienceVars, campaignVars, opened, mails, queue, request,
                    boundVars>>

\* PrepareCampaignRecipients, one transaction.
Prepare(fk) ==
  LET c == worker.campaign
      refused == fk /\ row[c] # "live" /\ Audience(c) # {}
  IN /\ worker.pc = "prepare"
     /\ \/ /\ ~refused
           /\ recipient' = [recipient EXCEPT ![c] =
                [k \in Contacts |-> IF k \in Audience(c) /\ @[k] = "none"
                                    THEN "queued" ELSE @[k]]]
           /\ Goto("list")
           /\ UNCHANGED boundVars
        \/ refused /\ Goto("abort") /\ UNCHANGED <<recipient, boundVars>>
        \/ Fault /\ Goto("abort") /\ UNCHANGED recipient
     /\ UNCHANGED <<audienceVars, campaignVars, opened, mails, queue, request>>

\* Mutant: the audience is read again, not the recipient rows.
BuggyListRecipients ==
  LET c == worker.campaign
  IN /\ worker.pc = "list"
     /\ worker' = [worker EXCEPT !.pc = "send", !.todo = Audience(c)]
     /\ UNCHANGED <<audienceVars, campaignVars, deliveryVars, queue, request,
                    boundVars>>

\* Mutant: the recipient rows only, not joined with what they refer to.
BuggyListUnjoined ==
  LET c == worker.campaign
  IN /\ worker.pc = "list"
     /\ worker' = [worker EXCEPT !.pc = "send",
                     !.todo = {k \in Contacts : recipient[c][k] # "none"}]
     /\ UNCHANGED <<audienceVars, campaignVars, deliveryVars, queue, request,
                    boundVars>>

\* GetCampaignRecipients: the recipients whose contact and campaign rows
\* still exist.  Whatever they become later, these are mailed.
ListRecipients ==
  LET c == worker.campaign
  IN /\ worker.pc = "list"
     /\ \/ /\ worker' = [worker EXCEPT !.pc = "send", !.todo =
                {k \in Contacts : /\ row[c] = "live" /\ Exists(k)
                                  /\ recipient[c][k] # "none"}]
           /\ UNCHANGED boundVars
        \/ Fault /\ Goto("abort")
     /\ UNCHANGED <<audienceVars, campaignVars, deliveryVars, queue, request>>

\* mailer.Send to k: taken, refused, or taken although an error came back.
SendMail(k) ==
  LET c == worker.campaign
  IN /\ worker.pc = "send" /\ k \in worker.todo
     /\ \E taken \in BOOLEAN, outcome \in {"sent", "failed"} :
          /\ outcome = "sent" => taken
          /\ mails' = IF taken THEN [mails EXCEPT ![c][k] = @ + 1] ELSE mails
          /\ worker' = [worker EXCEPT
               !.pc = "record", !.todo = @ \ {k}, !.contact = k,
               !.outcome = outcome,
               !.allSuccess = @ /\ outcome = "sent"]
     /\ UNCHANGED <<audienceVars, campaignVars, recipient, opened, queue,
                    request, boundVars>>

\* UpdateRecipientStatus; opened_at is left alone, an error is ignored.
RecordOutcome ==
  LET c == worker.campaign
      k == worker.contact
  IN /\ worker.pc = "record"
     /\ \/ /\ recipient' = IF recipient[c][k] # "none"
                           THEN [recipient EXCEPT ![c][k] = worker.outcome]
                           ELSE recipient
           /\ UNCHANGED boundVars
        \/ Fault /\ UNCHANGED recipient
     /\ worker' = [worker EXCEPT !.pc = "send", !.contact = None,
                                 !.outcome = "sent"]
     /\ UNCHANGED <<audienceVars, campaignVars, opened, mails, queue, request>>

\* Mutant: allSuccess is ignored.
BuggyFinalSent == IF worker.pc = "send" THEN "sent" ELSE "failed"

\* Mutant: a failed campaign goes back to draft so that it can be sent again.
BuggyFinalDraft ==
  IF worker.pc = "send" /\ worker.allSuccess THEN "sent" ELSE "draft"

FinalStatus ==
  IF worker.pc = "send" /\ worker.allSuccess THEN "sent" ELSE "failed"

\* The last status: after the loop, or after an attachment, prepare or list
\* error.
Finish ==
  /\ \/ worker.pc = "send" /\ worker.todo = {}
     \/ worker.pc = "abort"
  /\ \/ WriteStatus(worker.campaign, FinalStatus)
     \/ Fault /\ UNCHANGED status
  /\ worker' = Idle
  /\ UNCHANGED <<audienceVars, row, text, target, deliveryVars, queue, request>>

\* The process stops and starts again: the database stays, the rest is lost.
\* Nothing at startup looks at unfinished campaigns.
Crash ==
  /\ crashes < MaxCrashes
  /\ crashes' = crashes + 1
  /\ queue' = <<>>
  /\ worker' = Idle
  /\ request' = [r \in Requests |-> NoRequest]
  /\ UNCHANGED <<audienceVars, campaignVars, deliveryVars, faults>>

WorkerStep ==
  \/ Take \/ Load \/ Mark \/ FetchAttachment
  \/ \E fk \in FkModes : Prepare(fk)
  \/ ListRecipients
  \/ \E k \in Contacts : SendMail(k)
  \/ RecordOutcome \/ Finish

AudienceStep ==
  \/ \E K \in SUBSET Contacts : ImportContacts(K)
  \/ \E s \in Segments : CreateSegment(s)
  \/ \E k \in Contacts, s \in Segments :
       \/ \E fk \in FkModes : AddContactToSegment(k, s, fk)
       \/ RemoveContactFromSegment(k, s)
  \/ \E fk \in FkModes :
       \/ \E k \in Contacts : DeleteContact(k, fk)
       \/ \E s \in Segments : DeleteSegment(s, fk)
       \/ DeleteTenant(fk)
  \/ \E k \in Contacts : CreateContact(k) \/ Unsubscribe(k)
  \/ \E c \in Campaigns, k \in Contacts : RecordOpen(c, k)

AdminStep ==
  \/ \E c \in Campaigns, T \in SUBSET Segments, fk \in FkModes :
       CreateCampaign(c, T, fk)
  \/ \E r \in Requests, c \in Campaigns :
       \/ SendRead(r, c)
       \/ DeleteRead(r, c)
       \/ \E T \in SUBSET Segments : UpdateRead(r, c, T)
  \/ \E r \in Requests :
       \/ Enqueue(r)
       \/ \E fk \in FkModes : UpdateWrite(r, fk) \/ DeleteWrite(r, fk)

Next == WorkerStep \/ AudienceStep \/ AdminStep \/ Crash

\* The worker goroutine is scheduled and every call it makes returns, so it
\* never stops for good; a handler blocked in Enqueue gets a slot when slots
\* keep coming free (a channel serves its waiting senders in order).  Clients,
\* faults and crashes are not owed to anybody.
Fairness ==
  /\ WF_vars(WorkerStep)
  /\ \A r \in Requests : SF_vars(Enqueue(r))

Spec == Init /\ [][Next]_vars /\ Fairness
-----------------------------------------------------------------------------
(***************************************************************************)
(* What the component gets right.                                          *)
(***************************************************************************)
\* No contact gets two mails of one campaign: not through a campaign that is
\* enqueued twice, an edit or delete that races the worker, a mail server that
\* takes a mail and reports an error, or a restart (processCampaign).
MailedAtMostOnce == \A c \in Campaigns, k \in Contacts : mails[c][k] <= 1

\* The statistics never claim a delivery that did not happen: a recipient
\* recorded as sent was mailed; when a campaign is "sent" every recipient that
\* still has a contact was mailed and, unless a database call failed, is
\* recorded so (processCampaign, UpdateRecipientStatus).
SentMeansDelivered ==
  \A c \in Campaigns, k \in Contacts :
    /\ recipient[c][k] = "sent" => mails[c][k] = 1
    /\ /\ row[c] = "live" /\ status[c] = "sent"
       /\ recipient[c][k] # "none" /\ Exists(k)
       => mails[c][k] = 1 /\ (faults = 0 => recipient[c][k] = "sent")

\* While a campaign exists, each mail that left for it has its recipient row,
\* so the tracking pixel and the statistics can find it.
MailsAreAccounted ==
  \A c \in Campaigns, k \in Contacts :
    mails[c][k] > 0 /\ row[c] = "live" => recipient[c][k] # "none"

Untouched(c, k) == mails[c][k] = 0 /\ recipient[c][k] \in {"none", "queued"}

DraftsUntouched ==
  \A c \in Campaigns, k \in Contacts : status[c] = "draft" => Untouched(c, k)

HeldCampaign ==
  LET c == worker.campaign
  IN /\ worker.pc = "mark" => row[c] # "none" /\ status[c] = "draft"
     /\ worker.pc \in {"attach", "prepare", "list", "send", "record", "abort"}
          => row[c] = "gone" \/ status[c] = "sending"

TodoUntouched ==
  LET c == worker.campaign
  IN /\ worker.pc \in {"attach", "prepare", "list"} =>
          \A k \in Contacts : Untouched(c, k)
     /\ \A k \in worker.todo : status[c] = "sending" /\ Untouched(c, k)
     /\ worker.pc = "record" =>
          /\ status[c] = "sending"
          /\ worker.contact \in Contacts \ worker.todo
          /\ recipient[c][worker.contact] \in {"none", "queued"}

\* What makes all this work: a draft has mailed nobody; the campaign the
\* worker holds is the draft it read until Mark, and from then on "sending"
\* unless its row is deleted, because nothing but the worker writes a status;
\* and whoever is still to be mailed was not mailed and has no outcome.
WorkerOwnsCampaign == DraftsUntouched /\ HeldCampaign /\ TodoUntouched

\* A contact or a campaign that is deleted is not mailed any more, unless the
\* worker was already working off the list it is on; rows that refer to it and
\* outlive it, where a connection does not enforce foreign keys, bring no mail
\* about (GetCampaignRecipients).
Deleted(c, k) == row[c] = "gone" \/ contact[k] = "gone"
Listed(c, k) == worker.campaign = c /\ k \in worker.todo
DeletedIsNotMailed ==
  [][\A c \in Campaigns, k \in Contacts :
       Deleted(c, k) /\ ~Listed(c, k) =>
         ~Listed(c, k)' /\ mails'[c][k] = mails[c][k]]_vars

\* What the worker recorded for a recipient is never recorded differently.
OutcomeIsFinal ==
  [][\A c \in Campaigns, k \in Contacts :
       recipient[c][k] \in {"sent", "failed"} =>
         recipient'[c][k] \in {recipient[c][k], "none"}]_vars

\* Whoever unsubscribes while a campaign is a draft gets no mail of it, however
\* close the form and the worker come (PrepareCampaignRecipients).
UnsubscribedBeforeSending ==
  \A c \in Campaigns, k \in Contacts :
    [](contact[k] = "unsubscribed" /\ Draft(c) => [](mails[c][k] = 0))

\* The component implements the abstract life of a campaign.
Lifecycle == INSTANCE CampaignLifecycle WITH phase <- status
LifecycleSpec == Lifecycle!Spec

\* A campaign in the queue is sent, failed or deleted in the end, unless a
\* database call of the worker failed or the process was restarted.
Settled(c) == row[c] = "gone" \/ status[c] \in {"sent", "failed"}
Queued(c) == \E i \in 1..Len(queue) : queue[i] = c
QueuedIsProcessed ==
  \A c \in Campaigns :
    Queued(c) ~> Settled(c) \/ faults > 0 \/ crashes > 0

\* A send handler that waits for a slot of a full queue gets to answer, also
\* across faults and restarts (Enqueue).
SendHandlerReturns ==
  \A r \in Requests :
    request[r].op = "enqueue" ~> request[r].op # "enqueue"

(***************************************************************************)
(* What documents or messages say and the code does not keep.              *)
(***************************************************************************)
\* Only drafts are updated or deleted, other than with the whole tenant.
OnlyDraftsChange ==
  [][\A c \in Campaigns :
       \/ text'[c] # text[c]
       \/ row[c] = "live" /\ row'[c] = "gone" /\ tenant'
       => status[c] = "draft"]_vars

\* A campaign accepted for sending is sent, or failed or deleted.
AcceptedIsProcessed == \A c \in Campaigns : Queued(c) ~> Settled(c)
=============================================================================
