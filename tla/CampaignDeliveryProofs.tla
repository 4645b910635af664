----------------------- MODULE CampaignDeliveryProofs -----------------------
(***************************************************************************)
(* Proofs about what CampaignSender records of its mails, and about whom   *)
(* it does not mail: who unsubscribed in time, and who was deleted.        *)
(* CampaignSenderProofs says that nobody is mailed twice.                  *)
(***************************************************************************)
EXTENDS CampaignSenderProofs

\* Before a campaign has a row, nothing is written about it.
UnbornUntouched ==
  \A c \in Campaigns, k \in Contacts :
    row[c] = "none" => status[c] = "draft" /\ recipient[c][k] = "none"

\* A draft has no recipients: PrepareCampaignRecipients comes after Mark.
DraftsUnprepared ==
  \A c \in Campaigns, k \in Contacts : Draft(c) => recipient[c][k] = "none"

RecipientsKnown ==
  \A c \in Campaigns, k \in Contacts :
    recipient[c][k] # "none" => contact[k] # "none"

\* Whoever is to be mailed was listed, and has a row unless the campaign lost
\* its own.
TodoListed ==
  LET c == worker.campaign
  IN \A k \in worker.todo : row[c] = "live" => recipient[c][k] # "none"

\* The mailer's answer that is about to be recorded.
OutcomeTrue ==
  worker.pc = "record" =>
    /\ worker.outcome = "sent" => mails[worker.campaign][worker.contact] = 1
    /\ worker.allSuccess => worker.outcome = "sent"

Delivered(c, k) ==
  mails[c][k] = 1 /\ (faults = 0 => recipient[c][k] = "sent")

\* As long as all went well, a recipient is still to be mailed, or its mail is
\* to be recorded, or both is done.
LoopCovers ==
  LET c == worker.campaign
  IN worker.pc \in {"send", "record"} /\ worker.allSuccess /\ row[c] = "live" =>
       \A k \in Contacts : recipient[c][k] # "none" /\ Exists(k) =>
         \/ k \in worker.todo
         \/ worker.pc = "record" /\ k = worker.contact
         \/ Delivered(c, k)

Records ==
  /\ UnbornUntouched /\ DraftsUnprepared /\ RecipientsKnown
  /\ TodoListed /\ OutcomeTrue /\ LoopCovers
  /\ MailsAreAccounted /\ SentMeansDelivered

Owned == TypeOK /\ WorkerOwnsCampaign
-----------------------------------------------------------------------------
(* The worker's locals. *)

LEMMA WorkerLocals ==
  ASSUME TypeOK
  PROVE  /\ worker.todo \in SUBSET Contacts
         /\ worker.pc = "idle" => worker = Idle /\ worker.todo = {}
         /\ worker.pc # "idle" => worker \in Busy /\ worker.campaign \in Campaigns
BY DEF TypeOK, Workers, Busy, Idle

LEMMA GotoFacts ==
  ASSUME worker \in Busy, NEW pc, Goto(pc)
  PROVE  /\ worker'.pc = pc
         /\ worker'.campaign = worker.campaign /\ worker'.todo = worker.todo
BY DEF Goto, Busy

\* A campaign the worker has marked has, or had, a row, and is no draft.
LEMMA HeldIsBorn ==
  ASSUME Owned, Records,
         worker.pc \in {"attach", "prepare", "list", "send", "record", "abort"}
  PROVE  LET c == worker.campaign
         IN /\ c \in Campaigns
            /\ row[c] = "gone" \/ status[c] = "sending"
            /\ ~Draft(c)
            /\ Contacts # {} => row[c] # "none"
<1>1. worker.campaign \in Campaigns
  BY WorkerLocals DEF Owned
<1> QED BY <1>1 DEF Owned, WorkerOwnsCampaign, HeldCampaign, Records,
            UnbornUntouched, Draft

-----------------------------------------------------------------------------
(* Steps that leave the worker alone, and steps of the worker that only move it. *)

\* Rows of campaigns go, with or without their recipients; contacts come anew
\* or go.
LEMMA RowsGo ==
  ASSUME Owned, Records, UNCHANGED <<status, mails, worker, faults>>,
         \A c \in Campaigns : /\ row'[c] \in {row[c], "gone"}
                              /\ row[c] = "none" <=> row'[c] = "none",
         \A c \in Campaigns, k \in Contacts :
           \/ recipient'[c][k] = recipient[c][k]
           \/ recipient'[c][k] = "none" /\ row'[c] = "gone",
         \A k \in Contacts :
           /\ contact[k] # "none" => contact'[k] # "none"
           /\ Exists(k)' => Exists(k) \/ contact[k] = "none"
  PROVE  Records'
<1>1. UnbornUntouched' /\ DraftsUnprepared' /\ RecipientsKnown'
  BY DEF Records, UnbornUntouched, DraftsUnprepared, RecipientsKnown, Draft
<1>2. TodoListed'
  BY WorkerLocals DEF Owned, Records, TodoListed
<1>3. OutcomeTrue'
  BY DEF Records, OutcomeTrue
<1>4. LoopCovers'
  BY WorkerLocals DEF Owned, Records, LoopCovers, RecipientsKnown, Delivered
<1>5. MailsAreAccounted' /\ SentMeansDelivered'
  BY DEF Records, MailsAreAccounted, SentMeansDelivered, RecipientsKnown
<1> QED BY <1>1, <1>2, <1>3, <1>4, <1>5 DEF Records

\* The worker moves on, gives up or is gone.
LEMMA WorkerMoves ==
  ASSUME Owned, Records, UNCHANGED <<row, status, recipient, mails, contact>>,
         faults' = 0 => faults = 0,
         worker'.pc \notin {"send", "record"},
         \/ worker'.todo = {}
         \/ worker'.todo = worker.todo /\ worker'.campaign = worker.campaign
  PROVE  Records'
<1>1. UnbornUntouched' /\ DraftsUnprepared' /\ RecipientsKnown'
  BY DEF Records, UnbornUntouched, DraftsUnprepared, RecipientsKnown, Draft
<1>2. TodoListed' /\ OutcomeTrue' /\ LoopCovers'
  BY DEF Records, TodoListed, OutcomeTrue, LoopCovers
<1>3. MailsAreAccounted' /\ SentMeansDelivered'
  BY DEF Records, MailsAreAccounted, SentMeansDelivered, Exists
<1> QED BY <1>1, <1>2, <1>3 DEF Records

LEMMA FaultCounts == TypeOK /\ Fault => faults' # 0
BY DEF TypeOK, Fault

LEMMA AudienceStepRecords == Owned /\ Records /\ AudienceStep => Records'
<1> SUFFICES ASSUME Owned, Records, AudienceStep PROVE Records'
  OBVIOUS
<1> DEFINE Kept == /\ UNCHANGED <<row, status, recipient, mails, worker, faults>>
                   /\ \A k \in Contacts :
                        /\ contact[k] # "none" => contact'[k] # "none"
                        /\ Exists(k)' => Exists(k) \/ contact[k] = "none"
<1> USE DEF audienceVars, campaignVars, deliveryVars, processVars, boundVars
<1>1. Kept => Records'
  BY RowsGo DEF Owned
<1> HIDE DEF Kept
<1>2. ASSUME NEW K \in SUBSET Contacts, ImportContacts(K)
      PROVE  Kept
  BY <1>2 DEF Kept, ImportContacts, Owned, TypeOK, Exists
<1>3. ASSUME NEW k \in Contacts, CreateContact(k) \/ Unsubscribe(k)
      PROVE  Kept
  BY <1>2, <1>3 DEF Kept, CreateContact, Unsubscribe, Owned, TypeOK, Exists
<1>4. ASSUME NEW k \in Contacts, NEW fk \in FkModes, DeleteContact(k, fk)
      PROVE  Kept
  BY <1>4 DEF Kept, DeleteContact, Owned, TypeOK, Exists
<1>5. ASSUME NEW fk \in FkModes, DeleteTenant(fk)
      PROVE  Records'
  <2>1. RemoveCampaigns(Campaigns, fk) /\ UNCHANGED <<worker, faults>>
    BY <1>5 DEF DeleteTenant
  <2>2. \A k \in Contacts : contact'[k] = IF Exists(k) THEN "gone" ELSE contact[k]
    BY <1>5 DEF DeleteTenant
  <2>3. /\ UNCHANGED <<status, mails>>
        /\ \A c \in Campaigns : /\ row'[c] \in {row[c], "gone"}
                                /\ row[c] = "none" <=> row'[c] = "none"
        /\ \A c \in Campaigns, k \in Contacts :
             \/ recipient'[c][k] = recipient[c][k]
             \/ recipient'[c][k] = "none" /\ row'[c] = "gone"
    BY <2>1 DEF RemoveCampaigns
  <2> QED BY <2>1, <2>2, <2>3, RowsGo DEF Exists
<1>6. CASE \/ \E s \in Segments : CreateSegment(s)
           \/ \E k \in Contacts, s \in Segments :
                \/ \E fk \in FkModes : AddContactToSegment(k, s, fk)
                \/ RemoveContactFromSegment(k, s)
           \/ \E s \in Segments, fk \in FkModes : DeleteSegment(s, fk)
           \/ \E c \in Campaigns, k \in Contacts : RecordOpen(c, k)
  BY <1>1, <1>6 DEF Kept, CreateSegment, AddContactToSegment,
     RemoveContactFromSegment, DeleteSegment, RecordOpen, Exists
<1> QED BY <1>1, <1>2, <1>3, <1>4, <1>5, <1>6 DEF AudienceStep

LEMMA AdminStepRecords == Owned /\ Records /\ AdminStep => Records'
<1> SUFFICES ASSUME Owned, Records, AdminStep PROVE Records'
  OBVIOUS
<1> USE DEF audienceVars, campaignVars, deliveryVars, processVars, boundVars
<1>1. ASSUME NEW c \in Campaigns, NEW T \in SUBSET Segments, NEW fk \in FkModes,
             CreateCampaign(c, T, fk)
      PROVE  Records'
  <2>1. /\ UNCHANGED <<status, recipient, mails, worker, faults, contact>>
        /\ row[c] = "none" /\ row'[c] = "live"
        /\ \A d \in Campaigns : d # c => row'[d] = row[d]
    BY <1>1 DEF CreateCampaign, Owned, TypeOK
  <2>2. \A k \in Contacts : status[c] = "draft" /\ recipient[c][k] = "none"
                            /\ mails[c][k] = 0
    BY <2>1 DEF Owned, WorkerOwnsCampaign, DraftsUntouched, Untouched, Records,
       UnbornUntouched
  <2>3. UnbornUntouched' /\ DraftsUnprepared' /\ RecipientsKnown'
    BY <2>1, <2>2 DEF Records, UnbornUntouched, DraftsUnprepared,
       RecipientsKnown, Draft
  <2>4. \A k \in worker.todo : worker.campaign # c
    BY <2>2, WorkerLocals DEF Owned, WorkerOwnsCampaign, TodoUntouched
  <2>5. TodoListed'
    BY <2>1, <2>4, WorkerLocals DEF Owned, Records, TodoListed
  <2>6. OutcomeTrue'
    BY <2>1 DEF Records, OutcomeTrue
  <2>7. LoopCovers'
    BY <2>1, <2>2, WorkerLocals
       DEF Owned, Records, LoopCovers, Delivered, Exists
  <2>8. MailsAreAccounted' /\ SentMeansDelivered'
    BY <2>1, <2>2 DEF Records, MailsAreAccounted, SentMeansDelivered, Exists
  <2> QED BY <2>3, <2>5, <2>6, <2>7, <2>8 DEF Records
<1>2. ASSUME NEW r \in Requests, NEW fk \in FkModes, DeleteWrite(r, fk)
      PROVE  Records'
  <2>1. /\ RemoveCampaigns({request[r].campaign}, fk)
        /\ UNCHANGED <<worker, faults, contact>>
    BY <1>2 DEF DeleteWrite
  <2>2. /\ UNCHANGED <<status, mails>>
        /\ \A c \in Campaigns : /\ row'[c] \in {row[c], "gone"}
                                /\ row[c] = "none" <=> row'[c] = "none"
        /\ \A c \in Campaigns, k \in Contacts :
             \/ recipient'[c][k] = recipient[c][k]
             \/ recipient'[c][k] = "none" /\ row'[c] = "gone"
    BY <2>1 DEF RemoveCampaigns
  <2> QED BY <2>1, <2>2, RowsGo DEF Exists
<1>3. CASE UNCHANGED <<row, status, recipient, mails, worker, faults, contact>>
  BY <1>3, RowsGo DEF Owned, Exists
<1>4. \/ \E c \in Campaigns, T \in SUBSET Segments, fk \in FkModes :
           CreateCampaign(c, T, fk)
      \/ \E r \in Requests, fk \in FkModes : DeleteWrite(r, fk)
      \/ UNCHANGED <<row, status, recipient, mails, worker, faults, contact>>
  BY DEF AdminStep, SendRead, DeleteRead, UpdateRead, ReadDraft, Enqueue,
     UpdateWrite
<1> QED BY <1>1, <1>2, <1>3, <1>4

-----------------------------------------------------------------------------
(* The steps of the worker. *)

LEMMA PrepareRecords ==
  ASSUME Owned, Records, NEW fk \in FkModes, Prepare(fk)
  PROVE  Records'
<1> DEFINE c == worker.campaign
<1>1. /\ worker \in Busy /\ worker.pc = "prepare"
      /\ UNCHANGED <<row, status, mails, contact>>
      /\ c \in Campaigns
      /\ row[c] = "gone" \/ status[c] = "sending"
      /\ ~Draft(c) /\ (Contacts # {} => row[c] # "none")
  BY WorkerLocals, HeldIsBorn
     DEF Prepare, Owned, audienceVars, campaignVars
<1>2. CASE Goto("abort") /\ UNCHANGED recipient /\ (faults' = 0 => faults = 0)
  BY <1>1, <1>2, GotoFacts, WorkerMoves
<1>3. CASE /\ Goto("list") /\ UNCHANGED faults
           /\ recipient' = [recipient EXCEPT ![c] =
                [k \in Contacts |-> IF k \in Audience(c) /\ @[k] = "none"
                                    THEN "queued" ELSE @[k]]]
  <2>1. /\ worker'.pc = "list" /\ worker'.campaign = c
        /\ worker'.todo = worker.todo
    BY <1>1, <1>3, GotoFacts
  <2>2. /\ \A d \in Campaigns, k \in Contacts :
             d # c => recipient'[d][k] = recipient[d][k]
        /\ \A k \in Contacts :
             \/ recipient'[c][k] = recipient[c][k]
             \/ /\ recipient[c][k] = "none" /\ recipient'[c][k] = "queued"
                /\ contact[k] = "subscribed"
    BY <1>1, <1>3 DEF Owned, TypeOK, Audience
  <2> HIDE DEF c
  <2>3. UnbornUntouched' /\ DraftsUnprepared' /\ RecipientsKnown'
    BY <1>1, <2>2 DEF Records, UnbornUntouched, DraftsUnprepared,
       RecipientsKnown, Draft
  <2>4. TodoListed'
    BY <1>1, <2>1, <2>2, WorkerLocals DEF c, Owned, Records, TodoListed
  <2>5. OutcomeTrue' /\ LoopCovers'
    BY <2>1 DEF OutcomeTrue, LoopCovers
  <2>6. MailsAreAccounted' /\ SentMeansDelivered'
    BY <1>1, <1>3, <2>2 DEF Records, MailsAreAccounted, SentMeansDelivered, Exists
  <2> QED BY <2>3, <2>4, <2>5, <2>6 DEF Records
<1>4. \/ Goto("abort") /\ UNCHANGED recipient /\ (faults' = 0 => faults = 0)
      \/ /\ Goto("list") /\ UNCHANGED faults
         /\ recipient' = [recipient EXCEPT ![c] =
              [k \in Contacts |-> IF k \in Audience(c) /\ @[k] = "none"
                                  THEN "queued" ELSE @[k]]]
  BY FaultCounts DEF Prepare, Owned, boundVars
<1> QED BY <1>2, <1>3, <1>4

LEMMA ListRecords == Owned /\ Records /\ ListRecipients => Records'
<1> SUFFICES ASSUME Owned, Records, ListRecipients PROVE Records'
  OBVIOUS
<1> DEFINE c == worker.campaign
           K == {k \in Contacts : /\ row[c] = "live" /\ Exists(k)
                                  /\ recipient[c][k] # "none"}
<1>1. /\ worker \in Busy /\ worker.pc = "list"
      /\ UNCHANGED <<row, status, recipient, mails, contact>>
  BY WorkerLocals
     DEF ListRecipients, Owned, audienceVars, campaignVars, deliveryVars
<1>2. \/ Goto("abort") /\ (faults' = 0 => faults = 0)
      \/ UNCHANGED faults /\ worker' = [worker EXCEPT !.pc = "send", !.todo = K]
  BY FaultCounts DEF ListRecipients, Owned, boundVars
<1>3. CASE Goto("abort") /\ (faults' = 0 => faults = 0)
  BY <1>1, <1>3, GotoFacts, WorkerMoves
<1>4. CASE UNCHANGED faults /\ worker' = [worker EXCEPT !.pc = "send", !.todo = K]
  <2>1. worker'.pc = "send" /\ worker'.campaign = c /\ worker'.todo = K
    BY <1>1, <1>4 DEF Busy
  <2>2. TodoListed' /\ OutcomeTrue' /\ LoopCovers'
    BY <1>1, <2>1 DEF TodoListed, OutcomeTrue, LoopCovers, Exists
  <2> HIDE DEF K
  <2>3. UnbornUntouched' /\ DraftsUnprepared' /\ RecipientsKnown'
    BY <1>1 DEF Records, UnbornUntouched, DraftsUnprepared, RecipientsKnown, Draft
  <2>4. MailsAreAccounted' /\ SentMeansDelivered'
    BY <1>1, <1>4 DEF Records, MailsAreAccounted, SentMeansDelivered, Exists
  <2> QED BY <2>2, <2>3, <2>4 DEF Records
<1> QED BY <1>2, <1>3, <1>4

\* What SendMail does to the worker, without its record.
LEMMA SendMailFacts ==
  ASSUME Owned, NEW k \in Contacts, SendMail(k)
  PROVE  LET c == worker.campaign
         IN /\ worker \in Busy /\ worker.pc = "send" /\ c \in Campaigns
            /\ k \in worker.todo
            /\ worker'.pc = "record" /\ worker'.campaign = c
            /\ worker'.contact = k /\ worker'.todo = worker.todo \ {k}
            /\ worker'.outcome \in {"sent", "failed"}
            /\ worker'.allSuccess =>
                 worker.allSuccess /\ worker'.outcome = "sent"
            /\ \/ mails' = mails /\ worker'.outcome = "failed"
               \/ mails' = [mails EXCEPT ![c][k] = 1]
            /\ mails[c][k] = 0 /\ status[c] = "sending"
<1> DEFINE c == worker.campaign
<1>1. /\ worker \in Busy /\ worker.pc = "send" /\ c \in Campaigns
      /\ k \in worker.todo
  BY WorkerLocals DEF Owned, SendMail
<1>2. mails[c][k] = 0 /\ status[c] = "sending"
  BY <1>1 DEF Owned, WorkerOwnsCampaign, TodoUntouched, Untouched
<1>3. PICK taken \in BOOLEAN, outcome \in {"sent", "failed"} :
        /\ outcome = "sent" => taken
        /\ mails' = IF taken THEN [mails EXCEPT ![c][k] = @ + 1] ELSE mails
        /\ worker' = [worker EXCEPT
               !.pc = "record", !.todo = @ \ {k}, !.contact = k,
               !.outcome = outcome,
               !.allSuccess = @ /\ outcome = "sent"]
  BY DEF SendMail
<1>4. worker' = [pc |-> "record", campaign |-> c,
                 todo |-> worker.todo \ {k}, contact |-> k,
                 outcome |-> outcome,
                 allSuccess |-> worker.allSuccess /\ outcome = "sent"]
  BY <1>1, <1>3 DEF Busy
<1>5. \/ mails' = mails /\ outcome = "failed"
      \/ mails' = [mails EXCEPT ![c][k] = 1]
  <2>1. CASE taken
    <3>1. mails' = [mails EXCEPT ![c][k] = mails[c][k] + 1]
      BY <1>3, <2>1
    <3> QED BY <1>2, <3>1
  <2>2. CASE ~taken
    BY <1>3, <2>2
  <2> QED BY <2>1, <2>2
<1> QED BY <1>1, <1>2, <1>4, <1>5

LEMMA SendMailRecords ==
  ASSUME Owned, Records, NEW k \in Contacts, SendMail(k)
  PROVE  Records'
<1> DEFINE c == worker.campaign
<1>1. /\ worker \in Busy /\ worker.pc = "send" /\ c \in Campaigns
      /\ k \in worker.todo /\ worker.todo \in SUBSET Contacts
      /\ worker'.pc = "record" /\ worker'.campaign = c
      /\ worker'.contact = k /\ worker'.todo = worker.todo \ {k}
      /\ worker'.allSuccess => worker.allSuccess /\ worker'.outcome = "sent"
      /\ \/ mails' = mails /\ worker'.outcome = "failed"
         \/ mails' = [mails EXCEPT ![c][k] = 1]
      /\ mails[c][k] = 0 /\ status[c] = "sending"
  BY SendMailFacts, WorkerLocals DEF Owned
<1>2. UNCHANGED <<row, status, recipient, contact, faults>>
  BY DEF SendMail, audienceVars, campaignVars, boundVars
<1>3. /\ \A d \in Campaigns, j \in Contacts :
           d # c \/ j # k => mails'[d][j] = mails[d][j]
      /\ mails'[c][k] = mails[c][k] \/ mails'[c][k] = 1
      /\ worker'.outcome = "sent" => mails'[c][k] = 1
  BY <1>1 DEF Owned, TypeOK
<1>4. UnbornUntouched' /\ DraftsUnprepared' /\ RecipientsKnown'
  BY <1>2 DEF Records, UnbornUntouched, DraftsUnprepared, RecipientsKnown, Draft
<1>5. TodoListed'
  BY <1>1, <1>2 DEF Records, TodoListed
<1>6. OutcomeTrue'
  BY <1>1, <1>3 DEF OutcomeTrue
<1>7. LoopCovers'
  <2>1. ASSUME NEW j \in Contacts, worker'.allSuccess, row[c] = "live",
               recipient[c][j] # "none", Exists(j)
        PROVE  j \in worker'.todo \/ j = k \/ Delivered(c, j)'
    <3>1. j \in worker.todo \/ Delivered(c, j)
      BY <1>1, <2>1 DEF Records, LoopCovers
    <3> QED BY <1>1, <1>2, <1>3, <3>1 DEF Delivered
  <2> QED BY <1>1, <1>2, <2>1 DEF LoopCovers, Exists
<1>8. MailsAreAccounted'
  <2>1. row[c] = "live" => recipient[c][k] # "none"
    BY <1>1 DEF Records, TodoListed
  <2> QED BY <1>2, <1>3, <2>1 DEF Records, MailsAreAccounted
<1>9. SentMeansDelivered'
  BY <1>1, <1>2, <1>3 DEF Records, SentMeansDelivered, Exists
<1> QED BY <1>4, <1>5, <1>6, <1>7, <1>8, <1>9 DEF Records

LEMMA RecordRecords == Owned /\ Records /\ RecordOutcome => Records'
<1> SUFFICES ASSUME Owned, Records, RecordOutcome PROVE Records'
  OBVIOUS
<1>0. PICK c \in Campaigns, k \in Contacts :
        c = worker.campaign /\ k = worker.contact
  BY WorkerLocals
     DEF RecordOutcome, Owned, WorkerOwnsCampaign, TodoUntouched
<1>1. /\ worker \in Busy /\ worker.pc = "record"
      /\ worker.outcome \in {"sent", "failed"}
      /\ worker.todo \in SUBSET Contacts /\ k \in Contacts \ worker.todo
      /\ status[c] = "sending"
  BY <1>0, WorkerLocals
     DEF RecordOutcome, Owned, Busy, WorkerOwnsCampaign, TodoUntouched
<1>2. /\ worker'.pc = "send" /\ worker'.campaign = c
      /\ worker'.todo = worker.todo /\ worker'.allSuccess = worker.allSuccess
  BY <1>0, <1>1 DEF RecordOutcome, Busy
<1>3. UNCHANGED <<row, status, mails, contact>>
  BY DEF RecordOutcome, audienceVars, campaignVars
<1>4. /\ \A d \in Campaigns, j \in Contacts :
           d # c \/ j # k => recipient'[d][j] = recipient[d][j]
      /\ \/ /\ recipient[c][k] # "none"
            /\ recipient'[c][k] = worker.outcome /\ faults' = faults
         \/ recipient'[c][k] = recipient[c][k] /\ recipient[c][k] = "none"
                                               /\ faults' = faults
         \/ recipient'[c][k] = recipient[c][k] /\ faults' # 0
  <2>1. \/ /\ recipient' = IF recipient[c][k] # "none"
                           THEN [recipient EXCEPT ![c][k] = worker.outcome]
                           ELSE recipient
           /\ faults' = faults
        \/ recipient' = recipient /\ faults' # 0
    BY <1>0, FaultCounts DEF RecordOutcome, Owned, boundVars
  <2> QED BY <2>1 DEF Owned, TypeOK
<1>5. /\ worker.outcome = "sent" => mails[c][k] = 1
      /\ worker.allSuccess => worker.outcome = "sent"
      /\ recipient[c][k] \in {"none", "queued"}
  BY <1>0, <1>1 DEF Records, OutcomeTrue, Owned, WorkerOwnsCampaign, TodoUntouched
<1>6. faults' = 0 => faults = 0 /\ faults' = faults
  BY <1>4, FaultCounts DEF RecordOutcome, Owned, boundVars
<1>7. UnbornUntouched' /\ DraftsUnprepared' /\ RecipientsKnown'
  BY <1>1, <1>3, <1>4
     DEF Records, UnbornUntouched, DraftsUnprepared, RecipientsKnown, Draft
<1>8. TodoListed'
  BY <1>0, <1>1, <1>2, <1>3, <1>4 DEF Records, TodoListed
<1>9. OutcomeTrue'
  BY <1>2 DEF OutcomeTrue
<1>10. LoopCovers'
  <2>1. ASSUME NEW j \in Contacts, worker.allSuccess, row[c] = "live",
               recipient'[c][j] # "none", Exists(j)
        PROVE  j \in worker.todo \/ Delivered(c, j)'
    <3>1. recipient[c][j] # "none"
      BY <1>4, <2>1
    <3>2. CASE j = k
      BY <1>4, <1>5, <1>3, <2>1, <3>1, <3>2 DEF Delivered
    <3>3. CASE j # k
      <4>1. j \in worker.todo \/ Delivered(c, j)
        BY <1>0, <1>1, <2>1, <3>1, <3>3 DEF Records, LoopCovers
      <4> QED BY <1>1, <1>3, <1>4, <1>6, <3>3, <4>1 DEF Delivered
    <3> QED BY <3>2, <3>3
  <2> QED BY <1>0, <1>2, <1>3, <2>1 DEF LoopCovers, Exists
<1>11. MailsAreAccounted'
  BY <1>1, <1>3, <1>4 DEF Records, MailsAreAccounted
<1>12. SentMeansDelivered'
  <2>1. ASSUME NEW d \in Campaigns, NEW j \in Contacts, recipient'[d][j] = "sent"
        PROVE  mails[d][j] = 1
    BY <1>4, <1>5, <2>1 DEF Records, SentMeansDelivered
  <2>2. ASSUME NEW d \in Campaigns, NEW j \in Contacts,
               row[d] = "live", status[d] = "sent", recipient'[d][j] # "none",
               Exists(j)
        PROVE  mails[d][j] = 1 /\ (faults' = 0 => recipient'[d][j] = "sent")
    <3>1. d # c /\ recipient'[d][j] = recipient[d][j]
      BY <1>1, <1>4, <2>2
    <3> QED BY <1>6, <2>2, <3>1 DEF Records, SentMeansDelivered
  <2> QED BY <1>3, <2>1, <2>2 DEF SentMeansDelivered, Exists
<1> QED BY <1>7, <1>8, <1>9, <1>10, <1>11, <1>12 DEF Records

\* Where the last status says "sent", the loop is through with everybody.
LEMMA FinishRecords == Owned /\ Records /\ Finish => Records'
<1> SUFFICES ASSUME Owned, Records, Finish PROVE Records'
  OBVIOUS
<1> DEFINE c == worker.campaign
<1>1. /\ worker \in Busy /\ c \in Campaigns /\ worker' = Idle
      /\ \/ worker.pc = "send" /\ worker.todo = {}
         \/ worker.pc = "abort"
      /\ UNCHANGED <<row, recipient, mails, contact>>
  BY WorkerLocals DEF Finish, Owned, audienceVars, deliveryVars
<1>2. worker'.pc = "idle" /\ worker'.todo = {}
  BY <1>1 DEF Idle
<1>3. CASE UNCHANGED status /\ (faults' = 0 => faults = 0)
  BY <1>1, <1>2, <1>3, WorkerMoves
<1>4. CASE row[c] = "live" /\ status' = [status EXCEPT ![c] = FinalStatus]
           /\ UNCHANGED faults
  <2>1. /\ FinalStatus \in {"sent", "failed"}
        /\ FinalStatus = "sent" => worker.pc = "send" /\ worker.allSuccess
    BY DEF FinalStatus
  <2>2. status'[c] = FinalStatus /\ \A d \in Campaigns : d # c => status'[d] = status[d]
    BY <1>1, <1>4 DEF Owned, TypeOK
  <2> HIDE DEF c
  <2>3. UnbornUntouched' /\ DraftsUnprepared' /\ RecipientsKnown'
    BY <1>1, <1>4, <2>1, <2>2 DEF Records, UnbornUntouched, DraftsUnprepared,
       RecipientsKnown, Draft
  <2>4. TodoListed' /\ OutcomeTrue' /\ LoopCovers'
    BY <1>2 DEF TodoListed, OutcomeTrue, LoopCovers
  <2>5. MailsAreAccounted'
    BY <1>1 DEF Records, MailsAreAccounted
  <2>6. status'[c] = "sent" =>
          \A k \in Contacts : recipient[c][k] # "none" /\ Exists(k) =>
            Delivered(c, k)
    BY <1>1, <1>4, <2>1, <2>2 DEF c, Records, LoopCovers
  <2>7. SentMeansDelivered'
    BY <1>1, <1>4, <2>2, <2>6
       DEF Records, SentMeansDelivered, Delivered, Exists
  <2> QED BY <2>3, <2>4, <2>5, <2>7 DEF Records
<1>5. \/ UNCHANGED status /\ (faults' = 0 => faults = 0)
      \/ row[c] = "live" /\ status' = [status EXCEPT ![c] = FinalStatus]
         /\ UNCHANGED faults
  BY FaultCounts DEF Finish, WriteStatus, Owned, boundVars
<1> QED BY <1>3, <1>4, <1>5

LEMMA MarkRecords == Owned /\ Records /\ Mark => Records'
<1> SUFFICES ASSUME Owned, Records, Mark PROVE Records'
  OBVIOUS
<1> DEFINE c == worker.campaign
<1>1. /\ worker \in Busy /\ c \in Campaigns /\ worker.pc = "mark"
      /\ UNCHANGED <<row, recipient, mails, contact>>
  BY WorkerLocals DEF Mark, Owned, audienceVars, deliveryVars
<1>2. \/ Goto("attach") \/ worker' = Idle
  BY DEF Mark
<1>3. /\ worker'.pc \in {"attach", "idle"}
      /\ \/ worker'.todo = {}
         \/ worker'.todo = worker.todo /\ worker'.campaign = c
  <2>1. CASE Goto("attach")
    BY <1>1, <2>1, GotoFacts
  <2>2. CASE worker' = Idle
    BY <2>2 DEF Idle
  <2> QED BY <1>2, <2>1, <2>2
<1>4. CASE UNCHANGED status /\ (faults' = 0 => faults = 0)
  BY <1>1, <1>3, <1>4, WorkerMoves
<1>5. CASE row[c] = "live" /\ status' = [status EXCEPT ![c] = "sending"]
           /\ UNCHANGED faults
  <2>1. status'[c] = "sending" /\ \A d \in Campaigns : d # c => status'[d] = status[d]
    BY <1>1, <1>5 DEF Owned, TypeOK
  <2> HIDE DEF c
  <2>2. UnbornUntouched' /\ DraftsUnprepared' /\ RecipientsKnown'
    BY <1>1, <1>5, <2>1 DEF Records, UnbornUntouched, DraftsUnprepared,
       RecipientsKnown, Draft
  <2>3. TodoListed' /\ OutcomeTrue' /\ LoopCovers'
    BY <1>1, <1>3 DEF c, Records, TodoListed, OutcomeTrue, LoopCovers
  <2>4. MailsAreAccounted' /\ SentMeansDelivered'
    BY <1>1, <1>5, <2>1 DEF Records, MailsAreAccounted, SentMeansDelivered, Exists
  <2> QED BY <2>2, <2>3, <2>4 DEF Records
<1>6. \/ UNCHANGED status /\ (faults' = 0 => faults = 0)
      \/ row[c] = "live" /\ status' = [status EXCEPT ![c] = "sending"]
         /\ UNCHANGED faults
  BY FaultCounts DEF Mark, WriteStatus, Owned, boundVars
<1> QED BY <1>4, <1>5, <1>6

LEMMA WorkerStepRecords == Owned /\ Records /\ WorkerStep => Records'
<1> SUFFICES ASSUME Owned, Records, WorkerStep PROVE Records'
  OBVIOUS
<1> USE DEF audienceVars, campaignVars, deliveryVars, boundVars
<1>1. CASE Take
  <2>1. worker'.pc = "load" /\ worker'.todo = {}
    BY <1>1 DEF Take, Idle
  <2> QED BY <1>1, <2>1, WorkerMoves DEF Take
<1>2. CASE Load
  <2>1. worker \in Busy
    BY <1>2, WorkerLocals DEF Load, Owned
  <2>2. Goto("mark") \/ worker' = Idle
    BY <1>2 DEF Load
  <2>3. /\ worker'.pc \in {"mark", "idle"}
        /\ \/ worker'.todo = {}
           \/ worker'.todo = worker.todo /\ worker'.campaign = worker.campaign
    BY <2>1, <2>2, GotoFacts DEF Idle
  <2>4. faults' = 0 => faults = 0
    BY <1>2, FaultCounts DEF Load, Owned
  <2> QED BY <1>2, <2>3, <2>4, WorkerMoves DEF Load
<1>3. CASE FetchAttachment
  <2>1. worker \in Busy
    BY <1>3, WorkerLocals DEF FetchAttachment, Owned
  <2>2. /\ worker'.pc \in {"prepare", "abort"}
        /\ worker'.todo = worker.todo /\ worker'.campaign = worker.campaign
    BY <1>3, <2>1, GotoFacts DEF FetchAttachment
  <2> QED BY <1>3, <2>2, WorkerMoves DEF FetchAttachment
<1> QED BY <1>1, <1>2, <1>3, MarkRecords, PrepareRecords, ListRecords,
        SendMailRecords, RecordRecords, FinishRecords DEF WorkerStep

LEMMA RecordsInvariant == Spec => [](Owned /\ Records)
<1>1. Init => Records
  BY DEF Init, Idle, Exists, Draft, Records, UnbornUntouched, DraftsUnprepared,
     RecipientsKnown, TodoListed, OutcomeTrue, LoopCovers, MailsAreAccounted,
     SentMeansDelivered
<1>2. Owned /\ Records /\ [Next]_vars => Records'
  <2> SUFFICES ASSUME Owned, Records, [Next]_vars PROVE Records'
    OBVIOUS
  <2> USE DEF audienceVars, campaignVars, deliveryVars, processVars, boundVars
  <2>1. CASE Crash
    <3>1. worker'.pc = "idle" /\ worker'.todo = {}
      BY <2>1 DEF Crash, Idle
    <3> QED BY <2>1, <3>1, WorkerMoves DEF Crash
  <2>2. CASE UNCHANGED vars
    BY <2>2, RowsGo DEF vars, Owned, Exists
  <2> QED BY <2>1, <2>2, AudienceStepRecords, AdminStepRecords, WorkerStepRecords
          DEF Next
<1>3. Spec => []Owned
  BY OwnsInvariant, PTL DEF Owned
<1> QED BY <1>1, <1>2, <1>3, PTL DEF Spec

\* A recipient recorded as sent was mailed, and of a campaign that is "sent"
\* every recipient was (processCampaign, UpdateRecipientStatus).
THEOREM SentIsTrue == Spec => []SentMeansDelivered
<1>1. Records => SentMeansDelivered
  BY DEF Records
<1> QED BY <1>1, RecordsInvariant, PTL

\* Each mail of a campaign that exists has its recipient row (processCampaign
\* mails whom GetCampaignRecipients lists).
THEOREM AllAccounted == Spec => []MailsAreAccounted
<1>1. Records => MailsAreAccounted
  BY DEF Records
<1> QED BY <1>1, RecordsInvariant, PTL

\* What the two steps of the worker that write recipients do to them.
LEMMA PrepareFacts ==
  ASSUME TypeOK, NEW fk, Prepare(fk), NEW c \in Campaigns, NEW k \in Contacts
  PROVE  \/ recipient'[c][k] = recipient[c][k]
         \/ k \in Audience(c)
<1>1. PICK d \in Campaigns : d = worker.campaign
  BY WorkerLocals DEF Prepare
<1>2. CASE UNCHANGED recipient
  BY <1>2
<1>3. CASE recipient' = [recipient EXCEPT ![d] =
                [j \in Contacts |-> IF j \in Audience(d) /\ @[j] = "none"
                                    THEN "queued" ELSE @[j]]]
  <2>1. c # d => recipient'[c] = recipient[c]
    BY <1>3 DEF TypeOK
  <2>2. recipient'[d][k] = IF k \in Audience(d) /\ recipient[d][k] = "none"
                           THEN "queued" ELSE recipient[d][k]
    BY <1>3 DEF TypeOK
  <2> QED BY <1>3, <2>1, <2>2
<1> QED BY <1>1, <1>2, <1>3 DEF Prepare

LEMMA RecordFacts ==
  ASSUME TypeOK, RecordOutcome, NEW c \in Campaigns, NEW k \in Contacts,
         recipient[c][k] = "none"
  PROVE  recipient'[c][k] = "none"
<1>1. PICK d \in Campaigns, j \in Contacts \cup {None} :
        d = worker.campaign /\ j = worker.contact
  BY WorkerLocals DEF RecordOutcome, Busy
<1>2. \/ UNCHANGED recipient
      \/ /\ recipient[d][j] # "none"
         /\ recipient' = [recipient EXCEPT ![d][j] = worker.outcome]
  BY <1>1 DEF RecordOutcome
<1>3. CASE /\ recipient[d][j] # "none"
           /\ recipient' = [recipient EXCEPT ![d][j] = worker.outcome]
  <2>1. c # d \/ k # j
    BY <1>3
  <2>2. recipient' = [recipient EXCEPT ![d] = [recipient[d] EXCEPT ![j] = worker.outcome]]
    BY <1>3
  <2>3. recipient'[d] = [recipient[d] EXCEPT ![j] = worker.outcome]
        /\ (c # d => recipient'[c] = recipient[c])
    BY <2>2 DEF TypeOK
  <2>4. k # j => [recipient[d] EXCEPT ![j] = worker.outcome][k] = recipient[d][k]
    BY DEF TypeOK
  <2> QED BY <2>1, <2>3, <2>4
<1> QED BY <1>2, <1>3

-----------------------------------------------------------------------------
(* Who has unsubscribed in time. *)

\* The contact k is out of reach of the campaign c: it is not and will not be a
\* recipient.
OutOfReach(c, k) ==
  /\ contact[k] \in {"unsubscribed", "gone"}
  /\ mails[c][k] = 0 /\ recipient[c][k] = "none" /\ row[c] # "none"
  /\ worker.campaign = c => k \notin worker.todo

\* Contacts do not come back, and only their own handlers change them.
LEMMA ContactsStay ==
  ASSUME TypeOK, [Next]_vars, NEW k \in Contacts,
         contact[k] \in {"unsubscribed", "gone"}
  PROVE  contact'[k] \in {"unsubscribed", "gone"}
<1> USE DEF audienceVars
<1>1. ASSUME NEW K \in SUBSET Contacts, ImportContacts(K)
      PROVE  contact'[k] = contact[k]
  BY <1>1 DEF ImportContacts
<1>2. ASSUME NEW j \in Contacts, CreateContact(j)
      PROVE  contact'[k] = contact[k]
  BY <1>1, <1>2 DEF CreateContact
<1>3. ASSUME NEW j \in Contacts, NEW fk \in FkModes,
             DeleteContact(j, fk) \/ Unsubscribe(j) \/ DeleteTenant(fk)
      PROVE  contact'[k] \in {"unsubscribed", "gone"}
  BY <1>3 DEF DeleteContact, Unsubscribe, DeleteTenant, TypeOK, Exists
<1>4. ASSUME NEW j \in Contacts, Unsubscribe(j)
      PROVE  contact'[k] \in {"unsubscribed", "gone"}
  BY <1>4 DEF Unsubscribe, TypeOK
<1>5. CASE \/ \E s \in Segments : CreateSegment(s)
           \/ \E j \in Contacts, s \in Segments :
                \/ \E fk \in FkModes : AddContactToSegment(j, s, fk)
                \/ RemoveContactFromSegment(j, s)
           \/ \E s \in Segments, fk \in FkModes : DeleteSegment(s, fk)
           \/ \E c \in Campaigns, j \in Contacts : RecordOpen(c, j)
  BY <1>5 DEF CreateSegment, AddContactToSegment, RemoveContactFromSegment,
     DeleteSegment, RecordOpen
<1>6. CASE AdminStep
  <2>1. UNCHANGED contact
    BY <1>6 DEF AdminStep, CreateCampaign, SendRead, UpdateRead, DeleteRead,
       ReadDraft, Enqueue, UpdateWrite, DeleteWrite
  <2> QED BY <2>1
<1>7. CASE WorkerStep
  <2>1. UNCHANGED contact
    BY <1>7 DEF WorkerStep, Take, Load, Mark, FetchAttachment, Prepare,
       ListRecipients, SendMail, RecordOutcome, Finish
  <2> QED BY <2>1
<1>8. CASE Crash \/ UNCHANGED vars
  BY <1>8 DEF Crash, vars
<1> QED BY <1>1, <1>2, <1>3, <1>4, <1>5, <1>6, <1>7, <1>8 DEF Next, AudienceStep

\* A campaign has a row, or had one, for good.
LEMMA BornStays ==
  ASSUME TypeOK, [Next]_vars, NEW c \in Campaigns, row[c] # "none"
  PROVE  row'[c] # "none"
<1> USE DEF campaignVars
<1>1. ASSUME NEW C, NEW fk, RemoveCampaigns(C, fk)
      PROVE  row'[c] # "none"
  BY <1>1 DEF RemoveCampaigns
<1>2. ASSUME NEW d \in Campaigns, NEW T \in SUBSET Segments, NEW fk \in FkModes,
             CreateCampaign(d, T, fk)
      PROVE  row'[c] # "none"
  BY <1>2 DEF CreateCampaign, TypeOK
<1>3. CASE \/ \E fk \in FkModes : DeleteTenant(fk)
           \/ \E r \in Requests, fk \in FkModes : DeleteWrite(r, fk)
  BY <1>1, <1>3 DEF DeleteTenant, DeleteWrite
<1>4. \/ \E d \in Campaigns, T \in SUBSET Segments, fk \in FkModes :
           CreateCampaign(d, T, fk)
      \/ \E fk \in FkModes : DeleteTenant(fk)
      \/ \E r \in Requests, fk \in FkModes : DeleteWrite(r, fk)
      \/ UNCHANGED row
  <2>1. CASE AudienceStep
    BY <2>1 DEF AudienceStep, CreateContact, ImportContacts, CreateSegment,
       AddContactToSegment, RemoveContactFromSegment, DeleteContact,
       DeleteSegment, Unsubscribe, RecordOpen
  <2>2. CASE AdminStep
    BY <2>2 DEF AdminStep, SendRead, UpdateRead, DeleteRead, ReadDraft,
       Enqueue, UpdateWrite
  <2>3. CASE WorkerStep
    BY <2>3 DEF WorkerStep, Take, Load, Mark, FetchAttachment, Prepare,
       ListRecipients, SendMail, RecordOutcome, Finish
  <2>4. CASE Crash \/ UNCHANGED vars
    BY <2>4 DEF Crash, vars
  <2> QED BY <2>1, <2>2, <2>3, <2>4 DEF Next
<1> QED BY <1>2, <1>3, <1>4

\* PrepareCampaignRecipients alone makes recipients, of subscribed contacts.
LEMMA NoNewRecipient ==
  ASSUME TypeOK, [Next]_vars, NEW c \in Campaigns, NEW k \in Contacts,
         recipient[c][k] = "none", contact[k] # "subscribed"
  PROVE  recipient'[c][k] = "none"
<1> USE DEF deliveryVars
<1>1. ASSUME NEW C, NEW fk, RemoveCampaigns(C, fk)
      PROVE  recipient'[c][k] = "none"
  BY <1>1 DEF RemoveCampaigns
<1>2. ASSUME NEW fk \in FkModes, Prepare(fk)
      PROVE  recipient'[c][k] = "none"
  BY <1>2, PrepareFacts DEF Audience
<1>3. CASE RecordOutcome
  BY <1>3, RecordFacts
<1>4. CASE \/ \E fk \in FkModes : DeleteTenant(fk)
           \/ \E r \in Requests, fk \in FkModes : DeleteWrite(r, fk)
  BY <1>1, <1>4 DEF DeleteTenant, DeleteWrite
<1>5. \/ \E fk \in FkModes : Prepare(fk)
      \/ RecordOutcome
      \/ \E fk \in FkModes : DeleteTenant(fk)
      \/ \E r \in Requests, fk \in FkModes : DeleteWrite(r, fk)
      \/ UNCHANGED recipient
  <2>1. CASE AudienceStep
    BY <2>1 DEF AudienceStep, CreateContact, ImportContacts, CreateSegment,
       AddContactToSegment, RemoveContactFromSegment, DeleteContact,
       DeleteSegment, Unsubscribe, RecordOpen
  <2>2. CASE AdminStep
    BY <2>2 DEF AdminStep, CreateCampaign, SendRead, UpdateRead, DeleteRead,
       ReadDraft, Enqueue, UpdateWrite
  <2>3. CASE WorkerStep
    BY <2>3 DEF WorkerStep, Take, Load, Mark, FetchAttachment,
       ListRecipients, SendMail, Finish
  <2>4. CASE Crash \/ UNCHANGED vars
    BY <2>4 DEF Crash, vars
  <2> QED BY <2>1, <2>2, <2>3, <2>4 DEF Next
<1> QED BY <1>2, <1>3, <1>4, <1>5

\* Who is to be mailed is who was, or a recipient of the campaign listed.
LEMMA TodoFromRecipients ==
  ASSUME TypeOK, [Next]_vars, NEW k \in Contacts, k \in worker'.todo
  PROVE  \/ k \in worker.todo /\ worker'.campaign = worker.campaign
         \/ /\ worker'.campaign = worker.campaign
            /\ row[worker.campaign] = "live" /\ Exists(k)
            /\ recipient[worker.campaign][k] # "none"
<1>1. ASSUME worker \in Busy, NEW pc, Goto(pc)
      PROVE  k \in worker.todo /\ worker'.campaign = worker.campaign
  BY <1>1, GotoFacts
<1>2. worker' # Idle
  BY DEF Idle
<1>3. CASE Take
  BY <1>3 DEF Take, Idle
<1>4. CASE Load \/ Mark \/ FetchAttachment \/ \E fk \in FkModes : Prepare(fk)
  BY <1>1, <1>2, <1>4, BusyWorker DEF Load, Mark, FetchAttachment, Prepare
<1>5. CASE ListRecipients
  <2> DEFINE K == {j \in Contacts : /\ row[worker.campaign] = "live" /\ Exists(j)
                                    /\ recipient[worker.campaign][j] # "none"}
  <2>1. worker \in Busy
    BY <1>5, BusyWorker DEF ListRecipients
  <2>2. CASE worker' = [worker EXCEPT !.pc = "send", !.todo = K]
    <3>1. worker'.todo = K /\ worker'.campaign = worker.campaign
      BY <2>1, <2>2 DEF Busy
    <3> QED BY <3>1
  <2> HIDE DEF K
  <2>3. worker' = [worker EXCEPT !.pc = "send", !.todo = K] \/ Goto("abort")
    BY <1>5 DEF ListRecipients, K
  <2> QED BY <1>1, <2>1, <2>2, <2>3
<1>6. ASSUME NEW j \in Contacts, SendMail(j)
      PROVE  k \in worker.todo /\ worker'.campaign = worker.campaign
  <2>1. worker \in Busy
    BY <1>6, BusyWorker DEF SendMail
  <2> QED BY <1>6, <2>1 DEF SendMail, Busy
<1>7. CASE RecordOutcome
  <2>1. worker \in Busy
    BY <1>7, BusyWorker DEF RecordOutcome
  <2> QED BY <1>7, <2>1 DEF RecordOutcome, Busy
<1>8. CASE Finish \/ Crash
  BY <1>2, <1>8 DEF Finish, Crash
<1>9. CASE AudienceStep \/ AdminStep \/ UNCHANGED vars
  <2>1. UNCHANGED worker
    BY <1>9 DEF AudienceStep, CreateContact, ImportContacts, CreateSegment,
       AddContactToSegment, RemoveContactFromSegment, DeleteContact,
       DeleteSegment, DeleteTenant, Unsubscribe, RecordOpen, AdminStep,
       CreateCampaign, SendRead, UpdateRead, DeleteRead, ReadDraft, Enqueue,
       UpdateWrite, DeleteWrite, vars, processVars
  <2> QED BY <2>1
<1> QED BY <1>3, <1>4, <1>5, <1>6, <1>7, <1>8, <1>9 DEF Next, WorkerStep

LEMMA StaysOut ==
  ASSUME TypeOK, [Next]_vars, NEW c \in Campaigns, NEW k \in Contacts,
         OutOfReach(c, k)
  PROVE  OutOfReach(c, k)'
<1>1. /\ contact'[k] \in {"unsubscribed", "gone"}
      /\ row'[c] # "none" /\ recipient'[c][k] = "none"
  BY ContactsStay, BornStays, NoNewRecipient DEF OutOfReach
<1>2. mails'[c][k] = 0
  <2>1. ASSUME NEW j \in Contacts, SendMail(j)
        PROVE  mails'[c][k] = mails[c][k]
    <3>1. worker.campaign # c \/ j # k
      BY <2>1 DEF SendMail, OutOfReach
    <3> QED BY <2>1, <3>1 DEF SendMail, TypeOK
  <2> QED BY <2>1, MailsUnchanged DEF OutOfReach
<1>3. worker'.campaign = c => k \notin worker'.todo
  BY TodoFromRecipients DEF OutOfReach
<1> QED BY <1>1, <1>2, <1>3 DEF OutOfReach

\* Whoever has unsubscribed while a campaign is a draft gets no mail of it
\* (PrepareCampaignRecipients reads the flag after Mark).
THEOREM UnsubscribedInTime == Spec => UnsubscribedBeforeSending
<1>1. ASSUME NEW c \in Campaigns, NEW k \in Contacts
      PROVE  Spec => [](contact[k] = "unsubscribed" /\ Draft(c) => [](mails[c][k] = 0))
  <2>1. Owned /\ Records /\ contact[k] = "unsubscribed" /\ Draft(c)
          => OutOfReach(c, k)
    BY DEF Owned, WorkerOwnsCampaign, DraftsUntouched, TodoUntouched, Untouched,
       Records, DraftsUnprepared, Draft, OutOfReach
  <2>2. TypeOK /\ [Next]_vars /\ OutOfReach(c, k) => OutOfReach(c, k)'
    BY StaysOut
  <2>3. OutOfReach(c, k) => mails[c][k] = 0
    BY DEF OutOfReach
  <2> QED BY <2>1, <2>2, <2>3, RecordsInvariant, TypeCorrect, PTL DEF Spec
<1> QED BY <1>1 DEF UnsubscribedBeforeSending
-----------------------------------------------------------------------------
(* Who was deleted. *)

LEMMA DeletedStep ==
  ASSUME TypeOK, [Next]_vars, NEW c \in Campaigns, NEW k \in Contacts,
         Deleted(c, k), ~Listed(c, k)
  PROVE  ~Listed(c, k)' /\ mails'[c][k] = mails[c][k]
<1>1. ~Listed(c, k)'
  BY TodoFromRecipients DEF Deleted, Listed, Exists
<1>2. mails'[c][k] = mails[c][k]
  <2>1. ASSUME NEW j \in Contacts, SendMail(j)
        PROVE  mails'[c][k] = mails[c][k]
    <3>1. worker.campaign # c \/ j # k
      BY <2>1 DEF SendMail, Listed
    <3> QED BY <2>1, <3>1 DEF SendMail, TypeOK
  <2> QED BY <2>1, MailsUnchanged
<1> QED BY <1>1, <1>2

\* A contact or a campaign that is deleted and not on the list being worked off
\* is not mailed, with dangling rows or without (GetCampaignRecipients).
THEOREM DeletedIsLeftAlone == Spec => DeletedIsNotMailed
<1>1. TypeOK /\ [Next]_vars =>
        [\A c \in Campaigns, k \in Contacts :
           Deleted(c, k) /\ ~Listed(c, k) =>
             ~Listed(c, k)' /\ mails'[c][k] = mails[c][k]]_vars
  BY DeletedStep
<1> QED BY <1>1, TypeCorrect, PTL DEF Spec, DeletedIsNotMailed
=============================================================================
