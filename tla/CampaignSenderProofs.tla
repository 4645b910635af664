------------------------ MODULE CampaignSenderProofs ------------------------
(***************************************************************************)
(* Proofs about CampaignSender for any sets of campaigns, contacts,        *)
(* segments and requests, any queue capacity and either way the pool       *)
(* treats foreign keys.                                                    *)
(***************************************************************************)
EXTENDS CampaignSender, TLAPS

-----------------------------------------------------------------------------
(* Type correctness, one lemma per group of steps. *)

LEMMA AudienceStepType == TypeOK /\ AudienceStep => TypeOK'
<1> SUFFICES ASSUME TypeOK, AudienceStep PROVE TypeOK'
  OBVIOUS
<1> USE SenderAssumption DEF TypeOK, RowStates, audienceVars, campaignVars, deliveryVars,
        processVars, boundVars
<1>1. ASSUME NEW K \in SUBSET Contacts, ImportContacts(K) PROVE TypeOK'
  BY <1>1 DEF ImportContacts
<1>2. ASSUME NEW s \in Segments, CreateSegment(s) PROVE TypeOK'
  BY <1>2 DEF CreateSegment
<1>3. ASSUME NEW k \in Contacts, NEW s \in Segments, NEW fk \in FkModes,
             AddContactToSegment(k, s, fk) \/ RemoveContactFromSegment(k, s)
      PROVE TypeOK'
  BY <1>3 DEF AddContactToSegment, RemoveContactFromSegment
<1>4. ASSUME NEW k \in Contacts, NEW fk \in FkModes, DeleteContact(k, fk)
      PROVE TypeOK'
  BY <1>4 DEF DeleteContact
<1>5. ASSUME NEW s \in Segments, NEW fk \in FkModes, DeleteSegment(s, fk)
      PROVE TypeOK'
  BY <1>5 DEF DeleteSegment
<1>6. ASSUME NEW fk \in FkModes, DeleteTenant(fk) PROVE TypeOK'
  BY <1>6 DEF DeleteTenant, RemoveCampaigns
<1>7. ASSUME NEW k \in Contacts, Unsubscribe(k) PROVE TypeOK'
  BY <1>7 DEF Unsubscribe
<1>8. ASSUME NEW c \in Campaigns, NEW k \in Contacts, RecordOpen(c, k)
      PROVE TypeOK'
  BY <1>8 DEF RecordOpen
<1>9. QED
  BY <1>1, <1>2, <1>3, <1>4, <1>5, <1>6, <1>7, <1>8
     DEF AudienceStep, CreateContact

LEMMA AdminStepType == TypeOK /\ AdminStep => TypeOK'
<1> SUFFICES ASSUME TypeOK, AdminStep PROVE TypeOK'
  OBVIOUS
<1> USE SenderAssumption DEF TypeOK, RowStates, audienceVars, campaignVars, deliveryVars,
        processVars, boundVars, AdminRequests, NoRequest
<1>1. ASSUME NEW c \in Campaigns, NEW T \in SUBSET Segments, NEW fk \in FkModes,
             CreateCampaign(c, T, fk)
      PROVE TypeOK'
  BY <1>1 DEF CreateCampaign
<1>2. ASSUME NEW r \in Requests, NEW c \in Campaigns, NEW T \in SUBSET Segments,
             NEW op \in {"enqueue", "update", "delete"}, ReadDraft(r, op, c, T)
      PROVE TypeOK'
  BY <1>2 DEF ReadDraft
<1>3. ASSUME NEW r \in Requests, NEW c \in Campaigns,
             SendRead(r, c) \/ DeleteRead(r, c)
      PROVE TypeOK'
  BY <1>2, <1>3 DEF SendRead, DeleteRead
<1>4. ASSUME NEW r \in Requests, NEW c \in Campaigns, NEW T \in SUBSET Segments,
             UpdateRead(r, c, T)
      PROVE TypeOK'
  BY <1>2, <1>4 DEF UpdateRead
<1>5. ASSUME NEW r \in Requests, Enqueue(r) PROVE TypeOK'
  BY <1>5 DEF Enqueue
<1>6. ASSUME NEW r \in Requests, NEW fk \in FkModes, UpdateWrite(r, fk)
      PROVE TypeOK'
  <2> DEFINE c == request[r].campaign
  <2>0. c \in Campaigns /\ request[r].target \in SUBSET Segments
    <3>1. request[r] \in AdminRequests /\ request[r].op = "update"
      BY <1>6 DEF UpdateWrite
    <3>2. QED
      BY <3>1
  <2>1. text' \in [Campaigns -> 0..MaxEdits]
    <3>1. CASE text' = text
      BY <3>1
    <3>2. CASE text' = [text EXCEPT ![c] = @ + 1] /\ row[c] = "live"
      <4>1. text[c] + 1 \in 0..MaxEdits
        BY <1>6, <2>0, <3>2 DEF UpdateWrite
      <4>2. QED
        BY <2>0, <3>2, <4>1
    <3>3. QED
      BY <1>6, <3>1, <3>2 DEF UpdateWrite
  <2>2. target' \in [Campaigns -> SUBSET Segments]
    <3>1. target' = target \/ target' = [target EXCEPT ![c] = request[r].target]
      BY <1>6 DEF UpdateWrite
    <3>2. QED
      BY <2>0, <3>1
  <2>3. request' \in [Requests -> AdminRequests]
    BY <1>6 DEF UpdateWrite
  <2>4. QED
    BY <1>6, <2>1, <2>2, <2>3 DEF UpdateWrite
<1>7. ASSUME NEW r \in Requests, NEW fk \in FkModes, DeleteWrite(r, fk)
      PROVE TypeOK'
  <2>1. RemoveCampaigns({request[r].campaign}, fk)
    BY <1>7 DEF DeleteWrite
  <2>2. /\ row' \in [Campaigns -> RowStates]
        /\ target' \in [Campaigns -> SUBSET Segments]
        /\ recipient' \in [Campaigns ->
                             [Contacts -> {"none", "queued", "sent", "failed"}]]
        /\ opened' \in SUBSET (Campaigns \X Contacts)
        /\ UNCHANGED <<status, text, mails>>
    BY <2>1 DEF RemoveCampaigns
  <2>3. request' \in [Requests -> AdminRequests]
    BY <1>7 DEF DeleteWrite
  <2>4. QED
    BY <1>7, <2>2, <2>3 DEF DeleteWrite
<1>8. QED
  BY <1>1, <1>3, <1>4, <1>5, <1>6, <1>7 DEF AdminStep

LEMMA BusyWorker == TypeOK /\ worker.pc # "idle" => worker \in Busy
BY DEF TypeOK, Workers, Idle

LEMMA BusyGoto ==
  ASSUME worker \in Busy,
         NEW pc \in {"load", "mark", "attach", "prepare", "list", "abort"}, Goto(pc)
  PROVE  worker' \in Workers
BY DEF Goto, Workers, Busy

LEMMA UpdateCell ==
  ASSUME NEW D, NEW E, NEW S, NEW f \in [D -> [E -> S]], NEW d \in D, NEW e,
         NEW v \in S
  PROVE  [f EXCEPT ![d][e] = v] \in [D -> [E -> S]]
<1>1. f[d] \in [E -> S]
  OBVIOUS
<1>2. [f[d] EXCEPT ![e] = v] \in [E -> S]
  BY <1>1
<1>3. QED
  BY <1>2

LEMMA WriteStatusType ==
  ASSUME TypeOK, NEW c \in Campaigns, NEW s \in Statuses, WriteStatus(c, s)
  PROVE  status' \in [Campaigns -> Statuses]
<1>1. status \in [Campaigns -> Statuses]
  BY DEF TypeOK
<1>2. status' = status \/ status' = [status EXCEPT ![c] = s]
  BY DEF WriteStatus
<1>3. QED
  BY <1>1, <1>2

LEMMA FaultType == TypeOK /\ Fault => faults' \in 0..MaxFaults
BY SenderAssumption DEF TypeOK, Fault

LEMMA WorkerStepType == TypeOK /\ WorkerStep => TypeOK'
<1> SUFFICES ASSUME TypeOK, WorkerStep PROVE TypeOK'
  OBVIOUS
<1> USE SenderAssumption DEF TypeOK, RowStates, Statuses,
        Fault, WriteStatus, audienceVars, campaignVars, deliveryVars,
        processVars, boundVars
<1>0. Idle \in Workers
  BY DEF Workers
<1>1. CASE Take
  <2>1. Head(queue) \in Campaigns /\ queue' \in Seq(Campaigns)
    BY <1>1 DEF Take
  <2>2. worker' \in Workers
    BY <1>1, <2>1 DEF Take, Workers, Busy, Idle
  <2>3. QED
    BY <1>1, <2>1, <2>2 DEF Take
<1>2. CASE Load
  <2>1. worker' \in Workers
    BY <1>0, <1>2, BusyWorker, BusyGoto DEF Load
  <2>2. QED
    BY <1>2, <2>1 DEF Load
<1>3. CASE Mark
  <2>1. worker' \in Workers
    BY <1>0, <1>3, BusyWorker, BusyGoto DEF Mark
  <2>2. status' \in [Campaigns -> Statuses]
    <3>1. worker.campaign \in Campaigns
      BY <1>3, BusyWorker DEF Mark, Busy
    <3>2. QED
      BY <1>3, <3>1, WriteStatusType DEF Mark
  <2>3. QED
    BY <1>3, <2>1, <2>2, FaultType DEF Mark
<1>4. CASE FetchAttachment
  <2>1. worker' \in Workers
    BY <1>4, BusyWorker, BusyGoto DEF FetchAttachment
  <2>2. QED
    BY <1>4, <2>1 DEF FetchAttachment
<1>5. ASSUME NEW fk \in FkModes, Prepare(fk) PROVE TypeOK'
  <2>1. worker' \in Workers
    BY <1>5, BusyWorker, BusyGoto DEF Prepare
  <2>2. recipient' \in [Campaigns ->
                          [Contacts -> {"none", "queued", "sent", "failed"}]]
    BY <1>5 DEF Prepare
  <2>3. QED
    BY <1>5, <2>1, <2>2 DEF Prepare
<1>6. CASE ListRecipients
  <2>1. worker' \in Workers
    <3>1. worker \in Busy
      BY <1>6, BusyWorker DEF ListRecipients
    <3>2. ASSUME NEW K \in SUBSET Contacts,
                 worker' = [worker EXCEPT !.pc = "send", !.todo = K]
          PROVE  worker' \in Workers
      <4>1. worker' = [pc |-> "send", campaign |-> worker.campaign,
                       todo |-> K, contact |-> worker.contact,
                       outcome |-> worker.outcome,
                       allSuccess |-> worker.allSuccess]
        BY <3>1, <3>2 DEF Busy
      <4>2. QED
        BY <3>1, <4>1 DEF Busy, Workers
    <3> DEFINE K == {k \in Contacts : /\ row[worker.campaign] = "live" /\ Exists(k)
                                      /\ recipient[worker.campaign][k] # "none"}
    <3>3. CASE worker' = [worker EXCEPT !.pc = "send", !.todo = K]
      <4>1. K \in SUBSET Contacts
        OBVIOUS
      <4> HIDE DEF K
      <4>2. QED
        BY <3>2, <3>3, <4>1
    <3>4. CASE Goto("abort")
      BY <3>1, <3>4, BusyGoto
    <3>5. QED
      BY <1>6, <3>3, <3>4 DEF ListRecipients
  <2>2. QED
    BY <1>6, <2>1 DEF ListRecipients
<1>7. ASSUME NEW k \in Contacts, SendMail(k) PROVE TypeOK'
  <2>1. worker \in Busy
    BY <1>7, BusyWorker DEF SendMail
  <2>2. worker' \in Workers
    <3>1. PICK outcome \in {"sent", "failed"} :
            worker' = [worker EXCEPT
               !.pc = "record", !.todo = @ \ {k}, !.contact = k,
               !.outcome = outcome,
               !.allSuccess = @ /\ outcome = "sent"]
      BY <1>7 DEF SendMail
    <3>2. worker' = [pc |-> "record", campaign |-> worker.campaign,
                     todo |-> worker.todo \ {k}, contact |-> k,
                     outcome |-> outcome,
                     allSuccess |-> worker.allSuccess /\ outcome = "sent"]
      BY <2>1, <3>1 DEF Busy
    <3>3. QED
      BY <2>1, <3>2 DEF Busy, Workers
  <2>3. mails' \in [Campaigns -> [Contacts -> Nat]]
    <3>1. \/ mails' = mails
          \/ mails' = [mails EXCEPT ![worker.campaign][k] =
                                       mails[worker.campaign][k] + 1]
      BY <1>7 DEF SendMail
    <3>2. worker.campaign \in Campaigns /\ mails[worker.campaign][k] + 1 \in Nat
      BY <2>1 DEF Busy
    <3>3. QED
      BY <3>1, <3>2, UpdateCell
  <2>4. QED
    BY <1>7, <2>2, <2>3 DEF SendMail
<1>8. CASE RecordOutcome
  <2>1. worker \in Busy
    BY <1>8, BusyWorker DEF RecordOutcome
  <2>2. worker' \in Workers
    BY <1>8, <2>1 DEF RecordOutcome, Workers, Busy
  <2>3. recipient' \in [Campaigns ->
                          [Contacts -> {"none", "queued", "sent", "failed"}]]
    <3>1. worker.campaign \in Campaigns /\ worker.outcome \in {"sent", "failed"}
      BY <2>1 DEF Busy
    <3>2. \/ recipient' = recipient
          \/ recipient' = [recipient EXCEPT
                             ![worker.campaign][worker.contact] = worker.outcome]
      BY <1>8 DEF RecordOutcome
    <3>3. QED
      BY <3>1, <3>2, UpdateCell
  <2>4. QED
    BY <1>8, <2>2, <2>3 DEF RecordOutcome
<1>9. CASE Finish
  <2>1. worker.campaign \in Campaigns /\ FinalStatus \in Statuses
    BY <1>9, BusyWorker DEF Finish, Busy, FinalStatus
  <2>2. status' \in [Campaigns -> Statuses]
    BY <1>9, <2>1, WriteStatusType DEF Finish
  <2>3. QED
    BY <1>0, <1>9, <2>2, FaultType DEF Finish
<1>10. QED
  BY <1>1, <1>2, <1>3, <1>4, <1>5, <1>6, <1>7, <1>8, <1>9 DEF WorkerStep

\* The state always has its type: the queue holds campaigns, a busy worker and
\* a busy handler hold one, and every status is one of the code's.
THEOREM TypeCorrect == Spec => []TypeOK
<1>1. Init => TypeOK
  BY SenderAssumption DEF Init, TypeOK, RowStates, Statuses, Workers,
     AdminRequests
<1>2. TypeOK /\ [Next]_vars => TypeOK'
  <2> SUFFICES ASSUME TypeOK, [Next]_vars PROVE TypeOK'
    OBVIOUS
  <2>1. CASE Crash
    BY <2>1, SenderAssumption DEF Crash, TypeOK, Workers, AdminRequests,
       audienceVars, campaignVars, deliveryVars
  <2>2. CASE UNCHANGED vars
    BY <2>2 DEF vars, TypeOK, audienceVars, campaignVars, deliveryVars,
       processVars, boundVars
  <2>3. QED
    BY <2>1, <2>2, AudienceStepType, AdminStepType, WorkerStepType DEF Next
<1>3. QED
  BY <1>1, <1>2, PTL DEF Spec

-----------------------------------------------------------------------------
(* The worker's grip on its campaign. *)

\* What the invariant speaks of is left alone by most requests.
LEMMA OwnsFrame ==
  ASSUME WorkerOwnsCampaign, UNCHANGED <<row, status, recipient, mails, worker>>
  PROVE  WorkerOwnsCampaign'
BY DEF WorkerOwnsCampaign, DraftsUntouched, HeldCampaign, TodoUntouched,
   Untouched

LEMMA OwnsRemove ==
  ASSUME TypeOK, WorkerOwnsCampaign, UNCHANGED worker,
         NEW C \in SUBSET Campaigns, NEW fk \in FkModes, RemoveCampaigns(C, fk)
  PROVE  WorkerOwnsCampaign'
<1>1. /\ UNCHANGED <<status, mails>>
      /\ \A c \in Campaigns : row'[c] \in {row[c], "gone"}
      /\ \A c \in Campaigns : row[c] = "none" <=> row'[c] = "none"
      /\ \A c \in Campaigns, k \in Contacts :
           recipient'[c][k] \in {recipient[c][k], "none"}
  BY DEF RemoveCampaigns, TypeOK, RowStates
<1>2. \A c \in Campaigns, k \in Contacts : Untouched(c, k) => Untouched(c, k)'
  BY <1>1 DEF Untouched
<1>3. DraftsUntouched'
  BY <1>1, <1>2 DEF WorkerOwnsCampaign, DraftsUntouched
<1>4. worker.pc # "idle" => worker \in Busy
  BY BusyWorker
<1>5. HeldCampaign'
  BY <1>1, <1>4 DEF WorkerOwnsCampaign, HeldCampaign, Busy
<1>6. TodoUntouched'
  <2>1. CASE worker.pc = "idle"
    BY <2>1 DEF TypeOK, Workers, Busy, Idle, TodoUntouched
  <2>2. CASE worker.pc # "idle"
    <3>1. worker.campaign \in Campaigns /\ worker.todo \in SUBSET Contacts
      BY <1>4, <2>2 DEF Busy
    <3>2. QED
      BY <1>1, <1>2, <3>1 DEF WorkerOwnsCampaign, TodoUntouched
  <2>3. QED
    BY <2>1, <2>2
<1>7. QED
  BY <1>3, <1>5, <1>6 DEF WorkerOwnsCampaign

\* Without a worker in a campaign only the drafts matter.
LEMMA OwnsIdle ==
  ASSUME DraftsUntouched', worker' = Idle
  PROVE  WorkerOwnsCampaign'
BY DEF WorkerOwnsCampaign, HeldCampaign, TodoUntouched, Idle

LEMMA AudienceStepOwns ==
  TypeOK /\ WorkerOwnsCampaign /\ AudienceStep => WorkerOwnsCampaign'
<1> SUFFICES ASSUME TypeOK, WorkerOwnsCampaign, AudienceStep
             PROVE  WorkerOwnsCampaign'
  OBVIOUS
<1>1. ASSUME NEW fk \in FkModes, DeleteTenant(fk) PROVE WorkerOwnsCampaign'
  BY <1>1, OwnsRemove DEF DeleteTenant, processVars
<1>2. CASE ~ \E fk \in FkModes : DeleteTenant(fk)
  <2>1. UNCHANGED <<row, status, recipient, mails, worker>>
    BY <1>2 DEF AudienceStep, CreateContact, ImportContacts, CreateSegment,
       AddContactToSegment, RemoveContactFromSegment, DeleteContact,
       DeleteSegment, Unsubscribe, RecordOpen, campaignVars, deliveryVars,
       processVars
  <2>2. QED
    BY <2>1, OwnsFrame
<1>3. QED
  BY <1>1, <1>2

LEMMA AdminStepOwns ==
  TypeOK /\ WorkerOwnsCampaign /\ AdminStep => WorkerOwnsCampaign'
<1> SUFFICES ASSUME TypeOK, WorkerOwnsCampaign, AdminStep
             PROVE  WorkerOwnsCampaign'
  OBVIOUS
<1>1. ASSUME NEW c \in Campaigns, NEW T \in SUBSET Segments, NEW fk \in FkModes,
             CreateCampaign(c, T, fk)
      PROVE  WorkerOwnsCampaign'
  <2>1. /\ UNCHANGED <<status, recipient, mails, worker>>
        /\ \A d \in Campaigns : row'[d] = row[d] \/ (row[d] = "none" /\ row'[d] = "live")
    BY <1>1 DEF CreateCampaign, deliveryVars, processVars, TypeOK
  <2>2. HeldCampaign'
    <3>1. worker.pc # "idle" => worker.campaign \in Campaigns
      BY BusyWorker DEF Busy
    <3>2. QED
      BY <2>1, <3>1 DEF WorkerOwnsCampaign, HeldCampaign
  <2>3. QED
    BY <2>1, <2>2 DEF WorkerOwnsCampaign, DraftsUntouched, TodoUntouched,
       Untouched
<1>2. ASSUME NEW r \in Requests, NEW fk \in FkModes, DeleteWrite(r, fk)
      PROVE  WorkerOwnsCampaign'
  <2>1. request[r] \in AdminRequests /\ request[r].op = "delete"
    BY <1>2 DEF TypeOK, DeleteWrite
  <2>2. request[r].campaign \in Campaigns
    BY <2>1 DEF AdminRequests, NoRequest
  <2>3. RemoveCampaigns({request[r].campaign}, fk) /\ UNCHANGED worker
    BY <1>2 DEF DeleteWrite
  <2>4. QED
    BY <2>2, <2>3, OwnsRemove
<1>3. CASE UNCHANGED <<row, status, recipient, mails, worker>>
  BY <1>3, OwnsFrame
<1>4. ASSUME NEW r \in Requests, NEW c \in Campaigns, NEW op, NEW T,
             ReadDraft(r, op, c, T)
      PROVE  UNCHANGED <<row, status, recipient, mails, worker>>
  BY <1>4 DEF ReadDraft, campaignVars, deliveryVars
<1>5. ASSUME NEW r \in Requests, NEW fk \in FkModes,
             Enqueue(r) \/ UpdateWrite(r, fk)
      PROVE  UNCHANGED <<row, status, recipient, mails, worker>>
  BY <1>5 DEF Enqueue, UpdateWrite, campaignVars, deliveryVars
<1>6. PICK fk \in FkModes : TRUE
  BY SenderAssumption
<1>7. QED
  BY <1>1, <1>2, <1>3, <1>4, <1>5, <1>6
     DEF AdminStep, SendRead, UpdateRead, DeleteRead

LEMMA WorkerStepOwns ==
  TypeOK /\ WorkerOwnsCampaign /\ WorkerStep => WorkerOwnsCampaign'
<1> SUFFICES ASSUME TypeOK, WorkerOwnsCampaign, WorkerStep
             PROVE  WorkerOwnsCampaign'
  OBVIOUS
<1> DEFINE c == worker.campaign
<1>0. worker.pc # "idle" => /\ c \in Campaigns /\ worker.todo \in SUBSET Contacts
                            /\ worker \in Busy
  BY BusyWorker DEF Busy
<1>1. CASE Take
  <2>1. /\ worker'.pc = "load" /\ worker'.todo = {}
        /\ UNCHANGED <<row, status, recipient, mails>>
    BY <1>1 DEF Take, Idle, campaignVars, deliveryVars
  <2>2. QED
    BY <2>1 DEF WorkerOwnsCampaign, DraftsUntouched, HeldCampaign,
       TodoUntouched, Untouched
<1>2. ASSUME UNCHANGED <<row, status, recipient, mails>>, worker' = Idle
      PROVE  WorkerOwnsCampaign'
  <2>1. DraftsUntouched'
    BY <1>2 DEF WorkerOwnsCampaign, DraftsUntouched, Untouched
  <2>2. QED
    BY <1>2, <2>1, OwnsIdle
<1>3. CASE Load
  <2>1. UNCHANGED <<row, status, recipient, mails>>
    BY <1>3 DEF Load, campaignVars, deliveryVars
  <2>2. CASE Draft(c) /\ Goto("mark")
    <3>1. /\ worker'.pc = "mark" /\ worker'.campaign = c
          /\ worker'.todo = worker.todo
          /\ worker.pc = "load"
      BY <1>0, <1>3, <2>2 DEF Load, Goto, Busy
    <3>2. QED
      BY <1>0, <2>1, <2>2, <3>1 DEF WorkerOwnsCampaign, DraftsUntouched,
         HeldCampaign, TodoUntouched, Untouched, Draft
  <2>3. QED
    BY <1>2, <1>3, <2>1, <2>2 DEF Load
<1>4. CASE Mark
  <2>1. UNCHANGED <<row, recipient, mails>>
    BY <1>4 DEF Mark, deliveryVars
  <2>2. CASE WriteStatus(c, "sending") /\ Goto("attach")
    <3>1. /\ worker'.pc = "attach" /\ worker'.campaign = c
          /\ worker'.todo = worker.todo
          /\ worker.pc = "mark" /\ c \in Campaigns
      BY <1>0, <1>4, <2>2 DEF Mark, Goto, Busy
    <3>2. row[c] \in {"live", "gone"} /\ status[c] = "draft" /\ worker.todo = {}
      BY <3>1 DEF TypeOK, RowStates, WorkerOwnsCampaign, HeldCampaign,
         TodoUntouched
    <3>3. \A d \in Campaigns :
            status'[d] = IF d = c /\ row[c] = "live" THEN "sending" ELSE status[d]
      BY <2>2, <3>1 DEF WriteStatus, TypeOK
    <3>4. \A k \in Contacts : Untouched(c, k)'
      BY <2>1, <3>1, <3>2 DEF WorkerOwnsCampaign, DraftsUntouched, Untouched
    <3>5. DraftsUntouched'
      BY <2>1, <3>3 DEF WorkerOwnsCampaign, DraftsUntouched, Untouched
    <3>6. HeldCampaign'
      BY <2>1, <3>1, <3>2, <3>3 DEF HeldCampaign
    <3>7. TodoUntouched'
      BY <3>1, <3>2, <3>4 DEF TodoUntouched
    <3>8. QED
      BY <3>5, <3>6, <3>7 DEF WorkerOwnsCampaign
  <2>3. QED
    BY <1>2, <1>4, <2>1, <2>2 DEF Mark
<1>5. CASE FetchAttachment
  <2>1. /\ worker.pc = "attach"
        /\ worker'.pc \in {"prepare", "abort"} /\ worker'.campaign = c
        /\ worker'.todo = worker.todo
    BY <1>0, <1>5 DEF FetchAttachment, Goto, Busy
  <2>2. UNCHANGED <<row, status, recipient, mails>>
    BY <1>5 DEF FetchAttachment, campaignVars, deliveryVars
  <2>3. QED
    BY <2>1, <2>2 DEF WorkerOwnsCampaign, DraftsUntouched, HeldCampaign,
       TodoUntouched, Untouched
<1>6. ASSUME NEW fk \in FkModes, Prepare(fk) PROVE WorkerOwnsCampaign'
  <2>1. /\ worker.pc = "prepare"
        /\ worker'.pc \in {"list", "abort"} /\ worker'.campaign = c
        /\ worker'.todo = worker.todo
    BY <1>0, <1>6 DEF Prepare, Goto, Busy
  <2>2. UNCHANGED <<row, status, mails>>
    BY <1>6 DEF Prepare, campaignVars
  <2>3. \A d \in Campaigns, k \in Contacts :
          recipient'[d][k] = recipient[d][k] \/
            (recipient[d][k] = "none" /\ recipient'[d][k] = "queued")
    <3>1. CASE recipient' = recipient
      BY <3>1
    <3>2. CASE recipient' = [recipient EXCEPT ![c] =
                 [k \in Contacts |-> IF k \in Audience(c) /\ @[k] = "none"
                                     THEN "queued" ELSE @[k]]]
      BY <3>2 DEF TypeOK
    <3>3. QED
      BY <1>6, <3>1, <3>2 DEF Prepare
  <2>4. \A d \in Campaigns, k \in Contacts :
          Untouched(d, k) => Untouched(d, k)'
    BY <2>2, <2>3 DEF Untouched
  <2>5. QED
    BY <1>0, <2>1, <2>2, <2>4 DEF WorkerOwnsCampaign, DraftsUntouched,
       HeldCampaign, TodoUntouched
<1>7. CASE ListRecipients
  <2>1. worker.pc = "list" /\ UNCHANGED <<row, status, recipient, mails>>
    BY <1>7 DEF ListRecipients, campaignVars, deliveryVars
  <2>2. CASE Goto("abort")
    BY <1>0, <2>1, <2>2 DEF Goto, Busy, WorkerOwnsCampaign, DraftsUntouched,
       HeldCampaign, TodoUntouched, Untouched
  <2>3. ASSUME NEW K \in SUBSET Contacts, K # {} => row[c] = "live",
               worker' = [worker EXCEPT !.pc = "send", !.todo = K]
        PROVE  WorkerOwnsCampaign'
    <3>1. worker'.pc = "send" /\ worker'.campaign = c /\ worker'.todo = K
      BY <1>0, <2>1, <2>3 DEF Busy
    <3>2. \A k \in K : status[c] = "sending" /\ Untouched(c, k)
      BY <2>1, <2>3 DEF WorkerOwnsCampaign, HeldCampaign, TodoUntouched
    <3>3. QED
      BY <2>1, <3>1, <3>2 DEF WorkerOwnsCampaign, DraftsUntouched,
         HeldCampaign, TodoUntouched, Untouched
  <2> DEFINE K == {k \in Contacts : /\ row[c] = "live" /\ Exists(k)
                                    /\ recipient[c][k] # "none"}
  <2>4. K \in SUBSET Contacts /\ (K # {} => row[c] = "live")
    OBVIOUS
  <2>5. Goto("abort") \/ worker' = [worker EXCEPT !.pc = "send", !.todo = K]
    BY <1>7 DEF ListRecipients
  <2>6. QED
    BY <2>2, <2>3, <2>4, <2>5
<1>8. ASSUME NEW k \in Contacts, SendMail(k) PROVE WorkerOwnsCampaign'
  <2>1. /\ worker.pc = "send" /\ k \in worker.todo /\ c \in Campaigns
        /\ worker'.pc = "record" /\ worker'.campaign = c
        /\ worker'.contact = k /\ worker'.todo = worker.todo \ {k}
    BY <1>0, <1>8 DEF SendMail, Busy
  <2>2. UNCHANGED <<row, status, recipient>>
    BY <1>8 DEF SendMail, campaignVars
  <2>3. \A d \in Campaigns, l \in Contacts :
          d # c \/ l # k => mails'[d][l] = mails[d][l]
    BY <1>8 DEF SendMail, TypeOK
  <2>4. status[c] = "sending" /\ Untouched(c, k)
    BY <2>1 DEF WorkerOwnsCampaign, TodoUntouched
  <2>5. DraftsUntouched'
    BY <2>2, <2>3, <2>4 DEF WorkerOwnsCampaign, DraftsUntouched, Untouched
  <2>6. HeldCampaign'
    BY <2>1, <2>2, <2>4 DEF HeldCampaign
  <2>7. TodoUntouched'
    <3>1. worker.todo \in SUBSET Contacts
      BY <1>0, <2>1
    <3>2. QED
      BY <2>1, <2>2, <2>3, <2>4, <3>1
         DEF WorkerOwnsCampaign, TodoUntouched, Untouched
  <2>8. QED
    BY <2>5, <2>6, <2>7 DEF WorkerOwnsCampaign
<1>9. CASE RecordOutcome
  <2>1. /\ worker.pc = "record" /\ c \in Campaigns
        /\ worker'.pc = "send" /\ worker'.campaign = c
        /\ worker'.todo = worker.todo
    BY <1>0, <1>9 DEF RecordOutcome, Busy
  <2>2. UNCHANGED <<row, status, mails>>
    BY <1>9 DEF RecordOutcome, campaignVars
  <2>3. \A d \in Campaigns, k \in Contacts :
          d # c \/ k # worker.contact => recipient'[d][k] = recipient[d][k]
    BY <1>9 DEF RecordOutcome, TypeOK
  <2>4. status[c] = "sending" /\ worker.contact \notin worker.todo
    BY <2>1 DEF WorkerOwnsCampaign, TodoUntouched
  <2>5. DraftsUntouched'
    BY <2>2, <2>3, <2>4 DEF WorkerOwnsCampaign, DraftsUntouched, Untouched
  <2>6. HeldCampaign'
    BY <2>1, <2>2, <2>4 DEF HeldCampaign
  <2>7. TodoUntouched'
    <3>1. worker.todo \in SUBSET Contacts
      BY <1>0, <2>1
    <3>2. QED
      BY <2>1, <2>2, <2>3, <2>4, <3>1
         DEF WorkerOwnsCampaign, TodoUntouched, Untouched
  <2>8. QED
    BY <2>5, <2>6, <2>7 DEF WorkerOwnsCampaign
<1>10. CASE Finish
  <2>1. UNCHANGED <<row, recipient, mails>> /\ worker' = Idle
    BY <1>10 DEF Finish, deliveryVars
  <2>2. \A d \in Campaigns : status'[d] = "draft" => status[d] = "draft"
    BY <1>0, <1>10 DEF Finish, WriteStatus, FinalStatus, TypeOK
  <2>3. DraftsUntouched'
    BY <2>1, <2>2 DEF WorkerOwnsCampaign, DraftsUntouched, Untouched
  <2>4. QED
    BY <2>1, <2>3, OwnsIdle
<1>11. QED
  BY <1>1, <1>3, <1>4, <1>5, <1>6, <1>7, <1>8, <1>9, <1>10 DEF WorkerStep

LEMMA OwnsInvariant == Spec => [](TypeOK /\ WorkerOwnsCampaign)
<1>1. Init => WorkerOwnsCampaign
  BY DEF Init, WorkerOwnsCampaign, DraftsUntouched, HeldCampaign,
     TodoUntouched, Untouched, Idle
<1>2. TypeOK /\ WorkerOwnsCampaign /\ [Next]_vars => WorkerOwnsCampaign'
  <2> SUFFICES ASSUME TypeOK, WorkerOwnsCampaign, [Next]_vars
               PROVE  WorkerOwnsCampaign'
    OBVIOUS
  <2>1. CASE Crash
    <3>1. worker' = Idle /\ UNCHANGED <<row, status, recipient, mails>>
      BY <2>1 DEF Crash, campaignVars, deliveryVars
    <3>2. DraftsUntouched'
      BY <3>1 DEF WorkerOwnsCampaign, DraftsUntouched, Untouched
    <3>3. QED
      BY <3>1, <3>2, OwnsIdle
  <2>2. CASE UNCHANGED vars
    BY <2>2, OwnsFrame DEF vars, campaignVars, deliveryVars, processVars
  <2>3. QED
    BY <2>1, <2>2, AudienceStepOwns, AdminStepOwns, WorkerStepOwns DEF Next
<1>3. QED
  BY <1>1, <1>2, TypeCorrect, PTL DEF Spec

\* The worker holds the draft it read, and whoever it has still to mail has
\* no mail and no outcome yet (processCampaign, SetCampaignStatus).
THEOREM OwnsCampaign == Spec => []WorkerOwnsCampaign
BY OwnsInvariant, PTL

-----------------------------------------------------------------------------
(* What follows from it. *)

LEMMA MailsUnchanged ==
  ASSUME TypeOK, [Next]_vars, ~ \E k \in Contacts : SendMail(k)
  PROVE  UNCHANGED mails
<1>1. CASE WorkerStep
  BY <1>1 DEF WorkerStep, Take, Load, Mark, FetchAttachment, Prepare,
     ListRecipients, RecordOutcome, Finish, deliveryVars
<1>2. CASE AudienceStep
  BY <1>2 DEF AudienceStep, CreateContact, ImportContacts, CreateSegment,
     AddContactToSegment, RemoveContactFromSegment, DeleteContact,
     DeleteSegment, DeleteTenant, RemoveCampaigns, Unsubscribe, RecordOpen,
     deliveryVars
<1>3. CASE AdminStep
  BY <1>3 DEF AdminStep, CreateCampaign, SendRead, UpdateRead, DeleteRead,
     ReadDraft, Enqueue, UpdateWrite, DeleteWrite, RemoveCampaigns,
     deliveryVars
<1>4. CASE Crash \/ UNCHANGED vars
  BY <1>4 DEF Crash, vars, deliveryVars
<1>5. QED
  BY <1>1, <1>2, <1>3, <1>4 DEF Next

\* SendMail mails a contact for the first time, for a campaign that is being
\* sent.
LEMMA FirstMail ==
  ASSUME TypeOK, WorkerOwnsCampaign, NEW k \in Contacts, SendMail(k)
  PROVE  LET c == worker.campaign
         IN /\ c \in Campaigns /\ status[c] = "sending" /\ mails[c][k] = 0
            /\ mails' \in {mails, [mails EXCEPT ![c][k] = 1]}
<1> DEFINE c == worker.campaign
<1>1. c \in Campaigns
  BY BusyWorker DEF SendMail, Busy
<1>2. status[c] = "sending" /\ mails[c][k] = 0
  BY DEF SendMail, WorkerOwnsCampaign, TodoUntouched, Untouched
<1>3. mails' = mails \/ mails' = [mails EXCEPT ![c][k] = mails[c][k] + 1]
  BY DEF SendMail
<1>4. QED
  BY <1>1, <1>2, <1>3

\* No contact is mailed twice by a campaign, however often it is enqueued,
\* edited, deleted or interrupted by a restart.
THEOREM AtMostOnce == Spec => []MailedAtMostOnce
<1>1. Init => MailedAtMostOnce
  BY DEF Init, MailedAtMostOnce
<1>2. TypeOK /\ WorkerOwnsCampaign /\ MailedAtMostOnce /\ [Next]_vars
        => MailedAtMostOnce'
  <2> SUFFICES ASSUME TypeOK, WorkerOwnsCampaign, MailedAtMostOnce, [Next]_vars
               PROVE  MailedAtMostOnce'
    OBVIOUS
  <2>1. ASSUME NEW k \in Contacts, SendMail(k) PROVE MailedAtMostOnce'
    <3>1. mails' = mails \/ mails' = [mails EXCEPT ![worker.campaign][k] = 1]
      BY <2>1, FirstMail
    <3>2. mails \in [Campaigns -> [Contacts -> Nat]]
      BY DEF TypeOK
    <3>3. QED
      BY <3>1, <3>2 DEF MailedAtMostOnce
  <2>2. QED
    BY <2>1, MailsUnchanged DEF MailedAtMostOnce
<1>3. QED
  BY <1>1, <1>2, OwnsInvariant, PTL DEF Spec

\* What the statistics say of a recipient is said once: "sent" and "failed"
\* are never overwritten by the worker (UpdateRecipientStatus,
\* PrepareCampaignRecipients).
THEOREM OutcomesStay == Spec => OutcomeIsFinal
<1> DEFINE Final ==
      \A c \in Campaigns, k \in Contacts :
        recipient[c][k] \in {"sent", "failed"} =>
          recipient'[c][k] \in {recipient[c][k], "none"}
<1>1. TypeOK /\ WorkerOwnsCampaign /\ [Next]_vars => Final
  <2> SUFFICES ASSUME TypeOK, WorkerOwnsCampaign, [Next]_vars PROVE Final
    OBVIOUS
  <2>1. CASE UNCHANGED recipient
    BY <2>1
  <2>2. ASSUME NEW C \in SUBSET Campaigns, NEW fk \in FkModes,
               RemoveCampaigns(C, fk)
        PROVE  Final
    BY <2>2 DEF RemoveCampaigns
  <2>3. ASSUME NEW fk \in FkModes, Prepare(fk) PROVE Final
    BY <2>3 DEF Prepare, TypeOK
  <2>4. CASE RecordOutcome
    <3>1. recipient[worker.campaign][worker.contact] \in {"none", "queued"}
      BY <2>4 DEF RecordOutcome, WorkerOwnsCampaign, TodoUntouched
    <3>2. \A c \in Campaigns, k \in Contacts :
            c # worker.campaign \/ k # worker.contact =>
              recipient'[c][k] = recipient[c][k]
      BY <2>4 DEF RecordOutcome, TypeOK
    <3>3. QED
      BY <3>1, <3>2
  <2>5. CASE WorkerStep
    BY <2>1, <2>3, <2>4, <2>5 DEF WorkerStep, Take, Load, Mark,
       FetchAttachment, ListRecipients, SendMail, Finish, deliveryVars
  <2>6. CASE AudienceStep
    BY <2>1, <2>2, <2>6 DEF AudienceStep, CreateContact, ImportContacts, CreateSegment,
       AddContactToSegment, RemoveContactFromSegment, DeleteContact,
       DeleteSegment, DeleteTenant, Unsubscribe, RecordOpen, deliveryVars
  <2>7. CASE AdminStep
    <3>1. ASSUME NEW r \in Requests, NEW fk \in FkModes, DeleteWrite(r, fk)
          PROVE  Final
      BY <2>2, <3>1 DEF DeleteWrite, RemoveCampaigns
    <3>2. QED
      BY <2>1, <2>7, <3>1 DEF AdminStep, CreateCampaign, SendRead, UpdateRead,
         DeleteRead, ReadDraft, Enqueue, UpdateWrite, deliveryVars
  <2>8. CASE Crash \/ UNCHANGED vars
    BY <2>1, <2>8 DEF Crash, vars, deliveryVars
  <2>9. QED
    BY <2>5, <2>6, <2>7, <2>8 DEF Next
<1>2. QED
  <2>1. TypeOK /\ WorkerOwnsCampaign /\ [Next]_vars
          => [Final]_vars
    BY <1>1
  <2>2. Spec => [][Final]_vars
    BY <2>1, OwnsInvariant, PTL DEF Spec
  <2>3. QED
    BY <2>2 DEF OutcomeIsFinal
-----------------------------------------------------------------------------
(* The component implements the abstract life of a campaign. *)

LEMMA StatusUnchanged ==
  ASSUME TypeOK, [Next]_vars, ~Mark, ~Finish
  PROVE  UNCHANGED status
<1>1. CASE WorkerStep
  BY <1>1 DEF WorkerStep, Take, Load, FetchAttachment, Prepare,
     ListRecipients, SendMail, RecordOutcome, campaignVars
<1>2. CASE AudienceStep
  BY <1>2 DEF AudienceStep, CreateContact, ImportContacts, CreateSegment,
     AddContactToSegment, RemoveContactFromSegment, DeleteContact,
     DeleteSegment, DeleteTenant, RemoveCampaigns, Unsubscribe, RecordOpen,
     campaignVars
<1>3. CASE AdminStep
  BY <1>3 DEF AdminStep, CreateCampaign, SendRead, UpdateRead, DeleteRead,
     ReadDraft, Enqueue, UpdateWrite, DeleteWrite, RemoveCampaigns,
     campaignVars
<1>4. CASE Crash \/ UNCHANGED vars
  BY <1>4 DEF Crash, vars, campaignVars
<1>5. QED
  BY <1>1, <1>2, <1>3, <1>4 DEF Next

\* Every behaviour of the component is, through its status column and the
\* mails that left, a behaviour of CampaignLifecycle: Mark begins a campaign,
\* SendMail mails, Finish finishes, and every other step is a stutter.
THEOREM ImplementsLifecycle == Spec => LifecycleSpec
<1>1. Init => Lifecycle!Init
  BY DEF Init, Lifecycle!Init
<1>2. TypeOK /\ WorkerOwnsCampaign /\ [Next]_vars
        => [Lifecycle!Next]_(Lifecycle!lifecycleVars)
  <2> SUFFICES ASSUME TypeOK, WorkerOwnsCampaign, [Next]_vars
               PROVE  Lifecycle!Next \/ UNCHANGED <<status, mails>>
    BY DEF Lifecycle!lifecycleVars
  <2> DEFINE c == worker.campaign
  <2>1. ASSUME NEW k \in Contacts, SendMail(k)
        PROVE  Lifecycle!Next \/ UNCHANGED <<status, mails>>
    <3>1. UNCHANGED status
      BY <2>1 DEF SendMail, campaignVars
    <3>2. QED
      BY <2>1, <3>1, FirstMail DEF Lifecycle!Next, Lifecycle!Mail
  <2>2. CASE Mark
    <3>1. c \in Campaigns /\ status[c] = "draft" /\ UNCHANGED mails
      BY <2>2, BusyWorker DEF Mark, Busy, WorkerOwnsCampaign, HeldCampaign,
         deliveryVars
    <3>2. status' = status \/ status' = [status EXCEPT ![c] = "sending"]
      BY <2>2 DEF Mark, WriteStatus
    <3>3. QED
      BY <3>1, <3>2 DEF Lifecycle!Next, Lifecycle!Begin
  <2>3. CASE Finish
    <3>1. c \in Campaigns /\ (row[c] = "gone" \/ status[c] = "sending")
      BY <2>3, BusyWorker DEF Finish, Busy, WorkerOwnsCampaign, HeldCampaign
    <3>2. UNCHANGED mails
      BY <2>3 DEF Finish, deliveryVars
    <3>3. \/ status' = status
          \/ row[c] = "live" /\ status' = [status EXCEPT ![c] = FinalStatus]
      BY <2>3 DEF Finish, WriteStatus
    <3>4. FinalStatus \in {"sent", "failed"}
      BY DEF FinalStatus
    <3>5. QED
      BY <3>1, <3>2, <3>3, <3>4 DEF Lifecycle!Next, Lifecycle!Finish
  <2>4. QED
    BY <2>1, <2>2, <2>3, MailsUnchanged, StatusUnchanged
<1>3. QED
  BY <1>1, <1>2, OwnsInvariant, PTL DEF Spec, LifecycleSpec, Lifecycle!Spec
=============================================================================
