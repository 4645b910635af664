------------------------- MODULE CampaignLifecycle -------------------------
(***************************************************************************)
(* What a marketing campaign promises, whoever sends it and however the    *)
(* sending is cut into steps: it is sent at most once, mail leaves only    *)
(* while it is being sent, no contact is mailed twice by it, and "sent"    *)
(* and "failed" are final.  CampaignSender implements this specification.  *)
(***************************************************************************)
EXTENDS Naturals

CONSTANTS Campaigns, Contacts

VARIABLES
  phase,    \* phase[c]: where c stands
  mails     \* mails[c][k]: how many mails of c the contact k was sent

lifecycleVars == <<phase, mails>>

Init ==
  /\ phase = [c \in Campaigns |-> "draft"]
  /\ mails = [c \in Campaigns |-> [k \in Contacts |-> 0]]

Begin(c) ==
  /\ phase[c] = "draft"
  /\ phase' = [phase EXCEPT ![c] = "sending"]
  /\ UNCHANGED mails

Mail(c, k) ==
  /\ phase[c] = "sending"
  /\ mails[c][k] = 0
  /\ mails' = [mails EXCEPT ![c][k] = 1]
  /\ UNCHANGED phase

Finish(c, outcome) ==
  /\ phase[c] = "sending"
  /\ phase' = [phase EXCEPT ![c] = outcome]
  /\ UNCHANGED mails

Next ==
  \E c \in Campaigns :
    \/ Begin(c)
    \/ \E k \in Contacts : Mail(c, k)
    \/ \E outcome \in {"sent", "failed"} : Finish(c, outcome)

Spec == Init /\ [][Next]_lifecycleVars
=============================================================================
