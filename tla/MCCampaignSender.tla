-------------------------- MODULE MCCampaignSender --------------------------
(* Instances of CampaignSender for TLC. *)
EXTENDS CampaignSender, TLC

\* Campaigns, contacts and requests are interchangeable; runs of safety
\* properties only may exploit it.
Symmetry ==
  Permutations(Campaigns) \cup Permutations(Contacts) \cup Permutations(Requests)
=============================================================================
