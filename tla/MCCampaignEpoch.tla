---------------------------- MODULE MCCampaignEpoch ----------------------------
(* Small instances of CampaignEpoch. *)
EXTENDS CampaignEpoch

=============================================================================
