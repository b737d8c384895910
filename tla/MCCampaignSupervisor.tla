------------------------- MODULE MCCampaignSupervisor -------------------------
(* Small instances of CampaignSupervisor.                                  *)
EXTENDS CampaignSupervisor

CONSTANTS fork, undo1, undo2

MCBudget == [i \in 1..N |-> 1]
MCRollbacks == <<undo1, undo2>>
=============================================================================
