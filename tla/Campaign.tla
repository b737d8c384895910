------------------------------ MODULE Campaign ------------------------------
(***************************************************************************)
(* What the campaign supervisor promises: steps run one at a time and in   *)
(* order, a step's process group is gone before anything else starts, the  *)
(* first step that does not succeed ends the campaign, and a campaign that *)
(* is over leaves no process behind.  CampaignSupervisor implements this.  *)
(***************************************************************************)
EXTENDS Naturals

CONSTANT N   \* number of steps in the frozen plan

VARIABLES started,   \* steps started so far
          completed, \* steps that succeeded
          live,      \* the started step's process group has a live member
          verdict    \* "none" while running, then RunResult.state

campaignVars == <<started, completed, live, verdict>>

Stopped == {"failed", "cancelled", "timed_out", "external", "raised"}

CampaignInit ==
    /\ started = 0
    /\ completed = 0
    /\ live = FALSE
    /\ verdict = "none"

StartStep ==
    /\ verdict = "none"
    /\ started < N
    /\ started = completed
    /\ ~live
    /\ started' = started + 1
    /\ UNCHANGED <<completed, live, verdict>>

(* The runner of the started step is spawned, and later gone.              *)
GroupAppears ==
    /\ verdict = "none" /\ started = completed + 1
    /\ ~live /\ live' = TRUE
    /\ UNCHANGED <<started, completed, verdict>>
GroupGone ==
    /\ live /\ live' = FALSE
    /\ UNCHANGED <<started, completed, verdict>>

StepSucceeds ==
    /\ verdict = "none"
    /\ started = completed + 1
    /\ ~live
    /\ completed' = started
    /\ UNCHANGED <<started, live, verdict>>

Stop ==
    /\ verdict = "none"
    /\ ~live
    /\ verdict' \in Stopped
    /\ UNCHANGED <<started, completed, live>>

Succeed ==
    /\ verdict = "none"
    /\ completed = N
    /\ ~live
    /\ verdict' = "succeeded"
    /\ UNCHANGED <<started, completed, live>>

CampaignNext ==
    \/ StartStep \/ GroupAppears \/ GroupGone \/ StepSucceeds \/ Stop \/ Succeed

CampaignSpec == CampaignInit /\ [][CampaignNext]_campaignVars
=============================================================================
