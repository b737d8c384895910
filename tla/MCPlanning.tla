------------------------------- MODULE MCPlanning -------------------------------
(* What is decided before and after packets move, one behaviour each: the    *)
(* analysis and recovery proof of a ramp, the plan compiler with its plan    *)
(* file, the matrix compiler, the media sender with its echo fixture, and    *)
(* what a chaos run measures.  subject says which; the others stand still.   *)
EXTENDS Integers, Sequences, TLC

CONSTANTS Levels, Policies, Values, Health, BaselineSamples, StaleAfter, Duration, Cooldown,
          RecoveryDeadline, Teardown, CanaryInterval, MaxSamples, MaxCanaries,
          Manifests, Zone, Literal, Placeholder, Reductions, Secrets, Family,
          MaxSteps, StepBytes, MaxPlanBytes, Planners, NoPlan, MaxEdits,
          Matrices, Transport, Authorised, Actions, MaxActions, SequenceStrength, CaseBudget, Ceiling, MaxCases,
          Sessions, Audio, Progress, Ends, Gap, Dynamic, FixtureDeadline, MaxRepeats, MaxTime,
          Streams, Foreign, Corrupted, Impairments, Skews, MinDelaySamples, MinRateSamples, MaxArrivals, MaxDamage, Period, LinkTime

VARIABLES subject,
          policy, at, level, adapter, samples, streaks, history, healthy, trigger,
          phase, stoppedAt, now, attempts, recoveredAt, outcome,
          manifest, zone, file, planner, written, runner, edits,
          matrix, step, core, coreAt, rows, uncovered, sequences, missing, maxCases, selected,
          session, plan, sending, next, clock, sentAt, bound, transitions, echoed,
          wire, back, heard, fixture, repeats,
          stream, asked, skew, linkNow, before, after, report

Ramp == INSTANCE EnvelopeObservation
Plans == INSTANCE PlanCompiler
Cover == INSTANCE MatrixCompiler WITH phase <- step
Media == INSTANCE MediaSender
Measures == INSTANCE ChaosMeasurement WITH impairment <- asked, now <- linkNow, MaxTime <- LinkTime

ramp == <<policy, at, level, adapter, samples, streaks, history, healthy, trigger,
          phase, stoppedAt, now, attempts, recoveredAt, outcome>>
plans == <<manifest, zone, file, planner, written, runner, edits>>
cover == <<matrix, step, core, coreAt, rows, uncovered, sequences, missing, maxCases, selected>>
media == <<session, plan, sending, next, clock, sentAt, bound, transitions, echoed,
           wire, back, heard, fixture, repeats>>
measure == <<stream, asked, skew, linkNow, before, after, report>>
vars == <<subject, ramp, plans, cover, media, measure>>

Init ==
    /\ subject \in {"ramp", "plans", "cover", "media", "measure"}
    (* What stands still has one initial state.                              *)
    /\ policy \in (IF subject = "ramp" THEN Policies ELSE {CHOOSE p \in Policies : Ramp!Normal(p)})
    /\ manifest \in (IF subject = "plans" THEN Manifests ELSE {CHOOSE m \in Manifests : TRUE})
    /\ zone \in (IF subject = "plans" THEN Zone ELSE {CHOOSE z \in Zone : TRUE})
    /\ matrix \in (IF subject = "cover" THEN Matrices ELSE {CHOOSE m \in Matrices : TRUE})
    /\ session \in (IF subject = "media" THEN Sessions ELSE {CHOOSE s \in Sessions : TRUE})
    /\ stream \in (IF subject = "measure" THEN Streams ELSE {CHOOSE s \in Streams : TRUE})
    /\ asked \in (IF subject = "measure" THEN Impairments ELSE {CHOOSE i \in Impairments : TRUE})
    /\ skew \in (IF subject = "measure" THEN Skews ELSE {CHOOSE s \in Skews : TRUE})
    /\ Ramp!Init /\ Plans!Init /\ Cover!Init /\ Media!Init /\ Measures!Init

RampRuns == subject = "ramp" /\ Ramp!Next /\ UNCHANGED <<subject, plans, cover, media, measure>>
PlansRun == subject = "plans" /\ Plans!Next /\ UNCHANGED <<subject, ramp, cover, media, measure>>
CoverRuns == subject = "cover" /\ Cover!Next /\ UNCHANGED <<subject, ramp, plans, media, measure>>
MediaRuns == subject = "media" /\ Media!Next /\ UNCHANGED <<subject, ramp, plans, cover, measure>>
MeasureRuns ==
    subject = "measure" /\ Measures!Next /\ UNCHANGED <<subject, ramp, plans, cover, media>>

Next == MeasureRuns \/ RampRuns \/ PlansRun \/ CoverRuns \/ MediaRuns
Spec == Init /\ [][Next]_vars

(* The analysis stops a ramp on the samples' own evidence, and recovery is   *)
(* claimed only from a canary inside every deadline.                         *)
LevelsAreJudged == Ramp!TypeOK /\ Ramp!TriggerIsEvidenced /\ Ramp!RecoveryIsProven
(* What runs is what the manifest authorises, and an untouched plan runs.    *)
PlansAreFrozen == Plans!TypeOK /\ Plans!ExecutedIsAuthorised /\ Plans!WrittenPlanRuns
(* The matrix is covered, a conflict is minimal, and the cut is honest.      *)
MatrixIsCovered == Cover!TypeOK /\ Cover!RowsCover /\ Cover!CoreIsMinimal /\ Cover!SelectionIsHonest
(* A compiled session is exact, and a passed send was echoed in full.        *)
MediaIsEchoed == Media!TypeOK /\ Media!PlanIsExact /\ Media!PassedWasEchoed
(* The counts of a measurement are what the link did.                        *)
MeasuredIsSuffered == Measures!MeasuredIsSuffered

(* What the documentation says and the code does not do.                     *)
OutputIsExecutable == Plans!OutputIsExecutable
TextsAreOneValue == Plans!TextsAreOneValue
LongPlansRun == Plans!LongPlansRun
HealthyHasEvidence == Ramp!HealthyHasEvidence
OnlyClearResets == Ramp!OnlyClearResets

-----------------------------------------------------------------------------
(* The instances.  A ramp of two levels under four policies: required and    *)
(* optional metrics, both directions, with and without a change rule.        *)
Rule(direction, soft, hard, delta, required) ==
    [direction |-> direction, soft |-> soft, hard |-> hard, consecutive |-> 2,
     changeDelta |-> delta, required |-> required]
MCLevels == <<1, 3>>
MCPolicies ==
    { ("loss" :> Rule("max", 2, 3, 2, TRUE)),
      ("loss" :> Rule("max", 0, 2, 0, TRUE)) @@ ("jitter" :> Rule("max", 2, 2, 1, FALSE)),
      ("health" :> Rule("min", 0, -1, 1, FALSE)),
      ("health" :> Rule("min", 1, 0, 2, TRUE)), ("loss" :> Rule("max", 2, 0, 2, TRUE)) }
(* Manifests with one and two targets, a shared host, two texts of one      *)
(* network and of one factor, generated cases, plans at and over the limits,*)
(* credentials, and what the compiler refuses; zones that agree, widen and  *)
(* leave the networks.                                                      *)
Net(addresses) == [text |-> "short", value |-> addresses, documentation |-> FALSE]
Spelled(entry) == [entry EXCEPT !.text = "long"]
Target(name, host, transport) ==
    [name |-> name, host |-> host, transport |-> transport, port |-> 5060, ref |-> "none"]
Case(id, type, target, count) ==
    [id |-> id, type |-> type, target |-> target, count |-> count, generated |-> {},
     budget |-> [packets |-> 2, bytes |-> 3, durationSeconds |-> 1]]
PlanBase ==
    [wellFormed |-> TRUE, networks |-> {Net({"a1", "a2"}), Net({"b1"})}, media |-> [first |-> 1, last |-> 2],
     ports |-> {5060}, transports |-> {"udp", "tls"}, refs |-> {"r1", "r2"}, capture |-> TRUE,
     directory |-> "relative", matrix |-> {},
     ceilings |-> [calls |-> 2, packets |-> 6, bytes |-> 9, durationSeconds |-> 3],
     targets |-> <<Target("t", "h1", "udp")>>, cases |-> <<Case("c", "call", "t", 1)>>]
With(t) == [PlanBase EXCEPT !.targets = t]
Two == [With(<<Target("t", "h1", "udp"), Target("u", "a2", "tls")>>)
          EXCEPT !.cases = <<Case("c", "call", "t", 2), Case("d", "options", "u", 1)>>]
Udp == [text |-> "short", value |-> "udp"]
Generated(texts, host, family) ==
    [With(<<Target("t", host, "udp")>>) EXCEPT !.matrix = texts,
       !.cases = <<[Case("c", "call", "t", 1) EXCEPT !.generated = {[transport |-> "udp", family |-> family]}]>>]
Long(count) ==
    [PlanBase EXCEPT !.ceilings = [k \in DOMAIN @ |-> 15], !.cases = <<Case("c", "options", "t", count)>>]
MCManifests ==
    { PlanBase, Two, Long(4), Long(5),
      [PlanBase EXCEPT !.networks = @ \cup {Spelled(Net({"b1"}))}],
      Generated({Udp}, "h2", "ipv4"), Generated({}, "h1", "ipv4"), Generated({Udp, Spelled(Udp)}, "b1", "ipv6"),
      With(<<Target("t", "h1", "udp"), Target("u", "h1", "tls")>>),
      With(<<Target("t", "h1", "udp"), Target("u", "h2", "udp")>>),
      With(<<[Target("t", "a1", "udp") EXCEPT !.ref = "r1"]>>),
      With(<<[Target("t", "a1", "udp") EXCEPT !.ref = "r2"]>>),
      With(<<[Target("t", "a1", "udp") EXCEPT !.ref = "r9"]>>),
      With(<<[Target("t", "a1", "udp") EXCEPT !.port = 80]>>),
      With(<<Target("t", "a9", "tcp")>>), With(<<Target("t", "example", "udp")>>),
      [PlanBase EXCEPT !.networks = {Net({"a1", "a9"})}, !.cases = <<Case("c", "call", "t", 3)>>],
      [PlanBase EXCEPT !.networks = {Net({"a1", "a9"})}, !.ceilings = [k \in DOMAIN @ |-> 3]],
      [PlanBase EXCEPT !.capture = FALSE], [PlanBase EXCEPT !.wellFormed = FALSE] }
MCZone == { [h \in {"h1", "h2"} |-> {"a1"}], ("h1" :> {"a1", "a2"} @@ "h2" :> {"b1"}),
            ("h1" :> {"a2", "a9"} @@ "h2" :> {}) }
MCFamily == [a \in {"a1", "a2", "a9"} |-> "ipv4"] @@ ("b1" :> "ipv6")
MCReductions == { [k \in {} |-> 0], [calls |-> 1], [k \in DOMAIN PlanBase.ceilings |-> 7], [packets |-> 2, bytes |-> 3] }
MCSecrets == [r1 |-> {"env"}, r2 |-> {"env", "fd"}, r9 |-> {"default"}]
(* A free matrix, constraints with mandatory cases and risks, a conflict of  *)
(* two of six constraints, and refused matrices.                             *)
Require(id, p) == [id |-> id, form |-> "require", when |-> p]
Exclude(id, p) == [id |-> id, form |-> "exclude", when |-> p]
IfThen(id, p, q) == [id |-> id, form |-> "if", when |-> p, then |-> q]
Row(t, m, n) == [transport |-> t, media |-> m, nat |-> n]
Risky(p, weight, covering, strength) == [when |-> p, weight |-> weight, covering |-> covering, strength |-> strength]
MatrixBase == [domains |-> [transport |-> {"udp", "tls"}, media |-> {"rtp", "srtp"}, nat |-> {"none", "symmetric"}],
         constraints |-> <<>>, mandatory |-> <<>>, strength |-> 2, risks |-> <<>>]
Secure == IfThen("b", [media |-> {"srtp"}], [transport |-> {"tls"}])
NoNat == Exclude("c", [transport |-> {"tls"}, nat |-> {"symmetric"}])
MCMatrices ==
    { MatrixBase,
      [MatrixBase EXCEPT !.constraints = <<Secure, NoNat>>, !.mandatory = <<Row("udp", "rtp", "none")>>,
                   !.risks = <<Risky([nat |-> {"symmetric"}], 3, {}, 0)>>],
      [MatrixBase EXCEPT !.constraints = <<Secure>>, !.strength = 1,
                   !.mandatory = <<Row("udp", "rtp", "none"), Row("udp", "rtp", "none")>>,
                   !.risks = <<Risky([media |-> {"srtp"}], 2, {"transport", "media"}, 2)>>],
      [MatrixBase EXCEPT !.constraints = <<Exclude("x", [transport |-> {"udp"}, media |-> {"rtp"}]),
                                     Exclude("y", [nat |-> {"none"}, media |-> {"rtp"}]), Require("a", [nat |-> {"symmetric"}]), Secure, NoNat,
                                     Require("d", [media |-> {"srtp"}])>>],
      [MatrixBase EXCEPT !.constraints = <<Secure>>, !.mandatory = <<Row("udp", "srtp", "none")>>],
      [MatrixBase EXCEPT !.domains["transport"] = {"udp", "ws"}],
      [MatrixBase EXCEPT !.strength = 4] }
MCCaseBudget == [packets |-> 2, bytes |-> 3]
MCCeiling == [packets |-> 12, bytes |-> 15, calls |-> 9]
(* One and two revisions on one source and on two, one and two digits, a     *)
(* send without echoes, and refused sessions.                                *)
Sdp(endpoint, ids, maps) ==
    [endpoint |-> endpoint, family |-> 4, ids |-> ids, maps |-> maps, keying |-> FALSE,
     sections |-> 1, profile |-> "RTP/AVP", ptime |-> <<1>>]
Event(p) == <<p, "telephone-event">>
Revision(ms, local, remote, pt) ==
    [at |-> ms, local |-> Sdp(local, <<0, pt>>, {Event(pt)}), remote |-> Sdp(remote, <<pt, 0, 8>>, {Event(pt)})]
MediaBase == [codec |-> "PCMU", digits |-> <<"1">>, required |-> TRUE, timeout |-> 1, assetIntact |-> TRUE,
         revisions |-> <<Revision(0, "s1", "d1", 101)>>]
Moving == [MediaBase EXCEPT !.revisions = <<Revision(0, "s1", "d1", 101), Revision(2, "s1", "d2", 102)>>]
MCSessions ==
    { MediaBase, Moving,
      [MediaBase EXCEPT !.digits = <<"1", "1">>], [Moving EXCEPT !.digits = <<>>, !.required = FALSE],
      [Moving EXCEPT !.revisions[2].local.endpoint = "s2", !.digits = <<>>, !.timeout = 2],
      [Moving EXCEPT !.revisions[2].at = 0], [Moving EXCEPT !.revisions[2].local = Sdp("s2", <<0, 103>>, {Event(103)})],
      [MediaBase EXCEPT !.revisions[1].remote.maps = {Event(101), <<0, "PCMA">>}], [MediaBase EXCEPT !.codec = "PCMA"],
      [MediaBase EXCEPT !.revisions[1].local.ids = <<0, 101, 0>>], [MediaBase EXCEPT !.revisions[1].local.keying = TRUE] }
(* Distinct and repeated identities, a frame that is not RTP; nothing asked, *)
(* and every effect asked with bursty loss.                                  *)
MCStreams == { <<"k", "l", "m">>, <<"k", "k", "l">>, <<"k", "foreign", "l", "m">> }
MCImpairments ==
    { [delay |-> 0, jitter |-> 0, loss |-> [model |-> "random", percent |-> 0], duplicate |-> 0, reorder |-> 0],
      [delay |-> 10, jitter |-> 0, duplicate |-> 30, reorder |-> 30,
       loss |-> [model |-> "gemodel", start |-> 20, recovery |-> 20, bad |-> 60, good |-> 0]] }
=============================================================================
