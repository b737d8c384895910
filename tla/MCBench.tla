-------------------------------- MODULE MCBench --------------------------------
(* Six tools of the workbench, one per behaviour: the mission-control view, *)
(* the torture runner, the minimiser, the evidence packs, the commands that *)
(* write a set of files and the plans of a chaos run.  subject says which   *)
(* one it is; the others stand still.                                       *)
EXTENDS Integers, Sequences, FiniteSets

CONSTANTS Record, Capacity, Key, MaxInputs,
          Selections, MaxCases, MaxPackets, MaxFailures,
          Source, Dimensions, Trials, Quorum, MaxCandidates, MaxTotalPackets, MaxTotalBytes,
          PacketsPerTrial,
          Files, Appended, Creators, MaxEdits, MaxInventories,
          Writers, PathsOf, Nobody,
          Requests, Environments, Hosts, Profiles, Peers, MaxChanges

(* A run directory with at least one file.                                  *)
ASSUME BenchAssumption == Files \in Seq(STRING) \ {<<>>}

(* Producers number their events, and leave the source and the kinds of     *)
(* their own to the buffer and the decoder of the interface; ui-close-n is  *)
(* no other client's key.                                                   *)
ASSUME ConsoleAssumption ==
    /\ \A r \in Record :
          /\ r \in [source : STRING, sequence : Nat, kind : STRING, metric : STRING]
          /\ r.source # "ui-buffer" /\ r.kind \notin {"ui.dropped", "ui.schema-error"}
    /\ Capacity \in Nat
    /\ "ui-close" \notin Key

(* A case is so many packets; RunnerLimits are counts.                      *)
ASSUME TortureAssumption ==
    /\ Selections \subseteq Seq(Nat)
    /\ MaxCases \in Nat /\ MaxPackets \in Nat /\ MaxFailures \in Nat

(* A message of lines in order, the blank one without atoms beside it; no   *)
(* value token begins it (MinimizerLimits, Authorization.__post_init__).    *)
ASSUME MinimiserAssumption ==
    /\ Source \in Seq([line : Nat, part : {"key", "value", "blank"}]) \ {<<>>}
    /\ Source[1].part # "value"
    /\ \A i, j \in DOMAIN Source : i < j => Source[i].line <= Source[j].line
    /\ \A i, j \in DOMAIN Source :
          Source[i].part = "blank" /\ Source[i].line = Source[j].line => i = j
    /\ Dimensions \in Seq(STRING)
    /\ Trials \in 1..9 /\ Quorum \in 1..Trials /\ PacketsPerTrial \in 1..3
    /\ {MaxCandidates, MaxTotalPackets, MaxTotalBytes} \subseteq Nat \ {0}

(* A command writes at least one file.                                      *)
ASSUME OutputAssumption ==
    /\ PathsOf \in [Writers -> Seq(STRING) \ {<<>>}]
    /\ Nobody \notin Writers

(* An impairment sets the effects that _normalize_impairment reads, and the *)
(* targets of a request are a finite list.                                  *)
ASSUME ChaosAssumption ==
    /\ \A r \in Requests :
          /\ r.kind \in {"router", "host"} /\ IsFiniteSet(r.targets)
          /\ r.direction \in {"egress", "ingress", "bidirectional", "asymmetric"}
    /\ \A p \in Profiles : \A d \in DOMAIN p.directions :
          DOMAIN p.directions[d] \subseteq
              {"delay", "jitter", "loss", "reorder", "duplicate", "corrupt", "queue", "rate", "mtu"}
    /\ MaxChanges \in Nat
    /\ \A h \in Hosts : h = [devices |-> h.devices, namespaces |-> h.namespaces]

VARIABLES subject,
          queue, pending, bufferSeq, appSeq, producer, ui, view, shown, ingested,
          tokens, issued, receipts, calls, stopped,
          chosen, pc, index, worker, stray, failures, cases, stop, events, network, result,
          core, coreDims, flaky, wire, dims, phase, parts, from, at, used, last, base, status,
          root, edits, manifest, inventory, creator, pack, signature, verifier, exporter, output,
          owner, turn, temps, linked,
          request, environment, live, stage, topology, reviewed, profile, impairment, applied,
          device, changes

Console == INSTANCE MissionControl
Torture == INSTANCE TortureRunner
Minimise == INSTANCE Minimizer WITH index <- at
Packs == INSTANCE EvidencePack
Outputs == INSTANCE OutputSet
Chaos == INSTANCE ChaosPlan

console == <<queue, pending, bufferSeq, appSeq, producer, ui, view, shown, ingested,
             tokens, issued, receipts, calls, stopped>>
torture == <<chosen, pc, index, worker, stray, failures, cases, stop, events, network, result>>
minimise == <<core, coreDims, flaky, wire, dims, phase, parts, from, at, used, last, base, status>>
packs == <<root, edits, manifest, inventory, creator, pack, signature, verifier, exporter, output>>
outputs == <<owner, turn, temps, linked>>
chaos == <<request, environment, live, stage, topology, reviewed, profile, impairment, applied,
           device, changes>>
vars == <<subject, console, torture, minimise, packs, outputs, chaos>>

Subjects == {"console", "torture", "minimise", "packs", "outputs", "chaos"}
Init ==
    /\ subject \in Subjects
    (* What stands still has one initial state.                             *)
    /\ subject # "torture" => chosen = CHOOSE s \in Selections : TRUE
    /\ subject # "minimise" => core = {} /\ coreDims = {} /\ flaky = FALSE
    /\ subject # "chaos" => /\ request = CHOOSE r \in Requests : TRUE
                            /\ environment = CHOOSE e \in Environments : TRUE
                            /\ live = CHOOSE h \in Hosts : TRUE
                            /\ profile = CHOOSE p \in Profiles : TRUE
    /\ Console!Init /\ Torture!Init /\ Minimise!Init /\ Packs!Init /\ Outputs!Init /\ Chaos!Init
    /\ subject # "packs" => \A f \in Packs!Artifact : ~Packs!Private(root[f])

ConsoleRuns == subject = "console" /\ Console!Next /\ UNCHANGED <<subject, torture, minimise, packs, outputs, chaos>>
TortureWorks == /\ subject = "torture" /\ (Torture!ActionRuns \/ Torture!StrayRuns \/ Torture!OperatorStops)
                /\ UNCHANGED <<subject, console, minimise, packs, outputs, chaos>>
TortureRuns == subject = "torture" /\ Torture!Runner /\ UNCHANGED <<subject, console, minimise, packs, outputs, chaos>>
MinimiserRuns == subject = "minimise" /\ Minimise!Next /\ UNCHANGED <<subject, console, torture, packs, outputs, chaos>>
PacksRun == subject = "packs" /\ Packs!Next /\ UNCHANGED <<subject, console, torture, minimise, outputs, chaos>>
OutputsRun == subject = "outputs" /\ Outputs!Next /\ UNCHANGED <<subject, console, torture, minimise, packs, chaos>>
ChaosRuns == subject = "chaos" /\ Chaos!Next /\ UNCHANGED <<subject, console, torture, minimise, packs, outputs>>

Next == ConsoleRuns \/ TortureWorks \/ TortureRuns \/ MinimiserRuns \/ PacksRun \/ OutputsRun \/ ChaosRuns
Spec == Init /\ [][Next]_vars

(* What the console shows of the events, and what it asks of the campaign.  *)
ConsoleIsHonest ==
    /\ Console!TypeOK /\ Console!EveryEventAccounted /\ Console!PhaseShownOrExplained
    /\ Console!FreshConfirmation /\ Console!AppliedOncePerKey
(* What the torture runner sends, and how it goes on.                       *)
MutationsAnswered == Torture!TypeOK /\ Torture!CanaryBetweenMutations /\ Torture!NothingUnanswered
(* What the minimiser keeps, and where it stops.                            *)
ResultIsMinimal == Minimise!ResultWasReproduced /\ Minimise!ResultIsMinimal
OutcomesAreTheReproducers == Minimise!OutcomesAreTheReproducers
LateNeverShown == Console!LateNeverShown
(* What a pack contains, and what an export shows of it.                    *)
EvidenceIsWhole == Packs!VerifiedPackIsInventory /\ Packs!ExportIsCleared
(* A failed set of outputs leaves nothing of its own, and nothing overwrites. *)
AllOrNothing == Outputs!AllOrNothing
(* Only the reviewed targets are impaired, whatever was edited.              *)
OnlyTargetsImpaired == Chaos!TypeOK /\ Chaos!OnlyTargetsImpaired
(* What the documentation says of the filters and the code does not do.      *)
OnlyFiltersSelect == Chaos!OnlyFiltersSelect
OwnPlanIsValid == Chaos!OwnPlanIsValid

-----------------------------------------------------------------------------
(* The instance: a campaign whose end may come twice or before its start, a *)
(* verdict with an unknown metric status, progress that is not forwarded    *)
(* and a malformed line; seven atoms with a body; a file that grows and one *)
(* that is replaced.                                                        *)
Campaign(n, k) == [source |-> "campaign", sequence |-> n, kind |-> k, metric |-> "good"]
MCRecord ==
    {Campaign(1, "run.started"), Campaign(1, "run.completed"), Campaign(2, "run.completed"),
     [source |-> "oracle", sequence |-> 1, kind |-> "assertions.failed", metric |-> "invalid"],
     [source |-> "campaign", sequence |-> 3, kind |-> "step.output", metric |-> "none"],
     [source |-> "campaign", sequence |-> 3, kind |-> "malformed", metric |-> "none"]}
MCSelections == {<<1, 3>>, <<3, 2>>, <<1, 1, 1>>}
Atom(l, p) == [line |-> l, part |-> p]
MCSource == << Atom(1, "key"), Atom(1, "value"), Atom(2, "key"), Atom(2, "value"), Atom(3, "key"),
               Atom(4, "blank"), Atom(5, "key") >>
MCDimensions == <<"d1", "d2">>
MCFiles == <<"notes", "result">>
(* Three writers whose path sets overlap in different orders.                *)
MCPathsOf == [a |-> <<"m", "r", "d">>, b |-> <<"d", "m">>, c |-> <<"r">>]
(* Router and host topologies for one and two networks, two of them listed in *)
(* another order by address than by text, on machines that have              *)
(* or miss a feature, two hosts, and profiles with every pair of effects the *)
(* compiler orders; refused requests and profiles.                           *)
Network(peers, address, text) ==
    [peers |-> peers, address |-> address, text |-> text, defaultRoute |-> FALSE]
Targets1 == {Network({"p1"}, 1, 2)}
Targets2 == {Network({"p1"}, 1, 2), Network({"p2"}, 3, 3)}
TenAfterNine == {Network({"p1"}, 1, 2), Network({"p2"}, 2, 1)}
Ask(kind, direction, targets) ==
    [kind |-> kind, direction |-> direction, targets |-> targets, mtu |-> FALSE,
     confirmed |-> kind = "host", interface |-> "eth0"]
MCRequests ==
    { Ask("router", "bidirectional", Targets1), [Ask("router", "asymmetric", Targets2) EXCEPT !.mtu = TRUE],
      Ask("host", "egress", Targets2), Ask("host", "asymmetric", Targets1),
      [Ask("host", "egress", Targets1) EXCEPT !.confirmed = FALSE],
      [Ask("host", "ingress", Targets1) EXCEPT !.interface = "eth9"],
      Ask("host", "egress", TenAfterNine),
      Ask("router", "egress", {[Network({"p1", "p2", "p3"}, 0, 0) EXCEPT !.defaultRoute = TRUE]}) }
All == "available"
Full == [euid |-> 0, mappedRoot |-> 0, commands |-> {"ip", "tc", "pasta"}, tun |-> TRUE,
         netAdmin |-> All, sysAdmin |-> All, netem |-> All, ifb |-> All, flower |-> All, u32 |-> "unknown"]
MCEnvironments ==
    { Full, [Full EXCEPT !.mappedRoot = 1000, !.flower = "unavailable", !.u32 = All],
      [Full EXCEPT !.ifb = "unavailable", !.tun = FALSE], [Full EXCEPT !.netem = "unknown"] }
MCHosts == { [devices |-> {"eth0"}, namespaces |-> {}], [devices |-> {"eth0"}, namespaces |-> {"x-test"}], [devices |-> {"eth0", "ifb"}, namespaces |-> {"x-test"}] }
Impair(direction, settings) == [direction |-> direction, directions |-> settings]
Slow == [delay |-> 2, jitter |-> 1]
MCProfiles ==
    { Impair("egress", [egress |-> [delay |-> 2, reorder |-> 1, queue |-> 3, rate |-> 1]]),
      Impair("egress", [egress |-> [delay |-> 1, jitter |-> 2]]), Impair("egress", [egress |-> [loss |-> 0]]),
      Impair("bidirectional", [egress |-> Slow, ingress |-> Slow]),
      Impair("asymmetric", [egress |-> [rate |-> 1], ingress |-> [loss |-> 1, mtu |-> 1]]),
      Impair("bidirectional", [egress |-> Slow, ingress |-> [loss |-> 1]]),
      Impair("egress", [egress |-> [reorder |-> 1]]), Impair("egress", [egress |-> [queue |-> 1, rate |-> 1]]) }
=============================================================================
