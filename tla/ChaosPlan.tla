------------------------------- MODULE ChaosPlan -------------------------------
(* From a chaos request to queueing disciplines: sippycup_chaos/topology.py   *)
(* probes the machine and renders a topology plan without changing anything,  *)
(* profiles.py compiles a profile against that plan into tc commands, and     *)
(* lifecycle.py compiles both again before it runs the commands one by one.   *)
(* Plan files are edited and the host changes in between.  ChaosLifecycle has *)
(* the namespaces, the traffic and the cleanup around this.                   *)
EXTENDS Integers, FiniteSets, Sequences

CONSTANTS Requests,     \* what an operator may ask for
          Environments, \* what a machine may offer
          Hosts,        \* what interfaces and namespaces it may have
          Profiles,
          Peers,        \* the far ends of packets; a network is a set of them
          MaxChanges    \* bound on the edits of plans and host

VARIABLES request, environment, live, \* live: the host as it is now
          stage,     \* "topology", "profile", "run", "apply", "applied", "refused", "failed"
          topology, reviewed, \* the plan file, and the plan the compiler read
          profile, impairment, applied, device, changes
chaos == <<request, environment, live, stage, topology, reviewed, profile, impairment,
           applied, device, changes>>

Directions == {"egress", "ingress"}
Unplanned == [kind |-> "none"]
Wanted(direction) == IF direction \in Directions THEN {direction} ELSE Directions

-----------------------------------------------------------------------------
(* detect_capabilities.  States are "available", "unavailable", "unknown".    *)
Either(a, b) == IF "available" \in {a, b} THEN "available"
                ELSE IF "unknown" \in {a, b} THEN "unknown" ELSE "unavailable"
Both(a, b) == IF "unavailable" \in {a, b} THEN "unavailable"
              ELSE IF "unknown" \in {a, b} THEN "unknown" ELSE "available"
Command(env, name) == IF name \in env.commands THEN "available" ELSE "unavailable"
Capabilities(env) ==
    [mode |-> IF env.euid = 0 /\ env.mappedRoot = 0 THEN "rootful" ELSE "rootless",
     iproute2 |-> Command(env, "ip"), tc |-> Command(env, "tc"),
     netAdmin |-> env.netAdmin, sysAdmin |-> env.sysAdmin, netem |-> env.netem, ifb |-> env.ifb,
     classifier |-> Either(env.flower, env.u32),
     pasta |-> IF env.tun THEN Command(env, "pasta") ELSE "unavailable",
     mtu |-> Both(Command(env, "ip"), env.netAdmin)]
Lacks(caps, names) == \E n \in names : caps[n] # "available"

(* plan_topology: the disposable router shapes the egress of its two inner    *)
(* interfaces; the host its own uplink, and an ifb for what comes in.         *)
RouterNeeds == {"iproute2", "tc", "netAdmin", "sysAdmin", "netem", "classifier", "pasta"}
HostNeeds == {"iproute2", "tc", "netAdmin", "netem", "classifier"}
TargetsRefused(targets) == targets = {} \/ \E n \in targets : n.defaultRoute
TopologyRefused(req, caps, host) ==
    \/ TargetsRefused(req.targets)
    \/ req.mtu /\ Lacks(caps, {"mtu"})
    \/ /\ req.kind = "router"
       /\ host.namespaces # {} \/ Lacks(caps, RouterNeeds)
    \/ /\ req.kind = "host"
       /\ \/ ~req.confirmed \/ caps.mode # "rootful"
          \/ req.interface \notin host.devices
          \/ Lacks(caps, HostNeeds)
          \/ "ingress" \in Wanted(req.direction) /\ (Lacks(caps, {"ifb"}) \/ "ifb" \in host.devices)
Attachment(kind, interface) ==
    IF kind = "router" THEN [egress |-> "imp-uplink0", ingress |-> "imp-test0"]
    ELSE [egress |-> interface, ingress |-> "ifb"]
Match(direction) == IF direction = "egress" THEN "dst_ip" ELSE "src_ip"
Filter(direction, network) == [direction |-> direction, network |-> network, match |-> Match(direction)]
(* What the digest of a list in an order depends on: networks and places.     *)
Ordered(networks, key) ==
    {<<n, Cardinality({m \in networks : m[key] <= n[key]})>> : n \in networks}
(* A plan freezes the namespaces it would use; a host topology uses none.     *)
Snapshot(kind, host) == IF kind = "router" THEN host ELSE [host EXCEPT !.namespaces = {}]
PlanTopology(req, caps, host) ==
    [kind |-> req.kind, dangerous |-> req.kind = "host", noChange |-> TRUE,
     attachments |-> [d \in Wanted(req.direction) |-> Attachment(req.kind, req.interface)[d]],
     filters |-> {Filter(d, n) : d \in Wanted(req.direction), n \in req.targets},
     scope |-> Ordered(req.targets, "address"), capabilities |-> caps, snapshot |-> Snapshot(req.kind, host)]

(* _validate_topology, on a plan that anyone may have edited: every filter is *)
(* itself canonical, and together they are the scope in every direction; but  *)
(* the digest is compared with one of the networks in the order of their text. *)
Networks(filters) == {f.network : f \in filters}
FilterMalformed(t, f) == f.direction \notin DOMAIN t.attachments \/ f.match # Match(f.direction)
(* Mutant: the filters need not be complete, nor make the scope.              *)
TargetsIncomplete(t) == t.filters = {} \/ \E f \in t.filters : FilterMalformed(t, f)
TargetsMalformed(t) ==
    \/ t.filters = {} \/ \E f \in t.filters : FilterMalformed(t, f)
    \/ t.scope # Ordered(Networks(t.filters), "text")
    \/ t.filters # {Filter(d, n) : d \in DOMAIN t.attachments, n \in Networks(t.filters)}
AttachmentMoved(t, d) ==
    IF t.kind = "host" /\ d = "egress" THEN t.attachments[d] \notin t.snapshot.devices
    ELSE t.attachments[d] # Attachment(t.kind, "unused")[d]
Malformed(t) ==
    \/ ~t.noChange \/ t.dangerous # (t.kind = "host")
    \/ Lacks(t.capabilities, IF t.kind = "router" THEN RouterNeeds ELSE HostNeeds)
    \/ TargetsMalformed(t)
    \/ \E d \in DOMAIN t.attachments : AttachmentMoved(t, d)
    \/ t.kind = "router" /\ t.snapshot.namespaces # {}

-----------------------------------------------------------------------------
(* validate_profile: an impairment is a function on some of the effects.      *)
Netem == {"delay", "jitter", "loss", "reorder", "duplicate", "corrupt", "queue"}
DelayRefused(i) ==
    "jitter" \in DOMAIN i /\ ("delay" \notin DOMAIN i \/ i["jitter"] > i["delay"])
EffectRefused(i) == \E e \in DOMAIN i : i[e] = 0
ImpairmentRefused(i) ==
    LET has == DOMAIN i
    IN \/ DelayRefused(i) \/ EffectRefused(i)
       \/ "reorder" \in has /\ "delay" \notin has
       \/ "queue" \in has /\ has \cap (Netem \ {"queue"}) = {}
ProfileRefused(p) ==
    \/ DOMAIN p.directions # Wanted(p.direction)
    \/ \E d \in DOMAIN p.directions : ImpairmentRefused(p.directions[d])
    \/ p.direction = "bidirectional" /\ p.directions["egress"] # p.directions["ingress"]
    \/ p.direction = "asymmetric" /\ p.directions["egress"] = p.directions["ingress"]

(* compile_profile: per direction the mtu, the root with its filters, a rate  *)
(* below the first band, and netem below the rate or the band.                *)
NetemArgs(i) == {<<e, i[e]>> : e \in DOMAIN i \cap Netem}
Tc(id, interface, arg) == [id |-> id, interface |-> interface, arg |-> arg]
(* A set in an order that depends on nothing else, as sorting gives one.      *)
Listed(S) ==
    CHOOSE s \in [1..Cardinality(S) -> S] : \A x \in S : \E i \in 1..Cardinality(S) : s[i] = x
FilterCommands(t, d) ==
    LET filters == Listed({f \in t.filters : f.direction = d})
    IN [k \in DOMAIN filters |-> Tc("filter", t.attachments[d], {<<filters[k].match, filters[k].network>>})]
DirectionCommands(t, i, d) ==
    LET interface == t.attachments[d]
        shaped == NetemArgs(i) # {} \/ "rate" \in DOMAIN i
        If(c, s) == IF c THEN s ELSE <<>>
    IN If("mtu" \in DOMAIN i, <<Tc("mtu", interface, {<<"mtu", i["mtu"]>>})>>)
       \o If(shaped, <<Tc("root", interface, {})>> \o FilterCommands(t, d))
       \o If("rate" \in DOMAIN i, <<Tc("rate", interface, {<<"rate", i["rate"]>>})>>)
       \o If(NetemArgs(i) # {}, <<Tc("netem", interface, NetemArgs(i))>>)
CompileRefused(t, p) ==
    \/ Malformed(t) \/ ProfileRefused(p)
    \/ ~(DOMAIN p.directions \subseteq DOMAIN t.attachments)
    \/ \E d \in DOMAIN p.directions :
          /\ "mtu" \in DOMAIN p.directions[d]
          /\ t.dangerous \/ t.capabilities["mtu"] # "available"
Commands(t, p) ==
    LET Of(d) == IF d \in DOMAIN p.directions THEN DirectionCommands(t, p.directions[d], d) ELSE <<>>
    IN Of("egress") \o Of("ingress")
CompileProfile(t, p) == [kind |-> "impairment", digest |-> t, settings |-> p, commands |-> Commands(t, p)]

(* validate_impairment_plan: the embedded settings compile to this document.  *)
ImpairmentRefusedBy(t, plan) ==
    \/ plan.digest # t
    \/ CompileRefused(t, plan.settings)
    \/ plan.commands # Commands(t, plan.settings)

-----------------------------------------------------------------------------
Bare == [root |-> FALSE, filters |-> {}, chain |-> {}, mtu |-> 0]
Interfaces == {"imp-uplink0", "imp-test0", "ifb"} \cup UNION {h.devices : h \in Hosts}
Init ==
    /\ request \in Requests /\ environment \in Environments /\ live \in Hosts
    /\ stage = "topology" /\ topology = Unplanned /\ reviewed = Unplanned /\ impairment = Unplanned
    /\ profile \in Profiles
    /\ applied = 0 /\ changes = 0 /\ device = [i \in Interfaces |-> Bare]

PlanTheTopology ==
    /\ stage = "topology"
    /\ LET caps == Capabilities(environment)
       IN IF TopologyRefused(request, caps, live) THEN stage' = "refused" /\ UNCHANGED topology
          ELSE stage' = "profile" /\ topology' = PlanTopology(request, caps, live)
    /\ UNCHANGED <<request, environment, live, reviewed, profile, impairment, applied, device, changes>>
Compile ==
    /\ stage = "profile"
    /\ IF CompileRefused(topology, profile) THEN stage' = "refused" /\ UNCHANGED <<impairment, reviewed>>
       ELSE /\ stage' = "run" /\ reviewed' = topology
            /\ impairment' = CompileProfile(topology, profile)
    /\ UNCHANGED <<request, environment, live, topology, profile, applied, device, changes>>
(* The lifecycle starts: both plans again, and the host as the plan froze it. *)
Start ==
    /\ stage = "run"
    /\ stage' = IF ImpairmentRefusedBy(topology, impairment) 
                   \/ Snapshot(topology.kind, live) # topology.snapshot
                THEN "refused" ELSE "apply"
    /\ UNCHANGED <<request, environment, live, topology, reviewed, profile, impairment, applied, device, changes>>

(* What the kernel makes of a command.                                        *)
After(state, command) ==
    CASE command.id = "mtu" -> [state EXCEPT !.mtu = 1]
      [] command.id = "root" -> [state EXCEPT !.root = TRUE]
      [] command.id = "filter" -> [state EXCEPT !.filters = @ \cup command.arg]
      [] OTHER -> [state EXCEPT !.chain = @ \cup command.arg]
Apply ==
    /\ stage = "apply"
    /\ \/ /\ applied < Len(impairment.commands)
          /\ LET c == impairment.commands[applied + 1]
             IN device' = [device EXCEPT ![c.interface] = After(@, c)]
          /\ applied' = applied + 1 /\ UNCHANGED stage
       \/ /\ applied < Len(impairment.commands)
          /\ stage' = "failed" /\ UNCHANGED <<applied, device>>
       \/ /\ applied = Len(impairment.commands)
          /\ stage' = "applied" /\ UNCHANGED <<applied, device>>
    /\ UNCHANGED <<request, environment, live, topology, reviewed, profile, impairment, changes>>

(* An edited topology: a filter more or less, with the scope digest or not,   *)
(* a feature claimed, an attachment moved; and an injected command.           *)
OtherFilters(t) ==
    {t.filters \ {f} : f \in t.filters}
    \cup {t.filters \cup {Filter(d, n) : d \in DOMAIN t.attachments} : n \in UNION {r.targets : r \in Requests}}
Filtered(t, fs) == [t EXCEPT !.filters = fs]
Rescoped(t, fs) == [Filtered(t, fs) EXCEPT !.scope = Ordered(Networks(fs), "text")]
Edited(t) ==
    {Filtered(t, fs) : fs \in OtherFilters(t)} \cup {Rescoped(t, fs) : fs \in OtherFilters(t)}
    \cup {[t EXCEPT !.capabilities["mtu"] = "available"]}
    \cup {[t EXCEPT !.attachments[d] = i] : d \in DOMAIN t.attachments, i \in Interfaces}
Lengthened(p, c) == [p EXCEPT !.commands = Append(@, c)]
Extra == {Tc("filter", i, {<<"dst_ip", n>>}) : i \in Interfaces, n \in UNION {r.targets : r \in Requests}}
Injected(p) == {Lengthened(p, c) : c \in Extra}
EditPlans ==
    /\ changes < MaxChanges /\ changes' = changes + 1
    /\ \/ /\ stage \in {"profile", "run"} /\ topology' \in Edited(topology) \ {topology}
          /\ UNCHANGED impairment
       \/ /\ stage = "run" /\ impairment' \in Injected(impairment) /\ UNCHANGED topology
    /\ UNCHANGED <<request, environment, live, stage, reviewed, profile, applied, device>>
HostChanges ==
    /\ changes < MaxChanges /\ changes' = changes + 1
    /\ stage \in {"profile", "run"} /\ live' \in Hosts \ {live}
    /\ UNCHANGED <<request, environment, stage, topology, reviewed, profile, impairment, applied, device>>

Next == PlanTheTopology \/ Compile \/ Start \/ Apply \/ EditPlans \/ HostChanges
Spec == Init /\ [][Next]_chaos

-----------------------------------------------------------------------------
TypeOK == /\ stage \in {"topology", "profile", "run", "apply", "applied", "refused", "failed"}
          /\ changes \in 0..MaxChanges /\ applied \in 0..(IF impairment = Unplanned THEN 0 ELSE Len(impairment.commands))

(* The interface whose egress carries a direction: the router's own, the ifb  *)
(* to which matched packets are redirected, or the reviewed host interface.   *)
Carrier(d) ==
    IF request.kind = "host" /\ d = "egress" THEN reviewed.attachments[d]
    ELSE Attachment(request.kind, "unused")[d]
Reviewed == DOMAIN reviewed.attachments
Matched(d, peer) == \E f \in device[Carrier(d)].filters : f[1] = Match(d) /\ peer \in f[2].peers
(* prio puts unmatched packets into a band by their priority: interactive     *)
(* ones into the first, which is the impaired one, the others below it.       *)
Effects(d, peer, interactive) ==
    LET state == device[Carrier(d)]
    IN IF state.root /\ (Matched(d, peer) \/ (interactive /\ Carrier(d) # "ifb")) THEN state.chain ELSE {}
InScope(peer) == \E x \in reviewed.scope : peer \in x[1].peers
Asked(d) ==
    IF d \notin DOMAIN profile.directions THEN {}
    ELSE {<<e, profile.directions[d][e]>> : e \in DOMAIN profile.directions[d] \ {"mtu"}}

(* Whatever was edited in between, applied commands give every packet of the  *)
(* reviewed scope exactly the impairment the profile has for its direction,   *)
(* and while they are being applied no ordinary packet of another peer gets   *)
(* any; no other interface is touched, an mtu on a host's own never; and      *)
(* nothing is applied to a host that is not as the plan saw it.               *)
OnlyTargetsImpaired ==
    /\ stage \in {"apply", "applied", "failed"} =>
          /\ Snapshot(request.kind, live) = reviewed.snapshot
          /\ \A d \in Reviewed, peer \in Peers : ~InScope(peer) => Effects(d, peer, FALSE) = {}
          /\ \A i \in Interfaces \ {Carrier(d) : d \in Reviewed} : device[i] = Bare
          /\ request.kind = "host" => \A i \in Interfaces : device[i].mtu = 0
    /\ stage = "applied" =>
          \A d \in Reviewed, peer \in Peers : InScope(peer) => Effects(d, peer, FALSE) = Asked(d)

(* docs/CHAOS-PROFILES.md:53: "Flower filters send only the topology plan's   *)
(* frozen destination CIDRs (egress) or source CIDRs (ingress) to the         *)
(* impaired band."                                                            *)
OnlyFiltersSelect ==
    stage = "applied" =>
        \A d \in Reviewed, peer \in Peers, interactive \in BOOLEAN :
            ~InScope(peer) => Effects(d, peer, interactive) = {}

(* docs/CHAOS-TOPOLOGY.md:45: "`targetScopeSha256` freezes that ordered scope *)
(* for the profile compiler and lifecycle executor."                          *)
OwnPlanIsValid == stage = "profile" /\ changes = 0 => ~Malformed(topology)
=============================================================================
