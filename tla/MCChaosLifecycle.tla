-------------------------- MODULE MCChaosLifecycle --------------------------
(* The two topologies of ChaosLifecycle: the disposable router with two of its *)
(* three namespaces, and the host-ingress mode.                            *)
EXTENDS ChaosLifecycle, TLC

CONSTANTS inner, outer, pair, pasta, shaper,   \* the disposable router
          ifb, hook, root,                     \* the host mode
          routed, host,                        \* the topologies
          h1                                   \* what the child forks

Do(what, o, e) == [do |-> what, obj |-> o, end |-> e]
Ends(a, b) == (1 :> a) @@ (2 :> b)

Hosted == {ifb, hook, root}
MCObject == {inner, outer, pair, pasta, shaper} \cup Hosted
MCKind ==
    inner :> "namespace" @@ outer :> "namespace" @@ pair :> "veth"
    @@ pasta :> "process" @@ shaper :> "qdisc"
    @@ ifb :> "ifb" @@ hook :> "clsact" @@ root :> "qdisc"
MCHome ==
    [o \in MCObject |-> CASE o = pair -> Ends(inner, outer)
                          [] o = shaper -> Ends(inner, inner)
                          [] OTHER -> Ends(Host, Host)]
RouterPlan ==
    << Do("create", inner, 1), Do("configure", inner, 1), Do("tag", inner, 1),
       Do("create", outer, 1), Do("configure", outer, 1), Do("tag", outer, 1),
       Do("create", pair, 1), Do("configure", pair, 1), Do("tag", pair, 1),
       Do("move", pair, 1), Do("move", pair, 2), Do("raise", pair, 1),
       Do("create", pasta, 1), Do("configure", pasta, 1), Do("create", shaper, 1),
       Do("configure", shaper, 1) >>
HostPlan ==
    << Do("create", ifb, 1), Do("tag", ifb, 1), Do("raise", ifb, 1),
       Do("create", hook, 1), Do("configure", hook, 1),
       Do("create", root, 1), Do("configure", root, 1) >>
MCPlanOf == routed :> RouterPlan @@ host :> HostPlan
=============================================================================
