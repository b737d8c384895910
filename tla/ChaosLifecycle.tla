--------------------------- MODULE ChaosLifecycle ---------------------------
(***************************************************************************)
(* sippycup_chaos/lifecycle.py, ChaosLifecycle.run: build namespaces,      *)
(* links and queueing disciplines one command at a time, registering the   *)
(* inverse of each creation; run the traffic child; stop it; run the       *)
(* inverses last first, each up to three times; compare a fresh snapshot   *)
(* with the frozen one.  Commands and queries fail, one signal arrives at  *)
(* any moment, the child may fork, and while it runs someone may replace   *)
(* an object of ours by one of their own.                                  *)
(*                                                                         *)
(* A veth pair is one object with two ends; an end is in the namespace     *)
(* Home[o][i] once it was moved, on the host before.  A qdisc has one end, *)
(* where it is attached.                                                   *)
(***************************************************************************)
EXTENDS Integers, Sequences, FiniteSets

CONSTANTS Object, Host,
          Kind,        \* what each object is
          Home,        \* Home[o]: for each end, the namespace it goes to, or Host
          Topology, PlanOf,  \* for each topology its commands: [do, obj, end]
          Helper,      \* processes the traffic child may fork
          LateEffect,  \* a command that was given up on may have had its effect
          MaxFaults    \* bound: times that commands or queries fail in a behaviour

Kinds == {"namespace", "veth", "ifb", "clsact", "qdisc", "process"}
Ops == {"create", "tag", "raise", "move", "configure"}
Attempts == 3

ASSUME ChaosAssumption ==
    /\ Host \notin Object
    /\ Kind \in [Object -> Kinds]
    /\ Home \in [Object -> [{1, 2} -> Object \cup {Host}]]
    /\ PlanOf \in [Topology -> Seq([do : Ops, obj : Object, end : {1, 2}])]
    /\ \A t \in Topology : \A i, j \in DOMAIN PlanOf[t] :
          /\ PlanOf[t][i].do = "create" /\ PlanOf[t][j].do = "create"
          /\ PlanOf[t][i].obj = PlanOf[t][j].obj
          => i = j
    /\ LateEffect \in BOOLEAN /\ MaxFaults \in Nat

(* What the plans of the code have in common: what lives in a namespace is  *)
(* created after it, that namespace is on the host, and every interface     *)
(* that is created gets the run's alias.                                    *)
ASSUME PlanAssumption ==
    /\ \A o \in Object, e, f \in {1, 2} : Home[o][e] # Host => Home[Home[o][e]][f] = Host
    /\ \A t \in Topology : \A i \in DOMAIN PlanOf[t] :
          PlanOf[t][i].do = "create" =>
             /\ \A e \in {1, 2} : Home[PlanOf[t][i].obj][e] # Host =>
                   \E j \in 1..i - 1 : /\ PlanOf[t][j].do = "create"
                                        /\ PlanOf[t][j].obj = Home[PlanOf[t][i].obj][e]
             /\ Kind[PlanOf[t][i].obj] \in {"veth", "ifb"} =>
                   \E j \in DOMAIN PlanOf[t] : /\ PlanOf[t][j].do = "tag"
                                               /\ PlanOf[t][j].obj = PlanOf[t][i].obj

leader == "leader"   \* the traffic child, which leads its process group

VARIABLES topology,    \* the one run() was given
          pc, k,       \* where run() is; the next command of Plan
          world,       \* each object on the machine, as below
          moved,       \* ends that are in their namespace
          known,       \* ends run() has recorded as moved (locations)
          up,          \* links that are up
          sealed,      \* objects whose tag run() has recorded
          cleanups,    \* _cleanups: objects whose inverse is registered
          traffic,     \* live processes of the traffic group
          cancel,      \* _cancel_signal is set
          state,       \* the report's state
          tries,       \* failed attempts of the cleanup in hand
          failures,    \* objects whose cleanup failed
          assumed,     \* history: objects taken for gone since a query failed
          faults       \* times that commands or queries failed so far

machine == <<world, moved, up>>
record == <<known, sealed, cleanups>>
outcome == <<tries, failures, assumed>>
vars == <<topology, pc, k, machine, record, traffic, cancel, state, outcome, faults>>

Plan == PlanOf[topology]

Locations == {"preflight", "build", "watch", "stopping", "grace",
              "teardown", "query", "delete", "verify", "done"}
States == {"failed", "succeeded", "child_failed", "cancelled", "timed_out", "cleanup_failed"}

(* An object is not there, ours without or with the run's alias, or        *)
(* somebody else's; a qdisc of somebody else may be alike: of the kind and *)
(* with the handle that are all a qdisc is known by.                       *)
Worlds == {"absent", "plain", "tagged", "foreign", "alike"}
Discs == {"clsact", "qdisc"}

TypeOK ==
    /\ topology \in Topology /\ pc \in Locations /\ k \in 1..Len(Plan) + 1
    /\ world \in [Object -> Worlds]
    /\ moved \in SUBSET (Object \X {1, 2}) /\ known \in SUBSET (Object \X {1, 2})
    /\ up \in SUBSET Object /\ sealed \in SUBSET Object
    /\ cleanups \in Seq(Object)
    /\ traffic \in SUBSET ({leader} \cup Helper)
    /\ cancel \in BOOLEAN /\ state \in States
    /\ tries \in 0..Attempts - 1 /\ failures \in SUBSET Object
    /\ assumed \in SUBSET Object
    /\ faults \in 0..MaxFaults

Init ==
    /\ topology \in Topology /\ pc = "preflight" /\ k = 1
    /\ world = [o \in Object |-> "absent"] /\ moved = {} /\ up = {}
    /\ known = {} /\ sealed = {} /\ cleanups = <<>>
    /\ traffic = {} /\ cancel = FALSE
    /\ state = "failed" /\ tries = 0 /\ failures = {} /\ assumed = {}
    /\ faults = 0

-----------------------------------------------------------------------------
(* What commands do.                                                       *)

Exists(o) == world[o] # "absent"

(* The namespace an end is in, as the machine has it.                      *)
Where(o, i) == IF <<o, i>> \in moved \/ Kind[o] = "qdisc" THEN Home[o][i] ELSE Host

(* The marker of namespace n carries the run's owner alias.                *)
Owned(n) == n = Host \/ (n \in sealed /\ world[n] = "tagged")

(* Deleting a namespace takes what is inside with it.                      *)
Deleted(o) ==
    [p \in Object |->
        IF p = o \/ (Kind[o] = "namespace" /\ \E i \in {1, 2} : Where(p, i) = o)
        THEN "absent" ELSE world[p]]

(* What the command at k does to the machine.                              *)
Effect ==
    LET c == Plan[k] IN
    /\ world' = CASE c.do = "create" -> [world EXCEPT ![c.obj] = "plain"]
                  [] c.do = "tag" -> [world EXCEPT ![c.obj] = "tagged"]
                  [] OTHER -> world
    /\ moved' = IF c.do = "move" THEN moved \cup {<<c.obj, c.end>>} ELSE moved
    /\ up' = IF c.do = "raise" THEN up \cup {c.obj} ELSE up

(* An exception in run(): no child, or a child that was stopped before.    *)
Fails == /\ pc' = "teardown"
         /\ state' = IF cancel THEN "cancelled" ELSE "failed"

CommandFails == faults < MaxFaults /\ faults' = faults + 1

-----------------------------------------------------------------------------
(* Building.                                                               *)

VerifyPreflight ==
    /\ pc = "preflight"
    /\ \/ pc' = "build" /\ UNCHANGED <<state, faults>>
       \/ CommandFails /\ Fails       \* drift, or a probe that failed
    /\ UNCHANGED <<k, machine, record, traffic, cancel, outcome>>

(* _run_checked, then what the caller records about a command that worked. *)
(* A command inside a namespace is run after a look at its marker; before  *)
(* the traffic starts there is nobody who could have changed it.           *)
Build ==
    /\ pc = "build" /\ k <= Len(Plan) /\ ~cancel
    /\ Effect
    /\ LET c == Plan[k] IN
       /\ cleanups' = IF c.do = "create" THEN Append(cleanups, c.obj) ELSE cleanups
       /\ sealed' = IF c.do = "tag" THEN sealed \cup {c.obj} ELSE sealed
       /\ known' = IF c.do = "move" THEN known \cup {<<c.obj, c.end>>} ELSE known
    /\ k' = k + 1
    /\ UNCHANGED <<pc, traffic, cancel, state, outcome, faults>>

BuildFails ==
    /\ pc = "build" /\ k <= Len(Plan)
    /\ \/ cancel /\ UNCHANGED <<machine, faults>>
       \/ CommandFails /\ UNCHANGED machine
       \/ CommandFails /\ LateEffect /\ Effect
    /\ Fails
    /\ UNCHANGED <<k, record, traffic, cancel, outcome>>

-----------------------------------------------------------------------------
(* Traffic.                                                                *)

StartTraffic ==
    /\ pc = "build" /\ k > Len(Plan)
    /\ \/ cancel /\ Fails /\ UNCHANGED <<traffic, faults>>
       \/ CommandFails /\ Fails /\ UNCHANGED traffic
       \/ ~cancel /\ traffic' = {leader} /\ pc' = "watch" /\ UNCHANGED <<state, faults>>
    /\ UNCHANGED <<k, machine, record, cancel, outcome>>

(* The namespaces were handed to the child (exposed_to_child).             *)
Exposed == k > Len(Plan)

(* One turn of the loop: the child ended, a signal came, time is up.       *)
Watch ==
    /\ pc = "watch"
    /\ \/ leader \notin traffic /\ state' \in {"succeeded", "child_failed"}
       \/ leader \in traffic /\ cancel /\ state' = "cancelled"
       \/ leader \in traffic /\ ~cancel /\ state' = "timed_out"
    /\ pc' = "stopping"
    /\ UNCHANGED <<k, machine, record, traffic, cancel, outcome, faults>>

(* _stop_child signals the group only while its leader lives.              *)
StopChild ==
    /\ pc = "stopping"
    /\ IF leader \in traffic
       THEN pc' = "grace" /\ traffic' \in SUBSET traffic
       ELSE pc' = "teardown" /\ UNCHANGED traffic
    /\ UNCHANGED <<k, machine, record, cancel, state, outcome, faults>>

(* The leader ends in the grace period, or the group is killed.            *)
AwaitChild ==
    /\ pc = "grace"
    /\ IF leader \in traffic THEN traffic' = {} ELSE UNCHANGED traffic
    /\ pc' = "teardown"
    /\ UNCHANGED <<k, machine, record, cancel, state, outcome, faults>>

-----------------------------------------------------------------------------
(* Cleanup.                                                                *)

Current == cleanups[Len(cleanups)]
Rest == SubSeq(cleanups, 1, Len(cleanups) - 1)

(* Mutant: the inverse registered first is run first.                      *)
TakeCleanupInOrder ==
    /\ pc = "teardown"
    /\ IF cleanups = <<>>
       THEN pc' = "verify" /\ UNCHANGED cleanups
       ELSE pc' = "query" /\ cleanups' = Append(Tail(cleanups), Head(cleanups))
    /\ UNCHANGED <<k, machine, known, sealed, traffic, cancel, state, outcome, faults>>

TakeCleanup ==
    /\ pc = "teardown"
    /\ pc' = IF cleanups = <<>> THEN "verify" ELSE "query"
    /\ UNCHANGED <<k, machine, record, traffic, cancel, state, outcome, faults>>

Cleaned == /\ pc' = "teardown" /\ cleanups' = Rest /\ tries' = 0
           /\ UNCHANGED failures

(* What one look of an inverse left to do.                                 *)
Goes == pc' = "delete" /\ UNCHANGED <<cleanups, tries, failures>>

(* Mutant: an object whose cleanup keeps failing is tried again for ever.  *)
RaisesForever == /\ pc' = "teardown"
                 /\ UNCHANGED <<cleanups, tries, failures>>

(* Three attempts, then the next cleanup.                                  *)
Raises ==
    /\ pc' = "teardown"
    /\ IF tries + 1 < Attempts
       THEN tries' = tries + 1 /\ UNCHANGED <<cleanups, failures>>
       ELSE tries' = 0 /\ cleanups' = Rest /\ failures' = failures \cup {Current}

(* The end of a veth pair a query finds where run() believes it is.        *)
Found(o, i) == Exists(o) /\ (<<o, i>> \in moved <=> <<o, i>> \in known)
Believed(o, i) == IF <<o, i>> \in known THEN Home[o][i] ELSE Host

(* What the inverse of o does before it deletes: go on, return, or raise.  *)
(* Of what it asks about the ends in lost it has no answer.  A link that   *)
(* cannot be asked for counts as one that is not there.                    *)
Verdict(o, lost) ==
    LET finds(i) == Found(o, i) /\ i \notin lost IN
    CASE Kind[o] = "process" -> "delete"
      [] Kind[o] = "namespace" ->
            IF Exposed /\ (lost # {} \/ world[o] # "tagged") THEN "raise" ELSE "delete"
      [] Kind[o] = "ifb" ->
            CASE o \notin sealed -> "delete"
              [] o \in sealed /\ (lost # {} \/ ~Exists(o)) -> "return"
              [] OTHER -> IF world[o] = "tagged" THEN "delete" ELSE "raise"
      [] Kind[o] = "clsact" ->
            IF lost = {} /\ world[o] \in {"plain", "alike"} THEN "delete" ELSE "raise"
      [] Kind[o] = "qdisc" ->
            IF /\ lost = {} /\ Owned(Home[o][1])
               /\ world[o] \in {"plain", "alike"} THEN "delete" ELSE "raise"
      [] Kind[o] = "veth" ->
            CASE ~Owned(Believed(o, 1)) -> "raise"
              [] Owned(Believed(o, 1)) /\ ~finds(1) /\ ~Owned(Believed(o, 2)) -> "raise"
              [] Owned(Believed(o, 1)) /\ ~finds(1) /\ Owned(Believed(o, 2))
                    /\ ~finds(2) -> "return"
              [] OTHER -> IF o \in sealed /\ world[o] # "tagged" THEN "raise" ELSE "delete"

(* The inverse of o asks before it deletes.                                *)
Asks(o) ==
    CASE Kind[o] = "process" -> FALSE
      [] Kind[o] = "namespace" -> Exposed
      [] Kind[o] = "ifb" -> o \in sealed
      [] OTHER -> TRUE

Answered(lost) ==
    CASE Verdict(Current, lost) = "raise" -> Raises /\ UNCHANGED assumed
      [] Verdict(Current, lost) = "return" ->
            Cleaned /\ assumed' = IF lost = {} THEN assumed ELSE assumed \cup {Current}
      [] OTHER -> Goes /\ UNCHANGED assumed

(* Mutant: whatever has the name is deleted.                               *)
QueryNothing ==
    /\ pc = "query" /\ Goes
    /\ UNCHANGED <<k, machine, known, sealed, traffic, cancel, state, assumed, faults>>

(* The queries are answered, those about some end fail, or the marker of a *)
(* namespace cannot be read or an answer is no JSON.                       *)
Query ==
    /\ pc = "query"
    /\ \/ Answered({}) /\ UNCHANGED faults
       \/ /\ Asks(Current) /\ CommandFails
          /\ \/ \E lost \in {{1}, {2}, {1, 2}} : Answered(lost)
             \/ Raises /\ UNCHANGED assumed
    /\ UNCHANGED <<k, machine, known, sealed, traffic, cancel, state>>

(* The deleting command, on an object that is there or is not.             *)
Delete ==
    /\ pc = "delete"
    /\ \/ /\ Exists(Current) \/ Kind[Current] \in {"namespace", "process"}
          /\ world' = Deleted(Current)
          /\ Cleaned /\ UNCHANGED faults
       \/ /\ ~Exists(Current) /\ Kind[Current] \notin {"namespace", "process"}
          /\ Raises /\ UNCHANGED <<world, faults>>
       \/ /\ CommandFails /\ Raises
          /\ \/ UNCHANGED world
             \/ LateEffect /\ world' = Deleted(Current)
    /\ UNCHANGED <<k, moved, known, up, sealed, traffic, cancel, state, assumed>>

(* Objects the route, qdisc and namespace snapshot shows: a link that is   *)
(* down has no route and no qdisc.                                         *)
Shown ==
    {o \in Object : Exists(o) /\ (Kind[o] \in {"namespace", "clsact", "qdisc"} \/ o \in up)}

(* Mutant: the fresh snapshot is not compared.                             *)
VerifyNothing ==
    /\ pc = "verify"
    /\ pc' = "done"
    /\ UNCHANGED <<k, machine, record, traffic, cancel, state, outcome, faults>>

VerifyCleanup ==
    /\ pc = "verify"
    /\ pc' = "done"
    /\ \/ /\ state' = IF failures = {} /\ Shown = {} THEN state ELSE "cleanup_failed"
          /\ UNCHANGED faults
       \/ CommandFails /\ state' = "cleanup_failed"
    /\ UNCHANGED <<k, machine, record, traffic, cancel, outcome>>

-----------------------------------------------------------------------------
(* The environment.                                                        *)

Signal ==
    /\ ~cancel /\ pc # "done"
    /\ cancel' = TRUE
    /\ UNCHANGED <<pc, k, machine, record, traffic, state, outcome, faults>>

Fork ==
    /\ leader \in traffic
    /\ \E h \in Helper \ traffic : traffic' = traffic \cup {h}
    /\ UNCHANGED <<pc, k, machine, record, cancel, state, outcome, faults>>

Exit ==
    /\ \E p \in traffic : traffic' = traffic \ {p}
    /\ UNCHANGED <<pc, k, machine, record, cancel, state, outcome, faults>>

(* Somebody replaces an object on the host, while the traffic child runs:  *)
(* a qdisc also by one that looks like ours.                               *)
Meddle ==
    /\ leader \in traffic
    /\ \E o \in Object, w \in {"foreign", "alike"} :
          /\ world[o] \in {"plain", "tagged"} /\ Kind[o] # "process"
          /\ w = "alike" => Kind[o] \in Discs
          /\ \A i \in {1, 2} : Where(o, i) = Host
          /\ world' = [Deleted(o) EXCEPT ![o] = w]
    /\ UNCHANGED <<pc, k, moved, up, record, traffic, cancel, state, outcome, faults>>

Main ==
    /\ \/ VerifyPreflight \/ Build \/ BuildFails \/ StartTraffic \/ Watch
       \/ StopChild \/ AwaitChild \/ TakeCleanup \/ Query \/ Delete \/ VerifyCleanup
    /\ UNCHANGED topology
Environment ==
    /\ Signal \/ Fork \/ Exit \/ Meddle
    /\ UNCHANGED topology
Next == Main \/ Environment

Spec == Init /\ [][Next]_vars

(* Each command and wait has a timeout; run() is not suspended for ever.   *)
FairSpec == Spec /\ WF_vars(Main)

-----------------------------------------------------------------------------
(* Properties.                                                             *)

Teardown == {"teardown", "query", "delete", "verify", "done"}

PhaseInv ==
    /\ pc \in Teardown => leader \notin traffic
    /\ pc \in {"preflight", "build"} => traffic = {} /\ failures = {} /\ tries = 0
    /\ pc \in {"query", "delete"} => cleanups # <<>>
    /\ pc \in {"watch", "stopping", "grace"} => Exposed

(* _cleanups holds each object once, above the namespaces it needs.        *)
StackInv ==
    /\ \A i, j \in DOMAIN cleanups : cleanups[i] = cleanups[j] => i = j
    /\ \A i \in DOMAIN cleanups, e \in {1, 2} :
          Home[cleanups[i]][e] # Host =>
             \E j \in DOMAIN cleanups : j < i /\ cleanups[j] = Home[cleanups[i]][e]

(* What run() relies on: the traffic child is gone before the first inverse *)
(* runs, and the inverses are ordered.                                      *)
IInv == TypeOK /\ PhaseInv /\ StackInv

(* As long as an inverse is registered the namespaces it must enter exist: *)
(* LIFO cleanup never strands a veth or qdisc behind a deleted namespace.   *)
DependentsFirst ==
    \A i \in DOMAIN cleanups, e \in {1, 2} :
       Home[cleanups[i]][e] # Host => Exists(Home[cleanups[i]][e])

(* Teardown follows the traffic, last first, and is never cut off from what *)
(* is left to delete.                                                       *)
TeardownIsOrdered == IInv /\ DependentsFirst

(* Objects whose creating command run() saw succeed.                        *)
Created == {Plan[i].obj : i \in {j \in 1..k - 1 : Plan[j].do = "create"}}

(* A report other than cleanup_failed means that no namespace and no       *)
(* queueing discipline is left, no link that is up, and nothing of what    *)
(* run() saw being created: whichever command failed, wherever a veth's    *)
(* ends were.  What can be left is a link that is down, which no snapshot  *)
(* shows: one whose creation was given up on after it took effect, since   *)
(* its inverse was never registered, or one whose inverse could not ask    *)
(* for it and took it for gone (CreatedIsGone).                            *)
ReportedClean ==
    pc = "done" /\ state # "cleanup_failed" =>
       \A o \in Object : Exists(o) =>
          /\ Kind[o] \in {"veth", "ifb", "process"}
          /\ o \notin up /\ o \notin Created \ assumed

(* docs/CHAOS-LIFECYCLE.md: cleanup retries a transient failure, continues *)
(* through independent cleanup actions, and then compares a fresh snapshot. *)
(* So what run() saw being created is gone, or the report is               *)
(* cleanup_failed.                                                         *)
CreatedIsGone ==
    pc = "done" /\ state # "cleanup_failed" => \A o \in Created : ~Exists(o)

(* Cleanup never deletes what somebody else put in the place of one of our *)
(* objects and its look can tell from ours.  A root of kind prio with the  *)
(* handle 1: and a clsact (always ffff:) cannot be told: by kind and       *)
(* handle is how qdiscs are owned, and those are deleted as ours ("alike"). *)
ForeignKept ==
    [][\A o \in Object : world[o] = "foreign" => world'[o] = "foreign"]_vars

(* Once cancel() was called, run() starts no traffic.                       *)
NoTrafficAfterCancel == [][cancel /\ traffic = {} => traffic' = {}]_vars

(* run() ends, whatever keeps a cleanup from working.                       *)
RunEnds == <>(pc = "done")

(* docs/CHAOS-LIFECYCLE.md: cancellation stops and waits for the traffic    *)
(* process group before topology.cleanup_started.                          *)
TrafficGoneFirst == pc \in Teardown => traffic = {}
=============================================================================
