------------------------ MODULE ChaosLifecycleProofs ------------------------
(***************************************************************************)
(* Proofs about ChaosLifecycle, for any objects, any plans that build       *)
(* namespaces before what lives in them, and any number of failing commands. *)
(***************************************************************************)
EXTENDS ChaosLifecycle, TLAPS

Registered == {cleanups[i] : i \in DOMAIN cleanups}
Building == {"preflight", "build"}
Exposing == {"watch", "stopping", "grace"}

(* While run() builds, what it created is on the machine and registered,    *)
(* and nobody else was there; what was created and still exists is          *)
(* registered, or its cleanup failed or took it for gone unasked.           *)
CreatedInv ==
    /\ Registered \subseteq Created
    /\ pc \in Building => /\ Created \subseteq Registered
                          /\ \A o \in Created : Exists(o)
    /\ \A o \in Created : Exists(o) => o \in Registered \cup failures \cup assumed
    /\ \A i \in 1..k - 1 : Plan[i].do = "tag" => Plan[i].obj \in sealed
    /\ pc \in Building \cup Exposing => \A o \in Object : Exists(o) => o \in Created \cup sealed

(* At most one end was moved by a command that was given up on.             *)
MovedInv ==
    /\ known \subseteq moved
    /\ \A x, y \in moved \ known : x = y
    /\ pc \in Building => moved = known

(* What others put on the host is there since the child ran, outside every  *)
(* namespace, in the place of something of ours that has a tag or is no     *)
(* interface; an inverse that deletes has looked, with or without answers.  *)
ForeignInv ==
    /\ \A o \in Object : world[o] \in {"foreign", "alike"} =>
          /\ Exposed /\ pc \notin Building /\ Kind[o] # "process"
          /\ Kind[o] \in {"veth", "ifb"} => o \in sealed
          /\ \A e \in {1, 2} : Where(o, e) = Host
    /\ pc = "delete" => \E lost \in SUBSET {1, 2} : Verdict(Current, lost) = "delete"

Inv == IInv /\ DependentsFirst /\ CreatedInv /\ MovedInv /\ ForeignInv

-----------------------------------------------------------------------------
LEMMA PlanTyped ==
    ASSUME topology \in Topology
    PROVE  /\ Len(Plan) \in Nat /\ DOMAIN Plan = 1..Len(Plan)
           /\ \A i \in DOMAIN Plan :
                 Plan[i].do \in Ops /\ Plan[i].obj \in Object /\ Plan[i].end \in {1, 2}
<1>1. Plan \in Seq([do : Ops, obj : Object, end : {1, 2}])
  <2>1. PlanOf \in [Topology -> Seq([do : Ops, obj : Object, end : {1, 2}])]
    BY ChaosAssumption
  <2> QED
    BY <2>1 DEF Plan
<1> DEFINE Command == [do : Ops, obj : Object, end : {1, 2}]
<1>2. Plan \in Seq(Command) => \A i \in DOMAIN Plan : Plan[i] \in Command
  <2> HIDE DEF Command
  <2> QED
    OBVIOUS
<1> QED
  BY <1>1, <1>2

LEMMA FaultCounted ==
    ASSUME TypeOK, CommandFails PROVE faults' \in 0..MaxFaults
<1>1. MaxFaults \in Nat
  BY ChaosAssumption
<1> QED
  BY <1>1 DEF TypeOK, CommandFails

LEMMA CreatedTyped ==
    ASSUME TypeOK PROVE Created \subseteq Object
<1>1. \A i \in 1..k - 1 : i \in DOMAIN Plan
  BY PlanTyped DEF TypeOK
<1> QED
  BY <1>1, PlanTyped DEF Created, TypeOK

(* What an inverse leaves on the stack.                                     *)
LEMMA RestIsPrefix ==
    ASSUME TypeOK, StackInv, cleanups # <<>>
    PROVE  /\ Current \in Registered /\ Current \in Object
           /\ Rest \in Seq(Object) /\ Len(Rest) = Len(cleanups) - 1 /\ Rest # cleanups
           /\ \A i \in DOMAIN Rest : i \in DOMAIN cleanups /\ Rest[i] = cleanups[i]
           /\ {Rest[i] : i \in DOMAIN Rest} = Registered \ {Current}
<1> DEFINE n == Len(cleanups)
<1>1. cleanups \in Seq(Object) /\ n \in Nat \ {0} /\ DOMAIN cleanups = 1..n
  BY DEF TypeOK
<1>2. n \in DOMAIN cleanups /\ Current = cleanups[n] /\ Current \in Object
  BY <1>1 DEF Current
<1>3. Rest \in Seq(Object) /\ Len(Rest) = n - 1
  BY <1>1 DEF Rest
<1>4. \A i \in 1..n - 1 : Rest[i] = cleanups[i]
  BY <1>1 DEF Rest
<1>5. DOMAIN Rest = 1..n - 1
  BY <1>3
<1>6. \A i \in 1..n - 1 : cleanups[i] # Current
  BY <1>1, <1>2 DEF StackInv
<1>7. Registered = {cleanups[i] : i \in 1..n - 1} \cup {Current}
  BY <1>1, <1>2 DEF Registered
<1> QED
  BY <1>1, <1>2, <1>3, <1>4, <1>5, <1>6, <1>7 DEF Registered

(* Steps that leave the machine, what run() recorded and its place in the   *)
(* plan alone.                                                              *)
LEMMA QuietKeeps ==
    ASSUME Inv, UNCHANGED <<topology, k, machine, record, outcome>>, TypeOK', PhaseInv',
           pc' \in Building => pc \in Building,
           pc' \in Building \cup Exposing => pc \in Building \cup Exposing,
           pc' = "delete" => pc = "delete"
    PROVE  Inv'
<1>1. /\ Created' = Created /\ Registered' = Registered /\ Plan' = Plan
      /\ \A o \in Object : Exists(o)' = Exists(o)
      /\ \A o, e : Where(o, e)' = Where(o, e)
  BY DEF machine, record, Created, Plan, Registered, Exists, Where
<1>2. StackInv' /\ DependentsFirst'
  BY DEF Inv, IInv, StackInv, DependentsFirst, machine, record, Exists
<1>3. CreatedInv'
  BY <1>1 DEF Inv, CreatedInv, machine, record, outcome, Exists
<1>4. MovedInv'
  BY DEF Inv, MovedInv, machine, record
<1>5. Exposed' = Exposed
  BY <1>1 DEF Exposed
<1>6. \A lost : Verdict(Current, lost)' = Verdict(Current, lost)
  BY DEF machine, record, Exposed, Verdict, Owned, Found, Believed, Exists, Plan, Current
<1>7. ForeignInv'
  BY <1>1, <1>5, <1>6 DEF Inv, ForeignInv, machine, record
<1> QED
  BY <1>2, <1>3, <1>4, <1>7 DEF Inv, IInv

THEOREM InitInv == Init => Inv
<1> SUFFICES ASSUME Init PROVE Inv
  OBVIOUS
<1>1. TypeOK
  <2>1. MaxFaults \in Nat
    BY ChaosAssumption
  <2>2. k \in 1..Len(Plan) + 1
    <3>1. topology \in Topology /\ k = 1
      BY DEF Init
    <3>2. Len(Plan) \in Nat
      BY <3>1, PlanTyped
    <3> QED
      BY <3>1, <3>2
  <2>3. cleanups \in Seq(Object)
    BY DEF Init
  <2>4. world \in [Object -> Worlds]
    BY DEF Init, Worlds
  <2>5. /\ moved = {} /\ known = {} /\ up = {} /\ sealed = {} /\ traffic = {}
        /\ failures = {} /\ assumed = {}
    BY DEF Init
  <2>6. cancel \in BOOLEAN
    BY DEF Init
  <2>7. /\ topology \in Topology /\ pc \in Locations /\ state \in States
        /\ tries \in 0..Attempts - 1 /\ faults \in 0..MaxFaults
    BY <2>1 DEF Init, Locations, States, Attempts
  <2> QED
    BY <2>2, <2>3, <2>4, <2>5, <2>6, <2>7 DEF TypeOK
<1>2. PhaseInv /\ StackInv /\ DependentsFirst
  BY DEF Init, PhaseInv, StackInv, DependentsFirst, Teardown
<1>3. Created = {} /\ Registered = {}
  BY DEF Init, Created, Registered
<1>4. CreatedInv /\ MovedInv /\ ForeignInv
  BY <1>3 DEF Init, CreatedInv, MovedInv, ForeignInv, Exists
<1> QED
  BY <1>1, <1>2, <1>4 DEF Inv, IInv

-----------------------------------------------------------------------------
LEMMA VerifyPreflightKeeps ==
    ASSUME Inv, VerifyPreflight, UNCHANGED topology PROVE Inv'
<1>1. pc = "preflight" /\ pc' \in {"build", "teardown"}
  BY DEF VerifyPreflight, Fails
<1>2. TypeOK'
  BY <1>1, FaultCounted DEF Inv, IInv, TypeOK, VerifyPreflight, Fails, Locations, States,
              machine, record, outcome, Plan
<1>3. PhaseInv'
  BY <1>1 DEF Inv, IInv, PhaseInv, VerifyPreflight, Teardown, record, outcome
<1> QED
  BY <1>1, <1>2, <1>3, QuietKeeps DEF VerifyPreflight, Building

LEMMA StartTrafficKeeps ==
    ASSUME Inv, StartTraffic, UNCHANGED topology PROVE Inv'
<1>1. pc = "build" /\ pc' \in {"watch", "teardown"}
  BY DEF StartTraffic, Fails
<1>2. TypeOK'
  BY <1>1, FaultCounted DEF Inv, IInv, TypeOK, StartTraffic, Fails, Locations, States,
              machine, record, outcome, Plan
<1>3. PhaseInv'
  BY <1>1 DEF Inv, IInv, PhaseInv, StartTraffic, Fails, Teardown, Exposed, Plan, record, outcome
<1> QED
  BY <1>1, <1>2, <1>3, QuietKeeps DEF StartTraffic, Building, Exposing

LEMMA ChildKeeps ==
    ASSUME Inv, Watch \/ StopChild \/ AwaitChild, UNCHANGED topology PROVE Inv'
<1>1. pc \in Exposing /\ pc' \in {"stopping", "grace", "teardown"}
  BY DEF Watch, StopChild, AwaitChild, Exposing
<1>2. TypeOK'
  BY <1>1 DEF Inv, IInv, TypeOK, Watch, StopChild, AwaitChild, Locations, States,
              machine, record, outcome, Plan
<1>3. PhaseInv'
  BY <1>1 DEF Inv, IInv, PhaseInv, Watch, StopChild, AwaitChild, Teardown, Exposing, Exposed, Plan,
              record, outcome
<1>4. UNCHANGED <<topology, k, machine, record, outcome>>
  BY DEF Watch, StopChild, AwaitChild
<1> QED
  BY <1>1, <1>2, <1>3, <1>4, QuietKeeps DEF Building, Exposing

LEMMA TakeCleanupKeeps ==
    ASSUME Inv, TakeCleanup, UNCHANGED topology PROVE Inv'
<1>1. pc = "teardown" /\ pc' \in {"verify", "query"} /\ (pc' = "query" => cleanups # <<>>)
  BY DEF TakeCleanup
<1>2. TypeOK'
  BY <1>1 DEF Inv, IInv, TypeOK, TakeCleanup, Locations, machine, record, outcome, Plan
<1>3. PhaseInv'
  BY <1>1 DEF Inv, IInv, PhaseInv, TakeCleanup, Teardown, Exposed, Plan, record, outcome
<1> QED
  BY <1>1, <1>2, <1>3, QuietKeeps DEF TakeCleanup, Building, Exposing

LEMMA VerifyCleanupKeeps ==
    ASSUME Inv, VerifyCleanup, UNCHANGED topology PROVE Inv'
<1>1. pc = "verify" /\ pc' = "done"
  BY DEF VerifyCleanup
<1>2. TypeOK'
  BY <1>1, FaultCounted DEF Inv, IInv, TypeOK, VerifyCleanup, Locations, States,
              machine, record, outcome, Plan
<1>3. PhaseInv'
  BY <1>1 DEF Inv, IInv, PhaseInv, VerifyCleanup, Teardown, Exposed, Plan, record, outcome
<1> QED
  BY <1>1, <1>2, <1>3, QuietKeeps DEF VerifyCleanup, Building, Exposing

LEMMA SignalKeeps ==
    ASSUME Inv, Signal, UNCHANGED topology PROVE Inv'
<1>1. TypeOK' /\ PhaseInv'
  BY DEF Inv, IInv, TypeOK, PhaseInv, Signal, Exposed, Plan, machine, record, outcome
<1> QED
  BY <1>1, QuietKeeps DEF Signal

LEMMA ProcessesKeep ==
    ASSUME Inv, Fork \/ Exit, UNCHANGED topology PROVE Inv'
<1>1. TypeOK'
  BY DEF Inv, IInv, TypeOK, Fork, Exit, Plan, machine, record, outcome
<1>2. PhaseInv'
  BY DEF Inv, IInv, PhaseInv, Fork, Exit, Exposed, Plan, machine, record, outcome
<1> QED
  BY <1>1, <1>2, QuietKeeps DEF Fork, Exit

-----------------------------------------------------------------------------
(* What a command does to the machine, whether or not it was seen to work.  *)
LEMMA EffectDoes ==
    ASSUME TypeOK, Effect, k \in DOMAIN Plan
    PROVE  /\ world' \in [Object -> Worlds]
           /\ moved' \in SUBSET (Object \X {1, 2}) /\ up' \in SUBSET Object
           /\ \A o \in Object :
                 /\ Exists(o) => Exists(o)'
                 /\ Exists(o)' => Exists(o) \/ (o = Plan[k].obj /\ Plan[k].do \in {"create", "tag"})
                 /\ world'[o] \in {"foreign", "alike"} => world'[o] = world[o]
           /\ Plan[k].do = "create" => world'[Plan[k].obj] # "absent"
           /\ moved \subseteq moved'
           /\ moved' = IF Plan[k].do = "move" THEN moved \cup {<<Plan[k].obj, Plan[k].end>>} ELSE moved
<1>1. Plan[k].obj \in Object /\ Plan[k].end \in {1, 2}
  BY PlanTyped DEF TypeOK
<1>2. world' \in {world, [world EXCEPT ![Plan[k].obj] = "plain"], [world EXCEPT ![Plan[k].obj] = "tagged"]}
  BY DEF Effect
<1>3. /\ Plan[k].do \notin {"create", "tag"} => world' = world
      /\ Plan[k].do = "create" => world' = [world EXCEPT ![Plan[k].obj] = "plain"]
      /\ Plan[k].do = "tag" => world' = [world EXCEPT ![Plan[k].obj] = "tagged"]
  BY DEF Effect
<1>4. /\ moved' = IF Plan[k].do = "move" THEN moved \cup {<<Plan[k].obj, Plan[k].end>>} ELSE moved
      /\ up' = IF Plan[k].do = "raise" THEN up \cup {Plan[k].obj} ELSE up
  BY DEF Effect
<1>5. /\ world' \in [Object -> Worlds]
      /\ moved' \in SUBSET (Object \X {1, 2}) /\ up' \in SUBSET Object
  BY <1>1, <1>2, <1>4 DEF TypeOK, Worlds
<1>6. ASSUME NEW o \in Object
      PROVE  /\ Exists(o) => Exists(o)'
             /\ Exists(o)' => Exists(o) \/ (o = Plan[k].obj /\ Plan[k].do \in {"create", "tag"})
             /\ world'[o] \in {"foreign", "alike"} => world'[o] = world[o]
  BY <1>1, <1>2, <1>3 DEF TypeOK, Exists
<1>7. Plan[k].do = "create" => world'[Plan[k].obj] # "absent"
  BY <1>1, <1>3 DEF TypeOK
<1> QED
  BY <1>4, <1>5, <1>6, <1>7

(* A command that worked adds to what was created, and to nothing else.     *)
LEMMA BuildCreates ==
    ASSUME Inv, Build, UNCHANGED topology
    PROVE  /\ k \in DOMAIN Plan /\ Plan' = Plan
           /\ Plan[k].do = "create" =>
                 Created' = Created \cup {Plan[k].obj} /\ Plan[k].obj \notin Created
           /\ Plan[k].do # "create" => Created' = Created
<1>1. k \in DOMAIN Plan /\ Plan' = Plan /\ k' = k + 1 /\ k \in Nat \ {0}
  BY PlanTyped DEF Inv, IInv, TypeOK, Build, Plan
<1>2. Created' = {Plan[i].obj : i \in {j \in 1..k : Plan[j].do = "create"}}
  BY <1>1 DEF Created
<1>3. 1..k = 1..(k - 1) \cup {k}
  BY <1>1
<1>4. \A j \in 1..k - 1 : j \in DOMAIN Plan /\ j # k
  BY <1>1, PlanTyped DEF Inv, IInv, TypeOK
<1>5. \A i, j \in DOMAIN Plan :
         Plan[i].do = "create" /\ Plan[j].do = "create" /\ Plan[i].obj = Plan[j].obj => i = j
  BY ChaosAssumption DEF Plan, Inv, IInv, TypeOK
<1>6. ASSUME Plan[k].do = "create" PROVE Plan[k].obj \notin Created
  BY <1>1, <1>4, <1>5, <1>6 DEF Created
<1> QED
  BY <1>1, <1>2, <1>3, <1>6 DEF Created

(* What lives in a namespace finds it built, registered and on the machine. *)
LEMMA HomesFirst ==
    ASSUME TypeOK, CreatedInv, pc = "build", k \in DOMAIN Plan, Plan[k].do = "create",
           NEW e \in {1, 2}, Home[Plan[k].obj][e] # Host
    PROVE  Home[Plan[k].obj][e] \in Registered /\ Exists(Home[Plan[k].obj][e])
<1>1. PICK j \in 1..k - 1 : Plan[j].do = "create" /\ Plan[j].obj = Home[Plan[k].obj][e]
  BY PlanAssumption DEF Plan, TypeOK
<1>2. Home[Plan[k].obj][e] \in Created
  BY <1>1 DEF Created
<1> QED
  BY <1>2 DEF CreatedInv, Building

LEMMA BuildKeeps ==
    ASSUME Inv, Build, UNCHANGED topology PROVE Inv'
<1> DEFINE c == Plan[k]
<1> USE DEF Inv, IInv
<1>1. /\ k \in DOMAIN Plan /\ k \in Nat \ {0} /\ k' = k + 1 /\ pc = "build" /\ pc' = "build"
      /\ Plan' = Plan /\ Effect /\ c.obj \in Object /\ c.end \in {1, 2}
      /\ UNCHANGED <<traffic, cancel, state, tries, failures, assumed, faults>>
  BY BuildCreates, PlanTyped DEF Build, TypeOK, outcome
<1>2. /\ cleanups' = IF c.do = "create" THEN Append(cleanups, c.obj) ELSE cleanups
      /\ sealed' = IF c.do = "tag" THEN sealed \cup {c.obj} ELSE sealed
      /\ known' = IF c.do = "move" THEN known \cup {<<c.obj, c.end>>} ELSE known
  BY DEF Build
<1>3. TypeOK'
  <2>1. k' \in 1..Len(Plan) + 1
    BY <1>1, PlanTyped DEF TypeOK
  <2>2. cleanups' \in Seq(Object)
    BY <1>1, <1>2 DEF TypeOK
  <2> QED
    BY <1>1, <1>2, <2>1, <2>2, EffectDoes DEF TypeOK
<1>4. PhaseInv'
  BY <1>1 DEF PhaseInv, Teardown
<1>5. ASSUME c.do = "create"
      PROVE  Registered' = Registered \cup {c.obj} /\ StackInv' /\ DependentsFirst'
  <2>1. /\ cleanups \in Seq(Object) /\ cleanups' = Append(cleanups, c.obj)
        /\ Len(cleanups') = Len(cleanups) + 1 /\ Len(cleanups) \in Nat
        /\ \A i \in 1..Len(cleanups) : cleanups'[i] = cleanups[i]
        /\ cleanups'[Len(cleanups) + 1] = c.obj
    BY <1>1, <1>2, <1>5 DEF TypeOK
  <2>2. DOMAIN cleanups = 1..Len(cleanups) /\ DOMAIN cleanups' = 1..Len(cleanups) + 1
    BY <1>3, <2>1 DEF TypeOK
  <2>3. c.obj \notin Registered
    BY <1>5, BuildCreates DEF CreatedInv
  <2>4. Registered' = Registered \cup {c.obj}
    BY <2>1, <2>2 DEF Registered
  <2>5. StackInv'
    <3>1. ASSUME NEW i \in DOMAIN cleanups', NEW j \in DOMAIN cleanups', cleanups'[i] = cleanups'[j]
          PROVE  i = j
      BY <2>1, <2>2, <2>3, <3>1 DEF StackInv, Registered
    <3>2. ASSUME NEW i \in DOMAIN cleanups', NEW e \in {1, 2}, Home[cleanups'[i]][e] # Host
          PROVE  \E j \in DOMAIN cleanups' : j < i /\ cleanups'[j] = Home[cleanups'[i]][e]
      <4>1. CASE i \in DOMAIN cleanups
        BY <2>1, <2>2, <3>2, <4>1 DEF StackInv
      <4>2. CASE i = Len(cleanups) + 1
        BY <1>1, <1>5, <2>1, <2>2, <3>2, <4>2, HomesFirst, SMTT(30) DEF Registered
      <4> QED
        BY <2>1, <2>2, <4>1, <4>2
    <3> QED
      BY <3>1, <3>2 DEF StackInv
  <2>6. DependentsFirst'
    <3>1. ASSUME NEW i \in DOMAIN cleanups', NEW e \in {1, 2}, Home[cleanups'[i]][e] # Host
          PROVE  Exists(Home[cleanups'[i]][e])
      <4>1. CASE i \in DOMAIN cleanups
        BY <2>1, <2>2, <3>1, <4>1 DEF DependentsFirst
      <4>2. CASE i = Len(cleanups) + 1
        BY <1>1, <1>5, <2>1, <2>2, <3>1, <4>2, HomesFirst
      <4> QED
        BY <2>1, <2>2, <4>1, <4>2
    <3>2. \A o \in Object : Exists(o) => Exists(o)'
      BY <1>1, EffectDoes
    <3>3. Home \in [Object -> [{1, 2} -> Object \cup {Host}]]
      BY ChaosAssumption
    <3>4. \A i \in DOMAIN cleanups' : cleanups'[i] \in Object
      BY <1>3, <2>2 DEF TypeOK
    <3> QED
      BY <3>1, <3>2, <3>3, <3>4 DEF DependentsFirst
  <2> QED
    BY <2>4, <2>5, <2>6
<1>6. ASSUME c.do # "create"
      PROVE  Registered' = Registered /\ StackInv' /\ DependentsFirst'
  <2>1. cleanups' = cleanups
    BY <1>2, <1>6
  <2>2. StackInv' /\ Registered' = Registered
    BY <2>1 DEF StackInv, Registered
  <2>3. \A o \in Object : Exists(o) => Exists(o)'
    BY <1>1, EffectDoes
  <2>4. Home \in [Object -> [{1, 2} -> Object \cup {Host}]] /\ \A i \in DOMAIN cleanups : cleanups[i] \in Object
    BY ChaosAssumption DEF TypeOK
  <2>5. DependentsFirst'
    BY <2>1, <2>3, <2>4 DEF DependentsFirst
  <2> QED
    BY <2>2, <2>5
<1>7. Created \subseteq Object /\ \A o \in Created : Exists(o)
  BY <1>1, CreatedTyped DEF CreatedInv, Building
<1>8. \A o \in Object : Exists(o)' => Exists(o) \/ (o = c.obj /\ c.do \in {"create", "tag"})
  BY <1>1, EffectDoes
<1>9. CreatedInv'
  <2>1. Registered' \subseteq Created' /\ Created' \subseteq Registered'
    BY <1>1, <1>5, <1>6, BuildCreates DEF CreatedInv, Building
  <2>2. \A o \in Created' : Exists(o)'
    BY <1>1, <1>7, BuildCreates, EffectDoes DEF Exists
  <2>3. \A i \in 1..k' - 1 : Plan'[i].do = "tag" => Plan'[i].obj \in sealed'
    <3>1. ASSUME NEW i \in 1..k' - 1, Plan'[i].do = "tag" PROVE Plan'[i].obj \in sealed'
      <4>1. CASE i = k
        BY <1>1, <1>2, <3>1, <4>1
      <4>2. CASE i \in 1..k - 1
        BY <1>1, <1>2, <3>1, <4>2 DEF CreatedInv
      <4> QED
        BY <1>1, <4>1, <4>2
    <3> QED
      BY <3>1
  <2>4. \A o \in Object : Exists(o)' => o \in Created' \cup sealed'
    BY <1>1, <1>2, <1>8, BuildCreates DEF CreatedInv, Building
  <2> QED
    BY <1>1, <2>1, <2>2, <2>3, <2>4 DEF CreatedInv
<1>10. MovedInv'
  BY <1>1, <1>2, EffectDoes DEF MovedInv, Building
<1>11. ForeignInv'
  BY <1>1, EffectDoes DEF ForeignInv, Building
<1> QED
  BY <1>3, <1>4, <1>5, <1>6, <1>9, <1>10, <1>11

LEMMA BuildFailsKeeps ==
    ASSUME Inv, BuildFails, UNCHANGED topology PROVE Inv'
<1> USE DEF Inv, IInv
<1>1. /\ pc = "build" /\ pc' = "teardown" /\ k \in DOMAIN Plan /\ Plan' = Plan
      /\ UNCHANGED <<k, known, sealed, cleanups, traffic, cancel, tries, failures, assumed>>
  BY PlanTyped DEF BuildFails, Fails, TypeOK, Plan, record, outcome
<1>2. Created' = Created /\ Registered' = Registered /\ Created \subseteq Object /\ Exposed' = Exposed
  BY <1>1, CreatedTyped DEF Created, Registered, Exposed
<1>3. UNCHANGED machine \/ Effect
  BY DEF BuildFails
<1>4. /\ world' \in [Object -> Worlds]
      /\ moved' \in SUBSET (Object \X {1, 2}) /\ up' \in SUBSET Object
      /\ \A o \in Object : /\ Exists(o) => Exists(o)'
                           /\ world'[o] \in {"foreign", "alike"} => world'[o] = world[o]
      /\ moved \subseteq moved'
      /\ \A x, y \in moved' \ moved : x = y
  <2>1. CASE UNCHANGED machine
    BY <2>1 DEF machine, TypeOK, Exists
  <2>2. CASE Effect
    BY <1>1, <2>2, EffectDoes
  <2> QED
    BY <1>3, <2>1, <2>2
<1>5. TypeOK'
  BY <1>1, <1>4, FaultCounted DEF TypeOK, BuildFails, Fails, Locations, States
<1>6. PhaseInv' /\ StackInv'
  BY <1>1 DEF PhaseInv, StackInv, Teardown
<1>7. DependentsFirst'
  <2>1. Home \in [Object -> [{1, 2} -> Object \cup {Host}]] /\ \A i \in DOMAIN cleanups : cleanups[i] \in Object
    BY ChaosAssumption DEF TypeOK
  <2> QED
    BY <1>1, <1>4, <2>1 DEF DependentsFirst
<1>8. CreatedInv'
  BY <1>1, <1>2, <1>4 DEF CreatedInv, Building, Exposing
<1>9. MovedInv'
  BY <1>1, <1>4 DEF MovedInv, Building
<1>10. ForeignInv'
  BY <1>1, <1>4 DEF ForeignInv, Building
<1> QED
  BY <1>5, <1>6, <1>7, <1>8, <1>9, <1>10

-----------------------------------------------------------------------------
(* Deleting takes nothing that others put there, and no namespace on which  *)
(* something registered depends.                                            *)
LEMMA DeletedTakes ==
    ASSUME TypeOK, NEW o \in Object
    PROVE  /\ Deleted(o) \in [Object -> Worlds]
           /\ \A p \in Object : Deleted(o)[p] \in {"absent", world[p]}
           /\ Deleted(o)[o] = "absent"
           /\ \A p \in Object : p # o /\ (\A e \in {1, 2} : Where(p, e) # o) => Deleted(o)[p] = world[p]
  BY DEF TypeOK, Deleted, Worlds

LEMMA HomesAreOnHost ==
    ASSUME TypeOK, NEW o \in Object, NEW e \in {1, 2}, Home[o][e] # Host
    PROVE  /\ Home[o][e] \in Object
           /\ \A f \in {1, 2}, p \in Object : Where(Home[o][e], f) # p
<1>1. Home[o][e] \in Object /\ Host \notin Object
  BY ChaosAssumption
<1>2. \A f \in {1, 2} : Home[Home[o][e]][f] = Host
  BY PlanAssumption
<1> QED
  BY <1>1, <1>2 DEF Where

(* After whatever was in the way of the last inverse, its homes remain.     *)
LEMMA DeletedKeepsHomes ==
    ASSUME TypeOK, StackInv, DependentsFirst, cleanups # <<>>,
           NEW i \in DOMAIN cleanups, NEW e \in {1, 2}, Home[cleanups[i]][e] # Host
    PROVE  Deleted(Current)[Home[cleanups[i]][e]] # "absent"
<1> DEFINE n == Home[cleanups[i]][e]
<1>1. cleanups[i] \in Object /\ Len(cleanups) \in Nat /\ DOMAIN cleanups = 1..Len(cleanups)
  BY DEF TypeOK
<1>2. PICK j \in DOMAIN cleanups : j < i /\ cleanups[j] = n
  BY DEF StackInv
<1>3. n # Current
  BY <1>1, <1>2 DEF StackInv, Current
<1>4. n \in Object /\ \A f \in {1, 2}, p \in Object : Where(n, f) # p
  BY <1>1, HomesAreOnHost
<1>5. Current \in Object
  BY RestIsPrefix
<1>6. Deleted(Current)[n] = world[n]
  BY <1>3, <1>4, <1>5, DeletedTakes
<1> QED
  BY <1>6 DEF DependentsFirst, Exists

LEMMA VerdictDecides ==
    ASSUME NEW o \in Object, NEW lost
    PROVE  /\ Verdict(o, lost) \in {"raise", "return", "delete"}
           /\ Verdict(o, lost) = "return" => Kind[o] \in {"ifb", "veth"}
<1>1. Kind[o] \in Kinds
  BY ChaosAssumption
<1>2. CASE Kind[o] = "process"
  BY <1>2 DEF Verdict
<1>3. CASE Kind[o] = "namespace"
  BY <1>3 DEF Verdict
<1>4. CASE Kind[o] = "ifb"
  BY <1>4 DEF Verdict
<1>5. CASE Kind[o] = "clsact"
  BY <1>5 DEF Verdict
<1>6. CASE Kind[o] = "qdisc"
  BY <1>6 DEF Verdict
<1>7. CASE Kind[o] = "veth"
  BY <1>7 DEF Verdict
<1> QED
  BY <1>1, <1>2, <1>3, <1>4, <1>5, <1>6, <1>7 DEF Kinds

(* An inverse that was answered returns without deleting only when there is *)
(* nothing: at most one end of a veth can be where run() does not believe   *)
(* it is.                                                                   *)
LEMMA ReturnIsGone ==
    ASSUME MovedInv, NEW o \in Object, Verdict(o, {}) = "return"
    PROVE  ~Exists(o)
<1>1. Kind[o] \in {"ifb", "veth"}
  BY VerdictDecides
<1>2. CASE Kind[o] = "ifb"
  BY <1>2 DEF Verdict
<1>3. CASE Kind[o] = "veth"
  <2>1. ~Found(o, 1) /\ ~Found(o, 2)
    BY <1>3 DEF Verdict
  <2>2. <<o, 1>> # <<o, 2>>
    OBVIOUS
  <2> QED
    BY <2>1, <2>2 DEF Found, MovedInv
<1> QED
  BY <1>1, <1>2, <1>3

LEMMA CleanupStepKeeps ==
    ASSUME Inv, pc \in {"query", "delete"}, pc' \in {"teardown", "delete"},
           UNCHANGED <<topology, k, moved, known, up, sealed, traffic, cancel, state>>,
           world' = world \/ world' = Deleted(Current),
           cleanups' = cleanups \/ cleanups' = Rest,
           pc' = "delete" => /\ world' = world /\ cleanups' = cleanups
                             /\ \E lost \in SUBSET {1, 2} : Verdict(Current, lost) = "delete",
           cleanups' = Rest => Current \in failures' \cup assumed' \/ world'[Current] = "absent",
           tries' \in 0..Attempts - 1, faults' \in 0..MaxFaults,
           failures' \in SUBSET Object, failures \subseteq failures',
           assumed' \in SUBSET Object, assumed \subseteq assumed'
    PROVE  Inv'
<1> USE DEF Inv, IInv
<1>1. cleanups # <<>> /\ Current \in Registered /\ Current \in Object
  BY RestIsPrefix DEF PhaseInv
<1>2. /\ cleanups' \in Seq(Object)
      /\ \A i \in DOMAIN cleanups' : i \in DOMAIN cleanups /\ cleanups'[i] = cleanups[i]
      /\ Len(cleanups') \in {Len(cleanups), Len(cleanups) - 1}
      /\ Len(cleanups) \in Nat /\ DOMAIN cleanups = 1..Len(cleanups)
      /\ DOMAIN cleanups' = 1..Len(cleanups')
  BY <1>1, RestIsPrefix DEF TypeOK
<1>3. Registered' = IF cleanups' = cleanups THEN Registered ELSE Registered \ {Current}
  <2>1. CASE cleanups' = cleanups
    BY <2>1 DEF Registered
  <2>2. CASE cleanups' = Rest /\ cleanups' # cleanups
    BY <1>1, <2>2, RestIsPrefix DEF Registered
  <2> QED
    BY <2>1, <2>2
<1>4. /\ world' \in [Object -> Worlds]
      /\ \A o \in Object : world'[o] \in {"absent", world[o]}
  BY <1>1, DeletedTakes DEF TypeOK
<1>5. TypeOK'
  BY <1>2, <1>4 DEF TypeOK, Locations, Plan
<1>6. PhaseInv'
  BY <1>1 DEF PhaseInv, Teardown
<1>7. StackInv'
  <2>1. \A i, j \in DOMAIN cleanups' : cleanups'[i] = cleanups'[j] => i = j
    BY <1>2 DEF StackInv
  <2>2. ASSUME NEW i \in DOMAIN cleanups', NEW e \in {1, 2}, Home[cleanups'[i]][e] # Host
        PROVE  \E j \in DOMAIN cleanups' : j < i /\ cleanups'[j] = Home[cleanups'[i]][e]
    <3>1. i \in DOMAIN cleanups /\ cleanups'[i] = cleanups[i]
      BY <1>2
    <3>2. PICK j \in DOMAIN cleanups : j < i /\ cleanups[j] = Home[cleanups[i]][e]
      BY <2>2, <3>1 DEF StackInv
    <3>3. j \in DOMAIN cleanups'
      <4>1. PICK m \in Int : m = Len(cleanups')
        <5>1. cleanups' \in Seq(Object)
          BY <1>2
        <5> QED
          BY <5>1
      <4>2. i \in 1..m /\ j \in 1..Len(cleanups) /\ j < i
        BY <1>2, <3>2, <4>1
      <4>3. j \in 1..m
        BY <4>2
      <4> QED
        BY <1>2, <4>1, <4>3
    <3> QED
      BY <1>2, <3>1, <3>2, <3>3
  <2> QED
    BY <2>1, <2>2 DEF StackInv
<1>8. DependentsFirst'
  <2>1. ASSUME NEW i \in DOMAIN cleanups', NEW e \in {1, 2}, Home[cleanups'[i]][e] # Host
        PROVE  world'[Home[cleanups'[i]][e]] # "absent"
    <3>1. i \in DOMAIN cleanups /\ cleanups'[i] = cleanups[i]
      BY <1>2
    <3>2. CASE world' = world
      BY <2>1, <3>1, <3>2 DEF DependentsFirst, Exists
    <3>3. CASE world' = Deleted(Current)
      BY <1>1, <2>1, <3>1, <3>3, DeletedKeepsHomes
    <3> QED
      BY <3>2, <3>3
  <2> QED
    BY <2>1 DEF DependentsFirst, Exists
<1>9. Created' = Created /\ Plan' = Plan /\ Created \subseteq Object
  BY CreatedTyped DEF Created, Plan
<1>10. CreatedInv'
  <2>1. ASSUME NEW o \in Created, world'[o] # "absent" PROVE o \in Registered' \cup failures' \cup assumed'
    BY <1>3, <1>4, <1>9, <2>1 DEF CreatedInv, Exists
  <2> QED
    BY <1>3, <1>9, <2>1 DEF CreatedInv, Building, Exposing, Exists
<1>11. MovedInv'
  BY DEF MovedInv, Building
<1>12. \A o, e : Where(o, e)' = Where(o, e)
  BY DEF Where
<1>13. Exposed' = Exposed
  BY <1>9 DEF Exposed
<1>14. pc' = "delete" => \A lost : Verdict(Current, lost)' = Verdict(Current, lost)
  BY <1>9 DEF Verdict, Current, Exposed, Owned, Found, Believed, Exists
<1>15. ForeignInv'
  BY <1>4, <1>12, <1>13, <1>14 DEF ForeignInv, Building
<1> QED
  BY <1>5, <1>6, <1>7, <1>8, <1>10, <1>11, <1>15

LEMMA RaisesCounts ==
    ASSUME Inv, Raises, cleanups # <<>>
    PROVE  /\ pc' = "teardown"
           /\ tries' \in 0..Attempts - 1 /\ failures' \in SUBSET Object /\ failures \subseteq failures'
           /\ cleanups' = cleanups \/ cleanups' = Rest
           /\ cleanups' = Rest => Current \in failures'
  BY RestIsPrefix DEF Raises, Attempts, Inv, IInv, TypeOK

LEMMA RaisesKeeps ==
    ASSUME Inv, pc \in {"query", "delete"}, Raises, faults' \in 0..MaxFaults,
           world' = world \/ world' = Deleted(Current),
           UNCHANGED <<topology, k, moved, known, up, sealed, traffic, cancel, state, assumed>>
    PROVE  Inv'
<1>1. cleanups # <<>>
  BY DEF Inv, IInv, PhaseInv
<1>2. assumed' \in SUBSET Object /\ assumed \subseteq assumed'
  BY DEF Inv, IInv, TypeOK
<1>3. /\ pc' = "teardown" /\ tries' \in 0..Attempts - 1
      /\ failures' \in SUBSET Object /\ failures \subseteq failures'
      /\ cleanups' = cleanups \/ cleanups' = Rest
      /\ cleanups' = Rest => Current \in failures'
  BY <1>1, RaisesCounts
<1> QED
  BY <1>2, <1>3, CleanupStepKeeps

(* What the inverse in hand does with the answers it got.                   *)
LEMMA AnsweredKeeps ==
    ASSUME Inv, pc = "query", NEW lost \in SUBSET {1, 2}, Answered(lost),
           faults' \in 0..MaxFaults,
           UNCHANGED <<topology, k, world, moved, known, up, sealed, traffic, cancel, state>>
    PROVE  Inv'
<1>1. cleanups # <<>> /\ Current \in Object /\ MovedInv
  BY RestIsPrefix DEF Inv, IInv, PhaseInv
<1>2. tries \in 0..Attempts - 1 /\ failures \in SUBSET Object /\ assumed \in SUBSET Object
  BY DEF Inv, IInv, TypeOK
<1>3. CASE Verdict(Current, lost) = "raise"
  BY <1>3, RaisesKeeps DEF Answered
<1>4. CASE Verdict(Current, lost) = "return"
  <2>1. /\ tries' = 0 /\ pc' = "teardown" /\ cleanups' = Rest /\ failures' = failures
        /\ assumed' = IF lost = {} THEN assumed ELSE assumed \cup {Current}
    BY <1>4 DEF Answered, Cleaned
  <2>2. Current \in assumed' \/ world'[Current] = "absent"
    BY <1>1, <1>4, <2>1, ReturnIsGone DEF Exists
  <2>3. assumed' \in SUBSET Object /\ assumed \subseteq assumed' /\ tries' \in 0..Attempts - 1
    BY <1>1, <1>2, <2>1 DEF Attempts
  <2> QED
    BY <1>2, <2>1, <2>2, <2>3, CleanupStepKeeps
<1>5. CASE Verdict(Current, lost) \notin {"raise", "return"}
  <2>1. Verdict(Current, lost) = "delete"
    BY <1>1, <1>5, VerdictDecides
  <2>2. pc' = "delete" /\ UNCHANGED <<cleanups, tries, failures, assumed>>
    BY <1>5 DEF Answered, Goes
  <2>3. cleanups' # Rest
    BY <1>1, <2>2, RestIsPrefix DEF Inv, IInv, TypeOK
  <2> QED
    BY <1>1, <1>2, <2>1, <2>2, <2>3, CleanupStepKeeps
<1> QED
  BY <1>3, <1>4, <1>5

LEMMA QueryKeeps ==
    ASSUME Inv, Query, UNCHANGED topology PROVE Inv'
<1>1. /\ pc = "query"
      /\ UNCHANGED <<topology, k, world, moved, known, up, sealed, traffic, cancel, state>>
  BY DEF Query, machine
<1>2. faults' \in 0..MaxFaults
  BY FaultCounted DEF Query, Inv, IInv, TypeOK
<1>3. CASE Raises /\ UNCHANGED assumed
  BY <1>1, <1>2, <1>3, RaisesKeeps
<1>4. CASE \E lost \in SUBSET {1, 2} : Answered(lost)
  BY <1>1, <1>2, <1>4, AnsweredKeeps
<1>5. (\E lost \in SUBSET {1, 2} : Answered(lost)) \/ (Raises /\ UNCHANGED assumed)
  BY DEF Query
<1> QED
  BY <1>3, <1>4, <1>5

LEMMA DeleteKeeps ==
    ASSUME Inv, Delete, UNCHANGED topology PROVE Inv'
<1>1. /\ pc = "delete" /\ cleanups # <<>> /\ Current \in Object
      /\ UNCHANGED <<topology, k, moved, known, up, sealed, traffic, cancel, state, assumed>>
      /\ world' = world \/ world' = Deleted(Current)
  BY RestIsPrefix DEF Delete, Inv, IInv, PhaseInv
<1>2. faults' \in 0..MaxFaults
  BY FaultCounted DEF Delete, Inv, IInv, TypeOK
<1>3. CASE Raises
  BY <1>1, <1>2, <1>3, RaisesKeeps
<1>4. CASE ~Raises
  <2>1. Cleaned /\ world' = Deleted(Current)
    BY <1>4 DEF Delete
  <2>2. world'[Current] = "absent"
    BY <1>1, <2>1, DeletedTakes DEF Inv, IInv
  <2> QED
    BY <1>1, <1>2, <2>1, <2>2, CleanupStepKeeps DEF Cleaned, Attempts, Inv, IInv, TypeOK
<1> QED
  BY <1>3, <1>4

LEMMA MeddleKeeps ==
    ASSUME Inv, Meddle, UNCHANGED topology PROVE Inv'
<1> USE DEF Inv, IInv
<1>1. /\ leader \in traffic
      /\ UNCHANGED <<topology, pc, k, moved, up, known, sealed, cleanups, traffic, cancel,
                     state, tries, failures, assumed, faults>>
  BY DEF Meddle, record, outcome
<1>2. pc \in Exposing /\ Exposed /\ pc \notin Building
  BY <1>1 DEF PhaseInv, Exposing, Teardown, TypeOK, Locations, Building
<1>3. PICK o \in Object, w \in {"foreign", "alike"} :
         /\ world[o] \in {"plain", "tagged"} /\ Kind[o] # "process"
         /\ \A e \in {1, 2} : Where(o, e) = Host
         /\ world' = [Deleted(o) EXCEPT ![o] = w]
  BY DEF Meddle
<1>4. /\ world' \in [Object -> Worlds]
      /\ world'[o] # "absent"
      /\ \A p \in Object \ {o} : world'[p] \in {"absent", world[p]}
      /\ \A p \in Object : Exists(p) /\ (\A e \in {1, 2} : Where(p, e) # o) => world'[p] # "absent"
  BY <1>3, DeletedTakes DEF Exists, Worlds
<1>5. /\ Created' = Created /\ Registered' = Registered /\ Plan' = Plan /\ Created \subseteq Object
      /\ Exposed' = Exposed /\ \A p, e : Where(p, e)' = Where(p, e)
  BY <1>1, CreatedTyped DEF Created, Registered, Plan, Exposed, Where
<1>6. TypeOK'
  BY <1>1, <1>4, <1>5 DEF TypeOK
<1>7. PhaseInv' /\ StackInv'
  BY <1>1, <1>5 DEF PhaseInv, StackInv
<1>8. DependentsFirst'
  <2>1. ASSUME NEW i \in DOMAIN cleanups, NEW e \in {1, 2}, Home[cleanups[i]][e] # Host
        PROVE  world'[Home[cleanups[i]][e]] # "absent"
    <3>1. cleanups[i] \in Object
      BY DEF TypeOK
    <3>2. /\ Home[cleanups[i]][e] \in Object
          /\ \A f \in {1, 2} : Where(Home[cleanups[i]][e], f) # o
      BY <2>1, <3>1, HomesAreOnHost
    <3> QED
      BY <1>4, <2>1, <3>2 DEF DependentsFirst
  <2> QED
    BY <1>1, <2>1 DEF DependentsFirst, Exists
<1>9. o \in Created \cup sealed
  BY <1>2, <1>3 DEF CreatedInv, Exists
<1>10. Kind[o] \in {"veth", "ifb"} => o \in sealed
  <2>1. SUFFICES ASSUME Kind[o] \in {"veth", "ifb"}, o \in Created PROVE o \in sealed
    BY <1>9
  <2>2. PICK i \in 1..k - 1 : Plan[i].do = "create" /\ Plan[i].obj = o
    BY <2>1 DEF Created
  <2>3. i \in DOMAIN Plan /\ DOMAIN Plan = 1..Len(Plan) /\ Len(Plan) \in Nat /\ topology \in Topology
    BY <2>2, PlanTyped DEF TypeOK
  <2>4. PICK j \in DOMAIN Plan : Plan[j].do = "tag" /\ Plan[j].obj = o
    BY <2>1, <2>2, <2>3, PlanAssumption DEF Plan
  <2>5. j \in 1..k - 1
    BY <1>2, <2>3, <2>4 DEF Exposed, TypeOK
  <2> QED
    BY <2>4, <2>5 DEF CreatedInv
<1>11. CreatedInv'
  <2>1. \A p \in Object : world'[p] # "absent" => Exists(p)
    BY <1>3, <1>4 DEF Exists
  <2> QED
    BY <1>1, <1>2, <1>5, <2>1 DEF CreatedInv, Exists
<1>12. MovedInv'
  BY <1>1 DEF MovedInv
<1>13. ForeignInv'
  BY <1>1, <1>2, <1>3, <1>4, <1>5, <1>10 DEF ForeignInv, Exposing
<1> QED
  BY <1>6, <1>7, <1>8, <1>11, <1>12, <1>13

-----------------------------------------------------------------------------
LEMMA StutterKeeps ==
    ASSUME Inv, UNCHANGED vars PROVE Inv'
<1>1. TypeOK' /\ PhaseInv'
  BY DEF vars, machine, record, outcome, Inv, IInv, TypeOK, PhaseInv, Plan, Exposed
<1> QED
  BY <1>1, QuietKeeps DEF vars

(* The invariant holds in every reachable state.                            *)
THEOREM Invariance == Spec => []Inv
<1>1. ASSUME Inv, Next PROVE Inv'
  <2>1. CASE Main
    BY <1>1, <2>1, VerifyPreflightKeeps, BuildKeeps, BuildFailsKeeps, StartTrafficKeeps, ChildKeeps,
       TakeCleanupKeeps, QueryKeeps, DeleteKeeps, VerifyCleanupKeeps DEF Main
  <2>2. CASE Environment
    BY <1>1, <2>2, SignalKeeps, ProcessesKeep, MeddleKeeps DEF Environment
  <2> QED
    BY <1>1, <2>1, <2>2 DEF Next
<1>2. Inv /\ [Next]_vars => Inv'
  BY <1>1, StutterKeeps
<1> QED
  BY <1>2, InitInv, PTL DEF Spec

(* Teardown begins without the traffic child, inverses run last first, and  *)
(* the namespaces an inverse must enter are there while it is registered.   *)
THEOREM TeardownStaysOrdered == Spec => []TeardownIsOrdered
<1>1. Inv => TeardownIsOrdered
  BY DEF Inv, TeardownIsOrdered
<1> QED
  BY <1>1, Invariance, PTL

-----------------------------------------------------------------------------
(* The snapshot is taken when nothing is registered any more.               *)
ReportInv == (pc \in {"verify", "done"} => cleanups = <<>>) /\ ReportedClean

LEMMA VerifyReports ==
    ASSUME Inv, ReportInv, VerifyCleanup, UNCHANGED topology PROVE ReportInv'
<1>1. pc = "verify" /\ UNCHANGED <<k, machine, record, outcome>>
  BY DEF VerifyCleanup
<1>2. Created' = Created /\ \A o : Exists(o)' = Exists(o)
  BY <1>1 DEF Created, Plan, machine, Exists
<1>3. cleanups = <<>> /\ cleanups' = <<>>
  BY <1>1 DEF ReportInv, record
<1>4. Registered = {}
  BY <1>3 DEF Registered
<1>5. ASSUME state' # "cleanup_failed", NEW o \in Object, Exists(o)
      PROVE  /\ Kind[o] \in {"veth", "ifb", "process"}
             /\ o \notin up /\ o \notin Created \ assumed
  <2>1. failures = {} /\ Shown = {}
    BY <1>5 DEF VerifyCleanup
  <2>2. o \notin Created \ assumed
    BY <1>4, <1>5, <2>1 DEF Inv, CreatedInv
  <2>3. Kind[o] \in Kinds
    BY ChaosAssumption
  <2>4. Kind[o] \notin {"namespace", "clsact", "qdisc"} /\ o \notin up
    BY <1>5, <2>1 DEF Shown
  <2> QED
    BY <2>2, <2>3, <2>4 DEF Kinds
<1> QED
  BY <1>1, <1>2, <1>3, <1>5 DEF ReportInv, ReportedClean, machine, outcome

(* A report other than cleanup_failed leaves no namespace or queueing       *)
(* discipline and no link that is up; of what run() saw created it leaves   *)
(* only links whose inverse could not ask for them.                         *)
THEOREM ReportsStayClean == Spec => []ReportedClean
<1>1. Init => ReportInv
  BY DEF Init, ReportInv, ReportedClean
<1>2. Inv /\ ReportInv /\ [Next]_vars => ReportInv'
  <2>1. SUFFICES ASSUME Inv, ReportInv, [Next]_vars PROVE ReportInv'
    OBVIOUS
  <2>2. CASE VerifyCleanup /\ UNCHANGED topology
    BY <2>1, <2>2, VerifyReports
  <2>3. CASE TakeCleanup
    BY <2>3 DEF TakeCleanup, ReportInv, ReportedClean, record
  <2>4. CASE pc' \notin {"verify", "done"}
    BY <2>4 DEF ReportInv, ReportedClean
  <2>5. CASE UNCHANGED <<topology, pc, k, machine, record, state, assumed>>
    <3>1. Created' = Created /\ \A o : Exists(o)' = Exists(o)
      BY <2>5 DEF Created, Plan, machine, Exists
    <3> QED
      BY <2>1, <2>5, <3>1 DEF ReportInv, ReportedClean, record, machine
  <2>6. CASE UNCHANGED vars
    BY <2>5, <2>6 DEF vars, outcome
  <2>7. CASE Environment
    <3>1. Meddle => pc' \notin {"verify", "done"}
      BY <2>1 DEF Meddle, Inv, IInv, PhaseInv, Teardown
    <3>2. Signal \/ Fork \/ Exit => UNCHANGED <<pc, k, machine, record, state, assumed>>
      BY DEF Signal, Fork, Exit, outcome
    <3> QED
      BY <2>4, <2>5, <2>7, <3>1, <3>2 DEF Environment
  <2>8. CASE Main
    <3>1. VerifyPreflight \/ Build \/ BuildFails \/ StartTraffic \/ Watch \/ StopChild \/ AwaitChild
          \/ Query \/ Delete => pc' \notin {"verify", "done"}
      BY DEF VerifyPreflight, Build, BuildFails, StartTraffic, Watch, StopChild, AwaitChild, Query,
             Delete, Fails, Raises, Cleaned, Answered, Goes
    <3> QED
      BY <2>2, <2>3, <2>4, <2>8, <3>1 DEF Main
  <2> QED
    BY <2>1, <2>6, <2>7, <2>8 DEF Next
<1>3. ReportInv => ReportedClean
  BY DEF ReportInv
<1> QED
  BY <1>1, <1>2, <1>3, Invariance, PTL DEF Spec

-----------------------------------------------------------------------------
(* An inverse that has looked does not delete what is foreign.              *)
LEMMA DeleteSpares ==
    ASSUME Inv, Delete, NEW o \in Object, world[o] = "foreign"
    PROVE  world'[o] = "foreign"
<1> USE DEF Inv, IInv
<1>1. pc = "delete" /\ cleanups # <<>> /\ Current \in Object
  BY RestIsPrefix DEF Delete, PhaseInv
<1>2. world' = world \/ world' = Deleted(Current)
  BY DEF Delete
<1>3. PICK lost \in SUBSET {1, 2} : Verdict(Current, lost) = "delete"
  BY <1>1 DEF ForeignInv
<1>4. Exposed /\ Kind[o] # "process" /\ (Kind[o] \in {"veth", "ifb"} => o \in sealed)
  BY DEF ForeignInv
<1>5. Current # o
  <2>1. SUFFICES ASSUME Current = o PROVE FALSE
    OBVIOUS
  <2>2. Verdict(o, lost) = "delete" /\ Kind[o] \in Kinds
    BY <1>3, <2>1, ChaosAssumption
  <2>3. CASE Kind[o] = "namespace"
    BY <1>4, <2>2, <2>3 DEF Verdict
  <2>4. CASE Kind[o] = "ifb"
    BY <1>4, <2>2, <2>4 DEF Verdict, Exists
  <2>5. CASE Kind[o] \in {"clsact", "qdisc"}
    BY <2>2, <2>5 DEF Verdict
  <2>6. CASE Kind[o] = "veth"
    BY <1>4, <2>2, <2>6 DEF Verdict
  <2> QED
    BY <1>4, <2>2, <2>3, <2>4, <2>5, <2>6 DEF Kinds
<1>6. \A e \in {1, 2} : Where(o, e) # Current
  BY <1>1, ChaosAssumption DEF ForeignInv
<1> QED
  BY <1>1, <1>2, <1>5, <1>6, DeletedTakes

(* What somebody else put in the place of one of our objects stays, unless  *)
(* it is a qdisc of the kind and with the handle of ours.                   *)
THEOREM ForeignStays == Spec => ForeignKept
<1>1. ASSUME Inv, Next, NEW o \in Object, world[o] = "foreign"
      PROVE  world'[o] = "foreign"
  <2>1. pc \notin Building
    BY <1>1 DEF Inv, ForeignInv
  <2>2. CASE UNCHANGED world
    BY <1>1, <2>2
  <2>3. CASE Delete
    BY <1>1, <2>3, DeleteSpares
  <2>4. CASE Meddle
    <3>1. PICK p \in Object, w \in {"foreign", "alike"} :
             world[p] # "foreign" /\ world' = [Deleted(p) EXCEPT ![p] = w]
      BY <2>4 DEF Meddle
    <3>2. o # p /\ \A e \in {1, 2} : Where(o, e) # p
      BY <1>1, <3>1, ChaosAssumption DEF Inv, ForeignInv
    <3> QED
      BY <1>1, <3>1, <3>2, DeletedTakes DEF Inv, IInv
  <2>5. CASE Environment
    BY <2>2, <2>4, <2>5 DEF Environment, Signal, Fork, Exit, machine
  <2>6. CASE Main
    BY <2>1, <2>2, <2>3, <2>6 DEF Main, VerifyPreflight, Build, BuildFails, StartTraffic, Watch,
       StopChild, AwaitChild, TakeCleanup, Query, VerifyCleanup, machine, Building
  <2> QED
    BY <1>1, <2>5, <2>6 DEF Next
<1>2. Inv /\ [Next]_vars => [\A o \in Object : world[o] = "foreign" => world'[o] = "foreign"]_vars
  BY <1>1
<1> QED
  BY <1>2, Invariance, PTL DEF Spec, ForeignKept

(* Once cancel() was called, run() starts no traffic.                       *)
THEOREM NoTrafficStarts == Spec => NoTrafficAfterCancel
<1>1. [Next]_vars => [cancel /\ traffic = {} => traffic' = {}]_vars
  BY DEF Next, Main, Environment, VerifyPreflight, Build, BuildFails, StartTraffic, Watch,
         StopChild, AwaitChild, TakeCleanup, Query, Delete, VerifyCleanup,
         Signal, Fork, Exit, Meddle
<1> QED
  BY <1>1, PTL DEF Spec, NoTrafficAfterCancel
=============================================================================
