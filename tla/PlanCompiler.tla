----------------------------- MODULE PlanCompiler -----------------------------
(* From a reviewed manifest to a run (campaign.py).  `campaign plan` reads  *)
(* the manifest, resolves the targets one by one while DNS may change, and  *)
(* creates the plan file; `campaign run` loads the plan, reads the manifest *)
(* again, and runs only what recompiling that manifest with the plan's own  *)
(* DNS answers and maxima gives.  Between the steps an operator may edit    *)
(* the manifest or the plan.                                                *)
(*                                                                          *)
(* A manifest is a record; its SHA-256 is the manifest itself.  The types   *)
(* and formats of its fields are one flag, wellFormed.  Its networks, and   *)
(* the transports of its matrix, are texts that stand for a value: two      *)
(* texts may stand for one, such as 10.0.0.0/8 and 10.0.0.0/255.0.0.0.      *)
EXTENDS Integers, Sequences, FiniteSets, SequencesExt

CONSTANTS Manifests,   \* the manifests an operator may write
          Zone,        \* what DNS may answer: a set of functions host -> addresses
          Literal,     \* the addresses, which are hosts too
          Placeholder, \* documentation hosts
          Reductions,  \* the --max-* options: functions on some of Ceilings
          Secrets,     \* credential reference -> its secret sources
          Family,      \* address -> "ipv4" or "ipv6"
          MaxSteps,    \* MAX_PLAN_STEPS
          StepBytes,   \* what a step takes in the encoded plan
          MaxPlanBytes,
          Planners, NoPlan, MaxEdits

VARIABLES manifest, zone, file, \* the manifest file, DNS, the plan file
          planner,  \* the planners: what they read and resolved so far
          written,  \* ghost: what the compiler wrote
          runner,   \* the run: its plan and the manifest bytes it read
          edits
vars == <<manifest, zone, file, planner, written, runner, edits>>

Ceilings == {"calls", "packets", "bytes", "durationSeconds"}
Targets(m) == DOMAIN m.targets
Host(m, i) == m.targets[i].host
NoAnswers == [h \in {} |-> {}]

-----------------------------------------------------------------------------
ValuesOf(texts) == {t.value : t \in texts}
(* The value of every text is written, once for each text.                  *)
Listed(texts) == [v \in ValuesOf(texts) |-> Cardinality({t \in texts : t.value = v})]
Once(list) == \A v \in DOMAIN list : list[v] = 1

(* What compile_plan refuses, part by part.                                 *)
ScopeRefused(m) ==
    \/ ~m.wellFormed
    \/ m.networks = {} \/ \E n \in m.networks : n.documentation
    \/ ~(ValuesOf(m.matrix) \subseteq m.transports)
    \/ m.media.first > m.media.last
    \/ ~(m.transports \subseteq {"udp", "tcp", "tls"})
Allowed(m) == UNION ValuesOf(m.networks)

(* Overrides only ever reduce what the manifest authorises.                 *)
ReductionRefused(m, red) == \E k \in DOMAIN red : red[k] = 0 \/ red[k] > m.ceilings[k]
Reduced(m, red) == [k \in Ceilings |-> IF k \in DOMAIN red THEN red[k] ELSE m.ceilings[k]]
TargetRefused(m, answers, i) ==
    LET t == m.targets[i]
    IN \/ t.host \in Placeholder
       \/ answers[i] = {} \/ ~(answers[i] \subseteq Allowed(m))
       \/ t.transport \notin m.transports \/ t.port \notin m.ports
       \/ t.ref # "none" /\ t.ref \notin m.refs
       \/ \E j \in Targets(m) \ {i} : m.targets[j].name = t.name

Named(m, name) == CHOOSE i \in Targets(m) : m.targets[i].name = name
(* A generated case needs the matrix, and is for its target's transport and *)
(* the family of every address the target has.                              *)
Fits(row, transport, addresses) ==
    row.transport = transport /\ \A a \in addresses : Family[a] = row.family
CaseRefused(m, answers, c) ==
    \/ c.count = 0
    \/ \A i \in Targets(m) : m.targets[i].name # c.target
    \/ LET i == Named(m, c.target)
       IN \E row \in c.generated :
             row.transport \notin ValuesOf(m.matrix) \/ ~Fits(row, m.targets[i].transport, answers[i])
    \/ \E d \in Range(m.cases) \ {c} : d.id = c.id
Cost(c, k) == IF k # "calls" THEN c.budget[k] ELSE IF c.type = "call" THEN 1 ELSE 0

(* The steps: each case `count` times, in order.                            *)
Steps(m, answers) ==
    LET Step(c, n) ==
          LET i == Named(m, c.target)
              t == m.targets[i]
          IN [case |-> c.id, sequence |-> n, target |-> c.target, addresses |-> answers[i],
              transport |-> t.transport, port |-> t.port, ref |-> t.ref, type |-> c.type,
              generated |-> c.generated,
              budget |-> [k \in Ceilings |-> Cost(c, k)]]
    IN FlattenSeq([j \in DOMAIN m.cases |-> [n \in 1 .. m.cases[j].count |-> Step(m.cases[j], n)]])
Spent(steps, k) == FoldLeft(LAMBDA sum, s : sum + s.budget[k], 0, steps)
Totals(steps) == [k \in Ceilings |-> Spent(steps, k)]

(* The capture filter follows the destinations of the targets in use, and   *)
(* tcpdump knows TLS as tcp.                                                *)
Wire(transport) == IF transport = "udp" THEN "udp" ELSE "tcp"
(* Mutant: TLS is written as it is named, as udp is.                        *)
ScopesAsNamed(m, answers) ==
    UNION {{<<a, m.targets[i].transport, m.targets[i].port>> : a \in answers[i]} :
             i \in {i \in Targets(m) : \E c \in Range(m.cases) : c.target = m.targets[i].name}}
Destinations(m, answers) ==
    UNION {{<<m.targets[i].name, a, m.targets[i].transport, m.targets[i].port>> : a \in answers[i]} : i \in Targets(m)}
Scopes(m, answers) ==
    UNION {{<<a, Wire(m.targets[i].transport), m.targets[i].port>> : a \in answers[i]} :
             i \in {i \in Targets(m) : \E c \in Range(m.cases) : c.target = m.targets[i].name}}

Looked(m) == {i \in Targets(m) : Host(m, i) \notin Literal}
(* The last answer for a name is its pin; one assumption a target.          *)
Pins(m, answers) ==
    [h \in {Host(m, i) : i \in Looked(m)} |->
        answers[CHOOSE i \in Looked(m) : Host(m, i) = h /\ \A j \in Looked(m) : Host(m, j) = h => j <= i]]
Assumptions(m, answers) ==
    [i \in DOMAIN SetToSortSeq(Looked(m), <) |->
        LET t == SetToSortSeq(Looked(m), <)[i] IN <<Host(m, t), answers[t]>>]

Refused(m, answers, red) ==
    \/ ScopeRefused(m) \/ ReductionRefused(m, red)
    \/ \E i \in Targets(m) : TargetRefused(m, answers, i)
    \/ \E c \in Range(m.cases) : CaseRefused(m, answers, c)
    \/ m.directory # "relative"
    \/ LET steps == Steps(m, answers)
       IN \/ Len(steps) > Reduced(m, red)["packets"] \/ Len(steps) > MaxSteps
          \/ \E k \in Ceilings : Spent(steps, k) > Reduced(m, red)[k]
Compiled(m, answers, red) ==
    LET steps == Steps(m, answers)
    IN [digest |-> m, networks |-> Listed(m.networks), matrix |-> Listed(m.matrix), ports |-> m.ports, transports |-> m.transports,
        refs |-> m.refs, maxima |-> Reduced(m, red), media |-> m.media, capture |-> m.capture,
        destinations |-> Destinations(m, answers), scopes |-> Scopes(m, answers),
        totals |-> Totals(steps), steps |-> steps,
        pins |-> Pins(m, answers), assumptions |-> Assumptions(m, answers)]

-----------------------------------------------------------------------------
(* What load_plan checks of a plan, whoever wrote it (runtime._validate_plan).*)
Distinct(s) == \A i, j \in DOMAIN s : i # j => s[i] # s[j]
StepIsFrozen(p, s) ==
    /\ {<<s.target, a, s.transport, s.port>> : a \in s.addresses} = {d \in p.destinations : d[1] = s.target}
    /\ s.addresses # {} /\ (s.ref = "none" \/ s.ref \in p.refs)
    /\ s.budget["calls"] = IF s.type = "call" THEN 1 ELSE 0
    /\ \A row \in s.generated :
          row.transport \in DOMAIN p.matrix /\ Fits(row, s.transport, s.addresses)
(* Nearly all of an encoded plan is its steps.                              *)
TooLarge(p) == Len(p.steps) * StepBytes > MaxPlanBytes
StepScopes(p) == UNION {{<<a, Wire(s.transport), s.port>> : a \in s.addresses} : s \in Range(p.steps)}
ValidPlan(p) ==
    /\ ~TooLarge(p)
    /\ Once(p.networks) /\ Once(p.matrix) /\ DOMAIN p.matrix \subseteq p.transports
    /\ \A d \in p.destinations : d[2] \in UNION DOMAIN p.networks /\ d[3] \in p.transports /\ d[4] \in p.ports
    /\ p.steps # <<>> /\ \A s \in Range(p.steps) : StepIsFrozen(p, s)
    /\ p.totals = Totals(p.steps) /\ \A k \in Ceilings : p.totals[k] <= p.maxima[k]
    /\ p.scopes = StepScopes(p)
    /\ Distinct(p.assumptions)
    /\ \A h \in DOMAIN p.pins : p.pins[h] # {} /\ p.pins[h] \subseteq UNION DOMAIN p.networks

(* verify_frozen_plan: DNS is what the plan pinned, and the plan must be    *)
(* what the manifest compiles to under its own maxima.                      *)
PinnedAnswers(p, m) ==
    [i \in Targets(m) |-> IF Host(m, i) \in Literal THEN {Host(m, i)}
                          ELSE IF Host(m, i) \in DOMAIN p.pins THEN p.pins[Host(m, i)] ELSE {}]
(* Mutant: the plan's own totals are compared, and not the whole plan.      *)
VerifiedByDigest(p, m) == p.digest = m /\ ~Refused(m, PinnedAnswers(p, m), p.maxima)

Verified(p, m) ==
    /\ p.digest = m
    /\ ~Refused(m, PinnedAnswers(p, m), p.maxima)
    /\ p = Compiled(m, PinnedAnswers(p, m), p.maxima)
(* resolve_secrets: one source each, environment and descriptor never both. *)
SecretRefused(ref) == {"env", "fd"} \subseteq Secrets[ref] \/ Secrets[ref] = {}
UsedRefs(p) == {s.ref : s \in Range(p.steps)} \ {"none"}

-----------------------------------------------------------------------------
Idle == [pc |-> "idle", m |-> NoPlan, red |-> NoAnswers, pinned |-> NoAnswers, answers |-> <<>>]
Init ==
    /\ manifest \in Manifests /\ zone \in Zone /\ file = NoPlan
    /\ planner = [p \in Planners |-> Idle] /\ written = {}
    /\ runner = [pc |-> "idle", plan |-> NoPlan, m |-> NoPlan]
    /\ edits = 0

(* main, "plan": the manifest is read once; --resolve replaces DNS.         *)
StartPlan(p) ==
    /\ planner[p].pc = "idle"
    /\ \E red \in Reductions, pinned \in {NoAnswers} \cup Zone :
         planner' = [planner EXCEPT ![p] = [pc |-> "resolving", m |-> manifest, red |-> red,
                                            pinned |-> pinned, answers |-> <<>>]]
    /\ UNCHANGED <<manifest, zone, file, written, runner, edits>>

Answers(p, host) ==
    IF host \in Literal THEN {host}
    ELSE IF planner[p].pinned # NoAnswers THEN planner[p].pinned[host] ELSE zone[host]
Resolve(p) ==
    /\ planner[p].pc = "resolving"
    /\ LET m == planner[p].m
           n == Len(planner[p].answers) + 1
       IN /\ n \in Targets(m)
          /\ planner' = [planner EXCEPT ![p].answers =
                           Append(@, IF Host(m, n) \in Placeholder THEN {} ELSE Answers(p, Host(m, n)))]
    /\ UNCHANGED <<manifest, zone, file, written, runner, edits>>

Compile(p) ==
    /\ planner[p].pc = "resolving" /\ Len(planner[p].answers) = Len(planner[p].m.targets)
    /\ planner' = [planner EXCEPT ![p].pc =
                     IF Refused(planner[p].m, planner[p].answers, planner[p].red) THEN "refused" ELSE "linking"]
    /\ UNCHANGED <<manifest, zone, file, written, runner, edits>>

(* _write_plan_atomic: link fails on an existing plan.                      *)
Link(p) ==
    /\ planner[p].pc = "linking"
    /\ planner' = [planner EXCEPT ![p].pc = IF file = NoPlan THEN "done" ELSE "exists"]
    /\ IF file = NoPlan
       THEN /\ file' = Compiled(planner[p].m, planner[p].answers, planner[p].red)
            /\ written' = written \cup {file'}
       ELSE UNCHANGED <<file, written>>
    /\ UNCHANGED <<manifest, zone, runner, edits>>

Load ==
    /\ runner.pc = "idle" /\ file # NoPlan
    /\ runner' = [runner EXCEPT !.pc = IF ValidPlan(file) THEN "loaded" ELSE "refused", !.plan = file, !.m = manifest]
    /\ UNCHANGED <<manifest, zone, file, planner, written, edits>>
ReadManifest ==
    /\ runner.pc = "loaded"
    /\ runner' = [runner EXCEPT !.pc = "read", !.m = manifest]
    /\ UNCHANGED <<manifest, zone, file, planner, written, edits>>
Execute ==
    /\ runner.pc = "read"
    /\ runner' = [runner EXCEPT !.pc =
         IF /\ Verified(runner.plan, runner.m) /\ runner.plan.capture
            /\ \A ref \in UsedRefs(runner.plan) : ~SecretRefused(ref)
         THEN "running" ELSE "refused"]
    /\ UNCHANGED <<manifest, zone, file, planner, written, edits>>

EditManifest ==
    /\ edits < MaxEdits /\ edits' = edits + 1
    /\ manifest' \in Manifests \ {manifest}
    /\ UNCHANGED <<zone, file, planner, written, runner>>
DnsChanges ==
    /\ edits < MaxEdits /\ edits' = edits + 1
    /\ zone' \in Zone \ {zone}
    /\ UNCHANGED <<manifest, file, planner, written, runner>>
(* A plan edited by hand: higher maxima, one more step, or a coherent plan  *)
(* of another manifest under this one's digest.                             *)
Forged(p) ==
    {[p EXCEPT !.maxima = [k \in Ceilings |-> @[k] + 1]],
     [p EXCEPT !.steps = Append(@, p.steps[1]), !.totals = Totals(Append(p.steps, p.steps[1]))]} \cup
    {[Compiled(m, PinnedAnswers(p, m), NoAnswers) EXCEPT !.digest = p.digest] :
       m \in {m \in Manifests : ~Refused(m, PinnedAnswers(p, m), NoAnswers)}}
EditPlan ==
    /\ edits < MaxEdits /\ edits' = edits + 1 /\ file # NoPlan
    /\ file' \in Forged(file) \ {file}
    /\ UNCHANGED <<manifest, zone, planner, written, runner>>

Next ==
    \/ \E p \in Planners : StartPlan(p) \/ Resolve(p) \/ Compile(p) \/ Link(p)
    \/ Load \/ ReadManifest \/ Execute
    \/ EditManifest \/ DnsChanges \/ EditPlan
Spec == Init /\ [][Next]_vars

-----------------------------------------------------------------------------
TypeOK ==
    /\ manifest \in Manifests /\ zone \in Zone /\ edits \in 0 .. MaxEdits
    /\ runner.pc \in {"idle", "loaded", "read", "running", "refused"}
    /\ \A p \in Planners :
         planner[p].pc \in {"idle", "resolving", "linking", "done", "exists", "refused"}

(* Whatever happened to the manifest, to DNS and to the plan file before:   *)
(* what is executed stays within the manifest that this run itself read.    *)
(* Every address is approved, every transport, port and credential allowed, *)
(* what the steps may spend is within the ceilings the manifest authorises, *)
(* a generated step is of the matrix and fits where it goes, and the        *)
(* capture the watchdog reads covers every destination.                     *)
ExecutedIsAuthorised ==
    runner.pc = "running" =>
        LET m == runner.m
            steps == Range(runner.plan.steps)
        IN /\ \A s \in steps :
                /\ s.addresses # {} /\ s.addresses \subseteq Allowed(m)
                /\ s.transport \in m.transports /\ s.port \in m.ports /\ s.ref \in m.refs \cup {"none"}
                /\ \E c \in Range(m.cases) : c.id = s.case /\ c.target = s.target /\ s.sequence <= c.count
                /\ \A a \in s.addresses : <<a, Wire(s.transport), s.port>> \in runner.plan.scopes
                /\ \A row \in s.generated :
                      row.transport \in ValuesOf(m.matrix) /\ Fits(row, s.transport, s.addresses)
           /\ \A k \in Ceilings : Spent(runner.plan.steps, k) <= m.ceilings[k]
           /\ Distinct(runner.plan.steps)

(* A plan that nobody edited is run with the manifest it was compiled from, *)
(* when the manifest keeps the capture on and every secret has its source:  *)
(* planner and runtime each check the plan in their own way (compile_plan,  *)
(* _validate_plan), and agree, but for three kinds of plan, each a finding: *)
(* two targets behind one DNS name, two texts of one value, and a plan that *)
(* is larger than load_plan takes.                                          *)
SharesHost(m) == \E i, j \in Looked(m) : i # j /\ Host(m, i) = Host(m, j)
TwoTexts(m) == ~Once(Listed(m.networks)) \/ ~Once(Listed(m.matrix))
Untouched == runner.plan \in written /\ runner.plan.digest = runner.m
OwnPlanRefused ==
    /\ runner.pc = "refused" /\ Untouched /\ runner.m.capture
    /\ \A ref \in UsedRefs(runner.plan) : ~SecretRefused(ref)
WrittenPlanRuns ==
    OwnPlanRefused => SharesHost(runner.m) \/ TwoTexts(runner.m) \/ TooLarge(runner.plan)

(* docs/CAMPAIGN-MANIFEST.md:297: --output gives an executable frozen plan. *)
(* Two targets behind one DNS name give a plan that load_plan refuses: the  *)
(* same assumption is listed twice.                                         *)
OutputIsExecutable == OwnPlanRefused => TwoTexts(runner.m) \/ TooLarge(runner.plan)
(* Two texts of one network, or of one factor of the matrix, do too: the    *)
(* plan has the value twice.                                                *)
TextsAreOneValue == OwnPlanRefused => SharesHost(runner.m) \/ TooLarge(runner.plan)
(* So do more steps than fit in the plan's byte limit, which the planner's  *)
(* own limit on steps allows.                                               *)
LongPlansRun == OwnPlanRefused => SharesHost(runner.m) \/ TwoTexts(runner.m)
=============================================================================
