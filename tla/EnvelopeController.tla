------------------------- MODULE EnvelopeController -------------------------
(***************************************************************************)
(* sippycup/envelope.py: a reviewed load authorisation is lowered by the   *)
(* operator's overrides, compiled level by level into a frozen ramp, and   *)
(* the ramp is run against pause, resume and stop commands.  Integers are  *)
(* checked against Word (u64): a calculation that would leave it, like any *)
(* other EnvelopeError, ends everything ("rejected").                      *)
(***************************************************************************)
EXTENDS Integers, Sequences

CONSTANTS Manifest,   \* reviewed authorisations: [maxima, workload, dimension, step]
          Override,   \* what the operator may ask: functions from maxima to values
          Word,       \* U64_MAX
          MaxSteps,   \* MAX_PLAN_STEPS
          Time        \* timestamps a command may carry

DIMENSIONS == {"callsPerSecond", "concurrentCalls", "mediaPacketsPerSecond"}
MAXIMA_KEYS ==
    DIMENSIONS \cup {"totalCalls", "durationSeconds", "holdSeconds",
                     "cooldownSeconds", "recoveryDeadlineSeconds"}
WORKLOAD_KEYS == DIMENSIONS \cup {"callDurationSeconds"}
Command == {"pause", "resume", "stop"}

Positive == 1..Word
Maxima == [MAXIMA_KEYS -> Positive]
Manifests == [maxima : Maxima, workload : [WORKLOAD_KEYS -> Positive],
              dimension : DIMENSIONS, step : Positive]

ASSUME EnvelopeAssumption ==
    /\ Word \in Nat /\ MaxSteps \in Nat /\ Time \subseteq 0..Word
    /\ Manifest \subseteq Manifests
    /\ \A o \in Override : \A key \in DOMAIN o : key \in MAXIMA_KEYS /\ o[key] \in Positive

VARIABLES pc,
          manifest,
          maxima,     \* hardMaxima of the plan
          steps,      \* levels of the plan
          totals,     \* totals[i]: what the first i - 1 levels may spend
          started,    \* levels the controller has started
          nextStart,  \* when the next one is due, or Never
          clock,      \* time of the last event, -1 before any
          consumed,   \* what the started levels may spend
          events      \* the timeline: [at, event]

plan == <<manifest, maxima, steps, totals>>
control == <<started, nextStart, clock, consumed, events>>
vars == <<pc, plan, control>>

Never == -1
Ended == {"rejected", "stopped", "completed"}
Events == {"control.pause", "control.resume", "control.stop",
           "ramp.step_started", "budget_exhausted", "controller.completed"}
Spending == [calls : Nat, mediaPackets : Nat, callSeconds : Nat, rampDurationSeconds : Nat]
Nothing == [calls |-> 0, mediaPackets |-> 0, callSeconds |-> 0, rampDurationSeconds |-> 0]

Init ==
    /\ pc = "lower"
    /\ manifest \in Manifest /\ maxima = manifest.maxima
    /\ steps = <<>> /\ totals = <<Nothing>>
    /\ started = 0 /\ nextStart = 0 /\ clock = -1 /\ consumed = Nothing /\ events = <<>>

-----------------------------------------------------------------------------
(* The plan.                                                               *)

CeilDiv(a, b) == (a + b - 1) \div b
Larger(a, b) == IF a > b THEN a ELSE b
Smaller(a, b) == IF a < b THEN a ELSE b

Start == manifest.workload[manifest.dimension]   \* must equal ramp.start
Ceiling == maxima[manifest.dimension]
Count == CeilDiv(Ceiling - Start, manifest.step) + 1
Level(i) == Smaller(Start + (i - 1) * manifest.step, Ceiling)
Reserved == maxima["cooldownSeconds"] + maxima["recoveryDeadlineSeconds"]
Hold == maxima["holdSeconds"]

(* The workload of a level, and what holding it may spend at worst.        *)
Intensity(level) == [d \in DIMENSIONS |-> IF d = manifest.dimension THEN level ELSE manifest.workload[d]]
Budget(level) ==
    LET load == Intensity(level) IN
    [calls |-> Larger(load["callsPerSecond"] * Hold,
                      load["concurrentCalls"] * CeilDiv(Hold, manifest.workload["callDurationSeconds"])),
     mediaPackets |-> load["mediaPacketsPerSecond"] * Hold,
     callSeconds |-> load["concurrentCalls"] * Hold,
     rampDurationSeconds |-> Hold]

Plus(a, b) ==
    [calls |-> a.calls + b.calls, mediaPackets |-> a.mediaPackets + b.mediaPackets,
     callSeconds |-> a.callSeconds + b.callSeconds,
     rampDurationSeconds |-> a.rampDurationSeconds + b.rampDurationSeconds]

(* The products of _step_budget; the product that Larger drops counts too. *)
Overflows(level) ==
    LET load == Intensity(level) IN
    \/ load["callsPerSecond"] * Hold > Word
    \/ load["concurrentCalls"] * CeilDiv(Hold, manifest.workload["callDurationSeconds"]) > Word
    \/ load["mediaPacketsPerSecond"] * Hold > Word
    \/ load["concurrentCalls"] * Hold > Word

(* Mutant: a level that needs exactly what is left is refused.             *)
FundedStrictly(spending) ==
    /\ spending.calls < maxima["totalCalls"]
    /\ spending.rampDurationSeconds + Reserved < maxima["durationSeconds"]

(* Calls and duration suffice for it, with cooldown and recovery to come.  *)
Funded(spending) ==
    /\ spending.calls <= maxima["totalCalls"]
    /\ spending.rampDurationSeconds + Reserved <= maxima["durationSeconds"]

Reject == pc' = "rejected"

(* Mutant: an override may raise what was authorised.                      *)
LowerOrRaise ==
    /\ pc = "lower"
    /\ \E o \in Override :
          maxima' = [key \in MAXIMA_KEYS |-> IF key \in DOMAIN o THEN o[key] ELSE maxima[key]]
    /\ pc' = "compile"
    /\ UNCHANGED <<manifest, steps, totals, control>>

(* _apply_reductions, _validate_constraints and the checks that precede    *)
(* the loop of _compile_normalized.                                        *)
Lower ==
    /\ pc = "lower"
    /\ UNCHANGED <<manifest, steps, totals, control>>
    /\ \E o \in Override :
          /\ maxima' = [key \in MAXIMA_KEYS |-> IF key \in DOMAIN o THEN o[key] ELSE maxima[key]]
          /\ IF /\ \A key \in DOMAIN o : o[key] <= maxima[key]
                /\ \A d \in DIMENSIONS : manifest.workload[d] <= maxima'[d]
                /\ manifest.workload["callDurationSeconds"] <= maxima'["durationSeconds"]
                /\ Reserved' <= Word /\ Reserved' < maxima'["durationSeconds"]
                /\ Count' <= MaxSteps
             THEN pc' = "compile"
             ELSE Reject

Spent == totals[Len(totals)]

Compile ==
    /\ pc = "compile" /\ Len(steps) < Count
    /\ LET level == Level(Len(steps) + 1)
           next == Plus(Spent, Budget(level))
           Erroneous == \/ Overflows(level) \/ next.calls > Word
                        \/ next.rampDurationSeconds + Reserved > Word
       IN \/ Erroneous /\ Reject /\ UNCHANGED <<steps, totals>>
          \/ /\ ~Erroneous /\ ~Funded(next)
             /\ pc' = IF steps = <<>> THEN "rejected" ELSE "running"
             /\ UNCHANGED <<steps, totals>>
          \/ /\ ~Erroneous /\ Funded(next)
             /\ next.mediaPackets > Word \/ next.callSeconds > Word
             /\ Reject /\ UNCHANGED <<steps, totals>>
          \/ /\ ~Erroneous /\ Funded(next)
             /\ next.mediaPackets <= Word /\ next.callSeconds <= Word
             /\ steps' = Append(steps, level) /\ totals' = Append(totals, next)
             /\ pc' = IF Len(steps) + 1 = Count THEN "running" ELSE "compile"
    /\ UNCHANGED <<manifest, maxima, control>>

-----------------------------------------------------------------------------
(* The controller.                                                         *)

Emit(at, event) == /\ events' = Append(events, [at |-> at, event |-> event])
                   /\ clock' = at

(* All commands of one timestamp, before a level that is due then: stop,   *)
(* else pause, else resume, which fails unless the controller is paused.   *)
Controls(at, group) ==
    /\ pc \in {"running", "paused"}
    /\ clock < at /\ (nextStart # Never => at <= nextStart)
    /\ CASE "stop" \in group ->
              pc' = "stopped" /\ Emit(at, "control.stop") /\ UNCHANGED nextStart
         [] "stop" \notin group /\ "pause" \in group ->
              pc' = "paused" /\ nextStart' = Never /\ Emit(at, "control.pause")
         [] group = {"resume"} /\ pc = "paused" ->
              pc' = "running" /\ nextStart' = at /\ Emit(at, "control.resume")
         [] group = {"resume"} /\ pc # "paused" ->
              Reject /\ UNCHANGED <<nextStart, clock, events>>
    /\ UNCHANGED <<plan, started, consumed>>

Control == \E at \in Time, group \in (SUBSET Command) \ {{}} : Controls(at, group)

(* Mutant: one level too many is waited for.                               *)
CompleteLate ==
    /\ pc = "running" /\ started > Len(steps)
    /\ pc' = "completed" /\ Emit(nextStart, "controller.completed")
    /\ UNCHANGED <<plan, started, nextStart, consumed>>

Complete ==
    /\ pc = "running" /\ started = Len(steps)
    /\ pc' = "completed" /\ Emit(nextStart, "controller.completed")
    /\ UNCHANGED <<plan, started, nextStart, consumed>>

(* ... with the time that passed while paused.                             *)
Fits(spending, end) == Funded(spending) /\ end + Reserved <= maxima["durationSeconds"]

(* Mutant: the next level is due at once.                                  *)
StartLevelUnheld ==
    /\ pc = "running" /\ started < Len(steps)
    /\ LET next == Plus(consumed, Budget(steps[started + 1]))
       IN /\ Fits(next, nextStart + Hold)
          /\ consumed' = next /\ started' = started + 1
          /\ Emit(nextStart, "ramp.step_started")
    /\ UNCHANGED <<pc, plan, nextStart>>

(* The remaining authorisation is checked again before every level.        *)
StartLevel ==
    /\ pc = "running" /\ started < Len(steps)
    /\ LET next == Plus(consumed, Budget(steps[started + 1]))
           end == nextStart + Hold
       IN \/ /\ end + Reserved > Word
             /\ Reject /\ UNCHANGED control
          \/ /\ end + Reserved <= Word /\ ~Fits(next, end)
             /\ pc' = "stopped" /\ Emit(nextStart, "budget_exhausted")
             /\ UNCHANGED <<started, nextStart, consumed>>
          \/ /\ end + Reserved <= Word /\ Fits(next, end)
             /\ consumed' = next /\ started' = started + 1 /\ nextStart' = end
             /\ Emit(nextStart, "ramp.step_started")
             /\ UNCHANGED pc
    /\ UNCHANGED plan

Loop == Lower \/ Compile \/ Complete \/ StartLevel
Next == Loop \/ Control

Spec == Init /\ [][Next]_vars

(* Everything runs in one thread that waits for nobody.                    *)
FairSpec == Spec /\ WF_vars(Loop)
-----------------------------------------------------------------------------
(* Properties.                                                             *)

TypeOK ==
    /\ pc \in {"lower", "compile", "running", "paused"} \cup Ended
    /\ manifest \in Manifest /\ maxima \in Maxima
    /\ steps \in Seq(Int) /\ totals \in Seq(Spending)
    /\ started \in Nat /\ nextStart \in Nat \cup {Never}
    /\ clock \in Nat \cup {-1} /\ consumed \in Spending
    /\ events \in Seq([at : Nat, event : Events])

(* The plan lists the levels of the ramp with their running, funded total. *)
PlanInv ==
    /\ Len(totals) = Len(steps) + 1
    /\ totals[1] = Nothing
    /\ \A i \in DOMAIN steps :
          /\ steps[i] = Level(i)
          /\ totals[i + 1] = Plus(totals[i], Budget(steps[i]))
          /\ Funded(totals[i + 1])

(* The controller has spent what the plan says for the levels it started.  *)
LedgerInv ==
    /\ started <= Len(steps)
    /\ consumed = totals[started + 1]
    /\ pc \in {"lower", "compile"} =>
          started = 0 /\ nextStart = 0 /\ clock = -1 /\ events = <<>>
    /\ pc = "lower" => steps = <<>> /\ maxima = manifest.maxima

Is(i, event) == events[i].event = event
Paused == \E i \in DOMAIN events : Is(i, "control.pause")
Resumed == \E i \in DOMAIN events : Is(i, "control.resume")

(* Every level that was started left room for cooldown and recovery, and    *)
(* what only a pause can lead to came after one.                            *)
TimelineInv ==
    \A i \in DOMAIN events :
       /\ Is(i, "ramp.step_started") => events[i].at + Hold + Reserved <= maxima["durationSeconds"]
       /\ Is(i, "budget_exhausted") => Resumed
       /\ Is(i, "control.resume") => \E j \in 1..i - 1 : Is(j, "control.pause")

(* The next level is due when the ramp says, until the first pause.         *)
ClockInv ==
    /\ pc = "paused" => nextStart = Never /\ Paused
    /\ pc = "running" => clock <= nextStart /\ 0 <= nextStart
    /\ pc = "running" /\ ~Resumed => nextStart = consumed.rampDurationSeconds
    /\ TimelineInv

(* "A pause prevents the next level from starting": between a pause and the *)
(* resume that ends it there is no level, and after a stop there is nothing. *)
CommandsHold ==
    \A i, j \in DOMAIN events : i < j =>
       /\ ~Is(i, "control.stop")
       /\ Is(i, "control.pause") /\ Is(j, "ramp.step_started") =>
             \E l \in i + 1..j - 1 : Is(l, "control.resume")

(* Why: a stop is the last event, and a running controller was resumed     *)
(* after every pause.                                                      *)
CommandInv ==
    /\ CommandsHold
    /\ pc \in {"running", "paused"} => \A i \in DOMAIN events : ~Is(i, "control.stop")
    /\ pc = "running" =>
          \A i \in DOMAIN events :
             Is(i, "control.pause") => \E l \in i + 1..Len(events) : Is(l, "control.resume")

(* An accepted plan never has a maximum above the reviewed one.            *)
LoweredInv == pc # "rejected" => \A key \in MAXIMA_KEYS : maxima[key] <= manifest.maxima[key]

(* What plan and controller rely on, whatever the manifest and commands.   *)
IInv == TypeOK /\ PlanInv /\ LedgerInv /\ ClockInv /\ CommandInv /\ LoweredInv

(* Whatever the overrides and the commands: no level above the reviewed    *)
(* ceiling, no more calls than reviewed, and every level that was started   *)
(* ends, with cooldown and recovery, within the reviewed duration.          *)
WithinAuthorisation ==
    pc # "rejected" =>
       /\ \A i \in 1..started : steps[i] <= manifest.maxima[manifest.dimension]
       /\ consumed.calls <= manifest.maxima["totalCalls"]
       /\ \A i \in DOMAIN events :
             Is(i, "ramp.step_started") =>
                events[i].at + Hold + Reserved <= manifest.maxima["durationSeconds"]

(* The rechecks of the controller never contradict the compiler: a run that *)
(* nobody resumed is not stopped for its budget.                            *)
OnlyPausesExhaust ==
    (\E i \in DOMAIN events : Is(i, "budget_exhausted")) =>
       \E i, j \in DOMAIN events : i < j /\ Is(i, "control.pause") /\ Is(j, "control.resume")

(* Compiler and controller spend one budget: within the review, and the     *)
(* controller's own checks agree with the plan.                             *)
BudgetsHold == WithinAuthorisation /\ OnlyPausesExhaust

(* docs/ENVELOPE.md: "planning stops before the first unfunded level", and  *)
(* not earlier.                                                             *)
PlanIsMaximal ==
    pc \in {"running", "paused", "stopped", "completed"} /\ Len(steps) < Count =>
       LET next == Plus(Spent, Budget(Level(Len(steps) + 1))) IN
       \/ maxima["totalCalls"] < next.calls
       \/ maxima["durationSeconds"] < next.rampDurationSeconds + Reserved

(* Levels start on their hold boundary as long as nobody resumes.           *)
HoldUnlessResumed ==
    \A i \in DOMAIN events :
       Is(i, "ramp.step_started") /\ i + 1 \in DOMAIN events =>
          IF events[i + 1].event \in {"ramp.step_started", "controller.completed"}
          THEN events[i + 1].at = events[i].at + Hold
          ELSE events[i + 1].at <= events[i].at + Hold

(* docs/ENVELOPE.md: the simulator "starts levels on their scheduled hold   *)
(* boundary", "resume restarts the full hold clock": a level is held in     *)
(* full before the next one starts.                                         *)
HoldsInFull ==
    \A i, j \in DOMAIN events :
       i < j /\ Is(i, "ramp.step_started") /\ Is(j, "ramp.step_started") =>
          events[i].at + Hold <= events[j].at

(* The simulation ends, or is left paused by the last command.              *)
ControllerEnds == <>[](pc \in Ended \cup {"paused"})
=============================================================================
