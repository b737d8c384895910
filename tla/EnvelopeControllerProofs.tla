---------------------- MODULE EnvelopeControllerProofs ----------------------
(***************************************************************************)
(* Proofs about EnvelopeController, for every reviewed manifest, every set *)
(* of overrides, every word size and every sequence of commands.           *)
(***************************************************************************)
EXTENDS EnvelopeController, TLAPS

-----------------------------------------------------------------------------
(* Arithmetic of the budgets.                                              *)

LEMMA ProductIsNat ==
    ASSUME NEW a \in Nat, NEW b \in Nat PROVE a * b \in Nat
OBVIOUS

LEMMA CeilDivIsNat ==
    ASSUME NEW a \in Nat, NEW b \in Nat \ {0} PROVE CeilDiv(a, b) \in Nat
<1>1. a + b - 1 \in Nat
  OBVIOUS
<1>2. \A c \in Nat : c \div b \in Nat
  OBVIOUS
<1> QED
  BY <1>1, <1>2 DEF CeilDiv

(* What the manifests and maxima are made of.                              *)
LEMMA Quantities ==
    ASSUME manifest \in Manifests, maxima \in Maxima
    PROVE  /\ Hold \in Nat /\ Reserved \in Nat /\ Ceiling \in Nat
           /\ Start \in Nat /\ manifest.step \in Nat
           /\ manifest.dimension \in DIMENSIONS
           /\ manifest.workload["callDurationSeconds"] \in Nat \ {0}
           /\ \A d \in DIMENSIONS : manifest.workload[d] \in Nat
           /\ \A key \in MAXIMA_KEYS : maxima[key] \in Nat /\ manifest.maxima[key] \in Nat
BY EnvelopeAssumption
   DEF Manifests, Maxima, Positive, Hold, Reserved, Ceiling, Start, DIMENSIONS,
       MAXIMA_KEYS, WORKLOAD_KEYS

LEMMA BudgetIsSpending ==
    ASSUME manifest \in Manifests, maxima \in Maxima, NEW level \in Nat
    PROVE  /\ Budget(level) \in Spending
           /\ Budget(level).rampDurationSeconds = Hold
<1> DEFINE load == Intensity(level)
           length == CeilDiv(Hold, manifest.workload["callDurationSeconds"])
<1>1. /\ load["callsPerSecond"] \in Nat
      /\ load["concurrentCalls"] \in Nat
      /\ load["mediaPacketsPerSecond"] \in Nat
  BY Quantities DEF Intensity, DIMENSIONS
<1>2. length \in Nat /\ Hold \in Nat
  BY Quantities, CeilDivIsNat
<1> HIDE DEF load, length
<1>3. /\ load["callsPerSecond"] * Hold \in Nat
      /\ load["concurrentCalls"] * length \in Nat
      /\ load["mediaPacketsPerSecond"] * Hold \in Nat
      /\ load["concurrentCalls"] * Hold \in Nat
  BY <1>1, <1>2, ProductIsNat
<1>4. Larger(load["callsPerSecond"] * Hold, load["concurrentCalls"] * length) \in Nat
  BY <1>3 DEF Larger
<1>5. Budget(level) =
         [calls |-> Larger(load["callsPerSecond"] * Hold, load["concurrentCalls"] * length),
          mediaPackets |-> load["mediaPacketsPerSecond"] * Hold,
          callSeconds |-> load["concurrentCalls"] * Hold,
          rampDurationSeconds |-> Hold]
  BY DEF Budget, load, length
<1> QED
  BY <1>2, <1>3, <1>4, <1>5 DEF Spending

LEMMA PlusIsSpending ==
    ASSUME NEW a \in Spending, NEW b \in Spending
    PROVE  /\ Plus(a, b) \in Spending
           /\ Plus(a, b).rampDurationSeconds = a.rampDurationSeconds + b.rampDurationSeconds
BY DEF Plus, Spending

LEMMA LevelWithinCeiling ==
    ASSUME manifest \in Manifests, maxima \in Maxima, NEW i \in Nat \ {0}
    PROVE  Level(i) \in Nat /\ Level(i) <= Ceiling
<1>1. i - 1 \in Nat /\ Start \in Nat /\ Ceiling \in Nat /\ manifest.step \in Nat
  BY Quantities
<1>2. (i - 1) * manifest.step \in Nat
  BY <1>1, ProductIsNat
<1> QED
  BY <1>1, <1>2 DEF Level, Smaller

-----------------------------------------------------------------------------
(* What a step leaves as it was.                                           *)

LEMMA PlanStays ==
    ASSUME PlanInv, UNCHANGED plan PROVE PlanInv'
<1>1. \A i : Level(i)' = Level(i)
  BY DEF plan, Level, Start, Ceiling
<1>2. \A level : Budget(level)' = Budget(level)
  BY DEF plan, Budget, Hold, Intensity
<1>3. \A s : Funded(s)' = Funded(s)
  BY DEF plan, Funded, Reserved
<1> QED
  BY <1>1, <1>2, <1>3 DEF PlanInv, plan

LEMMA LoweredStays ==
    ASSUME LoweredInv, UNCHANGED plan, pc' = "rejected" \/ pc # "rejected" PROVE LoweredInv'
BY DEF LoweredInv, plan

LEMMA ElementOfSeq ==
    ASSUME NEW S, NEW s \in Seq(S), NEW i \in DOMAIN s PROVE s[i] \in S
OBVIOUS

(* One more entry in the timeline.                                         *)
LEMMA Emitted ==
    ASSUME TypeOK, NEW at \in Nat, NEW event \in Events, Emit(at, event)
    PROVE  /\ events' \in Seq([at : Nat, event : Events])
           /\ Len(events) \in Nat /\ Len(events') = Len(events) + 1
           /\ DOMAIN events = 1..Len(events)
           /\ DOMAIN events' = 1..Len(events) + 1
           /\ \A i \in DOMAIN events : events'[i] = events[i]
           /\ events'[Len(events) + 1] = [at |-> at, event |-> event]
           /\ clock' = at
<1>1. events \in Seq([at : Nat, event : Events])
  BY DEF TypeOK
<1>2. [at |-> at, event |-> event] \in [at : Nat, event : Events]
  OBVIOUS
<1>3. events' = Append(events, [at |-> at, event |-> event]) /\ clock' = at
  BY DEF Emit
<1> QED
  BY <1>1, <1>2, <1>3

(* The timeline may only grow by an event that keeps its order.            *)
LEMMA TimelineKeeps ==
    ASSUME TypeOK, CommandInv, NEW at \in Nat, NEW event \in Events, Emit(at, event),
           pc \in {"running", "paused"},
           event = "ramp.step_started" => pc = "running"
    PROVE  CommandsHold'
<1> DEFINE n == Len(events) + 1
<1>1. /\ n \in Nat \ {0} /\ DOMAIN events = 1..n - 1 /\ DOMAIN events' = 1..n
      /\ \A i \in 1..n - 1 : events'[i] = events[i]
      /\ events'[n].event = event
  <2>1. /\ Len(events) \in Nat
        /\ DOMAIN events = 1..Len(events) /\ DOMAIN events' = 1..Len(events) + 1
        /\ \A i \in DOMAIN events : events'[i] = events[i]
        /\ events'[Len(events) + 1] = [at |-> at, event |-> event]
    BY Emitted
  <2>2. n - 1 = Len(events)
    BY <2>1
  <2> QED
    BY <2>1, <2>2
<1>2. event = "ramp.step_started" =>
         \A i \in 1..n - 1 : events[i].event = "control.pause" =>
            \E l \in i + 1..n - 1 : events[l].event = "control.resume"
  BY <1>1 DEF CommandInv, Is
<1> HIDE DEF n
<1>3. ASSUME NEW i \in 1..n, NEW j \in 1..n, i < j
      PROVE  /\ events'[i].event # "control.stop"
             /\ events'[i].event = "control.pause" /\ events'[j].event = "ramp.step_started" =>
                   \E l \in i + 1..j - 1 : events'[l].event = "control.resume"
  <2>1. i \in 1..n - 1 /\ events'[i] = events[i]
    BY <1>1, <1>3
  <2>2. events[i].event # "control.stop"
    BY <1>1, <2>1 DEF CommandInv, Is
  <2>3. \A l \in i + 1..j - 1 : l \in 1..n - 1 /\ events'[l] = events[l]
    BY <1>1, <2>1
  <2>4. CASE j = n
    BY <1>1, <1>2, <2>1, <2>2, <2>3, <2>4
  <2>5. CASE j # n
    <3>1. j \in 1..n - 1 /\ events'[j] = events[j]
      BY <1>1, <2>5
    <3>2. events[i].event = "control.pause" /\ events[j].event = "ramp.step_started" =>
             \E l \in i + 1..j - 1 : events[l].event = "control.resume"
      BY <1>1, <1>3, <2>1, <3>1 DEF CommandInv, CommandsHold, Is
    <3> QED
      BY <2>1, <2>2, <2>3, <3>1, <3>2
  <2> QED
    BY <2>4, <2>5
<1>4. DOMAIN events' = 1..n
  BY <1>1
<1> QED
  BY <1>3, <1>4 DEF CommandsHold, Is

LEMMA EventKeeps ==
    ASSUME TypeOK, ClockInv, UNCHANGED plan, NEW at \in Nat, NEW event \in Events,
           Emit(at, event),
           event = "ramp.step_started" => at + Hold + Reserved <= maxima["durationSeconds"],
           event = "budget_exhausted" => Resumed,
           event = "control.resume" => Paused
    PROVE  /\ TimelineInv'
           /\ Paused' <=> Paused \/ event = "control.pause"
           /\ Resumed' <=> Resumed \/ event = "control.resume"
<1> DEFINE n == Len(events) + 1
<1>1. /\ n \in Nat \ {0} /\ DOMAIN events = 1..n - 1 /\ DOMAIN events' = 1..n
      /\ \A i \in 1..n - 1 : events'[i] = events[i]
      /\ events'[n] = [at |-> at, event |-> event]
  <2>1. /\ Len(events) \in Nat
        /\ DOMAIN events = 1..Len(events) /\ DOMAIN events' = 1..Len(events) + 1
        /\ \A i \in DOMAIN events : events'[i] = events[i]
        /\ events'[Len(events) + 1] = [at |-> at, event |-> event]
    BY Emitted
  <2>2. n - 1 = Len(events)
    BY <2>1
  <2> QED
    BY <2>1, <2>2
<1>2. Hold' = Hold /\ Reserved' = Reserved /\ maxima' = maxima
  BY DEF plan, Hold, Reserved
<1> HIDE DEF n
<1>3. /\ Paused' <=> Paused \/ event = "control.pause"
      /\ Resumed' <=> Resumed \/ event = "control.resume"
  <2>1. n \in 1..n /\ events'[n].event = event /\ \A i \in 1..n : i # n => i \in 1..n - 1
    BY <1>1
  <2> QED
    BY <1>1, <2>1 DEF Paused, Resumed, Is
<1>4. ASSUME NEW i \in 1..n
      PROVE  /\ events'[i].event = "ramp.step_started" =>
                   events'[i].at + Hold + Reserved <= maxima["durationSeconds"]
             /\ events'[i].event = "budget_exhausted" => Resumed
             /\ events'[i].event = "control.resume" =>
                   \E j \in 1..i - 1 : events'[j].event = "control.pause"
  <2>1. CASE i = n
    BY <1>1, <2>1 DEF Paused, Is
  <2>2. CASE i # n
    <3>1. i \in 1..n - 1 /\ \A j \in 1..i - 1 : j \in 1..n - 1
      BY <1>1, <2>2
    <3> QED
      BY <1>1, <3>1 DEF ClockInv, TimelineInv, Is
  <2> QED
    BY <2>1, <2>2
<1> QED
  BY <1>1, <1>2, <1>3, <1>4 DEF TimelineInv, Is

LEMMA EventCommands ==
    ASSUME TypeOK, CommandInv, NEW at \in Nat, NEW event \in Events, Emit(at, event),
           pc \in {"running", "paused"},
           event = "ramp.step_started" => pc = "running",
           pc' \in {"running", "paused"} => event # "control.stop",
           pc' = "running" => event = "control.resume" \/ (pc = "running" /\ event # "control.pause")
    PROVE  CommandInv'
<1> DEFINE n == Len(events) + 1
<1>1. /\ n \in Nat \ {0} /\ Len(events') = n
      /\ Len(events) = n - 1 /\ DOMAIN events = 1..n - 1 /\ DOMAIN events' = 1..n
      /\ \A i \in 1..n - 1 : events'[i] = events[i]
      /\ events'[n].event = event
  <2>1. /\ Len(events) \in Nat /\ Len(events') = Len(events) + 1
        /\ DOMAIN events = 1..Len(events) /\ DOMAIN events' = 1..Len(events) + 1
        /\ \A i \in DOMAIN events : events'[i] = events[i]
        /\ events'[Len(events) + 1] = [at |-> at, event |-> event]
    BY Emitted
  <2>2. n - 1 = Len(events)
    BY <2>1
  <2> QED
    BY <2>1, <2>2
<1>2. CommandsHold'
  BY TimelineKeeps
<1> HIDE DEF n
<1>3. \A i \in 1..n : i # n => i \in 1..n - 1
  BY <1>1
<1>4. ASSUME pc' \in {"running", "paused"}, NEW i \in 1..n
      PROVE  events'[i].event # "control.stop"
  BY <1>1, <1>3, <1>4 DEF CommandInv, Is
<1>5. ASSUME pc' = "running", NEW i \in 1..n, events'[i].event = "control.pause"
      PROVE  \E l \in i + 1..n : events'[l].event = "control.resume"
  <2>1. i \in 1..n - 1 /\ events[i].event = "control.pause"
    BY <1>1, <1>3, <1>5
  <2>2. CASE event = "control.resume"
    <3>1. n \in i + 1..n
      BY <1>1, <2>1
    <3> QED
      BY <1>1, <2>2, <3>1
  <2>3. CASE pc = "running"
    <3>1. PICK l \in i + 1..n - 1 : events[l].event = "control.resume"
      BY <1>1, <2>1, <2>3 DEF CommandInv, Is
    <3>2. l \in 1..n - 1 /\ l \in i + 1..n
      BY <1>1, <2>1
    <3> QED
      BY <1>1, <3>1, <3>2
  <2> QED
    BY <1>5, <2>2, <2>3
<1> QED
  BY <1>1, <1>2, <1>4, <1>5 DEF CommandInv, Is

-----------------------------------------------------------------------------
(* The steps, one at a time.                                               *)

(* The plan before it is lowered satisfies the invariant.                  *)
THEOREM InitInv == Init => IInv
<1> SUFFICES ASSUME Init PROVE IInv
  OBVIOUS
<1>1. manifest \in Manifests /\ maxima \in Maxima
  BY EnvelopeAssumption DEF Init, Manifests
<1>2. <<>> \in Seq(Int) /\ <<>> \in Seq([at : Nat, event : Events])
  OBVIOUS
<1>3. Nothing \in Spending
  BY DEF Nothing, Spending
<1>4. totals \in Seq(Spending) /\ Len(totals) = 1 /\ totals[1] = Nothing
  BY <1>3 DEF Init
<1>5. TypeOK
  BY <1>1, <1>2, <1>3, <1>4 DEF Init, TypeOK
<1>6. PlanInv
  BY <1>4 DEF Init, PlanInv
<1>7. LedgerInv
  BY <1>4 DEF Init, LedgerInv
<1>8. ClockInv /\ CommandInv
  BY DEF Init, ClockInv, TimelineInv, CommandInv, CommandsHold
<1>9. LoweredInv
  BY <1>1, Quantities DEF Init, LoweredInv
<1> QED
  BY <1>5, <1>6, <1>7, <1>8, <1>9 DEF IInv

LEMMA LowerKeeps ==
    ASSUME IInv, Lower PROVE IInv'
<1> USE DEF IInv
<1>1. /\ pc = "lower" /\ steps = <<>> /\ events = <<>> /\ maxima = manifest.maxima
      /\ started = 0 /\ nextStart = 0 /\ clock = -1
  BY DEF Lower, LedgerInv
<1>2. UNCHANGED <<manifest, steps, totals, control>>
  BY DEF Lower
<1>3. PICK o \in Override :
         /\ maxima' = [key \in MAXIMA_KEYS |-> IF key \in DOMAIN o THEN o[key] ELSE maxima[key]]
         /\ \/ pc' = "compile" /\ (\A key \in DOMAIN o : o[key] <= maxima[key])
            \/ pc' = "rejected"
  BY DEF Lower, Reject
<1>4. maxima' \in Maxima
  BY <1>3, EnvelopeAssumption DEF TypeOK, Maxima
<1>5. TypeOK'
  BY <1>2, <1>3, <1>4 DEF TypeOK, control, Ended
<1>6. PlanInv'
  BY <1>1, <1>2 DEF PlanInv
<1>7. LedgerInv'
  BY <1>1, <1>2, <1>3 DEF LedgerInv, control
<1>8. ClockInv' /\ CommandInv'
  BY <1>1, <1>2, <1>3 DEF ClockInv, TimelineInv, CommandInv, CommandsHold, control
<1>9. LoweredInv'
  <2> SUFFICES ASSUME pc' = "compile", NEW key \in MAXIMA_KEYS
               PROVE  maxima'[key] <= manifest'.maxima[key]
    BY <1>3 DEF LoweredInv
  <2>1. maxima[key] \in Nat
    BY Quantities, EnvelopeAssumption DEF TypeOK
  <2> QED
    BY <1>1, <1>2, <1>3, <2>1
<1> QED
  BY <1>5, <1>6, <1>7, <1>8, <1>9

LEMMA CompileKeeps ==
    ASSUME IInv, Compile PROVE IInv'
<1> USE DEF IInv
<1> DEFINE level == Level(Len(steps) + 1)
           next == Plus(Spent, Budget(level))
<1>1. /\ pc = "compile" /\ UNCHANGED <<manifest, maxima, control>>
      /\ started = 0 /\ nextStart = 0 /\ clock = -1 /\ events = <<>>
  BY DEF Compile, LedgerInv
<1>2. manifest \in Manifests /\ maxima \in Maxima
  BY EnvelopeAssumption DEF TypeOK
<1>3. /\ Len(steps) \in Nat /\ DOMAIN steps = 1..Len(steps)
      /\ Len(totals) = Len(steps) + 1 /\ DOMAIN totals = 1..Len(steps) + 1
  BY DEF TypeOK, PlanInv
<1>4. /\ level \in Nat /\ next \in Spending
      /\ Spent = totals[Len(steps) + 1]
  <2>1. Len(steps) + 1 \in Nat \ {0}
    BY <1>3
  <2>2. level \in Nat /\ Budget(level) \in Spending
    BY <1>2, <2>1, LevelWithinCeiling, BudgetIsSpending
  <2>3. Spent \in Spending /\ Spent = totals[Len(steps) + 1]
    BY <1>3 DEF Spent, TypeOK
  <2> QED
    BY <2>2, <2>3, PlusIsSpending
<1>5. \/ UNCHANGED <<steps, totals>> /\ pc' \in {"rejected", "running"}
      \/ /\ steps' = Append(steps, level) /\ totals' = Append(totals, next)
         /\ Funded(next) /\ pc' \in {"running", "compile"}
  BY DEF Compile, Reject
<1> HIDE DEF level, next
<1>6. /\ steps' \in Seq(Int) /\ totals' \in Seq(Spending)
      /\ Len(steps') \in Nat /\ totals'[1] = totals[1]
  <2>1. steps \in Seq(Int) /\ totals \in Seq(Spending) /\ Len(totals) >= 1
    BY <1>3 DEF TypeOK
  <2>2. CASE UNCHANGED <<steps, totals>>
    BY <2>1, <2>2
  <2>3. CASE steps' = Append(steps, level) /\ totals' = Append(totals, next)
    <3>1. level \in Int
      BY <1>4
    <3>2. steps' \in Seq(Int) /\ Len(steps') \in Nat
      BY <2>1, <2>3, <3>1
    <3>3. totals' \in Seq(Spending) /\ totals'[1] = totals[1]
      BY <1>4, <2>1, <2>3
    <3> QED
      BY <3>2, <3>3
  <2> QED
    BY <1>5, <2>2, <2>3
<1>7. TypeOK'
  BY <1>1, <1>5, <1>6 DEF TypeOK, control, Ended
<1>8. PlanInv'
  <2>1. CASE UNCHANGED <<steps, totals>>
    BY <1>1, <2>1, PlanStays DEF plan
  <2>2. CASE /\ steps' = Append(steps, level) /\ totals' = Append(totals, next)
             /\ Funded(next)
    <3> DEFINE n == Len(steps) + 1
    <3>1. /\ n \in Nat \ {0} /\ DOMAIN steps = 1..n - 1 /\ DOMAIN steps' = 1..n
          /\ Len(steps') = n /\ Len(totals) = n /\ Len(totals') = n + 1
          /\ \A i \in 1..n - 1 : steps'[i] = steps[i]
          /\ \A i \in 1..n : totals'[i] = totals[i]
          /\ steps'[n] = level /\ totals'[n + 1] = next
      BY <1>3, <1>4, <2>2 DEF TypeOK
    <3>2. level = Level(n) /\ next = Plus(totals[n], Budget(level))
      BY <1>4 DEF level, next
    <3>3. /\ \A i : Level(i)' = Level(i)
          /\ \A l : Budget(l)' = Budget(l)
          /\ \A s : Funded(s)' = Funded(s)
      <4>1. \A i : Level(i)' = Level(i)
        BY <1>1 DEF Level, Start, Ceiling
      <4>2. \A l : Budget(l)' = Budget(l)
        BY <1>1 DEF Budget, Hold, Intensity
      <4>3. \A s : Funded(s)' = Funded(s)
        BY <1>1 DEF Funded, Reserved
      <4> QED
        BY <4>1, <4>2, <4>3
    <3> HIDE DEF n
    <3>4. totals'[1] = Nothing
      BY <3>1 DEF PlanInv
    <3>5. ASSUME NEW i \in 1..n
          PROVE  /\ steps'[i] = Level(i)
                 /\ totals'[i + 1] = Plus(totals'[i], Budget(steps'[i]))
                 /\ Funded(totals'[i + 1])
      <4>1. CASE i = n
        BY <2>2, <3>1, <3>2, <4>1
      <4>2. CASE i # n
        <5>1. i \in 1..n - 1 /\ i + 1 \in 1..n
          BY <3>1, <4>2
        <5>2. /\ steps[i] = Level(i)
              /\ totals[i + 1] = Plus(totals[i], Budget(steps[i]))
              /\ Funded(totals[i + 1])
          BY <3>1, <5>1 DEF PlanInv
        <5> QED
          BY <3>1, <5>1, <5>2
      <4> QED
        BY <4>1, <4>2
    <3> QED
      BY <3>1, <3>3, <3>4, <3>5 DEF PlanInv
  <2> QED
    BY <1>5, <2>1, <2>2
<1>9. LedgerInv'
  BY <1>1, <1>5, <1>6 DEF LedgerInv, control
<1>10. ClockInv' /\ CommandInv'
  <2>1. consumed.rampDurationSeconds = 0
    BY <1>1 DEF LedgerInv, PlanInv, Nothing
  <2> QED
    BY <1>1, <1>5, <2>1 DEF ClockInv, TimelineInv, CommandInv, CommandsHold, control, Resumed
<1>11. LoweredInv'
  BY <1>1, <1>5 DEF LoweredInv
<1> QED
  BY <1>7, <1>8, <1>9, <1>10, <1>11

(* What a controller step starts from.                                     *)
LEMMA Running ==
    ASSUME IInv, pc \in {"running", "paused"}
    PROVE  /\ started \in Nat /\ Len(steps) \in Nat /\ started <= Len(steps)
           /\ consumed \in Spending /\ Hold \in Nat /\ Reserved \in Nat
           /\ pc = "running" => nextStart \in Nat
           /\ \A t \in Time : t \in Nat
<1>1. manifest \in Manifests /\ maxima \in Maxima
  BY EnvelopeAssumption DEF IInv, TypeOK
<1>2. \A t \in Time : t \in Nat
  BY EnvelopeAssumption
<1>3. steps \in Seq(Int)
  BY DEF IInv, TypeOK
<1> QED
  BY <1>1, <1>2, <1>3, Quantities DEF IInv, TypeOK, LedgerInv, ClockInv, Never

LEMMA CommandEmits ==
    ASSUME IInv, UNCHANGED <<plan, started, consumed>>, NEW at \in Time,
           NEW event \in {"control.pause", "control.resume", "control.stop"},
           pc \in {"running", "paused"}, Emit(at, event),
           \/ event = "control.stop" /\ pc' = "stopped" /\ UNCHANGED nextStart
           \/ event = "control.pause" /\ pc' = "paused" /\ nextStart' = Never
           \/ event = "control.resume" /\ pc = "paused" /\ pc' = "running" /\ nextStart' = at
    PROVE  IInv'
<1> USE DEF IInv
<1>1. at \in Nat /\ event \in Events
  BY Running DEF Events
<1>2. events' \in Seq([at : Nat, event : Events]) /\ clock' = at
  BY <1>1, Emitted
<1>3. TypeOK'
  <2>1. pc' \in {"running", "paused"} \cup Ended /\ nextStart' \in Nat \cup {Never}
    BY <1>1 DEF Ended, TypeOK
  <2> QED
    BY <1>1, <1>2, <2>1 DEF TypeOK, plan
<1>4. PlanInv'
  BY PlanStays
<1>5. LedgerInv'
  BY DEF LedgerInv, plan
<1>6. UNCHANGED plan /\ event # "ramp.step_started" /\ event # "budget_exhausted"
  OBVIOUS
<1>7. event = "control.resume" => Paused
  BY DEF ClockInv
<1>8. /\ TimelineInv'
      /\ Paused' <=> Paused \/ event = "control.pause"
      /\ Resumed' <=> Resumed \/ event = "control.resume"
  BY <1>1, <1>6, <1>7, EventKeeps
<1>9. ClockInv'
  BY <1>1, <1>2, <1>8 DEF ClockInv
<1>10. CommandInv'
  BY <1>1, EventCommands
<1>11. LoweredInv'
  BY LoweredStays
<1> QED
  BY <1>3, <1>4, <1>5, <1>9, <1>10, <1>11

(* A step that only rejects.                                               *)
LEMMA RejectKeeps ==
    ASSUME IInv, pc \in {"running", "paused"}, Reject, UNCHANGED <<plan, control>>
    PROVE  IInv'
<1> USE DEF IInv, Reject
<1>1. TypeOK'
  BY DEF TypeOK, plan, control, Ended
<1>2. PlanInv'
  BY PlanStays
<1>3. LedgerInv'
  BY DEF LedgerInv, plan, control
<1>4. ClockInv'
  BY DEF ClockInv, TimelineInv, Is, Paused, Resumed, Hold, Reserved, plan, control
<1>5. CommandInv'
  BY DEF CommandInv, CommandsHold, Is, control
<1>6. LoweredInv'
  BY DEF LoweredInv
<1> QED
  BY <1>1, <1>2, <1>3, <1>4, <1>5, <1>6

LEMMA ControlKeeps ==
    ASSUME IInv, Control PROVE IInv'
<1>1. PICK at \in Time, group \in (SUBSET Command) \ {{}} : Controls(at, group)
  BY DEF Control
<1>2. pc \in {"running", "paused"} /\ UNCHANGED <<plan, started, consumed>>
  BY <1>1 DEF Controls
<1>3. \/ \E event \in {"control.pause", "control.resume", "control.stop"} :
            /\ Emit(at, event)
            /\ \/ event = "control.stop" /\ pc' = "stopped" /\ UNCHANGED nextStart
               \/ event = "control.pause" /\ pc' = "paused" /\ nextStart' = Never
               \/ event = "control.resume" /\ pc = "paused" /\ pc' = "running" /\ nextStart' = at
      \/ Reject /\ UNCHANGED <<nextStart, clock, events>>
  <2>1. CASE "stop" \in group
    BY <1>1, <2>1 DEF Controls
  <2>2. CASE "stop" \notin group /\ "pause" \in group
    BY <1>1, <2>2 DEF Controls
  <2>3. CASE group = {"resume"}
    BY <1>1, <2>3 DEF Controls
  <2>4. "stop" \in group \/ "pause" \in group \/ group = {"resume"}
    BY DEF Command
  <2> QED
    BY <2>1, <2>2, <2>3, <2>4
<1>4. CASE \E event \in {"control.pause", "control.resume", "control.stop"} :
              /\ Emit(at, event)
              /\ \/ event = "control.stop" /\ pc' = "stopped" /\ UNCHANGED nextStart
                 \/ event = "control.pause" /\ pc' = "paused" /\ nextStart' = Never
                 \/ event = "control.resume" /\ pc = "paused" /\ pc' = "running" /\ nextStart' = at
  BY <1>2, <1>4, CommandEmits
<1>5. CASE Reject /\ UNCHANGED <<nextStart, clock, events>>
  <2>1. UNCHANGED control
    BY <1>2, <1>5 DEF control
  <2> QED
    BY <1>2, <1>5, <2>1, RejectKeeps
<1> QED
  BY <1>3, <1>4, <1>5

LEMMA CompleteKeeps ==
    ASSUME IInv, Complete PROVE IInv'
<1> USE DEF IInv
<1>1. /\ pc = "running" /\ pc' = "completed" /\ Emit(nextStart, "controller.completed")
      /\ UNCHANGED plan /\ UNCHANGED <<started, nextStart, consumed>>
      /\ nextStart \in Nat /\ "controller.completed" \in Events
  BY Running DEF Complete, Events
<1>2. events' \in Seq([at : Nat, event : Events]) /\ clock' = nextStart
  BY <1>1, Emitted
<1>3. TypeOK'
  BY <1>1, <1>2 DEF TypeOK, plan, Ended
<1>4. PlanInv'
  BY <1>1, PlanStays
<1>5. LedgerInv'
  BY <1>1 DEF LedgerInv, plan
<1>6. TimelineInv'
  BY <1>1, EventKeeps
<1>7. ClockInv'
  BY <1>1, <1>6 DEF ClockInv
<1>8. CommandInv'
  BY <1>1, EventCommands
<1>9. LoweredInv'
  BY <1>1, LoweredStays
<1> QED
  BY <1>3, <1>4, <1>5, <1>7, <1>8, <1>9

(* The next level of the plan is what the compiler budgeted for.           *)
LEMMA NextLevel ==
    ASSUME IInv, pc \in {"running", "paused"}, started < Len(steps)
    PROVE  LET next == Plus(consumed, Budget(steps[started + 1])) IN
           /\ next \in Spending /\ next = totals[started + 2] /\ Funded(next)
           /\ next.rampDurationSeconds = consumed.rampDurationSeconds + Hold
<1> DEFINE i == started + 1
<1>1. started \in Nat /\ Len(steps) \in Nat /\ consumed \in Spending
  BY Running
<1>2. manifest \in Manifests /\ maxima \in Maxima /\ steps \in Seq(Int)
  BY EnvelopeAssumption DEF IInv, TypeOK
<1>3. i \in DOMAIN steps /\ i \in Nat \ {0} /\ i + 1 = started + 2
  BY <1>1, <1>2
<1>4. consumed = totals[i]
  BY DEF IInv, LedgerInv
<1>5. /\ steps[i] = Level(i)
      /\ totals[i + 1] = Plus(totals[i], Budget(steps[i]))
      /\ Funded(totals[i + 1])
  BY <1>3 DEF IInv, PlanInv
<1>6. Budget(steps[i]) \in Spending /\ Budget(steps[i]).rampDurationSeconds = Hold
  BY <1>2, <1>3, <1>5, LevelWithinCeiling, BudgetIsSpending
<1> QED
  BY <1>1, <1>3, <1>4, <1>5, <1>6, PlusIsSpending

LEMMA StartLevelKeeps ==
    ASSUME IInv, StartLevel PROVE IInv'
<1> USE DEF IInv
<1> DEFINE next == Plus(consumed, Budget(steps[started + 1]))
           end == nextStart + Hold
<1>1. /\ pc = "running" /\ started < Len(steps) /\ UNCHANGED plan
      /\ \/ Reject /\ UNCHANGED control
         \/ /\ end + Reserved <= Word /\ ~Fits(next, end)
            /\ pc' = "stopped" /\ Emit(nextStart, "budget_exhausted")
            /\ UNCHANGED <<started, nextStart, consumed>>
         \/ /\ Fits(next, end)
            /\ consumed' = next /\ started' = started + 1 /\ nextStart' = end
            /\ Emit(nextStart, "ramp.step_started")
            /\ UNCHANGED pc
  BY DEF StartLevel
<1>2. /\ started \in Nat /\ Len(steps) \in Nat /\ consumed \in Spending
      /\ nextStart \in Nat /\ Hold \in Nat /\ Reserved \in Nat
  BY <1>1, Running
<1>3. /\ next \in Spending /\ next = totals[started + 2] /\ Funded(next)
      /\ next.rampDurationSeconds = consumed.rampDurationSeconds + Hold
  BY <1>1, NextLevel
<1>4. "budget_exhausted" \in Events /\ "ramp.step_started" \in Events
  BY DEF Events
<1> HIDE DEF next
<1>5. CASE Reject /\ UNCHANGED control
  BY <1>1, <1>5, RejectKeeps
<1>6. CASE /\ ~Fits(next, end)
           /\ pc' = "stopped" /\ Emit(nextStart, "budget_exhausted")
           /\ UNCHANGED <<started, nextStart, consumed>>
  <2>1. events' \in Seq([at : Nat, event : Events]) /\ clock' = nextStart
    BY <1>2, <1>4, <1>6, Emitted
  <2>2. TypeOK'
    BY <1>1, <1>2, <1>6, <2>1 DEF TypeOK, plan, Ended
  <2>3. PlanInv'
    BY <1>1, PlanStays
  <2>4. LedgerInv'
    BY <1>1, <1>6 DEF LedgerInv, plan
  <2>5. Resumed
    <3> SUFFICES ASSUME ~Resumed PROVE FALSE
      OBVIOUS
    <3>1. end = next.rampDurationSeconds
      BY <1>1, <1>3 DEF ClockInv
    <3> QED
      BY <1>3, <1>6, <3>1 DEF Fits, Funded
  <2>6. TimelineInv'
    BY <1>1, <1>2, <1>4, <1>6, <2>5, EventKeeps
  <2>7. ClockInv'
    BY <1>6, <2>6 DEF ClockInv
  <2>8. CommandInv'
    BY <1>1, <1>2, <1>4, <1>6, EventCommands
  <2>9. LoweredInv'
    BY <1>1, LoweredStays
  <2> QED
    BY <2>2, <2>3, <2>4, <2>7, <2>8, <2>9
<1>7. CASE /\ Fits(next, end)
           /\ consumed' = next /\ started' = started + 1 /\ nextStart' = end
           /\ Emit(nextStart, "ramp.step_started")
           /\ UNCHANGED pc
  <2>1. events' \in Seq([at : Nat, event : Events]) /\ clock' = nextStart
    BY <1>2, <1>4, <1>7, Emitted
  <2>2. end \in Nat /\ nextStart <= end /\ started + 1 \in Nat
    BY <1>2
  <2>3. TypeOK'
    BY <1>1, <1>2, <1>3, <1>7, <2>1, <2>2 DEF TypeOK, plan
  <2>4. PlanInv'
    BY <1>1, PlanStays
  <2>5. LedgerInv'
    <3>1. started' <= Len(steps') /\ started' + 1 = started + 2
      BY <1>1, <1>2, <1>7 DEF plan
    <3>2. consumed' = totals'[started' + 1]
      BY <1>1, <1>3, <1>7, <3>1 DEF plan
    <3> QED
      BY <1>1, <1>7, <3>1, <3>2 DEF LedgerInv
  <2>6. nextStart + Hold + Reserved <= maxima["durationSeconds"]
    BY <1>7 DEF Fits
  <2>7. TimelineInv' /\ (Resumed' <=> Resumed)
    BY <1>1, <1>2, <1>4, <1>7, <2>6, EventKeeps
  <2>8. ClockInv'
    <3>1. ~Resumed => nextStart' = consumed'.rampDurationSeconds
      BY <1>1, <1>3, <1>7 DEF ClockInv
    <3>2. clock' <= nextStart' /\ 0 <= nextStart'
      BY <1>2, <1>7, <2>1, <2>2
    <3> QED
      BY <1>1, <1>7, <2>7, <3>1, <3>2 DEF ClockInv
  <2>9. CommandInv'
    BY <1>1, <1>2, <1>4, <1>7, EventCommands
  <2>10. LoweredInv'
    BY <1>1, <1>7, LoweredStays
  <2> QED
    BY <2>3, <2>4, <2>5, <2>8, <2>9, <2>10
<1> QED
  BY <1>1, <1>5, <1>6, <1>7

(* No step of the compiler or the controller breaks it.                    *)
THEOREM StepInv == IInv /\ [Next]_vars => IInv'
<1> SUFFICES ASSUME IInv, [Next]_vars PROVE IInv'
  OBVIOUS
<1>1. CASE UNCHANGED vars
  <2>1. UNCHANGED plan /\ UNCHANGED control /\ pc' = pc
    BY <1>1 DEF vars
  <2>2. PlanInv'
    BY <2>1, PlanStays DEF IInv
  <2>3. TypeOK' /\ LedgerInv' /\ LoweredInv'
    BY <2>1 DEF IInv, plan, control, TypeOK, LedgerInv, LoweredInv
  <2>4. ClockInv'
    BY <2>1 DEF IInv, ClockInv, TimelineInv, Is, Paused, Resumed, Hold, Reserved, plan, control
  <2>5. CommandInv'
    BY <2>1 DEF IInv, CommandInv, CommandsHold, Is, control
  <2> QED
    BY <2>2, <2>3, <2>4, <2>5 DEF IInv
<1> QED
  BY <1>1, LowerKeeps, CompileKeeps, CompleteKeeps, StartLevelKeeps, ControlKeeps
     DEF Next, Loop

(* The inductive invariant holds whatever the manifest, the overrides and  *)
(* the commands.                                                           *)
THEOREM Invariant == Spec => []IInv
BY InitInv, StepInv, PTL DEF Spec

-----------------------------------------------------------------------------
(* No level above the reviewed ceiling, no more calls than reviewed, and   *)
(* every started level ends, with cooldown and recovery, in time.          *)
THEOREM AuthorisationHolds == Spec => []WithinAuthorisation
<1>1. IInv => WithinAuthorisation
  <2> SUFFICES ASSUME IInv, pc # "rejected" PROVE WithinAuthorisation
    BY DEF WithinAuthorisation
  <2>1. /\ manifest \in Manifests /\ maxima \in Maxima
        /\ steps \in Seq(Int) /\ totals \in Seq(Spending)
        /\ started \in Nat /\ started <= Len(steps)
        /\ events \in Seq([at : Nat, event : Events])
    BY EnvelopeAssumption DEF IInv, TypeOK, LedgerInv
  <2>2. \A key \in MAXIMA_KEYS :
           /\ maxima[key] \in Nat /\ manifest.maxima[key] \in Nat
           /\ maxima[key] <= manifest.maxima[key]
    BY <2>1, Quantities DEF IInv, LoweredInv
  <2>3. manifest.dimension \in MAXIMA_KEYS /\ {"totalCalls", "durationSeconds"} \subseteq MAXIMA_KEYS
    BY <2>1, Quantities DEF MAXIMA_KEYS
  <2>4. ASSUME NEW i \in 1..started
        PROVE  steps[i] <= manifest.maxima[manifest.dimension]
    <3>1. i \in DOMAIN steps /\ i \in Nat \ {0}
      BY <2>1
    <3>2. steps[i] = Level(i) /\ Level(i) \in Nat /\ Level(i) <= Ceiling
      BY <2>1, <3>1, LevelWithinCeiling DEF IInv, PlanInv
    <3> QED
      BY <2>2, <2>3, <3>2 DEF Ceiling
  <2>5. consumed.calls <= manifest.maxima["totalCalls"]
    <3>1. CASE started = 0
      BY <2>2, <2>3, <3>1 DEF IInv, LedgerInv, PlanInv, Nothing
    <3>2. CASE started # 0
      <4>1. started \in DOMAIN steps
        BY <2>1, <3>2
      <4>2. Funded(consumed)
        BY <4>1 DEF IInv, LedgerInv, PlanInv
      <4>3. consumed.calls \in Nat
        BY DEF IInv, TypeOK, Spending
      <4> QED
        BY <2>2, <2>3, <4>2, <4>3 DEF Funded
    <3> QED
      BY <3>1, <3>2
  <2>6. ASSUME NEW i \in DOMAIN events, Is(i, "ramp.step_started")
        PROVE  events[i].at + Hold + Reserved <= manifest.maxima["durationSeconds"]
    <3>1. events[i] \in [at : Nat, event : Events]
      BY <2>1, <2>6, ElementOfSeq
    <3>2. events[i].at \in Nat /\ Hold \in Nat /\ Reserved \in Nat
      BY <2>1, <3>1, Quantities
    <3>3. events[i].at + Hold + Reserved <= maxima["durationSeconds"]
      BY <2>6 DEF IInv, ClockInv, TimelineInv
    <3> QED
      BY <2>2, <2>3, <3>2, <3>3
  <2> QED
    BY <2>4, <2>5, <2>6 DEF WithinAuthorisation
<1> QED
  BY <1>1, Invariant, PTL

(* Compiler and controller agree on what is funded: a run that nobody      *)
(* resumed is not stopped for its budget.                                  *)
THEOREM PausesExhaust == Spec => []OnlyPausesExhaust
<1>1. IInv => OnlyPausesExhaust
  <2> SUFFICES ASSUME IInv, NEW k \in DOMAIN events, Is(k, "budget_exhausted")
               PROVE  \E i, j \in DOMAIN events :
                         i < j /\ Is(i, "control.pause") /\ Is(j, "control.resume")
    BY DEF OnlyPausesExhaust
  <2>1. events \in Seq([at : Nat, event : Events])
    BY DEF IInv, TypeOK
  <2>2. PICK j \in DOMAIN events : Is(j, "control.resume")
    BY DEF IInv, ClockInv, TimelineInv, Resumed
  <2>3. PICK i \in 1..j - 1 : Is(i, "control.pause")
    BY <2>2 DEF IInv, ClockInv, TimelineInv
  <2>4. i \in DOMAIN events /\ i < j
    BY <2>1, <2>2
  <2> QED
    BY <2>2, <2>3, <2>4
<1> QED
  BY <1>1, Invariant, PTL

(* Compiler and controller spend one budget.                                *)
THEOREM BudgetsAgree == Spec => []BudgetsHold
<1>1. WithinAuthorisation /\ OnlyPausesExhaust => BudgetsHold
  BY DEF BudgetsHold
<1>2. QED
  BY <1>1, AuthorisationHolds, PausesExhaust, PTL

(* Between a pause and the resume that ends it no level starts, and        *)
(* nothing happens after a stop.                                           *)
THEOREM CommandsAreHeld == Spec => []CommandsHold
<1>1. IInv => CommandsHold
  BY DEF IInv, CommandInv
<1> QED
  BY <1>1, Invariant, PTL

-----------------------------------------------------------------------------
(* What a command does to the timeline.                                     *)
LEMMA ControlEmits ==
    ASSUME IInv, Control
    PROVE  /\ pc \in {"running", "paused"} /\ UNCHANGED plan
           /\ \/ Reject /\ UNCHANGED events
              \/ \E at \in Nat, event \in {"control.pause", "control.resume", "control.stop"} :
                    /\ Emit(at, event) /\ (pc = "running" => at <= nextStart)
<1>1. PICK at \in Time, group \in (SUBSET Command) \ {{}} : Controls(at, group)
  BY DEF Control
<1>2. pc \in {"running", "paused"} /\ UNCHANGED plan /\ (nextStart # Never => at <= nextStart)
  BY <1>1 DEF Controls
<1>3. at \in Nat /\ (pc = "running" => nextStart # Never)
  BY <1>2, Running DEF Never
<1>4. \/ Reject /\ UNCHANGED events
      \/ \E event \in {"control.pause", "control.resume", "control.stop"} : Emit(at, event)
  <2>1. CASE "stop" \in group
    BY <1>1, <2>1 DEF Controls
  <2>2. CASE "stop" \notin group /\ "pause" \in group
    BY <1>1, <2>2 DEF Controls
  <2>3. CASE group = {"resume"}
    BY <1>1, <2>3 DEF Controls
  <2>4. "stop" \in group \/ "pause" \in group \/ group = {"resume"}
    BY DEF Command
  <2> QED
    BY <2>1, <2>2, <2>3, <2>4
<1> QED
  BY <1>2, <1>3, <1>4

(* Compiling ends at the ceiling or at the first level without budget.      *)
LEMMA CompileIsMaximal ==
    ASSUME IInv, Compile PROVE PlanIsMaximal'
<1> DEFINE i == Len(steps) + 1
           next == Plus(Spent, Budget(Level(i)))
<1>1. manifest \in Manifests /\ maxima \in Maxima /\ Len(steps) \in Nat
  BY EnvelopeAssumption DEF IInv, TypeOK
<1>2. UNCHANGED <<manifest, maxima>>
  BY DEF Compile
<1>3. Count' = Count /\ \A l : Budget(l)' = Budget(l) /\ Level(l)' = Level(l)
  BY <1>2 DEF Count, Level, Budget, Intensity, Hold, Start, Ceiling
<1>4. CASE UNCHANGED <<steps, totals>> /\ pc' = "running"
  <2>1. ~Funded(next)
    BY <1>4 DEF Compile, Reject
  <2>2. next \in Spending
    <3>1. Spent \in Spending
      BY <1>1, ElementOfSeq DEF Spent, IInv, TypeOK, PlanInv
    <3>2. Level(i) \in Nat
      BY <1>1, LevelWithinCeiling
    <3>3. Budget(Level(i)) \in Spending
      BY <1>1, <3>2, BudgetIsSpending
    <3> QED
      BY <3>1, <3>3, PlusIsSpending
  <2>3. /\ next.calls \in Nat /\ next.rampDurationSeconds \in Nat
        /\ maxima["totalCalls"] \in Nat /\ maxima["durationSeconds"] \in Nat /\ Reserved \in Nat
    BY <1>1, <2>2, Quantities DEF Spending, MAXIMA_KEYS
  <2>4. maxima["totalCalls"] < next.calls \/ maxima["durationSeconds"] < next.rampDurationSeconds + Reserved
    <3> HIDE DEF next
    <3> QED
      BY <2>1, <2>3 DEF Funded
  <2>5. next' = next /\ Reserved' = Reserved
    BY <1>2, <1>3, <1>4 DEF Spent, Reserved
  <2> QED
    BY <1>2, <2>4, <2>5 DEF PlanIsMaximal
<1>5. CASE pc' = "running" /\ ~UNCHANGED <<steps, totals>>
  <2>1. Len(steps) + 1 = Count /\ Len(steps') = Len(steps) + 1
    BY <1>5 DEF Compile, Reject, IInv, TypeOK
  <2> QED
    BY <1>1, <1>3, <2>1 DEF PlanIsMaximal
<1>6. pc' \in {"rejected", "compile", "running"}
  BY DEF Compile, Reject
<1> QED
  BY <1>4, <1>5, <1>6 DEF PlanIsMaximal

(* "Planning stops before the first unfunded level", and not earlier.       *)
THEOREM PlansAreMaximal == Spec => []PlanIsMaximal
<1>1. Init => PlanIsMaximal
  BY DEF Init, PlanIsMaximal
<1>2. IInv /\ PlanIsMaximal /\ [Next]_vars => PlanIsMaximal'
  <2> SUFFICES ASSUME IInv, PlanIsMaximal, [Next]_vars PROVE PlanIsMaximal'
    OBVIOUS
  <2>1. CASE UNCHANGED plan /\ (pc' \in {"running", "paused", "stopped", "completed"}
                                  => pc \in {"running", "paused", "stopped", "completed"})
    <3>1. /\ Count' = Count /\ Reserved' = Reserved /\ Spent' = Spent
          /\ \A l : Budget(l)' = Budget(l) /\ Level(l)' = Level(l)
      BY <2>1 DEF plan, Count, Level, Budget, Intensity, Hold, Start, Ceiling, Reserved, Spent
    <3> QED
      BY <2>1, <3>1 DEF PlanIsMaximal, plan
  <2>2. CASE Control
    BY <2>1, <2>2, ControlEmits
  <2>3. CASE Lower
    BY <2>3 DEF Lower, Reject, PlanIsMaximal
  <2>4. CASE Compile
    BY <2>4, CompileIsMaximal
  <2>5. CASE Complete \/ StartLevel
    BY <2>1, <2>5 DEF Complete, StartLevel
  <2>6. CASE UNCHANGED vars
    BY <2>1, <2>6 DEF vars
  <2> QED
    BY <2>2, <2>3, <2>4, <2>5, <2>6 DEF Next, Loop
<1> QED
  BY <1>1, <1>2, Invariant, PTL DEF Spec

-----------------------------------------------------------------------------
(* A level that has begun ends when its hold does, unless somebody pauses.  *)
LastInv ==
    events # <<>> /\ Is(Len(events), "ramp.step_started") /\ pc \in {"running", "paused"} =>
       pc = "running" /\ nextStart = events[Len(events)].at + Hold

LEMMA EmitHolds ==
    ASSUME IInv, LastInv, HoldUnlessResumed, UNCHANGED plan, pc \in {"running", "paused"},
           NEW at \in Nat, NEW event \in Events, Emit(at, event),
           pc = "running" => at <= nextStart,
           event \in {"ramp.step_started", "controller.completed"} => pc = "running" /\ at = nextStart
    PROVE  HoldUnlessResumed'
<1>1. /\ Len(events) \in Nat /\ DOMAIN events = 1..Len(events) /\ DOMAIN events' = 1..Len(events) + 1
      /\ \A i \in DOMAIN events : events'[i] = events[i]
      /\ events'[Len(events) + 1] = [at |-> at, event |-> event]
  BY Emitted DEF IInv
<1>2. Hold' = Hold
  BY DEF plan, Hold
<1> SUFFICES ASSUME NEW i \in DOMAIN events', i + 1 \in DOMAIN events',
                    events'[i].event = "ramp.step_started"
             PROVE  IF events'[i + 1].event \in {"ramp.step_started", "controller.completed"}
                    THEN events'[i + 1].at = events'[i].at + Hold
                    ELSE events'[i + 1].at <= events'[i].at + Hold
  BY <1>2 DEF HoldUnlessResumed, Is
<1>3. CASE i + 1 \in DOMAIN events
  BY <1>1, <1>3 DEF HoldUnlessResumed, Is
<1>4. CASE i + 1 = Len(events) + 1
  <2>1. i = Len(events) /\ events # <<>> /\ events'[i] = events[i]
    BY <1>1, <1>4
  <2>2. pc = "running" /\ nextStart = events[i].at + Hold
    BY <2>1 DEF LastInv, Is
  <2> QED
    BY <1>1, <2>1, <2>2
<1> QED
  BY <1>1, <1>3, <1>4

LEMMA LastKeeps ==
    ASSUME IInv, UNCHANGED plan, pc \in {"running", "paused"},
           NEW at \in Nat, NEW event \in Events, Emit(at, event),
           event = "ramp.step_started" => pc' = "running" /\ nextStart' = at + Hold
    PROVE  LastInv'
<1>1. /\ Len(events) \in Nat /\ Len(events') = Len(events) + 1
      /\ events'[Len(events) + 1] = [at |-> at, event |-> event]
  BY Emitted DEF IInv
<1>2. Hold' = Hold
  BY DEF plan, Hold
<1> QED
  BY <1>1, <1>2 DEF LastInv, Is

(* Levels start on their hold boundary as long as nobody resumes.           *)
THEOREM HoldsUnlessResumed == Spec => []HoldUnlessResumed
<1>1. Init => HoldUnlessResumed /\ LastInv
  BY DEF Init, HoldUnlessResumed, LastInv
<1>2. IInv /\ HoldUnlessResumed /\ LastInv /\ [Next]_vars => HoldUnlessResumed' /\ LastInv'
  <2> SUFFICES ASSUME IInv, HoldUnlessResumed, LastInv, [Next]_vars PROVE HoldUnlessResumed' /\ LastInv'
    OBVIOUS
  <2>1. CASE pc \in {"running", "paused"} /\ Reject /\ UNCHANGED <<plan, events>>
    BY <2>1 DEF HoldUnlessResumed, LastInv, Is, Hold, plan, Reject
  <2>2. CASE Control
    <3>1. PICK at \in Nat, event \in {"control.pause", "control.resume", "control.stop"} :
             (Reject /\ UNCHANGED events) \/ (Emit(at, event) /\ (pc = "running" => at <= nextStart))
      <4>1. "control.stop" \in {"control.pause", "control.resume", "control.stop"} /\ 0 \in Nat
        OBVIOUS
      <4> QED
        BY <2>2, <4>1, ControlEmits
    <3>2. pc \in {"running", "paused"} /\ UNCHANGED plan
      BY <2>2, ControlEmits
    <3>3. event \in Events /\ event \notin {"ramp.step_started", "controller.completed"}
      BY DEF Events
    <3> QED
      BY <2>1, <3>1, <3>2, <3>3, EmitHolds, LastKeeps
  <2>3. CASE Complete
    <3>1. /\ pc = "running" /\ UNCHANGED plan /\ nextStart \in Nat
          /\ Emit(nextStart, "controller.completed") /\ "controller.completed" \in Events
      BY <2>3, Running DEF Complete, Events
    <3> QED
      BY <3>1, EmitHolds, LastKeeps
  <2>4. CASE StartLevel
    <3>1. /\ pc = "running" /\ UNCHANGED plan /\ nextStart \in Nat
          /\ "ramp.step_started" \in Events /\ "budget_exhausted" \in Events
      BY <2>4, Running DEF StartLevel, Events
    <3>2. \/ Reject /\ UNCHANGED events
          \/ Emit(nextStart, "budget_exhausted")
          \/ Emit(nextStart, "ramp.step_started") /\ pc' = "running" /\ nextStart' = nextStart + Hold
      BY <2>4, <3>1 DEF StartLevel, control
    <3> QED
      BY <2>1, <3>1, <3>2, EmitHolds, LastKeeps
  <2>5. CASE Lower \/ Compile
    <3>1. events = <<>> /\ events' = <<>>
      BY <2>5 DEF Lower, Compile, control, IInv, LedgerInv
    <3> QED
      BY <3>1 DEF HoldUnlessResumed, LastInv
  <2>6. CASE UNCHANGED vars
    BY <2>6 DEF vars, control, plan, HoldUnlessResumed, LastInv, Is, Hold
  <2> QED
    BY <2>2, <2>3, <2>4, <2>5, <2>6 DEF Next, Loop
<1> QED
  BY <1>1, <1>2, Invariant, PTL DEF Spec
=============================================================================
