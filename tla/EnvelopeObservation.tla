------------------------- MODULE EnvelopeObservation -------------------------
(* What an envelope run observes and concludes (envelope_analysis.py) and   *)
(* how it shows that the target came back (envelope_recovery.py).           *)
(*                                                                          *)
(* Samples are taken at the levels of the frozen plan.  A metric is a fact: *)
(* known with a value, missing or stale.  The health of the target comes    *)
(* from an adapter process that may have run long before the sample that    *)
(* cites it.  analyze_degradation reads the samples in order, here one per  *)
(* step, and stops at the first that triggers; after it, or when the        *)
(* operator or the end of the ramp stops the run, the recovery canaries run.*)
EXTENDS Integers, Sequences, FiniteSets, FiniteSetsExt, TLC

CONSTANTS Levels,          \* the levels of the frozen plan, rising
          Policies,        \* the metric rules an operator may write
          Values,          \* what a source may report
          Health,          \* the metric that comes from the adapter
          BaselineSamples, StaleAfter, \* policy bounds
          Duration, Cooldown, RecoveryDeadline, Teardown, CanaryInterval,
          MaxSamples, MaxCanaries      \* bounds on the behaviours

VARIABLES policy,  \* the metric rules of this run
          at,      \* atMs of the last sample, in seconds here
          level,   \* index of its level
          adapter, \* what run_health_adapter returned last
          samples, \* the fused samples
          streaks, history, healthy, trigger, \* analyze_degradation's locals
          phase,   \* "ramp", "recovery", "over"
          stoppedAt, now, attempts, recoveredAt, outcome \* prove_recovery's locals
vars == <<policy, at, level, adapter, samples, streaks, history, healthy, trigger,
          phase, stoppedAt, now, attempts, recoveredAt, outcome>>

Nothing == [action |-> "continue", why |-> {}, level |-> 0]
Known(v) == [state |-> "known", value |-> v]
Unknown(state) == [state |-> state]
Names == DOMAIN policy

(* run_health_adapter: a deadline, an exit code, bad JSON or a time before  *)
(* the epoch is no value.                                                   *)
HealthAdapter(ends) ==
    IF ends.state = "known" /\ ends.observedAt >= 0 THEN ends ELSE Unknown("missing")
AdapterEnds(t) == {Unknown("deadline")} \cup
           {[state |-> "known", value |-> v, observedAt |-> o] : v \in Values, o \in {t - StaleAfter, t + 1}}

(* fuse_observation: health is known only while its sample is fresh.        *)
FuseHealth(h, t) ==
    CASE h.state # "known" -> h
      [] h.state = "known" /\ (h.observedAt > t \/ t - h.observedAt > StaleAfter) -> Unknown("stale")
      [] OTHER -> Known(h.value)
(* A source that is absent, or reports no finite number, is a missing fact. *)
Reported == {Known(v) : v \in Values} \cup {Unknown("missing")}
Fuse(h, sources, t) ==
    [m \in Names |-> IF m = Health THEN FuseHealth(h, t) ELSE sources[m]]

Beyond(direction, value, bound) == IF direction = "max" THEN value > bound ELSE value < bound
(* Twice the median, which statistics.median halves when the count is even. *)
TwiceMedian(s) ==
    LET t == SortSeq(s, <)
        n == Len(s)
    IN t[(n + 1) \div 2] + t[n \div 2 + 1]
Changed(rule, past, value) ==
    /\ Len(past) >= BaselineSamples
    /\ LET base == TwiceMedian(SubSeq(past, 1, BaselineSamples))
           delta == IF rule.direction = "max" THEN 2 * value - base ELSE base - 2 * value
       IN rule.changeDelta > 0 /\ delta >= 2 * rule.changeDelta

(* _normalize_policy: a threshold that is weaker than the soft one, or a     *)
(* streak of one, is refused.                                               *)
Normal(p) ==
    \A m \in DOMAIN p :
        /\ p[m].consecutive >= 2 /\ p[m].changeDelta >= 0
        /\ ~Beyond(p[m].direction, p[m].soft, p[m].hard)

Init ==
    /\ policy \in {p \in Policies : Normal(p)}
    /\ at = 0 /\ level = 1 /\ adapter = Unknown("missing") /\ samples = <<>>
    /\ streaks = [m \in Names |-> 0] /\ history = [m \in Names |-> <<>>]
    /\ healthy = {} /\ trigger = Nothing
    /\ phase = "ramp" /\ stoppedAt = 0 /\ now = 0 /\ attempts = <<>> /\ recoveredAt = 0 /\ outcome = "none"

recovery == <<stoppedAt, now, attempts, recoveredAt, outcome>>
locals == <<streaks, history, healthy, trigger>>

(* Mutant: the streak survives a sample that is clear.                      *)
StreakKept(m, fact) ==
    CASE fact.state # "known" -> 0
      [] Beyond(policy[m].direction, fact.value, policy[m].soft) -> streaks[m] + 1
      [] Changed(policy[m], history[m], fact.value) -> streaks[m] + 1
      [] OTHER -> streaks[m]

(* One turn of the loop of analyze_degradation over the fused facts.        *)
Streak(m, fact) ==
    CASE fact.state # "known" -> 0
      [] Beyond(policy[m].direction, fact.value, policy[m].soft) -> streaks[m] + 1
      [] Changed(policy[m], history[m], fact.value) -> streaks[m] + 1
      [] OTHER -> 0
Hard(facts) == {m \in Names : facts[m].state = "known" /\ Beyond(policy[m].direction, facts[m].value, policy[m].hard)}
Analyze(facts, here) ==
    LET streak == [m \in Names |-> Streak(m, facts[m])]
        hard == Hard(facts)
        unknown == {m \in Names : facts[m].state # "known" /\ policy[m].required}
        repeated == {m \in Names \ hard : streak[m] >= policy[m].consecutive}
        suspect == {m \in Names : streak[m] > 0}
    IN /\ streaks' = streak
       /\ history' = [m \in Names |-> IF facts[m].state = "known" THEN Append(history[m], facts[m].value)
                                      ELSE history[m]]
       /\ trigger' = CASE hard # {} -> [action |-> "hard_stop", why |-> hard, level |-> here]
                       [] hard = {} /\ unknown # {} -> [action |-> "unknown", why |-> unknown, level |-> here]
                       [] hard = {} /\ unknown = {} /\ repeated # {} ->
                            [action |-> "degraded", why |-> repeated, level |-> here]
                       [] OTHER -> Nothing
       /\ healthy' = IF trigger' = Nothing /\ suspect = {} THEN healthy \cup {here} ELSE healthy

(* The adapter runs before the sample, or the sample cites its last answer. *)
Sample ==
    /\ phase = "ramp" /\ Len(samples) < MaxSamples /\ at + 1 < Duration
    /\ at' = at + 1
    /\ IF Health \in Names THEN \E ends \in AdapterEnds(at') : adapter' \in {adapter, HealthAdapter(ends)}
                           ELSE UNCHANGED adapter
    /\ \E i \in level .. Len(Levels), sources \in [Names \ {Health} -> Reported] :
         LET facts == Fuse(adapter', sources, at')
         IN /\ level' = i
            /\ Analyze(facts, Levels[i])
            /\ samples' = Append(samples, [level |-> Levels[i], at |-> at', facts |-> facts,
                                           seen |-> IF adapter'.state = "known" THEN adapter'.observedAt ELSE at'])
    /\ phase' = IF trigger' = Nothing THEN "ramp" ELSE "recovery"
    /\ UNCHANGED <<policy, recovery>>

Least(a, b) == IF a < b THEN a ELSE b
TeardownEnd(t) == Least(t + Teardown, Duration)
CooldownEnd(t) == Least(TeardownEnd(t) + Cooldown, Duration)
RecoveryEnd(t) == Least(CooldownEnd(t) + RecoveryDeadline, Duration)

(* prove_recovery up to its loop, for a trigger or for a stop: an interrupt *)
(* or the end of the ramp.                                                  *)
StopAdmission ==
    /\ outcome = "none" /\ samples # <<>>
    /\ phase \in {"ramp", "recovery"} /\ stoppedAt = 0
    /\ phase' = "recovery" /\ stoppedAt' \in {at + 1, Duration}
    /\ now' = CooldownEnd(stoppedAt')
    /\ UNCHANGED <<policy, at, level, adapter, samples, locals, attempts, recoveredAt, outcome>>

LoadFailed == trigger.action \in {"degraded", "hard_stop"}
Concluded(recovered) ==
    CASE recovered /\ LoadFailed -> "recovered_after_load_failure"
      [] recovered /\ ~LoadFailed -> "recovered_after_stop"
      [] ~recovered /\ LoadFailed -> "failed_to_recover"
      [] OTHER -> "recovery_unproven"

Recovering == phase = "recovery" /\ stoppedAt > 0
(* Mutant: the deadline is looked at after the canary only.                 *)
CanaryUnchecked(passed) ==
    /\ Recovering /\ Len(attempts) < MaxCanaries
    /\ attempts' = Append(attempts, [at |-> now, passed |-> passed])
    /\ IF passed THEN /\ recoveredAt' = now /\ phase' = "over" /\ outcome' = Concluded(TRUE) /\ now' = now
                 ELSE /\ now' = now + CanaryInterval /\ UNCHANGED <<phase, recoveredAt, outcome>>
    /\ UNCHANGED <<policy, at, level, adapter, samples, locals, stoppedAt>>
Canary(passed) ==
    /\ Recovering /\ now <= RecoveryEnd(stoppedAt) /\ Len(attempts) < MaxCanaries
    /\ attempts' = Append(attempts, [at |-> now, passed |-> passed])
    /\ IF passed THEN /\ recoveredAt' = now /\ phase' = "over" /\ outcome' = Concluded(TRUE) /\ now' = now
                 ELSE /\ now' = now + CanaryInterval /\ UNCHANGED <<phase, recoveredAt, outcome>>
    /\ UNCHANGED <<policy, at, level, adapter, samples, locals, stoppedAt>>

(* The deadline passed, or the canaries the caller scheduled are used up.   *)
GiveUp ==
    /\ Recovering /\ (now > RecoveryEnd(stoppedAt) \/ Len(attempts) = MaxCanaries)
    /\ phase' = "over" /\ outcome' = Concluded(FALSE)
    /\ UNCHANGED <<policy, at, level, adapter, samples, locals, stoppedAt, now, attempts, recoveredAt>>

Next == Sample \/ StopAdmission \/ (\E passed \in BOOLEAN : Canary(passed)) \/ GiveUp
Spec == Init /\ [][Next]_vars

-----------------------------------------------------------------------------
TypeOK ==
    /\ phase \in {"ramp", "recovery", "over"} /\ level \in 1 .. Len(Levels) /\ at \in 0 .. Duration
    /\ healthy \subseteq {Levels[i] : i \in DOMAIN Levels}
    /\ DOMAIN streaks = Names /\ DOMAIN history = Names /\ Len(samples) <= MaxSamples

(* What the samples themselves say, whatever the analysis remembers.        *)
KnownBefore(m, i) == {j \in 1 .. i - 1 : samples[j].facts[m].state = "known"}
BaselineOf(m, i) ==
    {j \in KnownBefore(m, i) : Cardinality(KnownBefore(m, j)) < BaselineSamples}
(* The value moved by changeDelta from the middle of the baseline samples.  *)
Moved(m, i) ==
    LET rule == policy[m]
        base == BaselineOf(m, i)
        v(j) == IF rule.direction = "max" THEN samples[j].facts[m].value ELSE 0 - samples[j].facts[m].value
        Below(j) == Cardinality({k \in base : v(k) < v(j) \/ (v(k) = v(j) /\ k < j)})
        Middle == {j \in base : Below(j) \in {(Cardinality(base) - 1) \div 2, Cardinality(base) \div 2}}
    IN /\ rule.changeDelta > 0 /\ Cardinality(base) = BaselineSamples
       /\ Cardinality(Middle) * (v(i) - rule.changeDelta) >= MapThenSumSet(v, Middle)
Bad(m, i) ==
    /\ samples[i].facts[m].state = "known"
    /\ Beyond(policy[m].direction, samples[i].facts[m].value, policy[m].soft) \/ Moved(m, i)
Repeated(m, i) ==
    /\ i >= policy[m].consecutive
    /\ \A j \in i - policy[m].consecutive + 1 .. i : Bad(m, j)
Verdict(i) ==
    LET facts == samples[i].facts
    IN CASE Hard(facts) # {} -> "hard_stop"
         [] Hard(facts) = {} /\ (\E m \in Names : facts[m].state # "known" /\ policy[m].required) -> "unknown"
         [] OTHER -> IF \E m \in Names : Repeated(m, i) THEN "degraded" ELSE "continue"
Clear(i) == Verdict(i) = "continue" /\ \A m \in Names : ~Bad(m, i)
Lower == {h \in healthy : trigger = Nothing \/ h < trigger.level}

(* The loop of analyze_degradation keeps streaks and a baseline as it goes: *)
(* it stops at the first sample, and only there, at which the samples       *)
(* themselves show a hard breach, a missing required fact, or a metric that *)
(* was bad in each of its last `consecutive` samples.  A health value is    *)
(* never older than StaleAfter, nor newer than the sample that cites it.    *)
(* And the lower end of the knee is a level with a clear sample, below the  *)
(* trigger, with no clear sample between the two.                           *)
TriggerIsEvidenced ==
    LET n == Len(samples)
    IN /\ \A i \in 1 .. n - 1 : Verdict(i) = "continue"
       /\ n > 0 => trigger.action = Verdict(n)
       /\ \A i \in 1 .. n : Health \in Names /\ samples[i].facts[Health].state = "known" =>
            samples[i].seen \in samples[i].at - StaleAfter .. samples[i].at
       /\ Lower # {} => \E i \in 1 .. n : samples[i].level = Max(Lower) /\ Clear(i)
       /\ \A i \in 1 .. n : Clear(i) /\ (trigger = Nothing \/ samples[i].level < trigger.level) =>
            Lower # {} /\ samples[i].level <= Max(Lower)

(* A run is reported recovered exactly when its last canary passed; canaries*)
(* start after the cooldown, follow each other at the interval, end with the*)
(* first that passes, and none is sent past the recovery deadline or the    *)
(* authorised duration (prove_recovery).                                    *)
RecoveryIsProven ==
    /\ outcome \in {"recovered_after_load_failure", "recovered_after_stop"} <=>
         attempts # <<>> /\ attempts[Len(attempts)].passed
    /\ outcome = "failed_to_recover" => trigger.action \in {"degraded", "hard_stop"}
    /\ \A i \in DOMAIN attempts :
         /\ attempts[i].at \in CooldownEnd(stoppedAt) .. RecoveryEnd(stoppedAt)
         /\ attempts[i].at \in stoppedAt .. Duration
         /\ i > 1 => attempts[i].at = attempts[i - 1].at + CanaryInterval /\ ~attempts[i - 1].passed
    /\ recoveredAt > 0 => recoveredAt = attempts[Len(attempts)].at

(* docs/ENVELOPE-DEGRADATION.md:32: the lower end of the interval is the    *)
(* last tested level with clear evidence.  The code counts a sample without *)
(* any known fact as healthy when no metric is required.                    *)
HealthyHasEvidence ==
    \A h \in healthy : \E i \in DOMAIN samples :
        samples[i].level = h /\ \E m \in Names : samples[i].facts[m].state = "known"

(* docs/ENVELOPE-DEGRADATION.md:26: a clear sample resets the streak.  The  *)
(* code resets it at an optional metric's missing or stale sample too.      *)
OnlyClearResets ==
    [][\A m \in Names : streaks[m] > 0 /\ streaks'[m] = 0 =>
         samples' # samples /\ samples'[Len(samples')].facts[m].state = "known"]_vars
=============================================================================
