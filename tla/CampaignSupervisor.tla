------------------------- MODULE CampaignSupervisor -------------------------
(***************************************************************************)
(* sippycup/runtime.py: CampaignSupervisor runs the steps of a frozen plan *)
(* one after another, each in a process group of its own, while signals,   *)
(* the capture watchdog (external_stop), the clock and the step's own      *)
(* processes act at any moment.  One action is one observable step of the  *)
(* supervisor's thread or of its environment.                              *)
(*                                                                         *)
(* A process is a pair <<step, role>>: the runner the supervisor spawned   *)
(* ("leader") and the helpers it forks.  A helper may close its inherited  *)
(* pipes, leave the group (setsid, only if in Detaches) or be stuck in     *)
(* uninterruptible sleep (only if in Unkillable).                          *)
(***************************************************************************)
EXTENDS Integers, Sequences, FiniteSets

CONSTANTS N,             \* number of steps in the plan
          Calls,         \* the steps whose type is "call"
          Helper,        \* roles a runner may fork
          Detaches,      \* helpers that can leave the process group
          Unkillable,    \* helpers on which SIGKILL has no effect
          Duration,      \* hardMaxima.durationSeconds
          Budget,        \* Budget[i]: step i's own duration budget
          Interval,      \* 1 / callsPerSecond
          Grace,         \* grace_seconds
          Rollback,      \* names of rollback actions
          Rollbacks,     \* the registry: those names in order of registration
          MaxTime        \* bound: the clock stops here

ASSUME CampaignAssumption ==
    /\ N \in Nat
    /\ Calls \subseteq 1..N
    /\ "leader" \notin Helper
    /\ Detaches \subseteq Helper
    /\ Unkillable \subseteq Helper
    /\ Duration \in Nat /\ Interval \in Nat /\ Grace \in Nat /\ MaxTime \in Nat
    /\ Budget \in [1..N -> Nat]
    /\ Rollbacks \in Seq(Rollback)

Proc == (1..N) \X ({"leader"} \cup Helper)

VARIABLES pc,        \* where the supervisor's thread is
          step,      \* the step being run; 0 before the first
          completed, \* RunResult.completed_steps
          outcome,   \* _run_step's outcome, "none" while it is None
          result,    \* RunResult.state as it will be returned
          cancel,    \* _cancel_signal is not None
          external,  \* external_stop() would give a reason
          clock,     \* time.monotonic()
          timer,     \* the deadline the current wait is measured against
          lastCall,  \* _last_call_start, -1 before the first call
          cleaned,   \* _cleaned
          pgid,      \* _pgid is not None
          after,     \* where the cleanup or group termination returns to
          seen,      \* both end-of-stream markers were read (stream_ends = 2)
          members,   \* live processes in a step's process group
          strays,    \* live processes that left it
          pipes,     \* live processes holding the runner's stdout or stderr
          failed,    \* the runner's exit status is not zero
          pending,   \* rollbacks not yet run (_cleanups)
          ran,       \* rollbacks run, in order
          log        \* the event stream, with the signal's arrival noted

procVars == <<members, strays, pipes, failed>>
runVars == <<step, completed, lastCall>>
stopVars == <<cancel, external>>
cleanVars == <<cleaned, pgid, after>>
undoVars == <<pending, ran>>
vars == <<pc, runVars, outcome, result, stopVars, clock, timer, cleanVars, seen,
          procVars, undoVars, log>>

Where == {"start", "next", "pace", "admit", "prepare", "stream", "terminate",
          "term", "kill", "undo", "conclude", "report", "leave", "returned"}
Outcome == {"none", "cancelled", "external", "timeout", "failed"}

(* The event that announces each RunResult, and each unsuccessful outcome. *)
CampaignEvent == [succeeded |-> "campaign.succeeded", failed |-> "campaign.failed",
                  cancelled |-> "campaign.cancelled",
                  timed_out |-> "campaign.timed_out", external |-> "campaign.failed"]
StepEvent == [cancelled |-> "step.cancelled", external |-> "step.failed",
              timeout |-> "step.timed_out", failed |-> "step.failed"]
ResultOf == [cancelled |-> "cancelled", external |-> "external",
             timeout |-> "timed_out", failed |-> "failed"]

Result == {"none", "raised"} \cup DOMAIN CampaignEvent
StepEnd == {"step.start_failed", "step.succeeded", "step.failed",
            "step.cancelled", "step.timed_out"}
CampaignEnd == {CampaignEvent[r] : r \in DOMAIN CampaignEvent}
EventName == {"campaign.started", "step.started", "stop_requested", "signal"}
             \cup StepEnd \cup CampaignEnd
Event == [event : EventName, step : 0..N]

TypeOK ==
    /\ pc \in Where
    /\ step \in 0..N /\ completed \in 0..N
    /\ outcome \in Outcome /\ result \in Result
    /\ cancel \in BOOLEAN /\ external \in BOOLEAN
    /\ clock \in 0..MaxTime /\ timer \in Int /\ lastCall \in -1..MaxTime
    /\ cleaned \in BOOLEAN /\ pgid \in BOOLEAN /\ seen \in BOOLEAN
    /\ after \in {"stream", "conclude", "returned"}
    /\ members \subseteq Proc /\ strays \subseteq Proc /\ pipes \subseteq Proc
    /\ failed \in BOOLEAN
    /\ pending \in Seq(Rollback) /\ ran \in Seq(Rollback)
    /\ log \in Seq(Event)

Init ==
    /\ pc = "start"
    /\ step = 0 /\ completed = 0
    /\ outcome = "none" /\ result = "none"
    /\ cancel = FALSE /\ external = FALSE
    /\ clock = 0 /\ timer = 0 /\ lastCall = -1
    /\ cleaned = FALSE /\ pgid = FALSE /\ after = "stream"
    /\ seen = FALSE
    /\ members = {} /\ strays = {} /\ pipes = {} /\ failed = FALSE
    /\ pending = Rollbacks /\ ran = <<>>
    /\ log = <<>>

-----------------------------------------------------------------------------
Past(t) == clock >= t \/ clock = MaxTime
Leader == <<step, "leader">>
Group == {p \in members : p[1] = step}   \* killpg(pgid, 0) finds these

Emit(e) == log' = Append(log, [event |-> e, step |-> step])

(* The stop conditions, in the order run() and _run_step test them.        *)
AdmissionStop ==
    CASE external -> "external" [] cancel -> "cancelled"
      [] Past(Duration) -> "timed_out" [] OTHER -> "none"
PaceStop ==
    CASE cancel -> "cancelled" [] external -> "external"
      [] Past(Duration) -> "timed_out" [] OTHER -> "none"
(* Mutant: the signal is only looked at between steps.                     *)
StepStopWithoutSignal ==
    CASE external -> "external" [] Past(timer) -> "timeout" [] OTHER -> "none"

StepStop ==
    CASE cancel -> "cancelled" [] external -> "external"
      [] Past(timer) -> "timeout" [] OTHER -> "none"

(* run() emits the campaign's last event and leaves through finally.       *)
End(r) ==
    /\ log' = Append(log, [event |-> CampaignEvent[r], step |-> step])
    /\ result' = r
    /\ pc' = "leave"

(* events.emit raises (disk full, closed file): so does run().             *)
Raise ==
    /\ result' = "raised"
    /\ pc' = "leave"
    /\ UNCHANGED log

-----------------------------------------------------------------------------
(* run(): admission of the next step.                                      *)

(* campaign.started is written before the try that owns the cleanup.       *)
Begin ==
    /\ pc = "start"
    /\ \/ Emit("campaign.started") /\ pc' = "next" /\ UNCHANGED result
       \/ pc' = "returned" /\ result' = "raised" /\ UNCHANGED log
    /\ UNCHANGED <<runVars, outcome, stopVars, clock, timer, cleanVars, seen,
                   procVars, undoVars>>

(* Mutant: the last step is never reached.                                 *)
AllDoneEarly ==
    /\ pc = "next" /\ step + 1 >= N
    /\ End("succeeded") \/ Raise
    /\ UNCHANGED <<runVars, outcome, stopVars, clock, timer, cleanVars, seen,
                   procVars, undoVars>>

AllDone ==
    /\ pc = "next" /\ step = N
    /\ End("succeeded") \/ Raise
    /\ UNCHANGED <<runVars, outcome, stopVars, clock, timer, cleanVars, seen,
                   procVars, undoVars>>

RefuseStep ==
    /\ pc = "next" /\ step < N
    /\ AdmissionStop # "none"
    /\ End(AdmissionStop) \/ Raise
    /\ UNCHANGED <<runVars, outcome, stopVars, clock, timer, cleanVars, seen,
                   procVars, undoVars>>

AdmitStep ==
    /\ pc = "next" /\ step < N
    /\ AdmissionStop = "none"
    /\ pc' = IF step + 1 \in Calls THEN "pace" ELSE "admit"
    /\ UNCHANGED <<runVars, outcome, result, stopVars, clock, timer, cleanVars,
                   seen, procVars, undoVars, log>>

(* The callsPerSecond wait: stop conditions are tested only while waiting. *)
Waiting == lastCall # -1 /\ clock - lastCall < Interval /\ clock < MaxTime

StopPacing ==
    /\ pc = "pace" /\ Waiting
    /\ PaceStop # "none"
    /\ End(PaceStop) \/ Raise
    /\ UNCHANGED <<runVars, outcome, stopVars, clock, timer, cleanVars, seen,
                   procVars, undoVars>>

PaceCall ==
    /\ pc = "pace" /\ ~Waiting
    /\ lastCall' = clock
    /\ pc' = "admit"
    /\ UNCHANGED <<step, completed, outcome, result, stopVars, clock, timer,
                   cleanVars, seen, procVars, undoVars, log>>

-----------------------------------------------------------------------------
(* _run_step.                                                              *)

StartStep ==
    /\ pc = "admit"
    /\ step' = step + 1
    /\ cleaned' = FALSE
    /\ \/ /\ log' = Append(log, [event |-> "step.started", step |-> step + 1])
          /\ pc' = "prepare" /\ UNCHANGED result
       \/ Raise
    /\ UNCHANGED <<completed, lastCall, outcome, stopVars, clock, timer, pgid,
                   after, seen, procVars, undoVars>>

(* The runner's input cannot be built or Popen fails.                      *)
SpawnFails ==
    /\ pc = "prepare"
    /\ \/ /\ Emit("step.start_failed") /\ outcome' = "failed"
          /\ pc' = "report" /\ UNCHANGED result
       \/ Raise /\ UNCHANGED outcome
    /\ UNCHANGED <<runVars, stopVars, clock, timer, cleanVars, seen, procVars,
                   undoVars>>

Min2(a, b) == IF a < b THEN a ELSE b

Spawn ==
    /\ pc = "prepare"
    /\ members' = members \cup {Leader}
    /\ pipes' = pipes \cup {Leader}
    /\ failed' = FALSE
    /\ pgid' = TRUE
    /\ seen' = FALSE
    /\ outcome' = "none"
    /\ timer' = Min2(Duration, clock + Budget[step])
    /\ pc' = "stream"
    /\ UNCHANGED <<runVars, result, stopVars, clock, cleaned, after, strays,
                   undoVars, log>>

LeaderDead == Leader \notin members
StopDue == outcome = "none" /\ StepStop # "none"

(* One turn of the loop that finds both streams at their end.              *)
Poll ==
    /\ pc = "stream" /\ ~seen
    /\ ~StopDue
    /\ pipes \cap ({step} \X ({"leader"} \cup Helper)) = {}
    /\ seen' = TRUE
    /\ UNCHANGED <<pc, runVars, outcome, result, stopVars, clock, timer,
                   cleanVars, procVars, undoVars, log>>

(* A turn that finds a stop condition: announce it, then cleanup().        *)
StopStep ==
    /\ pc = "stream" /\ ~(seen /\ LeaderDead)
    /\ StopDue
    /\ outcome' = StepStop
    /\ \/ /\ Emit("stop_requested") /\ UNCHANGED result
          /\ cleaned' = TRUE /\ after' = "stream" /\ pc' = "terminate"
       \/ Raise /\ UNCHANGED <<cleaned, after>>
    /\ UNCHANGED <<runVars, stopVars, clock, timer, pgid, seen, procVars, undoVars>>

(* Mutant: a dead leader is taken for an empty group.                      *)
StreamDoneTrustingLeader ==
    /\ pc = "stream" /\ seen /\ LeaderDead
    /\ pc' = "conclude" /\ pgid' = FALSE
    /\ UNCHANGED <<runVars, outcome, result, stopVars, clock, timer, cleaned,
                   after, seen, procVars, undoVars, log>>

(* The loop ends: _terminate_group before the step's outcome is emitted.   *)
StreamDone ==
    /\ pc = "stream" /\ seen /\ LeaderDead
    /\ after' = "conclude" /\ pc' = "terminate"
    /\ UNCHANGED <<runVars, outcome, result, stopVars, clock, timer, cleaned,
                   pgid, seen, procVars, undoVars, log>>

(* Mutant: the exit status alone decides.                                  *)
FinalOutcomeOfStatus == IF failed THEN "failed" ELSE "none"

FinalOutcome ==
    IF outcome = "none" /\ failed THEN "failed" ELSE outcome

Conclude ==
    /\ pc = "conclude"
    /\ outcome' = FinalOutcome
    /\ \/ /\ outcome' # "none"
          /\ Emit(StepEvent[outcome']) /\ pc' = "report"
          /\ UNCHANGED <<completed, result>>
       \/ /\ outcome' = "none"
          /\ Emit("step.succeeded") /\ pc' = "next"
          /\ completed' = completed + 1 /\ UNCHANGED result
       \/ Raise /\ UNCHANGED completed
    /\ UNCHANGED <<step, lastCall, stopVars, clock, timer, cleanVars, seen,
                   procVars, undoVars>>

(* run() turns an unsuccessful outcome into the campaign's.                *)
Report ==
    /\ pc = "report"
    /\ End(ResultOf[outcome]) \/ Raise
    /\ UNCHANGED <<runVars, outcome, stopVars, clock, timer, cleanVars, seen,
                   procVars, undoVars>>

-----------------------------------------------------------------------------
(* _terminate_group: TERM, a grace period, KILL, and a last bounded wait.  *)

(* Where cleanup() and the end of _run_step continue once it returns.      *)
Done ==
    IF after = "conclude" THEN pc' = "conclude" /\ pgid' = FALSE
                          ELSE pc' = "undo" /\ UNCHANGED pgid

Terminate ==
    /\ pc = "terminate"
    /\ \/ Group = {} /\ Done /\ UNCHANGED timer
       \/ Group # {} /\ pc' = "term" /\ timer' = clock + Grace /\ UNCHANGED pgid
    /\ UNCHANGED <<runVars, outcome, result, stopVars, clock, cleaned, after, seen,
                   procVars, undoVars, log>>

Terminated ==
    /\ pc = "term" /\ Group = {}
    /\ Done
    /\ UNCHANGED <<runVars, outcome, result, stopVars, clock, timer, cleaned, after,
                   seen, procVars, undoVars, log>>

(* Mutant: stragglers are not killed.                                      *)
KillNothing ==
    /\ pc = "term" /\ Group # {} /\ Past(timer)
    /\ timer' = clock + Grace
    /\ pc' = "kill"
    /\ UNCHANGED <<runVars, outcome, result, stopVars, clock, cleanVars, seen,
                   procVars, undoVars, log>>

Kill ==
    LET killed == {p \in Group : p[2] \notin Unkillable}
    IN  /\ pc = "term" /\ Group # {} /\ Past(timer)
        /\ members' = members \ killed
        /\ pipes' = pipes \ killed
        /\ failed' = (failed \/ Leader \in killed)
        /\ timer' = clock + Grace
        /\ pc' = "kill"
        /\ UNCHANGED <<runVars, outcome, result, stopVars, clock, cleanVars, seen,
                       strays, undoVars, log>>

Killed ==
    /\ pc = "kill" /\ (Group = {} \/ Past(timer))
    /\ Done
    /\ UNCHANGED <<runVars, outcome, result, stopVars, clock, timer, cleaned, after,
                   seen, procVars, undoVars, log>>

(* cleanup() pops the registry; a rollback that raises is ignored.         *)
Undo ==
    /\ pc = "undo"
    /\ \/ /\ pending = <<>> /\ pc' = after /\ UNCHANGED undoVars
       \/ /\ pending # <<>>
          /\ ran' = Append(ran, pending[Len(pending)])
          /\ pending' = SubSeq(pending, 1, Len(pending) - 1)
          /\ UNCHANGED pc
    /\ UNCHANGED <<runVars, outcome, result, stopVars, clock, timer, cleanVars,
                   seen, procVars, log>>

(* The finally of run(): cleanup(), a no-op if the step already ran it.    *)
Leave ==
    /\ pc = "leave"
    /\ IF cleaned
       THEN pc' = "returned" /\ UNCHANGED <<cleaned, after>>
       ELSE /\ cleaned' = TRUE /\ after' = "returned"
            /\ pc' = IF pgid THEN "terminate" ELSE "undo"
    /\ UNCHANGED <<runVars, outcome, result, stopVars, clock, timer, pgid, seen,
                   procVars, undoVars, log>>

-----------------------------------------------------------------------------
(* The environment.                                                        *)

(* request_cancel keeps the first signal only.                             *)
Signal ==
    /\ pc # "returned" /\ ~cancel
    /\ cancel' = TRUE
    /\ Emit("signal")
    /\ UNCHANGED <<pc, runVars, outcome, result, external, clock, timer, cleanVars,
                   seen, procVars, undoVars>>

ExternalStop ==
    /\ pc # "returned" /\ ~external
    /\ external' = TRUE
    /\ UNCHANGED <<pc, runVars, outcome, result, cancel, clock, timer, cleanVars,
                   seen, procVars, undoVars, log>>

Tick ==
    /\ clock < MaxTime
    /\ clock' = clock + 1
    /\ UNCHANGED <<pc, runVars, outcome, result, stopVars, timer, cleanVars, seen,
                   procVars, undoVars, log>>

EnvUnchanged ==
    UNCHANGED <<pc, runVars, outcome, result, stopVars, clock, timer, cleanVars,
                seen, undoVars, log>>

(* The child joins its parent's group and inherits its streams.            *)
Fork(p, h) ==
    LET child == <<p[1], h>>
    IN  /\ p \in members /\ p[2] \notin Unkillable
        /\ child \notin members \cup strays
        /\ members' = members \cup {child}
        /\ pipes' = IF p \in pipes THEN pipes \cup {child} ELSE pipes
        /\ UNCHANGED <<strays, failed>>
        /\ EnvUnchanged

Detach(p) ==
    /\ p \in members /\ p[2] \in Detaches
    /\ members' = members \ {p}
    /\ strays' = strays \cup {p}
    /\ UNCHANGED <<pipes, failed>>
    /\ EnvUnchanged

ClosePipes(p) ==
    /\ p \in pipes
    /\ pipes' = pipes \ {p}
    /\ UNCHANGED <<members, strays, failed>>
    /\ EnvUnchanged

Exit(p) ==
    /\ p \in members \cup strays
    /\ members' = members \ {p} /\ strays' = strays \ {p} /\ pipes' = pipes \ {p}
    /\ IF p[2] = "leader" THEN failed' \in BOOLEAN ELSE UNCHANGED failed
    /\ EnvUnchanged

Supervise ==
    \/ Begin \/ AllDone \/ RefuseStep \/ AdmitStep \/ StopPacing \/ PaceCall
    \/ StartStep \/ SpawnFails \/ Spawn \/ Poll \/ StopStep \/ StreamDone
    \/ Conclude \/ Report \/ Terminate \/ Terminated \/ Kill \/ Killed \/ Undo \/ Leave

Environment ==
    \/ Signal \/ ExternalStop \/ Tick
    \/ \E p \in Proc : \/ Detach(p) \/ ClosePipes(p) \/ Exit(p)
                       \/ \E h \in Helper : Fork(p, h)

Next == Supervise \/ Environment

Spec == Init /\ [][Next]_vars

(* The supervisor's thread is scheduled and time passes; no process of a   *)
(* step ever has to exit or to close its streams by itself.                *)
FairSpec == Spec /\ WF_vars(Supervise) /\ WF_vars(Tick)

-----------------------------------------------------------------------------
(* Properties.  Those about process groups suppose that SIGKILL works      *)
(* (Unkillable = {}).                                                      *)

(* finally: cleanup().  However run() ends, by return or by exception, no  *)
(* process is left in a group it started.                                  *)
NothingSurvives == pc = "returned" => members = {}

(* docs/CAMPAIGN-MANIFEST.md: "A successful leader is not enough: its      *)
(* complete process group is confirmed empty before the next step starts". *)
OneGroupAtATime ==
    /\ \A p \in members : p[1] = step
    /\ pc \in {"next", "pace", "admit", "prepare"} => members = {}

(* No process of a step is beside another step, nor left behind by run().  *)
StepsAreAlone == NothingSurvives /\ OneGroupAtATime

(* "SIGINT and SIGTERM stop new steps immediately": a signal that arrives  *)
(* after the checks of run() lets at most one step start, and that step    *)
(* cannot succeed, because the loop of _run_step tests the signal before   *)
(* it first looks at the streams.                                          *)
NoStepSucceedsAfterSignal ==
    \A i, j \in DOMAIN log :
        /\ i < j /\ log[i].event = "signal" /\ log[j].event = "step.started"
        => \A k \in j+1..Len(log) :
              log[k].event \notin {"step.started", "step.succeeded"}

(* The event stream tells the run: each started step is closed by one      *)
(* event, only a success lets another start, nothing but the campaign's    *)
(* end follows a failure and nothing follows that end.                     *)
Told == {i \in DOMAIN log : log[i].event # "signal"}
Follows(j, i) == j > i /\ \A k \in Told : k <= i \/ k >= j   \* j is next to i
LastIs(names) == \E i \in Told : log[i].event \in names /\ \A k \in Told : k <= i

MayFollow(is, was) ==
    \/ was \in {"campaign.started", "step.succeeded"}
          /\ is \in {"step.started"} \cup CampaignEnd
    \/ was = "step.started" /\ is \in {"stop_requested"} \cup StepEnd
    \/ was = "stop_requested"
          /\ is \in {"step.cancelled", "step.timed_out", "step.failed"}
    \/ was \in StepEnd \ {"step.succeeded"} /\ is \in CampaignEnd \ {"campaign.succeeded"}

EventsTellTheRun ==
    /\ \A i, j \in Told : Follows(j, i) => MayFollow(log[j].event, log[i].event)
    /\ pc = "returned" /\ result # "raised" => LastIs({CampaignEvent[result]})
    /\ completed = Cardinality({i \in Told : log[i].event = "step.succeeded"})

(* cleanup(): the rollbacks run once each, last registered first, after    *)
(* the step's group is gone, and all of them whenever a campaign that      *)
(* announced its start is over.                                            *)
RollbacksUndoInReverse ==
    /\ Len(pending) + Len(ran) = Len(Rollbacks)
    /\ \A i \in DOMAIN pending : pending[i] = Rollbacks[i]
    /\ \A i \in DOMAIN ran : ran[i] = Rollbacks[Len(Rollbacks) + 1 - i]
    /\ pc = "undo" => members = {}
    /\ pc = "returned" /\ Told # {} => pending = <<>>

(* What a signal or a failure stops stays stopped, and what was done is     *)
(* undone: no later success, and every rollback, last first.                *)
StopsAreOrderly == NoStepSucceedsAfterSignal /\ RollbacksUndoInReverse

(* The inductive invariant behind the group properties and the refinement. *)
Idle == {"start", "next", "pace", "admit", "prepare"}
InStep(p) ==
    \/ p \in {"prepare", "stream", "conclude"}
    \/ p \in {"terminate", "term", "kill", "undo"} /\ after # "returned"

PhaseInv ==
    /\ completed <= step
    /\ pc = "start" => step = 0
    /\ pc \in {"start", "next", "pace", "admit"} => completed = step
    /\ pc \in {"pace", "admit"} => step < N
    /\ InStep(pc) => completed + 1 = step
    /\ pc = "report" => outcome # "none"
    /\ (pc = "returned") \/ (pc = "leave")
         \/ (pc \in {"terminate", "term", "kill", "undo"} /\ after = "returned")
         <=> result # "none"
    /\ result = "succeeded" => completed = N
    /\ pc = "leave" /\ result = "succeeded" => members = {}

GroupInv ==
    /\ \A p \in members : p[1] = step
    /\ pc \in Idle \cup {"conclude", "report", "undo", "returned", "kill"}
          => members = {}
    /\ pc \in {"stream", "terminate", "term", "kill"} => pgid
    /\ pc = "undo" /\ after # "returned" => pgid
    /\ ~pgid => members = {}
    /\ pc = "prepare" \/ (pc = "stream" /\ outcome = "none") => ~cleaned
    /\ pc = "leave" /\ cleaned => members = {}
    /\ pc = "undo" => after \in {"stream", "returned"}
    /\ pc \in {"terminate", "term", "kill", "undo"} /\ after = "stream"
          => outcome # "none"

IInv == TypeOK /\ PhaseInv /\ GroupInv

(* The abstract campaign.                                                  *)
Abstract == INSTANCE Campaign WITH
    started <- step,
    live <- Group # {},
    verdict <- IF pc = "returned" THEN result ELSE "none"
ImplementsCampaign == Abstract!CampaignSpec

(* "The smaller of the step budget and remaining global duration is a hard *)
(* deadline": whatever the runner and its helpers do, the campaign ends.   *)
CampaignEnds == <>(pc = "returned")

(* What does hold: the campaign ends, or a helper that left the process    *)
(* group holds the output pipes of its step for ever.                      *)
EndsUnlessHeld == CampaignEnds \/ <>[](pc = "stream" /\ pipes \cap strays # {})
=============================================================================
