---------------------- MODULE CampaignSupervisorProofs ----------------------
(***************************************************************************)
(* Proofs about CampaignSupervisor, for every plan, every set of helpers   *)
(* and every schedule, where SIGKILL works (Unkillable = {}).              *)
(***************************************************************************)
EXTENDS CampaignSupervisor, FiniteSetTheorems, TLAPS

(* What the stop conditions and the event tables can yield.                *)
LEMMA StopValues ==
    /\ AdmissionStop \in {"external", "cancelled", "timed_out", "none"}
    /\ PaceStop \in {"external", "cancelled", "timed_out", "none"}
    /\ StepStop \in {"external", "cancelled", "timeout", "none"}
BY DEF AdmissionStop, PaceStop, StepStop

LEMMA EventNames ==
    /\ \A r \in {"succeeded", "failed", "cancelled", "timed_out", "external"} :
          CampaignEvent[r] \in EventName /\ r \in Result
    /\ \A o \in Outcome \ {"none"} :
          /\ StepEvent[o] \in EventName
          /\ ResultOf[o] \in {"failed", "cancelled", "timed_out", "external"}
BY DEF CampaignEvent, StepEvent, ResultOf, Outcome, EventName, CampaignEnd, StepEnd,
       Result

(* The log stays a sequence of events.                                     *)
LEMMA LogGrows ==
    ASSUME TypeOK, NEW e \in EventName, NEW n \in 0..N
    PROVE  Append(log, [event |-> e, step |-> n]) \in Seq(Event)
BY DEF TypeOK, Event

LEMMA EndLogs ==
    ASSUME TypeOK, NEW r \in {"succeeded", "failed", "cancelled", "timed_out", "external"},
           End(r) \/ Raise
    PROVE  /\ log' \in Seq(Event)
           /\ pc' = "leave"
           /\ result' \in {r, "raised"}
<1>1. CASE End(r)
  <2>1. CampaignEvent[r] \in EventName
    BY EventNames
  <2> QED
    BY <1>1, <2>1, LogGrows DEF End, TypeOK
<1>2. CASE Raise
  BY <1>2 DEF Raise, TypeOK
<1> QED
  BY <1>1, <1>2

(* With every member in the current step, the group is all there is.       *)
LEMMA GroupIsAll ==
    ASSUME GroupInv PROVE Group = members
BY DEF GroupInv, Group

(* A supervisor that has not started satisfies the invariant.              *)
THEOREM InitInv == Init => IInv
<1> SUFFICES ASSUME Init PROVE IInv
  OBVIOUS
<1>1. TypeOK
  <2>1. <<>> \in Seq(Event) /\ <<>> \in Seq(Rollback) /\ Rollbacks \in Seq(Rollback)
    BY CampaignAssumption
  <2>2. 0 \in 0..N /\ 0 \in 0..MaxTime /\ -1 \in -1..MaxTime /\ 0 \in Int
    BY CampaignAssumption
  <2> QED
    BY <2>1, <2>2 DEF Init, TypeOK, Where, Outcome, Result
<1>2. PhaseInv /\ GroupInv
  BY CampaignAssumption DEF Init, PhaseInv, GroupInv, InStep, Idle
<1> QED
  BY <1>1, <1>2 DEF IInv

LEMMA LeaderIsProc ==
    ASSUME TypeOK, PhaseInv, InStep(pc)
    PROVE  Leader \in Proc
BY CampaignAssumption DEF TypeOK, PhaseInv, Leader, Proc

LEMMA PendingShrinks ==
    ASSUME TypeOK, pending # <<>>
    PROVE  /\ SubSeq(pending, 1, Len(pending) - 1) \in Seq(Rollback)
           /\ Append(ran, pending[Len(pending)]) \in Seq(Rollback)
BY DEF TypeOK

LEMMA AdmitStepKeeps ==
    ASSUME IInv, Unkillable = {}, AdmitStep
    PROVE  IInv'
<1> USE DEF IInv, AdmitStep, runVars, stopVars, cleanVars, procVars, undoVars
<1>1. TypeOK'
  BY CampaignAssumption DEF TypeOK, Where, InStep, PhaseInv
<1>2. PhaseInv'
  BY CampaignAssumption DEF TypeOK, PhaseInv, InStep, GroupInv
<1>3. GroupInv'
  BY GroupIsAll DEF TypeOK, PhaseInv, GroupInv, InStep, Idle
<1> QED
  BY <1>1, <1>2, <1>3

LEMMA PaceCallKeeps ==
    ASSUME IInv, Unkillable = {}, PaceCall
    PROVE  IInv'
<1> USE DEF IInv, PaceCall, runVars, stopVars, cleanVars, procVars, undoVars, Waiting
<1>1. TypeOK'
  BY CampaignAssumption DEF TypeOK, Where, InStep, PhaseInv
<1>2. PhaseInv'
  BY CampaignAssumption DEF TypeOK, PhaseInv, InStep, GroupInv
<1>3. GroupInv'
  BY GroupIsAll DEF TypeOK, PhaseInv, GroupInv, InStep, Idle
<1> QED
  BY <1>1, <1>2, <1>3

LEMMA SpawnKeeps ==
    ASSUME IInv, Unkillable = {}, Spawn
    PROVE  IInv'
<1> USE DEF IInv, Spawn, runVars, stopVars, cleanVars, procVars, undoVars, Min2, Leader
<1>1. TypeOK'
  <2>1. step \in 1..N /\ Budget[step] \in Nat /\ Leader \in Proc
    BY CampaignAssumption, LeaderIsProc DEF TypeOK, PhaseInv, InStep
  <2>2. timer' \in Int
    BY <2>1, CampaignAssumption DEF TypeOK
  <2>3. members' \subseteq Proc /\ pipes' \subseteq Proc
    BY <2>1 DEF TypeOK
  <2> QED
    BY <2>2, <2>3 DEF TypeOK, Where, Outcome
<1>2. PhaseInv'
  BY CampaignAssumption, LeaderIsProc, CampaignAssumption DEF TypeOK, PhaseInv, InStep, GroupInv
<1>3. GroupInv'
  BY GroupIsAll DEF TypeOK, PhaseInv, GroupInv, InStep, Idle
<1> QED
  BY <1>1, <1>2, <1>3

LEMMA PollKeeps ==
    ASSUME IInv, Unkillable = {}, Poll
    PROVE  IInv'
<1> USE DEF IInv, Poll, runVars, stopVars, cleanVars, procVars, undoVars
<1>1. TypeOK'
  BY CampaignAssumption DEF TypeOK, Where, InStep, PhaseInv
<1>2. PhaseInv'
  BY CampaignAssumption DEF TypeOK, PhaseInv, InStep, GroupInv
<1>3. GroupInv'
  BY GroupIsAll DEF TypeOK, PhaseInv, GroupInv, InStep, Idle
<1> QED
  BY <1>1, <1>2, <1>3

LEMMA StreamDoneKeeps ==
    ASSUME IInv, Unkillable = {}, StreamDone
    PROVE  IInv'
<1> USE DEF IInv, StreamDone, runVars, stopVars, cleanVars, procVars, undoVars
<1>1. TypeOK'
  BY CampaignAssumption DEF TypeOK, Where, InStep, PhaseInv
<1>2. PhaseInv'
  BY CampaignAssumption DEF TypeOK, PhaseInv, InStep, GroupInv
<1>3. GroupInv'
  BY GroupIsAll DEF TypeOK, PhaseInv, GroupInv, InStep, Idle
<1> QED
  BY <1>1, <1>2, <1>3

LEMMA TerminateKeeps ==
    ASSUME IInv, Unkillable = {}, Terminate
    PROVE  IInv'
<1> USE DEF IInv, Terminate, runVars, stopVars, cleanVars, procVars, undoVars, Done
<1>1. TypeOK'
  <2>1. timer' \in Int
    BY CampaignAssumption DEF TypeOK
  <2>2. pc' \in Where /\ pgid' \in BOOLEAN
    BY DEF TypeOK, Where
  <2> QED
    BY <2>1, <2>2 DEF TypeOK
<1>2. PhaseInv'
  BY CampaignAssumption, CampaignAssumption DEF TypeOK, PhaseInv, InStep, GroupInv
<1>3. GroupInv'
  BY GroupIsAll DEF TypeOK, PhaseInv, GroupInv, InStep, Idle
<1> QED
  BY <1>1, <1>2, <1>3

LEMMA TerminatedKeeps ==
    ASSUME IInv, Unkillable = {}, Terminated
    PROVE  IInv'
<1> USE DEF IInv, Terminated, runVars, stopVars, cleanVars, procVars, undoVars, Done
<1>1. TypeOK'
  BY CampaignAssumption DEF TypeOK, Where, InStep, PhaseInv
<1>2. PhaseInv'
  BY CampaignAssumption DEF TypeOK, PhaseInv, InStep, GroupInv
<1>3. GroupInv'
  BY GroupIsAll DEF TypeOK, PhaseInv, GroupInv, InStep, Idle
<1> QED
  BY <1>1, <1>2, <1>3

LEMMA KillKeeps ==
    ASSUME IInv, Unkillable = {}, Kill
    PROVE  IInv'
<1> USE DEF IInv, Kill, runVars, stopVars, cleanVars, procVars, undoVars, Done, Leader
<1>1. TypeOK'
  BY CampaignAssumption, CampaignAssumption DEF TypeOK, Where, InStep, PhaseInv
<1>2. PhaseInv'
  BY CampaignAssumption, CampaignAssumption DEF TypeOK, PhaseInv, InStep, GroupInv
<1>3. GroupInv'
  BY GroupIsAll DEF TypeOK, PhaseInv, GroupInv, InStep, Idle
<1> QED
  BY <1>1, <1>2, <1>3

LEMMA KilledKeeps ==
    ASSUME IInv, Unkillable = {}, Killed
    PROVE  IInv'
<1> USE DEF IInv, Killed, runVars, stopVars, cleanVars, procVars, undoVars, Done
<1>1. TypeOK'
  BY CampaignAssumption DEF TypeOK, Where, InStep, PhaseInv
<1>2. PhaseInv'
  BY CampaignAssumption DEF TypeOK, PhaseInv, InStep, GroupInv
<1>3. GroupInv'
  BY GroupIsAll DEF TypeOK, PhaseInv, GroupInv, InStep, Idle
<1> QED
  BY <1>1, <1>2, <1>3

LEMMA UndoKeeps ==
    ASSUME IInv, Unkillable = {}, Undo
    PROVE  IInv'
<1> USE DEF IInv, Undo, runVars, stopVars, cleanVars, procVars, undoVars, Idle
<1>1. TypeOK'
  BY PendingShrinks, CampaignAssumption DEF TypeOK, Where, InStep, PhaseInv
<1>2. PhaseInv'
  BY PendingShrinks, CampaignAssumption DEF TypeOK, PhaseInv, InStep, GroupInv
<1>3. GroupInv'
  BY GroupIsAll DEF TypeOK, PhaseInv, GroupInv, InStep, Idle
<1> QED
  BY <1>1, <1>2, <1>3

LEMMA LeaveKeeps ==
    ASSUME IInv, Unkillable = {}, Leave
    PROVE  IInv'
<1> USE DEF IInv, Leave, runVars, stopVars, cleanVars, procVars, undoVars
<1>1. TypeOK'
  BY CampaignAssumption DEF TypeOK, Where, InStep, PhaseInv
<1>2. PhaseInv'
  BY CampaignAssumption DEF TypeOK, PhaseInv, InStep, GroupInv
<1>3. GroupInv'
  BY GroupIsAll DEF TypeOK, PhaseInv, GroupInv, InStep, Idle
<1> QED
  BY <1>1, <1>2, <1>3

LEMMA ExternalStopKeeps ==
    ASSUME IInv, Unkillable = {}, ExternalStop
    PROVE  IInv'
<1> USE DEF IInv, ExternalStop, runVars, stopVars, cleanVars, procVars, undoVars
<1>1. TypeOK'
  BY CampaignAssumption DEF TypeOK, Where, InStep, PhaseInv
<1>2. PhaseInv'
  BY CampaignAssumption DEF TypeOK, PhaseInv, InStep, GroupInv
<1>3. GroupInv'
  BY GroupIsAll DEF TypeOK, PhaseInv, GroupInv, InStep, Idle
<1> QED
  BY <1>1, <1>2, <1>3

LEMMA TickKeeps ==
    ASSUME IInv, Unkillable = {}, Tick
    PROVE  IInv'
<1> USE DEF IInv, Tick, runVars, stopVars, cleanVars, procVars, undoVars
<1>1. TypeOK'
  BY CampaignAssumption, CampaignAssumption DEF TypeOK, Where, InStep, PhaseInv
<1>2. PhaseInv'
  BY CampaignAssumption, CampaignAssumption DEF TypeOK, PhaseInv, InStep, GroupInv
<1>3. GroupInv'
  BY GroupIsAll DEF TypeOK, PhaseInv, GroupInv, InStep, Idle
<1> QED
  BY <1>1, <1>2, <1>3

LEMMA AllDoneKeeps ==
    ASSUME IInv, AllDone
    PROVE  IInv'
<1> USE DEF IInv, runVars, stopVars, cleanVars, procVars, undoVars
<1>1. "succeeded" \in {"succeeded", "failed", "cancelled", "timed_out", "external"}
  OBVIOUS
<1>2. /\ log' \in Seq(Event) /\ pc' = "leave" /\ result' \in {"succeeded", "raised"}
  BY <1>1, EndLogs DEF AllDone
<1>3. TypeOK'
  BY <1>1, <1>2 DEF AllDone, TypeOK, Where, Result, CampaignEvent
<1>4. PhaseInv' /\ GroupInv'
  BY <1>1, <1>2, StopValues, EventNames DEF AllDone, TypeOK, PhaseInv, GroupInv, Idle, InStep
<1> QED
  BY <1>3, <1>4

LEMMA RefuseStepKeeps ==
    ASSUME IInv, RefuseStep
    PROVE  IInv'
<1> USE DEF IInv, runVars, stopVars, cleanVars, procVars, undoVars
<1>1. AdmissionStop \in {"succeeded", "failed", "cancelled", "timed_out", "external"}
  BY StopValues DEF RefuseStep
<1>2. /\ log' \in Seq(Event) /\ pc' = "leave" /\ result' \in {AdmissionStop, "raised"}
  BY <1>1, EndLogs DEF RefuseStep
<1>3. TypeOK'
  BY <1>1, <1>2 DEF RefuseStep, TypeOK, Where, Result, CampaignEvent
<1>4. PhaseInv' /\ GroupInv'
  BY <1>1, <1>2, StopValues, EventNames DEF RefuseStep, TypeOK, PhaseInv, GroupInv, Idle, InStep
<1> QED
  BY <1>3, <1>4

LEMMA StopPacingKeeps ==
    ASSUME IInv, StopPacing
    PROVE  IInv'
<1> USE DEF IInv, runVars, stopVars, cleanVars, procVars, undoVars
<1>1. PaceStop \in {"succeeded", "failed", "cancelled", "timed_out", "external"}
  BY StopValues DEF StopPacing
<1>2. /\ log' \in Seq(Event) /\ pc' = "leave" /\ result' \in {PaceStop, "raised"}
  BY <1>1, EndLogs DEF StopPacing
<1>3. TypeOK'
  BY <1>1, <1>2 DEF StopPacing, TypeOK, Where, Result, CampaignEvent
<1>4. PhaseInv' /\ GroupInv'
  BY <1>1, <1>2, StopValues, EventNames DEF StopPacing, TypeOK, PhaseInv, GroupInv, Idle, InStep
<1> QED
  BY <1>3, <1>4

LEMMA ReportKeeps ==
    ASSUME IInv, Report
    PROVE  IInv'
<1> USE DEF IInv, runVars, stopVars, cleanVars, procVars, undoVars
<1>1. ResultOf[outcome] \in {"succeeded", "failed", "cancelled", "timed_out", "external"}
  BY EventNames DEF Report, IInv, TypeOK, PhaseInv
<1>2. /\ log' \in Seq(Event) /\ pc' = "leave" /\ result' \in {ResultOf[outcome], "raised"}
  BY <1>1, EndLogs DEF Report
<1>3. TypeOK'
  BY <1>1, <1>2 DEF Report, TypeOK, Where, Result, CampaignEvent
<1>4. PhaseInv' /\ GroupInv'
  BY <1>1, <1>2, StopValues, EventNames DEF Report, TypeOK, PhaseInv, GroupInv, Idle, InStep
<1> QED
  BY <1>3, <1>4

LEMMA BeginKeeps ==
    ASSUME IInv, Begin
    PROVE  IInv'
<1> USE DEF IInv, Begin, Emit, runVars, stopVars, cleanVars, procVars, undoVars
<1>1. Append(log, [event |-> "campaign.started", step |-> step]) \in Seq(Event)
  <2>1. step \in 0..N /\ "campaign.started" \in EventName
    BY CampaignAssumption DEF TypeOK, PhaseInv, EventName, StepEnd
  <2> QED
    BY <2>1, LogGrows
<1>2. log' \in Seq(Event)
  BY <1>1 DEF TypeOK
<1>3. TypeOK'
  BY <1>2, CampaignAssumption, StopValues DEF TypeOK, PhaseInv, Where, Result, Outcome
<1>4. PhaseInv' /\ GroupInv'
  BY CampaignAssumption, StopValues DEF TypeOK, PhaseInv, GroupInv, Idle, InStep
<1> QED
  BY <1>3, <1>4

LEMMA StartStepKeeps ==
    ASSUME IInv, StartStep
    PROVE  IInv'
<1> USE DEF IInv, StartStep, Raise, Emit, runVars, stopVars, cleanVars, procVars, undoVars
<1>1. Append(log, [event |-> "step.started", step |-> step + 1]) \in Seq(Event)
  <2>1. step + 1 \in 0..N /\ "step.started" \in EventName
    BY CampaignAssumption DEF TypeOK, PhaseInv, EventName, StepEnd
  <2> QED
    BY <2>1, LogGrows
<1>2. log' \in Seq(Event)
  BY <1>1 DEF TypeOK
<1>3. TypeOK'
  <2>1. step' \in 0..N
    BY CampaignAssumption DEF TypeOK, PhaseInv
  <2> QED
    BY <1>2, <2>1 DEF TypeOK, Where, Result
<1>4. PhaseInv' /\ GroupInv'
  BY CampaignAssumption, StopValues DEF TypeOK, PhaseInv, GroupInv, Idle, InStep
<1> QED
  BY <1>3, <1>4

LEMMA SpawnFailsKeeps ==
    ASSUME IInv, SpawnFails
    PROVE  IInv'
<1> USE DEF IInv, SpawnFails, Raise, Emit, runVars, stopVars, cleanVars, procVars, undoVars
<1>1. Append(log, [event |-> "step.start_failed", step |-> step]) \in Seq(Event)
  <2>1. step \in 0..N /\ "step.start_failed" \in EventName
    BY CampaignAssumption DEF TypeOK, PhaseInv, EventName, StepEnd
  <2> QED
    BY <2>1, LogGrows
<1>2. log' \in Seq(Event)
  BY <1>1 DEF TypeOK
<1>3. TypeOK'
  BY <1>2, CampaignAssumption, StopValues DEF TypeOK, PhaseInv, Where, Result, Outcome
<1>4. PhaseInv' /\ GroupInv'
  BY CampaignAssumption, StopValues DEF TypeOK, PhaseInv, GroupInv, Idle, InStep
<1> QED
  BY <1>3, <1>4

LEMMA StopStepKeeps ==
    ASSUME IInv, StopStep
    PROVE  IInv'
<1> USE DEF IInv, StopStep, Raise, Emit, runVars, stopVars, cleanVars, procVars, undoVars
<1>1. Append(log, [event |-> "stop_requested", step |-> step]) \in Seq(Event)
  <2>1. step \in 0..N /\ "stop_requested" \in EventName
    BY CampaignAssumption DEF TypeOK, PhaseInv, EventName, StepEnd
  <2> QED
    BY <2>1, LogGrows
<1>2. log' \in Seq(Event)
  BY <1>1 DEF TypeOK
<1>3. TypeOK'
  BY <1>2, CampaignAssumption, StopValues, ZenonT(60) DEF TypeOK, PhaseInv, Where, Result, Outcome
<1>4. StepStop # "none" /\ pc = "stream" /\ outcome = "none"
  BY DEF StopDue
<1>5. PhaseInv'
  BY <1>4 DEF TypeOK, PhaseInv, InStep
<1>6. GroupInv'
  BY <1>4 DEF TypeOK, GroupInv, Idle
<1> QED
  BY <1>3, <1>5, <1>6

LEMMA SignalKeeps ==
    ASSUME IInv, Signal
    PROVE  IInv'
<1> USE DEF IInv, Signal, Emit, runVars, stopVars, cleanVars, procVars, undoVars
<1>1. Append(log, [event |-> "signal", step |-> step]) \in Seq(Event)
  <2>1. step \in 0..N /\ "signal" \in EventName
    BY CampaignAssumption DEF TypeOK, PhaseInv, EventName, StepEnd
  <2> QED
    BY <2>1, LogGrows
<1>2. log' \in Seq(Event)
  BY <1>1 DEF TypeOK
<1>3. TypeOK'
  BY <1>2, CampaignAssumption, StopValues DEF TypeOK, PhaseInv, Where, Result, Outcome
<1>4. PhaseInv' /\ GroupInv'
  BY CampaignAssumption, StopValues DEF TypeOK, PhaseInv, GroupInv, Idle, InStep
<1> QED
  BY <1>3, <1>4

LEMMA ConcludeKeeps ==
    ASSUME IInv, Conclude
    PROVE  IInv'
<1> USE DEF IInv, Conclude, Raise, Emit, runVars, stopVars, cleanVars, procVars, undoVars
<1>1. outcome' \in Outcome
  BY DEF FinalOutcome, TypeOK, Outcome
<1>2. outcome' # "none" => StepEvent[outcome'] \in EventName
  BY <1>1, EventNames
<1>3. "step.succeeded" \in EventName /\ step \in 0..N
  BY DEF EventName, StepEnd, TypeOK
<1>4. log' \in Seq(Event)
  BY <1>2, <1>3, LogGrows DEF TypeOK
<1>5. completed' \in 0..N /\ (pc' = "next" => completed' = step)
  BY DEF TypeOK, PhaseInv, InStep
<1>6. TypeOK'
  BY <1>1, <1>4, <1>5 DEF TypeOK, Where, Result
<1>7. PhaseInv'
  <2>1. completed + 1 = step /\ result = "none" /\ step' = step
    BY DEF PhaseInv, InStep, TypeOK
  <2>2. \/ pc' = "report" /\ outcome' # "none" /\ completed' = completed /\ result' = result
        \/ pc' = "next" /\ completed' = step /\ result' = result
        \/ pc' = "leave" /\ completed' = completed /\ result' = "raised"
    BY <2>1 DEF TypeOK
  <2> HIDE DEF Conclude
  <2> QED
    BY <2>1, <2>2 DEF TypeOK, PhaseInv, InStep
<1>8. GroupInv'
  BY DEF TypeOK, GroupInv, Idle
<1> QED
  BY <1>6, <1>7, <1>8

(* What the step's own processes do.                                       *)
LEMMA ProcessesKeep ==
    ASSUME IInv, NEW p \in Proc,
           Detach(p) \/ ClosePipes(p) \/ Exit(p) \/ \E h \in Helper : Fork(p, h)
    PROVE  IInv'
<1> USE DEF IInv, EnvUnchanged, runVars, stopVars, cleanVars, undoVars
<1>1. UNCHANGED <<pc, runVars, outcome, result, stopVars, clock, timer, cleanVars,
                  seen, undoVars, log>>
  BY DEF Detach, ClosePipes, Exit, Fork
<1> DEFINE Procs == /\ members' \subseteq Proc /\ strays' \subseteq Proc
                    /\ pipes' \subseteq Proc /\ failed' \in BOOLEAN
           Same == /\ members = {} => members' = {}
                   /\ \A q \in members' : q[1] = step
<1>2. Procs /\ Same
  <2>1. CASE Detach(p) \/ ClosePipes(p) \/ Exit(p)
    BY <2>1 DEF Detach, ClosePipes, Exit, TypeOK, GroupInv
  <2>2. ASSUME NEW h \in Helper, Fork(p, h) PROVE Procs /\ Same
    <3>1. <<p[1], h>> \in Proc
      BY DEF Proc
    <3> QED
      BY <2>2, <3>1, SMTT(30) DEF Fork, TypeOK, GroupInv
  <2> QED
    BY <2>1, <2>2
<1>3. TypeOK'
  BY <1>1, <1>2 DEF TypeOK
<1>4. PhaseInv' /\ GroupInv'
  BY <1>1, <1>2 DEF PhaseInv, GroupInv, InStep, Idle
<1> QED
  BY <1>3, <1>4

LEMMA StutterKeeps ==
    ASSUME IInv, UNCHANGED vars
    PROVE  IInv'
BY DEF IInv, TypeOK, PhaseInv, GroupInv, InStep, vars, runVars, stopVars, cleanVars,
       procVars, undoVars

(* IInv is inductive.                                                      *)
LEMMA NextKeeps ==
    ASSUME IInv, Unkillable = {}, [Next]_vars
    PROVE  IInv'
<1>1. CASE Supervise
  BY <1>1, BeginKeeps, AllDoneKeeps, RefuseStepKeeps, AdmitStepKeeps, StopPacingKeeps, PaceCallKeeps, StartStepKeeps, SpawnFailsKeeps, SpawnKeeps, PollKeeps, StopStepKeeps, StreamDoneKeeps, ConcludeKeeps, ReportKeeps, TerminateKeeps, TerminatedKeeps, KillKeeps, KilledKeeps, UndoKeeps, LeaveKeeps
     DEF Supervise
<1>2. CASE Environment
  BY <1>2, SignalKeeps, ExternalStopKeeps, TickKeeps, ProcessesKeep DEF Environment
<1>3. CASE UNCHANGED vars
  BY <1>3, StutterKeeps
<1> QED
  BY <1>1, <1>2, <1>3 DEF Next

(* The inductive invariant, which the three theorems after it read off.    *)
THEOREM Invariant ==
    ASSUME Unkillable = {}
    PROVE  Spec => []IInv
<1>1. IInv /\ [Next]_vars => IInv'
  BY NextKeeps
<1> QED
  BY InitInv, <1>1, PTL DEF Spec

(* runtime.py's state has its types throughout a run.                      *)
THEOREM TypeCorrect ==
    ASSUME Unkillable = {}
    PROVE  Spec => []TypeOK
<1>1. IInv => TypeOK
  BY DEF IInv
<1> QED
  BY <1>1, Invariant, PTL

(* However run() ends, the process groups it started are empty.            *)
THEOREM NoSurvivors ==
    ASSUME Unkillable = {}
    PROVE  Spec => []NothingSurvives
<1>1. IInv => NothingSurvives
  BY DEF IInv, GroupInv, NothingSurvives
<1> QED
  BY <1>1, Invariant, PTL

(* No step is admitted or prepared beside a live process of another step.  *)
THEOREM GroupsDoNotOverlap ==
    ASSUME Unkillable = {}
    PROVE  Spec => []OneGroupAtATime
<1>1. IInv => OneGroupAtATime
  BY DEF IInv, GroupInv, Idle, OneGroupAtATime
<1> QED
  BY <1>1, Invariant, PTL

(* No process of a step lives beside another step or after run().          *)
THEOREM StepsStayAlone ==
    ASSUME Unkillable = {}
    PROVE  Spec => []StepsAreAlone
<1>1. NothingSurvives /\ OneGroupAtATime => StepsAreAlone
  BY DEF StepsAreAlone
<1> QED
  BY <1>1, NoSurvivors, GroupsDoNotOverlap, PTL

-----------------------------------------------------------------------------
(* The event stream.                                                       *)

(* The events of which the last one told must be, by where the thread is;  *)
(* none is required before campaign.started and after emit raised.         *)
Expected ==
    CASE result \notin {"none", "raised"} -> {CampaignEvent[result]}
      [] result = "raised" -> {}
      [] result = "none" /\ pc \in {"next", "pace", "admit"} ->
             {"campaign.started", "step.succeeded"}
      [] result = "none" /\ pc = "prepare" -> {"step.started"}
      [] result = "none" /\ pc = "report" -> StepEnd \ {"step.succeeded"}
      [] result = "none" /\ pc \notin {"next", "pace", "admit", "prepare", "report", "start"} ->
             {IF outcome = "none" THEN "step.started" ELSE "stop_requested"}
      [] result = "none" /\ pc = "start" -> {}

FollowInv == \A i, j \in Told : Follows(j, i) => MayFollow(log[j].event, log[i].event)
Succeeded == {i \in Told : log[i].event = "step.succeeded"}
ToldInv ==
    /\ pc = "start" => Told = {}
    /\ Expected # {} => LastIs(Expected)
    /\ InStep(pc) /\ pc # "prepare" => outcome # "failed"
    /\ FollowInv
    /\ completed = Cardinality(Succeeded)

LEMMA NextTold ==
    ASSUME TypeOK, NEW e \in EventName, NEW n \in 0..N,
           log' = Append(log, [event |-> e, step |-> n])
    PROVE  /\ Told' = IF e = "signal" THEN Told ELSE Told \cup {Len(log) + 1}
           /\ DOMAIN log' = DOMAIN log \cup {Len(log) + 1}
           /\ \A i \in DOMAIN log : log'[i] = log[i] /\ i <= Len(log) /\ i \in Nat
           /\ Len(log) \in Nat
           /\ log'[Len(log) + 1].event = e
<1>1. log \in Seq(Event) /\ Len(log) \in Nat /\ DOMAIN log = 1..Len(log)
  BY DEF TypeOK
<1>2. [event |-> e, step |-> n] \in Event
  BY DEF Event
<1>3. /\ Len(log') = Len(log) + 1
      /\ \A i \in 1..Len(log) : log'[i] = log[i]
      /\ log'[Len(log) + 1] = [event |-> e, step |-> n]
      /\ DOMAIN log' = 1..Len(log) + 1
  BY <1>1, <1>2
<1>4. DOMAIN log' = DOMAIN log \cup {Len(log) + 1}
  BY <1>1, <1>3
<1>5. log'[Len(log) + 1].event = e
  BY <1>3
<1> QED
  BY <1>1, <1>3, <1>4, <1>5 DEF Told

LEMMA SuccessesAreFinite ==
    ASSUME TypeOK PROVE IsFiniteSet(Succeeded)
<1>1. Succeeded \subseteq 1..Len(log) /\ Len(log) \in Nat
  BY DEF Succeeded, Told, TypeOK
<1>2. IsFiniteSet(1..Len(log))
  BY <1>1, FS_Interval
<1> QED
  BY <1>1, <1>2, FS_Subset

(* An event that may follow what is expected keeps the stream in order.    *)
LEMMA EventTells ==
    ASSUME TypeOK, ToldInv, NEW e \in EventName \ {"signal"}, NEW n \in 0..N,
           log' = Append(log, [event |-> e, step |-> n]),
           Expected # {}, \A was \in Expected : MayFollow(e, was),
           completed' = IF e = "step.succeeded" THEN completed + 1 ELSE completed
    PROVE  FollowInv' /\ LastIs({e})' /\ completed' = Cardinality(Succeeded')
<1> DEFINE new == Len(log) + 1
<1>1. /\ Told' = Told \cup {new} /\ Told \subseteq DOMAIN log
      /\ \A i \in Told : log'[i] = log[i] /\ i < new /\ i \in Nat
      /\ new \in Nat /\ log'[new].event = e
  BY NextTold DEF Told
<1>2. LastIs({e})'
  BY <1>1 DEF LastIs
<1>3. PICK last \in Told : log[last].event \in Expected /\ \A k \in Told : k <= last
  BY DEF ToldInv, LastIs
<1>4. FollowInv'
  <2> SUFFICES ASSUME NEW i \in Told', NEW j \in Told', Follows(j, i)'
               PROVE  MayFollow(log'[j].event, log'[i].event)
    BY DEF FollowInv, MayFollow
  <2>0. j > i /\ \A k \in Told' : k <= i \/ k >= j
    BY DEF Follows
  <2>1. CASE j = new
    <3>1. i \in Told /\ last <= i
      BY <1>1, <1>3, <2>0, <2>1
    <3>2. i = last
      BY <1>1, <1>3, <3>1
    <3> QED
      BY <1>1, <1>3, <2>1, <3>2
  <2>2. CASE j # new
    <3>1. i \in Told /\ j \in Told
      BY <1>1, <2>0, <2>2
    <3>2. Follows(j, i)
      BY <1>1, <2>0, <3>1 DEF Follows
    <3>3. MayFollow(log[j].event, log[i].event)
      BY <3>1, <3>2 DEF ToldInv, FollowInv
    <3>4. log'[j] = log[j] /\ log'[i] = log[i]
      BY <1>1, <3>1
    <3> QED
      BY <3>3, <3>4
  <2> QED
    BY <2>1, <2>2
<1>5. completed' = Cardinality(Succeeded')
  <2>1. Succeeded' = IF e = "step.succeeded" THEN Succeeded \cup {new} ELSE Succeeded
    BY <1>1 DEF Succeeded
  <2>2. new \notin Succeeded
    BY <1>1 DEF Succeeded
  <2>3. Cardinality(Succeeded \cup {new}) = Cardinality(Succeeded) + 1
    BY <2>2, SuccessesAreFinite, FS_AddElement
  <2> QED
    BY <2>1, <2>3 DEF ToldInv
<1> QED
  BY <1>2, <1>4, <1>5

(* A step that tells nothing and expects the same.                         *)
LEMMA QuietTells ==
    ASSUME ToldInv, UNCHANGED <<log, completed>>, Expected' = Expected,
           pc' = "start" => pc = "start",
           (InStep(pc) /\ pc # "prepare" => outcome # "failed")'
    PROVE  ToldInv'
<1>1. Told' = Told /\ Succeeded' = Succeeded
  BY DEF Told, Succeeded
<1>2. FollowInv'
  BY <1>1 DEF ToldInv, FollowInv, Follows, MayFollow
<1>3. Expected' # {} => LastIs(Expected)'
  BY <1>1 DEF ToldInv, LastIs
<1> QED
  BY <1>1, <1>2, <1>3 DEF ToldInv, InStep

(* A campaign that ends says how, or stops telling.                        *)
LEMMA EndTells ==
    ASSUME IInv, IInv', ToldInv, Expected # {}, UNCHANGED completed,
           NEW r \in DOMAIN CampaignEvent,
           \A was \in Expected : MayFollow(CampaignEvent[r], was),
           End(r) \/ Raise
    PROVE  ToldInv'
<1>0. r \in {"succeeded", "failed", "cancelled", "timed_out", "external"}
  BY DEF CampaignEvent
<1>1. CampaignEvent[r] \in EventName \ {"signal", "step.succeeded"} /\ step \in 0..N
  BY <1>0, EventNames DEF CampaignEvent, IInv, TypeOK
<1>2. pc' = "leave" /\ r \notin {"none", "raised"}
  BY DEF End, Raise, CampaignEvent
<1>3. CASE Raise
  <2>1. Expected' = {} /\ Told' = Told /\ Succeeded' = Succeeded /\ log' = log
    BY <1>3 DEF Raise, Expected, Told, Succeeded
  <2>2. FollowInv'
    BY <2>1 DEF ToldInv, FollowInv, Follows, MayFollow
  <2> QED
    BY <1>2, <2>1, <2>2 DEF ToldInv, InStep
<1>4. CASE End(r)
  <2>1. log' = Append(log, [event |-> CampaignEvent[r], step |-> step]) /\ result' = r
    BY <1>4 DEF End
  <2>2. FollowInv' /\ LastIs({CampaignEvent[r]})' /\ completed' = Cardinality(Succeeded')
    BY <1>1, <2>1, EventTells DEF IInv
  <2>3. Expected' = {CampaignEvent[r]}
    BY <1>2, <2>1 DEF Expected, CampaignEvent
  <2> QED
    BY <1>2, <2>2, <2>3 DEF ToldInv, InStep, LastIs
<1> QED
  BY <1>3, <1>4

LEMMA EndingTells ==
    ASSUME IInv, IInv', ToldInv, AllDone \/ RefuseStep \/ StopPacing \/ Report
    PROVE  ToldInv'
<1> USE DEF IInv, runVars
<1>1. result = "none" /\ completed' = completed
  BY DEF AllDone, RefuseStep, StopPacing, Report, PhaseInv, InStep
<1>2. ASSUME pc \in {"next", "pace"}, NEW r \in DOMAIN CampaignEvent, End(r) \/ Raise
      PROVE  ToldInv'
  <2>1. Expected = {"campaign.started", "step.succeeded"}
    BY <1>1, <1>2 DEF Expected
  <2>2. CampaignEvent[r] \in CampaignEnd
    BY DEF CampaignEnd
  <2>3. \A was \in Expected : MayFollow(CampaignEvent[r], was)
    BY <2>1, <2>2 DEF MayFollow
  <2> QED
    BY <1>1, <1>2, <2>1, <2>3, EndTells
<1>3. CASE Report
  <2>1. Expected = StepEnd \ {"step.succeeded"} /\ "step.failed" \in Expected
    BY <1>1, <1>3 DEF Expected, Report, StepEnd
  <2>2. outcome \in Outcome \ {"none"}
    BY <1>3 DEF Report, PhaseInv, TypeOK
  <2>3. /\ ResultOf[outcome] \in DOMAIN CampaignEvent
        /\ CampaignEvent[ResultOf[outcome]] \in CampaignEnd \ {"campaign.succeeded"}
    BY <2>2 DEF Outcome, ResultOf, CampaignEvent, CampaignEnd
  <2>4. \A was \in Expected : MayFollow(CampaignEvent[ResultOf[outcome]], was)
    BY <2>1, <2>3 DEF MayFollow
  <2> QED
    BY <1>1, <1>3, <2>1, <2>3, <2>4, EndTells DEF Report
<1>4. {"succeeded", "external", "cancelled", "timed_out"} \subseteq DOMAIN CampaignEvent
  BY DEF CampaignEvent
<1>5. AdmissionStop # "none" => AdmissionStop \in DOMAIN CampaignEvent
  BY <1>4, StopValues
<1>6. PaceStop # "none" => PaceStop \in DOMAIN CampaignEvent
  BY <1>4, StopValues
<1> QED
  BY <1>2, <1>3, <1>4, <1>5, <1>6 DEF AllDone, RefuseStep, StopPacing

(* The steps of the run that write an event.                               *)
LEMMA BeginTells ==
    ASSUME IInv, IInv', ToldInv, Begin
    PROVE  ToldInv'
<1> USE DEF IInv, runVars
<1>1. /\ pc = "start" /\ result = "none" /\ Told = {} /\ step \in 0..N
      /\ completed' = completed /\ completed = 0 /\ Succeeded = {}
  BY DEF Begin, ToldInv, Succeeded, PhaseInv, InStep, TypeOK
<1>2. CASE Emit("campaign.started") /\ pc' = "next" /\ UNCHANGED result
  <2>1. /\ Told' = {Len(log) + 1} /\ log'[Len(log) + 1].event = "campaign.started"
        /\ Len(log) \in Nat
    BY <1>1, <1>2, NextTold DEF Emit, EventName
  <2>2. Expected' = {"campaign.started", "step.succeeded"}
    BY <1>1, <1>2 DEF Expected
  <2>3. LastIs(Expected)' /\ FollowInv' /\ Succeeded' = {}
    BY <2>1, <2>2 DEF LastIs, FollowInv, Follows, Succeeded
  <2>4. completed' = Cardinality(Succeeded')
    BY <1>1, <2>3, FS_EmptySet
  <2> QED
    BY <1>2, <2>3, <2>4 DEF ToldInv, InStep
<1>3. CASE pc' = "returned" /\ result' = "raised" /\ UNCHANGED log
  <2>1. Expected' = {} /\ Told' = {} /\ Succeeded' = {}
    BY <1>1, <1>3 DEF Expected, Told, Succeeded
  <2> QED
    BY <1>1, <1>3, <2>1, FS_EmptySet DEF ToldInv, FollowInv, InStep
<1> QED
  BY <1>2, <1>3 DEF Begin

(* emit raised: nothing is expected any more.                              *)
LEMMA RaiseTells ==
    ASSUME ToldInv, Raise, UNCHANGED completed
    PROVE  ToldInv'
<1>1. Expected' = {} /\ Told' = Told /\ Succeeded' = Succeeded /\ log' = log
  BY DEF Raise, Expected, Told, Succeeded
<1>2. FollowInv'
  BY <1>1 DEF ToldInv, FollowInv, Follows, MayFollow
<1> QED
  BY <1>1, <1>2 DEF ToldInv, InStep, Raise

LEMMA StepTells ==
    ASSUME IInv, IInv', ToldInv, StartStep \/ SpawnFails \/ StopStep
    PROVE  ToldInv'
<1> USE DEF IInv, runVars
<1>1. result = "none" /\ completed' = completed /\ step \in 0..N
  BY DEF StartStep, SpawnFails, StopStep, PhaseInv, InStep, TypeOK
<1>2. CASE Raise
  BY <1>1, <1>2, RaiseTells
<1>3. ASSUME NEW e \in {"step.started", "step.start_failed", "stop_requested"},
             NEW n \in 0..N, log' = Append(log, [event |-> e, step |-> n]),
             Expected # {}, \A was \in Expected : MayFollow(e, was),
             e \in Expected', pc' # "start", Expected' # {},
             (InStep(pc) /\ pc # "prepare" => outcome # "failed")'
      PROVE  ToldInv'
  <2>1. e \in EventName \ {"signal"} /\ e # "step.succeeded"
    BY DEF EventName, StepEnd
  <2>2. FollowInv' /\ LastIs({e})' /\ completed' = Cardinality(Succeeded')
    BY <1>1, <1>3, <2>1, EventTells
  <2>3. LastIs(Expected)'
    BY <1>3, <2>2 DEF LastIs
  <2> QED
    BY <1>3, <2>2, <2>3 DEF ToldInv
<1>4. CASE StartStep /\ ~Raise
  <2>1. /\ log' = Append(log, [event |-> "step.started", step |-> step + 1])
        /\ pc' = "prepare" /\ result' = result /\ pc = "admit" /\ step + 1 \in 0..N
    BY <1>4 DEF StartStep, PhaseInv, TypeOK
  <2>2. Expected = {"campaign.started", "step.succeeded"} /\ Expected' = {"step.started"}
    BY <1>1, <2>1 DEF Expected
  <2> QED
    BY <1>3, <2>1, <2>2 DEF MayFollow
<1>5. CASE SpawnFails /\ ~Raise
  <2>1. /\ log' = Append(log, [event |-> "step.start_failed", step |-> step])
        /\ pc' = "report" /\ result' = result /\ pc = "prepare"
    BY <1>5 DEF SpawnFails, Emit
  <2>2. Expected = {"step.started"} /\ Expected' = StepEnd \ {"step.succeeded"}
    BY <1>1, <2>1 DEF Expected
  <2> QED
    BY <1>1, <1>3, <2>1, <2>2 DEF MayFollow, StepEnd, InStep
<1>6. CASE StopStep /\ ~Raise
  <2>1. /\ log' = Append(log, [event |-> "stop_requested", step |-> step])
        /\ pc' = "terminate" /\ result' = result /\ pc = "stream"
        /\ outcome = "none" /\ outcome' \notin {"none", "failed"}
    BY <1>6, StopValues DEF StopStep, Emit, StopDue
  <2>2. Expected = {"step.started"} /\ Expected' = {"stop_requested"}
    BY <1>1, <2>1 DEF Expected
  <2> QED
    BY <1>1, <1>3, <2>1, <2>2 DEF MayFollow
<1> QED
  BY <1>2, <1>4, <1>5, <1>6

LEMMA ConcludeTells ==
    ASSUME IInv, IInv', ToldInv, Conclude
    PROVE  ToldInv'
<1> USE DEF IInv, runVars
<1>1. /\ result = "none" /\ step \in 0..N /\ pc = "conclude"
      /\ outcome' = FinalOutcome /\ outcome \in Outcome \ {"failed"} /\ failed \in BOOLEAN
  BY DEF Conclude, PhaseInv, InStep, TypeOK, ToldInv
<1>2. Expected = {IF outcome = "none" THEN "step.started" ELSE "stop_requested"}
  BY <1>1 DEF Expected
<1>3. CASE Raise /\ UNCHANGED completed
  BY <1>3, RaiseTells
<1>4. CASE /\ outcome' # "none" /\ Emit(StepEvent[outcome']) /\ pc' = "report"
           /\ UNCHANGED <<completed, result>>
  <2>0. outcome' \in {"cancelled", "external", "timeout", "failed"}
    BY <1>1, <1>4 DEF FinalOutcome, Outcome
  <2>1. /\ StepEvent[outcome'] \in {"step.cancelled", "step.timed_out", "step.failed"}
        /\ MayFollow(StepEvent[outcome'], "step.started")
        /\ MayFollow(StepEvent[outcome'], "stop_requested")
    BY <2>0 DEF StepEvent, MayFollow, StepEnd
  <2>2. PICK e \in EventName \ {"signal", "step.succeeded"} : e = StepEvent[outcome']
    BY <2>1 DEF EventName, StepEnd
  <2>3. log' = Append(log, [event |-> e, step |-> step]) /\ UNCHANGED completed
    BY <1>4, <2>2 DEF Emit
  <2>4. Expected # {} /\ \A was \in Expected : MayFollow(e, was)
    BY <1>2, <2>1, <2>2
  <2>5. FollowInv' /\ LastIs({e})' /\ completed' = Cardinality(Succeeded')
    BY <1>1, <2>3, <2>4, EventTells
  <2>6. e \in Expected'
    BY <1>1, <1>4, <2>1, <2>2 DEF Expected, StepEnd
  <2>7. LastIs(Expected)'
    BY <2>5, <2>6 DEF LastIs
  <2> QED
    BY <1>4, <2>5, <2>7 DEF ToldInv, InStep
<1>5. CASE /\ outcome' = "none" /\ Emit("step.succeeded") /\ pc' = "next"
           /\ completed' = completed + 1 /\ UNCHANGED result
  <2>0. outcome = "none"
    BY <1>1, <1>5 DEF FinalOutcome
  <2>1. Expected = {"step.started"}
    BY <1>2, <2>0
  <2>2. FollowInv' /\ LastIs({"step.succeeded"})' /\ completed' = Cardinality(Succeeded')
    <3>1. log' = Append(log, [event |-> "step.succeeded", step |-> step])
      BY <1>5 DEF Emit
    <3>2. "step.succeeded" \in EventName \ {"signal"}
      BY DEF EventName, StepEnd
    <3>3. Expected # {} /\ \A was \in Expected : MayFollow("step.succeeded", was)
      BY <2>1 DEF MayFollow, StepEnd
    <3> QED
      BY <1>1, <1>5, <3>1, <3>2, <3>3, EventTells
  <2>3. Expected' = {"campaign.started", "step.succeeded"}
    BY <1>1, <1>5 DEF Expected
  <2>4. LastIs(Expected)'
    BY <2>2, <2>3 DEF LastIs
  <2> QED
    BY <1>5, <2>2, <2>4 DEF ToldInv, InStep
<1> QED
  BY <1>3, <1>4, <1>5 DEF Conclude

(* A signal is noted beside the events of the run.                         *)
LEMMA SignalTells ==
    ASSUME IInv, IInv', ToldInv, Signal
    PROVE  ToldInv'
<1>1. /\ Told' = Told /\ Told \subseteq DOMAIN log
      /\ \A i \in Told : log'[i] = log[i]
  BY NextTold DEF Signal, Emit, IInv, TypeOK, EventName, Told
<1>2. Expected' = Expected /\ completed' = completed /\ pc' = pc /\ outcome' = outcome /\ after' = after
  BY DEF Signal, Expected, runVars, cleanVars
<1>3. FollowInv'
  BY <1>1 DEF ToldInv, FollowInv, Follows, MayFollow
<1>4. Expected' # {} => LastIs(Expected)'
  BY <1>1, <1>2 DEF ToldInv, LastIs
<1>5. Succeeded' = Succeeded
  BY <1>1 DEF Succeeded
<1> QED
  BY <1>1, <1>2, <1>3, <1>4, <1>5 DEF ToldInv, InStep

(* The steps that write nothing.                                           *)
LEMMA SilentTells ==
    ASSUME IInv, IInv', ToldInv,
           \/ AdmitStep \/ PaceCall \/ Spawn \/ Poll \/ StreamDone \/ Terminate
           \/ Terminated \/ Kill \/ Killed \/ Undo \/ Leave \/ ExternalStop \/ Tick
    PROVE  ToldInv'
<1> USE DEF IInv, runVars, cleanVars
<1>0. after # "start"
  BY DEF TypeOK
<1>1. UNCHANGED <<log, completed, result>> /\ (pc' = "start" => pc = "start")
  <2> HIDE DEF IInv
  <2>1. CASE AdmitStep \/ PaceCall \/ Spawn \/ Poll \/ StreamDone \/ ExternalStop \/ Tick
    BY <2>1 DEF AdmitStep, PaceCall, Spawn, Poll, StreamDone, ExternalStop, Tick
  <2>2. CASE Terminate \/ Terminated \/ Kill \/ Killed
    BY <2>2 DEF Terminate, Terminated, Kill, Killed, Done
  <2>3. CASE Undo \/ Leave
    BY <1>0, <2>3 DEF Undo, Leave
  <2> QED
    BY <2>1, <2>2, <2>3
<1>2. outcome' = outcome \/ (outcome' = "none" /\ pc = "prepare")
  <2> HIDE DEF IInv
  <2>1. CASE Spawn
    BY <2>1 DEF Spawn
  <2>2. CASE AdmitStep \/ PaceCall \/ Poll \/ StreamDone \/ ExternalStop \/ Tick
    BY <2>2 DEF AdmitStep, PaceCall, Poll, StreamDone, ExternalStop, Tick
  <2>3. CASE Terminate \/ Terminated \/ Kill \/ Killed \/ Undo \/ Leave
    BY <2>3 DEF Terminate, Terminated, Kill, Killed, Done, Undo, Leave
  <2> QED
    BY <2>1, <2>2, <2>3
<1>3. CASE result # "none"
  <2>1. Expected' = Expected
    BY <1>1, <1>3 DEF Expected
  <2>2. ~InStep(pc)'
    BY <1>1, <1>3 DEF PhaseInv, InStep
  <2> QED
    BY <1>1, <2>1, <2>2, QuietTells
<1>4. CASE result = "none"
  <2>1. Expected' = Expected
    BY <1>1, <1>4 DEF Expected, AdmitStep, PaceCall, Spawn, Poll, StreamDone, Terminate,
         Terminated, Kill, Killed, Undo, Leave, ExternalStop, Tick, Done, PhaseInv,
         InStep, GroupInv
  <2>2. (InStep(pc) /\ pc # "prepare" => outcome # "failed")'
    BY <1>2 DEF ToldInv, InStep, AdmitStep, PaceCall, Spawn, Poll, StreamDone, Terminate,
         Terminated, Kill, Killed, Undo, Leave, ExternalStop, Tick, Done, PhaseInv,
         GroupInv
  <2> QED
    BY <1>1, <2>1, <2>2, QuietTells
<1> QED
  BY <1>3, <1>4

LEMMA ToldKeeps ==
    ASSUME IInv, IInv', ToldInv, [Next]_vars
    PROVE  ToldInv'
<1>1. CASE Supervise
  BY <1>1, EndingTells, BeginTells, StepTells, ConcludeTells, SilentTells DEF Supervise
<1>2. ASSUME NEW p \in Proc,
             Detach(p) \/ ClosePipes(p) \/ Exit(p) \/ \E h \in Helper : Fork(p, h)
      PROVE  ToldInv'
  <2>1. UNCHANGED <<pc, completed, outcome, result, after, log>>
    BY <1>2 DEF Detach, ClosePipes, Exit, Fork, EnvUnchanged, runVars, cleanVars
  <2> QED
    BY <2>1, QuietTells DEF ToldInv, Expected, InStep
<1>3. CASE Environment
  BY <1>2, <1>3, SignalTells, SilentTells DEF Environment
<1>4. CASE UNCHANGED vars
  <2>1. UNCHANGED <<pc, completed, outcome, result, after, log>>
    BY <1>4 DEF vars, runVars, cleanVars
  <2> QED
    BY <2>1, QuietTells DEF ToldInv, Expected, InStep
<1> QED
  BY <1>1, <1>3, <1>4 DEF Next

(* The event stream tells the run, for every plan and every schedule: one  *)
(* closing event per step, and a last event that agrees with the result.   *)
THEOREM EventsAreOrdered ==
    ASSUME Unkillable = {}
    PROVE  Spec => []EventsTellTheRun
<1>1. Init => ToldInv
  <2> SUFFICES ASSUME Init PROVE ToldInv
    OBVIOUS
  <2>1. Told = {} /\ Succeeded = {} /\ Expected = {} /\ ~InStep(pc) /\ completed = 0
    BY DEF Init, Told, Succeeded, Expected, InStep
  <2> QED
    BY <2>1, FS_EmptySet DEF ToldInv, FollowInv
<1>2. IInv /\ IInv' /\ ToldInv /\ [Next]_vars => ToldInv'
  BY ToldKeeps
<1>3. IInv /\ ToldInv => EventsTellTheRun
  <2> SUFFICES ASSUME IInv, ToldInv PROVE EventsTellTheRun
    OBVIOUS
  <2>1. pc = "returned" /\ result # "raised" => Expected = {CampaignEvent[result]}
    BY DEF IInv, PhaseInv, Expected
  <2> QED
    BY <2>1 DEF ToldInv, FollowInv, Succeeded, EventsTellTheRun
<1> QED
  BY <1>1, <1>2, <1>3, Invariant, PTL DEF Spec

-----------------------------------------------------------------------------
(* The rollbacks.                                                          *)

Ending == {"terminate", "term", "kill", "undo"}
UndoInv ==
    /\ Len(pending) + Len(ran) = Len(Rollbacks)
    /\ \A i \in DOMAIN pending : pending[i] = Rollbacks[i]
    /\ \A i \in DOMAIN ran : ran[i] = Rollbacks[Len(Rollbacks) + 1 - i]
    /\ cleaned => pending = <<>> \/ (pc \in Ending /\ after # "conclude")
    /\ pc = "returned" => cleaned \/ Told = {}
    /\ pc \in Ending /\ after = "returned" => cleaned

(* One rollback: the last registered one that is left.                     *)
LEMMA UndoPops ==
    ASSUME IInv, UndoInv, Undo
    PROVE  UndoInv'
<1> USE DEF IInv, cleanVars, undoVars
<1>1. CASE pending = <<>>
  <2>1. UNCHANGED <<pending, ran, cleaned, after, log>> /\ pc' = after /\ pending' = <<>>
    BY <1>1 DEF Undo
  <2>2. after = "returned" => cleaned
    BY DEF Undo, UndoInv, Ending
  <2>3. Len(pending') + Len(ran') = Len(Rollbacks)
    BY <2>1 DEF UndoInv
  <2>4. /\ \A i \in DOMAIN pending' : pending'[i] = Rollbacks[i]
        /\ \A i \in DOMAIN ran' : ran'[i] = Rollbacks[Len(Rollbacks) + 1 - i]
    BY <2>1 DEF UndoInv
  <2>5. pc' = "returned" => cleaned'
    BY <2>1, <2>2
  <2>6. pc' \in Ending => after' # "returned"
    BY <2>1 DEF Ending
  <2> QED
    BY <2>1, <2>3, <2>4, <2>5, <2>6 DEF UndoInv
<1>2. CASE pending # <<>>
  <2> DEFINE n == Len(pending)
             m == Len(ran)
             r == Len(Rollbacks)
  <2>1. /\ ran' = Append(ran, pending[n]) /\ pending' = SubSeq(pending, 1, n - 1)
        /\ UNCHANGED <<pc, cleaned, after, log>> /\ pc = "undo"
    BY <1>2 DEF Undo
  <2>2. /\ n \in Nat \ {0} /\ m \in Nat /\ r \in Nat /\ n + m = r
        /\ pending \in Seq(Rollback) /\ ran \in Seq(Rollback)
        /\ DOMAIN pending = 1..n /\ DOMAIN ran = 1..m
    BY <1>2, CampaignAssumption DEF TypeOK, UndoInv
  <2>3. /\ Len(pending') = n - 1 /\ DOMAIN pending' = 1..n - 1
        /\ \A i \in 1..n - 1 : pending'[i] = pending[i]
    BY <2>1, <2>2
  <2>4. /\ Len(ran') = m + 1 /\ DOMAIN ran' = 1..m + 1
        /\ \A i \in 1..m : ran'[i] = ran[i]
        /\ ran'[m + 1] = pending[n]
    BY <2>1, <2>2
  <2>5. \A i \in DOMAIN pending : pending[i] = Rollbacks[i]
    BY DEF UndoInv
  <2>6. \A i \in DOMAIN ran : ran[i] = Rollbacks[r + 1 - i]
    BY DEF UndoInv
  <2> HIDE DEF n, m, r
  <2>7. Len(pending') + Len(ran') = r
    BY <2>2, <2>3, <2>4
  <2>8. \A i \in DOMAIN pending' : pending'[i] = Rollbacks[i]
    BY <2>2, <2>3, <2>5
  <2>9. \A i \in DOMAIN ran' : ran'[i] = Rollbacks[r + 1 - i]
    <3>1. pending[n] = Rollbacks[n] /\ r + 1 - (m + 1) = n
      BY <2>2, <2>5
    <3>2. \A i \in 1..m : ran[i] = Rollbacks[r + 1 - i]
      BY <2>2, <2>6
    <3>3. \A i \in 1..m + 1 : i \in 1..m \/ i = m + 1
      BY <2>2
    <3> QED
      BY <2>4, <3>1, <3>2, <3>3
  <2>10. /\ (cleaned => pending = <<>> \/ (pc \in Ending /\ after # "conclude"))'
        /\ (pc \in Ending /\ after = "returned" => cleaned)'
    BY <1>2, <2>1 DEF UndoInv
  <2>11. pc' # "returned"
    BY <2>1
  <2> QED
    BY <2>7, <2>8, <2>9, <2>10, <2>11 DEF UndoInv, r
<1> QED
  BY <1>1, <1>2

(* The other steps leave the registry alone.                               *)
LEMMA OthersLeaveRollbacks ==
    ASSUME UndoInv, UNCHANGED undoVars,
           cleaned' => \/ pending = <<>>
                       \/ (pc' \in Ending /\ after' # "conclude"),
           pc' = "returned" => cleaned' \/ Told' = {},
           pc' \in Ending /\ after' = "returned" => cleaned'
    PROVE  UndoInv'
BY DEF UndoInv, undoVars

LEMMA UndoKeepsReverse ==
    ASSUME IInv, ToldInv, UndoInv, [Next]_vars
    PROVE  UndoInv'
<1> USE DEF cleanVars, Ending
<1>0. /\ cleaned => pending = <<>> \/ (pc \in Ending /\ after # "conclude")
      /\ pc = "returned" => cleaned \/ Told = {}
      /\ pc \in Ending /\ after = "returned" => cleaned
  BY DEF UndoInv
<1>1. CASE \/ AdmitStep \/ PaceCall \/ Poll \/ AllDone \/ RefuseStep \/ StopPacing
            \/ SpawnFails \/ Spawn \/ StreamDone \/ Conclude \/ Report
  <2>1. /\ UNCHANGED <<undoVars, cleaned>> /\ pc \notin Ending /\ pc' # "returned"
        /\ pc' \in Ending => after' = "conclude"
    BY <1>1 DEF AdmitStep, PaceCall, Poll, AllDone, RefuseStep, StopPacing, SpawnFails,
         Spawn, StreamDone, Conclude, Report, End, Raise
  <2> QED
    BY <1>0, <2>1, OthersLeaveRollbacks
<1>2. CASE StartStep \/ StopStep
  <2>1. /\ UNCHANGED undoVars /\ pc' # "returned"
        /\ \/ ~cleaned' /\ pc' \notin Ending
           \/ pc' = "terminate" /\ after' = "stream"
           \/ cleaned' = cleaned /\ pc \notin Ending /\ pc' \notin Ending
    BY <1>2 DEF StartStep, StopStep, Raise
  <2> QED
    BY <1>0, <2>1, OthersLeaveRollbacks
<1>3. CASE Leave
  <2>1. /\ UNCHANGED undoVars /\ pc = "leave"
        /\ \/ cleaned /\ cleaned'
           \/ pc' \in {"terminate", "undo"} /\ after' = "returned" /\ cleaned'
    BY <1>3 DEF Leave
  <2> QED
    BY <1>0, <2>1, OthersLeaveRollbacks
<1>4. CASE Begin
  <2>1. /\ UNCHANGED <<undoVars, cleaned>> /\ pc = "start" /\ pc' \notin Ending
        /\ pc' = "returned" => Told' = Told
    BY <1>4 DEF Begin, Told
  <2> QED
    BY <1>0, <2>1, OthersLeaveRollbacks DEF ToldInv
<1>5. CASE Terminate \/ Terminated \/ Kill \/ Killed
  <2>1. /\ UNCHANGED <<undoVars, cleaned, after>> /\ pc \in Ending /\ pc' # "returned"
        /\ pc' \in Ending \/ after = "conclude"
    BY <1>5 DEF Terminate, Terminated, Kill, Killed, Done
  <2> QED
    BY <1>0, <2>1, OthersLeaveRollbacks
<1>6. ASSUME NEW p \in Proc,
             Detach(p) \/ ClosePipes(p) \/ Exit(p) \/ \E h \in Helper : Fork(p, h)
      PROVE  UndoInv'
  <2>1. UNCHANGED <<undoVars, cleaned, pc, after, log>>
    BY <1>6 DEF Detach, ClosePipes, Exit, Fork, EnvUnchanged
  <2> QED
    BY <1>0, <2>1, OthersLeaveRollbacks DEF Told
<1>7. CASE ExternalStop \/ Tick \/ UNCHANGED vars
  <2>1. UNCHANGED <<undoVars, cleaned, pc, after, log>>
    BY <1>7 DEF ExternalStop, Tick, vars
  <2> QED
    BY <1>0, <2>1, OthersLeaveRollbacks DEF Told
<1>8. CASE Signal
  <2>1. UNCHANGED <<undoVars, cleaned, pc, after>> /\ pc # "returned"
    BY <1>8 DEF Signal
  <2> QED
    BY <1>0, <2>1, OthersLeaveRollbacks
<1>9. CASE Supervise
  BY <1>1, <1>2, <1>3, <1>4, <1>5, <1>9, UndoPops DEF Supervise
<1>10. CASE Environment
  BY <1>6, <1>7, <1>8, <1>10 DEF Environment
<1> QED
  BY <1>7, <1>9, <1>10 DEF Next

-----------------------------------------------------------------------------
(* Signals.                                                                *)

(* A step was started although a signal had arrived.                       *)
Late ==
    \E i, j \in DOMAIN log :
       i < j /\ log[i].event = "signal" /\ log[j].event = "step.started"

(* From then on the loop of _run_step finds the signal before the ends of  *)
(* the streams, so the step's outcome is decided before it can conclude.   *)
LateInv ==
    /\ (\E i \in DOMAIN log : log[i].event = "signal") => cancel
    /\ Late =>
         /\ pc \notin {"start", "next", "pace", "admit"}
         /\ pc = "stream" /\ outcome = "none" => ~seen
         /\ pc = "conclude" \/ (pc \in Ending /\ after = "conclude") => outcome # "none"
    /\ NoStepSucceedsAfterSignal

(* An event that neither starts a late step nor makes it succeed.          *)
LEMMA EventIsLate ==
    ASSUME TypeOK, LateInv, NEW e \in EventName, NEW n \in 0..N,
           log' = Append(log, [event |-> e, step |-> n]),
           Late => e \notin {"step.started", "step.succeeded"}
    PROVE  /\ NoStepSucceedsAfterSignal'
           /\ e # "step.started" => Late' = Late
           /\ (\E i \in DOMAIN log' : log'[i].event = "signal")
                 <=> e = "signal" \/ \E i \in DOMAIN log : log[i].event = "signal"
<1> DEFINE new == Len(log) + 1
<1>1. /\ DOMAIN log' = DOMAIN log \cup {new} /\ DOMAIN log = 1..Len(log)
      /\ \A i \in DOMAIN log : log'[i] = log[i] /\ i < new /\ i \in Nat
      /\ new \in Nat /\ log'[new].event = e /\ Len(log') = new
  BY NextTold DEF TypeOK
<1>2. e # "step.started" => Late' = Late
  BY <1>1 DEF Late
<1>3. ASSUME NEW i \in DOMAIN log', NEW j \in DOMAIN log', i < j,
             log'[i].event = "signal", log'[j].event = "step.started",
             NEW k \in j + 1..new
      PROVE  log'[k].event \notin {"step.started", "step.succeeded"}
  <2>1. i \in DOMAIN log /\ j \in DOMAIN log /\ Late /\ k \in DOMAIN log'
    BY <1>1, <1>3 DEF Late
  <2>2. CASE k = new
    BY <1>1, <2>1, <2>2
  <2>3. CASE k # new
    <3>1. k \in j + 1..Len(log) /\ k \in DOMAIN log
      BY <1>1, <2>1, <2>3
    <3> QED
      BY <1>1, <1>3, <2>1, <3>1 DEF LateInv, NoStepSucceedsAfterSignal
  <2> QED
    BY <2>2, <2>3
<1>4. NoStepSucceedsAfterSignal'
  BY <1>1, <1>3 DEF NoStepSucceedsAfterSignal
<1> QED
  BY <1>1, <1>2, <1>4

LEMMA SilentIsLate ==
    ASSUME LateInv, UNCHANGED log, cancel => cancel',
           Late =>
             /\ pc' \notin {"start", "next", "pace", "admit"}
             /\ pc' = "stream" /\ outcome' = "none" => ~seen'
             /\ pc' = "conclude" \/ (pc' \in Ending /\ after' = "conclude")
                   => outcome' # "none"
    PROVE  LateInv'
BY DEF LateInv, Late, NoStepSucceedsAfterSignal

LEMMA LateKeeps ==
    ASSUME IInv, IInv', LateInv, [Next]_vars
    PROVE  LateInv'
<1> USE DEF Ending, stopVars, cleanVars
<1>0. /\ (\E i \in DOMAIN log : log[i].event = "signal") => cancel
      /\ Late => cancel
      /\ Late => /\ pc \notin {"start", "next", "pace", "admit"}
                 /\ pc = "stream" /\ outcome = "none" => ~seen
                 /\ pc = "conclude" \/ (pc \in Ending /\ after = "conclude")
                       => outcome # "none"
      /\ TypeOK /\ step \in 0..N
  BY DEF LateInv, Late, IInv, TypeOK
<1>1. ASSUME pc' = "leave", UNCHANGED cancel,
             UNCHANGED log \/ \E e \in EventName \ {"signal", "step.started", "step.succeeded"} :
                                log' = Append(log, [event |-> e, step |-> step])
      PROVE  LateInv'
  <2>1. CASE UNCHANGED log
    BY <1>0, <1>1, <2>1, SilentIsLate
  <2>2. ASSUME NEW e \in EventName \ {"signal", "step.started", "step.succeeded"},
               log' = Append(log, [event |-> e, step |-> step])
        PROVE  LateInv'
    BY <1>0, <1>1, <2>2, EventIsLate DEF LateInv
  <2> QED
    BY <1>1, <2>1, <2>2
<1>2. \A r \in DOMAIN CampaignEvent :
         CampaignEvent[r] \in EventName \ {"signal", "step.started", "step.succeeded"}
  <2>1. \A r \in DOMAIN CampaignEvent :
           r \in {"succeeded", "failed", "cancelled", "timed_out", "external"}
    BY DEF CampaignEvent
  <2> QED
    BY <2>1, EventNames DEF CampaignEvent
<1>3. CASE AllDone \/ RefuseStep \/ StopPacing \/ Report
  <2>1. PICK r \in DOMAIN CampaignEvent : End(r) \/ Raise
    <3>1. {"succeeded", "external", "cancelled", "timed_out"} \subseteq DOMAIN CampaignEvent
      BY DEF CampaignEvent
    <3>2. Report => ResultOf[outcome] \in DOMAIN CampaignEvent
      BY EventNames DEF Report, IInv, PhaseInv, TypeOK, CampaignEvent
    <3> QED
      BY <1>3, <3>1, <3>2, StopValues DEF AllDone, RefuseStep, StopPacing, Report
  <2>2. UNCHANGED cancel
    BY <1>3 DEF AllDone, RefuseStep, StopPacing, Report
  <2> QED
    BY <1>1, <1>2, <2>1, <2>2 DEF End, Raise
<1>4. CASE Begin
  <2>1. UNCHANGED cancel /\ ~Late
    BY <1>0, <1>4 DEF Begin
  <2>2. CASE UNCHANGED log
    BY <1>0, <2>1, <2>2, SilentIsLate
  <2>3. CASE Emit("campaign.started")
    BY <1>0, <2>1, <2>3, EventIsLate DEF LateInv, Emit, EventName
  <2> QED
    BY <1>4, <2>2, <2>3 DEF Begin
<1>5. CASE StartStep
  <2>1. UNCHANGED cancel /\ ~Late /\ pc' \in {"prepare", "leave"} /\ step + 1 \in 0..N
    BY <1>0, <1>5 DEF StartStep, Raise, IInv, PhaseInv, TypeOK
  <2>2. CASE UNCHANGED log
    BY <1>0, <2>1, <2>2, SilentIsLate
  <2>3. CASE log' = Append(log, [event |-> "step.started", step |-> step + 1])
    <3>1. "step.started" \in EventName
      BY DEF EventName
    <3> QED
      BY <1>0, <2>1, <2>3, <3>1, EventIsLate DEF LateInv
  <2> QED
    BY <1>5, <2>2, <2>3 DEF StartStep, Raise
<1>6. CASE SpawnFails
  <2>1. UNCHANGED cancel /\ pc' \in {"report", "leave"}
    BY <1>6 DEF SpawnFails, Raise
  <2>2. CASE UNCHANGED log
    BY <1>0, <2>1, <2>2, SilentIsLate
  <2>3. CASE Emit("step.start_failed")
    <3>1. "step.start_failed" \in EventName
      BY DEF EventName, StepEnd
    <3> QED
      BY <1>0, <2>1, <2>3, <3>1, EventIsLate DEF LateInv, Emit
  <2> QED
    BY <1>6, <2>2, <2>3 DEF SpawnFails, Raise
<1>7. CASE StopStep
  <2>1. UNCHANGED cancel /\ pc' \in {"terminate", "leave"} /\ outcome' # "none"
    BY <1>7 DEF StopStep, Raise, StopDue
  <2>2. CASE UNCHANGED log
    BY <1>0, <2>1, <2>2, SilentIsLate
  <2>3. CASE Emit("stop_requested")
    <3>1. "stop_requested" \in EventName
      BY DEF EventName
    <3> QED
      BY <1>0, <2>1, <2>3, <3>1, EventIsLate DEF LateInv, Emit
  <2> QED
    BY <1>7, <2>2, <2>3 DEF StopStep, Raise
<1>8. CASE Conclude
  <2>1. UNCHANGED cancel /\ pc = "conclude" /\ (Late => outcome' # "none")
    BY <1>0, <1>8 DEF Conclude, FinalOutcome
  <2>2. CASE UNCHANGED log /\ pc' = "leave"
    BY <1>0, <2>1, <2>2, SilentIsLate
  <2>3. CASE outcome' # "none" /\ Emit(StepEvent[outcome']) /\ pc' = "report"
    <3>1. outcome' \in {"cancelled", "external", "timeout", "failed"}
      BY <2>3 DEF IInv, TypeOK, Outcome
    <3>2. PICK e \in EventName \ {"signal", "step.started", "step.succeeded"} :
             e = StepEvent[outcome']
      BY <3>1 DEF StepEvent, EventName, StepEnd
    <3> QED
      BY <1>0, <2>1, <2>3, <3>2, EventIsLate DEF LateInv, Emit
  <2>4. CASE outcome' = "none" /\ Emit("step.succeeded") /\ pc' = "next"
    <3>1. "step.succeeded" \in EventName
      BY DEF EventName, StepEnd
    <3> QED
      BY <1>0, <2>1, <2>4, <3>1, EventIsLate DEF LateInv, Emit
  <2> QED
    BY <1>8, <2>2, <2>3, <2>4 DEF Conclude, Raise
<1>9. CASE Signal
  <2>1. /\ cancel' /\ UNCHANGED <<pc, outcome, seen, after>> /\ Emit("signal")
        /\ "signal" \in EventName /\ ~Late
    BY <1>0, <1>9 DEF Signal, EventName
  <2> QED
    BY <1>0, <2>1, EventIsLate DEF LateInv, Emit
<1>10. CASE AdmitStep \/ PaceCall
  BY <1>0, <1>10, SilentIsLate DEF AdmitStep, PaceCall
<1>11. CASE Spawn
  BY <1>0, <1>11, SilentIsLate DEF Spawn
<1>12. CASE Poll \/ StreamDone
  BY <1>0, <1>12, SilentIsLate DEF Poll, StreamDone, StopDue, StepStop
<1>13. CASE Terminate \/ Terminated \/ Kill \/ Killed
  <2>1. /\ UNCHANGED <<log, cancel, outcome, seen, after>> /\ pc \in Ending
        /\ \/ pc' \in Ending
           \/ pc' = "conclude" /\ after = "conclude"
    BY <1>13 DEF Terminate, Terminated, Kill, Killed, Done
  <2> QED
    BY <1>0, <2>1, SilentIsLate
<1>14. CASE Undo \/ Leave
  <2>1. /\ UNCHANGED <<log, cancel, outcome, seen>> /\ pc' \notin {"start", "next", "pace", "admit"}
        /\ pc' # "conclude" /\ (pc' \in Ending => after' # "conclude")
        /\ pc' = "stream" => outcome # "none"
    BY <1>14 DEF Undo, Leave, IInv, GroupInv, Idle
  <2> QED
    BY <1>0, <2>1, SilentIsLate
<1>15. ASSUME NEW p \in Proc,
              Detach(p) \/ ClosePipes(p) \/ Exit(p) \/ \E h \in Helper : Fork(p, h)
       PROVE  LateInv'
  <2>1. UNCHANGED <<log, cancel, outcome, seen, after, pc>>
    BY <1>15 DEF Detach, ClosePipes, Exit, Fork, EnvUnchanged
  <2> QED
    BY <1>0, <2>1, SilentIsLate
<1>16. CASE ExternalStop \/ Tick \/ UNCHANGED vars
  <2>1. UNCHANGED <<log, cancel, outcome, seen, after, pc>>
    BY <1>16 DEF ExternalStop, Tick, vars
  <2> QED
    BY <1>0, <2>1, SilentIsLate
<1>17. CASE Supervise
  BY <1>3, <1>4, <1>5, <1>6, <1>7, <1>8, <1>10, <1>11, <1>12, <1>13, <1>14, <1>17
     DEF Supervise
<1>18. CASE Environment
  BY <1>9, <1>15, <1>16, <1>18 DEF Environment
<1> QED
  BY <1>16, <1>17, <1>18 DEF Next

(* What a signal stops stays stopped, and every rollback runs once, last   *)
(* registered first, after the group is gone.                              *)
THEOREM StopsStayOrderly ==
    ASSUME Unkillable = {}
    PROVE  Spec => []StopsAreOrderly
<1> DEFINE Strong == IInv /\ ToldInv /\ UndoInv /\ LateInv
<1>1. Init => Strong
  <2> SUFFICES ASSUME Init PROVE Strong
    OBVIOUS
  <2>1. Told = {} /\ Succeeded = {} /\ Expected = {} /\ ~InStep(pc) /\ completed = 0
    BY DEF Init, Told, Succeeded, Expected, InStep
  <2>2. ToldInv
    BY <2>1, FS_EmptySet DEF ToldInv, FollowInv
  <2>3. UndoInv
    BY CampaignAssumption DEF Init, UndoInv
  <2>4. LateInv
    BY DEF Init, LateInv, Late, NoStepSucceedsAfterSignal
  <2> QED
    BY InitInv, <2>2, <2>3, <2>4
<1>2. Strong /\ [Next]_vars => Strong'
  BY NextKeeps, ToldKeeps, UndoKeepsReverse, LateKeeps
<1>3. Strong => StopsAreOrderly
  <2> SUFFICES ASSUME Strong PROVE StopsAreOrderly
    OBVIOUS
  <2>1. pc = "undo" => members = {}
    BY DEF IInv, GroupInv
  <2>2. pc = "returned" /\ Told # {} => pending = <<>>
    BY DEF UndoInv, Ending
  <2> QED
    BY <2>1, <2>2 DEF StopsAreOrderly, RollbacksUndoInReverse, UndoInv, LateInv
<1> HIDE DEF Strong
<1>4. Spec => []Strong
  BY <1>1, <1>2, PTL DEF Spec
<1> QED
  BY <1>3, <1>4, PTL

-----------------------------------------------------------------------------
(* CampaignSupervisor implements Campaign.                                 *)

LEMMA Quiet ==
    ASSUME IInv, IInv', step' = step, completed' = completed,
           members = {} <=> members' = {},
           pc' = "returned" <=> pc = "returned",
           pc = "returned" => result' = result
    PROVE  UNCHANGED Abstract!campaignVars
<1>1. Group = members /\ Group' = members'
  BY GroupIsAll DEF IInv, GroupInv, Group
<1> QED
  BY <1>1 DEF Abstract!campaignVars

(* The actions the abstract campaign does not see.                         *)
LEMMA SuperviseQuietly ==
    ASSUME IInv, IInv',
           \/ AllDone \/ RefuseStep \/ AdmitStep \/ StopPacing \/ PaceCall
           \/ SpawnFails \/ Poll \/ StopStep \/ StreamDone \/ Report
           \/ Terminate \/ Terminated \/ Killed
    PROVE  UNCHANGED Abstract!campaignVars
<1>1. /\ step' = step /\ completed' = completed
      /\ members' = members
      /\ pc # "returned" /\ pc' # "returned"
  BY DEF AllDone, RefuseStep, AdmitStep, StopPacing, PaceCall, SpawnFails, Poll,
         StopStep, StreamDone, Report, Terminate, Terminated, Killed, Done, End,
         Raise, runVars, procVars
<1> QED
  BY <1>1, Quiet

LEMMA WaitQuietly ==
    ASSUME IInv, IInv', Signal \/ ExternalStop \/ Tick \/ UNCHANGED vars
    PROVE  UNCHANGED Abstract!campaignVars
<1>1. /\ step' = step /\ completed' = completed
      /\ members' = members
      /\ pc' = pc /\ result' = result
  BY DEF Signal, ExternalStop, Tick, vars, runVars, procVars
<1> QED
  BY <1>1, Quiet

(* run() ends: nothing of its groups is left, so the verdict may appear.   *)
LEMMA VerdictAppears ==
    ASSUME IInv, IInv', step' = step, completed' = completed, members' = members,
           pc # "returned", pc' = "returned"
    PROVE  Abstract!Stop \/ Abstract!Succeed
<1>1. Group = members /\ Group' = members'
  BY GroupIsAll DEF IInv, GroupInv, Group
<1>2. members = {}
  BY DEF IInv, GroupInv
<1>3. /\ result' # "none" /\ result' \in Result
      /\ result' = "succeeded" => completed = N
  BY DEF IInv, PhaseInv, TypeOK
<1>4. CASE result' = "succeeded"
  BY <1>1, <1>2, <1>3, <1>4 DEF Abstract!Succeed
<1>5. CASE result' # "succeeded"
  BY <1>1, <1>2, <1>3, <1>5 DEF Abstract!Stop, Abstract!Stopped, Result, CampaignEvent
<1> QED
  BY <1>4, <1>5

(* Processes may vanish from a group and only their last one is seen.      *)
LEMMA GroupFades ==
    ASSUME IInv, IInv', step' = step, completed' = completed, result' = result,
           members = {} => members' = {},
           pc' = "returned" <=> pc = "returned"
    PROVE  Abstract!GroupGone \/ UNCHANGED Abstract!campaignVars
<1>1. Group = members /\ Group' = members'
  BY GroupIsAll DEF IInv, GroupInv, Group
<1>2. CASE members = {} <=> members' = {}
  BY <1>2, Quiet
<1>3. CASE members # {} /\ members' = {}
  BY <1>1, <1>3 DEF Abstract!GroupGone
<1> QED
  BY <1>2, <1>3

LEMMA StepRefines ==
    ASSUME IInv, IInv', [Next]_vars
    PROVE  [Abstract!CampaignNext]_Abstract!campaignVars
<1> USE DEF IInv, runVars, procVars, Abstract!CampaignNext
<1> DEFINE Goal == Abstract!CampaignNext \/ UNCHANGED Abstract!campaignVars
<1>0. Group = members /\ Group' = members'
  BY GroupIsAll DEF GroupInv, Group
<1>1. ASSUME Begin \/ Leave \/ Undo PROVE Goal
  <2>1. /\ step' = step /\ completed' = completed /\ members' = members
        /\ pc # "returned"
    BY <1>1 DEF Begin, Leave, Undo
  <2>2. CASE pc' = "returned"
    BY <2>1, <2>2, VerdictAppears
  <2>3. CASE pc' # "returned"
    BY <2>1, <2>3, Quiet
  <2> QED
    BY <2>2, <2>3
<1>2. ASSUME StartStep PROVE Goal
  <2>1. /\ pc = "admit" /\ pc' \in {"prepare", "leave"} /\ step' = step + 1
        /\ completed' = completed /\ members' = members
    BY <1>2 DEF StartStep, Raise
  <2>2. members = {} /\ completed = step /\ step < N
    BY <2>1 DEF GroupInv, Idle, PhaseInv
  <2> QED
    BY <1>0, <2>1, <2>2 DEF Abstract!StartStep
<1>3. ASSUME Spawn PROVE Goal
  <2>1. /\ pc = "prepare" /\ pc' = "stream" /\ step' = step
        /\ completed' = completed /\ members' # {}
    BY <1>3 DEF Spawn
  <2>2. members = {} /\ completed + 1 = step
    BY <2>1 DEF GroupInv, Idle, PhaseInv, InStep
  <2> QED
    BY <1>0, <2>1, <2>2 DEF Abstract!GroupAppears
<1>4. ASSUME Conclude PROVE Goal
  <2>1. /\ pc = "conclude" /\ pc' # "returned" /\ step' = step /\ members' = members
    BY <1>4 DEF Conclude, Raise
  <2>2. members = {} /\ completed + 1 = step /\ completed \in Nat
    BY <2>1, CampaignAssumption DEF GroupInv, PhaseInv, InStep, TypeOK
  <2>3. CASE completed' = completed
    BY <2>1, <2>3, Quiet
  <2>4. CASE completed' = completed + 1
    BY <1>0, <2>1, <2>2, <2>4 DEF Abstract!StepSucceeds
  <2> QED
    BY <1>4, <2>3, <2>4 DEF Conclude
<1>5. ASSUME Kill PROVE Goal
  <2>1. /\ pc = "term" /\ pc' = "kill" /\ step' = step /\ completed' = completed
        /\ result' = result /\ members' \subseteq members
    BY <1>5 DEF Kill
  <2> QED
    BY <2>1, GroupFades
<1>6. ASSUME NEW p \in Proc,
             Detach(p) \/ ClosePipes(p) \/ Exit(p) \/ \E h \in Helper : Fork(p, h)
      PROVE  Goal
  <2>1. /\ step' = step /\ completed' = completed /\ result' = result /\ pc' = pc
        /\ members = {} => members' = {}
    BY <1>6 DEF Detach, ClosePipes, Exit, Fork, EnvUnchanged
  <2> QED
    BY <2>1, GroupFades
<1>7. CASE Supervise
  BY <1>1, <1>2, <1>3, <1>4, <1>5, <1>7, SuperviseQuietly DEF Supervise
<1>8. CASE Environment
  BY <1>6, <1>8, WaitQuietly DEF Environment
<1>9. CASE UNCHANGED vars
  BY <1>9, WaitQuietly
<1> QED
  BY <1>7, <1>8, <1>9 DEF Next

(* Where SIGKILL works the supervisor keeps the abstract campaign's        *)
(* promise: steps in order, one group at a time, a verdict with none left. *)
THEOREM Refinement ==
    ASSUME Unkillable = {}
    PROVE  Spec => ImplementsCampaign
<1>1. Init => Abstract!CampaignInit
  BY DEF Init, Abstract!CampaignInit, Group
<1>2. IInv /\ IInv' /\ [Next]_vars => [Abstract!CampaignNext]_Abstract!campaignVars
  BY StepRefines
<1> QED
  BY <1>1, <1>2, Invariant, PTL DEF Spec, ImplementsCampaign, Abstract!CampaignSpec

=============================================================================
