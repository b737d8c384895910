------------------------ MODULE CaptureToReportProofs ------------------------
(***************************************************************************)
(* CaptureToReport for every plan, number of destinations and ceiling.     *)
(* IInv is inductive; each property is read off it.  Every action has a    *)
(* lemma, with one step for each part of IInv.                             *)
(***************************************************************************)
EXTENDS CaptureToReport, TLAPS

USE DEF Before, InPlan, After, Over, State, Offline, Ending, OwnHandler, Judged

(* execute_campaign starts where IInv holds.                               *)
LEMMA InitInv == Init => IInv
<1> SUFFICES ASSUME Init PROVE IInv
  OBVIOUS
<1> USE CaptureAssumption DEF Init
<1>1. TypeOK
  <2>0. 0 \in 0..Dests /\ 0 \in 0..N /\ 0 \in 0..MaxSent /\ 0 \in 0..0
    OBVIOUS
  <2>1. ThreadOK
    BY <2>0 DEF ThreadOK
  <2>2. PacketOK
    BY <2>0 DEF PacketOK
  <2>3. OutcomeOK
    BY DEF OutcomeOK
  <2>4. NoteOK
    BY DEF NoteOK
  <2>5. QED
    BY <2>1, <2>2, <2>3, <2>4 DEF TypeOK
<1>2. HandlerInv /\ CaptureInv /\ ResultInv
  BY DEF HandlerInv, CaptureInv, ResultInv
<1>3. LossInv /\ SignalInv
  BY DEF LossInv, SignalInv, Lost
<1>4. QED
  BY <1>1, <1>2, <1>3 DEF IInv

(* StartCapture preserves the invariant.                                *)
LEMMA StartCaptureKeeps ==
  ASSUME IInv, StartCapture
  PROVE  IInv'
<1> USE CaptureAssumption
    DEF IInv, StartCapture, Go, Propagate, signals, packets, progress, ending, Lost
<1>1. TypeOK'
  <2>1. ThreadOK'
    BY DEF TypeOK, ThreadOK
  <2>2. PacketOK'
    BY DEF TypeOK, PacketOK
  <2>3. OutcomeOK'
    BY DEF TypeOK, OutcomeOK
  <2>4. NoteOK'
    BY DEF TypeOK, NoteOK
  <2>5. QED
    BY <2>1, <2>2, <2>3, <2>4 DEF TypeOK
<1>2. HandlerInv'
  BY DEF TypeOK, ThreadOK, HandlerInv
<1>3. CaptureInv'
  BY DEF TypeOK, ThreadOK, PacketOK, OutcomeOK, CaptureInv
<1>4. ResultInv'
  BY DEF TypeOK, ThreadOK, PacketOK, OutcomeOK, CaptureInv, ResultInv
<1>5. LossInv'
  BY DEF TypeOK, ThreadOK, PacketOK, OutcomeOK, CaptureInv, ResultInv, LossInv
<1>6. SignalInv'
  BY DEF TypeOK, ThreadOK, OutcomeOK, NoteOK, HandlerInv, CaptureInv, ResultInv, SignalInv
<1>7. QED
  BY <1>1, <1>2, <1>3, <1>4, <1>5, <1>6

(* AwaitCapture preserves the invariant.                                *)
LEMMA AwaitCaptureKeeps ==
  ASSUME IInv, AwaitCapture
  PROVE  IInv'
<1> USE CaptureAssumption
    DEF IInv, AwaitCapture, Go, Finish, Propagate, signals, packets, progress, ending, Lost
<1>1. TypeOK'
  <2>1. ThreadOK'
    BY DEF TypeOK, ThreadOK
  <2>2. PacketOK'
    BY DEF TypeOK, PacketOK
  <2>3. OutcomeOK'
    BY DEF TypeOK, OutcomeOK
  <2>4. NoteOK'
    BY DEF TypeOK, NoteOK
  <2>5. QED
    BY <2>1, <2>2, <2>3, <2>4 DEF TypeOK
<1>2. HandlerInv'
  BY DEF TypeOK, ThreadOK, HandlerInv
<1>3. CaptureInv'
  BY DEF TypeOK, ThreadOK, PacketOK, OutcomeOK, CaptureInv
<1>4. ResultInv'
  BY DEF TypeOK, ThreadOK, PacketOK, OutcomeOK, CaptureInv, ResultInv
<1>5. LossInv'
  BY DEF TypeOK, ThreadOK, PacketOK, OutcomeOK, CaptureInv, ResultInv, LossInv
<1>6. SignalInv'
  BY DEF TypeOK, ThreadOK, OutcomeOK, NoteOK, HandlerInv, CaptureInv, ResultInv, SignalInv
<1>7. QED
  BY <1>1, <1>2, <1>3, <1>4, <1>5, <1>6

(* Probe preserves the invariant.                                       *)
LEMMA ProbeKeeps ==
  ASSUME IInv, Probe
  PROVE  IInv'
<1> USE CaptureAssumption
    DEF IInv, Probe, Go, Finish, signals, packets, progress, ending, Lost
<1>1. TypeOK'
  <2>1. ThreadOK'
    BY DEF TypeOK, ThreadOK
  <2>2. PacketOK'
    BY DEF TypeOK, PacketOK
  <2>3. OutcomeOK'
    BY DEF TypeOK, OutcomeOK
  <2>4. NoteOK'
    BY DEF TypeOK, NoteOK
  <2>5. QED
    BY <2>1, <2>2, <2>3, <2>4 DEF TypeOK
<1>2. HandlerInv'
  BY DEF TypeOK, ThreadOK, HandlerInv
<1>3. CaptureInv'
  BY DEF TypeOK, ThreadOK, PacketOK, OutcomeOK, CaptureInv
<1>4. ResultInv'
  BY DEF TypeOK, ThreadOK, PacketOK, OutcomeOK, CaptureInv, ResultInv
<1>5. LossInv'
  BY DEF TypeOK, ThreadOK, PacketOK, OutcomeOK, CaptureInv, ResultInv, LossInv
<1>6. SignalInv'
  BY DEF TypeOK, ThreadOK, OutcomeOK, NoteOK, HandlerInv, CaptureInv, ResultInv, SignalInv
<1>7. QED
  BY <1>1, <1>2, <1>3, <1>4, <1>5, <1>6

(* JudgeProbe preserves the invariant.                                  *)
LEMMA JudgeProbeKeeps ==
  ASSUME IInv, JudgeProbe
  PROVE  IInv'
<1> USE CaptureAssumption
    DEF IInv, JudgeProbe, Go, Finish, TrafficStop, signals, packets, progress, ending, Lost
<1>1. TypeOK'
  <2>1. ThreadOK'
    BY DEF TypeOK, ThreadOK
  <2>2. PacketOK'
    BY DEF TypeOK, PacketOK
  <2>3. OutcomeOK'
    BY DEF TypeOK, OutcomeOK
  <2>4. NoteOK'
    BY DEF TypeOK, NoteOK
  <2>5. QED
    BY <2>1, <2>2, <2>3, <2>4 DEF TypeOK
<1>2. HandlerInv'
  BY DEF TypeOK, ThreadOK, HandlerInv
<1>3. CaptureInv'
  BY DEF TypeOK, ThreadOK, PacketOK, OutcomeOK, CaptureInv
<1>4. ResultInv'
  BY DEF TypeOK, ThreadOK, PacketOK, OutcomeOK, CaptureInv, ResultInv
<1>5. LossInv'
  BY DEF TypeOK, ThreadOK, PacketOK, OutcomeOK, CaptureInv, ResultInv, LossInv
<1>6. SignalInv'
  BY DEF TypeOK, ThreadOK, OutcomeOK, NoteOK, HandlerInv, CaptureInv, ResultInv, SignalInv
<1>7. QED
  BY <1>1, <1>2, <1>3, <1>4, <1>5, <1>6

(* EnterPlan preserves the invariant.                                   *)
LEMMA EnterPlanKeeps ==
  ASSUME IInv, EnterPlan
  PROVE  IInv'
<1> USE CaptureAssumption
    DEF IInv, EnterPlan, Go, Propagate, signals, packets, progress, ending, Lost
<1>1. TypeOK'
  <2>1. ThreadOK'
    BY DEF TypeOK, ThreadOK
  <2>2. PacketOK'
    BY DEF TypeOK, PacketOK
  <2>3. OutcomeOK'
    BY DEF TypeOK, OutcomeOK
  <2>4. NoteOK'
    BY DEF TypeOK, NoteOK
  <2>5. QED
    BY <2>1, <2>2, <2>3, <2>4 DEF TypeOK
<1>2. HandlerInv'
  BY DEF TypeOK, ThreadOK, HandlerInv
<1>3. CaptureInv'
  BY DEF TypeOK, ThreadOK, PacketOK, OutcomeOK, CaptureInv
<1>4. ResultInv'
  BY DEF TypeOK, ThreadOK, PacketOK, OutcomeOK, CaptureInv, ResultInv
<1>5. LossInv'
  BY DEF TypeOK, ThreadOK, PacketOK, OutcomeOK, CaptureInv, ResultInv, LossInv
<1>6. SignalInv'
  BY DEF TypeOK, ThreadOK, OutcomeOK, NoteOK, HandlerInv, CaptureInv, ResultInv, SignalInv
<1>7. QED
  BY <1>1, <1>2, <1>3, <1>4, <1>5, <1>6

(* Admit preserves the invariant.                                       *)
LEMMA AdmitKeeps ==
  ASSUME IInv, Admit
  PROVE  IInv'
<1> USE CaptureAssumption
    DEF IInv, Admit, Go, PlanEnds, TrafficStop, signals, packets, progress, ending, Lost
<1>1. TypeOK'
  <2>1. ThreadOK'
    BY DEF TypeOK, ThreadOK
  <2>2. PacketOK'
    BY DEF TypeOK, PacketOK
  <2>3. OutcomeOK'
    BY DEF TypeOK, OutcomeOK
  <2>4. NoteOK'
    BY DEF TypeOK, NoteOK
  <2>5. QED
    BY <2>1, <2>2, <2>3, <2>4 DEF TypeOK
<1>2. HandlerInv'
  BY DEF TypeOK, ThreadOK, HandlerInv
<1>3. CaptureInv'
  BY DEF TypeOK, ThreadOK, PacketOK, OutcomeOK, CaptureInv
<1>4. ResultInv'
  BY DEF TypeOK, ThreadOK, PacketOK, OutcomeOK, CaptureInv, ResultInv
<1>5. LossInv'
  BY DEF TypeOK, ThreadOK, PacketOK, OutcomeOK, CaptureInv, ResultInv, LossInv
<1>6. SignalInv'
  BY DEF TypeOK, ThreadOK, OutcomeOK, NoteOK, HandlerInv, CaptureInv, ResultInv, SignalInv
<1>7. QED
  BY <1>1, <1>2, <1>3, <1>4, <1>5, <1>6

(* RunStep preserves the invariant.                                     *)
LEMMA RunStepKeeps ==
  ASSUME IInv, RunStep
  PROVE  IInv'
<1> USE CaptureAssumption
    DEF IInv, RunStep, Go, PlanEnds, TrafficStop, signals, packets, progress, ending, Lost
<1>1. TypeOK'
  <2>1. ThreadOK'
    BY DEF TypeOK, ThreadOK
  <2>2. PacketOK'
    BY DEF TypeOK, PacketOK
  <2>3. OutcomeOK'
    BY DEF TypeOK, OutcomeOK
  <2>4. NoteOK'
    BY DEF TypeOK, NoteOK
  <2>5. QED
    BY <2>1, <2>2, <2>3, <2>4 DEF TypeOK
<1>2. HandlerInv'
  BY DEF TypeOK, ThreadOK, HandlerInv
<1>3. CaptureInv'
  BY DEF TypeOK, ThreadOK, PacketOK, OutcomeOK, CaptureInv
<1>4. ResultInv'
  BY DEF TypeOK, ThreadOK, PacketOK, OutcomeOK, CaptureInv, ResultInv
<1>5. LossInv'
  BY DEF TypeOK, ThreadOK, PacketOK, OutcomeOK, CaptureInv, ResultInv, LossInv
<1>6. SignalInv'
  BY DEF TypeOK, ThreadOK, OutcomeOK, NoteOK, HandlerInv, CaptureInv, ResultInv, SignalInv
<1>7. QED
  BY <1>1, <1>2, <1>3, <1>4, <1>5, <1>6

(* StepEnds preserves the invariant.                                    *)
LEMMA StepEndsKeeps ==
  ASSUME IInv, StepEnds
  PROVE  IInv'
<1> USE CaptureAssumption
    DEF IInv, StepEnds, Go, PlanEnds, signals, packets, progress, ending, Lost
<1>1. TypeOK'
  <2>1. ThreadOK'
    BY DEF TypeOK, ThreadOK
  <2>2. PacketOK'
    BY DEF TypeOK, PacketOK
  <2>3. OutcomeOK'
    BY DEF TypeOK, OutcomeOK
  <2>4. NoteOK'
    BY DEF TypeOK, NoteOK
  <2>5. QED
    BY <2>1, <2>2, <2>3, <2>4 DEF TypeOK
<1>2. HandlerInv'
  BY DEF TypeOK, ThreadOK, HandlerInv
<1>3. CaptureInv'
  BY DEF TypeOK, ThreadOK, PacketOK, OutcomeOK, CaptureInv
<1>4. ResultInv'
  BY DEF TypeOK, ThreadOK, PacketOK, OutcomeOK, CaptureInv, ResultInv
<1>5. LossInv'
  BY DEF TypeOK, ThreadOK, PacketOK, OutcomeOK, CaptureInv, ResultInv, LossInv
<1>6. SignalInv'
  BY DEF TypeOK, ThreadOK, OutcomeOK, NoteOK, HandlerInv, CaptureInv, ResultInv, SignalInv
<1>7. QED
  BY <1>1, <1>2, <1>3, <1>4, <1>5, <1>6

(* PlanRaises preserves the invariant.                                  *)
LEMMA PlanRaisesKeeps ==
  ASSUME IInv, PlanRaises
  PROVE  IInv'
<1> USE CaptureAssumption
    DEF IInv, PlanRaises, signals, packets, progress, ending, Lost
<1>1. TypeOK'
  <2>1. ThreadOK'
    BY DEF TypeOK, ThreadOK
  <2>2. PacketOK'
    BY DEF TypeOK, PacketOK
  <2>3. OutcomeOK'
    BY DEF TypeOK, OutcomeOK
  <2>4. NoteOK'
    BY DEF TypeOK, NoteOK
  <2>5. QED
    BY <2>1, <2>2, <2>3, <2>4 DEF TypeOK
<1>2. HandlerInv'
  BY DEF TypeOK, ThreadOK, HandlerInv
<1>3. CaptureInv'
  BY DEF TypeOK, ThreadOK, PacketOK, OutcomeOK, CaptureInv
<1>4. ResultInv'
  BY DEF TypeOK, ThreadOK, PacketOK, OutcomeOK, CaptureInv, ResultInv
<1>5. LossInv'
  BY DEF TypeOK, ThreadOK, PacketOK, OutcomeOK, CaptureInv, ResultInv, LossInv
<1>6. SignalInv'
  BY DEF TypeOK, ThreadOK, OutcomeOK, NoteOK, HandlerInv, CaptureInv, ResultInv, SignalInv
<1>7. QED
  BY <1>1, <1>2, <1>3, <1>4, <1>5, <1>6

(* LeavePlan preserves the invariant.                                   *)
LEMMA LeavePlanKeeps ==
  ASSUME IInv, LeavePlan
  PROVE  IInv'
<1> USE CaptureAssumption
    DEF IInv, LeavePlan, Go, signals, packets, progress, ending, Lost
<1>1. TypeOK'
  <2>1. ThreadOK'
    BY DEF TypeOK, ThreadOK
  <2>2. PacketOK'
    BY DEF TypeOK, PacketOK
  <2>3. OutcomeOK'
    BY DEF TypeOK, OutcomeOK
  <2>4. NoteOK'
    BY DEF TypeOK, NoteOK
  <2>5. QED
    BY <2>1, <2>2, <2>3, <2>4 DEF TypeOK
<1>2. HandlerInv'
  BY DEF TypeOK, ThreadOK, HandlerInv
<1>3. CaptureInv'
  BY DEF TypeOK, ThreadOK, PacketOK, OutcomeOK, CaptureInv
<1>4. ResultInv'
  BY DEF TypeOK, ThreadOK, PacketOK, OutcomeOK, CaptureInv, ResultInv
<1>5. LossInv'
  BY DEF TypeOK, ThreadOK, PacketOK, OutcomeOK, CaptureInv, ResultInv, LossInv
<1>6. SignalInv'
  BY DEF TypeOK, ThreadOK, OutcomeOK, NoteOK, HandlerInv, CaptureInv, ResultInv, SignalInv
<1>7. QED
  BY <1>1, <1>2, <1>3, <1>4, <1>5, <1>6

(* Snapshot preserves the invariant.                                    *)
LEMMA SnapshotKeeps ==
  ASSUME IInv, Snapshot
  PROVE  IInv'
<1> USE CaptureAssumption
    DEF IInv, Snapshot, Go, signals, packets, progress, ending, Lost
<1>1. TypeOK'
  <2>1. ThreadOK'
    BY DEF TypeOK, ThreadOK
  <2>2. PacketOK'
    BY DEF TypeOK, PacketOK
  <2>3. OutcomeOK'
    BY DEF TypeOK, OutcomeOK
  <2>4. NoteOK'
    BY DEF TypeOK, NoteOK
  <2>5. QED
    BY <2>1, <2>2, <2>3, <2>4 DEF TypeOK
<1>2. HandlerInv'
  BY DEF TypeOK, ThreadOK, HandlerInv
<1>3. CaptureInv'
  BY DEF TypeOK, ThreadOK, PacketOK, OutcomeOK, CaptureInv
<1>4. ResultInv'
  BY DEF TypeOK, ThreadOK, PacketOK, OutcomeOK, CaptureInv, ResultInv
<1>5. LossInv'
  BY DEF TypeOK, ThreadOK, PacketOK, OutcomeOK, CaptureInv, ResultInv, LossInv
<1>6. SignalInv'
  BY DEF TypeOK, ThreadOK, OutcomeOK, NoteOK, HandlerInv, CaptureInv, ResultInv, SignalInv
<1>7. QED
  BY <1>1, <1>2, <1>3, <1>4, <1>5, <1>6

(* StopCapture preserves the invariant.                                 *)
LEMMA StopCaptureKeeps ==
  ASSUME IInv, StopCapture
  PROVE  IInv'
<1> USE CaptureAssumption
    DEF IInv, StopCapture, Go, signals, packets, progress, ending, Lost
<1>1. TypeOK'
  <2>1. ThreadOK'
    BY DEF TypeOK, ThreadOK
  <2>2. PacketOK'
    BY DEF TypeOK, PacketOK
  <2>3. OutcomeOK'
    BY DEF TypeOK, OutcomeOK
  <2>4. NoteOK'
    BY DEF TypeOK, NoteOK
  <2>5. QED
    BY <2>1, <2>2, <2>3, <2>4 DEF TypeOK
<1>2. HandlerInv'
  BY DEF TypeOK, ThreadOK, HandlerInv
<1>3. CaptureInv'
  BY DEF TypeOK, ThreadOK, PacketOK, OutcomeOK, CaptureInv
<1>4. ResultInv'
  BY DEF TypeOK, ThreadOK, PacketOK, OutcomeOK, CaptureInv, ResultInv
<1>5. LossInv'
  BY DEF TypeOK, ThreadOK, PacketOK, OutcomeOK, CaptureInv, ResultInv, LossInv
<1>6. SignalInv'
  BY DEF TypeOK, ThreadOK, OutcomeOK, NoteOK, HandlerInv, CaptureInv, ResultInv, SignalInv
<1>7. QED
  BY <1>1, <1>2, <1>3, <1>4, <1>5, <1>6

(* StopWatchdog preserves the invariant.                                *)
LEMMA StopWatchdogKeeps ==
  ASSUME IInv, StopWatchdog
  PROVE  IInv'
<1> USE CaptureAssumption
    DEF IInv, StopWatchdog, Go, signals, packets, progress, ending, Lost
<1>1. TypeOK'
  <2>1. ThreadOK'
    BY DEF TypeOK, ThreadOK
  <2>2. PacketOK'
    BY DEF TypeOK, PacketOK
  <2>3. OutcomeOK'
    BY DEF TypeOK, OutcomeOK
  <2>4. NoteOK'
    BY DEF TypeOK, NoteOK
  <2>5. QED
    BY <2>1, <2>2, <2>3, <2>4 DEF TypeOK
<1>2. HandlerInv'
  BY DEF TypeOK, ThreadOK, HandlerInv
<1>3. CaptureInv'
  BY DEF TypeOK, ThreadOK, PacketOK, OutcomeOK, CaptureInv
<1>4. ResultInv'
  BY DEF TypeOK, ThreadOK, PacketOK, OutcomeOK, CaptureInv, ResultInv
<1>5. LossInv'
  BY DEF TypeOK, ThreadOK, PacketOK, OutcomeOK, CaptureInv, ResultInv, LossInv
<1>6. SignalInv'
  BY DEF TypeOK, ThreadOK, OutcomeOK, NoteOK, HandlerInv, CaptureInv, ResultInv, SignalInv
<1>7. QED
  BY <1>1, <1>2, <1>3, <1>4, <1>5, <1>6

(* Adjust preserves the invariant.                                      *)
LEMMA AdjustKeeps ==
  ASSUME IInv, Adjust
  PROVE  IInv'
<1> USE CaptureAssumption
    DEF IInv, Adjust, signals, packets, progress, ending, Lost
<1>1. TypeOK'
  <2>1. ThreadOK'
    BY DEF TypeOK, ThreadOK
  <2>2. PacketOK'
    BY DEF TypeOK, PacketOK
  <2>3. OutcomeOK'
    BY DEF TypeOK, OutcomeOK
  <2>4. NoteOK'
    BY DEF TypeOK, NoteOK
  <2>5. QED
    BY <2>1, <2>2, <2>3, <2>4 DEF TypeOK
<1>2. HandlerInv'
  BY DEF TypeOK, ThreadOK, HandlerInv
<1>3. CaptureInv'
  BY DEF TypeOK, ThreadOK, PacketOK, OutcomeOK, CaptureInv
<1>4. ResultInv'
  BY DEF TypeOK, ThreadOK, PacketOK, OutcomeOK, CaptureInv, ResultInv
<1>5. LossInv'
  BY DEF TypeOK, ThreadOK, PacketOK, OutcomeOK, CaptureInv, ResultInv, LossInv
<1>6. SignalInv'
  BY DEF TypeOK, ThreadOK, OutcomeOK, NoteOK, HandlerInv, CaptureInv, ResultInv, SignalInv
<1>7. QED
  BY <1>1, <1>2, <1>3, <1>4, <1>5, <1>6

(* Sanitize preserves the invariant.                                    *)
LEMMA SanitizeKeeps ==
  ASSUME IInv, Sanitize
  PROVE  IInv'
<1> USE CaptureAssumption
    DEF IInv, Sanitize, signals, packets, progress, ending, Lost
<1>1. TypeOK'
  <2>1. ThreadOK'
    BY DEF TypeOK, ThreadOK
  <2>2. PacketOK'
    BY DEF TypeOK, PacketOK
  <2>3. OutcomeOK'
    BY DEF TypeOK, OutcomeOK
  <2>4. NoteOK'
    BY DEF TypeOK, NoteOK
  <2>5. QED
    BY <2>1, <2>2, <2>3, <2>4 DEF TypeOK
<1>2. HandlerInv'
  BY DEF TypeOK, ThreadOK, HandlerInv
<1>3. CaptureInv'
  BY DEF TypeOK, ThreadOK, PacketOK, OutcomeOK, CaptureInv
<1>4. ResultInv'
  BY DEF TypeOK, ThreadOK, PacketOK, OutcomeOK, CaptureInv, ResultInv
<1>5. LossInv'
  BY DEF TypeOK, ThreadOK, PacketOK, OutcomeOK, CaptureInv, ResultInv, LossInv
<1>6. SignalInv'
  BY DEF TypeOK, ThreadOK, OutcomeOK, NoteOK, HandlerInv, CaptureInv, ResultInv, SignalInv
<1>7. QED
  BY <1>1, <1>2, <1>3, <1>4, <1>5, <1>6

(* JudgeReport preserves the invariant.                                 *)
LEMMA JudgeReportKeeps ==
  ASSUME IInv, JudgeReport
  PROVE  IInv'
<1> USE CaptureAssumption
    DEF IInv, JudgeReport, signals, packets, progress, ending, Lost
<1>1. TypeOK'
  <2>1. ThreadOK'
    BY DEF TypeOK, ThreadOK
  <2>2. PacketOK'
    BY DEF TypeOK, PacketOK
  <2>3. OutcomeOK'
    BY DEF TypeOK, OutcomeOK
  <2>4. NoteOK'
    BY DEF TypeOK, NoteOK
  <2>5. QED
    BY <2>1, <2>2, <2>3, <2>4 DEF TypeOK
<1>2. HandlerInv'
  BY DEF TypeOK, ThreadOK, HandlerInv
<1>3. CaptureInv'
  BY DEF TypeOK, ThreadOK, PacketOK, OutcomeOK, CaptureInv
<1>4. ResultInv'
  BY DEF TypeOK, ThreadOK, PacketOK, OutcomeOK, CaptureInv, ResultInv
<1>5. LossInv'
  BY DEF TypeOK, ThreadOK, PacketOK, OutcomeOK, CaptureInv, ResultInv, LossInv
<1>6. SignalInv'
  BY DEF TypeOK, ThreadOK, OutcomeOK, NoteOK, HandlerInv, CaptureInv, ResultInv, SignalInv
<1>7. QED
  BY <1>1, <1>2, <1>3, <1>4, <1>5, <1>6

(* WriteResult preserves the invariant.                                 *)
LEMMA WriteResultKeeps ==
  ASSUME IInv, WriteResult
  PROVE  IInv'
<1> USE CaptureAssumption
    DEF IInv, WriteResult, signals, packets, progress, ending, Lost
<1>1. TypeOK'
  <2>1. ThreadOK'
    BY DEF TypeOK, ThreadOK
  <2>2. PacketOK'
    BY DEF TypeOK, PacketOK
  <2>3. OutcomeOK'
    BY DEF TypeOK, OutcomeOK
  <2>4. NoteOK'
    BY DEF TypeOK, NoteOK
  <2>5. QED
    BY <2>1, <2>2, <2>3, <2>4 DEF TypeOK
<1>2. HandlerInv'
  BY DEF TypeOK, ThreadOK, HandlerInv
<1>3. CaptureInv'
  BY DEF TypeOK, ThreadOK, PacketOK, OutcomeOK, CaptureInv
<1>4. ResultInv'
  BY DEF TypeOK, ThreadOK, PacketOK, OutcomeOK, CaptureInv, ResultInv
<1>5. LossInv'
  BY DEF TypeOK, ThreadOK, PacketOK, OutcomeOK, CaptureInv, ResultInv, LossInv
<1>6. SignalInv'
  BY DEF TypeOK, ThreadOK, OutcomeOK, NoteOK, HandlerInv, CaptureInv, ResultInv, SignalInv
<1>7. QED
  BY <1>1, <1>2, <1>3, <1>4, <1>5, <1>6

(* Signal preserves the invariant.                                      *)
LEMMA SignalKeeps ==
  ASSUME IInv, Signal
  PROVE  IInv'
<1> USE CaptureAssumption
    DEF IInv, Signal, signals, packets, progress, ending, Lost
<1>1. TypeOK'
  <2>1. ThreadOK'
    BY DEF TypeOK, ThreadOK
  <2>2. PacketOK'
    BY DEF TypeOK, PacketOK
  <2>3. OutcomeOK'
    BY DEF TypeOK, OutcomeOK
  <2>4. NoteOK'
    BY DEF TypeOK, ThreadOK, NoteOK
  <2>5. QED
    BY <2>1, <2>2, <2>3, <2>4 DEF TypeOK
<1>2. HandlerInv'
  BY DEF TypeOK, ThreadOK, HandlerInv
<1>3. CaptureInv'
  BY DEF TypeOK, ThreadOK, PacketOK, OutcomeOK, CaptureInv
<1>4. ResultInv'
  BY DEF TypeOK, ThreadOK, PacketOK, OutcomeOK, CaptureInv, ResultInv
<1>5. LossInv'
  BY DEF TypeOK, ThreadOK, PacketOK, OutcomeOK, CaptureInv, ResultInv, LossInv
<1>6. SignalInv'
  BY DEF TypeOK, ThreadOK, OutcomeOK, NoteOK, HandlerInv, CaptureInv, ResultInv, SignalInv
<1>7. QED
  BY <1>1, <1>2, <1>3, <1>4, <1>5, <1>6

(* CaptureReady preserves the invariant.                                *)
LEMMA CaptureReadyKeeps ==
  ASSUME IInv, CaptureReady
  PROVE  IInv'
<1> USE CaptureAssumption
    DEF IInv, CaptureReady, signals, packets, progress, ending, Lost
<1>1. TypeOK'
  <2>1. ThreadOK'
    BY DEF TypeOK, ThreadOK
  <2>2. PacketOK'
    BY DEF TypeOK, PacketOK
  <2>3. OutcomeOK'
    BY DEF TypeOK, OutcomeOK
  <2>4. NoteOK'
    BY DEF TypeOK, NoteOK
  <2>5. QED
    BY <2>1, <2>2, <2>3, <2>4 DEF TypeOK
<1>2. HandlerInv'
  BY DEF TypeOK, ThreadOK, HandlerInv
<1>3. CaptureInv'
  BY DEF TypeOK, ThreadOK, PacketOK, OutcomeOK, CaptureInv
<1>4. ResultInv'
  BY DEF TypeOK, ThreadOK, PacketOK, OutcomeOK, CaptureInv, ResultInv
<1>5. LossInv'
  BY DEF TypeOK, ThreadOK, PacketOK, OutcomeOK, CaptureInv, ResultInv, LossInv
<1>6. SignalInv'
  BY DEF TypeOK, ThreadOK, OutcomeOK, NoteOK, HandlerInv, CaptureInv, ResultInv, SignalInv
<1>7. QED
  BY <1>1, <1>2, <1>3, <1>4, <1>5, <1>6

(* CaptureDies preserves the invariant.                                 *)
LEMMA CaptureDiesKeeps ==
  ASSUME IInv, CaptureDies
  PROVE  IInv'
<1> USE CaptureAssumption
    DEF IInv, CaptureDies, signals, packets, progress, ending, Lost
<1>1. TypeOK'
  <2>1. ThreadOK'
    BY DEF TypeOK, ThreadOK
  <2>2. PacketOK'
    BY DEF TypeOK, PacketOK
  <2>3. OutcomeOK'
    BY DEF TypeOK, OutcomeOK
  <2>4. NoteOK'
    BY DEF TypeOK, ThreadOK, NoteOK
  <2>5. QED
    BY <2>1, <2>2, <2>3, <2>4 DEF TypeOK
<1>2. HandlerInv'
  BY DEF TypeOK, ThreadOK, HandlerInv
<1>3. CaptureInv'
  BY DEF TypeOK, ThreadOK, PacketOK, OutcomeOK, CaptureInv
<1>4. ResultInv'
  BY DEF TypeOK, ThreadOK, PacketOK, OutcomeOK, CaptureInv, ResultInv
<1>5. LossInv'
  BY DEF TypeOK, ThreadOK, PacketOK, OutcomeOK, CaptureInv, ResultInv, LossInv
<1>6. SignalInv'
  BY DEF TypeOK, ThreadOK, OutcomeOK, NoteOK, HandlerInv, CaptureInv, ResultInv, SignalInv
<1>7. QED
  BY <1>1, <1>2, <1>3, <1>4, <1>5, <1>6

(* Send preserves the invariant.                                        *)
LEMMA SendKeeps ==
  ASSUME IInv, Send
  PROVE  IInv'
<1> USE CaptureAssumption
    DEF IInv, Send, signals, packets, progress, ending, Lost
<1>1. TypeOK'
  <2>1. ThreadOK'
    BY DEF TypeOK, ThreadOK
  <2>2. PacketOK'
    BY DEF TypeOK, PacketOK
  <2>3. OutcomeOK'
    BY DEF TypeOK, OutcomeOK
  <2>4. NoteOK'
    BY DEF TypeOK, NoteOK
  <2>5. QED
    BY <2>1, <2>2, <2>3, <2>4 DEF TypeOK
<1>2. HandlerInv'
  BY DEF TypeOK, ThreadOK, HandlerInv
<1>3. CaptureInv'
  BY DEF TypeOK, ThreadOK, PacketOK, OutcomeOK, CaptureInv
<1>4. ResultInv'
  BY DEF TypeOK, ThreadOK, PacketOK, OutcomeOK, CaptureInv, ResultInv
<1>5. LossInv'
  BY DEF TypeOK, ThreadOK, PacketOK, OutcomeOK, CaptureInv, ResultInv, LossInv
<1>6. SignalInv'
  BY DEF TypeOK, ThreadOK, OutcomeOK, NoteOK, HandlerInv, CaptureInv, ResultInv, SignalInv
<1>7. QED
  BY <1>1, <1>2, <1>3, <1>4, <1>5, <1>6

(* Record preserves the invariant.                                      *)
LEMMA RecordKeeps ==
  ASSUME IInv, Record
  PROVE  IInv'
<1> USE CaptureAssumption
    DEF IInv, Record, signals, packets, progress, ending, Lost
<1>1. TypeOK'
  <2>1. ThreadOK'
    BY DEF TypeOK, ThreadOK
  <2>2. PacketOK'
    BY DEF TypeOK, PacketOK
  <2>3. OutcomeOK'
    BY DEF TypeOK, OutcomeOK
  <2>4. NoteOK'
    BY DEF TypeOK, NoteOK
  <2>5. QED
    BY <2>1, <2>2, <2>3, <2>4 DEF TypeOK
<1>2. HandlerInv'
  BY DEF TypeOK, ThreadOK, HandlerInv
<1>3. CaptureInv'
  BY DEF TypeOK, ThreadOK, PacketOK, OutcomeOK, CaptureInv
<1>4. ResultInv'
  BY DEF TypeOK, ThreadOK, PacketOK, OutcomeOK, CaptureInv, ResultInv
<1>5. LossInv'
  BY DEF TypeOK, ThreadOK, PacketOK, OutcomeOK, CaptureInv, ResultInv, LossInv
<1>6. SignalInv'
  BY DEF TypeOK, ThreadOK, OutcomeOK, NoteOK, HandlerInv, CaptureInv, ResultInv, SignalInv
<1>7. QED
  BY <1>1, <1>2, <1>3, <1>4, <1>5, <1>6

(* Scan preserves the invariant.                                        *)
LEMMA ScanKeeps ==
  ASSUME IInv, Scan
  PROVE  IInv'
<1> USE CaptureAssumption
    DEF IInv, Scan, signals, packets, progress, ending, Lost
<1>1. TypeOK'
  <2>1. ThreadOK'
    BY DEF TypeOK, ThreadOK
  <2>2. PacketOK'
    BY DEF TypeOK, PacketOK
  <2>3. OutcomeOK'
    BY DEF TypeOK, OutcomeOK
  <2>4. NoteOK'
    BY DEF TypeOK, NoteOK
  <2>5. QED
    BY <2>1, <2>2, <2>3, <2>4 DEF TypeOK
<1>2. HandlerInv'
  BY DEF TypeOK, ThreadOK, HandlerInv
<1>3. CaptureInv'
  BY DEF TypeOK, ThreadOK, PacketOK, OutcomeOK, CaptureInv
<1>4. ResultInv'
  BY DEF TypeOK, ThreadOK, PacketOK, OutcomeOK, CaptureInv, ResultInv
<1>5. LossInv'
  BY DEF TypeOK, ThreadOK, PacketOK, OutcomeOK, CaptureInv, ResultInv, LossInv
<1>6. SignalInv'
  BY DEF TypeOK, ThreadOK, OutcomeOK, NoteOK, HandlerInv, CaptureInv, ResultInv, SignalInv
<1>7. QED
  BY <1>1, <1>2, <1>3, <1>4, <1>5, <1>6

(* A step that changes nothing preserves the invariant.                     *)
LEMMA StutterKeeps ==
  ASSUME IInv, UNCHANGED vars
  PROVE  IInv'
  BY DEF IInv, TypeOK, ThreadOK, PacketOK, OutcomeOK, NoteOK, HandlerInv, CaptureInv,
     ResultInv, LossInv, SignalInv, vars,
     signals, packets, progress, ending, Lost

(* No step of execute_campaign or of what runs beside it leaves IInv.       *)
LEMMA NextInv ==
  ASSUME IInv, [Next]_vars
  PROVE  IInv'
  BY StartCaptureKeeps, AwaitCaptureKeeps, ProbeKeeps, JudgeProbeKeeps, EnterPlanKeeps,
     AdmitKeeps, RunStepKeeps, StepEndsKeeps, PlanRaisesKeeps, LeavePlanKeeps,
     SnapshotKeeps, StopCaptureKeeps, StopWatchdogKeeps, AdjustKeeps, SanitizeKeeps,
     JudgeReportKeeps, WriteResultKeeps, SignalKeeps, CaptureReadyKeeps, CaptureDiesKeeps,
     SendKeeps, RecordKeeps, ScanKeeps, StutterKeeps
     DEF Next, Main

(* The invariant of execute_campaign holds in every reachable state.        *)
THEOREM Invariant == Spec => []IInv
<1>1. Init => IInv
  BY InitInv
<1>2. IInv /\ [Next]_vars => IInv'
  BY NextInv
<1>3. QED
  BY <1>1, <1>2, PTL DEF Spec

(* Every variable keeps its type.                                          *)
THEOREM TypeCorrect == Spec => []TypeOK
<1>1. IInv => TypeOK
  BY DEF IInv
<1>2. QED
  BY <1>1, Invariant, PTL

(* A capture that died by itself never ends in a recorded success.          *)
THEOREM DeathFails == Spec => []DeathIsFailure
<1>1. IInv => DeathIsFailure
  BY DEF IInv, ResultInv, LossInv, DeathIsFailure, Lost
<1>2. QED
  BY <1>1, Invariant, PTL

(* A ceiling the watchdog saw crossed never ends in a recorded success.     *)
THEOREM ViolationFails == Spec => []SeenViolationIsFailure
<1>1. IInv => SeenViolationIsFailure
  BY DEF IInv, ResultInv, LossInv, SeenViolationIsFailure
<1>2. QED
  BY <1>1, Invariant, PTL

(* Neither a death nor a violation is recorded as a success.                *)
THEOREM FailuresStay == Spec => []FailuresAreRecorded
<1>1. DeathIsFailure /\ SeenViolationIsFailure => FailuresAreRecorded
  BY DEF FailuresAreRecorded
<1>2. QED
  BY <1>1, DeathFails, ViolationFails, PTL

(* A signal taken by execute_campaign's handler ends in a cancellation.     *)
THEOREM SignalCancels == Spec => []SignalHeeded
<1>1. IInv => SignalHeeded
  BY DEF IInv, ResultInv, SignalInv, SignalHeeded
<1>2. QED
  BY <1>1, Invariant, PTL

(* The capture file is final from the moment the capture was stopped.       *)
THEOREM PcapStaysFinal == Spec => PcapFinal
<1> DEFINE Final == (pc \in Offline \cup Over) => file' = file /\ recorded' = recorded
<1>1. ASSUME IInv, [Next]_vars
      PROVE  Final
  <2>1. SUFFICES ASSUME pc \in Offline \cup Over
                 PROVE  file' = file /\ recorded' = recorded
    OBVIOUS
  <2>2. capture # "alive"
    BY <1>1, <2>1 DEF IInv, CaptureInv
  <2>3. QED
    BY <1>1, <2>1, <2>2 DEF Next, Main, vars, packets,
       StartCapture, AwaitCapture, Probe, JudgeProbe, EnterPlan,
       Admit, RunStep, StepEnds, PlanRaises, LeavePlan,
       Snapshot, StopCapture, StopWatchdog, Adjust, Sanitize,
       JudgeReport, WriteResult, Signal, CaptureReady, CaptureDies,
       Send, Record, Scan
<1>2. QED
  BY <1>1, Invariant, PTL DEF Spec, PcapFinal
=============================================================================
