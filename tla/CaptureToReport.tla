--------------------------- MODULE CaptureToReport ---------------------------
(***************************************************************************)
(* sippycup/integration.py, execute_campaign: one campaign from packet     *)
(* capture to report.  The main thread starts tcpdump, probes the          *)
(* destinations, hands over to run_plan (CampaignSupervisor, here by its   *)
(* contract: stop conditions are tested before each step and while it      *)
(* runs), then stops the capture, reports and writes the result.  It runs  *)
(* against the CaptureWatchdog thread, the capture process, one operator   *)
(* signal and the traffic.  run_plan replaces the signal handlers while it *)
(* runs, so a signal is recorded where the handler in force puts it.       *)
(***************************************************************************)
EXTENDS Integers

CONSTANTS N,             \* steps in the plan
          Dests,         \* used destinations
          Ceiling,       \* hardMaxima.packets
          MaxSent,       \* bound: packets sent in a behaviour
          RetainPayload  \* evidence.retainPayload

ASSUME CaptureAssumption ==
    /\ N \in Nat /\ Dests \in Nat \ {0}
    /\ Ceiling \in Nat /\ MaxSent \in Nat
    /\ RetainPayload \in BOOLEAN

VARIABLES pc,        \* where the main thread is
          handler,   \* whose SIGINT/SIGTERM handler is installed
          outer,     \* execute_campaign's cancel_signal is set
          inner,     \* the supervisor's _cancel_signal is set
          capture,   \* the tcpdump process
          file,      \* capture.pcap exists
          sent,      \* packets put on the wire
          recorded,  \* packets in capture.pcap
          scanned,   \* packets the watchdog has read
          violation, \* CaptureWatchdog._violation is set
          watch,     \* the watchdog thread
          probed,    \* destinations probed
          step,      \* steps started
          result,    \* RunResult.state
          raising,   \* an exception other than _FinishExecution propagates
          died,      \* capture_died_early
          written,   \* the state in result.json
          asked,     \* where the operator's signal arrived, and the step then
          lostAt     \* where the capture process died by itself

signals == <<handler, outer, inner>>
packets == <<sent, recorded, scanned>>
progress == <<probed, step>>
ending == <<died, written>>
vars == <<pc, signals, capture, file, packets, violation, watch, progress, result,
          raising, ending, asked, lostAt>>

Before == {"startup", "waiting", "preflight", "checking", "dispatch"}
InPlan == {"admit", "step", "stepdone"}
After == {"restore", "finally", "stopcap", "drain", "verdict", "sanitize",
          "report", "write"}
Over == {"returned", "raised"}
State == {"succeeded", "failed", "cancelled", "timed_out", "preflight_failed",
          "ceiling_exceeded", "capture_process_died", "report_failed"}

ThreadOK ==
    /\ pc \in Before \cup InPlan \cup After \cup Over
    /\ handler \in {"outer", "inner", "old"}
    /\ outer \in BOOLEAN /\ inner \in BOOLEAN
    /\ probed \in 0..Dests /\ step \in 0..N
    /\ pc = "checking" => probed < Dests
PacketOK ==
    /\ capture \in {"unstarted", "alive", "dead"} /\ file \in BOOLEAN
    /\ sent \in 0..MaxSent /\ recorded \in 0..sent /\ scanned \in 0..recorded
    /\ violation \in BOOLEAN /\ watch \in {"off", "on", "stopped"}
OutcomeOK ==
    /\ result \in State /\ raising \in BOOLEAN /\ died \in BOOLEAN
    /\ written \in State \cup {"none"}
NoteOK ==
    /\ asked \in [at : Before \cup InPlan \cup After \cup Over \cup {"never"}, step : 0..N]
    /\ lostAt \in Before \cup InPlan \cup After \cup Over \cup {"never"}
TypeOK == ThreadOK /\ PacketOK /\ OutcomeOK /\ NoteOK

(* The handlers are in place; capture, watchdog and result have defaults.  *)
Init ==
    /\ pc = "startup"
    /\ handler = "outer" /\ outer = FALSE /\ inner = FALSE
    /\ capture = "unstarted" /\ file = FALSE
    /\ sent = 0 /\ recorded = 0 /\ scanned = 0
    /\ violation = FALSE /\ watch = "off"
    /\ probed = 0 /\ step = 0
    /\ result = "failed" /\ raising = FALSE /\ died = FALSE
    /\ written = "none"
    /\ asked = [at |-> "never", step |-> 0] /\ lostAt = "never"

-----------------------------------------------------------------------------
(* raise _FinishExecution with a result, or let an exception propagate.    *)
Finish(state) ==
    /\ pc' = "finally" /\ result' = state /\ UNCHANGED raising
Propagate ==
    /\ pc' = "finally" /\ raising' = TRUE /\ UNCHANGED result
Go(where) == pc' = where /\ UNCHANGED <<result, raising>>

(* traffic_stop_reason()                                                   *)
TrafficStop ==
    CASE capture = "dead" -> "capture_process_died"
      [] capture # "dead" /\ violation -> "ceiling_exceeded"
      [] OTHER -> "none"

-----------------------------------------------------------------------------
(* Capture startup.                                                        *)

StartCapture ==
    /\ pc = "startup"
    /\ \/ capture' = "alive" /\ Go("waiting")
       \/ Propagate /\ UNCHANGED capture
    /\ UNCHANGED <<signals, file, packets, violation, watch, progress, ending,
                   asked, lostAt>>

AwaitCapture ==
    /\ pc = "waiting"
    /\ \/ ~file /\ outer /\ Finish("cancelled") /\ UNCHANGED watch
       \/ ~file /\ ~outer /\ Propagate /\ UNCHANGED watch   \* died, or 3 s passed
       \/ file /\ capture = "dead" /\ Propagate /\ UNCHANGED watch
       \/ file /\ capture = "alive" /\ watch' = "on" /\ Go("preflight")
    /\ UNCHANGED <<signals, capture, file, packets, violation, progress, ending,
                   asked, lostAt>>

-----------------------------------------------------------------------------
(* The OPTIONS preflight of every used destination.                        *)

Probe ==
    /\ pc = "preflight"
    /\ \/ probed = Dests /\ Go("dispatch") /\ UNCHANGED sent
       \/ probed < Dests /\ outer /\ Finish("cancelled") /\ UNCHANGED sent
       \/ /\ probed < Dests /\ ~outer /\ Go("checking")
          /\ sent' = IF sent < MaxSent THEN sent + 1 ELSE sent
    /\ UNCHANGED <<signals, capture, file, recorded, scanned, violation, watch,
                   progress, ending, asked, lostAt>>

(* The preflight answered, or not, while everything else went on.          *)
JudgeProbe ==
    /\ pc = "checking"
    /\ \/ outer /\ Finish("cancelled") /\ UNCHANGED probed
       \/ ~outer /\ TrafficStop # "none" /\ Finish(TrafficStop) /\ UNCHANGED probed
       \/ ~outer /\ TrafficStop = "none" /\ Finish("preflight_failed") /\ UNCHANGED probed
       \/ ~outer /\ TrafficStop = "none" /\ Go("preflight") /\ probed' = probed + 1
    /\ UNCHANGED <<signals, capture, file, packets, violation, watch, step, ending,
                   asked, lostAt>>

-----------------------------------------------------------------------------
(* run_plan.                                                               *)

(* Write preflight.json, revalidate the plan, create the event stream; any *)
(* of them may raise.  The last thing before run() is to take the signals. *)
EnterPlan ==
    /\ pc = "dispatch"
    /\ \/ Propagate /\ UNCHANGED handler
       \/ handler' = "inner" /\ Go("admit")
    /\ UNCHANGED <<outer, inner, capture, file, packets, violation, watch, progress,
                   ending, asked, lostAt>>

PlanEnds(state) == pc' = "restore" /\ result' = state /\ UNCHANGED raising

Admit ==
    /\ pc = "admit"
    /\ CASE step = N -> PlanEnds("succeeded") /\ UNCHANGED step
         [] step < N /\ TrafficStop # "none" -> PlanEnds(TrafficStop) /\ UNCHANGED step
         [] step < N /\ TrafficStop = "none" /\ inner
               -> PlanEnds("cancelled") /\ UNCHANGED step
         [] OTHER -> \/ step' = step + 1 /\ Go("step")
                     \/ PlanEnds("timed_out") /\ UNCHANGED step
    /\ UNCHANGED <<signals, capture, file, packets, violation, watch, probed, ending,
                   asked, lostAt>>

(* A turn of _run_step's loop that stops the step, or finds it ended.      *)
RunStep ==
    /\ pc = "step"
    /\ CASE inner -> PlanEnds("cancelled")
         [] ~inner /\ TrafficStop # "none" -> PlanEnds(TrafficStop)
         [] OTHER -> Go("stepdone") \/ PlanEnds("timed_out")
    /\ UNCHANGED <<signals, capture, file, packets, violation, watch, progress,
                   ending, asked, lostAt>>

StepEnds ==
    /\ pc = "stepdone"
    /\ Go("admit") \/ PlanEnds("failed")
    /\ UNCHANGED <<signals, capture, file, packets, violation, watch, progress,
                   ending, asked, lostAt>>

(* An event that cannot be written, or a reader thread that cannot start.  *)
PlanRaises ==
    /\ pc \in InPlan
    /\ pc' = "restore" /\ raising' = TRUE /\ UNCHANGED result
    /\ UNCHANGED <<signals, capture, file, packets, violation, watch, progress,
                   ending, asked, lostAt>>

(* run_plan's finally clause puts the previous handlers back.              *)
LeavePlan ==
    /\ pc = "restore"
    /\ handler' = "outer"
    /\ Go("finally")
    /\ UNCHANGED <<outer, inner, capture, file, packets, violation, watch, progress,
                   ending, asked, lostAt>>

-----------------------------------------------------------------------------
(* The finally clause.                                                     *)

(* Mutant: nobody looks whether the capture was still alive.               *)
SnapshotForgotten ==
    /\ pc = "finally"
    /\ Go("stopcap")
    /\ UNCHANGED <<signals, capture, file, packets, violation, watch, progress,
                   ending, asked, lostAt>>

Snapshot ==
    /\ pc = "finally"
    /\ died' = (capture = "dead")
    /\ Go("stopcap")
    /\ UNCHANGED <<signals, capture, file, packets, violation, watch, progress,
                   written, asked, lostAt>>

(* Mutant: SIGTERM without waiting for the group.                          *)
StopCaptureUnwaited ==
    /\ pc = "stopcap"
    /\ Go(IF watch = "on" THEN "drain" ELSE "sanitize")
    /\ UNCHANGED <<signals, capture, file, packets, violation, watch, progress,
                   ending, asked, lostAt>>

(* _stop_group(capture): tcpdump may flush what it still holds.            *)
StopCapture ==
    /\ pc = "stopcap"
    /\ IF capture = "alive"
       THEN capture' = "dead" /\ (IF file THEN recorded' \in recorded..sent
                                          ELSE UNCHANGED recorded)
       ELSE UNCHANGED <<capture, recorded>>
    /\ Go(IF watch = "on" THEN "drain" ELSE "sanitize")
    /\ UNCHANGED <<signals, file, sent, scanned, violation, watch, progress, ending,
                   asked, lostAt>>

StopWatchdog ==
    /\ pc = "drain"
    /\ watch' = "stopped"
    /\ Go("verdict")
    /\ UNCHANGED <<signals, capture, file, packets, violation, progress, ending,
                   asked, lostAt>>

Adjust ==
    /\ pc = "verdict"
    /\ pc' = "sanitize"
    /\ result' = CASE result = "succeeded" /\ violation -> "ceiling_exceeded"
                   [] result = "succeeded" /\ ~violation /\ died -> "capture_process_died"
                   [] OTHER -> result
    /\ UNCHANGED <<raising, signals, capture, file, packets, violation, watch,
                   progress, ending, asked, lostAt>>

(* strip_media_payload refuses a capture that is not a whole classic PCAP; *)
(* it raises out of the finally clause.                                    *)
Sanitize ==
    /\ pc = "sanitize"
    /\ \/ file /\ ~RetainPayload /\ pc' = "raised"
       \/ file /\ pc' = "report"
       \/ ~file /\ pc' = "write"
    /\ UNCHANGED <<result, raising, signals, capture, file, packets, violation,
                   watch, progress, ending, asked, lostAt>>

(* Mutant: a signal during the run is not looked up again.                 *)
JudgeReportOnly ==
    /\ pc = "report"
    /\ pc' = "write"
    /\ result' \in (IF result = "succeeded" THEN {result, "report_failed"} ELSE {result})
    /\ UNCHANGED <<raising, signals, capture, file, packets, violation, watch,
                   progress, ending, asked, lostAt>>

(* The report ends, is stopped after a signal or 30 s, or does not start.  *)
JudgeReport ==
    /\ pc = "report"
    /\ pc' = "write"
    /\ \/ outer /\ result' = "cancelled"
       \/ ~outer /\ UNCHANGED result
       \/ ~outer /\ result = "succeeded" /\ result' = "report_failed"
    /\ UNCHANGED <<raising, signals, capture, file, packets, violation, watch,
                   progress, ending, asked, lostAt>>

(* result.json, timestamps.json, the handlers, evidence-manifest.json.     *)
WriteResult ==
    /\ pc = "write"
    /\ \/ /\ written' = result /\ handler' = "old"
          /\ pc' \in (IF raising THEN {"raised"} ELSE {"returned", "raised"})
       \/ pc' = "raised" /\ UNCHANGED <<written, handler>>
    /\ UNCHANGED <<result, raising, outer, inner, capture, file, packets, violation,
                   watch, progress, died, asked, lostAt>>

-----------------------------------------------------------------------------
(* The environment.                                                        *)

(* The operator signals once ("do not repeatedly send signals").           *)
Signal ==
    /\ asked.at = "never" /\ handler # "old" /\ pc \notin Over
    /\ asked' = [at |-> pc, step |-> step]
    /\ IF handler = "outer" THEN outer' = TRUE /\ UNCHANGED inner
                            ELSE inner' = TRUE /\ UNCHANGED outer
    /\ UNCHANGED <<pc, handler, capture, file, packets, violation, watch, progress,
                   result, raising, ending, lostAt>>

CaptureReady ==
    /\ capture = "alive" /\ ~file
    /\ file' = TRUE
    /\ UNCHANGED <<pc, signals, capture, packets, violation, watch, progress,
                   result, raising, ending, asked, lostAt>>

CaptureDies ==
    /\ capture = "alive"
    /\ capture' = "dead" /\ lostAt' = pc
    /\ UNCHANGED <<pc, signals, file, packets, violation, watch, progress, result,
                   raising, ending, asked>>

Send ==
    /\ pc = "step" /\ sent < MaxSent
    /\ sent' = sent + 1
    /\ UNCHANGED <<pc, signals, capture, file, recorded, scanned, violation, watch,
                   progress, result, raising, ending, asked, lostAt>>

Record ==
    /\ capture = "alive" /\ file /\ recorded < sent
    /\ recorded' = recorded + 1
    /\ UNCHANGED <<pc, signals, capture, file, sent, scanned, violation, watch,
                   progress, result, raising, ending, asked, lostAt>>

(* CaptureWatchdog._run reads one record and judges the totals.            *)
Scan ==
    /\ watch = "on" /\ ~violation /\ scanned < recorded
    /\ scanned' = scanned + 1
    /\ violation' = (scanned' > Ceiling)
    /\ UNCHANGED <<pc, signals, capture, file, sent, recorded, watch, progress,
                   result, raising, ending, asked, lostAt>>

Main ==
    \/ StartCapture \/ AwaitCapture \/ Probe \/ JudgeProbe
    \/ EnterPlan \/ Admit \/ RunStep \/ StepEnds \/ PlanRaises \/ LeavePlan \/ Snapshot
    \/ StopCapture \/ StopWatchdog \/ Adjust \/ Sanitize \/ JudgeReport \/ WriteResult
Next ==
    \/ Main
    \/ Signal \/ CaptureReady \/ CaptureDies \/ Send \/ Record \/ Scan

Spec == Init /\ [][Next]_vars

-----------------------------------------------------------------------------
(* Properties.                                                             *)

Offline == {"drain", "verdict", "sanitize", "report", "write"}

Ending == {"finally", "stopcap"} \cup Offline
OwnHandler == (Before \cup After) \ {"restore"}
Judged == Offline \ {"drain", "verdict"}
Lost == lostAt \notin {"never", "stopcap"}

HandlerInv ==
    /\ pc \in OwnHandler => handler = "outer"
    /\ pc \in InPlan \cup {"restore"} => handler = "inner"
CaptureInv ==
    /\ pc = "startup" => capture = "unstarted"
    /\ pc \in Offline \cup Over => capture # "alive"
    /\ watch # "off" => file
    /\ pc \in {"preflight", "checking", "dispatch", "restore"} \cup InPlan
          => watch = "on"
    /\ pc = "drain" => watch = "on"
    /\ pc \in (Offline \ {"drain"}) \cup Over => watch # "on"
    /\ pc \notin Offline \cup Over => watch # "stopped"
    /\ violation => watch # "off"
ResultInv ==
    /\ result = "succeeded" => watch # "off"
    /\ raising => pc \in {"restore"} \cup Ending \cup Over
    /\ ~raising /\ ~file /\ pc \in Ending \cup {"returned"} => result = "cancelled"
    /\ pc = "returned" => ~raising /\ written = result
LossInv ==
    /\ Lost => capture = "dead"
    /\ Lost /\ pc \in {"stopcap"} \cup Offline => died
    /\ (Lost \/ violation) /\ pc \in Judged \cup {"returned"} => result # "succeeded"
SignalInv ==
    /\ asked.at \in OwnHandler => outer
    /\ asked.at \in OwnHandler \ {"write"} /\ ~raising /\ pc \in {"write", "returned"}
          => result = "cancelled"

(* The inductive invariant: what is known of the handlers, the capture, the *)
(* watchdog and the result at each point of execute_campaign.               *)
IInv == TypeOK /\ HandlerInv /\ CaptureInv /\ ResultInv /\ LossInv /\ SignalInv

(* execute_campaign stops the capture for good: nothing adds a packet to    *)
(* capture.pcap once it is sanitised, reported on and hashed.              *)
PcapFinal ==
    [][(pc \in Offline \cup Over) => file' = file /\ recorded' = recorded]_vars

(* A capture that died by itself, in startup or while traffic ran, never    *)
(* lets the campaign be recorded as a success ("Capture death is a hard     *)
(* failure"), although only poll() at three places looks for it.            *)
DeathIsFailure ==
    pc = "returned" /\ Lost => written # "succeeded"

(* A ceiling the watchdog saw crossed, in the last step too, is no success. *)
SeenViolationIsFailure == pc = "returned" /\ violation => written # "succeeded"

(* Neither the capture's death nor a ceiling seen crossed is lost between   *)
(* the three places that look for them and the recorded state.              *)
FailuresAreRecorded == DeathIsFailure /\ SeenViolationIsFailure

(* A signal that execute_campaign's own handler took, before run_plan or    *)
(* from its end to the end of the report, is recorded as a cancellation.    *)
SignalHeeded ==
    pc = "returned" /\ asked.at \in OwnHandler \ {"write"}
        => written = "cancelled"

(* "Crossing a ceiling stops admission and the active process group": no    *)
(* campaign whose capture holds more packets than the ceiling succeeds.     *)
CeilingEndsInFailure == pc = "returned" /\ recorded > Ceiling => written # "succeeded"

(* "SIGINT stops admission of new traffic [...] This applies during capture *)
(* startup, preflight, a running step": after a signal during preflight no  *)
(* step starts.                                                            *)
SignalStopsAdmission == asked.at \in Before => step = 0
=============================================================================
