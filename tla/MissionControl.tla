---------------------------- MODULE MissionControl ----------------------------
(***************************************************************************)
(* sippycup_tui: events on their way to the mission-control view, and      *)
(* actions on their way back to the campaign.  A producer thread ingests   *)
(* records into a bounded buffer, the interface thread drains it through   *)
(* the reducer and turns keys into calls of the campaign's control API,    *)
(* which other clients of the controller call too.  The API is external:   *)
(* a call may raise, before or after it took effect.                       *)
(***************************************************************************)
EXTENDS Integers, Sequences

CONSTANTS Record,     \* what producers emit: [source, sequence, kind, metric]
          Capacity,   \* of the buffer
          Key,        \* idempotency keys of other clients
          MaxInputs   \* bound: records ingested, confirmations and calls of the API together

VARIABLES queue, pending,    \* BoundedEventBuffer: its queue, and _dropped
          bufferSeq, appSeq, \* the diagnostic sequence numbers of buffer and app
          producer,          \* "idle", or "full": queue.Full is about to be counted
          ui,                \* "idle", or where drain is: "check", "take"
          view,              \* ViewState
          shown,             \* the newest event whose payload the dashboard shows
          ingested,          \* what the producer has tried to put, oldest first
          tokens, issued,    \* the confirmation outstanding per action; how many there were
          receipts,          \* keys with a receipt
          calls,             \* API calls: [action, key, token, applied, acknowledged]
          stopped            \* close() was called

buffer == <<queue, pending, bufferSeq>>
screen == <<view, shown>>
control == <<tokens, issued, receipts, calls, stopped>>
vars == <<buffer, appSeq, producer, ui, screen, ingested, control>>

Phases == {"planning", "ready", "running", "warning", "stopping", "recovery",
           "complete", "failed"}
KindToPhase ==
    [k \in {"plan.started", "plan.ready", "run.started", "run.warning", "stop.requested",
            "recovery.started", "run.completed", "assertions.passed", "run.failed",
            "assertions.failed"} |->
       CASE k = "plan.started" -> "planning"  [] k = "plan.ready" -> "ready"
         [] k = "run.started" -> "running"    [] k = "run.warning" -> "warning"
         [] k = "stop.requested" -> "stopping" [] k = "recovery.started" -> "recovery"
         [] k \in {"run.completed", "assertions.passed"} -> "complete"
         [] OTHER -> "failed"]
Dangerous == {"start", "emergency-stop", "skip"}
Action == Dangerous \cup {"pause-new-calls", "graceful-stop"}

Event(source, sequence, kind, count, metric) ==
    [source |-> source, sequence |-> sequence, kind |-> kind, count |-> count, metric |-> metric]
NoEvent == Event("none", 0, "none", 0, "none")
More == Len(ingested) + issued + Len(calls) < MaxInputs
Init ==
    /\ queue = <<>> /\ pending = 0 /\ bufferSeq = 0 /\ appSeq = 0
    /\ producer = "idle" /\ ui = "idle"
    /\ view = [phase |-> "planning", last |-> [s \in {} |-> 0], processed |-> 0,
               dropped |-> 0, late |-> 0, errors |-> 0]
    /\ shown = NoEvent /\ ingested = <<>>
    /\ tokens = [a \in Dangerous |-> 0] /\ issued = 0
    /\ receipts = {} /\ calls = <<>> /\ stopped = FALSE

-----------------------------------------------------------------------------
(* The producer.                                                           *)

(* adapt_campaign, adapt_assertion, decode_event: the event of a record;    *)
(* none for progress of a step; a malformed record becomes a schema error.  *)
Adapted(r) ==
    CASE r.kind = "step.output" -> NoEvent
      [] r.kind = "malformed" -> Event("ui-decoder", appSeq + 1, "ui.schema-error", 0, "none")
      [] OTHER -> Event(r.source, r.sequence, r.kind, 0, r.metric)

Put(e) ==
    IF Len(queue) < Capacity
      THEN queue' = Append(queue, e) /\ UNCHANGED producer
      ELSE producer' = "full" /\ UNCHANGED queue

(* MissionApp.ingest and BoundedEventBuffer.put, with no timeout.          *)
Ingest(r) ==
    /\ producer = "idle" /\ More
    /\ appSeq' = IF r.kind = "malformed" THEN appSeq + 1 ELSE appSeq
    /\ IF Adapted(r) = NoEvent
         THEN UNCHANGED <<queue, producer, ingested>>
         ELSE Put(Adapted(r)) /\ ingested' = Append(ingested, Adapted(r))
    /\ UNCHANGED <<pending, bufferSeq, ui, screen, control>>

CountDrop ==
    /\ producer = "full"
    /\ pending' = pending + 1 /\ producer' = "idle"
    /\ UNCHANGED <<queue, bufferSeq, appSeq, ui, screen, ingested, control>>

-----------------------------------------------------------------------------
(* The view.                                                               *)

Known(v, s) == s \in DOMAIN v.last
Late(v, e) == Known(v, e.source) /\ e.sequence <= v.last[e.source]

(* reduce_event.                                                           *)
ReduceEvent(v, e) ==
    IF Late(v, e)
      THEN [v EXCEPT !.late = @ + 1]
      ELSE [phase |-> IF e.kind \in {"ui.dropped", "ui.schema-error"} THEN "warning"
                      ELSE IF e.kind \in DOMAIN KindToPhase THEN KindToPhase[e.kind] ELSE v.phase,
            last |-> [s \in DOMAIN v.last \cup {e.source} |->
                        IF s = e.source THEN e.sequence ELSE v.last[s]],
            processed |-> v.processed + 1,
            dropped |-> v.dropped + e.count,
            late |-> v.late,
            errors |-> IF e.kind = "ui.schema-error" THEN v.errors + 1 ELSE v.errors]

(* One round of drain with e: the reducer, then the dashboard, which raises *)
(* ValueError for a metric with an unknown status and ends the drain.       *)
Show(e) ==
    /\ view' = ReduceEvent(view, e)
    /\ IF e.metric = "invalid"
         THEN ui' = "idle" /\ UNCHANGED shown
         ELSE ui' = "check" /\ shown' = IF e.metric = "good" THEN e ELSE shown

BeginDrain ==
    /\ ui = "idle" /\ ui' = "check"
    /\ UNCHANGED <<buffer, appSeq, producer, screen, ingested, control>>

(* Mutant: the count of drops is read and reset without the lock.          *)
ReportDropsLosing ==
    /\ ui = "check" /\ pending > 0
    /\ pending' = 0 /\ bufferSeq' = bufferSeq + 1
    /\ Show(Event("ui-buffer", bufferSeq + 1, "ui.dropped", 1, "none"))
    /\ UNCHANGED <<queue, appSeq, producer, ingested, control>>

(* BoundedEventBuffer.get, under its lock: drops are reported first.       *)
ReportDrops ==
    /\ ui = "check" /\ pending > 0
    /\ pending' = 0 /\ bufferSeq' = bufferSeq + 1
    /\ Show(Event("ui-buffer", bufferSeq + 1, "ui.dropped", pending, "none"))
    /\ UNCHANGED <<queue, appSeq, producer, ingested, control>>

LeaveLock ==
    /\ ui = "check" /\ pending = 0 /\ ui' = "take"
    /\ UNCHANGED <<buffer, appSeq, producer, screen, ingested, control>>

(* Without the lock: the next event, or Empty, which ends the drain.       *)
Take ==
    /\ ui = "take"
    /\ IF queue = <<>>
         THEN ui' = "idle" /\ UNCHANGED <<queue, screen>>
         ELSE Show(Head(queue)) /\ queue' = Tail(queue)
    /\ UNCHANGED <<pending, bufferSeq, appSeq, producer, ingested, control>>

-----------------------------------------------------------------------------
(* ActionController.                                                       *)
Quiet == UNCHANGED <<buffer, appSeq, producer, ui, screen, ingested>>

RequestConfirmation(a) ==
    /\ a \in Dangerous /\ More
    /\ issued' = issued + 1 /\ tokens' = [tokens EXCEPT ![a] = issued + 1]
    /\ Quiet /\ UNCHANGED <<receipts, calls, stopped>>

(* The method raises before it does anything, after it, or returns.        *)
Call(a, key, token) ==
    /\ More
    /\ \E applied, acknowledged \in BOOLEAN :
          /\ acknowledged => applied
          /\ calls' = Append(calls, [action |-> a, key |-> key, token |-> IF a \in Dangerous THEN token ELSE 0,
                                     applied |-> applied, acknowledged |-> acknowledged])
          /\ receipts' = IF acknowledged THEN receipts \cup {key} ELSE receipts

(* invoke, when there is no receipt: a dangerous action takes the           *)
(* confirmation away even if it is not the one presented.                   *)
Invoke(a, key, token) ==
    /\ key \notin receipts
    /\ IF a \in Dangerous
         THEN /\ tokens' = [tokens EXCEPT ![a] = 0]
              /\ IF tokens[a] # 0 /\ token = tokens[a] THEN Call(a, key, token)
                                                       ELSE UNCHANGED <<receipts, calls>>
         ELSE Call(a, key, token) /\ UNCHANGED tokens
    /\ Quiet /\ UNCHANGED <<issued, stopped>>

(* close, by the q key or a signal: stopped is set before the call, so that *)
(* it is made once; ui-close-n is a fresh key.                              *)
Close ==
    /\ ui = "idle" /\ ~stopped
    /\ stopped' = TRUE /\ Call("graceful-stop", "ui-close", 0)
    /\ Quiet /\ UNCHANGED <<tokens, issued>>

Produce == CountDrop \/ \E r \in Record : Ingest(r)
Drain == BeginDrain \/ ReportDrops \/ LeaveLock \/ Take
Operate ==
    \/ Close
    \/ \E a \in Dangerous : RequestConfirmation(a)
    \/ \E a \in Action, key \in Key, token \in 0..issued : Invoke(a, key, token)

Next == Produce \/ Drain \/ Operate
Spec == Init /\ [][Next]_vars
-----------------------------------------------------------------------------
(* Properties.                                                             *)
TypeOK ==
    /\ Len(queue) <= Capacity /\ pending \in Nat
    /\ producer \in {"idle", "full"} /\ ui \in {"idle", "check", "take"}
    /\ view.phase \in Phases

(* "a finite queue, backpressure, and explicit drop telemetry": whatever    *)
(* the order of puts and gets, every event is queued, or was shown, refused *)
(* as late, reported as dropped, or is about to be.                         *)
EveryEventAccounted ==
    Len(ingested) = Len(queue) + pending + (IF producer = "full" THEN 1 ELSE 0)
                    + view.late + view.dropped + (view.processed - bufferSeq)

(* Once everything is drained the view shows the phase of the last event    *)
(* that has one, unless it reports a drop, a late event or a schema error.  *)
Drained == queue = <<>> /\ pending = 0 /\ producer = "idle" /\ ui = "idle"
PhaseOf(es) ==
    LET at == {i \in DOMAIN es : es[i].kind \in DOMAIN KindToPhase}
    IN IF at = {} THEN "planning"
       ELSE KindToPhase[es[CHOOSE i \in at : \A j \in at : j <= i].kind]
PhaseShownOrExplained ==
    Drained => \/ view.phase = PhaseOf(ingested)
               \/ view.dropped + view.late + view.errors > 0

(* tests/tui/test_state.py: a late event "is visible and not applied": what *)
(* the dashboard shows of a source never goes back.                         *)
LateNeverShown ==
    [][shown'.source = shown.source /\ shown' # shown => shown'.sequence > shown.sequence]_vars

(* "Start, emergency stop, and skip require a fresh confirmation": every    *)
(* dangerous call had a confirmation of its own.                            *)
FreshConfirmation ==
    \A i, j \in DOMAIN calls :
       calls[i].action \in Dangerous =>
          /\ calls[i].token \in 1..issued
          /\ i # j => calls[j].token # calls[i].token

(* "repeated idempotency keys cannot apply an action twice", as far as the  *)
(* API answers: a second call with a key only follows calls that raised,    *)
(* and closing the interface calls at most once in any case.                *)
AppliedOncePerKey ==
    \A i, j \in DOMAIN calls :
       i < j /\ calls[i].key = calls[j].key => ~calls[i].acknowledged /\ calls[i].key # "ui-close"
=============================================================================
