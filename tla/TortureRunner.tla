----------------------------- MODULE TortureRunner -----------------------------
(***************************************************************************)
(* sippycup_torture/runner.py: one finite mutation at a time, followed by  *)
(* a clean canary.  Every action is a provider's code in a daemon thread   *)
(* with a deadline; the runner goes on without a thread that misses it,    *)
(* and the thread goes on without the runner.                              *)
(***************************************************************************)
EXTENDS Integers, Sequences, FiniteSets

CONSTANTS Selections,  \* what may be selected: sequences of packet counts, one per case
          MaxCases, MaxPackets, MaxFailures \* RunnerLimits

VARIABLES chosen,        \* the selection of this run
          pc, index,     \* the runner, and the case it is at
          worker,        \* the thread it waits for: [action, left, cancel, reply]
          stray,         \* threads it no longer waits for: sets of such records
          failures, cases,   \* counters
          stop,          \* stop_event
          events,        \* events.jsonl: <<kind, case, ok>>
          network,       \* what was sent, in order: <<"mutation" or "canary", case, how many
                         \*   packets of the case were left, ok>>
          result         \* what run() returned or raised

run == <<pc, index, failures, cases, events, result>>
vars == <<chosen, run, worker, stray, stop, network>>

Actions == <<"establish", "inject", "classify", "recovery">>
Selected == SubSeq(chosen, 1, IF Len(chosen) < MaxCases THEN Len(chosen) ELSE MaxCases)
(* The packets of the plan, whose number is the sum over the selection.     *)
Planned == UNION {{c} \X (1..Selected[c]) : c \in DOMAIN Selected}
Idle == [action |-> "none", case |-> 0, left |-> 0, cancel |-> FALSE, reply |-> "none"]

Init ==
    /\ chosen \in Selections
    /\ pc = "start" /\ index = 1 /\ worker = Idle /\ stray = {}
    /\ failures = 0 /\ cases = 0 /\ stop = FALSE
    /\ events = <<>> /\ network = <<>> /\ result = "none"

Write(e) == events' = Append(events, e)
Ends(r) == pc' = "over" /\ result' = r

-----------------------------------------------------------------------------
(* The thread of an action: inject sends the case packet by packet once it  *)
(* has looked at its cancellation, recovery sends a canary.  It may raise,  *)
(* report a failure or succeed; what inject attests is checked afterwards.  *)
(* Each of its steps is the thread after it and what it has sent.           *)
Canary(w, ok) == IF w.action = "recovery" THEN <<<<"canary", w.case, 0, ok>>>> ELSE <<>>
Failures(w) == (IF w.left = 0 THEN {"not-ok"} ELSE {}) \cup {"raised"}
               \cup (IF w.action = "inject" THEN {"unexact"} ELSE {})
Packet(w) == IF w.action = "inject" /\ w.left > 0 /\ ~(w.cancel /\ w.left = chosen[w.case])
             THEN {<<[w EXCEPT !.left = @ - 1], <<<<"mutation", w.case, w.left, TRUE>>>>>>} ELSE {}
Success(w) == IF w.action = "inject" => w.left = 0
              THEN {<<[w EXCEPT !.reply = "ok"], Canary(w, TRUE)>>} ELSE {}
Worker(w) == IF w.action = "none" \/ w.reply # "none" THEN {}
             ELSE Packet(w) \cup Success(w)
                  \cup {<<[w EXCEPT !.reply = r], Canary(w, FALSE)>> : r \in Failures(w)}

ActionRuns == \E step \in Worker(worker) :
    /\ worker' = step[1] /\ network' = network \o step[2]
    /\ UNCHANGED <<chosen, run, stray, stop>>
StrayRuns == \E w \in stray : \E step \in Worker(w) :
    /\ stray' = (stray \ {w}) \cup {step[1]} /\ network' = network \o step[2]
    /\ UNCHANGED <<chosen, run, worker, stop>>

OperatorStops == ~stop /\ pc # "over" /\ stop' = TRUE /\ UNCHANGED <<chosen, run, worker, stray, network>>

-----------------------------------------------------------------------------
(* run().                                                                  *)

Start ==
    /\ pc = "start"
    /\ IF Cardinality(Planned) > MaxPackets
         THEN Ends("RunnerError") /\ UNCHANGED events
         ELSE Write(<<"run.started", 0, TRUE>>) /\ pc' = "gate" /\ UNCHANGED result
    /\ UNCHANGED <<chosen, index, failures, cases, worker, stray, stop, network>>

Halt == Write(<<"run.stopped", index, FALSE>>) /\ Ends("stopped")

(* _stop_reason: besides stop_event and the failures, the duration, health  *)
(* and metrics may stop the run at any case.  Then the pause for the rate. *)
Admit ==
    /\ pc = "gate" /\ index <= Len(Selected)
    /\ \/ Halt /\ UNCHANGED worker
       \/ /\ ~stop /\ failures < MaxFailures
          /\ pc' = "establish" /\ UNCHANGED <<events, result>>
          /\ worker' = [Idle EXCEPT !.action = "establish", !.case = index]
    /\ UNCHANGED <<chosen, index, failures, cases, stray, stop, network>>

Complete ==
    /\ pc = "gate" /\ index > Len(Selected)
    /\ Write(<<"run.completed", 0, TRUE>>) /\ Ends("completed")
    /\ UNCHANGED <<chosen, index, failures, cases, worker, stray, stop, network>>

(* _action: the reply in time.  A raise, and an inject that does not attest *)
(* the exact packets, end the run with an exception.                       *)
After(a) == Actions[1 + CHOOSE i \in 1..3 : Actions[i] = a]
Begin(a) == worker' = [Idle EXCEPT !.action = a, !.case = index,
                                   !.left = IF a = "inject" THEN chosen[index] ELSE 0]

Raise ==
    /\ pc = worker.action /\ worker.reply \in {"raised", "unexact"}
    /\ Ends("RunnerError") /\ worker' = Idle
    /\ UNCHANGED <<chosen, index, failures, cases, events, stray, stop, network>>

Reply ==
    /\ pc = worker.action /\ pc \in {"establish", "inject", "classify"}
    /\ worker.reply \in {"ok", "not-ok"}
    /\ LET ok == worker.reply = "ok" IN
       IF pc = "establish" /\ ~ok
         THEN /\ Ends("stopped") /\ worker' = Idle /\ UNCHANGED failures
              /\ events' = events \o << <<pc, index, ok>>, <<"run.stopped", index, FALSE>> >>
         ELSE /\ pc' = After(pc) /\ Begin(After(pc)) /\ UNCHANGED result
              /\ Write(<<pc, index, ok>>)
              /\ failures' = IF ok THEN failures ELSE failures + 1
    /\ UNCHANGED <<chosen, index, cases, stray, stop, network>>

(* Mutant: only the failure ceiling is looked at after a canary.           *)
RecoveryIgnored ==
    /\ pc = "recovery" /\ worker.action = pc /\ worker.reply \in {"ok", "not-ok"}
    /\ worker' = Idle /\ cases' = cases + 1
    /\ LET ok == worker.reply = "ok" IN
       IF failures >= MaxFailures
         THEN /\ Ends("stopped") /\ UNCHANGED index
              /\ events' = events \o << <<pc, index, ok>>, <<"run.stopped", index, FALSE>> >>
         ELSE /\ pc' = "gate" /\ index' = index + 1 /\ Write(<<pc, index, ok>>) /\ UNCHANGED result
    /\ UNCHANGED <<chosen, failures, stray, stop, network>>

Recovered ==
    /\ pc = "recovery" /\ worker.action = pc /\ worker.reply \in {"ok", "not-ok"}
    /\ worker' = Idle /\ cases' = cases + 1
    /\ LET ok == worker.reply = "ok" IN
       IF ~ok \/ failures >= MaxFailures
         THEN /\ Ends("stopped") /\ UNCHANGED index
              /\ events' = events \o << <<pc, index, ok>>, <<"run.stopped", index, FALSE>> >>
         ELSE /\ pc' = "gate" /\ index' = index + 1 /\ Write(<<pc, index, ok>>) /\ UNCHANGED result
    /\ UNCHANGED <<chosen, failures, stray, stop, network>>

(* join() timed out: cancel is set, the thread is left to itself.          *)
TimeOut ==
    /\ worker.action # "none" /\ worker.reply = "none"
    /\ stray' = stray \cup {[worker EXCEPT !.cancel = TRUE]} /\ worker' = Idle
    /\ Ends("RunnerError")
    /\ UNCHANGED <<chosen, index, failures, cases, events, stop, network>>

Runner == Start \/ Admit \/ Complete \/ Raise \/ Reply \/ Recovered \/ TimeOut
Next == Runner \/ ActionRuns \/ StrayRuns \/ OperatorStops
Spec == Init /\ [][Next]_vars
-----------------------------------------------------------------------------
(* Properties.                                                             *)
TypeOK ==
    /\ pc \in {"start", "gate", "over"} \cup {Actions[i] : i \in 1..4}
    /\ worker.action # "none" => worker.action = pc /\ worker.case = index
    /\ Cardinality(stray) <= 1 /\ failures \in 0..MaxFailures + 1

(* "A mutation is never followed by another mutation until a [...] clean    *)
(* recovery canary succeeds": of another case, whatever thread sends it,   *)
(* and nothing the runner started outlives its ceilings.                   *)
Mutations == {i \in DOMAIN network : network[i][1] = "mutation"}
CanaryBetweenMutations ==
    /\ \A i, j \in Mutations :
          i < j /\ network[i][2] # network[j][2] =>
             \E k \in i..j : network[k] = <<"canary", network[i][2], 0, TRUE>>
    /\ Cardinality(Mutations) <= MaxPackets

(* "A clean canary is mandatory even when the mutation or classification    *)
(* failed": unless run() raised, every case that sent anything sent all of *)
(* it, had its canary and is counted.                                      *)
NothingUnanswered ==
    result \in {"stopped", "completed"} =>
       \A i \in Mutations :
          LET c == network[i][2] IN
          /\ Cardinality({j \in Mutations : network[j][2] = c}) = Selected[c]
          /\ \E k \in DOMAIN network : k > i /\ network[k][1] = "canary" /\ network[k][2] = c
          /\ c <= cases

=============================================================================
