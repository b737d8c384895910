--------------------------- MODULE LiveMcpProofs ---------------------------
(* Machine-checked proofs about LiveMcp, for any set of calls, servers and *)
(* capability artifacts and any signed windows.                            *)
EXTENDS LiveMcp, TLAPS

LEMMA TypeInit == Init => TypeOK
  BY LiveAssumption DEF Init, TypeOK, NoReport, NoCall

(* Every row the store is asked to write is a decision.                    *)
LEMMA RowIsDecision ==
  ASSUME NEW r \in Request, call[r] \in Call,
         NEW d \in {"allow", "reject"},
         NEW c \in {"consumed", "inspected", "replay", "time", "action"}
                   \cup DefectKind
  PROVE  Row(r, d, c) \in Decision
  BY LiveAssumption DEF Row, KeyFor, GrantOf, Call, Decision

LEMMA VerdictIsCode ==
  ASSUME NEW r \in Request
  PROVE  Verdict(r) # "valid" => Verdict(r) \in {"time", "action"} \cup DefectKind
  BY DEF Verdict, DefectKind, Unparseable, Unverified, Untimely, OfAnother, Unbound

LEMMA TypeNext == TypeOK /\ [Next]_vars => TypeOK'
<1> SUFFICES ASSUME TypeOK, [Next]_vars PROVE TypeOK'
  OBVIOUS
<1> USE LiveAssumption DEF TypeOK, Running, Ended
<1>1. ASSUME NEW r \in Request, Arrive(r) PROVE TypeOK'
  BY <1>1 DEF Arrive, Goto
<1>2. ASSUME NEW r \in Request, Acquire(r) PROVE TypeOK'
  BY <1>2 DEF Acquire, Goto, Return, Result
<1>3. ASSUME NEW r \in Request, Busy(r) PROVE TypeOK'
  BY <1>3 DEF Busy, Goto, Return, Result
<1>4. ASSUME NEW r \in Request, RefuseInput(r) PROVE TypeOK'
  BY <1>4 DEF RefuseInput, Goto, Return, Result
<1>5. ASSUME NEW r \in Request, Reject(r) PROVE TypeOK'
  BY <1>5, RowIsDecision, VerdictIsCode DEF Reject, Goto, Return, Result
<1>6. ASSUME NEW r \in Request, Validate(r) PROVE TypeOK'
  BY <1>6 DEF Validate, Goto, Return, Result
<1>7. ASSUME NEW r \in Request, BeginImmediate(r) PROVE TypeOK'
  BY <1>7 DEF BeginImmediate, Goto, Return, Result
<1>8. ASSUME NEW r \in Request, StoreFails(r) PROVE TypeOK'
  BY <1>8 DEF StoreFails, Goto, Return, Result
<1>9. ASSUME NEW r \in Request, Commit(r) PROVE TypeOK'
  BY <1>9, RowIsDecision, VerdictIsCode DEF Commit, Goto, Return, Result
<1>10. ASSUME NEW r \in Request, Replay(r) PROVE TypeOK'
  BY <1>10 DEF Replay, Goto, Return, Result
<1>11. ASSUME NEW r \in Request, RecordReplay(r) PROVE TypeOK'
  BY <1>11, RowIsDecision, VerdictIsCode DEF RecordReplay, Goto, Return, Result
<1>12. ASSUME NEW r \in Request, FoundFrozen(r) PROVE TypeOK'
  BY <1>12 DEF FoundFrozen, Goto, Return, Result
<1>13. ASSUME NEW r \in Request, StartFreeze(r) PROVE TypeOK'
  BY <1>13 DEF StartFreeze, Goto, Return, Result
<1>14. ASSUME NEW r \in Request, FreezeFails(r) PROVE TypeOK'
  <2>1. <<call[r].tool, GrantOf(r)>> \in Tool \X Grant
    BY <1>14 DEF FreezeFails, Call, GrantOf
  <2> QED
    BY <1>14, <2>1 DEF FreezeFails, Goto, Return, Result
<1>15. ASSUME NEW r \in Request, Freeze(r) PROVE TypeOK'
  <2>1. <<call[r].tool, GrantOf(r)>> \in Tool \X Grant
    BY <1>15 DEF Freeze, Call, GrantOf
  <2>2. CASE Consumes(r)
    BY <1>15, <2>1, <2>2 DEF Freeze, Goto
  <2>3. CASE ~Consumes(r)
    <3>1. Return(r, TRUE, FALSE)
      BY <1>15, <2>3, Zenon DEF Freeze
    <3>2. /\ pc[r] # "idle"
          /\ frozen' = frozen \cup {<<call[r].tool, GrantOf(r)>>}
          /\ UNCHANGED <<clock, call, dbLock, holder, consumedAt, audit, attempts>>
      BY <1>15 DEF Freeze
    <3> QED
      BY <2>1, <3>1, <3>2 DEF Return, Result, Goto
  <2> QED
    BY <2>2, <2>3
<1>16. ASSUME NEW r \in Request, ExpiredLate(r) PROVE TypeOK'
  BY <1>16 DEF ExpiredLate, ReadyToSend, Goto, Return, Result
<1>17. ASSUME NEW r \in Request, Recheck(r) PROVE TypeOK'
  BY <1>17 DEF Recheck, ReadyToSend, Goto, Return, Result
<1>18. ASSUME NEW r \in Request, Launch(r) PROVE TypeOK'
  BY <1>18 DEF Launch, Goto, Return, Result
<1>19. ASSUME NEW r \in Request, Finish(r) PROVE TypeOK'
  BY <1>19 DEF Finish, Goto, Return, Result
<1>20. ASSUME NEW s \in Server, Crash(s) PROVE TypeOK'
  BY <1>20 DEF Crash
<1>21. CASE Tick
  BY <1>21 DEF Tick
<1>22. CASE UNCHANGED vars
  BY <1>22 DEF vars
<1> QED
  BY <1>1, <1>2, <1>3, <1>4, <1>5, <1>6, <1>7, <1>8, <1>9, <1>10, <1>11, <1>12, <1>13, <1>14, <1>15, <1>16, <1>17, <1>18, <1>19, <1>20, <1>21, <1>22 DEF Next, Serve

THEOREM TypeCorrect == Spec => []TypeOK
  BY TypeInit, TypeNext, PTL DEF Spec

-----------------------------------------------------------------------------
(* A step of call r that leaves the store, the directories and the network *)
(* alone keeps the invariant if it keeps r's own part of it: nothing the   *)
(* invariant says of another call mentions r.                              *)
LEMMA QuietStep ==
  ASSUME IInv, TypeOK', NEW r \in Request,
         UNCHANGED <<clock, holder, consumedAt, audit, attempts>>,
         \A g \in Grant : <<"execute_one_call", g>> \in frozen'
                          => <<"execute_one_call", g>> \in frozen,
         \A q \in Request \ {r} :
            /\ pc'[q] = pc[q] /\ call'[q] = call[q] /\ report'[q] = report[q]
            /\ dbLock = q => dbLock' = q,
         pc[r] = "idle" \/ call'[r] = call[r],
         pc[r] \notin Ended,
         pc[r] \in Claimed => pc'[r] \in Claimed \cup Ended,
         pc'[r] \in {"granted", "freezing"} => pc[r] \in {"granted", "freezing"},
         CallInv(r)'
  PROVE  IInv'
<1>1. ASSUME NEW q \in Request PROVE CallInv(q)'
  <2>1. CASE q = r
    BY <2>1
  <2>2. CASE q # r
    BY <2>2 DEF IInv, CallInv, CallIsValid, Faultless, AboveLimits, HoldsClaim, Consumes, KeyFor,
                GrantOf, Row
  <2> QED
    BY <2>1, <2>2
<1>2. ASSUME NEW d \in audit' PROVE DecisionInv(d)'
  <2>1. d.request \in Request /\ DecisionInv(d)
    BY DEF IInv, TypeOK, Decision
  <2> QED
    BY <2>1, <1>2 DEF DecisionInv, Claimed, Ended
<1>3. OneDecisionPerCall'
  BY DEF IInv, OneDecisionPerCall
<1>4. ASSUME NEW g \in Grant PROVE FrozenInv(g)'
  <2>1. FrozenInv(g) /\ holder[KeyOf[g]] \in Request \cup {NoRequest}
    BY LiveAssumption DEF IInv, TypeOK
  <2> QED
    BY <2>1 DEF FrozenInv
<1>5. ASSUME NEW k \in Key PROVE HolderInv(k)'
  BY <1>5 DEF IInv, TypeOK, HolderInv, Ended
<1> QED
  BY <1>1, <1>2, <1>3, <1>4, <1>5 DEF IInv

(* "valid" is only given to a call in which nothing is wrong.              *)
LEMMA ValidCall ==
  ASSUME TypeOK, NEW r \in Request, call[r] \in Call,
         ~Refused(r), Verdict(r) = "valid"
  PROVE  CallIsValid(r)
<1> USE LiveAssumption DEF TypeOK, Call, DefectKind
<1>1. /\ clock \in Nat /\ Skew \in Nat
      /\ GrantOf(r) \in Grant /\ NotBefore[GrantOf(r)] \in Nat
  BY DEF GrantOf
<1>2. /\ call[r].defect \notin {"malformed", "signature", "identity", "digest"}
      /\ ~(clock + Skew < NotBefore[GrantOf(r)])
      /\ ActionOf[GrantOf(r)] = call[r].tool
  BY DEF Verdict, Unparseable, Unverified, Untimely, OfAnother, Unbound
<1>3. Faultless(r)
  BY <1>2 DEF Refused, Unreadable, Misdirected, Faultless
<1>4. clock + Skew >= NotBefore[GrantOf(r)]
  BY <1>1, <1>2
<1> QED
  BY <1>2, <1>3, <1>4 DEF CallIsValid

LEMMA QuietActions ==
  ASSUME IInv, TypeOK', NEW r \in Request,
         \/ Arrive(r) \/ Acquire(r) \/ Busy(r) \/ RefuseInput(r)
         \/ Validate(r) \/ BeginImmediate(r) \/ StoreFails(r) \/ Replay(r)
         \/ FoundFrozen(r) \/ StartFreeze(r) \/ FreezeFails(r) \/ ExpiredLate(r)
         \/ Recheck(r) \/ Finish(r)
  PROVE  IInv'
<1> USE LiveAssumption DEF IInv, TypeOK, CallInv, Goto, Return, Result, Running, Ended,
        Vetted, Claimed, Sending
<1>0. /\ pc \in [Request -> {"idle", "waiting"} \cup Running \cup Ended]
      /\ call \in [Request -> Call \cup {NoCall}]
      /\ report \in [Request -> [ok : BOOLEAN, network : BOOLEAN]]
  OBVIOUS
<1>1. CASE Arrive(r)
  <2>1. pc'[r] = "waiting" /\ r \notin attempts'
    BY <1>1 DEF Arrive
  <2>2. CallInv(r)'
    BY <2>1
  <2> HIDE DEF IInv, TypeOK, CallInv
  <2> QED
    BY <1>0, <1>1, <2>1, <2>2, QuietStep DEF Arrive
<1>2. CASE Acquire(r)
  <2>1. CallInv(r)'
    BY <1>2 DEF Acquire, CallIsValid, Faultless, AboveLimits, HoldsClaim, Consumes, KeyFor, GrantOf, Row
  <2> HIDE DEF IInv, TypeOK, CallInv
  <2> QED
    BY <1>0, <1>2, <2>1, QuietStep DEF Acquire
<1>3. CASE Busy(r)
  <2>1. CallInv(r)'
    BY <1>3 DEF Busy, CallIsValid, Faultless, AboveLimits, HoldsClaim, Consumes, KeyFor, GrantOf, Row
  <2> HIDE DEF IInv, TypeOK, CallInv
  <2> QED
    BY <1>0, <1>3, <2>1, QuietStep DEF Busy
<1>4. CASE RefuseInput(r)
  <2>1. CallInv(r)'
    BY <1>4, SMTT(30) DEF RefuseInput, CallIsValid, Faultless, AboveLimits, HoldsClaim, Consumes, KeyFor, GrantOf, Row
  <2> HIDE DEF IInv, TypeOK, CallInv
  <2> QED
    BY <1>0, <1>4, <2>1, QuietStep DEF RefuseInput
<1>5. CASE Validate(r)
  <2>1. CallInv(r)'
    BY <1>5, ValidCall DEF Validate, CallIsValid, Faultless, AboveLimits, HoldsClaim, Consumes, KeyFor,
       GrantOf, Row
  <2> HIDE DEF IInv, TypeOK, CallInv
  <2> QED
    BY <1>0, <1>5, <2>1, QuietStep DEF Validate
<1>6. CASE BeginImmediate(r)
  <2>1. CallInv(r)'
    BY <1>6 DEF BeginImmediate, CallIsValid, Faultless, AboveLimits, HoldsClaim, Consumes, KeyFor, GrantOf, Row
  <2> HIDE DEF IInv, TypeOK, CallInv
  <2> QED
    BY <1>0, <1>6, <2>1, QuietStep DEF BeginImmediate
<1>7. CASE StoreFails(r)
  <2>1. CallInv(r)'
    BY <1>7 DEF StoreFails, CallIsValid, Faultless, AboveLimits, HoldsClaim, Consumes, KeyFor, GrantOf, Row
  <2> HIDE DEF IInv, TypeOK, CallInv
  <2> QED
    BY <1>0, <1>7, <2>1, QuietStep DEF StoreFails
<1>8. CASE Replay(r)
  <2>1. CallInv(r)'
    BY <1>8 DEF Replay, CallIsValid, Faultless, AboveLimits, HoldsClaim, Consumes, KeyFor, GrantOf, Row
  <2> HIDE DEF IInv, TypeOK, CallInv
  <2> QED
    BY <1>0, <1>8, <2>1, QuietStep DEF Replay
<1>9. CASE FoundFrozen(r)
  <2>1. CallInv(r)'
    BY <1>9, SMTT(30) DEF FoundFrozen, CallIsValid, Faultless, AboveLimits, HoldsClaim, Consumes, KeyFor, GrantOf, Row
  <2> QED
    <3>1. pc[r] = "granted" /\ pc' = [pc EXCEPT ![r] = "returned"]
      BY <1>9 DEF FoundFrozen
    <3>2. \A q \in Request \ {r} : report'[q] = report[q]
      BY <1>9 DEF FoundFrozen
    <3>3. /\ UNCHANGED <<clock, call, dbLock, holder, consumedAt, audit, frozen,
                        attempts>>
      BY <1>9 DEF FoundFrozen
    <3>4. /\ \A q \in Request \ {r} : pc'[q] = pc[q]
          /\ pc'[r] = "returned"
      BY <3>1
    <3> QED
      BY <2>1, <3>1, <3>2, <3>3, <3>4, QuietStep
<1>10. CASE StartFreeze(r)
  <2>1. CallInv(r)'
    BY <1>10 DEF StartFreeze, CallIsValid, Faultless, AboveLimits, HoldsClaim, Consumes, KeyFor, GrantOf, Row
  <2> HIDE DEF IInv, TypeOK, CallInv
  <2> QED
    BY <1>0, <1>10, <2>1, QuietStep DEF StartFreeze
<1>11. CASE FreezeFails(r)
  <2>1. CallInv(r)'
    BY <1>11 DEF FreezeFails, CallIsValid, Faultless, AboveLimits, HoldsClaim, Consumes, KeyFor, GrantOf, Row
  <2>2. \A g \in Grant : <<"execute_one_call", g>> \in frozen'
                          => <<"execute_one_call", g>> \in frozen
    BY <1>11 DEF FreezeFails, Consumes
  <2> HIDE DEF IInv, TypeOK, CallInv
  <2> QED
    BY <1>0, <1>11, <2>1, <2>2, QuietStep DEF FreezeFails
<1>12. CASE ExpiredLate(r)
  <2>1. CallInv(r)'
    BY <1>12 DEF ExpiredLate, CallIsValid, Faultless, AboveLimits, HoldsClaim, Consumes, KeyFor, GrantOf, Row, ReadyToSend
  <2> HIDE DEF IInv, TypeOK, CallInv
  <2> QED
    BY <1>0, <1>12, <2>1, QuietStep DEF ExpiredLate, ReadyToSend
<1>13. CASE Recheck(r)
  <2>1. /\ pc[r] \in Claimed /\ Consumes(r)
        /\ r \notin attempts
        /\ pc' = [pc EXCEPT ![r] = "launching"]
        /\ UNCHANGED <<clock, gate, call, dbLock, holder, consumedAt, audit,
                       frozen, attempts, report>>
    BY <1>13 DEF Recheck, ReadyToSend, Consumes
  <2>2. CallIsValid(r) /\ HoldsClaim(r)
    BY <2>1
  <2>3. /\ clock \in Nat /\ ExpiresAt[GrantOf(r)] \in Nat
        /\ consumedAt[KeyFor(r)] \in Nat
    BY <2>2 DEF CallIsValid, Faultless, AboveLimits, GrantOf, KeyFor, Call
  <2>4. consumedAt[KeyFor(r)] < ExpiresAt[GrantOf(r)]
    BY <1>13, <2>2, <2>3 DEF Recheck, HoldsClaim
  <2>5. /\ pc'[r] = "launching"
        /\ (CallIsValid(r) /\ HoldsClaim(r) /\ Consumes(r))'
        /\ (consumedAt[KeyFor(r)] < ExpiresAt[GrantOf(r)])'
    BY <2>1, <2>2, <2>4 DEF CallIsValid, Faultless, AboveLimits, HoldsClaim, Consumes, KeyFor, GrantOf, Row
  <2>6. CallInv(r)'
    BY <2>1, <2>5
  <2> QED
    BY <2>1, <2>6, QuietStep
<1>14. CASE Finish(r)
  <2>1. CallInv(r)'
    BY <1>14 DEF Finish, CallIsValid, Faultless, AboveLimits, HoldsClaim, Consumes, KeyFor, GrantOf, Row
  <2> HIDE DEF IInv, TypeOK, CallInv
  <2> QED
    BY <1>0, <1>14, <2>1, QuietStep DEF Finish
<1> QED
  BY <1>1, <1>2, <1>3, <1>4, <1>5, <1>6, <1>7, <1>8, <1>9, <1>10, <1>11, <1>12, <1>13, <1>14

(* A call that ends with a row of its own: Reject and RecordReplay.        *)
LEMMA RefusalStep ==
  ASSUME IInv, TypeOK', NEW r \in Request, Reject(r) \/ RecordReplay(r)
  PROVE  IInv'
<1> USE DEF Claimed, Ended
<1> DEFINE Adds(c) == /\ c.request = r /\ c.decision = "reject"
                      /\ \A d \in audit' : d \in audit \/ d = c
<1>0. \E c : Adds(c)
  <2>1. CASE Reject(r)
    <3>1. Adds(Row(r, "reject", Verdict(r)))
      BY <2>1 DEF Reject, Row
    <3> QED
      BY <3>1
  <2>2. CASE RecordReplay(r)
    <3>1. Adds(Row(r, "reject", "replay"))
      BY <2>2 DEF RecordReplay, Row
    <3> QED
      BY <3>1
  <2> QED
    BY <2>1, <2>2
<1>a. PICK c : Adds(c)
  BY <1>0
<1>b. /\ pc[r] \in {"reading", "replayed"}
      /\ pc' = [pc EXCEPT ![r] = "returned"]
      /\ \A q \in Request \ {r} : report'[q] = report[q]
      /\ audit \subseteq audit'
      /\ UNCHANGED <<clock, call, dbLock, holder, consumedAt, frozen, attempts>>
  <2>1. CASE Reject(r)
    BY <2>1 DEF Reject, Return, Result, Goto, IInv, TypeOK
  <2>2. CASE RecordReplay(r)
    BY <2>2 DEF RecordReplay, Return, Result, Goto, IInv, TypeOK
  <2> QED
    BY <2>1, <2>2
<1>1. \A d \in audit : d.request # r
  BY <1>b DEF IInv, DecisionInv
<1>2. /\ \A q \in Request \ {r} : pc'[q] = pc[q] /\ report'[q] = report[q]
      /\ pc'[r] = "returned" /\ r \notin attempts
      /\ audit \subseteq audit'
  BY <1>b DEF IInv, TypeOK, CallInv
<1>3. ASSUME NEW q \in Request PROVE CallInv(q)'
  BY <1>b, <1>2 DEF IInv, CallInv, CallIsValid, Faultless, AboveLimits, HoldsClaim, Consumes, KeyFor, GrantOf,
              Row, Vetted, Sending
<1>4. ASSUME NEW d \in audit' PROVE DecisionInv(d)'
  <2>1. CASE d \in audit
    <3>1. d.request \in Request /\ d.request # r /\ DecisionInv(d)
      BY <1>1, <2>1 DEF IInv, TypeOK, Decision
    <3> QED
      BY <3>1, <1>b, <1>2 DEF DecisionInv
  <2>2. CASE d = c
    BY <1>a, <1>b, <1>2, <2>2 DEF DecisionInv
  <2> QED
    BY <1>a, <1>4, <2>1, <2>2
<1>5. OneDecisionPerCall'
  BY <1>a, <1>b, <1>1 DEF IInv, OneDecisionPerCall
<1>6. ASSUME NEW g \in Grant PROVE FrozenInv(g)'
  BY <1>b, <1>2, LiveAssumption DEF IInv, TypeOK, FrozenInv
<1>7. ASSUME NEW k \in Key PROVE HolderInv(k)'
  BY <1>b, <1>2, <1>7 DEF IInv, TypeOK, HolderInv
<1> QED
  BY <1>3, <1>4, <1>5, <1>6, <1>7 DEF IInv

LEMMA CommitStep ==
  ASSUME IInv, TypeOK', NEW r \in Request, Commit(r) PROVE IInv'
<1> USE DEF Goto, Claimed, Ended
<1>1. \A d \in audit : d.request # r
  BY DEF IInv, DecisionInv, Commit
<1>2. /\ pc' = [pc EXCEPT ![r] = "granted"] /\ pc[r] = "claiming"
      /\ \A q \in Request \ {r} : pc'[q] = pc[q]
      /\ pc'[r] = "granted" /\ r \notin attempts
      /\ UNCHANGED <<clock, gate, call, frozen, attempts, report>>
      /\ call[r] \in Call
  BY DEF IInv, TypeOK, CallInv, Commit
<1>0. \A k \in Key : holder[k] # r /\ HolderInv(k)
  BY <1>2, LiveAssumption DEF IInv, HolderInv
<1>3. CASE Consumes(r)
  <2>1. /\ holder[KeyFor(r)] = NoRequest
        /\ holder' = [holder EXCEPT ![KeyFor(r)] = r]
        /\ consumedAt' = [consumedAt EXCEPT ![KeyFor(r)] = clock]
        /\ audit' = audit \cup {Row(r, "allow", "consumed")}
    BY <1>3 DEF Commit
  <2>2. KeyFor(r) \in Key
    BY <1>2, LiveAssumption DEF KeyFor, GrantOf, Call
  <2>3. ASSUME NEW q \in Request, q # r PROVE CallInv(q)'
    <3>1. CallInv(q) /\ (dbLock = r => pc[q] # "claiming")
      BY <2>3 DEF IInv, CallInv
    <3>2. HoldsClaim(q) => KeyFor(q) # KeyFor(r)
      BY <2>1, LiveAssumption DEF HoldsClaim
    <3>3. CallIsValid(q) => CallIsValid(q)'
      BY <1>2 DEF CallIsValid, Faultless, AboveLimits, GrantOf
    <3>4. HoldsClaim(q) => HoldsClaim(q)'
      BY <1>2, <2>1, <3>2 DEF HoldsClaim, KeyFor, GrantOf, Consumes, Row, IInv, TypeOK
    <3>5. q \in attempts \/ pc[q] = "launching" => HoldsClaim(q)
      BY <3>1 DEF CallInv, Sending
    <3>6. HoldsClaim(q) /\ consumedAt[KeyFor(q)] < ExpiresAt[GrantOf(q)]
             => (consumedAt[KeyFor(q)] < ExpiresAt[GrantOf(q)])'
      BY <1>2, <2>1, <3>2 DEF KeyFor, GrantOf, IInv, TypeOK
    <3> QED
      BY <1>2, <2>3, <3>1, <3>3, <3>4, <3>5, <3>6 DEF CallInv, Consumes, Commit
  <2>4. CallInv(r)'
    <3>1. CallIsValid(r)'
      BY <1>2 DEF IInv, CallInv, CallIsValid, Faultless, AboveLimits, Vetted, GrantOf
    <3>2. holder'[KeyFor(r)] = r /\ consumedAt'[KeyFor(r)] = clock /\ clock <= clock
      BY <2>1, <2>2 DEF IInv, TypeOK
    <3>3. HoldsClaim(r)'
      BY <1>2, <1>3, <2>1, <3>2 DEF HoldsClaim, Consumes, KeyFor, GrantOf, Row
    <3> QED
      BY <1>2, <3>1, <3>3 DEF CallInv, Sending
  <2>5. ASSUME NEW d \in audit' PROVE DecisionInv(d)'
    <3>1. CASE d \in audit
      <4>1. d.request \in Request /\ d.request # r /\ DecisionInv(d)
        BY <1>1, <3>1 DEF IInv, TypeOK, Decision
      <4> QED
        BY <4>1, <1>2 DEF DecisionInv
    <3>2. CASE d = Row(r, "allow", "consumed")
      BY <1>2, <3>2 DEF DecisionInv, Row
    <3> QED
      BY <2>1, <2>5, <3>1, <3>2
  <2>6. OneDecisionPerCall'
    BY <1>1, <2>1 DEF IInv, OneDecisionPerCall, Row
  <2>7. ASSUME NEW g \in Grant PROVE FrozenInv(g)'
    <3>1. FrozenInv(g) /\ KeyOf[g] \in Key
      BY LiveAssumption DEF IInv
    <3>2. holder[KeyOf[g]] \in Request \cup {NoRequest}
      BY <3>1 DEF IInv, TypeOK
    <3> QED
      BY <1>0, <1>2, <2>1, <3>1, <3>2 DEF FrozenInv, IInv, TypeOK
  <2>8. ASSUME NEW k \in Key PROVE HolderInv(k)'
    <3>1. HolderInv(k) /\ holder[k] \in Request \cup {NoRequest} /\ holder[k] # r
      BY <1>0 DEF IInv, TypeOK
    <3> QED
      BY <1>2, <2>1, <2>2, <3>1 DEF HolderInv, IInv, TypeOK
  <2> QED
    BY <2>3, <2>4, <2>5, <2>6, <2>7, <2>8 DEF IInv
<1>4. CASE ~Consumes(r)
  <2>1. /\ audit' = audit \cup {Row(r, "allow", "inspected")}
        /\ UNCHANGED <<holder, consumedAt>>
    BY <1>4 DEF Commit
  <2>2. ASSUME NEW q \in Request PROVE CallInv(q)'
    <3>1. CallIsValid(q) => CallIsValid(q)'
      BY <1>2 DEF CallIsValid, Faultless, AboveLimits, GrantOf
    <3>2. HoldsClaim(q) => HoldsClaim(q)'
      BY <1>2, <2>1 DEF HoldsClaim, KeyFor, GrantOf, Consumes, Row
    <3>3. CallInv(q) /\ (q # r => pc[q] # "claiming")
      BY DEF IInv, CallInv, Commit
    <3> QED
      BY <1>2, <1>4, <2>1, <3>1, <3>2, <3>3
         DEF CallInv, Vetted, Sending, Consumes, KeyFor, GrantOf
  <2>3. ASSUME NEW d \in audit' PROVE DecisionInv(d)'
    <3>1. CASE d \in audit
      <4>1. d.request \in Request /\ d.request # r /\ DecisionInv(d)
        BY <1>1, <3>1 DEF IInv, TypeOK, Decision
      <4> QED
        BY <4>1, <1>2 DEF DecisionInv
    <3>2. CASE d = Row(r, "allow", "inspected")
      BY <1>2, <3>2 DEF DecisionInv, Row
    <3> QED
      BY <2>1, <2>3, <3>1, <3>2
  <2>4. OneDecisionPerCall'
    BY <1>1, <2>1 DEF IInv, OneDecisionPerCall, Row
  <2>5. ASSUME NEW g \in Grant PROVE FrozenInv(g)'
    <3>1. FrozenInv(g) /\ KeyOf[g] \in Key
      BY LiveAssumption DEF IInv
    <3>2. holder[KeyOf[g]] \in Request \cup {NoRequest}
      BY <3>1 DEF IInv, TypeOK
    <3> QED
      BY <1>0, <1>2, <2>1, <3>1, <3>2 DEF FrozenInv
  <2>6. ASSUME NEW k \in Key PROVE HolderInv(k)'
    <3>1. holder[k] \in Request \cup {NoRequest}
      BY DEF IInv, TypeOK
    <3> QED
      BY <1>0, <1>2, <2>1, <3>1 DEF HolderInv
  <2> QED
    BY <2>2, <2>3, <2>4, <2>5, <2>6 DEF IInv
<1> QED
  BY <1>3, <1>4

LEMMA FreezeStep ==
  ASSUME IInv, TypeOK', NEW r \in Request, Freeze(r) PROVE IInv'
<1> USE DEF Claimed, Ended
<1>1. /\ pc[r] = "freezing" /\ r \notin attempts
      /\ pc'[r] \in {"frozen", "returned"}
      /\ Consumes(r) <=> pc'[r] = "frozen"
      /\ \A q \in Request \ {r} : pc'[q] = pc[q] /\ report'[q] = report[q]
      /\ frozen' = frozen \cup {<<call[r].tool, GrantOf(r)>>}
      /\ UNCHANGED <<clock, call, dbLock, holder, consumedAt, audit, attempts>>
  <2>1. r \notin attempts
    BY DEF IInv, CallInv, Freeze
  <2>2. CASE Consumes(r)
    BY <2>1, <2>2 DEF Freeze, Goto, IInv, TypeOK
  <2>3. CASE ~Consumes(r)
    <3>1. Return(r, TRUE, FALSE)
      BY <2>3, Zenon DEF Freeze
    <3> QED
      BY <2>1, <2>3, <3>1 DEF Freeze, Return, Result, Goto, IInv, TypeOK
  <2> QED
    BY <2>2, <2>3
<1>2. CallInv(r) /\ \A q \in Request : CallIsValid(q)' <=> CallIsValid(q)
  BY <1>1 DEF IInv, CallIsValid, Faultless, AboveLimits, GrantOf
<1>3. \A q \in Request : HoldsClaim(q)' <=> HoldsClaim(q)
  BY <1>1 DEF HoldsClaim, Consumes, KeyFor, GrantOf, Row
<1>4. ASSUME NEW q \in Request PROVE CallInv(q)'
  <2>1. CASE q = r
    BY <1>1, <1>2, <1>3, <2>1 DEF CallInv, Vetted, Sending, Consumes
  <2>2. CASE q # r
    BY <1>1, <1>2, <1>3, <2>2 DEF IInv, CallInv, Consumes, KeyFor, GrantOf
  <2> QED
    BY <2>1, <2>2
<1>5. ASSUME NEW d \in audit' PROVE DecisionInv(d)'
  <2>1. d.request \in Request /\ DecisionInv(d)
    BY <1>1 DEF IInv, TypeOK, Decision
  <2> QED
    BY <2>1, <1>1 DEF DecisionInv
<1>6. OneDecisionPerCall'
  BY <1>1 DEF IInv, OneDecisionPerCall
<1>7. ASSUME NEW k \in Key PROVE HolderInv(k)'
  BY <1>1, <1>7 DEF IInv, TypeOK, HolderInv
<1>8. ASSUME NEW g \in Grant PROVE FrozenInv(g)'
  <2>1. FrozenInv(g) /\ KeyOf[g] \in Key
    BY LiveAssumption DEF IInv
  <2>2. holder[KeyOf[g]] \in Request \cup {NoRequest}
    BY <2>1 DEF IInv, TypeOK
  <2>3. CASE <<"execute_one_call", g>> \in frozen
    BY <1>1, <2>1, <2>2, <2>3 DEF FrozenInv
  <2>4. CASE <<"execute_one_call", g>> = <<call[r].tool, GrantOf(r)>>
    <3>1. Consumes(r) /\ KeyFor(r) = KeyOf[g]
      BY <2>4 DEF Consumes, KeyFor
    <3>2. holder[KeyOf[g]] = r
      BY <1>1, <1>2, <3>1 DEF CallInv, HoldsClaim
    <3> QED
      BY <1>1, <3>1, <3>2, LiveAssumption DEF FrozenInv
  <2> QED
    BY <1>1, <2>3, <2>4 DEF FrozenInv
<1> QED
  BY <1>4, <1>5, <1>6, <1>7, <1>8 DEF IInv

LEMMA LaunchStep ==
  ASSUME IInv, TypeOK', NEW r \in Request, Launch(r) PROVE IInv'
<1> USE DEF Claimed, Ended
<1>1. /\ pc[r] = "launching" /\ pc'[r] = "traffic"
      /\ \A q \in Request \ {r} : pc'[q] = pc[q]
      /\ attempts' = attempts \cup {r}
      /\ UNCHANGED <<clock, call, dbLock, holder, consumedAt, audit, frozen, report>>
  BY DEF Launch, Goto, IInv, TypeOK
<1>2. \A q \in Request : CallInv(q) /\ (CallIsValid(q)' <=> CallIsValid(q))
  BY <1>1 DEF IInv, CallIsValid, Faultless, AboveLimits, GrantOf
<1>3. \A q \in Request : HoldsClaim(q)' <=> HoldsClaim(q)
  BY <1>1 DEF HoldsClaim, Consumes, KeyFor, GrantOf, Row
<1>4. ASSUME NEW q \in Request PROVE CallInv(q)'
  <2>1. CASE q = r
    BY <1>1, <1>2, <1>3, <2>1 DEF CallInv, Vetted, Sending, Consumes, KeyFor, GrantOf
  <2>2. CASE q # r
    BY <1>1, <1>2, <1>3, <2>2 DEF CallInv, Consumes, KeyFor, GrantOf
  <2> QED
    BY <2>1, <2>2
<1>5. ASSUME NEW d \in audit' PROVE DecisionInv(d)'
  <2>1. d.request \in Request /\ DecisionInv(d)
    BY <1>1 DEF IInv, TypeOK, Decision
  <2> QED
    BY <2>1, <1>1 DEF DecisionInv
<1>6. OneDecisionPerCall'
  BY <1>1 DEF IInv, OneDecisionPerCall
<1>7. ASSUME NEW k \in Key PROVE HolderInv(k)'
  BY <1>1, <1>7 DEF IInv, TypeOK, HolderInv
<1>8. ASSUME NEW g \in Grant PROVE FrozenInv(g)'
  BY <1>1, LiveAssumption DEF IInv, TypeOK, FrozenInv
<1> QED
  BY <1>4, <1>5, <1>6, <1>7, <1>8 DEF IInv

LEMMA CrashStep ==
  ASSUME IInv, TypeOK', NEW s \in Server, Crash(s) PROVE IInv'
<1> USE DEF Claimed, Ended
<1>1. /\ \A q \in Request : \/ pc'[q] = pc[q] /\ (dbLock = q => dbLock' = q)
                           \/ pc'[q] = "lost"
      /\ UNCHANGED <<clock, call, holder, consumedAt, audit, frozen, attempts, report>>
  <2>1. ASSUME NEW q \in Request
        PROVE  \/ pc'[q] = pc[q] /\ (dbLock = q => dbLock' = q)
               \/ pc'[q] = "lost"
    BY LiveAssumption DEF Crash
  <2> QED
    BY <2>1 DEF Crash
<1>2. \A q \in Request : CallInv(q) /\ (CallIsValid(q)' <=> CallIsValid(q))
  BY <1>1 DEF IInv, CallIsValid, Faultless, AboveLimits, GrantOf
<1>3. \A q \in Request : HoldsClaim(q)' <=> HoldsClaim(q)
  BY <1>1 DEF HoldsClaim, Consumes, KeyFor, GrantOf, Row
<1>4. ASSUME NEW q \in Request PROVE CallInv(q)'
  BY <1>1, <1>2, <1>3 DEF CallInv, Vetted, Sending, Consumes, KeyFor, GrantOf
<1>5. ASSUME NEW d \in audit' PROVE DecisionInv(d)'
  <2>1. d.request \in Request /\ DecisionInv(d)
    BY <1>1 DEF IInv, TypeOK, Decision
  <2> QED
    BY <2>1, <1>1 DEF DecisionInv
<1>6. OneDecisionPerCall'
  BY <1>1 DEF IInv, OneDecisionPerCall
<1>7. ASSUME NEW k \in Key PROVE HolderInv(k)'
  BY <1>1, <1>7 DEF IInv, TypeOK, HolderInv
<1>8. ASSUME NEW g \in Grant PROVE FrozenInv(g)'
  BY <1>1, LiveAssumption DEF IInv, TypeOK, FrozenInv
<1> QED
  BY <1>4, <1>5, <1>6, <1>7, <1>8 DEF IInv

LEMMA TickStep == ASSUME IInv, TypeOK', Tick PROVE IInv'
<1>1. /\ clock \in Nat /\ clock' = clock + 1
      /\ UNCHANGED <<call, pc, dbLock, holder, consumedAt, audit, frozen, attempts,
                     report>>
  BY DEF Tick, IInv, TypeOK
<1>2. ASSUME NEW q \in Request PROVE CallInv(q)'
  <2>1. CallIsValid(q) => CallIsValid(q)'
    <3> SUFFICES ASSUME CallIsValid(q) PROVE CallIsValid(q)'
      OBVIOUS
    <3>1. NotBefore[GrantOf(q)] \in Nat /\ Skew \in Nat
      BY LiveAssumption DEF CallIsValid, Faultless, AboveLimits, Call, GrantOf
    <3>2. clock' + Skew >= NotBefore[GrantOf(q)]
      BY <1>1, <3>1 DEF CallIsValid
    <3> QED
      BY <1>1, <3>2 DEF CallIsValid, Faultless, AboveLimits, GrantOf
  <2>2. CallInv(q) /\ (HoldsClaim(q) => consumedAt[KeyFor(q)] <= clock)
    BY DEF IInv, HoldsClaim
  <2>3. ASSUME HoldsClaim(q), CallIsValid(q) PROVE HoldsClaim(q)'
    <3>1. KeyFor(q) \in Key
      BY <2>3, LiveAssumption DEF CallIsValid, Faultless, AboveLimits, Call, KeyFor, GrantOf
    <3>2. consumedAt[KeyFor(q)] \in Nat
      BY <3>1 DEF IInv, TypeOK
    <3>3. consumedAt[KeyFor(q)] <= clock'
      BY <1>1, <2>2, <2>3, <3>2
    <3> QED
      BY <1>1, <2>3, <3>3 DEF HoldsClaim, Consumes, KeyFor, GrantOf, Row
  <2> QED
    BY <1>1, <2>1, <2>2, <2>3
       DEF CallInv, Vetted, Claimed, Sending, Consumes, KeyFor, GrantOf
<1>3. \A d \in audit' : DecisionInv(d)'
  BY <1>1 DEF IInv, DecisionInv
<1>4. OneDecisionPerCall'
  BY <1>1 DEF IInv, OneDecisionPerCall
<1>5. (\A k \in Key : HolderInv(k))' /\ (\A g \in Grant : FrozenInv(g))'
  BY <1>1 DEF IInv, HolderInv, FrozenInv
<1> QED
  BY <1>2, <1>3, <1>4, <1>5 DEF IInv

LEMMA StutterStep == ASSUME IInv, TypeOK', UNCHANGED vars PROVE IInv'
<1>1. \A q \in Request : CallInv(q)'
  BY DEF vars, IInv, CallInv, CallIsValid, Faultless, AboveLimits, HoldsClaim, Consumes, KeyFor, GrantOf, Row
<1>2. /\ \A d \in audit' : DecisionInv(d)'
      /\ (\A k \in Key : HolderInv(k))' /\ (\A g \in Grant : FrozenInv(g))'
      /\ OneDecisionPerCall'
  BY DEF vars, IInv, DecisionInv, HolderInv, FrozenInv, OneDecisionPerCall
<1> QED
  BY <1>1, <1>2 DEF IInv

LEMMA InvNext == IInv /\ [Next]_vars => IInv'
<1> SUFFICES ASSUME IInv, [Next]_vars PROVE IInv'
  OBVIOUS
<1>1. TypeOK'
  BY TypeNext DEF IInv
<1>2. ASSUME NEW r \in Request, Arrive(r) \/ Serve(r) PROVE IInv'
  <2>1. CASE Reject(r)
    BY <1>1, <2>1, RefusalStep
  <2>2. CASE RecordReplay(r)
    BY <1>1, <2>2, RefusalStep
  <2>3. CASE Commit(r)
    BY <1>1, <2>3, CommitStep
  <2>4. CASE Freeze(r)
    BY <1>1, <2>4, FreezeStep
  <2>5. CASE Launch(r)
    BY <1>1, <2>5, LaunchStep
  <2> QED
    BY <1>1, <1>2, <2>1, <2>2, <2>3, <2>4, <2>5, QuietActions DEF Serve
<1>3. ASSUME NEW s \in Server, Crash(s) PROVE IInv'
  BY <1>1, <1>3, CrashStep
<1>4. CASE Tick
  BY <1>1, <1>4, TickStep
<1>5. CASE UNCHANGED vars
  BY <1>1, <1>5, StutterStep
<1> QED
  BY <1>2, <1>3, <1>4, <1>5 DEF Next

LEMMA InvInit == Init => IInv
  BY TypeInit, LiveAssumption DEF Init, IInv, CallInv, DecisionInv, HolderInv, FrozenInv,
     OneDecisionPerCall, Vetted, Claimed, Sending

THEOREM Invariant == Spec => []IInv
  BY InvInit, InvNext, PTL DEF Spec

-----------------------------------------------------------------------------
(* One (issuer, nonce) pair reaches the network at most once, whatever the *)
(* number of servers, calls, artifacts and crashes.                        *)
THEOREM AtMostOnce == Spec => []AtMostOneAttempt
<1>1. IInv => AtMostOneAttempt
  BY DEF IInv, CallInv, HoldsClaim, AtMostOneAttempt, TypeOK
<1> QED
  BY <1>1, Invariant, PTL

(* Nothing is sent for a grant that was invalid, mismatched or replayed,   *)
(* and the audit row is durable first.                                     *)
THEOREM AttemptsAuthorised == Spec => []AttemptWasAuthorised
<1>1. IInv => AttemptWasAuthorised
  BY DEF IInv, CallInv, CallIsValid, Faultless, AboveLimits, HoldsClaim, AttemptWasAuthorised, TypeOK
<1> QED
  BY <1>1, Invariant, PTL

(* A claim that reached the store after its expiry sends nothing.          *)
THEOREM StaleClaims == Spec => []StaleClaimSendsNothing
<1>1. IInv => StaleClaimSendsNothing
  BY DEF IInv, CallInv, StaleClaimSendsNothing, TypeOK
<1> QED
  BY <1>1, Invariant, PTL

(* Every attempt was authorised by the call's own grant, and in time.      *)
THEOREM AttemptsStaySound == Spec => []AttemptsAreSound
<1> QED
  BY AttemptsAuthorised, StaleClaims, PTL DEF AttemptsAreSound

(* A result that denies network activity is true.                          *)
THEOREM TruthfulReports == Spec => []ReportNeverUnderstates
<1>1. IInv => ReportNeverUnderstates
  BY DEF IInv, CallInv, ReportNeverUnderstates
<1> QED
  BY <1>1, Invariant, PTL

(* No claim is wasted on a request directory that is already there.        *)
THEOREM FreeDirectory == Spec => []ClaimFindsFreeDirectory
<1>1. ASSUME IInv, NEW r \in Request, pc[r] \in {"granted", "freezing"},
             call[r].tool = "execute_one_call",
             <<call[r].tool, GrantOf(r)>> \in frozen
      PROVE  FALSE
  <2>1. CallInv(r) /\ CallIsValid(r) /\ HoldsClaim(r)
    BY <1>1 DEF IInv, CallInv, Vetted, Claimed, Consumes
  <2>2. GrantOf(r) \in Grant /\ FrozenInv(GrantOf(r)) /\ KeyOf[GrantOf(r)] = KeyFor(r)
    BY <1>1, <2>1 DEF IInv, CallIsValid, Faultless, AboveLimits, Call, GrantOf, KeyFor
  <2> QED
    BY <1>1, <2>1, <2>2 DEF FrozenInv, HoldsClaim
<1>2. IInv => ClaimFindsFreeDirectory
  BY <1>1 DEF ClaimFindsFreeDirectory
<1> QED
  BY <1>2, Invariant, PTL

(* A nonce is spent on one attempt, whose directory is free.               *)
THEOREM NonceOnce == Spec => []NonceSpentOnce
<1>1. AtMostOneAttempt /\ ClaimFindsFreeDirectory => NonceSpentOnce
  BY DEF NonceSpentOnce
<1> QED
  BY <1>1, AtMostOnce, FreeDirectory, PTL

(* validate() writes one decision per call.                                *)
THEOREM OneDecision == Spec => []OneDecisionPerCall
<1>1. IInv => OneDecisionPerCall
  BY DEF IInv
<1> QED
  BY <1>1, Invariant, PTL

-----------------------------------------------------------------------------
(* What one step does to the consumed table and to the traffic sent.       *)
LEMMA StepEffect ==
  ASSUME IInv, [Next]_vars
  PROVE  /\ \/ UNCHANGED holder
            \/ \E r \in Request :
                  /\ KeyFor(r) \in Key /\ holder[KeyFor(r)] = NoRequest
                  /\ holder' = [holder EXCEPT ![KeyFor(r)] = r]
                  /\ UNCHANGED attempts
         /\ \/ UNCHANGED attempts
            \/ \E r \in Request : Launch(r)
         /\ \A q \in attempts : call'[q] = call[q]
<1>1. ASSUME NEW r \in Request, Arrive(r) PROVE \A q \in attempts : call'[q] = call[q]
  BY <1>1 DEF Arrive, IInv, CallInv, TypeOK
<1>2. ASSUME NEW r \in Request, Commit(r)
      PROVE  /\ UNCHANGED <<call, attempts>>
             /\ \/ UNCHANGED holder
                \/ /\ KeyFor(r) \in Key /\ holder[KeyFor(r)] = NoRequest
                   /\ holder' = [holder EXCEPT ![KeyFor(r)] = r]
  <2>1. KeyFor(r) \in Key
    BY <1>2, LiveAssumption DEF Commit, IInv, TypeOK, KeyFor, GrantOf, Call
  <2> QED
    BY <1>2, <2>1 DEF Commit
<1>3. ASSUME NEW r \in Request, Serve(r), ~Commit(r)
      PROVE  UNCHANGED <<call, holder>> /\ (UNCHANGED attempts \/ Launch(r))
  BY <1>3 DEF Serve, Acquire, Busy, RefuseInput, Reject, Validate, BeginImmediate,
     StoreFails, Replay, RecordReplay, FoundFrozen, StartFreeze, FreezeFails, Freeze,
     ExpiredLate, Recheck, Launch, Finish
<1>4. ASSUME NEW r \in Request, Arrive(r) PROVE UNCHANGED <<holder, attempts>>
  BY <1>4 DEF Arrive
<1>5. (\E s \in Server : Crash(s)) \/ Tick \/ UNCHANGED vars
         => UNCHANGED <<call, holder, attempts>>
  BY DEF Crash, Tick, vars
<1> QED
  BY <1>1, <1>2, <1>3, <1>4, <1>5 DEF Next

(* A spent nonce is never revived and never changes hands.                 *)
THEOREM SpentForever == Spec => SpentStaysSpent
<1>1. IInv /\ [Next]_vars
        => [\A k \in Key : holder[k] # NoRequest => holder'[k] = holder[k]]_vars
  <2> SUFFICES ASSUME IInv, [Next]_vars, NEW k \in Key, holder[k] # NoRequest
               PROVE  holder'[k] = holder[k]
    OBVIOUS
  <2>1. CASE UNCHANGED holder
    BY <2>1
  <2>2. ASSUME NEW r \in Request, KeyFor(r) \in Key, holder[KeyFor(r)] = NoRequest,
               holder' = [holder EXCEPT ![KeyFor(r)] = r]
        PROVE  holder'[k] = holder[k]
    BY <2>2 DEF IInv, TypeOK
  <2> QED
    BY <2>1, <2>2, StepEffect
<1> QED
  BY <1>1, Invariant, PTL DEF Spec, SpentStaysSpent

(* The controller implements the abstract promise of a capability.         *)
THEOREM Refinement == Spec => ImplementsLedger
<1>1. Init => Ledger!LedgerInit
  BY DEF Init, Ledger!LedgerInit, Uses
<1>2. IInv /\ [Next]_vars => [Ledger!LedgerNext]_(Ledger!ledgerVars)
  <2> SUFFICES ASSUME IInv, [Next]_vars
               PROVE  Ledger!LedgerNext \/ UNCHANGED <<holder, Uses>>
    BY DEF Ledger!ledgerVars
  <2>1. \A q \in attempts : KeyFor(q)' = KeyFor(q)
    BY StepEffect DEF KeyFor, GrantOf
  <2>2. UNCHANGED attempts => UNCHANGED Uses
    BY <2>1 DEF Uses
  <2>3. ASSUME NEW r \in Request, KeyFor(r) \in Key, holder[KeyFor(r)] = NoRequest,
               holder' = [holder EXCEPT ![KeyFor(r)] = r], UNCHANGED attempts
        PROVE  Ledger!LedgerNext
    <3>1. Ledger!Spend(KeyFor(r), r)
      BY <2>2, <2>3 DEF Ledger!Spend
    <3> QED
      BY <2>3, <3>1 DEF Ledger!LedgerNext
  <2>4. ASSUME NEW r \in Request, Launch(r) PROVE Ledger!LedgerNext
    <3>1. CallInv(r) /\ HoldsClaim(r) /\ CallIsValid(r) /\ r \notin attempts
      BY <2>4 DEF Launch, IInv, CallInv, Claimed, Vetted, Sending
    <3>2. KeyFor(r) \in Key /\ r # NoRequest
      BY <3>1, LiveAssumption DEF CallIsValid, Faultless, AboveLimits, KeyFor, GrantOf, Call
    <3>3. \A q \in attempts : q \in Request /\ holder[KeyFor(q)] = q
      BY DEF IInv, CallInv, HoldsClaim, TypeOK
    <3>4. Uses[KeyFor(r)] = {}
      BY <3>1, <3>2, <3>3 DEF Uses, HoldsClaim
    <3>5. /\ holder' = holder /\ attempts' = attempts \cup {r}
          /\ KeyFor(r)' = KeyFor(r)
      BY <2>4 DEF Launch, KeyFor, GrantOf
    <3>6. Uses' = [Uses EXCEPT ![KeyFor(r)] = {holder[KeyFor(r)]}]
      <4>1. ASSUME NEW k \in Key
            PROVE  Uses'[k] = IF k = KeyFor(r) THEN {r} ELSE Uses[k]
        <5>1. CASE k = KeyFor(r)
          BY <2>1, <3>4, <3>5, <5>1 DEF Uses
        <5>2. CASE k # KeyFor(r)
          BY <2>1, <3>5, <5>2 DEF Uses
        <5> QED
          BY <5>1, <5>2
      <4> QED
        BY <4>1, <3>1, <3>2 DEF Uses, HoldsClaim
    <3>7. Ledger!Use(KeyFor(r))
      BY <3>1, <3>2, <3>4, <3>5, <3>6 DEF Ledger!Use, HoldsClaim
    <3> QED
      BY <3>2, <3>7 DEF Ledger!LedgerNext
  <2>5. CASE UNCHANGED holder /\ UNCHANGED attempts
    BY <2>2, <2>5
  <2> QED
    BY <2>3, <2>4, <2>5, StepEffect
<1> QED
  BY <1>1, <1>2, Invariant, PTL DEF Spec, ImplementsLedger, Ledger!LedgerSpec

=============================================================================
