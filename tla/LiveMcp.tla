------------------------------ MODULE LiveMcp ------------------------------
(***************************************************************************)
(* The live MCP controller: tool calls (sippycup_mcp/live_tools.py) that   *)
(* validate a signed capability, claim its nonce in the SQLite replay and  *)
(* audit store (sippycup_mcp/capability.py) and only then run the fixed    *)
(* network adapter.  Several server processes share one store; a server    *)
(* may crash between any two steps.                                        *)
(*                                                                         *)
(* A capability artifact is a model value; its signed fields are the       *)
(* functions KeyOf .. ExpiresAt.  Two artifacts may carry one nonce (the   *)
(* issuer re-encodes or reissues an envelope).  Everything that can be     *)
(* wrong with a call besides the clock and the action (signature, client,  *)
(* digests, endpoints, ceilings, unreadable inputs) is the call's "defect".*)
(***************************************************************************)
EXTENDS Integers

CONSTANTS Request,    \* the tool calls made in a behaviour
          Server,     \* server processes sharing the store
          HostOf,     \* HostOf[r]: the server r is sent to
          Grant,      \* capability artifacts in circulation
          Key,        \* (issuer, nonce) pairs
          KeyOf,      \* KeyOf[g]: the pair signed into g
          ActionOf,   \* ActionOf[g]: the signed action
          NotBefore,  \* NotBefore[g], ExpiresAt[g]: the signed window
          ExpiresAt,
          Defect,     \* the kinds of defective call explored
          Skew,       \* MAX_CLOCK_SKEW_SECONDS
          MaxTime,    \* bound: the last clock value explored
          NoRequest   \* a free gate, a free database

Tool == {"prepare_assessment", "preflight_target", "execute_one_call"}

(* What can be wrong with a call; the first three are refused before the    *)
(* validator is reached, "limits" by execute_one_call alone.               *)
DefectKind == {"none", "input", "destination", "limits",
               "malformed", "signature", "identity", "digest"}

ASSUME LiveAssumption ==
    /\ NoRequest \notin Request
    /\ HostOf \in [Request -> Server]
    /\ KeyOf \in [Grant -> Key]
    /\ ActionOf \in [Grant -> Tool]
    /\ NotBefore \in [Grant -> Nat]
    /\ ExpiresAt \in [Grant -> Nat]
    /\ \A g \in Grant : NotBefore[g] < ExpiresAt[g]
    /\ Defect \subseteq DefectKind
    /\ Skew \in Nat
    /\ MaxTime \in Nat

VARIABLES clock,     \* int(time.time()), assumed not to step backwards
          gate,      \* gate[s]: the holder of server s's BoundedSemaphore(1)
          call,      \* call[r]: what the client asked for
          pc,        \* pc[r]: where r is in _invoke and below
          dbLock,    \* the connection inside BEGIN IMMEDIATE .. COMMIT
          holder,    \* the consumed table: which request's row holds k
          consumedAt,\* its consumed_at column
          audit,     \* the decisions table
          frozen,    \* the <<tool, artifact>> directories under snapshots
          attempts,  \* requests whose network adapter was started
          report     \* report[r]: the result returned to the client

vars == <<clock, gate, call, pc, dbLock, holder, consumedAt, audit, frozen,
          attempts, report>>

NoCall == [tool |-> "none"]
Call == [tool : Tool, grant : Grant, defect : Defect]

Running == {"reading", "validated", "claiming", "replayed",
            "granted", "freezing", "frozen", "launching", "traffic"}
Ended == {"returned", "lost"}

NoReport == [ok |-> FALSE, network |-> FALSE]
Decision == [request : Request, decision : {"allow", "reject"},
             code : {"consumed", "inspected", "replay", "time", "action"}
                    \cup DefectKind,
             key : Key]

TypeOK ==
    /\ clock \in 0..MaxTime
    /\ gate \in [Server -> Request \cup {NoRequest}]
    /\ call \in [Request -> Call \cup {NoCall}]
    /\ \A r \in Request : pc[r] # "idle" => call[r] \in Call
    /\ pc \in [Request -> {"idle", "waiting"} \cup Running \cup Ended]
    /\ dbLock \in Request \cup {NoRequest}
    /\ holder \in [Key -> Request \cup {NoRequest}]
    /\ consumedAt \in [Key -> 0..MaxTime]
    /\ audit \subseteq Decision
    /\ frozen \subseteq (Tool \X Grant)
    /\ attempts \subseteq Request
    /\ report \in [Request -> [ok : BOOLEAN, network : BOOLEAN]]

Init ==
    /\ clock = 0
    /\ gate = [s \in Server |-> NoRequest]
    /\ call = [r \in Request |-> NoCall]
    /\ pc = [r \in Request |-> "idle"]
    /\ dbLock = NoRequest
    /\ holder = [k \in Key |-> NoRequest]
    /\ consumedAt = [k \in Key |-> 0]
    /\ audit = {}
    /\ frozen = {}
    /\ attempts = {}
    /\ report = [r \in Request |-> NoReport]

-----------------------------------------------------------------------------
(* Derived from a call.                                                    *)

GrantOf(r) == call[r].grant
KeyFor(r) == KeyOf[GrantOf(r)]
Consumes(r) == call[r].tool # "prepare_assessment"

(* PinnedInputRoot.read: a symbolic link, a second hard link, too long, or  *)
(* changed while it was read.                                              *)
Unreadable(r) == call[r].defect = "input"
(* _plan_bindings: not one destination, or one the profile does not approve.*)
Misdirected(r) == call[r].defect = "destination"
(* _require_one_call: more than one call, or above the local hard limits.  *)
AboveLimits(r) == call[r].defect = "limits" /\ call[r].tool = "execute_one_call"
Refused(r) == Unreadable(r) \/ Misdirected(r) \/ AboveLimits(r)
Faultless(r) == call[r].defect \in {"none", "limits"} /\ ~AboveLimits(r)

(* The envelope, the payload and Endpoint.parse; the openssl verification   *)
(* under a trusted key; the client; the digests, endpoints and ceilings.   *)
Unparseable(r) == call[r].defect = "malformed"
Unverified(r) == call[r].defect = "signature"
OfAnother(r) == call[r].defect = "identity"
Unbound(r) == call[r].defect = "digest"
Untimely(g) == clock + Skew < NotBefore[g] \/ clock >= ExpiresAt[g]

(* Mutant: _match_binding forgets the signed action.                       *)
VerdictWithoutAction(r) ==
    IF call[r].defect \in {"none", "limits"} THEN "valid" ELSE call[r].defect

(* The first check of _validate and _match_binding that fails, as the      *)
(* error code the audit row gets; "valid" when all pass.                   *)
Verdict(r) ==
    LET g == GrantOf(r)
    IN  CASE Unparseable(r)               -> "malformed"
          [] Unverified(r)                -> "signature"
          [] Untimely(g)                  -> "time"
          [] OfAnother(r)                 -> "identity"
          [] ActionOf[g] # call[r].tool   -> "action"
          [] Unbound(r)                   -> "digest"
          [] OTHER                        -> "valid"

Row(r, d, c) == [request |-> r, decision |-> d, code |-> c, key |-> KeyFor(r)]

Goto(r, where) == pc' = [pc EXCEPT ![r] = where]

Result(ok, network) == [ok |-> ok, network |-> network]

(* _invoke builds the result and its finally clause releases the gate.     *)
Return(r, ok, network) ==
    /\ Goto(r, "returned")
    /\ report' = [report EXCEPT ![r] = Result(ok, network)]
    /\ gate' = [gate EXCEPT ![HostOf[r]] = NoRequest]

-----------------------------------------------------------------------------
(* A client calls a tool.                                                  *)
Arrive(r) ==
    /\ pc[r] = "idle"
    /\ \E c \in Call : call' = [call EXCEPT ![r] = c]
    /\ Goto(r, "waiting")
    /\ UNCHANGED <<clock, gate, dbLock, holder, consumedAt, audit, frozen,
                   attempts, report>>

Acquire(r) ==
    /\ pc[r] = "waiting"
    /\ gate[HostOf[r]] = NoRequest
    /\ gate' = [gate EXCEPT ![HostOf[r]] = r]
    /\ Goto(r, "reading")
    /\ UNCHANGED <<clock, call, dbLock, holder, consumedAt, audit, frozen,
                   attempts, report>>

(* The 0.25 s acquire times out: nothing was read, the gate is not ours.   *)
Busy(r) ==
    /\ pc[r] = "waiting"
    /\ gate[HostOf[r]] # NoRequest
    /\ Goto(r, "returned")
    /\ UNCHANGED <<clock, gate, call, dbLock, holder, consumedAt, audit,
                   frozen, attempts, report>>

(* _read_inputs, _load_plan, _load_profile, _plan_bindings (and the local  *)
(* one-call limits) refuse before the validator is reached: no audit row.  *)
RefuseInput(r) ==
    /\ pc[r] = "reading"
    /\ Refused(r)
    /\ Return(r, FALSE, FALSE)
    /\ UNCHANGED <<clock, call, dbLock, holder, consumedAt, audit, frozen,
                   attempts>>

(* _validate or _match_binding refuses.  The audit row is written unless    *)
(* the store stays locked or fails, which also ends the call.              *)
Reject(r) ==
    /\ pc[r] = "reading"
    /\ ~Refused(r)
    /\ Verdict(r) # "valid"
    /\ \/ audit' = audit
       \/ dbLock = NoRequest /\ audit' = audit \cup {Row(r, "reject", Verdict(r))}
    /\ Return(r, FALSE, FALSE)
    /\ UNCHANGED <<clock, call, dbLock, holder, consumedAt, frozen, attempts>>

Validate(r) ==
    /\ pc[r] = "reading"
    /\ ~Refused(r)
    /\ Verdict(r) = "valid"
    /\ Goto(r, "validated")
    /\ UNCHANGED <<clock, gate, call, dbLock, holder, consumedAt, audit, frozen,
                   attempts, report>>

-----------------------------------------------------------------------------
(* ReplayAuditStore.allow.                                                 *)

BeginImmediate(r) ==
    /\ pc[r] = "validated"
    /\ dbLock = NoRequest
    /\ dbLock' = r
    /\ Goto(r, "claiming")
    /\ UNCHANGED <<clock, gate, call, holder, consumedAt, audit, frozen,
                   attempts, report>>

(* busy_timeout, disk full, I/O error: rolled back, "audit failed closed". *)
StoreFails(r) ==
    /\ pc[r] \in {"validated", "claiming"}
    /\ dbLock' = IF dbLock = r THEN NoRequest ELSE dbLock
    /\ Return(r, FALSE, FALSE)
    /\ UNCHANGED <<clock, call, holder, consumedAt, audit, frozen, attempts>>

(* Mutant: INSERT OR REPLACE.                                              *)
CommitReplacing(r) ==
    /\ pc[r] = "claiming" /\ dbLock = r
    /\ dbLock' = NoRequest
    /\ holder' = IF Consumes(r) THEN [holder EXCEPT ![KeyFor(r)] = r] ELSE holder
    /\ consumedAt' = IF Consumes(r) THEN [consumedAt EXCEPT ![KeyFor(r)] = clock]
                                    ELSE consumedAt
    /\ audit' = audit \cup {Row(r, "allow", IF Consumes(r) THEN "consumed" ELSE "inspected")}
    /\ Goto(r, "granted")
    /\ UNCHANGED <<clock, gate, call, frozen, attempts, report>>
(* The INSERTs and COMMIT of an allowed decision: nothing before it is     *)
(* durable, so they are one step.                                          *)
Commit(r) ==
    /\ pc[r] = "claiming"
    /\ dbLock = r
    /\ Consumes(r) => holder[KeyFor(r)] = NoRequest
    /\ dbLock' = NoRequest
    /\ IF Consumes(r)
       THEN /\ holder' = [holder EXCEPT ![KeyFor(r)] = r]
            /\ consumedAt' = [consumedAt EXCEPT ![KeyFor(r)] = clock]
            /\ audit' = audit \cup {Row(r, "allow", "consumed")}
       ELSE /\ audit' = audit \cup {Row(r, "allow", "inspected")}
            /\ UNCHANGED <<holder, consumedAt>>
    /\ Goto(r, "granted")
    /\ UNCHANGED <<clock, gate, call, frozen, attempts, report>>

(* Mutants: a replay is retried for ever; a replay is let through.         *)
ReplayRetried(r) ==
    /\ pc[r] = "claiming" /\ dbLock = r
    /\ Consumes(r) /\ holder[KeyFor(r)] # NoRequest
    /\ dbLock' = NoRequest
    /\ Goto(r, "validated")
    /\ UNCHANGED <<clock, gate, call, holder, consumedAt, audit, frozen,
                   attempts, report>>
ReplayAdmitted(r) ==
    /\ pc[r] = "claiming" /\ dbLock = r
    /\ Consumes(r) /\ holder[KeyFor(r)] # NoRequest
    /\ dbLock' = NoRequest
    /\ Goto(r, "granted")
    /\ UNCHANGED <<clock, gate, call, holder, consumedAt, audit, frozen,
                   attempts, report>>

(* The primary key refuses it: roll back, then record the replay.          *)
Replay(r) ==
    /\ pc[r] = "claiming"
    /\ dbLock = r
    /\ Consumes(r)
    /\ holder[KeyFor(r)] # NoRequest
    /\ dbLock' = NoRequest
    /\ Goto(r, "replayed")
    /\ UNCHANGED <<clock, gate, call, holder, consumedAt, audit, frozen,
                   attempts, report>>

(* The decision row of the replay; one that cannot be stored is let go.     *)
RecordReplay(r) ==
    /\ pc[r] = "replayed"
    /\ \/ audit' = audit
       \/ dbLock = NoRequest /\ audit' = audit \cup {Row(r, "reject", "replay")}
    /\ Return(r, FALSE, FALSE)
    /\ UNCHANGED <<clock, call, dbLock, holder, consumedAt, frozen, attempts>>

-----------------------------------------------------------------------------
(* What each tool does with the grant.                                     *)

(* _freeze_snapshot and _freeze_one_call look for their directory.  An     *)
(* existing snapshot is re-verified and returned; an existing one-call     *)
(* request is refused, its nonce already spent.                            *)
FoundFrozen(r) ==
    /\ pc[r] = "granted"
    /\ <<call[r].tool, GrantOf(r)>> \in frozen
    /\ Return(r, ~Consumes(r), FALSE)
    /\ UNCHANGED <<clock, call, dbLock, holder, consumedAt, audit, frozen,
                   attempts>>

StartFreeze(r) ==
    /\ pc[r] = "granted"
    /\ call[r].tool # "preflight_target"
    /\ <<call[r].tool, GrantOf(r)>> \notin frozen
    /\ Goto(r, "freezing")
    /\ UNCHANGED <<clock, gate, call, dbLock, holder, consumedAt, audit, frozen,
                   attempts, report>>

(* The rename into place; it fails on I/O, or because a concurrent call    *)
(* of another server put the same content-addressed directory there first. *)
(* _freeze_snapshot can also fail after it, in fsync of the parent.        *)
FreezeFails(r) ==
    /\ pc[r] = "freezing"
    /\ \/ frozen' = frozen
       \/ ~Consumes(r) /\ frozen' = frozen \cup {<<call[r].tool, GrantOf(r)>>}
    /\ Return(r, FALSE, FALSE)
    /\ UNCHANGED <<clock, call, dbLock, holder, consumedAt, audit, attempts>>

Freeze(r) ==
    /\ pc[r] = "freezing"
    /\ <<call[r].tool, GrantOf(r)>> \notin frozen
    /\ frozen' = frozen \cup {<<call[r].tool, GrantOf(r)>>}
    /\ IF Consumes(r)
       THEN Goto(r, "frozen") /\ UNCHANGED <<gate, report>>
       ELSE Return(r, TRUE, FALSE)
    /\ UNCHANGED <<clock, call, dbLock, holder, consumedAt, audit, attempts>>

ReadyToSend(r) ==
    \/ pc[r] = "granted" /\ call[r].tool = "preflight_target"
    \/ pc[r] = "frozen"

(* "capability expired immediately before ...": spent, but nothing sent.   *)
ExpiredLate(r) ==
    /\ ReadyToSend(r)
    /\ clock >= ExpiresAt[GrantOf(r)]
    /\ Return(r, FALSE, FALSE)
    /\ UNCHANGED <<clock, call, dbLock, holder, consumedAt, audit, frozen,
                   attempts>>

Recheck(r) ==
    /\ ReadyToSend(r)
    /\ clock < ExpiresAt[GrantOf(r)]
    /\ Goto(r, "launching")
    /\ UNCHANGED <<clock, gate, call, dbLock, holder, consumedAt, audit, frozen,
                   attempts, report>>

(* preflight_probe(destination) or process_runner.run_json([helper ...]).  *)
Launch(r) ==
    /\ pc[r] = "launching"
    /\ attempts' = attempts \cup {r}
    /\ Goto(r, "traffic")
    /\ UNCHANGED <<clock, gate, call, dbLock, holder, consumedAt, audit, frozen,
                   report>>

(* Mutant: a failed adapter is reported as no network activity.            *)
FinishQuietly(r) ==
    /\ pc[r] = "traffic"
    /\ \E ok \in BOOLEAN : Return(r, ok, ok)
    /\ UNCHANGED <<clock, call, dbLock, holder, consumedAt, audit, frozen,
                   attempts>>

(* The adapter answers, or raises a Preflight- or OneCallAttemptError.     *)
Finish(r) ==
    /\ pc[r] = "traffic"
    /\ \E ok \in BOOLEAN : Return(r, ok, TRUE)
    /\ UNCHANGED <<clock, call, dbLock, holder, consumedAt, audit, frozen,
                   attempts>>

-----------------------------------------------------------------------------
(* A server process dies: its calls never answer, SQLite rolls back an     *)
(* open transaction, and the restarted process has a fresh semaphore.      *)
Crash(s) ==
    LET dead == {r \in Request : HostOf[r] = s /\ pc[r] \in Running \cup {"waiting"}}
    IN  /\ dead # {}
        /\ pc' = [r \in Request |-> IF r \in dead THEN "lost" ELSE pc[r]]
        /\ gate' = [gate EXCEPT ![s] = NoRequest]
        /\ dbLock' = IF dbLock \in dead THEN NoRequest ELSE dbLock
        /\ UNCHANGED <<clock, call, holder, consumedAt, audit, frozen, attempts,
                       report>>

Tick ==
    /\ clock < MaxTime
    /\ clock' = clock + 1
    /\ UNCHANGED <<gate, call, pc, dbLock, holder, consumedAt, audit, frozen,
                   attempts, report>>

Serve(r) ==
    \/ Acquire(r) \/ Busy(r) \/ RefuseInput(r) \/ Reject(r) \/ Validate(r)
    \/ BeginImmediate(r) \/ StoreFails(r) \/ Commit(r) \/ Replay(r)
    \/ RecordReplay(r) \/ FoundFrozen(r) \/ StartFreeze(r)
    \/ FreezeFails(r) \/ Freeze(r) \/ ExpiredLate(r) \/ Recheck(r)
    \/ Launch(r) \/ Finish(r)

Next ==
    \/ \E r \in Request : Arrive(r) \/ Serve(r)
    \/ \E s \in Server : Crash(s)
    \/ Tick

Spec == Init /\ [][Next]_vars

(* A call that can move does: every wait in _invoke is bounded (the gate   *)
(* 0.25 s, the store 5 s, the adapter 2 s, the helper 130 s).              *)
FairSpec == Spec /\ \A r \in Request : WF_vars(Serve(r))
-----------------------------------------------------------------------------
(* Properties.                                                             *)

(* capability.py, ReplayAuditStore: "atomic one-time nonce claim".  Two    *)
(* calls that present one (issuer, nonce), in any server, in any order and *)
(* across crashes, never both reach the network.                           *)
AtMostOneAttempt ==
    \A r, q \in attempts : KeyFor(r) = KeyFor(q) => r = q

(* docs/MCP-LIVE.md: invalid, mismatched and replayed grants never invoke  *)
(* the adapter, and an attempt is preceded by its durable audit row and is *)
(* never earlier than the signed window allows.                            *)
AttemptWasAuthorised ==
    \A r \in attempts :
        /\ Faultless(r)
        /\ call[r].tool = ActionOf[GrantOf(r)]
        /\ holder[KeyFor(r)] = r
        /\ Row(r, "allow", "consumed") \in audit
        /\ clock + Skew >= NotBefore[GrantOf(r)]

(* A claim that waited for the store past the grant's expiry is spent but  *)
(* sends nothing: the second expiry check in _preflight and _one_call.     *)
StaleClaimSendsNothing ==
    \A r \in attempts : consumedAt[KeyFor(r)] < ExpiresAt[GrantOf(r)]

(* What reached the network was authorised, and in time.                   *)
AttemptsAreSound == AttemptWasAuthorised /\ StaleClaimSendsNothing

(* networkActivity: false in a result means no adapter was started for it. *)
ReportNeverUnderstates ==
    \A r \in Request :
        pc[r] = "returned" /\ ~report[r].network => r \notin attempts

(* _freeze_one_call's "one-call request already exists" never burns a      *)
(* nonce: whoever holds the claim finds its directory free.                *)
ClaimFindsFreeDirectory ==
    \A r \in Request :
        pc[r] \in {"granted", "freezing"} /\ call[r].tool = "execute_one_call"
            => <<call[r].tool, GrantOf(r)>> \notin frozen

(* A nonce is spent once: on one attempt, with its directory free for it.  *)
NonceSpentOnce == AtMostOneAttempt /\ ClaimFindsFreeDirectory

(* validate() records each call's decision once: the row "replay" written  *)
(* by allow() is not repeated by the except clause of validate().          *)
OneDecisionPerCall ==
    \A d, e \in audit : d.request = e.request => d = e

(* The consumed table only grows: no crash, failure or later call revives  *)
(* a nonce or moves it to another artifact.                                *)
SpentStaysSpent ==
    [][\A k \in Key : holder[k] # NoRequest => holder'[k] = holder[k]]_vars

(* The controller implements the abstract promise of a capability.         *)
Uses == [k \in Key |-> {r \in attempts : KeyFor(r) = k}]
Ledger == INSTANCE AuthorityLedger WITH uses <- Uses
ImplementsLedger == Ledger!LedgerSpec

-----------------------------------------------------------------------------
(* The inductive invariant behind the safety properties above.             *)

Vetted == {"validated", "claiming", "granted", "freezing", "frozen",
           "launching", "traffic"}
Claimed == {"granted", "freezing", "frozen", "launching", "traffic"}
Sending == {"frozen", "launching", "traffic"}

(* The call passed _validate at some clock value not after this one.       *)
CallIsValid(r) ==
    /\ call[r] \in Call
    /\ Faultless(r)
    /\ call[r].tool = ActionOf[GrantOf(r)]
    /\ clock + Skew >= NotBefore[GrantOf(r)]

HoldsClaim(r) ==
    /\ Consumes(r)
    /\ holder[KeyFor(r)] = r
    /\ consumedAt[KeyFor(r)] <= clock
    /\ Row(r, "allow", "consumed") \in audit

CallInv(r) ==
    /\ pc[r] \in Vetted \/ r \in attempts => CallIsValid(r)
    /\ pc[r] = "claiming" => dbLock = r
    /\ pc[r] \in Sending => Consumes(r)
    /\ (pc[r] \in Claimed /\ Consumes(r)) \/ r \in attempts => HoldsClaim(r)
    /\ pc[r] = "launching" \/ r \in attempts
          => consumedAt[KeyFor(r)] < ExpiresAt[GrantOf(r)]
    /\ r \in attempts => pc[r] \in {"traffic", "returned", "lost"}
    /\ r \in attempts /\ pc[r] = "returned" => report[r].network

DecisionInv(d) ==
    /\ pc[d.request] \in Claimed \cup Ended
    /\ d.decision = "reject" => pc[d.request] \in Ended

HolderInv(k) == holder[k] # NoRequest => pc[holder[k]] \in Claimed \cup Ended

FrozenInv(g) ==
    <<"execute_one_call", g>> \in frozen
        => /\ holder[KeyOf[g]] # NoRequest
           /\ pc[holder[KeyOf[g]]] \notin {"granted", "freezing"}

IInv ==
    /\ TypeOK
    /\ \A r \in Request : CallInv(r)
    /\ \A d \in audit : DecisionInv(d)
    /\ OneDecisionPerCall
    /\ \A k \in Key : HolderInv(k)
    /\ \A g \in Grant : FrozenInv(g)

-----------------------------------------------------------------------------
(* Every call is answered or dies with its server: no gate, database lock  *)
(* or failed step leaves a client waiting.                                 *)
EveryCallEnds == \A r \in Request : pc[r] = "waiting" ~> pc[r] \in Ended
=============================================================================
