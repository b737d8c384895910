------------------------------ MODULE Signaling ------------------------------
(***************************************************************************)
(* webrtc-peer/signaling.go: the loopback signaling adapter and the        *)
(* self-test that exercises it.  The client runs its checks one after      *)
(* another, each on a connection of its own; the adapter serves every      *)
(* connection in a goroutine that may still be closing when the client     *)
(* has gone on.  The deadline refuses new connections.                     *)
(***************************************************************************)
EXTENDS Integers, Sequences, FiniteSets

CONSTANTS MaxMessages,   \* maxFixtureMessages
          AcceptForeign, \* the negative control: which values acceptForeign may have
          MaxLate        \* bound: goroutines of ended checks that are still closing

VARIABLES accept,      \* acceptForeign
          expired,     \* the context's deadline has passed
          at, step,    \* the client: which check, which of its requests
          client,      \* "dial", "send", "receive", "settle", "reported"
          observed, checks,
          wire,        \* per connection, what is on its way: <<"request", r>>, <<"response", o>>
          served,      \* per connection, its goroutine: [pc, state, role, count]
          nonces, open, messages, authFailures,  \* the adapter, under its mutex
          report       \* [status, open], once encoded

adapter == <<nonces, open, messages, authFailures>>
vars == <<accept, expired, at, step, client, observed, checks, wire, served, adapter, report>>

Hello(session, nonce) == [op |-> "hello", session |-> session, nonce |-> nonce, big |-> FALSE]
Ask(op) == [op |-> op, session |-> "", nonce |-> "", big |-> FALSE]
Check(origin, requests, expected) ==
    [origin |-> origin, requests |-> requests, expected |-> expected]

(* exerciseSignalingFixture, after the certificate check.                  *)
Checks == <<
    Check("foreign", <<>>, "handshake-rejected"),
    Check("allowed", <<Hello("", "")>>, "denied"),
    Check("allowed", <<Hello("expired", "expiry-1")>>, "expired"),
    Check("allowed", <<Hello("viewer", "role-1"), Ask("write")>>, "denied"),
    Check("allowed", <<Ask("write")>>, "rejected"),
    Check("allowed", <<Hello("viewer", "replay-1")>>, "allowed"),
    Check("allowed", <<Hello("viewer", "replay-1")>>, "rejected"),
    Check("allowed", <<[Hello("viewer", "size-1") EXCEPT !.big = TRUE]>>, "rejected"),
    Check("allowed", <<Hello("operator", "rate-1"), Ask("read"), Ask("read"), Ask("read"),
                       Ask("read")>>, "rate-limited"),
    Check("allowed", <<Hello("viewer", "reconnect-1"), Ask("close")>>, "closed"),
    Check("allowed", <<Hello("viewer", "reconnect-2"), Ask("read")>>, "allowed")>>

Init ==
    /\ accept \in AcceptForeign /\ expired = FALSE
    /\ at = 1 /\ step = 1 /\ client = "dial" /\ observed = "" /\ checks = <<>>
    /\ wire = [c \in DOMAIN Checks |-> <<>>]
    /\ served = [c \in DOMAIN Checks |->
                   [pc |-> "none", state |-> "pre-auth", role |-> "", count |-> 0]]
    /\ nonces = {} /\ open = 0 /\ messages = 0 /\ authFailures = 0
    /\ report = [status |-> "none", open |-> 0]

-----------------------------------------------------------------------------
(* The client.                                                             *)

(* run ends: the check is recorded, the next connection dialled.            *)
Record(outcome) ==
    /\ checks' = Append(checks, outcome = Checks[at].expected)
    /\ at' = at + 1 /\ step' = 1 /\ observed' = ""
    /\ client' = IF at = Len(Checks) THEN "settle" ELSE "dial"

Admits(origin) == origin = "allowed" \/ accept

(* dialSignaling and handshake, which counts the connection under the lock. *)
Dial ==
    /\ client = "dial" /\ open <= MaxLate
    /\ IF ~expired /\ Admits(Checks[at].origin)
         THEN /\ open' = open + 1
              /\ served' = [served EXCEPT ![at].pc = "receive"]
              /\ IF Checks[at].requests = <<>>
                   THEN Record("connected") /\ wire' = [wire EXCEPT ![at] = <<"closed">>]
                   ELSE client' = "send" /\ UNCHANGED <<at, step, observed, checks, wire>>
         ELSE /\ Record(IF expired THEN "dial-error" ELSE "handshake-rejected")
              /\ UNCHANGED <<open, served, wire>>
    /\ UNCHANGED <<accept, expired, nonces, messages, authFailures, report>>

Send ==
    /\ client = "send"
    /\ wire' = [wire EXCEPT ![at] = <<"request", Checks[at].requests[step]>>]
    /\ client' = "receive"
    /\ UNCHANGED <<accept, expired, at, step, observed, checks, served, adapter, report>>

(* The last response is the observation; then the connection is closed.     *)
Receive ==
    /\ client = "receive" /\ wire[at] # <<>> /\ wire[at][1] = "response"
    /\ IF step < Len(Checks[at].requests)
         THEN /\ step' = step + 1 /\ client' = "send" /\ observed' = wire[at][2]
              /\ wire' = [wire EXCEPT ![at] = <<>>]
              /\ UNCHANGED <<at, checks>>
         ELSE Record(wire[at][2]) /\ wire' = [wire EXCEPT ![at] = <<"closed">>]
    /\ UNCHANGED <<accept, expired, served, adapter, report>>

(* Mutant: the report does not look at the connections left open.          *)
SettleAtOnce ==
    /\ client = "settle"
    /\ report' = [status |-> IF \A i \in DOMAIN checks : checks[i] THEN "pass" ELSE "fail",
                  open |-> 0]
    /\ client' = "reported"
    /\ UNCHANGED <<accept, expired, at, step, observed, checks, wire, served, adapter>>

(* Half a second for the goroutines to end, or not long enough.            *)
Settle ==
    /\ client = "settle"
    /\ report' = [status |-> IF open = 0 /\ \A i \in DOMAIN checks : checks[i]
                             THEN "pass" ELSE "fail",
                  open |-> open]
    /\ client' = "reported"
    /\ UNCHANGED <<accept, expired, at, step, observed, checks, wire, served, adapter>>

Client == Dial \/ Send \/ Receive \/ Settle

-----------------------------------------------------------------------------
(* The adapter's goroutine of connection c.                                *)

Reply(c, outcome, state, pc) ==
    /\ wire' = [wire EXCEPT ![c] = <<"response", outcome>>]
    /\ served' = [served EXCEPT ![c].state = state, ![c].pc = pc]

(* Receive returns an error when the client has closed.                    *)
Hangup(c) ==
    /\ served[c].pc = "receive" /\ wire[c] = <<"closed">>
    /\ served' = [served EXCEPT ![c].pc = "leave"]
    /\ UNCHANGED <<accept, expired, at, step, client, observed, checks, wire, adapter, report>>

Count(c) ==
    /\ served[c].pc = "receive" /\ wire[c] # <<>> /\ wire[c][1] = "request"
    /\ served' = [served EXCEPT ![c].count = @ + 1, ![c].pc = "handle"]
    /\ messages' = messages + 1
    /\ UNCHANGED <<accept, expired, at, step, client, observed, checks, wire, nonces, open,
                   authFailures, report>>

(* Limits first, then the operation in the state of the session.  The      *)
(* nonce is looked up and stored in one critical section, whatever becomes *)
(* of the session.                                                         *)
HandleHello(c, r) ==
    LET s == served[c] IN
    CASE s.state # "pre-auth" ->
            Reply(c, "rejected", s.state, "leave") /\ UNCHANGED <<nonces, authFailures>>
      [] s.state = "pre-auth" /\ (r.session = "" \/ r.nonce = "") ->
            /\ Reply(c, "denied", s.state, "leave")
            /\ authFailures' = authFailures + 1 /\ UNCHANGED nonces
      [] s.state = "pre-auth" /\ r.session # "" /\ r.nonce # "" ->
            /\ nonces' = nonces \cup {r.nonce}
            /\ CASE r.nonce \in nonces ->
                      Reply(c, "rejected", s.state, "leave") /\ UNCHANGED authFailures
                 [] r.nonce \notin nonces /\ r.session = "expired" ->
                      Reply(c, "expired", "expired", "leave") /\ UNCHANGED authFailures
                 [] r.nonce \notin nonces /\ r.session \in {"viewer", "operator"} ->
                      /\ wire' = [wire EXCEPT ![c] = <<"response", "allowed">>]
                      /\ served' = [served EXCEPT ![c].state = "authenticated",
                                                  ![c].role = r.session, ![c].pc = "receive"]
                      /\ UNCHANGED authFailures
                 [] OTHER -> Reply(c, "denied", s.state, "leave") /\ authFailures' = authFailures + 1

HandleOther(c, r) ==
    LET s == served[c] IN
    /\ CASE r.op = "close" -> Reply(c, "closed", "closed", "leave")
         [] r.op \in {"read", "write"} /\ s.state # "authenticated" ->
               Reply(c, "rejected", s.state, "leave")
         [] r.op = "write" /\ s.state = "authenticated" /\ s.role # "operator" ->
               Reply(c, "denied", s.state, "receive")
         [] OTHER -> Reply(c, "allowed", s.state, "receive")
    /\ UNCHANGED <<nonces, authFailures>>

Handle(c) ==
    /\ served[c].pc = "handle"
    /\ LET r == wire[c][2] IN
       CASE r.big -> Reply(c, "rejected", served[c].state, "leave") /\ UNCHANGED <<nonces, authFailures>>
         [] ~r.big /\ served[c].count > MaxMessages ->
              Reply(c, "rate-limited", served[c].state, "leave") /\ UNCHANGED <<nonces, authFailures>>
         [] OTHER -> IF r.op = "hello" THEN HandleHello(c, r) ELSE HandleOther(c, r)
    /\ UNCHANGED <<accept, expired, at, step, client, observed, checks, open, messages, report>>

(* The deferred function of serve.                                         *)
Leave(c) ==
    /\ served[c].pc = "leave"
    /\ open' = open - 1 /\ served' = [served EXCEPT ![c].pc = "gone"]
    /\ UNCHANGED <<accept, expired, at, step, client, observed, checks, wire, nonces, messages,
                   authFailures, report>>

Serve(c) == Hangup(c) \/ Count(c) \/ Handle(c) \/ Leave(c)

(* The context's deadline passes.                                          *)
Expire ==
    /\ ~expired /\ client # "reported" /\ expired' = TRUE
    /\ UNCHANGED <<accept, at, step, client, observed, checks, wire, served, adapter, report>>

Next == Client \/ Expire \/ \E c \in DOMAIN Checks : Serve(c)
Spec == Init /\ [][Next]_vars

(* Goroutines run; nothing they wait for waits for them.                    *)
FairSpec == Spec /\ WF_vars(Client) /\ WF_vars(\E c \in DOMAIN Checks : Serve(c))
-----------------------------------------------------------------------------
(* Properties.                                                             *)

(* The verdict does not depend on how far old connections are: in time the  *)
(* right adapter passes every check, and the one that accepts a foreign     *)
(* origin (the "local negative control") never passes.                      *)
VerdictIsTheAdapters ==
    /\ accept /\ client = "reported" => report.status = "fail"
    /\ ~accept /\ ~expired => \A i \in DOMAIN checks : checks[i]

(* "connection leak": a pass means that every connection is closed, and the *)
(* counter never misses one.                                                *)
PassMeansDisconnected ==
    /\ open = Cardinality({c \in DOMAIN Checks : served[c].pc \in {"receive", "handle", "leave"}})
    /\ report.status = "pass" => open = 0

(* The self-test ends, whatever the adapter answers and when it closes.     *)
SelfTestEnds == <>(client = "reported")
=============================================================================
