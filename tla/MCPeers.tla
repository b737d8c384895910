------------------------------- MODULE MCPeers -------------------------------
(* The two self-tests of webrtc-peer, checked one beside the other: subject *)
(* says which of them a behaviour is about, and the other stands still.     *)
EXTENDS Integers, Sequences

CONSTANTS MaxMessages, AcceptForeign, MaxLate, Packets, RequireRelay, Candidates

(* maxFixtureMessages is 4, and the self-test counts on it: its fifth        *)
(* message on one connection is the one it expects to be refused.           *)
ASSUME PeersAssumption ==
    /\ MaxMessages = 4 /\ AcceptForeign \subseteq BOOLEAN /\ MaxLate \in Nat \ {0}
    /\ Packets \in Nat \ {0} /\ RequireRelay \subseteq BOOLEAN
    /\ Candidates \subseteq {"host", "relay"}

VARIABLES subject,
          accept, sExpired, at, step, client, observed, checks, wire, served,
          nonces, open, messages, authFailures, report,
          relay, cExpired, pc, before, status, heard, callbacks, connected, state,
          trickle, forwarder, known, sent, flight, reader, received, rtcp

S == INSTANCE Signaling WITH expired <- sExpired
C == INSTANCE PeerCall WITH expired <- cExpired

signaling == <<accept, sExpired, at, step, client, observed, checks, wire, served,
               nonces, open, messages, authFailures, report>>
call == <<relay, cExpired, pc, before, status, heard, callbacks, connected, state,
          trickle, forwarder, known, sent, flight, reader, received, rtcp>>
vars == <<subject, signaling, call>>

Init ==
    /\ subject \in {"signaling", "call"} /\ S!Init /\ C!Init
    (* A frozen part has one initial state.                                 *)
    /\ subject = "call" => accept = FALSE
    /\ subject = "signaling" => relay = FALSE

SignalingClient == subject = "signaling" /\ S!Client /\ UNCHANGED <<subject, call>>
SignalingServes == subject = "signaling" /\ (\E c \in DOMAIN S!Checks : S!Serve(c)) /\ UNCHANGED <<subject, call>>
SignalingExpires == subject = "signaling" /\ S!Expire /\ UNCHANGED <<subject, call>>
CallRunner == subject = "call" /\ C!Runner /\ UNCHANGED <<subject, signaling>>
CallGoroutine == subject = "call" /\ C!Goroutine /\ UNCHANGED <<subject, signaling>>
CallLoses == subject = "call" /\ C!Lose /\ UNCHANGED <<subject, signaling>>
CallExpires == subject = "call" /\ C!Expire /\ UNCHANGED <<subject, signaling>>

Next == \/ SignalingClient \/ SignalingExpires \/ SignalingServes
        \/ CallRunner \/ CallGoroutine \/ CallLoses \/ CallExpires

(* Goroutines run, and the context's timer fires.                           *)
FairSpec ==
    /\ Init /\ [][Next]_vars
    /\ WF_vars(SignalingClient) /\ WF_vars(SignalingServes)
    /\ WF_vars(CallRunner) /\ WF_vars(CallExpires)

(* The signaling verdict is the adapter's, and a pass leaks no connection.  *)
VerdictIsTheAdapters == S!VerdictIsTheAdapters /\ S!PassMeansDisconnected
(* A passing call was whole, and its restart found what there was to find.  *)
PassMeansWholeCall == C!TypeOK /\ C!PassMeansWholeCall /\ C!RestartFoundCandidates
RestartIsFresh == C!RestartIsFresh
SelfTestsEnd == (subject = "signaling" => S!SelfTestEnds) /\ (subject = "call" => C!CallEnds)
=============================================================================
