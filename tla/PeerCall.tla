------------------------------- MODULE PeerCall -------------------------------
(***************************************************************************)
(* webrtc-peer/main.go and relay.go: one bounded audio call between two    *)
(* peers of one process, over loopback or through a TURN relay.  The       *)
(* runner goes through its steps; callbacks of the WebRTC library count    *)
(* candidates, goroutines forward them, read the media and read RTCP.      *)
(* The library and the network are external: candidates come when they     *)
(* come, packets may be lost or overtake each other, a call may fail.      *)
(***************************************************************************)
EXTENDS Integers, Sequences, FiniteSets

CONSTANTS Packets,      \* packetCount
          RequireRelay, \* which self-tests: relay-self-test requires relay candidates
          Candidates    \* bound: the kinds of candidate one gathering may find

VARIABLES relay,              \* requireRelay
          expired,            \* the context's deadline has passed
          pc, before, status, \* the runner, its counts before the restart, report.Status
          heard,              \* per peer: OnICECandidate calls so far, [kind, restart]
          callbacks,          \* per peer: those to come
          connected, state,   \* per peer: its channel is closed; ConnectionState()
          trickle, forwarder, \* per peer: candidates not yet forwarded; their goroutine
          known,              \* the peers that know a candidate of the other
          sent, flight,       \* packets written; those still in the network
          reader, received,   \* readCanary: "none", "reading", "full", "failed", "over"
          rtcp                \* the RTCP reader runs

endpoints == <<heard, callbacks, connected, state, trickle, forwarder, known>>
media == <<sent, flight, reader, received>>
vars == <<relay, expired, pc, before, status, endpoints, media, rtcp>>

Peer == {"left", "right"}
Other(p) == IF p = "left" THEN "right" ELSE "left"
Each(x) == [p \in Peer |-> x]

(* The counters of an endpoint.                                            *)
Heard(p, kinds) == Cardinality({i \in DOMAIN heard[p] : heard[p][i].kind \in kinds})
Gathered(p) == Heard(p, {"host", "relay"})
Relayed(p) == Heard(p, {"relay"})
Completed(p) == Heard(p, {"end"})

Init ==
    /\ relay \in RequireRelay /\ expired = FALSE
    /\ pc = "negotiate" /\ before = Each(<<0, 0>>) /\ status = "none"
    /\ heard = Each(<<>>) /\ callbacks = Each(<<>>)
    /\ connected = Each(FALSE) /\ state = Each("new")
    /\ trickle = Each(0) /\ forwarder = Each("none") /\ known = {}
    /\ sent = 0 /\ flight = {} /\ reader = "none" /\ received = <<>>
    /\ rtcp = TRUE

-----------------------------------------------------------------------------
(* The library's callbacks and the goroutines.                             *)

(* What gathering will report: some candidates, then nil.                  *)
Found(restart) ==
    {<<[kind |-> "end", restart |-> restart]>>}
    \cup {<<[kind |-> k, restart |-> restart], [kind |-> "end", restart |-> restart]>> : k \in Candidates}

(* OnICECandidate: count, and hand on if there is room, which there is.    *)
Gather(p) ==
    /\ callbacks[p] # <<>> /\ state[p] # "closed"
    /\ callbacks' = [callbacks EXCEPT ![p] = Tail(@)]
    /\ heard' = [heard EXCEPT ![p] = Append(@, Head(callbacks[p]))]
    /\ trickle' = IF Head(callbacks[p]).kind = "end" THEN trickle ELSE [trickle EXCEPT ![p] = @ + 1]
    /\ UNCHANGED <<relay, expired, pc, before, status, connected, state, forwarder, known, media, rtcp>>

(* forwardCandidates: ends at its first error, which nobody reads later.   *)
Forward(p) ==
    /\ forwarder[p] = "runs" /\ trickle[p] > 0
    /\ trickle' = [trickle EXCEPT ![p] = @ - 1]
    /\ \/ known' = known \cup {Other(p)} /\ UNCHANGED forwarder
       \/ forwarder' = [forwarder EXCEPT ![p] = "failed"] /\ UNCHANGED known
    /\ UNCHANGED <<relay, expired, pc, before, status, heard, callbacks,
                   connected, state, media, rtcp>>

(* A connection needs one peer that knows how to reach the other.          *)
Connect(p) ==
    /\ state[p] = "new" /\ known # {}
    /\ state' = [state EXCEPT ![p] = "connected"] /\ connected' = [connected EXCEPT ![p] = TRUE]
    /\ UNCHANGED <<relay, expired, pc, before, status, heard, callbacks,
                   trickle, forwarder, known, media, rtcp>>

(* OnTrack starts readCanary, which stops at its count, at an error, after  *)
(* a second without a packet, or because its connection is closed.         *)
Track ==
    /\ reader = "none" /\ state["right"] = "connected" /\ reader' = "reading"
    /\ UNCHANGED <<relay, expired, pc, before, status, endpoints, sent, flight, received, rtcp>>

Read ==
    /\ reader = "reading"
    /\ \/ \E i \in flight :
             /\ flight' = flight \ {i} /\ received' = Append(received, i)
             /\ reader' = IF Len(received) + 1 = Packets THEN "full" ELSE "reading"
       \/ /\ flight = {} \/ state["right"] = "closed"
          /\ reader' = "failed" /\ UNCHANGED <<flight, received>>
    /\ UNCHANGED <<relay, expired, pc, before, status, endpoints, sent, rtcp>>

Lose ==
    /\ flight # {} /\ \E i \in flight : flight' = flight \ {i}
    /\ UNCHANGED <<relay, expired, pc, before, status, endpoints, sent, reader, received, rtcp>>

(* Closing the left peer ends sender.ReadRTCP.                             *)
EndRtcp ==
    /\ rtcp /\ state["left"] = "closed" /\ rtcp' = FALSE
    /\ UNCHANGED <<relay, expired, pc, before, status, endpoints, media>>

Expire ==
    /\ ~expired /\ pc # "reported" /\ expired' = TRUE
    /\ UNCHANGED <<relay, pc, before, status, endpoints, media, rtcp>>

Goroutine == \/ Track \/ Read \/ EndRtcp
             \/ \E p \in Peer : Gather(p) \/ Forward(p) \/ Connect(p)

-----------------------------------------------------------------------------
(* The runner: exercisePeerCall.                                           *)

(* An error: the deferred functions cancel the forwarders and close both    *)
(* peers, and the report fails.                                            *)
Report(outcome) ==
    /\ pc' = "reported" /\ status' = outcome
    /\ state' = Each("closed") /\ forwarder' = Each("cancelled")
    /\ UNCHANGED <<relay, expired, before, heard, callbacks, connected,
                   trickle, known, media, rtcp>>

Continue(next) ==
    /\ pc' = next /\ UNCHANGED <<relay, expired, before, status, media, rtcp>>
Same == UNCHANGED endpoints

(* Any library call of the runner may fail; any wait ends with the deadline. *)
CallFails == pc \notin {"forwarders", "connect", "media", "wait-left", "wait-right", "observe",
                        "rtcp", "verdict", "reported"} /\ Report("fail")

(* Mutant: the wait for the connections has no deadline.                   *)
GiveUpButConnecting ==
    expired /\ pc \in {"send", "media", "wait-left", "wait-right", "observe", "rtcp"}
    /\ Report("fail")

GiveUp == expired /\ pc \in {"connect", "send", "media", "wait-left", "wait-right", "observe", "rtcp"}
          /\ Report("fail")

(* negotiate: both descriptions, then the forwarders, whose errors are     *)
(* looked for once, at once.                                               *)
Negotiate ==
    /\ pc = "negotiate" /\ Continue("forwarders")
    /\ \E l, r \in Found(FALSE) : callbacks' = [callbacks EXCEPT !["left"] = l, !["right"] = r]
    /\ forwarder' = Each("runs")
    /\ UNCHANGED <<heard, connected, state, trickle, known>>

LookForErrors ==
    /\ pc = "forwarders"
    /\ IF \E p \in Peer : forwarder[p] = "failed" THEN Report("fail") ELSE Continue("connect") /\ Same

WaitConnected ==
    /\ pc = "connect" /\ (\A p \in Peer : connected[p]) /\ Continue("send") /\ Same

(* One packet each twenty milliseconds.                                    *)
SendCanary ==
    /\ pc = "send" /\ sent' = sent + 1 /\ flight' = flight \cup {sent + 1}
    /\ pc' = IF sent + 1 = Packets THEN "media" ELSE "send"
    /\ UNCHANGED <<relay, expired, before, status, endpoints, reader, received, rtcp>>

(* The reader's result, then stopCandidates.                               *)
TakeMedia ==
    /\ pc = "media"
    /\ \/ reader = "failed" /\ Report("fail")
       \/ /\ reader = "full" /\ Continue("restart")
          /\ forwarder' = Each("cancelled")
          /\ UNCHANGED <<heard, callbacks, connected, state, trickle, known>>

(* restartICE: the counts are read before the offer starts a new gathering, *)
(* and callbacks of the first one may still come.                          *)
RestartIce ==
    /\ pc = "restart" /\ pc' = "wait-left"
    /\ before' = [p \in Peer |-> <<Gathered(p), Completed(p)>>]
    /\ \E l \in Found(TRUE) : callbacks' = [callbacks EXCEPT !["left"] = @ \o l]
    /\ UNCHANGED <<relay, expired, status, heard, connected, state, trickle,
                   forwarder, known, media, rtcp>>

WaitGathering(p) == Completed(p) > before[p][2]
Answer ==
    /\ pc = "wait-left" /\ WaitGathering("left") /\ Continue("wait-right")
    /\ \E r \in Found(TRUE) : callbacks' = [callbacks EXCEPT !["right"] = @ \o r]
    /\ UNCHANGED <<heard, connected, state, trickle, forwarder, known>>
ApplyAnswer == pc = "wait-right" /\ WaitGathering("right") /\ Continue("observe") /\ Same
Observe == pc = "observe" /\ (\A p \in Peer : Gathered(p) > before[p][1]) /\ Continue("close") /\ Same

(* gracefulCleanup.                                                        *)
GracefulClose ==
    /\ pc = "close" /\ Continue("rtcp") /\ state' = Each("closed")
    /\ UNCHANGED <<heard, callbacks, connected, trickle, forwarder, known>>
WaitRtcp == pc = "rtcp" /\ ~rtcp /\ Continue("verdict") /\ Same

(* Mutant: the digest is left out of the media check.                      *)
VerdictByCount ==
    /\ pc = "verdict"
    /\ Report(IF /\ \A p \in Peer : (IF relay THEN Relayed(p) ELSE Gathered(p)) > 0
                 /\ Len(received) = Packets
              THEN "pass" ELSE "fail")

Verdict ==
    /\ pc = "verdict"
    /\ Report(IF /\ \A p \in Peer : (IF relay THEN Relayed(p) ELSE Gathered(p)) > 0
                 /\ received = [i \in 1..Packets |-> i]
              THEN "pass" ELSE "fail")

Runner == \/ Negotiate \/ LookForErrors \/ WaitConnected \/ SendCanary \/ TakeMedia \/ RestartIce
          \/ Answer \/ ApplyAnswer \/ Observe \/ GracefulClose \/ WaitRtcp \/ Verdict
          \/ CallFails \/ GiveUp

Next == Runner \/ Goroutine \/ Lose \/ Expire

-----------------------------------------------------------------------------
(* Properties.                                                             *)
TypeOK ==
    /\ \A p \in Peer : Completed(p) \in 0..2 /\ trickle[p] <= Gathered(p)
    /\ status \in {"none", "pass", "fail"} /\ Len(received) <= Packets
    /\ \A i \in DOMAIN received : received[i] \in 1..sent

(* A passing call delivered the canary whole and in order, through a relay  *)
(* if one is required, and left no peer open and no RTCP reader behind,    *)
(* whichever goroutine or callback was late.                               *)
PassMeansWholeCall ==
    status = "pass" =>
       /\ received = [i \in 1..Packets |-> i]
       /\ \A p \in Peer : state[p] = "closed" /\ connected[p] /\ (relay => Relayed(p) > 0)
       /\ ~rtcp

(* "new candidates gathered by both peers" (the ice-restart check): a pass  *)
(* shows a candidate of the restart for each peer whose first gathering had *)
(* completed when the counts were read.  The code does not wait for that:  *)
(* RestartFoundCandidates without the premise does not hold.               *)
FoundByRestart(p) == \E i \in DOMAIN heard[p] : heard[p][i].restart /\ heard[p][i].kind # "end"
RestartFoundCandidates ==
    status = "pass" => \A p \in Peer : before[p][2] > 0 => FoundByRestart(p)
RestartIsFresh == status = "pass" => \A p \in Peer : FoundByRestart(p)

(* The deadline ends every wait but those for a library call.              *)
CallEnds == <>(pc = "reported")
=============================================================================
