------------------------------ MODULE ObservedCall ------------------------------
(***************************************************************************)
(* A call and what a capture shows of it.  The user agents are external: a *)
(* script is a call they may make, its messages in the order they pass the *)
(* capture point.  Frames may be lost by the capture, truncated, sent      *)
(* twice or overtake each other; the oracles read what was captured.  The  *)
(* ghost n of an RTP frame is its number before it is cut to 16 bits.      *)
(***************************************************************************)
EXTENDS MediaOracle

CONSTANTS Scripts,   \* [frames, media: "good", "bad" or "unjudged", offers: who]
          MaxFaults  \* bound: losses, truncations, repetitions and overtakings together

VARIABLES script,  \* the call
          next,    \* how much of it has passed
          sent,    \* the frames that passed, numbered
          capture, \* the frames captured
          faults   \* which kinds of faults there were

vars == <<script, next, sent, capture, faults>>

Init ==
    /\ script \in Scripts /\ next = 1
    /\ sent = <<>> /\ capture = <<>> /\ faults = <<>>

More == next <= Len(script.frames)
Fault(kind) == Len(faults) < MaxFaults /\ faults' = Append(faults, kind)
Passes(k) == sent' = sent \o SubSeq(script.frames, next, next + k - 1) /\ next' = next + k

Tap ==
    /\ More /\ Passes(1)
    /\ capture' = Append(capture, script.frames[next]) /\ UNCHANGED <<script, faults>>

Lose ==
    /\ More /\ Passes(1) /\ Fault("lost") /\ UNCHANGED <<script, capture>>

Truncate ==
    /\ More /\ IsSip(script.frames[next]) /\ Passes(1) /\ Fault("truncated")
    /\ capture' = Append(capture, [script.frames[next] EXCEPT !.whole = FALSE])
    /\ UNCHANGED script

Repeat ==
    /\ Fault("repeated")
    /\ \E i \in DOMAIN sent : capture' = Append(capture, sent[i])
    /\ UNCHANGED <<script, next, sent>>

Overtake ==
    /\ next < Len(script.frames) /\ Passes(2) /\ Fault("overtaken")
    /\ script.frames[next].kind = script.frames[next + 1].kind
    /\ capture' = capture \o <<script.frames[next + 1], script.frames[next]>>
    /\ UNCHANGED script

Next == Tap \/ Lose \/ Truncate \/ Repeat \/ Overtake
Spec == Init /\ [][Next]_vars
-----------------------------------------------------------------------------
(* Properties.                                                             *)
legs == Dialogs(capture)
Sent == {sent[i] : i \in DOMAIN sent}
SipSent == {f \in Sent : IsSip(f)}
Over == next > Len(script.frames)

(* What it is for a leg to be concluded, whatever was captured: the callee  *)
(* answered an INVITE that was acknowledged to it and a BYE between the two *)
(* succeeded, or it refused one, or answered a CANCEL, and that was         *)
(* acknowledged.                                                            *)
Acknowledged(f) ==
    \E a \in SipSent : /\ a.method = "ACK" /\ a.cseq = f.cseq
                       /\ {a.from, a.to} = {f.from, f.to}
Concluded(tag) ==
    \E f \in SipSent :
       /\ f.method = "INVITE" /\ f.status >= 200 /\ f.to = tag /\ Acknowledged(f)
       /\ f.status < 300 =>
             \E b \in SipSent : b.method = "BYE" /\ b.status = 200 /\ {b.from, b.to} = {f.from, f.to}

(* "A dialog is complete only for a conclusive sequence [...]": no loss,    *)
(* repetition, reordering or forking makes a leg complete that is not over, *)
(* and a truncated message of the call prevents it.                         *)
CompleteIsConcluded ==
    \A leg \in legs : leg.complete =>
       Concluded(leg.callee) /\ \A i \in DOMAIN capture : IsSip(capture[i]) => capture[i].whole

(* Every SIP message is evidence once: as a request, response or            *)
(* retransmission of one transaction, or as an orphan; and repeating        *)
(* messages whose transaction was captured changes no leg.                  *)
Distinct ==
    SelectSeq([i \in DOMAIN capture |-> IF \E j \in 1..i - 1 : capture[j] = capture[i]
                                          THEN NoSdp ELSE capture[i]], LAMBDA f : f # NoSdp)
MessagesCountOnce ==
    LET t == Transactions(capture)
        homes(i) == {b \in DOMAIN t.builders : i \in Kept(t.builders[b]) \cup t.builders[b].again}
        verdicts(ls) == {<<leg.callee, leg.complete, leg.state>> : leg \in ls}
    IN /\ \A i \in DOMAIN capture : IsSip(capture[i]) =>
             Cardinality(homes(i)) <= 1 /\ (homes(i) = {} => i \in t.orphans)
       /\ t.orphans = {} => verdicts(Dialogs(Distinct)) = verdicts(legs)

(* The sequence metrics are those of the packets, as long as none that was  *)
(* sent before the numbers wrapped is captured after one sent later.        *)
Numbers(s) == {capture[i].n : i \in s}
WrapKept(s) == \A i, j \in s : i < j => capture[j].n \div Modulus >= capture[i].n \div Modulus
MetricsAreThePackets ==
    \A leg \in legs : \A s \in Streams(capture, Assigned(capture, legs, leg)) :
       WrapKept(s) =>
          LET m == Metrics(PacketNumbers(capture, s))
              span == CHOOSE d \in 0..2 * Modulus :
                         \E a, b \in Numbers(s) : d = b - a /\ \A c \in Numbers(s) : c \in a..b
          IN /\ m.unique = Cardinality(Numbers(s))
             /\ m.duplicates = Cardinality(s) - Cardinality(Numbers(s))
             /\ m.lost = span + 1 - Cardinality(Numbers(s))

(* A call that conforms, captured whole, fails no assertion, and one that   *)
(* does not fails one, when the caller makes every offer.                   *)
FailedIn(leg) == LET e == Evaluate(capture, legs, leg) IN {a \in DOMAIN e : e[a] = "fail"}
JustVerdicts(calls) ==
    Over /\ faults = <<>> /\ script \in calls /\ script.media # "unjudged" =>
       (script.media = "good" <=> \A leg \in legs : FailedIn(leg) = {})
VerdictsAreJust == JustVerdicts({s \in Scripts : s.offers = "caller"})

(* What the dialog and the media oracle make of a damaged capture.          *)
CallsAreReconstructed == CompleteIsConcluded /\ MessagesCountOnce
VerdictsAreThePackets == MetricsAreThePackets /\ VerdictsAreJust

(* "SDP revisions follow offer/answer state rather than request/response    *)
(* position", and media is mapped "to the active offer/answer revision".    *)
VerdictsFollowOffers == JustVerdicts(Scripts)

(* "orphaned signaling also prevents known completion".                     *)
OrphansPreventCompletion ==
    \A leg \in legs : leg.complete => Transactions(capture).orphans = {}
=============================================================================
