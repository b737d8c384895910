------------------------------ MODULE MediaSender ------------------------------
(* The canary media sender and its echo fixture: sippycup_media/rtp.py turns *)
(* a session of SDP revisions into a packet plan, checks its telephone       *)
(* events, and sends it one packet after another, each of which must come    *)
(* back unchanged; sippycup_media/echo.py returns what it receives.  UDP     *)
(* loses, delays, duplicates and reorders.  A time unit is one packetization *)
(* interval of 20 ms, in timestamps and durations too.                       *)
EXTENDS Integers, FiniteSets, Sequences, SequencesExt

CONSTANTS Sessions,             \* the session documents an operator may write
          Audio,                \* packets of the canary asset
          Progress, Ends, Gap,  \* DTMF_DURATION_MS, DTMF_END_PACKETS, DTMF_GAP_MS
          Dynamic,              \* dynamic payload types
          FixtureDeadline,      \* --deadline-ms of the fixture
          MaxRepeats, MaxTime   \* bounds on the network and the clock

VARIABLES session, plan,    \* the document, and the PacketPlan made of it
          sending,          \* "bind", "send", "echo", "passed", "failed", "refused"
          next, clock, sentAt, bound, transitions, echoed,
          wire, back,       \* datagrams towards the fixture, and on their way back
          heard, fixture,   \* run_echo: its packets, and "listening" or its status
          repeats           \* datagrams delivered once more so far
media == <<session, plan, sending, next, clock, sentAt, bound, transitions, echoed,
           wire, back, heard, fixture, repeats>>

-----------------------------------------------------------------------------
(* The session.  An SDP has payload ids, the payload -> encoding pairs of    *)
(* its rtpmap lines, an endpoint, its family and its other audio attributes. *)
Static == {<<0, "PCMU">>, <<8, "PCMA">>}
SdpRefused(sdp) ==
    \/ sdp.keying \/ sdp.sections # 1 \/ sdp.profile # "RTP/AVP" \/ sdp.ptime # <<1>>
    \/ ~IsInjective(sdp.ids)
    \/ \E m \in sdp.maps : \/ m[1] \notin ToSet(sdp.ids)
                           \/ \E other \in sdp.maps \cup Static : other[1] = m[1] /\ other # m
PayloadsFor(sdp, encoding) ==
    {p \in ToSet(sdp.ids) : <<p, encoding>> \in sdp.maps \cup Static}
Agreed(r, encoding) ==
    /\ Cardinality(PayloadsFor(r.local, encoding)) = 1
    /\ PayloadsFor(r.local, encoding) = PayloadsFor(r.remote, encoding)
RevisionRefused(r, s) ==
    \/ SdpRefused(r.local) \/ SdpRefused(r.remote)
    \/ r.local.family # r.remote.family
    \/ ~Agreed(r, s.codec)
    \/ \E sdp \in {r.local, r.remote} : Cardinality(PayloadsFor(sdp, "telephone-event")) > 1
    \/ s.digits # <<>> /\ ~( /\ Agreed(r, "telephone-event")
                             /\ PayloadsFor(r.local, "telephone-event") \subseteq Dynamic)
SessionRefused(s) ==
    \/ s.revisions = <<>>
    \/ \E i \in DOMAIN s.revisions : RevisionRefused(s.revisions[i], s)
    \/ s.revisions[1].at # 0
    \/ \E i \in DOMAIN s.revisions : i > 1 /\ s.revisions[i].at <= s.revisions[i - 1].at
    \/ ~s.assetIntact

-----------------------------------------------------------------------------
(* The plan: the asset, then every digit with its redundant endings.         *)
RevisionAt(s, at) ==
    CHOOSE i \in DOMAIN s.revisions :
        /\ s.revisions[i].at <= at
        /\ \A j \in DOMAIN s.revisions : j > i => s.revisions[j].at > at
Packet(s, at, sequence, timestamp, kind, body) ==
    LET r == s.revisions[RevisionAt(s, at)]
    IN [at |-> at, revision |-> RevisionAt(s, at), kind |-> kind, sequence |-> sequence,
        timestamp |-> timestamp, body |-> body, marker |-> body.index = 1,
        payload |-> CHOOSE p \in PayloadsFor(r.local, IF kind = "audio" THEN s.codec
                                                      ELSE "telephone-event") : TRUE,
        source |-> r.local.endpoint, destination |-> r.remote.endpoint]
PerDigit == Progress + Ends - 1
Advance == Progress + Ends - 1 + Gap
AudioPackets(s) ==
    [i \in 1..Audio |-> Packet(s, i - 1, i, i - 1, "audio", [index |-> i])]
EventBodyOneEnd(digit, i) == \* mutant: the redundant endings go on counting
    [index |-> i, digit |-> digit, end |-> i >= Progress, duration |-> i]
EventBody(digit, i) ==
    [index |-> i, digit |-> digit, end |-> i >= Progress,
     duration |-> IF i >= Progress THEN Progress ELSE i]
EventPacket(s, d, i) ==
    Packet(s, Audio + (d - 1) * Advance + i - 1, Audio + (d - 1) * PerDigit + i,
           Audio + (d - 1) * Advance, "telephone-event", EventBody(s.digits[d], i))
Plan(s) == AudioPackets(s)
           \o FlattenSeq([d \in DOMAIN s.digits |-> [i \in 1..PerDigit |-> EventPacket(s, d, i)]])
Bytes(p) == [sequence |-> p.sequence, timestamp |-> p.timestamp, payload |-> p.payload,
             marker |-> p.marker, body |-> p.body]

(* validate_telephone_events: the groups are the runs of one timestamp.      *)
Events(packets) == SelectSeq(packets, LAMBDA p : p.kind = "telephone-event")
Group(events, d) == SubSeq(events, (d - 1) * PerDigit + 1, d * PerDigit)
ValidGroup(group, digit) ==
    /\ \A i \in DOMAIN group : /\ group[i].timestamp = group[1].timestamp
                               /\ group[i].marker = (i = 1)
                               /\ group[i].body.digit = digit
                               /\ group[i].body.duration = (IF i < Progress THEN i ELSE Progress)
                               /\ group[i].body.end = (i >= Progress)
ValidEvents(packets, digits) ==
    LET events == Events(packets)
    IN /\ Len(events) = Len(digits) * PerDigit
       /\ \A i \in 2..Len(events) : events[i].sequence = events[i - 1].sequence + 1
       /\ \A d \in DOMAIN digits : ValidGroup(Group(events, d), digits[d])
       /\ \A d \in DOMAIN digits : \A e \in 1..d - 1 :
             Group(events, d)[1].timestamp # Group(events, e)[1].timestamp

-----------------------------------------------------------------------------
Deadline == plan[Len(plan)].at + session.timeout + 1
revision == session.revisions[plan[next].revision]
Over == {"passed", "failed", "refused"}

Init ==
    /\ session \in Sessions
    /\ sending = (IF SessionRefused(session) THEN "refused" ELSE "bind")
    /\ plan = (IF SessionRefused(session) THEN <<>> ELSE Plan(session))
    /\ next = 1 /\ clock = 0 /\ sentAt = 0 /\ bound = {} /\ transitions = <<>>
    /\ echoed = [audio |-> 0, events |-> 0]
    /\ wire = {} /\ back = {} /\ heard = <<>> /\ fixture = "listening" /\ repeats = 0

(* One socket per source endpoint; when one cannot be bound, none stays.     *)
Unbound == {r \in ToSet(session.revisions) : r.local.endpoint \notin bound}
Bind ==
    /\ sending = "bind"
    /\ \/ Unbound = {} /\ sending' = "send" /\ UNCHANGED bound
       \/ \E r \in Unbound : /\ bound' = bound \cup {r.local.endpoint}
                             /\ UNCHANGED sending
       \/ Unbound # {} /\ bound' = {} /\ sending' = "failed"
    /\ UNCHANGED <<session, plan, next, clock, sentAt, transitions, echoed, wire, back, heard, fixture, repeats>>

Fail == sending' = "failed" /\ bound' = {}
Advanced ==
    /\ next' = next + 1
    /\ IF next = Len(plan) THEN sending' = "passed" /\ bound' = {}
       ELSE sending' = "send" /\ UNCHANGED bound

(* One packet, at its time or later.  sendto itself may fail.                *)
Transition ==
    LET p == plan[next]
    IN IF next = 1 \/ plan[next].revision # plan[next - 1].revision
       THEN Append(transitions, [revision |-> p.revision,
                                 delay |-> p.at - session.revisions[p.revision].at])
       ELSE transitions
Send ==
    /\ sending = "send" /\ clock >= plan[next].at
    /\ \/ /\ clock > Deadline /\ Fail
          /\ UNCHANGED <<next, sentAt, transitions, wire>>
       \/ /\ clock <= Deadline /\ Fail
          /\ transitions' = Transition
          /\ UNCHANGED <<next, sentAt, wire>>
       \/ /\ clock <= Deadline
          /\ transitions' = Transition
          /\ sentAt' = clock
          /\ wire' = wire \cup {[bytes |-> Bytes(plan[next]), source |-> plan[next].source,
                                 destination |-> plan[next].destination]}
          /\ IF ~session.required THEN Advanced
             ELSE IF clock = Deadline THEN Fail /\ UNCHANGED next
             ELSE sending' = "echo" /\ UNCHANGED <<next, bound>>
    /\ UNCHANGED <<session, plan, clock, echoed, back, heard, fixture, repeats>>

(* recvfrom with the rest of the time: what comes first must be the echo.    *)
EchoLimit == IF session.timeout < Deadline - sentAt THEN sentAt + session.timeout ELSE Deadline
ExpectedSource(d) == d.source = plan[next].destination \* mutant: any echo of the peer
Expected(d) == d.source = plan[next].destination /\ d.bytes = Bytes(plan[next])
Receive ==
    /\ sending = "echo" /\ clock <= EchoLimit
    /\ \E d \in back :
          /\ d.destination = plan[next].source
          /\ back' = back \ {d}
          /\ IF Expected(d)
             THEN /\ Advanced
                  /\ echoed' = IF plan[next].kind = "audio"
                               THEN [echoed EXCEPT !.audio = @ + 1]
                               ELSE [echoed EXCEPT !.events = @ + 1]
             ELSE Fail /\ UNCHANGED <<next, echoed>>
    /\ UNCHANGED <<session, plan, clock, sentAt, transitions, wire, heard, fixture, repeats>>
TimeOut ==
    /\ sending = "echo" /\ clock >= EchoLimit
    /\ Fail
    /\ UNCHANGED <<session, plan, next, clock, sentAt, transitions, echoed, wire, back, heard, fixture, repeats>>

-----------------------------------------------------------------------------
(* The fixture returns max_packets datagrams, repeated ones included; what   *)
(* is lost is never returned, or stays on its way back.                      *)
Echo ==
    /\ fixture = "listening" /\ clock < FixtureDeadline
    /\ \E d \in wire : \E again \in BOOLEAN :
          /\ again => repeats < MaxRepeats
          /\ repeats' = repeats + (IF again THEN 1 ELSE 0)
          /\ wire' = IF again THEN wire ELSE wire \ {d}
          /\ heard' = Append(heard, d.bytes)
          /\ back' = back \cup {[bytes |-> d.bytes, source |-> d.destination,
                                 destination |-> d.source]}
    /\ fixture' = IF Len(heard') = Len(plan) THEN "passed" ELSE "listening"
    /\ UNCHANGED <<session, plan, sending, next, clock, sentAt, bound, transitions, echoed>>
FixtureExpires ==
    /\ fixture = "listening" /\ clock >= FixtureDeadline
    /\ fixture' = "incomplete"
    /\ UNCHANGED <<session, plan, sending, next, clock, sentAt, bound, transitions, echoed, wire, back, heard, repeats>>
Tick ==
    /\ sending \in {"send", "echo"} /\ clock < MaxTime
    /\ clock' = clock + 1
    /\ UNCHANGED <<session, plan, sending, next, sentAt, bound, transitions, echoed, wire, back, heard, fixture, repeats>>

Sender == Bind \/ Send \/ Receive \/ TimeOut
Next == Sender \/ Echo \/ FixtureExpires \/ Tick
Spec == Init /\ [][Next]_media

-----------------------------------------------------------------------------
(* The states of sender and fixture.                                         *)
TypeOK ==
    /\ sending \in {"bind", "send", "echo"} \cup Over
    /\ clock \in 0..MaxTime /\ repeats \in 0..MaxRepeats
    /\ next \in 1..Len(plan) + 1 /\ Len(heard) <= Len(plan)

(* What load_session accepts compiles to a plan that the RFC 4733 check      *)
(* accepts, whose packets each fit the revision active at their time; and    *)
(* the check refuses the plan when any one event packet is lost, repeated or *)
(* exchanged with its neighbour.                                             *)
Damaged(s) ==
    {RemoveAt(s, i) : i \in DOMAIN s} \cup {InsertAt(s, i, s[i]) : i \in DOMAIN s}
    \cup {ReplaceAt(ReplaceAt(s, i, s[i + 1]), i + 1, s[i]) : i \in 1..Len(s) - 1}
    \cup {ReplaceAt(s, i + 1, s[i]) : i \in 1..Len(s) - 1}
PlanIsExact ==
    sending = "bind" /\ bound = {} =>
        /\ ValidEvents(plan, session.digits)
        /\ \A broken \in Damaged(Events(plan)) : ~ValidEvents(broken, session.digits)
        /\ \A i \in DOMAIN plan :
              LET r == session.revisions[plan[i].revision]
              IN /\ i > 1 => plan[i].at > plan[i - 1].at /\ plan[i].timestamp >= plan[i - 1].timestamp
                 /\ r.at <= plan[i].at
                 /\ \A other \in ToSet(session.revisions) : other.at <= plan[i].at => other.at <= r.at
                 /\ {plan[i].payload} = PayloadsFor(r.remote, IF plan[i].kind = "audio" THEN session.codec
                                                              ELSE "telephone-event")

(* A passed send kept its deadline; with a required echo the fixture heard   *)
(* every planned packet, first in the planned order, and came to its own     *)
(* end; and the reported transitions are the revisions in their order, each  *)
(* without delay while the audio lasts.  No socket outlives the send.        *)
FirstHeard == SelectSeq([i \in DOMAIN heard |-> [i |-> i, b |-> heard[i]]],
                        LAMBDA e : \A j \in 1..e.i - 1 : heard[j] # e.b)
PassedWasEchoed ==
    /\ sending \in Over => bound = {}
    /\ sending = "passed" =>
          /\ clock <= Deadline
          /\ session.required =>
                /\ [i \in DOMAIN FirstHeard |-> FirstHeard[i].b] = [i \in DOMAIN plan |-> Bytes(plan[i])]
                /\ echoed.audio = Audio /\ echoed.events = Len(Events(plan))
                /\ fixture = "passed"
          /\ \A i \in DOMAIN transitions :
                /\ i > 1 => transitions[i].revision > transitions[i - 1].revision
                /\ session.revisions[transitions[i].revision].at < Audio => transitions[i].delay = 0

=============================================================================
