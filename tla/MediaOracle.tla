------------------------------ MODULE MediaOracle ------------------------------
(***************************************************************************)
(* sippycup_oracle/media.py: RTP frames against the SDP of a dialog leg.   *)
(* A description is [host, port, way, pts]; an RTP frame is                *)
(* [kind, src, dst, seq, ssrc, pt, open] with src, dst = <<host, port>> and *)
(* open = FALSE for SRTP.  Frames come in the order of time.  Jitter,      *)
(* timestamps, codec names, DTMF and the setup window are left out.        *)
(***************************************************************************)
EXTENDS DialogOracle

CONSTANTS Modulus,           \* 2^16: RTP sequence numbers
          CallerHost, CalleeHost \* the signaling addresses
ASSUME ModulusAssumption == Modulus \in Nat /\ Modulus % 2 = 0 /\ Modulus > 2

Directions == {"to-callee", "to-caller"}

(* _direction.                                                             *)
Direction(f) ==
    CASE f.src[1] = CallerHost \/ f.dst[1] = CalleeHost -> "to-callee"
      [] f.src[1] = CalleeHost \/ f.dst[1] = CallerHost -> "to-caller"
      [] OTHER -> "unknown"

(* _active_pair: the last answered offer at the time of frame "at".        *)
Acceptable(status) == status = 0 \/ status \in 100..299
(* Mutant: what was negotiated first stays.                                *)
FirstPairStays(pair, r) ==
    CASE r.role = "offer" -> [pair EXCEPT !.pending = IF Acceptable(r.status) THEN r.at ELSE 0]
      [] r.role = "answer" /\ Acceptable(r.status) /\ pair.pending # 0 /\ pair.offer = 0 ->
           [pair EXCEPT !.offer = pair.pending, !.answer = r.at]
      [] OTHER -> pair

PairStep(pair, r) ==
    CASE r.role = "offer" -> [pair EXCEPT !.pending = IF Acceptable(r.status) THEN r.at ELSE 0]
      [] r.role = "answer" /\ Acceptable(r.status) /\ pair.pending # 0 ->
           [pair EXCEPT !.offer = pair.pending, !.answer = r.at]
      [] r.role = "answer" /\ r.status >= 300 -> [pair EXCEPT !.pending = 0]
      [] OTHER -> pair
ActivePair(leg, at) ==
    FoldLeft(LAMBDA pair, r : IF r.at > at THEN pair ELSE PairStep(pair, r),
             [pending |-> 0, offer |-> 0, answer |-> 0], leg.sdps)

(* _expected_receiver, _expected_sender: 0 when nothing is negotiated. The  *)
(* offer is taken for the caller's and the answer for the callee's.        *)
Receiver(leg, i, dir) == IF dir = "to-callee" THEN ActivePair(leg, i).answer ELSE ActivePair(leg, i).offer
Sender(leg, i, dir) == IF dir = "to-callee" THEN ActivePair(leg, i).offer ELSE ActivePair(leg, i).answer
Address(fs, n) == IF n = 0 THEN <<>> ELSE <<fs[n].sdp.host, fs[n].sdp.port>>

-----------------------------------------------------------------------------
(* partition_media_frames: a frame is of the leg it fits best, and of none  *)
(* when two fit as well.                                                    *)
Rtp(fs) == {i \in DOMAIN fs : fs[i].kind = "rtp"}
Score(fs, leg, i) ==
    LET dir == Direction(fs[i]) IN
    IF dir = "unknown" THEN 0
    ELSE 1 + (IF Address(fs, Receiver(leg, i, dir)) = fs[i].dst THEN 8 ELSE 0)
           + (IF Address(fs, Sender(leg, i, dir)) = fs[i].src THEN 4 ELSE 0)
BestLegs(fs, legs, i) ==
    {l \in legs : Score(fs, l, i) > 0 /\ \A k \in legs : Score(fs, k, i) <= Score(fs, l, i)}
Assigned(fs, legs, leg) ==
    {i \in Rtp(fs) : Cardinality(legs) = 1 \/ BestLegs(fs, legs, i) = {leg}}
Ambiguous(fs, legs, leg) ==
    {i \in Rtp(fs) : Cardinality(legs) > 1 /\ leg \in BestLegs(fs, legs, i)
                     /\ BestLegs(fs, legs, i) # {leg}}

-----------------------------------------------------------------------------
(* _sequence_metrics.                                                      *)

Extend(seqs) ==
    FoldLeft(LAMBDA e, s :
        LET cycles == IF e.previous - s > Modulus \div 2 THEN e.cycles + Modulus ELSE e.cycles
        IN [cycles |-> cycles, previous |-> s, out |-> Append(e.out, cycles + s)],
      [cycles |-> 0, previous |-> seqs[1], out |-> <<>>], seqs).out

Metrics(seqs) ==
    LET ext == Extend(seqs)
        seen == {ext[i] : i \in DOMAIN ext}
        first(i) == \A j \in 1..i - 1 : ext[j] # ext[i]
        highest == CHOOSE n \in seen : \A m \in seen : m <= n
        lowest == CHOOSE n \in seen : \A m \in seen : n <= m
        expected == highest - lowest + 1
    IN [unique |-> Cardinality(seen), expected |-> expected,
        lost |-> expected - Cardinality(seen),
        duplicates |-> Len(seqs) - Cardinality(seen),
        reordered |-> Cardinality({i \in DOMAIN ext : first(i) /\ \E j \in 1..i - 1 : ext[j] > ext[i]})]

-----------------------------------------------------------------------------
(* correlate_streams.                                                      *)
KeyOf(f) == <<f.src, f.dst, f.ssrc>>
InOrder(S) == SetToSortSeq(S, LAMBDA i, j : i < j)
Streams(fs, mine) == {{i \in mine : KeyOf(fs[i]) = k} : k \in {KeyOf(fs[i]) : i \in mine}}
First(stream) == CHOOSE i \in stream : \A j \in stream : i <= j
PacketNumbers(fs, stream) == LET order == InOrder(stream) IN [n \in DOMAIN order |-> fs[order[n]].seq]

(* _correlation, of one packet and of its stream; a symmetric stream needs  *)
(* one the other way.                                                       *)
Correlation(fs, leg, dir, i) ==
    LET n == Receiver(leg, i, dir) IN
    CASE n = 0 -> "unknown"
      [] Address(fs, n) = fs[i].dst -> "exact"
      [] fs[i].dst[1] \in {CallerHost, CalleeHost} -> "symmetric"
      [] OTHER -> "unmatched"
StreamCorrelation(fs, leg, streams, s) ==
    LET kinds == {Correlation(fs, leg, Direction(fs[First(s)]), i) : i \in s}
        answered == \E t \in streams : /\ fs[First(t)].src = fs[First(s)].dst
                                       /\ fs[First(t)].dst = fs[First(s)].src
    IN CASE "unmatched" \in kinds -> "unmatched"
         [] "symmetric" \in kinds -> IF answered THEN "symmetric" ELSE "unmatched"
         [] kinds = {"exact"} -> "exact"
         [] OTHER -> "unknown"

-----------------------------------------------------------------------------
(* evaluate_invariants.                                                    *)
Verdict(fails, unknown) == IF fails THEN "fail" ELSE IF unknown THEN "unknown" ELSE "pass"

(* _direction_permission, _direction_allowed.                              *)
MaySend(fs, n) == n # 0 /\ fs[n].sdp.port # 0 /\ fs[n].sdp.way \in {"sendrecv", "sendonly"}
MayReceive(fs, n) == n # 0 /\ fs[n].sdp.port # 0 /\ fs[n].sdp.way \in {"sendrecv", "recvonly"}
DirectionAllowed(fs, leg, dir, i) ==
    LET from == Sender(leg, i, dir)
        to == Receiver(leg, i, dir)
    IN CASE dir = "unknown" -> "unknown"
         [] (from # 0 /\ ~MaySend(fs, from)) \/ (to # 0 /\ ~MayReceive(fs, to)) -> "no"
         [] from = 0 \/ to = 0 -> "unknown"
         [] OTHER -> "yes"

SdpDirection(fs, leg, mine) ==
    LET found == {DirectionAllowed(fs, leg, Direction(fs[i]), i) : i \in mine}
    IN Verdict("no" \in found, "unknown" \in found \/ mine = {})

(* media.endpoints, without an allow list.                                 *)
AllowedHosts(fs, leg) ==
    {CallerHost, CalleeHost} \cup
    {fs[n].sdp.host : n \in UNION {{p.offer, p.answer} : p \in {ActivePair(leg, i) : i \in DOMAIN fs}} \ {0}}
Endpoints(fs, leg, streams) ==
    LET kinds == {StreamCorrelation(fs, leg, streams, s) : s \in streams}
        foreign == \E i \in UNION streams : ~({fs[i].src[1], fs[i].dst[1]} \subseteq AllowedHosts(fs, leg))
    IN Verdict(foreign \/ "unmatched" \in kinds, streams = {} \/ "unknown" \in kinds)

(* media.payloads.                                                         *)
PayloadFails(fs, leg, i) ==
    LET n == Receiver(leg, i, Direction(fs[i])) IN fs[i].open /\ n # 0 /\ fs[i].pt \notin fs[n].sdp.pts
PayloadUnknown(fs, leg, i) == ~fs[i].open \/ Receiver(leg, i, Direction(fs[i])) = 0
Payloads(fs, leg, mine) ==
    Verdict(\E i \in mine : PayloadFails(fs, leg, i),
            mine = {} \/ \E i \in mine : PayloadUnknown(fs, leg, i))

(* media.timing.                                                           *)
Timing(leg, mine) ==
    LET answers == {r.at : r \in {x \in {leg.sdps[n] : n \in DOMAIN leg.sdps} : x.role = "answer"}}
        early == \E i \in mine : answers # {} /\ \A a \in answers : i < a
        late == \E i \in mine : \E b \in leg.byes : b < i
    IN Verdict(early \/ late, answers = {} \/ leg.invites = {})

(* media.sequence, with the default limits: nothing lost, twice or late.   *)
Sequence(fs, streams) ==
    LET hidden(s) == \E i \in s : ~fs[i].open
        bad(s) == LET m == Metrics(PacketNumbers(fs, s)) IN m.lost + m.duplicates + m.reordered > 0
    IN Verdict(\E s \in streams : ~hidden(s) /\ bad(s), streams = {} \/ \E s \in streams : hidden(s))

(* media.transitions: in a direction, another SSRC needs another revision. *)
Transitions(fs, leg, mine) ==
    LET dir(i) == Direction(fs[i])
        before(i) == {j \in mine : j < i /\ dir(j) = dir(i)}
        previous(i) == CHOOSE j \in before(i) : \A k \in before(i) : k <= j
        revision(i) == LET pair == ActivePair(leg, i)
                       IN IF dir(i) = "to-callee" THEN pair.answer ELSE pair.offer
        jumps == \E i \in mine :
                    /\ before(i) # {} /\ fs[previous(i)].ssrc # fs[i].ssrc
                    /\ revision(previous(i)) = revision(i)
    IN Verdict(jumps \/ \E i \in mine : PayloadFails(fs, leg, i),
               mine = {} \/ \E i \in mine : PayloadUnknown(fs, leg, i))

Directionality(fs, mine, ambiguous) ==
    LET missing == ~(Directions \subseteq {Direction(fs[i]) : i \in mine})
    IN Verdict(missing /\ ambiguous = {}, missing)

Evaluate(fs, legs, leg) ==
    LET mine == Assigned(fs, legs, leg)
        streams == Streams(fs, mine)
        ambiguous == Ambiguous(fs, legs, leg)
    IN [assignment |-> Verdict(FALSE, ambiguous # {}),
        directionality |-> Directionality(fs, mine, ambiguous),
        sdpDirection |-> SdpDirection(fs, leg, mine),
        endpoints |-> Endpoints(fs, leg, streams),
        payloads |-> Payloads(fs, leg, mine),
        timing |-> Timing(leg, mine),
        sequence |-> Sequence(fs, streams),
        transitions |-> Transitions(fs, leg, mine)]
=============================================================================
