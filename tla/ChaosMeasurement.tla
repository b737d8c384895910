--------------------------- MODULE ChaosMeasurement ---------------------------
(* What a chaos run measures on an impaired link: RTP packets are captured   *)
(* before the link, delayed, lost, repeated, reordered and damaged by it,    *)
(* and captured behind it; measure_observations pairs the two captures       *)
(* packet by packet and judges every metric against what was requested.  One *)
(* direction; times are milliseconds, shares are compared by                 *)
(* multiplication.  From lib/sippycup_chaos/lifecycle.py.                    *)
EXTENDS Integers, Sequences, SequencesExt, FiniteSets, FiniteSetsExt, TLC

CONSTANTS Streams,          \* sequences of RTP identities: source, sequence, timestamp, type, digest
          Foreign,          \* a frame that is not RTP
          Corrupted,          \* the identity of a packet with a flipped bit, which no packet sent has
          Impairments,      \* the requested impairments
          Skews,            \* how late the clock behind the link runs
          MinDelaySamples, MinRateSamples,
          MaxArrivals, MaxDamage, Period, MaxTime     \* bounds of the instance

VARIABLES stream,           \* the frames that will be sent
          impairment, skew,
          now,              \* the clock before the link
          before,           \* the first capture
          after,            \* the second capture; "of" is the position in before
          report            \* what measure_observations says

link == <<stream, impairment, skew, now, before, after>>

-----------------------------------------------------------------------------
(* Pairing: _pcap_packets keeps the RTP packets, in capture order.           *)
Rtp(capture) == SelectSeq(capture, LAMBDA packet : packet.key # Foreign)

(* The positions of sent that wait in the queue of a key.                    *)
Waiting(sent, taken, key) == {i \in 1..Len(sent) \ taken : sent[i].key = key}

(* A bug: packets are looked up by key and stay in their queue.              *)
MatchKept(sent, pairs, packet) ==
    LET waiting == Waiting(sent, {}, packet.key)
    IN  IF waiting = {} THEN [pairs EXCEPT !.duplicates = @ + 1]
        ELSE [pairs EXCEPT !.indexes = Append(@, Min(waiting)),
                           !.delays = Append(@, packet.time - sent[Min(waiting)].time)]

(* One received packet takes the oldest sent packet of its key; with none    *)
(* left it is a duplicate.                                                   *)
Match(sent, pairs, packet) ==
    LET waiting == Waiting(sent, {pairs.indexes[i] : i \in DOMAIN pairs.indexes}, packet.key)
    IN  IF waiting = {} THEN [pairs EXCEPT !.duplicates = @ + 1]
        ELSE [pairs EXCEPT !.indexes = Append(@, Min(waiting)),
                           !.delays = Append(@, packet.time - sent[Min(waiting)].time)]

Pairs(sent, received) ==
    FoldLeft(LAMBDA pairs, packet : Match(sent, pairs, packet),
             [indexes |-> <<>>, delays |-> <<>>, duplicates |-> 0], received)

(* Matched packets below the high-water mark of those matched earlier.       *)
Reordered(indexes) ==
    FoldLeft(LAMBDA seen, i : IF i < seen.highWater THEN [seen EXCEPT !.count = @ + 1]
                              ELSE [seen EXCEPT !.highWater = i],
             [count |-> 0, highWater |-> 0], indexes).count

-----------------------------------------------------------------------------
(* Metrics: absent and too few observations are neither passed nor failed.   *)
Total(s) == FoldLeft(+, 0, s)
Squares(s) == FoldLeft(LAMBDA sum, x : sum + x * x, 0, s)
Distance(a, b) == IF a >= b THEN a - b ELSE b - a
Metric(samples, minimum, observed, within) ==
    [sufficient |-> samples >= minimum,
     within |-> IF samples < minimum \/ ~observed THEN "unknown" ELSE IF within THEN "yes" ELSE "no"]

(* The requested loss in percent, as a fraction: Gilbert-Elliott loss is its *)
(* stationary share of bad and good packets.                                 *)
RequestedLoss(loss) ==
    IF loss.model = "random" THEN [over |-> loss.percent, under |-> 1]
    ELSE [over |-> loss.start * loss.bad + loss.recovery * loss.good, under |-> loss.start + loss.recovery]
Percent(p) == [over |-> p, under |-> 1]

(* Two percent, or half of what was requested.                               *)
RateWithin(count, n, share) ==
    2 * Distance(100 * count * share.under, share.over * n) <= n * Max({4 * share.under, share.over})
Rate(count, n, share) == Metric(n, MinRateSamples, n > 0, RateWithin(count, n, share))

(* Five milliseconds, or 15 % of the requested mean.                         *)
Delay(delays, requested) ==
    LET n == Len(delays) IN
    Metric(n, MinDelaySamples, n > 0,
           20 * Distance(Total(delays), requested * n) <= n * Max({100, 3 * requested}))
(* Five milliseconds, or 35 % of the requested deviation; one delay has none.*)
Jitter(delays, requested) ==
    LET n == Len(delays)
        spread == 400 * (n * Squares(delays) - Total(delays) * Total(delays))   \* (20 n sigma)^2
        tolerance == Max({100, 7 * requested})
        low == 20 * requested - tolerance
        high == 20 * requested + tolerance
    IN  Metric(n, MinDelaySamples, n >= 2,
               spread <= n * n * high * high /\ (low <= 0 \/ n * n * low * low <= spread))

Counts(sent, received) ==
    LET pairs == Pairs(sent, received) IN
    [before |-> Len(sent), after |-> Len(received), matched |-> Len(pairs.indexes),
     lost |-> Max({Len(sent) - Len(pairs.indexes), 0}), duplicates |-> pairs.duplicates,
     reordered |-> Reordered(pairs.indexes)]

Metrics(sent, received) ==
    LET counts == Counts(sent, received)
        delays == Pairs(sent, received).delays
        n == Len(sent)
    IN  [delay |-> Delay(delays, impairment.delay), jitter |-> Jitter(delays, impairment.jitter),
         loss |-> Rate(counts.lost, n, RequestedLoss(impairment.loss)),
         reorder |-> Rate(counts.reordered, n, Percent(impairment.reorder)),
         duplicate |-> Rate(counts.duplicates, n, Percent(impairment.duplicate))]

Status(metrics) ==
    IF \E m \in DOMAIN metrics : ~metrics[m].sufficient THEN "insufficient_samples"
    ELSE IF \E m \in DOMAIN metrics : metrics[m].within = "no" THEN "outside_tolerance"
    ELSE "within_tolerance"

(* A packet that arrives before it was sent: the clocks are not one.         *)
Negative(sent, received) ==
    LET delays == Pairs(sent, received).delays IN \E i \in DOMAIN delays : delays[i] < 0

NoCounts == [before |-> 0, after |-> 0, matched |-> 0, lost |-> 0, duplicates |-> 0, reordered |-> 0]
NoReport == [supplied |-> "none", status |-> "none", counts |-> NoCounts]

-----------------------------------------------------------------------------
Init == /\ stream \in Streams /\ impairment \in Impairments /\ skew \in Skews
        /\ now = 0 /\ before = <<>> /\ after = <<>>
        /\ report = NoReport

Live == report = NoReport

(* The link between its captures delivers every packet any number of times,  *)
(* in any order: none is a loss, a second one a copy.  netem's corrupt flips *)
(* a bit of what it delivers: the payload digest, or another part of the     *)
(* identity, is then another, or the frame is no RTP packet any more.        *)
Altered(i) == after[i].key # before[after[i].of].key
Send ==
    /\ Live /\ Len(before) < Len(stream)
    /\ before' = Append(before, [key |-> stream[Len(before) + 1], time |-> now])
    /\ UNCHANGED <<stream, impairment, skew, now, after, report>>
Deliver(p) ==
    /\ Live /\ Len(after) < MaxArrivals
    /\ \E key \in {before[p].key, Corrupted, Foreign} :
          /\ key # before[p].key => Cardinality({i \in DOMAIN after : Altered(i)}) < MaxDamage
          /\ after' = Append(after, [key |-> key, time |-> now - skew, of |-> p])
    /\ UNCHANGED <<stream, impairment, skew, now, before, report>>
Tick ==
    /\ Live /\ now < MaxTime
    /\ now' = now + Period
    /\ UNCHANGED <<stream, impairment, skew, before, after, report>>

(* measure_observations, once the captures are closed.  They may not have    *)
(* been supplied, or not be two whole PCAP files.                            *)
MeasurePair(sent, received) ==
    IF Negative(sent, received) THEN [status |-> "invalid_observation", counts |-> NoCounts]
    ELSE [status |-> Status(Metrics(sent, received)), counts |-> Counts(sent, received)]
MeasureObservations(supplied) ==
    CASE supplied = "absent" -> [status |-> "insufficient_samples", counts |-> NoCounts]
      [] supplied = "broken" -> [status |-> "invalid_observation", counts |-> NoCounts]
      [] supplied = "whole" -> MeasurePair(Rtp(before), Rtp(after))
Measure(supplied) ==
    /\ Live
    /\ report' = [supplied |-> supplied] @@ MeasureObservations(supplied)
    /\ UNCHANGED link

Next == Send \/ (\E p \in DOMAIN before : Deliver(p)) \/ Tick
        \/ \E supplied \in {"absent", "broken", "whole"} : Measure(supplied)
Spec == Init /\ [][Next]_<<link, report>>

-----------------------------------------------------------------------------
(* What the link really did, by position and not by key: the packets it      *)
(* never delivered whole, the copies it added, the packets another overtook. *)
Media == {p \in DOMAIN before : before[p].key # Foreign}
Whole(p) == {i \in DOMAIN after : after[i].of = p /\ after[i].key = before[p].key}
Spoiled == {i \in DOMAIN after : after[i].key = Corrupted}
Lost == {p \in Media : Whole(p) = {}}
Copies == Cardinality(UNION {Whole(p) : p \in Media}) - Cardinality(Media \ Lost)
Extra == Copies + Cardinality(Spoiled)
Overtaken == {p \in Media \ Lost : \E q \in Media \ Lost : q > p /\ Min(Whole(q)) < Min(Whole(p))}
Distinct == \A p, q \in Media : before[p].key = before[q].key => p = q

(* The measurement tells what the link did: on one clock, with identities    *)
(* that are not repeated, whole captures are never called invalid; lost is   *)
(* every packet of which nothing whole arrived, and duplicates are the       *)
(* copies and, as docs/CHAOS-LIFECYCLE.md has it ("extra received identities *)
(* are duplication"), each damaged packet that is RTP still: one that netem  *)
(* corrupts counts twice.  With repeated identities losses and copies may    *)
(* only cancel out.  A pass is never given to absent or broken captures, to  *)
(* too few packets, or to a link that lost or damaged, repeated or overtook  *)
(* more than the tolerance allows ("never coerced into a pass").             *)
MeasuredIsSuffered ==
    LET counts == report.counts
        n == Cardinality(Media)
    IN  /\ report.supplied = "whole" /\ skew = 0 /\ Distinct => report.status # "invalid_observation"
        /\ counts # NoCounts =>
             /\ counts.before = n /\ counts.lost <= Cardinality(Lost) /\ counts.duplicates <= Extra
             /\ Distinct => counts.lost = Cardinality(Lost) /\ counts.duplicates = Extra
                               /\ counts.reordered = Cardinality(Overtaken)
        /\ report.status = "within_tolerance" =>
             /\ report.supplied = "whole" /\ n >= MinRateSamples
             /\ Cardinality(UNION {Whole(p) : p \in Media}) >= MinDelaySamples
             /\ Distinct => /\ RateWithin(Cardinality(Lost), n, RequestedLoss(impairment.loss))
                            /\ RateWithin(Extra, n, Percent(impairment.duplicate))
                            /\ RateWithin(Cardinality(Overtaken), n, Percent(impairment.reorder))
=============================================================================
