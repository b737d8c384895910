------------------------------- MODULE Minimizer -------------------------------
(***************************************************************************)
(* sippycup_torture/minimize.py: HierarchicalMinimizer.  The source is a   *)
(* sequence of atoms, each the fixed part ("key") or a value token of a    *)
(* line, or the blank line before the body; a reproducer is the positions  *)
(* of the atoms it has kept, and its dimensions.  The predicate is         *)
(* external: it fails when the atoms that matter (core) are there, every   *)
(* time, or as often as it likes when it is flaky.                         *)
(***************************************************************************)
EXTENDS Integers, Sequences, FiniteSets

CONSTANTS Source, Dimensions,     \* the source reproducer: atoms [line, part]; a sequence
          Trials, Quorum, MaxCandidates, MaxTotalPackets, MaxTotalBytes, \* MinimizerLimits
          PacketsPerTrial         \* Authorization.max_packets_per_trial

VARIABLES core, coreDims, \* the failure: the atoms and the dimensions it needs,
          flaky,          \* and whether it comes every time
          wire, dims,     \* current
          phase, parts, from, \* where minimize() is; _reduce_bytes: partitions, start
          index,          \* _reduce_dimensions
          used,           \* candidates, total_packets, total_bytes
          last,           \* final_trials: the last test, [wire, dims, failures]
          base,           \* the test that made current what it is, a record like last
          status          \* the result's stability

vars == <<core, coreDims, flaky, wire, dims, phase, parts, from, index, used, last, base, status>>

Positions == DOMAIN Source
Levels == {"sections", "headers", "body-lines", "values"}
Atoms(w) == {w[i] : i \in DOMAIN w}
Ceiling(a, b) == (a + b - 1) \div b
Least(a, b) == IF a < b THEN a ELSE b

NoTest == [wire |-> {}, dims |-> <<>>, failures |-> 0]

Init ==
    /\ core \in SUBSET Positions /\ coreDims \in SUBSET Atoms(Dimensions)
    /\ flaky \in BOOLEAN
    /\ wire = Positions /\ dims = Dimensions
    /\ phase = "baseline" /\ parts = 0 /\ from = 0 /\ index = 1
    /\ used = [candidates |-> 0, packets |-> 0, bytes |-> 0]
    /\ last = NoTest /\ base = NoTest /\ status = "none"

-----------------------------------------------------------------------------
(* What may be deleted.                                                    *)

(* The body begins after the first blank line that ends another line; no   *)
(* level deletes the first atom, so that is any blank but the first atom.  *)
Body(w) == {i \in w : \E b \in w : 1 < b /\ b < i /\ Source[b].part = "blank"}
(* _line_spans, one span per line, and the order of the spans.             *)
Lines(s) == {{j \in s : Source[j].line = Source[i].line} : i \in s}
Before(s, t) == \E i \in s : \A j \in t : i < j
(* _spans: the request line is structural.                                 *)
Spans(w, level) ==
    LET head == w \ Body(w)
    IN CASE level = "sections" -> {Body(w)} \ {{}}
         [] level = "headers" -> {s \in Lines(head) : Before(head, s)}
         [] level = "body-lines" -> Lines(Body(w))
         [] OTHER -> {{i} : i \in {j \in head : Source[j].part = "value"}}

(* spans[start : start + width], and the bytes that are left without them. *)
Place(spans, s) == Cardinality({t \in spans : Before(t, s)})
Removal(spans, start, width) ==
    UNION {s \in spans : start <= Place(spans, s) /\ Place(spans, s) < start + width}

-----------------------------------------------------------------------------
(* _test: the budgets, then every trial; stable is unanimous.               *)
Within(w) ==
    /\ used.candidates < MaxCandidates
    /\ used.packets + PacketsPerTrial * Trials <= MaxTotalPackets
    /\ used.bytes + Cardinality(w) * Trials <= MaxTotalBytes

Failures(w, ds) ==
    IF ~(core \subseteq w /\ coreDims \subseteq Atoms(ds)) THEN {0}
    ELSE IF flaky THEN 0..Trials ELSE {Trials}

(* -1 stands for "budget-exhausted", which runs no trial.                  *)
Test(w, ds, failures) ==
    IF Within(w)
      THEN /\ failures \in Failures(w, ds)
           /\ used' = [candidates |-> used.candidates + 1,
                       packets |-> used.packets + PacketsPerTrial * Trials,
                       bytes |-> used.bytes + Cardinality(w) * Trials]
           /\ last' = [wire |-> w, dims |-> ds, failures |-> failures]
      ELSE failures = -1 /\ UNCHANGED <<used, last>>

Stable(failures) == failures = Trials

-----------------------------------------------------------------------------
(* minimize.                                                               *)
Outcomes == -1..Trials
Over(s) == phase' = "over" /\ status' = s

Baseline ==
    /\ phase = "baseline"
    /\ \E f \in Outcomes :
          /\ Test(wire, dims, f)
          /\ base' = last'
          /\ IF f < Quorum THEN Over("CorpusError")
             ELSE IF ~Stable(f) THEN Over("flaky")
             ELSE phase' = "sections" /\ UNCHANGED status
    /\ UNCHANGED <<core, coreDims, flaky, wire, dims, parts, from, index>>

After(level) ==
    CASE level = "sections" -> "headers"
      [] level = "headers" -> "body-lines"
      [] level = "body-lines" -> "values"
      [] OTHER -> "dimensions"

(* A round of _reduce_bytes begins with the spans of what is left.         *)
BeginRound(level) ==
    /\ phase = level /\ parts = 0
    /\ IF Spans(wire, level) = {}
         THEN phase' = After(level) /\ UNCHANGED parts
         ELSE parts' = Least(2, Cardinality(Spans(wire, level))) /\ UNCHANGED phase
    /\ from' = 0 /\ UNCHANGED <<core, coreDims, flaky, wire, dims, index, used, last, base, status>>

(* Mutant: the last partition before single spans ends the level.          *)
FinerOnce(level, n, width) ==
    IF from + width < n THEN from' = from + width /\ UNCHANGED <<parts, phase>>
    ELSE from' = 0 /\ parts' = 0 /\ phase' = After(level)

(* Nothing at this granularity: the next finer one, or the level is done.  *)
Finer(level, n, width) ==
    IF from + width < n THEN from' = from + width /\ UNCHANGED <<parts, phase>>
    ELSE /\ from' = 0
         /\ IF parts = n THEN parts' = 0 /\ phase' = After(level)
                         ELSE parts' = Least(n, parts * 2) /\ UNCHANGED phase

TryRemoval(level) ==
    /\ phase = level /\ parts > 0
    /\ LET spans == Spans(wire, level)
           n == Cardinality(spans)
           width == Ceiling(n, parts)
           candidate == wire \ Removal(spans, from, width)
       IN \E f \in Outcomes :
             /\ Test(candidate, dims, f)
             /\ IF Stable(f)
                  THEN wire' = candidate /\ base' = last' /\ parts' = 0 /\ from' = 0 /\ UNCHANGED phase
                  ELSE Finer(level, n, width) /\ UNCHANGED <<wire, base>>
    /\ UNCHANGED <<core, coreDims, flaky, dims, index, status>>

(* _reduce_dimensions, one dimension at a time.                            *)
TryDimension ==
    /\ phase = "dimensions"
    /\ IF index > Len(dims)
         THEN phase' = "final" /\ UNCHANGED <<dims, index, used, last, base>>
         ELSE LET fewer == SubSeq(dims, 1, index - 1) \o SubSeq(dims, index + 1, Len(dims))
              IN \E f \in Outcomes :
                    /\ Test(wire, fewer, f)
                    /\ dims' = IF Stable(f) THEN fewer ELSE dims
                    /\ base' = IF Stable(f) THEN last' ELSE base
                    /\ index' = IF Stable(f) THEN index ELSE index + 1
                    /\ UNCHANGED phase
    /\ UNCHANGED <<core, coreDims, flaky, wire, parts, from, status>>

Confirm ==
    /\ phase = "final"
    /\ \E f \in Outcomes : Test(wire, dims, f) /\ Over(IF Stable(f) THEN "stable" ELSE "flaky")
    /\ UNCHANGED <<core, coreDims, flaky, wire, dims, parts, from, index, base>>

Next ==
    \/ Baseline \/ TryDimension \/ Confirm
    \/ \E level \in Levels : BeginRound(level) \/ TryRemoval(level)
Spec == Init /\ [][Next]_vars
-----------------------------------------------------------------------------
(* Properties.                                                             *)
Reported == status \in {"stable", "flaky"}
Exhausted == ~Within(Positions)

(* "Only unanimous candidates become a new reduction base": the reproducer  *)
(* reported failed in every trial of some test, unless it is the source;   *)
(* of a line it keeps anything of, it keeps the fixed part; and the budgets *)
(* bound the campaign.                                                     *)
WholeLines ==
    \A i \in wire, j \in Positions :
       Source[j].line = Source[i].line /\ Source[j].part # "value" => j \in wire
ResultWasReproduced ==
    /\ Reported =>
          /\ base.wire = wire /\ base.dims = dims /\ base.failures >= Quorum
          /\ wire # Positions \/ dims # Dimensions => base.failures = Trials
          /\ WholeLines
    /\ status = "stable" => last.wire = wire /\ last.dims = dims /\ last.failures = Trials
    /\ used.candidates <= MaxCandidates /\ used.packets <= MaxTotalPackets
    /\ used.bytes <= MaxTotalBytes

(* What the delta debugging is for: of a failure that is not flaky and with *)
(* budget left, nothing that a level may delete alone can still be deleted, *)
(* although the later levels changed what the earlier ones looked at.      *)
ResultIsMinimal ==
    status = "stable" /\ ~flaky /\ ~Exhausted =>
       /\ \A level \in Levels : \A removal \in Spans(wire, level) :
             Failures(wire \ removal, dims) = {0}
       /\ \A i \in DOMAIN dims : dims[i] \in coreDims

(* "A standalone bundle records [...] expected and actual outcomes, capture *)
(* frames": of the reproducer it contains.                                 *)
OutcomesAreTheReproducers == Reported => last.wire = wire /\ last.dims = dims
=============================================================================
