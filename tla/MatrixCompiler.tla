---------------------------- MODULE MatrixCompiler ----------------------------
(* `campaign matrix`: from a matrix of factors and constraints to the cases *)
(* of a campaign (campaign.py's validation, covering.py, matrix_compile.py).*)
(*                                                                          *)
(* The searches try the values of a factor in an order that a hash breaks   *)
(* ties of: here any value that ties may come first.  One row, one action   *)
(* sequence, and one step of the reduction of a conflict at a time.         *)
EXTENDS Integers, Sequences, FiniteSets, FiniteSetsExt, SequencesExt, TLC

CONSTANTS Matrices,     \* matrices an operator may write
          Transport,    \* the factor that must be authorised
          Authorised,   \* transports of the manifest
          Actions, MaxActions, SequenceStrength,
          CaseBudget, Ceiling, \* of the call template and the manifest
          MaxCases      \* the values of --max-cases

VARIABLES matrix, phase,
          core, coreAt,      \* _minimal_unsat_core
          rows, uncovered,   \* generate_covering_array
          sequences, missing, \* generate_event_sequences
          maxCases, selected
vars == <<matrix, phase, core, coreAt, rows, uncovered, sequences, missing, maxCases, selected>>

Factors == DOMAIN matrix.domains
Domain(f) == matrix.domains[f]

(* A predicate on some factors, over an assignment of some factors.         *)
PredicateState(p, a) ==
    CASE \E f \in DOMAIN p \cap DOMAIN a : a[f] \notin p[f] -> "false"
      [] (\A f \in DOMAIN p \cap DOMAIN a : a[f] \in p[f]) /\ ~(DOMAIN p \subseteq DOMAIN a) -> "unknown"
      [] OTHER -> "true"
Allows(c, a) ==
    CASE c.form = "require" -> PredicateState(c.when, a) # "false"
      [] c.form = "exclude" -> PredicateState(c.when, a) # "true"
      [] c.form = "if" -> ~(PredicateState(c.when, a) = "true" /\ PredicateState(c.then, a) = "false")
AllAllow(constraints, a) == \A c \in Range(constraints) : Allows(c, a)

(* Tuples: one value for each of some factors.                              *)
Compatible(a, tuple) == \A f \in DOMAIN tuple \cap DOMAIN a : a[f] = tuple[f]
Covers(row, tuple) == \A f \in DOMAIN tuple : row[f] = tuple[f]
Assignments(factors) == {a \in [factors -> UNION {Domain(f) : f \in factors}] : \A f \in factors : a[f] \in Domain(f)}
Score(a, tuples) == Cardinality({t \in tuples : Compatible(a, t)})

(* The rows _complete_assignment may return: depth first, smallest domain   *)
(* first, the values that keep most uncovered tuples in reach before the    *)
(* others, and back when the constraints rule the branch out.               *)
NextFactor(a) ==
    CHOOSE f \in Factors \ DOMAIN a :
        \A g \in Factors \ DOMAIN a : Cardinality(Domain(f)) <= Cardinality(Domain(g))
(* Mutant: a whole assignment is returned before it is looked at.           *)
RECURSIVE CompleteUnchecked(_, _, _)
CompleteUnchecked(constraints, a, tuples) ==
    IF DOMAIN a = Factors THEN {a}
    ELSE IF ~AllAllow(constraints, a) THEN {}
    ELSE LET f == NextFactor(a)
             Found == [v \in Domain(f) |-> CompleteUnchecked(constraints, a @@ (f :> v), tuples)]
             Works == {v \in Domain(f) : Found[v] # {}}
             Best == {v \in Works : \A w \in Works : Score(a @@ (f :> w), tuples) <= Score(a @@ (f :> v), tuples)}
         IN UNION {Found[v] : v \in Best}

RECURSIVE Complete(_, _, _)
Complete(constraints, a, tuples) ==
    IF ~AllAllow(constraints, a) THEN {}
    ELSE IF DOMAIN a = Factors THEN {a}
    ELSE LET f == NextFactor(a)
             Found == [v \in Domain(f) |-> Complete(constraints, a @@ (f :> v), tuples)]
             Works == {v \in Domain(f) : Found[v] # {}}
             Best == {v \in Works : \A w \in Works : Score(a @@ (f :> w), tuples) <= Score(a @@ (f :> v), tuples)}
         IN UNION {Found[v] : v \in Best}
Empty == [f \in {} |-> 0]
Satisfiable(constraints) == Complete(constraints, Empty, {}) # {}

(* The factor sets that must interact: all of the matrix's strength, and    *)
(* those a risk asks for at a higher one.                                   *)
Requested ==
    kSubset(matrix.strength, Factors) \cup
    UNION {kSubset(r.strength, r.covering) : r \in {r \in Range(matrix.risks) : r.covering # {}}}
Tuples == UNION {Assignments(s) : s \in Requested}
Required == {t \in Tuples : Complete(matrix.constraints, t, {}) # {}}

MatrixRefused ==
    \/ \E f \in Factors : Domain(f) = {}
    \/ ~(Domain(Transport) \subseteq Authorised)
    \/ \E i, j \in DOMAIN matrix.constraints : i # j /\ matrix.constraints[i].id = matrix.constraints[j].id
    \/ matrix.strength \notin 1 .. Cardinality(Factors)
    \/ \E r \in Range(matrix.risks) :
         r.covering # {} /\ r.strength \notin matrix.strength + 1 .. Cardinality(r.covering)
MandatoryRefused == \E row \in Range(matrix.mandatory) : ~AllAllow(matrix.constraints, row)

-----------------------------------------------------------------------------
(* A call trace: hold and resume alternate, a failure is recovered from     *)
(* before anything else, and hangup comes last (_valid_action_sequence).    *)
Trace(s) ==
    LET Go(state, action) ==
          CASE state = "bad" -> "bad"
            [] state \in {"failed", "failed-held"} ->
                 IF action # "recover" THEN "bad" ELSE IF state = "failed" THEN "talk" ELSE "held"
            [] action = "hold" -> IF state = "talk" THEN "held" ELSE "bad"
            [] action = "resume" -> IF state = "held" THEN "talk" ELSE "bad"
            [] action = "failure" -> IF state = "talk" THEN "failed" ELSE "failed-held"
            [] action = "recover" -> "bad"
            [] OTHER -> state
    IN FoldLeft(Go, "talk", s)
ValidSequence(s) ==
    /\ s # <<>> /\ Last(s) = "hangup" /\ \A i \in 1 .. Len(s) - 1 : s[i] # "hangup"
    /\ Trace(Front(s)) # "bad"
Candidates ==
    {s \in {Append(p, "hangup") : p \in UNION {[1 .. n -> Actions \ {"hangup"}] : n \in 0 .. MaxActions - 1}} :
       ValidSequence(s)}
Subsequences(s, n) == {[k \in 1 .. n |-> s[SetToSortSeq(p, <)[k]]] : p \in kSubset(n, DOMAIN s)}
RequiredActions == UNION {Subsequences(s, SequenceStrength) : s \in Candidates}
(* _validate_generated_case holds a second copy of the rule.                *)
GeneratedRefused(case) ==
    \/ ~AllAllow(matrix.constraints, case.row)
    \/ case.actions = <<>> \/ Last(case.actions) # "hangup"
    \/ \E i \in 1 .. Len(case.actions) - 1 : case.actions[i] = "hangup"
    \/ Trace(Front(case.actions)) = "bad"

-----------------------------------------------------------------------------
Init ==
    /\ matrix \in Matrices /\ phase = "check"
    /\ core = <<>> /\ coreAt = 0
    /\ rows = <<>> /\ uncovered = {} /\ sequences = <<>> /\ missing = {}
    /\ maxCases = 0 /\ selected = <<>>

Validate ==
    /\ phase = "check"
    /\ LET satisfiable == Satisfiable(matrix.constraints)
       IN IF MatrixRefused \/ (satisfiable /\ MandatoryRefused)
          THEN phase' = "refused" /\ UNCHANGED <<core, coreAt, rows, uncovered>>
          ELSE IF ~satisfiable
          THEN /\ phase' = "core" /\ core' = matrix.constraints /\ coreAt' = 1
               /\ UNCHANGED <<rows, uncovered>>
          ELSE /\ phase' = "rows" /\ rows' = matrix.mandatory
               /\ uncovered' = {t \in Required : \A r \in Range(rows') : ~Covers(r, t)}
               /\ UNCHANGED <<core, coreAt>>
    /\ UNCHANGED <<matrix, sequences, missing, maxCases, selected>>

(* Mutant: the index moves on although the list has closed up.              *)
ReduceCoreSkipping ==
    /\ phase = "core"
    /\ IF coreAt > Len(core) THEN phase' = "conflict" /\ UNCHANGED <<core, coreAt>>
       ELSE /\ core' = IF ~Satisfiable(RemoveAt(core, coreAt)) THEN RemoveAt(core, coreAt) ELSE core
            /\ coreAt' = coreAt + 1
            /\ UNCHANGED phase
    /\ UNCHANGED <<matrix, rows, uncovered, sequences, missing, maxCases, selected>>
ReduceCore ==
    /\ phase = "core"
    /\ IF coreAt > Len(core) THEN phase' = "conflict" /\ UNCHANGED <<core, coreAt>>
       ELSE /\ IF ~Satisfiable(RemoveAt(core, coreAt))
               THEN core' = RemoveAt(core, coreAt) /\ coreAt' = coreAt
               ELSE core' = core /\ coreAt' = coreAt + 1
            /\ UNCHANGED phase
    /\ UNCHANGED <<matrix, rows, uncovered, sequences, missing, maxCases, selected>>

AddRow ==
    /\ phase = "rows" /\ uncovered # {}
    /\ \E target \in uncovered : \E row \in Complete(matrix.constraints, target, uncovered) :
         /\ rows' = Append(rows, row)
         /\ uncovered' = {t \in uncovered : ~Covers(row, t)}
    /\ UNCHANGED <<matrix, phase, core, coreAt, sequences, missing, maxCases, selected>>

RowsDone ==
    /\ phase = "rows" /\ uncovered = {}
    /\ phase' = "sequences" /\ missing' = RequiredActions
    /\ UNCHANGED <<matrix, core, coreAt, rows, uncovered, sequences, maxCases, selected>>

(* Greedy: a sequence that covers most of what is missing.                  *)
AddSequence ==
    /\ phase = "sequences" /\ missing # {}
    /\ LET Gain(s) == Cardinality(Subsequences(s, SequenceStrength) \cap missing)
           best == Max({Gain(s) : s \in Candidates})
       IN \E s \in {s \in Candidates : Gain(s) = best} :
            /\ sequences' = Append(sequences, s)
            /\ missing' = missing \ Subsequences(s, SequenceStrength)
    /\ UNCHANGED <<matrix, phase, core, coreAt, rows, uncovered, maxCases, selected>>

-----------------------------------------------------------------------------
(* compile_matrix_campaign: each row with one sequence, the mandatory rows  *)
(* first, then by risk, cut to what the budget of the campaign allows.      *)
Mandatory(i) == i <= Len(matrix.mandatory)
Risk(row) == MapThenSumSet(LAMBDA r : IF PredicateState(r.when, row) = "true" THEN r.weight ELSE 0,
                           Range(matrix.risks))
Capacity(limit) ==
    Min({Ceiling[k] \div CaseBudget[k] : k \in DOMAIN CaseBudget} \cup {Ceiling["calls"]}
        \cup (IF limit = 0 THEN {} ELSE {limit}))
CaseOf(i) ==
    [index |-> i, row |-> rows[i], actions |-> sequences[((i - 1) % Len(sequences)) + 1], mandatory |-> Mandatory(i),
     risk |-> Risk(rows[i])]
Sooner(x, y) ==
    \/ x.mandatory /\ ~y.mandatory
    \/ x.mandatory = y.mandatory /\ (x.risk > y.risk \/ (x.risk = y.risk /\ x.index < y.index))
(* Mutant: the riskiest first, mandatory or not.                            *)
OrderedByRisk ==
    SortSeq([i \in DOMAIN rows |-> CaseOf(i)], LAMBDA x, y : x.risk > y.risk \/ (x.risk = y.risk /\ x.index < y.index))
Ordered == SortSeq([i \in DOMAIN rows |-> CaseOf(i)], Sooner)

Select ==
    /\ phase = "sequences" /\ missing = {}
    /\ \E limit \in MaxCases :
         LET capacity == Capacity(limit)
         IN /\ maxCases' = limit
            /\ IF capacity < 1 \/ capacity < Len(matrix.mandatory)
               THEN phase' = "refused" /\ UNCHANGED selected
               ELSE /\ selected' = SubSeq(Ordered, 1, IF capacity < Len(rows) THEN capacity ELSE Len(rows))
                    /\ phase' = IF \E c \in Range(selected') : GeneratedRefused(c) THEN "refused" ELSE "planned"
    /\ UNCHANGED <<matrix, core, coreAt, rows, uncovered, sequences, missing>>

Next == Validate \/ ReduceCore \/ AddRow \/ RowsDone \/ AddSequence \/ Select
Spec == Init /\ [][Next]_vars

-----------------------------------------------------------------------------
TypeOK ==
    /\ phase \in {"check", "core", "conflict", "rows", "sequences", "planned", "refused"}
    /\ \A r \in Range(rows) : r \in Assignments(Factors)
    /\ \A s \in Range(sequences) : ValidSequence(s)

(* The constraints of a whole assignment, read as logic.                    *)
True(p, row) == \A f \in DOMAIN p : row[f] \in p[f]
Satisfies(row, constraints) ==
    \A c \in Range(constraints) :
        /\ c.form = "require" => True(c.when, row)
        /\ c.form = "exclude" => ~True(c.when, row)
        /\ c.form = "if" => (True(c.when, row) => True(c.then, row))
Models(constraints) == {row \in Assignments(Factors) : Satisfies(row, constraints)}

(* The rows are a covering array: each satisfies every constraint, although *)
(* the search judges half-filled rows, and together they contain exactly    *)
(* the requested tuples that any solution contains, so that a tuple is      *)
(* excluded only when no solution has it.  Risks may ask for more factors.  *)
RowsCover ==
    phase \in {"sequences", "planned"} =>
        /\ Range(rows) \subseteq Models(matrix.constraints)
        /\ \A t \in Tuples :
             (\E r \in Range(rows) : Covers(r, t)) <=> (\E m \in Models(matrix.constraints) : Covers(m, t))

(* Conflicting constraints are reported by a set that conflicts, and that   *)
(* no longer does when any one of it is taken away; anything else is        *)
(* satisfiable.                                                             *)
CoreIsMinimal ==
    /\ phase = "conflict" =>
         /\ core # <<>> /\ Models(core) = {}
         /\ \A i \in DOMAIN core : Models(RemoveAt(core, i)) # {}
    /\ phase \in {"rows", "sequences", "planned"} => Models(matrix.constraints) # {}

(* An action sequence as a call sees it.                                    *)
MakesSense(acts) ==
    LET Count(a, i) == Cardinality({j \in 1 .. i - 1 : acts[j] = a})
    IN \A i \in DOMAIN acts :
         /\ acts[i] = "hangup" <=> i = Len(acts)
         /\ acts[i] # "hangup" => (acts[i] = "recover" <=> i > 1 /\ acts[i - 1] = "failure")
         /\ acts[i] = "hold" => Count("hold", i) = Count("resume", i)
         /\ acts[i] = "resume" => Count("hold", i) = Count("resume", i) + 1

(* The cases of the campaign: within the budget, every mandatory case among *)
(* them, no case left out before one of lower risk, each a call that can be  *)
(* made; with room for all, and rows for all sequences, no ordered pair of  *)
(* actions is missing from the campaign.  A selection is refused only for   *)
(* want of budget.                                                          *)
SelectionIsHonest ==
    /\ phase = "refused" /\ sequences # <<>> => selected = <<>>
    /\ phase = "planned" =>
        LET kept == {c.index : c \in Range(selected)}
            cut == DOMAIN rows \ kept
        IN /\ Len(selected) <= Capacity(maxCases) /\ Cardinality(kept) = Len(selected)
           /\ \A k \in DOMAIN CaseBudget : Len(selected) * CaseBudget[k] <= Ceiling[k]
           /\ 1 .. Len(matrix.mandatory) \subseteq kept
           /\ \A i \in cut, c \in Range(selected) : ~c.mandatory => c.risk >= Risk(rows[i])
           /\ cut # {} => Len(selected) = Capacity(maxCases)
           /\ \A c \in Range(selected) : MakesSense(c.actions)
           /\ cut = {} /\ Len(rows) >= Len(sequences) =>
                \A a \in RequiredActions : \E c \in Range(selected) : a \in Subsequences(c.actions, SequenceStrength)
=============================================================================
