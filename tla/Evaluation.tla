----------------------------- MODULE Evaluation ------------------------------
(***************************************************************************)
(* What a flag evaluates to: the Go SDK's Evaluate (sdk/go/flageval), which *)
(* the data plane also runs for client-side SDKs, over the rulesets the    *)
(* control plane's validation (schemas/flag.py, api/flags.py) lets through. *)
(*                                                                         *)
(* One environment.  Evaluation reads an immutable ruleset, so it is a     *)
(* function of the ruleset and a context; the ruleset changes by PUTs.     *)
(* An attribute value stands for the key and all other attributes of its   *)
(* kind: a context gives each kind one value, None when the kind is absent *)
(* from it.  The operators on strings and numbers are one, "in".           *)
(***************************************************************************)
EXTENDS Integers, Sequences, FiniteSetsExt, Functions

CONSTANTS
  FlagKeys, SegmentKeys,  \* keys of flags and segments
  Kinds, Names,           \* context kinds, and the values of their attributes
  None,                   \* absent
  VariationCount,         \* flag -> number of its variations
  FlagBodies,             \* flag -> bodies of the PUTs of its targeting
  SegmentBodies,          \* segment -> bodies of the PUTs of its targeting
  Whole,                  \* the sum of a rollout's weights (100000)
  Unit,                   \* what a weight of 1 comes to in the numbers below
  Round,                  \* a number -> the float64 nearest to it
  Slack,                  \* the most that Round is off
  MaxEntries,             \* no body carries a longer rollout
  Hash                    \* <<flag, value>> -> its bucket

(***************************************************************************)
(* The numbers of bucketVariation, 0 to 2, are multiples of a step so fine *)
(* that each quotient weight / 100000 and each float64 is one: 1.0 is      *)
(* Whole * Unit.  Of rounding to nearest all that counts here is that it   *)
(* is monotone, keeps a float64 and is off by at most 2^-53 up to 2: then  *)
(* Slack / Unit is 1e5 / 2^53, and MaxEntries may be 2 * 10^10.            *)
(***************************************************************************)
Numbers == 0..(2 * (Whole * Unit))

Values == Names \cup {None}

Rollouts ==
  {r \in Seq([variation : Nat, weight : 0..Whole]) : Len(r) <= MaxEntries}

(* What the schemas accept as a serve (variation or rollout), a clause, a   *)
(* flag's targeting and a segment's; a serve without rollout has no kind.   *)
Serves == [variation : Nat \cup {None}, kind : Kinds \cup {None},
           rollout : Rollouts]
Clauses == [op : {"in"}, kind : Kinds, values : Seq(Names), negate : BOOLEAN]
             \cup
           [op : {"segmentMatch"}, kind : Kinds, values : Seq(SegmentKeys),
            negate : BOOLEAN]
FlagConfigs == [enabled : BOOLEAN,
                prerequisites : Seq([flag : FlagKeys, variation : Nat]),
                targets : Seq([kind : Kinds, variation : Nat, keys : SUBSET Names]),
                rules : Seq([clauses : Seq(Clauses), serve : Serves]),
                fallthrough : Serves,
                off : Nat]
SegmentConfigs == [kind : Kinds, included : SUBSET Names, excluded : SUBSET Names,
                   rules : Seq(Seq(Clauses))]

ASSUME EvaluationAssumption ==
  /\ IsFiniteSet(FlagKeys)
  /\ VariationCount \in [FlagKeys -> Nat \ {0, 1}]
  /\ Whole \in Nat \ {0}
  /\ Unit \in Nat /\ Slack \in Nat /\ MaxEntries \in Nat
  /\ 4 * (Slack * MaxEntries) <= Unit
  /\ Round \in [Numbers -> Numbers]
  /\ \A x \in Numbers : Round[Round[x]] = Round[x]
  /\ \A x, y \in Numbers : x <= y => Round[x] <= Round[y]
  /\ \A x \in Numbers : x <= Round[x] + Slack /\ Round[x] <= x + Slack
  /\ Hash \in [FlagKeys \X Values -> 0..(Whole * Unit)]
  /\ None \notin Nat \cup Names \cup FlagConfigs \cup SegmentConfigs
  /\ \A f \in FlagKeys : FlagBodies[f] \subseteq FlagConfigs
  /\ \A s \in SegmentKeys : SegmentBodies[s] \subseteq SegmentConfigs

VARIABLES
  flags,    \* flag -> its config in the ruleset, None when it has none
  segments  \* segment -> its config in the ruleset, None when it has none

vars == <<flags, segments>>

Contexts == [Kinds -> Values]

Loaded == {f \in FlagKeys : flags[f] # None}

(* FlagEnvironmentConfig's column defaults *)
DefaultConfig ==
  [enabled |-> FALSE, prerequisites |-> <<>>, targets |-> <<>>, rules |-> <<>>,
   fallthrough |-> [variation |-> 0, kind |-> None, rollout |-> <<>>],
   off |-> 0]

-----------------------------------------------------------------------------
(* Validation *)

(* the sum of the weights of a rollout's first i entries, as the schema adds *)
WeightUpTo(rollout, i) ==
  LET cum[j \in 0..Len(rollout)] ==
        IF j = 0 THEN 0 ELSE cum[j - 1] + rollout[j].weight
  IN cum[i]

(* exactly one of variation and rollout, and a rollout's weights sum up *)
WellFormed(serve) ==
  /\ serve.variation = None <=> serve.rollout # <<>>
  /\ serve.rollout # <<>> => WeightUpTo(serve.rollout, Len(serve.rollout)) = Whole

(* the variations a rule or a fallthrough refers to *)
Variations(serve) ==
  ({serve.variation} \ {None}) \cup {w.variation : w \in Range(serve.rollout)}

(* mutant: the fallthrough's variations are not looked at *)
CheckedButFallthrough(body) ==
  {body.off} \cup {t.variation : t \in Range(body.targets)}
    \cup UNION {Variations(r.serve) : r \in Range(body.rules)}

(* _validate_indices looks at every variation of the flag's own that a body *)
(* names; the variation a prerequisite requires is another flag's, and it   *)
(* is left unchecked, as is the prerequisite's flag.                        *)
Checked(body) ==
  {body.off}
    \cup {t.variation : t \in Range(body.targets)}
    \cup (UNION {Variations(r.serve) : r \in Range(body.rules)})
    \cup Variations(body.fallthrough)

Accepted(f, body) ==
  /\ \A r \in Range(body.rules) : WellFormed(r.serve) /\ r.clauses # <<>>
  /\ WellFormed(body.fallthrough)
  /\ Checked(body) \subseteq 0..(VariationCount[f] - 1)

-----------------------------------------------------------------------------
(* Matching.  A test is "yes", "no", or "overflow" when it never returns:  *)
(* the recursion exhausts the stack and the process dies.                  *)

(* the first result of a sequence of tests that ends it, or else *)
FirstNot(otherwise, results) ==
  LET is == {i \in DOMAIN results : results[i] # otherwise} IN
  IF is = {} THEN otherwise ELSE results[Min(is)]

Every(results) == FirstNot("yes", results)
Some(results) == FirstNot("no", results)

Flip(result) ==
  CASE result = "yes" -> "no" [] result = "no" -> "yes" [] OTHER -> result

(* member says of each segment whether ctx is in it *)
MatchClause(c, ctx, member) ==
  LET equal == ctx[c.kind] # None /\ ctx[c.kind] \in Range(c.values)
      result == IF c.op = "segmentMatch"
                THEN Some([i \in DOMAIN c.values |-> member[c.values[i]]])
                ELSE IF equal THEN "yes" ELSE "no"
  IN IF c.negate THEN Flip(result) ELSE result

MatchClauses(clauses, ctx, member) ==
  Every([i \in DOMAIN clauses |-> MatchClause(clauses[i], ctx, member)])

(***************************************************************************)
(* segmentContains, for every segment.  inside holds the segments whose    *)
(* tests are still running: the code does not look at them, and a test     *)
(* that comes back to one of them does the same again, for ever.           *)
(***************************************************************************)
Members(ctx) ==
  LET contains[p \in SegmentKeys \X SUBSET SegmentKeys] ==
        LET seg == segments[p[1]]
            inside == p[2] \cup {p[1]}
            key == IF seg = None THEN None ELSE ctx[seg.kind]
            member == [s \in SegmentKeys |-> contains[<<s, inside>>]]
        IN IF p[1] \in p[2] THEN "overflow"
           ELSE IF seg = None THEN "no"
           ELSE IF key # None /\ key \in seg.excluded THEN "no"
           ELSE IF key # None /\ key \in seg.included THEN "yes"
           ELSE Some([i \in DOMAIN seg.rules |->
                        MatchClauses(seg.rules[i], ctx, member)])
  IN [s \in SegmentKeys |-> contains[<<s, {}>>]]

-----------------------------------------------------------------------------
(* Evaluation *)

(* float64(weight) / 100000.0 *)
Share(weight) == Round[weight * Unit]

(* cum after i entries: a float64, rounded at every addition.  The same     *)
(* total cut up in other weights may come out otherwise (0.1 + 0.2 > 0.3).  *)
Cumulative(rollout, i) ==
  LET cum[j \in 0..Len(rollout)] ==
        IF j = 0 THEN 0 ELSE Round[cum[j - 1] + Share(rollout[j].weight)]
  IN cum[i]

(* mutant: weights are not added up *)
BucketVariationByWeight(f, serve, ctx) ==
  LET value == IF serve.kind \in Kinds THEN ctx[serve.kind] ELSE None
      n == Len(serve.rollout)
      is == {i \in 1..n : Hash[<<f, value>>] < Share(serve.rollout[i].weight)}
  IN serve.rollout[Min(is \cup {n})].variation

(* bucketVariation: the last entry catches a bucket beyond all the weights. *)
BucketVariation(f, serve, ctx) ==
  LET value == IF serve.kind \in Kinds THEN ctx[serve.kind] ELSE None
      n == Len(serve.rollout)
      is == {i \in 1..n : Hash[<<f, value>>] < Cumulative(serve.rollout, i)}
  IN serve.rollout[Min(is \cup {n})].variation

Served(f, serve, ctx) ==
  IF serve.variation # None THEN serve.variation ELSE BucketVariation(f, serve, ctx)

Result(index, reason) == [index |-> index, reason |-> reason]
Overflow == Result(0, "OVERFLOW")

(* steps 1 to 5, given the outcome of the prerequisites *)
Outcome(f, ctx, met, member) ==
  LET cfg == flags[f]
      targets == {i \in DOMAIN cfg.targets :
                    /\ ctx[cfg.targets[i].kind] # None
                    /\ ctx[cfg.targets[i].kind] \in cfg.targets[i].keys}
      matches == [i \in DOMAIN cfg.rules |->
                    MatchClauses(cfg.rules[i].clauses, ctx, member)]
      rules == {i \in DOMAIN cfg.rules : matches[i] # "no"}
  IN IF ~cfg.enabled THEN Result(cfg.off, "OFF")
     ELSE IF met = "overflow" THEN Overflow
     ELSE IF met = "no" THEN Result(cfg.off, "PREREQUISITE_FAILED")
     ELSE IF targets # {}
          THEN Result(cfg.targets[Min(targets)].variation, "TARGET_MATCH")
     ELSE IF rules = {} THEN Result(Served(f, cfg.fallthrough, ctx), "FALLTHROUGH")
     ELSE IF matches[Min(rules)] = "overflow" THEN Overflow
     ELSE Result(Served(f, cfg.rules[Min(rules)].serve, ctx), "RULE_MATCH")

(* does prerequisite p hold, its flag having evaluated to result? *)
Holds(p, result) ==
  IF result = Overflow THEN "overflow"
  ELSE IF flags[p.flag].enabled /\ result.index = p.variation THEN "yes" ELSE "no"

(* mutant: visiting keeps the prerequisites already evaluated *)
VisitingKept(prerequisites, i, visiting) ==
  visiting \cup {prerequisites[j].flag : j \in 1..i}

(* the flags being visited while prerequisite i is evaluated *)
Visiting(prerequisites, i, visiting) == visiting \cup {prerequisites[i].flag}

(* step 2: the prerequisites of f, given what evaluate returns *)
Met(f, visiting, evaluate) ==
  LET required == flags[f].prerequisites IN
  Every([i \in DOMAIN required |->
           LET g == required[i].flag IN
           IF g \notin Loaded \/ g \in visiting THEN "no"
           ELSE Holds(required[i], evaluate[<<g, Visiting(required, i, visiting)>>])])

Evaluations(ctx) ==
  LET member == Members(ctx)
      evaluate[p \in FlagKeys \X SUBSET FlagKeys] ==
        Outcome(p[1], ctx, Met(p[1], p[2], evaluate), member)
  IN evaluate

(* Of the flag it starts from, evaluate does not take note. *)
Evaluate(flag, ctx) == Evaluations(ctx)[<<flag, {}>>]

-----------------------------------------------------------------------------
(* The ruleset *)

Init ==
  /\ flags = [f \in FlagKeys |-> None]
  /\ segments = [s \in SegmentKeys |-> None]

CreateFlag(f) ==
  /\ flags[f] = None
  /\ flags' = [flags EXCEPT ![f] = DefaultConfig]
  /\ UNCHANGED segments

(* mutant: the body is stored as it comes *)
UpdateFlagConfigUnchecked(f, body) ==
  /\ flags[f] # None
  /\ flags' = [flags EXCEPT ![f] = body]
  /\ UNCHANGED segments

UpdateFlagConfig(f, body) ==
  /\ flags[f] # None
  /\ Accepted(f, body)
  /\ flags' = [flags EXCEPT ![f] = body]
  /\ UNCHANGED segments

(* The schema asks only that each rule of a segment has a clause. *)
UpdateSegmentConfig(s, body) ==
  /\ \A i \in DOMAIN body.rules : body.rules[i] # <<>>
  /\ segments' = [segments EXCEPT ![s] = body]
  /\ UNCHANGED flags

Next ==
  \/ \E f \in FlagKeys : CreateFlag(f)
  \/ \E f \in FlagKeys : \E body \in FlagBodies[f] : UpdateFlagConfig(f, body)
  \/ \E s \in SegmentKeys : \E body \in SegmentBodies[s] : UpdateSegmentConfig(s, body)

Spec == Init /\ [][Next]_vars

-----------------------------------------------------------------------------
(* Properties *)

DependsOn(f) == {p.flag : p \in Range(flags[f].prerequisites)} \cap Loaded

(* f depends on g, directly or through others: g is in every set of flags  *)
(* that f's prerequisites are in and that is closed under prerequisites.   *)
Reaches(f, g) ==
  \A S \in SUBSET Loaded :
    (DependsOn(f) \subseteq S /\ \A h \in S : DependsOn(h) \subseteq S) => g \in S

OnCycle(f) == Reaches(f, f)

(* The ruleset holds configs that the validation accepts. *)
TypeOK ==
  /\ flags \in [FlagKeys -> FlagConfigs \cup {None}]
  /\ segments \in [SegmentKeys -> SegmentConfigs \cup {None}]
  /\ \A f \in Loaded : Accepted(f, flags[f])

(***************************************************************************)
(* hit and off index flag.Variations without a look at its length          *)
(* (eval.go:15,20): whatever was accepted, for whatever context, rule,     *)
(* rollout or failed prerequisite, the index served is one of the flag's.  *)
(***************************************************************************)
ServesExistingVariation ==
  \A f \in Loaded, ctx \in Contexts :
    Evaluate(f, ctx).index \in 0..(VariationCount[f] - 1)

(***************************************************************************)
(* "the prereq flag must be enabled and evaluate to the required variation. *)
(* Any failure -> serve off_variation" (DESIGN.md:231-232): where no flag   *)
(* requires itself, an enabled flag fails its prerequisites exactly when    *)
(* one of their flags is absent, off, or by itself serves something else.   *)
(* Prerequisites that are shared, nested or repeated must not confuse the   *)
(* guard against cycles.                                                    *)
(***************************************************************************)
Satisfied(p, ctx) ==
  /\ p.flag \in Loaded
  /\ flags[p.flag].enabled
  /\ Evaluate(p.flag, ctx).index = p.variation

PrerequisitesMeanTheirFlags ==
  (\A f \in Loaded : ~OnCycle(f)) =>
    \A f \in Loaded, ctx \in Contexts :
      LET result == Evaluate(f, ctx) IN
      (flags[f].enabled /\ result # Overflow) =>
        (result.reason = "PREREQUISITE_FAILED" <=>
           \E p \in Range(flags[f].prerequisites) : ~Satisfied(p, ctx))

(***************************************************************************)
(* "sticky bucketing": a PUT that only shifts the weights of a flag's       *)
(* fallthrough rollout moves nobody off a variation when the entries before *)
(* it have no more than they had, and the entries up to it no less (all of  *)
(* them, for the last one).  The sums are rounded (bucket.go:34-38), so "no *)
(* more" is a smaller total, or no entry with more: an equal total cut up   *)
(* otherwise may move the one bucket on the edge.  A flag that requires     *)
(* itself is set apart: its weights decide its prerequisites.               *)
(***************************************************************************)
Order(serve) == [i \in DOMAIN serve.rollout |-> serve.rollout[i].variation]

(* flag f's config goes from a to b by a shift of its rollout's weights *)
Reweighted(a, b) ==
  /\ a # b
  /\ b = [a EXCEPT !.fallthrough = b.fallthrough]
  /\ a.fallthrough.rollout # <<>>
  /\ a.fallthrough.kind = b.fallthrough.kind
  /\ Order(a.fallthrough) = Order(b.fallthrough)
  /\ IsInjective(Order(a.fallthrough))

(* the first i entries of b have no more than those of a *)
NotMore(a, b, i) ==
  \/ WeightUpTo(b, i) < WeightUpTo(a, i)
  \/ \A j \in 1..i : b[j].weight <= a[j].weight

(* entry i of b takes in what entry i of a did *)
Covers(a, b, i) ==
  /\ NotMore(a, b, i - 1)
  /\ i = Len(a) \/ NotMore(b, a, i)

RampUpKeepsMembers ==
  [][\A f \in Loaded : (Reweighted(flags[f], flags'[f]) /\ ~OnCycle(f)) =>
       LET before == flags[f].fallthrough.rollout
           after == flags'[f].fallthrough.rollout
       IN \A i \in DOMAIN before : Covers(before, after, i) =>
            \A ctx \in Contexts :
              Evaluate(f, ctx) = Result(before[i].variation, "FALLTHROUGH") =>
                Evaluate(f, ctx)' = Result(before[i].variation, "FALLTHROUGH")]_vars

-----------------------------------------------------------------------------
(* What the documents and comments say and the code does not do *)

(***************************************************************************)
(* Evaluation "never blocks or throws into the host app" (DESIGN.md:335):  *)
(* it returns for every ruleset the control plane accepts.                 *)
(***************************************************************************)
EvaluationReturns ==
  \A f \in Loaded, ctx \in Contexts : Evaluate(f, ctx) # Overflow
=============================================================================
