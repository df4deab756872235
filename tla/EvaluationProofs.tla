--------------------------- MODULE EvaluationProofs ---------------------------
(***************************************************************************)
(* Proofs about Evaluation, for any sets of flags, segments and contexts,  *)
(* any bodies the schemas let through, and any hash.                       *)
(***************************************************************************)
EXTENDS Evaluation, FiniteSetTheorems, TLAPS

-----------------------------------------------------------------------------
(* Least elements *)

LEMMA LeastNat ==
  ASSUME NEW T \in SUBSET Nat, T # {}
  PROVE  \E n \in T : \A m \in T : n <= m
<1>1. \E n \in T : \A m \in T : ~ (<<m, n>> \in OpToRel(<, Nat))
  BY NatLessThanWellFounded, WFMin
<1>2. \A m, n \in Nat : <<m, n>> \in OpToRel(<, Nat) <=> m < n
  BY DEF OpToRel
<1>3. PICK n \in T : \A m \in T : ~ (<<m, n>> \in OpToRel(<, Nat))
  BY <1>1
<1>4. ASSUME NEW m \in T
      PROVE  n <= m
  <2>1. ~ (m < n)
    BY <1>2, <1>3
  <2>. QED BY <2>1
<1>. QED BY <1>4

LEMMA MinIsLeast ==
  ASSUME NEW T \in SUBSET Nat, T # {}
  PROVE  Min(T) \in T /\ \A m \in T : Min(T) <= m
BY LeastNat DEF Min

-----------------------------------------------------------------------------
(* The recursion of evaluate *)

(* The prerequisites' outcome depends on what their flags evaluate to. *)
LEMMA MetDepends ==
  ASSUME NEW f, NEW visiting, NEW g, NEW h,
         \A x \in Loaded \ visiting : g[<<x, visiting \cup {x}>>] = h[<<x, visiting \cup {x}>>]
  PROVE  Met(f, visiting, g) = Met(f, visiting, h)
<1>. DEFINE required == flags[f].prerequisites
            test(e, i) ==
              IF required[i].flag \notin Loaded \/ required[i].flag \in visiting THEN "no"
              ELSE Holds(required[i], e[<<required[i].flag, Visiting(required, i, visiting)>>])
<1>1. \A i : test(g, i) = test(h, i)
  BY DEF Visiting
<1>2. [i \in DOMAIN required |-> test(g, i)] = [i \in DOMAIN required |-> test(h, i)]
  BY <1>1
<1>. QED BY <1>2 DEF Met

(* evaluate recurses on ever larger sets of flags being visited, so it is defined. *)
LEMMA EvaluationsDefined ==
  ASSUME NEW ctx
  PROVE  Evaluations(ctx) =
           [p \in FlagKeys \X SUBSET FlagKeys |->
              Outcome(p[1], ctx, Met(p[1], p[2], Evaluations(ctx)), Members(ctx))]
<1>. DEFINE D == FlagKeys \X SUBSET FlagKeys
            Step(g, p) == Outcome(p[1], ctx, Met(p[1], p[2], g), Members(ctx))
            Left(p) == Cardinality(FlagKeys \ p[2])
            Solves(g, n) == \A p \in D : Left(p) < n => g[p] = Step(g, p)
            Unsolved == {n \in Nat : ~ \E g : Solves(g, n)}
<1>1. ASSUME NEW p \in D
      PROVE  Left(p) \in Nat /\ Left(p) <= Cardinality(FlagKeys)
  BY EvaluationAssumption, FS_Subset, FS_CardinalityType
<1>2. ASSUME NEW p \in D, NEW x \in FlagKeys \ p[2]
      PROVE  /\ <<x, p[2] \cup {x}>> \in D
             /\ Left(<<x, p[2] \cup {x}>>) < Left(p)
  <2>1. IsFiniteSet(FlagKeys \ p[2])
    BY EvaluationAssumption, FS_Subset
  <2>2. FlagKeys \ (p[2] \cup {x}) = (FlagKeys \ p[2]) \ {x}
    OBVIOUS
  <2>3. Cardinality((FlagKeys \ p[2]) \ {x}) = Cardinality(FlagKeys \ p[2]) - 1
    BY <2>1, FS_RemoveElement
  <2>4. Left(<<x, p[2] \cup {x}>>) = Left(p) - 1
    BY <2>2, <2>3
  <2>. QED BY <1>1, <2>4
<1>3. ASSUME NEW p \in D, NEW g, NEW h,
             \A q \in D : Left(q) < Left(p) => g[q] = h[q]
      PROVE  Step(g, p) = Step(h, p)
  <2>1. Loaded \subseteq FlagKeys
    BY DEF Loaded
  <2>2. \A x \in Loaded \ p[2] : g[<<x, p[2] \cup {x}>>] = h[<<x, p[2] \cup {x}>>]
    BY <1>2, <1>3, <2>1
  <2>. QED BY <2>2, MetDepends
<1>. HIDE DEF D, Step, Left
<1>4. Unsolved = {}
  <2>. SUFFICES ASSUME Unsolved # {} PROVE FALSE
    OBVIOUS
  <2>1. PICK n \in Unsolved : \A m \in Unsolved : n <= m
    BY LeastNat
  <2>2. n # 0
    BY <1>1
  <2>3. n - 1 \in Nat /\ n - 1 \notin Unsolved
    BY <2>1, <2>2
  <2>4. PICK g : Solves(g, n - 1)
    BY <2>3
  <2>. DEFINE h == [p \in D |-> IF Left(p) < n - 1 THEN g[p] ELSE Step(g, p)]
  <2>5. ASSUME NEW p \in D, Left(p) < n
        PROVE  h[p] = Step(h, p)
    <3>1. h[p] = Step(g, p)
      BY <2>4
    <3>2. \A q \in D : Left(q) < Left(p) => g[q] = h[q]
      BY <1>1, <2>3, <2>5
    <3>. QED BY <1>3, <3>1, <3>2
  <2>6. Solves(h, n)
    BY <2>5
  <2>. QED BY <2>1, <2>6
<1>5. PICK g : g = [p \in D |-> Step(g, p)]
  <2>1. Cardinality(FlagKeys) \in Nat
    BY EvaluationAssumption, FS_CardinalityType
  <2>2. PICK h : Solves(h, Cardinality(FlagKeys) + 1)
    BY <1>4, <2>1
  <2>. DEFINE k == [p \in D |-> h[p]]
  <2>3. ASSUME NEW p \in D
        PROVE  k[p] = Step(k, p)
    <3>1. h[p] = Step(h, p)
      BY <1>1, <2>1, <2>2
    <3>2. Step(h, p) = Step(k, p)
      BY <1>3
    <3>. QED BY <3>1, <3>2
  <2>4. k = [p \in D |-> Step(k, p)]
    BY <2>3
  <2>. QED BY <2>4
<1>6. Evaluations(ctx) = CHOOSE e : e = [p \in D |-> Step(e, p)]
  BY DEF Evaluations, D, Step
<1>7. Evaluations(ctx) = [p \in D |-> Step(Evaluations(ctx), p)]
  BY <1>5, <1>6
<1>. QED BY <1>7 DEF D, Step

-----------------------------------------------------------------------------
(* Types *)

LEMMA ElementOfSeq == \A S : \A s \in Seq(S) : \A i \in DOMAIN s : s[i] \in S
OBVIOUS

(* Everything a body serves is checked. *)
LEMMA InChecked ==
  ASSUME NEW body
  PROVE  /\ body.off \in Checked(body)
         /\ \A t \in Range(body.targets) : t.variation \in Checked(body)
         /\ \A r \in Range(body.rules) : Variations(r.serve) \subseteq Checked(body)
         /\ Variations(body.fallthrough) \subseteq Checked(body)
<1>. DEFINE targets == {t.variation : t \in Range(body.targets)}
            rules == UNION {Variations(r.serve) : r \in Range(body.rules)}
<1>1. Checked(body) = {body.off} \cup targets \cup rules \cup Variations(body.fallthrough)
  BY DEF Checked
<1>2. \A t \in Range(body.targets) : t.variation \in targets
  OBVIOUS
<1>3. \A r \in Range(body.rules) : Variations(r.serve) \subseteq rules
  OBVIOUS
<1>. HIDE DEF targets, rules
<1>. QED BY <1>1, <1>2, <1>3

LEMMA DefaultAccepted ==
  /\ DefaultConfig \in FlagConfigs
  /\ \A f \in FlagKeys : Accepted(f, DefaultConfig)
<1>0. /\ None \notin Nat /\ MaxEntries \in Nat
      /\ VariationCount \in [FlagKeys -> Nat \ {0, 1}]
  BY EvaluationAssumption
<1>. USE <1>0 DEF DefaultConfig
<1>1. DefaultConfig.fallthrough \in Serves /\ None \notin Nat
  BY DEF Serves, Rollouts
<1>2. DefaultConfig \in FlagConfigs
  BY <1>1 DEF FlagConfigs
<1>3. WellFormed(DefaultConfig.fallthrough)
  BY <1>1 DEF WellFormed
<1>4. Range(<<>>) = {}
  BY DEF Range
<1>5. Checked(DefaultConfig) = {0}
  <2>. DEFINE targets == {t.variation : t \in Range(DefaultConfig.targets)}
              rules == UNION {Variations(rule.serve) : rule \in Range(DefaultConfig.rules)}
  <2>1. DefaultConfig.off = 0 /\ targets = {} /\ rules = {}
    BY <1>4
  <2>2. Variations(DefaultConfig.fallthrough) = {0}
    <3>1. {w.variation : w \in Range(DefaultConfig.fallthrough.rollout)} = {}
      BY <1>4
    <3>2. {DefaultConfig.fallthrough.variation} \ {None} = {0}
      BY <1>1
    <3>. QED BY <3>1, <3>2 DEF Variations
  <2>3. Checked(DefaultConfig) =
          {DefaultConfig.off} \cup targets \cup rules \cup Variations(DefaultConfig.fallthrough)
    BY DEF Checked
  <2>. HIDE DEF DefaultConfig, targets, rules
  <2>. QED BY <2>1, <2>2, <2>3
<1>6. \A f \in FlagKeys : 0 \in 0..(VariationCount[f] - 1)
  OBVIOUS
<1>. QED BY <1>2, <1>3, <1>4, <1>5, <1>6 DEF Accepted

LEMMA InitTypes == Init => TypeOK
BY DEF Init, TypeOK, Loaded

LEMMA NextTypes == TypeOK /\ [Next]_vars => TypeOK'
<1>. SUFFICES ASSUME TypeOK, [Next]_vars PROVE TypeOK'
  OBVIOUS
<1>. USE DEF TypeOK, Loaded
<1>1. ASSUME NEW f \in FlagKeys, NEW body \in FlagConfigs, Accepted(f, body),
             flags' = [flags EXCEPT ![f] = body], UNCHANGED segments
      PROVE  TypeOK'
  <2>1. /\ flags' \in [FlagKeys -> FlagConfigs \cup {None}]
        /\ \A g \in FlagKeys : flags'[g] = IF g = f THEN body ELSE flags[g]
    BY <1>1
  <2>2. \A g \in Loaded' : Accepted(g, flags'[g])
    BY <1>1, <2>1
  <2>. QED BY <1>1, <2>1, <2>2
<1>2. CASE \E f \in FlagKeys : CreateFlag(f)
  BY <1>1, <1>2, DefaultAccepted DEF CreateFlag
<1>3. CASE \E f \in FlagKeys : \E body \in FlagBodies[f] : UpdateFlagConfig(f, body)
  BY <1>1, <1>3, EvaluationAssumption DEF UpdateFlagConfig
<1>4. CASE \E s \in SegmentKeys : \E body \in SegmentBodies[s] :
             UpdateSegmentConfig(s, body)
  BY <1>4, EvaluationAssumption DEF UpdateSegmentConfig
<1>5. CASE UNCHANGED vars
  BY <1>5 DEF vars
<1>. QED BY <1>2, <1>3, <1>4, <1>5 DEF Next

-----------------------------------------------------------------------------
(* The index served *)

(* A well-formed serve yields one of the variations it refers to. *)
LEMMA ServedIsReferred ==
  ASSUME NEW serve \in Serves, WellFormed(serve), NEW f, NEW ctx
  PROVE  Served(f, serve, ctx) \in Variations(serve)
<1>1. CASE serve.variation # None
  BY <1>1 DEF Served, Variations
<1>2. CASE serve.variation = None
  <2>. DEFINE value == IF serve.kind \in Kinds THEN ctx[serve.kind] ELSE None
              n == Len(serve.rollout)
              is == {i \in 1..n : Hash[<<f, value>>] < Cumulative(serve.rollout, i)}
              i0 == Min(is \cup {n})
  <2>1. /\ serve.rollout \in Seq([variation : Nat, weight : 0..Whole])
        /\ serve.rollout # <<>>
    BY <1>2 DEF Serves, Rollouts, WellFormed
  <2>2. n \in Nat /\ n # 0 /\ DOMAIN serve.rollout = 1..n
    BY <2>1
  <2>3. is \cup {n} \in SUBSET (1..n) /\ is \cup {n} # {}
    BY <2>2
  <2>4. is \cup {n} \in SUBSET Nat
    BY <2>3
  <2>5. i0 \in 1..n
    BY <2>3, <2>4, MinIsLeast
  <2>6. serve.rollout[i0] \in Range(serve.rollout)
    BY <2>2, <2>5 DEF Range
  <2>7. Served(f, serve, ctx) = serve.rollout[i0].variation
    BY <1>2 DEF Served, BucketVariation
  <2>. QED BY <2>6, <2>7 DEF Variations
<1>. QED BY <1>1, <1>2

(* Whatever became of the prerequisites and the segments *)
LEMMA OutcomeInRange ==
  ASSUME TypeOK, NEW f \in Loaded, NEW ctx, NEW met, NEW member
  PROVE  Outcome(f, ctx, met, member).index \in 0..(VariationCount[f] - 1)
<1>. DEFINE cfg == flags[f]
            targets == {i \in DOMAIN cfg.targets :
                          /\ ctx[cfg.targets[i].kind] # None
                          /\ ctx[cfg.targets[i].kind] \in cfg.targets[i].keys}
            matches == [i \in DOMAIN cfg.rules |->
                          MatchClauses(cfg.rules[i].clauses, ctx, member)]
            rules == {i \in DOMAIN cfg.rules : matches[i] # "no"}
            InRange(result) == result.index \in 0..(VariationCount[f] - 1)
<1>1. f \in FlagKeys /\ cfg \in FlagConfigs /\ Accepted(f, cfg)
  BY DEF Loaded, TypeOK
<1>2. /\ cfg.fallthrough \in Serves
      /\ cfg.targets \in Seq([kind : Kinds, variation : Nat, keys : SUBSET Names])
      /\ cfg.rules \in Seq([clauses : Seq(Clauses), serve : Serves])
  BY <1>1 DEF FlagConfigs
<1>3. Checked(cfg) \subseteq 0..(VariationCount[f] - 1)
  BY <1>1 DEF Accepted
<1>4. \A reason : InRange(Result(cfg.off, reason))
  BY <1>3, InChecked DEF Result
<1>5. InRange(Overflow)
  BY <1>1, EvaluationAssumption DEF Overflow, Result
<1>6. ASSUME targets # {}
      PROVE  InRange(Result(cfg.targets[Min(targets)].variation, "TARGET_MATCH"))
  <2>1. targets \in SUBSET Nat /\ targets \subseteq DOMAIN cfg.targets
    BY <1>2
  <2>2. Min(targets) \in DOMAIN cfg.targets
    BY <1>6, <2>1, MinIsLeast
  <2>3. cfg.targets[Min(targets)] \in Range(cfg.targets)
    BY <2>2 DEF Range
  <2>. QED BY <1>3, <2>3, InChecked DEF Result
<1>7. \A reason : InRange(Result(Served(f, cfg.fallthrough, ctx), reason))
  <2>1. Served(f, cfg.fallthrough, ctx) \in Variations(cfg.fallthrough)
    BY <1>1, <1>2, ServedIsReferred DEF Accepted
  <2>2. Served(f, cfg.fallthrough, ctx) \in 0..(VariationCount[f] - 1)
    BY <1>3, <2>1, InChecked
  <2>. QED BY <2>2 DEF Result
<1>8. ASSUME rules # {}
      PROVE  InRange(Result(Served(f, cfg.rules[Min(rules)].serve, ctx), "RULE_MATCH"))
  <2>. DEFINE r == cfg.rules[Min(rules)]
  <2>1. rules \in SUBSET Nat /\ rules \subseteq DOMAIN cfg.rules
    BY <1>2
  <2>2. Min(rules) \in DOMAIN cfg.rules
    BY <1>8, <2>1, MinIsLeast
  <2>3. r \in Range(cfg.rules) /\ r.serve \in Serves
    <3>1. r \in Range(cfg.rules)
      BY <2>2 DEF Range
    <3>2. r \in [clauses : Seq(Clauses), serve : Serves]
      BY <1>2, <2>2, ElementOfSeq
    <3>. QED BY <3>1, <3>2
  <2>4. Served(f, r.serve, ctx) \in Variations(r.serve)
    BY <1>1, <2>3, ServedIsReferred DEF Accepted
  <2>. QED BY <1>3, <2>3, <2>4, InChecked DEF Result
<1>. QED BY <1>4, <1>5, <1>6, <1>7, <1>8 DEF Outcome

LEMMA ServesInRange == TypeOK => ServesExistingVariation
<1>. SUFFICES ASSUME TypeOK, NEW f \in Loaded, NEW ctx \in Contexts
              PROVE  Evaluate(f, ctx).index \in 0..(VariationCount[f] - 1)
  BY DEF ServesExistingVariation
<1>1. <<f, {}>> \in FlagKeys \X SUBSET FlagKeys
  BY DEF Loaded
<1>2. Evaluate(f, ctx) = Outcome(f, ctx, Met(f, {}, Evaluations(ctx)), Members(ctx))
  BY <1>1, EvaluationsDefined DEF Evaluate
<1>. QED BY <1>2, OutcomeInRange

-----------------------------------------------------------------------------
(* Prerequisites *)

(* The flags f depends on, directly or through others *)
Reach(f) == {g \in Loaded : Reaches(f, g)}

LEMMA ReachLaws ==
  ASSUME NEW f, NEW g \in DependsOn(f)
  PROVE  g \in Reach(f) /\ Reach(g) \subseteq Reach(f)
<1>1. g \in Loaded
  BY DEF DependsOn
<1>2. g \in Reach(f)
  BY <1>1 DEF Reach, Reaches
<1>3. ASSUME NEW h \in Loaded, Reaches(g, h)
      PROVE  Reaches(f, h)
  <2>. SUFFICES ASSUME NEW S \in SUBSET Loaded, DependsOn(f) \subseteq S,
                       \A x \in S : DependsOn(x) \subseteq S
                PROVE  h \in S
    BY DEF Reaches
  <2>1. DependsOn(g) \subseteq S
    OBVIOUS
  <2>. QED BY <1>3, <2>1 DEF Reaches
<1>. QED BY <1>2, <1>3 DEF Reach

(* Without cycles, a prerequisite depends on fewer flags. *)
LEMMA ReachShrinks ==
  ASSUME NEW f, NEW g \in DependsOn(f), ~OnCycle(g)
  PROVE  /\ Cardinality(Reach(f)) \in Nat /\ Cardinality(Reach(g)) \in Nat
         /\ Cardinality(Reach(g)) < Cardinality(Reach(f))
<1>1. IsFiniteSet(Loaded)
  BY EvaluationAssumption, FS_Subset DEF Loaded
<1>2. IsFiniteSet(Reach(f)) /\ IsFiniteSet(Reach(g))
  BY <1>1, FS_Subset DEF Reach
<1>3. g \in Reach(f) /\ g \notin Reach(g) /\ Reach(g) \subseteq Reach(f)
  BY ReachLaws DEF Reach, OnCycle
<1>4. Reach(g) \subseteq Reach(f) \ {g}
  BY <1>3
<1>5. Cardinality(Reach(f) \ {g}) = Cardinality(Reach(f)) - 1
  BY <1>2, <1>3, FS_RemoveElement
<1>6. Cardinality(Reach(g)) <= Cardinality(Reach(f) \ {g}) /\ IsFiniteSet(Reach(f) \ {g})
  BY <1>2, <1>4, FS_Subset
<1>7. Cardinality(Reach(f)) \in Nat /\ Cardinality(Reach(g)) \in Nat
  BY <1>2, FS_CardinalityType
<1>. QED BY <1>5, <1>6, <1>7

(* evaluate's value at a flag and the flags being visited *)
LEMMA EvaluationAt ==
  ASSUME NEW ctx, NEW f \in FlagKeys, NEW visiting \in SUBSET FlagKeys
  PROVE  Evaluations(ctx)[<<f, visiting>>] =
           Outcome(f, ctx, Met(f, visiting, Evaluations(ctx)), Members(ctx))
<1>1. <<f, visiting>> \in FlagKeys \X SUBSET FlagKeys
  OBVIOUS
<1>. QED BY <1>1, EvaluationsDefined

(***************************************************************************)
(* The guard against cycles does not disturb a flag that depends on none   *)
(* of those being visited.                                                 *)
(***************************************************************************)
LEMMA VisitingIrrelevant ==
  ASSUME \A f \in Loaded : ~OnCycle(f), NEW ctx
  PROVE  \A f \in Loaded, visiting \in SUBSET FlagKeys :
           visiting \cap Reach(f) = {} =>
             Evaluations(ctx)[<<f, visiting>>] = Evaluations(ctx)[<<f, {}>>]
<1>. DEFINE E == Evaluations(ctx)
            Same(f) == \A visiting \in SUBSET FlagKeys :
                         visiting \cap Reach(f) = {} => E[<<f, visiting>>] = E[<<f, {}>>]
            Bad == {n \in Nat : \E f \in Loaded : Cardinality(Reach(f)) = n /\ ~Same(f)}
<1>0. Loaded \subseteq FlagKeys
  BY DEF Loaded
<1>1. ASSUME NEW f \in Loaded, \A g \in DependsOn(f) : Same(g)
      PROVE  Same(f)
  <2>. SUFFICES ASSUME NEW visiting \in SUBSET FlagKeys, visiting \cap Reach(f) = {}
                PROVE  E[<<f, visiting>>] = E[<<f, {}>>]
    OBVIOUS
  <2>. DEFINE required == flags[f].prerequisites
              test(V, i) ==
                LET g == required[i].flag IN
                IF g \notin Loaded \/ g \in V THEN "no"
                ELSE Holds(required[i], E[<<g, Visiting(required, i, V)>>])
  <2>1. ASSUME NEW i \in DOMAIN required
        PROVE  test(visiting, i) = test({}, i)
    <3>. DEFINE g == required[i].flag
    <3>1. CASE g \notin Loaded
      BY <3>1
    <3>2. CASE g \in Loaded
      <4>1. g \in DependsOn(f)
        BY <3>2 DEF DependsOn, Range
      <4>2. g \in Reach(f) /\ Reach(g) \subseteq Reach(f) /\ g \notin Reach(g)
        BY <3>2, <4>1, ReachLaws DEF Reach, OnCycle
      <4>3. /\ visiting \cup {g} \in SUBSET FlagKeys /\ (visiting \cup {g}) \cap Reach(g) = {}
            /\ {} \cup {g} \in SUBSET FlagKeys /\ ({} \cup {g}) \cap Reach(g) = {}
        BY <1>0, <3>2, <4>2
      <4>4. E[<<g, visiting \cup {g}>>] = E[<<g, {} \cup {g}>>]
        BY <1>1, <4>1, <4>3
      <4>5. g \notin visiting
        BY <4>2
      <4>. QED BY <3>2, <4>4, <4>5 DEF Visiting
    <3>. QED BY <3>1, <3>2
  <2>2. [i \in DOMAIN required |-> test(visiting, i)] = [i \in DOMAIN required |-> test({}, i)]
    BY <2>1
  <2>3. Met(f, visiting, E) = Met(f, {}, E)
    BY <2>2 DEF Met
  <2>. QED BY <1>0, <2>3, EvaluationAt
<1>2. ASSUME NEW f \in Loaded
      PROVE  Cardinality(Reach(f)) \in Nat
  BY EvaluationAssumption, <1>0, FS_Subset, FS_CardinalityType DEF Reach
<1>. HIDE DEF Same
<1>3. Bad = {}
  <2>. SUFFICES ASSUME Bad # {} PROVE FALSE
    OBVIOUS
  <2>1. PICK n \in Bad : \A m \in Bad : n <= m
    BY LeastNat
  <2>2. PICK f \in Loaded : Cardinality(Reach(f)) = n /\ ~Same(f)
    BY <2>1
  <2>3. ASSUME NEW g \in DependsOn(f)
        PROVE  Same(g)
    <3>1. g \in Loaded
      BY DEF DependsOn
    <3>2. Cardinality(Reach(g)) \in Nat /\ Cardinality(Reach(g)) < n
      BY <2>2, <3>1, ReachShrinks
    <3>3. Cardinality(Reach(g)) \notin Bad
      BY <2>1, <3>2
    <3>. QED BY <3>1, <3>2, <3>3
  <2>. QED BY <1>1, <2>2, <2>3
<1>4. \A f \in Loaded : Same(f)
  BY <1>2, <1>3
<1>. QED BY <1>4 DEF Same

(* A sequence of tests ends at the first that does not say yes. *)
LEMMA EveryLaws ==
  ASSUME NEW results, DOMAIN results \in SUBSET Nat
  PROVE  \/ Every(results) = "yes" /\ \A i \in DOMAIN results : results[i] = "yes"
         \/ /\ Every(results) # "yes"
            /\ \E i \in DOMAIN results : Every(results) = results[i]
<1>. DEFINE is == {i \in DOMAIN results : results[i] # "yes"}
<1>1. CASE is = {}
  BY <1>1 DEF Every, FirstNot
<1>2. CASE is # {}
  <2>1. is \in SUBSET Nat
    OBVIOUS
  <2>2. Min(is) \in is
    BY <1>2, <2>1, MinIsLeast
  <2>3. Every(results) = results[Min(is)]
    BY <1>2 DEF Every, FirstNot
  <2>. QED BY <2>2, <2>3
<1>. QED BY <1>1, <1>2

(* An enabled flag answers "PREREQUISITE_FAILED" for that reason alone. *)
LEMMA FailureReason ==
  ASSUME NEW f, flags[f].enabled, NEW ctx, NEW met, NEW member, met # "overflow"
  PROVE  Outcome(f, ctx, met, member).reason = "PREREQUISITE_FAILED" <=> met = "no"
<1>1. \A index, reason : Result(index, reason).reason = reason
  BY DEF Result
<1>2. Overflow.reason = "OVERFLOW"
  BY <1>1 DEF Overflow
<1>3. CASE met = "no"
  BY <1>1, <1>3 DEF Outcome
<1>4. CASE met # "no"
  <2>1. Outcome(f, ctx, met, member).reason
          \in {"OVERFLOW", "TARGET_MATCH", "FALLTHROUGH", "RULE_MATCH"}
    BY <1>1, <1>2, <1>4 DEF Outcome
  <2>. QED BY <1>4, <2>1
<1>. QED BY <1>3, <1>4

LEMMA PrerequisitesMean == TypeOK => PrerequisitesMeanTheirFlags
<1>. SUFFICES ASSUME TypeOK, \A f \in Loaded : ~OnCycle(f),
                     NEW f \in Loaded, NEW ctx \in Contexts,
                     flags[f].enabled, Evaluate(f, ctx) # Overflow
              PROVE  Evaluate(f, ctx).reason = "PREREQUISITE_FAILED" <=>
                       \E p \in Range(flags[f].prerequisites) : ~Satisfied(p, ctx)
  BY DEF PrerequisitesMeanTheirFlags
<1>. DEFINE E == Evaluations(ctx)
            required == flags[f].prerequisites
            test(i) ==
              LET g == required[i].flag IN
              IF g \notin Loaded \/ g \in {} THEN "no"
              ELSE Holds(required[i], E[<<g, Visiting(required, i, {})>>])
            results == [i \in DOMAIN required |-> test(i)]
            met == Met(f, {}, E)
<1>0. f \in FlagKeys /\ flags[f] \in FlagConfigs /\ Loaded \subseteq FlagKeys
  BY DEF Loaded, TypeOK
<1>1. DOMAIN required \in SUBSET Nat
  BY <1>0 DEF FlagConfigs
<1>2. met = Every(results)
  BY DEF Met
<1>3. Evaluate(f, ctx) = Outcome(f, ctx, met, Members(ctx))
  BY <1>0, EvaluationAt DEF Evaluate
<1>4. met # "overflow"
  BY <1>3 DEF Outcome
<1>5. Evaluate(f, ctx).reason = "PREREQUISITE_FAILED" <=> met = "no"
  BY <1>3, <1>4, FailureReason
<1>6. ASSUME NEW i \in DOMAIN required, required[i].flag \in Loaded
      PROVE  test(i) = Holds(required[i], Evaluate(required[i].flag, ctx))
  <2>. DEFINE g == required[i].flag
  <2>1. {} \cup {g} \in SUBSET FlagKeys /\ ({} \cup {g}) \cap Reach(g) = {}
    BY <1>0, <1>6 DEF Reach, OnCycle
  <2>2. E[<<g, {} \cup {g}>>] = E[<<g, {}>>]
    BY <1>6, <2>1, VisitingIrrelevant
  <2>. QED BY <1>6, <2>2 DEF Visiting, Evaluate
<1>7. ASSUME NEW i \in DOMAIN required
      PROVE  /\ test(i) = "yes" => Satisfied(required[i], ctx)
             /\ test(i) = "no" => ~Satisfied(required[i], ctx)
             /\ test(i) \in {"yes", "no", "overflow"}
  BY <1>6 DEF Holds, Satisfied
<1>. HIDE DEF test
<1>8. \A i \in DOMAIN required : results[i] = test(i)
  OBVIOUS
<1>9. \/ met = "yes" /\ \A i \in DOMAIN required : test(i) = "yes"
      \/ met # "yes" /\ \E i \in DOMAIN required : met = test(i)
  <2>. HIDE DEF results, met
  <2>1. DOMAIN results = DOMAIN required
    BY DEF results
  <2>. QED BY <1>1, <1>2, <1>8, <2>1, EveryLaws
<1>. QED BY <1>4, <1>5, <1>7, <1>9 DEF Range

-----------------------------------------------------------------------------
(* Rollouts *)

(* WeightUpTo adds up the weights. *)
LEMMA WeightLaws ==
  ASSUME NEW r \in Rollouts
  PROVE  /\ WeightUpTo(r, 0) = 0
         /\ \A j \in 1..Len(r) : WeightUpTo(r, j) = WeightUpTo(r, j - 1) + r[j].weight
<1>. DEFINE n == Len(r)
            Step(g, j) == IF j = 0 THEN 0 ELSE g[j - 1] + r[j].weight
            Solves(g, m) == \A j \in 0..n : j < m => g[j] = Step(g, j)
            Unsolved == {m \in Nat : ~ \E g : Solves(g, m)}
<1>0. n \in Nat
  BY DEF Rollouts
<1>1. ASSUME NEW j \in 0..n, NEW g, NEW h, \A i \in 0..n : i < j => g[i] = h[i]
      PROVE  Step(g, j) = Step(h, j)
  <2>1. CASE j = 0
    BY <2>1
  <2>2. CASE j # 0
    <3>1. j - 1 \in 0..n /\ j - 1 < j
      BY <1>0, <2>2
    <3>. QED BY <1>1, <2>2, <3>1
  <2>. QED BY <2>1, <2>2
<1>. HIDE DEF Step, n
<1>2. Unsolved = {}
  <2>. SUFFICES ASSUME Unsolved # {} PROVE FALSE
    OBVIOUS
  <2>1. PICK m \in Unsolved : \A k \in Unsolved : m <= k
    BY LeastNat
  <2>2. m # 0
    BY <1>0
  <2>3. m - 1 \in Nat /\ m - 1 \notin Unsolved
    BY <2>1, <2>2
  <2>4. PICK g : Solves(g, m - 1)
    BY <2>3
  <2>. DEFINE h == [j \in 0..n |-> IF j < m - 1 THEN g[j] ELSE Step(g, j)]
  <2>5. ASSUME NEW j \in 0..n, j < m
        PROVE  h[j] = Step(h, j)
    <3>1. h[j] = Step(g, j)
      BY <2>4
    <3>2. \A i \in 0..n : i < j => g[i] = h[i]
      BY <1>0, <2>3, <2>5
    <3>. QED BY <1>1, <3>1, <3>2
  <2>6. Solves(h, m)
    BY <2>5
  <2>. QED BY <2>1, <2>6
<1>3. \E g : g = [j \in 0..n |-> Step(g, j)]
  <2>0. \A m \in Nat : \E g : Solves(g, m)
    <3>. HIDE DEF Solves
    <3>. QED BY <1>2
  <2>1. PICK h : Solves(h, n + 1)
    <3>. HIDE DEF Solves
    <3>1. n + 1 \in Nat
      BY <1>0
    <3>. QED BY <2>0, <3>1
  <2>. DEFINE k == [j \in 0..n |-> h[j]]
  <2>2. ASSUME NEW j \in 0..n
        PROVE  k[j] = Step(k, j)
    <3>1. h[j] = Step(h, j)
      BY <1>0, <2>1
    <3>2. Step(h, j) = Step(k, j)
      BY <1>1
    <3>. QED BY <3>1, <3>2
  <2>3. k = [j \in 0..n |-> Step(k, j)]
    BY <2>2
  <2>. QED BY <2>3
<1>. DEFINE sum == CHOOSE g : g = [j \in 0..n |-> Step(g, j)]
<1>4. \A i : WeightUpTo(r, i) = sum[i]
  BY DEF WeightUpTo, n, Step
<1>5. sum = [j \in 0..n |-> Step(sum, j)]
  BY <1>3
<1>. HIDE DEF sum
<1>6. sum[0] = 0
  BY <1>0, <1>5 DEF Step
<1>7. ASSUME NEW j \in 1..n
      PROVE  sum[j] = sum[j - 1] + r[j].weight
  BY <1>0, <1>5 DEF Step
<1>. QED BY <1>4, <1>6, <1>7 DEF n

(* ... so that the sums grow. *)
LEMMA WeightGrows ==
  ASSUME NEW r \in Rollouts
  PROVE  /\ \A j \in 0..Len(r) : WeightUpTo(r, j) \in Nat
         /\ \A j, m \in 0..Len(r) : j <= m => WeightUpTo(r, j) <= WeightUpTo(r, m)
<1>. DEFINE W(j) == WeightUpTo(r, j)
            Bad == {m \in 0..Len(r) :
                      ~ (W(m) \in Nat /\ \A j \in 0..m : W(j) <= W(m))}
<1>0. Len(r) \in Nat /\ \A j \in 1..Len(r) : r[j].weight \in Nat
  <2>1. \A j \in DOMAIN r : r[j] \in [variation : Nat, weight : 0..Whole]
    BY ElementOfSeq DEF Rollouts
  <2>2. Len(r) \in Nat /\ DOMAIN r = 1..Len(r)
    BY DEF Rollouts
  <2>. QED BY <2>1, <2>2, EvaluationAssumption
<1>1. W(0) = 0 /\ \A j \in 1..Len(r) : W(j) = W(j - 1) + r[j].weight
  BY WeightLaws
<1>. HIDE DEF W
<1>2. Bad = {}
  <2>. SUFFICES ASSUME Bad # {} PROVE FALSE
    OBVIOUS
  <2>1. Bad \in SUBSET Nat
    BY <1>0
  <2>2. PICK m \in Bad : \A k \in Bad : m <= k
    BY <2>1, LeastNat
  <2>3. m # 0
    BY <1>1
  <2>4. m \in 1..Len(r) /\ m - 1 \in 0..Len(r) /\ m - 1 \notin Bad
    BY <1>0, <2>2, <2>3
  <2>5. W(m - 1) \in Nat /\ \A j \in 0..(m - 1) : W(j) <= W(m - 1)
    BY <2>4
  <2>6. W(m) = W(m - 1) + r[m].weight /\ r[m].weight \in Nat
    BY <1>0, <1>1, <2>4
  <2>7. \A j \in 0..(m - 1) : W(j) \in Nat
    BY <1>0, <2>2, <2>4
  <2>8. ASSUME NEW j \in 0..m
        PROVE  W(j) <= W(m)
    <3>1. CASE j = m
      BY <2>5, <2>6, <3>1
    <3>2. CASE j \in 0..(m - 1)
      BY <2>5, <2>6, <2>7, <3>2
    <3>. QED BY <2>4, <3>1, <3>2
  <2>. QED BY <2>2, <2>5, <2>6, <2>8
<1>3. \A m \in 0..Len(r) : W(m) \in Nat /\ \A j \in 0..m : W(j) <= W(m)
  BY <1>2
<1>. QED BY <1>0, <1>3 DEF W

(* Cumulative adds up their shares, rounding each sum. *)
LEMMA CumulativeLaws ==
  ASSUME NEW r \in Rollouts
  PROVE  /\ Cumulative(r, 0) = 0
         /\ \A j \in 1..Len(r) :
              Cumulative(r, j) = Round[Cumulative(r, j - 1) + Share(r[j].weight)]
<1>. DEFINE n == Len(r)
            Step(g, j) == IF j = 0 THEN 0 ELSE Round[g[j - 1] + Share(r[j].weight)]
            Solves(g, m) == \A j \in 0..n : j < m => g[j] = Step(g, j)
            Unsolved == {m \in Nat : ~ \E g : Solves(g, m)}
<1>0. n \in Nat
  BY DEF Rollouts
<1>1. ASSUME NEW j \in 0..n, NEW g, NEW h, \A i \in 0..n : i < j => g[i] = h[i]
      PROVE  Step(g, j) = Step(h, j)
  <2>1. CASE j = 0
    BY <2>1
  <2>2. CASE j # 0
    <3>1. j - 1 \in 0..n /\ j - 1 < j
      BY <1>0, <2>2
    <3>. QED BY <1>1, <2>2, <3>1
  <2>. QED BY <2>1, <2>2
<1>. HIDE DEF Step, n
<1>2. Unsolved = {}
  <2>. SUFFICES ASSUME Unsolved # {} PROVE FALSE
    OBVIOUS
  <2>1. PICK m \in Unsolved : \A k \in Unsolved : m <= k
    BY LeastNat
  <2>2. m # 0
    BY <1>0
  <2>3. m - 1 \in Nat /\ m - 1 \notin Unsolved
    BY <2>1, <2>2
  <2>4. PICK g : Solves(g, m - 1)
    BY <2>3
  <2>. DEFINE h == [j \in 0..n |-> IF j < m - 1 THEN g[j] ELSE Step(g, j)]
  <2>5. ASSUME NEW j \in 0..n, j < m
        PROVE  h[j] = Step(h, j)
    <3>1. h[j] = Step(g, j)
      BY <2>4
    <3>2. \A i \in 0..n : i < j => g[i] = h[i]
      BY <1>0, <2>3, <2>5
    <3>. QED BY <1>1, <3>1, <3>2
  <2>6. Solves(h, m)
    BY <2>5
  <2>. QED BY <2>1, <2>6
<1>3. \E g : g = [j \in 0..n |-> Step(g, j)]
  <2>0. \A m \in Nat : \E g : Solves(g, m)
    <3>. HIDE DEF Solves
    <3>. QED BY <1>2
  <2>1. PICK h : Solves(h, n + 1)
    <3>. HIDE DEF Solves
    <3>1. n + 1 \in Nat
      BY <1>0
    <3>. QED BY <2>0, <3>1
  <2>. DEFINE k == [j \in 0..n |-> h[j]]
  <2>2. ASSUME NEW j \in 0..n
        PROVE  k[j] = Step(k, j)
    <3>1. h[j] = Step(h, j)
      BY <1>0, <2>1
    <3>2. Step(h, j) = Step(k, j)
      BY <1>1
    <3>. QED BY <3>1, <3>2
  <2>3. k = [j \in 0..n |-> Step(k, j)]
    BY <2>2
  <2>. QED BY <2>3
<1>. DEFINE sum == CHOOSE g : g = [j \in 0..n |-> Step(g, j)]
<1>4. \A i : Cumulative(r, i) = sum[i]
  BY DEF Cumulative, n, Step
<1>5. sum = [j \in 0..n |-> Step(sum, j)]
  BY <1>3
<1>. HIDE DEF sum
<1>6. sum[0] = 0
  BY <1>0, <1>5 DEF Step
<1>7. ASSUME NEW j \in 1..n
      PROVE  sum[j] = Round[sum[j - 1] + Share(r[j].weight)]
  BY <1>0, <1>5 DEF Step
<1>. QED BY <1>4, <1>6, <1>7 DEF n

LEMMA Times ==
  /\ \A x, y, z \in Nat : (x + y) * z = x * z + y * z
  /\ \A x, y \in Nat : x * y \in Nat
OBVIOUS

LEMMA TimesGrows == \A x, y, z \in Nat : x <= y => x * z <= y * z
<1>. SUFFICES ASSUME NEW x \in Nat, NEW y \in Nat, NEW z \in Nat, x <= y
              PROVE  x * z <= y * z
  OBVIOUS
<1>1. y - x \in Nat /\ x + (y - x) = y
  OBVIOUS
<1>2. (x + (y - x)) * z = x * z + (y - x) * z
  BY <1>1, Times
<1>3. x * z \in Nat /\ (y - x) * z \in Nat
  BY <1>1, Times
<1>. QED BY <1>1, <1>2, <1>3

(* what the rounding may have added to, or taken from, a sum of j shares *)
Off(j) == 2 * (j * Slack)

LEMMA OffLaws ==
  /\ Off(0) = 0
  /\ \A j \in 1..MaxEntries : Off(j) = Off(j - 1) + 2 * Slack
  /\ \A j \in 0..MaxEntries : Off(j) \in Nat /\ 2 * Off(j) <= Unit
<1>. USE EvaluationAssumption
<1>1. Off(0) = 0
  BY DEF Off
<1>2. ASSUME NEW j \in 1..MaxEntries
      PROVE  Off(j) = Off(j - 1) + 2 * Slack
  <2>1. j - 1 \in Nat /\ (j - 1) + 1 = j
    OBVIOUS
  <2>2. ((j - 1) + 1) * Slack = (j - 1) * Slack + 1 * Slack
    BY <2>1, Times
  <2>3. (j - 1) * Slack \in Nat
    BY <2>1, Times
  <2>. QED BY <2>1, <2>2, <2>3 DEF Off
<1>3. ASSUME NEW j \in 0..MaxEntries
      PROVE  Off(j) \in Nat /\ 2 * Off(j) <= Unit
  <2>1. j * Slack \in Nat /\ MaxEntries * Slack \in Nat
    BY Times
  <2>2. j * Slack <= MaxEntries * Slack
    BY TimesGrows
  <2>3. MaxEntries * Slack = Slack * MaxEntries
    OBVIOUS
  <2>4. PICK x, y, u \in Nat : x = j * Slack /\ y = Slack * MaxEntries /\ u = Unit
    BY <2>1, <2>3
  <2>5. x <= y /\ 4 * y <= u
    BY <2>2, <2>3, <2>4
  <2>6. 2 * x \in Nat /\ 2 * (2 * x) <= u
    BY <2>5
  <2>. QED BY <2>4, <2>6 DEF Off
<1>. QED BY <1>1, <1>2, <1>3

LEMMA RoundLaws ==
  /\ \A x \in Numbers : Round[x] \in Numbers /\ Round[Round[x]] = Round[x]
  /\ \A x \in Numbers : x <= Round[x] + Slack /\ Round[x] <= x + Slack
  /\ \A x, y \in Numbers : x <= y => Round[x] <= Round[y]
  /\ Numbers \subseteq Nat
BY EvaluationAssumption DEF Numbers

(***************************************************************************)
(* A sum of float64s is near the exact one, so no sum or share leaves      *)
(* Numbers, and it does not shrink as entries are added.                   *)
(***************************************************************************)
LEMMA CumulativeNear ==
  ASSUME NEW r \in Rollouts, WeightUpTo(r, Len(r)) = Whole
  PROVE  /\ \A j \in 0..Len(r) :
              /\ Cumulative(r, j) \in Numbers
              /\ WeightUpTo(r, j) * Unit <= Cumulative(r, j) + Off(j)
              /\ Cumulative(r, j) <= WeightUpTo(r, j) * Unit + Off(j)
         /\ \A j \in 1..Len(r) :
              /\ r[j].weight * Unit \in Numbers
              /\ Share(r[j].weight) \in Numbers
              /\ Cumulative(r, j - 1) + Share(r[j].weight) \in Numbers
              /\ Cumulative(r, j - 1) <= Cumulative(r, j)
<1>. DEFINE n == Len(r)
            W(j) == WeightUpTo(r, j)
            P(j) == W(j) * Unit
            C(j) == Cumulative(r, j)
            S(j) == Share(r[j].weight)
            All == Whole * Unit
            Near(j) == C(j) \in Numbers /\ P(j) <= C(j) + Off(j) /\ C(j) <= P(j) + Off(j)
            Bad == {j \in 0..n : ~ Near(j)}
<1>1. /\ n \in Nat /\ n <= MaxEntries /\ MaxEntries \in Nat /\ Slack \in Nat
      /\ \A j \in 1..n : r[j].weight \in 0..Whole
  <2>1. \A j \in DOMAIN r : r[j] \in [variation : Nat, weight : 0..Whole]
    BY ElementOfSeq DEF Rollouts
  <2>2. n \in Nat /\ n <= MaxEntries /\ DOMAIN r = 1..n
    BY DEF Rollouts
  <2>. QED BY <2>1, <2>2, EvaluationAssumption
<1>2. /\ Unit \in Nat /\ Whole \in Nat /\ All \in Nat /\ Unit <= All
      /\ Numbers = 0..(2 * All)
  <2>1. Unit \in Nat /\ Whole \in Nat /\ 1 <= Whole /\ 1 * Unit = Unit
    BY EvaluationAssumption
  <2>2. All \in Nat
    BY <2>1, Times
  <2>3. 1 * Unit <= All
    BY <2>1, TimesGrows
  <2>. QED BY <2>1, <2>2, <2>3 DEF Numbers
<1>3. /\ \A j \in 0..n : W(j) \in Nat /\ W(j) <= Whole
      /\ W(0) = 0 /\ \A j \in 1..n : W(j) = W(j - 1) + r[j].weight
  BY <1>1, WeightGrows, WeightLaws
<1>4. \A j \in 0..n : P(j) \in Nat /\ P(j) <= All
  BY <1>2, <1>3, Times, TimesGrows
<1>5. \A j \in 1..n : /\ r[j].weight * Unit \in Nat
                      /\ P(j) = P(j - 1) + r[j].weight * Unit
  <2>. SUFFICES ASSUME NEW j \in 1..n
                PROVE  /\ r[j].weight * Unit \in Nat
                       /\ P(j) = P(j - 1) + r[j].weight * Unit
    OBVIOUS
  <2>1. /\ W(j - 1) \in Nat /\ r[j].weight \in Nat
        /\ W(j) = W(j - 1) + r[j].weight
    BY <1>1, <1>3
  <2>2. (W(j - 1) + r[j].weight) * Unit = W(j - 1) * Unit + r[j].weight * Unit
    BY <1>2, <2>1, Times
  <2>. QED BY <1>2, <2>1, <2>2, Times
<1>6. /\ C(0) = 0
      /\ \A j \in 1..n : C(j) = Round[C(j - 1) + S(j)]
  BY CumulativeLaws
<1>. HIDE DEF n, W, P, All
<1>7. ASSUME NEW j \in 1..n
      PROVE  /\ r[j].weight * Unit \in Numbers /\ S(j) = Round[r[j].weight * Unit]
             /\ S(j) \in Numbers
             /\ r[j].weight * Unit <= S(j) + Slack /\ S(j) <= r[j].weight * Unit + Slack
  <2>0. j - 1 \in 0..n /\ j \in 0..n
    BY <1>1
  <2>1. r[j].weight * Unit \in Numbers
    <3>1. /\ P(j) = P(j - 1) + r[j].weight * Unit /\ P(j) <= All
          /\ P(j - 1) \in Nat /\ P(j) \in Nat /\ r[j].weight * Unit \in Nat
      BY <1>4, <1>5, <2>0
    <3>2. PICK x : x = r[j].weight * Unit
      OBVIOUS
    <3>3. x \in 0..(2 * All)
      BY <1>2, <3>1, <3>2
    <3>. QED BY <1>2, <3>2, <3>3
  <2>. QED BY <2>1, RoundLaws DEF Share
<1>8. /\ Off(0) = 0
      /\ \A j \in 1..n : Off(j) = Off(j - 1) + 2 * Slack
      /\ \A j \in 0..n : Off(j) \in Nat /\ 2 * Off(j) <= Unit
  BY <1>1, OffLaws
<1>. HIDE DEF C, S
<1>9. ASSUME NEW j \in 1..n, Near(j - 1)
      PROVE  Near(j) /\ C(j - 1) + S(j) \in Numbers
  <2>. DEFINE x == r[j].weight * Unit
  <2>0. j - 1 \in 0..n /\ j \in 0..n
    BY <1>1
  <2>1. /\ C(j - 1) \in Nat /\ S(j) \in Nat /\ P(j) \in Nat /\ P(j - 1) \in Nat
        /\ Off(j) \in Nat /\ Off(j - 1) \in Nat /\ P(j) <= All /\ 2 * Off(j) <= Unit
        /\ x \in Nat /\ P(j) = P(j - 1) + x
        /\ Off(j) = Off(j - 1) + 2 * Slack
        /\ x <= S(j) + Slack /\ S(j) <= x + Slack
        /\ P(j - 1) <= C(j - 1) + Off(j - 1) /\ C(j - 1) <= P(j - 1) + Off(j - 1)
    <3>1. Numbers \subseteq Nat
      BY RoundLaws
    <3>2. /\ C(j - 1) \in Nat
          /\ P(j - 1) <= C(j - 1) + Off(j - 1) /\ C(j - 1) <= P(j - 1) + Off(j - 1)
      BY <1>9, <3>1
    <3>3. S(j) \in Nat /\ x <= S(j) + Slack /\ S(j) <= x + Slack
      BY <1>7, <3>1
    <3>4. /\ P(j) \in Nat /\ P(j - 1) \in Nat /\ P(j) <= All
          /\ x \in Nat /\ P(j) = P(j - 1) + x
      BY <1>4, <1>5, <2>0
    <3>5. /\ Off(j) \in Nat /\ Off(j - 1) \in Nat /\ 2 * Off(j) <= Unit
          /\ Off(j) = Off(j - 1) + 2 * Slack
      BY <1>8, <2>0
    <3>. QED BY <3>2, <3>3, <3>4, <3>5
  <2>. HIDE DEF x
  <2>. DEFINE Around(c, w, p, q, y, d, e, k) ==
                /\ c <= q + e /\ q <= c + e /\ w <= y + k /\ y <= w + k
                /\ p = q + y /\ d = e + 2 * k
  <2>2. PICK c, w, p, q, y, d, e, k, u, m \in Nat :
           /\ c = C(j - 1) /\ w = S(j) /\ p = P(j) /\ q = P(j - 1) /\ y = x
           /\ d = Off(j) /\ e = Off(j - 1) /\ k = Slack /\ u = Unit /\ m = All
    BY <1>1, <1>2, <2>1
  <2>3. Around(c, w, p, q, y, d, e, k) /\ p <= m /\ 2 * d <= u /\ u <= m
    BY <1>2, <2>1, <2>2
  <2>4. C(j - 1) + S(j) \in Numbers
    <3>1. c + w \in 0..(2 * m)
      BY <2>3
    <3>. QED BY <1>2, <2>2, <3>1
  <2>5. /\ C(j) \in Numbers
        /\ C(j - 1) + S(j) <= C(j) + Slack /\ C(j) <= C(j - 1) + S(j) + Slack
    BY <1>6, <2>4, RoundLaws
  <2>6. C(j) \in Nat
    BY <2>5, RoundLaws
  <2>7. P(j) <= C(j) + Off(j) /\ C(j) <= P(j) + Off(j)
    <3>1. PICK z \in Nat : z = C(j)
      BY <2>6
    <3>2. c + w <= z + k /\ z <= c + w + k
      BY <2>2, <2>5, <3>1
    <3>3. p <= z + d /\ z <= p + d
      BY <2>3, <3>2
    <3>. QED BY <2>2, <3>1, <3>3
  <2>. QED BY <2>4, <2>5, <2>7
<1>10. Near(0)
  <2>1. 0 \in 0..n /\ 0 \in Numbers /\ W(0) = 0
    BY <1>1, <1>2, <1>3
  <2>2. P(0) = 0
    BY <1>2, <2>1 DEF P
  <2>. QED BY <1>6, <1>8, <2>1, <2>2
<1>11. Bad = {}
  <2>. SUFFICES ASSUME Bad # {} PROVE FALSE
    OBVIOUS
  <2>. HIDE DEF Near
  <2>0. Bad \in SUBSET Nat
    BY <1>1
  <2>1. PICK j \in Bad : \A k \in Bad : j <= k
    BY <2>0, LeastNat
  <2>2. j # 0
    BY <1>10, <2>1
  <2>3. j \in 1..n /\ j - 1 \in 0..n /\ j - 1 \notin Bad
    BY <1>1, <2>1, <2>2
  <2>. QED BY <1>9, <2>1, <2>3
<1>12. \A j \in 0..n : Near(j)
  <2>. HIDE DEF Near
  <2>. QED BY <1>11
<1>13. ASSUME NEW j \in 1..n
       PROVE  C(j - 1) + S(j) \in Numbers /\ C(j - 1) <= C(j)
  <2>1. j - 1 \in 0..n
    BY <1>1
  <2>2. C(j - 1) \in Numbers /\ C(j - 1) + S(j) \in Numbers
    BY <1>9, <1>12, <2>1
  <2>3. C(j - 1) <= C(j - 1) + S(j)
    BY <1>2, <1>7, <2>2
  <2>4. CASE j = 1
    <3>1. j \in 0..n
      BY <1>1
    <3>2. C(j) \in Nat
      BY <1>12, <3>1, RoundLaws
    <3>. QED BY <1>6, <2>2, <2>4, <3>2
  <2>5. CASE j # 1
    <3>1. j - 1 \in 1..n /\ (j - 1) - 1 \in 0..n
      BY <1>1, <2>5
    <3>2. C(j - 1) = Round[C((j - 1) - 1) + S(j - 1)]
      BY <1>6, <3>1
    <3>3. C((j - 1) - 1) + S(j - 1) \in Numbers
      BY <1>9, <1>12, <3>1
    <3>4. Round[C(j - 1)] = C(j - 1)
      BY <3>2, <3>3, RoundLaws
    <3>5. Round[C(j - 1)] <= Round[C(j - 1) + S(j)]
      BY <2>2, <2>3, RoundLaws
    <3>. QED BY <1>6, <2>2, <3>4, <3>5
  <2>. QED BY <2>4, <2>5
<1>. QED BY <1>7, <1>12, <1>13 DEF n, W, P, C, S

(* ... so that the sums grow. *)
LEMMA CumulativeGrows ==
  ASSUME NEW r \in Rollouts, WeightUpTo(r, Len(r)) = Whole,
         NEW k \in 0..Len(r), NEW j \in 0..k
  PROVE  Cumulative(r, j) <= Cumulative(r, k)
<1>. DEFINE C(m) == Cumulative(r, m)
            Bad == {m \in 0..Len(r) : \E i \in 0..m : ~ (C(i) <= C(m))}
<1>1. /\ Len(r) \in Nat
      /\ \A m \in 0..Len(r) : C(m) \in Nat
      /\ \A m \in 1..Len(r) : C(m - 1) <= C(m)
  <2>1. Len(r) \in Nat
    BY DEF Rollouts
  <2>2. \A m \in 0..Len(r) : C(m) \in Numbers
    BY CumulativeNear
  <2>3. \A m \in 1..Len(r) : C(m - 1) <= C(m)
    BY CumulativeNear
  <2>. QED BY <2>1, <2>2, <2>3, RoundLaws
<1>. HIDE DEF C
<1>2. Bad = {}
  <2>. SUFFICES ASSUME Bad # {} PROVE FALSE
    OBVIOUS
  <2>0. Bad \in SUBSET Nat
    BY <1>1
  <2>1. PICK m \in Bad : \A l \in Bad : m <= l
    BY <2>0, LeastNat
  <2>2. PICK i \in 0..m : ~ (C(i) <= C(m))
    BY <2>1
  <2>3. i # m
    BY <1>1, <2>1, <2>2
  <2>4. /\ m \in 1..Len(r) /\ m - 1 \in 0..Len(r) /\ i \in 0..(m - 1) /\ i \in 0..Len(r)
        /\ ~ (m <= m - 1)
    BY <1>1, <2>1, <2>2, <2>3
  <2>5. m - 1 \notin Bad
    BY <2>1, <2>4
  <2>6. C(i) <= C(m - 1) /\ C(m - 1) <= C(m)
    BY <1>1, <2>4, <2>5
  <2>7. C(i) \in Nat /\ C(m - 1) \in Nat /\ C(m) \in Nat
    BY <1>1, <2>1, <2>4
  <2>8. PICK x, y, z \in Nat : x = C(i) /\ y = C(m - 1) /\ z = C(m)
    BY <2>7
  <2>9. x <= y /\ y <= z
    BY <2>6, <2>8
  <2>10. x <= z
    BY <2>9
  <2>. QED BY <2>2, <2>8, <2>10
<1>. QED BY <1>1, <1>2 DEF C

(* No more weight means no higher a sum, however the sums are rounded. *)
LEMMA NotMoreSumsNoHigher ==
  ASSUME NEW a \in Rollouts, NEW b \in Rollouts, Len(b) = Len(a),
         WeightUpTo(a, Len(a)) = Whole, WeightUpTo(b, Len(b)) = Whole,
         NEW i \in 0..Len(a), NotMore(a, b, i)
  PROVE  Cumulative(b, i) <= Cumulative(a, i)
<1>. DEFINE n == Len(a)
<1>1. /\ n \in Nat /\ n <= MaxEntries /\ MaxEntries \in Nat
      /\ \A j \in 1..n : a[j].weight \in Nat /\ b[j].weight \in Nat
  <2>1. \A r \in Rollouts : \A j \in DOMAIN r : r[j] \in [variation : Nat, weight : 0..Whole]
    BY ElementOfSeq DEF Rollouts
  <2>2. /\ n \in Nat /\ n <= MaxEntries
        /\ DOMAIN a = 1..n /\ DOMAIN b = 1..n
    BY DEF Rollouts
  <2>. QED BY <2>1, <2>2, EvaluationAssumption
<1>2. /\ \A j \in 0..n : /\ Cumulative(a, j) \in Nat /\ Cumulative(b, j) \in Nat
                         /\ WeightUpTo(a, j) \in Nat /\ WeightUpTo(b, j) \in Nat
  BY CumulativeNear, WeightGrows, RoundLaws
<1>3. CASE WeightUpTo(b, i) < WeightUpTo(a, i)
  <2>. DEFINE P == WeightUpTo(a, i) * Unit
              Q == WeightUpTo(b, i) * Unit
  <2>1. P <= Cumulative(a, i) + Off(i) /\ Cumulative(b, i) <= Q + Off(i)
    BY CumulativeNear
  <2>2. Off(i) \in Nat /\ 2 * Off(i) <= Unit
    BY <1>1, OffLaws
  <2>3. Unit \in Nat /\ WeightUpTo(a, i) \in Nat /\ WeightUpTo(b, i) \in Nat
    BY <1>2, EvaluationAssumption
  <2>4. P \in Nat /\ Q \in Nat
    BY <2>3, Times
  <2>5. Q + Unit <= P
    <3>1. (WeightUpTo(b, i) + 1) * Unit <= P
      BY <1>3, <2>3, TimesGrows
    <3>2. (WeightUpTo(b, i) + 1) * Unit = Q + 1 * Unit
      BY <2>3, Times
    <3>. QED BY <2>3, <3>1, <3>2
  <2>. HIDE DEF P, Q
  <2>6. PICK ca, cb, pa, pb, o, u \in Nat :
          /\ ca = Cumulative(a, i) /\ cb = Cumulative(b, i) /\ pa = P /\ pb = Q
          /\ o = Off(i) /\ u = Unit
    BY <1>2, <2>2, <2>3, <2>4
  <2>7. pa <= ca + o /\ cb <= pb + o /\ 2 * o <= u /\ pb + u <= pa
    BY <2>1, <2>2, <2>5, <2>6
  <2>8. cb <= ca
    BY <2>7
  <2>. QED BY <2>6, <2>8
<1>4. CASE \A j \in 1..i : b[j].weight <= a[j].weight
  <2>. DEFINE Bad == {j \in 0..i : ~ (Cumulative(b, j) <= Cumulative(a, j))}
  <2>1. ASSUME NEW j \in 1..i, Cumulative(b, j - 1) <= Cumulative(a, j - 1)
        PROVE  Cumulative(b, j) <= Cumulative(a, j)
    <3>1. j \in 1..n /\ j - 1 \in 0..n
      BY <1>1
    <3>2. /\ Share(a[j].weight) \in Numbers /\ Share(b[j].weight) \in Numbers
          /\ Cumulative(a, j - 1) + Share(a[j].weight) \in Numbers
          /\ Cumulative(b, j - 1) + Share(b[j].weight) \in Numbers
      BY <3>1, CumulativeNear
    <3>3. Share(b[j].weight) <= Share(a[j].weight)
      <4>. DEFINE x == b[j].weight * Unit
                  y == a[j].weight * Unit
      <4>1. x <= y
        BY <1>1, <1>4, <3>1, TimesGrows, EvaluationAssumption
      <4>2. x \in Numbers /\ y \in Numbers
        BY <3>1, CumulativeNear
      <4>. HIDE DEF x, y
      <4>3. Round[x] <= Round[y]
        BY <4>1, <4>2, RoundLaws
      <4>. QED BY <4>3 DEF Share, x, y
    <3>4. Cumulative(b, j - 1) + Share(b[j].weight)
            <= Cumulative(a, j - 1) + Share(a[j].weight)
      <4>1. /\ Share(a[j].weight) \in Nat /\ Share(b[j].weight) \in Nat
            /\ Cumulative(a, j - 1) \in Nat /\ Cumulative(b, j - 1) \in Nat
        BY <1>2, <3>1, <3>2, RoundLaws
      <4>. QED BY <2>1, <3>3, <4>1
    <3>5. /\ Cumulative(a, j) = Round[Cumulative(a, j - 1) + Share(a[j].weight)]
          /\ Cumulative(b, j) = Round[Cumulative(b, j - 1) + Share(b[j].weight)]
      BY <3>1, CumulativeLaws
    <3>. QED BY <3>2, <3>4, <3>5, RoundLaws
  <2>2. Cumulative(a, 0) = 0 /\ Cumulative(b, 0) = 0
    BY CumulativeLaws
  <2>3. Bad = {}
    <3>. SUFFICES ASSUME Bad # {} PROVE FALSE
      OBVIOUS
    <3>0. Bad \in SUBSET Nat
      BY <1>1
    <3>1. PICK j \in Bad : \A k \in Bad : j <= k
      BY <3>0, LeastNat
    <3>2. j # 0
      BY <2>2, <3>1
    <3>3. j \in 1..i /\ j - 1 \in 0..i /\ j - 1 \notin Bad
      BY <1>1, <3>1, <3>2
    <3>. QED BY <2>1, <3>1, <3>3
  <2>. QED BY <1>1, <2>3
<1>. QED BY <1>3, <1>4 DEF NotMore

(***************************************************************************)
(* A shift of the weights that makes entry i cover what it did keeps every *)
(* bucket that fell on it.                                                 *)
(***************************************************************************)
LEMMA RampUpKeepsBucket ==
  ASSUME NEW a \in Serves, NEW b \in Serves, WellFormed(a), WellFormed(b),
         a.rollout # <<>>, a.kind = b.kind,
         Order(a) = Order(b), IsInjective(Order(a)),
         NEW i \in DOMAIN a.rollout, Covers(a.rollout, b.rollout, i),
         NEW f \in FlagKeys, NEW ctx \in Contexts,
         Served(f, a, ctx) = a.rollout[i].variation
  PROVE  Served(f, b, ctx) = a.rollout[i].variation
<1>. DEFINE n == Len(a.rollout)
            value == IF a.kind \in Kinds THEN ctx[a.kind] ELSE None
            bucket == Hash[<<f, value>>]
            Ca(j) == Cumulative(a.rollout, j)
            Cb(j) == Cumulative(b.rollout, j)
            ia == {j \in 1..n : bucket < Ca(j)} \cup {n}
            ib == {j \in 1..n : bucket < Cb(j)} \cup {n}
<1>1. /\ a.rollout \in Rollouts /\ b.rollout \in Rollouts
      /\ a.variation = None /\ b.variation = None
  <2>1. a.rollout \in Rollouts /\ b.rollout \in Rollouts
    BY DEF Serves, Rollouts
  <2>2. DOMAIN a.rollout = DOMAIN b.rollout
    BY DEF Order
  <2>3. b.rollout # <<>>
    BY <2>1, <2>2 DEF Rollouts
  <2>. QED BY <2>1, <2>3 DEF WellFormed
<1>2. /\ n \in Nat \ {0} /\ Len(b.rollout) = n
      /\ DOMAIN a.rollout = 1..n /\ DOMAIN b.rollout = 1..n
  <2>1. DOMAIN a.rollout = DOMAIN b.rollout
    BY DEF Order
  <2>2. /\ DOMAIN a.rollout = 1..n /\ DOMAIN b.rollout = 1..Len(b.rollout)
        /\ n \in Nat \ {0} /\ Len(b.rollout) \in Nat
    BY <1>1 DEF Rollouts
  <2>3. \A m \in Nat : 1..n = 1..m => m = n
    <3>. SUFFICES ASSUME NEW m \in Nat, 1..n = 1..m PROVE m = n
      OBVIOUS
    <3>1. n \in 1..m
      BY <2>2
    <3>2. m \in 1..n
      BY <3>1
    <3>. QED BY <2>2, <3>1, <3>2
  <2>. QED BY <2>1, <2>2, <2>3
<1>3. \A j \in 1..n : b.rollout[j].variation = a.rollout[j].variation
  BY <1>2 DEF Order
<1>4. bucket \in Nat
  <2>1. value \in Values
    BY DEF Contexts, Values
  <2>. QED BY <2>1, EvaluationAssumption
<1>5. /\ Served(f, a, ctx) = a.rollout[Min(ia)].variation
      /\ Served(f, b, ctx) = b.rollout[Min(ib)].variation
  BY <1>1, <1>2 DEF Served, BucketVariation
<1>6. /\ Min(ia) \in ia /\ \A j \in ia : Min(ia) <= j
      /\ Min(ib) \in ib /\ \A j \in ib : Min(ib) <= j
  <2>1. ia \in SUBSET Nat /\ ia # {} /\ ib \in SUBSET Nat /\ ib # {}
    BY <1>2
  <2>. QED BY <2>1, MinIsLeast
<1>7. i \in 1..n /\ Min(ia) \in 1..n /\ Min(ib) \in 1..n
  BY <1>2, <1>6
<1>8. Min(ia) = i
  <2>1. Order(a)[Min(ia)] = Order(a)[i]
    BY <1>2, <1>5, <1>7 DEF Order
  <2>2. DOMAIN Order(a) = 1..n
    BY <1>2 DEF Order
  <2>. QED BY <1>7, <2>1, <2>2 DEF IsInjective
<1>9. WeightUpTo(a.rollout, n) = Whole /\ WeightUpTo(b.rollout, n) = Whole
  BY <1>1, <1>2 DEF WellFormed
<1>10. \A j \in 0..n : Ca(j) \in Nat /\ Cb(j) \in Nat
  BY <1>1, <1>2, <1>9, CumulativeNear, RoundLaws
<1>11. /\ i - 1 \in 0..n /\ i \in 0..n
       /\ Cb(i - 1) <= Ca(i - 1)
       /\ i = n \/ Ca(i) <= Cb(i)
  <2>1. i - 1 \in 0..n /\ i \in 0..n
    BY <1>2, <1>7
  <2>2. Cb(i - 1) <= Ca(i - 1)
    BY <1>1, <1>2, <1>9, <2>1, NotMoreSumsNoHigher DEF Covers
  <2>3. ASSUME i # n
        PROVE  Ca(i) <= Cb(i)
    BY <1>1, <1>2, <1>9, <2>1, <2>3, NotMoreSumsNoHigher DEF Covers
  <2>. QED BY <2>1, <2>2, <2>3
<1>12. \A j \in 0..(i - 1) : Cb(j) <= Cb(i - 1)
  BY <1>1, <1>2, <1>9, <1>11, CumulativeGrows
<1>. HIDE DEF Ca, Cb, bucket, n
<1>13. i \in ib
  <2>1. CASE i = n
    BY <2>1
  <2>2. CASE i # n
    <3>1. bucket < Ca(i)
      BY <1>6, <1>8, <2>2
    <3>. QED BY <1>4, <1>7, <1>10, <1>11, <2>2, <3>1
  <2>. QED BY <2>1, <2>2
<1>14. ASSUME NEW j \in 1..n, j < i
       PROVE  j \notin ib
  <2>1. /\ i - 1 \in 1..n /\ j \in 0..(i - 1) /\ j \in 0..n /\ j # n
    BY <1>2, <1>7, <1>14
  <2>2. ~ (bucket < Ca(i - 1))
    <3>1. i - 1 \notin ia
      BY <1>2, <1>6, <1>7, <1>8
    <3>. QED BY <2>1, <3>1
  <2>3. Cb(j) <= Cb(i - 1) /\ Cb(i - 1) <= Ca(i - 1)
    BY <1>11, <1>12, <2>1
  <2>4. ~ (bucket < Cb(j))
    BY <1>4, <1>10, <1>11, <2>1, <2>2, <2>3
  <2>. QED BY <2>1, <2>4
<1>15. Min(ib) = i
  BY <1>2, <1>6, <1>7, <1>13, <1>14
<1>. QED BY <1>3, <1>5, <1>7, <1>15

-----------------------------------------------------------------------------
(* The PUT that shifts the weights *)

(* evaluate's recursion, of one state and of the next *)
EvaluatesAt ==
  \A ctx : \A f \in FlagKeys, visiting \in SUBSET FlagKeys :
    Evaluations(ctx)[<<f, visiting>>] =
      Outcome(f, ctx, Met(f, visiting, Evaluations(ctx)), Members(ctx))

LEMMA EvaluatesHere == EvaluatesAt
BY EvaluationAt DEF EvaluatesAt

LEMMA EvaluatesNext == EvaluatesAt'
BY EvaluatesHere, PTL

(* Only f's config changes, and of it only the fallthrough. *)
Reweights(f) ==
  /\ f \in Loaded
  /\ flags' \in [FlagKeys -> FlagConfigs \cup {None}]
  /\ \A g \in FlagKeys \ {f} : flags'[g] = flags[g]
  /\ flags'[f] \in FlagConfigs
  /\ flags'[f].enabled = flags[f].enabled
  /\ flags'[f].prerequisites = flags[f].prerequisites
  /\ flags'[f].targets = flags[f].targets
  /\ flags'[f].rules = flags[f].rules
  /\ flags'[f].off = flags[f].off
  /\ UNCHANGED segments

LEMMA ReweightingStep ==
  ASSUME TypeOK, TypeOK', [Next]_vars, NEW f \in Loaded, Reweighted(flags[f], flags'[f])
  PROVE  Reweights(f)
<1>. USE DEF TypeOK, Loaded
<1>0. f \in FlagKeys /\ flags[f] \in FlagConfigs /\ flags'[f] # flags[f]
  BY DEF Reweighted
<1>1. PICK body \in FlagBodies[f] : UpdateFlagConfig(f, body)
  <2>1. CASE \E g \in FlagKeys : CreateFlag(g)
    BY <1>0, <2>1 DEF CreateFlag
  <2>2. CASE \E s \in SegmentKeys : \E body \in SegmentBodies[s] :
               UpdateSegmentConfig(s, body)
    BY <1>0, <2>2 DEF UpdateSegmentConfig
  <2>3. CASE UNCHANGED vars
    BY <1>0, <2>3 DEF vars
  <2>4. ASSUME NEW g \in FlagKeys, NEW body \in FlagBodies[g], UpdateFlagConfig(g, body)
        PROVE  g = f
    BY <1>0, <2>4 DEF UpdateFlagConfig
  <2>. QED BY <2>1, <2>2, <2>3, <2>4 DEF Next
<1>2. body \in FlagConfigs /\ flags'[f] = body /\ UNCHANGED segments
  BY <1>0, <1>1, EvaluationAssumption DEF UpdateFlagConfig
<1>3. \A g \in FlagKeys \ {f} : flags'[g] = flags[g]
  BY <1>1 DEF UpdateFlagConfig
<1>4. flags'[f] = [flags[f] EXCEPT !.fallthrough = flags'[f].fallthrough]
  BY DEF Reweighted
<1>5. /\ flags'[f].enabled = flags[f].enabled
      /\ flags'[f].prerequisites = flags[f].prerequisites
      /\ flags'[f].targets = flags[f].targets
      /\ flags'[f].rules = flags[f].rules
      /\ flags'[f].off = flags[f].off
  <2>1. \A a \in FlagConfigs : \A x :
          LET b == [a EXCEPT !.fallthrough = x] IN
          /\ b.enabled = a.enabled /\ b.prerequisites = a.prerequisites
          /\ b.targets = a.targets /\ b.rules = a.rules /\ b.off = a.off
    BY DEF FlagConfigs
  <2>2. PICK a, x : a \in FlagConfigs /\ a = flags[f] /\ x = flags'[f].fallthrough
    BY <1>0
  <2>3. flags'[f] = [a EXCEPT !.fallthrough = x]
    BY <1>4, <2>2
  <2>4. PICK b : b = [a EXCEPT !.fallthrough = x]
    OBVIOUS
  <2>5. /\ b.enabled = a.enabled /\ b.prerequisites = a.prerequisites
        /\ b.targets = a.targets /\ b.rules = a.rules /\ b.off = a.off
    BY <2>1, <2>2, <2>4
  <2>. QED BY <2>2, <2>3, <2>4, <2>5
<1>. QED BY <1>2, <1>3, <1>5 DEF Reweights

LEMMA SameLoaded ==
  ASSUME TypeOK, NEW f, Reweights(f)
  PROVE  Loaded' = Loaded /\ f \in FlagKeys
BY EvaluationAssumption DEF Reweights, Loaded, TypeOK

(* Then the prerequisites of a flag that does not depend on f, f's own among *)
(* them, come out as before if the flags they name do.                       *)
LEMMA MetUnmoved ==
  ASSUME TypeOK, NEW f, Reweights(f), NEW ctx,
         NEW g \in Loaded, f \notin Reach(g), NEW visiting \in SUBSET FlagKeys,
         \A x \in DependsOn(g) \ visiting :
           Evaluations(ctx)'[<<x, visiting \cup {x}>>] = Evaluations(ctx)[<<x, visiting \cup {x}>>]
  PROVE  Met(g, visiting, Evaluations(ctx))' = Met(g, visiting, Evaluations(ctx))
<1>. DEFINE required == flags[g].prerequisites
            test(E, i) ==
              LET x == required[i].flag IN
              IF x \notin Loaded \/ x \in visiting THEN "no"
              ELSE Holds(required[i], E[<<x, Visiting(required, i, visiting)>>])
            tests == [i \in DOMAIN required |-> test(Evaluations(ctx), i)]
<1>1. required' = required /\ Loaded' = Loaded
  BY SameLoaded DEF Reweights, Loaded
<1>2. ASSUME NEW i \in DOMAIN required
      PROVE  test(Evaluations(ctx), i)' = test(Evaluations(ctx), i)
  <2>. DEFINE x == required[i].flag
  <2>1. CASE x \notin Loaded \/ x \in visiting
    BY <1>1, <2>1
  <2>2. CASE x \in Loaded /\ x \notin visiting
    <3>1. x \in DependsOn(g) \ visiting
      BY <2>2 DEF DependsOn, Range
    <3>2. x # f /\ x \in FlagKeys
      BY <3>1, ReachLaws DEF DependsOn, Loaded
    <3>3. flags'[x] = flags[x]
      BY <3>2 DEF Reweights
    <3>. QED BY <1>1, <2>2, <3>1, <3>3 DEF Visiting, Holds
  <2>. QED BY <2>1, <2>2
<1>3. tests' = tests
  BY <1>1, <1>2
<1>. QED BY <1>3 DEF Met

(* Then the flags that do not depend on f evaluate as before. *)
LEMMA OthersUnmoved ==
  ASSUME TypeOK, NEW f, Reweights(f), NEW ctx
  PROVE  \A visiting \in SUBSET FlagKeys : \A g \in Loaded :
           (g # f /\ f \notin Reach(g)) =>
             Evaluations(ctx)'[<<g, visiting>>] = Evaluations(ctx)[<<g, visiting>>]
<1>. DEFINE Left(visiting) == Cardinality(FlagKeys \ visiting)
            Same(visiting) ==
              \A g \in Loaded : (g # f /\ f \notin Reach(g)) =>
                Evaluations(ctx)'[<<g, visiting>>] = Evaluations(ctx)[<<g, visiting>>]
            Bad == {n \in Nat : \E visiting \in SUBSET FlagKeys :
                                  Left(visiting) = n /\ ~Same(visiting)}
<1>1. ASSUME NEW visiting \in SUBSET FlagKeys,
             \A x \in FlagKeys \ visiting : Same(visiting \cup {x})
      PROVE  Same(visiting)
  <2>. SUFFICES ASSUME NEW g \in Loaded, g # f, f \notin Reach(g)
                PROVE  Evaluations(ctx)'[<<g, visiting>>] = Evaluations(ctx)[<<g, visiting>>]
    OBVIOUS
  <2>1. ASSUME NEW x \in DependsOn(g) \ visiting
        PROVE  Evaluations(ctx)'[<<x, visiting \cup {x}>>]
                 = Evaluations(ctx)[<<x, visiting \cup {x}>>]
    <3>1. x \in Loaded /\ x \in FlagKeys \ visiting
      BY DEF DependsOn, Loaded
    <3>2. x # f /\ f \notin Reach(x)
      BY ReachLaws
    <3>. QED BY <1>1, <3>1, <3>2
  <2>2. Met(g, visiting, Evaluations(ctx))' = Met(g, visiting, Evaluations(ctx))
    BY <2>1, MetUnmoved
  <2>3. Members(ctx)' = Members(ctx)
    BY DEF Members, Reweights
  <2>4. g \in FlagKeys /\ flags'[g] = flags[g]
    BY DEF Loaded, Reweights
  <2>5. Evaluations(ctx)'[<<g, visiting>>] =
          Outcome(g, ctx, Met(g, visiting, Evaluations(ctx)), Members(ctx))'
    BY <2>4, EvaluatesNext DEF EvaluatesAt
  <2>6. Outcome(g, ctx, Met(g, visiting, Evaluations(ctx)), Members(ctx))' =
          Outcome(g, ctx, Met(g, visiting, Evaluations(ctx)), Members(ctx))
    BY <2>2, <2>3, <2>4 DEF Outcome
  <2>. QED BY <2>4, <2>5, <2>6, EvaluationAt
<1>2. ASSUME NEW visiting \in SUBSET FlagKeys
      PROVE  /\ Left(visiting) \in Nat
             /\ \A x \in FlagKeys \ visiting : Left(visiting \cup {x}) = Left(visiting) - 1
  <2>1. IsFiniteSet(FlagKeys \ visiting)
    BY EvaluationAssumption, FS_Subset
  <2>2. \A x \in FlagKeys \ visiting :
          FlagKeys \ (visiting \cup {x}) = (FlagKeys \ visiting) \ {x}
    OBVIOUS
  <2>. QED BY <2>1, <2>2, FS_RemoveElement, FS_CardinalityType
<1>. HIDE DEF Same, Left
<1>3. Bad = {}
  <2>. SUFFICES ASSUME Bad # {} PROVE FALSE
    OBVIOUS
  <2>1. PICK n \in Bad : \A m \in Bad : n <= m
    BY LeastNat
  <2>2. PICK visiting \in SUBSET FlagKeys : Left(visiting) = n /\ ~Same(visiting)
    BY <2>1
  <2>3. ASSUME NEW x \in FlagKeys \ visiting
        PROVE  Same(visiting \cup {x})
    <3>1. visiting \cup {x} \in SUBSET FlagKeys
      OBVIOUS
    <3>2. Left(visiting \cup {x}) \in Nat /\ Left(visiting \cup {x}) < n
      BY <1>2, <2>2, <3>1
    <3>3. Left(visiting \cup {x}) \notin Bad
      BY <2>1, <3>2
    <3>. QED BY <3>1, <3>2, <3>3
  <2>. QED BY <1>1, <2>2, <2>3
<1>4. \A visiting \in SUBSET FlagKeys : Same(visiting)
  BY <1>2, <1>3
<1>. QED BY <1>4 DEF Same

(* An outcome of the fallthrough changes only with what the fallthrough serves. *)
LEMMA FallthroughOutcome ==
  ASSUME NEW f, Reweights(f), NEW ctx, NEW met, NEW member, NEW index,
         Outcome(f, ctx, met, member) = Result(index, "FALLTHROUGH")
  PROVE  /\ index = Served(f, flags[f].fallthrough, ctx)
         /\ Outcome(f, ctx, met, member)' =
              Result(Served(f, flags'[f].fallthrough, ctx), "FALLTHROUGH")
<1>. DEFINE cfg == flags[f]
            targets == {i \in DOMAIN cfg.targets :
                          /\ ctx[cfg.targets[i].kind] # None
                          /\ ctx[cfg.targets[i].kind] \in cfg.targets[i].keys}
            matches == [i \in DOMAIN cfg.rules |->
                          MatchClauses(cfg.rules[i].clauses, ctx, member)]
            rules == {i \in DOMAIN cfg.rules : matches[i] # "no"}
            out == Outcome(f, ctx, met, member)
<1>1. \A i, reason : Result(i, reason).index = i /\ Result(i, reason).reason = reason
  BY DEF Result
<1>2. Overflow.reason = "OVERFLOW"
  BY <1>1 DEF Overflow
<1>3. out.index = index /\ out.reason = "FALLTHROUGH"
  BY <1>1
<1>4. cfg.enabled
  <2>. SUFFICES ASSUME ~cfg.enabled PROVE FALSE
    OBVIOUS
  <2>1. out = Result(cfg.off, "OFF")
    BY DEF Outcome
  <2>. QED BY <1>1, <1>3, <2>1
<1>5. met # "overflow"
  <2>. SUFFICES ASSUME met = "overflow" PROVE FALSE
    OBVIOUS
  <2>1. out = Overflow
    BY <1>4 DEF Outcome
  <2>. QED BY <1>2, <1>3, <2>1
<1>6. met # "no"
  <2>. SUFFICES ASSUME met = "no" PROVE FALSE
    OBVIOUS
  <2>1. out = Result(cfg.off, "PREREQUISITE_FAILED")
    BY <1>4, <1>5 DEF Outcome
  <2>. QED BY <1>1, <1>3, <2>1
<1>7. targets = {}
  <2>. SUFFICES ASSUME targets # {} PROVE FALSE
    OBVIOUS
  <2>1. PICK i : i = cfg.targets[Min(targets)].variation
    OBVIOUS
  <2>2. out = Result(i, "TARGET_MATCH")
    BY <1>4, <1>5, <1>6, <2>1 DEF Outcome
  <2>. QED BY <1>1, <1>3, <2>2
<1>8. rules = {}
  <2>. SUFFICES ASSUME rules # {} PROVE FALSE
    OBVIOUS
  <2>1. \/ out = Overflow
        \/ out = Result(Served(f, cfg.rules[Min(rules)].serve, ctx), "RULE_MATCH")
    BY <1>4, <1>5, <1>6, <1>7 DEF Outcome
  <2>. QED BY <1>1, <1>2, <1>3, <2>1
<1>9. out = Result(Served(f, cfg.fallthrough, ctx), "FALLTHROUGH")
  BY <1>4, <1>5, <1>6, <1>7, <1>8 DEF Outcome
<1>10. index = Served(f, cfg.fallthrough, ctx)
  BY <1>1, <1>3, <1>9
<1>11. /\ cfg'.enabled = cfg.enabled /\ cfg'.targets = cfg.targets
       /\ cfg'.rules = cfg.rules
  BY DEF Reweights
<1>12. out' = Result(Served(f, flags'[f].fallthrough, ctx), "FALLTHROUGH")
  <2>1. cfg'.enabled
    BY <1>4, <1>11
  <2>2. targets' = {}
    BY <1>7, <1>11
  <2>3. rules' = {}
    BY <1>8, <1>11
  <2>. QED BY <1>5, <1>6, <2>1, <2>2, <2>3 DEF Outcome
<1>. QED BY <1>10, <1>12

(* Reweighting f moves no evaluation of a flag that does not lead to f. *)
LEMMA OtherUnmoved ==
  ASSUME TypeOK, NEW f, Reweights(f), NEW ctx, NEW g \in Loaded, g # f, f \notin Reach(g),
         NEW visiting \in SUBSET FlagKeys
  PROVE  Evaluations(ctx)'[<<g, visiting>>] = Evaluations(ctx)[<<g, visiting>>]
<1>1. \A v \in SUBSET FlagKeys : \A h \in Loaded :
        (h # f /\ f \notin Reach(h)) =>
          Evaluations(ctx)'[<<h, v>>] = Evaluations(ctx)[<<h, v>>]
  BY OthersUnmoved
<1>. QED BY <1>1

RampUp ==
  \A f \in Loaded : (Reweighted(flags[f], flags'[f]) /\ ~OnCycle(f)) =>
       LET before == flags[f].fallthrough.rollout
           after == flags'[f].fallthrough.rollout
       IN \A i \in DOMAIN before : Covers(before, after, i) =>
            \A ctx \in Contexts :
              Evaluate(f, ctx) = Result(before[i].variation, "FALLTHROUGH") =>
                Evaluate(f, ctx)' = Result(before[i].variation, "FALLTHROUGH")

LEMMA StepRampsUp == TypeOK /\ TypeOK' /\ [Next]_vars => RampUp
<1>. SUFFICES ASSUME TypeOK, TypeOK', [Next]_vars,
                     NEW f \in Loaded, Reweighted(flags[f], flags'[f]), ~OnCycle(f),
                     NEW i \in DOMAIN flags[f].fallthrough.rollout,
                     Covers(flags[f].fallthrough.rollout, flags'[f].fallthrough.rollout, i),
                     NEW ctx \in Contexts,
                     Evaluate(f, ctx) =
                       Result(flags[f].fallthrough.rollout[i].variation, "FALLTHROUGH")
              PROVE  Evaluate(f, ctx)' =
                       Result(flags[f].fallthrough.rollout[i].variation, "FALLTHROUGH")
  BY DEF RampUp
<1>. DEFINE a == flags[f].fallthrough
            b == flags'[f].fallthrough
            met == Met(f, {}, Evaluations(ctx))
            member == Members(ctx)
<1>1. Reweights(f) /\ f \in FlagKeys /\ Loaded' = Loaded
  BY ReweightingStep, SameLoaded
<1>2. f \notin Reach(f)
  BY DEF Reach, OnCycle
<1>3. ASSUME NEW x \in DependsOn(f)
      PROVE  Evaluations(ctx)'[<<x, {} \cup {x}>>] = Evaluations(ctx)[<<x, {} \cup {x}>>]
  <2>1. x \in Loaded /\ x # f /\ f \notin Reach(x)
    BY <1>2, ReachLaws DEF DependsOn
  <2>2. PICK visiting \in SUBSET FlagKeys : visiting = {} \cup {x}
    BY <2>1 DEF Loaded
  <2>. QED BY <1>1, <2>1, <2>2, OtherUnmoved
<1>4. met' = met
  BY <1>1, <1>2, <1>3, MetUnmoved
<1>5. member' = member
  BY <1>1 DEF Members, Reweights
<1>6. Evaluate(f, ctx) = Outcome(f, ctx, met, member)
  BY <1>1, EvaluationAt DEF Evaluate
<1>7. Evaluate(f, ctx)' = Outcome(f, ctx, met, member)'
  BY <1>1, EvaluatesNext DEF Evaluate, EvaluatesAt
<1>8. PICK m, s : m = met /\ s = member
  OBVIOUS
<1>9. /\ a.rollout[i].variation = Served(f, a, ctx)
      /\ Outcome(f, ctx, m, s)' = Result(Served(f, b, ctx), "FALLTHROUGH")
  BY <1>1, <1>6, <1>8, FallthroughOutcome
<1>10. Outcome(f, ctx, met, member)' = Outcome(f, ctx, m, s)'
  BY <1>4, <1>5, <1>8 DEF Outcome
<1>11. Served(f, b, ctx) = a.rollout[i].variation
  <2>1. a \in Serves /\ b \in Serves /\ WellFormed(a) /\ WellFormed(b)
    BY <1>1 DEF TypeOK, Loaded, Accepted, FlagConfigs
  <2>. QED BY <1>1, <1>9, <2>1, RampUpKeepsBucket DEF Reweighted
<1>. QED BY <1>7, <1>9, <1>10, <1>11

-----------------------------------------------------------------------------
(* Theorems *)

(* The ruleset holds configs of the schemas' shape that _validate_indices   *)
(* accepts, whatever PUTs are sent (schemas/flag.py:73-142, flags.py:21-45). *)
THEOREM TypeCorrect == Spec => []TypeOK
BY InitTypes, NextTypes, PTL DEF Spec

(***************************************************************************)
(* Whatever the ruleset and the context, cyclic prerequisites and segments *)
(* included, the index served is one of the flag's (eval.go:15,20).        *)
(***************************************************************************)
THEOREM ServesExisting == Spec => []ServesExistingVariation
BY TypeCorrect, ServesInRange, PTL

(***************************************************************************)
(* Where no flag depends on itself, prerequisites that are shared, nested  *)
(* or repeated mean what their flags evaluate to by themselves: the guard  *)
(* against cycles never fails one of them (eval.go:30-40).                 *)
(***************************************************************************)
THEOREM GuardSparesAcyclic == Spec => []PrerequisitesMeanTheirFlags
BY TypeCorrect, PrerequisitesMean, PTL

(***************************************************************************)
(* A PUT that only shifts a rollout's weights moves nobody off a variation *)
(* when the entries before it have no more than they had and those up to   *)
(* it no less, whatever the rounding of the sums does (bucket.go:23-42),   *)
(* unless the flag requires itself.                                        *)
(***************************************************************************)
THEOREM RampUpIsSticky == Spec => RampUpKeepsMembers
<1>1. TypeOK /\ TypeOK' /\ [Next]_vars => [RampUp]_vars
  BY StepRampsUp
<1>. QED BY <1>1, TypeCorrect, PTL DEF Spec, RampUpKeepsMembers, RampUp
=============================================================================
