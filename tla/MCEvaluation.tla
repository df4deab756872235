---------------------------- MODULE MCEvaluation -----------------------------
(* Evaluation with small sets of flags, contexts and request bodies. *)
EXTENDS Evaluation, TLC

CONSTANTS f1, f2, f3, s1, s2, user, device, n1, n2

(* To the nearest even number, a tie to the multiple of 4: with 13 for a     *)
(* weight of 1, shares come to 12, 26, 40 and 52, but 12 + 12 to 24, not 26. *)
MCRound == [x \in Numbers |->
              CASE x % 2 = 0 -> x [] x % 4 = 1 -> x - 1 [] x % 4 = 3 -> x + 1]

(* n1 is on the edge 24, inside a weight of 2 but outside two of 1; n2 is    *)
(* between 2 / 4 and 3 / 4; the rest is the bucket beyond every weight.      *)
MCHash == [p \in FlagKeys \X Values |->
             CASE p[2] = n1 -> 24 [] p[2] = n2 -> 30 [] OTHER -> Whole * Unit]

Fixed(v) == [variation |-> v, kind |-> None, rollout |-> <<>>]
Weighted(v, w) == [variation |-> v, weight |-> w]
Split(kind, a) ==
  [variation |-> None, kind |-> kind,
   rollout |-> <<Weighted(0, a), Weighted(1, Whole - a)>>]
InThree(a, b, c) ==
  [variation |-> None, kind |-> device,
   rollout |-> <<Weighted(0, a), Weighted(1, b), Weighted(2, c)>>]
Requires(f, v) == [flag |-> f, variation |-> v]

On(prerequisites, fallthrough) ==
  [DefaultConfig EXCEPT !.enabled = TRUE, !.prerequisites = prerequisites,
                        !.fallthrough = fallthrough]
Targeted(v) == [On(<<>>, Fixed(0)) EXCEPT
                  !.targets = <<[kind |-> user, variation |-> v, keys |-> {n1}]>>]
Ruled(clauses, serve) ==
  [On(<<>>, Fixed(0)) EXCEPT !.rules = <<[clauses |-> clauses, serve |-> serve]>>]

In(kind, n, negate) ==
  [op |-> "in", kind |-> kind, values |-> <<n>>, negate |-> negate]
InSegment(s) == [op |-> "segmentMatch", kind |-> user, values |-> <<s>>, negate |-> FALSE]

(* f1 requires the others, alone and together; f2 and f3 may require f1. *)
MCFlagBodies ==
  f1 :> {DefaultConfig, On(<<>>, Fixed(1)),
         On(<<Requires(f2, 1)>>, Fixed(1)),
         On(<<Requires(f2, 1), Requires(f3, 1)>>, Fixed(1)),
         On(<<Requires(f2, 1), Requires(f3, 0)>>, Split(user, 2)),
         Targeted(1), Targeted(2)}
  @@
  f2 :> {DefaultConfig, On(<<>>, Fixed(1)), On(<<>>, Fixed(2)),
         On(<<Requires(f1, 0)>>, Fixed(1)),
         Ruled(<<InSegment(s1), In(device, n1, TRUE)>>, Fixed(1)),
         On(<<>>, Split(user, 1)), On(<<>>, Split(user, 3)), On(<<>>, Split(user, 4)),
         On(<<>>, [Split(user, 1) EXCEPT !.variation = 1])}
  @@
  f3 :> {DefaultConfig, On(<<Requires(f2, 1)>>, Fixed(1)),
         On(<<>>, InThree(1, 1, 2)), On(<<>>, InThree(2, 1, 1)),
         On(<<>>, InThree(0, 2, 2)), On(<<>>, InThree(0, 3, 1)),
         On(<<>>, InThree(2, 0, 2)), On(<<>>, InThree(2, 2, 0)),
         On(<<>>, InThree(1, 1, 1)),
         On(<<>>, [InThree(2, 1, 1) EXCEPT !.rollout[3].variation = 3])}

Segment(included, excluded, rules) ==
  [kind |-> user, included |-> included, excluded |-> excluded, rules |-> rules]

MCSegmentBodies ==
  s1 :> {Segment({n1}, {}, <<>>), Segment({}, {n1}, << <<InSegment(s2)>> >>)}
  @@
  s2 :> {Segment({n2}, {}, <<>>), Segment({}, {}, << <<InSegment(s1)>> >>)}

MCVariationCount == f1 :> 2 @@ f2 :> 2 @@ f3 :> 3
=============================================================================
