------------------------------ MODULE MCConsole ------------------------------
(* Console with small sets for TLC. *)
EXTENDS Console, TLC

Plain == {DefaultContent}
Ruled == {[DefaultContent EXCEPT !.rest = v] : v \in Values \ {DefaultValue}}
PlainOrRuled == Plain \cup Ruled

(* rules, and a rollout no form would make *)
Dealt == {[DefaultContent EXCEPT !.rest = v, !.form = [shown |-> v, bucketing |-> b]] :
            v \in Values \ {DefaultValue}, b \in Bucketings \ {DefaultBucketing}}
RuledOrDealt == Ruled \cup Dealt

(* The environments are alike: they start alike and no one prefers any. *)
AlikeEnvironments == Permutations(Environments)
=============================================================================
