---------------------------- MODULE MCDeployPlan -----------------------------
(***************************************************************************)
(* Bounded sets of plans for DeployPlan.  The steps are listed against     *)
(* their dependencies, so that the walk has to reorder them.               *)
(***************************************************************************)
EXTENDS DeployPlan

StepOf(k, deps, cond, cont) == [key |-> k, deps |-> deps, cond |-> cond, cont |-> cont]

(* c depends on any of a and b, b may depend on a.                          *)
ThreeSteps ==
    {<<StepOf("c", dc, cc, FALSE), StepOf("b", db, cb, fb), StepOf("a", <<>>, "always", fa)>> :
        dc \in {<<"b">>, <<"a", "b">>}, cc \in Conditions, db \in {<<>>, <<"a">>}, cb \in Conditions,
        fa \in BOOLEAN, fb \in BOOLEAN}

(* Every submission of up to three nodes over three keys: repeated keys,   *)
(* unknown and circular dependencies among them.                           *)
Node == {StepOf(k, SetToSeq(ds), "always", FALSE) : k \in {"a", "b", "c"}, ds \in SUBSET {"a", "b", "c"}}
Submissions == ThreeSteps \cup UNION {[1..n -> Node] : n \in 1..3}
=============================================================================
