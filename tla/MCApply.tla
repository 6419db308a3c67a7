------------------------------ MODULE MCApply ------------------------------
EXTENDS Apply

\* Operator A requires an API of B and both own one; X, which stays, owns an API
\* of B.  B stays too where A alone is to be removed.
MCOwned == [A |-> {"As", "Ss"}, B |-> {"Bs", "Ss"}, X |-> {"Bs"}]
MCRequired == [A |-> {"Bs"}, B |-> {}, X |-> {}]
MCSubscription == [A |-> "subA", B |-> None, X |-> None]
MCApi == [a |-> "As", b |-> "Bs", r |-> "Rs", s |-> "Ss"]

\* pod names cm in its spec and belongs to deploy.
MCRefers == {<<"pod", "cm">>}

U(o) == <<o, 1>>
Object(owners) == [gen |-> 1, owners |-> owners]

\* The owners of a, deploy, b and r: nobody, a CSV, a CSV that is gone, each
\* other.  r has the label of the platform and no API that A or B own, nor has b, if
\* A alone is removed; where r is on its own the pod is still to come.  s belongs to
\* both operators.
MCClusters ==
  {[o \in Objects |->
      CASE o = "a" -> Object(l[1]) [] o = "deploy" -> Object(l[2])
        [] o = "b" -> Object(l[3]) [] o = "r" -> Object(l[4])
        [] o = "pod" -> IF l[4] = {} THEN None ELSE Object({U("deploy")})
        [] o = "s" -> IF U("s") \in l[3] THEN Object({}) ELSE None
        [] OTHER -> Object({})] :
     l \in {<<{}, {U("a")}, {U("r")}, {}>>,
            <<{}, {U("a")}, {U("a")}, {<<"A", 0>>}>>,
            <<{U("A")}, {U("b")}, {U("a")}, {<<"A", 0>>}>>,
            <<{}, {U("a")}, {U("r")}, {U("a")}>>,
            <<{U("A")}, {U("b")}, {U("r")}, {U("a")}>>,
            <<{U("A")}, {U("a")}, {U("s")}, {<<"A", 0>>}>>}}

Say(operators, approve, keep, bulk, prune, explicit) ==
  [operators |-> operators, approve |-> approve, keep |-> keep, bulk |-> bulk,
   prune |-> prune, explicit |-> explicit]

\* The run of A alone may go on to the first DELETE; in the second A is blocked by a
\* where a is a root.
MCPolicies ==
  {Say({"A"}, {}, {}, {"root", "independent"}, TRUE, {"cm"}),
   Say({"A"}, {"r"}, {"a"}, {}, FALSE, {}),
   Say({"A", "B"}, {}, {}, {"root", "independent"}, TRUE, {"cm"}),
   Say({"A", "B"}, {}, {}, {"root", "label-only"}, FALSE, {})}
==============================================================================
