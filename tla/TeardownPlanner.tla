---------------------------- MODULE TeardownPlanner ----------------------------
(***************************************************************************)
(* The teardown planner (src/src/teardown/planner.rs) and the reference    *)
(* guard (ref_guard.rs), as functions of what the cluster holds: which     *)
(* operands a plan deletes, expects, keeps or leaves for review, in which  *)
(* phase, and what blocks it.                                              *)
(*                                                                         *)
(* An object's uid is its name and its generation, an ownerReference the   *)
(* uid it names, so a stale reference is one whose generation has passed.  *)
(* A name stands for group, kind, namespace and name; the short forms of   *)
(* the command line, which may be ambiguous, are not modelled.  Every      *)
(* LIST and GET of the planner answers (ClusterRead is about those that    *)
(* do not).  Ancillary namespace resources, APIServices and preflight are  *)
(* left out: an ancillary resource that is approved is one more DELETE in  *)
(* the phase that cleans up the namespaces.                                *)
(***************************************************************************)
EXTENDS Naturals, Sequences, Functions, FiniteSets

CONSTANTS
  Operators,     \* the operators of the cluster; the name is also their CSV's
  Subscription,  \* Subscription[op]: the Subscription of op, or None
  Crs,           \* custom resources an operator may own or label
  Apis,          \* the CRDs
  Api,           \* Api[n]: the CRD of which n is an instance
  Owned,         \* Owned[op]: CRDs the CSV of op owns
  Required,      \* Required[op]: CRDs the CSV of op requires
  Extras,        \* other objects: what --delete-resource names, who refers to it
  Listed,        \* the Extras of the kinds that check_inbound_refs lists
  Refers,        \* <<x, y>>: x names y in its spec
  None

\* Of the operators ops, which are to be removed.
TargetApis(ops) == UNION {Owned[op] : op \in ops}
Subscriptions(ops) == {Subscription[op] : op \in ops} \ {None}

Objects == Operators \union Subscriptions(Operators) \union Crs \union Apis \union Extras

ASSUME TeardownAssumption ==
  /\ IsFiniteSet(Objects) /\ None \notin Objects
  /\ Owned \in [Operators -> SUBSET Apis] /\ Required \in [Operators -> SUBSET Apis]
  /\ Api \in [Crs -> Apis]
  /\ Listed \subseteq Extras /\ Refers \subseteq Listed \X Extras

\* A cluster c gives for every object None, or its generation and the uids it
\* names as its owners.
Uid(c, o) == <<o, c[o].gen>>
Live(c) == {o \in DOMAIN c : c[o] # None}
Uids(c, S) == {Uid(c, o) : o \in S \intersect Live(c)}

\* The least set that holds all of S for which Grow adds nothing.
Least(U, S, Grow(_)) ==
  LET reach[i \in 0 .. Cardinality(U)] ==
        IF i = 0 THEN S ELSE LET prior == reach[i - 1] IN prior \union Grow(prior)
  IN reach[Cardinality(U)]
-----------------------------------------------------------------------------
(***************************************************************************)
(* What is discovered, and what it is                                      *)
(***************************************************************************)

Instances(c) == Crs \intersect Live(c)
Direct(ops, n) == Api[n] \in TargetApis(ops)
OwnersIn(c, n, S) == {m \in S \intersect Live(c) : Uid(c, m) \in c[n].owners}
Parents(c, n) == OwnersIn(c, n, Instances(c))

\* A related instance is linked when its owners lead, through related ones, to
\* a direct instance or to a target's CSV; else its label is all it has.
Linked(ops, c) ==
  LET related == {n \in Instances(c) : ~Direct(ops, n)}
      anchors == ops \union {n \in Instances(c) : Direct(ops, n)}
      Grow(S) == {n \in related : OwnersIn(c, n, anchors \union S) # {}}
  IN Least(related, {}, Grow)

\* A node with a parent is a descendant even when it is a parent itself.
Position(c, n) ==
  IF Parents(c, n) # {} THEN "descendant"
  ELSE IF \E m \in Instances(c) : n \in Parents(c, m) THEN "root"
  ELSE "independent"

ApiOwners(ops, n) == {op \in ops : Api[n] \in Owned[op]}

\* resolve_api_owner_indices: who owns the API, else who owns the API of the
\* nearest ancestors of which somebody does.
ByApi(ops, c, n) ==
  IF ApiOwners(ops, n) # {} THEN ApiOwners(ops, n)
  ELSE LET Grow(S) == UNION {Parents(c, m) : m \in {m \in S : ApiOwners(ops, m) = {}}}
       IN UNION {ApiOwners(ops, m) : m \in Least(Instances(c), Parents(c, n), Grow)}

\* resolve_cleanup_trigger_indices: a descendant goes with the roots above it.
\* Ownership has no cycles.
ByTrigger(ops, c, n) ==
  LET operators[m \in Instances(c)] ==
        LET Through(p) == IF Position(c, p) = "root" \/ operators[p] = {}
                          THEN ApiOwners(ops, p) ELSE operators[p]
            inherited == UNION {Through(p) : p \in Parents(c, m)}
        IN IF inherited = {} THEN ApiOwners(ops, m) ELSE inherited
  IN operators[n]

\* The CrInstances of the cluster.  classify_provenance takes only an owner
\* that is the target's present CSV for a proof that it manages the instance;
\* every other sign leaves it to be reviewed.  No two owners are generations of
\* one CSV.
Discovered(ops, c) ==
  LET linked == Linked(ops, c)
  IN [n \in Instances(c) |->
        [uid       |-> Uid(c, n),
         parents   |-> Parents(c, n),
         position  |-> Position(c, n),
         labelOnly |-> ~Direct(ops, n) /\ n \notin linked,
         managed   |-> OwnersIn(c, n, ops) # {},
         operators |-> IF Parents(c, n) = {} THEN ByApi(ops, c, n)
                      ELSE ByTrigger(ops, c, n)]]

\* What discovery hands to the planner: the instances and the uids of OLM's
\* objects.
Discovery(ops, c) ==
  [crs |-> Discovered(ops, c), olm |-> Uids(c, ops \union Subscriptions(ops))]
-----------------------------------------------------------------------------
(***************************************************************************)
(* Decisions: the arguments of teardown plan                               *)
(***************************************************************************)

In(crs, position) == {n \in DOMAIN crs : crs[n].position = position}
LabelOnly(crs) == {n \in DOMAIN crs : crs[n].labelOnly}
SharedBy(crs, n) == Cardinality(crs[n].operators) > 1

Candidates(crs) ==
  {n \in DOMAIN crs \ In(crs, "descendant") : ~crs[n].managed}
Approvable(crs) == {n \in Candidates(crs) : ~SharedBy(crs, n)}

\* resolve_decisions fails on an argument that fits no candidate, that may not
\* be approved, or that another argument contradicts.
PolicyFits(crs, policy) ==
  /\ policy.keep \subseteq Candidates(crs)
  /\ policy.approve \subseteq Approvable(crs)
  /\ policy.keep \intersect policy.approve = {}

Bulk(crs, policy) == Approvable(crs) \ (policy.keep \union policy.approve)

BulkLabelOnly(crs, policy) ==
  {n \in Bulk(crs, policy) \intersect LabelOnly(crs) : "label-only" \in policy.bulk}

Approved(crs, policy) ==
  policy.approve \union BulkLabelOnly(crs, policy) \union
  {n \in Bulk(crs, policy) \ LabelOnly(crs) : crs[n].position \in policy.bulk}

\* cr_to_action
ActionOf(crs, policy, n) ==
  IF n \in policy.keep THEN "KEEP"
  ELSE IF n \in Approved(crs, policy) THEN "DELETE"
  ELSE IF crs[n].position = "descendant" THEN "EXPECT"
  ELSE IF crs[n].managed THEN "DELETE" ELSE "REVIEW"
-----------------------------------------------------------------------------
(***************************************************************************)
(* Layers: topo_sort_operators over compute_operator_dependencies          *)
(***************************************************************************)

DependsOn(ops) == {d \in ops \X ops :
                     d[1] # d[2] /\ Required[d[1]] \intersect Owned[d[2]] # {}}

LayeredUpToDependencies(ops) ==
  LET upTo[i \in 0 .. Cardinality(ops)] ==
        IF i = 0 THEN {}
        ELSE LET prior == upTo[i - 1]
                 left == ops \ prior
             IN prior \union
                {op \in left : \A a \in left : <<op, a>> \notin DependsOn(ops)}
  IN upTo

\* The operators of the first i layers: one joins when no operator that is
\* still there depends on it.
LayeredUpTo(ops) ==
  LET upTo[i \in 0 .. Cardinality(ops)] ==
        IF i = 0 THEN {}
        ELSE LET prior == upTo[i - 1]
                 left == ops \ prior
             IN prior \union
                {op \in left : \A a \in left : <<a, op>> \notin DependsOn(ops)}
  IN upTo

InCycle(ops) == ops \ LayeredUpTo(ops)[Cardinality(ops)]

Layers(ops) ==
  LET upTo == LayeredUpTo(ops)
      nonempty == {i \in 1 .. Cardinality(ops) : upTo[i] # upTo[i - 1]}
  IN IF InCycle(ops) # {} THEN <<ops>>
     ELSE [i \in 1 .. Cardinality(nonempty) |-> upTo[i] \ upTo[i - 1]]

LayerOf(layers, op) == CHOOSE i \in DOMAIN layers : op \in layers[i]
-----------------------------------------------------------------------------
(***************************************************************************)
(* Operand phases                                                          *)
(***************************************************************************)

\* An instance that several targets share, when these are layered.
Shared(layers, crs, n) == Len(layers) > 1 /\ SharedBy(crs, n)

\* The operator a HashSet yields first, for every root that several share.
Picks(layers, crs) ==
  LET roots == {n \in In(crs, "root") : Shared(layers, crs, n)}
      ops == UNION {layers[i] : i \in DOMAIN layers}
  IN {pick \in [roots -> ops] : \A n \in roots : pick[n] \in crs[n].operators}

\* One layer takes every instance.  With more, an instance goes to the layer of
\* its operator.  A shared one is reviewed in the first layer, but a shared
\* root only if the operator picked for it belongs to that layer.
LayersFor(layers, crs, pick, n) ==
  IF Len(layers) = 1 \/ crs[n].operators = {} THEN {1}
  ELSE IF ~SharedBy(crs, n) THEN {LayerOf(layers, op) : op \in crs[n].operators}
  ELSE IF n \in DOMAIN pick /\ LayerOf(layers, pick[n]) # 1 THEN {} ELSE {1}

Action(act, n, uid) == [act |-> act, obj |-> n, uid |-> uid]

\* The actions of the operand phase of layer i, without those that
\* route_operand_action puts off until the operands are gone.
Operands(layers, crs, policy, pick, i) ==
  {Action(IF Shared(layers, crs, n) THEN "REVIEW" ELSE ActionOf(crs, policy, n), n, crs[n].uid) :
     n \in {m \in DOMAIN crs \ BulkLabelOnly(crs, policy) :
              i \in LayersFor(layers, crs, pick, m)}}

Remaining(crs, policy) ==
  {Action("DELETE", n, crs[n].uid) : n \in BulkLabelOnly(crs, policy)}

With(actions, acts) == {a.obj : a \in {b \in actions : b.act \in acts}}
Doomed(actions) == With(actions, {"DELETE", "EXPECT"})

\* enforce_expect_delete_invariant: what a phase expects to vanish needs an
\* owner that is deleted, or expected with support, by that phase.
Supported(crs, operands) ==
  LET supported[i \in 0 .. Len(operands)] ==
        IF i = 0 THEN {}
        ELSE LET expected == With(operands[i], {"EXPECT"})
                 Grow(S) == {n \in expected : crs[n].parents \intersect S # {}}
             IN Least(expected, supported[i - 1] \union With(operands[i], {"DELETE"}),
                      Grow)
  IN supported

\* cleanup trigger not scheduled for deletion
Demoted(crs, operands, i) ==
  {a \in operands[i] : a.act = "EXPECT" /\ a.obj \notin Supported(crs, operands)[i]}

OperandPhases(layers, crs, policy, pick) ==
  LET operands == [i \in DOMAIN layers |-> Operands(layers, crs, policy, pick, i)]
  IN [i \in DOMAIN layers |->
        LET demoted == Demoted(crs, operands, i)
        IN (operands[i] \ demoted) \union {[a EXCEPT !.act = "KEEP"] : a \in demoted}]
-----------------------------------------------------------------------------
(***************************************************************************)
(* The plan                                                                *)
(***************************************************************************)

RequiredElsewhere(ops) ==
  TargetApis(ops) \intersect UNION {Required[op] : op \in Operators \ ops}
OwnedElsewhere(ops) == TargetApis(ops) \intersect TargetApis(Operators \ ops)

\* What stops the plan from being executed: a CRD another operator requires, a
\* cycle of targets, and a root that is reviewed or kept, unless its label is
\* all that ties it to the targets.
Blockers(crs, policy, pick) ==
  LET ops == policy.operators
      layers == Layers(ops)
      unclear == UNION {With(Operands(layers, crs, policy, pick, i), {"REVIEW", "KEEP"}) :
                          i \in DOMAIN layers}
  IN RequiredElsewhere(ops) \union InCycle(ops) \union
     ((unclear \intersect In(crs, "root")) \ LabelOnly(crs))

Phase(name, layer, actions) == [name |-> name, layer |-> layer, actions |-> actions]

\* The uid of a CRD, if it is to go, is read when the plan is made.
ApiActions(c, policy) ==
  LET ops == policy.operators
      pruned == IF policy.prune
                THEN (TargetApis(ops) \intersect Live(c))
                       \ (RequiredElsewhere(ops) \union OwnedElsewhere(ops))
                ELSE {}
  IN {Action("DELETE", a, Uid(c, a)) : a \in pruned}
     \union {Action("KEEP", a, None) : a \in TargetApis(ops) \ pruned}

\* The phases at the places at which they are executed, of which every operator has
\* one for the operands and one for the controllers of its layer: what there is no
\* layer for has no phase at its place, nor has a layer of several without operands,
\* nor what has no explicit targets.
Most == Cardinality(Operators)
ExplicitPlace == 2 * Most + 3

Phases(c, seen, policy, pick) ==
  LET ops == policy.operators
      layers == Layers(ops)
      n == Len(layers)
      operands == OperandPhases(layers, seen.crs, policy, pick)
      Bound(act, S) == {Action(act, u[1], u) : u \in {v \in seen.olm : v[1] \in S}}
      PhaseAt(i) ==
        CASE i = 1 -> Phase("Freeze OLM", 0, Bound("DELETE", Subscriptions(ops))
                                             \union Bound("KEEP", ops))
          [] i \in 2 .. Most + 1 -> Phase("Operand cleanup", i - 1, operands[i - 1])
          [] i = Most + 2 -> Phase("Remaining cleanup", 0, Remaining(seen.crs, policy))
          [] i \in Most + 3 .. 2 * Most + 2 ->
               Phase("Remove controllers", i - Most - 2, Bound("DELETE", layers[i - Most - 2]))
          [] i = 2 * Most + 4 -> Phase("APIs", 0, ApiActions(c, policy))
          [] OTHER -> Phase("Namespaces", 0, {})
      without == (n + 2 .. Most + 1) \union (Most + n + 3 .. 2 * Most + 2)
      empty == {i \in 2 .. n + 1 : n > 1 /\ operands[i - 1] = {}}
  IN [i \in (1 .. 2 * Most + 5) \ (without \union empty \union {ExplicitPlace}) |->
        PhaseAt(i)]
-----------------------------------------------------------------------------
(***************************************************************************)
(* Explicit targets and the reference guard                                *)
(***************************************************************************)

PlannedUids(phases) ==
  {a.uid : a \in {b \in UNION {phases[i].actions : i \in DOMAIN phases} :
                    b.act \in {"DELETE", "EXPECT"}}}

OwnedByClosureAny(c, closure) ==
  LET Grow(S) == {x \in Listed \intersect Live(c) :
                    c[x].owners \intersect (closure \union Uids(c, S)) # {}}
  IN Least(Listed, {}, Grow)

\* is_transitively_owned_by_closure: every owner, at every step up, is in the
\* closure by uid or is a listed object of which the same holds.
OwnedByClosure(c, closure) ==
  LET Grow(S) == {x \in Listed \intersect Live(c) :
                    /\ c[x].owners # {}
                    /\ c[x].owners \subseteq closure \union Uids(c, S)}
  IN Least(Listed, {}, Grow)

Referrers(c, x) == {r \in Listed \intersect Live(c) : <<r, x>> \in Refers}

\* check_inbound_refs: the referrers of x that do not go with the closure.
Outside(c, closure, x) ==
  {r \in Referrers(c, x) : Uid(c, r) \notin closure} \ OwnedByClosure(c, closure)

\* inject_explicit_phase_into_teardown_plan: before the last two phases.
Inject(phases, targets) ==
  IF targets = {} THEN phases
  ELSE LET actions == {Action("DELETE", t.obj, t.uid) : t \in targets}
       IN [i \in DOMAIN phases \union {ExplicitPlace} |->
             IF i = ExplicitPlace THEN Phase("Explicit cleanup", 0, actions) ELSE phases[i]]

Explicit(phase) == phase.name = "Explicit cleanup"
WithoutExplicit(phases) == Restrict(phases, {i \in DOMAIN phases : ~Explicit(phases[i])})
==============================================================================
