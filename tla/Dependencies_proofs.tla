------------------------ MODULE Dependencies_proofs ------------------------
(***************************************************************************)
(* For every number of dependencies, every graph and every choice of       *)
(* scopes: the process that runs the tests never runs the constructor of a *)
(* Cloneable, Hosted or HostedRpc dependency, and without workers it never *)
(* runs one a second time; constructors find their inputs unless a value   *)
(* outlived its dependency, and none does when tests take the inputs of    *)
(* shared dependencies too.                                                *)
(*                                                                         *)
(* For the second half PlanInv says that the plan stays closed under what  *)
(* its members link to, BuildInv which values a suite that was entered has, *)
(* and RootedInv which values can no longer be pruned.                     *)
(***************************************************************************)
EXTENDS Dependencies, FiniteSetTheorems, TLAPS

(* prune_unused_deps only removes.                                         *)
LEMMA PrunedOnlyRemoves ==
    ASSUME NEW D, NEW cleared
    PROVE  Pruned(D, cleared) \subseteq D
  BY DEF Pruned

LEMMA ReachFromStart ==
    ASSUME NEW start, NEW next, start \subseteq Deps
    PROVE  start \subseteq Reach(start, next) /\ Reach(start, next) \subseteq Deps
  BY DEF Reach

(* Everything of a shared scope that is left in the plan is handed over.   *)
LEMMA SharedAreHandedOver ==
    ASSUME TypeOK
    PROVE  /\ NeededInParent \subseteq Deps
           /\ HandedOver(NeededInParent) \subseteq Deps
           /\ \A d \in kept :
                 scope[d] \in SharedScopes \/ (~spawnWorkers /\ d \in NeededInParent)
                     => d \in HandedOver(NeededInParent)
<1> DEFINE start == {d \in kept : scope[d] \in SharedScopes}
<1>1. start \subseteq NeededInParent /\ NeededInParent \subseteq Deps
  <2>1. start \subseteq Deps
    BY DEF TypeOK
  <2> QED
    BY <2>1, ReachFromStart DEF NeededInParent
<1> HIDE DEF start
<1>2. ASSUME NEW d \in kept, scope[d] \in SharedScopes
      PROVE  d \in NeededInParent /\ d \in Deps
  BY <1>1, <1>2 DEF start
<1> QED
  BY <1>1, <1>2 DEF HandedOver, SharedScopes

LEMMA InitOwner == Init => OwnerInv
  BY PrunedOnlyRemoves
  DEF Init, OwnerInv, TypeOK, HandOverInv, OwnersBuiltInParent

LEMMA NextOwner == OwnerInv /\ [Next]_vars => OwnerInv'
<1> SUFFICES ASSUME OwnerInv, [Next]_vars PROVE OwnerInv'
  OBVIOUS
<1> USE DEF OwnerInv, graph, plan
<1>1. CASE Collect
  <2>1. TypeOK'
    BY <1>1, SharedAreHandedOver DEF Collect, TypeOK
  <2>2. HandOverInv'
    BY <1>1, SharedAreHandedOver DEF Collect, HandOverInv
  <2>3. OwnersBuiltInParent'
    BY <1>1 DEF Collect, HandOverInv, OwnersBuiltInParent
  <2> QED
    BY <2>1, <2>2, <2>3
<1>2. ASSUME NEW d \in Deps, ProvideShared(d) PROVE OwnerInv'
  <2>1. kept' \subseteq kept
    BY <1>2, PrunedOnlyRemoves DEF ProvideShared
  <2>2. TypeOK'
    BY <1>2, <2>1 DEF ProvideShared, TypeOK
  <2>3. HandOverInv'
    BY <1>2, <2>1 DEF ProvideShared, HandOverInv
  <2>4. OwnersBuiltInParent'
    BY <1>2 DEF ProvideShared, OwnersBuiltInParent
  <2> QED
    BY <2>2, <2>3, <2>4
<1>3. ASSUME NEW d \in Deps, ProvideLocal(d) PROVE OwnerInv'
  <2>1. TypeOK'
    BY <1>3 DEF ProvideLocal, TypeOK
  <2>2. HandOverInv'
    BY <1>3 DEF ProvideLocal, HandOverInv
  <2>3. OwnersBuiltInParent'
    BY <1>3 DEF ProvideLocal, OwnersBuiltInParent
  <2> QED
    BY <2>1, <2>2, <2>3
<1>4. ASSUME NEW d \in Deps, SkipStub(d) PROVE OwnerInv'
  <2>1. TypeOK'
    BY <1>4 DEF SkipStub, TypeOK
  <2>2. HandOverInv'
    BY <1>4 DEF SkipStub, HandOverInv
  <2>3. OwnersBuiltInParent'
    BY <1>4 DEF SkipStub, OwnersBuiltInParent
  <2> QED
    BY <2>1, <2>2, <2>3
<1>5. ASSUME NEW d \in Deps, FailToProvide(d) PROVE OwnerInv'
  BY <1>5 DEF FailToProvide, TypeOK, HandOverInv, OwnersBuiltInParent
<1>6. CASE StartTests
  BY <1>6 DEF StartTests, TypeOK, HandOverInv, OwnersBuiltInParent
<1>7. ASSUME NEW n \in Suites, EnterSuite(n) PROVE OwnerInv'
  <2>1. /\ values \subseteq values'
        /\ values' \subseteq values \cup kept
        /\ built' \subseteq built \cup (kept \ values)
    BY <1>7 DEF EnterSuite, At
  <2>2. phase = "run" /\ pending = {} /\ UNCHANGED <<graph, kept, leaf, inParent, pending, phase>>
    BY <1>7 DEF EnterSuite, HandOverInv
  <2>3. TypeOK'
    BY <1>7, <2>1, <2>2 DEF EnterSuite, TypeOK
  <2>4. HandOverInv'
    BY <2>1, <2>2 DEF HandOverInv
  <2>5. ASSUME NEW d \in kept \ values
        PROVE  scope[d] = "Local" /\ (~spawnWorkers => d \notin inParent)
    BY <2>2 DEF HandOverInv, TypeOK, Scopes
  <2>6. OwnersBuiltInParent'
    BY <2>1, <2>2, <2>5 DEF OwnersBuiltInParent
  <2> QED
    BY <2>3, <2>4, <2>6
<1>8. CASE UNCHANGED vars
  BY <1>8 DEF vars, TypeOK, HandOverInv, OwnersBuiltInParent
<1> QED
  BY <1>1, <1>2, <1>3, <1>4, <1>5, <1>6, <1>7, <1>8 DEF Next

(* The invariant holds in every run, for every graph.                      *)
THEOREM OwnerSafety == Spec => []OwnerInv
<1>1. Init => OwnerInv
  BY InitOwner
<1>2. OwnerInv /\ [Next]_vars => OwnerInv'
  BY NextOwner
<1> QED
  BY <1>1, <1>2, PTL DEF Spec

(* Owners are constructed in the parent only, and nothing is constructed   *)
(* twice in a run without workers, whatever the graph of dependencies, the *)
(* scopes and what the tests take (is_top_level_parent in args.rs).        *)
THEOREM OwnersOnlyInParent == Spec => []OwnersBuiltInParent
<1>1. OwnerInv => OwnersBuiltInParent
  BY DEF OwnerInv
<1> QED
  BY <1>1, OwnerSafety, PTL

-----------------------------------------------------------------------------
(* Whether constructors and tests find what they take.                     *)

(* What the tests of a suite and of those below it take.                   *)
Needed(n) == UNION {uses[m] : m \in AtOrBelow(n)}

(* The plan before any value arrives.                                      *)
Original == Pruned(Deps, {})

(* What the initial state says of the graph.                               *)
GraphInv ==
    /\ \A d \in Deps : \A e \in inputs[d] : Home[e] \in AtOrAbove(Home[d])
    /\ \A pair \in both : ViewsOfOne(pair[1], pair[2])
    /\ \A n \in Suites : uses[n] \subseteq Visible(n)
    /\ \A n \in opaque : uses[n] = Visible(n)

(* D has what tests take and what its members link to.                     *)
Closed(D, cleared) ==
    /\ \A n \in Suites : uses[n] \subseteq D
    /\ \A d \in D : Companions(d) \subseteq D
    /\ \A d \in D \ cleared : inputs[d] \subseteq D

(* Pruning leaves the plan closed.                                         *)
PlanInv ==
    /\ Closed(kept, leaf)
    /\ kept \subseteq Original
    /\ phase = "collect" => kept = Original /\ leaf = {}
    /\ leaf \subseteq values
    /\ \A d \in leaf : scope[d] \in SharedScopes
    /\ phase = "collect" => values = {}
    /\ phase # "run" => entered = {}

(* A suite that was entered has its values, unless one outlived.           *)
BuildInv ==
    /\ \A n \in entered : AtOrAbove(n) \subseteq entered
    /\ \A d \in built : d \in kept \ leaf /\ Home[d] \in entered
    /\ NoneOutlived => \A n \in entered : At(n, kept) \subseteq values

(* The parent constructs inputs along with what takes them.                *)
ParentInv ==
    /\ phase = "collect" => inParent = {}
    /\ \A d \in inParent : inputs[d] \subseteq inParent

(* Shared ones of the first plan and those that tests take are not pruned. *)
Rooted(d) ==
    \/ scope[d] \in SharedScopes /\ d \in Original
    \/ \E n \in Suites : d \in uses[n]

(* If tests take the inputs, every value is for one of these.              *)
RootedInv ==
    TestsTakeInputs =>
        /\ \A d \in Original : scope[d] \in SharedScopes => d \in kept
        /\ \A d \in pending : scope[d] = "HostedRpc" \/ Rooted(d)
        /\ phase \in {"collect", "provide"} => \A d \in values : Rooted(d)
        /\ NoneOutlived
        /\ phase # "failed"

LEMMA ReachStep ==
    ASSUME NEW start, NEW next, NEW d \in Reach(start, next), NEW e \in next[d], e \in Deps
    PROVE  e \in Reach(start, next)
  BY DEF Reach

LEMMA ReachLeast ==
    ASSUME NEW start, NEW next, NEW K, K \subseteq Deps, start \subseteq K,
           \A d \in K : next[d] \subseteq K
    PROVE  Reach(start, next) \subseteq K
  BY DEF Reach

LEMMA ReachMonotone ==
    ASSUME NEW start, NEW more, NEW next, start \subseteq more
    PROVE  Reach(start, next) \subseteq Reach(more, next)
  BY DEF Reach

(* What prune_unused_deps follows from a dependency.                       *)
Links(D, cleared) ==
    [d \in Deps |-> (IF d \in D \ cleared THEN inputs[d] ELSE {})
                     \cup (IF d \in D THEN Companions(d) ELSE {})]

LEMMA Levels ==
    /\ \A n \in Suites : n \in AtOrBelow(n) /\ n \in AtOrAbove(n) /\ AtOrBelow(n) \subseteq Suites
                         /\ AtOrAbove(n) \subseteq Suites
    /\ \A m, n \in Suites : m \in AtOrBelow(n) <=> n \in AtOrAbove(m)
    /\ \A m, n \in Suites : m \in AtOrAbove(n) => /\ AtOrBelow(n) \subseteq AtOrBelow(m)
                                                  /\ AtOrAbove(m) \subseteq AtOrAbove(n)
  BY DEF Suites, AtOrBelow, AtOrAbove

(* A suite that uses a dependency is at its home or below.                 *)
LEMMA UsedIsNeeded ==
    ASSUME TypeOK, GraphInv, NEW n \in Suites, NEW d \in uses[n]
    PROVE  d \in Deps /\ n \in AtOrBelow(Home[d]) /\ d \in Needed(Home[d])
<1>1. d \in Deps /\ Home[d] \in AtOrAbove(n)
  BY DEF GraphInv, Visible
<1>2. n \in AtOrBelow(Home[d])
  BY <1>1, Levels, DependenciesAssumption
<1> QED
  BY <1>1, <1>2 DEF Needed

(* A test that may take anything counts as one that takes all it sees.     *)
LEMMA PrunedIsReached ==
    ASSUME TypeOK, GraphInv, NEW D, D \subseteq Deps, NEW cleared
    PROVE  Pruned(D, cleared) = {d \in D : d \in Reach(Needed(Home[d]), Links(D, cleared))}
<1>1. ASSUME NEW d \in D, AtOrBelow(Home[d]) \cap opaque # {}
      PROVE  d \in Reach(Needed(Home[d]), Links(D, cleared))
  <2>1. PICK n \in AtOrBelow(Home[d]) : n \in opaque
    BY <1>1
  <2>2. n \in Suites /\ d \in Deps /\ Home[d] \in Suites
    BY <2>1, DependenciesAssumption DEF TypeOK
  <2>3. d \in uses[n]
    BY <2>1, <2>2, Levels DEF GraphInv, Visible
  <2>4. d \in Needed(Home[d])
    BY <2>1, <2>3 DEF Needed
  <2> QED
    BY <2>2, <2>4 DEF Reach
<1>2. Pruned(D, cleared) =
        {d \in D : \/ AtOrBelow(Home[d]) \cap opaque # {}
                   \/ d \in Reach(Needed(Home[d]), Links(D, cleared))}
  BY DEF Pruned, Needed, Links
<1> QED
  BY <1>1, <1>2

LEMMA CompanionsAreHere ==
    ASSUME TypeOK, GraphInv, NEW d \in Deps, NEW e \in Companions(d)
    PROVE  /\ e \in Deps /\ Home[e] = Home[d] /\ inputs[e] = inputs[d]
           /\ scope[d] \in SharedScopes
<1>1. e \in Deps /\ (<<d, e>> \in both \/ <<e, d>> \in both)
  BY DEF Companions
<1>2. ViewsOfOne(d, e) \/ ViewsOfOne(e, d)
  <2>1. \A pair \in both : ViewsOfOne(pair[1], pair[2])
    BY DEF GraphInv
  <2>2. <<d, e>>[1] = d /\ <<d, e>>[2] = e /\ <<e, d>>[1] = e /\ <<e, d>>[2] = d
    OBVIOUS
  <2> QED
    BY <1>1, <2>1, <2>2
<1> QED
  BY <1>1, <1>2 DEF ViewsOfOne, SharedScopes

(* Pruning leaves everything that what is left links to.                   *)
LEMMA PruningCloses ==
    ASSUME TypeOK, GraphInv, NEW D, D \subseteq Deps, NEW cleared, NEW more,
           Closed(D, cleared), cleared \subseteq more
    PROVE  Closed(Pruned(D, more), more)
<1> DEFINE P == Pruned(D, more)
           links == Links(D, more)
<1>1. P = {d \in D : d \in Reach(Needed(Home[d]), links)}
  BY PrunedIsReached
<1>2. \A n \in Suites : uses[n] \subseteq P
  <2> SUFFICES ASSUME NEW n \in Suites, NEW d \in uses[n] PROVE d \in P
    OBVIOUS
  <2>1. d \in Needed(Home[d]) /\ d \in Deps /\ d \in D
    BY UsedIsNeeded DEF Closed
  <2>2. d \in Reach(Needed(Home[d]), links)
    BY <2>1 DEF Reach
  <2> QED
    BY <1>1, <2>1, <2>2
<1>3. ASSUME NEW d \in P, NEW e \in links[d], e \in D, Home[e] \in AtOrAbove(Home[d])
      PROVE  e \in P
  <2>1. d \in Reach(Needed(Home[d]), links) /\ d \in Deps /\ e \in Deps
    BY <1>1, <1>3
  <2>2. e \in Reach(Needed(Home[d]), links)
    BY <1>3, <2>1, ReachStep
  <2>3. AtOrBelow(Home[d]) \subseteq AtOrBelow(Home[e])
    BY <1>3, <2>1, Levels, DependenciesAssumption
  <2>4. Needed(Home[d]) \subseteq Needed(Home[e])
    BY <2>3 DEF Needed
  <2>5. e \in Reach(Needed(Home[e]), links)
    BY <2>2, <2>4, ReachMonotone
  <2> QED
    BY <1>1, <1>3, <2>5
<1>4. ASSUME NEW d \in P, NEW e \in Companions(d) PROVE e \in P
  <2>1. d \in D /\ d \in Deps
    BY <1>1
  <2>2. e \in links[d] /\ e \in D
    BY <2>1, <1>4 DEF Links, Closed
  <2>3. Home[e] \in AtOrAbove(Home[d])
    BY <1>4, <2>1, CompanionsAreHere, Levels, DependenciesAssumption
  <2> QED
    BY <1>3, <2>2, <2>3
<1>5. ASSUME NEW d \in P \ more, NEW e \in inputs[d] PROVE e \in P
  <2>1. d \in D \ more /\ d \in D \ cleared /\ d \in Deps
    BY <1>1, <1>5
  <2>2. e \in links[d] /\ e \in D
    BY <2>1, <1>5 DEF Links, Closed
  <2>3. Home[e] \in AtOrAbove(Home[d])
    BY <1>5, <2>1 DEF GraphInv
  <2> QED
    BY <1>3, <2>2, <2>3
<1> HIDE DEF P
<1> QED
  BY <1>2, <1>4, <1>5 DEF Closed, P

(* When tests take the inputs of shared dependencies, clearing the inputs  *)
(* of shared ones never makes another shared one unreachable.              *)
LEMMA SharedStayReached ==
    ASSUME TypeOK, GraphInv, TestsTakeInputs, NEW D, D \subseteq Deps, NEW cleared, NEW more,
           Closed(D, cleared), cleared \subseteq more, \A s \in more : scope[s] \in SharedScopes,
           NEW d \in Original \cap D, scope[d] \in SharedScopes
    PROVE  d \in Pruned(D, more)
<1> DEFINE N == Needed(Home[d])
           links == Links(D, more)
           all == Links(Deps, {})
           R == Reach(N, links)
           Elsewhere == {e \in Deps : Home[e] \notin AtOrBelow(Home[d])}
           Inputs == {e \in Deps : /\ scope[e] \notin SharedScopes
                                   /\ \E s \in Deps : scope[s] \in SharedScopes /\ e \in Reach(inputs[s], inputs)}
           K == R \cup Elsewhere \cup Inputs
<1>1. d \in Deps /\ Home[d] \in Suites /\ inputs \in [Deps -> SUBSET Deps]
  BY DependenciesAssumption DEF TypeOK
<1>2. N \subseteq D /\ N \subseteq Deps /\ N \subseteq R
  <2>1. AtOrBelow(Home[d]) \subseteq Suites
    BY <1>1, Levels
  <2>2. N \subseteq D
    BY <2>1 DEF Needed, Closed
  <2> QED
    BY <2>2, ReachFromStart
<1>3. R \subseteq D
  <2>1. \A e \in D : links[e] \subseteq D
    BY DEF Links, Closed
  <2> QED
    BY <1>2, <2>1, ReachLeast
<1>4. ASSUME NEW s \in Deps, scope[s] \in SharedScopes, NEW e \in Reach(inputs[s], inputs)
      PROVE  e \in K
  <2>1. e \in Deps
    BY DEF Reach
  <2>2. CASE scope[e] \in SharedScopes /\ Home[e] \in AtOrBelow(Home[d])
    <3>1. PICK n \in AtOrBelow(Home[e]) : e \in uses[n]
      BY <1>4, <2>2 DEF TestsTakeInputs
    <3>2. Home[d] \in AtOrAbove(Home[e])
      BY <1>1, <2>1, <2>2, Levels, DependenciesAssumption
    <3>3. AtOrBelow(Home[e]) \subseteq AtOrBelow(Home[d])
      BY <1>1, <2>1, <3>2, Levels, DependenciesAssumption
    <3>4. e \in N
      BY <3>1, <3>3 DEF Needed
    <3> QED
      BY <1>2, <3>4
  <2>3. CASE scope[e] \notin SharedScopes
    BY <1>4, <2>1, <2>3
  <2>4. CASE Home[e] \notin AtOrBelow(Home[d])
    BY <2>1, <2>4
  <2> QED
    BY <2>2, <2>3, <2>4
<1>5. ASSUME NEW e \in R PROVE all[e] \subseteq K
  <2>1. e \in D /\ e \in Deps
    BY <1>3
  <2>2. all[e] = inputs[e] \cup Companions(e)
    BY <2>1 DEF Links
  <2>3. Companions(e) \subseteq R
    <3>1. Companions(e) \subseteq links[e] /\ Companions(e) \subseteq Deps
      BY <2>1 DEF Links, Companions
    <3> QED
      BY <1>5, <3>1, ReachStep
  <2>4. CASE e \in more
    <3>1. inputs[e] \subseteq Reach(inputs[e], inputs)
      BY <1>1, <2>1, ReachFromStart
    <3> QED
      BY <1>4, <2>1, <2>2, <2>3, <2>4, <3>1
  <2>5. CASE e \notin more
    <3>1. inputs[e] \subseteq links[e] /\ inputs[e] \subseteq Deps
      BY <1>1, <2>1, <2>5 DEF Links
    <3>2. inputs[e] \subseteq R
      BY <1>5, <3>1, ReachStep
    <3> QED
      BY <2>2, <2>3, <3>2
  <2> QED
    BY <2>4, <2>5
<1>6. ASSUME NEW e \in Elsewhere PROVE all[e] \subseteq Elsewhere
  <2> SUFFICES ASSUME NEW f \in all[e] PROVE f \in Elsewhere
    OBVIOUS
  <2>1. f \in inputs[e] \/ f \in Companions(e)
    BY DEF Links
  <2>2. f \in Deps /\ Home[f] \in AtOrAbove(Home[e])
    <3>1. CASE f \in inputs[e]
      BY <1>1, <3>1 DEF GraphInv
    <3>2. CASE f \in Companions(e)
      BY <3>2, CompanionsAreHere, Levels, DependenciesAssumption
    <3> QED
      BY <2>1, <3>1, <3>2
  <2>3. ASSUME Home[f] \in AtOrBelow(Home[d]) PROVE Home[e] \in AtOrBelow(Home[d])
    <3>1. Home[e] \in AtOrBelow(Home[f])
      BY <2>2, Levels, DependenciesAssumption
    <3>2. Home[d] \in AtOrAbove(Home[f])
      BY <1>1, <2>2, <2>3, Levels, DependenciesAssumption
    <3> QED
      BY <1>1, <2>2, <3>1, <3>2, Levels, DependenciesAssumption
  <2> QED
    BY <2>2, <2>3
<1>7. ASSUME NEW e \in Inputs PROVE all[e] \subseteq K
  <2>1. PICK s \in Deps : scope[s] \in SharedScopes /\ e \in Reach(inputs[s], inputs)
    OBVIOUS
  <2>2. Companions(e) = {}
    BY CompanionsAreHere
  <2>3. inputs[e] \subseteq Reach(inputs[s], inputs)
    BY <1>1, <2>1, ReachStep
  <2>4. all[e] = inputs[e] \cup Companions(e)
    BY DEF Links
  <2> QED
    BY <1>4, <2>1, <2>2, <2>3, <2>4
<1>8. Reach(N, all) \subseteq K
  <2>1. K \subseteq Deps
    BY <1>3
  <2>2. \A e \in K : all[e] \subseteq K
    BY <1>5, <1>6, <1>7
  <2> HIDE DEF K
  <2>3. N \subseteq K
    BY <1>2 DEF K
  <2> HIDE DEF N, all
  <2> QED
    BY <2>1, <2>2, <2>3, ReachLeast
<1>9. d \in Reach(N, all)
  BY PrunedIsReached DEF Original
<1>10. d \notin Elsewhere /\ d \notin Inputs
  BY <1>1, Levels
<1>11. d \in R
  BY <1>8, <1>9, <1>10
<1> QED
  BY <1>11, PrunedIsReached

-----------------------------------------------------------------------------

LEMMA OriginalStays == ASSUME UNCHANGED graph PROVE UNCHANGED Original /\ (GraphInv => GraphInv') /\ (TestsTakeInputs' <=> TestsTakeInputs)
<1> USE DEF graph
<1>1. UNCHANGED Original
  BY DEF Original, Pruned, Companions
<1>2. GraphInv => GraphInv'
  BY DEF GraphInv, ViewsOfOne
<1>3. TestsTakeInputs' <=> TestsTakeInputs
  BY DEF TestsTakeInputs
<1> QED
  BY <1>1, <1>2, <1>3

(* No step but the arrival of a shared value prunes.                       *)
LEMMA GraphStays == [Next]_vars => UNCHANGED graph
  BY DEF Next, vars, Collect, ProvideShared, ProvideLocal, SkipStub, FailToProvide, StartTests, EnterSuite

LEMMA NextPlan ==
    ASSUME TypeOK, GraphInv, PlanInv, [Next]_vars
    PROVE  PlanInv'
<1> USE DEF graph, plan
<1>1. UNCHANGED graph /\ UNCHANGED Original
  BY GraphStays, OriginalStays
<1>2. ASSUME UNCHANGED <<kept, leaf>> PROVE Closed(kept, leaf)'
  BY <1>1, <1>2 DEF PlanInv, Closed, Companions
<1>3. CASE Collect
  BY <1>1, <1>2, <1>3 DEF Collect, PlanInv
<1>4. ASSUME NEW d \in Deps, ProvideShared(d) PROVE PlanInv'
  <2>1. kept \subseteq Deps /\ leaf \subseteq leaf \cup {d}
    BY DEF TypeOK
  <2>2. Closed(Pruned(kept, leaf \cup {d}), leaf \cup {d})
    BY <2>1, PruningCloses DEF PlanInv
  <2>3. Closed(kept, leaf)'
    BY <1>1, <1>4, <2>2 DEF ProvideShared, Closed, Companions
  <2>4. kept' \subseteq kept
    BY <1>4, PrunedOnlyRemoves DEF ProvideShared
  <2> QED
    BY <1>1, <1>4, <2>3, <2>4 DEF ProvideShared, PlanInv
<1>5. ASSUME NEW d \in Deps, ProvideLocal(d) \/ SkipStub(d) \/ FailToProvide(d) PROVE PlanInv'
  BY <1>1, <1>2, <1>5 DEF ProvideLocal, SkipStub, FailToProvide, PlanInv
<1>6. CASE StartTests
  BY <1>1, <1>2, <1>6 DEF StartTests, PlanInv
<1>7. ASSUME NEW n \in Suites, EnterSuite(n) PROVE PlanInv'
  BY <1>1, <1>2, <1>7 DEF EnterSuite, PlanInv
<1>8. CASE UNCHANGED vars
  BY <1>1, <1>2, <1>8 DEF vars, PlanInv
<1> QED
  BY <1>3, <1>4, <1>5, <1>6, <1>7, <1>8 DEF Next

LEMMA NextParent ==
    ASSUME TypeOK, ParentInv, [Next]_vars
    PROVE  ParentInv'
<1> USE DEF graph, plan
<1>1. CASE Collect
  <2>1. inputs \in [Deps -> SUBSET Deps] /\ NeededInParent \subseteq Deps
    BY SharedAreHandedOver DEF TypeOK
  <2>2. \A d \in NeededInParent : inputs[d] \subseteq NeededInParent
    BY <2>1, ReachStep DEF NeededInParent
  <2> QED
    BY <1>1, <2>2 DEF Collect, ParentInv
<1>2. CASE ~Collect
  <2>1. UNCHANGED <<inputs, inParent>> /\ (phase' = "collect" => phase = "collect")
    BY <1>2 DEF Next, vars, ProvideShared, ProvideLocal, SkipStub, FailToProvide, StartTests, EnterSuite
  <2> QED
    BY <2>1 DEF ParentInv
<1> QED
  BY <1>1, <1>2

(* The count of values is exact as long as all of them are in the plan.    *)
LEMMA CountIsExact ==
    ASSUME TypeOK, NEW n \in Suites, NoneOutlived, IsMaterialized(n)
    PROVE  At(n, kept) \subseteq values
<1>1. At(n, values) \subseteq At(n, kept)
  BY DEF NoneOutlived, At
<1>2. IsFiniteSet(At(n, kept))
  <2>1. IsFiniteSet(Deps)
    BY FS_Interval, DependenciesAssumption DEF Deps
  <2>2. At(n, kept) \subseteq Deps
    BY DEF TypeOK, At
  <2> QED
    BY <2>1, <2>2, FS_Subset
<1>3. At(n, values) = At(n, kept)
  BY <1>1, <1>2, FS_Subset DEF IsMaterialized
<1> QED
  BY <1>3 DEF At

LEMMA NextBuild ==
    ASSUME TypeOK, GraphInv, HandOverInv, PlanInv, BuildInv, [Next]_vars
    PROVE  BuildInv'
<1> USE DEF graph, plan
<1>1. CASE phase # "run"
  <2>1. UNCHANGED <<built, entered>>
    BY <1>1 DEF Next, vars, Collect, ProvideShared, ProvideLocal, SkipStub, FailToProvide, StartTests, EnterSuite
  <2>2. built = {} /\ entered = {}
    BY <1>1 DEF HandOverInv, PlanInv
  <2> QED
    BY <2>1, <2>2 DEF BuildInv
<1>2. ASSUME NEW n \in Suites, EnterSuite(n) PROVE BuildInv'
  <2>1. /\ phase = "run" /\ UNCHANGED <<kept, leaf, graph>>
        /\ entered' = entered \cup {n} /\ AtOrAbove(n) \subseteq entered'
        /\ values \subseteq values' /\ built \subseteq built'
    BY <1>2 DEF EnterSuite, At
  <2>2. \A m \in entered' : AtOrAbove(m) \subseteq entered'
    BY <2>1 DEF BuildInv
  <2>3. \A d \in built' : d \in kept' \ leaf' /\ Home[d] \in entered'
    <3>1. \A d \in built' \ built : d \in At(n, kept) \ values
      BY <1>2 DEF EnterSuite
    <3> QED
      BY <2>1, <3>1 DEF BuildInv, PlanInv, At
  <2>4. ASSUME NoneOutlived', NEW m \in entered' PROVE At(m, kept') \subseteq values'
    <3>1. NoneOutlived
      BY <2>1, <2>4 DEF NoneOutlived
    <3>2. CASE m \in entered
      BY <2>1, <3>1, <3>2 DEF BuildInv
    <3>3. CASE m = n
      BY <1>2, <2>1, <3>1, <3>3, CountIsExact DEF EnterSuite
    <3> QED
      BY <2>1, <3>2, <3>3
  <2>5. \A m \in entered' : At(m, kept)' = At(m, kept')
    BY DEF At
  <2> QED
    BY <2>2, <2>3, <2>4, <2>5 DEF BuildInv
<1>3. CASE phase = "run" /\ ~\E n \in Suites : EnterSuite(n)
  <2>1. UNCHANGED <<kept, leaf, values, built, entered>>
    BY <1>3 DEF Next, vars, Collect, ProvideShared, ProvideLocal, SkipStub, FailToProvide, StartTests
  <2> QED
    BY <2>1 DEF BuildInv, NoneOutlived, At
<1> QED
  BY <1>1, <1>2, <1>3

-----------------------------------------------------------------------------

LEMMA RootedIsKept ==
    ASSUME PlanInv, \A d \in Original : scope[d] \in SharedScopes => d \in kept, NEW d, Rooted(d)
    PROVE  d \in kept
  BY DEF PlanInv, Closed, Rooted

LEMMA HandedOverAreRooted ==
    ASSUME TypeOK, GraphInv, PlanInv, TestsTakeInputs, phase = "collect", NEW d \in HandedOver(NeededInParent)
    PROVE  scope[d] = "HostedRpc" \/ Rooted(d)
<1> DEFINE S == {e \in kept : scope[e] \in SharedScopes}
           K == S \cup {e \in Deps : \E s \in S : e \in Reach(inputs[s], inputs)}
<1>1. kept = Original /\ S \subseteq Deps /\ inputs \in [Deps -> SUBSET Deps]
  BY DEF TypeOK, PlanInv
<1>2. NeededInParent \subseteq K
  <2>1. \A e \in S : inputs[e] \subseteq Reach(inputs[e], inputs) /\ inputs[e] \subseteq Deps
    BY <1>1, ReachFromStart
  <2>2. \A s \in S : \A e \in Reach(inputs[s], inputs) :
           e \in Deps /\ inputs[e] \subseteq Deps /\ inputs[e] \subseteq Reach(inputs[s], inputs)
    <3> SUFFICES ASSUME NEW s \in S, NEW e \in Reach(inputs[s], inputs), NEW f \in inputs[e], e \in Deps
                 PROVE  f \in Deps /\ f \in Reach(inputs[s], inputs)
      BY DEF Reach
    <3> QED
      BY <1>1, ReachStep
  <2>3. \A e \in K : inputs[e] \subseteq K
    BY <2>1, <2>2
  <2>4. K \subseteq Deps /\ S \subseteq K
    BY <1>1
  <2>5. NeededInParent = Reach(S, inputs)
    BY DEF NeededInParent
  <2> HIDE DEF K, S
  <2> QED
    BY <2>3, <2>4, <2>5, ReachLeast
<1>3. CASE scope[d] # "HostedRpc"
  <2>1. d \in K /\ (~spawnWorkers \/ scope[d] \in SharedScopes)
    BY <1>2, <1>3 DEF HandedOver, SharedScopes
  <2>2. CASE d \in S
    BY <1>1, <2>2 DEF Rooted
  <2>3. CASE \E s \in S : d \in Reach(inputs[s], inputs)
    <3>1. PICK s \in Deps : scope[s] \in SharedScopes /\ d \in Reach(inputs[s], inputs)
      BY <1>1, <2>3
    <3>2. PICK n \in AtOrBelow(Home[d]) : d \in uses[n]
      BY <2>1, <3>1 DEF TestsTakeInputs
    <3>3. d \in Deps
      BY <3>1 DEF Reach
    <3> QED
      BY <3>2, <3>3, Levels, DependenciesAssumption DEF Rooted
  <2> QED
    BY <2>1, <2>2, <2>3
<1> QED
  BY <1>3

LEMMA NextRooted ==
    ASSUME TypeOK, GraphInv, PlanInv, RootedInv, [Next]_vars
    PROVE  RootedInv'
<1> USE DEF graph, plan
<1>1. UNCHANGED graph /\ UNCHANGED Original /\ (TestsTakeInputs' <=> TestsTakeInputs) /\ PlanInv'
  BY GraphStays, OriginalStays, NextPlan
<1> SUFFICES ASSUME TestsTakeInputs
             PROVE  /\ \A d \in Original : scope[d] \in SharedScopes => d \in kept'
                    /\ \A d \in pending' : scope[d] = "HostedRpc" \/ Rooted(d)
                    /\ phase' \in {"collect", "provide"} => \A d \in values' : Rooted(d)
                    /\ values' \subseteq kept'
                    /\ phase' # "failed"
  BY <1>1 DEF RootedInv, Rooted, NoneOutlived
<1>2. /\ \A d \in Original : scope[d] \in SharedScopes => d \in kept
      /\ \A d \in pending : scope[d] = "HostedRpc" \/ Rooted(d)
      /\ phase \in {"collect", "provide"} => \A d \in values : Rooted(d)
      /\ values \subseteq kept
      /\ phase # "failed"
  BY DEF RootedInv, NoneOutlived
<1>3. \A d : Rooted(d) => d \in kept
  BY <1>2, RootedIsKept
<1>4. CASE Collect
  BY <1>2, <1>4, HandedOverAreRooted DEF Collect
<1>5. ASSUME NEW d \in Deps, ProvideShared(d)
      PROVE  /\ \A e \in Original : scope[e] \in SharedScopes => e \in kept'
             /\ \A e \in pending' : scope[e] = "HostedRpc" \/ Rooted(e)
             /\ \A e \in values' : Rooted(e)
             /\ values' \subseteq kept'
             /\ phase' # "failed"
  <2>1. /\ phase = "provide" /\ d \in kept /\ scope[d] \in SharedScopes
        /\ values' = values \cup {d} /\ pending' = pending \ {d} /\ UNCHANGED phase
        /\ kept' = Pruned(kept, leaf \cup {d})
    BY <1>5 DEF ProvideShared
  <2>2. \A e \in values' : Rooted(e)
    BY <1>2, <2>1 DEF PlanInv, Rooted
  <2>3. ASSUME NEW e \in Original, scope[e] \in SharedScopes PROVE e \in kept'
    <3>1. Closed(kept, leaf) /\ kept \subseteq Deps
      BY DEF PlanInv, TypeOK
    <3>2. \A s \in leaf \cup {d} : scope[s] \in SharedScopes
      BY <2>1 DEF PlanInv
    <3>3. e \in kept
      BY <1>2, <2>3
    <3>4. e \in Pruned(kept, leaf \cup {d})
      BY <2>3, <3>1, <3>2, <3>3, SharedStayReached
    <3> QED
      BY <2>1, <3>4
  <2>4. \A n \in Suites : uses[n] \subseteq kept'
    BY <1>1 DEF PlanInv, Closed
  <2>5. values' \subseteq kept'
    BY <2>2, <2>3, <2>4 DEF Rooted
  <2> QED
    BY <1>2, <2>1, <2>2, <2>3, <2>5
<1>6. ASSUME NEW d \in Deps, ProvideLocal(d)
      PROVE  /\ UNCHANGED kept
             /\ \A e \in pending' : scope[e] = "HostedRpc" \/ Rooted(e)
             /\ \A e \in values' : Rooted(e)
             /\ values' \subseteq kept'
             /\ phase' # "failed"
  <2>1. /\ phase = "provide" /\ d \in pending /\ scope[d] = "Local" /\ d \in kept
        /\ values' = values \cup {d} /\ pending' = pending \ {d} /\ UNCHANGED <<phase, kept>>
    BY <1>6 DEF ProvideLocal, NextToProvide
  <2> QED
    BY <1>2, <2>1
<1>7. ASSUME NEW d \in Deps, SkipStub(d)
      PROVE  UNCHANGED <<kept, values, phase>> /\ pending' \subseteq pending
  BY <1>7 DEF SkipStub
<1>8. ASSUME NEW d \in Deps, FailToProvide(d) PROVE FALSE
  BY <1>2, <1>3, <1>8 DEF FailToProvide, NextToProvide
<1>9. CASE StartTests
  BY <1>2, <1>9 DEF StartTests
<1>10. ASSUME NEW n \in Suites, EnterSuite(n)
       PROVE  /\ UNCHANGED <<kept, pending>> /\ phase' = "run"
              /\ values' \subseteq kept'
  BY <1>2, <1>10 DEF EnterSuite, At
<1>11. CASE UNCHANGED vars
  BY <1>2, <1>11 DEF vars
<1> QED
  BY <1>2, <1>4, <1>5, <1>6, <1>7, <1>8, <1>9, <1>10, <1>11 DEF Next

AvailableInv == OwnerInv /\ GraphInv /\ PlanInv /\ BuildInv /\ ParentInv /\ RootedInv

LEMMA InitAvailable == Init => AvailableInv
<1> SUFFICES ASSUME Init PROVE AvailableInv
  OBVIOUS
<1>1. OwnerInv
  BY InitOwner
<1>2. TypeOK
  BY <1>1 DEF OwnerInv
<1>3. GraphInv
  BY DEF Init, GraphInv
<1>4. kept = Original /\ leaf = {} /\ values = {} /\ phase = "collect" /\ entered = {}
      /\ built = {} /\ pending = {} /\ inParent = {}
  BY DEF Init, Original
<1>5. Closed(Deps, {})
  BY <1>2 DEF TypeOK, Closed, Companions
<1>6. Closed(Original, {})
  BY <1>2, <1>3, <1>5, PruningCloses DEF Original
<1>7. PlanInv
  BY <1>4, <1>6 DEF PlanInv
<1>8. BuildInv /\ ParentInv /\ RootedInv
  BY <1>4 DEF BuildInv, ParentInv, RootedInv, NoneOutlived
<1> QED
  BY <1>1, <1>3, <1>7, <1>8 DEF AvailableInv

LEMMA NextAvailable == AvailableInv /\ [Next]_vars => AvailableInv'
<1> SUFFICES ASSUME AvailableInv, [Next]_vars PROVE AvailableInv'
  OBVIOUS
<1>1. OwnerInv'
  BY NextOwner DEF AvailableInv
<1>2. TypeOK /\ HandOverInv
  BY DEF AvailableInv, OwnerInv
<1>3. GraphInv'
  BY GraphStays, OriginalStays DEF AvailableInv
<1>4. PlanInv' /\ BuildInv' /\ ParentInv' /\ RootedInv'
  BY <1>2, NextPlan, NextBuild, NextParent, NextRooted DEF AvailableInv
<1> QED
  BY <1>1, <1>3, <1>4 DEF AvailableInv

LEMMA AvailableSafety == Spec => []AvailableInv
  BY InitAvailable, NextAvailable, PTL DEF Spec

(* Values are never of the wrong form, in the parent or in the plan.       *)
LEMMA FormsAreTaken ==
    ASSUME NEW d \in Deps, scope[d] \in Scopes
    PROVE  Constructed(d) \in Takes(d) /\ FormInPlan(d) \in Takes(d)
<1>1. Constructed(d) \in Takes(d)
  BY DEF Constructed, Takes, GetterTakes, GetterOfViewTakes
<1>2. Provided(d) \in Takes(d)
  BY DEF Provided, Takes, GetterTakes, GetterOfViewTakes
<1> QED
  BY <1>1, <1>2 DEF FormInPlan

LEMMA BuiltHaveInputs ==
    ASSUME AvailableInv, NoneOutlived, NEW d \in built
    PROVE  inputs[d] \subseteq values
<1> SUFFICES ASSUME NEW e \in inputs[d] PROVE e \in values
  OBVIOUS
<1>1. d \in kept \ leaf /\ Home[d] \in entered /\ d \in Deps
  BY DEF AvailableInv, BuildInv, OwnerInv, TypeOK
<1>2. e \in kept /\ Home[e] \in AtOrAbove(Home[d])
  BY <1>1 DEF AvailableInv, PlanInv, Closed, GraphInv
<1>3. Home[e] \in entered
  BY <1>1, <1>2 DEF AvailableInv, BuildInv
<1> QED
  BY <1>2, <1>3 DEF AvailableInv, BuildInv, At

LEMMA NoneIsLost == AvailableInv => NoneLost
<1> SUFFICES ASSUME AvailableInv, TestsTakeInputs, NEW n \in entered, NEW d \in uses[n]
             PROVE  d \in values
  BY DEF NoneLost, UsedDepsAvailable
<1>1. n \in Suites /\ NoneOutlived
  BY DEF AvailableInv, OwnerInv, TypeOK, RootedInv
<1>2. d \in kept /\ Home[d] \in AtOrAbove(n)
  BY <1>1 DEF AvailableInv, PlanInv, Closed, GraphInv, Visible
<1>3. Home[d] \in entered
  BY <1>2 DEF AvailableInv, BuildInv
<1> QED
  BY <1>1, <1>2, <1>3 DEF AvailableInv, BuildInv, At

(* Whatever the graph, the constructors that run find their inputs, unless  *)
(* the value of a pruned dependency made the count of values wrong          *)
(* (is_materialized); no getter meets a value it does not take.             *)
THEOREM ConstructorsFindInputs == Spec => []InputsAvailable
<1>1. AvailableInv => InputsAvailable
  <2> SUFFICES ASSUME AvailableInv PROVE InputsAvailable
    OBVIOUS
  <2>1. TypeOK
    BY DEF AvailableInv, OwnerInv
  <2>2. \A d \in Deps : Constructed(d) \in Takes(d) /\ FormInPlan(d) \in Takes(d)
    BY <2>1, FormsAreTaken DEF TypeOK
  <2>3. \A d \in inParent : inputs[d] \subseteq inParent
    BY DEF AvailableInv, ParentInv
  <2>4. NoneOutlived => \A d \in built : inputs[d] \subseteq values
    BY BuiltHaveInputs
  <2>5. \A d \in Deps : inputs[d] \subseteq Deps
    BY <2>1 DEF TypeOK
  <2> QED
    BY <2>1, <2>2, <2>3, <2>4, <2>5 DEF InputsAvailable, TypeOK
<1> QED
  BY <1>1, AvailableSafety, PTL

(* Tests that take the inputs of shared dependencies as well find every     *)
(* dependency they take, for every graph and in both kinds of run.          *)
THEOREM TestsFindDeps == Spec => []NoneLost
  BY AvailableSafety, NoneIsLost, PTL

(* For the same suites no value comes for a dependency that was pruned      *)
(* meanwhile: apply_cloneable_value and its kin never fail.                 *)
THEOREM NoValueIsRefused == Spec => []NoneRefused
<1>1. AvailableInv => NoneRefused
  BY DEF AvailableInv, RootedInv, NoneRefused, ProvidedDepIsThere
<1> QED
  BY <1>1, AvailableSafety, PTL
=============================================================================
