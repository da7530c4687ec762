---------------------------- MODULE Dependencies ----------------------------
(***************************************************************************)
(* How a #[test_dep] value reaches a test: prune_unused_deps drops what no *)
(* test asks for, the parent constructs the values that are shared between *)
(* processes (collect_parent_shared_dependencies), each of them is put     *)
(* into the plan of the process that runs the tests, which prunes again,   *)
(* and what is still missing is constructed when a suite is entered        *)
(* (test-r-core/src/execution/mod.rs; the callers are in sync.rs and       *)
(* tokio.rs).                                                              *)
(*                                                                         *)
(* Dependencies are numbered so that constructor inputs have smaller       *)
(* numbers (the graph is acyclic) and live in the root suite or in one     *)
(* nested suite.  The initial state picks a graph, the scopes and what     *)
(* the tests ask for.  A dependency declared with worker = both is two of  *)
(* them, companions of each other.  Equal names in two suites are left     *)
(* out.                                                                    *)
(***************************************************************************)
EXTENDS Naturals, FiniteSets

CONSTANTS
    MaxDep,        \* number of registered dependencies
    Home           \* the suite each of them is registered in

Deps   == 1..MaxDep
Suites == {"root", "inner"}

ASSUME DependenciesAssumption ==
    /\ MaxDep \in Nat
    /\ Home \in [Deps -> Suites]

VARIABLES
    spawnWorkers,  \* do worker processes run the tests, or this one?
    scope,         \* DepScope; "Local" is Shared and PerWorker
    inputs,        \* the constructor parameters of each dependency
    both,          \* pairs of a Hosted and a HostedRpc view of one owner
    uses,          \* the dependencies the tests of a suite take
    opaque,        \* suites with a test whose dependencies are not known
    kept,          \* `dependencies` of the plan that runs the tests
    leaf,          \* those whose own dependencies were cleared
    values,        \* `materialized_dependencies` of that plan
    inParent,      \* dependencies the parent constructed
    pending,       \* values on their way into the plan
    built,         \* dependencies the process that runs the tests constructed
    entered,       \* suites pick_next has entered
    phase          \* "collect", "provide", "run" or "failed"

graph == <<spawnWorkers, scope, inputs, both, uses, opaque>>
plan  == <<kept, leaf, values>>
vars  == <<graph, plan, inParent, pending, built, entered, phase>>

SharedScopes == {"Cloneable", "Hosted", "HostedRpc"}
Scopes       == SharedScopes \cup {"Local"}

AtOrAbove(n) == IF n = "root" THEN {"root"} ELSE Suites

\* Mutation: a suite prunes without what the tests below it need.
OwnTestsOnly(n) == {n}

AtOrBelow(n) == IF n = "root" THEN Suites ELSE {"inner"}

Visible(n) == {d \in Deps : Home[d] \in AtOrAbove(n)}

(* worker = both registers two dependencies with the inputs of the one      *)
(* constructor in one suite.                                                *)
ViewsOfOne(owner, stub) ==
    /\ scope[owner] = "Hosted" /\ scope[stub] = "HostedRpc"
    /\ Home[owner] = Home[stub]
    /\ inputs[owner] = inputs[stub]

(* Each of the two names the other as its companion.                        *)
Companions(d) == {e \in Deps : <<d, e>> \in both \/ <<e, d>> \in both}

-----------------------------------------------------------------------------
\* Mutation: the inputs of an input are not followed.
OneLevelOnly(start, next) == start \cup UNION {next[d] : d \in start}

(* Transitive closure: the least set with start that next does not leave.  *)
Reach(start, next) ==
    {d \in Deps : \A K \in SUBSET Deps :
        start \subseteq K /\ (\A e \in K : next[e] \subseteq K) => d \in K}

\* Mutation: the companions are cleared with the inputs.
PrunedAlone(D, cleared) ==
    LET links     == [d \in Deps |-> IF d \in D \ cleared THEN inputs[d] \cup Companions(d)
                                      ELSE {}]
        needed(n) == UNION {uses[m] : m \in AtOrBelow(n)}
    IN  {d \in D : \/ AtOrBelow(Home[d]) \cap opaque # {}
                   \/ d \in Reach(needed(Home[d]), links)}

(* prune_unused_deps for the dependencies D when those in cleared have no  *)
(* inputs of their own; a companion stays with what it is declared on.  A  *)
(* test with unknown dependencies stops it in its suite and above.         *)
Pruned(D, cleared) ==
    LET links     == [d \in Deps |-> (IF d \in D \ cleared THEN inputs[d] ELSE {})
                                      \cup (IF d \in D THEN Companions(d) ELSE {})]
        needed(n) == UNION {uses[m] : m \in AtOrBelow(n)}
    IN  {d \in D : \/ AtOrBelow(Home[d]) \cap opaque # {}
                   \/ d \in Reach(needed(Home[d]), links)}

\* Mutation: the parent plans for everything registered, used or not.
PlannedBeforePruning == Reach({d \in Deps : scope[d] \in SharedScopes}, inputs)

(* compute_parent_construction_plan: the shared scopes that are left and   *)
(* everything their constructors take, directly or not.                    *)
NeededInParent ==
    Reach({d \in kept : scope[d] \in SharedScopes}, inputs)

(* The round of sorted_dependencies (pop_all) a dependency comes out in.   *)
Level[d \in Deps] ==
    LET own == {e \in inputs[d] : Home[e] = Home[d]}
    IN  IF own = {} THEN 0
        ELSE 1 + CHOOSE k \in {Level[e] : e \in own} : \A e \in own : Level[e] <= k

-----------------------------------------------------------------------------
Init ==
    /\ spawnWorkers \in BOOLEAN
    /\ scope \in [Deps -> Scopes]
    /\ inputs \in {f \in [Deps -> SUBSET Deps] :
          \A d \in Deps : \A e \in f[d] : e < d /\ Home[e] \in AtOrAbove(Home[d])}
    /\ both \in {B \in SUBSET (Deps \X Deps) :
          Cardinality(B) <= 1 /\ \A pair \in B : ViewsOfOne(pair[1], pair[2])}
    /\ opaque \in SUBSET Suites
    /\ uses \in {f \in [Suites -> SUBSET Deps] :
          \A n \in Suites : /\ f[n] \subseteq Visible(n)
                            /\ n \in opaque => f[n] = Visible(n)}
    /\ kept = Pruned(Deps, {})
    /\ leaf = {}
    /\ values = {}
    /\ inParent = {}
    /\ pending = {}
    /\ built = {}
    /\ entered = {}
    /\ phase = "collect"

\* Mutation: only Cloneable values are shipped.
OnlyCloneables(D) == {d \in D : scope[d] = "Cloneable"}

(* What is put into the plan: a worker makes a stub for every registered   *)
(* HostedRpc dependency and is sent Cloneable and Hosted ones; without     *)
(* workers everything the parent constructed is installed.                 *)
HandedOver(D) ==
    IF spawnWorkers
    THEN {d \in D : scope[d] \in {"Cloneable", "Hosted"}}
         \cup {d \in Deps : scope[d] = "HostedRpc"}
    ELSE D

Collect ==
    /\ phase = "collect"
    /\ inParent' = NeededInParent
    /\ pending' = HandedOver(NeededInParent)
    /\ phase' = "provide"
    /\ UNCHANGED <<graph, plan, built, entered>>

(* Stubs first in a worker, then Cloneable values, then descriptors; the   *)
(* order without workers is that of the apply and install functions.       *)
Turn(d) ==
    CASE scope[d] = "Cloneable" -> 1
      [] scope[d] = "Hosted"    -> 2
      [] scope[d] = "HostedRpc" -> IF spawnWorkers THEN 0 ELSE 3
      [] scope[d] = "Local"     -> 4

(* Values of one kind come in the order they were collected in: the root   *)
(* suite first, its inputs before a dependency.  Stubs come out of a map.  *)
ComesBefore(e, d) ==
    \/ Turn(e) < Turn(d)
    \/ /\ Turn(e) = Turn(d)
       /\ scope[d] # "HostedRpc"
       /\ \/ Home[e] = "root" /\ Home[d] = "inner"
          \/ Home[e] = Home[d] /\ Level[e] < Level[d]

NextToProvide(d) == d \in pending /\ \A e \in pending : ~ComesBefore(e, d)

(* provide_cloneable_value: the dependency becomes a leaf with a value,    *)
(* and the plan is pruned again.                                           *)
ProvideShared(d) ==
    /\ phase = "provide"
    /\ NextToProvide(d)
    /\ scope[d] \in SharedScopes
    /\ d \in kept
    /\ leaf' = leaf \cup {d}
    /\ values' = values \cup {d}
    /\ kept' = Pruned(kept, leaf \cup {d})
    /\ pending' = pending \ {d}
    /\ UNCHANGED <<graph, inParent, built, entered, phase>>

(* provide_materialized_shared_value: a value, and nothing else changes.   *)
ProvideLocal(d) ==
    /\ phase = "provide"
    /\ NextToProvide(d)
    /\ scope[d] = "Local"
    /\ d \in kept
    /\ values' = values \cup {d}
    /\ pending' = pending \ {d}
    /\ UNCHANGED <<graph, kept, leaf, inParent, built, entered, phase>>

(* A stub for a dependency that is not in the plan is skipped ...          *)
SkipStub(d) ==
    /\ phase = "provide"
    /\ NextToProvide(d)
    /\ scope[d] = "HostedRpc"
    /\ d \notin kept
    /\ pending' = pending \ {d}
    /\ UNCHANGED <<graph, plan, inParent, built, entered, phase>>

(* ... for anything else `assert!(applied)` fails.                         *)
FailToProvide(d) ==
    /\ phase = "provide"
    /\ NextToProvide(d)
    /\ scope[d] # "HostedRpc"
    /\ d \notin kept
    /\ phase' = "failed"
    /\ UNCHANGED <<graph, plan, inParent, pending, built, entered>>

StartTests ==
    /\ phase = "provide"
    /\ pending = {}
    /\ phase' = "run"
    /\ UNCHANGED <<graph, plan, inParent, pending, built, entered>>

(* The form of a value: of its "own" type, a "stub", the "cell" of an      *)
(* owner, or what the two views of one owner "share".  Constructors give   *)
(* the last three only in place of the first ...                           *)
Constructed(d) ==
    CASE Companions(d) # {}                             -> "shared"
      [] Companions(d) = {} /\ scope[d] = "HostedRpc"   -> "cell"
      [] Companions(d) = {} /\ scope[d] # "HostedRpc"   -> "own"

(* ... codecs, descriptors and factories make of each what a test takes.   *)
Provided(d) == IF scope[d] = "HostedRpc" THEN "stub" ELSE "own"

(* What a plan holds, and what the parent's constructors are given.        *)
FormInPlan(d) == IF d \in built THEN Constructed(d) ELSE Provided(d)

(* The getter of a single dependency downcasts to its type, that of an RPC *)
(* owner wraps the cell in a channel of its own if it is no stub ...       *)
GetterTakes(d) == IF scope[d] = "HostedRpc" THEN {"stub", "cell"} ELSE {"own"}

(* ... and those of two views reach into what they share.                  *)
GetterOfViewTakes(d) == IF scope[d] = "HostedRpc" THEN {"stub", "shared"} ELSE {"own", "shared"}

Takes(d) == IF Companions(d) # {} THEN GetterOfViewTakes(d) ELSE GetterTakes(d)

At(n, D) == {d \in D : Home[d] = n}

(* is_materialized compares how many there are, not which.                 *)
IsMaterialized(n) == Cardinality(At(n, values)) = Cardinality(At(n, kept))

(* pick_next enters a suite: materialize_deps runs the constructors of the *)
(* dependencies that have no value yet.                                    *)
EnterSuite(n) ==
    /\ phase = "run"
    /\ n \notin entered
    /\ AtOrAbove(n) \subseteq entered \cup {n}
    /\ entered' = entered \cup {n}
    /\ values' = IF IsMaterialized(n) THEN values ELSE values \cup At(n, kept)
    /\ built' = IF IsMaterialized(n) THEN built ELSE built \cup (At(n, kept) \ values)
    /\ UNCHANGED <<graph, kept, leaf, inParent, pending, phase>>

Finished == phase = "failed" \/ entered = Suites

Next ==
    \/ Collect
    \/ \E d \in Deps : ProvideShared(d) \/ ProvideLocal(d) \/ SkipStub(d) \/ FailToProvide(d)
    \/ StartTests
    \/ \E n \in Suites : EnterSuite(n)
    \/ Finished /\ UNCHANGED vars

Spec == Init /\ [][Next]_vars

-----------------------------------------------------------------------------
(* Every variable has its type.                                             *)
TypeOK ==
    /\ spawnWorkers \in BOOLEAN
    /\ scope \in [Deps -> Scopes]
    /\ inputs \in [Deps -> SUBSET Deps]
    /\ both \subseteq Deps \X Deps
    /\ uses \in [Suites -> SUBSET Deps]
    /\ opaque \subseteq Suites
    /\ kept \subseteq Deps
    /\ leaf \subseteq Deps
    /\ values \subseteq Deps
    /\ inParent \subseteq Deps
    /\ pending \subseteq Deps
    /\ built \subseteq Deps
    /\ entered \subseteq Suites
    /\ phase \in {"collect", "provide", "run", "failed"}

(* A test finds every dependency it takes: neither the pruning, nor the     *)
(* prunings after each value that arrives, nor the count that decides       *)
(* whether constructors still have to run may lose one.                     *)
UsedDepsAvailable == \A n \in entered : uses[n] \subseteq values

(* No value comes for a dependency that was pruned meanwhile: "could not be *)
(* pre-populated locally", "did not match any registered dep in this        *)
(* worker" (sync.rs).                                                       *)
ProvidedDepIsThere == phase # "failed"

(* The tests take the inputs of shared dependencies too, so that no value   *)
(* that the parent constructed is pruned: with workers this matters for the *)
(* values that are shipped, without them for all.                           *)
TestsTakeInputs ==
    \A d \in Deps : scope[d] \in SharedScopes =>
        \A e \in Reach(inputs[d], inputs) :
            ~spawnWorkers \/ scope[e] \in SharedScopes =>
                \E n \in AtOrBelow(Home[e]) : e \in uses[n]

(* If tests take the inputs, none of them misses a dependency ...           *)
NoneLost == TestsTakeInputs => UsedDepsAvailable

(* ... and no value is refused.                                             *)
NoneRefused == TestsTakeInputs => ProvidedDepIsThere

(* A value that arrived is pruned with the dependency it is for, but counts *)
(* on: from then on is_materialized may skip constructors.                  *)
NoneOutlived == values \subseteq kept

(* Every constructor that ran, in the process that runs the tests as long   *)
(* as no value outlived its dependency, found its inputs there, and neither *)
(* it nor a test met a value in a form its getter does not take             *)
(* ("Dependency type mismatch"): a parent's constructor sees owners, the    *)
(* others see what was provided.                                            *)
InputsAvailable ==
    /\ \A d \in inParent : \A e \in inputs[d] : e \in inParent /\ Constructed(e) \in Takes(e)
    /\ NoneOutlived => \A d \in built : inputs[d] \subseteq values
    /\ \A d \in built : \A e \in inputs[d] : FormInPlan(e) \in Takes(e)
    /\ \A n \in entered : \A d \in uses[n] \cap values : FormInPlan(d) \in Takes(d)

(* "IPC worker subprocesses ... MUST NOT run those constructors" (args.rs); *)
(* nor does the process itself run one again that it ran as the parent.     *)
OwnersBuiltInParent ==
    /\ \A d \in built : scope[d] = "Local"
    /\ ~spawnWorkers => built \cap inParent = {}

(* The invariant from which OwnersBuiltInParent is proved: what the parent  *)
(* built for the plan is in it or on its way, and no constructor runs while *)
(* values are on their way.                                                 *)
HandOverInv ==
    /\ phase \in {"provide", "run"} =>
          \A d \in kept :
              scope[d] \in SharedScopes \/ (~spawnWorkers /\ d \in inParent)
                  => d \in values \cup pending
    /\ phase = "run" => pending = {}
    /\ phase # "run" => built = {}

(* The two together and their types: what the proof carries along.          *)
OwnerInv == TypeOK /\ HandOverInv /\ OwnersBuiltInParent
=============================================================================
