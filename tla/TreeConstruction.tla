--------------------------- MODULE TreeConstruction ---------------------------
(***************************************************************************)
(* TestSuiteExecution::construct: suite properties are applied to the      *)
(* registered and generated tests, the tests are filtered and shuffled,    *)
(* properties, dependencies and tests are inserted into the tree one after *)
(* another, and the sequential locks are handed down (execution/mod.rs,    *)
(* internal.rs).                                                           *)
(*                                                                         *)
(* SuiteTree takes the finished tree as a constant; here it is shown that  *)
(* what construct leaves behind is such a tree.  Registration runs in      *)
(* constructor functions of the test binary, so the order of properties    *)
(* and of dependencies is arbitrary; tests are numbered in the order they  *)
(* have after registration and shuffling.                                  *)
(***************************************************************************)
EXTENDS CommandLine

CONSTANTS
    Segments,      \* names of crates and modules
    Modules,       \* paths in which something may be registered
    MaxProps,      \* number of suite properties that are registered
    CommandLines,  \* arguments the runner may be started with
    NoDep,         \* a suite property that names no dependency
    NoLock         \* propagate_sequential(None)

ASSUME ConstructionAssumption ==
    /\ Modules \subseteq Seq(Segments)
    /\ LongerNames \subseteq Segments \X Segments
    /\ Functions \in Seq([uses : SUBSET Dimensions, dims : Seq(Dimensions)])
    /\ MaxProps \in Nat
    /\ NoLock \notin Seq(Segments)
    /\ NoDep \notin Dimensions

VARIABLES
    module,        \* per test function: its module
    benches,       \* the functions that are benchmarks
    args,          \* the command line
    declared,      \* REGISTERED_TESTSUITE_PROPS
    props,         \* suite properties that are to be added
    deps,          \* modules of dependencies that are to be added
    selected,      \* the filtered tests, in their order
    queue,         \* indices of tests that are to be added, the last one first
    inner,         \* per node: its children in their order
    tests,         \* per node: its vector of tests, as indices
    isSequential,  \* nodes with is_sequential
    remaining,     \* per node: remaining_count
    lock,          \* per node: the node whose lock it uses
    calls,         \* calls of propagate_sequential that are still to be made
    phase          \* "register", "add", "propagate" or "done"

inputs == <<module, benches, args, declared>>
tree   == <<inner, tests, isSequential, remaining, lock>>
vars   == <<inputs, props, deps, selected, queue, tree, calls, phase>>

Root  == <<>>
Nodes == DOMAIN inner

(* The node and all nodes above it.                                        *)
PathTo(path) == {SubSeq(path, 1, k) : k \in 0..Len(path)}

-----------------------------------------------------------------------------
Init ==
    /\ module \in [DOMAIN Functions -> Modules]
    /\ benches \in {B \in SUBSET {x \in DOMAIN Functions : DimensionParms(x) = <<>>} :
                      Cardinality(B) <= 1}
    /\ args \in {FromArgs(a, random) : a \in CommandLines, random \in Seeds}
    /\ declared = <<>>
    /\ props = <<>>
    /\ deps \in {D \in SUBSET Modules : Cardinality(D) <= 1}
    /\ selected = <<>>
    /\ queue = <<>>
    /\ inner = [n \in {Root} |-> <<>>]
    /\ tests = [n \in {Root} |-> <<>>]
    /\ isSequential = {}
    /\ remaining = [n \in {Root} |-> 0]
    /\ lock = [n \in {Root} |-> n]
    /\ calls = <<>>
    /\ phase = "register"

(* A constructor function of the binary registers a property of a suite,   *)
(* which it names: a module inside of a crate.                             *)
Register(p) ==
    /\ phase = "register"
    /\ Len(p.suite) > 1
    /\ Len(declared) < MaxProps
    /\ p \notin ToSet(declared)
    /\ declared' = Append(declared, p)
    /\ UNCHANGED <<module, benches, args, props, deps, selected, queue, tree, calls, phase>>

(* #[sequential] and sequential_suite!, #[tag] and tag_suite!, #[timeout]   *)
(* and timeout_suite!, matrix_suite!.                                       *)
RegisterSequential(m)  == Register([suite |-> m, kind |-> "Sequential", dep |-> NoDep])
RegisterTag(m)         == Register([suite |-> m, kind |-> "Tag", dep |-> NoDep])
RegisterTimeout(m)     == Register([suite |-> m, kind |-> "Timeout", dep |-> NoDep])
RegisterMatrix(m, dim) == Register([suite |-> m, kind |-> "Matrix", dep |-> dim])

(* The selected tests from the last to the first, as filtered_tests.reverse()
   leaves them: the head of the queue is added first and popped last.      *)
Reversed(ts) == [i \in DOMAIN ts |-> Len(ts) - i + 1]

(* Without a selected test construct keeps only an empty root.             *)
SelectTests ==
    /\ phase = "register"
    /\ selected' = Selected(AllTests(module, benches), declared, args)
    /\ queue' = Reversed(selected')
    /\ props' = declared
    /\ phase' = IF queue' = <<>> THEN "done" ELSE "add"
    /\ UNCHANGED <<inputs, deps, tree, calls>>

\* Mutation: a node is made for the whole path, below the last level there is.
WithoutLevels(path) ==
    [n \in Nodes \cup {path} |->
        LET present == IF n \in Nodes THEN inner[n] ELSE <<>>
            isLast  == n \in PathTo(path) /\ Nodes \cap PathTo(path) \subseteq PathTo(n)
        IN  IF path \notin Nodes /\ n # path /\ isLast THEN Append(present, path) ELSE present]

(* A level that is missing on the way to a path is appended to `inner` of  *)
(* the level above it.                                                     *)
NewInner(path) ==
    [n \in Nodes \cup PathTo(path) |->
        LET present == IF n \in Nodes THEN inner[n] ELSE <<>>
            next    == SubSeq(path, 1, Len(n) + 1)
        IN  IF n \in PathTo(path) \ {path} /\ next \notin Nodes
            THEN Append(present, next) ELSE present]

(* The levels that are new get the value `new` has for them.               *)
Extended(f, path, new) ==
    [n \in Nodes \cup PathTo(path) |-> IF n \in Nodes THEN f[n] ELSE new[n]]

Itself(path) == [n \in PathTo(path) |-> n]
Empty(path)  == [n \in PathTo(path) |-> <<>>]
Zero(path)   == [n \in PathTo(path) |-> 0]

Insert(path) ==
    /\ inner' = NewInner(path)
    /\ lock' = Extended(lock, path, Itself(path))

AddProp ==
    /\ phase = "add"
    /\ props # <<>>
    /\ LET p == Head(props)
       IN  /\ Insert(p.suite)
           /\ isSequential' = IF p.kind = "Sequential" THEN isSequential \cup {p.suite}
                              ELSE isSequential
           /\ tests' = Extended(tests, p.suite, Empty(p.suite))
           /\ remaining' = Extended(remaining, p.suite, Zero(p.suite))
    /\ props' = Tail(props)
    /\ UNCHANGED <<inputs, deps, selected, queue, calls, phase>>

AddDependency(m) ==
    /\ phase = "add"
    /\ props = <<>>
    /\ m \in deps
    /\ Insert(m)
    /\ tests' = Extended(tests, m, Empty(m))
    /\ remaining' = Extended(remaining, m, Zero(m))
    /\ deps' = deps \ {m}
    /\ UNCHANGED <<inputs, props, selected, queue, isSequential, calls, phase>>

(* `self.remaining_count += 1` on every level of the recursion.            *)
CountedOnPath(path) ==
    [n \in Nodes \cup PathTo(path) |->
        (IF n \in Nodes THEN remaining[n] ELSE 0) + (IF n \in PathTo(path) THEN 1 ELSE 0)]

AddTest ==
    /\ phase = "add"
    /\ props = <<>> /\ deps = {}
    /\ queue # <<>>
    /\ LET x == Head(queue)
           m == selected[x].module
       IN  /\ Insert(m)
           /\ tests' = [Extended(tests, m, Empty(m)) EXCEPT ![m] = Append(@, x)]
           /\ isSequential' = IF selected[x].bench THEN isSequential \cup {m} ELSE isSequential
           /\ remaining' = CountedOnPath(m)
    /\ queue' = Tail(queue)
    /\ UNCHANGED <<inputs, props, deps, selected, calls, phase>>

(* propagate_sequential(None) is called on the root ...                    *)
StartPropagation ==
    /\ phase = "add"
    /\ props = <<>> /\ deps = {} /\ queue = <<>>
    /\ calls' = <<[node |-> Root, inherited |-> NoLock]>>
    /\ phase' = "propagate"
    /\ UNCHANGED <<inputs, props, deps, selected, queue, tree>>

\* Mutation: a node that is sequential itself keeps its own lock.
KeptOrInherited(n, inherited) ==
    IF inherited = NoLock \/ n \in isSequential THEN lock[n] ELSE inherited

(* `self.sequential_lock = parent_lock.clone()`                            *)
Inherited(n, inherited) == IF inherited = NoLock THEN lock[n] ELSE inherited

(* ... which passes its lock on to its children if it is sequential now.   *)
Propagate ==
    /\ phase = "propagate"
    /\ calls # <<>>
    /\ LET n == Head(calls).node
           l == Inherited(n, Head(calls).inherited)
       IN  /\ lock' = [lock EXCEPT ![n] = l]
           /\ isSequential' = IF Head(calls).inherited = NoLock THEN isSequential
                              ELSE isSequential \cup {n}
           /\ calls' = [i \in DOMAIN inner[n] |->
                          [node |-> inner[n][i],
                           inherited |-> IF n \in isSequential' THEN l ELSE NoLock]]
                       \o Tail(calls)
    /\ UNCHANGED <<inputs, props, deps, selected, queue, inner, tests, remaining, phase>>

FinishPropagation ==
    /\ phase = "propagate"
    /\ calls = <<>>
    /\ phase' = "done"
    /\ UNCHANGED <<inputs, props, deps, selected, queue, tree, calls>>

Next ==
    \/ \E m \in Modules :
          \/ RegisterSequential(m)
          \/ RegisterTag(m)
          \/ RegisterTimeout(m)
          \/ \E dim \in Dimensions : RegisterMatrix(m, dim)
    \/ SelectTests
    \/ AddProp
    \/ \E m \in deps : AddDependency(m)
    \/ AddTest
    \/ StartPropagation
    \/ Propagate
    \/ FinishPropagation
    \/ phase = "done" /\ UNCHANGED vars

Spec == Init /\ [][Next]_vars

-----------------------------------------------------------------------------
(* What the runner takes from the tree: each suite's position in its        *)
(* parent, the modules marked as sequential and the tests in the order in   *)
(* which they are popped.                                                   *)
Position(n) ==
    IF n = Root THEN 0
    ELSE CHOOSE i \in DOMAIN inner[SubSeq(n, 1, Len(n) - 1)] :
             inner[SubSeq(n, 1, Len(n) - 1)][i] = n

Popped(n) == [i \in DOMAIN tests[n] |-> tests[n][Len(tests[n]) - i + 1]]

Inserted == UNION {ToSet(tests[n]) : n \in Nodes}

DeclaredSequential ==
    {p.suite : p \in {r \in ToSet(declared) : r.kind = "Sequential"}}
    \cup {selected[x].module : x \in {y \in Inserted : selected[y].bench}}

Built == INSTANCE SuiteTree WITH
    Segments <- Segments,
    Nodes    <- Nodes,
    Marked   <- DeclaredSequential,
    Rank     <- [n \in Nodes |-> Position(n)],
    Tests    <- Inserted,
    OwnTests <- [n \in Nodes |-> Popped(n)]

Constructed == phase = "done" /\ selected # <<>>

(* Whatever the suites and the arguments make of the tests, the result is a *)
(* sequence of tests of modules in which something may be registered.      *)
SelectedTests ==
    /\ selected \in Seq(ToSet(selected))
    /\ \A t \in ToSet(selected) : t.module \in Modules

(* Construction refers only to tests that were selected and to levels that *)
(* are in the tree.                                                        *)
TypeOK ==
    /\ SelectedTests
    /\ queue \in Seq(1..Len(selected))
    /\ deps \subseteq Modules
    /\ Nodes \subseteq Seq(Segments)
    /\ \A n \in Nodes :
          /\ inner[n] \in Seq(Nodes)
          /\ tests[n] \in Seq(1..Len(selected))
          /\ remaining[n] \in Nat
          /\ lock[n] \in Nodes
    /\ isSequential \subseteq Nodes
    /\ calls \in Seq([node : Nodes, inherited : Nodes \cup {NoLock}])
    /\ phase \in {"register", "add", "propagate", "done"}

(* SuiteResult::from_test_results: tests.len() - results.len(), where the   *)
(* runner passes the registered and generated tests and one result per      *)
(* selected test.                                                           *)
FilteredOut == Len(AllTests(module, benches)) - Len(selected)

(* The reversal before the insertion makes pop() hand out the tests of a    *)
(* suite, and the cases of each of them, in the order in which they were    *)
(* registered, or shuffled.                                                 *)
PoppedInOrder ==
    Constructed =>
        \A n \in Nodes : \A i, j \in DOMAIN Popped(n) : i < j => Popped(n)[i] < Popped(n)[j]

(* The insertions in any order leave what the scheduler is modelled on: no  *)
(* level is missing, each suite is in `inner` of its parent once, siblings  *)
(* are in distinct places, each selected test is in one node, and           *)
(* remaining_count of a level is the number of tests in it and below, in    *)
(* whatever order the levels appeared; and the tests of each are in order.  *)
TreeIsSuiteTree ==
    /\ PoppedInOrder
    /\ Constructed =>
           /\ Built!NodesFormTree /\ Built!SiblingsAreRanked /\ Built!TestsHaveNodes
           /\ Inserted = DOMAIN selected
           /\ \A n \in Nodes :
                 /\ ToSet(inner[n]) = Built!ChildrenOf(n)
                 /\ Cardinality(ToSet(inner[n])) = Len(inner[n])
                 /\ remaining[n] =
                       Cardinality(UNION {ToSet(tests[m]) : m \in {k \in Nodes : n \in PathTo(k)}})

(* propagate_sequential leaves each suite inside a sequential module with   *)
(* the lock of the topmost one, "gated by a single lock"                    *)
(* (per_test_configuration.md:27), and every other suite with its own.      *)
LocksHandedDown ==
    Constructed =>
        \A n \in Nodes :
            /\ lock[n] = Built!LockOf(n)
            /\ n \in isSequential <=> Built!IsSequential(n)

(* "Setting a specific shuffle seed so all spawned workers use the same"    *)
(* (args.rs:154): the worker's parser accepts the arguments the parent      *)
(* renders, and the tests and their order are the same in each worker,      *)
(* whatever that process draws, or it would discard the test it is sent;    *)
(* all of them are tests of modules of the crate.                           *)
SameInEachWorker ==
    /\ SelectedTests
    /\ Constructed =>
          /\ Accepts(ToArgs(args))
          /\ \A random \in Seeds :
                Selected(AllTests(module, benches), declared,
                         FromArgs(Parsed(ToArgs(args)), random)) = selected

(* The suites of one kind a function is in, by the path of its module.      *)
SuitesOf(x, kind) ==
    {p \in ToSet(declared) : p.kind = kind /\ IsPrefix(p.suite, module[x])}

(* What code and book agree on.  By the book the suite is the module and    *)
(* what is in it ("every #[test] in <module>", dependency_injection.md:201) *)
(* and benches are not multiplied (:253); the code looks at the text of the *)
(* path and does not ask whether a test is a benchmark.                     *)
AsDocumented(x) ==
    /\ x \notin benches
    /\ \A p \in ToSet(declared) :
          StartsWith(p.suite, module[x]) => IsPrefix(p.suite, module[x])

(* The dimensions a function is multiplied over by its suites.              *)
SuiteDimensions(x) == Untagged(x) \cap {p.dep : p \in SuitesOf(x, "Matrix")}

(* What it is run with: one case per #[dimension] parameter, and one for    *)
(* each dimension of its suites behind an untagged name.                    *)
Combinations(x) ==
    {<<own, [d \in Untagged(x) |-> IF d \in DOMAIN c THEN c[d] ELSE d]>> :
        own \in {o \in [DOMAIN DimensionParms(x) -> Tags] :
                    \A i \in DOMAIN o : o[i] \in CasesOf(DimensionParms(x)[i])},
        c \in {o \in [SuiteDimensions(x) -> Tags] : \A d \in DOMAIN o : o[d] \in CasesOf(d)}}

Instances(x) == {i \in DOMAIN selected : selected[i].id = x}

(* In whatever order nested and overlapping matrix suites are registered, a *)
(* function runs exactly once for every choice of the cases of its own      *)
(* dimensions and of its suites', with a name of its own ("each multiplied  *)
(* into one test per case", dependency_injection.md:243) and the tags of    *)
(* these cases.  Its body looks up the untagged names; through the chain of *)
(* views every lookup ends at the variant of that choice, which must not    *)
(* touch what a #[dimension] parameter of the same type gets, and the       *)
(* variants it ends at are the ones in the test's list, which the plan      *)
(* constructs.  It has the tag and a timeout if, and only if, a suite it is *)
(* in has.  Of functions for which the book asks for another reach than the *)
(* code gives a suite nothing of this but the names and lists is claimed.   *)
EveryCaseOnce ==
    phase # "register" /\ args.filter = {} /\ args.skip = {} =>
        /\ \A x \in {y \in DOMAIN Functions : args.only = "all" /\ AsDocumented(y)} :
              /\ Cardinality(Instances(x)) = Cardinality(Combinations(x))
              /\ {<<selected[i].variants, selected[i].view>> : i \in Instances(x)} = Combinations(x)
        /\ \A i, j \in DOMAIN selected : Name(selected[i]) = Name(selected[j]) => i = j
        /\ \A t \in ToSet(selected) : t.deps = {t.view[d] : d \in DOMAIN t.view} \cup ToSet(t.variants)
        /\ \A t \in {u \in ToSet(selected) : AsDocumented(u.id)} :
              /\ t.tags = (t.deps \cap Tags) \cup {SuiteTag : p \in SuitesOf(t.id, "Tag")}
              /\ IF SuitesOf(t.id, "Timeout") = {} THEN t.timeout = NoTimeout
                 ELSE t.timeout \in {p.suite : p \in SuitesOf(t.id, "Timeout")}

(* The summary's "filtered out" (pretty.rs:584) is a number of tests: the   *)
(* results are not more than what they are subtracted from, an unsigned     *)
(* count (internal.rs:2380).                                                *)
FilteredOutIsCount == FilteredOut >= 0
=============================================================================
