----------------------------- MODULE SuiteTree -----------------------------
(***************************************************************************)
(* The tree of test suites that TestSuiteExecution::construct builds       *)
(* (test-r-core/src/execution/mod.rs): one node per module path, the tests *)
(* registered in exactly that module, and the lock that the #[sequential]  *)
(* attribute (or a benchmark) gives to a node and to everything below it.  *)
(*                                                                         *)
(* A node is its module path, the sequence of its segments, as             *)
(* `crate_and_module` is in the code; the root is the empty path.  The     *)
(* tree is constant while the tests run: what changes is which tests and   *)
(* which children are left, and that is state of the modules that extend   *)
(* this one.                                                               *)
(***************************************************************************)
EXTENDS Naturals, Sequences, FiniteSets

CONSTANTS
    Segments,     \* names of crates and modules
    Nodes,        \* the module paths that have a node in the tree
    Marked,       \* nodes with a Sequential property or with a benchmark
    Rank,         \* position of a node among its siblings in `inner`
    Tests,        \* the registered tests that pass the filter
    OwnTests      \* for each node its own tests, in the order they are popped

Root == <<>>

(* `is_prefix_of`: b is the module a or lies below it. *)
IsPrefixOf(a, b) ==
    /\ Len(a) <= Len(b)
    /\ SubSeq(b, 1, Len(a)) = a

ParentOf(n) == SubSeq(n, 1, Len(n) - 1)

ChildrenOf(n) == {c \in Nodes : c # Root /\ ParentOf(c) = n}

Subtree(n) == {m \in Nodes : IsPrefixOf(n, m)}

(* add_prop, add_dependency and add_test create every missing level on the *)
(* way down (next_level), so the paths are closed under taking the parent. *)
NodesFormTree ==
    /\ IsFiniteSet(Nodes)
    /\ Root \in Nodes
    /\ \A n \in Nodes : n \in Seq(Segments)
    /\ \A n \in Nodes : \A k \in 0..Len(n) : SubSeq(n, 1, k) \in Nodes
    /\ Marked \subseteq Nodes

ASSUME NodesAssumption == NodesFormTree

(* Siblings have distinct positions in the vector that holds them. *)
SiblingsAreRanked ==
    /\ Rank \in [Nodes -> Nat]
    /\ \A m, n \in Nodes \ {Root} :
          ParentOf(m) = ParentOf(n) /\ Rank[m] = Rank[n] => m = n

ASSUME RankAssumption == SiblingsAreRanked

(* A test is registered in one module, once. *)
TestsHaveNodes ==
    /\ IsFiniteSet(Tests)
    /\ OwnTests \in [Nodes -> Seq(Tests)]
    /\ \A x \in Tests : \E n \in Nodes : \E i \in DOMAIN OwnTests[n] : OwnTests[n][i] = x
    /\ \A m, n \in Nodes : \A i \in DOMAIN OwnTests[m], j \in DOMAIN OwnTests[n] :
          OwnTests[m][i] = OwnTests[n][j] => m = n /\ i = j

ASSUME TestsAssumption == TestsHaveNodes

-----------------------------------------------------------------------------
(* propagate_sequential(None) at the root hands the lock of the topmost    *)
(* marked node down its whole subtree, replacing the locks of the nodes it *)
(* reaches; a node with no marked node above it keeps a lock of its own.   *)
MarkedDepths(n) == {k \in 0..Len(n) : SubSeq(n, 1, k) \in Marked}

IsSequential(n) == MarkedDepths(n) # {}

TopDepth(n) ==
    CHOOSE k \in MarkedDepths(n) : \A j \in MarkedDepths(n) : k <= j

\* Mutation: a child keeps its own lock instead of inheriting its parent's.
LockNotInherited(n) == n

LockOf(n) == IF IsSequential(n) THEN SubSeq(n, 1, TopDepth(n)) ELSE n

(* Two suites conflict when one #[sequential] module contains both.        *)
Conflict(m, n) == \E s \in Marked : IsPrefixOf(s, m) /\ IsPrefixOf(s, n)

-----------------------------------------------------------------------------
(* The order in which pick_next_internal visits nodes: a node before what  *)
(* is below it, a child with everything below it before its later siblings.*)
Before(m, n) ==
    \/ m # n /\ IsPrefixOf(m, n)
    \/ \E k \in 1..Len(m) :
         /\ k <= Len(n)
         /\ SubSeq(m, 1, k - 1) = SubSeq(n, 1, k - 1)
         /\ Rank[SubSeq(m, 1, k)] < Rank[SubSeq(n, 1, k)]
=============================================================================
