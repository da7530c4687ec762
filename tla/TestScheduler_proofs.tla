------------------------ MODULE TestScheduler_proofs ------------------------
(***************************************************************************)
(* For every suite tree, every number of threads and every choice of which *)
(* suites have dependencies: tests of one #[sequential] module never       *)
(* overlap and a thread never waits for a sequential lock while it holds   *)
(* the mutex of the plan; every test is in exactly one place; the          *)
(* scheduler implements the safety part of TestSchedule; dependencies are  *)
(* built once and in time; a pick misses no test that could run; and the   *)
(* counters are exact.                                                     *)
(*                                                                         *)
(* The inductive invariants build on each other: LockInv (in               *)
(* TestScheduler), PlaceInv, and on top of them BuiltInv with EnteredInv,  *)
(* LocksInv with PassedInv, and CountInv.                                  *)
(***************************************************************************)
EXTENDS TestScheduler, SequenceTheorems, FiniteSetTheorems, FunctionTheorems,
        WellFoundedInduction, TLAPS

-----------------------------------------------------------------------------
(* The suite tree: paths the model computes are nodes, suites that one       *)
(* #[sequential] module contains share one lock, and the walk visits nodes   *)
(* in the order of the tree and of the ranks of siblings.                    *)

(* What the tree is assumed to be, spelled out.                            *)
LEMMA TreeOfNodes ==
    /\ IsFiniteSet(Nodes)
    /\ Root \in Nodes
    /\ \A n \in Nodes : n \in Seq(Segments)
    /\ \A n \in Nodes : \A k \in 0..Len(n) : SubSeq(n, 1, k) \in Nodes
    /\ Marked \subseteq Nodes
  BY NodesAssumption DEF NodesFormTree

LEMMA RanksOfSiblings ==
    /\ Rank \in [Nodes -> Nat]
    /\ \A m, n \in Nodes \ {Root} :
          ParentOf(m) = ParentOf(n) /\ Rank[m] = Rank[n] => m = n
  BY RankAssumption DEF SiblingsAreRanked

LEMMA PlacesOfTests ==
    /\ IsFiniteSet(Tests)
    /\ OwnTests \in [Nodes -> Seq(Tests)]
    /\ \A x \in Tests : \E n \in Nodes : \E i \in DOMAIN OwnTests[n] : OwnTests[n][i] = x
    /\ \A m, n \in Nodes : \A i \in DOMAIN OwnTests[m], j \in DOMAIN OwnTests[n] :
          OwnTests[m][i] = OwnTests[n][j] => m = n /\ i = j
  BY TestsAssumption DEF TestsHaveNodes

(* A non-empty set of naturals has a least element.                        *)
LEMMA LeastNatural ==
    ASSUME NEW T, T \subseteq Nat, T # {}
    PROVE  \E x \in T : \A y \in T : x <= y
<1>1. \E x \in T : \A y \in T : ~ (<<y, x>> \in OpToRel(<, Nat))
  BY NatLessThanWellFounded, WFMin
<1>2. \A x, y \in T : <<y, x>> \in OpToRel(<, Nat) <=> y < x
  BY DEF OpToRel
<1>3. PICK x \in T : \A y \in T : ~ (<<y, x>> \in OpToRel(<, Nat))
  BY <1>1
<1>4. \A y \in T : ~ (y < x)
  BY <1>2, <1>3
<1>5. \A y \in T : x <= y
  BY <1>4
<1> QED
  BY <1>5

(* The parent of a node other than the root is a node: the walk can always *)
(* return to it.                                                           *)
LEMMA ParentIsNode ==
    ASSUME NEW n \in Nodes, n # Root
    PROVE  ParentOf(n) \in Nodes
<1>1. n \in Seq(Segments)
  BY TreeOfNodes
<1>2. Len(n) \in Nat \ {0}
  BY <1>1, EmptySeq DEF Root
<1>3. Len(n) - 1 \in 0..Len(n)
  BY <1>2
<1> QED
  BY <1>3, TreeOfNodes DEF ParentOf

(* The child the walk enters is the first of those it chooses from.        *)
LEMMA FirstIsChild ==
    ASSUME NEW C, C \subseteq Nodes, C # {},
           NEW first, first = CHOOSE c \in C : \A d \in C : Rank[c] <= Rank[d]
    PROVE  first \in C /\ \A d \in C : Rank[first] <= Rank[d]
<1> DEFINE R == {Rank[c] : c \in C}
<1>1. R \subseteq Nat /\ R # {}
  BY RanksOfSiblings
<1>2. PICK x \in R : \A y \in R : x <= y
  BY <1>1, LeastNatural
<1>3. \E c \in C : \A d \in C : Rank[c] <= Rank[d]
  BY <1>2
<1> QED
  BY <1>3

LEMMA TopDepthIsLeast ==
    ASSUME NEW n \in Nodes, IsSequential(n)
    PROVE  /\ TopDepth(n) \in MarkedDepths(n)
           /\ \A j \in MarkedDepths(n) : TopDepth(n) <= j
<1>1. n \in Seq(Segments)
  BY TreeOfNodes
<1>2. Len(n) \in Nat
  BY <1>1
<1>3. MarkedDepths(n) \subseteq Nat /\ MarkedDepths(n) # {}
  BY <1>2 DEF MarkedDepths, IsSequential
<1>4. \E k \in MarkedDepths(n) : \A j \in MarkedDepths(n) : k <= j
  BY <1>3, LeastNatural
<1> QED
  BY <1>4 DEF TopDepth

(* A lock belongs to a node of the tree.                                   *)
LEMMA LockIsNode ==
    ASSUME NEW n \in Nodes
    PROVE  LockOf(n) \in Nodes
<1>1. CASE IsSequential(n)
  <2>1. TopDepth(n) \in 0..Len(n)
    BY <1>1, TopDepthIsLeast DEF MarkedDepths
  <2> QED
    BY <2>1, <1>1, TreeOfNodes DEF LockOf
<1>2. CASE ~IsSequential(n)
  BY <1>2 DEF LockOf
<1> QED
  BY <1>1, <1>2

(* What lies below a common module has the same path down to it.           *)
LEMMA PrefixOfPrefix ==
    ASSUME NEW s \in Nodes, NEW n \in Nodes, IsPrefixOf(s, n),
           NEW k \in 0..Len(s)
    PROVE  k \in 0..Len(n) /\ SubSeq(n, 1, k) = SubSeq(s, 1, k)
<1>1. s \in Seq(Segments) /\ n \in Seq(Segments)
  BY TreeOfNodes
<1>2. Len(s) \in Nat /\ Len(n) \in Nat /\ Len(s) <= Len(n)
  BY <1>1 DEF IsPrefixOf
<1>3. k \in 0..Len(n)
  BY <1>2
<1>4. \A i \in 1..Len(s) : s[i] = n[i]
  <2>1. s = SubSeq(n, 1, Len(s))
    BY DEF IsPrefixOf
  <2>2. \A i \in 1..Len(s) : SubSeq(n, 1, Len(s))[i] = n[i]
    BY <1>1, <1>2
  <2> QED
    BY <2>1, <2>2
<1>5. /\ SubSeq(n, 1, k) \in Seq(Segments)
      /\ SubSeq(s, 1, k) \in Seq(Segments)
      /\ Len(SubSeq(n, 1, k)) = k
      /\ Len(SubSeq(s, 1, k)) = k
      /\ \A i \in 1..k : SubSeq(n, 1, k)[i] = n[i] /\ SubSeq(s, 1, k)[i] = s[i]
  BY <1>1, <1>2, <1>3
<1>6. SubSeq(n, 1, k) = SubSeq(s, 1, k)
  BY <1>2, <1>3, <1>4, <1>5, SeqEqual
<1> QED
  BY <1>3, <1>6

(* propagate_sequential: every suite inside one #[sequential] module is    *)
(* sequential and shares one lock, the lock of the topmost marked module.  *)
THEOREM ConflictSharesLock ==
    ASSUME NEW m \in Nodes, NEW n \in Nodes, Conflict(m, n)
    PROVE  /\ IsSequential(m)
           /\ IsSequential(n)
           /\ LockOf(m) = LockOf(n)
<1>1. PICK s \in Marked : IsPrefixOf(s, m) /\ IsPrefixOf(s, n)
  BY DEF Conflict
<1>2. s \in Nodes /\ s \in Seq(Segments) /\ Len(s) \in Nat
  BY TreeOfNodes
<1>3. SubSeq(s, 1, Len(s)) = s
  BY <1>2, SubSeqFull
<1>4. ASSUME NEW x \in Nodes, IsPrefixOf(s, x)
      PROVE  /\ IsSequential(x)
             /\ TopDepth(x) \in 0..Len(s)
             /\ SubSeq(s, 1, TopDepth(x)) \in Marked
             /\ \A k \in 0..Len(s) : SubSeq(s, 1, k) \in Marked => TopDepth(x) <= k
             /\ LockOf(x) = SubSeq(s, 1, TopDepth(x))
  <2>1. \A k \in 0..Len(s) : k \in 0..Len(x) /\ SubSeq(x, 1, k) = SubSeq(s, 1, k)
    BY <1>2, <1>4, PrefixOfPrefix
  <2>2. Len(s) \in MarkedDepths(x)
    <3>1. Len(s) \in 0..Len(s)
      BY <1>2
    <3>2. Len(s) \in 0..Len(x) /\ SubSeq(x, 1, Len(s)) = s
      BY <3>1, <2>1, <1>3
    <3> QED
      BY <3>2 DEF MarkedDepths
  <2>3. IsSequential(x)
    BY <2>2 DEF IsSequential
  <2>4. /\ TopDepth(x) \in MarkedDepths(x)
        /\ \A j \in MarkedDepths(x) : TopDepth(x) <= j
    BY <1>4, <2>3, TopDepthIsLeast
  <2>5. TopDepth(x) \in 0..Len(s)
    BY <1>2, <2>2, <2>4 DEF MarkedDepths
  <2>6. \A k \in 0..Len(s) : SubSeq(s, 1, k) \in Marked => k \in MarkedDepths(x)
    BY <2>1 DEF MarkedDepths
  <2>7. SubSeq(s, 1, TopDepth(x)) \in Marked
    BY <2>1, <2>4, <2>5 DEF MarkedDepths
  <2>8. LockOf(x) = SubSeq(s, 1, TopDepth(x))
    BY <2>1, <2>3, <2>5 DEF LockOf
  <2> QED
    BY <2>3, <2>4, <2>5, <2>6, <2>7, <2>8
<1>5. TopDepth(m) <= TopDepth(n) /\ TopDepth(n) <= TopDepth(m)
  BY <1>1, <1>4
<1>6. TopDepth(m) = TopDepth(n)
  BY <1>1, <1>2, <1>4, <1>5
<1> QED
  BY <1>1, <1>4, <1>6

-----------------------------------------------------------------------------
(* The tree as an order: paths compared element by element, so that the    *)
(* proofs about the walk need not look into them.                          *)
LEMMA NodeIsPath ==
    ASSUME NEW n \in Nodes
    PROVE  /\ n \in Seq(Segments)
           /\ Len(n) \in Nat
           /\ n # Root => Len(n) >= 1
BY TreeOfNodes, EmptySeq DEF Root

LEMMA SubPath ==
    ASSUME NEW n \in Nodes, NEW k \in 0..Len(n)
    PROVE  /\ SubSeq(n, 1, k) \in Nodes
           /\ Len(SubSeq(n, 1, k)) = k
           /\ \A i \in 1..k : SubSeq(n, 1, k)[i] = n[i]
<1>1. n \in Seq(Segments) /\ Len(n) \in Nat /\ SubSeq(n, 1, k) \in Nodes
  BY TreeOfNodes, NodeIsPath
<1>2. \A i \in 1..k : n[i] \in Segments
  BY <1>1
<1> QED
  BY <1>1, <1>2, SubSeqProperties

LEMMA PrefixByElements ==
    ASSUME NEW a \in Nodes, NEW b \in Nodes
    PROVE  IsPrefixOf(a, b) <=> Len(a) <= Len(b) /\ \A i \in 1..Len(a) : a[i] = b[i]
<1>1. a \in Seq(Segments) /\ b \in Seq(Segments) /\ Len(a) \in Nat /\ Len(b) \in Nat
  BY NodeIsPath
<1>2. CASE Len(a) <= Len(b)
  <2>1. Len(a) \in 0..Len(b)
    BY <1>1, <1>2
  <2>2. /\ SubSeq(b, 1, Len(a)) \in Seq(Segments)
        /\ Len(SubSeq(b, 1, Len(a))) = Len(a)
        /\ \A i \in 1..Len(a) : SubSeq(b, 1, Len(a))[i] = b[i]
    BY <2>1, SubPath, NodeIsPath
  <2>3. SubSeq(b, 1, Len(a)) = a <=> \A i \in 1..Len(a) : a[i] = b[i]
    BY <1>1, <2>2, SeqEqual
  <2> QED
    BY <1>2, <2>3 DEF IsPrefixOf
<1> QED
  BY <1>2 DEF IsPrefixOf

LEMMA PathsEqual ==
    ASSUME NEW a \in Nodes, NEW b \in Nodes, Len(a) = Len(b), \A i \in 1..Len(a) : a[i] = b[i]
    PROVE  a = b
BY NodeIsPath, SeqEqual

LEMMA PrefixOrder ==
    /\ \A a \in Nodes : IsPrefixOf(Root, a) /\ IsPrefixOf(a, a)
    /\ \A a, b \in Nodes : IsPrefixOf(a, b) /\ IsPrefixOf(b, a) => a = b
    /\ \A a, b, c \in Nodes : IsPrefixOf(a, b) /\ IsPrefixOf(b, c) => IsPrefixOf(a, c)
<1>1. ASSUME NEW a \in Nodes PROVE IsPrefixOf(Root, a) /\ IsPrefixOf(a, a)
  <2>1. Root \in Nodes /\ Len(Root) = 0 /\ Len(a) \in Nat
    BY TreeOfNodes, NodeIsPath, EmptySeq DEF Root
  <2> QED
    BY <2>1, PrefixByElements
<1>2. ASSUME NEW a \in Nodes, NEW b \in Nodes, IsPrefixOf(a, b), IsPrefixOf(b, a)
      PROVE  a = b
  <2>1. Len(a) = Len(b) /\ \A i \in 1..Len(a) : a[i] = b[i]
    BY <1>2, PrefixByElements, NodeIsPath
  <2> QED
    BY <2>1, PathsEqual
<1>3. ASSUME NEW a \in Nodes, NEW b \in Nodes, NEW c \in Nodes,
             IsPrefixOf(a, b), IsPrefixOf(b, c)
      PROVE  IsPrefixOf(a, c)
  <2>1. Len(a) \in Nat /\ Len(b) \in Nat /\ Len(c) \in Nat
    BY NodeIsPath
  <2>2. Len(a) <= Len(b) /\ Len(b) <= Len(c)
    BY <1>3, PrefixByElements
  <2>3. \A i \in 1..Len(a) : i \in 1..Len(b) /\ a[i] = b[i] /\ b[i] = c[i]
    BY <1>3, <2>1, <2>2, PrefixByElements
  <2> QED
    BY <2>1, <2>2, <2>3, PrefixByElements
<1> QED
  BY <1>1, <1>2, <1>3

LEMMA ParentIsPrefix ==
    ASSUME NEW c \in Nodes, c # Root
    PROVE  /\ ParentOf(c) \in Nodes
           /\ c \in ChildrenOf(ParentOf(c))
           /\ IsPrefixOf(ParentOf(c), c)
           /\ ParentOf(c) # c
           /\ Len(ParentOf(c)) = Len(c) - 1
           /\ \A i \in 1..(Len(c) - 1) : ParentOf(c)[i] = c[i]
<1>1. Len(c) \in Nat /\ Len(c) >= 1 /\ Len(c) - 1 \in 0..Len(c)
  BY NodeIsPath
<1>2. /\ ParentOf(c) \in Nodes
      /\ Len(ParentOf(c)) = Len(c) - 1
      /\ \A i \in 1..(Len(c) - 1) : ParentOf(c)[i] = c[i]
  BY <1>1, SubPath DEF ParentOf
<1>3. IsPrefixOf(ParentOf(c), c)
  BY <1>1, <1>2, PrefixByElements
<1>4. ParentOf(c) # c
  BY <1>1, <1>2
<1>5. c \in ChildrenOf(ParentOf(c))
  BY DEF ChildrenOf
<1> QED
  BY <1>2, <1>3, <1>4, <1>5

(* Whatever is strictly above a node is at or above its parent.            *)
LEMMA PrefixOfParent ==
    ASSUME NEW a \in Nodes, NEW c \in Nodes, IsPrefixOf(a, c), a # c
    PROVE  c # Root /\ IsPrefixOf(a, ParentOf(c))
<1>1. /\ Len(a) \in Nat /\ Len(c) \in Nat
      /\ Len(a) <= Len(c)
      /\ \A i \in 1..Len(a) : a[i] = c[i]
  BY NodeIsPath, PrefixByElements
<1>2. Len(a) # Len(c)
  BY <1>1, PathsEqual
<1>3. c # Root
  BY <1>1, <1>2, EmptySeq DEF Root
<1>4. Len(a) <= Len(c) - 1 /\ \A i \in 1..Len(a) : i \in 1..(Len(c) - 1)
  BY <1>1, <1>2
<1>5. IsPrefixOf(a, ParentOf(c))
  BY <1>1, <1>3, <1>4, ParentIsPrefix, PrefixByElements
<1> QED
  BY <1>3, <1>5

(* The child of a node on the way to something below it.                   *)
LEMMA ChildTowards ==
    ASSUME NEW p \in Nodes, NEW m \in Nodes, IsPrefixOf(p, m), p # m
    PROVE  \E c \in ChildrenOf(p) : IsPrefixOf(c, m)
<1> DEFINE c == SubSeq(m, 1, Len(p) + 1)
<1>1. /\ Len(p) \in Nat /\ Len(m) \in Nat
      /\ Len(p) <= Len(m)
      /\ \A i \in 1..Len(p) : p[i] = m[i]
  BY NodeIsPath, PrefixByElements
<1>2. Len(p) # Len(m)
  BY <1>1, PathsEqual
<1>3. Len(p) + 1 \in 0..Len(m)
  BY <1>1, <1>2
<1>4. /\ c \in Nodes
      /\ Len(c) = Len(p) + 1
      /\ \A i \in 1..(Len(p) + 1) : c[i] = m[i]
  BY <1>3, SubPath
<1> HIDE DEF c
<1>5. IsPrefixOf(c, m)
  BY <1>1, <1>3, <1>4, PrefixByElements
<1>6. c # Root
  BY <1>1, <1>4, EmptySeq DEF Root
<1>7. /\ ParentOf(c) \in Nodes
      /\ Len(ParentOf(c)) = Len(p)
      /\ \A i \in 1..Len(p) : ParentOf(c)[i] = p[i]
  BY <1>1, <1>4, <1>6, ParentIsPrefix
<1>8. ParentOf(c) = p
  BY <1>7, PathsEqual
<1>9. c \in ChildrenOf(p)
  BY <1>4, <1>6, <1>8 DEF ChildrenOf
<1> QED
  BY <1>5, <1>9

(* A node comes before another one when it is above it, or in a branch     *)
(* that is entered earlier.                                                *)
LEMMA BeforeByBranches ==
    ASSUME NEW m \in Nodes, NEW n \in Nodes
    PROVE  Before(m, n) <=>
              \/ m # n /\ IsPrefixOf(m, n)
              \/ \E d, e \in Nodes \ {Root} :
                    /\ ParentOf(d) = ParentOf(e)
                    /\ Rank[d] < Rank[e]
                    /\ IsPrefixOf(d, m)
                    /\ IsPrefixOf(e, n)
<1>1. Len(m) \in Nat /\ Len(n) \in Nat /\ Len(Root) = 0 /\ Root \in Nodes
  BY NodeIsPath, EmptySeq, TreeOfNodes DEF Root
<1>2. ASSUME NEW k \in 1..Len(m), k <= Len(n),
             SubSeq(m, 1, k - 1) = SubSeq(n, 1, k - 1),
             Rank[SubSeq(m, 1, k)] < Rank[SubSeq(n, 1, k)]
      PROVE  \E d, e \in Nodes \ {Root} :
                /\ ParentOf(d) = ParentOf(e)
                /\ Rank[d] < Rank[e]
                /\ IsPrefixOf(d, m)
                /\ IsPrefixOf(e, n)
  <2> DEFINE d == SubSeq(m, 1, k)
             e == SubSeq(n, 1, k)
  <2>1. k \in 0..Len(m) /\ k \in 0..Len(n) /\ k - 1 \in 0..Len(m) /\ k - 1 \in 0..Len(n)
    BY <1>1, <1>2
  <2>2. /\ d \in Nodes /\ Len(d) = k /\ \A i \in 1..k : d[i] = m[i]
        /\ e \in Nodes /\ Len(e) = k /\ \A i \in 1..k : e[i] = n[i]
    BY <2>1, SubPath
  <2>3. /\ Len(SubSeq(m, 1, k - 1)) = k - 1 /\ \A i \in 1..(k - 1) : SubSeq(m, 1, k - 1)[i] = m[i]
        /\ \A i \in 1..(k - 1) : SubSeq(n, 1, k - 1)[i] = n[i]
    BY <2>1, SubPath
  <2>4. Rank[d] < Rank[e]
    BY <1>2
  <2> HIDE DEF d, e
  <2>5. IsPrefixOf(d, m) /\ IsPrefixOf(e, n)
    BY <1>2, <2>1, <2>2, PrefixByElements
  <2>6. d # Root /\ e # Root
    BY <1>1, <2>2
  <2>7. \A i \in 1..(k - 1) : m[i] = n[i]
    BY <1>2, <2>3
  <2>8. /\ ParentOf(d) \in Nodes /\ Len(ParentOf(d)) = k - 1
        /\ ParentOf(e) \in Nodes /\ Len(ParentOf(e)) = k - 1
        /\ \A i \in 1..(k - 1) : ParentOf(d)[i] = d[i] /\ ParentOf(e)[i] = e[i]
    BY <2>2, <2>6, ParentIsPrefix
  <2>9. \A i \in 1..(k - 1) : i \in 1..k
    BY <1>1
  <2>10. \A i \in 1..(k - 1) : ParentOf(d)[i] = ParentOf(e)[i]
    BY <2>2, <2>7, <2>8, <2>9
  <2>11. ParentOf(d) = ParentOf(e)
    BY <2>8, <2>10, PathsEqual
  <2> QED
    BY <2>2, <2>4, <2>5, <2>6, <2>11
<1>3. ASSUME NEW d \in Nodes \ {Root}, NEW e \in Nodes \ {Root},
             ParentOf(d) = ParentOf(e), Rank[d] < Rank[e],
             IsPrefixOf(d, m), IsPrefixOf(e, n)
      PROVE  \E k \in 1..Len(m) :
                /\ k <= Len(n)
                /\ SubSeq(m, 1, k - 1) = SubSeq(n, 1, k - 1)
                /\ Rank[SubSeq(m, 1, k)] < Rank[SubSeq(n, 1, k)]
  <2> DEFINE k == Len(d)
  <2>1. k \in Nat /\ k >= 1 /\ Len(e) \in Nat /\ Len(e) >= 1
    BY NodeIsPath
  <2>2. Len(e) = k
    BY <1>3, <2>1, ParentIsPrefix
  <2>3. d = SubSeq(m, 1, k) /\ e = SubSeq(n, 1, k) /\ k <= Len(m) /\ k <= Len(n)
    BY <1>3, <2>2 DEF IsPrefixOf
  <2>4. /\ Len(ParentOf(d)) = k - 1
        /\ \A i \in 1..(k - 1) : ParentOf(d)[i] = d[i] /\ ParentOf(d)[i] = e[i]
    BY <1>3, <2>1, <2>2, ParentIsPrefix
  <2>5. k - 1 \in 0..Len(m) /\ k - 1 \in 0..Len(n) /\ k \in 0..Len(m) /\ k \in 0..Len(n)
    BY <1>1, <2>1, <2>3
  <2>6. \A i \in 1..(k - 1) : i \in 1..k /\ d[i] = m[i] /\ e[i] = n[i]
    BY <1>3, <2>1, <2>2, PrefixByElements
  <2>7. /\ SubSeq(m, 1, k - 1) \in Nodes /\ Len(SubSeq(m, 1, k - 1)) = k - 1
        /\ SubSeq(n, 1, k - 1) \in Nodes /\ Len(SubSeq(n, 1, k - 1)) = k - 1
        /\ \A i \in 1..(k - 1) : SubSeq(m, 1, k - 1)[i] = m[i]
        /\ \A i \in 1..(k - 1) : SubSeq(n, 1, k - 1)[i] = n[i]
    BY <2>5, SubPath
  <2> HIDE DEF k
  <2>8. \A i \in 1..(k - 1) : SubSeq(m, 1, k - 1)[i] = SubSeq(n, 1, k - 1)[i]
    BY <2>4, <2>6, <2>7
  <2>9. SubSeq(m, 1, k - 1) = SubSeq(n, 1, k - 1)
    BY <2>7, <2>8, PathsEqual
  <2>10. k \in 1..Len(m)
    BY <1>1, <2>1, <2>3 DEF k
  <2> QED
    BY <1>3, <2>3, <2>9, <2>10
<1> QED
  BY <1>2, <1>3 DEF Before

(* What comes before a child: what comes before its parent, the parent,    *)
(* and the branches of earlier siblings.                                   *)
LEMMA BeforeChild ==
    ASSUME NEW p \in Nodes, NEW c \in ChildrenOf(p), NEW m \in Nodes
    PROVE  Before(m, c) <=>
              \/ Before(m, p)
              \/ m = p
              \/ \E d \in ChildrenOf(p) : Rank[d] < Rank[c] /\ IsPrefixOf(d, m)
<1>1. c \in Nodes \ {Root} /\ ParentOf(c) = p /\ IsPrefixOf(p, c) /\ p # c
  BY ParentIsPrefix DEF ChildrenOf
<1>2. ASSUME Before(m, c)
      PROVE  \/ Before(m, p)
             \/ m = p
             \/ \E d \in ChildrenOf(p) : Rank[d] < Rank[c] /\ IsPrefixOf(d, m)
  <2>1. CASE m # c /\ IsPrefixOf(m, c)
    BY <1>1, <2>1, PrefixOfParent, BeforeByBranches
  <2>2. ASSUME NEW d \in Nodes \ {Root}, NEW e \in Nodes \ {Root},
               ParentOf(d) = ParentOf(e), Rank[d] < Rank[e],
               IsPrefixOf(d, m), IsPrefixOf(e, c)
        PROVE  Before(m, p) \/ \E x \in ChildrenOf(p) : Rank[x] < Rank[c] /\ IsPrefixOf(x, m)
    <3>1. CASE e = c
      BY <1>1, <2>2, <3>1 DEF ChildrenOf
    <3>2. CASE e # c
      BY <1>1, <2>2, <3>2, PrefixOfParent, BeforeByBranches
    <3> QED
      BY <3>1, <3>2
  <2> QED
    BY <1>1, <1>2, <2>1, <2>2, BeforeByBranches
<1>3. ASSUME Before(m, p) PROVE Before(m, c)
  <2>1. CASE m # p /\ IsPrefixOf(m, p)
    BY <1>1, <2>1, PrefixOrder, BeforeByBranches
  <2>2. ASSUME NEW d \in Nodes \ {Root}, NEW e \in Nodes \ {Root},
               ParentOf(d) = ParentOf(e), Rank[d] < Rank[e],
               IsPrefixOf(d, m), IsPrefixOf(e, p)
        PROVE  Before(m, c)
    <3>1. IsPrefixOf(e, c)
      BY <1>1, <2>2, PrefixOrder
    <3> QED
      BY <1>1, <2>2, <3>1, BeforeByBranches
  <2> QED
    BY <1>3, <2>1, <2>2, BeforeByBranches
<1>4. ASSUME m = p PROVE Before(m, c)
  BY <1>1, <1>4, BeforeByBranches
<1>5. ASSUME NEW d \in ChildrenOf(p), Rank[d] < Rank[c], IsPrefixOf(d, m)
      PROVE  Before(m, c)
  <2>1. d \in Nodes \ {Root} /\ ParentOf(d) = ParentOf(c) /\ IsPrefixOf(c, c)
    BY <1>1, PrefixOrder DEF ChildrenOf
  <2> QED
    BY <1>1, <1>5, <2>1, BeforeByBranches
<1> QED
  BY <1>2, <1>3, <1>4, <1>5

LEMMA NothingBeforeRoot == \A m \in Nodes : ~ Before(m, Root)
<1> SUFFICES ASSUME NEW m \in Nodes, Before(m, Root) PROVE FALSE
  OBVIOUS
<1>1. Root \in Nodes /\ Len(Root) = 0 /\ Len(m) \in Nat
  BY TreeOfNodes, NodeIsPath, EmptySeq DEF Root
<1>2. ~ (m # Root /\ IsPrefixOf(m, Root))
  BY <1>1, PrefixOrder
<1>3. ~ \E k \in 1..Len(m) : k <= Len(Root)
  BY <1>1
<1> QED
  BY <1>2, <1>3 DEF Before

-----------------------------------------------------------------------------
(* The walk.                                                               *)

LEMMA FirstOfIsChild ==
    ASSUME NEW C, C \subseteq Nodes, C # {}
    PROVE  FirstOf(C) \in C /\ \A d \in C : Rank[FirstOf(C)] <= Rank[d]
  BY FirstIsChild DEF FirstOf

LEMMA InnerAreNodes ==
    ASSUME NEW n
    PROVE  Inner(n) \subseteq Nodes
  BY DEF Inner, ChildrenOf

(* The walk stays on nodes of the tree when a call returns None ...        *)
LEMMA NoneFromTypes ==
    ASSUME NEW t \in Threads, NEW n \in Nodes, TypeOK, at = n, NoneFrom(t, n)
    PROVE  /\ mutex' \in Threads \cup {NoThread}
           /\ at' \in Nodes
           /\ pc' \in [Threads -> Labels]
<1>1. CASE n = Root
  BY <1>1 DEF NoneFrom, TypeOK, Goto, Labels
<1>2. CASE n # Root /\ LaterSiblings(n) = {}
  <2>1. ParentOf(n) \in Nodes
    BY <1>2, ParentIsNode
  <2> QED
    BY <1>2, <2>1 DEF NoneFrom, TypeOK, Goto, Labels
<1>3. CASE n # Root /\ LaterSiblings(n) # {}
  <2>1. FirstOf(LaterSiblings(n)) \in Nodes
    BY <1>3, FirstOfIsChild, InnerAreNodes DEF LaterSiblings
  <2> QED
    BY <1>3, <2>1 DEF NoneFrom, TypeOK, Goto, Labels
<1> QED
  BY <1>1, <1>2, <1>3

(* ... and when it returns a test.                                         *)
LEMMA SomeFromTypes ==
    ASSUME NEW t \in Threads, NEW n \in Nodes, TypeOK, at = n, SomeFrom(t, n)
    PROVE  /\ mutex' \in Threads \cup {NoThread}
           /\ at' \in Nodes
           /\ pc' \in [Threads -> Labels]
           /\ idx' \in Nat
<1>1. CASE n = Root
  <2>1. mutex' = NoThread /\ idx' = idx + 1 /\ at' = at /\ Goto(t, "run")
    BY <1>1 DEF SomeFrom
  <2>2. pc' \in [Threads -> Labels]
    BY <2>1 DEF Goto, TypeOK, Labels
  <2>3. idx' \in Nat
    BY <2>1 DEF TypeOK
  <2> QED
    BY <2>1, <2>2, <2>3 DEF TypeOK
<1>2. CASE n # Root
  <2>1. ParentOf(n) \in Nodes
    BY <1>2, ParentIsNode
  <2> QED
    BY <1>2, <2>1 DEF SomeFrom, TypeOK, Goto, Labels
<1> QED
  BY <1>1, <1>2

LEMMA InitTypes == Init => TypeOK
<1> SUFFICES ASSUME Init PROVE TypeOK
  OBVIOUS
<1>1. remaining \in [Nodes -> Int]
  <2> DEFINE total(n) ==
        Cardinality({x \in Tests : \E m \in Subtree(n) : x \in Elements(OwnTests[m])})
  <2>1. ASSUME NEW n \in Nodes PROVE total(n) \in Int
    <3>1. IsFiniteSet({x \in Tests : \E m \in Subtree(n) : x \in Elements(OwnTests[m])})
      BY PlacesOfTests, FS_Subset
    <3> QED
      BY <3>1, FS_CardinalityType
  <2>2. remaining = [n \in Nodes |-> total(n)]
    BY DEF Init
  <2> HIDE DEF total
  <2> QED
    BY <2>1, <2>2
<1>2. /\ tests \in [Nodes -> Seq(Tests)]
      /\ at \in Nodes
      /\ attached \subseteq Nodes
  BY PlacesOfTests, TreeOfNodes DEF Init
<1>3. results \in [Threads -> Seq(Tests)]
  BY EmptySeq DEF Init
<1>4. pc \in [Threads -> Labels]
  BY DEF Init, Labels
<1>5. /\ built \subseteq Nodes
      /\ builds \in [Nodes -> Nat]
      /\ idx \in Nat
      /\ locks \subseteq Nodes
      /\ inProgress \in [Nodes -> Int]
      /\ mutex \in Threads \cup {NoThread}
      /\ sawLocked \subseteq Nodes
      /\ job \in [Threads -> [test : Tests, node : Nodes] \cup {NoJob}]
  BY DEF Init
<1> QED
  BY <1>1, <1>2, <1>3, <1>4, <1>5 DEF TypeOK

LEMMA NextTypes == TypeOK /\ ChosenInv /\ ExecutionInv /\ [Next]_vars => TypeOK'
<1> SUFFICES ASSUME TypeOK, ChosenInv, ExecutionInv, [Next]_vars PROVE TypeOK'
  OBVIOUS
<1> USE DEF treeVars, lockVars, walkVars, threadVars
<1>1. ASSUME NEW t \in Threads, CheckDone(t) PROVE TypeOK'
  BY <1>1 DEF CheckDone, TypeOK, Goto, Labels
<1>2. ASSUME NEW t \in Threads, PickNext(t) PROVE TypeOK'
  BY <1>2, TreeOfNodes DEF PickNext, TypeOK, Goto, Labels
<1>3. ASSUME NEW t \in Threads, EnterEmpty(t) PROVE TypeOK'
  BY <1>3, NoneFromTypes DEF EnterEmpty, TypeOK
<1>4. ASSUME NEW t \in Threads, Descend(t) PROVE TypeOK'
  <2>1. Inner(at) # {} => FirstOf(Inner(at)) \in Nodes
    BY FirstOfIsChild, InnerAreNodes
  <2>2. built' \subseteq Nodes /\ builds' \in [Nodes -> Nat]
    BY <1>4 DEF Descend, Materialize, TypeOK
  <2>3. at' \in Nodes /\ pc' \in [Threads -> Labels]
    BY <1>4, <2>1 DEF Descend, TypeOK, Goto, Labels
  <2> QED
    BY <1>4, <2>2, <2>3 DEF Descend, TypeOK
<1>5. ASSUME NEW t \in Threads, Choose(t) PROVE TypeOK'
  BY <1>5 DEF Choose, Materialize, TypeOK, Goto, Labels
<1>6. ASSUME NEW t \in Threads, TakeTest(t) PROVE TypeOK'
  <2>1. tests[at] \in Seq(Tests) /\ tests[at] # <<>>
    BY <1>6 DEF TakeTest, TypeOK, ChosenInv
  <2>2. Head(tests[at]) \in Tests /\ Tail(tests[at]) \in Seq(Tests)
    BY <2>1, HeadTailProperties
  <2>3. tests' \in [Nodes -> Seq(Tests)]
    BY <1>6, <2>2 DEF TakeTest, TypeOK
  <2>4. job' \in [Threads -> [test : Tests, node : Nodes] \cup {NoJob}]
    BY <1>6, <2>2 DEF TakeTest, TypeOK
  <2>5. locks' \subseteq Nodes
    BY <1>6, LockIsNode DEF TakeTest, TypeOK
  <2>6. inProgress' \in [Nodes -> Int] /\ remaining' \in [Nodes -> Int]
    BY <1>6 DEF TakeTest, CountDown, TypeOK
  <2>7. /\ mutex' \in Threads \cup {NoThread}
        /\ at' \in Nodes
        /\ pc' \in [Threads -> Labels]
        /\ idx' \in Nat
    BY <1>6, SomeFromTypes DEF TakeTest, TypeOK
  <2> QED
    BY <1>6, <2>3, <2>4, <2>5, <2>6, <2>7 DEF TakeTest, TypeOK
<1>7. ASSUME NEW t \in Threads, ReturnSome(t) PROVE TypeOK'
  <2>1. /\ mutex' \in Threads \cup {NoThread}
        /\ at' \in Nodes
        /\ pc' \in [Threads -> Labels]
        /\ idx' \in Nat
    BY <1>7, SomeFromTypes DEF ReturnSome, TypeOK
  <2> QED
    BY <1>7, <2>1 DEF ReturnSome, Retained, CountDown, TypeOK
<1>8. ASSUME NEW t \in Threads, ReturnNone(t) PROVE TypeOK'
  <2>1. /\ mutex' \in Threads \cup {NoThread}
        /\ at' \in Nodes
        /\ pc' \in [Threads -> Labels]
    BY <1>8, NoneFromTypes DEF ReturnNone, TypeOK
  <2> QED
    BY <1>8, <2>1 DEF ReturnNone, Retained, TypeOK
<1>9. ASSUME NEW t \in Threads, FinishTest(t) PROVE TypeOK'
  <2>1. job[t].test \in Tests
    BY <1>9 DEF FinishTest, ExecutionInv, OwnsExecution
  <2>2. Append(results[t], job[t].test) \in Seq(Tests)
    BY <2>1, AppendProperties DEF TypeOK
  <2>3. results' \in [Threads -> Seq(Tests)]
    BY <1>9, <2>2 DEF FinishTest, TypeOK
  <2> QED
    BY <1>9, <2>3 DEF FinishTest, TypeOK, Goto, Labels
<1>10. ASSUME NEW t \in Threads, DropExecution(t) PROVE TypeOK'
  <2>1. job[t].node \in Nodes
    BY <1>10 DEF DropExecution, ExecutionInv, OwnsExecution
  <2>2. inProgress' \in [Nodes -> Int]
    BY <1>10, <2>1 DEF DropExecution, TypeOK
  <2> QED
    BY <1>10, <2>2 DEF DropExecution, TypeOK, Goto, Labels
<1>11. ASSUME NEW t \in Threads, DropGuard(t) PROVE TypeOK'
  BY <1>11 DEF DropGuard, Unlocked, TypeOK, Goto, Labels
<1>12. CASE UNCHANGED vars
  BY <1>12 DEF vars, TypeOK
<1> QED
  BY <1>1, <1>2, <1>3, <1>4, <1>5, <1>6, <1>7, <1>8, <1>9, <1>10, <1>11, <1>12
  DEF Next, Step, Joined

-----------------------------------------------------------------------------
(* A thread inside the plan is alone there.                                *)
LEMMA AloneInPlan ==
    ASSUME NEW t \in Threads, MutexInv, mutex \in {t, NoThread}
    PROVE  \A u \in Threads \ {t} : ~InPlan(u)
  BY ThreadsAssumption DEF MutexInv

(* The calls for inner nodes leave the thread inside the plan with the     *)
(* mutex; the call for the root leaves both.                               *)
LEMMA NoneFromLabel ==
    ASSUME NEW t \in Threads, NEW n, TypeOK, NoneFrom(t, n)
    PROVE  \/ mutex' = mutex /\ Goto(t, "none")
           \/ mutex' = mutex /\ Goto(t, "enter")
           \/ mutex' = NoThread /\ Goto(t, "check")
  BY DEF NoneFrom

LEMMA SomeFromLabel ==
    ASSUME NEW t \in Threads, NEW n, TypeOK, SomeFrom(t, n)
    PROVE  \/ mutex' = mutex /\ Goto(t, "some")
           \/ mutex' = NoThread /\ Goto(t, "run")
  BY DEF SomeFrom

(* The mutex: a step of t that started without another thread in the plan, *)
(* and ends outside the plan or with the mutex.                            *)
LEMMA MutexStep ==
    ASSUME NEW t \in Threads, NEW label, TypeOK, MutexInv,
           mutex \in {t, NoThread}, Goto(t, label),
           label \in {"enter", "lock", "none", "some"} => mutex' = t
    PROVE  MutexInv'
<1> SUFFICES ASSUME NEW u \in Threads, InPlan(u)' PROVE mutex' = u
  BY DEF MutexInv
<1>1. CASE u = t
  BY <1>1 DEF Goto, TypeOK, InPlan
<1>2. CASE u # t
  BY <1>2, AloneInPlan DEF Goto, TypeOK, InPlan
<1> QED
  BY <1>1, <1>2

(* ChosenInv: such a step that does not end between look and lock.         *)
LEMMA ChosenStep ==
    ASSUME NEW t \in Threads, NEW label, TypeOK, MutexInv,
           mutex \in {t, NoThread}, Goto(t, label), label # "lock"
    PROVE  ChosenInv'
<1> SUFFICES ASSUME NEW u \in Threads, pc'[u] = "lock" PROVE FALSE
  BY DEF ChosenInv
<1>1. u # t
  BY DEF Goto, TypeOK
<1> QED
  BY <1>1, AloneInPlan DEF Goto, TypeOK, InPlan

(* A step that takes or gives back nothing keeps what is said of owners.   *)
LEMMA QuietStep ==
    ASSUME NEW t \in Threads, NEW label, TypeOK,
           ExecutionInv, GuardInv, OwnerInv,
           Goto(t, label), UNCHANGED <<job, locks>>,
           label \in {"some", "run", "drop", "unlock"} => OwnsExecution(t)
    PROVE  ExecutionInv' /\ GuardInv' /\ OwnerInv'
<1>1. \A u \in Threads : OwnsExecution(u)' => OwnsExecution(u)
  BY DEF Goto, TypeOK, OwnsExecution
<1>2. ExecutionInv'
  BY <1>1 DEF ExecutionInv
<1>3. GuardInv'
  BY <1>1 DEF GuardInv
<1>4. OwnerInv'
  BY <1>1 DEF OwnerInv
<1> QED
  BY <1>2, <1>3, <1>4

LEMMA InitLock == Init => LockInv
<1> SUFFICES ASSUME Init PROVE LockInv
  OBVIOUS
<1>1. \A t \in Threads : pc[t] = "check"
  BY DEF Init
<1> QED
  BY <1>1, InitTypes
  DEF LockInv, MutexInv, InPlan, ExecutionInv, OwnsExecution, GuardInv, OwnerInv, ChosenInv

LEMMA TakeTestStep ==
    ASSUME NEW t \in Threads, LockInv, TakeTest(t)
    PROVE  MutexInv' /\ ExecutionInv' /\ GuardInv' /\ OwnerInv' /\ ChosenInv'
<1> USE DEF LockInv
<1>1. pc[t] = "lock" /\ mutex = t
  BY DEF TakeTest, MutexInv, InPlan
<1>2. tests[at] # <<>> /\ LockOf(at) \notin locks /\ at \in Nodes
  BY <1>1 DEF ChosenInv, TypeOK
<1>3. PICK label \in {"some", "run"} :
        Goto(t, label) /\ (label = "some" => mutex' = t)
  BY <1>1, SomeFromLabel DEF TakeTest
<1>4. MutexInv' /\ ChosenInv'
  BY <1>1, <1>3, MutexStep, ChosenStep
<1>5. /\ job'[t].node = at
      /\ job'[t] \in [test : Tests, node : Nodes]
  <2>1. tests[at] \in Seq(Tests)
    BY <1>2 DEF TypeOK
  <2>2. Head(tests[at]) \in Tests
    BY <1>2, <2>1, HeadTailProperties
  <2> QED
    BY <1>2, <2>2 DEF TakeTest, TypeOK
<1>6. \A u \in Threads \ {t} : job'[u] = job[u] /\ pc'[u] = pc[u]
  BY <1>3 DEF TakeTest, Goto, TypeOK
<1>7. /\ locks \subseteq locks'
      /\ IsSequential(at) => LockOf(at) \in locks'
  BY DEF TakeTest
<1>8. ExecutionInv'
  BY <1>5, <1>6 DEF ExecutionInv, OwnsExecution
<1>9. GuardInv'
  BY <1>5, <1>6, <1>7 DEF GuardInv, OwnsExecution
<1>10. ASSUME NEW u \in Threads \ {t}, OwnsExecution(u), IsSequential(job[u].node)
       PROVE  LockOf(job[u].node) # LockOf(at)
  BY <1>2, <1>10 DEF GuardInv
<1>11. OwnerInv'
  BY <1>5, <1>6, <1>10 DEF OwnerInv, OwnsExecution
<1> QED
  BY <1>4, <1>8, <1>9, <1>11

LEMMA DropGuardStep ==
    ASSUME NEW t \in Threads, LockInv, DropGuard(t)
    PROVE  MutexInv' /\ ExecutionInv' /\ GuardInv' /\ OwnerInv' /\ ChosenInv'
<1> USE DEF LockInv
<1>1. pc[t] = "unlock" /\ pc'[t] = "check" /\ OwnsExecution(t)
  BY DEF DropGuard, Goto, TypeOK, OwnsExecution
<1>2. \A u \in Threads \ {t} : job'[u] = job[u] /\ pc'[u] = pc[u]
  BY DEF DropGuard, Goto, TypeOK
<1>3. UNCHANGED <<tests, at, mutex>> /\ locks' \subseteq locks
  BY DEF DropGuard, treeVars, walkVars, Unlocked
<1>4. MutexInv'
  BY <1>1, <1>2, <1>3 DEF MutexInv, InPlan
<1>5. ChosenInv'
  BY <1>1, <1>2, <1>3 DEF ChosenInv
<1>6. ExecutionInv'
  BY <1>1, <1>2 DEF ExecutionInv, OwnsExecution
<1>7. ASSUME NEW u \in Threads \ {t}, OwnsExecution(u), IsSequential(job[u].node)
      PROVE  LockOf(job[u].node) \in locks'
  BY <1>1, <1>7 DEF DropGuard, Unlocked, GuardInv, OwnerInv
<1>8. GuardInv'
  BY <1>1, <1>2, <1>7 DEF GuardInv, OwnsExecution
<1>9. OwnerInv'
  BY <1>1, <1>2 DEF OwnerInv, OwnsExecution
<1> QED
  BY <1>4, <1>5, <1>6, <1>8, <1>9

(* Outside the plan a thread changes neither the walk nor the queues.      *)
LEMMA OutsideStep ==
    ASSUME NEW t \in Threads, NEW label, LockInv,
           ~InPlan(t), Goto(t, label),
           label \notin {"enter", "lock", "none", "some"},
           label \in {"run", "drop", "unlock"} => OwnsExecution(t),
           UNCHANGED <<tests, at, mutex, locks, job>>
    PROVE  MutexInv' /\ ExecutionInv' /\ GuardInv' /\ OwnerInv' /\ ChosenInv'
<1> USE DEF LockInv
<1>1. \A u \in Threads : pc'[u] = IF u = t THEN label ELSE pc[u]
  BY DEF Goto, TypeOK
<1>2. MutexInv'
  BY <1>1 DEF MutexInv, InPlan
<1>3. ChosenInv'
  BY <1>1 DEF ChosenInv
<1>4. ExecutionInv' /\ GuardInv' /\ OwnerInv'
  BY QuietStep
<1> QED
  BY <1>2, <1>3, <1>4

LEMMA NextLock == LockInv /\ [Next]_vars => LockInv'
<1> SUFFICES ASSUME LockInv, [Next]_vars
             PROVE  MutexInv' /\ ExecutionInv' /\ GuardInv' /\ OwnerInv' /\ ChosenInv'
  BY NextTypes DEF LockInv
<1> USE DEF LockInv, treeVars, lockVars, walkVars, threadVars
<1> DEFINE Kept == MutexInv' /\ ExecutionInv' /\ GuardInv' /\ OwnerInv' /\ ChosenInv'
<1>1. ASSUME NEW t \in Threads, CheckDone(t) PROVE Kept
  <2>1. PICK label \in {"exit", "pick"} : Goto(t, label)
    BY <1>1 DEF CheckDone
  <2> QED
    BY <1>1, <2>1, OutsideStep DEF CheckDone, InPlan
<1>2. ASSUME NEW t \in Threads, PickNext(t) PROVE Kept
  BY <1>2, MutexStep, ChosenStep, QuietStep DEF PickNext
<1>3. ASSUME NEW t \in Threads, EnterEmpty(t) PROVE Kept
  <2>1. mutex = t
    BY <1>3 DEF EnterEmpty, MutexInv, InPlan
  <2>2. PICK label \in {"none", "enter", "check"} :
          Goto(t, label) /\ (label # "check" => mutex' = t)
    BY <1>3, <2>1, NoneFromLabel DEF EnterEmpty
  <2> QED
    BY <1>3, <2>1, <2>2, MutexStep, ChosenStep, QuietStep DEF EnterEmpty
<1>4. ASSUME NEW t \in Threads, Descend(t) PROVE Kept
  <2>1. mutex = t
    BY <1>4 DEF Descend, MutexInv, InPlan
  <2>2. PICK label \in {"none", "enter"} : Goto(t, label)
    BY <1>4 DEF Descend
  <2> QED
    BY <1>4, <2>1, <2>2, MutexStep, ChosenStep, QuietStep DEF Descend
<1>5. ASSUME NEW t \in Threads, Choose(t) PROVE Kept
  <2>1. mutex = t /\ mutex' = t /\ Goto(t, "lock")
    BY <1>5 DEF Choose, MutexInv, InPlan
  <2>2. MutexInv'
    BY <2>1, MutexStep
  <2>3. ExecutionInv' /\ GuardInv' /\ OwnerInv'
    BY <1>5, <2>1, QuietStep DEF Choose
  <2>4. tests'[at'] # <<>> /\ LockOf(at') \notin locks'
    BY <1>5 DEF Choose, Locked
  <2>5. ChosenInv'
    BY <2>4 DEF ChosenInv
  <2> QED
    BY <2>2, <2>3, <2>5
<1>6. ASSUME NEW t \in Threads, TakeTest(t) PROVE Kept
  BY <1>6, TakeTestStep
<1>7. ASSUME NEW t \in Threads, ReturnSome(t) PROVE Kept
  <2>1. mutex = t /\ OwnsExecution(t)
    BY <1>7 DEF ReturnSome, MutexInv, InPlan, OwnsExecution
  <2>2. PICK label \in {"some", "run"} :
          Goto(t, label) /\ (label = "some" => mutex' = t)
    BY <1>7, <2>1, SomeFromLabel DEF ReturnSome
  <2> QED
    BY <1>7, <2>1, <2>2, MutexStep, ChosenStep, QuietStep DEF ReturnSome
<1>8. ASSUME NEW t \in Threads, ReturnNone(t) PROVE Kept
  <2>1. mutex = t
    BY <1>8 DEF ReturnNone, MutexInv, InPlan
  <2>2. PICK label \in {"none", "enter", "check"} :
          Goto(t, label) /\ (label # "check" => mutex' = t)
    BY <1>8, <2>1, NoneFromLabel DEF ReturnNone
  <2> QED
    BY <1>8, <2>1, <2>2, MutexStep, ChosenStep, QuietStep DEF ReturnNone
<1>9. ASSUME NEW t \in Threads, FinishTest(t) PROVE Kept
  BY <1>9, OutsideStep DEF FinishTest, InPlan, OwnsExecution
<1>10. ASSUME NEW t \in Threads, DropExecution(t) PROVE Kept
  BY <1>10, OutsideStep DEF DropExecution, InPlan, OwnsExecution
<1>11. ASSUME NEW t \in Threads, DropGuard(t) PROVE Kept
  BY <1>11, DropGuardStep
<1>12. CASE UNCHANGED vars
  BY <1>12 DEF vars, MutexInv, InPlan, ExecutionInv, OwnsExecution, GuardInv, OwnerInv, ChosenInv
<1> QED
  BY <1>1, <1>2, <1>3, <1>4, <1>5, <1>6, <1>7, <1>8, <1>9, <1>10, <1>11, <1>12
  DEF Next, Step, Joined

-----------------------------------------------------------------------------
(* What a thread holds or looked at is not disturbed by the other threads, *)
(* whatever the tree of suites (the loop of test_thread and the walk of    *)
(* pick_next_internal).                                                    *)
THEOREM LockSafety == Spec => []LockInv
<1>1. Init => LockInv
  BY InitLock
<1>2. LockInv /\ [Next]_vars => LockInv'
  BY NextLock
<1> QED
  BY <1>1, <1>2, PTL DEF Spec

(* Every variable of the scheduler keeps its type: the walk never leaves   *)
(* the tree and a TestExecution always names a test and its suite.         *)
THEOREM TypeCorrect == Spec => []TypeOK
<1>1. LockInv => TypeOK
  BY DEF LockInv
<1> QED
  BY <1>1, LockSafety, PTL

(* Two tests inside one #[sequential] module never run at the same time,   *)
(* for every tree, every nesting of such modules and any number of threads.*)
THEOREM Exclusion == Spec => []SequentialExclusion
<1>1. LockInv => SequentialExclusion
  <2> SUFFICES ASSUME LockInv, NEW t \in Threads, NEW u \in Threads,
                      t # u, Running(t), Running(u),
                      Conflict(job[t].node, job[u].node)
               PROVE  FALSE
    BY DEF SequentialExclusion
  <2>1. OwnsExecution(t) /\ OwnsExecution(u)
    BY DEF Running, OwnsExecution
  <2>2. job[t].node \in Nodes /\ job[u].node \in Nodes
    BY <2>1 DEF LockInv, ExecutionInv
  <2>3. /\ IsSequential(job[t].node) /\ IsSequential(job[u].node)
        /\ LockOf(job[t].node) = LockOf(job[u].node)
    BY <2>2, ConflictSharesLock
  <2> QED
    BY <2>1, <2>3 DEF LockInv, OwnerInv
<1> QED
  BY <1>1, LockSafety, PTL

(* `sequential_lock.lock` under the mutex of the plan finds the lock free: *)
(* no thread ever blocks there and stops all the others with it.           *)
THEOREM NeverWaits == Spec => []LockNeverWaits
<1>1. LockInv => LockNeverWaits
  BY DEF LockInv, ChosenInv, LockNeverWaits
<1> QED
  BY <1>1, LockSafety, PTL

-----------------------------------------------------------------------------
(* Where every test is.                                                    *)

(* A thread holds a test from taking it until its result is pushed.        *)
Holding(t) == pc[t] \in {"some", "run"}

(* The queues shrink from the front and have no test twice.                *)
QueueInv ==
    \A n \in Nodes :
        /\ Elements(tests[n]) \subseteq Elements(OwnTests[n])
        /\ \A i, j \in DOMAIN tests[n] : tests[n][i] = tests[n][j] => i = j

(* A suite with a queued test can be reached from the root.                *)
AttachedInv ==
    \A n \in Nodes : tests[n] # <<>> =>
        \A p \in Nodes : IsPrefixOf(p, n) => p \in attached

(* A test that is held is nowhere else ...                                 *)
HeldInv ==
    /\ \A t \in Threads : OwnsExecution(t) => job[t].test \in Elements(OwnTests[job[t].node])
    /\ \A t \in Threads : Holding(t) =>
          /\ \A n \in Nodes : job[t].test \notin Elements(tests[n])
          /\ \A u \in Threads : job[t].test \notin Elements(results[u])
    /\ \A t, u \in Threads :
          Holding(t) /\ Holding(u) /\ job[t].test = job[u].test => t = u

(* ... one that is reported is so once and not queued ...                  *)
ReportedInv ==
    /\ \A t \in Threads, n \in Nodes : Elements(results[t]) \cap Elements(tests[n]) = {}
    /\ \A t, u \in Threads : \A i \in DOMAIN results[t], j \in DOMAIN results[u] :
          results[t][i] = results[u][j] => t = u /\ i = j

(* ... and every test is somewhere.                                        *)
SomewhereInv ==
    \A x \in Tests :
        \/ \E n \in Nodes : x \in Elements(tests[n])
        \/ \E t \in Threads : Holding(t) /\ job[t].test = x
        \/ \E t \in Threads : x \in Elements(results[t])

PlaceInv == QueueInv /\ AttachedInv /\ HeldInv /\ ReportedInv /\ SomewhereInv

-----------------------------------------------------------------------------
(* What `Elements` says of a queue.                                        *)
LEMMA ElementsOfSeq ==
    ASSUME NEW S, NEW s \in Seq(S)
    PROVE  /\ Elements(s) \subseteq S
           /\ \A e : e \in Elements(s) <=> \E i \in 1..Len(s) : s[i] = e
           /\ s = <<>> <=> Elements(s) = {}
<1>1. DOMAIN s = 1..Len(s) /\ Len(s) \in Nat
  BY LenProperties
<1>2. \A i \in 1..Len(s) : s[i] \in S
  BY ElementOfSeq
<1>3. s # <<>> => 1 \in 1..Len(s)
  BY EmptySeq
<1>4. s = <<>> => Len(s) = 0
  BY EmptySeq
<1>5. s = <<>> => 1..Len(s) = {}
  BY <1>4
<1> QED
  BY <1>1, <1>2, <1>3, <1>5 DEF Elements

(* Popping takes one element out of a queue without duplicates.            *)
LEMMA PopTakesOne ==
    ASSUME NEW S, NEW s \in Seq(S), s # <<>>,
           \A i, j \in DOMAIN s : s[i] = s[j] => i = j
    PROVE  /\ Head(s) \in Elements(s)
           /\ Elements(Tail(s)) = Elements(s) \ {Head(s)}
           /\ \A i, j \in DOMAIN Tail(s) : Tail(s)[i] = Tail(s)[j] => i = j
<1>1. /\ DOMAIN s = 1..Len(s)
      /\ Len(s) \in Nat \ {0}
  BY EmptySeq, LenProperties
<1>2. /\ Tail(s) \in Seq(S)
      /\ Len(Tail(s)) = Len(s) - 1
      /\ \A i \in 1..Len(Tail(s)) : Tail(s)[i] = s[i + 1]
  BY HeadTailProperties
<1>3. DOMAIN Tail(s) = 1..Len(Tail(s))
  BY <1>2, LenProperties
<1>4. Head(s) = s[1]
  BY <1>1
<1>5. Head(s) \in Elements(s)
  BY <1>1, <1>4 DEF Elements
<1>6. \A i \in 1..Len(Tail(s)) : i + 1 \in 1..Len(s) /\ i + 1 # 1
  BY <1>1, <1>2
<1>7. ASSUME NEW e \in Elements(s), e # Head(s) PROVE e \in Elements(Tail(s))
  <2>1. PICK i \in 1..Len(s) : e = s[i]
    BY <1>1 DEF Elements
  <2>2. i - 1 \in 1..Len(Tail(s)) /\ (i - 1) + 1 = i
    BY <1>1, <1>2, <1>4, <1>7, <2>1
  <2> QED
    BY <1>2, <1>3, <2>1, <2>2 DEF Elements
<1>8. ASSUME NEW e \in Elements(Tail(s)) PROVE e \in Elements(s) \ {Head(s)}
  <2>1. PICK i \in 1..Len(Tail(s)) : e = Tail(s)[i]
    BY <1>3 DEF Elements
  <2>2. e = s[i + 1] /\ i + 1 \in DOMAIN s /\ i + 1 # 1 /\ 1 \in DOMAIN s
    BY <1>1, <1>2, <1>6, <2>1
  <2> QED
    BY <1>4, <2>2 DEF Elements
<1>9. ASSUME NEW i \in DOMAIN Tail(s), NEW j \in DOMAIN Tail(s), Tail(s)[i] = Tail(s)[j]
      PROVE  i = j
  <2>1. i \in 1..Len(Tail(s)) /\ j \in 1..Len(Tail(s))
    BY <1>3
  <2>2. s[i + 1] = s[j + 1] /\ i + 1 \in DOMAIN s /\ j + 1 \in DOMAIN s
    BY <1>1, <1>2, <1>6, <1>9, <2>1
  <2>3. i + 1 = j + 1
    BY <2>2
  <2> QED
    BY <1>1, <1>2, <2>1, <2>3
<1> QED
  BY <1>5, <1>7, <1>8, <1>9

(* Pushing adds one element at the end.                                    *)
LEMMA PushAddsOne ==
    ASSUME NEW S, NEW s \in Seq(S), NEW e \in S
    PROVE  /\ Elements(Append(s, e)) = Elements(s) \cup {e}
           /\ DOMAIN Append(s, e) = DOMAIN s \cup {Len(s) + 1}
           /\ \A i \in DOMAIN s : Append(s, e)[i] = s[i]
           /\ Append(s, e)[Len(s) + 1] = e
<1>1. /\ Append(s, e) \in Seq(S)
      /\ Len(Append(s, e)) = Len(s) + 1
      /\ \A i \in 1..Len(s) : Append(s, e)[i] = s[i]
      /\ Append(s, e)[Len(s) + 1] = e
  BY AppendProperties
<1>2. DOMAIN s = 1..Len(s) /\ Len(s) \in Nat /\ DOMAIN Append(s, e) = 1..Len(Append(s, e))
  BY <1>1, LenProperties
<1>3. DOMAIN Append(s, e) = DOMAIN s \cup {Len(s) + 1}
  BY <1>1, <1>2
<1> QED
  BY <1>1, <1>2, <1>3 DEF Elements

-----------------------------------------------------------------------------
(* The queues and the results are sequences of tests.                      *)
LEMMA QueuesAreSeqs ==
    ASSUME TypeOK
    PROVE  /\ \A n \in Nodes : tests[n] \in Seq(Tests)
           /\ \A n \in Nodes : tests[n] = <<>> <=> Elements(tests[n]) = {}
           /\ \A t \in Threads : results[t] \in Seq(Tests)
  BY ElementsOfSeq DEF TypeOK

(* A suite that `retain` removes has nothing queued below it.              *)
LEMMA EmptyBelow ==
    ASSUME TypeOK, AttachedInv, NEW n \in Nodes, IsEmpty(n),
           NEW m \in Nodes, IsPrefixOf(n, m)
    PROVE  tests[m] = <<>>
<1>1. CASE m = n
  BY <1>1 DEF IsEmpty
<1>2. CASE m # n
  <2>1. PICK c \in ChildrenOf(n) : IsPrefixOf(c, m)
    BY <1>2, ChildTowards
  <2>2. c \in Nodes /\ c \notin attached
    BY <2>1 DEF IsEmpty, Inner, ChildrenOf
  <2> QED
    BY <2>1, <2>2 DEF AttachedInv
<1> QED
  BY <1>1, <1>2

(* ... so `retain` cuts no queued test off from the root.                  *)
LEMMA RetainedKeeps ==
    ASSUME TypeOK, AttachedInv, attached' = Retained(at), UNCHANGED tests
    PROVE  AttachedInv'
<1> SUFFICES ASSUME NEW n \in Nodes, tests[n] # <<>>, NEW p \in Nodes, IsPrefixOf(p, n)
             PROVE  p \in Retained(at)
  BY DEF AttachedInv
<1>1. p \in attached
  BY DEF AttachedInv
<1>2. ~ IsEmpty(p)
  BY EmptyBelow
<1> QED
  BY <1>1, <1>2 DEF Retained

(* A step that moves no test.                                              *)
LEMMA QuietPlaces ==
    ASSUME NEW t \in Threads, NEW label, TypeOK,
           QueueInv, HeldInv, ReportedInv, SomewhereInv,
           Goto(t, label), UNCHANGED <<tests, results>>,
           \A u \in Threads : job'[u] = job[u] \/ (u = t /\ label = "check"),
           label \in {"some", "run"} <=> Holding(t),
           label \in {"some", "run", "drop", "unlock"} => OwnsExecution(t)
    PROVE  QueueInv' /\ HeldInv' /\ ReportedInv' /\ SomewhereInv'
<1>1. \A u \in Threads : pc'[u] = IF u = t THEN label ELSE pc[u]
  BY DEF Goto, TypeOK
<1>2. \A u \in Threads : Holding(u)' <=> Holding(u)
  BY <1>1 DEF Holding
<1>3. \A u \in Threads : OwnsExecution(u)' => OwnsExecution(u) /\ job'[u] = job[u]
  BY <1>1 DEF OwnsExecution
<1>4. \A u \in Threads : Holding(u) => job'[u] = job[u]
  BY <1>2, <1>3 DEF Holding, OwnsExecution
<1>5. QueueInv' /\ ReportedInv'
  BY DEF QueueInv, ReportedInv
<1>6. HeldInv'
  BY <1>2, <1>3, <1>4 DEF HeldInv
<1>7. SomewhereInv'
  BY <1>2, <1>4 DEF SomewhereInv
<1> QED
  BY <1>5, <1>6, <1>7

(* The first queued test of a suite goes into the hands of a thread.       *)
LEMMA TakePlaces ==
    ASSUME NEW t \in Threads, LockInv, PlaceInv, TakeTest(t)
    PROVE  PlaceInv'
<1> USE DEF LockInv, PlaceInv
<1> DEFINE x == Head(tests[at])
<1>1. /\ pc[t] = "lock" /\ at \in Nodes
      /\ tests[at] \in Seq(Tests) /\ tests[at] # <<>>
  BY QueuesAreSeqs DEF TakeTest, ChosenInv, TypeOK
<1>2. /\ x \in Elements(tests[at])
      /\ Elements(Tail(tests[at])) = Elements(tests[at]) \ {x}
      /\ \A i, j \in DOMAIN Tail(tests[at]) : Tail(tests[at])[i] = Tail(tests[at])[j] => i = j
  BY <1>1, PopTakesOne DEF QueueInv
<1>3. /\ x \in Tests
      /\ x \in Elements(OwnTests[at])
  BY <1>1, <1>2, ElementsOfSeq DEF QueueInv
<1>4. /\ tests' = [tests EXCEPT ![at] = Tail(tests[at])]
      /\ job' = [job EXCEPT ![t] = [test |-> x, node |-> at]]
      /\ UNCHANGED <<attached, results>>
  BY DEF TakeTest
<1>5. PICK label \in {"some", "run"} : Goto(t, label)
  BY SomeFromLabel DEF TakeTest
<1>6. \A u \in Threads : pc'[u] = IF u = t THEN label ELSE pc[u]
  BY <1>5 DEF Goto, TypeOK
<1>7. /\ \A n \in Nodes \ {at} : tests'[n] = tests[n]
      /\ tests'[at] = Tail(tests[at])
      /\ \A u \in Threads \ {t} : job'[u] = job[u]
      /\ job'[t].test = x /\ job'[t].node = at
  BY <1>1, <1>4 DEF TypeOK
<1>8. ~Holding(t) /\ Holding(t)' /\ \A u \in Threads \ {t} : Holding(u)' <=> Holding(u)
  BY <1>1, <1>6 DEF Holding
<1>9. \A n \in Nodes : Elements(tests'[n]) = Elements(tests[n]) \ {x}
  <2>1. ASSUME NEW n \in Nodes \ {at}, x \in Elements(tests[n]) PROVE FALSE
    <3>1. x \in Elements(OwnTests[n])
      BY <2>1 DEF QueueInv
    <3> QED
      BY <1>1, <1>3, <3>1, PlacesOfTests DEF Elements
  <2> QED
    BY <1>2, <1>7, <2>1
<1>10. QueueInv'
  <2>1. ASSUME NEW n \in Nodes
        PROVE  /\ Elements(tests'[n]) \subseteq Elements(OwnTests[n])
               /\ \A i, j \in DOMAIN tests'[n] : tests'[n][i] = tests'[n][j] => i = j
    <3>1. Elements(tests[n]) \subseteq Elements(OwnTests[n])
      BY DEF QueueInv
    <3>2. CASE n = at
      <4>1. tests'[n] = Tail(tests[at])
        BY <1>7, <3>2
      <4>2. \A i, j \in DOMAIN tests'[n] : tests'[n][i] = tests'[n][j] => i = j
        BY <1>2, <4>1
      <4> QED
        BY <1>9, <3>1, <4>2
    <3>3. CASE n # at
      BY <1>7, <3>3 DEF QueueInv
    <3> QED
      BY <3>2, <3>3
  <2> QED
    BY <2>1 DEF QueueInv
<1>11. AttachedInv'
  <2>1. \A n \in Nodes : tests'[n] # <<>> => tests[n] # <<>>
    BY <1>1, <1>7
  <2> QED
    BY <1>4, <2>1 DEF AttachedInv
<1>12. HeldInv'
  <2>1. \A u \in Threads : x \notin Elements(results[u])
    BY <1>1, <1>2 DEF ReportedInv
  <2>2. \A u \in Threads \ {t} : Holding(u) => job[u].test # x
    BY <1>1, <1>2 DEF HeldInv
  <2>3. \A u \in Threads : OwnsExecution(u)' => job'[u].test \in Elements(OwnTests[job'[u].node])
    BY <1>3, <1>6, <1>7 DEF HeldInv, OwnsExecution
  <2>4. \A u \in Threads : Holding(u)' =>
           /\ \A n \in Nodes : job'[u].test \notin Elements(tests'[n])
           /\ \A v \in Threads : job'[u].test \notin Elements(results'[v])
    <3>1. \A n \in Nodes : x \notin Elements(tests'[n])
      BY <1>9
    <3>2. \A u \in Threads \ {t} : Holding(u)' =>
             /\ \A n \in Nodes : job'[u].test \notin Elements(tests'[n])
             /\ \A v \in Threads : job'[u].test \notin Elements(results[v])
      BY <1>7, <1>8, <1>9 DEF HeldInv
    <3> QED
      BY <1>4, <1>7, <2>1, <3>1, <3>2
  <2>5. \A u, v \in Threads : Holding(u)' /\ Holding(v)' /\ job'[u].test = job'[v].test => u = v
    BY <1>7, <1>8, <2>2 DEF HeldInv
  <2> QED
    BY <2>3, <2>4, <2>5 DEF HeldInv
<1>13. ReportedInv'
  BY <1>4, <1>9 DEF ReportedInv
<1>14. SomewhereInv'
  BY <1>4, <1>7, <1>8, <1>9 DEF SomewhereInv
<1> QED
  BY <1>10, <1>11, <1>12, <1>13, <1>14

(* The test a thread holds becomes its last result.                        *)
LEMMA FinishPlaces ==
    ASSUME NEW t \in Threads, LockInv, PlaceInv, FinishTest(t)
    PROVE  PlaceInv'
<1> USE DEF LockInv, PlaceInv
<1> DEFINE x == job[t].test
<1>1. /\ pc[t] = "run" /\ Goto(t, "drop")
      /\ UNCHANGED <<tests, attached, job>>
      /\ results' = [results EXCEPT ![t] = Append(results[t], x)]
  BY DEF FinishTest, treeVars
<1>2. OwnsExecution(t) /\ Holding(t)
  BY <1>1 DEF OwnsExecution, Holding
<1>3. x \in Tests /\ results[t] \in Seq(Tests)
  BY <1>2, QueuesAreSeqs DEF ExecutionInv
<1>4. \A u \in Threads : pc'[u] = IF u = t THEN "drop" ELSE pc[u]
  BY <1>1 DEF Goto, TypeOK
<1>5. \A u \in Threads : Holding(u)' <=> Holding(u) /\ u # t
  BY <1>4 DEF Holding
<1>6. /\ Elements(Append(results[t], x)) = Elements(results[t]) \cup {x}
      /\ DOMAIN Append(results[t], x) = DOMAIN results[t] \cup {Len(results[t]) + 1}
      /\ \A i \in DOMAIN results[t] : Append(results[t], x)[i] = results[t][i]
      /\ Append(results[t], x)[Len(results[t]) + 1] = x
  BY <1>3, PushAddsOne
<1>7. results'[t] = Append(results[t], x) /\ \A u \in Threads \ {t} : results'[u] = results[u]
  BY <1>1 DEF TypeOK
<1> HIDE DEF x
<1>8. \A u \in Threads : \A i \in DOMAIN results'[u] :
         \/ i \in DOMAIN results[u] /\ results'[u][i] = results[u][i]
         \/ u = t /\ i = Len(results[t]) + 1 /\ results'[u][i] = x
  BY <1>6, <1>7
<1>9. \A u \in Threads : x \notin Elements(results[u])
  BY <1>2 DEF HeldInv, x
<1>10. \A u \in Threads : \A i \in DOMAIN results[u] : results[u][i] # x
  BY <1>9 DEF Elements
<1>11. \A n \in Nodes : x \notin Elements(tests[n])
  BY <1>2 DEF HeldInv, x
<1>12. QueueInv' /\ AttachedInv'
  BY <1>1 DEF QueueInv, AttachedInv
<1>13. HeldInv'
  <2>1. \A u \in Threads : OwnsExecution(u)' => OwnsExecution(u)
    BY <1>1, <1>4 DEF OwnsExecution
  <2>2. \A u \in Threads \ {t} : Holding(u) => job[u].test # x
    BY <1>2 DEF HeldInv, x
  <2> QED
    BY <1>1, <1>5, <1>6, <1>7, <2>1, <2>2 DEF HeldInv
<1>14. ReportedInv'
  <2>1. \A u \in Threads, n \in Nodes : Elements(results'[u]) \cap Elements(tests'[n]) = {}
    BY <1>1, <1>6, <1>7, <1>11 DEF ReportedInv
  <2>2. ASSUME NEW u \in Threads, NEW v \in Threads,
               NEW i \in DOMAIN results'[u], NEW j \in DOMAIN results'[v],
               results'[u][i] = results'[v][j]
        PROVE  u = v /\ i = j
    BY <1>8, <1>10, <2>2 DEF ReportedInv
  <2> QED
    BY <2>1, <2>2 DEF ReportedInv
<1>15. SomewhereInv'
  BY <1>1, <1>5, <1>6, <1>7 DEF SomewhereInv, x
<1> QED
  BY <1>12, <1>13, <1>14, <1>15

LEMMA InitPlaces == Init => PlaceInv
<1> SUFFICES ASSUME Init PROVE PlaceInv
  OBVIOUS
<1>1. /\ tests = OwnTests /\ attached = Nodes
      /\ \A t \in Threads : pc[t] = "check" /\ results[t] = <<>>
  BY DEF Init
<1>2. QueueInv
  BY <1>1, PlacesOfTests DEF QueueInv, Elements
<1>3. AttachedInv
  BY <1>1 DEF AttachedInv
<1>4. HeldInv
  BY <1>1 DEF HeldInv, Holding, OwnsExecution
<1>5. ReportedInv
  BY <1>1 DEF ReportedInv, Elements
<1>6. SomewhereInv
  BY <1>1, PlacesOfTests DEF SomewhereInv, Elements
<1> QED
  BY <1>2, <1>3, <1>4, <1>5, <1>6 DEF PlaceInv

LEMMA NextPlaces == LockInv /\ PlaceInv /\ [Next]_vars => PlaceInv'
<1> SUFFICES ASSUME LockInv, PlaceInv, [Next]_vars PROVE PlaceInv'
  OBVIOUS
<1> USE DEF LockInv, PlaceInv, treeVars, lockVars, walkVars, threadVars
<1> DEFINE Quiet(t, label) ==
      /\ Goto(t, label)
      /\ UNCHANGED <<tests, results>>
      /\ \A u \in Threads : job'[u] = job[u] \/ (u = t /\ label = "check")
      /\ label \in {"some", "run"} <=> Holding(t)
      /\ label \in {"some", "run", "drop", "unlock"} => OwnsExecution(t)
<1>1. ASSUME NEW t \in Threads, NEW label, Quiet(t, label),
             attached' = attached \/ attached' = Retained(at)
      PROVE  PlaceInv'
  <2>1. QueueInv' /\ HeldInv' /\ ReportedInv' /\ SomewhereInv'
    BY <1>1, QuietPlaces
  <2>2. AttachedInv'
    BY <1>1, RetainedKeeps DEF AttachedInv
  <2> QED
    BY <2>1, <2>2
<1>2. ASSUME NEW t \in Threads, CheckDone(t) PROVE PlaceInv'
  <2>1. PICK label \in {"exit", "pick"} : Goto(t, label)
    BY <1>2 DEF CheckDone
  <2>2. Quiet(t, label)
    BY <1>2, <2>1 DEF CheckDone, Holding
  <2> QED
    BY <1>1, <1>2, <2>2 DEF CheckDone
<1>3. ASSUME NEW t \in Threads, PickNext(t) PROVE PlaceInv'
  <2>1. Quiet(t, "enter")
    BY <1>3 DEF PickNext, Holding
  <2> QED
    BY <1>1, <1>3, <2>1 DEF PickNext
<1>4. ASSUME NEW t \in Threads, EnterEmpty(t) PROVE PlaceInv'
  <2>1. PICK label \in {"none", "enter", "check"} : Goto(t, label)
    BY <1>4, NoneFromLabel DEF EnterEmpty
  <2>2. Quiet(t, label)
    BY <1>4, <2>1 DEF EnterEmpty, Holding
  <2> QED
    BY <1>1, <1>4, <2>2 DEF EnterEmpty
<1>5. ASSUME NEW t \in Threads, Descend(t) PROVE PlaceInv'
  <2>1. PICK label \in {"none", "enter"} : Goto(t, label)
    BY <1>5 DEF Descend
  <2>2. Quiet(t, label)
    BY <1>5, <2>1 DEF Descend, Holding
  <2> QED
    BY <1>1, <1>5, <2>2 DEF Descend
<1>6. ASSUME NEW t \in Threads, Choose(t) PROVE PlaceInv'
  <2>1. Quiet(t, "lock")
    BY <1>6 DEF Choose, Holding
  <2> QED
    BY <1>1, <1>6, <2>1 DEF Choose
<1>7. ASSUME NEW t \in Threads, TakeTest(t) PROVE PlaceInv'
  BY <1>7, TakePlaces
<1>8. ASSUME NEW t \in Threads, ReturnSome(t) PROVE PlaceInv'
  <2>1. PICK label \in {"some", "run"} : Goto(t, label)
    BY <1>8, SomeFromLabel DEF ReturnSome
  <2>2. Quiet(t, label)
    BY <1>8, <2>1 DEF ReturnSome, Holding, OwnsExecution
  <2> QED
    BY <1>1, <1>8, <2>2 DEF ReturnSome
<1>9. ASSUME NEW t \in Threads, ReturnNone(t) PROVE PlaceInv'
  <2>1. PICK label \in {"none", "enter", "check"} : Goto(t, label)
    BY <1>9, NoneFromLabel DEF ReturnNone
  <2>2. Quiet(t, label)
    BY <1>9, <2>1 DEF ReturnNone, Holding
  <2> QED
    BY <1>1, <1>9, <2>2 DEF ReturnNone
<1>10. ASSUME NEW t \in Threads, FinishTest(t) PROVE PlaceInv'
  BY <1>10, FinishPlaces
<1>11. ASSUME NEW t \in Threads, DropExecution(t) PROVE PlaceInv'
  <2>1. Quiet(t, "unlock")
    BY <1>11 DEF DropExecution, Holding, OwnsExecution
  <2> QED
    BY <1>1, <1>11, <2>1 DEF DropExecution
<1>12. ASSUME NEW t \in Threads, DropGuard(t) PROVE PlaceInv'
  <2>1. Quiet(t, "check")
    BY <1>12 DEF DropGuard, Holding, TypeOK
  <2> QED
    BY <1>1, <1>12, <2>1 DEF DropGuard
<1>13. CASE UNCHANGED vars
  <2>1. UNCHANGED <<tests, attached, pc, job, results>>
    BY <1>13 DEF vars
  <2>2. QueueInv' /\ AttachedInv' /\ ReportedInv'
    <3>1. QueueInv'
      BY <2>1 DEF QueueInv
    <3>2. AttachedInv'
      BY <2>1 DEF AttachedInv
    <3>3. ReportedInv'
      BY <2>1 DEF ReportedInv
    <3> QED
      BY <3>1, <3>2, <3>3
  <2>3. \A t \in Threads : (Holding(t)' <=> Holding(t)) /\ (OwnsExecution(t)' <=> OwnsExecution(t))
    BY <2>1 DEF Holding, OwnsExecution
  <2>4. HeldInv'
    BY <2>1, <2>3 DEF HeldInv
  <2>5. SomewhereInv'
    BY <2>1, <2>3 DEF SomewhereInv
  <2> QED
    BY <2>2, <2>4, <2>5
<1> QED
  BY <1>2, <1>3, <1>4, <1>5, <1>6, <1>7, <1>8, <1>9, <1>10, <1>11, <1>12, <1>13
  DEF Next, Step, Joined

(* The queues, the tests in hand and the results are disjoint and          *)
(* complete, however threads interleave their walks with `inner.retain`.   *)
THEOREM PlaceSafety == Spec => [](LockInv /\ PlaceInv)
<1>1. Init => LockInv /\ PlaceInv
  BY InitLock, InitPlaces
<1>2. LockInv /\ PlaceInv /\ [Next]_vars => (LockInv /\ PlaceInv)'
  BY NextLock, NextPlaces
<1> QED
  BY <1>1, <1>2, PTL DEF Spec

(* A sequence without duplicates is not longer than the set it is over.    *)
LEMMA DistinctIsShort ==
    ASSUME NEW S, IsFiniteSet(S), NEW s \in Seq(S),
           \A i, j \in DOMAIN s : s[i] = s[j] => i = j
    PROVE  DOMAIN s \subseteq 1..Cardinality(S)
<1>1. DOMAIN s = 1..Len(s) /\ Len(s) \in Nat /\ s \in [1..Len(s) -> S]
  BY LenProperties
<1>2. s \in Injection(1..Len(s), S)
  BY <1>1, Fun_IsInj
<1>3. Cardinality(1..Len(s)) <= Cardinality(S)
  BY <1>2, FS_Injection
<1>4. Cardinality(1..Len(s)) = Len(s)
  <2>1. Cardinality(1..Len(s)) = IF 1 > Len(s) THEN 0 ELSE Len(s) - 1 + 1
    BY <1>1, FS_Interval
  <2> QED
    BY <1>1, <2>1
<1>5. Cardinality(S) \in Nat
  BY FS_CardinalityType
<1> QED
  BY <1>1, <1>3, <1>4, <1>5

(* What it means for a place to hold a test.                               *)
LEMMA PlacesByKind ==
    ASSUME NEW x, NEW p
    PROVE  p \in Places(x) /\ Holds(p, x) <=>
              \/ \E n \in attached, i \in 1..Cardinality(Tests) :
                    p = <<"queue", n, i>> /\ i \in DOMAIN tests[n] /\ tests[n][i] = x
              \/ \E t \in Threads, i \in 1..Cardinality(Tests) :
                    p = <<"result", t, i>> /\ i \in DOMAIN results[t] /\ results[t][i] = x
              \/ \E t \in Threads : p = <<"thread", t, 1>> /\ Holding(t) /\ job[t].test = x
<1>1. ASSUME NEW n, NEW i
      PROVE  Holds(<<"queue", n, i>>, x) <=> i \in DOMAIN tests[n] /\ tests[n][i] = x
  BY DEF Holds
<1>2. ASSUME NEW t, NEW i
      PROVE  Holds(<<"result", t, i>>, x) <=> i \in DOMAIN results[t] /\ results[t][i] = x
  BY DEF Holds
<1>3. ASSUME NEW t
      PROVE  Holds(<<"thread", t, 1>>, x) <=> Holding(t) /\ job[t].test = x
  BY DEF Holds, Holding
<1> QED
  BY <1>1, <1>2, <1>3 DEF Places

(* The places the three kinds of invariant speak of are all there is.      *)
LEMMA OnePlace ==
    ASSUME LockInv, PlaceInv
    PROVE  EveryTestInOnePlace
<1> USE DEF LockInv, PlaceInv
<1> SUFFICES ASSUME NEW x \in Tests
             PROVE  Cardinality({p \in Places(x) : Holds(p, x)}) = 1
  BY DEF EveryTestInOnePlace
<1> DEFINE S == {p \in Places(x) : Holds(p, x)}
           Queued(p, n, i) == p = <<"queue", n, i>> /\ n \in attached
                              /\ i \in DOMAIN tests[n] /\ tests[n][i] = x
           Reported(p, t, i) == p = <<"result", t, i>> /\ t \in Threads
                                /\ i \in DOMAIN results[t] /\ results[t][i] = x
           Held(p, t) == p = <<"thread", t, 1>> /\ t \in Threads
                         /\ Holding(t) /\ job[t].test = x
<1>1. /\ \A n \in Nodes : DOMAIN tests[n] \subseteq 1..Cardinality(Tests)
      /\ \A t \in Threads : DOMAIN results[t] \subseteq 1..Cardinality(Tests)
  <2>1. ASSUME NEW n \in Nodes PROVE DOMAIN tests[n] \subseteq 1..Cardinality(Tests)
    <3>1. tests[n] \in Seq(Tests)
      BY QueuesAreSeqs
    <3>2. \A i, j \in DOMAIN tests[n] : tests[n][i] = tests[n][j] => i = j
      BY DEF QueueInv
    <3> QED
      BY <3>1, <3>2, DistinctIsShort, PlacesOfTests
  <2>2. ASSUME NEW t \in Threads PROVE DOMAIN results[t] \subseteq 1..Cardinality(Tests)
    <3>1. results[t] \in Seq(Tests)
      BY QueuesAreSeqs
    <3>2. \A i, j \in DOMAIN results[t] : results[t][i] = results[t][j] => i = j
      BY DEF ReportedInv
    <3> QED
      BY <3>1, <3>2, DistinctIsShort, PlacesOfTests
  <2> QED
    BY <2>1, <2>2
<1>2. attached \subseteq Nodes
  BY DEF TypeOK
<1>3. \A p : p \in S <=> \/ \E n, i : Queued(p, n, i)
                         \/ \E t, i : Reported(p, t, i)
                         \/ \E t : Held(p, t)
  BY <1>1, <1>2, PlacesByKind
<1> HIDE DEF S
<1>4. ASSUME NEW p \in S, NEW q \in S PROVE p = q
  <2>1. ASSUME NEW n, NEW i, Queued(p, n, i) PROVE p = q
    <3>1. n \in Nodes /\ x \in Elements(tests[n]) /\ x \in Elements(OwnTests[n])
      BY <1>2, <2>1 DEF QueueInv, Elements
    <3>2. ASSUME NEW m, NEW j, Queued(q, m, j) PROVE p = q
      <4>1. m \in Nodes /\ x \in Elements(OwnTests[m])
        BY <1>2, <3>2 DEF QueueInv, Elements
      <4>2. m = n
        BY <3>1, <4>1, PlacesOfTests DEF Elements
      <4>3. i = j
        BY <2>1, <3>1, <3>2, <4>2 DEF QueueInv
      <4> QED
        BY <2>1, <3>2, <4>2, <4>3
    <3>3. ASSUME NEW t, NEW j, Reported(q, t, j) PROVE p = q
      <4>1. x \in Elements(results[t])
        BY <3>3 DEF Elements
      <4> QED
        BY <3>1, <3>3, <4>1 DEF ReportedInv
    <3>4. ASSUME NEW t, Held(q, t) PROVE p = q
      BY <3>1, <3>4 DEF HeldInv
    <3> QED
      BY <1>3, <3>2, <3>3, <3>4
  <2>2. ASSUME NEW t, NEW i, Reported(p, t, i) PROVE p = q
    <3>1. x \in Elements(results[t])
      BY <2>2 DEF Elements
    <3>2. ASSUME NEW m, NEW j, Queued(q, m, j) PROVE p = q
      <4>1. m \in Nodes /\ x \in Elements(tests[m])
        BY <1>2, <3>2 DEF Elements
      <4> QED
        BY <2>2, <3>1, <4>1 DEF ReportedInv
    <3>3. ASSUME NEW u, NEW j, Reported(q, u, j) PROVE p = q
      <4>1. t = u /\ i = j
        BY <2>2, <3>3 DEF ReportedInv
      <4> QED
        BY <2>2, <3>3, <4>1
    <3>4. ASSUME NEW u, Held(q, u) PROVE p = q
      BY <2>2, <3>1, <3>4 DEF HeldInv
    <3> QED
      BY <1>3, <3>2, <3>3, <3>4
  <2>3. ASSUME NEW t, Held(p, t) PROVE p = q
    <3>2. ASSUME NEW m, NEW j, Queued(q, m, j) PROVE p = q
      <4>1. m \in Nodes /\ x \in Elements(tests[m])
        BY <1>2, <3>2 DEF Elements
      <4> QED
        BY <2>3, <4>1 DEF HeldInv
    <3>3. ASSUME NEW u, NEW j, Reported(q, u, j) PROVE p = q
      <4>1. x \in Elements(results[u])
        BY <3>3 DEF Elements
      <4> QED
        BY <2>3, <3>3, <4>1 DEF HeldInv
    <3>4. ASSUME NEW u, Held(q, u) PROVE p = q
      <4>1. t = u
        BY <2>3, <3>4 DEF HeldInv
      <4> QED
        BY <2>3, <3>4, <4>1
    <3> QED
      BY <1>3, <3>2, <3>3, <3>4
  <2> QED
    BY <1>3, <2>1, <2>2, <2>3
<1>5. \E p : p \in S
  <2>1. CASE \E n \in Nodes : x \in Elements(tests[n])
    <3>1. PICK n \in Nodes : x \in Elements(tests[n])
      BY <2>1
    <3>2. PICK i \in DOMAIN tests[n] : tests[n][i] = x
      BY <3>1 DEF Elements
    <3>3. tests[n] # <<>>
      BY <3>1, QueuesAreSeqs
    <3>4. n \in attached
      BY <3>3, PrefixOrder DEF AttachedInv
    <3>5. Queued(<<"queue", n, i>>, n, i)
      BY <3>2, <3>4
    <3> HIDE DEF Queued
    <3> QED
      BY <1>3, <3>5
  <2>2. CASE \E t \in Threads : Holding(t) /\ job[t].test = x
    <3>1. PICK t \in Threads : Holding(t) /\ job[t].test = x
      BY <2>2
    <3>2. Held(<<"thread", t, 1>>, t)
      BY <3>1
    <3> HIDE DEF Held
    <3> QED
      BY <1>3, <3>2
  <2>3. CASE \E t \in Threads : x \in Elements(results[t])
    <3>1. PICK t \in Threads : x \in Elements(results[t])
      BY <2>3
    <3>2. PICK i \in DOMAIN results[t] : results[t][i] = x
      BY <3>1 DEF Elements
    <3>3. Reported(<<"result", t, i>>, t, i)
      BY <3>2
    <3> HIDE DEF Reported
    <3> QED
      BY <1>3, <3>3
  <2> QED
    BY <2>1, <2>2, <2>3 DEF SomewhereInv
<1>6. PICK p : S = {p}
  BY <1>4, <1>5
<1>7. Cardinality(S) = 1
  BY <1>6, FS_Singleton
<1> QED
  BY <1>7 DEF S

(* Every selected test is queued where a walk can reach it, or in the      *)
(* hands of one thread, or once among the results: pick_next hands no test *)
(* out twice, and removing empty suites loses none, for every tree and any *)
(* number of threads.                                                      *)
THEOREM TestsConserved == Spec => []EveryTestInOnePlace
<1>1. LockInv /\ PlaceInv => EveryTestInOnePlace
  BY OnePlace
<1> QED
  BY <1>1, PlaceSafety, PTL

-----------------------------------------------------------------------------
(* The abstract schedule.                                                  *)

(* A test belongs to one suite.                                            *)
LEMMA OneHome ==
    ASSUME NEW m \in Nodes, NEW n \in Nodes,
           NEW x \in Elements(OwnTests[m]), x \in Elements(OwnTests[n])
    PROVE  m = n
  BY PlacesOfTests DEF Elements

(* Most steps start no test and end none.                                  *)
LEMMA NothingScheduled ==
    ASSUME TypeOK, NEW t \in Threads, NEW label, label # "run", pc[t] # "run",
           Goto(t, label), UNCHANGED results,
           \A u \in Threads \ {t} : job'[u] = job[u]
    PROVE  UNCHANGED Schedule!schedule
<1>1. \A u \in Threads : Running(u)' <=> Running(u)
  BY DEF Running, Goto, TypeOK
<1>2. \A u \in Threads : Running(u) => job'[u] = job[u]
  BY DEF Running
<1>3. ActiveTests' = ActiveTests
  BY <1>1, <1>2 DEF ActiveTests
<1>4. ReportedTests' = ReportedTests
  BY DEF ReportedTests
<1> QED
  BY <1>3, <1>4 DEF Schedule!schedule

(* A test that leaves the walk at the root starts, and no test that runs    *)
(* is excluded by it.                                                      *)
LEMMA RootStartsTest ==
    ASSUME LockInv, PlaceInv, LockInv', PlaceInv',
           NEW t \in Threads, Goto(t, "run"), pc[t] # "run", UNCHANGED results,
           \A u \in Threads \ {t} : job'[u] = job[u]
    PROVE  Schedule!ScheduleNext
<1> USE DEF LockInv, PlaceInv
<1> DEFINE x == job'[t].test
<1>1. \A u \in Threads : pc'[u] = IF u = t THEN "run" ELSE pc[u]
  BY DEF Goto, TypeOK
<1>2. \A u \in Threads : Running(u)' <=> (u = t \/ Running(u))
  BY <1>1 DEF Running
<1>3. ~Running(t)
  BY DEF Running
<1>4. /\ Holding(t)' /\ OwnsExecution(t)'
      /\ \A u \in Threads : Running(u) => Holding(u) /\ Holding(u)' /\ OwnsExecution(u)'
  BY <1>1 DEF Running, Holding, OwnsExecution
<1>5. job'[t] \in [test : Tests, node : Nodes] /\ x \in Elements(OwnTests[job'[t].node])
  BY <1>4 DEF ExecutionInv, HeldInv
<1>6. \A u \in Threads : x \notin Elements(results[u])
  BY <1>4 DEF HeldInv
<1>7. \A u \in Threads : Running(u) => job[u].test # x
  BY <1>3, <1>4 DEF HeldInv
<1>8. \A y : y \in ActiveTests' <=> y \in ActiveTests \/ y = x
  BY <1>2, <1>3 DEF ActiveTests
<1>9. ReportedTests' = ReportedTests
  BY DEF ReportedTests
<1>10. x \in Tests \ (ActiveTests \cup ReportedTests)
  BY <1>5, <1>6, <1>7 DEF ActiveTests, ReportedTests
<1>11. ASSUME NEW y \in ActiveTests PROVE ~SameSuiteLock(x, y)
  <2>1. PICK u \in Threads : Running(u) /\ y = job[u].test
    BY DEF ActiveTests
  <2>2. u # t /\ job'[u] = job[u] /\ OwnsExecution(u)' /\ OwnsExecution(t)'
    BY <1>3, <1>4, <2>1
  <2>3. /\ job[u] \in [test : Tests, node : Nodes]
        /\ y \in Elements(OwnTests[job[u].node])
    BY <2>1, <2>2 DEF ExecutionInv, HeldInv
  <2> SUFFICES ASSUME NEW m \in Nodes, NEW n \in Nodes,
                      x \in Elements(OwnTests[m]), y \in Elements(OwnTests[n]), Conflict(m, n)
               PROVE  FALSE
    BY DEF SameSuiteLock
  <2>4. m = job'[t].node /\ n = job'[u].node
    BY <1>5, <2>2, <2>3, OneHome
  <2>5. IsSequential(m) /\ IsSequential(n) /\ LockOf(m) = LockOf(n)
    BY ConflictSharesLock
  <2> QED
    BY <2>2, <2>4, <2>5 DEF OwnerInv
<1>12. ActiveTests' = ActiveTests \cup {x}
  BY <1>8
<1> HIDE DEF x
<1>13. Schedule!StartTest(x)
  BY <1>9, <1>10, <1>11, <1>12 DEF Schedule!StartTest
<1> QED
  BY <1>10, <1>13 DEF Schedule!ScheduleNext

(* A result ends the test that the thread ran.                             *)
LEMMA FinishScheduled ==
    ASSUME LockInv, PlaceInv, NEW t \in Threads, FinishTest(t)
    PROVE  Schedule!ScheduleNext
<1> USE DEF LockInv, PlaceInv
<1> DEFINE x == job[t].test
<1>1. /\ pc[t] = "run" /\ Goto(t, "drop") /\ job' = job
      /\ results' = [results EXCEPT ![t] = Append(results[t], x)]
  BY DEF FinishTest
<1>2. \A u \in Threads : pc'[u] = IF u = t THEN "drop" ELSE pc[u]
  BY <1>1 DEF Goto, TypeOK
<1>3. Running(t) /\ OwnsExecution(t) /\ \A u \in Threads : Running(u)' <=> Running(u) /\ u # t
  BY <1>1, <1>2 DEF Running, OwnsExecution
<1>4. \A u \in Threads : Running(u) /\ job[u].test = x => u = t
  BY <1>3 DEF HeldInv, Running, Holding
<1>5. x \in Tests /\ results[t] \in Seq(Tests)
  BY <1>3, QueuesAreSeqs DEF ExecutionInv
<1>6. Elements(results'[t]) = Elements(results[t]) \cup {x}
  BY <1>1, <1>5, PushAddsOne DEF TypeOK
<1>7. \A u \in Threads \ {t} : results'[u] = results[u]
  BY <1>1 DEF TypeOK
<1>8. x \in ActiveTests
  BY <1>3 DEF ActiveTests
<1>9. ActiveTests' = ActiveTests \ {x}
  BY <1>1, <1>3, <1>4 DEF ActiveTests
<1>10. ReportedTests' = ReportedTests \cup {x}
  BY <1>6, <1>7 DEF ReportedTests
<1> HIDE DEF x
<1>11. Schedule!FinishTest(x)
  BY <1>8, <1>9, <1>10 DEF Schedule!FinishTest
<1> QED
  BY <1>5, <1>11 DEF Schedule!ScheduleNext

LEMMA NextSchedule ==
    LockInv /\ PlaceInv /\ (LockInv /\ PlaceInv)' /\ [Next]_vars
      => [Schedule!ScheduleNext]_Schedule!schedule
<1> SUFFICES ASSUME LockInv, PlaceInv, LockInv', PlaceInv', [Next]_vars
             PROVE  Schedule!ScheduleNext \/ UNCHANGED Schedule!schedule
  OBVIOUS
<1> USE DEF LockInv, threadVars
<1>1. ASSUME NEW t \in Threads, CheckDone(t) PROVE UNCHANGED Schedule!schedule
  <2>1. PICK label \in {"exit", "pick"} : Goto(t, label)
    BY <1>1 DEF CheckDone
  <2> QED
    BY <1>1, <2>1, NothingScheduled DEF CheckDone
<1>2. ASSUME NEW t \in Threads, PickNext(t) PROVE UNCHANGED Schedule!schedule
  BY <1>2, NothingScheduled DEF PickNext
<1>3. ASSUME NEW t \in Threads, EnterEmpty(t) PROVE UNCHANGED Schedule!schedule
  <2>1. PICK label \in {"none", "enter", "check"} : Goto(t, label)
    BY <1>3, NoneFromLabel DEF EnterEmpty
  <2> QED
    BY <1>3, <2>1, NothingScheduled DEF EnterEmpty
<1>4. ASSUME NEW t \in Threads, Descend(t) PROVE UNCHANGED Schedule!schedule
  <2>1. PICK label \in {"none", "enter"} : Goto(t, label)
    BY <1>4 DEF Descend
  <2> QED
    BY <1>4, <2>1, NothingScheduled DEF Descend
<1>5. ASSUME NEW t \in Threads, Choose(t) PROVE UNCHANGED Schedule!schedule
  BY <1>5, NothingScheduled DEF Choose
<1>6. ASSUME NEW t \in Threads, TakeTest(t) \/ ReturnSome(t)
      PROVE  Schedule!ScheduleNext \/ UNCHANGED Schedule!schedule
  <2>1. PICK label \in {"some", "run"} : Goto(t, label)
    BY <1>6, SomeFromLabel DEF TakeTest, ReturnSome
  <2>2. pc[t] # "run" /\ UNCHANGED results /\ \A u \in Threads \ {t} : job'[u] = job[u]
    BY <1>6 DEF TakeTest, ReturnSome, TypeOK
  <2> QED
    BY <2>1, <2>2, NothingScheduled, RootStartsTest
<1>7. ASSUME NEW t \in Threads, ReturnNone(t) PROVE UNCHANGED Schedule!schedule
  <2>1. PICK label \in {"none", "enter", "check"} : Goto(t, label)
    BY <1>7, NoneFromLabel DEF ReturnNone
  <2> QED
    BY <1>7, <2>1, NothingScheduled DEF ReturnNone
<1>8. ASSUME NEW t \in Threads, FinishTest(t) PROVE Schedule!ScheduleNext
  BY <1>8, FinishScheduled
<1>9. ASSUME NEW t \in Threads, DropExecution(t) PROVE UNCHANGED Schedule!schedule
  BY <1>9, NothingScheduled DEF DropExecution
<1>10. ASSUME NEW t \in Threads, DropGuard(t) PROVE UNCHANGED Schedule!schedule
  BY <1>10, NothingScheduled DEF DropGuard, TypeOK
<1>11. CASE UNCHANGED vars
  <2>1. UNCHANGED <<pc, job, results>>
    BY <1>11 DEF vars
  <2>2. ActiveTests' = ActiveTests /\ ReportedTests' = ReportedTests
    BY <2>1 DEF ActiveTests, ReportedTests, Running
  <2> QED
    BY <2>2 DEF Schedule!schedule
<1> QED
  BY <1>1, <1>2, <1>3, <1>4, <1>5, <1>6, <1>7, <1>8, <1>9, <1>10, <1>11
  DEF Next, Step, Joined

(* The scheduler implements the safety part of the abstract schedule: a    *)
(* step of any thread starts one waiting test that nothing running         *)
(* excludes, ends one, or shows nothing.  (The fairness of TestSchedule is *)
(* left to TLC.)                                                           *)
THEOREM SchedulesSafely == Spec => Schedule!ScheduleSafety
<1>1. Init => Schedule!ScheduleInit
  <2> SUFFICES ASSUME Init PROVE Schedule!ScheduleInit
    OBVIOUS
  <2>1. \A t \in Threads : pc[t] = "check" /\ results[t] = <<>>
    BY DEF Init
  <2>2. ActiveTests = {} /\ ReportedTests = {}
    BY <2>1 DEF ActiveTests, ReportedTests, Running, Elements
  <2> QED
    BY <2>2 DEF Schedule!ScheduleInit
<1>2. LockInv /\ PlaceInv /\ (LockInv /\ PlaceInv)' /\ [Next]_vars
        => [Schedule!ScheduleNext]_Schedule!schedule
  BY NextSchedule
<1> QED
  BY <1>1, <1>2, PlaceSafety, PTL DEF Spec, Schedule!ScheduleSafety

-----------------------------------------------------------------------------
(* Dependencies are constructed once, before the tests below them.         *)

(* Dependencies: a suite is built once, and stays so while it has tests.    *)
BuiltInv ==
    /\ built \subseteq DepNodes
    /\ \A n \in Nodes :
          \/ builds[n] = 0 /\ n \notin built
          \/ builds[n] = 1 /\ (n \in built \/ IsEmpty(n))

BuiltAbove(n) ==
    \A d \in DepNodes : IsPrefixOf(d, n) /\ d # n => builds[d] = 1

(* The walk builds what it enters before it goes on.                       *)
EnteredInv ==
    ~SkipCreating =>
        \A t \in Threads :
            /\ pc[t] \in {"enter", "lock", "none"} => BuiltAbove(at)
            /\ pc[t] = "lock" /\ at \in DepNodes => builds[at] = 1
            /\ OwnsExecution(t) =>
                  \A d \in DepNodes : IsPrefixOf(d, job[t].node) => builds[d] = 1

(* What is strictly above the parent or a sibling of a node is above it.   *)
LEMMA AboveNeighbour ==
    ASSUME NEW n \in Nodes, n # Root,
           NEW m \in {ParentOf(n)} \cup ChildrenOf(ParentOf(n)),
           NEW d \in Nodes, IsPrefixOf(d, m), d # m
    PROVE  IsPrefixOf(d, n) /\ d # n
<1>1. ParentOf(n) \in Nodes /\ IsPrefixOf(ParentOf(n), n) /\ ParentOf(n) # n
  BY ParentIsPrefix
<1>2. IsPrefixOf(d, ParentOf(n))
  <2>1. CASE m \in ChildrenOf(ParentOf(n))
    BY <2>1, PrefixOfParent DEF ChildrenOf
  <2> QED
    BY <2>1
<1>3. IsPrefixOf(d, n)
  BY <1>1, <1>2, PrefixOrder
<1>4. d # n
  BY <1>1, <1>2, PrefixOrder
<1> QED
  BY <1>3, <1>4

(* Where a call that found no test leaves the walk.                        *)
LEMMA WalkGoesOn ==
    ASSUME TypeOK, NEW t \in Threads, NoneFrom(t, at)
    PROVE  \/ at = Root /\ at' = Root /\ Goto(t, "check")
           \/ at # Root /\ LaterSiblings(at) = {} /\ at' = ParentOf(at) /\ Goto(t, "none")
           \/ /\ at # Root
              /\ at' \in LaterSiblings(at)
              /\ \A c \in LaterSiblings(at) : Rank[at'] <= Rank[c]
              /\ at' \in ChildrenOf(ParentOf(at))
              /\ Goto(t, "enter")
<1>1. CASE LaterSiblings(at) # {} /\ at # Root
  <2>1. LaterSiblings(at) \subseteq Nodes /\ LaterSiblings(at) \subseteq ChildrenOf(ParentOf(at))
    BY DEF LaterSiblings, Inner, ChildrenOf
  <2>2. /\ FirstOf(LaterSiblings(at)) \in LaterSiblings(at)
        /\ \A c \in LaterSiblings(at) : Rank[FirstOf(LaterSiblings(at))] <= Rank[c]
    BY <1>1, <2>1, FirstOfIsChild
  <2> QED
    BY <1>1, <2>1, <2>2 DEF NoneFrom
<1>2. CASE LaterSiblings(at) = {} \/ at = Root
  BY <1>2 DEF NoneFrom
<1> QED
  BY <1>1, <1>2

(* A constructor runs only in a suite that was never built.                *)
LEMMA MaterializeOnce ==
    ASSUME TypeOK, BuiltInv, at \in Nodes, ~IsEmpty(at), Materialize(at), UNCHANGED <<tests, attached>>
    PROVE  /\ BuiltInv'
           /\ \A d \in Nodes : builds[d] = 1 => builds'[d] = 1
           /\ ~SkipCreating /\ at \in DepNodes => builds'[at] = 1
<1>1. \A n \in Nodes : IsEmpty(n)' <=> IsEmpty(n)
  BY DEF IsEmpty, Inner
<1>2. CASE IsMaterialized(at)
  <2>1. UNCHANGED <<built, builds>>
    BY <1>2 DEF Materialize
  <2>2. ~SkipCreating /\ at \in DepNodes => at \in built
    BY <1>2 DEF IsMaterialized
  <2> QED
    BY <1>1, <2>1, <2>2 DEF BuiltInv
<1>3. CASE ~IsMaterialized(at)
  <2>1. at \in DepNodes /\ at \notin built
    BY <1>3 DEF IsMaterialized
  <2>2. builds[at] = 0
    BY <2>1 DEF BuiltInv
  <2>3. built' = built \cup {at} /\ builds' = [builds EXCEPT ![at] = builds[at] + 1]
    BY <1>3 DEF Materialize
  <2>4. builds'[at] = 1 /\ \A n \in Nodes \ {at} : builds'[n] = builds[n]
    BY <2>2, <2>3 DEF TypeOK
  <2> QED
    BY <1>1, <2>1, <2>3, <2>4 DEF BuiltInv
<1> QED
  BY <1>2, <1>3

(* A suite that is empty stays empty.                                      *)
LEMMA BuiltStays ==
    ASSUME TypeOK, BuiltInv, UNCHANGED builds,
           \A n \in Nodes : tests[n] = <<>> => tests'[n] = <<>>,
           attached' \subseteq attached,
           built' \subseteq built,
           \A n \in built \ built' : IsEmpty(n)'
    PROVE  BuiltInv'
<1>1. \A n \in Nodes : IsEmpty(n) => IsEmpty(n)'
  BY DEF IsEmpty, Inner
<1> QED
  BY <1>1 DEF BuiltInv

(* A step of t that is as far built as the place it leads to needs.        *)
LEMMA EnteredStep ==
    ASSUME LockInv, EnteredInv,
           NEW t \in Threads, NEW label, Goto(t, label),
           at' = at \/ mutex \in {t, NoThread},
           \A u \in Threads \ {t} : job'[u] = job[u],
           \A d \in Nodes : builds[d] = 1 => builds'[d] = 1,
           label \in {"enter", "lock", "none"} /\ ~SkipCreating =>
               \A d \in DepNodes : IsPrefixOf(d, at') /\ d # at' => builds'[d] = 1,
           label = "lock" /\ ~SkipCreating /\ at' \in DepNodes => builds'[at'] = 1,
           label \in {"some", "run", "drop", "unlock"} /\ ~SkipCreating =>
               \A d \in DepNodes : IsPrefixOf(d, job'[t].node) => builds'[d] = 1
    PROVE  EnteredInv'
<1> USE DEF LockInv
<1> SUFFICES ASSUME ~SkipCreating, NEW u \in Threads
             PROVE  /\ pc'[u] \in {"enter", "lock", "none"} =>
                         \A d \in DepNodes : IsPrefixOf(d, at') /\ d # at' => builds'[d] = 1
                    /\ pc'[u] = "lock" /\ at' \in DepNodes => builds'[at'] = 1
                    /\ OwnsExecution(u)' =>
                          \A d \in DepNodes : IsPrefixOf(d, job'[u].node) => builds'[d] = 1
  BY DEF EnteredInv, BuiltAbove
<1>1. pc'[u] = IF u = t THEN label ELSE pc[u]
  BY DEF Goto, TypeOK
<1>2. CASE u = t
  BY <1>1, <1>2 DEF OwnsExecution
<1>3. CASE u # t
  <2>1. at' = at \/ ~InPlan(u)
    BY <1>3, AloneInPlan
  <2>2. OwnsExecution(u)' <=> OwnsExecution(u)
    BY <1>1, <1>3 DEF OwnsExecution
  <2>3. OwnsExecution(u) => \A d \in DepNodes : IsPrefixOf(d, job'[u].node) => builds'[d] = 1
    BY <1>3, ThreadsAssumption DEF EnteredInv
  <2>4. CASE InPlan(u)
    BY <1>1, <1>3, <2>1, <2>2, <2>3, <2>4, ThreadsAssumption DEF EnteredInv, BuiltAbove
  <2>5. CASE ~InPlan(u)
    BY <1>1, <1>3, <2>2, <2>3, <2>5 DEF InPlan
  <2> QED
    BY <2>4, <2>5
<1> QED
  BY <1>2, <1>3

LEMMA InitBuilds == Init => BuiltInv /\ EnteredInv
<1> SUFFICES ASSUME Init PROVE BuiltInv /\ EnteredInv
  OBVIOUS
<1>1. \A t \in Threads : pc[t] = "check"
  BY DEF Init
<1>2. built = {} /\ \A n \in Nodes : builds[n] = 0
  BY DEF Init
<1> QED
  BY <1>1, <1>2 DEF BuiltInv, EnteredInv, OwnsExecution

LEMMA NextBuilds == LockInv /\ BuiltInv /\ EnteredInv /\ [Next]_vars => BuiltInv' /\ EnteredInv'
<1> SUFFICES ASSUME LockInv, BuiltInv, EnteredInv, [Next]_vars PROVE BuiltInv' /\ EnteredInv'
  OBVIOUS
<1> USE DEF LockInv, treeVars, lockVars, walkVars, threadVars
<1> DEFINE Above(n) == \A d \in DepNodes : IsPrefixOf(d, n) /\ d # n => builds[d] = 1
           To(n) == \A d \in DepNodes : IsPrefixOf(d, n) => builds[d] = 1
<1>0. at \in Nodes /\ DepNodes \subseteq Nodes
  BY ThreadsAssumption DEF TypeOK
<1>1. ASSUME NEW t \in Threads, CheckDone(t) PROVE BuiltInv' /\ EnteredInv'
  <2>1. PICK label \in {"exit", "pick"} : Goto(t, label)
    BY <1>1 DEF CheckDone
  <2> QED
    BY <1>1, <2>1, BuiltStays, EnteredStep DEF CheckDone
<1>2. ASSUME NEW t \in Threads, PickNext(t) PROVE BuiltInv' /\ EnteredInv'
  <2>1. \A d \in DepNodes : IsPrefixOf(d, Root) => d = Root
    BY <1>0, PrefixOrder, TreeOfNodes
  <2> QED
    BY <1>2, <2>1, BuiltStays, EnteredStep DEF PickNext
<1>3. ASSUME NEW t \in Threads, NoneFrom(t, at), pc[t] \in {"enter", "none"}, UNCHANGED <<tests, builds, job>>,
             attached' \subseteq attached, built' \subseteq built, \A n \in built \ built' : IsEmpty(n)'
      PROVE  BuiltInv' /\ EnteredInv'
  <2>1. BuiltInv'
    BY <1>3, BuiltStays
  <2>2. mutex = t
    BY <1>3 DEF MutexInv, InPlan
  <2>3. ~SkipCreating => Above(at)
    BY <1>3 DEF EnteredInv, BuiltAbove
  <2>4. /\ \A u \in Threads \ {t} : job'[u] = job[u]
        /\ \A d \in Nodes : builds'[d] = builds[d]
    BY <1>3
  <2>5. CASE Goto(t, "check")
    BY <2>1, <2>2, <2>5, <2>4, EnteredStep
  <2>6. CASE at # Root /\ at' = ParentOf(at) /\ Goto(t, "none")
    <3>1. ~SkipCreating => Above(ParentOf(at))
      BY <1>0, <2>3, <2>6, AboveNeighbour
    <3> QED
      BY <1>0, <2>1, <2>2, <2>6, <2>4, <3>1, EnteredStep
  <2>7. CASE at # Root /\ at' \in ChildrenOf(ParentOf(at)) /\ Goto(t, "enter")
    <3>1. ~SkipCreating => \A c \in ChildrenOf(ParentOf(at)) : Above(c)
      BY <1>0, <2>3, <2>7, AboveNeighbour
    <3> QED
      BY <1>0, <2>1, <2>2, <2>7, <2>4, <3>1, EnteredStep
  <2>8. EnteredInv'
    BY <1>0, <1>3, <2>5, <2>6, <2>7, WalkGoesOn
  <2> QED
    BY <2>1, <2>8
<1>4. ASSUME NEW t \in Threads, EnterEmpty(t) PROVE BuiltInv' /\ EnteredInv'
  BY <1>3, <1>4 DEF EnterEmpty
<1>5. ASSUME NEW t \in Threads, Descend(t) PROVE BuiltInv' /\ EnteredInv'
  <2>1. /\ BuiltInv'
        /\ \A d \in Nodes : builds[d] = 1 => builds'[d] = 1
        /\ ~SkipCreating /\ at \in DepNodes => builds'[at] = 1
    BY <1>0, <1>5, MaterializeOnce DEF Descend
  <2>2. mutex = t
    BY <1>5 DEF Descend, MutexInv, InPlan
  <2>3. ~SkipCreating => Above(at)
    BY <1>5 DEF Descend, EnteredInv, BuiltAbove
  <2>4. CASE Inner(at) = {}
    BY <1>0, <1>5, <2>1, <2>2, <2>3, <2>4, EnteredStep DEF Descend
  <2>5. CASE Inner(at) # {}
    <3>1. at' \in ChildrenOf(at) /\ Goto(t, "enter")
      BY <1>5, <2>5, FirstOfIsChild, InnerAreNodes DEF Descend, Inner
    <3>2. at' \in Nodes /\ \A d \in Nodes : IsPrefixOf(d, at') /\ d # at' => IsPrefixOf(d, at)
      BY <3>1, PrefixOfParent DEF ChildrenOf
    <3> QED
      BY <1>0, <1>5, <2>1, <2>2, <2>3, <3>1, <3>2, EnteredStep DEF Descend
  <2> QED
    BY <2>1, <2>4, <2>5
<1>6. ASSUME NEW t \in Threads, Choose(t) PROVE BuiltInv' /\ EnteredInv'
  <2>1. /\ BuiltInv'
        /\ \A d \in Nodes : builds[d] = 1 => builds'[d] = 1
        /\ ~SkipCreating /\ at \in DepNodes => builds'[at] = 1
    BY <1>0, <1>6, MaterializeOnce DEF Choose, IsEmpty
  <2>2. ~SkipCreating => Above(at)
    BY <1>6 DEF Choose, EnteredInv, BuiltAbove
  <2> QED
    BY <1>0, <1>6, <2>1, <2>2, EnteredStep DEF Choose
<1>7. ASSUME NEW t \in Threads, TakeTest(t) PROVE BuiltInv' /\ EnteredInv'
  <2>1. mutex = t
    BY <1>7 DEF TakeTest, MutexInv, InPlan
  <2>2. ~SkipCreating => To(at)
    BY <1>7 DEF TakeTest, EnteredInv, BuiltAbove
  <2>3. job'[t].node = at /\ \A u \in Threads \ {t} : job'[u] = job[u]
    BY <1>7 DEF TakeTest, TypeOK
  <2>4. PICK label \in {"some", "run"} : Goto(t, label)
    BY <1>7, SomeFromLabel DEF TakeTest
  <2>5. \A n \in Nodes : tests[n] = <<>> => tests'[n] = <<>>
    BY <1>7 DEF TakeTest, ChosenInv, TypeOK
  <2>6. BuiltInv'
    BY <1>7, <2>5, BuiltStays DEF TakeTest
  <2>7. EnteredInv'
    BY <1>7, <2>1, <2>2, <2>3, <2>4, EnteredStep DEF TakeTest
  <2> QED
    BY <2>6, <2>7
<1>8. ASSUME NEW t \in Threads, ReturnSome(t) PROVE BuiltInv' /\ EnteredInv'
  <2>1. mutex = t /\ OwnsExecution(t)
    BY <1>8 DEF ReturnSome, MutexInv, InPlan, OwnsExecution
  <2>2. ~SkipCreating => To(job[t].node)
    BY <2>1 DEF EnteredInv
  <2>3. PICK label \in {"some", "run"} : Goto(t, label)
    BY <1>8, SomeFromLabel DEF ReturnSome
  <2>4. BuiltInv'
    BY <1>8, BuiltStays DEF ReturnSome, Retained
  <2>5. EnteredInv'
    BY <1>8, <2>1, <2>2, <2>3, EnteredStep DEF ReturnSome
  <2> QED
    BY <2>4, <2>5
<1>9. ASSUME NEW t \in Threads, ReturnNone(t) PROVE BuiltInv' /\ EnteredInv'
  <2>1. \A n \in built \ built' : IsEmpty(n)'
    BY <1>9 DEF ReturnNone, DropsDeps, IsEmpty, Inner
  <2>2. attached' \subseteq attached /\ built' \subseteq built
    BY <1>9 DEF ReturnNone, Retained
  <2> QED
    BY <1>3, <1>9, <2>1, <2>2 DEF ReturnNone
<1>10. ASSUME NEW t \in Threads, FinishTest(t) PROVE BuiltInv' /\ EnteredInv'
  <2>1. ~SkipCreating => To(job[t].node)
    BY <1>10 DEF FinishTest, EnteredInv, OwnsExecution
  <2> QED
    BY <1>10, <2>1, BuiltStays, EnteredStep DEF FinishTest
<1>11. ASSUME NEW t \in Threads, DropExecution(t) PROVE BuiltInv' /\ EnteredInv'
  <2>1. ~SkipCreating => To(job[t].node)
    BY <1>11 DEF DropExecution, EnteredInv, OwnsExecution
  <2> QED
    BY <1>11, <2>1, BuiltStays, EnteredStep DEF DropExecution
<1>12. ASSUME NEW t \in Threads, DropGuard(t) PROVE BuiltInv' /\ EnteredInv'
  <2>1. \A u \in Threads \ {t} : job'[u] = job[u]
    BY <1>12 DEF DropGuard, TypeOK
  <2> QED
    BY <1>12, <2>1, BuiltStays, EnteredStep DEF DropGuard
<1>13. CASE UNCHANGED vars
  <2>1. UNCHANGED <<tests, attached, built, builds, at, pc, job>>
    BY <1>13 DEF vars
  <2>2. \A t \in Threads : OwnsExecution(t)' <=> OwnsExecution(t)
    BY <2>1 DEF OwnsExecution
  <2>3. BuiltInv'
    BY <2>1, BuiltStays
  <2>4. EnteredInv'
    BY <2>1, <2>2 DEF EnteredInv, BuiltAbove
  <2> QED
    BY <2>3, <2>4
<1> QED
  BY <1>1, <1>2, <1>4, <1>5, <1>6, <1>7, <1>8, <1>9, <1>10, <1>11, <1>12, <1>13
  DEF Next, Step, Joined

(* What a walk has entered is built and is not built again, although other *)
(* walks drop what they find empty and unused (drop_deps).                 *)
THEOREM BuildSafety == Spec => [](LockInv /\ BuiltInv /\ EnteredInv)
<1>1. Init => LockInv /\ BuiltInv /\ EnteredInv
  BY InitLock, InitBuilds
<1>2. LockInv /\ BuiltInv /\ EnteredInv /\ [Next]_vars => (LockInv /\ BuiltInv /\ EnteredInv)'
  BY NextLock, NextBuilds
<1> QED
  BY <1>1, <1>2, PTL DEF Spec

(* The constructors of a suite run at most once, and before any test in it *)
(* or below it does, in every interleaving of the walks (materialize_deps  *)
(* and drop_deps of pick_next_internal).                                   *)
THEOREM BuiltBeforeTests == Spec => []DepsBuiltOnce
<1>1. LockInv /\ BuiltInv /\ EnteredInv => DepsBuiltOnce
  <2> SUFFICES ASSUME LockInv, BuiltInv, EnteredInv PROVE DepsBuiltOnce
    OBVIOUS
  <2>1. \A n \in Nodes : builds[n] <= 1
    BY DEF BuiltInv
  <2>2. ~SkipCreating => \A t \in Threads : Running(t) =>
            \A d \in DepNodes : IsPrefixOf(d, job[t].node) => builds[d] = 1
    BY DEF EnteredInv, Running, OwnsExecution
  <2> QED
    BY <2>1, <2>2 DEF DepsBuiltOnce
<1> QED
  BY <1>1, BuildSafety, PTL

-----------------------------------------------------------------------------
(* A walk that comes back empty-handed left nothing but locked suites.      *)

(* The walk leaves nothing but locked suites behind.                       *)
Passed(n) ==
    \/ Before(n, at)
    \/ (\E t \in Threads : pc[t] = "none") /\ IsPrefixOf(at, n)

LocksInv == \A l \in locks : \E m \in Nodes : IsSequential(m) /\ LockOf(m) = l

PassedInv ==
    /\ \A n \in sawLocked : IsSequential(n)
    /\ (\E t \in Threads : pc[t] \in {"enter", "none"}) =>
          \A n \in Nodes : tests[n] # <<>> /\ Passed(n) => n \in sawLocked

(* A node that is not sequential has a lock nobody takes.                   *)
LEMMA OnlySequentialLocked ==
    ASSUME LocksInv, NEW n \in Nodes, Locked(n)
    PROVE  IsSequential(n)
<1>1. PICK m \in Nodes : IsSequential(m) /\ LockOf(m) = LockOf(n)
  BY DEF Locked, LocksInv
<1>2. TopDepth(m) \in MarkedDepths(m) /\ LockOf(m) = SubSeq(m, 1, TopDepth(m))
  BY <1>1, TopDepthIsLeast DEF LockOf
<1>3. LockOf(m) \in Marked
  BY <1>2 DEF MarkedDepths
<1> SUFFICES ASSUME ~IsSequential(n) PROVE FALSE
  OBVIOUS
<1>4. n \in Marked
  BY <1>1, <1>3 DEF LockOf
<1>5. Len(n) \in 0..Len(n) /\ SubSeq(n, 1, Len(n)) = n
  <2>1. Len(n) \in 0..Len(n)
    BY NodeIsPath
  <2> QED
    BY <2>1, SubPath, PathsEqual
<1>6. Len(n) \in MarkedDepths(n)
  BY <1>4, <1>5 DEF MarkedDepths
<1> QED
  BY <1>6 DEF IsSequential

(* Below a child that was removed nothing is queued.                       *)
LEMMA NothingBelowRemoved ==
    ASSUME AttachedInv, NEW p \in Nodes, NEW c \in ChildrenOf(p), c \notin Inner(p),
           NEW n \in Nodes, IsPrefixOf(c, n)
    PROVE  tests[n] = <<>>
  BY DEF AttachedInv, Inner, ChildrenOf

(* A step that is not one of the walk itself.                              *)
LEMMA PassedByOthers ==
    ASSUME LockInv, PassedInv, NEW t \in Threads, NEW label, label \notin {"enter", "none"},
           Goto(t, label), UNCHANGED sawLocked,
           mutex \in {t, NoThread} \/ UNCHANGED <<at, tests>>
    PROVE  PassedInv'
<1>1. \A u \in Threads : pc'[u] = IF u = t THEN label ELSE pc[u]
  BY DEF Goto, LockInv, TypeOK
<1>2. CASE mutex \in {t, NoThread}
  <2>1. \A u \in Threads : pc'[u] \notin {"enter", "none"}
    BY <1>1, <1>2, AloneInPlan DEF InPlan, LockInv
  <2> QED
    BY <2>1 DEF PassedInv
<1>3. CASE UNCHANGED <<at, tests>>
  <2>1. \A u \in Threads : /\ pc'[u] \in {"enter", "none"} => pc[u] \in {"enter", "none"}
                           /\ pc'[u] = "none" => pc[u] = "none"
    BY <1>1
  <2> QED
    BY <1>3, <2>1 DEF PassedInv, Passed
<1> QED
  BY <1>2, <1>3

(* A step of the walk that goes on to enter a node, or to come back to it.  *)
LEMMA PassedEnter ==
    ASSUME LockInv, NEW t \in Threads, Goto(t, "enter"), mutex \in {t, NoThread},
           \A n \in sawLocked' : IsSequential(n),
           \A n \in Nodes : tests'[n] # <<>> /\ Before(n, at') => n \in sawLocked'
    PROVE  PassedInv'
<1>1. \A u \in Threads : pc'[u] # "none"
  BY AloneInPlan DEF Goto, LockInv, TypeOK, InPlan
<1> QED
  BY <1>1 DEF PassedInv, Passed

LEMMA PassedNone ==
    ASSUME \A n \in sawLocked' : IsSequential(n),
           \A n \in Nodes : tests'[n] # <<>> /\ (Before(n, at') \/ IsPrefixOf(at', n))
              => n \in sawLocked'
    PROVE  PassedInv'
  BY DEF PassedInv, Passed

(* A call returns None to its caller ...                                   *)
LEMMA PassedBack ==
    ASSUME LockInv, PlaceInv, PassedInv,
           NEW t \in Threads, NoneFrom(t, at), pc[t] \in {"enter", "none"},
           UNCHANGED <<tests, sawLocked>>,
           \A n \in Nodes : tests[n] # <<>> /\ IsPrefixOf(at, n) => n \in sawLocked
    PROVE  PassedInv'
<1>1. at \in Nodes
  BY DEF LockInv, TypeOK
<1>2. mutex = t
  BY DEF LockInv, MutexInv, InPlan
<1>3. /\ \A n \in sawLocked : IsSequential(n)
      /\ \A n \in Nodes : tests[n] # <<>> /\ Before(n, at) => n \in sawLocked
  BY DEF PassedInv, Passed
<1>4. CASE at = Root /\ at' = Root /\ Goto(t, "check")
  BY <1>2, <1>4, PassedByOthers
<1> DEFINE p == ParentOf(at)
<1>5. ASSUME at # Root,
             NEW d \in ChildrenOf(p), d \notin LaterSiblings(at),
             NEW n \in Nodes, tests[n] # <<>>, IsPrefixOf(d, n)
      PROVE  n \in sawLocked
  <2>1. p \in Nodes /\ at \in ChildrenOf(p)
    BY <1>1, <1>5, ParentIsPrefix
  <2>2. Rank[d] \in Nat /\ Rank[at] \in Nat /\ d \in Nodes \ {Root} /\ ParentOf(d) = ParentOf(at)
    BY <1>1, RanksOfSiblings DEF ChildrenOf
  <2>3. CASE Rank[d] < Rank[at]
    BY <1>1, <1>3, <1>5, <2>1, <2>3, BeforeChild
  <2>4. CASE Rank[d] = Rank[at]
    BY <1>1, <1>5, <2>2, <2>4, RanksOfSiblings
  <2>5. CASE Rank[d] > Rank[at]
    <3>1. d \notin Inner(p)
      BY <1>5, <2>5 DEF LaterSiblings
    <3> QED
      BY <1>5, <2>1, <3>1, NothingBelowRemoved DEF PlaceInv
  <2> QED
    BY <2>2, <2>3, <2>4, <2>5
<1>6. CASE at # Root /\ LaterSiblings(at) = {} /\ at' = p /\ Goto(t, "none")
  <2>1. p \in Nodes /\ at \in ChildrenOf(p)
    BY <1>1, <1>6, ParentIsPrefix
  <2>2. ASSUME NEW n \in Nodes, tests[n] # <<>>, Before(n, p) \/ IsPrefixOf(p, n)
        PROVE  n \in sawLocked
    <3>1. CASE Before(n, p) \/ n = p
      BY <1>3, <2>1, <2>2, <3>1, BeforeChild
    <3>2. CASE IsPrefixOf(p, n) /\ n # p
      <4>1. PICK d \in ChildrenOf(p) : IsPrefixOf(d, n)
        BY <2>1, <3>2, ChildTowards
      <4> QED
        BY <1>5, <1>6, <2>2, <4>1
    <3> QED
      BY <2>2, <3>1, <3>2
  <2> QED
    BY <1>3, <1>6, <2>2, PassedNone
<1>7. CASE /\ at # Root
           /\ at' \in LaterSiblings(at)
           /\ \A c \in LaterSiblings(at) : Rank[at'] <= Rank[c]
           /\ at' \in ChildrenOf(p)
           /\ Goto(t, "enter")
  <2>1. p \in Nodes /\ at \in ChildrenOf(p)
    BY <1>1, <1>7, ParentIsPrefix
  <2>2. ASSUME NEW n \in Nodes, tests[n] # <<>>, Before(n, at')
        PROVE  n \in sawLocked
    <3>1. CASE Before(n, p) \/ n = p
      BY <1>3, <2>1, <2>2, <3>1, BeforeChild
    <3>2. ASSUME NEW d \in ChildrenOf(p), Rank[d] < Rank[at'], IsPrefixOf(d, n)
          PROVE  n \in sawLocked
      <4>1. Rank[d] \in Nat /\ Rank[at'] \in Nat
        BY <1>7, RanksOfSiblings DEF ChildrenOf
      <4>2. d \notin LaterSiblings(at)
        BY <1>7, <3>2, <4>1
      <4> QED
        BY <1>5, <1>7, <2>2, <3>2, <4>2
    <3> QED
      BY <1>7, <2>1, <2>2, <3>1, <3>2, BeforeChild
  <2> QED
    BY <1>2, <1>3, <1>7, <2>2, PassedEnter
<1> QED
  BY <1>4, <1>6, <1>7, WalkGoesOn DEF LockInv

(* ... or makes a call for its first child.                                *)
LEMMA PassedDown ==
    ASSUME LockInv, PlaceInv, LocksInv, PassedInv, NEW t \in Threads, Descend(t)
    PROVE  PassedInv'
<1>1. at \in Nodes /\ mutex = t /\ UNCHANGED tests
  BY DEF LockInv, TypeOK, Descend, MutexInv, InPlan
<1>2. /\ \A n \in sawLocked : IsSequential(n)
      /\ \A n \in Nodes : tests[n] # <<>> /\ Before(n, at) => n \in sawLocked
  BY DEF PassedInv, Passed, Descend
<1>3. sawLocked \subseteq sawLocked' /\ \A n \in sawLocked' : IsSequential(n)
  BY <1>1, <1>2, OnlySequentialLocked DEF Descend
<1>4. tests[at] # <<>> => at \in sawLocked'
  BY DEF Descend
<1>5. CASE Inner(at) = {}
  <2>1. at' = at /\ Goto(t, "none")
    BY <1>5 DEF Descend
  <2>2. ASSUME NEW n \in Nodes, tests[n] # <<>>, IsPrefixOf(at, n) PROVE n \in sawLocked'
    <3>1. CASE n = at
      BY <1>4, <2>2, <3>1
    <3>2. CASE n # at
      <4>1. PICK d \in ChildrenOf(at) : IsPrefixOf(d, n)
        BY <1>1, <2>2, <3>2, ChildTowards
      <4> QED
        BY <1>1, <1>5, <2>2, <4>1, NothingBelowRemoved DEF PlaceInv
    <3> QED
      BY <3>1, <3>2
  <2> QED
    BY <1>1, <1>2, <1>3, <2>1, <2>2, PassedNone
<1>6. CASE Inner(at) # {}
  <2>1. /\ at' \in ChildrenOf(at) /\ Goto(t, "enter")
        /\ \A d \in Inner(at) : Rank[at'] <= Rank[d]
    BY <1>6, FirstOfIsChild, InnerAreNodes DEF Descend, Inner
  <2>2. ASSUME NEW n \in Nodes, tests[n] # <<>>, Before(n, at') PROVE n \in sawLocked'
    <3>1. CASE Before(n, at) \/ n = at
      BY <1>2, <1>3, <1>4, <2>2, <3>1
    <3>2. ASSUME NEW d \in ChildrenOf(at), Rank[d] < Rank[at'], IsPrefixOf(d, n)
          PROVE  FALSE
      <4>1. Rank[d] \in Nat /\ Rank[at'] \in Nat
        BY <2>1, RanksOfSiblings DEF ChildrenOf
      <4>2. d \notin Inner(at)
        BY <2>1, <3>2, <4>1
      <4> QED
        BY <1>1, <2>2, <3>2, <4>2, NothingBelowRemoved DEF PlaceInv
    <3> QED
      BY <1>1, <2>1, <2>2, <3>1, <3>2, BeforeChild
  <2> QED
    BY <1>1, <1>3, <2>1, <2>2, PassedEnter
<1> QED
  BY <1>5, <1>6

LEMMA NextPassed ==
    LockInv /\ PlaceInv /\ LocksInv /\ PassedInv /\ [Next]_vars => LocksInv' /\ PassedInv'
<1> SUFFICES ASSUME LockInv, PlaceInv, LocksInv, PassedInv, [Next]_vars
             PROVE  LocksInv' /\ PassedInv'
  OBVIOUS
<1> USE DEF treeVars, lockVars, walkVars, threadVars
<1>0. \A t \in Threads : InPlan(t) => mutex = t
  BY DEF LockInv, MutexInv
<1>1. ASSUME NEW t \in Threads, CheckDone(t) PROVE LocksInv' /\ PassedInv'
  <2>1. PICK label \in {"exit", "pick"} : Goto(t, label)
    BY <1>1 DEF CheckDone
  <2>2. PassedInv'
    BY <1>1, <2>1, PassedByOthers DEF CheckDone
  <2> QED
    BY <1>1, <2>2 DEF CheckDone, LocksInv
<1>2. ASSUME NEW t \in Threads, PickNext(t) PROVE LocksInv' /\ PassedInv'
  <2>1. PassedInv'
    BY <1>2, NothingBeforeRoot, PassedEnter DEF PickNext
  <2> QED
    BY <1>2, <2>1 DEF PickNext, LocksInv
<1>3. ASSUME NEW t \in Threads, EnterEmpty(t) PROVE LocksInv' /\ PassedInv'
  <2>1. \A n \in Nodes : IsPrefixOf(at, n) => tests[n] = <<>>
    BY <1>3, EmptyBelow DEF EnterEmpty, LockInv, TypeOK, PlaceInv
  <2>2. PassedInv'
    BY <1>3, <2>1, PassedBack DEF EnterEmpty
  <2> QED
    BY <1>3, <2>2 DEF EnterEmpty, LocksInv
<1>4. ASSUME NEW t \in Threads, Descend(t) PROVE LocksInv' /\ PassedInv'
  <2>1. PassedInv'
    BY <1>4, PassedDown
  <2> QED
    BY <1>4, <2>1 DEF Descend, LocksInv
<1>5. ASSUME NEW t \in Threads, Choose(t) PROVE LocksInv' /\ PassedInv'
  <2>1. PassedInv'
    BY <1>0, <1>5, PassedByOthers DEF Choose, InPlan
  <2> QED
    BY <1>5, <2>1 DEF Choose, LocksInv
<1>6. ASSUME NEW t \in Threads, TakeTest(t) PROVE LocksInv' /\ PassedInv'
  <2>1. PICK label \in {"some", "run"} : Goto(t, label)
    BY <1>6, SomeFromLabel DEF TakeTest, LockInv
  <2>2. PassedInv'
    BY <1>0, <1>6, <2>1, PassedByOthers DEF TakeTest, InPlan
  <2>3. at \in Nodes
    BY DEF LockInv, TypeOK
  <2>4. LocksInv'
    BY <1>6, <2>3 DEF TakeTest, LocksInv
  <2> QED
    BY <2>2, <2>4
<1>7. ASSUME NEW t \in Threads, ReturnSome(t) PROVE LocksInv' /\ PassedInv'
  <2>1. PICK label \in {"some", "run"} : Goto(t, label)
    BY <1>7, SomeFromLabel DEF ReturnSome, LockInv
  <2>2. PassedInv'
    BY <1>0, <1>7, <2>1, PassedByOthers DEF ReturnSome, InPlan
  <2> QED
    BY <1>7, <2>2 DEF ReturnSome, LocksInv
<1>8. ASSUME NEW t \in Threads, ReturnNone(t) PROVE LocksInv' /\ PassedInv'
  <2>1. \A n \in Nodes : tests[n] # <<>> /\ IsPrefixOf(at, n) => n \in sawLocked
    BY <1>8 DEF ReturnNone, PassedInv, Passed
  <2>2. PassedInv'
    BY <1>8, <2>1, PassedBack DEF ReturnNone
  <2> QED
    BY <1>8, <2>2 DEF ReturnNone, LocksInv
<1>9. ASSUME NEW t \in Threads, FinishTest(t) PROVE LocksInv' /\ PassedInv'
  <2>1. PassedInv'
    BY <1>9, PassedByOthers DEF FinishTest
  <2> QED
    BY <1>9, <2>1 DEF FinishTest, LocksInv
<1>10. ASSUME NEW t \in Threads, DropExecution(t) PROVE LocksInv' /\ PassedInv'
  <2>1. PassedInv'
    BY <1>10, PassedByOthers DEF DropExecution
  <2> QED
    BY <1>10, <2>1 DEF DropExecution, LocksInv
<1>11. ASSUME NEW t \in Threads, DropGuard(t) PROVE LocksInv' /\ PassedInv'
  <2>1. PassedInv'
    BY <1>11, PassedByOthers DEF DropGuard
  <2> QED
    BY <1>11, <2>1 DEF DropGuard, Unlocked, LocksInv
<1>12. CASE UNCHANGED vars
  <2>1. UNCHANGED <<locks, tests, at, sawLocked, pc>>
    BY <1>12 DEF vars
  <2> QED
    BY <2>1 DEF LocksInv, PassedInv, Passed
<1> QED
  BY <1>1, <1>2, <1>3, <1>4, <1>5, <1>6, <1>7, <1>8, <1>9, <1>10, <1>11, <1>12
  DEF Next, Step, Joined

(* When pick_next returns None, every test that is still queued is in a    *)
(* sequential suite whose lock this walk found taken: descending, skipping *)
(* and `inner.retain` leave no runnable test behind.                       *)
THEOREM NothingMissed == Spec => []FailedPickMissedNothing
<1>1. Init => LocksInv /\ PassedInv
  BY DEF Init, LocksInv, PassedInv
<1>2. LockInv /\ PlaceInv /\ LocksInv /\ PassedInv /\ [Next]_vars => (LocksInv /\ PassedInv)'
  BY NextPassed
<1>3. PassedInv => FailedPickMissedNothing
  BY PrefixOrder DEF PassedInv, Passed, FailedPickMissedNothing
<1> QED
  BY <1>1, <1>2, <1>3, PlaceSafety, PTL DEF Spec

-----------------------------------------------------------------------------
(* The counters.                                                           *)

(* A test that was taken is counted up to where the walk is.                *)
CountInv ==
    /\ \A n \in Nodes :
          remaining[n] = Cardinality(QueuedBelow(n))
                         + IF (\E t \in Threads : pc[t] = "some") /\ IsPrefixOf(n, at) THEN 1 ELSE 0
    /\ idx + remaining[Root] = Cardinality(Tests)

(* The sets that are counted are finite.                                   *)
LEMMA QueuedBelowIsFinite ==
    \A n : IsFiniteSet(QueuedBelow(n)) /\ Cardinality(QueuedBelow(n)) \in Nat
<1> SUFFICES ASSUME NEW n
             PROVE  IsFiniteSet(QueuedBelow(n)) /\ Cardinality(QueuedBelow(n)) \in Nat
  OBVIOUS
<1>1. QueuedBelow(n) \subseteq Tests
  BY DEF QueuedBelow
<1>2. IsFiniteSet(QueuedBelow(n))
  BY <1>1, FS_Subset, PlacesOfTests
<1> QED
  BY <1>2, FS_CardinalityType

(* The levels that still have to count a test: the ones above the last one *)
(* that counted it.                                                        *)
LEMMA AboveParent ==
    ASSUME NEW m \in Nodes, m # Root, NEW n \in Nodes
    PROVE  IsPrefixOf(n, ParentOf(m)) <=> IsPrefixOf(n, m) /\ n # m
<1>1. ParentOf(m) \in Nodes /\ IsPrefixOf(ParentOf(m), m) /\ ParentOf(m) # m
  BY ParentIsPrefix
<1>2. IsPrefixOf(n, ParentOf(m)) => IsPrefixOf(n, m) /\ n # m
  BY <1>1, PrefixOrder
<1> QED
  BY <1>2, PrefixOfParent

(* A step that counts nothing.                                             *)
LEMMA CountsStay ==
    ASSUME LockInv, CountInv, NEW t \in Threads, NEW label, Goto(t, label),
           label # "some", pc[t] # "some",
           UNCHANGED <<tests, remaining, idx>>,
           mutex \in {t, NoThread} \/ UNCHANGED at
    PROVE  CountInv'
<1>1. \A u \in Threads : pc'[u] = IF u = t THEN label ELSE pc[u]
  BY DEF Goto, LockInv, TypeOK
<1>2. \A n \in Nodes : QueuedBelow(n)' = QueuedBelow(n)
  BY DEF QueuedBelow
<1>3. (\E u \in Threads : pc'[u] = "some") <=> (\E u \in Threads : pc[u] = "some")
  BY <1>1
<1>4. CASE mutex \in {t, NoThread}
  <2>1. ~ \E u \in Threads : pc[u] = "some"
    BY <1>4, AloneInPlan DEF InPlan, LockInv
  <2> QED
    BY <1>2, <1>3, <2>1 DEF CountInv
<1>5. CASE UNCHANGED at
  BY <1>2, <1>3, <1>5 DEF CountInv
<1> QED
  BY <1>4, <1>5

(* A level counts the test down and hands it to the one above it.          *)
LEMMA CountedOnce ==
    ASSUME LockInv, NEW t \in Threads, mutex = t, SomeFrom(t, at),
           remaining' = CountDown(at),
           NEW left \in [Nodes -> Nat],
           \A n \in Nodes : remaining[n] = left[n] + (IF IsPrefixOf(n, at) THEN 1 ELSE 0),
           \A n \in Nodes : Cardinality(QueuedBelow(n)') = left[n],
           idx + remaining[Root] = Cardinality(Tests)
    PROVE  CountInv'
<1>1. at \in Nodes /\ remaining \in [Nodes -> Int] /\ idx \in Nat /\ Root \in Nodes
  BY TreeOfNodes DEF LockInv, TypeOK
<1>2. \A n \in Nodes : remaining'[n] = IF n = at THEN remaining[n] - 1 ELSE remaining[n]
  BY <1>1 DEF CountDown
<1>3. IsPrefixOf(at, at)
  BY <1>1, PrefixOrder
<1>4. CASE at = Root
  <2>1. Goto(t, "run") /\ idx' = idx + 1
    BY <1>4 DEF SomeFrom
  <2>2. ~ \E u \in Threads : pc'[u] = "some"
    BY <2>1, AloneInPlan DEF Goto, LockInv, TypeOK, InPlan
  <2>3. \A n \in Nodes : IsPrefixOf(n, at) => n = at
    BY <1>1, <1>4, PrefixOrder
  <2>4. \A n \in Nodes : remaining'[n] = left[n]
    BY <1>1, <1>2, <1>3, <2>3
  <2>5. idx' + remaining'[Root] = Cardinality(Tests)
    BY <1>1, <1>2, <1>4, <2>1
  <2> QED
    BY <2>2, <2>4, <2>5 DEF CountInv
<1>5. CASE at # Root
  <2>1. Goto(t, "some") /\ idx' = idx /\ at' = ParentOf(at)
    BY <1>5 DEF SomeFrom
  <2>2. \E u \in Threads : pc'[u] = "some"
    BY <2>1 DEF Goto, LockInv, TypeOK
  <2>3. \A n \in Nodes : IsPrefixOf(n, at') <=> IsPrefixOf(n, at) /\ n # at
    BY <1>1, <1>5, <2>1, AboveParent
  <2>4. \A n \in Nodes : remaining'[n] = left[n] + (IF IsPrefixOf(n, at') THEN 1 ELSE 0)
    BY <1>1, <1>2, <1>3, <2>3
  <2>5. idx' + remaining'[Root] = Cardinality(Tests)
    BY <1>1, <1>2, <1>5, <2>1
  <2> QED
    BY <2>2, <2>4, <2>5 DEF CountInv
<1> QED
  BY <1>4, <1>5

LEMMA InitCounts == Init => CountInv
<1> SUFFICES ASSUME Init PROVE CountInv
  OBVIOUS
<1>1. \A n \in Nodes : remaining[n] = Cardinality(QueuedBelow(n))
  BY DEF Init, QueuedBelow
<1>2. \A t \in Threads : pc[t] = "check"
  BY DEF Init
<1>3. \A n \in Nodes : Cardinality(QueuedBelow(n)) \in Nat
  BY QueuedBelowIsFinite
<1>4. QueuedBelow(Root) = Tests
  <2>1. Subtree(Root) = Nodes
    BY PrefixOrder DEF Subtree
  <2> QED
    BY <2>1, PlacesOfTests DEF QueuedBelow, Elements, Init
<1>5. idx = 0 /\ Root \in Nodes
  BY TreeOfNodes DEF Init
<1> QED
  BY <1>1, <1>2, <1>3, <1>4, <1>5 DEF CountInv

LEMMA NextCounts == LockInv /\ PlaceInv /\ CountInv /\ [Next]_vars => CountInv'
<1> SUFFICES ASSUME LockInv, PlaceInv, CountInv, [Next]_vars PROVE CountInv'
  OBVIOUS
<1> USE DEF treeVars, lockVars, walkVars, threadVars
<1>0. /\ \A t \in Threads : InPlan(t) => mutex = t
      /\ TypeOK /\ at \in Nodes
  BY DEF LockInv, MutexInv, TypeOK
<1>1. ASSUME NEW t \in Threads, CheckDone(t) PROVE CountInv'
  <2>1. PICK label \in {"exit", "pick"} : Goto(t, label)
    BY <1>1 DEF CheckDone
  <2> QED
    BY <1>1, <2>1, CountsStay DEF CheckDone
<1>2. ASSUME NEW t \in Threads, PickNext(t) PROVE CountInv'
  BY <1>2, CountsStay DEF PickNext
<1>3. ASSUME NEW t \in Threads, EnterEmpty(t) \/ ReturnNone(t) PROVE CountInv'
  <2>1. PICK label \in {"none", "enter", "check"} : Goto(t, label)
    BY <1>0, <1>3, NoneFromLabel DEF EnterEmpty, ReturnNone
  <2>2. mutex = t /\ pc[t] # "some" /\ UNCHANGED <<tests, remaining, idx>>
    BY <1>0, <1>3 DEF EnterEmpty, ReturnNone, InPlan
  <2> QED
    BY <2>1, <2>2, CountsStay
<1>4. ASSUME NEW t \in Threads, Descend(t) PROVE CountInv'
  <2>1. PICK label \in {"none", "enter"} : Goto(t, label)
    BY <1>4 DEF Descend
  <2>2. mutex = t /\ pc[t] # "some" /\ UNCHANGED <<tests, remaining, idx>>
    BY <1>0, <1>4 DEF Descend, InPlan
  <2> QED
    BY <2>1, <2>2, CountsStay
<1>5. ASSUME NEW t \in Threads, Choose(t) PROVE CountInv'
  BY <1>5, CountsStay DEF Choose
<1>6. ASSUME NEW t \in Threads, TakeTest(t) PROVE CountInv'
  <2> DEFINE x == Head(tests[at])
             left == [n \in Nodes |-> Cardinality(QueuedBelow(n)')]
  <2>1. mutex = t /\ pc[t] = "lock" /\ tests[at] # <<>> /\ tests[at] \in Seq(Tests)
    BY <1>0, <1>6, QueuesAreSeqs DEF TakeTest, InPlan, LockInv, ChosenInv
  <2>2. /\ x \in Elements(tests[at])
        /\ Elements(Tail(tests[at])) = Elements(tests[at]) \ {x}
    BY <1>0, <2>1, PopTakesOne DEF PlaceInv, QueueInv
  <2>3. /\ Elements(tests'[at]) = Elements(tests[at]) \ {x}
        /\ \A m \in Nodes \ {at} : tests'[m] = tests[m]
    BY <1>0, <1>6, <2>2 DEF TakeTest, TypeOK
  <2>4. x \in Tests /\ \A m \in Nodes : x \in Elements(tests[m]) => m = at
    <3>1. x \in Tests
      BY <2>1, <2>2, ElementsOfSeq
    <3>2. \A m \in Nodes : Elements(tests[m]) \subseteq Elements(OwnTests[m])
      BY DEF PlaceInv, QueueInv
    <3> QED
      BY <1>0, <2>2, <3>1, <3>2, OneHome
  <2> HIDE DEF x
  <2>5. ASSUME NEW n \in Nodes
        PROVE  /\ IsPrefixOf(n, at) => x \in QueuedBelow(n) /\ QueuedBelow(n)' = QueuedBelow(n) \ {x}
               /\ ~IsPrefixOf(n, at) => QueuedBelow(n)' = QueuedBelow(n)
    <3>1. \A m \in Nodes : Elements(tests'[m]) = IF m = at THEN Elements(tests[m]) \ {x} ELSE Elements(tests[m])
      BY <2>3
    <3>2. CASE IsPrefixOf(n, at)
      BY <1>0, <2>2, <2>4, <3>1, <3>2 DEF QueuedBelow, Subtree
    <3>3. CASE ~IsPrefixOf(n, at)
      BY <1>0, <3>1, <3>3 DEF QueuedBelow, Subtree
    <3> QED
      BY <3>2, <3>3
  <2>6. ASSUME NEW n \in Nodes
        PROVE  /\ left[n] \in Nat
               /\ Cardinality(QueuedBelow(n)) = left[n] + (IF IsPrefixOf(n, at) THEN 1 ELSE 0)
    <3>1. IsFiniteSet(QueuedBelow(n)) /\ Cardinality(QueuedBelow(n)) \in Nat
      BY QueuedBelowIsFinite
    <3>2. CASE IsPrefixOf(n, at)
      <4>1. /\ IsFiniteSet(QueuedBelow(n) \ {x})
            /\ Cardinality(QueuedBelow(n) \ {x}) = Cardinality(QueuedBelow(n)) - 1
        BY <2>5, <3>1, <3>2, FS_RemoveElement
      <4>2. left[n] = Cardinality(QueuedBelow(n) \ {x})
        BY <2>5, <3>2
      <4>3. Cardinality(QueuedBelow(n) \ {x}) \in Nat
        BY <4>1, FS_CardinalityType
      <4> HIDE DEF left
      <4> QED
        BY <3>1, <3>2, <4>1, <4>2, <4>3
    <3>3. CASE ~IsPrefixOf(n, at)
      <4>1. left[n] = Cardinality(QueuedBelow(n))
        BY <2>5, <3>3
      <4> HIDE DEF left
      <4> QED
        BY <3>1, <3>3, <4>1
    <3> QED
      BY <3>2, <3>3
  <2>7. ~ \E u \in Threads : pc[u] = "some"
    BY <2>1, AloneInPlan DEF InPlan, LockInv
  <2>8. \A n \in Nodes : remaining[n] = left[n] + (IF IsPrefixOf(n, at) THEN 1 ELSE 0)
    <3>1. \A n \in Nodes : remaining[n] = Cardinality(QueuedBelow(n)) + 0
      BY <2>7 DEF CountInv
    <3>2. \A n \in Nodes : Cardinality(QueuedBelow(n)) \in Nat
      BY QueuedBelowIsFinite
    <3> HIDE DEF left
    <3> QED
      BY <2>6, <3>1, <3>2
  <2>9. idx + remaining[Root] = Cardinality(Tests) /\ SomeFrom(t, at) /\ remaining' = CountDown(at)
    BY <1>6 DEF CountInv, TakeTest
  <2>10. \A n \in Nodes : left[n] \in Nat /\ Cardinality(QueuedBelow(n)') = left[n]
    BY <2>6
  <2>11. left \in [Nodes -> Nat]
    BY <2>10
  <2> HIDE DEF left
  <2> QED
    BY <2>11, <2>1, <2>8, <2>9, <2>10, CountedOnce
<1>7. ASSUME NEW t \in Threads, ReturnSome(t) PROVE CountInv'
  <2> DEFINE left == [n \in Nodes |-> Cardinality(QueuedBelow(n))]
  <2>1. mutex = t /\ pc[t] = "some" /\ SomeFrom(t, at) /\ remaining' = CountDown(at)
    BY <1>0, <1>7 DEF ReturnSome, InPlan
  <2>2. \A n \in Nodes : left[n] \in Nat /\ Cardinality(QueuedBelow(n)') = left[n]
    BY <1>7, QueuedBelowIsFinite DEF ReturnSome, QueuedBelow
  <2>3. \A n \in Nodes : remaining[n] = left[n] + (IF IsPrefixOf(n, at) THEN 1 ELSE 0)
    BY <2>1 DEF CountInv
  <2>4. idx + remaining[Root] = Cardinality(Tests)
    BY DEF CountInv
  <2>5. left \in [Nodes -> Nat]
    BY <2>2
  <2> HIDE DEF left
  <2> QED
    BY <2>5, <2>1, <2>2, <2>3, <2>4, CountedOnce
<1>8. ASSUME NEW t \in Threads, FinishTest(t) PROVE CountInv'
  BY <1>8, CountsStay DEF FinishTest
<1>9. ASSUME NEW t \in Threads, DropExecution(t) PROVE CountInv'
  BY <1>9, CountsStay DEF DropExecution
<1>10. ASSUME NEW t \in Threads, DropGuard(t) PROVE CountInv'
  BY <1>10, CountsStay DEF DropGuard
<1>11. CASE UNCHANGED vars
  <2>1. UNCHANGED <<tests, remaining, idx, at, pc>>
    BY <1>11 DEF vars
  <2>2. \A n \in Nodes : QueuedBelow(n)' = QueuedBelow(n)
    BY <2>1 DEF QueuedBelow
  <2> QED
    BY <2>1, <2>2 DEF CountInv
<1> QED
  BY <1>1, <1>2, <1>3, <1>4, <1>5, <1>6, <1>7, <1>8, <1>9, <1>10, <1>11
  DEF Next, Step, Joined

(* Whenever no walk is under way remaining_count of every suite is the     *)
(* number of tests queued in it and below, and the index of the next       *)
(* TestExecution is the number of those handed out: is_done is exact, no   *)
(* count underflows.                                                       *)
THEOREM CountsAreExact == Spec => []CountsMatch
<1>1. Init => CountInv
  BY InitCounts
<1>2. LockInv /\ PlaceInv /\ CountInv /\ [Next]_vars => CountInv'
  BY NextCounts
<1>3. LockInv /\ CountInv => CountsMatch
  <2> SUFFICES ASSUME LockInv, CountInv, mutex = NoThread
               PROVE  /\ \A n \in Nodes : remaining[n] = Cardinality(QueuedBelow(n))
                      /\ idx + remaining[Root] = Cardinality(Tests)
    BY DEF CountsMatch
  <2>1. \A t \in Threads : pc[t] # "some"
    BY ThreadsAssumption DEF LockInv, MutexInv, InPlan
  <2>2. \A n \in Nodes : remaining[n] = Cardinality(QueuedBelow(n)) + 0
    BY <2>1 DEF CountInv
  <2> QED
    BY <2>2, QueuedBelowIsFinite DEF CountInv
<1> QED
  BY <1>1, <1>2, <1>3, PlaceSafety, PTL DEF Spec
=============================================================================
