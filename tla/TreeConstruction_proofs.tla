----------------------- MODULE TreeConstruction_proofs -----------------------
(***************************************************************************)
(* For every set of modules and test functions, every order in which       *)
(* properties are registered and dependencies added, and every command     *)
(* line: construct leaves a tree with the assumptions of SuiteTree, from   *)
(* which the scheduler starts; the locks are handed down as SuiteTree's    *)
(* LockOf says; and the tests of a suite are popped in their order.        *)
(*                                                                         *)
(* What Selection computes is defined with SelectSeq, FoldLeft and         *)
(* FlattenSeq, which the provers cannot unfold.  The theorems use one fact *)
(* about it, SelectedTests, as an explicit assumption: that the outcome is *)
(* a sequence of tests of the registered modules.  It is a conjunct of     *)
(* SameInEachWorker, which TLC checks.                                     *)
(*                                                                         *)
(* The inductive invariant: Shape, the tree has no gaps and each level is  *)
(* in `inner` of its parent once; Placed, the queue holds the tests that   *)
(* are not in the tree, and the others are in the vector of their module   *)
(* in descending order; Counted, remaining_count; Declared and Phases,     *)
(* what was added so far and what it marked; CallsSeq and HandedDown, what *)
(* the recursion of propagate_sequential did so far.                       *)
(***************************************************************************)
EXTENDS TreeConstruction, FiniteSetTheorems, SequenceTheorems, WellFoundedInduction, TLAPS

(* The level above a path.                                                 *)
Parent(path) == SubSeq(path, 1, Len(path) - 1)

(* No level is missing, and each is in `inner` of its parent once.         *)
Shape ==
    /\ IsFiniteSet(Nodes) /\ Root \in Nodes /\ Nodes \subseteq Seq(Segments)
    /\ \A n \in Nodes : PathTo(n) \subseteq Nodes
    /\ inner \in [Nodes -> Seq(Nodes)]
    /\ \A n \in Nodes : \A i \in DOMAIN inner[n] : inner[n][i] # Root /\ Parent(inner[n][i]) = n
    /\ \A n \in Nodes : \A i, j \in DOMAIN inner[n] : inner[n][i] = inner[n][j] => i = j
    /\ \A c \in Nodes \ {Root} : \E i \in DOMAIN inner[Parent(c)] : inner[Parent(c)][i] = c

(* The tests that are in the tree.                                         *)
Added == Len(queue) + 1..Len(selected)

(* The last tests were added first, each to its module.                    *)
Placed ==
    /\ Len(queue) \in Nat /\ Len(queue) <= Len(selected)
    /\ queue = [i \in 1..Len(queue) |-> Len(queue) - i + 1]
    /\ tests \in [Nodes -> Seq(Added)]
    /\ \A n \in Nodes : \A i \in DOMAIN tests[n] : selected[tests[n][i]].module = n
    /\ \A n \in Nodes : \A i, j \in DOMAIN tests[n] : i < j => tests[n][j] < tests[n][i]
    /\ \A x \in Added : /\ selected[x].module \in Nodes
                        /\ \E i \in DOMAIN tests[selected[x].module] :
                              tests[selected[x].module][i] = x

(* remaining_count speaks of the tests in a level and below.               *)
Below(n) == {x \in Added : n \in PathTo(selected[x].module)}

Counted ==
    remaining = [n \in Nodes |-> Cardinality(Below(n))]

(* The properties that were added, and what they and benchmarks mark.      *)
Done == Len(declared) - Len(props)

Marks ==
    {declared[i].suite : i \in {j \in 1..Done : declared[j].kind = "Sequential"}}
    \cup {selected[x].module : x \in {y \in Added : selected[y].bench}}

Declared ==
    /\ declared \in Seq([suite : Modules, kind : {"Sequential", "Tag", "Timeout", "Matrix"},
                         dep : Dimensions \cup {NoDep}])
    /\ deps \subseteq Modules
    /\ phase # "register" =>
          /\ Done \in 0..Len(declared)
          /\ props = SubSeq(declared, Done + 1, Len(declared))
          /\ \A i \in 1..Done : declared[i].suite \in Nodes

(* Nothing is in the tree before the tests are selected, and nothing is    *)
(* handed down before all is in it.                                        *)
Phases ==
    /\ phase \in {"register", "add", "propagate", "done"}
    /\ phase = "register" => selected = <<>> /\ queue = <<>> /\ props = <<>> /\ Nodes = {Root} /\ isSequential = {}
    /\ phase \in {"register", "add"} => /\ lock = [n \in Nodes |-> n]
    /\ phase = "add" => isSequential = Marks
    /\ phase = "propagate" \/ Constructed => queue = <<>> /\ props = <<>>

(* A level the recursion has still to reach.                               *)
Pending(n) == \E i \in DOMAIN calls : calls[i].node \in PathTo(n)

(* The suites that end up sequential, and the locks the suites end up with. *)
InSequential == {n \in Nodes : Built!IsSequential(n)}
LocksDue     == [n \in Nodes |-> Built!LockOf(n)]

(* What propagate_sequential did so far: what is not below one of the      *)
(* calls that are still to be made is as it should be in the end.          *)
HandedDown ==
    phase = "propagate" \/ Constructed =>
        /\ lock \in [Nodes -> Nodes] /\ isSequential \subseteq Nodes
        /\ \A i \in DOMAIN calls :
              /\ calls[i].node \in Nodes
              /\ calls[i].inherited =
                    IF calls[i].node # Root /\ Parent(calls[i].node) \in InSequential
                    THEN LocksDue[Parent(calls[i].node)] ELSE NoLock
        /\ \A i, j \in DOMAIN calls : calls[i].node \in PathTo(calls[j].node) => i = j
        /\ \A n \in Nodes :
              IF Pending(n)
              THEN lock[n] = n /\ (n \in isSequential <=> n \in DeclaredSequential)
              ELSE lock[n] = LocksDue[n] /\ (n \in isSequential <=> n \in InSequential)
        /\ phase = "done" => calls = <<>>

(* The recursion visits nodes of the tree.                                 *)
CallsSeq == calls \in Seq([node : Nodes, inherited : Nodes \cup {NoLock}])

-----------------------------------------------------------------------------
(* Paths.                                                                  *)
Paths == Seq(Segments)

LEMMA Levels ==
    ASSUME NEW p \in Paths
    PROVE  /\ Len(p) \in Nat
           /\ \A k \in 0..Len(p) : /\ SubSeq(p, 1, k) \in Paths
                                   /\ Len(SubSeq(p, 1, k)) = k
                                   /\ \A i \in 1..k : SubSeq(p, 1, k)[i] = p[i]
           /\ SubSeq(p, 1, Len(p)) = p
           /\ SubSeq(p, 1, 0) = Root
<1>1. p \in Seq(Segments) /\ Len(p) \in Nat /\ \A i \in 1..Len(p) : p[i] \in Segments
  BY DEF Paths
<1>2. ASSUME NEW k \in 0..Len(p)
      PROVE  /\ SubSeq(p, 1, k) \in Paths
             /\ Len(SubSeq(p, 1, k)) = k
             /\ \A i \in 1..k : SubSeq(p, 1, k)[i] = p[i]
  <2>1. k \in Int /\ 1 \in Int /\ \A i \in 1..k : p[i] \in Segments
    BY <1>1
  <2>2. /\ SubSeq(p, 1, k) \in Seq(Segments)
        /\ Len(SubSeq(p, 1, k)) = IF 1 <= k THEN k - 1 + 1 ELSE 0
        /\ \A i \in 1..k - 1 + 1 : SubSeq(p, 1, k)[i] = p[1 + i - 1]
    BY <2>1, SubSeqProperties
  <2> QED
    BY <1>1, <2>1, <2>2 DEF Paths
<1>3. SubSeq(p, 1, Len(p)) = p
  BY <1>1, SubSeqFull
<1>4. SubSeq(p, 1, 0) = Root
  BY SubSeqEmpty DEF Root
<1> QED
  BY <1>1, <1>2, <1>3, <1>4

LEMMA SamePath ==
    ASSUME NEW a \in Paths, NEW b \in Paths, Len(a) = Len(b), \A i \in 1..Len(a) : a[i] = b[i]
    PROVE  a = b
  BY SeqEqual DEF Paths

LEMMA RootLength == Root \in Paths /\ Len(Root) = 0 /\ \A p \in Paths : Len(p) = 0 => p = Root
<1>1. Root \in Paths /\ Len(Root) = 0
  BY EmptySeq DEF Root, Paths
<1> QED
  BY <1>1, SamePath

LEMMA SubPaths ==
    ASSUME NEW p \in Paths, NEW k \in 0..Len(p), NEW j \in 0..k
    PROVE  SubSeq(SubSeq(p, 1, k), 1, j) = SubSeq(p, 1, j)
<1> DEFINE q == SubSeq(p, 1, k)
<1>1. q \in Paths /\ Len(q) = k /\ \A i \in 1..k : q[i] = p[i]
  BY Levels
<1>2. j \in 0..Len(q) /\ j \in 0..Len(p) /\ Len(p) \in Nat
  BY <1>1, Levels
<1> HIDE DEF q
<1>3. SubSeq(q, 1, j) \in Paths /\ Len(SubSeq(q, 1, j)) = j /\ \A i \in 1..j : SubSeq(q, 1, j)[i] = q[i]
  BY <1>1, <1>2, Levels
<1>4. SubSeq(p, 1, j) \in Paths /\ Len(SubSeq(p, 1, j)) = j /\ \A i \in 1..j : SubSeq(p, 1, j)[i] = p[i]
  BY <1>2, Levels
<1>5. \A i \in 1..j : SubSeq(q, 1, j)[i] = SubSeq(p, 1, j)[i]
  BY <1>1, <1>2, <1>3, <1>4
<1>6. SubSeq(q, 1, j) = SubSeq(p, 1, j)
  BY <1>3, <1>4, <1>5, SamePath
<1> QED
  BY <1>6 DEF q

LEMMA InPath ==
    ASSUME NEW p \in Paths, NEW n \in PathTo(p)
    PROVE  n \in Paths /\ Len(n) \in 0..Len(p) /\ n = SubSeq(p, 1, Len(n))
  BY Levels DEF PathTo

LEMMA PathOrder ==
    ASSUME NEW p \in Paths
    PROVE  /\ p \in PathTo(p) /\ Root \in PathTo(p)
           /\ \A n \in PathTo(p) : PathTo(n) \subseteq PathTo(p)
           /\ \A n \in PathTo(p) : Len(n) = Len(p) => n = p
           /\ \A m, n \in PathTo(p) : Len(m) <= Len(n) => m \in PathTo(n)
<1>1. Len(p) \in Nat /\ SubSeq(p, 1, Len(p)) = p /\ SubSeq(p, 1, 0) = Root
  BY Levels
<1>2. p \in PathTo(p) /\ Root \in PathTo(p)
  <2>1. Len(p) \in 0..Len(p) /\ 0 \in 0..Len(p)
    BY <1>1
  <2>2. \A k \in 0..Len(p) : SubSeq(p, 1, k) \in PathTo(p)
    BY DEF PathTo
  <2>3. SubSeq(p, 1, Len(p)) \in PathTo(p) /\ SubSeq(p, 1, 0) \in PathTo(p)
    BY <2>1, <2>2
  <2> QED
    BY <1>1, <2>3
<1>3. ASSUME NEW n \in PathTo(p), NEW m \in PathTo(n) PROVE m \in PathTo(p)
  <2>1. n \in Paths /\ Len(n) \in 0..Len(p) /\ n = SubSeq(p, 1, Len(n))
    BY InPath
  <2>2. Len(m) \in 0..Len(n) /\ m = SubSeq(n, 1, Len(m))
    BY <2>1, InPath
  <2>3. SubSeq(SubSeq(p, 1, Len(n)), 1, Len(m)) = SubSeq(p, 1, Len(m))
    BY <2>1, <2>2, SubPaths
  <2>4. m = SubSeq(p, 1, Len(m)) /\ Len(m) \in 0..Len(p)
    BY <1>1, <2>1, <2>2, <2>3
  <2> QED
    BY <2>4 DEF PathTo
<1>4. ASSUME NEW n \in PathTo(p), Len(n) = Len(p) PROVE n = p
  BY <1>1, <1>4, InPath
<1>5. ASSUME NEW m \in PathTo(p), NEW n \in PathTo(p), Len(m) <= Len(n) PROVE m \in PathTo(n)
  <2>1. Len(n) \in 0..Len(p) /\ n = SubSeq(p, 1, Len(n)) /\ Len(m) \in 0..Len(p)
        /\ m = SubSeq(p, 1, Len(m))
    BY InPath
  <2>2. Len(m) \in 0..Len(n)
    BY <1>1, <1>5, <2>1
  <2>3. SubSeq(SubSeq(p, 1, Len(n)), 1, Len(m)) = SubSeq(p, 1, Len(m))
    BY <2>1, <2>2, SubPaths
  <2>4. m = SubSeq(n, 1, Len(m))
    BY <2>1, <2>3
  <2> QED
    BY <2>2, <2>4 DEF PathTo
<1> QED
  BY <1>2, <1>3, <1>4, <1>5

LEMMA Above ==
    ASSUME NEW p \in Paths, p # Root
    PROVE  /\ Len(p) >= 1 /\ Parent(p) \in PathTo(p) /\ Parent(p) \in Paths
           /\ Len(Parent(p)) = Len(p) - 1 /\ Parent(p) # p
           /\ PathTo(p) = PathTo(Parent(p)) \cup {p}
<1>1. Len(p) \in Nat /\ Len(p) >= 1
  BY Levels, RootLength
<1>2. Len(p) - 1 \in 0..Len(p)
  BY <1>1
<1>3. Parent(p) \in Paths /\ Len(Parent(p)) = Len(p) - 1 /\ Parent(p) \in PathTo(p)
  BY <1>2, Levels DEF Parent, PathTo
<1>4. Parent(p) # p
  BY <1>1, <1>3
<1>5. ASSUME NEW n \in PathTo(p), n # p PROVE n \in PathTo(Parent(p))
  <2>1. Len(n) \in 0..Len(p) /\ Len(n) # Len(p)
    BY <1>5, InPath, PathOrder
  <2>2. Len(n) <= Len(Parent(p))
    BY <1>1, <1>3, <2>1
  <2> QED
    BY <1>3, <2>2, PathOrder
<1> QED
  BY <1>1, <1>3, <1>4, <1>5, PathOrder

(* The level after n on the way to p.                                      *)
LevelAfter(p, n) == SubSeq(p, 1, Len(n) + 1)

LEMMA NextLevel ==
    ASSUME NEW p \in Paths, NEW n \in PathTo(p), n # p
    PROVE  /\ LevelAfter(p, n) \in PathTo(p) /\ LevelAfter(p, n) \in Paths
           /\ Len(LevelAfter(p, n)) = Len(n) + 1 /\ LevelAfter(p, n) # Root
           /\ Parent(LevelAfter(p, n)) = n
<1>1. Len(p) \in Nat /\ n \in Paths /\ Len(n) \in 0..Len(p) /\ n = SubSeq(p, 1, Len(n))
  BY Levels, InPath
<1>2. Len(n) # Len(p)
  BY PathOrder
<1>3. Len(n) + 1 \in 0..Len(p) /\ Len(n) \in 0..Len(n) + 1
  BY <1>1, <1>2
<1>4. LevelAfter(p, n) \in PathTo(p) /\ LevelAfter(p, n) \in Paths /\ Len(LevelAfter(p, n)) = Len(n) + 1
  BY <1>3, Levels DEF LevelAfter, PathTo
<1>5. LevelAfter(p, n) # Root
  BY <1>1, <1>4, RootLength
<1>6. SubSeq(SubSeq(p, 1, Len(n) + 1), 1, Len(n)) = n
  BY <1>1, <1>3, SubPaths
<1>7. Len(LevelAfter(p, n)) - 1 = Len(n)
  BY <1>1, <1>4
<1>8. Parent(LevelAfter(p, n)) = n
  BY <1>6, <1>7 DEF Parent, LevelAfter
<1> QED
  BY <1>4, <1>5, <1>8

LEMMA PathIsFinite == ASSUME NEW p \in Paths PROVE IsFiniteSet(PathTo(p))
<1>1. IsFiniteSet(0..Len(p))
  BY Levels, FS_Interval
<1> DEFINE f == [k \in 0..Len(p) |-> SubSeq(p, 1, k)]
<1>2. f \in Surjection(0..Len(p), PathTo(p))
  BY DEF Surjection, PathTo
<1> QED
  BY <1>1, <1>2, FS_Surjection

(* A level of a path other than the root follows the one above it.         *)
LEMMA LevelBefore ==
    ASSUME NEW p \in Paths, NEW c \in PathTo(p), c # Root
    PROVE  Parent(c) \in PathTo(p) /\ Parent(c) # p /\ LevelAfter(p, Parent(c)) = c
<1>1. Len(p) \in Nat /\ c \in Paths /\ Len(c) \in 0..Len(p) /\ c = SubSeq(p, 1, Len(c))
  BY Levels, InPath
<1>2. Len(c) >= 1 /\ Parent(c) \in PathTo(c) /\ Len(Parent(c)) = Len(c) - 1
  BY <1>1, Above
<1>3. Parent(c) \in PathTo(p)
  BY <1>2, PathOrder
<1> DEFINE l == Len(c)
           k == Len(Parent(c))
           m == Len(p)
<1>3a. m \in Nat /\ l \in 0..m /\ k = l - 1
  BY <1>1, <1>2
<1> HIDE DEF l, k, m
<1>3b. k + 1 = l /\ k # m
  BY <1>3a
<1>4. Len(Parent(c)) + 1 = Len(c) /\ Len(Parent(c)) # Len(p)
  BY <1>3b DEF l, k, m
<1> QED
  BY <1>1, <1>3, <1>4 DEF LevelAfter

(* Below each path there are the paths that have it as a level.            *)
Present(n) == IF n \in Nodes THEN inner[n] ELSE <<>>
Grows(p, n) == n \in PathTo(p) \ {p} /\ LevelAfter(p, n) \notin Nodes

LEMMA Grown ==
    ASSUME Shape, NEW p \in Paths, inner' = NewInner(p)
    PROVE  /\ Nodes' = Nodes \cup PathTo(p)
           /\ \A n \in Nodes' :
                 /\ Present(n) \in Seq(Nodes) /\ Len(Present(n)) \in Nat
                 /\ DOMAIN Present(n) = 1..Len(Present(n))
                 /\ ~Grows(p, n) => inner'[n] = Present(n)
                 /\ Grows(p, n) =>
                       /\ inner'[n] \in Seq(Nodes')
                       /\ DOMAIN inner'[n] = 1..Len(Present(n)) + 1
                       /\ \A i \in 1..Len(Present(n)) : inner'[n][i] = Present(n)[i]
                       /\ inner'[n][Len(Present(n)) + 1] = LevelAfter(p, n)
<1>1. Nodes' = Nodes \cup PathTo(p)
  BY DEF NewInner, Nodes
<1>2. inner \in [Nodes -> Seq(Nodes)]
  BY DEF Shape
<1>3. ASSUME NEW n \in Nodes'
      PROVE  inner'[n] = IF Grows(p, n) THEN Append(Present(n), LevelAfter(p, n)) ELSE Present(n)
  BY <1>1 DEF NewInner, Grows, Present, LevelAfter
<1>4. ASSUME NEW n \in Nodes' PROVE Present(n) \in Seq(Nodes)
  BY <1>2, EmptySeq DEF Present
<1>5. ASSUME NEW n \in Nodes', Grows(p, n)
      PROVE  /\ inner'[n] \in Seq(Nodes')
             /\ DOMAIN inner'[n] = 1..Len(Present(n)) + 1
             /\ \A i \in 1..Len(Present(n)) : inner'[n][i] = Present(n)[i]
             /\ inner'[n][Len(Present(n)) + 1] = LevelAfter(p, n)
  <2>1. LevelAfter(p, n) \in Nodes'
    BY <1>1, <1>5, NextLevel DEF Grows
  <2>2. Present(n) \in Seq(Nodes')
    BY <1>1, <1>4
  <2>3. inner'[n] = Append(Present(n), LevelAfter(p, n))
    BY <1>3, <1>5
  <2> QED
    BY <2>1, <2>2, <2>3, AppendProperties
<1>6. ASSUME NEW n \in Nodes' PROVE Len(Present(n)) \in Nat /\ DOMAIN Present(n) = 1..Len(Present(n))
  BY <1>4
<1> QED
  BY <1>1, <1>3, <1>4, <1>5, <1>6

LEMMA Insertion ==
    ASSUME Shape, NEW p \in Paths, inner' = NewInner(p)
    PROVE  Shape'
<1>1. /\ Nodes' = Nodes \cup PathTo(p)
      /\ \A n \in Nodes' :
            /\ Present(n) \in Seq(Nodes) /\ Len(Present(n)) \in Nat
            /\ DOMAIN Present(n) = 1..Len(Present(n))
            /\ ~Grows(p, n) => inner'[n] = Present(n)
            /\ Grows(p, n) =>
                  /\ inner'[n] \in Seq(Nodes')
                  /\ DOMAIN inner'[n] = 1..Len(Present(n)) + 1
                  /\ \A i \in 1..Len(Present(n)) : inner'[n][i] = Present(n)[i]
                  /\ inner'[n][Len(Present(n)) + 1] = LevelAfter(p, n)
  BY Grown
<1>2. IsFiniteSet(Nodes')
  BY <1>1, PathIsFinite, FS_Union DEF Shape
<1>3. Root \in Nodes' /\ Nodes' \subseteq Seq(Segments)
  BY <1>1, InPath DEF Shape, Paths
<1>4. ASSUME NEW n \in Nodes' PROVE PathTo(n) \subseteq Nodes'
  BY <1>1, PathOrder DEF Shape
<1>5. inner' \in [Nodes' -> Seq(Nodes')]
  <2>1. ASSUME NEW n \in Nodes' PROVE inner'[n] \in Seq(Nodes')
    <3>1. CASE Grows(p, n)
      BY <1>1, <3>1
    <3>2. CASE ~Grows(p, n)
      <4>1. inner'[n] = Present(n) /\ Present(n) \in Seq(Nodes) /\ Nodes \subseteq Nodes'
        BY <1>1, <3>2
      <4> QED
        BY <4>1
    <3> QED
      BY <3>1, <3>2
  <2> QED
    BY <2>1 DEF NewInner, Nodes
<1>6. ASSUME NEW n \in Nodes', NEW i \in DOMAIN Present(n)
      PROVE  Present(n)[i] \in Nodes /\ Present(n)[i] # Root /\ Parent(Present(n)[i]) = n
  <2>1. n \in Nodes
    BY <1>6, EmptySeq DEF Present
  <2>2. Present(n) = inner[n] /\ inner[n] \in Seq(Nodes)
    BY <2>1 DEF Present, Shape
  <2> QED
    BY <2>1, <2>2 DEF Shape
<1>7. ASSUME NEW n \in Nodes', NEW i \in DOMAIN inner'[n]
      PROVE  inner'[n][i] # Root /\ Parent(inner'[n][i]) = n
  <2>1. CASE Grows(p, n) /\ i = Len(Present(n)) + 1
    <3>1. inner'[n][i] = LevelAfter(p, n) /\ n \in PathTo(p) /\ n # p
      BY <1>1, <2>1 DEF Grows
    <3> QED
      BY <3>1, NextLevel
  <2>2. CASE ~(Grows(p, n) /\ i = Len(Present(n)) + 1)
    <3>1. i \in DOMAIN Present(n) /\ inner'[n][i] = Present(n)[i]
      <4>1. CASE Grows(p, n)
        <5>1. /\ DOMAIN inner'[n] = 1..Len(Present(n)) + 1 /\ DOMAIN Present(n) = 1..Len(Present(n))
              /\ Len(Present(n)) \in Nat
              /\ \A j \in 1..Len(Present(n)) : inner'[n][j] = Present(n)[j]
          BY <1>1, <4>1
        <5>2. i \in 1..Len(Present(n))
          BY <1>7, <2>2, <4>1, <5>1
        <5> QED
          BY <5>1, <5>2
      <4>2. CASE ~Grows(p, n)
        BY <1>1, <1>7, <4>2
      <4> QED
        BY <4>1, <4>2
    <3> QED
      BY <3>1, <1>6
  <2> QED
    BY <2>1, <2>2
<1>8. ASSUME NEW n \in Nodes', NEW i \in DOMAIN inner'[n], NEW j \in DOMAIN inner'[n],
             inner'[n][i] = inner'[n][j]
      PROVE  i = j
  <2>1. ASSUME NEW a \in DOMAIN Present(n), NEW b \in DOMAIN Present(n), Present(n)[a] = Present(n)[b]
        PROVE  a = b
    <3>1. n \in Nodes
      BY <2>1, EmptySeq DEF Present
    <3> QED
      BY <2>1, <3>1 DEF Present, Shape
  <2>2. CASE Grows(p, n)
    <3>1. LevelAfter(p, n) \notin Nodes /\ DOMAIN inner'[n] = 1..Len(Present(n)) + 1
          /\ DOMAIN Present(n) = 1..Len(Present(n)) /\ Len(Present(n)) \in Nat
      BY <1>1, <2>2 DEF Grows
    <3>2. \A k \in DOMAIN inner'[n] : k \in DOMAIN Present(n) \/ k = Len(Present(n)) + 1
      BY <3>1
    <3>3. \A k \in DOMAIN Present(n) : inner'[n][k] = Present(n)[k] /\ Present(n)[k] \in Nodes
      BY <1>1, <1>6, <2>2, <3>1
    <3>4. inner'[n][Len(Present(n)) + 1] \notin Nodes
      BY <1>1, <2>2, <3>1
    <3> QED
      BY <1>8, <2>1, <3>2, <3>3, <3>4
  <2>3. CASE ~Grows(p, n)
    BY <1>1, <1>8, <2>1, <2>3
  <2> QED
    BY <2>2, <2>3
<1>9. ASSUME NEW c \in Nodes', c # Root
      PROVE  \E i \in DOMAIN inner'[Parent(c)] : inner'[Parent(c)][i] = c
  <2>1. CASE c \in Nodes
    <3>1. Parent(c) \in PathTo(c) /\ PathTo(c) \subseteq Nodes
      BY <2>1, <1>9, Above DEF Shape, Paths
    <3>2. PICK i \in DOMAIN inner[Parent(c)] : inner[Parent(c)][i] = c
      BY <2>1, <1>9 DEF Shape
    <3>3. Parent(c) \in Nodes' /\ Present(Parent(c)) = inner[Parent(c)]
      BY <1>1, <3>1 DEF Present
    <3>4. i \in 1..Len(Present(Parent(c))) /\ Len(Present(Parent(c))) \in Nat
      BY <1>1, <3>3
    <3>5. i \in DOMAIN inner'[Parent(c)] /\ inner'[Parent(c)][i] = inner[Parent(c)][i]
      <4>1. CASE Grows(p, Parent(c))
        <5>1. /\ DOMAIN inner'[Parent(c)] = 1..Len(Present(Parent(c))) + 1
              /\ inner'[Parent(c)][i] = Present(Parent(c))[i]
          BY <1>1, <3>3, <3>4, <4>1
        <5>2. i \in 1..Len(Present(Parent(c))) + 1
          BY <3>4
        <5> QED
          BY <3>3, <5>1, <5>2
      <4>2. CASE ~Grows(p, Parent(c))
        BY <1>1, <3>2, <3>3, <4>2
      <4> QED
        BY <4>1, <4>2
    <3> QED
      BY <3>2, <3>5
  <2>2. CASE c \notin Nodes
    <3>1. c \in PathTo(p)
      BY <1>1, <2>2
    <3>2. Parent(c) \in PathTo(p) /\ Parent(c) # p /\ LevelAfter(p, Parent(c)) = c
      BY <1>9, <3>1, LevelBefore
    <3>3. Parent(c) \in Nodes' /\ Grows(p, Parent(c))
      BY <1>1, <2>2, <3>2 DEF Grows
    <3>4. /\ DOMAIN inner'[Parent(c)] = 1..Len(Present(Parent(c))) + 1
          /\ inner'[Parent(c)][Len(Present(Parent(c))) + 1] = c
          /\ Len(Present(Parent(c))) \in Nat
      BY <1>1, <3>2, <3>3
    <3>5. Len(Present(Parent(c))) + 1 \in DOMAIN inner'[Parent(c)]
      BY <3>4
    <3> QED
      BY <3>4, <3>5
  <2> QED
    BY <2>1, <2>2
<1> QED
  BY <1>2, <1>3, <1>4, <1>5, <1>7, <1>8, <1>9 DEF Shape

LEMMA SelectedModules ==
    ASSUME SelectedTests
    PROVE  /\ Len(selected) \in Nat
           /\ \A x \in 1..Len(selected) : /\ selected[x].module \in Modules
                                          /\ selected[x].module \in Paths
<1>1. Len(selected) \in Nat
  BY DEF SelectedTests
<1>2. ASSUME NEW x \in 1..Len(selected) PROVE selected[x].module \in Modules
  BY DEF SelectedTests
<1> QED
  BY <1>1, <1>2, ConstructionAssumption DEF Paths

(* The tests that are not in the tree wait in the order of their numbers.  *)
LEMMA NextTest ==
    ASSUME Placed, queue # <<>>
    PROVE  /\ Len(queue) \in Nat /\ Len(queue) >= 1
           /\ Head(queue) = Len(queue)
           /\ Len(Tail(queue)) = Len(queue) - 1
           /\ Tail(queue) = [i \in 1..Len(queue) - 1 |-> Len(queue) - 1 - i + 1]
<1> DEFINE l == Len(queue)
<1>1. l \in Nat /\ queue = [i \in 1..l |-> l - i + 1]
  BY DEF Placed
<1>2. queue \in Seq(Nat)
  <2>1. \A i \in 1..l : l - i + 1 \in Nat
    BY <1>1
  <2> HIDE DEF l
  <2>2. queue \in [1..l -> Nat]
    BY <1>1, <2>1
  <2> QED
    BY <1>1, <2>2
<1>3. l >= 1
  BY <1>2, EmptySeq
<1>4. Head(queue) = l
  <2>1. Head(queue) = queue[1]
    BY <1>2, <1>3
  <2> HIDE DEF l
  <2>2. queue[1] = l - 1 + 1
    BY <1>1, <1>3
  <2> QED
    BY <1>1, <2>1, <2>2
<1>5. /\ Tail(queue) \in Seq(Nat) /\ Len(Tail(queue)) = l - 1
      /\ \A i \in 1..Len(Tail(queue)) : Tail(queue)[i] = queue[i + 1]
  BY <1>2, HeadTailProperties
<1>6. Tail(queue) = [i \in 1..l - 1 |-> l - 1 - i + 1]
  <2> DEFINE q == Tail(queue)
             r == [i \in 1..l - 1 |-> l - 1 - i + 1]
  <2>1. DOMAIN q = 1..l - 1
    BY <1>5
  <2>2. q = [i \in DOMAIN q |-> q[i]]
    <3>1. q \in [1..Len(q) -> Nat]
      BY <1>5, LenProperties
    <3> QED
      BY <3>1
  <2>3. ASSUME NEW i \in 1..l - 1 PROVE q[i] = l - 1 - i + 1
    <3>1. q[i] = queue[i + 1]
      BY <1>5
    <3> HIDE DEF l, q
    <3>2. i + 1 \in 1..l
      BY <1>1, <2>3
    <3>3. queue[i + 1] = l - (i + 1) + 1
      BY <1>1, <3>2
    <3> QED
      BY <1>1, <3>1, <3>3
  <2> HIDE DEF q, l
  <2> QED
    BY <2>1, <2>2, <2>3 DEF q
<1> QED
  BY <1>1, <1>3, <1>4, <1>5, <1>6

(* A level is made without tests.                                          *)
LEMMA InsertedPlaced ==
    ASSUME Shape, Placed, NEW p \in Paths, Nodes' = Nodes \cup PathTo(p),
           tests' = Extended(tests, p, Empty(p)), UNCHANGED <<queue, selected>>
    PROVE  Placed'
<1>1. Added' = Added
  BY DEF Added
<1>2. ASSUME NEW n \in Nodes'
      PROVE  tests'[n] = IF n \in Nodes THEN tests[n] ELSE <<>>
  BY DEF Extended, Empty
<1>3. tests' \in [Nodes' -> Seq(Added)]
  <2>1. ASSUME NEW n \in Nodes' PROVE tests'[n] \in Seq(Added)
    <3>1. \A k \in Nodes : tests[k] \in Seq(Added)
      BY DEF Placed
    <3> QED
      BY <1>2, <3>1, EmptySeq
  <2> QED
    BY <2>1 DEF Extended
<1>4. ASSUME NEW n \in Nodes', NEW i \in DOMAIN tests'[n]
      PROVE  n \in Nodes /\ tests'[n] = tests[n]
  BY <1>2, EmptySeq
<1>5. \A n \in Nodes' : \A i \in DOMAIN tests'[n] : selected[tests'[n][i]].module = n
  BY <1>4 DEF Placed
<1>6. \A n \in Nodes' : \A i, j \in DOMAIN tests'[n] : i < j => tests'[n][j] < tests'[n][i]
  BY <1>4 DEF Placed
<1>7. ASSUME NEW x \in Added
      PROVE  /\ selected[x].module \in Nodes'
             /\ \E i \in DOMAIN tests'[selected[x].module] : tests'[selected[x].module][i] = x
  <2>1. selected[x].module \in Nodes
        /\ \E i \in DOMAIN tests[selected[x].module] : tests[selected[x].module][i] = x
    BY DEF Placed
  <2> QED
    BY <1>2, <2>1
<1> QED
  BY <1>1, <1>3, <1>5, <1>6, <1>7 DEF Placed

LEMMA InsertedCounted ==
    ASSUME Shape, Placed, Counted, NEW p \in Paths, Nodes' = Nodes \cup PathTo(p),
           remaining' = Extended(remaining, p, Zero(p)), UNCHANGED <<queue, selected>>
    PROVE  Counted'
<1>1. \A n : Below(n)' = Below(n)
  BY DEF Below, Added
<1>2. ASSUME NEW n, n \notin Nodes PROVE Below(n) = {}
  <2>1. ASSUME NEW x \in Added PROVE PathTo(selected[x].module) \subseteq Nodes
    BY DEF Placed, Shape
  <2> QED
    BY <1>2, <2>1 DEF Below
<1>3. ASSUME NEW n \in Nodes' PROVE remaining'[n] = Cardinality(Below(n))
  <2>1. CASE n \in Nodes
    BY <1>3, <2>1 DEF Extended, Counted
  <2>2. CASE n \notin Nodes
    <3>1. remaining'[n] = 0
      BY <1>3, <2>2 DEF Extended, Zero
    <3> QED
      BY <1>2, <2>2, <3>1, FS_EmptySet
  <2> QED
    BY <2>1, <2>2
<1>4. remaining' = [n \in Nodes' |-> remaining'[n]]
  BY DEF Extended
<1>5. remaining' = [n \in Nodes' |-> Cardinality(Below(n)')]
  BY <1>1, <1>3, <1>4
<1> QED
  BY <1>5 DEF Counted

(* A test is added after all that come after it.                           *)
LEMMA TestPlaced ==
    ASSUME Shape, Placed, SelectedTests, AddTest
    PROVE  /\ Len(queue) \in Nat /\ Len(queue) \in 1..Len(selected)
           /\ Head(queue) = Len(queue)
           /\ Added' = Added \cup {Len(queue)} /\ Len(queue) \notin Added
           /\ Placed'
<1> DEFINE x == Len(queue)
           m == selected[x].module
<1>1. /\ x \in Nat /\ x >= 1 /\ Head(queue) = x /\ Len(Tail(queue)) = x - 1
      /\ Tail(queue) = [i \in 1..x - 1 |-> x - 1 - i + 1]
  BY NextTest DEF AddTest
<1>2. x <= Len(selected) /\ Len(selected) \in Nat
  BY SelectedModules DEF Placed
<1>3. x \in 1..Len(selected)
  BY <1>1, <1>2
<1>4. m \in Paths
  BY <1>3, SelectedModules
<1>5. queue' = Tail(queue) /\ selected' = selected
  BY DEF AddTest
<1>6. Added' = Added \cup {x} /\ x \notin Added
  <2>1. Len(queue') = x - 1
    BY <1>1, <1>5
  <2>2. Added = x + 1..Len(selected) /\ Added' = Len(queue') + 1..Len(selected)
    BY <1>5 DEF Added
  <2> HIDE DEF x
  <2> QED
    BY <1>1, <1>2, <2>1, <2>2
<1>7. inner' = NewInner(m)
  BY <1>1 DEF AddTest, Insert
<1>8. Nodes' = Nodes \cup PathTo(m)
  BY <1>4, <1>7, Grown
<1>9. m \in PathTo(m) /\ m \in Nodes'
  BY <1>4, <1>8, PathOrder
<1>10. tests' = [Extended(tests, m, Empty(m)) EXCEPT ![m] = Append(@, x)]
  BY <1>1 DEF AddTest
<1> DEFINE old(n) == IF n \in Nodes THEN tests[n] ELSE <<>>
<1>11. ASSUME NEW n \in Nodes'
       PROVE  tests'[n] = IF n = m THEN Append(old(n), x) ELSE old(n)
  <2> HIDE DEF x, m
  <2>1. Extended(tests, m, Empty(m))[n] = old(n)
    BY <1>8, <1>11 DEF Extended, Empty
  <2>2. DOMAIN Extended(tests, m, Empty(m)) = Nodes'
    BY <1>8 DEF Extended
  <2> QED
    BY <1>10, <1>11, <2>1, <2>2
<1>12. DOMAIN tests' = Nodes'
  BY <1>8, <1>10 DEF Extended
<1>13. ASSUME NEW n \in Nodes' PROVE old(n) \in Seq(Added) /\ old(n) \in Seq(Added')
  <2>1. old(n) \in Seq(Added)
    BY EmptySeq DEF Placed
  <2> QED
    BY <1>6, <2>1
<1>14. ASSUME NEW n \in Nodes', NEW i \in DOMAIN old(n)
       PROVE  /\ old(n)[i] \in Added /\ selected[old(n)[i]].module = n
              /\ \A j \in DOMAIN old(n) : i < j => old(n)[j] < old(n)[i]
  <2>1. n \in Nodes
    BY <1>14, EmptySeq
  <2> QED
    BY <1>13, <1>14, <2>1 DEF Placed
<1>15. /\ Len(old(m)) \in Nat /\ DOMAIN old(m) = 1..Len(old(m))
       /\ tests'[m] \in Seq(Added') /\ Len(tests'[m]) = Len(old(m)) + 1
       /\ DOMAIN tests'[m] = 1..Len(old(m)) + 1
       /\ \A i \in 1..Len(old(m)) : tests'[m][i] = old(m)[i]
       /\ tests'[m][Len(old(m)) + 1] = x
  <2>1. old(m) \in Seq(Added') /\ x \in Added' /\ tests'[m] = Append(old(m), x)
    BY <1>6, <1>9, <1>11, <1>13
  <2> HIDE DEF old, x, m
  <2> QED
    BY <2>1, AppendProperties
<1>16. ASSUME NEW i \in DOMAIN tests'[m]
       PROVE  (i \in DOMAIN old(m) /\ tests'[m][i] = old(m)[i])
              \/ (i = Len(old(m)) + 1 /\ tests'[m][i] = x)
  <2> HIDE DEF old, x, m
  <2>1. i \in 1..Len(old(m)) \/ i = Len(old(m)) + 1
    BY <1>15, <1>16
  <2> QED
    BY <1>15, <2>1
<1> HIDE DEF old
<1>17. tests' \in [Nodes' -> Seq(Added')]
  <2>1. ASSUME NEW n \in Nodes' PROVE tests'[n] \in Seq(Added')
    BY <1>11, <1>13, <1>15
  <2>2. tests' = [n \in Nodes' |-> tests'[n]]
    BY <1>10, <1>12
  <2> QED
    BY <2>1, <2>2
<1>18. ASSUME NEW n \in Nodes', NEW i \in DOMAIN tests'[n]
       PROVE  selected'[tests'[n][i]].module = n
  <2>1. CASE n = m
    BY <1>5, <1>9, <1>14, <1>16, <1>18, <2>1
  <2>2. CASE n # m
    BY <1>5, <1>11, <1>14, <1>18, <2>2
  <2> QED
    BY <2>1, <2>2
<1>19. ASSUME NEW n \in Nodes', NEW i \in DOMAIN tests'[n], NEW j \in DOMAIN tests'[n], i < j
       PROVE  tests'[n][j] < tests'[n][i]
  <2>1. CASE n = m
    <3>1. i \in DOMAIN old(m) /\ tests'[m][i] = old(m)[i]
      <4>1. i # Len(old(m)) + 1
        <5> HIDE DEF m
        <5>1. i \in 1..Len(old(m)) + 1 /\ j \in 1..Len(old(m)) + 1 /\ Len(old(m)) \in Nat
          BY <1>15, <1>19, <2>1
        <5> QED
          BY <1>19, <5>1
      <4> QED
        BY <1>16, <1>19, <2>1, <4>1
    <3>2. CASE j \in DOMAIN old(m) /\ tests'[m][j] = old(m)[j]
      BY <1>9, <1>14, <1>19, <2>1, <3>1, <3>2
    <3>3. CASE tests'[m][j] = x
      <4>1. old(m)[i] \in Added
        BY <1>9, <1>14, <3>1
      <4>2. old(m)[i] \in x + 1..Len(selected)
        BY <4>1 DEF Added
      <4> HIDE DEF x, m
      <4>3. x < old(m)[i]
        BY <1>1, <1>2, <4>2
      <4> QED
        BY <2>1, <3>1, <3>3, <4>3
    <3> QED
      BY <1>16, <1>19, <2>1, <3>2, <3>3
  <2>2. CASE n # m
    BY <1>11, <1>14, <1>19, <2>2
  <2> QED
    BY <2>1, <2>2
<1>20. ASSUME NEW y \in Added'
       PROVE  /\ selected'[y].module \in Nodes'
              /\ \E i \in DOMAIN tests'[selected'[y].module] : tests'[selected'[y].module][i] = y
  <2>1. CASE y = x
    <3>1. selected'[y].module = m
      BY <1>5, <2>1
    <3>2. Len(old(m)) + 1 \in DOMAIN tests'[m] /\ tests'[m][Len(old(m)) + 1] = x
      <4> HIDE DEF m, x
      <4> QED
        BY <1>15
    <3> QED
      BY <1>9, <2>1, <3>1, <3>2
  <2>2. CASE y \in Added
    <3> DEFINE k == selected[y].module
    <3>1. k \in Nodes /\ \E i \in DOMAIN tests[k] : tests[k][i] = y
      BY <2>2 DEF Placed
    <3>2. PICK i \in DOMAIN tests[k] : tests[k][i] = y
      BY <3>1
    <3>3. k \in Nodes' /\ old(k) = tests[k] /\ selected'[y].module = k
      BY <1>5, <1>8, <3>1 DEF old
    <3>4. i \in DOMAIN tests'[k] /\ tests'[k][i] = old(k)[i]
      <4> HIDE DEF m, x, k
      <4>1. CASE k = m
        <5>1. i \in 1..Len(old(m))
          BY <1>15, <3>3, <4>1
        <5>2. i \in 1..Len(old(m)) + 1
          BY <1>15, <5>1
        <5> QED
          BY <1>15, <4>1, <5>1, <5>2
      <4>2. CASE k # m
        BY <1>11, <3>3, <4>2
      <4> QED
        BY <4>1, <4>2
    <3> QED
      BY <3>2, <3>3, <3>4
  <2> QED
    BY <1>6, <2>1, <2>2
<1>21. /\ Len(queue') \in Nat /\ Len(queue') <= Len(selected')
       /\ queue' = [i \in 1..Len(queue') |-> Len(queue') - i + 1]
  <2>1. Len(queue') = x - 1 /\ queue' = [i \in 1..x - 1 |-> x - 1 - i + 1]
    BY <1>1, <1>5
  <2>2. x - 1 \in Nat /\ x - 1 <= Len(selected')
    <3> HIDE DEF x
    <3> QED
      BY <1>1, <1>2, <1>5
  <2> HIDE DEF x
  <2>3. Len(queue') \in Nat /\ Len(queue') <= Len(selected')
    BY <2>1, <2>2
  <2> QED
    BY <2>1, <2>3
<1>22. Placed'
  BY <1>17, <1>18, <1>19, <1>20, <1>21 DEF Placed
<1> QED
  BY <1>1, <1>3, <1>6, <1>22

LEMMA TestCounted ==
    ASSUME Shape, Placed, Counted, SelectedTests, AddTest
    PROVE  Counted'
<1> DEFINE x == Len(queue)
           m == selected[x].module
<1>1. /\ x \in 1..Len(selected) /\ Head(queue) = x
      /\ Added' = Added \cup {x} /\ x \notin Added
  BY TestPlaced
<1>2. m \in Paths
  BY <1>1, SelectedModules
<1>3. inner' = NewInner(m) /\ remaining' = CountedOnPath(m) /\ selected' = selected
  BY <1>1 DEF AddTest, Insert
<1>4. Nodes' = Nodes \cup PathTo(m)
  BY <1>2, <1>3, Grown
<1>5. ASSUME NEW n
      PROVE  Below(n)' = IF n \in PathTo(m) THEN Below(n) \cup {x} ELSE Below(n)
  BY <1>1, <1>3 DEF Below
<1>6. ASSUME NEW n PROVE IsFiniteSet(Below(n)) /\ x \notin Below(n) /\ Cardinality(Below(n)) \in Nat
  <2>1. IsFiniteSet(Added)
    <3>1. Len(queue) + 1 \in Int /\ Len(selected) \in Int
      BY SelectedModules DEF Placed
    <3> QED
      BY <3>1, FS_Interval DEF Added
  <2>2. Below(n) \subseteq Added
    BY DEF Below
  <2> QED
    BY <1>1, <2>1, <2>2, FS_Subset, FS_CardinalityType
<1>7. ASSUME NEW n, n \notin Nodes PROVE Cardinality(Below(n)) = 0
  <2>1. ASSUME NEW y \in Added PROVE PathTo(selected[y].module) \subseteq Nodes
    BY DEF Placed, Shape
  <2>2. Below(n) = {}
    BY <1>7, <2>1 DEF Below
  <2> QED
    BY <2>2, FS_EmptySet
<1>8. ASSUME NEW n \in Nodes'
      PROVE  remaining'[n] = Cardinality(Below(n)) + (IF n \in PathTo(m) THEN 1 ELSE 0)
  <2> HIDE DEF m, x
  <2>1. remaining'[n] = (IF n \in Nodes THEN remaining[n] ELSE 0) + (IF n \in PathTo(m) THEN 1 ELSE 0)
    BY <1>3, <1>4, <1>8 DEF CountedOnPath
  <2>2. (IF n \in Nodes THEN remaining[n] ELSE 0) = Cardinality(Below(n))
    BY <1>7 DEF Counted
  <2> QED
    BY <2>1, <2>2
<1>9. ASSUME NEW n \in Nodes' PROVE remaining'[n] = Cardinality(Below(n)')
  <2>1. CASE n \in PathTo(m)
    <3>1. Cardinality(Below(n) \cup {x}) = Cardinality(Below(n)) + 1
      BY <1>6, FS_AddElement
    <3> QED
      BY <1>5, <1>8, <1>9, <2>1, <3>1
  <2>2. CASE n \notin PathTo(m)
    BY <1>5, <1>6, <1>8, <1>9, <2>2
  <2> QED
    BY <2>1, <2>2
<1>10. remaining' = [n \in Nodes' |-> remaining'[n]]
  BY <1>3, <1>4 DEF CountedOnPath
<1>11. remaining' = [n \in Nodes' |-> Cardinality(Below(n)')]
  BY <1>9, <1>10
<1> QED
  BY <1>11 DEF Counted

Props == [suite : Modules, kind : {"Sequential", "Tag", "Timeout", "Matrix"},
          dep : Dimensions \cup {NoDep}]

(* What is still to be added are the last of the registered properties.    *)
LEMMA NextProp ==
    ASSUME Declared, phase = "add", props # <<>>
    PROVE  /\ Done \in Nat /\ Done + 1 \in 1..Len(declared) /\ Len(declared) \in Nat
           /\ Head(props) = declared[Done + 1]
           /\ Head(props).suite \in Modules /\ Head(props).suite \in Paths
           /\ Len(Tail(props)) = Len(props) - 1
           /\ Len(props) = Len(declared) - Done
           /\ Tail(props) = SubSeq(declared, Done + 2, Len(declared))
<1>1. declared \in Seq(Props) /\ Len(declared) \in Nat /\ Done \in 0..Len(declared)
      /\ props = SubSeq(declared, Done + 1, Len(declared))
  BY DEF Declared, Props
<1> DEFINE d == Done
           l == Len(declared)
<1>2. d \in Nat /\ l \in Nat /\ d \in 0..l
  BY <1>1
<1>3. d + 1 \in 1..l
  <2>1. CASE d + 1 \in 1..l
    BY <2>1
  <2>2. CASE d + 1 \notin 1..l
    <3> HIDE DEF d, l
    <3>1. d + 1 \in Int /\ l \in Int /\ l < d + 1
      BY <1>2, <2>2
    <3>2. SubSeq(declared, d + 1, l) = <<>>
      BY <3>1, SubSeqEmpty
    <3> QED
      BY <1>1, <3>2 DEF d, l
  <2> QED
    BY <2>1, <2>2
<1>4. l \in d + 1..l
  <2> HIDE DEF d, l
  <2> QED
    BY <1>2, <1>3
<1>5. Head(props) = declared[d + 1] /\ Tail(props) = SubSeq(declared, d + 1 + 1, l)
  BY <1>1, <1>3, <1>4, HeadTailOfSubSeq
<1>6. declared[d + 1] \in Props
  BY <1>1, <1>3, ElementOfSeq
<1>7. props \in Seq(Props) /\ Len(props) = l - d
  <2>1. \A i \in d + 1..l : declared[i] \in Props
    <3>1. \A i \in 1..l : declared[i] \in Props
      BY <1>1, ElementOfSeq
    <3> HIDE DEF d, l
    <3> QED
      BY <1>2, <3>1
  <2>2. d + 1 \in Int /\ l \in Int
    BY <1>2
  <2> HIDE DEF d, l
  <2>3. /\ SubSeq(declared, d + 1, l) \in Seq(Props)
        /\ Len(SubSeq(declared, d + 1, l)) = IF d + 1 <= l THEN l - (d + 1) + 1 ELSE 0
    BY <2>1, <2>2, SubSeqProperties
  <2>4. l - (d + 1) + 1 = l - d /\ d + 1 <= l
    BY <1>2, <1>3
  <2> QED
    BY <1>1, <2>3, <2>4 DEF d, l
<1>8. Len(Tail(props)) = Len(props) - 1
  BY <1>7, HeadTailProperties
<1>9. d + 1 + 1 = d + 2
  BY <1>2
<1>10. Head(props).suite \in Modules /\ Modules \subseteq Paths
  BY <1>5, <1>6, ConstructionAssumption DEF Props, Paths
<1> QED
  BY <1>2, <1>3, <1>5, <1>7, <1>8, <1>9, <1>10

LEMMA PropDone ==
    ASSUME Declared, AddProp
    PROVE  Done' = Done + 1
<1>1. Len(Tail(props)) = Len(props) - 1 /\ Len(declared) \in Nat /\ Done \in Nat
      /\ Len(props) = Len(declared) - Done
  BY NextProp DEF AddProp
<1>2. declared' = declared /\ props' = Tail(props)
  BY DEF AddProp, inputs
<1>3. Done' = Len(declared) - Len(Tail(props))
  BY <1>2 DEF Done
<1> DEFINE t == Len(Tail(props))
           l == Len(declared)
           d == Done
           p == Len(props)
<1>4. Done' = l - t /\ t = p - 1 /\ l \in Nat /\ d \in Nat /\ p = l - d
  BY <1>1, <1>3
<1> HIDE DEF t, l, d, p
<1>5. l - t = d + 1
  BY <1>4
<1> QED
  BY <1>4, <1>5 DEF d

LEMMA PropDeclared ==
    ASSUME Shape, Declared, AddProp
    PROVE  Declared'
<1>1. /\ Done \in Nat /\ Done + 1 \in 1..Len(declared) /\ Len(declared) \in Nat
      /\ Head(props) = declared[Done + 1]
      /\ Head(props).suite \in Paths
      /\ Tail(props) = SubSeq(declared, Done + 2, Len(declared))
  BY NextProp DEF AddProp
<1>2. declared' = declared /\ props' = Tail(props) /\ deps' = deps /\ phase = "add" /\ phase' = "add"
      /\ inner' = NewInner(Head(props).suite)
  BY DEF AddProp, inputs, Insert
<1>3. Done' = Done + 1
  BY PropDone
<1>4. Nodes' = Nodes \cup PathTo(Head(props).suite) /\ Head(props).suite \in PathTo(Head(props).suite)
  BY <1>1, <1>2, Grown, PathOrder
<1>5. \A i \in 1..Done : declared[i].suite \in Nodes
  BY <1>2 DEF Declared
<1> HIDE DEF Done
<1>6. ASSUME NEW i \in 1..Done + 1 PROVE declared[i].suite \in Nodes'
  <2>1. i \in 1..Done \/ i = Done + 1
    BY <1>1
  <2> QED
    BY <1>1, <1>4, <1>5, <2>1
<1>7. Done' \in 0..Len(declared) /\ props' = SubSeq(declared, Done' + 1, Len(declared))
  <2>1. Done + 1 + 1 = Done + 2 /\ Done + 1 \in 0..Len(declared)
    BY <1>1
  <2> QED
    BY <1>1, <1>2, <1>3, <2>1
<1>8. \A i \in 1..Done' : declared'[i].suite \in Nodes'
  BY <1>2, <1>3, <1>6
<1> QED
  BY <1>2, <1>7, <1>8 DEF Declared

(* What keeps the properties and does not remove a node.                   *)
LEMMA KeptDeclared ==
    ASSUME Declared, phase # "register", Nodes \subseteq Nodes', deps' \subseteq deps,
           UNCHANGED <<declared, props>>
    PROVE  Declared' /\ Done' = Done
<1>1. Done' = Done
  BY DEF Done
<1> HIDE DEF Done
<1> QED
  BY <1>1 DEF Declared

LEMMA Registered ==
    ASSUME Declared, NEW p \in Props, Register(p)
    PROVE  Declared'
<1>1. declared \in Seq(Props) /\ declared' = Append(declared, p) /\ phase' = "register" /\ deps' = deps
  BY DEF Declared, Props, Register
<1>2. declared' \in Seq(Props)
  BY <1>1, AppendProperties
<1> QED
  BY <1>1, <1>2 DEF Declared, Props

LEMMA RegistersProps ==
    ASSUME NEW m \in Modules
    PROVE  /\ RegisterSequential(m) => \E p \in Props : Register(p)
           /\ RegisterTag(m) => \E p \in Props : Register(p)
           /\ RegisterTimeout(m) => \E p \in Props : Register(p)
           /\ \A dim \in Dimensions : RegisterMatrix(m, dim) => \E p \in Props : Register(p)
<1>1. /\ [suite |-> m, kind |-> "Sequential", dep |-> NoDep] \in Props
      /\ [suite |-> m, kind |-> "Tag", dep |-> NoDep] \in Props
      /\ [suite |-> m, kind |-> "Timeout", dep |-> NoDep] \in Props
      /\ \A dim \in Dimensions : [suite |-> m, kind |-> "Matrix", dep |-> dim] \in Props
  BY DEF Props
<1> QED
  BY <1>1 DEF RegisterSequential, RegisterTag, RegisterTimeout, RegisterMatrix

(* A new level has a lock of its own.                                      *)
LEMMA InsertedLock ==
    ASSUME NEW p \in Paths, Nodes' = Nodes \cup PathTo(p), lock = [n \in Nodes |-> n],
           lock' = Extended(lock, p, Itself(p))
    PROVE  lock' = [n \in Nodes' |-> n]
  BY DEF Extended, Itself

(* What the properties and the tests mark.                                 *)
PropMarks(done) == {declared[i].suite : i \in {j \in 1..done : declared[j].kind = "Sequential"}}
TestMarks(S) == {selected[x].module : x \in {y \in S : selected[y].bench}}

LEMMA PropPhases ==
    ASSUME Shape, Declared, Phases, AddProp
    PROVE  Phases'
<1>1. /\ Done \in Nat /\ Head(props) = declared[Done + 1] /\ Head(props).suite \in Paths
  BY NextProp DEF AddProp
<1> DEFINE s == Head(props).suite
<1>2. /\ declared' = declared /\ selected' = selected /\ queue' = queue
      /\ phase = "add" /\ phase' = "add"
      /\ inner' = NewInner(s) /\ lock' = Extended(lock, s, Itself(s))
      /\ isSequential' = IF Head(props).kind = "Sequential" THEN isSequential \cup {s}
                         ELSE isSequential
  BY DEF AddProp, inputs, Insert
<1>3. Nodes' = Nodes \cup PathTo(s)
  BY <1>1, <1>2, Grown
<1>4. lock = [n \in Nodes |-> n] /\ isSequential = Marks
  BY <1>2 DEF Phases
<1>5. lock' = [n \in Nodes' |-> n]
  BY <1>1, <1>2, <1>3, <1>4, InsertedLock
<1>6. Done' = Done + 1
  BY PropDone
<1>7. Marks = PropMarks(Done) \cup TestMarks(Added)
  BY DEF Marks, PropMarks, TestMarks
<1>8. Marks' = PropMarks(Done + 1) \cup TestMarks(Added)
  <2>1. Added' = Added
    BY <1>2 DEF Added
  <2> HIDE DEF Done, Added
  <2> QED
    BY <1>2, <1>6, <2>1 DEF Marks, PropMarks, TestMarks
<1>9. PropMarks(Done + 1) = IF declared[Done + 1].kind = "Sequential"
                            THEN PropMarks(Done) \cup {declared[Done + 1].suite} ELSE PropMarks(Done)
  <2> DEFINE d == Done
  <2>1. d \in Nat
    BY <1>1
  <2> HIDE DEF d
  <2>2. 1..d + 1 = 1..d \cup {d + 1}
    BY <2>1
  <2>3. PropMarks(d + 1) = IF declared[d + 1].kind = "Sequential"
                           THEN PropMarks(d) \cup {declared[d + 1].suite} ELSE PropMarks(d)
    BY <2>2 DEF PropMarks
  <2> QED
    BY <2>3 DEF d
<1>10. isSequential' = Marks'
  BY <1>1, <1>2, <1>4, <1>7, <1>8, <1>9
<1> QED
  BY <1>2, <1>5, <1>10 DEF Phases, Constructed

LEMMA DependencyPhases ==
    ASSUME Shape, Declared, Phases, NEW m \in deps, AddDependency(m)
    PROVE  Phases'
<1>1. m \in Paths
  BY ConstructionAssumption DEF Declared, Paths
<1>2. /\ declared' = declared /\ props' = props /\ selected' = selected /\ queue' = queue
      /\ phase = "add" /\ phase' = "add" /\ isSequential' = isSequential
      /\ inner' = NewInner(m) /\ lock' = Extended(lock, m, Itself(m))
  BY DEF AddDependency, inputs, Insert
<1>3. Nodes' = Nodes \cup PathTo(m)
  BY <1>1, <1>2, Grown
<1>4. lock = [n \in Nodes |-> n] /\ isSequential = Marks
  BY <1>2 DEF Phases
<1>5. lock' = [n \in Nodes' |-> n]
  BY <1>1, <1>2, <1>3, <1>4, InsertedLock
<1>6. Marks' = Marks
  BY <1>2 DEF Marks, Done, Added
<1> QED
  BY <1>2, <1>4, <1>5, <1>6 DEF Phases, Constructed

LEMMA TestPhases ==
    ASSUME Shape, Placed, Phases, SelectedTests, AddTest
    PROVE  Phases'
<1> DEFINE x == Len(queue)
           m == selected[x].module
<1>1. /\ x \in 1..Len(selected) /\ Head(queue) = x /\ Added' = Added \cup {x}
  BY TestPlaced
<1>2. m \in Paths
  BY <1>1, SelectedModules
<1>3. /\ declared' = declared /\ props' = props /\ selected' = selected
      /\ phase = "add" /\ phase' = "add"
      /\ inner' = NewInner(m) /\ lock' = Extended(lock, m, Itself(m))
      /\ isSequential' = IF selected[x].bench THEN isSequential \cup {m} ELSE isSequential
  BY <1>1 DEF AddTest, inputs, Insert
<1>4. Nodes' = Nodes \cup PathTo(m)
  BY <1>2, <1>3, Grown
<1>5. lock = [n \in Nodes |-> n] /\ isSequential = Marks
  BY <1>3 DEF Phases
<1>6. lock' = [n \in Nodes' |-> n]
  BY <1>2, <1>3, <1>4, <1>5, InsertedLock
<1>7. Done' = Done
  BY <1>3 DEF Done
<1>8. Marks = PropMarks(Done) \cup TestMarks(Added)
  BY DEF Marks, PropMarks, TestMarks
<1>9. Marks' = PropMarks(Done) \cup TestMarks(Added \cup {x})
  <2> HIDE DEF x, m
  <2> QED
    BY <1>1, <1>3, <1>7 DEF Marks, PropMarks, TestMarks
<1>10. TestMarks(Added \cup {x}) = IF selected[x].bench THEN TestMarks(Added) \cup {m} ELSE TestMarks(Added)
  <2> HIDE DEF x
  <2> QED
    BY DEF TestMarks
<1>11. isSequential' = Marks'
  BY <1>3, <1>5, <1>8, <1>9, <1>10
<1> QED
  BY <1>3, <1>6, <1>11 DEF Phases, Constructed

(* The tests are selected while the tree is empty.                         *)
LEMMA SelectedFirst ==
    ASSUME Shape, Placed, Counted, Declared, Phases, SelectedTests', SelectTests
    PROVE  Placed' /\ Counted' /\ Declared' /\ Phases' /\ (~Constructed)'
           /\ phase' \in {"add", "done"}
<1>1. /\ phase = "register" /\ queue' = Reversed(selected') /\ props' = declared
      /\ phase' = IF queue' = <<>> THEN "done" ELSE "add"
      /\ declared' = declared /\ deps' = deps /\ UNCHANGED tree
  BY DEF SelectTests, inputs
<1>2. /\ selected = <<>> /\ queue = <<>> /\ props = <<>> /\ Nodes = {Root} /\ isSequential = {}
      /\ lock = [n \in Nodes |-> n]
  BY <1>1 DEF Phases
<1>3. Added = {}
  <2>1. Len(queue) = 0 /\ Len(selected) = 0
    BY <1>2
  <2> QED
    BY <2>1 DEF Added
<1> DEFINE l == Len(selected')
<1>4. l \in Nat /\ DOMAIN selected' = 1..l /\ (l = 0 => selected' = <<>>)
  <2>1. selected' \in Seq(ToSet(selected'))
    BY DEF SelectedTests
  <2> HIDE DEF l
  <2>2. l \in Nat /\ DOMAIN selected' = 1..l /\ l = Len(selected')
    BY <2>1 DEF l
  <2>3. selected' # <<>> => l \in Nat \ {0}
    BY <2>1, <2>2, EmptySeq
  <2> QED
    BY <2>2, <2>3
<1>5. queue' = [i \in 1..l |-> l - i + 1] /\ Len(queue') = l
  <2>1. queue' = [i \in 1..l |-> l - i + 1]
    BY <1>1, <1>4 DEF Reversed
  <2>2. \A i \in 1..l : l - i + 1 \in Nat
    BY <1>4
  <2> HIDE DEF l
  <2>3. queue' \in [1..l -> Nat]
    BY <2>1, <2>2
  <2> QED
    BY <1>4, <2>1, <2>3
<1>6. Added' = {}
  <2>1. Added' = Len(queue') + 1..l
    BY DEF Added
  <2> HIDE DEF l
  <2> QED
    BY <1>4, <1>5, <2>1
<1>7. inner' = inner /\ tests' = tests /\ isSequential' = isSequential /\ remaining' = remaining
      /\ lock' = lock /\ Nodes' = Nodes
  BY <1>1 DEF tree, Nodes
<1>8. Placed'
  <2>1. tests \in [Nodes -> Seq({})]
    BY <1>3 DEF Placed
  <2>2. \A n \in Nodes : DOMAIN tests[n] = {}
    BY <2>1
  <2>3. tests' \in [Nodes' -> Seq(Added')] /\ \A n \in Nodes' : DOMAIN tests'[n] = {}
    BY <1>6, <1>7, <2>1, <2>2
  <2>4. /\ Len(queue') \in Nat /\ Len(queue') <= Len(selected')
        /\ queue' = [i \in 1..Len(queue') |-> Len(queue') - i + 1]
    <3> HIDE DEF l
    <3>1. Len(queue') \in Nat /\ Len(queue') <= l
      BY <1>4, <1>5
    <3> QED
      BY <1>5, <3>1 DEF l
  <2> QED
    BY <1>6, <2>3, <2>4 DEF Placed
<1>9. Counted'
  <2>1. \A n : Below(n) = {} /\ Below(n)' = {}
    BY <1>3, <1>6 DEF Below
  <2> QED
    BY <1>7, <2>1 DEF Counted
<1>10. Done' = 0
  BY <1>1 DEF Done, Declared
<1>11. Declared'
  <2>1. declared \in Seq(Props) /\ Len(declared) \in Nat
    BY DEF Declared, Props
  <2>2. SubSeq(declared, 1, Len(declared)) = declared
    BY <2>1, SubSeqFull
  <2>3. Done' \in 0..Len(declared') /\ props' = SubSeq(declared', Done' + 1, Len(declared'))
        /\ \A i \in 1..Done' : declared'[i].suite \in Nodes'
    BY <1>1, <1>10, <2>1, <2>2
  <2> QED
    BY <1>1, <2>3 DEF Declared
<1>12. Marks' = {}
  BY <1>6, <1>10 DEF Marks
<1>13. (~Constructed)' /\ phase' \in {"add", "done"}
  <2>1. CASE queue' = <<>>
    <3>1. l = 0
      BY <1>5, <2>1
    <3> QED
      BY <1>1, <1>4, <3>1 DEF Constructed
  <2>2. CASE queue' # <<>>
    BY <1>1, <2>2 DEF Constructed
  <2> QED
    BY <2>1, <2>2
<1>14. Phases'
  <2>1. lock' = [n \in Nodes' |-> n] /\ isSequential' = Marks'
    BY <1>2, <1>7, <1>12
  <2> QED
    BY <1>13, <2>1 DEF Phases
<1> QED
  BY <1>8, <1>9, <1>11, <1>13, <1>14

(* A set of numbers that is not empty has a least one.                     *)
LEMMA LeastNatural ==
    ASSUME NEW T, T \subseteq Nat, T # {}
    PROVE  \E x \in T : \A y \in T : x <= y
<1>1. \E x \in T : \A y \in T : ~ (<<y, x>> \in OpToRel(<, Nat))
  BY NatLessThanWellFounded, WFMin
<1>2. \A x, y \in T : <<y, x>> \in OpToRel(<, Nat) <=> y < x
  BY DEF OpToRel
<1>3. PICK x \in T : \A y \in T : ~ (<<y, x>> \in OpToRel(<, Nat))
  BY <1>1
<1>4. \A y \in T : ~ (y < x)
  BY <1>2, <1>3
<1>5. \A y \in T : x <= y
  BY <1>4
<1> QED
  BY <1>5

(* The levels of a path that are marked, and the first one of them.        *)
LEMMA MarkedLevels ==
    ASSUME NEW n \in Paths
    PROVE  /\ Built!IsSequential(n) <=> \E m \in PathTo(n) : m \in DeclaredSequential
           /\ Built!MarkedDepths(n) = {k \in 0..Len(n) : SubSeq(n, 1, k) \in DeclaredSequential}
           /\ Built!IsSequential(n) => /\ Built!TopDepth(n) \in Built!MarkedDepths(n)
                                       /\ \A j \in Built!MarkedDepths(n) : Built!TopDepth(n) <= j
<1>1. Built!MarkedDepths(n) = {k \in 0..Len(n) : SubSeq(n, 1, k) \in DeclaredSequential}
  BY DEF Built!MarkedDepths
<1>2. Built!IsSequential(n) <=> Built!MarkedDepths(n) # {}
  BY DEF Built!IsSequential
<1>3. Built!IsSequential(n) <=> \E m \in PathTo(n) : m \in DeclaredSequential
  BY <1>1, <1>2 DEF PathTo
<1>4. Len(n) \in Nat
  BY Levels
<1>5. ASSUME Built!IsSequential(n)
      PROVE  /\ Built!TopDepth(n) \in Built!MarkedDepths(n)
             /\ \A j \in Built!MarkedDepths(n) : Built!TopDepth(n) <= j
  <2>1. Built!MarkedDepths(n) \subseteq Nat /\ Built!MarkedDepths(n) # {}
    BY <1>1, <1>2, <1>4, <1>5
  <2>2. \E k \in Built!MarkedDepths(n) : \A j \in Built!MarkedDepths(n) : k <= j
    BY <2>1, LeastNatural
  <2> QED
    BY <2>2 DEF Built!TopDepth
<1> QED
  BY <1>1, <1>3, <1>5

(* A suite has the lock of its parent if that is sequential; otherwise it  *)
(* has its own, and is sequential if it is marked.                         *)
LEMMA LockFromParent ==
    ASSUME NEW n \in Paths
    PROVE  /\ Built!LockOf(n) \in PathTo(n)
           /\ n # Root /\ Built!IsSequential(Parent(n)) =>
                 Built!IsSequential(n) /\ Built!LockOf(n) = Built!LockOf(Parent(n))
           /\ n = Root \/ ~Built!IsSequential(Parent(n)) =>
                 Built!LockOf(n) = n /\ (Built!IsSequential(n) <=> n \in DeclaredSequential)
<1>1. Len(n) \in Nat /\ SubSeq(n, 1, Len(n)) = n
  BY Levels
<1>2. ASSUME Built!IsSequential(n)
      PROVE  Built!TopDepth(n) \in 0..Len(n) /\ Built!LockOf(n) = SubSeq(n, 1, Built!TopDepth(n))
  BY <1>2, MarkedLevels DEF Built!LockOf
<1>3. ASSUME ~Built!IsSequential(n) PROVE Built!LockOf(n) = n
  BY <1>3 DEF Built!LockOf
<1>4. Built!LockOf(n) \in PathTo(n)
  <2>1. CASE Built!IsSequential(n)
    BY <1>2, <2>1 DEF PathTo
  <2>2. CASE ~Built!IsSequential(n)
    BY <1>3, <2>2, PathOrder
  <2> QED
    BY <2>1, <2>2
<1>5. ASSUME n # Root, Built!IsSequential(Parent(n))
      PROVE  Built!IsSequential(n) /\ Built!LockOf(n) = Built!LockOf(Parent(n))
  <2> DEFINE p == Parent(n)
             k == Built!TopDepth(p)
  <2>1. /\ p \in Paths /\ p \in PathTo(n) /\ Len(p) = Len(n) - 1 /\ Len(n) >= 1
        /\ PathTo(p) \subseteq PathTo(n)
    BY <1>5, Above
  <2>2. Built!IsSequential(n)
    BY <1>5, <2>1, MarkedLevels
  <2>3. \A i \in 0..Len(p) : i \in 0..Len(n) /\ SubSeq(p, 1, i) = SubSeq(n, 1, i)
    <3>1. Len(n) - 1 \in 0..Len(n) /\ p = SubSeq(n, 1, Len(n) - 1)
      BY <1>1, <2>1 DEF Parent
    <3>2. \A i \in 0..Len(n) - 1 : SubSeq(SubSeq(n, 1, Len(n) - 1), 1, i) = SubSeq(n, 1, i)
      BY <3>1, SubPaths
    <3> HIDE DEF p
    <3> QED
      BY <1>1, <2>1, <3>1, <3>2
  <2>4. k \in Built!MarkedDepths(p) /\ \A j \in Built!MarkedDepths(p) : k <= j
    BY <1>5, <2>1, MarkedLevels
  <2>5. k \in 0..Len(p) /\ SubSeq(p, 1, k) \in DeclaredSequential
    BY <2>1, <2>4, MarkedLevels
  <2>6. k \in Built!MarkedDepths(n)
    BY <2>3, <2>5, MarkedLevels
  <2>7. ASSUME NEW j \in Built!MarkedDepths(n) PROVE k <= j
    <3>1. j \in 0..Len(n) /\ SubSeq(n, 1, j) \in DeclaredSequential
      BY MarkedLevels
    <3>2. CASE j \in 0..Len(p)
      <4>1. j \in Built!MarkedDepths(p)
        BY <2>1, <2>3, <3>1, <3>2, MarkedLevels
      <4> QED
        BY <2>4, <4>1
    <3>3. CASE j \notin 0..Len(p)
      <4> HIDE DEF k, p
      <4> QED
        BY <1>1, <2>1, <2>5, <3>1, <3>3
    <3> QED
      BY <3>2, <3>3
  <2>8. Built!TopDepth(n) \in Built!MarkedDepths(n) /\ \A j \in Built!MarkedDepths(n) : Built!TopDepth(n) <= j
    BY <2>2, MarkedLevels
  <2>9. k = Built!TopDepth(n)
    <3>1. k <= Built!TopDepth(n) /\ Built!TopDepth(n) <= k
      BY <2>6, <2>7, <2>8
    <3>2. Built!TopDepth(n) \in Nat /\ k \in Nat
      BY <1>1, <2>6, <2>8, MarkedLevels
    <3> HIDE DEF k
    <3> QED
      BY <3>1, <3>2
  <2>10. Built!LockOf(p) = SubSeq(p, 1, k)
    BY <1>5 DEF Built!LockOf
  <2> HIDE DEF k
  <2> QED
    BY <1>2, <2>2, <2>3, <2>5, <2>9, <2>10
<1>6. ASSUME n = Root \/ ~Built!IsSequential(Parent(n))
      PROVE  Built!LockOf(n) = n /\ (Built!IsSequential(n) <=> n \in DeclaredSequential)
  <2>1. ASSUME NEW m \in PathTo(n), m # n PROVE m \notin DeclaredSequential
    <3>1. n # Root
      <4>1. n = Root => PathTo(n) = {Root}
        <5>1. \A q \in PathTo(n) : q \in Paths /\ Len(q) \in 0..Len(n)
          BY InPath
        <5> QED
          BY <5>1, RootLength, PathOrder
      <4> QED
        BY <2>1, <4>1
    <3>2. PathTo(n) = PathTo(Parent(n)) \cup {n} /\ Parent(n) \in Paths
      BY <3>1, Above
    <3> QED
      BY <1>6, <2>1, <3>1, <3>2, MarkedLevels
  <2>2. Built!IsSequential(n) <=> n \in DeclaredSequential
    BY <2>1, MarkedLevels, PathOrder
  <2>3. ASSUME Built!IsSequential(n) PROVE Built!LockOf(n) = n
    <3>1. Built!TopDepth(n) \in 0..Len(n) /\ SubSeq(n, 1, Built!TopDepth(n)) \in DeclaredSequential
      BY <2>3, MarkedLevels
    <3>2. SubSeq(n, 1, Built!TopDepth(n)) \in PathTo(n)
      BY <3>1 DEF PathTo
    <3> QED
      BY <1>2, <2>1, <2>3, <3>1, <3>2
  <2> QED
    BY <1>3, <2>2, <2>3
<1> QED
  BY <1>4, <1>5, <1>6

(* The same for the suites of the tree.                                    *)
LEMMA LocksOfSuites ==
    ASSUME Shape, NEW n \in Nodes
    PROVE  /\ n \in Paths /\ n \in PathTo(n) /\ LocksDue[n] \in Nodes /\ LocksDue[n] # NoLock
           /\ n # Root => Parent(n) \in Nodes
           /\ n # Root /\ Parent(n) \in InSequential =>
                 n \in InSequential /\ LocksDue[n] = LocksDue[Parent(n)]
           /\ ~(n # Root /\ Parent(n) \in InSequential) =>
                 LocksDue[n] = n /\ (n \in InSequential <=> n \in DeclaredSequential)
<1>1. n \in Paths /\ PathTo(n) \subseteq Nodes /\ Nodes \subseteq Paths /\ NoLock \notin Paths
  BY ConstructionAssumption DEF Shape, Paths
<1>2. n # Root => Parent(n) \in Nodes
  BY <1>1, Above
<1>3. /\ LocksDue[n] = Built!LockOf(n) /\ (n \in InSequential <=> Built!IsSequential(n))
      /\ n # Root => /\ LocksDue[Parent(n)] = Built!LockOf(Parent(n))
                     /\ (Parent(n) \in InSequential <=> Built!IsSequential(Parent(n)))
  BY <1>2 DEF LocksDue, InSequential
<1>4. LocksDue[n] \in Nodes /\ LocksDue[n] # NoLock
  BY <1>1, <1>3, LockFromParent
<1>5. n \in PathTo(n)
  BY <1>1, PathOrder
<1> QED
  BY <1>1, <1>2, <1>3, <1>4, <1>5, LockFromParent

(* Handing the locks down changes nothing the goal is stated with.         *)
LEMMA SameGoal ==
    ASSUME UNCHANGED <<declared, selected, inner, tests>>
    PROVE  /\ DeclaredSequential' = DeclaredSequential
           /\ InSequential' = InSequential
           /\ LocksDue' = LocksDue
<1>1. DeclaredSequential' = DeclaredSequential /\ Nodes' = Nodes
  BY DEF DeclaredSequential, Inserted, Nodes
<1>2. \A n : Built!MarkedDepths(n)' = Built!MarkedDepths(n)
  BY <1>1 DEF Built!MarkedDepths
<1>3. \A n : Built!IsSequential(n)' <=> Built!IsSequential(n)
  BY <1>2 DEF Built!IsSequential
<1>4. ASSUME NEW n PROVE Built!LockOf(n)' = Built!LockOf(n)
  <2>1. ASSUME NEW S, NEW T, S = T
        PROVE  (CHOOSE k \in S : \A j \in S : k <= j) = (CHOOSE k \in T : \A j \in T : k <= j)
    BY <2>1
  <2>2. Built!TopDepth(n)' = Built!TopDepth(n)
    BY <1>2, <2>1 DEF Built!TopDepth
  <2> QED
    BY <1>3, <2>2 DEF Built!LockOf
<1> QED
  BY <1>1, <1>3, <1>4 DEF InSequential, LocksDue

(* The tests in the vectors are those that were added.                     *)
LEMMA TestsInTree == ASSUME Placed PROVE Inserted = Added
<1>1. ASSUME NEW n \in Nodes PROVE ToSet(tests[n]) \subseteq Added
  <2>1. tests[n] \in Seq(Added)
    BY DEF Placed
  <2> QED
    BY <2>1 DEF ToSet
<1>2. ASSUME NEW x \in Added PROVE \E n \in Nodes : x \in ToSet(tests[n])
  <2>1. selected[x].module \in Nodes
        /\ \E i \in DOMAIN tests[selected[x].module] : tests[selected[x].module][i] = x
    BY DEF Placed
  <2>2. x \in ToSet(tests[selected[x].module])
    BY <2>1 DEF ToSet
  <2> QED
    BY <2>1, <2>2
<1> QED
  BY <1>1, <1>2 DEF Inserted

(* When nothing is left to be added, everything that is marked is in the   *)
(* tree, and only that.                                                    *)
LEMMA AllMarked ==
    ASSUME Shape, Placed, Declared, SelectedTests, phase # "register", queue = <<>>, props = <<>>
    PROVE  /\ Inserted = 1..Len(selected) /\ Added = 1..Len(selected)
           /\ DeclaredSequential = Marks
           /\ DeclaredSequential \subseteq Nodes
<1>1. Len(queue) = 0 /\ Len(props) = 0
  BY EmptySeq
<1>2. Added = 1..Len(selected) /\ Inserted = 1..Len(selected)
  <2>1. Len(queue) + 1 = 1
    BY <1>1
  <2> QED
    BY <2>1, TestsInTree DEF Added
<1>3. declared \in Seq(Props) /\ Len(declared) \in Nat
  BY DEF Declared, Props
<1>4. Done = Len(declared)
  BY <1>1, <1>3 DEF Done
<1>5. DOMAIN declared = 1..Len(declared)
  BY <1>3
<1>6. {p.suite : p \in {r \in ToSet(declared) : r.kind = "Sequential"}} = PropMarks(Len(declared))
  BY <1>5 DEF ToSet, PropMarks
<1>7. DeclaredSequential = PropMarks(Len(declared)) \cup TestMarks(Added)
  BY <1>2, <1>6 DEF DeclaredSequential, TestMarks
<1>8. Marks = PropMarks(Len(declared)) \cup TestMarks(Added)
  BY <1>4 DEF Marks, PropMarks, TestMarks
<1>9. PropMarks(Len(declared)) \subseteq Nodes
  BY <1>4 DEF Declared, PropMarks
<1>10. TestMarks(Added) \subseteq Nodes
  BY DEF Placed, TestMarks
<1> QED
  BY <1>2, <1>7, <1>8, <1>9, <1>10

Call == [node : Nodes, inherited : Nodes \cup {NoLock}]

LEMMA PropagationStarts ==
    ASSUME Shape, Placed, Declared, Phases, SelectedTests, StartPropagation
    PROVE  CallsSeq' /\ HandedDown'
<1> DEFINE c == [node |-> Root, inherited |-> NoLock]
<1>1. /\ phase = "add" /\ phase' = "propagate" /\ queue = <<>> /\ props = <<>>
      /\ calls' = <<c>>
      /\ UNCHANGED <<declared, selected, inner, tests>>
      /\ lock' = lock /\ isSequential' = isSequential /\ Nodes' = Nodes
  BY DEF StartPropagation, inputs, tree, Nodes
<1>2. lock = [n \in Nodes |-> n] /\ isSequential = Marks
  BY <1>1 DEF Phases
<1>3. DeclaredSequential = Marks /\ DeclaredSequential \subseteq Nodes
  BY <1>1, AllMarked
<1>4. DeclaredSequential' = DeclaredSequential
  BY <1>1, SameGoal
<1>5. Root \in Nodes
  BY DEF Shape
<1>6. /\ calls' \in Seq(Call) /\ DOMAIN calls' = {1} /\ calls'[1] = c
      /\ c.node = Root /\ c.inherited = NoLock
  <2>1. c \in Call
    BY <1>5 DEF Call
  <2>2. c.node = Root /\ c.inherited = NoLock
    OBVIOUS
  <2> HIDE DEF c
  <2>3. calls' \in Seq(Call) /\ Len(calls') = 1 /\ calls'[1] = c
    BY <1>1, <2>1
  <2>4. DOMAIN calls' = 1..1
    BY <2>3
  <2> QED
    BY <2>2, <2>3, <2>4
<1>7. CallsSeq'
  BY <1>1, <1>6 DEF CallsSeq, Call
<1> HIDE DEF c
<1>8. ASSUME NEW n \in Nodes PROVE Pending(n)'
  <2>1. n \in Paths
    BY DEF Shape, Paths
  <2>2. Root \in PathTo(n)
    BY <2>1, PathOrder
  <2> QED
    BY <1>6, <2>2 DEF Pending
<1>9. HandedDown'
  <2>1. lock' \in [Nodes' -> Nodes'] /\ isSequential' \subseteq Nodes'
    BY <1>1, <1>2, <1>3
  <2>2. \A i \in DOMAIN calls' :
           /\ calls'[i].node \in Nodes'
           /\ calls'[i].inherited =
                 IF calls'[i].node # Root /\ Parent(calls'[i].node) \in InSequential'
                 THEN LocksDue'[Parent(calls'[i].node)] ELSE NoLock
    BY <1>1, <1>5, <1>6
  <2>3. \A i, j \in DOMAIN calls' : calls'[i].node \in PathTo(calls'[j].node) => i = j
    BY <1>6
  <2>4. \A n \in Nodes' : /\ Pending(n)' /\ lock'[n] = n
                          /\ (n \in isSequential' <=> n \in DeclaredSequential')
    BY <1>1, <1>2, <1>3, <1>4, <1>8
  <2>5. phase' # "done"
    BY <1>1
  <2> QED
    BY <2>1, <2>2, <2>3, <2>4, <2>5 DEF HandedDown
<1> QED
  BY <1>7, <1>9

(* A call of propagate_sequential replaces itself by the calls for the     *)
(* children.                                                               *)
LEMMA CallsReplaced ==
    ASSUME Shape, CallsSeq, HandedDown, phase = "propagate", Propagate
    PROVE  LET n == Head(calls).node
               k == Len(inner[n])
               t == Len(calls) - 1
               due == IF n \in InSequential THEN LocksDue[n] ELSE NoLock
           IN  /\ n \in Nodes /\ k \in Nat /\ t \in Nat /\ DOMAIN inner[n] = 1..k
               /\ DOMAIN calls = 1..t + 1 /\ calls[1].node = n
               /\ lock' = [lock EXCEPT ![n] = LocksDue[n]]
               /\ \A m \in Nodes : m \in isSequential' <=>
                     IF m = n THEN n \in InSequential ELSE m \in isSequential
               /\ isSequential' \subseteq Nodes
               /\ CallsSeq' /\ DOMAIN calls' = 1..k + t
               /\ \A i \in 1..k : calls'[i] = [node |-> inner[n][i], inherited |-> due]
               /\ \A i \in 1..t : calls'[k + i] = calls[i + 1]
<1> DEFINE n == Head(calls).node
           k == Len(inner[n])
           t == Len(calls) - 1
           due == IF n \in InSequential THEN LocksDue[n] ELSE NoLock
           h == Head(calls)
           l == Inherited(n, h.inherited)
<1>1. calls # <<>> /\ calls \in Seq(Call) /\ Nodes' = Nodes
  BY DEF Propagate, CallsSeq, Call, Nodes
<1>2. h = calls[1] /\ t \in Nat /\ DOMAIN calls = 1..t + 1 /\ h \in Call
  <2>1. Len(calls) \in Nat \ {0}
    BY <1>1, EmptySeq
  <2>2. h = calls[1] /\ DOMAIN calls = 1..Len(calls)
    BY <1>1, <2>1
  <2>3. h \in Call
    BY <1>1, HeadTailProperties
  <2>4. Len(calls) = t + 1
    BY <2>1
  <2> QED
    BY <2>1, <2>2, <2>3, <2>4
<1>3. n \in Nodes /\ n = calls[1].node
  BY <1>2 DEF Call
<1>4. inner[n] \in Seq(Nodes) /\ k \in Nat /\ DOMAIN inner[n] = 1..k
  BY <1>3 DEF Shape
<1>5. 1 \in DOMAIN calls
  <2> HIDE DEF t
  <2> QED
    BY <1>2
<1>6. h.inherited = IF n # Root /\ Parent(n) \in InSequential THEN LocksDue[Parent(n)] ELSE NoLock
  BY <1>2, <1>3, <1>5 DEF HandedDown
<1>7. n \in PathTo(n)
  BY <1>3, LocksOfSuites
<1>8. Pending(n)
  BY <1>3, <1>5, <1>7 DEF Pending
<1>9. lock[n] = n /\ (n \in isSequential <=> n \in DeclaredSequential) /\ isSequential \subseteq Nodes
  BY <1>3, <1>8 DEF HandedDown
<1>10. /\ l = LocksDue[n] /\ l \in Nodes
       /\ (h.inherited = NoLock => (n \in isSequential <=> n \in InSequential))
       /\ (h.inherited # NoLock => n \in InSequential)
  <2>1. CASE n # Root /\ Parent(n) \in InSequential
    <3>1. Parent(n) \in Nodes
      BY <1>3, <2>1, LocksOfSuites
    <3>2. LocksDue[Parent(n)] # NoLock
      BY <3>1, LocksOfSuites
    <3>3. n \in InSequential /\ LocksDue[n] = LocksDue[Parent(n)] /\ LocksDue[n] \in Nodes
      BY <1>3, <2>1, LocksOfSuites
    <3> QED
      BY <1>6, <2>1, <3>2, <3>3 DEF Inherited
  <2>2. CASE ~(n # Root /\ Parent(n) \in InSequential)
    <3>1. LocksDue[n] = n /\ (n \in InSequential <=> n \in DeclaredSequential)
      BY <1>3, <2>2, LocksOfSuites
    <3>2. h.inherited = NoLock
      BY <1>6, <2>2
    <3> QED
      BY <1>3, <1>9, <3>1, <3>2 DEF Inherited
  <2> QED
    BY <2>1, <2>2
<1>11. /\ lock' = [lock EXCEPT ![n] = l]
       /\ isSequential' = IF h.inherited = NoLock THEN isSequential ELSE isSequential \cup {n}
       /\ calls' = [i \in DOMAIN inner[n] |->
                      [node |-> inner[n][i], inherited |-> IF n \in isSequential' THEN l ELSE NoLock]]
                   \o Tail(calls)
  BY DEF Propagate
<1>12. \A m \in Nodes : m \in isSequential' <=> IF m = n THEN n \in InSequential ELSE m \in isSequential
  <2>1. CASE h.inherited = NoLock
    BY <1>10, <1>11, <2>1
  <2>2. CASE h.inherited # NoLock
    BY <1>10, <1>11, <2>2
  <2> QED
    BY <2>1, <2>2
<1>13. isSequential' \subseteq Nodes
  BY <1>3, <1>9, <1>11
<1>14. (IF n \in isSequential' THEN l ELSE NoLock) = due
  BY <1>3, <1>10, <1>12
<1> DEFINE new == [i \in 1..k |-> [node |-> inner[n][i], inherited |-> due]]
<1>15. calls' = new \o Tail(calls)
  BY <1>4, <1>11, <1>14
<1>16. new \in Seq(Call) /\ Len(new) = k
  <2>1. ASSUME NEW i \in 1..k PROVE [node |-> inner[n][i], inherited |-> due] \in Call
    <3>1. inner[n][i] \in Nodes
      BY <1>4
    <3>2. due \in Nodes \cup {NoLock}
      BY <1>10
    <3> QED
      BY <3>1, <3>2 DEF Call
  <2> HIDE DEF k, due, n
  <2>2. new \in [1..k -> Call]
    BY <2>1
  <2> QED
    BY <1>4, <2>2
<1>17. Tail(calls) \in Seq(Call) /\ Len(Tail(calls)) = t /\ \A i \in 1..t : Tail(calls)[i] = calls[i + 1]
  BY <1>1, HeadTailProperties
<1>18. /\ calls' \in Seq(Call) /\ DOMAIN calls' = 1..k + t
       /\ \A i \in 1..k : calls'[i] = new[i]
       /\ \A i \in 1..t : calls'[k + i] = Tail(calls)[i]
  <2> HIDE DEF new, k, t
  <2>1. /\ calls' \in Seq(Call) /\ Len(calls') = k + t
        /\ \A i \in 1..k + t : calls'[i] = IF i <= k THEN new[i] ELSE Tail(calls)[i - k]
    BY <1>15, <1>16, <1>17, ConcatProperties
  <2>2. DOMAIN calls' = 1..k + t
    BY <2>1
  <2>3. ASSUME NEW i \in 1..k PROVE calls'[i] = new[i]
    <3>1. i \in 1..k + t /\ i <= k
      BY <1>2, <1>4
    <3> QED
      BY <2>1, <3>1
  <2>4. ASSUME NEW i \in 1..t PROVE calls'[k + i] = Tail(calls)[i]
    <3>1. k + i \in 1..k + t /\ ~(k + i <= k) /\ k + i - k = i
      BY <1>2, <1>4
    <3>2. ASSUME NEW q \in 1..k + t, ~(q <= k) PROVE calls'[q] = Tail(calls)[q - k]
      BY <2>1, <3>2
    <3>3. ASSUME NEW q \in 1..k + t, q = k + i PROVE calls'[q] = Tail(calls)[i]
      <4>1. ~(q <= k) /\ q - k = i
        BY <1>2, <1>4, <3>3
      <4> QED
        BY <3>2, <4>1
    <3> QED
      BY <3>1, <3>3
  <2> QED
    BY <2>1, <2>2, <2>3, <2>4
<1>19. CallsSeq'
  BY <1>1, <1>18 DEF CallsSeq, Call
<1>20. \A i \in 1..k : calls'[i] = [node |-> inner[n][i], inherited |-> due]
  BY <1>18
<1>21. \A i \in 1..t : calls'[k + i] = calls[i + 1]
  BY <1>17, <1>18
<1> QED
  BY <1>2, <1>3, <1>4, <1>10, <1>11, <1>12, <1>13, <1>18, <1>19, <1>20, <1>21

LEMMA PropagationGoesOn ==
    ASSUME Shape, CallsSeq, HandedDown, Propagate
    PROVE  CallsSeq' /\ HandedDown'
<1> DEFINE n == Head(calls).node
           k == Len(inner[n])
           t == Len(calls) - 1
           due == IF n \in InSequential THEN LocksDue[n] ELSE NoLock
<1>1. /\ phase = "propagate" /\ phase' = "propagate"
      /\ UNCHANGED <<declared, selected, inner, tests>> /\ Nodes' = Nodes
  BY DEF Propagate, inputs, Nodes
<1>2. /\ n \in Nodes /\ k \in Nat /\ t \in Nat /\ DOMAIN inner[n] = 1..k
      /\ DOMAIN calls = 1..t + 1 /\ calls[1].node = n
      /\ lock' = [lock EXCEPT ![n] = LocksDue[n]]
      /\ \A m \in Nodes : m \in isSequential' <=>
            IF m = n THEN n \in InSequential ELSE m \in isSequential
      /\ isSequential' \subseteq Nodes
      /\ CallsSeq' /\ DOMAIN calls' = 1..k + t
      /\ \A i \in 1..k : calls'[i] = [node |-> inner[n][i], inherited |-> due]
      /\ \A i \in 1..t : calls'[k + i] = calls[i + 1]
  BY <1>1, CallsReplaced
<1> HIDE DEF n, k, t
<1>3. DeclaredSequential' = DeclaredSequential /\ InSequential' = InSequential /\ LocksDue' = LocksDue
  BY <1>1, SameGoal
<1>4. /\ lock \in [Nodes -> Nodes]
      /\ \A i \in DOMAIN calls :
            /\ calls[i].node \in Nodes
            /\ calls[i].inherited =
                  IF calls[i].node # Root /\ Parent(calls[i].node) \in InSequential
                  THEN LocksDue[Parent(calls[i].node)] ELSE NoLock
      /\ \A i, j \in DOMAIN calls : calls[i].node \in PathTo(calls[j].node) => i = j
      /\ \A m \in Nodes :
            IF Pending(m)
            THEN lock[m] = m /\ (m \in isSequential <=> m \in DeclaredSequential)
            ELSE lock[m] = LocksDue[m] /\ (m \in isSequential <=> m \in InSequential)
  BY <1>1 DEF HandedDown
<1>5. n \in Paths /\ LocksDue[n] \in Nodes /\ n \in PathTo(n)
  BY <1>2, LocksOfSuites
(* The calls for the children.                                             *)
<1>6. ASSUME NEW i \in 1..k
      PROVE  /\ inner[n][i] \in Nodes /\ inner[n][i] \in Paths /\ inner[n][i] # Root
             /\ Parent(inner[n][i]) = n /\ Len(inner[n][i]) = Len(n) + 1
             /\ PathTo(inner[n][i]) = PathTo(n) \cup {inner[n][i]}
             /\ inner[n][i] \notin PathTo(n) /\ n \in PathTo(inner[n][i])
             /\ calls'[i].node = inner[n][i] /\ calls'[i].inherited = due
  <2> DEFINE c == inner[n][i]
  <2>1. inner[n] \in Seq(Nodes) /\ i \in DOMAIN inner[n]
    BY <1>2 DEF Shape
  <2>2. c \in Nodes /\ c # Root /\ Parent(c) = n
    BY <1>2, <2>1 DEF Shape
  <2>3. c \in Paths
    BY <2>2 DEF Shape, Paths
  <2>4. /\ Len(c) >= 1 /\ Len(n) = Len(c) - 1 /\ PathTo(c) = PathTo(n) \cup {c}
        /\ n \in PathTo(c)
    BY <2>2, <2>3, Above
  <2>5. Len(c) \in Nat /\ Len(n) \in Nat
    BY <1>5, <2>3, Levels
  <2>6. c \notin PathTo(n)
    <3>1. \A q \in PathTo(n) : Len(q) \in 0..Len(n)
      BY <1>5, InPath
    <3> HIDE DEF c
    <3>2. Len(c) \notin 0..Len(n)
      BY <2>4, <2>5
    <3> QED
      BY <3>1, <3>2
  <2>7. Len(c) = Len(n) + 1
    <3> HIDE DEF c
    <3> QED
      BY <2>4, <2>5
  <2>8. calls'[i].node = c /\ calls'[i].inherited = due
    <3>1. calls'[i] = [node |-> c, inherited |-> due]
      BY <1>2
    <3> HIDE DEF c, due
    <3> QED
      BY <3>1
  <2> QED
    BY <2>2, <2>3, <2>4, <2>6, <2>7, <2>8
(* The calls that waited before.                                           *)
<1>7. ASSUME NEW i \in 1..t
      PROVE  /\ i + 1 \in DOMAIN calls /\ i + 1 # 1 /\ calls'[k + i] = calls[i + 1]
             /\ calls[i + 1].node \in Nodes
             /\ n \notin PathTo(calls[i + 1].node) /\ calls[i + 1].node \notin PathTo(n)
  <2>1. i + 1 \in DOMAIN calls /\ i + 1 # 1 /\ 1 \in DOMAIN calls
    BY <1>2
  <2> QED
    BY <1>2, <1>4, <2>1
<1>8. ASSUME NEW i \in DOMAIN calls'
      PROVE  i \in 1..k \/ \E j \in 1..t : i = k + j
  <2>1. i \in 1..k + t
    BY <1>2
  <2>2. CASE i \in 1..k
    BY <2>2
  <2>3. CASE i \notin 1..k
    <3>1. i - k \in 1..t /\ i = k + (i - k)
      BY <1>2, <2>1, <2>3
    <3> QED
      BY <3>1
  <2> QED
    BY <2>2, <2>3
<1>9. ASSUME NEW i \in DOMAIN calls'
      PROVE  /\ calls'[i].node \in Nodes
             /\ calls'[i].inherited =
                   IF calls'[i].node # Root /\ Parent(calls'[i].node) \in InSequential
                   THEN LocksDue[Parent(calls'[i].node)] ELSE NoLock
  <2>1. CASE i \in 1..k
    BY <1>6, <2>1
  <2>2. ASSUME NEW j \in 1..t, i = k + j
        PROVE  /\ calls'[i].node \in Nodes
               /\ calls'[i].inherited =
                     IF calls'[i].node # Root /\ Parent(calls'[i].node) \in InSequential
                     THEN LocksDue[Parent(calls'[i].node)] ELSE NoLock
    BY <1>4, <1>7, <2>2
  <2> QED
    BY <1>8, <2>1, <2>2
<1>10. ASSUME NEW i \in DOMAIN calls', NEW j \in DOMAIN calls',
              calls'[i].node \in PathTo(calls'[j].node)
       PROVE  i = j
  <2>1. CASE i \in 1..k /\ j \in 1..k
    <3>1. inner[n][i] \in PathTo(n) \cup {inner[n][j]}
      BY <1>6, <1>10, <2>1
    <3>2. inner[n][i] = inner[n][j]
      BY <1>6, <2>1, <3>1
    <3>3. \A a, b \in DOMAIN inner[n] : inner[n][a] = inner[n][b] => a = b
      BY <1>2 DEF Shape
    <3> QED
      BY <1>2, <2>1, <3>2, <3>3
  <2>2. ASSUME i \in 1..k, NEW b \in 1..t, j = k + b PROVE FALSE
    <3>1. calls[b + 1].node \in Paths /\ inner[n][i] \in PathTo(calls[b + 1].node)
      BY <1>6, <1>7, <1>10, <2>2 DEF Shape, Paths
    <3>2. n \in PathTo(calls[b + 1].node)
      BY <1>6, <2>2, <3>1, PathOrder
    <3> QED
      BY <1>7, <2>2, <3>2
  <2>3. ASSUME NEW a \in 1..t, i = k + a, j \in 1..k PROVE FALSE
    <3>1. calls[a + 1].node \in PathTo(n) \cup {inner[n][j]}
      BY <1>6, <1>7, <1>10, <2>3
    <3>2. calls[a + 1].node = inner[n][j]
      BY <1>7, <2>3, <3>1
    <3> QED
      BY <1>6, <1>7, <2>3, <3>2
  <2>4. ASSUME NEW a \in 1..t, i = k + a, NEW b \in 1..t, j = k + b PROVE i = j
    <3>1. a + 1 = b + 1
      BY <1>4, <1>7, <1>10, <2>4
    <3> QED
      BY <2>4, <3>1
  <2> QED
    BY <1>8, <2>1, <2>2, <2>3, <2>4
<1>11. ASSUME NEW m \in Nodes
       PROVE  (\E i \in DOMAIN calls' : calls'[i].node \in PathTo(m)) <=> m # n /\ Pending(m)
  <2>1. m \in Paths /\ PathTo(m) \subseteq Nodes
    BY DEF Shape, Paths
  <2>2. ASSUME NEW i \in DOMAIN calls', calls'[i].node \in PathTo(m)
        PROVE  m # n /\ Pending(m)
    <3>1. ASSUME i \in 1..k PROVE m # n /\ Pending(m)
      <4>1. inner[n][i] \in PathTo(m) /\ m # n
        BY <1>6, <2>2, <3>1
      <4>2. n \in PathTo(m)
        BY <1>6, <2>1, <3>1, <4>1, PathOrder
      <4>3. 1 \in DOMAIN calls
        BY <1>2
      <4> QED
        BY <1>2, <4>1, <4>2, <4>3 DEF Pending
    <3>2. ASSUME NEW j \in 1..t, i = k + j PROVE m # n /\ Pending(m)
      BY <1>7, <2>2, <3>2 DEF Pending
    <3> QED
      BY <1>8, <3>1, <3>2
  <2>3. ASSUME m # n, Pending(m) PROVE \E i \in DOMAIN calls' : calls'[i].node \in PathTo(m)
    <3>1. PICK a \in DOMAIN calls : calls[a].node \in PathTo(m)
      BY <2>3 DEF Pending
    <3>2. CASE a = 1
      <4>1. n \in PathTo(m)
        BY <1>2, <3>1, <3>2
      <4>2. /\ LevelAfter(m, n) \in PathTo(m) /\ LevelAfter(m, n) # Root /\ Parent(LevelAfter(m, n)) = n
        BY <2>1, <2>3, <4>1, NextLevel
      <4>3. PICK i \in DOMAIN inner[n] : inner[n][i] = LevelAfter(m, n)
        BY <2>1, <4>2 DEF Shape
      <4>4. i \in 1..k /\ i \in DOMAIN calls'
        BY <1>2, <4>3
      <4> QED
        BY <1>6, <4>2, <4>3, <4>4
    <3>3. CASE a # 1
      <4>1. a - 1 \in 1..t /\ a - 1 + 1 = a /\ k + (a - 1) \in DOMAIN calls'
        BY <1>2, <3>3
      <4>2. calls'[k + (a - 1)] = calls[a]
        BY <1>7, <4>1
      <4> QED
        BY <3>1, <4>1, <4>2
    <3> QED
      BY <3>2, <3>3
  <2> QED
    BY <2>2, <2>3
<1>12. \A m \in Nodes : Pending(m)' <=> m # n /\ Pending(m)
  BY <1>11 DEF Pending
<1>13. ASSUME NEW m \in Nodes
       PROVE  IF Pending(m)'
              THEN lock'[m] = m /\ (m \in isSequential' <=> m \in DeclaredSequential)
              ELSE lock'[m] = LocksDue[m] /\ (m \in isSequential' <=> m \in InSequential)
  <2>1. CASE m = n
    BY <1>2, <1>4, <1>12, <2>1
  <2>2. CASE m # n
    <3>1. lock'[m] = lock[m] /\ (m \in isSequential' <=> m \in isSequential) /\ (Pending(m)' <=> Pending(m))
      BY <1>2, <1>4, <1>12, <2>2
    <3> QED
      BY <1>4, <3>1
  <2> QED
    BY <2>1, <2>2
<1>14. lock' \in [Nodes -> Nodes]
  BY <1>2, <1>4, <1>5
<1>15. HandedDown'
  <2>1. lock' \in [Nodes' -> Nodes'] /\ isSequential' \subseteq Nodes'
    BY <1>1, <1>2, <1>14
  <2>2. \A i \in DOMAIN calls' :
           /\ calls'[i].node \in Nodes'
           /\ calls'[i].inherited =
                 IF calls'[i].node # Root /\ Parent(calls'[i].node) \in InSequential'
                 THEN LocksDue'[Parent(calls'[i].node)] ELSE NoLock
    BY <1>1, <1>3, <1>9
  <2>3. \A i, j \in DOMAIN calls' : calls'[i].node \in PathTo(calls'[j].node) => i = j
    BY <1>10
  <2>4. \A m \in Nodes' :
           IF Pending(m)'
           THEN lock'[m] = m /\ (m \in isSequential' <=> m \in DeclaredSequential')
           ELSE lock'[m] = LocksDue'[m] /\ (m \in isSequential' <=> m \in InSequential')
    BY <1>1, <1>3, <1>13
  <2>5. phase' # "done"
    BY <1>1
  <2> QED
    BY <2>1, <2>2, <2>3, <2>4, <2>5 DEF HandedDown
<1> QED
  BY <1>2, <1>15

LEMMA PropagationEnds ==
    ASSUME CallsSeq, HandedDown, Phases, FinishPropagation
    PROVE  CallsSeq' /\ HandedDown'
<1>1. /\ phase = "propagate" /\ phase' = "done" /\ calls = <<>> /\ calls' = calls
      /\ UNCHANGED <<declared, selected, inner, tests>> /\ Nodes' = Nodes
      /\ lock' = lock /\ isSequential' = isSequential
  BY DEF FinishPropagation, inputs, tree, Nodes
<1>2. DeclaredSequential' = DeclaredSequential /\ InSequential' = InSequential /\ LocksDue' = LocksDue
  BY <1>1, SameGoal
<1>3. \A n : Pending(n)' <=> Pending(n)
  BY <1>1 DEF Pending
<1> QED
  BY <1>1, <1>2, <1>3 DEF HandedDown, CallsSeq

TreeInv == Shape /\ Placed /\ Counted
AddInv  == TreeInv /\ Declared /\ Phases
PassInv == CallsSeq /\ HandedDown
ConstructionInv == AddInv /\ PassInv

LEMMA EmptyTree == Init => ConstructionInv
<1> SUFFICES ASSUME Init PROVE ConstructionInv
  OBVIOUS
<1>1. /\ inner = [n \in {Root} |-> <<>>] /\ tests = [n \in {Root} |-> <<>>] /\ Nodes = {Root}
      /\ remaining = [n \in {Root} |-> 0] /\ lock = [n \in {Root} |-> n] /\ isSequential = {}
      /\ selected = <<>> /\ queue = <<>> /\ props = <<>> /\ declared = <<>> /\ calls = <<>>
      /\ phase = "register" /\ deps \subseteq Modules
  BY DEF Init, Nodes
<1>2. Root \in Paths /\ PathTo(Root) = {Root}
  <2>1. Root \in Paths /\ Len(Root) = 0
    BY RootLength
  <2>2. \A q \in PathTo(Root) : q \in Paths /\ Len(q) \in 0..Len(Root)
    BY <2>1, InPath
  <2> QED
    BY <2>1, <2>2, RootLength, PathOrder
<1>3. Shape
  <2>1. IsFiniteSet(Nodes)
    BY <1>1, FS_Singleton
  <2>2. inner \in [Nodes -> Seq(Nodes)] /\ DOMAIN inner[Root] = {}
    BY <1>1, EmptySeq
  <2> QED
    BY <1>1, <1>2, <2>1, <2>2 DEF Shape, Paths
<1>4. Added = {}
  BY <1>1 DEF Added
<1>5. Placed
  <2>1. tests \in [Nodes -> Seq(Added)] /\ DOMAIN tests[Root] = {}
    BY <1>1, EmptySeq
  <2>2. Len(queue) = 0 /\ Len(selected) = 0
    BY <1>1
  <2>3. queue = [i \in 1..Len(queue) |-> Len(queue) - i + 1]
    <3>1. [i \in 1..0 |-> 0 - i + 1] = <<>>
      OBVIOUS
    <3> QED
      BY <1>1, <2>2, <3>1
  <2> QED
    BY <1>1, <1>4, <2>1, <2>2, <2>3 DEF Placed
<1>6. Counted
  <2>1. \A n : Below(n) = {}
    BY <1>4 DEF Below
  <2> QED
    BY <1>1, <2>1, FS_EmptySet DEF Counted
<1>7. Declared
  BY <1>1, EmptySeq DEF Declared
<1>8. Phases
  BY <1>1 DEF Phases, Constructed
<1>9. CallsSeq
  BY <1>1, EmptySeq DEF CallsSeq
<1>10. HandedDown
  BY <1>1 DEF HandedDown, Constructed
<1> QED
  BY <1>3, <1>5, <1>6, <1>7, <1>8, <1>9, <1>10 DEF ConstructionInv, AddInv, TreeInv, PassInv

(* What leaves the tree and the selected tests alone.                      *)
LEMMA SameTree ==
    ASSUME TreeInv, UNCHANGED <<selected, queue, inner, tests, remaining>>
    PROVE  TreeInv'
<1>1. Nodes' = Nodes /\ Added' = Added /\ \A n : Below(n)' = Below(n)
  BY DEF Nodes, Added, Below
<1> QED
  BY <1>1 DEF TreeInv, Shape, Placed, Counted

LEMMA SameCalls ==
    ASSUME CallsSeq, Nodes \subseteq Nodes', calls' = calls
    PROVE  CallsSeq'
<1>1. [node : Nodes, inherited : Nodes \cup {NoLock}] \subseteq [node : Nodes', inherited : Nodes' \cup {NoLock}]
  OBVIOUS
<1> QED
  BY <1>1, SeqMonotonic DEF CallsSeq

LEMMA NothingHandedDown ==
    ASSUME phase' \in {"register", "add"} \/ ((~Constructed)' /\ phase' = "done")
    PROVE  HandedDown'
  BY DEF HandedDown, Constructed

LEMMA AddStep ==
    ASSUME ConstructionInv, SelectedTests, NEW p \in Paths, Nodes' = Nodes \cup PathTo(p),
           AddInv', calls' = calls, phase' = "add"
    PROVE  ConstructionInv'
  BY SameCalls, NothingHandedDown DEF ConstructionInv, PassInv

LEMMA ConstructionStep ==
    ASSUME ConstructionInv, SelectedTests, SelectedTests', [Next]_vars
    PROVE  ConstructionInv'
<1> USE DEF ConstructionInv, AddInv, TreeInv, PassInv
<1>1. ASSUME NEW p \in Props, Register(p) PROVE ConstructionInv'
  <2>1. phase = "register" /\ phase' = "register" /\ UNCHANGED <<props, deps, selected, queue, tree, calls>>
    BY <1>1 DEF Register
  <2>2. TreeInv'
    BY <2>1, SameTree DEF tree
  <2>3. Declared'
    BY <1>1, Registered
  <2>4. Phases'
    BY <2>1 DEF Phases, tree, Nodes, Constructed
  <2>5. CallsSeq'
    BY <2>1, SameCalls DEF tree, Nodes
  <2>6. HandedDown'
    BY <2>1, NothingHandedDown
  <2> QED
    BY <2>2, <2>3, <2>4, <2>5, <2>6
<1>2. ASSUME NEW m \in Modules,
             RegisterSequential(m) \/ RegisterTag(m) \/ RegisterTimeout(m)
             \/ \E dim \in Dimensions : RegisterMatrix(m, dim)
      PROVE  ConstructionInv'
  <2>1. \E p \in Props : Register(p)
    BY <1>2, RegistersProps
  <2> QED
    BY <1>1, <2>1
<1>3. CASE SelectTests
  <2>1. Placed' /\ Counted' /\ Declared' /\ Phases' /\ (~Constructed)' /\ phase' \in {"add", "done"}
    BY <1>3, SelectedFirst
  <2>2. Nodes' = Nodes /\ inner' = inner /\ calls' = calls
    BY <1>3 DEF SelectTests, tree, Nodes
  <2>3. Shape'
    BY <2>2 DEF Shape
  <2>4. CallsSeq'
    BY <2>2, SameCalls
  <2>5. HandedDown'
    BY <2>1, NothingHandedDown
  <2> QED
    BY <2>1, <2>3, <2>4, <2>5
<1>4. CASE AddProp
  <2> DEFINE s == Head(props).suite
  <2>1. s \in Paths
    BY <1>4, NextProp DEF AddProp
  <2>2. /\ inner' = NewInner(s) /\ tests' = Extended(tests, s, Empty(s))
        /\ remaining' = Extended(remaining, s, Zero(s))
        /\ UNCHANGED <<queue, selected>> /\ calls' = calls /\ phase' = "add"
    BY <1>4 DEF AddProp, Insert
  <2> HIDE DEF s
  <2>3. Shape' /\ Nodes' = Nodes \cup PathTo(s)
    BY <2>1, <2>2, Grown, Insertion
  <2>4. Placed'
    BY <2>1, <2>2, <2>3, InsertedPlaced
  <2>5. Counted'
    BY <2>1, <2>2, <2>3, InsertedCounted
  <2>6. Declared' /\ Phases'
    BY <1>4, PropDeclared, PropPhases
  <2> QED
    BY <2>1, <2>2, <2>3, <2>4, <2>5, <2>6, AddStep
<1>5. ASSUME NEW m \in deps, AddDependency(m) PROVE ConstructionInv'
  <2>1. m \in Paths
    BY ConstructionAssumption DEF Declared, Paths
  <2>2. /\ inner' = NewInner(m) /\ tests' = Extended(tests, m, Empty(m))
        /\ remaining' = Extended(remaining, m, Zero(m))
        /\ UNCHANGED <<queue, selected>> /\ calls' = calls /\ phase = "add" /\ phase' = "add"
        /\ UNCHANGED <<declared, props>> /\ deps' \subseteq deps
    BY <1>5 DEF AddDependency, Insert, inputs
  <2>3. Shape' /\ Nodes' = Nodes \cup PathTo(m)
    BY <2>1, <2>2, Grown, Insertion
  <2>4. Placed'
    BY <2>1, <2>2, <2>3, InsertedPlaced
  <2>5. Counted'
    BY <2>1, <2>2, <2>3, InsertedCounted
  <2>6. Declared'
    BY <2>2, <2>3, KeptDeclared
  <2>7. Phases'
    BY <1>5, DependencyPhases
  <2> QED
    BY <2>1, <2>2, <2>3, <2>4, <2>5, <2>6, <2>7, AddStep
<1>6. CASE AddTest
  <2> DEFINE m == selected[Len(queue)].module
  <2>1. Len(queue) \in 1..Len(selected) /\ Head(queue) = Len(queue) /\ Placed'
    BY <1>6, TestPlaced
  <2>2. m \in Paths
    BY <2>1, SelectedModules
  <2>3. /\ inner' = NewInner(m) /\ calls' = calls /\ phase = "add" /\ phase' = "add"
        /\ UNCHANGED <<declared, props>> /\ deps' = deps
    BY <1>6, <2>1 DEF AddTest, Insert, inputs
  <2> HIDE DEF m
  <2>4. Shape' /\ Nodes' = Nodes \cup PathTo(m)
    BY <2>2, <2>3, Grown, Insertion
  <2>5. Counted'
    BY <1>6, TestCounted
  <2>6. Declared'
    BY <2>3, <2>4, KeptDeclared
  <2>7. Phases'
    BY <1>6, TestPhases
  <2> QED
    BY <2>1, <2>2, <2>3, <2>4, <2>5, <2>6, <2>7, AddStep
<1>7. CASE StartPropagation
  <2>1. /\ phase = "add" /\ phase' = "propagate" /\ queue = <<>> /\ props = <<>>
        /\ UNCHANGED <<inputs, props, deps, selected, queue, tree>> /\ Nodes' = Nodes
    BY <1>7 DEF StartPropagation, tree, Nodes
  <2>2. TreeInv'
    BY <2>1, SameTree DEF tree
  <2>3. Declared'
    BY <2>1, KeptDeclared DEF inputs
  <2>4. Phases'
    BY <2>1 DEF Phases
  <2>5. CallsSeq' /\ HandedDown'
    BY <1>7, PropagationStarts
  <2> QED
    BY <2>2, <2>3, <2>4, <2>5
<1>8. CASE Propagate
  <2>1. /\ phase = "propagate" /\ phase' = "propagate" /\ Nodes' = Nodes
        /\ UNCHANGED <<inputs, props, deps, selected, queue, inner, tests, remaining>>
    BY <1>8 DEF Propagate, Nodes
  <2>2. TreeInv'
    BY <2>1, SameTree
  <2>3. Declared'
    BY <2>1, KeptDeclared DEF inputs
  <2>4. Phases'
    BY <2>1 DEF Phases
  <2>5. CallsSeq' /\ HandedDown'
    BY <1>8, PropagationGoesOn
  <2> QED
    BY <2>2, <2>3, <2>4, <2>5
<1>9. CASE FinishPropagation
  <2>1. /\ phase = "propagate" /\ phase' = "done" /\ Nodes' = Nodes
        /\ UNCHANGED <<inputs, props, deps, selected, queue, inner, tests, remaining>>
    BY <1>9 DEF FinishPropagation, tree, Nodes
  <2>2. TreeInv'
    BY <2>1, SameTree
  <2>3. Declared'
    BY <2>1, KeptDeclared DEF inputs
  <2>4. Phases'
    BY <2>1 DEF Phases
  <2>5. CallsSeq' /\ HandedDown'
    BY <1>9, PropagationEnds
  <2> QED
    BY <2>2, <2>3, <2>4, <2>5
<1>10. CASE UNCHANGED vars
  <2>1. /\ phase' = phase /\ calls' = calls /\ lock' = lock /\ isSequential' = isSequential
        /\ UNCHANGED <<declared, props, deps, selected, queue, inner, tests, remaining>>
    BY <1>10 DEF vars, inputs, tree
  <2>2. TreeInv'
    BY <2>1, SameTree
  <2>3. Nodes' = Nodes /\ Done' = Done /\ Marks' = Marks /\ (Constructed' <=> Constructed)
    BY <2>1 DEF Nodes, Done, Marks, Added, Constructed
  <2>4. Declared'
    BY <2>1, <2>3 DEF Declared
  <2>5. Phases'
    BY <2>1, <2>3 DEF Phases
  <2>6. CallsSeq'
    BY <2>1, <2>3 DEF CallsSeq
  <2>7. HandedDown'
    <3>1. DeclaredSequential' = DeclaredSequential /\ InSequential' = InSequential /\ LocksDue' = LocksDue
      BY <2>1, SameGoal
    <3>2. \A n : Pending(n)' <=> Pending(n)
      BY <2>1 DEF Pending
    <3> QED
      BY <2>1, <2>3, <3>1, <3>2 DEF HandedDown
  <2> QED
    BY <2>2, <2>4, <2>5, <2>6, <2>7
<1> QED
  BY <1>2, <1>3, <1>4, <1>5, <1>6, <1>7, <1>8, <1>9, <1>10 DEF Next

(* Each level is at its position in `inner` of its parent.                 *)
LEMMA Positions ==
    ASSUME Shape, NEW n \in Nodes
    PROVE  /\ Position(n) \in Nat
           /\ n # Root => /\ Position(n) \in DOMAIN inner[Parent(n)]
                          /\ inner[Parent(n)][Position(n)] = n
<1>1. CASE n = Root
  BY <1>1 DEF Position
<1>2. CASE n # Root
  <2>1. \E i \in DOMAIN inner[Parent(n)] : inner[Parent(n)][i] = n
    BY <1>2 DEF Shape
  <2>2. Position(n) = CHOOSE i \in DOMAIN inner[Parent(n)] : inner[Parent(n)][i] = n
    BY <1>2 DEF Position, Parent
  <2>3. Position(n) \in DOMAIN inner[Parent(n)] /\ inner[Parent(n)][Position(n)] = n
    BY <2>1, <2>2
  <2>4. n \in Paths /\ PathTo(n) \subseteq Nodes
    BY DEF Shape, Paths
  <2>5. Parent(n) \in Nodes
    BY <1>2, <2>4, Above
  <2>6. inner[Parent(n)] \in Seq(Nodes)
    BY <2>5 DEF Shape
  <2>7. Position(n) \in Nat
    BY <2>3, <2>6
  <2> QED
    BY <2>3, <2>7
<1> QED
  BY <1>1, <1>2

(* The tests of a suite in the order in which they are popped.             *)
LEMMA PoppedTests ==
    ASSUME Placed, Len(selected) \in Nat, NEW n \in Nodes
    PROVE  /\ Popped(n) \in Seq(Inserted) /\ DOMAIN Popped(n) = DOMAIN tests[n]
           /\ \A i \in DOMAIN Popped(n) : /\ Popped(n)[i] \in Added
                                          /\ selected[Popped(n)[i]].module = n
           /\ \A i, j \in DOMAIN Popped(n) : i < j => Popped(n)[i] < Popped(n)[j]
           /\ \A x \in ToSet(tests[n]) : \E i \in DOMAIN Popped(n) : Popped(n)[i] = x
<1> DEFINE l == Len(tests[n])
<1>1. tests[n] \in Seq(Added) /\ l \in Nat /\ DOMAIN tests[n] = 1..l
  BY DEF Placed
<1> HIDE DEF l
<1>2. Popped(n) = [i \in 1..l |-> tests[n][l - i + 1]]
  BY <1>1 DEF Popped, l
<1>3. \A i \in 1..l : l - i + 1 \in 1..l
  BY <1>1
<1>4. \A i \in 1..l : /\ tests[n][l - i + 1] \in Added
                      /\ selected[tests[n][l - i + 1]].module = n
  BY <1>1, <1>3 DEF Placed
<1>5. Popped(n) \in Seq(Inserted) /\ DOMAIN Popped(n) = 1..l
  <2>1. Popped(n) \in [1..l -> Added]
    BY <1>2, <1>4
  <2> QED
    BY <1>1, <2>1, TestsInTree
<1>6. ASSUME NEW i \in 1..l, NEW j \in 1..l, i < j PROVE Popped(n)[i] < Popped(n)[j]
  <2>1. l - j + 1 < l - i + 1
    BY <1>1, <1>6
  <2>2. tests[n][l - i + 1] < tests[n][l - j + 1]
    BY <1>1, <1>3, <2>1 DEF Placed
  <2> QED
    BY <1>2, <2>2
<1>7. ASSUME NEW x \in ToSet(tests[n]) PROVE \E i \in 1..l : Popped(n)[i] = x
  <2>1. PICK k \in 1..l : tests[n][k] = x
    BY <1>1 DEF ToSet
  <2>2. l - k + 1 \in 1..l /\ l - (l - k + 1) + 1 = k
    BY <1>1
  <2>3. Popped(n)[l - k + 1] = tests[n][l - (l - k + 1) + 1]
    BY <1>2, <2>2
  <2> QED
    BY <2>1, <2>2, <2>3
<1> QED
  BY <1>1, <1>2, <1>4, <1>5, <1>6, <1>7

LEMMA OrderIsKept ==
    ASSUME ConstructionInv, SelectedTests
    PROVE  PoppedInOrder
<1>1. Placed /\ Len(selected) \in Nat
  BY DEF ConstructionInv, AddInv, TreeInv, SelectedTests
<1> QED
  BY <1>1, PoppedTests DEF PoppedInOrder

LEMMA TreeIsDone ==
    ASSUME ConstructionInv, SelectedTests
    PROVE  TreeIsSuiteTree
<1> SUFFICES ASSUME Constructed
             PROVE  /\ Built!NodesFormTree /\ Built!SiblingsAreRanked /\ Built!TestsHaveNodes
                    /\ Inserted = DOMAIN selected
                    /\ \A n \in Nodes :
                          /\ ToSet(inner[n]) = Built!ChildrenOf(n)
                          /\ Cardinality(ToSet(inner[n])) = Len(inner[n])
                          /\ remaining[n] =
                                Cardinality(UNION {ToSet(tests[m]) : m \in {k \in Nodes : n \in PathTo(k)}})
  BY OrderIsKept DEF TreeIsSuiteTree
<1>1. Shape /\ Placed /\ Counted /\ Declared /\ Phases
  BY DEF ConstructionInv, AddInv, TreeInv
<1>2. queue = <<>> /\ props = <<>> /\ phase # "register"
  BY <1>1 DEF Phases, Constructed
<1>3. /\ Inserted = 1..Len(selected) /\ Added = 1..Len(selected)
      /\ DeclaredSequential \subseteq Nodes
  BY <1>1, <1>2, AllMarked
<1>4. Len(selected) \in Nat /\ DOMAIN selected = 1..Len(selected)
  BY DEF SelectedTests
<1>5. \A n \in Nodes : n \in Paths /\ PathTo(n) \subseteq Nodes
  BY <1>1 DEF Shape, Paths
<1>6. Built!NodesFormTree
  <2>1. IsFiniteSet(Nodes) /\ Root \in Nodes /\ \A n \in Nodes : n \in Seq(Segments)
    BY <1>1 DEF Shape
  <2>2. ASSUME NEW n \in Nodes, NEW k \in 0..Len(n) PROVE SubSeq(n, 1, k) \in Nodes
    BY <1>5 DEF PathTo
  <2> QED
    BY <1>3, <2>1, <2>2 DEF Built!NodesFormTree, Built!Root, Root, IsFiniteSet, Built!IsFiniteSet
<1>7. Built!SiblingsAreRanked
  <2>1. [n \in Nodes |-> Position(n)] \in [Nodes -> Nat]
    BY <1>1, Positions
  <2>2. ASSUME NEW m \in Nodes \ {Root}, NEW n \in Nodes \ {Root}, Parent(m) = Parent(n),
               Position(m) = Position(n)
        PROVE  m = n
    BY <1>1, <2>2, Positions
  <2> QED
    BY <2>1, <2>2 DEF Built!SiblingsAreRanked, Built!Root, Root, Built!ParentOf, Parent
<1>8. Built!TestsHaveNodes
  <2>1. IsFiniteSet(Inserted)
    BY <1>3, <1>4, FS_Interval
  <2>2. [n \in Nodes |-> Popped(n)] \in [Nodes -> Seq(Inserted)]
    BY <1>1, <1>4, PoppedTests
  <2>3. ASSUME NEW x \in Inserted PROVE \E n \in Nodes : \E i \in DOMAIN Popped(n) : Popped(n)[i] = x
    <3>1. PICK n \in Nodes : x \in ToSet(tests[n])
      BY DEF Inserted
    <3> QED
      BY <1>1, <1>4, <3>1, PoppedTests
  <2>4. ASSUME NEW m \in Nodes, NEW n \in Nodes, NEW i \in DOMAIN Popped(m), NEW j \in DOMAIN Popped(n),
               Popped(m)[i] = Popped(n)[j]
        PROVE  m = n /\ i = j
    <3>1. m = n
      BY <1>1, <1>4, <2>4, PoppedTests
    <3>2. Popped(m)[i] \in Nat
      <4>1. Popped(m)[i] \in Added
        BY <1>1, <1>4, PoppedTests
      <4> QED
        BY <1>3, <4>1
    <3>3. i \in Nat /\ j \in Nat
      <4>1. Popped(m) \in Seq(Inserted)
        BY <1>1, <1>4, PoppedTests
      <4> QED
        BY <3>1, <4>1
    <3>4. ~(i < j) /\ ~(j < i)
      <4>1. i < j => Popped(m)[i] < Popped(m)[j]
        BY <1>1, <1>4, <3>1, PoppedTests
      <4>2. j < i => Popped(m)[j] < Popped(m)[i]
        BY <1>1, <1>4, <3>1, PoppedTests
      <4>3. ~(Popped(m)[i] < Popped(m)[j]) /\ ~(Popped(m)[j] < Popped(m)[i])
        BY <2>4, <3>1, <3>2
      <4> QED
        BY <4>1, <4>2, <4>3
    <3> QED
      BY <3>1, <3>3, <3>4
  <2>5. /\ \A x \in Inserted : \E n \in Nodes : \E i \in DOMAIN [k \in Nodes |-> Popped(k)][n] :
              [k \in Nodes |-> Popped(k)][n][i] = x
        /\ \A m, n \in Nodes : \A i \in DOMAIN [k \in Nodes |-> Popped(k)][m],
                                  j \in DOMAIN [k \in Nodes |-> Popped(k)][n] :
              [k \in Nodes |-> Popped(k)][m][i] = [k \in Nodes |-> Popped(k)][n][j] => m = n /\ i = j
    BY <2>3, <2>4
  <2> QED
    BY <2>1, <2>2, <2>5 DEF Built!TestsHaveNodes, IsFiniteSet, Built!IsFiniteSet
<1>9. ASSUME NEW n \in Nodes
      PROVE  /\ ToSet(inner[n]) = Built!ChildrenOf(n)
             /\ Cardinality(ToSet(inner[n])) = Len(inner[n])
             /\ remaining[n] =
                   Cardinality(UNION {ToSet(tests[m]) : m \in {k \in Nodes : n \in PathTo(k)}})
  <2>1. inner[n] \in Seq(Nodes) /\ Len(inner[n]) \in Nat /\ DOMAIN inner[n] = 1..Len(inner[n])
    BY <1>1 DEF Shape
  <2>2. ToSet(inner[n]) = {c \in Nodes : c # Root /\ Parent(c) = n}
    <3>1. ASSUME NEW c \in ToSet(inner[n]) PROVE c \in Nodes /\ c # Root /\ Parent(c) = n
      BY <1>1, <2>1 DEF ToSet, Shape
    <3>2. ASSUME NEW c \in Nodes, c # Root, Parent(c) = n PROVE c \in ToSet(inner[n])
      BY <1>1, <3>2 DEF ToSet, Shape
    <3> QED
      BY <3>1, <3>2
  <2>3. ToSet(inner[n]) = Built!ChildrenOf(n)
    BY <2>2 DEF Built!ChildrenOf, Built!ParentOf, Built!Root, Root, Parent
  <2>4. Cardinality(ToSet(inner[n])) = Len(inner[n])
    <3> DEFINE k == Len(inner[n])
               f == inner[n]
               T == ToSet(inner[n])
    <3>1. f \in [1..k -> Nodes] /\ \A i, j \in 1..k : f[i] = f[j] => i = j
      <4>1. f \in [1..k -> Nodes]
        BY <2>1, LenProperties
      <4>2. \A i, j \in DOMAIN inner[n] : inner[n][i] = inner[n][j] => i = j
        BY <1>1 DEF Shape
      <4> QED
        BY <2>1, <4>1, <4>2
    <3>2. T = {f[i] : i \in 1..k}
      BY <2>1 DEF ToSet
    <3>3. IsFiniteSet(1..k) /\ Cardinality(1..k) = k
      <4>1. 1 \in Int /\ k \in Int /\ k \in Nat
        BY <2>1
      <4> HIDE DEF k
      <4>2. IsFiniteSet(1..k) /\ Cardinality(1..k) = IF 1 > k THEN 0 ELSE k - 1 + 1
        BY <4>1, FS_Interval
      <4> QED
        BY <4>1, <4>2
    <3> HIDE DEF k, f, T
    <3>4. f \in Surjection(1..k, T) /\ f \in Injection(1..k, T)
      <4>1. f \in [1..k -> T]
        BY <3>1, <3>2
      <4>2. \A t \in T : \E i \in 1..k : f[i] = t
        BY <3>2
      <4>3. f \in Injection(1..k, T)
        BY <3>1, <4>1 DEF Injection, IsInjective
      <4>4. f \in Surjection(1..k, T)
        BY <4>1, <4>2 DEF Surjection
      <4> QED
        BY <4>3, <4>4
    <3>5. Cardinality(T) = Cardinality(1..k)
      BY <3>3, <3>4, FS_Surjection
    <3> QED
      BY <3>3, <3>5 DEF k, T
  <2>5. UNION {ToSet(tests[m]) : m \in {k \in Nodes : n \in PathTo(k)}} = Below(n)
    <3>1. ASSUME NEW m \in Nodes, n \in PathTo(m), NEW x \in ToSet(tests[m]) PROVE x \in Below(n)
      <4>1. tests[m] \in Seq(Added) /\ \A i \in DOMAIN tests[m] : selected[tests[m][i]].module = m
        BY <1>1 DEF Placed
      <4>2. x \in Added /\ selected[x].module = m
        BY <4>1 DEF ToSet
      <4> QED
        BY <3>1, <4>2 DEF Below
    <3>2. ASSUME NEW x \in Below(n)
          PROVE  \E m \in Nodes : n \in PathTo(m) /\ x \in ToSet(tests[m])
      <4>1. x \in Added /\ n \in PathTo(selected[x].module)
        BY DEF Below
      <4>2. selected[x].module \in Nodes
            /\ \E i \in DOMAIN tests[selected[x].module] : tests[selected[x].module][i] = x
        BY <1>1, <4>1 DEF Placed
      <4> QED
        BY <4>1, <4>2 DEF ToSet
    <3> QED
      BY <3>1, <3>2
  <2>6. remaining[n] = Cardinality(Below(n))
    BY <1>1 DEF Counted
  <2> QED
    BY <2>3, <2>4, <2>5, <2>6
<1> QED
  BY <1>3, <1>4, <1>6, <1>7, <1>8, <1>9

LEMMA LocksAreDone ==
    ASSUME ConstructionInv
    PROVE  LocksHandedDown
<1> SUFFICES ASSUME Constructed, NEW n \in Nodes
             PROVE  lock[n] = Built!LockOf(n) /\ (n \in isSequential <=> Built!IsSequential(n))
  BY DEF LocksHandedDown
<1>1. HandedDown
  BY DEF ConstructionInv, PassInv
<1>2. calls = <<>>
  BY <1>1 DEF HandedDown, Constructed
<1>3. ~Pending(n)
  BY <1>2 DEF Pending
<1>4. lock[n] = LocksDue[n] /\ (n \in isSequential <=> n \in InSequential)
  BY <1>1, <1>3 DEF HandedDown
<1> QED
  BY <1>4 DEF LocksDue, InSequential

(* Without a test there is only the root.                                  *)
EmptyInv ==
    selected = <<>> =>
        /\ phase \in {"register", "done"}
        /\ lock = [n \in Nodes |-> n] /\ isSequential = {}

LEMMA EmptyStep ==
    ASSUME ConstructionInv, EmptyInv, [Next]_vars
    PROVE  EmptyInv'
<1> SUFFICES ASSUME selected' = <<>>
             PROVE  /\ phase' \in {"register", "done"}
                    /\ lock' = [n \in Nodes' |-> n] /\ isSequential' = {}
  BY DEF EmptyInv
<1> USE DEF inputs, tree, Nodes
<1>1. phase = "register" => selected = <<>>
  BY DEF ConstructionInv, AddInv, Phases
<1>2. CASE SelectTests
  <2>1. Reversed(<<>>) = <<>>
    BY DEF Reversed
  <2> QED
    BY <1>1, <1>2, <2>1 DEF EmptyInv, SelectTests
<1>3. CASE /\ UNCHANGED <<selected, phase, tree>>
           /\ phase = "register" \/ phase = "done"
  BY <1>3 DEF EmptyInv
<1>4. ASSUME UNCHANGED selected, phase \in {"add", "propagate"} PROVE FALSE
  BY <1>4 DEF EmptyInv
<1>5. ASSUME NEW m \in Modules,
             \/ RegisterSequential(m) \/ RegisterTag(m) \/ RegisterTimeout(m)
             \/ \E dim \in Dimensions : RegisterMatrix(m, dim)
      PROVE  UNCHANGED <<selected, phase, tree>> /\ phase = "register"
  BY <1>5 DEF RegisterSequential, RegisterTag, RegisterTimeout, RegisterMatrix, Register
<1>6. CASE \/ AddProp \/ AddTest \/ StartPropagation \/ Propagate \/ FinishPropagation
           \/ \E m \in deps : AddDependency(m)
  BY <1>4, <1>6 DEF AddProp, AddTest, StartPropagation, Propagate, FinishPropagation, AddDependency
<1>7. CASE UNCHANGED vars
  BY <1>7 DEF EmptyInv, vars
<1> QED
  BY <1>2, <1>3, <1>5, <1>6, <1>7 DEF Next

LEMMA TypesHold ==
    ASSUME ConstructionInv, EmptyInv, SelectedTests
    PROVE  TypeOK
<1>1. Shape /\ Placed /\ Counted /\ Declared /\ Phases /\ CallsSeq /\ HandedDown
  BY DEF ConstructionInv, AddInv, TreeInv, PassInv
<1>2. Len(selected) \in Nat /\ Len(queue) \in Nat /\ Len(queue) <= Len(selected)
  BY <1>1 DEF SelectedTests, Placed
<1>3. queue \in Seq(1..Len(selected))
  <2>1. queue = [i \in 1..Len(queue) |-> Len(queue) - i + 1]
    BY <1>1 DEF Placed
  <2>2. \A i \in 1..Len(queue) : Len(queue) - i + 1 \in 1..Len(selected)
    BY <1>2
  <2> QED
    BY <1>2, <2>1, <2>2, IsASeq
<1>4. ASSUME NEW n \in Nodes
      PROVE  /\ inner[n] \in Seq(Nodes)
             /\ tests[n] \in Seq(1..Len(selected))
             /\ remaining[n] \in Nat
             /\ lock[n] \in Nodes
  <2>1. inner[n] \in Seq(Nodes) /\ tests[n] \in Seq(Added)
    BY <1>1 DEF Shape, Placed
  <2>2. Added \subseteq 1..Len(selected)
    BY <1>2 DEF Added
  <2>3. tests[n] \in Seq(1..Len(selected))
    <3>1. \A i \in 1..Len(tests[n]) : tests[n][i] \in 1..Len(selected)
      BY <2>1, <2>2, ElementOfSeq
    <3> QED
      BY <2>1, <3>1, IsASeq, LenProperties
  <2>4. remaining[n] \in Nat
    <3>1. Below(n) \subseteq 1..Len(selected)
      BY <2>2 DEF Below
    <3>2. IsFiniteSet(1..Len(selected))
      BY <1>2, FS_Interval
    <3>3. IsFiniteSet(Below(n))
      BY <3>1, <3>2, FS_Subset
    <3> QED
      BY <1>1, <3>3, FS_CardinalityType DEF Counted
  <2>5. lock[n] \in Nodes
    BY <1>1 DEF Phases, HandedDown, Constructed, EmptyInv
  <2> QED
    BY <2>1, <2>3, <2>4, <2>5
<1>5. isSequential \subseteq Nodes
  <2>1. CASE phase = "add"
    <3>1. Marks \subseteq Nodes
      <4>1. \A i \in 1..Done : declared[i].suite \in Nodes
        BY <1>1, <2>1 DEF Declared
      <4>2. \A x \in Added : selected[x].module \in Nodes
        BY <1>1 DEF Placed
      <4> QED
        BY <4>1, <4>2 DEF Marks
    <3> QED
      BY <1>1, <2>1, <3>1 DEF Phases
  <2> QED
    BY <1>1, <2>1 DEF Phases, HandedDown, Constructed, EmptyInv
<1> QED
  BY <1>1, <1>3, <1>4, <1>5 DEF TypeOK, Shape, Declared, CallsSeq, Phases

-----------------------------------------------------------------------------
(* In every state of construct: the insertions leave no gap in the tree and *)
(* keep its vectors and counters exact, and the recursion of               *)
(* propagate_sequential has settled whatever is not below a call that it   *)
(* still has to make.                                                      *)
THEOREM ConstructionIsExact == Spec /\ []SelectedTests => []ConstructionInv
<1>1. Init => ConstructionInv
  BY EmptyTree
<1>2. ConstructionInv /\ SelectedTests /\ SelectedTests' /\ [Next]_vars => ConstructionInv'
  BY ConstructionStep
<1> QED
  BY <1>1, <1>2, PTL DEF Spec

(* Every variable of construct keeps its type: the insertions and the       *)
(* recursions refer to selected tests and to levels of the tree only.       *)
THEOREM TypeCorrect == Spec /\ []SelectedTests => []TypeOK
<1>1. ConstructionInv /\ EmptyInv /\ SelectedTests => TypeOK
  BY TypesHold
<1>2. Init => EmptyInv
  BY DEF Init, EmptyInv, Nodes
<1>3. ConstructionInv /\ EmptyInv /\ [Next]_vars => EmptyInv'
  BY EmptyStep
<1> QED
  BY <1>1, <1>2, <1>3, ConstructionIsExact, PTL DEF Spec

(* add_prop, add_dependency and add_test, in any order of their calls,     *)
(* leave a tree that satisfies what SuiteTree assumes of its constants,    *)
(* with an exact remaining_count and the tests in their order.             *)
THEOREM TreeIsBuilt == Spec /\ []SelectedTests => []TreeIsSuiteTree
<1>1. ConstructionInv /\ SelectedTests => TreeIsSuiteTree
  BY TreeIsDone
<1> QED
  BY <1>1, ConstructionIsExact, PTL

(* propagate_sequential gives each suite the lock of the topmost sequential *)
(* module that contains it, and is_sequential to exactly those inside one. *)
THEOREM LocksAreHandedDown == Spec /\ []SelectedTests => []LocksHandedDown
<1>1. ConstructionInv => LocksHandedDown
  BY LocksAreDone
<1> QED
  BY <1>1, ConstructionIsExact, PTL

(* The reversal in construct and the pop() of the scheduler cancel out.    *)
THEOREM TestsKeepOrder == Spec /\ []SelectedTests => []PoppedInOrder
<1>1. ConstructionInv /\ SelectedTests => PoppedInOrder
  BY OrderIsKept
<1> QED
  BY <1>1, ConstructionIsExact, PTL
=============================================================================
