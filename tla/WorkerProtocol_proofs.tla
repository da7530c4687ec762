----------------------- MODULE WorkerProtocol_proofs -----------------------
(***************************************************************************)
(* For any number of threads with their workers, any plan of tests and any *)
(* sequence of shipped dependencies, whatever dies when: the two ends of a *)
(* connection stay in step, a result is earned by the one body it is for,  *)
(* the bodies in all workers follow the abstract schedule, and without     *)
(* overtaking a worker still has the test it is sent.                      *)
(*                                                                         *)
(* ProtocolInv is inductive: WireInv relates the two ends of a connection, *)
(* PlanInv and LocksInv the threads to the plan, EarnedInv the counters to *)
(* where each worker has got to, OrderInv the plans of the workers to the  *)
(* plan of the parent.                                                     *)
(***************************************************************************)
EXTENDS WorkerProtocol, SequenceTheorems, WellFoundedInduction, TLAPS

-----------------------------------------------------------------------------
(* The connections.                                                        *)

(* A RunTest on its way, the test being looked for or run, a call of its   *)
(* body on its way, the reply, or the result.                              *)
OneTest(t) ==
    LET x == job[t] IN
    \/ /\ toWorker[t] = <<Frame("RunTest", x)>> /\ fromWorker[t] = <<>>
       /\ expected[t] = NoTest /\ wpc[t] \in {"loop", "gone"}
    \/ /\ toWorker[t] = <<>> /\ fromWorker[t] = <<>>
       /\ expected[t] = x /\ wpc[t] \in {"loop", "body", "gone"}
    \/ /\ toWorker[t] = <<>> /\ fromWorker[t] = <<Frame("HostedRpcCall", x)>>
       /\ expected[t] = x
       /\ wpc[t] \in {"reply", "gone"} \/ (wpc[t] = "body" /\ aborted)
    \/ /\ toWorker[t] = <<Frame("HostedRpcReply", x)>> /\ fromWorker[t] = <<>>
       /\ expected[t] = x /\ wpc[t] \in {"reply", "gone"}
    \/ /\ toWorker[t] = <<>> /\ fromWorker[t] = <<Frame("TestFinished", x)>>
       /\ expected[t] = NoTest /\ wpc[t] \in {"loop", "gone"}

OneProvide(t) ==
    LET dep == Shipped[shipped[t] + 1] IN
    \/ toWorker[t] = <<Frame("Provide", dep)>> /\ fromWorker[t] = <<>>
    \/ toWorker[t] = <<>> /\ fromWorker[t] = <<Frame("Accepted", dep)>>

Quiet(t) == toWorker[t] = <<>> /\ fromWorker[t] = <<>>

WireTypes ==
    /\ pc \in [Threads -> ParentLabels]
    /\ job \in [Threads -> Tests \cup {NoTest}]
    /\ shipped \in [Threads -> Nat]
    /\ DOMAIN toWorker = Threads
    /\ DOMAIN fromWorker = Threads
    /\ wpc \in [Threads -> WorkerLabels]
    /\ expected \in [Threads -> Tests \cup {NoTest}]

(* Both ends of a connection are at the same test or the same dependency.  *)
WireInv(t) ==
    /\ pc[t] # "await" => expected[t] = NoTest /\ wpc[t] \notin {"body", "reply"}
    /\ pc[t] # "accept" => wpc[t] \notin {"start", "unconnected"}
    /\ job[t] # NoTest <=> pc[t] \in {"start", "await", "drop"}
    /\ pc[t] = "await" => job[t] \notin Ignored /\ OneTest(t)
    /\ pc[t] = "ack" => OneProvide(t)
    /\ pc[t] \notin {"ack", "await"} => Quiet(t)

(* Tests are in the plan, with one thread, or done with.                   *)
PlanInv ==
    /\ left \subseteq Tests
    /\ \A t \in Threads : job[t] # NoTest => job[t] \notin left
    /\ \A t, u \in Threads : job[t] = job[u] /\ job[t] # NoTest => t = u

(* A body was begun exactly for the tests whose worker has got so far.     *)
Unstarted(t) ==
    \/ pc[t] = "start"
    \/ pc[t] = "await" /\ toWorker[t] = <<Frame("RunTest", job[t])>>
    \/ pc[t] = "await" /\ Quiet(t) /\ wpc[t] = "loop"

Started(t) ==
    /\ pc[t] = "await"
    /\ \/ wpc[t] \in {"body", "reply"}
       \/ fromWorker[t] # <<>>
       \/ toWorker[t] = <<Frame("HostedRpcReply", job[t])>>

EarnedAt(t) ==
    /\ pc[t] \in {"start", "await"} => results[job[t]] = 0
    /\ Unstarted(t) => ran[job[t]] = 0
    /\ Started(t) => ran[job[t]] = 1

EarnedInv ==
    /\ ran \in [Tests -> {0, 1}]
    /\ results \in [Tests -> {0, 1}]
    /\ \A x \in left : ran[x] = 0 /\ results[x] = 0
    /\ \A x \in Tests \ Ignored : results[x] = 1 => ran[x] = 1
    /\ \A t \in Threads : EarnedAt(t)

(* Sequential suites.                                                      *)
LocksInv ==
    /\ \A t \in Threads : job[t] # NoTest /\ IsSequential(NodeOf(job[t])) => LockOf(NodeOf(job[t])) \in locks
    /\ \A t, u \in Threads :
          /\ job[t] # NoTest /\ IsSequential(NodeOf(job[t]))
          /\ job[u] # NoTest /\ IsSequential(NodeOf(job[u]))
          /\ LockOf(NodeOf(job[t])) = LockOf(NodeOf(job[u]))
          => t = u

(* What a worker has thrown away was taken before.                         *)
OrderAt(t) ==
    /\ left \subseteq wleft[t]
    /\ job[t] # NoTest => \A y \in left : ~Precedes(y, job[t])
    /\ pc[t] \in {"start", "await"} /\ ran[job[t]] = 0 => job[t] \in wleft[t]

OrderInv == ~overtaken => \A t \in Threads : OrderAt(t)

-----------------------------------------------------------------------------
(* The suites of the tests and their locks.                                *)

LEMMA TreeOfNodes ==
    /\ \A n \in Nodes : n \in Seq(Segments)
    /\ \A n \in Nodes : \A k \in 0..Len(n) : SubSeq(n, 1, k) \in Nodes
    /\ Marked \subseteq Nodes
  BY NodesAssumption DEF NodesFormTree

(* The depth of the topmost marked module above a node.                    *)
LEMMA TopDepthIsLeast ==
    ASSUME NEW n \in Nodes, IsSequential(n)
    PROVE  /\ TopDepth(n) \in MarkedDepths(n)
           /\ \A j \in MarkedDepths(n) : TopDepth(n) <= j
<1>1. Len(n) \in Nat
  BY TreeOfNodes
<1>2. MarkedDepths(n) \subseteq Nat /\ MarkedDepths(n) # {}
  BY <1>1 DEF MarkedDepths, IsSequential
<1>3. PICK k \in MarkedDepths(n) : \A j \in MarkedDepths(n) : ~ (<<j, k>> \in OpToRel(<, Nat))
  BY <1>2, NatLessThanWellFounded, WFMin
<1>4. \A j \in MarkedDepths(n) : k <= j
  <2> SUFFICES ASSUME NEW j \in MarkedDepths(n), ~(k <= j) PROVE FALSE
    OBVIOUS
  <2>1. j < k /\ j \in Nat /\ k \in Nat
    BY <1>2
  <2> QED
    BY <1>3, <2>1 DEF OpToRel
<1> QED
  BY <1>4 DEF TopDepth

(* propagate_sequential: what lies in a marked module has its lock.        *)
LEMMA LockOfModule ==
    ASSUME NEW s \in Marked, NEW x \in Nodes, IsPrefixOf(s, x)
    PROVE  IsSequential(x) /\ LockOf(x) = LockOf(s)
<1>1. s \in Nodes /\ s \in Seq(Segments) /\ x \in Seq(Segments)
  BY TreeOfNodes
<1>2. Len(s) \in Nat /\ Len(x) \in Nat /\ Len(s) <= Len(x) /\ s = SubSeq(x, 1, Len(s))
  BY <1>1 DEF IsPrefixOf
<1>3. ASSUME NEW k \in 0..Len(s) PROVE k \in 0..Len(x) /\ SubSeq(x, 1, k) = SubSeq(s, 1, k)
  <2>1. k \in 0..Len(x)
    BY <1>2
  <2>2. \A i \in 1..Len(s) : s[i] = x[i]
    <3>1. \A i \in 1..Len(s) : SubSeq(x, 1, Len(s))[i] = x[i]
      BY <1>1, <1>2
    <3> QED
      BY <1>2, <3>1
  <2>3. /\ SubSeq(x, 1, k) \in Seq(Segments) /\ Len(SubSeq(x, 1, k)) = k
        /\ SubSeq(s, 1, k) \in Seq(Segments) /\ Len(SubSeq(s, 1, k)) = k
        /\ \A i \in 1..k : SubSeq(x, 1, k)[i] = x[i] /\ SubSeq(s, 1, k)[i] = s[i]
    BY <1>1, <1>2, <2>1
  <2> QED
    BY <1>2, <2>1, <2>2, <2>3, SeqEqual
<1>4. \A k \in 0..Len(s) : k \in MarkedDepths(s) <=> k \in MarkedDepths(x)
  BY <1>3 DEF MarkedDepths
<1>5. Len(s) \in MarkedDepths(s)
  <2>1. SubSeq(s, 1, Len(s)) = s /\ Len(s) \in 0..Len(s)
    BY <1>1, <1>2, SubSeqFull
  <2> QED
    BY <2>1 DEF MarkedDepths
<1>6. IsSequential(s) /\ IsSequential(x)
  BY <1>2, <1>4, <1>5 DEF IsSequential
<1>7. /\ TopDepth(s) \in MarkedDepths(s) /\ \A j \in MarkedDepths(s) : TopDepth(s) <= j
      /\ TopDepth(x) \in MarkedDepths(x) /\ \A j \in MarkedDepths(x) : TopDepth(x) <= j
  BY <1>1, <1>6, TopDepthIsLeast
<1>8. TopDepth(s) \in 0..Len(s) /\ TopDepth(x) \in 0..Len(s)
  BY <1>2, <1>4, <1>5, <1>7 DEF MarkedDepths
<1>9. TopDepth(s) = TopDepth(x)
  BY <1>4, <1>7, <1>8
<1> QED
  BY <1>3, <1>6, <1>8, <1>9 DEF LockOf

LEMMA NodeOfTest ==
    ASSUME NEW x \in Tests
    PROVE  /\ NodeOf(x) \in Nodes
           /\ \E i \in DOMAIN OwnTests[NodeOf(x)] : OwnTests[NodeOf(x)][i] = x
<1>1. \E n \in Nodes : \E i \in DOMAIN OwnTests[n] : OwnTests[n][i] = x
  BY TestsAssumption DEF TestsHaveNodes
<1> QED
  BY <1>1 DEF NodeOf

-----------------------------------------------------------------------------

LEMMA FrameParts ==
    ASSUME NEW a, NEW x, NEW b, NEW y
    PROVE  /\ Frame(a, x).type = a /\ Frame(a, x).of = x
           /\ Frame(a, x) = Frame(b, y) => a = b /\ x = y
<1>1. Frame(a, x).type = a /\ Frame(a, x).of = x /\ Frame(b, y).type = b /\ Frame(b, y).of = y
  BY DEF Frame
<1> QED
  BY <1>1

(* A channel with at most one frame.                                       *)
LEMMA OneFrame ==
    ASSUME NEW f
    PROVE  /\ Append(<<>>, f) = <<f>>
           /\ Tail(<<f>>) = <<>> /\ Head(<<f>>) = f
           /\ <<f>> # <<>> /\ Len(<<f>>) = 1 /\ DOMAIN <<f>> = {1} /\ <<f>>[1] = f
  OBVIOUS

LEMMA PushStep ==
    ASSUME NEW c, DOMAIN c = Threads, NEW t \in Threads, NEW f
    PROVE  /\ DOMAIN Push(c, t, f) = Threads
           /\ \A u \in Threads \ {t} : Push(c, t, f)[u] = c[u]
           /\ c[t] = <<>> => Push(c, t, f)[t] = <<f>>
<1>1. Push(c, t, f)[t] = Append(c[t], f)
  BY DEF Push
<1>2. DOMAIN Push(c, t, f) = Threads /\ \A u \in Threads \ {t} : Push(c, t, f)[u] = c[u]
  BY DEF Push
<1> QED
  BY <1>1, <1>2, OneFrame

LEMMA PopStep ==
    ASSUME NEW c, DOMAIN c = Threads, NEW t \in Threads
    PROVE  /\ DOMAIN Pop(c, t) = Threads
           /\ \A u \in Threads \ {t} : Pop(c, t)[u] = c[u]
           /\ \A g : c[t] = <<g>> => Pop(c, t)[t] = <<>>
<1>1. Pop(c, t)[t] = Tail(c[t])
  BY DEF Pop
<1>2. DOMAIN Pop(c, t) = Threads /\ \A u \in Threads \ {t} : Pop(c, t)[u] = c[u]
  BY DEF Pop
<1> QED
  BY <1>1, <1>2, OneFrame

(* Nothing of u's connection changes.                                      *)
Same(u) ==
    /\ pc'[u] = pc[u] /\ job'[u] = job[u] /\ shipped'[u] = shipped[u]
    /\ toWorker'[u] = toWorker[u] /\ fromWorker'[u] = fromWorker[u]
    /\ wpc'[u] = wpc[u] /\ expected'[u] = expected[u]

LEMMA SameWire ==
    ASSUME NEW u \in Threads, WireInv(u), Same(u), aborted => aborted'
    PROVE  WireInv(u)'
<1>1. OneTest(u) => OneTest(u)'
  BY DEF OneTest, Same
<1>2. OneProvide(u) => OneProvide(u)'
  BY DEF OneProvide, Same
<1>3. Quiet(u) => Quiet(u)'
  BY DEF Quiet, Same
<1> QED
  BY <1>1, <1>2, <1>3 DEF WireInv, Same

-----------------------------------------------------------------------------
(* The steps of a parent thread and its connection.                        *)

AllWires == WireTypes /\ left \subseteq Tests /\ wleft \in [Threads -> SUBSET Tests] /\ \A t \in Threads : WireInv(t)

(* A step of t, or of its worker, leaves the other connections alone.      *)
Step(t) == WireTypes' /\ (\A u \in Threads \ {t} : Same(u)) /\ WireInv(t)'

LEMMA ParentWire == ASSUME AllWires, NEW t \in Threads, ParentStep(t) PROVE Step(t)
<1> USE DEF planVars, wireVars, workerVars
<1>1. WireTypes /\ WireInv(t)
  BY DEF AllWires
<1>2. ~aborted
  BY DEF ParentStep
<1>3. CASE Accept(t)
  <2>1. /\ pc[t] = "accept" /\ wpc[t] \notin {"start", "unconnected"}
        /\ \E l \in {"check", "ship"} : pc' = [pc EXCEPT ![t] = l]
        /\ UNCHANGED <<job, shipped, toWorker, fromWorker, wpc, expected>>
    BY <1>3 DEF Accept, Goto
  <2>2. WireTypes' /\ \A u \in Threads \ {t} : Same(u)
    BY <1>1, <2>1 DEF WireTypes, Same, ParentLabels
  <2>3. WireInv(t)'
    BY <1>1, <2>1 DEF WireTypes, WireInv, Quiet
  <2> QED
    BY <2>2, <2>3 DEF Step
<1>4. CASE Ship(t)
  <2>1. /\ pc[t] = "ship" /\ pc' = [pc EXCEPT ![t] = "ack"]
        /\ toWorker' = Push(toWorker, t, Frame("Provide", Shipped[shipped[t] + 1]))
        /\ UNCHANGED <<job, shipped, fromWorker, wpc, expected>>
    BY <1>4 DEF Ship, Goto
  <2>2. WireTypes' /\ \A u \in Threads \ {t} : Same(u)
    BY <1>1, <2>1, PushStep DEF WireTypes, Same, ParentLabels
  <2>3. toWorker'[t] = <<Frame("Provide", Shipped[shipped[t] + 1])>> /\ fromWorker[t] = <<>>
    BY <1>1, <2>1, PushStep DEF WireTypes, WireInv, Quiet
  <2>4. OneProvide(t)'
    BY <2>1, <2>3 DEF OneProvide
  <2>5. WireInv(t)'
    BY <1>1, <2>1, <2>4 DEF WireTypes, WireInv
  <2> QED
    BY <2>2, <2>5 DEF Step
<1>5. CASE ReceiveAck(t)
  <2>1. /\ pc[t] = "ack" /\ fromWorker[t] # <<>> /\ fromWorker' = Pop(fromWorker, t)
        /\ UNCHANGED <<job, toWorker, wpc, expected>>
    BY <1>5 DEF ReceiveAck
  <2>2. toWorker[t] = <<>> /\ fromWorker[t] = <<Frame("Accepted", Shipped[shipped[t] + 1])>>
    BY <1>1, <2>1 DEF WireInv, OneProvide
  <2>3. Head(fromWorker[t]) = Frame("Accepted", Shipped[shipped[t] + 1])
    BY <2>2, OneFrame
  <2>4. /\ shipped' = [shipped EXCEPT ![t] = @ + 1]
        /\ \E l \in {"check", "ship"} : pc' = [pc EXCEPT ![t] = l]
    BY <1>5, <2>3 DEF ReceiveAck, Goto
  <2>5. WireTypes' /\ \A u \in Threads \ {t} : Same(u)
    <3>1. PICK l \in {"check", "ship"} : pc' = [pc EXCEPT ![t] = l]
      BY <2>4
    <3>2. shipped' \in [Threads -> Nat] /\ pc' \in [Threads -> ParentLabels]
      BY <1>1, <2>4, <3>1 DEF WireTypes, ParentLabels
    <3>3. WireTypes'
      BY <1>1, <2>1, <3>2, PopStep DEF WireTypes
    <3>4. \A u \in Threads \ {t} : pc'[u] = pc[u] /\ shipped'[u] = shipped[u]
      BY <1>1, <2>4, <3>1 DEF WireTypes
    <3> QED
      BY <1>1, <2>1, <3>3, <3>4, PopStep DEF WireTypes, Same
  <2>6. fromWorker'[t] = <<>>
    BY <1>1, <2>1, <2>2, PopStep DEF WireTypes
  <2>7. WireInv(t)'
    BY <1>1, <2>1, <2>2, <2>4, <2>6 DEF WireTypes, WireInv, Quiet
  <2> QED
    BY <2>5, <2>7 DEF Step
<1>6. CASE CheckDone(t) \/ PickNext(t) \/ PickNothing(t)
  <2>1. /\ pc[t] \in {"check", "pick", "walk"}
        /\ \E l \in {"exit", "pick", "walk", "check"} : pc' = [pc EXCEPT ![t] = l]
        /\ UNCHANGED <<job, shipped, toWorker, fromWorker, wpc, expected>>
    BY <1>6 DEF CheckDone, PickNext, PickNothing, Goto
  <2>2. WireTypes' /\ \A u \in Threads \ {t} : Same(u)
    BY <1>1, <2>1 DEF WireTypes, Same, ParentLabels
  <2>3. WireInv(t)'
    BY <1>1, <2>1 DEF WireTypes, WireInv, Quiet
  <2> QED
    BY <2>2, <2>3 DEF Step
<1>7. CASE PickTest(t)
  <2>1. /\ pc[t] = "walk" /\ pc' = [pc EXCEPT ![t] = "start"]
        /\ \E x \in left : job' = [job EXCEPT ![t] = x]
        /\ UNCHANGED <<shipped, toWorker, fromWorker, wpc, expected>>
    BY <1>7 DEF PickTest, Goto
  <2>2. left \subseteq Tests => WireTypes' /\ \A u \in Threads \ {t} : Same(u)
    BY <1>1, <2>1 DEF WireTypes, Same, ParentLabels
  <2>3. left \subseteq Tests => WireInv(t)'
    BY <1>1, <2>1, ProtocolAssumption DEF WireTypes, WireInv, Quiet
  <2> QED
    BY <2>2, <2>3 DEF Step, AllWires
<1>8. CASE ReportIgnored(t)
  <2>1. /\ pc[t] = "start" /\ pc' = [pc EXCEPT ![t] = "drop"]
        /\ UNCHANGED <<job, shipped, toWorker, fromWorker, wpc, expected>>
    BY <1>8 DEF ReportIgnored, Goto
  <2>2. WireTypes' /\ \A u \in Threads \ {t} : Same(u)
    BY <1>1, <2>1 DEF WireTypes, Same, ParentLabels
  <2>3. WireInv(t)'
    BY <1>1, <2>1 DEF WireTypes, WireInv, Quiet
  <2> QED
    BY <2>2, <2>3 DEF Step
<1>9. CASE SendRunTest(t)
  <2>1. /\ pc[t] = "start" /\ pc' = [pc EXCEPT ![t] = "await"] /\ job[t] \notin Ignored
        /\ wpc[t] # "gone"
        /\ toWorker' = Push(toWorker, t, Frame("RunTest", job[t]))
        /\ UNCHANGED <<job, shipped, fromWorker, wpc, expected>>
    BY <1>9 DEF SendRunTest, Goto
  <2>2. WireTypes' /\ \A u \in Threads \ {t} : Same(u)
    BY <1>1, <2>1, PushStep DEF WireTypes, Same, ParentLabels
  <2>3. toWorker'[t] = <<Frame("RunTest", job[t])>> /\ fromWorker[t] = <<>>
    BY <1>1, <2>1, PushStep DEF WireTypes, WireInv, Quiet
  <2>4. expected[t] = NoTest /\ wpc[t] = "loop"
    BY <1>1, <2>1 DEF WireTypes, WireInv, WorkerLabels
  <2>5. OneTest(t)'
    BY <2>1, <2>3, <2>4 DEF OneTest
  <2>6. WireInv(t)'
    BY <1>1, <2>1, <2>4, <2>5 DEF WireTypes, WireInv
  <2> QED
    BY <2>2, <2>6 DEF Step
<1>10. CASE ReceiveResponse(t)
  <2>1. /\ pc[t] = "await" /\ fromWorker[t] # <<>> /\ fromWorker' = Pop(fromWorker, t)
        /\ UNCHANGED <<job, shipped, wpc, expected>>
    BY <1>10 DEF ReceiveResponse
  <2>2. OneTest(t) /\ job[t] \notin Ignored /\ toWorker[t] = <<>>
    BY <1>1, <2>1 DEF WireInv, OneTest
  <2>3. CASE fromWorker[t] = <<Frame("TestFinished", job[t])>>
    <3>1. IsResult(Head(fromWorker[t]))
      BY <2>3, OneFrame, FrameParts DEF IsResult
    <3>2. pc' = [pc EXCEPT ![t] = "drop"] /\ UNCHANGED toWorker
      BY <1>10, <3>1 DEF ReceiveResponse, Goto
    <3>3. WireTypes' /\ \A u \in Threads \ {t} : Same(u)
      BY <1>1, <2>1, <3>2, PopStep DEF WireTypes, Same, ParentLabels
    <3>4. fromWorker'[t] = <<>> /\ expected[t] = NoTest /\ wpc[t] \in {"loop", "gone"}
      <4>1. fromWorker[t] # <<Frame("HostedRpcCall", job[t])>>
        BY <2>3, OneFrame, FrameParts
      <4>2. expected[t] = NoTest /\ wpc[t] \in {"loop", "gone"}
        BY <2>1, <2>2, <4>1 DEF OneTest
      <4>3. fromWorker'[t] = <<>>
        BY <1>1, <2>1, <2>3, PopStep DEF WireTypes
      <4> QED
        BY <4>2, <4>3
    <3>5. WireInv(t)'
      BY <1>1, <2>1, <2>2, <3>2, <3>4 DEF WireTypes, WireInv, Quiet
    <3> QED
      BY <3>3, <3>5 DEF Step
  <2>4. CASE fromWorker[t] = <<Frame("HostedRpcCall", job[t])>>
    <3>1. /\ ~IsResult(Head(fromWorker[t]))
          /\ Head(fromWorker[t]).type = "HostedRpcCall" /\ Head(fromWorker[t]).of = job[t]
      BY <2>4, OneFrame, FrameParts DEF IsResult
    <3>2. UNCHANGED pc /\ toWorker' = Push(toWorker, t, Frame("HostedRpcReply", job[t]))
      BY <1>10, <3>1 DEF ReceiveResponse
    <3>3. WireTypes' /\ \A u \in Threads \ {t} : Same(u)
      BY <1>1, <2>1, <3>2, PushStep, PopStep DEF WireTypes, Same
    <3>4. fromWorker[t] # <<Frame("TestFinished", job[t])>>
      BY <2>4, OneFrame, FrameParts
    <3>5. expected[t] = job[t] /\ wpc[t] \in {"reply", "gone"}
      BY <1>2, <2>1, <2>2, <3>4 DEF OneTest
    <3>6. fromWorker'[t] = <<>> /\ toWorker'[t] = <<Frame("HostedRpcReply", job[t])>>
      <4>1. fromWorker'[t] = <<>>
        BY <1>1, <2>1, <2>4, PopStep DEF WireTypes
      <4>2. toWorker'[t] = <<Frame("HostedRpcReply", job[t])>>
        BY <1>1, <2>2, <3>2, PushStep DEF WireTypes
      <4> QED
        BY <4>1, <4>2
    <3>7. OneTest(t)'
      BY <2>1, <3>5, <3>6 DEF OneTest
    <3>8. WireInv(t)'
      BY <1>1, <2>1, <2>2, <3>2, <3>7 DEF WireTypes, WireInv
    <3> QED
      BY <3>3, <3>8 DEF Step
  <2> QED
    BY <2>1, <2>2, <2>3, <2>4 DEF OneTest
<1>11. CASE DropExecution(t)
  <2>1. /\ pc[t] = "drop" /\ pc' = [pc EXCEPT ![t] = "check"] /\ job' = [job EXCEPT ![t] = NoTest]
        /\ UNCHANGED <<shipped, toWorker, fromWorker, wpc, expected>>
    BY <1>11 DEF DropExecution, Goto
  <2>2. WireTypes' /\ \A u \in Threads \ {t} : Same(u)
    BY <1>1, <2>1 DEF WireTypes, Same, ParentLabels
  <2>3. WireInv(t)'
    BY <1>1, <2>1 DEF WireTypes, WireInv, Quiet
  <2> QED
    BY <2>2, <2>3 DEF Step
<1>12. CASE Abort(t)
  <2>1. aborted' = TRUE /\ UNCHANGED <<pc, job, shipped, toWorker, fromWorker, wpc, expected>>
    BY <1>12 DEF Abort
  <2>2. WireTypes' /\ \A u \in Threads : Same(u)
    BY <1>1, <2>1 DEF WireTypes, Same
  <2> QED
    BY <1>1, <2>1, <2>2, SameWire DEF Step
<1> QED
  BY <1>3, <1>4, <1>5, <1>6, <1>7, <1>8, <1>9, <1>10, <1>11, <1>12 DEF ParentStep

-----------------------------------------------------------------------------
(* The steps of a worker and its connection.                               *)

(* Steps of a worker that write or read nothing.                           *)
LEMMA WorkerMoves ==
    ASSUME AllWires, NEW t \in Threads, NEW l \in WorkerLabels, wpc' = [wpc EXCEPT ![t] = l],
           UNCHANGED <<pc, job, shipped, toWorker, fromWorker, expected, aborted>>,
           \/ l = "gone"
           \/ wpc[t] = "start" /\ l \in {"loop", "unconnected"}
           \/ wpc[t] = "loop" /\ l = "body" /\ expected[t] # NoTest
           \/ wpc[t] = "reply" /\ l = "body" /\ toWorker[t] = <<>> /\ aborted
    PROVE  Step(t)
<1>1. WireTypes /\ WireInv(t)
  BY DEF AllWires
<1>2. WireTypes' /\ (\A u \in Threads \ {t} : Same(u)) /\ wpc'[t] = l
  BY <1>1 DEF WireTypes, Same
<1>3. ASSUME pc[t] = "await" PROVE OneTest(t)'
  <2>1. OneTest(t) /\ wpc[t] \notin {"start", "unconnected"}
    BY <1>1, <1>3 DEF WireInv
  <2>2. CASE l = "gone"
    BY <1>2, <2>1, <2>2 DEF OneTest
  <2>3. CASE wpc[t] = "loop" /\ l = "body" /\ expected[t] # NoTest
    BY <1>2, <2>1, <2>3 DEF OneTest
  <2>4. CASE wpc[t] = "reply" /\ l = "body" /\ toWorker[t] = <<>> /\ aborted
    <3>1. toWorker[t] # <<Frame("HostedRpcReply", job[t])>>
      BY <2>4, OneFrame
    <3> QED
      BY <1>2, <2>1, <2>4, <3>1 DEF OneTest
  <2> QED
    BY <2>1, <2>2, <2>3, <2>4
<1>4. OneProvide(t) => OneProvide(t)'
  BY DEF OneProvide
<1>5. WireInv(t)'
  BY <1>1, <1>2, <1>3, <1>4 DEF WireInv, Quiet
<1> QED
  BY <1>2, <1>5 DEF Step

LEMMA WorkerWire == ASSUME AllWires, NEW t \in Threads, WorkerStep(t) \/ Crash(t) PROVE Step(t)
<1> USE DEF planVars, parentVars, wireVars, workerVars
<1>1. WireTypes /\ WireInv(t)
  BY DEF AllWires
<1>2. CASE Connect(t)
  BY <1>2, WorkerMoves DEF Connect, WGoto, WorkerLabels
<1>3. CASE Drained(t)
  BY <1>3, WorkerMoves DEF Drained, WGoto, WorkerLabels
<1>4. CASE StartBody(t)
  <2>1. expected[t] # NoTest
    <3>1. wleft[t] \subseteq Tests
      BY DEF AllWires
    <3> QED
      BY <1>4, <3>1, ProtocolAssumption DEF StartBody, FirstTest
  <2> QED
    BY <1>4, <2>1, WorkerMoves DEF StartBody, WGoto, WorkerLabels
<1>5. CASE Panic(t)
  BY <1>5, WorkerMoves DEF Panic, WGoto, WorkerLabels
<1>6. CASE Crash(t)
  BY <1>6, WorkerMoves DEF Crash, WGoto, WorkerLabels
<1>7. CASE Discard(t)
  <2>1. UNCHANGED <<pc, job, shipped, toWorker, fromWorker, wpc, expected, aborted>>
    BY <1>7 DEF Discard
  <2>2. WireTypes' /\ \A u \in Threads : Same(u)
    BY <1>1, <2>1 DEF WireTypes, Same
  <2> QED
    BY <1>1, <2>1, <2>2, SameWire DEF Step
<1>8. CASE AcceptProvided(t)
  <2> DEFINE dep == Shipped[shipped[t] + 1]
  <2>1. /\ wpc[t] = "loop" /\ expected[t] = NoTest /\ toWorker[t] # <<>>
        /\ Head(toWorker[t]).type = "Provide"
        /\ toWorker' = Pop(toWorker, t)
        /\ fromWorker' = Push(fromWorker, t, Frame("Accepted", Head(toWorker[t]).of))
        /\ UNCHANGED <<pc, job, shipped, wpc, expected, aborted>>
    BY <1>8 DEF AcceptProvided, AtCommandLoop
  <2>2. pc[t] \in {"ack", "await"}
    BY <1>1, <2>1 DEF WireInv, Quiet
  <2>3. pc[t] # "await"
    <3> SUFFICES ASSUME pc[t] = "await" PROVE FALSE
      OBVIOUS
    <3>1. OneTest(t)
      BY <1>1 DEF WireInv
    <3>2. \/ toWorker[t] = <<Frame("RunTest", job[t])>>
          \/ toWorker[t] = <<Frame("HostedRpcReply", job[t])>>
      BY <2>1, <3>1 DEF OneTest
    <3> QED
      BY <2>1, <3>2, OneFrame, FrameParts
  <2>4. toWorker[t] = <<Frame("Provide", dep)>> /\ fromWorker[t] = <<>>
    BY <1>1, <2>1, <2>2, <2>3 DEF WireInv, OneProvide
  <2>5. Head(toWorker[t]).of = dep
    BY <2>4, OneFrame, FrameParts
  <2>6. toWorker'[t] = <<>> /\ fromWorker'[t] = <<Frame("Accepted", dep)>>
    <3>1. toWorker'[t] = <<>>
      BY <1>1, <2>1, <2>4, PopStep DEF WireTypes
    <3>2. fromWorker'[t] = <<Frame("Accepted", dep)>>
      BY <1>1, <2>1, <2>4, <2>5, PushStep DEF WireTypes
    <3> QED
      BY <3>1, <3>2
  <2>7. WireTypes' /\ \A u \in Threads \ {t} : Same(u)
    BY <1>1, <2>1, PushStep, PopStep DEF WireTypes, Same
  <2>8. OneProvide(t)'
    BY <2>1, <2>6 DEF OneProvide
  <2>9. WireInv(t)'
    BY <1>1, <2>1, <2>2, <2>3, <2>8 DEF WireInv
  <2> QED
    BY <2>7, <2>9 DEF Step
<1>9. CASE ExpectTest(t)
  <2>1. /\ wpc[t] = "loop" /\ expected[t] = NoTest /\ toWorker[t] # <<>>
        /\ Head(toWorker[t]).type = "RunTest"
        /\ toWorker' = Pop(toWorker, t)
        /\ expected' = [expected EXCEPT ![t] = Head(toWorker[t]).of]
        /\ UNCHANGED <<pc, job, shipped, wpc, fromWorker, aborted>>
    BY <1>9 DEF ExpectTest, AtCommandLoop
  <2>2. pc[t] \in {"ack", "await"}
    BY <1>1, <2>1 DEF WireInv, Quiet
  <2>3. pc[t] # "ack"
    <3> SUFFICES ASSUME pc[t] = "ack" PROVE FALSE
      OBVIOUS
    <3>1. toWorker[t] = <<Frame("Provide", Shipped[shipped[t] + 1])>>
      BY <1>1, <2>1 DEF WireInv, OneProvide
    <3> QED
      BY <2>1, <3>1, OneFrame, FrameParts
  <2>4. toWorker[t] = <<Frame("RunTest", job[t])>> /\ fromWorker[t] = <<>>
    <3>1. OneTest(t) /\ toWorker[t] # <<Frame("HostedRpcReply", job[t])>>
      BY <1>1, <2>1, <2>2, <2>3, OneFrame, FrameParts DEF WireInv
    <3> QED
      BY <2>1, <3>1 DEF OneTest
  <2>5. Head(toWorker[t]).of = job[t] /\ toWorker'[t] = <<>>
    <3>1. Head(toWorker[t]).of = job[t]
      BY <2>4, OneFrame, FrameParts
    <3>2. toWorker'[t] = <<>>
      BY <1>1, <2>1, <2>4, PopStep DEF WireTypes
    <3> QED
      BY <3>1, <3>2
  <2>6. WireTypes' /\ (\A u \in Threads \ {t} : Same(u)) /\ expected'[t] = job[t]
    <3>1. expected' \in [Threads -> Tests \cup {NoTest}] /\ expected'[t] = job[t]
      BY <1>1, <2>1, <2>5 DEF WireTypes
    <3> QED
      BY <1>1, <2>1, <3>1, PopStep DEF WireTypes, Same
  <2>7. OneTest(t)'
    BY <2>1, <2>4, <2>5, <2>6 DEF OneTest
  <2>8. WireInv(t)'
    BY <1>1, <2>1, <2>2, <2>3, <2>7 DEF WireInv
  <2> QED
    BY <2>6, <2>8 DEF Step
<1>10. CASE CallOwner(t) \/ FinishBody(t)
  <2>1. PICK l \in {"reply", "loop"}, f \in {Frame("HostedRpcCall", expected[t]), Frame("TestFinished", expected[t])} :
           /\ wpc[t] = "body" /\ ~aborted /\ wpc' = [wpc EXCEPT ![t] = l]
           /\ fromWorker' = Push(fromWorker, t, f)
           /\ \/ l = "reply" /\ f = Frame("HostedRpcCall", expected[t]) /\ UNCHANGED expected
              \/ /\ l = "loop" /\ f = Frame("TestFinished", expected[t])
                 /\ expected' = [expected EXCEPT ![t] = NoTest]
           /\ UNCHANGED <<pc, job, shipped, toWorker, aborted>>
    BY <1>10 DEF CallOwner, FinishBody, ParentClosed, WGoto
  <2>2. pc[t] = "await" /\ OneTest(t) /\ job[t] \notin Ignored
    BY <1>1, <2>1 DEF WireInv
  <2>3. toWorker[t] = <<>> /\ fromWorker[t] = <<>> /\ expected[t] = job[t]
    BY <2>1, <2>2 DEF OneTest
  <2>4. fromWorker'[t] = <<f>> /\ wpc'[t] = l
    BY <1>1, <2>1, <2>3, PushStep DEF WireTypes
  <2>5. WireTypes' /\ \A u \in Threads \ {t} : Same(u)
    <3>1. /\ wpc' \in [Threads -> WorkerLabels]
          /\ expected' \in [Threads -> Tests \cup {NoTest}]
          /\ \A u \in Threads \ {t} : wpc'[u] = wpc[u] /\ expected'[u] = expected[u]
      BY <1>1, <2>1 DEF WireTypes, WorkerLabels
    <3> QED
      BY <1>1, <2>1, <3>1, PushStep DEF WireTypes, Same
  <2>6. OneTest(t)'
    <3>1. CASE l = "reply" /\ f = Frame("HostedRpcCall", expected[t]) /\ UNCHANGED expected
      BY <2>1, <2>3, <2>4, <3>1 DEF OneTest
    <3>2. CASE l = "loop" /\ f = Frame("TestFinished", expected[t]) /\ expected' = [expected EXCEPT ![t] = NoTest]
      <4>1. expected'[t] = NoTest
        BY <1>1, <3>2 DEF WireTypes
      <4> QED
        BY <2>1, <2>3, <2>4, <3>2, <4>1 DEF OneTest
    <3> QED
      BY <2>1, <3>1, <3>2
  <2>7. WireInv(t)'
    BY <1>1, <2>1, <2>2, <2>4, <2>6 DEF WireInv
  <2> QED
    BY <2>5, <2>7 DEF Step
<1>11. CASE ReceiveReply(t)
  <2>1. /\ wpc[t] = "reply" /\ wpc' = [wpc EXCEPT ![t] = "body"]
        /\ UNCHANGED <<pc, job, shipped, fromWorker, expected, aborted>>
    BY <1>11 DEF ReceiveReply, WGoto
  <2>2. pc[t] = "await" /\ OneTest(t) /\ job[t] \notin Ignored
    BY <1>1, <2>1 DEF WireInv
  <2>3. CASE toWorker[t] # <<>> /\ toWorker' = Pop(toWorker, t)
    <3>1. /\ toWorker[t] = <<Frame("HostedRpcReply", job[t])>> /\ fromWorker[t] = <<>>
          /\ expected[t] = job[t]
      BY <2>1, <2>2, <2>3 DEF OneTest
    <3>2. toWorker'[t] = <<>> /\ wpc'[t] = "body"
      BY <1>1, <2>1, <2>3, <3>1, PopStep DEF WireTypes
    <3>3. WireTypes' /\ \A u \in Threads \ {t} : Same(u)
      <4>1. wpc' \in [Threads -> WorkerLabels] /\ \A u \in Threads \ {t} : wpc'[u] = wpc[u]
        BY <1>1, <2>1 DEF WireTypes, WorkerLabels
      <4> QED
        BY <1>1, <2>1, <2>3, <4>1, PopStep DEF WireTypes, Same
    <3>4. OneTest(t)'
      BY <2>1, <3>1, <3>2 DEF OneTest
    <3>5. WireInv(t)'
      BY <1>1, <2>1, <2>2, <3>2, <3>4 DEF WireInv
    <3> QED
      BY <3>3, <3>5 DEF Step
  <2>4. CASE toWorker[t] = <<>> /\ ParentClosed(t) /\ UNCHANGED toWorker
    <3>1. aborted
      BY <2>2, <2>4 DEF ParentClosed
    <3> QED
      BY <2>1, <2>4, <3>1, WorkerMoves DEF WorkerLabels
  <2> QED
    BY <1>11, <2>3, <2>4 DEF ReceiveReply
<1> QED
  BY <1>2, <1>3, <1>4, <1>5, <1>6, <1>7, <1>8, <1>9, <1>10, <1>11 DEF WorkerStep

LEMMA WireInit == Init => AllWires
  BY DEF Init, AllWires, WireTypes, WireInv, Quiet, ParentLabels, WorkerLabels

-----------------------------------------------------------------------------
(* What becomes less, and what never does.                                 *)

LEMMA Shrinks ==
    ASSUME AllWires, [Next]_vars
    PROVE  /\ left' \subseteq left
           /\ wleft' \in [Threads -> SUBSET Tests]
           /\ aborted => aborted'
           /\ overtaken => overtaken'
<1> USE DEF planVars, parentVars, wireVars, workerVars
<1>1. wleft \in [Threads -> SUBSET Tests]
  BY DEF AllWires
<1>2. ASSUME NEW t \in Threads, ParentStep(t)
      PROVE  left' \subseteq left /\ UNCHANGED wleft /\ (aborted => aborted') /\ (overtaken => overtaken')
  <2>1. CASE PickTest(t)
    <3>1. PICK x \in left : left' = left \ {x} /\ overtaken' = (overtaken \/ \E y \in left : Precedes(y, x))
      BY <2>1 DEF PickTest
    <3>2. left' \subseteq left
      BY <3>1
    <3>3. UNCHANGED wleft /\ UNCHANGED aborted
      BY <2>1 DEF PickTest
    <3>4. overtaken => overtaken'
      BY <3>1, Zenon
    <3> QED
      BY <3>2, <3>3, <3>4
  <2>2. CASE Abort(t)
    BY <2>2 DEF Abort
  <2>3. CASE \/ Accept(t) \/ Ship(t) \/ ReceiveAck(t) \/ CheckDone(t) \/ PickNext(t) \/ PickNothing(t)
             \/ ReportIgnored(t) \/ SendRunTest(t) \/ ReceiveResponse(t) \/ DropExecution(t)
    <3>1. UNCHANGED <<left, wleft, aborted, overtaken>>
      BY <2>3 DEF Accept, Ship, ReceiveAck, CheckDone, PickNext, PickNothing,
                  ReportIgnored, SendRunTest, ReceiveResponse, DropExecution
    <3> QED
      BY <3>1
  <2> QED
    BY <1>2, <2>1, <2>2, <2>3 DEF ParentStep
<1>3. ASSUME NEW t \in Threads, WorkerStep(t) \/ Crash(t)
      PROVE  /\ UNCHANGED <<left, aborted, overtaken>>
             /\ wleft' = wleft \/ \E x : wleft' = [wleft EXCEPT ![t] = @ \ {x}]
  BY <1>3 DEF WorkerStep, Connect, Drained, AcceptProvided, ExpectTest, Discard, StartBody, CallOwner,
              ReceiveReply, FinishBody, Panic, Crash
<1>4. ASSUME NEW t \in Threads, WorkerStep(t) \/ Crash(t) PROVE wleft' \in [Threads -> SUBSET Tests]
  BY <1>1, <1>3, <1>4
<1>5. CASE UNCHANGED vars
  BY <1>1, <1>5 DEF vars
<1> QED
  BY <1>1, <1>2, <1>3, <1>4, <1>5 DEF Next, Ended

LEMMA WireNext == ASSUME AllWires, [Next]_vars PROVE AllWires'
<1>1. left' \subseteq Tests /\ wleft' \in [Threads -> SUBSET Tests] /\ (aborted => aborted')
  BY Shrinks DEF AllWires
<1>2. ASSUME NEW t \in Threads, Step(t) PROVE AllWires'
  BY <1>1, <1>2, SameWire DEF Step, AllWires
<1>3. CASE UNCHANGED vars
  <2>1. WireTypes' /\ \A u \in Threads : Same(u)
    BY <1>3 DEF vars, parentVars, wireVars, workerVars, AllWires, WireTypes, Same
  <2> QED
    BY <1>1, <2>1, SameWire DEF AllWires
<1> QED
  BY <1>2, <1>3, ParentWire, WorkerWire DEF Next, Ended

-----------------------------------------------------------------------------
(* The plan of the parent and its locks.                                   *)

LEMMA WorkersLeavePlan ==
    ASSUME NEW t \in Threads, WorkerStep(t) \/ Crash(t)
    PROVE  UNCHANGED <<left, locks, job, pc, results, overtaken>>
  BY DEF WorkerStep, Connect, Drained, AcceptProvided, ExpectTest, Discard, StartBody, CallOwner,
         ReceiveReply, FinishBody, Panic, Crash, planVars, parentVars

LEMMA OthersLeavePlan ==
    ASSUME NEW t \in Threads,
           \/ Accept(t) \/ Ship(t) \/ ReceiveAck(t) \/ CheckDone(t) \/ PickNext(t) \/ PickNothing(t)
           \/ ReportIgnored(t) \/ SendRunTest(t) \/ ReceiveResponse(t) \/ Abort(t)
    PROVE  UNCHANGED <<left, locks, job, overtaken>>
  BY DEF Accept, Ship, ReceiveAck, CheckDone, PickNext, PickNothing, ReportIgnored, SendRunTest,
         ReceiveResponse, Abort, planVars, parentVars

LEMMA PlanNext == ASSUME AllWires, PlanInv, LocksInv, [Next]_vars PROVE PlanInv' /\ LocksInv'
<1>1. WireTypes /\ \A t \in Threads : WireInv(t)
  BY DEF AllWires
<1>2. CASE UNCHANGED <<left, locks, job>>
  BY <1>2 DEF PlanInv, LocksInv
<1>3. ASSUME NEW t \in Threads, PickTest(t) PROVE PlanInv' /\ LocksInv'
  <2>1. PICK x \in left : /\ LockOf(NodeOf(x)) \notin locks
                          /\ left' = left \ {x}
                          /\ locks' = Acquired(NodeOf(x))
                          /\ job' = [job EXCEPT ![t] = x]
    BY <1>3 DEF PickTest
  <2>2. x \in Tests /\ \A u \in Threads : job'[u] = IF u = t THEN x ELSE job[u]
    BY <1>1, <2>1 DEF PlanInv, WireTypes
  <2>3. PlanInv'
    BY <2>1, <2>2 DEF PlanInv
  <2>4. /\ locks \subseteq locks'
        /\ IsSequential(NodeOf(x)) => LockOf(NodeOf(x)) \in locks'
    BY <2>1 DEF Acquired
  <2>5. LocksInv'
    BY <2>1, <2>2, <2>4 DEF LocksInv
  <2> QED
    BY <2>3, <2>5
<1>4. ASSUME NEW t \in Threads, DropExecution(t) PROVE PlanInv' /\ LocksInv'
  <2> DEFINE n == NodeOf(job[t])
  <2>1. /\ job' = [job EXCEPT ![t] = NoTest] /\ UNCHANGED left /\ job[t] # NoTest
        /\ locks' = IF IsSequential(n) THEN locks \ {LockOf(n)} ELSE locks
    BY <1>1, <1>4 DEF DropExecution, WireInv
  <2>2. \A u \in Threads : job'[u] = IF u = t THEN NoTest ELSE job[u]
    BY <1>1, <2>1 DEF WireTypes
  <2>3. PlanInv'
    BY <2>1, <2>2 DEF PlanInv
  <2>4. ASSUME NEW u \in Threads, job'[u] # NoTest, IsSequential(NodeOf(job'[u]))
        PROVE  LockOf(NodeOf(job'[u])) \in locks'
    <3>1. u # t /\ job'[u] = job[u] /\ LockOf(NodeOf(job[u])) \in locks
      BY <2>2, <2>4 DEF LocksInv
    <3>2. IsSequential(n) => LockOf(NodeOf(job[u])) # LockOf(n)
      BY <2>1, <2>4, <3>1 DEF LocksInv
    <3> QED
      BY <2>1, <3>1, <3>2
  <2>5. LocksInv'
    BY <2>2, <2>4 DEF LocksInv
  <2> QED
    BY <2>3, <2>5
<1>5. CASE UNCHANGED vars
  BY <1>2, <1>5 DEF vars, planVars, parentVars
<1> QED
  BY <1>2, <1>3, <1>4, <1>5, WorkersLeavePlan, OthersLeavePlan DEF Next, Ended, ParentStep

-----------------------------------------------------------------------------
(* Results are earned.                                                     *)

LEMMA EarnedFrame ==
    ASSUME AllWires, PlanInv, EarnedInv, NEW t \in Threads, Step(t), left' \subseteq left,
           ran' \in [Tests -> {0, 1}], results' \in [Tests -> {0, 1}],
           \A x \in Tests : x # job[t] => ran'[x] = ran[x] /\ results'[x] = results[x],
           job[t] \in Tests \ Ignored /\ results'[job[t]] = 1 => ran'[job[t]] = 1,
           EarnedAt(t)'
    PROVE  EarnedInv'
<1>1. ASSUME NEW u \in Threads \ {t} PROVE EarnedAt(u)'
  <2>1. Same(u) /\ EarnedAt(u) /\ WireInv(u) /\ job[u] \in Tests \cup {NoTest}
    BY DEF Step, EarnedInv, AllWires, WireTypes
  <2>2. ASSUME pc[u] \in {"start", "await"}
        PROVE  ran'[job'[u]] = ran[job[u]] /\ results'[job'[u]] = results[job[u]]
    <3>1. job[u] # NoTest /\ job[u] \in Tests
      BY <2>1, <2>2 DEF WireInv
    <3>2. job[u] # job[t] /\ job'[u] = job[u]
      BY <2>1, <3>1 DEF PlanInv, Same
    <3> QED
      BY <3>1, <3>2
  <2>3. /\ Unstarted(u)' => Unstarted(u) /\ pc[u] \in {"start", "await"}
        /\ Started(u)' => Started(u) /\ pc[u] \in {"start", "await"}
    BY <2>1 DEF Same, Unstarted, Started, Quiet
  <2> QED
    BY <2>1, <2>2, <2>3 DEF EarnedAt, Same
<1>2. \A x \in left' : ran'[x] = 0 /\ results'[x] = 0
  <2> TAKE x \in left'
  <2>1. x \in left /\ x \in Tests
    BY DEF PlanInv
  <2>2. x # job[t]
    <3>1. job[t] # NoTest => job[t] \notin left
      BY DEF PlanInv
    <3> QED
      BY <2>1, <3>1, ProtocolAssumption
  <2> QED
    BY <2>1, <2>2 DEF EarnedInv
<1>3. \A x \in Tests \ Ignored : results'[x] = 1 => ran'[x] = 1
  BY DEF EarnedInv
<1> QED
  BY <1>1, <1>2, <1>3 DEF EarnedInv

(* A step in which neither a body starts nor a result comes.               *)
LEMMA EarnedQuiet ==
    ASSUME AllWires, PlanInv, EarnedInv, NEW t \in Threads, Step(t), left' \subseteq left,
           UNCHANGED <<ran, results>>,
           pc'[t] \in {"start", "await"} => pc[t] \in {"start", "await"} /\ job'[t] = job[t],
           Unstarted(t)' => Unstarted(t), Started(t)' => Started(t)
    PROVE  EarnedInv'
<1>1. EarnedAt(t)'
  BY DEF EarnedInv, EarnedAt, Unstarted, Started
<1> QED
  BY <1>1, EarnedFrame DEF EarnedInv

LEMMA EarnedNext ==
    ASSUME AllWires, PlanInv, EarnedInv, [Next]_vars
    PROVE  EarnedInv'
<1> USE DEF planVars, parentVars, wireVars, workerVars
<1>1. WireTypes /\ left' \subseteq left /\ \A t \in Threads : WireInv(t) /\ EarnedAt(t)
  BY Shrinks DEF AllWires, EarnedInv
<1>2. ASSUME NEW t \in Threads, ParentStep(t) PROVE EarnedInv'
  <2>1. Step(t) /\ WireInv(t) /\ WireInv(t)' /\ EarnedAt(t)
    BY <1>1, <1>2, ParentWire DEF Step
  <2>2. CASE Accept(t) \/ Ship(t) \/ ReceiveAck(t) \/ CheckDone(t) \/ PickNext(t) \/ PickNothing(t) \/ DropExecution(t)
    <3>1. UNCHANGED <<ran, results>>
      BY <2>2 DEF Accept, Ship, ReceiveAck, CheckDone, PickNext, PickNothing, DropExecution
    <3>2. pc'[t] \notin {"start", "await"}
      <4>1. \E l \in {"check", "ship", "ack", "exit", "pick", "walk"} : pc' = [pc EXCEPT ![t] = l] \/ (pc[t] = "ack" /\ pc' = pc)
        BY <2>2 DEF Accept, Ship, ReceiveAck, CheckDone, PickNext, PickNothing, DropExecution, Goto
      <4> QED
        BY <1>1, <4>1 DEF WireTypes
    <3> QED
      BY <1>1, <2>1, <3>1, <3>2, EarnedQuiet DEF Unstarted, Started
  <2>3. CASE PickTest(t)
    <3>1. PICK x \in left : job' = [job EXCEPT ![t] = x] /\ pc' = [pc EXCEPT ![t] = "start"]
                            /\ pc[t] = "walk" /\ UNCHANGED <<ran, results>>
      BY <2>3 DEF PickTest, Goto
    <3>2. job[t] = NoTest /\ job'[t] = x /\ pc'[t] = "start" /\ x \in Tests
      BY <1>1, <2>1, <3>1 DEF WireTypes, WireInv, PlanInv
    <3>3. EarnedAt(t)'
      BY <3>1, <3>2 DEF EarnedInv, EarnedAt, Started
    <3> QED
      BY <1>1, <2>1, <3>1, <3>2, <3>3, EarnedFrame, ProtocolAssumption DEF EarnedInv
  <2>4. CASE ReportIgnored(t)
    <3>1. /\ pc[t] = "start" /\ job[t] \in Ignored /\ pc' = [pc EXCEPT ![t] = "drop"]
          /\ results' = [results EXCEPT ![job[t]] = @ + 1] /\ UNCHANGED <<ran, job>>
      BY <2>4 DEF ReportIgnored, Goto
    <3>2. job[t] \in Tests /\ results[job[t]] = 0
      BY <1>1, <2>1, <3>1, ProtocolAssumption DEF WireTypes, EarnedAt
    <3>3. results' \in [Tests -> {0, 1}] /\ \A x \in Tests : x # job[t] => results'[x] = results[x]
      BY <3>1, <3>2 DEF EarnedInv
    <3>4. EarnedAt(t)'
      <4>1. pc'[t] = "drop"
        BY <1>1, <3>1 DEF WireTypes
      <4> QED
        BY <4>1 DEF EarnedAt, Unstarted, Started
    <3> QED
      BY <1>1, <2>1, <3>1, <3>2, <3>3, <3>4, EarnedFrame DEF EarnedInv
  <2>5. CASE SendRunTest(t)
    <3>1. /\ pc[t] = "start" /\ UNCHANGED <<ran, results, job, fromWorker, wpc>>
          /\ toWorker' = Push(toWorker, t, Frame("RunTest", job[t]))
      BY <2>5 DEF SendRunTest
    <3>2. Quiet(t) /\ wpc[t] \notin {"body", "reply"} /\ Unstarted(t)
      BY <2>1, <3>1 DEF WireInv, Unstarted
    <3>3. fromWorker'[t] = <<>> /\ toWorker'[t] = <<Frame("RunTest", job[t])>>
      BY <1>1, <3>1, <3>2, PushStep DEF WireTypes, Quiet
    <3>4. toWorker'[t] # <<Frame("HostedRpcReply", job[t])>>
      BY <3>3, OneFrame, FrameParts
    <3>5. ~Started(t)'
      BY <3>1, <3>2, <3>3, <3>4 DEF Started
    <3> QED
      BY <1>1, <2>1, <3>1, <3>2, <3>5, EarnedQuiet
  <2>6. CASE ReceiveResponse(t)
    <3>1. pc[t] = "await" /\ fromWorker[t] # <<>> /\ UNCHANGED <<job, ran, wpc>> /\ Started(t)
      BY <2>6 DEF ReceiveResponse, Started
    <3>2. job[t] \in Tests /\ results[job[t]] = 0 /\ ran[job[t]] = 1
      BY <1>1, <2>1, <3>1, ProtocolAssumption DEF WireTypes, WireInv, EarnedAt
    <3>3. CASE IsResult(Head(fromWorker[t]))
      <4>1. pc' = [pc EXCEPT ![t] = "drop"] /\ results' = [results EXCEPT ![job[t]] = @ + 1]
        BY <2>6, <3>3 DEF ReceiveResponse, Goto
      <4>2. results' \in [Tests -> {0, 1}] /\ \A x \in Tests : x # job[t] => results'[x] = results[x]
        BY <3>2, <4>1 DEF EarnedInv
      <4>3. EarnedAt(t)'
        <5>1. pc'[t] = "drop"
          BY <1>1, <4>1 DEF WireTypes
        <5> QED
          BY <5>1 DEF EarnedAt, Unstarted, Started
      <4> QED
        BY <1>1, <2>1, <3>1, <3>2, <4>2, <4>3, EarnedFrame DEF EarnedInv
    <3>4. CASE ~IsResult(Head(fromWorker[t]))
      <4>1. UNCHANGED <<pc, results>> /\ fromWorker' = Pop(fromWorker, t)
            /\ toWorker' = IF Head(fromWorker[t]).type = "HostedRpcCall"
                           THEN Push(toWorker, t, Frame("HostedRpcReply", Head(fromWorker[t]).of))
                           ELSE toWorker
        BY <2>6, <3>4 DEF ReceiveResponse
      <4>2. OneTest(t)
        BY <2>1, <3>1 DEF WireInv
      <4>3. fromWorker[t] # <<Frame("TestFinished", job[t])>>
        BY <3>4, OneFrame, FrameParts DEF IsResult
      <4>4. toWorker[t] = <<>> /\ fromWorker[t] = <<Frame("HostedRpcCall", job[t])>>
        BY <3>1, <4>2, <4>3 DEF OneTest
      <4>5. Head(fromWorker[t]).type = "HostedRpcCall" /\ Head(fromWorker[t]).of = job[t]
        BY <4>4, OneFrame, FrameParts
      <4>6. toWorker'[t] = <<Frame("HostedRpcReply", job[t])>>
        BY <1>1, <4>1, <4>4, <4>5, PushStep DEF WireTypes
      <4>7. toWorker'[t] # <<Frame("RunTest", job[t])>> /\ toWorker'[t] # <<>>
        BY <4>6, OneFrame, FrameParts
      <4>8. ~Unstarted(t)'
        BY <3>1, <4>1, <4>7 DEF Unstarted, Quiet
      <4> QED
        BY <1>1, <2>1, <3>1, <4>1, <4>8, EarnedQuiet
    <3> QED
      BY <3>3, <3>4
  <2>7. CASE Abort(t)
    <3>1. UNCHANGED <<pc, job, ran, results, toWorker, fromWorker, wpc>>
      BY <2>7 DEF Abort
    <3> QED
      BY <1>1, <2>1, <3>1, EarnedQuiet DEF Unstarted, Started, Quiet
  <2> QED
    BY <1>2, <2>2, <2>3, <2>4, <2>5, <2>6, <2>7 DEF ParentStep
<1>3. ASSUME NEW t \in Threads, WorkerStep(t) \/ Crash(t) PROVE EarnedInv'
  <2>1. Step(t) /\ WireInv(t) /\ WireInv(t)' /\ EarnedAt(t)
    BY <1>1, <1>3, WorkerWire DEF Step
  <2>2. UNCHANGED <<pc, job, results>>
    BY <1>3, WorkersLeavePlan
  <2>3. CASE ~StartBody(t)
    <3>1. UNCHANGED ran
      BY <1>3, <2>3 DEF WorkerStep, Connect, Drained, AcceptProvided, ExpectTest, Discard, CallOwner,
                        ReceiveReply, FinishBody, Panic, Crash
    <3>2. ASSUME pc[t] = "await" PROVE (Unstarted(t)' => Unstarted(t)) /\ (Started(t)' => Started(t))
      <4>1. OneTest(t)
        BY <2>1, <3>2 DEF WireInv
      <4>2. CASE Connect(t) \/ AcceptProvided(t)
        <5>1. ~Connect(t)
          BY <2>1, <3>2 DEF Connect, WireInv
        <5>2. toWorker[t] # <<>> /\ Head(toWorker[t]).type = "Provide"
          BY <4>2, <5>1 DEF AcceptProvided
        <5>3. \/ toWorker[t] = <<Frame("RunTest", job[t])>>
              \/ toWorker[t] = <<Frame("HostedRpcReply", job[t])>>
          BY <4>1, <5>2 DEF OneTest
        <5> QED
          BY <5>2, <5>3, OneFrame, FrameParts
      <4>3. CASE Drained(t) \/ Panic(t) \/ Crash(t)
        <5>1. UNCHANGED <<toWorker, fromWorker>> /\ wpc'[t] \notin {"loop", "body", "reply"}
          <6>1. \E l \in {"gone", "unconnected"} : wpc' = [wpc EXCEPT ![t] = l]
            BY <4>3 DEF Drained, Panic, Crash, WGoto
          <6>2. UNCHANGED <<toWorker, fromWorker>>
            BY <4>3 DEF Drained, Panic, Crash
          <6> QED
            BY <1>1, <6>1, <6>2 DEF WireTypes
        <5> QED
          BY <2>2, <5>1 DEF Unstarted, Started, Quiet
      <4>4. CASE ExpectTest(t)
        <5>1. /\ toWorker[t] # <<>> /\ Head(toWorker[t]).type = "RunTest" /\ wpc[t] = "loop"
              /\ toWorker' = Pop(toWorker, t) /\ UNCHANGED <<fromWorker, wpc>>
          BY <4>4 DEF ExpectTest, AtCommandLoop
        <5>2. toWorker[t] # <<Frame("HostedRpcReply", job[t])>>
          BY <5>1, OneFrame, FrameParts
        <5>3. toWorker[t] = <<Frame("RunTest", job[t])>> /\ fromWorker[t] = <<>>
          BY <4>1, <5>1, <5>2 DEF OneTest
        <5>4. toWorker'[t] = <<>>
          BY <1>1, <5>1, <5>3, PopStep DEF WireTypes
        <5>5. toWorker'[t] # <<Frame("HostedRpcReply", job[t])>>
          BY <5>4, OneFrame
        <5> QED
          BY <2>2, <3>2, <5>1, <5>3, <5>5 DEF Unstarted, Started
      <4>5. CASE Discard(t)
        <5>1. UNCHANGED <<toWorker, fromWorker, wpc>>
          BY <4>5 DEF Discard
        <5> QED
          BY <2>2, <5>1 DEF Unstarted, Started, Quiet
      <4>6. CASE CallOwner(t) \/ FinishBody(t)
        <5>1. wpc[t] = "body" /\ UNCHANGED toWorker
              /\ \E f : fromWorker' = Push(fromWorker, t, f)
          BY <4>6 DEF CallOwner, FinishBody
        <5>2. toWorker[t] = <<>> /\ Started(t)
          BY <3>2, <4>1, <5>1 DEF OneTest, Started
        <5>3. fromWorker'[t] # <<>> /\ toWorker'[t] # <<Frame("RunTest", job[t])>>
          <6>1. PICK f : fromWorker' = Push(fromWorker, t, f)
            BY <5>1
          <6>2. fromWorker[t] = <<>>
            <7>1. ~aborted
              BY <4>6 DEF CallOwner, FinishBody, ParentClosed
            <7> QED
              BY <4>1, <5>1, <7>1 DEF OneTest
          <6>3. fromWorker'[t] = <<f>>
            BY <1>1, <6>1, <6>2, PushStep DEF WireTypes
          <6> QED
            BY <5>1, <5>2, <6>3, OneFrame
        <5> QED
          BY <2>2, <5>2, <5>3, <3>2 DEF Unstarted, Quiet
      <4>7. CASE ReceiveReply(t)
        <5>1. wpc[t] = "reply" /\ wpc' = [wpc EXCEPT ![t] = "body"]
          BY <4>7 DEF ReceiveReply, WGoto
        <5>2. Started(t) /\ wpc'[t] = "body"
          BY <1>1, <3>2, <5>1 DEF WireTypes, Started
        <5>3. toWorker'[t] # <<Frame("RunTest", job[t])>>
          <6>1. OneTest(t)'
            BY <2>1, <2>2, <3>2 DEF WireInv
          <6> QED
            BY <2>2, <5>2, <6>1, OneFrame DEF OneTest
        <5> QED
          BY <2>2, <3>2, <5>2, <5>3 DEF Unstarted
      <4> QED
        BY <1>3, <2>3, <4>2, <4>3, <4>4, <4>5, <4>6, <4>7 DEF WorkerStep
    <3>3. (Unstarted(t)' => Unstarted(t)) /\ (Started(t)' => Started(t))
      <4>1. CASE pc[t] = "await"
        BY <3>2, <4>1
      <4>2. CASE pc[t] # "await"
        BY <2>2, <4>2 DEF Unstarted, Started
      <4> QED
        BY <4>1, <4>2
    <3> QED
      BY <1>1, <2>1, <2>2, <3>1, <3>3, EarnedQuiet
  <2>4. CASE StartBody(t)
    <3>1. /\ wpc[t] = "loop" /\ expected[t] # NoTest /\ UNCHANGED <<toWorker, fromWorker>>
          /\ ran' = [ran EXCEPT ![expected[t]] = @ + 1] /\ wpc' = [wpc EXCEPT ![t] = "body"]
      <4>1. wleft[t] \subseteq Tests
        BY DEF AllWires
      <4> QED
        BY <2>4, <4>1, ProtocolAssumption DEF StartBody, FirstTest, WGoto
    <3>2. pc[t] = "await" /\ OneTest(t) /\ job[t] \in Tests \ Ignored
      BY <1>1, <2>1, <3>1, ProtocolAssumption DEF WireInv, WireTypes
    <3>3. expected[t] = job[t] /\ Quiet(t)
      BY <3>1, <3>2 DEF OneTest, Quiet
    <3>4. ran[job[t]] = 0 /\ results[job[t]] = 0
      BY <2>1, <3>1, <3>2, <3>3 DEF EarnedAt, Unstarted
    <3>5. /\ ran' \in [Tests -> {0, 1}] /\ ran'[job[t]] = 1
          /\ \A x \in Tests : x # job[t] => ran'[x] = ran[x]
      BY <3>1, <3>2, <3>3, <3>4 DEF EarnedInv
    <3>6. ~Unstarted(t)'
      <4>1. wpc'[t] = "body" /\ toWorker'[t] # <<Frame("RunTest", job[t])>>
        BY <1>1, <3>1, <3>3, OneFrame DEF WireTypes, Quiet
      <4> QED
        BY <2>2, <3>2, <4>1 DEF Unstarted
    <3>7. EarnedAt(t)'
      BY <2>2, <3>4, <3>5, <3>6 DEF EarnedAt
    <3> QED
      BY <1>1, <2>1, <2>2, <3>5, <3>7, EarnedFrame DEF EarnedInv
  <2> QED
    BY <2>3, <2>4
<1>4. CASE UNCHANGED vars
  BY <1>4 DEF vars, EarnedInv, EarnedAt, Unstarted, Started, Quiet
<1> QED
  BY <1>2, <1>3, <1>4 DEF Next, Ended

LEMMA OrderFrame ==
    ASSUME AllWires, \A u \in Threads : OrderAt(u), NEW t \in Threads, Step(t), left' \subseteq left,
           \A x \in Tests : ran'[x] = 0 => ran[x] = 0,
           \A u \in Threads \ {t} : wleft'[u] = wleft[u],
           OrderAt(t)'
    PROVE  \A u \in Threads : OrderAt(u)'
<1> TAKE u \in Threads
<1>1. CASE u # t
  <2>1. Same(u) /\ OrderAt(u) /\ WireInv(u) /\ job[u] \in Tests \cup {NoTest} /\ wleft'[u] = wleft[u]
    BY <1>1 DEF Step, AllWires, WireTypes
  <2>2. pc[u] \in {"start", "await"} => job[u] \in Tests
    BY <2>1, ProtocolAssumption DEF WireInv
  <2>3. pc[u] \in {"start", "await"} /\ ran'[job[u]] = 0 => ran[job[u]] = 0
    BY <2>2
  <2> QED
    BY <2>1, <2>3 DEF OrderAt, Same
<1> QED
  BY <1>1

(* A step that takes no test from the plan of the parent or of the worker. *)
LEMMA OrderQuiet ==
    ASSUME AllWires, \A u \in Threads : OrderAt(u), NEW t \in Threads, Step(t),
           UNCHANGED <<left, wleft, ran>>,
           job'[t] = job[t] \/ job'[t] = NoTest,
           pc'[t] \in {"start", "await"} => pc[t] \in {"start", "await"} /\ job'[t] = job[t]
    PROVE  \A u \in Threads : OrderAt(u)'
<1>1. OrderAt(t)'
  BY DEF OrderAt
<1> QED
  BY <1>1, OrderFrame

LEMMA OrderNext ==
    ASSUME AllWires, PlanInv, EarnedInv, OrderInv, [Next]_vars
    PROVE  OrderInv'
<1> USE DEF planVars, parentVars, wireVars, workerVars
<1> SUFFICES ASSUME ~overtaken' PROVE \A u \in Threads : OrderAt(u)'
  BY DEF OrderInv
<1>1. WireTypes /\ left' \subseteq left /\ \A u \in Threads : WireInv(u) /\ OrderAt(u)
  BY Shrinks DEF AllWires, OrderInv
<1>2. ASSUME NEW t \in Threads, ParentStep(t) PROVE \A u \in Threads : OrderAt(u)'
  <2>1. Step(t) /\ WireInv(t) /\ WireInv(t)' /\ OrderAt(t)
    BY <1>1, <1>2, ParentWire DEF Step
  <2>2. CASE PickTest(t)
    <3>1. PICK x \in left : /\ left' = left \ {x}
                            /\ job' = [job EXCEPT ![t] = x]
                            /\ overtaken' = (overtaken \/ \E y \in left : Precedes(y, x))
      BY <2>2 DEF PickTest
    <3>2. \A y \in left : ~Precedes(y, x)
      BY <3>1, Zenon
    <3>3. job'[t] = x /\ UNCHANGED <<wleft, ran>>
      BY <1>1, <2>2, <3>1 DEF PickTest, WireTypes
    <3>4. OrderAt(t)'
      <4>1. left \subseteq wleft[t]
        BY <2>1 DEF OrderAt
      <4> QED
        BY <3>1, <3>2, <3>3, <4>1 DEF OrderAt
    <3> QED
      BY <1>1, <2>1, <3>3, <3>4, OrderFrame
  <2>3. CASE ~PickTest(t)
    <3>1. UNCHANGED <<left, wleft, ran>>
      BY <1>2, <2>3, OthersLeavePlan
         DEF ParentStep, Accept, Ship, ReceiveAck, CheckDone, PickNext, PickNothing,
             ReportIgnored, SendRunTest, ReceiveResponse, DropExecution, Abort
    <3>2. CASE DropExecution(t)
      <4>1. job'[t] = NoTest /\ pc'[t] = "check"
        BY <1>1, <3>2 DEF DropExecution, Goto, WireTypes
      <4> QED
        BY <1>1, <2>1, <3>1, <4>1, OrderQuiet
    <3>3. CASE ~DropExecution(t)
      <4>1. UNCHANGED job
        BY <1>2, <2>3, <3>3, OthersLeavePlan DEF ParentStep
      <4>2. job'[t] # NoTest <=> job[t] # NoTest
        BY <4>1
      <4>3. pc'[t] \in {"start", "await"} => pc[t] \in {"start", "await"}
        <5>1. pc[t] \in {"start", "await", "drop"} <=> pc'[t] \in {"start", "await", "drop"}
          BY <2>1, <4>1 DEF WireInv
        <5>2. pc[t] # "drop"
          BY <1>1, <1>2, <2>3, <3>3 DEF ParentStep, Accept, Ship, ReceiveAck, CheckDone, PickNext, PickNothing,
                  ReportIgnored, SendRunTest, ReceiveResponse, Abort, IpcFails
        <5> QED
          BY <5>1, <5>2
      <4> QED
        BY <1>1, <2>1, <3>1, <4>1, <4>3, OrderQuiet
    <3> QED
      BY <3>2, <3>3
  <2> QED
    BY <2>2, <2>3
<1>3. ASSUME NEW t \in Threads, WorkerStep(t) \/ Crash(t) PROVE \A u \in Threads : OrderAt(u)'
  <2>1. Step(t) /\ WireInv(t) /\ OrderAt(t)
    BY <1>1, <1>3, WorkerWire
  <2>2. UNCHANGED <<left, job, pc>>
    BY <1>3, WorkersLeavePlan
  <2>3. wleft[t] \subseteq Tests
    BY DEF AllWires
  <2>4. CASE Discard(t)
    <3>1. PICK f \in wleft[t] \ {expected[t]} :
             FirstTest(f, wleft[t]) /\ wleft' = [wleft EXCEPT ![t] = @ \ {f}]
      BY <2>4 DEF Discard
    <3>2. wpc[t] = "loop" /\ expected[t] # NoTest /\ UNCHANGED ran
      BY <2>4 DEF Discard
    <3>3. pc[t] = "await" /\ OneTest(t) /\ job[t] \in Tests
      BY <1>1, <2>1, <3>2, ProtocolAssumption DEF WireInv, WireTypes
    <3>4. expected[t] = job[t] /\ Quiet(t)
      BY <3>2, <3>3 DEF OneTest, Quiet
    <3>5. ran[job[t]] = 0
      BY <3>2, <3>3, <3>4 DEF EarnedInv, EarnedAt, Unstarted
    <3>6. job[t] \in wleft[t]
      BY <2>1, <3>3, <3>5 DEF OrderAt
    <3>7. Precedes(f, job[t])
      BY <3>1, <3>4, <3>6 DEF FirstTest
    <3>8. f \notin left
      BY <2>1, <3>1, <3>2, <3>4, <3>7 DEF OrderAt
    <3>9. wleft'[t] = wleft[t] \ {f} /\ \A u \in Threads \ {t} : wleft'[u] = wleft[u]
      BY <3>1 DEF AllWires
    <3>10. OrderAt(t)'
      BY <2>1, <2>2, <3>1, <3>2, <3>4, <3>6, <3>8, <3>9 DEF OrderAt
    <3> QED
      BY <1>1, <2>1, <3>2, <3>9, <3>10, OrderFrame
  <2>5. CASE StartBody(t)
    <3>1. /\ wpc[t] = "loop" /\ expected[t] # NoTest
          /\ wleft' = [wleft EXCEPT ![t] = @ \ {expected[t]}]
          /\ ran' = [ran EXCEPT ![expected[t]] = @ + 1]
      BY <2>3, <2>5, ProtocolAssumption DEF StartBody, FirstTest
    <3>2. pc[t] = "await" /\ OneTest(t) /\ job[t] \in Tests
      BY <1>1, <2>1, <3>1, ProtocolAssumption DEF WireInv, WireTypes
    <3>3. expected[t] = job[t]
      <4>1. wpc[t] = "loop" /\ expected[t] # NoTest
        BY <3>1
      <4> QED
        BY <3>2, <4>1 DEF OneTest
    <3>4. job[t] # NoTest /\ job[t] \notin left
      BY <3>1, <3>3 DEF PlanInv
    <3>5. ran'[job[t]] # 0 /\ \A x \in Tests : ran'[x] = 0 => ran[x] = 0
      <4>1. \A x \in Tests : ran[x] \in {0, 1}
        BY DEF EarnedInv
      <4>2. ran'[job[t]] = ran[job[t]] + 1 /\ \A x \in Tests : x # job[t] => ran'[x] = ran[x]
        BY <3>1, <3>2, <3>3 DEF EarnedInv
      <4> QED
        BY <3>2, <4>1, <4>2
    <3>6. wleft'[t] = wleft[t] \ {job[t]} /\ \A u \in Threads \ {t} : wleft'[u] = wleft[u]
      BY <3>1, <3>3 DEF AllWires
    <3>7. OrderAt(t)'
      BY <2>1, <2>2, <3>4, <3>5, <3>6 DEF OrderAt
    <3> QED
      BY <1>1, <2>1, <3>5, <3>6, <3>7, OrderFrame
  <2>6. CASE ~Discard(t) /\ ~StartBody(t)
    <3>1. UNCHANGED <<wleft, ran>>
      BY <1>3, <2>6 DEF WorkerStep, Connect, Drained, AcceptProvided, ExpectTest, CallOwner,
                        ReceiveReply, FinishBody, Panic, Crash
    <3> QED
      BY <1>1, <2>1, <2>2, <3>1, OrderQuiet
  <2> QED
    BY <2>4, <2>5, <2>6
<1>4. CASE UNCHANGED vars
  BY <1>1, <1>4 DEF vars, OrderAt
<1> QED
  BY <1>2, <1>3, <1>4 DEF Next, Ended

-----------------------------------------------------------------------------
(* The invariant of the protocol.                                          *)

ProtocolInv == AllWires /\ PlanInv /\ EarnedInv /\ LocksInv /\ OrderInv

LEMMA InitProtocol == Init => ProtocolInv
<1> SUFFICES ASSUME Init PROVE ProtocolInv
  OBVIOUS
<1>1. AllWires
  BY WireInit
<1>2. PlanInv /\ LocksInv
  BY DEF Init, PlanInv, LocksInv
<1>3. EarnedInv
  BY DEF Init, EarnedInv, EarnedAt, Unstarted, Started
<1>4. OrderInv
  BY DEF Init, OrderInv, OrderAt
<1> QED
  BY <1>1, <1>2, <1>3, <1>4 DEF ProtocolInv

LEMMA ProtocolSafety == Spec => []ProtocolInv
<1>1. ProtocolInv /\ [Next]_vars => ProtocolInv'
  BY WireNext, PlanNext, EarnedNext, OrderNext DEF ProtocolInv
<1> QED
  BY <1>1, InitProtocol, PTL DEF Spec

(* What both ends of a connection are at, from the frame in between.       *)
LEMMA WiresInStep == ProtocolInv => FramesInStep
<1> SUFFICES ASSUME ProtocolInv, NEW t \in Threads
             PROVE  /\ Len(toWorker[t]) + Len(fromWorker[t]) <= 1
                    /\ \A i \in DOMAIN toWorker[t] : toWorker[t][i].type \in Understood(t)
                    /\ \A i \in DOMAIN fromWorker[t] : fromWorker[t][i] \in Awaited(t)
  BY DEF FramesInStep
<1>1. WireTypes /\ WireInv(t)
  BY DEF ProtocolInv, AllWires
<1>2. Len(<<>>) = 0 /\ DOMAIN <<>> = {}
  OBVIOUS
<1>3. CASE Quiet(t)
  BY <1>2, <1>3 DEF Quiet
<1>4. CASE pc[t] = "ack"
  <2> DEFINE dep == Shipped[shipped[t] + 1]
  <2>1. OneProvide(t) /\ wpc[t] # "reply"
    BY <1>1, <1>4 DEF WireInv
  <2>2. "Provide" \in Understood(t)
    BY <2>1 DEF Understood
  <2>3. Frame("Accepted", dep) \in Awaited(t)
    BY <1>4 DEF Awaited
  <2>4. CASE toWorker[t] = <<Frame("Provide", dep)>> /\ fromWorker[t] = <<>>
    BY <1>2, <2>2, <2>4, OneFrame, FrameParts
  <2>5. CASE toWorker[t] = <<>> /\ fromWorker[t] = <<Frame("Accepted", dep)>>
    BY <1>2, <2>3, <2>5, OneFrame
  <2> QED
    BY <2>1, <2>4, <2>5 DEF OneProvide
<1>5. CASE pc[t] = "await"
  <2> DEFINE x == job[t]
  <2>1. OneTest(t)
    BY <1>1, <1>5 DEF WireInv
  <2>2. Frame("TestFinished", x) \in Awaited(t) /\ Frame("HostedRpcCall", x) \in Awaited(t)
    BY <1>5 DEF Awaited
  <2>3. CASE toWorker[t] = <<Frame("RunTest", x)>> /\ fromWorker[t] = <<>> /\ wpc[t] \in {"loop", "gone"}
    <3>1. "RunTest" \in Understood(t)
      BY <2>3 DEF Understood
    <3> QED
      BY <1>2, <2>3, <3>1, OneFrame, FrameParts
  <2>4. CASE toWorker[t] = <<Frame("HostedRpcReply", x)>> /\ fromWorker[t] = <<>> /\ wpc[t] \in {"reply", "gone"}
    <3>1. "HostedRpcReply" \in Understood(t)
      BY <2>4 DEF Understood
    <3> QED
      BY <1>2, <2>4, <3>1, OneFrame, FrameParts
  <2>5. CASE toWorker[t] = <<>> /\ fromWorker[t] \in {<<Frame("HostedRpcCall", x)>>, <<Frame("TestFinished", x)>>}
    <3>1. PICK f \in {Frame("HostedRpcCall", x), Frame("TestFinished", x)} : fromWorker[t] = <<f>>
      BY <2>5
    <3>2. f \in Awaited(t)
      BY <2>2
    <3> QED
      BY <1>2, <2>5, <3>1, <3>2, OneFrame
  <2> QED
    BY <1>3, <2>1, <2>3, <2>4, <2>5 DEF OneTest, Quiet
<1> QED
  BY <1>1, <1>3, <1>4, <1>5 DEF WireInv

(* A worker in a body runs the test its parent thread waits for.           *)
LEMMA BodyOfJob ==
    ASSUME ProtocolInv, NEW t \in Threads, InBody(t)
    PROVE  /\ pc[t] = "await" /\ expected[t] = job[t] /\ job[t] # NoTest
           /\ job[t] \in Tests \ Ignored
           /\ ran[job[t]] = 1 /\ results[job[t]] = 0
<1>1. WireTypes /\ WireInv(t) /\ EarnedAt(t)
  BY DEF ProtocolInv, AllWires, EarnedInv
<1>2. pc[t] = "await" /\ OneTest(t) /\ wpc[t] \in {"body", "reply"}
  BY <1>1 DEF InBody, WireInv
<1>3. expected[t] = job[t]
  BY <1>2 DEF OneTest
<1>4. job[t] \in Tests \ Ignored
  BY <1>1, <1>2 DEF WireInv, WireTypes
<1>5. Started(t)
  BY <1>2 DEF Started
<1> QED
  BY <1>1, <1>2, <1>3, <1>4, <1>5, ProtocolAssumption DEF EarnedAt

LEMMA EarnedOnce == ProtocolInv => ResultsAreEarned
<1> SUFFICES ASSUME ProtocolInv, NEW x \in Tests
             PROVE  /\ ran[x] <= 1 /\ results[x] <= 1
                    /\ results[x] = 1 /\ x \notin Ignored
                         => ran[x] = 1 /\ \A t \in Threads : ~(InBody(t) /\ expected[t] = x)
  BY DEF ResultsAreEarned
<1>1. /\ ran[x] \in {0, 1} /\ results[x] \in {0, 1}
      /\ x \notin Ignored /\ results[x] = 1 => ran[x] = 1
  BY DEF ProtocolInv, EarnedInv
<1>2. \A t \in Threads : InBody(t) /\ expected[t] = x => results[x] = 0
  BY BodyOfJob
<1> QED
  BY <1>1, <1>2

LEMMA StillInPlan == ProtocolInv => CommandedTestIsLeft
  BY DEF ProtocolInv, OrderInv, OrderAt, CommandedTestIsLeft

-----------------------------------------------------------------------------
(* The bodies in the workers, seen as a schedule.                          *)

LEMMA BodiesStay ==
    ASSUME NEW t \in Threads, Step(t), UNCHANGED ran,
           InBody(t)' <=> InBody(t), InBody(t) => expected'[t] = expected[t]
    PROVE  UNCHANGED Schedule!schedule
<1>1. \A u \in Threads : (InBody(u)' <=> InBody(u)) /\ (InBody(u) => expected'[u] = expected[u])
  BY DEF Step, Same, InBody
<1>2. ActiveTests' = ActiveTests
  BY <1>1 DEF ActiveTests
<1>3. StartedTests' = StartedTests
  BY DEF StartedTests
<1> QED
  BY <1>2, <1>3 DEF Schedule!schedule

LEMMA BodyStarts ==
    ASSUME ProtocolInv, ProtocolInv', NEW t \in Threads, Step(t), StartBody(t)
    PROVE  Schedule!ScheduleNext
<1> DEFINE x == expected[t]
<1>1. /\ wpc[t] = "loop" /\ wpc' = [wpc EXCEPT ![t] = "body"]
      /\ ran' = [ran EXCEPT ![x] = @ + 1] /\ UNCHANGED <<expected, job, locks>>
  BY DEF StartBody, WGoto, parentVars, planVars
<1>2. InBody(t)' /\ ~InBody(t)
  BY <1>1 DEF ProtocolInv, AllWires, WireTypes, InBody
<1>3. x = job[t] /\ x # NoTest /\ x \in Tests \ Ignored
  <2>1. WireTypes /\ WireInv(t) /\ wleft[t] \subseteq Tests
    BY DEF ProtocolInv, AllWires
  <2>2. x \in Tests /\ x # NoTest
    BY <2>1, ProtocolAssumption DEF StartBody, FirstTest
  <2>3. pc[t] = "await" /\ OneTest(t) /\ job[t] \notin Ignored
    BY <2>1, <2>2 DEF WireInv
  <2>4. x = job[t]
    BY <1>1, <2>2, <2>3 DEF OneTest
  <2> QED
    BY <2>2, <2>3, <2>4
<1>4. ran[x] = 0 /\ ran'[x] = 1 /\ \A y \in Tests \ {x} : ran'[y] = ran[y]
  <2>1. ran \in [Tests -> {0, 1}] /\ ran' \in [Tests -> {0, 1}]
    BY DEF ProtocolInv, EarnedInv
  <2> QED
    BY <1>1, <1>3, <2>1
<1>5. StartedTests' = StartedTests \cup {x} /\ x \notin StartedTests
  <2>1. \A y \in Tests : ran[y] \in {0, 1}
    BY DEF ProtocolInv, EarnedInv
  <2>2. \A y \in Tests : ran'[y] > 0 <=> ran[y] > 0 \/ y = x
    BY <1>3, <1>4, <2>1
  <2> QED
    BY <1>3, <1>4, <2>2 DEF StartedTests
<1>6. \A u \in Threads \ {t} : InBody(u)' <=> InBody(u)
  BY DEF Step, Same, InBody
<1>7. ActiveTests' = ActiveTests \cup {x}
  BY <1>1, <1>2, <1>6 DEF ActiveTests
<1>8. ASSUME NEW y \in ActiveTests PROVE ~SameSuiteLock(x, y)
  <2> SUFFICES ASSUME SameSuiteLock(x, y) PROVE FALSE
    OBVIOUS
  <2>1. PICK u \in Threads : InBody(u) /\ y = expected[u]
    BY DEF ActiveTests
  <2>2. u # t /\ y = job[u] /\ y # NoTest /\ y \in Tests
    BY <1>2, <2>1, BodyOfJob
  <2>3. NodeOf(x) \in Nodes /\ NodeOf(y) \in Nodes
    BY <1>3, <2>2, NodeOfTest
  <2>4. IsSequential(NodeOf(x)) /\ IsSequential(NodeOf(y)) /\ LockOf(NodeOf(x)) = LockOf(NodeOf(y))
    BY <2>3, TreeOfNodes, LockOfModule DEF SameSuiteLock, Conflict
  <2> QED
    BY <1>3, <2>2, <2>4 DEF ProtocolInv, LocksInv
<1> HIDE DEF x
<1>9. Schedule!StartTest(x)
  <2>1. x \in Tests \ (Ignored \cup StartedTests)
    BY <1>3, <1>5
  <2>2. Tests \ (Ignored \cup StartedTests') = (Tests \ (Ignored \cup StartedTests)) \ {x}
    BY <1>5
  <2>3. StartedTests' \ ActiveTests' = StartedTests \ ActiveTests
    BY <1>5, <1>7
  <2> QED
    BY <1>7, <1>8, <2>1, <2>2, <2>3 DEF Schedule!StartTest
<1> QED
  BY <1>3, <1>9 DEF Schedule!ScheduleNext

LEMMA BodyEnds ==
    ASSUME ProtocolInv, NEW t \in Threads, Step(t), UNCHANGED ran, InBody(t), ~InBody(t)'
    PROVE  Schedule!ScheduleNext
<1> DEFINE x == expected[t]
<1>1. x = job[t] /\ x # NoTest /\ x \in Tests \ Ignored /\ ran[x] = 1
  BY BodyOfJob
<1>2. x \in ActiveTests
  BY DEF ActiveTests
<1>3. \A u \in Threads \ {t} : (InBody(u)' <=> InBody(u)) /\ expected'[u] = expected[u]
  BY DEF Step, Same, InBody
<1>4. \A u \in Threads \ {t} : InBody(u) => expected[u] # x
  BY <1>1, BodyOfJob DEF ProtocolInv, PlanInv
<1>5. ActiveTests' = ActiveTests \ {x}
  BY <1>3, <1>4 DEF ActiveTests
<1>6. StartedTests' = StartedTests /\ x \in StartedTests
  BY <1>1 DEF StartedTests
<1> HIDE DEF x
<1>7. Schedule!FinishTest(x)
  <2>1. StartedTests' \ ActiveTests' = (StartedTests \ ActiveTests) \cup {x}
    BY <1>5, <1>6
  <2> QED
    BY <1>2, <1>5, <1>6, <2>1 DEF Schedule!FinishTest
<1> QED
  BY <1>1, <1>7 DEF Schedule!ScheduleNext

LEMMA ScheduleStep ==
    ProtocolInv /\ ProtocolInv' /\ [Next]_vars => [Schedule!ScheduleNext]_Schedule!schedule
<1> SUFFICES ASSUME ProtocolInv, ProtocolInv', [Next]_vars
             PROVE  Schedule!ScheduleNext \/ UNCHANGED Schedule!schedule
  OBVIOUS
<1> USE DEF planVars, parentVars, wireVars, workerVars
<1>1. AllWires
  BY DEF ProtocolInv
<1>2. ASSUME NEW t \in Threads, ParentStep(t) PROVE UNCHANGED Schedule!schedule
  <2>1. UNCHANGED <<wpc, expected, ran>>
    BY <1>2 DEF ParentStep, Accept, Ship, ReceiveAck, CheckDone, PickNext, PickTest, PickNothing,
                ReportIgnored, SendRunTest, ReceiveResponse, DropExecution, Abort
  <2>2. ActiveTests' = ActiveTests /\ StartedTests' = StartedTests
    BY <2>1 DEF ActiveTests, StartedTests, InBody
  <2> QED
    BY <2>2 DEF Schedule!schedule
<1>3. ASSUME NEW t \in Threads, WorkerStep(t) \/ Crash(t)
      PROVE  Schedule!ScheduleNext \/ UNCHANGED Schedule!schedule
  <2>1. Step(t)
    BY <1>1, <1>3, WorkerWire
  <2>2. CASE StartBody(t)
    BY <2>1, <2>2, BodyStarts
  <2>3. CASE Connect(t) \/ Drained(t) \/ AcceptProvided(t) \/ ExpectTest(t) \/ Discard(t)
    <3>1. ~InBody(t) /\ ~InBody(t)' /\ UNCHANGED ran
      <4>1. /\ wpc[t] \in {"start", "loop"} /\ UNCHANGED ran
            /\ UNCHANGED wpc \/ \E l \in {"loop", "gone"} : wpc' = [wpc EXCEPT ![t] = l]
        BY <2>3 DEF Connect, Drained, AcceptProvided, ExpectTest, Discard, AtCommandLoop, WGoto
      <4> QED
        BY <1>1, <4>1 DEF AllWires, WireTypes, InBody
    <3> QED
      BY <2>1, <3>1, BodiesStay
  <2>4. CASE CallOwner(t) \/ ReceiveReply(t)
    <3>1. InBody(t) /\ InBody(t)' /\ UNCHANGED <<ran, expected>>
      <4>1. /\ wpc[t] \in {"body", "reply"} /\ UNCHANGED <<ran, expected>>
            /\ \E l \in {"body", "reply"} : wpc' = [wpc EXCEPT ![t] = l]
        BY <2>4 DEF CallOwner, ReceiveReply, WGoto
      <4> QED
        BY <1>1, <4>1 DEF AllWires, WireTypes, InBody
    <3> QED
      BY <2>1, <3>1, BodiesStay
  <2>5. CASE FinishBody(t) \/ Panic(t) \/ Crash(t)
    <3>1. ~InBody(t)' /\ UNCHANGED ran
      <4>1. UNCHANGED ran /\ \E l \in {"loop", "gone", "unconnected"} : wpc' = [wpc EXCEPT ![t] = l]
        BY <2>5 DEF FinishBody, Panic, Crash, WGoto
      <4> QED
        BY <1>1, <4>1 DEF AllWires, WireTypes, InBody
    <3> QED
      BY <2>1, <3>1, BodiesStay, BodyEnds
  <2> QED
    BY <1>3, <2>2, <2>3, <2>4, <2>5 DEF WorkerStep
<1>4. CASE UNCHANGED vars
  <2>1. ActiveTests' = ActiveTests /\ StartedTests' = StartedTests
    BY <1>4 DEF vars, ActiveTests, StartedTests, InBody
  <2> QED
    BY <2>1 DEF Schedule!schedule
<1> QED
  BY <1>2, <1>3, <1>4 DEF Next, Ended

-----------------------------------------------------------------------------
(* The two ends of a connection stay in step, for any number of workers, of *)
(* tests and of shipped dependencies, whatever dies when.                   *)
THEOREM WorkersInStep == Spec => []FramesInStep
  BY ProtocolSafety, WiresInStep, PTL

(* No test gets a second result or one its body did not earn: read until    *)
(* TestFinished (run_test) always meets the result of the test it sent.     *)
THEOREM OneResultPerTest == Spec => []ResultsAreEarned
  BY ProtocolSafety, EarnedOnce, PTL

(* Without overtaking, the worker that is sent a test has not thrown it     *)
(* away, however the tests were divided among the workers before.           *)
THEOREM WorkerFindsTest == Spec => []CommandedTestIsLeft
  BY ProtocolSafety, StillInPlan, PTL

(* The bodies in all worker processes follow the abstract schedule: none    *)
(* starts twice, none overlaps one of its own #[sequential] module.         *)
THEOREM WorkersSchedule == Spec => ImplementsSchedule
<1>1. Init => Schedule!ScheduleInit
  <2> SUFFICES ASSUME Init PROVE Schedule!ScheduleInit
    OBVIOUS
  <2>1. (\A t \in Threads : wpc[t] = "start") /\ \A x \in Tests : ran[x] = 0
    BY DEF Init
  <2>2. ActiveTests = {} /\ StartedTests = {}
    BY <2>1 DEF ActiveTests, StartedTests, InBody
  <2> QED
    BY <2>2 DEF Schedule!ScheduleInit
<1> QED
  BY <1>1, ProtocolSafety, ScheduleStep, PTL DEF Spec, ImplementsSchedule, Schedule!ScheduleSafety
=============================================================================
