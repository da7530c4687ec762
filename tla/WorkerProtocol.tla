--------------------------- MODULE WorkerProtocol ---------------------------
(***************************************************************************)
(* A run whose output is captured: each test thread of the parent process  *)
(* owns a worker process, the same binary started with --ipc, and sends it *)
(* one RunTest at a time over a local socket (test_thread, Worker and      *)
(* IpcHostedRpcTransport in test-r-core/src/sync.rs, the same in tokio.rs). *)
(*                                                                         *)
(* A worker builds its own copy of the whole plan.  It is not told which   *)
(* test of its plan to run, it walks the plan and throws away every test   *)
(* before the one it was sent.                                             *)
(*                                                                         *)
(* The walk of pick_next is two steps here, its beginning, when it may see *)
(* a lock taken, and its end: TestScheduler has the walk itself.           *)
(***************************************************************************)
EXTENDS SuiteTree

CONSTANTS
    Threads,       \* the test threads of the parent, each with its worker
    NoThread,      \* nobody holds the mutex around the plan
    NoTest,        \* a thread without a TestExecution, no expected test
    Ignored,       \* #[ignore]d tests: reported without asking the worker
    Shipped,       \* sequence of dependencies shipped by Provide* commands
    MaxCalls,      \* bound: HostedRpc calls one test body makes
    MaxCrashes     \* bound: workers that die

ASSUME ProtocolAssumption ==
    /\ NoThread \notin Threads
    /\ NoTest \notin Tests
    /\ Ignored \subseteq Tests
    /\ MaxCalls \in Nat
    /\ MaxCrashes \in Nat

VARIABLES
    left,          \* the parent's plan: tests that are still queued
    locks,         \* sequential locks that are held
    mutex,         \* the thread walking the plan
    sawLocked,     \* locks that were held when its walk began
    pc,            \* per thread: where it is in test_thread and in Worker
    job,           \* per thread: the test of its TestExecution
    shipped,       \* per thread: how many of Shipped were accepted
    results,       \* per test: how many results were pushed for it
    aborted,       \* DumpOnFailure ended the parent with exit(1)
    toWorker,      \* per thread: frames on their way to the worker
    fromWorker,    \* per thread: frames on their way back
    wpc,           \* per worker: where its only test thread is
    wleft,         \* per worker: its own plan
    expected,      \* per worker: expected_test
    calls,         \* per worker: HostedRpc calls of the current body
    ran,           \* history: how often the body of a test was started
    overtaken,     \* history: a test was taken before one of a locked suite
    crashes        \* history: workers that died

planVars    == <<left, locks, mutex, sawLocked, overtaken>>
parentVars  == <<pc, job, shipped, results, aborted>>
wireVars    == <<toWorker, fromWorker>>
workerVars  == <<wpc, wleft, expected, calls, ran>>
vars        == <<planVars, parentVars, wireVars, workerVars, crashes>>

ParentLabels == {"accept", "ship", "ack", "check", "pick", "walk", "start",
                 "await", "drop", "exit"}
WorkerLabels == {"start", "unconnected", "loop", "body", "reply", "gone"}

Goto(t, label)  == pc' = [pc EXCEPT ![t] = label]
WGoto(t, label) == wpc' = [wpc EXCEPT ![t] = label]

Frame(type, of) == [type |-> type, of |-> of]
Push(channel, t, frame) == [channel EXCEPT ![t] = Append(@, frame)]
Pop(channel, t)         == [channel EXCEPT ![t] = Tail(@)]

-----------------------------------------------------------------------------
NodeOf(x) == CHOOSE n \in Nodes : \E i \in DOMAIN OwnTests[n] : OwnTests[n][i] = x

(* The order in which an undisturbed walk hands out tests.                 *)
Precedes(x, y) ==
    \/ Before(NodeOf(x), NodeOf(y))
    \/ /\ NodeOf(x) = NodeOf(y)
       /\ \E i, j \in DOMAIN OwnTests[NodeOf(x)] :
             i < j /\ OwnTests[NodeOf(x)][i] = x /\ OwnTests[NodeOf(x)][j] = y

\* Mutation: a worker keeps its tests in the opposite order.
LastTest(x, S) == x \in S /\ \A y \in S \ {x} : Precedes(y, x)

FirstTest(x, S) == x \in S /\ \A y \in S \ {x} : Precedes(x, y)

Init ==
    /\ left = Tests
    /\ locks = {}
    /\ mutex = NoThread
    /\ sawLocked = {}
    /\ overtaken = FALSE
    /\ pc = [t \in Threads |-> "accept"]
    /\ job = [t \in Threads |-> NoTest]
    /\ shipped = [t \in Threads |-> 0]
    /\ results = [x \in Tests |-> 0]
    /\ aborted = FALSE
    /\ toWorker = [t \in Threads |-> <<>>]
    /\ fromWorker = [t \in Threads |-> <<>>]
    /\ wpc = [t \in Threads |-> "start"]
    /\ wleft = [t \in Threads |-> Tests]
    /\ expected = [t \in Threads |-> NoTest]
    /\ calls = [t \in Threads |-> 0]
    /\ ran = [x \in Tests |-> 0]
    /\ crashes = 0

-----------------------------------------------------------------------------
(* The parent: one thread of test_thread with its Worker.                  *)

(* listener.accept() returns once the worker has connected, if it does.    *)
Accept(t) ==
    /\ pc[t] = "accept"
    /\ wpc[t] \notin {"start", "unconnected"}
    /\ Goto(t, IF Shipped = <<>> THEN "check" ELSE "ship")
    /\ UNCHANGED <<planVars, job, shipped, results, aborted, wireVars, workerVars, crashes>>

(* provide_cloneable, provide_hosted_descriptor: one command ...           *)
Ship(t) ==
    /\ pc[t] = "ship"
    /\ wpc[t] # "gone"
    /\ toWorker' = Push(toWorker, t, Frame("Provide", Shipped[shipped[t] + 1]))
    /\ Goto(t, "ack")
    /\ UNCHANGED <<planVars, job, shipped, results, aborted, fromWorker, workerVars, crashes>>

\* Mutation: the next command is sent without waiting for the answer.
ShipWithoutAck(t) ==
    /\ pc[t] = "ack"
    /\ shipped' = [shipped EXCEPT ![t] = @ + 1]
    /\ Goto(t, IF shipped'[t] = Len(Shipped) THEN "check" ELSE "ship")
    /\ UNCHANGED <<planVars, job, results, aborted, wireVars, workerVars, crashes>>

(* ... and its answer; others are dropped until the matching one comes.    *)
ReceiveAck(t) ==
    /\ pc[t] = "ack"
    /\ fromWorker[t] # <<>>
    /\ fromWorker' = Pop(fromWorker, t)
    /\ IF Head(fromWorker[t]) = Frame("Accepted", Shipped[shipped[t] + 1])
       THEN /\ shipped' = [shipped EXCEPT ![t] = @ + 1]
            /\ Goto(t, IF shipped[t] + 1 = Len(Shipped) THEN "check" ELSE "ship")
       ELSE UNCHANGED <<shipped, pc>>
    /\ UNCHANGED <<planVars, job, results, aborted, toWorker, workerVars, crashes>>

(* `while !is_done(&execution)`; leaving the loop drops the Worker and     *)
(* with it the connection.                                                 *)
CheckDone(t) ==
    /\ pc[t] = "check"
    /\ mutex = NoThread
    /\ Goto(t, IF left = {} THEN "exit" ELSE "pick")
    /\ UNCHANGED <<planVars, job, shipped, results, aborted, wireVars, workerVars, crashes>>

PickNext(t) ==
    /\ pc[t] = "pick"
    /\ mutex = NoThread
    /\ mutex' = t
    /\ sawLocked' = locks
    /\ Goto(t, "walk")
    /\ UNCHANGED <<left, locks, overtaken, job, shipped, results, aborted, wireVars, workerVars, crashes>>

\* Mutation: the guard of the lock is dropped when pick_next returns.
NotAcquired(n) == locks

Acquired(n) == IF IsSequential(n) THEN locks \cup {LockOf(n)} ELSE locks

(* The walk passes over suites that were locked and takes the first test   *)
(* of the first suite whose lock is free.                                  *)
PickTest(t) ==
    /\ pc[t] = "walk"
    /\ \E x \in left :
         /\ LockOf(NodeOf(x)) \notin locks
         /\ \A y \in left \ {x} : Precedes(y, x) => LockOf(NodeOf(y)) \in sawLocked
                                                    /\ NodeOf(y) # NodeOf(x)
         /\ left' = left \ {x}
         /\ locks' = Acquired(NodeOf(x))
         /\ job' = [job EXCEPT ![t] = x]
         /\ overtaken' = (overtaken \/ \E y \in left : Precedes(y, x))
    /\ mutex' = NoThread
    /\ Goto(t, "start")
    /\ UNCHANGED <<sawLocked, shipped, results, aborted, wireVars, workerVars, crashes>>

(* pick_next returns None when it saw the lock of every suite it visited.  *)
PickNothing(t) ==
    /\ pc[t] = "walk"
    /\ \A x \in left : LockOf(NodeOf(x)) \in sawLocked
    /\ mutex' = NoThread
    /\ Goto(t, "check")
    /\ UNCHANGED <<left, locks, sawLocked, overtaken, job, shipped, results, aborted, wireVars,
                   workerVars, crashes>>

(* An #[ignore]d test is reported by the parent alone.                     *)
ReportIgnored(t) ==
    /\ pc[t] = "start"
    /\ job[t] \in Ignored
    /\ results' = [results EXCEPT ![job[t]] = @ + 1]
    /\ Goto(t, "drop")
    /\ UNCHANGED <<planVars, job, shipped, aborted, wireVars, workerVars, crashes>>

(* Worker::run_test sends RunTest ...                                      *)
SendRunTest(t) ==
    /\ pc[t] = "start"
    /\ job[t] \notin Ignored
    /\ wpc[t] # "gone"
    /\ toWorker' = Push(toWorker, t, Frame("RunTest", job[t]))
    /\ Goto(t, "await")
    /\ UNCHANGED <<planVars, job, shipped, results, aborted, fromWorker, workerVars, crashes>>

\* Mutation: the wait for the result of a test also ends at a call.
EndsWait(frame) == frame.type \in {"TestFinished", "HostedRpcCall"}

IsResult(frame) == frame.type = "TestFinished"

(* ... and reads until TestFinished: a HostedRpcCall is dispatched to the  *)
(* owner and answered, the acknowledgement of a Provide* is ignored.       *)
ReceiveResponse(t) ==
    /\ pc[t] = "await"
    /\ fromWorker[t] # <<>>
    /\ fromWorker' = Pop(fromWorker, t)
    /\ LET frame == Head(fromWorker[t])
       IN  IF IsResult(frame)
           THEN /\ results' = [results EXCEPT ![job[t]] = @ + 1]
                /\ Goto(t, "drop")
                /\ UNCHANGED toWorker
           ELSE /\ toWorker' = IF frame.type = "HostedRpcCall"
                               THEN Push(toWorker, t, Frame("HostedRpcReply", frame.of))
                               ELSE toWorker
                /\ UNCHANGED <<pc, results>>
    /\ UNCHANGED <<planVars, job, shipped, aborted, workerVars, crashes>>

(* The TestExecution is dropped at the end of the loop body.               *)
DropExecution(t) ==
    /\ pc[t] = "drop"
    /\ locks' = IF IsSequential(NodeOf(job[t])) THEN locks \ {LockOf(NodeOf(job[t]))} ELSE locks
    /\ job' = [job EXCEPT ![t] = NoTest]
    /\ Goto(t, "check")
    /\ UNCHANGED <<left, mutex, sawLocked, overtaken, shipped, results, aborted, wireVars,
                   workerVars, crashes>>

\* Mutation: the end of the stream is not an error for the reader.
FailsOnWrite(t) ==
    wpc[t] = "gone" /\ (pc[t] = "ship" \/ (pc[t] = "start" /\ job[t] \notin Ignored))

(* write_frame and read_frame fail once the worker's end is closed and     *)
(* what it had written is read.                                            *)
IpcFails(t) ==
    /\ wpc[t] = "gone"
    /\ \/ pc[t] = "ship"
       \/ pc[t] = "start" /\ job[t] \notin Ignored
       \/ pc[t] \in {"ack", "await"} /\ fromWorker[t] = <<>>

(* DumpOnFailure::run: print the worker's output and exit the process.     *)
Abort(t) ==
    /\ IpcFails(t)
    /\ aborted' = TRUE
    /\ UNCHANGED <<planVars, pc, job, shipped, results, wireVars, workerVars, crashes>>

ParentStep(t) ==
    /\ ~aborted
    /\ \/ Accept(t) \/ Ship(t) \/ ReceiveAck(t)
       \/ CheckDone(t) \/ PickNext(t) \/ PickTest(t) \/ PickNothing(t)
       \/ ReportIgnored(t) \/ SendRunTest(t) \/ ReceiveResponse(t)
       \/ DropExecution(t) \/ Abort(t)

-----------------------------------------------------------------------------
(* The worker: test_thread with a connection and without a Worker.         *)

ParentClosed(t) == aborted \/ pc[t] = "exit"

Connect(t) ==
    /\ wpc[t] = "start"
    /\ ~aborted
    /\ WGoto(t, "loop")
    /\ UNCHANGED <<planVars, parentVars, wireVars, wleft, expected, calls, ran, crashes>>

(* is_done of the worker's own plan: the process ends.                     *)
Drained(t) ==
    /\ wpc[t] = "loop"
    /\ wleft[t] = {}
    /\ WGoto(t, "gone")
    /\ UNCHANGED <<planVars, parentVars, wireVars, wleft, expected, calls, ran, crashes>>

AtCommandLoop(t) ==
    wpc[t] = "loop" /\ wleft[t] # {} /\ expected[t] = NoTest

AcceptProvided(t) ==
    /\ AtCommandLoop(t)
    /\ ~ParentClosed(t)
    /\ toWorker[t] # <<>>
    /\ Head(toWorker[t]).type = "Provide"
    /\ toWorker' = Pop(toWorker, t)
    /\ fromWorker' = Push(fromWorker, t, Frame("Accepted", Head(toWorker[t]).of))
    /\ UNCHANGED <<planVars, parentVars, workerVars, crashes>>

ExpectTest(t) ==
    /\ AtCommandLoop(t)
    /\ toWorker[t] # <<>>
    /\ Head(toWorker[t]).type = "RunTest"
    /\ toWorker' = Pop(toWorker, t)
    /\ expected' = [expected EXCEPT ![t] = Head(toWorker[t]).of]
    /\ UNCHANGED <<planVars, parentVars, fromWorker, wpc, wleft, calls, ran, crashes>>

(* `skip`: a test of the plan that is not the expected one is dropped.     *)
Discard(t) ==
    /\ wpc[t] = "loop"
    /\ expected[t] # NoTest
    /\ \E x \in wleft[t] \ {expected[t]} :
         /\ FirstTest(x, wleft[t])
         /\ wleft' = [wleft EXCEPT ![t] = @ \ {x}]
    /\ UNCHANGED <<planVars, parentVars, wireVars, wpc, expected, calls, ran, crashes>>

StartBody(t) ==
    /\ wpc[t] = "loop"
    /\ FirstTest(expected[t], wleft[t])
    /\ wleft' = [wleft EXCEPT ![t] = @ \ {expected[t]}]
    /\ calls' = [calls EXCEPT ![t] = 0]
    /\ ran' = [ran EXCEPT ![expected[t]] = @ + 1]
    /\ WGoto(t, "body")
    /\ UNCHANGED <<planVars, parentVars, wireVars, expected, crashes>>

(* A stub in the test body: write HostedRpcCall and, with the connection   *)
(* still locked, read the next frame.                                      *)
CallOwner(t) ==
    /\ wpc[t] = "body"
    /\ calls[t] < MaxCalls
    /\ ~ParentClosed(t)
    /\ calls' = [calls EXCEPT ![t] = @ + 1]
    /\ fromWorker' = Push(fromWorker, t, Frame("HostedRpcCall", expected[t]))
    /\ WGoto(t, "reply")
    /\ UNCHANGED <<planVars, parentVars, toWorker, wleft, expected, ran, crashes>>

(* A reply, or no more parent to reply: the stub returns an error then.    *)
ReceiveReply(t) ==
    /\ wpc[t] = "reply"
    /\ \/ toWorker[t] # <<>> /\ toWorker' = Pop(toWorker, t)
       \/ toWorker[t] = <<>> /\ ParentClosed(t) /\ UNCHANGED toWorker
    /\ WGoto(t, "body")
    /\ UNCHANGED <<planVars, parentVars, fromWorker, wleft, expected, calls, ran, crashes>>

FinishBody(t) ==
    /\ wpc[t] = "body"
    /\ ~ParentClosed(t)
    /\ fromWorker' = Push(fromWorker, t, Frame("TestFinished", expected[t]))
    /\ expected' = [expected EXCEPT ![t] = NoTest]
    /\ WGoto(t, "loop")
    /\ UNCHANGED <<planVars, parentVars, toWorker, wleft, calls, ran, crashes>>

\* Mutation: an end of the stream between tests leaves the worker waiting.
WritesFail(t) == wpc[t] = "body" /\ ParentClosed(t)

(* Without a parent the next read or write of a frame panics.              *)
LosesParent(t) ==
    /\ ParentClosed(t)
    /\ \/ wpc[t] = "start"
       \/ AtCommandLoop(t) /\ \A i \in DOMAIN toWorker[t] : toWorker[t][i].type # "RunTest"
       \/ wpc[t] = "body"

Panic(t) ==
    /\ LosesParent(t)
    /\ WGoto(t, "gone")
    /\ UNCHANGED <<planVars, parentVars, wireVars, wleft, expected, calls, ran, crashes>>

WorkerStep(t) ==
    \/ Connect(t) \/ Drained(t) \/ AcceptProvided(t) \/ ExpectTest(t)
    \/ Discard(t) \/ StartBody(t) \/ CallOwner(t) \/ ReceiveReply(t)
    \/ FinishBody(t) \/ Panic(t)

(* A worker process dies: exit or abort in a test, a signal, no memory.    *)
Crash(t) ==
    /\ wpc[t] \notin {"gone", "unconnected"}
    /\ crashes < MaxCrashes
    /\ crashes' = crashes + 1
    /\ WGoto(t, IF wpc[t] = "start" THEN "unconnected" ELSE "gone")
    /\ UNCHANGED <<planVars, parentVars, wireVars, wleft, expected, calls, ran>>

AllGone == \A t \in Threads : wpc[t] \in {"gone", "unconnected"}

Over == (aborted \/ \A t \in Threads : pc[t] = "exit") /\ AllGone

Ended == Over /\ UNCHANGED vars

Next == (\E t \in Threads : ParentStep(t) \/ WorkerStep(t) \/ Crash(t)) \/ Ended

(* Threads and processes are scheduled; that a worker dies is never owed.  *)
Fairness == \A t \in Threads : WF_vars(ParentStep(t)) /\ WF_vars(WorkerStep(t))

Spec == Init /\ [][Next]_vars

FairSpec == Spec /\ Fairness

-----------------------------------------------------------------------------
ShippedDeps == {Shipped[i] : i \in DOMAIN Shipped}

Commands ==
    [type : {"Provide"}, of : ShippedDeps]
    \cup [type : {"RunTest", "HostedRpcReply"}, of : Tests \ Ignored]

Responses ==
    [type : {"Accepted"}, of : ShippedDeps]
    \cup [type : {"TestFinished", "HostedRpcCall"}, of : Tests \ Ignored]

(* Every variable has its type; no frame is about an ignored test.          *)
TypeOK ==
    /\ left \subseteq Tests
    /\ locks \subseteq Nodes
    /\ mutex \in Threads \cup {NoThread}
    /\ sawLocked \subseteq Nodes
    /\ overtaken \in BOOLEAN
    /\ pc \in [Threads -> ParentLabels]
    /\ job \in [Threads -> Tests \cup {NoTest}]
    /\ shipped \in [Threads -> 0..Len(Shipped)]
    /\ results \in [Tests -> Nat]
    /\ aborted \in BOOLEAN
    /\ toWorker \in [Threads -> Seq(Commands)]
    /\ fromWorker \in [Threads -> Seq(Responses)]
    /\ wpc \in [Threads -> WorkerLabels]
    /\ wleft \in [Threads -> SUBSET Tests]
    /\ expected \in [Threads -> Tests \cup {NoTest}]
    /\ calls \in [Threads -> 0..MaxCalls]
    /\ ran \in [Tests -> Nat]
    /\ crashes \in 0..MaxCrashes

(* The frame a parent thread waits for, if it waits for one.               *)
Awaited(t) ==
    CASE pc[t] = "ack"   -> {Frame("Accepted", Shipped[shipped[t] + 1])}
      [] pc[t] = "await" -> {Frame("TestFinished", job[t]), Frame("HostedRpcCall", job[t])}
      [] OTHER           -> {}

(* The frame types the worker understands where it reads the next one.     *)
Understood(t) ==
    CASE wpc[t] = "reply" -> {"HostedRpcReply"}
      [] wpc[t] = "gone"  -> {"HostedRpcReply", "Provide", "RunTest"}
      [] OTHER            -> {"Provide", "RunTest"}

(* The two ends of a connection never get out of step: one frame is under   *)
(* way at most, the worker understands it where it will read it, and what   *)
(* comes back answers the command the parent thread waits on.  A            *)
(* TestFinished frame does not name its test, so a result would go to the   *)
(* wrong test silently ("IPC protocol out of sync", sync.rs:438).           *)
FramesInStep ==
    \A t \in Threads :
        /\ Len(toWorker[t]) + Len(fromWorker[t]) <= 1
        /\ \A i \in DOMAIN toWorker[t] : toWorker[t][i].type \in Understood(t)
        /\ \A i \in DOMAIN fromWorker[t] : fromWorker[t][i] \in Awaited(t)

InBody(t) == wpc[t] \in {"body", "reply"}

(* A test has at most one result, and only once its body has been run in    *)
(* one worker, to its end, or because it is ignored.                        *)
ResultsAreEarned ==
    \A x \in Tests :
        /\ ran[x] <= 1
        /\ results[x] <= 1
        /\ results[x] = 1 /\ x \notin Ignored
              => ran[x] = 1 /\ \A t \in Threads : ~(InBody(t) /\ expected[t] = x)

(* As long as no test has overtaken one of a locked suite, the worker a     *)
(* test is sent to still has it in its plan.                                *)
CommandedTestIsLeft ==
    ~overtaken =>
        \A t \in Threads :
            pc[t] = "await" /\ ran[job[t]] = 0 => job[t] \in wleft[t]

(* Only a worker that died makes the parent give up on the whole run: "The  *)
(* rest of the tests in the crate will still be parallelized based on the   *)
(* `--test-threads` argument." (per_test_configuration.md:25).              *)
AbortedOnlyByCrash == aborted => crashes > 0

(* A worker that dies with a command unanswered ends the whole run: no      *)
(* thread waits for an answer that does not come, and no suite is reported  *)
(* as complete without that test (DumpOnFailure).                           *)
LostTestAborts ==
    \A t \in Threads :
        (pc[t] = "await" /\ wpc[t] = "gone" /\ fromWorker[t] = <<>>) ~> aborted

(* Once every worker has connected the run ends, whatever dies after that,  *)
(* and leaves no worker process behind.                                     *)
EndsOnceConnected == (\A t \in Threads : pc[t] # "accept") ~> Over

(* Every test is reported, unless a worker dies or a test overtakes one of  *)
(* a locked suite.                                                          *)
AllReported ==
    <>(\/ crashes > 0 \/ overtaken
       \/ ~aborted /\ Over /\ \A x \in Tests : results[x] = 1)

-----------------------------------------------------------------------------
SameSuiteLock(x, y) == Conflict(NodeOf(x), NodeOf(y))

ActiveTests == {expected[t] : t \in {u \in Threads : InBody(u)}}

StartedTests == {x \in Tests : ran[x] > 0}

Schedule == INSTANCE TestSchedule WITH
    AllTests  <- Tests \ Ignored,
    Exclusive <- SameSuiteLock,
    waiting   <- Tests \ (Ignored \cup StartedTests),
    active    <- ActiveTests,
    finished  <- StartedTests \ ActiveTests

(* The bodies that run in all worker processes together follow the same     *)
(* abstract schedule as the threads of a run without workers; a body that   *)
(* dies with its process has ended.  That they go on is AllReported.        *)
ImplementsSchedule == Schedule!ScheduleSafety
=============================================================================
