--------------------------- MODULE TestScheduler ---------------------------
(***************************************************************************)
(* The test threads of one process and the execution plan they share: the  *)
(* loop of `test_thread` in sync.rs and tokio.rs and, step by step, the    *)
(* recursive TestSuiteExecution::pick_next_internal of execution/mod.rs.   *)
(*                                                                         *)
(* All of the plan is behind one mutex, but a test gives its sequential    *)
(* lock and its in-progress count back without taking that mutex, so both  *)
(* can change in the middle of a walk through the tree.  A step of the     *)
(* model is therefore one node of the walk, not one pick.                  *)
(***************************************************************************)
EXTENDS SuiteTree, Integers

CONSTANTS
    Threads,       \* the test threads (--test-threads of them)
    NoThread,      \* nobody holds the mutex around the plan
    NoJob,         \* a thread that has no TestExecution
    DepNodes,      \* nodes with dependencies left after prune_unused_deps
    SkipCreating   \* skip_creating_dependencies: workers build them instead

ASSUME ThreadsAssumption ==
    /\ NoThread \notin Threads
    /\ NoJob \notin [test : Tests, node : Nodes]
    /\ DepNodes \subseteq Nodes
    /\ SkipCreating \in BOOLEAN

VARIABLES
    tests,         \* per node: its own tests that are still queued
    attached,      \* the nodes that are still in their parent's `inner`
    remaining,     \* per node: remaining_count
    built,         \* nodes whose materialized_dependencies are complete
    builds,        \* history: how often the constructors of a node ran
    idx,           \* the root's idx, the index of the next TestExecution
    locks,         \* the sequential locks that are held, named by their node
    inProgress,    \* per node: in_progress
    mutex,         \* the thread that holds the mutex around the plan
    at,            \* the node its walk is at
    sawLocked,     \* the nodes this walk found locked (`locked` of a frame)
    pc,            \* per thread: where it is in test_thread
    job,           \* per thread: its TestExecution, the test and its node
    results        \* per thread: the results it pushed

treeVars   == <<tests, attached, remaining, built, builds, idx>>
lockVars   == <<locks, inProgress>>
walkVars   == <<mutex, at, sawLocked>>
threadVars == <<pc, job, results>>
vars       == <<treeVars, lockVars, walkVars, threadVars>>

Labels == {"check", "pick", "enter", "lock", "none", "some",
           "run", "drop", "unlock", "exit"}

Elements(s) == {s[i] : i \in DOMAIN s}

Goto(t, label) == pc' = [pc EXCEPT ![t] = label]

-----------------------------------------------------------------------------
(* The children of a node that its `inner` still holds.                    *)
Inner(n) == {c \in attached : c \in ChildrenOf(n)}

FirstOf(C) == CHOOSE c \in C : \A d \in C : Rank[c] <= Rank[d]

\* Mutation: the loop over `inner` stops at the first child without a test.
StopAtFirstNone(n) == {}

(* The siblings the loop over the parent's `inner` visits after n.         *)
LaterSiblings(n) == {c \in Inner(ParentOf(n)) : Rank[c] > Rank[n]}

IsEmpty(n) == tests[n] = <<>> /\ Inner(n) = {}

\* Mutation: the bookkeeping of `inner` forgets a suite whose lock is taken.
RetainUnlocked(n) == attached \ {c \in Inner(n) : LockOf(c) \in locks}

(* self.inner.retain(|inner| !inner.is_empty())                            *)
Retained(n) == attached \ {c \in Inner(n) : IsEmpty(c)}

IsMaterialized(n) == SkipCreating \/ n \in built \/ n \notin DepNodes

(* materialize_deps: all constructors of the node that have not run yet.   *)
Materialize(n) ==
    /\ built' = IF IsMaterialized(n) THEN built ELSE built \cup {n}
    /\ builds' = IF IsMaterialized(n) THEN builds
                 ELSE [builds EXCEPT ![n] = @ + 1]

\* Mutation: without is_empty(), the guard the sync path once lacked.
DropWhenNothingPicked(n, left) ==
    IsMaterialized(n) /\ n \notin sawLocked /\ inProgress[n] = 0

(* The condition of drop_deps() when the node returns None: nothing queued *)
(* here, no child left, not locked on the way in, no test of it running.   *)
DropsDeps(n, left) ==
    /\ tests[n] = <<>>
    /\ left \cap ChildrenOf(n) = {}
    /\ IsMaterialized(n)
    /\ n \notin sawLocked
    /\ inProgress[n] = 0

-----------------------------------------------------------------------------
Init ==
    /\ tests = OwnTests
    /\ attached = Nodes
    /\ remaining = [n \in Nodes |->
          Cardinality({x \in Tests : \E m \in Subtree(n) : x \in Elements(OwnTests[m])})]
    /\ built = {}
    /\ builds = [n \in Nodes |-> 0]
    /\ idx = 0
    /\ locks = {}
    /\ inProgress = [n \in Nodes |-> 0]
    /\ mutex = NoThread
    /\ at = Root
    /\ sawLocked = {}
    /\ pc = [t \in Threads |-> "check"]
    /\ job = [t \in Threads |-> NoJob]
    /\ results = [t \in Threads |-> <<>>]

IsDone == remaining[Root] = 0

(* `while !is_done(&execution)`: takes and releases the mutex.             *)
CheckDone(t) ==
    /\ pc[t] = "check"
    /\ mutex = NoThread
    /\ Goto(t, IF IsDone THEN "exit" ELSE "pick")
    /\ UNCHANGED <<treeVars, lockVars, walkVars, job, results>>

(* pick_next takes the mutex again and starts at the root.                 *)
PickNext(t) ==
    /\ pc[t] = "pick"
    /\ mutex = NoThread
    /\ mutex' = t
    /\ at' = Root
    /\ sawLocked' = {}
    /\ Goto(t, "enter")
    /\ UNCHANGED <<treeVars, lockVars, job, results>>

(* The call for node n returned None: the caller's loop goes on with the   *)
(* next child or ends; at the root pick_next returns and frees the mutex.  *)
NoneFrom(t, n) ==
    IF n = Root
    THEN /\ mutex' = NoThread
         /\ Goto(t, "check")
         /\ UNCHANGED at
    ELSE /\ UNCHANGED mutex
         /\ IF LaterSiblings(n) = {}
            THEN at' = ParentOf(n) /\ Goto(t, "none")
            ELSE at' = FirstOf(LaterSiblings(n)) /\ Goto(t, "enter")

(* `if self.is_empty() { None }`                                           *)
EnterEmpty(t) ==
    /\ pc[t] = "enter"
    /\ IsEmpty(at)
    /\ NoneFrom(t, at)
    /\ UNCHANGED <<treeVars, lockVars, sawLocked, job, results>>

\* Mutation: the sequential lock is not looked at before it is taken.
NeverLocked(n) == FALSE

(* is_locked(): try_lock on the node's lock fails.                         *)
Locked(n) == LockOf(n) \in locks

(* A node with nothing of its own to run, or whose lock is held, asks its  *)
(* children in turn.                                                       *)
Descend(t) ==
    /\ pc[t] = "enter"
    /\ ~IsEmpty(at)
    /\ tests[at] = <<>> \/ Locked(at)
    /\ Materialize(at)
    /\ sawLocked' = IF Locked(at) THEN sawLocked \cup {at} ELSE sawLocked
    /\ IF Inner(at) = {}
       THEN Goto(t, "none") /\ UNCHANGED at
       ELSE at' = FirstOf(Inner(at)) /\ Goto(t, "enter")
    /\ UNCHANGED <<tests, attached, remaining, idx, lockVars, mutex, job, results>>

(* A node with tests whose lock is free is the one to take a test from.    *)
Choose(t) ==
    /\ pc[t] = "enter"
    /\ tests[at] # <<>>
    /\ ~Locked(at)
    /\ Materialize(at)
    /\ Goto(t, "lock")
    /\ UNCHANGED <<tests, attached, remaining, idx, lockVars, walkVars, job, results>>

-----------------------------------------------------------------------------
\* Mutation: only the level that popped the test counts it.
CountsOnlyOwn(n) == IF pc[mutex] = "some" THEN remaining
                    ELSE [remaining EXCEPT ![n] = @ - 1]

CountDown(n) == [remaining EXCEPT ![n] = @ - 1]

(* The call for node n returned a test: the caller stops its loop; at the  *)
(* root the TestExecution is made and the mutex is freed.                  *)
SomeFrom(t, n) ==
    IF n = Root
    THEN /\ mutex' = NoThread
         /\ idx' = idx + 1
         /\ Goto(t, "run")
         /\ UNCHANGED at
    ELSE /\ at' = ParentOf(n)
         /\ Goto(t, "some")
         /\ UNCHANGED <<mutex, idx>>

(* lock(is_sequential) would block while somebody holds the lock; the      *)
(* in-progress count goes up and the test leaves the queue.                *)
TakeTest(t) ==
    /\ pc[t] = "lock"
    /\ IsSequential(at) => LockOf(at) \notin locks
    /\ locks' = IF IsSequential(at) THEN locks \cup {LockOf(at)} ELSE locks
    /\ inProgress' = [inProgress EXCEPT ![at] = @ + 1]
    /\ job' = [job EXCEPT ![t] = [test |-> Head(tests[at]), node |-> at]]
    /\ tests' = [tests EXCEPT ![at] = Tail(@)]
    /\ remaining' = CountDown(at)
    /\ SomeFrom(t, at)
    /\ UNCHANGED <<attached, built, builds, sawLocked, results>>

(* Back in an ancestor with a test in hand.                                *)
ReturnSome(t) ==
    /\ pc[t] = "some"
    /\ attached' = Retained(at)
    /\ remaining' = CountDown(at)
    /\ SomeFrom(t, at)
    /\ UNCHANGED <<tests, built, builds, lockVars, sawLocked, job, results>>

(* Back in a node none of whose children had a test to give.               *)
ReturnNone(t) ==
    /\ pc[t] = "none"
    /\ attached' = Retained(at)
    /\ built' = IF DropsDeps(at, Retained(at)) THEN built \ {at} ELSE built
    /\ NoneFrom(t, at)
    /\ UNCHANGED <<tests, remaining, builds, idx, lockVars, sawLocked, job, results>>

-----------------------------------------------------------------------------
(* The test body ends and its result is pushed.                            *)
FinishTest(t) ==
    /\ pc[t] = "run"
    /\ results' = [results EXCEPT ![t] = Append(@, job[t].test)]
    /\ Goto(t, "drop")
    /\ UNCHANGED <<treeVars, lockVars, walkVars, job>>

(* Drop for TestExecution: first the count ...                             *)
DropExecution(t) ==
    /\ pc[t] = "drop"
    /\ inProgress' = [inProgress EXCEPT ![job[t].node] = @ - 1]
    /\ Goto(t, "unlock")
    /\ UNCHANGED <<treeVars, locks, walkVars, job, results>>

\* Mutation: the guard of the lock outlives the TestExecution.
GuardLeaks(n) == locks

(* The guard in _seq_lock unlocks when it is dropped.                      *)
Unlocked(n) == IF IsSequential(n) THEN locks \ {LockOf(n)} ELSE locks

(* ... then its fields, the guard of the sequential lock among them.       *)
DropGuard(t) ==
    /\ pc[t] = "unlock"
    /\ locks' = Unlocked(job[t].node)
    /\ job' = [job EXCEPT ![t] = NoJob]
    /\ Goto(t, "check")
    /\ UNCHANGED <<treeVars, inProgress, walkVars, results>>

Step(t) ==
    \/ CheckDone(t) \/ PickNext(t)
    \/ EnterEmpty(t) \/ Descend(t) \/ Choose(t)
    \/ TakeTest(t) \/ ReturnSome(t) \/ ReturnNone(t)
    \/ FinishTest(t) \/ DropExecution(t) \/ DropGuard(t)

(* All threads have joined: the suite is over.                             *)
Joined ==
    /\ \A t \in Threads : pc[t] = "exit"
    /\ UNCHANGED vars

Next == (\E t \in Threads : Step(t)) \/ Joined

(* The operating system runs every thread and test bodies end.             *)
Fairness == \A t \in Threads : WF_vars(Step(t))

Spec == Init /\ [][Next]_vars

FairSpec == Spec /\ Fairness

-----------------------------------------------------------------------------
(* Every variable has its type.                                             *)
TypeOK ==
    /\ tests \in [Nodes -> Seq(Tests)]
    /\ attached \subseteq Nodes
    /\ remaining \in [Nodes -> Int]
    /\ built \subseteq Nodes
    /\ builds \in [Nodes -> Nat]
    /\ idx \in Nat
    /\ locks \subseteq Nodes
    /\ inProgress \in [Nodes -> Int]
    /\ mutex \in Threads \cup {NoThread}
    /\ at \in Nodes
    /\ sawLocked \subseteq Nodes
    /\ pc \in [Threads -> Labels]
    /\ job \in [Threads -> [test : Tests, node : Nodes] \cup {NoJob}]
    /\ results \in [Threads -> Seq(Tests)]

Running(t) == pc[t] = "run"

-----------------------------------------------------------------------------
(* The inductive invariant behind the two lock properties below.            *)

(* Only the thread that holds the mutex is inside the plan.                 *)
InPlan(t) == pc[t] \in {"enter", "lock", "none", "some"}

MutexInv == \A t \in Threads : InPlan(t) => mutex = t

(* From TakeTest to DropGuard a thread owns a TestExecution ...             *)
OwnsExecution(t) == pc[t] \in {"some", "run", "drop", "unlock"}

ExecutionInv ==
    \A t \in Threads : OwnsExecution(t) => job[t] \in [test : Tests, node : Nodes]

(* ... and with it the guard of the sequential lock,                        *)
GuardInv ==
    \A t \in Threads :
        OwnsExecution(t) /\ IsSequential(job[t].node) => LockOf(job[t].node) \in locks

(* which no other thread has.                                               *)
OwnerInv ==
    \A t, u \in Threads :
        /\ t # u
        /\ OwnsExecution(t) /\ OwnsExecution(u)
        /\ IsSequential(job[t].node) /\ IsSequential(job[u].node)
        => LockOf(job[t].node) # LockOf(job[u].node)

(* What was true of the chosen node when its lock was looked at is still    *)
(* true when the lock is taken.                                             *)
ChosenInv ==
    \A t \in Threads : pc[t] = "lock" => tests[at] # <<>> /\ LockOf(at) \notin locks

(* The inductive invariant of the theorems in TestScheduler_proofs: a step  *)
(* of one thread never takes the ground from under another that is between  *)
(* looking at a lock and taking it, or between taking it and giving it back.*)
LockInv ==
    TypeOK /\ MutexInv /\ ExecutionInv /\ GuardInv /\ OwnerInv /\ ChosenInv

-----------------------------------------------------------------------------

(* Two tests of one #[sequential] module, or of modules nested in it, never *)
(* run at the same time: the lock is looked at and taken in two steps, is   *)
(* inherited by nested modules and is given back without the mutex.         *)
SequentialExclusion ==
    \A t, u \in Threads :
        t # u /\ Running(t) /\ Running(u) => ~Conflict(job[t].node, job[u].node)

(* Taking a sequential lock never blocks.  The thread holds the mutex of    *)
(* the plan while it does (pick_next_internal), so a wait here would stop   *)
(* every other thread; only `is_locked` a step earlier prevents it.         *)
LockNeverWaits ==
    \A t \in Threads :
        pc[t] = "lock" /\ IsSequential(at) => LockOf(at) \notin locks

QueuedBelow(n) ==
    {x \in Tests : \E m \in Subtree(n) : x \in Elements(tests[m])}

(* Whenever no walk is under way, remaining_count of every suite is the     *)
(* number of tests queued in it and below, and root count and index add up: *)
(* is_done is exact and `remaining_count -= 1` never underflows.            *)
CountsMatch ==
    mutex = NoThread =>
        /\ \A n \in Nodes : remaining[n] = Cardinality(QueuedBelow(n))
        /\ idx + remaining[Root] = Cardinality(Tests)

Places(x) ==
    {<<"queue", n, i>> : n \in attached, i \in 1..Cardinality(Tests)}
    \cup {<<"result", t, i>> : t \in Threads, i \in 1..Cardinality(Tests)}
    \cup {<<"thread", t, 1>> : t \in Threads}

Holds(place, x) ==
    CASE place[1] = "queue"  -> place[3] \in DOMAIN tests[place[2]]
                                /\ tests[place[2]][place[3]] = x
      [] place[1] = "result" -> place[3] \in DOMAIN results[place[2]]
                                /\ results[place[2]][place[3]] = x
      [] place[1] = "thread" -> pc[place[2]] \in {"some", "run"}
                                /\ job[place[2]].test = x

(* Every test is in exactly one place: queued in a node that a walk can     *)
(* still reach, in the hands of one thread, or once among the results.  No  *)
(* test runs twice and none is lost when `inner.retain` removes suites.     *)
EveryTestInOnePlace ==
    \A x \in Tests : Cardinality({p \in Places(x) : Holds(p, x)}) = 1

(* The dependencies of a suite are constructed once, before the first test  *)
(* in it or below it runs, whatever the walks of other threads find empty   *)
(* or locked in the meantime (execution/tests.rs:130: "must run once when   *)
(* the parent subtree first materialises").                                 *)
DepsBuiltOnce ==
    /\ \A n \in Nodes : builds[n] <= 1
    /\ ~SkipCreating =>
          \A t \in Threads : Running(t) =>
              \A d \in DepNodes : IsPrefixOf(d, job[t].node) => builds[d] = 1

(* A pick comes back without a test only because every test still queued is *)
(* in a suite whose lock the walk found taken: no runnable test is missed,  *)
(* "the rest of the tests in the crate will still be parallelized".         *)
FailedPickMissedNothing ==
    \A t \in Threads : pc[t] = "none" /\ at = Root =>
        \A n \in Nodes : tests[n] # <<>> => IsSequential(n) /\ n \in sawLocked

(* Every test that was selected ends up among the results and every thread  *)
(* leaves its loop, although threads poll and a locked suite is skipped.    *)
AllReportedAndJoined ==
    <>(/\ \A t \in Threads : pc[t] = "exit"
       /\ \A x \in Tests : \E t \in Threads : x \in Elements(results[t]))

-----------------------------------------------------------------------------
SameSuiteLock(x, y) ==
    \E m, n \in Nodes :
        /\ x \in Elements(OwnTests[m])
        /\ y \in Elements(OwnTests[n])
        /\ Conflict(m, n)

ActiveTests == {job[t].test : t \in {u \in Threads : Running(u)}}

ReportedTests == UNION {Elements(results[t]) : t \in Threads}

Schedule == INSTANCE TestSchedule WITH
    AllTests  <- Tests,
    Exclusive <- SameSuiteLock,
    waiting   <- Tests \ (ActiveTests \cup ReportedTests),
    active    <- ActiveTests,
    finished  <- ReportedTests

(* The threads, their mutex and the tree walk implement the abstract        *)
(* schedule: a step starts one test, ends one test, or shows nothing.       *)
ImplementsSchedule == Schedule!ScheduleSpec
=============================================================================
