# A verification of the test-r runner

`test-r` is a test framework for Rust: tests, dependencies and suite properties
register themselves, and a runner builds a plan out of them, runs it on several
threads and, when output has to be captured, in several worker processes. These
modules model the runner, `test-r-core`, and the part of `test-r-macro` whose
generated code takes part in a run. The TLC runs check them on small
suites, and TLAPS proves most of their safety for suites of every size.

## The system

| component | state it keeps | operations | talks to |
|---|---|---|---|
| registration and selection (`internal.rs`, `args.rs`, `test-r-macro`) | registered tests, generators and suite properties; the seed of a shuffle | generate, multiply over matrix suites, tag, filter, shuffle; `from_args`, `to_args` | input of `construct`, in the parent and again in every worker |
| suite tree (`execution/mod.rs`) | nodes with tests, dependencies, properties, lock, counts | `construct`, `add_*`, `propagate_sequential`, `prune_unused_deps` | everything below reads it |
| scheduling (`execution/mod.rs`, `sync.rs`, `tokio.rs`) | queues, `inner`, `remaining_count`, sequential locks, `in_progress` | `pick_next`, `is_done`, `lock`, drop of a `TestExecution`, `test_thread` | threads share one plan behind a mutex; locks and counts are given back without it |
| worker processes (`sync.rs`, `tokio.rs`, `ipc.rs`) | a connection per thread, a plan per worker, `expected_test` | `spawn_worker_if_needed`, `Provide*`, `RunTest`, `TestFinished`, `HostedRpcCall`/`Reply`, `DumpOnFailure` | frames over a local socket; output over pipes |
| output capture (`sync.rs`, `tokio.rs`) | line queues, `capture_enabled` | reader tasks, finish markers, `drain_until` | pipes of the workers |
| dependencies (`execution/mod.rs`, `sync.rs`) | registered and materialised dependencies per node, owners in the parent | planning, collecting, providing, materialising, dropping | collected values go to workers or into the parent's own plan |
| HostedRpc cells (`internal.rs`, `tokio.rs`, `deps.rs`, `hosted_rpc.rs`) | owners behind mutexes, poison flags, the cache of `worker = both` | acquire, `dispatch`, `call` | called for worker frames, or directly |
| attempts and panics (`sync.rs`, `tokio.rs`, `internal.rs`, `panic_hook.rs`, `spawn.rs`) | attempts of a test, captures and collectors by test id | `run_with_flakiness_control`, the hook, `spawn`, `spawn_thread`, `from_result` | wraps the body of one test |
| a run of the suite (`sync.rs`, `tokio.rs`, `host_capture.rs`, `output/`) | retries left, redirected descriptors, spill file, results and windows, logs | the `flaky_run` loop, install, finalise, attribute, report, exit code | owners print into the pipe; windows come from test threads |
| statistics, `cargo-test-r`, CI helper, facade, examples | none that matters here | | |

What is hard here: the walk through the tree is interleaved with threads that
give locks back; a worker replays the plan on its own and has to end up at the
same test as the parent; both ends of a connection must agree on what the next
frame is, and either may die; lines arrive on pipes that nothing orders with the
connection; values of dependencies arrive one by one and each of them prunes the
plan it arrives in; owners are entered from several threads and may panic;
panics of detached threads arrive in a table the test reads and clears; the
redirection of the parent's own output fails or ends halfway.
`PROJECT.json` lists these hazards with their lines and the properties that
cover them.

What makes each part correct:

* selection: every combination of cases runs once, each body finds the variants
  its name promises, suites configure the tests in them, and every process of a run comes to the same list;
* scheduling: each test runs once, tests of one sequential module never overlap,
  no runnable test is overlooked, counts are exact, constructors of a suite run
  once, everybody ends;
* workers: results belong to their tests, the exclusion survives the process
  boundary, death of a worker ends the run instead of stopping or falsifying it;
* output: a captured test is given all its own lines and none of another captured
  test, none of them is also shown, and the parent finds the end of them;
* dependencies: a test finds what it takes, a constructor finds its inputs,
  owners exist once and in the parent;
* owner cells: one call at a time, none after a panic, each answer for its call;
* attempts: a test is judged by its own panics, charged with those of tasks that
  carry its id and failed by no others, and the verdict is the one its declaration
  stands for;
* a run: descriptors are redirected together or not at all, nothing an owner
  prints is lost or given to a test that was not running, logs and exit code are
  those of the last attempt.

## Modules

| module | what it is |
|---|---|
| `SuiteTree` | constants: the tree `construct` builds, who is sequential, whose lock a suite uses, the order of the walk |
| `Selection` | from functions to the list of tests: dimensions, matrix suites, tags, filters |
| `CommandLine` | extends it: how every process arrives at one list |
| `TreeConstruction`, `TreeConstruction_proofs` | extends that: how `construct` arrives at the tree; that it is the one of `SuiteTree` |
| `TestSchedule` | abstract: tests start and finish once, exclusive ones do not overlap |
| `TestScheduler` | the test threads and the recursive `pick_next_internal`, node by node |
| `TestScheduler_proofs` | proofs about the tree, the scheduler's inductive invariants and what follows, up to the refinement of `TestSchedule` |
| `WorkerProtocol`, `WorkerProtocol_proofs` | parent threads, worker processes, the frames between them, death of workers; frames in step, results, the refinement of `TestSchedule` |
| `CapturedOutput`, `CapturedOutput_proofs` | the pipes of one worker, the reader tasks, the finish marker; results are complete, nothing captured is shown |
| `Dependencies`, `Dependencies_proofs` | pruning, planning, handing over, materialising; where constructors run, what tests and constructors find |
| `HostedRpc`, `HostedRpc_proofs` | one owner, its cell, the stubs in the workers; exclusion, poison, answers, frames in step |
| `TestAttempts`, `TestAttempts_proofs` | attempts of tests, the panic hook, detached tasks; what attempts decide, whose panics count |
| `SuiteRun`, `SuiteRun_proofs` | attempts of the run, host capture, formatters; the redirection, the lines of a result, log and exit code |
| `MC*` | small instances for TLC |

`TestScheduler` and `WorkerProtocol` both extend `SuiteTree` and both implement
`TestSchedule`. `CapturedOutput`, `HostedRpc` and `TestAttempts` each refine one
point of `WorkerProtocol` (the end of a test, a call during a test, the body of
a test), and `SuiteRun` has the threads of `TestScheduler` as single steps.

### SuiteTree

A node is its module path, a sequence of segments. The tree is a constant here,
and what construction guarantees (closed under parents, siblings at distinct
positions, a test in one node) is assumed; `TreeConstruction` shows it. `LockOf`
is the result of `propagate_sequential`: the lock of the topmost marked module
above a suite.

### Selection, CommandLine, TreeConstruction

`Selection` is made of operators only. A test is a record of its function, its
module, the cases in its name, its tags, its timeout, its dependency list, and
what its body's lookups arrive at (`variants`, `view`). `GeneratedTests` is the
generator the macro emits for `#[dimension]` parameters (the last dimension is
the outermost and its case stands first in the name);
`SuitePropsApplied` is `apply_suite_props_to_tests`: properties work in order of
registration, and each matrix multiplies what the ones before left, wrapping
the lookup (`AliasedDependencyView`) once more. Which tests a property reaches
is a comparison of path texts: `LongerNames` says which names begin other ones,
`StartsWith` is the comparison. `EveryCaseOnce` goes by the path itself
(`SuitesOf`) and is stated for the functions on which book and code agree
(`AsDocumented`): not for a benchmark, nor for a function that a property reaches
only by the text of its module's name. For these the code does what the
divergences below say, and the property neither asks for it nor denies it. `Filtered` has the filters by name and tag,
`--skip`, `--exact`, `--test` and `--bench`.

`CommandLine` has `from_args` (`--shuffle` becomes a seed), `to_args` as words,
what the parser accepts of them, and the shuffle, which is some permutation per
seed (a rotation here).

In `TreeConstruction`, `SelectTests` builds the list and reverses it. `AddProp`,
`AddDependency` and `AddTest` insert one item each; the order of properties and
dependencies is arbitrary because constructor functions of the test binary
register them. The recursion along a path is one step, as nobody else sees the
tree yet; the recursion of `propagate_sequential` is unrolled with the list of
calls still to be made (`calls`), because which lock a child gets depends on
what its parent became. `TreeIsSuiteTree` and `LocksHandedDown` are the link to
`SuiteTree`: the result satisfies its assumptions, and the locks handed down are
its `LockOf`.

Left out: `exclude_should_panic`, `--list`, generators written by users; a name
filter says what the name contains or is. The macro refuses `#[dimension]` on
benchmarks, and a suite property always names a module inside a crate.

### TestScheduler

One thread at a time is inside the plan (`mutex`). The recursion is unrolled:
`at` is the node of the innermost call, `pc` says whether the call is being
entered (`enter`), is between `is_locked` and `lock` (`lock`), or returns with
(`some`) or without (`none`) a test; a node keeps from its frame only whether it
was found locked (`sawLocked`). The other locals of a frame can be recomputed:
the position of the loop is the node that returns.

| code | action |
|---|---|
| `while !is_done(..)` | `CheckDone` |
| `pick_next`: lock the mutex, call the root | `PickNext` |
| `if self.is_empty() { None }` | `EnterEmpty` |
| materialise, `is_locked`, start the loop over `inner` | `Descend` |
| materialise, `is_locked` said no | `Choose` |
| `lock`, `in_progress + 1`, `pop`, `remaining_count - 1` | `TakeTest` |
| back in an ancestor with a test: `retain`, count | `ReturnSome` |
| back in an ancestor without: `retain`, `drop_deps` | `ReturnNone` |
| the body and `results.push` | `FinishTest` |
| `Drop for TestExecution`, then the guard | `DropExecution`, `DropGuard` |

`SkipCreating` is the plan of a parent with workers (`skip_creating_dependencies`).
Constructors are assumed to return. Dependencies of a node are one item here;
`Dependencies` takes them apart.

### WorkerProtocol

The walk is shortened to two steps, since `TestScheduler` has it in full: a test
is taken whose lock is free now, and every test before it was in a suite whose
lock was taken when the walk began (locks can only be given back during a walk).
Frames are records in FIFO queues; a HostedRpc reply is sent in the step that
receives the call, and `HostedRpc` has what happens between. `toWorker` and
`fromWorker` survive the death of the writer, as bytes in a socket do. `"gone"`
is a process that has ended, `"unconnected"` one that ended before it connected.
Acceptance of a shipped value never fails here; when it does is the subject of
`Dependencies`.

### CapturedOutput

One worker and the thread of the parent that commands it. Bodies print pieces of
lines; the pipes carry them; a reader task takes a whole line (`ReadLine`) and,
as a separate step, queues or shows it according to `capture_enabled`
(`Deliver`). `SetCapture` and `SendRunTest` are the two steps of the parent that
race with the readers, `MarkOut` and `MarkErr` print the finish marker,
`DrainUntil` is one look of the polling loop. A thread that outlives its body
prints late (`PrintLate`, bounded by `MaxLate`), and the worker may die
(`Crash`), after which `DumpOnFailure` ends the parent.

The parent does not wait for the lines of a test it does not capture, so they
may be queued after `capture_enabled` is on again and be found in front of the
next test's output, in its result; so may its finish markers, which may also reach
the terminal. The attribute is documented to prevent this; it is among the
divergences below. `OwnOutputOnly` therefore says three things: a result has all
lines of its own test, once and in order; it has no line or marker of another
captured test; and if the test before was captured, all the rest of it comes from
detached threads. A line that is not UTF-8 makes the reader task panic, after
which the parent waits as in finding 4.

### Dependencies

`Init` picks every acyclic graph over `MaxDep` numbered dependencies, every
scope, what the tests of each suite take, which pairs are the two views of a
`worker = both` dependency, and which suites contain a test whose
dependencies are unknown. `Collect` is `collect_parent_shared_dependencies`;
values then enter the plan that runs the tests, in the order of the code
(`Turn`, `ComesBefore`), each followed by the pruning that
`provide_cloneable_value` makes; `EnterSuite` is what `materialize_deps` does
when the walk first enters a suite. What a test or a constructor finds depends on
the form in which the value is there (own, stub, cell, shared) and on the getter
it uses (`GetterTakes`, `GetterOfViewTakes`). With `spawnWorkers` the plan is a
worker's, otherwise the parent's own. The closures of the code's work lists are
stated as least fixed points. Equal names in two suites and constructors that
fail are left out; a test with unknown dependencies may look up everything it
sees.

### HostedRpc

One owner, since cells share nothing. `variant` says in which of the two cells
it is (`sync` or `async`), `mode` whether there are workers.

| code | action |
|---|---|
| acquire helper of `worker = both`: look, lock, install once | `Acquire`, `Install` |
| `dispatch`: (async cell) look at the flag, lock, look again, run, poison, unlock | `BeginDispatch`, `Enter`, `Leave` |
| `Worker::run_test` in the parent, serving calls until `TestFinished` | `SendRunTest`, `ReceiveResponse`, `SendReply` |
| the command loop of the worker | `LockForCommand`, `ReadCommand`, `EndBody`, `FinishTest` |
| `IpcHostedRpcTransport::call`: lock the connection, write, read | `BeginCall`, `WriteCall`, `ReadReply` |
| `InProcessHostedRpcTransport::call` | `CallLocally`, `ReturnLocally` |

Callers in `Inside` belong to a test body; callers in `Outside` are detached
threads that may call while the command loop waits for the next command. The
documentation of `HostedRpcChannel::call` forbids those, but nothing prevents
them, so they are modelled: `InStepUnderContract` promises that the frames stay
in step only while no detached caller has interfered, everything else is promised
always. A stray call may cost the result of a test; the run still ends. (The
comment at `internal.rs:1169` says the flag is stored after the guard is
dropped; the code stores it while it holds the guard, and the model follows the
code. `PoisonedOwnerIdle` needs that order.)

### TestAttempts

A step is a step of one test's thread, of one detached task, or of a panic hook.

| code | action |
|---|---|
| a new id, a new attempt | `Begin` |
| the body returns, or panics into the hook | `Return`, `BodyPanics` |
| `catch_unwind` | `CatchUnwind` |
| the loop of `run_with_flakiness_control` goes on, or not | `Again`, `Settled` |
| `TestResult::from_result` takes the capture of the id, `should_panic` | `Judge` |
| `detached_panic_policy` over the collector of the last attempt | `Check` |
| `spawn` and `spawn_thread`, called in a body or in what it started | `BodyStarts`, `TaskStarts` |
| a task that resumes on another thread, its panic, its record | `Migrate`, `TaskPanics`, `Record` |

What the code does, and the model with it: `#[flaky(n)]` retries panics but
neither `Err` nor timeouts; it retries the panic that `should_panic` expects;
`non_flaky(n)` with `should_panic` passes after one attempt, `non_flaky(0)`
passes without running; only the collector of the last attempt is looked at.

`spawn` and `spawn_thread` read the id of the thread they are called on, and what
they start carries that id and its collector. A body runs on a thread of its own,
so what it starts itself carries its id. A task may resume on a runtime thread
that another task has left with the id of its test, or that has none: `task[k].on`
is the id of the thread, `task[k].id` the one it was given, `task[k].from` (a
history) the attempt that led to it, however many tasks are between.
`DetachedPanicsCharged` has two halves. A test does not pass if for its last
attempt a panic was recorded of a task that led back to that attempt and carried
its id. A test passes if all its attempts went well, its own tasks were never
recorded as panicked, and no task of another attempt carried its id and was
recorded (`misled`). What is outside of both is not promised: a task with the id
of another test fails that one instead of its own, and what tasks of earlier
attempts did is not looked at. Both are divergences from the book. A detached panic
under the same id may replace the message `should_panic` compares with; that is
what the exception in `JudgedByOwnPanic` is about. Timeouts are one of the
ways to return an error; the sync tests of the tokio runner ignore `#[timeout]`.

### SuiteRun

`pc` of main names the statement it is at.

| code | actions |
|---|---|
| `finalize_for_execution`, `construct`, the loop over `remaining_retries` | `Construct`, `NoAttemptLeft` |
| `install` and its failures, one step per system call that may fail | `SetUpCapture`, `InstallTerminalFds`, `RedirectOut`, `RedirectErr`, `GiveUp` |
| collecting owners, spawning and joining threads, dropping owners | `Collect`, `SpawnThreads`, `Join`, `DropOwners` |
| a test: the window opens, the body ends, result and window are pushed, the formatter hears of it | `Begin`, `End`, `Push`, `Leave` |
| `shutdown_pipe` | `Flush`, `Restore`, `CloseWriteEnd`, `JoinReader` |
| `reader_loop` | `ReadLine`, `ReachEnd` |
| `attribute_records_to_tests`, `finished_suite`, exit code | `Attribute`, `Report` |

Owners and threads of theirs print pieces of lines into whatever fd 1 or 2 leads
to (`Prints`); a subprocess of an owner inherits the pipe (`SpawnChild`) and keeps
the reader from its end as long as it lives. Dropping the owner may stop it, or
not (`DropOwners`); it may end by itself at any time (`ChildEnds`), but nothing
makes it. `MainExits` has it as a hypothesis that none outlives the owners of its
attempt for good. The line buffer of `stdout`
is there because the order of `Flush` and `Restore` matters. A result names its
host lines by their places in the spill file. The formatters are three operators
each (`PrettyStarts`, `PrettyAnnounces`, `PrettyEnds` and so on): what they keep of
the results and what they write, terminal or log, as records of tests with their
outputs. `Writes` is when a document is written as a whole: with a log file
after each test, otherwise at the end only.

Left out: panics of test threads (a constructor panic would print into the pipe
and drop the spill file), the Windows variant, `--show-output`, progress output,
the terse formatter and the summary of failures on stderr. The terminal
descriptors stay open for later attempts, as they do in the code.

## Runs

| run | instance | properties | states |
|---|---|---|---|
| `tree_construction` | a crate with `api`, `api_v2` and `api::api`; every sequence of two suite properties, up to 1 dependency and 1 benchmark, two functions (two dimensioned dependencies untagged; two `#[dimension]` parameters), 4 command lines, 2 seeds | `TreeIsSuiteTree`, `LocksHandedDown`, `SameInEachWorker`, `EveryCaseOnce` | 1.1 M |
| `filtered_out` | the same | violates `FilteredOutIsCount` | |
| `scheduler` | 3 fair threads, 6 suites, 5 tests, a sequential suite with a nested one, two suites without tests | `SequentialExclusion`, `LockNeverWaits`, `CountsMatch`, `EveryTestInOnePlace`, `DepsBuiltOnce`, `FailedPickMissedNothing`, `AllReportedAndJoined`, `ImplementsSchedule` | 172 k |
| `worker_crash` | 2 threads and workers, 3 suites, 4 tests (1 ignored), 1 shipped value, 1 call per body, 1 death | `FramesInStep`, `ResultsAreEarned`, `CommandedTestIsLeft`, `LostTestAborts`, `EndsOnceConnected`, `AllReported`, `ImplementsSchedule` | 27 k |
| `worker_sequential` | a sequential suite, no deaths | violates `AbortedOnlyByCrash` | |
| `dependencies` | all graphs of 3 dependencies, the last one in the nested suite, companions, tests in workers and in the parent | `OwnersBuiltInParent`, `InputsAvailable`, `NoneLost`, `NoneRefused` | 348 k |
| `deps_lost` | 3 dependencies in the root suite | violates `UsedDepsAvailable` | |
| `hosted_rpc` | 2 workers with 2 and 1 tests, a caller in each body and a detached one with 2 calls; with and without workers, both cells | `OwnerExclusive`, `PoisonedOwnerIdle`, `AnswersMatch`, `InStepUnderContract`, `ViewsShareOwner`, `RunEnds` | 631 k |
| `captured_output` | 4 tests of which the third is not captured, up to 2 pieces of lines per body, 1 late line, a crash | `OwnOutputOnly`, `CapturedNotShown`, `DrainEnds` | 1.3 M |
| `output_hang` | bodies that end in the middle of a line | violates `DrainEnds` | |
| `suite_run` | 2 tests, up to 2 threads, 2 attempts, 2 pieces printed, 9 ways to start, every step of the redirection may fail, a subprocess that may stay | `InstalledOrNot`, `OwnerLinesKept`, `AttributedInWindow`, `LogKeptUpToDate`, `MainExits` | 1.5 M |
| `test_attempts` | 2 tests at a time, one of them with every flakiness control from 0 to 2 and `should_panic`, 3 tasks that start others and change their thread, 2 of which may panic | `DetachedPanicsCharged`, `JudgedByOwnPanic`, `VerdictByAttempts` | 7.5 M |

What each shows:

* `tree_construction`: whatever order the registrations come in, the tree is the
  one the scheduler is modelled on, its locks are handed down and its tests are
  popped in the order they were selected in; every worker arrives at the same
  order from the arguments it is given (`SameInEachWorker`); where code and book
  agree on the reach of suites, every combination of cases of a function exists
  exactly once in a full run, its body finds the variants of its name, and it has
  the tags and a timeout of its suites and of no others.
* `scheduler`: the interleavings of the walk with threads that give locks and
  counts back; the last two properties are liveness and refinement.
* `worker_crash`: the frames stay in step up to the first death, a run that lost
  a test is aborted, and every other run reports all of them.
* `dependencies`: constructors of shared scopes run in the parent only; every
  constructor finds its inputs unless a value outlived its dependency in the
  pruning; what tests take is there when they start.
* `hosted_rpc`: the cell under calls from several threads of the parent, and
  the connection under calls from several threads of the worker.
* `captured_output`: the race of three tasks over `capture_enabled`, between two
  captured tests and around one without capture.
* `suite_run`: redirecting and restoring, which lines reach which result, the
  log of CTRF while tests run, and that main exits with the code and the report
  of the last attempt unless a subprocess keeps it from the end of the pipe
  (`MainExits`).
* `test_attempts`: attempts, and panics that meet in tables by id while tasks
  change threads and hand on whatever id they find there.

Bounds. Four modules give a path that needs two new levels, siblings, a suite
inside a suite, and a name that begins another; two properties are enough to
nest, overlap and repeat a matrix, and two functions give an order. Three
threads are the smallest number with one that holds a lock, one
that is inside the plan and one that is between tests; the tree has a lock that
is inherited, suites that become empty while their tests still run, and suites
that are empty from the start. Two workers are enough for the replay to diverge
and for two bodies to overlap; one call and one shipped value make every frame
type occur, and one death is enough since the first one ends the run. Three
dependencies are the smallest number with an input of an input, and with an
input beside something unrelated that can make the counts agree. For the owner,
two workers give two dispatchers that meet in the cell, and a detached caller
with two calls reaches both the idle command loop and a body of another test. Four
tests, two captured, one not, one captured, have every change of `capture_enabled`
and the case without one.
Two attempts of two tests show what a formatter keeps too long; two pieces are a
begun line and its end; the nine ways to start leave out combinations that
differ in nothing, as `MCSuiteRun` says. Tries from 0 to 2 have both ends
of the counting loops. Three tasks (`MaxTasks`, at most `spawns` of them from one
test) are one of each test and one more that a task starts on a thread with the
other test's id; two panics (`MaxPanics`) are one of each test, or two of the same.

`worker_crash` does not check for deadlock because the system may really stop:
a worker that dies before it connects leaves its thread in `accept()` for good.
That is also why `EndsOnceConnected` speaks of the time after all have
connected. `output_hang` does not either: the parent that never finds its marker
looks again and again, which is a stuttering step.

`NoneLost` and `NoneRefused` exclude the inputs behind the dependency findings
with `TestsTakeInputs`: tests also take every constructor input of a shared
dependency (with workers, every one of a shared scope), so none is pruned before
its value arrives. `InputsAvailable` holds without that, but its second line asks
that no value outlived its dependency (`NoneOutlived`): such a value keeps
counting and makes `is_materialized` skip the constructors beside it, as in
finding 2. With the three dependencies of the run the line would hold without
the condition; with four it does not.

Fairness is weak and per actor:

| specification | weakly fair |
|---|---|
| `TestScheduler` | `Step(t)` of each thread |
| `WorkerProtocol` | `ParentStep(t)`, `WorkerStep(t)` of each thread and worker |
| `HostedRpc` | `SetupStep(v)` of each view, `ParentThread(w)`, `WorkerStep(w)`, `CallThread(c)` of each caller |
| `CapturedOutput` | `ParentStep`, `WorkerStep`, `ReaderStep(s)` of each stream |
| `SuiteRun` | `MainStep`, `ThreadStep(w)` of each thread, the reader |

The operating system schedules threads, tasks and processes, and test bodies and
methods of owners are assumed to end. What nobody has to do is not fair: a death,
a panic, output, a failing system call, a call that has not been begun, the end of
a subprocess. `MainExits` is an implication for that reason: it asks main to exit
in the behaviours in which, whenever the owners have been dropped, no subprocess
is left sooner or later. Polling
is part of the model, so progress does not come from an assumption that a thread
waits for a lock.

## Findings

1. `worker_sequential`: a worker discards the tests before the one it is sent. A
   thread of the parent that passes over a locked sequential suite makes its
   worker discard that suite's tests; when the thread later gets one of them, the
   worker drains its plan and exits, and the parent ends with exit code 1.
2. `deps_lost`: `is_materialized` compares two counts. The value of a pruned
   constructor input is still counted, and a dependency a test takes is never
   constructed.
3. `filtered_out`: the number of filtered out tests is the number of registered
   tests, as they were before matrix suites multiplied them, minus the number of
   results. With a matrix suite it goes below zero: a panic in a debug build, a
   huge number in the summary otherwise.
4. `output_hang`: the finish marker is looked for as a line of its own. A
   captured test that ends in the middle of a line makes it the end of that line,
   and the parent polls forever.

Divergences of code and documentation that were read while modelling and follow
from the definitions, without a run of their own:

* suite tags, timeouts and matrices reach modules by textual prefix
  (`internal.rs:1924`), so `api` also configures `api_v2`. `dependency_injection.md:201`
  says "every `#[test]` in `<module>`", `tags.md:22` "an entire test suite". Of
  several timeouts the one registered first wins.
* the assertion at `execution/mod.rs:560` fails when a value arrives for a
  dependency that an earlier value pruned.
* benchmarks are multiplied over matrix suites (`internal.rs:1936` does not ask what
  a test is); `dependency_injection.md:253` says "Benches (`#[bench]`) are not
  multiplied".
* the last lines and the finish markers of a `#[never_capture]` test can be in the
  result of the captured test after it: the reader task looks at `capture_enabled`
  when it has read a line (`tokio.rs:1253`), by which time the next test may have
  set it. `per_test_configuration.md:44` says that the attribute "will prevent
  capturing the output".
* a task that resumed on a runtime thread with the id of another test and starts
  one more hands on the collector of that test (`spawn.rs:20`, `spawn.rs:64`): its
  panic fails the other test, and its own test may pass. On a thread without an id
  the panic is recorded for nobody. `detached_panic_detection.md:44` says that "the
  current test's identity is propagated" and `:46` that a panic is "associated with
  the originating test".
* panics of tasks that an earlier attempt started are recorded and not looked at,
  since only the collector of the last id is taken (`sync.rs:936`).
  `detached_panic_detection.md:47` says that the runner "fails the test if any were
  found".
* JUnit keeps its intermediate state over the attempts of `--flaky-run`
  (`junit.rs:212-241`), counts all registered tests and gives ignored ones no
  `testcase`; its rewritten log has no XML declaration. CTRF starts anew.
* Pretty and JSON announce a test before the lines of owners are attributed, so
  the `[host]` lines JSON formats (`json.rs:78-88`) never appear.
* retries of `#[flaky]` in a worker are not reported to the parent, so CTRF's
  `retries` stay empty.
* `--flaky-run` is passed on to workers; a filter that begins with a dash is
  rendered in a way the worker's parser refuses, which leaves the parent in
  `accept()`; `finalize_for_execution` treats `--nocapture` as never needing
  workers, although tests marked `always_capture` spawn them (`args.rs:334-362`).
* a subprocess of an owner that outlives it keeps the pipe open, and main waits in
  the join of the reader (`host_capture.rs:271`) until it ends. By
  `host_capture.rs:100` closing the held write end causes "the reader to see EOF
  and exit", and by `host_capture.rs:251` it "is the last open write end of the
  pipe at this point"; fd 1 and 2 are inherited, and a `Child` of the standard
  library is not killed when it is dropped.
* in `cargo-test-r`, `--exclude` without `--package` is ignored.

## Proofs

TLAPS proves the safety of nearly everything the runs check, for every value of
the constants that the named assumptions allow.

**The tree.** `TestScheduler_proofs` begins with the tree: it proves that what one sequential module contains
shares one lock (`ConflictSharesLock`), from the prefix order on paths and the
existence of a least marked depth, and that `Before`, the order of the walk, is a
total order that follows branches. Assumptions: `NodesAssumption`,
`RankAssumption`, `TestsAssumption`.

These are what `construct` establishes: `TreeConstruction_proofs` proves
`TreeIsBuilt` (`TreeIsSuiteTree`), `LocksAreHandedDown`, `TestsKeepOrder`
(`PoppedInOrder`, a conjunct of `TreeIsSuiteTree`) and `TypeCorrect`.
`ConstructionInv` says that the tree has no gaps and each level is in the `inner`
of its parent once (`Shape`), that a test is queued or in the vector of its own
module, in descending order (`Placed`), that `remaining_count` is right
(`Counted`), what has been added so far (`Declared`, `Phases`), and what the
unrolled recursion of `propagate_sequential` has done and has still to do
(`CallsSeq`, `HandedDown`). The theorems have one hypothesis, `[]SelectedTests`:
the list that `Selection` computes is a sequence of tests of the registered
modules. It is a conjunct of `SameInEachWorker`, which TLC checks; it cannot be
proved here, since the provers cannot unfold `SelectSeq`, `FoldLeft` and
`FlattenSeq`.

**The scheduler.** `TestScheduler_proofs`, for every tree, every number of threads
and both kinds of plan:

* `LockInv`, for `TypeCorrect`, `Exclusion` and `NeverWaits`. `SequentialExclusion`
  is not inductive: whether two running tests conflict depends on who holds which
  lock. The invariant adds that the mutex admits one thread (`MutexInv`), that a
  thread with a `TestExecution` holds its lock (`GuardInv`) and nobody else has
  the same (`OwnerInv`), and that what was seen at a chosen node is still so when
  the lock is taken (`ChosenInv`): locks are taken only under the mutex, and
  giving one back makes `ChosenInv` only easier.
* `PlaceInv`, for `TestsConserved` (`EveryTestInOnePlace`): what is queued belongs
  to its suite (`QueueInv`) and can be reached from the root (`AttachedInv`: a
  node is taken out of `inner` only when nothing is left below it); what is held,
  reported and queued is disjoint and is everything.
* `SchedulesSafely`: the safety part of the refinement. Every step of the walk is
  a step of `TestSchedule` or a stutter, from `LockInv` and `PlaceInv`. That the refinement is also fair stays with TLC
  (`ImplementsSchedule`).
* `BuiltInv` and `EnteredInv`, for `BuiltBeforeTests` (`DepsBuiltOnce`): a node is
  built once and stays so while it has tests, and where the walk is everything
  above has been built. Without the second, the first says nothing of tests.
* `LocksInv` and `PassedInv`, for `NothingMissed` (`FailedPickMissedNothing`): the
  frames that were left behind are the nodes before the current one in `Before`,
  and a queued test in one of these is in a suite that was found locked.
* `CountInv`, for `CountsAreExact` (`CountsMatch`): while a walk returns with a
  test, the counts on its way up are one too high, and no others.

**Workers.** `WorkerProtocol_proofs`, for every number of threads with their
workers, tests, calls and shipped values, whoever dies when: `ProtocolInv` is
`WireInv` (both ends of a connection are at the same test or value, and one frame
at most is under way), `PlanInv`, `EarnedInv` (a body has begun exactly where the
worker has got so far), `LocksInv` and `OrderInv` (as long as nothing overtook a
locked suite, what a worker has discarded had been taken before). It gives
`WorkersInStep` (`FramesInStep`), `OneResultPerTest` (`ResultsAreEarned`) and
`WorkerFindsTest` (`CommandedTestIsLeft`). `WorkersSchedule` proves
`ImplementsSchedule` itself for the specification without fairness: bodies in
different processes exclude each other, although the lock is only held in the
parent.

**Dependencies.** `Dependencies_proofs`, for every number of dependencies, every
graph and every choice of scopes:

* `OwnerSafety` and `OwnersOnlyInParent`: until the tests start, what is left of
  the shared dependencies (without workers: of everything the parent built) has
  its value or is still to get it (`HandOverInv`), so `materialize_deps` has no
  reason to run its constructor. Pruning only removes, which keeps this true; the
  two views of one owner are pruned together.
* `ConstructorsFindInputs` (`InputsAvailable`), `TestsFindDeps` (`NoneLost`) and
  `NoValueIsRefused` (`NoneRefused`): `PlanInv` says that pruning leaves the plan
  closed under what its members link to, `BuildInv` that a suite that was entered
  has its values, `ParentInv` the same of the parent, `RootedInv` which values
  can no longer be pruned when tests take the inputs of shared dependencies.
  The proof of `InputsAvailable` as it first stood failed, and rightly:
  the two counts that `is_materialized` compares can also agree by mistake for a
  constructor that is needed. TLC's three dependencies are too few to show it,
  four are enough; the property now says `NoneOutlived`, and where that fails the
  finding `deps_lost` applies.

**Output.** `CapturedOutput_proofs`, for every number of tests, lines and detached
threads, whether or not the worker dies:

* `StreamsInv`, for `StreamsStayInOrder` and `NothingCapturedShown`
  (`CapturedNotShown`): pipe, reader and queue together are in the order of
  printing (`OrderInv`); a piece in them was printed, a marker only after its
  body (`FlightInv`); so behind the marker that ends a drain there is nothing of
  that test or of an earlier captured one, and while `capture_enabled` is off
  everything in flight is from tests without capture (`OffWhileUncaptured`).
  Which side sets the flag when, and that each stream is drained on its own, is
  in `ThreadsInv`. `CapturedNotShown` alone is not inductive: whether a line is
  harmless when the reader looks at the flag depends on what was drained before
  the flag was changed.
* `CaptureInv` on top of it, for `ResultsAreComplete` (`OwnOutputOnly`): every line
  the body printed is in its result or still in flight (`AllThere`), lines in
  flight come after those in the result (`AheadOfFlight`), and a line that is taken
  is the test's own, late, or of a test without capture that ran since the last
  captured one (`TakenLine`, `Unclaimed`); there is no such test when the one before
  was captured. The
  theorem has the hypothesis `EndsLines`: otherwise a marker is the end of another
  line, which is finding 4. The hypothesis is about the bodies, not about the
  runner; the other two theorems do without it.

**HostedRpc.** `HostedRpc_proofs`, from `HostedRpcAssumption` and for every number
of workers, callers, tests and calls. Each result has an inductive invariant on
top of `TypeInv`:

* `CellInv`, for `OwnerIsExclusive` and `PoisonedOwnerStaysIdle`: whoever runs a
  method holds the mutex of the cell, and a poisoned cell has nobody inside. Both
  cells need it, and the re-check of the flag under the mutex is what keeps the
  second half when a dispatcher was already waiting.
* `AnswerInv`, for `AnswersAreOwn`: request numbers are given out once, and every
  call frame, reply and dispatch under way still carries the number of the call
  it was made for. A stub compares the number, so it returns its own answer
  however the frames of detached callers are mixed.
* `SharedInv`, for `OneOwnerForBothViews`: a view that is set up holds the owner
  that the cache holds.
* `StepInv`, for `InStepWhenBound` (`InStepUnderContract`): as long as no call
  strayed, a connection is in one of seven states (`Talk`: at rest, told, testing,
  asking, serving, answered, reporting) and its mutex is with whom that state
  says (`Line`); without workers it is not used (`NoTalk`).

**Attempts.** `TestAttempts_proofs`, for every number of tests, tries and detached
tasks: `AttemptsDecide` (`VerdictByAttempts`), since all attempts but the last
gave a reason for the next (`AttemptInv`); `OwnPanicDecides` (`JudgedByOwnPanic`),
since a list of causes names a detached panic only under an id that was recorded
as stray (`CausesInv`, `JudgedInv`); `PanicsAreCharged` (`DetachedPanicsCharged`),
since only attempts that began have a collector, every task comes from one of
them (`CollectorsInv`), and until the verdict a collector that holds anything was
filled by a task of its own attempt or is `misled` (`RecordedInv`).

**The run.** `SuiteRun_proofs`, for every number of tests, threads, attempts and
pieces printed:

* `RedirectedTogether` (`InstalledOrNot`) and `OwnerLinesAreKept`
  (`OwnerLinesKept`): `Inv` ties the place of main to where the descriptors lead
  (`Redirected`) and says when something may still be in the line buffer
  (`Buffered`): the buffer is flushed before the descriptors are restored, and
  nobody prints owned lines after that.
* `LinesInOwnWindow` (`AttributedInWindow`): the i-th window is that of the i-th
  result (`Paired`), because both are pushed under both locks, and the reader has
  ended before lines are attributed.
* `ExitsWithLastCode` (`CodeOfLastAttempt`, whenever main has exited): threads
  exist only while main joins them and leave when no test is left (`Stages`), a
  test is still to be taken, in one thread's hands or has one result (`Placed`),
  so a report is about each test once, and the code is that of the report
  (`Coded`).
* `LastLogIsComplete` (`LogOfLastAttempt`, whenever main has exited): while tests
  run, what Pretty and JSON wrote in this attempt is about the tests reported and
  the one a thread has announced (`Announced`), and `Report` adds the rest: the
  failed results, all results of JUnit, the store of CTRF (`Logged`). That Pretty
  shows each failed result needs that there are finitely many of them, in the
  order in which they were pushed (`FailureOutputsAre`).
* `LogIsCurrent` (`LogKeptUpToDate`): what CTRF has stored are the results pushed
  or about to be pushed in this attempt (`Stored`).

`RunInv` is the conjunction of the last four bullets' invariants with the types.

**Model-checked only:**

* liveness, and everything that needs fairness or ENABLED: `AllReportedAndJoined`,
  `AllReported`, `EndsOnceConnected`, `LostTestAborts`, `DrainEnds`, the `RunEnds`
  of `HostedRpc` and the `MainExits` of `SuiteRun` (what has to be true when main
  exits is proved, that it exits is not), and the fairness that `ImplementsSchedule` promises for
  `TestScheduler`;
* what is recursive over data: `EveryCaseOnce` and `SameInEachWorker`, with the
  hypothesis of the theorems about construction.

All other invariants and safety properties of the runs are theorems.

No module with a theorem has a RECURSIVE operator; `Level` is a recursive
function.

## Not modelled

* Benchmarks and statistics: floating-point computations on one thread.
* `cargo-test-r` and the CI helper: command-line tools beside the runner.
* The facade crate and the examples: re-exports and sample suites.
* Macros, beyond what their code does in a run: the tests, generators and suite
  properties they register, the helper of `worker = both`, the dispatcher and
  stubs of `#[hosted_rpc]`. The rest is parsing and token output.
* Formatters: wording, colours, progress, `--show-output`, terse.
* Constructors that panic: in the sync runner they poison the mutex of the plan
  and every later `pick_next` panics (`sync.rs:829`). What a run does then is
  decided by the joins of panicked threads, and no document promises anything.
* `accept()` of a worker that never connects (`sync.rs:1384`) is modelled, but
  there is no promise to check.
* The Windows variant of host capture.

`WorkerProtocol`, `Dependencies` and `TestScheduler` are translated from
`sync.rs` and were compared with `tokio.rs`; the other modules are translated
from `tokio.rs` and were compared with `sync.rs`. The loops and the protocol agree, with
tasks for threads and a mutex that is not poisoned.

## What could come next

What a result holds of a
captured test that ends in the middle of a line when the worker goes on printing.
Constructors that panic; equal names of dependencies in two suites.
