----------------------------- MODULE TestAttempts -----------------------------
(***************************************************************************)
(* How a process runs the bodies of its tests and comes to their verdicts: *)
(* run_with_flakiness_control and run_sync_test_function in                *)
(* test-r-core/src/sync.rs (run_test in tokio.rs), TestResult::from_result *)
(* in internal.rs, and the tables of panics in panic_hook.rs that spawn.rs *)
(* fills from other threads and tasks.                                     *)
(*                                                                         *)
(* Each test has a thread of its own.  Every attempt at a test gets a new  *)
(* id; PANIC_CAPTURES and DETACHED_COLLECTORS are keyed by it, and a       *)
(* thread knows the id it works for, if any.  What is started with         *)
(* spawn_thread or spawn gets the id of the thread that starts it.  A      *)
(* thread keeps it; a task may go on, after an await, on a runtime thread  *)
(* that still has the id of another test or none at all.                   *)
(***************************************************************************)
EXTENDS Naturals, Sequences, SequencesExt, FiniteSets

CONSTANTS
    Tests,
    Declared,     \* per test, what it may be declared as
    MaxTasks,     \* bound: threads and tasks that all tests start
    MaxPanics,    \* bound: those of them that panic
    Migrates      \* started tasks may change threads

(* props of a test: flakiness_control with its number, should_panic, and    *)
(* whether detached_panic_policy is FailTest.  spawns bounds the threads    *)
(* and tasks that come from its body, those that they start included.      *)
Flakiness == {"none", "prove", "retry"}

ASSUME TestAttemptsAssumption ==
    /\ IsFiniteSet(Tests)
    /\ \A t \in Tests :
          Declared[t] \subseteq [flakiness : Flakiness, tries : Nat,
                                should : {"no", "yes", "message"}, failTest : BOOLEAN, spawns : Nat]
    /\ MaxTasks \in Nat /\ MaxPanics \in Nat
    /\ Migrates \in BOOLEAN

Tasks == 1..MaxTasks

\* A thread that works for no test.
NoId == <<>>

VARIABLES
    props,        \* what the tests are declared as
    pc,           \* per test: where its thread is
    outcomes,     \* per test: how its attempts ended so far
    judged,       \* the panic that should_panic was compared with
    verdict,      \* per test: its result
    captures,     \* PANIC_CAPTURES: per id, causes of panics
    collectors,   \* DETACHED_COLLECTORS: per id, how many panics were recorded
    task,         \* per task: where it is, the id it was given, the id of its
                  \* thread, and (history) the attempt that led to it
    recorded,     \* history: per test, attempts charged with a task of theirs
                  \* before the verdict
    misled,       \* history: ids charged with a task of another attempt
    strayed       \* history: ids under which a detached panic was captured

testVars  == <<pc, outcomes, judged, verdict>>
tableVars == <<captures, collectors>>
history == <<recorded, misled, strayed>>
vars == <<props, testVars, tableVars, task, history>>

(* The k-th attempt at t has the id <<t, k>>; next_test_id never repeats.   *)
Attempt(t) == Len(outcomes[t]) + 1

LastId(t) == IF pc[t] \in {"body", "unwinding"} THEN <<t, Attempt(t)>> ELSE <<t, Len(outcomes[t])>>

Get(f, id, default) == IF id \in DOMAIN f THEN f[id] ELSE default

Put(f, id, v) == [i \in DOMAIN f \cup {id} |-> IF i = id THEN v ELSE f[i]]

Init ==
    /\ props \in {p \in [Tests -> UNION {Declared[t] : t \in Tests}] :
                    \A t \in Tests : p[t] \in Declared[t]}
    /\ pc = [t \in Tests |-> "decide"]
    /\ outcomes = [t \in Tests |-> <<>>]
    /\ judged = [t \in Tests |-> "none"]
    /\ verdict = [t \in Tests |-> "none"]
    /\ captures = <<>>
    /\ collectors = <<>>
    /\ task = [k \in Tasks |-> [at |-> "free", id |-> NoId, on |-> NoId, from |-> NoId]]
    /\ recorded = [t \in Tests |-> {}]
    /\ misled = {}
    /\ strayed = {}

-----------------------------------------------------------------------------
(* run_with_flakiness_control: whether there is another attempt.           *)

(* Retried when it panicked, whether or not it should; not when the body    *)
(* returned Err, was too slow or timed out.                                *)
Retries(t) == Last(outcomes[t]) = "panic" /\ Len(outcomes[t]) < props[t].tries

\* Mutation: a failed attempt does not end the proof.
ProvesOn(t) == Len(outcomes[t]) < props[t].tries

Proves(t) == Last(outcomes[t]) = "ok" /\ Len(outcomes[t]) < props[t].tries

Again(t) ==
    IF outcomes[t] = <<>>
    THEN props[t].flakiness = "prove" => props[t].tries > 0
    ELSE \/ props[t].flakiness = "prove" /\ Proves(t)
         \/ props[t].flakiness = "retry" /\ Retries(t)

Begin(t) ==
    /\ pc[t] = "decide"
    /\ Again(t)
    /\ pc' = [pc EXCEPT ![t] = "body"]
    /\ collectors' = Put(collectors, <<t, Attempt(t)>>, 0)
    /\ UNCHANGED <<props, outcomes, judged, verdict, captures, task, history>>

(* Ok; or Err, which a critical run time and a timeout are as well.         *)
Return(t) ==
    /\ pc[t] = "body"
    /\ \E outcome \in {"ok", "err"} : outcomes' = [outcomes EXCEPT ![t] = Append(@, outcome)]
    /\ pc' = [pc EXCEPT ![t] = "decide"]
    /\ UNCHANGED <<props, judged, verdict, tableVars, task, history>>

\* Mutation: one list for all.
HookShared(id, cause) ==
    captures' = [i \in DOMAIN captures \cup {<<t, k>> : t \in Tests, k \in 1..2} |->
                    Append(Get(captures, i, <<>>), cause)]

(* The hook files the cause under the id of the panicking thread, if it has *)
(* one and no other thread has the table just then.                        *)
Hook(id, cause) ==
    \/ id # NoId /\ captures' = Put(captures, id, Append(Get(captures, id, <<>>), cause))
    \/ UNCHANGED captures

BodyPanics(t) ==
    /\ pc[t] = "body"
    /\ pc' = [pc EXCEPT ![t] = "unwinding"]
    /\ Hook(LastId(t), "body")
    /\ UNCHANGED <<props, outcomes, judged, verdict, collectors, task, history>>

CatchUnwind(t) ==
    /\ pc[t] = "unwinding"
    /\ outcomes' = [outcomes EXCEPT ![t] = Append(@, "panic")]
    /\ pc' = [pc EXCEPT ![t] = "decide"]
    /\ UNCHANGED <<props, judged, verdict, tableVars, task, history>>

(* take_panic_capture takes the last cause; without one the payload of the  *)
(* panic is used.                                                          *)
Taken(id, payload) == LET cs == Get(captures, id, <<>>) IN IF cs = <<>> THEN payload ELSE Last(cs)

Take(id) == IF Get(captures, id, <<>>) = <<>> THEN captures ELSE Put(captures, id, Front(captures[id]))

Settled(t) == pc[t] = "decide" /\ ~Again(t)

Verdict(ok) == IF ok THEN "passed" ELSE "failed"

(* from_result and from_panic.  The message that is expected is that of the *)
(* body's panic.                                                           *)
Judge(t) ==
    /\ Settled(t)
    /\ pc' = [pc EXCEPT ![t] = "check"]
    /\ LET last == IF outcomes[t] = <<>> THEN "ok" ELSE Last(outcomes[t])
           should == props[t].should
       IN  IF last = "panic"
           THEN /\ judged' = [judged EXCEPT ![t] = Taken(LastId(t), "body")]
                /\ captures' = Take(LastId(t))
                /\ verdict' = [verdict EXCEPT ![t] =
                       Verdict(should = "yes" \/ (should = "message" /\ judged'[t] = "body"))]
           ELSE /\ verdict' = [verdict EXCEPT ![t] = Verdict(last = "ok" /\ should = "no")]
                /\ UNCHANGED <<judged, captures>>
    /\ UNCHANGED <<props, outcomes, collectors, task, history>>

(* take_detached_collector.  What is recorded later changes nothing.        *)
Charge(t, charged) ==
    /\ pc[t] = "check"
    /\ pc' = [pc EXCEPT ![t] = "done"]
    /\ verdict' = [verdict EXCEPT ![t] =
           IF Get(collectors, charged, 0) > 0 /\ props[t].failTest THEN "failed" ELSE @]
    /\ collectors' = Restrict(collectors, DOMAIN collectors \ {charged})
    /\ UNCHANGED <<props, outcomes, judged, captures, task, history>>

\* Mutation: the collector of the first attempt is looked at.
CheckFirst(t) == Charge(t, <<t, 1>>)

(* The collector of the last attempt; those of attempts before it stay in   *)
(* the table and nothing looks at them.                                    *)
Check(t) == Charge(t, LastId(t))

TestStep(t) ==
    \/ Begin(t) \/ Return(t) \/ BodyPanics(t) \/ CatchUnwind(t) \/ Judge(t) \/ Check(t)

-----------------------------------------------------------------------------
(* spawn and spawn_thread.                                                 *)

(* Runtime threads have the ids of tasks that were started, or none.        *)
RuntimeIds == {NoId} \cup {task[k].id : k \in Tasks}

(* Called on a thread with that id: what is started is given it, and the    *)
(* collector of it.  Without an id it leaves its own thread as it is.      *)
Start(id, from, k) ==
    /\ task[k].at = "free"
    /\ \A j \in 1..(k - 1) : task[j].at # "free"
    /\ Cardinality({j \in 1..(k - 1) : task[j].from[1] = from[1]}) < props[from[1]].spawns
    /\ \E on \in IF id = NoId THEN RuntimeIds ELSE {id} :
          task' = [task EXCEPT ![k] = [at |-> "running", id |-> id, on |-> on, from |-> from]]
    /\ UNCHANGED <<props, testVars, tableVars, history>>

BodyStarts(t, k) ==
    /\ pc[t] = "body"
    /\ Start(LastId(t), LastId(t), k)

TaskStarts(j, k) ==
    /\ task[j].at = "running"
    /\ Start(task[j].on, task[j].from, k)

(* The id of the thread a task runs on is what the hook and spawn go by.    *)
Migrate(k) ==
    /\ Migrates
    /\ task[k].at = "running"
    /\ \E id \in RuntimeIds \ {task[k].on} : task' = [task EXCEPT ![k].on = id]
    /\ UNCHANGED <<props, testVars, tableVars, history>>

TaskPanics(k) ==
    /\ task[k].at = "running"
    /\ Cardinality({j \in Tasks : task[j].at \in {"unwinding", "ended"}}) < MaxPanics
    /\ task' = [task EXCEPT ![k].at = "unwinding"]
    /\ Hook(task[k].on, "task")
    /\ strayed' = strayed \cup {task[k].on}
    /\ UNCHANGED <<props, testVars, collectors, recorded, misled>>

(* The collector is that of the id the task was given, also when it has     *)
(* moved since; none if it was given no id or the test is done.            *)
Record(k) ==
    LET id == task[k].id  from == task[k].from
    IN  /\ task[k].at = "unwinding"
        /\ task' = [task EXCEPT ![k].at = "ended"]
        /\ captures' = Take(task[k].on)
        /\ collectors' = [i \in DOMAIN collectors |-> IF i = id THEN collectors[i] + 1 ELSE collectors[i]]
        /\ IF id = from
           THEN /\ recorded' = [t \in Tests |-> IF t = from[1] /\ pc[t] # "done"
                                                THEN recorded[t] \cup {from[2]} ELSE recorded[t]]
                /\ UNCHANGED misled
           ELSE misled' = misled \cup {id} /\ UNCHANGED recorded
        /\ UNCHANGED <<props, testVars, strayed>>

TaskStep(k) ==
    \/ \E t \in Tests : BodyStarts(t, k)
    \/ \E j \in Tasks : TaskStarts(j, k)
    \/ Migrate(k) \/ TaskPanics(k) \/ Record(k)

Done == (\A t \in Tests : pc[t] = "done") /\ UNCHANGED vars

Next ==
    \/ Done
    \/ \E t \in Tests : TestStep(t)
    \/ \E k \in Tasks : TaskStep(k)

Spec == Init /\ [][Next]_vars

-----------------------------------------------------------------------------
(* A test does not pass if a task that its last attempt led to panicked and *)
(* that was recorded in time, unless it ignores such panics.  A test of     *)
(* which all went well, its tasks too, passes whatever the tasks of others  *)
(* do.  Two cases are left open, in which the code does not do what the     *)
(* book says: a task that had been given the id of another attempt counts   *)
(* neither for nor against the test it is charged to, and nothing is said   *)
(* of a verdict after a panic that was recorded for an earlier attempt.     *)
DetachedPanicsCharged ==
    \A t \in Tests :
        LET p == props[t]  last == Len(outcomes[t]) IN
        pc[t] = "done" =>
            /\ verdict[t] = "passed" /\ p.failTest => last \notin recorded[t]
            /\ /\ p.should = "no"
               /\ \A i \in 1..last : outcomes[t][i] = "ok"
               /\ p.failTest => recorded[t] = {} /\ LastId(t) \notin misled
               => verdict[t] = "passed"

(* should_panic(expected) is about the panic that ended the body, whatever  *)
(* panics elsewhere at that time.  The exception: a detached panic under    *)
(* the id of the attempt, which the list of its causes cannot tell apart.  *)
JudgedByOwnPanic ==
    \A t \in Tests :
        pc[t] = "done" /\ judged[t] # "none" =>
            judged[t] = "body" \/ LastId(t) \in strayed

(* There are never more attempts than declared.  A test passes on the       *)
(* strength of its last one; a non-flaky one only if all went well, and    *)
(* with one that panicked only if it is meant to.                          *)
VerdictByAttempts ==
    \A t \in Tests :
        LET p == props[t]  made == outcomes[t] IN
        /\ Len(made) <= IF p.flakiness = "none" \/ p.tries = 0 THEN 1 ELSE p.tries
        /\ pc[t] = "done" /\ verdict[t] = "passed" =>
               /\ "err" \notin ToSet(made)
               /\ p.should = "no" /\ p.flakiness = "prove" =>
                      Len(made) = p.tries /\ "panic" \notin ToSet(made)
               /\ p.should # "no" => made # <<>> /\ Last(made) = "panic"
=============================================================================
