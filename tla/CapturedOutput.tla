---------------------------- MODULE CapturedOutput ----------------------------
(***************************************************************************)
(* What the tests of one worker process print, and which of it the parent  *)
(* attaches to their results (Worker, DumpOnFailure, spawn_worker_if_needed *)
(* and test_thread in test-r-core/src/tokio.rs, the same in sync.rs).      *)
(*                                                                         *)
(* The worker's stdout and stderr are pipes.  For each, a reader task of   *)
(* the parent takes line after line and puts it in a queue, or, while      *)
(* capture_enabled is off, on the terminal.  At the end of a test the      *)
(* worker prints a finish marker on both; the parent takes the queued      *)
(* lines up to the marker if that test is to be captured.                  *)
(*                                                                         *)
(* Nothing orders the readers and the thread of the parent that sets       *)
(* capture_enabled.  WorkerProtocol has the frames of the connection.      *)
(***************************************************************************)
EXTENDS Naturals, Sequences, SequencesExt

CONSTANTS
    NumTests,    \* bound: tests this worker is sent
    Captured,    \* those whose capture_control requires capturing
    MaxLines,    \* bound: per test, pieces of lines its body prints
    MaxLate,     \* bound: lines printed by threads that outlive their body
    EndsLines,   \* bodies end the last line they print
    MayCrash     \* the worker may die

Tests   == 1..NumTests
Streams == {"out", "err"}

ASSUME CapturedOutputAssumption ==
    /\ NumTests \in Nat
    /\ Captured \subseteq Tests
    /\ MaxLines \in [Tests -> Nat]
    /\ MaxLate \in Nat
    /\ {EndsLines, MayCrash} \subseteq BOOLEAN

VARIABLES
    pc,          \* the parent's thread: where it is in Worker::run_test
    cur,         \* the test it is about
    captured,    \* per test and stream: the lines attached to its result
    aborted,     \* DumpOnFailure ended the parent
    enabled,     \* capture_enabled
    reader,      \* per stream: the line its reader task holds
    lines,       \* per stream: out_lines, err_lines
    shown,       \* pieces of lines passed on to the terminal
    wpc,         \* the worker: where it is in test_thread
    wtest,       \* the test it runs, or ran last
    pipe,        \* per stream: pieces of lines that are not read yet
    printed,     \* history: per test and stream, pieces its body printed
    late         \* history: lines printed by detached threads

parentVars == <<pc, cur, captured, aborted>>
workerVars == <<wpc, wtest, printed, late>>
vars       == <<parentVars, enabled, reader, lines, shown, workerVars, pipe>>

(* A piece of a line; `end` tells whether it ends the line.  Test 0 stands  *)
(* for what the worker prints before its first test.                       *)
Piece(kind, t, n, end) == [kind |-> kind, test |-> t, n |-> n, end |-> end]
Marker(t)              == Piece("marker", t, 0, TRUE)

Write(s, piece) == pipe' = [pipe EXCEPT ![s] = Append(@, piece)]

(* capture_enabled is on when the worker is spawned.                       *)
Init ==
    /\ pc = "enable"
    /\ cur = 1
    /\ captured = [t \in Tests |-> [s \in Streams |-> <<>>]]
    /\ aborted = FALSE
    /\ enabled = TRUE
    /\ reader = [s \in Streams |-> <<>>]
    /\ lines = [s \in Streams |-> <<>>]
    /\ shown = {}
    /\ wpc = "loop"
    /\ wtest = 0
    /\ pipe = [s \in Streams |-> IF s = "out" THEN <<Piece("own", 0, 1, TRUE)>> ELSE <<>>]
    /\ printed = [t \in Tests |-> [s \in Streams |-> 0]]
    /\ late = 0

-----------------------------------------------------------------------------
(* The parent's thread: Worker::run_test.                                  *)

\* Mutation: the setting of the test before is still on when the test runs.
SetCaptureLate ==
    /\ pc = "enable"
    /\ cur <= NumTests
    /\ enabled' = (cur > 1 /\ cur - 1 \in Captured)
    /\ pc' = "send"
    /\ UNCHANGED <<cur, captured, aborted, reader, lines, shown, workerVars, pipe>>

(* capture_enabled is set before RunTest is sent.                          *)
SetCapture ==
    /\ pc = "enable"
    /\ cur <= NumTests
    /\ enabled' = (cur \in Captured)
    /\ pc' = "send"
    /\ UNCHANGED <<cur, captured, aborted, reader, lines, shown, workerVars, pipe>>

SendRunTest ==
    /\ pc = "send"
    /\ wpc = "loop"
    /\ wtest' = cur
    /\ wpc' = "body"
    /\ pc' = "await"
    /\ UNCHANGED <<cur, captured, aborted, enabled, reader, lines, shown, pipe, printed, late>>

NextTest == pc' = "enable" /\ cur' = cur + 1

(* TestFinished: only the output of a test that is to be captured is       *)
(* waited for.                                                             *)
ReceiveFinished ==
    /\ pc = "await"
    /\ wpc = "finished"
    /\ wpc' = "loop"
    /\ IF cur \in Captured THEN pc' = "out" /\ UNCHANGED cur ELSE NextTest
    /\ UNCHANGED <<captured, aborted, enabled, reader, lines, shown, wtest, pipe, printed, late>>

IsMarker(line) == line = <<Marker(cur)>>

(* stdout, then stderr.                                                    *)
Drained == IF pc = "out" THEN pc' = "err" /\ UNCHANGED cur ELSE NextTest

\* Mutation: the queue is taken as it is.
TakeUntilEmpty ==
    /\ pc \in Streams
    /\ IF lines[pc] = <<>>
       THEN Drained /\ UNCHANGED <<lines, captured>>
       ELSE /\ lines' = [lines EXCEPT ![pc] = Tail(@)]
            /\ captured' = [captured EXCEPT ![cur][pc] = Append(@, Head(lines[pc]))]
            /\ UNCHANGED <<pc, cur>>
    /\ UNCHANGED <<aborted, enabled, reader, shown, workerVars, pipe>>

(* drain_until polls the queue until one of the lines is the marker.       *)
DrainUntil ==
    /\ pc \in Streams
    /\ lines[pc] # <<>>
    /\ lines' = [lines EXCEPT ![pc] = Tail(@)]
    /\ IF IsMarker(Head(lines[pc]))
       THEN Drained /\ UNCHANGED captured
       ELSE /\ captured' = [captured EXCEPT ![cur][pc] = Append(@, Head(lines[pc]))]
            /\ UNCHANGED <<pc, cur>>
    /\ UNCHANGED <<aborted, enabled, reader, shown, workerVars, pipe>>

(* The connection failed: what is queued is dumped on the terminal and the *)
(* parent exits.                                                           *)
DumpOnFailure ==
    /\ wpc = "gone"
    /\ pc \in {"send", "await"}
    /\ shown' = shown \cup UNION {ToSet(FlattenSeq(lines[s])) : s \in Streams}
    /\ lines' = [s \in Streams |-> <<>>]
    /\ aborted' = TRUE
    /\ UNCHANGED <<pc, cur, captured, enabled, reader, workerVars, pipe>>

ParentStep ==
    /\ ~aborted
    /\ \/ SetCapture \/ SendRunTest \/ ReceiveFinished \/ DrainUntil \/ DumpOnFailure

-----------------------------------------------------------------------------
(* The reader task of a stream.                                            *)

LineEnds(s) == {i \in DOMAIN pipe[s] : pipe[s][i].end}

EndOfLine(s) == CHOOSE i \in LineEnds(s) : \A j \in LineEnds(s) : i <= j

(* next_line: up to a newline, or the rest when the worker is gone.        *)
ReadLine(s) ==
    /\ reader[s] = <<>>
    /\ pipe[s] # <<>>
    /\ LET n == IF LineEnds(s) # {} THEN EndOfLine(s) ELSE Len(pipe[s])
       IN  /\ LineEnds(s) # {} \/ wpc = "gone"
           /\ reader' = [reader EXCEPT ![s] = SubSeq(pipe[s], 1, n)]
           /\ pipe' = [pipe EXCEPT ![s] = SubSeq(@, n + 1, Len(@))]
    /\ UNCHANGED <<parentVars, enabled, lines, shown, workerVars>>

(* capture_enabled is looked at for each line.  The lock of the queue is    *)
(* taken after that; the two are one step, because a line that is put there *)
(* later than that is put there before the next test is drained.           *)
Deliver(s) ==
    /\ reader[s] # <<>>
    /\ IF enabled
       THEN lines' = [lines EXCEPT ![s] = Append(@, reader[s])] /\ UNCHANGED shown
       ELSE shown' = shown \cup ToSet(reader[s]) /\ UNCHANGED lines
    /\ reader' = [reader EXCEPT ![s] = <<>>]
    /\ UNCHANGED <<parentVars, enabled, workerVars, pipe>>

ReaderStep(s) == ~aborted /\ (ReadLine(s) \/ Deliver(s))

-----------------------------------------------------------------------------
(* The worker.                                                             *)

PrintOwn(s) ==
    /\ wpc = "body"
    /\ printed[wtest]["out"] + printed[wtest]["err"] < MaxLines[wtest]
    /\ printed' = [printed EXCEPT ![wtest][s] = @ + 1]
    /\ \E end \in {TRUE, EndsLines} : Write(s, Piece("own", wtest, printed'[wtest][s], end))
    /\ UNCHANGED <<parentVars, enabled, reader, lines, shown, wpc, wtest, late>>

(* The body returned.                                                      *)
MarkOut ==
    /\ wpc = "body"
    /\ Write("out", Marker(wtest))
    /\ wpc' = "markErr"
    /\ UNCHANGED <<parentVars, enabled, reader, lines, shown, wtest, printed, late>>

\* Mutation: the marker is printed on stdout only.
MarkNothing ==
    /\ wpc = "markErr"
    /\ wpc' = "finished"
    /\ UNCHANGED <<parentVars, enabled, reader, lines, shown, wtest, pipe, printed, late>>

(* Both streams are flushed before TestFinished is sent.                   *)
MarkErr ==
    /\ wpc = "markErr"
    /\ Write("err", Marker(wtest))
    /\ wpc' = "finished"
    /\ UNCHANGED <<parentVars, enabled, reader, lines, shown, wtest, printed, late>>

WorkerStep == (\E s \in Streams : PrintOwn(s)) \/ MarkOut \/ MarkErr

(* A thread or child process that a body left behind prints a line.        *)
PrintLate(s) ==
    /\ wpc # "gone"
    /\ IF wpc = "body" THEN wtest > 1 ELSE wtest > 0
    /\ late < MaxLate
    /\ late' = late + 1
    /\ Write(s, Piece("late", wtest, late + 1, TRUE))
    /\ UNCHANGED <<parentVars, enabled, reader, lines, shown, wpc, wtest, printed>>

Crash ==
    /\ MayCrash
    /\ wpc \notin {"gone", "finished"}
    /\ wpc' = "gone"
    /\ UNCHANGED <<parentVars, enabled, reader, lines, shown, wtest, pipe, printed, late>>

(* The parent does not wait for lines that are not captured: it is over     *)
(* when the last result is in.                                             *)
Over == aborted \/ cur > NumTests

Ended == Over /\ UNCHANGED vars

Next ==
    \/ ParentStep \/ WorkerStep \/ Crash \/ Ended
    \/ \E s \in Streams : ReaderStep(s) \/ PrintLate(s)

(* Threads, tasks and the worker are scheduled, and bodies return.         *)
Fairness ==
    /\ WF_vars(ParentStep)
    /\ WF_vars(WorkerStep)
    /\ \A s \in Streams : WF_vars(ReaderStep(s))

Spec == Init /\ [][Next]_vars

FairSpec == Spec /\ Fairness

-----------------------------------------------------------------------------
OwnLine(t, n) == <<Piece("own", t, n, TRUE)>>

(* The result of a captured test has every line its body printed, each once *)
(* and in the order printed, although the result itself came another way    *)
(* and earlier.  It has no line and no marker of another captured test;     *)
(* and when the test before was captured too, all else in it comes from a   *)
(* thread that a body left behind.  After a test that runs without capture  *)
(* nothing of the kind is claimed: capture_enabled is on again when the     *)
(* last lines of that test are read, and they go into this result, which    *)
(* is not what per_test_configuration.md:44 says of never_capture.          *)
OwnOutputOnly ==
    \A t \in Captured, s \in Streams :
        LET result == captured[t][s]
            own    == 1..printed[t][s]
            Others == {i \in DOMAIN result : \A n \in own : result[i] # OwnLine(t, n)}
        IN  /\ cur > t => \A n \in own : \E i \in DOMAIN result : result[i] = OwnLine(t, n)
            /\ \A i, j \in DOMAIN result, m, n \in own :
                  result[i] = OwnLine(t, m) /\ result[j] = OwnLine(t, n) /\ i < j => m < n
            /\ \A i \in Others : \A p \in ToSet(result[i]) :
                  p.kind # "late" => p.test \notin Captured /\ t - 1 \notin Captured

(* "lines written to either the standard output or standard error channels  *)
(* are not shown immediately as the test runs" (test_output.md:20): nothing *)
(* of a captured test passes through, however late its lines are read.      *)
CapturedNotShown ==
    ~aborted =>
        \A p \in shown : p.kind # "late" => p.test \notin Captured

(* The parent gets every result, or gives up when the worker died: it never *)
(* waits for a marker that does not come.                                   *)
DrainEnds == <>Over
=============================================================================
