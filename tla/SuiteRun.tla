------------------------------- MODULE SuiteRun -------------------------------
(***************************************************************************)
(* A run of the suite as main sees it: async_test_runner in                *)
(* test-r-core/src/tokio.rs (test_runner in sync.rs is the same), with     *)
(* host_capture.rs around it.                                              *)
(*                                                                         *)
(* One attempt decides on workers, redirects its own stdout and stderr     *)
(* into a pipe if there will be workers, constructs the owners of shared   *)
(* dependencies, starts the test threads and joins them, drops the owners, *)
(* undoes the redirection, gives the lines of the pipe to the results of   *)
(* the tests that ran when they were read, and reports with one of the     *)
(* formatters of output/, which also keep a log up to date while the tests *)
(* run.  A failed attempt is repeated up to args.flaky_run times.          *)
(*                                                                         *)
(* Which test a thread takes and how it runs it: TestScheduler and         *)
(* WorkerProtocol.  What workers print: CapturedOutput.                    *)
(***************************************************************************)
EXTENDS Naturals, Sequences, SequencesExt, FiniteSets

CONSTANTS
    Tests,
    MaxThreads,      \* bound: --test-threads
    Arguments,       \* per start: arguments, formatter, Shared dependencies
    FlakyRun,        \* --flaky-run
    MaxPieces,       \* bound: pieces of lines that owners and threads of theirs print
    InstallMayFail   \* dup, pipe, open, spawn and dup2 may fail

ASSUME SuiteRunAssumption ==
    /\ IsFiniteSet(Tests)
    /\ "suite" \notin Tests
    /\ MaxThreads \in Nat \ {0}
    /\ {FlakyRun, MaxPieces} \subseteq Nat
    /\ InstallMayFail \in BOOLEAN
    /\ Arguments \subseteq [nocapture : BOOLEAN, threads : 1..MaxThreads, shared : BOOLEAN,
                            format : {"pretty", "json", "junit", "ctrf"}, logfile : BOOLEAN,
                            spawn : {FALSE}]

Threads == 1..MaxThreads
Streams == {"out", "err"}

VARIABLES
    pc,          \* where main is
    args,        \* what it was started with, and spawn_workers
    left,        \* remaining_retries
    code,        \* exit_code
    todo,        \* tests no thread has taken
    th,          \* per test thread: where it is, which test it has, its result
    results,     \* results
    windows,     \* host_windows: each stands for the test it was measured for
    cache,       \* the results the formatter has stored
    doc,         \* the log file of JUnit and CTRF; otherwise what was written
                 \* since start_suite
    owners,      \* HostedRpc and Hosted owners of this attempt
    child,       \* a subprocess of an owner runs that inherited fd 1 or 2
    fd,          \* where fd 1 and fd 2 lead
    buffer,      \* std's buffer of stdout: the begun line
    retained,    \* retained_write_end is open
    terminal,    \* TERMINAL_STDOUT and TERMINAL_STDERR are set
    pipe,        \* what is in the pipe
    spill,       \* the spill file: lines, and the tests that ran when each was read
    reader,      \* the reader thread
    printed,     \* history: how many pieces of lines were printed
    tty,         \* history: what reached the terminal
    captured     \* history: capture was installed in this attempt

captureVars == <<fd, buffer, retained, terminal, pipe, spill, reader, captured>>
printVars   == <<printed, tty>>
threadVars  == <<todo, th, results, windows>>
reportVars  == <<cache, doc>>
runVars     == <<args, left, code>>
vars == <<pc, runVars, threadVars, reportVars, owners, child, captureVars, printVars>>

Idle == [at |-> "off", test |-> "none", failed |-> FALSE]

Init ==
    /\ pc = "construct"
    /\ args \in Arguments
    /\ left = FlakyRun
    /\ code = 101
    /\ todo = {}
    /\ th = [w \in Threads |-> Idle]
    /\ results = <<>>
    /\ windows = <<>>
    /\ cache = <<>>
    /\ doc = <<>>
    /\ owners = "none"
    /\ child = FALSE
    /\ fd = [s \in Streams |-> "tty"]
    /\ buffer = <<>>
    /\ retained = FALSE
    /\ terminal = FALSE
    /\ pipe = <<>>
    /\ spill = <<>>
    /\ reader = "none"
    /\ captured = FALSE
    /\ printed = 0
    /\ tty = {}

-----------------------------------------------------------------------------
(* Writing to fd 1 or 2.  A piece knows whether it ends its line, whether   *)
(* its attempt captures, and whether its owner was still there.            *)

Piece(end) == [end |-> end, captured |-> captured, owned |-> owners = "alive"]

Written(s, ps) ==
    IF fd[s] = "pipe"
    THEN pipe' = pipe \o ps /\ UNCHANGED tty
    ELSE tty' = tty \cup ToSet(ps) /\ UNCHANGED pipe

(* println! and eprintln!, print! without a newline: stdout is buffered up  *)
(* to the newline, stderr is not.  A thread may outlive its owner.         *)
Prints(s) ==
    /\ owners # "none"
    /\ printed < MaxPieces
    /\ printed' = printed + 1
    /\ \E end \in BOOLEAN :
          CASE s = "out" /\ ~end -> buffer' = Append(buffer, Piece(end)) /\ UNCHANGED <<pipe, tty>>
            [] s = "out" /\ end  -> Written(s, Append(buffer, Piece(end))) /\ buffer' = <<>>
            [] s = "err"         -> Written(s, <<Piece(TRUE)>>) /\ UNCHANGED buffer
    /\ UNCHANGED <<pc, runVars, threadVars, reportVars, owners, child, fd, retained, terminal, spill, reader, captured>>

(* The pipe is opened close-on-exec; fd 1 and 2 are not.                   *)
SpawnChild ==
    /\ owners = "alive"
    /\ ~child
    /\ fd["out"] = "pipe"
    /\ child' = TRUE
    /\ UNCHANGED <<pc, runVars, threadVars, reportVars, owners, captureVars, printVars>>

(* It may end by itself, or not.                                           *)
ChildEnds ==
    /\ child
    /\ child' = FALSE
    /\ UNCHANGED <<pc, runVars, threadVars, reportVars, owners, captureVars, printVars>>

-----------------------------------------------------------------------------
(* The formatters, without --show-output.  A result names its host lines by *)
(* their places in the spill file, which are their order in time.          *)

Result(t, failed) == [test |-> t, failed |-> failed, attempt |-> left, host |-> {}]

Failed == \E i \in DOMAIN results : results[i].failed

(* Where a formatter's TerminalStdout leads.                               *)
TerminalStdout == IF terminal THEN "tty" ELSE fd["out"]

(* Pretty: a line as a test ends, and at the end what the failed ones       *)
(* printed.                                                                *)
PrettyStarts == doc' = <<>> /\ UNCHANGED cache

PrettyAnnounces(r) == doc' = Append(doc, r) /\ UNCHANGED cache

FailedPlaces == {i \in DOMAIN results : results[i].failed}

(* The failed results in their order, as the only member of a set.          *)
FailureOutputs ==
    {[i \in DOMAIN f |-> results[f[i]]] :
        f \in {g \in Bijection(1..Cardinality(FailedPlaces), FailedPlaces) :
                  \A i, j \in DOMAIN g : i < j => g[i] < g[j]}}

PrettyEnds == (\E rs \in FailureOutputs : doc' = doc \o rs) /\ UNCHANGED cache

(* JSON: an event as a test ends, with its output, and one for the suite.   *)
JsonStarts == doc' = <<>> /\ UNCHANGED cache

JsonAnnounces(r) == doc' = Append(doc, r) /\ UNCHANGED cache

JsonEnds == doc' = Append(doc, Result("suite", Failed)) /\ UNCHANGED cache

(* JUnit and CTRF store the results and write documents of all of them.     *)
(* Output is in it of tests that failed.                                   *)
Shown(rs) == [i \in DOMAIN rs |-> [rs[i] EXCEPT !.host = IF rs[i].failed THEN @ ELSE {}]]

(* reset_log_file: a log file is written over, stdout only once, at the end.*)
Writes(final) == args.logfile \/ final

JUnitReport(rs, final) == doc' = IF Writes(final) THEN Shown(rs) ELSE doc

JUnitStarts == doc' = (IF args.logfile THEN doc ELSE <<>>) /\ UNCHANGED cache

JUnitAnnounces(r) == cache' = Append(cache, r) /\ JUnitReport(cache', FALSE)

JUnitEnds == JUnitReport(results, TRUE) /\ UNCHANGED cache

\* Mutation: the results of the attempt before are kept.
CtrfKeeps == doc' = (IF args.logfile THEN doc ELSE <<>>) /\ UNCHANGED cache

(* Only CTRF forgets the results of the attempt before ...                 *)
CtrfStarts == doc' = (IF args.logfile THEN doc ELSE <<>>) /\ cache' = <<>>

CtrfSnapshot(final) == doc' = IF Writes(final) THEN cache' ELSE doc

CtrfAnnounces(r) == cache' = Append(cache, Shown(<<r>>)[1]) /\ CtrfSnapshot(FALSE)

(* ... and builds the last document from the results again, which have the  *)
(* lines of the host by then.                                              *)
CtrfEnds == cache' = Shown(results) /\ CtrfSnapshot(TRUE)

StartSuite ==
    \/ args.format = "pretty" /\ PrettyStarts
    \/ args.format = "json"   /\ JsonStarts
    \/ args.format = "junit"  /\ JUnitStarts
    \/ args.format = "ctrf"   /\ CtrfStarts

FinishedRunningTest(r) ==
    \/ args.format = "pretty" /\ PrettyAnnounces(r)
    \/ args.format = "json"   /\ JsonAnnounces(r)
    \/ args.format = "junit"  /\ JUnitAnnounces(r)
    \/ args.format = "ctrf"   /\ CtrfAnnounces(r)

FinishedSuite ==
    \/ args.format = "pretty" /\ PrettyEnds
    \/ args.format = "json"   /\ JsonEnds
    \/ args.format = "junit"  /\ JUnitEnds
    \/ args.format = "ctrf"   /\ CtrfEnds

-----------------------------------------------------------------------------
(* Beginning of an attempt.                                                *)

(* finalize_for_execution: what it changes stays for the next attempt.     *)
Finalized(a) ==
    IF a.nocapture THEN a
    ELSE [a EXCEPT !.spawn = TRUE, !.threads = IF a.shared THEN 1 ELSE @]

Construct ==
    /\ pc = "construct"
    /\ left > 0
    /\ args' = Finalized(args)
    /\ todo' = Tests
    /\ results' = <<>>
    /\ windows' = <<>>
    /\ spill' = <<>>
    /\ captured' = FALSE
    /\ pc' = IF args'.nocapture \/ ~args'.spawn THEN "collect" ELSE "install"
    /\ UNCHANGED <<left, code, th, reportVars, owners, child, fd, buffer, retained, terminal, pipe, reader, printVars>>

NoAttemptLeft ==
    /\ pc = "construct"
    /\ left = 0
    /\ pc' = "exit"
    /\ UNCHANGED <<runVars, threadVars, reportVars, owners, child, captureVars, printVars>>

(* A failed step ends the installation and the attempt goes on without:    *)
(* the spill file is removed, the write end closed, the reader left to end.*)
GiveUp ==
    /\ pc' = "collect"
    /\ reader' = "none"
    /\ retained' = FALSE
    /\ pipe' = <<>>
    /\ UNCHANGED <<spill, captured>>

(* Phase 1: saved terminal fds, pipe, spill file ...                       *)
SetUpCapture ==
    /\ pc = "install"
    /\ \/ InstallMayFail /\ GiveUp
       \/ pc' = "terminals" /\ UNCHANGED <<reader, retained, pipe, spill, captured>>
    /\ UNCHANGED <<runVars, threadVars, reportVars, owners, child, fd, buffer, terminal, printVars>>

(* ... the duplicates of fd 1 and 2 that the formatters write to, which an  *)
(* attempt may find from the one before, and the reader thread.            *)
InstallTerminalFds ==
    /\ pc = "terminals"
    /\ \/ InstallMayFail /\ GiveUp /\ terminal' \in {terminal, TRUE}
       \/ /\ terminal' = TRUE
          /\ pc' = "redirectOut"
          /\ retained' = TRUE
          /\ reader' = "reading"
          /\ UNCHANGED <<pipe, spill, captured>>
    /\ UNCHANGED <<runVars, threadVars, reportVars, owners, child, fd, buffer, printVars>>

(* Phase 2.                                                                *)
RedirectOut ==
    /\ pc = "redirectOut"
    /\ \/ InstallMayFail /\ GiveUp /\ UNCHANGED fd
       \/ /\ pc' = "redirectErr"
          /\ fd' = [fd EXCEPT !["out"] = "pipe"]
          /\ UNCHANGED <<reader, retained, pipe, spill, captured>>
    /\ UNCHANGED <<runVars, threadVars, reportVars, owners, child, buffer, terminal, printVars>>

\* Mutation: stdout stays redirected when stderr cannot be.
RedirectErrOnly ==
    /\ pc = "redirectErr"
    /\ \/ InstallMayFail /\ GiveUp /\ UNCHANGED fd
       \/ /\ pc' = "collect"
          /\ fd' = [fd EXCEPT !["err"] = "pipe"]
          /\ captured' = TRUE
          /\ UNCHANGED <<reader, retained, pipe, spill>>
    /\ UNCHANGED <<runVars, threadVars, reportVars, owners, child, buffer, terminal, printVars>>

RedirectErr ==
    /\ pc = "redirectErr"
    /\ \/ InstallMayFail /\ GiveUp /\ fd' = [fd EXCEPT !["out"] = "tty"]
       \/ /\ pc' = "collect"
          /\ fd' = [fd EXCEPT !["err"] = "pipe"]
          /\ captured' = TRUE
          /\ UNCHANGED <<reader, retained, pipe, spill>>
    /\ UNCHANGED <<runVars, threadVars, reportVars, owners, child, buffer, terminal, printVars>>

(* collect_parent_shared_dependencies: the constructors may print already. *)
Collect ==
    /\ pc = "collect"
    /\ owners' = "alive"
    /\ pc' = "spawn"
    /\ UNCHANGED <<runVars, threadVars, reportVars, child, captureVars, printVars>>

SpawnThreads ==
    /\ pc = "spawn"
    /\ th' = [w \in Threads |-> IF w <= args.threads THEN [Idle EXCEPT !.at = "poll"] ELSE Idle]
    /\ StartSuite
    /\ pc' = "join"
    /\ UNCHANGED <<runVars, todo, results, windows, owners, child, captureVars, printVars>>

-----------------------------------------------------------------------------
(* A test thread.                                                          *)

Begin(w) ==
    /\ th[w].at = "poll"
    /\ \E t \in todo :
          /\ todo' = todo \ {t}
          /\ th' = [th EXCEPT ![w] = [Idle EXCEPT !.at = "window", !.test = t]]
    /\ UNCHANGED <<results, windows, reportVars>>

(* The result is announced before the window is closed.                    *)
End(w) ==
    /\ th[w].at = "window"
    /\ \E failed \in BOOLEAN :
          /\ th' = [th EXCEPT ![w].at = "ran", ![w].failed = failed]
          /\ FinishedRunningTest(Result(th[w].test, failed))
    /\ UNCHANGED <<todo, results, windows>>

\* Mutation: the window is pushed in a critical section of its own.
PushOneByOne(w) ==
    /\ \/ /\ th[w].at = "ran"
          /\ results' = Append(results, Result(th[w].test, th[w].failed))
          /\ th' = [th EXCEPT ![w].at = "pushed"]
          /\ UNCHANGED windows
       \/ /\ th[w].at = "pushed"
          /\ windows' = Append(windows, th[w].test)
          /\ th' = [th EXCEPT ![w] = [Idle EXCEPT !.at = "poll"]]
          /\ UNCHANGED results
    /\ UNCHANGED <<todo, reportVars>>

(* Result and window are pushed under both locks.                          *)
Push(w) ==
    /\ th[w].at = "ran"
    /\ results' = Append(results, Result(th[w].test, th[w].failed))
    /\ windows' = Append(windows, th[w].test)
    /\ th' = [th EXCEPT ![w] = [Idle EXCEPT !.at = "poll"]]
    /\ UNCHANGED <<todo, reportVars>>

Leave(w) ==
    /\ th[w].at = "poll"
    /\ todo = {}
    /\ th' = [th EXCEPT ![w] = Idle]
    /\ UNCHANGED <<todo, results, windows, reportVars>>

ThreadStep(w) ==
    /\ Begin(w) \/ End(w) \/ Push(w) \/ Leave(w)
    /\ UNCHANGED <<pc, runVars, owners, child, captureVars, printVars>>

-----------------------------------------------------------------------------
(* The reader thread.                                                      *)

Running == {th[w].test : w \in {v \in Threads : th[v].at = "window"}}

LineEnds == {i \in DOMAIN pipe : pipe[i].end}

WriteEndOpen == retained \/ child \/ \E s \in Streams : fd[s] = "pipe"

(* The time of a line is the time it is read.                              *)
ReadLine ==
    /\ reader = "reading"
    /\ pipe # <<>>
    /\ LineEnds # {} \/ ~WriteEndOpen
    /\ LET n == IF LineEnds = {} THEN Len(pipe)
                ELSE CHOOSE i \in LineEnds : \A j \in LineEnds : i <= j
       IN  /\ spill' = Append(spill, [line |-> SubSeq(pipe, 1, n), during |-> Running])
           /\ pipe' = SubSeq(pipe, n + 1, Len(pipe))
    /\ UNCHANGED <<pc, runVars, threadVars, reportVars, owners, child, fd, buffer, retained, terminal, reader, captured, printVars>>

ReachEnd ==
    /\ reader = "reading"
    /\ pipe = <<>>
    /\ ~WriteEndOpen
    /\ reader' = "ended"
    /\ UNCHANGED <<pc, runVars, threadVars, reportVars, owners, child, fd, buffer, retained, terminal, pipe, spill, captured, printVars>>

-----------------------------------------------------------------------------
(* End of an attempt.                                                      *)

Shutdown == IF captured THEN "flush" ELSE "report"

\* Mutation: the capture is finalised while the owners are still there.
FinaliseFirst ==
    /\ pc = "join"
    /\ \A w \in Threads : th[w].at = "off"
    /\ pc' = Shutdown
    /\ UNCHANGED <<runVars, threadVars, reportVars, owners, child, captureVars, printVars>>

Join ==
    /\ pc = "join"
    /\ \A w \in Threads : th[w].at = "off"
    /\ pc' = "drop"
    /\ UNCHANGED <<runVars, threadVars, reportVars, owners, child, captureVars, printVars>>

(* The Drop of an owner may print (it is "alive" until then).  It may stop  *)
(* a subprocess; std's Child does not when it is dropped.                  *)
DropOwners ==
    /\ pc = "drop"
    /\ owners' = "dropped"
    /\ child' \in {FALSE, child}
    /\ pc' = Shutdown
    /\ UNCHANGED <<runVars, threadVars, reportVars, captureVars, printVars>>

\* Mutation: the begun line stays in the buffer.
NoFlush ==
    /\ pc = "flush"
    /\ pc' = "restoreOut"
    /\ UNCHANGED <<runVars, threadVars, reportVars, owners, child, captureVars, printVars>>

(* shutdown_pipe *)
Flush ==
    /\ pc = "flush"
    /\ Written("out", buffer)
    /\ buffer' = <<>>
    /\ pc' = "restoreOut"
    /\ UNCHANGED <<runVars, threadVars, reportVars, owners, child, fd, retained, terminal, spill, reader, captured, printed>>

Restore(s, from, to) ==
    /\ pc = from
    /\ fd' = [fd EXCEPT ![s] = "tty"]
    /\ pc' = to
    /\ UNCHANGED <<runVars, threadVars, reportVars, owners, child, buffer, retained, terminal, pipe, spill, reader, captured, printVars>>

CloseWriteEnd ==
    /\ pc = "close"
    /\ retained' = FALSE
    /\ pc' = "joinReader"
    /\ UNCHANGED <<runVars, threadVars, reportVars, owners, child, fd, buffer, terminal, pipe, spill, reader, captured, printVars>>

JoinReader ==
    /\ pc = "joinReader"
    /\ reader = "ended"
    /\ reader' = "none"
    /\ pc' = "attribute"
    /\ UNCHANGED <<runVars, threadVars, reportVars, owners, child, fd, buffer, retained, terminal, pipe, spill, captured, printVars>>

(* attribute_records_to_tests: the i-th window speaks of the i-th result.  *)
Attribute ==
    /\ pc = "attribute"
    /\ results' =
          [i \in DOMAIN results |->
             [results[i] EXCEPT !.host =
                IF i \in DOMAIN windows
                THEN {k \in DOMAIN spill : windows[i] \in spill[k].during}
                ELSE {}]]
    /\ pc' = "report"
    /\ UNCHANGED <<runVars, todo, th, windows, reportVars, owners, child, captureVars, printVars>>

(* finished_suite and exit_code.  The spill file is gone.                  *)
Report ==
    /\ pc = "report"
    /\ code' = IF Failed THEN 101 ELSE 0
    /\ left' = IF Failed THEN left - 1 ELSE left
    /\ FinishedSuite
    /\ pc' = IF Failed THEN "construct" ELSE "exit"
    /\ UNCHANGED <<args, threadVars, owners, child, captureVars, printVars>>

MainStep ==
    \/ Construct \/ NoAttemptLeft
    \/ SetUpCapture \/ InstallTerminalFds \/ RedirectOut \/ RedirectErr
    \/ Collect \/ SpawnThreads \/ Join \/ DropOwners
    \/ Flush \/ Restore("out", "restoreOut", "restoreErr") \/ Restore("err", "restoreErr", "close")
    \/ CloseWriteEnd \/ JoinReader \/ Attribute
    \/ Report

Exited == pc = "exit" /\ UNCHANGED vars

Next ==
    \/ MainStep \/ Exited \/ ReadLine \/ ReachEnd
    \/ \E w \in Threads : ThreadStep(w)
    \/ \E s \in Streams : Prints(s)
    \/ SpawnChild \/ ChildEnds

(* The operating system schedules main, the test threads and the reader.   *)
Fairness ==
    /\ WF_vars(MainStep)
    /\ \A w \in Threads : WF_vars(ThreadStep(w))
    /\ WF_vars(ReadLine \/ ReachEnd)

Spec == Init /\ [][Next]_vars

FairSpec == Spec /\ Fairness

-----------------------------------------------------------------------------
(* "if this fails, fd 1 is already redirected - put it back"                *)
(* (host_capture.rs:201): when the attempt goes on, stdout and stderr lead  *)
(* both into the pipe, which somebody reads, or both to the terminal.  The   *)
(* formatters write to the terminal in any case, never into the pipe.      *)
InstalledOrNot ==
    /\ TerminalStdout = "tty"
    /\ pc \notin {"install", "terminals", "redirectOut", "redirectErr", "restoreOut", "restoreErr"} =>
          \/ \A s \in Streams : fd[s] = "pipe" /\ reader = "reading" /\ retained
          \/ \A s \in Streams : fd[s] = "tty"

(* Whatever owners print from their constructors, while tests run, from    *)
(* their threads and from their Drop is in the spill file when it is read, *)
(* also a begun line, and none of it gets between the lines of the report. *)
OwnerLinesKept ==
    /\ \A p \in tty : p.captured => ~p.owned
    /\ pc = "attribute" => pipe = <<>>

(* A result is given the lines that were read while its own test ran, all   *)
(* of them and no others, although results and windows are two vectors      *)
(* that all threads push to.                                               *)
AttributedInWindow ==
    \A i \in DOMAIN results :
        /\ \A k \in results[i].host :
              k \in DOMAIN spill /\ results[i].test \in spill[k].during
        /\ pc = "report" /\ captured =>
              \A k \in DOMAIN spill :
                  results[i].test \in spill[k].during => k \in results[i].host

(* "so a retried suite doesn't carry forward stale per-test entries"        *)
(* (ctrf.rs:36): what the CTRF log holds while tests run, for the case that *)
(* the process is killed, is one entry for each test this attempt finished. *)
LogKeptUpToDate ==
    args.format = "ctrf" /\ args.logfile /\ pc = "join" /\ cache # <<>> =>
        /\ doc = Shown(cache)
        /\ \A i \in DOMAIN doc : doc[i].attempt = left
        /\ {doc[i].test : i \in DOMAIN doc} =
              {results[i].test : i \in DOMAIN results}
              \cup {th[w].test : w \in {v \in Threads : th[v].at = "ran"}}
        /\ \A i, j \in DOMAIN doc : doc[i].test = doc[j].test => i = j

(* The exit code is that of the last attempt, every attempt has a result   *)
(* for every test, and 0 attempts are a failure.                           *)
CodeOfLastAttempt ==
    IF FlakyRun = 0 THEN code = 101
    ELSE /\ {results[i].test : i \in DOMAIN results} = Tests
         /\ Len(results) = Cardinality(Tests)
         /\ code = 0 <=> \A i \in DOMAIN results : ~results[i].failed
         /\ code # 0 => left = 0

(* What every formatter leaves of the last attempt speaks of each test,    *)
(* with the lines that were given to the failed ones after they were        *)
(* announced (but for JSON, whose events are written by then), and says     *)
(* what the exit code says.                                                *)
LogOfLastAttempt ==
    FlakyRun > 0 =>
        /\ {doc[i].test : i \in DOMAIN doc} \ {"suite"} = Tests
        /\ args.format # "json" =>
              \A i \in DOMAIN results : results[i].failed => results[i] \in ToSet(doc)
        /\ args.format \in {"junit", "ctrf"} => Len(doc) = Cardinality(Tests)
        /\ (\E i \in DOMAIN doc : doc[i].attempt = left /\ doc[i].failed) => code # 0

(* main exits, with the code and the report of the last attempt, if no      *)
(* subprocess outlives the owners of its attempt for good: no order of      *)
(* joins, drops and restored fds and no failed installation holds it up.    *)
(* One that stays keeps the pipe open and main in JoinReader, although the  *)
(* write end it closes is taken for the last one (host_capture.rs:251).     *)
MainExits ==
    (owners = "dropped" ~> ~child) => <>(pc = "exit" /\ CodeOfLastAttempt /\ LogOfLastAttempt)
=============================================================================
