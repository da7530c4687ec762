--------------------------- MODULE SuiteRun_proofs ---------------------------
(***************************************************************************)
(* For every number of tests, threads, retries and printed pieces: stdout  *)
(* and stderr are redirected together or not at all, and what owners print *)
(* while they are there is in the spill file when it is read (Inv).  Each  *)
(* result gets the lines of its own window, the exit code and the report   *)
(* are those of the last attempt, and the CTRF log has this attempt's      *)
(* results (RunInv).                                                       *)
(***************************************************************************)
EXTENDS SuiteRun, FiniteSetTheorems, SequenceTheorems, TLAPS

Pieces == [end : BOOLEAN, captured : BOOLEAN, owned : BOOLEAN]

Types ==
    /\ pc \in {"construct", "install", "terminals", "redirectOut", "redirectErr", "collect",
               "spawn", "join", "drop", "flush", "restoreOut", "restoreErr", "close", "joinReader", "attribute",
               "report", "exit"}
    /\ fd \in [Streams -> {"tty", "pipe"}]
    /\ captured \in BOOLEAN
    /\ terminal \in BOOLEAN
    /\ buffer \in Seq(Pieces)

On(out, err) == fd["out"] = out /\ fd["err"] = err

Reading == reader = "reading" /\ retained

WithOwners == {"spawn", "join", "drop"}

(* Where main is says where the streams lead.                              *)
Redirected ==
    /\ pc \in {"construct", "install", "terminals", "redirectOut", "close", "joinReader",
               "attribute", "report", "exit"} => On("tty", "tty")
    /\ pc \in {"redirectOut", "redirectErr"} => Reading /\ terminal
    /\ fd["out"] = "pipe" => terminal
    /\ pc \in {"install", "terminals", "redirectOut", "redirectErr"} => ~captured
    /\ pc = "redirectErr" => On("pipe", "tty")
    /\ pc \in {"collect"} \cup WithOwners =>
          IF captured THEN On("pipe", "pipe") /\ Reading ELSE On("tty", "tty")
    /\ pc \in {"flush", "restoreOut"} => On("pipe", "pipe") /\ Reading
    /\ pc = "restoreErr" => On("tty", "pipe")

(* The pieces that must not reach the terminal are still in the buffer only *)
(* while stdout leads into the pipe.                                        *)
ToSpill(p) == p.captured /\ p.owned

Buffered ==
    /\ owners = "alive" => pc \in WithOwners
    /\ \A p \in tty : ~ToSpill(p)
    /\ (\E p \in ToSet(buffer) : ToSpill(p)) => captured /\ pc \in WithOwners \cup {"flush"}
    /\ reader = "ended" => pipe = <<>> /\ On("tty", "tty") /\ ~retained
    /\ pc = "attribute" => pipe = <<>> /\ reader = "none"

Inv == Types /\ Redirected /\ Buffered

LEMMA EmptySequence == ASSUME NEW S PROVE <<>> \in Seq(S) /\ ToSet(<<>>) = {}
  BY DEF ToSet

LEMMA OneElement ==
    ASSUME NEW S, NEW e \in S PROVE <<e>> \in Seq(S) /\ \A p \in ToSet(<<e>>) : p = e
  BY DEF ToSet

LEMMA InvInit == Init => Inv
<1> SUFFICES ASSUME Init PROVE Inv
  OBVIOUS
<1>0. pc = "construct" /\ On("tty", "tty") /\ fd \in [Streams -> {"tty", "pipe"}]
  BY DEF Init, On, Streams
<1>1. Types /\ Redirected
  <2>1. captured = FALSE /\ terminal = FALSE /\ buffer = <<>> /\ fd["out"] = "tty"
    BY DEF Init, Streams
  <2>2. Types
    BY <1>0, <2>1, EmptySequence DEF Types
  <2> QED
    BY <1>0, <2>1, <2>2 DEF Redirected, WithOwners
<1>2. ToSet(buffer) = {} /\ tty = {}
  BY DEF Init, ToSet
<1>3. Buffered
  BY <1>2 DEF Init, Buffered, WithOwners
<1> QED
  BY <1>1, <1>3 DEF Inv

(* Steps that touch neither the streams nor what was printed.              *)
LEMMA Untouched ==
    ASSUME Inv, UNCHANGED <<pc, owners, captureVars, printVars>> PROVE Inv'
<1> USE DEF captureVars, printVars
<1>1. Types' /\ Redirected'
  BY DEF Inv, Types, Redirected, On, Reading
<1>2. Buffered'
  BY DEF Inv, Buffered, On
<1> QED
  BY <1>1, <1>2 DEF Inv

LEMMA PrintsInv == ASSUME Inv, NEW s \in Streams, Prints(s) PROVE Inv'
<1> USE DEF Streams
<1>1. Types /\ Redirected /\ Buffered
  BY DEF Inv
<1>2. /\ UNCHANGED <<pc, owners, fd, retained, terminal, reader, captured>>
      /\ owners # "none"
  BY DEF Prints
<1>3. PICK end \in BOOLEAN :
          CASE s = "out" /\ ~end -> buffer' = Append(buffer, Piece(end)) /\ UNCHANGED <<pipe, tty>>
            [] s = "out" /\ end  -> Written(s, Append(buffer, Piece(end))) /\ buffer' = <<>>
            [] s = "err"         -> Written(s, <<Piece(TRUE)>>) /\ UNCHANGED buffer
  BY DEF Prints
<1>4. Piece(end) \in Pieces /\ Piece(TRUE) \in Pieces
  BY <1>1 DEF Piece, Pieces, Types
<1>5. ASSUME NEW e \in BOOLEAN, ToSpill(Piece(e))
      PROVE  captured /\ pc \in WithOwners /\ On("pipe", "pipe")
  BY <1>1, <1>5 DEF ToSpill, Piece, Buffered, Redirected
<1>6. Append(buffer, Piece(end)) \in Seq(Pieces)
      /\ ToSet(Append(buffer, Piece(end))) \subseteq ToSet(buffer) \cup {Piece(end)}
  BY <1>1, <1>4 DEF Types, ToSet
<1>7. CASE s = "out" /\ ~end
  <2>1. buffer' = Append(buffer, Piece(end)) /\ UNCHANGED <<pipe, tty>>
    BY <1>3, <1>7
  <2>2. Types' /\ Redirected'
    BY <1>1, <1>2, <1>6, <2>1 DEF Types, Redirected, On, Reading
  <2>3. Buffered'
    BY <1>1, <1>2, <1>5, <1>6, <2>1 DEF Buffered, On, ToSpill, WithOwners
  <2> QED
    BY <2>2, <2>3 DEF Inv
<1>8. ASSUME NEW ps \in Seq(Pieces), Written(s, ps),
             \A p \in ToSet(ps) : p \in ToSet(buffer) \/ \E e \in BOOLEAN : p = Piece(e),
             buffer' = <<>> \/ UNCHANGED buffer
      PROVE  Inv'
  <2>1. CASE fd[s] = "pipe"
    <3>1. pipe' = pipe \o ps /\ UNCHANGED tty
      BY <1>8, <2>1 DEF Written
    <3>2. Types' /\ Redirected'
      <4>1. buffer' \in Seq(Pieces)
        BY <1>1, <1>8, EmptySequence DEF Types
      <4> QED
        BY <1>1, <1>2, <4>1 DEF Types, Redirected, On, Reading
    <3>3. reader # "ended" /\ pc # "attribute"
      BY <1>1, <2>1 DEF Buffered, Redirected, On
    <3>4. ToSet(buffer') \subseteq ToSet(buffer)
      BY <1>8 DEF ToSet
    <3>5. Buffered'
      BY <1>1, <1>2, <3>1, <3>3, <3>4 DEF Buffered, On, ToSpill, WithOwners
    <3> QED
      BY <3>2, <3>5 DEF Inv
  <2>2. CASE fd[s] # "pipe"
    <3>1. tty' = tty \cup ToSet(ps) /\ UNCHANGED pipe
      BY <1>8, <2>2 DEF Written
    <3>2. ~On("pipe", "pipe")
      BY <2>2 DEF On
    <3>3. \A p \in ToSet(ps) : ~ToSpill(p)
      BY <1>1, <1>5, <1>8, <3>2 DEF Buffered, Redirected
    <3>4. Types' /\ Redirected'
      <4>1. buffer' \in Seq(Pieces)
        BY <1>1, <1>8, EmptySequence DEF Types
      <4> QED
        BY <1>1, <1>2, <4>1 DEF Types, Redirected, On, Reading
    <3>5. ToSet(buffer') \subseteq ToSet(buffer)
      BY <1>8 DEF ToSet
    <3>6. Buffered'
      BY <1>1, <1>2, <3>1, <3>3, <3>5 DEF Buffered, On, ToSpill, WithOwners
    <3> QED
      BY <3>4, <3>6 DEF Inv
  <2> QED
    BY <2>1, <2>2
<1>9. CASE s = "out" /\ end
  <2>1. Written(s, Append(buffer, Piece(end))) /\ buffer' = <<>>
    BY <1>3, <1>9
  <2> QED
    BY <1>6, <1>8, <2>1
<1>10. CASE s = "err"
  <2>1. Written(s, <<Piece(TRUE)>>) /\ UNCHANGED buffer
    BY <1>3, <1>10
  <2>2. <<Piece(TRUE)>> \in Seq(Pieces) /\ \A p \in ToSet(<<Piece(TRUE)>>) : p = Piece(TRUE)
    BY <1>4, OneElement
  <2> QED
    BY <1>8, <2>1, <2>2
<1> QED
  BY <1>7, <1>9, <1>10

LEMMA MainInv == ASSUME Inv, MainStep PROVE Inv'
<1> USE DEF runVars, threadVars, reportVars, printVars
<1>1. Types /\ Redirected /\ Buffered
  BY DEF Inv
<1>2. CASE Construct
  <2>1. Types' /\ Redirected'
    BY <1>1, <1>2 DEF Construct, Types, Redirected, On, Reading, WithOwners, Streams
  <2>2. Buffered'
    BY <1>1, <1>2, <2>1 DEF Construct, Buffered, Redirected, On, Reading, WithOwners, Streams
  <2> QED
    BY <2>1, <2>2 DEF Inv
<1>3. CASE NoAttemptLeft
  <2>1. Types' /\ Redirected'
    BY <1>1, <1>3 DEF NoAttemptLeft, captureVars, Types, Redirected, On, Reading, WithOwners, Streams
  <2>2. Buffered'
    BY <1>1, <1>3, <2>1 DEF NoAttemptLeft, captureVars, Buffered, Redirected, On, Reading, WithOwners, Streams
  <2> QED
    BY <2>1, <2>2 DEF Inv
<1>4. CASE SetUpCapture
  <2>1. Types' /\ Redirected'
    BY <1>1, <1>4 DEF SetUpCapture, GiveUp, Types, Redirected, On, Reading, WithOwners, Streams
  <2>2. Buffered'
    BY <1>1, <1>4, <2>1 DEF SetUpCapture, GiveUp, Buffered, Redirected, On, Reading, WithOwners, Streams
  <2> QED
    BY <2>1, <2>2 DEF Inv
<1>5. CASE RedirectOut
  <2>1. pc = "redirectOut" /\ UNCHANGED <<buffer, owners, tty, terminal>>
    BY <1>5 DEF RedirectOut
  <2>2. CASE pc' = "collect" /\ reader' = "none" /\ UNCHANGED captured /\ fd' = fd /\ pipe' = <<>>
    <3>1. On("tty", "tty")' /\ fd' \in [Streams -> {"tty", "pipe"}]
      BY <1>1, <2>1, <2>2 DEF On, Redirected, Types, Streams
    <3>2. Types' /\ Redirected'
      BY <1>1, <2>1, <2>2, <3>1 DEF Types, Redirected, WithOwners
    <3> QED
      BY <1>1, <2>1, <2>2, <3>2 DEF Inv, Buffered, Redirected, WithOwners
  <2>3. CASE /\ pc' = "redirectErr" /\ fd' = [fd EXCEPT !["out"] = "pipe"]
             /\ UNCHANGED <<reader, retained, captured>>
    <3>1. fd' \in [Streams -> {"tty", "pipe"}]
          /\ On("pipe", "tty")'
      BY <1>1, <2>1, <2>3 DEF On, Redirected, Types, Streams
    <3>2. Types' /\ Redirected'
      BY <1>1, <2>1, <2>3, <3>1 DEF Types, Redirected, Reading, WithOwners
    <3> QED
      BY <1>1, <2>1, <2>3, <3>2 DEF Inv, Buffered, Redirected, Reading, WithOwners
  <2> QED
    BY <1>5, <2>2, <2>3 DEF RedirectOut, GiveUp
<1>6. CASE RedirectErr
  <2>1. pc = "redirectErr" /\ UNCHANGED <<buffer, owners, tty, terminal>>
    BY <1>6 DEF RedirectErr
  <2>2. CASE pc' = "collect" /\ reader' = "none" /\ UNCHANGED captured /\ fd' = [fd EXCEPT !["out"] = "tty"] /\ pipe' = <<>>
    <3>1. On("tty", "tty")' /\ fd' \in [Streams -> {"tty", "pipe"}]
      BY <1>1, <2>1, <2>2 DEF On, Redirected, Types, Streams
    <3>2. Types' /\ Redirected'
      BY <1>1, <2>1, <2>2, <3>1 DEF Types, Redirected, WithOwners
    <3> QED
      BY <1>1, <2>1, <2>2, <3>2 DEF Inv, Buffered, Redirected, WithOwners
  <2>3. CASE /\ pc' = "collect" /\ fd' = [fd EXCEPT !["err"] = "pipe"]
             /\ captured' = TRUE /\ UNCHANGED <<reader, retained>>
    <3>1. fd' \in [Streams -> {"tty", "pipe"}]
          /\ On("pipe", "pipe")'
      BY <1>1, <2>1, <2>3 DEF On, Redirected, Types, Streams
    <3>2. Types' /\ Redirected'
      BY <1>1, <2>1, <2>3, <3>1 DEF Types, Redirected, Reading, WithOwners
    <3> QED
      BY <1>1, <2>1, <2>3, <3>2 DEF Inv, Buffered, Redirected, Reading, WithOwners
  <2> QED
    BY <1>6, <2>2, <2>3 DEF RedirectErr, GiveUp
<1>7. CASE Collect \/ SpawnThreads \/ Join \/ DropOwners
  <2>1. /\ UNCHANGED <<captureVars, printVars>>
        /\ \/ pc = "collect" /\ owners' = "alive" /\ pc' = "spawn"
           \/ pc = "spawn" /\ pc' = "join" /\ UNCHANGED owners
           \/ pc = "join" /\ pc' = "drop" /\ UNCHANGED owners
           \/ pc = "drop" /\ owners' = "dropped" /\ pc' = Shutdown
    <3>1. CASE DropOwners
      BY <3>1, Zenon DEF DropOwners
    <3>2. CASE Collect \/ SpawnThreads \/ Join
      BY <3>2 DEF Collect, SpawnThreads, Join
    <3> QED
      BY <1>7, <3>1, <3>2
  <2>2. Types' /\ Redirected'
    BY <1>1, <2>1 DEF Shutdown, captureVars, Types, Redirected, On, Reading, WithOwners, Streams
  <2>3. Buffered'
    BY <1>1, <2>1, <2>2 DEF Shutdown, captureVars, printVars, Buffered, Redirected, On, Reading, WithOwners, Streams
  <2> QED
    BY <2>2, <2>3 DEF Inv
<1>8. CASE Flush
  <2>1. fd["out"] = "pipe"
    BY <1>1, <1>8 DEF Flush, Redirected, On
  <2>2. pipe' = pipe \o buffer /\ UNCHANGED tty
    BY <1>8, <2>1 DEF Flush, Written
  <2>3. Types' /\ ToSet(buffer') = {}
    BY <1>1, <1>8, <2>2 DEF Flush, Types, ToSet
  <2>4. Redirected'
    BY <1>1, <1>8 DEF Flush, Redirected, On, Reading, WithOwners
  <2>5. reader # "ended"
    BY <1>1, <1>8 DEF Flush, Redirected, Reading
  <2>6. Buffered'
    BY <1>1, <1>8, <2>2, <2>3, <2>5 DEF Flush, Buffered, On, ToSpill, WithOwners
  <2> QED
    BY <2>3, <2>4, <2>6 DEF Inv
<1>9. CASE Restore("out", "restoreOut", "restoreErr") \/ Restore("err", "restoreErr", "close")
  <2>1. Types' /\ Redirected'
    BY <1>1, <1>9 DEF Restore, Types, Redirected, On, Reading, WithOwners, Streams
  <2>2. Buffered'
    BY <1>1, <1>9, <2>1 DEF Restore, Buffered, Redirected, On, Reading, WithOwners, Streams
  <2> QED
    BY <2>1, <2>2 DEF Inv
<1>10. CASE CloseWriteEnd \/ JoinReader \/ Attribute \/ Report
  <2>1. /\ On("tty", "tty") /\ pc' \in {"joinReader", "attribute", "report", "construct", "exit"}
        /\ pc \notin {"construct", "exit"} \cup WithOwners
        /\ UNCHANGED <<fd, buffer, captured, terminal, owners, tty, pipe>>
    BY <1>1, <1>10 DEF CloseWriteEnd, JoinReader, Attribute, Report, captureVars, Redirected,
                       WithOwners
  <2>2. reader' = reader \/ reader' = "none"
    BY <1>10 DEF CloseWriteEnd, JoinReader, Attribute, Report, captureVars
  <2>3. retained' = retained \/ retained' = FALSE
    BY <1>10 DEF CloseWriteEnd, JoinReader, Attribute, Report, captureVars
  <2>4. pc' = "attribute" => pipe = <<>> /\ reader' = "none"
    BY <1>1, <1>10 DEF CloseWriteEnd, JoinReader, Attribute, Report, Buffered
  <2>5. Types' /\ Redirected'
    BY <1>1, <2>1 DEF Types, Redirected, On, WithOwners
  <2>6. Buffered'
    <3>1. owners = "alive" => FALSE
      BY <1>1, <2>1 DEF Buffered
    <3>2. (\E p \in ToSet(buffer) : ToSpill(p)) => FALSE
      BY <1>1, <1>10 DEF CloseWriteEnd, JoinReader, Attribute, Report, Buffered, WithOwners
    <3> QED
      BY <1>1, <2>1, <2>2, <2>3, <2>4, <3>1, <3>2 DEF Buffered, On
  <2> QED
    BY <2>5, <2>6 DEF Inv
<1>11. CASE InstallTerminalFds
  <2>1. /\ pc = "terminals" /\ On("tty", "tty") /\ ~captured
        /\ pc' \in {"collect", "redirectOut"} /\ terminal' \in BOOLEAN
        /\ UNCHANGED <<buffer, owners, tty, fd, captured>>
        /\ pc' = "redirectOut" => reader' = "reading" /\ retained' /\ terminal'
        /\ reader' # "ended"
    BY <1>1, <1>11 DEF InstallTerminalFds, GiveUp, Types, Redirected
  <2>2. Types' /\ Redirected'
    BY <1>1, <2>1 DEF Types, Redirected, On, Reading, WithOwners
  <2>3. Buffered'
    BY <1>1, <2>1 DEF Buffered, WithOwners
  <2> QED
    BY <2>2, <2>3 DEF Inv
<1> QED
  BY <1>2, <1>3, <1>4, <1>5, <1>6, <1>7, <1>8, <1>9, <1>10, <1>11 DEF MainStep

LEMMA ReaderInv == ASSUME Inv, ReadLine \/ ReachEnd PROVE Inv'
<1>1. Types /\ Redirected /\ Buffered
  BY DEF Inv
<1>2. CASE ReachEnd
  <2>1. ~retained /\ On("tty", "tty") /\ pipe = <<>>
    BY <1>1, <1>2 DEF ReachEnd, WriteEndOpen, On, Streams, Types
  <2> QED
    BY <1>1, <1>2, <2>1 DEF ReachEnd, Inv, Types, Redirected, Buffered, On, Reading, WithOwners,
                            ToSpill, printVars
<1>3. CASE ReadLine
  BY <1>1, <1>3 DEF ReadLine, Inv, Types, Redirected, Buffered, On, Reading, WithOwners, ToSpill,
                    printVars
<1> QED
  BY <1>2, <1>3

LEMMA InvNext == Inv /\ [Next]_vars => Inv'
<1> SUFFICES ASSUME Inv, [Next]_vars PROVE Inv'
  OBVIOUS
<1>1. ASSUME NEW w \in Threads, ThreadStep(w) PROVE Inv'
  BY <1>1, Untouched DEF ThreadStep
<1>2. CASE SpawnChild \/ ChildEnds
  BY <1>2, Untouched DEF SpawnChild, ChildEnds
<1>3. CASE UNCHANGED vars
  BY <1>3, Untouched DEF vars
<1> QED
  BY <1>1, <1>2, <1>3, PrintsInv, MainInv, ReaderInv DEF Next, Exited

(* Whichever step of the installation fails, stdout and stderr lead both    *)
(* into the pipe that is read, or both to the terminal                     *)
(* (HostCapturePipe::redirect_stdio and shutdown_pipe), and what the        *)
(* formatters write goes to the terminal (TerminalStdout).                 *)
THEOREM RedirectedTogether == Spec => []InstalledOrNot
<1>1. Inv => InstalledOrNot
  <2> SUFFICES ASSUME Inv,
                      pc \notin {"install", "terminals", "redirectOut", "redirectErr",
                                 "restoreOut", "restoreErr"}
               PROVE  \/ \A s \in Streams : fd[s] = "pipe" /\ reader = "reading" /\ retained
                      \/ \A s \in Streams : fd[s] = "tty"
    <3>1. Inv => TerminalStdout = "tty"
      BY DEF Inv, Types, Redirected, TerminalStdout, Streams
    <3> QED
      BY <3>1 DEF InstalledOrNot
  <2>1. CASE pc \in {"construct", "close", "joinReader", "attribute", "report", "exit"}
    BY <2>1 DEF Inv, Redirected, On, Streams
  <2>2. CASE pc \in {"collect"} \cup WithOwners
    BY <2>2 DEF Inv, Redirected, On, Streams, Reading
  <2>3. CASE pc = "flush"
    BY <2>3 DEF Inv, Redirected, On, Streams, Reading
  <2> QED
    BY <2>1, <2>2, <2>3 DEF Inv, Types, WithOwners
<1> QED
  BY <1>1, InvInit, InvNext, PTL DEF Spec

(* Nothing that owners print while they are there gets to the terminal of a *)
(* captured attempt, and the pipe is empty when its lines are attributed.   *)
THEOREM OwnerLinesAreKept == Spec => []OwnerLinesKept
<1>1. Inv => OwnerLinesKept
  BY DEF Inv, Buffered, OwnerLinesKept, ToSpill
<1> QED
  BY <1>1, InvInit, InvNext, PTL DEF Spec

-----------------------------------------------------------------------------
(* Results, their lines and the exit code.                                 *)

Setup    == {"install", "terminals", "redirectOut", "redirectErr", "collect", "spawn"}
Shutting == {"drop", "flush", "restoreOut", "restoreErr", "close", "joinReader", "attribute", "report"}

Configs == [nocapture : BOOLEAN, threads : 1..MaxThreads, shared : BOOLEAN,
            format : {"pretty", "json", "junit", "ctrf"}, logfile : BOOLEAN, spawn : BOOLEAN]

ThreadStates == [at : {"off", "poll", "window", "ran"}, test : Tests \cup {"none"}, failed : BOOLEAN]

Results == [test : Tests, failed : BOOLEAN, attempt : Nat, host : SUBSET Nat]

Busy(w) == th[w].at \in {"window", "ran"}

RunTypes ==
    /\ args \in Configs
    /\ left \in 0..FlakyRun
    /\ pc \notin {"construct", "exit"} => left > 0
    /\ th \in [Threads -> ThreadStates]
    /\ \A w \in Threads : Busy(w) => th[w].test \in Tests
    /\ todo \subseteq Tests
    /\ results \in Seq(Results)
    /\ windows \in Seq(Tests)
    /\ spill \in Seq(ToSet(spill))

(* Test threads exist while main joins them, and they leave when there are  *)
(* no more tests: there is one at least.                                   *)
Stages ==
    /\ pc # "join" => \A w \in Threads : th[w].at = "off"
    /\ pc \in Setup => results = <<>>
    /\ pc = "join" /\ th[1].at = "off" => todo = {}
    /\ pc \in Shutting => todo = {}

(* A test is still to be taken, in the hands of one thread, or it has one   *)
(* result.                                                                 *)
Placed ==
    /\ \A w \in Threads : Busy(w) =>
          th[w].test \notin todo /\ \A i \in DOMAIN results : results[i].test # th[w].test
    /\ \A v, w \in Threads : Busy(v) /\ Busy(w) /\ th[v].test = th[w].test => v = w
    /\ \A i \in DOMAIN results : results[i].test \notin todo
    /\ \A i, j \in DOMAIN results : results[i].test = results[j].test => i = j
    /\ pc \notin {"construct", "exit"} =>
          \A t \in Tests : \/ t \in todo
                           \/ \E w \in Threads : Busy(w) /\ th[w].test = t
                           \/ \E i \in DOMAIN results : results[i].test = t

(* Between two attempts and at the end the exit code is that of the last    *)
(* attempt, if there was one.                                              *)
Coded ==
    pc \in {"construct", "exit"} =>
        \/ pc = "construct" /\ left = FlakyRun /\ code = 101
        \/ pc = "exit" /\ FlakyRun = 0 /\ code = 101
        \/ /\ FlakyRun > 0
           /\ \A t \in Tests : \E i \in DOMAIN results : results[i].test = t
           /\ code = IF Failed THEN 101 ELSE 0
           /\ pc = "construct" => Failed
           /\ pc = "exit" /\ Failed => left = 0

(* The i-th window is the one of the i-th result.                          *)
Paired ==
    /\ Len(windows) = Len(results)
    /\ \A i \in DOMAIN results : windows[i] = results[i].test
    /\ pc = "report" /\ captured => reader = "none"
    /\ AttributedInWindow

(* What CTRF has stored are the results of this attempt so far, without    *)
(* lines of the host, and what its log holds.                              *)
Stored ==
    args.format = "ctrf" /\ pc = "join" =>
        /\ cache \in Seq(Results)
        /\ \A i \in DOMAIN cache : cache[i].host = {} /\ cache[i].attempt = left
        /\ \A i, j \in DOMAIN cache : cache[i].test = cache[j].test => i = j
        /\ {cache[i].test : i \in DOMAIN cache} =
              {results[i].test : i \in DOMAIN results}
              \cup {th[w].test : w \in {v \in Threads : th[v].at = "ran"}}
        /\ args.logfile /\ cache # <<>> => doc = cache

(* The tests a result or a thread that has announced its own is about.      *)
Reported == {results[i].test : i \in DOMAIN results}

Ran == {th[w].test : w \in {v \in Threads : th[v].at = "ran"}}

FailureRan == \E w \in Threads : th[w].at = "ran" /\ th[w].failed

TestsIn(q)  == {q[i].test : i \in DOMAIN q}
FailedIn(q) == \E i \in DOMAIN q : q[i].failed

(* Pretty and JSON have written what this attempt's threads announced.      *)
Announced ==
    args.format \in {"pretty", "json"} /\ pc \in {"join"} \cup Shutting =>
        /\ doc \in Seq(Results)
        /\ TestsIn(doc) = Reported \cup Ran
        /\ FailedIn(doc) => Failed \/ FailureRan

LogSays ==
    /\ TestsIn(doc) \ {"suite"} = Tests
    /\ args.format # "json" =>
          \A i \in DOMAIN results : results[i].failed => results[i] \in ToSet(doc)
    /\ args.format \in {"junit", "ctrf"} => Len(doc) = Cardinality(Tests)
    /\ FailedIn(doc) => code # 0

(* Between two attempts and at the end the document is about the last one,  *)
(* if there was one.                                                       *)
Logged ==
    pc \in {"construct", "exit"} =>
        \/ pc = "construct" /\ left = FlakyRun
        \/ pc = "exit" /\ FlakyRun = 0
        \/ LogSays

RunInv ==
    RunTypes /\ Stages /\ Placed /\ Coded /\ Paired /\ Stored /\ Announced /\ Logged

LEMMA FinalizedType == ASSUME NEW a \in Configs PROVE Finalized(a) \in Configs
<1>1. a.nocapture \in BOOLEAN /\ a.threads \in 1..MaxThreads /\ 1 \in 1..MaxThreads
  BY SuiteRunAssumption DEF Configs
<1> QED
  BY <1>1 DEF Finalized, Configs

LEMMA ResultType ==
    ASSUME RunTypes, NEW t \in Tests, NEW failed \in BOOLEAN
    PROVE  /\ Result(t, failed) \in Results /\ Result(t, failed).test = t
           /\ Result(t, failed).host = {} /\ Result(t, failed).attempt = left
           /\ Result(t, failed).failed = failed
<1>1. left \in Nat
  BY SuiteRunAssumption DEF RunTypes
<1> QED
  BY <1>1 DEF Result, Results

LEMMA TypesInit == Init => RunTypes
<1> SUFFICES ASSUME Init PROVE RunTypes
  OBVIOUS
<1>1. args \in Configs
  BY SuiteRunAssumption DEF Init, Configs
<1>2. left = FlakyRun /\ FlakyRun \in Nat /\ pc = "construct" /\ todo = {}
      /\ th = [w \in Threads |-> Idle]
      /\ results = <<>> /\ windows = <<>> /\ spill = <<>>
  BY SuiteRunAssumption DEF Init
<1>3. Idle \in ThreadStates /\ Idle.at = "off"
  BY DEF Idle, ThreadStates
<1>4. th \in [Threads -> ThreadStates] /\ \A w \in Threads : ~Busy(w)
  BY <1>2, <1>3 DEF Busy
<1> QED
  BY <1>1, <1>2, <1>4 DEF RunTypes

(* The states a test thread gets.                                          *)
Polling == [Idle EXCEPT !.at = "poll"]

Taking(t) == [Idle EXCEPT !.at = "window", !.test = t]

LEMMA ThreadRecords ==
    /\ Idle \in ThreadStates /\ Idle.at = "off"
    /\ Polling \in ThreadStates /\ Polling.at = "poll"
    /\ \A t \in Tests : Taking(t) \in ThreadStates /\ Taking(t).at = "window" /\ Taking(t).test = t
  BY DEF Idle, Polling, Taking, ThreadStates

LEMMA ThreadTypes ==
    ASSUME RunTypes, NEW w \in Threads, ThreadStep(w)
    PROVE  RunTypes'
<1> USE DEF captureVars, runVars, printVars
<1>1. /\ th \in [Threads -> ThreadStates] /\ todo \subseteq Tests
      /\ results \in Seq(Results) /\ windows \in Seq(Tests)
      /\ \A v \in Threads : Busy(v) => th[v].test \in Tests
  BY DEF RunTypes
<1>2. UNCHANGED <<pc, args, left, spill>>
  BY DEF ThreadStep
<1>4. ASSUME NEW x \in ThreadStates, th' = [th EXCEPT ![w] = x],
             x.at \in {"window", "ran"} => x.test \in Tests,
             todo' \subseteq todo, results' \in Seq(Results), windows' \in Seq(Tests)
      PROVE  RunTypes'
  <2>1. th' \in [Threads -> ThreadStates]
    BY <1>1, <1>4
  <2>2. \A v \in Threads : Busy(v)' => th'[v].test \in Tests
    BY <1>1, <1>4 DEF Busy
  <2> QED
    BY <1>1, <1>2, <1>4, <2>1, <2>2 DEF RunTypes
<1>5. CASE Begin(w)
  <2>1. PICK t \in todo : todo' = todo \ {t} /\ th' = [th EXCEPT ![w] = Taking(t)]
    BY <1>5 DEF Begin, Taking
  <2>2. Taking(t) \in ThreadStates /\ Taking(t).test \in Tests
    BY <1>1, ThreadRecords
  <2> QED
    BY <1>1, <1>4, <1>5, <2>1, <2>2 DEF Begin
<1>6. CASE End(w)
  <2>1. PICK failed \in BOOLEAN : th' = [th EXCEPT ![w].at = "ran", ![w].failed = failed]
    BY <1>6 DEF End
  <2>2. th[w].test \in Tests /\ th[w] \in ThreadStates
    BY <1>1, <1>6 DEF End, Busy
  <2>3. th' = [th EXCEPT ![w] = [th[w] EXCEPT !.at = "ran", !.failed = failed]]
    BY <1>1, <2>1 DEF ThreadStates
  <2>4. [th[w] EXCEPT !.at = "ran", !.failed = failed] \in ThreadStates
        /\ [th[w] EXCEPT !.at = "ran", !.failed = failed].test \in Tests
    BY <2>2 DEF ThreadStates
  <2> QED
    BY <1>1, <1>4, <1>6, <2>2, <2>3, <2>4 DEF End
<1>7. CASE Push(w)
  <2>1. th[w].test \in Tests /\ th[w].failed \in BOOLEAN
    BY <1>1, <1>7 DEF Push, Busy, ThreadStates
  <2>2. results' \in Seq(Results) /\ windows' \in Seq(Tests)
    BY <1>1, <1>7, <2>1, ResultType DEF Push
  <2> QED
    BY <1>1, <1>4, <1>7, <2>2, ThreadRecords DEF Push, Polling
<1>8. CASE Leave(w)
  BY <1>1, <1>4, <1>8, ThreadRecords DEF Leave
<1> QED
  BY <1>5, <1>6, <1>7, <1>8 DEF ThreadStep

LEMMA AttributedType ==
    ASSUME RunTypes, Attribute
    PROVE  /\ results' \in Seq(Results) /\ DOMAIN results' = DOMAIN results
           /\ Len(results') = Len(results)
           /\ \A i \in DOMAIN results :
                 /\ results'[i].test = results[i].test
                 /\ results'[i].failed = results[i].failed
                 /\ i \in DOMAIN windows =>
                       results'[i].host = {k \in DOMAIN spill : windows[i] \in spill[k].during}
<1> DEFINE lines(i) == IF i \in DOMAIN windows
                       THEN {k \in DOMAIN spill : windows[i] \in spill[k].during} ELSE {}
<1>1. results' = [i \in DOMAIN results |-> [results[i] EXCEPT !.host = lines(i)]]
  BY DEF Attribute
<1>2. results \in Seq(Results) /\ Len(results) \in Nat /\ DOMAIN results = 1..Len(results)
      /\ \A i \in DOMAIN results : results[i] \in Results
  BY DEF RunTypes
<1>3. \A i \in DOMAIN results : lines(i) \in SUBSET Nat
  BY DEF RunTypes
<1> HIDE DEF lines
<1>4. ASSUME NEW i \in DOMAIN results
      PROVE  /\ results'[i] \in Results
             /\ results'[i].test = results[i].test
             /\ results'[i].failed = results[i].failed
             /\ results'[i].host = lines(i)
  BY <1>1, <1>2, <1>3 DEF Results
<1>5. results' \in Seq(Results) /\ Len(results') = Len(results) /\ DOMAIN results' = DOMAIN results
  <2>1. results' = [i \in 1..Len(results) |-> results'[i]]
    BY <1>1, <1>2
  <2>2. results' \in Seq(Results)
    BY <1>2, <1>4, <2>1, IsASeq
  <2> QED
    BY <1>2, <2>1, <2>2
<1> QED
  BY <1>4, <1>5 DEF lines

LEMMA MainTypes ==
    ASSUME RunTypes, MainStep
    PROVE  RunTypes'
<1> USE DEF captureVars, runVars, printVars, threadVars
<1>1. /\ args \in Configs /\ left \in 0..FlakyRun /\ left \in Nat /\ FlakyRun \in Nat
      /\ pc \notin {"construct", "exit"} => left > 0
      /\ \A w \in Threads : Busy(w) => th[w].test \in Tests
      /\ th \in [Threads -> ThreadStates] /\ todo \subseteq Tests
      /\ results \in Seq(Results) /\ windows \in Seq(Tests)
      /\ spill \in Seq(ToSet(spill))
  BY SuiteRunAssumption DEF RunTypes
<1>2. CASE Construct
  <2>1. args' \in Configs /\ left > 0 /\ UNCHANGED <<th, left>> /\ todo' = Tests
        /\ results' = <<>> /\ windows' = <<>> /\ spill' = <<>>
    BY <1>1, <1>2, FinalizedType DEF Construct
  <2>2. spill' \in Seq(ToSet(spill'))
    BY <2>1, EmptySeq
  <2> QED
    BY <1>1, <2>1, <2>2, EmptySeq DEF RunTypes, Busy
<1>3. CASE SpawnThreads
  <2>1. /\ th' = [w \in Threads |-> IF w <= args.threads THEN Polling ELSE Idle]
        /\ pc = "spawn" /\ UNCHANGED <<args, left, todo, results, windows, spill>>
    BY <1>3 DEF SpawnThreads, Polling
  <2>2. th' \in [Threads -> ThreadStates] /\ \A w \in Threads : ~Busy(w)'
    BY <2>1, ThreadRecords DEF Busy
  <2> QED
    BY <1>1, <2>1, <2>2 DEF RunTypes
<1>4. CASE Attribute
  <2>1. results' \in Seq(Results)
    BY <1>4, AttributedType
  <2> QED
    BY <1>1, <1>4, <2>1 DEF Attribute, RunTypes, Busy
<1>5. CASE Report
  <2>1. /\ left' = IF Failed THEN left - 1 ELSE left
        /\ pc' \in {"construct", "exit"} /\ left > 0
        /\ UNCHANGED <<args, th, todo, results, windows, spill>>
    BY <1>1, <1>5 DEF Report
  <2>2. left' \in 0..FlakyRun
    BY <1>1, <2>1
  <2> QED
    BY <1>1, <2>1, <2>2 DEF RunTypes, Busy
<1>6. ASSUME UNCHANGED <<args, left, th, todo, results, windows, spill>>,
             pc' \in {"construct", "exit"} \/ pc \notin {"construct", "exit"}
      PROVE  RunTypes'
  BY <1>1, <1>6 DEF RunTypes, Busy
<1>7. CASE NoAttemptLeft
  BY <1>6, <1>7 DEF NoAttemptLeft
<1>8. CASE SetUpCapture \/ InstallTerminalFds \/ RedirectOut \/ RedirectErr
  BY <1>6, <1>8 DEF SetUpCapture, InstallTerminalFds, RedirectOut, RedirectErr, GiveUp
<1>9. CASE Collect \/ Join \/ DropOwners \/ Flush
  BY <1>6, <1>9 DEF Collect, Join, DropOwners, Flush
<1>10. CASE Restore("out", "restoreOut", "restoreErr") \/ Restore("err", "restoreErr", "close")
            \/ CloseWriteEnd \/ JoinReader
  BY <1>6, <1>10 DEF Restore, CloseWriteEnd, JoinReader
<1> QED
  BY <1>2, <1>3, <1>4, <1>5, <1>7, <1>8, <1>9, <1>10 DEF MainStep

LEMMA SpilledLine ==
    ASSUME RunTypes, ReadLine
    PROVE  /\ spill' \in Seq(ToSet(spill'))
           /\ DOMAIN spill \subseteq DOMAIN spill'
           /\ \A k \in DOMAIN spill : spill'[k] = spill[k]
<1>1. PICK rec : spill' = Append(spill, rec)
  BY DEF ReadLine
<1> DEFINE S == ToSet(spill) \cup {rec}
<1>2. spill \in Seq(S) /\ spill \in Seq(ToSet(spill))
  <2>1. spill \in Seq(ToSet(spill)) /\ \A i \in 1..Len(spill) : spill[i] \in S
    BY DEF RunTypes
  <2> QED
    BY <2>1, IsASeq
<1> HIDE DEF S
<1>3. rec \in S
  BY DEF S
<1>4. /\ spill' \in Seq(S) /\ Len(spill') = Len(spill) + 1 /\ spill'[Len(spill) + 1] = rec
      /\ \A k \in 1..Len(spill) : spill'[k] = spill[k]
  BY <1>1, <1>2, <1>3, AppendProperties
<1>5. DOMAIN spill' = 1..Len(spill') /\ DOMAIN spill = 1..Len(spill) /\ Len(spill) \in Nat /\ Len(spill') \in Nat
  BY <1>2, <1>4, LenProperties
<1>6. \A k \in 1..Len(spill') : spill'[k] \in ToSet(spill')
  BY <1>5 DEF ToSet
<1>7. spill' \in Seq(ToSet(spill'))
  BY <1>4, <1>5, <1>6
<1> QED
  BY <1>4, <1>5, <1>7

LEMMA TypesNext ==
    ASSUME RunTypes, [Next]_vars
    PROVE  RunTypes'
<1> USE DEF captureVars, runVars, printVars, threadVars
<1>1. ASSUME UNCHANGED <<pc, args, left, th, todo, results, windows, spill>> PROVE RunTypes'
  BY <1>1 DEF RunTypes, Busy
<1>2. CASE ReadLine
  <2>1. spill' \in Seq(ToSet(spill')) /\ UNCHANGED <<pc, args, left, th, todo, results, windows>>
    BY <1>2, SpilledLine DEF ReadLine
  <2> QED
    BY <2>1 DEF RunTypes, Busy
<1>3. CASE ReachEnd \/ SpawnChild \/ ChildEnds \/ (\E s \in Streams : Prints(s)) \/ Exited \/ UNCHANGED vars
  BY <1>1, <1>3 DEF ReachEnd, SpawnChild, ChildEnds, Prints, Exited, vars
<1> QED
  BY <1>2, <1>3, MainTypes, ThreadTypes DEF Next

-----------------------------------------------------------------------------
(* Every test has one result in the end.                                   *)

(* A step of main that starts no attempt and no threads and attributes no  *)
(* lines leaves tests and results alone.                                   *)
LEMMA MainMoves ==
    ASSUME MainStep, ~Construct, ~SpawnThreads, ~Attribute
    PROVE  /\ UNCHANGED <<args, th, todo, results, windows, spill>>
           /\ \/ pc \in Setup /\ pc' \in Setup
              \/ pc = "join" /\ pc' = "drop" /\ \A w \in Threads : th[w].at = "off"
              \/ pc \in Shutting \ {"report"} /\ pc' \in Shutting
              \/ pc = "report" /\ pc' \in {"construct", "exit"}
              \/ pc = "construct" /\ pc' = "exit"
<1> USE DEF captureVars, runVars, printVars, threadVars, Setup, Shutting
<1>1. CASE NoAttemptLeft
  BY <1>1 DEF NoAttemptLeft
<1>2. CASE SetUpCapture \/ InstallTerminalFds \/ RedirectOut \/ RedirectErr
  BY <1>2 DEF SetUpCapture, InstallTerminalFds, RedirectOut, RedirectErr, GiveUp
<1>3. CASE Collect \/ Join \/ DropOwners \/ Flush
  BY <1>3 DEF Collect, Join, DropOwners, Flush, Shutdown
<1>4. CASE Restore("out", "restoreOut", "restoreErr") \/ Restore("err", "restoreErr", "close")
           \/ CloseWriteEnd \/ JoinReader \/ Report
  BY <1>4 DEF Restore, CloseWriteEnd, JoinReader, Report
<1> QED
  BY <1>1, <1>2, <1>3, <1>4 DEF MainStep

(* What the step of a test thread does to the tests.                       *)
LEMMA ThreadMoves ==
    ASSUME RunTypes, NEW w \in Threads, ThreadStep(w)
    PROVE  /\ th[w].at # "off" /\ pc' = pc
           /\ \A v \in Threads \ {w} : th'[v] = th[v]
           /\ \/ /\ th[w].at = "poll" /\ th'[w].at = "window"
                 /\ th'[w].test \in todo /\ todo' = todo \ {th'[w].test} /\ results' = results
                 /\ windows' = windows
              \/ /\ th[w].at = "window" /\ th'[w].at = "ran" /\ th'[w].test = th[w].test
                 /\ todo' = todo /\ results' = results /\ windows' = windows
              \/ /\ th[w].at = "ran" /\ th'[w].at = "poll" /\ todo' = todo
                 /\ results' = Append(results, Result(th[w].test, th[w].failed))
                 /\ windows' = Append(windows, th[w].test)
              \/ /\ th[w].at = "poll" /\ th'[w].at = "off" /\ todo = {} /\ todo' = todo
                 /\ results' = results /\ windows' = windows
<1>1. th \in [Threads -> ThreadStates] /\ todo \subseteq Tests
  BY DEF RunTypes
<1>2. pc' = pc
  BY DEF ThreadStep
<1>3. CASE Begin(w)
  <2>1. PICK t \in todo : todo' = todo \ {t} /\ th' = [th EXCEPT ![w] = Taking(t)]
    BY <1>3 DEF Begin, Taking
  <2>2. Taking(t).at = "window" /\ Taking(t).test = t
    BY <1>1, ThreadRecords
  <2> QED
    BY <1>1, <1>2, <1>3, <2>1, <2>2 DEF Begin
<1>4. CASE End(w)
  <2>1. PICK failed \in BOOLEAN : th' = [th EXCEPT ![w].at = "ran", ![w].failed = failed]
    BY <1>4 DEF End
  <2>2. th'[w].at = "ran" /\ th'[w].test = th[w].test /\ \A v \in Threads \ {w} : th'[v] = th[v]
    BY <1>1, <2>1 DEF ThreadStates
  <2> QED
    BY <1>2, <1>4, <2>2 DEF End
<1>5. CASE Push(w)
  BY <1>1, <1>2, <1>5, ThreadRecords DEF Push, Polling
<1>6. CASE Leave(w)
  BY <1>1, <1>2, <1>6, ThreadRecords DEF Leave
<1> QED
  BY <1>3, <1>4, <1>5, <1>6 DEF ThreadStep

LEMMA StagesInit == Init => Stages
<1> SUFFICES ASSUME Init PROVE Stages
  OBVIOUS
<1>1. \A w \in Threads : th[w].at = "off"
  BY DEF Init, Idle
<1> QED
  BY <1>1 DEF Init, Stages, Setup, Shutting

LEMMA StagesNext ==
    ASSUME RunTypes, Stages, [Next]_vars
    PROVE  Stages'
<1>1. 1 \in Threads /\ args.threads \in 1..MaxThreads
  BY SuiteRunAssumption DEF Threads, RunTypes, Configs
<1>2. ASSUME UNCHANGED <<pc, th, todo, results>> PROVE Stages'
  BY <1>2 DEF Stages
<1>3. ASSUME NEW w \in Threads, ThreadStep(w) PROVE Stages'
  <2>1. /\ th[w].at # "off" /\ pc' = pc
        /\ \A v \in Threads \ {w} : th'[v] = th[v]
        /\ th'[w].at = "off" => todo = {} /\ todo' = todo
        /\ todo # {} \/ todo' = todo
    BY <1>3, ThreadMoves
  <2>2. pc = "join"
    BY <2>1 DEF Stages
  <2>3. th'[1].at = "off" => todo' = {}
    BY <1>1, <2>1, <2>2 DEF Stages
  <2> QED
    BY <2>1, <2>2, <2>3 DEF Stages, Setup, Shutting
<1>4. CASE Construct
  BY <1>4 DEF Construct, Stages, Setup, Shutting
<1>5. CASE SpawnThreads
  <2>1. th'[1].at = "poll"
    BY <1>1, <1>5, ThreadRecords DEF SpawnThreads, Polling
  <2> QED
    BY <1>5, <2>1 DEF SpawnThreads, Stages, Setup, Shutting
<1>6. CASE Attribute
  BY <1>6 DEF Attribute, Stages, Setup, Shutting
<1>7. CASE MainStep /\ ~Construct /\ ~SpawnThreads /\ ~Attribute
  BY <1>1, <1>7, MainMoves DEF Stages, Setup, Shutting
<1>8. CASE ReadLine \/ ReachEnd \/ SpawnChild \/ ChildEnds \/ (\E s \in Streams : Prints(s)) \/ Exited \/ UNCHANGED vars
  BY <1>2, <1>8 DEF ReadLine, ReachEnd, SpawnChild, ChildEnds, Prints, Exited, vars, threadVars
<1> QED
  BY <1>3, <1>4, <1>5, <1>6, <1>7, <1>8 DEF Next

LEMMA PlacedInit == Init => Placed
<1> SUFFICES ASSUME Init PROVE Placed
  OBVIOUS
<1>1. (\A w \in Threads : ~Busy(w)) /\ results = <<>> /\ pc = "construct"
  BY DEF Init, Idle, Busy
<1> QED
  BY <1>1 DEF Placed

LEMMA ThreadPlaced ==
    ASSUME RunTypes, Stages, Placed, NEW w \in Threads, ThreadStep(w)
    PROVE  Placed'
<1>1. /\ th[w].at # "off" /\ pc' = pc /\ \A v \in Threads \ {w} : th'[v] = th[v]
      /\ pc = "join"
  BY ThreadMoves DEF Stages
<1>2. \A v \in Threads \ {w} : (Busy(v)' <=> Busy(v)) /\ th'[v].test = th[v].test
  BY <1>1 DEF Busy
<1>3. CASE /\ th[w].at = "poll" /\ th'[w].at = "window"
           /\ th'[w].test \in todo /\ todo' = todo \ {th'[w].test} /\ results' = results
  <2>1. ~Busy(w) /\ Busy(w)'
    BY <1>3 DEF Busy
  <2> QED
    BY <1>1, <1>2, <1>3, <2>1 DEF Placed
<1>4. CASE /\ th[w].at = "window" /\ th'[w].at = "ran" /\ th'[w].test = th[w].test
           /\ todo' = todo /\ results' = results
  <2>1. Busy(w) /\ Busy(w)'
    BY <1>4 DEF Busy
  <2> QED
    BY <1>1, <1>2, <1>4, <2>1 DEF Placed
<1>5. CASE /\ th[w].at = "ran" /\ th'[w].at = "poll" /\ todo' = todo
           /\ results' = Append(results, Result(th[w].test, th[w].failed))
  <2>1. Busy(w) /\ ~Busy(w)' /\ th[w].test \in Tests /\ th[w].failed \in BOOLEAN
    BY <1>5 DEF Busy, RunTypes, ThreadStates
  <2>2. /\ results \in Seq(Results) /\ Result(th[w].test, th[w].failed) \in Results
        /\ Result(th[w].test, th[w].failed).test = th[w].test
    BY <2>1, ResultType DEF RunTypes
  <2>3. /\ DOMAIN results = 1..Len(results) /\ Len(results) \in Nat
        /\ DOMAIN results' = 1..Len(results) + 1
        /\ \A i \in 1..Len(results) : results'[i] = results[i]
        /\ results'[Len(results) + 1].test = th[w].test
    BY <1>5, <2>2
  <2>4. /\ \A i \in DOMAIN results : i \in DOMAIN results' /\ results'[i].test = results[i].test
        /\ Len(results) + 1 \in DOMAIN results'
        /\ \A i \in DOMAIN results' : i \in DOMAIN results \/ i = Len(results) + 1
    BY <2>3
  <2>5. \A v \in Threads : Busy(v)' =>
            th'[v].test \notin todo' /\ \A i \in DOMAIN results' : results'[i].test # th'[v].test
    <3> SUFFICES ASSUME NEW v \in Threads, Busy(v)'
                 PROVE  th'[v].test \notin todo' /\ \A i \in DOMAIN results' : results'[i].test # th'[v].test
      OBVIOUS
    <3>1. v # w /\ Busy(v) /\ th'[v].test = th[v].test /\ th[v].test # th[w].test
      BY <1>2, <2>1 DEF Placed
    <3> QED
      BY <1>5, <2>1, <2>3, <2>4, <3>1 DEF Placed
  <2>6. \A v, u \in Threads : Busy(v)' /\ Busy(u)' /\ th'[v].test = th'[u].test => v = u
    BY <1>2, <2>1 DEF Placed
  <2>7. \A i \in DOMAIN results' : results'[i].test \notin todo'
    BY <1>5, <2>1, <2>3, <2>4 DEF Placed
  <2>8. \A i, j \in DOMAIN results' : results'[i].test = results'[j].test => i = j
    BY <2>1, <2>3, <2>4 DEF Placed
  <2>9. \A t \in Tests : \/ t \in todo'
                         \/ \E v \in Threads : Busy(v)' /\ th'[v].test = t
                         \/ \E i \in DOMAIN results' : results'[i].test = t
    <3> SUFFICES ASSUME NEW t \in Tests, t \notin todo', ~ \E v \in Threads : Busy(v)' /\ th'[v].test = t
                 PROVE  \E i \in DOMAIN results' : results'[i].test = t
      OBVIOUS
    <3>1. (\E v \in Threads : Busy(v) /\ th[v].test = t) \/ \E i \in DOMAIN results : results[i].test = t
      BY <1>1, <1>5 DEF Placed
    <3>2. (\E v \in Threads : Busy(v) /\ th[v].test = t) => t = th[w].test
      BY <1>2
    <3> QED
      BY <2>3, <2>4, <3>1, <3>2
  <2> QED
    BY <2>5, <2>6, <2>7, <2>8, <2>9 DEF Placed
<1>6. CASE /\ th[w].at = "poll" /\ th'[w].at = "off" /\ todo' = todo /\ results' = results
  <2>1. ~Busy(w) /\ ~Busy(w)'
    BY <1>6 DEF Busy
  <2> QED
    BY <1>1, <1>2, <1>6, <2>1 DEF Placed
<1> QED
  BY <1>3, <1>4, <1>5, <1>6, ThreadMoves

LEMMA PlacedNext ==
    ASSUME RunTypes, Stages, Placed, [Next]_vars
    PROVE  Placed'
<1>1. ASSUME UNCHANGED <<th, todo, results>>,
             pc \notin {"construct", "exit"} \/ pc' \in {"construct", "exit"}
      PROVE  Placed'
  BY <1>1 DEF Placed, Busy
<1>2. pc # "join" => \A w \in Threads : ~Busy(w)
  BY DEF Stages, Busy
<1>3. CASE Construct
  <2>1. todo' = Tests /\ results' = <<>> /\ th' = th /\ pc # "join"
    BY <1>3 DEF Construct
  <2>2. \A w \in Threads : ~Busy(w)'
    BY <1>2, <2>1 DEF Busy
  <2> QED
    BY <2>1, <2>2 DEF Placed
<1>4. CASE SpawnThreads
  <2>1. pc = "spawn" /\ UNCHANGED <<todo, results>> /\ pc' = "join"
    BY <1>4 DEF SpawnThreads
  <2>2. \A w \in Threads : th'[w].at \in {"off", "poll"}
    BY <1>4, ThreadRecords DEF SpawnThreads, Polling
  <2>3. \A w \in Threads : ~Busy(w)'
    BY <2>2 DEF Busy
  <2> QED
    BY <1>2, <2>1, <2>3 DEF Placed
<1>5. CASE Attribute
  <2>1. DOMAIN results' = DOMAIN results /\ \A i \in DOMAIN results : results'[i].test = results[i].test
    BY <1>5, AttributedType
  <2>2. UNCHANGED <<th, todo>> /\ pc = "attribute"
    BY <1>5 DEF Attribute
  <2>3. \A w \in Threads : Busy(w)' <=> Busy(w)
    BY <2>2 DEF Busy
  <2> QED
    BY <2>1, <2>2, <2>3 DEF Placed
<1>6. CASE MainStep /\ ~Construct /\ ~SpawnThreads /\ ~Attribute
  BY <1>1, <1>6, MainMoves DEF Setup, Shutting
<1>7. CASE ReadLine \/ ReachEnd \/ SpawnChild \/ ChildEnds \/ (\E s \in Streams : Prints(s)) \/ Exited \/ UNCHANGED vars
  BY <1>1, <1>7 DEF ReadLine, ReachEnd, SpawnChild, ChildEnds, Prints, Exited, vars, threadVars
<1> QED
  BY <1>3, <1>4, <1>5, <1>6, <1>7, ThreadPlaced DEF Next


LEMMA CodedInit == Init => Coded
<1> SUFFICES ASSUME Init PROVE Coded
  OBVIOUS
<1>1. pc = "construct" /\ left = FlakyRun /\ code = 101
  BY DEF Init
<1> QED
  BY <1>1 DEF Coded

LEMMA CodedNext ==
    ASSUME RunTypes, Stages, Placed, Coded, [Next]_vars
    PROVE  Coded'
<1> USE DEF runVars, threadVars, captureVars, printVars
<1>1. ASSUME pc' \notin {"construct", "exit"} PROVE Coded'
  BY <1>1 DEF Coded
<1>2. ASSUME UNCHANGED <<pc, left, code, results>> PROVE Coded'
  BY <1>2 DEF Coded, Failed
<1>3. CASE Construct
  BY <1>1, <1>3 DEF Construct
<1>4. CASE NoAttemptLeft
  <2>1. pc = "construct" /\ left = 0 /\ pc' = "exit" /\ UNCHANGED <<left, code, results>>
    BY <1>4 DEF NoAttemptLeft
  <2>2. Failed' <=> Failed
    BY <2>1 DEF Failed
  <2> QED
    BY <2>1, <2>2 DEF Coded
<1>5. CASE Report
  <2>1. /\ pc = "report" /\ results' = results /\ pc' = IF Failed THEN "construct" ELSE "exit"
        /\ code' = IF Failed THEN 101 ELSE 0
    BY <1>5 DEF Report
  <2>2. Failed' <=> Failed
    BY <2>1 DEF Failed
  <2>3. FlakyRun > 0
    BY <2>1, SuiteRunAssumption DEF RunTypes
  <2>4. todo = {} /\ \A w \in Threads : ~Busy(w)
    BY <2>1 DEF Stages, Shutting, Busy
  <2>5. \A t \in Tests : \E i \in DOMAIN results' : results'[i].test = t
    BY <2>1, <2>4 DEF Placed
  <2> QED
    BY <2>1, <2>2, <2>3, <2>5 DEF Coded
<1>6. CASE MainStep /\ ~Construct /\ ~NoAttemptLeft /\ ~Report
  <2>1. CASE SetUpCapture \/ InstallTerminalFds \/ RedirectOut \/ RedirectErr
    BY <1>1, <2>1 DEF SetUpCapture, InstallTerminalFds, RedirectOut, RedirectErr, GiveUp
  <2>2. CASE Collect \/ SpawnThreads \/ Join \/ DropOwners \/ Flush
    BY <1>1, <2>2 DEF Collect, SpawnThreads, Join, DropOwners, Flush, Shutdown
  <2>3. CASE Restore("out", "restoreOut", "restoreErr") \/ Restore("err", "restoreErr", "close")
             \/ CloseWriteEnd \/ JoinReader \/ Attribute
    BY <1>1, <2>3 DEF Restore, CloseWriteEnd, JoinReader, Attribute
  <2> QED
    BY <1>6, <2>1, <2>2, <2>3 DEF MainStep
<1>7. ASSUME NEW w \in Threads, ThreadStep(w) PROVE Coded'
  <2>1. pc' = pc /\ pc = "join"
    BY <1>7, ThreadMoves DEF Stages
  <2> QED
    BY <1>1, <2>1
<1>8. CASE ReadLine \/ ReachEnd \/ SpawnChild \/ ChildEnds \/ (\E s \in Streams : Prints(s)) \/ Exited \/ UNCHANGED vars
  BY <1>2, <1>8 DEF ReadLine, ReachEnd, SpawnChild, ChildEnds, Prints, Exited, vars
<1> QED
  BY <1>3, <1>4, <1>5, <1>6, <1>7, <1>8 DEF Next

LEMMA ResultFields ==
    ASSUME RunTypes
    PROVE  /\ Len(results) \in Nat /\ DOMAIN results = 1..Len(results)
           /\ \A i \in DOMAIN results : results[i].test \in Tests /\ results[i].failed \in BOOLEAN
<1>1. /\ results \in Seq(Results) /\ Len(results) \in Nat /\ DOMAIN results = 1..Len(results)
      /\ \A i \in DOMAIN results : results[i] \in Results
  BY DEF RunTypes
<1> QED
  BY <1>1 DEF Results

(* The results are as many as the tests when each test has one.            *)
LEMMA OneResultEach ==
    ASSUME RunTypes, Placed, \A t \in Tests : \E i \in DOMAIN results : results[i].test = t
    PROVE  /\ {results[i].test : i \in DOMAIN results} = Tests
           /\ Len(results) = Cardinality(Tests)
<1>1. /\ Len(results) \in Nat /\ DOMAIN results = 1..Len(results)
      /\ \A i \in DOMAIN results : results[i].test \in Tests
  BY ResultFields
<1>2. \A i, j \in DOMAIN results : results[i].test = results[j].test => i = j
  BY DEF Placed
<1> DEFINE f == [i \in 1..Len(results) |-> results[i].test]
<1>3. f \in Bijection(1..Len(results), Tests)
  <2>1. f \in [1..Len(results) -> Tests]
    BY <1>1
  <2>2. \A i, j \in 1..Len(results) : f[i] = f[j] => i = j
    BY <1>1, <1>2
  <2>3. \A t \in Tests : \E i \in 1..Len(results) : f[i] = t
    BY <1>1
  <2> QED
    BY <2>1, <2>2, <2>3 DEF Bijection, Injection, Surjection, IsInjective
<1>4. Cardinality(Tests) = Len(results)
  BY <1>1, <1>3, FS_CountingElements DEF ExistsBijection
<1> QED
  BY <1>1, <1>4

-----------------------------------------------------------------------------
(* The lines of a result.                                                  *)

LEMMA PairedInit == Init => Paired
<1> SUFFICES ASSUME Init PROVE Paired
  OBVIOUS
<1>1. results = <<>> /\ windows = <<>> /\ pc = "construct"
  BY DEF Init
<1> QED
  BY <1>1 DEF Paired, AttributedInWindow

(* main reaches the report of a captured attempt through Attribute only.   *)
LEMMA ReportsAttributed ==
    ASSUME MainStep, ~Attribute, pc' = "report"
    PROVE  ~captured'
<1> USE DEF captureVars
<1>1. CASE Construct \/ NoAttemptLeft \/ SpawnThreads
  BY <1>1 DEF Construct, NoAttemptLeft, SpawnThreads
<1>2. CASE SetUpCapture \/ InstallTerminalFds \/ RedirectOut \/ RedirectErr
  BY <1>2 DEF SetUpCapture, InstallTerminalFds, RedirectOut, RedirectErr, GiveUp
<1>3. CASE Collect \/ Join \/ DropOwners \/ Flush
  BY <1>3 DEF Collect, Join, DropOwners, Flush, Shutdown
<1>4. CASE Restore("out", "restoreOut", "restoreErr") \/ Restore("err", "restoreErr", "close")
           \/ CloseWriteEnd \/ JoinReader \/ Report
  BY <1>4 DEF Restore, CloseWriteEnd, JoinReader, Report
<1> QED
  BY <1>1, <1>2, <1>3, <1>4 DEF MainStep

LEMMA AttributePaired ==
    ASSUME Inv, RunTypes, Paired, Attribute
    PROVE  Paired'
<1>1. /\ UNCHANGED <<windows, spill, captured, reader>> /\ pc = "attribute"
  BY DEF Attribute, captureVars
<1>2. /\ DOMAIN results' = DOMAIN results /\ Len(results') = Len(results)
      /\ \A i \in DOMAIN results :
            /\ results'[i].test = results[i].test
            /\ i \in DOMAIN windows =>
                  results'[i].host = {k \in DOMAIN spill : windows[i] \in spill[k].during}
  BY AttributedType
<1>3. DOMAIN windows = DOMAIN results
  BY DEF Paired, RunTypes
<1>4. reader' = "none"
  BY <1>1 DEF Inv, Buffered
<1>5. ASSUME NEW i \in DOMAIN results'
      PROVE  results'[i].host = {k \in DOMAIN spill : results'[i].test \in spill[k].during}
             /\ windows'[i] = results'[i].test
  BY <1>1, <1>2, <1>3 DEF Paired
<1>6. AttributedInWindow'
  BY <1>1, <1>5 DEF AttributedInWindow
<1> QED
  BY <1>1, <1>2, <1>4, <1>5, <1>6 DEF Paired

LEMMA ThreadPaired ==
    ASSUME RunTypes, Stages, Paired, NEW w \in Threads, ThreadStep(w)
    PROVE  Paired'
<1>1. UNCHANGED <<pc, spill, captured, reader>> /\ pc = "join"
  BY ThreadMoves DEF ThreadStep, captureVars, Stages
<1>2. CASE UNCHANGED <<results, windows>>
  BY <1>1, <1>2 DEF Paired, AttributedInWindow
<1>3. CASE /\ th[w].at = "ran"
           /\ results' = Append(results, Result(th[w].test, th[w].failed))
           /\ windows' = Append(windows, th[w].test)
  <2>1. th[w].test \in Tests /\ th[w].failed \in BOOLEAN
    BY <1>3 DEF Busy, RunTypes, ThreadStates
  <2>2. /\ results \in Seq(Results) /\ Result(th[w].test, th[w].failed) \in Results
        /\ Result(th[w].test, th[w].failed).test = th[w].test
        /\ Result(th[w].test, th[w].failed).host = {}
        /\ windows \in Seq(Tests)
    BY <2>1, ResultType DEF RunTypes
  <2>3. Len(results) \in Nat /\ Len(windows) = Len(results) /\ DOMAIN results = 1..Len(results)
    BY <2>2 DEF Paired
  <2>4. /\ Len(results') = Len(results) + 1 /\ DOMAIN results' = 1..Len(results) + 1
        /\ \A i \in 1..Len(results) : results'[i] = results[i]
        /\ results'[Len(results) + 1].test = th[w].test
        /\ results'[Len(results) + 1].host = {}
    BY <1>3, <2>2
  <2>5. /\ Len(windows') = Len(windows) + 1
        /\ \A i \in 1..Len(windows) : windows'[i] = windows[i]
        /\ windows'[Len(windows) + 1] = th[w].test
    BY <1>3, <2>1, <2>2
  <2>6. \A i \in DOMAIN results' : i \in DOMAIN results \/ i = Len(results) + 1
    BY <2>3, <2>4
  <2>7. AttributedInWindow'
    BY <1>1, <2>3, <2>4, <2>6 DEF Paired, AttributedInWindow
  <2>8. \A i \in DOMAIN results' : windows'[i] = results'[i].test
    BY <2>3, <2>4, <2>5, <2>6 DEF Paired
  <2> QED
    BY <1>1, <2>3, <2>4, <2>5, <2>7, <2>8 DEF Paired
<1> QED
  BY <1>2, <1>3, ThreadMoves

LEMMA PairedNext ==
    ASSUME Inv, RunTypes, Stages, Paired, [Next]_vars
    PROVE  Paired'
<1> USE DEF captureVars, threadVars
<1>1. ASSUME UNCHANGED <<results, windows, spill>>, ~(pc' = "report" /\ captured')
      PROVE  Paired'
  BY <1>1 DEF Paired, AttributedInWindow
<1>2. ASSUME UNCHANGED <<results, windows, spill, pc, captured, reader>> PROVE Paired'
  BY <1>2 DEF Paired, AttributedInWindow
<1>3. CASE Construct
  <2>1. results' = <<>> /\ windows' = <<>> /\ pc' # "report"
    BY <1>3 DEF Construct
  <2> QED
    BY <2>1 DEF Paired, AttributedInWindow
<1>4. CASE SpawnThreads
  BY <1>1, <1>4 DEF SpawnThreads
<1>5. CASE MainStep /\ ~Construct /\ ~SpawnThreads /\ ~Attribute
  <2>1. UNCHANGED <<results, windows, spill>>
    BY <1>5, MainMoves
  <2>2. ~(pc' = "report" /\ captured')
    BY <1>5, ReportsAttributed
  <2> QED
    BY <1>1, <2>1, <2>2
<1>6. CASE ReadLine
  <2>1. UNCHANGED <<results, windows, pc, captured, reader>> /\ reader = "reading"
    BY <1>6 DEF ReadLine
  <2>2. ~(pc = "report" /\ captured)
    BY <2>1 DEF Paired
  <2>3. AttributedInWindow'
    <3>1. /\ DOMAIN spill \subseteq DOMAIN spill'
          /\ \A k \in DOMAIN spill : spill'[k] = spill[k]
      BY <1>6, SpilledLine
    <3> QED
      BY <2>1, <2>2, <3>1 DEF Paired, AttributedInWindow
  <2> QED
    BY <2>1, <2>2, <2>3 DEF Paired
<1>7. CASE ReachEnd
  <2>1. UNCHANGED <<results, windows, spill, pc, captured>> /\ reader = "reading"
    BY <1>7 DEF ReachEnd
  <2>2. ~(pc = "report" /\ captured)
    BY <2>1 DEF Paired
  <2> QED
    BY <1>1, <2>1, <2>2
<1>8. CASE SpawnChild \/ ChildEnds \/ (\E s \in Streams : Prints(s)) \/ Exited \/ UNCHANGED vars
  BY <1>2, <1>8 DEF SpawnChild, ChildEnds, Prints, Exited, vars
<1> QED
  BY <1>3, <1>4, <1>5, <1>6, <1>7, <1>8, AttributePaired, ThreadPaired DEF Next

-----------------------------------------------------------------------------
(* The log that CTRF keeps while tests run.                                *)

LEMMA StoredInit == Init => Stored
<1> SUFFICES ASSUME Init PROVE Stored
  OBVIOUS
<1>1. pc = "construct"
  BY DEF Init
<1> QED
  BY <1>1 DEF Stored

(* The entry that CTRF stores for a result.                                *)
LEMMA ShownEntry ==
    ASSUME NEW r \in Results, r.host = {}
    PROVE  Shown(<<r>>)[1] = r
<1>1. Shown(<<r>>)[1] = [r EXCEPT !.host = IF r.failed THEN @ ELSE {}]
  BY DEF Shown
<1>2. [r EXCEPT !.host = IF r.failed THEN @ ELSE {}] = [r EXCEPT !.host = {}]
  BY DEF Results
<1>3. [r EXCEPT !.host = {}] = r
  BY DEF Results
<1> QED
  BY <1>1, <1>2, <1>3

LEMMA ThreadStored ==
    ASSUME RunTypes, Stages, Placed, Stored, NEW w \in Threads, ThreadStep(w)
    PROVE  Stored'
<1>1. UNCHANGED <<pc, args, left>> /\ pc = "join" /\ th \in [Threads -> ThreadStates]
      /\ \A v \in Threads \ {w} : th'[v] = th[v]
  BY ThreadMoves DEF ThreadStep, runVars, Stages, RunTypes
<1> SUFFICES ASSUME args.format = "ctrf" PROVE Stored'
  BY <1>1 DEF Stored
<1>2. /\ cache \in Seq(Results)
      /\ \A i \in DOMAIN cache : cache[i].host = {} /\ cache[i].attempt = left
      /\ \A i, j \in DOMAIN cache : cache[i].test = cache[j].test => i = j
      /\ {cache[i].test : i \in DOMAIN cache} = Reported \cup Ran
      /\ args.logfile /\ cache # <<>> => doc = cache
  BY <1>1 DEF Stored, Reported, Ran
<1>3. ASSUME UNCHANGED <<cache, doc>>, (Reported \cup Ran)' = Reported \cup Ran
      PROVE  Stored'
  BY <1>1, <1>2, <1>3 DEF Stored, Reported, Ran
<1>4. CASE Begin(w) \/ Leave(w)
  <2>1. /\ UNCHANGED <<cache, doc, results>> /\ th[w].at # "ran" /\ th'[w].at # "ran"
    <3>1. UNCHANGED <<cache, doc, results>> /\ th[w].at = "poll"
      BY <1>4 DEF Begin, Leave, reportVars
    <3> QED
      BY <3>1, ThreadMoves
  <2>2. Reported' = Reported
    BY <2>1 DEF Reported
  <2>3. Ran' = Ran
    BY <1>1, <2>1 DEF Ran
  <2> QED
    BY <1>3, <2>1, <2>2, <2>3
<1>5. CASE Push(w)
  <2>1. /\ UNCHANGED <<cache, doc>> /\ th[w].at = "ran"
        /\ results' = Append(results, Result(th[w].test, th[w].failed))
    BY <1>5 DEF Push, reportVars
  <2>2. th'[w].at = "poll"
    BY <2>1, ThreadMoves
  <2>3. th[w].test \in Tests /\ th[w].failed \in BOOLEAN
    BY <1>1, <2>1 DEF Busy, RunTypes, ThreadStates
  <2>4. /\ results \in Seq(Results) /\ Result(th[w].test, th[w].failed) \in Results
        /\ Result(th[w].test, th[w].failed).test = th[w].test
    BY <2>3, ResultType DEF RunTypes
  <2>5. /\ Len(results) \in Nat /\ DOMAIN results = 1..Len(results)
        /\ DOMAIN results' = 1..Len(results) + 1
        /\ \A i \in 1..Len(results) : results'[i] = results[i]
        /\ results'[Len(results) + 1].test = th[w].test
    BY <2>1, <2>4
  <2>6. /\ \A i \in DOMAIN results : i \in DOMAIN results' /\ results'[i] = results[i]
        /\ Len(results) + 1 \in DOMAIN results'
        /\ \A i \in DOMAIN results' : i \in DOMAIN results \/ i = Len(results) + 1
    BY <2>5
  <2>7. Reported' = Reported \cup {th[w].test}
    BY <2>5, <2>6 DEF Reported
  <2>8. Ran = Ran' \cup {th[w].test}
    BY <1>1, <2>1, <2>2 DEF Ran
  <2> QED
    BY <1>3, <2>1, <2>7, <2>8
<1>6. CASE End(w)
  <2>1. PICK failed \in BOOLEAN :
           /\ th' = [th EXCEPT ![w].at = "ran", ![w].failed = failed]
           /\ FinishedRunningTest(Result(th[w].test, failed))
    BY <1>6 DEF End
  <2> DEFINE r == Result(th[w].test, failed)
  <2>2. th[w].at = "window" /\ results' = results /\ th'[w].at = "ran" /\ th'[w].test = th[w].test
    BY <1>6, ThreadMoves DEF End
  <2>3. Busy(w) /\ th[w].test \in Tests
    BY <2>2 DEF Busy, RunTypes
  <2>4. /\ r \in Results /\ r.test = th[w].test /\ r.host = {} /\ r.attempt = left
    BY <2>3, ResultType
  <2>5. cache' = Append(cache, Shown(<<r>>)[1]) /\ doc' = IF args.logfile THEN cache' ELSE doc
    BY <2>1 DEF FinishedRunningTest, CtrfAnnounces, CtrfSnapshot, Writes
  <2>6. cache' = Append(cache, r)
    BY <2>4, <2>5, ShownEntry
  <2> HIDE DEF r
  <2>7. /\ cache' \in Seq(Results) /\ Len(cache) \in Nat /\ DOMAIN cache = 1..Len(cache)
        /\ DOMAIN cache' = 1..Len(cache) + 1
        /\ \A i \in 1..Len(cache) : cache'[i] = cache[i]
        /\ cache'[Len(cache) + 1] = r
    BY <1>2, <2>4, <2>6
  <2>8. /\ \A i \in DOMAIN cache : i \in DOMAIN cache' /\ cache'[i] = cache[i]
        /\ Len(cache) + 1 \in DOMAIN cache'
        /\ \A i \in DOMAIN cache' : i \in DOMAIN cache \/ i = Len(cache) + 1
    BY <2>7
  <2>9. th[w].test \notin Reported \cup Ran
    <3>1. th[w].test \notin Reported
      BY <2>3 DEF Placed, Reported
    <3>2. \A v \in Threads : th[v].at = "ran" => Busy(v) /\ v # w
      BY <2>2 DEF Busy
    <3>3. \A v \in Threads : th[v].at = "ran" => th[v].test # th[w].test
      BY <2>3, <3>2 DEF Placed
    <3> QED
      BY <3>1, <3>3 DEF Ran
  <2>10. \A i \in DOMAIN cache : cache[i].test # th[w].test
    BY <1>2, <2>9
  <2>11. \A i, j \in DOMAIN cache' : cache'[i].test = cache'[j].test => i = j
    BY <1>2, <2>4, <2>7, <2>8, <2>10
  <2>12. Reported' = Reported /\ Ran' = Ran \cup {th[w].test}
    <3>1. Reported' = Reported
      BY <2>2 DEF Reported
    <3>2. Ran' = Ran \cup {th[w].test}
      BY <1>1, <2>2 DEF Ran
    <3> QED
      BY <3>1, <3>2
  <2>13. {cache'[i].test : i \in DOMAIN cache'} = {cache[i].test : i \in DOMAIN cache} \cup {th[w].test}
    BY <2>4, <2>7, <2>8
  <2>14. {cache'[i].test : i \in DOMAIN cache'} = Reported' \cup Ran'
    BY <1>2, <2>12, <2>13
  <2>15. \A i \in DOMAIN cache' : cache'[i].host = {} /\ cache'[i].attempt = left'
    BY <1>1, <1>2, <2>4, <2>7, <2>8
  <2>16. args'.logfile => doc' = cache'
    BY <1>1, <2>5
  <2> QED
    BY <2>7, <2>11, <2>14, <2>15, <2>16 DEF Stored, Reported, Ran
<1> QED
  BY <1>4, <1>5, <1>6 DEF ThreadStep

LEMMA StoredNext ==
    ASSUME RunTypes, Stages, Placed, Stored, [Next]_vars
    PROVE  Stored'
<1> USE DEF runVars, threadVars, reportVars
<1>1. ASSUME pc' # "join" PROVE Stored'
  BY <1>1 DEF Stored
<1>2. ASSUME UNCHANGED <<pc, args, left, th, results, cache, doc>> PROVE Stored'
  <2>1. Reported' = Reported /\ Ran' = Ran
    BY <1>2 DEF Reported, Ran
  <2>2. UNCHANGED pc /\ UNCHANGED args /\ UNCHANGED left /\ UNCHANGED cache /\ UNCHANGED doc
    BY <1>2
  <2>3. CASE args.format = "ctrf" /\ pc = "join"
    <3>1. /\ cache \in Seq(Results)
          /\ \A i \in DOMAIN cache : cache[i].host = {} /\ cache[i].attempt = left
          /\ \A i, j \in DOMAIN cache : cache[i].test = cache[j].test => i = j
          /\ args.logfile /\ cache # <<>> => doc = cache
      BY <2>3 DEF Stored
    <3>2. {cache[i].test : i \in DOMAIN cache} = Reported \cup Ran
      BY <2>3 DEF Stored, Reported, Ran
    <3>3. {cache'[i].test : i \in DOMAIN cache'} = Reported' \cup Ran'
      BY <2>1, <2>2, <3>2
    <3> QED
      BY <2>2, <3>1, <3>3 DEF Stored, Reported, Ran
  <2>4. CASE ~(args.format = "ctrf" /\ pc = "join")
    BY <2>2, <2>4 DEF Stored
  <2> QED
    BY <2>3, <2>4
<1>3. CASE Construct \/ Attribute
  BY <1>1, <1>3 DEF Construct, Attribute
<1>4. CASE SpawnThreads
  <2>1. results' = <<>> /\ UNCHANGED <<args, left>> /\ StartSuite
    BY <1>4 DEF SpawnThreads, Stages, Setup
  <2>2. \A w \in Threads : th'[w].at \in {"off", "poll"}
    BY <1>4, ThreadRecords DEF SpawnThreads, Polling
  <2>3. args.format = "ctrf" => cache' = <<>>
    BY <2>1 DEF StartSuite, CtrfStarts
  <2>4. /\ {results'[i].test : i \in DOMAIN results'} = {}
        /\ {th'[w].test : w \in {v \in Threads : th'[v].at = "ran"}} = {}
    BY <2>1, <2>2
  <2>5. ASSUME cache' = <<>>
        PROVE  cache' \in Seq(Results) /\ DOMAIN cache' = {} /\ {cache'[i].test : i \in DOMAIN cache'} = {}
    BY <2>5
  <2> QED
    BY <2>1, <2>3, <2>4, <2>5 DEF Stored
<1>5. CASE MainStep /\ ~Construct /\ ~SpawnThreads /\ ~Attribute
  BY <1>1, <1>5, MainMoves DEF Setup, Shutting
<1>6. CASE ReadLine \/ ReachEnd \/ SpawnChild \/ ChildEnds \/ (\E s \in Streams : Prints(s)) \/ Exited \/ UNCHANGED vars
  BY <1>2, <1>6 DEF ReadLine, ReachEnd, SpawnChild, ChildEnds, Prints, Exited, vars
<1> QED
  BY <1>3, <1>4, <1>5, <1>6, ThreadStored DEF Next

-----------------------------------------------------------------------------
(* What is written about the last attempt.                                 *)

LEMMA LoggedInit == Init => Announced /\ Logged
<1> SUFFICES ASSUME Init PROVE Announced /\ Logged
  OBVIOUS
<1>1. pc = "construct" /\ left = FlakyRun
  BY DEF Init
<1> QED
  BY <1>1 DEF Announced, Logged, Shutting

(* The document with one more entry.                                       *)
LEMMA OneMoreEntry ==
    ASSUME NEW q \in Seq(Results), NEW r \in Results
    PROVE  /\ Append(q, r) \in Seq(Results)
           /\ TestsIn(Append(q, r)) = TestsIn(q) \cup {r.test}
           /\ FailedIn(Append(q, r)) <=> FailedIn(q) \/ r.failed
<1>1. /\ Append(q, r) \in Seq(Results) /\ Len(q) \in Nat /\ DOMAIN q = 1..Len(q)
      /\ DOMAIN Append(q, r) = 1..Len(q) + 1
      /\ \A i \in 1..Len(q) : Append(q, r)[i] = q[i]
      /\ Append(q, r)[Len(q) + 1] = r
  OBVIOUS
<1>2. /\ \A i \in DOMAIN q : i \in DOMAIN Append(q, r) /\ Append(q, r)[i] = q[i]
      /\ Len(q) + 1 \in DOMAIN Append(q, r)
      /\ \A i \in DOMAIN Append(q, r) : i \in DOMAIN q \/ i = Len(q) + 1
  BY <1>1
<1> QED
  BY <1>1, <1>2 DEF TestsIn, FailedIn

LEMMA ThreadAnnounced ==
    ASSUME RunTypes, Stages, Announced, NEW w \in Threads, ThreadStep(w)
    PROVE  Announced'
<1>1. UNCHANGED <<pc, args, left>> /\ pc = "join" /\ th \in [Threads -> ThreadStates]
      /\ \A v \in Threads \ {w} : th'[v] = th[v]
  BY ThreadMoves DEF ThreadStep, runVars, Stages, RunTypes
<1> SUFFICES ASSUME args.format \in {"pretty", "json"} PROVE Announced'
  BY <1>1 DEF Announced
<1>2. /\ doc \in Seq(Results) /\ TestsIn(doc) = Reported \cup Ran
      /\ FailedIn(doc) => Failed \/ FailureRan
  BY <1>1 DEF Announced
<1>3. ASSUME doc' \in Seq(Results), TestsIn(doc)' = Reported' \cup Ran',
             FailedIn(doc)' => Failed' \/ FailureRan'
      PROVE  Announced'
  BY <1>3 DEF Announced
<1>4. CASE Begin(w) \/ Leave(w)
  <2>1. /\ UNCHANGED <<doc, results>> /\ th[w].at # "ran" /\ th'[w].at # "ran"
    <3>1. UNCHANGED <<doc, results>> /\ th[w].at = "poll"
      BY <1>4 DEF Begin, Leave, reportVars
    <3> QED
      BY <3>1, ThreadMoves
  <2>2. Reported' = Reported /\ (Failed' <=> Failed)
    BY <2>1 DEF Reported, Failed
  <2>3. Ran' = Ran /\ (FailureRan' <=> FailureRan)
    <3>1. \A v \in Threads : (th'[v].at = "ran" <=> th[v].at = "ran")
                             /\ (th[v].at = "ran" => th'[v] = th[v])
      BY <1>1, <2>1
    <3>2. Ran' = Ran
      BY <3>1 DEF Ran
    <3>3. FailureRan' <=> FailureRan
      BY <3>1 DEF FailureRan
    <3> QED
      BY <3>2, <3>3
  <2>4. TestsIn(doc)' = TestsIn(doc) /\ FailedIn(doc)' = FailedIn(doc)
    BY <2>1
  <2> QED
    BY <1>2, <1>3, <2>1, <2>2, <2>3, <2>4
<1>5. CASE Push(w)
  <2>1. /\ UNCHANGED doc /\ th[w].at = "ran"
        /\ results' = Append(results, Result(th[w].test, th[w].failed))
    BY <1>5 DEF Push, reportVars
  <2>2. th'[w].at = "poll"
    BY <2>1, ThreadMoves
  <2>3. th[w].test \in Tests /\ th[w].failed \in BOOLEAN
    BY <1>1, <2>1 DEF Busy, RunTypes, ThreadStates
  <2>4. /\ results \in Seq(Results) /\ Result(th[w].test, th[w].failed) \in Results
        /\ Result(th[w].test, th[w].failed).test = th[w].test
        /\ Result(th[w].test, th[w].failed).failed = th[w].failed
    BY <2>3, ResultType DEF RunTypes
  <2>5. /\ TestsIn(results') = TestsIn(results) \cup {th[w].test}
        /\ FailedIn(results') <=> FailedIn(results) \/ th[w].failed
    BY <2>1, <2>4, OneMoreEntry
  <2>6. Reported' = Reported \cup {th[w].test} /\ (Failed' <=> Failed \/ th[w].failed)
    BY <2>5 DEF Reported, Failed, TestsIn, FailedIn
  <2>7. Ran = Ran' \cup {th[w].test} /\ (FailureRan => FailureRan' \/ th[w].failed)
    <3>1. Ran = Ran' \cup {th[w].test}
      BY <1>1, <2>1, <2>2 DEF Ran
    <3>2. FailureRan => FailureRan' \/ th[w].failed
      BY <1>1 DEF FailureRan
    <3> QED
      BY <3>1, <3>2
  <2>8. TestsIn(doc)' = TestsIn(doc) /\ FailedIn(doc)' = FailedIn(doc)
    BY <2>1
  <2> QED
    BY <1>2, <1>3, <2>1, <2>6, <2>7, <2>8
<1>6. CASE End(w)
  <2>1. PICK failed \in BOOLEAN :
           /\ th' = [th EXCEPT ![w].at = "ran", ![w].failed = failed]
           /\ FinishedRunningTest(Result(th[w].test, failed))
    BY <1>6 DEF End
  <2>2. th[w].at = "window" /\ results' = results /\ th'[w].at = "ran" /\ th'[w].test = th[w].test
    BY <1>6, ThreadMoves DEF End
  <2>3. th'[w].failed = failed
    BY <1>1, <2>1 DEF ThreadStates
  <2>4. Busy(w) /\ th[w].test \in Tests
    BY <2>2 DEF Busy, RunTypes
  <2>5. PICK r \in Results : r = Result(th[w].test, failed) /\ r.test = th[w].test /\ r.failed = failed
    BY <2>4, ResultType
  <2>6. doc' = Append(doc, r)
    BY <2>1, <2>5 DEF FinishedRunningTest, PrettyAnnounces, JsonAnnounces
  <2>7. /\ doc' \in Seq(Results) /\ TestsIn(doc') = TestsIn(doc) \cup {th[w].test}
        /\ FailedIn(doc') <=> FailedIn(doc) \/ failed
    BY <1>2, <2>5, <2>6, OneMoreEntry
  <2>8. Reported' = Reported /\ (Failed' <=> Failed)
    BY <2>2 DEF Reported, Failed
  <2>9. Ran' = Ran \cup {th[w].test}
    BY <1>1, <2>2 DEF Ran
  <2>10. FailureRan \/ failed => FailureRan'
    BY <1>1, <2>2, <2>3 DEF FailureRan
  <2>11. TestsIn(doc)' = TestsIn(doc') /\ FailedIn(doc)' = FailedIn(doc')
    OBVIOUS
  <2>12. TestsIn(doc)' = Reported' \cup Ran'
    BY <1>2, <2>7, <2>8, <2>9, <2>11
  <2>13. FailedIn(doc)' => Failed' \/ FailureRan'
    BY <1>2, <2>7, <2>8, <2>10, <2>11
  <2> QED
    BY <1>3, <2>7, <2>12, <2>13
<1> QED
  BY <1>4, <1>5, <1>6 DEF ThreadStep

LEMMA AnnouncedNext ==
    ASSUME RunTypes, Stages, Announced, [Next]_vars
    PROVE  Announced'
<1> USE DEF runVars, threadVars, reportVars
<1>1. ASSUME pc' \notin {"join"} \cup Shutting PROVE Announced'
  BY <1>1 DEF Announced
<1>2. ASSUME UNCHANGED <<args, th, doc, Reported, Failed>>, pc' \in {"join"} \cup Shutting => pc \in {"join"} \cup Shutting
      PROVE  Announced'
  <2>1. Ran' = Ran /\ FailureRan' = FailureRan
    BY <1>2 DEF Ran, FailureRan
  <2>2. UNCHANGED args /\ UNCHANGED doc /\ Reported' = Reported /\ Failed' = Failed
    BY <1>2
  <2>3. TestsIn(doc)' = TestsIn(doc) /\ FailedIn(doc)' = FailedIn(doc)
    BY <2>2
  <2> QED
    BY <1>2, <2>1, <2>2, <2>3 DEF Announced
<1>3. CASE Construct
  BY <1>1, <1>3 DEF Construct, Shutting
<1>4. CASE Attribute
  <2>1. DOMAIN results' = DOMAIN results
        /\ \A i \in DOMAIN results : results'[i].test = results[i].test /\ results'[i].failed = results[i].failed
    BY <1>4, AttributedType
  <2>2. Reported' = Reported
    BY <2>1 DEF Reported
  <2>3. Failed' = Failed
    BY <2>1 DEF Failed
  <2> QED
    BY <1>2, <1>4, <2>2, <2>3 DEF Attribute, Shutting
<1>5. CASE SpawnThreads
  <2>1. results' = <<>> /\ UNCHANGED args /\ StartSuite
    BY <1>5 DEF SpawnThreads, Stages, Setup
  <2>2. \A w \in Threads : th'[w].at \in {"off", "poll"}
    BY <1>5, ThreadRecords DEF SpawnThreads, Polling
  <2>3. args.format \in {"pretty", "json"} => doc' = <<>>
    BY <2>1 DEF StartSuite, PrettyStarts, JsonStarts
  <2>4. Reported' = {} /\ Ran' = {}
    BY <2>1, <2>2 DEF Reported, Ran
  <2>5. ASSUME doc' = <<>> PROVE doc' \in Seq(Results) /\ TestsIn(doc)' = {} /\ ~FailedIn(doc)'
    BY <2>5 DEF TestsIn, FailedIn
  <2> QED
    BY <2>1, <2>3, <2>4, <2>5 DEF Announced
<1>6. CASE MainStep /\ ~Construct /\ ~SpawnThreads /\ ~Attribute
  <2>1. UNCHANGED <<args, th, results>> /\ (Report \/ UNCHANGED doc)
    BY <1>6, MainMoves DEF MainStep, NoAttemptLeft, SetUpCapture, InstallTerminalFds, RedirectOut, RedirectErr,
       Collect, Join, DropOwners, Flush, Restore, CloseWriteEnd, JoinReader
  <2>2. Reported' = Reported /\ Failed' = Failed
    BY <2>1 DEF Reported, Failed
  <2>3. CASE Report
    BY <1>1, <2>3 DEF Report, Shutting
  <2>4. CASE UNCHANGED doc
    BY <1>1, <1>2, <1>6, <2>1, <2>2, <2>4, MainMoves DEF Setup, Shutting
  <2> QED
    BY <2>1, <2>3, <2>4
<1>7. CASE ReadLine \/ ReachEnd \/ SpawnChild \/ ChildEnds \/ (\E s \in Streams : Prints(s)) \/ Exited \/ UNCHANGED vars
  <2>1. UNCHANGED <<pc, args, th, results, doc>>
    BY <1>7 DEF ReadLine, ReachEnd, SpawnChild, ChildEnds, Prints, Exited, vars
  <2>2. Reported' = Reported /\ Failed' = Failed
    BY <2>1 DEF Reported, Failed
  <2> QED
    BY <1>2, <2>1, <2>2
<1> QED
  BY <1>3, <1>4, <1>5, <1>6, <1>7, ThreadAnnounced DEF Next

LEMMA FailureOutputsAre ==
    ASSUME RunTypes, NEW rs \in FailureOutputs
    PROVE  /\ rs \in Seq(Results)
           /\ \A i \in DOMAIN rs : \E j \in DOMAIN results : results[j].failed /\ rs[i] = results[j]
           /\ \A j \in DOMAIN results : results[j].failed => \E i \in DOMAIN rs : rs[i] = results[j]
<1> DEFINE n == Cardinality(FailedPlaces)
<1>1. PICK f \in Bijection(1..n, FailedPlaces) : rs = [i \in DOMAIN f |-> results[f[i]]]
  BY DEF FailureOutputs
<1>2. n \in Nat
  <2>1. FailedPlaces \subseteq DOMAIN results /\ DOMAIN results = 1..Len(results) /\ Len(results) \in Nat
    BY DEF RunTypes, FailedPlaces
  <2>2. IsFiniteSet(FailedPlaces)
    <3>1. 1 \in Int /\ Len(results) \in Int
      BY <2>1
    <3>2. IsFiniteSet(1..Len(results))
      BY <3>1, FS_Interval
    <3>3. FailedPlaces \subseteq 1..Len(results)
      BY <2>1
    <3> QED
      BY <3>2, <3>3, FS_Subset
  <2> QED
    BY <2>2, FS_CardinalityType
<1> HIDE DEF n
<1>3. /\ f \in [1..n -> FailedPlaces]
      /\ \A j \in FailedPlaces : \E i \in 1..n : f[i] = j
  BY <1>1 DEF Bijection, Injection, Surjection
<1>4. rs = [i \in 1..n |-> results[f[i]]]
  BY <1>1, <1>3
<1>5. \A i \in 1..n : f[i] \in DOMAIN results /\ results[f[i]].failed /\ results[f[i]] \in Results
  BY <1>3 DEF FailedPlaces, RunTypes
<1>6. rs \in Seq(Results)
  BY <1>2, <1>4, <1>5, IsASeq
<1>7. \A i \in DOMAIN rs : \E j \in DOMAIN results : results[j].failed /\ rs[i] = results[j]
  BY <1>4, <1>5
<1>8. \A j \in DOMAIN results : results[j].failed => \E i \in DOMAIN rs : rs[i] = results[j]
  BY <1>3, <1>4 DEF FailedPlaces
<1> QED
  BY <1>6, <1>7, <1>8

LEMMA TwoParts ==
    ASSUME NEW S, NEW p \in Seq(S), NEW q \in Seq(S)
    PROVE  /\ \A i \in DOMAIN p : i \in DOMAIN (p \o q) /\ (p \o q)[i] = p[i]
           /\ \A i \in DOMAIN q : Len(p) + i \in DOMAIN (p \o q) /\ (p \o q)[Len(p) + i] = q[i]
           /\ \A k \in DOMAIN (p \o q) :
                 \/ k \in DOMAIN p /\ (p \o q)[k] = p[k]
                 \/ \E i \in DOMAIN q : (p \o q)[k] = q[i]
<1>1. /\ Len(p) \in Nat /\ Len(q) \in Nat /\ DOMAIN p = 1..Len(p) /\ DOMAIN q = 1..Len(q)
      /\ p \o q \in Seq(S) /\ Len(p \o q) = Len(p) + Len(q)
      /\ \A i \in 1..Len(p) + Len(q) : (p \o q)[i] = IF i <= Len(p) THEN p[i] ELSE q[i - Len(p)]
  BY ConcatProperties
<1>2. DOMAIN (p \o q) = 1..Len(p) + Len(q)
  BY <1>1
<1>3. \A i \in DOMAIN p : i \in DOMAIN (p \o q) /\ (p \o q)[i] = p[i]
  BY <1>1, <1>2
<1>4. ASSUME NEW i \in DOMAIN q
      PROVE  Len(p) + i \in DOMAIN (p \o q) /\ (p \o q)[Len(p) + i] = q[i]
  <2>1. Len(p) + i \in 1..Len(p) + Len(q) /\ ~(Len(p) + i <= Len(p)) /\ (Len(p) + i) - Len(p) = i
    BY <1>1
  <2> QED
    BY <1>1, <1>2, <2>1
<1>5. ASSUME NEW k \in DOMAIN (p \o q)
      PROVE  \/ k \in DOMAIN p /\ (p \o q)[k] = p[k]
             \/ \E i \in DOMAIN q : (p \o q)[k] = q[i]
  <2>1. CASE k <= Len(p)
    BY <1>1, <1>2, <2>1
  <2>2. CASE ~(k <= Len(p))
    <3>1. k - Len(p) \in DOMAIN q /\ (p \o q)[k] = q[k - Len(p)]
      BY <1>1, <1>2, <2>2
    <3> QED
      BY <3>1
  <2> QED
    BY <2>1, <2>2
<1> QED
  BY <1>3, <1>4, <1>5

(* The documents of JUnit and CTRF have one entry for each result, that of  *)
(* a failed test with its lines.                                           *)
LEMMA ShownResults ==
    ASSUME RunTypes
    PROVE  /\ DOMAIN Shown(results) = DOMAIN results /\ Len(Shown(results)) = Len(results)
           /\ \A i \in DOMAIN results :
                 /\ Shown(results)[i].test = results[i].test
                 /\ Shown(results)[i].failed = results[i].failed
                 /\ results[i].failed => Shown(results)[i] = results[i]
<1>1. /\ results \in Seq(Results) /\ Len(results) \in Nat /\ DOMAIN results = 1..Len(results)
      /\ \A i \in DOMAIN results : results[i] \in Results
  BY DEF RunTypes
<1>2. Shown(results) = [i \in 1..Len(results) |->
                          [results[i] EXCEPT !.host = IF results[i].failed THEN @ ELSE {}]]
  BY <1>1 DEF Shown
<1>3. DOMAIN Shown(results) = DOMAIN results /\ Len(Shown(results)) = Len(results)
  BY <1>1, <1>2
<1>4. ASSUME NEW r \in Results
      PROVE  /\ [r EXCEPT !.host = IF r.failed THEN @ ELSE {}].test = r.test
             /\ [r EXCEPT !.host = IF r.failed THEN @ ELSE {}].failed = r.failed
             /\ r.failed => [r EXCEPT !.host = IF r.failed THEN @ ELSE {}] = r
  BY DEF Results
<1>5. ASSUME NEW i \in DOMAIN results
      PROVE  Shown(results)[i] = [results[i] EXCEPT !.host = IF results[i].failed THEN @ ELSE {}]
  BY <1>1, <1>2
<1> QED
  BY <1>1, <1>3, <1>4, <1>5

LEMMA ReportLogged ==
    ASSUME RunTypes, Stages, Placed, Announced, Report
    PROVE  LogSays'
<1>1. /\ pc = "report" /\ UNCHANGED <<args, results>> /\ code' = IF Failed THEN 101 ELSE 0
      /\ FinishedSuite
  BY DEF Report, threadVars
<1>2. todo = {} /\ \A w \in Threads : th[w].at = "off"
  BY <1>1 DEF Stages, Shutting
<1>3. \A t \in Tests : \E i \in DOMAIN results : results[i].test = t
  BY <1>1, <1>2 DEF Placed, Busy
<1>4. TestsIn(results) = Tests /\ Len(results) = Cardinality(Tests) /\ "suite" \notin Tests
  BY <1>3, OneResultEach, SuiteRunAssumption DEF TestsIn
<1>5. Ran = {} /\ ~FailureRan
  BY <1>2 DEF Ran, FailureRan
<1>6. args.format \in {"pretty", "json"} =>
         doc \in Seq(Results) /\ TestsIn(doc) = Tests /\ (FailedIn(doc) => Failed)
  BY <1>1, <1>4, <1>5 DEF Announced, Shutting, Reported, TestsIn
<1>7. Failed => code' # 0
  BY <1>1
<1>8. ASSUME TestsIn(doc') \ {"suite"} = Tests,
             args.format # "json" => \A i \in DOMAIN results : results[i].failed => \E k \in DOMAIN doc' : doc'[k] = results[i],
             args.format \in {"junit", "ctrf"} => Len(doc') = Cardinality(Tests),
             FailedIn(doc') => Failed
      PROVE  LogSays'
  <2>1. TestsIn(doc)' = TestsIn(doc') /\ FailedIn(doc)' = FailedIn(doc')
    OBVIOUS
  <2>2. args.format # "json" => \A i \in DOMAIN results : results[i].failed => results[i] \in ToSet(doc')
    BY <1>8 DEF ToSet
  <2>3. args' = args /\ results' = results
    BY <1>1
  <2> QED
    BY <1>7, <1>8, <2>1, <2>2, <2>3 DEF LogSays
<1>9. CASE args.format = "pretty"
  <2>1. PICK rs \in FailureOutputs : doc' = doc \o rs
    BY <1>1, <1>9 DEF FinishedSuite, PrettyEnds
  <2>2. /\ rs \in Seq(Results)
        /\ \A i \in DOMAIN rs : \E j \in DOMAIN results : results[j].failed /\ rs[i] = results[j]
        /\ \A j \in DOMAIN results : results[j].failed => \E i \in DOMAIN rs : rs[i] = results[j]
    BY FailureOutputsAre
  <2>3. /\ \A i \in DOMAIN doc : i \in DOMAIN doc' /\ doc'[i] = doc[i]
        /\ \A i \in DOMAIN rs : Len(doc) + i \in DOMAIN doc' /\ doc'[Len(doc) + i] = rs[i]
        /\ \A k \in DOMAIN doc' :
              \/ k \in DOMAIN doc /\ doc'[k] = doc[k]
              \/ \E i \in DOMAIN rs : doc'[k] = rs[i]
    BY <1>6, <1>9, <2>1, <2>2, TwoParts
  <2>4. TestsIn(doc') = Tests
    <3>1. \A k \in DOMAIN doc' : doc'[k].test \in Tests
      <4>1. \A k \in DOMAIN doc : doc[k].test \in Tests
        BY <1>6, <1>9 DEF TestsIn
      <4>2. \A j \in DOMAIN results : results[j].test \in Tests
        BY <1>4 DEF TestsIn
      <4> QED
        BY <2>2, <2>3, <4>1, <4>2
    <3>2. \A t \in Tests : \E k \in DOMAIN doc' : doc'[k].test = t
      <4>1. \A t \in Tests : \E k \in DOMAIN doc : doc[k].test = t
        BY <1>6, <1>9 DEF TestsIn
      <4> QED
        BY <2>3, <4>1
    <3> QED
      BY <3>1, <3>2 DEF TestsIn
  <2>5. \A j \in DOMAIN results : results[j].failed => \E k \in DOMAIN doc' : doc'[k] = results[j]
    BY <2>2, <2>3
  <2>6. FailedIn(doc') => Failed
    BY <1>6, <1>9, <2>2, <2>3 DEF FailedIn, Failed
  <2>7. TestsIn(doc') \ {"suite"} = Tests
    BY <1>4, <2>4
  <2> QED
    BY <1>8, <1>9, <2>5, <2>6, <2>7
<1>10. CASE args.format = "json"
  <2>1. PICK r : r = Result("suite", Failed)
    OBVIOUS
  <2>2. doc' = Append(doc, r) /\ r.test = "suite" /\ r.failed = Failed
    BY <1>1, <1>10, <2>1 DEF FinishedSuite, JsonEnds, Result
  <2>3. /\ doc \in Seq(Results) /\ Len(doc) \in Nat /\ DOMAIN doc = 1..Len(doc)
        /\ DOMAIN doc' = 1..Len(doc) + 1
        /\ \A i \in 1..Len(doc) : doc'[i] = doc[i]
        /\ doc'[Len(doc) + 1] = r
    BY <1>6, <1>10, <2>2
  <2>4. /\ \A i \in DOMAIN doc : i \in DOMAIN doc' /\ doc'[i] = doc[i]
        /\ Len(doc) + 1 \in DOMAIN doc'
        /\ \A i \in DOMAIN doc' : i \in DOMAIN doc \/ i = Len(doc) + 1
    BY <2>3
  <2>5. TestsIn(doc') = TestsIn(doc) \cup {"suite"}
    BY <2>2, <2>3, <2>4 DEF TestsIn
  <2>6. FailedIn(doc') => Failed
    BY <1>6, <1>10, <2>2, <2>3, <2>4 DEF FailedIn
  <2>7. TestsIn(doc') \ {"suite"} = Tests
    BY <1>4, <1>6, <1>10, <2>5
  <2> QED
    BY <1>8, <1>10, <2>6, <2>7
<1>11. CASE args.format \in {"junit", "ctrf"}
  <2>1. doc' = Shown(results)
    BY <1>1, <1>11 DEF FinishedSuite, JUnitEnds, JUnitReport, CtrfEnds, CtrfSnapshot, Writes
  <2>2. /\ DOMAIN doc' = DOMAIN results /\ Len(doc') = Len(results)
        /\ \A i \in DOMAIN results :
              /\ doc'[i].test = results[i].test
              /\ doc'[i].failed = results[i].failed
              /\ results[i].failed => doc'[i] = results[i]
    BY <2>1, ShownResults
  <2>3. TestsIn(doc') = TestsIn(results)
    BY <2>2 DEF TestsIn
  <2>4. FailedIn(doc') => Failed
    BY <2>2 DEF FailedIn, Failed
  <2>5. \A i \in DOMAIN results : results[i].failed => \E k \in DOMAIN doc' : doc'[k] = results[i]
    BY <2>2
  <2>6. TestsIn(doc') \ {"suite"} = Tests
    BY <1>4, <2>3
  <2> QED
    BY <1>4, <1>8, <1>11, <2>2, <2>4, <2>5, <2>6
<1>12. args.format \in {"pretty", "json", "junit", "ctrf"}
  BY DEF RunTypes, Configs
<1> QED
  BY <1>9, <1>10, <1>11, <1>12

LEMMA LoggedNext ==
    ASSUME RunTypes, Stages, Placed, Announced, Logged, [Next]_vars
    PROVE  Logged'
<1> USE DEF runVars, threadVars, reportVars
<1>1. ASSUME pc' \notin {"construct", "exit"} PROVE Logged'
  BY <1>1 DEF Logged
<1>2. ASSUME UNCHANGED <<pc, args, left, code, results, doc>> PROVE Logged'
  <2>1. UNCHANGED pc /\ UNCHANGED left /\ LogSays' = LogSays
    BY <1>2 DEF LogSays
  <2> QED
    BY <2>1 DEF Logged
<1>3. CASE Construct
  BY <1>1, <1>3 DEF Construct
<1>4. CASE NoAttemptLeft
  <2>1. pc = "construct" /\ left = 0 /\ pc' = "exit" /\ UNCHANGED <<args, left, code, results, doc>>
    BY <1>4 DEF NoAttemptLeft
  <2>2. LogSays' = LogSays
    BY <2>1 DEF LogSays
  <2> QED
    BY <2>1, <2>2 DEF Logged
<1>5. CASE Report
  BY <1>5, ReportLogged DEF Logged
<1>6. CASE SpawnThreads \/ Attribute
  BY <1>1, <1>6 DEF SpawnThreads, Attribute
<1>7. CASE MainStep /\ ~Construct /\ ~NoAttemptLeft /\ ~Report /\ ~SpawnThreads /\ ~Attribute
  <2>1. pc' \in Setup \cup Shutting
    BY <1>7, MainMoves DEF MainStep, SetUpCapture, InstallTerminalFds, RedirectOut, RedirectErr, Collect, Join,
       DropOwners, Flush, Restore, CloseWriteEnd, JoinReader, Setup, Shutting
  <2> QED
    BY <1>1, <2>1 DEF Setup, Shutting
<1>8. ASSUME NEW w \in Threads, ThreadStep(w) PROVE Logged'
  <2>1. pc' = pc /\ pc = "join"
    BY <1>8, ThreadMoves DEF Stages
  <2> QED
    BY <1>1, <2>1
<1>9. CASE ReadLine \/ ReachEnd \/ SpawnChild \/ ChildEnds \/ (\E s \in Streams : Prints(s)) \/ Exited \/ UNCHANGED vars
  BY <1>2, <1>9 DEF ReadLine, ReachEnd, SpawnChild, ChildEnds, Prints, Exited, vars
<1> QED
  BY <1>3, <1>4, <1>5, <1>6, <1>7, <1>8, <1>9 DEF Next

-----------------------------------------------------------------------------
LEMMA RunInvInit == Init => Inv /\ RunInv
  BY InvInit, TypesInit, StagesInit, PlacedInit, CodedInit, PairedInit, StoredInit, LoggedInit DEF RunInv

LEMMA RunInvNext == Inv /\ RunInv /\ [Next]_vars => Inv' /\ RunInv'
<1> SUFFICES ASSUME Inv, RunInv, [Next]_vars PROVE Inv' /\ RunInv'
  OBVIOUS
<1>1. RunTypes /\ Stages /\ Placed /\ Coded /\ Paired /\ Stored /\ Announced /\ Logged
  BY DEF RunInv
<1>2. Inv'
  BY InvNext
<1>3. RunTypes' /\ Stages' /\ Placed'
  BY <1>1, TypesNext, StagesNext, PlacedNext
<1>4. Coded' /\ Paired' /\ Stored'
  BY <1>1, CodedNext, PairedNext, StoredNext
<1>5. Announced' /\ Logged'
  BY <1>1, AnnouncedNext, LoggedNext
<1> QED
  BY <1>2, <1>3, <1>4, <1>5 DEF RunInv

(* A result is given the lines of the host that were read while its own     *)
(* test ran, all of them and no others: the i-th window is that of the i-th *)
(* result, whichever threads pushed them (test_thread pushes to results and *)
(* host_windows under both locks), and the reader has ended before          *)
(* attribute_records_to_tests looks at the lines.                          *)
THEOREM LinesInOwnWindow == Spec => []AttributedInWindow
<1>1. RunInv => AttributedInWindow
  BY DEF RunInv, Paired
<1> QED
  BY <1>1, RunInvInit, RunInvNext, PTL DEF Spec

(* When main returns, exit_code is 0 if and only if no test of the last     *)
(* attempt failed, every test has exactly one result, a failed attempt is   *)
(* only the last when none is left, and without an attempt it is 101        *)
(* (async_test_runner's loop and SuiteResult::exit_code).                   *)
THEOREM ExitsWithLastCode == Spec => [](pc = "exit" => CodeOfLastAttempt)
<1>1. RunInv => (pc = "exit" => CodeOfLastAttempt)
  <2> SUFFICES ASSUME RunTypes, Placed, Coded, pc = "exit" PROVE CodeOfLastAttempt
    BY DEF RunInv
  <2>1. CASE FlakyRun = 0
    BY <2>1 DEF Coded, CodeOfLastAttempt
  <2>2. CASE FlakyRun # 0
    <3>1. /\ \A t \in Tests : \E i \in DOMAIN results : results[i].test = t
          /\ code = IF Failed THEN 101 ELSE 0
          /\ Failed => left = 0
      BY <2>2 DEF Coded
    <3>2. \A i \in DOMAIN results : results[i].failed \in BOOLEAN
      BY ResultFields
    <3>3. code = 0 <=> \A i \in DOMAIN results : ~results[i].failed
      BY <3>1, <3>2 DEF Failed
    <3> QED
      BY <2>2, <3>1, <3>3, OneResultEach DEF CodeOfLastAttempt
  <2> QED
    BY <2>1, <2>2
<1> QED
  BY <1>1, RunInvInit, RunInvNext, PTL DEF Spec

(* When main returns, what the formatter wrote about the last attempt is    *)
(* about every test; JUnit and CTRF have one entry for each (finished_suite *)
(* writes them from the results), all but JSON have the failed ones with    *)
(* the lines of the host that were given to them after they were announced, *)
(* and a failure in it means that the exit code is not 0.                  *)
THEOREM LastLogIsComplete == Spec => [](pc = "exit" => LogOfLastAttempt)
<1>1. RunInv => (pc = "exit" => LogOfLastAttempt)
  <2> SUFFICES ASSUME Logged, pc = "exit", FlakyRun > 0 PROVE LogOfLastAttempt
    BY DEF RunInv, LogOfLastAttempt
  <2>1. FlakyRun # 0
    BY SuiteRunAssumption
  <2>2. LogSays
    BY <2>1 DEF Logged
  <2> QED
    BY <2>2 DEF LogSays, LogOfLastAttempt, TestsIn, FailedIn
<1> QED
  BY <1>1, RunInvInit, RunInvNext, PTL DEF Spec

(* While tests run, the CTRF log file has one entry for each test that this *)
(* attempt has finished, whether its result is pushed or not yet, and none  *)
(* of an attempt before: start_suite clears what is stored and              *)
(* finished_running_test adds to it and writes all of it (ctrf.rs).         *)
THEOREM LogIsCurrent == Spec => []LogKeptUpToDate
<1>1. RunInv => LogKeptUpToDate
  <2> SUFFICES ASSUME Stored, args.format = "ctrf", args.logfile, pc = "join", cache # <<>>
               PROVE  /\ doc = Shown(cache)
                      /\ \A i \in DOMAIN doc : doc[i].attempt = left
                      /\ {doc[i].test : i \in DOMAIN doc} =
                            {results[i].test : i \in DOMAIN results}
                            \cup {th[w].test : w \in {v \in Threads : th[v].at = "ran"}}
                      /\ \A i, j \in DOMAIN doc : doc[i].test = doc[j].test => i = j
    BY DEF RunInv, LogKeptUpToDate
  <2>1. /\ cache \in Seq(Results) /\ doc = cache
        /\ \A i \in DOMAIN cache : cache[i].host = {} /\ cache[i].attempt = left
        /\ \A i, j \in DOMAIN cache : cache[i].test = cache[j].test => i = j
        /\ {cache[i].test : i \in DOMAIN cache} =
              {results[i].test : i \in DOMAIN results}
              \cup {th[w].test : w \in {v \in Threads : th[v].at = "ran"}}
    BY DEF Stored
  <2>2. ASSUME NEW i \in DOMAIN cache
        PROVE  [cache[i] EXCEPT !.host = IF cache[i].failed THEN @ ELSE {}] = cache[i]
    <3>1. cache[i] \in Results /\ cache[i].host = {}
      BY <2>1
    <3>2. [cache[i] EXCEPT !.host = IF cache[i].failed THEN @ ELSE {}] = [cache[i] EXCEPT !.host = {}]
      BY <3>1 DEF Results
    <3>3. [cache[i] EXCEPT !.host = {}] = cache[i]
      BY <3>1 DEF Results
    <3> QED
      BY <3>2, <3>3
  <2>3. Shown(cache) = [i \in DOMAIN cache |-> cache[i]]
    BY <2>2 DEF Shown
  <2>4. cache = [i \in DOMAIN cache |-> cache[i]]
    BY <2>1
  <2>5. doc = Shown(cache)
    BY <2>1, <2>3, <2>4
  <2>6. \A i \in DOMAIN doc : doc[i].attempt = left
    BY <2>1
  <2>7. {doc[i].test : i \in DOMAIN doc} = {cache[i].test : i \in DOMAIN cache}
    BY <2>1
  <2>8. \A i, j \in DOMAIN doc : doc[i].test = doc[j].test => i = j
    BY <2>1
  <2> QED
    BY <2>1, <2>5, <2>6, <2>7, <2>8
<1> QED
  BY <1>1, RunInvInit, RunInvNext, PTL DEF Spec
=============================================================================
