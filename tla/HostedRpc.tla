------------------------------ MODULE HostedRpc ------------------------------
(***************************************************************************)
(* A HostedRpc dependency: its owner lives in the parent, tests hold stubs *)
(* (HostedRpcOwnerCell and HostedRpcChannel in test-r-core/src/internal.rs, *)
(* IpcHostedRpcTransport and Worker in tokio.rs, the #[hosted_rpc] and      *)
(* #[test_dep(worker = both(..))] macros).                                 *)
(*                                                                         *)
(* With worker processes a stub writes HostedRpcCall to the connection it  *)
(* shares with the command loop of its process and reads the next frame as *)
(* the answer; the thread of the parent that waits for TestFinished runs   *)
(* the owner.  Without them (--nocapture) the stub enters the cell itself. *)
(*                                                                         *)
(* There is one owner: cells share nothing.  Callers in Outside are threads *)
(* and tasks that may outlive the body that started them, which the        *)
(* documentation of HostedRpcChannel::call forbids.                        *)
(***************************************************************************)
EXTENDS Naturals, Sequences, FiniteSets

CONSTANTS
    Workers,     \* worker processes, each with its thread of the parent
    Inside,      \* callers that are done when their test body returns
    Outside,     \* callers that may go on after it
    Home,        \* the worker a caller runs in
    Nobody,      \* nobody holds a lock, no owner is cached
    NumTests,    \* bound: tests each worker is sent
    MaxCalls     \* bound: calls each caller makes

Callers == Inside \cup Outside

ASSUME HostedRpcAssumption ==
    /\ Inside \cap Outside = {}
    /\ Workers \cap Callers = {}
    /\ Home \in [Callers -> Workers]
    /\ Nobody \notin Workers \cup Callers
    /\ NumTests \in [Workers -> Nat]
    /\ MaxCalls \in [Callers -> Nat]

Modes    == {"workers", "local"}
Variants == {"sync", "async"}       \* HostedRpcOwnerCellInner
Views    == {"hosted", "rpc"}       \* the two registrations of worker = both
NoOwner  == 0                       \* owners are numbered in order of construction

VARIABLES
    mode,        \* args.spawn_workers or not
    variant,     \* which of the two cells the owner is in
    views,       \* per view: how far its constructor is
    held,        \* per view: the owner it made or found
    cache,       \* the owner the Weak cache of the acquire helper points to
    built,       \* owners constructed so far
    pc,          \* per worker: the parent's thread
    tests,       \* per worker: tests sent to it
    toWorker,    \* frames to the worker
    fromWorker,  \* frames to the parent
    wpc,         \* per worker: its command loop and test body
    conn,        \* per worker: who holds the mutex of the connection
    nextId,      \* per worker: next_request_id
    cpc,         \* per caller: where its stub is in HostedRpcTransport::call
    request,     \* per caller: its request id
    made,        \* per caller: calls begun
    answer,      \* per caller: what the last call returned
    dpc,         \* per dispatcher: where it is in the owner cell
    dres,        \* per dispatcher: result of the dispatch
    serving,     \* per dispatcher: the request it serves
    holder,      \* the dispatcher that holds the mutex of the cell
    poisoned,    \* poison of that mutex, the flag of the async cell
    aborted,     \* DumpOnFailure ended the parent
    strayed      \* history: a call was under way outside a body

setupVars  == <<views, held, cache, built>>
parentVars == <<pc, tests, aborted>>
wireVars   == <<toWorker, fromWorker>>
workerVars == <<wpc, conn, nextId>>
callVars   == <<cpc, request, made, answer, strayed>>
cellVars   == <<dpc, dres, serving, holder, poisoned>>
vars       == <<mode, variant, setupVars, parentVars, wireVars, workerVars, callVars, cellVars>>

Dispatchers == Workers \cup Callers

(* One call: who makes it and the how-manieth of that caller it is.        *)
NoCall      == <<Nobody, 0>>
Call(c)     == <<c, made[c]>>
Calls       == Callers \X Nat

Command(type, id, body, of) == [type |-> type, id |-> id, body |-> body, of |-> of]
RunTest                     == Command("RunTest", 0, "none", NoCall)
Reply(id, body, of)         == Command("HostedRpcReply", id, body, of)

Response(type, id, of) == [type |-> type, id |-> id, of |-> of]
TestFinished           == Response("TestFinished", 0, NoCall)
RpcCall(c)             == Response("HostedRpcCall", request[c], Call(c))

NoRequest             == [id |-> 0, of |-> NoCall]
NoAnswer              == [kind |-> "none", of |-> NoCall]
Answer(kind, of)      == [kind |-> kind, of |-> of]

Push(channel, w, frame) == [channel EXCEPT ![w] = Append(@, frame)]
Pop(channel, w)         == [channel EXCEPT ![w] = Tail(@)]

Init ==
    /\ mode \in Modes
    /\ variant \in Variants
    /\ views = [v \in Views |-> "idle"]
    /\ held = [v \in Views |-> NoOwner]
    /\ cache = NoOwner
    /\ built = 0
    /\ pc = [w \in Workers |-> "between"]
    /\ tests = [w \in Workers |-> 0]
    /\ toWorker = [w \in Workers |-> <<>>]
    /\ fromWorker = [w \in Workers |-> <<>>]
    /\ wpc = [w \in Workers |-> "free"]
    /\ conn = [w \in Workers |-> Nobody]
    /\ nextId = [w \in Workers |-> 0]
    /\ cpc = [c \in Callers |-> "idle"]
    /\ request = [c \in Callers |-> 0]
    /\ made = [c \in Callers |-> 0]
    /\ answer = [c \in Callers |-> NoAnswer]
    /\ dpc = [d \in Dispatchers |-> "idle"]
    /\ dres = [d \in Dispatchers |-> "none"]
    /\ serving = [d \in Dispatchers |-> NoRequest]
    /\ holder = Nobody
    /\ poisoned = FALSE
    /\ aborted = FALSE
    /\ strayed = FALSE

-----------------------------------------------------------------------------
(* The acquire helper of worker = both: both views ask for the owner.      *)

(* A Weak pointer upgrades while some view holds what it points to.        *)
Upgraded == cache # NoOwner /\ \E v \in Views : held[v] = cache

(* The fast path, and the constructor of the slow path that runs without   *)
(* the mutex of the cache.                                                 *)
Acquire(v) ==
    /\ views[v] = "idle"
    /\ IF Upgraded
       THEN /\ held' = [held EXCEPT ![v] = cache]
            /\ views' = [views EXCEPT ![v] = "done"]
            /\ UNCHANGED built
       ELSE /\ built' = built + 1
            /\ views' = [views EXCEPT ![v] = "built"]
            /\ held' = [held EXCEPT ![v] = built + 1]
    /\ UNCHANGED <<mode, variant, cache, parentVars, wireVars, workerVars, callVars, cellVars>>

\* Mutation: the cache is not looked at again after the constructor.
InstallUnchecked(v) ==
    /\ views[v] = "built"
    /\ cache' = held[v]
    /\ views' = [views EXCEPT ![v] = "done"]
    /\ UNCHANGED <<mode, variant, held, built, parentVars, wireVars, workerVars, callVars, cellVars>>

(* The second look: throw the new owner away or publish it.                *)
Install(v) ==
    /\ views[v] = "built"
    /\ IF Upgraded
       THEN held' = [held EXCEPT ![v] = cache] /\ UNCHANGED cache
       ELSE cache' = held[v] /\ UNCHANGED held
    /\ views' = [views EXCEPT ![v] = "done"]
    /\ UNCHANGED <<mode, variant, built, parentVars, wireVars, workerVars, callVars, cellVars>>

Collected == \A v \in Views : views[v] = "done"

-----------------------------------------------------------------------------
(* The owner cell: async_dispatch_inner and sync_dispatch_inner.           *)

(* Only the async cell looks at its flag before it waits for the mutex.    *)
FastPathFails == variant = "async" /\ poisoned

BeginDispatch(d, req) ==
    /\ serving' = [serving EXCEPT ![d] = req]
    /\ IF FastPathFails
       THEN dpc' = [dpc EXCEPT ![d] = "done"] /\ dres' = [dres EXCEPT ![d] = "err"]
       ELSE dpc' = [dpc EXCEPT ![d] = "lock"] /\ UNCHANGED dres

\* Mutation: the flag is not looked at again with the mutex held.
EnterUnchecked(d) ==
    /\ dpc[d] = "lock"
    /\ holder = Nobody
    /\ dpc' = [dpc EXCEPT ![d] = "run"]
    /\ holder' = d
    /\ UNCHANGED <<mode, variant, dres, setupVars, parentVars, wireVars, workerVars, callVars,
                   serving, poisoned>>

\* Mutation: the shared owner of worker = both is entered without the mutex.
EnterShared(d) ==
    /\ dpc[d] = "lock"
    /\ IF poisoned
       THEN /\ dpc' = [dpc EXCEPT ![d] = "done"]
            /\ dres' = [dres EXCEPT ![d] = "err"]
            /\ UNCHANGED holder
       ELSE /\ dpc' = [dpc EXCEPT ![d] = "run"]
            /\ holder' = d
            /\ UNCHANGED dres
    /\ UNCHANGED <<mode, variant, setupVars, parentVars, wireVars, workerVars, callVars,
                   serving, poisoned>>

(* The mutex is taken; a poisoned owner is not entered.                    *)
Enter(d) ==
    /\ dpc[d] = "lock"
    /\ holder = Nobody
    /\ IF poisoned
       THEN /\ dpc' = [dpc EXCEPT ![d] = "done"]
            /\ dres' = [dres EXCEPT ![d] = "err"]
            /\ UNCHANGED holder
       ELSE /\ dpc' = [dpc EXCEPT ![d] = "run"]
            /\ holder' = d
            /\ UNCHANGED dres
    /\ UNCHANGED <<mode, variant, setupVars, parentVars, wireVars, workerVars, callVars,
                   serving, poisoned>>

(* The dispatcher the macro generates decodes the arguments, calls the     *)
(* method of that index and encodes what it returns; an unknown index or a *)
(* codec error is an Err without the method.                               *)
MethodOutcomes == {"ok", "err", "panic"}

\* Mutation: a panic leaves the mutex of the async cell locked.
LeaveLocked(d) ==
    /\ dpc[d] = "run"
    /\ \E outcome \in MethodOutcomes :
         /\ dres' = [dres EXCEPT ![d] = IF outcome = "ok" THEN "ok" ELSE "err"]
         /\ poisoned' = (poisoned \/ outcome = "panic")
         /\ holder' = IF outcome = "panic" THEN holder ELSE Nobody
    /\ dpc' = [dpc EXCEPT ![d] = "done"]
    /\ UNCHANGED <<mode, variant, setupVars, parentVars, wireVars, workerVars, callVars, serving>>

(* A panic is caught; the cell is poisoned before the mutex is free again. *)
Leave(d) ==
    /\ dpc[d] = "run"
    /\ \E outcome \in MethodOutcomes :
         /\ dres' = [dres EXCEPT ![d] = IF outcome = "ok" THEN "ok" ELSE "err"]
         /\ poisoned' = (poisoned \/ outcome = "panic")
    /\ holder' = Nobody
    /\ dpc' = [dpc EXCEPT ![d] = "done"]
    /\ UNCHANGED <<mode, variant, setupVars, parentVars, wireVars, workerVars, callVars, serving>>

-----------------------------------------------------------------------------
(* The parent's thread of a worker: Worker::run_test.                      *)

SendRunTest(w) ==
    /\ mode = "workers"
    /\ Collected
    /\ pc[w] = "between"
    /\ tests[w] < NumTests[w]
    /\ wpc[w] # "gone"
    /\ toWorker' = Push(toWorker, w, RunTest)
    /\ tests' = [tests EXCEPT ![w] = @ + 1]
    /\ pc' = [pc EXCEPT ![w] = "await"]
    /\ UNCHANGED <<mode, variant, setupVars, aborted, fromWorker, workerVars, callVars, cellVars>>

(* The loop around read_frame: TestFinished ends it, HostedRpcCall goes    *)
(* through handle_hosted_rpc_call.                                         *)
ReceiveResponse(w) ==
    /\ pc[w] = "await"
    /\ fromWorker[w] # <<>>
    /\ fromWorker' = Pop(fromWorker, w)
    /\ LET frame == Head(fromWorker[w])
       IN  IF frame.type = "TestFinished"
           THEN pc' = [pc EXCEPT ![w] = "between"] /\ UNCHANGED cellVars
           ELSE /\ pc' = [pc EXCEPT ![w] = "dispatch"]
                /\ BeginDispatch(w, [id |-> frame.id, of |-> frame.of])
                /\ UNCHANGED <<holder, poisoned>>
    /\ UNCHANGED <<mode, variant, setupVars, tests, aborted, toWorker, workerVars, callVars>>

SendReply(w) ==
    /\ dpc[w] = "done"
    /\ wpc[w] # "gone"
    /\ toWorker' = Push(toWorker, w, Reply(serving[w].id, dres[w], serving[w].of))
    /\ pc' = [pc EXCEPT ![w] = "await"]
    /\ dpc' = [dpc EXCEPT ![w] = "idle"]
    /\ dres' = [dres EXCEPT ![w] = "none"]
    /\ serving' = [serving EXCEPT ![w] = NoRequest]
    /\ UNCHANGED <<mode, variant, setupVars, tests, aborted, fromWorker, workerVars, callVars,
                   holder, poisoned>>

(* Leaving test_thread drops the Worker and closes the connection.         *)
Close(w) ==
    /\ mode = "workers"
    /\ pc[w] = "between"
    /\ tests[w] = NumTests[w]
    /\ pc' = [pc EXCEPT ![w] = "exit"]
    /\ UNCHANGED <<mode, variant, setupVars, tests, aborted, wireVars, workerVars, callVars, cellVars>>

(* DumpOnFailure: the worker is gone and its answer did not come.          *)
Abort(w) ==
    /\ mode = "workers"
    /\ wpc[w] = "gone"
    /\ \/ pc[w] = "between" /\ tests[w] < NumTests[w]
       \/ pc[w] = "await" /\ fromWorker[w] = <<>>
       \/ dpc[w] = "done"
    /\ aborted' = TRUE
    /\ UNCHANGED <<mode, variant, setupVars, pc, tests, wireVars, workerVars, callVars, cellVars>>

ParentStep(w) ==
    /\ ~aborted
    /\ \/ SendRunTest(w) \/ ReceiveResponse(w) \/ SendReply(w) \/ Close(w) \/ Abort(w)

-----------------------------------------------------------------------------
(* The worker process.                                                     *)

ParentClosed(w) == aborted \/ pc[w] = "exit"

CallersOf(w) == {c \in Callers : Home[c] = w}

(* The command loop locks the connection for as long as it reads.          *)
LockForCommand(w) ==
    /\ mode = "workers"
    /\ wpc[w] = "free"
    /\ conn[w] = Nobody
    /\ conn' = [conn EXCEPT ![w] = w]
    /\ wpc' = [wpc EXCEPT ![w] = "reading"]
    /\ UNCHANGED <<mode, variant, setupVars, parentVars, wireVars, nextId, callVars, cellVars>>

(* RunTest starts a body; a HostedRpcReply here is a panic, as is the end  *)
(* of the stream, and takes the whole process with it.                     *)
ReadCommand(w) ==
    /\ wpc[w] = "reading"
    /\ \/ /\ toWorker[w] # <<>>
          /\ toWorker' = Pop(toWorker, w)
          /\ wpc' = [wpc EXCEPT ![w] = IF Head(toWorker[w]) = RunTest THEN "body" ELSE "gone"]
       \/ /\ toWorker[w] = <<>>
          /\ ParentClosed(w)
          /\ wpc' = [wpc EXCEPT ![w] = "gone"]
          /\ UNCHANGED toWorker
    /\ conn' = [conn EXCEPT ![w] = Nobody]
    /\ UNCHANGED <<mode, variant, setupVars, parentVars, fromWorker, nextId, callVars, cellVars>>

(* The body returns; what it waited for is done, detached callers go on.   *)
EndBody(w) ==
    /\ wpc[w] = "body"
    /\ \A c \in CallersOf(w) \cap Inside : cpc[c] = "idle"
    /\ wpc' = [wpc EXCEPT ![w] = IF mode = "workers" THEN "finishing" ELSE "gone"]
    /\ strayed' = (strayed \/ \E c \in CallersOf(w) : cpc[c] # "idle")
    /\ UNCHANGED <<mode, variant, setupVars, parentVars, wireVars, conn, nextId, cpc, request,
                   made, answer, cellVars>>

(* TestFinished; after the last test of its plan the process ends.         *)
FinishTest(w) ==
    /\ wpc[w] = "finishing"
    /\ conn[w] = Nobody
    /\ ~ParentClosed(w)
    /\ fromWorker' = Push(fromWorker, w, TestFinished)
    /\ wpc' = [wpc EXCEPT ![w] = IF tests[w] = NumTests[w] THEN "gone" ELSE "free"]
    /\ UNCHANGED <<mode, variant, setupVars, parentVars, toWorker, conn, nextId, callVars, cellVars>>

LosesParent(w) ==
    /\ wpc[w] = "finishing"
    /\ conn[w] = Nobody
    /\ ParentClosed(w)
    /\ wpc' = [wpc EXCEPT ![w] = "gone"]
    /\ UNCHANGED <<mode, variant, setupVars, parentVars, wireVars, conn, nextId, callVars, cellVars>>

(* Without workers the bodies run in the parent: one body per thread.      *)
StartLocalBody(w) ==
    /\ mode = "local"
    /\ Collected
    /\ wpc[w] = "free"
    /\ wpc' = [wpc EXCEPT ![w] = "body"]
    /\ UNCHANGED <<mode, variant, setupVars, parentVars, wireVars, conn, nextId, callVars, cellVars>>

WorkerStep(w) ==
    \/ LockForCommand(w) \/ ReadCommand(w) \/ EndBody(w) \/ FinishTest(w)
    \/ LosesParent(w) \/ StartLocalBody(w)

-----------------------------------------------------------------------------
(* A stub.                                                                 *)

Runs(c) == wpc[Home[c]] # "gone"

MayCall(c) ==
    /\ cpc[c] = "idle"
    /\ made[c] < MaxCalls[c]
    /\ IF c \in Inside THEN wpc[Home[c]] = "body" ELSE Runs(c) /\ tests[Home[c]] > 0

(* IpcHostedRpcTransport::call: a request id ...                           *)
BeginCall(c) ==
    /\ mode = "workers"
    /\ MayCall(c)
    /\ request' = [request EXCEPT ![c] = nextId[Home[c]]]
    /\ nextId' = [nextId EXCEPT ![Home[c]] = @ + 1]
    /\ made' = [made EXCEPT ![c] = @ + 1]
    /\ answer' = [answer EXCEPT ![c] = NoAnswer]
    /\ cpc' = [cpc EXCEPT ![c] = "lock"]
    /\ strayed' = (strayed \/ wpc[Home[c]] # "body")
    /\ UNCHANGED <<mode, variant, setupVars, parentVars, wireVars, wpc, conn, cellVars>>

\* Mutation: the connection is not held until the reply.
WriteAndUnlock(c) ==
    /\ cpc[c] = "lock"
    /\ Runs(c)
    /\ conn[Home[c]] = Nobody
    /\ fromWorker' = Push(fromWorker, Home[c], RpcCall(c))
    /\ cpc' = [cpc EXCEPT ![c] = "reply"]
    /\ UNCHANGED <<mode, variant, setupVars, parentVars, toWorker, workerVars, request, made,
                   answer, strayed, cellVars>>

(* ... the lock, the frame ...                                             *)
WriteCall(c) ==
    /\ cpc[c] = "lock"
    /\ Runs(c)
    /\ conn[Home[c]] = Nobody
    /\ IF ParentClosed(Home[c])
       THEN /\ answer' = [answer EXCEPT ![c] = Answer("transport", NoCall)]
            /\ cpc' = [cpc EXCEPT ![c] = "idle"]
            /\ UNCHANGED <<fromWorker, conn>>
       ELSE /\ fromWorker' = Push(fromWorker, Home[c], RpcCall(c))
            /\ conn' = [conn EXCEPT ![Home[c]] = c]
            /\ cpc' = [cpc EXCEPT ![c] = "reply"]
            /\ UNCHANGED answer
    /\ UNCHANGED <<mode, variant, setupVars, parentVars, toWorker, wpc, nextId, request, made,
                   strayed, cellVars>>

\* Mutation: the id of the reply is not compared.
AnyReply(c, frame) ==
    IF frame.type # "HostedRpcReply"
    THEN Answer("transport", NoCall)
    ELSE Answer(IF frame.body = "ok" THEN "ok" ELSE "dispatch", frame.of)

(* Anything but the reply to this request is a transport error.            *)
AnswerFrom(c, frame) ==
    IF frame.type # "HostedRpcReply" \/ frame.id # request[c]
    THEN Answer("transport", NoCall)
    ELSE Answer(IF frame.body = "ok" THEN "ok" ELSE "dispatch", frame.of)

(* ... and the next frame, with the lock still held.                       *)
ReadReply(c) ==
    LET w == Home[c]
    IN  /\ cpc[c] = "reply"
        /\ Runs(c)
        /\ \/ /\ toWorker[w] # <<>>
              /\ toWorker' = Pop(toWorker, w)
              /\ answer' = [answer EXCEPT ![c] = AnswerFrom(c, Head(toWorker[w]))]
           \/ /\ toWorker[w] = <<>>
              /\ ParentClosed(w)
              /\ answer' = [answer EXCEPT ![c] = Answer("transport", NoCall)]
              /\ UNCHANGED toWorker
        /\ conn' = [conn EXCEPT ![w] = Nobody]
        /\ cpc' = [cpc EXCEPT ![c] = "idle"]
        /\ UNCHANGED <<mode, variant, setupVars, parentVars, fromWorker, wpc, nextId, request,
                       made, strayed, cellVars>>

(* InProcessHostedRpcTransport::call enters the cell on the caller's       *)
(* thread (dispatch_blocking).                                             *)
CallLocally(c) ==
    /\ mode = "local"
    /\ cpc[c] = "idle"
    /\ made[c] < MaxCalls[c]
    /\ wpc[Home[c]] = "body"
    /\ made' = [made EXCEPT ![c] = @ + 1]
    /\ answer' = [answer EXCEPT ![c] = NoAnswer]
    /\ cpc' = [cpc EXCEPT ![c] = "local"]
    /\ BeginDispatch(c, [id |-> 0, of |-> <<c, made[c] + 1>>])
    /\ UNCHANGED <<mode, variant, setupVars, parentVars, wireVars, workerVars, request, strayed,
                   holder, poisoned>>

ReturnLocally(c) ==
    /\ cpc[c] = "local"
    /\ dpc[c] = "done"
    /\ answer' = [answer EXCEPT ![c] = Answer(IF dres[c] = "ok" THEN "ok" ELSE "dispatch", serving[c].of)]
    /\ cpc' = [cpc EXCEPT ![c] = "idle"]
    /\ dpc' = [dpc EXCEPT ![c] = "idle"]
    /\ dres' = [dres EXCEPT ![c] = "none"]
    /\ serving' = [serving EXCEPT ![c] = NoRequest]
    /\ UNCHANGED <<mode, variant, setupVars, parentVars, wireVars, workerVars, request, made,
                   strayed, holder, poisoned>>

(* A thread of the parent also runs the owner for its worker, and goes on   *)
(* doing so when that process is gone; a local caller runs it for itself.   *)
CellStep(d) == ~aborted /\ (Enter(d) \/ Leave(d))

ParentThread(w) == ParentStep(w) \/ CellStep(w)

CallThread(c) == WriteCall(c) \/ ReadReply(c) \/ ReturnLocally(c) \/ CellStep(c)

SetupStep(v) == Acquire(v) \/ Install(v)

Over ==
    /\ \A w \in Workers : wpc[w] = "gone"
    /\ aborted \/ mode = "local" \/ \A w \in Workers : pc[w] = "exit"
    /\ \A c \in Callers : cpc[c] # "local"

Ended == Over /\ UNCHANGED vars

Next ==
    \/ \E v \in Views : SetupStep(v)
    \/ \E w \in Workers : ParentThread(w) \/ WorkerStep(w)
    \/ \E c \in Callers : BeginCall(c) \/ CallLocally(c) \/ CallThread(c)
    \/ Ended

(* Threads and processes are scheduled and the owner's methods return; that *)
(* a caller makes a call is never owed.  No fairness of the mutexes is      *)
(* needed: each call takes them once.                                       *)
Fairness ==
    /\ \A v \in Views : WF_vars(SetupStep(v))
    /\ \A w \in Workers : WF_vars(ParentThread(w)) /\ WF_vars(WorkerStep(w))
    /\ \A c \in Callers : WF_vars(CallThread(c))

Spec == Init /\ [][Next]_vars

FairSpec == Spec /\ Fairness

-----------------------------------------------------------------------------
Commands ==
    {RunTest} \cup [type : {"HostedRpcReply"}, id : Nat, body : {"ok", "err"}, of : Calls]

Responses ==
    {TestFinished} \cup [type : {"HostedRpcCall"}, id : Nat, of : Calls]

(* Every variable has its type.                                            *)
TypeOK ==
    /\ mode \in Modes
    /\ variant \in Variants
    /\ views \in [Views -> {"idle", "built", "done"}]
    /\ held \in [Views -> Nat]
    /\ cache \in Nat
    /\ built \in Nat
    /\ pc \in [Workers -> {"between", "await", "dispatch", "exit"}]
    /\ tests \in [Workers -> Nat]
    /\ toWorker \in [Workers -> Seq(Commands)]
    /\ fromWorker \in [Workers -> Seq(Responses)]
    /\ wpc \in [Workers -> {"free", "reading", "body", "finishing", "gone"}]
    /\ conn \in [Workers -> Workers \cup Callers \cup {Nobody}]
    /\ nextId \in [Workers -> Nat]
    /\ cpc \in [Callers -> {"idle", "lock", "reply", "local"}]
    /\ request \in [Callers -> Nat]
    /\ made \in [Callers -> Nat]
    /\ answer \in [Callers -> [kind : {"none", "ok", "dispatch", "transport"},
                               of : Calls \cup {NoCall}]]
    /\ dpc \in [Dispatchers -> {"idle", "lock", "run", "done"}]
    /\ dres \in [Dispatchers -> {"none", "ok", "err"}]
    /\ serving \in [Dispatchers -> [id : Nat, of : Calls \cup {NoCall}]]
    /\ holder \in Dispatchers \cup {Nobody}
    /\ poisoned \in BOOLEAN
    /\ aborted \in BOOLEAN
    /\ strayed \in BOOLEAN

(* "Calls to a HostedRpc dep are serialised on the parent side": the owner  *)
(* is never entered twice at a time, from whichever worker or thread.       *)
OwnerExclusive ==
    \A d, e \in Dispatchers : dpc[d] = "run" /\ dpc[e] = "run" => d = e

(* After a panic the half-mutated owner is never entered again, not even by *)
(* a call that was already waiting for the mutex when the panic happened.   *)
PoisonedOwnerIdle == poisoned => \A d \in Dispatchers : dpc[d] # "run"

(* An answer is the answer to this very call.  This holds whatever detached *)
(* callers do to the framing: a frame meant for somebody else is an error   *)
(* ("request_id mismatch", "unexpected IpcCommand").                        *)
AnswersMatch ==
    \A c \in Callers : answer[c].kind \in {"ok", "dispatch"} => answer[c].of = Call(c)

(* As long as stubs are called from running bodies only, the connection     *)
(* stays in step: no stub reads a command, the command loop reads no reply, *)
(* and the run is not given up.                                             *)
InStepUnderContract ==
    ~strayed =>
        /\ ~aborted
        /\ \A c \in Callers : answer[c].kind # "transport"
        /\ \A w \in Workers :
              wpc[w] \in {"free", "reading"} =>
                  \A i \in DOMAIN toWorker[w] : toWorker[w][i] = RunTest

(* "Both view registrations share exactly one owner instance": the RPC view *)
(* dispatches to the owner the descriptor was taken from, even when the two *)
(* constructors of an async owner overlap.                                  *)
ViewsShareOwner == Collected => held["hosted"] = held["rpc"]

(* Every call returns and the run ends, also after a panic of the owner.    *)
(* Stray calls may cost it its result: a stub can take the RunTest frame    *)
(* the command loop waits for.  But the extra reply that follows then ends  *)
(* the worker, so that the two ends never wait on each other for ever.      *)
RunEnds == <>Over
=============================================================================
