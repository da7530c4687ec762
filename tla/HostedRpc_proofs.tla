-------------------------- MODULE HostedRpc_proofs --------------------------
(***************************************************************************)
(* For every number of workers, callers, tests and calls: the variables    *)
(* have their types, the owner is entered by one dispatcher at a time and  *)
(* never again after a panic, and a stub returns only answers to its own   *)
(* call, whatever detached callers do to the order of frames.  Without     *)
(* detached callers the two ends of a connection stay in step.             *)
(***************************************************************************)
EXTENDS HostedRpc, TLAPS

(* The types of the variables of the cell.                                 *)
CellTypes ==
    /\ dpc \in [Dispatchers -> {"idle", "lock", "run", "done"}]
    /\ dres \in [Dispatchers -> {"none", "ok", "err"}]
    /\ serving \in [Dispatchers -> [id : Nat, of : Calls \cup {NoCall}]]

(* A dispatch that was begun serves a call, one that is done has a result.  *)
Underway ==
    \A d \in Dispatchers :
        /\ dpc[d] # "idle" => serving[d].of \in Calls
        /\ dpc[d] = "done" => dres[d] \in {"ok", "err"}

TypeInv == TypeOK /\ Underway

LEMMA CallIsCall == ASSUME TypeOK, NEW c \in Callers PROVE Call(c) \in Calls
  BY DEF TypeOK, Call, Calls

LEMMA TypeInit == Init => TypeInv
<1> SUFFICES ASSUME Init PROVE TypeInv
  OBVIOUS
<1>1. NoRequest \in [id : Nat, of : Calls \cup {NoCall}]
  BY DEF NoRequest
<1>2. NoAnswer \in [kind : {"none", "ok", "dispatch", "transport"}, of : Calls \cup {NoCall}]
  BY DEF NoAnswer
<1>3. /\ dpc \in [Dispatchers -> {"idle", "lock", "run", "done"}]
      /\ dres \in [Dispatchers -> {"none", "ok", "err"}]
      /\ serving \in [Dispatchers -> [id : Nat, of : Calls \cup {NoCall}]]
      /\ answer \in [Callers -> [kind : {"none", "ok", "dispatch", "transport"},
                                of : Calls \cup {NoCall}]]
  BY <1>1, <1>2 DEF Init
<1>4. toWorker \in [Workers -> Seq(Commands)] /\ fromWorker \in [Workers -> Seq(Responses)]
  BY DEF Init
<1>5. TypeOK
  BY <1>3, <1>4 DEF Init, TypeOK, NoOwner
<1>6. Underway
  BY DEF Init, Underway
<1> QED
  BY <1>5, <1>6 DEF TypeInv

(* Steps outside the cell and the connection.                              *)
LEMMA TypeSetup ==
    ASSUME TypeInv, NEW v \in Views, SetupStep(v) PROVE TypeInv'
<1> DEFINE SetupTypes == /\ views \in [Views -> {"idle", "built", "done"}]
                         /\ held \in [Views -> Nat]
                         /\ cache \in Nat
                         /\ built \in Nat
<1>1. SetupTypes
  BY DEF TypeInv, TypeOK
<1>2. CASE Acquire(v)
  <2>1. SetupTypes'
    BY <1>1, <1>2 DEF Acquire
  <2> QED
    BY <1>2, <2>1 DEF Acquire, TypeInv, TypeOK, Underway, parentVars, wireVars, workerVars,
                      callVars, cellVars
<1>3. CASE Install(v)
  <2>1. SetupTypes'
    BY <1>1, <1>3 DEF Install
  <2> QED
    BY <1>3, <2>1 DEF Install, TypeInv, TypeOK, Underway, parentVars, wireVars, workerVars,
                      callVars, cellVars
<1> QED
  BY <1>2, <1>3 DEF SetupStep

LEMMA TypeCell ==
    ASSUME TypeInv, NEW d \in Dispatchers, CellStep(d) PROVE TypeInv'
<1> USE DEF setupVars, parentVars, wireVars, workerVars, callVars
<1>1. /\ CellTypes /\ Underway
      /\ holder \in Dispatchers \cup {Nobody} /\ poisoned \in BOOLEAN
  BY DEF TypeInv, TypeOK, CellTypes
<1>2. CASE Enter(d)
  <2>1. CellTypes'
    BY <1>1, <1>2 DEF Enter, CellTypes
  <2>2. Underway' /\ (holder \in Dispatchers \cup {Nobody})'
    BY <1>1, <1>2 DEF Enter, CellTypes, Underway
  <2> QED
    BY <1>2, <2>1, <2>2 DEF Enter, CellTypes, TypeInv, TypeOK
<1>3. CASE Leave(d)
  <2>1. CellTypes'
    BY <1>1, <1>3 DEF Leave, CellTypes
  <2>2. Underway' /\ (poisoned \in BOOLEAN)' /\ (holder \in Dispatchers \cup {Nobody})'
    BY <1>1, <1>3 DEF Leave, CellTypes, Underway, MethodOutcomes
  <2> QED
    BY <1>3, <2>1, <2>2 DEF Leave, CellTypes, TypeInv, TypeOK
<1> QED
  BY <1>2, <1>3 DEF CellStep

LEMMA TypeBegin ==
    ASSUME TypeInv, NEW d \in Dispatchers, NEW req, req.of \in Calls,
           req \in [id : Nat, of : Calls \cup {NoCall}], BeginDispatch(d, req)
    PROVE  CellTypes' /\ Underway'
<1>1. CellTypes
  BY DEF TypeInv, TypeOK, CellTypes
<1>2. serving' = [serving EXCEPT ![d] = req]
  BY DEF BeginDispatch
<1>3. CASE dpc' = [dpc EXCEPT ![d] = "done"] /\ dres' = [dres EXCEPT ![d] = "err"]
  BY <1>1, <1>2, <1>3 DEF TypeInv, Underway, CellTypes
<1>4. CASE dpc' = [dpc EXCEPT ![d] = "lock"] /\ UNCHANGED dres
  BY <1>1, <1>2, <1>4 DEF TypeInv, Underway, CellTypes
<1> QED
  BY <1>3, <1>4 DEF BeginDispatch

LEMMA TypeParent ==
    ASSUME TypeInv, NEW w \in Workers, ParentStep(w) PROVE TypeInv'
<1> USE DEF setupVars, parentVars, wireVars, workerVars, callVars, cellVars
<1>1. CASE SendRunTest(w)
  <2>1. RunTest \in Commands
    BY DEF Commands
  <2> QED
    BY <1>1, <2>1 DEF SendRunTest, Push, TypeInv, TypeOK, Underway
<1>2. CASE ReceiveResponse(w)
  <2> DEFINE frame == Head(fromWorker[w])
  <2>1. frame \in Responses /\ Tail(fromWorker[w]) \in Seq(Responses)
    BY <1>2 DEF ReceiveResponse, TypeInv, TypeOK
  <2>2. fromWorker' \in [Workers -> Seq(Responses)]
    BY <1>2, <2>1 DEF ReceiveResponse, Pop, TypeInv, TypeOK
  <2>3. CASE frame.type = "TestFinished"
    BY <1>2, <2>2, <2>3 DEF ReceiveResponse, TypeInv, TypeOK, Underway
  <2>4. CASE frame.type # "TestFinished"
    <3>1. frame.id \in Nat /\ frame.of \in Calls
      BY <2>1, <2>4 DEF Responses, TestFinished, Response
    <3>2. w \in Dispatchers
      BY DEF Dispatchers
    <3> DEFINE req == [id |-> frame.id, of |-> frame.of]
    <3>3. BeginDispatch(w, req)
      BY <1>2, <2>4 DEF ReceiveResponse
    <3>4. req.of \in Calls /\ req \in [id : Nat, of : Calls \cup {NoCall}]
      BY <3>1
    <3>5. CellTypes' /\ Underway'
      BY <3>2, <3>3, <3>4, TypeBegin
    <3> QED
      BY <1>2, <2>2, <2>4, <3>5 DEF ReceiveResponse, CellTypes, TypeInv, TypeOK
  <2> QED
    BY <2>3, <2>4
<1>3. CASE SendReply(w)
  <2>1. w \in Dispatchers
    BY DEF Dispatchers
  <2>2. Reply(serving[w].id, dres[w], serving[w].of) \in Commands
    BY <1>3, <2>1 DEF SendReply, Reply, Command, Commands, TypeInv, TypeOK, Underway
  <2>3. toWorker' \in [Workers -> Seq(Commands)]
    BY <1>3, <2>2 DEF SendReply, Push, TypeInv, TypeOK
  <2>4. NoRequest \in [id : Nat, of : Calls \cup {NoCall}]
    BY DEF NoRequest
  <2> QED
    BY <1>3, <2>1, <2>3, <2>4 DEF SendReply, TypeInv, TypeOK, Underway
<1>4. CASE Close(w)
  BY <1>4 DEF Close, TypeInv, TypeOK, Underway
<1>5. CASE Abort(w)
  BY <1>5 DEF Abort, TypeInv, TypeOK, Underway
<1> QED
  BY <1>1, <1>2, <1>3, <1>4, <1>5 DEF ParentStep

LEMMA TypeWorker ==
    ASSUME TypeInv, NEW w \in Workers, WorkerStep(w) PROVE TypeInv'
<1> USE DEF setupVars, parentVars, wireVars, workerVars, callVars, cellVars
<1>1. CASE LockForCommand(w)
  BY <1>1 DEF LockForCommand, TypeInv, TypeOK, Underway
<1>2. CASE ReadCommand(w)
  <2>1. /\ toWorker \in [Workers -> Seq(Commands)]
        /\ wpc \in [Workers -> {"free", "reading", "body", "finishing", "gone"}]
        /\ conn \in [Workers -> Workers \cup Callers \cup {Nobody}]
    BY DEF TypeInv, TypeOK
  <2>2. conn' \in [Workers -> Workers \cup Callers \cup {Nobody}]
    BY <1>2, <2>1 DEF ReadCommand
  <2>3. CASE toWorker[w] # <<>>
    <3>1. Tail(toWorker[w]) \in Seq(Commands)
      BY <2>1, <2>3
    <3>2. toWorker' \in [Workers -> Seq(Commands)]
      BY <1>2, <2>1, <2>3, <3>1 DEF ReadCommand, Pop
    <3>3. wpc' = [wpc EXCEPT ![w] = "body"] \/ wpc' = [wpc EXCEPT ![w] = "gone"]
      BY <1>2, <2>3 DEF ReadCommand
    <3> QED
      BY <1>2, <2>1, <2>2, <3>2, <3>3 DEF ReadCommand, TypeInv, TypeOK, Underway
  <2>4. CASE toWorker[w] = <<>>
    BY <1>2, <2>1, <2>2, <2>4 DEF ReadCommand, TypeInv, TypeOK, Underway
  <2> QED
    BY <2>3, <2>4
<1>3. CASE EndBody(w)
  BY <1>3 DEF EndBody, TypeInv, TypeOK, Underway
<1>4. CASE FinishTest(w)
  <2>1. TestFinished \in Responses
    BY DEF Responses
  <2> QED
    BY <1>4, <2>1 DEF FinishTest, Push, TypeInv, TypeOK, Underway
<1>5. CASE LosesParent(w)
  BY <1>5 DEF LosesParent, TypeInv, TypeOK, Underway
<1>6. CASE StartLocalBody(w)
  BY <1>6 DEF StartLocalBody, TypeInv, TypeOK, Underway
<1> QED
  BY <1>1, <1>2, <1>3, <1>4, <1>5, <1>6 DEF WorkerStep

LEMMA TypeCaller ==
    ASSUME TypeInv, NEW c \in Callers, BeginCall(c) \/ CallLocally(c) \/ CallThread(c)
    PROVE  TypeInv'
<1> USE DEF setupVars, parentVars, wireVars, workerVars, callVars, cellVars
<1>1. c \in Dispatchers /\ Home[c] \in Workers
  BY HostedRpcAssumption DEF Dispatchers
<1> DEFINE Answers == [kind : {"none", "ok", "dispatch", "transport"}, of : Calls \cup {NoCall}]
<1>2. NoAnswer \in Answers /\ Answer("transport", NoCall) \in Answers
  BY DEF NoAnswer, Answer
<1>3. CASE BeginCall(c)
  <2>1. /\ nextId \in [Workers -> Nat] /\ request \in [Callers -> Nat] /\ made \in [Callers -> Nat]
        /\ answer \in [Callers -> Answers] /\ cpc \in [Callers -> {"idle", "lock", "reply", "local"}]
    BY DEF TypeInv, TypeOK
  <2>2. /\ nextId' \in [Workers -> Nat] /\ request' \in [Callers -> Nat]
        /\ made' \in [Callers -> Nat] /\ answer' \in [Callers -> Answers]
        /\ cpc' \in [Callers -> {"idle", "lock", "reply", "local"}]
    BY <1>1, <1>2, <1>3, <2>1 DEF BeginCall
  <2>3. Underway' /\ strayed' \in BOOLEAN
    BY <1>3 DEF BeginCall, TypeInv, TypeOK, Underway
  <2> QED
    BY <1>3, <2>2, <2>3 DEF BeginCall, TypeInv, TypeOK
<1>4. CASE CallLocally(c)
  <2> DEFINE req == [id |-> 0, of |-> <<c, made[c] + 1>>]
  <2>1. req.of \in Calls /\ req \in [id : Nat, of : Calls \cup {NoCall}]
    BY DEF TypeInv, TypeOK, Calls
  <2>2. BeginDispatch(c, req)
    BY <1>4 DEF CallLocally
  <2>3. CellTypes' /\ Underway'
    BY <1>1, <2>1, <2>2, TypeBegin
  <2> QED
    BY <1>2, <1>4, <2>3 DEF CallLocally, CellTypes, TypeInv, TypeOK
<1>5. CASE WriteCall(c)
  <2>1. RpcCall(c) \in Responses
    BY CallIsCall DEF RpcCall, Response, Responses, TypeInv, TypeOK
  <2>2. /\ fromWorker \in [Workers -> Seq(Responses)] /\ answer \in [Callers -> Answers]
        /\ conn \in [Workers -> Workers \cup Callers \cup {Nobody}]
        /\ cpc \in [Callers -> {"idle", "lock", "reply", "local"}]
    BY DEF TypeInv, TypeOK
  <2>3. CASE /\ answer' = [answer EXCEPT ![c] = Answer("transport", NoCall)]
             /\ cpc' = [cpc EXCEPT ![c] = "idle"]
             /\ UNCHANGED <<fromWorker, conn>>
    <3>1. answer' \in [Callers -> Answers] /\ cpc' \in [Callers -> {"idle", "lock", "reply", "local"}]
      BY <1>2, <2>2, <2>3
    <3> QED
      BY <1>5, <2>3, <3>1 DEF WriteCall, TypeInv, TypeOK, Underway
  <2>4. CASE /\ fromWorker' = Push(fromWorker, Home[c], RpcCall(c))
             /\ conn' = [conn EXCEPT ![Home[c]] = c]
             /\ cpc' = [cpc EXCEPT ![c] = "reply"]
             /\ UNCHANGED answer
    <3>1. fromWorker' \in [Workers -> Seq(Responses)]
      BY <1>1, <2>1, <2>2, <2>4 DEF Push
    <3>2. /\ conn' \in [Workers -> Workers \cup Callers \cup {Nobody}]
          /\ cpc' \in [Callers -> {"idle", "lock", "reply", "local"}]
      BY <1>1, <2>2, <2>4
    <3> QED
      BY <1>5, <2>4, <3>1, <3>2 DEF WriteCall, TypeInv, TypeOK, Underway
  <2> QED
    BY <1>5, <2>3, <2>4 DEF WriteCall
<1>6. CASE ReadReply(c)
  <2>1. /\ toWorker \in [Workers -> Seq(Commands)] /\ answer \in [Callers -> Answers]
        /\ conn \in [Workers -> Workers \cup Callers \cup {Nobody}]
        /\ cpc \in [Callers -> {"idle", "lock", "reply", "local"}]
    BY DEF TypeInv, TypeOK
  <2>2. ASSUME toWorker[Home[c]] # <<>>
        PROVE  AnswerFrom(c, Head(toWorker[Home[c]])) \in Answers
    <3>1. Head(toWorker[Home[c]]) \in Commands
      BY <1>1, <2>1, <2>2
    <3> QED
      BY <1>2, <3>1 DEF AnswerFrom, Answer, Commands, RunTest, Command
  <2>3. CASE toWorker[Home[c]] # <<>>
    <3>1. Tail(toWorker[Home[c]]) \in Seq(Commands)
      BY <1>1, <2>1, <2>3
    <3> QED
      BY <1>1, <1>6, <2>1, <2>2, <2>3, <3>1 DEF ReadReply, Pop, TypeInv, TypeOK, Underway
  <2>4. CASE toWorker[Home[c]] = <<>>
    <3>1. answer' \in [Callers -> Answers]
      BY <1>2, <1>6, <2>1, <2>4 DEF ReadReply
    <3> QED
      BY <1>1, <1>6, <2>1, <2>4, <3>1 DEF ReadReply, TypeInv, TypeOK, Underway
  <2> QED
    BY <2>3, <2>4
<1>7. CASE ReturnLocally(c)
  <2>1. NoRequest \in [id : Nat, of : Calls \cup {NoCall}]
    BY DEF NoRequest
  <2>2. Answer(IF dres[c] = "ok" THEN "ok" ELSE "dispatch", serving[c].of) \in Answers
    BY <1>1 DEF Answer, TypeInv, TypeOK
  <2> QED
    BY <1>1, <1>7, <2>1, <2>2 DEF ReturnLocally, TypeInv, TypeOK, Underway
<1>8. CASE CellStep(c)
  BY <1>1, <1>8, TypeCell
<1> QED
  BY <1>3, <1>4, <1>5, <1>6, <1>7, <1>8 DEF CallThread

LEMMA TypeNext == TypeInv /\ [Next]_vars => TypeInv'
<1> SUFFICES ASSUME TypeInv, [Next]_vars PROVE TypeInv'
  OBVIOUS
<1>1. ASSUME NEW v \in Views, SetupStep(v) PROVE TypeInv'
  BY <1>1, TypeSetup
<1>2. ASSUME NEW w \in Workers, ParentStep(w) PROVE TypeInv'
  BY <1>2, TypeParent
<1>3. ASSUME NEW w \in Workers, CellStep(w) PROVE TypeInv'
  BY <1>3, TypeCell DEF Dispatchers
<1>4. ASSUME NEW w \in Workers, WorkerStep(w) PROVE TypeInv'
  BY <1>4, TypeWorker
<1>5. ASSUME NEW c \in Callers, BeginCall(c) \/ CallLocally(c) \/ CallThread(c) PROVE TypeInv'
  BY <1>5, TypeCaller
<1>6. CASE UNCHANGED vars
  BY <1>6 DEF vars, setupVars, parentVars, wireVars, workerVars, callVars, cellVars,
              TypeInv, TypeOK, Underway
<1> QED
  BY <1>1, <1>2, <1>3, <1>4, <1>5, <1>6 DEF Next, ParentThread, Ended

(* Every variable of HostedRpc keeps its type in every run.                *)
THEOREM TypeCorrect == Spec => []TypeInv
<1> QED
  BY TypeInit, TypeNext, PTL DEF Spec

-----------------------------------------------------------------------------
(* Whoever runs the owner holds the mutex of the cell, and after a panic    *)
(* nobody does.                                                             *)
CellInv ==
    /\ \A d \in Dispatchers : dpc[d] = "run" => holder = d
    /\ PoisonedOwnerIdle

LEMMA CellInit == Init => CellInv
  BY DEF Init, CellInv, PoisonedOwnerIdle

(* Only the cell's own steps let a dispatcher in.                          *)
LEMMA CellUntouched ==
    ASSUME CellInv, UNCHANGED <<holder, poisoned>>,
           \A d \in Dispatchers : dpc'[d] = "run" => dpc[d] = "run"
    PROVE  CellInv'
  BY DEF CellInv, PoisonedOwnerIdle

LEMMA CellStepInv ==
    ASSUME TypeInv, CellInv, NEW d \in Dispatchers, CellStep(d) PROVE CellInv'
<1>1. dpc \in [Dispatchers -> {"idle", "lock", "run", "done"}]
  BY DEF TypeInv, TypeOK
<1>2. CASE Enter(d)
  <2>1. \A e \in Dispatchers : dpc[e] # "run"
    BY <1>2, HostedRpcAssumption DEF Enter, CellInv, Dispatchers
  <2>2. CASE poisoned
    BY <1>1, <1>2, <2>1, <2>2 DEF Enter, CellInv, PoisonedOwnerIdle
  <2>3. CASE ~poisoned
    BY <1>1, <1>2, <2>1, <2>3 DEF Enter, CellInv, PoisonedOwnerIdle
  <2> QED
    BY <2>2, <2>3
<1>3. CASE Leave(d)
  <2>1. \A e \in Dispatchers : dpc'[e] # "run"
    BY <1>1, <1>3 DEF Leave, CellInv
  <2> QED
    BY <2>1 DEF CellInv, PoisonedOwnerIdle
<1> QED
  BY <1>2, <1>3 DEF CellStep

LEMMA CellBegin ==
    ASSUME TypeInv, NEW d \in Dispatchers, NEW req, BeginDispatch(d, req)
    PROVE  \A e \in Dispatchers : dpc'[e] = "run" => dpc[e] = "run"
<1>1. dpc \in [Dispatchers -> {"idle", "lock", "run", "done"}]
  BY DEF TypeInv, TypeOK
<1>2. dpc' = [dpc EXCEPT ![d] = "done"] \/ dpc' = [dpc EXCEPT ![d] = "lock"]
  BY DEF BeginDispatch
<1> QED
  BY <1>1, <1>2

LEMMA CellNext == TypeInv /\ CellInv /\ [Next]_vars => CellInv'
<1> SUFFICES ASSUME TypeInv, CellInv, [Next]_vars PROVE CellInv'
  OBVIOUS
<1> USE DEF cellVars
<1>1. dpc \in [Dispatchers -> {"idle", "lock", "run", "done"}]
  BY DEF TypeInv, TypeOK
<1>2. ASSUME NEW v \in Views, SetupStep(v) PROVE CellInv'
  BY <1>2, CellUntouched DEF SetupStep, Acquire, Install
<1>3. ASSUME NEW w \in Workers, ParentStep(w) PROVE CellInv'
  <2>1. w \in Dispatchers
    BY DEF Dispatchers
  <2>2. CASE ReceiveResponse(w)
    <3>1. CASE UNCHANGED cellVars
      BY <3>1, CellUntouched
    <3>2. CASE \E req : BeginDispatch(w, req) /\ UNCHANGED <<holder, poisoned>>
      BY <2>1, <3>2, CellBegin, CellUntouched
    <3> QED
      BY <2>2, <3>1, <3>2 DEF ReceiveResponse
  <2>3. CASE SendReply(w)
    <3>1. \A d \in Dispatchers : dpc'[d] = "run" => dpc[d] = "run"
      BY <1>1, <2>3 DEF SendReply
    <3> QED
      BY <2>3, <3>1, CellUntouched DEF SendReply
  <2>4. CASE SendRunTest(w) \/ Close(w) \/ Abort(w)
    BY <2>4, CellUntouched DEF SendRunTest, Close, Abort
  <2> QED
    BY <1>3, <2>2, <2>3, <2>4 DEF ParentStep
<1>4. ASSUME NEW w \in Workers, CellStep(w) PROVE CellInv'
  BY <1>4, CellStepInv DEF Dispatchers
<1>5. ASSUME NEW w \in Workers, WorkerStep(w) PROVE CellInv'
  BY <1>5, CellUntouched
  DEF WorkerStep, LockForCommand, ReadCommand, EndBody, FinishTest, LosesParent, StartLocalBody
<1>6. ASSUME NEW c \in Callers, BeginCall(c) \/ CallLocally(c) \/ CallThread(c) PROVE CellInv'
  <2>1. c \in Dispatchers
    BY DEF Dispatchers
  <2>2. CASE CallLocally(c)
    <3>1. \E req : BeginDispatch(c, req)
      BY <2>2 DEF CallLocally
    <3> QED
      BY <2>1, <2>2, <3>1, CellBegin, CellUntouched DEF CallLocally
  <2>3. CASE ReturnLocally(c)
    <3>1. \A d \in Dispatchers : dpc'[d] = "run" => dpc[d] = "run"
      BY <1>1, <2>3 DEF ReturnLocally
    <3> QED
      BY <2>3, <3>1, CellUntouched DEF ReturnLocally
  <2>4. CASE CellStep(c)
    BY <2>1, <2>4, CellStepInv
  <2>5. CASE BeginCall(c) \/ WriteCall(c) \/ ReadReply(c)
    BY <2>5, CellUntouched DEF BeginCall, WriteCall, ReadReply
  <2> QED
    BY <1>6, <2>2, <2>3, <2>4, <2>5 DEF CallThread
<1>7. CASE UNCHANGED vars
  BY <1>7, CellUntouched DEF vars
<1> QED
  BY <1>2, <1>3, <1>4, <1>5, <1>6, <1>7 DEF Next, ParentThread, Ended

(* However many workers, threads of the parent and detached callers there   *)
(* are, the owner is entered by one of them at a time                      *)
(* (HostedRpcOwnerCell::dispatch).                                          *)
THEOREM OwnerIsExclusive == Spec => []OwnerExclusive
<1>1. CellInv => OwnerExclusive
  BY DEF CellInv, OwnerExclusive
<1> QED
  BY <1>1, CellInit, CellNext, TypeCorrect, PTL DEF Spec

(* Once a method has panicked no dispatcher is in the owner, nor will be:   *)
(* also those that waited for the mutex meanwhile see the poison.           *)
THEOREM PoisonedOwnerStaysIdle == Spec => []PoisonedOwnerIdle
<1>1. CellInv => PoisonedOwnerIdle
  BY DEF CellInv
<1> QED
  BY <1>1, CellInit, CellNext, TypeCorrect, PTL DEF Spec

-----------------------------------------------------------------------------
(* The frames that are under way in a channel.                             *)
Frames(channel) == {channel[i] : i \in DOMAIN channel}

LEMMA FramesAppended ==
    ASSUME NEW S, NEW s \in Seq(S), NEW e \in S
    PROVE  Frames(Append(s, e)) \subseteq Frames(s) \cup {e}
  BY DEF Frames

LEMMA FramesRead ==
    ASSUME NEW S, NEW s \in Seq(S), s # <<>>
    PROVE  Frames(Tail(s)) \subseteq Frames(s) /\ Head(s) \in Frames(s)
<1>1. \A i \in DOMAIN Tail(s) : i + 1 \in DOMAIN s /\ Tail(s)[i] = s[i + 1]
  OBVIOUS
<1>2. 1 \in DOMAIN s /\ Head(s) = s[1]
  OBVIOUS
<1> QED
  BY <1>1, <1>2 DEF Frames

Waiting(c) == cpc[c] \in {"lock", "reply"}

(* A number that was given out belongs to one call: if a stub of the worker *)
(* waits under it, that call is the stub's.                                 *)
Labelled(w, f) ==
    /\ f.id < nextId[w]
    /\ \A c \in CallersOf(w) : Waiting(c) /\ request[c] = f.id => f.of = Call(c)

NumbersInv ==
    /\ \A c \in Callers : Waiting(c) => request[c] < nextId[Home[c]]
    /\ \A c, e \in Callers :
          Waiting(c) /\ Waiting(e) /\ Home[c] = Home[e] /\ request[c] = request[e] => c = e

LabelInv ==
    /\ \A w \in Workers :
          /\ \A f \in Frames(fromWorker[w]) : f.type = "HostedRpcCall" => Labelled(w, f)
          /\ \A f \in Frames(toWorker[w]) : f.type = "HostedRpcReply" => Labelled(w, f)
          /\ dpc[w] # "idle" => Labelled(w, serving[w])

LocalInv == \A c \in Callers : cpc[c] = "local" => serving[c].of = Call(c)

AnswerInv == NumbersInv /\ LabelInv /\ LocalInv /\ AnswersMatch

(* What most steps leave alone.                                            *)
LEMMA LabelsKept ==
    ASSUME UNCHANGED <<nextId, request, made>>, \A c \in Callers : Waiting(c)' => Waiting(c)
    PROVE  /\ \A w \in Workers : \A f : Labelled(w, f) => Labelled(w, f)'
           /\ NumbersInv => NumbersInv'
  BY DEF Labelled, NumbersInv, CallersOf, Call, Waiting

(* Steps that add no frame and no answer and begin no dispatch.            *)
LEMMA AnswerKept ==
    ASSUME AnswerInv, UNCHANGED <<nextId, request, made, answer, cpc, serving>>,
           \A w \in Workers :
              /\ \A f \in Frames(fromWorker'[w]) :
                    f.type = "HostedRpcCall" => f \in Frames(fromWorker[w])
              /\ \A f \in Frames(toWorker'[w]) :
                    f.type = "HostedRpcReply" => f \in Frames(toWorker[w])
              /\ dpc'[w] # "idle" => dpc[w] # "idle"
    PROVE  AnswerInv'
<1>1. \A c \in Callers : Waiting(c)' => Waiting(c)
  BY DEF Waiting
<1>2. NumbersInv' /\ \A w \in Workers : \A f : Labelled(w, f) => Labelled(w, f)'
  BY <1>1, LabelsKept DEF AnswerInv
<1>3. LabelInv'
  BY <1>2 DEF AnswerInv, LabelInv
<1>4. LocalInv' /\ AnswersMatch'
  BY DEF AnswerInv, LocalInv, AnswersMatch, Call
<1> QED
  BY <1>2, <1>3, <1>4 DEF AnswerInv

LEMMA AnswerInit == Init => AnswerInv
<1> SUFFICES ASSUME Init PROVE AnswerInv
  OBVIOUS
<1>1. \A c \in Callers : cpc[c] = "idle" /\ answer[c].kind = "none"
  BY DEF Init, NoAnswer, Answer
<1>2. \A w \in Workers : fromWorker[w] = <<>> /\ toWorker[w] = <<>> /\ dpc[w] = "idle"
  BY DEF Init, Dispatchers
<1>3. Frames(<<>>) = {}
  BY DEF Frames
<1>4. NumbersInv /\ LocalInv /\ AnswersMatch
  BY <1>1 DEF NumbersInv, LocalInv, AnswersMatch, Waiting
<1>5. LabelInv
  BY <1>2, <1>3 DEF LabelInv
<1> QED
  BY <1>4, <1>5 DEF AnswerInv

LEMMA AnswerSetup ==
    ASSUME AnswerInv, NEW v \in Views, SetupStep(v) PROVE AnswerInv'
  BY AnswerKept DEF SetupStep, Acquire, Install, wireVars, workerVars, callVars, cellVars

LEMMA AnswerCell ==
    ASSUME TypeInv, AnswerInv, NEW d \in Dispatchers, CellStep(d) PROVE AnswerInv'
<1>1. dpc \in [Dispatchers -> {"idle", "lock", "run", "done"}]
  BY DEF TypeInv, TypeOK
<1>2. \A w \in Workers : dpc'[w] # "idle" => dpc[w] # "idle"
  BY <1>1 DEF CellStep, Enter, Leave, Dispatchers
<1>3. UNCHANGED <<nextId, request, made, answer, cpc, serving, fromWorker, toWorker>>
  BY DEF CellStep, Enter, Leave, wireVars, workerVars, callVars
<1> QED
  BY <1>2, <1>3, AnswerKept

LEMMA AnswerParent ==
    ASSUME TypeInv, AnswerInv, NEW w \in Workers, ParentStep(w) PROVE AnswerInv'
<1> USE DEF wireVars, workerVars, callVars, cellVars
<1>1. /\ fromWorker \in [Workers -> Seq(Responses)] /\ toWorker \in [Workers -> Seq(Commands)]
      /\ dpc \in [Dispatchers -> {"idle", "lock", "run", "done"}]
      /\ serving \in [Dispatchers -> [id : Nat, of : Calls \cup {NoCall}]]
      /\ w \in Dispatchers
  BY DEF TypeInv, TypeOK, Dispatchers
<1>2. CASE SendRunTest(w)
  <2>1. RunTest \in Commands /\ RunTest.type # "HostedRpcReply"
    BY DEF Commands, RunTest, Command
  <2>2. toWorker' = [toWorker EXCEPT ![w] = Append(toWorker[w], RunTest)]
    BY <1>2 DEF SendRunTest, Push
  <2>3. \A x \in Workers : Frames(toWorker'[x]) \subseteq Frames(toWorker[x]) \cup {RunTest}
    BY <1>1, <2>1, <2>2, FramesAppended
  <2> QED
    BY <1>2, <2>1, <2>3, AnswerKept DEF SendRunTest
<1>3. CASE ReceiveResponse(w)
  <2> DEFINE frame == Head(fromWorker[w])
  <2>1. /\ frame \in Frames(fromWorker[w]) /\ frame \in Responses
        /\ Frames(Tail(fromWorker[w])) \subseteq Frames(fromWorker[w])
    BY <1>1, <1>3, FramesRead DEF ReceiveResponse
  <2>2. \A x \in Workers : Frames(fromWorker'[x]) \subseteq Frames(fromWorker[x])
    BY <1>1, <1>3, <2>1 DEF ReceiveResponse, Pop
  <2>3. CASE frame.type = "TestFinished"
    BY <1>3, <2>2, <2>3, AnswerKept DEF ReceiveResponse
  <2>4. CASE frame.type # "TestFinished"
    <3>1. frame.type = "HostedRpcCall"
      BY <2>1, <2>4 DEF Responses, TestFinished, Response
    <3>2. serving' = [serving EXCEPT ![w] = [id |-> frame.id, of |-> frame.of]]
      BY <1>3, <2>4 DEF ReceiveResponse, BeginDispatch
    <3>3. dpc' = [dpc EXCEPT ![w] = "done"] \/ dpc' = [dpc EXCEPT ![w] = "lock"]
      BY <1>3, <2>4 DEF ReceiveResponse, BeginDispatch
    <3>4. UNCHANGED <<nextId, request, made, answer, cpc, toWorker>>
      BY <1>3 DEF ReceiveResponse
    <3>5. NumbersInv' /\ \A x \in Workers : \A f : Labelled(x, f) => Labelled(x, f)'
      BY <3>4, LabelsKept DEF AnswerInv, Waiting
    <3>6. Labelled(w, frame)
      BY <2>1, <3>1 DEF AnswerInv, LabelInv
    <3>7. Labelled(w, serving'[w])
      BY <1>1, <3>2, <3>6 DEF Labelled
    <3>8. \A x \in Workers : dpc'[x] # "idle" => Labelled(x, serving'[x])
      BY <1>1, <3>2, <3>3, <3>7 DEF AnswerInv, LabelInv, Dispatchers
    <3>9. LabelInv'
      BY <2>2, <3>4, <3>5, <3>8 DEF AnswerInv, LabelInv
    <3>10. \A c \in Callers : serving'[c] = serving[c]
      BY <1>1, <3>2, HostedRpcAssumption DEF Dispatchers
    <3>11. LocalInv' /\ AnswersMatch'
      BY <3>4, <3>10 DEF AnswerInv, LocalInv, AnswersMatch, Call
    <3> QED
      BY <3>5, <3>9, <3>11 DEF AnswerInv
  <2> QED
    BY <2>3, <2>4
<1>4. CASE SendReply(w)
  <2> DEFINE reply == Reply(serving[w].id, dres[w], serving[w].of)
  <2>1. reply \in Commands
    BY <1>1, <1>4 DEF SendReply, Reply, Command, Commands, TypeInv, Underway
  <2>2. reply.id = serving[w].id /\ reply.of = serving[w].of
    BY DEF Reply, Command
  <2>3. Labelled(w, reply)
    BY <1>4, <2>2 DEF SendReply, AnswerInv, LabelInv, Labelled
  <2>4. toWorker' = [toWorker EXCEPT ![w] = Append(toWorker[w], reply)]
    BY <1>4 DEF SendReply, Push
  <2>5. /\ \A x \in Workers \ {w} : toWorker'[x] = toWorker[x]
        /\ Frames(toWorker'[w]) \subseteq Frames(toWorker[w]) \cup {reply}
    BY <1>1, <2>1, <2>4, FramesAppended
  <2>6. UNCHANGED <<nextId, request, made, answer, cpc, fromWorker>>
    BY <1>4 DEF SendReply
  <2>7. NumbersInv' /\ \A x \in Workers : \A f : Labelled(x, f) => Labelled(x, f)'
    BY <2>6, LabelsKept DEF AnswerInv, Waiting
  <2>8. /\ \A d \in Dispatchers \ {w} : serving'[d] = serving[d] /\ dpc'[d] = dpc[d]
        /\ dpc'[w] = "idle"
    BY <1>1, <1>4 DEF SendReply
  <2> HIDE DEF reply
  <2>9. LabelInv'
    BY <2>3, <2>5, <2>6, <2>7, <2>8 DEF AnswerInv, LabelInv, Dispatchers
  <2>10. LocalInv' /\ AnswersMatch'
    BY <2>6, <2>8, HostedRpcAssumption DEF AnswerInv, LocalInv, AnswersMatch, Call, Dispatchers
  <2> QED
    BY <2>7, <2>9, <2>10 DEF AnswerInv
<1>5. CASE Close(w)
  BY <1>5, AnswerKept DEF Close
<1>6. CASE Abort(w)
  BY <1>6, AnswerKept DEF Abort
<1> QED
  BY <1>2, <1>3, <1>4, <1>5, <1>6 DEF ParentStep

LEMMA AnswerWorker ==
    ASSUME TypeInv, AnswerInv, NEW w \in Workers, WorkerStep(w) PROVE AnswerInv'
<1> USE DEF wireVars, workerVars, callVars, cellVars
<1>1. fromWorker \in [Workers -> Seq(Responses)] /\ toWorker \in [Workers -> Seq(Commands)]
  BY DEF TypeInv, TypeOK
<1>2. CASE ReadCommand(w)
  <2>1. \A x \in Workers : Frames(toWorker'[x]) \subseteq Frames(toWorker[x])
    <3>1. CASE toWorker' = [toWorker EXCEPT ![w] = Tail(toWorker[w])] /\ toWorker[w] # <<>>
      BY <1>1, <3>1, FramesRead
    <3>2. CASE UNCHANGED toWorker
      BY <3>2
    <3> QED
      BY <1>2, <3>1, <3>2 DEF ReadCommand, Pop
  <2> QED
    BY <1>2, <2>1, AnswerKept DEF ReadCommand
<1>3. CASE FinishTest(w)
  <2>1. TestFinished \in Responses /\ TestFinished.type # "HostedRpcCall"
    BY DEF Responses, TestFinished, Response
  <2>2. fromWorker' = [fromWorker EXCEPT ![w] = Append(fromWorker[w], TestFinished)]
    BY <1>3 DEF FinishTest, Push
  <2>3. \A x \in Workers : Frames(fromWorker'[x]) \subseteq Frames(fromWorker[x]) \cup {TestFinished}
    BY <1>1, <2>1, <2>2, FramesAppended
  <2> QED
    BY <1>3, <2>1, <2>3, AnswerKept DEF FinishTest
<1>4. CASE LockForCommand(w) \/ EndBody(w) \/ LosesParent(w) \/ StartLocalBody(w)
  BY <1>4, AnswerKept DEF LockForCommand, EndBody, LosesParent, StartLocalBody
<1> QED
  BY <1>2, <1>3, <1>4 DEF WorkerStep

LEMMA AnswerCaller ==
    ASSUME TypeInv, AnswerInv, NEW c \in Callers,
           BeginCall(c) \/ CallLocally(c) \/ WriteCall(c) \/ ReadReply(c) \/ ReturnLocally(c)
    PROVE  AnswerInv'
<1> USE DEF wireVars, workerVars, callVars, cellVars
<1>1. /\ c \in Dispatchers /\ c \notin Workers /\ Home \in [Callers -> Workers]
      /\ Home[c] \in Workers
  BY HostedRpcAssumption DEF Dispatchers
<1>2. /\ fromWorker \in [Workers -> Seq(Responses)] /\ toWorker \in [Workers -> Seq(Commands)]
      /\ nextId \in [Workers -> Nat] /\ request \in [Callers -> Nat] /\ made \in [Callers -> Nat]
      /\ cpc \in [Callers -> {"idle", "lock", "reply", "local"}]
      /\ dpc \in [Dispatchers -> {"idle", "lock", "run", "done"}]
      /\ serving \in [Dispatchers -> [id : Nat, of : Calls \cup {NoCall}]]
      /\ answer \in [Callers -> [kind : {"none", "ok", "dispatch", "transport"},
                                of : Calls \cup {NoCall}]]
  BY DEF TypeInv, TypeOK
<1>3. NumbersInv /\ LabelInv /\ LocalInv /\ AnswersMatch
  BY DEF AnswerInv
<1>4. CASE BeginCall(c)
  <2>1. /\ request' = [request EXCEPT ![c] = nextId[Home[c]]]
        /\ nextId' = [nextId EXCEPT ![Home[c]] = @ + 1]
        /\ made' = [made EXCEPT ![c] = @ + 1]
        /\ answer' = [answer EXCEPT ![c] = NoAnswer]
        /\ cpc' = [cpc EXCEPT ![c] = "lock"]
        /\ UNCHANGED <<fromWorker, toWorker, dpc, serving>>
    BY <1>4 DEF BeginCall
  <2>2. NumbersInv'
    <3>1. /\ request'[c] = nextId[Home[c]] /\ nextId'[Home[c]] = nextId[Home[c]] + 1
          /\ \A e \in Callers \ {c} : request'[e] = request[e] /\ (Waiting(e)' => Waiting(e))
          /\ \A w \in Workers : nextId[w] \in Nat /\ nextId'[w] >= nextId[w]
      BY <1>1, <1>2, <2>1 DEF Waiting
    <3>2. ASSUME NEW e \in Callers, Waiting(e)' PROVE request'[e] < nextId'[Home[e]]
      <4>1. Home[e] \in Workers /\ request[e] \in Nat
        BY <1>1, <1>2
      <4>2. CASE e = c
        BY <1>1, <3>1, <4>2
      <4>3. CASE e # c
        BY <1>3, <2>1, <3>1, <3>2, <4>1, <4>3 DEF NumbersInv
      <4> QED
        BY <4>2, <4>3
    <3>3. ASSUME NEW e \in Callers \ {c}, Waiting(e)', Home[e] = Home[c]
          PROVE  request'[e] # request'[c]
      <4>1. request[e] < nextId[Home[c]] /\ request[e] \in Nat
        BY <1>2, <1>3, <3>1, <3>3 DEF NumbersInv
      <4> QED
        BY <1>1, <3>1, <4>1
    <3>4. ASSUME NEW e \in Callers \ {c}, NEW g \in Callers \ {c}, Waiting(e)', Waiting(g)',
                 Home[e] = Home[g], request'[e] = request'[g]
          PROVE  e = g
      BY <1>3, <3>1, <3>4 DEF NumbersInv
    <3> QED
      BY <3>2, <3>3, <3>4 DEF NumbersInv
  <2>3. ASSUME NEW w \in Workers, NEW f, f.id \in Nat, Labelled(w, f) PROVE Labelled(w, f)'
    BY <1>1, <1>2, <2>1, <2>3 DEF Labelled, CallersOf, Waiting, Call
  <2>4. LabelInv'
    <3>1. ASSUME NEW w \in Workers, NEW f \in Frames(fromWorker[w]), f.type = "HostedRpcCall"
          PROVE  Labelled(w, f)'
      <4>1. f.id \in Nat
        BY <1>2, <3>1 DEF Frames, Responses, TestFinished, Response
      <4> QED
        BY <1>3, <2>3, <3>1, <4>1 DEF LabelInv
    <3>2. ASSUME NEW w \in Workers, NEW f \in Frames(toWorker[w]), f.type = "HostedRpcReply"
          PROVE  Labelled(w, f)'
      <4>1. f.id \in Nat
        BY <1>2, <3>2 DEF Frames, Commands, RunTest, Command
      <4> QED
        BY <1>3, <2>3, <3>2, <4>1 DEF LabelInv
    <3>3. ASSUME NEW w \in Workers, dpc[w] # "idle" PROVE Labelled(w, serving[w])'
      <4>1. serving[w].id \in Nat
        BY <1>2 DEF Dispatchers
      <4>2. Labelled(w, serving[w])
        BY <1>3, <3>3 DEF LabelInv
      <4> QED
        BY <1>1, <1>2, <2>1, <4>1, <4>2 DEF Labelled, CallersOf, Waiting, Call
    <3> QED
      BY <2>1, <3>1, <3>2, <3>3 DEF LabelInv
  <2>5. LocalInv' /\ AnswersMatch'
    BY <1>2, <1>3, <2>1 DEF LocalInv, AnswersMatch, Call, NoAnswer, Answer
  <2> QED
    BY <2>2, <2>4, <2>5 DEF AnswerInv
<1>5. CASE CallLocally(c)
  <2>1. /\ cpc' = [cpc EXCEPT ![c] = "local"]
        /\ made' = [made EXCEPT ![c] = @ + 1]
        /\ answer' = [answer EXCEPT ![c] = NoAnswer]
        /\ serving' = [serving EXCEPT ![c] = [id |-> 0, of |-> <<c, made[c] + 1>>]]
        /\ cpc[c] = "idle"
        /\ UNCHANGED <<fromWorker, toWorker, nextId, request>>
    BY <1>5 DEF CallLocally, BeginDispatch
  <2>2. dpc' = [dpc EXCEPT ![c] = "done"] \/ dpc' = [dpc EXCEPT ![c] = "lock"]
    BY <1>5 DEF CallLocally, BeginDispatch
  <2>3. \A w \in Workers : dpc'[w] = dpc[w] /\ serving'[w] = serving[w]
    BY <1>1, <1>2, <2>1, <2>2 DEF Dispatchers
  <2>4. NumbersInv'
    BY <1>2, <1>3, <2>1 DEF NumbersInv, Waiting
  <2>5. \A w \in Workers : \A f : Labelled(w, f) => Labelled(w, f)'
    BY <1>2, <2>1 DEF Labelled, CallersOf, Waiting, Call
  <2>6. LabelInv'
    BY <1>3, <2>1, <2>3, <2>5 DEF LabelInv
  <2>7. LocalInv'
    BY <1>1, <1>2, <1>3, <2>1 DEF LocalInv, Call, Dispatchers
  <2>8. AnswersMatch'
    BY <1>2, <1>3, <2>1 DEF AnswersMatch, Call, NoAnswer, Answer
  <2> QED
    BY <2>4, <2>6, <2>7, <2>8 DEF AnswerInv
<1>6. CASE WriteCall(c)
  <2>1. /\ UNCHANGED <<nextId, request, made, dpc, serving, toWorker>>
        /\ cpc' = [cpc EXCEPT ![c] = "idle"] \/ cpc' = [cpc EXCEPT ![c] = "reply"]
        /\ cpc[c] = "lock"
    BY <1>6 DEF WriteCall
  <2>2. \A e \in Callers : Waiting(e)' => Waiting(e)
    BY <1>2, <2>1 DEF Waiting
  <2>3. NumbersInv' /\ \A w \in Workers : \A f : Labelled(w, f) => Labelled(w, f)'
    BY <1>3, <2>1, <2>2, LabelsKept
  <2>4. Labelled(Home[c], RpcCall(c))
    BY <1>3, <2>1 DEF NumbersInv, Labelled, CallersOf, Waiting, RpcCall, Response
  <2>5. RpcCall(c) \in Responses
    BY <1>2, CallIsCall DEF RpcCall, Response, Responses, TypeInv
  <2>6. \A w \in Workers : \A f \in Frames(fromWorker'[w]) :
            f \in Frames(fromWorker[w]) \/ (w = Home[c] /\ f = RpcCall(c))
    <3>1. CASE fromWorker' = [fromWorker EXCEPT ![Home[c]] = Append(fromWorker[Home[c]], RpcCall(c))]
      <4>1. Frames(Append(fromWorker[Home[c]], RpcCall(c)))
                \subseteq Frames(fromWorker[Home[c]]) \cup {RpcCall(c)}
        BY <1>1, <1>2, <2>5, FramesAppended
      <4> QED
        BY <1>1, <1>2, <3>1, <4>1
    <3>2. CASE UNCHANGED fromWorker
      BY <3>2
    <3> QED
      BY <1>6, <3>1, <3>2 DEF WriteCall, Push
  <2>7. LabelInv'
    BY <1>3, <2>1, <2>3, <2>4, <2>6 DEF LabelInv
  <2>8. LocalInv'
    BY <1>2, <1>3, <2>1 DEF LocalInv, Call
  <2>9. AnswersMatch'
    <3>1. answer' = [answer EXCEPT ![c] = Answer("transport", NoCall)] \/ UNCHANGED answer
      BY <1>6 DEF WriteCall
    <3>2. \A e \in Callers \ {c} : answer'[e] = answer[e]
      BY <1>2, <3>1
    <3>3. answer'[c].kind = "transport" \/ answer'[c] = answer[c]
      BY <1>2, <3>1 DEF Answer
    <3> QED
      BY <1>3, <2>1, <3>2, <3>3 DEF AnswersMatch, Call
  <2> QED
    BY <2>3, <2>7, <2>8, <2>9 DEF AnswerInv
<1>7. CASE ReadReply(c)
  <2>1. /\ UNCHANGED <<nextId, request, made, dpc, serving, fromWorker>>
        /\ cpc' = [cpc EXCEPT ![c] = "idle"] /\ cpc[c] = "reply"
    BY <1>7 DEF ReadReply
  <2>2. \A e \in Callers : Waiting(e)' => Waiting(e)
    BY <1>2, <2>1 DEF Waiting
  <2>3. NumbersInv' /\ \A w \in Workers : \A f : Labelled(w, f) => Labelled(w, f)'
    BY <1>3, <2>1, <2>2, LabelsKept
  <2>4. LocalInv'
    BY <1>2, <1>3, <2>1 DEF LocalInv, Call
  <2>5. CASE /\ toWorker[Home[c]] # <<>>
             /\ toWorker' = [toWorker EXCEPT ![Home[c]] = Tail(toWorker[Home[c]])]
             /\ answer' = [answer EXCEPT ![c] = AnswerFrom(c, Head(toWorker[Home[c]]))]
    <3> DEFINE frame == Head(toWorker[Home[c]])
    <3>1. frame \in Frames(toWorker[Home[c]])
          /\ \A w \in Workers : Frames(toWorker'[w]) \subseteq Frames(toWorker[w])
      BY <1>1, <1>2, <2>5, FramesRead
    <3>2. LabelInv'
      BY <1>3, <2>1, <2>3, <3>1 DEF LabelInv
    <3>3. ASSUME AnswerFrom(c, frame).kind \in {"ok", "dispatch"}
          PROVE  AnswerFrom(c, frame).of = Call(c)
      <4>1. frame.type = "HostedRpcReply" /\ frame.id = request[c]
        BY <3>3 DEF AnswerFrom, Answer
      <4>2. AnswerFrom(c, frame).of = frame.of
        BY <4>1 DEF AnswerFrom, Answer
      <4>3. Labelled(Home[c], frame)
        BY <1>1, <1>3, <3>1, <4>1 DEF LabelInv
      <4> QED
        BY <2>1, <4>1, <4>2, <4>3 DEF Labelled, CallersOf, Waiting
    <3>4. AnswersMatch'
      BY <1>2, <1>3, <2>1, <2>5, <3>3 DEF AnswersMatch, Call
    <3> QED
      BY <2>3, <2>4, <3>2, <3>4 DEF AnswerInv
  <2>6. CASE UNCHANGED toWorker /\ answer' = [answer EXCEPT ![c] = Answer("transport", NoCall)]
    <3>1. LabelInv'
      BY <1>3, <2>1, <2>3, <2>6 DEF LabelInv
    <3>2. AnswersMatch'
      BY <1>2, <1>3, <2>1, <2>6 DEF AnswersMatch, Call, Answer
    <3> QED
      BY <2>3, <2>4, <3>1, <3>2 DEF AnswerInv
  <2> QED
    BY <1>7, <2>5, <2>6 DEF ReadReply, Pop
<1>8. CASE ReturnLocally(c)
  <2>1. /\ UNCHANGED <<nextId, request, made, fromWorker, toWorker>>
        /\ cpc' = [cpc EXCEPT ![c] = "idle"] /\ cpc[c] = "local"
        /\ answer' = [answer EXCEPT ![c] = Answer(IF dres[c] = "ok" THEN "ok" ELSE "dispatch",
                                                 serving[c].of)]
        /\ dpc' = [dpc EXCEPT ![c] = "idle"]
        /\ serving' = [serving EXCEPT ![c] = NoRequest]
    BY <1>8 DEF ReturnLocally
  <2>2. \A e \in Callers : Waiting(e)' => Waiting(e)
    BY <1>2, <2>1 DEF Waiting
  <2>3. NumbersInv' /\ \A w \in Workers : \A f : Labelled(w, f) => Labelled(w, f)'
    BY <1>3, <2>1, <2>2, LabelsKept
  <2>4. \A w \in Workers : dpc'[w] = dpc[w] /\ serving'[w] = serving[w]
    BY <1>1, <1>2, <2>1 DEF Dispatchers
  <2>5. LabelInv'
    BY <1>3, <2>1, <2>3, <2>4 DEF LabelInv
  <2>6. LocalInv'
    BY <1>2, <1>3, <2>1 DEF LocalInv, Call, Dispatchers
  <2>7. AnswersMatch'
    BY <1>2, <1>3, <2>1 DEF AnswersMatch, LocalInv, Call, Answer
  <2> QED
    BY <2>3, <2>5, <2>6, <2>7 DEF AnswerInv
<1> QED
  BY <1>4, <1>5, <1>6, <1>7, <1>8

LEMMA AnswerNext == TypeInv /\ AnswerInv /\ [Next]_vars => AnswerInv'
<1> SUFFICES ASSUME TypeInv, AnswerInv, [Next]_vars PROVE AnswerInv'
  OBVIOUS
<1>1. ASSUME NEW v \in Views, SetupStep(v) PROVE AnswerInv'
  BY <1>1, AnswerSetup
<1>2. ASSUME NEW w \in Workers, ParentThread(w) \/ WorkerStep(w) PROVE AnswerInv'
  BY <1>2, AnswerParent, AnswerCell, AnswerWorker DEF ParentThread, Dispatchers
<1>3. ASSUME NEW c \in Callers, BeginCall(c) \/ CallLocally(c) \/ CallThread(c) PROVE AnswerInv'
  BY <1>3, AnswerCaller, AnswerCell DEF CallThread, Dispatchers
<1>4. CASE UNCHANGED vars
  BY <1>4, AnswerKept DEF vars, wireVars, workerVars, callVars, cellVars
<1> QED
  BY <1>1, <1>2, <1>3, <1>4 DEF Next, Ended

(* A stub never takes the answer to another call for its own, even when     *)
(* detached callers and the command loop read each other's frames          *)
(* (the check of request_id in IpcHostedRpcTransport::call).                *)
THEOREM AnswersAreOwn == Spec => []AnswersMatch
<1>1. AnswerInv => AnswersMatch
  BY DEF AnswerInv
<1> QED
  BY <1>1, AnswerInit, AnswerNext, TypeCorrect, PTL DEF Spec

-----------------------------------------------------------------------------
(* A view that is done holds the owner of the cache, which therefore never  *)
(* expires again.                                                           *)
SharedInv ==
    \A v \in Views :
        /\ views[v] = "built" => held[v] # NoOwner
        /\ views[v] = "done" => held[v] = cache /\ cache # NoOwner

LEMMA SharedSetup ==
    ASSUME TypeInv, SharedInv, NEW v \in Views, SetupStep(v) PROVE SharedInv'
<1>1. /\ views \in [Views -> {"idle", "built", "done"}] /\ held \in [Views -> Nat]
      /\ cache \in Nat /\ built \in Nat
  BY DEF TypeInv, TypeOK
<1>2. (\E u \in Views : views[u] = "done") => Upgraded
  BY DEF SharedInv, Upgraded
<1>3. CASE Acquire(v)
  <2>1. CASE Upgraded
    BY <1>1, <1>3, <2>1 DEF Acquire, SharedInv, Upgraded
  <2>2. CASE ~Upgraded
    BY <1>1, <1>2, <1>3, <2>2 DEF Acquire, SharedInv, NoOwner
  <2> QED
    BY <2>1, <2>2
<1>4. CASE Install(v)
  <2>1. CASE Upgraded
    BY <1>1, <1>4, <2>1 DEF Install, SharedInv, Upgraded
  <2>2. CASE ~Upgraded
    BY <1>1, <1>2, <1>4, <2>2 DEF Install, SharedInv
  <2> QED
    BY <2>1, <2>2
<1> QED
  BY <1>3, <1>4 DEF SetupStep

LEMMA SharedNext == TypeInv /\ SharedInv /\ [Next]_vars => SharedInv'
<1> SUFFICES ASSUME TypeInv, SharedInv, [Next]_vars PROVE SharedInv'
  OBVIOUS
<1>1. ASSUME NEW v \in Views, SetupStep(v) PROVE SharedInv'
  BY <1>1, SharedSetup
<1>2. CASE UNCHANGED <<views, held, cache>>
  BY <1>2 DEF SharedInv
<1>3. ASSUME NEW w \in Workers, ParentThread(w) \/ WorkerStep(w)
      PROVE  UNCHANGED <<views, held, cache>>
  BY <1>3
  DEF ParentThread, ParentStep, CellStep, WorkerStep, SendRunTest, ReceiveResponse, SendReply,
      Close, Abort, Enter, Leave, LockForCommand, ReadCommand, EndBody, FinishTest, LosesParent,
      StartLocalBody, setupVars
<1>4. ASSUME NEW c \in Callers, BeginCall(c) \/ CallLocally(c) \/ CallThread(c)
      PROVE  UNCHANGED <<views, held, cache>>
  BY <1>4
  DEF CallThread, CellStep, BeginCall, CallLocally, WriteCall, ReadReply, ReturnLocally, Enter,
      Leave, setupVars
<1>5. CASE UNCHANGED vars
  BY <1>2, <1>5 DEF vars, setupVars
<1> QED
  BY <1>1, <1>2, <1>3, <1>4, <1>5 DEF Next, Ended

(* Both views of worker = both end up with one owner, however their         *)
(* constructors overlap (the second look at the Weak cache of the acquire   *)
(* helper).                                                                 *)
THEOREM OneOwnerForBothViews == Spec => []ViewsShareOwner
<1>1. SharedInv => ViewsShareOwner
  BY DEF SharedInv, ViewsShareOwner, Collected, Views
<1>2. Init => SharedInv
  BY DEF Init, SharedInv
<1> QED
  BY <1>1, <1>2, SharedNext, TypeCorrect, PTL DEF Spec
-----------------------------------------------------------------------------
(* The worker is at its command loop, or has run all its tests.            *)
AtLoop(w) == wpc[w] \in {"free", "reading"} \/ (wpc[w] = "gone" /\ tests[w] = NumTests[w])

(* The stub that holds the connection waits for its reply.                 *)
InCall(w) == conn[w] \in CallersOf(w) /\ wpc[w] = "body"

(* What is under way between the two ends of a connection: nothing, ...    *)
AtRest(w) ==
    /\ pc[w] \in {"between", "exit"} /\ toWorker[w] = <<>> /\ fromWorker[w] = <<>>
    /\ AtLoop(w) /\ (pc[w] = "exit" => tests[w] = NumTests[w])

(* ... a test the command loop has not read, ...                           *)
Told(w) ==
    /\ pc[w] = "await" /\ toWorker[w] = <<RunTest>> /\ fromWorker[w] = <<>>
    /\ wpc[w] \in {"free", "reading"}

(* ... a test that runs, ...                                               *)
Testing(w) ==
    /\ pc[w] = "await" /\ toWorker[w] = <<>> /\ fromWorker[w] = <<>>
    /\ wpc[w] \in {"body", "finishing"} /\ conn[w] = Nobody

(* ... a call of a stub the parent has not read, ...                       *)
Asking(w) ==
    /\ pc[w] = "await" /\ toWorker[w] = <<>> /\ InCall(w)
    /\ fromWorker[w] = <<RpcCall(conn[w])>>

(* ... one it serves, ...                                                  *)
Serving(w) ==
    /\ pc[w] = "dispatch" /\ toWorker[w] = <<>> /\ fromWorker[w] = <<>>
    /\ InCall(w) /\ serving[w].id = request[conn[w]]

(* ... one whose reply the stub has not read, ...                          *)
Answered(w) ==
    /\ pc[w] = "await" /\ fromWorker[w] = <<>> /\ InCall(w)
    /\ \E frame \in Commands : /\ toWorker[w] = <<frame>> /\ frame.type = "HostedRpcReply"
                               /\ frame.id = request[conn[w]]

(* ... or a result the parent has not read.                                *)
Reporting(w) ==
    /\ pc[w] = "await" /\ toWorker[w] = <<>> /\ fromWorker[w] = <<TestFinished>>
    /\ AtLoop(w)

Talk(w) ==
    AtRest(w) \/ Told(w) \/ Testing(w) \/ Asking(w) \/ Serving(w) \/ Answered(w) \/ Reporting(w)

(* Who holds the connection, and who calls.                                *)
Line(w) ==
    /\ conn[w] = w <=> wpc[w] = "reading"
    /\ \A c \in Callers : conn[w] = c <=> (Home[c] = w /\ cpc[c] = "reply")
    /\ wpc[w] # "body" => \A c \in CallersOf(w) : cpc[c] = "idle"
    /\ \A c \in CallersOf(w) : cpc[c] # "local"
    /\ dpc[w] # "idle" => pc[w] = "dispatch"

(* Without worker processes the connections are not used.                  *)
NoTalk ==
    /\ \A w \in Workers : /\ pc[w] = "between" /\ dpc[w] = "idle" /\ toWorker[w] = <<>>
                          /\ wpc[w] \in {"free", "body", "gone"}
    /\ \A c \in Callers : cpc[c] \in {"idle", "local"}

NoTransportError == \A c \in Callers : answer[c].kind # "transport"

(* As long as no call strays, each connection carries one frame at most,   *)
(* and it is the one the reader waits for.                                 *)
StepInv ==
    ~strayed =>
        /\ ~aborted
        /\ NoTransportError
        /\ mode = "workers" => \A w \in Workers : Talk(w) /\ Line(w)
        /\ mode = "local" => NoTalk

LEMMA StepInit == Init => StepInv
  BY HostedRpcAssumption
  DEF Init, StepInv, Talk, AtRest, AtLoop, Line, NoTalk, NoTransportError, NoAnswer, CallersOf,
      Dispatchers

LEMMA StepImplies == TypeOK /\ StepInv => InStepUnderContract
<1> SUFFICES ASSUME TypeOK, StepInv, ~strayed PROVE InStepUnderContract
  BY DEF InStepUnderContract
<1>1. ASSUME NEW w \in Workers, wpc[w] \in {"free", "reading"}, mode = "workers"
      PROVE  toWorker[w] = <<>> \/ toWorker[w] = <<RunTest>>
  BY <1>1
  DEF StepInv, Talk, AtRest, Told, Testing, Asking, Serving, Answered, Reporting, InCall
<1>2. ASSUME NEW w \in Workers, mode = "local" PROVE toWorker[w] = <<>>
  BY <1>2 DEF StepInv, NoTalk
<1>3. mode = "workers" \/ mode = "local"
  BY DEF TypeOK, Modes
<1>4. ASSUME NEW w \in Workers, wpc[w] \in {"free", "reading"}, NEW i \in DOMAIN toWorker[w]
      PROVE  toWorker[w][i] = RunTest
  BY <1>1, <1>2, <1>3, <1>4
<1> QED
  BY <1>4 DEF StepInv, NoTransportError, InStepUnderContract

(* A connection is as it was when neither end does anything.               *)
LEMMA TalkKept ==
    ASSUME NEW w \in Workers, Talk(w), Line(w),
           pc'[w] = pc[w], toWorker'[w] = toWorker[w], fromWorker'[w] = fromWorker[w],
           wpc'[w] = wpc[w], tests'[w] = tests[w], conn'[w] = conn[w],
           dpc[w] # "idle" => serving'[w] = serving[w],
           pc[w] = "dispatch" => serving'[w] = serving[w],
           dpc'[w] # "idle" => dpc[w] # "idle",
           \A c \in CallersOf(w) : cpc'[c] = cpc[c] /\ request'[c] = request[c] /\ made'[c] = made[c]
    PROVE  Talk(w)' /\ Line(w)'
<1>1. (AtLoop(w) => AtLoop(w)') /\ (InCall(w) => InCall(w)')
  BY DEF AtLoop, InCall, CallersOf
<1>2. Line(w)'
  BY DEF Line, CallersOf
<1>3. CASE AtRest(w) \/ Told(w) \/ Testing(w) \/ Reporting(w)
  BY <1>1, <1>2, <1>3 DEF Talk, AtRest, Told, Testing, Reporting
<1>4. CASE Asking(w)
  <2>1. RpcCall(conn[w])' = RpcCall(conn[w])
    BY <1>4 DEF Asking, InCall, RpcCall, Response, Call
  <2> QED
    BY <1>1, <1>2, <1>4, <2>1 DEF Talk, Asking
<1>5. CASE Serving(w)
  BY <1>1, <1>2, <1>5 DEF Talk, Serving, InCall
<1>6. CASE Answered(w)
  BY <1>1, <1>2, <1>6 DEF Talk, Answered, InCall
<1> QED
  BY <1>2, <1>3, <1>4, <1>5, <1>6 DEF Talk

(* What StepInv says of the connections of workers.                        *)
InStep == ~aborted /\ NoTransportError /\ \A w \in Workers : Talk(w) /\ Line(w)

LEMMA HomesDiffer ==
    ASSUME NEW w \in Workers, NEW x \in Workers \ {w} PROVE CallersOf(w) \cap CallersOf(x) = {}
  BY DEF CallersOf

(* The parent's thread of a worker.                                        *)
LEMMA StepParent ==
    ASSUME TypeInv, InStep, NEW w \in Workers, ParentStep(w) PROVE InStep'
<1> USE DEF setupVars, parentVars, wireVars, workerVars, callVars, cellVars
<1>1. /\ pc \in [Workers -> {"between", "await", "dispatch", "exit"}]
      /\ tests \in [Workers -> Nat]
      /\ toWorker \in [Workers -> Seq(Commands)] /\ fromWorker \in [Workers -> Seq(Responses)]
      /\ dpc \in [Dispatchers -> {"idle", "lock", "run", "done"}]
      /\ dres \in [Dispatchers -> {"none", "ok", "err"}]
      /\ serving \in [Dispatchers -> [id : Nat, of : Calls \cup {NoCall}]]
      /\ request \in [Callers -> Nat]
      /\ w \in Dispatchers /\ Workers \subseteq Dispatchers
  BY DEF TypeInv, TypeOK, Dispatchers
<1>2. Talk(w) /\ Line(w) /\ ~aborted /\ NoTransportError
  BY DEF InStep
<1> DEFINE Others == \A x \in Workers \ {w} :
                        /\ pc'[x] = pc[x] /\ toWorker'[x] = toWorker[x]
                        /\ fromWorker'[x] = fromWorker[x] /\ tests'[x] = tests[x]
                        /\ serving'[x] = serving[x] /\ dpc'[x] = dpc[x]
<1>3. ASSUME UNCHANGED <<wpc, conn, cpc, request, made, answer, aborted>>, Others,
             Talk(w)', Line(w)'
      PROVE  InStep'
  <2>1. ASSUME NEW x \in Workers \ {w} PROVE Talk(x)' /\ Line(x)'
    BY <1>3, TalkKept DEF InStep
  <2> QED
    BY <1>2, <1>3, <2>1 DEF InStep, NoTransportError
<1>4. CASE SendRunTest(w)
  <2>1. UNCHANGED <<wpc, conn, cpc, request, made, answer, aborted>> /\ Others
    BY <1>1, <1>4 DEF SendRunTest, Push
  <2>2. AtRest(w) /\ wpc[w] \in {"free", "reading"}
    BY <1>2, <1>4 DEF SendRunTest, Talk, AtRest, AtLoop, Told, Testing, Asking, Serving, Answered,
                      Reporting
  <2>3. toWorker'[w] = <<RunTest>>
    BY <1>1, <1>4, <2>2 DEF SendRunTest, Push, AtRest
  <2>4. Told(w)'
    BY <1>1, <1>4, <2>2, <2>3 DEF SendRunTest, Told, AtRest
  <2>5. Line(w)'
    BY <1>1, <1>2, <1>4 DEF SendRunTest, Line, CallersOf
  <2> HIDE DEF Others
  <2> QED
    BY <1>3, <2>1, <2>4, <2>5 DEF Talk
<1>5. CASE ReceiveResponse(w)
  <2>1. UNCHANGED <<wpc, conn, cpc, request, made, answer, aborted, tests, toWorker>>
    BY <1>5 DEF ReceiveResponse
  <2>2. pc[w] = "await" /\ fromWorker[w] # <<>> /\ fromWorker' = [fromWorker EXCEPT ![w] = Tail(@)]
    BY <1>5 DEF ReceiveResponse, Pop
  <2>3. Asking(w) \/ Reporting(w)
    BY <1>2, <2>2 DEF Talk, AtRest, Told, Testing, Serving, Answered
  <2>4. CASE Reporting(w)
    <3>1. fromWorker'[w] = <<>> /\ Head(fromWorker[w]).type = "TestFinished"
      BY <1>1, <2>2, <2>4 DEF Reporting, TestFinished, Response
    <3>2. pc' = [pc EXCEPT ![w] = "between"] /\ UNCHANGED <<dpc, serving>>
      BY <1>5, <3>1 DEF ReceiveResponse
    <3>3. Others
      BY <1>1, <2>1, <2>2, <3>2
    <3>4. AtRest(w)'
      BY <1>1, <2>1, <2>4, <3>1, <3>2 DEF AtRest, Reporting, AtLoop
    <3>5. Line(w)'
      BY <1>1, <1>2, <2>1, <2>2, <3>2 DEF Line, CallersOf
    <3> HIDE DEF Others
    <3> QED
      BY <1>3, <2>1, <3>3, <3>4, <3>5 DEF Talk
  <2>5. CASE Asking(w)
    <3> DEFINE frame == Head(fromWorker[w])
    <3>1. fromWorker'[w] = <<>> /\ frame = RpcCall(conn[w])
      BY <1>1, <2>2, <2>5 DEF Asking
    <3>2. frame.type # "TestFinished" /\ frame.id = request[conn[w]]
      BY <3>1 DEF RpcCall, Response
    <3>3. pc' = [pc EXCEPT ![w] = "dispatch"] /\ BeginDispatch(w, [id |-> frame.id, of |-> frame.of])
      BY <1>5, <3>2 DEF ReceiveResponse
    <3>4. serving' = [serving EXCEPT ![w] = [id |-> frame.id, of |-> frame.of]]
      BY <3>3 DEF BeginDispatch
    <3>5. \A x \in Workers \ {w} : dpc'[x] = dpc[x]
      BY <1>1, <3>3 DEF BeginDispatch
    <3>6. Others
      BY <1>1, <2>1, <2>2, <3>3, <3>4, <3>5
    <3>7. serving'[w].id = request[conn[w]]
      BY <1>1, <3>2, <3>4
    <3>8. Serving(w)'
      BY <1>1, <2>1, <2>5, <3>1, <3>3, <3>7 DEF Serving, Asking, InCall, CallersOf
    <3>9. Line(w)'
      BY <1>1, <1>2, <2>1, <3>3 DEF Line, CallersOf
    <3> HIDE DEF Others
    <3> QED
      BY <1>3, <2>1, <3>6, <3>8, <3>9 DEF Talk
  <2> QED
    BY <2>3, <2>4, <2>5
<1>6. CASE SendReply(w)
  <2>1. UNCHANGED <<wpc, conn, cpc, request, made, answer, aborted, tests, fromWorker>> /\ Others
    BY <1>1, <1>6 DEF SendReply, Push
  <2>2. Serving(w)
    BY <1>2, <1>6 DEF SendReply, Line, Talk, AtRest, Told, Testing, Asking, Answered, Reporting
  <2> DEFINE frame == Reply(serving[w].id, dres[w], serving[w].of)
  <2>3. toWorker'[w] = <<frame>>
    BY <1>1, <1>6, <2>2 DEF SendReply, Push, Serving
  <2>4. /\ frame \in Commands /\ frame.type = "HostedRpcReply" /\ frame.id = request[conn[w]]
    BY <1>1, <1>6, <2>2 DEF SendReply, Serving, Reply, Command, Commands, TypeInv, Underway
  <2>5. Answered(w)'
    <3> HIDE DEF frame
    <3> QED
      BY <1>1, <1>6, <2>1, <2>2, <2>3, <2>4 DEF SendReply, Answered, Serving, InCall, CallersOf,
         Commands, Calls
  <2>6. Line(w)'
    BY <1>1, <1>2, <1>6, <2>1 DEF SendReply, Line, CallersOf
  <2> HIDE DEF Others
  <2> QED
    BY <1>3, <2>1, <2>5, <2>6 DEF Talk
<1>7. CASE Close(w)
  <2>1. UNCHANGED <<wpc, conn, cpc, request, made, answer, aborted>> /\ Others
    BY <1>1, <1>7 DEF Close
  <2>2. AtRest(w)
    BY <1>2, <1>7 DEF Close, Talk, AtRest, Told, Testing, Asking, Serving, Answered, Reporting
  <2>3. AtRest(w)'
    BY <1>1, <1>7, <2>2 DEF Close, AtRest, AtLoop
  <2>4. Line(w)'
    BY <1>1, <1>2, <1>7 DEF Close, Line, CallersOf
  <2> HIDE DEF Others
  <2> QED
    BY <1>3, <2>1, <2>3, <2>4 DEF Talk
(* The parent waits for no worker that is gone.                            *)
<1>8. CASE Abort(w)
  <2>1. wpc[w] = "gone"
    BY <1>8 DEF Abort
  <2>2. AtRest(w) \/ Reporting(w)
    BY <1>2, <2>1 DEF Talk, Told, Testing, Asking, Serving, Answered, InCall
  <2>3. tests[w] = NumTests[w] /\ pc[w] # "dispatch"
    BY <2>1, <2>2 DEF AtRest, Reporting, AtLoop
  <2>4. dpc[w] = "idle"
    BY <1>2, <2>3 DEF Line
  <2>5. ~(pc[w] = "await" /\ fromWorker[w] = <<>>)
    BY <2>2 DEF AtRest, Reporting
  <2>6. ~(tests[w] < NumTests[w])
    <3>1. NumTests[w] \in Nat
      BY HostedRpcAssumption
    <3> QED
      BY <1>1, <2>3, <3>1
  <2> QED
    BY <1>8, <2>4, <2>5, <2>6 DEF Abort
<1> QED
  BY <1>4, <1>5, <1>6, <1>7, <1>8 DEF ParentStep

(* The thread that runs the owner.                                         *)
LEMMA StepCell ==
    ASSUME TypeInv, InStep, NEW d \in Dispatchers, CellStep(d) PROVE InStep'
<1>1. dpc \in [Dispatchers -> {"idle", "lock", "run", "done"}]
  BY DEF TypeInv, TypeOK
<1>2. /\ UNCHANGED <<pc, tests, aborted, toWorker, fromWorker, wpc, conn, cpc, request, made,
                     answer, serving>>
      /\ dpc[d] # "idle"
      /\ dpc' = [dpc EXCEPT ![d] = "done"] \/ dpc' = [dpc EXCEPT ![d] = "run"]
  BY DEF CellStep, Enter, Leave, parentVars, wireVars, workerVars, callVars
<1>3. ASSUME NEW x \in Workers PROVE Talk(x)' /\ Line(x)'
  <2>1. dpc'[x] # "idle" => dpc[x] # "idle"
    BY <1>1, <1>2 DEF Dispatchers
  <2> QED
    BY <1>2, <2>1, TalkKept DEF InStep
<1> QED
  BY <1>2, <1>3 DEF InStep, NoTransportError

(* The worker process.                                                     *)
LEMMA StepWorker ==
    ASSUME TypeInv, InStep, mode = "workers", ~strayed', NEW w \in Workers, WorkerStep(w)
    PROVE  InStep'
<1> USE DEF setupVars, parentVars, wireVars, callVars, cellVars
<1>1. /\ toWorker \in [Workers -> Seq(Commands)] /\ fromWorker \in [Workers -> Seq(Responses)]
      /\ wpc \in [Workers -> {"free", "reading", "body", "finishing", "gone"}]
      /\ conn \in [Workers -> Workers \cup Callers \cup {Nobody}]
  BY DEF TypeInv, TypeOK
<1>2. Talk(w) /\ Line(w) /\ ~aborted /\ NoTransportError
  BY DEF InStep
<1>3. /\ Workers \cap Callers = {} /\ Nobody \notin Workers \cup Callers /\ CallersOf(w) \subseteq Callers
  BY HostedRpcAssumption DEF CallersOf
<1>4. UNCHANGED <<pc, tests, aborted, cpc, request, made, answer, dpc, serving>>
  BY DEF WorkerStep, LockForCommand, ReadCommand, EndBody, FinishTest, LosesParent, StartLocalBody
<1> DEFINE Others == \A x \in Workers \ {w} :
                        /\ toWorker'[x] = toWorker[x] /\ fromWorker'[x] = fromWorker[x]
                        /\ wpc'[x] = wpc[x] /\ conn'[x] = conn[x]
<1>5. ASSUME Others, Talk(w)', Line(w)' PROVE InStep'
  <2>1. ASSUME NEW x \in Workers \ {w} PROVE Talk(x)' /\ Line(x)'
    BY <1>4, <1>5, TalkKept DEF InStep
  <2> QED
    BY <1>2, <1>4, <1>5, <2>1 DEF InStep, NoTransportError
<1>6. CASE LockForCommand(w)
  <2>1. /\ UNCHANGED <<toWorker, fromWorker>> /\ wpc[w] = "free" /\ wpc'[w] = "reading"
        /\ conn[w] = Nobody /\ conn'[w] = w /\ Others
    BY <1>1, <1>6 DEF LockForCommand
  <2>2. AtRest(w) \/ Told(w) \/ Reporting(w)
    BY <1>2, <2>1 DEF Talk, Testing, Asking, Serving, Answered, InCall
  <2>3. Talk(w)'
    BY <1>4, <2>1, <2>2 DEF Talk, AtRest, Told, Reporting, AtLoop
  <2>4. Line(w)'
    BY <1>2, <1>3, <1>4, <2>1 DEF Line, CallersOf
  <2> HIDE DEF Others
  <2> QED
    BY <1>5, <2>1, <2>3, <2>4
<1>7. CASE ReadCommand(w)
  <2>1. /\ UNCHANGED fromWorker /\ wpc[w] = "reading" /\ conn' = [conn EXCEPT ![w] = Nobody]
    BY <1>7 DEF ReadCommand
  <2>2. AtRest(w) \/ Told(w) \/ Reporting(w)
    BY <1>2, <2>1 DEF Talk, Testing, Asking, Serving, Answered, InCall
  <2>3. \A c \in CallersOf(w) : cpc[c] = "idle"
    BY <1>2, <2>1 DEF Line
  <2>4. conn'[w] = Nobody /\ \A x \in Workers \ {w} : conn'[x] = conn[x]
    BY <1>1, <2>1
  <2>5. CASE Told(w)
    <3>1. Head(toWorker[w]) = RunTest /\ Tail(toWorker[w]) = <<>> /\ toWorker[w] # <<>>
      BY <1>1, <2>5 DEF Told
    <3>2. toWorker' = [toWorker EXCEPT ![w] = <<>>] /\ wpc' = [wpc EXCEPT ![w] = "body"]
      BY <1>7, <3>1 DEF ReadCommand, Pop
    <3>3. Others
      BY <1>1, <2>1, <2>4, <3>2
    <3>4. Testing(w)'
      BY <1>1, <1>4, <2>1, <2>4, <2>5, <3>2 DEF Testing, Told
    <3>5. Line(w)'
      BY <1>1, <1>2, <1>3, <1>4, <2>3, <2>4, <3>2 DEF Line, CallersOf
    <3> HIDE DEF Others
    <3> QED
      BY <1>5, <3>3, <3>4, <3>5 DEF Talk
  <2>6. CASE ~Told(w)
    <3>1. toWorker[w] = <<>>
      BY <2>2, <2>6 DEF AtRest, Reporting
    <3>2. UNCHANGED toWorker /\ pc[w] = "exit" /\ wpc' = [wpc EXCEPT ![w] = "gone"]
      BY <1>2, <1>7, <3>1 DEF ReadCommand, ParentClosed
    <3>3. Others
      BY <1>1, <2>1, <2>4, <3>2
    <3>4. AtRest(w) /\ tests[w] = NumTests[w]
      BY <2>2, <2>6, <3>2 DEF AtRest, Reporting
    <3>5. AtRest(w)'
      BY <1>1, <1>4, <2>1, <3>2, <3>4 DEF AtRest, AtLoop
    <3>6. Line(w)'
      BY <1>1, <1>2, <1>3, <1>4, <2>3, <2>4, <3>2 DEF Line, CallersOf
    <3> HIDE DEF Others
    <3> QED
      BY <1>5, <3>3, <3>5, <3>6 DEF Talk
  <2> QED
    BY <2>5, <2>6
(* The body returns with no call under way.                                *)
<1>8. CASE EndBody(w)
  <2>1. /\ UNCHANGED <<toWorker, fromWorker, conn>> /\ wpc[w] = "body"
        /\ wpc' = [wpc EXCEPT ![w] = "finishing"]
    BY <1>8 DEF EndBody
  <2>2. \A c \in CallersOf(w) : cpc[c] = "idle"
    BY <1>8 DEF EndBody
  <2>3. ~InCall(w)
    BY <1>2, <1>3, <2>2 DEF InCall, Line
  <2>4. Testing(w)
    BY <1>2, <2>1, <2>3 DEF Talk, AtRest, AtLoop, Told, Asking, Serving, Answered, Reporting
  <2>5. Testing(w)'
    BY <1>1, <1>4, <2>1, <2>4 DEF Testing
  <2>6. Line(w)'
    BY <1>1, <1>2, <1>4, <2>1, <2>2 DEF Line, CallersOf
  <2>7. Others
    BY <1>1, <2>1
  <2> HIDE DEF Others
  <2> QED
    BY <1>5, <2>5, <2>6, <2>7 DEF Talk
<1>9. CASE FinishTest(w)
  <2>1. /\ UNCHANGED <<toWorker, conn>> /\ wpc[w] = "finishing"
        /\ fromWorker' = [fromWorker EXCEPT ![w] = Append(@, TestFinished)]
        /\ wpc' = [wpc EXCEPT ![w] = IF tests[w] = NumTests[w] THEN "gone" ELSE "free"]
    BY <1>9 DEF FinishTest, Push
  <2>2. Testing(w)
    BY <1>2, <2>1
    DEF Talk, AtRest, AtLoop, Told, Asking, Serving, Answered, Reporting, InCall
  <2>3. fromWorker'[w] = <<TestFinished>>
    BY <1>1, <2>1, <2>2 DEF Testing
  <2>4. AtLoop(w)' /\ wpc'[w] # "reading" /\ wpc'[w] # "body"
    BY <1>1, <1>4, <2>1 DEF AtLoop
  <2>5. Reporting(w)'
    BY <1>4, <2>1, <2>2, <2>3, <2>4 DEF Reporting, Testing
  <2>6. Line(w)'
    BY <1>2, <1>4, <2>1, <2>4 DEF Line, CallersOf
  <2>7. Others
    BY <1>1, <2>1
  <2> HIDE DEF Others
  <2> QED
    BY <1>5, <2>5, <2>6, <2>7 DEF Talk
(* The parent does not leave while a test runs.                            *)
<1>10. CASE LosesParent(w)
  <2>1. wpc[w] = "finishing" /\ pc[w] = "exit"
    BY <1>2, <1>10 DEF LosesParent, ParentClosed
  <2> QED
    BY <1>2, <2>1
    DEF Talk, AtRest, AtLoop, Told, Testing, Asking, Serving, Answered, Reporting, InCall
<1>11. ~StartLocalBody(w)
  BY DEF StartLocalBody
<1> QED
  BY <1>6, <1>7, <1>8, <1>9, <1>10, <1>11 DEF WorkerStep

(* A stub.                                                                 *)
LEMMA StepCaller ==
    ASSUME TypeInv, InStep, mode = "workers", ~strayed', NEW c \in Callers,
           BeginCall(c) \/ CallLocally(c) \/ WriteCall(c) \/ ReadReply(c) \/ ReturnLocally(c)
    PROVE  InStep'
<1> USE DEF setupVars, parentVars, wireVars, workerVars, cellVars
<1> DEFINE w == Home[c]
<1>1. /\ toWorker \in [Workers -> Seq(Commands)] /\ fromWorker \in [Workers -> Seq(Responses)]
      /\ conn \in [Workers -> Workers \cup Callers \cup {Nobody}]
      /\ request \in [Callers -> Nat] /\ made \in [Callers -> Nat]
      /\ cpc \in [Callers -> {"idle", "lock", "reply", "local"}]
      /\ answer \in [Callers -> [kind : {"none", "ok", "dispatch", "transport"},
                                of : Calls \cup {NoCall}]]
  BY DEF TypeInv, TypeOK
<1>2. /\ Workers \cap Callers = {} /\ Nobody \notin Workers \cup Callers
      /\ w \in Workers /\ c \in CallersOf(w) /\ CallersOf(w) \subseteq Callers
  BY HostedRpcAssumption DEF CallersOf
<1>3. Talk(w) /\ Line(w) /\ ~aborted /\ NoTransportError
  BY <1>2 DEF InStep
<1>4. cpc[c] # "local"
  BY <1>2, <1>3 DEF Line
<1> HIDE DEF w
<1> DEFINE Others ==
             /\ \A x \in Workers \ {w} :
                   /\ toWorker'[x] = toWorker[x] /\ fromWorker'[x] = fromWorker[x]
                   /\ conn'[x] = conn[x]
             /\ \A e \in Callers \ {c} :
                   /\ cpc'[e] = cpc[e] /\ request'[e] = request[e] /\ made'[e] = made[e]
                   /\ answer'[e] = answer[e]
             /\ UNCHANGED <<pc, tests, aborted, wpc, dpc, serving>>
<1>5. ASSUME Others, Talk(w)', Line(w)', answer'[c].kind # "transport" PROVE InStep'
  <2>1. ASSUME NEW x \in Workers \ {w} PROVE Talk(x)' /\ Line(x)'
    <3>1. \A e \in CallersOf(x) : e \in Callers \ {c}
      BY <1>2, HomesDiffer DEF CallersOf
    <3> QED
      BY <1>5, <3>1, TalkKept DEF InStep
  <2>2. NoTransportError'
    BY <1>3, <1>5 DEF NoTransportError
  <2> QED
    BY <1>3, <1>5, <2>1, <2>2 DEF InStep
<1>6. CASE BeginCall(c)
  <2>1. /\ UNCHANGED <<pc, tests, aborted, toWorker, fromWorker, wpc, conn, dpc, serving>>
        /\ request' = [request EXCEPT ![c] = nextId[w]]
        /\ made' = [made EXCEPT ![c] = @ + 1]
        /\ answer' = [answer EXCEPT ![c] = NoAnswer]
        /\ cpc' = [cpc EXCEPT ![c] = "lock"]
        /\ cpc[c] = "idle" /\ wpc[w] = "body"
    BY <1>6 DEF BeginCall, MayCall, w
  <2>2. Others /\ answer'[c].kind # "transport"
    BY <1>1, <2>1 DEF NoAnswer
  <2>3. Line(w)'
    BY <1>1, <1>2, <1>3, <2>1 DEF Line, CallersOf
  <2>4. conn[w] # c
    BY <1>2, <1>3, <2>1 DEF Line
  <2>5. CASE Testing(w)
    BY <2>1, <2>2, <2>3, <2>5, <1>5 DEF Talk, Testing
  <2>6. CASE InCall(w)
    <3>1. /\ conn[w] \in Callers \ {c} /\ request'[conn[w]] = request[conn[w]]
          /\ made'[conn[w]] = made[conn[w]]
      BY <1>2, <2>1, <2>2, <2>4, <2>6 DEF InCall
    <3>2. InCall(w)' /\ RpcCall(conn[w])' = RpcCall(conn[w])
      BY <2>1, <2>6, <3>1 DEF InCall, RpcCall, Response, Call, CallersOf
    <3>3. CASE Asking(w)
      <4>1. Asking(w)'
        BY <2>1, <3>2, <3>3 DEF Asking
      <4> QED
        BY <1>5, <2>2, <2>3, <4>1 DEF Talk
    <3>4. CASE Serving(w)
      <4>1. Serving(w)'
        BY <2>1, <3>1, <3>2, <3>4 DEF Serving
      <4> QED
        BY <1>5, <2>2, <2>3, <4>1 DEF Talk
    <3>5. CASE Answered(w)
      <4>1. Answered(w)'
        BY <2>1, <3>1, <3>2, <3>5 DEF Answered
      <4> QED
        BY <1>5, <2>2, <2>3, <4>1 DEF Talk
    <3> QED
      BY <1>3, <2>1, <3>3, <3>4, <3>5, <2>6, <1>2
      DEF Talk, AtRest, AtLoop, Told, Testing, Reporting, InCall
  <2> QED
    BY <1>3, <2>1, <2>5, <2>6
    DEF Talk, AtRest, AtLoop, Told, Asking, Serving, Answered, Reporting
<1>7. CASE WriteCall(c)
  <2>1. cpc[c] = "lock" /\ conn[w] = Nobody
    BY <1>7 DEF WriteCall, w
  <2>2. wpc[w] = "body"
    BY <1>2, <1>3, <2>1 DEF Line
  <2>3. Testing(w)
    BY <1>2, <1>3, <2>1, <2>2
    DEF Talk, AtRest, AtLoop, Told, Asking, Serving, Answered, Reporting, InCall
  <2>4. ~ParentClosed(w)
    BY <1>3, <2>3 DEF ParentClosed, Testing
  <2>5. /\ UNCHANGED <<pc, tests, aborted, toWorker, wpc, dpc, serving, request, made, answer>>
        /\ fromWorker' = [fromWorker EXCEPT ![w] = Append(@, RpcCall(c))]
        /\ conn' = [conn EXCEPT ![w] = c]
        /\ cpc' = [cpc EXCEPT ![c] = "reply"]
    BY <1>7, <2>4 DEF WriteCall, Push, w
  <2>6. Others /\ answer'[c].kind # "transport"
    BY <1>1, <1>3, <2>5 DEF NoTransportError
  <2>7a. fromWorker'[w] = <<RpcCall(c)>>
    BY <1>1, <1>2, <2>3, <2>5 DEF Testing
  <2>7b. conn'[w] = c /\ RpcCall(c)' = RpcCall(c)
    BY <1>1, <1>2, <2>5 DEF RpcCall, Response, Call
  <2>8. Asking(w)'
    BY <1>2, <2>2, <2>3, <2>5, <2>7a, <2>7b DEF Asking, Testing, InCall, CallersOf
  <2>9. Line(w)'
    BY <1>1, <1>2, <1>3, <2>1, <2>2, <2>5 DEF Line, CallersOf
  <2> HIDE DEF Others
  <2> QED
    BY <1>5, <2>6, <2>8, <2>9 DEF Talk
<1>8. CASE ReadReply(c)
  <2>1. cpc[c] = "reply"
    BY <1>8 DEF ReadReply
  <2>2. conn[w] = c /\ wpc[w] = "body"
    BY <1>2, <1>3, <2>1 DEF Line, w
  <2>3. Asking(w) \/ Serving(w) \/ Answered(w)
    BY <1>2, <1>3, <2>2 DEF Talk, AtRest, AtLoop, Told, Testing, Reporting
  <2>4. ~ParentClosed(w)
    BY <1>3, <2>3 DEF ParentClosed, Asking, Serving, Answered
  <2>5. toWorker[w] # <<>>
    BY <1>8, <2>4 DEF ReadReply, w
  <2>6. Answered(w)
    BY <2>3, <2>5 DEF Asking, Serving
  <2>7. PICK frame \in Commands : /\ toWorker[w] = <<frame>> /\ frame.type = "HostedRpcReply"
                                  /\ frame.id = request[c]
    BY <2>2, <2>6 DEF Answered
  <2>8. Head(toWorker[w]) = frame /\ Tail(toWorker[w]) = <<>>
    BY <2>7
  <2>9. /\ UNCHANGED <<pc, tests, aborted, fromWorker, wpc, dpc, serving, request, made>>
        /\ toWorker' = [toWorker EXCEPT ![w] = <<>>]
        /\ conn' = [conn EXCEPT ![w] = Nobody]
        /\ cpc' = [cpc EXCEPT ![c] = "idle"]
        /\ answer' = [answer EXCEPT ![c] = AnswerFrom(c, frame)]
    BY <1>8, <2>4, <2>5, <2>8 DEF ReadReply, Pop, w
  <2>10. AnswerFrom(c, frame).kind # "transport"
    BY <2>7 DEF AnswerFrom, Answer
  <2>11. Others /\ answer'[c].kind # "transport"
    BY <1>1, <2>9, <2>10
  <2>12. Testing(w)'
    BY <1>1, <1>2, <2>2, <2>6, <2>9 DEF Testing, Answered
  <2>13. Line(w)'
    BY <1>1, <1>2, <1>3, <2>2, <2>9 DEF Line, CallersOf
  <2> HIDE DEF Others
  <2> QED
    BY <1>5, <2>11, <2>12, <2>13 DEF Talk
<1>9. ~CallLocally(c) /\ ~ReturnLocally(c)
  BY <1>4 DEF CallLocally, ReturnLocally
<1> QED
  BY <1>6, <1>7, <1>8, <1>9

(* Without worker processes.                                               *)
LEMMA StepLocal ==
    ASSUME TypeInv, ~aborted, NoTransportError, NoTalk, mode = "local", [Next]_vars
    PROVE  ~aborted' /\ NoTransportError' /\ NoTalk'
<1> USE DEF setupVars, parentVars, wireVars, workerVars, callVars, cellVars
<1>1. /\ dpc \in [Dispatchers -> {"idle", "lock", "run", "done"}]
      /\ wpc \in [Workers -> {"free", "reading", "body", "finishing", "gone"}]
      /\ cpc \in [Callers -> {"idle", "lock", "reply", "local"}]
      /\ answer \in [Callers -> [kind : {"none", "ok", "dispatch", "transport"},
                                of : Calls \cup {NoCall}]]
      /\ Workers \subseteq Dispatchers /\ Workers \cap Callers = {}
  BY HostedRpcAssumption DEF TypeInv, TypeOK, Dispatchers
<1>2. ASSUME UNCHANGED <<aborted, answer, pc, toWorker, cpc>>,
             \A w \in Workers : dpc'[w] # "idle" => dpc[w] # "idle",
             \A w \in Workers : wpc'[w] \in {wpc[w], "body", "gone"}
      PROVE  ~aborted' /\ NoTransportError' /\ NoTalk'
  BY <1>2 DEF NoTransportError, NoTalk
<1>3. ASSUME NEW v \in Views, SetupStep(v) PROVE ~aborted' /\ NoTransportError' /\ NoTalk'
  BY <1>2, <1>3 DEF SetupStep, Acquire, Install
<1>4. ASSUME NEW w \in Workers, ParentStep(w) PROVE FALSE
  BY <1>4 DEF ParentStep, SendRunTest, ReceiveResponse, SendReply, Close, Abort, NoTalk
<1>5. ASSUME NEW d \in Dispatchers, CellStep(d) PROVE ~aborted' /\ NoTransportError' /\ NoTalk'
  <2>1. /\ UNCHANGED <<aborted, answer, pc, toWorker, cpc, wpc>> /\ dpc[d] # "idle"
        /\ dpc' = [dpc EXCEPT ![d] = "done"] \/ dpc' = [dpc EXCEPT ![d] = "run"]
    BY <1>5 DEF CellStep, Enter, Leave
  <2> QED
    BY <1>1, <1>2, <2>1
<1>6. ASSUME NEW w \in Workers, WorkerStep(w) PROVE ~aborted' /\ NoTransportError' /\ NoTalk'
  <2>1. EndBody(w) \/ StartLocalBody(w)
    BY <1>6 DEF WorkerStep, LockForCommand, ReadCommand, FinishTest, LosesParent, NoTalk
  <2>2. /\ UNCHANGED <<aborted, answer, pc, toWorker, cpc, dpc>>
        /\ wpc' = [wpc EXCEPT ![w] = "gone"] \/ wpc' = [wpc EXCEPT ![w] = "body"]
    BY <2>1 DEF EndBody, StartLocalBody
  <2> QED
    BY <1>1, <1>2, <2>2
<1>7. ASSUME NEW c \in Callers, BeginCall(c) \/ WriteCall(c) \/ ReadReply(c) PROVE FALSE
  BY <1>7 DEF BeginCall, WriteCall, ReadReply, NoTalk
<1>8. ASSUME NEW c \in Callers, CallLocally(c) \/ ReturnLocally(c)
      PROVE  ~aborted' /\ NoTransportError' /\ NoTalk'
  <2>1. /\ UNCHANGED <<aborted, pc, toWorker, wpc>>
        /\ cpc' = [cpc EXCEPT ![c] = "idle"] \/ cpc' = [cpc EXCEPT ![c] = "local"]
        /\ \A w \in Workers : dpc'[w] = dpc[w]
    BY <1>1, <1>8 DEF CallLocally, ReturnLocally, BeginDispatch
  <2>2. /\ \A e \in Callers \ {c} : answer'[e] = answer[e]
        /\ answer'[c].kind # "transport"
    BY <1>1, <1>8 DEF CallLocally, ReturnLocally, NoAnswer, Answer
  <2>3. NoTransportError'
    BY <2>2 DEF NoTransportError
  <2>4. NoTalk'
    BY <1>1, <2>1 DEF NoTalk
  <2> QED
    BY <2>1, <2>3, <2>4
<1>9. CASE UNCHANGED vars
  BY <1>2, <1>9 DEF vars
<1> QED
  BY <1>3, <1>4, <1>5, <1>6, <1>7, <1>8, <1>9
  DEF Next, ParentThread, CallThread, Ended, Dispatchers

LEMMA StepNext == TypeInv /\ StepInv /\ [Next]_vars => StepInv'
<1> SUFFICES ASSUME TypeInv, StepInv, [Next]_vars, ~strayed' PROVE StepInv'
  BY DEF StepInv
<1> USE DEF setupVars, parentVars, wireVars, workerVars, callVars, cellVars
<1>1. ~strayed /\ mode' = mode
  <2>1. CASE UNCHANGED vars
    BY <2>1 DEF vars
  <2>2. ASSUME NEW v \in Views, SetupStep(v) PROVE ~strayed /\ mode' = mode
    BY <2>2 DEF SetupStep, Acquire, Install
  <2>3. ASSUME NEW d, CellStep(d) PROVE ~strayed /\ mode' = mode
    BY <2>3 DEF CellStep, Enter, Leave
  <2>4. ASSUME NEW w \in Workers, ParentStep(w) \/ WorkerStep(w) PROVE ~strayed /\ mode' = mode
    <3>1. CASE EndBody(w)
      BY <3>1 DEF EndBody
    <3>2. CASE ParentStep(w)
      BY <3>2 DEF ParentStep, SendRunTest, ReceiveResponse, SendReply, Close, Abort
    <3>3. CASE LockForCommand(w) \/ ReadCommand(w) \/ FinishTest(w) \/ LosesParent(w)
               \/ StartLocalBody(w)
      BY <3>3 DEF LockForCommand, ReadCommand, FinishTest, LosesParent, StartLocalBody
    <3> QED
      BY <2>4, <3>1, <3>2, <3>3 DEF WorkerStep
  <2>5. ASSUME NEW c \in Callers,
               BeginCall(c) \/ CallLocally(c) \/ WriteCall(c) \/ ReadReply(c) \/ ReturnLocally(c)
        PROVE  ~strayed /\ mode' = mode
    <3>1. CASE BeginCall(c)
      BY <3>1 DEF BeginCall
    <3>2. CASE CallLocally(c) \/ WriteCall(c) \/ ReadReply(c) \/ ReturnLocally(c)
      BY <3>2 DEF CallLocally, WriteCall, ReadReply, ReturnLocally
    <3> QED
      BY <2>5, <3>1, <3>2
  <2> QED
    BY <2>1, <2>2, <2>3, <2>4, <2>5 DEF Next, ParentThread, CallThread, Ended
<1>2. CASE mode = "local"
  BY <1>1, <1>2, StepLocal DEF StepInv
<1>3. CASE mode = "workers"
  <2>1. InStep
    BY <1>1, <1>3 DEF StepInv, InStep
  <2>2. ASSUME UNCHANGED <<pc, tests, aborted, toWorker, fromWorker, wpc, conn, callVars, cellVars>>
        PROVE  InStep'
    <3>1. ASSUME NEW x \in Workers PROVE Talk(x)' /\ Line(x)'
      BY <2>1, <2>2, TalkKept DEF InStep
    <3> QED
      BY <2>1, <2>2, <3>1 DEF InStep, NoTransportError
  <2>3. ASSUME NEW v \in Views, SetupStep(v) PROVE InStep'
    BY <2>2, <2>3 DEF SetupStep, Acquire, Install
  <2>4. ASSUME NEW w \in Workers, ParentThread(w) \/ WorkerStep(w) PROVE InStep'
    BY <1>3, <2>1, <2>4, StepParent, StepCell, StepWorker DEF ParentThread, Dispatchers
  <2>5. ASSUME NEW c \in Callers, BeginCall(c) \/ CallLocally(c) \/ CallThread(c) PROVE InStep'
    BY <1>3, <2>1, <2>5, StepCaller, StepCell DEF CallThread, Dispatchers
  <2>6. ASSUME UNCHANGED vars PROVE InStep'
    BY <2>2, <2>6 DEF vars
  <2>7. InStep'
    BY <2>3, <2>4, <2>5, <2>6 DEF Next, Ended
  <2> QED
    BY <1>1, <1>3, <2>7 DEF StepInv, InStep
<1> QED
  BY <1>2, <1>3 DEF TypeInv, TypeOK, Modes

(* As long as stubs are called from running bodies only, every frame is    *)
(* read by the end it is meant for, no call fails for the transport and    *)
(* the parent does not give the run up (the mutex that                     *)
(* IpcHostedRpcTransport::call and the command loop share).                *)
THEOREM InStepWhenBound == Spec => []InStepUnderContract
<1>1. TypeInv /\ StepInv => InStepUnderContract
  BY StepImplies DEF TypeInv
<1> QED
  BY <1>1, StepInit, StepNext, TypeCorrect, PTL DEF Spec
=============================================================================
