------------------------- MODULE TestAttempts_proofs -------------------------
(***************************************************************************)
(* For every number of tests, declared tries and detached tasks: the       *)
(* attempts at a test are counted and judged as its declaration says, by   *)
(* the panic that ended the body, and detached panics are charged to the   *)
(* attempt that led to them if the id was handed on.                       *)
(***************************************************************************)
EXTENDS TestAttempts, SequenceTheorems, TLAPS

Outcomes == {"ok", "err", "panic"}

AttemptTypes ==
    /\ props \in [Tests -> [flakiness : Flakiness, tries : Nat,
                            should : {"no", "yes", "message"}, failTest : BOOLEAN, spawns : Nat]]
    /\ pc \in [Tests -> {"decide", "body", "unwinding", "check", "done"}]
    /\ outcomes \in [Tests -> Seq(Outcomes)]
    /\ verdict \in [Tests -> {"none", "passed", "failed"}]

(* A non-flaky test goes on after successes, a flaky one after panics.      *)
GoesOnAfter(p) == IF p.flakiness = "prove" THEN "ok" ELSE "panic"

(* There may be n attempts.                                                *)
Allowed(p, n) ==
    /\ p.flakiness = "none" => n <= 1
    /\ p.flakiness = "prove" => n <= p.tries
    /\ p.flakiness = "retry" => n <= 1 \/ n <= p.tries

(* Every attempt but the last gave a reason for the next; during an attempt *)
(* all have.                                                               *)
AttemptsCounted(t) ==
    LET made == outcomes[t]
    IN  /\ Allowed(props[t], Len(made))
        /\ \A i \in 1..(Len(made) - 1) : made[i] = GoesOnAfter(props[t])
        /\ pc[t] \in {"body", "unwinding"} =>
              /\ Allowed(props[t], Len(made) + 1)
              /\ made # <<>> => made[Len(made)] = GoesOnAfter(props[t])

(* What a test that passed has behind it.                                  *)
PassedFor(p, made) ==
    /\ "err" \notin ToSet(made)
    /\ p.should = "no" /\ p.flakiness = "prove" => Len(made) = p.tries /\ "panic" \notin ToSet(made)
    /\ p.should # "no" => made # <<>> /\ Last(made) = "panic"

PassedInv(t) ==
    pc[t] \in {"check", "done"} /\ verdict[t] = "passed" => PassedFor(props[t], outcomes[t])

AttemptInv == AttemptTypes /\ \A t \in Tests : AttemptsCounted(t) /\ PassedInv(t)

LEMMA AttemptInit == Init => AttemptInv
<1> SUFFICES ASSUME Init PROVE AttemptInv
  OBVIOUS
<1>1. \A t \in Tests : props[t] \in Declared[t]
  BY DEF Init
<1>2. AttemptTypes
  BY <1>1, TestAttemptsAssumption DEF Init, AttemptTypes
<1>3. \A t \in Tests : outcomes[t] = <<>> /\ pc[t] = "decide" /\ props[t].flakiness \in Flakiness
                       /\ props[t].tries \in Nat
  BY <1>2 DEF Init, AttemptTypes
<1>4. ASSUME NEW t \in Tests PROVE AttemptsCounted(t) /\ PassedInv(t)
  <2>1. Len(outcomes[t]) = 0
    BY <1>3
  <2>2. Allowed(props[t], 0)
    BY <1>3 DEF Allowed, Flakiness
  <2> QED
    BY <1>3, <2>1, <2>2 DEF AttemptsCounted, PassedInv
<1> QED
  BY <1>2, <1>4 DEF AttemptInv

(* A step of one test says nothing of the others.                          *)
LEMMA OthersKept ==
    ASSUME AttemptInv, UNCHANGED props, NEW t \in Tests,
           \A u \in Tests \ {t} : /\ outcomes'[u] = outcomes[u]
                                  /\ pc'[u] = pc[u] /\ verdict'[u] = verdict[u],
           AttemptTypes', AttemptsCounted(t)', PassedInv(t)'
    PROVE  AttemptInv'
<1>1. ASSUME NEW u \in Tests \ {t} PROVE AttemptsCounted(u)' /\ PassedInv(u)'
  BY <1>1 DEF AttemptInv, AttemptsCounted, PassedInv
<1> QED
  BY <1>1 DEF AttemptInv

LEMMA BeginInv == ASSUME AttemptInv, NEW t \in Tests, Begin(t) PROVE AttemptInv'
<1>1. /\ AttemptTypes /\ AttemptsCounted(t)
      /\ props[t].flakiness \in Flakiness /\ props[t].tries \in Nat
      /\ outcomes[t] \in Seq(Outcomes)
  BY DEF AttemptInv, AttemptTypes
<1>2. pc' = [pc EXCEPT ![t] = "body"] /\ Again(t) /\ UNCHANGED <<props, outcomes, verdict>>
  BY DEF Begin
<1>3. AttemptTypes'
  BY <1>1, <1>2 DEF AttemptTypes
<1>4. AttemptsCounted(t)'
  <2>1. CASE outcomes[t] = <<>>
    <3>1. Len(outcomes[t]) = 0 /\ (props[t].flakiness = "prove" => props[t].tries > 0)
      BY <1>2, <2>1 DEF Again
    <3>2. Allowed(props[t], 0) /\ Allowed(props[t], 1)
      BY <1>1, <3>1 DEF Allowed, Flakiness
    <3> QED
      BY <1>1, <1>2, <2>1, <3>1, <3>2 DEF AttemptsCounted
  <2>2. CASE outcomes[t] # <<>>
    <3>1. Last(outcomes[t]) = outcomes[t][Len(outcomes[t])]
      BY <1>1, <2>2 DEF Last
    <3>2. outcomes[t][Len(outcomes[t])] = GoesOnAfter(props[t])
          /\ Len(outcomes[t]) < props[t].tries /\ props[t].flakiness # "none"
      <4>1. CASE props[t].flakiness = "prove" /\ Proves(t)
        BY <3>1, <4>1 DEF Proves, GoesOnAfter
      <4>2. CASE props[t].flakiness = "retry" /\ Retries(t)
        BY <3>1, <4>2 DEF Retries, GoesOnAfter
      <4> QED
        BY <1>2, <2>2, <4>1, <4>2 DEF Again
    <3>3. Allowed(props[t], Len(outcomes[t]) + 1)
      BY <1>1, <3>2 DEF Allowed, Flakiness
    <3> QED
      BY <1>1, <1>2, <3>2, <3>3 DEF AttemptsCounted
  <2> QED
    BY <2>1, <2>2
<1>5. PassedInv(t)' /\ \A u \in Tests \ {t} : pc'[u] = pc[u]
  BY <1>1, <1>2 DEF PassedInv, AttemptTypes
<1> QED
  BY <1>2, <1>3, <1>4, <1>5, OthersKept

(* The end of an attempt appends how it went.                              *)
LEMMA EndInv ==
    ASSUME AttemptInv, NEW t \in Tests, NEW o \in Outcomes, pc[t] \in {"body", "unwinding"},
           outcomes' = [outcomes EXCEPT ![t] = Append(@, o)], pc' = [pc EXCEPT ![t] = "decide"],
           UNCHANGED <<props, verdict>>
    PROVE  AttemptInv'
<1>1. AttemptTypes /\ AttemptsCounted(t) /\ outcomes[t] \in Seq(Outcomes)
  BY DEF AttemptInv, AttemptTypes
<1>2. outcomes'[t] = Append(outcomes[t], o) /\ pc'[t] = "decide"
  BY <1>1 DEF AttemptTypes
<1>3. AttemptTypes'
  BY <1>1 DEF AttemptTypes
<1>4. AttemptsCounted(t)'
  <2>1. \A i \in 1..(Len(outcomes'[t]) - 1) : outcomes'[t][i] = outcomes[t][i]
    BY <1>1, <1>2
  <2>2. \A i \in 1..Len(outcomes[t]) : outcomes[t][i] = GoesOnAfter(props[t])
    BY <1>1 DEF AttemptsCounted
  <2>3. Len(outcomes'[t]) = Len(outcomes[t]) + 1
    BY <1>1, <1>2
  <2> QED
    BY <1>1, <1>2, <2>1, <2>2, <2>3 DEF AttemptsCounted
<1>5. PassedInv(t)'
  BY <1>2 DEF PassedInv
<1>6. \A u \in Tests \ {t} : outcomes'[u] = outcomes[u] /\ pc'[u] = pc[u]
  BY <1>1 DEF AttemptTypes
<1> QED
  BY <1>3, <1>4, <1>5, <1>6, OthersKept

LEMMA JudgeInv == ASSUME AttemptInv, NEW t \in Tests, Judge(t) PROVE AttemptInv'
<1> DEFINE made == outcomes[t]
           last == IF made = <<>> THEN "ok" ELSE Last(made)
<1>1. /\ AttemptTypes /\ AttemptsCounted(t)
      /\ props[t].flakiness \in Flakiness /\ props[t].tries \in Nat
      /\ props[t].should \in {"no", "yes", "message"}
      /\ made \in Seq(Outcomes)
  BY DEF AttemptInv, AttemptTypes
<1>2. /\ pc' = [pc EXCEPT ![t] = "check"] /\ UNCHANGED <<props, outcomes>>
      /\ pc[t] = "decide" /\ ~Again(t)
  BY DEF Judge, Settled
<1>3. CASE last = "panic"
  <2>1. PICK ok \in BOOLEAN : /\ verdict' = [verdict EXCEPT ![t] = Verdict(ok)]
                              /\ ok => props[t].should # "no"
    <3> DEFINE ok == props[t].should = "yes" \/ (props[t].should = "message" /\ judged'[t] = "body")
    <3>1. verdict' = [verdict EXCEPT ![t] = Verdict(ok)]
      BY <1>3 DEF Judge
    <3> QED
      BY <3>1
  <2>2. AttemptTypes'
    BY <1>1, <1>2, <2>1 DEF AttemptTypes, Verdict
  <2>3. made # <<>> /\ Last(made) = "panic" /\ made[Len(made)] = "panic"
    BY <1>1, <1>3 DEF Last
  <2>4. "err" \notin ToSet(made)
    BY <1>1, <2>3 DEF ToSet, AttemptsCounted, GoesOnAfter
  <2>5. PassedInv(t)'
    BY <1>1, <1>2, <2>1, <2>3, <2>4 DEF PassedInv, PassedFor, AttemptTypes, Verdict
  <2>6. AttemptsCounted(t)'
    BY <1>1, <1>2 DEF AttemptsCounted, AttemptTypes
  <2>7. \A u \in Tests \ {t} : pc'[u] = pc[u] /\ verdict'[u] = verdict[u]
    BY <1>1, <1>2, <2>1 DEF AttemptTypes
  <2> QED
    BY <1>2, <2>2, <2>5, <2>6, <2>7, OthersKept
<1>4. CASE last # "panic"
  <2>1. verdict' = [verdict EXCEPT ![t] = Verdict(last = "ok" /\ props[t].should = "no")]
    BY <1>4 DEF Judge
  <2>2. AttemptTypes'
    BY <1>1, <1>2, <2>1 DEF AttemptTypes, Verdict
  <2>3. ASSUME last = "ok", props[t].should = "no" PROVE PassedFor(props[t], made)
    <3>1. CASE made = <<>>
      <4>1. ToSet(made) = {} /\ Len(made) = 0
        BY <3>1 DEF ToSet
      <4>2. props[t].flakiness = "prove" => props[t].tries = 0
        BY <1>1, <1>2, <3>1 DEF Again
      <4> QED
        BY <2>3, <4>1, <4>2 DEF PassedFor
    <3>2. CASE made # <<>>
      <4>1. made[Len(made)] = "ok" /\ Last(made) = "ok"
        BY <1>1, <2>3, <3>2 DEF Last
      <4>2. "err" \notin ToSet(made)
        BY <1>1, <4>1 DEF ToSet, AttemptsCounted, GoesOnAfter
      <4>3. ASSUME props[t].flakiness = "prove"
            PROVE  Len(made) = props[t].tries /\ "panic" \notin ToSet(made)
        <5>1. Len(made) <= props[t].tries /\ ~(Len(made) < props[t].tries)
          BY <1>1, <1>2, <3>2, <4>1, <4>3 DEF Again, Proves, AttemptsCounted, Allowed
        <5>2. "panic" \notin ToSet(made)
          BY <1>1, <4>1, <4>3 DEF ToSet, AttemptsCounted, GoesOnAfter
        <5> QED
          BY <1>1, <5>1, <5>2
      <4> QED
        BY <2>3, <4>2, <4>3 DEF PassedFor
    <3> QED
      BY <3>1, <3>2
  <2>4. PassedInv(t)'
    BY <1>1, <1>2, <2>1, <2>3 DEF PassedInv, AttemptTypes, Verdict
  <2>5. AttemptsCounted(t)'
    BY <1>1, <1>2 DEF AttemptsCounted, AttemptTypes
  <2>6. \A u \in Tests \ {t} : pc'[u] = pc[u] /\ verdict'[u] = verdict[u]
    BY <1>1, <1>2, <2>1 DEF AttemptTypes
  <2> QED
    BY <1>2, <2>2, <2>4, <2>5, <2>6, OthersKept
<1> QED
  BY <1>3, <1>4

LEMMA CheckInv == ASSUME AttemptInv, NEW t \in Tests, Check(t) PROVE AttemptInv'
<1>1. AttemptTypes /\ AttemptsCounted(t) /\ PassedInv(t)
  BY DEF AttemptInv
<1>2. /\ pc[t] = "check" /\ pc' = [pc EXCEPT ![t] = "done"] /\ UNCHANGED <<props, outcomes>>
      /\ verdict' = [verdict EXCEPT ![t] = "failed"] \/ verdict' = [verdict EXCEPT ![t] = @]
  BY DEF Check, Charge
<1>3. AttemptTypes'
  BY <1>1, <1>2 DEF AttemptTypes
<1>4. AttemptsCounted(t)' /\ PassedInv(t)'
  BY <1>1, <1>2 DEF AttemptsCounted, PassedInv, AttemptTypes
<1>5. \A u \in Tests \ {t} : pc'[u] = pc[u] /\ verdict'[u] = verdict[u]
  BY <1>1, <1>2 DEF AttemptTypes
<1> QED
  BY <1>2, <1>3, <1>4, <1>5, OthersKept

LEMMA AttemptNext == AttemptInv /\ [Next]_vars => AttemptInv'
<1> SUFFICES ASSUME AttemptInv, [Next]_vars PROVE AttemptInv'
  OBVIOUS
<1>1. CASE UNCHANGED <<props, testVars>>
  BY <1>1 DEF testVars, AttemptInv, AttemptTypes, AttemptsCounted, PassedInv
<1>2. ASSUME NEW t \in Tests, TestStep(t) PROVE AttemptInv'
  <2>1. CASE Return(t)
    BY <2>1, EndInv DEF Return, Outcomes
  <2>2. CASE CatchUnwind(t)
    BY <2>2, EndInv DEF CatchUnwind, Outcomes
  <2>3. CASE BodyPanics(t)
    <3>1. AttemptTypes /\ AttemptsCounted(t)
      BY DEF AttemptInv
    <3>2. /\ pc[t] = "body" /\ pc' = [pc EXCEPT ![t] = "unwinding"]
          /\ UNCHANGED <<props, outcomes, verdict>>
      BY <2>3 DEF BodyPanics
    <3>3. AttemptTypes' /\ \A u \in Tests \ {t} : pc'[u] = pc[u]
      BY <3>1, <3>2 DEF AttemptTypes
    <3>4. AttemptsCounted(t)' /\ PassedInv(t)'
      BY <3>1, <3>2 DEF AttemptsCounted, PassedInv, AttemptTypes
    <3> QED
      BY <3>2, <3>3, <3>4, OthersKept
  <2> QED
    BY <1>2, <2>1, <2>2, <2>3, BeginInv, JudgeInv, CheckInv DEF TestStep
<1>3. ASSUME NEW k \in Tasks, TaskStep(k) PROVE AttemptInv'
  BY <1>1, <1>3 DEF TaskStep, BodyStarts, TaskStarts, Start, Migrate, TaskPanics, Record, history
<1> QED
  BY <1>1, <1>2, <1>3 DEF Next, Done, vars

(* A flaky test is tried as often as declared and no more, and what passes  *)
(* has passed by its own declaration (run_with_flakiness_control and        *)
(* TestResult::from_result), for every number of tries, 0 and 1 included.  *)
THEOREM AttemptsDecide == Spec => []VerdictByAttempts
<1>1. AttemptInv => VerdictByAttempts
  <2> SUFFICES ASSUME AttemptInv, NEW t \in Tests
               PROVE  /\ Len(outcomes[t]) <= IF props[t].flakiness = "none" \/ props[t].tries = 0
                                             THEN 1 ELSE props[t].tries
                      /\ pc[t] = "done" /\ verdict[t] = "passed" => PassedFor(props[t], outcomes[t])
    BY DEF VerdictByAttempts, PassedFor
  <2>1. /\ AttemptsCounted(t) /\ PassedInv(t)
        /\ props[t].flakiness \in Flakiness /\ props[t].tries \in Nat
        /\ Len(outcomes[t]) \in Nat
    BY DEF AttemptInv, AttemptTypes
  <2>2. Len(outcomes[t]) <= IF props[t].flakiness = "none" \/ props[t].tries = 0
                            THEN 1 ELSE props[t].tries
    BY <2>1 DEF AttemptsCounted, Allowed, Flakiness
  <2> QED
    BY <2>1, <2>2 DEF PassedInv
<1> QED
  BY <1>1, AttemptInit, AttemptNext, PTL DEF Spec

-----------------------------------------------------------------------------
(* The tables of panics.                                                   *)

Causes == {"body", "task"}

(* A list of causes that names a detached panic is under a stray id.       *)
CausesInv ==
    \A id \in DOMAIN captures :
        /\ captures[id] \in Seq(Causes)
        /\ id \notin strayed => \A i \in 1..Len(captures[id]) : captures[id][i] = "body"

(* What should_panic was compared with came from the list of the last id.  *)
JudgedInv ==
    /\ judged \in [Tests -> {"none"} \cup Causes]
    /\ \A t \in Tests : judged[t] # "none" =>
          /\ pc[t] \in {"check", "done"}
          /\ judged[t] = "body" \/ LastId(t) \in strayed

Ids == (Tests \X Nat) \cup {NoId}

Records == [at : {"free", "running", "unwinding", "ended"}, id : Ids, on : Ids, from : Ids]

(* The ids that the attempts at a test have had.                           *)
Begun(t) == Len(outcomes[t]) + IF pc[t] \in {"body", "unwinding"} THEN 1 ELSE 0

(* Attempts that began have a collector, until the test is done; every task *)
(* comes from one of them.                                                 *)
CollectorsInv ==
    /\ collectors \in [DOMAIN collectors -> Nat]
    /\ \A id \in DOMAIN collectors : \E t \in Tests : \E n \in 1..Begun(t) : id = <<t, n>>
    /\ \A t \in Tests : pc[t] # "done" => \A n \in 1..Begun(t) : <<t, n>> \in DOMAIN collectors
    /\ task \in [Tasks -> Records]
    /\ recorded \in [Tests -> SUBSET Nat]
    /\ \A k \in Tasks : task[k].at # "free" =>
          \E t \in Tests : \E n \in 1..Begun(t) : task[k].from = <<t, n>>

AllWell(t) == props[t].should = "no" /\ \A i \in 1..Len(outcomes[t]) : outcomes[t][i] = "ok"

RecordedLast(t) == Len(outcomes[t]) \in recorded[t]

(* Nothing was recorded for the last attempt that counts.                  *)
Undisturbed(t) == props[t].failTest => ~RecordedLast(t) /\ <<t, Len(outcomes[t])>> \notin misled

(* Until the verdict the collectors agree with what was recorded.          *)
RecordedInv(t) ==
    /\ pc[t] # "done" => \A n \in Nat :
          /\ n \in recorded[t] => Get(collectors, <<t, n>>, 0) > 0
          /\ Get(collectors, <<t, n>>, 0) > 0 => n \in recorded[t] \/ <<t, n>> \in misled
    /\ pc[t] = "check" /\ AllWell(t) => verdict[t] = "passed"
    /\ pc[t] = "done" /\ verdict[t] = "passed" /\ props[t].failTest => ~RecordedLast(t)
    /\ pc[t] = "done" /\ AllWell(t) /\ Undisturbed(t) => verdict[t] = "passed"

LEMMA GetIs ==
    ASSUME NEW f, NEW id, NEW d
    PROVE  Get(f, id, d) = d \/ (id \in DOMAIN f /\ Get(f, id, d) = f[id])
<1>1. CASE id \in DOMAIN f
  BY <1>1 DEF Get
<1>2. CASE id \notin DOMAIN f
  BY <1>2 DEF Get
<1> QED
  BY <1>1, <1>2

(* Filing a cause under an id ...                                          *)
LEMMA HookKeeps ==
    ASSUME CausesInv, NEW id, NEW cause \in Causes, Hook(id, cause), strayed \subseteq strayed',
           cause = "body" \/ id \in strayed'
    PROVE  CausesInv'
<1>1. CASE UNCHANGED captures
  BY <1>1 DEF CausesInv
<1>2. CASE id # NoId /\ captures' = Put(captures, id, Append(Get(captures, id, <<>>), cause))
  <2> DEFINE cs == Get(captures, id, <<>>)
  <2>1. cs \in Seq(Causes) /\ (id \notin strayed => \A i \in 1..Len(cs) : cs[i] = "body")
    BY DEF CausesInv, Get
  <2>2. /\ Append(cs, cause) \in Seq(Causes)
        /\ id \notin strayed' => \A i \in 1..Len(Append(cs, cause)) : Append(cs, cause)[i] = "body"
    BY <2>1
  <2> HIDE DEF cs
  <2>3. /\ DOMAIN captures' = DOMAIN captures \cup {id}
        /\ \A j \in DOMAIN captures \cup {id} :
              captures'[j] = IF j = id THEN Append(cs, cause) ELSE captures[j]
    BY <1>2 DEF cs, Put
  <2> QED
    BY <2>2, <2>3 DEF CausesInv
<1> QED
  BY <1>1, <1>2 DEF Hook

(* ... and taking the last one from it.                                    *)
LEMMA TakeKeeps ==
    ASSUME CausesInv, NEW id, captures' = Take(id), UNCHANGED strayed
    PROVE  CausesInv'
<1>1. CASE Get(captures, id, <<>>) = <<>>
  BY <1>1 DEF Take, CausesInv
<1>2. CASE Get(captures, id, <<>>) # <<>>
  <2>1. id \in DOMAIN captures /\ captures[id] \in Seq(Causes) /\ captures[id] # <<>>
    BY <1>2 DEF Get, CausesInv
  <2>2. /\ Front(captures[id]) \in Seq(Causes)
        /\ Len(Front(captures[id])) = Len(captures[id]) - 1
        /\ \A i \in 1..(Len(captures[id]) - 1) : Front(captures[id])[i] = captures[id][i]
    <3> DEFINE c == captures[id]
    <3>1. c \in Seq(Causes) /\ Len(c) \in Nat /\ Len(c) > 0 /\ Front(c) = SubSeq(c, 1, Len(c) - 1)
      BY <2>1 DEF Front
    <3> HIDE DEF c
    <3>2. \A i \in 1..(Len(c) - 1) : c[i] \in Causes
      BY <3>1
    <3>3. /\ Front(c) \in Seq(Causes) /\ Len(Front(c)) = Len(c) - 1
          /\ \A i \in 1..(Len(c) - 1) : Front(c)[i] = c[i]
      <4> DEFINE n == Len(c) - 1
      <4>1. n \in Int /\ n >= 0
        BY <3>1
      <4>2. \A i \in 1..n : c[i] \in Causes
        BY <3>2
      <4> HIDE DEF n
      <4>3. /\ SubSeq(c, 1, n) \in Seq(Causes)
            /\ Len(SubSeq(c, 1, n)) = IF 1 <= n THEN n - 1 + 1 ELSE 0
            /\ \A i \in 1..(n - 1 + 1) : SubSeq(c, 1, n)[i] = c[1 + i - 1]
        BY <4>1, <4>2, SubSeqProperties
      <4>4. Front(c) = SubSeq(c, 1, n)
        BY <3>1 DEF n
      <4>5. Len(SubSeq(c, 1, n)) = n
        BY <4>1, <4>3
      <4>6. \A i \in 1..n : SubSeq(c, 1, n)[i] = c[i]
        <5> TAKE i \in 1..n
        <5>1. i \in 1..(n - 1 + 1) /\ 1 + i - 1 = i
          BY <4>1
        <5> QED
          BY <4>3, <5>1
      <4> QED
        BY <4>3, <4>4, <4>5, <4>6 DEF n
    <3> QED
      BY <3>3 DEF c
  <2>3. /\ DOMAIN captures' = DOMAIN captures
        /\ \A j \in DOMAIN captures :
              captures'[j] = IF j = id THEN Front(captures[id]) ELSE captures[j]
    BY <1>2, <2>1 DEF Take, Put
  <2> QED
    BY <2>1, <2>2, <2>3 DEF CausesInv
<1> QED
  BY <1>1, <1>2

LEMMA TakenIsCause ==
    ASSUME CausesInv, NEW id
    PROVE  /\ Taken(id, "body") \in Causes
           /\ Taken(id, "body") = "body" \/ id \in strayed
<1> DEFINE cs == Get(captures, id, <<>>)
<1>1. cs = <<>> \/ (id \in DOMAIN captures /\ cs = captures[id])
  BY GetIs
<1>2. CASE cs = <<>>
  BY <1>2 DEF Taken, Causes
<1>3. CASE cs # <<>>
  <2>1. id \in DOMAIN captures /\ cs = captures[id] /\ cs \in Seq(Causes) /\ Len(cs) \in 1..Len(cs)
    BY <1>1, <1>3 DEF CausesInv
  <2>2. Taken(id, "body") = cs[Len(cs)]
    BY <1>3 DEF Taken, Last
  <2> HIDE DEF cs
  <2> QED
    BY <2>1, <2>2 DEF CausesInv
<1> QED
  BY <1>2, <1>3

(* The id of a test that is judged stays the same.                         *)
LEMMA JudgedKept ==
    ASSUME AttemptTypes, JudgedInv, UNCHANGED judged, strayed \subseteq strayed',
           \A t \in Tests : pc[t] \in {"check", "done"} =>
               pc'[t] \in {"check", "done"} /\ outcomes'[t] = outcomes[t]
    PROVE  JudgedInv'
  BY DEF JudgedInv, LastId

LEMMA CausesNext ==
    AttemptInv /\ CausesInv /\ JudgedInv /\ [Next]_vars => CausesInv' /\ JudgedInv'
<1> SUFFICES ASSUME AttemptInv, CausesInv, JudgedInv, [Next]_vars PROVE CausesInv' /\ JudgedInv'
  OBVIOUS
<1>0. AttemptTypes
  BY DEF AttemptInv
<1> USE DEF testVars, tableVars, history
<1>1. ASSUME NEW t \in Tests, Begin(t) \/ Return(t) \/ CatchUnwind(t) \/ Check(t)
      PROVE  CausesInv' /\ JudgedInv'
  <2>1. UNCHANGED <<captures, strayed, judged>>
    BY <1>1 DEF Begin, Return, CatchUnwind, Check, Charge
  <2>2. \A u \in Tests : pc[u] \in {"check", "done"} =>
            pc'[u] \in {"check", "done"} /\ outcomes'[u] = outcomes[u]
    BY <1>0, <1>1 DEF Begin, Return, CatchUnwind, Check, Charge, AttemptTypes
  <2> QED
    BY <1>0, <2>1, <2>2, JudgedKept DEF CausesInv
<1>2. ASSUME NEW t \in Tests, BodyPanics(t) PROVE CausesInv' /\ JudgedInv'
  <2>1. CausesInv'
    BY <1>2, HookKeeps DEF BodyPanics, Causes
  <2>2. JudgedInv'
    BY <1>0, <1>2, JudgedKept DEF BodyPanics, AttemptTypes
  <2> QED
    BY <2>1, <2>2
<1>3. ASSUME NEW t \in Tests, Judge(t) PROVE CausesInv' /\ JudgedInv'
  <2> DEFINE last == IF outcomes[t] = <<>> THEN "ok" ELSE Last(outcomes[t])
  <2>1. pc[t] = "decide" /\ pc' = [pc EXCEPT ![t] = "check"] /\ UNCHANGED <<outcomes, strayed>>
    BY <1>3 DEF Judge, Settled
  <2>2. \A u \in Tests : pc'[u] = IF u = t THEN "check" ELSE pc[u]
    BY <1>0, <2>1 DEF AttemptTypes
  <2>3. \A u \in Tests : LastId(u)' = LastId(u)
    BY <2>1, <2>2 DEF LastId, Attempt
  <2>4. CASE last = "panic"
    <3>1. judged' = [judged EXCEPT ![t] = Taken(LastId(t), "body")] /\ captures' = Take(LastId(t))
      BY <1>3, <2>4 DEF Judge
    <3>2. CausesInv'
      BY <2>1, <3>1, TakeKeeps
    <3>3. Taken(LastId(t), "body") \in Causes /\ (Taken(LastId(t), "body") = "body" \/ LastId(t) \in strayed)
      BY TakenIsCause
    <3>4. /\ judged' \in [Tests -> {"none"} \cup Causes]
          /\ \A u \in Tests : judged'[u] = IF u = t THEN Taken(LastId(t), "body") ELSE judged[u]
      BY <3>1, <3>3 DEF JudgedInv
    <3>5. JudgedInv'
      BY <2>1, <2>2, <2>3, <3>3, <3>4 DEF JudgedInv
    <3> QED
      BY <3>2, <3>5
  <2>5. CASE last # "panic"
    <3>1. UNCHANGED <<judged, captures>>
      BY <1>3, <2>5 DEF Judge
    <3>2. JudgedInv'
      BY <1>0, <2>1, <2>2, <3>1, JudgedKept
    <3> QED
      BY <2>1, <3>1, <3>2 DEF CausesInv
  <2> QED
    BY <2>4, <2>5
<1>4. ASSUME NEW k \in Tasks, TaskStep(k) PROVE CausesInv' /\ JudgedInv'
  <2>1. UNCHANGED <<pc, outcomes, judged>> /\ strayed \subseteq strayed'
    BY <1>4 DEF TaskStep, BodyStarts, TaskStarts, Start, Migrate, TaskPanics, Record
  <2>2. JudgedInv'
    BY <1>0, <2>1, JudgedKept
  <2>3. CASE UNCHANGED <<captures, strayed>>
    BY <2>2, <2>3 DEF CausesInv
  <2>4. CASE TaskPanics(k)
    BY <2>2, <2>4, HookKeeps DEF TaskPanics, Causes
  <2>5. CASE Record(k)
    BY <2>2, <2>5, TakeKeeps DEF Record
  <2> QED
    BY <1>4, <2>3, <2>4, <2>5 DEF TaskStep, BodyStarts, TaskStarts, Start, Migrate
<1>5. CASE UNCHANGED vars
  BY <1>0, <1>5, JudgedKept DEF vars, CausesInv
<1> QED
  BY <1>1, <1>2, <1>3, <1>4, <1>5 DEF Next, Done, TestStep

(* should_panic is compared with the panic that ended the body: the list of *)
(* causes under the id of an attempt holds another one only if a detached   *)
(* panic was filed there (panic_hook.rs), for any number of tests, tasks    *)
(* and changes of runtime threads.                                         *)
THEOREM OwnPanicDecides == Spec => []JudgedByOwnPanic
<1>1. Init => CausesInv /\ JudgedInv
  BY DEF Init, CausesInv, JudgedInv
<1>2. JudgedInv => JudgedByOwnPanic
  BY DEF JudgedInv, JudgedByOwnPanic
<1> QED
  BY <1>1, <1>2, AttemptInit, AttemptNext, CausesNext, PTL DEF Spec

-----------------------------------------------------------------------------
(* The collectors of detached panics.                                      *)

LEMMA BegunIsNat == ASSUME AttemptTypes, NEW t \in Tests PROVE Len(outcomes[t]) \in Nat /\ Begun(t) \in Nat
  BY DEF AttemptTypes, Begun

(* While a body runs its attempt is the last that began.                   *)
LEMMA RunsLastBegun ==
    ASSUME AttemptTypes, NEW t \in Tests, pc[t] = "body"
    PROVE  LastId(t) = <<t, Begun(t)>> /\ Begun(t) \in 1..Begun(t) /\ LastId(t) \in Ids
<1>1. Begun(t) = Len(outcomes[t]) + 1 /\ LastId(t) = <<t, Len(outcomes[t]) + 1>>
  BY DEF Begun, LastId, Attempt
<1> QED
  BY <1>1, BegunIsNat DEF Ids

(* Attempts are begun one after the other and never undone.                *)
LEMMA CollectorsKept ==
    ASSUME AttemptTypes, AttemptTypes', CollectorsInv, UNCHANGED <<task, recorded, collectors>>,
           \A t \in Tests : Begun(t)' = Begun(t) /\ (pc'[t] # "done" => pc[t] # "done")
    PROVE  CollectorsInv'
  BY DEF CollectorsInv

(* A task that starts or goes on, or whose panic is recorded.              *)
LEMMA TaskMoves ==
    ASSUME CollectorsInv, UNCHANGED <<pc, outcomes>>, NEW k \in Tasks, NEW r \in Records,
           task' = [task EXCEPT ![k] = r], \E t \in Tests : \E n \in 1..Begun(t) : r.from = <<t, n>>,
           DOMAIN collectors' = DOMAIN collectors, collectors' \in [DOMAIN collectors' -> Nat],
           recorded' \in [Tests -> SUBSET Nat]
    PROVE  CollectorsInv'
<1>1. \A u \in Tests : Begun(u)' = Begun(u)
  BY DEF Begun
<1>2. task' \in [Tasks -> Records] /\ \A j \in Tasks : task'[j] = IF j = k THEN r ELSE task[j]
  BY DEF CollectorsInv
<1>3. \A j \in Tasks : task'[j].at # "free" =>
        \E t \in Tests : \E n \in 1..Begun(t) : task'[j].from = <<t, n>>
  BY <1>2 DEF CollectorsInv
<1> QED
  BY <1>1, <1>2, <1>3 DEF CollectorsInv

(* A test that starts a task, or a task that does.                         *)
LEMMA StartKeeps ==
    ASSUME CollectorsInv, UNCHANGED <<pc, outcomes>>, NEW k \in Tasks, NEW id \in Ids, NEW t \in Tests,
           NEW n \in 1..Begun(t), <<t, n>> \in Ids, Start(id, <<t, n>>, k)
    PROVE  CollectorsInv'
<1>1. RuntimeIds \subseteq Ids
  BY DEF RuntimeIds, CollectorsInv, Records, Ids
<1>2. PICK on \in Ids :
        task' = [task EXCEPT ![k] = [at |-> "running", id |-> id, on |-> on, from |-> <<t, n>>]]
  BY <1>1 DEF Start
<1> DEFINE r == [at |-> "running", id |-> id, on |-> on, from |-> <<t, n>>]
<1>3. r \in Records /\ r.from = <<t, n>>
  BY DEF Records
<1>4. UNCHANGED <<collectors, recorded>>
  BY DEF Start, tableVars, history
<1>5. collectors' \in [DOMAIN collectors' -> Nat] /\ recorded' \in [Tests -> SUBSET Nat]
  BY <1>4 DEF CollectorsInv
<1> HIDE DEF r
<1>6. task' = [task EXCEPT ![k] = r]
  BY <1>2 DEF r
<1> QED
  BY <1>3, <1>4, <1>5, <1>6, TaskMoves

LEMMA CollectorsNext ==
    AttemptTypes /\ AttemptTypes' /\ CollectorsInv /\ [Next]_vars => CollectorsInv'
<1> SUFFICES ASSUME AttemptTypes, AttemptTypes', CollectorsInv, [Next]_vars PROVE CollectorsInv'
  OBVIOUS
<1> USE DEF testVars, tableVars, history
<1>1. ASSUME NEW t \in Tests, Begin(t) PROVE CollectorsInv'
  <2> DEFINE n == Len(outcomes[t]) + 1
  <2>1. /\ pc[t] = "decide" /\ pc' = [pc EXCEPT ![t] = "body"] /\ UNCHANGED <<outcomes, task, recorded>>
        /\ collectors' = Put(collectors, <<t, n>>, 0)
    BY <1>1 DEF Begin, Attempt
  <2>2. n \in Nat /\ Begun(t) \in Nat /\ Begun(t) = n - 1 /\ Begun(t)' = n
    BY <2>1 DEF Begun, AttemptTypes
  <2>3. \A u \in Tests \ {t} : Begun(u)' = Begun(u) /\ pc'[u] = pc[u]
    BY <2>1 DEF Begun, AttemptTypes
  <2> HIDE DEF n
  <2>4. /\ DOMAIN collectors' = DOMAIN collectors \cup {<<t, n>>}
        /\ collectors' \in [DOMAIN collectors' -> Nat]
    BY <2>1 DEF Put, CollectorsInv
  <2>5. \A u \in Tests : 1..Begun(u) \subseteq 1..Begun(u)' /\ Begun(u) \in Nat /\ Begun(u)' \in Nat
    <3> TAKE u \in Tests
    <3>1. CASE u = t
      BY <2>2, <3>1
    <3>2. CASE u # t
      BY <2>3, <3>2, BegunIsNat
    <3> QED
      BY <3>1, <3>2
  <2>6. n \in 1..Begun(t)' /\ \A m \in 1..Begun(t)' : m = n \/ m \in 1..Begun(t)
    BY <2>2, <2>5
  <2>7. \A id \in DOMAIN collectors' : \E u \in Tests : \E m \in 1..Begun(u)' : id = <<u, m>>
    BY <2>4, <2>5, <2>6 DEF CollectorsInv
  <2>8. \A u \in Tests : pc'[u] # "done" => \A m \in 1..Begun(u)' : <<u, m>> \in DOMAIN collectors'
    BY <2>1, <2>3, <2>4, <2>6 DEF CollectorsInv
  <2>9. \A k \in Tasks : task'[k].at # "free" =>
          \E u \in Tests : \E m \in 1..Begun(u)' : task'[k].from = <<u, m>>
    BY <2>1, <2>5 DEF CollectorsInv
  <2> QED
    BY <2>1, <2>4, <2>7, <2>8, <2>9 DEF CollectorsInv
<1>2. ASSUME NEW t \in Tests, Return(t) \/ CatchUnwind(t) PROVE CollectorsInv'
  <2>1. /\ pc[t] \in {"body", "unwinding"} /\ pc' = [pc EXCEPT ![t] = "decide"]
        /\ \E o \in Outcomes : outcomes' = [outcomes EXCEPT ![t] = Append(@, o)]
        /\ UNCHANGED <<task, recorded, collectors>>
    BY <1>2 DEF Return, CatchUnwind, Outcomes
  <2>2. /\ pc'[t] = "decide" /\ Len(outcomes'[t]) = Len(outcomes[t]) + 1
        /\ \A u \in Tests \ {t} : pc'[u] = pc[u] /\ outcomes'[u] = outcomes[u]
    BY <2>1 DEF AttemptTypes
  <2>3. Begun(t)' = Begun(t)
    <3>1. Len(outcomes[t]) \in Nat
      BY BegunIsNat
    <3>2. Begun(t) = Len(outcomes[t]) + 1
      BY <2>1 DEF Begun
    <3>3. Begun(t)' = Len(outcomes[t]) + 1 + 0
      BY <2>2 DEF Begun
    <3> QED
      BY <3>1, <3>2, <3>3
  <2>4. \A u \in Tests \ {t} : Begun(u)' = Begun(u)
    BY <2>2 DEF Begun
  <2> QED
    BY <2>1, <2>2, <2>3, <2>4, CollectorsKept
<1>3. ASSUME NEW t \in Tests, BodyPanics(t) \/ Judge(t) PROVE CollectorsInv'
  <2>1. /\ UNCHANGED <<outcomes, task, recorded, collectors>>
        /\ \/ pc[t] = "body" /\ pc' = [pc EXCEPT ![t] = "unwinding"]
           \/ pc[t] = "decide" /\ pc' = [pc EXCEPT ![t] = "check"]
    BY <1>3 DEF BodyPanics, Judge, Settled
  <2>2. \A u \in Tests : Begun(u)' = Begun(u) /\ (pc'[u] # "done" => pc[u] # "done")
    BY <2>1 DEF Begun, AttemptTypes
  <2> QED
    BY <2>1, <2>2, CollectorsKept
<1>4. ASSUME NEW t \in Tests, Check(t) PROVE CollectorsInv'
  <2>1. /\ pc[t] = "check" /\ pc' = [pc EXCEPT ![t] = "done"] /\ UNCHANGED <<outcomes, task, recorded>>
        /\ collectors' = Restrict(collectors, DOMAIN collectors \ {LastId(t)})
    BY <1>4 DEF Check, Charge
  <2>2. \A u \in Tests : Begun(u)' = Begun(u) /\ (u # t => pc'[u] = pc[u]) /\ pc'[t] = "done"
    BY <2>1 DEF Begun, AttemptTypes
  <2>3. LastId(t) = <<t, Len(outcomes[t])>>
    BY <2>1 DEF LastId
  <2>4. /\ DOMAIN collectors' = DOMAIN collectors \ {LastId(t)}
        /\ collectors' \in [DOMAIN collectors' -> Nat]
    BY <2>1 DEF Restrict, CollectorsInv
  <2>5. \A u \in Tests : pc'[u] # "done" => \A n \in 1..Begun(u)' : <<u, n>> \in DOMAIN collectors'
    <3> SUFFICES ASSUME NEW u \in Tests, pc'[u] # "done", NEW n \in 1..Begun(u)
                 PROVE  <<u, n>> \in DOMAIN collectors'
      BY <2>2
    <3>1. u # t /\ pc[u] # "done"
      BY <2>2
    <3>2. <<u, n>> \in DOMAIN collectors /\ <<u, n>> # LastId(t)
      BY <2>3, <3>1 DEF CollectorsInv
    <3> QED
      BY <2>4, <3>2
  <2>6. \A id \in DOMAIN collectors' : \E u \in Tests : \E n \in 1..Begun(u)' : id = <<u, n>>
    BY <2>2, <2>4 DEF CollectorsInv
  <2>7. \A k \in Tasks : task'[k].at # "free" =>
          \E u \in Tests : \E n \in 1..Begun(u)' : task'[k].from = <<u, n>>
    BY <2>1, <2>2 DEF CollectorsInv
  <2> QED
    BY <2>1, <2>4, <2>5, <2>6, <2>7 DEF CollectorsInv
<1>5. ASSUME NEW k \in Tasks, TaskStep(k) PROVE CollectorsInv'
  <2>1. UNCHANGED <<pc, outcomes>>
    BY <1>5 DEF TaskStep, BodyStarts, TaskStarts, Start, Migrate, TaskPanics, Record
  <2>2. task[k] \in Records /\ task \in [Tasks -> Records]
        /\ collectors \in [DOMAIN collectors -> Nat] /\ recorded \in [Tests -> SUBSET Nat]
    BY DEF CollectorsInv
  <2>3. ASSUME NEW t \in Tests, BodyStarts(t, k) PROVE CollectorsInv'
    <3>1. LastId(t) = <<t, Begun(t)>> /\ Begun(t) \in 1..Begun(t) /\ LastId(t) \in Ids
      BY <2>3, RunsLastBegun DEF BodyStarts
    <3> QED
      BY <2>1, <2>3, <3>1, StartKeeps DEF BodyStarts
  <2>4. ASSUME NEW j \in Tasks, TaskStarts(j, k) PROVE CollectorsInv'
    <3>1. task[j].on \in Ids /\ task[j].from \in Ids
      BY DEF CollectorsInv, Records
    <3>2. PICK t \in Tests : \E n \in 1..Begun(t) : task[j].from = <<t, n>>
      BY <2>4 DEF TaskStarts, CollectorsInv
    <3>3. PICK n \in 1..Begun(t) : task[j].from = <<t, n>>
      BY <3>2
    <3> QED
      BY <2>1, <2>4, <3>1, <3>3, StartKeeps DEF TaskStarts
  <2>5. CASE Migrate(k)
    <3>1. PICK id \in RuntimeIds \ {task[k].on} : task' = [task EXCEPT ![k].on = id]
      BY <2>5 DEF Migrate
    <3>2. task[k].at = "running" /\ UNCHANGED <<collectors, recorded>>
      BY <2>5 DEF Migrate
    <3> DEFINE r == [task[k] EXCEPT !.on = id]
    <3>3. id \in Ids
      BY <3>1 DEF RuntimeIds, CollectorsInv, Records, Ids
    <3>4. r \in Records /\ r.from = task[k].from /\ task' = [task EXCEPT ![k] = r]
      BY <2>2, <3>1, <3>3 DEF Records
    <3>5. \E t \in Tests : \E n \in 1..Begun(t) : task[k].from = <<t, n>>
      BY <3>2 DEF CollectorsInv
    <3> HIDE DEF r
    <3> QED
      BY <2>1, <2>2, <3>2, <3>4, <3>5, TaskMoves
  <2>6. CASE TaskPanics(k)
    <3>1. task[k].at = "running" /\ UNCHANGED <<collectors, recorded>>
      BY <2>6 DEF TaskPanics
    <3> DEFINE r == [task[k] EXCEPT !.at = "unwinding"]
    <3>2. r \in Records /\ r.from = task[k].from /\ task' = [task EXCEPT ![k] = r]
      BY <2>2, <2>6 DEF TaskPanics, Records
    <3>3. \E t \in Tests : \E n \in 1..Begun(t) : task[k].from = <<t, n>>
      BY <3>1 DEF CollectorsInv
    <3> HIDE DEF r
    <3> QED
      BY <2>1, <2>2, <3>1, <3>2, <3>3, TaskMoves
  <2>7. CASE Record(k)
    <3>1. /\ task[k].at = "unwinding"
          /\ collectors' = [i \in DOMAIN collectors |->
                               IF i = task[k].id THEN collectors[i] + 1 ELSE collectors[i]]
      BY <2>7 DEF Record
    <3> DEFINE r == [task[k] EXCEPT !.at = "ended"]
    <3>2. r \in Records /\ r.from = task[k].from /\ task' = [task EXCEPT ![k] = r]
      BY <2>2, <2>7 DEF Record, Records
    <3>3. PICK t \in Tests : \E n \in 1..Begun(t) : task[k].from = <<t, n>>
      BY <3>1 DEF CollectorsInv
    <3>4. PICK n \in 1..Begun(t) : task[k].from = <<t, n>>
      BY <3>3
    <3>5. n \in Nat /\ task[k].from[2] = n
      BY <3>4, BegunIsNat
    <3>6. DOMAIN collectors' = DOMAIN collectors /\ collectors' \in [DOMAIN collectors' -> Nat]
      BY <2>2, <3>1
    <3>7. recorded' \in [Tests -> SUBSET Nat]
      BY <2>2, <2>7, <3>5 DEF Record
    <3> HIDE DEF r
    <3> QED
      BY <2>1, <3>2, <3>4, <3>6, <3>7, TaskMoves
  <2> QED
    BY <1>5, <2>3, <2>4, <2>5, <2>6, <2>7 DEF TaskStep
<1>6. CASE UNCHANGED vars
  BY <1>6, CollectorsKept DEF vars, Begun
<1> QED
  BY <1>1, <1>2, <1>3, <1>4, <1>5, <1>6 DEF Next, Done, TestStep

-----------------------------------------------------------------------------
(* What the collectors have to do with the verdicts.                       *)

LEMMA GetAfterPut ==
    ASSUME NEW f, NEW id, NEW v, NEW j, NEW d
    PROVE  Get(Put(f, id, v), j, d) = IF j = id THEN v ELSE Get(f, j, d)
<1>1. CASE j = id
  BY <1>1 DEF Put, Get
<1>2. CASE j # id
  <2>1. DOMAIN Put(f, id, v) = DOMAIN f \cup {id}
    BY DEF Put
  <2>2. CASE j \in DOMAIN f
    <3>1. Put(f, id, v)[j] = f[j]
      BY <1>2, <2>2 DEF Put
    <3> QED
      BY <1>2, <2>1, <2>2, <3>1 DEF Get
  <2>3. CASE j \notin DOMAIN f
    BY <1>2, <2>1, <2>3 DEF Get
  <2> QED
    BY <2>2, <2>3
<1> QED
  BY <1>1, <1>2

(* A step that says nothing of a test.                                     *)
LEMMA RecordedKept ==
    ASSUME NEW t \in Tests, RecordedInv(t), UNCHANGED props,
           pc'[t] = pc[t], outcomes'[t] = outcomes[t], verdict'[t] = verdict[t],
           recorded'[t] = recorded[t], misled \subseteq misled',
           pc[t] # "done" => \A n \in Nat : Get(collectors', <<t, n>>, 0) = Get(collectors, <<t, n>>, 0)
    PROVE  RecordedInv(t)'
  BY DEF RecordedInv, AllWell, RecordedLast, Undisturbed

LEMMA RecordedNext ==
    ASSUME AttemptTypes, AttemptTypes', CollectorsInv, \A t \in Tests : RecordedInv(t), [Next]_vars,
           NEW u \in Tests
    PROVE  RecordedInv(u)'
<1> USE DEF testVars, tableVars, history
<1>0. RecordedInv(u) /\ Len(outcomes[u]) \in Nat /\ outcomes[u] \in Seq(Outcomes)
  BY DEF AttemptTypes
<1>1. ASSUME NEW t \in Tests, Begin(t) PROVE RecordedInv(u)'
  <2> DEFINE n == Len(outcomes[t]) + 1
  <2>1. /\ pc[t] = "decide" /\ pc' = [pc EXCEPT ![t] = "body"]
        /\ UNCHANGED <<props, outcomes, verdict, recorded, misled>>
        /\ collectors' = Put(collectors, <<t, n>>, 0)
    BY <1>1 DEF Begin, Attempt
  <2>2. /\ n \in Nat /\ Begun(t) = n - 1 /\ Begun(t) \in Nat
        /\ pc'[t] = "body" /\ \A v \in Tests \ {t} : pc'[v] = pc[v]
    BY <2>1 DEF Begun, AttemptTypes
  <2> HIDE DEF n
  <2>3. <<t, n>> \notin DOMAIN collectors
    <3> SUFFICES ASSUME NEW v \in Tests, NEW m \in 1..Begun(v), <<t, n>> = <<v, m>> PROVE FALSE
      BY DEF CollectorsInv
    <3>1. v = t /\ m = n
      OBVIOUS
    <3> QED
      BY <2>2, <3>1
  <2>4. Get(collectors, <<t, n>>, 0) = 0
    BY <2>3 DEF Get
  <2>5. ASSUME NEW v, NEW m PROVE Get(collectors', <<v, m>>, 0) = Get(collectors, <<v, m>>, 0)
    <3>1. CASE <<v, m>> = <<t, n>>
      BY <2>1, <2>4, <3>1, GetAfterPut
    <3>2. CASE <<v, m>> # <<t, n>>
      BY <2>1, <3>2, GetAfterPut
    <3> QED
      BY <3>1, <3>2
  <2>6. CASE u = t
    <3>1. \A m \in Nat :
            /\ m \in recorded'[u] => Get(collectors', <<u, m>>, 0) > 0
            /\ Get(collectors', <<u, m>>, 0) > 0 => m \in recorded'[u] \/ <<u, m>> \in misled'
      BY <1>0, <2>1, <2>5, <2>6 DEF RecordedInv
    <3> QED
      BY <2>2, <2>6, <3>1 DEF RecordedInv
  <2>7. CASE u # t
    BY <1>0, <2>1, <2>2, <2>5, <2>7, RecordedKept
  <2> QED
    BY <2>6, <2>7
<1>2. ASSUME NEW t \in Tests, Return(t) \/ CatchUnwind(t) \/ BodyPanics(t) PROVE RecordedInv(u)'
  <2>1. /\ pc[t] \in {"body", "unwinding"} /\ UNCHANGED <<props, verdict, collectors, recorded, misled>>
        /\ pc'[t] \in {"decide", "unwinding"}
        /\ \A v \in Tests \ {t} : pc'[v] = pc[v] /\ outcomes'[v] = outcomes[v]
    BY <1>2 DEF Return, CatchUnwind, BodyPanics, AttemptTypes
  <2>2. CASE u = t
    BY <1>0, <2>1, <2>2 DEF RecordedInv
  <2>3. CASE u # t
    BY <1>0, <2>1, <2>3, RecordedKept
  <2> QED
    BY <2>2, <2>3
<1>3. ASSUME NEW t \in Tests, Judge(t) PROVE RecordedInv(u)'
  <2> DEFINE last == IF outcomes[t] = <<>> THEN "ok" ELSE Last(outcomes[t])
  <2>1. /\ pc[t] = "decide" /\ pc' = [pc EXCEPT ![t] = "check"]
        /\ UNCHANGED <<props, outcomes, collectors, recorded, misled>>
    BY <1>3 DEF Judge, Settled
  <2>2. /\ pc'[t] = "check" /\ \A v \in Tests \ {t} : pc'[v] = pc[v] /\ verdict'[v] = verdict[v]
    BY <1>3, <2>1 DEF Judge, AttemptTypes
  <2>3. CASE u = t
    <3>1. AllWell(t) => verdict'[t] = "passed"
      <4> SUFFICES ASSUME AllWell(t) PROVE verdict'[t] = "passed"
        OBVIOUS
      <4>1. last = "ok" /\ props[t].should = "no"
        <5>1. outcomes[t] # <<>> => Last(outcomes[t]) = outcomes[t][Len(outcomes[t])] /\ Len(outcomes[t]) \in 1..Len(outcomes[t])
          BY <1>0, <2>3 DEF Last
        <5> QED
          BY <5>1 DEF AllWell
      <4>2. verdict' = [verdict EXCEPT ![t] = Verdict(last = "ok" /\ props[t].should = "no")]
        BY <1>3, <4>1 DEF Judge
      <4> HIDE DEF last
      <4> QED
        BY <4>1, <4>2 DEF Verdict, AttemptTypes
    <3>2. \A m \in Nat :
            /\ m \in recorded'[u] => Get(collectors', <<u, m>>, 0) > 0
            /\ Get(collectors', <<u, m>>, 0) > 0 => m \in recorded'[u] \/ <<u, m>> \in misled'
      BY <1>0, <2>1, <2>3 DEF RecordedInv
    <3>3. AllWell(u)' = AllWell(u)
      BY <2>1 DEF AllWell
    <3> QED
      BY <2>2, <2>3, <3>1, <3>2, <3>3 DEF RecordedInv
  <2>4. CASE u # t
    BY <1>0, <2>1, <2>2, <2>4, RecordedKept
  <2> QED
    BY <2>3, <2>4
<1>4. ASSUME NEW t \in Tests, Check(t) PROVE RecordedInv(u)'
  <2>1. /\ pc[t] = "check" /\ pc' = [pc EXCEPT ![t] = "done"]
        /\ verdict' = [verdict EXCEPT ![t] =
               IF Get(collectors, LastId(t), 0) > 0 /\ props[t].failTest THEN "failed" ELSE @]
        /\ collectors' = Restrict(collectors, DOMAIN collectors \ {LastId(t)})
        /\ UNCHANGED <<props, outcomes, recorded, misled>>
    BY <1>4 DEF Check, Charge
  <2>2. /\ pc'[t] = "done" /\ \A v \in Tests \ {t} : pc'[v] = pc[v] /\ verdict'[v] = verdict[v]
        /\ verdict'[t] = IF Get(collectors, LastId(t), 0) > 0 /\ props[t].failTest
                         THEN "failed" ELSE verdict[t]
    BY <2>1 DEF AttemptTypes
  <2>3. LastId(t) = <<t, Len(outcomes[t])>>
    BY <2>1 DEF LastId
  <2>4. CASE u = t
    <3>1. /\ RecordedLast(t) => Get(collectors, LastId(t), 0) > 0
          /\ Get(collectors, LastId(t), 0) > 0 => RecordedLast(t) \/ <<t, Len(outcomes[t])>> \in misled
      BY <1>0, <2>1, <2>3, <2>4 DEF RecordedInv, RecordedLast
    <3>2. /\ AllWell(u)' = AllWell(u) /\ RecordedLast(u)' = RecordedLast(u)
          /\ Undisturbed(u)' = Undisturbed(u)
      BY <2>1 DEF AllWell, RecordedLast, Undisturbed
    <3>3. AllWell(u) => verdict[u] = "passed"
      BY <1>0, <2>1, <2>4 DEF RecordedInv
    <3>4. verdict'[u] = "passed" /\ props[u].failTest => ~RecordedLast(u)
      BY <2>2, <2>4, <3>1
    <3>5. AllWell(u) /\ Undisturbed(u) => verdict'[u] = "passed"
      BY <2>2, <2>4, <3>1, <3>3 DEF Undisturbed
    <3> QED
      BY <2>1, <2>2, <2>4, <3>2, <3>4, <3>5 DEF RecordedInv
  <2>5. CASE u # t
    <3>1. \A n \in Nat : Get(collectors', <<u, n>>, 0) = Get(collectors, <<u, n>>, 0)
      <4> TAKE n \in Nat
      <4>1. <<u, n>> # LastId(t)
        BY <2>3, <2>5
      <4>2. CASE <<u, n>> \in DOMAIN collectors
        <5>1. <<u, n>> \in DOMAIN collectors' /\ collectors'[<<u, n>>] = collectors[<<u, n>>]
          BY <2>1, <4>1, <4>2 DEF Restrict
        <5> QED
          BY <4>2, <5>1 DEF Get
      <4>3. CASE <<u, n>> \notin DOMAIN collectors
        <5>1. <<u, n>> \notin DOMAIN collectors'
          BY <2>1, <4>3 DEF Restrict
        <5> QED
          BY <4>3, <5>1 DEF Get
      <4> QED
        BY <4>2, <4>3
    <3> QED
      BY <1>0, <2>1, <2>2, <2>5, <3>1, RecordedKept
  <2> QED
    BY <2>4, <2>5
<1>5. ASSUME NEW k \in Tasks, Record(k) PROVE RecordedInv(u)'
  <2> DEFINE id == task[k].id
             from == task[k].from
  <2>1. /\ task[k].at = "unwinding" /\ UNCHANGED <<props, pc, outcomes, verdict>>
        /\ collectors' = [i \in DOMAIN collectors |->
                             IF i = id THEN collectors[i] + 1 ELSE collectors[i]]
        /\ IF id = from
           THEN /\ recorded' = [t \in Tests |-> IF t = from[1] /\ pc[t] # "done"
                                                THEN recorded[t] \cup {from[2]} ELSE recorded[t]]
                /\ UNCHANGED misled
           ELSE misled' = misled \cup {id} /\ UNCHANGED recorded
    BY <1>5 DEF Record
  <2>2. PICK t \in Tests : \E n \in 1..Begun(t) : from = <<t, n>>
    BY <2>1 DEF CollectorsInv
  <2>3. PICK n \in 1..Begun(t) : from = <<t, n>>
    BY <2>2
  <2>4. n \in Nat /\ from[1] = t /\ from[2] = n
    BY <2>3, BegunIsNat
  <2> HIDE DEF id, from
  <2>5. ASSUME NEW m \in Nat
        PROVE  Get(collectors', <<u, m>>, 0) = IF <<u, m>> = id /\ id \in DOMAIN collectors
                                               THEN collectors[id] + 1
                                               ELSE Get(collectors, <<u, m>>, 0)
    <3>1. CASE <<u, m>> \in DOMAIN collectors
      <4>1. /\ <<u, m>> \in DOMAIN collectors'
            /\ collectors'[<<u, m>>] = IF <<u, m>> = id THEN collectors[<<u, m>>] + 1
                                       ELSE collectors[<<u, m>>]
        BY <2>1, <3>1
      <4> QED
        BY <3>1, <4>1 DEF Get
    <3>2. CASE <<u, m>> \notin DOMAIN collectors
      <4>1. <<u, m>> \notin DOMAIN collectors'
        BY <2>1, <3>2
      <4> QED
        BY <3>2, <4>1 DEF Get
    <3> QED
      BY <3>1, <3>2
  <2>6. /\ AllWell(u)' = AllWell(u) /\ misled \subseteq misled'
        /\ pc[u] = "done" => recorded'[u] = recorded[u]
    BY <2>1 DEF AllWell, CollectorsInv
  <2>7. CASE pc[u] = "done"
    BY <1>0, <2>1, <2>6, <2>7, RecordedKept
  <2>8. CASE pc[u] # "done"
    <3> SUFFICES ASSUME NEW m \in Nat
                 PROVE  /\ m \in recorded'[u] => Get(collectors', <<u, m>>, 0) > 0
                        /\ Get(collectors', <<u, m>>, 0) > 0 => m \in recorded'[u] \/ <<u, m>> \in misled'
      BY <1>0, <2>1, <2>6, <2>8 DEF RecordedInv
    <3>1. /\ m \in recorded[u] => Get(collectors, <<u, m>>, 0) > 0
          /\ Get(collectors, <<u, m>>, 0) > 0 => m \in recorded[u] \/ <<u, m>> \in misled
      BY <1>0, <2>8 DEF RecordedInv
    <3>2. id \in DOMAIN collectors => collectors[id] \in Nat
      BY DEF CollectorsInv
    <3>3. CASE <<u, m>> = id /\ id = from
      <4>1. u = t /\ m = n
        BY <2>3, <3>3
      <4>2. id \in DOMAIN collectors
        BY <2>3, <2>8, <3>3, <4>1 DEF CollectorsInv
      <4>3. m \in recorded'[u]
        BY <2>1, <2>4, <2>8, <3>3, <4>1
      <4> QED
        BY <2>5, <3>2, <3>3, <4>2, <4>3
    <3>4. CASE <<u, m>> = id /\ id # from
      <4>1. <<u, m>> \in misled' /\ recorded'[u] = recorded[u]
        BY <2>1, <3>4
      <4> QED
        BY <2>5, <3>1, <3>2, <3>4, <4>1
    <3>5. CASE <<u, m>> # id
      <4>1. Get(collectors', <<u, m>>, 0) = Get(collectors, <<u, m>>, 0)
        BY <2>5, <3>5
      <4>2. m \in recorded'[u] <=> m \in recorded[u]
        <5>1. CASE id = from
          <6>1. ~(u = t /\ m = n)
            BY <2>3, <3>5, <5>1
          <6>2. recorded'[u] = IF u = t THEN recorded[u] \cup {n} ELSE recorded[u]
            BY <2>1, <2>4, <2>8, <5>1
          <6> QED
            BY <6>1, <6>2
        <5>2. CASE id # from
          BY <2>1, <5>2
        <5> QED
          BY <5>1, <5>2
      <4> QED
        BY <2>6, <3>1, <4>1, <4>2
    <3> QED
      BY <3>3, <3>4, <3>5
  <2> QED
    BY <2>7, <2>8
<1>6. ASSUME NEW k \in Tasks, TaskStep(k), ~Record(k) PROVE RecordedInv(u)'
  <2>1. UNCHANGED <<props, testVars, collectors, recorded, misled>>
    BY <1>6 DEF TaskStep, BodyStarts, TaskStarts, Start, Migrate, TaskPanics
  <2> QED
    BY <1>0, <2>1, RecordedKept
<1>7. CASE UNCHANGED vars
  BY <1>0, <1>7, RecordedKept DEF vars
<1> QED
  BY <1>1, <1>2, <1>3, <1>4, <1>5, <1>6, <1>7 DEF Next, Done, TestStep, TaskStep

LEMMA RecordedInit == Init => CollectorsInv /\ \A t \in Tests : RecordedInv(t)
<1> SUFFICES ASSUME Init PROVE CollectorsInv /\ \A t \in Tests : RecordedInv(t)
  OBVIOUS
<1>1. /\ DOMAIN collectors = {} /\ collectors \in [{} -> Nat]
      /\ \A t \in Tests : recorded[t] = {} /\ pc[t] = "decide" /\ Begun(t) = 0
      /\ recorded \in [Tests -> SUBSET Nat]
  BY DEF Init, Begun
<1>2. task \in [Tasks -> Records] /\ \A k \in Tasks : task[k].at = "free"
  BY DEF Init, Records, Ids
<1>3. CollectorsInv
  BY <1>1, <1>2 DEF CollectorsInv
<1>4. ASSUME NEW t \in Tests PROVE RecordedInv(t)
  <2>1. \A n : Get(collectors, <<t, n>>, 0) = 0
    BY <1>1 DEF Get
  <2> QED
    BY <1>1, <2>1 DEF RecordedInv
<1> QED
  BY <1>3, <1>4

(* What is recorded with the collector of the attempt that led to a task   *)
(* and in time fails its test, if it is the last one and the test is       *)
(* declared so; and a test of which all went well passes, unless a task    *)
(* with the id of another attempt was recorded for it (the check after the *)
(* body in run_test and the collectors that spawn.rs hands on), for any    *)
(* number of tests, of attempts and of tasks that start others, go on      *)
(* after their attempt or change threads.                                  *)
THEOREM PanicsAreCharged == Spec => []DetachedPanicsCharged
<1> DEFINE Inv == CollectorsInv /\ \A t \in Tests : RecordedInv(t)
<1>1. AttemptTypes /\ (\A t \in Tests : RecordedInv(t)) => DetachedPanicsCharged
  <2> SUFFICES ASSUME AttemptTypes, NEW t \in Tests, RecordedInv(t), pc[t] = "done"
               PROVE  /\ verdict[t] = "passed" /\ props[t].failTest => ~RecordedLast(t)
                      /\ /\ AllWell(t)
                         /\ props[t].failTest => recorded[t] = {} /\ LastId(t) \notin misled
                         => verdict[t] = "passed"
    BY DEF DetachedPanicsCharged, AllWell, RecordedLast
  <2>1. LastId(t) = <<t, Len(outcomes[t])>>
    BY DEF LastId
  <2>2. (props[t].failTest => recorded[t] = {} /\ LastId(t) \notin misled) => Undisturbed(t)
    BY <2>1 DEF Undisturbed, RecordedLast
  <2> QED
    BY <2>2 DEF RecordedInv
<1>2. AttemptInv /\ AttemptInv' /\ Inv /\ [Next]_vars => Inv'
  BY CollectorsNext, RecordedNext DEF AttemptInv
<1>3. Init => AttemptInv /\ Inv
  BY AttemptInit, RecordedInit
<1>4. AttemptInv => AttemptTypes
  BY DEF AttemptInv
<1> QED
  <2>1. AttemptInv /\ Inv /\ [Next]_vars => (AttemptInv /\ Inv)'
    BY <1>2, AttemptNext
  <2> QED
    BY <1>1, <1>3, <1>4, <2>1, PTL DEF Spec
=============================================================================
