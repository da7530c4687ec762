---------------------------- MODULE MCTestAttempts ----------------------------
(* Two tests that run at the same time: one is declared in all ways, with   *)
(* one task or, where it is plain, two; the other is plain, with one task,  *)
(* and should panic with a message or not panic.                           *)
EXTENDS TestAttempts

CONSTANTS t1, t2
MCTests == {t1, t2}

Plain == [flakiness : {"none"}, tries : {0}, should : {"no"}, failTest : {TRUE}, spawns : {2}]

Quiet == [flakiness : {"none"}, tries : {0}, should : {"yes", "no"}, failTest : {FALSE}, spawns : {1}]

Flaky ==
    [flakiness : {"prove", "retry"}, tries : 0..2, should : {"no"}, failTest : {TRUE}, spawns : {1}]
    \cup [flakiness : {"prove", "retry"}, tries : 0..2, should : {"message"}, failTest : {TRUE}, spawns : {0}]

MCDeclared ==
    (t1 :> Plain \cup Quiet \cup Flaky)
    @@ (t2 :> [flakiness : {"none"}, tries : {0}, should : {"no", "message"}, failTest : {TRUE}, spawns : {1}])
=============================================================================
