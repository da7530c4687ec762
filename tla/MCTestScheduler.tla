-------------------------- MODULE MCTestScheduler --------------------------
(* Small suites for TestScheduler.  "q" is a #[sequential] module with a    *)
(* nested module, "p" a parallel one, and "e" a module that has a property  *)
(* and a nested module with one, but no tests.                              *)
EXTENDS TestScheduler, TLC

CONSTANTS q, c, p, e, r1, q1, q2, c1, p1

MCSegments == {q, c, p, e}
MCNodes    == {<<>>, <<q>>, <<q, c>>, <<p>>, <<e>>, <<e, c>>}
MCRank     == <<>> :> 0 @@ <<q>> :> 0 @@ <<q, c>> :> 0
              @@ <<e>> :> 1 @@ <<e, c>> :> 0 @@ <<p>> :> 2
MCTests    == {r1, q1, q2, c1, p1}
MCOwnTests == <<>> :> <<r1>> @@ <<q>> :> <<q1, q2>> @@ <<q, c>> :> <<c1>>
              @@ <<e>> :> <<>> @@ <<e, c>> :> <<>> @@ <<p>> :> <<p1>>
MCDepNodes == {<<>>, <<q>>, <<q, c>>, <<p>>}

(* A sequential module inside another one; "p" and "e" are parallel.        *)
NestedSequential == {<<q>>, <<q, c>>}
=============================================================================
