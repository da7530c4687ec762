-------------------------- MODULE MCWorkerProtocol --------------------------
(* Small suites for WorkerProtocol: module "q" has two tests, "p" and the   *)
(* root one each; the test of the root is ignored.                          *)
EXTENDS WorkerProtocol, TLC

CONSTANTS q, p, r1, q1, q2, p1, dep

MCSegments == {q, p}
MCNodes    == {<<>>, <<q>>, <<p>>}
MCRank     == <<>> :> 0 @@ <<q>> :> 0 @@ <<p>> :> 1
MCTests    == {r1, q1, q2, p1}
MCOwnTests == <<>> :> <<r1>> @@ <<q>> :> <<q1, q2>> @@ <<p>> :> <<p1>>

MCSequential == {<<q>>}

MCShipped  == <<dep>>
NoneShipped == <<>>

MCIgnored == {r1}

ThreadSymmetry == Permutations(Threads)
=============================================================================
