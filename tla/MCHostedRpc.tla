----------------------------- MODULE MCHostedRpc -----------------------------
(* Two workers; the body of the first makes calls and leaves a detached     *)
(* caller behind, the body of the second only makes calls.                  *)
EXTENDS HostedRpc, TLC

CONSTANTS w1, w2, b1, b2, d1

MCHome     == b1 :> w1 @@ d1 :> w1 @@ b2 :> w2
MCNumTests == w1 :> 2 @@ w2 :> 1
MCMaxCalls == b1 :> 1 @@ d1 :> 2 @@ b2 :> 1
=============================================================================
