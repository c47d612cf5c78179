-------------------------- MODULE MCSessionBypass --------------------------
(* TLC instance of SessionBypass: two goroutines, each in its own process. *)
EXTENDS SessionBypass, TLC

CONSTANTS t1, t2, p1, p2, w1, w2

MCProcOf == (t1 :> p1) @@ (t2 :> p2)

=============================================================================
