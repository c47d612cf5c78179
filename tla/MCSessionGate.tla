--------------------------- MODULE MCSessionGate ---------------------------
(* TLC instance of SessionGate: one process with two goroutines, another
   with one. *)
EXTENDS SessionGate, TLC

CONSTANTS t1, t2, t3, p1, p2, w1

MCProcOf == (t1 :> p1) @@ (t2 :> p1) @@ (t3 :> p2)

=============================================================================
