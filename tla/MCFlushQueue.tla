---------------------------- MODULE MCFlushQueue ----------------------------
(* Ref p is refused by the remote, g is healthy, x was deleted from the clone
   after it was queued. *)
EXTENDS FlushQueue

CONSTANTS p, g, x, h1, h2

=============================================================================
