-------------------------- MODULE MCCheckpointSync --------------------------
(* Two machines, a and b, with a writer and a pre-push hook on each; sessions
   s1 and s3 run on a, s2 on b.  The checkpoint is first written on a; b reads
   it before it can add to it. *)
EXTENDS CheckpointSync

CONSTANTS a, b, s1, s2, s3, w1, w2, f1, f2, r1, r2

MCHomeOf == [s \in Session |-> IF s = s2 THEN b ELSE a]

MCCloneOf == [p \in Writer \cup Flusher \cup Reader |-> IF p \in {w1, f1, r1} THEN a ELSE b]

(* s1 is written again after others have been. *)
MCRevisions == [s \in Session |-> IF s = s1 THEN 2 ELSE 1]
MCOnce == [s \in Session |-> 1]

=============================================================================
