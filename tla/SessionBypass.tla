--------------------------- MODULE SessionBypass ---------------------------
(***************************************************************************)
(* A writer of a session's state file that does not take its gate,         *)
(* composed with the ones that do (SessionGate): the orphan clean-up of    *)
(* listAllSessionStates reads every record, decides, and deletes the file  *)
(* by name, without the lock between its read and its delete.              *)
(***************************************************************************)
EXTENDS SessionGate

VARIABLE
  condemned   \* per goroutine: the clean-up listed the record and will delete it

BypassInit == Init /\ condemned = [t \in Thread |-> FALSE]

(* listAllSessionStates: the record it listed is ended, was never condensed
   and has no shadow branch any more. *)
SweepReads(t) ==
  /\ file # Absent /\ file.kind = "ended"
  /\ pc[t] = "idle"
  /\ ~condemned[t]
  /\ condemned' = [condemned EXCEPT ![t] = TRUE]
  /\ UNCHANGED vars

Orphaned(f) == f # Absent /\ f.kind # "live"

(* store.Clear deletes whatever is there by now.  The incarnation counts as
   discarded on purpose only if the file still qualifies. *)
SweepClears(t) ==
  /\ condemned[t]
  /\ file' = Absent
  /\ cleared' = IF Orphaned(file) THEN cleared \cup {file.epoch} ELSE cleared
  /\ condemned' = [condemned EXCEPT ![t] = FALSE]
  /\ UNCHANGED <<flock, gate, pc, op, effects, epoch, durable, announced>>

(* The gated calls; no week passes between a read and its delete. *)
GatedNext ==
  /\ Next
  /\ UNCHANGED condemned
  /\ (\E t \in Thread : condemned[t]) => ~Age

SweepNext == GatedNext \/ \E t \in Thread : SweepReads(t) \/ SweepClears(t)

bypassVars == <<vars, condemned>>

SweepSpec == BypassInit /\ [][SweepNext]_bypassVars

(* What the comment on clearSessionStateLocked promises: a properly locked
   write is never destroyed by a delete that lands between the decision and
   the clear. *)
LockedWriteSurvivesSweep == NoLostWrite

=============================================================================
