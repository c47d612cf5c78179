--------------------------- MODULE SessionRecord ---------------------------
(***************************************************************************)
(* What the gate of SessionGate promises, without locks, copies or         *)
(* processes: the session's state file behaves like one record that is     *)
(* created, extended, discarded and left to grow stale, each in one step,  *)
(* and an event recorded in it may be announced once, later.               *)
(***************************************************************************)
EXTENDS Naturals

CONSTANTS Writes, Absent, MaxEpoch

VARIABLES file, epoch, cleared, durable, announced

recordVars == <<file, epoch, cleared, durable, announced>>

Init ==
  /\ file = Absent
  /\ epoch = 0
  /\ cleared = {}
  /\ durable = {}
  /\ announced = [e \in (1..MaxEpoch) \X Writes |-> 0]

Create ==
  /\ file = Absent
  /\ epoch < MaxEpoch
  /\ epoch' = epoch + 1
  /\ file' = [epoch |-> epoch + 1, writes |-> {}, kind |-> "live"]
  /\ UNCHANGED <<cleared, durable, announced>>

(* A mutation adds entries to what is there; it never drops one. *)
Commit ==
  /\ file # Absent
  /\ \E W \in SUBSET Writes, k \in {"live", "ended"} :
       /\ file' = [file EXCEPT !.writes = @ \cup W, !.kind = k]
       /\ durable' = durable \cup {<<file.epoch, w>> : w \in file.writes \cup W}
  /\ UNCHANGED <<epoch, cleared, announced>>

Discard ==
  /\ file # Absent
  /\ file' = Absent
  /\ cleared' = cleared \cup {file.epoch}
  /\ UNCHANGED <<epoch, durable, announced>>

GrowStale ==
  /\ file # Absent
  /\ file' = [file EXCEPT !.kind = "stale"]
  /\ UNCHANGED <<epoch, cleared, durable, announced>>

Announce ==
  /\ \E e \in durable : announced[e] = 0 /\ announced' = [announced EXCEPT ![e] = 1]
  /\ UNCHANGED <<file, epoch, cleared, durable>>

Next == Create \/ Commit \/ Discard \/ GrowStale \/ Announce

Spec == Init /\ [][Next]_recordVars

=============================================================================
