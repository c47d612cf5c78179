---------------------------- MODULE SessionGate ----------------------------
(***************************************************************************)
(* The mutation gate of one session's state file                           *)
(* (cmd/entire/cli/strategy/session_state.go over session/state.go).       *)
(*                                                                         *)
(* Every hook and command is a short-lived process.  A goroutine that      *)
(* changes the session record takes the session's flock, publishes itself  *)
(* as the owner of its process's gate, loads the record, runs a mutation   *)
(* function on the loaded copy, writes the copy back with an atomic        *)
(* rename, clears the gate, drops the lock, and only then runs the         *)
(* post-save effects its frames registered.                                *)
(*                                                                         *)
(* A nested MutateSessionState call runs on the gate owner's goroutine and *)
(* touches only the shared copy and the gate's queue, so a whole nested    *)
(* call, however deep, is one step (NestedMutate).                         *)
(*                                                                         *)
(* The record is abstracted to what the properties tell apart: the         *)
(* incarnation of the session (epoch), the ledger entries written to it    *)
(* (writes), and whether clean-up code considers it live, ended without a  *)
(* checkpoint, or stale (kind).                                            *)
(***************************************************************************)
EXTENDS Naturals, FiniteSets

CONSTANTS
  Thread,     \* goroutines that call into the gate
  Process,    \* operating-system processes
  ProcOf,     \* the process each goroutine belongs to
  Writes,     \* ledger entries a mutation function may record
  Absent,     \* no state file, and no loaded copy
  NoThread,   \* nobody holds the lock
  MaxEpoch    \* bound: how many times the session may be created

ASSUME ThreadAssumption ==
  /\ ProcOf \in [Thread -> Process]
  /\ NoThread \notin Thread

ASSUME EpochAssumption == MaxEpoch \in Nat

Kinds == {"live", "ended", "stale"}

Record == [epoch : 1..MaxEpoch, writes : SUBSET Writes, kind : Kinds]

ASSUME AbsentAssumption == Absent \notin Record

Event == (1..MaxEpoch) \X Writes

VARIABLES
  file,       \* the state file: Absent or a Record
  flock,      \* holder of entire-session-locks/<id>.lock
  gate,       \* per process: owner goroutine, loaded copy, queued effects
  pc,         \* where each goroutine is in its outermost call
  op,         \* which outermost call it makes
  effects,    \* effects a goroutine runs after releasing
  epoch,      \* incarnations created so far (history)
  cleared,    \* incarnations discarded on purpose (history)
  durable,    \* ledger entries that reached the file (history)
  announced   \* how often each event was announced (history)

vars == <<file, flock, gate, pc, op, effects, epoch, cleared, durable, announced>>

history == <<epoch, cleared, durable, announced>>

FreeGate == [owner |-> NoThread, active |-> Absent, afterSave |-> {}]

Gate == [owner : Thread \cup {NoThread},
         active : Record \cup {Absent},
         afterSave : SUBSET Writes]

Locked == {"load", "body", "save", "create", "remove", "exit", "unlock"}

TypeOK ==
  /\ file \in Record \cup {Absent}
  /\ flock \in Thread \cup {NoThread}
  /\ gate \in [Process -> Gate]
  /\ pc \in [Thread -> {"idle", "wait", "effects"} \cup Locked]
  /\ op \in [Thread -> {"mutate", "init", "clear"}]
  /\ effects \in [Thread -> SUBSET Event]
  /\ epoch \in 0..MaxEpoch
  /\ cleared \in SUBSET (1..MaxEpoch)
  /\ durable \in SUBSET Event
  /\ announced \in [Event -> Nat]

Init ==
  /\ file = Absent
  /\ flock = NoThread
  /\ gate = [p \in Process |-> FreeGate]
  /\ pc = [t \in Thread |-> "idle"]
  /\ op = [t \in Thread |-> "mutate"]
  /\ effects = [t \in Thread |-> {}]
  /\ epoch = 0
  /\ cleared = {}
  /\ durable = {}
  /\ announced = [e \in Event |-> 0]

-----------------------------------------------------------------------------
Goto(t, label) == pc' = [pc EXCEPT ![t] = label]

MyGate(t) == gate[ProcOf[t]]

(* StateStore.Clear on a present file.  Discarding an incarnation is a
   decision; the history variable remembers it. *)
DeleteFile ==
  /\ file' = Absent
  /\ cleared' = IF file = Absent THEN cleared ELSE cleared \cup {file.epoch}

(* A load finds a record, and not one past the stale threshold. *)
Fresh == file # Absent /\ file.kind # "stale"

-----------------------------------------------------------------------------
(* Variants of the actions below with a plausible bug each.  Nothing uses
   them; substituting one for its action must break a property. *)

(* A gate that excludes goroutines of one process only. *)
AcquireInProcessOnly(t) ==
  /\ pc[t] = "wait"
  /\ MyGate(t).owner = NoThread
  /\ flock' = t
  /\ gate' = [gate EXCEPT ![ProcOf[t]].owner = t]
  /\ Goto(t, IF op[t] = "clear" THEN "remove" ELSE "load")
  /\ UNCHANGED <<file, op, effects, history>>

(* initializeSession trusts its caller's unlocked check and overwrites. *)
LoadWithoutRecheck(t) ==
  /\ pc[t] = "load"
  /\ Fresh
  /\ IF op[t] = "mutate"
       THEN /\ gate' = [gate EXCEPT ![ProcOf[t]].active = file]
            /\ Goto(t, "body")
       ELSE Goto(t, "create") /\ UNCHANGED gate
  /\ UNCHANGED <<file, flock, op, effects, history>>

(* The closure clears the state and then returns nil. *)
ClearThenReturnNil(t) ==
  /\ pc[t] = "body"
  /\ DeleteFile
  /\ Goto(t, "save")
  /\ UNCHANGED <<flock, gate, op, effects, epoch, durable, announced>>

(* Effects are owed although the save failed. *)
SaveFailsButAnnounces(t) ==
  LET g == MyGate(t) IN
  /\ pc[t] \in {"save", "create"}
  /\ effects' = [effects EXCEPT ![t] =
       IF pc[t] = "save" THEN {<<g.active.epoch, w>> : w \in g.afterSave} ELSE {}]
  /\ Goto(t, "exit")
  /\ UNCHANGED <<file, flock, gate, op, history>>

(* A new record takes over the counter without advancing it. *)
CreateSameEpoch(t) ==
  /\ pc[t] = "create"
  /\ epoch < MaxEpoch
  /\ file' = [epoch |-> epoch, writes |-> {}, kind |-> "live"]
  /\ Goto(t, "exit")
  /\ UNCHANGED <<flock, gate, op, effects, epoch, cleared, durable, announced>>

(* The queue survives the frame. *)
ExitFrameKeepsQueue(t) ==
  /\ pc[t] = "exit"
  /\ gate' = [gate EXCEPT ![ProcOf[t]].active = Absent]
  /\ Goto(t, "unlock")
  /\ UNCHANGED <<file, flock, op, effects, history>>

(* Effects run before the release. *)
RunEffectEarly(t) ==
  /\ pc[t] \in {"unlock", "effects"}
  /\ \E e \in effects[t] :
       /\ effects' = [effects EXCEPT ![t] = @ \ {e}]
       /\ announced' = [announced EXCEPT ![e] = @ + 1]
       /\ Goto(t, IF pc[t] = "effects" /\ effects[t] = {e} THEN "idle" ELSE pc[t])
  /\ UNCHANGED <<file, flock, gate, op, epoch, cleared, durable>>

(* ClearSessionState without the reentrancy refusal. *)
BeginReentrantly(t, o) ==
  /\ pc[t] = "idle" \/ (pc[t] = "body" /\ o = "clear")
  /\ op' = [op EXCEPT ![t] = o]
  /\ Goto(t, "wait")
  /\ UNCHANGED <<file, flock, gate, effects, history>>

(* Announce first, save later: the save's own effects are announced twice
   when the pass is repeated after a failed save. *)
ReturnWithoutSaveAnnounces(t) ==
  LET g == MyGate(t) IN
  /\ pc[t] = "body"
  /\ effects' = [effects EXCEPT ![t] = {<<g.active.epoch, w>> : w \in g.afterSave}]
  /\ Goto(t, "exit")
  /\ UNCHANGED <<file, flock, gate, op, history>>

-----------------------------------------------------------------------------
(* A call starts.  A goroutine that already owns its process's gate is
   nested (see NestedMutate); ClearSessionState refuses to run there, so
   only a goroutine that does not own the gate goes on to wait. *)
Begin(t, o) ==
  /\ pc[t] = "idle" \/ (pc[t] = "body" /\ o = "clear")
  /\ MyGate(t).owner # t
  /\ op' = [op EXCEPT ![t] = o]
  /\ Goto(t, "wait")
  /\ UNCHANGED <<file, flock, gate, effects, history>>

(* flock granted; owner published in the in-process gate. *)
AcquireGate(t) ==
  /\ pc[t] = "wait"
  /\ flock = NoThread
  /\ flock' = t
  /\ gate' = [gate EXCEPT ![ProcOf[t]].owner = t]
  /\ Goto(t, IF op[t] = "clear" THEN "remove" ELSE "load")
  /\ UNCHANGED <<file, op, effects, history>>

(* The caller set a lock deadline (turn start) and it passed.  Clearing is
   never bounded. *)
AcquireTimesOut(t) ==
  /\ pc[t] = "wait"
  /\ op[t] # "clear"
  /\ flock # NoThread
  /\ Goto(t, "idle")
  /\ UNCHANGED <<file, flock, gate, op, effects, history>>

(* A readable record: mutate gets the shared copy, initialize has nothing
   left to do. *)
LoadPresent(t) ==
  /\ pc[t] = "load"
  /\ Fresh
  /\ IF op[t] = "mutate"
       THEN /\ gate' = [gate EXCEPT ![ProcOf[t]].active = file]
            /\ Goto(t, "body")
       ELSE Goto(t, "exit") /\ UNCHANGED gate
  /\ UNCHANGED <<file, flock, op, effects, history>>

(* No record, or one older than the stale threshold, which the load deletes:
   mutate reports ErrStateNotFound, initialize goes on to create. *)
LoadMissing(t) ==
  /\ pc[t] = "load"
  /\ ~Fresh
  /\ DeleteFile
  /\ Goto(t, IF op[t] = "mutate" THEN "exit" ELSE "create")
  /\ UNCHANGED <<flock, gate, op, effects, epoch, durable, announced>>

(* What a mutation function does to the shared copy: record entries W, which
   the ledger does not hold yet, and leave the session live or ended. *)
RecordIn(copy, W, k) == [epoch |-> copy.epoch, writes |-> copy.writes \cup W, kind |-> k]

Unrecorded(t) == Writes \ MyGate(t).active.writes

(* A nested frame: it mutates the shared copy, and queues its effect on the
   gate only if its function returned nil.  When it fails, the caller
   swallows the error and the mutation stays. *)
NestedMutate(t, W, k, ok) ==
  /\ pc[t] = "body"
  /\ W \subseteq Unrecorded(t)
  /\ gate' = [gate EXCEPT ![ProcOf[t]] =
       [owner |-> t, active |-> RecordIn(@.active, W, k),
        afterSave |-> IF ok THEN @.afterSave \cup W ELSE @.afterSave]]
  /\ UNCHANGED <<file, flock, pc, op, effects, history>>

(* The outermost function records W, if anything, registers the effect for it,
   and returns nil. *)
ReturnNil(t, W, k) ==
  /\ pc[t] = "body"
  /\ W \subseteq Unrecorded(t)
  /\ gate' = [gate EXCEPT ![ProcOf[t]] =
       [owner |-> t, active |-> RecordIn(@.active, W, k),
        afterSave |-> @.afterSave \cup W]]
  /\ Goto(t, "save")
  /\ UNCHANGED <<file, flock, op, effects, history>>

(* ErrMutationSkip or an error: no save, queued effects are dropped. *)
ReturnWithoutSave(t) ==
  /\ pc[t] = "body"
  /\ Goto(t, "exit")
  /\ UNCHANGED <<file, flock, gate, op, effects, history>>

(* clearSessionStateLocked inside the closure, which then returns
   ErrMutationSkip so that the frame does not write the record back. *)
ClearInsideFrame(t) ==
  /\ pc[t] = "body"
  /\ DeleteFile
  /\ Goto(t, "exit")
  /\ UNCHANGED <<flock, gate, op, effects, epoch, durable, announced>>

(* The atomic rename.  Its success is what makes the queued effects owed. *)
Save(t) ==
  LET g == MyGate(t) IN
  /\ pc[t] = "save"
  /\ file' = g.active
  /\ durable' = durable \cup {<<g.active.epoch, w>> : w \in g.active.writes}
  /\ effects' = [effects EXCEPT ![t] = {<<g.active.epoch, w>> : w \in g.afterSave}]
  /\ Goto(t, "exit")
  /\ UNCHANGED <<flock, gate, op, epoch, cleared, announced>>

SaveFails(t) ==
  /\ pc[t] \in {"save", "create"}
  /\ Goto(t, "exit")
  /\ UNCHANGED <<file, flock, gate, op, effects, history>>

(* initializeSession found no record under the lock and writes a new one. *)
Create(t) ==
  /\ pc[t] = "create"
  /\ epoch < MaxEpoch
  /\ epoch' = epoch + 1
  /\ file' = [epoch |-> epoch + 1, writes |-> {}, kind |-> "live"]
  /\ Goto(t, "exit")
  /\ UNCHANGED <<flock, gate, op, effects, cleared, durable, announced>>

(* ClearSessionState / clearSessionState, holding the gate. *)
Remove(t) ==
  /\ pc[t] = "remove"
  /\ DeleteFile
  /\ Goto(t, "exit")
  /\ UNCHANGED <<flock, gate, op, effects, epoch, durable, announced>>

(* The outermost frame's defer: first forget the copy and the queue ... *)
ExitFrame(t) ==
  /\ pc[t] = "exit"
  /\ gate' = [gate EXCEPT ![ProcOf[t]].active = Absent, ![ProcOf[t]].afterSave = {}]
  /\ Goto(t, "unlock")
  /\ UNCHANGED <<file, flock, op, effects, history>>

(* ... then drop owner and lock ... *)
Release(t) ==
  /\ pc[t] = "unlock"
  /\ gate' = [gate EXCEPT ![ProcOf[t]].owner = NoThread]
  /\ flock' = NoThread
  /\ Goto(t, IF effects[t] = {} THEN "idle" ELSE "effects")
  /\ UNCHANGED <<file, op, effects, history>>

(* ... then run the effects, outside the lock.  A panic is contained to its
   own effect. *)
RunEffect(t) ==
  /\ pc[t] = "effects"
  /\ \E e \in effects[t] :
       /\ effects' = [effects EXCEPT ![t] = @ \ {e}]
       /\ \/ announced' = [announced EXCEPT ![e] = @ + 1]
          \/ UNCHANGED announced
       /\ Goto(t, IF effects[t] = {e} THEN "idle" ELSE "effects")
  /\ UNCHANGED <<file, flock, gate, op, epoch, cleared, durable>>

(* A process dies: its memory goes, the kernel drops its flock. *)
Crash(p) ==
  LET dead == {t \in Thread : ProcOf[t] = p} IN
  /\ \E t \in dead : pc[t] # "idle"
  /\ pc' = [t \in Thread |-> IF t \in dead THEN "idle" ELSE pc[t]]
  /\ effects' = [t \in Thread |-> IF t \in dead THEN {} ELSE effects[t]]
  /\ gate' = [gate EXCEPT ![p] = FreeGate]
  /\ flock' = IF flock \in dead THEN NoThread ELSE flock
  /\ UNCHANGED <<file, op, history>>

AllIdle == \A t \in Thread : pc[t] = "idle"

(* A week without interaction; no call spans it. *)
Age ==
  /\ AllIdle
  /\ file # Absent
  /\ file' = [file EXCEPT !.kind = "stale"]
  /\ UNCHANGED <<flock, gate, pc, op, effects, history>>

(* Nothing is running and nothing more need ever run. *)
Quiescent == AllIdle /\ UNCHANGED vars

(* What a mutation function may do next. *)
Body(t) ==
  \/ \E W \in SUBSET Writes, k \in {"live", "ended"} :
       (\E ok \in BOOLEAN : NestedMutate(t, W, k, ok)) \/ ReturnNil(t, W, k)
  \/ ReturnWithoutSave(t)
  \/ ClearInsideFrame(t)

(* What a goroutine goes on to do once its call has the lock. *)
Proceed(t) ==
  \/ LoadPresent(t) \/ LoadMissing(t)
  \/ Body(t)
  \/ Save(t) \/ SaveFails(t) \/ Create(t) \/ Remove(t)
  \/ ExitFrame(t) \/ Release(t) \/ RunEffect(t)

Next ==
  \/ \E t \in Thread :
       \/ \E o \in {"mutate", "init", "clear"} : Begin(t, o)
       \/ AcquireGate(t) \/ AcquireTimesOut(t)
       \/ Proceed(t)
  \/ \E p \in Process : Crash(p)
  \/ Age
  \/ Quiescent

Spec == Init /\ [][Next]_vars

(* A mutation function is finite code, so a goroutine that has the lock runs
   on and its function returns; nothing is assumed about who gets a contended
   lock, nor that anybody starts a call. *)
Returns(t) == ReturnWithoutSave(t) \/ \E W \in SUBSET Writes : ReturnNil(t, W, "live")

FairSpec ==
  Spec /\ \A t \in Thread : WF_vars(Proceed(t)) /\ WF_vars(Returns(t))

-----------------------------------------------------------------------------
(* At most one goroutine is between acquire and release; it is the one that
   holds the flock and owns its process's gate.  (acquireSessionGate's two
   layers agree.) *)
MutualExclusion ==
  \A t \in Thread :
    pc[t] \in Locked <=> flock = t /\ MyGate(t).owner = t

(* A gate nobody owns carries no copy and no queued effect, so the next frame
   of the process cannot see the previous one's.  (The defer clears the
   per-frame fields before it releases.) *)
GateLeftClean ==
  \A p \in Process :
    gate[p].owner = NoThread => gate[p].active = Absent /\ gate[p].afterSave = {}

(* Two hooks never lose each other's updates: a ledger entry that reached the
   file stays there until its incarnation is discarded on purpose. *)
NoLostWrite ==
  \A e \in durable :
    \/ e[1] \in cleared
    \/ file # Absent /\ file.epoch = e[1] /\ e[2] \in file.writes

(* A discarded session does not come back: a frame's save never writes back a
   record that was cleared while the frame ran. *)
NoResurrection == file # Absent => file.epoch \notin cleared

(* An event is announced only once it is in the ledger on disk, and never
   twice: the next pass over the transcript finds it recorded. *)
AnnouncedOnceAndDurable ==
  \A e \in Event : announced[e] <= IF e \in durable THEN 1 ELSE 0

(* No step that announces is taken by the holder of the lock, so telemetry
   never extends the time other hooks wait. *)
EffectsOutsideLock ==
  [][announced' # announced =>
       \E t \in Thread : effects'[t] # effects[t] /\ flock # t]_vars

(* The lock is released again and again: no call blocks on the lock its own
   goroutine holds. *)
LockIsReleased == []<>(flock = NoThread)

-----------------------------------------------------------------------------
Atomic ==
  INSTANCE SessionRecord WITH file <- file, epoch <- epoch, cleared <- cleared,
                              durable <- durable, announced <- announced

(* The gate implements the atomic record of SessionRecord: every step of a
   goroutine, a crash or a failed save included, is one step of the record or
   leaves it alone. *)
ImplementsRecord == Atomic!Spec

=============================================================================
