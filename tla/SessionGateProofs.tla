------------------------- MODULE SessionGateProofs -------------------------
(***************************************************************************)
(* Proofs about SessionGate and SessionBypass, for every set of            *)
(* goroutines, processes and ledger entries.  GateInv relates the copy     *)
(* held under the lock, the file and the effects still owed to what        *)
(* reached the disk; the sweep that deletes without the gate cannot break  *)
(* it.  IInv adds what only the gate secures: the copy is a copy of the    *)
(* file, and what was written stays until it is discarded.                 *)
(***************************************************************************)
EXTENDS SessionBypass, TLAPS

(* The two layers of the gate name the same goroutine. *)
Layers ==
  /\ \A t \in Thread : pc[t] \in Locked <=> flock = t
  /\ \A p \in Process : gate[p].owner # NoThread =>
       flock = gate[p].owner /\ ProcOf[flock] = p
  /\ flock # NoThread => gate[ProcOf[flock]].owner = flock

(* Outside a mutation function a gate is empty. *)
Fields ==
  \A p \in Process :
    gate[p].active # Absent \/ gate[p].afterSave # {} =>
      /\ gate[p].owner # NoThread
      /\ pc[gate[p].owner] \in {"body", "save", "exit"}

(* The entries of an incarnation that reached the file. *)
Landed(n) == {w \in Writes : <<n, w>> \in durable}

(* The copy in a mutation function has every entry of its incarnation that
   reached the file, and the queued effects are for entries that did not. *)
CopyIsWhole ==
  \A t \in Thread : pc[t] \in {"body", "save"} =>
    LET g == MyGate(t) IN
    /\ g.active # Absent /\ g.active.kind # "stale" /\ g.active.epoch <= epoch
    /\ g.afterSave \subseteq g.active.writes
    /\ Landed(g.active.epoch) \subseteq g.active.writes \ g.afterSave

(* A state file holds every entry that was ever saved to its incarnation, and
   nothing else: whoever deletes it deletes it whole, and a save that brings
   it back brings all of it back. *)
FileIsWhole == file # Absent => file.writes = Landed(file.epoch)

CreatesFromNothing == \A t \in Thread : pc[t] = "create" => file = Absent

Epochs ==
  /\ file # Absent => file.epoch <= epoch
  /\ \A e \in durable : e[1] <= epoch

(* Effects owed are durable, not announced, and owed by one goroutine. *)
Owed ==
  /\ \A t \in Thread : effects[t] # {} => pc[t] \in {"exit", "unlock", "effects"}
  /\ \A t \in Thread : \A e \in effects[t] : e \in durable /\ announced[e] = 0
  /\ \A s, t \in Thread : s # t => effects[s] \cap effects[t] = {}

GateInv ==
  /\ TypeOK
  /\ Layers
  /\ Fields
  /\ CopyIsWhole
  /\ FileIsWhole
  /\ CreatesFromNothing
  /\ Epochs
  /\ Owed
  /\ AnnouncedOnceAndDurable

(* While a mutation function runs, the file is the one it loaded. *)
CopyOfFile ==
  \A t \in Thread : pc[t] \in {"body", "save"} =>
    file # Absent /\ file.epoch = MyGate(t).active.epoch

ClearedPast == \A n \in cleared : n <= epoch

IInv ==
  /\ GateInv
  /\ CopyOfFile
  /\ ClearedPast
  /\ NoLostWrite
  /\ NoResurrection

(* A gate changes its owner and keeps the rest. *)
LEMMA OwnerSet ==
  ASSUME gate \in [Process -> Gate],
         NEW p \in Process, NEW o \in Thread \cup {NoThread},
         gate' = [gate EXCEPT ![p].owner = o]
  PROVE  gate' \in [Process -> Gate] /\ \A q \in Process : gate'[q] =
           [owner |-> IF q = p THEN o ELSE gate[q].owner,
            active |-> gate[q].active, afterSave |-> gate[q].afterSave]
<1>1. \A q \in Process : gate[q] \in Gate
  OBVIOUS
<1>2. \A q \in Process : gate'[q] =
           [owner |-> IF q = p THEN o ELSE gate[q].owner,
            active |-> gate[q].active, afterSave |-> gate[q].afterSave]
  BY <1>1 DEF Gate
<1>3. \A q \in Process : gate'[q] \in Gate
  BY <1>1, <1>2 DEF Gate
<1> QED
  BY <1>2, <1>3

(* A gate drops its copy and its queue and keeps its owner. *)
LEMMA GateEmptied ==
  ASSUME gate \in [Process -> Gate], NEW p \in Process,
         gate' = [gate EXCEPT ![p].active = Absent, ![p].afterSave = {}]
  PROVE  gate' \in [Process -> Gate] /\ \A q \in Process : gate'[q] =
           [owner |-> gate[q].owner,
            active |-> IF q = p THEN Absent ELSE gate[q].active,
            afterSave |-> IF q = p THEN {} ELSE gate[q].afterSave]
<1>1. \A q \in Process : gate[q] \in Gate
  OBVIOUS
<1>2. \A q \in Process : gate'[q] =
           [owner |-> gate[q].owner,
            active |-> IF q = p THEN Absent ELSE gate[q].active,
            afterSave |-> IF q = p THEN {} ELSE gate[q].afterSave]
  BY <1>1 DEF Gate
<1>3. \A q \in Process : gate'[q] \in Gate
  BY <1>1, <1>2 DEF Gate
<1> QED
  BY <1>2, <1>3

-----------------------------------------------------------------------------
(* What the gate keeps, whoever else deletes the file. *)

(* Starting a call touches nothing under the lock. *)
LEMMA BeginPreserves ==
  ASSUME GateInv, NEW t \in Thread, NEW o \in {"mutate", "init", "clear"}, Begin(t, o)
  PROVE  GateInv'
<1> USE DEF GateInv, Begin, Goto, MyGate, history
<1>1. TypeOK'
  BY ThreadAssumption DEF TypeOK, Gate, Locked
<1>2. Layers'
  BY ThreadAssumption DEF TypeOK, Layers, Gate, Locked
<1>3. Fields'
  BY ThreadAssumption DEF TypeOK, Layers, Fields, Gate, Locked
<1>4. CopyIsWhole'
  BY ThreadAssumption DEF TypeOK, Layers, Fields, CopyIsWhole, Landed, Locked, Gate
<1>5. CreatesFromNothing'
  BY ThreadAssumption DEF TypeOK, Layers, CreatesFromNothing, Locked
<1>6. Owed'
  BY ThreadAssumption DEF TypeOK, Owed
<1>7. Epochs' /\ FileIsWhole' /\ AnnouncedOnceAndDurable'
  BY DEF AnnouncedOnceAndDurable, Epochs, FileIsWhole, Landed, TypeOK
<1> QED
  BY <1>1, <1>2, <1>3, <1>4, <1>5, <1>6, <1>7 DEF GateInv

(* The lock was free, so no gate has an owner. *)
LEMMA AcquirePreserves ==
  ASSUME GateInv, NEW t \in Thread, AcquireGate(t)
  PROVE  GateInv'
<1> USE DEF GateInv, AcquireGate, Goto, MyGate, history
<1>1. gate' \in [Process -> Gate] /\ \A p \in Process : gate'[p] =
       [owner |-> IF p = ProcOf[t] THEN t ELSE gate[p].owner,
        active |-> gate[p].active, afterSave |-> gate[p].afterSave]
  <2>1. gate \in [Process -> Gate] /\ ProcOf[t] \in Process
    BY ThreadAssumption DEF TypeOK
  <2>2. gate' = [gate EXCEPT ![ProcOf[t]].owner = t]
    BY DEF AcquireGate
  <2> QED
    BY <2>1, <2>2, OwnerSet
<1>2. TypeOK'
  BY <1>1, ThreadAssumption DEF TypeOK, Gate, Locked
<1>3. Layers'
  BY <1>1, ThreadAssumption DEF TypeOK, Layers, Gate, Locked
<1>4. Fields'
  BY <1>1, ThreadAssumption DEF TypeOK, Layers, Fields, Gate, Locked
<1>5. CopyIsWhole'
  BY <1>1, ThreadAssumption DEF TypeOK, Layers, Fields, CopyIsWhole, Landed, Locked, Gate
<1>6. CreatesFromNothing'
  BY <1>1, ThreadAssumption DEF TypeOK, Layers, CreatesFromNothing, Locked
<1>7. Owed'
  BY <1>1, ThreadAssumption DEF TypeOK, Owed
<1>8. Epochs' /\ FileIsWhole' /\ AnnouncedOnceAndDurable'
  BY DEF AnnouncedOnceAndDurable, Epochs, FileIsWhole, Landed, TypeOK
<1> QED
  BY <1>2, <1>3, <1>4, <1>5, <1>6, <1>7, <1>8 DEF GateInv

(* A caller gives up before it holds anything. *)
LEMMA TimeoutPreserves ==
  ASSUME GateInv, NEW t \in Thread, AcquireTimesOut(t)
  PROVE  GateInv'
<1> USE DEF GateInv, AcquireTimesOut, Goto, MyGate, history
<1>1. TypeOK'
  BY ThreadAssumption DEF TypeOK, Gate, Locked
<1>2. Layers'
  BY ThreadAssumption DEF TypeOK, Layers, Gate, Locked
<1>3. Fields'
  BY ThreadAssumption DEF TypeOK, Layers, Fields, Gate, Locked
<1>4. CopyIsWhole'
  BY ThreadAssumption DEF TypeOK, Layers, Fields, CopyIsWhole, Landed, Locked, Gate
<1>5. CreatesFromNothing'
  BY ThreadAssumption DEF TypeOK, Layers, CreatesFromNothing, Locked
<1>6. Owed'
  BY ThreadAssumption DEF TypeOK, Owed
<1>7. Epochs' /\ FileIsWhole' /\ AnnouncedOnceAndDurable'
  BY DEF AnnouncedOnceAndDurable, Epochs, FileIsWhole, Landed, TypeOK
<1> QED
  BY <1>1, <1>2, <1>3, <1>4, <1>5, <1>6, <1>7 DEF GateInv

(* The copy starts out equal to the file. *)
LEMMA LoadPresentPreserves ==
  ASSUME GateInv, NEW t \in Thread, LoadPresent(t)
  PROVE  GateInv'
<1> USE DEF GateInv, LoadPresent, Goto, MyGate, history, Fresh
<1>1. gate' \in [Process -> Gate] /\ \A p \in Process : gate'[p] =
       [owner |-> gate[p].owner,
        active |-> IF p = ProcOf[t] /\ op[t] = "mutate" THEN file ELSE gate[p].active,
        afterSave |-> gate[p].afterSave]
  <2>1. CASE op[t] = "mutate"
    <3>1. gate' = [gate EXCEPT ![ProcOf[t]].active = file]
      BY <2>1
    <3>2. file \in Record \cup {Absent} /\ gate \in [Process -> Gate]
      BY DEF TypeOK
    <3> QED
      BY ONLY <2>1, <3>1, <3>2, ThreadAssumption DEF Gate
  <2>2. CASE op[t] # "mutate"
    BY <2>2, ThreadAssumption DEF TypeOK, Gate
  <2> QED
    BY <2>1, <2>2
<1>2. TypeOK'
  BY <1>1, ThreadAssumption DEF TypeOK, Gate, Locked
<1>3. Layers'
  BY <1>1, ThreadAssumption DEF TypeOK, Layers, Gate, Locked
<1>4. Fields'
  BY <1>1, ThreadAssumption DEF TypeOK, Layers, Fields, Gate, Locked
<1>5. CopyIsWhole'
  BY <1>1, ThreadAssumption, AbsentAssumption
  DEF TypeOK, Layers, Fields, FileIsWhole, Epochs, CopyIsWhole, Locked, Record, Landed, Gate
<1>6. CreatesFromNothing'
  BY <1>1, ThreadAssumption DEF TypeOK, Layers, CreatesFromNothing, Locked
<1>7. Owed'
  BY <1>1, ThreadAssumption DEF TypeOK, Owed
<1>8. Epochs' /\ FileIsWhole' /\ AnnouncedOnceAndDurable'
  BY DEF AnnouncedOnceAndDurable, Epochs, FileIsWhole, Landed, TypeOK
<1> QED
  BY <1>2, <1>3, <1>4, <1>5, <1>6, <1>7, <1>8 DEF GateInv

(* A missing or stale record leaves no file. *)
LEMMA LoadMissingPreserves ==
  ASSUME GateInv, NEW t \in Thread, LoadMissing(t)
  PROVE  GateInv'
<1> USE DEF GateInv, LoadMissing, DeleteFile, Goto, MyGate, history, Fresh
<1>1. TypeOK'
  BY DEF TypeOK, Record, Locked
<1>2. Layers'
  BY ThreadAssumption DEF TypeOK, Layers, Gate, Locked
<1>3. Fields'
  BY ThreadAssumption DEF TypeOK, Layers, Fields, Gate, Locked
<1>4. CopyIsWhole'
  BY ThreadAssumption DEF TypeOK, Layers, Fields, CopyIsWhole, Landed, Locked, Gate
<1>5. CreatesFromNothing'
  BY ThreadAssumption DEF TypeOK, Layers, CreatesFromNothing, Locked
<1>6. Epochs'
  BY AbsentAssumption DEF TypeOK, Epochs, Record
<1>7. Owed'
  BY ThreadAssumption DEF TypeOK, Owed
<1>8. FileIsWhole'
  BY ThreadAssumption, AbsentAssumption DEF TypeOK, FileIsWhole, Landed, Record, Event
<1>9. AnnouncedOnceAndDurable'
  BY ThreadAssumption DEF AnnouncedOnceAndDurable
<1> QED
  BY <1>1, <1>2, <1>3, <1>4, <1>5, <1>6, <1>7, <1>8, <1>9 DEF GateInv

(* Clearing under the lock discards the incarnation. *)
LEMMA RemovePreserves ==
  ASSUME GateInv, NEW t \in Thread, Remove(t)
  PROVE  GateInv'
<1> USE DEF GateInv, Remove, DeleteFile, Goto, MyGate, history, Fresh
<1>1. TypeOK'
  BY DEF TypeOK, Record, Locked
<1>2. Layers'
  BY ThreadAssumption DEF TypeOK, Layers, Gate, Locked
<1>3. Fields'
  BY ThreadAssumption DEF TypeOK, Layers, Fields, Gate, Locked
<1>4. CopyIsWhole'
  BY ThreadAssumption DEF TypeOK, Layers, Fields, CopyIsWhole, Landed, Locked, Gate
<1>5. CreatesFromNothing'
  BY ThreadAssumption DEF TypeOK, Layers, CreatesFromNothing, Locked
<1>6. Epochs'
  BY AbsentAssumption DEF TypeOK, Epochs, Record
<1>7. Owed'
  BY ThreadAssumption DEF TypeOK, Owed
<1>8. FileIsWhole'
  BY ThreadAssumption, AbsentAssumption DEF TypeOK, FileIsWhole, Landed, Record, Event
<1>9. AnnouncedOnceAndDurable'
  BY ThreadAssumption DEF AnnouncedOnceAndDurable
<1> QED
  BY <1>1, <1>2, <1>3, <1>4, <1>5, <1>6, <1>7, <1>8, <1>9 DEF GateInv

(* Clearing inside a frame ends the frame without a save. *)
LEMMA ClearInsideFramePreserves ==
  ASSUME GateInv, NEW t \in Thread, ClearInsideFrame(t)
  PROVE  GateInv'
<1> USE DEF GateInv, ClearInsideFrame, DeleteFile, Goto, MyGate, history, Fresh
<1>1. TypeOK'
  BY DEF TypeOK, Record, Locked
<1>2. Layers'
  BY ThreadAssumption DEF TypeOK, Layers, Gate, Locked
<1>3. Fields'
  BY ThreadAssumption DEF TypeOK, Layers, Fields, Gate, Locked
<1>4. CopyIsWhole'
  BY ThreadAssumption DEF TypeOK, Layers, Fields, CopyIsWhole, Landed, Locked, Gate
<1>5. CreatesFromNothing'
  BY ThreadAssumption DEF TypeOK, Layers, CreatesFromNothing, Locked
<1>6. Epochs'
  BY AbsentAssumption DEF TypeOK, Epochs, Record
<1>7. Owed'
  BY ThreadAssumption DEF TypeOK, Owed
<1>8. FileIsWhole'
  BY ThreadAssumption, AbsentAssumption DEF TypeOK, FileIsWhole, Landed, Record, Event
<1>9. AnnouncedOnceAndDurable'
  BY ThreadAssumption DEF AnnouncedOnceAndDurable
<1> QED
  BY <1>1, <1>2, <1>3, <1>4, <1>5, <1>6, <1>7, <1>8, <1>9 DEF GateInv

(* A nested frame only adds entries to the copy. *)
LEMMA NestedMutatePreserves ==
  ASSUME GateInv, NEW t \in Thread, NEW W \in SUBSET Writes, NEW k \in {"live", "ended"},
         NEW ok \in BOOLEAN, NestedMutate(t, W, k, ok)
  PROVE  GateInv'
<1> USE DEF GateInv, NestedMutate, Goto, MyGate, history, Unrecorded
<1>1. /\ ProcOf[t] \in Process
      /\ gate[ProcOf[t]] \in Gate
      /\ gate[ProcOf[t]].active \in Record /\ gate[ProcOf[t]].afterSave \subseteq Writes
  BY ThreadAssumption DEF TypeOK, CopyIsWhole, Gate
<1>2. /\ gate' \in [Process -> Gate]
      /\ gate'[ProcOf[t]] =
             [owner |-> t,
              active |-> [epoch |-> gate[ProcOf[t]].active.epoch,
                          writes |-> gate[ProcOf[t]].active.writes \cup W, kind |-> k],
              afterSave |-> IF ok THEN gate[ProcOf[t]].afterSave \cup W ELSE gate[ProcOf[t]].afterSave]
      /\ \A q \in Process \ {ProcOf[t]} : gate'[q] = gate[q]
  <2>1. RecordIn(gate[ProcOf[t]].active, W, k) \in Record
    BY <1>1 DEF Record, RecordIn, Kinds
  <2> QED
    BY <1>1, <2>1, ThreadAssumption DEF TypeOK, Gate, RecordIn
<1>3. TypeOK'
  BY <1>1, <1>2, ThreadAssumption DEF TypeOK, Locked
<1>4. Layers'
  BY <1>1, <1>2, ThreadAssumption DEF TypeOK, Layers, Gate, Locked
<1>5. Fields'
  BY <1>1, <1>2, ThreadAssumption DEF TypeOK, Layers, Fields, Gate, Locked
<1>6. CopyIsWhole'
  <2> SUFFICES ASSUME NEW s \in Thread, pc'[s] \in {"body", "save"}
               PROVE  /\ MyGate(s)'.active # Absent /\ MyGate(s)'.active.kind # "stale"
                      /\ MyGate(s)'.active.epoch <= epoch'
                      /\ MyGate(s)'.afterSave \subseteq MyGate(s)'.active.writes
                      /\ Landed(MyGate(s).active.epoch)'
                           \subseteq MyGate(s)'.active.writes \ MyGate(s)'.afterSave
    BY DEF CopyIsWhole
  <2>1. s = t
    BY DEF TypeOK, Layers, Locked
  <2>2. UNCHANGED <<epoch, durable>>
    OBVIOUS
  <2> DEFINE g == gate[ProcOf[t]]
             h == gate'[ProcOf[t]]
  <2>3. h.active \in Record /\ h.active # Absent
    BY <1>1, <1>2, AbsentAssumption DEF Record, Kinds
  <2>4. /\ h.active.epoch = g.active.epoch /\ h.active.kind = k
        /\ h.active.writes = g.active.writes \cup W
        /\ h.afterSave \subseteq g.afterSave \cup W
    BY <1>2
  <2>5. W \cap g.active.writes = {} /\ k # "stale"
    OBVIOUS
  <2>6. /\ g.active.epoch <= epoch /\ g.afterSave \subseteq g.active.writes
        /\ Landed(g.active.epoch) \subseteq g.active.writes \ g.afterSave
    BY DEF CopyIsWhole
  <2>7. Landed(MyGate(s).active.epoch)' = Landed(g.active.epoch)
    BY <2>1, <2>2, <2>4 DEF Landed
  <2> HIDE DEF GateInv, g, h
  <2>8. h.afterSave \subseteq h.active.writes
    BY <2>4, <2>6
  <2>9. Landed(MyGate(s).active.epoch)' \subseteq h.active.writes \ h.afterSave
    BY <2>4, <2>5, <2>6, <2>7
  <2> QED
    BY <2>1, <2>2, <2>3, <2>4, <2>5, <2>6, <2>8, <2>9 DEF h
<1>7. CreatesFromNothing'
  BY <1>1, <1>2, ThreadAssumption DEF TypeOK, Layers, CreatesFromNothing, Locked
<1>8. Owed'
  BY <1>1, <1>2, ThreadAssumption DEF TypeOK, Owed
<1>9. Epochs' /\ FileIsWhole' /\ AnnouncedOnceAndDurable'
  BY DEF AnnouncedOnceAndDurable, Epochs, FileIsWhole, Landed, TypeOK
<1> QED
  BY <1>3, <1>4, <1>5, <1>6, <1>7, <1>8, <1>9 DEF GateInv

(* So does the outermost function. *)
LEMMA ReturnNilPreserves ==
  ASSUME GateInv, NEW t \in Thread, NEW W \in SUBSET Writes, NEW k \in {"live", "ended"}, ReturnNil(t, W, k)
  PROVE  GateInv'
<1> USE DEF GateInv, ReturnNil, Goto, MyGate, history, Unrecorded
<1>1. /\ ProcOf[t] \in Process
      /\ gate[ProcOf[t]] \in Gate
      /\ gate[ProcOf[t]].active \in Record /\ gate[ProcOf[t]].afterSave \subseteq Writes
  BY ThreadAssumption DEF TypeOK, CopyIsWhole, Gate
<1>2. /\ gate' \in [Process -> Gate]
      /\ gate'[ProcOf[t]] =
             [owner |-> t,
              active |-> [epoch |-> gate[ProcOf[t]].active.epoch,
                          writes |-> gate[ProcOf[t]].active.writes \cup W, kind |-> k],
              afterSave |-> gate[ProcOf[t]].afterSave \cup W]
      /\ \A q \in Process \ {ProcOf[t]} : gate'[q] = gate[q]
  <2>1. RecordIn(gate[ProcOf[t]].active, W, k) \in Record
    BY <1>1 DEF Record, RecordIn, Kinds
  <2> QED
    BY <1>1, <2>1, ThreadAssumption DEF TypeOK, Gate, RecordIn
<1>3. TypeOK'
  BY <1>1, <1>2, ThreadAssumption DEF TypeOK, Locked
<1>4. Layers'
  BY <1>1, <1>2, ThreadAssumption DEF TypeOK, Layers, Gate, Locked
<1>5. Fields'
  BY <1>1, <1>2, ThreadAssumption DEF TypeOK, Layers, Fields, Gate, Locked
<1>6. CopyIsWhole'
  <2> SUFFICES ASSUME NEW s \in Thread, pc'[s] \in {"body", "save"}
               PROVE  /\ MyGate(s)'.active # Absent /\ MyGate(s)'.active.kind # "stale"
                      /\ MyGate(s)'.active.epoch <= epoch'
                      /\ MyGate(s)'.afterSave \subseteq MyGate(s)'.active.writes
                      /\ Landed(MyGate(s).active.epoch)'
                           \subseteq MyGate(s)'.active.writes \ MyGate(s)'.afterSave
    BY DEF CopyIsWhole
  <2>1. s = t
    BY DEF TypeOK, Layers, Locked
  <2>2. UNCHANGED <<epoch, durable>>
    OBVIOUS
  <2> DEFINE g == gate[ProcOf[t]]
             h == gate'[ProcOf[t]]
  <2>3. h.active \in Record /\ h.active # Absent
    BY <1>1, <1>2, AbsentAssumption DEF Record, Kinds
  <2>4. /\ h.active.epoch = g.active.epoch /\ h.active.kind = k
        /\ h.active.writes = g.active.writes \cup W
        /\ h.afterSave \subseteq g.afterSave \cup W
    BY <1>2
  <2>5. W \cap g.active.writes = {} /\ k # "stale"
    OBVIOUS
  <2>6. /\ g.active.epoch <= epoch /\ g.afterSave \subseteq g.active.writes
        /\ Landed(g.active.epoch) \subseteq g.active.writes \ g.afterSave
    BY DEF CopyIsWhole
  <2>7. Landed(MyGate(s).active.epoch)' = Landed(g.active.epoch)
    BY <2>1, <2>2, <2>4 DEF Landed
  <2> HIDE DEF GateInv, g, h
  <2>8. h.afterSave \subseteq h.active.writes
    BY <2>4, <2>6
  <2>9. Landed(MyGate(s).active.epoch)' \subseteq h.active.writes \ h.afterSave
    BY <2>4, <2>5, <2>6, <2>7
  <2> QED
    BY <2>1, <2>2, <2>3, <2>4, <2>5, <2>6, <2>8, <2>9 DEF h
<1>7. CreatesFromNothing'
  BY <1>1, <1>2, ThreadAssumption DEF TypeOK, Layers, CreatesFromNothing, Locked
<1>8. Owed'
  BY <1>1, <1>2, ThreadAssumption DEF TypeOK, Owed
<1>9. Epochs' /\ FileIsWhole' /\ AnnouncedOnceAndDurable'
  BY DEF AnnouncedOnceAndDurable, Epochs, FileIsWhole, Landed, TypeOK
<1> QED
  BY <1>3, <1>4, <1>5, <1>6, <1>7, <1>8, <1>9 DEF GateInv

(* A skipped or failed frame forgets its copy. *)
LEMMA ReturnWithoutSavePreserves ==
  ASSUME GateInv, NEW t \in Thread, ReturnWithoutSave(t)
  PROVE  GateInv'
<1> USE DEF GateInv, ReturnWithoutSave, Goto, MyGate, history
<1>1. TypeOK'
  BY ThreadAssumption DEF TypeOK, Gate, Locked
<1>2. Layers'
  BY ThreadAssumption DEF TypeOK, Layers, Gate, Locked
<1>3. Fields'
  BY ThreadAssumption DEF TypeOK, Layers, Fields, Gate, Locked
<1>4. CopyIsWhole'
  BY ThreadAssumption DEF TypeOK, Layers, Fields, CopyIsWhole, Landed, Locked, Gate
<1>5. CreatesFromNothing'
  BY ThreadAssumption DEF TypeOK, Layers, CreatesFromNothing, Locked
<1>6. Owed'
  BY ThreadAssumption DEF TypeOK, Owed
<1>7. Epochs' /\ FileIsWhole' /\ AnnouncedOnceAndDurable'
  BY DEF AnnouncedOnceAndDurable, Epochs, FileIsWhole, Landed, TypeOK
<1> QED
  BY <1>1, <1>2, <1>3, <1>4, <1>5, <1>6, <1>7 DEF GateInv

(* So does a failed save. *)
LEMMA SaveFailsPreserves ==
  ASSUME GateInv, NEW t \in Thread, SaveFails(t)
  PROVE  GateInv'
<1> USE DEF GateInv, SaveFails, Goto, MyGate, history
<1>1. TypeOK'
  BY ThreadAssumption DEF TypeOK, Gate, Locked
<1>2. Layers'
  BY ThreadAssumption DEF TypeOK, Layers, Gate, Locked
<1>3. Fields'
  BY ThreadAssumption DEF TypeOK, Layers, Fields, Gate, Locked
<1>4. CopyIsWhole'
  BY ThreadAssumption DEF TypeOK, Layers, Fields, CopyIsWhole, Landed, Locked, Gate
<1>5. CreatesFromNothing'
  BY ThreadAssumption DEF TypeOK, Layers, CreatesFromNothing, Locked
<1>6. Owed'
  BY ThreadAssumption DEF TypeOK, Owed
<1>7. Epochs' /\ FileIsWhole' /\ AnnouncedOnceAndDurable'
  BY DEF AnnouncedOnceAndDurable, Epochs, FileIsWhole, Landed, TypeOK
<1> QED
  BY <1>1, <1>2, <1>3, <1>4, <1>5, <1>6, <1>7 DEF GateInv

(* The save extends the file; the effects it owes are for entries
   that were not durable before. *)
LEMMA SavePreserves ==
  ASSUME GateInv, NEW t \in Thread, Save(t)
  PROVE  GateInv'
<1> USE DEF GateInv, Save, Goto, MyGate, history
<1>1. /\ ProcOf[t] \in Process
      /\ MyGate(t).active \in Record /\ MyGate(t).active.epoch <= epoch
      /\ MyGate(t).afterSave \subseteq MyGate(t).active.writes
      /\ Landed(MyGate(t).active.epoch) \subseteq MyGate(t).active.writes \ MyGate(t).afterSave
  BY ThreadAssumption DEF TypeOK, CopyIsWhole, Gate
<1>2. \A w \in MyGate(t).afterSave : <<MyGate(t).active.epoch, w>> \notin durable
  BY <1>1 DEF Landed, Record
<1>3. effects' \in [Thread -> SUBSET Event] /\ durable' \subseteq Event
  BY <1>1, <1>2, ThreadAssumption DEF TypeOK, Event, Record
<1>4. TypeOK'
  BY <1>1, <1>2, <1>3, ThreadAssumption DEF TypeOK, Locked
<1>5. Layers'
  BY <1>1, <1>2, <1>3, ThreadAssumption DEF TypeOK, Layers, Gate, Locked
<1>6. Fields'
  BY <1>1, <1>2, <1>3, ThreadAssumption DEF TypeOK, Layers, Fields, Gate, Locked
<1>7. CopyIsWhole'
  <2>1. ASSUME NEW s \in Thread, pc'[s] \in {"body", "save"} PROVE FALSE
    <3>1. flock = t
      BY DEF TypeOK, Layers, Locked
    <3>2. s # t /\ pc[s] \in {"body", "save"}
      BY <2>1 DEF TypeOK
    <3>3. flock = s
      BY <3>2 DEF Layers, Locked
    <3> QED
      BY <3>1, <3>2, <3>3
  <2> QED
    BY <2>1 DEF CopyIsWhole
<1>8. CreatesFromNothing'
  BY <1>1, <1>2, <1>3, ThreadAssumption DEF TypeOK, Layers, CreatesFromNothing, Locked
<1>9. Epochs'
  BY <1>1, <1>2, <1>3, AbsentAssumption DEF TypeOK, Epochs, Record
<1>10. Owed'
  <2>1. \A s \in Thread : effects'[s] # {} => pc'[s] \in {"exit", "unlock", "effects"}
    BY DEF TypeOK, Owed
  <2>2. \A e \in effects'[t] : e \in durable' /\ e \notin durable /\ announced'[e] = 0
    BY <1>1, <1>2, <1>3, ThreadAssumption DEF TypeOK, AnnouncedOnceAndDurable, Record
  <2>3. \A s \in Thread \ {t} : effects'[s] = effects[s]
    BY DEF TypeOK
  <2>4. \A s \in Thread : \A e \in effects'[s] : e \in durable' /\ announced'[e] = 0
    BY <2>2, <2>3 DEF Owed
  <2>5. \A s \in Thread \ {t} : effects'[s] \cap effects'[t] = {}
    BY <2>2, <2>3 DEF Owed
  <2>6. \A s, u \in Thread : s # u => effects'[s] \cap effects'[u] = {}
    BY <2>3, <2>5 DEF Owed
  <2> QED
    BY <2>1, <2>4, <2>6 DEF Owed
<1>11. FileIsWhole'
  BY <1>1 DEF FileIsWhole, Landed, Record
<1>12. AnnouncedOnceAndDurable'
  BY DEF TypeOK, AnnouncedOnceAndDurable
<1> QED
  BY <1>4, <1>5, <1>6, <1>7, <1>8, <1>9, <1>10, <1>11, <1>12 DEF GateInv

(* A new record gets an incarnation never used before. *)
LEMMA CreatePreserves ==
  ASSUME GateInv, NEW t \in Thread, Create(t)
  PROVE  GateInv'
<1> USE DEF GateInv, Create, Goto, MyGate, history
<1>1. file = Absent /\ epoch \in Nat /\ file' \in Record
  BY EpochAssumption DEF TypeOK, CreatesFromNothing, Record, Kinds
<1>2. TypeOK'
  BY <1>1, EpochAssumption DEF TypeOK, Locked
<1>3. Layers'
  BY <1>1, ThreadAssumption DEF TypeOK, Layers, Gate, Locked
<1>4. Fields'
  BY <1>1, ThreadAssumption DEF TypeOK, Layers, Fields, Gate, Locked
<1>5. CopyIsWhole'
  <2>1. ASSUME NEW s \in Thread, pc'[s] \in {"body", "save"} PROVE FALSE
    <3>1. flock = t
      BY DEF TypeOK, Layers, Locked
    <3>2. s # t /\ pc[s] \in {"body", "save"}
      BY <2>1 DEF TypeOK
    <3>3. flock = s
      BY <3>2 DEF Layers, Locked
    <3> QED
      BY <3>1, <3>2, <3>3
  <2> QED
    BY <2>1 DEF CopyIsWhole
<1>6. CreatesFromNothing'
  BY <1>1, ThreadAssumption DEF TypeOK, Layers, CreatesFromNothing, Locked
<1>7. Epochs'
  BY <1>1, EpochAssumption DEF TypeOK, Epochs, Event
<1>8. Owed'
  BY <1>1, ThreadAssumption DEF TypeOK, Owed
<1>9. FileIsWhole'
  BY <1>1, ThreadAssumption, AbsentAssumption DEF TypeOK, Epochs, FileIsWhole, Landed, Record, Event
<1>10. AnnouncedOnceAndDurable'
  BY <1>1, ThreadAssumption DEF AnnouncedOnceAndDurable
<1> QED
  BY <1>2, <1>3, <1>4, <1>5, <1>6, <1>7, <1>8, <1>9, <1>10 DEF GateInv

(* Leaving the frame empties its gate. *)
LEMMA ExitFramePreserves ==
  ASSUME GateInv, NEW t \in Thread, ExitFrame(t)
  PROVE  GateInv'
<1> USE DEF GateInv, ExitFrame, Goto, MyGate, history
<1>1. gate' \in [Process -> Gate] /\ \A p \in Process : gate'[p] =
       [owner |-> gate[p].owner,
        active |-> IF p = ProcOf[t] THEN Absent ELSE gate[p].active,
        afterSave |-> IF p = ProcOf[t] THEN {} ELSE gate[p].afterSave]
  <2>1. gate \in [Process -> Gate] /\ ProcOf[t] \in Process
    BY ThreadAssumption DEF TypeOK
  <2>2. gate' = [gate EXCEPT ![ProcOf[t]].active = Absent, ![ProcOf[t]].afterSave = {}]
    BY DEF ExitFrame
  <2> QED
    BY <2>1, <2>2, GateEmptied
<1>2. TypeOK'
  BY <1>1, ThreadAssumption DEF TypeOK, Gate, Locked
<1>3. Layers'
  BY <1>1, ThreadAssumption DEF TypeOK, Layers, Gate, Locked
<1>4. Fields'
  BY <1>1, ThreadAssumption DEF TypeOK, Layers, Fields, Gate, Locked
<1>5. CopyIsWhole'
  <2>1. ASSUME NEW s \in Thread, pc'[s] \in {"body", "save"} PROVE FALSE
    <3>1. flock = t
      BY DEF TypeOK, Layers, Locked
    <3>2. s # t /\ pc[s] \in {"body", "save"}
      BY <2>1 DEF TypeOK
    <3>3. flock = s
      BY <3>2 DEF Layers, Locked
    <3> QED
      BY <3>1, <3>2, <3>3
  <2> QED
    BY <2>1 DEF CopyIsWhole
<1>6. CreatesFromNothing'
  BY <1>1, ThreadAssumption DEF TypeOK, Layers, CreatesFromNothing, Locked
<1>7. Owed'
  BY <1>1, ThreadAssumption DEF TypeOK, Owed
<1>8. Epochs' /\ FileIsWhole' /\ AnnouncedOnceAndDurable'
  BY DEF AnnouncedOnceAndDurable, Epochs, FileIsWhole, Landed, TypeOK
<1> QED
  BY <1>2, <1>3, <1>4, <1>5, <1>6, <1>7, <1>8 DEF GateInv

(* The gate is empty when its owner lets go. *)
LEMMA ReleasePreserves ==
  ASSUME GateInv, NEW t \in Thread, Release(t)
  PROVE  GateInv'
<1> USE DEF GateInv, Release, Goto, MyGate, history
<1>1. gate' \in [Process -> Gate] /\ \A p \in Process : gate'[p] =
       [owner |-> IF p = ProcOf[t] THEN NoThread ELSE gate[p].owner,
        active |-> gate[p].active, afterSave |-> gate[p].afterSave]
  <2>1. gate \in [Process -> Gate] /\ ProcOf[t] \in Process
    BY ThreadAssumption DEF TypeOK
  <2>2. gate' = [gate EXCEPT ![ProcOf[t]].owner = NoThread]
    BY DEF Release
  <2> QED
    BY <2>1, <2>2, OwnerSet
<1>2. TypeOK'
  BY <1>1, ThreadAssumption DEF TypeOK, Gate, Locked
<1>3. Layers'
  BY <1>1, ThreadAssumption DEF TypeOK, Layers, Gate, Locked
<1>4. Fields'
  BY <1>1, ThreadAssumption DEF TypeOK, Layers, Fields, Gate, Locked
<1>5. CopyIsWhole'
  BY <1>1, ThreadAssumption DEF TypeOK, Layers, Fields, CopyIsWhole, Landed, Locked, Gate
<1>6. CreatesFromNothing'
  BY <1>1, ThreadAssumption DEF TypeOK, Layers, CreatesFromNothing, Locked
<1>7. Owed'
  BY <1>1, ThreadAssumption DEF TypeOK, Owed
<1>8. Epochs' /\ FileIsWhole' /\ AnnouncedOnceAndDurable'
  BY DEF AnnouncedOnceAndDurable, Epochs, FileIsWhole, Landed, TypeOK
<1> QED
  BY <1>2, <1>3, <1>4, <1>5, <1>6, <1>7, <1>8 DEF GateInv

(* An owed effect was never announced. *)
LEMMA RunEffectPreserves ==
  ASSUME GateInv, NEW t \in Thread, RunEffect(t)
  PROVE  GateInv'
<1> USE DEF GateInv, RunEffect, Goto, MyGate, history
<1>1. TypeOK'
  BY DEF TypeOK, Locked
<1>2. Layers'
  BY ThreadAssumption DEF TypeOK, Layers, Gate, Locked
<1>3. Fields'
  BY ThreadAssumption DEF TypeOK, Layers, Fields, Gate, Locked
<1>4. CopyIsWhole'
  BY ThreadAssumption DEF TypeOK, Layers, Fields, CopyIsWhole, Landed, Locked, Gate
<1>5. CreatesFromNothing'
  BY ThreadAssumption DEF TypeOK, Layers, CreatesFromNothing, Locked
<1>6. Epochs'
  BY ThreadAssumption DEF TypeOK, Epochs
<1>7. Owed'
  BY ThreadAssumption DEF TypeOK, Owed
<1>8. FileIsWhole'
  BY ThreadAssumption, AbsentAssumption DEF TypeOK, FileIsWhole, Landed, Record, Event
<1>9. AnnouncedOnceAndDurable'
  BY DEF TypeOK, Owed, AnnouncedOnceAndDurable
<1> QED
  BY <1>1, <1>2, <1>3, <1>4, <1>5, <1>6, <1>7, <1>8, <1>9 DEF GateInv

(* A crash forgets the process's copies and owed effects. *)
LEMMA CrashPreserves ==
  ASSUME GateInv, NEW p \in Process, Crash(p)
  PROVE  GateInv'
<1> USE DEF GateInv, Crash, MyGate, history, FreeGate
<1>1. TypeOK'
  BY ThreadAssumption DEF TypeOK, Gate, Locked
<1>2. Layers'
  BY ThreadAssumption DEF TypeOK, Layers, Gate, Locked
<1>3. Fields'
  BY ThreadAssumption DEF TypeOK, Layers, Fields, Gate, Locked
<1>4. CopyIsWhole'
  BY ThreadAssumption DEF TypeOK, Layers, Fields, CopyIsWhole, Landed, Locked, Gate
<1>5. CreatesFromNothing'
  BY ThreadAssumption DEF TypeOK, Layers, CreatesFromNothing, Locked
<1>6. Owed'
  BY ThreadAssumption DEF TypeOK, Owed
<1>7. Epochs' /\ FileIsWhole' /\ AnnouncedOnceAndDurable'
  BY DEF AnnouncedOnceAndDurable, Epochs, FileIsWhole, Landed, TypeOK
<1> QED
  BY <1>1, <1>2, <1>3, <1>4, <1>5, <1>6, <1>7 DEF GateInv

(* Growing stale changes neither incarnation nor entries. *)
LEMMA AgePreserves ==
  ASSUME GateInv, Age
  PROVE  GateInv'
<1> USE DEF GateInv, Age, AllIdle, MyGate, history
<1>1. file' \in Record /\ file \in Record /\ file'.epoch = file.epoch /\ file'.writes = file.writes
  BY ThreadAssumption DEF TypeOK, Record, Kinds
<1>2. TypeOK'
  BY <1>1, ThreadAssumption DEF TypeOK, Gate, Locked
<1>3. Layers'
  BY <1>1, ThreadAssumption DEF TypeOK, Layers, Gate, Locked
<1>4. Fields'
  BY <1>1, ThreadAssumption DEF TypeOK, Layers, Fields, Gate, Locked
<1>5. CopyIsWhole'
  BY <1>1, ThreadAssumption DEF TypeOK, Layers, Fields, CopyIsWhole, Landed, Locked, Gate
<1>6. CreatesFromNothing'
  BY <1>1, ThreadAssumption DEF TypeOK, Layers, CreatesFromNothing, Locked
<1>7. Epochs'
  BY <1>1, AbsentAssumption DEF Epochs
<1>8. Owed'
  BY <1>1, ThreadAssumption DEF TypeOK, Owed
<1>9. FileIsWhole'
  BY <1>1, ThreadAssumption, AbsentAssumption DEF TypeOK, FileIsWhole, Landed, Record, Event
<1>10. AnnouncedOnceAndDurable'
  BY <1>1, ThreadAssumption DEF AnnouncedOnceAndDurable
<1> QED
  BY <1>2, <1>3, <1>4, <1>5, <1>6, <1>7, <1>8, <1>9, <1>10 DEF GateInv

-----------------------------------------------------------------------------
(* A process that has not called anything owes nothing to the disk. *)
LEMMA InitGateInv == Init => GateInv
BY AbsentAssumption, EpochAssumption, ThreadAssumption
DEF Init, GateInv, TypeOK, Gate, FreeGate, Locked, Layers, Fields, CopyIsWhole,
    FileIsWhole, CreatesFromNothing, Epochs, Owed, AnnouncedOnceAndDurable, Event

(* No step of any goroutine, no crash and no passage of time breaks it. *)
LEMMA NextGateInv == GateInv /\ [Next]_vars => GateInv'
<1> SUFFICES ASSUME GateInv, [Next]_vars PROVE GateInv'
  OBVIOUS
<1>1. ASSUME NEW t \in Thread, Body(t) PROVE GateInv'
  BY <1>1, NestedMutatePreserves, ReturnNilPreserves, ReturnWithoutSavePreserves,
     ClearInsideFramePreserves DEF Body
<1>2. ASSUME NEW t \in Thread, Proceed(t) PROVE GateInv'
  BY <1>1, <1>2, LoadPresentPreserves, LoadMissingPreserves, SavePreserves,
     SaveFailsPreserves, CreatePreserves, RemovePreserves, ExitFramePreserves,
     ReleasePreserves, RunEffectPreserves DEF Proceed
<1>3. CASE UNCHANGED vars
  BY <1>3 DEF vars, GateInv, TypeOK, Layers, Fields, CopyIsWhole, FileIsWhole, Landed,
     CreatesFromNothing, Epochs, Owed, AnnouncedOnceAndDurable, MyGate
<1> QED
  BY <1>2, <1>3, BeginPreserves, AcquirePreserves, TimeoutPreserves, CrashPreserves,
     AgePreserves DEF Next, Quiescent

-----------------------------------------------------------------------------
(* What only the gate secures. *)

(* Only the holder of the lock has a copy. *)
LEMMA HolderHasCopy ==
  ASSUME GateInv, NEW t \in Thread, pc[t] \in Locked
  PROVE  \A s \in Thread : pc[s] \in {"body", "save"} => s = t
BY DEF GateInv, Layers, Locked

(* A step that leaves the disk alone and loads nothing. *)
LEMMA DiskUntouched ==
  ASSUME IInv, GateInv', UNCHANGED <<file, epoch, cleared, durable>>,
         \A s \in Thread : pc'[s] \in {"body", "save"} =>
           /\ pc[s] \in {"body", "save"}
           /\ MyGate(s)'.active.epoch = MyGate(s).active.epoch
  PROVE  IInv'
BY DEF IInv, CopyOfFile, ClearedPast, NoLostWrite, NoResurrection

(* A nested or outermost mutation function keeps the incarnation of the copy. *)
LEMMA MutateKeepsExact ==
  ASSUME IInv, GateInv', NEW t \in Thread, NEW W \in SUBSET Writes, NEW k \in {"live", "ended"},
         (\E ok \in BOOLEAN : NestedMutate(t, W, k, ok)) \/ ReturnNil(t, W, k)
  PROVE  IInv'
<1>1. \A s \in Thread : pc'[s] \in {"body", "save"} => s = t
  <2>1. pc[t] = "body" /\ \A s \in Thread \ {t} : pc'[s] = pc[s]
    BY DEF IInv, GateInv, TypeOK, NestedMutate, ReturnNil, Goto
  <2> QED
    BY <2>1, HolderHasCopy DEF IInv, Locked
<1>2. ProcOf[t] \in Process /\ gate \in [Process -> Gate]
  BY ThreadAssumption DEF IInv, GateInv, TypeOK
<1>3. MyGate(t)'.active.epoch = MyGate(t).active.epoch
  <2>1. ASSUME NEW ok \in BOOLEAN, NestedMutate(t, W, k, ok)
        PROVE  gate'[ProcOf[t]].active = RecordIn(gate[ProcOf[t]].active, W, k)
    BY <1>2, <2>1 DEF NestedMutate
  <2>2. ASSUME ReturnNil(t, W, k)
        PROVE  gate'[ProcOf[t]].active = RecordIn(gate[ProcOf[t]].active, W, k)
    BY <1>2, <2>2 DEF ReturnNil
  <2> QED
    BY <2>1, <2>2 DEF MyGate, RecordIn
<1> QED
  BY <1>1, <1>3, DiskUntouched DEF NestedMutate, ReturnNil, history

(* A load hands out the record that is in the file. *)
LEMMA LoadKeepsExact ==
  ASSUME IInv, GateInv', NEW t \in Thread, LoadPresent(t)
  PROVE  IInv'
<1>1. UNCHANGED <<file, epoch, cleared, durable>>
  BY DEF LoadPresent, history
<1>2. \A s \in Thread : pc'[s] \in {"body", "save"} => s = t /\ op[t] = "mutate"
  BY DEF IInv, GateInv, TypeOK, Layers, Locked, LoadPresent, Goto
<1>3. op[t] = "mutate" => file # Absent /\ MyGate(t)'.active = file
  BY ThreadAssumption DEF IInv, GateInv, TypeOK, LoadPresent, MyGate, Gate, Fresh
<1>4. CopyOfFile'
  BY <1>1, <1>2, <1>3 DEF CopyOfFile
<1> QED
  BY <1>1, <1>4 DEF IInv, ClearedPast, NoLostWrite, NoResurrection

(* A discard under the lock: the frame of the goroutine that discards is over. *)
LEMMA DiscardKeepsExact ==
  ASSUME IInv, GateInv', NEW t \in Thread, pc[t] \in Locked, DeleteFile,
         NEW label \in {"exit", "create"}, Goto(t, label), UNCHANGED <<epoch, durable>>
  PROVE  IInv'
<1>1. \A s \in Thread : pc'[s] \notin {"body", "save"}
  BY HolderHasCopy DEF IInv, GateInv, TypeOK, Goto
<1>2. ClearedPast'
  BY DEF IInv, GateInv, Epochs, ClearedPast, DeleteFile
<1>3. NoLostWrite' /\ NoResurrection'
  BY DEF IInv, NoLostWrite, NoResurrection, DeleteFile
<1> QED
  BY <1>1, <1>2, <1>3 DEF IInv, CopyOfFile

(* A save replaces the file by a later state of the same incarnation. *)
LEMMA SaveKeepsExact ==
  ASSUME IInv, GateInv', NEW t \in Thread, Save(t)
  PROVE  IInv'
<1>1. \A s \in Thread : pc'[s] \notin {"body", "save"}
  BY HolderHasCopy DEF IInv, GateInv, TypeOK, Goto, Save, Locked
<1>2. /\ file' # Absent /\ file # Absent /\ file'.epoch = file.epoch
      /\ file' = MyGate(t).active
  BY DEF IInv, GateInv, CopyIsWhole, CopyOfFile, Save
<1>3. file'.writes = Landed(file.epoch)'
  BY <1>2 DEF GateInv, FileIsWhole
<1>4. ASSUME NEW e \in durable', e[1] = file.epoch PROVE e[2] \in file'.writes
  <2>1. e = <<e[1], e[2]>> /\ e[2] \in Writes
    BY DEF GateInv, TypeOK, Event
  <2> QED
    BY <1>2, <1>3, <1>4, <2>1 DEF Landed
<1>5. \A e \in durable' : e \in durable \/ e[1] = file.epoch
  BY <1>2 DEF Save
<1>6. NoLostWrite'
  BY <1>2, <1>4, <1>5 DEF IInv, NoLostWrite, Save
<1>7. ClearedPast' /\ NoResurrection'
  BY <1>2 DEF IInv, ClearedPast, NoResurrection, Save
<1> QED
  BY <1>1, <1>6, <1>7 DEF IInv, CopyOfFile

(* A new incarnation was never cleared. *)
LEMMA CreateKeepsExact ==
  ASSUME IInv, GateInv', NEW t \in Thread, Create(t)
  PROVE  IInv'
<1>1. \A s \in Thread : pc'[s] \notin {"body", "save"}
  BY HolderHasCopy DEF IInv, GateInv, TypeOK, Goto, Create, Locked
<1>2. file = Absent /\ epoch \in Nat
  BY EpochAssumption DEF IInv, GateInv, TypeOK, CreatesFromNothing, Create
<1>3. ClearedPast' /\ NoResurrection'
  BY <1>2 DEF IInv, GateInv, TypeOK, ClearedPast, NoResurrection, Create
<1>4. NoLostWrite'
  BY <1>2 DEF IInv, NoLostWrite, Create
<1> QED
  BY <1>1, <1>3, <1>4 DEF IInv, CopyOfFile

(* Growing stale changes neither incarnation nor entries. *)
LEMMA AgeKeepsExact ==
  ASSUME IInv, GateInv', Age
  PROVE  IInv'
<1>1. /\ file # Absent /\ file' # Absent
      /\ file'.epoch = file.epoch /\ file'.writes = file.writes
  BY AbsentAssumption DEF IInv, GateInv, TypeOK, Age, Record, Kinds
<1> QED
  BY <1>1 DEF IInv, CopyOfFile, ClearedPast, NoLostWrite, NoResurrection, Age, AllIdle, history

(* Starting, waiting and leaving a frame only take goroutines out of it. *)
LEMMA LeavingKeepsExact ==
  ASSUME IInv, GateInv',
         \/ \E t \in Thread :
              \/ \E o \in {"mutate", "init", "clear"} : Begin(t, o)
              \/ AcquireGate(t) \/ AcquireTimesOut(t) \/ ReturnWithoutSave(t)
              \/ SaveFails(t) \/ ExitFrame(t) \/ Release(t) \/ RunEffect(t)
         \/ \E p \in Process : Crash(p)
  PROVE  IInv'
<1>1. UNCHANGED <<file, epoch, cleared, durable>>
  BY DEF Begin, AcquireGate, AcquireTimesOut, ReturnWithoutSave, SaveFails, ExitFrame,
     Release, RunEffect, Crash, history
<1>2. ASSUME NEW s \in Thread, pc'[s] \in {"body", "save"}
      PROVE  pc[s] \in {"body", "save"} /\ MyGate(s)'.active = MyGate(s).active
  <2> USE <1>2 DEF IInv, GateInv, TypeOK, Goto, MyGate
  <2>1. ASSUME NEW t \in Thread,
               \/ \E o \in {"mutate", "init", "clear"} : Begin(t, o)
               \/ AcquireTimesOut(t) \/ ReturnWithoutSave(t) \/ SaveFails(t) \/ RunEffect(t)
        PROVE  pc[s] \in {"body", "save"} /\ MyGate(s)'.active = MyGate(s).active
    BY <2>1 DEF Begin, AcquireTimesOut, ReturnWithoutSave, SaveFails, RunEffect
  <2>2. ASSUME NEW t \in Thread, AcquireGate(t) PROVE FALSE
    BY <2>2 DEF AcquireGate, Layers, Locked
  <2>3. ASSUME NEW t \in Thread, ExitFrame(t) \/ Release(t) PROVE FALSE
    BY <2>3 DEF ExitFrame, Release, Layers, Locked
  <2>4. ASSUME NEW p \in Process, Crash(p)
        PROVE  pc[s] \in {"body", "save"} /\ MyGate(s)'.active = MyGate(s).active
    BY <2>4, ThreadAssumption DEF Crash
  <2> QED
    BY <2>1, <2>2, <2>3, <2>4
<1> QED
  BY <1>1, <1>2, DiskUntouched

(* The strengthening holds initially and every step of Next preserves it. *)
LEMMA InitIInv == Init => IInv
BY InitGateInv
DEF Init, IInv, CopyOfFile, ClearedPast, NoLostWrite, NoResurrection

LEMMA NextIInv == IInv /\ [Next]_vars => IInv'
<1> SUFFICES ASSUME IInv, [Next]_vars PROVE IInv'
  OBVIOUS
<1>1. GateInv'
  BY NextGateInv DEF IInv
<1>2. ASSUME NEW t \in Thread, LoadMissing(t) \/ Remove(t) \/ ClearInsideFrame(t) PROVE IInv'
  BY <1>1, <1>2, DiscardKeepsExact DEF LoadMissing, Remove, ClearInsideFrame, Locked
<1>3. ASSUME NEW t \in Thread, Body(t) PROVE IInv'
  BY <1>1, <1>2, <1>3, MutateKeepsExact, LeavingKeepsExact DEF Body
<1>4. ASSUME NEW t \in Thread, Proceed(t) PROVE IInv'
  BY <1>1, <1>2, <1>3, <1>4, LoadKeepsExact, SaveKeepsExact, CreateKeepsExact,
     LeavingKeepsExact DEF Proceed
<1>5. CASE UNCHANGED vars
  BY <1>1, <1>5, DiskUntouched DEF vars, MyGate
<1> QED
  BY <1>1, <1>4, <1>5, LeavingKeepsExact, AgeKeepsExact DEF Next, Quiescent

(* The two layers and the fields say that the gate excludes and is left clean. *)
LEMMA GateExcludes == GateInv => MutualExclusion /\ GateLeftClean
<1>1. GateInv => MutualExclusion
  BY ThreadAssumption DEF GateInv, TypeOK, Layers, MutualExclusion, MyGate
<1>2. GateInv => GateLeftClean
  BY DEF GateInv, Fields, GateLeftClean
<1> QED
  BY <1>1, <1>2

(* In every behaviour of the gate the strengthening always holds. *)
THEOREM GateInvariant == Spec => []IInv
BY InitIInv, NextIInv, PTL DEF Spec

(* Every variable keeps its type. *)
THEOREM TypeCorrect == Spec => []TypeOK
<1>1. IInv => TypeOK
  BY DEF IInv, GateInv
<1> QED
  BY <1>1, GateInvariant, PTL

(* At most one goroutine of all processes is between acquire and release
   (acquireSessionGate), whatever the processes and their crashes. *)
THEOREM MutexCorrect == Spec => []MutualExclusion
<1>1. IInv => MutualExclusion
  BY GateExcludes DEF IInv
<1> QED
  BY <1>1, GateInvariant, PTL

(* The per-frame fields never outlive their frame. *)
THEOREM GateCleanCorrect == Spec => []GateLeftClean
<1>1. IInv => GateLeftClean
  BY GateExcludes DEF IInv
<1> QED
  BY <1>1, GateInvariant, PTL

(* No hook loses another's durable update (MutateSessionState). *)
THEOREM NoLostWriteCorrect == Spec => []NoLostWrite
<1>1. IInv => NoLostWrite
  BY DEF IInv
<1> QED
  BY <1>1, GateInvariant, PTL

(* A cleared session is never written back. *)
THEOREM NoResurrectionCorrect == Spec => []NoResurrection
<1>1. IInv => NoResurrection
  BY DEF IInv
<1> QED
  BY <1>1, GateInvariant, PTL

(* An event is announced at most once, and only when it is durable
   (MutateSessionStateOnSaved). *)
THEOREM AnnounceCorrect == Spec => []AnnouncedOnceAndDurable
<1>1. IInv => AnnouncedOnceAndDurable
  BY DEF IInv, GateInv
<1> QED
  BY <1>1, GateInvariant, PTL

(* The goroutine that announces has released the lock, which another may hold
   by now: an announcement is a step on its own, after the release
   (runPostSaveEffect). *)
LEMMA AnnouncesAfterRelease ==
  ASSUME GateInv, [Next]_vars, announced' # announced
  PROVE  \E t \in Thread : effects'[t] # effects[t] /\ flock # t
<1>1. PICK t \in Thread : RunEffect(t)
  BY DEF Next, Begin, AcquireGate, AcquireTimesOut, Proceed, Body, LoadPresent, LoadMissing,
     NestedMutate, ReturnNil, ReturnWithoutSave, ClearInsideFrame, Save, SaveFails, Create,
     Remove, ExitFrame, Release, Crash, Age, Quiescent, vars, history
<1>2. effects \in [Thread -> SUBSET Event]
  BY DEF GateInv, TypeOK
<1>3. PICK e \in effects[t] : effects' = [effects EXCEPT ![t] = @ \ {e}]
  BY <1>1 DEF RunEffect
<1>4. effects'[t] # effects[t]
  BY <1>2, <1>3
<1>5. flock # t
  BY <1>1 DEF RunEffect, GateInv, Layers, Locked
<1> QED
  BY <1>4, <1>5

(* Telemetry never extends the time other hooks wait for the session. *)
THEOREM EffectsOutsideLockCorrect == Spec => EffectsOutsideLock
<1>1. IInv /\ [Next]_vars =>
        [announced' # announced => \E t \in Thread : effects'[t] # effects[t] /\ flock # t]_vars
  BY AnnouncesAfterRelease DEF IInv
<1> QED
  BY <1>1, GateInvariant, PTL DEF Spec, EffectsOutsideLock

-----------------------------------------------------------------------------
(* A step of a goroutine is at most one step of the abstract record. *)
LEMMA StepRefines ==
  ASSUME IInv, [Next]_vars
  PROVE  [Atomic!Next]_(Atomic!recordVars)
<1> USE DEF IInv, GateInv, history, Atomic!recordVars
<1>1. ASSUME NEW t \in Thread, Save(t) PROVE Atomic!Commit
  <2> DEFINE g == MyGate(t)
  <2>1. /\ ProcOf[t] \in Process
        /\ g.active \in Record
        /\ file \in Record /\ file # Absent /\ file.epoch = g.active.epoch
        /\ file.writes \subseteq g.active.writes
        /\ g.active.kind # "stale"
    BY <1>1, ThreadAssumption, AbsentAssumption DEF Save, TypeOK, CopyIsWhole, CopyOfFile, FileIsWhole, Gate, MyGate
  <2>2. file' = [file EXCEPT !.writes = @ \cup g.active.writes, !.kind = g.active.kind]
    BY <2>1, <1>1 DEF Save, Record
  <2>3. durable' = durable \cup {<<file.epoch, w>> : w \in file.writes \cup g.active.writes}
    BY <2>1, <1>1 DEF Save
  <2>4. g.active.writes \in SUBSET Writes /\ g.active.kind \in {"live", "ended"}
    BY <2>1 DEF Record, Kinds
  <2> QED
    BY <1>1, <2>1, <2>2, <2>3, <2>4 DEF Save, Atomic!Commit
<1>2. ASSUME NEW t \in Thread, Create(t) PROVE Atomic!Create
  BY <1>2 DEF Create, CreatesFromNothing, Atomic!Create
<1>3. ASSUME DeleteFile, UNCHANGED <<epoch, durable, announced>>
      PROVE  Atomic!Discard \/ UNCHANGED Atomic!recordVars
  BY <1>3 DEF DeleteFile, Atomic!Discard
<1>4. ASSUME NEW t \in Thread, RunEffect(t)
      PROVE  Atomic!Announce \/ UNCHANGED Atomic!recordVars
  BY <1>4 DEF RunEffect, TypeOK, Owed, Atomic!Announce
<1>5. ASSUME NEW t \in Thread, Proceed(t) PROVE [Atomic!Next]_(Atomic!recordVars)
  BY <1>5, <1>1, <1>2, <1>3, <1>4 DEF Proceed, Body, LoadPresent, LoadMissing, NestedMutate,
     ReturnNil, ReturnWithoutSave, ClearInsideFrame, SaveFails, Remove, ExitFrame, Release,
     Atomic!Next
<1>6. CASE Age
  BY <1>6 DEF Age, Atomic!GrowStale, Atomic!Next
<1> QED
  BY <1>5, <1>6 DEF Next, Begin, AcquireGate, AcquireTimesOut, Crash, Quiescent, vars, Atomic!Next

(* The gate implements the atomic record, for any number of processes and
   whatever crashes. *)
THEOREM GateImplementsRecord == Spec => ImplementsRecord
<1>1. Init => Atomic!Init
  BY DEF Init, Atomic!Init, Event
<1> QED
  BY <1>1, StepRefines, GateInvariant, PTL DEF Spec, ImplementsRecord, Atomic!Spec

-----------------------------------------------------------------------------
(* The sweep deletes without the gate, and takes nothing but the file. *)
LEMMA SweepGateInv == GateInv /\ [SweepNext]_bypassVars => GateInv'
<1> SUFFICES ASSUME GateInv, [SweepNext]_bypassVars PROVE GateInv'
  OBVIOUS
<1>1. ASSUME NEW t \in Thread, SweepClears(t) PROVE GateInv'
  <2> USE <1>1 DEF GateInv, SweepClears, Orphaned, MyGate
  <2>1. TypeOK'
    BY DEF TypeOK, Record
  <2>2. Layers' /\ Fields' /\ Owed'
    BY DEF Layers, Fields, Owed
  <2>3. CopyIsWhole' /\ CreatesFromNothing'
    BY DEF CopyIsWhole, CreatesFromNothing, Landed
  <2>4. FileIsWhole' /\ Epochs' /\ AnnouncedOnceAndDurable'
    BY DEF FileIsWhole, Epochs, AnnouncedOnceAndDurable
  <2> QED
    BY <2>1, <2>2, <2>3, <2>4
<1>2. CASE GatedNext
  BY <1>2, NextGateInv DEF GatedNext
<1>3. ASSUME UNCHANGED vars PROVE GateInv'
  BY <1>3, NextGateInv
<1> QED
  BY <1>1, <1>2, <1>3 DEF SweepNext, SweepReads, bypassVars

(* What a run with the sweep can rely on, whenever the sweep deletes. *)
THEOREM SweepInvariant == SweepSpec => []GateInv
<1>1. BypassInit => GateInv
  BY InitGateInv DEF BypassInit
<1> QED
  BY <1>1, SweepGateInv, PTL DEF SweepSpec

(* The orphan clean-up of listAllSessionStates, which deletes a state file
   without the lock, cannot break the lock nor leave a gate with a copy: the
   gated calls still exclude each other. *)
THEOREM SweepKeepsTheGate == SweepSpec => [](MutualExclusion /\ GateLeftClean)
<1>1. GateInv => MutualExclusion /\ GateLeftClean
  BY GateExcludes
<1> QED
  BY <1>1, SweepInvariant, PTL

(* It cannot make an event announced twice, nor before it is on disk: not even
   when a save brings back the record it has just deleted. *)
THEOREM SweepAnnouncesOnce == SweepSpec => []AnnouncedOnceAndDurable
<1>1. GateInv => AnnouncedOnceAndDurable
  BY DEF GateInv
<1> QED
  BY <1>1, SweepInvariant, PTL

(* It loses an incarnation whole or not at all: a file that is there, even one
   that a save brought back after the deletion, holds every entry that was
   ever saved to its incarnation. *)
THEOREM SweepTakesWholeRecords == SweepSpec => []FileIsWhole
<1>1. GateInv => FileIsWhole
  BY DEF GateInv
<1> QED
  BY <1>1, SweepInvariant, PTL

=============================================================================
