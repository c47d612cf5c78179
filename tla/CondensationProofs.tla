------------------------- MODULE CondensationProofs -------------------------
(***************************************************************************)
(* Proofs about Condensation, for any number of processes and subagent     *)
(* tasks, transcripts of any length and any number of checkpoints.         *)
(***************************************************************************)
EXTENDS Condensation, TLAPS

-----------------------------------------------------------------------------
(* Types. *)

(* The record after a condensation. *)
LEMMA CondensedIsRecord ==
  ASSUME TypeOK, NEW i \in Nat
  PROVE  Condensed(i) \in Record
BY DEF TypeOK, Record, Condensed

LEMMA FreshIsRecord == Fresh \in Record
BY DEF Fresh, Record

LEMMA InitTypeOK == Init => TypeOK
<1> SUFFICES ASSUME Init PROVE TypeOK
  OBVIOUS
<1>1. rec \in Record /\ ~rec.steps /\ rec.start = 0
  BY FreshIsRecord DEF Init, Fresh
<1>2. /\ pc \in [Worker -> {"idle"}] /\ held \in [Worker -> Nat]
      /\ \A w \in Worker : pc[w] = "idle"
  BY DEF Init
<1>3. /\ seen \in [Worker -> BOOLEAN]
      /\ present \in BOOLEAN /\ branch \in BOOLEAN /\ stale \in BOOLEAN
  BY Zenon DEF Init
<1>4. store = {} /\ saved = {} /\ owed = {} /\ said = 0 /\ minted = 0 /\ epoch = 0
  BY DEF Init
<1> QED
  BY <1>1, <1>2, <1>3, <1>4 DEF TypeOK

(* What WriteCheckpoint makes of the store. *)
LEMMA WrittenStore ==
  ASSUME TypeOK, NEW i \in Id, WriteCheckpoint(i)
  PROVE  /\ store' \in SUBSET Checkpoint
         /\ saved' \in SUBSET Task
         /\ \A c \in store' : c.from <= c.upto /\ c.upto <= said /\ c.epoch <= epoch
         /\ \A c, d \in store' : c.id = d.id => c = d
<1> DEFINE n == [id |-> i, from |-> rec.start, upto |-> said, full |-> said,
                 epoch |-> epoch, reserved |-> rec.attempt = i]
<1>1. n \in Checkpoint
  BY DEF TypeOK, Record, Checkpoint
<1>2. n.id = i /\ n.from <= n.upto /\ n.upto <= said /\ n.epoch <= epoch
  BY DEF TypeOK, Record
<1>3. store' = {c \in store : c.id # i} \cup {n}
  BY DEF WriteCheckpoint
<1> HIDE DEF n
<1>4. \A c, d \in store' : c.id = d.id => c = d
  BY <1>2, <1>3 DEF TypeOK
<1> QED
  BY <1>1, <1>2, <1>3, <1>4 DEF TypeOK, Record, WriteCheckpoint

(* The store a turn end leaves: only full changes. *)
LEMMA FinalizedStore ==
  ASSUME TypeOK, NEW final,
         store' = {IF c.id \in final THEN [c EXCEPT !.full = said] ELSE c : c \in store}
  PROVE  /\ store' \in SUBSET Checkpoint
         /\ \A d \in store' : \E c \in store :
              /\ d.id = c.id /\ d.from = c.from /\ d.upto = c.upto
              /\ d.epoch = c.epoch /\ d.reserved = c.reserved
         /\ \A c \in store : \E d \in store' :
              d.id = c.id /\ d.full = (IF c.id \in final THEN said ELSE c.full)
         /\ \A c, d \in store' : c.id = d.id => c = d
<1> DEFINE F(c) == IF c.id \in final THEN [c EXCEPT !.full = said] ELSE c
<1>1. \A c \in Checkpoint :
        /\ F(c) \in Checkpoint
        /\ F(c).id = c.id /\ F(c).from = c.from /\ F(c).upto = c.upto
        /\ F(c).epoch = c.epoch /\ F(c).reserved = c.reserved
        /\ F(c).full = (IF c.id \in final THEN said ELSE c.full)
  BY DEF TypeOK, Checkpoint
<1>2. store' = {F(c) : c \in store} /\ store \subseteq Checkpoint
  BY DEF TypeOK
<1> HIDE DEF F
<1>3. \A c, d \in store : F(c).id = F(d).id => c = d
  BY <1>1, <1>2 DEF TypeOK
<1> QED
  BY <1>1, <1>2, <1>3

(* What a worker may do next. *)
WorkersOK ==
  /\ pc \in [Worker -> {"idle", "late", "end", "read", "reserve", "condense",
                        "claim", "rescue", "discard", "commit", "post"}]
  /\ held \in [Worker -> Nat]
  /\ \A w \in Worker : pc[w] \in {"rescue", "commit", "post"} => held[w] # 0
  /\ seen \in [Worker -> BOOLEAN]

LEMMA Unaffected == WorkersOK /\ UNCHANGED workers => WorkersOK'
BY DEF WorkersOK, workers

LEMMA LeaveOK ==
  ASSUME WorkersOK, NEW w \in Worker, Leave(w)
  PROVE  WorkersOK'
BY DEF WorkersOK, Leave, Goto, Hold

LEMMA GotoOK ==
  ASSUME WorkersOK, NEW w \in Worker, NEW step, Goto(w, step),
         step \in {"late", "end", "read", "reserve", "condense", "claim", "discard"},
         UNCHANGED <<held, seen>>
  PROVE  WorkersOK'
BY DEF WorkersOK, Goto

LEMMA HoldOK ==
  ASSUME WorkersOK, NEW w \in Worker, NEW step, NEW i \in Id, Goto(w, step), Hold(w, i),
         step \in {"rescue", "commit"}, UNCHANGED seen
  PROVE  WorkersOK'
BY DEF WorkersOK, Goto, Hold, Id

LEMMA NextWorkersOK == TypeOK /\ [Next]_vars => WorkersOK'
<1> SUFFICES ASSUME TypeOK, [Next]_vars PROVE WorkersOK'
  OBVIOUS
<1>0. WorkersOK
  BY DEF TypeOK, WorkersOK
<1>1. CASE UNCHANGED vars
  BY <1>0, <1>1, Unaffected DEF vars
<1>2. CASE Agent \/ ClearOrphan \/ BranchChanges
  <2>1. UNCHANGED workers
    BY <1>2 DEF Agent, AgentWorks, TurnStart, SessionStart, Talk, RecordFilesTouched, SaveStep, TurnEnd,
                TaskStart, ClearOrphan, BranchChanges
  <2> QED
    BY <1>0, <2>1, Unaffected
<1>3. ASSUME NEW w \in Worker, Begins(w) PROVE WorkersOK'
  <2>1. CASE Prepare(w)
    <3>1. PICK i \in Id : Hold(w, i)
      BY <2>1 DEF Prepare, TypeOK, Id, Stored, Checkpoint, Record
    <3> QED
      BY <1>0, <2>1, <3>1, HoldOK DEF Prepare
  <2> QED
    BY <1>0, <1>3, <2>1, GotoOK DEF Begins, SubagentStops, SessionEnds, DoctorPicks, DoctorRejects
<1>4. ASSUME NEW w \in Worker, Continues(w) PROVE WorkersOK'
  <2>1. CASE \E t \in Task : CompletesLiveTask(w, t)
    BY <1>0, <2>1, Unaffected DEF CompletesLiveTask
  <2>2. CASE SubagentStopReloads(w)
    BY <1>0, <2>2, GotoOK, LeaveOK DEF SubagentStopReloads
  <2>3. CASE MarksEnded(w) \/ EagerReads(w) \/ EagerReserves(w)
    BY <1>0, <2>3, GotoOK, LeaveOK DEF MarksEnded, EagerReads, EagerReserves
  <2>4. CASE DoctorReserves(w)
    <3>1. PICK i \in 1..MaxId : Hold(w, i)
      BY <2>4 DEF DoctorReserves
    <3> QED
      BY <1>0, <2>4, <3>1, HoldOK, BoundAssumption DEF DoctorReserves, Id
  <2>5. CASE Target(w)
    <3>1. CASE ~present \/ (Ended /\ rec.fully)
      BY <1>0, <2>5, <3>1, LeaveOK DEF Target
    <3>2. CASE ~(~present \/ (Ended /\ rec.fully))
      <4>1. /\ pc[w] = "commit" /\ pc' = [pc EXCEPT ![w] = "post"] /\ held' = held
        BY <2>5, <3>2 DEF Target, Goto
      <4>2. seen' = [seen EXCEPT ![w] = held[w] \in Stored]
        BY <2>5, <3>2 DEF Target
      <4>3. (held[w] \in Stored) \in BOOLEAN
        OBVIOUS
      <4>4. seen' \in [Worker -> BOOLEAN]
        BY <1>0, <4>2, <4>3, Zenon DEF WorkersOK
      <4> QED
        BY <1>0, <4>1, <4>4 DEF WorkersOK
    <3> QED
      BY <3>1, <3>2
  <2>6. CASE \/ EagerCondenses(w) \/ EagerFinishes(w) \/ EagerDeclines(w)
             \/ DoctorCondenses(w) \/ DoctorClears(w) \/ DoctorDeclines(w)
             \/ DoctorDiscards(w) \/ FindsNoRecord(w)
             \/ CommitCondenses(w) \/ CommitCarries(w) \/ CommitFailsToCarry(w)
             \/ CommitPasses(w) \/ DiesAfterWrite(w) \/ Stops(w)
    <3>1. Leave(w)
      BY <2>6 DEF EagerCondenses, EagerFinishes, EagerDeclines, DoctorCondenses, DoctorClears,
                  DoctorDeclines, DoctorDiscards, FindsNoRecord, CommitCondenses, CommitCarries,
                  CommitFailsToCarry, CommitPasses, DiesAfterWrite, Stops
    <3> QED
      BY <1>0, <3>1, LeaveOK
  <2> QED
    BY <1>4, <2>1, <2>2, <2>3, <2>4, <2>5, <2>6 DEF Continues
<1> QED
  BY <1>1, <1>2, <1>3, <1>4 DEF Next

-----------------------------------------------------------------------------
(* What a step does to the record's window and to the store.  Every proof below
   goes by these five effects. *)

WindowKept ==
  /\ UNCHANGED <<store, saved, epoch, stale>> /\ said' \in {said, said + 1}
  /\ rec'.start = rec.start /\ rec'.attempt = rec.attempt /\ rec'.turn \subseteq rec.turn

WindowReserved ==
  /\ UNCHANGED <<store, saved, epoch, said, stale>>
  /\ rec.attempt = 0
  /\ rec'.start = rec.start /\ rec'.turn = rec.turn

WindowRestarted ==
  /\ UNCHANGED <<store, saved, said, stale>>
  /\ epoch' = epoch + 1
  /\ rec'.start \in {0, rec.start} /\ rec'.turn \subseteq rec.turn

WindowWritten(i) ==
  /\ WriteCheckpoint(i)
  /\ UNCHANGED <<said, stale>>
  /\ rec.attempt \in {0, i}
  /\ rec'.turn \subseteq rec.turn \cup {i}
  /\ \/ epoch' = epoch /\ rec' = rec
     \/ epoch' = epoch /\ rec'.start = said
     \/ epoch' = epoch + 1 /\ rec'.start = 0

LEMMA ReserveEffect ==
  ASSUME TypeOK, NEW i, Reserve(i), rec'.attempt = i, rec'.start = rec.start,
         rec'.turn = rec.turn, UNCHANGED <<store, saved, epoch, said, stale>>
  PROVE  WindowKept \/ WindowReserved
BY DEF Reserve, WindowKept, WindowReserved, TypeOK

LEMMA GiveUpEffect ==
  ASSUME TypeOK, GiveUp, rec'.attempt = 0, rec'.start = rec.start,
         rec'.turn = rec.turn, UNCHANGED <<store, saved, said, stale>>
  PROVE  WindowKept \/ WindowRestarted
BY DEF GiveUp, Restart, WindowKept, WindowRestarted, TypeOK

LEMMA ForgetEffect ==
  ASSUME TypeOK, Forget, UNCHANGED <<store, saved, said, stale>>
  PROVE  WindowRestarted
BY DEF Forget, Fresh, Restart, WindowRestarted, TypeOK

(* A commit writes under the pending ID, if there is one. *)
LEMMA CommitWritesPending ==
  ASSUME TypeOK, NEW w \in Worker, CommitCanWrite(w)
  PROVE  held[w] \in Id /\ rec.attempt \in {0, held[w]}
BY DEF TypeOK, CommitCanWrite, Interrupted, Id

LEMMA AgentEffect ==
  ASSUME TypeOK, Agent \/ ClearOrphan \/ BranchChanges
  PROVE  WindowKept \/ WindowRestarted \/ TurnEnd
<1>1. rec \in Record /\ said \in Nat
  BY DEF TypeOK
<1>2. CASE TurnStart
  BY <1>1, <1>2 DEF TurnStart, Record, WindowKept, record, durable
<1>3. CASE SessionStart \/ RecordFilesTouched \/ SaveStep
  <2>1. /\ rec'.start = rec.start /\ rec'.attempt = rec.attempt /\ rec'.turn = rec.turn
        /\ UNCHANGED <<store, saved, said, epoch, stale>>
    BY <1>1, <1>3 DEF SessionStart, RecordFilesTouched, SaveStep, Record, durable
  <2> QED
    BY <1>1, <2>1 DEF WindowKept
<1>4. CASE Talk \/ BranchChanges
  BY <1>1, <1>4 DEF Talk, BranchChanges, WindowKept, record, durable
<1>5. CASE \E t \in Task : TaskStart(t)
  BY <1>1, <1>5 DEF TaskStart, Record, WindowKept, durable
<1>6. CASE ClearOrphan
  BY <1>6, ForgetEffect DEF ClearOrphan, durable
<1> QED
  BY <1>2, <1>3, <1>4, <1>5, <1>6 DEF Agent, AgentWorks

LEMMA BeginsEffect ==
  ASSUME TypeOK, NEW w \in Worker, Begins(w)
  PROVE  WindowKept
<1>1. rec \in Record /\ said \in Nat
  BY DEF TypeOK
<1>2. CASE \E t \in Task : SubagentStops(w, t)
  BY <1>1, <1>2 DEF SubagentStops, CompleteTask, Record, WindowKept, durable
<1> QED
  BY <1>1, <1>2 DEF Begins, SessionEnds, DoctorPicks, DoctorRejects, Prepare, WindowKept,
                    record, durable

LEMMA ContinuesEffect ==
  ASSUME TypeOK, NEW w \in Worker, Continues(w)
  PROVE  WindowKept \/ WindowReserved \/ WindowRestarted \/ \E i \in Id : WindowWritten(i)
<1>1. rec \in Record /\ said \in Nat
  BY DEF TypeOK
<1>2. CASE \/ SubagentStopReloads(w) \/ EagerReads(w) \/ EagerDeclines(w)
           \/ DoctorDeclines(w) \/ FindsNoRecord(w) \/ Target(w) \/ Stops(w)
  BY <1>1, <1>2 DEF SubagentStopReloads, EagerReads, EagerDeclines, DoctorDeclines,
                    FindsNoRecord, Target, Stops, WindowKept, record, durable
<1>3. CASE \E t \in Task : CompletesLiveTask(w, t)
  BY <1>1, <1>3 DEF CompletesLiveTask, CompleteTask, Record, WindowKept, durable
<1>4. CASE MarksEnded(w)
  <2>1. CASE rec.files
    BY <1>1, <1>4, <2>1 DEF MarksEnded, Record, WindowKept, durable
  <2>2. CASE ~rec.files /\ ~Content
    BY <1>1, <1>4, <2>2, GiveUpEffect DEF MarksEnded, Record, durable
  <2>3. CASE ~rec.files /\ Content
    BY <1>1, <1>4, <2>3, ReserveEffect DEF MarksEnded, Record, durable
  <2> QED
    BY <2>1, <2>2, <2>3
<1>5. CASE EagerReserves(w) \/ DoctorReserves(w)
  BY <1>1, <1>5, ReserveEffect DEF EagerReserves, DoctorReserves, Record, durable
<1>6. CASE EagerFinishes(w)
  BY <1>1, <1>6, GiveUpEffect DEF EagerFinishes, Record, durable
<1>7. CASE DoctorClears(w) \/ DoctorDiscards(w)
  BY <1>7, ForgetEffect DEF DoctorClears, DoctorDiscards, durable
<1>8. CASE CommitPasses(w)
  <2>1. /\ rec'.start = rec.start /\ rec'.attempt = rec.attempt /\ rec'.turn = rec.turn
        /\ UNCHANGED <<store, saved, said, epoch, stale>>
    BY <1>1, <1>8 DEF CommitPasses, Record, record, durable
  <2> QED
    BY <1>1, <2>1 DEF WindowKept
<1>9. CASE EagerCondenses(w)
  <2>1. rec.attempt \in Id
    BY <1>1, <1>9 DEF EagerCondenses, EagerCanWrite, Record, Id
  <2>2. WindowWritten(rec.attempt)
    BY <1>1, <1>9 DEF EagerCondenses, Condensed, Record, WindowWritten
  <2> QED
    BY <2>1, <2>2
<1>10. CASE DoctorCondenses(w)
  <2>1. held[w] \in Id /\ rec.attempt = held[w]
    BY <1>10 DEF DoctorCondenses, DoctorCanWrite, DoctorHoldsIt, TypeOK, Id
  <2>2. WindowWritten(held[w])
    BY <1>1, <1>10, <2>1 DEF DoctorCondenses, Condensed, Record, WindowWritten
  <2> QED
    BY <2>1, <2>2
<1>11. CASE CommitCondenses(w) \/ CommitCarries(w) \/ CommitFailsToCarry(w)
  <2>1. held[w] \in Id /\ rec.attempt \in {0, held[w]}
    BY <1>11, CommitWritesPending DEF CommitCondenses, CommitCarries, CommitFailsToCarry
  <2>2. /\ Committed(w) \in Record /\ Committed(w).start = said
        /\ Committed(w).turn \subseteq rec.turn \cup {held[w]}
    BY SMTT(40), ZenonT(40), <1>1, <2>1 DEF Committed, Condensed, Record, Id
  <2>3. /\ WriteCheckpoint(held[w]) /\ UNCHANGED <<said, stale>>
        /\ rec'.turn = Committed(w).turn
        /\ \/ epoch' = epoch /\ rec'.start = Committed(w).start
           \/ epoch' = epoch + 1 /\ rec'.start = 0
    BY <1>11, <2>2 DEF CommitCondenses, CommitCarries, CommitFailsToCarry, Restart, Record
  <2>4. WindowWritten(held[w])
    BY <2>1, <2>2, <2>3 DEF WindowWritten
  <2> QED
    BY <2>1, <2>4
<1>12. CASE DiesAfterWrite(w)
  <2>1. PICK i \in Id : WriteCheckpoint(i) /\ rec.attempt \in {0, i}
    BY <1>1, <1>12, CommitWritesPending
       DEF DiesAfterWrite, EagerCanWrite, DoctorCanWrite, DoctorHoldsIt, TypeOK, Record, Id
  <2>2. WindowWritten(i)
    BY <1>12, <2>1 DEF DiesAfterWrite, WindowWritten, record
  <2> QED
    BY <2>2
<1> QED
  BY <1>2, <1>3, <1>4, <1>5, <1>6, <1>7, <1>8, <1>9, <1>10, <1>11, <1>12 DEF Continues

(* Every step has one of the effects. *)
LEMMA NextEffect ==
  ASSUME TypeOK, [Next]_vars
  PROVE  \/ WindowKept \/ WindowReserved \/ WindowRestarted \/ TurnEnd
         \/ \E i \in Id : WindowWritten(i)
<1>1. CASE UNCHANGED vars
  BY <1>1 DEF vars, WindowKept, record, durable, TypeOK
<1> QED
  BY <1>1, AgentEffect, BeginsEffect, ContinuesEffect DEF Next

(* The part of TypeOK about checkpoints. *)
StoreOK ==
  /\ store \in SUBSET Checkpoint
  /\ \A c \in store : c.from <= c.upto /\ c.upto <= said /\ c.epoch <= epoch
  /\ \A c, d \in store : c.id = d.id => c = d
  /\ saved \in SUBSET Task
  /\ said \in Nat /\ epoch \in Nat
  /\ stale \in BOOLEAN

LEMMA NextStoreOK == TypeOK /\ [Next]_vars => StoreOK'
<1> SUFFICES ASSUME TypeOK, [Next]_vars PROVE StoreOK'
  OBVIOUS
<1>1. \A c \in store : c.upto \in Nat /\ c.epoch \in Nat
  BY DEF TypeOK, Checkpoint
<1>2. StoreOK /\ saved \in SUBSET Task
  BY DEF TypeOK, StoreOK
<1>3. CASE WindowKept
  BY <1>1, <1>2, <1>3 DEF WindowKept, StoreOK
<1>4. CASE WindowReserved
  BY <1>2, <1>4 DEF WindowReserved, StoreOK
<1>5. CASE WindowRestarted
  BY <1>1, <1>2, <1>5 DEF WindowRestarted, StoreOK
<1>6. CASE TurnEnd
  <2>1. PICK final \in SUBSET rec.turn :
          /\ store' = {IF c.id \in final THEN [c EXCEPT !.full = said] ELSE c : c \in store}
          /\ stale' = (stale \/ final # rec.turn)
    BY <1>6 DEF TurnEnd
  <2>2. UNCHANGED <<said, epoch, saved>>
    BY <1>6 DEF TurnEnd
  <2>3. stale' \in BOOLEAN
    BY <2>1
  <2>4. /\ store' \in SUBSET Checkpoint
        /\ \A d \in store' : d.from <= d.upto /\ d.upto <= said /\ d.epoch <= epoch
        /\ \A c, d \in store' : c.id = d.id => c = d
    <3>1. /\ store' \in SUBSET Checkpoint
          /\ \A d \in store' : \E c \in store :
               /\ d.id = c.id /\ d.from = c.from /\ d.upto = c.upto
               /\ d.epoch = c.epoch /\ d.reserved = c.reserved
          /\ \A c, d \in store' : c.id = d.id => c = d
      BY <2>1, FinalizedStore, ZenonT(60)
    <3> QED
      BY <1>2, <3>1 DEF StoreOK
  <2> QED
    BY <1>2, <2>2, <2>3, <2>4 DEF StoreOK
<1>7. ASSUME NEW i \in Id, WindowWritten(i) PROVE StoreOK'
  <2>1. /\ store' \in SUBSET Checkpoint /\ saved' \in SUBSET Task
        /\ \A c \in store' : c.from <= c.upto /\ c.upto <= said /\ c.epoch <= epoch
        /\ \A c, d \in store' : c.id = d.id => c = d
    BY <1>7, WrittenStore DEF WindowWritten
  <2>2. \A c \in store' : c.epoch \in Nat
    BY <2>1 DEF Checkpoint
  <2>3. said' = said /\ stale' = stale /\ epoch' \in {epoch, epoch + 1}
    BY <1>7 DEF WindowWritten
  <2> QED
    BY <1>2, <2>1, <2>2, <2>3 DEF StoreOK
<1> QED
  BY <1>3, <1>4, <1>5, <1>6, <1>7, NextEffect

(* The part of TypeOK about the record. *)
RecordOK ==
  /\ present \in BOOLEAN
  /\ rec \in Record
  /\ rec.steps => rec.files
  /\ said \in Nat /\ rec.start <= said
  /\ branch \in BOOLEAN
  /\ owed \in SUBSET Task
  /\ minted \in Nat

LEMMA ForgetOK ==
  ASSUME RecordOK, Forget, branch' \in BOOLEAN, owed' \in SUBSET Task, UNCHANGED <<said, minted>>
  PROVE  RecordOK'
<1>1. Fresh \in Record /\ ~Fresh.steps /\ Fresh.start = 0
  BY FreshIsRecord DEF Fresh
<1>2. present' \in BOOLEAN /\ rec' = Fresh
  BY DEF Forget
<1> QED
  BY <1>1, <1>2 DEF RecordOK

LEMMA ReserveOK ==
  ASSUME RecordOK, NEW i \in 1..MaxId, Reserve(i)
  PROVE  i \in Nat /\ minted' \in Nat
BY BoundAssumption DEF RecordOK, Reserve

LEMMA CompleteTaskOK ==
  ASSUME RecordOK, NEW t \in Task, CompleteTask(t)
  PROVE  RecordOK'
<1>1. PICK f \in BOOLEAN :
        rec' = [rec EXCEPT !.live = @ \ {t}, !.done = @ \cup {t}, !.files = @ \/ f]
  BY DEF CompleteTask
<1>2. UNCHANGED <<present, said, branch, minted>> /\ owed' = owed \cup {t}
  BY DEF CompleteTask
<1>3. rec' \in Record /\ rec'.start = rec.start /\ (rec'.steps => rec'.files)
  BY <1>1 DEF RecordOK, Record
<1> QED
  BY <1>2, <1>3 DEF RecordOK

LEMMA AgentOK ==
  ASSUME RecordOK, Agent \/ ClearOrphan \/ BranchChanges
  PROVE  RecordOK'
<1>0. rec.start \in Nat
  BY DEF RecordOK, Record
<1>1. CASE TurnStart
  <2>1. /\ rec' \in Record /\ rec'.start = rec.start
        /\ rec'.steps = rec.steps /\ rec'.files = rec.files
    BY <1>1 DEF TurnStart, RecordOK, Record
  <2>2. /\ present' \in BOOLEAN /\ said' = said + 1
        /\ UNCHANGED <<branch, owed, minted>>
    BY <1>1 DEF TurnStart
  <2> QED
    BY <1>0, <2>1, <2>2 DEF RecordOK
<1>2. CASE SessionStart
  BY <1>2 DEF SessionStart, RecordOK, Record
<1>3. CASE Talk
  <2>1. said' = said + 1 /\ UNCHANGED <<present, rec, branch, owed, minted>>
    BY <1>3 DEF Talk, record
  <2> QED
    BY <1>0, <2>1 DEF RecordOK
<1>4. CASE RecordFilesTouched
  <2>1. rec' \in Record /\ rec'.start = rec.start /\ rec'.files
    BY <1>4 DEF RecordFilesTouched, RecordOK, Record
  <2>2. UNCHANGED <<present, said, branch, owed, minted>>
    BY <1>4 DEF RecordFilesTouched
  <2> QED
    BY <2>1, <2>2 DEF RecordOK
<1>5. CASE SaveStep
  BY <1>5 DEF SaveStep, RecordOK, Record
<1>6. CASE TurnEnd
  <2>1. PICK kept \in {{}, rec.turn}, known \in BOOLEAN :
          rec' = [rec EXCEPT !.phase = IF Ended THEN "ended" ELSE "idle",
                             !.turn = kept,
                             !.start = IF known /\ rec.turn # {} /\ ~rec.files
                                       THEN said ELSE @]
    BY <1>6 DEF TurnEnd
  <2>2. /\ rec' \in Record /\ rec'.start \in {rec.start, said}
        /\ rec'.steps = rec.steps /\ rec'.files = rec.files
    BY <2>1 DEF RecordOK, Record
  <2>3. UNCHANGED <<present, said, branch, owed, minted>>
    BY <1>6 DEF TurnEnd
  <2> QED
    BY <2>2, <2>3 DEF RecordOK
<1>7. CASE \E t \in Task : TaskStart(t)
  <2>1. /\ rec' \in Record /\ rec'.start = rec.start
        /\ rec'.steps = rec.steps /\ rec'.files = rec.files
    BY <1>7 DEF TaskStart, RecordOK, Record
  <2>2. UNCHANGED <<present, said, branch, owed, minted>>
    BY <1>7 DEF TaskStart
  <2> QED
    BY <2>1, <2>2 DEF RecordOK
<1>8. CASE ClearOrphan
  BY <1>8, ForgetOK DEF ClearOrphan, RecordOK
<1>9. CASE BranchChanges
  <2>1. branch' \in BOOLEAN
    BY <1>9 DEF BranchChanges
  <2>2. UNCHANGED <<present, rec, said, owed, minted>>
    BY <1>9 DEF BranchChanges, record
  <2> QED
    BY <2>1, <2>2 DEF RecordOK
<1> QED
  BY <1>1, <1>2, <1>3, <1>4, <1>5, <1>6, <1>7, <1>8, <1>9 DEF Agent, AgentWorks

LEMMA BeginsOK ==
  ASSUME RecordOK, NEW w \in Worker, Begins(w)
  PROVE  RecordOK'
<1>1. CASE \E t \in Task : SubagentStops(w, t)
  BY <1>1, CompleteTaskOK DEF SubagentStops
<1>2. CASE SessionEnds(w) \/ DoctorPicks(w) \/ DoctorRejects(w) \/ Prepare(w)
  BY <1>2 DEF SessionEnds, DoctorPicks, DoctorRejects, Prepare, RecordOK, record
<1> QED
  BY <1>1, <1>2 DEF Begins

LEMMA ContinuesOK ==
  ASSUME TypeOK, NEW w \in Worker, Continues(w)
  PROVE  RecordOK'
<1>0. RecordOK /\ rec.start \in Nat
  BY DEF TypeOK, RecordOK, Record
<1>1. CASE \/ SubagentStopReloads(w) \/ EagerReads(w) \/ EagerDeclines(w)
           \/ DoctorDeclines(w) \/ FindsNoRecord(w) \/ Target(w) \/ DiesAfterWrite(w) \/ Stops(w)
  <2>1. UNCHANGED <<present, rec, said, branch, owed, minted>>
    BY <1>1 DEF SubagentStopReloads, EagerReads, EagerDeclines, DoctorDeclines, FindsNoRecord,
                Target, DiesAfterWrite, Stops, record
  <2> QED
    BY <1>0, <2>1 DEF RecordOK
<1>2. CASE \E t \in Task : CompletesLiveTask(w, t)
  BY <1>0, <1>2, CompleteTaskOK DEF CompletesLiveTask
<1>3. CASE MarksEnded(w)
  <2>1. UNCHANGED <<present, said, branch, owed>>
    BY <1>3 DEF MarksEnded
  <2>2. CASE rec.files \/ ~Content
    <3>1. rec' \in Record /\ rec'.start = rec.start /\ (rec'.steps => rec'.files)
      <4>1. \/ rec' = [rec EXCEPT !.phase = "ended", !.endedAt = TRUE]
            \/ rec' = [rec EXCEPT !.phase = "ended", !.endedAt = TRUE, !.fully = TRUE, !.attempt = 0]
        BY <1>3, <2>2 DEF MarksEnded
      <4>2. CASE rec' = [rec EXCEPT !.phase = "ended", !.endedAt = TRUE]
        BY <1>0, <4>2 DEF RecordOK, Record
      <4>3. CASE rec' = [rec EXCEPT !.phase = "ended", !.endedAt = TRUE, !.fully = TRUE, !.attempt = 0]
        <5>1. rec' \in Record
          BY <1>0, <4>3 DEF RecordOK, Record
        <5>2. /\ rec'.start = rec.start
              /\ rec'.steps = rec.steps /\ rec'.files = rec.files
          BY <1>0, <4>3 DEF RecordOK, Record
        <5> QED
          BY <1>0, <5>1, <5>2 DEF RecordOK
      <4> QED
        BY <4>1, <4>2, <4>3
    <3>2. minted' = minted
      BY <1>3, <2>2 DEF MarksEnded
    <3> QED
      BY <1>0, <2>1, <3>1, <3>2 DEF RecordOK
  <2>3. CASE ~(rec.files \/ ~Content)
    <3>1. PICK i \in 1..MaxId : Reserve(i) /\ rec' = [rec EXCEPT !.phase = "ended", !.endedAt = TRUE, !.attempt = i]
      BY <1>3, <2>3 DEF MarksEnded
    <3>2. i \in Nat /\ minted' \in Nat
      BY <1>0, <3>1, ReserveOK
    <3>3. /\ rec' \in Record /\ rec'.start = rec.start
          /\ rec'.steps = rec.steps /\ rec'.files = rec.files
      BY <1>0, <3>1, <3>2 DEF RecordOK, Record
    <3> QED
      BY <1>0, <2>1, <3>2, <3>3 DEF RecordOK
  <2> QED
    BY <2>2, <2>3
<1>4. CASE EagerReserves(w) \/ DoctorReserves(w)
  <2>1. PICK i \in 1..MaxId : Reserve(i) /\ rec' = [rec EXCEPT !.attempt = i]
    BY <1>4 DEF EagerReserves, DoctorReserves
  <2>2. i \in Nat /\ minted' \in Nat
    BY <1>0, <2>1, ReserveOK
  <2>3. /\ rec' \in Record /\ rec'.start = rec.start
        /\ rec'.steps = rec.steps /\ rec'.files = rec.files
    BY <1>0, <2>1, <2>2 DEF RecordOK, Record
  <2>4. UNCHANGED <<present, said, branch, owed>>
    BY <1>4 DEF EagerReserves, DoctorReserves
  <2> QED
    BY <1>0, <2>2, <2>3, <2>4 DEF RecordOK
<1>5. CASE EagerFinishes(w)
  <2>1. rec' \in Record /\ rec'.start = rec.start /\ ~rec'.steps
    BY <1>0, <1>5 DEF EagerFinishes, RecordOK, Record
  <2>2. UNCHANGED <<present, said, branch, owed, minted>>
    BY <1>5 DEF EagerFinishes
  <2> QED
    BY <1>0, <2>1, <2>2 DEF RecordOK
<1>6. CASE DoctorClears(w) \/ DoctorDiscards(w)
  <2>1. /\ Forget /\ branch' \in BOOLEAN /\ owed' \in SUBSET Task
        /\ UNCHANGED <<said, minted>>
    BY <1>0, <1>6 DEF DoctorClears, DoctorDiscards, RecordOK
  <2> QED
    BY <1>0, <2>1, ForgetOK
<1>7. CASE CommitPasses(w)
  <2>1. /\ rec' \in Record /\ rec'.start = rec.start
        /\ rec'.steps = rec.steps /\ rec'.files = rec.files
    BY <1>0, <1>7 DEF CommitPasses, RecordOK, Record, record
  <2>2. branch' \in BOOLEAN /\ UNCHANGED <<present, said, owed, minted>>
    BY <1>0, <1>7 DEF CommitPasses, RecordOK, record
  <2> QED
    BY <1>0, <2>1, <2>2 DEF RecordOK
<1>8. CASE EagerCondenses(w) \/ DoctorCondenses(w)
  <2>1. PICK i \in Nat :
          \/ rec' = [Condensed(i) EXCEPT !.fully = TRUE]
          \/ rec' = [Condensed(i) EXCEPT !.phase = "idle"]
    BY <1>0, <1>8 DEF EagerCondenses, DoctorCondenses, TypeOK, Record
  <2>2. Condensed(i) \in Record /\ ~Condensed(i).steps /\ Condensed(i).start = said
    BY <1>0 DEF Condensed, RecordOK, Record
  <2>3. rec' \in Record /\ rec'.start = said /\ ~rec'.steps
    BY <2>1, <2>2 DEF Record
  <2>4. UNCHANGED <<present, said, branch, owed, minted>>
    BY <1>8 DEF EagerCondenses, DoctorCondenses
  <2> QED
    BY <1>0, <2>3, <2>4 DEF RecordOK
<1>9. CASE CommitCondenses(w) \/ CommitCarries(w) \/ CommitFailsToCarry(w)
  <2>1. held[w] \in Id
    BY <1>9, CommitWritesPending DEF CommitCondenses, CommitCarries, CommitFailsToCarry
  <2>2. Committed(w) \in Record /\ ~Committed(w).steps /\ Committed(w).start = said
    BY SMTT(40), ZenonT(40), <1>0, <2>1 DEF Committed, Condensed, RecordOK, Record, Id
  <2>3. rec' \in Record /\ rec'.start \in {0, said} /\ (rec'.steps => rec'.files)
    <3>1. CASE CommitCondenses(w)
      BY <2>2, <3>1 DEF CommitCondenses, Record
    <3>2. CASE CommitCarries(w)
      <4>1. rec' = [Committed(w) EXCEPT !.files = TRUE, !.steps = TRUE, !.start = 0, !.last = 0]
        BY <3>2 DEF CommitCarries
      <4> QED
        BY <2>2, <4>1 DEF Record
    <3>3. CASE CommitFailsToCarry(w)
      <4>1. rec' = [Committed(w) EXCEPT !.files = TRUE]
        BY <3>3 DEF CommitFailsToCarry
      <4> QED
        BY <2>2, <4>1 DEF Record
    <3> QED
      BY <1>9, <3>1, <3>2, <3>3
  <2>4. branch' \in BOOLEAN /\ UNCHANGED <<present, said, owed, minted>>
    BY <1>9 DEF CommitCondenses, CommitCarries, CommitFailsToCarry
  <2> QED
    BY <1>0, <2>3, <2>4 DEF RecordOK
<1> QED
  BY <1>1, <1>2, <1>3, <1>4, <1>5, <1>6, <1>7, <1>8, <1>9, Zenon DEF Continues

LEMMA NextTypeOK == TypeOK /\ [Next]_vars => TypeOK'
<1> SUFFICES ASSUME TypeOK, [Next]_vars PROVE TypeOK'
  OBVIOUS
<1>1. RecordOK
  BY DEF TypeOK, RecordOK
<1>2. RecordOK'
  <2>1. CASE UNCHANGED vars
    BY <1>1, <2>1 DEF vars, record, RecordOK
  <2> QED
    BY <1>1, <2>1, AgentOK, BeginsOK, ContinuesOK DEF Next
<1>3. WorkersOK' /\ StoreOK'
  BY NextWorkersOK, NextStoreOK
<1> QED
  BY <1>2, <1>3, Zenon DEF TypeOK, RecordOK, StoreOK, WorkersOK

(* The types of all variables, with the bounds of every checkpoint's window and
   of the record's: TypeOK holds for every instance of the model. *)
THEOREM TypeCorrect == Spec => []TypeOK
<1> QED
  BY InitTypeOK, NextTypeOK, PTL DEF Spec

-----------------------------------------------------------------------------
(* Windows.  TypeOK and the two invariants together are inductive. *)

WindowInv == TypeOK /\ AttemptCoversOrphan /\ OneCheckpointPerWindow

LEMMA InitWindowInv == Init => WindowInv
BY InitTypeOK DEF Init, WindowInv, AttemptCoversOrphan, OneCheckpointPerWindow

(* A checkpoint written under the pending ID starts where every other reserved
   one of its epoch has ended. *)
LEMMA WriteKeepsApart ==
  ASSUME WindowInv, NEW i \in Id, WriteCheckpoint(i), rec.attempt \in {0, i}
  PROVE  /\ \A c, d \in store' :
              c # d /\ c.reserved /\ d.reserved /\ c.epoch = d.epoch => Apart(c, d)
         /\ \A c \in store' : c.reserved /\ c.epoch = epoch /\ rec.start < c.upto
                              => rec.attempt = c.id
<1> DEFINE n == [id |-> i, from |-> rec.start, upto |-> said, full |-> said,
                 epoch |-> epoch, reserved |-> rec.attempt = i]
<1>1. /\ n.id = i /\ n.from = rec.start /\ n.epoch = epoch
      /\ n.reserved <=> rec.attempt = i
  OBVIOUS
<1>2. store' = {c \in store : c.id # i} \cup {n}
  BY DEF WriteCheckpoint
<1>3. \A c \in store : c.upto \in Nat
  BY DEF WindowInv, TypeOK, Checkpoint
<1>4. rec.start \in Nat
  BY DEF WindowInv, TypeOK, Record
<1> HIDE DEF n
<1>5. ASSUME NEW c \in store, c.id # i, c.reserved, c.epoch = epoch, n.reserved
      PROVE  c.upto <= n.from
  BY <1>1, <1>3, <1>4, <1>5 DEF WindowInv, AttemptCoversOrphan
<1>6. ASSUME NEW c \in store', NEW d \in store', c # d,
             c.reserved, d.reserved, c.epoch = d.epoch
      PROVE  Apart(c, d)
  <2>1. CASE c = n
    BY <1>1, <1>2, <1>5, <1>6, <2>1 DEF Apart
  <2>2. CASE d = n
    BY <1>1, <1>2, <1>5, <1>6, <2>2 DEF Apart
  <2>3. CASE c # n /\ d # n
    BY <1>2, <1>6, <2>3 DEF WindowInv, OneCheckpointPerWindow
  <2> QED
    BY <2>1, <2>2, <2>3
<1>7. ASSUME NEW c \in store', c.reserved, c.epoch = epoch, rec.start < c.upto
      PROVE  rec.attempt = c.id
  BY <1>1, <1>2, <1>7 DEF WindowInv, AttemptCoversOrphan
<1> QED
  BY <1>6, <1>7

LEMMA NextWindowInv == WindowInv /\ [Next]_vars => WindowInv'
<1> SUFFICES ASSUME WindowInv, [Next]_vars PROVE (AttemptCoversOrphan /\ OneCheckpointPerWindow)'
  BY NextTypeOK DEF WindowInv
<1>0. TypeOK
  BY DEF WindowInv
<1>1. \A c \in store : /\ c.upto \in Nat /\ c.epoch \in Nat /\ c.id \in Id
                        /\ c.upto <= said /\ c.epoch <= epoch
  BY DEF WindowInv, TypeOK, Checkpoint
<1>2. said \in Nat /\ epoch \in Nat /\ rec.start \in Nat
  BY DEF WindowInv, TypeOK, Record
<1>3. CASE WindowKept
  BY <1>3 DEF WindowKept, WindowInv, AttemptCoversOrphan, OneCheckpointPerWindow
<1>4. CASE WindowReserved
  \* without a pending ID nothing stored reaches into the window
  BY <1>1, <1>4 DEF WindowReserved, WindowInv, AttemptCoversOrphan, OneCheckpointPerWindow, Id
<1>5. CASE WindowRestarted
  BY <1>1, <1>2, <1>5 DEF WindowRestarted, WindowInv, AttemptCoversOrphan, OneCheckpointPerWindow
<1>6. CASE TurnEnd
  <2>1. PICK final \in SUBSET rec.turn :
          store' = {IF c.id \in final THEN [c EXCEPT !.full = said] ELSE c : c \in store}
    BY <1>6 DEF TurnEnd
  <2>2. /\ \A d \in store' : \E c \in store :
             /\ d.id = c.id /\ d.from = c.from /\ d.upto = c.upto
             /\ d.epoch = c.epoch /\ d.reserved = c.reserved
        /\ \A c, d \in store' : c.id = d.id => c = d
    BY <2>1, <1>0, FinalizedStore, ZenonT(60)
  <2>3. epoch' = epoch /\ rec'.attempt = rec.attempt /\ rec'.start \in {rec.start, said}
    BY <1>6 DEF TurnEnd, WindowInv, TypeOK, Record
  <2>4. AttemptCoversOrphan'
    BY <1>1, <1>2, <2>2, <2>3 DEF WindowInv, AttemptCoversOrphan
  <2>5. OneCheckpointPerWindow'
    BY <2>2 DEF WindowInv, OneCheckpointPerWindow, Apart
  <2> QED
    BY <2>4, <2>5
<1>7. ASSUME NEW i \in Id, WindowWritten(i)
      PROVE  (AttemptCoversOrphan /\ OneCheckpointPerWindow)'
  <2>1. WriteCheckpoint(i) /\ rec.attempt \in {0, i} /\ said' = said
    BY <1>7 DEF WindowWritten
  <2>2. OneCheckpointPerWindow'
    BY <2>1, WriteKeepsApart DEF OneCheckpointPerWindow
  <2>3. \A c \in store' : c.upto \in Nat /\ c.epoch \in Nat /\ c.upto <= said /\ c.epoch <= epoch
    BY <2>1, WrittenStore DEF WindowInv, Checkpoint
  <2>4. CASE epoch' = epoch /\ rec' = rec
    BY <2>1, <2>2, <2>4, WriteKeepsApart DEF AttemptCoversOrphan
  <2>5. CASE epoch' = epoch /\ rec'.start = said
    BY <1>2, <2>2, <2>3, <2>5 DEF AttemptCoversOrphan
  <2>6. CASE epoch' = epoch + 1
    BY <1>2, <2>2, <2>3, <2>6 DEF AttemptCoversOrphan
  <2> QED
    BY <1>7, <2>4, <2>5, <2>6 DEF WindowWritten
<1> QED
  BY <1>3, <1>4, <1>5, <1>6, <1>7, NextEffect DEF WindowInv

(* However often a condensation dies after its write and is repeated, by
   whichever of doctor, the end of the session and a commit, no two checkpoints
   written under a reservation hold the same lines of one epoch. *)
THEOREM OneCheckpointPerWindowCorrect == Spec => []OneCheckpointPerWindow
<1>1. WindowInv => OneCheckpointPerWindow
  BY DEF WindowInv
<1> QED
  BY <1>1, InitWindowInv, NextWindowInv, PTL DEF Spec

(* A checkpoint that reaches into the record's window is the pending one. *)
THEOREM AttemptCoversOrphanCorrect == Spec => []AttemptCoversOrphan
<1>1. WindowInv => AttemptCoversOrphan
  BY DEF WindowInv
<1> QED
  BY <1>1, InitWindowInv, NextWindowInv, PTL DEF Spec

-----------------------------------------------------------------------------
(* Nothing before the window is lost. *)

(* The turn's checkpoints are in the store. *)
StoredInv == TypeOK /\ rec.turn \subseteq Stored /\ StartIsStored

LEMMA InitStoredInv == Init => StoredInv
BY InitTypeOK DEF Init, Fresh, StoredInv, StartIsStored

LEMMA NextStoredInv == StoredInv /\ [Next]_vars => StoredInv'
<1> SUFFICES ASSUME StoredInv, [Next]_vars
             PROVE  (rec.turn \subseteq Stored /\ StartIsStored)'
  BY NextTypeOK DEF StoredInv
<1>0. TypeOK
  BY DEF StoredInv
<1>1. said \in Nat /\ rec.start \in Nat /\ rec.start <= said
  BY DEF StoredInv, TypeOK, Record
<1>2. \A c \in store : c.full \in Nat
  BY DEF StoredInv, TypeOK, Checkpoint
<1>3. CASE WindowKept \/ WindowReserved \/ WindowRestarted
  BY <1>3 DEF WindowKept, WindowReserved, WindowRestarted, StoredInv, Stored, StartIsStored
<1>4. CASE TurnEnd
  <2>1. PICK final \in SUBSET rec.turn :
          /\ store' = {IF c.id \in final THEN [c EXCEPT !.full = said] ELSE c : c \in store}
          /\ stale' = (stale \/ final # rec.turn)
    BY <1>4 DEF TurnEnd
  <2>2. \A c \in store : \E d \in store' :
          d.id = c.id /\ d.full = (IF c.id \in final THEN said ELSE c.full)
    BY <2>1, <1>0, FinalizedStore, ZenonT(60)
  <2>3. rec'.turn \subseteq rec.turn /\ rec'.start \in {rec.start, said}
    BY <1>4 DEF TurnEnd, StoredInv, TypeOK, Record
  <2>4. rec'.start # rec.start => rec'.start = said /\ rec.turn # {}
    BY <1>4 DEF TurnEnd, StoredInv, TypeOK, Record
  <2>5. rec'.turn \subseteq Stored'
    BY <2>2, <2>3 DEF StoredInv, Stored
  <2>6. StartIsStored'
    <3>1. CASE stale \/ final # rec.turn
      BY <2>1, <3>1 DEF StartIsStored
    <3>2. CASE rec'.start = rec.start /\ ~stale
      \* full never decreases below the start
      BY <1>1, <1>2, <2>2, <3>2 DEF StoredInv, StartIsStored
    <3>3. CASE rec'.start # rec.start /\ final = rec.turn
      <4>1. PICK c \in store : c.id \in final
        BY <2>4, <3>3 DEF StoredInv, Stored
      <4>2. PICK d \in store' : d.full = said
        BY <2>2, <4>1
      <4> QED
        BY <1>1, <2>4, <3>3, <4>2 DEF StartIsStored
    <3> QED
      BY <3>1, <3>2, <3>3
  <2> QED
    BY <2>5, <2>6
<1>5. ASSUME NEW i \in Id, WindowWritten(i)
      PROVE  (rec.turn \subseteq Stored /\ StartIsStored)'
  <2> DEFINE n == [id |-> i, from |-> rec.start, upto |-> said, full |-> said,
                   epoch |-> epoch, reserved |-> rec.attempt = i]
  <2>1. n.id = i /\ n.full = said
    OBVIOUS
  <2>2. store' = {c \in store : c.id # i} \cup {n}
    BY <1>5 DEF WindowWritten, WriteCheckpoint
  <2> HIDE DEF n
  <2>3. rec'.turn \subseteq rec.turn \cup {i} /\ rec'.start \in {0, rec.start, said}
    BY <1>5 DEF WindowWritten
  <2>4. n \in store' /\ Stored' = Stored \cup {i}
    BY <2>1, <2>2 DEF Stored
  <2>5. rec'.turn \subseteq Stored'
    BY <2>3, <2>4 DEF StoredInv
  <2>6. rec'.start <= n.full
    BY <1>1, <2>1, <2>3
  <2> QED
    BY <2>4, <2>5, <2>6 DEF StartIsStored
<1> QED
  BY <1>3, <1>4, <1>5, NextEffect DEF StoredInv

(* Whatever dies, races or is carried forward, the lines before the start of the
   next window are in a checkpoint, if every turn end brought its checkpoints up
   to date. *)
THEOREM StartIsStoredCorrect == Spec => []StartIsStored
<1>1. StoredInv => StartIsStored
  BY DEF StoredInv
<1> QED
  BY <1>1, InitStoredInv, NextStoredInv, PTL DEF Spec

-----------------------------------------------------------------------------
(* Completed tasks. *)

LEMMA NextTasksKept == TypeOK /\ TasksKept /\ [Next]_vars => TasksKept'
<1> SUFFICES ASSUME TypeOK, TasksKept, [Next]_vars PROVE TasksKept'
  OBVIOUS
<1>0. rec \in Record
  BY DEF TypeOK
<1>1. CASE UNCHANGED vars
  BY <1>1 DEF vars, record, durable, TasksKept
<1>2. CASE Agent \/ BranchChanges
  <2>1. CASE TurnStart \/ SessionStart
    BY <1>0, <2>1 DEF TurnStart, SessionStart, Record, durable, TasksKept
  <2>2. CASE Talk \/ RecordFilesTouched \/ SaveStep \/ BranchChanges
    BY <1>0, <2>2 DEF Talk, RecordFilesTouched, SaveStep, BranchChanges, Record, record, durable,
                      TasksKept
  <2>3. CASE TurnEnd
    BY <1>0, <2>3 DEF TurnEnd, Record, TasksKept
  <2>4. CASE \E t \in Task : TaskStart(t)
    BY <1>0, <2>4 DEF TaskStart, Record, durable, TasksKept
  <2> QED
    BY <1>2, <2>1, <2>2, <2>3, <2>4 DEF Agent, AgentWorks
<1>3. ASSUME NEW t \in Task, CompleteTask(t), saved' = saved PROVE TasksKept'
  <2>1. rec'.done = rec.done \cup {t} /\ owed' = owed \cup {t}
    BY <1>0, <1>3 DEF CompleteTask, Record
  <2> QED
    BY <1>3, <2>1 DEF TasksKept
<1>4. CASE ClearOrphan
  BY <1>4 DEF ClearOrphan, Orphaned, Forget, Tasks, durable, TasksKept
<1>5. ASSUME NEW w \in Worker, Begins(w) PROVE TasksKept'
  <2>1. CASE \E t \in Task : SubagentStops(w, t)
    BY <1>3, <2>1 DEF SubagentStops, CompleteTask, durable
  <2> QED
    BY <1>5, <2>1 DEF Begins, SessionEnds, DoctorPicks, DoctorRejects, Prepare, record, durable,
                      TasksKept
<1>6. ASSUME NEW w \in Worker, Continues(w) PROVE TasksKept'
  <2>1. CASE \E t \in Task : CompletesLiveTask(w, t)
    BY <1>3, <2>1 DEF CompletesLiveTask, CompleteTask, durable
  <2>2. CASE \/ MarksEnded(w) \/ EagerReserves(w) \/ EagerFinishes(w)
             \/ DoctorReserves(w) \/ CommitPasses(w)
    <3>1. rec'.done = rec.done /\ saved' = saved /\ owed' = owed
      BY <1>0, <2>2 DEF MarksEnded, EagerReserves, EagerFinishes, DoctorReserves, CommitPasses,
                        Record, record, durable
    <3> QED
      BY <3>1 DEF TasksKept
  <2>3. CASE \/ SubagentStopReloads(w) \/ EagerReads(w) \/ EagerDeclines(w)
             \/ DoctorDeclines(w) \/ FindsNoRecord(w) \/ Target(w) \/ Stops(w)
    BY <2>3 DEF SubagentStopReloads, EagerReads, EagerDeclines, DoctorDeclines, FindsNoRecord,
                Target, Stops, record, durable, TasksKept
  <2>4. CASE DoctorClears(w)
    \* the frame has seen that there is no task
    BY <2>4 DEF DoctorClears, Forget, Tasks, durable, TasksKept
  <2>5. CASE DoctorDiscards(w)
    BY <2>5 DEF DoctorDiscards, durable, TasksKept
  <2>6. CASE \/ EagerCondenses(w) \/ DoctorCondenses(w) \/ CommitCondenses(w)
             \/ CommitCarries(w) \/ CommitFailsToCarry(w) \/ DiesAfterWrite(w)
    \* what the record drops, the checkpoint holds
    <3>1. saved' = saved \cup rec.done /\ owed' = owed
      BY <2>6 DEF EagerCondenses, DoctorCondenses, CommitCondenses, CommitCarries,
                  CommitFailsToCarry, DiesAfterWrite, WriteCheckpoint
    <3> QED
      BY <3>1 DEF TasksKept
  <2> QED
    BY <1>6, <2>1, <2>2, <2>3, <2>4, <2>5, <2>6 DEF Continues
<1> QED
  BY <1>1, <1>2, <1>4, <1>5, <1>6 DEF Next

(* No crash, race or clear loses a completed subagent task. *)
THEOREM TasksKeptCorrect == Spec => []TasksKept
<1>1. Init => TasksKept
  BY DEF Init, TasksKept
<1> QED
  BY <1>1, InitTypeOK, NextTypeOK, NextTasksKept, PTL DEF Spec

=============================================================================
