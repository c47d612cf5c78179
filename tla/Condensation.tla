---------------------------- MODULE Condensation ----------------------------
(***************************************************************************)
(* How one session's work becomes checkpoints                              *)
(* (strategy/manual_commit_condensation.go, strategy/manual_commit_hooks.go,*)
(* strategy/manual_commit_git.go, lifecycle.go, doctor.go).                *)
(*                                                                         *)
(* Agent hooks add to the session record: transcript lines, steps saved on *)
(* the shadow branch, touched files, subagent tasks.  Three kinds of       *)
(* process turn that into a checkpoint: git's commit hooks, the end of the *)
(* session (eager condensation), and doctor or the background sweep.  Each *)
(* writes the checkpoint to the store and then saves the record: two       *)
(* durable steps, and it may die in between.  The last two first reserve   *)
(* the checkpoint's ID in the record, so that a repetition writes the same *)
(* checkpoint again.                                                       *)
(*                                                                         *)
(* A MutateSessionState frame is one step: SessionGate shows that it is    *)
(* atomic.  What a process reads outside a frame is a step of its own.     *)
(* Other sessions of the worktree appear as changes to the shadow branch   *)
(* the session shares with them, and as foreign trailers on a commit.      *)
(*                                                                         *)
(* Left out: records of old CLI versions (RecoveryPending), adopted, guest *)
(* and imported sessions, reviews, rebases, compaction, agents that write  *)
(* their transcript late, condensations with nothing to store.             *)
(***************************************************************************)
EXTENDS Naturals, FiniteSets

CONSTANTS
  Task,       \* runs of subagents
  Worker,     \* hook and command processes
  MaxSaid,    \* bound: transcript lines
  MaxId,      \* bound: checkpoint IDs minted
  MaxEpoch    \* bound: how often the window restarts

ASSUME BoundAssumption == MaxSaid \in Nat /\ MaxId \in Nat /\ MaxEpoch \in Nat

VARIABLES
  present,    \* the record exists
  rec,        \* the record: see Record
  said,       \* lines of the agent's transcript
  branch,     \* the shadow branch of the record's base commit exists
  store,      \* the checkpoints: see Checkpoint
  saved,      \* tasks stored, completed, in some checkpoint
  minted,     \* checkpoint IDs generated so far
  epoch,      \* restarts of the window (history): see Restart
  owed,       \* tasks that completed and were not discarded (history)
  stale,      \* a turn's checkpoint missed its final transcript (history)
  pc,         \* per worker: what it does next
  held,       \* per worker: the checkpoint ID it works for, 0 for none
  seen        \* per worker: held had a checkpoint before this commit

record == <<present, rec>>
durable == <<store, saved>>
workers == <<pc, held, seen>>
vars == <<record, said, branch, durable, minted, epoch, owed, stale, workers>>

Id == Nat \ {0}

Record ==
  [phase   : {"idle", "active", "ended"},
   endedAt : BOOLEAN,        \* EndedAt is set
   steps   : BOOLEAN,        \* StepCount > 0
   files   : BOOLEAN,        \* FilesTouched is not empty
   live    : SUBSET Task,    \* task records in flight
   done    : SUBSET Task,    \* task records completed
   start   : Nat,            \* CheckpointTranscriptStart
   attempt : Nat,            \* CondensationAttempt, 0 for none
   fully   : BOOLEAN,        \* FullyCondensed
   last    : Nat,            \* LastCheckpointID, 0 for none
   turn    : SUBSET Id]      \* TurnCheckpointIDs

(* The lines a checkpoint was condensed from are those after from, up to upto;
   full is the length of the transcript it holds.  reserved: the record had
   reserved its ID when it was written. *)
Checkpoint ==
  [id : Id, from : Nat, upto : Nat, full : Nat, epoch : Nat, reserved : BOOLEAN]

Fresh ==
  [phase |-> "idle", endedAt |-> FALSE, steps |-> FALSE, files |-> FALSE, live |-> {},
   done |-> {}, start |-> 0, attempt |-> 0, fully |-> FALSE, last |-> 0, turn |-> {}]

TypeOK ==
  /\ present \in BOOLEAN
  /\ rec \in Record
  /\ rec.steps => rec.files
  /\ said \in Nat /\ rec.start <= said
  /\ branch \in BOOLEAN
  /\ store \in SUBSET Checkpoint
  /\ \A c \in store : c.from <= c.upto /\ c.upto <= said /\ c.epoch <= epoch
  /\ \A c, d \in store : c.id = d.id => c = d
  /\ saved \in SUBSET Task /\ owed \in SUBSET Task
  /\ minted \in Nat /\ epoch \in Nat
  /\ stale \in BOOLEAN
  /\ pc \in [Worker -> {"idle", "late", "end", "read", "reserve", "condense",
                        "claim", "rescue", "discard", "commit", "post"}]
  /\ held \in [Worker -> Nat]
  /\ \A w \in Worker : pc[w] \in {"rescue", "commit", "post"} => held[w] # 0
  /\ seen \in [Worker -> BOOLEAN]

Init ==
  /\ present = FALSE
  /\ rec = Fresh
  /\ said = 0
  /\ branch = FALSE
  /\ store = {}
  /\ saved = {}
  /\ minted = 0
  /\ epoch = 0
  /\ owed = {}
  /\ stale = FALSE
  /\ pc = [w \in Worker |-> "idle"]
  /\ held = [w \in Worker |-> 0]
  /\ seen = [w \in Worker |-> FALSE]

-----------------------------------------------------------------------------
Ended == rec.phase = "ended"
IsEnded == Ended \/ rec.endedAt
Tasks == rec.live \cup rec.done          \* HasTaskContent
Content == rec.steps \/ Tasks # {}       \* hasEagerCondensationContent
Stored == {c.id : c \in store}

Goto(w, step) == pc' = [pc EXCEPT ![w] = step]
Hold(w, i) == held' = [held EXCEPT ![w] = i]
Leave(w) ==
  /\ Goto(w, "idle")
  /\ Hold(w, 0)
  /\ seen' = [seen EXCEPT ![w] = FALSE]

(* The window starts again from an earlier line: files are carried forward to
   the next commit, the record is deleted, or a reservation is given up. *)
Restart == epoch < MaxEpoch /\ epoch' = epoch + 1

(* A variant of Reserve: a retry does not look for the ID reserved before. *)
ReserveAfresh(i) == minted < MaxId /\ i = minted + 1 /\ minted' = i

(* ensureCondensationAttemptID: the pending ID, or one that was never used. *)
Reserve(i) ==
  \/ rec.attempt # 0 /\ i = rec.attempt /\ UNCHANGED minted
  \/ rec.attempt = 0 /\ minted < MaxId /\ i = minted + 1 /\ minted' = i

(* ClearCondensationAttempt where no checkpoint was written. *)
GiveUp == IF rec.attempt = 0 THEN UNCHANGED epoch ELSE Restart

(* A record-bearing checkpoint with ID i replaces the one stored under i; task
   directories only accumulate. *)
WriteCheckpoint(i) ==
  /\ store' = {c \in store : c.id # i} \cup
       {[id |-> i, from |-> rec.start, upto |-> said, full |-> said,
         epoch |-> epoch, reserved |-> rec.attempt = i]}
  /\ saved' = saved \cup rec.done

(* resetCheckpointWindow, and the start of the next window. *)
Condensed(i) ==
  [rec EXCEPT !.steps = FALSE, !.done = {}, !.attempt = 0, !.start = said, !.last = i]

Forget ==
  /\ present' = FALSE
  /\ rec' = Fresh
  /\ Restart

-----------------------------------------------------------------------------
(* Variants of the definitions below with a plausible bug each.  Nothing uses
   them; substituting one for its definition must break a property. *)

(* The next window is moved also when the turn made no checkpoint. *)
TurnEndAlwaysAdvances ==
  /\ present
  /\ rec' = [rec EXCEPT
               !.phase = IF Ended THEN "ended" ELSE "idle", !.turn = {}, !.start = said]
  /\ stale' = (stale \/ rec.turn # {})
  /\ UNCHANGED <<present, said, branch, durable, minted, epoch, owed, workers>>

(* Only the shadow branch counts as something to store. *)
SalvageableByBranch == rec.steps /\ branch
DoctorClearsRecords(w) ==
  /\ pc[w] = "rescue" /\ present /\ rec.attempt = held[w]
  /\ ~branch
  /\ Forget
  /\ Leave(w)
  /\ UNCHANGED <<said, branch, durable, minted, owed, stale>>

(* A commit clears the files, but not the count of steps. *)
CommittedWithSteps(w) ==
  [Condensed(held[w]) EXCEPT !.files = FALSE, !.steps = TRUE]

-----------------------------------------------------------------------------
(***************************************************************************)
(* The agent.                                                              *)
(***************************************************************************)

(* A prompt starts a turn; a record that does not exist is created. *)
TurnStart ==
  /\ said < MaxSaid
  /\ said' = said + 1
  /\ present' = TRUE
  /\ rec' = [rec EXCEPT !.phase = "active", !.endedAt = @ /\ ~Ended,
                        !.fully = @ /\ ~Ended, !.last = 0, !.turn = {}]
  /\ UNCHANGED <<branch, durable, minted, epoch, owed, stale, workers>>

(* The agent reopens an ended session. *)
SessionStart ==
  /\ present /\ Ended
  /\ rec' = [rec EXCEPT !.phase = "idle", !.endedAt = FALSE, !.fully = FALSE]
  /\ UNCHANGED <<present, said, branch, durable, minted, epoch, owed, stale, workers>>

Talk ==
  /\ present /\ rec.phase = "active"
  /\ said < MaxSaid
  /\ said' = said + 1
  /\ UNCHANGED <<record, branch, durable, minted, epoch, owed, stale, workers>>

(* A tool-use hook reports the files it changed, in any phase. *)
RecordFilesTouched ==
  /\ present
  /\ rec' = [rec EXCEPT !.files = TRUE]
  /\ UNCHANGED <<present, said, branch, durable, minted, epoch, owed, stale, workers>>

(* A step is saved at the end of a turn in which files changed.  The hook that
   does it may run late: SaveStep does not look at the phase. *)
SaveStep ==
  /\ present
  /\ rec' = [rec EXCEPT !.steps = TRUE, !.files = TRUE]
  /\ branch' = TRUE
  /\ UNCHANGED <<present, said, durable, minted, epoch, owed, stale, workers>>

(* The transcripts of the turn's checkpoints are brought up to date, and the
   next window starts where the turn ended, also when some of them could not
   be, unless the end of the transcript is not known. *)
TurnEnd ==
  /\ present
  /\ \E final \in SUBSET rec.turn, kept \in {{}, rec.turn}, known \in BOOLEAN :
       /\ kept # {} => final = {}
       /\ store' = {IF c.id \in final THEN [c EXCEPT !.full = said] ELSE c : c \in store}
       /\ stale' = (stale \/ final # rec.turn)
       /\ rec' = [rec EXCEPT
                    !.phase = IF Ended THEN "ended" ELSE "idle",
                    !.turn = kept,
                    !.start = IF known /\ rec.turn # {} /\ ~rec.files THEN said ELSE @]
  /\ UNCHANGED <<present, said, branch, saved, minted, epoch, owed, workers>>

(* EnsureTaskRecord.  A task stands for one run of a subagent. *)
TaskStart(t) ==
  /\ present
  /\ t \notin Tasks \cup saved
  /\ rec' = [rec EXCEPT !.live = @ \cup {t}]
  /\ UNCHANGED <<present, said, branch, durable, minted, epoch, owed, stale, workers>>

(* CompleteTaskRecord: exactly once, with the files the subagent changed. *)
CompleteTask(t) ==
  /\ present /\ t \in rec.live
  /\ \E f \in BOOLEAN :
       rec' = [rec EXCEPT !.live = @ \ {t}, !.done = @ \cup {t}, !.files = @ \/ f]
  /\ owed' = owed \cup {t}
  /\ UNCHANGED <<present, said, branch, durable, minted, epoch, stale>>

(* A subagent stops.  Its hook then looks at the session's phase once more. *)
SubagentStops(w, t) ==
  /\ pc[w] = "idle"
  /\ CompleteTask(t)
  /\ Goto(w, "late")
  /\ UNCHANGED <<held, seen>>

SubagentStopReloads(w) ==
  /\ pc[w] = "late"
  /\ IF present /\ Ended THEN Goto(w, "read") /\ UNCHANGED <<held, seen>> ELSE Leave(w)
  /\ UNCHANGED <<record, said, branch, durable, minted, epoch, owed, stale>>

-----------------------------------------------------------------------------
(***************************************************************************)
(* The end of the session.                                                 *)
(***************************************************************************)

(* The hook of the agent's exit, or the sweep that finds the agent gone. *)
SessionEnds(w) ==
  /\ pc[w] = "idle"
  /\ present
  /\ Goto(w, "end")
  /\ UNCHANGED <<record, said, branch, durable, minted, epoch, owed, stale, held, seen>>

(* Tasks in flight are completed first, as far as that succeeds. *)
CompletesLiveTask(w, t) ==
  /\ pc[w] = "end"
  /\ CompleteTask(t)
  /\ UNCHANGED workers

(* The record is marked ended; in the same frame an ID is reserved for what is
   left to store, unless files wait for a commit. *)
MarksEnded(w) ==
  /\ pc[w] = "end"
  /\ present
  /\ IF rec.files
     THEN rec' = [rec EXCEPT !.phase = "ended", !.endedAt = TRUE] /\ UNCHANGED <<minted, epoch>>
     ELSE IF ~Content
     THEN /\ rec' = [rec EXCEPT
                       !.phase = "ended", !.endedAt = TRUE, !.fully = TRUE, !.attempt = 0]
          /\ GiveUp
          /\ UNCHANGED minted
     ELSE /\ \E i \in 1..MaxId :
               /\ Reserve(i)
               /\ rec' = [rec EXCEPT !.phase = "ended", !.endedAt = TRUE, !.attempt = i]
          /\ UNCHANGED epoch
  /\ Goto(w, "read")
  /\ UNCHANGED <<present, said, branch, durable, owed, stale, held, seen>>

(* Eager condensation first reads the record without the gate. *)
EagerReads(w) ==
  /\ pc[w] = "read"
  /\ IF ~present \/ rec.files \/ (rec.fully /\ ~Content)
     THEN Leave(w)
     ELSE /\ Goto(w, IF rec.attempt # 0 THEN "condense" ELSE "reserve")
          /\ UNCHANGED <<held, seen>>
  /\ UNCHANGED <<record, said, branch, durable, minted, epoch, owed, stale>>

(* prepareEagerCondensation: files wait for a commit, or there is nothing to
   store, or there is. *)
EagerMayRun == present /\ ~rec.files
NothingLeft == ~Content \/ (~branch /\ Tasks = {})

EagerFinishes(w) ==
  /\ pc[w] \in {"reserve", "condense"}
  /\ EagerMayRun /\ NothingLeft
  /\ rec' = [rec EXCEPT !.steps = FALSE, !.fully = TRUE, !.attempt = 0]
  /\ GiveUp
  /\ Leave(w)
  /\ UNCHANGED <<present, said, branch, durable, minted, owed, stale>>

EagerReserves(w) ==
  /\ pc[w] = "reserve"
  /\ EagerMayRun /\ ~NothingLeft
  /\ \E i \in 1..MaxId : Reserve(i) /\ rec' = [rec EXCEPT !.attempt = i]
  /\ Goto(w, "condense")
  /\ UNCHANGED <<present, said, branch, durable, epoch, owed, stale, held, seen>>

EagerCanWrite(w) ==
  pc[w] = "condense" /\ EagerMayRun /\ ~NothingLeft /\ rec.attempt # 0

(* The reserved checkpoint is written and the record saved.  The frame checks
   what there is to store, not the phase. *)
EagerCondenses(w) ==
  /\ EagerCanWrite(w)
  /\ WriteCheckpoint(rec.attempt)
  /\ rec' = [Condensed(rec.attempt) EXCEPT !.fully = TRUE]
  /\ Leave(w)
  /\ UNCHANGED <<present, said, branch, minted, epoch, owed, stale>>

EagerDeclines(w) ==
  /\ \/ pc[w] \in {"reserve", "condense"} /\ ~EagerMayRun
     \/ pc[w] = "condense" /\ EagerMayRun /\ ~NothingLeft /\ rec.attempt = 0
  /\ Leave(w)
  /\ UNCHANGED <<record, said, branch, durable, minted, epoch, owed, stale>>

-----------------------------------------------------------------------------
(***************************************************************************)
(* Doctor, and the background sweep.                                       *)
(***************************************************************************)

(* canCondenseStuckSession, IsCondensableEndedSession *)
Salvageable == Tasks # {} \/ (rec.steps /\ branch)

(* Doctor goes by a record it read without the gate: an ended session that is
   not fully condensed, or another one that was quiet for long or lost its
   agent, which is not modelled and may be so at any time. *)
DoctorPicks(w) ==
  /\ pc[w] = "idle"
  /\ present /\ Salvageable
  /\ ~(Ended /\ rec.fully)
  /\ Goto(w, "claim")
  /\ UNCHANGED <<record, said, branch, durable, minted, epoch, owed, stale, held, seen>>

DoctorReserves(w) ==
  /\ pc[w] = "claim"
  /\ present
  /\ \E i \in 1..MaxId : Reserve(i) /\ rec' = [rec EXCEPT !.attempt = i] /\ Hold(w, i)
  /\ Goto(w, "rescue")
  /\ UNCHANGED <<present, said, branch, durable, epoch, owed, stale, seen>>

DoctorHoldsIt(w) == pc[w] = "rescue" /\ present /\ rec.attempt = held[w]
DoctorCanWrite(w) == DoctorHoldsIt(w) /\ (branch \/ Tasks # {})

(* The phase is set, EndedAt is left as it was. *)
DoctorCondenses(w) ==
  /\ DoctorCanWrite(w)
  /\ WriteCheckpoint(held[w])
  /\ rec' = [Condensed(held[w]) EXCEPT !.phase = "idle"]
  /\ Leave(w)
  /\ UNCHANGED <<present, said, branch, minted, epoch, owed, stale>>

(* Nothing to condense from: the record is deleted, inside the frame. *)
DoctorClears(w) ==
  /\ DoctorHoldsIt(w)
  /\ ~branch /\ Tasks = {}
  /\ Forget
  /\ Leave(w)
  /\ UNCHANGED <<said, branch, durable, minted, owed, stale>>

DoctorDeclines(w) ==
  /\ pc[w] = "rescue" /\ present /\ rec.attempt # held[w]
  /\ Leave(w)
  /\ UNCHANGED <<record, said, branch, durable, minted, epoch, owed, stale>>

(* doctor --force discards what it cannot condense. *)
DoctorRejects(w) ==
  /\ pc[w] = "idle"
  /\ present /\ ~Salvageable /\ ~Ended
  /\ Goto(w, "discard")
  /\ UNCHANGED <<record, said, branch, durable, minted, epoch, owed, stale, held, seen>>

DoctorDiscards(w) ==
  /\ pc[w] = "discard"
  /\ present
  /\ Forget
  /\ owed' = owed \ rec.done
  /\ branch' \in {branch, FALSE}
  /\ Leave(w)
  /\ UNCHANGED <<said, durable, minted, stale>>

(* The frame of doctor's, or of the session's end, finds no record. *)
FindsNoRecord(w) ==
  /\ pc[w] \in {"end", "claim", "rescue", "discard"}
  /\ ~present
  /\ Leave(w)
  /\ UNCHANGED <<record, said, branch, durable, minted, epoch, owed, stale>>

(* Any hook that lists the sessions deletes a record it takes for an orphan
   (SessionBypass is about the lock it does not take). *)
Orphaned == IsEnded /\ rec.last = 0 /\ Tasks = {}

ClearOrphan ==
  /\ present
  /\ Orphaned /\ ~branch
  /\ Forget
  /\ UNCHANGED <<said, branch, durable, minted, owed, stale, workers>>

-----------------------------------------------------------------------------
(***************************************************************************)
(* A commit.                                                               *)
(***************************************************************************)

(* prepare-commit-msg puts an ID into the commit message: a new one, the one
   the record has reserved, or, on an amend, the one the message has.  With
   several sessions the ID may come from another one of them. *)
Prepare(w) ==
  /\ pc[w] = "idle"
  /\ present
  /\ \/ minted < MaxId /\ minted' = minted + 1 /\ Hold(w, minted + 1)
     \/ \E i \in Stored \cup ({rec.attempt, rec.last} \ {0}) : Hold(w, i) /\ UNCHANGED minted
  /\ Goto(w, "commit")
  /\ UNCHANGED <<record, said, branch, durable, epoch, owed, stale, seen>>

(* post-commit notes whether the checkpoint already exists, and leaves out
   sessions that are closed. *)
Target(w) ==
  /\ pc[w] = "commit"
  /\ IF ~present \/ (Ended /\ rec.fully)
     THEN Leave(w)
     ELSE /\ seen' = [seen EXCEPT ![w] = held[w] \in Stored]
          /\ Goto(w, "post")
          /\ UNCHANGED held
  /\ UNCHANGED <<record, said, branch, durable, minted, epoch, owed, stale>>

(* An interrupted condensation under another ID is left alone. *)
Interrupted(w) == rec.attempt # 0 /\ rec.attempt # held[w]

(* stampedByAnotherCommit *)
Foreign(w) == seen[w] /\ held[w] # rec.last /\ held[w] # rec.attempt

CommitCanWrite(w) ==
  /\ pc[w] = "post"
  /\ present
  /\ ~Interrupted(w) /\ ~Foreign(w)
  /\ \/ rec.phase = "active"
     \/ rec.phase = "idle" /\ (rec.files \/ rec.live # {})
     \/ Ended /\ rec.files

(* What every condensation into a commit leaves; the base commit moves on, so
   the old shadow branch is no longer the record's. *)
Committed(w) ==
  [Condensed(held[w]) EXCEPT
     !.files = FALSE,
     !.turn = IF rec.phase = "active" THEN @ \cup {held[w]} ELSE @]

CommitCondenses(w) ==
  /\ CommitCanWrite(w)
  /\ WriteCheckpoint(held[w])
  /\ rec' = [Committed(w) EXCEPT !.fully = @ \/ Ended]
  /\ branch' = FALSE
  /\ Leave(w)
  /\ UNCHANGED <<present, said, minted, epoch, owed, stale>>

(* Files that were not committed are carried forward to a new shadow branch,
   and the next checkpoint starts from the first line again. *)
CommitCarries(w) ==
  /\ CommitCanWrite(w)
  /\ rec.files \/ rec.phase = "active"
  /\ WriteCheckpoint(held[w])
  /\ rec' = [Committed(w) EXCEPT !.files = TRUE, !.steps = TRUE, !.start = 0, !.last = 0]
  /\ Restart
  /\ branch' = TRUE
  /\ Leave(w)
  /\ UNCHANGED <<present, said, minted, owed, stale>>

(* The same, but the new shadow branch could not be written. *)
CommitFailsToCarry(w) ==
  /\ CommitCanWrite(w)
  /\ rec.files \/ rec.phase = "active"
  /\ WriteCheckpoint(held[w])
  /\ rec' = [Committed(w) EXCEPT !.files = TRUE]
  /\ branch' = FALSE
  /\ Leave(w)
  /\ UNCHANGED <<present, said, minted, epoch, owed, stale>>

(* The session takes no part in this commit, or its condensation failed.  An
   active session moves to the new base commit; an ended one without anything
   new is closed. *)
CommitPasses(w) ==
  /\ pc[w] = "post"
  /\ \/ UNCHANGED record /\ branch' \in {branch} \cup
          (IF present /\ ~Interrupted(w) /\ rec.phase = "active" THEN {FALSE} ELSE {})
     \/ /\ present /\ ~Interrupted(w)
        /\ Ended /\ ~rec.files /\ Tasks = {}
        /\ rec' = [rec EXCEPT !.fully = TRUE]
        /\ UNCHANGED <<present, branch>>
  /\ Leave(w)
  /\ UNCHANGED <<said, durable, minted, epoch, owed, stale>>

-----------------------------------------------------------------------------
(***************************************************************************)
(* Failures and the other sessions.                                        *)
(***************************************************************************)

(* The checkpoint is written, but the record is not saved. *)
DiesAfterWrite(w) ==
  /\ \/ EagerCanWrite(w) /\ WriteCheckpoint(rec.attempt)
     \/ DoctorCanWrite(w) /\ WriteCheckpoint(held[w])
     \/ CommitCanWrite(w) /\ WriteCheckpoint(held[w])
  /\ Leave(w)
  /\ UNCHANGED <<record, said, branch, minted, epoch, owed, stale>>

(* The process is killed, or gives up because a step failed. *)
Stops(w) ==
  /\ pc[w] # "idle"
  /\ Leave(w)
  /\ UNCHANGED <<record, said, branch, durable, minted, epoch, owed, stale>>

(* The shadow branch is shared: other sessions save steps on it, and whoever has
   condensed a session deletes it, outside the gate, unless some other session
   has steps on it. *)
BranchChanges ==
  /\ branch' = ~branch
  /\ UNCHANGED <<record, said, durable, minted, epoch, owed, stale, workers>>

-----------------------------------------------------------------------------
AgentWorks ==
  TurnStart \/ SessionStart \/ Talk \/ RecordFilesTouched \/ SaveStep \/ TurnEnd

Agent == AgentWorks \/ \E t \in Task : TaskStart(t)

(* A worker takes something on ... *)
Begins(w) ==
  \/ \E t \in Task : SubagentStops(w, t)
  \/ SessionEnds(w)
  \/ DoctorPicks(w) \/ DoctorRejects(w)
  \/ Prepare(w)

(* ... and goes on with it, until it is done or stops. *)
Continues(w) ==
  \/ SubagentStopReloads(w)
  \/ \E t \in Task : CompletesLiveTask(w, t)
  \/ MarksEnded(w)
  \/ EagerReads(w) \/ EagerReserves(w) \/ EagerCondenses(w)
  \/ EagerFinishes(w) \/ EagerDeclines(w)
  \/ DoctorReserves(w) \/ DoctorCondenses(w) \/ DoctorClears(w)
  \/ DoctorDeclines(w) \/ DoctorDiscards(w) \/ FindsNoRecord(w)
  \/ Target(w) \/ CommitCondenses(w) \/ CommitCarries(w)
  \/ CommitFailsToCarry(w) \/ CommitPasses(w)
  \/ DiesAfterWrite(w) \/ Stops(w)

Next ==
  \/ Agent
  \/ \E w \in Worker : Begins(w) \/ Continues(w)
  \/ ClearOrphan \/ BranchChanges

Spec == Init /\ [][Next]_vars

(* A session's end is handled in order: subagents start in a running turn, none
   is in flight when the session is marked ended, and no session that was resumed
   in the meantime is marked fully condensed. *)
InOrder ==
  /\ ~Ended /\ rec'.phase = "ended" => rec.live = {}
  /\ rec'.fully => rec'.phase = "ended"

OrderlyNext ==
  \/ AgentWorks
  \/ rec.phase = "active" /\ \E t \in Task : TaskStart(t)
  \/ \E w \in Worker : Begins(w) \/ (Continues(w) /\ InOrder)
  \/ ClearOrphan \/ BranchChanges

(* Every process ends; sweeps and doctor come again; and what they attempt
   again and again succeeds at some point. *)
Fairness ==
  /\ \A w \in Worker : WF_vars(Continues(w))
  /\ SF_vars(\E w \in Worker : DoctorPicks(w))
  /\ SF_vars(\E w \in Worker : DoctorReserves(w))
  /\ SF_vars(\E w \in Worker : DoctorCondenses(w))

OrderlySpec == Init /\ [][OrderlyNext]_vars /\ Fairness

-----------------------------------------------------------------------------
(***************************************************************************)
(* Properties.                                                             *)
(***************************************************************************)

(* A subagent task that completed is still in the record or stored in a
   checkpoint, whatever died, raced or was cleared, unless doctor discarded
   the session. *)
TasksKept == owed \subseteq rec.done \cup saved

(* What lies before the start of the next window is in some checkpoint; a
   checkpoint that was not brought up to date at the end of its turn is the
   exception: TurnEnd moves the start all the same. *)
StartIsStored == stale \/ rec.start = 0 \/ \E c \in store : rec.start <= c.full

(* Two checkpoints written under a reservation do not cover the same lines,
   unless the window was restarted in between: a condensation that died after
   its write is repeated under the ID it had reserved. *)
Apart(c, d) == c.upto <= d.from \/ d.upto <= c.from

OneCheckpointPerWindow ==
  \A c, d \in store :
    c # d /\ c.reserved /\ d.reserved /\ c.epoch = d.epoch => Apart(c, d)

(* The invariant behind it: a checkpoint that reaches into the record's window
   is the one whose ID the record has reserved. *)
AttemptCoversOrphan ==
  \A c \in store :
    c.reserved /\ c.epoch = epoch /\ rec.start < c.upto => rec.attempt = c.id

(* A task that completed is stored in a checkpoint at some point after its
   session ended, unless the session is resumed or discarded first. *)
NoIdLeft == minted = MaxId /\ rec.attempt = 0     \* the bound is reached

TasksReachCheckpoint ==
  \A t \in Task :
    (present /\ Ended /\ t \in rec.done)
      ~> (t \in saved \/ ~present \/ ~Ended \/ NoIdLeft)

(* When a condensation did not succeed and nothing works on the session any
   more, an ended session that holds a completed task and a reserved ID can be
   picked by doctor. *)
PendingIsRetryable ==
  Ended /\ rec.attempt # 0 /\ rec.done # {} /\ (\A w \in Worker : pc[w] = "idle")
    => ~rec.fully

(* Only a session that is over is taken for an orphan. *)
OnlyEndedAreOrphaned == present /\ Orphaned => Ended

=============================================================================
