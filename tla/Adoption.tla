------------------------------ MODULE Adoption ------------------------------
(***************************************************************************)
(* `entire session adopt`: moving a running session's record from one      *)
(* repository's session store to another's (session_adopt.go,              *)
(* strategy/session_state.go), beside the hooks of the agent in either     *)
(* repository (strategy/manual_commit_hooks.go, lifecycle.go) and          *)
(* `entire session attach` (attach.go).                                    *)
(*                                                                         *)
(* One session.  Each repository keeps its own record of it, guarded by    *)
(* its own flock.  A hook's read, change and save happen under that flock  *)
(* and are one step here, which SessionGate shows they amount to.          *)
(* Adoption holds the flocks of both repositories over its two saves.      *)
(* Attach holds neither.                                                   *)
(*                                                                         *)
(* Left out: choosing the session among several, transcript checks, which  *)
(* worktree of its repository a record belongs to, steps and touched files *)
(* (adoption starts them over), what is redone when HEAD moved.            *)
(***************************************************************************)
EXTENDS Naturals

CONSTANTS
  Store,      \* repositories, by the path of their git directory
  Adopter,    \* runs of the adopt command
  Task,       \* what a session accumulates and adoption carries over
  None,       \* no record
  MaxAdopt,   \* bound: adoptions begun
  MaxAttach   \* bound: attaches begun

(* Paths are compared as strings, so they are totally ordered. *)
ASSUME StoreAssumption == Store \subseteq Nat /\ Store # {}
ASSUME BoundAssumption == MaxAdopt \in Nat /\ MaxAttach \in Nat

(* away is a set AdoptedIntoWorktreePath; an ended record is one whose phase
   is ended, EndedAt set or which is fully condensed. *)
Record ==
  [phase : {"idle", "active", "ended"}, away : BOOLEAN, tasks : SUBSET Task]

ASSUME NoneAssumption == None \notin Record

Slot == Record \cup {None}

(* An adopter has loaded copy from its source and found prev in its target;
   struck is a history: an attach saved one of the two since. *)
Run ==
  [pc     : {"idle", "first", "second", "load", "save", "retire", "undo", "release"},
   from   : Store, to : Store, force : BOOLEAN,
   copy   : Slot, prev : Slot, struck : BOOLEAN]

VARIABLES
  record,     \* per store: its record of the session
  lock,       \* per store: the adopter that holds its flock, or None
  run,        \* per adopter: what it is doing
  starting,   \* per store: a turn-start hook that found no record
  attach,     \* per store: what an attach read there, while one is under way
  stale,      \* per store: nobody touched its record for a week
  apart,      \* history: the session was made live twice other than by adoption
  adopts,     \* adoptions begun
  attaches    \* attaches begun

vars == <<record, lock, run, starting, attach, stale, apart, adopts, attaches>>

ASSUME LockAssumption == None \notin Adopter

Attached == [reading : BOOLEAN, saw : Slot]
NoAttach == [reading |-> FALSE, saw |-> None]

(* isAdoptableSourceSession *)
Live(r) == r # None /\ r.phase # "ended"

(* A hand-over happens between two stores whose locks the adopter holds. *)
LocksHeld ==
  \A a \in Adopter :
    run[a].pc \in {"load", "save", "retire", "undo"} =>
      /\ run[a].from # run[a].to
      /\ lock[run[a].from] = a /\ lock[run[a].to] = a
      /\ run[a].pc # "load" => Live(run[a].copy)

TypeOK ==
  /\ record \in [Store -> Slot]
  /\ lock \in [Store -> Adopter \cup {None}]
  /\ run \in [Adopter -> Run]
  /\ starting \in [Store -> {"no", "create", "begin"}]
  /\ attach \in [Store -> Attached]
  /\ stale \in [Store -> BOOLEAN]
  /\ apart \in BOOLEAN
  /\ adopts \in 0..MaxAdopt /\ attaches \in 0..MaxAttach
  /\ LocksHeld

(* At rest an adopter's other fields mean nothing. *)
Rest ==
  LET s == CHOOSE s \in Store : TRUE
  IN  [pc |-> "idle", from |-> s, to |-> s, force |-> FALSE,
       copy |-> None, prev |-> None, struck |-> FALSE]

Init ==
  /\ record = [s \in Store |-> None]
  /\ lock = [s \in Store |-> None]
  /\ run = [a \in Adopter |-> Rest]
  /\ starting = [s \in Store |-> "no"]
  /\ attach = [s \in Store |-> NoAttach]
  /\ stale = [s \in Store |-> FALSE]
  /\ apart = FALSE
  /\ adopts = 0 /\ attaches = 0

-----------------------------------------------------------------------------
(* buildAdoptedSessionState, retireAdoptedSourceSession *)
Arrived(r) == [phase |-> "active", away |-> FALSE, tasks |-> r.tasks]
Departed(r) == [phase |-> "ended", away |-> TRUE, tasks |-> r.tasks]

Fresh == [phase |-> "idle", away |-> FALSE, tasks |-> {}]

(* Between the save of the target and the end of the hand-over. *)
InWindow(a) == run[a].pc \in {"retire", "undo"}
Handing(a) == run[a].pc \in {"save", "retire", "undo"}

(* What an attach has struck of the hand-overs. *)
Struck(a) == Handing(a) /\ run[a].struck
HandOver(a) == [from |-> run[a].from, to |-> run[a].to, copy |-> run[a].copy, prev |-> run[a].prev]
split == {HandOver(a) : a \in {b \in Adopter : Struck(b)}}

(* The records as they stand apart from a hand-over under way: until the source
   is retired its target counts as not yet written, unless an attach struck. *)
Hidden(a) == InWindow(a) /\ ~run[a].struck
view ==
  [s \in Store |->
    IF \E a \in Adopter : Hidden(a) /\ run[a].to = s
    THEN run[CHOOSE a \in Adopter : Hidden(a) /\ run[a].to = s].prev
    ELSE record[s]]

TwoLive == \E s, t \in Store : s # t /\ Live(view[s]) /\ Live(view[t])

(* What a step does to the history: it may have made a second live record
   itself, or leaves things as they were until only one is live again.  What a
   struck hand-over does is the attach's doing.  A session that begins again
   where it ended is live there a second time; where it was adopted away from,
   it has no business to be. *)
Parts == apart' = TwoLive'
Keeps == apart' = ((apart \/ split # {}) /\ TwoLive')
Reopens(s) == IF record[s].away THEN Keeps ELSE Parts

-----------------------------------------------------------------------------
(* The agent's hooks in the repository of store s.  Each takes the gate, hence
   finds the flock free. *)

Free(s) == lock[s] = None

Frame(s, r) ==
  /\ Free(s) /\ ~stale[s]
  /\ record' = [record EXCEPT ![s] = r]
  /\ UNCHANGED <<lock, run, attach, stale, adopts, attaches>>

(* Variant: tombstones are not skipped. *)
TurnStartsAnyway(s) ==
  /\ record[s] # None
  /\ Frame(s, [record[s] EXCEPT !.phase = "active"])
  /\ UNCHANGED starting
  /\ Reopens(s)

(* InitializeSession on a record that is there: tombstones are skipped. *)
TurnStarts(s) ==
  /\ record[s] # None /\ ~record[s].away
  /\ Frame(s, [record[s] EXCEPT !.phase = "active"])
  /\ UNCHANGED starting
  /\ Reopens(s)

(* No record: the hook leaves the gate and goes on to create one. *)
TurnFindsNone(s) ==
  /\ Free(s) /\ record[s] = None /\ starting[s] = "no"
  /\ starting' = [starting EXCEPT ![s] = "create"]
  /\ UNCHANGED <<record, lock, run, attach, stale, apart, adopts, attaches>>

(* initializeSession looks again under the gate and leaves a record alone. *)
TurnCreates(s) ==
  /\ starting[s] = "create"
  /\ Frame(s, IF record[s] = None THEN Fresh ELSE record[s])
  /\ starting' = [starting EXCEPT ![s] = "begin"]
  /\ Parts

(* The second frame starts the turn on whatever record it finds, a tombstone
   included. *)
TurnBegins(s) ==
  /\ starting[s] = "begin"
  /\ Frame(s, IF record[s] = None THEN None ELSE [record[s] EXCEPT !.phase = "active"])
  /\ starting' = [starting EXCEPT ![s] = "no"]
  /\ Parts

TurnAborts(s) ==
  /\ starting[s] # "no"
  /\ starting' = [starting EXCEPT ![s] = "no"]
  /\ UNCHANGED <<record, lock, run, attach, stale, apart, adopts, attaches>>

(* The session-start event reopens an ended record that is not a tombstone. *)
SessionStarts(s) ==
  /\ record[s] # None /\ ~record[s].away /\ record[s].phase = "ended"
  /\ Frame(s, [record[s] EXCEPT !.phase = "idle"])
  /\ UNCHANGED starting
  /\ Reopens(s)

TurnEnds(s) ==
  /\ record[s] # None /\ record[s].phase = "active"
  /\ Frame(s, [record[s] EXCEPT !.phase = "idle"])
  /\ UNCHANGED starting
  /\ Keeps

SessionStops(s) ==
  /\ record[s] # None
  /\ Frame(s, [record[s] EXCEPT !.phase = "ended"])
  /\ UNCHANGED starting
  /\ Keeps

(* A subagent is recorded, in a tombstone too. *)
RecordsTask(s, x) ==
  /\ record[s] # None
  /\ Frame(s, [record[s] EXCEPT !.tasks = @ \cup {x}])
  /\ UNCHANGED starting
  /\ Keeps

(* A week passes; no command takes one. *)
Ages(s) ==
  /\ record[s] # None
  /\ \A a \in Adopter : run[a].pc = "idle"
  /\ \A u \in Store : starting[u] = "no" /\ ~attach[u].reading
  /\ stale' = [stale EXCEPT ![s] = TRUE]
  /\ UNCHANGED <<record, lock, run, starting, attach, apart, adopts, attaches>>

(* The next load, whoever's it is, deletes the record instead of returning it. *)
Expires(s) ==
  /\ stale[s]
  /\ record' = [record EXCEPT ![s] = None]
  /\ stale' = [stale EXCEPT ![s] = FALSE]
  /\ UNCHANGED <<lock, run, starting, attach, adopts, attaches>>
  /\ Keeps

-----------------------------------------------------------------------------
(* The adopt command. *)

Turn(a, pc) == run' = [run EXCEPT ![a].pc = pc]

(* The hand-over is over, one way or another; its locks are still held. *)
Finish(a) == run' = [run EXCEPT ![a] = [Rest EXCEPT !.pc = "release"]]

(* Variant: the lock files are removed, whoever holds them. *)
UnlockedForAll(a) == [s \in Store |-> None]

Unlocked(a) == [s \in Store |-> IF lock[s] = a THEN None ELSE lock[s]]

HooksRest == UNCHANGED <<starting, attach, stale, attaches>>

(* selectAdoptSourceSession reads the source without a lock; only the session's
   name is kept of it. *)
Selects(a, f, t) ==
  /\ run[a].pc = "idle" /\ adopts < MaxAdopt
  /\ f # t /\ Live(record[f]) /\ ~stale[f]
  /\ \E force \in BOOLEAN :
       run' = [run EXCEPT ![a] = [Rest EXCEPT !.pc = "first", !.from = f, !.to = t, !.force = force]]
  /\ adopts' = adopts + 1
  /\ UNCHANGED <<record, lock, apart>> /\ HooksRest

(* Variant: the source is locked first. *)
SourceLock(a) == run[a].from

(* WithSessionStateLocks: in the order of the paths, whichever is the source. *)
FirstLock(a) == IF run[a].from < run[a].to THEN run[a].from ELSE run[a].to
SecondLock(a) == IF FirstLock(a) = run[a].from THEN run[a].to ELSE run[a].from

Acquires(a, s, pc) ==
  /\ Free(s)
  /\ lock' = [lock EXCEPT ![s] = a]
  /\ Turn(a, pc)
  /\ UNCHANGED <<record, apart, adopts>> /\ HooksRest

AcquiresFirst(a) == run[a].pc = "first" /\ Acquires(a, FirstLock(a), "second")
AcquiresSecond(a) == run[a].pc = "second" /\ Acquires(a, SecondLock(a), "load")

(* Releases what it holds; the kernel does so for a process that dies. *)
Leaves(a) ==
  /\ lock' = Unlocked(a)
  /\ run' = [run EXCEPT ![a] = Rest]
  /\ UNCHANGED <<record, adopts>> /\ HooksRest

(* Acquiring fails or is cancelled. *)
GivesUp(a) ==
  /\ run[a].pc \in {"first", "second"}
  /\ Leaves(a)
  /\ Keeps

(* Both stores are read again under both locks. *)
Adoptable(a) ==
  /\ Live(record[run[a].from])
  /\ record[run[a].to] # None => run[a].force

Loads(a) ==
  /\ run[a].pc = "load"
  /\ ~stale[run[a].from] /\ ~stale[run[a].to]
  /\ IF Adoptable(a)
     THEN run' = [run EXCEPT ![a] = [@ EXCEPT !.pc = "save", !.force = FALSE,
                                              !.copy = record[run[a].from], !.prev = record[run[a].to]]]
     ELSE Finish(a)
  /\ UNCHANGED <<record, lock, apart, adopts>> /\ HooksRest

SavesTarget(a) ==
  /\ run[a].pc = "save"
  /\ record' = [record EXCEPT ![run[a].to] = Arrived(run[a].copy)]
  /\ Turn(a, "retire")
  /\ UNCHANGED <<lock, adopts>> /\ HooksRest
  /\ Keeps

SaveFails(a) ==
  /\ run[a].pc = "save"
  /\ Finish(a)
  /\ UNCHANGED <<record, lock, adopts>> /\ HooksRest
  /\ Keeps

Retires(a) ==
  /\ run[a].pc = "retire"
  /\ record' = [record EXCEPT ![run[a].from] = Departed(run[a].copy)]
  /\ Finish(a)
  /\ UNCHANGED <<lock, adopts>> /\ HooksRest
  /\ Keeps

RetireFails(a) ==
  /\ run[a].pc = "retire"
  /\ Turn(a, "undo")
  /\ UNCHANGED <<record, lock, apart, adopts>> /\ HooksRest

(* Variant: the target is cleared, whatever was there before. *)
UndoesByClearing(a) ==
  /\ run[a].pc = "undo"
  /\ record' = [record EXCEPT ![run[a].to] = None]
  /\ Finish(a)
  /\ UNCHANGED <<lock, adopts>> /\ HooksRest
  /\ Keeps

(* rollbackExternalAdoptTarget: clears the target or saves what it was. *)
Undoes(a) ==
  /\ run[a].pc = "undo"
  /\ record' = [record EXCEPT ![run[a].to] = run[a].prev]
  /\ Finish(a)
  /\ UNCHANGED <<lock, adopts>> /\ HooksRest
  /\ Keeps

UndoFails(a) ==
  /\ run[a].pc = "undo"
  /\ Finish(a)
  /\ UNCHANGED <<record, lock, adopts>> /\ HooksRest
  /\ Parts

Releases(a) ==
  /\ run[a].pc = "release"
  /\ Leaves(a)
  /\ Keeps

Dies(a) ==
  /\ run[a].pc # "idle"
  /\ Leaves(a)
  /\ Parts

(* adoptFromSameSessionStore: between worktrees of one repository, one frame. *)
AdoptsInPlace(s) ==
  /\ Live(record[s])
  /\ Frame(s, Arrived(record[s]))
  /\ UNCHANGED starting
  /\ Keeps

-----------------------------------------------------------------------------
(* The attach command reads the record, condenses the transcript and saves the
   record it read, without the gate. *)

AttachReads(s) ==
  /\ ~attach[s].reading /\ attaches < MaxAttach /\ ~stale[s]
  /\ attach' = [attach EXCEPT ![s] = [reading |-> TRUE, saw |-> record[s]]]
  /\ attaches' = attaches + 1
  /\ UNCHANGED <<record, lock, run, starting, stale, apart, adopts>>

(* saveAttachSessionState: only an active session stays so. *)
Saved(r) ==
  IF r = None THEN [Fresh EXCEPT !.phase = "ended"]
  ELSE [r EXCEPT !.phase = IF r.phase = "active" THEN "active" ELSE "ended"]

AttachSaves(s) ==
  /\ attach[s].reading
  /\ record' = [record EXCEPT ![s] = Saved(attach[s].saw)]
  /\ attach' = [attach EXCEPT ![s] = NoAttach]
  /\ run' = [a \in Adopter |->
               [run[a] EXCEPT !.struck = @ \/ (Handing(a) /\ s \in {run[a].from, run[a].to})]]
  /\ UNCHANGED <<lock, starting, stale, adopts, attaches>>
  /\ Parts

AttachFails(s) ==
  /\ attach[s].reading
  /\ attach' = [attach EXCEPT ![s] = NoAttach]
  /\ UNCHANGED <<record, lock, run, starting, stale, apart, adopts, attaches>>

-----------------------------------------------------------------------------
Adopts(a) ==
  \/ AcquiresFirst(a) \/ AcquiresSecond(a) \/ Loads(a)
  \/ SavesTarget(a) \/ SaveFails(a) \/ Retires(a) \/ RetireFails(a)
  \/ Undoes(a) \/ UndoFails(a) \/ Releases(a) \/ GivesUp(a) \/ Dies(a)

Hooks(s) ==
  \/ TurnStarts(s) \/ TurnFindsNone(s) \/ TurnCreates(s) \/ TurnBegins(s) \/ TurnAborts(s)
  \/ SessionStarts(s) \/ TurnEnds(s) \/ SessionStops(s) \/ Ages(s) \/ Expires(s)
  \/ AdoptsInPlace(s)
  \/ AttachReads(s) \/ AttachSaves(s) \/ AttachFails(s)

Next ==
  \/ \E a \in Adopter : Adopts(a)
  \/ \E a \in Adopter, f, t \in Store : Selects(a, f, t)
  \/ \E s \in Store : Hooks(s)
  \/ \E s \in Store, x \in Task : RecordsTask(s, x)

Spec == Init /\ [][Next]_vars

-----------------------------------------------------------------------------
(* Adoption never leaves the session live in two repositories by itself:
   outside a hand-over, two live records come from a turn started there, an
   attach, or a hand-over killed or not undone (adoptFromExternalSessionStore
   retires the source under the locks it saved the target under). *)
OneHome == TwoLive => apart

(* Seen between hand-overs, adoption is one atomic move with all the session
   recorded; one that fails and is undone changes nothing; hooks wake no
   tombstone but in a turn that began without a record; and an attach saves
   only what it read (adoptFromExternalSessionStore,
   rollbackExternalAdoptTarget, InitializeSession). *)
Home == INSTANCE SessionHome WITH home <- view
ImplementsHome == Home!Spec

(* Two adoptions in opposite directions do not wait for each other
   (WithSessionStateLocks takes the locks in one order). *)
WaitsFor(a, b) == run[a].pc = "second" /\ lock[SecondLock(a)] = b
NoCircularWait == \A a, b \in Adopter : ~(WaitsFor(a, b) /\ WaitsFor(b, a))

=============================================================================
