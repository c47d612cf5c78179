# Formal models of entire-cli

Entire records what coding agents do in a repository. Agent hooks keep a *session* record per
agent conversation; git hooks condense the sessions behind a commit into a *checkpoint*; checkpoints
are pushed to a remote so that other machines can read them. There is no daemon: every hook and
command is a short-lived process, several run at once, any of them may be killed, and all of them
share state through files and git refs. This directory holds TLA+ models of that shared state, the
TLC runs that check them, and TLAPS proofs.

Paths below are relative to `src/cmd/entire/cli/`.

## 1. The system

| Part | State | Operations | Hard behaviour |
|---|---|---|---|
| Session state store and mutation gate (`session/state.go`, `strategy/session_state.go`) | `.git/entire-sessions/<id>.json`; one flock per session; per process an owner, a loaded copy and a queue of post-save effects | load, mutate, save, clear, initialise, nested mutate | hooks of one session in several processes and goroutines, reentrancy, deadlines, crashes, saves that fail |
| Advisory file lock (`internal/flock`) | a lock file's name and inode, the kernel's lock on the inode | open or create, lock, re-check, retry; removed by an uninstall | the name may lead elsewhere by the time the lock is granted |
| Session clean-up and lookup (`strategy/manual_commit_session.go`, `strategy/cleanup.go`) | the same files | sweep of orphans | some of these writers do not take the gate |
| Adoption and attach (`session_adopt.go`, `attach.go`) | the session files of two repositories, two flocks | hand a running session over, roll back; read, condense, save | two saves that cannot be one, hooks on both sides, an unlocked writer |
| Phase machine and hooks (`session/phase.go`, `lifecycle.go`, `strategy/manual_commit_hooks.go`) | the session's phase and pending work | turn start and end, commit, session start and stop, compaction | events in any order, missing ends, rebases |
| Condensation and recovery (`strategy/manual_commit_condensation*.go`) | the condensation attempt in the session record, the checkpoint | reserve, write, save, clean up, recover | a crash between two durable steps, repetition |
| Shadow branches (`checkpoint/ephemeral*.go`, `strategy/manual_commit_git.go`) | one local branch per base commit and worktree | save step, carry forward, rename to a new base, delete after a condensation, a reset or a push | branches shared by sessions; compare-and-swap races; renames and deletions that take no lock |
| Git-refs checkpoint store (`checkpoint/refs_store.go`, `checkpoint/persistent*.go`) | one ref per checkpoint, whose tree lists sessions in numbered directories | write, backfill, read, fetch on demand | two writers, several machines |
| Push queue and flush (`checkpoint/pushqueue.go`, `strategy/manual_commit_push.go`, `strategy/push_common.go`, `strategy/metadata_reconcile.go`) | a file of ref names | enqueue, drain, remove, rotate; push, fetch, replay, retry | divergence, lost answers, overlapping hooks, bounded retries |
| Routing, mirrors, migration (`checkpoint/routing_store.go`, `fanout.go`, `open.go`, `migrate.go`, `doctor_migrate.go`) | one checkpoint in two stores, the v1 branch and the refs | write by ID, backfill with fall-through, mirror, probe, import the branch | settings that change under a process, one step of several failing, a ref that is elsewhere |
| History rewrite (`strategy/manual_commit_opf_*.go`) | the queued refs | rewrite before a push | compare and swap against writers |
| Everything else | | agents, transcripts, redaction, presentation, setup, hosted services, plugins | sequential, pure or remote |

How they meet: a hook mutates the session record through the gate; post-commit condenses from
inside the gate into the checkpoint store, and between commits the session's steps are kept on its
shadow branch; the router picks the store by the checkpoint's ID and the settings; the refs store
moves a ref and enqueues its name; the pre-push hook drains the queue; other machines fetch. `adopt`
moves a session record from one repository to another.

`PROJECT.json` lists every part with its status, and the hazards with the line where each bites and
the properties that would catch it.

What makes each part correct, in a sentence:

- *Gate*: the record behaves as if every call were one atomic step, and what is announced is on disk.
- *File lock*: at most one process has the lock, however the file is created and removed around it.
- *Writers outside the gate*: they must not undo a locked write. They do (section 5).
- *Store, queue and flush*: a write that succeeded reaches the remote, nothing the remote accepted
  is ever undone, and every session in a checkpoint stays readable.
- *Queue under a bound*: no ref starves behind refs that never land.
- *Shadow branches*: the steps a record counts are on the branch of its base commit until they are
  condensed, no step overwrites another, and a branch nobody needs goes away.
- *Adoption*: a session has one home; a hand-over moves all it recorded or nothing.
- *Routing and migration*: what a write reported done is what readers find, whatever the settings
  were before or become, and a checkpoint does not fall apart between two stores.
- *Phases and condensation*: what a session did since its last checkpoint is stored by some later
  event, whatever event was lost, and a condensation that was interrupted is not done a second time
  under another ID.

## 2. Modules

| Module | Models |
|---|---|
| `SessionRecord` | abstract: one record that is created, extended, discarded, grows stale, and whose entries are announced once |
| `SessionGate` | the gate: flock, in-process owner, copy, nested frames, save, effects, crash; implements `SessionRecord` |
| `SessionBypass` | `SessionGate` composed with the orphan clean-up, which skips it |
| `SessionGateProofs` | theorems about `SessionGate` and `SessionBypass` |
| `CheckpointSync` | one checkpoint ref on several machines: writers, flushes with recovery, on-demand fetches |
| `CheckpointSyncProofs` | theorems about `CheckpointSync` |
| `FlushQueue` | the queue file and the order in which a flush works through it |
| `FlushQueueProofs` | theorems about `FlushQueue` |
| `Condensation` | one session's phases, window, reservation and checkpoints: agent hooks, session end, doctor and sweep, commits |
| `CondensationProofs` | theorems about `Condensation` |
| `ShadowBranch` | the shadow branches of one worktree: steps, renames, carry-forward, every deletion |
| `ShadowBranchProofs` | theorems about `ShadowBranch` |
| `SessionHome` | abstract: a session that several repositories have a record of and that moves between them in one step |
| `Adoption` | `session adopt` with its two locks, two saves and roll-back, the hooks of both repositories, `attach`; implements `SessionHome` |
| `AdoptionProofs` | theorems about `Adoption` |
| `CheckpointRouting` | writes to two checkpoint stores, mirrors, settings that change, fetches, `doctor migrate` |
| `CheckpointRoutingProofs` | theorems about `CheckpointRouting` |
| `AtomicLock` | abstract: one lock that is taken and given up in one step, and taken away when its file is removed |
| `FileLock` | opening, creating, locking, re-checking and retrying one lock file, and its removal; implements `AtomicLock` |
| `FileLockProofs` | theorems about `FileLock` |
| `MC*` | instances for TLC |

The definitions under the heading "Variants" of a module, or with a comment that begins with "Variant:",
are single-bug versions of its definitions. Nothing uses them; substituting one for its action shows that
the property guarding it can fail.

### SessionGate

`file` is the state file and `flock` the OS lock. `gate[p]` is the `sessionGate` object of process
`p`; `pc[t]` says where goroutine `t` is in its outermost call: `wait` for the flock, `load`,
`body` (the mutation function), `save`, `create` (`initializeSession`), `remove`
(`clearSessionState`), `exit` (the first half of the defer), `unlock`, `effects`. The remaining
variables are histories.

One action stands for one stretch of code between two points where another process can see a
difference. A nested `MutateSessionState` runs on the goroutine that owns the gate and touches only
the copy and the queue, which nobody else reads, so a whole nested call is one step
(`NestedMutate`), of any depth, succeeding or failing; a caller that swallows a nested error keeps
the nested mutation, as the code does. A load deletes a record past its stale threshold
(`LoadMissing`).

The record is abstracted to an incarnation number, a set of ledger entries and a kind (live, ended,
stale). That tells apart what the properties need: was a write kept, is this the session that was
cleared, would the sweep take it. `initializeSession`'s repair of a record without a base commit is
not modelled, nor are its panics. A mutation function adds entries; the ones that replace fields
behave alike as far as lost updates go.

### SessionBypass

`SweepReads` and `SweepClears` are the two halves of the orphan clean-up in `listAllSessionStates`:
list the record and decide, then delete the file by name. A discard by the sweep counts as intended
only when the record still qualifies at the moment of the deletion. `attach` skips the gate as well
(`attach.go:755` saves the record that was loaded at line 770); that is in `Adoption`.

### CheckpointSync

A clone is one machine's repository. A commit is the delta it carries: the write it makes (session
and revision), the numbered directory (slot) it writes and the length of the session list it leaves
in `metadata.json`. A history is a sequence of commits; ancestor is prefix. The tree at a tip is
computed from the deltas: the last commit to write a slot decides what is in it (`Occupant`), which
is what both a write on top of a parent and `ApplyTreeChanges` in a replay do.

- Writer: `StartWrite` (flock taken), `Build` (tip read, tree built), `CasWins`/`CasLoses`, `Enqueue`.
- Flusher: `Drain`, then per push attempt `PushReads` (git resolves the local ref) and
  `PushAccepted` or `PushFails`; after the batch a single push; after that `Fetch`, `ReplayLocal`,
  `Advance` and a last push; then `Dequeue`. `AfterFailure` is the table of where a failed push leads.
- Reader: `MissLocally`, `FetchMissing` (the forced `+ref:ref`).
- A push that fails may have landed. Any process may stop at any point (`WriterStops`,
  `FlusherStops`); that covers kills, errors and exhausted budgets.

In three ways the code loses a write from its ref or from the queue (section 5). They are in the
model, and three histories name the very writes they take: `lost` (in the ref when a recovery or a forced
fetch overwrote it, but not in the tip put there, nor in what a recovery had looked at), `dropped` (in the
ref when the queue entry was removed, but not in the tip that was pushed, and not on its way to the queue)
and `missed` (never enqueued). `LocalKeepsWrites` and `QueueCovers` leave out exactly these, and hold under
every interleaving. `wrote` is the write a writer has stored and not yet queued; `saw` is also in the code
(the tip a replay was computed from).

Abstractions: the same delta picked onto the same parent is the same commit (in git, timestamps
would differ); a checkpoint is first written on one clone and others fetch before they add to it, as
`attach` enforces; histories that share no commit (migration orphans, reconciled by
`ReconcileDisconnectedMetadataRef`) do not occur; commits that change nothing are not skipped; local
refs are never deleted; the history rewrite of the privacy filter is absent.

### FlushQueue

`lines` is the queue file; each queue operation takes the queue's lock and is one step. `pc[h]`
follows `flushCheckpointRefsQueue` in hook `h`: `stale` (prune refs that are gone), `batch`,
`retry` (one ref after another), `remove`, `rotate`. What a push does is `CheckpointSync`'s subject;
here it lands or fails, and refs in `Blocked` always fail. A rewrite that fails leaves the file as
it is; a failed rotation is a hook that dies before rotating.

### Condensation

One session. `rec` is its record, cut down to what condensation depends on: the phase and whether
`EndedAt` is set, whether there are steps on the shadow branch (`StepCount`) and touched files, the
task records in flight and completed, the first transcript line of the next checkpoint
(`CheckpointTranscriptStart`), the reserved ID (`CondensationAttempt`), `FullyCondensed`,
`LastCheckpointID` and `TurnCheckpointIDs`. `store` has the checkpoints with the lines each was
condensed from and the length of the transcript it holds; `said` is the length of the live
transcript. `branch` says whether the shadow branch of the record's base commit exists.

A worker is a process that reads, reserves, writes and saves in several steps; `pc[w]` is what it does next.

- Session end: `SessionEnds`, `CompletesLiveTask`, `MarksEnded` (transition and
  `PrepareSessionEndCondensation` in one frame), `EagerReads` (without the gate), `EagerReserves`,
  then `EagerCondenses`, `EagerFinishes` or `EagerDeclines`. A subagent that stops late
  (`SubagentStops`, `SubagentStopReloads`) enters the same path at `EagerReads`.
- Doctor and the sweep: `DoctorPicks` (without the gate), `DoctorReserves`, then `DoctorCondenses`,
  `DoctorClears` or `DoctorDeclines`; a forced discard is `DoctorRejects` and `DoctorDiscards`.
- Commit: `Prepare` (the ID in the message), `Target` (which checkpoint, and did it exist), then one
  of `CommitCondenses`, `CommitCarries`, `CommitFailsToCarry`, `CommitPasses`.
- `DiesAfterWrite`: the checkpoint is in the store and the record is not saved. `Stops`: any other
  death or error. `ClearOrphan` is the clean-up in `listAllSessionStates`.

A frame of `MutateSessionState` is one step; that is what `SessionGate` proves of it. The writers
that skip the gate are `SessionBypass`'s subject and appear here as atomic.

Abstractions. Whether a commit overlaps the session's files, and which files remain, is free within
what the phase allows, so a commit may or may not condense or carry forward. How long a session was
quiet and whether its agent is alive is free: doctor may find any session stuck. Other sessions are
seen in two places: they create and delete the shared shadow branch at any time (`BranchChanges`),
and a commit may carry an ID that another commit used. A task identifier is one run of a subagent
and is not started again once stored. `epoch` counts restarts of the window: carrying files forward
sets the start back to the first line, deliberately, so lines are stored twice there; properties
compare checkpoints of one epoch. `stale`, `owed` and `epoch` are histories, which the code does not have.

### ShadowBranch

The sessions of one worktree. `rec` is a session's record: base commit, the steps `StepCount` counts,
phase, the commit it was last condensed at. `tip[b]` is the branch named after commit `b`, as the set of
steps on it; a step has one parent, so the set identifies the tip. `proc[w]` is a hook or command process,
with the copy of the record it works on, a tip it read, and post-commit's two lists of branches.

- Step and prompt: `StepStarts`, `PromptStarts`, `RewriteStarts` (post-rewrite) open a frame and
  enter `migrateShadowBranchIfNeeded`; `MigrateSets` and `MigrateUnlinks` are its two ref updates.
  Then, for a step, `WriteReads` (branch flock, tip read) and `WriteSwaps`, `WriteLoses` or `CarrySkips`;
  then `SaveRecord`. `FrameFails` is an error, a skip or a death in the frame.
- Commit: `CommitStarts` (with or without a trailer), `CommitLists`; per session `CommitCondenses`,
  `CommitCarries`, `CommitPasses`, `CommitCloses` or `BareAdvances`; `CommitVisited`, `CommitDeletes`.
- Other deletions: `Condenses` or `ResetStarts`, `ResetClears`, then `TidyScans`, `TidyDeletes`;
  after a push `PushLists`, `PushProtects`, `PushRechecks`, `PushDeletes`.

`last` is `LastCheckpointCommitHash` if that commit carries the checkpoint in a trailer, and nothing otherwise:
with HEAD there, a migration moves the record alone (`Reconciles`). A condensation without a commit leaves it
at nothing, or at the base commit if that carries the ID that was reserved (`Condenses`).

`forsaken` is a history: the sessions whose steps one of the listed single-process steps left behind
(`LeaveBehind`). Each use of it is a place where the code gives a step up by itself; section 5 lists
them. Left out: task steps, other worktrees (their branches have other names), commits whose
abbreviations collide, what condensation stores.

### Adoption

One session, several repositories. `record[s]` is its record in store `s`, `lock[s]` the flock when an
adopter holds it. A hook's read, change and save are one step, taken when the flock is free. An adopter
goes through `Selects` (unlocked), `AcquiresFirst`, `AcquiresSecond` (in the order of the paths),
`Loads` (both stores again), `SavesTarget`, `Retires`, and on failure `RetireFails`, `Undoes`,
`UndoFails`; `Releases`, `GivesUp`, `Dies`. `AdoptsInPlace` is adoption between worktrees of one
repository. `TurnFindsNone`, `TurnCreates`, `TurnBegins` are the two frames of a turn start that finds
no record. `AttachReads` and `AttachSaves` bracket an attach, which takes no lock. After a week (`Ages`)
the next load deletes a record (`Expires`); no command takes a week, so a record ages only while none runs,
and no hook or hand-over reads an aged one.

`apart` records that the session was made live twice by something else than adoption: a turn or a session
start on a record that was not adopted away, an attach, a hand-over that was killed or could not be undone.
Waking a tombstone is no such excuse (`Reopens`), except in a turn that began without a record. `SessionHome`
sees the records through `view`: until the source is retired, the target counts as not yet written
(`Hidden`), so the two saves become one move, and an undone one no step at all. Every other step of the code
is a step there with the same guard and the same effect: hooks leave a tombstone asleep (`Changes`), the two
frames of a turn start are `TurnFindsNone`, `TurnCreates` and `TurnBegins`, only an aged record is forgotten
(`Forget`), an attach saves the record it read (`AttachSaves`), and a hand-over that was killed or could not
be undone leaves the target saved (`Tear`). An attach that saves in the middle of a hand-over ends the
pretence that it is one step (`struck`, `AttachStrikes`): from then on `split` holds the records that
hand-over works from, and it may save its target (`SplitArrives`) and then retire the source, undo or stop
(`SplitEnds`), with these records and no others.

### CheckpointRouting

A checkpoint's contents are the set of writes it holds; `branch`, `refs` and `remote` give them on the v1
branch, in the local ref and in the ref another machine pushed. `Route`, `Follow` and `Target` are the
router's decisions: which store a write begins with, what comes after it, what each step writes to. A
write is `Opens` (settings read once), then `WritesBranch` or `WritesRefs`, `Mirrors` or `MirrorFails`,
`Probes` or `ProbeFails` (does the store that reads prefer have a copy?), `FallsThrough` (a backfill that
found nothing), and `Fails` at any point. `Configures` changes the settings under running processes.
`doctor migrate` is `MigrateStarts` (one look at the primary, one snapshot of the branch), `Imports` per
checkpoint, `MigrateStops`. `imported` holds the branch trees in a ref's first-parent history, by which a
repeated run skips.

`lagging` is a history of the writes a ref is behind on, in the three ways the code lets it: an import of
an older tree, a mirror that creates a partial ref, and a probe that fails or does not see a ref this
clone has not fetched. The properties hold for everything else. Left out: listings and the merge of the
two stores' listings, two migrations at once, refs pushed by other machines while the clone works.

### FileLock

One lock file: `path` is the inode its name leads to, `owner[i]` who has the kernel's lock on inode `i`,
`fd[p]` what process `p` has open. `Calls` makes sure of the directory; `openLockFileIn` is `Creates` (the
exclusive create) or `FindsFile` and then `Opens`, each followed by a second look at the name
(`Validates`), and `StartsOver` or `GivesUpOpening` if it leads elsewhere. `Locks` is the kernel's grant;
without a deadline a process waits for it, with one it closes the file and comes back (`FindsItLocked`,
`TriesAgain`, `TimesOut`). After the grant comes the look at the inode: `HoldsCurrent`, or `FindsItStale`,
or `GivesUpLocking`. `Dies` is a death or a failing system call at any point. `SweepsFile` and
`SweepsDirectory` are the uninstall. `MaxTries` is 3 in the code, for both loops.

Two things come from the kernel and not from this code: closing a descriptor drops its lock, and an inode
is not used for another file while somebody has it open. The second is why comparing inode numbers is
enough. In `AtomicLock` a removal takes the lock away from its holder, who goes on as `orphaned`;
`SessionGate` does not know about removals and stands for the lock between two of them.

## 3. Runs

| Run | Question | Instance | States |
|---|---|---|---|
| `gate` | Does the gate protect the record, implement `SessionRecord`, and release its lock? | 3 goroutines in 2 processes, 1 entry, 2 incarnations | 89 k |
| `bypass_sweep` | Does a locked write survive the orphan clean-up? (no) | 2 goroutines in 2 processes | trace |
| `sync` | What holds under every overlap? | 2 clones with a writer, a hook and a reader each, 2 sessions, one with 2 revisions | 399 k |
| `sync_quiet` | Does every queued write reach the remote when a clone's own processes take turns? | same, 1 reader, 3 sessions, 1 revision each | 88 k |
| `flush` | Does the queue lose anything, and does a healthy ref get through? | 2 overlapping hooks, 3 refs (1 refused, 1 healthy, 1 deleted), 3 lines, failure cap 1 | 46 k |
| `condensation` | Is work lost or stored twice when processes overlap and die? | 2 workers, 1 task, 1 line, 2 IDs, 1 restart | 3.5 M |
| `condensation_live` | Do completed tasks reach a checkpoint? | 2 workers, 1 task, 2 lines, 1 ID, no restart | 367 k |
| `shadow` | Do the steps a record counts stay on its branch while processes take turns? | 2 sessions, 1 process, 2 commits, 2 steps | 4.5 M |
| `shadow_live` | Do overlapping processes build on one another, and does a branch that nobody needs go away? | 1 session, 2 processes, 1 commit, 3 steps | 73 k |
| `adoption` | Does a session have one home, and is adoption one move? | 2 stores, 2 adopters, 1 task, 2 adoptions, 1 attach | 465 k |
| `routing` | Do readers find what was reported written? | 1 hex ID, 1 ULID, 2 writers, 2 writes, 2 changes of the settings, 2 migrations | 1.9 M |
| `file_lock` | Is a lock file that may be removed still a lock? | 3 processes, 3 inodes, 3 tries | 873 k |

Three more configurations give counterexamples of section 5 and are run by hand
(`tlc -config <cfg> <module>`): `MCCheckpointSyncOverlap.cfg` for `MCCheckpointSync`,
`MCCondensationRetry.cfg` and `MCCondensationOrphan.cfg` for `MCCondensation`. Each checks one invariant, which TLC finds violated.

**Why the bounds are enough.** Lost updates, double announcements and resurrection need one other
goroutine between two steps of the first; three goroutines in two processes give in-process and
cross-process interference at once, and two incarnations give a clear followed by a re-creation. One entry
suffices for a lost update, because a frame may save without adding anything. `MaxEpoch` and `MaxRev` only
cap counters that grow. Divergence needs two clones and one write on each; the second revision of one
session, in `sync`, gives a rewrite of an own slot and a write during each step of a flush; a reader on the
creating clone may fetch while the first write is under way. `sync_quiet` has two sessions on one clone
instead, so that a queue entry may outlive the push of an earlier one. Starvation in the queue needs as many refused refs as the failure cap, so the cap is 1
instead of the code's value (5); `MaxLines` 3 lets another ref or a duplicate be appended during a flush.
In `Condensation` a race needs one process between two of its steps and another that completes, so two
workers; a repetition under another ID needs two IDs. `condensation` has one line of transcript and one
restart; `condensation_live` has a second line, so that a session is resumed, and no restart, which leaves
fewer ways out: a session that is never discarded must be stored. What these bounds cut off, several
windows after one another, is covered by the proofs of section 4 for every invariant of the run
`condensation`. `MaxSaid`, `MaxId` and `MaxEpoch` cap counters; with the bounds used up a session may have
nothing left to do, so deadlock is not checked there. It is checked in `gate`, `sync`, `sync_quiet`,
`flush` and `adoption`; the states where a system may rest (`Quiescent`) are explicit steps. `FlushQueue`
and `Adoption` never rest, since anybody may enqueue or drain, and the agent goes on.

In `ShadowBranch` the interesting cases are two sessions on one branch and a session on an older commit
than another, so two sessions and two commits (HEAD may move between them at will), with two steps: one to
be kept and one that moves the branch. A lost write needs two processes and a branch with a step on it, so
`shadow_live` has one commit and one session; writers of one branch take its flock, and what comes between
them is a deletion by the other process. `MaxCommit` and `MaxStep` use themselves up, as `MaxWrites`, `MaxSwitches` and
`MaxMigrations` do in `CheckpointRouting`, so deadlock is not checked there. In `Adoption` two adopters in
opposite directions are what the order of the locks is about, two adoptions let a session go and come
back, and one attach can span a whole hand-over. In `CheckpointRouting` each format of ID occurs once,
because a checkpoint meets only itself; two writes are a write and the one that may lose it, two changes
of the settings are a flip and the way back, two migrations an import and a repetition that may skip. What these bounds
cut off is covered by the proofs of section 4 for every property of `adoption` and `routing`. In `FileLock`
two processes suffice for two holders and a third one removes nothing but may create in between; with
three processes there are never more than three inodes in use. Removals are not bounded.

**Properties.** In `gate`: `MutualExclusion` (the two lock layers agree), `GateLeftClean`, `NoLostWrite`,
`NoResurrection`, `AnnouncedOnceAndDurable`, the action property `EffectsOutsideLock`, the refinement
`ImplementsRecord` and, for liveness, `LockIsReleased`. In `sync`: `DeliveredStays` (nothing accepted is
undone), `ReadableUnlessReplayed` (directories collide only through a replay), `LocalKeepsWrites` (a write
leaves its clone's ref only as `lost`) and `QueueCovers` (what the remote lacks is queued, unless `missed`,
`dropped` or `lost`). In `sync_quiet`: `Published` for liveness. In `flush`: `HeldUntilLanded`, and
`HealthyRefLands` for liveness. In `condensation`: `TasksKept` (a completed subagent task is in the record
or in a checkpoint until doctor discards the session), `StartIsStored` (no line before the next window is
missing from the store, a failed finalisation apart), `OneCheckpointPerWindow` and `AttemptCoversOrphan`
(a condensation that died after its write is repeated under the same ID); liveness `TasksReachCheckpoint`.
In `shadow`: `StepsKept` (no other session's steps and no clean-up takes a step that is counted). In
`shadow_live`: `OneStepOnTop` (writers neither overwrite one another nor revive a deleted branch), and
`UnusedGoes` for liveness. In `file_lock`: the refinement `ImplementsLock`. In `adoption`: `OneHome`, `NoCircularWait`, and the refinement
`ImplementsHome`. In `routing`: `ReadersFindIt` (an acknowledged write stays readable),
`SessionsStayTogether` (in the store the ID names), `UlidsAreInRefs` (a ULID on the branch is in its ref
too), `ImportsAreHeld` (skipping an import loses nothing), `BackfillsDoNotFork`.

**Quiet.** `QuietSpec` restricts `CheckpointSync` to steps after which no clone is pushing while one
of its own processes writes or fetches the same checkpoint. Nothing in the code enforces that: an
agent's turn may end, or a second `git push` start, while a hook is pushing. Only `Published` uses it:
a write that is dropped from the queue or lost is not delivered, so delivery can only be promised where
these races do not occur. All safety properties, and all theorems, are about `Spec`.

**Fairness.**
- `SessionGate`: a goroutine that has the lock goes on, and the mutation function it runs returns. Nothing
  is assumed about who gets a contended lock (flock gives no order), so starvation of one caller is not
  excluded and not claimed.
- `CheckpointSync`: processes run on, the user pushes again while the queue has an entry, and failures do
  not go on for ever (`<>[][Undisturbed]`). Without the last assumption an unreachable remote is a
  counterexample to any delivery.
- `FlushQueue`: in the long run no hook is killed or interrupted and the queue file can be written; pushes
  may still fail and the budget may still run out every time. A ref the remote does not refuse lands if it
  is really attempted again and again; being next when the budget runs out is no attempt, so the
  assumption is weaker than strong fairness of the landing.
- `Condensation`: a worker goes on (it may go on by stopping: every step may fail), and doctor or the
  sweep comes again while it finds the session, and what they attempt again and again succeeds at some
  point. `OrderlySpec` also assumes (`OrderlyNext`) that a session's end is handled in order: tasks start
  in a running turn, none is in flight when the session is marked ended (the session end completes every
  live task first, but a failed capture leaves one in flight), and eager condensation does not mark a
  session that was resumed in the meantime. The code does not enforce this; `MCCondensationRetry.cfg`
  shows one of the things that happen otherwise.
- `ShadowBranch`: some process goes on, if only by failing or dying; the user pushes again and again, so
  that a branch which is listed again and again is listed after every change; and in the long run a push
  is not killed between its listing and its deletion. Nothing is assumed of the process that should have
  deleted the branch itself.
- `Adoption`, `CheckpointRouting`, `FileLock`: safety only, without fairness. That two adopters do not wait for each
  other is an invariant.

## 4. Proofs

`tlapm` checks every leaf; the theorems hold for every value of the constants that satisfies the
named assumptions (`ThreadAssumption`, `EpochAssumption`, `AbsentAssumption`, `CloneAssumption`,
`RevAssumption`, `RefAssumption`, `NoneAssumption`, `StoreAssumption`, `LockAssumption`, `RoutingAssumption`,
`BoundAssumption`, `TriesAssumption`), which the runs evaluate.

`SessionGateProofs`: `TypeCorrect`, `MutexCorrect`, `GateCleanCorrect`, `NoLostWriteCorrect`,
`NoResurrectionCorrect`, `AnnounceCorrect`, `EffectsOutsideLockCorrect`, `GateImplementsRecord`. None of
these is inductive alone. The invariant comes in two layers. `GateInv` relates the lock, the copy and the
file to what ever reached the disk: the file holds exactly the entries saved to its incarnation
(`FileIsWhole`), the copy of whoever is in `body` or `save` holds at least those of its own, and all it
will announce is in the copy and not yet on disk; effects already owed are durable and belong to one
goroutine each. `IInv` adds that the copy is of the incarnation in the file, and that what was saved stays
until it is discarded: mutual exclusion keeps the copy current. `EffectsOutsideLockCorrect` is about steps:
only `RunEffect` announces, and whoever is at that point holds no lock. The refinement maps each step of
the gate to one step of the record or to a stutter.

The first layer survives a writer that ignores the gate. The run `bypass_sweep` shows that the orphan clean-up
can destroy a locked write; the theorems `SweepKeepsTheGate`, `SweepAnnouncesOnce` and `SweepTakesWholeRecords`
say, under `SweepSpec`, what it cannot do, whenever and however often it deletes: the gated calls still exclude
each other and leave their gates clean, no event is announced twice or before it is on disk, and a state file
that is there, even one that a save brought back after the deletion, holds every entry ever saved to its
incarnation. So the damage is confined to whole records. TLC checked `GateInv` under `SweepSpec` on two small
instances before the proof; no run repeats that.

`CheckpointSyncProofs` first establishes facts about histories: a prefix keeps writes
(`PrefixKeepsWrites`), `MergeBaseIsCommon` shows that the computed merge base is the length of a
common prefix (the set of common prefix lengths is an initial interval, so its cardinality is its
maximum), and `ReplayKeepsWrites` concludes that a replay keeps what either side had. `TypeCorrect`
and `DeliveredStaysCorrect` follow from the first. The invariant `Kept` adds to `LocalKeepsWrites` and
`QueueCovers` what they need to be inductive (`Tips`): what a recovery looked at is still in the ref or was
overwritten (`SawKept`), the tip it is about to set holds that and otherwise only what the remote has
(`TargetHolds`), and a confirmed push is on the remote (`SentLanded`). Neither property is about the other
alone: a recovery puts commits into the ref that only the remote's having them keeps covered, and a writer
whose compare and swap wins can have lost nothing, because the ref is what it built on.
`LocalKeepsWritesCorrect` and `QueueCoversCorrect` follow; like all theorems here they are about `Spec`,
hence about every interleaving, with any number of writers, hooks and readers on one clone.

`ReadableUnlessReplayedCorrect` holds under `Spec`. Its invariant (`SoundInv`) speaks of every history
anywhere: the remote, the local and fetched refs, the tip a writer builds on, a push sends or a replay is
about to set. Each is `WellFormed` (every session has one directory of its own, below the length of the
list, and the list never shrinks) or contains a write of `replayed`. In a well-formed history the last
commit to write a directory is one of the session's, so every session is readable (`WrittenIsReadable`);
hence a writer finds its own directory or none, and the next one listed is nobody's
(`CommitKeepsWellFormed`). A replay of two sides that did not diverge is the longer of them, and one of two
sides that did moves at least one commit (`ReplayIsOneSide`), which is then in `replayed`. Here the merge
base must be the greatest common length, not only a common one.

`FlushQueueProofs` is for any number of refs and hooks and a file of any length. The lines a rewrite keeps
are given by their positions: `LinesAt(q, P)` takes the positions of `P` in the order of their ranks. The
ranks of a finite set of positions are an injection into as many numbers, hence onto them (`RankIs`), and
with that no recursion over the file, and no induction, is needed: `DedupedIs`, `RemovedIs` and `RotatedIs`
say which lines each rewrite keeps. The invariant (`IInv`) joins `TypeOK` and `HeldUntilLanded` with what a
flush has in hand (`HookOK`): each ref once, none that was tried already, and nothing counted as pushed
that did not land. The last is why `RemovePushed` drops nothing too early, even when another hook rewrote
the file since the drain. `KeepsItsPlaceCorrect` is a theorem about steps: the refs ahead of a queued ref
never become more, unless the ref failed itself and was rotated; and a rotation leaves none of the failed
refs ahead of a ref that did not fail. `HealthyRefLands`, which TLC checks, rests on this.

`CondensationProofs` proves every invariant of the run `condensation`, under `Spec` and so for any number
of workers and tasks and any order of deaths. The steps of forty actions are first reduced to five effects
on the window: it is kept (`WindowKept`), an ID is reserved (`WindowReserved`), it is restarted
(`WindowRestarted`), a turn ends, or a checkpoint is written (`WindowWritten`). `NextEffect` shows that
every step has one of them. `OneCheckpointPerWindow` is not inductive alone: a repetition writes into a
window that an orphaned checkpoint already reaches into, and only `AttemptCoversOrphan`, which says that
this checkpoint is the one with the reserved ID and hence replaced, keeps the two from overlapping.
`WindowInv` is their conjunction with `TypeOK`. `StoredInv` joins `StartIsStored` with the fact that the
checkpoints of the turn are in the store, so that a finalisation finds them. `TasksKept` rests on one look
at each step that removes a task record: it has just been written, or doctor discarded it, or there was
none.

`ShadowBranchProofs`: `TypeCorrect` and `OneStepOnTopCorrect` for any number of processes: only a
migration sets a branch to anything but nothing or one step more, because the compare and swap refuses a
tip that was read before. `StepsKeptCorrect` is for one process (`OneWorker`) and any number of sessions,
commits and steps. `StepsKept` speaks of records on disk, but a frame works on a copy and on the branch
before it saves; `KeptInv` therefore adds what is true at each stage of a process (`ProcessOK`): until a
frame has unlinked the old branch the record on disk is right, from then on its copy is; what post-commit
and a clean-up are about to delete, no session counts any more. It also says that a spent session counts
nothing, so that a push which ignores it takes nothing.

`AdoptionProofs`: the invariant (`IInv`) joins `TypeOK`, `Holders` (what each stage of an adopter holds:
two different flocks, hence no other adopter works on its stores), `Faithful` (until an attach strikes,
the records in the two stores are still what the adopter loaded, or what it saved) and `Awake` (neither
record is an aged one). With it `ImplementsHomeCorrect` maps every step to one step of `SessionHome` or a
stutter: saving the target is a stutter, since `view` hides it, retiring the source is `Move`, undoing is a
stutter again, and the steps of a hand-over that an attach struck are those of `split`. That a hand-over is
`split` once and under one description is why both locks matter: no second one can have the same stores. `NoCircularWaitCorrect` comes from the
order of the paths alone; `OneHomeCorrect` from the same invariant, with one lemma for the steps that may
part a session (`Parts`) and one for those that do not (`Keeps`).

`CheckpointRoutingProofs`: the invariant joins the five properties with `Logged` (a worker's log entry is
the one it works for), `Routed` (a worker is at a step its configuration and ID lead to, and has put what
the earlier steps put) and `Grown` (the trees in a ref's history are old trees of the branch, and so is
the snapshot a migration works from, which is no older than they are; another machine pushed nothing that
was written here). The central lemma is that no reader
loses a write but by a lag: every step only adds to the branch, and changes a ref by adding to it, by
fetching what readers already resolved, or by an import or a mirror, which put what they hide into
`lagging`. An acknowledged write was put where `Resolved` looks first at the moment it finished, and then
stays.

`FileLockProofs`: the invariant says that a process owns an inode exactly while it is between the grant and
the close on that inode (`Owns`). Since one inode has one owner and the name leads to one inode, at most
one process holds the file that has the name (`OneHas`), which makes `holder` a function of the state
(`HolderIs`); `HoldsIs` shows that the look at the inode is the step in which the lock is acquired, and
`SweepsIs` that the removal is the only step which makes an orphan. No assumption is made on how often
the file is removed or which inode a new file gets, as long as nobody has it open.

Only model-checked: all liveness (`LockIsReleased`, `Published`, `HealthyRefLands`,
`TasksReachCheckpoint`, `UnusedGoes`), which is out of the prover's reach together with `ENABLED`. Every
invariant, action property and refinement of a passing run is proved.

## 5. Where code and documentation disagree

1. **Orphan clean-up without the gate** (`strategy/manual_commit_session.go:163`): run `bypass_sweep`. The
   comment on `clearSessionStateLocked` in the same file describes the loss. The unlocked deletes of
   `session/state.go:1217` (from listings) and `strategy/cleanup.go:387` have the same shape.
2. **Dequeue by name** (`checkpoint/pushqueue.go:152`): `Dequeue`, history `dropped`. An entry appended
   during a push is kept only if it names another ref; the write waits for the next one to the checkpoint.
   A failed enqueue (`checkpoint/refs_store.go:218`), which is only logged, has the same effect (`missed`).
3. **Unconditional advance** (`strategy/push_common.go:632`, and the forced fetch in
   `checkpoint/remote/checkpoint_ref.go:359`): `Advance`, `FetchMissing`, history `lost`. Writers compare
   and swap; these do not, and a write that came in between is no longer in any ref.
4. **Replay never conflicts** (`strategy/metadata_reconcile.go:408`): `MCCheckpointSyncOverlap.cfg`. The
   architecture note promises that overlapping files leave the ref queued.
5. **A failed late condensation is not retried** (`doctor.go:374`): `MCCondensationRetry.cfg`. The session
   is still marked fully condensed, which doctor, the sweep and post-commit take as "nothing left".
6. **A resumed session is deleted as an orphan** (`strategy/manual_commit_condensation.go:2146`):
   `MCCondensationOrphan.cfg`. Doctor moves an ended session to idle and leaves `EndedAt`; the next prompt
   empties `LastCheckpointID`, and `IsEnded` still holds.

The steps behind four smaller ones are in `Condensation`, without a run of their own:
`EagerCondenses` and `EagerFinishes` mark a session fully condensed that was resumed since
(`strategy/manual_commit_condensation.go:2325`); `RecordFilesTouched`, `SaveStep` and `CompleteTask`
add files to a session that stays fully condensed, so that post-commit skips it
(`strategy/session_state.go:816`); `TurnEnd` moves the window past a finalisation that failed
(`strategy/manual_commit_hooks.go:3432`; `StartIsStored` shows that no other step does); and
`DoctorDiscards` acts on a choice made on an earlier record (`doctor.go:270`).

In `ShadowBranch` the steps that leave steps behind are the uses of `LeaveBehind`; outside of them
`StepsKept` holds:

- *A migration overwrites the branch of the new base* (`MigrateSets`,
  `strategy/manual_commit_migration.go:133`): `SetReference` has no expected old value. If another session
  already has steps on the new commit they are gone, and if it shared the old branch it loses that
  (`MigrateUnlinks`). `docs/architecture/sessions-and-checkpoints.md` says of sessions on one commit that
  "checkpoints interleave on the same shadow branch" and of a migration that the "session continues with
  checkpoints preserved".
- *A base commit moves without its branch* (`BareAdvances`, `CommitPasses`,
  `strategy/manual_commit_hooks.go:1916`): an active session that is not condensed follows HEAD; its steps
  stay under the old name.
- *Post-commit holds branches for active sessions only* (`CommitDeletes`,
  `strategy/manual_commit_hooks.go:1240`): an idle session with steps on the branch of one that was
  condensed loses them, as the comment there puts it ("only delete when ALL sessions on the branch are
  non-active or were condensed"), against the note on interleaving above.
- *A step that changes nothing does not save the record* (`FrameFails`,
  `strategy/manual_commit_git.go:104`): if its frame had moved the branch first, the record keeps the old
  base.
- *A late step of a spent session* (`SaveRecord`): the push clean-up does not count the session as a user
  of its branch.

With two processes `StepsKept` fails, because `cleanupShadowBranchIfUnused` scans without locks and then deletes
by name (`strategy/manual_commit_condensation.go:2359`, `TidyScans`, `TidyDeletes`). The comment in
`checkpoint/shadow_ref.go:23`, "our own writers never collide", is true of writers of steps; migrations and
clean-ups in other processes move the same ref without the flock, which is why `WriteLoses` happens. The
compare and swap then keeps the history right (`OneStepOnTop`).

In `Adoption`: a turn that found no record creates one in a second frame, and the frame after that starts
the turn on whatever is there, a tombstone included (`TurnBegins`,
`strategy/manual_commit_hooks.go:3087`), although `session/state.go:135` says "Hook TurnStart must not
reactivate tombstoned source records". An attach that read a record before a hand-over saves it over the
result (`AttachSaves`, `attach.go:755`), and so brings back what a hook or a hand-over had changed. Both are
in `SessionHome`, as `TurnBegins` and as `AttachSaves` and `AttachStrikes`.

In `CheckpointRouting`: a migration looks at the primary once and imports a snapshot, although the comment
in `doctor_migrate.go:46` says importing could "only regress refs, so refuse"; a change of the settings in
between does just that (`Imports`). Under the branch primary a mirror creates a ref that holds one write
only, and readers prefer it once the refs are primary (`Mirrors`, `checkpoint/fanout.go:16`). A ULID that
was mirrored to the branch is imported over its newer ref. The probe for a copy that readers prefer passes
over errors and, since condensation and attach open their stores without a fetcher
(`strategy/manual_commit.go:55`, `attach.go:70`), over refs this clone has not fetched (`Probes`,
`checkpoint/routing_store.go:266`). These make up `lagging`. For the same reason a hook that writes to a
ULID from a pulled commit whose ref it does not have starts a ref of its own (`Opens`, `WritesRefs`), which
from then on hides what the other machine pushed: the properties speak of what this clone wrote. `docs/architecture/ref-checkpoint-backend.md`
states that "ULIDs never land on the branch" is not enforced; `UlidsAreInRefs` shows that what lands there
is in the ref as well, and `SessionsStayTogether` that the router sends no session of a ULID there alone.

In `FileLock`: `internal/flock/openlock.go:40` says "No caller unlinks a lock file today (see
ClearSessionState)", and `strategy/session_state.go` explains that unlinking a held lock breaks mutual
exclusion and leaves it to "RemoveAll on uninstall". That one removes the lock directory of sessions that may
be running (`SweepsFile`, `setup.go:3297`), so a hook that has the lock and one that comes later then
work on one record at once. It is the only such step (`Remove` in `AtomicLock`).

Two neighbours are outside the model: two migrations at once may put an older snapshot on top of a newer
one, which the skip by history then never repairs; and a transcript backfill for a session that a stale
copy lacks goes to the latest session (`checkpoint/persistent.go:361`).

## 6. Plan

In order; each module is written with named assumptions, one action per operation and no recursive
operators, so that it can be proved about.

1. `SessionGate`, `SessionRecord`, `SessionBypass`, `CheckpointSync`, `FlushQueue`, `Condensation` (done).
2. `ShadowBranch`, `Adoption` with `SessionHome`, `CheckpointRouting` (done).
3. `TurnCommits`: amends and rewrites: remapping after a rebase, an amend that condenses an earlier window
   again, squashes with several trailers.
4. `FileLock` with `AtomicLock` (done).
5. The v1 branch push and the reconciliation of disconnected histories, with the history rewrite of the
   privacy filter.
6. `OrphanRecovery`: the reconciliation of checkpoints written before IDs were reserved.
7. `Condensation` as an implementation of an abstract ledger of stored lines and tasks.

## 7. Not modelled

Text and data: agent adapters, transcripts, redaction, summaries, attribution. Presentation and setup
commands. Clients of hosted services, authentication, plugins. Settings, paths and logging. Generated code
and test harnesses. Each is in `PROJECT.json` with its reason. Counted in lines these are nearly all of
the repository: about a third is a generated API client, and most of the rest parses, formats and shows.
The models cover the code that changes state which several processes or machines share.

Of the modelled parts: `Condensation` leaves out what doctor offers interactively (a user may discard
anything), records of versions that did not reserve IDs (`RecoveryPending`), adopted, guest-linked,
imported and review sessions, rebases, squashes, compaction, agents that write their transcript after the
turn (`TranscriptOffsetPending`), and condensations that are skipped because nothing is left to store
after redaction. `ShadowBranch` leaves out task steps, the reset of every session of a commit and doctor's
discards, which clear records as `ResetClears` does; `Adoption` the choice among several sessions,
transcript checks and what is redone when HEAD moved; `CheckpointRouting` listings, two migrations at
once, the dry run, and the push of what was imported (`CheckpointSync`); `FileLock` the entry points that
take a full path, symbolic links, and Windows, where nothing is looked at again.
