--------------------------- MODULE CheckpointSync ---------------------------
(***************************************************************************)
(* One checkpoint ref in the git-refs store, written on several machines   *)
(* and pushed fast-forward-only (checkpoint/refs_store.go,                 *)
(* checkpoint/persistent_ref_update.go, strategy/manual_commit_push.go,    *)
(* strategy/push_common.go).                                               *)
(*                                                                         *)
(* A clone is one machine's repository: its local ref and its entry in the *)
(* push queue.  Writers add a session's files to the checkpoint under the  *)
(* per-ref flock, with a compare-and-swap against everyone who does not    *)
(* take that flock, and then queue the ref.  Flushers run inside git's     *)
(* pre-push hook: they push the ref, and when the remote refuses, fetch    *)
(* it, replay the local-only commits on top and push again.  Readers fetch *)
(* a ref their clone does not have.                                        *)
(*                                                                         *)
(* A commit is the delta it carries: the session it writes, the numbered   *)
(* directory (slot) it writes it to, and the length of the session list it *)
(* leaves in the root metadata.json.  A history is a sequence of commits,  *)
(* <<>> for a ref that does not exist; an ancestor is a prefix.  The same  *)
(* delta picked onto the same parent is the same commit here.              *)
(***************************************************************************)
EXTENDS Naturals, FiniteSets, SequencesExt

CONSTANTS
  Clone,      \* repositories of the same project on different machines
  Creator,    \* the clone on which the checkpoint is first written
  Session,    \* agent sessions
  HomeOf,     \* the clone a session runs on
  Writer,     \* processes that write checkpoints
  Flusher,    \* pre-push hooks
  Reader,     \* processes that read a checkpoint they may not have
  CloneOf,    \* the clone a process runs on
  MaxRev      \* bound: how often each session is written

ASSUME CloneAssumption ==
  /\ Creator \in Clone
  /\ HomeOf \in [Session -> Clone]
  /\ CloneOf \in [Writer \cup Flusher \cup Reader -> Clone]
  /\ Writer \cap Flusher = {} /\ Writer \cap Reader = {} /\ Flusher \cap Reader = {}

ASSUME RevAssumption == MaxRev \in [Session -> Nat]

Write == Session \X (Nat \ {0})

Commit == [write : Write, slot : Nat, listed : Nat]

VARIABLES
  remote,     \* the ref on the checkpoint remote
  local,      \* per clone: the local ref
  fetched,    \* per clone: refs/entire-fetch-tmp/..., where recovery fetches to
  queued,     \* per clone: the ref has an entry in the push queue
  wpc,        \* per writer: idle, build, cas, enqueue
  subject,    \* per writer: the session it writes
  base,       \* per writer: the tip its commit was built on
  fpc,        \* per flusher: idle, batch, single, fetch, read, advance, retry, remove
  sent,       \* per flusher: the tip git push read, <<>> before it read one
  saw,        \* per flusher: the local tip recovery replays from
  target,     \* per flusher: the replayed tip
  rpc,        \* per reader: idle, fetch
  written,    \* writes a writer reported done (history)
  delivered,  \* writes a flusher saw accepted (history)
  replayed,   \* writes replayed onto a diverged remote (history)
  wrote,      \* per writer: the write it has yet to queue (history)
  missed,     \* writes whose ref never reached the queue (history)
  dropped,    \* writes taken from the queue with an older tip's entry (history)
  lost        \* writes a recovery or a fetch overwrote unseen (history)

refs == <<remote, local, fetched, queued>>
writers == <<wpc, subject, base>>
flushers == <<fpc, sent, saw, target>>
queueing == <<wrote, missed, dropped>>
history == <<written, delivered, replayed, queueing, lost>>
vars == <<refs, writers, flushers, rpc, history>>

Pushing == {"batch", "single", "retry"}

TypeOK ==
  /\ remote \in Seq(Commit)
  /\ local \in [Clone -> Seq(Commit)]
  /\ fetched \in [Clone -> Seq(Commit)]
  /\ queued \in [Clone -> BOOLEAN]
  /\ wpc \in [Writer -> {"idle", "build", "cas", "enqueue"}]
  /\ subject \in [Writer -> Session]
  /\ base \in [Writer -> Seq(Commit)]
  /\ fpc \in [Flusher -> Pushing \cup {"idle", "fetch", "read", "advance", "remove"}]
  /\ sent \in [Flusher -> Seq(Commit)]
  /\ saw \in [Flusher -> Seq(Commit)]
  /\ target \in [Flusher -> Seq(Commit)]
  /\ rpc \in [Reader -> {"idle", "fetch"}]
  /\ written \in SUBSET Write /\ IsFiniteSet(written)
  /\ delivered \in SUBSET Write
  /\ replayed \in SUBSET Write
  /\ wrote \in [Writer -> SUBSET Write]
  /\ missed \in SUBSET Write
  /\ dropped \in SUBSET Write
  /\ lost \in SUBSET Write
  /\ \A f \in Flusher :
       /\ sent[f] # <<>> => fpc[f] \in Pushing \cup {"remove"}
       /\ saw[f] # <<>> \/ target[f] # <<>> => fpc[f] = "advance"
  /\ \A w \in Writer : wrote[w] # {} <=> wpc[w] = "enqueue"

Init ==
  /\ remote = <<>>
  /\ local = [c \in Clone |-> <<>>]
  /\ fetched = [c \in Clone |-> <<>>]
  /\ queued = [c \in Clone |-> FALSE]
  /\ wpc = [w \in Writer |-> "idle"]
  /\ subject \in [Writer -> Session]
  /\ \A w \in Writer : HomeOf[subject[w]] = CloneOf[w]
  /\ base = [w \in Writer |-> <<>>]
  /\ fpc = [f \in Flusher |-> "idle"]
  /\ sent = [f \in Flusher |-> <<>>]
  /\ saw = [f \in Flusher |-> <<>>]
  /\ target = [f \in Flusher |-> <<>>]
  /\ rpc = [r \in Reader |-> "idle"]
  /\ written = {}
  /\ delivered = {}
  /\ replayed = {}
  /\ wrote = [w \in Writer |-> {}]
  /\ missed = {}
  /\ dropped = {}
  /\ lost = {}

-----------------------------------------------------------------------------
WritesIn(h) == {c.write : c \in ToSet(h)}

(* The tree at the tip of h: the last commit to write a slot decides what it
   holds, and the last commit decides the list in metadata.json. *)
Occupant(h, n) ==
  h[SelectLastInSeq(h, LAMBDA c : c.slot = n)].write[1]

Slots(h) == {c.slot : c \in ToSet(h)}

Listed(h) == IF h = <<>> THEN 0 ELSE Last(h).listed

(* A reader goes through the list and finds the session in its directory. *)
Readable(h, s) == \E n \in Slots(h) : n < Listed(h) /\ Occupant(h, n) = s

OwnSlot(h, s) == CHOOSE n \in Slots(h) : n < Listed(h) /\ Occupant(h, n) = s

(* A new session takes the last slot listed, not the next one. *)
SlotForOffByOne(h, s) ==
  IF Readable(h, s) THEN OwnSlot(h, s)
  ELSE IF Listed(h) = 0 THEN 0 ELSE Listed(h) - 1

(* findSessionIndex: the session's own slot, or the next one. *)
SlotFor(h, s) ==
  IF Readable(h, s) THEN OwnSlot(h, s) ELSE Listed(h)

Revision(s) == Cardinality({x \in written : x[1] = s}) + 1

(* applySessionWrite and CreateCommit on top of h. *)
CommitOn(h, s) ==
  LET n == SlotFor(h, s) IN
  [write |-> <<s, Revision(s)>>, slot |-> n,
   listed |-> IF n < Listed(h) THEN Listed(h) ELSE n + 1]

(* git merge-base, as the length of the common history. *)
MergeBase(mine, theirs) ==
  Cardinality({k \in 1..Len(mine) : IsPrefix(SubSeq(mine, 1, k), theirs)})

(* git rev-list theirs..mine *)
Above(mine, theirs) == SubSeq(mine, MergeBase(mine, theirs) + 1, Len(mine))

(* Recovery resets the local ref to the fetched one. *)
ReplayDropsLocal(mine, theirs) == IF IsPrefix(theirs, mine) THEN mine ELSE theirs

(* fetchAndRebaseRefCommon: the local-only commits on top of the remote tip.
   When one side contains the other this is the longer of the two. *)
Replay(mine, theirs) == theirs \o Above(mine, theirs)

Diverged(mine, theirs) == ~IsPrefix(mine, theirs) /\ ~IsPrefix(theirs, mine)

Here(P, c) == {p \in P : CloneOf[p] = c}

-----------------------------------------------------------------------------
(* Variants of the actions below with a plausible bug each.  Nothing uses
   them; substituting one for its action must break a property. *)

(* git push --force. *)
AcceptForced(f) ==
  /\ fpc[f] \in Pushing /\ sent[f] # <<>>
  /\ remote' = sent[f]
  /\ delivered' = delivered \cup WritesIn(sent[f])
  /\ fpc' = [fpc EXCEPT ![f] = "remove"]
  /\ UNCHANGED <<local, fetched, queued, writers, sent, saw, target, rpc, written, replayed, queueing, lost>>

(* A refused push leaves its tip behind for the next attempt. *)
FailKeepsTip(f) ==
  /\ fpc[f] \in Pushing /\ sent[f] # <<>>
  /\ \E next \in {"single", "fetch", "idle"} : fpc' = [fpc EXCEPT ![f] = next]
  /\ UNCHANGED <<refs, writers, sent, saw, target, rpc, history>>

(* A flush clears the queue entry before it knows whether the push landed. *)
DrainRemoves(f) ==
  LET c == CloneOf[f] IN
  /\ fpc[f] = "idle" /\ queued[c] /\ local[c] # <<>>
  /\ queued' = [queued EXCEPT ![c] = FALSE]
  /\ fpc' = [fpc EXCEPT ![f] = "batch"]
  /\ UNCHANGED <<remote, local, fetched, writers, sent, saw, target, rpc, history>>

(* The replayed tip is never stored in the local ref. *)
AdvanceNothing(f) ==
  /\ fpc[f] = "advance"
  /\ fetched' = [fetched EXCEPT ![CloneOf[f]] = <<>>]
  /\ fpc' = [fpc EXCEPT ![f] = "retry"]
  /\ saw' = [saw EXCEPT ![f] = <<>>]
  /\ target' = [target EXCEPT ![f] = <<>>]
  /\ UNCHANGED <<remote, local, queued, writers, sent, rpc, history>>

-----------------------------------------------------------------------------
(* A write starts: the writer takes the ref's flock.  The first write of a
   checkpoint creates the ref; attach and backfills refuse while their clone
   has no copy of it. *)
StartWrite(w, s) ==
  LET c == CloneOf[w] IN
  /\ wpc[w] = "idle"
  /\ HomeOf[s] = c
  /\ Revision(s) <= MaxRev[s]
  /\ local[c] # <<>> \/ c = Creator
  /\ \A v \in Here(Writer, c) : wpc[v] \notin {"build", "cas"}
  /\ wpc' = [wpc EXCEPT ![w] = "build"]
  /\ subject' = [subject EXCEPT ![w] = s]
  /\ UNCHANGED <<refs, base, flushers, rpc, history>>

(* The commit is built from the tip just read. *)
Build(w) ==
  /\ wpc[w] = "build"
  /\ base' = [base EXCEPT ![w] = local[CloneOf[w]]]
  /\ wpc' = [wpc EXCEPT ![w] = "cas"]
  /\ UNCHANGED <<refs, subject, flushers, rpc, history>>

CasWins(w) ==
  LET c == CloneOf[w] IN
  /\ wpc[w] = "cas"
  /\ local[c] = base[w]
  /\ local' = [local EXCEPT ![c] = Append(base[w], CommitOn(base[w], subject[w]))]
  /\ written' = written \cup {<<subject[w], Revision(subject[w])>>}
  /\ wrote' = [wrote EXCEPT ![w] = {<<subject[w], Revision(subject[w])>>}]
  /\ wpc' = [wpc EXCEPT ![w] = "enqueue"]
  /\ base' = [base EXCEPT ![w] = <<>>]
  /\ UNCHANGED <<remote, fetched, queued, subject, flushers, rpc, delivered, replayed, missed, dropped, lost>>

(* Somebody without the flock moved the ref: build again from the new tip,
   until the retries are spent. *)
CasLoses(w) ==
  /\ wpc[w] = "cas"
  /\ local[CloneOf[w]] # base[w]
  /\ \E next \in {"build", "idle"} : wpc' = [wpc EXCEPT ![w] = next]
  /\ base' = [base EXCEPT ![w] = <<>>]
  /\ UNCHANGED <<refs, subject, flushers, rpc, history>>

Enqueue(w) ==
  /\ wpc[w] = "enqueue"
  /\ queued' = [queued EXCEPT ![CloneOf[w]] = TRUE]
  /\ wrote' = [wrote EXCEPT ![w] = {}]
  /\ wpc' = [wpc EXCEPT ![w] = "idle"]
  /\ UNCHANGED <<remote, local, fetched, subject, base, flushers, rpc>>
  /\ UNCHANGED <<written, delivered, replayed, missed, dropped, lost>>

(* The write fails before the ref moved, or the process dies, or enqueueing
   fails, which is only logged. *)
WriterStops(w) ==
  /\ wpc[w] # "idle"
  /\ wpc' = [wpc EXCEPT ![w] = "idle"]
  /\ base' = [base EXCEPT ![w] = <<>>]
  /\ wrote' = [wrote EXCEPT ![w] = {}]
  /\ missed' = IF queued[CloneOf[w]] THEN missed ELSE missed \cup wrote[w]
  /\ UNCHANGED <<refs, subject, flushers, rpc, written, delivered, replayed, dropped, lost>>

-----------------------------------------------------------------------------
(* flushCheckpointRefsQueue finds the ref in the queue and in the clone. *)
Drain(f) ==
  LET c == CloneOf[f] IN
  /\ fpc[f] = "idle"
  /\ queued[c]
  /\ local[c] # <<>>
  /\ fpc' = [fpc EXCEPT ![f] = "batch"]
  /\ UNCHANGED <<refs, writers, sent, saw, target, rpc, history>>

(* git push resolves the local ref ... *)
PushReads(f) ==
  /\ fpc[f] \in Pushing
  /\ sent[f] = <<>>
  /\ sent' = [sent EXCEPT ![f] = local[CloneOf[f]]]
  /\ UNCHANGED <<refs, writers, fpc, saw, target, rpc, history>>

(* ... and the remote takes it if that is a fast-forward. *)
PushAccepted(f) ==
  /\ fpc[f] \in Pushing
  /\ sent[f] # <<>>
  /\ IsPrefix(remote, sent[f])
  /\ remote' = sent[f]
  /\ delivered' = delivered \cup WritesIn(sent[f])
  /\ fpc' = [fpc EXCEPT ![f] = "remove"]
  /\ UNCHANGED <<local, fetched, queued, writers, sent, saw, target, rpc, written, replayed, queueing, lost>>

(* After a failed batch the refs are retried one by one, unless the failure
   was ssh authentication or the retries stop before this ref; a single push
   that fails goes on to recovery, unless a policy rejected it. *)
AfterFailure == [batch |-> {"single", "idle"}, single |-> {"fetch", "idle"}, retry |-> {"idle"}]

(* The push fails.  It may have landed all the same: the answer was lost, or
   another ref of the batch was refused. *)
PushFails(f) ==
  /\ fpc[f] \in Pushing
  /\ sent[f] # <<>>
  /\ \/ UNCHANGED remote
     \/ IsPrefix(remote, sent[f]) /\ remote' = sent[f]
  /\ \E next \in AfterFailure[fpc[f]] : fpc' = [fpc EXCEPT ![f] = next]
  /\ sent' = [sent EXCEPT ![f] = <<>>]
  /\ UNCHANGED <<local, fetched, queued, writers, saw, target, rpc, history>>

(* Recovery, first half: fetch the remote ref to the clone's temporary ref. *)
Fetch(f) ==
  /\ fpc[f] = "fetch"
  /\ remote # <<>>
  /\ fetched' = [fetched EXCEPT ![CloneOf[f]] = remote]
  /\ fpc' = [fpc EXCEPT ![f] = "read"]
  /\ UNCHANGED <<remote, local, queued, writers, sent, saw, target, rpc, history>>

(* Second half: read both refs and replay ... *)
ReplayLocal(f) ==
  LET c == CloneOf[f] IN
  /\ fpc[f] = "read"
  /\ fetched[c] # <<>>
  /\ saw' = [saw EXCEPT ![f] = local[c]]
  /\ target' = [target EXCEPT ![f] = Replay(local[c], fetched[c])]
  /\ replayed' = IF Diverged(local[c], fetched[c])
                   THEN replayed \cup WritesIn(Above(local[c], fetched[c]))
                   ELSE replayed
  /\ fpc' = [fpc EXCEPT ![f] = "advance"]
  /\ UNCHANGED <<refs, writers, sent, rpc, written, delivered, queueing, lost>>

(* ... then set the local ref, whatever it holds by now. *)
Advance(f) ==
  LET c == CloneOf[f] IN
  /\ fpc[f] = "advance"
  /\ local' = [local EXCEPT ![c] = target[f]]
  /\ fetched' = [fetched EXCEPT ![c] = <<>>]
  /\ fpc' = [fpc EXCEPT ![f] = "retry"]
  /\ saw' = [saw EXCEPT ![f] = <<>>]
  /\ target' = [target EXCEPT ![f] = <<>>]
  /\ lost' = lost \cup ((WritesIn(local[c]) \ WritesIn(saw[f])) \ WritesIn(target[f]))
  /\ UNCHANGED <<remote, queued, writers, sent, rpc, written, delivered, replayed, queueing>>

(* PushQueue.Remove after a confirmed push: by name, whatever was written and
   queued since the push read the ref. *)
Dequeue(f) ==
  LET c == CloneOf[f] IN
  /\ fpc[f] = "remove"
  /\ queued' = [queued EXCEPT ![c] = FALSE]
  /\ fpc' = [fpc EXCEPT ![f] = "idle"]
  /\ sent' = [sent EXCEPT ![f] = <<>>]
  /\ dropped' = dropped \cup
       ((WritesIn(local[c]) \ WritesIn(sent[f])) \ UNION {wrote[w] : w \in Here(Writer, c)})
  /\ UNCHANGED <<remote, local, fetched, writers, saw, target, rpc>>
  /\ UNCHANGED <<written, delivered, replayed, wrote, missed, lost>>

(* Fetch, replay or the queue rewrite fails, the budget runs out, or the hook
   is killed: the queue keeps its entry. *)
FlusherStops(f) ==
  /\ fpc[f] # "idle"
  /\ fpc' = [fpc EXCEPT ![f] = "idle"]
  /\ sent' = [sent EXCEPT ![f] = <<>>]
  /\ saw' = [saw EXCEPT ![f] = <<>>]
  /\ target' = [target EXCEPT ![f] = <<>>]
  /\ UNCHANGED <<refs, writers, rpc, history>>

-----------------------------------------------------------------------------
(* resolveRefMaybeFetch misses locally ... *)
MissLocally(r) ==
  /\ rpc[r] = "idle"
  /\ local[CloneOf[r]] = <<>>
  /\ rpc' = [rpc EXCEPT ![r] = "fetch"]
  /\ UNCHANGED <<refs, writers, flushers, history>>

(* ... and fetches +ref:ref, which overwrites; or finds nothing, or fails. *)
FetchMissing(r) ==
  LET c == CloneOf[r] IN
  /\ rpc[r] = "fetch"
  /\ \/ /\ remote # <<>>
        /\ local' = [local EXCEPT ![c] = remote]
        /\ lost' = lost \cup (WritesIn(local[c]) \ WritesIn(remote))
     \/ UNCHANGED <<local, lost>>
  /\ rpc' = [rpc EXCEPT ![r] = "idle"]
  /\ UNCHANGED <<remote, fetched, queued, writers, flushers, written, delivered, replayed, queueing>>

(* Nothing is left to do: every entry of the queue is gone. *)
Quiescent ==
  /\ \A c \in Clone : ~queued[c]
  /\ \A w \in Writer : wpc[w] = "idle"
  /\ \A f \in Flusher : fpc[f] = "idle"
  /\ UNCHANGED vars

WriterStep(w) == Build(w) \/ CasWins(w) \/ CasLoses(w) \/ Enqueue(w)

FlusherStep(f) ==
  \/ PushReads(f) \/ PushAccepted(f) \/ Fetch(f)
  \/ ReplayLocal(f) \/ Advance(f) \/ Dequeue(f)

Next ==
  \/ \E w \in Writer :
       (\E s \in Session : StartWrite(w, s)) \/ WriterStep(w) \/ WriterStops(w)
  \/ \E f \in Flusher :
       Drain(f) \/ FlusherStep(f) \/ PushFails(f) \/ FlusherStops(f)
  \/ \E r \in Reader : MissLocally(r) \/ FetchMissing(r)
  \/ Quiescent

Spec == Init /\ [][Next]_vars

(* What a clone is busy with. *)
Busy(c) ==
  {k \in {"write", "push", "read"} :
     \/ k = "write" /\ \E w \in Here(Writer, c) : wpc[w] # "idle"
     \/ k = "push" /\ \E f \in Here(Flusher, c) : fpc[f] # "idle"
     \/ k = "read" /\ \E r \in Here(Reader, c) : rpc[r] # "idle"}

(* No clone pushes while one of its own processes writes or fetches the ref.
   Nothing in the code enforces this; it separates what the store guarantees
   to one hook at a time from what it guarantees to overlapping ones.
   Different clones overlap freely. *)
Quiet == \A c \in Clone : Cardinality(Busy(c)) <= 1

QuietSpec == Init /\ [][Next /\ Quiet']_vars

(* Recovery has nothing to fetch, or lost what it fetched. *)
Helpless(f) ==
  \/ fpc[f] = "fetch" /\ remote = <<>>
  \/ fpc[f] = "read" /\ fetched[CloneOf[f]] = <<>>

(* A step in which nothing breaks: no process is killed, the remote refuses
   only what is not a fast-forward, and the refused push goes on to recovery.
   (A refused retry, a lost compare-and-swap, and the last step of a process
   that finds nothing to change look like a kill.) *)
Undisturbed ==
  /\ \A w \in Writer : WriterStops(w) => CasLoses(w) \/ Enqueue(w)
  /\ \A f \in Flusher :
       /\ FlusherStops(f) => Helpless(f) \/ PushFails(f) \/ Dequeue(f)
       /\ PushFails(f) =>
            ~IsPrefix(remote, sent[f]) /\ (fpc[f] = "retry" \/ fpc'[f] # "idle")

(* Processes run on, the user pushes again while the queue has an entry, and
   failures do not go on for ever. *)
FairQuietSpec ==
  /\ QuietSpec
  /\ \A w \in Writer : WF_vars(WriterStep(w) /\ Quiet')
  /\ \A r \in Reader : WF_vars(FetchMissing(r) /\ Quiet')
  /\ \A f \in Flusher :
       WF_vars((Drain(f) \/ FlusherStep(f) \/ PushFails(f) \/ (Helpless(f) /\ FlusherStops(f))) /\ Quiet')
  /\ <>[][Undisturbed]_vars

-----------------------------------------------------------------------------
(* What a flush has seen accepted stays on the remote, whatever the other
   clones push and replay afterwards.  ("the remote commit is preserved as an
   ancestor rather than overwritten", push_common.go.) *)
DeliveredStays == delivered \subseteq WritesIn(remote)

(* A write in a clone's ref that is not on the remote is in the queue, or about
   to be: failed pushes, recoveries and other hooks' pushes do not take it off.
   Apart from that stand the writes the queue never heard of, those removed
   with the entry of an older tip, and those a recovery had overwritten.
   (enqueueForPush, PushQueue.Remove.) *)
QueueCovers ==
  \A c \in Clone : \A x \in WritesIn(local[c]) :
    \/ x \in WritesIn(remote)
    \/ queued[c]
    \/ \E w \in Here(Writer, c) : x \in wrote[w]
    \/ x \in missed \cup dropped \cup lost

(* A write that succeeded stays in its clone's ref, through compare-and-swap
   races, other clones' writes and replays onto them, unless it came between a
   recovery's or a fetch's look at the ref and its unconditional update.
   (updatePersistentRef, fetchAndRebaseRefCommon, FetchCheckpointRef.) *)
LocalKeepsWrites ==
  \A x \in written \ lost : x \in WritesIn(local[HomeOf[x[1]]])

(* Every session that reached the remote can be read there: it is listed and
   its directory is its own. *)
PublishedReadable ==
  \A x \in WritesIn(remote) : Readable(remote, x[1])

(* Writers alone never give two sessions one directory or drop one from the
   list: only a replay onto a diverged remote does. *)
ReadableUnlessReplayed ==
  PublishedReadable \/ replayed \cap WritesIn(remote) # {}

(* What is in a clone's queue reaches the remote, though clones race each
   other for the fast-forward. *)
Published ==
  \A c \in Clone : queued[c] ~> WritesIn(local[c]) \subseteq WritesIn(remote)

=============================================================================
