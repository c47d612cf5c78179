----------------------------- MODULE FlushQueue -----------------------------
(***************************************************************************)
(* The push-discovery queue and the flush that drains it                   *)
(* (checkpoint/pushqueue.go, flushCheckpointRefsQueue in                   *)
(* strategy/manual_commit_push.go).                                        *)
(*                                                                         *)
(* The queue is an append-only file of ref names; every operation on it    *)
(* takes the queue's lock, so each is one step.  A flush runs in a         *)
(* pre-push hook: it drains the queue without removing anything, tries one *)
(* batch push, then each ref on its own until a budget or a streak of      *)
(* failures stops it, and finally removes what landed and, when it stopped *)
(* early, moves what failed to the back.                                   *)
(*                                                                         *)
(* What a push of one ref does to the remote is CheckpointSync's subject;  *)
(* here it lands or fails.                                                 *)
(***************************************************************************)
EXTENDS Naturals, FiniteSets, SequencesExt

CONSTANTS
  Ref,            \* checkpoint refs
  Present,        \* refs that exist in the clone; the others were cleaned up
  Blocked,        \* refs the remote always refuses
  Hook,           \* pre-push hooks
  MaxConsecutive, \* maxConsecutiveRefPushFailures
  MaxLines        \* bound: length of the queue file

ASSUME RefAssumption == Present \subseteq Ref /\ Blocked \subseteq Present

ASSUME BoundAssumption == MaxConsecutive \in Nat \ {0} /\ MaxLines \in Nat

VARIABLES
  lines,      \* the queue file
  pc,         \* per hook: idle, stale, batch, retry, remove, rotate
  todo,       \* per hook: drained refs not attempted yet
  pushed,     \* per hook: refs that landed in this flush
  failed,     \* per hook: refs that failed in this flush
  streak,     \* per hook: consecutive failures
  reason,     \* per hook: why the retries stopped early
  enqueued,   \* refs ever enqueued (history)
  landed      \* refs some flush saw land (history)

hooks == <<pc, todo, pushed, failed, streak, reason>>
history == <<enqueued, landed>>
vars == <<lines, hooks, history>>

Reasons == {"none", "budget", "interrupted", "failures"}

TypeOK ==
  /\ lines \in Seq(Ref)
  /\ pc \in [Hook -> {"idle", "stale", "batch", "retry", "remove", "rotate"}]
  /\ todo \in [Hook -> Seq(Ref)]
  /\ pushed \in [Hook -> SUBSET Ref]
  /\ failed \in [Hook -> SUBSET Ref]
  /\ streak \in [Hook -> 0..MaxConsecutive]
  /\ reason \in [Hook -> Reasons]
  /\ landed \subseteq enqueued
  /\ enqueued \subseteq Ref
  /\ \A h \in Hook : pushed[h] \cap failed[h] = {}

Init ==
  /\ lines = <<>>
  /\ pc = [h \in Hook |-> "idle"]
  /\ todo = [h \in Hook |-> <<>>]
  /\ pushed = [h \in Hook |-> {}]
  /\ failed = [h \in Hook |-> {}]
  /\ streak = [h \in Hook |-> 0]
  /\ reason = [h \in Hook |-> "none"]
  /\ enqueued = {}
  /\ landed = {}

-----------------------------------------------------------------------------
Goto(h, label) == pc' = [pc EXCEPT ![h] = label]

(* The lines of q at the positions in P, in their order. *)
Rank(P, i) == Cardinality({j \in P : j <= i})

LinesAt(q, P) == [n \in 1..Cardinality(P) |-> q[CHOOSE i \in P : Rank(P, i) = n]]

(* readLocked skips a line that was seen before. *)
FirstSeen(q) == {i \in 1..Len(q) : \A j \in 1..i - 1 : q[j] # q[i]}

Deduped(q) == LinesAt(q, FirstSeen(q))

Only(q, S) == LinesAt(q, {i \in FirstSeen(q) : q[i] \in S})

Without(q, S) == Only(q, Ref \ S)

(* PushQueue.Remove and PushQueue.Rotate.  Both leave the file alone when they
   have nothing to do. *)
Removed(q, S) == IF S = {} THEN q ELSE Without(q, S)

(* The reorder keeps only the refs it rotates. *)
RotatedAlone(q, S) == IF ToSet(q) \cap S = {} THEN q ELSE Only(q, S)

Rotated(q, S) == IF ToSet(q) \cap S = {} THEN q ELSE Without(q, S) \o Only(q, S)

(* The flush is over; the process's memory of it is gone. *)
Forget(h) ==
  /\ Goto(h, "idle")
  /\ todo' = [todo EXCEPT ![h] = <<>>]
  /\ pushed' = [pushed EXCEPT ![h] = {}]
  /\ failed' = [failed EXCEPT ![h] = {}]
  /\ streak' = [streak EXCEPT ![h] = 0]
  /\ reason' = [reason EXCEPT ![h] = "none"]

-----------------------------------------------------------------------------
(* Variants of the actions below with a plausible bug each.  Nothing uses
   them; substituting one for its action must break a property. *)

(* The streak is not looked at before the next attempt. *)
AttemptFailsOnAndOn(h) ==
  /\ pc[h] = "retry" /\ todo[h] # <<>>
  /\ failed' = [failed EXCEPT ![h] = @ \cup {Head(todo[h])}]
  /\ streak' = [streak EXCEPT ![h] = @ + 1]
  /\ todo' = [todo EXCEPT ![h] = Tail(@)]
  /\ UNCHANGED <<lines, pc, pushed, reason, history>>

(* Only the streak of failures rotates the queue, not an exhausted budget. *)
RemoveRotatingAfterStreakOnly(h) ==
  /\ pc[h] = "remove"
  /\ lines' = Removed(lines, pushed[h])
  /\ IF reason[h] = "failures" /\ failed[h] # {}
       THEN Goto(h, "rotate") /\ UNCHANGED <<todo, pushed, failed, streak, reason>>
       ELSE Forget(h)
  /\ UNCHANGED history

-----------------------------------------------------------------------------
(* PushQueue.Enqueue, by any writer. *)
Enqueue(r) ==
  /\ Len(lines) < MaxLines
  /\ lines' = Append(lines, r)
  /\ enqueued' = enqueued \cup {r}
  /\ UNCHANGED <<hooks, landed>>

(* PushQueue.Drain: reads, and compacts redundant lines away. *)
Drain(h) ==
  /\ pc[h] = "idle"
  /\ lines # <<>>
  /\ todo' = [todo EXCEPT ![h] = Deduped(lines)]
  /\ lines' = Deduped(lines)
  /\ Goto(h, "stale")
  /\ UNCHANGED <<pushed, failed, streak, reason, history>>

(* partitionLocalRefs: refs that are gone leave the queue. *)
PruneStale(h) ==
  /\ pc[h] = "stale"
  /\ \/ lines' = Removed(lines, ToSet(todo[h]) \ Present)
     \/ UNCHANGED lines
  /\ todo' = [todo EXCEPT ![h] = Only(@, Present)]
  /\ Goto(h, IF Only(todo[h], Present) = <<>> THEN "idle" ELSE "batch")
  /\ UNCHANGED <<pushed, failed, streak, reason, history>>

(* batchPushRefs: all in one round-trip. *)
BatchLands(h) ==
  /\ pc[h] = "batch"
  /\ ToSet(todo[h]) \cap Blocked = {}
  /\ pushed' = [pushed EXCEPT ![h] = ToSet(todo[h])]
  /\ landed' = landed \cup ToSet(todo[h])
  /\ todo' = [todo EXCEPT ![h] = <<>>]
  /\ Goto(h, "remove")
  /\ UNCHANGED <<lines, failed, streak, reason, enqueued>>

BatchFails(h) ==
  /\ pc[h] = "batch"
  /\ Goto(h, "retry")
  /\ UNCHANGED <<lines, todo, pushed, failed, streak, reason, history>>

(* ssh cannot authenticate: the flush gives up. *)
AuthenticationFails(h) ==
  /\ pc[h] = "batch"
  /\ Forget(h)
  /\ UNCHANGED <<lines, history>>

(* pushCheckpointRefWithRecovery on the next ref. *)
AttemptLands(h) ==
  /\ pc[h] = "retry"
  /\ todo[h] # <<>>
  /\ streak[h] < MaxConsecutive
  /\ Head(todo[h]) \notin Blocked
  /\ pushed' = [pushed EXCEPT ![h] = @ \cup {Head(todo[h])}]
  /\ landed' = landed \cup {Head(todo[h])}
  /\ streak' = [streak EXCEPT ![h] = 0]
  /\ todo' = [todo EXCEPT ![h] = Tail(@)]
  /\ UNCHANGED <<lines, pc, failed, reason, enqueued>>

AttemptFails(h) ==
  /\ pc[h] = "retry"
  /\ todo[h] # <<>>
  /\ streak[h] < MaxConsecutive
  /\ failed' = [failed EXCEPT ![h] = @ \cup {Head(todo[h])}]
  /\ streak' = [streak EXCEPT ![h] = @ + 1]
  /\ todo' = [todo EXCEPT ![h] = Tail(@)]
  /\ UNCHANGED <<lines, pc, pushed, reason, history>>

(* flushAbortReason: never before the first attempt, and only while refs are
   left to skip. *)
StopEarly(h) ==
  /\ pc[h] = "retry"
  /\ todo[h] # <<>>
  /\ pushed[h] \cup failed[h] # {}
  /\ \E why \in {"budget", "interrupted", "failures"} :
       /\ why = "failures" => streak[h] >= MaxConsecutive
       /\ reason' = [reason EXCEPT ![h] = why]
  /\ Goto(h, "remove")
  /\ UNCHANGED <<lines, todo, pushed, failed, streak, history>>

LastAttempted(h) ==
  /\ pc[h] = "retry"
  /\ todo[h] = <<>>
  /\ Goto(h, "remove")
  /\ UNCHANGED <<lines, todo, pushed, failed, streak, reason, history>>

(* PushQueue.Remove of what landed; it may fail, which is only logged.  The
   failures are rotated when the flush was bounded, not when it was
   interrupted. *)
RemovePushed(h) ==
  /\ pc[h] = "remove"
  /\ \/ lines' = Removed(lines, pushed[h])
     \/ UNCHANGED lines
  /\ IF reason[h] \in {"budget", "failures"} /\ failed[h] # {}
       THEN Goto(h, "rotate") /\ UNCHANGED <<todo, pushed, failed, streak, reason>>
       ELSE Forget(h)
  /\ UNCHANGED history

Rotate(h) ==
  /\ pc[h] = "rotate"
  /\ lines' = Rotated(lines, failed[h])
  /\ Forget(h)
  /\ UNCHANGED history

(* The hook is killed. *)
Die(h) ==
  /\ pc[h] # "idle"
  /\ Forget(h)
  /\ UNCHANGED <<lines, history>>

HookStep(h) ==
  \/ PruneStale(h) \/ BatchLands(h) \/ BatchFails(h) \/ AuthenticationFails(h)
  \/ AttemptLands(h) \/ AttemptFails(h) \/ StopEarly(h) \/ LastAttempted(h)
  \/ RemovePushed(h) \/ Rotate(h)

Next ==
  \/ \E r \in Ref : Enqueue(r)
  \/ \E h \in Hook : Drain(h) \/ HookStep(h) \/ Die(h)

Spec == Init /\ [][Next]_vars

(* In the long run no hook is killed or interrupted, ssh has its key, and the
   queue file can be rewritten.  (A step that ends a flush and leaves the file
   as it was looks like a kill.)  Pushes may go on failing and the budget may
   run out every time. *)
Undisturbed ==
  \A h \in Hook :
    /\ ~AuthenticationFails(h)
    /\ Die(h) => RemovePushed(h) \/ Rotate(h)
    /\ reason'[h] # "interrupted"
    /\ RemovePushed(h) => lines' = Removed(lines, pushed[h])

LandsWhenTried(h, r) == AttemptLands(h) /\ Head(todo[h]) = r

Tried(h, r) == (AttemptLands(h) \/ AttemptFails(h)) /\ Head(todo[h]) = r

(* The user pushes again while the queue has an entry, a started hook runs on,
   and a ref the remote does not refuse lands if it is really attempted again
   and again: being next when the budget runs out is no attempt. *)
FairSpec ==
  /\ Spec
  /\ <>[][Undisturbed]_vars
  /\ \A h \in Hook :
       /\ WF_vars(Drain(h) \/ HookStep(h))
       /\ \A r \in Present \ Blocked :
            []<><<Tried(h, r)>>_vars => []<><<LandsWhenTried(h, r)>>_vars

-----------------------------------------------------------------------------
(* A ref leaves the queue only by landing or by being gone from the clone:
   no crash, failed rewrite, rotation or second hook drops it. *)
HeldUntilLanded ==
  \A r \in enqueued \cap Present : r \in landed \/ Contains(lines, r)

(* A ref the remote would take is not stuck behind refs it refuses, however
   early each flush stops.  (The comment of PushQueue.Rotate: "every queued
   ref eventually gets an attempt".) *)
HealthyRefLands ==
  \A r \in Present \ Blocked : Contains(lines, r) ~> ~Contains(lines, r)

=============================================================================
