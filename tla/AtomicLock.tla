----------------------------- MODULE AtomicLock ------------------------------
(***************************************************************************)
(* What a lock file promises to those who lock it, without files: at most  *)
(* one process has the lock, which it takes and gives up in one step.      *)
(* Removing the file takes the lock from whoever has it, without telling;  *)
(* that process goes on as orphaned.  Nothing else makes an orphan.        *)
(***************************************************************************)
CONSTANTS Process, None

VARIABLES
  holder,    \* the process that has the lock, or None
  orphaned   \* processes that had it when the file was removed

lockVars == <<holder, orphaned>>

Init ==
  /\ holder = None
  /\ orphaned = {}

Acquire(p) ==
  /\ holder = None /\ p \notin orphaned
  /\ holder' = p
  /\ UNCHANGED orphaned

Release(p) ==
  /\ holder = p
  /\ holder' = None
  /\ UNCHANGED orphaned

Remove ==
  /\ holder # None
  /\ holder' = None
  /\ orphaned' = orphaned \cup {holder}

Discard(p) ==
  /\ p \in orphaned
  /\ orphaned' = orphaned \ {p}
  /\ UNCHANGED holder

Next == Remove \/ \E p \in Process : Acquire(p) \/ Release(p) \/ Discard(p)

Spec == Init /\ [][Next]_lockVars

==============================================================================
