------------------------------- MODULE FileLock ------------------------------
(***************************************************************************)
(* One lock file and the processes that lock it                            *)
(* (internal/flock/flock_unix.go, internal/flock/openlock.go), beside an   *)
(* uninstall that sweeps the lock directory (setup.go).                    *)
(*                                                                         *)
(* The kernel's lock belongs to an inode, not to a name.  A process opens  *)
(* the name, locks what it opened, and looks whether the name still leads  *)
(* there; if not it starts over.  Its descriptor keeps the inode alive, so *)
(* that no other file can get the same number meanwhile; after that the    *)
(* number may come back.                                                   *)
(*                                                                         *)
(* Each call is a process here: a goroutine locks on a descriptor of its   *)
(* own.  Left out: symbolic links, other entry points that open by a full  *)
(* path, and Windows, where nothing is looked at again.                    *)
(***************************************************************************)
EXTENDS Naturals

CONSTANTS
  Process,   \* whoever locks the file
  Inode,     \* inodes the file system has for it
  None,      \* nobody, or no file
  MaxTries   \* how often opening, and locking, is tried

ASSUME NoneAssumption == None \notin Process /\ None \notin Inode
ASSUME TriesAssumption == MaxTries \in Nat \ {0}

VARIABLES
  dir,      \* is there a lock directory?
  path,     \* the inode the name leads to, or None
  owner,    \* per inode: the process that has the kernel's lock on it
  pc,       \* per process: what it does next
  fd,       \* per process: the inode it has open, or None
  deadline, \* per process: does its context carry a deadline?
  opens,    \* per process: failed tries of this opening
  stale     \* per process: inodes locked that the name no longer led to

vars == <<dir, path, owner, pc, fd, deadline, opens, stale>>

TypeOK ==
  /\ dir \in BOOLEAN
  /\ path \in Inode \cup {None}
  /\ owner \in [Inode -> Process \cup {None}]
  /\ pc \in [Process -> {"idle", "create", "created", "open", "opened",
                       "lock", "check", "wait", "held"}]
  /\ fd \in [Process -> Inode \cup {None}]
  /\ deadline \in [Process -> BOOLEAN]
  /\ opens \in [Process -> 0..MaxTries - 1]
  /\ stale \in [Process -> 0..MaxTries - 1]
  /\ \A p \in Process :
       fd[p] # None <=> pc[p] \in {"created", "opened", "lock", "check", "held"}
  /\ ~dir => path = None

Init ==
  /\ dir = FALSE
  /\ path = None
  /\ owner = [i \in Inode |-> None]
  /\ pc = [p \in Process |-> "idle"]
  /\ fd = [p \in Process |-> None]
  /\ deadline = [p \in Process |-> FALSE]
  /\ opens = [p \in Process |-> 0]
  /\ stale = [p \in Process |-> 0]

-----------------------------------------------------------------------------
(* What closing p's descriptor does to the kernel's locks. *)
Unlocked(p) == [i \in Inode |-> IF owner[i] = p THEN None ELSE owner[i]]

(* The inode of a file that has neither a name nor a descriptor is free. *)
InUse(i) == i = path \/ \E p \in Process : fd[p] = i

GoesTo(p, step) == pc' = [pc EXCEPT ![p] = step]

(* p closes what it has open, if anything, and goes on without. *)
Closes(p, step) ==
  /\ GoesTo(p, step)
  /\ fd' = [fd EXCEPT ![p] = None]
  /\ owner' = Unlocked(p)

(* The call is over, with or without success. *)
Returns(p) ==
  /\ Closes(p, "idle")
  /\ deadline' = [deadline EXCEPT ![p] = FALSE]
  /\ opens' = [opens EXCEPT ![p] = 0]
  /\ stale' = [stale EXCEPT ![p] = 0]
  /\ UNCHANGED <<dir, path>>

(* stateLockForSession makes sure of the directory first. *)
Calls(p) ==
  /\ pc[p] = "idle"
  /\ dir' = TRUE
  /\ GoesTo(p, "create")
  /\ deadline' \in {[deadline EXCEPT ![p] = b] : b \in BOOLEAN}
  /\ UNCHANGED <<path, owner, fd, opens, stale>>

-----------------------------------------------------------------------------
(* openLockFileIn: an exclusive create, else a plain open; each looks at the
   name again before it returns (osroot.OpenFileNoFollow). *)

Opened(p, i, step) ==
  /\ fd' = [fd EXCEPT ![p] = i]
  /\ GoesTo(p, step)
  /\ UNCHANGED <<dir, owner, deadline, opens, stale>>

Creates(p) ==
  /\ pc[p] = "create" /\ dir /\ path = None
  /\ \E i \in Inode :
       /\ ~InUse(i)
       /\ path' = i
       /\ Opened(p, i, "created")

FindsFile(p) ==
  /\ pc[p] = "create" /\ path # None
  /\ GoesTo(p, "open")
  /\ UNCHANGED <<dir, path, owner, fd, deadline, opens, stale>>

Opens(p) ==
  /\ pc[p] = "open" /\ path # None
  /\ Opened(p, path, "opened")
  /\ UNCHANGED path

Validates(p) ==
  /\ pc[p] \in {"created", "opened"} /\ path = fd[p]
  /\ GoesTo(p, "lock")
  /\ opens' = [opens EXCEPT ![p] = 0]
  /\ UNCHANGED <<dir, path, owner, fd, deadline, stale>>

(* The file went away, or another one has the name now.  To one who created it
   a file that went away is an error, as is a directory that did. *)
Lost(p) ==
  \/ pc[p] = "open" /\ path = None
  \/ pc[p] = "opened" /\ path # fd[p]
  \/ pc[p] = "created" /\ path \notin {fd[p], None}

(* Variant: one try too many. *)
StartsOverOnceMore(p) ==
  /\ Lost(p) /\ opens[p] < MaxTries
  /\ Closes(p, "create")
  /\ opens' = [opens EXCEPT ![p] = @ + 1]
  /\ UNCHANGED <<dir, path, deadline, stale>>

StartsOver(p) ==
  /\ Lost(p) /\ opens[p] + 1 < MaxTries
  /\ Closes(p, "create")
  /\ opens' = [opens EXCEPT ![p] = @ + 1]
  /\ UNCHANGED <<dir, path, deadline, stale>>

GivesUpOpening(p) ==
  /\ \/ Lost(p) /\ opens[p] + 1 = MaxTries
     \/ pc[p] = "created" /\ path = None
     \/ pc[p] = "create" /\ ~dir
  /\ Returns(p)

-----------------------------------------------------------------------------
(* lockFile *)

Locks(p) ==
  /\ pc[p] = "lock" /\ owner[fd[p]] = None
  /\ owner' = [owner EXCEPT ![fd[p]] = p]
  /\ GoesTo(p, "check")
  /\ UNCHANGED <<dir, path, fd, deadline, opens, stale>>

(* With a deadline a lock that is taken is not waited for in the kernel: the
   file is closed and opened again after a while. *)
FindsItLocked(p) ==
  /\ pc[p] = "lock" /\ deadline[p] /\ owner[fd[p]] # None
  /\ Closes(p, "wait")
  /\ UNCHANGED <<dir, path, deadline, opens, stale>>

TriesAgain(p) ==
  /\ pc[p] = "wait"
  /\ GoesTo(p, "create")
  /\ UNCHANGED <<dir, path, owner, fd, deadline, opens, stale>>

(* Variant: whatever was locked will do. *)
HoldsWhatItLocked(p) ==
  /\ pc[p] = "check"
  /\ GoesTo(p, "held")
  /\ UNCHANGED <<dir, path, owner, fd, deadline, opens, stale>>

HoldsCurrent(p) ==
  /\ pc[p] = "check" /\ path = fd[p]
  /\ GoesTo(p, "held")
  /\ UNCHANGED <<dir, path, owner, fd, deadline, opens, stale>>

FindsItStale(p) ==
  /\ pc[p] = "check" /\ path # fd[p] /\ stale[p] + 1 < MaxTries
  /\ Closes(p, IF deadline[p] THEN "wait" ELSE "create")
  /\ stale' = [stale EXCEPT ![p] = @ + 1]
  /\ UNCHANGED <<dir, path, deadline, opens>>

GivesUpLocking(p) ==
  /\ pc[p] = "check" /\ path # fd[p] /\ stale[p] + 1 = MaxTries
  /\ Returns(p)

(* The deadline is looked at before each wait. *)
TimesOut(p) ==
  /\ pc[p] = "wait"
  /\ Returns(p)

Releases(p) ==
  /\ pc[p] = "held"
  /\ Returns(p)

(* Killed, or a system call fails: the kernel closes what was open. *)
Dies(p) ==
  /\ pc[p] # "idle"
  /\ Returns(p)

(* Uninstall removes the file and then the directory, whoever is using them; a
   file created in between keeps the directory, or is removed as well. *)
SweepsFile ==
  /\ path # None
  /\ path' = None
  /\ UNCHANGED <<dir, owner, pc, fd, deadline, opens, stale>>

SweepsDirectory ==
  /\ dir /\ path = None
  /\ dir' = FALSE
  /\ UNCHANGED <<path, owner, pc, fd, deadline, opens, stale>>

-----------------------------------------------------------------------------
Acts(p) ==
  \/ Calls(p) \/ Creates(p) \/ FindsFile(p) \/ Opens(p) \/ Validates(p) \/ StartsOver(p)
  \/ GivesUpOpening(p)
  \/ Locks(p) \/ FindsItLocked(p) \/ TriesAgain(p) \/ HoldsCurrent(p) \/ FindsItStale(p)
  \/ GivesUpLocking(p) \/ TimesOut(p) \/ Releases(p) \/ Dies(p)

Next == SweepsFile \/ SweepsDirectory \/ \E p \in Process : Acts(p)

Spec == Init /\ [][Next]_vars

-----------------------------------------------------------------------------
(* Who has the lock: it believes so, and the file it locked has the name. *)
Has(p) == pc[p] = "held" /\ fd[p] = path

holder == IF \E p \in Process : Has(p) THEN CHOOSE p \in Process : Has(p) ELSE None
orphaned == {p \in Process : pc[p] = "held" /\ fd[p] # path}

(* The file is an atomic lock: nobody takes it while another has it, however
   opening, locking, checking, removing and creating the file interleave, and
   only a removal while it is held (setup.go:3297) lets a second one in. *)
Atomic == INSTANCE AtomicLock WITH
  Process <- Process, None <- None, holder <- holder, orphaned <- orphaned
ImplementsLock == Atomic!Spec

==============================================================================
