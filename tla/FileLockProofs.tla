--------------------------- MODULE FileLockProofs ----------------------------
(***************************************************************************)
(* Theorems about FileLock.                                                *)
(***************************************************************************)
EXTENDS FileLock, TLAPS

(* The kernel's lock on an inode belongs to the process that locked it there
   and has not closed it. *)
Owns ==
  \A p \in Process, i \in Inode :
    owner[i] = p <=> pc[p] \in {"check", "held"} /\ fd[p] = i

IInv == TypeOK /\ Owns

Rest(p) == \A q \in Process : q # p => pc'[q] = pc[q] /\ fd'[q] = fd[q]

-----------------------------------------------------------------------------
(***************************************************************************)
(* The invariant.                                                          *)
(***************************************************************************)

LEMMA UnlockedType ==
  ASSUME IInv, NEW p \in Process
  PROVE  /\ Unlocked(p) \in [Inode -> Process \cup {None}]
         /\ \A q \in Process, i \in Inode : Unlocked(p)[i] = q <=> q # p /\ owner[i] = q
BY NoneAssumption DEF IInv, TypeOK, Unlocked

LEMMA ClosesKeeps ==
  ASSUME IInv, NEW p \in Process, NEW step \in {"idle", "create", "wait"}, Closes(p, step)
  PROVE  /\ pc' \in [Process -> {"idle", "create", "created", "open", "opened",
                                 "lock", "check", "wait", "held"}]
         /\ fd' \in [Process -> Inode \cup {None}]
         /\ owner' \in [Inode -> Process \cup {None}]
         /\ pc'[p] = step /\ fd'[p] = None
         /\ Rest(p)
         /\ \A q \in Process :
              fd'[q] # None <=> pc'[q] \in {"created", "opened", "lock", "check", "held"}
         /\ Owns'
<1>1. /\ pc' \in [Process -> {"idle", "create", "created", "open", "opened",
                              "lock", "check", "wait", "held"}]
      /\ fd' \in [Process -> Inode \cup {None}]
      /\ pc'[p] = step /\ fd'[p] = None
      /\ Rest(p)
  BY DEF IInv, TypeOK, Closes, GoesTo, Rest
<1>2. /\ owner' \in [Inode -> Process \cup {None}]
      /\ \A q \in Process, i \in Inode : owner'[i] = q <=> q # p /\ owner[i] = q
  BY UnlockedType DEF Closes
<1>3. \A q \in Process :
        fd'[q] # None <=> pc'[q] \in {"created", "opened", "lock", "check", "held"}
  BY <1>1 DEF IInv, TypeOK, Rest
<1>4. Owns'
  <2> SUFFICES ASSUME NEW q \in Process, NEW i \in Inode
               PROVE  owner'[i] = q <=> pc'[q] \in {"check", "held"} /\ fd'[q] = i
    BY DEF Owns
  <2>1. CASE q = p
    BY <1>1, <1>2, <2>1
  <2>2. CASE q # p
    BY <1>1, <1>2, <2>2 DEF IInv, Owns, Rest
  <2> QED BY <2>1, <2>2
<1> QED BY <1>1, <1>2, <1>3, <1>4

LEMMA ReturnsKeeps ==
  ASSUME IInv, NEW p \in Process, Returns(p)
  PROVE  IInv'
<1>1. Closes(p, "idle")
  BY DEF Returns
<1>2. TypeOK'
  BY <1>1, ClosesKeeps, TriesAssumption DEF Returns, IInv, TypeOK
<1> QED BY <1>1, <1>2, ClosesKeeps DEF IInv

LEMMA OpenedKeeps ==
  ASSUME IInv, NEW p \in Process, NEW i \in Inode, NEW step \in {"created", "opened"},
         pc[p] \in {"create", "open"}, Opened(p, i, step), path' \in {path, i},
         path' # None => dir
  PROVE  IInv'
<1>1. TypeOK'
  BY NoneAssumption DEF Opened, GoesTo, IInv, TypeOK
<1>2. Owns'
  BY DEF Opened, GoesTo, IInv, TypeOK, Owns
<1> QED BY <1>1, <1>2 DEF IInv

(* A process that goes on to another step with the same descriptor. *)
LEMMA GoesOnKeeps ==
  ASSUME IInv, NEW p \in Process, NEW step, UNCHANGED <<path, owner, fd, opens, stale>>,
         GoesTo(p, step), deadline' \in [Process -> BOOLEAN],
         dir' \in BOOLEAN, dir => dir',
         \/ pc[p] \in {"idle", "create", "open", "wait"} /\ step \in {"create", "open"}
         \/ pc[p] = "check" /\ step = "held"
  PROVE  IInv'
<1>1. TypeOK'
  BY DEF GoesTo, IInv, TypeOK
<1>2. Owns'
  BY DEF GoesTo, IInv, TypeOK, Owns
<1> QED BY <1>1, <1>2 DEF IInv

LEMMA ValidatesKeeps ==
  ASSUME IInv, NEW p \in Process, Validates(p)
  PROVE  IInv'
<1>1. TypeOK'
  BY TriesAssumption DEF Validates, GoesTo, IInv, TypeOK
<1>2. Owns'
  BY DEF Validates, GoesTo, IInv, TypeOK, Owns
<1> QED BY <1>1, <1>2 DEF IInv

LEMMA LocksKeeps ==
  ASSUME IInv, NEW p \in Process, Locks(p)
  PROVE  IInv'
<1>1. fd[p] \in Inode
  BY DEF Locks, IInv, TypeOK
<1>2. TypeOK'
  BY <1>1 DEF Locks, GoesTo, IInv, TypeOK
<1>3. Owns'
  <2> SUFFICES ASSUME NEW q \in Process, NEW i \in Inode
               PROVE  owner'[i] = q <=> pc'[q] \in {"check", "held"} /\ fd'[q] = i
    BY DEF Owns
  <2>1. CASE i = fd[p]
    BY <1>1, <2>1, NoneAssumption DEF Locks, GoesTo, IInv, TypeOK, Owns
  <2>2. CASE i # fd[p]
    BY <1>1, <2>2 DEF Locks, GoesTo, IInv, TypeOK, Owns
  <2> QED BY <2>1, <2>2
<1> QED BY <1>2, <1>3 DEF IInv

LEMMA RetriesKeeps ==
  ASSUME IInv, NEW p \in Process, StartsOver(p) \/ FindsItLocked(p) \/ FindsItStale(p)
  PROVE  IInv'
<1>1. PICK step \in {"create", "wait"} : Closes(p, step)
  BY DEF StartsOver, FindsItLocked, FindsItStale
<1>2. /\ opens' \in [Process -> 0..MaxTries - 1]
      /\ stale' \in [Process -> 0..MaxTries - 1]
      /\ UNCHANGED <<dir, path, deadline>>
  BY TriesAssumption DEF StartsOver, FindsItLocked, FindsItStale, IInv, TypeOK
<1>3. TypeOK'
  BY <1>1, <1>2, ClosesKeeps DEF IInv, TypeOK
<1> QED BY <1>1, <1>3, ClosesKeeps DEF IInv

LEMMA SweepsKeeps ==
  ASSUME IInv, SweepsFile \/ SweepsDirectory
  PROVE  IInv'
<1>1. TypeOK'
  BY DEF SweepsFile, SweepsDirectory, IInv, TypeOK
<1>2. Owns'
  BY DEF SweepsFile, SweepsDirectory, IInv, Owns
<1> QED BY <1>1, <1>2 DEF IInv

LEMMA InitInv == Init => IInv
<1> SUFFICES ASSUME Init PROVE IInv
  OBVIOUS
<1>1. 0 \in 0..MaxTries - 1
  BY TriesAssumption
<1>2. TypeOK
  BY <1>1 DEF Init, TypeOK
<1>3. Owns
  BY NoneAssumption DEF Init, Owns
<1> QED BY <1>2, <1>3 DEF IInv

LEMMA NextKeeps == IInv /\ [Next]_vars => IInv'
<1> SUFFICES ASSUME IInv, [Next]_vars PROVE IInv'
  OBVIOUS
<1>1. CASE SweepsFile \/ SweepsDirectory
  BY <1>1, SweepsKeeps
<1>2. ASSUME NEW p \in Process, Acts(p) PROVE IInv'
  <2>1. CASE Calls(p)
    BY <2>1, GoesOnKeeps DEF Calls, IInv, TypeOK
  <2>2. CASE FindsFile(p)
    BY <2>2, GoesOnKeeps DEF FindsFile, IInv, TypeOK
  <2>3. CASE TriesAgain(p)
    BY <2>3, GoesOnKeeps DEF TriesAgain, IInv, TypeOK
  <2>4. CASE HoldsCurrent(p)
    BY <2>4, GoesOnKeeps DEF HoldsCurrent, IInv, TypeOK
  <2>5. CASE Creates(p)
    BY <2>5, OpenedKeeps DEF Creates
  <2>6. CASE Opens(p)
    BY <2>6, OpenedKeeps DEF Opens, IInv, TypeOK
  <2>7. CASE Returns(p)
    BY <2>7, ReturnsKeeps
  <2> QED BY <1>2, <2>1, <2>2, <2>3, <2>4, <2>5, <2>6, <2>7, ValidatesKeeps, LocksKeeps, RetriesKeeps
          DEF Acts, GivesUpOpening, GivesUpLocking, TimesOut, Releases, Dies
<1>3. CASE UNCHANGED vars
  BY <1>3 DEF vars, IInv, TypeOK, Owns
<1> QED BY <1>1, <1>2, <1>3 DEF Next

LEMMA Always == Spec => []IInv
BY InitInv, NextKeeps, PTL DEF Spec

(* Every variable has its type: a process has the file open exactly while it
   should, and no try is made too often. *)
THEOREM TypeCorrect == Spec => []TypeOK
<1>1. IInv => TypeOK
  BY DEF IInv
<1> QED BY <1>1, Always, PTL

-----------------------------------------------------------------------------
(***************************************************************************)
(* The refinement.                                                         *)
(***************************************************************************)

LEMMA OneHas ==
  ASSUME IInv, NEW p \in Process, NEW q \in Process, Has(p), Has(q)
  PROVE  p = q
BY DEF IInv, TypeOK, Owns, Has

HolderOK ==
  /\ \A p \in Process : holder = p <=> Has(p)
  /\ holder = None <=> \A p \in Process : ~Has(p)

LEMMA HolderIs == IInv => HolderOK
<1> SUFFICES ASSUME IInv PROVE HolderOK
  OBVIOUS
<1>1. CASE \E p \in Process : Has(p)
  <2>1. PICK p \in Process : Has(p)
    BY <1>1
  <2>2. holder = (CHOOSE q \in Process : Has(q))
    BY <1>1 DEF holder
  <2>3. holder \in Process /\ Has(holder)
    BY <2>1, <2>2
  <2> QED BY <2>3, OneHas, NoneAssumption DEF HolderOK
<1>2. CASE ~\E p \in Process : Has(p)
  BY <1>2, NoneAssumption DEF holder, HolderOK
<1> QED BY <1>1, <1>2

LEMMA HolderNext == IInv' => HolderOK'
BY HolderIs, PTL

(* A step that leaves those who have the lock and the orphans as they are. *)
LEMMA Stutter ==
  ASSUME IInv, IInv', \A p \in Process : Has(p)' <=> Has(p),
         \A p \in Process : p \in orphaned' <=> p \in orphaned
  PROVE  UNCHANGED Atomic!lockVars
<1>1. HolderOK /\ HolderOK'
  BY HolderIs, HolderNext
<1>2. holder' = holder
  <2>1. CASE \E p \in Process : Has(p)
    BY <1>1, <2>1 DEF HolderOK
  <2>2. CASE \A p \in Process : ~Has(p)
    BY <1>1, <2>2 DEF HolderOK
  <2> QED BY <2>1, <2>2
<1>3. orphaned' = orphaned
  BY DEF orphaned
<1> QED BY <1>2, <1>3 DEF Atomic!lockVars

(* A process that neither had the lock nor comes to hold it, whatever it opens
   or closes. *)
LEMMA ElsewhereStutters ==
  ASSUME IInv, IInv', NEW p \in Process, pc[p] # "held", pc'[p] # "held", Rest(p),
         path' = path \/ (path = None /\ \A q \in Process : fd[q] # path')
  PROVE  UNCHANGED Atomic!lockVars
<1>1. \A q \in Process : pc[q] = "held" => fd[q] # None
  BY DEF IInv, TypeOK
<1>2. ASSUME NEW q \in Process
      PROVE  (Has(q)' <=> Has(q)) /\ (q \in orphaned' <=> q \in orphaned)
  BY <1>1 DEF Has, orphaned, Rest
<1> QED BY <1>2, Stutter

(* Whoever returns gives up what it had. *)
LEMMA ReturnsIs ==
  ASSUME IInv, IInv', NEW p \in Process, Returns(p)
  PROVE  [Atomic!Next]_(Atomic!lockVars)
<1>1. /\ pc'[p] = "idle" /\ Rest(p) /\ path' = path
  BY ClosesKeeps DEF Returns
<1>2. CASE pc[p] # "held"
  <2>1. UNCHANGED Atomic!lockVars
    BY <1>1, <1>2, ElsewhereStutters
  <2> QED BY <2>1
<1>3. CASE Has(p)
  <2>1. \A q \in Process : Has(q)' <=> q # p /\ Has(q)
    BY <1>1 DEF Has, Rest
  <2>2. \A q \in Process : ~Has(q)'
    BY <1>3, <2>1, OneHas
  <2>3. holder = p /\ holder' = None
    BY <1>3, <2>2, HolderIs, HolderNext DEF HolderOK
  <2>4. orphaned' = orphaned
    BY <1>1, <1>3 DEF Has, Rest, orphaned
  <2> QED BY <2>3, <2>4 DEF Atomic!Next, Atomic!Release
<1>4. CASE pc[p] = "held" /\ ~Has(p)
  <2>1. \A q \in Process : Has(q)' <=> Has(q)
    BY <1>1, <1>4 DEF Has, Rest
  <2>2. holder' = holder
    BY <2>1, HolderIs, HolderNext DEF HolderOK
  <2>3. p \in orphaned /\ orphaned' = orphaned \ {p}
    BY <1>1, <1>4 DEF Has, Rest, orphaned
  <2> QED BY <2>2, <2>3 DEF Atomic!Next, Atomic!Discard
<1> QED BY <1>2, <1>3, <1>4

(* It holds the lock from the check on: the kernel's lock on the inode of the
   name keeps everybody else out. *)
LEMMA HoldsIs ==
  ASSUME IInv, IInv', NEW p \in Process, HoldsCurrent(p)
  PROVE  Atomic!Acquire(p)
<1>1. /\ pc[p] = "check" /\ path = fd[p] /\ pc'[p] = "held"
      /\ Rest(p) /\ path' = path /\ fd'[p] = fd[p]
  BY DEF HoldsCurrent, GoesTo, IInv, TypeOK, Rest
<1>2. \A q \in Process : ~Has(q)
  <2> SUFFICES ASSUME NEW q \in Process, Has(q) PROVE FALSE
    OBVIOUS
  <2>1. path \in Inode
    BY <1>1 DEF IInv, TypeOK
  <2>2. owner[path] = p /\ owner[path] = q
    BY <1>1, <2>1 DEF IInv, Owns, Has
  <2> QED BY <1>1, <2>2 DEF Has
<1>3. Has(p)'
  BY <1>1 DEF Has
<1>4. holder = None /\ holder' = p
  BY <1>2, <1>3, HolderIs, HolderNext DEF HolderOK
<1>5. p \notin orphaned /\ orphaned' = orphaned
  BY <1>1 DEF orphaned, Rest
<1> QED BY <1>4, <1>5 DEF Atomic!Acquire

LEMMA SweepsIs ==
  ASSUME IInv, IInv', SweepsFile
  PROVE  [Atomic!Next]_(Atomic!lockVars)
<1>1. \A q \in Process : ~Has(q)'
  BY DEF SweepsFile, Has, IInv, TypeOK
<1>2. holder' = None
  BY <1>1, HolderNext DEF HolderOK
<1>3. orphaned' = {q \in Process : pc[q] = "held"}
  BY <1>1 DEF orphaned, Has, SweepsFile
<1>4. CASE \E p \in Process : Has(p)
  <2>1. PICK p \in Process : Has(p)
    BY <1>4
  <2>2. holder = p /\ holder # None
    BY <2>1, HolderIs, NoneAssumption DEF HolderOK
  <2>3. orphaned' = orphaned \cup {p}
    BY <1>3, <2>1, OneHas DEF orphaned, Has
  <2> QED BY <1>2, <2>2, <2>3 DEF Atomic!Next, Atomic!Remove
<1>5. CASE \A p \in Process : ~Has(p)
  <2>1. holder = None
    BY <1>5, HolderIs DEF HolderOK
  <2>2. orphaned' = orphaned
    BY <1>3, <1>5 DEF orphaned, Has
  <2> QED BY <1>2, <2>1, <2>2 DEF Atomic!lockVars
<1> QED BY <1>4, <1>5

LEMMA StepIs ==
  ASSUME IInv, IInv', [Next]_vars
  PROVE  [Atomic!Next]_(Atomic!lockVars)
<1>1. CASE SweepsFile
  BY <1>1, SweepsIs
<1>2. CASE UNCHANGED <<path, pc, fd>>
  BY <1>2, Stutter DEF Has, orphaned
<1>3. ASSUME NEW p \in Process, Acts(p) PROVE [Atomic!Next]_(Atomic!lockVars)
  <2>1. CASE Returns(p)
    BY <2>1, ReturnsIs
  <2>2. CASE HoldsCurrent(p)
    BY <2>2, HoldsIs DEF Atomic!Next
  <2>3. CASE Creates(p)
    <3>1. pc[p] # "held" /\ pc'[p] # "held" /\ Rest(p) /\ path = None
      BY <2>3 DEF Creates, Opened, GoesTo, IInv, TypeOK, Rest
    <3>2. \A q \in Process : fd[q] # path'
      BY <2>3 DEF Creates, InUse
    <3>3. UNCHANGED Atomic!lockVars
      BY <3>1, <3>2, ElsewhereStutters
    <3> QED BY <3>3
  <2>4. CASE Calls(p) \/ FindsFile(p) \/ TriesAgain(p)
    <3>1. pc[p] # "held" /\ pc'[p] # "held" /\ Rest(p) /\ path' = path
      BY <2>4 DEF Calls, FindsFile, TriesAgain, GoesTo, IInv, TypeOK, Rest
    <3>2. UNCHANGED Atomic!lockVars
      BY <3>1, ElsewhereStutters
    <3> QED BY <3>2
  <2>5. CASE Opens(p) \/ Validates(p) \/ Locks(p)
    <3>1. pc[p] # "held" /\ pc'[p] # "held" /\ Rest(p) /\ path' = path
      BY <2>5 DEF Opens, Opened, Validates, Locks, GoesTo, IInv, TypeOK, Rest
    <3>2. UNCHANGED Atomic!lockVars
      BY <3>1, ElsewhereStutters
    <3> QED BY <3>2
  <2>6. CASE StartsOver(p) \/ FindsItLocked(p) \/ FindsItStale(p)
    <3>1. PICK step \in {"create", "wait"} : Closes(p, step)
      BY <2>6 DEF StartsOver, FindsItLocked, FindsItStale
    <3>2. pc[p] # "held" /\ path' = path
      BY <2>6 DEF StartsOver, Lost, FindsItLocked, FindsItStale
    <3>3. pc'[p] # "held" /\ Rest(p)
      BY <3>1, ClosesKeeps
    <3>4. UNCHANGED Atomic!lockVars
      BY <3>2, <3>3, ElsewhereStutters
    <3> QED BY <3>4
  <2> QED BY <1>3, <2>1, <2>2, <2>3, <2>4, <2>5, <2>6
          DEF Acts, GivesUpOpening, GivesUpLocking, TimesOut, Releases, Dies
<1> QED BY <1>1, <1>2, <1>3 DEF Next, SweepsDirectory, vars

LEMMA InitIs == Init => Atomic!Init
<1> SUFFICES ASSUME Init PROVE Atomic!Init
  OBVIOUS
<1>1. \A p \in Process : pc[p] = "idle"
  BY DEF Init
<1>2. holder = None /\ orphaned = {}
  BY <1>1 DEF holder, orphaned, Has
<1> QED BY <1>2 DEF Atomic!Init

(* FileLock implements AtomicLock: at most one process has the lock, it takes
   and gives it up in one step, and only a removal of the file while it is
   held lets another one in. *)
THEOREM ImplementsLockCorrect == Spec => ImplementsLock
<1>1. IInv /\ IInv' /\ [Next]_vars => [Atomic!Next]_(Atomic!lockVars)
  BY StepIs
<1> QED BY <1>1, InitIs, Always, PTL DEF Spec, ImplementsLock, Atomic!Spec

==============================================================================
