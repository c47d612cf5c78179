--------------------------- MODULE AdoptionProofs ---------------------------
(***************************************************************************)
(* What adoption keeps for any repositories, adopters and bounds: its type *)
(* invariant, that adopters do not wait in a circle, that it never makes a *)
(* session live twice by itself, and that it implements SessionHome.       *)
(***************************************************************************)
EXTENDS Adoption, TLAPS

(* Who holds a lock, and at which point of its run. *)
Holders ==
  /\ \A a \in Adopter, s \in Store :
       lock[s] = a =>
         \/ run[a].pc = "second" /\ s = FirstLock(a)
         \/ run[a].pc \in {"load", "save", "retire", "undo"} /\ s \in {run[a].from, run[a].to}
         \/ run[a].pc = "release"
  /\ \A a \in Adopter :
       /\ run[a].pc \in {"first", "second"} => run[a].from # run[a].to
       /\ run[a].pc = "second" => lock[FirstLock(a)] = a

(* A hand-over that no attach has struck works on what it loaded. *)
Undisturbed(a) ==
  /\ Handing(a) /\ ~run[a].struck =>
       /\ record[run[a].from] = run[a].copy
       /\ run[a].pc = "save" => record[run[a].to] = run[a].prev
       /\ InWindow(a) => record[run[a].to] = Arrived(run[a].copy)
  /\ ~Handing(a) => ~run[a].struck

Faithful == \A a \in Adopter : Undisturbed(a)

(* A hand-over is of records somebody has just loaded. *)
Awake == \A a \in Adopter : Handing(a) => ~stale[run[a].from] /\ ~stale[run[a].to]

IInv == TypeOK /\ Holders /\ Faithful /\ Awake

USE DEF Free, Frame, HooksRest

-----------------------------------------------------------------------------
LEMMA RestType == Rest \in Run
  <1>1. (CHOOSE s \in Store : TRUE) \in Store
    BY StoreAssumption
  <1> QED
    BY <1>1 DEF Rest, Run, Slot

LEMMA RestFields == Rest.pc = "idle" /\ Rest.struck = FALSE
  BY DEF Rest

LEMMA RecordTypes ==
  /\ Fresh \in Record
  /\ \A r \in Record : Arrived(r) \in Record /\ Departed(r) \in Record
  /\ \A r \in Record, p \in {"idle", "active", "ended"} : [r EXCEPT !.phase = p] \in Record
  /\ \A r \in Record, x \in Task : [r EXCEPT !.tasks = @ \cup {x}] \in Record
  /\ \A r \in Slot : Saved(r) \in Record
  BY DEF Fresh, Arrived, Departed, Record, Slot, Saved

LEMMA SlotCases == ASSUME NEW r \in Slot PROVE r = None \/ (r \in Record /\ r # None)
  BY NoneAssumption DEF Slot

LEMMA InitInv == Init => IInv
  <1> SUFFICES ASSUME Init PROVE IInv
    OBVIOUS
  <1>1. \A a \in Adopter : run[a].pc = "idle" /\ ~run[a].struck
    BY DEF Init, Rest
  <1>2. TypeOK
    <2>1. record \in [Store -> Slot] /\ lock \in [Store -> Adopter \cup {None}]
      BY DEF Init, Slot
    <2>2. run \in [Adopter -> Run] /\ starting \in [Store -> {"no", "create", "begin"}]
      BY RestType DEF Init
    <2>3. attach \in [Store -> Attached]
      BY DEF Init, Slot, Attached, NoAttach
    <2>4. adopts \in 0..MaxAdopt /\ attaches \in 0..MaxAttach
      BY BoundAssumption DEF Init
    <2>5. apart \in BOOLEAN /\ stale \in [Store -> BOOLEAN]
      BY DEF Init
    <2>6. LocksHeld
      BY <1>1 DEF LocksHeld
    <2> QED
      BY <2>1, <2>2, <2>3, <2>4, <2>5, <2>6 DEF TypeOK
  <1>3. Holders /\ Faithful /\ Awake
    BY <1>1, LockAssumption DEF Init, Holders, Faithful, Awake, Undisturbed, Handing, InWindow
  <1> QED
    BY <1>2, <1>3 DEF IInv

(* A step of a hook: one record whose lock is free changes. *)
LEMMA FrameKeeps ==
  ASSUME IInv, NEW s \in Store, NEW r \in Slot, Free(s),
         record' = [record EXCEPT ![s] = r],
         UNCHANGED <<lock, run, attach, stale, adopts, attaches>>,
         starting' \in [Store -> {"no", "create", "begin"}], apart' \in BOOLEAN
  PROVE  IInv'
  <1>1. TypeOK'
    BY DEF IInv, TypeOK, LocksHeld
  <1>2. Holders'
    BY DEF IInv, Holders, FirstLock
  <1>3. ASSUME NEW a \in Adopter, Handing(a) PROVE s # run[a].from /\ s # run[a].to
    BY <1>3, LockAssumption DEF IInv, TypeOK, LocksHeld, Handing
  <1>4. Faithful'
    BY <1>3 DEF IInv, TypeOK, Run, Faithful, Undisturbed, Handing, InWindow
  <1>5. Awake'
    BY DEF IInv, Awake, Handing
  <1> QED
    BY <1>1, <1>2, <1>4, <1>5 DEF IInv

LEMMA ReopensCases == ASSUME NEW s \in Store, Reopens(s) PROVE Parts \/ Keeps
  BY DEF Reopens

LEMMA ApartType == ASSUME Parts \/ Keeps PROVE apart' \in BOOLEAN
  BY DEF Parts, Keeps, TwoLive

LEMMA HooksKeep == ASSUME IInv, NEW s \in Store, Hooks(s) PROVE IInv'
  <1> USE DEF IInv, TypeOK
  <1>1. record[s] \in Slot /\ (record[s] # None => record[s] \in Record)
    BY SlotCases
  <1>2. CASE TurnStarts(s)
    BY <1>1, <1>2, FrameKeeps, RecordTypes, ReopensCases, ApartType DEF TurnStarts, Slot
  <1>3. CASE TurnFindsNone(s)
    BY <1>3 DEF TurnFindsNone, LocksHeld, Holders, FirstLock, Faithful, Awake, Undisturbed, Handing, InWindow
  <1>4. CASE TurnCreates(s)
    <2>1. (IF record[s] = None THEN Fresh ELSE record[s]) \in Slot
      BY <1>1, RecordTypes DEF Slot
    <2>2. starting' \in [Store -> {"no", "create", "begin"}]
      BY <1>4 DEF TurnCreates
    <2> QED
      BY <1>4, <2>1, <2>2, FrameKeeps, ApartType DEF TurnCreates
  <1>5. CASE TurnBegins(s)
    <2>1. (IF record[s] = None THEN None ELSE [record[s] EXCEPT !.phase = "active"]) \in Slot
      BY <1>1, RecordTypes DEF Slot
    <2>2. starting' \in [Store -> {"no", "create", "begin"}]
      BY <1>5 DEF TurnBegins
    <2> QED
      BY <1>5, <2>1, <2>2, FrameKeeps, ApartType DEF TurnBegins
  <1>6. CASE TurnAborts(s)
    BY <1>6 DEF TurnAborts, LocksHeld, Holders, FirstLock, Faithful, Awake, Undisturbed, Handing, InWindow
  <1>7. CASE SessionStarts(s)
    BY <1>1, <1>7, FrameKeeps, RecordTypes, ReopensCases, ApartType DEF SessionStarts, Slot
  <1>8. CASE TurnEnds(s)
    BY <1>1, <1>8, FrameKeeps, RecordTypes, ApartType DEF TurnEnds, Slot
  <1>9. CASE SessionStops(s)
    BY <1>1, <1>9, FrameKeeps, RecordTypes, ApartType DEF SessionStops, Slot
  <1>10. CASE Expires(s)
    <2>1. /\ record' = [record EXCEPT ![s] = None] /\ stale' = [stale EXCEPT ![s] = FALSE]
          /\ UNCHANGED <<lock, run, starting, attach, adopts, attaches>> /\ stale[s]
      BY <1>10 DEF Expires
    <2>2. TypeOK'
      BY <1>10, <2>1, ApartType DEF Expires, LocksHeld, Slot
    <2>3. Holders' /\ Awake'
      BY <2>1 DEF Holders, FirstLock, Awake, Handing, Run
    <2>4. \A a \in Adopter : Handing(a) => s # run[a].from /\ s # run[a].to
      BY <2>1 DEF Awake
    <2>5. Faithful'
      BY <2>1, <2>4 DEF Run, Faithful, Undisturbed, Handing, InWindow
    <2> QED
      BY <2>2, <2>3, <2>5
  <1>15. CASE Ages(s)
    <2>1. /\ \A a \in Adopter : run[a].pc = "idle"
          /\ stale' \in [Store -> BOOLEAN]
          /\ UNCHANGED <<record, lock, run, starting, attach, apart, adopts, attaches>>
      BY <1>15 DEF Ages
    <2> QED
      BY <2>1 DEF LocksHeld, Holders, FirstLock, Faithful, Awake, Undisturbed, Handing, InWindow
  <1>11. CASE AdoptsInPlace(s)
    BY <1>1, <1>11, FrameKeeps, RecordTypes, ApartType DEF AdoptsInPlace, Live, Slot
  <1>12. CASE AttachReads(s)
    <2>1. attach' \in [Store -> Attached] /\ attaches' \in 0..MaxAttach
      BY <1>1, <1>12, BoundAssumption DEF AttachReads, Attached
    <2> QED
      BY <1>12, <2>1 DEF AttachReads, LocksHeld, Holders, FirstLock, Faithful, Awake, Undisturbed, Handing, InWindow
  <1>13. CASE AttachSaves(s)
    <2>1. attach[s].saw \in Slot
      BY DEF Attached
    <2>2. /\ record' \in [Store -> Slot]
          /\ attach' \in [Store -> Attached]
          /\ apart' \in BOOLEAN
      BY <1>13, <2>1, RecordTypes, ApartType DEF AttachSaves, Slot, NoAttach, Attached
    <2>3. run' \in [Adopter -> Run]
      <3>1. \A a \in Adopter, v \in BOOLEAN : [run[a] EXCEPT !.struck = v] \in Run
        BY DEF Run
      <3> QED
        BY <1>13, <3>1 DEF AttachSaves
    <2>4. \A a \in Adopter : /\ run'[a].pc = run[a].pc /\ run'[a].from = run[a].from
                             /\ run'[a].to = run[a].to /\ run'[a].copy = run[a].copy
                             /\ run'[a].prev = run[a].prev
                             /\ run'[a].struck = (run[a].struck \/ (Handing(a) /\ s \in {run[a].from, run[a].to}))
      BY <1>13 DEF AttachSaves, Run
    <2>5. /\ UNCHANGED <<lock, starting, stale, adopts, attaches>>
          /\ \A u \in Store : u # s => record'[u] = record[u]
      BY <1>13 DEF AttachSaves
    <2>6. LocksHeld'
      BY <2>4, <2>5 DEF LocksHeld
    <2>7. Holders'
      BY <2>4, <2>5 DEF Holders, FirstLock
    <2>8. Faithful'
      <3> SUFFICES ASSUME NEW a \in Adopter PROVE Undisturbed(a)'
        BY DEF Faithful
      <3>1. run[a].from \in Store /\ run[a].to \in Store /\ Undisturbed(a)
        BY DEF Run, Faithful
      <3>2. Handing(a)' <=> Handing(a)
        BY <2>4 DEF Handing
      <3>3. CASE run'[a].struck
        BY <3>1, <3>2, <3>3, <2>4 DEF Undisturbed
      <3>4. CASE ~run'[a].struck
        BY <3>1, <3>2, <3>4, <2>4, <2>5 DEF Undisturbed, InWindow
      <3> QED
        BY <3>3, <3>4
    <2>9. Awake'
      BY <2>4, <2>5 DEF Awake, Handing
    <2> QED
      BY <2>2, <2>3, <2>5, <2>6, <2>7, <2>8, <2>9
  <1>14. CASE AttachFails(s)
    <2>1. attach' \in [Store -> Attached]
      BY <1>14 DEF AttachFails, Attached, NoAttach, Slot
    <2> QED
      BY <1>14, <2>1 DEF AttachFails, LocksHeld, Holders, FirstLock, Faithful, Awake, Undisturbed, Handing, InWindow
  <1> QED
    BY <1>2, <1>3, <1>4, <1>5, <1>6, <1>7, <1>8, <1>9, <1>10, <1>11, <1>12, <1>13, <1>14, <1>15 DEF Hooks

-----------------------------------------------------------------------------
(* The steps of an adopter a: only its run, locks it may take or holds, and
   records of stores it holds both locks of. *)

LEMMA LeavesKeeps ==
  ASSUME IInv, NEW a \in Adopter, Leaves(a), apart' \in BOOLEAN
  PROVE  IInv'
  <1> USE DEF IInv, TypeOK
  <1>1. /\ \A b \in Adopter : run'[b] = IF b = a THEN Rest ELSE run[b]
        /\ \A s \in Store : lock'[s] = IF lock[s] = a THEN None ELSE lock[s]
        /\ UNCHANGED <<record, adopts, starting, attach, stale, attaches>>
    BY DEF Leaves, Unlocked
  <1>2. run'[a].pc = "idle" /\ ~run'[a].struck
    BY <1>1, RestFields
  <1>3. run' \in [Adopter -> Run] /\ lock' \in [Store -> Adopter \cup {None}]
    BY RestType DEF Leaves, Unlocked
  <1>4. LocksHeld'
    BY <1>1, <1>2 DEF LocksHeld, Run
  <1>5. Holders'
    BY <1>1, <1>2, LockAssumption DEF Holders, FirstLock, Run
  <1>6. Faithful' /\ Awake'
    BY <1>1, <1>2 DEF Faithful, Awake, Undisturbed, Handing, InWindow
  <1> QED
    BY <1>1, <1>3, <1>4, <1>5, <1>6

(* Adopters with both locks of a store are the same one. *)
LEMMA Exclusive ==
  ASSUME IInv, NEW a \in Adopter, NEW b \in Adopter, a # b,
         run[a].pc \in {"load", "save", "retire", "undo"}, Handing(b)
  PROVE  {run[a].from, run[a].to} \cap {run[b].from, run[b].to} = {}
  BY DEF IInv, TypeOK, LocksHeld, Handing

(* A step within a hand-over keeps the locks; it writes to the source or the
   target, or not at all. *)
LEMMA HandOverKeeps ==
  ASSUME IInv, NEW a \in Adopter, NEW r \in Run,
         run[a].pc \in {"load", "save", "retire", "undo"},
         run' = [run EXCEPT ![a] = r],
         record' \in [Store -> Slot],
         \A s \in Store : s \notin {run[a].from, run[a].to} => record'[s] = record[s],
         UNCHANGED <<lock, adopts, starting, attach, stale, attaches>>,
         apart' \in BOOLEAN,
         \/ r.pc = "release"
         \/ /\ r.pc \in {"save", "retire", "undo"}
            /\ r.from = run[a].from /\ r.to = run[a].to
            /\ Live(r.copy) /\ ~stale[r.from] /\ ~stale[r.to],
         Undisturbed(a)'
  PROVE  IInv'
  <1> USE DEF IInv, TypeOK
  <1>1. run'[a] = r /\ \A b \in Adopter : b # a => run'[b] = run[b]
    OBVIOUS
  <1>2. LocksHeld'
    BY <1>1 DEF LocksHeld
  <1>3. Holders'
    BY <1>1 DEF Holders, FirstLock
  <1>4. Faithful'
    <2> SUFFICES ASSUME NEW b \in Adopter, b # a PROVE Undisturbed(b)'
      BY DEF Faithful
    <2>1. Undisturbed(b) /\ run'[b] = run[b] /\ run[b].from \in Store /\ run[b].to \in Store
      BY <1>1 DEF Faithful, Run
    <2>2. Handing(b) => record'[run[b].from] = record[run[b].from] /\ record'[run[b].to] = record[run[b].to]
      BY Exclusive, <2>1
    <2> QED
      BY <2>1, <2>2 DEF Undisturbed, Handing, InWindow
  <1>5. Awake'
    BY <1>1 DEF Awake, Handing
  <1> QED
    BY <1>2, <1>3, <1>4, <1>5

LEMMA SelectsKeeps ==
  ASSUME IInv, NEW a \in Adopter, NEW f \in Store, NEW t \in Store, Selects(a, f, t)
  PROVE  IInv'
  <1> USE DEF IInv, TypeOK
  <1>1. PICK force \in BOOLEAN :
          run' = [run EXCEPT ![a] = [Rest EXCEPT !.pc = "first", !.from = f, !.to = t, !.force = force]]
    BY DEF Selects
  <1> DEFINE r == [Rest EXCEPT !.pc = "first", !.from = f, !.to = t, !.force = force]
  <1>2. r \in Run /\ r.pc = "first" /\ r.from = f /\ r.to = t /\ r.struck = FALSE
    BY RestType DEF Run, Rest
  <1>3. run'[a] = r /\ \A b \in Adopter : b # a => run'[b] = run[b]
    BY <1>1
  <1>4. run' \in [Adopter -> Run]
    BY <1>1, <1>2
  <1> HIDE DEF r
  <1>5. UNCHANGED <<record, lock, starting, attach, stale, apart, attaches>> /\ adopts' \in 0..MaxAdopt
    BY BoundAssumption DEF Selects
  <1>6. LocksHeld'
    BY <1>2, <1>3, <1>5 DEF LocksHeld
  <1>7. Holders'
    <2>1. run[a].pc = "idle" /\ f # t
      BY DEF Selects
    <2>2. \A x \in Store : lock[x] # a
      BY <2>1 DEF Holders
    <2>3. \A b \in Adopter : b # a => FirstLock(b)' = FirstLock(b)
      BY <1>3 DEF FirstLock
    <2> QED
      BY <1>2, <1>3, <1>5, <2>1, <2>2, <2>3 DEF Holders
  <1>8. Faithful' /\ Awake'
    BY <1>2, <1>3, <1>5 DEF Faithful, Awake, Undisturbed, Handing, InWindow
  <1> QED
    BY <1>4, <1>5, <1>6, <1>7, <1>8

LEMMA AcquiresKeeps ==
  ASSUME IInv, NEW a \in Adopter, AcquiresFirst(a) \/ AcquiresSecond(a)
  PROVE  IInv'
  <1> USE DEF IInv, TypeOK
  <1>1. PICK pc \in {"second", "load"}, s \in Store :
          /\ Acquires(a, s, pc)
          /\ IF pc = "second" THEN run[a].pc = "first" /\ s = FirstLock(a)
                              ELSE run[a].pc = "second" /\ s = SecondLock(a)
    BY DEF AcquiresFirst, AcquiresSecond, FirstLock, SecondLock, Run
  <1>2. /\ run' = [run EXCEPT ![a].pc = pc]
        /\ lock[s] = None /\ lock' = [lock EXCEPT ![s] = a]
        /\ UNCHANGED <<record, apart, adopts, starting, attach, stale, attaches>>
    BY <1>1 DEF Acquires, Turn
  <1>3. /\ run'[a].pc = pc /\ run'[a].from = run[a].from /\ run'[a].to = run[a].to
        /\ run'[a].copy = run[a].copy /\ run'[a].struck = run[a].struck
        /\ \A b \in Adopter : b # a => run'[b] = run[b]
        /\ run' \in [Adopter -> Run]
    BY <1>2 DEF Run
  <1>4. LocksHeld'
    <2> SUFFICES ASSUME NEW b \in Adopter, run'[b].pc \in {"load", "save", "retire", "undo"}
                 PROVE  /\ run'[b].from # run'[b].to
                        /\ lock'[run'[b].from] = b /\ lock'[run'[b].to] = b
                        /\ run'[b].pc # "load" => Live(run'[b].copy)
      BY DEF LocksHeld
    <2>1. CASE b = a
      <3>1. /\ run[a].from # run[a].to /\ lock[FirstLock(a)] = a
            /\ s = SecondLock(a) /\ pc = "load"
        BY <1>1, <1>3, <2>1 DEF Holders
      <3> QED
        BY <1>2, <1>3, <2>1, <3>1 DEF FirstLock, SecondLock, Run
    <2>2. CASE b # a
      BY <1>2, <1>3, <2>2, LockAssumption DEF LocksHeld, Run
    <2> QED
      BY <2>1, <2>2
  <1>5. Holders'
    <2>1. FirstLock(a)' = FirstLock(a) /\ FirstLock(a) \in Store
      BY <1>3 DEF FirstLock, Run
    <2>2. \A b \in Adopter : b # a => FirstLock(b)' = FirstLock(b) /\ FirstLock(b) \in Store
      BY <1>3 DEF FirstLock, Run
    <2>3. SecondLock(a) \in {run[a].from, run[a].to}
      BY DEF FirstLock, SecondLock
    <2>4. FirstLock(a) \in {run[a].from, run[a].to}
      BY DEF FirstLock
    <2>5. \A x \in Store : lock'[x] = IF x = s THEN a ELSE lock[x]
      BY <1>2
    <2>6. ASSUME NEW b \in Adopter, NEW x \in Store, lock'[x] = b
          PROVE  \/ run'[b].pc = "second" /\ x = FirstLock(b)'
                 \/ run'[b].pc \in {"load", "save", "retire", "undo"} /\ x \in {run'[b].from, run'[b].to}
                 \/ run'[b].pc = "release"
      <3>1. CASE b # a
        BY <1>3, <2>2, <2>5, <2>6, <3>1 DEF Holders
      <3>2. CASE b = a /\ x = s
        BY <1>1, <1>3, <2>1, <2>3, <3>2
      <3>3. CASE b = a /\ x # s
        BY <1>1, <1>3, <2>1, <2>4, <2>5, <2>6, <3>3 DEF Holders
      <3> QED
        BY <3>1, <3>2, <3>3
    <2>7. ASSUME NEW b \in Adopter
          PROVE  /\ run'[b].pc \in {"first", "second"} => run'[b].from # run'[b].to
                 /\ run'[b].pc = "second" => lock'[FirstLock(b)'] = b
      <3>1. CASE b # a
        BY <1>2, <1>3, <2>2, <2>5, <3>1, LockAssumption DEF Holders
      <3>2. CASE b = a
        BY <1>1, <1>3, <2>1, <2>5, <3>2 DEF Holders
      <3> QED
        BY <3>1, <3>2
    <2> QED
      BY <2>6, <2>7 DEF Holders
  <1>6. Faithful' /\ Awake'
    BY <1>1, <1>2, <1>3 DEF Faithful, Awake, Undisturbed, Handing, InWindow
  <1> QED
    BY <1>2, <1>3, <1>4, <1>5, <1>6

LEMMA FinishType == [Rest EXCEPT !.pc = "release"] \in Run
  BY RestType DEF Run

LEMMA FinishKeeps ==
  ASSUME IInv, NEW a \in Adopter, run[a].pc \in {"load", "save", "retire", "undo"},
         Finish(a), record' \in [Store -> Slot],
         \A s \in Store : s \notin {run[a].from, run[a].to} => record'[s] = record[s],
         UNCHANGED <<lock, adopts, starting, attach, stale, attaches>>,
         apart' \in BOOLEAN
  PROVE  IInv'
  <1> DEFINE r == [Rest EXCEPT !.pc = "release"]
  <1>1. r \in Run /\ r.pc = "release" /\ r.struck = FALSE
    BY FinishType, RestFields, RestType DEF Run
  <1>2. run' = [run EXCEPT ![a] = r] /\ run'[a] = r
    BY DEF Finish, IInv, TypeOK
  <1>3. Undisturbed(a)'
    BY <1>1, <1>2 DEF Undisturbed, Handing
  <1> QED
    BY <1>1, <1>2, <1>3, HandOverKeeps

LEMMA AdoptsKeep == ASSUME IInv, NEW a \in Adopter, Adopts(a) PROVE IInv'
  <1>0. /\ run[a] \in Run /\ record \in [Store -> Slot] /\ run \in [Adopter -> Run]
        /\ run[a].from \in Store /\ run[a].to \in Store
        /\ apart \in BOOLEAN /\ Undisturbed(a)
        /\ run[a].copy \in Slot /\ run[a].prev \in Slot
    BY DEF IInv, TypeOK, Run, Faithful
  <1>1. CASE AcquiresFirst(a) \/ AcquiresSecond(a)
    BY <1>1, AcquiresKeeps
  <1>2. CASE Loads(a) /\ Adoptable(a)
    <2> DEFINE r == [run[a] EXCEPT !.pc = "save", !.force = FALSE,
                                   !.copy = record[run[a].from], !.prev = record[run[a].to]]
    <2>1. /\ run' = [run EXCEPT ![a] = r] /\ run[a].pc = "load"
          /\ UNCHANGED <<record, lock, apart, adopts, starting, attach, stale, attaches>>
      BY <1>2, <1>0 DEF Loads
    <2>2. /\ r \in Run /\ r.pc = "save" /\ r.from = run[a].from /\ r.to = run[a].to
          /\ r.copy = record[run[a].from] /\ r.prev = record[run[a].to] /\ r.struck = run[a].struck
      BY <1>0 DEF Run
    <2>3. Live(r.copy) /\ ~stale[r.from] /\ ~stale[r.to]
      BY <1>2, <2>2 DEF Adoptable, Loads
    <2>4. Undisturbed(a)'
      BY <1>0, <2>1, <2>2 DEF Undisturbed, Handing, InWindow
    <2> HIDE DEF r
    <2> QED
      BY <1>0, <2>1, <2>2, <2>3, <2>4, HandOverKeeps
  <1>3. CASE Loads(a) /\ ~Adoptable(a)
    BY <1>0, <1>3, FinishKeeps DEF Loads
  <1>4. CASE SavesTarget(a)
    <2> DEFINE r == [run[a] EXCEPT !.pc = "retire"]
    <2>1. /\ run' = [run EXCEPT ![a] = r] /\ run[a].pc = "save" /\ apart' \in BOOLEAN
          /\ record' = [record EXCEPT ![run[a].to] = Arrived(run[a].copy)]
          /\ UNCHANGED <<lock, adopts, starting, attach, stale, attaches>>
      BY <1>4, <1>0, ApartType DEF SavesTarget, Turn
    <2>2. /\ r \in Run /\ r.pc = "retire" /\ r.from = run[a].from /\ r.to = run[a].to
          /\ r.copy = run[a].copy /\ r.struck = run[a].struck
      BY <1>0 DEF Run
    <2>3. Live(r.copy) /\ run[a].from # run[a].to /\ ~stale[r.from] /\ ~stale[r.to]
      BY <2>1, <2>2 DEF IInv, TypeOK, LocksHeld, Awake, Handing
    <2>4. Arrived(run[a].copy) \in Slot
      BY <1>0, <2>2, <2>3, RecordTypes DEF Slot, Live
    <2>5. Undisturbed(a)'
      BY <1>0, <2>1, <2>2, <2>3 DEF Undisturbed, Handing, InWindow
    <2> HIDE DEF r
    <2> QED
      BY <1>0, <2>1, <2>2, <2>3, <2>4, <2>5, HandOverKeeps
  <1>5. CASE SaveFails(a)
    BY <1>0, <1>5, FinishKeeps, ApartType DEF SaveFails
  <1>6. CASE Retires(a)
    <2>1. Live(run[a].copy)
      BY <1>6 DEF Retires, IInv, TypeOK, LocksHeld
    <2>2. Departed(run[a].copy) \in Slot
      BY <1>0, <2>1, RecordTypes DEF Slot, Live
    <2> QED
      BY <1>0, <1>6, <2>2, FinishKeeps, ApartType DEF Retires
  <1>7. CASE RetireFails(a)
    <2> DEFINE r == [run[a] EXCEPT !.pc = "undo"]
    <2>1. /\ run' = [run EXCEPT ![a] = r] /\ run[a].pc = "retire"
          /\ UNCHANGED <<record, lock, apart, adopts, starting, attach, stale, attaches>>
      BY <1>7, <1>0 DEF RetireFails, Turn
    <2>2. /\ r \in Run /\ r.pc = "undo" /\ r.from = run[a].from /\ r.to = run[a].to
          /\ r.copy = run[a].copy /\ r.struck = run[a].struck
      BY <1>0 DEF Run
    <2>3. Live(r.copy) /\ ~stale[r.from] /\ ~stale[r.to]
      BY <2>1, <2>2 DEF IInv, TypeOK, LocksHeld, Awake, Handing
    <2>4. Undisturbed(a)'
      BY <1>0, <2>1, <2>2 DEF Undisturbed, Handing, InWindow
    <2> HIDE DEF r
    <2> QED
      BY <1>0, <2>1, <2>2, <2>3, <2>4, HandOverKeeps
  <1>8. CASE Undoes(a)
    BY <1>0, <1>8, FinishKeeps, ApartType DEF Undoes
  <1>9. CASE UndoFails(a)
    BY <1>0, <1>9, FinishKeeps, ApartType DEF UndoFails
  <1>10. CASE Releases(a) \/ GivesUp(a) \/ Dies(a)
    BY <1>10, LeavesKeeps, ApartType DEF Releases, GivesUp, Dies
  <1> QED
    BY <1>1, <1>2, <1>3, <1>4, <1>5, <1>6, <1>7, <1>8, <1>9, <1>10 DEF Adopts

LEMMA NextKeeps == ASSUME IInv, [Next]_vars PROVE IInv'
  <1>1. ASSUME NEW s \in Store, NEW x \in Task, RecordsTask(s, x) PROVE IInv'
    <2>1. record[s] \in Record
      BY <1>1, SlotCases DEF RecordsTask, IInv, TypeOK
    <2>2. [record[s] EXCEPT !.tasks = @ \cup {x}] \in Slot
      BY <2>1, RecordTypes DEF Slot
    <2> QED
      BY <1>1, <2>2, FrameKeeps, ApartType DEF RecordsTask, IInv, TypeOK
  <1>2. CASE UNCHANGED vars
    BY <1>2 DEF vars, IInv, TypeOK, LocksHeld, Holders, FirstLock, Faithful, Awake, Undisturbed, Handing, InWindow
  <1> QED
    BY <1>1, <1>2, HooksKeep, AdoptsKeep, SelectsKeeps DEF Next

LEMMA Invariance == Spec => []IInv
  BY InitInv, NextKeeps, PTL DEF Spec

(* Every record, lock and run is what it should be, and an adopter that has
   begun its hand-over holds the flocks of both repositories. *)
THEOREM TypeCorrect == Spec => []TypeOK
  BY Invariance, PTL DEF IInv

(* Whatever repositories adoptions run between, and however many at a time, no
   two of them wait for each other's lock. *)
THEOREM NoCircularWaitCorrect == Spec => []NoCircularWait
  <1>1. IInv => NoCircularWait
    <2> SUFFICES ASSUME IInv, NEW a \in Adopter, NEW b \in Adopter, WaitsFor(a, b), WaitsFor(b, a)
                 PROVE  FALSE
      BY DEF NoCircularWait
    <2>1. /\ run[a].from \in Nat /\ run[a].to \in Nat /\ run[a].from # run[a].to
          /\ run[b].from \in Nat /\ run[b].to \in Nat /\ run[b].from # run[b].to
          /\ run[a].pc = "second" /\ run[b].pc = "second"
          /\ SecondLock(a) \in Store /\ SecondLock(b) \in Store
      BY StoreAssumption DEF IInv, TypeOK, Run, WaitsFor, Holders, FirstLock, SecondLock
    <2>2. SecondLock(a) = FirstLock(b) /\ SecondLock(b) = FirstLock(a)
      BY <2>1 DEF WaitsFor, IInv, Holders
    <2> QED
      BY <2>1, <2>2 DEF FirstLock, SecondLock
  <1> QED
    BY <1>1, Invariance, PTL

-----------------------------------------------------------------------------
(* The refinement. *)

ViewFacts ==
  /\ view \in [Store -> Slot]
  /\ \A a \in Adopter : Hidden(a) => view[run[a].to] = run[a].prev
  /\ \A s \in Store : (\A a \in Adopter : Hidden(a) => run[a].to # s) => view[s] = record[s]

LEMMA OneWindow ==
  ASSUME IInv, NEW a \in Adopter, NEW b \in Adopter, Hidden(a), Hidden(b), run[a].to = run[b].to
  PROVE  a = b
  BY DEF IInv, TypeOK, LocksHeld, Hidden, InWindow

LEMMA ViewHolds == ASSUME IInv PROVE ViewFacts
  <1>1. \A s \in Store : (\A a \in Adopter : Hidden(a) => run[a].to # s) => view[s] = record[s]
    BY DEF view
  <1>2. ASSUME NEW a \in Adopter, Hidden(a) PROVE view[run[a].to] = run[a].prev
    <2>1. run[a].to \in Store
      BY DEF IInv, TypeOK, Run
    <2> DEFINE C == CHOOSE b \in Adopter : Hidden(b) /\ run[b].to = run[a].to
    <2>2. C \in Adopter /\ Hidden(C) /\ run[C].to = run[a].to
      BY <1>2
    <2>3. C = a
      BY <1>2, <2>2, OneWindow
    <2> QED
      BY <1>2, <2>1, <2>3 DEF view
  <1>3. \A s \in Store : view[s] \in Slot
    <2> SUFFICES ASSUME NEW s \in Store PROVE view[s] \in Slot
      OBVIOUS
    <2>1. CASE \A a \in Adopter : Hidden(a) => run[a].to # s
      BY <1>1, <2>1 DEF IInv, TypeOK
    <2>2. CASE \E a \in Adopter : Hidden(a) /\ run[a].to = s
      BY <1>2, <2>2 DEF IInv, TypeOK, Run
    <2> QED
      BY <2>1, <2>2
  <1>4. view = [s \in Store |-> view[s]]
    BY DEF view
  <1> QED
    BY <1>1, <1>2, <1>3, <1>4 DEF ViewFacts

LEMMA ViewHoldsNext == IInv' => ViewFacts'
  <1>1. IInv => ViewFacts
    BY ViewHolds
  <1> QED
    BY <1>1, PTL

(* Only the run of an adopter that hides or is struck shows. *)
LEMMA SameView ==
  ASSUME IInv, IInv', record' = record,
         \A a \in Adopter : /\ Hidden(a)' <=> Hidden(a)
                            /\ Hidden(a) => run'[a].to = run[a].to /\ run'[a].prev = run[a].prev
  PROVE  view' = view
  <1>1. ViewFacts /\ ViewFacts'
    BY ViewHolds, ViewHoldsNext
  <1>2. \A u \in Store : view'[u] = view[u]
    BY <1>1 DEF ViewFacts
  <1> QED
    BY <1>1, <1>2 DEF ViewFacts

LEMMA SameSplit ==
  ASSUME \A a \in Adopter : /\ Struck(a)' <=> Struck(a)
                            /\ Struck(a) => /\ run'[a].from = run[a].from /\ run'[a].to = run[a].to
                                            /\ run'[a].copy = run[a].copy /\ run'[a].prev = run[a].prev
  PROVE  split' = split
  <1>1. \A a \in Adopter : Struck(a) => HandOver(a)' = HandOver(a)
    BY DEF HandOver
  <1> QED
    BY <1>1 DEF split

(* A record that no hand-over hides shows as it is, and so does what it
   becomes. *)
LEMMA RecordView ==
  ASSUME IInv, IInv', NEW s \in Store, NEW r \in Slot,
         record' = [record EXCEPT ![s] = r],
         \A a \in Adopter : /\ Hidden(a)' <=> Hidden(a)
                            /\ Hidden(a) => /\ run[a].to # s
                                            /\ run'[a].to = run[a].to /\ run'[a].prev = run[a].prev
  PROVE  view[s] = record[s] /\ view' = [view EXCEPT ![s] = r]
  <1>1. ViewFacts /\ ViewFacts' /\ record \in [Store -> Slot]
    BY ViewHolds, ViewHoldsNext DEF IInv, TypeOK
  <1>2. \A u \in Store : view'[u] = IF u = s THEN r ELSE view[u]
    BY <1>1 DEF ViewFacts
  <1> QED
    BY <1>1, <1>2 DEF ViewFacts

(* A store whose lock is free is in nobody's hand-over. *)
LEMMA FreeShows ==
  ASSUME IInv, NEW s \in Store, Free(s)
  PROVE  view[s] = record[s] /\ \A a \in Adopter : Hidden(a) => run[a].to # s
  <1>1. \A a \in Adopter : Hidden(a) => run[a].to # s
    BY LockAssumption DEF IInv, TypeOK, LocksHeld, Hidden, InWindow
  <1> QED
    BY <1>1, ViewHolds DEF ViewFacts

(* A hook's step shows as it is. *)
LEMMA FrameView ==
  ASSUME IInv, IInv', NEW s \in Store, NEW r \in Slot, Frame(s, r)
  PROVE  /\ view[s] = record[s] /\ view' = [view EXCEPT ![s] = r]
         /\ UNCHANGED <<attach, stale, split>>
  <1>1. run' = run /\ Free(s) /\ record' = [record EXCEPT ![s] = r] /\ UNCHANGED <<attach, stale>>
    OBVIOUS
  <1>2. \A a \in Adopter : (Hidden(a)' <=> Hidden(a)) /\ (Struck(a)' <=> Struck(a))
    BY <1>1 DEF Hidden, InWindow, Struck, Handing
  <1>3. view[s] = record[s] /\ view' = [view EXCEPT ![s] = r]
    BY <1>1, <1>2, FreeShows, RecordView
  <1>4. split' = split
    BY <1>1, <1>2, SameSplit
  <1> QED
    BY <1>1, <1>3, <1>4

(* A step of an adopter outside its window does not show. *)
LEMMA QuietView ==
  ASSUME IInv, IInv', NEW a \in Adopter, record' = record,
         \A b \in Adopter : b # a => run'[b] = run[b],
         ~InWindow(a), ~InWindow(a)'
  PROVE  view' = view
  <1>1. \A b \in Adopter : (Hidden(b)' <=> Hidden(b)) /\ (Hidden(b) => run'[b] = run[b])
    BY DEF Hidden, InWindow
  <1> QED
    BY <1>1, SameView

(* An adopter that leaves its window shows its target as it left it; the other
   windows are of other stores. *)
LEMMA WindowCloses ==
  ASSUME IInv, IInv', NEW a \in Adopter, Hidden(a), ~Hidden(a)',
         \A b \in Adopter : b # a => run'[b] = run[b],
         \A s \in Store : s \notin {run[a].from, run[a].to} => record'[s] = record[s]
  PROVE  /\ view[run[a].from] = record[run[a].from] /\ view[run[a].to] = run[a].prev
         /\ \A s \in Store :
              view'[s] = IF s \in {run[a].from, run[a].to} THEN record'[s] ELSE view[s]
  <1>1. \A b \in Adopter : b # a => (Hidden(b)' <=> Hidden(b)) /\ run'[b] = run[b]
    BY DEF Hidden, InWindow
  <1>2. \A b \in Adopter : b # a /\ Hidden(b) => run[b].to \notin {run[a].from, run[a].to}
    BY DEF IInv, TypeOK, LocksHeld, Hidden, InWindow
  <1>3. run[a].from \in Store /\ run[a].to \in Store /\ run[a].from # run[a].to
    BY DEF IInv, TypeOK, LocksHeld, Hidden, InWindow, Run
  <1>4. ViewFacts /\ ViewFacts'
    BY ViewHolds, ViewHoldsNext
  <1>5. view[run[a].from] = record[run[a].from] /\ view[run[a].to] = run[a].prev
    BY <1>2, <1>3, <1>4 DEF ViewFacts
  <1>6. ASSUME NEW s \in Store, s \in {run[a].from, run[a].to} PROVE view'[s] = record'[s]
    BY <1>1, <1>2, <1>4, <1>6 DEF ViewFacts
  <1>7. ASSUME NEW s \in Store, s \notin {run[a].from, run[a].to} PROVE view'[s] = view[s]
    <2>1. CASE \E b \in Adopter : b # a /\ Hidden(b) /\ run[b].to = s
      BY <1>1, <1>4, <1>7, <2>1 DEF ViewFacts
    <2>2. CASE \A b \in Adopter : Hidden(b) => run[b].to # s
      BY <1>1, <1>4, <1>7, <2>2 DEF ViewFacts
    <2> QED
      BY <1>7, <2>1, <2>2
  <1> QED
    BY <1>5, <1>6, <1>7

(* A hand-over that no attach has struck works on what it loaded, and its
   records show as they were then. *)
LEMMA Calm ==
  ASSUME IInv, NEW a \in Adopter, Handing(a), ~run[a].struck
  PROVE  /\ run[a].from \in Store /\ run[a].to \in Store /\ run[a].from # run[a].to
         /\ Live(run[a].copy)
         /\ record[run[a].from] = run[a].copy
         /\ run[a].pc = "save" => record[run[a].to] = run[a].prev
         /\ InWindow(a) => record[run[a].to] = Arrived(run[a].copy)
         /\ view[run[a].from] = run[a].copy /\ view[run[a].to] = run[a].prev
  <1>1. /\ run[a].from \in Store /\ run[a].to \in Store /\ run[a].from # run[a].to
        /\ Live(run[a].copy)
    BY DEF IInv, TypeOK, LocksHeld, Handing, Run
  <1>2. /\ record[run[a].from] = run[a].copy
        /\ run[a].pc = "save" => record[run[a].to] = run[a].prev
        /\ InWindow(a) => record[run[a].to] = Arrived(run[a].copy)
    BY DEF IInv, Faithful, Undisturbed
  <1>3. \A b \in Adopter : b # a /\ Hidden(b) => run[b].to \notin {run[a].from, run[a].to}
    BY DEF IInv, TypeOK, LocksHeld, Handing, Hidden, InWindow
  <1>4. Hidden(a) <=> run[a].pc # "save"
    BY DEF Hidden, InWindow, Handing
  <1> QED
    BY <1>1, <1>2, <1>3, <1>4, ViewHolds DEF ViewFacts, Handing

LEMMA RunOthers ==
  ASSUME IInv, NEW a \in Adopter, Adopts(a)
  PROVE  /\ \A b \in Adopter : b # a => run'[b] = run[b]
         /\ run'[a].struck => run[a].struck
         /\ UNCHANGED <<starting, attach, stale>>
  <1>1. run \in [Adopter -> Run]
    BY DEF IInv, TypeOK
  <1>2. ASSUME Loads(a), Adoptable(a)
        PROVE  (\A b \in Adopter : b # a => run'[b] = run[b]) /\ (run'[a].struck => run[a].struck)
    BY <1>1, <1>2 DEF Loads, Run
  <1>3. ASSUME Finish(a)
        PROVE  (\A b \in Adopter : b # a => run'[b] = run[b]) /\ (run'[a].struck => run[a].struck)
    BY <1>1, <1>3, RestFields, RestType DEF Finish, Run
  <1>4. ASSUME Leaves(a)
        PROVE  (\A b \in Adopter : b # a => run'[b] = run[b]) /\ (run'[a].struck => run[a].struck)
    BY <1>1, <1>4, RestFields DEF Leaves
  <1>5. ASSUME NEW pc, Turn(a, pc)
        PROVE  (\A b \in Adopter : b # a => run'[b] = run[b]) /\ (run'[a].struck => run[a].struck)
    BY <1>1, <1>5 DEF Turn, Run
  <1>6. \/ (Loads(a) /\ Adoptable(a)) \/ Finish(a) \/ Leaves(a)
        \/ \E pc \in {"second", "load", "retire", "undo"} : Turn(a, pc)
    BY DEF Adopts, AcquiresFirst, AcquiresSecond, Acquires, Loads, SavesTarget,
       SaveFails, Retires, RetireFails, Undoes, UndoFails, Releases, GivesUp, Dies
  <1>7. UNCHANGED <<starting, attach, stale>>
    BY DEF Adopts, AcquiresFirst, AcquiresSecond, Acquires, Loads, SavesTarget,
       SaveFails, Retires, RetireFails, Undoes, UndoFails, Releases, GivesUp, Dies, Leaves
  <1>8. /\ \A b \in Adopter : b # a => run'[b] = run[b]
        /\ run'[a].struck => run[a].struck
    BY <1>2, <1>3, <1>4, <1>5, <1>6
  <1> QED
    BY <1>7, <1>8

(* An adopter that no attach has struck splits nothing. *)
LEMMA StaysWhole ==
  ASSUME IInv, NEW a \in Adopter, ~run[a].struck, run'[a].struck => run[a].struck,
         \A b \in Adopter : b # a => run'[b] = run[b]
  PROVE  split' = split
  <1>1. \A b \in Adopter : Struck(b)' <=> Struck(b)
    BY DEF Struck, Handing
  <1>2. ~Struck(a)
    BY DEF Struck
  <1> QED
    BY <1>1, <1>2, SameSplit

(* A struck one that ends takes its hand-over with it: no two are of one
   store. *)
LEMMA SplitCloses ==
  ASSUME IInv, NEW a \in Adopter, Struck(a), ~Struck(a)',
         \A b \in Adopter : b # a => run'[b] = run[b]
  PROVE  HandOver(a) \in split /\ split' = split \ {HandOver(a)}
  <1>1. \A b \in Adopter : b # a => (Struck(b)' <=> Struck(b)) /\ HandOver(b)' = HandOver(b)
    BY DEF Struck, Handing, HandOver
  <1>2. \A b \in Adopter : b # a /\ Struck(b) => HandOver(b) # HandOver(a)
    <2> SUFFICES ASSUME NEW b \in Adopter, b # a, Struck(b), HandOver(b) = HandOver(a) PROVE FALSE
      OBVIOUS
    <2>1. run[a].from = run[b].from
      BY DEF HandOver
    <2> QED
      BY <2>1 DEF IInv, TypeOK, LocksHeld, Struck, Handing
  <1> QED
    BY <1>1, <1>2 DEF split

-----------------------------------------------------------------------------
(* What the steps of a hook are of the abstract session. *)

LEMMA ChangesPhase ==
  ASSUME IInv, IInv', NEW s \in Store, NEW p \in {"idle", "active", "ended"}, record[s] # None,
         record[s].away => p = "ended" \/ (record[s].phase = "active" /\ p = "idle"),
         Frame(s, [record[s] EXCEPT !.phase = p]), UNCHANGED starting
  PROVE  Home!Changes(s)
  <1>1. record[s] \in Record /\ view \in [Store -> Slot]
    BY SlotCases, ViewHolds DEF IInv, TypeOK, ViewFacts
  <1>2. [record[s] EXCEPT !.phase = p] \in Slot
    BY <1>1, RecordTypes DEF Slot
  <1>3. /\ view[s] = record[s] /\ view' = [view EXCEPT ![s] = [record[s] EXCEPT !.phase = p]]
        /\ UNCHANGED <<attach, stale, split>>
    BY <1>2, FrameView
  <1>4. view' = [view EXCEPT ![s].phase = p]
    BY <1>1, <1>3
  <1> QED
    BY <1>3, <1>4 DEF Home!Changes

LEMMA HooksRefine ==
  ASSUME IInv, IInv', NEW s \in Store, Hooks(s), ~AttachReads(s), ~AttachSaves(s)
  PROVE  Home!Events(s)
  <1> USE DEF Home!Events
  <1>1. record[s] \in Slot /\ (record[s] # None => record[s] \in Record) /\ view \in [Store -> Slot]
    BY SlotCases, ViewHolds DEF IInv, TypeOK, ViewFacts
  <1>2. ASSUME UNCHANGED <<record, run>> PROVE UNCHANGED <<view, split>>
    BY <1>2 DEF view, split, HandOver, Struck, Hidden, Handing, InWindow
  <1>3. CASE TurnStarts(s)
    BY <1>3, ChangesPhase DEF TurnStarts
  <1>4. CASE TurnFindsNone(s)
    BY <1>2, <1>4, FreeShows DEF TurnFindsNone, Home!TurnFindsNone
  <1>5. CASE TurnAborts(s)
    BY <1>2, <1>5 DEF TurnAborts, Home!TurnAborts
  <1>6. CASE AttachFails(s)
    BY <1>2, <1>6 DEF AttachFails, Home!AttachFails, NoAttach, Home!NoAttach
  <1>7. CASE TurnCreates(s)
    <2>1. (IF record[s] = None THEN Fresh ELSE record[s]) \in Slot
      BY <1>1, RecordTypes DEF Slot
    <2>2. /\ view[s] = record[s]
          /\ view' = [view EXCEPT ![s] = IF record[s] = None THEN Fresh ELSE record[s]]
          /\ UNCHANGED <<attach, stale, split>>
      BY <1>7, <2>1, FrameView DEF TurnCreates
    <2>3. view' = [view EXCEPT ![s] = IF @ = None THEN Home!Fresh ELSE @]
      BY <1>1, <2>2 DEF Home!Fresh, Fresh
    <2> QED
      BY <1>7, <2>2, <2>3 DEF TurnCreates, Home!TurnCreates
  <1>8. CASE TurnBegins(s)
    <2> DEFINE r == IF record[s] = None THEN None ELSE [record[s] EXCEPT !.phase = "active"]
    <2>1. r \in Slot
      BY <1>1, RecordTypes DEF Slot
    <2>2. view[s] = record[s] /\ view' = [view EXCEPT ![s] = r] /\ UNCHANGED <<attach, stale, split>>
      BY <1>8, <2>1, FrameView DEF TurnBegins
    <2>3. view' = [view EXCEPT ![s] = IF @ = None THEN None ELSE [@ EXCEPT !.phase = "active"]]
      BY <1>1, <2>2
    <2> QED
      BY <1>8, <2>2, <2>3 DEF TurnBegins, Home!TurnBegins
  <1>9. CASE SessionStarts(s)
    BY <1>9, ChangesPhase DEF SessionStarts
  <1>10. CASE TurnEnds(s)
    BY <1>10, ChangesPhase DEF TurnEnds
  <1>11. CASE SessionStops(s)
    BY <1>11, ChangesPhase DEF SessionStops
  <1>12. CASE Ages(s)
    <2>1. \A a \in Adopter : ~Hidden(a)
      BY <1>12 DEF Ages, Hidden, InWindow
    <2>2. view[s] = record[s]
      BY <2>1, ViewHolds DEF ViewFacts
    <2> QED
      BY <1>2, <1>12, <2>2 DEF Ages, Home!Ages
  <1>13. CASE Expires(s)
    <2>1. \A a \in Adopter : (Hidden(a)' <=> Hidden(a)) /\ (Struck(a)' <=> Struck(a))
      BY <1>13 DEF Expires, Hidden, InWindow, Struck, Handing
    <2>2. \A a \in Adopter : Hidden(a) => run[a].to # s
      BY <1>13 DEF Expires, IInv, Awake, Hidden, InWindow, Handing
    <2>3. view' = [view EXCEPT ![s] = None]
      BY <1>13, <2>1, <2>2, RecordView DEF Expires, Slot
    <2>4. split' = split
      BY <1>13, <2>1, SameSplit DEF Expires
    <2> QED
      BY <1>13, <2>3, <2>4 DEF Expires, Home!Forget
  <1>14. CASE AdoptsInPlace(s)
    <2>1. Live(record[s]) /\ Frame(s, Arrived(record[s])) /\ UNCHANGED starting
      BY <1>14 DEF AdoptsInPlace
    <2>2. Arrived(record[s]) \in Slot
      BY <1>1, <2>1, RecordTypes DEF Slot, Live
    <2> QED
      BY <2>1, <2>2, FrameView DEF Home!Settle, Home!Live, Home!Arrived, Live, Arrived
  <1> QED
    BY <1>3, <1>4, <1>5, <1>6, <1>7, <1>8, <1>9, <1>10, <1>11, <1>12, <1>13, <1>14 DEF Hooks

(* An attach reads what shows, or the target of a hand-over that hides it. *)
LEMMA AttachReadsRefine ==
  ASSUME IInv, NEW s \in Store, AttachReads(s)
  PROVE  Home!AttachReads(s)
  <1>1. UNCHANGED <<record, run, starting, stale>>
    BY DEF AttachReads
  <1>2. UNCHANGED <<view, split>>
    BY <1>1 DEF view, split, HandOver, Struck, Hidden, Handing, InWindow
  <1>3. record[s] \in Home!Readable(s)
    <2>1. CASE \A a \in Adopter : Hidden(a) => run[a].to # s
      BY <2>1, ViewHolds DEF ViewFacts, Home!Readable
    <2>2. CASE \E a \in Adopter : Hidden(a) /\ run[a].to = s
      <3>1. PICK a \in Adopter : Hidden(a) /\ run[a].to = s
        BY <2>2
      <3>2. Handing(a) /\ ~run[a].struck /\ InWindow(a)
        BY <3>1 DEF Hidden, InWindow, Handing
      <3>3. /\ run[a].from \in Store /\ run[a].from # s /\ Live(view[run[a].from])
            /\ record[s] = Arrived(view[run[a].from])
        BY <3>1, <3>2, Calm
      <3> QED
        BY <3>3 DEF Home!Readable, Home!Live, Home!Arrived, Live, Arrived
    <2> QED
      BY <2>1, <2>2
  <1> QED
    BY <1>1, <1>2, <1>3 DEF AttachReads, Home!AttachReads

(* An attach saves beside hand-overs, into one that is split, or splits one. *)
LEMMA AttachSavesRefine ==
  ASSUME IInv, IInv', NEW s \in Store, AttachSaves(s)
  PROVE  Home!AttachSaves(s) \/ \E f, t \in Store : Home!AttachStrikes(s, f, t)
  <1> DEFINE r == Saved(attach[s].saw)
             Hit(a) == Handing(a) /\ s \in {run[a].from, run[a].to}
  <1>1. /\ record' = [record EXCEPT ![s] = r] /\ attach[s].reading
        /\ attach' = [attach EXCEPT ![s] = NoAttach] /\ UNCHANGED <<starting, stale>>
    BY DEF AttachSaves
  <1>2. \A a \in Adopter : /\ run'[a].pc = run[a].pc /\ run'[a].from = run[a].from
                           /\ run'[a].to = run[a].to /\ run'[a].copy = run[a].copy
                           /\ run'[a].prev = run[a].prev
                           /\ run'[a].struck = (run[a].struck \/ Hit(a))
    BY DEF AttachSaves, Run, IInv, TypeOK
  <1>3. r \in Slot /\ r = Home!Saved(attach[s].saw)
    BY RecordTypes DEF IInv, TypeOK, Attached, Slot, Saved, Home!Saved, Fresh, Home!Fresh
  <1>4. NoAttach = Home!NoAttach
    BY DEF NoAttach, Home!NoAttach
  <1>5. \A a \in Adopter : HandOver(a)' = HandOver(a) /\ (Handing(a)' <=> Handing(a))
    BY <1>2 DEF HandOver, Handing
  <1> HIDE DEF r
  <1>6. CASE \A a \in Adopter : Hit(a) => run[a].struck
    <2>1. \A a \in Adopter : Struck(a)' <=> Struck(a)
      BY <1>2, <1>6 DEF Struck, Handing
    <2>2. \A a \in Adopter : Hidden(a)' <=> Hidden(a)
      BY <1>2, <1>6 DEF Hidden, InWindow
    <2>3. \A a \in Adopter : Hidden(a) => run[a].to # s
      BY <1>6 DEF Hidden, InWindow, Handing
    <2>4. split' = split
      BY <1>2, <2>1, SameSplit
    <2>5. view' = [view EXCEPT ![s] = r]
      <3>1. \A a \in Adopter : /\ Hidden(a)' <=> Hidden(a)
                               /\ Hidden(a) => /\ run[a].to # s
                                               /\ run'[a].to = run[a].to /\ run'[a].prev = run[a].prev
        BY <1>2, <2>2, <2>3
      <3> QED
        BY <1>1, <1>3, <3>1, RecordView
    <2> QED
      BY <1>1, <1>3, <1>4, <2>4, <2>5 DEF Home!AttachSaves
  <1>7. ASSUME NEW a \in Adopter, Hit(a), ~run[a].struck
        PROVE  Home!AttachStrikes(s, run[a].from, run[a].to)
    <2> DEFINE f == run[a].from
               t == run[a].to
    <2>1. /\ f \in Store /\ t \in Store /\ f # t /\ s \in {f, t} /\ Handing(a)
          /\ Live(view[f]) /\ view[f] = run[a].copy /\ view[t] = run[a].prev
          /\ record[f] = view[f] /\ record[t] \in {view[t], Arrived(view[f])}
      BY <1>7, Calm DEF Handing, InWindow
    <2>2. \A b \in Adopter : b # a /\ Handing(b) => f \notin {run[b].from, run[b].to} /\ t \notin {run[b].from, run[b].to}
      BY <2>1 DEF IInv, TypeOK, LocksHeld, Handing
    <2>3. \A b \in Adopter : b # a => run'[b].struck = run[b].struck
      <3>1. \A b \in Adopter : b # a => ~Hit(b)
        BY <2>1, <2>2
      <3> QED
        BY <1>2, <3>1 DEF IInv, TypeOK, Run
    <2>4. Struck(a)' /\ ~Struck(a) /\ \A b \in Adopter : b # a => (Struck(b)' <=> Struck(b))
      BY <1>2, <1>7, <2>1, <2>3 DEF Struck, Handing
    <2>5. split' = split \cup {HandOver(a)}
      BY <1>5, <2>4 DEF split
    <2>6. HandOver(a) = [from |-> f, to |-> t, copy |-> view[f], prev |-> view[t]]
      BY <2>1 DEF HandOver
    <2>7. /\ ~Hidden(a)'
          /\ \A b \in Adopter : b # a => (Hidden(b)' <=> Hidden(b)) /\ (Hidden(b) => run[b].to # f /\ run[b].to # t)
      BY <1>2, <1>7, <2>2, <2>3 DEF Hidden, InWindow, Handing
    <2>8. ViewFacts /\ ViewFacts' /\ record \in [Store -> Slot]
      BY ViewHolds, ViewHoldsNext DEF IInv, TypeOK
    <2>9. view'[f] = record'[f] /\ view'[t] = record'[t]
      BY <2>1, <1>2, <2>7, <2>8 DEF ViewFacts
    <2>10. \A u \in Store : u # f /\ u # t => view'[u] = view[u]
      BY <1>1, <1>2, <2>1, <2>7, <2>8 DEF ViewFacts
    <2>11. view' = [[view EXCEPT ![t] = record[t]] EXCEPT ![s] = r]
      <3>1. \A u \in Store : view'[u] = [[view EXCEPT ![t] = record[t]] EXCEPT ![s] = r][u]
        BY <1>1, <2>1, <2>8, <2>9, <2>10 DEF ViewFacts
      <3> QED
        BY <2>8, <3>1 DEF ViewFacts
    <2> QED
      BY <1>1, <1>3, <1>4, <2>1, <2>5, <2>6, <2>11
      DEF Home!AttachStrikes, Home!Live, Home!Arrived, Live, Arrived
  <1>8. ASSUME NEW a \in Adopter, Hit(a), ~run[a].struck
        PROVE  \E f, t \in Store : Home!AttachStrikes(s, f, t)
    <2>1. run[a].from \in Store /\ run[a].to \in Store
      BY DEF IInv, TypeOK, Run
    <2> QED
      BY <1>7, <1>8, <2>1
  <1> QED
    BY <1>6, <1>8

LEMMA LoadsStaysOut ==
  ASSUME run \in [Adopter -> Run], NEW a \in Adopter, Loads(a)
  PROVE  ~InWindow(a)'
  <1>1. CASE Adoptable(a)
    <2>1. run[a] \in Run /\ run'[a] = [run[a] EXCEPT !.pc = "save", !.force = FALSE,
                     !.copy = record[run[a].from], !.prev = record[run[a].to]]
      BY <1>1 DEF Loads
    <2>2. run'[a].pc = "save"
      BY <2>1 DEF Run
    <2> QED
      BY <2>2 DEF InWindow
  <1>2. CASE ~Adoptable(a)
    <2>1. run'[a].pc = "release"
      BY <1>2, RestType DEF Loads, Finish, Run
    <2> QED
      BY <2>1 DEF InWindow
  <1> QED
    BY <1>1, <1>2

(* The steps of an adopter that no attach has struck: what shows is a move, a
   hand-over cut short, or nothing. *)
LEMMA AdoptsView ==
  ASSUME IInv, IInv', NEW a \in Adopter, Adopts(a), ~run[a].struck
  PROVE  \/ view' = view
         \/ Retires(a) /\ Home!Move(run[a].from, run[a].to)
         \/ (UndoFails(a) \/ Dies(a)) /\ Home!Tear(run[a].from, run[a].to)
  <1>1. /\ \A b \in Adopter : b # a => run'[b] = run[b]
        /\ run \in [Adopter -> Run] /\ run[a] \in Run
        /\ run[a].from \in Store /\ run[a].to \in Store
        /\ record \in [Store -> Slot]
        /\ UNCHANGED <<starting, attach, stale>>
    BY RunOthers DEF IInv, TypeOK, Run
  <1>2. split' = split
    BY RunOthers, StaysWhole
  <1>3. ViewFacts /\ ViewFacts'
    BY ViewHolds, ViewHoldsNext
  <1>4. ASSUME InWindow(a)
        PROVE  /\ Hidden(a) /\ Handing(a) /\ run[a].from # run[a].to /\ Live(view[run[a].from])
               /\ record[run[a].from] = run[a].copy /\ record[run[a].to] = Arrived(run[a].copy)
               /\ view[run[a].from] = run[a].copy
    <2>1. Hidden(a) /\ Handing(a)
      BY <1>4 DEF Hidden, InWindow, Handing
    <2> QED
      BY <1>4, <2>1, Calm
  <1>5. CASE AcquiresFirst(a) \/ AcquiresSecond(a)
    <2>1. record' = record /\ ~InWindow(a) /\ ~InWindow(a)'
      BY <1>1, <1>5 DEF AcquiresFirst, AcquiresSecond, Acquires, Turn, InWindow, Run
    <2> QED
      BY <1>1, <2>1, QuietView
  <1>6. CASE Loads(a)
    <2>1. record' = record /\ ~InWindow(a)
      BY <1>6 DEF Loads, InWindow
    <2>2. ~InWindow(a)'
      BY <1>1, <1>6, LoadsStaysOut
    <2> QED
      BY <1>1, <2>1, <2>2, QuietView
  <1>7. ASSUME Finish(a) PROVE ~InWindow(a)'
    BY <1>1, <1>7, RestType DEF Finish, InWindow, Run
  <1>8. ASSUME Leaves(a) PROVE ~InWindow(a)' /\ record' = record
    BY <1>1, <1>8, RestFields DEF Leaves, InWindow
  <1>9. CASE SaveFails(a)
    BY <1>1, <1>7, <1>9, QuietView DEF SaveFails, InWindow
  <1>10. CASE Releases(a) \/ GivesUp(a) \/ (Dies(a) /\ ~InWindow(a))
    BY <1>1, <1>8, <1>10, QuietView DEF Releases, GivesUp, Dies, InWindow
  <1>11. CASE RetireFails(a)
    <2>1. /\ record' = record
          /\ \A b \in Adopter : /\ Hidden(b)' <=> Hidden(b)
                               /\ run'[b].to = run[b].to /\ run'[b].prev = run[b].prev
      BY <1>1, <1>11 DEF RetireFails, Turn, Hidden, InWindow, Run
    <2> QED
      BY <2>1, SameView
  <1>12. CASE SavesTarget(a)
    <2>1. /\ record' = [record EXCEPT ![run[a].to] = Arrived(run[a].copy)]
          /\ run[a].pc = "save" /\ ~Hidden(a) /\ Hidden(a)' /\ Handing(a)
          /\ run'[a].to = run[a].to /\ run'[a].prev = run[a].prev
      BY <1>1, <1>12 DEF SavesTarget, Turn, Hidden, InWindow, Handing, Run
    <2>2. view[run[a].to] = run[a].prev
      BY <2>1, Calm
    <2>3. \A b \in Adopter : b # a => (Hidden(b)' <=> Hidden(b)) /\ (Hidden(b) => run[b].to # run[a].to)
      BY <1>1, <2>1 DEF IInv, TypeOK, LocksHeld, Hidden, InWindow
    <2>4. \A s \in Store : view'[s] = view[s]
      <3> SUFFICES ASSUME NEW s \in Store PROVE view'[s] = view[s]
        OBVIOUS
      <3>1. CASE s = run[a].to
        BY <1>1, <1>3, <2>1, <2>2, <2>3, <3>1 DEF ViewFacts
      <3>2. CASE s # run[a].to /\ \A b \in Adopter : Hidden(b) => run[b].to # s
        BY <1>1, <1>3, <2>1, <2>3, <3>2 DEF ViewFacts
      <3>3. CASE s # run[a].to /\ \E b \in Adopter : Hidden(b) /\ run[b].to = s
        BY <1>1, <1>3, <2>1, <2>3, <3>3 DEF ViewFacts
      <3> QED
        BY <3>1, <3>2, <3>3
    <2> QED
      BY <1>3, <2>4 DEF ViewFacts
  <1>13. CASE Retires(a)
    <2>1. /\ InWindow(a) /\ ~InWindow(a)' /\ ~Hidden(a)'
          /\ record' = [record EXCEPT ![run[a].from] = Departed(run[a].copy)]
      BY <1>7, <1>13 DEF Retires, Hidden, InWindow
    <2>2. \A s \in Store : view'[s] = IF s \in {run[a].from, run[a].to} THEN record'[s] ELSE view[s]
      BY <1>1, <1>4, <2>1, WindowCloses
    <2>3. view' = [view EXCEPT ![run[a].from] = Departed(run[a].copy), ![run[a].to] = Arrived(run[a].copy)]
      BY <1>1, <1>3, <1>4, <2>1, <2>2 DEF ViewFacts
    <2> QED
      BY <1>1, <1>2, <1>4, <1>13, <2>1, <2>3
      DEF Home!Move, Home!Live, Home!Departed, Home!Arrived, Live, Departed, Arrived
  <1>14. CASE Undoes(a)
    <2>1. /\ InWindow(a) /\ ~InWindow(a)' /\ ~Hidden(a)'
          /\ record' = [record EXCEPT ![run[a].to] = run[a].prev]
      BY <1>7, <1>14 DEF Undoes, Hidden, InWindow
    <2>2. /\ view[run[a].from] = record[run[a].from] /\ view[run[a].to] = run[a].prev
          /\ \A s \in Store : view'[s] = IF s \in {run[a].from, run[a].to} THEN record'[s] ELSE view[s]
      BY <1>1, <1>4, <2>1, WindowCloses
    <2>3. \A s \in Store : view'[s] = view[s]
      BY <1>1, <1>4, <2>1, <2>2
    <2> QED
      BY <1>3, <2>3 DEF ViewFacts
  <1>15. CASE UndoFails(a) \/ (Dies(a) /\ InWindow(a))
    <2>1. InWindow(a) /\ ~InWindow(a)' /\ ~Hidden(a)' /\ record' = record
      BY <1>7, <1>8, <1>15 DEF UndoFails, Dies, Hidden, InWindow
    <2>2. \A s \in Store : view'[s] = IF s \in {run[a].from, run[a].to} THEN record'[s] ELSE view[s]
      BY <1>1, <1>4, <2>1, WindowCloses
    <2>3. view' = [view EXCEPT ![run[a].to] = Arrived(run[a].copy)]
      BY <1>1, <1>3, <1>4, <2>1, <2>2 DEF ViewFacts
    <2> QED
      BY <1>1, <1>2, <1>4, <1>15, <2>1, <2>3 DEF Home!Tear, Home!Live, Home!Arrived, Live, Arrived
  <1> QED
    BY <1>5, <1>6, <1>9, <1>10, <1>11, <1>12, <1>13, <1>14, <1>15 DEF Adopts

(* The steps of one that an attach has struck: each save shows by itself. *)
LEMMA StruckView ==
  ASSUME IInv, IInv', NEW a \in Adopter, Adopts(a), run[a].struck
  PROVE  \/ \E h \in split : Home!SplitArrives(h) \/ Home!SplitEnds(h)
         \/ UNCHANGED <<view, split>>
  <1> DEFINE h == HandOver(a)
  <1>1. /\ \A b \in Adopter : b # a => run'[b] = run[b]
        /\ run \in [Adopter -> Run] /\ run[a] \in Run
        /\ run[a].from \in Store /\ run[a].to \in Store
        /\ record \in [Store -> Slot] /\ record' \in [Store -> Slot]
        /\ UNCHANGED <<starting, attach, stale>>
    BY RunOthers DEF IInv, TypeOK, Run
  <1>2. Handing(a) /\ Struck(a) /\ h \in split /\ ~Hidden(a)
    BY DEF IInv, Faithful, Undisturbed, Struck, split, Hidden
  <1>3. /\ h.from = run[a].from /\ h.to = run[a].to /\ h.copy = run[a].copy /\ h.prev = run[a].prev
    BY DEF HandOver
  <1>4. \A b \in Adopter : b # a => /\ Hidden(b)' <=> Hidden(b)
                                    /\ Struck(b)' <=> Struck(b)
                                    /\ Hidden(b) => run[b].to # run[a].from /\ run[b].to # run[a].to
    BY <1>1, <1>2 DEF IInv, TypeOK, LocksHeld, Hidden, InWindow, Struck, Handing
  <1> HIDE DEF h
  <1>5. ASSUME ~Handing(a)' PROVE split' = split \ {h} /\ ~Hidden(a)'
    BY <1>1, <1>2, <1>5, SplitCloses DEF Struck, Handing, Hidden, InWindow, h
  <1>6. ASSUME Finish(a) \/ Leaves(a) PROVE ~Handing(a)'
    BY <1>1, <1>6, RestType, RestFields DEF Finish, Leaves, Handing, Run
  <1>7. ASSUME NEW s \in {run[a].from, run[a].to}, NEW r \in Slot, ~Hidden(a)',
               record' = [record EXCEPT ![s] = r]
        PROVE  view' = [view EXCEPT ![s] = r]
    <2>1. s \in Store
      BY <1>1
    <2>2. \A b \in Adopter : /\ Hidden(b)' <=> Hidden(b)
                             /\ Hidden(b) => /\ run[b].to # s
                                             /\ run'[b].to = run[b].to /\ run'[b].prev = run[b].prev
      BY <1>1, <1>2, <1>4, <1>7
    <2> QED
      BY <1>7, <2>1, <2>2, RecordView
  <1>8. CASE SavesTarget(a)
    <2>1. /\ record' = [record EXCEPT ![run[a].to] = Arrived(run[a].copy)]
          /\ run'[a] = [run[a] EXCEPT !.pc = "retire"]
      BY <1>1, <1>8 DEF SavesTarget, Turn
    <2>2. /\ run'[a].from = run[a].from /\ run'[a].to = run[a].to /\ run'[a].copy = run[a].copy
          /\ run'[a].prev = run[a].prev /\ run'[a].struck /\ run'[a].pc = "retire"
      BY <1>1, <2>1 DEF Run
    <2>3. Struck(a)' /\ ~Hidden(a)'
      BY <2>2 DEF Struck, Handing, Hidden
    <2>4. split' = split
      BY <1>1, <1>2, <1>4, <2>2, <2>3, SameSplit
    <2>5. Arrived(run[a].copy) \in Slot
      BY <1>1, <1>2, RecordTypes, SlotCases DEF IInv, TypeOK, LocksHeld, Handing, Live, Run, Slot
    <2>6. view' = [view EXCEPT ![h.to] = Arrived(h.copy)]
      BY <1>3, <1>7, <2>1, <2>3, <2>5
    <2> QED
      BY <1>1, <1>2, <2>4, <2>6 DEF Home!SplitArrives, Home!Arrived, Arrived
  <1>9. CASE RetireFails(a)
    <2>1. record' = record /\ run'[a] = [run[a] EXCEPT !.pc = "undo"]
      BY <1>1, <1>9 DEF RetireFails, Turn
    <2>2. /\ run'[a].from = run[a].from /\ run'[a].to = run[a].to /\ run'[a].copy = run[a].copy
          /\ run'[a].prev = run[a].prev /\ run'[a].struck /\ run'[a].pc = "undo"
      BY <1>1, <2>1 DEF Run
    <2>3. Struck(a)' /\ ~Hidden(a)'
      BY <2>2 DEF Struck, Handing, Hidden
    <2>4. split' = split
      BY <1>1, <1>2, <1>4, <2>2, <2>3, SameSplit
    <2>5. view' = view
      BY <1>1, <1>2, <1>4, <2>1, <2>3, SameView
    <2> QED
      BY <2>4, <2>5
  <1>10. CASE Retires(a)
    <2>1. record' = [record EXCEPT ![run[a].from] = Departed(run[a].copy)] /\ ~Handing(a)'
      BY <1>6, <1>10 DEF Retires
    <2>2. Departed(run[a].copy) \in Slot
      BY <1>1, <1>2, RecordTypes, SlotCases DEF IInv, TypeOK, LocksHeld, Handing, Live, Run, Slot
    <2>3. view' = [view EXCEPT ![h.from] = Departed(h.copy)]
      BY <1>3, <1>5, <1>7, <2>1, <2>2
    <2> QED
      BY <1>1, <1>2, <1>5, <2>1, <2>3 DEF Home!SplitEnds, Home!Departed, Departed
  <1>11. CASE Undoes(a)
    <2>1. record' = [record EXCEPT ![run[a].to] = run[a].prev] /\ ~Handing(a)'
      BY <1>6, <1>11 DEF Undoes
    <2>2. run[a].prev \in Slot
      BY <1>1 DEF Run
    <2>3. view' = [view EXCEPT ![h.to] = h.prev]
      BY <1>3, <1>5, <1>7, <2>1, <2>2
    <2> QED
      BY <1>1, <1>2, <1>5, <2>1, <2>3 DEF Home!SplitEnds
  <1>12. CASE SaveFails(a) \/ UndoFails(a) \/ Dies(a)
    <2>1. record' = record /\ ~Handing(a)'
      BY <1>6, <1>12 DEF SaveFails, UndoFails, Dies, Leaves
    <2>2. view' = view
      BY <1>1, <1>2, <1>4, <1>5, <2>1, SameView
    <2> QED
      BY <1>1, <1>2, <1>5, <2>1, <2>2 DEF Home!SplitEnds
  <1> QED
    BY <1>2, <1>8, <1>9, <1>10, <1>11, <1>12
    DEF Adopts, Handing, AcquiresFirst, AcquiresSecond, Loads, Releases, GivesUp

LEMMA SelectsView ==
  ASSUME IInv, IInv', NEW a \in Adopter, NEW f \in Store, NEW t \in Store, Selects(a, f, t)
  PROVE  UNCHANGED <<view, split>>
  <1>1. PICK force \in BOOLEAN :
          run' = [run EXCEPT ![a] = [Rest EXCEPT !.pc = "first", !.from = f, !.to = t, !.force = force]]
    BY DEF Selects
  <1>2. run'[a].pc = "first" /\ run'[a].struck = FALSE /\ \A b \in Adopter : b # a => run'[b] = run[b]
    BY <1>1, RestType, RestFields DEF IInv, TypeOK, Run
  <1>3. record' = record /\ ~InWindow(a) /\ ~InWindow(a)' /\ ~Handing(a)
    BY <1>2 DEF Selects, InWindow, Handing
  <1>4. ~run[a].struck
    BY <1>3 DEF IInv, Faithful, Undisturbed
  <1> QED
    BY <1>2, <1>3, <1>4, QuietView, StaysWhole

LEMMA TaskView ==
  ASSUME IInv, IInv', NEW s \in Store, NEW x \in Task, RecordsTask(s, x)
  PROVE  Home!Gains(s)
  <1>1. record[s] \in Record /\ record[s] # None
    BY SlotCases DEF RecordsTask, IInv, TypeOK
  <1>2. [record[s] EXCEPT !.tasks = @ \cup {x}] \in Slot
    BY <1>1, RecordTypes DEF Slot
  <1>3. /\ view[s] = record[s] /\ UNCHANGED <<attach, stale, split>>
        /\ view' = [view EXCEPT ![s] = [record[s] EXCEPT !.tasks = @ \cup {x}]]
    BY <1>2, FrameView DEF RecordsTask
  <1>4. view \in [Store -> Slot]
    BY ViewHolds DEF ViewFacts
  <1>5. view' = [view EXCEPT ![s].tasks = @ \cup {x}]
    BY <1>1, <1>3, <1>4
  <1> QED
    BY <1>1, <1>3, <1>5 DEF RecordsTask, Home!Gains

LEMMA StepRefines ==
  ASSUME IInv, IInv', [Next]_vars
  PROVE  Home!Next \/ UNCHANGED <<view, starting, attach, stale, split>>
  <1>1. ASSUME NEW a \in Adopter, Adopts(a)
        PROVE  Home!Next \/ UNCHANGED <<view, starting, attach, stale, split>>
    <2>1. run[a].from \in Store /\ run[a].to \in Store /\ UNCHANGED <<starting, attach, stale>>
      BY <1>1, RunOthers DEF IInv, TypeOK, Run
    <2>2. CASE run[a].struck
      BY <1>1, <2>1, <2>2, StruckView DEF Home!Next
    <2>3. CASE ~run[a].struck
      <3>1. split' = split
        BY <1>1, <2>3, RunOthers, StaysWhole
      <3> QED
        BY <1>1, <2>1, <2>3, <3>1, AdoptsView DEF Home!Next
    <2> QED
      BY <2>2, <2>3
  <1>2. ASSUME NEW a \in Adopter, NEW f \in Store, NEW t \in Store, Selects(a, f, t)
        PROVE  UNCHANGED <<view, starting, attach, stale, split>>
    BY <1>2, SelectsView DEF Selects
  <1>3. ASSUME NEW s \in Store, NEW x \in Task, RecordsTask(s, x) PROVE Home!Next
    BY <1>3, TaskView DEF Home!Next, Home!Events
  <1>4. ASSUME NEW s \in Store, Hooks(s) PROVE Home!Next
    <2>1. CASE AttachReads(s)
      BY <2>1, AttachReadsRefine DEF Home!Next, Home!Events
    <2>2. CASE AttachSaves(s)
      BY <2>2, AttachSavesRefine DEF Home!Next, Home!Events
    <2>3. CASE ~AttachReads(s) /\ ~AttachSaves(s)
      BY <1>4, <2>3, HooksRefine DEF Home!Next
    <2> QED
      BY <2>1, <2>2, <2>3
  <1>5. CASE UNCHANGED vars
    BY <1>5 DEF vars, view, split, HandOver, Struck, Hidden, Handing, InWindow
  <1> QED
    BY <1>1, <1>2, <1>3, <1>4, <1>5 DEF Next

LEMMA InitRefines == Init => Home!Init
  <1> SUFFICES ASSUME Init PROVE Home!Init
    OBVIOUS
  <1>1. \A a \in Adopter : run[a].pc = "idle" /\ run[a].struck = FALSE
    BY RestFields DEF Init
  <1>2. split = {}
    BY <1>1 DEF split, Struck
  <1>3. \A s \in Store : view[s] = None
    BY <1>1 DEF view, Init, Hidden, InWindow
  <1>4. view = [s \in Store |-> None]
    BY <1>3 DEF view
  <1> QED
    BY <1>2, <1>4 DEF Init, Home!Init, NoAttach, Home!NoAttach

(* Adoption implements SessionHome: between hand-overs a session moves from one
   repository to another in one step, with all it recorded, or not at all; and
   hooks wake a tombstone only in a turn that began without a record. *)
THEOREM ImplementsHomeCorrect == Spec => ImplementsHome
  <1>1. IInv /\ IInv' /\ [Next]_vars => [Home!Next]_<<view, starting, attach, stale, split>>
    BY StepRefines
  <1>2. Home!homeVars = <<view, starting, attach, stale, split>>
    BY DEF Home!homeVars
  <1> QED
    BY <1>1, <1>2, InitRefines, Invariance, PTL DEF Spec, ImplementsHome, Home!Spec, Home!homeVars

-----------------------------------------------------------------------------
(* A live record more than before comes only from steps that own up to it. *)

LEMMA NoMoreLive ==
  ASSUME \A s \in Store : Live(view'[s]) => Live(view[s])
  PROVE  TwoLive' => TwoLive
  BY DEF TwoLive

LEMMA QuietFrame ==
  ASSUME IInv, IInv', NEW s \in Store, NEW r \in Slot, Frame(s, r), Live(r) => Live(record[s])
  PROVE  TwoLive' => TwoLive
  <1>1. view[s] = record[s] /\ view' = [view EXCEPT ![s] = r] /\ view \in [Store -> Slot]
    BY FrameView, ViewHolds DEF ViewFacts
  <1>2. \A u \in Store : Live(view'[u]) => Live(view[u])
    BY <1>1
  <1> QED
    BY <1>2, NoMoreLive

LEMMA HooksOwnUp ==
  ASSUME IInv, IInv', NEW s \in Store, Hooks(s), OneHome
  PROVE  OneHome'
  <1>1. record[s] \in Slot /\ (record[s] # None => record[s] \in Record)
    BY SlotCases DEF IInv, TypeOK
  <1>2. CASE Parts
    BY <1>2 DEF Parts, OneHome
  <1>3. ASSUME Keeps, TwoLive' => TwoLive PROVE OneHome'
    BY <1>3 DEF Keeps, OneHome
  <1>4. CASE TurnFindsNone(s) \/ TurnAborts(s) \/ AttachReads(s) \/ AttachFails(s) \/ Ages(s)
    <2>1. UNCHANGED <<record, run, apart>>
      BY <1>4 DEF TurnFindsNone, TurnAborts, AttachReads, AttachFails, Ages
    <2>2. view' = view
      BY <2>1 DEF view, Hidden, InWindow
    <2> QED
      BY <2>1, <2>2 DEF OneHome, TwoLive
  <1>5. CASE TurnEnds(s)
    <2>1. [record[s] EXCEPT !.phase = "idle"] \in Slot /\ Live(record[s])
      BY <1>1, <1>5, RecordTypes DEF TurnEnds, Slot, Live
    <2> QED
      BY <1>3, <1>5, <2>1, QuietFrame DEF TurnEnds
  <1>6. CASE SessionStops(s)
    <2>1. [record[s] EXCEPT !.phase = "ended"] \in Slot
      BY <1>1, <1>6, RecordTypes DEF SessionStops, Slot
    <2>2. ~Live([record[s] EXCEPT !.phase = "ended"])
      BY <1>1, <1>6 DEF SessionStops, Live, Record
    <2> QED
      BY <1>3, <1>6, <2>1, <2>2, QuietFrame DEF SessionStops
  <1>7. CASE Expires(s)
    <2>1. \A a \in Adopter : (Hidden(a)' <=> Hidden(a)) /\ (Hidden(a) => run[a].to # s)
      BY <1>7 DEF Expires, IInv, Awake, Hidden, InWindow, Handing
    <2>2. view' = [view EXCEPT ![s] = None] /\ view \in [Store -> Slot]
      BY <1>7, <2>1, RecordView, ViewHolds DEF Expires, Slot, ViewFacts
    <2>3. \A u \in Store : Live(view'[u]) => Live(view[u])
      BY <2>2 DEF Live
    <2> QED
      BY <1>3, <1>7, <2>3, NoMoreLive DEF Expires
  <1>8. CASE AdoptsInPlace(s)
    <2>1. Arrived(record[s]) \in Slot /\ Live(record[s])
      BY <1>1, <1>8, RecordTypes DEF AdoptsInPlace, Slot, Live
    <2> QED
      BY <1>3, <1>8, <2>1, QuietFrame DEF AdoptsInPlace
  <1>9. TurnStarts(s) \/ TurnCreates(s) \/ TurnBegins(s) \/ SessionStarts(s) \/ AttachSaves(s) => Parts
    BY DEF TurnStarts, TurnCreates, TurnBegins, SessionStarts, AttachSaves, Reopens
  <1> QED
    BY <1>2, <1>4, <1>5, <1>6, <1>7, <1>8, <1>9 DEF Hooks

LEMMA AdoptsOwnUp ==
  ASSUME IInv, IInv', NEW a \in Adopter, Adopts(a), OneHome
  PROVE  OneHome'
  <1>1. run[a].from \in Store /\ run[a].to \in Store /\ run \in [Adopter -> Run] /\ run[a] \in Run
    BY DEF IInv, TypeOK, Run
  <1>2. CASE Parts
    BY <1>2 DEF Parts, OneHome
  <1>3. ASSUME UNCHANGED apart, view' = view PROVE OneHome'
    BY <1>3 DEF OneHome, TwoLive
  <1>4. CASE AcquiresFirst(a) \/ AcquiresSecond(a)
    <2>1. record' = record /\ ~InWindow(a) /\ ~InWindow(a)' /\ UNCHANGED apart
      BY <1>1, <1>4 DEF AcquiresFirst, AcquiresSecond, Acquires, Turn, InWindow, Run
    <2> QED
      BY <1>3, <1>4, <2>1, QuietView, RunOthers
  <1>5. CASE Loads(a)
    <2>1. record' = record /\ ~InWindow(a) /\ UNCHANGED apart
      BY <1>5 DEF Loads, InWindow
    <2>2. ~InWindow(a)'
      BY <1>1, <1>5, LoadsStaysOut
    <2> QED
      BY <1>3, <2>1, <2>2, QuietView, RunOthers
  <1>6. CASE RetireFails(a)
    <2>1. /\ UNCHANGED <<record, apart>>
          /\ \A b \in Adopter : /\ Hidden(b)' <=> Hidden(b)
                               /\ run'[b].to = run[b].to /\ run'[b].prev = run[b].prev
      BY <1>1, <1>6 DEF RetireFails, Turn, Hidden, InWindow, Run
    <2> QED
      BY <1>3, <2>1, SameView
  <1>7. CASE Keeps /\ split # {}
    BY <1>7 DEF Keeps, OneHome
  <1>8. CASE Keeps /\ split = {}
    <2>0. ~run[a].struck
      BY <1>8 DEF split, Struck, IInv, Faithful, Undisturbed
    <2>1. CASE view' = view
      BY <1>8, <2>1 DEF Keeps, OneHome, TwoLive
    <2>2. CASE Home!Move(run[a].from, run[a].to)
      <3>1. /\ run[a].from # run[a].to /\ Live(view[run[a].from])
            /\ view' = [view EXCEPT ![run[a].from] = Departed(view[run[a].from]),
                                    ![run[a].to] = Arrived(view[run[a].from])]
        BY <2>2 DEF Home!Move, Home!Live, Home!Departed, Home!Arrived, Live, Departed, Arrived
      <3>2. view \in [Store -> Slot] /\ ~Live(Departed(view[run[a].from]))
        BY ViewHolds DEF ViewFacts, Live, Departed
      <3>3. ASSUME TwoLive' PROVE TwoLive
        <4>1. PICK s \in Store, t \in Store : s # t /\ Live(view'[s]) /\ Live(view'[t])
          BY <3>3 DEF TwoLive
        <4>2. \A u \in Store : u # run[a].to /\ Live(view'[u]) => u # run[a].from /\ Live(view[u])
          BY <1>1, <3>1, <3>2
        <4> QED
          BY <1>1, <3>1, <4>1, <4>2 DEF TwoLive
      <3> QED
        BY <1>8, <3>3 DEF Keeps, OneHome
    <2>3. CASE UndoFails(a) \/ Dies(a)
      BY <1>2, <2>3 DEF UndoFails, Dies
    <2> QED
      BY <1>8, <2>0, <2>1, <2>2, <2>3, AdoptsView
  <1> QED
    BY <1>2, <1>4, <1>5, <1>6, <1>7, <1>8
    DEF Adopts, SavesTarget, SaveFails, Retires, Undoes, UndoFails, Releases, GivesUp, Dies

LEMMA StepOwnsUp == ASSUME IInv, IInv', [Next]_vars, OneHome PROVE OneHome'
  <1>1. ASSUME NEW a \in Adopter, NEW f \in Store, NEW t \in Store, Selects(a, f, t) PROVE OneHome'
    BY <1>1, SelectsView DEF Selects, OneHome, TwoLive
  <1>2. ASSUME NEW s \in Store, NEW x \in Task, RecordsTask(s, x) PROVE OneHome'
    <2>1. [record[s] EXCEPT !.tasks = @ \cup {x}] \in Slot /\ record[s] \in Record
      BY <1>2, SlotCases, RecordTypes DEF RecordsTask, IInv, TypeOK, Slot
    <2>2. Live([record[s] EXCEPT !.tasks = @ \cup {x}]) => Live(record[s])
      BY <1>2, <2>1 DEF RecordsTask, Live, Record
    <2> QED
      BY <1>2, <2>1, <2>2, QuietFrame DEF RecordsTask, Keeps, OneHome
  <1>3. CASE UNCHANGED vars
    <2>1. UNCHANGED <<record, run, apart>>
      BY <1>3 DEF vars
    <2>2. view' = view
      BY <2>1 DEF view, Hidden, InWindow
    <2> QED
      BY <2>1, <2>2 DEF OneHome, TwoLive
  <1> QED
    BY <1>1, <1>2, <1>3, HooksOwnUp, AdoptsOwnUp DEF Next

(* Whatever runs beside it, adoption leaves a session live in one repository,
   unless a turn, an attach or a hand-over cut short makes it live twice. *)
THEOREM OneHomeCorrect == Spec => []OneHome
  <1>1. Init => OneHome
    <2> SUFFICES ASSUME Init PROVE OneHome
      OBVIOUS
    <2>1. \A s \in Store : view[s] = None
      BY RestFields DEF Init, view, Hidden, InWindow
    <2> QED
      BY <2>1 DEF OneHome, TwoLive, Live
  <1> QED
    BY <1>1, StepOwnsUp, Invariance, PTL DEF Spec

=============================================================================
