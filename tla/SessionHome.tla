---------------------------- MODULE SessionHome -----------------------------
(***************************************************************************)
(* What adoption promises of a session that several repositories have a    *)
(* record of, without locks and without a hand-over in several steps: the  *)
(* session moves in one step, with everything it recorded; an adoption     *)
(* that fails changes nothing; and a tombstone only winds down, gains      *)
(* entries and is forgotten a week later.                                  *)
(*                                                                         *)
(* What the code does beside that is a step of its own, as narrow as it    *)
(* is there: a turn begins on whatever record it finds once it found none; *)
(* a hand-over is cut short and leaves the session live twice (Tear); and  *)
(* an attach saves the record it read earlier.  A hand-over that an attach *)
(* strikes is split: its two saves show one by one, from the copies it     *)
(* took.                                                                   *)
(***************************************************************************)
CONSTANTS Store, Task, None

VARIABLES
  home,       \* per repository: its record of the session
  starting,   \* per repository: a turn start that found no record
  attach,     \* per repository: what an attach read there, while one is under way
  stale,      \* per repository: nobody touched the record for a week
  split       \* the hand-overs under way that an attach struck

homeVars == <<home, starting, attach, stale, split>>

Live(r) == r # None /\ r.phase # "ended"

Fresh == [phase |-> "idle", away |-> FALSE, tasks |-> {}]

Arrived(r) == [phase |-> "active", away |-> FALSE, tasks |-> r.tasks]
Departed(r) == [phase |-> "ended", away |-> TRUE, tasks |-> r.tasks]

Saved(r) ==
  IF r = None THEN [Fresh EXCEPT !.phase = "ended"]
  ELSE [r EXCEPT !.phase = IF r.phase = "active" THEN "active" ELSE "ended"]

NoAttach == [reading |-> FALSE, saw |-> None]

Init ==
  /\ home = [s \in Store |-> None]
  /\ starting = [s \in Store |-> "no"]
  /\ attach = [s \in Store |-> NoAttach]
  /\ stale = [s \in Store |-> FALSE]
  /\ split = {}

-----------------------------------------------------------------------------
(* The session's own events, on a record that is there: a tombstone is not
   woken, it only winds down. *)
Changes(s) ==
  /\ home[s] # None
  /\ \E p \in {"idle", "active", "ended"} :
       /\ home[s].away => p = "ended" \/ (home[s].phase = "active" /\ p = "idle")
       /\ home' = [home EXCEPT ![s].phase = p]
  /\ UNCHANGED <<starting, attach, stale, split>>

Gains(s) ==
  /\ home[s] # None
  /\ \E x \in Task : home' = [home EXCEPT ![s].tasks = @ \cup {x}]
  /\ UNCHANGED <<starting, attach, stale, split>>

(* A turn that starts where there is no record creates one, and begins on what
   it then finds. *)
TurnFindsNone(s) ==
  /\ home[s] = None /\ starting[s] = "no"
  /\ starting' = [starting EXCEPT ![s] = "create"]
  /\ UNCHANGED <<home, attach, stale, split>>

TurnCreates(s) ==
  /\ starting[s] = "create"
  /\ home' = [home EXCEPT ![s] = IF @ = None THEN Fresh ELSE @]
  /\ starting' = [starting EXCEPT ![s] = "begin"]
  /\ UNCHANGED <<attach, stale, split>>

TurnBegins(s) ==
  /\ starting[s] = "begin"
  /\ home' = [home EXCEPT ![s] = IF @ = None THEN None ELSE [@ EXCEPT !.phase = "active"]]
  /\ starting' = [starting EXCEPT ![s] = "no"]
  /\ UNCHANGED <<attach, stale, split>>

TurnAborts(s) ==
  /\ starting[s] # "no"
  /\ starting' = [starting EXCEPT ![s] = "no"]
  /\ UNCHANGED <<home, attach, stale, split>>

Ages(s) ==
  /\ home[s] # None
  /\ stale' = [stale EXCEPT ![s] = TRUE]
  /\ UNCHANGED <<home, starting, attach, split>>

Forget(s) ==
  /\ stale[s]
  /\ home' = [home EXCEPT ![s] = None]
  /\ stale' = [stale EXCEPT ![s] = FALSE]
  /\ UNCHANGED <<starting, attach, split>>

-----------------------------------------------------------------------------
(* Adoption. *)

Move(f, t) ==
  /\ f # t /\ Live(home[f])
  /\ home' = [home EXCEPT ![f] = Departed(home[f]), ![t] = Arrived(home[f])]
  /\ UNCHANGED <<starting, attach, stale, split>>

Settle(s) ==
  /\ Live(home[s])
  /\ home' = [home EXCEPT ![s] = Arrived(home[s])]
  /\ UNCHANGED <<starting, attach, stale, split>>

Tear(f, t) ==
  /\ f # t /\ Live(home[f])
  /\ home' = [home EXCEPT ![t] = Arrived(home[f])]
  /\ UNCHANGED <<starting, attach, stale, split>>

-----------------------------------------------------------------------------
(* Attach.  What it reads may be the target a hand-over has saved and that does
   not count yet. *)
Readable(s) == {home[s]} \cup {Arrived(home[f]) : f \in {g \in Store \ {s} : Live(home[g])}}

AttachReads(s) ==
  /\ ~attach[s].reading
  /\ \E r \in Readable(s) : attach' = [attach EXCEPT ![s] = [reading |-> TRUE, saw |-> r]]
  /\ UNCHANGED <<home, starting, stale, split>>

AttachFails(s) ==
  /\ attach[s].reading
  /\ attach' = [attach EXCEPT ![s] = NoAttach]
  /\ UNCHANGED <<home, starting, stale, split>>

(* Alone, or to a store whose hand-over is split already. *)
AttachSaves(s) ==
  /\ attach[s].reading
  /\ home' = [home EXCEPT ![s] = Saved(attach[s].saw)]
  /\ attach' = [attach EXCEPT ![s] = NoAttach]
  /\ UNCHANGED <<starting, stale, split>>

(* Into a hand-over from f to t, which may have saved its target already. *)
AttachStrikes(s, f, t) ==
  /\ attach[s].reading
  /\ f # t /\ s \in {f, t} /\ Live(home[f])
  /\ \E arrived \in {home[t], Arrived(home[f])} :
       home' = [[home EXCEPT ![t] = arrived] EXCEPT ![s] = Saved(attach[s].saw)]
  /\ split' = split \cup {[from |-> f, to |-> t, copy |-> home[f], prev |-> home[t]]}
  /\ attach' = [attach EXCEPT ![s] = NoAttach]
  /\ UNCHANGED <<starting, stale>>

(* The steps of a split hand-over. *)
SplitArrives(h) ==
  /\ home' = [home EXCEPT ![h.to] = Arrived(h.copy)]
  /\ UNCHANGED <<starting, attach, stale, split>>

SplitEnds(h) ==
  /\ \/ UNCHANGED home
     \/ home' = [home EXCEPT ![h.from] = Departed(h.copy)]
     \/ home' = [home EXCEPT ![h.to] = h.prev]
  /\ split' = split \ {h}
  /\ UNCHANGED <<starting, attach, stale>>

-----------------------------------------------------------------------------
Events(s) ==
  \/ Changes(s) \/ Gains(s) \/ Ages(s) \/ Forget(s) \/ Settle(s)
  \/ TurnFindsNone(s) \/ TurnCreates(s) \/ TurnBegins(s) \/ TurnAborts(s)
  \/ AttachReads(s) \/ AttachSaves(s) \/ AttachFails(s)

Next ==
  \/ \E s \in Store : Events(s)
  \/ \E f, t \in Store : Move(f, t) \/ Tear(f, t)
  \/ \E s, f, t \in Store : AttachStrikes(s, f, t)
  \/ \E h \in split : SplitArrives(h) \/ SplitEnds(h)

Spec == Init /\ [][Next]_homeVars

=============================================================================
