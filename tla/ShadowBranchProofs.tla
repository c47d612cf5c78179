------------------------- MODULE ShadowBranchProofs -------------------------
(***************************************************************************)
(* Theorems about ShadowBranch.  TypeCorrect and OneStepOnTopCorrect hold  *)
(* for any number of processes, StepsKeptCorrect for one at a time.        *)
(***************************************************************************)
EXTENDS ShadowBranch, TLAPS

-----------------------------------------------------------------------------
(***************************************************************************)
(* Types.                                                                  *)
(***************************************************************************)

(* What makes a process well formed, apart from its fields' types. *)
WellFormed(p) ==
  /\ p.pc \in {"set", "unlink", "write", "cas", "save"} => p.who \in Session /\ p.copy.base # 0
  /\ p.pc # "idle" => p.to # 0

LEMMA Becoming ==
  ASSUME proc \in [Worker -> Process], NEW w \in Worker, NEW p, Becomes(w, p)
  PROVE  /\ proc'[w] = p
         /\ \A v \in Worker : v # w => proc'[v] = proc[v]
         /\ p \in Process => proc' \in [Worker -> Process]
BY DEF Becomes

(* A step in which one process goes on. *)
LEMMA TypeStep ==
  ASSUME TypeOK, NEW w \in Worker, NEW p \in Process, Becomes(w, p), WellFormed(p),
         made' \in Commit /\ head' \in 1..made', tip' \in [Commit -> SUBSET Step],
         rec' \in [Session -> Record], taken' \in 0..MaxStep, forsaken' \subseteq Session
  PROVE  TypeOK'
<1>1. /\ proc' \in [Worker -> Process]
      /\ proc'[w] = p
      /\ \A v \in Worker : v # w => proc'[v] = proc[v]
  BY Becoming DEF TypeOK
<1> QED BY <1>1 DEF TypeOK, WellFormed, Idle, InFrame

LEMMA AtType ==
  ASSUME NEW pc \in {"idle", "set", "write", "save", "list", "scan", "clear", "protect"},
         NEW job \in {"none", "step", "prompt", "rewrite", "commit", "bare", "tidy", "push"},
         NEW who \in Session \cup {None}, NEW copy \in Record, NEW saw \in SUBSET Step,
         NEW to \in Commit \cup {0}
  PROVE  /\ At(pc, job, who, copy, saw, to) \in Process
         /\ At(pc, job, who, copy, saw, to).pc = pc
         /\ At(pc, job, who, copy, saw, to).who = who
         /\ At(pc, job, who, copy, saw, to).copy = copy
         /\ At(pc, job, who, copy, saw, to).to = to
BY DEF At, Process

LEMMA AtFields ==
  ASSUME NEW pc, NEW job, NEW who, NEW copy, NEW saw, NEW to
  PROVE  LET p == At(pc, job, who, copy, saw, to) IN
         /\ p.pc = pc /\ p.job = job /\ p.who = who /\ p.copy = copy /\ p.saw = saw /\ p.to = to
         /\ p.todo = {} /\ p.drop = {} /\ p.keep = {}
BY DEF At

LEMMA AtBaseType ==
  ASSUME NEW r \in Record, NEW c \in Commit \cup {0}
  PROVE  /\ AtBase(r, c) \in Record /\ AtBase(r, c).base = c
         /\ AtBase(r, c).counted = r.counted /\ AtBase(r, c).phase = r.phase
         /\ AtBase(r, c).last = r.last
BY DEF AtBase, Record

LEMMA NoRecordType == NoRecord \in Record
BY DEF NoRecord, Record

LEMMA RestType == Rest \in Process /\ WellFormed(Rest)
BY AtType, NoRecordType DEF Rest, WellFormed

LEMMA OnwardType ==
  ASSUME NEW p \in Process, p.to # 0
  PROVE  Onward(p) \in Process /\ WellFormed(Onward(p))
BY NoRecordType DEF Onward, Process, WellFormed

(* What is typed in a step that leaves the commits alone. *)
LEMMA Typed ==
  ASSUME TypeOK
  PROVE  /\ made \in Commit /\ head \in 1..made /\ head \in Commit /\ head # 0
         /\ tip \in [Commit -> SUBSET Step]
         /\ rec \in [Session -> Record]
         /\ taken \in 0..MaxStep
         /\ forsaken \in SUBSET Session
         /\ \A w \in Worker :
              /\ proc[w] \in Process
              /\ WellFormed(proc[w])
         /\ 1..made \subseteq Commit
BY BoundAssumption DEF TypeOK, Commit, InFrame, Idle, WellFormed

LEMMA EnterFrameType ==
  ASSUME TypeOK, NEW w \in Worker, NEW s \in Session, NEW edited \in Record,
         edited.base = rec[s].base, NEW job \in {"step", "prompt", "rewrite"},
         NEW dest \in 1..made, NEW atCheckpoint \in BOOLEAN,
         EnterFrame(w, s, edited, job, dest, atCheckpoint)
  PROVE  TypeOK'
<1>1. dest \in Commit /\ dest # 0
  BY Typed, BoundAssumption DEF Commit
<1>2. edited.base # 0 /\ edited.base \in Commit
  BY DEF EnterFrame, Exists, Record
<1>3. ASSUME NEW pc \in {"set", "write", "save"}, NEW copy \in Record, copy.base # 0,
             NEW saw \in SUBSET Step, Becomes(w, At(pc, job, s, copy, saw, dest)),
             forsaken' \in SUBSET Session
      PROVE  TypeOK'
  <2>1. /\ At(pc, job, s, copy, saw, dest) \in Process
        /\ WellFormed(At(pc, job, s, copy, saw, dest))
    BY <1>1, <1>3, AtType DEF WellFormed
  <2> QED BY <1>3, <2>1, TypeStep, Typed DEF EnterFrame
<1>4. After(job) \in {"write", "save"}
  BY DEF After
<1>5. CASE edited.base = dest
  BY <1>2, <1>3, <1>4, <1>5, Typed DEF EnterFrame
<1>6. CASE edited.base # dest /\ (atCheckpoint \/ tip[edited.base] = {})
  <2>1. AtBase(edited, dest) \in Record /\ AtBase(edited, dest).base # 0
    BY <1>1, AtBaseType
  <2>2. /\ Becomes(w, At(After(job), job, s, AtBase(edited, dest), {}, dest))
        /\ forsaken' \in SUBSET Session
    BY <1>6, Typed DEF EnterFrame, LeaveBehind
  <2> QED BY <1>3, <1>4, <2>1, <2>2
<1>7. CASE edited.base # dest /\ ~(atCheckpoint \/ tip[edited.base] = {})
  <2>1. tip[edited.base] \in SUBSET Step
    BY <1>2, Typed
  <2> QED BY <1>2, <1>3, <1>7, <2>1, Typed DEF EnterFrame
<1> QED BY <1>5, <1>6, <1>7

(* A process that goes on while everything else but the records, the branches
   and the history stays. *)
LEMMA GoesOn ==
  ASSUME TypeOK, NEW w \in Worker, NEW p \in Process, WellFormed(p), Becomes(w, p),
         made' = made /\ head' = head, taken' \in 0..MaxStep,
         tip' \in [Commit -> SUBSET Step], rec' \in [Session -> Record],
         forsaken' \in SUBSET Session
  PROVE  TypeOK'
BY TypeStep, Typed

LEMMA LeavesType ==
  ASSUME TypeOK, NEW w \in Worker, Leaves(w), made' = made /\ head' = head,
         taken' \in 0..MaxStep, tip' \in [Commit -> SUBSET Step],
         rec' \in [Session -> Record], forsaken' \in SUBSET Session
  PROVE  TypeOK'
BY GoesOn, RestType DEF Leaves

LEMMA UserType ==
  ASSUME TypeOK, MoveHead
  PROVE  TypeOK'
BY BoundAssumption DEF TypeOK, MoveHead, Commit, Idle, InFrame

(* Only the record of a session changes. *)
LEMMA RecordType ==
  ASSUME TypeOK, NEW s \in Session, NEW r \in Record, rec' = [rec EXCEPT ![s] = r],
         UNCHANGED <<made, head, tip, proc, taken, forsaken>>
  PROVE  TypeOK'
BY DEF TypeOK, Idle, InFrame

LEMMA PhaseType ==
  ASSUME TypeOK, NEW s \in Session, NEW phase \in {"idle", "active", "ended", "spent"}
  PROVE  [rec[s] EXCEPT !.phase = phase] \in Record
BY DEF TypeOK, Record

LEMMA TurnsType ==
  ASSUME TypeOK, NEW w \in Worker, NEW s \in Session,
         Initialize(w, s) \/ TurnEnd(w, s) \/ SessionEnds(w, s)
  PROVE  TypeOK'
<1>0. rec[s] \in Record /\ rec[s].phase \in {"idle", "active", "ended", "spent"}
  BY DEF TypeOK, Record
<1>1. CASE Initialize(w, s)
  BY <1>1, RecordType, AtBaseType, NoRecordType, Typed DEF Initialize
<1>2. CASE TurnEnd(w, s)
  <2> DEFINE r == [rec[s] EXCEPT !.phase = IF Ended(s) THEN rec[s].phase ELSE "idle"]
  <2>1. r \in Record
    BY <1>0, PhaseType
  <2>2. rec' = [rec EXCEPT ![s] = r]
    BY <1>2 DEF TurnEnd
  <2> HIDE DEF r
  <2> QED BY <1>2, <2>1, <2>2, RecordType DEF TurnEnd
<1>3. CASE SessionEnds(w, s)
  <2> DEFINE r == [rec[s] EXCEPT !.phase = IF Ended(s) THEN rec[s].phase ELSE "ended"]
  <2>1. r \in Record
    BY <1>0, PhaseType
  <2>2. rec' = [rec EXCEPT ![s] = r]
    BY <1>3 DEF SessionEnds
  <2> HIDE DEF r
  <2> QED BY <1>3, <2>1, <2>2, RecordType DEF SessionEnds
<1> QED BY <1>1, <1>2, <1>3

LEMMA FramesType ==
  ASSUME TypeOK, NEW w \in Worker, NEW s \in Session,
         StepStarts(w, s) \/ PromptStarts(w, s) \/ RewriteStarts(w, s)
  PROVE  TypeOK'
<1>0. rec[s] \in Record /\ head \in 1..made /\ Reconciles(s) \in BOOLEAN /\ FALSE \in BOOLEAN
  BY Typed DEF Reconciles
<1>1. CASE StepStarts(w, s)
  BY <1>0, <1>1, EnterFrameType DEF StepStarts
<1>2. CASE PromptStarts(w, s)
  <2> DEFINE r == [rec[s] EXCEPT !.phase = "active", !.last = 0]
  <2>1. r \in Record /\ r.base = rec[s].base
    BY <1>0 DEF Record
  <2>2. EnterFrame(w, s, r, "prompt", head, Reconciles(s))
    BY <1>2 DEF PromptStarts
  <2> HIDE DEF r
  <2> QED BY <1>0, <2>1, <2>2, EnterFrameType
<1>3. CASE RewriteStarts(w, s)
  BY <1>0, <1>3, EnterFrameType DEF RewriteStarts
<1> QED BY <1>1, <1>2, <1>3

LEMMA MigrateType ==
  ASSUME TypeOK, NEW w \in Worker, MigrateSets(w) \/ MigrateUnlinks(w)
  PROVE  TypeOK'
<1> DEFINE p == proc[w]
<1>0. p \in Process /\ WellFormed(p) /\ p.saw \in SUBSET Step /\ p.copy \in Record
      /\ p.to \in Commit \cup {0} /\ p.job \in {"none", "step", "prompt", "rewrite", "commit", "bare", "tidy", "push"}
  BY Typed DEF Process
<1>1. CASE MigrateSets(w)
  <2>1. [p EXCEPT !.pc = "unlink"] \in Process /\ WellFormed([p EXCEPT !.pc = "unlink"])
    BY <1>0, <1>1 DEF MigrateSets, Process, WellFormed
  <2>2. tip' \in [Commit -> SUBSET Step] /\ forsaken' \in SUBSET Session
    BY <1>0, <1>1, Typed DEF MigrateSets, LeaveBehind
  <2> QED BY <1>1, <2>1, <2>2, GoesOn, Typed DEF MigrateSets
<1>2. CASE MigrateUnlinks(w)
  <2> DEFINE c == AtBase(p.copy, p.to)
             q == At(After(p.job), p.job, p.who, c, {}, p.to)
  <2>1. c \in Record /\ c.base # 0 /\ p.who \in Session /\ p.to # 0
    BY <1>0, <1>2, AtBaseType DEF MigrateUnlinks, WellFormed
  <2>2. After(p.job) \in {"write", "save"} /\ {} \in SUBSET Step
    BY DEF After
  <2> HIDE DEF c
  <2>3. q \in Process /\ WellFormed(q)
    BY <1>0, <2>1, <2>2, AtType DEF WellFormed
  <2>4. tip' \in [Commit -> SUBSET Step] /\ forsaken' \in SUBSET Session /\ Becomes(w, q)
    BY <1>0, <1>2, Typed DEF MigrateUnlinks, LeaveBehind, c
  <2> HIDE DEF q
  <2> QED BY <1>2, <2>3, <2>4, GoesOn, Typed DEF MigrateUnlinks
<1> QED BY <1>1, <1>2

LEMMA WriteType ==
  ASSUME TypeOK, NEW w \in Worker,
         WriteReads(w) \/ WriteSwaps(w) \/ WriteLoses(w) \/ CarrySkips(w)
  PROVE  TypeOK'
<1> DEFINE p == proc[w]
<1>0. p \in Process /\ WellFormed(p) /\ p.saw \in SUBSET Step /\ p.copy \in Record
      /\ p.who \in Session \cup {None}
  BY Typed DEF Process
<1>1. CASE WriteReads(w)
  <2> DEFINE q == [p EXCEPT !.pc = "cas", !.saw = tip[p.copy.base]]
  <2>1. tip[p.copy.base] \in SUBSET Step
    BY <1>0, <1>1, Typed DEF WriteReads, WellFormed, Record
  <2>2. q \in Process /\ WellFormed(q)
    BY <1>0, <1>1, <2>1 DEF WriteReads, Process, WellFormed
  <2>3. Becomes(w, q)
    BY <1>1 DEF WriteReads
  <2> HIDE DEF q
  <2> QED BY <1>1, <2>2, <2>3, GoesOn, Typed DEF WriteReads
<1>2. CASE WriteSwaps(w)
  <2> DEFINE st == [by |-> p.who, no |-> taken + 1]
             c == IF p.job = "commit"
                  THEN [p.copy EXCEPT !.counted = {st}, !.last = 0]
                  ELSE [p.copy EXCEPT !.counted = @ \cup {st}]
             q == [p EXCEPT !.pc = "save", !.saw = {}, !.copy = c]
  <2>1. p.who \in Session /\ p.copy.base # 0 /\ p.to # 0 /\ taken + 1 \in 1..MaxStep /\ taken' \in 0..MaxStep
    BY <1>0, <1>2, Typed, BoundAssumption DEF WriteSwaps, WellFormed
  <2>2. st \in Step
    BY <2>1 DEF Step
  <2>3. Becomes(w, q)
    BY <1>2 DEF WriteSwaps
  <2>4. tip' \in [Commit -> SUBSET Step]
    <3>1. tip' = [tip EXCEPT ![p.copy.base] = p.saw \cup {st}]
      BY <1>2 DEF WriteSwaps
    <3> HIDE DEF st
    <3> QED BY <1>0, <2>2, <3>1, Typed
  <2> HIDE DEF st
  <2>5. c \in Record /\ c.base # 0
    <3>1. [p.copy EXCEPT !.counted = {st}, !.last = 0] \in Record
          /\ [p.copy EXCEPT !.counted = {st}, !.last = 0].base = p.copy.base
      BY <1>0, <2>2 DEF Record
    <3>2. [p.copy EXCEPT !.counted = @ \cup {st}] \in Record
          /\ [p.copy EXCEPT !.counted = @ \cup {st}].base = p.copy.base
      BY <1>0, <2>2 DEF Record
    <3> QED BY <2>1, <3>1, <3>2
  <2> HIDE DEF c
  <2>6. q \in Process /\ WellFormed(q)
    BY <1>0, <2>1, <2>5 DEF Process, WellFormed
  <2> HIDE DEF q
  <2> QED BY <1>2, <2>1, <2>3, <2>4, <2>6, GoesOn, Typed DEF WriteSwaps
<1>3. CASE WriteLoses(w)
  <2> DEFINE q == [p EXCEPT !.saw = tip[p.copy.base]]
  <2>1. tip[p.copy.base] \in SUBSET Step
    BY <1>0, <1>3, Typed DEF WriteLoses, WellFormed, Record
  <2>2. q \in Process /\ WellFormed(q)
    BY <1>0, <1>3, <2>1 DEF WriteLoses, Process, WellFormed
  <2>3. Becomes(w, q)
    BY <1>3 DEF WriteLoses
  <2> HIDE DEF q
  <2> QED BY <1>3, <2>2, <2>3, GoesOn, Typed DEF WriteLoses
<1>4. CASE CarrySkips(w)
  <2> DEFINE q == [p EXCEPT !.pc = "save", !.saw = {}]
  <2>2. q \in Process /\ WellFormed(q)
    BY <1>0, <1>4 DEF CarrySkips, Process, WellFormed
  <2>3. Becomes(w, q)
    BY <1>4 DEF CarrySkips
  <2> HIDE DEF q
  <2> QED BY <1>4, <2>2, <2>3, GoesOn, Typed DEF CarrySkips
<1> QED BY <1>1, <1>2, <1>3, <1>4

LEMMA SaveType ==
  ASSUME TypeOK, NEW w \in Worker, SaveRecord(w) \/ FrameFails(w)
  PROVE  TypeOK'
<1> DEFINE p == proc[w]
<1>0. p \in Process /\ WellFormed(p) /\ p.copy \in Record
  BY Typed DEF Process
<1>1. CASE SaveRecord(w)
  <2>1. Becomes(w, Onward(p)) \/ Leaves(w)
    BY <1>1 DEF SaveRecord
  <2>2. rec' \in [Session -> Record] /\ forsaken' \in SUBSET Session /\ p.to # 0
    BY <1>0, <1>1, Typed DEF SaveRecord, WellFormed
  <2> QED BY <1>0, <1>1, <2>1, <2>2, OnwardType, GoesOn, LeavesType, Typed DEF SaveRecord
<1>2. CASE FrameFails(w)
  <2>1. Becomes(w, Onward(p)) \/ Leaves(w)
    BY <1>2 DEF FrameFails
  <2>2. forsaken' \in SUBSET Session /\ p.to # 0
    BY <1>0, <1>2, Typed DEF FrameFails, LeaveBehind, InFrame, WellFormed
  <2> QED BY <1>0, <1>2, <2>1, <2>2, OnwardType, GoesOn, LeavesType, Typed DEF FrameFails
<1> QED BY <1>1, <1>2

LEMMA AtCommitType ==
  ASSUME TypeOK, NEW w \in Worker, NEW s \in Session
  PROVE  /\ AtCommit(w, s) \in Record
         /\ AtCommit(w, s).base = proc[w].to /\ AtCommit(w, s).counted = {}
         /\ AtCommit(w, s).phase = rec[s].phase
<1>1. rec[s] \in Record /\ proc[w].to \in Commit \cup {0}
  BY Typed DEF Process
<1> QED BY <1>1 DEF AtCommit, Record

LEMMA CommitBeginsType ==
  ASSUME TypeOK, NEW w \in Worker, CommitStarts(w) \/ CommitLists(w)
  PROVE  TypeOK'
<1>1. CASE CommitStarts(w)
  <2>1. made + 1 \in Commit /\ made + 1 # 0 /\ made + 1 \in 1..(made + 1)
    BY <1>1, Typed, BoundAssumption DEF CommitStarts, Commit
  <2>2. PICK job \in {"commit", "bare"} : Becomes(w, At("list", job, None, NoRecord, {}, made + 1))
    BY <1>1 DEF CommitStarts
  <2>3. {} \in SUBSET Step
    OBVIOUS
  <2> DEFINE q == At("list", job, None, NoRecord, {}, made + 1)
  <2>4. q \in Process /\ WellFormed(q)
    BY <2>1, <2>3, AtType, NoRecordType DEF WellFormed
  <2> HIDE DEF q
  <2>5. Becomes(w, q)
    BY <2>2 DEF q
  <2>6. made' = made + 1 /\ head' = made + 1 /\ UNCHANGED <<tip, rec, taken, forsaken>>
    BY <1>1 DEF CommitStarts
  <2> QED BY <2>1, <2>4, <2>5, <2>6, TypeStep, Typed
<1>2. CASE CommitLists(w)
  <2> DEFINE p == proc[w]
  <2>1. PICK todo \in SUBSET Session : Becomes(w, [p EXCEPT !.pc = "next", !.todo = todo])
    BY <1>2 DEF CommitLists
  <2> DEFINE q == [p EXCEPT !.pc = "next", !.todo = todo]
  <2>2. p \in Process /\ WellFormed(p)
    BY Typed
  <2>3. q \in Process /\ WellFormed(q)
    BY <1>2, <2>2 DEF CommitLists, Process, WellFormed
  <2> HIDE DEF q
  <2>4. Becomes(w, q)
    BY <2>1 DEF q
  <2> QED BY <1>2, <2>3, <2>4, GoesOn, Typed DEF CommitLists
<1> QED BY <1>1, <1>2

LEMMA CommitVisitsType ==
  ASSUME TypeOK, NEW w \in Worker, NEW s \in Session,
         CommitCondenses(w, s) \/ CommitCarries(w, s) \/ CommitPasses(w, s)
               \/ CommitCloses(w, s) \/ BareAdvances(w, s)
  PROVE  TypeOK'
<1> DEFINE p == proc[w]
<1>0. /\ p \in Process /\ WellFormed(p) /\ p.pc = "next" /\ p.to \in Commit /\ p.to # 0
      /\ rec[s] \in Record /\ rec[s].base \in Commit \cup {0}
      /\ rec[s].phase \in {"idle", "active", "ended", "spent"}
      /\ p.todo \ {s} \in SUBSET Session /\ p.drop \in SUBSET Commit /\ p.keep \in SUBSET Commit
  BY Typed DEF Process, WellFormed, Record, CommitCondenses, CommitCarries, CommitPasses, CommitCloses,
       BareAdvances, Visits
<1>1. CASE CommitCondenses(w, s)
  <2> DEFINE q == [p EXCEPT !.todo = @ \ {s}, !.drop = @ \cup {rec[s].base}]
             r == IF Ended(s) THEN [AtCommit(w, s) EXCEPT !.phase = "spent"] ELSE AtCommit(w, s)
  <2>1. p.drop \cup {rec[s].base} \in SUBSET Commit
    BY <1>0, <1>1 DEF CommitCondenses, Exists
  <2>2. q \in Process /\ WellFormed(q)
    BY <1>0, <2>1 DEF Process, WellFormed
  <2>3. r \in Record
    <3>1. AtCommit(w, s) \in Record
      BY AtCommitType
    <3>2. [AtCommit(w, s) EXCEPT !.phase = "spent"] \in Record
      BY <3>1 DEF Record
    <3> QED BY <3>1, <3>2
  <2>4. Becomes(w, q) /\ rec' = [rec EXCEPT ![s] = r]
    BY <1>1 DEF CommitCondenses
  <2> HIDE DEF q, r
  <2> QED BY <1>1, <2>2, <2>3, <2>4, GoesOn, Typed DEF CommitCondenses
<1>2. CASE CommitCarries(w, s)
  <2> DEFINE c == AtCommit(w, s)
             q == [p EXCEPT !.pc = "write", !.who = s, !.copy = c,
                            !.todo = @ \ {s}, !.drop = @ \cup {rec[s].base}]
  <2>1. p.drop \cup {rec[s].base} \in SUBSET Commit
    BY <1>0, <1>2 DEF CommitCarries, Exists
  <2>2. c \in Record /\ c.base # 0
    BY <1>0, AtCommitType
  <2> HIDE DEF c
  <2>3. q \in Process /\ WellFormed(q)
    BY <1>0, <2>1, <2>2 DEF Process, WellFormed
  <2>4. Becomes(w, q)
    BY <1>2 DEF CommitCarries, c
  <2> HIDE DEF q
  <2> QED BY <1>2, <2>3, <2>4, GoesOn, Typed DEF CommitCarries
<1>3. CASE CommitPasses(w, s)
  <2>1. PICK keep \in SUBSET Commit : Becomes(w, [p EXCEPT !.todo = @ \ {s}, !.keep = keep])
    BY <1>0, <1>3 DEF CommitPasses, Exists
  <2> DEFINE q == [p EXCEPT !.todo = @ \ {s}, !.keep = keep]
  <2>2. q \in Process /\ WellFormed(q)
    BY <1>0 DEF Process, WellFormed
  <2>3. Becomes(w, q)
    BY <2>1
  <2> HIDE DEF q
  <2>4. rec' = rec \/ rec' = [rec EXCEPT ![s].base = p.to]
    BY <1>3 DEF CommitPasses
  <2>5. [rec[s] EXCEPT !.base = p.to] \in Record
    BY <1>0 DEF Record
  <2>6. rec' \in [Session -> Record]
    BY <2>4, <2>5, Typed
  <2>7. forsaken' \in SUBSET Session
    BY <1>3, Typed DEF CommitPasses, LeaveBehind
  <2> QED BY <1>3, <2>2, <2>3, <2>6, <2>7, GoesOn, Typed DEF CommitPasses
<1>4. CASE BareAdvances(w, s)
  <2> DEFINE q == [p EXCEPT !.todo = @ \ {s}]
  <2>2. q \in Process /\ WellFormed(q)
    BY <1>0 DEF Process, WellFormed
  <2>3. Becomes(w, q)
    BY <1>4 DEF BareAdvances
  <2> HIDE DEF q
  <2>5. [rec[s] EXCEPT !.base = p.to] \in Record
    BY <1>0 DEF Record
  <2>6. rec' \in [Session -> Record] /\ forsaken' \in SUBSET Session
    BY <1>4, <2>5, Typed DEF BareAdvances, LeaveBehind
  <2> QED BY <1>4, <2>2, <2>3, <2>6, GoesOn, Typed DEF BareAdvances
<1>5. CASE CommitCloses(w, s)
  <2> DEFINE q == [p EXCEPT !.todo = @ \ {s}]
  <2>2. q \in Process /\ WellFormed(q)
    BY <1>0 DEF Process, WellFormed
  <2>3. Becomes(w, q)
    BY <1>5 DEF CommitCloses
  <2> HIDE DEF q
  <2>4. [rec[s] EXCEPT !.phase = "spent"] \in Record
    BY <1>0 DEF Record
  <2>5. rec' \in [Session -> Record]
    BY <1>5, <2>4, Typed DEF CommitCloses
  <2> QED BY <1>5, <2>2, <2>3, <2>5, GoesOn, Typed DEF CommitCloses
<1> QED BY <1>1, <1>2, <1>3, <1>4, <1>5

LEMMA CommitEndsType ==
  ASSUME TypeOK, NEW w \in Worker, CommitVisited(w) \/ CommitDeletes(w)
  PROVE  TypeOK'
<1> DEFINE p == proc[w]
<1>0. p \in Process /\ WellFormed(p) /\ p.drop \in SUBSET Commit
  BY Typed DEF Process
<1>1. CASE CommitVisited(w)
  <2> DEFINE q == [p EXCEPT !.pc = "delete"]
  <2>1. q \in Process /\ WellFormed(q)
    BY <1>0, <1>1 DEF CommitVisited, Process, WellFormed
  <2>2. Leaves(w) \/ Becomes(w, q)
    BY <1>1 DEF CommitVisited
  <2> HIDE DEF q
  <2> QED BY <1>1, <2>1, <2>2, GoesOn, LeavesType, Typed DEF CommitVisited
<1>2. CASE CommitDeletes(w)
  <2>1. PICK b \in p.drop \ p.keep :
          /\ tip' = [tip EXCEPT ![b] = {}]
          /\ LeaveBehind({s \in Session : rec[s].base = b /\ rec[s].phase # "active"})
          /\ Leaves(w) \/ Becomes(w, [p EXCEPT !.drop = @ \ {b}])
    BY <1>2 DEF CommitDeletes
  <2> DEFINE q == [p EXCEPT !.drop = @ \ {b}]
  <2>2. p.drop \ {b} \in SUBSET Commit
    BY <1>0
  <2>3. q \in Process /\ WellFormed(q)
    BY <1>0, <2>2 DEF Process, WellFormed
  <2>4. Leaves(w) \/ Becomes(w, q)
    BY <2>1
  <2> HIDE DEF q
  <2>5. tip' \in [Commit -> SUBSET Step] /\ forsaken' \in SUBSET Session
    BY <2>1, Typed DEF LeaveBehind
  <2> QED BY <1>2, <2>3, <2>4, <2>5, GoesOn, LeavesType, Typed DEF CommitDeletes
<1> QED BY <1>1, <1>2

LEMMA TidyType ==
  ASSUME TypeOK, NEW w \in Worker,
         \/ \E s \in Session : Condenses(w, s) \/ ResetStarts(w, s)
         \/ ResetClears(w) \/ TidyScans(w) \/ TidyDeletes(w)
  PROVE  TypeOK'
<1> DEFINE p == proc[w]
<1>0. /\ p \in Process /\ WellFormed(p) /\ {} \in SUBSET Step
      /\ \A s \in Session : rec[s] \in Record /\ rec[s].base \in Commit \cup {0}
  BY Typed DEF Record
<1>1. ASSUME NEW s \in Session, Condenses(w, s)
      PROVE  TypeOK'
  <2> DEFINE q == At("scan", "tidy", s, NoRecord, {}, rec[s].base)
  <2>0. rec[s].base # 0
    BY <1>1 DEF Condenses, Exists
  <2>1. q \in Process /\ WellFormed(q)
    BY <1>0, <2>0, AtType, NoRecordType DEF WellFormed
  <2>2. PICK phase \in {"spent", "idle"}, last \in {0, rec[s].base} :
          rec' = [rec EXCEPT ![s] = [@ EXCEPT !.counted = {}, !.last = last, !.phase = phase]]
    BY <1>1 DEF Condenses
  <2> DEFINE r == [rec[s] EXCEPT !.counted = {}, !.last = last, !.phase = phase]
  <2>3. r \in Record
    BY <1>0 DEF Record
  <2>4. rec' = [rec EXCEPT ![s] = r] /\ Becomes(w, q)
    BY <1>1, <2>2 DEF Condenses
  <2> HIDE DEF q, r
  <2> QED BY <1>1, <2>1, <2>3, <2>4, GoesOn, Typed DEF Condenses
<1>2. ASSUME NEW s \in Session, ResetStarts(w, s)
      PROVE  TypeOK'
  <2> DEFINE q == At("clear", "tidy", s, NoRecord, {}, rec[s].base)
  <2>1. q \in Process /\ WellFormed(q)
    BY <1>0, <1>2, AtType, NoRecordType DEF WellFormed, ResetStarts, Exists
  <2>2. Becomes(w, q)
    BY <1>2 DEF ResetStarts
  <2> HIDE DEF q
  <2> QED BY <1>2, <2>1, <2>2, GoesOn, Typed DEF ResetStarts
<1>3. CASE ResetClears(w)
  <2> DEFINE q == [p EXCEPT !.pc = "scan"]
  <2>1. q \in Process /\ WellFormed(q)
    BY <1>0, <1>3 DEF ResetClears, Process, WellFormed
  <2>2. Becomes(w, q) /\ rec' \in [Session -> Record]
    BY <1>3, NoRecordType, Typed DEF ResetClears
  <2> HIDE DEF q
  <2> QED BY <1>3, <2>1, <2>2, GoesOn, Typed DEF ResetClears
<1>4. CASE TidyScans(w)
  <2> DEFINE q == [p EXCEPT !.pc = "delete"]
  <2>1. q \in Process /\ WellFormed(q)
    BY <1>0, <1>4 DEF TidyScans, Process, WellFormed
  <2>2. Leaves(w) \/ Becomes(w, q)
    BY <1>4 DEF TidyScans
  <2> HIDE DEF q
  <2> QED BY <1>4, <2>1, <2>2, GoesOn, LeavesType, Typed DEF TidyScans
<1>5. CASE TidyDeletes(w)
  <2>1. tip' \in [Commit -> SUBSET Step]
    BY <1>5, Typed DEF TidyDeletes
  <2> QED BY <1>5, <2>1, LeavesType, Typed DEF TidyDeletes
<1> QED BY <1>1, <1>2, <1>3, <1>4, <1>5

LEMMA PushType ==
  ASSUME TypeOK, NEW w \in Worker,
         \/ \E b \in Commit : PushLists(w, b)
         \/ PushProtects(w) \/ PushRechecks(w) \/ PushDeletes(w)
  PROVE  TypeOK'
<1> DEFINE p == proc[w]
<1>0. p \in Process /\ WellFormed(p)
  BY Typed
<1>1. ASSUME NEW b \in Commit, PushLists(w, b)
      PROVE  TypeOK'
  <2> DEFINE q == At("protect", "push", None, NoRecord, tip[b], b)
  <2>1. tip[b] \in SUBSET Step /\ b # 0
    BY Typed, BoundAssumption DEF Commit
  <2>2. q \in Process /\ WellFormed(q)
    BY <2>1, AtType, NoRecordType DEF WellFormed
  <2>3. Becomes(w, q)
    BY <1>1 DEF PushLists
  <2> HIDE DEF q
  <2> QED BY <1>1, <2>2, <2>3, GoesOn, Typed DEF PushLists
<1>2. ASSUME NEW pc \in {"protect", "recheck"}, NEW onward \in {"recheck", "expire"},
             PushLooks(w, pc, onward)
      PROVE  TypeOK'
  <2> DEFINE q == [p EXCEPT !.pc = onward]
  <2>1. q \in Process /\ WellFormed(q)
    BY <1>0, <1>2 DEF PushLooks, Process, WellFormed
  <2>2. Leaves(w) \/ Becomes(w, q)
    BY <1>2 DEF PushLooks
  <2> HIDE DEF q
  <2> QED BY <1>2, <2>1, <2>2, GoesOn, LeavesType, Typed DEF PushLooks
<1>3. CASE PushDeletes(w)
  <2>1. tip' \in [Commit -> SUBSET Step]
    BY <1>3, Typed DEF PushDeletes
  <2> QED BY <1>3, <2>1, LeavesType, Typed DEF PushDeletes
<1> QED BY <1>1, <1>2, <1>3 DEF PushProtects, PushRechecks

LEMMA TypeNext ==
  ASSUME TypeOK, [Next]_vars
  PROVE  TypeOK'
<1>1. CASE UNCHANGED vars
  BY <1>1 DEF vars, TypeOK, Idle, InFrame
<1>2. CASE MoveHead
  BY <1>2, UserType
<1>3. ASSUME NEW w \in Worker, Starts(w)
      PROVE  TypeOK'
  BY <1>3, TurnsType, FramesType, TidyType, CommitBeginsType, PushType DEF Starts
<1>4. ASSUME NEW w \in Worker, Continues(w)
      PROVE  TypeOK'
  <2>1. CASE Dies(w)
    BY <2>1, LeavesType, Typed DEF Dies
  <2> QED BY <1>4, <2>1, MigrateType, WriteType, SaveType, CommitBeginsType, CommitVisitsType,
             CommitEndsType, TidyType, PushType DEF Continues
<1> QED BY <1>1, <1>2, <1>3, <1>4 DEF Next

(* Every variable has its type, a process in a frame knows its session and its
   branch, and a process at work knows its commit. *)
THEOREM TypeCorrect == Spec => []TypeOK
<1>1. Init => TypeOK
  BY RestType, NoRecordType, BoundAssumption DEF Init, TypeOK, Commit, Idle, InFrame, WellFormed
<1>2. TypeOK /\ [Next]_vars => TypeOK'
  BY TypeNext
<1> QED BY <1>1, <1>2, PTL DEF Spec

-----------------------------------------------------------------------------
(***************************************************************************)
(* How branches change.                                                    *)
(***************************************************************************)
LEMMA UnchangedOnTop ==
  ASSUME UNCHANGED tip
  PROVE  \A b \in Commit : OnTop(b)
BY DEF OnTop

LEMMA DeletedOnTop ==
  ASSUME TypeOK, NEW c, tip' = [tip EXCEPT ![c] = {}]
  PROVE  \A b \in Commit : OnTop(b)
BY Typed DEF OnTop

LEMMA OnTopNext ==
  ASSUME TypeOK, [Next]_vars
  PROVE  \A b \in Commit : OnTop(b)
<1>1. CASE UNCHANGED vars \/ MoveHead
  BY <1>1, UnchangedOnTop DEF vars, MoveHead
<1>2. ASSUME NEW w \in Worker, Starts(w)
      PROVE  UNCHANGED tip
  BY <1>2 DEF Starts, Initialize, TurnEnd, SessionEnds, StepStarts, PromptStarts, RewriteStarts,
              EnterFrame, Condenses, ResetStarts, CommitStarts, PushLists
<1>3. ASSUME NEW w \in Worker, Continues(w)
      PROVE  \A b \in Commit : OnTop(b)
  <2>1. CASE MigrateSets(w)
    BY <2>1, Typed DEF MigrateSets, OnTop
  <2>2. CASE WriteSwaps(w)
    <3> DEFINE p == proc[w]
               st == [by |-> p.who, no |-> taken + 1]
    <3>1. p.who \in Session /\ taken + 1 \in 1..MaxStep
      BY <2>2, Typed, BoundAssumption DEF WriteSwaps, WellFormed
    <3>2. st \in Step
      BY <3>1 DEF Step
    <3>3. tip' = [tip EXCEPT ![p.copy.base] = tip[p.copy.base] \cup {st}]
      BY <2>2 DEF WriteSwaps
    <3> HIDE DEF st
    <3> QED BY <3>2, <3>3, Typed DEF OnTop
  <2>3. CASE MigrateUnlinks(w) \/ CommitDeletes(w) \/ TidyDeletes(w) \/ PushDeletes(w)
    <3>1. UNCHANGED tip \/ \E c : tip' = [tip EXCEPT ![c] = {}]
      BY <2>3 DEF MigrateUnlinks, CommitDeletes, TidyDeletes, PushDeletes
    <3> QED BY <3>1, UnchangedOnTop, DeletedOnTop
  <2>4. CASE \E s \in Session :
               CommitCondenses(w, s) \/ CommitCarries(w, s) \/ CommitPasses(w, s)
               \/ CommitCloses(w, s) \/ BareAdvances(w, s)
    BY <2>4, UnchangedOnTop DEF CommitCondenses, CommitCarries, CommitPasses, CommitCloses, BareAdvances
  <2>5. CASE \/ WriteReads(w) \/ WriteLoses(w) \/ CarrySkips(w) \/ SaveRecord(w) \/ FrameFails(w)
             \/ CommitLists(w) \/ CommitVisited(w) \/ ResetClears(w) \/ TidyScans(w)
             \/ PushProtects(w) \/ PushRechecks(w) \/ Dies(w)
    BY <2>5, UnchangedOnTop DEF WriteReads, WriteLoses, CarrySkips, SaveRecord, FrameFails,
         CommitLists, CommitVisited, ResetClears, TidyScans, PushProtects, PushRechecks, PushLooks, Dies
  <2> QED BY <1>3, <2>1, <2>2, <2>3, <2>4, <2>5 DEF Continues
<1> QED BY <1>1, <1>2, <1>3, UnchangedOnTop DEF Next

(* OneStepOnTop, for any number of processes: the compare and swap makes a
   writer build on what is there, and nobody but a migration sets a branch. *)
THEOREM OneStepOnTopCorrect == Spec => OneStepOnTop
<1>1. TypeOK /\ [Next]_vars => [\A b \in Commit : OnTop(b)]_vars
  BY OnTopNext
<1> QED BY <1>1, TypeCorrect, PTL DEF Spec, OneStepOnTop

-----------------------------------------------------------------------------
(***************************************************************************)
(* The inductive invariant behind StepsKept, for one process at a time.    *)
(***************************************************************************)
OneWorker == \A v, w \in Worker : v = w

(* Bases are commits that exist. *)
Made ==
  /\ \A s \in Session : rec[s].base <= made
  /\ \A w \in Worker :
       proc[w].copy.base <= made /\ (proc[w].job # "push" => proc[w].to <= made)

(* A session whose ended record is fully condensed counts no steps. *)
SpentEmpty == \A s \in Session \ forsaken : rec[s].phase = "spent" => rec[s].counted = {}

Carried(s) == rec[s].counted \subseteq tip[rec[s].base]

Framed(p) == p.pc \in {"set", "unlink", "write", "cas", "save"}

(* A process in a frame: until the old branch is unlinked the record on disk is
   right, from then on the copy is. *)
Moving(p) ==
  p.pc \in {"set", "unlink"} =>
    /\ p.job # "commit"
    /\ p.copy.base = rec[p.who].base
    /\ p.to # rec[p.who].base
    /\ p.saw = tip[rec[p.who].base]
    /\ p.pc = "unlink" => tip[p.to] = p.saw
    /\ p.who \notin forsaken => p.copy.counted = rec[p.who].counted

Moved(p) ==
  p.pc \in {"write", "cas", "save"} =>
    /\ p.who \notin forsaken => p.copy.counted \subseteq tip[p.copy.base]
    /\ p.pc # "save" => p.job \in {"step", "commit"}

FrameOK(p) ==
  Framed(p) =>
    /\ Exists(p.who)
    /\ p.job \in {"step", "prompt", "rewrite", "commit"}
    /\ Moving(p) /\ Moved(p)
    /\ p.copy.base = rec[p.who].base /\ p.who \notin forsaken => Carried(p.who)
    /\ p.copy.phase = "spent" /\ p.job # "step" /\ p.who \notin forsaken => p.copy.counted = {}
    /\ p.job = "commit" => p.copy.base = p.to /\ p.copy.phase # "spent"

(* An active session that post-commit has visited has moved to the new commit
   or holds on to its branch. *)
Settled(p, s) ==
  /\ s \notin p.todo
  /\ rec[s].phase = "active" /\ rec[s].counted # {} /\ Exists(s)
  /\ ~(Framed(p) /\ s = p.who)
  => rec[s].base = p.to \/ rec[s].base \in p.keep

(* Post-commit: the new commit is nobody's base before the visit, so its branch
   is not on the list to delete. *)
CommitOK(p) ==
  p.job = "commit" =>
    /\ p.pc \in {"list", "next", "write", "cas", "save", "delete"}
    /\ p.pc = "list" => p.drop = {} /\ \A s \in Session : rec[s].base # p.to
    /\ p.to \notin p.drop
    /\ \A s \in p.todo : rec[s].base # p.to /\ Exists(s) /\ rec[s].phase # "spent"
    /\ Framed(p) => p.who \notin p.todo
    /\ p.pc # "list" => \A s \in Session \ forsaken : Settled(p, s)
    /\ p.pc = "delete" => p.todo = {}

(* What the clean-up and the push found is still so: nobody else runs. *)
TidyOK(p) ==
  p.job = "tidy" =>
    /\ p.pc \in {"clear", "scan", "delete"}
    /\ p.who \in Session
    /\ p.pc # "clear" => rec[p.who].counted = {}
    /\ p.pc = "delete" => ~InUse(p.to, p.who)

PushOK(p) == p.pc = "expire" => ~Protected(p.to)

ProcessOK(p) == FrameOK(p) /\ CommitOK(p) /\ TidyOK(p) /\ PushOK(p)

(* TypeOK is proved first. *)
KeptInv ==
  /\ Made
  /\ StepsKept
  /\ SpentEmpty
  /\ \A w \in Worker : ProcessOK(proc[w])

KeptBut(w) ==
  \A s \in Session \ forsaken :
    Exists(s) /\ ~(Framed(proc[w]) /\ proc[w].who = s) => Carried(s)

LEMMA Alone ==
  ASSUME OneWorker, NEW w \in Worker
  PROVE  /\ \A s \in Session : Free(s) <=> ~(Framed(proc[w]) /\ proc[w].who = s)
         /\ StepsKept <=> KeptBut(w)
         /\ StepsKept' <=> KeptBut(w)'
<1>1. \A s \in Session : Free(s) <=> ~(Framed(proc[w]) /\ proc[w].who = s)
  BY DEF OneWorker, Free, InFrame, Framed
<1>2. \A s \in Session : Free(s)' <=> ~(Framed(proc[w]) /\ proc[w].who = s)'
  BY DEF OneWorker, Free, InFrame, Framed
<1> QED BY <1>1, <1>2 DEF StepsKept, KeptBut, Carried

LEMMA Finish ==
  ASSUME OneWorker, NEW w \in Worker, Made', KeptBut(w)', SpentEmpty', ProcessOK(proc[w])'
  PROVE  KeptInv'
<1>1. \A v \in Worker : v = w
  BY DEF OneWorker
<1>2. \A v \in Worker : ProcessOK(proc[v])'
  BY <1>1
<1> QED BY <1>2, Alone DEF KeptInv

(* What is known of the one process before its step. *)
LEMMA Known ==
  ASSUME OneWorker, TypeOK, KeptInv, NEW w \in Worker
  PROVE  /\ Made /\ SpentEmpty /\ KeptBut(w)
         /\ FrameOK(proc[w]) /\ CommitOK(proc[w]) /\ TidyOK(proc[w]) /\ PushOK(proc[w])
         /\ proc[w] \in Process /\ WellFormed(proc[w])
BY Typed, Alone DEF KeptInv, ProcessOK

LEMMA RestFields ==
  /\ Rest.pc = "idle" /\ Rest.job = "none" /\ Rest.to = 0 /\ Rest.copy.base = 0
BY DEF Rest, At, NoRecord

LEMMA RestOK ==
  ASSUME NEW w \in Worker, proc'[w] = Rest
  PROVE  ProcessOK(proc[w])'
BY RestFields DEF ProcessOK, FrameOK, CommitOK, TidyOK, PushOK, Framed

(* A process that has finished: what is left to show is about the branches and
   the records. *)
LEMMA LeavesKept ==
  ASSUME OneWorker, TypeOK, NEW w \in Worker, Leaves(w), KeptBut(w)', SpentEmpty',
         made' \in Nat, \A s \in Session : rec'[s].base <= made'
  PROVE  KeptInv'
<1>1. proc'[w] = Rest
  BY DEF Leaves, Becomes, TypeOK
<1>2. Made'
  BY <1>1, RestFields DEF Made, OneWorker
<1> QED BY <1>1, <1>2, RestOK, Finish

(* An idle process and a changed record. *)
LEMMA IdleKept ==
  ASSUME OneWorker, TypeOK, KeptInv, NEW w \in Worker, Idle(w), NEW s \in Session, NEW r \in Record,
         rec' = [rec EXCEPT ![s] = r], r.base <= made,
         r.counted \subseteq IF r.base = rec[s].base THEN rec[s].counted ELSE {},
         r.phase = "spent" => rec[s].phase = "spent",
         UNCHANGED <<made, head, tip, proc, taken, forsaken>>
  PROVE  KeptInv'
<1>0. /\ Made /\ SpentEmpty /\ KeptBut(w) /\ proc[w].pc = "idle" /\ proc[w].job \notin {"commit", "tidy"}
      /\ rec' \in [Session -> Record] /\ rec'[s] = r /\ \A t \in Session \ {s} : rec'[t] = rec[t]
  BY Known, Typed DEF Idle, CommitOK, TidyOK
<1>1. Made'
  BY <1>0 DEF Made
<1>2. KeptBut(w)'
  <2>1. rec[s].base # 0 /\ s \notin forsaken => rec[s].counted \subseteq tip[rec[s].base]
    BY <1>0 DEF KeptBut, Exists, Carried, Framed
  <2>2. r.base # 0 /\ s \notin forsaken => r.counted \subseteq tip[r.base]
    BY <2>1
  <2> QED BY <1>0, <2>2 DEF KeptBut, Exists, Carried, Framed
<1>3. SpentEmpty'
  BY <1>0 DEF SpentEmpty
<1>4. ProcessOK(proc[w])'
  BY <1>0 DEF ProcessOK, FrameOK, CommitOK, TidyOK, PushOK, Framed
<1> QED BY <1>1, <1>2, <1>3, <1>4, Finish

LEMMA TurnsKept ==
  ASSUME OneWorker, TypeOK, KeptInv, NEW w \in Worker, NEW s \in Session,
         Initialize(w, s) \/ TurnEnd(w, s) \/ SessionEnds(w, s)
  PROVE  KeptInv'
<1>0. rec[s] \in Record /\ head <= made /\ head \in Commit /\ rec[s].base <= made
  BY Known, Typed, BoundAssumption DEF Made, Commit
<1>1. CASE Initialize(w, s)
  <2> DEFINE r == AtBase(NoRecord, head)
  <2>1. r \in Record /\ r.base = head /\ r.counted = {} /\ r.phase = "idle"
    BY <1>0, AtBaseType, NoRecordType DEF NoRecord
  <2>2. rec' = [rec EXCEPT ![s] = r]
    BY <1>1 DEF Initialize
  <2> HIDE DEF r
  <2> QED BY <1>0, <1>1, <2>1, <2>2, IdleKept DEF Initialize
<1>2. ASSUME NEW phase \in {"idle", "ended"}, Idle(w),
             rec' = [rec EXCEPT ![s].phase = IF Ended(s) THEN @ ELSE phase],
             UNCHANGED <<made, head, tip, proc, taken, forsaken>>
      PROVE  KeptInv'
  <2> DEFINE r == [rec[s] EXCEPT !.phase = IF Ended(s) THEN rec[s].phase ELSE phase]
  <2>1. /\ r \in Record /\ r.base = rec[s].base /\ r.counted = rec[s].counted
        /\ r.phase = "spent" => rec[s].phase = "spent"
    BY <1>0 DEF Record
  <2>2. rec' = [rec EXCEPT ![s] = r]
    BY <1>2
  <2> HIDE DEF r
  <2> QED BY <1>0, <1>2, <2>1, <2>2, IdleKept
<1> QED BY <1>1, <1>2 DEF TurnEnd, SessionEnds

(* Nothing moves, or only HEAD. *)
LEMMA StillKept ==
  ASSUME OneWorker, TypeOK, KeptInv, made' \in Nat, made <= made',
         UNCHANGED <<tip, rec, proc, forsaken>>
  PROVE  KeptInv'
<1>1. Made'
  <2>1. /\ \A s \in Session : rec[s].base \in Nat
        /\ \A w \in Worker : proc[w].to \in Nat /\ proc[w].copy.base \in Nat
        /\ made \in Nat
    BY Typed, BoundAssumption DEF Record, Process, Commit
  <2>2. Made
    BY DEF KeptInv
  <2> QED BY <2>1, <2>2 DEF Made
<1>2. StepsKept' /\ SpentEmpty'
  <2>1. StepsKept /\ SpentEmpty
    BY DEF KeptInv
  <2> QED BY <2>1 DEF StepsKept, SpentEmpty, Exists, Free, InFrame
<1>3. ASSUME NEW w \in Worker PROVE ProcessOK(proc[w])'
  <2>1. ProcessOK(proc[w])
    BY DEF KeptInv
  <2>2. FrameOK(proc[w])'
    BY <2>1 DEF ProcessOK, FrameOK, Framed, Moving, Moved, Carried, Exists
  <2>3. CommitOK(proc[w])'
    BY <2>1 DEF ProcessOK, CommitOK, Framed, Settled, Exists
  <2>4. TidyOK(proc[w])' /\ PushOK(proc[w])'
    BY <2>1 DEF ProcessOK, TidyOK, PushOK, InUse, Protected
  <2> QED BY <2>2, <2>3, <2>4 DEF ProcessOK
<1> QED BY <1>1, <1>2, <1>3 DEF KeptInv

LEMMA BecomesField ==
  ASSUME TypeOK, NEW w \in Worker, NEW p, Becomes(w, p)
  PROVE  proc'[w] = p
BY DEF Becomes, TypeOK

(* A frame starts: the records and the branches stay. *)
LEMMA FrameKept ==
  ASSUME OneWorker, TypeOK, KeptInv, NEW w \in Worker, Idle(w),
         UNCHANGED <<made, head, tip, rec, taken>>, forsaken \subseteq forsaken',
         proc'[w].pc \in {"set", "write", "save"}, proc'[w].job \in {"step", "prompt", "rewrite"},
         proc'[w].to <= made, proc'[w].copy.base <= made, FrameOK(proc[w])'
  PROVE  KeptInv'
<1>0. /\ Made /\ SpentEmpty /\ KeptBut(w) /\ proc[w].pc = "idle"
  BY Known DEF Idle
<1>1. Made'
  BY <1>0 DEF Made, OneWorker
<1>2. KeptBut(w)' /\ SpentEmpty'
  BY <1>0 DEF KeptBut, Exists, Carried, Framed, SpentEmpty
<1>3. ProcessOK(proc[w])'
  BY <1>0 DEF ProcessOK, CommitOK, TidyOK, PushOK
<1> QED BY <1>1, <1>2, <1>3, Finish

LEMMA EnterFrameKept ==
  ASSUME OneWorker, TypeOK, KeptInv, NEW w \in Worker, NEW s \in Session, NEW edited \in Record,
         edited.base = rec[s].base, edited.counted = rec[s].counted,
         edited.phase = "spent" => rec[s].phase = "spent",
         NEW job \in {"step", "prompt", "rewrite"},
         NEW dest \in 1..made, NEW atCheckpoint \in BOOLEAN,
         EnterFrame(w, s, edited, job, dest, atCheckpoint)
  PROVE  KeptInv'
<1>0. /\ Idle(w) /\ Exists(s) /\ Made /\ SpentEmpty /\ KeptBut(w) /\ proc[w].pc = "idle"
      /\ UNCHANGED <<made, head, tip, rec, taken>>
      /\ rec[s].base <= made /\ dest <= made /\ dest \in Commit /\ edited.base \in Commit
  BY Known, Typed DEF Idle, EnterFrame, Made, Exists, Record
<1>1. /\ s \notin forsaken => Carried(s)
      /\ s \notin forsaken /\ rec[s].phase = "spent" => rec[s].counted = {}
  BY <1>0 DEF KeptBut, Framed, SpentEmpty
<1>2. /\ After(job) \in {"write", "save"} /\ (After(job) = "write" => job = "step")
  BY DEF After
<1>3. CASE edited.base = dest
  <2>1. Becomes(w, At(After(job), job, s, edited, {}, dest)) /\ UNCHANGED forsaken
    BY <1>3 DEF EnterFrame
  <2>2. /\ proc'[w].pc = After(job) /\ proc'[w].job = job /\ proc'[w].who = s
        /\ proc'[w].copy = edited /\ proc'[w].to = dest
    BY <2>1, BecomesField, AtFields
  <2>3. FrameOK(proc[w])'
    BY <1>0, <1>1, <1>2, <2>1, <2>2 DEF FrameOK, Framed, Moving, Moved, Carried, Exists
  <2> QED BY <1>0, <1>2, <1>3, <2>1, <2>2, <2>3, FrameKept
<1>4. CASE edited.base # dest /\ (atCheckpoint \/ tip[edited.base] = {})
  <2> DEFINE c == AtBase(edited, dest)
  <2>1. /\ c.base = dest /\ c.counted = rec[s].counted /\ c.phase = edited.phase
    BY <1>0, AtBaseType
  <2>2. Becomes(w, At(After(job), job, s, c, {}, dest)) /\ LeaveBehind({s})
    BY <1>4 DEF EnterFrame
  <2> HIDE DEF c
  <2>3. /\ proc'[w].pc = After(job) /\ proc'[w].job = job /\ proc'[w].who = s
        /\ proc'[w].copy = c /\ proc'[w].to = dest
    BY <2>2, BecomesField, AtFields
  <2>4. forsaken \subseteq forsaken' /\ (s \notin forsaken' => rec[s].counted = {})
    BY <2>2 DEF LeaveBehind
  <2>5. FrameOK(proc[w])'
    BY <1>0, <1>2, <1>4, <2>1, <2>3, <2>4 DEF FrameOK, Framed, Moving, Moved, Carried, Exists
  <2> QED BY <1>0, <1>2, <2>1, <2>3, <2>4, <2>5, FrameKept
<1>5. CASE edited.base # dest /\ ~(atCheckpoint \/ tip[edited.base] = {})
  <2>1. Becomes(w, At("set", job, s, edited, tip[edited.base], dest)) /\ UNCHANGED forsaken
    BY <1>5 DEF EnterFrame
  <2>2. /\ proc'[w].pc = "set" /\ proc'[w].job = job /\ proc'[w].who = s
        /\ proc'[w].copy = edited /\ proc'[w].to = dest /\ proc'[w].saw = tip[edited.base]
    BY <2>1, BecomesField, AtFields
  <2>3. FrameOK(proc[w])'
    BY <1>0, <1>1, <1>5, <2>1, <2>2 DEF FrameOK, Framed, Moving, Moved, Carried, Exists
  <2> QED BY <1>0, <2>1, <2>2, <2>3, FrameKept
<1> QED BY <1>3, <1>4, <1>5

LEMMA FramesKept ==
  ASSUME OneWorker, TypeOK, KeptInv, NEW w \in Worker, NEW s \in Session,
         StepStarts(w, s) \/ PromptStarts(w, s) \/ RewriteStarts(w, s)
  PROVE  KeptInv'
<1>0. rec[s] \in Record /\ head \in 1..made /\ Reconciles(s) \in BOOLEAN /\ FALSE \in BOOLEAN
  BY Typed DEF Reconciles
<1>1. CASE StepStarts(w, s)
  BY <1>0, <1>1, EnterFrameKept DEF StepStarts
<1>2. CASE PromptStarts(w, s)
  <2> DEFINE r == [rec[s] EXCEPT !.phase = "active", !.last = 0]
  <2>1. r \in Record /\ r.base = rec[s].base /\ r.counted = rec[s].counted /\ r.phase = "active"
    BY <1>0 DEF Record
  <2>2. EnterFrame(w, s, r, "prompt", head, Reconciles(s))
    BY <1>2 DEF PromptStarts
  <2> HIDE DEF r
  <2> QED BY <1>0, <2>1, <2>2, EnterFrameKept
<1>3. CASE RewriteStarts(w, s)
  BY <1>0, <1>3, EnterFrameKept DEF RewriteStarts
<1> QED BY <1>1, <1>2, <1>3

LEMMA MigrateSetsKept ==
  ASSUME OneWorker, TypeOK, KeptInv, NEW w \in Worker, MigrateSets(w)
  PROVE  KeptInv'
<1> DEFINE p == proc[w]
<1>0. /\ Made /\ SpentEmpty /\ KeptBut(w) /\ FrameOK(p) /\ p \in Process /\ WellFormed(p)
      /\ p.pc = "set" /\ UNCHANGED <<made, head, rec, taken>>
      /\ \A s \in Session : rec[s].base \in Commit \cup {0}
  BY Known, Typed DEF MigrateSets, Record
<1>1. /\ proc'[w].pc = "unlink" /\ proc'[w].job = p.job /\ proc'[w].who = p.who
      /\ proc'[w].copy = p.copy /\ proc'[w].saw = p.saw /\ proc'[w].to = p.to
  <2>1. proc'[w] = [p EXCEPT !.pc = "unlink"]
    BY BecomesField DEF MigrateSets
  <2> QED BY <1>0, <2>1 DEF Process
<1>2. tip'[p.to] = p.saw /\ \A c \in Commit \cup {0} : c # p.to => tip'[c] = tip[c]
  <2>1. p.to \in Commit /\ tip \in [Commit -> SUBSET Step] /\ tip' = [tip EXCEPT ![p.to] = p.saw]
    BY <1>0, Typed DEF Process, WellFormed, MigrateSets
  <2> QED BY <2>1
<1>3. /\ forsaken \subseteq forsaken'
      /\ \A s \in Session \ forsaken' : s # p.who /\ rec[s].base = p.to => rec[s].counted = {}
  BY DEF MigrateSets, LeaveBehind
<1>4. /\ Moving(p) /\ Exists(p.who) /\ p.who \in Session
      /\ p.copy.base = rec[p.who].base /\ p.who \notin forsaken => Carried(p.who)
  BY <1>0 DEF FrameOK, Framed, WellFormed
<1>5. Made'
  BY <1>0, <1>1 DEF Made, OneWorker
<1>6. KeptBut(w)' /\ SpentEmpty'
  BY <1>0, <1>1, <1>2, <1>3 DEF KeptBut, Exists, Carried, Framed, SpentEmpty
<1>7. FrameOK(proc[w])'
  <2>1. tip'[rec[p.who].base] = tip[rec[p.who].base]
    BY <1>0, <1>2, <1>4 DEF Moving
  <2>2. Moving(proc[w])'
    BY <1>0, <1>1, <1>2, <1>3, <1>4, <2>1 DEF Moving
  <2>3. (p.copy.base = rec[p.who].base /\ p.who \notin forsaken => Carried(p.who))'
    BY <1>0, <1>1, <1>3, <1>4, <2>1 DEF Carried
  <2>4. Moved(proc[w])' /\ Exists(p.who)' /\ p.job \in {"step", "prompt", "rewrite", "commit"}
    BY <1>0, <1>1, <1>4 DEF Moved, Exists, FrameOK, Framed
  <2>5. p.copy.phase = "spent" /\ p.job # "step" /\ p.who \notin forsaken => p.copy.counted = {}
    BY <1>0 DEF FrameOK, Framed
  <2> QED BY <1>0, <1>1, <1>3, <1>4, <2>2, <2>3, <2>4, <2>5 DEF FrameOK, Moving
<1>8. ProcessOK(proc[w])'
  BY <1>0, <1>1, <1>7 DEF ProcessOK, CommitOK, TidyOK, PushOK, FrameOK, Framed, Moving
<1> QED BY <1>5, <1>6, <1>8, Finish

LEMMA MigrateUnlinksKept ==
  ASSUME OneWorker, TypeOK, KeptInv, NEW w \in Worker, MigrateUnlinks(w)
  PROVE  KeptInv'
<1> DEFINE p == proc[w]
           c == AtBase(p.copy, p.to)
<1>0. /\ Made /\ SpentEmpty /\ KeptBut(w) /\ FrameOK(p) /\ p \in Process /\ WellFormed(p)
      /\ p.pc = "unlink" /\ UNCHANGED <<made, head, rec, taken>>
      /\ \A s \in Session : rec[s].base \in Commit \cup {0}
  BY Known, Typed DEF MigrateUnlinks, Record
<1>1. /\ c.base = p.to /\ c.counted = p.copy.counted /\ c.phase = p.copy.phase
  BY <1>0, AtBaseType DEF Process
<1>2. Becomes(w, At(After(p.job), p.job, p.who, c, {}, p.to))
  BY DEF MigrateUnlinks
<1> HIDE DEF c
<1>3. /\ proc'[w].pc = After(p.job) /\ proc'[w].job = p.job /\ proc'[w].who = p.who
      /\ proc'[w].copy = c /\ proc'[w].to = p.to
  BY <1>2, BecomesField, AtFields
<1>4. /\ After(p.job) \in {"write", "save"} /\ (After(p.job) = "write" => p.job = "step")
  BY DEF After
<1>5. /\ Moving(p) /\ Exists(p.who) /\ p.who \in Session
      /\ p.copy.base = rec[p.who].base /\ p.copy.base \in Commit
      /\ p.who \notin forsaken => Carried(p.who)
      /\ p.copy.phase = "spent" /\ p.job # "step" /\ p.who \notin forsaken => p.copy.counted = {}
      /\ p.job \in {"step", "prompt", "rewrite"}
  BY <1>0 DEF FrameOK, Framed, WellFormed, Moving, Process, Record
<1>6. \A b \in Commit \cup {0} : b # p.copy.base => tip'[b] = tip[b]
  <2>1. tip \in [Commit -> SUBSET Step] /\ tip' = [tip EXCEPT ![p.copy.base] = {}]
    BY Typed DEF MigrateUnlinks
  <2> QED BY <1>5, <2>1
<1>7. /\ forsaken \subseteq forsaken'
      /\ \A s \in Session \ forsaken' : s # p.who /\ rec[s].base = p.copy.base => rec[s].counted = {}
  BY DEF MigrateUnlinks, LeaveBehind
<1>8. Made'
  BY <1>0, <1>1, <1>3, <1>5 DEF Made, OneWorker
<1>9. KeptBut(w)' /\ SpentEmpty'
  BY <1>0, <1>3, <1>4, <1>6, <1>7 DEF KeptBut, Exists, Carried, Framed, SpentEmpty
<1>10. p.who \notin forsaken' => c.counted \subseteq tip'[p.to]
  <2>1. tip'[p.to] = tip[p.to] /\ tip[p.to] = tip[rec[p.who].base]
    BY <1>0, <1>5, <1>6 DEF Moving, Process, WellFormed
  <2> QED BY <1>0, <1>1, <1>5, <1>7, <2>1 DEF Moving, Carried
<1>11. FrameOK(proc[w])'
  BY <1>0, <1>1, <1>3, <1>4, <1>5, <1>7, <1>10 DEF FrameOK, Framed, Moving, Moved, Exists
<1>12. ProcessOK(proc[w])'
  BY <1>3, <1>4, <1>5, <1>11 DEF ProcessOK, CommitOK, TidyOK, PushOK
<1> QED BY <1>8, <1>9, <1>12, Finish

(* Writing a step. *)
LEMMA ReadsKept ==
  ASSUME OneWorker, TypeOK, KeptInv, NEW w \in Worker,
         WriteReads(w) \/ WriteLoses(w) \/ CarrySkips(w)
  PROVE  KeptInv'
<1> DEFINE p == proc[w]
<1>0. /\ Made /\ SpentEmpty /\ KeptBut(w) /\ FrameOK(p) /\ CommitOK(p) /\ p \in Process
      /\ p.pc \in {"write", "cas"} /\ UNCHANGED <<made, head, tip, rec, taken, forsaken>>
  BY Known DEF WriteReads, WriteLoses, CarrySkips
<1>1. /\ proc'[w].pc \in {"cas", "save"} /\ proc'[w].job = p.job /\ proc'[w].who = p.who
      /\ proc'[w].copy = p.copy /\ proc'[w].to = p.to /\ proc'[w].todo = p.todo
      /\ proc'[w].drop = p.drop /\ proc'[w].keep = p.keep
  <2>1. CASE WriteReads(w)
    <3>1. proc'[w] = [p EXCEPT !.pc = "cas", !.saw = tip[p.copy.base]]
      BY <2>1, BecomesField DEF WriteReads
    <3> QED BY <1>0, <3>1 DEF Process
  <2>2. CASE WriteLoses(w)
    <3>1. proc'[w] = [p EXCEPT !.saw = tip[p.copy.base]] /\ p.pc = "cas"
      BY <2>2, BecomesField DEF WriteLoses
    <3> QED BY <1>0, <3>1 DEF Process
  <2>3. CASE CarrySkips(w)
    <3>1. proc'[w] = [p EXCEPT !.pc = "save", !.saw = {}]
      BY <2>3, BecomesField DEF CarrySkips
    <3> QED BY <1>0, <3>1 DEF Process
  <2> QED BY <2>1, <2>2, <2>3
<1>2. Made'
  BY <1>0, <1>1 DEF Made, OneWorker
<1>3. KeptBut(w)' /\ SpentEmpty'
  BY <1>0, <1>1 DEF KeptBut, Exists, Carried, Framed, SpentEmpty
<1>4. FrameOK(proc[w])'
  BY <1>0, <1>1 DEF FrameOK, Framed, Moving, Moved, Exists, Carried
<1>5. CommitOK(proc[w])'
  BY <1>0, <1>1 DEF CommitOK, Settled, Framed, Exists
<1>6. ProcessOK(proc[w])'
  BY <1>0, <1>1, <1>4, <1>5 DEF ProcessOK, TidyOK, PushOK, FrameOK, Framed
<1> QED BY <1>2, <1>3, <1>6, Finish

LEMMA SwapsKept ==
  ASSUME OneWorker, TypeOK, KeptInv, NEW w \in Worker, WriteSwaps(w)
  PROVE  KeptInv'
<1> DEFINE p == proc[w]
           st == [by |-> p.who, no |-> taken + 1]
           c == IF p.job = "commit"
                THEN [p.copy EXCEPT !.counted = {st}, !.last = 0]
                ELSE [p.copy EXCEPT !.counted = @ \cup {st}]
<1>0. /\ Made /\ SpentEmpty /\ KeptBut(w) /\ FrameOK(p) /\ CommitOK(p) /\ p \in Process
      /\ p.copy \in Record /\ p.copy.base \in Commit
      /\ p.pc = "cas" /\ UNCHANGED <<made, head, rec, forsaken>>
      /\ \A s \in Session : rec[s].base \in Commit \cup {0}
  BY Known, Typed DEF WriteSwaps, Process, Record, WellFormed
<1>1. Becomes(w, [p EXCEPT !.pc = "save", !.saw = {}, !.copy = c])
  BY DEF WriteSwaps
<1>2. /\ \A b \in Commit : tip[b] \subseteq tip'[b]
      /\ tip'[p.copy.base] = tip[p.copy.base] \cup {st}
  <2>1. tip' = [tip EXCEPT ![p.copy.base] = tip[p.copy.base] \cup {st}] /\ DOMAIN tip = Commit
    BY Typed DEF WriteSwaps
  <2> HIDE DEF st
  <2> QED BY <1>0, <2>1, Typed
<1> HIDE DEF st
<1>3. /\ c.base = p.copy.base /\ c.phase = p.copy.phase
      /\ c.counted = IF p.job = "commit" THEN {st} ELSE p.copy.counted \cup {st}
  <2>1. LET r == [p.copy EXCEPT !.counted = {st}, !.last = 0] IN
        r.base = p.copy.base /\ r.phase = p.copy.phase /\ r.counted = {st}
    BY <1>0 DEF Record
  <2>2. LET r == [p.copy EXCEPT !.counted = @ \cup {st}] IN
        r.base = p.copy.base /\ r.phase = p.copy.phase /\ r.counted = p.copy.counted \cup {st}
    BY <1>0 DEF Record
  <2> QED BY <2>1, <2>2
<1> HIDE DEF c
<1>4. /\ proc'[w].pc = "save" /\ proc'[w].job = p.job /\ proc'[w].who = p.who
      /\ proc'[w].copy = c /\ proc'[w].to = p.to /\ proc'[w].todo = p.todo
      /\ proc'[w].drop = p.drop /\ proc'[w].keep = p.keep
  <2>1. proc'[w] = [p EXCEPT !.pc = "save", !.saw = {}, !.copy = c]
    BY <1>1, BecomesField
  <2> QED BY <1>0, <2>1 DEF Process
<1>5. Made'
  BY <1>0, <1>3, <1>4 DEF Made, OneWorker
<1>6. KeptBut(w)' /\ SpentEmpty'
  BY <1>0, <1>2, <1>4 DEF KeptBut, Exists, Carried, Framed, SpentEmpty
<1>7. Moved(p) /\ Exists(p.who) /\ p.job \in {"step", "commit"} /\ p.who \in Session
      /\ (p.job = "commit" => p.copy.base = p.to /\ p.copy.phase # "spent")
      /\ (p.copy.base = rec[p.who].base /\ p.who \notin forsaken => Carried(p.who))
  BY <1>0, Known DEF FrameOK, Framed, Moved, WellFormed
<1>8. Moved(proc[w])'
  BY <1>0, <1>2, <1>3, <1>4, <1>7 DEF Moved
<1>9. (p.copy.base = rec[p.who].base /\ p.who \notin forsaken => Carried(p.who))'
  BY <1>0, <1>2, <1>3, <1>4, <1>7 DEF Carried
<1>10. FrameOK(proc[w])'
  BY <1>0, <1>3, <1>4, <1>7, <1>8, <1>9 DEF FrameOK, Framed, Moving, Exists
<1>11. CommitOK(proc[w])'
  BY <1>0, <1>4 DEF CommitOK, Settled, Framed, Exists
<1>12. ProcessOK(proc[w])'
  BY <1>4, <1>7, <1>10, <1>11 DEF ProcessOK, TidyOK, PushOK
<1> QED BY <1>5, <1>6, <1>12, Finish

LEMMA OnwardFields ==
  ASSUME NEW p \in Process
  PROVE  LET q == Onward(p) IN
         /\ q.pc = "next" /\ q.job = p.job /\ q.to = p.to /\ q.copy = NoRecord
         /\ q.todo = p.todo /\ q.drop = p.drop /\ q.keep = p.keep
BY DEF Onward, Process

(* The end of a frame, whether the record is saved or not. *)
LEMMA FrameEndKept ==
  ASSUME OneWorker, TypeOK, KeptInv, NEW w \in Worker, Framed(proc[w]),
         UNCHANGED <<made, head, tip, taken>>, NEW r,
         rec' = [rec EXCEPT ![proc[w].who] = r], r.base <= made, r.base # 0,
         forsaken \subseteq forsaken',
         proc[w].who \notin forsaken' =>
           /\ r.counted \subseteq tip[r.base]
           /\ r.phase = "spent" => r.counted = {}
           /\ proc[w].job = "commit" => r.base = proc[w].to \/ r.counted = {},
         IF proc[w].job = "commit" THEN Becomes(w, Onward(proc[w])) ELSE Leaves(w)
  PROVE  KeptInv'
<1> DEFINE p == proc[w]
<1>0. /\ Made /\ SpentEmpty /\ KeptBut(w) /\ FrameOK(p) /\ CommitOK(p) /\ p \in Process
      /\ p.who \in Session /\ rec'[p.who] = r /\ \A s \in Session : s # p.who => rec'[s] = rec[s]
  BY Known, Typed DEF WellFormed, Framed
<1>1. \A s \in Session \ forsaken' : rec'[s].base # 0 => rec'[s].counted \subseteq tip'[rec'[s].base]
  BY <1>0 DEF KeptBut, Exists, Carried
<1>2. SpentEmpty' /\ KeptBut(w)'
  BY <1>0, <1>1 DEF SpentEmpty, KeptBut, Exists, Carried
<1>3. \A s \in Session : rec'[s].base <= made'
  BY <1>0 DEF Made
<1>4. CASE p.job # "commit"
  BY <1>2, <1>3, <1>4, LeavesKept, Typed, BoundAssumption DEF Commit
<1>5. CASE p.job = "commit"
  <2>1. /\ proc'[w].pc = "next" /\ proc'[w].job = "commit" /\ proc'[w].to = p.to
        /\ proc'[w].copy = NoRecord /\ proc'[w].todo = p.todo /\ proc'[w].drop = p.drop
        /\ proc'[w].keep = p.keep
    BY <1>0, <1>5, BecomesField, OnwardFields
  <2>2. Made'
    <3>1. NoRecord.base <= made'
      BY Typed, BoundAssumption DEF NoRecord, Commit
    <3> QED BY <1>0, <1>3, <1>5, <2>1, <3>1 DEF Made, OneWorker
  <2>3. CommitOK(proc[w])'
    BY <1>0, <1>5, <2>1 DEF CommitOK, Settled, Framed, Exists
  <2>4. ProcessOK(proc[w])'
    BY <2>1, <2>3 DEF ProcessOK, FrameOK, Framed, TidyOK, PushOK
  <2> QED BY <1>2, <2>2, <2>4, Finish
<1> QED BY <1>4, <1>5

LEMMA SaveKept ==
  ASSUME OneWorker, TypeOK, KeptInv, NEW w \in Worker, SaveRecord(w)
  PROVE  KeptInv'
<1> DEFINE p == proc[w]
<1>0. /\ Made /\ FrameOK(p) /\ Framed(p) /\ p.pc = "save" /\ WellFormed(p) /\ p.copy.base <= made
  BY Known DEF SaveRecord, Framed, Made
<1>1. /\ forsaken \subseteq forsaken'
      /\ p.who \notin forsaken' => p.who \notin forsaken /\ ~(p.job = "step" /\ p.copy.phase = "spent")
  BY DEF SaveRecord
<1>2. p.who \notin forsaken' =>
        /\ p.copy.counted \subseteq tip[p.copy.base]
        /\ p.copy.phase = "spent" => p.copy.counted = {}
        /\ p.job = "commit" => p.copy.base = p.to
  BY <1>0, <1>1 DEF FrameOK, Moved
<1> QED BY <1>0, <1>1, <1>2, FrameEndKept DEF SaveRecord, WellFormed

LEMMA FailsKept ==
  ASSUME OneWorker, TypeOK, KeptInv, NEW w \in Worker, FrameFails(w)
  PROVE  KeptInv'
<1> DEFINE p == proc[w]
           r == rec[p.who]
<1>0. /\ Made /\ SpentEmpty /\ FrameOK(p) /\ Framed(p) /\ WellFormed(p) /\ p.who \in Session
      /\ r.base <= made /\ Exists(p.who)
  BY Known DEF FrameFails, InFrame, Framed, Made, WellFormed, FrameOK
<1>1. rec' = [rec EXCEPT ![p.who] = r]
  BY <1>0, Typed DEF FrameFails
<1>2. /\ forsaken \subseteq forsaken'
      /\ p.who \notin forsaken' => p.who \notin forsaken
      /\ p.job = "commit" /\ p.who \notin forsaken' => r.counted = {}
      /\ p.pc \in {"write", "cas", "save"} /\ p.copy.base # r.base /\ p.who \notin forsaken' =>
           r.counted = {}
  BY <1>0 DEF FrameFails, LeaveBehind
<1>3. p.who \notin forsaken' => r.counted \subseteq tip[r.base]
  BY <1>0, <1>2 DEF FrameOK, Moving, Framed, Carried
<1>4. p.who \notin forsaken' /\ r.phase = "spent" => r.counted = {}
  BY <1>0, <1>2 DEF SpentEmpty
<1> QED BY <1>0, <1>1, <1>2, <1>3, <1>4, FrameEndKept DEF FrameFails, Exists

LEMMA CommitStartsKept ==
  ASSUME OneWorker, TypeOK, KeptInv, NEW w \in Worker, CommitStarts(w)
  PROVE  KeptInv'
<1>0. /\ Made /\ SpentEmpty /\ KeptBut(w) /\ proc[w].pc = "idle" /\ made \in Nat
      /\ made' = made + 1 /\ UNCHANGED <<tip, rec, taken, forsaken>>
      /\ \A s \in Session : rec[s].base \in Nat
  BY Known, Typed, BoundAssumption DEF CommitStarts, Idle, Commit, Record
<1>1. PICK job \in {"commit", "bare"} : Becomes(w, At("list", job, None, NoRecord, {}, made + 1))
  BY DEF CommitStarts
<1>2. /\ proc'[w].pc = "list" /\ proc'[w].job = job /\ proc'[w].copy = NoRecord
      /\ proc'[w].to = made + 1 /\ proc'[w].drop = {} /\ proc'[w].todo = {}
  BY <1>1, BecomesField, AtFields
<1>3. /\ \A s \in Session : rec'[s].base <= made' /\ rec'[s].base # made + 1
      /\ NoRecord.base <= made'
  BY <1>0 DEF Made, NoRecord
<1>4. Made'
  BY <1>0, <1>2, <1>3 DEF Made, OneWorker
<1>5. KeptBut(w)' /\ SpentEmpty'
  BY <1>0, <1>2 DEF KeptBut, SpentEmpty, Exists, Carried, Framed
<1>6. ProcessOK(proc[w])'
  BY <1>2, <1>3 DEF ProcessOK, FrameOK, Framed, CommitOK, TidyOK, PushOK
<1> QED BY <1>4, <1>5, <1>6, Finish

LEMMA CommitListsKept ==
  ASSUME OneWorker, TypeOK, KeptInv, NEW w \in Worker, CommitLists(w)
  PROVE  KeptInv'
<1> DEFINE p == proc[w]
           todo == IF p.job = "commit"
                   THEN {s \in Session : Exists(s) /\ rec[s].phase # "spent"}
                   ELSE {s \in Session : rec[s].phase = "active" /\ rec[s].base # p.to}
<1>0. /\ Made /\ SpentEmpty /\ KeptBut(w) /\ CommitOK(p) /\ p \in Process /\ p.pc = "list"
      /\ UNCHANGED <<made, head, tip, rec, taken, forsaken>>
  BY Known DEF CommitLists
<1>1. proc'[w] = [p EXCEPT !.pc = "next", !.todo = todo]
  BY BecomesField DEF CommitLists
<1>2. p.job = "commit" => \A s \in Session : s \in todo <=> Exists(s) /\ rec[s].phase # "spent"
  OBVIOUS
<1>3. todo \subseteq Session
  OBVIOUS
<1> HIDE DEF todo
<1>4. /\ proc'[w].pc = "next" /\ proc'[w].job = p.job /\ proc'[w].copy = p.copy
      /\ proc'[w].to = p.to /\ proc'[w].drop = p.drop /\ proc'[w].keep = p.keep
      /\ proc'[w].todo = todo
  BY <1>0, <1>1 DEF Process
<1>5. Made'
  BY <1>0, <1>4 DEF Made, OneWorker
<1>6. KeptBut(w)' /\ SpentEmpty'
  BY <1>0, <1>4 DEF KeptBut, SpentEmpty, Exists, Carried, Framed
<1>7. CommitOK(proc[w])'
  BY <1>0, <1>2, <1>3, <1>4 DEF CommitOK, Settled, Framed, Exists
<1>8. ProcessOK(proc[w])'
  <2>1. p.job # "tidy"
    BY <1>0, Known DEF TidyOK
  <2> QED BY <1>4, <1>7, <2>1 DEF ProcessOK, FrameOK, Framed, TidyOK, PushOK
<1> QED BY <1>5, <1>6, <1>8, Finish

LEMMA CondensesKept ==
  ASSUME OneWorker, TypeOK, KeptInv, NEW w \in Worker, NEW s \in Session, CommitCondenses(w, s)
  PROVE  KeptInv'
<1> DEFINE p == proc[w]
           r == IF Ended(s) THEN [AtCommit(w, s) EXCEPT !.phase = "spent"] ELSE AtCommit(w, s)
<1>0. /\ Made /\ SpentEmpty /\ KeptBut(w) /\ CommitOK(p) /\ p \in Process /\ p.to <= made
      /\ p.pc = "next" /\ p.job = "commit" /\ s \in p.todo
      /\ UNCHANGED <<made, head, tip, taken, forsaken>>
  BY Known DEF CommitCondenses, Visits, Made
<1>1. /\ proc'[w].pc = "next" /\ proc'[w].job = "commit" /\ proc'[w].copy = p.copy
      /\ proc'[w].to = p.to /\ proc'[w].drop = p.drop \cup {rec[s].base} /\ proc'[w].keep = p.keep
      /\ proc'[w].todo = p.todo \ {s}
  <2>1. proc'[w] = [p EXCEPT !.todo = @ \ {s}, !.drop = @ \cup {rec[s].base}]
    BY BecomesField DEF CommitCondenses
  <2> QED BY <1>0, <2>1 DEF Process
<1>2. r.base = p.to /\ r.counted = {}
  <2>1. AtCommit(w, s) \in Record /\ AtCommit(w, s).base = p.to /\ AtCommit(w, s).counted = {}
    BY AtCommitType
  <2>2. LET q == [AtCommit(w, s) EXCEPT !.phase = "spent"] IN q.base = p.to /\ q.counted = {}
    BY <2>1 DEF Record
  <2> QED BY <2>1, <2>2
<1>3. rec' = [rec EXCEPT ![s] = r]
  BY DEF CommitCondenses
<1> HIDE DEF r
<1>4. rec'[s] = r /\ \A t \in Session : t # s => rec'[t] = rec[t]
  BY <1>3, Typed
<1>5. Made'
  BY <1>0, <1>1, <1>2, <1>4 DEF Made, OneWorker
<1>6. KeptBut(w)' /\ SpentEmpty'
  BY <1>0, <1>1, <1>2, <1>4 DEF KeptBut, SpentEmpty, Exists, Carried, Framed
<1>7. CommitOK(proc[w])'
  BY <1>0, <1>1, <1>2, <1>4, Typed DEF CommitOK, Settled, Framed, Exists, Process
<1>8. ProcessOK(proc[w])'
  BY <1>1, <1>7 DEF ProcessOK, FrameOK, Framed, TidyOK, PushOK
<1> QED BY <1>5, <1>6, <1>8, Finish

LEMMA CarriesKept ==
  ASSUME OneWorker, TypeOK, KeptInv, NEW w \in Worker, NEW s \in Session, CommitCarries(w, s)
  PROVE  KeptInv'
<1> DEFINE p == proc[w]
           c == AtCommit(w, s)
<1>0. /\ Made /\ SpentEmpty /\ KeptBut(w) /\ CommitOK(p) /\ p \in Process /\ p.to <= made
      /\ p.pc = "next" /\ p.job = "commit" /\ s \in p.todo
      /\ UNCHANGED <<made, head, tip, rec, taken, forsaken>>
  BY Known DEF CommitCarries, Visits, Made
<1>1. c.base = p.to /\ c.counted = {} /\ c.phase = rec[s].phase
  BY AtCommitType
<1>2. proc'[w] = [p EXCEPT !.pc = "write", !.who = s, !.copy = c,
                           !.todo = @ \ {s}, !.drop = @ \cup {rec[s].base}]
  BY BecomesField DEF CommitCarries
<1> HIDE DEF c
<1>3. /\ proc'[w].pc = "write" /\ proc'[w].job = "commit" /\ proc'[w].who = s /\ proc'[w].copy = c
      /\ proc'[w].to = p.to /\ proc'[w].drop = p.drop \cup {rec[s].base} /\ proc'[w].keep = p.keep
      /\ proc'[w].todo = p.todo \ {s}
  BY <1>0, <1>2 DEF Process
<1>4. Made'
  BY <1>0, <1>1, <1>3 DEF Made, OneWorker
<1>5. KeptBut(w)' /\ SpentEmpty'
  BY <1>0, <1>3 DEF KeptBut, SpentEmpty, Exists, Carried, Framed
<1>6. CommitOK(proc[w])'
  BY <1>0, <1>3 DEF CommitOK, Settled, Framed, Exists, Process
<1>7. FrameOK(proc[w])'
  BY <1>0, <1>1, <1>3 DEF FrameOK, Framed, Moving, Moved, Exists, CommitOK
<1>8. ProcessOK(proc[w])'
  BY <1>3, <1>6, <1>7 DEF ProcessOK, TidyOK, PushOK
<1> QED BY <1>4, <1>5, <1>8, Finish

LEMMA PassesKept ==
  ASSUME OneWorker, TypeOK, KeptInv, NEW w \in Worker, NEW s \in Session, CommitPasses(w, s)
  PROVE  KeptInv'
<1> DEFINE p == proc[w]
<1>0. /\ Made /\ SpentEmpty /\ KeptBut(w) /\ CommitOK(p) /\ p \in Process /\ p.to <= made
      /\ p.pc = "next" /\ p.job = "commit" /\ s \in p.todo /\ rec[s].base # p.to /\ Exists(s)
      /\ UNCHANGED <<made, head, tip, taken>>
  BY Known DEF CommitPasses, Visits, Made, CommitOK
<1>1. PICK files \in BOOLEAN, advances \in BOOLEAN, interrupted \in BOOLEAN :
        /\ advances => rec[s].phase = "active" /\ ~interrupted
        /\ Becomes(w, [p EXCEPT !.todo = @ \ {s},
                         !.keep = IF Exists(s) /\ (interrupted \/ (rec[s].phase = "active" /\ (files \/ rec[s].counted # {})))
                                  THEN @ \cup {rec[s].base} ELSE @])
        /\ IF advances
           THEN rec' = [rec EXCEPT ![s].base = p.to] /\ LeaveBehind({s})
           ELSE UNCHANGED <<rec, forsaken>>
  BY <1>0 DEF CommitPasses
<1> DEFINE keep == IF Exists(s) /\ (interrupted \/ (rec[s].phase = "active" /\ (files \/ rec[s].counted # {})))
                   THEN p.keep \cup {rec[s].base} ELSE p.keep
<1>2. proc'[w] = [p EXCEPT !.todo = @ \ {s}, !.keep = keep]
  BY <1>1, BecomesField
<1>3. /\ p.keep \subseteq keep
      /\ rec[s].phase = "active" /\ rec[s].counted # {} => rec[s].base \in keep
  BY <1>0
<1> HIDE DEF keep
<1>4. /\ proc'[w].pc = "next" /\ proc'[w].job = "commit" /\ proc'[w].copy = p.copy
      /\ proc'[w].to = p.to /\ proc'[w].drop = p.drop /\ proc'[w].keep = keep
      /\ proc'[w].todo = p.todo \ {s}
  BY <1>0, <1>2 DEF Process
<1>5. /\ \A t \in Session : t # s => rec'[t] = rec[t]
      /\ rec'[s].counted = rec[s].counted /\ rec'[s].phase = rec[s].phase
      /\ rec'[s].base \in {rec[s].base, p.to}
      /\ forsaken \subseteq forsaken'
      /\ rec'[s].base # rec[s].base /\ s \notin forsaken' => rec[s].counted = {}
  <2>1. CASE advances
    <3>1. rec' = [rec EXCEPT ![s].base = p.to] /\ rec[s] \in Record /\ LeaveBehind({s})
      BY <1>1, <2>1, Typed
    <3>2. LET r == [rec[s] EXCEPT !.base = p.to] IN
          r.base = p.to /\ r.counted = rec[s].counted /\ r.phase = rec[s].phase
      BY <3>1 DEF Record
    <3>3. rec'[s] = [rec[s] EXCEPT !.base = p.to] /\ \A t \in Session : t # s => rec'[t] = rec[t]
      BY <3>1, Typed
    <3> QED BY <3>1, <3>2, <3>3 DEF LeaveBehind
  <2>2. CASE ~advances
    BY <1>1, <2>2
  <2> QED BY <2>1, <2>2
<1>6. Made'
  BY <1>0, <1>4, <1>5 DEF Made, OneWorker
<1>7. KeptBut(w)' /\ SpentEmpty'
  <2>1. s \notin forsaken' => rec[s].counted \subseteq tip[rec[s].base]
    BY <1>0, <1>5 DEF KeptBut, Carried, Framed
  <2>2. KeptBut(w)'
    BY <1>0, <1>4, <1>5, <2>1 DEF KeptBut, Exists, Carried, Framed
  <2> QED BY <1>0, <1>5, <2>2 DEF SpentEmpty
<1>8. CommitOK(proc[w])'
  <2>1. \A t \in Session \ forsaken' : Settled(proc[w], t)'
    BY <1>0, <1>3, <1>4, <1>5 DEF CommitOK, Settled, Framed, Exists
  <2> QED BY <1>0, <1>4, <1>5, <2>1 DEF CommitOK, Framed, Exists, Process
<1>9. ProcessOK(proc[w])'
  BY <1>4, <1>8 DEF ProcessOK, FrameOK, Framed, TidyOK, PushOK
<1> QED BY <1>6, <1>7, <1>9, Finish

LEMMA ClosesKept ==
  ASSUME OneWorker, TypeOK, KeptInv, NEW w \in Worker, NEW s \in Session, CommitCloses(w, s)
  PROVE  KeptInv'
<1> DEFINE p == proc[w]
<1>0. /\ Made /\ SpentEmpty /\ KeptBut(w) /\ CommitOK(p) /\ p \in Process /\ p.to <= made
      /\ p.pc = "next" /\ p.job = "commit" /\ s \in p.todo /\ Exists(s)
      /\ UNCHANGED <<made, head, tip, taken, forsaken>>
  BY Known DEF CommitCloses, Visits, Made
<1>1. proc'[w] = [p EXCEPT !.todo = @ \ {s}]
  BY BecomesField DEF CommitCloses
<1>2. /\ proc'[w].pc = "next" /\ proc'[w].job = "commit" /\ proc'[w].copy = p.copy
      /\ proc'[w].to = p.to /\ proc'[w].drop = p.drop /\ proc'[w].keep = p.keep
      /\ proc'[w].todo = p.todo \ {s}
  BY <1>0, <1>1 DEF Process
<1>3. /\ \A t \in Session : t # s => rec'[t] = rec[t]
      /\ rec'[s].counted = rec[s].counted /\ rec'[s].base = rec[s].base /\ rec'[s].phase = "spent"
  <2>1. rec' = [rec EXCEPT ![s] = [rec[s] EXCEPT !.phase = "spent"]] /\ rec[s] \in Record
    BY Typed DEF CommitCloses
  <2>2. LET r == [rec[s] EXCEPT !.phase = "spent"] IN
        r.base = rec[s].base /\ r.counted = rec[s].counted /\ r.phase = "spent"
    BY <2>1 DEF Record
  <2> QED BY <2>1, <2>2, Typed
<1>4. Made'
  BY <1>0, <1>2, <1>3 DEF Made, OneWorker
<1>5. s \notin forsaken => rec[s].counted = {}
  BY <1>0 DEF CommitCloses, KeptBut, Carried, Framed
<1>6. KeptBut(w)' /\ SpentEmpty'
  <2>1. SpentEmpty'
    BY <1>0, <1>3, <1>5 DEF SpentEmpty
  <2>2. KeptBut(w)'
    BY <1>0, <1>2, <1>3, <1>5 DEF KeptBut, Exists, Carried, Framed
  <2> QED BY <2>1, <2>2
<1>7. CommitOK(proc[w])'
  <2>1. \A t \in Session \ forsaken' : Settled(proc[w], t)'
    BY <1>0, <1>2, <1>3 DEF CommitOK, Settled, Framed, Exists
  <2> QED BY <1>0, <1>2, <1>3, <2>1 DEF CommitOK, Framed, Exists, Process
<1>8. ProcessOK(proc[w])'
  BY <1>2, <1>7 DEF ProcessOK, FrameOK, Framed, TidyOK, PushOK
<1> QED BY <1>4, <1>6, <1>8, Finish

LEMMA BareKept ==
  ASSUME OneWorker, TypeOK, KeptInv, NEW w \in Worker, NEW s \in Session, BareAdvances(w, s)
  PROVE  KeptInv'
<1> DEFINE p == proc[w]
<1>0. /\ Made /\ SpentEmpty /\ KeptBut(w) /\ p \in Process /\ p.to <= made
      /\ p.pc = "next" /\ p.job = "bare" /\ UNCHANGED <<made, head, tip, taken>>
  BY Known DEF BareAdvances, Visits, Made
<1>1. /\ proc'[w].pc = "next" /\ proc'[w].job = "bare" /\ proc'[w].copy = p.copy /\ proc'[w].to = p.to
  <2>1. proc'[w] = [p EXCEPT !.todo = @ \ {s}]
    BY BecomesField DEF BareAdvances
  <2> QED BY <1>0, <2>1 DEF Process
<1>2. /\ \A t \in Session : t # s => rec'[t] = rec[t]
      /\ rec'[s].counted = rec[s].counted /\ rec'[s].phase = rec[s].phase
      /\ rec'[s].base \in {rec[s].base, p.to}
      /\ forsaken \subseteq forsaken'
      /\ rec'[s].base # rec[s].base /\ s \notin forsaken' => rec[s].counted = {}
  <2>1. CASE rec[s].phase = "active" /\ rec[s].base # p.to
    <3>1. rec' = [rec EXCEPT ![s].base = p.to] /\ rec[s] \in Record /\ LeaveBehind({s})
      BY <2>1, Typed DEF BareAdvances
    <3>2. LET r == [rec[s] EXCEPT !.base = p.to] IN
          r.base = p.to /\ r.counted = rec[s].counted /\ r.phase = rec[s].phase
      BY <3>1 DEF Record
    <3>3. rec'[s] = [rec[s] EXCEPT !.base = p.to] /\ \A t \in Session : t # s => rec'[t] = rec[t]
      BY <3>1, Typed
    <3> QED BY <3>1, <3>2, <3>3 DEF LeaveBehind
  <2>2. CASE ~(rec[s].phase = "active" /\ rec[s].base # p.to)
    BY <2>2 DEF BareAdvances
  <2> QED BY <2>1, <2>2
<1>3. Made'
  BY <1>0, <1>1, <1>2 DEF Made, OneWorker
<1>4. KeptBut(w)' /\ SpentEmpty'
  <2>1. Exists(s) /\ s \notin forsaken' => rec[s].counted \subseteq tip[rec[s].base]
    BY <1>0, <1>2 DEF KeptBut, Carried, Framed
  <2>2. ASSUME NEW t \in Session \ forsaken', rec'[t].base # 0
        PROVE  rec'[t].counted \subseteq tip'[rec'[t].base]
    BY <1>0, <1>2, <2>1, <2>2 DEF KeptBut, Exists, Carried, Framed
  <2> QED BY <1>0, <1>2, <2>2 DEF SpentEmpty, KeptBut, Exists, Carried
<1>5. ProcessOK(proc[w])'
  BY <1>1 DEF ProcessOK, CommitOK, FrameOK, Framed, TidyOK, PushOK
<1> QED BY <1>3, <1>4, <1>5, Finish

LEMMA CommitVisitedKept ==
  ASSUME OneWorker, TypeOK, KeptInv, NEW w \in Worker, CommitVisited(w)
  PROVE  KeptInv'
<1> DEFINE p == proc[w]
<1>0. /\ Made /\ SpentEmpty /\ KeptBut(w) /\ CommitOK(p) /\ TidyOK(p) /\ p \in Process
      /\ p.pc = "next" /\ p.todo = {} /\ UNCHANGED <<made, head, tip, rec, taken, forsaken>>
  BY Known DEF CommitVisited
<1>1. /\ \A t \in Session \ forsaken : Exists(t) => Carried(t)
      /\ made' \in Nat /\ \A t \in Session : rec'[t].base <= made'
  BY <1>0, Typed, BoundAssumption DEF KeptBut, Framed, Made, Commit
<1>2. CASE Leaves(w)
  <2>1. KeptBut(w)' /\ SpentEmpty'
    BY <1>0, <1>1 DEF KeptBut, SpentEmpty, Exists, Carried
  <2> QED BY <1>1, <1>2, <2>1, LeavesKept
<1>3. CASE Becomes(w, [p EXCEPT !.pc = "delete"])
  <2>1. /\ proc'[w].pc = "delete" /\ proc'[w].job = p.job /\ proc'[w].copy = p.copy
        /\ proc'[w].to = p.to /\ proc'[w].drop = p.drop /\ proc'[w].keep = p.keep
        /\ proc'[w].todo = p.todo
    <3>1. proc'[w] = [p EXCEPT !.pc = "delete"]
      BY <1>3, BecomesField
    <3> QED BY <1>0, <3>1 DEF Process
  <2>2. Made'
    BY <1>0, <2>1 DEF Made, OneWorker
  <2>3. KeptBut(w)' /\ SpentEmpty'
    BY <1>0, <1>1 DEF KeptBut, SpentEmpty, Exists, Carried
  <2>4. CommitOK(proc[w])'
    BY <1>0, <2>1 DEF CommitOK, Settled, Framed, Exists
  <2>5. p.job # "tidy"
    BY <1>0 DEF TidyOK
  <2>6. ProcessOK(proc[w])'
    BY <2>1, <2>4, <2>5 DEF ProcessOK, FrameOK, Framed, TidyOK, PushOK
  <2> QED BY <2>2, <2>3, <2>6, Finish
<1> QED BY <1>2, <1>3 DEF CommitVisited

(* A branch is deleted that no session needs. *)
LEMMA DeletedKept ==
  ASSUME TypeOK, NEW w \in Worker, KeptBut(w), SpentEmpty, ~Framed(proc[w]), NEW b \in Commit,
         tip' = [tip EXCEPT ![b] = {}], UNCHANGED rec, forsaken \subseteq forsaken',
         \A s \in Session \ forsaken' : rec[s].base = b => rec[s].counted = {}
  PROVE  KeptBut(w)' /\ SpentEmpty'
<1>1. \A s \in Session \ forsaken' : Exists(s) => rec[s].base \in Commit /\ Carried(s)
  BY Typed DEF KeptBut, Exists, Record
<1>2. \A c \in Commit : c # b => tip'[c] = tip[c]
  BY Typed
<1>3. \A s \in Session \ forsaken' : Exists(s) => rec[s].counted \subseteq tip'[rec[s].base]
  BY <1>1, <1>2 DEF Carried
<1> QED BY <1>3 DEF KeptBut, Exists, Carried, SpentEmpty

LEMMA CommitDeletesKept ==
  ASSUME OneWorker, TypeOK, KeptInv, NEW w \in Worker, CommitDeletes(w)
  PROVE  KeptInv'
<1> DEFINE p == proc[w]
<1>0. /\ Made /\ SpentEmpty /\ KeptBut(w) /\ CommitOK(p) /\ p \in Process
      /\ p.pc = "delete" /\ p.job = "commit" /\ p.todo = {} /\ p.drop \in SUBSET Commit
      /\ UNCHANGED <<made, head, rec, taken>>
  BY Known DEF CommitDeletes, CommitOK, Process
<1>1. PICK b \in p.drop \ p.keep :
        /\ tip' = [tip EXCEPT ![b] = {}]
        /\ LeaveBehind({s \in Session : rec[s].base = b /\ rec[s].phase # "active"})
        /\ Leaves(w) \/ Becomes(w, [p EXCEPT !.drop = @ \ {b}])
  BY DEF CommitDeletes
<1>2. /\ forsaken \subseteq forsaken'
      /\ \A s \in Session \ forsaken' :
           rec[s].base = b /\ rec[s].phase # "active" => rec[s].counted = {}
  BY <1>1 DEF LeaveBehind
<1>3. ASSUME NEW s \in Session \ forsaken', rec[s].base = b
      PROVE  rec[s].counted = {}
  <2>1. b # p.to /\ b # 0
    BY <1>0, <1>1, BoundAssumption DEF CommitOK, Commit
  <2>2. Settled(p, s) /\ ~Framed(p) /\ s \notin p.todo
    BY <1>0, <1>2 DEF CommitOK, Framed
  <2>3. CASE rec[s].phase = "active"
    BY <1>1, <1>3, <2>1, <2>2, <2>3 DEF Settled, Exists
  <2> QED BY <1>2, <1>3, <2>3
<1>4. KeptBut(w)' /\ SpentEmpty'
  BY <1>0, <1>1, <1>2, <1>3, DeletedKept DEF Framed
<1>5. made' \in Nat /\ \A t \in Session : rec'[t].base <= made'
  BY <1>0, Typed, BoundAssumption DEF Made, Commit
<1>6. CASE Leaves(w)
  BY <1>4, <1>5, <1>6, LeavesKept
<1>7. CASE Becomes(w, [p EXCEPT !.drop = @ \ {b}])
  <2>1. /\ proc'[w].pc = "delete" /\ proc'[w].job = "commit" /\ proc'[w].copy = p.copy
        /\ proc'[w].to = p.to /\ proc'[w].drop = p.drop \ {b} /\ proc'[w].keep = p.keep
        /\ proc'[w].todo = p.todo
    <3>1. proc'[w] = [p EXCEPT !.drop = @ \ {b}]
      BY <1>7, BecomesField
    <3> QED BY <1>0, <3>1 DEF Process
  <2>2. Made'
    BY <1>0, <2>1 DEF Made, OneWorker
  <2>3. CommitOK(proc[w])'
    BY <1>0, <1>2, <2>1 DEF CommitOK, Settled, Framed, Exists
  <2>4. ProcessOK(proc[w])'
    BY <2>1, <2>3 DEF ProcessOK, FrameOK, Framed, TidyOK, PushOK
  <2> QED BY <1>4, <2>2, <2>4, Finish
<1> QED BY <1>1, <1>6, <1>7

LEMMA CondenseKept ==
  ASSUME OneWorker, TypeOK, KeptInv, NEW w \in Worker, NEW s \in Session, Condenses(w, s)
  PROVE  KeptInv'
<1>0. /\ Made /\ SpentEmpty /\ KeptBut(w) /\ proc[w].pc = "idle" /\ rec[s] \in Record
      /\ UNCHANGED <<made, head, tip, taken, forsaken>> /\ NoRecord.base = 0 /\ made \in Nat
      /\ rec[s].base <= made /\ 0 <= made
  <2>1. Made /\ SpentEmpty /\ KeptBut(w) /\ rec[s] \in Record /\ made \in Nat
    BY Known, Typed, BoundAssumption DEF Commit
  <2> QED BY <2>1 DEF Condenses, Idle, NoRecord, Made
<1>1. /\ proc'[w].pc = "scan" /\ proc'[w].job = "tidy" /\ proc'[w].who = s
      /\ proc'[w].copy = NoRecord /\ proc'[w].to = rec[s].base
  <2>1. proc'[w] = At("scan", "tidy", s, NoRecord, {}, rec[s].base)
    BY BecomesField DEF Condenses
  <2> QED BY <2>1, AtFields
<1>2. /\ \A t \in Session : t # s => rec'[t] = rec[t]
      /\ rec'[s].base = rec[s].base /\ rec'[s].counted = {}
  <2>1. PICK phase \in {"spent", "idle"}, last \in {0, rec[s].base} :
          rec' = [rec EXCEPT ![s] = [@ EXCEPT !.counted = {}, !.last = last, !.phase = phase]]
    BY DEF Condenses
  <2> DEFINE r == [rec[s] EXCEPT !.counted = {}, !.last = last, !.phase = phase]
  <2>2. r.base = rec[s].base /\ r.counted = {}
    BY <1>0 DEF Record
  <2>3. rec' = [rec EXCEPT ![s] = r]
    BY <2>1
  <2> HIDE DEF r
  <2> QED BY <2>2, <2>3, Typed
<1>3. Made'
  BY <1>0, <1>1, <1>2 DEF Made, OneWorker
<1>4. KeptBut(w)' /\ SpentEmpty'
  BY <1>0, <1>2 DEF KeptBut, SpentEmpty, Exists, Carried, Framed
<1>5. ProcessOK(proc[w])'
  BY <1>1, <1>2 DEF ProcessOK, FrameOK, Framed, CommitOK, TidyOK, PushOK
<1> QED BY <1>3, <1>4, <1>5, Finish

(* An idle process sets out to reset or to clean up: nothing else changes. *)
LEMMA SetsOutKept ==
  ASSUME OneWorker, TypeOK, KeptInv, NEW w \in Worker,
         \/ \E s \in Session : ResetStarts(w, s)
         \/ \E b \in Commit : PushLists(w, b)
  PROVE  KeptInv'
<1>0. /\ Made /\ SpentEmpty /\ KeptBut(w) /\ proc[w].pc = "idle"
      /\ NoRecord.base = 0 /\ made \in Nat /\ 0 <= made
      /\ UNCHANGED <<made, head, tip, rec, taken, forsaken>>
  <2>1. Made /\ SpentEmpty /\ KeptBut(w) /\ made \in Nat
    BY Known, Typed, BoundAssumption DEF Commit
  <2> QED BY <2>1 DEF ResetStarts, PushLists, Idle, NoRecord
<1>1. /\ proc'[w].copy = NoRecord
      /\ \/ /\ proc'[w].pc = "clear" /\ proc'[w].job = "tidy" /\ proc'[w].who \in Session
            /\ proc'[w].to <= made
         \/ proc'[w].pc = "protect" /\ proc'[w].job = "push"
  <2>1. ASSUME NEW s \in Session, ResetStarts(w, s)
        PROVE  /\ proc'[w].copy = NoRecord
               /\ proc'[w].pc = "clear" /\ proc'[w].job = "tidy" /\ proc'[w].who \in Session
               /\ proc'[w].to <= made
    <3>1. proc'[w] = At("clear", "tidy", s, NoRecord, {}, rec[s].base)
      BY <2>1, BecomesField DEF ResetStarts
    <3>2. rec[s].base <= made
      BY <1>0 DEF Made
    <3> QED BY <3>1, <3>2, AtFields
  <2>2. ASSUME NEW b \in Commit, PushLists(w, b)
        PROVE  proc'[w].copy = NoRecord /\ proc'[w].pc = "protect" /\ proc'[w].job = "push"
    <3>1. proc'[w] = At("protect", "push", None, NoRecord, tip[b], b)
      BY <2>2, BecomesField DEF PushLists
    <3> QED BY <3>1, AtFields
  <2> QED BY <2>1, <2>2
<1>2. Made'
  BY <1>0, <1>1 DEF Made, OneWorker
<1>3. KeptBut(w)' /\ SpentEmpty'
  BY <1>0, <1>1 DEF KeptBut, SpentEmpty, Exists, Carried, Framed
<1>4. ProcessOK(proc[w])'
  BY <1>1 DEF ProcessOK, FrameOK, Framed, CommitOK, TidyOK, PushOK
<1> QED BY <1>2, <1>3, <1>4, Finish

LEMMA ResetClearsKept ==
  ASSUME OneWorker, TypeOK, KeptInv, NEW w \in Worker, ResetClears(w)
  PROVE  KeptInv'
<1> DEFINE p == proc[w]
<1>0. /\ Made /\ SpentEmpty /\ KeptBut(w) /\ FrameOK(p) /\ CommitOK(p) /\ TidyOK(p) /\ p \in Process
      /\ p.pc = "clear" /\ p.who \in Session \cup {None} /\ made \in Nat
      /\ UNCHANGED <<made, head, tip, taken, forsaken>>
  BY Known, Typed, BoundAssumption DEF ResetClears, Process, Commit
<1>1. /\ proc'[w].pc = "scan" /\ proc'[w].job = p.job /\ proc'[w].who = p.who
      /\ proc'[w].copy = p.copy /\ proc'[w].to = p.to
  <2>1. proc'[w] = [p EXCEPT !.pc = "scan"]
    BY BecomesField DEF ResetClears
  <2> QED BY <1>0, <2>1 DEF Process
<1>2. /\ \A t \in Session : t # p.who => rec'[t] = rec[t]
      /\ p.who \in Session => rec'[p.who] = NoRecord
  BY Typed DEF ResetClears
<1>3. NoRecord.base = 0 /\ NoRecord.counted = {}
  BY DEF NoRecord
<1>4. Made'
  BY <1>0, <1>1, <1>2, <1>3 DEF Made, OneWorker
<1>5. KeptBut(w)' /\ SpentEmpty'
  BY <1>0, <1>2, <1>3 DEF KeptBut, SpentEmpty, Exists, Carried, Framed
<1>6. ProcessOK(proc[w])'
  BY <1>0, <1>1, <1>2, <1>3 DEF ProcessOK, FrameOK, Framed, CommitOK, TidyOK, PushOK
<1> QED BY <1>4, <1>5, <1>6, Finish

LEMMA TidyEndsKept ==
  ASSUME OneWorker, TypeOK, KeptInv, NEW w \in Worker, TidyScans(w) \/ TidyDeletes(w)
  PROVE  KeptInv'
<1> DEFINE p == proc[w]
<1>0. /\ Made /\ SpentEmpty /\ KeptBut(w) /\ CommitOK(p) /\ TidyOK(p) /\ p \in Process /\ WellFormed(p)
      /\ UNCHANGED <<made, head, rec, taken, forsaken>> /\ p.pc \in {"scan", "delete"}
      /\ made' \in Nat /\ \A t \in Session : rec'[t].base <= made'
  BY Known, Typed, BoundAssumption DEF TidyScans, TidyDeletes, Made, Commit
<1>1. CASE TidyScans(w)
  <2>1. KeptBut(w)' /\ SpentEmpty'
    BY <1>0, <1>1 DEF KeptBut, SpentEmpty, Exists, Carried, Framed, TidyScans
  <2>2. CASE Leaves(w)
    BY <1>0, <2>1, <2>2, LeavesKept
  <2>3. CASE ~InUse(p.to, p.who) /\ Becomes(w, [p EXCEPT !.pc = "delete"])
    <3>1. /\ proc'[w].pc = "delete" /\ proc'[w].job = p.job /\ proc'[w].who = p.who
          /\ proc'[w].copy = p.copy /\ proc'[w].to = p.to
      <4>1. proc'[w] = [p EXCEPT !.pc = "delete"]
        BY <2>3, BecomesField
      <4> QED BY <1>0, <4>1 DEF Process
    <3>2. Made'
      BY <1>0, <3>1 DEF Made, OneWorker
    <3>3. p.pc = "scan" /\ p.job # "commit"
      BY <1>0, <1>1 DEF TidyScans, CommitOK
    <3>4. ProcessOK(proc[w])'
      BY <1>0, <2>3, <3>1, <3>3 DEF ProcessOK, FrameOK, Framed, CommitOK, TidyOK, PushOK, InUse
    <3> QED BY <2>1, <3>2, <3>4, Finish
  <2> QED BY <1>1, <2>2, <2>3 DEF TidyScans
<1>2. CASE TidyDeletes(w)
  <2>1. p.job = "tidy" /\ p.pc = "delete" /\ p.to \in Commit /\ tip' = [tip EXCEPT ![p.to] = {}]
    BY <1>0, <1>2 DEF TidyDeletes, Process, WellFormed
  <2>2. \A s \in Session : rec[s].base = p.to => rec[s].counted = {}
    BY <1>0, <2>1 DEF TidyOK, InUse
  <2>3. KeptBut(w)' /\ SpentEmpty'
    BY <1>0, <2>1, <2>2, DeletedKept DEF Framed
  <2> QED BY <1>0, <1>2, <2>3, LeavesKept DEF TidyDeletes
<1> QED BY <1>1, <1>2

(* A process outside its frame gives up, is killed, or has found its work done. *)
LEMMA GivesUpKept ==
  ASSUME OneWorker, TypeOK, KeptInv, NEW w \in Worker, ~Framed(proc[w]), Leaves(w),
         UNCHANGED <<made, head, tip, rec, taken, forsaken>>
  PROVE  KeptInv'
<1>1. /\ KeptBut(w) /\ SpentEmpty /\ made \in Nat /\ \A t \in Session : rec[t].base <= made
  BY Known, Typed, BoundAssumption DEF Made, Commit
<1>2. KeptBut(w)' /\ SpentEmpty'
  BY <1>1 DEF KeptBut, SpentEmpty, Exists, Carried
<1> QED BY <1>1, <1>2, LeavesKept

LEMMA PushLooksKept ==
  ASSUME OneWorker, TypeOK, KeptInv, NEW w \in Worker, PushProtects(w) \/ PushRechecks(w)
  PROVE  KeptInv'
<1> DEFINE p == proc[w]
<1>0. /\ Made /\ SpentEmpty /\ KeptBut(w) /\ CommitOK(p) /\ TidyOK(p) /\ p \in Process
      /\ p.pc \in {"protect", "recheck"} /\ UNCHANGED <<made, head, tip, rec, taken, forsaken>>
  BY Known DEF PushProtects, PushRechecks, PushLooks
<1>1. CASE Leaves(w)
  BY <1>0, <1>1, GivesUpKept DEF Framed
<1>2. CASE ~Leaves(w)
  <2>1. PICK onward \in {"recheck", "expire"} :
          ~Protected(p.to) /\ Becomes(w, [p EXCEPT !.pc = onward])
    BY <1>2 DEF PushProtects, PushRechecks, PushLooks
  <2>2. /\ proc'[w].pc = onward /\ proc'[w].job = p.job /\ proc'[w].copy = p.copy
        /\ proc'[w].to = p.to
    <3>1. proc'[w] = [p EXCEPT !.pc = onward]
      BY <2>1, BecomesField
    <3> QED BY <1>0, <3>1 DEF Process
  <2>3. Made'
    BY <1>0, <2>2 DEF Made, OneWorker
  <2>4. KeptBut(w)' /\ SpentEmpty'
    BY <1>0, <2>2 DEF KeptBut, SpentEmpty, Exists, Carried, Framed
  <2>5. p.job \notin {"commit", "tidy"}
    BY <1>0 DEF CommitOK, TidyOK
  <2>6. ProcessOK(proc[w])'
    BY <1>0, <2>1, <2>2, <2>5 DEF ProcessOK, FrameOK, Framed, CommitOK, TidyOK, PushOK, Protected
  <2> QED BY <2>3, <2>4, <2>6, Finish
<1> QED BY <1>1, <1>2

LEMMA PushDeletesKept ==
  ASSUME OneWorker, TypeOK, KeptInv, NEW w \in Worker, PushDeletes(w)
  PROVE  KeptInv'
<1> DEFINE p == proc[w]
<1>0. /\ SpentEmpty /\ KeptBut(w) /\ PushOK(p) /\ p.pc = "expire" /\ p.to \in Commit
      /\ made \in Nat /\ \A t \in Session : rec[t].base <= made
      /\ UNCHANGED <<made, head, rec, taken, forsaken>> /\ Leaves(w)
  <2>1. SpentEmpty /\ KeptBut(w) /\ PushOK(p) /\ Made /\ p \in Process /\ WellFormed(p) /\ made \in Nat
    BY Known, Typed, BoundAssumption DEF Commit
  <2> QED BY <2>1 DEF PushDeletes, Made, Process, WellFormed
<1>1. CASE tip' = tip
  BY <1>0, <1>1, GivesUpKept DEF Framed
<1>2. CASE tip' = [tip EXCEPT ![p.to] = {}]
  <2>1. \A s \in Session \ forsaken : rec[s].base = p.to => rec[s].counted = {}
    BY <1>0 DEF PushOK, Protected, SpentEmpty
  <2>2. KeptBut(w)' /\ SpentEmpty'
    BY <1>0, <1>2, <2>1, DeletedKept DEF Framed
  <2> QED BY <1>0, <2>2, LeavesKept
<1> QED BY <1>1, <1>2 DEF PushDeletes

LEMMA KeptNext ==
  ASSUME OneWorker, TypeOK, KeptInv, [Next]_vars
  PROVE  KeptInv'
<1>0. made \in Nat
  BY Typed, BoundAssumption DEF Commit
<1>1. CASE UNCHANGED vars
  BY <1>0, <1>1, StillKept DEF vars
<1>2. CASE MoveHead
  BY <1>0, <1>2, StillKept, BoundAssumption DEF MoveHead, Commit
<1>3. ASSUME NEW w \in Worker, Starts(w)
      PROVE  KeptInv'
  BY <1>3, TurnsKept, FramesKept, CondenseKept, SetsOutKept, CommitStartsKept DEF Starts
<1>4. ASSUME NEW w \in Worker, Continues(w)
      PROVE  KeptInv'
  <2>1. CASE Dies(w)
    BY <2>1, GivesUpKept DEF Dies, InFrame, Framed
  <2>2. CASE \E s \in Session :
               CommitCondenses(w, s) \/ CommitCarries(w, s) \/ CommitPasses(w, s)
               \/ CommitCloses(w, s) \/ BareAdvances(w, s)
    BY <2>2, CondensesKept, CarriesKept, PassesKept, ClosesKept, BareKept
  <2> QED BY <1>4, <2>1, <2>2, MigrateSetsKept, MigrateUnlinksKept, ReadsKept, SwapsKept, SaveKept,
             FailsKept, CommitListsKept, CommitVisitedKept, CommitDeletesKept, ResetClearsKept,
             TidyEndsKept, PushLooksKept, PushDeletesKept DEF Continues
<1> QED BY <1>1, <1>2, <1>3, <1>4 DEF Next

(* StepsKept, for any number of sessions, commits and steps, while processes
   take turns: whatever LeaveBehind does not admit to, keeps the steps. *)
THEOREM StepsKeptCorrect ==
  ASSUME OneWorker
  PROVE  Spec => []StepsKept
<1>1. Init => KeptInv
  <2> SUFFICES ASSUME Init PROVE KeptInv
    OBVIOUS
  <2>1. /\ \A w \in Worker : proc[w] = Rest
        /\ \A s \in Session : rec[s] = NoRecord
        /\ made = 1 /\ NoRecord.base = 0 /\ NoRecord.counted = {}
    BY DEF Init, NoRecord
  <2>2. Made
    BY <2>1, RestFields DEF Made
  <2>3. StepsKept /\ SpentEmpty
    BY <2>1 DEF StepsKept, SpentEmpty, Exists
  <2>4. \A w \in Worker : ProcessOK(proc[w])
    BY <2>1, RestFields DEF ProcessOK, FrameOK, CommitOK, TidyOK, PushOK, Framed
  <2> QED BY <2>2, <2>3, <2>4 DEF KeptInv
<1>2. TypeOK /\ KeptInv /\ [Next]_vars => KeptInv'
  BY KeptNext
<1>3. KeptInv => StepsKept
  BY DEF KeptInv
<1> QED BY <1>1, <1>2, <1>3, TypeCorrect, PTL DEF Spec

=============================================================================
