---------------------------- MODULE ShadowBranch ----------------------------
(***************************************************************************)
(* The shadow branches of one worktree: where sessions keep their steps    *)
(* until a checkpoint is condensed from them                               *)
(* (checkpoint/ephemeral.go, checkpoint/shadow_ref.go,                     *)
(* strategy/manual_commit_git.go, strategy/manual_commit_migration.go,     *)
(* strategy/manual_commit_hooks.go, strategy/cleanup.go,                   *)
(* strategy/manual_commit_reset.go).                                       *)
(*                                                                         *)
(* A shadow branch is named after a commit.  Every session whose record    *)
(* has that commit as its base writes its steps there, so sessions share   *)
(* branches, and when HEAD moves a session takes its branch along by       *)
(* renaming it.  A session's record is guarded by the session's gate, a    *)
(* branch only against writers of steps by a flock of its own; renames and *)
(* deletions take neither the flock nor the other sessions' gates.         *)
(*                                                                         *)
(* A step commit is a session and a number.  The history of a branch is    *)
(* the set of steps on it, {} for a branch that does not exist: a step has *)
(* one parent, so the set tells tips apart.  StepCount is the set of the   *)
(* steps it counts.                                                        *)
(*                                                                         *)
(* Left out: other worktrees (their branches have other names), commits    *)
(* whose abbreviations collide, task steps, what condensation stores (see  *)
(* Condensation), resets of every session of a commit, doctor's discards.  *)
(***************************************************************************)
EXTENDS Naturals, FiniteSets

CONSTANTS
  Session,    \* agent sessions of the worktree
  Worker,     \* hook and command processes
  None,       \* no session
  MaxCommit,  \* bound: commits
  MaxStep     \* bound: steps written

ASSUME NoneAssumption == None \notin Session
ASSUME BoundAssumption == MaxCommit \in Nat \ {0} /\ MaxStep \in Nat

Commit == 1..MaxCommit
Step == [by : Session, no : 1..MaxStep]

(* base is 0 if the session has no record.  A spent session is ended and fully
   condensed.  last is LastCheckpointCommitHash if that commit carries
   LastCheckpointID in a trailer, else 0. *)
Record ==
  [base : Commit \cup {0}, counted : SUBSET Step,
   phase : {"idle", "active", "ended", "spent"}, last : Commit \cup {0}]

NoRecord == [base |-> 0, counted |-> {}, phase |-> "idle", last |-> 0]

(* What a process is doing.  who is the session whose frame it is in, copy its
   record in memory, saw a tip it read, to a commit it works towards, todo the
   sessions post-commit has still to visit, drop and keep its two lists of
   branches. *)
Process ==
  [pc   : {"idle", "set", "unlink", "write", "cas", "save", "list", "next", "delete",
           "scan", "clear", "protect", "recheck", "expire"},
   job  : {"none", "step", "prompt", "rewrite", "commit", "bare", "tidy", "push"},
   who  : Session \cup {None},
   copy : Record,
   saw  : SUBSET Step,
   to   : Commit \cup {0},
   todo : SUBSET Session,
   drop : SUBSET Commit,
   keep : SUBSET Commit]

At(pc, job, who, copy, saw, to) ==
  [pc |-> pc, job |-> job, who |-> who, copy |-> copy, saw |-> saw, to |-> to,
   todo |-> {}, drop |-> {}, keep |-> {}]

Rest == At("idle", "none", None, NoRecord, {}, 0)

VARIABLES
  made,       \* commits made so far: 1..made
  head,       \* the commit HEAD is at
  tip,        \* per commit: the shadow branch named after it
  rec,        \* per session: its record
  proc,       \* per worker: what it is doing
  taken,      \* steps written so far
  forsaken    \* sessions whose steps were left behind (history): see LeaveBehind

vars == <<made, head, tip, rec, proc, taken, forsaken>>

Idle(w) == proc[w].pc = "idle"
InFrame(w) == proc[w].pc \in {"set", "unlink", "write", "cas", "save"}

TypeOK ==
  /\ made \in Commit /\ head \in 1..made
  /\ tip \in [Commit -> SUBSET Step]
  /\ rec \in [Session -> Record]
  /\ proc \in [Worker -> Process]
  /\ taken \in 0..MaxStep
  /\ forsaken \subseteq Session
  /\ \A w \in Worker :
       /\ InFrame(w) => proc[w].who \in Session /\ proc[w].copy.base # 0
       /\ ~Idle(w) => proc[w].to # 0

Init ==
  /\ made = 1 /\ head = 1
  /\ tip = [b \in Commit |-> {}]
  /\ rec = [s \in Session |-> NoRecord]
  /\ proc = [w \in Worker |-> Rest]
  /\ taken = 0
  /\ forsaken = {}

-----------------------------------------------------------------------------
Exists(s) == rec[s].base # 0
Ended(s) == rec[s].phase \in {"ended", "spent"}

Free(s) == \A w \in Worker : InFrame(w) => proc[w].who # s

Becomes(w, p) == proc' = [proc EXCEPT ![w] = p]
Leaves(w) == Becomes(w, Rest)

AtBase(r, c) == [r EXCEPT !.base = c]

(* The steps a session counts are no longer on the branch of its base commit,
   for one of the reasons that need no second process. *)
LeaveBehind(S) == forsaken' = forsaken \cup {s \in S : rec[s].counted # {}}

-----------------------------------------------------------------------------
(***************************************************************************)
(* The user and the agent.                                                 *)
(***************************************************************************)

(* Checkout, reset or pull: HEAD moves and no hook of ours runs. *)
MoveHead ==
  /\ \E c \in Commit :
       /\ c # head /\ c <= made + 1
       /\ head' = c
       /\ made' = IF c > made THEN c ELSE made
  /\ UNCHANGED <<tip, rec, proc, taken, forsaken>>

(* initializeSession, for the first hook of a session. *)
Initialize(w, s) ==
  /\ Idle(w) /\ ~Exists(s) /\ Free(s)
  /\ rec' = [rec EXCEPT ![s] = AtBase(NoRecord, head)]
  /\ UNCHANGED <<made, head, tip, proc, taken, forsaken>>

(* The end of a turn, and of a session. *)
TurnEnd(w, s) ==
  /\ Idle(w) /\ Exists(s) /\ Free(s)
  /\ rec' = [rec EXCEPT ![s].phase = IF Ended(s) THEN @ ELSE "idle"]
  /\ UNCHANGED <<made, head, tip, proc, taken, forsaken>>

SessionEnds(w, s) ==
  /\ Idle(w) /\ Exists(s) /\ Free(s)
  /\ rec' = [rec EXCEPT ![s].phase = IF Ended(s) THEN @ ELSE "ended"]
  /\ UNCHANGED <<made, head, tip, proc, taken, forsaken>>

-----------------------------------------------------------------------------
(***************************************************************************)
(* Frames that bring the session to a base commit first.                   *)
(***************************************************************************)
(* Where a frame goes when the session is at its new base. *)
After(job) == IF job = "step" THEN "write" ELSE "save"

(* HEAD is the commit that links to the session's last checkpoint. *)
Reconciles(s) == rec[s].last = head

(* The head of migrateShadowBranchIfNeeded: the record alone changes, or the
   tip of the old branch is read in order to move it. *)
EnterFrame(w, s, edited, job, dest, atCheckpoint) ==
  /\ Idle(w)
  /\ Exists(s) /\ Free(s)
  /\ IF edited.base = dest
     THEN Becomes(w, At(After(job), job, s, edited, {}, dest)) /\ UNCHANGED forsaken
     ELSE IF atCheckpoint \/ tip[edited.base] = {}
     THEN /\ Becomes(w, At(After(job), job, s, AtBase(edited, dest), {}, dest))
          /\ LeaveBehind({s})
     ELSE Becomes(w, At("set", job, s, edited, tip[edited.base], dest)) /\ UNCHANGED forsaken
  /\ UNCHANGED <<made, head, tip, rec, taken>>

(* SaveStep *)
StepStarts(w, s) == EnterFrame(w, s, rec[s], "step", head, Reconciles(s))

(* InitializeSession *)
PromptStarts(w, s) ==
  EnterFrame(w, s, [rec[s] EXCEPT !.phase = "active", !.last = 0],
             "prompt", head, Reconciles(s))

(* The post-rewrite hook: the base commit was amended or rebased into another. *)
RewriteStarts(w, s) ==
  \E dest \in 1..made \ {rec[s].base} : EnterFrame(w, s, rec[s], "rewrite", dest, FALSE)

(* The new branch is set to the tip of the old one, whatever it pointed to. *)
MigrateSets(w) ==
  LET p == proc[w] IN
  /\ p.pc = "set"
  /\ tip' = [tip EXCEPT ![p.to] = p.saw]
  /\ LeaveBehind({s \in Session \ {p.who} : rec[s].base = p.to})
  /\ Becomes(w, [p EXCEPT !.pc = "unlink"])
  /\ UNCHANGED <<made, head, rec, taken>>

(* The old branch is deleted by name, whatever it points to now; other sessions
   that share it do not follow. *)
MigrateUnlinks(w) ==
  LET p == proc[w] IN
  /\ p.pc = "unlink"
  /\ tip' = [tip EXCEPT ![p.copy.base] = {}]
  /\ LeaveBehind({s \in Session \ {p.who} : rec[s].base = p.copy.base})
  /\ Becomes(w, At(After(p.job), p.job, p.who, AtBase(p.copy, p.to), {}, p.to))
  /\ UNCHANGED <<made, head, rec, taken>>

(* writeCheckpoint: under the branch's flock, read the tip, build on it, and
   compare and swap. *)
WriteReads(w) ==
  LET p == proc[w] IN
  /\ p.pc = "write"
  /\ \A v \in Worker : proc[v].pc = "cas" => proc[v].copy.base # p.copy.base
  /\ Becomes(w, [p EXCEPT !.pc = "cas", !.saw = tip[p.copy.base]])
  /\ UNCHANGED <<made, head, tip, rec, taken, forsaken>>

(* Variant: git update-ref without the expected old value. *)
WriteSwapsBlindly(w) ==
  LET p == proc[w]
      step == [by |-> p.who, no |-> taken + 1]
  IN
  /\ p.pc = "cas"
  /\ taken < MaxStep /\ taken' = taken + 1
  /\ tip' = [tip EXCEPT ![p.copy.base] = p.saw \cup {step}]
  /\ Becomes(w, [p EXCEPT !.pc = "save", !.saw = {}])
  /\ UNCHANGED <<made, head, rec, forsaken>>

WriteSwaps(w) ==
  LET p == proc[w]
      step == [by |-> p.who, no |-> taken + 1]
      copy == IF p.job = "commit"
              THEN [p.copy EXCEPT !.counted = {step}, !.last = 0]
              ELSE [p.copy EXCEPT !.counted = @ \cup {step}]
  IN
  /\ p.pc = "cas"
  /\ tip[p.copy.base] = p.saw
  /\ taken < MaxStep /\ taken' = taken + 1
  /\ tip' = [tip EXCEPT ![p.copy.base] = p.saw \cup {step}]
  /\ Becomes(w, [p EXCEPT !.pc = "save", !.saw = {}, !.copy = copy])
  /\ UNCHANGED <<made, head, rec, forsaken>>

WriteLoses(w) ==
  LET p == proc[w] IN
  /\ p.pc = "cas"
  /\ tip[p.copy.base] # p.saw
  /\ Becomes(w, [p EXCEPT !.saw = tip[p.copy.base]])
  /\ UNCHANGED <<made, head, tip, rec, taken, forsaken>>

(* The tree is the one at the tip already.  A carry-forward goes on without the
   step; SaveStep ends its frame without saving the record. *)
CarrySkips(w) ==
  LET p == proc[w] IN
  /\ p.pc = "cas" /\ p.job = "commit"
  /\ Becomes(w, [p EXCEPT !.pc = "save", !.saw = {}])
  /\ UNCHANGED <<made, head, tip, rec, taken, forsaken>>

(* The next thing post-commit does. *)
Onward(p) == [p EXCEPT !.pc = "next", !.who = None, !.copy = NoRecord, !.saw = {}]

SaveRecord(w) ==
  LET p == proc[w] IN
  /\ p.pc = "save"
  /\ rec' = [rec EXCEPT ![p.who] = p.copy]
  /\ IF p.job = "step" /\ p.copy.phase = "spent"
     THEN forsaken' = forsaken \cup {p.who}
     ELSE UNCHANGED forsaken
  /\ IF p.job = "commit" THEN Becomes(w, Onward(p)) ELSE Leaves(w)
  /\ UNCHANGED <<made, head, tip, taken>>

(* A frame ends in an error, a skip or a crash and the record is not saved,
   although the branch may have moved. *)
FrameFails(w) ==
  LET p == proc[w] IN
  /\ InFrame(w)
  /\ IF p.job = "commit" \/ (p.pc \in {"write", "cas", "save"} /\ p.copy.base # rec[p.who].base)
     THEN LeaveBehind({p.who}) ELSE UNCHANGED forsaken
  /\ IF p.job = "commit" THEN Becomes(w, Onward(p)) ELSE Leaves(w)
  /\ UNCHANGED <<made, head, tip, rec, taken>>

-----------------------------------------------------------------------------
(***************************************************************************)
(* A commit.                                                               *)
(***************************************************************************)

(* The user commits; with a trailer in the message the hook condenses. *)
CommitStarts(w) ==
  /\ Idle(w)
  /\ made < MaxCommit
  /\ made' = made + 1 /\ head' = made + 1
  /\ \E job \in {"commit", "bare"} :
       Becomes(w, At("list", job, None, NoRecord, {}, made + 1))
  /\ UNCHANGED <<tip, rec, taken, forsaken>>

(* The sessions are listed without their gates. *)
CommitLists(w) ==
  LET p == proc[w]
      visited == IF p.job = "commit"
                 THEN {s \in Session : Exists(s) /\ rec[s].phase # "spent"}
                 ELSE {s \in Session : rec[s].phase = "active" /\ rec[s].base # p.to}
  IN
  /\ p.pc = "list"
  /\ Becomes(w, [p EXCEPT !.pc = "next", !.todo = visited])
  /\ UNCHANGED <<made, head, tip, rec, taken, forsaken>>

Visits(w, s, job) ==
  /\ proc[w].pc = "next" /\ proc[w].job = job
  /\ s \in proc[w].todo /\ Free(s)

(* condenseAndUpdateState: the session goes on from the new commit, with
   nothing on its branch. *)
AtCommit(w, s) ==
  [rec[s] EXCEPT !.base = proc[w].to, !.counted = {}, !.last = proc[w].to]

CommitCondenses(w, s) ==
  LET p == proc[w] IN
  /\ Visits(w, s, "commit") /\ Exists(s)
  /\ rec' = [rec EXCEPT ![s] = IF Ended(s) THEN [AtCommit(w, s) EXCEPT !.phase = "spent"]
                                           ELSE AtCommit(w, s)]
  /\ Becomes(w, [p EXCEPT !.todo = @ \ {s}, !.drop = @ \cup {rec[s].base}])
  /\ UNCHANGED <<made, head, tip, taken, forsaken>>

(* Files are left for the next commit: they go to a step on the new branch. *)
CommitCarries(w, s) ==
  LET p == proc[w] IN
  /\ Visits(w, s, "commit") /\ Exists(s)
  /\ Becomes(w, [p EXCEPT !.pc = "write", !.who = s, !.copy = AtCommit(w, s),
                          !.todo = @ \ {s}, !.drop = @ \cup {rec[s].base}])
  /\ UNCHANGED <<made, head, tip, rec, taken, forsaken>>

(* The session is not condensed.  An active one holds on to its branch if it
   has something on it, and yet moves to the new commit, unless condensing was
   tried and failed; an idle or ended one does neither.  A session with another
   checkpoint pending holds on to its branch. *)
CommitPasses(w, s) ==
  LET p == proc[w]
      active == rec[s].phase = "active"
  IN
  /\ Visits(w, s, "commit")
  /\ \E files, advances, interrupted \in BOOLEAN :
       /\ advances => active /\ ~interrupted
       /\ LET holds == interrupted \/ (active /\ (files \/ rec[s].counted # {})) IN
          Becomes(w, [p EXCEPT !.todo = @ \ {s},
                               !.keep = IF Exists(s) /\ holds THEN @ \cup {rec[s].base} ELSE @])
       /\ IF advances
          THEN /\ rec' = [rec EXCEPT ![s].base = p.to]
               /\ IF rec[s].base # p.to THEN LeaveBehind({s}) ELSE UNCHANGED forsaken
          ELSE UNCHANGED <<rec, forsaken>>
  /\ UNCHANGED <<made, head, tip, taken>>

(* An ended session with no files and nothing new, on its branch or in its
   transcript, is closed without a condensation. *)
CommitCloses(w, s) ==
  /\ Visits(w, s, "commit") /\ Exists(s)
  /\ rec[s].phase = "ended"
  /\ rec[s].counted = {} \/ ~(rec[s].counted \subseteq tip[rec[s].base])
  /\ rec' = [rec EXCEPT ![s].phase = "spent"]
  /\ Becomes(w, [proc[w] EXCEPT !.todo = @ \ {s}])
  /\ UNCHANGED <<made, head, tip, taken, forsaken>>

(* postCommitUpdateBaseCommitOnly: the base moves, the branch does not. *)
BareAdvances(w, s) ==
  LET p == proc[w]
      moves == rec[s].phase = "active" /\ rec[s].base # p.to
  IN
  /\ Visits(w, s, "bare")
  /\ IF moves
     THEN rec' = [rec EXCEPT ![s].base = p.to] /\ LeaveBehind({s})
     ELSE UNCHANGED <<rec, forsaken>>
  /\ Becomes(w, [p EXCEPT !.todo = @ \ {s}])
  /\ UNCHANGED <<made, head, tip, taken>>

CommitVisited(w) ==
  LET p == proc[w] IN
  /\ p.pc = "next" /\ p.todo = {}
  /\ IF p.drop \subseteq p.keep THEN Leaves(w) ELSE Becomes(w, [p EXCEPT !.pc = "delete"])
  /\ UNCHANGED <<made, head, tip, rec, taken, forsaken>>

(* Idle and ended sessions do not hold on to a branch. *)
CommitDeletes(w) ==
  LET p == proc[w] IN
  /\ p.pc = "delete" /\ p.job = "commit"
  /\ \E b \in p.drop \ p.keep :
       /\ tip' = [tip EXCEPT ![b] = {}]
       /\ LeaveBehind({s \in Session : rec[s].base = b /\ rec[s].phase # "active"})
       /\ IF p.drop \ {b} \subseteq p.keep
          THEN Leaves(w) ELSE Becomes(w, [p EXCEPT !.drop = @ \ {b}])
  /\ UNCHANGED <<made, head, rec, taken>>

-----------------------------------------------------------------------------
(***************************************************************************)
(* Other deletions.                                                        *)
(***************************************************************************)

(* A session is condensed at its end, and is then spent, or by doctor, and is
   then idle.  No commit links to a new checkpoint; the base commit may link to
   one that was reserved for it. *)
Condenses(w, s) ==
  /\ Idle(w)
  /\ Exists(s) /\ Free(s)
  /\ \E atEnd \in BOOLEAN, last \in {0, rec[s].base} :
       /\ IF atEnd THEN Ended(s) ELSE rec[s].phase # "spent"
       /\ rec' = [rec EXCEPT ![s] = [@ EXCEPT !.counted = {}, !.last = last,
                                              !.phase = IF atEnd THEN "spent" ELSE "idle"]]
  /\ Becomes(w, At("scan", "tidy", s, NoRecord, {}, rec[s].base))
  /\ UNCHANGED <<made, head, tip, taken, forsaken>>

(* Variant: a session that has no record can be reset. *)
ResetStartsAnyway(w, s) ==
  /\ Idle(w)
  /\ Becomes(w, At("clear", "tidy", s, NoRecord, {}, rec[s].base))
  /\ UNCHANGED <<made, head, tip, rec, taken, forsaken>>

(* ResetSession: the record is read without the gate, then cleared. *)
ResetStarts(w, s) ==
  /\ Idle(w)
  /\ Exists(s)
  /\ Becomes(w, At("clear", "tidy", s, NoRecord, {}, rec[s].base))
  /\ UNCHANGED <<made, head, tip, rec, taken, forsaken>>

ResetClears(w) ==
  LET p == proc[w] IN
  /\ p.pc = "clear" /\ Free(p.who)
  /\ rec' = [rec EXCEPT ![p.who] = NoRecord]
  /\ Becomes(w, [p EXCEPT !.pc = "scan"])
  /\ UNCHANGED <<made, head, tip, taken, forsaken>>

(* Variant: only running sessions use a branch. *)
InUseIfRunning(b, s) == \E t \in Session \ {s} : rec[t].base = b /\ rec[t].phase = "active"

(* cleanupShadowBranchIfUnused: scan the other sessions' records, then delete
   by name. *)
InUse(b, s) == \E t \in Session \ {s} : rec[t].base = b /\ rec[t].counted # {}

TidyScans(w) ==
  LET p == proc[w] IN
  /\ p.pc = "scan"
  /\ IF InUse(p.to, p.who) THEN Leaves(w) ELSE Becomes(w, [p EXCEPT !.pc = "delete"])
  /\ UNCHANGED <<made, head, tip, rec, taken, forsaken>>

TidyDeletes(w) ==
  LET p == proc[w] IN
  /\ p.pc = "delete" /\ p.job = "tidy"
  /\ tip' = [tip EXCEPT ![p.to] = {}]
  /\ Leaves(w)
  /\ UNCHANGED <<made, head, rec, taken, forsaken>>

(* CleanupPushedShadowBranches: list the branches, list the sessions, and for
   each branch no session protects look again and delete it if it still has
   the tip that was listed.  Each branch is judged by itself: one is followed.
   A spent session whose last turn has checkpoints to finalise protects its
   branch as well; that is one of the ways to give up. *)
Protected(b) ==
  \E s \in Session : rec[s].base = b /\ rec[s].phase # "spent"

(* Variant: the branches are found through the sessions' records. *)
PushListsBases(w, b) ==
  /\ Idle(w)
  /\ tip[b] # {} /\ \E s \in Session : rec[s].base = b
  /\ Becomes(w, At("protect", "push", None, NoRecord, tip[b], b))
  /\ UNCHANGED <<made, head, tip, rec, taken, forsaken>>

PushLists(w, b) ==
  /\ Idle(w)
  /\ tip[b] # {}
  /\ Becomes(w, At("protect", "push", None, NoRecord, tip[b], b))
  /\ UNCHANGED <<made, head, tip, rec, taken, forsaken>>

PushLooks(w, pc, onward) ==
  LET p == proc[w] IN
  /\ p.pc = pc
  /\ IF Protected(p.to) THEN Leaves(w) ELSE Becomes(w, [p EXCEPT !.pc = onward])
  /\ UNCHANGED <<made, head, tip, rec, taken, forsaken>>

PushProtects(w) == PushLooks(w, "protect", "recheck")
PushRechecks(w) == PushLooks(w, "recheck", "expire")

PushDeletes(w) ==
  LET p == proc[w] IN
  /\ p.pc = "expire"
  /\ tip' = IF tip[p.to] = p.saw THEN [tip EXCEPT ![p.to] = {}] ELSE tip
  /\ Leaves(w)
  /\ UNCHANGED <<made, head, rec, taken, forsaken>>

(* A process is killed outside its frame, or gives up. *)
Dies(w) ==
  /\ proc[w].pc # "idle" /\ ~InFrame(w)
  /\ Leaves(w)
  /\ UNCHANGED <<made, head, tip, rec, taken, forsaken>>

Starts(w) ==
  \/ \E s \in Session :
       \/ Initialize(w, s) \/ TurnEnd(w, s) \/ SessionEnds(w, s)
       \/ StepStarts(w, s) \/ PromptStarts(w, s) \/ RewriteStarts(w, s)
       \/ Condenses(w, s) \/ ResetStarts(w, s)
  \/ CommitStarts(w)
  \/ \E b \in Commit : PushLists(w, b)

Continues(w) ==
  \/ \E s \in Session :
       \/ CommitCondenses(w, s) \/ CommitCarries(w, s) \/ CommitPasses(w, s)
       \/ CommitCloses(w, s) \/ BareAdvances(w, s)
  \/ MigrateSets(w) \/ MigrateUnlinks(w)
  \/ WriteReads(w) \/ WriteSwaps(w) \/ WriteLoses(w) \/ CarrySkips(w)
  \/ SaveRecord(w) \/ FrameFails(w)
  \/ CommitLists(w) \/ CommitVisited(w) \/ CommitDeletes(w)
  \/ ResetClears(w) \/ TidyScans(w) \/ TidyDeletes(w)
  \/ PushProtects(w) \/ PushRechecks(w) \/ PushDeletes(w)
  \/ Dies(w)

Next == MoveHead \/ \E w \in Worker : Starts(w) \/ Continues(w)

Spec == Init /\ [][Next]_vars

(* Some process goes on, if only by failing; the user pushes again and again,
   and in the long run a push is not killed. *)
Pushes(w) == PushProtects(w) \/ PushRechecks(w) \/ PushDeletes(w)

Fairness ==
  /\ WF_vars(\E w \in Worker : Continues(w))
  /\ \A b \in Commit : SF_vars(\E w \in Worker : PushLists(w, b))
  /\ \A w \in Worker : WF_vars(Pushes(w))
  /\ <>[][\A w \in Worker : Dies(w) => proc[w].job # "push"]_vars

FairSpec == Spec /\ Fairness

-----------------------------------------------------------------------------
(***************************************************************************)
(* Properties.                                                             *)
(***************************************************************************)

(* Checked and proved for one worker, so while processes take turns: the steps
   a session counts are on the branch of its base commit, unless they were left
   behind.  So neither another session's writes, nor the clean-up after a
   condensation, a reset or a push, takes a step that a record still counts. *)
StepsKept ==
  \A s \in Session \ forsaken :
    Exists(s) /\ Free(s) => rec[s].counted \subseteq tip[rec[s].base]

(* Under every interleaving a branch is deleted, moved over, or gets one step on
   top of what is there: writers neither overwrite one another nor bring back
   what was deleted meanwhile. *)
OnTop(b) ==
  \/ tip'[b] \in {tip[b], {}}
  \/ \E st \in Step : tip'[b] = tip[b] \cup {st}
  \/ \E w \in Worker : proc[w].pc = "set" /\ proc[w].to = b

OneStepOnTop == [][\A b \in Commit : OnTop(b)]_vars

(* A branch that no session needs is deleted, unless one comes to need it: none
   stays for ever, whatever process died before it deleted its branch. *)
UnusedGoes ==
  \A b \in Commit :
    tip[b] # {} /\ ~Protected(b) ~> tip[b] = {} \/ Protected(b)

=============================================================================
