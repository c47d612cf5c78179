-------------------------- MODULE CheckpointRouting --------------------------
(***************************************************************************)
(* How checkpoint writes find a store when a repository has two of them.   *)
(*                                                                         *)
(* A checkpoint lives on the v1 metadata branch ("branch") or in a ref of  *)
(* its own ("refs"), or in both while a repository moves from the one to   *)
(* the other.  One of them is the configured primary; the other may be a   *)
(* mirror.  A checkpoint's ID tells which of them minted it: hex IDs come  *)
(* from the branch, ULIDs from the refs.  Code: checkpoint/fanout.go,      *)
(* routing_store.go, open.go, migrate.go, and the two stores' Write.       *)
(*                                                                         *)
(* A checkpoint's contents are the set of writes it holds: two writes of   *)
(* one checkpoint touch different sessions or different fields.  Settings  *)
(* are read once, when a process opens its stores, and may change under    *)
(* it; a process may fail or die between the write to one store and the    *)
(* write to the next; another machine may have pushed a ref this clone has *)
(* not fetched; `entire doctor migrate` may copy the branch into the refs  *)
(* meanwhile.                                                              *)
(***************************************************************************)
EXTENDS Integers, FiniteSets, Sequences

CONSTANTS Hex,          \* checkpoints whose ID the branch store minted
          Ulid,         \* checkpoints whose ID the refs store minted
          Worker,       \* processes that write checkpoints
          MaxWrites,    \* bound: writes in all
          MaxSwitches,  \* bound: changes of the settings
          MaxMigrations \* bound: runs of doctor migrate

ASSUME RoutingAssumption ==
  /\ Hex \cap Ulid = {}
  /\ MaxWrites \in Nat
  /\ MaxSwitches \in Nat
  /\ MaxMigrations \in Nat

VARIABLES
  config,    \* the settings: which store is primary, is the other a mirror
  branch,    \* the writes each checkpoint holds on the branch
  refs,      \* the writes it holds in its local ref; {} when there is none
  remote,    \* the writes the ref holds that another machine pushed
  imported,  \* the branch trees in the local ref's first-parent history
  worker,    \* what each writing process is doing
  migrator,  \* the tree doctor migrate read, and the checkpoints left to it
  log,       \* of each write: its checkpoint, kind, primary and outcome
  lagging,   \* writes the ref is behind on by an import, a mirror or a probe
             \* that missed it, the three ways the code lets a ref lag
  switches, migrations

vars == <<config, branch, refs, remote, imported, worker, migrator, log,
          lagging, switches, migrations>>

Checkpoint == Hex \cup Ulid
Store == {"branch", "refs"}
Config == [primary : Store, mirror : BOOLEAN]

\* Write 0 stands for what the checkpoint held before the model begins.
Earlier == 0
Write == 0 .. MaxWrites

Kind == {"session", "backfill"}
Entry == [checkpoint : Checkpoint, kind : Kind, primary : Store,
          acked : BOOLEAN]

Idle == [at |-> "idle"]
Busy == [at : {"primary", "mirror", "probe", "home", "copy", "fallback"},
         config : Config, checkpoint : Checkpoint, kind : Kind,
         write : Write \ {Earlier}, seen : BOOLEAN]

-----------------------------------------------------------------------------
\* The routing rules.

Other(s) == IF s = "branch" THEN "refs" ELSE "branch"

\* The store whose format the checkpoint's ID has.
Home(c) == IF c \in Ulid THEN "refs" ELSE "branch"

\* The stores a read consults, the preferred one first.
ReadOrder(primary, c) ==
  IF c \in Ulid
  THEN <<"refs">>
  ELSE IF primary = "branch" THEN <<"branch">> ELSE <<"refs", "branch">>

\* What the refs store resolves: the local ref, or else the one it fetches.
RefSeen(local, c) == IF local[c] # {} THEN local[c] ELSE remote[c]

\* What a reader finds when no fetch fails: the first store that has it.
Resolved(primary, c) ==
  LET inRef == RefSeen(refs, c)
  IN  CASE ReadOrder(primary, c) = <<"refs">> -> inRef
        [] ReadOrder(primary, c) = <<"branch">> -> branch[c]
        [] OTHER -> IF inRef # {} THEN inRef ELSE branch[c]

\* A ref another machine pushed under a hex ID was imported from the branch.
ImportedElsewhere(c) == IF c \in Hex THEN {remote[c]} ELSE {}

\* Variant: a write starts afresh over what the checkpoint holds.
StartedAfresh(held, write) == {write}

\* A write joins what the checkpoint holds.
Extended(held, write) == held \cup {write}

\* Variant: absence is decided without asking the remote.
AbsentLocally(c) == refs[c] = {}

\* The refs store reports a checkpoint absent only if the remote lacks it too.
AbsentFromRefs(c) == RefSeen(refs, c) = {}

\* Variant: every session goes to the configured primary.
RouteToPrimary(cfg, c, kind) ==
  IF kind = "session" \/ ReadOrder(cfg.primary, c)[1] = cfg.primary
  THEN "primary" ELSE "home"

\* Variant: the router takes a backfill for done.
RouteDropsBackfills(cfg, c, kind) ==
  CASE kind = "session" /\ Home(c) = cfg.primary -> "primary"
    [] kind = "session" /\ Home(c) # cfg.primary -> "home"
    [] kind = "backfill" -> "idle"

\* The step a write begins with.
Route(cfg, c, kind) ==
  CASE kind = "session" /\ Home(c) = cfg.primary -> "primary"
    [] kind = "session" /\ Home(c) # cfg.primary ->
         IF ReadOrder(cfg.primary, c)[1] # Home(c) THEN "probe" ELSE "home"
    [] kind = "backfill" ->
         IF ReadOrder(cfg.primary, c)[1] = cfg.primary THEN "primary" ELSE "home"

\* Variant: the ID's own store is forgotten when settings change.
TargetIsPrimary(b) ==
  CASE b.at \in {"primary", "home"} -> b.config.primary
    [] b.at = "mirror" -> Other(b.config.primary)
    [] b.at = "copy" -> "refs"
    [] b.at = "fallback" -> "branch"

\* The store a worker's next write goes to.
Target(b) ==
  CASE b.at = "primary" -> b.config.primary
    [] b.at = "mirror" -> Other(b.config.primary)
    [] b.at = "home" -> Home(b.checkpoint)
    [] b.at = "copy" -> "refs"
    [] b.at = "fallback" -> "branch"

\* Variant: the copy that reads prefer is not updated.
FollowWithoutCopy(b) ==
  IF b.at = "primary" /\ b.config.mirror THEN "mirror" ELSE "idle"

\* The step after a successful one; "idle" when the write is done.
Follow(b) ==
  CASE b.at = "primary" /\ b.config.mirror -> "mirror"
    [] b.at = "home" /\ b.seen -> "copy"
    [] OTHER -> "idle"

\* The writes of c a reader of the refs would have found and now would not,
\* and those of processes that already looked for a ref and found none.
Overlooked(local, c) ==
  {<<c, w>> : w \in RefSeen(refs, c) \ RefSeen(local, c)}
  \cup {<<c, worker[w].write>> :
          w \in {v \in Worker :
                   /\ worker[v].at \in {"home", "fallback"}
                   /\ worker[v].checkpoint = c
                   /\ ~worker[v].seen}}
  \cup (IF RefSeen(refs, c) = {}
        THEN {<<c, w>> : w \in branch[c] \ RefSeen(local, c)}
        ELSE {})

-----------------------------------------------------------------------------
Init ==
  /\ config \in Config
  /\ branch \in [Checkpoint -> {{}, {Earlier}}]
  /\ \A c \in Ulid : branch[c] = {}
  /\ refs = [c \in Checkpoint |-> {}]
  /\ remote \in [Checkpoint -> {{}, {Earlier}}]
  /\ \A c \in Hex : remote[c] \subseteq branch[c]
  /\ imported = [c \in Checkpoint |-> {}]
  /\ worker = [w \in Worker |-> Idle]
  /\ migrator = [tree |-> [c \in Checkpoint |-> {}], todo |-> {}]
  /\ log = << >>
  /\ lagging = {}
  /\ switches = 0
  /\ migrations = 0

\* Somebody edits the settings, or an environment variable replaces them.
Configures(new) ==
  /\ switches < MaxSwitches
  /\ new # config
  /\ config' = new
  /\ switches' = switches + 1
  /\ UNCHANGED <<branch, refs, remote, imported, worker, migrator, log,
                 lagging, migrations>>

\* A missing ref that another machine pushed is fetched by whoever reads it.
Fetches(c) ==
  /\ refs[c] = {}
  /\ remote[c] # {}
  /\ refs' = [refs EXCEPT ![c] = remote[c]]
  /\ imported' = [imported EXCEPT ![c] = ImportedElsewhere(c)]
  /\ UNCHANGED <<config, branch, remote, worker, migrator, log, lagging,
                 switches, migrations>>

-----------------------------------------------------------------------------
\* Writers.

\* A process reads the settings and chooses where its write begins.  A session
\* write may be for a ULID whose ref another machine pushed and this clone does
\* not have (a pulled commit is amended): hooks open their stores without a
\* fetcher, and the write starts a ref of its own.
Opens(w, c, kind) ==
  /\ worker[w] = Idle
  /\ Len(log) < MaxWrites
  /\ worker' = [worker EXCEPT ![w] =
       [at |-> Route(config, c, kind), config |-> config, checkpoint |-> c,
        kind |-> kind, write |-> Len(log) + 1, seen |-> FALSE]]
  /\ log' = Append(log, [checkpoint |-> c, kind |-> kind,
                         primary |-> config.primary, acked |-> FALSE])
  /\ UNCHANGED <<config, branch, refs, remote, imported, migrator, lagging,
                 switches, migrations>>

\* The worker goes on to `step`; a write with no step left has succeeded.
GoesOn(w, step) ==
  /\ worker' = [worker EXCEPT ![w] =
       IF step = "idle" THEN Idle ELSE [@ EXCEPT !.at = step]]
  /\ log' = IF step = "idle"
            THEN [log EXCEPT ![worker[w].write].acked = TRUE]
            ELSE log

\* An existing checkpoint is updated in the store that has it; a session write
\* creates what is missing.  Only a backfill fetches before it writes.
WritesBranch(w) ==
  LET b == worker[w]
      c == b.checkpoint
  IN  /\ b # Idle
      /\ b.at \in {"primary", "home", "fallback"}
      /\ Target(b) = "branch"
      /\ b.kind = "backfill" => branch[c] # {}
      /\ branch' = [branch EXCEPT ![c] = Extended(@, b.write)]
      /\ lagging' = IF b.kind = "session" /\ b.at = "home" /\ ~b.seen /\ RefSeen(refs, c) # {}
                    THEN lagging \cup {<<c, b.write>>}
                    ELSE lagging
      /\ GoesOn(w, Follow(b))
      /\ UNCHANGED <<config, refs, remote, imported, migrator, switches,
                     migrations>>

WritesRefs(w) ==
  LET b == worker[w]
      c == b.checkpoint
      base == IF b.kind = "backfill" THEN RefSeen(refs, c) ELSE refs[c]
  IN  /\ b # Idle
      /\ b.at \in {"primary", "home", "copy"}
      /\ Target(b) = "refs"
      /\ b.kind = "backfill" => base # {}
      /\ refs' = [refs EXCEPT ![c] = Extended(base, b.write)]
      /\ imported' = IF base = refs[c] THEN imported
                     ELSE [imported EXCEPT ![c] = ImportedElsewhere(c)]
      /\ GoesOn(w, Follow(b))
      /\ UNCHANGED <<config, branch, remote, migrator, lagging, switches,
                     migrations>>

\* A mirror takes the write as it is, never fetches, and its failure counts
\* for nothing.
Mirrors(w) ==
  LET b == worker[w]
      c == b.checkpoint
  IN  /\ b # Idle
      /\ b.at = "mirror"
      /\ IF Target(b) = "branch"
         THEN /\ b.kind = "backfill" => branch[c] # {}
              /\ branch' = [branch EXCEPT ![c] = Extended(@, b.write)]
              /\ UNCHANGED <<refs, lagging>>
         ELSE /\ b.kind = "backfill" => refs[c] # {}
              /\ refs' = [refs EXCEPT ![c] = Extended(@, b.write)]
              /\ lagging' = lagging \cup Overlooked(refs', c)
              /\ UNCHANGED branch
      /\ GoesOn(w, "idle")
      /\ UNCHANGED <<config, remote, imported, migrator, switches, migrations>>

MirrorFails(w) ==
  /\ worker[w].at = "mirror"
  /\ GoesOn(w, "idle")
  /\ UNCHANGED <<config, branch, refs, remote, imported, migrator, lagging,
                 switches, migrations>>

\* A session write whose ID the other store minted asks the store reads prefer
\* for a copy.  Session writers open their stores without a fetcher, so a ref
\* this clone has not fetched looks absent; an error counts as none, too.
Probes(w) ==
  /\ worker[w].at = "probe"
  /\ worker' = [worker EXCEPT ![w].at = "home",
                              ![w].seen = refs[worker[w].checkpoint] # {}]
  /\ UNCHANGED <<config, branch, refs, remote, imported, migrator, log,
                 lagging, switches, migrations>>

ProbeFails(w) ==
  /\ worker[w].at = "probe"
  /\ worker' = [worker EXCEPT ![w].at = "home"]
  /\ UNCHANGED <<config, branch, refs, remote, imported, migrator, log,
                 lagging, switches, migrations>>

\* Only a backfill that finds nothing goes on to the next store in the order.
FallsThrough(w) ==
  LET b == worker[w]
      c == b.checkpoint
  IN  /\ b # Idle
      /\ b.at = "primary"
      /\ b.kind = "backfill"
      /\ Len(ReadOrder(b.config.primary, c)) = 2
      /\ AbsentFromRefs(c)
      /\ worker' = [worker EXCEPT ![w].at = "fallback"]
      /\ UNCHANGED <<config, branch, refs, remote, imported, migrator, log,
                     lagging, switches, migrations>>

\* A store answers with an error, a backfill finds nothing at all, or the
\* process is killed: the write is never acknowledged.
Fails(w) ==
  /\ worker[w] # Idle
  /\ worker' = [worker EXCEPT ![w] = Idle]
  /\ UNCHANGED <<config, branch, refs, remote, imported, migrator, log,
                 lagging, switches, migrations>>

-----------------------------------------------------------------------------
\* doctor migrate.

\* It refuses when the refs are primary, and reads the branch once.
MigrateStarts ==
  /\ migrator.todo = {}
  /\ migrations < MaxMigrations
  /\ config.primary = "branch"
  /\ migrator' = [tree |-> branch, todo |-> {c \in Checkpoint : branch[c] # {}}]
  /\ migrations' = migrations + 1
  /\ UNCHANGED <<config, branch, refs, remote, imported, worker, log, lagging,
                 switches>>

\* The branch's tree becomes the ref's, on top of whatever the ref holds now,
\* unless the ref's history has that tree already.
AlreadyImported(c) == migrator.tree[c] \in imported[c]

Imports(c) ==
  /\ c \in migrator.todo
  /\ IF AlreadyImported(c)
     THEN UNCHANGED <<refs, imported, lagging>>
     ELSE /\ refs' = [refs EXCEPT ![c] = migrator.tree[c]]
          /\ imported' = [imported EXCEPT ![c] = @ \cup {migrator.tree[c]}]
          /\ lagging' = lagging \cup Overlooked(refs', c)
  /\ migrator' = [migrator EXCEPT !.todo = @ \ {c}]
  /\ UNCHANGED <<config, branch, remote, worker, log, switches, migrations>>

MigrateStops ==
  /\ migrator.todo # {}
  /\ migrator' = [migrator EXCEPT !.todo = {}]
  /\ UNCHANGED <<config, branch, refs, remote, imported, worker, log, lagging,
                 switches, migrations>>

-----------------------------------------------------------------------------
Next ==
  \/ \E new \in Config : Configures(new)
  \/ \E c \in Checkpoint : Fetches(c)
  \/ \E w \in Worker, c \in Checkpoint, kind \in Kind : Opens(w, c, kind)
  \/ \E w \in Worker : WritesBranch(w)
  \/ \E w \in Worker : WritesRefs(w)
  \/ \E w \in Worker : Mirrors(w)
  \/ \E w \in Worker : MirrorFails(w)
  \/ \E w \in Worker : Probes(w)
  \/ \E w \in Worker : ProbeFails(w)
  \/ \E w \in Worker : FallsThrough(w)
  \/ \E w \in Worker : Fails(w)
  \/ MigrateStarts
  \/ \E c \in Checkpoint : Imports(c)
  \/ MigrateStops

Spec == Init /\ [][Next]_vars

-----------------------------------------------------------------------------
TypeOK ==
  /\ config \in Config
  /\ branch \in [Checkpoint -> SUBSET Write]
  /\ refs \in [Checkpoint -> SUBSET Write]
  /\ remote \in [Checkpoint -> SUBSET Write]
  /\ imported \in [Checkpoint -> SUBSET SUBSET Write]
  /\ worker \in [Worker -> Busy \cup {Idle}]
  /\ migrator \in [tree : [Checkpoint -> SUBSET Write], todo : SUBSET Checkpoint]
  /\ log \in Seq(Entry)
  /\ Len(log) <= MaxWrites
  /\ lagging \in SUBSET (Checkpoint \X Write)
  /\ switches \in 0 .. MaxSwitches
  /\ migrations \in 0 .. MaxMigrations

Acked(n) == log[n].acked

\* A write that was reported done is what readers with the same primary find,
\* ever after, whatever other writers, primaries, fetches and deaths do, unless
\* the ref lags.
ReadersFindIt ==
  \A n \in DOMAIN log :
    Acked(n) /\ <<log[n].checkpoint, n>> \notin lagging =>
      n \in Resolved(log[n].primary, log[n].checkpoint)

\* The sessions of one checkpoint stay together in the store its ID names,
\* whatever the primary was when each of them was written.
SessionsStayTogether ==
  \A n \in DOMAIN log :
    Acked(n) /\ log[n].kind = "session" =>
      \/ /\ Home(log[n].checkpoint) = "branch"
         /\ n \in branch[log[n].checkpoint]
      \/ /\ Home(log[n].checkpoint) = "refs"
         /\ \/ n \in refs[log[n].checkpoint]
            \/ <<log[n].checkpoint, n>> \in lagging

\* Readers never look for a ULID on the branch: what is there is in its ref.
UlidsAreInRefs ==
  \A c \in Ulid : \A n \in branch[c] : n \in refs[c] \/ <<c, n>> \in lagging

\* A ref holds every branch tree that was imported into it: skipping a tree
\* because the history has it loses nothing.
ImportsAreHeld == \A c \in Checkpoint : \A tree \in imported[c] : tree \subseteq refs[c]

\* A backfill never forks a checkpoint: under the refs primary it is not on the
\* branch while readers see a ref without it.
BackfillsDoNotFork ==
  \A n \in DOMAIN log :
    LET c == log[n].checkpoint
    IN  /\ log[n].kind = "backfill"
        /\ log[n].primary = "refs"
        /\ n \in branch[c]
        => n \in Resolved("refs", c) \/ <<c, n>> \in lagging
=============================================================================
