----------------------- MODULE CheckpointRoutingProofs -----------------------
(***************************************************************************)
(* What the routing of checkpoint writes keeps for any checkpoints,        *)
(* writers and bounds.                                                     *)
(***************************************************************************)
EXTENDS CheckpointRouting, TLAPS

Running(w) == worker[w] # Idle

(* The log has what each worker was asked for, and no two have one write. *)
Logged ==
  /\ \A w \in Worker : Running(w) =>
       /\ worker[w].write \in 1..Len(log)
       /\ log[worker[w].write].checkpoint = worker[w].checkpoint
       /\ log[worker[w].write].kind = worker[w].kind
       /\ log[worker[w].write].primary = worker[w].config.primary
       /\ ~log[worker[w].write].acked
  /\ \A v, w \in Worker :
       Running(v) /\ Running(w) /\ v # w => worker[v].write # worker[w].write
  /\ \A c \in Checkpoint : branch[c] \subseteq 0..Len(log)

(* Which writes are at which step, and what they rely on there. *)
OnRoute(w) ==
  LET b == worker[w]
      c == b.checkpoint
      p == b.config.primary
      Lags == <<c, b.write>> \in lagging
  IN  /\ b.at \in {"primary", "mirror"} /\ p = "branch" => c \in Hex
      /\ b.at \in {"primary", "mirror"} /\ p = "refs" /\ b.kind = "session" => c \in Ulid
      /\ b.at \in {"probe", "copy"} => c \in Hex /\ p = "refs" /\ b.kind = "session"
      /\ b.at = "home" /\ c \in Hex => p = "refs" /\ b.kind = "session"
      /\ b.at = "fallback" => /\ c \in Hex /\ p = "refs" /\ b.kind = "backfill"
                              /\ RefSeen(refs, c) = {} \/ Lags
      /\ b.at = "copy" => b.seen
      /\ b.seen => c \in Hex /\ refs[c] # {} /\ b.at \in {"home", "copy"}
      /\ b.at = "mirror" /\ p = "branch" => b.write \in branch[c]
      /\ b.at = "mirror" /\ p = "refs" => b.write \in refs[c] \/ Lags
      /\ b.at = "copy" => b.write \in branch[c]

Routed == \A w \in Worker : Running(w) => OnRoute(w)

(* The trees in a ref's history are old trees of the branch, and another machine
   pushed nothing that was written here. *)
Grown ==
  /\ \A c \in Checkpoint :
       /\ remote[c] \subseteq {Earlier}
       /\ \A tree \in imported[c] : tree \subseteq branch[c]
       /\ c \in Hex => remote[c] \subseteq branch[c]
  /\ \A c \in migrator.todo :
       /\ migrator.tree[c] # {}
       /\ migrator.tree[c] \subseteq branch[c]
       /\ \A tree \in imported[c] : tree \subseteq migrator.tree[c]
       /\ c \in Hex => remote[c] \subseteq migrator.tree[c]

IInv == /\ TypeOK /\ Logged /\ Routed /\ Grown
        /\ ReadersFindIt /\ SessionsStayTogether /\ UlidsAreInRefs
        /\ ImportsAreHeld /\ BackfillsDoNotFork

(* What readers find in the given stores. *)
Found(onBranch, local, p, c) ==
  IF c \notin Ulid /\ (p = "branch" \/ RefSeen(local, c) = {})
  THEN onBranch[c] ELSE RefSeen(local, c)

(* No reader loses a write but by a lag. *)
Keeps ==
  /\ remote' = remote
  /\ lagging \subseteq lagging'
  /\ \A c \in Checkpoint :
       /\ branch[c] \subseteq branch'[c]
       /\ \A n \in refs[c] : n \in refs'[c] \/ <<c, n>> \in lagging'
       /\ refs[c] # {} => refs'[c] # {}
       /\ RefSeen(refs, c) = {} /\ RefSeen(refs', c) # {} =>
            \A w \in Worker :
              /\ Running(w) /\ worker[w].checkpoint = c
              /\ worker[w].at = "fallback"
              => <<c, worker[w].write>> \in lagging'
       /\ \A p \in Store, n \in Write \ {Earlier} :
            n \in Found(branch, refs, p, c) =>
              n \in Found(branch', refs', p, c) \/ <<c, n>> \in lagging'

USE DEF Checkpoint, Store

-----------------------------------------------------------------------------
LEMMA BusyFields ==
  ASSUME TypeOK, NEW w \in Worker, Running(w)
  PROVE  worker[w] \in Busy
  BY DEF TypeOK, Running

LEMMA AtRunning ==
  ASSUME NEW w \in Worker, NEW step \in {"primary", "mirror", "probe", "home", "copy", "fallback"}, worker[w].at = step
  PROVE  Running(w)
  BY DEF Running, Idle

LEMMA InitInv == Init => IInv
  <1> SUFFICES ASSUME Init PROVE IInv
    OBVIOUS
  <1>1. TypeOK
    <2>1. log \in Seq(Entry) /\ Len(log) = 0
      BY DEF Init
    <2> QED
      BY <2>1, RoutingAssumption DEF Init, TypeOK, Write, Earlier
  <1>2. \A w \in Worker : ~Running(w)
    BY DEF Init, Running
  <1>3. Logged
    BY <1>2 DEF Init, Logged, Earlier
  <1>4. Routed
    BY <1>2 DEF Routed
  <1>5. Grown
    BY DEF Init, Grown
  <1>6. DOMAIN log = {}
    BY DEF Init
  <1>7. ReadersFindIt /\ SessionsStayTogether /\ BackfillsDoNotFork
    BY <1>6 DEF ReadersFindIt, SessionsStayTogether, BackfillsDoNotFork
  <1>8. UlidsAreInRefs /\ ImportsAreHeld
    BY DEF Init, UlidsAreInRefs, ImportsAreHeld
  <1> QED
    BY <1>1, <1>3, <1>4, <1>5, <1>7, <1>8 DEF IInv

(* A worker goes on: the log changes at most in its outcome. *)
LEMMA GoesOnFacts ==
  ASSUME TypeOK, Logged, NEW w \in Worker, Running(w),
         NEW step \in {"mirror", "copy", "idle"}, GoesOn(w, step)
  PROVE  /\ worker' \in [Worker -> Busy \cup {Idle}]
         /\ log' \in Seq(Entry) /\ Len(log') = Len(log)
         /\ \A v \in Worker : v # w => worker'[v] = worker[v]
         /\ step = "idle" => worker'[w] = Idle /\ log'[worker[w].write].acked
         /\ step # "idle" =>
              /\ worker'[w] # Idle /\ worker'[w].at = step
              /\ worker'[w].config = worker[w].config
              /\ worker'[w].checkpoint = worker[w].checkpoint
              /\ worker'[w].kind = worker[w].kind
              /\ worker'[w].write = worker[w].write
              /\ worker'[w].seen = worker[w].seen
              /\ log' = log
         /\ \A n \in 1..Len(log) :
              /\ log'[n].checkpoint = log[n].checkpoint
              /\ log'[n].kind = log[n].kind
              /\ log'[n].primary = log[n].primary
              /\ n # worker[w].write => log'[n] = log[n]
  <1>1. worker[w] \in Busy
    BY BusyFields
  <1>2. worker[w].write \in 1..Len(log) /\ log \in Seq(Entry)
    BY DEF Logged, TypeOK
  <1>3. CASE step = "idle"
    <2>1. worker' = [worker EXCEPT ![w] = Idle]
      BY <1>3 DEF GoesOn
    <2>2. log' = [log EXCEPT ![worker[w].write].acked = TRUE]
      BY <1>3 DEF GoesOn
    <2>3. \A n \in 1..Len(log) : log[n] \in Entry
      BY <1>2
    <2>4. \A e \in Entry : [e EXCEPT !.acked = TRUE] \in Entry
      BY DEF Entry
    <2>5. DOMAIN log = 1..Len(log) /\ log = [n \in 1..Len(log) |-> log[n]]
      BY <1>2
    <2>6. log' = [n \in 1..Len(log) |-> IF n = worker[w].write
                                       THEN [log[n] EXCEPT !.acked = TRUE] ELSE log[n]]
      BY <1>2, <2>2, <2>5
    <2>7. log' \in [1..Len(log) -> Entry]
      BY <2>3, <2>4, <2>6
    <2>8. log' \in Seq(Entry) /\ Len(log') = Len(log)
      BY <1>2, <2>7
    <2>9. \A n \in 1..Len(log) :
            /\ log'[n].checkpoint = log[n].checkpoint
            /\ log'[n].kind = log[n].kind
            /\ log'[n].primary = log[n].primary
            /\ n # worker[w].write => log'[n] = log[n]
      BY <1>2, <2>2, <2>3 DEF Entry
    <2>10. log'[worker[w].write].acked
      BY <1>2, <2>2, <2>3 DEF Entry
    <2> QED
      BY <1>3, <2>1, <2>8, <2>9, <2>10 DEF TypeOK
  <1>4. CASE step # "idle"
    <2>1. worker' = [worker EXCEPT ![w] = [@ EXCEPT !.at = step]] /\ log' = log
      BY <1>4 DEF GoesOn
    <2>2. [worker[w] EXCEPT !.at = step] \in Busy
      BY <1>1, <1>4 DEF Busy
    <2>3. worker'[w] = [worker[w] EXCEPT !.at = step]
      BY <2>1 DEF TypeOK
    <2>4. worker'[w] # Idle
      BY <1>1, <1>4, <2>3 DEF Busy, Idle
    <2> QED
      BY <1>1, <1>2, <1>4, <2>1, <2>2, <2>3, <2>4 DEF TypeOK, Busy
  <1> QED
    BY <1>3, <1>4

(* What is to be shown of a write that is done. *)
Settled(n) ==
  LET c == log[n].checkpoint
  IN  /\ n \in Found(branch', refs', log[n].primary, c) \/ <<c, n>> \in lagging'
      /\ log[n].kind = "session" =>
           \/ Home(c) = "branch" /\ n \in branch'[c]
           \/ Home(c) = "refs" /\ (n \in refs'[c] \/ <<c, n>> \in lagging')

(* At most write m is acknowledged, and at most m reaches the branch. *)
Progress(m) ==
  /\ log' \in Seq(Entry) /\ Len(log') = Len(log)
  /\ \A n \in 1..Len(log) :
       /\ log'[n].checkpoint = log[n].checkpoint
       /\ log'[n].kind = log[n].kind
       /\ log'[n].primary = log[n].primary
       /\ n # m => log'[n] = log[n]
  /\ m \in 1..Len(log) /\ log'[m].acked /\ ~log[m].acked => Settled(m)
  /\ \A c \in Checkpoint, n \in 1..Len(log) :
       n \in branch'[c] /\ n \notin branch[c] =>
         /\ n = m
         /\ log[m].checkpoint = c
         /\ log[m].kind = "backfill" /\ log[m].primary = "refs" =>
              n \in Found(branch', refs', "refs", c) \/ <<c, n>> \in lagging'

LEMMA ResolvedIsFound ==
  ASSUME NEW p \in Store, NEW c \in Checkpoint
  PROVE  /\ Resolved(p, c) = Found(branch, refs, p, c)
         /\ remote' = remote => Resolved(p, c)' = Found(branch', refs', p, c)
  BY DEF Resolved, Found, RefSeen, ReadOrder

LEMMA LogEntries ==
  ASSUME TypeOK, NEW n \in 1..Len(log)
  PROVE  /\ log[n] \in Entry
         /\ log[n].checkpoint \in Checkpoint
         /\ log[n].primary \in Store
         /\ n \in Write
  <1>1. log \in Seq(Entry) /\ Len(log) \in Nat /\ Len(log) <= MaxWrites
    BY DEF TypeOK
  <1>2. log[n] \in Entry
    BY <1>1
  <1> QED
    BY <1>1, <1>2, RoutingAssumption DEF Entry, Write

LEMMA OutcomesKept ==
  ASSUME IInv, Keeps, NEW m \in Nat, Progress(m)
  PROVE  ReadersFindIt' /\ SessionsStayTogether' /\ BackfillsDoNotFork'
  <1> DOMAIN log = 1..Len(log) /\ DOMAIN log' = 1..Len(log)
    BY DEF IInv, TypeOK, Progress
  <1>0. \A n \in 1..Len(log) :
          /\ log[n].checkpoint \in Checkpoint /\ log[n].primary \in Store
          /\ n \in Write \ {Earlier}
          /\ log'[n].checkpoint = log[n].checkpoint
          /\ log'[n].primary = log[n].primary
          /\ log'[n].kind = log[n].kind
    BY LogEntries DEF IInv, Progress, Earlier
  <1>9. \A p \in Store, c \in Checkpoint :
          /\ Resolved(p, c) = Found(branch, refs, p, c)
          /\ Resolved(p, c)' = Found(branch', refs', p, c)
    BY ResolvedIsFound DEF Keeps
  <1>1. ASSUME NEW n \in 1..Len(log), log'[n].acked
        PROVE  Settled(n)
    <2>1. CASE ~log[n].acked
      <3>1. n = m
        BY <1>1, <2>1 DEF Progress
      <3> QED
        BY <1>1, <2>1, <3>1 DEF Progress
    <2>2. CASE log[n].acked
      <3> DEFINE c == log[n].checkpoint
      <3>1. c \in Checkpoint /\ log[n].primary \in Store /\ n \in Write \ {Earlier}
        BY <1>0
      <3>2. n \in Found(branch, refs, log[n].primary, c) \/ <<c, n>> \in lagging
        BY <1>9, <2>2, <3>1 DEF IInv, ReadersFindIt, Acked
      <3>3. n \in Found(branch', refs', log[n].primary, c) \/ <<c, n>> \in lagging'
        BY <3>1, <3>2 DEF Keeps
      <3>4. log[n].kind = "session" =>
           \/ Home(c) = "branch" /\ n \in branch[c]
           \/ Home(c) = "refs" /\ (n \in refs[c] \/ <<c, n>> \in lagging)
        BY <2>2 DEF IInv, SessionsStayTogether, Acked
      <3> QED
        BY <3>1, <3>3, <3>4 DEF Keeps, Settled
    <2> QED
      BY <2>1, <2>2
  <1>2. ReadersFindIt'
    <2> SUFFICES ASSUME NEW n \in 1..Len(log), log'[n].acked,
                        <<log'[n].checkpoint, n>> \notin lagging'
                 PROVE  n \in Found(branch', refs', log[n].primary, log[n].checkpoint)
                          /\ log'[n].primary = log[n].primary
                          /\ log'[n].checkpoint = log[n].checkpoint
      BY <1>0, <1>9 DEF ReadersFindIt, Acked
    <2> QED
      BY <1>0, <1>1 DEF Settled
  <1>3. SessionsStayTogether'
    BY <1>1 DEF SessionsStayTogether, Acked, Settled, Progress, Home
  <1>4. BackfillsDoNotFork'
    <2> SUFFICES ASSUME NEW n \in 1..Len(log), log[n].kind = "backfill",
                        log[n].primary = "refs", n \in branch'[log[n].checkpoint]
                 PROVE  n \in Found(branch', refs', "refs", log[n].checkpoint)
                          \/ <<log[n].checkpoint, n>> \in lagging'
      BY <1>0, <1>9 DEF BackfillsDoNotFork
    <2>1. log[n].checkpoint \in Checkpoint /\ n \in Write \ {Earlier}
      BY <1>0
    <2>2. CASE n \notin branch[log[n].checkpoint]
      BY <2>1, <2>2 DEF Progress
    <2>3. CASE n \in branch[log[n].checkpoint]
      <3>1. n \in Found(branch, refs, "refs", log[n].checkpoint) \/ <<log[n].checkpoint, n>> \in lagging
        BY <1>9, <2>1, <2>3 DEF IInv, BackfillsDoNotFork
      <3> QED
        BY <2>1, <3>1 DEF Keeps
    <2> QED
      BY <2>2, <2>3
  <1> QED
    BY <1>2, <1>3, <1>4

(* A worker that did not move stays on its route. *)
LEMMA RouteKept ==
  ASSUME IInv, Keeps, remote' = remote, NEW v \in Worker, Running(v),
         worker'[v] = worker[v]
  PROVE  OnRoute(v)'
  <1>1. worker[v] \in Busy /\ OnRoute(v)
    BY BusyFields DEF IInv, Routed
  <1> DEFINE c == worker[v].checkpoint
  <1>2. c \in Checkpoint /\ RefSeen(refs, c)' = RefSeen(refs', c)
    BY <1>1 DEF Busy, RefSeen
  <1> QED
    BY <1>1, <1>2 DEF OnRoute, Keeps

(* The worker that moved is the only one whose write is at stake. *)
LEMMA LoggedKept ==
  ASSUME IInv, TypeOK', NEW m, NEW w \in Worker,
         Running(w) /\ m = worker[w].write, Progress(m),
         \A v \in Worker : v # w => worker'[v] = worker[v],
         \/ worker'[w] = Idle
         \/ /\ worker'[w].write = m /\ ~log'[m].acked
            /\ worker'[w].checkpoint = worker[w].checkpoint
            /\ worker'[w].kind = worker[w].kind
            /\ worker'[w].config = worker[w].config,
         \A c \in Checkpoint : branch'[c] \subseteq branch[c] \cup {m}
  PROVE  Logged'
  <1>1. m \in 1..Len(log) /\ Len(log) \in Nat
    BY DEF IInv, Logged, TypeOK
  <1>2. ASSUME NEW v \in Worker, worker'[v] # Idle
        PROVE  /\ worker'[v].write \in 1..Len(log)
               /\ worker'[v].write = worker[v].write
               /\ Running(v)
               /\ log'[worker'[v].write].checkpoint = worker'[v].checkpoint
               /\ log'[worker'[v].write].kind = worker'[v].kind
               /\ log'[worker'[v].write].primary = worker'[v].config.primary
               /\ ~log'[worker'[v].write].acked
    <2>1. CASE v = w
      BY <1>1, <1>2, <2>1 DEF IInv, Logged, Progress
    <2>2. CASE v # w
      BY <1>1, <1>2, <2>2 DEF IInv, Logged, Progress, Running
    <2> QED
      BY <2>1, <2>2
  <1>3. \A c \in Checkpoint : branch'[c] \subseteq 0..Len(log)
    BY <1>1 DEF IInv, Logged
  <1>4. Len(log') = Len(log)
    BY DEF Progress
  <1> QED
    BY <1>2, <1>3, <1>4 DEF Logged, Running, IInv

-----------------------------------------------------------------------------
LEMMA Assembled ==
  ASSUME IInv, Keeps, TypeOK', NEW m \in Nat, Progress(m), Logged', Routed',
         Grown', UlidsAreInRefs', ImportsAreHeld'
  PROVE  IInv'
  BY OutcomesKept DEF IInv

LEMMA Unstored ==
  ASSUME IInv, UNCHANGED <<branch, refs, remote, imported, lagging>>
  PROVE  /\ Keeps
         /\ UlidsAreInRefs' /\ ImportsAreHeld'
         /\ migrator' = migrator => Grown'
         /\ log' = log => Progress(0)
  <1>1. Keeps
    BY DEF Keeps, Found
  <1>2. UlidsAreInRefs' /\ ImportsAreHeld'
    BY DEF IInv, UlidsAreInRefs, ImportsAreHeld
  <1>3. migrator' = migrator => Grown'
    BY DEF IInv, Grown
  <1>4. log' = log => Progress(0)
    BY DEF IInv, TypeOK, Progress
  <1> QED
    BY <1>1, <1>2, <1>3, <1>4

(* Steps that touch neither the workers nor the log. *)
LEMMA WorkersRest ==
  ASSUME IInv, Keeps, TypeOK', UNCHANGED <<worker, log, branch>>,
         Grown', UlidsAreInRefs', ImportsAreHeld'
  PROVE  IInv'
  <1>1. Progress(0)
    BY DEF IInv, TypeOK, Progress
  <1>2. Logged'
    BY DEF IInv, Logged, Running
  <1>3. \A w \in Worker : Running(w)' => Running(w)
    BY DEF Running
  <1>4. \A w \in Worker : worker'[w] = worker[w]
    OBVIOUS
  <1>5. Routed'
    BY <1>3, <1>4, RouteKept DEF Keeps, Routed
  <1> QED
    BY <1>1, <1>2, <1>5, Assembled

LEMMA ConfiguresKeeps ==
  ASSUME IInv, NEW new \in Config, Configures(new)
  PROVE  IInv'
  <1>1. TypeOK'
    BY RoutingAssumption DEF Configures, IInv, TypeOK
  <1> QED
    BY <1>1, Unstored, WorkersRest DEF Configures

LEMMA MigrateStartsKeeps == ASSUME IInv, MigrateStarts PROVE IInv'
  <1>1. TypeOK'
    BY RoutingAssumption DEF MigrateStarts, IInv, TypeOK
  <1>2. Grown'
    BY DEF MigrateStarts, IInv, TypeOK, Grown
  <1> QED
    BY <1>1, <1>2, Unstored, WorkersRest DEF MigrateStarts

LEMMA MigrateStopsKeeps == ASSUME IInv, MigrateStops PROVE IInv'
  <1>1. TypeOK'
    BY DEF MigrateStops, IInv, TypeOK
  <1>2. Grown'
    BY DEF MigrateStops, IInv, TypeOK, Grown
  <1> QED
    BY <1>1, <1>2, Unstored, WorkersRest DEF MigrateStops

(* A fetch gives no reader anything it did not see before. *)
LEMMA FetchKeeps ==
  ASSUME IInv, NEW c \in Checkpoint, refs[c] = {}, remote[c] # {},
         refs' = [refs EXCEPT ![c] = remote[c]],
         imported' = [imported EXCEPT ![c] = ImportedElsewhere(c)],
         UNCHANGED <<branch, remote, migrator, lagging>>
  PROVE  /\ Keeps /\ Grown' /\ UlidsAreInRefs' /\ ImportsAreHeld'
         /\ refs' \in [Checkpoint -> SUBSET Write]
         /\ imported' \in [Checkpoint -> SUBSET SUBSET Write]
  <1>1. \A d \in Checkpoint : RefSeen(refs', d) = RefSeen(refs, d)
    BY DEF IInv, TypeOK, RefSeen
  <1>2. refs' \in [Checkpoint -> SUBSET Write] /\ imported' \in [Checkpoint -> SUBSET SUBSET Write]
    BY DEF IInv, TypeOK, ImportedElsewhere
  <1>3. Keeps
    BY <1>1 DEF IInv, TypeOK, Keeps, Found
  <1>4. Grown'
    BY DEF IInv, TypeOK, Grown, ImportedElsewhere
  <1>5. UlidsAreInRefs' /\ ImportsAreHeld'
    BY DEF IInv, TypeOK, UlidsAreInRefs, ImportsAreHeld, ImportedElsewhere
  <1> QED
    BY <1>2, <1>3, <1>4, <1>5

LEMMA FetchesKeeps == ASSUME IInv, NEW c \in Checkpoint, Fetches(c) PROVE IInv'
  <1>1. Keeps /\ Grown' /\ UlidsAreInRefs' /\ ImportsAreHeld'
        /\ refs' \in [Checkpoint -> SUBSET Write]
        /\ imported' \in [Checkpoint -> SUBSET SUBSET Write]
    BY FetchKeeps DEF Fetches
  <1>2. TypeOK'
    BY <1>1 DEF Fetches, IInv, TypeOK
  <1> QED
    BY <1>1, <1>2, WorkersRest DEF Fetches

(* An import or a mirror's write accounts for what readers lose. *)
LEMMA OverlookedKeeps ==
  ASSUME IInv, NEW c \in Checkpoint, NEW held \in SUBSET Write, held # {},
         refs' = [refs EXCEPT ![c] = held],
         lagging' = lagging \cup Overlooked(refs', c),
         UNCHANGED <<branch, remote>>
  PROVE  Keeps /\ lagging' \in SUBSET (Checkpoint \X Write)
  <1>1. RefSeen(refs', c) = held
    BY DEF IInv, TypeOK, RefSeen
  <1>2. \A d \in Checkpoint : d # c => refs'[d] = refs[d] /\ RefSeen(refs', d) = RefSeen(refs, d)
    BY DEF IInv, TypeOK, RefSeen
  <1>3. \A w \in Worker : Running(w) /\ worker[w].checkpoint = c /\ worker[w].at = "fallback"
          => <<c, worker[w].write>> \in lagging'
    BY DEF IInv, Routed, OnRoute, Overlooked
  <1>4. \A n \in RefSeen(refs, c) : n \in held \/ <<c, n>> \in lagging'
    BY <1>1 DEF Overlooked
  <1>5. RefSeen(refs, c) = {} => \A n \in branch[c] : n \in held \/ <<c, n>> \in lagging'
    BY <1>1 DEF Overlooked
  <1>6. \A n \in refs[c] : n \in RefSeen(refs, c)
    BY DEF RefSeen
  <1>7. \A p \in Store, n \in Write :
          n \in Found(branch, refs, p, c) => n \in Found(branch', refs', p, c) \/ <<c, n>> \in lagging'
    BY <1>1, <1>4, <1>5 DEF Found
  <1>8. refs'[c] = held
    BY DEF IInv, TypeOK
  <1>9. Keeps
    BY <1>2, <1>3, <1>4, <1>6, <1>7, <1>8 DEF Keeps, Found
  <1>10. \A w \in Worker : worker[w].at \in {"home", "fallback"} => worker[w].write \in Write
    BY DEF IInv, TypeOK, Busy, Idle
  <1>11. Overlooked(refs', c) \subseteq Checkpoint \X Write
    BY <1>10 DEF Overlooked, IInv, TypeOK, RefSeen
  <1> QED
    BY <1>9, <1>11 DEF IInv, TypeOK

LEMMA ImportsKeeps == ASSUME IInv, NEW c \in Checkpoint, Imports(c) PROVE IInv'
  <1> DEFINE tree == migrator.tree[c]
  <1>1. tree \in SUBSET Write /\ c \in migrator.todo /\ tree # {}
    BY DEF Imports, IInv, TypeOK, Grown
  <1>2. CASE AlreadyImported(c)
    <2>1. UNCHANGED <<branch, refs, remote, imported, lagging>>
      BY <1>2 DEF Imports
    <2>2. TypeOK'
      BY <2>1 DEF Imports, IInv, TypeOK
    <2>3. Grown'
      BY <2>1 DEF Imports, IInv, TypeOK, Grown
    <2> QED
      BY <2>1, <2>2, <2>3, Unstored, WorkersRest DEF Imports
  <1>3. CASE ~AlreadyImported(c)
    <2>1. Keeps /\ lagging' \in SUBSET (Checkpoint \X Write)
      BY <1>1, <1>3, OverlookedKeeps DEF Imports
    <2>2. refs' = [refs EXCEPT ![c] = tree] /\ imported' = [imported EXCEPT ![c] = @ \cup {tree}]
      BY <1>3 DEF Imports
    <2>3. TypeOK'
      BY <1>1, <2>1, <2>2 DEF Imports, IInv, TypeOK
    <2>4. Grown'
      BY <1>1, <2>2 DEF Imports, IInv, TypeOK, Grown
    <2>5. ImportsAreHeld'
      BY <1>1, <2>2 DEF IInv, TypeOK, Grown, ImportsAreHeld
    <2>6. UlidsAreInRefs'
      BY <2>1 DEF Imports, IInv, UlidsAreInRefs, Keeps
    <2> QED
      BY <2>1, <2>3, <2>4, <2>5, <2>6, WorkersRest DEF Imports
  <1> QED
    BY <1>2, <1>3

-----------------------------------------------------------------------------
(* A step of worker w that ends its write, or only changes where it is. *)
LEMMA WorkerSteps ==
  ASSUME IInv, Keeps, TypeOK', NEW w \in Worker, Running(w), Progress(worker[w].write),
         \A v \in Worker : v # w => worker'[v] = worker[v],
         \/ worker'[w] = Idle
         \/ /\ worker'[w].write = worker[w].write
            /\ ~log'[worker[w].write].acked
            /\ worker'[w].checkpoint = worker[w].checkpoint
            /\ worker'[w].kind = worker[w].kind
            /\ worker'[w].config = worker[w].config
            /\ OnRoute(w)',
         \A c \in Checkpoint : branch'[c] \subseteq branch[c] \cup {worker[w].write},
         Grown', UlidsAreInRefs', ImportsAreHeld'
  PROVE  IInv'
  <1>1. worker[w].write \in Nat
    BY DEF IInv, Logged
  <1>2. Logged'
    BY LoggedKept
  <1>3. ASSUME NEW v \in Worker, worker'[v] # Idle PROVE OnRoute(v)'
    <2>1. CASE v = w
      BY <1>3, <2>1
    <2>2. CASE v # w
      BY <1>3, <2>2, RouteKept DEF Running, Keeps
    <2> QED
      BY <2>1, <2>2
  <1>4. Routed'
    BY <1>3 DEF Routed, Running
  <1> QED
    BY <1>1, <1>2, <1>4, Assembled

LEMMA FailsKeeps == ASSUME IInv, NEW w \in Worker, Fails(w) PROVE IInv'
  <1>1. Running(w) /\ worker'[w] = Idle
    BY DEF Fails, Running, IInv, TypeOK
  <1>2. \A v \in Worker : v # w => worker'[v] = worker[v]
    BY DEF Fails, IInv, TypeOK
  <1>3. TypeOK'
    BY DEF Fails, IInv, TypeOK
  <1>4. Keeps /\ UlidsAreInRefs' /\ ImportsAreHeld' /\ Grown'
    BY Unstored DEF Fails
  <1>5. Progress(worker[w].write)
    BY DEF Fails, Progress, IInv, TypeOK
  <1> QED
    BY <1>1, <1>2, <1>3, <1>4, <1>5, WorkerSteps DEF Fails

LEMMA ProbeFailsKeeps == ASSUME IInv, NEW w \in Worker, ProbeFails(w) PROVE IInv'
  <1>1. Running(w) /\ worker[w] \in Busy /\ OnRoute(w)
    BY AtRunning, BusyFields DEF ProbeFails, IInv, Routed
  <1>2. worker'[w] = [worker[w] EXCEPT !.at = "home"] /\ worker'[w] \in Busy
    BY <1>1 DEF ProbeFails, IInv, TypeOK, Busy
  <1>3. \A v \in Worker : v # w => worker'[v] = worker[v]
    BY DEF ProbeFails, IInv, TypeOK
  <1>4. TypeOK'
    BY <1>2 DEF ProbeFails, IInv, TypeOK
  <1>5. Keeps /\ UlidsAreInRefs' /\ ImportsAreHeld' /\ Grown'
    BY Unstored DEF ProbeFails
  <1>6. Progress(worker[w].write)
    BY DEF ProbeFails, Progress, IInv, TypeOK
  <1>7. /\ worker'[w].write = worker[w].write /\ worker'[w].checkpoint = worker[w].checkpoint
        /\ worker'[w].kind = worker[w].kind /\ worker'[w].config = worker[w].config
        /\ worker'[w].seen = worker[w].seen /\ worker'[w].at = "home"
    BY <1>1, <1>2 DEF Busy
  <1>8. OnRoute(w)'
    BY <1>1, <1>7, RoutingAssumption DEF ProbeFails, OnRoute, RefSeen
  <1>9. ~log'[worker[w].write].acked
    BY <1>1 DEF ProbeFails, IInv, Logged
  <1> QED
    BY <1>1, <1>3, <1>4, <1>5, <1>6, <1>7, <1>8, <1>9, WorkerSteps DEF ProbeFails

LEMMA FallsThroughKeeps == ASSUME IInv, NEW w \in Worker, FallsThrough(w) PROVE IInv'
  <1>1. Running(w) /\ worker[w] \in Busy /\ OnRoute(w)
    BY BusyFields DEF FallsThrough, IInv, Routed, Running
  <1>2. worker'[w] = [worker[w] EXCEPT !.at = "fallback"] /\ worker'[w] \in Busy
    BY <1>1 DEF FallsThrough, IInv, TypeOK, Busy
  <1>3. \A v \in Worker : v # w => worker'[v] = worker[v]
    BY DEF FallsThrough, IInv, TypeOK
  <1>4. TypeOK'
    BY <1>2 DEF FallsThrough, IInv, TypeOK
  <1>5. Keeps /\ UlidsAreInRefs' /\ ImportsAreHeld' /\ Grown'
    BY Unstored DEF FallsThrough
  <1>6. Progress(worker[w].write)
    BY DEF FallsThrough, Progress, IInv, TypeOK
  <1>7. /\ worker'[w].write = worker[w].write /\ worker'[w].checkpoint = worker[w].checkpoint
        /\ worker'[w].kind = worker[w].kind /\ worker'[w].config = worker[w].config
        /\ worker'[w].seen = worker[w].seen /\ worker'[w].at = "fallback"
    BY <1>1, <1>2 DEF Busy
  <1>8. worker[w].checkpoint \in Hex /\ worker[w].config.primary = "refs"
    BY <1>1 DEF FallsThrough, ReadOrder, Busy, Config
  <1>9. OnRoute(w)'
    BY <1>1, <1>7, <1>8, RoutingAssumption DEF FallsThrough, OnRoute, RefSeen, AbsentFromRefs
  <1>10. ~log'[worker[w].write].acked
    BY <1>1 DEF FallsThrough, IInv, Logged
  <1> QED
    BY <1>1, <1>3, <1>4, <1>5, <1>6, <1>7, <1>9, <1>10, WorkerSteps DEF FallsThrough

LEMMA ProbesKeeps == ASSUME IInv, NEW w \in Worker, Probes(w) PROVE IInv'
  <1> DEFINE c == worker[w].checkpoint
  <1>1. Running(w) /\ worker[w] \in Busy /\ OnRoute(w) /\ c \in Checkpoint
    BY AtRunning, BusyFields DEF Probes, IInv, Routed, Busy
  <1>2. worker'[w] = [worker[w] EXCEPT !.at = "home", !.seen = refs[c] # {}]
    BY <1>1 DEF Probes, IInv, TypeOK
  <1>3. \A v \in Worker : v # w => worker'[v] = worker[v]
    BY DEF Probes, IInv, TypeOK
  <1>4. /\ Keeps /\ Grown' /\ UlidsAreInRefs' /\ ImportsAreHeld'
        /\ refs' \in [Checkpoint -> SUBSET Write]
        /\ imported' \in [Checkpoint -> SUBSET SUBSET Write]
    BY Unstored DEF Probes, IInv, TypeOK
  <1>5. worker'[w] \in Busy
    BY <1>1, <1>2 DEF Busy
  <1>6. TypeOK'
    BY <1>4, <1>5 DEF Probes, IInv, TypeOK
  <1>7. Progress(worker[w].write)
    BY DEF Probes, Progress, IInv, TypeOK
  <1>8. /\ worker'[w].write = worker[w].write /\ worker'[w].checkpoint = worker[w].checkpoint
        /\ worker'[w].kind = worker[w].kind /\ worker'[w].config = worker[w].config
        /\ worker'[w].seen = (refs[c] # {}) /\ worker'[w].at = "home"
    BY <1>1, <1>2 DEF Busy
  <1>9. refs' = refs
    BY DEF Probes
  <1>10. c \in Hex /\ worker[w].config.primary = "refs" /\ worker[w].kind = "session"
    BY <1>1 DEF Probes, OnRoute
  <1>11. OnRoute(w)'
    BY <1>1, <1>8, <1>9, <1>10, RoutingAssumption DEF OnRoute
  <1>12. ~log'[worker[w].write].acked
    BY <1>1 DEF Probes, IInv, Logged
  <1> QED
    BY <1>1, <1>3, <1>4, <1>6, <1>7, <1>8, <1>11, <1>12, WorkerSteps DEF Probes

(* A write that is over but for its mirror is settled. *)
LEMMA AfterPrimary ==
  ASSUME IInv, Keeps, NEW w \in Worker, Running(w), worker[w].at = "mirror"
  PROVE  Settled(worker[w].write)
  <1> DEFINE b == worker[w]
             c == b.checkpoint
  <1>1. b \in Busy /\ OnRoute(w) /\ c \in Checkpoint
    BY BusyFields DEF IInv, Routed, Busy
  <1>2. /\ log[b.write].checkpoint = c /\ log[b.write].kind = b.kind
        /\ log[b.write].primary = b.config.primary
    BY DEF IInv, Logged
  <1>3. b.config.primary = "branch" \/ b.config.primary = "refs"
    BY <1>1 DEF Busy, Config
  <1>4. CASE b.config.primary = "branch"
    <2>1. c \in Hex /\ c \notin Ulid /\ b.write \in branch'[c]
      BY <1>1, <1>4, RoutingAssumption DEF OnRoute, Keeps
    <2> QED
      BY <1>2, <1>4, <2>1 DEF Settled, Found, Home
  <1>5. CASE b.config.primary = "refs"
    <2>1. b.write \in refs'[c] \/ <<c, b.write>> \in lagging'
      BY <1>1, <1>5 DEF OnRoute, Keeps
    <2>2. b.kind = "session" => c \in Ulid
      BY <1>1, <1>5 DEF OnRoute
    <2> QED
      BY <1>2, <1>5, <2>1, <2>2 DEF Settled, Found, Home, RefSeen
  <1> QED
    BY <1>3, <1>4, <1>5

LEMMA MirrorFailsKeeps == ASSUME IInv, NEW w \in Worker, MirrorFails(w) PROVE IInv'
  <1>1. Running(w) /\ worker[w] \in Busy
    BY AtRunning, BusyFields DEF MirrorFails, IInv
  <1>2. GoesOn(w, "idle") /\ worker[w].at = "mirror"
    BY DEF MirrorFails
  <1>3. /\ worker' \in [Worker -> Busy \cup {Idle}]
        /\ log' \in Seq(Entry) /\ Len(log') = Len(log)
        /\ \A v \in Worker : v # w => worker'[v] = worker[v]
        /\ worker'[w] = Idle
        /\ \A n \in 1..Len(log) :
              /\ log'[n].checkpoint = log[n].checkpoint
              /\ log'[n].kind = log[n].kind
              /\ log'[n].primary = log[n].primary
              /\ n # worker[w].write => log'[n] = log[n]
    BY <1>1, <1>2, GoesOnFacts DEF IInv
  <1>4. TypeOK'
    BY <1>3 DEF MirrorFails, IInv, TypeOK
  <1>5. Keeps /\ UlidsAreInRefs' /\ ImportsAreHeld' /\ Grown'
    BY Unstored DEF MirrorFails
  <1>6. Progress(worker[w].write)
    BY <1>1, <1>2, <1>3, <1>5, AfterPrimary DEF MirrorFails, Progress
  <1> QED
    BY <1>1, <1>3, <1>4, <1>5, <1>6, WorkerSteps DEF MirrorFails

(* The branch only gains the write of a worker on its route. *)
LEMMA BranchGains ==
  ASSUME IInv, NEW w \in Worker, Running(w),
         branch' = [branch EXCEPT ![worker[w].checkpoint] = @ \cup {worker[w].write}],
         lagging \subseteq lagging',
         UNCHANGED <<refs, remote, imported, migrator>>
  PROVE  /\ Keeps /\ Grown' /\ ImportsAreHeld'
         /\ branch' \in [Checkpoint -> SUBSET Write]
         /\ worker[w].write \in branch'[worker[w].checkpoint]
         /\ \A c \in Checkpoint :
              /\ branch'[c] \subseteq branch[c] \cup {worker[w].write}
              /\ c # worker[w].checkpoint => branch'[c] = branch[c]
  <1>1. worker[w].checkpoint \in Checkpoint /\ worker[w].write \in Write
    BY BusyFields DEF IInv, Busy
  <1>2. branch' \in [Checkpoint -> SUBSET Write]
    BY <1>1 DEF IInv, TypeOK
  <1>3. /\ worker[w].write \in branch'[worker[w].checkpoint]
        /\ \A c \in Checkpoint :
              /\ branch[c] \subseteq branch'[c]
              /\ branch'[c] \subseteq branch[c] \cup {worker[w].write}
              /\ c # worker[w].checkpoint => branch'[c] = branch[c]
    BY <1>1 DEF IInv, TypeOK
  <1>4. Keeps
    BY <1>3 DEF Keeps, Found
  <1>5. Grown' /\ ImportsAreHeld'
    BY <1>3 DEF IInv, Grown, TypeOK, ImportsAreHeld
  <1> QED
    BY <1>2, <1>3, <1>4, <1>5

LEMMA WritesBranchKeeps == ASSUME IInv, NEW w \in Worker, WritesBranch(w) PROVE IInv'
  <1> DEFINE b == worker[w]
             c == b.checkpoint
             p == b.config.primary
             step == Follow(b)
  <1>1. Running(w) /\ b \in Busy /\ OnRoute(w) /\ c \in Checkpoint /\ b.write \in Write
    BY BusyFields DEF WritesBranch, IInv, Routed, Busy, Running
  <1>2. step \in {"mirror", "copy", "idle"} /\ GoesOn(w, step)
    BY DEF WritesBranch, Follow
  <1>3. /\ worker' \in [Worker -> Busy \cup {Idle}]
        /\ log' \in Seq(Entry) /\ Len(log') = Len(log)
        /\ \A v \in Worker : v # w => worker'[v] = worker[v]
        /\ step = "idle" => worker'[w] = Idle
        /\ step # "idle" =>
              /\ worker'[w] # Idle /\ worker'[w].at = step
              /\ worker'[w].config = b.config
              /\ worker'[w].checkpoint = c
              /\ worker'[w].kind = b.kind
              /\ worker'[w].write = b.write
              /\ worker'[w].seen = b.seen
              /\ log' = log
        /\ \A n \in 1..Len(log) :
              /\ log'[n].checkpoint = log[n].checkpoint
              /\ log'[n].kind = log[n].kind
              /\ log'[n].primary = log[n].primary
              /\ n # b.write => log'[n] = log[n]
    BY <1>1, <1>2, GoesOnFacts DEF IInv
  <1>4. /\ branch' = [branch EXCEPT ![c] = @ \cup {b.write}]
        /\ lagging' = IF b.kind = "session" /\ b.at = "home" /\ ~b.seen /\ RefSeen(refs, c) # {}
                      THEN lagging \cup {<<c, b.write>>} ELSE lagging
        /\ UNCHANGED <<config, refs, remote, imported, migrator, switches, migrations>>
    BY DEF WritesBranch, Extended
  <1>5. /\ Keeps /\ Grown' /\ ImportsAreHeld'
        /\ branch' \in [Checkpoint -> SUBSET Write]
        /\ b.write \in branch'[c]
        /\ \A d \in Checkpoint :
              /\ branch'[d] \subseteq branch[d] \cup {b.write}
              /\ d # c => branch'[d] = branch[d]
    BY <1>1, <1>4, BranchGains
  <1>6. TypeOK'
    BY <1>1, <1>3, <1>4, <1>5 DEF IInv, TypeOK
  <1>7. c \in Hex /\ c \notin Ulid
    <2>1. CASE b.at = "primary"
      BY <1>1, <2>1, RoutingAssumption DEF WritesBranch, Target, OnRoute
    <2>2. CASE b.at = "home"
      BY <1>1, <2>2 DEF WritesBranch, Target, Home
    <2>3. CASE b.at = "fallback"
      BY <1>1, <2>3, RoutingAssumption DEF OnRoute
    <2> QED
      BY <2>1, <2>2, <2>3 DEF WritesBranch
  <1>8. UlidsAreInRefs'
    BY <1>4, <1>5, <1>7 DEF IInv, UlidsAreInRefs
  <1>9. /\ b.at = "primary" => p = "branch"
        /\ b.at = "home" => p = "refs" /\ b.kind = "session"
        /\ b.at = "fallback" => /\ p = "refs" /\ b.kind = "backfill"
                                /\ RefSeen(refs, c) = {} \/ <<c, b.write>> \in lagging
        /\ b.at \in {"primary", "home", "fallback"}
    BY <1>1, <1>7 DEF WritesBranch, Target, OnRoute
  <1>10. /\ log[b.write].checkpoint = c /\ log[b.write].kind = b.kind
         /\ log[b.write].primary = p /\ b.write \in 1..Len(log) /\ ~log[b.write].acked
    BY <1>1 DEF IInv, Logged
  <1>11. step = "idle" => Settled(b.write)
    <2> SUFFICES ASSUME step = "idle" PROVE Settled(b.write)
      OBVIOUS
    <2>1. b.at = "home" => ~b.seen
      BY DEF Follow
    <2>2. b.write \in Found(branch', refs', p, c) \/ <<c, b.write>> \in lagging'
      BY <1>4, <1>5, <1>7, <1>9, <2>1 DEF Found
    <2> QED
      BY <1>5, <1>7, <1>10, <2>2 DEF Settled, Home
  <1>12. b.kind = "backfill" /\ p = "refs" =>
           b.write \in Found(branch', refs', "refs", c) \/ <<c, b.write>> \in lagging'
    BY <1>4, <1>5, <1>7, <1>9 DEF Found
  <1>13. Progress(b.write)
    BY <1>3, <1>5, <1>10, <1>11, <1>12 DEF Progress
  <1>14. step # "idle" => OnRoute(w)'
    <2>1. step = "mirror" => b.at = "primary"
      BY <1>9 DEF Follow
    <2>2. step = "copy" => b.at = "home" /\ b.seen
      BY <1>9 DEF Follow
    <2>3. b.seen => refs[c] # {}
      BY <1>1 DEF OnRoute
    <2>4. b.seen => b.at = "home"
      BY <1>1, <1>9 DEF OnRoute
    <2> QED
      BY <1>2, <1>3, <1>4, <1>5, <1>7, <1>9, <2>1, <2>2, <2>3, <2>4 DEF OnRoute, RefSeen
  <1> QED
    BY <1>1, <1>3, <1>5, <1>6, <1>8, <1>10, <1>13, <1>14, WorkerSteps

LEMMA WritesRefsKeeps == ASSUME IInv, NEW w \in Worker, WritesRefs(w) PROVE IInv'
  <1> DEFINE b == worker[w]
             c == b.checkpoint
             p == b.config.primary
             step == Follow(b)
             base == IF b.kind = "backfill" THEN RefSeen(refs, c) ELSE refs[c]
  <1>1. Running(w) /\ b \in Busy /\ OnRoute(w) /\ c \in Checkpoint /\ b.write \in Write
    BY BusyFields DEF WritesRefs, IInv, Routed, Busy, Running
  <1>2. step \in {"mirror", "copy", "idle"} /\ GoesOn(w, step)
    BY DEF WritesRefs, Follow
  <1>3. /\ worker' \in [Worker -> Busy \cup {Idle}]
        /\ log' \in Seq(Entry) /\ Len(log') = Len(log)
        /\ \A v \in Worker : v # w => worker'[v] = worker[v]
        /\ step = "idle" => worker'[w] = Idle
        /\ step # "idle" =>
              /\ worker'[w] # Idle /\ worker'[w].at = step
              /\ worker'[w].config = b.config
              /\ worker'[w].checkpoint = c
              /\ worker'[w].kind = b.kind
              /\ worker'[w].write = b.write
              /\ worker'[w].seen = b.seen
              /\ log' = log
        /\ \A n \in 1..Len(log) :
              /\ log'[n].checkpoint = log[n].checkpoint
              /\ log'[n].kind = log[n].kind
              /\ log'[n].primary = log[n].primary
              /\ n # b.write => log'[n] = log[n]
    BY <1>1, <1>2, GoesOnFacts DEF IInv
  <1>4. /\ refs' = [refs EXCEPT ![c] = base \cup {b.write}]
        /\ imported' = IF base = refs[c] THEN imported
                       ELSE [imported EXCEPT ![c] = ImportedElsewhere(c)]
        /\ UNCHANGED <<config, branch, remote, migrator, lagging, switches, migrations>>
        /\ b.kind = "backfill" => base # {}
        /\ b.at \in {"primary", "home", "copy"} /\ Target(b) = "refs"
    BY DEF WritesRefs, Extended
  <1>5. b.kind \in {"session", "backfill"}
    BY <1>1 DEF Busy, Kind
  <1>6. /\ b.at = "primary" => p = "refs" /\ (b.kind = "session" => c \in Ulid)
        /\ b.at = "home" => c \in Ulid /\ c \notin Hex
        /\ b.at = "copy" => /\ c \in Hex /\ p = "refs" /\ b.kind = "session"
                            /\ refs[c] # {} /\ b.write \in branch[c]
    <2>1. b.at = "primary" => p = "refs"
      BY <1>4 DEF Target
    <2>2. b.at = "home" => Home(c) = "refs"
      BY <1>4 DEF Target
    <2> QED
      BY <1>1, <2>1, <2>2, RoutingAssumption DEF Home, OnRoute
  <1>7. /\ RefSeen(refs, c) \ {Earlier} \subseteq base
        /\ c \in Hex => RefSeen(refs, c) # {}
    <2>1. remote[c] \subseteq {Earlier}
      BY <1>1 DEF IInv, Grown
    <2>2. CASE b.kind = "backfill"
      BY <1>4, <2>2
    <2>3. CASE b.kind = "session"
      <3>1. base = refs[c]
        BY <2>3
      <3>2. c \in Hex => refs[c] # {}
        BY <1>4, <1>6, <2>3, RoutingAssumption
      <3> QED
        BY <2>1, <3>1, <3>2 DEF RefSeen
    <2> QED
      BY <1>5, <2>2, <2>3
  <1>8. base \in SUBSET Write /\ refs[c] \subseteq base
    BY <1>1, <1>5 DEF IInv, TypeOK, RefSeen
  <1>9. base # refs[c] => base = remote[c] /\ refs[c] = {}
    BY DEF RefSeen
  <1>10. refs' \in [Checkpoint -> SUBSET Write] /\ imported' \in [Checkpoint -> SUBSET SUBSET Write]
    BY <1>1, <1>4, <1>8 DEF IInv, TypeOK, ImportedElsewhere
  <1>11. /\ refs'[c] = base \cup {b.write}
         /\ RefSeen(refs', c) = base \cup {b.write}
         /\ \A d \in Checkpoint : d # c => refs'[d] = refs[d] /\ RefSeen(refs', d) = RefSeen(refs, d)
    BY <1>1, <1>4 DEF IInv, TypeOK, RefSeen
  <1>12. Keeps
    <2>1. \A q \in Store, n \in Write \ {Earlier} :
            n \in Found(branch, refs, q, c) => n \in Found(branch', refs', q, c)
      BY <1>1, <1>4, <1>7, <1>11 DEF Found
    <2>2. RefSeen(refs, c) = {} => \A v \in Worker : Running(v) /\ worker[v].checkpoint = c => worker[v].at # "fallback"
      BY <1>7 DEF IInv, Routed, OnRoute
    <2>3. /\ remote' = remote /\ lagging' = lagging /\ branch' = branch
          /\ \A d \in Checkpoint : refs[d] \subseteq refs'[d]
      BY <1>4, <1>8, <1>11
    <2>4. ASSUME NEW d \in Checkpoint, d # c
          PROVE  /\ RefSeen(refs', d) = RefSeen(refs, d)
                 /\ \A q \in Store : Found(branch', refs', q, d) = Found(branch, refs, q, d)
      BY <1>11, <2>3, <2>4 DEF Found
    <2> QED
      BY <2>1, <2>2, <2>3, <2>4 DEF Keeps
  <1>13. Grown' /\ ImportsAreHeld'
    <2>1. \A d \in Checkpoint : imported'[d] = imported[d] \/ (d = c /\ imported'[d] = ImportedElsewhere(c) /\ base = remote[c])
      BY <1>1, <1>4, <1>9 DEF IInv, TypeOK
    <2>2. Grown'
      BY <1>4, <2>1 DEF IInv, Grown, ImportedElsewhere
    <2>3. ImportsAreHeld'
      BY <1>8, <1>11, <2>1 DEF IInv, ImportsAreHeld, ImportedElsewhere
    <2> QED
      BY <2>2, <2>3
  <1>14. UlidsAreInRefs'
    BY <1>4, <1>8, <1>11 DEF IInv, UlidsAreInRefs
  <1>15. TypeOK'
    BY <1>3, <1>4, <1>10 DEF IInv, TypeOK
  <1>16. /\ log[b.write].checkpoint = c /\ log[b.write].kind = b.kind
         /\ log[b.write].primary = p /\ b.write \in 1..Len(log) /\ ~log[b.write].acked
    BY <1>1 DEF IInv, Logged
  <1>17. Settled(b.write)
    <2>1. b.write \in Found(branch', refs', p, c)
      BY <1>4, <1>6, <1>11 DEF Found
    <2>2. b.kind = "session" => (Home(c) = "branch" /\ b.write \in branch'[c]) \/ (Home(c) = "refs" /\ b.write \in refs'[c])
      BY <1>4, <1>6, <1>11, RoutingAssumption DEF Home
    <2> QED
      BY <1>16, <2>1, <2>2 DEF Settled
  <1>18. Progress(b.write)
    BY <1>3, <1>4, <1>17 DEF Progress
  <1>19. step # "idle" => OnRoute(w)'
    <2>1. step # "idle" => step = "mirror" /\ b.at = "primary"
      BY <1>1, <1>4, <1>6 DEF Follow, OnRoute
    <2>2. b.at = "primary" => ~b.seen
      BY <1>1 DEF OnRoute
    <2> QED
      BY <1>2, <1>3, <1>4, <1>6, <1>11, <2>1, <2>2 DEF OnRoute, RefSeen
  <1>20. \A d \in Checkpoint : branch'[d] \subseteq branch[d] \cup {b.write}
    BY <1>4
  <1> QED
    BY <1>1, <1>3, <1>12, <1>13, <1>14, <1>15, <1>16, <1>18, <1>19, <1>20, WorkerSteps

LEMMA MirrorsKeeps == ASSUME IInv, NEW w \in Worker, Mirrors(w) PROVE IInv'
  <1> DEFINE b == worker[w]
             c == b.checkpoint
             p == b.config.primary
  <1>1. Running(w) /\ b \in Busy /\ OnRoute(w) /\ c \in Checkpoint /\ b.write \in Write
        /\ b.at = "mirror" /\ (p = "branch" \/ p = "refs")
    BY BusyFields DEF Mirrors, IInv, Routed, Busy, Config, Running
  <1>2. GoesOn(w, "idle")
    BY DEF Mirrors
  <1>3. /\ worker' \in [Worker -> Busy \cup {Idle}]
        /\ log' \in Seq(Entry) /\ Len(log') = Len(log)
        /\ \A v \in Worker : v # w => worker'[v] = worker[v]
        /\ worker'[w] = Idle
        /\ \A n \in 1..Len(log) :
              /\ log'[n].checkpoint = log[n].checkpoint
              /\ log'[n].kind = log[n].kind
              /\ log'[n].primary = log[n].primary
              /\ n # b.write => log'[n] = log[n]
    BY <1>1, <1>2, GoesOnFacts DEF IInv
  <1>4. UNCHANGED <<config, remote, imported, migrator, switches, migrations>>
    BY DEF Mirrors
  <1>5. /\ log[b.write].checkpoint = c /\ log[b.write].kind = b.kind
        /\ log[b.write].primary = p /\ b.write \in 1..Len(log) /\ ~log[b.write].acked
    BY <1>1 DEF IInv, Logged
  <1>6. CASE p = "refs"
    <2>1. /\ branch' = [branch EXCEPT ![c] = @ \cup {b.write}]
          /\ UNCHANGED <<refs, lagging>>
      BY <1>1, <1>6 DEF Mirrors, Target, Other, Extended
    <2>2. /\ Keeps /\ Grown' /\ ImportsAreHeld'
          /\ branch' \in [Checkpoint -> SUBSET Write]
          /\ b.write \in branch'[c]
          /\ \A d \in Checkpoint :
                /\ branch'[d] \subseteq branch[d] \cup {b.write}
                /\ d # c => branch'[d] = branch[d]
      BY <1>1, <1>4, <2>1, BranchGains
    <2>3. TypeOK'
      BY <1>3, <1>4, <2>1, <2>2 DEF IInv, TypeOK
    <2>4. b.write \in refs'[c] \/ <<c, b.write>> \in lagging'
      BY <1>1, <1>6, <2>1 DEF OnRoute
    <2>5. UlidsAreInRefs'
      BY <2>1, <2>2, <2>4 DEF IInv, UlidsAreInRefs
    <2>6. Settled(b.write)
      BY <1>1, <2>2, AfterPrimary
    <2>7. b.write \in Found(branch', refs', "refs", c) \/ <<c, b.write>> \in lagging'
      BY <2>4 DEF Found, RefSeen
    <2>8. Progress(b.write)
      BY <1>3, <1>5, <2>2, <2>6, <2>7 DEF Progress
    <2> QED
      BY <1>1, <1>3, <2>2, <2>3, <2>5, <2>8, WorkerSteps
  <1>7. CASE p = "branch"
    <2> DEFINE held == refs[c] \cup {b.write}
    <2>1. /\ refs' = [refs EXCEPT ![c] = held]
          /\ lagging' = lagging \cup Overlooked(refs', c)
          /\ branch' = branch
      BY <1>1, <1>7 DEF Mirrors, Target, Other, Extended
    <2>2. held \in SUBSET Write /\ held # {}
      BY <1>1 DEF IInv, TypeOK
    <2>3. Keeps /\ lagging' \in SUBSET (Checkpoint \X Write)
      BY <1>1, <1>4, <2>1, <2>2, OverlookedKeeps
    <2>4. TypeOK'
      BY <1>1, <1>3, <1>4, <2>1, <2>2, <2>3 DEF IInv, TypeOK
    <2>5. \A d \in Checkpoint : refs[d] \subseteq refs'[d]
      BY <1>1, <2>1 DEF IInv, TypeOK
    <2>6. Grown' /\ ImportsAreHeld'
      BY <1>4, <2>1, <2>5 DEF IInv, Grown, ImportsAreHeld
    <2>7. UlidsAreInRefs'
      BY <2>1, <2>3, <2>5 DEF IInv, UlidsAreInRefs, Keeps
    <2>8. Settled(b.write)
      BY <1>1, <2>3, AfterPrimary
    <2>9. Progress(b.write)
      BY <1>3, <2>1, <2>8 DEF Progress
    <2> QED
      BY <1>1, <1>3, <2>1, <2>3, <2>4, <2>6, <2>7, <2>9, WorkerSteps
  <1> QED
    BY <1>1, <1>6, <1>7

(* A new write is in no store, and its worker starts on its route. *)
LEMMA OpensKeeps ==
  ASSUME IInv, NEW w \in Worker, NEW c \in Checkpoint, NEW kind \in Kind, Opens(w, c, kind)
  PROVE  IInv'
  <1> DEFINE n == Len(log) + 1
             entry == [checkpoint |-> c, kind |-> kind, primary |-> config.primary, acked |-> FALSE]
             b == [at |-> Route(config, c, kind), config |-> config, checkpoint |-> c,
                   kind |-> kind, write |-> n, seen |-> FALSE]
  <1>1. /\ Len(log) \in Nat /\ Len(log) < MaxWrites /\ log \in Seq(Entry)
        /\ entry \in Entry /\ log' = Append(log, entry)
    BY DEF Opens, IInv, TypeOK, Entry, Config
  <1>2. /\ log' \in Seq(Entry) /\ Len(log') = n
        /\ log'[n] = entry
        /\ \A i \in 1..Len(log) : log'[i] = log[i]
    BY <1>1
  <1>3. /\ config \in Config
        /\ config.primary \in Store
        /\ Route(config, c, kind) \in {"primary", "probe", "home"}
    BY DEF IInv, TypeOK, Config, Route, Kind
  <1>4. b \in Busy /\ b # Idle
    BY <1>1, <1>3, RoutingAssumption DEF Busy, Write, Earlier, Idle
  <1>5. worker' = [worker EXCEPT ![w] = b]
    BY DEF Opens
  <1>6. /\ worker'[w] = b
        /\ \A v \in Worker : v # w => worker'[v] = worker[v]
    BY <1>5 DEF IInv, TypeOK
  <1>7. UNCHANGED <<config, branch, refs, remote, imported, migrator, lagging, switches, migrations>>
    BY DEF Opens
  <1>8. TypeOK'
    <2>1. worker' \in [Worker -> Busy \cup {Idle}]
      BY <1>4, <1>5 DEF IInv, TypeOK
    <2>2. Len(log') <= MaxWrites
      BY <1>1, <1>2, RoutingAssumption
    <2> QED
      BY <1>2, <1>7, <2>1, <2>2 DEF IInv, TypeOK
  <1>9. Keeps /\ Grown' /\ UlidsAreInRefs' /\ ImportsAreHeld'
    BY <1>7, Unstored
  <1>10. Logged'
    <2>1. ASSUME NEW v \in Worker, worker'[v] # Idle
          PROVE  /\ worker'[v].write \in 1..n
                 /\ log'[worker'[v].write].checkpoint = worker'[v].checkpoint
                 /\ log'[worker'[v].write].kind = worker'[v].kind
                 /\ log'[worker'[v].write].primary = worker'[v].config.primary
                 /\ ~log'[worker'[v].write].acked
                 /\ v # w => worker'[v].write \in 1..Len(log)
      <3>1. CASE v = w
        BY <1>1, <1>2, <1>6, <3>1
      <3>2. CASE v # w
        BY <1>1, <1>2, <1>6, <2>1, <3>2 DEF IInv, Logged, Running
      <3> QED
        BY <3>1, <3>2
    <2>2. ASSUME NEW u \in Worker, NEW v \in Worker, worker'[u] # Idle, worker'[v] # Idle, u # v
          PROVE  worker'[u].write # worker'[v].write
      <3>1. CASE u # w /\ v # w
        BY <1>6, <2>2, <3>1 DEF IInv, Logged, Running
      <3>2. CASE u = w
        BY <1>1, <1>6, <2>1, <2>2, <3>2
      <3>3. CASE v = w
        BY <1>1, <1>6, <2>1, <2>2, <3>3
      <3> QED
        BY <3>1, <3>2, <3>3
    <2>3. \A d \in Checkpoint : branch'[d] \subseteq 0..n
      BY <1>1, <1>7 DEF IInv, Logged
    <2> QED
      BY <1>2, <2>1, <2>2, <2>3 DEF Logged, Running
  <1>11. OnRoute(w)'
    <2>1. /\ worker'[w].at = Route(config, c, kind) /\ worker'[w].config = config
          /\ worker'[w].checkpoint = c /\ worker'[w].kind = kind /\ worker'[w].seen = FALSE
      BY <1>6
    <2>2. config.primary \in {"branch", "refs"} /\ kind \in {"session", "backfill"}
      BY <1>3 DEF Kind
    <2>3. /\ Route(config, c, kind) = "primary" /\ config.primary = "branch" => c \in Hex
          /\ Route(config, c, kind) = "primary" /\ config.primary = "refs" /\ kind = "session" => c \in Ulid
          /\ Route(config, c, kind) = "probe" => c \in Hex /\ config.primary = "refs" /\ kind = "session"
          /\ Route(config, c, kind) = "home" /\ c \in Hex => config.primary = "refs" /\ kind = "session"
      BY <2>2, RoutingAssumption DEF Route, ReadOrder, Home
    <2> QED
      BY <1>3, <1>7, <2>1, <2>3 DEF OnRoute
  <1>12. Routed'
    <2>1. ASSUME NEW v \in Worker, worker'[v] # Idle PROVE OnRoute(v)'
      <3>1. CASE v = w
        BY <1>11, <3>1
      <3>2. CASE v # w
        BY <1>6, <1>7, <1>9, <2>1, <3>2, RouteKept DEF Running
      <3> QED
        BY <3>1, <3>2
    <2> QED
      BY <2>1 DEF Routed, Running
  <1>13. DOMAIN log = 1..Len(log) /\ DOMAIN log' = 1..n
    BY <1>1, <1>2
  <1>14. \A i \in 1..n : i \in 1..Len(log) \/ (i = n /\ log'[i] = entry)
    BY <1>1, <1>2
  <1>15. \A q \in Store, d \in Checkpoint :
           /\ Resolved(q, d) = Found(branch, refs, q, d)
           /\ Resolved(q, d)' = Found(branch, refs, q, d)
    BY <1>7, ResolvedIsFound
  <1>16. ASSUME NEW i \in 1..n, i # n
         PROVE  /\ i \in 1..Len(log) /\ log'[i] = log[i]
                /\ log[i].checkpoint \in Checkpoint /\ log[i].primary \in Store
    <2>1. i \in 1..Len(log)
      BY <1>14, <1>16
    <2> QED
      BY <1>2, <2>1, LogEntries DEF IInv
  <1>17. ~log'[n].acked /\ log'[n].checkpoint = c
    BY <1>2
  <1>18. ReadersFindIt'
    <2>1. ASSUME NEW i \in 1..n, log'[i].acked, <<log'[i].checkpoint, i>> \notin lagging'
          PROVE  /\ log'[i].primary \in Store /\ log'[i].checkpoint \in Checkpoint
                 /\ i \in Found(branch, refs, log'[i].primary, log'[i].checkpoint)
      <3>1. i # n
        BY <1>17, <2>1
      <3>2. i \in Resolved(log[i].primary, log[i].checkpoint)
        BY <1>7, <1>13, <1>16, <2>1, <3>1 DEF IInv, ReadersFindIt, Acked
      <3> QED
        BY <1>15, <1>16, <3>1, <3>2
    <2> QED
      BY <1>13, <1>15, <2>1 DEF ReadersFindIt, Acked
  <1>19. SessionsStayTogether'
    <2>1. ASSUME NEW i \in 1..n, log'[i].acked, log'[i].kind = "session"
          PROVE  \/ Home(log'[i].checkpoint) = "branch" /\ i \in branch[log'[i].checkpoint]
                 \/ /\ Home(log'[i].checkpoint) = "refs"
                    /\ i \in refs[log'[i].checkpoint] \/ <<log'[i].checkpoint, i>> \in lagging
      <3>1. i # n
        BY <1>17, <2>1
      <3> QED
        BY <1>13, <1>16, <2>1, <3>1 DEF IInv, SessionsStayTogether, Acked
    <2> QED
      BY <1>7, <1>13, <2>1 DEF SessionsStayTogether, Acked, Home
  <1>20. BackfillsDoNotFork'
    <2>1. ASSUME NEW i \in 1..n, log'[i].kind = "backfill", log'[i].primary = "refs",
                 i \in branch[log'[i].checkpoint]
          PROVE  i \in Found(branch, refs, "refs", log'[i].checkpoint)
                   \/ <<log'[i].checkpoint, i>> \in lagging
      <3>1. n \notin branch[c]
        BY <1>1 DEF IInv, Logged
      <3>2. i # n
        BY <1>17, <2>1, <3>1
      <3>3. i \in Resolved("refs", log[i].checkpoint) \/ <<log[i].checkpoint, i>> \in lagging
        BY <1>13, <1>16, <2>1, <3>2 DEF IInv, BackfillsDoNotFork
      <3> QED
        BY <1>15, <1>16, <3>2, <3>3
    <2>2. \A i \in 1..n : log'[i].checkpoint \in Checkpoint
      BY <1>16, <1>17
    <2> QED
      BY <1>7, <1>13, <1>15, <2>1, <2>2 DEF BackfillsDoNotFork
  <1> QED
    BY <1>8, <1>9, <1>10, <1>12, <1>18, <1>19, <1>20 DEF IInv

-----------------------------------------------------------------------------
LEMMA StepKeeps == IInv /\ [Next]_vars => IInv'
  <1> SUFFICES ASSUME IInv, [Next]_vars PROVE IInv'
    OBVIOUS
  <1>1. CASE UNCHANGED vars
    <2>1. UNCHANGED <<branch, refs, remote, imported, lagging, migrator, worker, log, config, switches, migrations>>
      BY <1>1 DEF vars
    <2>2. TypeOK'
      BY <2>1 DEF IInv, TypeOK
    <2> QED
      BY <2>1, <2>2, Unstored, WorkersRest
  <1>2. ASSUME NEW new \in Config, Configures(new) PROVE IInv'
    BY <1>2, ConfiguresKeeps
  <1>3. ASSUME NEW c \in Checkpoint, Fetches(c) PROVE IInv'
    BY <1>3, FetchesKeeps
  <1>4. ASSUME NEW w \in Worker, NEW c \in Checkpoint, NEW kind \in Kind, Opens(w, c, kind) PROVE IInv'
    BY <1>4, OpensKeeps
  <1>5. ASSUME NEW w \in Worker, WritesBranch(w) PROVE IInv'
    BY <1>5, WritesBranchKeeps
  <1>6. ASSUME NEW w \in Worker, WritesRefs(w) PROVE IInv'
    BY <1>6, WritesRefsKeeps
  <1>7. ASSUME NEW w \in Worker, Mirrors(w) PROVE IInv'
    BY <1>7, MirrorsKeeps
  <1>8. ASSUME NEW w \in Worker, MirrorFails(w) PROVE IInv'
    BY <1>8, MirrorFailsKeeps
  <1>9. ASSUME NEW w \in Worker, Probes(w) PROVE IInv'
    BY <1>9, ProbesKeeps
  <1>10. ASSUME NEW w \in Worker, ProbeFails(w) PROVE IInv'
    BY <1>10, ProbeFailsKeeps
  <1>11. ASSUME NEW w \in Worker, FallsThrough(w) PROVE IInv'
    BY <1>11, FallsThroughKeeps
  <1>12. ASSUME NEW w \in Worker, Fails(w) PROVE IInv'
    BY <1>12, FailsKeeps
  <1>13. ASSUME NEW c \in Checkpoint, Imports(c) PROVE IInv'
    BY <1>13, ImportsKeeps
  <1> QED
    BY <1>1, <1>2, <1>3, <1>4, <1>5, <1>6, <1>7, <1>8, <1>9, <1>10, <1>11, <1>12, <1>13,
       MigrateStartsKeeps, MigrateStopsKeeps DEF Next

LEMMA Always == Spec => []IInv
  BY InitInv, StepKeeps, PTL DEF Spec

(* Every variable keeps its type. *)
THEOREM TypeCorrect == Spec => []TypeOK
  <1>1. IInv => TypeOK
    BY DEF IInv
  <1> QED
    BY <1>1, Always, PTL

(* A write reported done stays where readers with the same primary look for  *)
(* it, whatever processes, settings and migrations do: only an import, a     *)
(* mirror or a probe that misses the ref can make it lag.                   *)
THEOREM ReadersFindItCorrect == Spec => []ReadersFindIt
  <1>1. IInv => ReadersFindIt
    BY DEF IInv
  <1> QED
    BY <1>1, Always, PTL

(* The sessions of a checkpoint stay together in the store its ID names. *)
THEOREM SessionsStayTogetherCorrect == Spec => []SessionsStayTogether
  <1>1. IInv => SessionsStayTogether
    BY DEF IInv
  <1> QED
    BY <1>1, Always, PTL

(* What the branch holds of a ULID checkpoint its ref holds. *)
THEOREM UlidsAreInRefsCorrect == Spec => []UlidsAreInRefs
  <1>1. IInv => UlidsAreInRefs
    BY DEF IInv
  <1> QED
    BY <1>1, Always, PTL

(* A ref holds every tree that was imported into it, so skipping a tree its *)
(* history has loses nothing.                                               *)
THEOREM ImportsAreHeldCorrect == Spec => []ImportsAreHeld
  <1>1. IInv => ImportsAreHeld
    BY DEF IInv
  <1> QED
    BY <1>1, Always, PTL

(* No backfill is on the branch behind a ref that lacks it. *)
THEOREM BackfillsDoNotForkCorrect == Spec => []BackfillsDoNotFork
  <1>1. IInv => BackfillsDoNotFork
    BY DEF IInv
  <1> QED
    BY <1>1, Always, PTL
=============================================================================
