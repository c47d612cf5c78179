------------------------ MODULE CheckpointSyncProofs ------------------------
(***************************************************************************)
(* Proofs about CheckpointSync, for any number of clones, sessions,        *)
(* writers, hooks and readers and histories of any length.                 *)
(***************************************************************************)
EXTENDS CheckpointSync, FiniteSetTheorems, SequenceTheorems, TLAPS

-----------------------------------------------------------------------------
(* Histories. *)

(* A fast-forward keeps every write. *)
LEMMA PrefixKeepsWrites ==
  ASSUME NEW g \in Seq(Commit), NEW h \in Seq(Commit), IsPrefix(g, h)
  PROVE  WritesIn(g) \subseteq WritesIn(h)
<1>1. ASSUME NEW i \in DOMAIN g PROVE i \in DOMAIN h /\ g[i] = h[i]
  <2>1. /\ i \in 1..Len(g) /\ Len(g) \in Nat /\ Len(h) \in Nat /\ Len(g) <= Len(h)
        /\ SubSeq(g, 1, Len(g)) = SubSeq(h, 1, Len(g))
    BY <1>1 DEF IsPrefix
  <2>2. SubSeq(g, 1, Len(g))[i] = g[i] /\ SubSeq(h, 1, Len(g))[i] = h[i]
    BY <2>1
  <2> QED
    BY <2>1, <2>2
<1> QED
  BY <1>1 DEF WritesIn, ToSet

LEMMA WritesOfAppend ==
  ASSUME NEW g \in Seq(Commit), NEW c \in Commit
  PROVE  WritesIn(Append(g, c)) = WritesIn(g) \cup {c.write}
<1>1. DOMAIN Append(g, c) = DOMAIN g \cup {Len(g) + 1}
  OBVIOUS
<1>2. \A i \in DOMAIN g : Append(g, c)[i] = g[i]
  OBVIOUS
<1>3. Append(g, c)[Len(g) + 1] = c
  OBVIOUS
<1>4. ToSet(Append(g, c)) = ToSet(g) \cup {c}
  BY <1>1, <1>2, <1>3 DEF ToSet
<1> QED
  BY <1>4 DEF WritesIn

LEMMA WritesOfConcat ==
  ASSUME NEW g \in Seq(Commit), NEW h \in Seq(Commit)
  PROVE  WritesIn(g \o h) = WritesIn(g) \cup WritesIn(h)
<1>1. /\ Len(g \o h) = Len(g) + Len(h)
      /\ \A i \in 1..Len(g) : (g \o h)[i] = g[i]
      /\ \A j \in 1..Len(h) : (g \o h)[Len(g) + j] = h[j]
  OBVIOUS
<1>2. ASSUME NEW x, x \in ToSet(g \o h) PROVE x \in ToSet(g) \cup ToSet(h)
  <2>1. PICK i \in 1..(Len(g) + Len(h)) : x = (g \o h)[i]
    BY <1>1, <1>2 DEF ToSet
  <2>2. CASE i <= Len(g)
    BY <2>1, <2>2, <1>1 DEF ToSet
  <2>3. CASE i > Len(g)
    <3>1. i - Len(g) \in 1..Len(h) /\ i = Len(g) + (i - Len(g))
      BY <2>3
    <3>2. x = h[i - Len(g)]
      BY <3>1, <2>1, <1>1
    <3> QED
      BY <3>1, <3>2 DEF ToSet
  <2> QED
    BY <2>2, <2>3
<1>3. ToSet(g) \subseteq ToSet(g \o h)
  BY <1>1 DEF ToSet
<1>4. ASSUME NEW j \in DOMAIN h PROVE h[j] \in ToSet(g \o h)
  <2>1. Len(g) + j \in DOMAIN (g \o h) /\ h[j] = (g \o h)[Len(g) + j]
    BY <1>1
  <2> QED
    BY <2>1 DEF ToSet
<1>5. ToSet(g \o h) = ToSet(g) \cup ToSet(h)
  BY <1>2, <1>3, <1>4 DEF ToSet
<1> QED
  BY <1>5 DEF WritesIn

(* The commits in common are the first MergeBase(mine, theirs) of mine, and
   no more. *)
LEMMA MergeBaseIsCommon ==
  ASSUME NEW mine \in Seq(Commit), NEW theirs \in Seq(Commit)
  PROVE  /\ MergeBase(mine, theirs) \in 0..Len(mine)
         /\ \A i \in 1..MergeBase(mine, theirs) : i \in 1..Len(theirs) /\ mine[i] = theirs[i]
         /\ \A k \in 1..Len(mine) :
              IsPrefix(SubSeq(mine, 1, k), theirs) => k <= MergeBase(mine, theirs)
<1> DEFINE K == {k \in 1..Len(mine) : IsPrefix(SubSeq(mine, 1, k), theirs)}
           n == Cardinality(K)
<1>1. /\ IsFiniteSet(1..Len(mine)) /\ Cardinality(1..Len(mine)) = Len(mine)
      /\ K \in SUBSET (1..Len(mine))
  BY FS_Interval
<1>2. IsFiniteSet(K) /\ n \in 0..Len(mine)
  BY <1>1, FS_Subset, FS_CardinalityType
<1>3. ASSUME NEW k \in K, NEW i \in 1..k PROVE i \in 1..Len(theirs) /\ mine[i] = theirs[i]
  <2>1. k \in 1..Len(mine) /\ Len(SubSeq(mine, 1, k)) = k
    OBVIOUS
  <2>2. k <= Len(theirs) /\ SubSeq(SubSeq(mine, 1, k), 1, k) = SubSeq(theirs, 1, k)
    BY <2>1 DEF IsPrefix
  <2>3. /\ SubSeq(mine, 1, k) \in Seq(Commit)
        /\ SubSeq(SubSeq(mine, 1, k), 1, k)[i] = SubSeq(mine, 1, k)[i]
        /\ SubSeq(mine, 1, k)[i] = mine[i]
        /\ SubSeq(theirs, 1, k)[i] = theirs[i]
    BY <2>1, <2>2
  <2> QED
    BY <2>1, <2>2, <2>3
<1>4. ASSUME NEW k \in K, NEW j \in 1..k PROVE j \in K
  <2>1. j \in 1..Len(mine) /\ Len(SubSeq(mine, 1, j)) = j /\ j <= Len(theirs)
    BY <1>3
  <2>2. SubSeq(SubSeq(mine, 1, j), 1, j) = SubSeq(theirs, 1, j)
    <3>1. \A i \in 1..j : mine[i] = theirs[i]
      BY <1>3
    <3> QED
      BY <2>1, <3>1
  <2> QED
    BY <2>1, <2>2 DEF IsPrefix
<1>5. ASSUME NEW k \in K PROVE k <= n
  <2>1. 1..k \in SUBSET K
    BY <1>4
  <2>2. Cardinality(1..k) = k
    BY FS_Interval
  <2> QED
    BY <2>1, <2>2, <1>2, FS_Subset
<1>6. K = 1..n
  <2>1. K \in SUBSET (1..n)
    BY <1>5, <1>2
  <2>2. IsFiniteSet(1..n) /\ Cardinality(1..n) = n
    BY <1>2, FS_Interval
  <2> QED
    BY <2>1, <2>2, FS_Subset
<1>7. \A i \in 1..n : i \in 1..Len(theirs) /\ mine[i] = theirs[i]
  BY <1>3, <1>6, <1>2
<1> QED
  BY <1>2, <1>5, <1>7 DEF MergeBase

(* A replay keeps what either side had. *)
LEMMA ReplayKeepsWrites ==
  ASSUME NEW mine \in Seq(Commit), NEW theirs \in Seq(Commit)
  PROVE  /\ Replay(mine, theirs) \in Seq(Commit)
         /\ WritesIn(Replay(mine, theirs)) = WritesIn(mine) \cup WritesIn(theirs)
<1> DEFINE n == MergeBase(mine, theirs)
<1>1. n \in 0..Len(mine) /\ \A i \in 1..n : i \in 1..Len(theirs) /\ mine[i] = theirs[i]
  BY MergeBaseIsCommon
<1> HIDE DEF n
<1> DEFINE above == SubSeq(mine, n + 1, Len(mine))
<1>2. /\ above \in Seq(Commit)
      /\ Len(above) = Len(mine) - n
      /\ \A j \in 1..Len(above) : above[j] = mine[n + j]
  BY SMTT(40), ZenonT(40), <1>1
<1>3. WritesIn(above) \subseteq WritesIn(mine)
  <2>1. \A j \in 1..Len(above) : n + j \in 1..Len(mine)
    BY <1>1, <1>2
  <2> QED
    BY <2>1, <1>2 DEF WritesIn, ToSet
<1>4. ASSUME NEW i \in 1..Len(mine) PROVE mine[i].write \in WritesIn(theirs) \cup WritesIn(above)
  <2>1. CASE i <= n
    BY <2>1, <1>1 DEF WritesIn, ToSet
  <2>2. CASE i > n
    <3>1. i - n \in 1..Len(above) /\ above[i - n] = mine[i]
      BY <2>2, <1>1, <1>2
    <3> HIDE DEF above
    <3> QED
      BY <3>1, <1>2 DEF WritesIn, ToSet
  <2> QED
    BY <2>1, <2>2, <1>1
<1>5. WritesIn(mine) \subseteq WritesIn(theirs) \cup WritesIn(above)
  <2>1. \A x \in WritesIn(mine) : \E i \in 1..Len(mine) : x = mine[i].write
    BY DEF WritesIn, ToSet
  <2> QED
    BY <1>4, <2>1
<1>6. Replay(mine, theirs) = theirs \o above
  BY DEF Replay, Above, n
<1> HIDE DEF above
<1>7. theirs \o above \in Seq(Commit)
  BY <1>2
<1>8. WritesIn(theirs \o above) = WritesIn(theirs) \cup WritesIn(above)
  BY <1>2, WritesOfConcat
<1> QED
  BY <1>3, <1>5, <1>6, <1>7, <1>8

(* The commit a writer builds is one. *)
LEMMA CommitOnIsCommit ==
  ASSUME NEW h \in Seq(Commit), NEW s \in Session,
         written \in SUBSET Write, IsFiniteSet(written)
  PROVE  CommitOn(h, s) \in Commit /\ CommitOn(h, s).write = <<s, Revision(s)>>
<1>1. Slots(h) \subseteq Nat
  <2>1. \A i \in DOMAIN h : h[i] \in Commit
    OBVIOUS
  <2>2. \A c \in Commit : c.slot \in Nat
    BY DEF Commit
  <2> QED
    BY <2>1, <2>2 DEF Slots, ToSet
<1>2. Listed(h) \in Nat
  <2>1. CASE h = <<>>
    BY <2>1 DEF Listed
  <2>2. CASE h # <<>>
    <3>1. h[Len(h)] \in Commit
      BY <2>2
    <3> QED
      BY <3>1, <2>2 DEF Listed, Last, Commit
  <2> QED
    BY <2>1, <2>2
<1>3. SlotFor(h, s) \in Nat
  <2>1. CASE Readable(h, s)
    <3>1. OwnSlot(h, s) \in Slots(h)
      BY <2>1 DEF Readable, OwnSlot
    <3> QED
      BY <3>1, <1>1, <2>1 DEF SlotFor
  <2> QED
    BY <2>1, <1>2 DEF SlotFor
<1>4. Revision(s) \in Nat \ {0}
  <2>1. {x \in written : x[1] = s} \in SUBSET written
    OBVIOUS
  <2>2. Cardinality({x \in written : x[1] = s}) \in Nat
    BY <2>1, FS_Subset, FS_CardinalityType
  <2> QED
    BY <2>2 DEF Revision
<1>5. <<s, Revision(s)>> \in Write
  BY <1>4 DEF Write
<1> QED
  BY <1>2, <1>3, <1>5 DEF CommitOn, Commit

(* What can be read off a history of commits. *)
LEMMA WritesAreWrites ==
  ASSUME NEW h \in Seq(Commit)
  PROVE  WritesIn(h) \subseteq Write
<1>1. \A i \in DOMAIN h : h[i] \in Commit
  OBVIOUS
<1>2. \A c \in Commit : c.write \in Write
  BY DEF Commit
<1> QED
  BY <1>1, <1>2 DEF WritesIn, ToSet

LEMMA AboveIsHistory ==
  ASSUME NEW mine \in Seq(Commit), NEW theirs \in Seq(Commit)
  PROVE  Above(mine, theirs) \in Seq(Commit)
<1>1. MergeBase(mine, theirs) \in Nat /\ MergeBase(mine, theirs) <= Len(mine)
  BY MergeBaseIsCommon
<1> QED
  BY <1>1 DEF Above

LEMMA WritesOfNothing == WritesIn(<<>>) = {}
BY DEF WritesIn, ToSet

-----------------------------------------------------------------------------
(* The type invariant. *)

LEMMA StatesAfterFailure ==
  \A p \in Pushing : AfterFailure[p] \subseteq {"single", "fetch", "idle"}
<1>1. /\ AfterFailure["batch"] = {"single", "idle"}
      /\ AfterFailure["single"] = {"fetch", "idle"}
      /\ AfterFailure["retry"] = {"idle"}
  BY DEF AfterFailure
<1> QED
  BY <1>1 DEF Pushing

LEMMA InitTypeOK == Init => TypeOK
<1> SUFFICES ASSUME Init PROVE TypeOK
  OBVIOUS
<1>1. IsFiniteSet(written)
  BY FS_EmptySet DEF Init
<1> QED
  BY <1>1 DEF Init, TypeOK, Pushing

LEMMA NextTypeOK == TypeOK /\ [Next]_vars => TypeOK'
<1> SUFFICES ASSUME TypeOK, [Next]_vars PROVE TypeOK'
  OBVIOUS
<1> USE CloneAssumption
<1>1. ASSUME NEW w \in Writer, NEW s \in Session, StartWrite(w, s) PROVE TypeOK'
  BY <1>1 DEF TypeOK, StartWrite, refs, flushers, history, queueing, Pushing
<1>2. ASSUME NEW w \in Writer, Build(w) PROVE TypeOK'
  BY <1>2 DEF TypeOK, Build, refs, flushers, history, queueing, Pushing
<1>3. ASSUME NEW w \in Writer, CasWins(w) PROVE TypeOK'
  <2> DEFINE s == subject[w]
             commit == CommitOn(base[w], s)
             x == <<s, Revision(s)>>
  <2>1. s \in Session /\ base[w] \in Seq(Commit) /\ CloneOf[w] \in Clone
    BY DEF TypeOK
  <2>2. commit \in Commit /\ commit.write = x
    BY <2>1, CommitOnIsCommit DEF TypeOK
  <2>3. x \in Write
    BY <2>2 DEF Commit
  <2>4. IsFiniteSet(written \cup {x})
    BY FS_AddElement DEF TypeOK
  <2>5. written' = written \cup {x} /\ local' = [local EXCEPT ![CloneOf[w]] = Append(base[w], commit)]
    BY <1>3 DEF CasWins
  <2> HIDE DEF commit, x
  <2>6. local' \in [Clone -> Seq(Commit)]
    BY <2>1, <2>2, <2>5 DEF TypeOK
  <2>7. written' \in SUBSET Write /\ IsFiniteSet(written')
    BY <2>3, <2>4, <2>5 DEF TypeOK
  <2>8. /\ wpc' = [wpc EXCEPT ![w] = "enqueue"]
        /\ base' = [base EXCEPT ![w] = <<>>]
        /\ wrote' = [wrote EXCEPT ![w] = {x}]
        /\ UNCHANGED <<remote, fetched, queued, subject, fpc, sent, saw, target, rpc,
                       delivered, replayed, missed, dropped, lost>>
    BY <1>3 DEF CasWins, flushers, x
  <2>9. /\ base' \in [Writer -> Seq(Commit)]
        /\ wpc' \in [Writer -> {"idle", "build", "cas", "enqueue"}]
        /\ wrote' \in [Writer -> SUBSET Write]
        /\ \A v \in Writer : wrote'[v] # {} <=> wpc'[v] = "enqueue"
    BY <2>3, <2>8 DEF TypeOK
  <2> QED
    BY <2>6, <2>7, <2>8, <2>9 DEF TypeOK
<1>4. ASSUME NEW w \in Writer, CasLoses(w) PROVE TypeOK'
  BY <1>4 DEF TypeOK, CasLoses, refs, flushers, history, queueing, Pushing
<1>5. ASSUME NEW w \in Writer, Enqueue(w) PROVE TypeOK'
  BY <1>5 DEF TypeOK, Enqueue, flushers, history, queueing, Pushing
<1>6. ASSUME NEW w \in Writer, WriterStops(w) PROVE TypeOK'
  <2>1. missed' \in SUBSET Write
    BY <1>6 DEF TypeOK, WriterStops
  <2> QED
    BY <1>6, <2>1 DEF TypeOK, WriterStops, refs, flushers, Pushing
<1>7. ASSUME NEW f \in Flusher, Drain(f) PROVE TypeOK'
  BY <1>7 DEF TypeOK, Drain, refs, writers, history, queueing, Pushing
<1>8. ASSUME NEW f \in Flusher, PushReads(f) PROVE TypeOK'
  BY <1>8 DEF TypeOK, PushReads, refs, writers, history, queueing, Pushing
<1>9. ASSUME NEW f \in Flusher, PushAccepted(f) PROVE TypeOK'
  <2>1. WritesIn(sent[f]) \subseteq Write
    BY WritesAreWrites DEF TypeOK
  <2> QED
    BY <1>9, <2>1 DEF TypeOK, PushAccepted, writers, queueing, Pushing
<1>10. ASSUME NEW f \in Flusher, PushFails(f) PROVE TypeOK'
  <2>1. PICK next \in {"single", "fetch", "idle"} : fpc' = [fpc EXCEPT ![f] = next]
    BY <1>10, StatesAfterFailure DEF PushFails
  <2>2. remote' \in Seq(Commit)
    BY <1>10 DEF PushFails, TypeOK
  <2> QED
    BY <1>10, <2>1, <2>2 DEF TypeOK, PushFails, writers, history, queueing, Pushing
<1>11. ASSUME NEW f \in Flusher, Fetch(f) PROVE TypeOK'
  BY <1>11 DEF TypeOK, Fetch, writers, history, queueing, Pushing
<1>12. ASSUME NEW f \in Flusher, ReplayLocal(f) PROVE TypeOK'
  <2> DEFINE mine == local[CloneOf[f]]
             theirs == fetched[CloneOf[f]]
  <2>1. mine \in Seq(Commit) /\ theirs \in Seq(Commit)
    BY DEF TypeOK
  <2>2. Replay(mine, theirs) \in Seq(Commit) /\ WritesIn(Above(mine, theirs)) \subseteq Write
    BY <2>1, ReplayKeepsWrites, AboveIsHistory, WritesAreWrites
  <2>3. /\ target' = [target EXCEPT ![f] = Replay(mine, theirs)]
        /\ saw' = [saw EXCEPT ![f] = mine]
        /\ fpc' = [fpc EXCEPT ![f] = "advance"]
        /\ replayed' \in {replayed, replayed \cup WritesIn(Above(mine, theirs))}
        /\ fpc[f] = "read"
        /\ UNCHANGED <<remote, local, fetched, queued, wpc, subject, base, sent, rpc, written,
                       delivered, wrote, missed, dropped, lost>>
    BY <1>12 DEF ReplayLocal, refs, writers, queueing
  <2> HIDE DEF mine, theirs
  <2>4. /\ target' \in [Flusher -> Seq(Commit)] /\ saw' \in [Flusher -> Seq(Commit)]
        /\ replayed' \in SUBSET Write
    BY <2>1, <2>2, <2>3 DEF TypeOK
  <2> QED
    BY <2>3, <2>4 DEF TypeOK, Pushing
<1>13. ASSUME NEW f \in Flusher, Advance(f) PROVE TypeOK'
  <2>1. WritesIn(local[CloneOf[f]]) \subseteq Write
    BY WritesAreWrites DEF TypeOK
  <2>2. lost' \in SUBSET Write
    BY <1>13, <2>1 DEF TypeOK, Advance
  <2> QED
    BY <1>13, <2>2 DEF TypeOK, Advance, writers, queueing, Pushing
<1>14. ASSUME NEW f \in Flusher, Dequeue(f) PROVE TypeOK'
  <2>1. WritesIn(local[CloneOf[f]]) \subseteq Write
    BY WritesAreWrites DEF TypeOK
  <2>2. dropped' \in SUBSET Write
    BY <1>14, <2>1 DEF TypeOK, Dequeue
  <2> QED
    BY <1>14, <2>2 DEF TypeOK, Dequeue, writers, Pushing
<1>15. ASSUME NEW f \in Flusher, FlusherStops(f) PROVE TypeOK'
  BY <1>15 DEF TypeOK, FlusherStops, refs, writers, history, queueing, Pushing
<1>16. ASSUME NEW r \in Reader, MissLocally(r) PROVE TypeOK'
  BY <1>16 DEF TypeOK, MissLocally, refs, writers, flushers, history, queueing, Pushing
<1>17. ASSUME NEW r \in Reader, FetchMissing(r) PROVE TypeOK'
  <2>1. local' \in [Clone -> Seq(Commit)]
    <3>1. \/ local' = local
          \/ local' = [local EXCEPT ![CloneOf[r]] = remote]
      BY <1>17 DEF FetchMissing
    <3>2. local \in [Clone -> Seq(Commit)] /\ remote \in Seq(Commit) /\ CloneOf[r] \in Clone
      BY DEF TypeOK
    <3> QED
      BY <3>1, <3>2
  <2>2. WritesIn(local[CloneOf[r]]) \subseteq Write
    BY WritesAreWrites DEF TypeOK
  <2>3. lost' \in SUBSET Write
    BY <1>17, <2>2 DEF TypeOK, FetchMissing
  <2> QED
    BY <1>17, <2>1, <2>3 DEF TypeOK, FetchMissing, writers, flushers, queueing, Pushing
<1>18. CASE UNCHANGED vars
  BY <1>18 DEF TypeOK, vars, refs, writers, flushers, history, queueing, Pushing
<1> QED
  BY <1>1, <1>2, <1>3, <1>4, <1>5, <1>6, <1>7, <1>8, <1>9, <1>10, <1>11, <1>12,
     <1>13, <1>14, <1>15, <1>16, <1>17, <1>18
     DEF Next, WriterStep, FlusherStep, Quiescent

(* The type invariant: no interleaving builds a history of anything but
   commits, and a hook remembers a tip it read only while it pushes it and a
   replayed tip only until it has set the ref. *)
THEOREM TypeCorrect == Spec => []TypeOK
<1> QED
  BY InitTypeOK, NextTypeOK, PTL DEF Spec

-----------------------------------------------------------------------------
(* What the remote took. *)

(* The remote only ever moves forward. *)
LEMMA RemoteKeepsWrites ==
  ASSUME TypeOK, [Next]_vars
  PROVE  WritesIn(remote) \subseteq WritesIn(remote')
<1>1. ASSUME NEW f \in Flusher, IsPrefix(remote, sent[f]), remote' = sent[f]
      PROVE  WritesIn(remote) \subseteq WritesIn(remote')
  BY <1>1, PrefixKeepsWrites DEF TypeOK
<1>2. \/ UNCHANGED remote
      \/ \E f \in Flusher : IsPrefix(remote, sent[f]) /\ remote' = sent[f]
  BY DEF Next, vars, refs, Quiescent, StartWrite, WriterStep, Build, CasWins, CasLoses,
     Enqueue, WriterStops, Drain, FlusherStep, PushReads, PushAccepted, PushFails, Fetch,
     ReplayLocal, Advance, Dequeue, FlusherStops, MissLocally, FetchMissing
<1> QED
  BY <1>1, <1>2

(* No flush undoes what another flush saw accepted, on whichever clone it
   runs: fast-forward-only pushes and replays that keep the remote's commits
   as ancestors (fetchAndRebaseRefCommon). *)
THEOREM DeliveredStaysCorrect == Spec => []DeliveredStays
<1>1. Init => DeliveredStays
  BY DEF Init, DeliveredStays
<1>2. TypeOK /\ DeliveredStays /\ [Next]_vars => DeliveredStays'
  <2> SUFFICES ASSUME TypeOK, DeliveredStays, [Next]_vars PROVE DeliveredStays'
    OBVIOUS
  <2>1. WritesIn(remote) \subseteq WritesIn(remote')
    BY RemoteKeepsWrites
  <2>2. \/ delivered' = delivered
        \/ \E f \in Flusher : delivered' = delivered \cup WritesIn(sent[f]) /\ remote' = sent[f]
    BY DEF Next, vars, history, queueing, Quiescent, StartWrite, WriterStep, Build, CasWins, CasLoses,
       Enqueue, WriterStops, Drain, FlusherStep, PushReads, PushAccepted, PushFails, Fetch,
       ReplayLocal, Advance, Dequeue, FlusherStops, MissLocally, FetchMissing
  <2> QED
    BY <2>1, <2>2 DEF DeliveredStays
<1> QED
  BY <1>1, <1>2, TypeCorrect, PTL DEF Spec

-----------------------------------------------------------------------------
(* What a clone keeps and what its queue covers, whatever its writers, hooks
   and readers do at the same time. *)

OwnSubjects == \A w \in Writer : HomeOf[subject[w]] = CloneOf[w]

FetchedKnown == \A c \in Clone : WritesIn(fetched[c]) \subseteq WritesIn(remote)

(* What recovery set out to replay is in the ref still, or was overwritten. *)
SawKept ==
  \A f \in Flusher : WritesIn(saw[f]) \subseteq WritesIn(local[CloneOf[f]]) \cup lost

(* The tip it is about to set holds that and the remote's commits. *)
TargetHolds ==
  \A f \in Flusher :
    /\ WritesIn(saw[f]) \subseteq WritesIn(target[f])
    /\ WritesIn(target[f]) \subseteq WritesIn(saw[f]) \cup WritesIn(remote)

SentLanded ==
  \A f \in Flusher : fpc[f] = "remove" => WritesIn(sent[f]) \subseteq WritesIn(remote)

Tips == OwnSubjects /\ FetchedKnown /\ SawKept /\ TargetHolds /\ SentLanded

Kept == Tips /\ LocalKeepsWrites /\ QueueCovers

(* A write is accounted for at c by something other than c's ref. *)
Settled(c, x) ==
  \/ x \in WritesIn(remote)
  \/ queued[c]
  \/ \E w \in Here(Writer, c) : x \in wrote[w]
  \/ x \in missed \cup dropped \cup lost

LEMMA KeptInit == Init => Kept
<1> SUFFICES ASSUME Init PROVE Kept
  OBVIOUS
<1>1. /\ WritesIn(<<>>) = {}
      /\ \A f \in Flusher : CloneOf[f] \in Clone
      /\ written = {} /\ remote = <<>>
      /\ \A c \in Clone : local[c] = <<>> /\ fetched[c] = <<>>
      /\ \A f \in Flusher : fpc[f] = "idle" /\ saw[f] = <<>> /\ target[f] = <<>>
  BY WritesOfNothing, CloneAssumption DEF Init
<1>2. Tips
  BY <1>1 DEF Init, Tips, OwnSubjects, FetchedKnown, SawKept, TargetHolds, SentLanded
<1>3. LocalKeepsWrites /\ QueueCovers
  BY <1>1 DEF LocalKeepsWrites, QueueCovers
<1> QED
  BY <1>2, <1>3 DEF Kept

(* What an unlocked step does to the refs, seen from a write: it stays in the
   clone's ref or is counted as overwritten, and what came into the ref came
   from the remote or from what recovery saw. *)
RefsMove ==
  /\ WritesIn(remote) \subseteq WritesIn(remote')
  /\ lost \subseteq lost'
  /\ \A c \in Clone :
       /\ WritesIn(local[c]) \subseteq WritesIn(local'[c]) \cup lost'
       /\ WritesIn(local'[c]) \subseteq WritesIn(local[c]) \cup WritesIn(remote) \cup lost

(* A step that writes nothing keeps the writes and their cover if it keeps
   each write's cover. *)
LEMMA MovingKeeps ==
  ASSUME TypeOK, Kept, RefsMove, UNCHANGED written, Tips',
         \A c \in Clone : \A x \in WritesIn(local[c]) : Settled(c, x) => Settled(c, x)'
  PROVE  Kept'
<1>1. LocalKeepsWrites'
  <2> SUFFICES ASSUME NEW x \in written, x \notin lost'
               PROVE  x \in WritesIn(local'[HomeOf[x[1]]])
    BY DEF LocalKeepsWrites
  <2>1. HomeOf[x[1]] \in Clone
    BY CloneAssumption DEF TypeOK, Write
  <2>2. x \in WritesIn(local[HomeOf[x[1]]])
    BY DEF Kept, LocalKeepsWrites, RefsMove
  <2> QED
    BY <2>1, <2>2 DEF RefsMove
<1>2. QueueCovers'
  <2> SUFFICES ASSUME NEW c \in Clone, NEW x \in WritesIn(local'[c]) PROVE Settled(c, x)'
    BY DEF QueueCovers, Settled
  <2>1. CASE x \in WritesIn(local[c])
    BY <2>1 DEF Kept, QueueCovers, Settled
  <2>2. CASE x \notin WritesIn(local[c])
    <3>1. x \in WritesIn(remote') \cup lost'
      BY <2>2 DEF RefsMove
    <3> QED
      BY <3>1 DEF Settled
  <2> QED
    BY <2>1, <2>2
<1> QED
  BY <1>1, <1>2 DEF Kept

(* A write lands in its own clone's ref and nowhere else, and the writer has
   yet to queue it. *)
LEMMA CasWinsKeeps ==
  ASSUME TypeOK, Kept, NEW w \in Writer, CasWins(w)
  PROVE  Kept'
<1> DEFINE s == subject[w]
           c == CloneOf[w]
           x == <<s, Revision(s)>>
           commit == CommitOn(base[w], s)
<1>1. /\ c \in Clone /\ s \in Session /\ HomeOf[s] = c
      /\ base[w] \in Seq(Commit) /\ local[c] = base[w]
      /\ wpc[w] = "cas" /\ wrote[w] = {}
  BY CloneAssumption DEF Kept, Tips, TypeOK, OwnSubjects, CasWins
<1>2. commit \in Commit /\ commit.write = x
  BY <1>1, CommitOnIsCommit DEF TypeOK
<1>3. /\ written' = written \cup {x}
      /\ local' = [local EXCEPT ![c] = Append(base[w], commit)]
      /\ wrote' = [wrote EXCEPT ![w] = {x}]
      /\ UNCHANGED <<remote, fetched, queued, subject, fpc, sent, saw, target, missed, dropped, lost>>
  BY DEF CasWins, flushers
<1>4. x[1] = s
  OBVIOUS
<1> HIDE DEF x, commit
<1>5. WritesIn(Append(base[w], commit)) = WritesIn(base[w]) \cup {x}
  BY <1>1, <1>2, WritesOfAppend
<1>6. w \in Here(Writer, c)
  BY DEF Here
<1> HIDE DEF s, c
<1>7. \A d \in Clone : WritesIn(local'[d]) =
        IF d = c THEN WritesIn(local[d]) \cup {x} ELSE WritesIn(local[d])
  <2>1. \A d \in Clone : local'[d] = IF d = c THEN Append(base[w], commit) ELSE local[d]
    BY <1>3 DEF TypeOK
  <2> QED
    BY <2>1, <1>1, <1>5
<1>8. Tips'
  <2>1. SawKept'
    <3>1. \A f \in Flusher : CloneOf[f] \in Clone
      BY CloneAssumption
    <3>2. \A d \in Clone : WritesIn(local[d]) \subseteq WritesIn(local'[d])
      BY <1>7
    <3>3. UNCHANGED <<saw, lost>>
      BY <1>3
    <3> QED
      BY <3>1, <3>2, <3>3 DEF Kept, Tips, SawKept
  <2>2. (OwnSubjects /\ FetchedKnown /\ TargetHolds /\ SentLanded)'
    BY <1>3 DEF Kept, Tips, OwnSubjects, FetchedKnown, TargetHolds, SentLanded
  <2> QED
    BY <2>1, <2>2 DEF Tips
<1>9. LocalKeepsWrites'
  <2> SUFFICES ASSUME NEW y \in written', y \notin lost'
               PROVE  y \in WritesIn(local'[HomeOf[y[1]]])
    BY DEF LocalKeepsWrites
  <2>1. CASE y = x
    <3>1. HomeOf[y[1]] = c
      BY <2>1, <1>1, <1>4
    <3>2. x \in WritesIn(local'[c])
      BY <1>1, <1>7
    <3>3. WritesIn(local'[HomeOf[y[1]]]) = WritesIn(local'[c])
      BY <3>1
    <3> QED
      BY <2>1, <3>2, <3>3
  <2>2. CASE y \in written
    <3>1. HomeOf[y[1]] \in Clone
      BY <2>2, CloneAssumption DEF TypeOK, Write
    <3>2. y \in WritesIn(local[HomeOf[y[1]]])
      BY <2>2, <1>3 DEF Kept, LocalKeepsWrites
    <3>3. \A d \in Clone : WritesIn(local[d]) \subseteq WritesIn(local'[d])
      BY <1>7
    <3> QED
      BY <3>1, <3>2, <3>3
  <2> QED
    BY <2>1, <2>2, <1>3
<1>10. QueueCovers'
  <2>1. wrote'[w] = {x} /\ \A v \in Writer : wrote[v] \subseteq wrote'[v]
    BY <1>1, <1>3 DEF TypeOK
  <2> SUFFICES ASSUME NEW d \in Clone, NEW y \in WritesIn(local'[d]) PROVE Settled(d, y)'
    BY DEF QueueCovers, Settled
  <2>2. CASE y \in WritesIn(local[d])
    <3>1. Settled(d, y)
      BY <2>2 DEF Kept, QueueCovers, Settled
    <3> QED
      BY <3>1, <2>1, <1>3 DEF Settled, Here
  <2>3. CASE y \notin WritesIn(local[d])
    <3>1. y = x /\ d = c
      BY <2>3, <1>7
    <3> QED
      BY <3>1, <2>1, <1>6 DEF Settled
  <2> QED
    BY <2>2, <2>3
<1> QED
  BY <1>8, <1>9, <1>10 DEF Kept

(* A step that leaves the local refs and their cover alone. *)
LEMMA AsideKeeps ==
  ASSUME TypeOK, Kept, UNCHANGED <<local, queueing, lost, queued, written>>,
         WritesIn(remote) \subseteq WritesIn(remote'), Tips'
  PROVE  Kept'
<1>1. RefsMove
  BY DEF RefsMove
<1>2. \A c \in Clone : \A x : Settled(c, x) => Settled(c, x)'
  BY DEF Settled, Here, queueing
<1> QED
  BY <1>1, <1>2, MovingKeeps

(* A writer's write is passed on to the queue, or missed by it. *)
LEMMA QueueingKeeps ==
  ASSUME TypeOK, Kept, NEW w \in Writer, Enqueue(w) \/ WriterStops(w)
  PROVE  Kept'
<1> DEFINE c == CloneOf[w]
<1>1. c \in Clone
  BY CloneAssumption
<1>2. /\ UNCHANGED <<remote, local, fetched, subject, fpc, sent, saw, target, written, dropped, lost>>
      /\ wrote' = [wrote EXCEPT ![w] = {}]
      /\ \/ queued' = [queued EXCEPT ![c] = TRUE] /\ missed' = missed
         \/ UNCHANGED queued /\ queued[c] /\ missed' = missed
         \/ UNCHANGED queued /\ missed' = missed \cup wrote[w]
  BY DEF Enqueue, WriterStops, refs, flushers
<1> HIDE DEF c
<1>3. Tips'
  BY <1>2 DEF Kept, Tips, OwnSubjects, FetchedKnown, SawKept, TargetHolds, SentLanded
<1>4. RefsMove
  BY <1>2 DEF RefsMove
<1>5. ASSUME NEW d \in Clone, NEW x, Settled(d, x) PROVE Settled(d, x)'
  <2>1. \A v \in Writer : wrote'[v] = wrote[v] \/ v = w
    BY <1>2 DEF TypeOK
  <2>2. /\ queued'[d] \/ ~queued[d]
        /\ missed \subseteq missed'
    BY <1>1, <1>2 DEF TypeOK
  <2>3. d = c => queued'[d] \/ wrote[w] \subseteq missed'
    BY <1>1, <1>2 DEF TypeOK
  <2>4. w \in Here(Writer, d) => d = c
    BY DEF Here, c
  <2>5. ASSUME NEW v \in Here(Writer, d), x \in wrote[v] PROVE Settled(d, x)'
    <3>1. CASE v = w
      BY <3>1, <2>3, <2>4, <2>5 DEF Settled
    <3>2. CASE v # w
      BY <3>2, <2>1, <2>5 DEF Settled, Here
    <3> QED
      BY <3>1, <3>2
  <2> QED
    BY <1>5, <1>2, <2>2, <2>5 DEF Settled
<1> QED
  BY <1>2, <1>3, <1>4, <1>5, MovingKeeps

(* Recovery remembers the tip it read; the tip it will set holds it. *)
LEMMA ReplayLocalKeeps ==
  ASSUME TypeOK, Kept, NEW f \in Flusher, ReplayLocal(f)
  PROVE  Kept'
<1> DEFINE mine == local[CloneOf[f]]
           theirs == fetched[CloneOf[f]]
<1>1. CloneOf[f] \in Clone /\ mine \in Seq(Commit) /\ theirs \in Seq(Commit)
  BY CloneAssumption DEF TypeOK
<1>2. WritesIn(Replay(mine, theirs)) = WritesIn(mine) \cup WritesIn(theirs)
  BY <1>1, ReplayKeepsWrites
<1>3. WritesIn(theirs) \subseteq WritesIn(remote)
  BY <1>1 DEF Kept, Tips, FetchedKnown
<1>4. /\ UNCHANGED <<remote, local, fetched, queued, subject, sent, written, queueing, lost>>
      /\ saw' = [saw EXCEPT ![f] = mine]
      /\ target' = [target EXCEPT ![f] = Replay(mine, theirs)]
      /\ fpc' = [fpc EXCEPT ![f] = "advance"]
  BY DEF ReplayLocal, refs, writers
<1> HIDE DEF theirs
<1>5. (OwnSubjects /\ FetchedKnown)'
  BY <1>4 DEF Kept, Tips, OwnSubjects, FetchedKnown
<1>6. SawKept'
  <2>1. \A g \in Flusher : saw'[g] = IF g = f THEN mine ELSE saw[g]
    BY <1>4 DEF TypeOK
  <2> QED
    BY <1>4, <2>1 DEF Kept, Tips, SawKept
<1> HIDE DEF mine
<1>7. TargetHolds'
  <2>1. \A g \in Flusher : /\ saw'[g] = IF g = f THEN mine ELSE saw[g]
                           /\ target'[g] = IF g = f THEN Replay(mine, theirs) ELSE target[g]
    BY <1>4 DEF TypeOK
  <2> QED
    BY <1>2, <1>3, <1>4, <2>1 DEF Kept, Tips, TargetHolds
<1>8. SentLanded'
  BY <1>4 DEF Kept, Tips, SentLanded, TypeOK
<1> QED
  BY <1>4, <1>5, <1>6, <1>7, <1>8, AsideKeeps DEF Tips

(* The unconditional update counts what it overwrites. *)
LEMMA AdvanceKeeps ==
  ASSUME TypeOK, Kept, NEW f \in Flusher, Advance(f)
  PROVE  Kept'
<1> DEFINE c == CloneOf[f]
<1>1. c \in Clone /\ \A g \in Flusher : CloneOf[g] \in Clone
  BY CloneAssumption
<1>2. /\ UNCHANGED <<remote, queued, subject, sent, written, queueing>>
      /\ local' = [local EXCEPT ![c] = target[f]]
      /\ fetched' = [fetched EXCEPT ![c] = <<>>]
      /\ saw' = [saw EXCEPT ![f] = <<>>]
      /\ target' = [target EXCEPT ![f] = <<>>]
      /\ fpc' = [fpc EXCEPT ![f] = "retry"]
      /\ lost' = lost \cup ((WritesIn(local[c]) \ WritesIn(saw[f])) \ WritesIn(target[f]))
  BY DEF Advance, writers
<1> HIDE DEF c
<1>3. /\ WritesIn(saw[f]) \subseteq WritesIn(local[c]) \cup lost
      /\ WritesIn(saw[f]) \subseteq WritesIn(target[f])
      /\ WritesIn(target[f]) \subseteq WritesIn(saw[f]) \cup WritesIn(remote)
  BY DEF Kept, Tips, SawKept, TargetHolds, c
<1>4. \A d \in Clone : local'[d] = IF d = c THEN target[f] ELSE local[d]
  BY <1>2 DEF TypeOK
<1>5. RefsMove
  BY <1>2, <1>3, <1>4 DEF RefsMove
<1>6. (OwnSubjects /\ SentLanded)'
  BY <1>2 DEF Kept, Tips, OwnSubjects, SentLanded, TypeOK
<1>7. FetchedKnown'
  <2>1. \A d \in Clone : fetched'[d] \in {fetched[d], <<>>}
    BY <1>2 DEF TypeOK
  <2> QED
    BY <1>2, <2>1, WritesOfNothing DEF Kept, Tips, FetchedKnown
<1>8. (SawKept /\ TargetHolds)'
  <2>1. \A g \in Flusher : /\ saw'[g] = IF g = f THEN <<>> ELSE saw[g]
                           /\ target'[g] = IF g = f THEN <<>> ELSE target[g]
    BY <1>2 DEF TypeOK
  <2>2. TargetHolds'
    BY <1>2, <2>1, WritesOfNothing DEF Kept, Tips, TargetHolds
  <2>3. SawKept'
    BY <1>1, <1>5, <2>1, WritesOfNothing DEF Kept, Tips, SawKept, RefsMove
  <2> QED
    BY <2>2, <2>3
<1>9. \A d \in Clone : \A x : Settled(d, x) => Settled(d, x)'
  BY <1>2 DEF Settled, Here, queueing
<1> QED
  BY <1>2, <1>5, <1>6, <1>7, <1>8, <1>9, MovingKeeps DEF Tips

(* ... and so does a fetch. *)
LEMMA FetchMissingKeeps ==
  ASSUME TypeOK, Kept, NEW r \in Reader, FetchMissing(r)
  PROVE  Kept'
<1> DEFINE c == CloneOf[r]
<1>1. c \in Clone /\ \A g \in Flusher : CloneOf[g] \in Clone
  BY CloneAssumption
<1>2. /\ UNCHANGED <<remote, fetched, queued, subject, fpc, sent, saw, target, written, queueing>>
      /\ \/ /\ local' = [local EXCEPT ![c] = remote]
            /\ lost' = lost \cup (WritesIn(local[c]) \ WritesIn(remote))
         \/ UNCHANGED <<local, lost>>
  BY DEF FetchMissing, writers, flushers
<1> HIDE DEF c
<1>3. RefsMove
  <2>1. CASE UNCHANGED <<local, lost>>
    BY <1>2, <2>1 DEF RefsMove
  <2>2. CASE /\ local' = [local EXCEPT ![c] = remote]
             /\ lost' = lost \cup (WritesIn(local[c]) \ WritesIn(remote))
    <3>1. \A d \in Clone : local'[d] = IF d = c THEN remote ELSE local[d]
      BY <2>2 DEF TypeOK
    <3> QED
      BY <1>2, <2>2, <3>1 DEF RefsMove
  <2> QED
    BY <1>2, <2>1, <2>2
<1>4. Tips'
  BY <1>1, <1>2, <1>3
     DEF Kept, Tips, OwnSubjects, FetchedKnown, SawKept, TargetHolds, SentLanded, RefsMove
<1>5. \A d \in Clone : \A x : Settled(d, x) => Settled(d, x)'
  BY <1>2, <1>3 DEF Settled, Here, queueing, RefsMove
<1> QED
  BY <1>2, <1>3, <1>4, <1>5, MovingKeeps

(* The entry goes by name: what the confirmed push did not send and no writer
   of this clone has yet to queue is counted as dropped. *)
LEMMA DequeueKeeps ==
  ASSUME TypeOK, Kept, NEW f \in Flusher, Dequeue(f)
  PROVE  Kept'
<1> DEFINE c == CloneOf[f]
<1>1. c \in Clone
  BY CloneAssumption
<1>2. /\ UNCHANGED <<remote, local, fetched, subject, saw, target, written, wrote, missed, lost>>
      /\ queued' = [queued EXCEPT ![c] = FALSE]
      /\ fpc' = [fpc EXCEPT ![f] = "idle"]
      /\ sent' = [sent EXCEPT ![f] = <<>>]
      /\ dropped' = dropped \cup
           ((WritesIn(local[c]) \ WritesIn(sent[f])) \ UNION {wrote[w] : w \in Here(Writer, c)})
      /\ fpc[f] = "remove"
  BY DEF Dequeue, writers
<1> HIDE DEF c
<1>3. WritesIn(sent[f]) \subseteq WritesIn(remote)
  BY <1>2 DEF Kept, Tips, SentLanded
<1>4. Tips'
  <2>1. SentLanded'
    BY <1>2 DEF Kept, Tips, SentLanded, TypeOK
  <2> QED
    BY <1>2, <2>1 DEF Kept, Tips, OwnSubjects, FetchedKnown, SawKept, TargetHolds
<1>5. RefsMove
  BY <1>2 DEF RefsMove
<1>6. ASSUME NEW d \in Clone, NEW x \in WritesIn(local[d]), Settled(d, x)
      PROVE  Settled(d, x)'
  <2>1. CASE d = c
    <3>1. \/ x \in WritesIn(remote)
          \/ \E w \in Here(Writer, c) : x \in wrote[w]
          \/ x \in dropped'
      BY <1>2, <1>3, <2>1
    <3> QED
      BY <1>2, <2>1, <3>1 DEF Settled, Here
  <2>2. CASE d # c
    <3>1. queued'[d] = queued[d] /\ dropped \subseteq dropped'
      BY <1>2, <2>2 DEF TypeOK
    <3> QED
      BY <1>2, <1>6, <3>1 DEF Settled, Here
  <2> QED
    BY <2>1, <2>2
<1> QED
  BY <1>2, <1>4, <1>5, <1>6, MovingKeeps

(* A push moves the remote, never a local ref or the queue. *)
LEMMA PushingKeeps ==
  ASSUME TypeOK, Kept, [Next]_vars, NEW f \in Flusher,
         PushReads(f) \/ PushAccepted(f) \/ PushFails(f) \/ Fetch(f) \/ Drain(f) \/ FlusherStops(f)
  PROVE  Kept'
<1>1. WritesIn(remote) \subseteq WritesIn(remote')
  BY RemoteKeepsWrites
<1>2. UNCHANGED <<local, queued, subject, written, queueing, lost>>
  BY DEF PushReads, PushAccepted, PushFails, Fetch, Drain, FlusherStops, refs, writers, history
<1>3. OwnSubjects'
  BY <1>2 DEF Kept, Tips, OwnSubjects
<1>4. FetchedKnown'
  <2>1. \A c \in Clone : fetched'[c] = fetched[c] \/ fetched'[c] = remote
    BY DEF PushReads, PushAccepted, PushFails, Fetch, Drain, FlusherStops, refs, TypeOK
  <2> QED
    BY <1>1, <2>1 DEF Kept, Tips, FetchedKnown
<1>5. (SawKept /\ TargetHolds)'
  <2>1. \A g \in Flusher : \/ saw'[g] = saw[g] /\ target'[g] = target[g]
                           \/ saw'[g] = <<>> /\ target'[g] = <<>>
    BY DEF PushReads, PushAccepted, PushFails, Fetch, Drain, FlusherStops, TypeOK
  <2>2. TargetHolds'
    BY <1>1, <2>1, WritesOfNothing DEF Kept, Tips, TargetHolds
  <2>3. SawKept'
    BY <1>2, <2>1, WritesOfNothing DEF Kept, Tips, SawKept
  <2> QED
    BY <2>2, <2>3
<1>6. SentLanded'
  <2>1. CASE PushAccepted(f)
    <3>1. /\ fpc' = [fpc EXCEPT ![f] = "remove"]
          /\ sent' = sent /\ remote' = sent[f]
      BY <2>1 DEF PushAccepted
    <3> QED
      BY <1>1, <3>1 DEF Kept, Tips, SentLanded, TypeOK
  <2>2. CASE PushReads(f)
    BY <1>1, <2>2 DEF PushReads, Pushing, Kept, Tips, SentLanded, TypeOK
  <2>3. CASE PushFails(f)
    <3>1. PICK next \in {"single", "fetch", "idle"} : fpc' = [fpc EXCEPT ![f] = next]
      BY <2>3, StatesAfterFailure DEF PushFails
    <3>2. sent' = [sent EXCEPT ![f] = <<>>]
      BY <2>3 DEF PushFails
    <3> QED
      BY <1>1, <3>1, <3>2 DEF Kept, Tips, SentLanded, TypeOK
  <2>4. CASE Fetch(f) \/ Drain(f)
    <3>1. /\ sent' = sent
          /\ fpc' = [fpc EXCEPT ![f] = "read"] \/ fpc' = [fpc EXCEPT ![f] = "batch"]
      BY <2>4 DEF Fetch, Drain
    <3> QED
      BY <1>1, <3>1 DEF Kept, Tips, SentLanded, TypeOK
  <2>5. CASE FlusherStops(f)
    <3>1. sent' = [sent EXCEPT ![f] = <<>>] /\ fpc' = [fpc EXCEPT ![f] = "idle"]
      BY <2>5 DEF FlusherStops
    <3> QED
      BY <1>1, <3>1 DEF Kept, Tips, SentLanded, TypeOK
  <2> QED
    BY <2>1, <2>2, <2>3, <2>4, <2>5
<1> QED
  BY <1>1, <1>2, <1>3, <1>4, <1>5, <1>6, AsideKeeps DEF Tips

(* Taking or building on a ref, and missing one, change no ref. *)
LEMMA LookingKeeps ==
  ASSUME TypeOK, Kept,
         \/ \E w \in Writer : (\E s \in Session : StartWrite(w, s)) \/ Build(w) \/ CasLoses(w)
         \/ \E r \in Reader : MissLocally(r)
         \/ UNCHANGED vars
  PROVE  Kept'
<1>1. UNCHANGED <<remote, local, fetched, queued, flushers, written, queueing, lost>>
  BY DEF StartWrite, Build, CasLoses, MissLocally, vars, refs, history
<1>2. OwnSubjects'
  <2>1. \/ subject' = subject
        \/ \E w \in Writer, s \in Session :
             subject' = [subject EXCEPT ![w] = s] /\ HomeOf[s] = CloneOf[w]
    BY DEF StartWrite, Build, CasLoses, MissLocally, vars, writers
  <2> QED
    BY <2>1 DEF Kept, Tips, OwnSubjects, TypeOK
<1>3. Tips'
  BY <1>1, <1>2 DEF flushers, Kept, Tips, FetchedKnown, SawKept, TargetHolds, SentLanded
<1> QED
  BY <1>1, <1>3, AsideKeeps

LEMMA KeptInvariant == Spec => []Kept
<1>1. TypeOK /\ Kept /\ [Next]_vars => Kept'
  <2> SUFFICES ASSUME TypeOK, Kept, [Next]_vars PROVE Kept'
    OBVIOUS
  <2>1. CASE \E w \in Writer : CasWins(w)
    BY <2>1, CasWinsKeeps
  <2>2. CASE \E w \in Writer : Enqueue(w) \/ WriterStops(w)
    BY <2>2, QueueingKeeps
  <2>3. CASE \E f \in Flusher : ReplayLocal(f)
    BY <2>3, ReplayLocalKeeps
  <2>4. CASE \E f \in Flusher : Advance(f)
    BY <2>4, AdvanceKeeps
  <2>5. CASE \E f \in Flusher : Dequeue(f)
    BY <2>5, DequeueKeeps
  <2>6. CASE \E f \in Flusher : PushReads(f) \/ PushAccepted(f) \/ PushFails(f) \/ Fetch(f)
                                  \/ Drain(f) \/ FlusherStops(f)
    BY <2>6, PushingKeeps
  <2>7. CASE \E r \in Reader : FetchMissing(r)
    BY <2>7, FetchMissingKeeps
  <2>8. CASE \/ \E w \in Writer : (\E s \in Session : StartWrite(w, s)) \/ Build(w) \/ CasLoses(w)
             \/ \E r \in Reader : MissLocally(r)
             \/ UNCHANGED vars
    BY <2>8, LookingKeeps
  <2> QED
    BY <2>1, <2>2, <2>3, <2>4, <2>5, <2>6, <2>7, <2>8
       DEF Next, WriterStep, FlusherStep, Quiescent
<1> QED
  BY KeptInit, <1>1, TypeCorrect, PTL DEF Spec

(* A write stays in its clone's ref while hooks of the same clone push, fetch
   and replay it, other writers build on it and readers fetch, with any number
   of each and any of them killed.  The only writes that leave it are those
   that landed after a recovery or a fetch had looked at the ref and before it
   set it (push_common.go sets the ref it replayed unconditionally,
   FetchCheckpointRef fetches +ref:ref). *)
THEOREM LocalKeepsWritesCorrect == Spec => []LocalKeepsWrites
<1> QED
  BY KeptInvariant, PTL DEF Kept

(* A write in a clone's ref that the remote does not have is queued or about
   to be.  The only ones that are neither were missed by the queue (a process
   killed, an enqueueing that failed), removed with the entry of the older tip
   a push had sent, or overwritten as above. *)
THEOREM QueueCoversCorrect == Spec => []QueueCovers
<1> QED
  BY KeptInvariant, PTL DEF Kept

-----------------------------------------------------------------------------
(* What can be read on the remote. *)

(* Each session has one directory of its own, below the length of the list,
   and the list never shrinks. *)
WellFormed(h) ==
  \A i \in DOMAIN h :
    /\ h[i].slot < h[i].listed
    /\ \A j \in 1..i : h[j].listed <= h[i].listed
    /\ \A j \in DOMAIN h : h[j].write[1] = h[i].write[1] <=> h[j].slot = h[i].slot

LEMMA CommitsAre ==
  ASSUME NEW h \in Seq(Commit)
  PROVE  /\ Len(h) \in Nat /\ DOMAIN h = 1..Len(h)
         /\ \A i \in 1..Len(h) : h[i] \in Commit /\ h[i].slot \in Nat /\ h[i].listed \in Nat
<1>1. Len(h) \in Nat /\ DOMAIN h = 1..Len(h) /\ \A i \in 1..Len(h) : h[i] \in Commit
  BY LenProperties, ElementOfSeq
<1>2. \A c \in Commit : c.slot \in Nat /\ c.listed \in Nat
  BY DEF Commit
<1> QED
  BY <1>1, <1>2

LEMMA LeastNatural ==
  ASSUME NEW T \in SUBSET Nat, T # {}
  PROVE  \E m \in T : \A k \in T : m <= k
<1>1. IsWellFoundedOn(OpToRel(<, Nat), Nat)
  BY NatLessThanWellFounded
<1>2. PICK m \in T : \A k \in T : ~(<<k, m>> \in OpToRel(<, Nat))
  BY <1>1, WFMin
<1>3. ASSUME NEW k \in T PROVE m <= k
  <2>1. m \in Nat /\ k \in Nat
    OBVIOUS
  <2>2. ~(k < m)
    BY <1>2, <2>1 DEF OpToRel
  <2> QED BY <2>1, <2>2
<1> QED BY <1>3

(* The greatest index of a nonempty set of them. *)
LEMMA MaxIs ==
  ASSUME NEW n \in Nat, NEW I \in SUBSET (1..n), I # {}
  PROVE  Max(I) \in I /\ \A i \in I : i <= Max(I)
<1> DEFINE T == {n - i : i \in I}
<1>1. T \in SUBSET Nat /\ T # {}
  <2>1. \A i \in I : i \in 1..n /\ n - i \in Nat
    OBVIOUS
  <2> QED BY <2>1
<1>2. PICK m \in T : \A k \in T : m <= k
  BY <1>1, LeastNatural
<1>3. PICK x \in I : m = n - x
  BY <1>2
<1>4. \A i \in I : n - i \in T
  OBVIOUS
<1> HIDE DEF T
<1>5. \A y \in I : x >= y
  <2> SUFFICES ASSUME NEW y \in I PROVE x >= y
    OBVIOUS
  <2>1. m <= n - y
    BY <1>2, <1>4
  <2>2. x \in Nat /\ y \in Nat
    OBVIOUS
  <2> QED BY <1>3, <2>1, <2>2
<1>6. Max(I) \in I /\ \A y \in I : Max(I) >= y
  BY <1>5 DEF Max
<1> QED BY <1>6

(* A directory holds what some commit wrote to it. *)
LEMMA OccupantIs ==
  ASSUME NEW h \in Seq(Commit), NEW i \in 1..Len(h)
  PROVE  \E k \in 1..Len(h) :
           h[k].slot = h[i].slot /\ Occupant(h, h[i].slot) = h[k].write[1]
<1> DEFINE I == {k \in 1..Len(h) : h[k].slot = h[i].slot}
<1>1. Len(h) \in Nat
  BY CommitsAre
<1>2. I \in SUBSET (1..Len(h)) /\ i \in I
  OBVIOUS
<1>3. Max(I) \in I
  BY <1>1, <1>2, MaxIs
<1>4. SelectLastInSeq(h, LAMBDA c : c.slot = h[i].slot) = Max(I)
  BY <1>2 DEF SelectLastInSeq
<1>5. Occupant(h, h[i].slot) = h[Max(I)].write[1]
  BY <1>4 DEF Occupant
<1> QED BY <1>3, <1>5

LEMMA ListedIs ==
  ASSUME NEW h \in Seq(Commit)
  PROVE  /\ Listed(h) \in Nat
         /\ h # <<>> => Len(h) \in 1..Len(h) /\ Listed(h) = h[Len(h)].listed
<1>1. CASE h = <<>>
  BY <1>1 DEF Listed
<1>2. CASE h # <<>>
  <2>1. Len(h) \in 1..Len(h)
    BY <1>2, CommitsAre, EmptySeq
  <2> QED BY <1>2, <2>1, CommitsAre DEF Listed, Last
<1> QED BY <1>1, <1>2

(* In a well-formed history every session is found where it was written. *)
LEMMA WrittenIsReadable ==
  ASSUME NEW h \in Seq(Commit), WellFormed(h), NEW i \in 1..Len(h)
  PROVE  /\ h[i].slot \in Slots(h) /\ h[i].slot < Listed(h)
         /\ Occupant(h, h[i].slot) = h[i].write[1]
         /\ Readable(h, h[i].write[1])
<1>1. /\ Len(h) \in Nat /\ DOMAIN h = 1..Len(h)
      /\ \A k \in 1..Len(h) : h[k].slot \in Nat /\ h[k].listed \in Nat
  BY CommitsAre
<1>2. h[i].slot < h[i].listed /\ h[i].listed <= h[Len(h)].listed
  BY <1>1 DEF WellFormed
<1>3. Len(h) \in 1..Len(h) /\ Listed(h) = h[Len(h)].listed
  <2>1. h # <<>>
    BY <1>1
  <2> QED BY <2>1, ListedIs
<1>4. h[i].slot < Listed(h)
  BY <1>1, <1>2, <1>3
<1>5. Occupant(h, h[i].slot) = h[i].write[1]
  <2>1. PICK k \in 1..Len(h) :
          h[k].slot = h[i].slot /\ Occupant(h, h[i].slot) = h[k].write[1]
    BY OccupantIs
  <2>2. h[k].write[1] = h[i].write[1]
    BY <1>1, <2>1 DEF WellFormed
  <2> QED BY <2>1, <2>2
<1>6. h[i].slot \in Slots(h)
  BY <1>1 DEF Slots, ToSet
<1> QED BY <1>4, <1>5, <1>6 DEF Readable

(* ... and only such sessions are found. *)
LEMMA ReadableIsWritten ==
  ASSUME NEW h \in Seq(Commit), NEW s, Readable(h, s)
  PROVE  /\ OwnSlot(h, s) \in Slots(h) /\ OwnSlot(h, s) < Listed(h)
         /\ \E k \in 1..Len(h) : h[k].slot = OwnSlot(h, s) /\ h[k].write[1] = s
<1> DEFINE n == OwnSlot(h, s)
<1>1. n \in Slots(h) /\ n < Listed(h) /\ Occupant(h, n) = s
  BY DEF Readable, OwnSlot
<1> HIDE DEF n
<1>2. PICK i \in 1..Len(h) : n = h[i].slot
  BY <1>1, CommitsAre DEF Slots, ToSet
<1>3. PICK k \in 1..Len(h) : h[k].slot = n /\ Occupant(h, n) = h[k].write[1]
  BY <1>2, OccupantIs
<1> QED BY <1>1, <1>3 DEF n

(* A writer adds to its session's directory, or takes a directory nobody has
   and lists it. *)
LEMMA CommitKeepsWellFormed ==
  ASSUME NEW h \in Seq(Commit), WellFormed(h), NEW s \in Session,
         CommitOn(h, s) \in Commit, CommitOn(h, s).write = <<s, Revision(s)>>
  PROVE  WellFormed(Append(h, CommitOn(h, s)))
<1> DEFINE c == CommitOn(h, s)
           n == SlotFor(h, s)
           g == Append(h, c)
<1>1. /\ Len(h) \in Nat /\ DOMAIN h = 1..Len(h)
      /\ \A i \in 1..Len(h) : h[i].slot \in Nat /\ h[i].listed \in Nat
  BY CommitsAre
<1>2. /\ c.write[1] = s /\ c.slot = n
      /\ c.listed = IF n < Listed(h) THEN Listed(h) ELSE n + 1
      /\ n \in Nat /\ c.listed \in Nat
  <2>1. c.write[1] = s /\ c.slot = n /\ c.listed = IF n < Listed(h) THEN Listed(h) ELSE n + 1
    BY DEF CommitOn
  <2> QED BY <2>1 DEF Commit
<1>3. /\ \A i \in 1..Len(h) : h[i].slot < h[i].listed /\ h[i].listed <= Listed(h)
                             /\ h[i].slot < Listed(h)
      /\ \A i \in 1..Len(h) : \A j \in 1..i : h[j].listed <= h[i].listed
      /\ \A i, j \in 1..Len(h) : h[j].write[1] = h[i].write[1] <=> h[j].slot = h[i].slot
  <2>1. ASSUME NEW i \in 1..Len(h) PROVE h[i].listed <= Listed(h)
    <3>1. h # <<>>
      BY <1>1
    <3> QED BY <1>1, <3>1, ListedIs DEF WellFormed
  <2> QED BY <1>1, <2>1, WrittenIsReadable DEF WellFormed
<1>4. \A i \in 1..Len(h) : h[i].write[1] = s <=> h[i].slot = n
  <2>1. CASE Readable(h, s)
    <3>1. PICK k \in 1..Len(h) : h[k].slot = n /\ h[k].write[1] = s
      BY <2>1, ReadableIsWritten DEF SlotFor
    <3> QED BY <1>3, <3>1
  <2>2. CASE ~Readable(h, s)
    <3>1. n = Listed(h)
      BY <2>2 DEF SlotFor
    <3>2. ASSUME NEW i \in 1..Len(h) PROVE h[i].write[1] # s /\ h[i].slot # n
      <4>1. h[i].write[1] # s
        BY <2>2, WrittenIsReadable
      <4>2. h[i].slot < n
        BY <1>3, <3>1
      <4> QED BY <1>1, <1>2, <4>1, <4>2
    <3> QED BY <3>2
  <2> QED BY <2>1, <2>2
<1>5. Listed(h) \in Nat
  BY ListedIs
<1> HIDE DEF c, n
<1>6. /\ DOMAIN g = 1..Len(h) + 1
      /\ \A i \in 1..Len(h) : g[i] = h[i]
      /\ g[Len(h) + 1] = c
  BY <1>1
<1>7. c.slot < c.listed /\ Listed(h) <= c.listed
  BY <1>2, <1>5
<1> HIDE DEF g
<1>8. ASSUME NEW i \in 1..Len(h) + 1
      PROVE  /\ g[i].slot < g[i].listed
             /\ \A j \in 1..i : g[j].listed <= g[i].listed
             /\ \A j \in 1..Len(h) + 1 : g[j].write[1] = g[i].write[1] <=> g[j].slot = g[i].slot
  <2>1. CASE i \in 1..Len(h)
    <3>1. \A j \in 1..i : j \in 1..Len(h)
      BY <1>1, <2>1
    <3>2. \A j \in 1..Len(h) + 1 : j \in 1..Len(h) \/ j = Len(h) + 1
      BY <1>1
    <3>3. g[i].slot < g[i].listed /\ \A j \in 1..i : g[j].listed <= g[i].listed
      BY <1>3, <1>6, <2>1, <3>1
    <3>4. ASSUME NEW j \in 1..Len(h) + 1
          PROVE  g[j].write[1] = g[i].write[1] <=> g[j].slot = g[i].slot
      <4>1. CASE j \in 1..Len(h)
        BY <1>3, <1>6, <2>1, <4>1
      <4>2. CASE j = Len(h) + 1
        BY <1>2, <1>4, <1>6, <2>1, <4>2
      <4> QED BY <3>2, <4>1, <4>2
    <3> QED BY <3>3, <3>4
  <2>2. CASE i = Len(h) + 1
    <3>1. \A j \in 1..i : j \in 1..Len(h) \/ j = i
      BY <1>1, <2>2
    <3>2. \A j \in 1..Len(h) : g[j].listed <= c.listed
      BY <1>1, <1>2, <1>3, <1>5, <1>6, <1>7
    <3>3. \A j \in 1..i : g[j].listed <= g[i].listed
      BY <1>2, <1>6, <2>2, <3>1, <3>2
    <3>4. ASSUME NEW j \in 1..Len(h) + 1
          PROVE  g[j].write[1] = g[i].write[1] <=> g[j].slot = g[i].slot
      <4>1. CASE j \in 1..Len(h)
        BY <1>2, <1>4, <1>6, <2>2, <4>1
      <4>2. CASE j = i
        BY <4>2
      <4> QED BY <2>2, <3>1, <4>1, <4>2
    <3> QED BY <1>6, <1>7, <2>2, <3>3, <3>4
  <2> QED BY <1>1, <2>1, <2>2
<1> QED BY <1>6, <1>8 DEF WellFormed, g, c
(* Unless the two sides diverged a replay is the longer of them; if they did,
   it moves some commit. *)
LEMMA ReplayIsOneSide ==
  ASSUME NEW mine \in Seq(Commit), NEW theirs \in Seq(Commit)
  PROVE  /\ IsPrefix(mine, theirs) => Replay(mine, theirs) = theirs
         /\ IsPrefix(theirs, mine) => Replay(mine, theirs) = mine
         /\ Diverged(mine, theirs) =>
              WritesIn(Above(mine, theirs)) \cap WritesIn(Replay(mine, theirs)) # {}
<1> DEFINE n == MergeBase(mine, theirs)
<1>1. /\ n \in 0..Len(mine)
      /\ \A i \in 1..n : i \in 1..Len(theirs) /\ mine[i] = theirs[i]
      /\ \A k \in 1..Len(mine) : IsPrefix(SubSeq(mine, 1, k), theirs) => k <= n
  BY MergeBaseIsCommon
<1>2. Len(mine) \in Nat /\ Len(theirs) \in Nat
  OBVIOUS
<1>3. Replay(mine, theirs) = theirs \o SubSeq(mine, n + 1, Len(mine))
  BY DEF Replay, Above
<1>4. Above(mine, theirs) = SubSeq(mine, n + 1, Len(mine))
  BY DEF Above
<1> HIDE DEF n
<1>5. ASSUME IsPrefix(mine, theirs) PROVE Replay(mine, theirs) = theirs
  <2>1. n = Len(mine)
    <3>1. CASE Len(mine) = 0
      BY <1>1, <3>1
    <3>2. CASE Len(mine) # 0
      <4>1. SubSeq(mine, 1, Len(mine)) = mine /\ Len(mine) \in 1..Len(mine)
        BY <3>2
      <4>2. IsPrefix(SubSeq(mine, 1, Len(mine)), theirs)
        BY <1>5, <4>1
      <4>3. Len(mine) <= n
        BY <1>1, <4>1, <4>2
      <4> QED BY <1>1, <1>2, <4>3
    <3> QED BY <3>1, <3>2
  <2>2. SubSeq(mine, n + 1, Len(mine)) = <<>>
    BY <1>2, <2>1
  <2> QED BY <1>3, <2>2, ConcatEmptySeq
<1>6. ASSUME IsPrefix(theirs, mine) PROVE Replay(mine, theirs) = mine
  <2>1. /\ Len(theirs) <= Len(mine)
        /\ \A i \in 1..Len(theirs) : theirs[i] = mine[i]
    <3>1. /\ Len(theirs) <= Len(mine)
          /\ SubSeq(theirs, 1, Len(theirs)) = SubSeq(mine, 1, Len(theirs))
      BY <1>6 DEF IsPrefix
    <3>2. \A i \in 1..Len(theirs) : /\ SubSeq(theirs, 1, Len(theirs))[i] = theirs[i]
                                    /\ SubSeq(mine, 1, Len(theirs))[i] = mine[i]
      BY <1>2, <3>1
    <3> QED BY <3>1, <3>2
  <2>2. n <= Len(theirs)
    BY <1>1, <1>2
  <2>3. Len(theirs) <= n
    <3>1. CASE Len(theirs) = 0
      BY <1>1, <3>1
    <3>2. CASE Len(theirs) # 0
      <4>1. Len(theirs) \in 1..Len(mine)
        BY <1>2, <2>1, <3>2
      <4>2. SubSeq(mine, 1, Len(theirs)) = theirs
        BY <1>2, <2>1
      <4>3. IsPrefix(theirs, theirs)
        BY DEF IsPrefix
      <4> QED BY <1>1, <4>1, <4>2, <4>3
    <3> QED BY <3>1, <3>2
  <2>4. n = Len(theirs)
    BY <1>1, <1>2, <2>2, <2>3
  <2>5. theirs \o SubSeq(mine, Len(theirs) + 1, Len(mine)) = mine
    BY <1>2, <2>1
  <2> QED BY <1>3, <2>4, <2>5
<1>7. ASSUME Diverged(mine, theirs)
      PROVE  WritesIn(Above(mine, theirs)) \cap WritesIn(Replay(mine, theirs)) # {}
  <2>1. n < Len(mine)
    <3> SUFFICES ASSUME n = Len(mine) PROVE FALSE
      BY <1>1, <1>2
    <3>1. Len(mine) <= Len(theirs)
      BY <1>1, <1>2
    <3>2. SubSeq(mine, 1, Len(mine)) = SubSeq(theirs, 1, Len(mine))
      BY <1>1, <1>2, <3>1
    <3> QED BY <1>7, <3>1, <3>2 DEF Diverged, IsPrefix
  <2> DEFINE above == Above(mine, theirs)
  <2>2. above \in Seq(Commit) /\ 1 \in 1..Len(above)
    BY <1>1, <1>2, <1>4, <2>1, AboveIsHistory
  <2> HIDE DEF above
  <2>3. above[1].write \in WritesIn(above)
    BY <2>2 DEF WritesIn, ToSet
  <2>4. WritesIn(theirs \o above) = WritesIn(theirs) \cup WritesIn(above)
    BY <2>2, WritesOfConcat
  <2> QED BY <2>3, <2>4 DEF above, Replay
<1> QED BY <1>5, <1>6, <1>7

-----------------------------------------------------------------------------
(* Every history anywhere is well-formed, or holds a write of R. *)
Sound(h, R) == WellFormed(h) \/ WritesIn(h) \cap R # {}

SoundInv ==
  /\ TypeOK
  /\ Sound(remote, replayed)
  /\ \A c \in Clone : Sound(local[c], replayed) /\ Sound(fetched[c], replayed)
  /\ \A w \in Writer : Sound(base[w], replayed)
  /\ \A f \in Flusher : Sound(sent[f], replayed) /\ Sound(target[f], replayed)

LEMMA NothingIsSound == \A R : Sound(<<>>, R)
BY DEF Sound, WellFormed

LEMMA CommitIsSound ==
  ASSUME TypeOK, NEW h \in Seq(Commit), NEW s \in Session, NEW R, Sound(h, R)
  PROVE  Sound(Append(h, CommitOn(h, s)), R)
<1>1. CommitOn(h, s) \in Commit /\ CommitOn(h, s).write = <<s, Revision(s)>>
  BY CommitOnIsCommit DEF TypeOK
<1>2. WellFormed(h) => WellFormed(Append(h, CommitOn(h, s)))
  BY <1>1, CommitKeepsWellFormed
<1>3. WritesIn(h) \subseteq WritesIn(Append(h, CommitOn(h, s)))
  BY <1>1, WritesOfAppend
<1> QED BY <1>2, <1>3 DEF Sound

LEMMA SoundInvInit == Init => SoundInv
BY InitTypeOK, NothingIsSound DEF Init, SoundInv

(* A writer's commit on a sound history is sound. *)
LEMMA CasWinsKeepsSound ==
  ASSUME SoundInv, TypeOK', NEW w \in Writer, CasWins(w)
  PROVE  SoundInv'
<1>1. base[w] \in Seq(Commit) /\ subject[w] \in Session
  BY DEF SoundInv, TypeOK
<1>2. Sound(Append(base[w], CommitOn(base[w], subject[w])), replayed)
  BY <1>1, CommitIsSound DEF SoundInv
<1> DEFINE new == Append(base[w], CommitOn(base[w], subject[w]))
<1>3. /\ local' = [local EXCEPT ![CloneOf[w]] = new]
      /\ base' = [base EXCEPT ![w] = <<>>]
      /\ UNCHANGED <<remote, fetched, sent, target, replayed>>
  BY DEF CasWins, flushers
<1> HIDE DEF new
<1>4. \A c \in Clone : Sound(local'[c], replayed)
  BY <1>2, <1>3 DEF SoundInv, TypeOK, new
<1>5. \A v \in Writer : Sound(base'[v], replayed)
  BY <1>3, NothingIsSound DEF SoundInv, TypeOK
<1> QED BY <1>3, <1>4, <1>5 DEF SoundInv

(* A replay of sides that did not diverge is sound as they are, and a replay
   of sides that did is remembered. *)
LEMMA ReplayLocalKeepsSound ==
  ASSUME SoundInv, TypeOK', NEW f \in Flusher, ReplayLocal(f)
  PROVE  SoundInv'
<1> DEFINE mine == local[CloneOf[f]]
           theirs == fetched[CloneOf[f]]
<1>1. /\ mine \in Seq(Commit) /\ theirs \in Seq(Commit)
      /\ Sound(mine, replayed) /\ Sound(theirs, replayed)
  BY CloneAssumption DEF SoundInv, TypeOK
<1>2. /\ target' = [target EXCEPT ![f] = Replay(mine, theirs)]
      /\ replayed' = IF Diverged(mine, theirs) THEN replayed \cup WritesIn(Above(mine, theirs))
                                               ELSE replayed
      /\ UNCHANGED <<remote, local, fetched, base, sent>>
  BY DEF ReplayLocal, refs, writers
<1> HIDE DEF mine, theirs
<1>3. replayed \subseteq replayed'
  BY <1>2
<1>4. \A h : Sound(h, replayed) => Sound(h, replayed')
  BY <1>3 DEF Sound
<1>5. Sound(Replay(mine, theirs), replayed')
  <2>1. CASE Diverged(mine, theirs)
    BY <1>1, <1>2, <2>1, ReplayIsOneSide DEF Sound
  <2>2. CASE ~Diverged(mine, theirs)
    BY <1>1, <1>4, <2>2, ReplayIsOneSide DEF Diverged
  <2> QED BY <2>1, <2>2
<1>6. \A g \in Flusher : Sound(target'[g], replayed')
  BY <1>2, <1>4, <1>5 DEF SoundInv, TypeOK
<1> QED BY <1>2, <1>4, <1>6 DEF SoundInv

(* A clone or a process takes over another history, or keeps its own. *)
LEMMA SetAt ==
  ASSUME NEW D, NEW V, NEW g \in [D -> V], NEW d, NEW v
  PROVE  \A x \in D : [g EXCEPT ![d] = v][x] \in {g[x], v}
OBVIOUS

LEMMA SoundInvStep == SoundInv /\ [Next]_vars => SoundInv'
<1> SUFFICES ASSUME SoundInv, [Next]_vars PROVE SoundInv'
  OBVIOUS
<1>1. TypeOK'
  BY NextTypeOK DEF SoundInv
<1>2. /\ local \in [Clone -> Seq(Commit)] /\ fetched \in [Clone -> Seq(Commit)]
      /\ base \in [Writer -> Seq(Commit)]
      /\ sent \in [Flusher -> Seq(Commit)] /\ target \in [Flusher -> Seq(Commit)]
      /\ \A p \in Writer \cup Flusher \cup Reader : CloneOf[p] \in Clone
  BY CloneAssumption DEF SoundInv, TypeOK
<1>3. /\ Sound(remote, replayed) /\ Sound(<<>>, replayed)
      /\ \A c \in Clone : Sound(local[c], replayed) /\ Sound(fetched[c], replayed)
      /\ \A w \in Writer : Sound(base[w], replayed)
      /\ \A f \in Flusher : Sound(sent[f], replayed) /\ Sound(target[f], replayed)
  BY NothingIsSound DEF SoundInv
<1>4. ASSUME replayed' = replayed, Sound(remote', replayed),
             \A c \in Clone : Sound(local'[c], replayed) /\ Sound(fetched'[c], replayed),
             \A w \in Writer : Sound(base'[w], replayed),
             \A f \in Flusher : Sound(sent'[f], replayed) /\ Sound(target'[f], replayed)
      PROVE  SoundInv'
  BY <1>1, <1>4 DEF SoundInv
<1>5. ASSUME NEW w \in Writer,
             Build(w) \/ CasLoses(w) \/ Enqueue(w) \/ WriterStops(w)
      PROVE  SoundInv'
  <2>1. /\ UNCHANGED <<remote, local, fetched, sent, target, replayed>>
        /\ \/ base' = [base EXCEPT ![w] = local[CloneOf[w]]]
           \/ base' = [base EXCEPT ![w] = <<>>]
           \/ base' = base
    BY <1>5 DEF Build, CasLoses, Enqueue, WriterStops, refs, flushers, history
  <2>2. \A v \in Writer : base'[v] \in {base[v], local[CloneOf[w]], <<>>}
    BY <1>2, <2>1, SetAt
  <2> QED BY <1>2, <1>3, <1>4, <2>1, <2>2
<1>6. ASSUME NEW f \in Flusher, PushReads(f) \/ PushAccepted(f) \/ PushFails(f)
      PROVE  SoundInv'
  <2>1. /\ UNCHANGED <<local, fetched, base, target, replayed>>
        /\ remote' = remote \/ remote' = sent[f]
        /\ \/ sent' = [sent EXCEPT ![f] = local[CloneOf[f]]]
           \/ sent' = [sent EXCEPT ![f] = <<>>]
           \/ sent' = sent
    BY <1>6 DEF PushReads, PushAccepted, PushFails, refs, writers, history
  <2>2. \A g \in Flusher : sent'[g] \in {sent[g], local[CloneOf[f]], <<>>}
    BY <1>2, <2>1, SetAt
  <2> QED BY <1>2, <1>3, <1>4, <2>1, <2>2
<1>7. ASSUME NEW f \in Flusher, Fetch(f) PROVE SoundInv'
  <2>1. /\ UNCHANGED <<remote, local, base, sent, target, replayed>>
        /\ fetched' = [fetched EXCEPT ![CloneOf[f]] = remote]
    BY <1>7 DEF Fetch, writers, history
  <2>2. \A c \in Clone : fetched'[c] \in {fetched[c], remote}
    BY <1>2, <2>1, SetAt
  <2> QED BY <1>3, <1>4, <2>1, <2>2
<1>8. ASSUME NEW f \in Flusher, Advance(f) PROVE SoundInv'
  <2>1. /\ UNCHANGED <<remote, base, sent, replayed>>
        /\ local' = [local EXCEPT ![CloneOf[f]] = target[f]]
        /\ fetched' = [fetched EXCEPT ![CloneOf[f]] = <<>>]
        /\ target' = [target EXCEPT ![f] = <<>>]
    BY <1>8 DEF Advance, writers, history
  <2>2. /\ \A c \in Clone : local'[c] \in {local[c], target[f]}
        /\ \A c \in Clone : fetched'[c] \in {fetched[c], <<>>}
        /\ \A g \in Flusher : target'[g] \in {target[g], <<>>}
    BY <1>2, <2>1, SetAt
  <2> QED BY <1>3, <1>4, <2>1, <2>2
<1>9. ASSUME NEW f \in Flusher, Drain(f) \/ Dequeue(f) \/ FlusherStops(f)
      PROVE  SoundInv'
  <2>1. /\ UNCHANGED <<remote, local, fetched, base, replayed>>
        /\ sent' = sent \/ sent' = [sent EXCEPT ![f] = <<>>]
        /\ target' = target \/ target' = [target EXCEPT ![f] = <<>>]
    BY <1>9 DEF Drain, Dequeue, FlusherStops, refs, writers, history
  <2>2. /\ \A g \in Flusher : sent'[g] \in {sent[g], <<>>}
        /\ \A g \in Flusher : target'[g] \in {target[g], <<>>}
    BY <1>2, <2>1, SetAt
  <2> QED BY <1>3, <1>4, <2>1, <2>2
<1>10. ASSUME NEW r \in Reader, FetchMissing(r) PROVE SoundInv'
  <2>1. /\ UNCHANGED <<remote, fetched, base, sent, target, replayed>>
        /\ local' = local \/ local' = [local EXCEPT ![CloneOf[r]] = remote]
    BY <1>10 DEF FetchMissing, writers, flushers, history
  <2>2. \A c \in Clone : local'[c] \in {local[c], remote}
    BY <1>2, <2>1, SetAt
  <2> QED BY <1>3, <1>4, <2>1, <2>2
<1>11. ASSUME UNCHANGED <<remote, local, fetched, base, sent, target, replayed>>
       PROVE  SoundInv'
  BY <1>3, <1>4, <1>11
<1>12. ASSUME NEW w \in Writer, NEW s \in Session, StartWrite(w, s) PROVE SoundInv'
  BY <1>11, <1>12 DEF StartWrite, refs, flushers, history
<1>13. ASSUME NEW r \in Reader, MissLocally(r) PROVE SoundInv'
  BY <1>11, <1>13 DEF MissLocally, refs, writers, flushers, history
<1>14. CASE UNCHANGED vars
  BY <1>11, <1>14 DEF vars, refs, writers, flushers, history
<1> QED
  BY <1>1, <1>5, <1>6, <1>7, <1>8, <1>9, <1>10, <1>12, <1>13, <1>14,
     CasWinsKeepsSound, ReplayLocalKeepsSound
     DEF Next, WriterStep, FlusherStep, Quiescent

(* Whatever writers, hooks and readers do on however many machines, a session
   that reached the remote is listed there and its directory is its own,
   unless a hook replayed commits onto a remote that had gone its own way. *)
THEOREM ReadableUnlessReplayedCorrect == Spec => []ReadableUnlessReplayed
<1>1. SoundInv => ReadableUnlessReplayed
  <2> SUFFICES ASSUME SoundInv, WellFormed(remote), NEW x \in WritesIn(remote)
               PROVE  Readable(remote, x[1])
    BY DEF SoundInv, Sound, ReadableUnlessReplayed, PublishedReadable
  <2>1. remote \in Seq(Commit)
    BY DEF SoundInv, TypeOK
  <2>2. PICK i \in 1..Len(remote) : x = remote[i].write
    BY <2>1, CommitsAre DEF WritesIn, ToSet
  <2> QED BY <2>1, <2>2, WrittenIsReadable
<1> QED
  BY <1>1, SoundInvInit, SoundInvStep, PTL DEF Spec

=============================================================================
