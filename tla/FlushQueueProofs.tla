-------------------------- MODULE FlushQueueProofs --------------------------
(***************************************************************************)
(* Theorems about FlushQueue, for any number of refs and hooks and a queue *)
(* file of any length.                                                     *)
(***************************************************************************)
EXTENDS FlushQueue, SequenceTheorems, FunctionTheorems, FiniteSetTheorems, TLAPS

-----------------------------------------------------------------------------
(***************************************************************************)
(* Reading and rewriting the queue file.                                   *)
(***************************************************************************)

LEMMA LeastNatural ==
  ASSUME NEW T \in SUBSET Nat, T # {}
  PROVE  \E m \in T : \A k \in T : m <= k
<1>1. IsWellFoundedOn(OpToRel(<, Nat), Nat)
  BY NatLessThanWellFounded
<1>2. PICK m \in T : \A k \in T : ~(<<k, m>> \in OpToRel(<, Nat))
  BY <1>1, WFMin
<1>3. ASSUME NEW k \in T PROVE m <= k
  <2>1. m \in Nat /\ k \in Nat
    OBVIOUS
  <2>2. ~(k < m)
    BY <1>2, <2>1 DEF OpToRel
  <2> QED BY <2>1, <2>2
<1> QED BY <1>3

(* Positions are ranked without gaps: the n-th line exists. *)
LEMMA RankIs ==
  ASSUME NEW n \in Nat, NEW P \in SUBSET (1..n)
  PROVE  /\ IsFiniteSet(P)
         /\ \A i \in P : Rank(P, i) \in 1..Cardinality(P)
         /\ \A i, j \in P : i < j => Rank(P, i) < Rank(P, j)
         /\ \A k \in 1..Cardinality(P) : \E i \in P : Rank(P, i) = k
<1>1. IsFiniteSet(P) /\ Cardinality(P) \in Nat
  <2>1. IsFiniteSet(1..n)
    BY FS_Interval
  <2> QED BY <2>1, FS_Subset, FS_CardinalityType
<1> DEFINE Upto(i) == {j \in P : j <= i}
<1>2. \A i \in P : IsFiniteSet(Upto(i)) /\ Cardinality(Upto(i)) \in Nat
                   /\ Cardinality(Upto(i)) <= Cardinality(P)
  BY <1>1, FS_Subset, FS_CardinalityType
<1>3. \A i \in P : Rank(P, i) \in 1..Cardinality(P)
  <2> SUFFICES ASSUME NEW i \in P PROVE Rank(P, i) \in 1..Cardinality(P)
    OBVIOUS
  <2>1. i \in Upto(i)
    OBVIOUS
  <2>2. Cardinality(Upto(i)) # 0
    BY <1>2, <2>1, FS_EmptySet
  <2> QED BY <1>1, <1>2, <2>2 DEF Rank
<1>4. ASSUME NEW i \in P, NEW j \in P, i < j
      PROVE  Rank(P, i) < Rank(P, j)
  <2>1. ASSUME NEW k \in Upto(i) PROVE k \in Upto(j)
    <3>1. i \in Nat /\ j \in Nat /\ k \in Nat
      OBVIOUS
    <3> QED BY <1>4, <3>1
  <2>2. j \in Upto(j) /\ j \notin Upto(i)
    BY <1>4
  <2>3. /\ Cardinality(Upto(i)) <= Cardinality(Upto(j))
        /\ Cardinality(Upto(i)) # Cardinality(Upto(j))
    <3>1. Upto(i) \in SUBSET Upto(j)
      BY <2>1
    <3> QED BY <1>2, <2>2, <3>1, FS_Subset
  <2> QED BY <1>2, <2>3 DEF Rank
<1>5. \A k \in 1..Cardinality(P) : \E i \in P : Rank(P, i) = k
  <2> DEFINE rank == [i \in P |-> Rank(P, i)]
  <2>1. rank \in [P -> 1..Cardinality(P)]
    BY <1>3
  <2>2. \A i, j \in P : rank[i] = rank[j] => i = j
    BY <1>3, <1>4
  <2>3. rank \in Injection(P, 1..Cardinality(P))
    BY <2>1, <2>2, Fun_IsInj
  <2>4. IsFiniteSet(1..Cardinality(P)) /\ Cardinality(1..Cardinality(P)) = Cardinality(P)
    BY <1>1, FS_Interval
  <2>5. rank \in Surjection(P, 1..Cardinality(P))
    BY <2>3, <2>4, FS_Injection
  <2>6. \A k \in 1..Cardinality(P) : \E i \in P : rank[i] = k
    BY <2>5 DEF Surjection
  <2> QED BY <2>6
<1> QED BY <1>1, <1>3, <1>4, <1>5

Distinct(q) == \A i, j \in 1..Len(q) : q[i] = q[j] => i = j

LEMMA LinesAtIs ==
  ASSUME NEW R, NEW q \in Seq(R), NEW P \in SUBSET (1..Len(q))
  PROVE  /\ LinesAt(q, P) \in Seq(R)
         /\ ToSet(LinesAt(q, P)) = {q[i] : i \in P}
         /\ (\A i, j \in P : q[i] = q[j] => i = j) => Distinct(LinesAt(q, P))
<1> DEFINE size == Cardinality(P)
           nth == [k \in 1..size |-> CHOOSE i \in P : Rank(P, i) = k]
<1>1. Len(q) \in Nat /\ q \in [1..Len(q) -> R]
  BY LenProperties
<1>2. size \in Nat
  BY <1>1, RankIs, FS_CardinalityType
<1>3. /\ \A i \in P : Rank(P, i) \in 1..size
      /\ \A i, j \in P : i < j => Rank(P, i) < Rank(P, j)
      /\ \A k \in 1..size : \E i \in P : Rank(P, i) = k
  BY <1>1, RankIs
<1>4. \A k \in 1..size : nth[k] \in P /\ Rank(P, nth[k]) = k
  BY <1>3
<1> HIDE DEF nth, size
<1>5. \A i \in P : Rank(P, i) \in 1..size /\ nth[Rank(P, i)] = i
  <2> SUFFICES ASSUME NEW i \in P
               PROVE  Rank(P, i) \in 1..size /\ nth[Rank(P, i)] = i
    OBVIOUS
  <2>1. Rank(P, i) \in 1..size
    BY <1>3
  <2> DEFINE j == nth[Rank(P, i)]
  <2>2. j \in P /\ Rank(P, j) = Rank(P, i)
    BY <1>4, <2>1
  <2> HIDE DEF j
  <2>3. Rank(P, i) \in Nat /\ i \in Nat /\ j \in Nat
    BY <1>1, <1>2, <2>1, <2>2
  <2>4. ~(i < j)
    BY <1>3, <2>2, <2>3
  <2>5. ~(j < i)
    BY <1>3, <2>2, <2>3
  <2>6. i = j
    BY <2>3, <2>4, <2>5
  <2> QED BY <2>1, <2>6 DEF j
<1>6. LinesAt(q, P) = [k \in 1..size |-> q[nth[k]]]
  BY DEF LinesAt, nth, size
<1>7. \A k \in 1..size : q[nth[k]] \in R
  BY <1>1, <1>4
<1>8. LinesAt(q, P) \in Seq(R) /\ Len(LinesAt(q, P)) = size
  BY <1>2, <1>6, <1>7
<1>9. ToSet(LinesAt(q, P)) = {q[i] : i \in P}
  <2>1. ToSet(LinesAt(q, P)) = {q[nth[k]] : k \in 1..size}
    BY <1>6 DEF ToSet
  <2> QED BY <1>4, <1>5, <2>1
<1>10. ASSUME \A i, j \in P : q[i] = q[j] => i = j
      PROVE  Distinct(LinesAt(q, P))
  <2> SUFFICES ASSUME NEW k \in 1..size, NEW l \in 1..size, q[nth[k]] = q[nth[l]]
               PROVE  k = l
    BY <1>6, <1>8 DEF Distinct
  <2>1. nth[k] = nth[l]
    BY <1>4, <1>10
  <2> QED BY <1>4, <2>1
<1> QED BY <1>8, <1>9, <1>10

LEMMA ElementsOf ==
  ASSUME NEW R, NEW q \in Seq(R)
  PROVE  /\ ToSet(q) = {q[i] : i \in 1..Len(q)}
         /\ ToSet(q) \subseteq R
         /\ \A r : Contains(q, r) <=> r \in ToSet(q)
         /\ ToSet(q) = {} <=> q = <<>>
<1>1. Len(q) \in Nat /\ DOMAIN q = 1..Len(q) /\ q \in [1..Len(q) -> R]
  BY LenProperties
<1>2. ToSet(q) = {q[i] : i \in 1..Len(q)}
  BY <1>1 DEF ToSet
<1>3. ToSet(q) = {} => q = <<>>
  <2>1. ASSUME q # <<>> PROVE 1 \in 1..Len(q)
    BY <1>1, <2>1
  <2> QED BY <1>2, <2>1
<1>4. q = <<>> => ToSet(q) = {}
  BY <1>2
<1>5. ToSet(q) \subseteq R
  BY <1>1, <1>2
<1>6. \A r : Contains(q, r) <=> r \in ToSet(q)
  BY <1>2 DEF Contains
<1> QED BY <1>2, <1>3, <1>4, <1>5, <1>6

(* Of equal lines the first one is kept, and nothing else is lost. *)
LEMMA FirstSeenIs ==
  ASSUME NEW R, NEW q \in Seq(R)
  PROVE  /\ FirstSeen(q) \in SUBSET (1..Len(q))
         /\ \A i, j \in FirstSeen(q) : q[i] = q[j] => i = j
         /\ \A r \in ToSet(q) : \E i \in FirstSeen(q) : q[i] = r
<1>1. Len(q) \in Nat
  BY LenProperties
<1>2. \A i, j \in FirstSeen(q) : q[i] = q[j] => i = j
  <2> SUFFICES ASSUME NEW i \in FirstSeen(q), NEW j \in FirstSeen(q), q[i] = q[j], i < j
               PROVE  FALSE
    BY <1>1 DEF FirstSeen
  <2>1. i \in 1..j - 1
    BY <1>1 DEF FirstSeen
  <2> QED BY <2>1 DEF FirstSeen
<1>3. ASSUME NEW r \in ToSet(q)
      PROVE  \E i \in FirstSeen(q) : q[i] = r
  <2> DEFINE T == {i \in 1..Len(q) : q[i] = r}
  <2>1. T \in SUBSET Nat
    BY <1>1
  <2>2. T # {}
    BY ElementsOf
  <2>3. PICK m \in T : \A k \in T : m <= k
    BY <2>1, <2>2, LeastNatural
  <2>4. ASSUME NEW k \in 1..m - 1 PROVE q[k] # q[m]
    <3>1. m \in 1..Len(q) /\ k \in 1..Len(q) /\ k < m
      BY <1>1
    <3>2. k \notin T
      BY <2>3, <3>1
    <3> QED BY <3>1, <3>2
  <2> QED BY <2>4 DEF FirstSeen
<1> QED BY <1>2, <1>3 DEF FirstSeen

LEMMA DedupedIs ==
  ASSUME NEW R, NEW q \in Seq(R)
  PROVE  /\ Deduped(q) \in Seq(R)
         /\ ToSet(Deduped(q)) = ToSet(q)
         /\ Distinct(Deduped(q))
<1> DEFINE P == FirstSeen(q)
<1>1. /\ P \in SUBSET (1..Len(q))
      /\ \A i, j \in P : q[i] = q[j] => i = j
      /\ \A r \in ToSet(q) : \E i \in P : q[i] = r
  BY FirstSeenIs
<1>2. {q[i] : i \in P} = ToSet(q)
  BY <1>1, ElementsOf
<1>3. Deduped(q) = LinesAt(q, P)
  BY DEF Deduped
<1> HIDE DEF P
<1>4. /\ LinesAt(q, P) \in Seq(R)
      /\ ToSet(LinesAt(q, P)) = {q[i] : i \in P}
      /\ Distinct(LinesAt(q, P))
  BY <1>1, LinesAtIs
<1> QED BY <1>2, <1>3, <1>4

LEMMA OnlyIs ==
  ASSUME NEW R, NEW q \in Seq(R), NEW S
  PROVE  /\ Only(q, S) \in Seq(R)
         /\ ToSet(Only(q, S)) = ToSet(q) \cap S
         /\ Distinct(Only(q, S))
<1> DEFINE P == {i \in FirstSeen(q) : q[i] \in S}
<1>1. /\ FirstSeen(q) \in SUBSET (1..Len(q))
      /\ \A i, j \in FirstSeen(q) : q[i] = q[j] => i = j
      /\ \A r \in ToSet(q) : \E i \in FirstSeen(q) : q[i] = r
  BY FirstSeenIs
<1>2. P \in SUBSET (1..Len(q)) /\ \A i, j \in P : q[i] = q[j] => i = j
  BY <1>1
<1>3. {q[i] : i \in P} = ToSet(q) \cap S
  BY <1>1, ElementsOf
<1>4. Only(q, S) = LinesAt(q, P)
  BY DEF Only
<1> HIDE DEF P
<1> QED BY <1>2, <1>3, <1>4, LinesAtIs

LEMMA RemovedIs ==
  ASSUME NEW q \in Seq(Ref), NEW S \in SUBSET Ref
  PROVE  /\ Removed(q, S) \in Seq(Ref)
         /\ ToSet(Removed(q, S)) = ToSet(q) \ S
<1>1. ToSet(q) \subseteq Ref
  BY ElementsOf
<1> QED BY <1>1, OnlyIs DEF Removed, Without

LEMMA AppendedIs ==
  ASSUME NEW q \in Seq(Ref), NEW r \in Ref
  PROVE  /\ Append(q, r) \in Seq(Ref)
         /\ ToSet(Append(q, r)) = ToSet(q) \cup {r}
<1>1. /\ Append(q, r) \in Seq(Ref)
      /\ Len(Append(q, r)) = Len(q) + 1
      /\ \A i \in 1..Len(q) : Append(q, r)[i] = q[i]
      /\ Append(q, r)[Len(q) + 1] = r
      /\ Len(q) \in Nat
  OBVIOUS
<1>2. /\ ToSet(q) = {q[i] : i \in 1..Len(q)}
      /\ ToSet(Append(q, r)) = {Append(q, r)[i] : i \in 1..Len(q) + 1}
  <2>1. ToSet(q) = {q[i] : i \in 1..Len(q)}
    BY ElementsOf
  <2> DEFINE more == Append(q, r)
  <2>2. more \in Seq(Ref) /\ Len(more) = Len(q) + 1
    BY <1>1
  <2> HIDE DEF more
  <2>3. ToSet(more) = {more[i] : i \in 1..Len(q) + 1}
    BY <2>2, ElementsOf
  <2> QED BY <2>1, <2>3 DEF more
<1>3. 1..Len(q) + 1 = (1..Len(q)) \cup {Len(q) + 1}
  BY <1>1
<1> QED BY <1>1, <1>2, <1>3

LEMMA JoinedIs ==
  ASSUME NEW q \in Seq(Ref), NEW t \in Seq(Ref)
  PROVE  /\ q \o t \in Seq(Ref)
         /\ ToSet(q \o t) = ToSet(q) \cup ToSet(t)
<1>1. /\ q \o t \in Seq(Ref)
      /\ Len(q) \in Nat /\ Len(t) \in Nat /\ Len(q \o t) = Len(q) + Len(t)
      /\ \A i \in 1..Len(q) : (q \o t)[i] = q[i]
      /\ \A i \in 1..Len(t) : (q \o t)[Len(q) + i] = t[i]
  OBVIOUS
<1>2. /\ ToSet(q) = {q[i] : i \in 1..Len(q)}
      /\ ToSet(t) = {t[i] : i \in 1..Len(t)}
      /\ ToSet(q \o t) = {(q \o t)[i] : i \in 1..Len(q) + Len(t)}
  BY <1>1, ElementsOf
<1>3. ASSUME NEW i \in 1..Len(q) + Len(t)
      PROVE  i \in 1..Len(q) \/ \E j \in 1..Len(t) : i = Len(q) + j
  <2>1. i > Len(q) => i - Len(q) \in 1..Len(t) /\ i = Len(q) + (i - Len(q))
    BY <1>1
  <2> QED BY <1>1, <2>1
<1>4. \A j \in 1..Len(t) : Len(q) + j \in 1..Len(q) + Len(t)
  BY <1>1
<1>5. \A i \in 1..Len(q) : i \in 1..Len(q) + Len(t)
  BY <1>1
<1> QED BY <1>1, <1>2, <1>3, <1>4, <1>5

(* A rotation loses no line and adds none. *)
LEMMA RotatedIs ==
  ASSUME NEW q \in Seq(Ref), NEW S \in SUBSET Ref
  PROVE  /\ Rotated(q, S) \in Seq(Ref)
         /\ ToSet(Rotated(q, S)) = ToSet(q)
<1>1. ToSet(q) \subseteq Ref
  BY ElementsOf
<1>2. /\ Without(q, S) \in Seq(Ref) /\ ToSet(Without(q, S)) = ToSet(q) \ S
      /\ Only(q, S) \in Seq(Ref) /\ ToSet(Only(q, S)) = ToSet(q) \cap S
  BY <1>1, OnlyIs DEF Without
<1>3. /\ Without(q, S) \o Only(q, S) \in Seq(Ref)
      /\ ToSet(Without(q, S) \o Only(q, S)) = ToSet(q)
  BY <1>2, JoinedIs
<1> QED BY <1>3 DEF Rotated

LEMMA TailIs ==
  ASSUME NEW q \in Seq(Ref), q # <<>>, Distinct(q)
  PROVE  /\ Tail(q) \in Seq(Ref) /\ Distinct(Tail(q))
         /\ Head(q) \in ToSet(q) /\ ToSet(Tail(q)) = ToSet(q) \ {Head(q)}
<1>1. /\ Tail(q) \in Seq(Ref) /\ Len(q) \in Nat \ {0} /\ Len(Tail(q)) = Len(q) - 1
      /\ \A i \in 1..Len(q) - 1 : Tail(q)[i] = q[i + 1]
      /\ Head(q) = q[1]
  OBVIOUS
<1>2. /\ ToSet(q) = {q[i] : i \in 1..Len(q)}
      /\ ToSet(Tail(q)) = {Tail(q)[i] : i \in 1..Len(q) - 1}
  BY <1>1, ElementsOf
<1>3. Distinct(Tail(q))
  <2> SUFFICES ASSUME NEW i \in 1..Len(q) - 1, NEW j \in 1..Len(q) - 1,
                      Tail(q)[i] = Tail(q)[j]
               PROVE  i = j
    BY <1>1 DEF Distinct
  <2>1. i + 1 \in 1..Len(q) /\ j + 1 \in 1..Len(q) /\ q[i + 1] = q[j + 1]
    BY <1>1
  <2>2. i + 1 = j + 1
    BY <2>1 DEF Distinct
  <2> QED BY <1>1, <2>2
<1>4. ASSUME NEW i \in 1..Len(q)
      PROVE  i = 1 \/ \E j \in 1..Len(q) - 1 : i = j + 1
  <2>1. i # 1 => i - 1 \in 1..Len(q) - 1 /\ i = (i - 1) + 1
    BY <1>1
  <2> QED BY <2>1
<1>5. ASSUME NEW j \in 1..Len(q) - 1
      PROVE  j + 1 \in 1..Len(q) /\ Tail(q)[j] = q[j + 1] /\ q[j + 1] # q[1]
  <2>1. j + 1 \in 1..Len(q) /\ 1 \in 1..Len(q) /\ j + 1 # 1
    BY <1>1
  <2> QED BY <1>1, <2>1 DEF Distinct
<1>6. 1 \in 1..Len(q)
  BY <1>1
<1>7. Head(q) \in ToSet(q)
  BY <1>1, <1>2, <1>6
<1>8. ToSet(Tail(q)) \subseteq ToSet(q) \ {Head(q)}
  BY <1>1, <1>2, <1>5
<1>9. ToSet(q) \ {Head(q)} \subseteq ToSet(Tail(q))
  <2> SUFFICES ASSUME NEW i \in 1..Len(q), q[i] # q[1]
               PROVE  q[i] \in ToSet(Tail(q))
    BY <1>1, <1>2
  <2>1. PICK j \in 1..Len(q) - 1 : i = j + 1
    BY <1>4
  <2> QED BY <1>2, <1>5, <2>1
<1> QED BY <1>1, <1>3, <1>7, <1>8, <1>9

-----------------------------------------------------------------------------
(***************************************************************************)
(* The invariant.                                                          *)
(***************************************************************************)

(* What a flush has in hand: each ref once, none of them tried already, and
   nothing it counts as pushed that did not land. *)
HookOK(h) ==
  /\ Distinct(todo[h])
  /\ ToSet(todo[h]) \subseteq enqueued
  /\ ToSet(todo[h]) \cap (pushed[h] \cup failed[h]) = {}
  /\ pushed[h] \subseteq landed
  /\ pc[h] \in {"idle", "stale", "batch"} => pushed[h] = {} /\ failed[h] = {}

LinesOK == ToSet(lines) \subseteq enqueued

IInv ==
  /\ TypeOK
  /\ LinesOK
  /\ \A h \in Hook : HookOK(h)
  /\ HeldUntilLanded

(* A step of hook h leaves the other hooks alone. *)
OnlyHook(h) ==
  \A k \in Hook \ {h} :
    /\ pc'[k] = pc[k] /\ todo'[k] = todo[k]
    /\ pushed'[k] = pushed[k] /\ failed'[k] = failed[k]

LEMMA HeldIs ==
  ASSUME lines \in Seq(Ref)
  PROVE  HeldUntilLanded <=> \A r \in enqueued \cap Present : r \in landed \/ r \in ToSet(lines)
BY ElementsOf DEF HeldUntilLanded

LEMMA HeldNext ==
  lines' \in Seq(Ref) =>
    (HeldUntilLanded' <=>
       \A r \in enqueued' \cap Present : r \in landed' \/ r \in ToSet(lines'))
BY ElementsOf DEF HeldUntilLanded

LEMMA EmptyIs ==
  /\ <<>> \in Seq(Ref) /\ Distinct(<<>>) /\ ToSet(<<>>) = {}
BY DEF Distinct, ToSet

LEMMA OneHookKeeps ==
  ASSUME IInv, NEW h \in Hook, TypeOK', OnlyHook(h), HookOK(h)', LinesOK',
         enqueued \subseteq enqueued', landed \subseteq landed',
         \A r \in enqueued' \cap Present : r \in landed' \/ r \in ToSet(lines')
  PROVE  IInv'
<1>1. ASSUME NEW k \in Hook, k # h PROVE HookOK(k)'
  BY <1>1 DEF IInv, HookOK, OnlyHook
<1>2. HeldUntilLanded'
  BY HeldNext DEF TypeOK
<1> QED BY <1>1, <1>2 DEF IInv

(* A flush that ends, after a last rewrite of the queue or without one. *)
LEMMA ForgetKeeps ==
  ASSUME IInv, NEW h \in Hook, Forget(h), UNCHANGED history, lines' \in Seq(Ref),
         ToSet(lines') \subseteq ToSet(lines),
         \A r \in ToSet(lines) \cap Present : r \in landed \/ r \in ToSet(lines')
  PROVE  IInv'
<1>1. TypeOK'
  BY EmptyIs, BoundAssumption DEF IInv, TypeOK, Forget, Goto, history, Reasons
<1>2. OnlyHook(h)
  BY DEF IInv, TypeOK, OnlyHook, Forget, Goto
<1>3. HookOK(h)'
  BY EmptyIs DEF IInv, TypeOK, HookOK, Forget, Goto
<1>4. LinesOK'
  BY DEF IInv, LinesOK, history
<1>5. \A r \in enqueued' \cap Present : r \in landed' \/ r \in ToSet(lines')
  BY HeldIs DEF IInv, TypeOK, history
<1> QED BY <1>1, <1>2, <1>3, <1>4, <1>5, OneHookKeeps DEF history

LEMMA EnqueueKeeps ==
  ASSUME IInv, NEW r \in Ref, Enqueue(r)
  PROVE  IInv'
<1>1. lines' \in Seq(Ref) /\ ToSet(lines') = ToSet(lines) \cup {r}
  BY AppendedIs DEF IInv, TypeOK, Enqueue
<1>2. TypeOK'
  BY <1>1 DEF IInv, TypeOK, Enqueue, hooks
<1>3. \A h \in Hook : HookOK(h)'
  BY DEF IInv, HookOK, Enqueue, hooks
<1>4. LinesOK'
  BY <1>1 DEF IInv, LinesOK, Enqueue
<1>5. HeldUntilLanded'
  BY <1>1, HeldIs, HeldNext DEF IInv, TypeOK, Enqueue
<1> QED BY <1>2, <1>3, <1>4, <1>5 DEF IInv

LEMMA DrainKeeps ==
  ASSUME IInv, NEW h \in Hook, Drain(h)
  PROVE  IInv'
<1>1. /\ Deduped(lines) \in Seq(Ref)
      /\ ToSet(Deduped(lines)) = ToSet(lines)
      /\ Distinct(Deduped(lines))
  BY DedupedIs DEF IInv, TypeOK
<1>2. TypeOK'
  BY <1>1 DEF IInv, TypeOK, Drain, Goto, history
<1>3. OnlyHook(h)
  BY DEF IInv, TypeOK, OnlyHook, Drain, Goto
<1>4. HookOK(h)'
  BY <1>1 DEF IInv, TypeOK, HookOK, LinesOK, Drain, Goto, history
<1>5. LinesOK'
  BY <1>1 DEF IInv, LinesOK, Drain, history
<1>6. \A r \in enqueued' \cap Present : r \in landed' \/ r \in ToSet(lines')
  BY <1>1, HeldIs DEF IInv, TypeOK, Drain, history
<1> QED BY <1>2, <1>3, <1>4, <1>5, <1>6, OneHookKeeps DEF Drain, history

LEMMA PruneStaleKeeps ==
  ASSUME IInv, NEW h \in Hook, PruneStale(h)
  PROVE  IInv'
<1> DEFINE left == Only(todo[h], Present)
<1>1. todo[h] \in Seq(Ref) /\ ToSet(todo[h]) \subseteq Ref /\ lines \in Seq(Ref)
  BY ElementsOf DEF IInv, TypeOK
<1>2. left \in Seq(Ref) /\ ToSet(left) = ToSet(todo[h]) \cap Present /\ Distinct(left)
  BY <1>1, OnlyIs
<1>3. /\ lines' \in Seq(Ref)
      /\ ToSet(lines') \subseteq ToSet(lines)
      /\ ToSet(lines) \cap Present \subseteq ToSet(lines')
  <2>1. CASE lines' = Removed(lines, ToSet(todo[h]) \ Present)
    BY <1>1, <2>1, RemovedIs
  <2>2. CASE UNCHANGED lines
    BY <1>1, <2>2
  <2> QED BY <2>1, <2>2 DEF PruneStale
<1>4. /\ pc[h] = "stale"
      /\ todo' = [todo EXCEPT ![h] = left]
      /\ pc' = [pc EXCEPT ![h] = IF left = <<>> THEN "idle" ELSE "batch"]
      /\ UNCHANGED <<pushed, failed, streak, reason, enqueued, landed>>
  BY DEF PruneStale, Goto, history
<1> HIDE DEF left
<1>5. TypeOK'
  BY <1>2, <1>3, <1>4 DEF IInv, TypeOK
<1>6. OnlyHook(h)
  BY <1>4 DEF IInv, TypeOK, OnlyHook
<1>7. HookOK(h)'
  BY <1>2, <1>4 DEF IInv, TypeOK, HookOK
<1>8. LinesOK'
  BY <1>3, <1>4 DEF IInv, LinesOK
<1>9. \A r \in enqueued' \cap Present : r \in landed' \/ r \in ToSet(lines')
  BY <1>1, <1>3, <1>4, HeldIs DEF IInv
<1> QED BY <1>4, <1>5, <1>6, <1>7, <1>8, <1>9, OneHookKeeps

LEMMA BatchLandsKeeps ==
  ASSUME IInv, NEW h \in Hook, BatchLands(h)
  PROVE  IInv'
<1>1. ToSet(todo[h]) \subseteq Ref /\ ToSet(todo[h]) \subseteq enqueued
  BY ElementsOf DEF IInv, TypeOK, HookOK
<1>2. pushed[h] = {} /\ failed[h] = {}
  BY DEF IInv, HookOK, BatchLands
<1>3. TypeOK'
  BY <1>1, <1>2, EmptyIs DEF IInv, TypeOK, BatchLands, Goto
<1>4. OnlyHook(h)
  BY DEF IInv, TypeOK, OnlyHook, BatchLands, Goto
<1>5. HookOK(h)'
  BY <1>1, <1>2, EmptyIs DEF IInv, TypeOK, HookOK, BatchLands, Goto
<1>6. LinesOK'
  BY DEF IInv, LinesOK, BatchLands
<1>7. \A r \in enqueued' \cap Present : r \in landed' \/ r \in ToSet(lines')
  BY HeldIs DEF IInv, TypeOK, BatchLands
<1> QED BY <1>3, <1>4, <1>5, <1>6, <1>7, OneHookKeeps DEF BatchLands

LEMMA AttemptKeeps ==
  ASSUME IInv, NEW h \in Hook, AttemptLands(h) \/ AttemptFails(h)
  PROVE  IInv'
<1> DEFINE ref == Head(todo[h])
           rest == Tail(todo[h])
<1>1. todo[h] \in Seq(Ref) /\ todo[h] # <<>> /\ Distinct(todo[h])
  BY DEF IInv, TypeOK, HookOK, AttemptLands, AttemptFails
<1>2. /\ rest \in Seq(Ref) /\ Distinct(rest)
      /\ ref \in ToSet(todo[h]) /\ ToSet(rest) = ToSet(todo[h]) \ {ref}
  BY <1>1, TailIs
<1>3. ref \in Ref /\ ref \in enqueued /\ ref \notin pushed[h] /\ ref \notin failed[h]
  BY <1>1, <1>2, ElementsOf DEF IInv, HookOK
<1>4. /\ pc[h] = "retry" /\ todo' = [todo EXCEPT ![h] = rest]
      /\ UNCHANGED <<lines, pc, reason, enqueued>>
      /\ \/ /\ pushed' = [pushed EXCEPT ![h] = pushed[h] \cup {ref}]
            /\ landed' = landed \cup {ref}
            /\ streak' = [streak EXCEPT ![h] = 0]
            /\ UNCHANGED failed
         \/ /\ failed' = [failed EXCEPT ![h] = failed[h] \cup {ref}]
            /\ streak' = [streak EXCEPT ![h] = streak[h] + 1] /\ streak[h] < MaxConsecutive
            /\ UNCHANGED <<pushed, landed>>
  BY DEF AttemptLands, AttemptFails, history
<1> HIDE DEF ref, rest
<1>5. TypeOK'
  <2>1. streak' \in [Hook -> 0..MaxConsecutive]
    BY <1>4, BoundAssumption DEF IInv, TypeOK
  <2>2. /\ lines' \in Seq(Ref) /\ todo' \in [Hook -> Seq(Ref)]
        /\ pc' \in [Hook -> {"idle", "stale", "batch", "retry", "remove", "rotate"}]
        /\ reason' \in [Hook -> Reasons]
    BY <1>2, <1>4 DEF IInv, TypeOK
  <2>3. pushed' \in [Hook -> SUBSET Ref] /\ failed' \in [Hook -> SUBSET Ref]
    <3>1. pushed \in [Hook -> SUBSET Ref] /\ failed \in [Hook -> SUBSET Ref]
      BY DEF IInv, TypeOK
    <3>2. pushed[h] \cup {ref} \in SUBSET Ref /\ failed[h] \cup {ref} \in SUBSET Ref
      BY <1>3, <3>1
    <3>3. CASE pushed' = [pushed EXCEPT ![h] = pushed[h] \cup {ref}] /\ UNCHANGED failed
      BY <3>1, <3>2, <3>3
    <3>4. CASE failed' = [failed EXCEPT ![h] = failed[h] \cup {ref}] /\ UNCHANGED pushed
      BY <3>1, <3>2, <3>4
    <3> QED BY <1>4, <3>3, <3>4
  <2>4. landed' \subseteq enqueued' /\ enqueued' \subseteq Ref
    BY <1>3, <1>4 DEF IInv, TypeOK
  <2>5. ASSUME NEW k \in Hook PROVE pushed'[k] \cap failed'[k] = {}
    <3>1. pushed[k] \cap failed[k] = {} /\ pushed \in [Hook -> SUBSET Ref]
          /\ failed \in [Hook -> SUBSET Ref]
      BY DEF IInv, TypeOK
    <3>2. CASE k = h
      BY <1>3, <1>4, <3>1, <3>2
    <3>3. CASE k # h
      BY <1>4, <3>1, <3>3
    <3> QED BY <3>2, <3>3
  <2> QED BY <2>1, <2>2, <2>3, <2>4, <2>5 DEF TypeOK
<1>6. OnlyHook(h)
  BY <1>4 DEF IInv, TypeOK, OnlyHook
<1>7. HookOK(h)'
  BY <1>2, <1>3, <1>4 DEF IInv, TypeOK, HookOK
<1>8. LinesOK'
  BY <1>4 DEF IInv, LinesOK
<1>9. \A r \in enqueued' \cap Present : r \in landed' \/ r \in ToSet(lines')
  BY <1>4, HeldIs DEF IInv, TypeOK
<1> QED BY <1>4, <1>5, <1>6, <1>7, <1>8, <1>9, OneHookKeeps

(* A flush goes on with what it has. *)
LEMMA GoesOnKeeps ==
  ASSUME IInv, NEW h \in Hook,
         NEW step \in {"retry", "remove", "rotate"}, Goto(h, step),
         reason' \in [Hook -> Reasons], UNCHANGED <<todo, pushed, failed, streak, history>>,
         lines' \in Seq(Ref), ToSet(lines') \subseteq ToSet(lines),
         \A r \in ToSet(lines) \cap Present : r \in landed \/ r \in ToSet(lines')
  PROVE  IInv'
<1>1. TypeOK'
  BY DEF IInv, TypeOK, Goto, history
<1>2. OnlyHook(h)
  BY DEF IInv, TypeOK, OnlyHook, Goto
<1>3. HookOK(h)'
  BY DEF IInv, TypeOK, HookOK, Goto, history
<1>4. LinesOK'
  BY DEF IInv, LinesOK, history
<1>5. \A r \in enqueued' \cap Present : r \in landed' \/ r \in ToSet(lines')
  BY HeldIs DEF IInv, TypeOK, history
<1> QED BY <1>1, <1>2, <1>3, <1>4, <1>5, OneHookKeeps DEF history

LEMMA RemovePushedKeeps ==
  ASSUME IInv, NEW h \in Hook, RemovePushed(h)
  PROVE  IInv'
<1>1. lines \in Seq(Ref) /\ pushed[h] \in SUBSET Ref /\ pushed[h] \subseteq landed
  BY DEF IInv, TypeOK, HookOK
<1>2. /\ lines' \in Seq(Ref)
      /\ ToSet(lines') \subseteq ToSet(lines)
      /\ \A r \in ToSet(lines) \cap Present : r \in landed \/ r \in ToSet(lines')
  <2>1. CASE lines' = Removed(lines, pushed[h])
    BY <1>1, <2>1, RemovedIs
  <2>2. CASE UNCHANGED lines
    BY <1>1, <2>2
  <2> QED BY <2>1, <2>2 DEF RemovePushed
<1>3. CASE Forget(h)
  BY <1>2, <1>3, ForgetKeeps DEF RemovePushed
<1>4. CASE Goto(h, "rotate") /\ UNCHANGED <<todo, pushed, failed, streak, reason>>
  BY <1>2, <1>4, GoesOnKeeps DEF RemovePushed, IInv, TypeOK
<1> QED BY <1>3, <1>4 DEF RemovePushed

LEMMA RotateKeeps ==
  ASSUME IInv, NEW h \in Hook, Rotate(h)
  PROVE  IInv'
<1>1. lines \in Seq(Ref) /\ failed[h] \in SUBSET Ref
  BY DEF IInv, TypeOK
<1>2. lines' \in Seq(Ref) /\ ToSet(lines') = ToSet(lines)
  BY <1>1, RotatedIs DEF Rotate
<1> QED BY <1>2, ForgetKeeps DEF Rotate

LEMMA NextKeeps == IInv /\ [Next]_vars => IInv'
<1> SUFFICES ASSUME IInv, [Next]_vars PROVE IInv'
  OBVIOUS
<1>1. ASSUME NEW r \in Ref, Enqueue(r) PROVE IInv'
  BY <1>1, EnqueueKeeps
<1>2. ASSUME NEW h \in Hook, Drain(h) \/ HookStep(h) \/ Die(h) PROVE IInv'
  <2>1. lines \in Seq(Ref) /\ reason \in [Hook -> Reasons]
    BY DEF IInv, TypeOK
  <2>2. CASE BatchFails(h) \/ LastAttempted(h)
    BY <2>1, <2>2, GoesOnKeeps DEF BatchFails, LastAttempted, history
  <2>3. CASE StopEarly(h)
    <3>1. reason' \in [Hook -> Reasons]
      BY <2>1, <2>3 DEF StopEarly, Reasons
    <3> QED BY <2>1, <2>3, <3>1, GoesOnKeeps DEF StopEarly, history
  <2>4. CASE AuthenticationFails(h) \/ Die(h)
    BY <2>1, <2>4, ForgetKeeps DEF AuthenticationFails, Die
  <2> QED BY <1>2, <2>2, <2>3, <2>4, DrainKeeps, PruneStaleKeeps, BatchLandsKeeps, AttemptKeeps,
             RemovePushedKeeps, RotateKeeps DEF HookStep
<1>3. CASE UNCHANGED vars
  BY <1>3 DEF vars, hooks, history, IInv, TypeOK, LinesOK, HookOK, HeldUntilLanded
<1> QED BY <1>1, <1>2, <1>3 DEF Next

LEMMA InitInv == Init => IInv
<1> SUFFICES ASSUME Init PROVE IInv
  OBVIOUS
<1>1. TypeOK
  BY EmptyIs, BoundAssumption DEF Init, TypeOK, Reasons
<1>2. LinesOK /\ \A h \in Hook : HookOK(h)
  BY EmptyIs DEF Init, LinesOK, HookOK
<1>3. HeldUntilLanded
  BY DEF Init, HeldUntilLanded
<1> QED BY <1>1, <1>2, <1>3 DEF IInv

LEMMA Always == Spec => []IInv
BY InitInv, NextKeeps, PTL DEF Spec

(* Every variable has its type: among others, a flush never counts a ref both
   as pushed and as failed, and its failures in a row never exceed the cap. *)
THEOREM TypeCorrect == Spec => []TypeOK
<1>1. IInv => TypeOK
  BY DEF IInv
<1> QED BY <1>1, Always, PTL

(* Whatever hooks do to the queue file at the same time, and wherever they are
   killed, a ref that exists stays queued until it landed. *)
THEOREM HeldUntilLandedCorrect == Spec => []HeldUntilLanded
<1>1. IInv => HeldUntilLanded
  BY DEF IInv
<1> QED BY <1>1, Always, PTL

-----------------------------------------------------------------------------
(***************************************************************************)
(* The order of the queue.                                                 *)
(***************************************************************************)

(* The refs a drain would attempt before r. *)
Ahead(q, r) == {q[i] : i \in {i \in 1..Len(q) : \A j \in 1..i : q[j] # r}}

(* A line kept has ahead of it what was kept of the lines before. *)
LEMMA AheadOfKept ==
  ASSUME NEW R, NEW q \in Seq(R), NEW P \in SUBSET FirstSeen(q), NEW i \in P
  PROVE  Ahead(LinesAt(q, P), q[i]) = {q[j] : j \in {j \in P : j < i}}
<1> DEFINE size == Cardinality(P)
           nth == [k \in 1..size |-> CHOOSE j \in P : Rank(P, j) = k]
           g == LinesAt(q, P)
           m == Rank(P, i)
<1>1. /\ Len(q) \in Nat /\ P \in SUBSET (1..Len(q))
      /\ \A j, k \in P : q[j] = q[k] => j = k
  BY LenProperties, FirstSeenIs
<1>2. size \in Nat
  BY <1>1, RankIs, FS_CardinalityType
<1>3. /\ \A j \in P : Rank(P, j) \in 1..size
      /\ \A j, k \in P : j < k => Rank(P, j) < Rank(P, k)
      /\ \A k \in 1..size : \E j \in P : Rank(P, j) = k
  BY <1>1, RankIs
<1>4. \A k \in 1..size : nth[k] \in P /\ Rank(P, nth[k]) = k
  BY <1>3
<1>5. g = [k \in 1..size |-> q[nth[k]]]
  BY DEF LinesAt
<1> HIDE DEF nth, size
<1>6. Len(g) = size /\ \A k \in 1..size : g[k] = q[nth[k]]
  BY <1>2, <1>5
<1> HIDE DEF g
<1>7. \A k \in 1..size : g[k] = q[i] <=> nth[k] = i
  <2> SUFFICES ASSUME NEW k \in 1..size PROVE q[nth[k]] = q[i] <=> nth[k] = i
    BY <1>6
  <2>1. nth[k] \in P
    BY <1>4
  <2> QED BY <1>1, <2>1
<1>8. m \in 1..size /\ nth[m] = i
  <2>1. m \in 1..size
    BY <1>3
  <2> DEFINE p == nth[m]
  <2>2. p \in P /\ Rank(P, p) = m
    BY <1>4, <2>1
  <2> HIDE DEF p
  <2>3. ~(p < i) /\ ~(i < p)
    BY <1>2, <1>3, <2>1, <2>2
  <2>4. p = i
    BY <1>1, <2>2, <2>3
  <2> QED BY <2>1, <2>4 DEF p
<1> HIDE DEF m
<1>9. ASSUME NEW k \in 1..size
      PROVE  (\A l \in 1..k : g[l] # q[i]) <=> nth[k] < i
  <2>1. k < m <=> nth[k] < i
    <3> DEFINE p == nth[k]
    <3>1. p \in P /\ Rank(P, p) = k
      BY <1>4
    <3> HIDE DEF p
    <3>2. p < i => k < m
      BY <1>3, <3>1 DEF m
    <3>3. i < p => m < k
      BY <1>3, <3>1 DEF m
    <3>4. p = i => k = m
      BY <3>1 DEF m
    <3>5. p \in Nat /\ i \in Nat /\ k \in Nat /\ m \in Nat
      BY <1>1, <1>2, <1>8, <3>1
    <3> QED BY <3>2, <3>3, <3>4, <3>5 DEF p
  <2>2. k < m => \A l \in 1..k : g[l] # q[i]
    <3> SUFFICES ASSUME k < m, NEW l \in 1..k, g[l] = q[i] PROVE FALSE
      OBVIOUS
    <3>1. l \in 1..size /\ l < m
      BY <1>2, <1>8
    <3>2. nth[l] = i
      BY <1>7, <3>1
    <3>3. l = m
      BY <1>4, <3>1, <3>2 DEF m
    <3> QED BY <1>2, <1>8, <3>1, <3>3
  <2>3. ~(k < m) => \E l \in 1..k : g[l] = q[i]
    <3>1. ~(k < m) => m \in 1..k
      BY <1>2, <1>8
    <3>2. g[m] = q[i]
      BY <1>6, <1>8
    <3> QED BY <3>1, <3>2
  <2> QED BY <2>1, <2>2, <2>3
<1>10. Ahead(g, q[i]) = {q[nth[k]] : k \in {k \in 1..size : nth[k] < i}}
  BY <1>6, <1>9 DEF Ahead
<1>11. \A j \in P : \E k \in 1..size : nth[k] = j
  <2> SUFFICES ASSUME NEW j \in P PROVE nth[Rank(P, j)] = j /\ Rank(P, j) \in 1..size
    OBVIOUS
  <2>1. Rank(P, j) \in 1..size
    BY <1>3
  <2> DEFINE p == nth[Rank(P, j)]
  <2>2. p \in P /\ Rank(P, p) = Rank(P, j)
    BY <1>4, <2>1
  <2> HIDE DEF p
  <2>3. ~(p < j) /\ ~(j < p)
    BY <1>2, <1>3, <2>1, <2>2
  <2>4. p = j
    BY <1>1, <2>2, <2>3
  <2> QED BY <2>1, <2>4 DEF p
<1>12. {q[nth[k]] : k \in {k \in 1..size : nth[k] < i}} = {q[j] : j \in {j \in P : j < i}}
  BY <1>4, <1>11
<1> QED BY <1>10, <1>12 DEF g

(* Compacting and filtering never put a ref behind one it was ahead of. *)
LEMMA AheadOfOnly ==
  ASSUME NEW R, NEW q \in Seq(R), NEW S, NEW r \in ToSet(q) \cap S
  PROVE  Ahead(Only(q, S), r) \subseteq Ahead(q, r) \cap S
<1> DEFINE P == {j \in FirstSeen(q) : q[j] \in S}
<1>1. /\ FirstSeen(q) \in SUBSET (1..Len(q))
      /\ \E j \in FirstSeen(q) : q[j] = r
  BY FirstSeenIs
<1>2. PICK i \in P : q[i] = r
  BY <1>1
<1>3. Ahead(Only(q, S), r) = {q[j] : j \in {j \in P : j < i}}
  BY <1>2, AheadOfKept DEF Only
<1>4. ASSUME NEW j \in P, j < i
      PROVE  q[j] \in S /\ q[j] \in Ahead(q, r)
  <2>1. Len(q) \in Nat /\ i \in 1..Len(q) /\ j \in 1..Len(q)
    BY <1>1, LenProperties
  <2>2. ASSUME NEW l \in 1..j PROVE q[l] # r
    <3>1. l \in 1..i - 1
      BY <1>4, <2>1
    <3> QED BY <1>2, <3>1 DEF FirstSeen
  <2> QED BY <2>1, <2>2 DEF Ahead
<1> QED BY <1>3, <1>4

LEMMA AheadOfDeduped ==
  ASSUME NEW R, NEW q \in Seq(R), NEW r \in ToSet(q)
  PROVE  Ahead(Deduped(q), r) \subseteq Ahead(q, r)
<1>1. Only(q, R) = Deduped(q)
  <2>1. \A i \in FirstSeen(q) : q[i] \in R
    BY DEF FirstSeen
  <2>2. {i \in FirstSeen(q) : q[i] \in R} = FirstSeen(q)
    BY <2>1
  <2> QED BY <2>2 DEF Only, Deduped
<1>2. r \in ToSet(q) \cap R
  BY ElementsOf
<1> QED BY <1>1, <1>2, AheadOfOnly

(* What is put behind a ref is not ahead of it. *)
LEMMA AheadOfJoined ==
  ASSUME NEW R, NEW q \in Seq(R), NEW t \in Seq(R), NEW r \in ToSet(q)
  PROVE  Ahead(q \o t, r) = Ahead(q, r)
<1>1. /\ Len(q) \in Nat /\ Len(t) \in Nat /\ Len(q \o t) = Len(q) + Len(t)
      /\ \A i \in 1..Len(q) : (q \o t)[i] = q[i]
  OBVIOUS
<1>2. PICK m \in 1..Len(q) : q[m] = r
  BY ElementsOf
<1> DEFINE g == q \o t
<1>3. ASSUME NEW i \in 1..Len(g), \A j \in 1..i : g[j] # r
      PROVE  i \in 1..Len(q) /\ \A j \in 1..i : j \in 1..Len(q) /\ q[j] # r
  <2>1. m \notin 1..i
    BY <1>1, <1>2, <1>3
  <2>2. i < m
    BY <1>1, <2>1
  <2>3. i \in 1..Len(q) /\ \A j \in 1..i : j \in 1..Len(q)
    BY <1>1, <2>2
  <2> QED BY <1>1, <1>3, <2>3
<1>4. ASSUME NEW i \in 1..Len(q), \A j \in 1..i : q[j] # r
      PROVE  i \in 1..Len(g) /\ \A j \in 1..i : g[j] # r
  BY <1>1, <1>4
<1>5. \A i \in 1..Len(q) : g[i] = q[i]
  BY <1>1
<1> HIDE DEF g
<1>6. Ahead(g, r) = Ahead(q, r)
  BY <1>3, <1>4, <1>5 DEF Ahead
<1> QED BY <1>6 DEF g

LEMMA AheadOfRemoved ==
  ASSUME NEW q \in Seq(Ref), NEW S \in SUBSET Ref, NEW r \in ToSet(q) \ S
  PROVE  Ahead(Removed(q, S), r) \subseteq Ahead(q, r)
<1>1. r \in ToSet(q) \cap (Ref \ S)
  BY ElementsOf
<1> QED BY <1>1, AheadOfOnly DEF Removed, Without

(* A rotation puts no ref of S ahead of another one, and changes nothing else. *)
LEMMA AheadOfRotated ==
  ASSUME NEW q \in Seq(Ref), NEW S \in SUBSET Ref, NEW r \in ToSet(q) \ S
  PROVE  Ahead(Rotated(q, S), r) \subseteq Ahead(q, r) \ S
<1>1. r \in ToSet(q) \cap (Ref \ S)
  BY ElementsOf
<1>2. CASE ToSet(q) \cap S = {}
  <2>1. Ahead(q, r) \subseteq ToSet(q)
    BY ElementsOf DEF Ahead
  <2> QED BY <1>2, <2>1 DEF Rotated
<1>3. CASE ToSet(q) \cap S # {}
  <2>1. /\ Without(q, S) \in Seq(Ref) /\ Only(q, S) \in Seq(Ref)
        /\ r \in ToSet(Without(q, S))
    BY <1>1, OnlyIs DEF Without
  <2>2. Ahead(Without(q, S) \o Only(q, S), r) = Ahead(Without(q, S), r)
    BY <2>1, AheadOfJoined
  <2>3. Ahead(Without(q, S), r) \subseteq Ahead(q, r) \cap (Ref \ S)
    BY <1>1, AheadOfOnly DEF Without
  <2> QED BY <1>3, <2>2, <2>3 DEF Rotated
<1> QED BY <1>2, <1>3

(* A queued ref stays ahead of what it was ahead of, unless it failed itself;
   and when failures are rotated, it is ahead of all of them. *)
KeepsItsPlace ==
  /\ \A r \in ToSet(lines) \cap ToSet(lines') :
       \/ Ahead(lines', r) \subseteq Ahead(lines, r)
       \/ \E h \in Hook : Rotate(h) /\ r \in failed[h]
  /\ \A h \in Hook : Rotate(h) =>
       \A r \in ToSet(lines) \ failed[h] :
         r \in ToSet(lines') /\ Ahead(lines', r) \subseteq Ahead(lines, r) \ failed[h]

LEMMA StepKeepsPlaces ==
  ASSUME IInv, [Next]_vars
  PROVE  KeepsItsPlace
<1>1. /\ lines \in Seq(Ref)
      /\ \A h \in Hook : failed[h] \in SUBSET Ref /\ pushed[h] \in SUBSET Ref /\ todo[h] \in Seq(Ref)
  BY DEF IInv, TypeOK
<1>2. ASSUME NEW h \in Hook, Rotate(h), NEW r \in ToSet(lines) \ failed[h]
      PROVE  r \in ToSet(lines') /\ Ahead(lines', r) \subseteq Ahead(lines, r) \ failed[h]
  BY <1>1, <1>2, AheadOfRotated, RotatedIs DEF Rotate
<1>3. ASSUME NEW r \in ToSet(lines) \cap ToSet(lines'),
             \A h \in Hook : Rotate(h) => r \notin failed[h]
      PROVE  Ahead(lines', r) \subseteq Ahead(lines, r)
  <2>1. ASSUME NEW x \in Ref, lines' = Append(lines, x)
        PROVE  Ahead(lines', r) \subseteq Ahead(lines, r)
    <3> DEFINE more == <<x>>
    <3>1. Append(lines, x) = lines \o more /\ more \in Seq(Ref)
      BY <1>1
    <3> HIDE DEF more
    <3>2. Ahead(lines \o more, r) = Ahead(lines, r)
      BY <1>1, <3>1, AheadOfJoined
    <3>3. lines' = lines \o more
      BY <2>1, <3>1
    <3> QED BY <3>2, <3>3
  <2>2. ASSUME NEW S \in SUBSET Ref, lines' = Removed(lines, S)
        PROVE  Ahead(lines', r) \subseteq Ahead(lines, r)
    <3>1. r \in ToSet(Removed(lines, S)) /\ r \in ToSet(lines)
      BY <1>3, <2>2
    <3>2. r \in ToSet(lines) \ S
      BY <1>1, <3>1, RemovedIs
    <3>3. Ahead(Removed(lines, S), r) \subseteq Ahead(lines, r)
      BY <1>1, <3>2, AheadOfRemoved
    <3> QED BY <2>2, <3>3
  <2>3. ASSUME NEW h \in Hook, PruneStale(h) \/ RemovePushed(h)
        PROVE  Ahead(lines', r) \subseteq Ahead(lines, r)
    <3>1. ToSet(todo[h]) \ Present \in SUBSET Ref /\ pushed[h] \in SUBSET Ref
      BY <1>1, ElementsOf
    <3> QED BY <2>2, <2>3, <3>1 DEF PruneStale, RemovePushed
  <2>4. ASSUME NEW h \in Hook, Drain(h)
        PROVE  Ahead(lines', r) \subseteq Ahead(lines, r)
    BY <1>1, <2>4, AheadOfDeduped DEF Drain
  <2>5. ASSUME NEW h \in Hook, Rotate(h)
        PROVE  Ahead(lines', r) \subseteq Ahead(lines, r)
    BY <1>2, <1>3, <2>5
  <2> QED BY <2>1, <2>3, <2>4, <2>5
    DEF Next, Enqueue, HookStep, BatchLands, BatchFails, AuthenticationFails, AttemptLands,
        AttemptFails, StopEarly, LastAttempted, Die, vars
<1> QED BY <1>2, <1>3 DEF KeepsItsPlace

(* A ref the remote refuses never keeps another from its turn: only its own
   failure puts a ref behind others, and then it is behind all the rest.  (The
   order that PushQueue.Rotate documents, whatever hooks overlap or die.) *)
THEOREM KeepsItsPlaceCorrect == Spec => [][KeepsItsPlace]_vars
<1>1. IInv /\ [Next]_vars => [KeepsItsPlace]_vars
  BY StepKeepsPlaces
<1> QED BY <1>1, Always, PTL DEF Spec

=============================================================================
