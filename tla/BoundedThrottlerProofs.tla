------------------------- MODULE BoundedThrottlerProofs -------------------------
(***************************************************************************)
(* Proofs about BoundedThrottler, for any keys, limits, durations, size of *)
(* the store and earliness of the timeouts.  The insertion order is that   *)
(* of the last uses (Ordered), so the key that goes when the store is full *)
(* is the least recently used one; a block is in its bucket while it lasts *)
(* (Promises); and the requests that passed are counted from the start of  *)
(* the window that is open (Quotas).                                       *)
(***************************************************************************)
EXTENDS BoundedThrottler, FiniteSetTheorems, WellFoundedInduction, TLAPS

InUse == DOMAIN buckets

Ordered ==
    /\ \A k \in InUse : <<k, k>> \notin older
    /\ \A k, l, m \in InUse : <<k, l>> \in older /\ <<l, m>> \in older => <<k, m>> \in older
    /\ \A k, l \in InUse : <<k, l>> \in older => lastUse[k] <= lastUse[l]
    /\ \A k \in Keys : lastUse[k] <= now

Windows ==
    \A k \in InUse :
        LET b == buckets[k] IN
        /\ Ttl <= b.windowExpiresAt /\ b.windowExpiresAt <= now + Ttl
        /\ b.windowExpiresAt <= b.expiresAt
        /\ b.blockExpiresAt = 0 => b.totalHits \in 1 .. Limit[k]

Promises ==
    \A k \in Keys : now < promised[k] =>
        /\ k \in InUse
        /\ buckets[k].blockExpiresAt = promised[k] /\ promised[k] <= buckets[k].expiresAt

Counts == \A k \in Keys : IsFiniteSet(admitted[k])

Base ==
    /\ TypeOK /\ Ordered /\ Windows /\ Promises /\ Counts
    /\ MemoryIsBounded /\ TimeoutsCoverTheirBuckets

-----------------------------------------------------------------------------
(* The order *)

LEMMA InUseFinite == TypeOK => IsFiniteSet(InUse) /\ InUse \subseteq Keys
BY FS_Subset, ThrottlerAssumption DEF TypeOK, InUse

\* Of some keys that are in use one is the first: it has no predecessor, for
\* the predecessors of a predecessor would be fewer.
LEMMA SomeOldest ==
    ASSUME TypeOK, Ordered, NEW S \in SUBSET InUse, S # {}
    PROVE  OldestOf(S) \in S /\ \A l \in S \ {OldestOf(S)} : <<OldestOf(S), l>> \in older
<1> DEFINE Pre(k) == {l \in S : <<l, k>> \in older}
           T == {Pre(k) : k \in S}
<1>1. IsFiniteSet(S)
  BY InUseFinite, FS_Subset
<1>2. T \subseteq FiniteSubsetsOf(S)
  <2>1. \A k \in S : Pre(k) \in SUBSET S /\ IsFiniteSet(Pre(k))
    BY <1>1, FS_Subset
  <2>2. QED BY <2>1 DEF FiniteSubsetsOf
<1>3. T # {}
  OBVIOUS
<1>4. PICK P \in T : \A Q \in T : ~(<<Q, P>> \in StrictSubsetOrdering(S))
  <2> HIDE DEF T
  <2>1. QED BY <1>2, <1>3, FS_StrictSubsetOrderingWellFounded, WFMin
<1>5. PICK k \in S : P = Pre(k)
  BY <1>4
<1>6. \A l \in S : l \notin Pre(k)
  <2> SUFFICES ASSUME NEW l \in S, l \in Pre(k) PROVE FALSE
    OBVIOUS
  <2>1. Pre(l) \subseteq Pre(k) /\ l \notin Pre(l)
    BY DEF Ordered
  <2>2. <<Pre(l), Pre(k)>> \in StrictSubsetOrdering(S)
    BY <2>1 DEF StrictSubsetOrdering
  <2>3. QED BY <1>4, <1>5, <2>2
<1>7. \A l \in S \ {k} : <<k, l>> \in older
  BY <1>6 DEF TypeOK, InUse
<1>8. QED BY <1>7 DEF OldestOf

-----------------------------------------------------------------------------
(* What increment keeps and makes *)

Active(k) == {l \in InUse \ {k} : ~IsExpired(buckets[l])}

LEMMA KeptKeys ==
    ASSUME NEW k
    PROVE  /\ Kept(k) \subseteq InUse \ {k}
           /\ \/ Kept(k) = InUse \ {k} /\ (Found(k) \/ Cardinality(InUse \ {k}) < MaxEntries)
              \/ Kept(k) = Active(k) /\ Cardinality(Active(k)) < MaxEntries
              \/ /\ Kept(k) = Active(k) \ {OldestOf(Active(k))}
                 /\ ~(Cardinality(Active(k)) < MaxEntries)
BY DEF Kept, Active, InUse

\* The store keeps its size: it grows by a key only if there is space.
LEMMA SizeKept ==
    ASSUME TypeOK, Ordered, Cardinality(InUse) <= MaxEntries, NEW k \in Keys
    PROVE  Cardinality(Kept(k) \cup {k}) <= MaxEntries
<1> DEFINE others == InUse \ {k}
           active == Active(k)
<1>1. IsFiniteSet(InUse) /\ IsFiniteSet(others) /\ IsFiniteSet(active)
  BY InUseFinite, FS_Subset DEF Active
<1>2. /\ Cardinality(InUse) \in Nat /\ Cardinality(others) \in Nat /\ Cardinality(active) \in Nat
      /\ MaxEntries \in Nat \ {0}
  BY <1>1, FS_CardinalityType, ThrottlerAssumption
<1>3. Cardinality(others) = IF k \in InUse THEN Cardinality(InUse) - 1 ELSE Cardinality(InUse)
  BY <1>1, FS_RemoveElement
<1>4. Cardinality(active) <= Cardinality(others)
  BY <1>1, FS_Subset DEF Active
<1>5. \A S \in SUBSET others : IsFiniteSet(S) => Cardinality(S \cup {k}) = Cardinality(S) + 1
  BY FS_AddElement
<1>6. CASE Kept(k) = others /\ (Found(k) \/ Cardinality(others) < MaxEntries)
  <2>1. Cardinality(Kept(k) \cup {k}) = Cardinality(others) + 1
    BY <1>1, <1>5, <1>6
  <2>2. Found(k) => k \in InUse
    BY DEF Found, InUse
  <2> HIDE DEF others
  <2>3. QED BY <1>2, <1>3, <1>6, <2>1, <2>2
<1>7. CASE Kept(k) = active /\ Cardinality(active) < MaxEntries
  <2>1. Cardinality(Kept(k) \cup {k}) = Cardinality(active) + 1
    BY <1>1, <1>5, <1>7 DEF Active
  <2>2. QED BY <1>2, <1>7, <2>1
<1>8. CASE Kept(k) = active \ {OldestOf(active)} /\ ~(Cardinality(active) < MaxEntries)
  <2>1. active # {}
    BY <1>2, <1>8, FS_EmptySet
  <2>2. OldestOf(active) \in active
    BY <2>1, SomeOldest DEF Active
  <2>3. IsFiniteSet(Kept(k)) /\ Cardinality(Kept(k)) = Cardinality(active) - 1
    BY <1>1, <1>8, <2>2, FS_RemoveElement
  <2>4. Cardinality(Kept(k) \cup {k}) = Cardinality(Kept(k)) + 1
    BY <1>5, <2>3, KeptKeys
  <2> HIDE DEF others, active
  <2>5. QED BY <1>2, <1>3, <1>4, <2>3, <2>4
<1>9. QED BY <1>6, <1>7, <1>8, KeptKeys DEF Active

\* A key that goes is expired, or the store was full of active keys and it is
\* the oldest of them.
LEMMA WhoGoes ==
    ASSUME TypeOK, Ordered, Cardinality(InUse) <= MaxEntries, NEW k \in Keys,
           NEW l \in InUse \ (Kept(k) \cup {k}), ~IsExpired(buckets[l])
    PROVE  /\ Cardinality(InUse) = MaxEntries
           /\ \A m \in InUse : ~IsExpired(buckets[m]) /\ lastUse[l] <= lastUse[m]
<1> DEFINE active == Active(k)
<1>1. l \in active
  BY DEF Active
<1>2. active \in SUBSET InUse /\ l = OldestOf(active) /\ ~(Cardinality(active) < MaxEntries)
  <2>1. active \in SUBSET InUse
    BY DEF Active
  <2>2. l \in InUse \ {k} /\ l \notin Kept(k)
    OBVIOUS
  <2> HIDE DEF active
  <2>3. /\ Kept(k) # InUse \ {k} /\ Kept(k) # active
        /\ Kept(k) = active \ {OldestOf(active)} => l = OldestOf(active)
    BY <1>1, <2>2
  <2>4. QED BY <2>1, <2>3, KeptKeys DEF active
<1>3. \A m \in active \ {l} : <<l, m>> \in older
  BY <1>1, <1>2, SomeOldest
<1>4. IsFiniteSet(InUse) /\ IsFiniteSet(active) /\ Cardinality(active) <= Cardinality(InUse)
  BY <1>2, InUseFinite, FS_Subset
<1>5. Cardinality(InUse) \in Nat /\ Cardinality(active) \in Nat /\ MaxEntries \in Nat
  BY <1>4, FS_CardinalityType, ThrottlerAssumption
<1>6. Cardinality(active) = Cardinality(InUse) /\ Cardinality(InUse) = MaxEntries
  BY <1>2, <1>4, <1>5
<1>7. active = InUse
  BY <1>2, <1>4, <1>6, FS_Subset
<1>8. \A m \in InUse : ~IsExpired(buckets[m])
  BY <1>7 DEF Active
<1>9. ASSUME NEW m \in InUse PROVE lastUse[l] <= lastUse[m]
  <2>1. CASE m = l
    BY <2>1 DEF TypeOK, InUse
  <2>2. CASE m # l
    BY <1>3, <1>7, <2>2 DEF Ordered
  <2>3. QED BY <2>1, <2>2
<1>10. QED BY <1>6, <1>8, <1>9

\* The bucket that increment goes on with, and what it makes of it.
OldBucket(k, i) == IF Found(k) THEN buckets[k] ELSE Created(i)
NewBucket(k, i) == Hit(OldBucket(k, i), k)

LEMMA CreatedFields ==
    ASSUME TypeOK, NEW i \in Ids
    PROVE  /\ Created(i) \in Bucket /\ Created(i).id = i /\ Created(i).totalHits = 0
           /\ Created(i).windowExpiresAt = now + Ttl /\ Created(i).blockExpiresAt = 0
           /\ Created(i).expiresAt = now + Ttl
BY ThrottlerAssumption DEF TypeOK, Created, Bucket

LEMMA HitFields ==
    ASSUME TypeOK, NEW b \in Bucket, NEW k \in Keys
    PROVE  /\ Hit(b, k) \in Bucket
           /\ Hit(b, k).id = b.id /\ Hit(b, k).windowExpiresAt = b.windowExpiresAt
           /\ \/ now < b.blockExpiresAt /\ Hit(b, k) = b
              \/ /\ ~(now < b.blockExpiresAt) /\ b.totalHits < Limit[k]
                 /\ Hit(b, k).totalHits = b.totalHits + 1
                 /\ Hit(b, k).blockExpiresAt = b.blockExpiresAt
                 /\ Hit(b, k).expiresAt = b.expiresAt
              \/ /\ ~(now < b.blockExpiresAt) /\ ~(b.totalHits < Limit[k])
                 /\ Hit(b, k).blockExpiresAt = now + BlockDuration
                 /\ b.windowExpiresAt <= Hit(b, k).expiresAt
                 /\ now + BlockDuration <= Hit(b, k).expiresAt
<1>n. now \in Nat /\ BlockDuration \in Nat /\ b.blockExpiresAt \in Nat /\ b.windowExpiresAt \in Nat
      /\ b.totalHits \in Nat /\ now + BlockDuration \in Nat
  BY ThrottlerAssumption DEF TypeOK, Bucket
<1>1. CASE IsBlocked(b)
  BY <1>1, <1>n DEF Hit, IsBlocked
<1>2. CASE ~IsBlocked(b) /\ b.totalHits < Limit[k]
  <2>1. Hit(b, k) = [b EXCEPT !.totalHits = @ + 1]
    BY <1>2 DEF Hit
  <2>2. [b EXCEPT !.totalHits = @ + 1] \in Bucket
    BY <1>n DEF Bucket
  <2>3. /\ Hit(b, k).id = b.id /\ Hit(b, k).windowExpiresAt = b.windowExpiresAt
        /\ Hit(b, k).totalHits = b.totalHits + 1
        /\ Hit(b, k).blockExpiresAt = b.blockExpiresAt /\ Hit(b, k).expiresAt = b.expiresAt
    BY <2>1 DEF Bucket
  <2>4. QED BY <1>n, <1>2, <2>1, <2>2, <2>3 DEF IsBlocked
<1>3. CASE ~IsBlocked(b) /\ ~(b.totalHits < Limit[k])
  <2> DEFINE later == Later(b.windowExpiresAt, now + BlockDuration)
  <2>1. later \in Nat /\ b.windowExpiresAt <= later /\ now + BlockDuration <= later
    BY <1>n DEF Later
  <2>2. Hit(b, k) = [b EXCEPT !.totalHits = @ + 1, !.blockExpiresAt = now + BlockDuration,
                              !.expiresAt = later]
    BY <1>3 DEF Hit
  <2> HIDE DEF later
  <2>3. Hit(b, k) \in Bucket
    <3>1. \A x, y, z \in Nat :
             [b EXCEPT !.totalHits = x, !.blockExpiresAt = y, !.expiresAt = z] \in Bucket
      BY DEF Bucket
    <3> DEFINE hits == b.totalHits + 1
               end == now + BlockDuration
    <3>2. hits \in Nat /\ end \in Nat
      BY <1>n
    <3>3. Hit(b, k) = [b EXCEPT !.totalHits = hits, !.blockExpiresAt = end, !.expiresAt = later]
      BY <2>2
    <3> HIDE DEF hits, end
    <3>4. [b EXCEPT !.totalHits = hits, !.blockExpiresAt = end, !.expiresAt = later] \in Bucket
      BY <2>1, <3>1, <3>2
    <3>5. QED BY <3>3, <3>4
  <2>4. /\ Hit(b, k).id = b.id /\ Hit(b, k).windowExpiresAt = b.windowExpiresAt
        /\ Hit(b, k).blockExpiresAt = now + BlockDuration /\ Hit(b, k).expiresAt = later
    BY <2>2 DEF Bucket
  <2>5. QED BY <1>n, <1>3, <2>1, <2>3, <2>4 DEF IsBlocked
<1>4. QED BY <1>1, <1>2, <1>3

LEMMA FoundFields ==
    ASSUME TypeOK, NEW k \in Keys, Found(k)
    PROVE  /\ k \in InUse /\ buckets[k] \in Bucket /\ now < buckets[k].expiresAt
           /\ buckets[k].blockExpiresAt # 0 => now < buckets[k].blockExpiresAt
BY DEF TypeOK, Found, IsCurrent, IsExpired, IsBlocked, Bucket, InUse

LEMMA NewBucketFields ==
    ASSUME TypeOK, Windows, NEW k \in Keys, NEW i \in Free
    PROVE  LET old == OldBucket(k, i)
               new == NewBucket(k, i)
           IN
           /\ old \in Bucket /\ new \in Bucket /\ new.id = old.id
           /\ \A l \in InUse \ {k} : buckets[l].id # new.id
           /\ Found(k) => old = buckets[k] /\ new.id = buckets[k].id
           /\ ~Found(k) => old = Created(i)
           /\ new.windowExpiresAt = old.windowExpiresAt
           /\ Ttl <= new.windowExpiresAt /\ new.windowExpiresAt <= now + Ttl
           /\ new.windowExpiresAt <= new.expiresAt /\ now < new.expiresAt
           /\ new.blockExpiresAt = 0 => new.totalHits \in 1 .. Limit[k]
           /\ \/ /\ now < old.blockExpiresAt /\ new = old /\ Found(k)
              \/ /\ old.blockExpiresAt = 0 /\ new.blockExpiresAt = 0
                 /\ new.totalHits = old.totalHits + 1 /\ new.totalHits <= Limit[k]
                 /\ new.expiresAt = old.expiresAt
              \/ /\ Found(k) /\ old.blockExpiresAt = 0
                 /\ new.blockExpiresAt = now + BlockDuration
                 /\ new.blockExpiresAt <= new.expiresAt
<1> DEFINE old == OldBucket(k, i)
           new == NewBucket(k, i)
<1>n. now \in Nat /\ BlockDuration \in Nat \ {0} /\ Ttl \in Nat \ {0} /\ Limit[k] \in Nat \ {0}
  BY ThrottlerAssumption DEF TypeOK
<1>i. i \in Ids /\ \A l \in InUse : buckets[l].id # i
  BY DEF Free, InUse
<1>1. old \in Bucket
  BY <1>i, FoundFields, CreatedFields DEF OldBucket
<1>2. /\ Found(k) => /\ k \in InUse /\ old = buckets[k] /\ now < old.expiresAt
                     /\ old.blockExpiresAt # 0 => now < old.blockExpiresAt
      /\ ~Found(k) => old = Created(i)
  BY FoundFields DEF OldBucket
<1>3. /\ Ttl <= old.windowExpiresAt /\ old.windowExpiresAt <= now + Ttl
      /\ old.windowExpiresAt <= old.expiresAt /\ now < old.expiresAt
      /\ old.blockExpiresAt # 0 => Found(k) /\ now < old.blockExpiresAt
      /\ old.blockExpiresAt = 0 => old.totalHits \in 0 .. Limit[k]
      /\ ~Found(k) => old.totalHits = 0
      /\ \A l \in InUse \ {k} : buckets[l].id # old.id
  <2>1. CASE Found(k)
    BY <1>n, <1>2, <2>1 DEF Windows, TypeOK, InUse
  <2>2. CASE ~Found(k)
    BY <1>i, <1>n, <1>2, <2>2, CreatedFields
  <2>3. QED BY <2>1, <2>2
<1>4. /\ old.totalHits \in Nat /\ old.windowExpiresAt \in Nat /\ old.blockExpiresAt \in Nat
      /\ old.expiresAt \in Nat
  BY <1>1 DEF Bucket
<1>5. /\ new \in Bucket /\ new.id = old.id /\ new.windowExpiresAt = old.windowExpiresAt
      /\ \/ now < old.blockExpiresAt /\ new = old
         \/ /\ ~(now < old.blockExpiresAt) /\ old.totalHits < Limit[k]
            /\ new.totalHits = old.totalHits + 1
            /\ new.blockExpiresAt = old.blockExpiresAt /\ new.expiresAt = old.expiresAt
         \/ /\ ~(now < old.blockExpiresAt) /\ ~(old.totalHits < Limit[k])
            /\ new.blockExpiresAt = now + BlockDuration
            /\ old.windowExpiresAt <= new.expiresAt /\ now + BlockDuration <= new.expiresAt
  BY <1>1, HitFields DEF NewBucket
<1>6. new.expiresAt \in Nat /\ new.blockExpiresAt \in Nat /\ new.totalHits \in Nat
  BY <1>5 DEF Bucket
<1> HIDE DEF old, new
<1>7. CASE now < old.blockExpiresAt /\ new = old
  BY <1>1, <1>2, <1>3, <1>4, <1>5, <1>7, <1>n DEF old, new
<1>8. CASE /\ ~(now < old.blockExpiresAt) /\ old.totalHits < Limit[k]
           /\ new.totalHits = old.totalHits + 1
           /\ new.blockExpiresAt = old.blockExpiresAt /\ new.expiresAt = old.expiresAt
  <2>1. old.blockExpiresAt = 0
    BY <1>3, <1>8
  <2>2. new.totalHits \in 1 .. Limit[k]
    BY <1>4, <1>n, <1>8
  <2>3. QED BY <1>1, <1>2, <1>3, <1>5, <1>8, <2>1, <2>2 DEF old, new
<1>9. CASE /\ ~(now < old.blockExpiresAt) /\ ~(old.totalHits < Limit[k])
           /\ new.blockExpiresAt = now + BlockDuration
           /\ old.windowExpiresAt <= new.expiresAt /\ now + BlockDuration <= new.expiresAt
  <2>1. old.blockExpiresAt = 0 /\ Found(k)
    BY <1>3, <1>4, <1>n, <1>9
  <2>2. now < new.expiresAt /\ new.blockExpiresAt # 0
    BY <1>6, <1>n, <1>9
  <2>3. QED BY <1>1, <1>2, <1>3, <1>5, <1>9, <2>1, <2>2 DEF old, new
<1>10. QED BY <1>5, <1>7, <1>8, <1>9 DEF old, new

-----------------------------------------------------------------------------
(* A request *)

\* What increment changes, in terms of the bucket it goes on with.
IncrementWith(k, i) ==
    LET kept == Kept(k)
        old == OldBucket(k, i)
        new == NewBucket(k, i)
        evicted == {l \in InUse \ (kept \cup {k}) : ~IsExpired(buckets[l])}
    IN
    /\ buckets' = [l \in kept \cup {k} |-> IF l = k THEN new ELSE buckets[l]]
    /\ older' = Touched(k, kept)
    /\ timers' = Armed(kept) \cup Schedule(k, old, new)
    /\ admitted' = [l \in Keys |->
          IF l \in evicted THEN {}
          ELSE IF l = k /\ ~IsBlocked(new) THEN Passing(k)
          ELSE admitted[l]]
    /\ promised' = [l \in Keys |->
          IF l \in evicted THEN 0
          ELSE IF l = k /\ IsBlocked(new) /\ ~IsBlocked(old) THEN now + BlockDuration
          ELSE promised[l]]
    /\ lastUse' = [lastUse EXCEPT ![k] = now]
    /\ UNCHANGED now

LEMMA IncrementStep ==
    ASSUME NEW k, Increment(k)
    PROVE  \E i \in Free : IncrementWith(k, i)
BY DEF Increment, IncrementWith, OldBucket, NewBucket, InUse

\* The map after a request, as a function.
LEMMA BucketsAfter ==
    ASSUME NEW k \in Keys, NEW i \in Free, IncrementWith(k, i)
    PROVE  /\ InUse' = Kept(k) \cup {k} /\ k \notin Kept(k) /\ Kept(k) \subseteq InUse
           /\ buckets'[k] = NewBucket(k, i)
           /\ \A l \in Kept(k) : buckets'[l] = buckets[l]
           /\ buckets' = [l \in InUse' |-> buckets'[l]]
<1> DEFINE kept == Kept(k)
           new == NewBucket(k, i)
<1>1. buckets' = [l \in kept \cup {k} |-> IF l = k THEN new ELSE buckets[l]]
  BY DEF IncrementWith
<1>2. kept \subseteq InUse \ {k}
  BY KeptKeys
<1> HIDE DEF kept, new
<1>3. QED BY <1>1, <1>2 DEF InUse, kept, new

\* The key that was used is the last of the order.
LEMMA OrderAfter ==
    ASSUME NEW k \in Keys, NEW i \in Free, IncrementWith(k, i)
    PROVE  \A l, m : <<l, m>> \in older' <=>
              \/ l \in Kept(k) /\ m \in Kept(k) /\ <<l, m>> \in older
              \/ l \in Kept(k) /\ m = k
BY DEF IncrementWith, Touched

LEMMA IncrementTypes ==
    ASSUME Base, NEW k \in Keys, NEW i \in Free, IncrementWith(k, i)
    PROVE  TypeOK'
<1> DEFINE kept == Kept(k)
           new == NewBucket(k, i)
<1>1. /\ InUse' = kept \cup {k} /\ k \notin kept /\ kept \subseteq InUse
      /\ buckets'[k] = new
      /\ \A l \in kept : buckets'[l] = buckets[l]
      /\ buckets' = [l \in InUse' |-> buckets'[l]]
  BY BucketsAfter
<1>2. /\ new \in Bucket
      /\ \A l \in InUse \ {k} : buckets[l].id # new.id
      /\ Found(k) => new.id = buckets[k].id
  BY NewBucketFields DEF Base
<1> HIDE DEF kept, new
<1>3. InUse \subseteq Keys /\ InUse' \subseteq Keys
  BY <1>1 DEF Base, TypeOK, InUse
<1>4. buckets' \in [InUse' -> Bucket]
  BY <1>1, <1>2 DEF Base, TypeOK, InUse
<1>5. \A l, m \in InUse' : buckets'[l].id = buckets'[m].id => l = m
  BY <1>1, <1>2 DEF Base, TypeOK, InUse
<1>6. older' \subseteq InUse' \X InUse'
  BY <1>1 DEF IncrementWith, Touched, Base, TypeOK, InUse, kept
<1>7. \A l, m \in InUse' : l # m => (<<l, m>> \in older' <=> <<m, l>> \notin older')
  <2> SUFFICES ASSUME NEW l \in InUse', NEW m \in InUse', l # m
               PROVE  <<l, m>> \in older' <=> <<m, l>> \notin older'
    OBVIOUS
  <2>1. /\ <<l, m>> \in older' <=> \/ l \in kept /\ m \in kept /\ <<l, m>> \in older
                                   \/ l \in kept /\ m = k
        /\ <<m, l>> \in older' <=> \/ m \in kept /\ l \in kept /\ <<m, l>> \in older
                                   \/ m \in kept /\ l = k
    BY OrderAfter DEF kept
  <2>2. l \in InUse /\ m \in InUse => (<<l, m>> \in older <=> <<m, l>> \notin older)
    BY DEF Base, TypeOK, InUse
  <2>3. QED BY <1>1, <2>1, <2>2
<1>8. timers' \subseteq Timer
  <2>1. Armed(kept) \subseteq Timer /\ Armed({k}) \subseteq Timer
    BY DEF Base, TypeOK, Armed
  <2>2. [key |-> k, id |-> new.id, due |-> new.expiresAt] \in Timer
    BY <1>2 DEF Bucket, Timer
  <2>3. timers' = Armed(kept) \cup Schedule(k, OldBucket(k, i), new)
    BY DEF IncrementWith, kept, new
  <2>4. Schedule(k, OldBucket(k, i), new) \subseteq Timer
    BY <2>1, <2>2 DEF Schedule
  <2>5. QED BY <2>1, <2>3, <2>4
<1>9. admitted' \in [Keys -> SUBSET (Nat \X Nat)]
  <2>1. now \in Nat /\ admitted \in [Keys -> SUBSET (Nat \X Nat)]
    BY ThrottlerAssumption DEF Base, TypeOK
  <2>2. IsFiniteSet(admitted[k]) => Passing(k) \subseteq Nat \X Nat
    <3>1. ASSUME IsFiniteSet(admitted[k]) PROVE Passing(k) \subseteq Nat \X Nat
      <4> DEFINE same == {a \in admitted[k] : a[1] = now}
      <4>1. IsFiniteSet(same)
        BY <3>1, FS_Subset
      <4> HIDE DEF same
      <4>2. Cardinality(same) \in Nat
        BY <4>1, FS_CardinalityType
      <4>3. Passing(k) = admitted[k] \cup {<<now, Cardinality(same)>>}
        BY DEF Passing, same
      <4>4. QED BY <2>1, <4>2, <4>3
    <3>2. QED BY <3>1
  <2>3. IsFiniteSet(admitted[k])
    BY DEF Base, Counts
  <2>4. QED BY <2>1, <2>2, <2>3 DEF IncrementWith
<1>10. promised' \in [Keys -> Nat]
  <2>1. now + BlockDuration \in Nat /\ promised \in [Keys -> Nat]
    BY ThrottlerAssumption DEF Base, TypeOK
  <2>2. QED BY <2>1 DEF IncrementWith
<1>11. lastUse' \in [Keys -> Nat] /\ now' \in 0 .. MaxTime
  BY ThrottlerAssumption DEF Base, TypeOK, IncrementWith
<1>12. QED
  BY <1>3, <1>4, <1>5, <1>6, <1>7, <1>8, <1>9, <1>10, <1>11 DEF TypeOK, InUse

LEMMA IncrementOrder ==
    ASSUME Base, NEW k \in Keys, NEW i \in Free, IncrementWith(k, i)
    PROVE  Ordered'
<1> DEFINE kept == Kept(k)
<1>1. InUse' = kept \cup {k} /\ k \notin kept /\ kept \subseteq InUse
  BY BucketsAfter
<1>2. \A l, m : <<l, m>> \in older' <=>
         \/ l \in kept /\ m \in kept /\ <<l, m>> \in older
         \/ l \in kept /\ m = k
  BY OrderAfter
<1> HIDE DEF kept
<1>3. /\ lastUse' = [lastUse EXCEPT ![k] = now] /\ now' = now
      /\ lastUse \in [Keys -> Nat] /\ now \in Nat
  BY ThrottlerAssumption DEF IncrementWith, Base, TypeOK
<1>4. InUse \subseteq Keys
  BY DEF Base, TypeOK, InUse
<1>5. \A l \in InUse' : <<l, l>> \notin older'
  BY <1>1, <1>2 DEF Base, Ordered
<1>6. \A l, m, n \in InUse' :
         <<l, m>> \in older' /\ <<m, n>> \in older' => <<l, n>> \in older'
  <2> SUFFICES ASSUME NEW l \in InUse', NEW m \in InUse', NEW n \in InUse',
                      <<l, m>> \in older', <<m, n>> \in older'
               PROVE  <<l, n>> \in older'
    OBVIOUS
  <2>1. l \in kept /\ m \in kept /\ <<l, m>> \in older
    BY <1>1, <1>2
  <2>2. n = k \/ (n \in kept /\ <<m, n>> \in older)
    BY <1>2
  <2>3. n \in kept => <<l, n>> \in older
    BY <1>1, <2>1, <2>2 DEF Base, Ordered
  <2>4. QED BY <1>2, <2>1, <2>2, <2>3
<1>7. \A l \in Keys : lastUse'[l] <= now'
  BY <1>3 DEF Base, Ordered
<1>8. \A l, m \in InUse' : <<l, m>> \in older' => lastUse'[l] <= lastUse'[m]
  <2> SUFFICES ASSUME NEW l \in InUse', NEW m \in InUse', <<l, m>> \in older'
               PROVE  lastUse'[l] <= lastUse'[m]
    OBVIOUS
  <2>1. l \in kept /\ l # k /\ l \in Keys
    BY <1>1, <1>2, <1>4
  <2>2. CASE m = k
    BY <1>3, <2>1, <2>2 DEF Base, Ordered
  <2>3. CASE m # k
    BY <1>1, <1>2, <1>3, <1>4, <2>1, <2>3 DEF Base, Ordered
  <2>4. QED BY <2>2, <2>3
<1>9. QED BY <1>5, <1>6, <1>7, <1>8 DEF Ordered

LEMMA IncrementWindows ==
    ASSUME Base, NEW k \in Keys, NEW i \in Free, IncrementWith(k, i)
    PROVE  Windows' /\ Promises'
<1> DEFINE kept == Kept(k)
           old == OldBucket(k, i)
           new == NewBucket(k, i)
<1>1. /\ InUse' = kept \cup {k} /\ k \notin kept /\ kept \subseteq InUse
      /\ buckets'[k] = new
      /\ \A l \in kept : buckets'[l] = buckets[l]
  BY BucketsAfter
<1>2. /\ new \in Bucket
      /\ Ttl <= new.windowExpiresAt /\ new.windowExpiresAt <= now + Ttl
      /\ new.windowExpiresAt <= new.expiresAt
      /\ new.blockExpiresAt = 0 => new.totalHits \in 1 .. Limit[k]
      /\ Found(k) => old = buckets[k]
      /\ \/ now < old.blockExpiresAt /\ new = old /\ Found(k)
         \/ old.blockExpiresAt = 0 /\ new.blockExpiresAt = 0
         \/ /\ Found(k) /\ old.blockExpiresAt = 0
            /\ new.blockExpiresAt = now + BlockDuration
            /\ new.blockExpiresAt <= new.expiresAt
  BY NewBucketFields DEF Base
<1>3. now' = now /\ now \in Nat /\ BlockDuration \in Nat \ {0} /\ promised \in [Keys -> Nat]
  BY ThrottlerAssumption DEF IncrementWith, Base, TypeOK
<1>4. promised' = [l \in Keys |->
          IF l \in {m \in InUse \ (kept \cup {k}) : ~IsExpired(buckets[m])} THEN 0
          ELSE IF l = k /\ IsBlocked(new) /\ ~IsBlocked(old) THEN now + BlockDuration
          ELSE promised[l]]
  BY DEF IncrementWith
<1> HIDE DEF kept, old, new
<1>5. Windows'
  BY <1>1, <1>2, <1>3 DEF Base, Windows
<1>6. ASSUME NEW l \in Keys, now < promised'[l]
      PROVE  /\ l \in InUse'
             /\ buckets'[l].blockExpiresAt = promised'[l] /\ promised'[l] <= buckets'[l].expiresAt
  <2>1. CASE l = k /\ IsBlocked(new) /\ ~IsBlocked(old)
    <3>1. promised'[l] = now + BlockDuration
      BY <1>4, <2>1
    <3>2. new.blockExpiresAt = now + BlockDuration /\ new.blockExpiresAt <= new.expiresAt
      BY <1>2, <1>3, <2>1 DEF IsBlocked
    <3>3. QED BY <1>1, <2>1, <3>1, <3>2
  <2>2. CASE ~(l = k /\ IsBlocked(new) /\ ~IsBlocked(old))
    <3>1. /\ l \notin {m \in InUse \ (kept \cup {k}) : ~IsExpired(buckets[m])}
          /\ promised'[l] = promised[l]
      BY <1>3, <1>4, <1>6, <2>2
    <3>2. /\ l \in InUse /\ buckets[l].blockExpiresAt = promised[l]
          /\ promised[l] <= buckets[l].expiresAt
      BY <1>6, <3>1 DEF Base, Promises
    <3>3. buckets[l].expiresAt \in Nat /\ now < buckets[l].expiresAt
      BY <1>3, <1>6, <3>1, <3>2 DEF Base, TypeOK, Bucket, InUse
    <3>4. l \in kept \cup {k}
      BY <1>3, <3>1, <3>2, <3>3 DEF IsExpired
    <3>5. CASE l = k
      <4>1. Found(k) /\ now < buckets[k].blockExpiresAt
        BY <1>3, <1>6, <3>1, <3>2, <3>3, <3>5
           DEF Found, IsCurrent, IsExpired, IsBlocked, InUse
      <4>2. new = buckets[k]
        BY <1>2, <1>3, <4>1
      <4>3. QED BY <1>1, <3>1, <3>2, <3>5, <4>2
    <3>6. CASE l # k
      BY <1>1, <3>1, <3>2, <3>4, <3>6
    <3>7. QED BY <3>5, <3>6
  <2>3. QED BY <2>1, <2>2
<1>7. Promises'
  BY <1>3, <1>6 DEF Promises
<1>8. QED BY <1>5, <1>7

LEMMA IncrementMemory ==
    ASSUME Base, NEW k \in Keys, NEW i \in Free, IncrementWith(k, i)
    PROVE  MemoryIsBounded' /\ TimeoutsCoverTheirBuckets'
<1> DEFINE kept == Kept(k)
           old == OldBucket(k, i)
           new == NewBucket(k, i)
<1>1. /\ InUse' = kept \cup {k} /\ k \notin kept /\ kept \subseteq InUse
      /\ buckets'[k] = new
      /\ \A l \in kept : buckets'[l] = buckets[l]
  BY BucketsAfter
<1>2. /\ Found(k) => k \in InUse /\ old = buckets[k] /\ new.id = buckets[k].id
      /\ \/ new = old /\ Found(k)
         \/ old.blockExpiresAt = 0 /\ new.blockExpiresAt = 0 /\ new.expiresAt = old.expiresAt
         \/ Found(k) /\ old.blockExpiresAt = 0 /\ new.blockExpiresAt = now + BlockDuration
  BY NewBucketFields DEF Base, Found, InUse
<1>3. timers' = Armed(kept) \cup Schedule(k, old, new) /\ now' = now
  BY DEF IncrementWith
<1>4. now + BlockDuration # 0
  BY ThrottlerAssumption DEF Base, TypeOK
<1>5. Cardinality(InUse') <= MaxEntries
  BY <1>1, SizeKept DEF Base, MemoryIsBounded, InUse, kept
<1> HIDE DEF kept, old, new
<1>6. \A t \in Armed(kept) : t \in timers /\ t.key \in kept /\ buckets[t.key].id = t.id
  BY DEF Armed
<1>7. \A t \in Schedule(k, old, new) :
         /\ t.key = k /\ t.id = new.id
         /\ \/ t = [key |-> k, id |-> new.id, due |-> new.expiresAt]
            \/ t \in timers /\ Found(k) /\ old.blockExpiresAt = new.blockExpiresAt
  BY <1>2 DEF Schedule, Armed
<1>8. \A t, u \in Schedule(k, old, new) : t = u
  BY <1>7 DEF Base, MemoryIsBounded, Schedule, Armed
<1>9. \A t \in timers' : t.key \in InUse' /\ buckets'[t.key].id = t.id
  BY <1>1, <1>3, <1>6, <1>7
<1>10. \A t, u \in timers' : t.key = u.key => t = u
  BY <1>1, <1>3, <1>6, <1>7, <1>8 DEF Base, MemoryIsBounded
<1>11. MemoryIsBounded'
  BY <1>5, <1>9, <1>10 DEF MemoryIsBounded, InUse
<1>12. ASSUME NEW l \in InUse'
       PROVE  \/ now' + Skew >= buckets'[l].expiresAt
              \/ [key |-> l, id |-> buckets'[l].id, due |-> buckets'[l].expiresAt] \in timers'
  <2>1. CASE l \in kept
    <3>1. \/ now + Skew >= buckets[l].expiresAt
          \/ [key |-> l, id |-> buckets[l].id, due |-> buckets[l].expiresAt] \in timers
      BY <1>1, <2>1 DEF Base, TimeoutsCoverTheirBuckets, InUse
    <3>2. ASSUME [key |-> l, id |-> buckets[l].id, due |-> buckets[l].expiresAt] \in timers
          PROVE  [key |-> l, id |-> buckets[l].id, due |-> buckets[l].expiresAt] \in Armed(kept)
      BY <2>1, <3>2 DEF Armed
    <3>3. buckets'[l] = buckets[l]
      BY <1>1, <2>1
    <3>4. QED BY <1>3, <3>1, <3>2, <3>3
  <2>2. CASE l = k
    <3>1. buckets'[l] = new
      BY <1>1, <2>2
    <3>2. CASE Found(k) /\ old.blockExpiresAt = new.blockExpiresAt
      <4>1. new.expiresAt = buckets[k].expiresAt /\ new.id = buckets[k].id /\ k \in InUse
        BY <1>2, <1>4, <3>2
      <4>2. \/ now + Skew >= buckets[k].expiresAt
            \/ [key |-> k, id |-> buckets[k].id, due |-> buckets[k].expiresAt] \in timers
        BY <4>1 DEF Base, TimeoutsCoverTheirBuckets, InUse
      <4>3. ASSUME [key |-> k, id |-> buckets[k].id, due |-> buckets[k].expiresAt] \in timers
            PROVE  [key |-> k, id |-> buckets[k].id, due |-> buckets[k].expiresAt] \in Armed({k})
        BY <4>3 DEF Armed
      <4>4. Schedule(k, old, new) = Armed({k})
        BY <3>2 DEF Schedule
      <4>5. QED BY <1>3, <2>2, <3>1, <4>1, <4>2, <4>3, <4>4
    <3>3. CASE ~(Found(k) /\ old.blockExpiresAt = new.blockExpiresAt)
      <4>1. Schedule(k, old, new) = {[key |-> k, id |-> new.id, due |-> new.expiresAt]}
        BY <3>3 DEF Schedule
      <4>2. QED BY <1>3, <2>2, <3>1, <4>1
    <3>4. QED BY <3>2, <3>3
  <2>3. QED BY <1>1, <2>1, <2>2
<1>13. TimeoutsCoverTheirBuckets'
  BY <1>12 DEF TimeoutsCoverTheirBuckets, InUse
<1>14. QED BY <1>11, <1>13

LEMMA IncrementBase ==
    ASSUME Base, NEW k \in Keys, Increment(k)
    PROVE  Base'
<1>1. PICK i \in Free : IncrementWith(k, i)
  BY IncrementStep
<1>2. Counts'
  <2>1. IsFiniteSet(Passing(k))
    BY FS_AddElement DEF Base, Counts, Passing
  <2>2. QED BY <1>1, <2>1, FS_EmptySet DEF Base, Counts, IncrementWith
<1>3. QED
  BY <1>1, <1>2, IncrementTypes, IncrementOrder, IncrementWindows, IncrementMemory DEF Base

-----------------------------------------------------------------------------
(* Timeouts and time *)

LEMMA FireStep ==
    ASSUME TypeOK, NEW t, Fire(t)
    PROVE  /\ now + Skew >= t.due /\ timers' = timers \ {t}
           /\ InUse' = {k \in InUse : ~(k = t.key /\ buckets[k].id = t.id /\ IsExpired(buckets[k]))}
           /\ buckets' = [k \in InUse' |-> buckets[k]]
           /\ older' = older \cap (InUse' \X InUse')
           /\ UNCHANGED <<now, admitted, promised, lastUse>>
<1> DEFINE over == {k \in DOMAIN buckets :
                      k = t.key /\ buckets[k].id = t.id /\ IsExpired(buckets[k])}
           stay == DOMAIN buckets \ over
<1>1. /\ buckets' = [k \in stay |-> buckets[k]] /\ older' = older \cap (stay \X stay)
      /\ now + Skew >= t.due /\ timers' = timers \ {t}
      /\ UNCHANGED <<now, admitted, promised, lastUse>>
  BY DEF Fire
<1>2. stay = {k \in InUse : ~(k = t.key /\ buckets[k].id = t.id /\ IsExpired(buckets[k]))}
  BY DEF InUse
<1> HIDE DEF stay
<1>3. InUse' = stay
  BY <1>1 DEF InUse
<1>4. QED BY <1>1, <1>2, <1>3

LEMMA FireBase ==
    ASSUME Base, NEW t \in timers, Fire(t)
    PROVE  Base'
<1>1. /\ now + Skew >= t.due /\ timers' = timers \ {t}
      /\ InUse' = {k \in InUse : ~(k = t.key /\ buckets[k].id = t.id /\ IsExpired(buckets[k]))}
      /\ buckets' = [k \in InUse' |-> buckets[k]]
      /\ older' = older \cap (InUse' \X InUse')
      /\ now' = now /\ admitted' = admitted /\ promised' = promised /\ lastUse' = lastUse
  BY FireStep DEF Base
<1>2. InUse' \subseteq InUse /\ \A k \in InUse' : buckets'[k] = buckets[k]
  BY <1>1
<1>3. \A k \in InUse \ InUse' : IsExpired(buckets[k]) /\ k = t.key /\ buckets[k].id = t.id
  BY <1>1
<1>4. TypeOK'
  <2>1. buckets' \in [InUse' -> Bucket]
    BY <1>1, <1>2 DEF Base, TypeOK, InUse
  <2>2. /\ InUse' \subseteq Keys /\ older' \subseteq InUse' \X InUse'
        /\ \A k, l \in InUse' : buckets'[k].id = buckets'[l].id => k = l
        /\ \A k, l \in InUse' : k # l => (<<k, l>> \in older' <=> <<l, k>> \notin older')
    BY <1>1, <1>2 DEF Base, TypeOK, InUse
  <2>3. QED BY <1>1, <2>1, <2>2 DEF Base, TypeOK, InUse
<1>5. Ordered'
  BY <1>1, <1>2 DEF Base, Ordered
<1>6. Windows'
  BY <1>1, <1>2 DEF Base, Windows
<1>7. Promises'
  <2> SUFFICES ASSUME NEW k \in Keys, now < promised[k]
               PROVE  /\ k \in InUse' /\ buckets'[k].blockExpiresAt = promised[k]
                      /\ promised[k] <= buckets'[k].expiresAt
    BY <1>1 DEF Promises
  <2>1. /\ k \in InUse /\ buckets[k].blockExpiresAt = promised[k]
        /\ promised[k] <= buckets[k].expiresAt
    BY DEF Base, Promises
  <2>2. buckets[k].expiresAt \in Nat /\ now \in Nat /\ promised[k] \in Nat
    BY <2>1, ThrottlerAssumption DEF Base, TypeOK, Bucket, InUse
  <2>3. ~IsExpired(buckets[k])
    BY <2>1, <2>2 DEF IsExpired
  <2>4. k \in InUse'
    BY <1>3, <2>1, <2>3
  <2>5. QED BY <1>2, <2>1, <2>4
<1>8. MemoryIsBounded'
  <2>1. Cardinality(InUse') <= Cardinality(InUse) /\ IsFiniteSet(InUse')
    BY <1>2, InUseFinite, FS_Subset DEF Base
  <2>2. Cardinality(InUse) \in Nat /\ Cardinality(InUse') \in Nat /\ MaxEntries \in Nat
    BY <2>1, InUseFinite, FS_CardinalityType, ThrottlerAssumption DEF Base
  <2>3. Cardinality(InUse') <= MaxEntries
    BY <2>1, <2>2 DEF Base, MemoryIsBounded, InUse
  <2>4. ASSUME NEW u \in timers' PROVE u.key \in InUse' /\ buckets'[u.key].id = u.id
    <3>1. u.key \in InUse /\ buckets[u.key].id = u.id /\ u.key # t.key
      BY <1>1 DEF Base, MemoryIsBounded, InUse
    <3>2. u.key \in InUse'
      BY <1>3, <3>1
    <3>3. QED BY <1>2, <3>1, <3>2
  <2>5. QED BY <1>1, <2>3, <2>4 DEF Base, MemoryIsBounded, InUse
<1>9. TimeoutsCoverTheirBuckets'
  <2> SUFFICES ASSUME NEW k \in InUse'
               PROVE  \/ now + Skew >= buckets[k].expiresAt
                      \/ [key |-> k, id |-> buckets[k].id, due |-> buckets[k].expiresAt] \in timers'
    BY <1>1, <1>2 DEF TimeoutsCoverTheirBuckets, InUse
  <2>1. \/ now + Skew >= buckets[k].expiresAt
        \/ [key |-> k, id |-> buckets[k].id, due |-> buckets[k].expiresAt] \in timers
    BY <1>2 DEF Base, TimeoutsCoverTheirBuckets, InUse
  <2>2. CASE t = [key |-> k, id |-> buckets[k].id, due |-> buckets[k].expiresAt]
    <3>1. t.due = buckets[k].expiresAt
      BY <2>2
    <3>2. QED BY <1>1, <3>1
  <2>3. CASE t # [key |-> k, id |-> buckets[k].id, due |-> buckets[k].expiresAt]
    BY <1>1, <2>1, <2>3
  <2>4. QED BY <2>2, <2>3
<1>10. QED
  BY <1>1, <1>4, <1>5, <1>6, <1>7, <1>8, <1>9 DEF Base, Counts

LEMMA TickBase ==
    ASSUME Base, Tick
    PROVE  Base'
<1>1. /\ now' = now + 1 /\ now < MaxTime /\ now \in Nat /\ now' \in 0 .. MaxTime
      /\ admitted' = [k \in Keys |-> {a \in admitted[k] : a[1] + Ttl > now'}]
      /\ buckets' = buckets /\ older' = older /\ timers' = timers
      /\ promised' = promised /\ lastUse' = lastUse /\ InUse' = InUse
  BY ThrottlerAssumption DEF Tick, Base, TypeOK, InUse
<1>2. \A k \in Keys : admitted'[k] \subseteq admitted[k]
  BY <1>1
<1>3. Counts'
  BY <1>2, FS_Subset DEF Base, Counts
<1>4. TypeOK'
  <2>1. admitted' \in [Keys -> SUBSET (Nat \X Nat)]
    BY <1>1 DEF Base, TypeOK
  <2>2. QED BY <1>1, <2>1 DEF Base, TypeOK
<1>5. Ordered'
  BY <1>1 DEF Base, TypeOK, Ordered
<1>6. Windows'
  <2>1. \A k \in InUse : buckets[k].windowExpiresAt \in Nat
    BY DEF Base, TypeOK, Bucket, InUse
  <2>2. QED BY <1>1, <2>1, ThrottlerAssumption DEF Base, Windows
<1>7. Promises'
  BY <1>1 DEF Base, TypeOK, Promises
<1>8. MemoryIsBounded'
  BY <1>1 DEF Base, MemoryIsBounded
<1>9. TimeoutsCoverTheirBuckets'
  <2>1. \A k \in InUse : buckets[k].expiresAt \in Nat
    BY DEF Base, TypeOK, Bucket, InUse
  <2>2. QED BY <1>1, <2>1, ThrottlerAssumption DEF Base, TimeoutsCoverTheirBuckets, InUse
<1>10. QED BY <1>3, <1>4, <1>5, <1>6, <1>7, <1>8, <1>9 DEF Base

LEMMA InitBase == Init => Base
<1> SUFFICES ASSUME Init PROVE Base
  OBVIOUS
<1>1. InUse = {}
  BY DEF Init, InUse
<1>2. TypeOK
  BY <1>1, ThrottlerAssumption DEF Init, TypeOK, InUse
<1>3. Ordered /\ Windows
  BY <1>1 DEF Init, Ordered, Windows
<1>4. Promises /\ Counts
  BY <1>1, FS_EmptySet DEF Init, Promises, Counts
<1>5. MemoryIsBounded /\ TimeoutsCoverTheirBuckets
  BY <1>1, FS_EmptySet, ThrottlerAssumption DEF Init, MemoryIsBounded, TimeoutsCoverTheirBuckets, InUse
<1>6. QED BY <1>2, <1>3, <1>4, <1>5 DEF Base

LEMMA NextBase == Base /\ [Next]_vars => Base'
<1> SUFFICES ASSUME Base, [Next]_vars PROVE Base'
  OBVIOUS
<1>1. CASE UNCHANGED vars
  BY <1>1 DEF vars, Base, TypeOK, Ordered, Windows, Promises, Counts, MemoryIsBounded,
              TimeoutsCoverTheirBuckets, InUse
<1>2. QED BY <1>1, IncrementBase, FireBase, TickBase DEF Next

LEMMA BaseHolds == Spec => []Base
<1>1. QED BY InitBase, NextBase, PTL DEF Spec

\* Keys, identities and the order keep their shape: every key has one bucket,
\* every bucket its identity, and the order is total.
THEOREM ThrottlerTypeCorrect == Spec => []TypeOK
<1>1. Base => TypeOK
  BY DEF Base
<1>2. QED BY <1>1, BaseHolds, PTL

\* The map never grows beyond maxEntries, and no timeout outlives its bucket.
THEOREM MemoryStaysBounded == Spec => []MemoryIsBounded
<1>1. Base => MemoryIsBounded
  BY DEF Base
<1>2. QED BY <1>1, BaseHolds, PTL

\* Until the end of a bucket is due a timeout for it is armed, also when a
\* block has moved the end.
THEOREM BucketsHaveTheirTimeouts == Spec => []TimeoutsCoverTheirBuckets
<1>1. Base => TimeoutsCoverTheirBuckets
  BY DEF Base
<1>2. QED BY <1>1, BaseHolds, PTL

\* A key that was told it is blocked lets nothing pass until its block is over,
\* unless it is evicted, which forgets the promise.
THEOREM BlocksStand == Spec => BlocksLast
<1> DEFINE Stands == \A k \in Keys : now < promised[k] => admitted'[k] \subseteq admitted[k]
<1>1. ASSUME Base, [Next]_vars PROVE [Stands]_vars
  <2>1. ASSUME NEW k \in Keys, Increment(k), NEW l \in Keys, now < promised[l]
        PROVE  admitted'[l] \subseteq admitted[l]
    <3>1. PICK i \in Free : IncrementWith(k, i)
      BY <2>1, IncrementStep
    <3> DEFINE old == OldBucket(k, i)
               new == NewBucket(k, i)
    <3>2. ASSUME l = k PROVE IsBlocked(new)
      <4>1. /\ k \in InUse /\ buckets[k].blockExpiresAt = promised[k]
            /\ promised[k] <= buckets[k].expiresAt
        BY <1>1, <2>1, <3>2 DEF Base, Promises
      <4>2. now \in Nat /\ promised[k] \in Nat /\ buckets[k].expiresAt \in Nat
        BY <1>1, <4>1, ThrottlerAssumption DEF Base, TypeOK, Bucket, InUse
      <4>3. Found(k)
        BY <2>1, <3>2, <4>1, <4>2 DEF Found, IsCurrent, IsExpired, IsBlocked, InUse
      <4>4. old = buckets[k] /\ now < old.blockExpiresAt
        BY <2>1, <3>2, <4>1, <4>3 DEF OldBucket
      <4>5. new = old
        BY <1>1, <4>2, <4>3, <4>4, NewBucketFields DEF Base
      <4>6. QED BY <4>4, <4>5 DEF IsBlocked
    <3> HIDE DEF old, new
    <3>3. admitted'[l] = {} \/ admitted'[l] = admitted[l]
      <4>1. \/ admitted'[l] = {} \/ admitted'[l] = admitted[l]
            \/ l = k /\ ~IsBlocked(new)
        BY <3>1 DEF IncrementWith, new
      <4>2. QED BY <3>2, <4>1
    <3>4. QED BY <3>3
  <2>2. ASSUME NEW t \in timers, Fire(t) PROVE Stands
    BY <2>2 DEF Fire
  <2>3. ASSUME Tick PROVE Stands
    BY <2>3 DEF Tick
  <2>4. QED BY <1>1, <2>1, <2>2, <2>3 DEF Next
<1>2. QED BY <1>1, BaseHolds, PTL DEF Spec, BlocksLast

\* Only expired buckets leave, or else the store was full of active ones and the
\* least recently used key leaves.
THEOREM OnlyIdleKeysLeave == Spec => OnlyTheIdleAreEvicted
<1> DEFINE Idle(k) ==
          \/ IsExpired(buckets[k])
          \/ /\ Cardinality(DOMAIN buckets) = MaxEntries
             /\ \A l \in DOMAIN buckets :
                   ~IsExpired(buckets[l]) /\ lastUse[k] <= lastUse[l]
           Leaving == \A k \in DOMAIN buckets \ DOMAIN buckets' : Idle(k)
<1>1. ASSUME Base, [Next]_vars PROVE [Leaving]_vars
  <2>1. ASSUME NEW k \in Keys, Increment(k), NEW l \in InUse \ InUse' PROVE Idle(l)
    <3>1. PICK i \in Free : IncrementWith(k, i)
      BY <2>1, IncrementStep
    <3>2. l \in InUse \ (Kept(k) \cup {k})
      BY <3>1, BucketsAfter
    <3>3. QED BY <1>1, <3>2, WhoGoes DEF Base, MemoryIsBounded, InUse
  <2>2. ASSUME NEW t \in timers, Fire(t), NEW l \in InUse \ InUse' PROVE Idle(l)
    BY <1>1, <2>2, FireStep DEF Base
  <2>3. ASSUME Tick \/ UNCHANGED vars PROVE DOMAIN buckets \ DOMAIN buckets' = {}
    BY <2>3 DEF Tick, vars
  <2> HIDE DEF Idle
  <2>4. QED BY <1>1, <2>1, <2>2, <2>3 DEF Next, InUse
<1>2. QED BY <1>1, BaseHolds, PTL DEF Spec, OnlyTheIdleAreEvicted

-----------------------------------------------------------------------------
(* The quota *)

\* Requests that pass in a window are counted by its bucket, up to the limit.
\* The first of them passes as the window begins, so of those that passed
\* later there is always one less; when the window is over only they are left.
Counted(k) == IF buckets[k].blockExpiresAt = 0 THEN buckets[k].totalHits ELSE Limit[k]
AfterStart(k) == {a \in admitted[k] : buckets[k].windowExpiresAt < a[1] + Ttl}

QuotaOf(k) ==
    /\ \A a \in admitted[k] : a[1] <= now /\ now < a[1] + Ttl
    /\ k \notin InUse => Cardinality(admitted[k]) < Limit[k]
    /\ k \in InUse =>
          /\ buckets[k].blockExpiresAt # 0 =>
                buckets[k].windowExpiresAt <= buckets[k].blockExpiresAt
          /\ Cardinality(AfterStart(k)) < Counted(k)
          /\ Cardinality(admitted[k]) < Limit[k] + Counted(k)

Quotas == \A k \in Keys : QuotaOf(k)

LEMMA KeyNumbers ==
    ASSUME Base, NEW k \in Keys
    PROVE  /\ now \in Nat /\ Ttl \in Nat \ {0} /\ BlockDuration \in Nat /\ Limit[k] \in Nat \ {0}
           /\ IsFiniteSet(admitted[k]) /\ Cardinality(admitted[k]) \in Nat
           /\ \A a \in admitted[k] : a[1] \in Nat
           /\ k \in InUse =>
                 /\ buckets[k].windowExpiresAt \in Nat /\ buckets[k].expiresAt \in Nat
                 /\ buckets[k].blockExpiresAt \in Nat /\ buckets[k].windowExpiresAt <= buckets[k].expiresAt
                 /\ Counted(k) \in 0 .. Limit[k]
                 /\ IsFiniteSet(AfterStart(k)) /\ Cardinality(AfterStart(k)) \in Nat
<1>1. /\ now \in Nat /\ Ttl \in Nat \ {0} /\ BlockDuration \in Nat /\ Limit[k] \in Nat \ {0}
  BY ThrottlerAssumption DEF Base, TypeOK
<1>2. IsFiniteSet(admitted[k]) /\ IsFiniteSet(AfterStart(k))
  BY FS_Subset DEF Base, Counts, AfterStart
<1>3. Cardinality(admitted[k]) \in Nat /\ Cardinality(AfterStart(k)) \in Nat
  BY <1>2, FS_CardinalityType
<1>4. \A a \in admitted[k] : a[1] \in Nat
  BY DEF Base, TypeOK
<1>5. ASSUME k \in InUse
      PROVE  /\ buckets[k].windowExpiresAt \in Nat /\ buckets[k].expiresAt \in Nat
             /\ buckets[k].blockExpiresAt \in Nat
             /\ buckets[k].windowExpiresAt <= buckets[k].expiresAt
             /\ Counted(k) \in 0 .. Limit[k]
  <2>1. buckets[k] \in Bucket
    BY <1>5 DEF Base, TypeOK, InUse
  <2>2. /\ buckets[k].windowExpiresAt <= buckets[k].expiresAt
        /\ buckets[k].blockExpiresAt = 0 => buckets[k].totalHits \in 1 .. Limit[k]
    BY <1>5 DEF Base, Windows
  <2>3. QED BY <1>1, <2>1, <2>2 DEF Bucket, Counted
<1>6. QED BY <1>1, <1>2, <1>3, <1>4, <1>5

\* When its window is over, or its bucket is gone, less than its limit is left
\* of what a key passed.
LEMMA Rested ==
    ASSUME Base, NEW k \in Keys, QuotaOf(k),
           k \in InUse => buckets[k].windowExpiresAt <= now
    PROVE  Cardinality(admitted[k]) < Limit[k]
<1>1. CASE k \notin InUse
  BY <1>1 DEF QuotaOf
<1>2. CASE k \in InUse
  <2>1. ASSUME NEW a \in admitted[k] PROVE buckets[k].windowExpiresAt < a[1] + Ttl
    <3>1. buckets[k].windowExpiresAt <= now /\ now < a[1] + Ttl
      BY <1>2 DEF QuotaOf
    <3>2. /\ buckets[k].windowExpiresAt \in Nat /\ now \in Nat
          /\ a[1] \in Nat /\ Ttl \in Nat
      BY <1>2, KeyNumbers
    <3>3. QED BY <3>1, <3>2
  <2>a. admitted[k] = AfterStart(k)
    BY <2>1 DEF AfterStart
  <2>2. Cardinality(AfterStart(k)) < Counted(k)
    BY <1>2 DEF QuotaOf
  <2>3. QED BY <1>2, <2>a, <2>2, KeyNumbers
<1>3. QED BY <1>1, <1>2

\* A key whose bucket stays as it is, and for which nothing passes.
LEMMA StillCounts ==
    ASSUME Base, NEW k \in Keys, QuotaOf(k), k \in InUse' <=> k \in InUse,
           k \in InUse => buckets'[k] = buckets[k],
           admitted'[k] \subseteq admitted[k],
           \A a \in admitted'[k] : a[1] <= now' /\ now' < a[1] + Ttl
    PROVE  QuotaOf(k)'
<1>1. /\ IsFiniteSet(admitted'[k]) /\ Cardinality(admitted'[k]) <= Cardinality(admitted[k])
      /\ Cardinality(admitted'[k]) \in Nat
  BY KeyNumbers, FS_Subset, FS_CardinalityType
<1>2. CASE k \notin InUse
  BY <1>1, <1>2, KeyNumbers DEF QuotaOf
<1>3. CASE k \in InUse
  <2>1. AfterStart(k)' \subseteq AfterStart(k) /\ Counted(k)' = Counted(k)
    BY <1>3 DEF AfterStart, Counted
  <2>2. Cardinality(AfterStart(k)') <= Cardinality(AfterStart(k))
    BY <1>3, <2>1, KeyNumbers, FS_Subset
  <2>3. Cardinality(AfterStart(k)') \in Nat
    BY <1>3, <2>1, KeyNumbers, FS_Subset, FS_CardinalityType
  <2>4. /\ Cardinality(AfterStart(k)) < Counted(k)
        /\ Cardinality(admitted[k]) < Limit[k] + Counted(k)
    BY <1>3 DEF QuotaOf
  <2>5. /\ Cardinality(AfterStart(k)') < Counted(k)'
        /\ Cardinality(admitted'[k]) < Limit[k] + Counted(k)'
    BY <1>1, <1>3, <2>1, <2>2, <2>3, <2>4, KeyNumbers
  <2>6. QED BY <1>3, <2>5 DEF QuotaOf
<1>4. QED BY <1>2, <1>3

\* A key whose bucket goes was evicted and forgotten, or its window is over.
LEMMA GoneCounts ==
    ASSUME Base, NEW k \in Keys, QuotaOf(k), k \in InUse, k \notin InUse', now' = now,
           \/ admitted'[k] = {}
           \/ IsExpired(buckets[k]) /\ admitted'[k] = admitted[k]
    PROVE  QuotaOf(k)'
<1>1. CASE admitted'[k] = {}
  BY <1>1, KeyNumbers, FS_EmptySet DEF QuotaOf
<1>2. CASE IsExpired(buckets[k]) /\ admitted'[k] = admitted[k]
  <2>1. Cardinality(admitted[k]) < Limit[k]
    BY <1>2, KeyNumbers, Rested DEF IsExpired
  <2>2. QED BY <1>2, <2>1 DEF QuotaOf
<1>3. QED BY <1>1, <1>2

\* One more element at most.
LEMMA OneMore ==
    ASSUME NEW S, IsFiniteSet(S), NEW T, NEW x, T \subseteq S \cup {x}
    PROVE  /\ Cardinality(S) \in Nat /\ Cardinality(T) \in Nat
           /\ Cardinality(T) <= Cardinality(S) + 1
<1>1. /\ IsFiniteSet(S \cup {x})
      /\ Cardinality(S \cup {x}) = IF x \in S THEN Cardinality(S) ELSE Cardinality(S) + 1
  BY FS_AddElement
<1>2. IsFiniteSet(T) /\ Cardinality(T) <= Cardinality(S \cup {x})
  BY <1>1, FS_Subset
<1>3. Cardinality(S) \in Nat /\ Cardinality(T) \in Nat /\ Cardinality(S \cup {x}) \in Nat
  BY <1>1, <1>2, FS_CardinalityType
<1>4. QED BY <1>1, <1>2, <1>3

\* The key that is used.
LEMMA UsedCounts ==
    ASSUME Base, Base', Ttl <= BlockDuration, NEW k \in Keys, QuotaOf(k),
           NEW i \in Free, IncrementWith(k, i)
    PROVE  QuotaOf(k)'
<1> DEFINE old == OldBucket(k, i)
           new == NewBucket(k, i)
<1>1. k \in InUse' /\ buckets'[k] = new /\ now' = now
  BY BucketsAfter DEF IncrementWith
<1>2. /\ Found(k) => k \in InUse /\ old = buckets[k]
      /\ ~Found(k) => old = Created(i)
      /\ new.windowExpiresAt = old.windowExpiresAt
      /\ new.windowExpiresAt <= now + Ttl
      /\ \/ now < old.blockExpiresAt /\ new = old /\ Found(k)
         \/ /\ old.blockExpiresAt = 0 /\ new.blockExpiresAt = 0
            /\ new.totalHits = old.totalHits + 1 /\ new.totalHits <= Limit[k]
         \/ /\ Found(k) /\ old.blockExpiresAt = 0
            /\ new.blockExpiresAt = now + BlockDuration
  BY NewBucketFields DEF Base, Found, InUse
<1>3. admitted'[k] = IF IsBlocked(new) THEN admitted[k] ELSE Passing(k)
  BY KeptKeys DEF IncrementWith, new
<1> DEFINE p == <<now, Cardinality({a \in admitted[k] : a[1] = now})>>
<1>4. Passing(k) = admitted[k] \cup {p} /\ p[1] = now
  BY DEF Passing
<1> HIDE DEF p
<1>n. /\ now \in Nat /\ Ttl \in Nat \ {0} /\ BlockDuration \in Nat /\ Limit[k] \in Nat \ {0}
      /\ IsFiniteSet(admitted[k]) /\ Cardinality(admitted[k]) \in Nat
  BY KeyNumbers
<1>5. \A a \in admitted'[k] : a[1] <= now' /\ now' < a[1] + Ttl
  BY <1>1, <1>3, <1>4, <1>n DEF QuotaOf
<1>6. CASE now < old.blockExpiresAt /\ new = old /\ Found(k)
  <2>1. admitted'[k] = admitted[k]
    BY <1>3, <1>6, <1>n DEF IsBlocked
  <2>2. k \in InUse /\ buckets'[k] = buckets[k]
    BY <1>1, <1>2, <1>6
  <2>3. QED BY <1>1, <1>5, <2>1, <2>2, StillCounts
<1>7. CASE /\ Found(k) /\ old.blockExpiresAt = 0
           /\ new.blockExpiresAt = now + BlockDuration
  <2>1. IsBlocked(new) /\ new.blockExpiresAt # 0
    BY <1>7, <1>n, ThrottlerAssumption DEF IsBlocked
  <2>2. admitted'[k] = admitted[k] /\ k \in InUse /\ old = buckets[k]
    BY <1>2, <1>3, <1>7, <2>1
  <2>3. AfterStart(k)' = AfterStart(k)
    BY <1>1, <1>2, <2>2 DEF AfterStart
  <2>4. Counted(k)' = Limit[k] /\ Counted(k) \in 0 .. Limit[k]
    BY <1>1, <2>1, <2>2, KeyNumbers DEF Counted
  <2>5. /\ Cardinality(AfterStart(k)) < Counted(k) /\ Cardinality(AfterStart(k)) \in Nat
        /\ Cardinality(admitted[k]) < Limit[k] + Counted(k)
    BY <2>2, KeyNumbers DEF QuotaOf
  <2>6. new.windowExpiresAt <= new.blockExpiresAt
    <3>1. new.windowExpiresAt \in Nat
      BY <1>1, <1>n DEF Base, TypeOK, Bucket, InUse
    <3>2. QED BY <1>2, <1>7, <1>n, <3>1
  <2>7. /\ Cardinality(AfterStart(k)') < Counted(k)'
        /\ Cardinality(admitted'[k]) < Limit[k] + Counted(k)'
    BY <1>n, <2>2, <2>3, <2>4, <2>5
  <2>8. QED BY <1>1, <1>5, <2>6, <2>7 DEF QuotaOf
<1>8. CASE /\ old.blockExpiresAt = 0 /\ new.blockExpiresAt = 0
           /\ new.totalHits = old.totalHits + 1 /\ new.totalHits <= Limit[k]
  <2>1. ~IsBlocked(new)
    BY <1>8, <1>n DEF IsBlocked
  <2>2. admitted'[k] = admitted[k] \cup {p}
    BY <1>3, <1>4, <2>1
  <2>3. /\ Cardinality(admitted'[k]) <= Cardinality(admitted[k]) + 1
        /\ Cardinality(admitted'[k]) \in Nat
    BY <1>n, <2>2, OneMore
  <2>4. Counted(k)' = new.totalHits
    BY <1>1, <1>8 DEF Counted
  <2>5. CASE Found(k)
    <3>1. k \in InUse /\ old = buckets[k]
      BY <1>2, <2>5
    <3>2. /\ Counted(k) = old.totalHits /\ Counted(k) \in 0 .. Limit[k]
          /\ Cardinality(AfterStart(k)) < Counted(k)
          /\ Cardinality(admitted[k]) < Limit[k] + Counted(k)
      BY <1>8, <3>1, KeyNumbers DEF Counted, QuotaOf
    <3>3. AfterStart(k)' \subseteq AfterStart(k) \cup {p}
      BY <1>1, <1>2, <2>2, <3>1 DEF AfterStart
    <3>4. IsFiniteSet(AfterStart(k))
      BY <3>1, KeyNumbers
    <3>5. /\ Cardinality(AfterStart(k)') <= Cardinality(AfterStart(k)) + 1
          /\ Cardinality(AfterStart(k)') \in Nat /\ Cardinality(AfterStart(k)) \in Nat
      BY <3>3, <3>4, OneMore
    <3>6. Counted(k)' = Counted(k) + 1
      BY <1>8, <2>4, <3>2
    <3>7. /\ Cardinality(AfterStart(k)') < Counted(k)'
          /\ Cardinality(admitted'[k]) < Limit[k] + Counted(k)'
      BY <1>n, <2>3, <3>2, <3>5, <3>6
    <3>8. QED BY <1>1, <1>5, <1>8, <3>7 DEF QuotaOf
  <2>6. CASE ~Found(k)
    <3>1. k \in InUse => buckets[k].windowExpiresAt <= now
      BY <2>6, KeyNumbers DEF QuotaOf, Found, IsCurrent, IsExpired, IsBlocked, InUse
    <3>2. Cardinality(admitted[k]) < Limit[k]
      BY <3>1, Rested
    <3>3. old.totalHits = 0 /\ old.windowExpiresAt = now + Ttl
      BY <1>2, <2>6, CreatedFields DEF Base, Free
    <3>4. Counted(k)' = 1
      BY <1>8, <2>4, <3>3
    <3>5. AfterStart(k)' = {}
      <4>1. ASSUME NEW a \in admitted'[k] PROVE ~(new.windowExpiresAt < a[1] + Ttl)
        <5>1. a[1] <= now /\ a[1] \in Nat
          BY <1>1, <1>4, <1>5, <1>n, <2>2, KeyNumbers
        <5>2. QED BY <1>2, <1>n, <3>3, <5>1
      <4>2. QED BY <1>1, <4>1 DEF AfterStart
    <3>6. Cardinality(AfterStart(k)') = 0
      BY <3>5, FS_EmptySet
    <3>7. /\ Cardinality(AfterStart(k)') < Counted(k)'
          /\ Cardinality(admitted'[k]) < Limit[k] + Counted(k)'
      BY <1>n, <2>3, <3>2, <3>4, <3>6
    <3>8. QED BY <1>1, <1>5, <1>8, <3>7 DEF QuotaOf
  <2>7. QED BY <2>5, <2>6
<1>9. QED BY <1>2, <1>6, <1>7, <1>8

LEMMA NextQuotas ==
    ASSUME Ttl <= BlockDuration, Base, Base', Quotas, [Next]_vars
    PROVE  Quotas'
<1>1. ASSUME NEW k \in Keys, Increment(k), NEW l \in Keys PROVE QuotaOf(l)'
  <2>1. PICK i \in Free : IncrementWith(k, i)
    BY <1>1, IncrementStep
  <2>q. QuotaOf(l)
    BY DEF Quotas
  <2>2. CASE l = k
    BY <2>1, <2>2, <2>q, UsedCounts
  <2>3. CASE l # k
    <3>1. /\ InUse' = Kept(k) \cup {k} /\ Kept(k) \subseteq InUse /\ now' = now
          /\ \A m \in Kept(k) : buckets'[m] = buckets[m]
      BY <2>1, BucketsAfter DEF IncrementWith
    <3>2. admitted'[l] = IF l \in {m \in InUse \ (Kept(k) \cup {k}) : ~IsExpired(buckets[m])}
                         THEN {} ELSE admitted[l]
      BY <2>1, <2>3 DEF IncrementWith
    <3>3. CASE l \in InUse /\ l \notin InUse'
      <4>1. \/ admitted'[l] = {}
            \/ IsExpired(buckets[l]) /\ admitted'[l] = admitted[l]
        BY <3>1, <3>2, <3>3
      <4>2. QED BY <2>q, <3>1, <3>3, <4>1, GoneCounts
    <3>4. CASE ~(l \in InUse /\ l \notin InUse')
      <4>1. /\ l \in InUse' <=> l \in InUse
            /\ l \in InUse => buckets'[l] = buckets[l]
            /\ admitted'[l] = admitted[l]
        BY <2>3, <3>1, <3>2, <3>4
      <4>2. \A a \in admitted'[l] : a[1] <= now' /\ now' < a[1] + Ttl
        BY <2>q, <3>1, <4>1 DEF QuotaOf
      <4>3. QED BY <2>q, <4>1, <4>2, StillCounts
    <3>5. QED BY <3>3, <3>4
  <2>4. QED BY <2>2, <2>3
<1>2. ASSUME NEW t \in timers, Fire(t), NEW l \in Keys PROVE QuotaOf(l)'
  <2>q. QuotaOf(l)
    BY DEF Quotas
  <2>1. /\ InUse' = {k \in InUse : ~(k = t.key /\ buckets[k].id = t.id /\ IsExpired(buckets[k]))}
        /\ buckets' = [k \in InUse' |-> buckets[k]]
        /\ now' = now /\ admitted' = admitted
    BY <1>2, FireStep DEF Base
  <2>2. CASE l \in InUse /\ l \notin InUse'
    <3>1. IsExpired(buckets[l])
      BY <2>1, <2>2
    <3>2. QED BY <2>q, <2>1, <2>2, <3>1, GoneCounts
  <2>3. CASE ~(l \in InUse /\ l \notin InUse')
    <3>1. (l \in InUse' <=> l \in InUse) /\ (l \in InUse => buckets'[l] = buckets[l])
      BY <2>1, <2>3
    <3>2. \A a \in admitted'[l] : a[1] <= now' /\ now' < a[1] + Ttl
      BY <2>q, <2>1 DEF QuotaOf
    <3>3. QED BY <2>q, <2>1, <3>1, <3>2, StillCounts
  <2>4. QED BY <2>2, <2>3
<1>3. ASSUME Tick, NEW l \in Keys PROVE QuotaOf(l)'
  <2>q. QuotaOf(l)
    BY DEF Quotas
  <2>1. /\ admitted'[l] = {a \in admitted[l] : a[1] + Ttl > now'}
        /\ buckets' = buckets /\ InUse' = InUse /\ now' = now + 1
    BY <1>3 DEF Tick, InUse
  <2>2. ASSUME NEW a \in admitted'[l] PROVE a[1] <= now' /\ now' < a[1] + Ttl
    <3>1. a[1] \in Nat /\ a[1] <= now /\ a[1] + Ttl > now'
      BY <2>q, <2>1, KeyNumbers DEF QuotaOf
    <3>2. QED BY <2>1, <3>1, KeyNumbers
  <2>3. QED BY <2>q, <2>1, <2>2, StillCounts
<1>4. ASSUME UNCHANGED vars, NEW l \in Keys PROVE QuotaOf(l)'
  <2>q. QuotaOf(l)
    BY DEF Quotas
  <2>1. buckets' = buckets /\ admitted' = admitted /\ now' = now /\ InUse' = InUse
    BY <1>4 DEF vars, InUse
  <2>2. \A a \in admitted'[l] : a[1] <= now' /\ now' < a[1] + Ttl
    BY <2>q, <2>1 DEF QuotaOf
  <2>3. QED BY <2>q, <2>1, <2>2, StillCounts
<1>5. QED BY <1>1, <1>2, <1>3, <1>4 DEF Next, Quotas

\* Less than twice the limit passes in any time of a window, if a block lasts at
\* least as long as a window.  Nothing configures a block, and the guard then
\* makes it as long as the window.
THEOREM QuotaStands ==
    ASSUME Ttl <= BlockDuration
    PROVE  Spec => []QuotaHolds
<1>1. Init => Quotas
  BY FS_EmptySet, ThrottlerAssumption DEF Init, Quotas, QuotaOf, InUse
<1>2. Base /\ Base' /\ Quotas /\ [Next]_vars => Quotas'
  BY NextQuotas
<1>3. Base /\ Quotas => QuotaHolds
  <2> SUFFICES ASSUME Base, Quotas, NEW k \in Keys PROVE Cardinality(admitted[k]) < 2 * Limit[k]
    BY DEF QuotaHolds
  <2>1. QuotaOf(k)
    BY DEF Quotas
  <2>2. CASE k \in InUse
    <3>1. Cardinality(admitted[k]) < Limit[k] + Counted(k) /\ Counted(k) \in 0 .. Limit[k]
      BY <2>1, <2>2, KeyNumbers DEF QuotaOf
    <3>2. QED BY <3>1, KeyNumbers
  <2>3. CASE k \notin InUse
    BY <2>1, <2>3, KeyNumbers DEF QuotaOf
  <2>4. QED BY <2>2, <2>3
<1>4. QED BY <1>1, <1>2, <1>3, BaseHolds, PTL DEF Spec

=============================================================================
