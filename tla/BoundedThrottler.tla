---------------------------- MODULE BoundedThrottler ----------------------------
(***************************************************************************)
(* The store of the request limiter: a bounded map from a key (a route and *)
(* an address) to its bucket, with one timeout per bucket.  Requests run   *)
(* to the end of increment without an await; the timeouts, armed in        *)
(* wall-clock milliseconds but counted by the event loop's own clock,      *)
(* interleave with them.                                                   *)
(***************************************************************************)
EXTENDS Naturals, FiniteSets

CONSTANTS Keys,
          Ids,             \* identities of bucket objects
          MaxEntries,      \* maxEntries
          Limit,           \* limit of each key's route
          Ttl, BlockDuration,
          Skew,            \* how early a timeout may fire by the wall clock
          MaxTime          \* bound on the clock

ASSUME ThrottlerAssumption ==
    /\ IsFiniteSet(Keys) /\ IsFiniteSet(Ids)
    /\ MaxEntries \in Nat \ {0} /\ Cardinality(Ids) > MaxEntries
    /\ Ttl \in Nat \ {0} /\ BlockDuration \in Nat \ {0}
    /\ Limit \in [Keys -> Nat \ {0}]
    /\ Skew \in Nat /\ MaxTime \in Nat

VARIABLES now,       \* Date.now()
          buckets,   \* the Map, as a function on the keys it holds
          older,     \* its insertion order: pairs of keys, the earlier one first
          timers,    \* armed timeouts, with the bucket each closes over
          admitted,  \* history: requests of a key that passed less than a Ttl ago
          promised,  \* history: until when a key was told it is blocked
          lastUse    \* history: the last request of a key

vars == <<now, buckets, older, timers, admitted, promised, lastUse>>

Bucket == [id : Ids, totalHits : Nat,
           windowExpiresAt : Nat, blockExpiresAt : Nat, expiresAt : Nat]
Timer == [key : Keys, id : Ids, due : Nat]

\* Keys and identities are used once, and the insertion order is total.
TypeOK ==
    /\ now \in 0 .. MaxTime
    /\ DOMAIN buckets \subseteq Keys
    /\ buckets \in [DOMAIN buckets -> Bucket]
    /\ \A k, l \in DOMAIN buckets : buckets[k].id = buckets[l].id => k = l
    /\ older \subseteq (DOMAIN buckets) \X (DOMAIN buckets)
    /\ \A k, l \in DOMAIN buckets : k # l => (<<k, l>> \in older <=> <<l, k>> \notin older)
    /\ timers \subseteq Timer
    /\ admitted \in [Keys -> SUBSET (Nat \X Nat)]
    /\ promised \in [Keys -> Nat]
    /\ lastUse \in [Keys -> Nat]

-----------------------------------------------------------------------------
(* The map *)

IsExpired(b) == b.expiresAt <= now
IsBlocked(b) == b.blockExpiresAt > now

\* A bucket that increment goes on with: neither it nor its block is over.
IsCurrent(b) == ~IsExpired(b) /\ (b.blockExpiresAt # 0 => IsBlocked(b))
Found(k) == k \in DOMAIN buckets /\ IsCurrent(buckets[k])

OldestOf(S) == CHOOSE k \in S : \A l \in S \ {k} : <<k, l>> \in older

\* Keys that stay in the map when k is used: a new bucket may need space,
\* which the expired buckets give and otherwise the least recently used one.
Kept(k) ==
    LET others == DOMAIN buckets \ {k}
        active == {l \in others : ~IsExpired(buckets[l])}
    IN  IF Found(k) \/ Cardinality(others) < MaxEntries THEN others
        ELSE IF Cardinality(active) < MaxEntries THEN active
        ELSE active \ {OldestOf(active)}

\* Mutation: the map keeps the order of first use.
TouchedNever(k, kept) ==
    (older \cap ((kept \cup {k}) \X (kept \cup {k}))) \cup
    (IF Found(k) THEN {} ELSE kept \X {k})

\* Mutation: the old place of the key stays in the order.
TouchedTwice(k, kept) == (older \cap ((kept \cup {k}) \X (kept \cup {k}))) \cup (kept \X {k})

\* Insertion order after k was deleted and set again.
Touched(k, kept) == (older \cap (kept \X kept)) \cup (kept \X {k})

\* Mutation: removing a bucket leaves its timeout armed.
ArmedAll(S) == timers

\* Timeouts left when only the buckets of S stay: remove clears the others.
Armed(S) == {t \in timers : t.key \in S /\ buckets[t.key].id = t.id}

Free == Ids \ ({buckets[k].id : k \in DOMAIN buckets} \cup {t.id : t \in timers})

-----------------------------------------------------------------------------
(* Requests *)

Created(i) == [id |-> i, totalHits |-> 0, windowExpiresAt |-> now + Ttl,
               blockExpiresAt |-> 0, expiresAt |-> now + Ttl]

\* Mutation: a block ends with the window it began in.
HitWindowOnly(b, k) ==
    IF IsBlocked(b) THEN b
    ELSE IF b.totalHits < Limit[k] THEN [b EXCEPT !.totalHits = @ + 1]
    ELSE [b EXCEPT !.totalHits = @ + 1, !.blockExpiresAt = now + BlockDuration]

Later(s, t) == IF s < t THEN t ELSE s

\* The bucket after one more request on it.
Hit(b, k) ==
    IF IsBlocked(b) THEN b
    ELSE IF b.totalHits < Limit[k] THEN [b EXCEPT !.totalHits = @ + 1]
    ELSE [b EXCEPT !.totalHits = @ + 1, !.blockExpiresAt = now + BlockDuration,
                   !.expiresAt = Later(b.windowExpiresAt, now + BlockDuration)]

\* Mutation: the timeout of the window is not moved when a block begins.
ScheduleOnce(k, old, new) ==
    IF Found(k) THEN Armed({k}) ELSE {[key |-> k, id |-> new.id, due |-> new.expiresAt]}

\* The timeout of k's bucket: armed when the bucket is created or blocked.
Schedule(k, old, new) ==
    IF Found(k) /\ old.blockExpiresAt = new.blockExpiresAt THEN Armed({k})
    ELSE {[key |-> k, id |-> new.id, due |-> new.expiresAt]}

\* One more request that passes now, told from the others of this moment.
Passing(k) == admitted[k] \cup {<<now, Cardinality({a \in admitted[k] : a[1] = now})>>}

Increment(k) ==
    \E i \in Free :
        LET kept == Kept(k)
            old == IF Found(k) THEN buckets[k] ELSE Created(i)
            new == Hit(old, k)
            evicted == {l \in DOMAIN buckets \ (kept \cup {k}) : ~IsExpired(buckets[l])}
        IN  /\ buckets' = [l \in kept \cup {k} |-> IF l = k THEN new ELSE buckets[l]]
            /\ older' = Touched(k, kept)
            /\ timers' = Armed(kept) \cup Schedule(k, old, new)
            /\ admitted' = [l \in Keys |->
                  IF l \in evicted THEN {}
                  ELSE IF l = k /\ ~IsBlocked(new) THEN Passing(k)
                  ELSE admitted[l]]
            /\ promised' = [l \in Keys |->
                  IF l \in evicted THEN 0
                  ELSE IF l = k /\ IsBlocked(new) /\ ~IsBlocked(old) THEN now + BlockDuration
                  ELSE promised[l]]
            /\ lastUse' = [lastUse EXCEPT ![k] = now]
            /\ UNCHANGED now

-----------------------------------------------------------------------------
(* Time *)

\* Mutation: the callback trusts that its time has come.
FireUnchecked(t) ==
    /\ now + Skew >= t.due
    /\ timers' = timers \ {t}
    /\ LET stay == {k \in DOMAIN buckets : ~(k = t.key /\ buckets[k].id = t.id)} IN
          /\ buckets' = [k \in stay |-> buckets[k]]
          /\ older' = older \cap (stay \X stay)
    /\ UNCHANGED <<now, admitted, promised, lastUse>>

\* The callback of a timeout, which the event loop runs some time after it is
\* due by its own clock: that may be Skew before it is due by the wall clock.
Fire(t) ==
    /\ now + Skew >= t.due
    /\ timers' = timers \ {t}
    /\ LET over == {k \in DOMAIN buckets :
                       k = t.key /\ buckets[k].id = t.id /\ IsExpired(buckets[k])}
           stay == DOMAIN buckets \ over
       IN  /\ buckets' = [k \in stay |-> buckets[k]]
           /\ older' = older \cap (stay \X stay)
    /\ UNCHANGED <<now, admitted, promised, lastUse>>

Tick ==
    /\ now < MaxTime
    /\ now' = now + 1
    /\ admitted' = [k \in Keys |-> {a \in admitted[k] : a[1] + Ttl > now'}]
    /\ UNCHANGED <<buckets, older, timers, promised, lastUse>>

-----------------------------------------------------------------------------

Init ==
    /\ now = 0
    /\ buckets = [k \in {} |-> {}]
    /\ older = {}
    /\ timers = {}
    /\ admitted = [k \in Keys |-> {}]
    /\ promised = [k \in Keys |-> 0]
    /\ lastUse = [k \in Keys |-> 0]

Next ==
    \/ \E k \in Keys : Increment(k)
    \/ \E t \in timers : Fire(t)
    \/ Tick

Spec == Init /\ [][Next]_vars

\* The event loop gets to every timeout that stays due.
FairSpec ==
    /\ Spec
    /\ \A k \in Keys, i \in Ids : WF_vars(\E t \in timers : t.key = k /\ t.id = i /\ Fire(t))

-----------------------------------------------------------------------------
(* Properties *)

\* The map stays within maxEntries, and so do the armed timeouts: each is of
\* a bucket in the map, for an evicted or replaced one takes its own with it.
MemoryIsBounded ==
    /\ Cardinality(DOMAIN buckets) <= MaxEntries
    /\ \A t \in timers : t.key \in DOMAIN buckets /\ buckets[t.key].id = t.id
    /\ \A t, u \in timers : t.key = u.key => t = u

\* A bucket is always to be removed: until its end is due by the event loop's
\* clock, a timeout is armed for just that end, which a block may have moved.
TimeoutsCoverTheirBuckets ==
    \A k \in DOMAIN buckets :
        \/ now + Skew >= buckets[k].expiresAt
        \/ [key |-> k, id |-> buckets[k].id, due |-> buckets[k].expiresAt] \in timers

\* A key that was not evicted passes less than twice its limit in any Ttl:
\* its windows follow each other, they neither overlap nor end early.
QuotaHolds == \A k \in Keys : Cardinality(admitted[k]) < 2 * Limit[k]

\* A key that was told it is blocked stays so until the block is over, even
\* when its window ends first, unless it is evicted.
BlocksLast ==
    [][\A k \in Keys : now < promised[k] => admitted'[k] \subseteq admitted[k]]_vars

\* Only an expired bucket leaves the map, except when the map is full of
\* active ones: then the least recently used key goes.
OnlyTheIdleAreEvicted ==
    [][\A k \in DOMAIN buckets \ DOMAIN buckets' :
          \/ IsExpired(buckets[k])
          \/ /\ Cardinality(DOMAIN buckets) = MaxEntries
             /\ \A l \in DOMAIN buckets :
                   ~IsExpired(buckets[l]) /\ lastUse[k] <= lastUse[l]]_vars

\* docs/superpowers/plans, bounded-throttler-storage: a stale key is removed when
\* its expiry passes, even when it is never used again.
ExpiredBucketsLeave ==
    \A i \in Ids :
        LET stale == \E k \in DOMAIN buckets : buckets[k].id = i /\ IsExpired(buckets[k])
        IN  stale ~> ~stale
=============================================================================
