------------------------ MODULE RateLimiterProofs ------------------------
(***************************************************************************)
(* Requests for one key take turns, except where cleanup forgets the key   *)
(* between them; what the buckets hold is between empty and full; and no   *)
(* more requests are admitted than the limit allows, and none is refused   *)
(* before that.                                                            *)
(*                                                                         *)
(* Who is between Lock and Unlock holds the mutex it found; what it found  *)
(* is what the map has for its key until cleanup removes that; and cleanup *)
(* removes it only from keys nobody uses, or marks them as crossed.        *)
(***************************************************************************)
EXTENDS RateLimiter, FiniteSetTheorems, WellFoundedInduction, TLAPS

Pcs == {"idle", "lock"} \cup Locked

Shape ==
  /\ mu \in [Keys -> Mutexes \cup {None}]
  /\ holder \in [Mutexes -> Requests \cup {None}]
  /\ request \in [Requests ->
       [pc : Pcs, key : Keys \cup {None}, mutex : Mutexes \cup {None},
        bucket : Buckets \cup {None}, now : Times]]
  /\ cleaner \in [pc : {"asleep", "range", "entry", "mutex"}, now : Times,
                  todo : SUBSET Keys, key : Keys \cup {None}]
  /\ clock \in Times
  /\ entries \in [Keys -> Buckets \cup {None}]
  /\ crossed \in SUBSET Keys

\* Only who waits for a mutex or has it is at a key.
Knows(r) ==
  IF request[r].pc = "idle" THEN request[r].key = None /\ request[r].mutex = None
  ELSE request[r].key \in Keys /\ request[r].mutex \in Mutexes

Holds(r) == request[r].pc \in Locked => holder[request[r].mutex] = r

FoundItsMutex(r) ==
  request[r].pc # "idle" /\ request[r].key \notin crossed =>
    mu[request[r].key] = request[r].mutex

Forgets ==
  /\ cleaner.pc \in {"entry", "mutex"} <=> cleaner.key # None
  /\ \A r \in Requests :
       cleaner.key # None /\ request[r].key = cleaner.key => cleaner.key \in crossed

Turns ==
  /\ Shape
  /\ \A r \in Requests : Knows(r) /\ Holds(r) /\ FoundItsMutex(r)
  /\ Forgets

\* Who is idle starts at no time in particular, which is a time.
LEMMA ZeroIsATime == 0 \in Times
BY LimiterAssumption DEF Times

\* The invariant holds at first.
LEMMA InitTurns == Init => Turns
BY LimiterAssumption
   DEF Init, Turns, Shape, Pcs, Times, Idle, Asleep, Locked, Knows, Holds,
       FoundItsMutex, Forgets

\* Who finds a mutex finds the one of those who are at its key already.
LEMMA FindMutexTurns ==
  ASSUME Turns, NEW r \in Requests, NEW k \in Keys, FindMutex(r, k)
  PROVE  Turns'
<1> DEFINE m == IF mu[k] # None THEN mu[k] ELSE New(FreeMutexes)
<1>1. m \in Mutexes
  <2>1. CASE mu[k] # None
    BY <2>1 DEF Turns, Shape
  <2>2. CASE mu[k] = None
    BY <2>2 DEF FindMutex, New, FreeMutexes
  <2> QED BY <2>1, <2>2
<1>2. /\ request[r].pc = "idle"
      /\ mu' = [mu EXCEPT ![k] = m]
      /\ request' = [request EXCEPT ![r] =
           [pc |-> "lock", key |-> k, mutex |-> m, bucket |-> None, now |-> 0]]
      /\ crossed' = IF cleaner.key = k THEN crossed \cup {k} ELSE crossed
      /\ UNCHANGED <<clock, entries, holder, cleaner>>
  BY DEF FindMutex, At
<1> HIDE DEF m
<1>3. Shape'
  BY <1>1, <1>2, ZeroIsATime DEF Turns, Shape, Pcs
<1>4. ASSUME NEW q \in Requests
      PROVE  Knows(q)' /\ Holds(q)' /\ FoundItsMutex(q)'
  <2>1. CASE q = r
    BY <1>1, <1>2, <2>1 DEF Turns, Shape, Knows, Holds, FoundItsMutex, Locked
  <2>2. CASE q # r
    <3>1. request'[q] = request[q]
      BY <1>2, <2>2 DEF Turns, Shape
    <3>2. FoundItsMutex(q)'
      <4>1. CASE request[q].key = k /\ mu[k] = None
        BY <1>2, <3>1, <4>1, LimiterAssumption
           DEF Turns, Shape, Knows, FoundItsMutex
      <4>2. CASE request[q].key = k /\ mu[k] # None
        BY <1>2, <3>1, <4>2 DEF Turns, Shape, FoundItsMutex, m
      <4>3. CASE request[q].key # k
        BY <1>2, <3>1, <4>3 DEF Turns, Shape, Knows, FoundItsMutex
      <4> QED BY <4>1, <4>2, <4>3
    <3> QED BY <1>2, <3>1, <3>2 DEF Turns, Knows, Holds
  <2> QED BY <2>1, <2>2
<1>5. Forgets'
  BY <1>2 DEF Turns, Shape, Forgets
<1> QED BY <1>3, <1>4, <1>5 DEF Turns

\* Who locks is the only one to hold the mutex.
LEMMA LockTurns ==
  ASSUME Turns, NEW r \in Requests, Lock(r)
  PROVE  Turns'
<1>1. /\ request[r].pc = "lock" /\ holder[request[r].mutex] = None
      /\ holder' = [holder EXCEPT ![request[r].mutex] = r]
      /\ request' = [request EXCEPT ![r].pc = "clock"]
      /\ UNCHANGED <<clock, mu, entries, cleaner, crossed>>
  BY DEF Lock, At, MayLock
<1>2. Shape'
  <2>1. holder' \in [Mutexes -> Requests \cup {None}]
    BY <1>1 DEF Turns, Shape
  <2>2. [request[r] EXCEPT !.pc = "clock"] \in
          [pc : Pcs, key : Keys \cup {None}, mutex : Mutexes \cup {None},
           bucket : Buckets \cup {None}, now : Times]
    BY DEF Turns, Shape, Pcs, Locked
  <2> QED BY <1>1, <2>1, <2>2 DEF Turns, Shape
<1>3. ASSUME NEW q \in Requests
      PROVE  Knows(q)' /\ Holds(q)' /\ FoundItsMutex(q)'
  BY <1>1, LimiterAssumption
     DEF Turns, Shape, Knows, Holds, FoundItsMutex, Locked
<1>4. Forgets'
  BY <1>1 DEF Turns, Shape, Forgets
<1> QED BY <1>2, <1>3, <1>4 DEF Turns

\* Nobody else held the mutex that is given back.
LEMMA ReturnTurns ==
  ASSUME Turns, NEW r \in Requests, request[r].pc \in Locked,
         NEW allowed \in BOOLEAN, Return(r, allowed),
         UNCHANGED <<clock, mu, cleaner, crossed>>,
         entries' \in [Keys -> Buckets \cup {None}]
  PROVE  Turns'
<1>1. /\ holder' = [holder EXCEPT ![request[r].mutex] = None]
      /\ request' = [request EXCEPT ![r] =
           [pc |-> "idle", key |-> None, mutex |-> None, bucket |-> None, now |-> 0]]
  BY DEF Return, Unlock, Idle
<1>2. Shape'
  <2>1. holder' \in [Mutexes -> Requests \cup {None}]
    BY <1>1 DEF Turns, Shape
  <2> QED BY <1>1, <2>1, ZeroIsATime DEF Turns, Shape, Pcs
<1>3. ASSUME NEW q \in Requests
      PROVE  Knows(q)' /\ Holds(q)' /\ FoundItsMutex(q)'
  BY <1>1 DEF Turns, Shape, Knows, Holds, FoundItsMutex, Locked
<1>4. Forgets'
  BY <1>1 DEF Turns, Shape, Forgets
<1> QED BY <1>2, <1>3, <1>4 DEF Turns

\* The steps between Lock and Unlock change nobody's key or mutex.
LEMMA LockedTurns ==
  ASSUME Turns, NEW r \in Requests,
         ReadClock(r) \/ LoadBucket(r) \/ Refill(r)
  PROVE  Turns'
<1>1. /\ request[r].pc \in Locked
      /\ request'[r].pc \in Locked
      /\ request'[r].key = request[r].key /\ request'[r].mutex = request[r].mutex
      /\ \A q \in Requests : q # r => request'[q] = request[q]
      /\ UNCHANGED <<clock, mu, entries, holder, cleaner, crossed>>
  BY DEF Turns, Shape, ReadClock, LoadBucket, Refill, At, Locked
<1>2. Shape'
  BY <1>1, LimiterAssumption
     DEF Turns, Shape, Pcs, Knows, ReadClock, LoadBucket, Refill, At, Locked
<1>3. ASSUME NEW q \in Requests
      PROVE  Knows(q)' /\ Holds(q)' /\ FoundItsMutex(q)'
  BY <1>1 DEF Turns, Knows, Holds, FoundItsMutex, Locked
<1>4. Forgets'
  BY <1>1 DEF Turns, Forgets
<1> QED BY <1>2, <1>3, <1>4 DEF Turns

\* Whoever is at a key that cleanup is about to forget is noticed.
LEMMA VisitTurns ==
  ASSUME Turns, NEW k \in Keys, Visit(k)
  PROVE  Turns'
<1> DEFINE drop == entries[k] # None /\ Stale(entries[k], cleaner.now)
<1>1. /\ cleaner.pc = "range"
      /\ cleaner' = [cleaner EXCEPT !.todo = @ \ {k},
                       !.pc = IF drop THEN "entry" ELSE "range",
                       !.key = IF drop THEN k ELSE None]
      /\ crossed' = IF drop /\ \E r \in Requests : request[r].key = k
                    THEN crossed \cup {k} ELSE crossed
      /\ UNCHANGED <<clock, mu, entries, holder, request>>
  BY DEF Visit
<1> HIDE DEF drop
<1>2. Shape'
  BY <1>1 DEF Turns, Shape
<1>3. \A q \in Requests : Knows(q)' /\ Holds(q)' /\ FoundItsMutex(q)'
  BY <1>1 DEF Turns, Shape, Knows, Holds, FoundItsMutex
<1>4. Forgets'
  BY <1>1, LimiterAssumption DEF Turns, Shape, Forgets
<1> QED BY <1>2, <1>3, <1>4 DEF Turns

\* The mutex of a key is removed when nobody is at it, or the key is crossed.
LEMMA CleanupTurns ==
  ASSUME Turns, StartSweep \/ DropEntry \/ DropMutex \/ EndSweep \/ Tick
  PROVE  Turns'
<1>1. CASE StartSweep
  <2>1. Shape'
    BY <1>1 DEF Turns, Shape, StartSweep, Asleep
  <2> QED BY <1>1, <2>1
    DEF Turns, StartSweep, Asleep, Knows, Holds, FoundItsMutex, Forgets
<1>2. CASE DropEntry
  <2>1. Shape'
    BY <1>2 DEF Turns, Shape, DropEntry
  <2> QED BY <1>2, <2>1
    DEF Turns, Shape, DropEntry, Knows, Holds, FoundItsMutex, Forgets
<1>3. CASE DropMutex
  <2>1. Shape'
    BY <1>3 DEF Turns, Shape, DropMutex
  <2>2. ASSUME NEW q \in Requests
        PROVE  Knows(q)' /\ Holds(q)' /\ FoundItsMutex(q)'
    BY <1>3 DEF Turns, Shape, DropMutex, Knows, Holds, FoundItsMutex, Forgets
  <2>3. Forgets'
    BY <1>3 DEF Turns, Shape, DropMutex, Forgets
  <2> QED BY <2>1, <2>2, <2>3 DEF Turns
<1>4. CASE EndSweep
  <2>1. Shape'
    BY <1>4, ZeroIsATime DEF Turns, Shape, EndSweep, Asleep
  <2> QED BY <1>4, <2>1
    DEF Turns, EndSweep, Asleep, Knows, Holds, FoundItsMutex, Forgets
<1>5. CASE Tick
  <2>1. clock' \in Times
    BY <1>5, LimiterAssumption DEF Turns, Shape, Tick, Times
  <2>2. Shape'
    BY <1>5, <2>1 DEF Turns, Shape, Tick
  <2> QED BY <1>5, <2>2 DEF Turns, Tick, Knows, Holds, FoundItsMutex, Forgets
<1> QED BY <1>1, <1>2, <1>3, <1>4, <1>5

\* Every step keeps the invariant.
LEMMA NextTurns == Turns /\ [Next]_vars => Turns'
<1> SUFFICES ASSUME Turns, [Next]_vars PROVE Turns'
  OBVIOUS
<1>1. CASE UNCHANGED vars
  BY <1>1 DEF vars, Turns, Shape, Knows, Holds, FoundItsMutex, Forgets
<1>2. ASSUME NEW r \in Requests, Allow(r) PROVE Turns'
  <2>1. CASE Lock(r)
    BY <2>1, LockTurns
  <2>2. CASE ReadClock(r) \/ LoadBucket(r) \/ Refill(r)
    BY <2>2, LockedTurns
  <2>3. CASE StoreBucket(r)
    <3>1. New(FreeBuckets) \in Buckets
      BY <2>3 DEF StoreBucket, New, FreeBuckets
    <3>2. entries' \in [Keys -> Buckets \cup {None}]
      BY <2>3, <3>1 DEF StoreBucket, Turns, Shape
    <3>3. request[r].pc \in Locked /\ Return(r, TRUE)
          /\ UNCHANGED <<clock, mu, cleaner, crossed>>
      BY <2>3 DEF StoreBucket, At, Locked
    <3> QED BY <3>2, <3>3, ReturnTurns
  <2>4. CASE Take(r) \/ Refuse(r)
    <3>1. /\ request[r].pc \in Locked
          /\ Return(r, TRUE) \/ Return(r, FALSE)
          /\ UNCHANGED <<clock, mu, entries, cleaner, crossed>>
      BY <2>4 DEF Take, Refuse, At, Locked
    <3> QED BY <3>1, ReturnTurns DEF Turns, Shape
  <2> QED BY <1>2, <2>1, <2>2, <2>3, <2>4 DEF Allow
<1> QED BY <1>1, <1>2, FindMutexTurns, VisitTurns, CleanupTurns DEF Next

\* Requests for a key are serialized unless cleanup forgot the key while one
\* of them was under way (allow, cleanup).
THEOREM TakeTurns == Spec => []Serialized
<1>1. Turns => Serialized
  BY LimiterAssumption
     DEF Turns, Shape, Knows, Holds, FoundItsMutex, Serialized, Locked
<1> QED BY InitTurns, NextTurns, <1>1, PTL DEF Spec
-----------------------------------------------------------------------------
(***************************************************************************)
(* What the buckets hold.  Whoever refills one holds the mutex of its key, *)
(* and so read the clock after whoever refilled it before.                 *)
(***************************************************************************)
BucketsFit ==
  /\ bucket \in [Buckets -> [tokens : Int, last : Times]]
  /\ admitted \in [Keys -> [Times -> Nat]]

OneKeyEach ==
  \A k, j \in Keys : entries[k] # None /\ entries[k] = entries[j] => k = j

\* A request that has a bucket has the one of its key.
HasItsBucket(r) ==
  IF request[r].pc \in {"refill", "take"}
  THEN /\ request[r].bucket \in Buckets
       /\ \A k \in Keys : entries[k] = request[r].bucket => k = request[r].key
       /\ request[r].key \notin crossed =>
            entries[request[r].key] = request[r].bucket
  ELSE request[r].bucket = None

\* Nobody refilled the bucket after the request read the clock.
ReadsInTurn(r) ==
  request[r].pc \in {"load", "refill", "take"} =>
    /\ request[r].now <= clock
    /\ \A k \in Keys \ crossed : k = request[r].key /\ entries[k] # None =>
         bucket[entries[k]].last <= request[r].now

InThePast == \A b \in Buckets : bucket[b].last <= clock

NeverOverfull ==
  \A k \in Keys \ crossed :
    entries[k] # None => bucket[entries[k]].tokens \in 0..Limit

Filling ==
  /\ BucketsFit /\ OneKeyEach /\ InThePast /\ NeverOverfull
  /\ \A r \in Requests : HasItsBucket(r) /\ ReadsInTurn(r)

\* No bucket, no mistake.
LEMMA InitFilling == Init => Filling
<1> SUFFICES ASSUME Init PROVE Filling
  OBVIOUS
<1>1. BucketsFit
  BY LimiterAssumption, ZeroIsATime DEF Init, BucketsFit, NoBucket
<1>2. OneKeyEach /\ NeverOverfull
  BY DEF Init, OneKeyEach, NeverOverfull
<1>3. InThePast
  BY DEF Init, InThePast, NoBucket
<1>4. \A r \in Requests : HasItsBucket(r) /\ ReadsInTurn(r)
  BY DEF Init, HasItsBucket, ReadsInTurn, Idle
<1> QED BY <1>1, <1>2, <1>3, <1>4 DEF Filling

\* Two requests for a key that was not forgotten are not both past Lock.
LEMMA Alone ==
  ASSUME Turns, NEW r \in Requests, NEW q \in Requests, q # r,
         request[r].pc \in Locked, request[q].pc \in Locked,
         request[q].key = request[r].key
  PROVE  request[r].key \in crossed
BY LimiterAssumption DEF Turns, Shape, Knows, Holds, FoundItsMutex, Locked

\* What nobody's bucket has to do with: a request that changes has no bucket
\* and has not read the clock yet.
LEMMA NothingFilled ==
  ASSUME Turns, Filling, UNCHANGED <<entries, bucket>>, BucketsFit',
         crossed \subseteq crossed', clock \in Times, clock' \in Times,
         clock <= clock',
         \A q \in Requests : \/ request'[q] = request[q]
                             \/ /\ request'[q].pc \notin {"load", "refill", "take"}
                                /\ request'[q].bucket = None
  PROVE  Filling'
<1>1. OneKeyEach' /\ NeverOverfull'
  BY DEF Filling, OneKeyEach, NeverOverfull
<1>2. InThePast'
  <2>1. SUFFICES ASSUME NEW b \in Buckets PROVE bucket[b].last <= clock'
    BY DEF InThePast
  <2>2. bucket[b].last <= clock /\ bucket[b].last \in Times
    BY DEF Filling, InThePast, BucketsFit
  <2> QED BY <2>2 DEF Times
<1>3. ASSUME NEW q \in Requests PROVE HasItsBucket(q)'
  BY DEF Filling, HasItsBucket
<1>4. ASSUME NEW q \in Requests PROVE ReadsInTurn(q)'
  <2>1. CASE request'[q] = request[q]
    <3>1. ReadsInTurn(q) /\ request[q].now \in Times
      BY DEF Filling, Turns, Shape
    <3> QED BY <2>1, <3>1 DEF ReadsInTurn, Times
  <2>2. CASE request'[q] # request[q]
    BY <2>2 DEF ReadsInTurn
  <2> QED BY <2>1, <2>2
<1> QED BY <1>1, <1>2, <1>3, <1>4 DEF Filling

\* Whoever reads the clock reads it after all that was refilled.
LEMMA ReadClockFilling ==
  ASSUME Turns, Filling, NEW r \in Requests, ReadClock(r)
  PROVE  Filling'
<1>1. /\ request[r].pc = "clock" /\ request'[r].pc = "load"
      /\ request'[r].now = clock /\ request'[r].bucket = request[r].bucket
      /\ request'[r].key = request[r].key
      /\ \A q \in Requests : q # r => request'[q] = request[q]
      /\ UNCHANGED <<clock, entries, bucket, admitted, crossed>>
  BY DEF ReadClock, At, Turns, Shape
<1>2. BucketsFit' /\ OneKeyEach' /\ InThePast' /\ NeverOverfull'
  BY <1>1 DEF Filling, BucketsFit, OneKeyEach, InThePast, NeverOverfull
<1>3. ASSUME NEW q \in Requests PROVE HasItsBucket(q)' /\ ReadsInTurn(q)'
  <2>1. CASE q # r
    BY <1>1, <2>1 DEF Filling, HasItsBucket, ReadsInTurn
  <2>2. CASE q = r
    <3>1. clock \in Nat /\ \A k \in Keys : entries[k] \in Buckets \cup {None}
      BY DEF Turns, Shape, Times
    <3>2. HasItsBucket(r)'
      BY <1>1 DEF Filling, HasItsBucket
    <3>3. ReadsInTurn(r)'
      BY <1>1, <3>1 DEF Filling, InThePast, ReadsInTurn
    <3> QED BY <2>2, <3>2, <3>3
  <2> QED BY <2>1, <2>2
<1> QED BY <1>2, <1>3 DEF Filling

\* Whoever loads a bucket has the one of its key.
LEMMA LoadBucketFilling ==
  ASSUME Turns, Filling, NEW r \in Requests, LoadBucket(r)
  PROVE  Filling'
<1>1. /\ request[r].pc = "load" /\ request'[r].pc = "refill"
      /\ request'[r].now = request[r].now
      /\ request'[r].bucket = entries[request[r].key]
      /\ request'[r].key = request[r].key
      /\ \A q \in Requests : q # r => request'[q] = request[q]
      /\ entries[request[r].key] # None /\ request[r].key \in Keys
      /\ UNCHANGED <<clock, entries, bucket, admitted, crossed>>
  BY DEF LoadBucket, At, Turns, Shape, Knows
<1>2. BucketsFit' /\ OneKeyEach' /\ InThePast' /\ NeverOverfull'
  BY <1>1 DEF Filling, BucketsFit, OneKeyEach, InThePast, NeverOverfull
<1>3. ASSUME NEW q \in Requests PROVE HasItsBucket(q)' /\ ReadsInTurn(q)'
  <2>1. CASE q # r
    BY <1>1, <2>1 DEF Filling, HasItsBucket, ReadsInTurn
  <2>2. CASE q = r
    <3>1. entries[request[r].key] \in Buckets
      BY <1>1 DEF Turns, Shape
    <3>2. HasItsBucket(r)'
      BY <1>1, <3>1 DEF Filling, OneKeyEach, HasItsBucket
    <3>3. ReadsInTurn(r)'
      BY <1>1 DEF Filling, ReadsInTurn
    <3> QED BY <2>2, <3>2, <3>3
  <2> QED BY <2>1, <2>2
<1> QED BY <1>2, <1>3 DEF Filling

\* Whoever answers has no bucket any more.
LEMMA ReturnIs ==
  ASSUME Turns, NEW r \in Requests, request[r].pc \in Locked,
         NEW allowed \in BOOLEAN, Return(r, allowed), BucketsFit
  PROVE  /\ request'[r].pc = "idle" /\ request'[r].bucket = None
         /\ \A q \in Requests : q # r => request'[q] = request[q]
         /\ admitted' \in [Keys -> [Times -> Nat]]
<1>1. request[r].key \in Keys /\ request[r].now \in Times
  BY DEF Turns, Shape, Knows, Locked
<1>2. PICK k \in Keys : k = request[r].key
  BY <1>1
<1>3. PICK now \in Times : now = request[r].now
  BY <1>1
<1>4. admitted[k][now] + Token \in Nat
  BY LimiterAssumption DEF BucketsFit
<1>5. admitted' \in [Keys -> [Times -> Nat]]
  <2>1. CASE ~allowed
    BY <2>1 DEF Return, BucketsFit
  <2>2. CASE allowed
    <3>1. admitted' = [admitted EXCEPT ![k][now] = @ + Token]
      BY <1>2, <1>3, <2>2 DEF Return
    <3> QED BY <1>4, <3>1 DEF BucketsFit
  <2> QED BY <2>1, <2>2
<1>6. /\ request'[r].pc = "idle" /\ request'[r].bucket = None
      /\ \A q \in Requests : q # r => request'[q] = request[q]
  BY DEF Return, Idle, Turns, Shape
<1> QED BY <1>5, <1>6

\* What happens to the bucket a request has in hand concerns nobody else at a
\* key that was not forgotten: the others have other buckets, or are not past
\* Lock.
LEMMA OwnBucketFilled ==
  ASSUME Turns, Filling, NEW r \in Requests,
         request[r].pc \in {"refill", "take"},
         NEW old \in Buckets, old = request[r].bucket,
         \A b \in Buckets : b # old => bucket'[b] = bucket[b],
         bucket' \in [Buckets -> [tokens : Int, last : Times]],
         admitted' \in [Keys -> [Times -> Nat]],
         bucket'[old].last <= clock,
         request[r].key \notin crossed => bucket'[old].tokens \in 0..Limit,
         UNCHANGED <<clock, entries, crossed>>,
         \A q \in Requests : q # r => request'[q] = request[q],
         HasItsBucket(r)', ReadsInTurn(r)'
  PROVE  Filling'
<1>1. /\ request[r].key \in Keys /\ request[r].pc \in Locked
      /\ \A k \in Keys : entries[k] \in Buckets \cup {None}
      /\ \A k \in Keys : entries[k] = old => k = request[r].key
  BY DEF Turns, Shape, Knows, Locked, Filling, HasItsBucket
<1>2. BucketsFit' /\ OneKeyEach'
  BY DEF Filling, BucketsFit, OneKeyEach
<1>3. InThePast'
  BY DEF Filling, InThePast
<1>4. NeverOverfull'
  <2>1. SUFFICES ASSUME NEW k \in Keys, k \notin crossed, entries[k] # None
                 PROVE  bucket'[entries[k]].tokens \in 0..Limit
    BY DEF NeverOverfull
  <2>2. CASE entries[k] = old
    BY <1>1, <2>1, <2>2
  <2>3. CASE entries[k] # old
    BY <1>1, <2>1, <2>3 DEF Filling, NeverOverfull
  <2> QED BY <2>2, <2>3
<1>5. ASSUME NEW q \in Requests, q # r PROVE HasItsBucket(q)' /\ ReadsInTurn(q)'
  <2>1. HasItsBucket(q)'
    BY <1>5 DEF Filling, HasItsBucket
  <2>2. ReadsInTurn(q)'
    <3>1. SUFFICES ASSUME request[q].pc \in {"load", "refill", "take"}
                   PROVE  ReadsInTurn(q)'
      BY <1>5 DEF ReadsInTurn
    <3>2. SUFFICES ASSUME NEW k \in Keys, k \notin crossed, k = request[q].key,
                          entries[k] # None
                   PROVE  bucket'[entries[k]].last <= request[q].now
      BY <1>5, <3>1 DEF Filling, ReadsInTurn
    <3>3. entries[k] # old
      BY <1>1, <1>5, <3>1, <3>2, Alone DEF Locked
    <3>4. bucket'[entries[k]] = bucket[entries[k]]
      BY <1>1, <3>2, <3>3
    <3> QED BY <1>5, <3>1, <3>2, <3>4 DEF Filling, ReadsInTurn
  <2> QED BY <2>1, <2>2
<1> QED BY <1>2, <1>3, <1>4, <1>5 DEF Filling

\* Refilling a bucket in turn leaves it between empty and full.
LEMMA RefilledFits ==
  ASSUME NEW b \in [tokens : Int, last : Times], NEW now \in Times
  PROVE  /\ Refilled(b, now) \in [tokens : Int, last : Times]
         /\ Refilled(b, now).last = now
         /\ b.tokens \in 0..Limit /\ b.last <= now =>
              Refilled(b, now).tokens \in 0..Limit
<1>1. /\ b.tokens \in Int /\ b.last \in Nat /\ now \in Nat
      /\ Rate \in Nat /\ Limit \in Nat
  BY LimiterAssumption DEF Times
<1>2. PICK gained \in Int : gained = (now - b.last) * Rate
  BY <1>1
<1>3. b.last <= now => gained >= 0
  <2>1. SUFFICES ASSUME b.last <= now PROVE gained >= 0
    OBVIOUS
  <2>2. PICK ticks \in Nat : ticks = now - b.last
    BY <1>1, <2>1
  <2>3. \A m, n \in Nat : m * n >= 0
    OBVIOUS
  <2> QED BY <1>1, <1>2, <2>2, <2>3
<1>4. Cap(b.tokens + gained) \in Int
  BY <1>1 DEF Cap
<1>5. b.tokens \in 0..Limit /\ gained >= 0 => Cap(b.tokens + gained) \in 0..Limit
  BY <1>1 DEF Cap
<1>6. Refilled(b, now) = [tokens |-> Cap(b.tokens + gained), last |-> now]
  BY <1>2 DEF Refilled
<1> QED BY <1>3, <1>4, <1>5, <1>6

\* A refill leaves the bucket fuller, and at the time of the request.
LEMMA RefillFilling ==
  ASSUME Turns, Filling, NEW r \in Requests, Refill(r)
  PROVE  Filling'
<1>1. /\ request[r].pc = "refill" /\ request'[r].pc = "take"
      /\ request'[r].now = request[r].now /\ request'[r].key = request[r].key
      /\ request'[r].bucket = request[r].bucket
      /\ \A q \in Requests : q # r => request'[q] = request[q]
      /\ bucket' = [bucket EXCEPT ![request[r].bucket] =
                      Refilled(@, request[r].now)]
      /\ UNCHANGED <<clock, entries, admitted, crossed>>
  BY DEF Refill, At, Turns, Shape
<1>2. PICK old \in Buckets : old = request[r].bucket
  BY <1>1 DEF Filling, HasItsBucket
<1>3. PICK now \in Times : now = request[r].now
  BY DEF Turns, Shape
<1>4. /\ bucket[old] \in [tokens : Int, last : Times]
      /\ now <= clock
      /\ request[r].key \notin crossed =>
           /\ entries[request[r].key] = old
           /\ bucket[old].tokens \in 0..Limit /\ bucket[old].last <= now
  BY <1>1, <1>2, <1>3, LimiterAssumption
     DEF Filling, BucketsFit, HasItsBucket, ReadsInTurn, NeverOverfull, Turns, Knows
<1>5. bucket'[old] = Refilled(bucket[old], now)
  BY <1>1, <1>2, <1>3 DEF Filling, BucketsFit
<1>6. /\ bucket'[old] \in [tokens : Int, last : Times] /\ bucket'[old].last = now
      /\ request[r].key \notin crossed => bucket'[old].tokens \in 0..Limit
  BY <1>4, <1>5, RefilledFits
<1>7. /\ \A b \in Buckets : b # old => bucket'[b] = bucket[b]
      /\ bucket' \in [Buckets -> [tokens : Int, last : Times]]
  BY <1>1, <1>2, <1>5, <1>6 DEF Filling, BucketsFit
<1>8. HasItsBucket(r)'
  BY <1>1 DEF Filling, HasItsBucket
<1>9. ReadsInTurn(r)'
  BY <1>1, <1>3, <1>4, <1>6, LimiterAssumption DEF Times, ReadsInTurn
<1>10. admitted' \in [Keys -> [Times -> Nat]]
  BY <1>1 DEF Filling, BucketsFit
<1> QED BY <1>1, <1>2, <1>4, <1>6, <1>7, <1>8, <1>9, <1>10, OwnBucketFilled

\* What is taken was there.
LEMMA TakeFilling ==
  ASSUME Turns, Filling, NEW r \in Requests, Take(r)
  PROVE  Filling'
<1>1. /\ request[r].pc = "take" /\ Enough(request[r].bucket) /\ Return(r, TRUE)
      /\ bucket' = [bucket EXCEPT ![request[r].bucket].tokens = @ - Token]
      /\ UNCHANGED <<clock, entries, crossed>>
  BY DEF Take, At
<1>2. /\ request'[r].pc = "idle" /\ request'[r].bucket = None
      /\ \A q \in Requests : q # r => request'[q] = request[q]
      /\ admitted' \in [Keys -> [Times -> Nat]]
  BY <1>1, ReturnIs DEF Filling, Locked
<1>3. PICK old \in Buckets : old = request[r].bucket
  BY <1>1 DEF Filling, HasItsBucket
<1>4. PICK b \in [tokens : Int, last : Times] : b = bucket[old]
  BY DEF Filling, BucketsFit
<1>5. /\ b.tokens >= Token /\ b.last <= clock
      /\ request[r].key \notin crossed => b.tokens \in 0..Limit
  BY <1>1, <1>3, <1>4, LimiterAssumption
     DEF Filling, InThePast, HasItsBucket, NeverOverfull, Enough, Turns, Knows
<1>6. bucket'[old] = [b EXCEPT !.tokens = b.tokens - Token]
  BY <1>1, <1>3, <1>4 DEF Filling, BucketsFit
<1>7. /\ bucket'[old] \in [tokens : Int, last : Times]
      /\ bucket'[old].last = b.last /\ bucket'[old].tokens = b.tokens - Token
  BY <1>6, LimiterAssumption
<1>8. request[r].key \notin crossed => bucket'[old].tokens \in 0..Limit
  BY <1>5, <1>7, LimiterAssumption
<1>9. /\ \A c \in Buckets : c # old => bucket'[c] = bucket[c]
      /\ bucket' \in [Buckets -> [tokens : Int, last : Times]]
  BY <1>1, <1>3, <1>7 DEF Filling, BucketsFit
<1>10. HasItsBucket(r)' /\ ReadsInTurn(r)'
  BY <1>2 DEF HasItsBucket, ReadsInTurn
<1> QED BY <1>1, <1>2, <1>3, <1>5, <1>7, <1>8, <1>9, <1>10, OwnBucketFilled

\* A bucket that is made was nobody's.
LEMMA StoreBucketFilling ==
  ASSUME Turns, Filling, NEW r \in Requests, StoreBucket(r)
  PROVE  Filling'
<1>1. PICK b \in Buckets : b = New(FreeBuckets)
  BY DEF StoreBucket, New, FreeBuckets
<1>2. b \in FreeBuckets
  BY <1>1 DEF StoreBucket, New
<1>3. PICK k \in Keys : k = request[r].key
  BY DEF StoreBucket, At, Turns, Knows
<1>4. PICK now \in Times : now = request[r].now
  BY DEF Turns, Shape
<1>5. /\ request[r].pc = "load" /\ entries[k] = None /\ Return(r, TRUE)
      /\ entries' = [entries EXCEPT ![k] = b]
      /\ bucket' = [bucket EXCEPT ![b] = [tokens |-> Limit - Token, last |-> now]]
      /\ UNCHANGED <<clock, crossed>>
  BY <1>1, <1>3, <1>4 DEF StoreBucket, At, NewBucket
<1>6. /\ request'[r].pc = "idle" /\ request'[r].bucket = None
      /\ \A q \in Requests : q # r => request'[q] = request[q]
      /\ admitted' \in [Keys -> [Times -> Nat]]
  BY <1>5, ReturnIs DEF Filling, Locked
<1>7. /\ \A j \in Keys : entries[j] # b /\ entries[j] \in Buckets \cup {None}
      /\ \A q \in Requests : request[q].bucket # b
      /\ b # None
  BY <1>2, LimiterAssumption DEF FreeBuckets, Turns, Shape
<1>8. /\ entries'[k] = b /\ \A j \in Keys : j # k => entries'[j] = entries[j]
      /\ bucket'[b].last = now /\ bucket'[b].tokens = Limit - Token
      /\ \A c \in Buckets : c # b => bucket'[c] = bucket[c]
  BY <1>5 DEF Filling, BucketsFit, Turns, Shape
<1>9. now <= clock
  BY <1>4, <1>5 DEF Filling, ReadsInTurn
<1>10. BucketsFit'
  <2>1. Limit - Token \in Int
    BY LimiterAssumption
  <2> QED BY <1>5, <1>6, <2>1 DEF Filling, BucketsFit
<1>11. OneKeyEach'
  BY <1>7, <1>8 DEF Filling, OneKeyEach
<1>12. InThePast'
  BY <1>5, <1>8, <1>9 DEF Filling, InThePast
<1>13. NeverOverfull'
  <2>1. SUFFICES ASSUME NEW j \in Keys, j \notin crossed, entries'[j] # None
                 PROVE  bucket'[entries'[j]].tokens \in 0..Limit
    BY <1>5 DEF NeverOverfull
  <2>2. CASE j = k
    BY <1>8, <2>2, LimiterAssumption
  <2>3. CASE j # k
    <3>1. /\ entries'[j] = entries[j] /\ entries[j] \in Buckets
          /\ bucket'[entries[j]] = bucket[entries[j]]
      BY <1>7, <1>8, <2>1, <2>3
    <3> QED BY <2>1, <3>1 DEF Filling, NeverOverfull
  <2> QED BY <2>2, <2>3
<1>14. ASSUME NEW q \in Requests PROVE HasItsBucket(q)' /\ ReadsInTurn(q)'
  <2>1. CASE q = r
    BY <1>6, <2>1 DEF HasItsBucket, ReadsInTurn
  <2>2. CASE q # r
    <3>1. request[q].pc \in Locked /\ request[q].key = k => k \in crossed
      BY <1>3, <1>5, <2>2, Alone DEF Locked
    <3>2. HasItsBucket(q)'
      BY <1>5, <1>6, <1>7, <1>8, <2>2, <3>1
         DEF Filling, HasItsBucket, Locked
    <3>3. ReadsInTurn(q)'
      <4>1. SUFFICES ASSUME request[q].pc \in {"load", "refill", "take"}
                     PROVE  ReadsInTurn(q)'
        BY <1>6, <2>2 DEF ReadsInTurn
      <4>2. SUFFICES ASSUME NEW j \in Keys, j \notin crossed, j = request[q].key,
                            entries'[j] # None
                     PROVE  bucket'[entries'[j]].last <= request[q].now
        BY <1>5, <1>6, <2>2, <4>1 DEF Filling, ReadsInTurn
      <4>3. j # k
        BY <3>1, <4>1, <4>2 DEF Locked
      <4>4. /\ entries'[j] = entries[j] /\ entries[j] \in Buckets
            /\ bucket'[entries[j]] = bucket[entries[j]]
        BY <1>7, <1>8, <4>2, <4>3
      <4> QED BY <4>1, <4>2, <4>4 DEF Filling, ReadsInTurn
    <3> QED BY <3>2, <3>3
  <2> QED BY <2>1, <2>2
<1> QED BY <1>10, <1>11, <1>12, <1>13, <1>14 DEF Filling

\* What is forgotten is no other key's bucket.
LEMMA DropEntryFilling ==
  ASSUME Turns, Filling, DropEntry
  PROVE  Filling'
<1>1. PICK k \in Keys : k = cleaner.key
  BY DEF DropEntry, Turns, Shape, Forgets
<1>2. PICK b : b = entries[k]
  OBVIOUS
<1>3. /\ entries' = [entries EXCEPT ![k] = None]
      /\ bucket' = bucket \/ bucket' = [bucket EXCEPT ![b] = NoBucket]
      /\ UNCHANGED <<clock, request, admitted, crossed>>
  BY <1>1, <1>2 DEF DropEntry
<1>4. /\ entries'[k] = None /\ \A j \in Keys : j # k => entries'[j] = entries[j]
      /\ \A c \in Buckets : c # b => bucket'[c] = bucket[c]
      /\ \A c \in Buckets : bucket'[c] = bucket[c] \/ bucket'[c] = NoBucket
      /\ NoBucket \in [tokens : Int, last : Times] /\ NoBucket.last = 0
      /\ clock \in Nat
      /\ \A j \in Keys : entries[j] \in Buckets \cup {None}
  BY <1>3, ZeroIsATime DEF Filling, BucketsFit, Turns, Shape, NoBucket, Times
<1>5. BucketsFit'
  BY <1>3, <1>4 DEF Filling, BucketsFit
<1>6. OneKeyEach'
  BY <1>3, <1>4 DEF Filling, OneKeyEach
<1>7. InThePast'
  BY <1>3, <1>4 DEF Filling, InThePast
<1>8. ASSUME NEW j \in Keys, entries'[j] # None
      PROVE  /\ entries'[j] = entries[j] /\ bucket'[entries'[j]] = bucket[entries[j]]
  BY <1>2, <1>4, <1>8 DEF Filling, OneKeyEach
<1>9. NeverOverfull'
  BY <1>3, <1>8 DEF Filling, NeverOverfull
<1>10. ASSUME NEW q \in Requests PROVE HasItsBucket(q)' /\ ReadsInTurn(q)'
  <2>1. request[q].key = k => k \in crossed
    BY <1>1, LimiterAssumption DEF Turns, Forgets
  <2>2. HasItsBucket(q)'
    BY <1>3, <1>4, <2>1, LimiterAssumption DEF Filling, HasItsBucket, Turns, Knows
  <2>3. ReadsInTurn(q)'
    BY <1>3, <1>8 DEF Filling, ReadsInTurn
  <2> QED BY <2>2, <2>3
<1> QED BY <1>5, <1>6, <1>7, <1>9, <1>10 DEF Filling

\* Every step leaves the buckets in order.
LEMMA FillingStays ==
  ASSUME Turns, Filling, [Next]_vars
  PROVE  Filling'
<1>0. clock \in Times /\ BucketsFit
  BY DEF Turns, Shape, Filling
<1>1. CASE UNCHANGED vars
  BY <1>1 DEF vars, Filling, BucketsFit, OneKeyEach, InThePast, NeverOverfull,
              HasItsBucket, ReadsInTurn
<1>2. CASE Tick
  <2>1. clock' \in Times /\ clock <= clock'
    BY <1>0, <1>2, LimiterAssumption DEF Tick, Times
  <2> QED BY <1>0, <1>2, <2>1, NothingFilled DEF Tick, BucketsFit
<1>3. CASE StartSweep \/ DropMutex \/ EndSweep \/ \E k \in Keys : Visit(k)
  <2>1. /\ UNCHANGED <<clock, entries, bucket, request, admitted>>
        /\ crossed \subseteq crossed'
    BY <1>3 DEF StartSweep, DropMutex, EndSweep, Visit
  <2>2. clock <= clock'
    BY <1>0, <2>1 DEF Times
  <2> QED BY <1>0, <2>1, <2>2, NothingFilled DEF BucketsFit
<1>4. ASSUME NEW r \in Requests, NEW k \in Keys, FindMutex(r, k)
      PROVE  Filling'
  <2>1. /\ UNCHANGED <<clock, entries, bucket, admitted>>
        /\ crossed \subseteq crossed'
        /\ request'[r].pc = "lock" /\ request'[r].bucket = None
        /\ \A q \in Requests : q # r => request'[q] = request[q]
    BY <1>4 DEF FindMutex, Turns, Shape
  <2>2. clock <= clock'
    BY <1>0, <2>1 DEF Times
  <2> QED BY <1>0, <2>1, <2>2, NothingFilled DEF BucketsFit
<1>5. ASSUME NEW r \in Requests, Lock(r) \/ Refuse(r)
      PROVE  Filling'
  <2>1. /\ UNCHANGED <<clock, entries, bucket, crossed>>
        /\ request'[r].pc \in {"clock", "idle"} /\ request'[r].bucket = None
        /\ \A q \in Requests : q # r => request'[q] = request[q]
        /\ admitted' \in [Keys -> [Times -> Nat]]
    <3>1. CASE Lock(r)
      BY <3>1 DEF Lock, At, Turns, Shape, Filling, HasItsBucket, BucketsFit
    <3>2. CASE Refuse(r)
      <4>1. request[r].pc \in Locked /\ Return(r, FALSE)
            /\ UNCHANGED <<clock, entries, bucket, crossed>>
        BY <3>2 DEF Refuse, At, Locked
      <4> QED BY <1>0, <4>1, ReturnIs
    <3> QED BY <1>5, <3>1, <3>2
  <2>2. clock <= clock'
    BY <1>0, <2>1 DEF Times
  <2> QED BY <1>0, <2>1, <2>2, NothingFilled DEF BucketsFit
<1> QED BY <1>1, <1>2, <1>3, <1>4, <1>5, DropEntryFilling, ReadClockFilling,
           LoadBucketFilling, StoreBucketFilling, RefillFilling, TakeFilling
        DEF Next, Allow

\* What the limiter keeps has its types; in particular no bucket is ever below
\* empty or above full, except the ones of keys that were forgotten while a
\* request for them was under way (allow).
THEOREM TypeCorrect == Spec => []TypeOK
<1>1. Turns /\ Filling => TypeOK
  BY DEF Turns, Shape, Filling, BucketsFit, NeverOverfull, TypeOK, Pcs
<1>2. Init => Turns /\ Filling
  BY InitTurns, InitFilling
<1>3. Turns /\ Filling /\ [Next]_vars => Turns' /\ Filling'
  BY NextTurns, FillingStays
<1> QED BY <1>1, <1>2, <1>3, PTL DEF Spec
-----------------------------------------------------------------------------
(***************************************************************************)
(* Sums.  The library computes SumFunctionOnSet with a function on the     *)
(* subsets of a finite set; that there is one, that it does not matter in  *)
(* which order it adds and which larger set it was made for, follows from  *)
(* the smallest subset for which it would be otherwise.                    *)
(***************************************************************************)
\* Among subsets of a finite set there is one that is not larger than another.
LEMMA SmallestSubset ==
  ASSUME NEW S, IsFiniteSet(S), NEW T \in SUBSET SUBSET S, T # {}
  PROVE  \E x \in T : \A y \in T : y \subseteq x => y = x
<1>1. IsWellFoundedOn(StrictSubsetOrdering(S), SUBSET S)
  BY FS_StrictSubsetOrderingWellFounded, FS_FiniteSubsetsOfFinite
<1>2. PICK x \in T : \A y \in T : <<y, x>> \notin StrictSubsetOrdering(S)
  BY <1>1, WFMin
<1>3. \A y \in T : <<y, x>> \in (SUBSET S) \X (SUBSET S)
  OBVIOUS
<1> QED BY <1>2, <1>3 DEF StrictSubsetOrdering

\* A set of numbers has a smallest one.
LEMMA SmallestNumber ==
  ASSUME NEW T \in SUBSET Nat, T # {}
  PROVE  \E m \in T : \A n \in T : m <= n
<1>1. PICK n \in T : TRUE
  OBVIOUS
<1>2. PICK U : U = {0..k : k \in T \cap 0..n}
  OBVIOUS
<1>3. U \in SUBSET SUBSET (0..n) /\ U # {}
  <2>1. \A k \in T \cap 0..n : 0..k \subseteq 0..n
    OBVIOUS
  <2>2. n \in T \cap 0..n
    BY <1>1
  <2> QED BY <1>2, <2>1, <2>2
<1>4. PICK S : S = 0..n
  OBVIOUS
<1>5. PICK x \in U : \A y \in U : y \subseteq x => y = x
  <2>1. IsFiniteSet(S)
    BY <1>4, FS_Interval
  <2>2. U \in SUBSET SUBSET S /\ U # {}
    BY <1>3, <1>4
  <2> QED BY <2>1, <2>2, SmallestSubset
<1>6. PICK m \in T \cap 0..n : x = 0..m
  <2>1. \A u \in U : \E k \in T \cap 0..n : u = 0..k
    BY <1>2, Zenon
  <2> QED BY <1>5, <2>1, Zenon
<1>7. ASSUME NEW k \in T, k < m PROVE FALSE
  <2>1. 0..k \in U /\ 0..k \subseteq 0..m
    BY <1>2, <1>6, <1>7
  <2>2. 0..k = 0..m
    BY <1>5, <1>6, <2>1
  <2>3. m \in 0..m /\ m \notin 0..k
    BY <1>7
  <2> QED BY <2>2, <2>3
<1> QED BY <1>6, <1>7

\* The element the library takes out first, the function it adds with, and
\* what that gives for a set.
Some(s) == CHOOSE x \in s : TRUE
Adds(g, f, S) ==
  g = [s \in SUBSET S |->
         IF s = {} THEN 0 ELSE f[Some(s)] + g[s \ {Some(s)}]]
Step(g, f, s) == IF s = {} THEN 0 ELSE f[Some(s)] + g[s \ {Some(s)}]
Adding(f, S) == CHOOSE g : Adds(g, f, S)

\* What the library means by a sum.
LEMMA SumIsAdding ==
  ASSUME NEW f, NEW S
  PROVE  SumFunctionOnSet(f, S) = Adding(f, S)[S]
BY DEF SumFunctionOnSet, FoldFunctionOnSet, MapThenFoldSet, Adding, Adds, Some

\* It adds sets of n elements and less.
AddsUpTo(g, f, S, n) ==
  \A s \in SUBSET S : Cardinality(s) <= n =>
    g[s] = IF s = {} THEN 0 ELSE f[Some(s)] + g[s \ {Some(s)}]

\* A function that adds sets of n elements can be made to add sets of one
\* more.
LEMMA AddsMore ==
  ASSUME NEW f, NEW S, IsFiniteSet(S), \A x \in S : f[x] \in Int,
         NEW n \in Nat, NEW g \in [SUBSET S -> Int], AddsUpTo(g, f, S, n)
  PROVE  \E h \in [SUBSET S -> Int] : AddsUpTo(h, f, S, n + 1)
<1>1. ASSUME NEW s \in SUBSET S
      PROVE  /\ IsFiniteSet(s) /\ Cardinality(s) \in Nat
             /\ s # {} => /\ Some(s) \in s /\ s \ {Some(s)} \in SUBSET S
                          /\ Cardinality(s \ {Some(s)}) = Cardinality(s) - 1
                          /\ f[Some(s)] + g[s \ {Some(s)}] \in Int
  <2>1. IsFiniteSet(s) /\ Cardinality(s) \in Nat
    BY FS_Subset, FS_CardinalityType
  <2>2. SUFFICES ASSUME s # {}
                 PROVE  /\ Some(s) \in s /\ s \ {Some(s)} \in SUBSET S
                        /\ Cardinality(s \ {Some(s)}) = Cardinality(s) - 1
                        /\ f[Some(s)] + g[s \ {Some(s)}] \in Int
    BY <2>1
  <2>3. Some(s) \in s
    BY <2>2 DEF Some
  <2>4. Cardinality(s \ {Some(s)}) = Cardinality(s) - 1
    BY <2>1, <2>3, FS_RemoveElement
  <2> QED BY <2>3, <2>4
<1>2. PICK h : h = [s \in SUBSET S |-> IF Cardinality(s) = n + 1
                                       THEN f[Some(s)] + g[s \ {Some(s)}] ELSE g[s]]
  OBVIOUS
<1>3. \A s \in SUBSET S : Cardinality(s) = n + 1 => s # {}
  <2>1. Cardinality({}) = 0 /\ n + 1 # 0
    BY FS_EmptySet
  <2>2. Cardinality({}) # n + 1
    BY <2>1
  <2> QED BY <2>2, Zenon
<1>4. h \in [SUBSET S -> Int]
  <2>1. ASSUME NEW s \in SUBSET S
        PROVE  IF Cardinality(s) = n + 1 THEN f[Some(s)] + g[s \ {Some(s)}] \in Int
               ELSE g[s] \in Int
    BY <1>1, <1>3
  <2> QED BY <1>2, <2>1
<1>5. ASSUME NEW s \in SUBSET S, Cardinality(s) <= n + 1
      PROVE  h[s] = IF s = {} THEN 0 ELSE f[Some(s)] + h[s \ {Some(s)}]
  <2>1. CASE s = {}
    BY <1>2, <1>3, <2>1, FS_EmptySet DEF AddsUpTo
  <2>2. CASE s # {}
    <3>1. PICK x : x = Some(s)
      OBVIOUS
    <3>2. /\ x \in s /\ s \ {x} \in SUBSET S /\ Cardinality(s) \in Nat
          /\ Cardinality(s \ {x}) = Cardinality(s) - 1
      BY <1>1, <2>2, <3>1
    <3>3. h[s \ {x}] = g[s \ {x}]
      BY <1>2, <1>5, <3>2
    <3>4. h[s] = f[x] + g[s \ {x}]
      BY <1>2, <1>5, <2>2, <3>1, <3>2 DEF AddsUpTo
    <3> QED BY <2>2, <3>1, <3>3, <3>4
  <2> QED BY <2>1, <2>2
<1> QED BY <1>4, <1>5 DEF AddsUpTo

\* So there is one for all subsets of a finite set.
LEMMA AddingAdds ==
  ASSUME NEW f, NEW S, IsFiniteSet(S), \A x \in S : f[x] \in Int
  PROVE  Adds(Adding(f, S), f, S)
<1>1. PICK T : T = {n \in Nat : ~\E g \in [SUBSET S -> Int] : AddsUpTo(g, f, S, n)}
  OBVIOUS
<1>2. 0 \notin T
  <2>1. PICK g : g = [s \in SUBSET S |-> 0]
    OBVIOUS
  <2>2. ASSUME NEW s \in SUBSET S, Cardinality(s) <= 0 PROVE s = {}
    <3>1. IsFiniteSet(s)
      BY FS_Subset
    <3>2. Cardinality(s) \in Nat
      BY <3>1, FS_CardinalityType
    <3>3. Cardinality(s) = 0
      BY <2>2, <3>2
    <3> QED BY <3>1, <3>3, FS_EmptySet
  <2>3. g \in [SUBSET S -> Int] /\ \A s \in SUBSET S : g[s] = 0
    BY <2>1
  <2>4. AddsUpTo(g, f, S, 0)
    BY <2>2, <2>3 DEF AddsUpTo
  <2> QED BY <1>1, <2>3, <2>4
<1>3. T = {}
  <2>1. SUFFICES ASSUME T # {} PROVE FALSE
    OBVIOUS
  <2>2. PICK m \in T : \A n \in T : m <= n
    BY <1>1, <2>1, SmallestNumber
  <2>3. m \in Nat /\ m # 0
    BY <1>1, <1>2
  <2>4. PICK n \in Nat : m = n + 1
    <3>1. m - 1 \in Nat /\ m = (m - 1) + 1
      BY <2>3
    <3> QED BY <3>1
  <2>5. n \notin T
    BY <2>2, <2>4
  <2>6. PICK g \in [SUBSET S -> Int] : AddsUpTo(g, f, S, n)
    BY <1>1, <2>5
  <2>7. \E h \in [SUBSET S -> Int] : AddsUpTo(h, f, S, n + 1)
    BY <2>6, AddsMore
  <2> QED BY <1>1, <2>4, <2>7
<1>4. Cardinality(S) \in Nat
  BY FS_CardinalityType
<1>5. PICK g \in [SUBSET S -> Int] : AddsUpTo(g, f, S, Cardinality(S))
  BY <1>1, <1>3, <1>4
<1>6. \A s \in SUBSET S : Cardinality(s) <= Cardinality(S)
  BY FS_Subset
<1>7. Adds(g, f, S)
  BY <1>5, <1>6 DEF AddsUpTo, Adds
<1> QED BY <1>7 DEF Adding

\* What Adding gives of a subset.
AddsAt(f, S, s) ==
  /\ s = {} => Adding(f, S)[s] = 0
  /\ s # {} => Adding(f, S)[s] = f[Some(s)] + Adding(f, S)[s \ {Some(s)}]

\* It does so for every subset of a finite set.
LEMMA AddingOf ==
  ASSUME NEW f, NEW S, IsFiniteSet(S), \A x \in S : f[x] \in Int,
         NEW s, s \subseteq S
  PROVE  AddsAt(f, S, s)
<1>1. Adds(Adding(f, S), f, S)
  BY AddingAdds
<1>2. PICK g : g = Adding(f, S)
  OBVIOUS
<1>3. Adds(g, f, S)
  BY <1>1, <1>2
<1>4. PICK h : h = [t \in SUBSET S |-> Step(g, f, t)]
  OBVIOUS
<1>5. g = h
  BY <1>3, <1>4 DEF Adds, Step
<1>6. h[s] = Step(g, f, s)
  BY <1>4
<1> QED BY <1>2, <1>5, <1>6 DEF Step, AddsAt

\* A sum over a set does not depend on the set it was begun with.
LEMMA AddingIsSum ==
  ASSUME NEW f, NEW S, IsFiniteSet(S), \A x \in S : f[x] \in Int,
         NEW s \in SUBSET S
  PROVE  Adding(f, S)[s] = SumFunctionOnSet(f, s)
<1>1. PICK T : T = {w \in SUBSET S : \E v \in SUBSET S :
                      w \subseteq v /\ Adding(f, v)[w] # Adding(f, w)[w]}
  OBVIOUS
<1>2. T = {}
  <2>1. SUFFICES ASSUME T # {} PROVE FALSE
    OBVIOUS
  <2>2. T \in SUBSET SUBSET S
    BY <1>1
  <2>3. PICK w \in T : \A y \in T : y \subseteq w => y = w
    BY <2>1, <2>2, SmallestSubset
  <2>4. PICK v \in SUBSET S : w \subseteq v /\ Adding(f, v)[w] # Adding(f, w)[w]
    BY <1>1
  <2>5. /\ w \in SUBSET S /\ IsFiniteSet(v) /\ IsFiniteSet(w)
        /\ \A x \in v : f[x] \in Int
    BY <2>2, FS_Subset
  <2>6. AddsAt(f, v, w)
    BY <2>4, <2>5, AddingOf
  <2>7. AddsAt(f, w, w)
    BY <2>5, AddingOf
  <2>8. w # {}
    BY <2>4, <2>6, <2>7 DEF AddsAt
  <2>9. PICK u : u = w \ {Some(w)}
    OBVIOUS
  <2>10. u \in SUBSET S /\ u \subseteq w /\ u # w
    <3>1. Some(w) \in w
      BY <2>8 DEF Some
    <3> QED BY <2>5, <2>9, <3>1
  <2>11. u \notin T
    BY <2>3, <2>10
  <2>12. Adding(f, v)[u] = Adding(f, u)[u] /\ Adding(f, w)[u] = Adding(f, u)[u]
    BY <1>1, <2>4, <2>5, <2>10, <2>11
  <2> QED BY <2>4, <2>6, <2>7, <2>8, <2>9, <2>12 DEF AddsAt
<1>3. Adding(f, S)[s] = Adding(f, s)[s]
  BY <1>1, <1>2
<1> QED BY <1>3, SumIsAdding

\* Nothing adds up to zero.
LEMMA SumOfNone ==
  ASSUME NEW f
  PROVE  SumFunctionOnSet(f, {}) = 0
<1>1. AddsAt(f, {}, {})
  BY FS_EmptySet, AddingOf
<1>2. Adding(f, {})[{}] = 0
  BY <1>1 DEF AddsAt
<1> QED BY <1>2, SumIsAdding

\* A sum is one element and the sum of the others.
LEMMA SumOfSome ==
  ASSUME NEW f, NEW S, IsFiniteSet(S), \A x \in S : f[x] \in Int, S # {}
  PROVE  /\ Some(S) \in S
         /\ SumFunctionOnSet(f, S) =
              f[Some(S)] + SumFunctionOnSet(f, S \ {Some(S)})
<1>1. Some(S) \in S
  BY DEF Some
<1>2. PICK u \in SUBSET S : u = S \ {Some(S)}
  OBVIOUS
<1>3. Adding(f, S)[S] = f[Some(S)] + Adding(f, S)[u]
  <2>1. AddsAt(f, S, S)
    BY AddingOf
  <2> QED BY <1>2, <2>1 DEF AddsAt
<1>4. Adding(f, S)[u] = SumFunctionOnSet(f, u)
  BY AddingIsSum
<1> QED BY <1>1, <1>2, <1>3, <1>4, SumIsAdding

\* A sum of integers is an integer.
LEMMA SumType ==
  ASSUME NEW f, NEW S, IsFiniteSet(S), \A x \in S : f[x] \in Int
  PROVE  SumFunctionOnSet(f, S) \in Int
<1>1. PICK T : T = {w \in SUBSET S : SumFunctionOnSet(f, w) \notin Int}
  OBVIOUS
<1>2. T = {}
  <2>1. SUFFICES ASSUME T # {} PROVE FALSE
    OBVIOUS
  <2>2. T \in SUBSET SUBSET S
    BY <1>1
  <2>3. PICK w \in T : \A y \in T : y \subseteq w => y = w
    BY <2>1, <2>2, SmallestSubset
  <2>4. /\ w \in SUBSET S /\ IsFiniteSet(w) /\ \A x \in w : f[x] \in Int
    BY <2>2, FS_Subset
  <2>5. w # {}
    <3>1. SumFunctionOnSet(f, w) \notin Int /\ SumFunctionOnSet(f, {}) \in Int
      BY <1>1, SumOfNone
    <3> QED BY <3>1, Zenon
  <2>6. PICK u : u = w \ {Some(w)}
    OBVIOUS
  <2>7. Some(w) \in w /\ SumFunctionOnSet(f, w) = f[Some(w)] + SumFunctionOnSet(f, u)
    BY <2>4, <2>5, <2>6, SumOfSome
  <2>8. u \in SUBSET S /\ u \notin T
    BY <2>3, <2>4, <2>6, <2>7
  <2> QED BY <1>1, <2>4, <2>7, <2>8
<1> QED BY <1>1, <1>2

\* The elements of a sum can be taken in any order.
LEMMA SumRemove ==
  ASSUME NEW f, NEW S, IsFiniteSet(S), \A x \in S : f[x] \in Int, NEW a \in S
  PROVE  SumFunctionOnSet(f, S) = f[a] + SumFunctionOnSet(f, S \ {a})
<1>1. PICK T : T = {w \in SUBSET S : \E x \in w :
                 SumFunctionOnSet(f, w) # f[x] + SumFunctionOnSet(f, w \ {x})}
  OBVIOUS
<1>2. T = {}
  <2>1. SUFFICES ASSUME T # {} PROVE FALSE
    OBVIOUS
  <2>2. T \in SUBSET SUBSET S
    BY <1>1
  <2>3. PICK w \in T : \A y \in T : y \subseteq w => y = w
    BY <2>1, <2>2, SmallestSubset
  <2>4. /\ w \in SUBSET S /\ IsFiniteSet(w) /\ \A x \in w : f[x] \in Int
    BY <2>2, FS_Subset
  <2>5. PICK x \in w :
          SumFunctionOnSet(f, w) # f[x] + SumFunctionOnSet(f, w \ {x})
    BY <1>1
  <2>6. PICK c : c = Some(w)
    OBVIOUS
  <2>7. c \in w /\ SumFunctionOnSet(f, w) = f[c] + SumFunctionOnSet(f, w \ {c})
    BY <2>4, <2>6, SumOfSome
  <2>8. c # x
    BY <2>5, <2>7
  <2>9. PICK u : u = (w \ {c}) \ {x}
    OBVIOUS
  <2>10. u = (w \ {x}) \ {c}
    BY <2>9
  <2>11. /\ w \ {c} \in SUBSET S /\ w \ {x} \in SUBSET S
         /\ w \ {c} \notin T /\ w \ {x} \notin T
         /\ x \in w \ {c} /\ c \in w \ {x}
    BY <2>3, <2>4, <2>7, <2>8
  <2>12. SumFunctionOnSet(f, w \ {c}) = f[x] + SumFunctionOnSet(f, u)
    BY <1>1, <2>9, <2>11
  <2>13. SumFunctionOnSet(f, w \ {x}) = f[c] + SumFunctionOnSet(f, u)
    BY <1>1, <2>10, <2>11
  <2>14. SumFunctionOnSet(f, u) \in Int /\ f[x] \in Int /\ f[c] \in Int
    <3>1. IsFiniteSet(u) /\ \A y \in u : f[y] \in Int
      BY <2>4, <2>9, FS_Subset
    <3> QED BY <2>4, <2>7, <3>1, SumType
  <2> QED BY <2>5, <2>7, <2>12, <2>13, <2>14
<1>3. S \in SUBSET S /\ S \notin T
  BY <1>2
<1> QED BY <1>1, <1>3

\* What is summed is all that matters of a function.
LEMMA SumSame ==
  ASSUME NEW f, NEW g, NEW S, IsFiniteSet(S),
         \A x \in S : f[x] \in Int /\ g[x] = f[x]
  PROVE  SumFunctionOnSet(g, S) = SumFunctionOnSet(f, S)
<1>1. PICK T : T = {w \in SUBSET S : SumFunctionOnSet(g, w) # SumFunctionOnSet(f, w)}
  OBVIOUS
<1>2. T = {}
  <2>1. SUFFICES ASSUME T # {} PROVE FALSE
    OBVIOUS
  <2>2. T \in SUBSET SUBSET S
    BY <1>1
  <2>3. PICK w \in T : \A y \in T : y \subseteq w => y = w
    BY <2>1, <2>2, SmallestSubset
  <2>4. /\ w \in SUBSET S /\ IsFiniteSet(w)
        /\ \A x \in w : f[x] \in Int /\ g[x] \in Int /\ g[x] = f[x]
    BY <2>2, FS_Subset
  <2>5. w # {}
    BY <1>1, <2>3, SumOfNone
  <2>6. PICK u : u = w \ {Some(w)}
    OBVIOUS
  <2>7. /\ Some(w) \in w
        /\ SumFunctionOnSet(f, w) = f[Some(w)] + SumFunctionOnSet(f, u)
        /\ SumFunctionOnSet(g, w) = g[Some(w)] + SumFunctionOnSet(g, u)
    BY <2>4, <2>5, <2>6, SumOfSome
  <2>8. u \in SUBSET S /\ u \notin T
    BY <2>3, <2>4, <2>6, <2>7
  <2> QED BY <1>1, <2>3, <2>4, <2>7, <2>8
<1>3. S \in SUBSET S
  OBVIOUS
<1> QED BY <1>1, <1>2, <1>3

\* Zeros add nothing.
LEMMA SumWithoutZeros ==
  ASSUME NEW f, NEW S, IsFiniteSet(S), \A x \in S : f[x] \in Int,
         NEW R \in SUBSET S, \A x \in S \ R : f[x] = 0
  PROVE  SumFunctionOnSet(f, S) = SumFunctionOnSet(f, R)
<1>1. PICK T : T = {w \in SUBSET S :
                 R \subseteq w /\ SumFunctionOnSet(f, w) # SumFunctionOnSet(f, R)}
  OBVIOUS
<1>2. T = {}
  <2>1. SUFFICES ASSUME T # {} PROVE FALSE
    OBVIOUS
  <2>2. T \in SUBSET SUBSET S
    BY <1>1
  <2>3. PICK w \in T : \A y \in T : y \subseteq w => y = w
    BY <2>1, <2>2, SmallestSubset
  <2>4. /\ w \in SUBSET S /\ IsFiniteSet(w) /\ \A x \in w : f[x] \in Int
        /\ R \subseteq w /\ SumFunctionOnSet(f, w) # SumFunctionOnSet(f, R)
    BY <1>1, <2>2, FS_Subset
  <2>5. PICK x \in w : x \notin R
    BY <2>4
  <2>6. PICK u : u = w \ {x}
    OBVIOUS
  <2>7. SumFunctionOnSet(f, w) = f[x] + SumFunctionOnSet(f, u) /\ f[x] = 0
    BY <2>4, <2>5, <2>6, SumRemove
  <2>8. u \in SUBSET S /\ u \notin T /\ R \subseteq u
    BY <2>3, <2>4, <2>5, <2>6
  <2>9. SumFunctionOnSet(f, u) \in Int
    BY <2>4, <2>6, <2>8, FS_Subset, SumType
  <2> QED BY <1>1, <2>4, <2>7, <2>8, <2>9
<1>3. S \in SUBSET S /\ R \subseteq S
  OBVIOUS
<1> QED BY <1>1, <1>2, <1>3

-----------------------------------------------------------------------------
(***************************************************************************)
(* Sums over intervals of time, and what a bucket has to do with the       *)
(* requests that were admitted.  The tokens of a bucket and all requests   *)
(* since a are never more than a bucket full at a would have got until the *)
(* last refill, and for some a they are exactly that.                      *)
(***************************************************************************)
\* f has what was admitted for a key at each time: all of it since a, and
\* whether that was all by n.
From(f, a) == SumFunctionOnSet(f, a..MaxTime)
Quiet(f, n) == \A t \in Times : t > n => f[t] = 0
\* The bucket b accounts for what was admitted.
Level(f, b) ==
  /\ Quiet(f, b.last)
  /\ \A a \in 0..b.last : From(f, a) + b.tokens <= Allowance(a, b.last)
  /\ \E a \in 0..b.last : From(f, a) + b.tokens = Allowance(a, b.last)
\* A bucket would be full again at n, whatever was admitted.
MadeUp(f, n) ==
  /\ Quiet(f, n)
  /\ \A a \in 0..n : From(f, a) <= Rate * (n - a)
\* No interval has more than its allowance.
Within(f) ==
  \A a, b \in Times : a <= b => SumFunctionOnSet(f, a..b) <= Allowance(a, b)

\* One more is admitted at t.
Plus(f, t) == [f EXCEPT ![t] = @ + Token]

\* Intervals of time can be summed over.
LEMMA IntervalsAreFinite ==
  ASSUME NEW a \in Times, NEW b \in Times
  PROVE  IsFiniteSet(a..b) /\ a..b \subseteq Times
BY FS_Interval, LimiterAssumption DEF Times

\* Sums over intervals are integers.
LEMMA SumIsInt ==
  ASSUME NEW f \in [Times -> Nat], NEW a \in Times, NEW b \in Times
  PROVE  SumFunctionOnSet(f, a..b) \in Int
<1>1. PICK S : S = a..b
  OBVIOUS
<1>2. IsFiniteSet(S) /\ \A x \in S : f[x] \in Int
  BY <1>1, IntervalsAreFinite
<1> QED BY <1>1, <1>2, SumType

\* Where nothing was admitted the sum is zero.
LEMMA SumOfZeros ==
  ASSUME NEW f \in [Times -> Nat], NEW a \in Times, NEW b \in Times,
         \A t \in a..b : f[t] = 0
  PROVE  SumFunctionOnSet(f, a..b) = 0
<1>1. PICK S : S = a..b
  OBVIOUS
<1>2. PICK R \in SUBSET S : R = {}
  OBVIOUS
<1>3. IsFiniteSet(S) /\ (\A x \in S : f[x] \in Int) /\ \A x \in S \ R : f[x] = 0
  BY <1>1, IntervalsAreFinite
<1>4. SumFunctionOnSet(f, S) = SumFunctionOnSet(f, R)
  BY <1>3, SumWithoutZeros
<1> QED BY <1>1, <1>2, <1>4, SumOfNone

\* What comes after the last request does not count.
LEMMA SumUpToQuiet ==
  ASSUME NEW f \in [Times -> Nat], NEW a \in Times, NEW b \in Times,
         NEW n \in Times, Quiet(f, n), n <= b
  PROVE  SumFunctionOnSet(f, a..b) = From(f, a)
<1>1. MaxTime \in Times /\ b <= MaxTime
  BY LimiterAssumption DEF Times
<1>2. PICK S : S = a..MaxTime
  OBVIOUS
<1>3. PICK R : R = a..b
  OBVIOUS
<1>4. R \in SUBSET S
  BY <1>1, <1>2, <1>3, LimiterAssumption DEF Times
<1>5. /\ IsFiniteSet(S) /\ (\A x \in S : f[x] \in Int)
      /\ \A x \in S \ R : x \in Times /\ x > n
  BY <1>1, <1>2, <1>3, IntervalsAreFinite DEF Times
<1>6. \A x \in S \ R : f[x] = 0
  BY <1>5 DEF Quiet
<1>7. SumFunctionOnSet(f, S) = SumFunctionOnSet(f, R)
  BY <1>4, <1>5, <1>6, SumWithoutZeros
<1> QED BY <1>2, <1>3, <1>7 DEF From

\* One more request counts where it is.
LEMMA SumOfOneMore ==
  ASSUME NEW f \in [Times -> Nat], NEW a \in Times, NEW b \in Times,
         NEW t \in Times, NEW g, g = Plus(f, t)
  PROVE  /\ g \in [Times -> Nat]
         /\ t \in a..b => SumFunctionOnSet(g, a..b) = SumFunctionOnSet(f, a..b) + Token
         /\ t \notin a..b => SumFunctionOnSet(g, a..b) = SumFunctionOnSet(f, a..b)
<1>1. PICK S : S = a..b
  OBVIOUS
<1>2. /\ g \in [Times -> Nat]
      /\ g[t] = f[t] + Token /\ \A x \in Times : x # t => g[x] = f[x]
  BY LimiterAssumption DEF Plus
<1>3. IsFiniteSet(S) /\ S \subseteq Times
  BY <1>1, IntervalsAreFinite
<1>4. \A x \in S : f[x] \in Int /\ g[x] \in Int
  BY <1>2, <1>3
<1>5. ASSUME t \in S PROVE SumFunctionOnSet(g, S) = SumFunctionOnSet(f, S) + Token
  <2>1. PICK R : R = S \ {t}
    OBVIOUS
  <2>2. /\ SumFunctionOnSet(f, S) = f[t] + SumFunctionOnSet(f, R)
        /\ SumFunctionOnSet(g, S) = g[t] + SumFunctionOnSet(g, R)
    BY <1>3, <1>4, <1>5, <2>1, SumRemove
  <2>3. IsFiniteSet(R) /\ \A x \in R : f[x] \in Int /\ g[x] = f[x]
    BY <1>2, <1>3, <1>4, <2>1, FS_RemoveElement
  <2>4. SumFunctionOnSet(g, R) = SumFunctionOnSet(f, R)
    BY <2>3, SumSame
  <2>5. SumFunctionOnSet(f, R) \in Int
    BY <2>3, SumType
  <2> QED BY <1>2, <2>2, <2>4, <2>5, LimiterAssumption
<1>6. ASSUME t \notin S PROVE SumFunctionOnSet(g, S) = SumFunctionOnSet(f, S)
  <2>1. \A x \in S : f[x] \in Int /\ g[x] = f[x]
    BY <1>2, <1>3, <1>4, <1>6
  <2> QED BY <1>3, <2>1, SumSame
<1> QED BY <1>1, <1>2, <1>5, <1>6

\* Sums of what requests are counted are not negative.
LEMMA SumNotNegative ==
  ASSUME NEW f, NEW S, IsFiniteSet(S), \A x \in S : f[x] \in Nat
  PROVE  SumFunctionOnSet(f, S) >= 0
<1>0. \A w \in SUBSET S : IsFiniteSet(w) /\ \A x \in w : f[x] \in Nat /\ f[x] \in Int
  BY FS_Subset
<1>1. PICK T : T = {w \in SUBSET S : ~(SumFunctionOnSet(f, w) >= 0)}
  OBVIOUS
<1>2. T = {}
  <2>1. SUFFICES ASSUME T # {} PROVE FALSE
    OBVIOUS
  <2>2. T \in SUBSET SUBSET S
    BY <1>1
  <2>3. PICK w \in T : \A y \in T : y \subseteq w => y = w
    BY <2>1, <2>2, SmallestSubset
  <2>4. /\ w \in SUBSET S /\ IsFiniteSet(w)
        /\ \A x \in w : f[x] \in Nat /\ f[x] \in Int
    BY <1>0, <2>2
  <2>5. ~(SumFunctionOnSet(f, w) >= 0)
    BY <1>1
  <2>6. w # {}
    <3>1. SumFunctionOnSet(f, {}) >= 0
      BY SumOfNone
    <3> QED BY <2>5, <3>1, Zenon
  <2>7. PICK x \in w : TRUE
    BY <2>6
  <2>8. PICK u : u = w \ {x}
    OBVIOUS
  <2>9. SumFunctionOnSet(f, w) = f[x] + SumFunctionOnSet(f, u)
    BY <2>4, <2>8, SumRemove
  <2>10. u \in SUBSET S /\ u \notin T
    BY <2>3, <2>4, <2>8
  <2>11. SumFunctionOnSet(f, u) >= 0 /\ SumFunctionOnSet(f, u) \in Int
    BY <1>0, <1>1, <2>10, SumType
  <2> QED BY <2>4, <2>5, <2>9, <2>11
<1>3. S \in SUBSET S /\ S \notin T
  BY <1>2
<1> QED BY <1>1, <1>3

\* What was admitted is not less than nothing.
LEMMA FromNotNegative ==
  ASSUME NEW f \in [Times -> Nat], NEW a \in Times
  PROVE  From(f, a) >= 0
<1>1. MaxTime \in Times
  BY LimiterAssumption DEF Times
<1>2. PICK S : S = a..MaxTime
  OBVIOUS
<1>3. IsFiniteSet(S) /\ \A x \in S : f[x] \in Nat
  BY <1>1, <1>2, IntervalsAreFinite
<1> QED BY <1>2, <1>3, SumNotNegative DEF From

\* The arithmetic of rate and ticks.
LEMMA RateTimes ==
  ASSUME NEW m \in Int, NEW n \in Int
  PROVE  /\ Rate * m \in Int /\ Rate * n \in Int
         /\ Rate * (m + n) = Rate * m + Rate * n
         /\ m * Rate = Rate * m
         /\ m <= n => Rate * m <= Rate * n
<1>1. Rate \in Nat
  BY LimiterAssumption
<1>2. m <= n => Rate * m <= Rate * n
  <2>1. SUFFICES ASSUME m <= n PROVE Rate * m <= Rate * n
    OBVIOUS
  <2>2. PICK d \in Nat : n = m + d
    <3>1. n - m \in Nat /\ n = m + (n - m)
      BY <2>1
    <3> QED BY <3>1
  <2>3. \A i, j \in Nat : i * j >= 0
    OBVIOUS
  <2>4. \A i, j, l \in Int : i * (j + l) = i * j + i * l
    OBVIOUS
  <2>5. Rate * d >= 0 /\ Rate * n = Rate * m + Rate * d
    BY <1>1, <2>2, <2>3, <2>4
  <2>6. Rate * m \in Int /\ Rate * d \in Int
    BY <1>1
  <2> QED BY <2>5, <2>6
<1> QED BY <1>1, <1>2

\* The allowance grows with the rate.
LEMMA AllowanceGrows ==
  ASSUME NEW a \in Times, NEW b \in Times, NEW c \in Times
  PROVE  /\ Allowance(a, b) \in Int
         /\ Allowance(a, a) = Limit
         /\ Allowance(a, c) = Allowance(a, b) + (c - b) * Rate
         /\ b <= c => Allowance(a, b) <= Allowance(a, c)
         /\ a <= b => Limit <= Allowance(a, b)
<1>1. a \in Int /\ b \in Int /\ c \in Int /\ Limit \in Int
  BY LimiterAssumption DEF Times
<1>3. /\ Rate * (b - a) \in Int /\ Rate * (c - a) \in Int /\ Rate * (c - b) \in Int
      /\ Rate * (c - a) = Rate * (b - a) + Rate * (c - b)
      /\ (c - b) * Rate = Rate * (c - b)
  <2>1. c - a = (b - a) + (c - b) /\ b - a \in Int /\ c - b \in Int /\ c - a \in Int
    BY <1>1
  <2>2. PICK m \in Int : m = b - a
    BY <2>1
  <2>3. PICK n \in Int : n = c - b
    BY <2>1
  <2>4. Rate * (m + n) = Rate * m + Rate * n /\ Rate * m \in Int /\ Rate * n \in Int
        /\ n * Rate = Rate * n
    BY RateTimes
  <2>5. c - a = m + n
    BY <2>1, <2>2, <2>3
  <2> QED BY <2>2, <2>3, <2>4, <2>5
<1>4. b <= c => Rate * (b - a) <= Rate * (c - a)
  <2>1. b - a \in Int /\ c - a \in Int /\ b <= c => b - a <= c - a
    BY <1>1
  <2> QED BY <1>1, <2>1, RateTimes
<1>5. Rate * (a - a) = 0
  <2>1. a - a = 0
    BY <1>1
  <2>2. Rate * 0 = 0
    BY LimiterAssumption
  <2> QED BY <2>1, <2>2
<1>6. a <= b => Rate * (b - a) >= 0
  <2>1. SUFFICES ASSUME a <= b PROVE Rate * (b - a) >= 0
    OBVIOUS
  <2>2. Rate * (a - a) <= Rate * (b - a)
    <3>1. a - a \in Int /\ b - a \in Int /\ a - a <= b - a
      BY <1>1, <2>1
    <3> QED BY <3>1, RateTimes
  <2> QED BY <1>3, <1>5, <2>2
<1> QED BY <1>1, <1>3, <1>4, <1>5, <1>6 DEF Allowance

\* After the last request nothing was admitted.
LEMMA FromIs ==
  ASSUME NEW f \in [Times -> Nat], NEW a \in Times
  PROVE  /\ From(f, a) \in Int
         /\ \A n \in Times : Quiet(f, n) /\ n < a => From(f, a) = 0
<1>1. MaxTime \in Times
  BY LimiterAssumption DEF Times
<1>2. From(f, a) \in Int
  BY <1>1, SumIsInt DEF From
<1>3. ASSUME NEW n \in Times, Quiet(f, n), n < a PROVE From(f, a) = 0
  <2>1. \A t \in a..MaxTime : t \in Times /\ t > n
    BY <1>3, LimiterAssumption DEF Times
  <2>2. \A t \in a..MaxTime : f[t] = 0
    BY <1>3, <2>1 DEF Quiet
  <2> QED BY <1>1, <2>2, SumOfZeros DEF From
<1> QED BY <1>2, <1>3

\* Since any time before it, one more was admitted.
LEMMA FromOneMore ==
  ASSUME NEW f \in [Times -> Nat], NEW a \in Times, NEW t \in Times,
         NEW g, g = Plus(f, t), a <= t
  PROVE  From(g, a) = From(f, a) + Token
<1>1. MaxTime \in Times /\ t \in a..MaxTime
  BY LimiterAssumption DEF Times
<1> QED BY <1>1, SumOfOneMore DEF From

\* Only the intervals up to now have to be looked at when one is admitted
\* now.
LEMMA WithinOneMore ==
  ASSUME NEW f \in [Times -> Nat], NEW t \in Times, NEW g, g = Plus(f, t),
         Within(f), Quiet(f, t),
         \A a \in 0..t : From(g, a) <= Allowance(a, t)
  PROVE  Within(g) /\ Quiet(g, t) /\ g \in [Times -> Nat]
<1>1. g \in [Times -> Nat] /\ \A x \in Times : x # t => g[x] = f[x]
  BY LimiterAssumption DEF Plus
<1>2. Quiet(g, t)
  BY <1>1 DEF Quiet, Times
<1>3. SUFFICES ASSUME NEW a \in Times, NEW b \in Times, a <= b
               PROVE  SumFunctionOnSet(g, a..b) <= Allowance(a, b)
  BY <1>1, <1>2 DEF Within
<1>4. CASE t \in a..b
  <2>1. a \in 0..t /\ t <= b
    BY <1>4 DEF Times
  <2>2. SumFunctionOnSet(g, a..b) = From(g, a)
    BY <1>1, <1>2, <2>1, SumUpToQuiet
  <2>3. From(g, a) \in Int /\ Allowance(a, t) \in Int /\ Allowance(a, b) \in Int
        /\ Allowance(a, t) <= Allowance(a, b)
    BY <1>1, <2>1, FromIs, AllowanceGrows
  <2> QED BY <2>1, <2>2, <2>3
<1>5. CASE t \notin a..b
  BY <1>3, <1>5, SumOfOneMore DEF Within
<1> QED BY <1>4, <1>5

\* Refilling keeps the account: tokens are added at the rate, or the bucket is
\* full and the account starts again.
LEMMA LevelRefilled ==
  ASSUME NEW f \in [Times -> Nat], NEW b \in [tokens : Int, last : Times],
         NEW now \in Times, Level(f, b), b.tokens \in 0..Limit, b.last <= now
  PROVE  Level(f, Refilled(b, now))
<1>1. PICK gained \in Int : gained = (now - b.last) * Rate
  <2>1. (now - b.last) * Rate \in Int
    BY LimiterAssumption DEF Times
  <2> QED BY <2>1
<1>2. PICK n \in Int : n = Cap(b.tokens + gained)
  BY <1>1, LimiterAssumption DEF Cap
<1>3. n <= Limit /\ n <= b.tokens + gained /\ (n = Limit \/ n = b.tokens + gained)
  BY <1>1, <1>2, LimiterAssumption DEF Cap
<1>4. PICK c : c = Refilled(b, now)
  OBVIOUS
<1>5. c.tokens = n /\ c.last = now
  BY <1>1, <1>2, <1>4 DEF Refilled
<1>6. Quiet(f, now)
  BY DEF Level, Quiet, Times
<1>7. ASSUME NEW a \in 0..now
      PROVE  a \in Times /\ From(f, a) \in Int /\ Allowance(a, now) \in Int
  <2>1. a \in Times
    BY LimiterAssumption DEF Times
  <2> QED BY <2>1, FromIs, AllowanceGrows
<1>8. ASSUME NEW a \in 0..now, a <= b.last
      PROVE  /\ a \in 0..b.last
             /\ Allowance(a, now) = Allowance(a, b.last) + gained
             /\ Allowance(a, b.last) \in Int
  <2>1. PICK l \in Times : l = b.last
    OBVIOUS
  <2>2. /\ Allowance(a, now) = Allowance(a, l) + (now - l) * Rate
        /\ Allowance(a, l) \in Int
    BY <1>7, <2>1, AllowanceGrows
  <2>3. a \in 0..b.last
    BY <1>8, <2>1 DEF Times
  <2> QED BY <1>1, <2>1, <2>2, <2>3
<1>9. ASSUME NEW a \in 0..now
      PROVE  From(f, a) + n <= Allowance(a, now)
  <2>1. CASE a <= b.last
    <3>1. From(f, a) + b.tokens <= Allowance(a, b.last)
      BY <1>8, <2>1 DEF Level
    <3> QED BY <1>3, <1>7, <1>8, <2>1, <3>1
  <2>2. CASE a > b.last
    <3>1. From(f, a) = 0
      BY <1>7, <2>2, FromIs DEF Level
    <3>2. Limit <= Allowance(a, now) /\ Limit \in Int
      BY <1>7, AllowanceGrows, LimiterAssumption DEF Times
    <3> QED BY <1>3, <1>7, <3>1, <3>2
  <2> QED BY <2>1, <2>2 DEF Times
<1>10. \E a \in 0..now : From(f, a) + n = Allowance(a, now)
  <2>1. CASE n = b.tokens + gained
    <3>1. PICK a \in 0..b.last : From(f, a) + b.tokens = Allowance(a, b.last)
      BY DEF Level
    <3>2. a \in 0..now /\ a <= b.last
      BY DEF Times
    <3>3. From(f, a) + n = Allowance(a, now)
      BY <1>7, <1>8, <2>1, <3>1, <3>2
    <3> QED BY <3>2, <3>3
  <2>2. CASE n # b.tokens + gained
    <3>1. n = Limit
      BY <1>3, <2>2
    <3>2. b.last < now
      <4>1. SUFFICES ASSUME b.last = now PROVE FALSE
        BY DEF Times
      <4>2. gained = 0
        <5>1. now - b.last = 0
          BY <4>1 DEF Times
        <5>2. 0 * Rate = 0
          BY LimiterAssumption
        <5> QED BY <1>1, <5>1, <5>2
      <4> QED BY <1>3, <2>2, <3>1, <4>2, LimiterAssumption
    <3>3. From(f, now) = 0
      BY <3>2, FromIs DEF Level
    <3>4. now \in 0..now /\ Allowance(now, now) = Limit
      BY AllowanceGrows DEF Times
    <3> QED BY <1>2, <3>1, <3>3, <3>4
  <2> QED BY <2>1, <2>2
<1>11. Level(f, c)
  BY <1>5, <1>6, <1>9, <1>10 DEF Level
<1> QED BY <1>4, <1>11

\* Taking a token moves it from the bucket to what was admitted.
LEMMA LevelTaken ==
  ASSUME NEW f \in [Times -> Nat], NEW b \in [tokens : Int, last : Times],
         Level(f, b), Within(f), b.tokens >= Token, NEW g, g = Plus(f, b.last),
         NEW c, c.tokens = b.tokens - Token, c.last = b.last
  PROVE  Level(g, c) /\ Within(g)
<1>1. PICK n \in Times : n = b.last
  OBVIOUS
<1>2. ASSUME NEW a \in 0..n
      PROVE  /\ From(g, a) = From(f, a) + Token /\ From(f, a) \in Int
             /\ Allowance(a, n) \in Int
  <2>1. a \in Times /\ a <= n
    BY LimiterAssumption DEF Times
  <2> QED BY <1>1, <2>1, FromOneMore, FromIs, AllowanceGrows
<1>3. \A a \in 0..n : From(f, a) + b.tokens <= Allowance(a, n)
  BY <1>1 DEF Level
<1>4. \A a \in 0..n : From(g, a) + c.tokens <= Allowance(a, n)
  BY <1>2, <1>3, LimiterAssumption
<1>5. \A a \in 0..n : From(g, a) <= Allowance(a, n)
  BY <1>2, <1>3, LimiterAssumption
<1>6. Within(g) /\ Quiet(g, n)
  BY <1>1, <1>5, WithinOneMore DEF Level
<1>7. PICK a \in 0..n : From(f, a) + b.tokens = Allowance(a, n)
  BY <1>1 DEF Level
<1>8. From(g, a) + c.tokens = Allowance(a, n)
  BY <1>2, <1>7, LimiterAssumption
<1> QED BY <1>1, <1>4, <1>6, <1>8 DEF Level

\* A new bucket is as good as the one that would have filled meanwhile.
LEMMA LevelNew ==
  ASSUME NEW f \in [Times -> Nat], NEW n \in Times, NEW now \in Times,
         n <= now, MadeUp(f, n), Within(f), NEW g, g = Plus(f, now)
  PROVE  Level(g, NewBucket(now)) /\ Within(g)
<1>1. Quiet(f, now)
  BY DEF MadeUp, Quiet, Times
<1>2. PICK z \in Int : z = Limit - Token
  BY LimiterAssumption
<1>3. ASSUME NEW a \in 0..now
      PROVE  /\ a \in Times /\ From(g, a) = From(f, a) + Token /\ From(f, a) \in Int
             /\ Allowance(a, now) \in Int /\ Limit <= Allowance(a, now)
  <2>1. a \in Times /\ a <= now
    BY LimiterAssumption DEF Times
  <2> QED BY <2>1, FromOneMore, FromIs, AllowanceGrows
<1>4. ASSUME NEW a \in 0..now
      PROVE  From(f, a) + Limit <= Allowance(a, now)
  <2>1. CASE a <= n
    <3>1. a \in 0..n /\ a \in Times
      BY <1>3, <2>1 DEF Times
    <3>2. From(f, a) <= Rate * (n - a)
      BY <3>1 DEF MadeUp
    <3>3. PICK m \in Int : m = Rate * (n - a)
      BY <3>1, LimiterAssumption DEF Times
    <3>4. Allowance(a, n) = Limit + m
      BY <3>3 DEF Allowance
    <3>5. Allowance(a, n) <= Allowance(a, now)
      BY <3>1, AllowanceGrows
    <3> QED BY <1>3, <3>2, <3>3, <3>4, <3>5, LimiterAssumption
  <2>2. CASE a > n
    <3>1. From(f, a) = 0
      BY <1>3, <2>2, FromIs DEF MadeUp
    <3> QED BY <1>3, <3>1, LimiterAssumption
  <2> QED BY <2>1, <2>2 DEF Times
<1>5. \A a \in 0..now : From(g, a) + z <= Allowance(a, now)
  BY <1>2, <1>3, <1>4, LimiterAssumption
<1>6. \A a \in 0..now : From(g, a) <= Allowance(a, now)
  BY <1>3, <1>4, LimiterAssumption
<1>7. Within(g) /\ Quiet(g, now)
  BY <1>1, <1>6, WithinOneMore
<1>8. From(g, now) + z = Allowance(now, now) /\ now \in 0..now
  <2>1. Allowance(now, now) = Limit /\ now \in 0..now
    BY AllowanceGrows DEF Times
  <2>2. From(f, now) = 0
    <3>1. MaxTime \in Times
      BY LimiterAssumption DEF Times
    <3>2. CASE n < now
      BY <3>2, FromIs DEF MadeUp
    <3>3. CASE n = now
      <4>1. From(f, now) <= Rate * (now - now) /\ From(f, now) \in Int
        BY <1>3, <2>1, <3>3 DEF MadeUp
      <4>2. now - now = 0 /\ Rate * 0 = 0
        BY LimiterAssumption DEF Times
      <4>3. From(f, now) <= 0
        BY <4>1, <4>2
      <4>4. From(f, now) >= 0
        BY FromNotNegative
      <4> QED BY <4>1, <4>3, <4>4
    <3> QED BY <3>2, <3>3 DEF Times
  <2> QED BY <1>2, <1>3, <2>1, <2>2, LimiterAssumption
<1> QED BY <1>2, <1>5, <1>7, <1>8 DEF Level, NewBucket

\* A bucket that is idle for longer than the ttl would be full.
LEMMA LevelDropped ==
  ASSUME NEW f \in [Times -> Nat], NEW b \in [tokens : Int, last : Times],
         NEW n \in Times, Level(f, b), b.tokens >= 0, n - b.last > Ttl
  PROVE  MadeUp(f, n)
<1>1. b.last < n
  BY LimiterAssumption DEF Times
<1>2. Quiet(f, n)
  BY <1>1 DEF Level, Quiet, Times
<1>3. PICK m \in Int : m = Rate * (n - b.last)
  BY LimiterAssumption DEF Times
<1>4. Limit <= m
  <2>1. Ttl \in Int /\ n - b.last \in Int /\ Ttl <= n - b.last
    BY LimiterAssumption DEF Times
  <2>2. Rate * Ttl <= m /\ Rate * Ttl = Ttl * Rate /\ Rate * Ttl \in Int
    BY <1>3, <2>1, RateTimes
  <2> QED BY <2>2, LimiterAssumption
<1>5. ASSUME NEW a \in 0..n PROVE From(f, a) <= Rate * (n - a)
  <2>1. a \in Times
    BY LimiterAssumption DEF Times
  <2>2. From(f, a) \in Int
    BY <2>1, FromIs
  <2>3. CASE a <= b.last
    <3>1. a \in 0..b.last
      BY <2>3 DEF Times
    <3>2. From(f, a) + b.tokens <= Allowance(a, b.last)
      BY <3>1 DEF Level
    <3>3. PICK i \in Int : i = Rate * (b.last - a)
      BY <2>1, LimiterAssumption DEF Times
    <3>4. Rate * (n - a) = i + m
      <4>1. /\ n - a = (b.last - a) + (n - b.last)
            /\ b.last - a \in Int /\ n - b.last \in Int
        BY <2>1 DEF Times
      <4>2. Rate * ((b.last - a) + (n - b.last)) = i + m
        BY <1>3, <3>3, <4>1, RateTimes
      <4> QED BY <4>1, <4>2
    <3>5. Allowance(a, b.last) = Limit + i
      BY <3>3 DEF Allowance
    <3> QED BY <1>4, <2>2, <3>2, <3>3, <3>4, <3>5, LimiterAssumption
  <2>4. CASE a > b.last
    <3>1. From(f, a) = 0
      BY <2>1, <2>4, FromIs DEF Level
    <3>2. Rate * (n - a) >= 0
      <4>1. n - a \in Nat
        BY DEF Times
      <4>2. \A i, j \in Nat : i * j >= 0
        OBVIOUS
      <4> QED BY <4>1, <4>2, LimiterAssumption
    <3> QED BY <3>1, <3>2
  <2> QED BY <2>3, <2>4, <2>1 DEF Times
<1> QED BY <1>2, <1>5 DEF MadeUp

-----------------------------------------------------------------------------
(***************************************************************************)
(* The limit.  A key without a bucket has had the time to fill one; so it  *)
(* makes no difference that cleanup forgets buckets.                       *)
(***************************************************************************)
\* Every request admitted for k is accounted for, by its bucket or by the time
\* that passed; and who is about to make a bucket has read the clock since.
Paid(k) ==
  /\ Within(admitted[k])
  /\ entries[k] # None => Level(admitted[k], bucket[entries[k]])
  /\ entries[k] = None =>
       \E n \in 0..clock :
         /\ MadeUp(admitted[k], n)
         /\ \A r \in Requests :
              request[r].pc = "load" /\ request[r].key = k => n <= request[r].now

\* Between refilling and taking, the bucket is at the time of the request.
AtItsTime(r) ==
  request[r].pc = "take" /\ request[r].key \notin crossed =>
    bucket[request[r].bucket].last = request[r].now

\* What cleanup is about to forget is still as old as it was when it looked.
DropsTheOld ==
  /\ cleaner.now <= clock
  /\ cleaner.pc = "entry" /\ cleaner.key \notin crossed =>
       /\ entries[cleaner.key] # None
       /\ cleaner.now - bucket[entries[cleaner.key]].last > Ttl

\* The part of the invariant the limit is about.
Budget ==
  /\ DropsTheOld
  /\ \A k \in Keys \ crossed : Paid(k)
  /\ \A r \in Requests : AtItsTime(r)

\* Nothing was admitted yet.
LEMMA InitBudget == Init => Budget
<1> SUFFICES ASSUME Init PROVE Budget
  OBVIOUS
<1>1. DropsTheOld /\ \A r \in Requests : AtItsTime(r)
  BY DEF Init, DropsTheOld, AtItsTime, Idle, Asleep
<1>2. ASSUME NEW k \in Keys PROVE Paid(k)
  <2>1. PICK f \in [Times -> Nat] : f = admitted[k]
    BY DEF Init
  <2>2. \A t \in Times : f[t] = 0
    BY <2>1 DEF Init
  <2>3. ASSUME NEW a \in Times, NEW b \in Times, a <= b
        PROVE  SumFunctionOnSet(f, a..b) <= Allowance(a, b)
    <3>1. \A t \in a..b : f[t] = 0
      BY <2>2, IntervalsAreFinite
    <3>2. SumFunctionOnSet(f, a..b) = 0
      BY <3>1, SumOfZeros
    <3>3. Limit <= Allowance(a, b) /\ Allowance(a, b) \in Int
      BY <2>3, AllowanceGrows
    <3> QED BY <3>2, <3>3, LimiterAssumption
  <2>4. MadeUp(f, 0)
    <3>1. Quiet(f, 0)
      BY <2>2 DEF Quiet
    <3>2. From(f, 0) = 0
      <4>1. MaxTime \in Times
        BY LimiterAssumption DEF Times
      <4>2. \A t \in 0..MaxTime : f[t] = 0
        BY <2>2 DEF Times
      <4> QED BY <4>1, <4>2, ZeroIsATime, SumOfZeros DEF From
    <3>3. Rate * (0 - 0) = 0
      BY LimiterAssumption
    <3>4. \A a \in 0..0 : a = 0
      OBVIOUS
    <3> QED BY <3>1, <3>2, <3>3, <3>4 DEF MadeUp
  <2>5. /\ entries[k] = None /\ 0 \in 0..clock
        /\ \A r \in Requests : request[r].pc # "load"
    BY DEF Init, Idle
  <2> QED BY <2>1, <2>3, <2>4, <2>5 DEF Paid, Within
<1> QED BY <1>1, <1>2 DEF Budget

\* A key keeps its account when nothing is admitted for it and its bucket
\* stays.
LEMMA PaidStays ==
  ASSUME Turns, NEW k \in Keys, Paid(k), clock' \in Times, clock <= clock',
         admitted'[k] = admitted[k], entries'[k] = entries[k],
         entries[k] # None => bucket'[entries[k]] = bucket[entries[k]],
         \A q \in Requests :
           request'[q].pc = "load" /\ request'[q].key = k =>
             \/ request'[q] = request[q]
             \/ request'[q].now = clock
  PROVE  Paid(k)'
<1>1. CASE entries[k] # None
  BY <1>1 DEF Paid
<1>2. CASE entries[k] = None
  <2>1. PICK n \in 0..clock :
          /\ MadeUp(admitted[k], n)
          /\ \A q \in Requests :
               request[q].pc = "load" /\ request[q].key = k => n <= request[q].now
    BY <1>2 DEF Paid
  <2>2. n \in 0..clock' /\ n <= clock
    BY DEF Turns, Shape, Times
  <2>3. \A q \in Requests :
          request'[q].pc = "load" /\ request'[q].key = k => n <= request'[q].now
    BY <2>1, <2>2
  <2> QED BY <1>2, <2>1, <2>2, <2>3 DEF Paid
<1> QED BY <1>1, <1>2

\* Steps that touch no bucket.
LEMMA NothingPaid ==
  ASSUME Turns, Budget, UNCHANGED <<entries, bucket, admitted>>,
         crossed \subseteq crossed', clock' \in Times, clock <= clock',
         DropsTheOld',
         \A q \in Requests : \/ request'[q] = request[q]
                             \/ request'[q].pc \notin {"load", "take"}
  PROVE  Budget'
<1>1. ASSUME NEW k \in Keys \ crossed' PROVE Paid(k)'
  BY PaidStays DEF Budget
<1>2. ASSUME NEW r \in Requests PROVE AtItsTime(r)'
  BY DEF Budget, AtItsTime
<1> QED BY <1>1, <1>2 DEF Budget

\* A step between Lock and Unlock concerns the key of the request and no
\* other.
LEMMA OwnKeyOnly ==
  ASSUME Turns, Filling, Budget, NEW r \in Requests, NEW key \in Keys,
         key = request[r].key, request[r].pc \in Locked,
         UNCHANGED <<clock, cleaner, crossed>>,
         \A j \in Keys : j # key =>
           /\ entries'[j] = entries[j] /\ admitted'[j] = admitted[j]
           /\ entries[j] # None => bucket'[entries[j]] = bucket[entries[j]],
         \A q \in Requests : q # r => request'[q] = request[q],
         request'[r].key \in {key, None},
         key \notin crossed => Paid(key)', AtItsTime(r)'
  PROVE  Budget'
<1>1. DropsTheOld'
  <2>1. SUFFICES ASSUME cleaner.pc = "entry", cleaner.key \notin crossed
                 PROVE  /\ entries'[cleaner.key] # None
                        /\ cleaner.now - bucket'[entries'[cleaner.key]].last > Ttl
    BY DEF Budget, DropsTheOld
  <2>2. PICK k \in Keys : k = cleaner.key
    BY <2>1 DEF Turns, Shape, Forgets
  <2>3. k # key
    BY <2>1, <2>2, LimiterAssumption DEF Turns, Forgets
  <2> QED BY <2>1, <2>2, <2>3 DEF Budget, DropsTheOld
<1>2. ASSUME NEW k \in Keys \ crossed' PROVE Paid(k)'
  <2>1. CASE k = key
    BY <1>2, <2>1
  <2>2. CASE k # key
    <3>1. \A q \in Requests : request'[q].key = k => request'[q] = request[q]
      BY <2>2, LimiterAssumption
    <3>2. clock' \in Times /\ clock <= clock'
      BY DEF Turns, Shape, Times
    <3> QED BY <1>2, <2>2, <3>1, <3>2, PaidStays DEF Budget
  <2> QED BY <2>1, <2>2
<1>3. ASSUME NEW q \in Requests PROVE AtItsTime(q)'
  <2>1. SUFFICES ASSUME q # r, request[q].pc = "take", request[q].key \notin crossed
                 PROVE  bucket'[request[q].bucket].last = request[q].now
    BY DEF AtItsTime
  <2>2. PICK k \in Keys : k = request[q].key
    BY <2>1 DEF Turns, Knows
  <2>3. k # key
    BY <2>1, <2>2, Alone DEF Locked
  <2>4. request[q].bucket = entries[k] /\ entries[k] # None
    BY <2>1, <2>2, LimiterAssumption DEF Filling, HasItsBucket
  <2> QED BY <2>1, <2>2, <2>3, <2>4 DEF Budget, AtItsTime
<1> QED BY <1>1, <1>2, <1>3 DEF Budget

\* What Return counts.
LEMMA OneMoreAdmitted ==
  ASSUME NEW A \in [Keys -> [Times -> Nat]], NEW k \in Keys, NEW t \in Times,
         NEW B, B = [A EXCEPT ![k][t] = @ + Token]
  PROVE  B[k] = Plus(A[k], t) /\ \A j \in Keys : j # k => B[j] = A[j]
BY DEF Plus

\* The clock is not before the time by which a key has made up.
LEMMA ReadClockBudget ==
  ASSUME Turns, Filling, Budget, NEW r \in Requests, ReadClock(r)
  PROVE  Budget'
<1>1. PICK key \in Keys : key = request[r].key
  BY DEF ReadClock, At, Turns, Knows
<1>2. /\ request[r].pc \in Locked
      /\ request'[r].pc = "load" /\ request'[r].now = clock
      /\ request'[r].key = key
      /\ \A q \in Requests : q # r => request'[q] = request[q]
      /\ UNCHANGED <<clock, entries, bucket, cleaner, admitted, crossed>>
  BY <1>1 DEF ReadClock, At, Locked, Turns, Shape
<1>3. AtItsTime(r)'
  BY <1>2 DEF AtItsTime
<1>4. ASSUME key \notin crossed PROVE Paid(key)'
  <2>1. \A q \in Requests : request'[q] = request[q] \/ request'[q].now = clock
    BY <1>2
  <2>2. clock' \in Times /\ clock <= clock'
    BY <1>2 DEF Turns, Shape, Times
  <2> QED BY <1>2, <1>4, <2>1, <2>2, PaidStays DEF Budget
<1> QED BY <1>1, <1>2, <1>3, <1>4, OwnKeyOnly

\* Loading a bucket changes no account.
LEMMA LoadBucketBudget ==
  ASSUME Turns, Filling, Budget, NEW r \in Requests, LoadBucket(r)
  PROVE  Budget'
<1>1. PICK key \in Keys : key = request[r].key
  BY DEF LoadBucket, At, Turns, Knows
<1>2. /\ request[r].pc \in Locked
      /\ request'[r].pc = "refill" /\ request'[r].key = key
      /\ \A q \in Requests : q # r => request'[q] = request[q]
      /\ UNCHANGED <<clock, entries, bucket, cleaner, admitted, crossed>>
  BY <1>1 DEF LoadBucket, At, Locked, Turns, Shape
<1>3. AtItsTime(r)'
  BY <1>2 DEF AtItsTime
<1>4. ASSUME key \notin crossed PROVE Paid(key)'
  <2>1. \A q \in Requests : request'[q].pc = "load" => request'[q] = request[q]
    BY <1>2
  <2>2. clock' \in Times /\ clock <= clock'
    BY <1>2 DEF Turns, Shape, Times
  <2> QED BY <1>2, <1>4, <2>1, <2>2, PaidStays DEF Budget
<1> QED BY <1>1, <1>2, <1>3, <1>4, OwnKeyOnly

\* Nor does refusing.
LEMMA RefuseBudget ==
  ASSUME Turns, Filling, Budget, NEW r \in Requests, Refuse(r)
  PROVE  Budget'
<1>1. PICK key \in Keys : key = request[r].key
  BY DEF Refuse, At, Turns, Knows
<1>2. /\ request[r].pc \in Locked
      /\ request'[r].pc = "idle" /\ request'[r].key = None
      /\ \A q \in Requests : q # r => request'[q] = request[q]
      /\ UNCHANGED <<clock, entries, bucket, cleaner, admitted, crossed>>
  BY <1>1 DEF Refuse, Return, Idle, At, Locked, Turns, Shape
<1>3. AtItsTime(r)'
  BY <1>2 DEF AtItsTime
<1>4. ASSUME key \notin crossed PROVE Paid(key)'
  <2>1. \A q \in Requests : request'[q].pc = "load" => request'[q] = request[q]
    BY <1>2
  <2>2. clock' \in Times /\ clock <= clock'
    BY <1>2 DEF Turns, Shape, Times
  <2> QED BY <1>2, <1>4, <2>1, <2>2, PaidStays DEF Budget
<1> QED BY <1>1, <1>2, <1>3, <1>4, OwnKeyOnly

\* Whoever refills does it in turn, which the account needs.
LEMMA RefillBudget ==
  ASSUME Turns, Filling, Budget, NEW r \in Requests, Refill(r)
  PROVE  Budget'
<1>1. PICK key \in Keys : key = request[r].key
  BY DEF Refill, At, Turns, Knows
<1>2. PICK old \in Buckets : old = request[r].bucket
  BY DEF Refill, At, Filling, HasItsBucket
<1>3. PICK now \in Times : now = request[r].now
  BY DEF Turns, Shape
<1>4. /\ request[r].pc = "refill" /\ request[r].pc \in Locked
      /\ request'[r].pc = "take" /\ request'[r].key = key
      /\ request'[r].now = now /\ request'[r].bucket = old
      /\ \A q \in Requests : q # r => request'[q] = request[q]
      /\ bucket' = [bucket EXCEPT ![old] = Refilled(@, now)]
      /\ UNCHANGED <<clock, entries, cleaner, admitted, crossed>>
  BY <1>1, <1>2, <1>3 DEF Refill, At, Locked, Turns, Shape
<1>5. PICK b \in [tokens : Int, last : Times] : b = bucket[old]
  BY DEF Filling, BucketsFit
<1>6. /\ bucket'[old] = Refilled(b, now)
      /\ \A c \in Buckets : c # old => bucket'[c] = bucket[c]
  BY <1>4, <1>5 DEF Filling, BucketsFit
<1>7. /\ \A j \in Keys : entries[j] = old => j = key
      /\ \A j \in Keys : entries[j] \in Buckets \cup {None}
      /\ key \notin crossed => entries[key] = old
  BY <1>1, <1>2, <1>4 DEF Filling, HasItsBucket, Turns, Shape
<1>8. \A j \in Keys : j # key /\ entries[j] # None =>
           bucket'[entries[j]] = bucket[entries[j]]
  BY <1>6, <1>7
<1>9. AtItsTime(r)'
  BY <1>4, <1>6 DEF AtItsTime, Refilled
<1>10. ASSUME key \notin crossed PROVE Paid(key)'
  <2>1. entries[key] = old /\ old # None
    BY <1>7, <1>10, LimiterAssumption
  <2>2. Paid(key) /\ b.tokens \in 0..Limit /\ b.last <= now
    BY <1>1, <1>3, <1>4, <1>5, <1>10, <2>1
       DEF Budget, Filling, NeverOverfull, ReadsInTurn
  <2>3. PICK f \in [Times -> Nat] : f = admitted[key]
    BY DEF Filling, BucketsFit
  <2>4. Level(f, b) /\ Within(f)
    BY <1>5, <2>1, <2>2, <2>3 DEF Paid
  <2>5. Level(f, Refilled(b, now))
    BY <2>2, <2>4, LevelRefilled
  <2> QED BY <1>4, <1>6, <2>1, <2>3, <2>4, <2>5 DEF Paid
<1> QED BY <1>1, <1>4, <1>8, <1>9, <1>10, OwnKeyOnly

\* The token that is taken is the request that is admitted.
LEMMA TakeBudget ==
  ASSUME Turns, Filling, Budget, NEW r \in Requests, Take(r)
  PROVE  Budget'
<1>1. PICK key \in Keys : key = request[r].key
  BY DEF Take, At, Turns, Knows
<1>2. PICK old \in Buckets : old = request[r].bucket
  BY DEF Take, At, Filling, HasItsBucket
<1>3. PICK now \in Times : now = request[r].now
  BY DEF Turns, Shape
<1>4. /\ request[r].pc = "take" /\ request[r].pc \in Locked
      /\ request'[r].pc = "idle" /\ request'[r].key = None
      /\ \A q \in Requests : q # r => request'[q] = request[q]
      /\ UNCHANGED <<clock, entries, cleaner, crossed>>
  BY DEF Take, Return, Idle, At, Locked, Turns, Shape
<1>5. PICK b \in [tokens : Int, last : Times] : b = bucket[old]
  BY DEF Filling, BucketsFit
<1>6. /\ b.tokens >= Token
      /\ bucket' = [bucket EXCEPT ![old].tokens = @ - Token]
      /\ admitted' = [admitted EXCEPT ![key][now] = @ + Token]
  BY <1>1, <1>2, <1>3, <1>5 DEF Take, Enough, Return
<1>7. /\ bucket'[old].tokens = b.tokens - Token /\ bucket'[old].last = b.last
      /\ \A c \in Buckets : c # old => bucket'[c] = bucket[c]
  <2>1. bucket'[old] = [b EXCEPT !.tokens = b.tokens - Token]
    BY <1>5, <1>6 DEF Filling, BucketsFit
  <2> QED BY <1>6, <2>1 DEF Filling, BucketsFit
<1>8. /\ admitted'[key] = Plus(admitted[key], now)
      /\ \A j \in Keys : j # key => admitted'[j] = admitted[j]
  <2>1. PICK A \in [Keys -> [Times -> Nat]] : A = admitted
    BY DEF Filling, BucketsFit
  <2>2. PICK B : B = admitted'
    OBVIOUS
  <2>3. B = [A EXCEPT ![key][now] = @ + Token]
    BY <1>6, <2>1, <2>2
  <2>4. B[key] = Plus(A[key], now) /\ \A j \in Keys : j # key => B[j] = A[j]
    BY <2>3, OneMoreAdmitted
  <2> QED BY <2>1, <2>2, <2>4
<1>9. /\ \A j \in Keys : entries[j] = old => j = key
      /\ \A j \in Keys : entries[j] \in Buckets \cup {None}
      /\ key \notin crossed => entries[key] = old
  BY <1>1, <1>2, <1>4 DEF Filling, HasItsBucket, Turns, Shape
<1>10. \A j \in Keys : j # key /\ entries[j] # None =>
           bucket'[entries[j]] = bucket[entries[j]]
  BY <1>7, <1>9
<1>11. AtItsTime(r)'
  BY <1>4 DEF AtItsTime
<1>12. ASSUME key \notin crossed PROVE Paid(key)'
  <2>1. entries[key] = old /\ old # None
    BY <1>9, <1>12, LimiterAssumption
  <2>2. Paid(key) /\ b.last = now
    BY <1>1, <1>2, <1>3, <1>4, <1>5, <1>12 DEF Budget, AtItsTime
  <2>3. PICK f \in [Times -> Nat] : f = admitted[key]
    BY DEF Filling, BucketsFit
  <2>4. Level(f, b) /\ Within(f)
    BY <1>5, <2>1, <2>2, <2>3 DEF Paid
  <2>5. PICK c : c = bucket'[old]
    OBVIOUS
  <2>6. PICK g : g = Plus(f, b.last)
    OBVIOUS
  <2>7. c.tokens = b.tokens - Token /\ c.last = b.last
    BY <1>7, <2>5
  <2>8. Level(g, c) /\ Within(g)
    BY <1>6, <2>4, <2>6, <2>7, LevelTaken
  <2>9. admitted'[key] = g
    BY <1>8, <2>2, <2>3, <2>6
  <2>10. entries'[key] = old
    BY <1>4, <2>1
  <2> QED BY <2>1, <2>5, <2>8, <2>9, <2>10 DEF Paid
<1> QED BY <1>1, <1>4, <1>8, <1>10, <1>11, <1>12, OwnKeyOnly

\* Whoever makes a bucket does it after the key has made up.
LEMMA StoreBucketBudget ==
  ASSUME Turns, Filling, Budget, NEW r \in Requests, StoreBucket(r)
  PROVE  Budget'
<1>1. PICK key \in Keys : key = request[r].key
  BY DEF StoreBucket, At, Turns, Knows
<1>2. PICK b \in FreeBuckets : b = New(FreeBuckets)
  BY DEF StoreBucket, New
<1>3. PICK now \in Times : now = request[r].now
  BY DEF Turns, Shape
<1>4. /\ request[r].pc = "load" /\ request[r].pc \in Locked
      /\ request'[r].pc = "idle" /\ request'[r].key = None
      /\ \A q \in Requests : q # r => request'[q] = request[q]
      /\ entries[key] = None
      /\ UNCHANGED <<clock, cleaner, crossed>>
  BY <1>1 DEF StoreBucket, Return, Idle, At, Locked, Turns, Shape
<1>5. /\ entries' = [entries EXCEPT ![key] = b]
      /\ bucket' = [bucket EXCEPT ![b] = NewBucket(now)]
      /\ admitted' = [admitted EXCEPT ![key][now] = @ + Token]
  BY <1>1, <1>2, <1>3 DEF StoreBucket, Return
<1>6. /\ b \in Buckets /\ b # None /\ \A j \in Keys : entries[j] # b
      /\ \A j \in Keys : entries[j] \in Buckets \cup {None}
  BY LimiterAssumption DEF FreeBuckets, Turns, Shape
<1>7. /\ bucket'[b] = NewBucket(now)
      /\ \A c \in Buckets : c # b => bucket'[c] = bucket[c]
      /\ entries'[key] = b /\ \A j \in Keys : j # key => entries'[j] = entries[j]
  BY <1>5, <1>6 DEF Filling, BucketsFit, Turns, Shape
<1>8. /\ admitted'[key] = Plus(admitted[key], now)
      /\ \A j \in Keys : j # key => admitted'[j] = admitted[j]
  <2>1. PICK A \in [Keys -> [Times -> Nat]] : A = admitted
    BY DEF Filling, BucketsFit
  <2>2. PICK B : B = admitted'
    OBVIOUS
  <2>3. B = [A EXCEPT ![key][now] = @ + Token]
    BY <1>5, <2>1, <2>2
  <2>4. B[key] = Plus(A[key], now) /\ \A j \in Keys : j # key => B[j] = A[j]
    BY <2>3, OneMoreAdmitted
  <2> QED BY <2>1, <2>2, <2>4
<1>9. \A j \in Keys : j # key /\ entries[j] # None =>
           bucket'[entries[j]] = bucket[entries[j]]
  BY <1>6, <1>7
<1>10. AtItsTime(r)'
  BY <1>4 DEF AtItsTime
<1>11. ASSUME key \notin crossed PROVE Paid(key)'
  <2>1. Paid(key)
    BY <1>11 DEF Budget
  <2>2. PICK f \in [Times -> Nat] : f = admitted[key]
    BY DEF Filling, BucketsFit
  <2>3. PICK n \in 0..clock : MadeUp(f, n) /\ n <= now
    BY <1>1, <1>3, <1>4, <2>1, <2>2 DEF Paid
  <2>4. n \in Times
    BY LimiterAssumption DEF Turns, Shape, Times
  <2>5. PICK g : g = Plus(f, now)
    OBVIOUS
  <2>6. Level(g, NewBucket(now)) /\ Within(g)
    BY <2>1, <2>2, <2>3, <2>4, <2>5, LevelNew DEF Paid
  <2>7. admitted'[key] = g
    BY <1>8, <2>2, <2>5
  <2> QED BY <1>6, <1>7, <2>6, <2>7 DEF Paid
<1> QED BY <1>1, <1>4, <1>7, <1>8, <1>9, <1>10, <1>11, OwnKeyOnly

\* Forgetting a bucket loses nothing: it would be full.
LEMMA DropEntryBudget ==
  ASSUME Turns, Filling, Budget, DropEntry
  PROVE  Budget'
<1>1. PICK key \in Keys : key = cleaner.key
  BY DEF DropEntry, Turns, Shape, Forgets
<1>2. PICK old : old = entries[key]
  OBVIOUS
<1>3. /\ cleaner.pc = "entry" /\ cleaner'.pc = "mutex"
      /\ cleaner'.now = cleaner.now
      /\ entries' = [entries EXCEPT ![key] = None]
      /\ \/ bucket' = bucket
         \/ /\ \A r \in Requests : request[r].bucket # old
            /\ bucket' = [bucket EXCEPT ![old] = NoBucket]
      /\ UNCHANGED <<clock, request, admitted, crossed>>
  BY <1>1, <1>2 DEF DropEntry, Turns, Shape
<1>4. /\ entries'[key] = None
      /\ \A j \in Keys : j # key => entries'[j] = entries[j]
      /\ \A c \in Buckets : c # old => bucket'[c] = bucket[c]
      /\ \A j \in Keys : entries[j] \in Buckets \cup {None}
      /\ clock' \in Times /\ clock <= clock'
  BY <1>3 DEF Filling, BucketsFit, Turns, Shape, Times
<1>5. DropsTheOld'
  BY <1>3 DEF Budget, DropsTheOld
<1>6. ASSUME NEW r \in Requests PROVE AtItsTime(r)'
  <2>1. SUFFICES ASSUME request[r].pc = "take", request[r].key \notin crossed
                 PROVE  bucket'[request[r].bucket] = bucket[request[r].bucket]
    BY <1>3 DEF Budget, AtItsTime
  <2>2. request[r].bucket \in Buckets
    BY <2>1 DEF Filling, HasItsBucket
  <2> QED BY <1>3, <2>2 DEF Filling, BucketsFit
<1>7. ASSUME NEW k \in Keys \ crossed PROVE Paid(k)'
  <2>1. CASE k # key
    <3>1. entries[k] # None => bucket'[entries[k]] = bucket[entries[k]]
      BY <1>2, <1>4, <2>1 DEF Filling, OneKeyEach
    <3> QED BY <1>3, <1>4, <1>7, <2>1, <3>1, PaidStays DEF Budget
  <2>2. CASE k = key
    <3>1. PICK f \in [Times -> Nat] : f = admitted[key]
      BY DEF Filling, BucketsFit
    <3>2. PICK n \in Times : n = cleaner.now
      BY DEF Turns, Shape
    <3>3. /\ old \in Buckets /\ old # None /\ n <= clock
          /\ n - bucket[old].last > Ttl
      BY <1>1, <1>2, <1>3, <1>4, <1>7, <2>2, <3>2 DEF Budget, DropsTheOld
    <3>4. PICK b \in [tokens : Int, last : Times] : b = bucket[old]
      BY <3>3 DEF Filling, BucketsFit
    <3>5. Level(f, b) /\ Within(f) /\ b.tokens >= 0
      BY <1>2, <1>7, <2>2, <3>1, <3>3, <3>4
         DEF Budget, Paid, Filling, NeverOverfull
    <3>6. MadeUp(f, n)
      BY <3>3, <3>4, <3>5, LevelDropped
    <3>7. n \in 0..clock' /\ \A r \in Requests : request'[r].key # key
      BY <1>1, <1>3, <1>7, <2>2, <3>3, LimiterAssumption
         DEF Turns, Shape, Forgets, Times
    <3> QED BY <1>3, <1>4, <2>2, <3>1, <3>5, <3>6, <3>7 DEF Paid
  <2> QED BY <2>1, <2>2
<1> QED BY <1>3, <1>5, <1>6, <1>7 DEF Budget

\* Cleanup looks at the bucket and at how old it is in one step.
LEMMA VisitBudget ==
  ASSUME Turns, Budget, NEW k \in Keys, Visit(k)
  PROVE  Budget'
<1>1. /\ UNCHANGED <<clock, entries, bucket, request, admitted>>
      /\ crossed \subseteq crossed'
      /\ cleaner'.now = cleaner.now
      /\ cleaner'.pc = "entry" =>
           /\ cleaner'.key = k /\ entries[k] # None
           /\ Stale(entries[k], cleaner.now)
  BY DEF Visit, Turns, Shape
<1>2. DropsTheOld'
  BY <1>1 DEF Budget, DropsTheOld, Stale
<1>3. clock' \in Times /\ clock <= clock'
  BY <1>1 DEF Turns, Shape, Times
<1> QED BY <1>1, <1>2, <1>3, NothingPaid

\* The other steps leave what cleanup is about to forget alone.
LEMMA OldBudget ==
  ASSUME Turns, Budget, UNCHANGED <<entries, bucket, admitted>>,
         crossed \subseteq crossed', clock' \in Times, clock <= clock',
         \/ UNCHANGED cleaner
         \/ cleaner'.pc # "entry" /\ cleaner'.now <= clock',
         \A q \in Requests : \/ request'[q] = request[q]
                             \/ request'[q].pc \notin {"load", "take"}
  PROVE  Budget'
<1>1. cleaner.now \in Times /\ clock \in Times
  BY DEF Turns, Shape
<1>2. DropsTheOld'
  BY <1>1 DEF Budget, DropsTheOld, Times
<1> QED BY <1>2, NothingPaid

\* Every step keeps the accounts.
LEMMA BudgetStays ==
  ASSUME Turns, Filling, Budget, [Next]_vars
  PROVE  Budget'
<1>0. /\ clock \in Times /\ clock \in Nat /\ clock <= clock /\ 0 <= clock
      /\ cleaner.now <= clock
  BY DEF Turns, Shape, Times, Budget, DropsTheOld
<1>1. CASE UNCHANGED vars
  BY <1>0, <1>1, OldBudget DEF vars
<1>2. CASE Tick
  <2>1. clock' \in Times /\ clock <= clock'
    BY <1>0, <1>2, LimiterAssumption DEF Tick, Times
  <2> QED BY <1>2, <2>1, OldBudget DEF Tick
<1>3. CASE StartSweep \/ DropMutex \/ EndSweep
  <2>1. /\ UNCHANGED <<clock, entries, bucket, request, admitted, crossed>>
        /\ cleaner'.pc # "entry" /\ cleaner'.now <= clock
    <3>1. CASE StartSweep
      BY <1>0, <3>1 DEF StartSweep, Asleep
    <3>2. CASE DropMutex
      BY <1>0, <3>2 DEF DropMutex, Turns, Shape
    <3>3. CASE EndSweep
      BY <1>0, <3>3 DEF EndSweep, Asleep
    <3> QED BY <1>3, <3>1, <3>2, <3>3
  <2> QED BY <1>0, <2>1, OldBudget
<1>4. ASSUME NEW r \in Requests, NEW k \in Keys, FindMutex(r, k)
      PROVE  Budget'
  <2>1. /\ UNCHANGED <<clock, entries, bucket, cleaner, admitted>>
        /\ crossed \subseteq crossed'
        /\ request'[r].pc = "lock"
        /\ \A q \in Requests : q # r => request'[q] = request[q]
    BY <1>4 DEF FindMutex, Turns, Shape
  <2> QED BY <1>0, <2>1, OldBudget
<1>5. ASSUME NEW r \in Requests, Lock(r)
      PROVE  Budget'
  <2>1. /\ UNCHANGED <<clock, entries, bucket, cleaner, admitted, crossed>>
        /\ request'[r].pc = "clock"
        /\ \A q \in Requests : q # r => request'[q] = request[q]
    BY <1>5 DEF Lock, Turns, Shape
  <2> QED BY <1>0, <2>1, OldBudget
<1> QED BY <1>1, <1>2, <1>3, <1>4, <1>5, VisitBudget, DropEntryBudget,
           ReadClockBudget, LoadBucketBudget, StoreBucketBudget,
           RefillBudget, TakeBudget, RefuseBudget
        DEF Next, Allow

\* The inductive invariant of the limiter.
Bookkeeping == Turns /\ Filling /\ Budget

\* It is inductive.
LEMMA Inductive ==
  /\ Init => Bookkeeping
  /\ Bookkeeping /\ [Next]_vars => Bookkeeping'
<1>1. Init => Bookkeeping
  BY InitTurns, InitFilling, InitBudget DEF Bookkeeping
<1>2. Bookkeeping /\ [Next]_vars => Bookkeeping'
  BY NextTurns, FillingStays, BudgetStays DEF Bookkeeping
<1> QED BY <1>1, <1>2

\* In no interval are more requests for a key admitted than a bucket that is
\* full at its start holds and gets in it, for any limit, rate and ttl, although
\* buckets are forgotten and made anew meanwhile (allow, cleanup); keys that were
\* forgotten while a request for them was under way are the exception.
THEOREM LimitHolds == Spec => []WithinLimit
<1>1. Bookkeeping => WithinLimit
  BY DEF Bookkeeping, Budget, Paid, Within, WithinLimit, AdmittedIn
<1> QED BY <1>1, Inductive, PTL DEF Spec

\* Whoever is refused has an empty bucket, whose account is exact.
LEMMA RefusesSpent ==
  ASSUME Bookkeeping, [Next]_vars, NEW r \in Requests,
         request[r].pc = "take", request'[r].pc = "idle", admitted' = admitted,
         request[r].key \notin crossed
  PROVE  \E a \in 0..request[r].now :
           AdmittedIn(request[r].key, a, request[r].now) + Token >
             Allowance(a, request[r].now)
<1>1. Refuse(r)
  <2>1. \A q \in Requests : request'[q].pc = request[q].pc \/ q # r \/ q = r
    OBVIOUS
  <2>2. ~UNCHANGED request
    OBVIOUS
  <2>3. Tick \/ StartSweep \/ DropEntry \/ DropMutex \/ EndSweep
        \/ (\E k \in Keys : Visit(k)) => UNCHANGED request
    BY DEF Tick, StartSweep, DropEntry, DropMutex, EndSweep, Visit
  <2>4. ASSUME NEW q \in Requests,
               Lock(q) \/ ReadClock(q) \/ LoadBucket(q) \/ Refill(q)
               \/ \E k \in Keys : FindMutex(q, k)
        PROVE  FALSE
    <3>1. request'[q].pc # "idle"
          /\ \A p \in Requests : p # q => request'[p] = request[p]
      BY <2>4 DEF Lock, ReadClock, LoadBucket, Refill, FindMutex,
                  Bookkeeping, Turns, Shape
    <3> QED BY <3>1
  <2>5. ASSUME NEW q \in Requests, StoreBucket(q) \/ Take(q)
        PROVE  FALSE
    <3>1. \A p \in Requests : p # q => request'[p] = request[p]
      BY <2>5 DEF StoreBucket, Take, Return, Bookkeeping, Turns, Shape
    <3>2. q = r
      BY <3>1
    <3>3. Take(r)
      BY <2>5, <3>2 DEF StoreBucket, At
    <3>4. PICK key \in Keys : key = request[r].key
      BY <3>3 DEF Take, At, Bookkeeping, Turns, Knows
    <3>5. PICK now \in Times : now = request[r].now
      BY DEF Bookkeeping, Turns, Shape
    <3>6. PICK A \in [Keys -> [Times -> Nat]] : A = admitted
      BY DEF Bookkeeping, Filling, BucketsFit
    <3>7. A = [A EXCEPT ![key][now] = @ + Token]
      BY <3>3, <3>4, <3>5, <3>6 DEF Take, Return
    <3>8. A[key][now] = A[key][now] + Token /\ A[key][now] \in Nat
      <4>1. PICK f \in [Times -> Nat] : f = A[key]
        OBVIOUS
      <4>2. f = Plus(f, now)
        BY <3>7, <4>1, OneMoreAdmitted
      <4> QED BY <4>1, <4>2 DEF Plus
    <3> QED BY <3>8, LimiterAssumption
  <2>6. PICK q \in Requests : Refuse(q)
    BY <2>2, <2>3, <2>4, <2>5 DEF Next, Allow, vars
  <2>7. \A p \in Requests : p # q => request'[p] = request[p]
    BY <2>6 DEF Refuse, Return, Bookkeeping, Turns, Shape
  <2> QED BY <2>6, <2>7
<1>2. PICK key \in Keys : key = request[r].key
  BY DEF Bookkeeping, Turns, Knows
<1>3. PICK now \in Times : now = request[r].now
  BY DEF Bookkeeping, Turns, Shape
<1>4. PICK old \in Buckets : old = request[r].bucket
  BY DEF Bookkeeping, Filling, HasItsBucket
<1>5. PICK b \in [tokens : Int, last : Times] : b = bucket[old]
  BY DEF Bookkeeping, Filling, BucketsFit
<1>6. entries[key] = old /\ old # None /\ b.last = now
  BY <1>2, <1>3, <1>4, <1>5, LimiterAssumption
     DEF Bookkeeping, Filling, HasItsBucket, Budget, AtItsTime
<1>7. ~(b.tokens >= Token)
  BY <1>1, <1>4, <1>5 DEF Refuse, Enough
<1>8. PICK f \in [Times -> Nat] : f = admitted[key]
  BY DEF Bookkeeping, Filling, BucketsFit
<1>9. Level(f, b) /\ b.tokens \in 0..Limit
  BY <1>2, <1>5, <1>6, <1>8
     DEF Bookkeeping, Budget, Paid, Filling, NeverOverfull
<1>10. PICK a \in 0..now : From(f, a) + b.tokens = Allowance(a, now)
  BY <1>6, <1>9 DEF Level
<1>11. a \in Times
  BY LimiterAssumption DEF Times
<1>12. SumFunctionOnSet(f, a..now) = From(f, a)
  BY <1>6, <1>9, <1>11, SumUpToQuiet DEF Level, Times
<1>13. From(f, a) \in Int /\ Allowance(a, now) \in Int
  BY <1>11, FromIs, AllowanceGrows
<1>14. SumFunctionOnSet(f, a..now) + Token > Allowance(a, now)
  BY <1>7, <1>9, <1>10, <1>12, <1>13, LimiterAssumption
<1> QED BY <1>2, <1>3, <1>8, <1>14 DEF AdmittedIn

\* A request is refused only when some interval up to now has had all of its
\* allowance, so that one more would break the limit (allow).
THEOREM RefusalsAreDue == Spec => RefusedWhenSpent
<1> DEFINE Due ==
      \A r \in Requests :
        LET k == request[r].key
            now == request[r].now
        IN At(r, "take") /\ request'[r].pc = "idle" /\ admitted' = admitted =>
             \/ k \in crossed
             \/ \E a \in 0..now : AdmittedIn(k, a, now) + Token > Allowance(a, now)
<1>1. Bookkeeping /\ [Next]_vars => [Due]_vars
  BY RefusesSpent DEF At
<1> HIDE DEF Due
<1>2. Spec => [][Due]_vars
  BY <1>1, Inductive, PTL DEF Spec
<1> QED BY <1>2 DEF RefusedWhenSpent, Due
=============================================================================
