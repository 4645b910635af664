---------------------------- MODULE RateLimiter ----------------------------
(***************************************************************************)
(* The rate limiter: a token bucket for each key (address and endpoint),   *)
(* requests that take tokens, and the goroutine that forgets buckets       *)
(* nobody used for a while (backend/middleware_ratelimit.go).              *)
(*                                                                         *)
(* Buckets and mutexes are objects the two maps point to, and each call on *)
(* a map is one step.  Time is counted in ticks, and tokens in parts, for  *)
(* a limit need not be a whole number.  An object nothing points to is     *)
(* collected, and its name is used again.                                  *)
(***************************************************************************)
EXTENDS Integers, FiniteSets, Functions

CONSTANTS
  Keys, Buckets, Mutexes,
  Requests,       \* requests the server handles at the same time
  None,
  Token,          \* parts of a token
  Limit,          \* parts in a full bucket
  Rate,           \* parts a bucket gets in a tick
  Ttl,            \* ticks a bucket must be idle to be forgotten
  MaxTime         \* bound on the clock

\* main: the ttl is longer than a bucket takes to fill.  A limit below one, which
\* the environment may set, lets the first request through and no other.
ASSUME LimiterAssumption ==
  /\ None \notin Keys \cup Buckets \cup Mutexes \cup Requests
  /\ Token \in Nat \ {0} /\ Limit \in Nat /\ Limit >= Token
  /\ Rate \in Nat /\ Ttl \in Nat /\ MaxTime \in Nat
  /\ Ttl * Rate >= Limit

VARIABLES
  clock,
  mu, entries,    \* the maps: mu[k] and entries[k], None when not there
  holder,         \* holder[m]: the request that holds m
  bucket,         \* what the objects in entries hold
  request,        \* locals of allow
  cleaner,        \* locals of cleanup
  admitted,       \* admitted[k][t]: what requests for k that read clock t took
  crossed         \* keys forgotten while a request for them was under way

vars == <<clock, mu, entries, holder, bucket, request, cleaner, admitted, crossed>>

Times == 0..MaxTime
NoBucket == [tokens |-> 0, last |-> 0]
Idle == [pc |-> "idle", key |-> None, mutex |-> None, bucket |-> None, now |-> 0]
Asleep == [pc |-> "asleep", now |-> 0, todo |-> {}, key |-> None]
Locked == {"clock", "load", "refill", "take"}   \* between Lock and Unlock

TypeOK ==
  /\ clock \in Times
  /\ mu \in [Keys -> Mutexes \cup {None}]
  /\ entries \in [Keys -> Buckets \cup {None}]
  /\ holder \in [Mutexes -> Requests \cup {None}]
  /\ bucket \in [Buckets -> [tokens : Int, last : Times]]
  /\ \A k \in Keys \ crossed :
       entries[k] # None => bucket[entries[k]].tokens \in 0..Limit
  /\ request \in [Requests ->
       [pc : {"idle", "lock"} \cup Locked, key : Keys \cup {None},
        mutex : Mutexes \cup {None}, bucket : Buckets \cup {None}, now : Times]]
  /\ cleaner \in [pc : {"asleep", "range", "entry", "mutex"}, now : Times,
                  todo : SUBSET Keys, key : Keys \cup {None}]
  /\ admitted \in [Keys -> [Times -> Nat]]
  /\ crossed \in SUBSET Keys

Init ==
  /\ clock = 0
  /\ mu = [k \in Keys |-> None] /\ entries = [k \in Keys |-> None]
  /\ holder = [m \in Mutexes |-> None]
  /\ bucket = [b \in Buckets |-> NoBucket]
  /\ request = [r \in Requests |-> Idle]
  /\ cleaner = Asleep
  /\ admitted = [k \in Keys |-> [t \in Times |-> 0]]
  /\ crossed = {}

Tick ==
  /\ clock < MaxTime
  /\ clock' = clock + 1
  /\ UNCHANGED <<mu, entries, holder, bucket, request, cleaner, admitted, crossed>>

At(r, pc) == request[r].pc = pc
(***************************************************************************)
(* allow.                                                                  *)
(***************************************************************************)
FreeMutexes ==
  {m \in Mutexes : /\ \A k \in Keys : mu[k] # m
                   /\ \A r \in Requests : request[r].mutex # m}
FreeBuckets ==
  {b \in Buckets : /\ \A k \in Keys : entries[k] # b
                   /\ \A r \in Requests : request[r].bucket # b}
New(free) == CHOOSE x \in free : TRUE

\* mu.LoadOrStore.
FindMutex(r, k) ==
  LET m == IF mu[k] # None THEN mu[k] ELSE New(FreeMutexes)
  IN /\ At(r, "idle")
     /\ mu[k] # None \/ FreeMutexes # {}
     /\ mu' = [mu EXCEPT ![k] = m]
     /\ request' = [request EXCEPT ![r] =
          [pc |-> "lock", key |-> k, mutex |-> m, bucket |-> None, now |-> 0]]
     /\ crossed' = IF cleaner.key = k THEN crossed \cup {k} ELSE crossed
     /\ UNCHANGED <<clock, entries, holder, bucket, cleaner, admitted>>

\* Mutant: nobody waits.
BuggyMayLock(m) == TRUE

MayLock(m) == holder[m] = None

Lock(r) ==
  /\ At(r, "lock") /\ MayLock(request[r].mutex)
  /\ holder' = [holder EXCEPT ![request[r].mutex] = r]
  /\ request' = [request EXCEPT ![r].pc = "clock"]
  /\ UNCHANGED <<clock, mu, entries, bucket, cleaner, admitted, crossed>>

ReadClock(r) ==
  /\ At(r, "clock")
  /\ request' = [request EXCEPT ![r].pc = "load", ![r].now = clock]
  /\ UNCHANGED <<clock, mu, entries, holder, bucket, cleaner, admitted, crossed>>

\* Mutant: the mutex stays locked when the request is refused.
BuggyUnlock(r, allowed) ==
  holder' = IF allowed THEN [holder EXCEPT ![request[r].mutex] = None] ELSE holder

\* The deferred Unlock.
Unlock(r, allowed) == holder' = [holder EXCEPT ![request[r].mutex] = None]

Return(r, allowed) ==
  /\ Unlock(r, allowed)
  /\ request' = [request EXCEPT ![r] = Idle]
  /\ admitted' = IF allowed
                 THEN [admitted EXCEPT ![request[r].key][request[r].now] = @ + Token]
                 ELSE admitted

NewBucket(now) == [tokens |-> Limit - Token, last |-> now]

\* entries.LoadOrStore; the first request of a key is allowed.
StoreBucket(r) ==
  LET k == request[r].key
      b == New(FreeBuckets)
  IN /\ At(r, "load") /\ entries[k] = None /\ FreeBuckets # {}
     /\ entries' = [entries EXCEPT ![k] = b]
     /\ bucket' = [bucket EXCEPT ![b] = NewBucket(request[r].now)]
     /\ Return(r, TRUE)
     /\ UNCHANGED <<clock, mu, cleaner, crossed>>

LoadBucket(r) ==
  /\ At(r, "load") /\ entries[request[r].key] # None
  /\ request' = [request EXCEPT ![r].pc = "refill",
                                ![r].bucket = entries[request[r].key]]
  /\ UNCHANGED <<clock, mu, entries, holder, bucket, cleaner, admitted, crossed>>

\* Mutant: tokens pile up.
BuggyCap(n) == n

Cap(n) == IF n > Limit THEN Limit ELSE n

Refilled(b, now) ==
  [tokens |-> Cap(b.tokens + (now - b.last) * Rate), last |-> now]

Refill(r) ==
  /\ At(r, "refill")
  /\ bucket' = [bucket EXCEPT ![request[r].bucket] = Refilled(@, request[r].now)]
  /\ request' = [request EXCEPT ![r].pc = "take"]
  /\ UNCHANGED <<clock, mu, entries, holder, cleaner, admitted, crossed>>

\* Mutant: the last token is not given away.
BuggyEnough(b) == bucket[b].tokens > Token

Enough(b) == bucket[b].tokens >= Token

Take(r) ==
  /\ At(r, "take") /\ Enough(request[r].bucket)
  /\ bucket' = [bucket EXCEPT ![request[r].bucket].tokens = @ - Token]
  /\ Return(r, TRUE)
  /\ UNCHANGED <<clock, mu, entries, cleaner, crossed>>

Refuse(r) ==
  /\ At(r, "take") /\ ~Enough(request[r].bucket)
  /\ Return(r, FALSE)
  /\ UNCHANGED <<clock, mu, entries, bucket, cleaner, crossed>>
(***************************************************************************)
(* cleanup.                                                                *)
(***************************************************************************)
\* Once a minute, over the keys there are; one that is stored meanwhile may be
\* visited or not.
StartSweep ==
  /\ cleaner.pc = "asleep"
  /\ \E K \in SUBSET Keys :
       /\ {k \in Keys : entries[k] # None} \subseteq K
       /\ cleaner' = [Asleep EXCEPT !.pc = "range", !.now = clock, !.todo = K]
  /\ UNCHANGED <<clock, mu, entries, holder, bucket, request, admitted, crossed>>

\* Mutant: every bucket the sweep meets is forgotten.
BuggyStale(b, now) == TRUE

Stale(b, now) == now - bucket[b].last > Ttl

\* Range gives the pointer, and lastCheck is read without the mutex.
Visit(k) ==
  /\ cleaner.pc = "range" /\ k \in cleaner.todo
  /\ LET drop == entries[k] # None /\ Stale(entries[k], cleaner.now)
     IN /\ cleaner' = [cleaner EXCEPT !.todo = @ \ {k},
                         !.pc = IF drop THEN "entry" ELSE "range",
                         !.key = IF drop THEN k ELSE None]
        /\ crossed' = IF drop /\ \E r \in Requests : request[r].key = k
                      THEN crossed \cup {k} ELSE crossed
  /\ UNCHANGED <<clock, mu, entries, holder, bucket, request, admitted>>

\* What nobody points to any more is as good as new.
DropEntry ==
  /\ cleaner.pc = "entry"
  /\ entries' = [entries EXCEPT ![cleaner.key] = None]
  /\ LET b == entries[cleaner.key]
     IN bucket' = IF \E r \in Requests : request[r].bucket = b THEN bucket
                  ELSE [bucket EXCEPT ![b] = NoBucket]
  /\ cleaner' = [cleaner EXCEPT !.pc = "mutex"]
  /\ UNCHANGED <<clock, mu, holder, request, admitted, crossed>>

DropMutex ==
  /\ cleaner.pc = "mutex"
  /\ mu' = [mu EXCEPT ![cleaner.key] = None]
  /\ cleaner' = [cleaner EXCEPT !.pc = "range", !.key = None]
  /\ UNCHANGED <<clock, entries, holder, bucket, request, admitted, crossed>>

EndSweep ==
  /\ cleaner.pc = "range" /\ cleaner.todo = {}
  /\ cleaner' = Asleep
  /\ UNCHANGED <<clock, mu, entries, holder, bucket, request, admitted, crossed>>

Allow(r) ==
  \/ Lock(r) \/ ReadClock(r) \/ StoreBucket(r) \/ LoadBucket(r)
  \/ Refill(r) \/ Take(r) \/ Refuse(r)

Next ==
  \/ Tick \/ StartSweep \/ DropEntry \/ DropMutex \/ EndSweep
  \/ \E k \in Keys : Visit(k)
  \/ \E r \in Requests : Allow(r) \/ \E k \in Keys : FindMutex(r, k)

\* The scheduler runs every goroutine, and a sync.Mutex that is unlocked again
\* and again goes to each that waits for it in the end (starvation mode).
Fairness == \A r \in Requests : SF_vars(Lock(r)) /\ WF_vars(Allow(r))

Spec == Init /\ [][Next]_vars
FairSpec == Spec /\ Fairness
-----------------------------------------------------------------------------
(***************************************************************************)
(* What the limiter promises.  A key that is forgotten while a request for *)
(* it is under way is the exception to all of it.                          *)
(***************************************************************************)
\* "Per-key mutex so concurrent requests for the same key are serialized."
Serialized ==
  \A r, q \in Requests :
    /\ r # q /\ request[r].key = request[q].key
    /\ request[r].pc \in Locked /\ request[q].pc \in Locked
    => request[r].key \in crossed

\* What a bucket gives from a to b, if it is full at a.
Allowance(a, b) == Limit + Rate * (b - a)
AdmittedIn(k, a, b) == SumFunctionOnSet(admitted[k], a..b)

\* In no interval are more requests for a key allowed than a bucket that is
\* full at its start holds and gets, although buckets are forgotten and made
\* anew (allow, cleanup).
WithinLimit ==
  \A k \in Keys \ crossed : \A a, b \in Times :
    a <= b => AdmittedIn(k, a, b) <= Allowance(a, b)

\* A request is refused only when allowing it would break the limit
\* (TestRateLimitAllowsUnderLimit).
RefusedWhenSpent ==
  [][\A r \in Requests :
       LET k == request[r].key
           now == request[r].now
       IN At(r, "take") /\ request'[r].pc = "idle" /\ admitted' = admitted =>
            \/ k \in crossed
            \/ \E a \in 0..now : AdmittedIn(k, a, now) + Token > Allowance(a, now)]_vars

\* Every call of allow returns, however many requests share its key.
AllowReturns == \A r \in Requests : At(r, "lock") ~> At(r, "idle")
=============================================================================
