------------------------------ MODULE RateLimit ------------------------------
(***************************************************************************)
(* The rate limiter of one (tenant, user, client, path) key                *)
(* (middleware/ratelimit.py): the Redis counter with its expiry, and the   *)
(* token bucket of the worker, which takes over outside production when    *)
(* Redis raises.  The handlers interleave at their awaits on Redis; what   *)
(* runs between two awaits is one action.                                  *)
(* Redis is external: a command that raises may or may not have been       *)
(* applied.  Time is counted in ticks, and a tick refills Refill tokens.   *)
(***************************************************************************)
EXTENDS Integers

CONSTANTS
    Requests,    \* the requests that bear the key
    Capacity,    \* capacity, 60 in main.py
    Refill,      \* tokens refilled in a tick
    Window,      \* the ticks of expire(key, 60)
    NoExpiry,    \* the expiry of a key that has none
    MaxTime,     \* bound: the ticks
    MaxFaults    \* bound: the Redis errors and worker restarts

ASSUME RateAssumption ==
    /\ Capacity \in Nat \ {0} /\ Refill \in Nat /\ Window \in Nat \ {0}
    /\ MaxTime \in Nat /\ MaxFaults \in Nat
    /\ NoExpiry \notin Int

VARIABLES
    production, \* settings.is_production
    now,      \* the clock
    count,    \* the Redis counter, 0 when the key is absent
    expiry,   \* the tick at which Redis drops the key
    bucket,   \* the worker's bucket: its tokens, and when they were counted
    pc,       \* pc[r]: where r is, and the answer it got
    faults,   \* the faults so far
    restarts, \* history: the workers that were restarted
    inWindow, \* history: the requests this counter has let in
    since,    \* since[t]: history: the requests let in from tick t on
    byBucket  \* byBucket[t]: of these, by the bucket of the running worker

vars == <<production, now, count, expiry, bucket, pc, faults, restarts, inWindow,
          since, byBucket>>

Ticks == 0..MaxTime

-----------------------------------------------------------------------------
(* The token bucket: _consume                                              *)

Least(m, n) == IF m <= n THEN m ELSE n

FullBucket == [tokens |-> Capacity, last |-> now]

UncappedTokens == bucket.tokens + (now - bucket.last) * Refill
Tokens == Least(Capacity, bucket.tokens + (now - bucket.last) * Refill)

(* One more request let in, in every interval that has begun. *)
Counted(history) == [t \in Ticks |-> IF t <= now THEN history[t] + 1 ELSE history[t]]

Answer(r, verdict) == pc' = [pc EXCEPT ![r] = verdict]

Consume(r) ==
    \/ /\ Tokens >= 1
       /\ bucket' = [tokens |-> Tokens - 1, last |-> now]
       /\ Answer(r, "admitted")
       /\ since' = Counted(since) /\ byBucket' = Counted(byBucket)
    \/ /\ Tokens < 1
       /\ bucket' = [tokens |-> Tokens, last |-> now]
       /\ Answer(r, "denied")
       /\ UNCHANGED <<since, byBucket>>

(* The except branch of _consume_distributed. *)
FailOver(r) ==
    /\ faults < MaxFaults /\ faults' = faults + 1
    /\ IF production
       THEN Answer(r, "denied") /\ UNCHANGED <<bucket, since, byBucket>>
       ELSE Consume(r)

-----------------------------------------------------------------------------
(* The window counter: _consume_distributed                                *)

WithinOneMore(n) == n <= Capacity + 1
Within(n) == n <= Capacity

Verdict(r, n) ==
    \/ Within(n) /\ Answer(r, "admitted") /\ inWindow' = inWindow + 1 /\ since' = Counted(since)
    \/ ~Within(n) /\ Answer(r, "denied") /\ UNCHANGED <<inWindow, since>>

Incr(r) ==
    /\ pc[r] = "arrived"
    /\ count' = count + 1
    /\ IF count = 0
       THEN /\ expiry' = NoExpiry
            /\ pc' = [pc EXCEPT ![r] = "expire"]
            /\ UNCHANGED <<inWindow, since>>
       ELSE Verdict(r, count + 1) /\ UNCHANGED expiry
    /\ UNCHANGED <<production, now, bucket, faults, restarts, byBucket>>

IncrRaises(r) ==
    /\ pc[r] = "arrived"
    /\ FailOver(r)
    /\ count' \in {count, count + 1}
    /\ UNCHANGED <<production, now, expiry, restarts, inWindow>>

SetExpiryEarly == expiry' = now + Window - 1
SetExpiry == expiry' = now + Window

Expire(r) ==
    /\ pc[r] = "expire"
    /\ SetExpiry
    /\ Verdict(r, 1)
    /\ UNCHANGED <<production, now, count, bucket, faults, restarts, byBucket>>

ExpireRaises(r) ==
    /\ pc[r] = "expire"
    /\ FailOver(r)
    /\ SetExpiry \/ UNCHANGED expiry
    /\ UNCHANGED <<production, now, count, restarts, inWindow>>

(* Redis drops the key when its time has come. *)
Tick ==
    /\ now < MaxTime
    /\ now' = now + 1
    /\ IF expiry = now + 1
       THEN count' = 0 /\ expiry' = NoExpiry /\ inWindow' = 0
       ELSE UNCHANGED <<count, expiry, inWindow>>
    /\ UNCHANGED <<production, bucket, pc, faults, restarts, since, byBucket>>

(* The worker restarts: its handlers end unanswered, its bucket is gone.   *)
Restart ==
    /\ faults < MaxFaults /\ faults' = faults + 1
    /\ restarts' = restarts + 1
    /\ pc' = [r \in Requests |-> IF pc[r] = "expire" THEN "lost" ELSE pc[r]]
    /\ bucket' = FullBucket
    /\ byBucket' = [t \in Ticks |-> 0]
    /\ UNCHANGED <<production, now, count, expiry, inWindow, since>>

Init ==
    /\ production \in BOOLEAN
    /\ now = 0 /\ count = 0 /\ expiry = NoExpiry
    /\ bucket = FullBucket
    /\ pc = [r \in Requests |-> "arrived"]
    /\ faults = 0 /\ restarts = 0 /\ inWindow = 0
    /\ since = [t \in Ticks |-> 0]
    /\ byBucket = [t \in Ticks |-> 0]

Next ==
    \/ Tick \/ Restart
    \/ \E r \in Requests : Incr(r) \/ IncrRaises(r) \/ Expire(r) \/ ExpireRaises(r)

Spec == Init /\ [][Next]_vars

-----------------------------------------------------------------------------
(* Properties                                                              *)

(* The clock, the counter and the bucket stay within what the code holds:  *)
(* a bucket never holds more than its capacity, nor tokens of the future.  *)
TypeOK ==
    /\ production \in BOOLEAN
    /\ now \in Ticks /\ count \in Nat /\ faults \in 0..MaxFaults /\ restarts \in 0..faults
    /\ expiry \in Nat \cup {NoExpiry}
    /\ bucket \in [tokens : 0..Capacity, last : Ticks] /\ bucket.last <= now
    /\ pc \in [Requests -> {"arrived", "expire", "admitted", "denied", "lost"}]
    /\ inWindow \in Nat
    /\ since \in [Ticks -> Nat] /\ byBucket \in [Ticks -> Nat]

(* However the handlers interleave, and whichever answers of Redis are     *)
(* lost, one counter lets in at most Capacity requests from its first INCR *)
(* to its expiry.                                                          *)
WindowBound == inWindow <= Capacity

(* What a full bucket gives out from tick t on. *)
Share(t) == Capacity + Refill * (now - t)

(* The bucket of a worker keeps the token bucket's promise over every      *)
(* interval, not only since the start: a full bucket, and what the         *)
(* interval refills.                                                       *)
BucketBound == \A t \in 0..now : byBucket[t] <= Share(t)

(* The most windows that meet the interval from tick t on. *)
WindowsTouched(t) == 1 + (now - t + Window - 1) \div Window

(* In production every interval lets in at most Capacity requests for each *)
(* window it can touch: no counter expires before its window has passed,   *)
(* and an outage of Redis never adds the bucket's share to the counter's.  *)
(* Outside production the share of each worker comes on top, however the   *)
(* limiter goes back and forth between Redis and its buckets.              *)
WindowRate ==
    \A t \in 0..now :
        since[t] <= Capacity * WindowsTouched(t)
                    + (IF production THEN 0 ELSE (restarts + 1) * Share(t))

=============================================================================
