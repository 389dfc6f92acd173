--------------------------- MODULE RateLimitProofs ---------------------------
(***************************************************************************)
(* The bounds of the rate limiter for every capacity, refill and window.   *)
(* WindowInv counts what a Redis counter may still let in: a handler       *)
(* between INCR and EXPIRE holds one of its places.  BucketInv is the      *)
(* bound of the bucket with the tokens that are left added to it, at the   *)
(* tick they were last counted.  RateInv counts back from the tick the     *)
(* counter may have opened at: every window before it let in at most       *)
(* Capacity, and outside production every worker its bucket's share.       *)
(***************************************************************************)
EXTENDS RateLimit, TLAPS

Holds(r) == pc[r] = "expire"

WindowInv ==
    /\ inWindow <= count /\ inWindow <= Capacity
    /\ \A r \in Requests : Holds(r) =>
          /\ inWindow < count /\ inWindow < Capacity
          /\ expiry = NoExpiry
          /\ \A q \in Requests : Holds(q) => q = r

BucketInv ==
    \A t \in Ticks :
        /\ t <= bucket.last =>
              byBucket[t] + bucket.tokens <= Capacity + Refill * (bucket.last - t)
        /\ t > bucket.last => byBucket[t] = 0

(* A tick the current counter was not opened before, as its expiry shows.  *)
MayHaveOpened(tick) ==
    /\ tick <= now
    /\ expiry # NoExpiry => expiry >= tick + Window

Buckets(t) == IF production THEN 0 ELSE byBucket[t] + restarts * Share(t)

WindowsBefore(tick) ==
    \A t \in 0..now, m \in Nat :
        tick <= t + m * Window => since[t] <= inWindow + Capacity * m + Buckets(t)

NothingAhead == \A t \in Ticks : t > now => since[t] = 0

RateInv ==
    /\ NothingAhead
    /\ \E tick \in Nat : MayHaveOpened(tick) /\ WindowsBefore(tick)

-----------------------------------------------------------------------------
(* What _consume leaves in the bucket.                                     *)
LEMMA TokensType == TypeOK => Tokens \in 0..Capacity
<1> SUFFICES ASSUME TypeOK PROVE Tokens \in 0..Capacity
  OBVIOUS
<1>1. /\ now - bucket.last \in Nat /\ bucket.tokens \in Nat
      /\ Refill \in Nat /\ Capacity \in Nat
  BY RateAssumption DEF TypeOK, Ticks
<1>2. (now - bucket.last) * Refill \in Nat
  BY <1>1
<1> QED BY <1>1, <1>2 DEF Tokens, Least

LEMMA CountedType ==
    ASSUME NEW history \in [Ticks -> Nat], now \in Ticks
    PROVE  Counted(history) \in [Ticks -> Nat]
BY DEF Counted, Ticks

LEMMA ConsumeType ==
    ASSUME TypeOK, NEW r \in Requests, Consume(r)
    PROVE  /\ bucket' \in [tokens : 0..Capacity, last : Ticks] /\ bucket'.last <= now
           /\ pc' \in [Requests -> {"arrived", "expire", "admitted", "denied", "lost"}]
           /\ since' \in [Ticks -> Nat] /\ byBucket' \in [Ticks -> Nat]
<1>1. Tokens \in 0..Capacity
  BY TokensType
<1>2. now \in Ticks /\ now <= now /\ Capacity \in Nat
  BY RateAssumption DEF TypeOK, Ticks
<1>3. /\ Counted(since) \in [Ticks -> Nat]
      /\ Counted(byBucket) \in [Ticks -> Nat]
  BY CountedType DEF TypeOK
<1>4. CASE Tokens >= 1
  <2>1. bucket' = [tokens |-> Tokens - 1, last |-> now]
        /\ since' = Counted(since) /\ byBucket' = Counted(byBucket)
    BY <1>1, <1>2, <1>4 DEF Consume
  <2>2. Tokens - 1 \in 0..Capacity
    BY <1>1, <1>2, <1>4
  <2> QED BY <1>2, <1>3, <2>1, <2>2 DEF Consume, Answer, TypeOK
<1>5. CASE ~(Tokens >= 1)
  <2>1. bucket' = [tokens |-> Tokens, last |-> now] /\ UNCHANGED <<since, byBucket>>
    BY <1>5 DEF Consume
  <2> QED BY <1>1, <1>2, <2>1 DEF Consume, Answer, TypeOK
<1> QED BY <1>4, <1>5

(* The clock, the counter and the bucket stay within what the code holds.  *)
THEOREM TypeCorrect == Spec => []TypeOK
<1>1. Init => TypeOK
  BY RateAssumption DEF Init, TypeOK, FullBucket, Ticks
<1>2. TypeOK /\ [Next]_vars => TypeOK'
  <2> SUFFICES ASSUME TypeOK, [Next]_vars PROVE TypeOK'
    OBVIOUS
  <2>a. /\ Capacity \in Nat \ {0} /\ Window \in Nat /\ MaxTime \in Nat /\ MaxFaults \in Nat
        /\ now \in 0..MaxTime /\ now \in Nat
    BY RateAssumption DEF TypeOK, Ticks
  <2>1. CASE Tick
    <3>1. now' \in Ticks /\ now' = now + 1
      BY <2>a, <2>1 DEF Tick, Ticks
    <3>2. bucket'.last <= now'
      BY <2>a, <2>1, <3>1 DEF Tick, TypeOK, Ticks
    <3>3. count' \in Nat /\ expiry' \in Nat \cup {NoExpiry} /\ inWindow' \in Nat
      BY <2>1 DEF Tick, TypeOK
    <3> QED BY <2>1, <3>1, <3>2, <3>3 DEF Tick, TypeOK
  <2>2. CASE Restart
    <3>1. bucket' \in [tokens : 0..Capacity, last : Ticks] /\ bucket'.last <= now
      BY <2>a, <2>2 DEF Restart, FullBucket, Ticks
    <3>2. faults' \in 0..MaxFaults
      BY <2>a, <2>2 DEF Restart, TypeOK
    <3>3. pc' \in [Requests -> {"arrived", "expire", "admitted", "denied", "lost"}]
      BY <2>2 DEF Restart, TypeOK
    <3>4. byBucket' \in [Ticks -> Nat]
      BY <2>2 DEF Restart
    <3> QED BY <2>2, <3>1, <3>2, <3>3, <3>4 DEF Restart, TypeOK
  <2>v. ASSUME NEW r \in Requests, NEW n \in Nat, Verdict(r, n)
        PROVE  /\ pc' \in [Requests -> {"arrived", "expire", "admitted", "denied", "lost"}]
               /\ inWindow' \in Nat /\ since' \in [Ticks -> Nat]
    BY <2>v, CountedType DEF Verdict, Answer, TypeOK
  <2>3. ASSUME NEW r \in Requests, Incr(r) PROVE TypeOK'
    <3>1. CASE count = 0
      BY <2>3, <3>1 DEF Incr, TypeOK
    <3>2. CASE count # 0
      <4>1. count + 1 \in Nat /\ Verdict(r, count + 1)
        BY <2>3, <3>2 DEF Incr, TypeOK
      <4> QED BY <2>3, <2>v, <3>2, <4>1 DEF Incr, TypeOK
    <3> QED BY <3>1, <3>2
  <2>4. ASSUME NEW r \in Requests, FailOver(r)
        PROVE  /\ faults' \in 0..MaxFaults /\ restarts \in 0..faults'
               /\ bucket' \in [tokens : 0..Capacity, last : Ticks] /\ bucket'.last <= now
               /\ pc' \in [Requests -> {"arrived", "expire", "admitted", "denied", "lost"}]
               /\ since' \in [Ticks -> Nat] /\ byBucket' \in [Ticks -> Nat]
    <3>1. faults' \in 0..MaxFaults /\ restarts \in 0..faults'
      BY <2>a, <2>4 DEF FailOver, TypeOK
    <3>2. CASE production
      BY <2>4, <3>1, <3>2 DEF FailOver, Answer, TypeOK
    <3>3. CASE ~production
      <4>1. Consume(r)
        BY <2>4, <3>3 DEF FailOver
      <4> QED BY <3>1, <4>1, ConsumeType
    <3> QED BY <3>2, <3>3
  <2>5. ASSUME NEW r \in Requests, IncrRaises(r) PROVE TypeOK'
    <3>1. FailOver(r) /\ count' \in Nat
      BY <2>5 DEF IncrRaises, TypeOK
    <3> QED BY <2>4, <2>5, <3>1 DEF IncrRaises, TypeOK
  <2>6. ASSUME NEW r \in Requests, Expire(r) PROVE TypeOK'
    <3>1. Verdict(r, 1) /\ expiry' \in Nat
      BY <2>a, <2>6 DEF Expire, SetExpiry
    <3> QED BY <2>6, <2>v, <3>1 DEF Expire, TypeOK
  <2>7. ASSUME NEW r \in Requests, ExpireRaises(r) PROVE TypeOK'
    <3>1. FailOver(r) /\ expiry' \in Nat \cup {NoExpiry}
      BY <2>a, <2>7 DEF ExpireRaises, SetExpiry, TypeOK
    <3> QED BY <2>4, <2>7, <3>1 DEF ExpireRaises, TypeOK
  <2>8. CASE UNCHANGED vars
    BY <2>8 DEF vars, TypeOK
  <2> QED BY <2>1, <2>2, <2>3, <2>5, <2>6, <2>7, <2>8 DEF Next
<1> QED BY <1>1, <1>2, PTL DEF Spec
-----------------------------------------------------------------------------
(* A handler between INCR and EXPIRE holds a place of its counter, and no  *)
(* other handler can hold one: the counter cannot expire under it.         *)
LEMMA WindowStep == TypeOK /\ WindowInv /\ [Next]_vars => WindowInv'
<1> SUFFICES ASSUME TypeOK, WindowInv, [Next]_vars PROVE WindowInv'
  OBVIOUS
<1>0. Capacity \in Nat \ {0} /\ count \in Nat /\ inWindow \in Nat /\ now \in Nat
  BY RateAssumption DEF TypeOK, Ticks
<1>1. CASE Tick
  <2>1. CASE expiry = now + 1
    <3>1. \A r \in Requests : ~Holds(r)
      BY <1>0, <2>1, RateAssumption DEF WindowInv
    <3>2. \A r \in Requests : ~Holds(r)'
      BY <1>1, <3>1 DEF Tick, Holds
    <3> QED BY <1>0, <1>1, <2>1, <3>2 DEF Tick, WindowInv
  <2>2. CASE expiry # now + 1
    BY <1>1, <2>2 DEF Tick, WindowInv, Holds
  <2> QED BY <2>1, <2>2
<1>2. CASE Restart
  <2>1. \A r \in Requests : ~Holds(r)'
    BY <1>2 DEF Restart, Holds
  <2> QED BY <1>2, <2>1 DEF Restart, WindowInv
<1>3. ASSUME NEW r \in Requests, Incr(r) PROVE WindowInv'
  <2>1. CASE count = 0
    <3>1. inWindow = 0 /\ (\A q \in Requests : ~Holds(q))
      BY <1>0, <2>1 DEF WindowInv
    <3>2. \A q \in Requests : Holds(q)' => q = r
      BY <1>3, <2>1, <3>1 DEF Incr, Holds, TypeOK
    <3> QED BY <1>0, <1>3, <2>1, <3>1, <3>2 DEF Incr, WindowInv
  <2>2. CASE count # 0
    <3>1. Verdict(r, count + 1) /\ count' = count + 1 /\ UNCHANGED expiry
      BY <1>3, <2>2 DEF Incr
    <3>2. \A q \in Requests : Holds(q)' <=> Holds(q)
      BY <1>3, <3>1 DEF Incr, Verdict, Answer, Holds, TypeOK
    <3>3. CASE Within(count + 1) /\ inWindow' = inWindow + 1
      <4>1. count + 1 <= Capacity
        BY <3>3 DEF Within
      <4> QED BY <1>0, <3>1, <3>2, <3>3, <4>1 DEF WindowInv
    <3>4. CASE inWindow' = inWindow
      BY <1>0, <3>1, <3>2, <3>4 DEF WindowInv
    <3> QED BY <3>1, <3>3, <3>4 DEF Verdict
  <2> QED BY <2>1, <2>2
<1>4. ASSUME NEW r \in Requests, FailOver(r)
      PROVE  \A q \in Requests : Holds(q)' => Holds(q)
  BY <1>4 DEF FailOver, Consume, Answer, Holds, TypeOK
<1>5. ASSUME NEW r \in Requests, IncrRaises(r) PROVE WindowInv'
  <2>1. count' \in {count, count + 1} /\ UNCHANGED <<expiry, inWindow>>
    BY <1>5 DEF IncrRaises
  <2>2. \A q \in Requests : Holds(q)' => Holds(q)
    BY <1>4, <1>5 DEF IncrRaises
  <2> QED BY <1>0, <2>1, <2>2 DEF WindowInv
<1>6. ASSUME NEW r \in Requests, Expire(r) PROVE WindowInv'
  <2>1. Holds(r) /\ Verdict(r, 1) /\ UNCHANGED count
    BY <1>6 DEF Expire, Holds
  <2>2. \A q \in Requests : ~Holds(q)'
    BY <2>1 DEF WindowInv, Verdict, Answer, Holds, TypeOK
  <2>3. inWindow' \in {inWindow, inWindow + 1}
    BY <2>1 DEF Verdict
  <2>4. inWindow < count /\ inWindow < Capacity
    BY <2>1 DEF WindowInv
  <2> QED BY <1>0, <2>1, <2>2, <2>3, <2>4 DEF WindowInv
<1>7. ASSUME NEW r \in Requests, ExpireRaises(r) PROVE WindowInv'
  <2>1. Holds(r) /\ FailOver(r) /\ UNCHANGED <<count, inWindow>>
    BY <1>7 DEF ExpireRaises, Holds
  <2>2. ~Holds(r)'
    BY <2>1 DEF FailOver, Consume, Answer, Holds, TypeOK
  <2>3. \A q \in Requests : ~Holds(q)'
    BY <1>4, <2>1, <2>2 DEF WindowInv
  <2> QED BY <2>1, <2>3 DEF WindowInv
<1>8. CASE UNCHANGED vars
  BY <1>8 DEF vars, WindowInv, Holds
<1> QED BY <1>1, <1>2, <1>3, <1>5, <1>6, <1>7, <1>8 DEF Next

(* One counter lets in at most Capacity requests, however the handlers     *)
(* interleave at INCR and EXPIRE and whatever Redis loses.                 *)
THEOREM WindowIsBounded == Spec => []WindowBound
<1>1. Init => WindowInv
  BY RateAssumption DEF Init, WindowInv, Holds
<1>2. WindowInv => WindowBound
  BY DEF WindowInv, WindowBound
<1> QED BY <1>1, <1>2, WindowStep, TypeCorrect, PTL DEF Spec

-----------------------------------------------------------------------------
(* Refilling is linear: the interval that ends now is the one that ended   *)
(* when the bucket was last counted, and the time since.                   *)
LEMMA RefillSplits ==
    ASSUME NEW a \in Nat, NEW b \in Nat, NEW t \in Nat, t <= a, a <= b
    PROVE  /\ Refill * (b - t) = Refill * (a - t) + (b - a) * Refill
           /\ (b - a) * Refill \in Nat
           /\ Refill * (a - t) \in Nat
<1>1. PICK m \in Nat, n \in Nat : a = t + m /\ b = a + n
  <2>1. a - t \in Nat /\ b - a \in Nat /\ a = t + (a - t) /\ b = a + (b - a)
    OBVIOUS
  <2> QED BY <2>1
<1>2. a - t = m /\ b - a = n /\ b - t = m + n
  BY <1>1
<1>3. Refill * (m + n) = Refill * m + n * Refill /\ n * Refill \in Nat /\ Refill * m \in Nat
  BY <1>1, RateAssumption
<1> QED BY <1>2, <1>3

LEMMA RefillType ==
    ASSUME NEW a \in Nat, NEW b \in Nat, a <= b
    PROVE  (b - a) * Refill \in Nat /\ Refill * (b - a) \in Nat
<1>1. PICK n \in Nat : b - a = n
  OBVIOUS
<1>2. n * Refill \in Nat /\ Refill * n \in Nat
  BY RateAssumption
<1> QED BY <1>1, <1>2

(* What _consume takes from the bucket it adds to every interval begun.    *)
LEMMA ConsumeKeepsBucket ==
    ASSUME TypeOK, BucketInv, NEW r \in Requests, Consume(r)
    PROVE  BucketInv'
<1> SUFFICES ASSUME NEW t \in Ticks
             PROVE  /\ t <= bucket'.last =>
                         byBucket'[t] + bucket'.tokens <= Capacity + Refill * (bucket'.last - t)
                    /\ t > bucket'.last => byBucket'[t] = 0
  BY DEF BucketInv
<1>1. /\ now \in Nat /\ bucket.last \in Nat /\ bucket.last <= now /\ bucket.tokens \in Nat
      /\ t \in Nat /\ byBucket[t] \in Nat /\ Capacity \in Nat
  BY RateAssumption DEF TypeOK, Ticks
<1>2. Tokens \in 0..Capacity /\ Tokens <= bucket.tokens + (now - bucket.last) * Refill
  <2>1. (now - bucket.last) * Refill \in Nat
    BY <1>1, RefillType
  <2> QED BY <1>1, <2>1, TokensType DEF Tokens, Least
<1>3. bucket'.last = now /\ bucket'.tokens \in {Tokens, Tokens - 1}
  BY DEF Consume
<1>4. t <= now => byBucket'[t] + bucket'.tokens = byBucket[t] + Tokens
  BY <1>1, <1>2 DEF Consume, Counted
<1>5. t > now => byBucket'[t] = byBucket[t]
  BY <1>1 DEF Consume, Counted
<1>6. CASE t <= bucket.last
  <2>1. byBucket[t] + bucket.tokens <= Capacity + Refill * (bucket.last - t)
    BY <1>6 DEF BucketInv
  <2>2. /\ Refill * (now - t) = Refill * (bucket.last - t) + (now - bucket.last) * Refill
        /\ (now - bucket.last) * Refill \in Nat /\ Refill * (bucket.last - t) \in Nat
    BY <1>1, <1>6, RefillSplits
  <2> QED BY <1>1, <1>2, <1>3, <1>4, <1>6, <2>1, <2>2
<1>7. CASE bucket.last < t /\ t <= now
  <2>1. byBucket[t] = 0
    BY <1>7 DEF BucketInv
  <2>2. Refill * (now - t) \in Nat
    BY <1>1, <1>7, RefillType
  <2> QED BY <1>1, <1>2, <1>3, <1>4, <1>7, <2>1, <2>2
<1>8. CASE t > now
  BY <1>1, <1>3, <1>5, <1>8 DEF BucketInv
<1> QED BY <1>1, <1>6, <1>7, <1>8

LEMMA BucketStep == TypeOK /\ BucketInv /\ [Next]_vars => BucketInv'
<1> SUFFICES ASSUME TypeOK, BucketInv, [Next]_vars PROVE BucketInv'
  OBVIOUS
<1>1. CASE UNCHANGED <<bucket, byBucket>>
  BY <1>1 DEF BucketInv
<1>2. CASE Restart
  <2>1. /\ bucket'.last = now /\ bucket'.tokens = Capacity
        /\ \A t \in Ticks : byBucket'[t] = 0
    BY <1>2 DEF Restart, FullBucket
  <2> SUFFICES ASSUME NEW t \in Ticks, t <= now
               PROVE  0 + Capacity <= Capacity + Refill * (now - t)
    BY <2>1 DEF BucketInv
  <2>2. now \in Nat /\ t \in Nat /\ Capacity \in Nat
    BY RateAssumption DEF TypeOK, Ticks
  <2>3. Refill * (now - t) \in Nat
    BY <2>2, RefillType
  <2> QED BY <2>2, <2>3
<1>3. ASSUME NEW r \in Requests, FailOver(r) PROVE BucketInv'
  <2>1. CASE production
    BY <1>1, <1>3, <2>1 DEF FailOver
  <2>2. CASE ~production
    BY <1>3, <2>2, ConsumeKeepsBucket DEF FailOver
  <2> QED BY <2>1, <2>2
<1> QED BY <1>1, <1>2, <1>3 DEF Next, Tick, Incr, IncrRaises, Expire, ExpireRaises, vars

(* Over every interval the bucket of a worker lets in at most a full       *)
(* bucket and what the interval refills.                                   *)
THEOREM BucketIsBounded == Spec => []BucketBound
<1>1. Init => BucketInv
  <2> SUFFICES ASSUME Init PROVE BucketInv
    OBVIOUS
  <2>1. bucket.last = 0 /\ bucket.tokens = Capacity /\ (\A t \in Ticks : byBucket[t] = 0)
    BY DEF Init, FullBucket
  <2> SUFFICES ASSUME NEW t \in Ticks, t <= 0
               PROVE  0 + Capacity <= Capacity + Refill * (0 - t)
    BY <2>1 DEF BucketInv
  <2>2. t = 0 /\ Capacity \in Nat /\ Refill \in Nat
    BY RateAssumption DEF Ticks
  <2> QED BY <2>2
<1>2. TypeOK /\ BucketInv => BucketBound
  <2> SUFFICES ASSUME TypeOK, BucketInv, NEW t \in 0..now
               PROVE  byBucket[t] <= Capacity + Refill * (now - t)
    BY DEF BucketBound, Share
  <2>1. /\ t \in Ticks /\ t \in Nat /\ now \in Nat /\ t <= now /\ byBucket[t] \in Nat
        /\ bucket.last \in Nat /\ bucket.last <= now /\ bucket.tokens \in Nat
        /\ Capacity \in Nat
    BY RateAssumption DEF TypeOK, Ticks
  <2>2. CASE t <= bucket.last
    <3>1. byBucket[t] + bucket.tokens <= Capacity + Refill * (bucket.last - t)
      BY <2>1, <2>2 DEF BucketInv
    <3>2. /\ Refill * (now - t) = Refill * (bucket.last - t) + (now - bucket.last) * Refill
          /\ (now - bucket.last) * Refill \in Nat /\ Refill * (bucket.last - t) \in Nat
      BY <2>1, <2>2, RefillSplits
    <3> QED BY <2>1, <3>1, <3>2
  <2>3. CASE t > bucket.last
    <3>1. byBucket[t] = 0
      BY <2>1, <2>3 DEF BucketInv
    <3>2. Refill * (now - t) \in Nat
      BY <2>1, RefillType
    <3> QED BY <2>1, <3>1, <3>2
  <2> QED BY <2>1, <2>2, <2>3
<1> QED BY <1>1, <1>2, BucketStep, TypeCorrect, PTL DEF Spec
-----------------------------------------------------------------------------
LEMMA RateTypes ==
    ASSUME TypeOK
    PROVE  /\ now \in Nat /\ inWindow \in Nat /\ Capacity \in Nat /\ Window \in Nat
           /\ Window >= 1 /\ restarts \in Nat
           /\ 0..now \subseteq Ticks
           /\ \A t \in Ticks : t \in Nat /\ since[t] \in Nat /\ byBucket[t] \in Nat
           /\ \A m \in Nat : Capacity * m \in Nat /\ m * Window \in Nat
BY RateAssumption DEF TypeOK, Ticks

LEMMA Products ==
    ASSUME NEW m \in Nat, NEW n \in Nat
    PROVE  m * n \in Nat /\ (m + 1) * n = m * n + n
OBVIOUS

LEMMA ShareType ==
    ASSUME TypeOK, NEW t \in 0..now
    PROVE  Share(t) \in Nat /\ restarts * Share(t) \in Nat /\ Buckets(t) \in Nat
<1>1. Refill * (now - t) \in Nat
  <2>1. t \in Nat /\ now \in Nat /\ t <= now
    BY RateTypes
  <2> QED BY <2>1, RefillType
<1>2. Share(t) \in Nat
  BY <1>1, RateTypes DEF Share
<1> HIDE DEF Share
<1>3. restarts * Share(t) \in Nat
  <2>1. restarts \in Nat
    BY RateTypes
  <2> QED BY <1>2, <2>1, Products
<1> QED BY <1>2, <1>3, RateTypes DEF Buckets

(* Time only adds to the share of a bucket.                                *)
LEMMA ShareGrows ==
    ASSUME TypeOK, NEW t \in 0..now, now' = now + 1
    PROVE  Share(t)' \in Nat /\ restarts * Share(t) <= restarts * Share(t)'
<1>1. Refill * (now - t) \in Nat /\ Refill * (now + 1 - t) = Refill * (now - t) + Refill
  <2>1. now - t \in Nat /\ now + 1 - t = (now - t) + 1 /\ Refill \in Nat
    BY RateTypes, RateAssumption
  <2>2. \A n \in Nat : Refill * (n + 1) = Refill * n + Refill /\ Refill * n \in Nat
    BY <2>1
  <2> QED BY <2>1, <2>2
<1>2. Share(t)' = Share(t) + Refill /\ Share(t) \in Nat /\ Refill \in Nat
  BY <1>1, RateTypes, RateAssumption DEF Share
<1> HIDE DEF Share
<1>3. ASSUME NEW a \in Nat, NEW b \in Nat, NEW c \in Nat PROVE c * a <= c * (a + b)
  <2>1. c * (a + b) = c * a + c * b /\ c * a \in Nat /\ c * b \in Nat
    OBVIOUS
  <2> QED BY <2>1
<1> QED BY <1>2, <1>3, RateTypes

(* A request is counted in every interval that has begun.                  *)
LEMMA VerdictCounts ==
    ASSUME TypeOK, NothingAhead, NEW r \in Requests, NEW n \in Nat, Verdict(r, n)
    PROVE  /\ \A t \in Ticks : t > now => since'[t] = 0
           /\ \A t \in Ticks : since'[t] - since[t] <= inWindow' - inWindow
           /\ inWindow' \in Nat /\ \A t \in Ticks : since'[t] \in Nat
<1>1. CASE Within(n) /\ inWindow' = inWindow + 1 /\ since' = Counted(since)
  BY <1>1, RateTypes DEF Counted, NothingAhead
<1>2. CASE UNCHANGED <<inWindow, since>>
  BY <1>2, RateTypes DEF NothingAhead
<1> QED BY <1>1, <1>2 DEF Verdict

(* What _consume lets in is counted with the bucket that let it in.        *)
LEMMA FailOverCounts ==
    ASSUME TypeOK, NothingAhead, NEW r \in Requests, FailOver(r)
    PROVE  /\ \A t \in Ticks : t > now => since'[t] = 0
           /\ \A t \in Ticks : since'[t] \in Nat /\ byBucket'[t] \in Nat
           /\ production => since' = since
           /\ \A t \in Ticks : since'[t] - since[t] = byBucket'[t] - byBucket[t]
<1>1. \/ UNCHANGED <<since, byBucket>>
      \/ ~production /\ since' = Counted(since) /\ byBucket' = Counted(byBucket)
  BY DEF FailOver, Consume
<1>2. CASE UNCHANGED <<since, byBucket>>
  BY <1>2, RateTypes DEF NothingAhead
<1>3. CASE ~production /\ since' = Counted(since) /\ byBucket' = Counted(byBucket)
  <2>1. ASSUME NEW t \in Ticks, t <= now
        PROVE  since'[t] = since[t] + 1 /\ byBucket'[t] = byBucket[t] + 1
    BY <1>3, <2>1 DEF Counted
  <2>2. ASSUME NEW t \in Ticks, t > now
        PROVE  since'[t] = since[t] /\ byBucket'[t] = byBucket[t]
    BY <1>3, <2>2, RateTypes DEF Counted
  <2>3. ASSUME NEW t \in Ticks
        PROVE  /\ t > now => since'[t] = 0
               /\ since'[t] \in Nat /\ byBucket'[t] \in Nat
               /\ since'[t] - since[t] = byBucket'[t] - byBucket[t]
    <3>1. t \in Nat /\ now \in Nat /\ since[t] \in Nat /\ byBucket[t] \in Nat
      BY RateTypes
    <3>2. CASE t <= now
      BY <2>1, <3>1, <3>2
    <3>3. CASE t > now
      BY <2>2, <3>1, <3>3 DEF NothingAhead
    <3> QED BY <3>1, <3>2, <3>3
  <2> QED BY <1>3, <2>3
<1> QED BY <1>1, <1>2, <1>3

(* What opens no window and lets in no more than it counts, in the counter *)
(* or in a bucket, keeps the count of the windows.                         *)
LEMMA CountKeepsRate ==
    ASSUME TypeOK, RateInv, UNCHANGED <<now, production>>,
           expiry' \in {expiry, NoExpiry, now + Window},
           inWindow' \in Nat, \A t \in Ticks : since'[t] \in Nat,
           \A t \in Ticks : t > now => since'[t] = 0,
           \A t \in 0..now : /\ Buckets(t)' \in Nat
                            /\ since'[t] - since[t] <=
                                   (inWindow' - inWindow) + (Buckets(t)' - Buckets(t))
    PROVE  RateInv'
<1>1. NothingAhead'
  BY DEF NothingAhead
<1>2. PICK tick \in Nat : MayHaveOpened(tick) /\ WindowsBefore(tick)
  BY DEF RateInv
<1>3. MayHaveOpened(tick)'
  BY <1>2, RateTypes DEF MayHaveOpened
<1>4. WindowsBefore(tick)'
  <2> SUFFICES ASSUME NEW t \in 0..now, NEW m \in Nat, tick <= t + m * Window
               PROVE  since'[t] <= inWindow' + Capacity * m + Buckets(t)'
    BY DEF WindowsBefore
  <2>1. since[t] <= inWindow + Capacity * m + Buckets(t)
    BY <1>2 DEF WindowsBefore
  <2>2. /\ since'[t] - since[t] <= (inWindow' - inWindow) + (Buckets(t)' - Buckets(t))
        /\ Buckets(t)' \in Nat /\ Buckets(t) \in Nat
    BY ShareType
  <2> HIDE DEF Buckets
  <2> QED BY <2>1, <2>2, RateTypes
<1> QED BY <1>1, <1>3, <1>4 DEF RateInv

(* An expiry opens a window at its tick: nothing is counted from it on,    *)
(* and the windows before it are those before the old one and that one.    *)
LEMMA TickKeepsRate == ASSUME TypeOK, WindowInv, RateInv, Tick PROVE RateInv'
<1>1. now' = now + 1 /\ UNCHANGED <<since, byBucket, restarts, production>>
  BY DEF Tick
<1>2. NothingAhead'
  BY <1>1, RateTypes DEF RateInv, NothingAhead
<1>3. PICK tick \in Nat : MayHaveOpened(tick) /\ WindowsBefore(tick)
  BY DEF RateInv
<1>4. now + 1 \in Ticks
  BY RateTypes, RateAssumption DEF Tick, Ticks
<1>5. \A t \in 0..now : Buckets(t) \in Nat /\ Buckets(t)' \in Nat /\ Buckets(t) <= Buckets(t)'
  <2> SUFFICES ASSUME NEW t \in 0..now
               PROVE  Buckets(t) \in Nat /\ Buckets(t)' \in Nat /\ Buckets(t) <= Buckets(t)'
    OBVIOUS
  <2>1. Share(t)' \in Nat /\ restarts * Share(t) <= restarts * Share(t)'
    BY <1>1, ShareGrows
  <2>2. restarts * Share(t) \in Nat /\ Buckets(t) \in Nat
    BY ShareType
  <2> PICK later \in Nat : later = Share(t)'
    BY <2>1
  <2>3. restarts * later \in Nat
    <3>1. restarts \in Nat
      BY RateTypes
    <3> QED BY <3>1, Products
  <2>4. Buckets(t)' = IF production THEN 0 ELSE byBucket[t] + restarts * later
    BY <1>1 DEF Buckets
  <2>5. Buckets(t) = IF production THEN 0 ELSE byBucket[t] + restarts * Share(t)
    BY DEF Buckets
  <2> HIDE DEF Buckets, Share
  <2> QED BY <2>1, <2>2, <2>3, <2>4, <2>5, RateTypes
<1>6. ASSUME NEW t \in Nat, t = now + 1
      PROVE  since[t] = 0 /\ Buckets(t)' \in Nat
  <2>1. since[t] = 0
    BY <1>4, <1>6, RateTypes DEF RateInv, NothingAhead
  <2>2. Share(t)' = Capacity
    <3>1. now' - t = 0 /\ Refill * 0 = 0 /\ Capacity \in Nat
      BY <1>1, <1>6, RateTypes, RateAssumption
    <3> QED BY <3>1 DEF Share
  <2>3. byBucket[t] \in Nat /\ restarts * Capacity \in Nat
    <3>1. byBucket[t] \in Nat /\ restarts \in Nat /\ Capacity \in Nat
      BY <1>4, <1>6, RateTypes
    <3> QED BY <3>1, Products
  <2>4. Buckets(t)' = IF production THEN 0 ELSE byBucket[t] + restarts * Capacity
    BY <1>1, <2>2 DEF Buckets
  <2> QED BY <2>1, <2>3, <2>4
<1> HIDE DEF Buckets
<1>7. CASE expiry # now + 1
  <2>1. inWindow' = inWindow /\ expiry' = expiry
    BY <1>7 DEF Tick
  <2>2. MayHaveOpened(tick)'
    BY <1>1, <1>3, <2>1, RateTypes DEF MayHaveOpened
  <2>3. WindowsBefore(tick)'
    <3> SUFFICES ASSUME NEW t \in 0..(now + 1), NEW m \in Nat, tick <= t + m * Window
                 PROVE  since[t] <= inWindow + Capacity * m + Buckets(t)'
      BY <1>1, <2>1 DEF WindowsBefore
    <3>1. CASE t = now + 1
      BY <1>6, <3>1, RateTypes
    <3>2. CASE t \in 0..now
      <4>1. since[t] <= inWindow + Capacity * m + Buckets(t)
        BY <1>3, <3>2 DEF WindowsBefore
      <4> QED BY <1>5, <3>2, <4>1, RateTypes
    <3> QED BY <3>1, <3>2, RateTypes
  <2> QED BY <1>2, <2>2, <2>3 DEF RateInv
<1>8. CASE expiry = now + 1
  <2>1. expiry' = NoExpiry /\ inWindow' = 0 /\ tick + Window <= now + 1
    BY <1>3, <1>8, RateTypes, RateAssumption DEF Tick, MayHaveOpened
  <2> PICK next \in Nat : next = now + 1
    BY RateTypes
  <2>2. MayHaveOpened(next)'
    BY <1>1, <2>1 DEF MayHaveOpened
  <2>3. WindowsBefore(next)'
    <3> SUFFICES ASSUME NEW t \in 0..(now + 1), NEW m \in Nat, next <= t + m * Window
                 PROVE  since[t] <= 0 + Capacity * m + Buckets(t)'
      BY <1>1, <2>1 DEF WindowsBefore
    <3>1. CASE t = now + 1
      <4>1. since[t] = 0 /\ Buckets(t)' \in Nat
        BY <1>6, <3>1, RateTypes
      <4>2. Capacity * m \in Nat
        BY RateTypes
      <4> QED BY <4>1, <4>2
    <3>2. CASE t \in 0..now
      <4>1. m # 0
        <5>1. m = 0 => m * Window = 0
          BY RateTypes
        <5> QED BY <3>2, <5>1, RateTypes
      <4>2. m - 1 \in Nat
        BY <4>1
      <4>3. /\ m * Window = (m - 1) * Window + Window
            /\ Capacity * m = Capacity * (m - 1) + Capacity
        BY RateTypes
      <4>4. tick <= t + (m - 1) * Window
        BY <2>1, <3>2, <4>2, <4>3, RateTypes
      <4>5. since[t] <= inWindow + Capacity * (m - 1) + Buckets(t)
        BY <1>3, <3>2, <4>2, <4>4 DEF WindowsBefore
      <4>6. inWindow <= Capacity
        BY DEF WindowInv
      <4>7. /\ Capacity * (m - 1) \in Nat /\ Capacity \in Nat
            /\ inWindow \in Nat /\ since[t] \in Nat
        BY <3>2, <4>2, RateTypes
      <4>8. Buckets(t) \in Nat /\ Buckets(t)' \in Nat /\ Buckets(t) <= Buckets(t)'
        BY <1>5, <3>2
      <4> QED BY <4>3, <4>5, <4>6, <4>7, <4>8
    <3> QED BY <3>1, <3>2, RateTypes
  <2> QED BY <1>2, <2>2, <2>3 DEF RateInv
<1> QED BY <1>7, <1>8

(* A restart empties the bucket's count into the share of one more worker. *)
LEMMA RestartKeepsRate ==
    ASSUME TypeOK, TypeOK', BucketBound, RateInv, Restart
    PROVE  RateInv'
<1>1. /\ restarts' = restarts + 1
      /\ UNCHANGED <<now, production, expiry, inWindow, since>>
      /\ \A t \in Ticks : byBucket'[t] = 0
  BY DEF Restart
<1>2. ASSUME NEW t \in 0..now
      PROVE  Buckets(t)' \in Nat /\ Buckets(t) \in Nat /\ Buckets(t) <= Buckets(t)'
  <2> PICK share \in Nat : share = Share(t)
    BY ShareType
  <2>1. byBucket[t] \in Nat /\ byBucket[t] <= share
    BY RateTypes DEF BucketBound
  <2>2. Share(t)' = share
    BY <1>1 DEF Share
  <2>3. (restarts + 1) * share = restarts * share + share /\ restarts * share \in Nat
    <3>1. restarts \in Nat
      BY RateTypes
    <3> QED BY <3>1, Products
  <2>4. Buckets(t) = IF production THEN 0 ELSE byBucket[t] + restarts * share
    BY DEF Buckets
  <2>5. Buckets(t)' = IF production THEN 0 ELSE 0 + (restarts + 1) * share
    BY <1>1, <2>2, RateTypes DEF Buckets
  <2> HIDE DEF Buckets
  <2> QED BY <2>1, <2>3, <2>4, <2>5
<1>3. ASSUME NEW t \in 0..now
      PROVE  /\ Buckets(t)' \in Nat
             /\ since'[t] - since[t] <= (inWindow' - inWindow) + (Buckets(t)' - Buckets(t))
  <2>1. since'[t] - since[t] = 0 /\ inWindow' - inWindow = 0
    BY <1>1, RateTypes
  <2> QED BY <1>2, <2>1
<1>4. /\ inWindow' \in Nat /\ (\A t \in Ticks : since'[t] \in Nat)
      /\ (\A t \in Ticks : t > now => since'[t] = 0)
  BY <1>1, RateTypes DEF RateInv, NothingAhead
<1> QED BY <1>1, <1>3, <1>4, CountKeepsRate

LEMMA RateStep ==
    TypeOK /\ TypeOK' /\ WindowInv /\ BucketBound /\ RateInv /\ [Next]_vars => RateInv'
<1> SUFFICES ASSUME TypeOK, TypeOK', WindowInv, BucketBound, RateInv, [Next]_vars
             PROVE  RateInv'
  OBVIOUS
<1> DEFINE Still == UNCHANGED <<production, now, byBucket, restarts>>
<1>1. CASE Tick
  BY <1>1, TickKeepsRate
<1>2. CASE Restart
  BY <1>2, RestartKeepsRate
<1>3. ASSUME Still PROVE \A t \in 0..now : Buckets(t)' = Buckets(t) /\ Buckets(t) \in Nat
  BY <1>3, ShareType DEF Buckets, Share
<1>4. ASSUME Still, UNCHANGED <<inWindow, since>>, expiry' \in {expiry, NoExpiry}
      PROVE  RateInv'
  <2>1. ASSUME NEW t \in 0..now
        PROVE  /\ Buckets(t)' \in Nat
               /\ since'[t] - since[t] <= (inWindow' - inWindow) + (Buckets(t)' - Buckets(t))
    <3>1. since'[t] - since[t] = 0 /\ inWindow' - inWindow = 0
      BY <1>4, RateTypes
    <3> QED BY <1>3, <1>4, <3>1
  <2>2. /\ inWindow' \in Nat /\ (\A t \in Ticks : since'[t] \in Nat)
        /\ (\A t \in Ticks : t > now => since'[t] = 0)
    BY <1>4, RateTypes DEF RateInv, NothingAhead
  <2> QED BY <1>4, <2>1, <2>2, CountKeepsRate
<1>5. ASSUME Still, NEW r \in Requests, NEW n \in Nat, Verdict(r, n),
             expiry' \in {expiry, NoExpiry, now + Window}
      PROVE  RateInv'
  <2>1. /\ \A t \in Ticks : t > now => since'[t] = 0
        /\ \A t \in Ticks : since'[t] - since[t] <= inWindow' - inWindow
        /\ inWindow' \in Nat /\ \A t \in Ticks : since'[t] \in Nat
    BY <1>5, VerdictCounts DEF RateInv
  <2>2. ASSUME NEW t \in 0..now
        PROVE  /\ Buckets(t)' \in Nat
               /\ since'[t] - since[t] <= (inWindow' - inWindow) + (Buckets(t)' - Buckets(t))
    <3>1. since'[t] - since[t] <= inWindow' - inWindow /\ t \in Ticks
      BY <2>1, RateTypes
    <3>2. Buckets(t)' \in Nat /\ Buckets(t)' - Buckets(t) = 0
      BY <1>3, <1>5
    <3>3. inWindow' - inWindow \in Int
      BY <2>1, RateTypes
    <3> QED BY <3>1, <3>2, <3>3
  <2> QED BY <1>5, <2>1, <2>2, CountKeepsRate
<1>6. ASSUME NEW r \in Requests, Incr(r) PROVE RateInv'
  <2>1. CASE count = 0
    BY <1>4, <1>6, <2>1 DEF Incr
  <2>2. CASE count # 0
    <3>1. count + 1 \in Nat /\ Verdict(r, count + 1)
      BY <1>6, <2>2 DEF Incr, TypeOK
    <3> QED BY <1>5, <1>6, <2>2, <3>1 DEF Incr
  <2> QED BY <2>1, <2>2
<1>7. ASSUME NEW r \in Requests, Expire(r) PROVE RateInv'
  BY <1>5, <1>7 DEF Expire, SetExpiry
<1>8. ASSUME NEW r \in Requests, IncrRaises(r) \/ ExpireRaises(r) PROVE RateInv'
  <2>1. /\ FailOver(r) /\ UNCHANGED <<now, production, restarts, inWindow>>
        /\ expiry' \in {expiry, now + Window}
    BY <1>8 DEF IncrRaises, ExpireRaises, SetExpiry
  <2>2. /\ \A t \in Ticks : t > now => since'[t] = 0
        /\ \A t \in Ticks : since'[t] \in Nat /\ byBucket'[t] \in Nat
        /\ production => since' = since
        /\ \A t \in Ticks : since'[t] - since[t] = byBucket'[t] - byBucket[t]
    BY <2>1, FailOverCounts DEF RateInv
  <2>3. ASSUME NEW t \in 0..now
        PROVE  /\ Buckets(t)' \in Nat /\ Buckets(t) \in Nat
               /\ since'[t] - since[t] <= Buckets(t)' - Buckets(t)
    <3> PICK earlier \in Nat : earlier = restarts * Share(t)
      BY ShareType
    <3>1. Buckets(t) = IF production THEN 0 ELSE byBucket[t] + earlier
      BY DEF Buckets
    <3>2. Buckets(t)' = IF production THEN 0 ELSE byBucket'[t] + earlier
      BY <2>1 DEF Buckets, Share
    <3>3. /\ byBucket[t] \in Nat /\ since[t] \in Nat
          /\ byBucket'[t] \in Nat /\ since'[t] \in Nat
          /\ since'[t] - since[t] = byBucket'[t] - byBucket[t]
          /\ production => since'[t] = since[t]
      BY <2>2, RateTypes
    <3> HIDE DEF Buckets
    <3> QED BY <3>1, <3>2, <3>3
  <2> HIDE DEF Buckets
  <2>4. ASSUME NEW t \in 0..now
        PROVE  /\ Buckets(t)' \in Nat
               /\ since'[t] - since[t] <= (inWindow' - inWindow) + (Buckets(t)' - Buckets(t))
    <3>1. inWindow' - inWindow = 0 /\ since'[t] \in Nat /\ since[t] \in Nat
      BY <2>1, <2>2, RateTypes
    <3> QED BY <2>3, <3>1
  <2>5. inWindow' \in Nat
    BY <2>1, RateTypes
  <2> QED BY <2>1, <2>2, <2>4, <2>5, CountKeepsRate
<1>9. CASE UNCHANGED vars
  BY <1>4, <1>9 DEF vars
<1> QED BY <1>1, <1>2, <1>6, <1>7, <1>8, <1>9 DEF Next

(* Rounding up: so many whole windows cover d ticks.                       *)
LEMMA WindowsCover ==
    ASSUME NEW d \in Nat
    PROVE  /\ (d + Window - 1) \div Window \in Nat
           /\ d <= ((d + Window - 1) \div Window) * Window
<1> DEFINE x == d + Window - 1
           q == x \div Window
<1>1. Window \in Nat /\ Window > 0 /\ x \in Nat
  BY RateAssumption
<1> HIDE DEF x
<1>2. q \in Int /\ x = Window * q + (x % Window) /\ x % Window \in 0..(Window - 1)
  BY <1>1
<1>3. q \in Nat /\ x < (q + 1) * Window
  BY <1>1
<1>4. (q + 1) * Window = q * Window + Window
  BY <1>1, <1>2
<1>5. d <= q * Window
  <2>1. q * Window \in Int
    BY <1>1, <1>2
  <2> HIDE DEF q
  <2> QED BY <1>1, <1>3, <1>4, <2>1 DEF x
<1> QED BY <1>3, <1>5 DEF x

(* In production every interval lets in at most Capacity requests for each *)
(* window it can touch, whatever fails and restarts, and outside it each   *)
(* worker adds at most the share of its bucket.                            *)
THEOREM RateIsBounded == Spec => []WindowRate
<1>1. Init => WindowInv /\ RateInv
  <2> SUFFICES ASSUME Init PROVE WindowInv /\ RateInv
    OBVIOUS
  <2>1. WindowInv /\ NothingAhead
    BY RateAssumption DEF Init, WindowInv, Holds, NothingAhead
  <2>2. MayHaveOpened(0)
    BY RateAssumption DEF Init, MayHaveOpened
  <2>3. WindowsBefore(0)
    <3> SUFFICES ASSUME NEW m \in Nat PROVE 0 <= 0 + Capacity * m + Buckets(0)
      BY RateAssumption DEF Init, WindowsBefore, Ticks
    <3>1. Buckets(0) = 0
      <4>1. Share(0) \in Int
        BY RateAssumption DEF Init, Share
      <4> QED BY <4>1, RateAssumption DEF Init, Buckets, Ticks
    <3>2. Capacity * m \in Nat
      BY RateAssumption
    <3> QED BY <3>1, <3>2
  <2> QED BY <2>1, <2>2, <2>3 DEF RateInv
<1>2. TypeOK /\ WindowInv /\ BucketBound /\ RateInv => WindowRate
  <2> SUFFICES ASSUME TypeOK, WindowInv, BucketBound, RateInv, NEW t \in 0..now
               PROVE  since[t] <= Capacity * WindowsTouched(t)
                                  + (IF production THEN 0 ELSE (restarts + 1) * Share(t))
    BY DEF WindowRate
  <2> DEFINE m == (now - t + Window - 1) \div Window
  <2>1. /\ t \in Ticks /\ now - t \in Nat /\ now <= t + m * Window /\ m \in Nat
    <3>1. t \in Ticks /\ t \in Nat /\ now \in Nat /\ now - t \in Nat
      BY RateTypes
    <3>2. m \in Nat /\ now - t <= m * Window
      BY <3>1, WindowsCover
    <3>3. m * Window \in Nat
      BY <3>2, RateTypes
    <3> HIDE DEF m
    <3> QED BY <3>1, <3>2, <3>3
  <2>2. WindowsTouched(t) = 1 + m
    BY DEF WindowsTouched
  <2> HIDE DEF m
  <2>3. PICK tick \in Nat : MayHaveOpened(tick) /\ WindowsBefore(tick)
    BY DEF RateInv
  <2>4. tick <= t + m * Window
    BY <2>1, <2>3, RateTypes DEF MayHaveOpened
  <2>5. since[t] <= inWindow + Capacity * m + Buckets(t) /\ inWindow <= Capacity
    BY <2>1, <2>3, <2>4 DEF WindowsBefore, WindowInv
  <2>6. Capacity * (1 + m) = Capacity + Capacity * m
    BY <2>1, RateTypes
  <2>7. Buckets(t) <= IF production THEN 0 ELSE (restarts + 1) * Share(t)
    <3> PICK share \in Nat : share = Share(t)
      BY ShareType
    <3>1. byBucket[t] \in Nat /\ byBucket[t] <= share
      BY RateTypes DEF BucketBound
    <3>2. (restarts + 1) * share = restarts * share + share /\ restarts * share \in Nat
      <4>1. restarts \in Nat
        BY RateTypes
      <4> QED BY <4>1, Products
    <3> QED BY <3>1, <3>2 DEF Buckets
  <2>8. Buckets(t) \in Nat /\ (restarts + 1) * Share(t) \in Nat
    <3>1. Buckets(t) \in Nat /\ Share(t) \in Nat /\ restarts + 1 \in Nat
      BY ShareType, RateTypes
    <3> QED BY <3>1, Products
  <2> HIDE DEF Buckets
  <2>9. since[t] \in Nat /\ inWindow \in Nat /\ Capacity \in Nat /\ Capacity * m \in Nat
    BY <2>1, RateTypes
  <2> QED BY <2>2, <2>5, <2>6, <2>7, <2>8, <2>9
<1> QED BY <1>1, <1>2, RateStep, WindowStep, BucketIsBounded, TypeCorrect, PTL DEF Spec
=============================================================================
