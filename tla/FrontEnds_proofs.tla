-------------------------- MODULE FrontEnds_proofs --------------------------
(***************************************************************************)
(* Theorems about what serves users: GatewayGuard, for any requesters and  *)
(* any limits for which a bucket that is dropped for its age would have    *)
(* been full, and ChatController, for any prompts and sessions.            *)
(***************************************************************************)
EXTENDS GatewayGuard, ChatController, FiniteSetTheorems, TLAPS

-----------------------------------------------------------------------------
(* The rate limit of the gateway.                                          *)

\* What a bucket b says at time t of the requests s that got past the limit:
\* since each of them no more did than the burst and the refill up to the last
\* use of the bucket, less what the bucket still holds.  A bucket that was
\* dropped is full, and what it was short of was refilled.
Accounts(s, b, t) ==
  \A i \in 1..Len(s) :
    IF b = NoBucket
      THEN s[i] <= t /\ (Len(s) - i + 1) * Cost <= (t - s[i]) * Refill
      ELSE /\ s[i] <= b.at /\ b.at <= t
           /\ (Len(s) - i + 1) * Cost + b.tokens <= Burst * Cost + (b.at - s[i]) * Refill

\* The inductive invariant: memory has no other bucket than the database, whose
\* buckets account for what got past.
Agree == \A k \in Requesters : buckets[k] = NoBucket \/ buckets[k] = rows[k]
Past == \A k \in Requesters : rows[k] # NoBucket => rows[k].at <= clock
RequestsAccounted == \A k \in Requesters : Accounts(passed[k], rows[k], clock)
GuardInv == GuardTypeOK /\ Agree /\ Past /\ RequestsAccounted /\ RateHeld

-----------------------------------------------------------------------------
(* Arithmetic                                                              *)

\* Sums of products.
LEMMA Distributes == \A a, b, c \in Int : (a + b) * c = a * c + b * c
OBVIOUS

\* Products grow with their factors.
LEMMA Grows == \A a, b \in Int, c \in Nat : a <= b => a * c <= b * c
OBVIOUS

\* What the next three lemmas come to, once the products have names.
LEMMA Chains ==
  \A n, x, y, z, burst, ttl, tokens \in Int :
    n + tokens <= burst + y /\ z = x + y /\ 0 <= tokens /\ burst <= ttl /\ ttl <= x => n <= z
OBVIOUS

LEMMA Adds ==
  \A n, x, y, z, burst, tokens, level \in Int :
    n + tokens <= burst + y /\ z = x + y /\ level <= tokens + x => n + level <= burst + z
OBVIOUS

LEMMA Charges ==
  \A n, m, z, burst, cost, level \in Int :
    n + level <= burst + z /\ m = n + cost => m + (level - cost) <= burst + z
OBVIOUS

\* The burst is a number.
LEMMA BurstNat == Burst * Cost \in Nat /\ Ttl * Refill \in Nat /\ Burst * Cost >= Cost
BY RateAssumption

\* No bucket is no record.
LEMMA NoBucketApart == \A b \in Bucket : b # NoBucket /\ b.tokens \in Nat /\ b.at \in Nat
<1> SUFFICES ASSUME NEW b \in Bucket PROVE b # NoBucket /\ b.tokens \in Nat /\ b.at \in Nat
  OBVIOUS
<1>1. b.tokens \in 0..(Burst * Cost) /\ b.at \in 0..MaxTime
  BY DEF Bucket
<1>2. b.tokens \in Nat /\ b.at \in Nat
  BY <1>1
<1>3. b \in [tokens : Nat, at : Nat]
  BY <1>2 DEF Bucket
<1>4. QED
  BY <1>2, <1>3, RateAssumption

-----------------------------------------------------------------------------
(* What is done to one bucket                                              *)

\* Time that passes leaves an account right.
LEMMA AccountLasts ==
  ASSUME NEW s \in Seq(Nat), NEW b \in Bucket \cup {NoBucket}, NEW t \in Nat, NEW u \in Nat,
         Accounts(s, b, t), t <= u
  PROVE  Accounts(s, b, u)
<1> SUFFICES ASSUME NEW i \in 1..Len(s)
             PROVE  IF b = NoBucket
                      THEN s[i] <= u /\ (Len(s) - i + 1) * Cost <= (u - s[i]) * Refill
                      ELSE /\ s[i] <= b.at /\ b.at <= u
                           /\ (Len(s) - i + 1) * Cost + b.tokens
                                <= Burst * Cost + (b.at - s[i]) * Refill
  BY DEF Accounts
<1>1. s[i] \in Nat /\ Len(s) \in Nat
  OBVIOUS
<1>2. CASE b = NoBucket
  <2>1. s[i] <= t /\ (Len(s) - i + 1) * Cost <= (t - s[i]) * Refill
    BY <1>2 DEF Accounts
  <2>2. (t - s[i]) * Refill <= (u - s[i]) * Refill
    BY <1>1, Grows, RateAssumption
  <2>3. (Len(s) - i + 1) * Cost \in Int /\ (t - s[i]) * Refill \in Int /\ (u - s[i]) * Refill \in Int
    BY <1>1, RateAssumption
  <2>4. QED
    BY <1>1, <1>2, <2>1, <2>2, <2>3, SMTT(30)
<1>3. CASE b # NoBucket
  <2>1. b.at \in Nat
    BY <1>3, NoBucketApart
  <2>2. QED
    BY <1>1, <1>3, <2>1 DEF Accounts
<1>4. QED
  BY <1>2, <1>3

\* A bucket that is dropped for its age was full.
LEMMA AccountPruned ==
  ASSUME NEW s \in Seq(Nat), NEW b \in Bucket, NEW t \in Nat, Accounts(s, b, t), t - b.at > Ttl
  PROVE  Accounts(s, NoBucket, t)
<1> SUFFICES ASSUME NEW i \in 1..Len(s)
             PROVE  s[i] <= t /\ (Len(s) - i + 1) * Cost <= (t - s[i]) * Refill
  BY DEF Accounts
<1>1. s[i] \in Nat /\ b.at \in Nat /\ b.tokens \in Nat /\ b # NoBucket
  BY NoBucketApart
<1>2. /\ s[i] <= b.at /\ b.at <= t
      /\ (Len(s) - i + 1) * Cost + b.tokens <= Burst * Cost + (b.at - s[i]) * Refill
  BY <1>1 DEF Accounts
<1>3. Ttl * Refill <= (t - b.at) * Refill
  <2>1. Ttl \in Int /\ (t - b.at) \in Int /\ Ttl <= t - b.at /\ Refill \in Nat
    BY <1>1, RateAssumption
  <2>2. QED
    BY <2>1, Grows
<1>4. ((t - b.at) + (b.at - s[i])) * Refill = (t - b.at) * Refill + (b.at - s[i]) * Refill
  BY <1>1, Distributes, RateAssumption
<1>5. (t - b.at) + (b.at - s[i]) = t - s[i]
  BY <1>1
<1>6. \A x, y \in Int : x * y \in Int
  OBVIOUS
<1>7. /\ (Len(s) - i + 1) \in Int /\ (t - b.at) \in Int /\ (b.at - s[i]) \in Int
      /\ (t - s[i]) \in Int /\ Cost \in Int /\ Refill \in Int
  BY <1>1, RateAssumption, SMTT(30)
<1>8. /\ (Len(s) - i + 1) * Cost \in Int /\ (t - b.at) * Refill \in Int
      /\ (b.at - s[i]) * Refill \in Int /\ (t - s[i]) * Refill \in Int
  BY <1>6, <1>7
<1>9. (t - s[i]) * Refill = (t - b.at) * Refill + (b.at - s[i]) * Refill
  BY <1>4, <1>5
<1>10. Burst * Cost \in Int /\ Ttl * Refill \in Int /\ Burst * Cost <= Ttl * Refill
  BY BurstNat, TtlRefills
<1>11. b.tokens \in Int /\ 0 <= b.tokens
  BY <1>1
<1>12. (Len(s) - i + 1) * Cost <= (t - s[i]) * Refill
  <2>1. PICK n \in Int : n = (Len(s) - i + 1) * Cost
    BY <1>8
  <2>2. PICK x \in Int : x = (t - b.at) * Refill
    BY <1>8
  <2>3. PICK y \in Int : y = (b.at - s[i]) * Refill
    BY <1>8
  <2>4. PICK z \in Int : z = (t - s[i]) * Refill
    BY <1>8
  <2>5. n + b.tokens <= Burst * Cost + y
    BY <1>2, <2>1, <2>3
  <2>6. z = x + y /\ Ttl * Refill <= x
    BY <1>3, <1>9, <2>2, <2>3, <2>4
  <2>7. n <= z
    BY <1>10, <1>11, <2>5, <2>6, Chains
  <2>8. QED
    BY <2>1, <2>4, <2>7
<1>13. QED
  BY <1>1, <1>2, <1>12

\* What a bucket holds after a while.
Filled(b, t) ==
  IF b = NoBucket THEN Burst * Cost
  ELSE IF b.tokens + (t - b.at) * Refill <= Burst * Cost THEN b.tokens + (t - b.at) * Refill
  ELSE Burst * Cost

\* It is within the burst.
LEMMA FilledBounded ==
  ASSUME NEW b \in Bucket \cup {NoBucket}, NEW t \in Nat, b # NoBucket => b.at <= t
  PROVE  Filled(b, t) \in 0..(Burst * Cost)
<1>1. CASE b = NoBucket
  BY <1>1, BurstNat DEF Filled
<1>2. CASE b # NoBucket
  <2>1. b.at \in Nat /\ b.tokens \in Nat /\ t - b.at \in Nat
    BY <1>2, NoBucketApart
  <2>2. (t - b.at) * Refill \in Nat
    BY <2>1, RateAssumption
  <2>3. QED
    BY <1>2, <2>1, <2>2, BurstNat DEF Filled
<1>3. QED
  BY <1>1, <1>2

\* What was refilled may be counted as still there: the account of the bucket at
\* the time of its next use.
LEMMA AccountFilled ==
  ASSUME NEW s \in Seq(Nat), NEW b \in Bucket \cup {NoBucket}, NEW t \in Nat, Accounts(s, b, t),
         NEW i \in 1..Len(s)
  PROVE  /\ s[i] <= t
         /\ (Len(s) - i + 1) * Cost + Filled(b, t) <= Burst * Cost + (t - s[i]) * Refill
<1>1. s[i] \in Nat /\ Len(s) \in Nat
  OBVIOUS
<1>2. (Len(s) - i + 1) * Cost \in Int /\ (t - s[i]) * Refill \in Int
  BY <1>1, RateAssumption
<1>3. CASE b = NoBucket
  BY <1>1, <1>2, <1>3, BurstNat, SMTT(30) DEF Accounts, Filled
<1>4. CASE b # NoBucket
  <2>1. b.at \in Nat /\ b.tokens \in Nat
    BY <1>4, NoBucketApart
  <2>2. /\ s[i] <= b.at /\ b.at <= t
        /\ (Len(s) - i + 1) * Cost + b.tokens <= Burst * Cost + (b.at - s[i]) * Refill
    BY <1>4 DEF Accounts
  <2>3. ((t - b.at) + (b.at - s[i])) * Refill = (t - b.at) * Refill + (b.at - s[i]) * Refill
    BY <1>1, <2>1, Distributes, RateAssumption
  <2>4. (t - b.at) + (b.at - s[i]) = t - s[i]
    BY <1>1, <2>1
  <2>5. (t - b.at) * Refill \in Int /\ (b.at - s[i]) * Refill \in Int
    BY <1>1, <2>1, RateAssumption
  <2>6. Filled(b, t) <= b.tokens + (t - b.at) * Refill
    BY <1>4, <2>1, <2>5, BurstNat DEF Filled
  <2>7. Filled(b, t) \in Int
    BY <2>2, FilledBounded, BurstNat
  <2>8. (t - s[i]) * Refill = (t - b.at) * Refill + (b.at - s[i]) * Refill
    BY <2>3, <2>4
  <2>9. b.tokens \in Int /\ Burst * Cost \in Int
    BY <2>1, BurstNat
  <2>10. (Len(s) - i + 1) * Cost + Filled(b, t) <= Burst * Cost + (t - s[i]) * Refill
    BY <1>2, <2>2, <2>5, <2>6, <2>7, <2>8, <2>9, Adds, SMTT(30)
  <2>11. QED
    BY <1>1, <2>1, <2>2, <2>10
<1>5. QED
  BY <1>3, <1>4

\* The bucket after a request that was refused.
LEMMA AccountRefused ==
  ASSUME NEW s \in Seq(Nat), NEW b \in Bucket \cup {NoBucket}, NEW t \in Nat, Accounts(s, b, t),
         NEW c \in Bucket, c.tokens = Filled(b, t), c.at = t
  PROVE  Accounts(s, c, t)
<1> SUFFICES ASSUME NEW i \in 1..Len(s)
             PROVE  /\ s[i] <= c.at /\ c.at <= t
                    /\ (Len(s) - i + 1) * Cost + c.tokens <= Burst * Cost + (c.at - s[i]) * Refill
  BY NoBucketApart DEF Accounts
<1>1. /\ s[i] <= t
      /\ (Len(s) - i + 1) * Cost + Filled(b, t) <= Burst * Cost + (t - s[i]) * Refill
  BY AccountFilled
<1>2. QED
  BY <1>1

\* The bucket after one that got past.
LEMMA AccountCharged ==
  ASSUME NEW s \in Seq(Nat), NEW b \in Bucket \cup {NoBucket}, NEW t \in Nat, Accounts(s, b, t),
         b # NoBucket => b.at <= t,
         NEW c \in Bucket, c.tokens = Filled(b, t) - Cost, c.at = t
  PROVE  Accounts(Append(s, t), c, t)
<1> DEFINE r == Append(s, t)
<1>1. r \in Seq(Nat) /\ Len(r) = Len(s) + 1 /\ r[Len(s) + 1] = t /\ Len(s) \in Nat
      /\ \A i \in 1..Len(s) : r[i] = s[i] /\ s[i] \in Nat
  OBVIOUS
<1>2. c # NoBucket /\ Filled(b, t) \in Int /\ Filled(b, t) <= Burst * Cost
  BY NoBucketApart, FilledBounded, BurstNat, SMTT(30)
<1> HIDE DEF r
<1> SUFFICES ASSUME NEW i \in 1..Len(r)
             PROVE  /\ r[i] <= t
                    /\ (Len(r) - i + 1) * Cost + (Filled(b, t) - Cost)
                         <= Burst * Cost + (t - r[i]) * Refill
  BY <1>2 DEF Accounts, r
<1>3. CASE i = Len(s) + 1
  <2>1. r[i] = t /\ Len(r) - i + 1 = 1 /\ t - r[i] = 0
    BY <1>1, <1>3
  <2>2. 1 * Cost = Cost /\ 0 * Refill = 0
    BY RateAssumption
  <2>3. QED
    BY <1>2, <2>1, <2>2, BurstNat, RateAssumption, SMTT(30)
<1>4. CASE i \in 1..Len(s)
  <2>1. /\ s[i] <= t
        /\ (Len(s) - i + 1) * Cost + Filled(b, t) <= Burst * Cost + (t - s[i]) * Refill
    BY <1>4, AccountFilled
  <2>2. ((Len(s) - i + 1) + 1) * Cost = (Len(s) - i + 1) * Cost + 1 * Cost
    BY <1>1, Distributes, RateAssumption
  <2>3. Len(r) - i + 1 = (Len(s) - i + 1) + 1 /\ r[i] = s[i] /\ 1 * Cost = Cost
    BY <1>1, <1>4, RateAssumption
  <2>4. (Len(s) - i + 1) * Cost \in Int /\ (t - s[i]) * Refill \in Int
    BY <1>1, <1>4, RateAssumption
  <2>5. (Len(r) - i + 1) * Cost = (Len(s) - i + 1) * Cost + Cost
    BY <2>2, <2>3
  <2>6. (Len(r) - i + 1) * Cost \in Int /\ Burst * Cost \in Int /\ Cost \in Int
    BY <2>4, <2>5, BurstNat, RateAssumption
  <2>7. (Len(r) - i + 1) * Cost + (Filled(b, t) - Cost) <= Burst * Cost + (t - s[i]) * Refill
    BY <1>2, <2>1, <2>4, <2>5, <2>6, Charges
  <2>8. QED
    BY <2>1, <2>3, <2>7
<1>5. QED
  BY <1>1, <1>3, <1>4

-----------------------------------------------------------------------------
(* The actions                                                             *)

\* One entry of a table after the pruning at time t.
PrunedEntry(b, t) == IF b # NoBucket /\ t - b.at > Ttl THEN NoBucket ELSE b

\* Pruning leaves an account right.
LEMMA AccountAfterPruning ==
  ASSUME NEW s \in Seq(Nat), NEW b \in Bucket \cup {NoBucket}, NEW t \in Nat, Accounts(s, b, t)
  PROVE  Accounts(s, PrunedEntry(b, t), t)
<1>1. CASE b # NoBucket /\ t - b.at > Ttl
  BY <1>1, AccountPruned DEF PrunedEntry
<1>2. CASE ~(b # NoBucket /\ t - b.at > Ttl)
  BY <1>2 DEF PrunedEntry
<1>3. QED
  BY <1>1, <1>2

\* The table after the pruning has these entries.
LEMMA PrunedTable ==
  ASSUME NEW k \in Requesters
  PROVE  /\ Pruned(rows)[k] = PrunedEntry(rows[k], clock)
         /\ Pruned(buckets)[k] = PrunedEntry(buckets[k], clock)
BY DEF Pruned, PrunedEntry

\* The bucket that consume finds is the one of the database, wherever it finds it.
LEMMA FindsBucket ==
  ASSUME GuardInv, NEW k \in Requesters
  PROVE  /\ Loaded(k) = PrunedEntry(rows[k], clock)
         /\ Loaded(k) \in Bucket \cup {NoBucket}
         /\ Accounts(passed[k], Loaded(k), clock)
         /\ Loaded(k) # NoBucket => Loaded(k).at <= clock
<1>1. buckets[k] = NoBucket \/ buckets[k] = rows[k]
  BY DEF GuardInv, Agree
<1>2. Loaded(k) = PrunedEntry(rows[k], clock)
  BY <1>1, PrunedTable DEF Loaded, PrunedEntry
<1>3. rows[k] \in Bucket \cup {NoBucket}
  BY DEF GuardInv, GuardTypeOK
<1>4. passed[k] \in Seq(Nat) /\ clock \in Nat
  <2>1. clock \in 0..MaxTime /\ passed[k] \in Seq(0..MaxTime) /\ MaxTime \in Nat
    BY RateAssumption DEF GuardInv, GuardTypeOK
  <2>2. QED
    BY <2>1
<1>5. Accounts(passed[k], rows[k], clock)
  BY DEF GuardInv, RequestsAccounted
<1>6. Accounts(passed[k], PrunedEntry(rows[k], clock), clock)
  BY <1>3, <1>4, <1>5, AccountAfterPruning
<1>7. rows[k] # NoBucket => rows[k].at <= clock
  BY DEF GuardInv, Past
<1>8. QED
  BY <1>2, <1>3, <1>6, <1>7 DEF PrunedEntry

\* A step of consume for one requester.
LEMMA ConsumeKeeps ==
  ASSUME GuardInv, NEW k \in Requesters, Consume(k)
  PROVE  GuardInv'
<1> DEFINE level == Filled(Loaded(k), clock)
           bucket == [tokens |-> IF level >= Cost THEN level - Cost ELSE level, at |-> clock]
<1>1. Level(k) = level
  BY DEF Level, Replenished, Filled
<1>2. clock \in 0..MaxTime /\ MaxTime \in Nat /\ clock \in Nat
  BY RateAssumption DEF GuardInv, GuardTypeOK
<1>3. level \in 0..(Burst * Cost)
  BY <1>2, FindsBucket, FilledBounded
<1>4. bucket \in Bucket /\ bucket.at = clock /\ bucket # NoBucket
  <2>1. (IF level >= Cost THEN level - Cost ELSE level) \in 0..(Burst * Cost)
    BY <1>3, BurstNat, RateAssumption
  <2>2. QED
    BY <1>2, <2>1, NoBucketApart DEF Bucket
<1>5. /\ buckets' = [Pruned(buckets) EXCEPT ![k] = bucket]
      /\ rows' = [Pruned(rows) EXCEPT ![k] = bucket]
      /\ passed' = IF level >= Cost THEN [passed EXCEPT ![k] = Append(@, clock)] ELSE passed
      /\ clock' = clock /\ gatewayRestarts' = gatewayRestarts
  BY <1>1 DEF Consume
<1>6. /\ buckets'[k] = bucket /\ rows'[k] = bucket
      /\ \A r \in Requesters : r # k => /\ buckets'[r] = PrunedEntry(buckets[r], clock)
                                       /\ rows'[r] = PrunedEntry(rows[r], clock)
  BY <1>5 DEF Pruned, PrunedEntry
<1>7. passed \in [Requesters -> Seq(0..MaxTime)]
  BY DEF GuardInv, GuardTypeOK
<1>8. /\ \A r \in Requesters : r # k => passed'[r] = passed[r]
      /\ passed'[k] = IF level >= Cost THEN Append(passed[k], clock) ELSE passed[k]
  BY <1>5, <1>7
<1>9. passed[k] \in Seq(Nat) /\ Accounts(passed[k], Loaded(k), clock)
      /\ Loaded(k) \in Bucket \cup {NoBucket} /\ (Loaded(k) # NoBucket => Loaded(k).at <= clock)
  BY <1>2, <1>7, FindsBucket
<1> HIDE DEF level, bucket
<1>10. GuardTypeOK'
  <2>1. buckets' \in [Requesters -> Bucket \cup {NoBucket}]
    BY <1>4, <1>5 DEF GuardInv, GuardTypeOK, Pruned
  <2>2. rows' \in [Requesters -> Bucket \cup {NoBucket}]
    BY <1>4, <1>5 DEF GuardInv, GuardTypeOK, Pruned
  <2>3. passed' \in [Requesters -> Seq(0..MaxTime)]
    <3>1. Append(passed[k], clock) \in Seq(0..MaxTime)
      BY <1>2, <1>7
    <3>2. QED
      BY <1>5, <1>7, <3>1
  <2>4. QED
    BY <1>5, <2>1, <2>2, <2>3 DEF GuardInv, GuardTypeOK
<1>11. Agree'
  BY <1>6 DEF GuardInv, Agree, PrunedEntry
<1>12. Past'
  BY <1>2, <1>4, <1>5, <1>6 DEF GuardInv, Past, PrunedEntry
<1>13. Accounts(passed'[k], bucket, clock)
  <2>1. CASE level >= Cost
    <3>1. bucket.tokens = Filled(Loaded(k), clock) - Cost
      BY <2>1 DEF bucket, level
    <3>2. QED
      BY <1>2, <1>4, <1>8, <1>9, <2>1, <3>1, AccountCharged
  <2>2. CASE ~(level >= Cost)
    <3>1. bucket.tokens = Filled(Loaded(k), clock)
      BY <2>2 DEF bucket, level
    <3>2. QED
      BY <1>2, <1>4, <1>8, <1>9, <2>2, <3>1, AccountRefused
  <2>3. QED
    BY <2>1, <2>2
<1>14. RequestsAccounted'
  <2>1. ASSUME NEW r \in Requesters, r # k
        PROVE  Accounts(passed[r], PrunedEntry(rows[r], clock), clock)
    <3>1. passed[r] \in Seq(Nat) /\ rows[r] \in Bucket \cup {NoBucket}
      BY <1>2, <1>7 DEF GuardInv, GuardTypeOK
    <3>2. Accounts(passed[r], rows[r], clock)
      BY DEF GuardInv, RequestsAccounted
    <3>3. QED
      BY <1>2, <3>1, <3>2, AccountAfterPruning
  <2>2. ASSUME NEW r \in Requesters
        PROVE  Accounts(passed'[r], rows'[r], clock')
    <3>1. CASE r = k
      BY <1>5, <1>6, <1>13, <3>1
    <3>2. CASE r # k
      BY <1>5, <1>6, <1>8, <2>1, <3>2
    <3>3. QED
      BY <3>1, <3>2
  <2>3. QED
    BY <2>2 DEF RequestsAccounted, Accounts
<1>15. RateHeld'
  <2>1. ASSUME NEW r \in Requesters, NEW i \in DOMAIN passed'[r], NEW j \in DOMAIN passed'[r], i <= j
        PROVE  (j - i + 1) * Cost <= Burst * Cost + (passed'[r][j] - passed'[r][i]) * Refill
    <3>1. passed[r] \in Seq(Nat) /\ Len(passed[r]) \in Nat /\ DOMAIN passed[r] = 1..Len(passed[r])
      BY <1>2, <1>7
    <3>2. CASE i \in DOMAIN passed[r] /\ j \in DOMAIN passed[r]
      <4>1. passed'[r][i] = passed[r][i] /\ passed'[r][j] = passed[r][j]
        <5>1. passed'[r] = passed[r] \/ passed'[r] = Append(passed[r], clock)
          BY <1>8
        <5>2. \A n \in 1..Len(passed[r]) : Append(passed[r], clock)[n] = passed[r][n]
          BY <1>2, <3>1
        <5>3. QED
          BY <3>1, <3>2, <5>1, <5>2
      <4>2. (j - i + 1) * Cost <= Burst * Cost + (passed[r][j] - passed[r][i]) * Refill
        BY <2>1, <3>2 DEF GuardInv, RateHeld
      <4>3. QED
        BY <4>1, <4>2
    <3>3. CASE ~(i \in DOMAIN passed[r] /\ j \in DOMAIN passed[r])
      <4>1. r = k /\ level >= Cost
        BY <1>8, <3>3
      <4>2. /\ passed'[r] = Append(passed[r], clock) /\ j = Len(passed[r]) + 1
            /\ Len(passed'[r]) = j /\ i \in 1..Len(passed'[r]) /\ passed'[r][j] = clock
        BY <1>2, <1>8, <2>1, <3>1, <3>3, <4>1, SMTT(30)
      <4>3. (j - i + 1) * Cost + bucket.tokens <= Burst * Cost + (clock - passed'[r][i]) * Refill
        BY <1>4, <1>13, <4>1, <4>2 DEF Accounts
      <4>4. /\ (j - i + 1) * Cost \in Int /\ (clock - passed'[r][i]) * Refill \in Int
            /\ Burst * Cost \in Int /\ bucket.tokens \in Nat
        <5>1. passed'[r][i] \in Nat
          BY <1>2, <3>1, <4>2
        <5>2. i \in Int /\ j \in Int
          BY <3>1, <4>2
        <5>3. (j - i + 1) \in Int /\ (clock - passed'[r][i]) \in Int
          BY <1>2, <5>1, <5>2
        <5>4. QED
          BY <1>4, <5>3, BurstNat, NoBucketApart, RateAssumption
      <4>5. (j - i + 1) * Cost <= Burst * Cost + (clock - passed'[r][i]) * Refill
        BY <4>3, <4>4
      <4>6. QED
        BY <4>2, <4>5
    <3>4. QED
      BY <3>2, <3>3
  <2>2. QED
    BY <2>1 DEF RateHeld
<1>16. QED
  BY <1>10, <1>11, <1>12, <1>14, <1>15 DEF GuardInv

\* A restart and the clock.
LEMMA RestartKeeps == GuardInv /\ GatewayRestarts => GuardInv'
<1> SUFFICES ASSUME GuardInv, GatewayRestarts PROVE GuardInv'
  OBVIOUS
<1>1. GuardTypeOK'
  BY RateAssumption DEF GuardInv, GuardTypeOK, GatewayRestarts
<1>2. Agree' /\ Past' /\ RateHeld'
  BY DEF GuardInv, Agree, Past, RateHeld, GatewayRestarts
<1>3. RequestsAccounted'
  BY DEF GuardInv, RequestsAccounted, Accounts, GatewayRestarts
<1>4. QED
  BY <1>1, <1>2, <1>3 DEF GuardInv

LEMMA TimeKeeps == GuardInv /\ TimePasses => GuardInv'
<1> SUFFICES ASSUME GuardInv, TimePasses PROVE GuardInv'
  OBVIOUS
<1>1. clock \in Nat /\ clock' = clock + 1 /\ clock' \in 0..MaxTime /\ clock' \in Nat
  BY RateAssumption DEF GuardInv, GuardTypeOK, TimePasses
<1>2. GuardTypeOK'
  BY <1>1 DEF GuardInv, GuardTypeOK, TimePasses
<1>3. Agree' /\ RateHeld'
  BY DEF GuardInv, Agree, RateHeld, TimePasses
<1>4. Past'
  <2>1. ASSUME NEW k \in Requesters, rows[k] # NoBucket PROVE rows[k].at <= clock'
    <3>1. rows[k].at \in Nat /\ rows[k].at <= clock
      BY <2>1, NoBucketApart DEF GuardInv, GuardTypeOK, Past
    <3>2. QED
      BY <1>1, <3>1
  <2>2. QED
    BY <2>1 DEF Past, TimePasses
<1>5. RequestsAccounted'
  <2>1. ASSUME NEW k \in Requesters PROVE Accounts(passed[k], rows[k], clock')
    <3>1. passed[k] \in Seq(0..MaxTime) /\ MaxTime \in Nat
      BY RateAssumption DEF GuardInv, GuardTypeOK
    <3>2. passed[k] \in Seq(Nat)
      BY <3>1
    <3>3. rows[k] \in Bucket \cup {NoBucket} /\ Accounts(passed[k], rows[k], clock)
      BY DEF GuardInv, GuardTypeOK, RequestsAccounted
    <3>4. clock <= clock'
      BY <1>1
    <3>5. QED
      BY <1>1, <3>2, <3>3, <3>4, AccountLasts
  <2>2. QED
    BY <2>1 DEF RequestsAccounted, Accounts, TimePasses
<1>6. QED
  BY <1>2, <1>3, <1>4, <1>5 DEF GuardInv

-----------------------------------------------------------------------------
(* Theorems                                                                *)

\* The first state.
LEMMA GuardStarts == GuardInit => GuardInv
<1> SUFFICES ASSUME GuardInit PROVE GuardInv
  OBVIOUS
<1>1. GuardTypeOK
  BY RateAssumption DEF GuardInit, GuardTypeOK
<1>2. Agree /\ Past /\ RateHeld
  BY DEF GuardInit, Agree, Past, RateHeld
<1>3. RequestsAccounted
  BY DEF GuardInit, RequestsAccounted, Accounts
<1>4. QED
  BY <1>1, <1>2, <1>3 DEF GuardInv

\* Every step.
LEMMA GuardStep == GuardInv /\ [GuardNext]_guardVars => GuardInv'
<1> SUFFICES ASSUME GuardInv, [GuardNext]_guardVars PROVE GuardInv'
  OBVIOUS
<1>1. ASSUME NEW k \in Requesters, Consume(k) PROVE GuardInv'
  BY <1>1, ConsumeKeeps
<1>2. CASE GatewayRestarts
  BY <1>2, RestartKeeps
<1>3. CASE TimePasses
  BY <1>3, TimeKeeps
<1>4. CASE UNCHANGED guardVars
  BY <1>4 DEF guardVars, GuardInv, GuardTypeOK, Agree, Past, RequestsAccounted, Accounts, RateHeld
<1>5. QED
  BY <1>1, <1>2, <1>3, <1>4 DEF GuardNext

\* The invariant, of every behaviour of the guard.
THEOREM BucketsAccount == GuardSpec => []GuardInv
BY GuardStarts, GuardStep, PTL DEF GuardSpec

\* The limit of the gateway (consume of GatewayGuard): in no stretch of time do
\* more requests of one requester get past than the burst and the refill.
THEOREM RateKept == GuardSpec => []RateHeld
<1>1. GuardInv => RateHeld
  BY DEF GuardInv
<1>2. QED
  BY <1>1, BucketsAccount, PTL

\* No bucket holds more than the burst, or is stamped with a time to come.
THEOREM GuardTypeCorrect == GuardSpec => []GuardTypeOK
<1>1. GuardInv => GuardTypeOK
  BY DEF GuardInv
<1>2. QED
  BY <1>1, BucketsAccount, PTL

-----------------------------------------------------------------------------
(* The chat in the terminal.                                               *)

One(runs) == \A f, g \in runs : f = g

\* A flag is up exactly while one run, of its kind, is awaited.
FlagsFit ==
  /\ One(flights) /\ (submitInFlight <=> flights # {})
  /\ One(reviews) /\ (approvalInFlight <=> reviews # {})

ScreenInv == ChatTypeInv /\ FlagsFit

\* Runs that are counted.
LEMMA RunsCounted ==
  /\ Cardinality({}) = 0
  /\ \A x : Cardinality({x}) = 1
  /\ \A runs : (\A f, g \in runs : f = g) => runs = {} \/ \E x \in runs : runs = {x}
<1>1. Cardinality({}) = 0  BY FS_EmptySet
<1>2. \A x : Cardinality({x}) = 1  BY FS_Singleton
<1>3. \A runs : (\A f, g \in runs : f = g) => runs = {} \/ \E x \in runs : runs = {x}  OBVIOUS
<1> QED BY <1>1, <1>2, <1>3

LEMMA Counts ==
  ASSUME ScreenInv
  PROVE  /\ Cardinality(flights) \in {0, 1} /\ Cardinality(reviews) \in {0, 1}
         /\ busyCount \in Nat
<1>1. Cardinality(flights) \in {0, 1}  BY RunsCounted DEF ScreenInv, FlagsFit, One
<1>2. Cardinality(reviews) \in {0, 1}  BY RunsCounted DEF ScreenInv, FlagsFit, One
<1> QED BY <1>1, <1>2 DEF ScreenInv, ChatTypeInv

\* A run starts, ends or turns into another.
LEMMA RunStarts ==
  ASSUME NEW x
  PROVE  One({} \cup {x}) /\ Cardinality({} \cup {x}) = Cardinality({}) + 1
<1>1. {} \cup {x} = {x}  OBVIOUS
<1> QED BY <1>1, RunsCounted DEF One

LEMMA RunEnds ==
  ASSUME NEW runs, One(runs), NEW x \in runs
  PROVE  runs \ {x} = {} /\ Cardinality(runs) = 1 /\ Cardinality(runs \ {x}) = 0
<1>1. runs = {x} /\ runs \ {x} = {}  BY DEF One
<1> QED BY <1>1, RunsCounted

LEMMA RunTurns ==
  ASSUME NEW runs, One(runs), NEW x \in runs, NEW y
  PROVE  One((runs \ {x}) \cup {y}) /\ Cardinality((runs \ {x}) \cup {y}) = Cardinality(runs)
<1>1. runs = {x} /\ (runs \ {x}) \cup {y} = {y}  BY DEF One
<1> QED BY <1>1, RunsCounted DEF One

LEMMA AskedTyped ==
  ASSUME NEW statuses, NEW s
  PROVE  Asked(statuses, s) \in Prompts \cup {NoPrompt}
<1> DEFINE parked == {p \in Prompts : taskSession[p] = s /\ statuses[p] = "waiting"}
<1>1. CASE parked = {}  BY <1>1 DEF Asked
<1>2. CASE parked # {}
  <2>1. (CHOOSE p \in parked : TRUE) \in parked  BY <1>2
  <2> QED BY <1>2, <2>1 DEF Asked
<1> QED BY <1>1, <1>2

-----------------------------------------------------------------------------
\* executePrompt: a prompt becomes a run.
LEMMA ExecuteKeeps ==
  ASSUME ScreenInv, NEW p \in Prompts, Execute(p), ~submitInFlight, reviews' = reviews
  PROVE  /\ taskStatus' \in [Prompts -> {"none", "running", "waiting", "ended"}]
         /\ taskSession' \in [Prompts -> ChatSessions]
         /\ submitInFlight' = TRUE /\ abortController' = p
         /\ flights' \subseteq Awaited /\ One(flights') /\ flights' # {}
         /\ busyCount' = Cardinality(flights') + Cardinality(reviews')
<1>1. PICK x \in Awaited : flights' = flights \cup {x}  BY DEF Execute, Awaited
<1>2. flights = {}  BY DEF ScreenInv, FlagsFit
<1>3. One(flights') /\ flights' # {} /\ Cardinality(flights') = Cardinality(flights) + 1
  BY <1>1, <1>2, RunStarts
<1>4. Cardinality(flights) \in {0, 1} /\ Cardinality(reviews) \in {0, 1}  BY Counts
<1>5. busyCount' = Cardinality(flights') + Cardinality(reviews')
  BY <1>3, <1>4 DEF Execute, ScreenInv, ChatTypeInv
<1>6. flights' \subseteq Awaited  BY <1>1, <1>2
<1>7. taskStatus' \in [Prompts -> {"none", "running", "waiting", "ended"}]
  BY DEF Execute, serviceVars, ScreenInv, ChatTypeInv
<1>8. taskSession' \in [Prompts -> ChatSessions]
  BY DEF Execute, serviceVars, ScreenInv, ChatTypeInv
<1> QED BY <1>3, <1>5, <1>6, <1>7, <1>8 DEF Execute

LEMMA SubmitKeeps == ASSUME ScreenInv, NEW p \in Prompts, SubmitPrompt(p) PROVE ScreenInv'
<1>1. /\ Execute(p) /\ ~submitInFlight /\ typed' = typed \cup {p}
      /\ UNCHANGED <<queueVars, behindReview, late, approvalInFlight, activeSession,
                     pendingQuestion, seen, reviews, restoring>>
  BY DEF SubmitPrompt, InFlight
<1>2. reviews' = reviews  BY <1>1
<1>3. typed' \subseteq Prompts /\ behindReview' \subseteq typed'
  BY <1>1 DEF ScreenInv, ChatTypeInv
<1> QED BY <1>1, <1>2, <1>3, ExecuteKeeps DEF queueVars, ScreenInv, ChatTypeInv, FlagsFit

LEMMA SendQueuedKeeps == ASSUME ScreenInv, SendQueued PROVE ScreenInv'
<1>1. /\ queuedPromptTimer' = FALSE
      /\ UNCHANGED <<queuedPromptsRef, typed, behindReview, approvalInFlight, activeSession,
                     seen, reviews, restoring>>
  BY DEF SendQueued
<1>2. pendingQuestion' \in Prompts \cup {NoPrompt}
  BY AskedTyped DEF SendQueued, Refresh, ScreenInv, ChatTypeInv
<1>3. late' \in BOOLEAN  BY DEF SendQueued, OutOfDate, ScreenInv, ChatTypeInv
<1>4. CASE submitInFlight \/ queuedPromptsRef = <<>>
  <2>1. UNCHANGED <<serviceVars, queuedPrompts, submitInFlight, busyCount, abortController, flights>>
    BY <1>4 DEF SendQueued
  <2> QED BY <1>1, <1>2, <1>3, <2>1 DEF serviceVars, ScreenInv, ChatTypeInv, FlagsFit
<1>5. CASE ~(submitInFlight \/ queuedPromptsRef = <<>>)
  <2>1. /\ queuedPrompts' = IF queuedPrompts = <<>> THEN <<>> ELSE Tail(queuedPrompts)
        /\ Execute(Head(queuedPromptsRef))
    BY <1>5 DEF SendQueued
  <2>2. Head(queuedPromptsRef) \in Prompts  BY <1>5 DEF ScreenInv, ChatTypeInv
  <2>3. queuedPrompts' \in Seq(Prompts)  BY <2>1 DEF ScreenInv, ChatTypeInv
  <2>4. /\ taskStatus' \in [Prompts -> {"none", "running", "waiting", "ended"}]
        /\ taskSession' \in [Prompts -> ChatSessions]
        /\ submitInFlight' = TRUE /\ abortController' \in Prompts
        /\ flights' \subseteq Awaited /\ One(flights') /\ flights' # {}
        /\ busyCount' = Cardinality(flights') + Cardinality(reviews')
    BY <1>1, <1>5, <2>1, <2>2, ExecuteKeeps
  <2>5. FlagsFit'  BY <1>1, <2>4 DEF ScreenInv, FlagsFit
  <2> QED BY <1>1, <1>2, <1>3, <2>3, <2>4, <2>5 DEF ScreenInv, ChatTypeInv
<1> QED BY <1>4, <1>5

LEMMA ReturnKeeps == ASSUME ScreenInv, NEW f \in flights, Return(f) PROVE ScreenInv'
<1>1. /\ flights' = flights \ {f} /\ submitInFlight' = FALSE /\ busyCount' = busyCount - 1
      /\ abortController' = NoPrompt
      /\ activeSession' = (IF f.state = "refused" THEN activeSession ELSE taskSession[f.of])
      /\ queuedPromptTimer' = (queuedPromptTimer \/ TimerSet(f))
      /\ UNCHANGED <<serviceVars, tellVars, approvalInFlight, queuedPrompts, queuedPromptsRef,
                     pendingQuestion, seen, reviews, restoring>>
  BY DEF Return
<1>2. flights' = {} /\ Cardinality(flights) = 1 /\ Cardinality(flights') = 0
  BY <1>1, RunEnds DEF ScreenInv, FlagsFit
<1>3. Cardinality(reviews) \in {0, 1}  BY Counts
<1>4. busyCount' = Cardinality(flights') + Cardinality(reviews')
  BY <1>1, <1>2, <1>3 DEF ScreenInv, ChatTypeInv
<1>5. f.of \in Prompts  BY DEF ScreenInv, ChatTypeInv, Awaited
<1>6. activeSession' \in ChatSessions  BY <1>1, <1>5 DEF ScreenInv, ChatTypeInv
<1>7. queuedPromptTimer' \in BOOLEAN  BY <1>1 DEF ScreenInv, ChatTypeInv, TimerSet
<1>8. FlagsFit'  BY <1>1, <1>2 DEF ScreenInv, FlagsFit, One
<1> QED BY <1>1, <1>2, <1>4, <1>6, <1>7, <1>8 DEF serviceVars, tellVars, ScreenInv, ChatTypeInv

LEMMA AnswerKeeps == ASSUME ScreenInv, NEW q \in Prompts, AnswerQuestion(q) PROVE ScreenInv'
<1>1. PICK x \in Awaited : reviews' = reviews \cup {x}  BY DEF AnswerQuestion, Awaited
<1>2. /\ ~approvalInFlight /\ approvalInFlight' = TRUE /\ busyCount' = busyCount + 1
      /\ abortController' = q /\ pendingQuestion' = NoPrompt
      /\ UNCHANGED <<taskSession, queueVars, tellVars, submitInFlight, activeSession, seen, flights, restoring>>
  BY DEF AnswerQuestion
<1>3. /\ reviews = {} /\ One(reviews') /\ reviews' # {}
      /\ Cardinality(reviews') = Cardinality(reviews) + 1
  BY <1>1, <1>2, RunStarts DEF ScreenInv, FlagsFit
<1>4. Cardinality(flights) \in {0, 1} /\ Cardinality(reviews) \in {0, 1}  BY Counts
<1>5. busyCount' = Cardinality(flights') + Cardinality(reviews')
  BY <1>2, <1>3, <1>4 DEF ScreenInv, ChatTypeInv
<1>6. taskStatus' \in [Prompts -> {"none", "running", "waiting", "ended"}]
  BY DEF AnswerQuestion, ScreenInv, ChatTypeInv
<1>7. reviews' \subseteq Awaited  BY <1>1 DEF ScreenInv, ChatTypeInv
<1>8. FlagsFit'  BY <1>2, <1>3 DEF ScreenInv, FlagsFit
<1> QED BY <1>2, <1>5, <1>6, <1>7, <1>8 DEF queueVars, tellVars, ScreenInv, ChatTypeInv

LEMMA ReviewEndsKeeps == ASSUME ScreenInv, NEW r \in reviews, ReviewEnds(r) PROVE ScreenInv'
<1>1. /\ reviews' = reviews \ {r} /\ approvalInFlight' = FALSE /\ busyCount' = busyCount - 1
      /\ abortController' = NoPrompt /\ pendingQuestion' = Asked(taskStatus, activeSession)
      /\ UNCHANGED <<serviceVars, queueVars, tellVars, submitInFlight, activeSession, seen, flights, restoring>>
  BY DEF ReviewEnds
<1>2. reviews' = {} /\ Cardinality(reviews) = 1 /\ Cardinality(reviews') = 0
  BY <1>1, RunEnds DEF ScreenInv, FlagsFit
<1>3. Cardinality(flights) \in {0, 1}  BY Counts
<1>4. busyCount' = Cardinality(flights') + Cardinality(reviews')
  BY <1>1, <1>2, <1>3 DEF ScreenInv, ChatTypeInv
<1>5. pendingQuestion' \in Prompts \cup {NoPrompt}  BY <1>1, AskedTyped
<1>6. FlagsFit'  BY <1>1, <1>2 DEF ScreenInv, FlagsFit, One
<1> QED BY <1>1, <1>2, <1>4, <1>5, <1>6 DEF serviceVars, queueVars, tellVars, ScreenInv, ChatTypeInv

LEMMA RunStopsKeeps == ASSUME ScreenInv, NEW r \in flights \cup reviews, RunStops(r) PROVE ScreenInv'
<1> DEFINE back == [r EXCEPT !.state = "back"]
<1>1. back \in Awaited /\ r.of \in Prompts  BY DEF ScreenInv, ChatTypeInv, Awaited
<1>2. taskStatus' \in [Prompts -> {"none", "running", "waiting", "ended"}]
  BY DEF RunStops, ScreenInv, ChatTypeInv
<1>3. UNCHANGED <<taskSession, queueVars, tellVars, submitInFlight, approvalInFlight,
                  abortController, activeSession, busyCount, pendingQuestion, seen, restoring>>
  BY DEF RunStops
<1>4. \/ r \in flights /\ flights' = (flights \ {r}) \cup {back} /\ reviews' = reviews
      \/ r \in reviews /\ reviews' = (reviews \ {r}) \cup {back} /\ flights' = flights
  BY DEF RunStops, Stopped
<1> HIDE DEF back
<1>5. /\ One(flights') /\ (flights' # {} <=> flights # {}) /\ Cardinality(flights') = Cardinality(flights)
      /\ One(reviews') /\ (reviews' # {} <=> reviews # {}) /\ Cardinality(reviews') = Cardinality(reviews)
  <2>1. One(flights) /\ One(reviews)  BY DEF ScreenInv, FlagsFit
  <2>2. CASE r \in flights /\ flights' = (flights \ {r}) \cup {back} /\ reviews' = reviews
    <3>1. One(flights') /\ flights' # {} /\ Cardinality(flights') = Cardinality(flights)
      BY <2>1, <2>2, RunTurns
    <3>2. One(reviews')  BY <2>1, <2>2 DEF One
    <3> QED BY <2>2, <3>1, <3>2
  <2>3. CASE r \in reviews /\ reviews' = (reviews \ {r}) \cup {back} /\ flights' = flights
    <3>1. One(reviews') /\ reviews' # {} /\ Cardinality(reviews') = Cardinality(reviews)
      BY <2>1, <2>3, RunTurns
    <3>2. One(flights')  BY <2>1, <2>3 DEF One
    <3> QED BY <2>3, <3>1, <3>2
  <2> QED BY <1>4, <2>2, <2>3
<1>6. flights' \subseteq Awaited /\ reviews' \subseteq Awaited  BY <1>1, <1>4 DEF ScreenInv, ChatTypeInv
<1>7. FlagsFit'  BY <1>3, <1>5 DEF ScreenInv, FlagsFit
<1> QED BY <1>2, <1>3, <1>5, <1>6, <1>7 DEF queueVars, tellVars, ScreenInv, ChatTypeInv

\* The steps that neither start nor end a run.
LEMMA OtherStepsKeep ==
  ASSUME ScreenInv,
         \/ Commit \/ Poll
         \/ \E p \in Prompts : Enqueue(p) \/ CancelQuestion(p) \/ SettledElsewhere(p)
         \/ \E s \in ChatSessions : NewSession(s) \/ Restore(s) \/ Restored(s)
  PROVE  ScreenInv'
<1>1. busyCount \in Nat  BY Counts
<1>2. CASE Commit
  BY <1>1, <1>2 DEF Commit, serviceVars, tellVars, ScreenInv, ChatTypeInv, FlagsFit
<1>3. CASE Poll
  <2>1. pendingQuestion' \in Prompts \cup {NoPrompt}
    BY <1>3, AskedTyped DEF Poll, Refresh, ScreenInv, ChatTypeInv, FlagsFit
  <2> QED BY <1>3, <2>1 DEF Poll, serviceVars, queueVars, tellVars, ScreenInv, ChatTypeInv, FlagsFit
<1>4. ASSUME NEW p \in Prompts, Enqueue(p) PROVE ScreenInv'
  <2>1. late' \in BOOLEAN  BY <1>4 DEF Enqueue, OutOfDate, ScreenInv, ChatTypeInv, FlagsFit
  <2>2. queuedPrompts' \in Seq(Prompts) /\ typed' \subseteq Prompts /\ behindReview' \subseteq typed'
    BY <1>4 DEF Enqueue, ScreenInv, ChatTypeInv, FlagsFit
  <2> QED BY <1>4, <2>1, <2>2 DEF Enqueue, serviceVars, ScreenInv, ChatTypeInv, FlagsFit
<1>5. ASSUME NEW q \in Prompts, CancelQuestion(q) PROVE ScreenInv'
  <2>1. pendingQuestion' \in Prompts \cup {NoPrompt}  BY <1>5, AskedTyped DEF CancelQuestion
  <2>2. taskStatus' \in [Prompts -> {"none", "running", "waiting", "ended"}]
    BY <1>5 DEF CancelQuestion, ScreenInv, ChatTypeInv, FlagsFit
  <2> QED BY <1>5, <2>1, <2>2 DEF CancelQuestion, queueVars, tellVars, ScreenInv, ChatTypeInv, FlagsFit
<1>6. ASSUME NEW p \in Prompts, SettledElsewhere(p) PROVE ScreenInv'
  BY <1>6 DEF SettledElsewhere, queueVars, tellVars, ScreenInv, ChatTypeInv, FlagsFit
<1>7. ASSUME NEW s \in ChatSessions, Show(s), restoring' \subseteq restoring PROVE ScreenInv'
  BY <1>7 DEF Show, serviceVars, tellVars, ScreenInv, ChatTypeInv, FlagsFit
<1>8. ASSUME NEW s \in ChatSessions, Restore(s) PROVE ScreenInv'
  BY <1>8 DEF Restore, serviceVars, queueVars, tellVars, ScreenInv, ChatTypeInv, FlagsFit
<1> QED BY <1>2, <1>3, <1>4, <1>5, <1>6, <1>7, <1>8 DEF NewSession, Restored

-----------------------------------------------------------------------------
LEMMA ScreenStarts == ControllerInit => ScreenInv
<1> SUFFICES ASSUME ControllerInit PROVE ScreenInv  OBVIOUS
<1>1. busyCount = Cardinality(flights) + Cardinality(reviews)  BY RunsCounted DEF ControllerInit
<1>2. seen \in [busy : Nat, question : Prompts \cup {NoPrompt}]  BY DEF ControllerInit
<1>3. queuedPrompts \in Seq(Prompts) /\ queuedPromptsRef \in Seq(Prompts)  BY DEF ControllerInit
<1> QED BY <1>1, <1>2, <1>3 DEF ControllerInit, ScreenInv, ChatTypeInv, FlagsFit, One

LEMMA ScreenStep == ScreenInv /\ [ControllerNext]_ctrlVars => ScreenInv'
<1> SUFFICES ASSUME ScreenInv, [ControllerNext]_ctrlVars PROVE ScreenInv'  OBVIOUS
<1>1. CASE SendQueued  BY <1>1, SendQueuedKeeps
<1>2. CASE Interrupt  BY <1>2, RunStopsKeeps DEF Interrupt
<1>3. ASSUME NEW p \in Prompts, SubmitPrompt(p) PROVE ScreenInv'  BY <1>3, SubmitKeeps
<1>4. ASSUME NEW q \in Prompts, AnswerQuestion(q) PROVE ScreenInv'  BY <1>4, AnswerKeeps
<1>5. ASSUME NEW f \in flights, Return(f) PROVE ScreenInv'  BY <1>5, ReturnKeeps
<1>6. ASSUME NEW r \in reviews, ReviewEnds(r) PROVE ScreenInv'  BY <1>6, ReviewEndsKeeps
<1>7. ASSUME NEW r \in flights \cup reviews, RunStops(r) PROVE ScreenInv'  BY <1>7, RunStopsKeeps
<1>8. CASE UNCHANGED ctrlVars
  BY <1>8 DEF ctrlVars, serviceVars, queueVars, tellVars, ScreenInv, ChatTypeInv, FlagsFit
<1> QED BY <1>1, <1>2, <1>3, <1>4, <1>5, <1>6, <1>7, <1>8, OtherStepsKeep DEF ControllerNext

\* The controller counts what it awaits: one prompt and one answer at most run at
\* a time, each under its own flag, whatever is queued, interrupted, refused,
\* polled or shown meanwhile.
THEOREM ControllerTypeCorrect == ControllerSpec => [](ChatTypeInv /\ ScreenInv)
<1>1. ScreenInv => ChatTypeInv /\ ScreenInv  BY DEF ScreenInv
<1> QED BY <1>1, ScreenStarts, ScreenStep, PTL DEF ControllerSpec
-----------------------------------------------------------------------------
(* What waits is attended to: the part of QueuedIsSent that needs no fairness. *)

\* Of the prompts that were queued behind another one, as long as no render came
\* too late for the queue, none is left with nothing under way that will send it.
QueueAttended ==
  ~late /\ (\E p \in Prompts : Waits(p) /\ p \notin behindReview) => flights # {} \/ queuedPromptTimer

\* What waits after a step that puts nothing into the queue has waited before it.
LEMMA StillWaits ==
  ASSUME ChatTypeInv, NEW p \in Prompts, Waits(p)',
         queuedPrompts' = queuedPrompts \/ queuedPrompts' = <<>> \/
           (queuedPrompts # <<>> /\ queuedPrompts' = Tail(queuedPrompts))
  PROVE  Waits(p)
<1>1. PICK i \in 1..Len(queuedPrompts') : queuedPrompts'[i] = p  BY DEF Waits
<1>2. queuedPrompts \in Seq(Prompts)  BY DEF ChatTypeInv
<1>3. CASE queuedPrompts' = queuedPrompts  BY <1>1, <1>3 DEF Waits
<1>4. CASE queuedPrompts' = <<>>  BY <1>1, <1>4
<1>5. CASE queuedPrompts # <<>> /\ queuedPrompts' = Tail(queuedPrompts)
  <2>1. i + 1 \in 1..Len(queuedPrompts) /\ queuedPrompts[i + 1] = p  BY <1>1, <1>2, <1>5
  <2> QED BY <2>1 DEF Waits
<1> QED BY <1>3, <1>4, <1>5

LEMMA AttendedStep == ScreenInv /\ QueueAttended /\ [ControllerNext]_ctrlVars => QueueAttended'
<1> SUFFICES ASSUME ScreenInv, QueueAttended, [ControllerNext]_ctrlVars, ~late',
                    NEW p \in Prompts, Waits(p)', p \notin behindReview'
             PROVE  flights' # {} \/ queuedPromptTimer' = TRUE
  BY DEF QueueAttended
<1>1. ChatTypeInv /\ late \in BOOLEAN /\ queuedPromptTimer \in BOOLEAN
  BY DEF ScreenInv, ChatTypeInv
\* The steps that leave alone what attends to the queue, and those that empty it.
<1>2. ASSUME UNCHANGED <<behindReview, late, queuedPromptTimer>>,
             queuedPrompts' = queuedPrompts \/ queuedPrompts' = <<>>,
             flights # {} => flights' # {}
      PROVE  flights' # {} \/ queuedPromptTimer' = TRUE
  BY <1>1, <1>2, StillWaits DEF QueueAttended
<1>3. ASSUME NEW q \in Prompts, Enqueue(q) PROVE flights' # {} \/ queuedPromptTimer' = TRUE
  <2>1. CASE submitInFlight
    <3>1. flights # {}  BY <2>1 DEF ScreenInv, FlagsFit
    <3> QED BY <1>3, <3>1 DEF Enqueue
  <2>2. CASE ~submitInFlight
    <3>1. /\ queuedPrompts' = Append(queuedPrompts, q) /\ behindReview' = behindReview \cup {q}
          /\ late' = (late \/ OutOfDate) /\ UNCHANGED <<queuedPromptTimer, flights>>
      BY <1>3, <2>2 DEF Enqueue
    <3>2. p # q /\ p \notin behindReview /\ ~late  BY <3>1
    <3>3. Waits(p)
      <4>1. PICK i \in 1..Len(queuedPrompts') : queuedPrompts'[i] = p  BY DEF Waits
      <4>2. queuedPrompts \in Seq(Prompts)  BY <1>1 DEF ChatTypeInv
      <4>3. i \in 1..Len(queuedPrompts) /\ queuedPrompts[i] = p  BY <3>1, <3>2, <4>1, <4>2
      <4> QED BY <4>3 DEF Waits
    <3> QED BY <1>1, <3>1, <3>2, <3>3 DEF QueueAttended
  <2> QED BY <2>1, <2>2
<1>4. ASSUME NEW q \in Prompts, SubmitPrompt(q) PROVE flights' # {} \/ queuedPromptTimer' = TRUE
  BY <1>4 DEF SubmitPrompt, Execute
<1>5. ASSUME NEW f \in flights, Return(f) PROVE flights' # {} \/ queuedPromptTimer' = TRUE
  BY <1>5 DEF Return, TimerSet
<1>6. CASE SendQueued
  <2>1. late' = (late \/ OutOfDate) /\ behindReview' = behindReview  BY <1>6 DEF SendQueued
  <2>2. ~late /\ queuedPromptsRef = queuedPrompts  BY <2>1 DEF OutOfDate
  <2>3. CASE submitInFlight
    <3>1. flights # {}  BY <2>3 DEF ScreenInv, FlagsFit
    <3> QED BY <1>6, <2>3, <3>1 DEF SendQueued
  <2>4. CASE ~submitInFlight /\ queuedPromptsRef = <<>>
    <3>1. queuedPrompts' = <<>>  BY <1>6, <2>2, <2>4 DEF SendQueued
    <3> QED BY <3>1 DEF Waits
  <2>5. CASE ~submitInFlight /\ queuedPromptsRef # <<>>
    <3>1. Execute(Head(queuedPromptsRef))  BY <1>6, <2>5 DEF SendQueued
    <3> QED BY <3>1 DEF Execute
  <2> QED BY <2>3, <2>4, <2>5
<1>7. ASSUME NEW r \in flights \cup reviews, RunStops(r)
      PROVE  flights' # {} \/ queuedPromptTimer' = TRUE
  <2>1. UNCHANGED <<behindReview, late, queuedPromptTimer, queuedPrompts>>
    BY <1>7 DEF RunStops, queueVars, tellVars
  <2>2. flights # {} => flights' # {}  BY <1>7 DEF RunStops, Stopped
  <2> QED BY <1>2, <2>1, <2>2
<1>8. ASSUME Commit \/ Poll PROVE flights' # {} \/ queuedPromptTimer' = TRUE
  BY <1>2, <1>8 DEF Commit, Poll, queueVars, tellVars
<1>9. ASSUME NEW q \in Prompts, AnswerQuestion(q) \/ CancelQuestion(q) \/ SettledElsewhere(q)
      PROVE  flights' # {} \/ queuedPromptTimer' = TRUE
  BY <1>2, <1>9 DEF AnswerQuestion, CancelQuestion, SettledElsewhere, queueVars, tellVars
<1>10. ASSUME NEW r \in reviews, ReviewEnds(r) PROVE flights' # {} \/ queuedPromptTimer' = TRUE
  BY <1>2, <1>10 DEF ReviewEnds, queueVars, tellVars
<1>11. ASSUME NEW s \in ChatSessions, NewSession(s) \/ Restore(s) \/ Restored(s)
       PROVE  flights' # {} \/ queuedPromptTimer' = TRUE
  BY <1>2, <1>11 DEF NewSession, Restore, Restored, Show, queueVars, tellVars
<1>12. CASE UNCHANGED ctrlVars  BY <1>2, <1>12 DEF ctrlVars, queueVars, tellVars
<1> QED
  BY <1>3, <1>4, <1>5, <1>6, <1>7, <1>8, <1>9, <1>10, <1>11, <1>12 DEF ControllerNext, Interrupt

\* The queue is never stranded: behind a prompt that was refused, parked, failed or
\* interrupted the finally block has set the timer, and behind a timer that found
\* the queue it has sent a prompt.
THEOREM QueueIsAttended == ControllerSpec => []QueueAttended
<1>1. ControllerInit => QueueAttended
  BY DEF ControllerInit, QueueAttended, Waits
<1> QED BY <1>1, AttendedStep, ScreenStarts, ScreenStep, PTL DEF ControllerSpec
=============================================================================
