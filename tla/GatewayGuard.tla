---------------------------- MODULE GatewayGuard ----------------------------
(***************************************************************************)
(* The rate limit of the gateway (GatewayGuard): a bucket of tokens for    *)
(* each requester, refilled with time, kept in memory and in the database, *)
(* and dropped from both when it was not used for bucketTtlMs.  A token is *)
(* Cost units, Refill units come back with each tick of the clock.         *)
(***************************************************************************)
EXTENDS Integers, Sequences

CONSTANTS
  Requesters,   \* identity keys that neither list refuses
  NoBucket,
  Burst, Cost, Refill, Ttl,
  MaxTime,      \* bound on the clock
  MaxGatewayRestarts   \* and on restarts of the gateway

ASSUME RateAssumption ==
  /\ Burst \in Nat \ {0} /\ Cost \in Nat \ {0} /\ Refill \in Nat \ {0} /\ Ttl \in Nat
  /\ MaxTime \in Nat /\ MaxGatewayRestarts \in Nat
  /\ NoBucket \notin [tokens : Nat, at : Nat]

\* A bucket that is dropped for its age would have been full: so it is with the
\* defaults (20 tokens, 5 per second, an hour), though the code allows limits
\* for which it is not.
ASSUME TtlRefills == Burst * Cost <= Ttl * Refill

VARIABLES
  clock,
  buckets,    \* in memory
  rows,       \* those of gateway_rate_limits
  gatewayRestarts,
  passed      \* history: when the requests of a requester got past the limit

guardVars == <<clock, buckets, rows, gatewayRestarts, passed>>

Bucket == [tokens : 0..(Burst * Cost), at : 0..MaxTime]

GuardTypeOK ==
  /\ clock \in 0..MaxTime
  /\ buckets \in [Requesters -> Bucket \cup {NoBucket}]
  /\ rows \in [Requesters -> Bucket \cup {NoBucket}]
  /\ gatewayRestarts \in 0..MaxGatewayRestarts
  /\ passed \in [Requesters -> Seq(0..MaxTime)]

GuardInit ==
  /\ clock = 0 /\ gatewayRestarts = 0
  /\ buckets = [k \in Requesters |-> NoBucket]
  /\ rows = [k \in Requesters |-> NoBucket]
  /\ passed = [k \in Requesters |-> <<>>]

-----------------------------------------------------------------------------
\* pruneBuckets, of the map and of the table.
Pruned(table) ==
  [k \in Requesters |->
     IF table[k] # NoBucket /\ clock - table[k].at > Ttl THEN NoBucket ELSE table[k]]

\* loadBucket, after the pruning.
Loaded(k) == IF Pruned(buckets)[k] # NoBucket THEN Pruned(buckets)[k] ELSE Pruned(rows)[k]

\* Seeded fault: a bucket fills beyond the burst.
ReplenishedBeyond(b) == b.tokens + (clock - b.at) * Refill

Replenished(b) ==
  IF b.tokens + (clock - b.at) * Refill <= Burst * Cost
    THEN b.tokens + (clock - b.at) * Refill
    ELSE Burst * Cost

Level(k) == IF Loaded(k) = NoBucket THEN Burst * Cost ELSE Replenished(Loaded(k))

\* consume: a request with a token to take gets past the limit; saveBucket.
Consume(k) ==
  LET passes == Level(k) >= Cost
      bucket == [tokens |-> IF passes THEN Level(k) - Cost ELSE Level(k), at |-> clock]
  IN /\ buckets' = [Pruned(buckets) EXCEPT ![k] = bucket]
     /\ rows' = [Pruned(rows) EXCEPT ![k] = bucket]
     /\ passed' = IF passes THEN [passed EXCEPT ![k] = Append(@, clock)] ELSE passed
     /\ UNCHANGED <<clock, gatewayRestarts>>

\* The gateway starts anew over the same database.
GatewayRestarts ==
  /\ gatewayRestarts < MaxGatewayRestarts /\ gatewayRestarts' = gatewayRestarts + 1
  /\ buckets' = [k \in Requesters |-> NoBucket]
  /\ UNCHANGED <<clock, rows, passed>>

TimePasses ==
  /\ clock < MaxTime /\ clock' = clock + 1
  /\ UNCHANGED <<buckets, rows, gatewayRestarts, passed>>

GuardNext == (\E k \in Requesters : Consume(k)) \/ GatewayRestarts \/ TimePasses

GuardSpec == GuardInit /\ [][GuardNext]_guardVars

-----------------------------------------------------------------------------
\* In no stretch of time do more requests of one requester get past the limit
\* than the burst and what is refilled meanwhile, whatever was pruned, refused or
\* forgotten by a restart in between.
RateHeld ==
  \A k \in Requesters : \A i, j \in DOMAIN passed[k] :
    i <= j => (j - i + 1) * Cost <= Burst * Cost + (passed[k][j] - passed[k][i]) * Refill
=============================================================================
