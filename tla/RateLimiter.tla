---------------------------- MODULE RateLimiter -----------------------------
(***************************************************************************)
(* The token buckets of api/auth.rs: one map, behind a mutex, in which a   *)
(* bucket is created full on its first use, refilled lazily when it is     *)
(* charged and pruned once the map is large.  A request reads the clock,   *)
(* waits for the mutex and charges one bucket; it is charged to its        *)
(* address first and, if that accepts it, to its key, under the mutex      *)
(* again.                                                                  *)
(***************************************************************************)
EXTENDS Integers, Sequences, FiniteSets

CONSTANTS
  Address,        \* client addresses
  Key,            \* what clients send as an API key, registered or made up
  NoKey, Global,  \* a request without a key; the operator's key
  NoHeader,       \* a request without x-forwarded-for
  TrustProxy,     \* TELLODB_TRUST_PROXY
  Client,         \* requests in flight at once
  Token,          \* the fractions tokens are counted in
  AddrBurst, AddrRate, KeyBurst, KeyRate, AuthBurst, AuthRate,
  PruneThreshold,
  Peers,          \* the addresses connections can come from
  MaxClock,       \* bound on the time
  MayWait         \* time may pass between reading the clock and locking

Bucket == ({"addr", "auth"} \X Address) \union ({"key"} \X Key)

Burst == [b \in Bucket |-> CASE b[1] = "addr" -> AddrBurst
                             [] b[1] = "auth" -> AuthBurst
                             [] OTHER -> KeyBurst]

Rate == [b \in Bucket |-> CASE b[1] = "addr" -> AddrRate
                            [] b[1] = "auth" -> AuthRate
                            [] OTHER -> KeyRate]

ASSUME RateLimiterAssumption ==
  /\ {Token, AddrBurst, KeyBurst, AuthBurst, KeyRate} \subseteq Nat \ {0}
  /\ {AddrRate, AuthRate, PruneThreshold, MaxClock} \subseteq Nat
  /\ Peers \subseteq Address
  /\ {TrustProxy, MayWait} \subseteq BOOLEAN

ASSUME FinitelyMany == IsFiniteSet(Peers) /\ IsFiniteSet(Client)

VARIABLES
  buckets,  \* the map: tokens left at the last use of a bucket, and its time
  clock,
  request   \* each client's charges to come, verdict, and clock reading

vars == <<buckets, clock, request>>

Unread == -1

\* As if client_address took the header whoever sent it.
ClientAddressTrusting(r) == IF r.forwarded # NoHeader THEN r.forwarded ELSE r.peer

\* client_address: the header counts only behind a trusted proxy.
ClientAddress(r) ==
  IF TrustProxy /\ r.forwarded # NoHeader THEN r.forwarded ELSE r.peer

\* check_rate_limit, and for a login or signup check_auth_rate_limit after it.
ChargesOf(r) ==
  (IF r.key = Global THEN <<>>
   ELSE <<<<"addr", ClientAddress(r)>>>>
        \o (IF r.key = NoKey THEN <<>> ELSE <<<<"key", r.key>>>>))
  \o (IF r.auth THEN <<<<"auth", ClientAddress(r)>>>> ELSE <<>>)

Requests == [peer : Peers, forwarded : Address \union {NoHeader},
             key : Key \union {NoKey, Global}, auth : BOOLEAN]

Charges == {ChargesOf(r) : r \in Requests}

-----------------------------------------------------------------------------
Least(a, b) == IF a <= b THEN a ELSE b

\* Instant subtraction saturates at zero.
Since(now, then) == IF now >= then THEN now - then ELSE 0

\* As if try_consume refilled beyond the burst.
RefilledUncapped(b, bucket, now) == bucket.tokens + Since(now, bucket.last) * Rate[b]

\* What a bucket holds at a time.
Refilled(b, bucket, now) ==
  Least(Burst[b], bucket.tokens + Since(now, bucket.last) * Rate[b])

\* As if is_refilled took a bucket that can serve one request for a full one.
IsRefilledUsable(b, bucket, now) ==
  bucket.tokens + Since(now, bucket.last) * Rate[b] >= Token

IsRefilled(b, bucket, now) ==
  bucket.tokens + Since(now, bucket.last) * Rate[b] >= Burst[b]

\* allow_with up to try_consume: the map once there is a bucket for b.
Opened(b, now) ==
  LET kept == IF Cardinality(DOMAIN buckets) >= PruneThreshold
                   /\ b \notin DOMAIN buckets
              THEN {d \in DOMAIN buckets : ~IsRefilled(d, buckets[d], now)}
              ELSE DOMAIN buckets
  IN  [d \in kept \union {b} |->
         IF d \in kept THEN buckets[d] ELSE [tokens |-> Burst[b], last |-> now]]

-----------------------------------------------------------------------------
Init ==
  /\ buckets = [b \in {} |-> [tokens |-> 0, last |-> 0]]
  /\ clock = 0
  /\ request = [c \in Client |-> [todo |-> <<>>, verdict |-> "none", now |-> Unread]]

\* A request comes in.
Arrive(c, r) ==
  /\ request[c].todo = <<>>
  /\ request' = [request EXCEPT ![c] =
       [todo |-> ChargesOf(r), now |-> Unread,
        verdict |-> IF ChargesOf(r) = <<>> THEN "accepted" ELSE "none"]]
  /\ UNCHANGED <<buckets, clock>>

\* allow_with reads the clock before it locks the map.
ReadClock(c) ==
  /\ request[c].todo # <<>> /\ request[c].now = Unread
  /\ request' = [request EXCEPT ![c].now = clock]
  /\ UNCHANGED <<buckets, clock>>

\* The rest of allow_with, under the lock, and what the caller makes of it.
Consume(c) ==
  /\ request[c].todo # <<>> /\ request[c].now # Unread
  /\ LET b == Head(request[c].todo)
         now == request[c].now
         opened == Opened(b, now)
         tokens == Refilled(b, opened[b], now)
         rest == Tail(request[c].todo)
     IN  IF tokens >= Token
         THEN /\ buckets' = [opened EXCEPT ![b] = [tokens |-> tokens - Token, last |-> now]]
              /\ request' = [request EXCEPT ![c] =
                   [todo |-> rest, now |-> Unread,
                    verdict |-> IF rest = <<>> THEN "accepted" ELSE "none"]]
         ELSE /\ buckets' = [opened EXCEPT ![b] = [tokens |-> tokens, last |-> now]]
              /\ request' = [request EXCEPT ![c] =
                   [todo |-> <<>>, now |-> Unread, verdict |-> "refused"]]
  /\ UNCHANGED clock

Tick ==
  /\ clock < MaxClock
  /\ MayWait \/ \A c \in Client : request[c].now = Unread
  /\ clock' = clock + 1
  /\ UNCHANGED <<buckets, request>>

Next ==
  \/ \E c \in Client : (\E r \in Requests : Arrive(c, r)) \/ ReadClock(c) \/ Consume(c)
  \/ Tick

Spec == Init /\ [][Next]_vars

-----------------------------------------------------------------------------
\* What a bucket that is not in the map stands for is a full one.
Level == [b \in Bucket |->
            IF b \in DOMAIN buckets THEN Refilled(b, buckets[b], clock) ELSE Burst[b]]

\* What TokenBuckets sees of a request.
Seen == [c \in Client |-> [todo |-> request[c].todo, verdict |-> request[c].verdict]]

Abstract == INSTANCE TokenBuckets WITH level <- Level, asking <- Seen

\* "A bucket that has refilled is equivalent to a new one": creating, pruning
\* and refilling on use cannot be told from buckets that are all there and
\* refill all the time, as long as nobody waits for the lock with an old clock.
ImplementsTokenBuckets == Abstract!Spec

\* The requests an address passes in the ticks before the bucket of a key that
\* is empty has refilled: as many keys can be short of full at once.
Short == (AddrBurst + AddrRate * ((KeyBurst - 1) \div KeyRate)) \div Token

\* "Rotating made-up keys cannot grow memory without bound": a client that
\* sends another key with every request is held by the bucket of its address,
\* so what survives pruning is bounded by the number of addresses and of the
\* requests in flight, which are past their address and not yet at their key.
BucketsBounded ==
  LET held == Cardinality(Peers) * (2 + Short) + Cardinality(Client)
  IN  Cardinality(DOMAIN buckets) <= IF PruneThreshold > held THEN PruneThreshold ELSE held

\* The parts of the state have their types, and no bucket is above its burst.
TypeOK ==
  /\ DOMAIN buckets \subseteq Bucket
  /\ buckets \in [DOMAIN buckets -> [tokens : Nat, last : 0..clock]]
  /\ \A b \in DOMAIN buckets : buckets[b].tokens <= Burst[b]
  /\ clock \in 0..MaxClock
  /\ request \in [Client -> [todo : Seq(Bucket), now : {Unread} \union 0..clock,
                             verdict : {"none", "accepted", "refused"}]]

=============================================================================
