---------------------------- MODULE AccessProofs ----------------------------
(***************************************************************************)
(* Theorems about what stands before and behind a handler, for any values  *)
(* of the constants.  RateLimiter implements TokenBuckets, as long as      *)
(* nobody waits for the lock with an old clock, and where x-forwarded-for  *)
(* is not trusted either, its map never outgrows its threshold or what the *)
(* addresses can pay for.  Of Accounts, which MCAccess instantiates as A:  *)
(* sessions last from the login to the logout or their expiry, a revoked   *)
(* secret opens nothing, and a key that was used is written.  Of           *)
(* UsageWriter, its W: usage that was sent is counted once, and profiles   *)
(* show what was told last.                                                *)
(***************************************************************************)
EXTENDS MCAccess, FiniteSetTheorems, SequenceTheorems, WellFoundedInduction, TLAPS

-----------------------------------------------------------------------------
(* The rate limiter.                                                       *)

\* What the refinement rests on: the types, and that a clock reading in use
\* is the time.
Inv ==
  /\ TypeOK
  /\ \A c \in Client : request[c].now \in {Unread, clock}

LEMMA LimitTypes ==
  /\ Burst \in [Bucket -> Nat \ {0}]
  /\ Rate \in [Bucket -> Nat]
BY RateLimiterAssumption, SMT DEF Burst, Rate, Bucket

LEMMA ChargesTypes == ASSUME NEW r \in Requests PROVE ChargesOf(r) \in Seq(Bucket)
<1>1. ClientAddress(r) \in Address
  BY RateLimiterAssumption DEF ClientAddress, Requests
<1>2. <<"addr", ClientAddress(r)>> \in Bucket /\ <<"auth", ClientAddress(r)>> \in Bucket
  BY <1>1 DEF Bucket
<1>3. r.key \notin {NoKey, Global} => <<"key", r.key>> \in Bucket
  BY DEF Requests, Bucket
<1> DEFINE first == IF r.key = Global THEN <<>>
                    ELSE <<<<"addr", ClientAddress(r)>>>>
                         \o (IF r.key = NoKey THEN <<>> ELSE <<<<"key", r.key>>>>)
           second == IF r.auth THEN <<<<"auth", ClientAddress(r)>>>> ELSE <<>>
<1>4. first \in Seq(Bucket)
  <2>1. <<<<"addr", ClientAddress(r)>>>> \in Seq(Bucket)
    BY <1>2
  <2>2. (IF r.key = NoKey THEN <<>> ELSE <<<<"key", r.key>>>>) \in Seq(Bucket)
        \/ r.key = Global
    BY <1>3
  <2> QED BY <2>1, <2>2
<1>5. second \in Seq(Bucket)
  BY <1>2
<1>6. ChargesOf(r) = first \o second
  BY DEF ChargesOf
<1> HIDE DEF first, second
<1> QED BY <1>4, <1>5, <1>6

\* One tick later a bucket holds what it held and the rate, up to its burst.
LEMMA RefillIsGradual ==
  ASSUME NEW b \in Bucket, NEW t \in Nat, NEW last \in 0..t, NEW tokens \in Nat,
         tokens <= Burst[b]
  PROVE  Refilled(b, [tokens |-> tokens, last |-> last], t + 1)
           = Least(Burst[b], Refilled(b, [tokens |-> tokens, last |-> last], t) + Rate[b])
<1> DEFINE R == Rate[b]
<1>1. R \in Nat /\ Burst[b] \in Nat
  BY LimitTypes
<1>2. t - last \in Nat /\ (t + 1) - last = (t - last) + 1
  BY SMT
<1>3. ((t - last) + 1) * R = (t - last) * R + R /\ (t - last) * R \in Nat
  <2> DEFINE d == t - last
  <2>1. d \in Nat BY <1>2
  <2> HIDE DEF d
  <2>2. (d + 1) * R = d * R + R /\ d * R \in Nat
    <3> HIDE DEF R
    <3> QED BY <1>1, <2>1, SMT
  <2> QED BY <2>2 DEF d
<1>4. Since(t + 1, last) = (t - last) + 1 /\ Since(t, last) = t - last
  BY SMT DEF Since
<1> DEFINE m == (t - last) * R
<1>5. Refilled(b, [tokens |-> tokens, last |-> last], t + 1) = Least(Burst[b], tokens + (m + R))
  BY <1>3, <1>4 DEF Refilled
<1>6. Refilled(b, [tokens |-> tokens, last |-> last], t) = Least(Burst[b], tokens + m)
  BY <1>4 DEF Refilled
<1>7. m \in Nat BY <1>3
<1> HIDE DEF m
<1> QED BY <1>1, <1>5, <1>6, <1>7, SMT DEF Least, R

\* A full bucket stays full, and a bucket just charged holds what it was left.
LEMMA RefilledNow ==
  ASSUME NEW b \in Bucket, NEW t \in Nat, NEW tokens \in Nat, tokens <= Burst[b]
  PROVE  Refilled(b, [tokens |-> tokens, last |-> t], t) = tokens
<1>1. Since(t, t) = 0 BY SMT DEF Since
<1>2. Rate[b] \in Nat /\ Burst[b] \in Nat BY LimitTypes
<1>3. Since(t, t) * Rate[b] = 0 BY <1>1, <1>2, SMT
<1> QED BY <1>2, <1>3, SMT DEF Refilled, Least

\* What is refilled is between nothing and the burst.
LEMMA RefilledType ==
  ASSUME NEW b \in Bucket, NEW t \in Nat, NEW last \in Nat, NEW tokens \in Nat
  PROVE  /\ Refilled(b, [tokens |-> tokens, last |-> last], t) \in Nat
         /\ Refilled(b, [tokens |-> tokens, last |-> last], t) <= Burst[b]
         /\ IsRefilled(b, [tokens |-> tokens, last |-> last], t)
              => Refilled(b, [tokens |-> tokens, last |-> last], t) = Burst[b]
<1>1. Rate[b] \in Nat /\ Burst[b] \in Nat BY LimitTypes
<1>2. Since(t, last) \in Nat BY SMT DEF Since
<1> DEFINE m == Since(t, last) * Rate[b]
<1>3. m \in Nat BY <1>1, <1>2, SMT
<1>4. Refilled(b, [tokens |-> tokens, last |-> last], t) = Least(Burst[b], tokens + m)
  BY DEF Refilled
<1>5. IsRefilled(b, [tokens |-> tokens, last |-> last], t) <=> tokens + m >= Burst[b]
  BY DEF IsRefilled
<1> HIDE DEF m
<1> QED BY <1>1, <1>3, <1>4, <1>5, SMT DEF Least

LEMMA BucketRecord ==
  ASSUME TypeOK, NEW b \in DOMAIN buckets
  PROVE  /\ b \in Bucket
         /\ buckets[b] = [tokens |-> buckets[b].tokens, last |-> buckets[b].last]
         /\ buckets[b].tokens \in Nat /\ buckets[b].tokens <= Burst[b]
         /\ buckets[b].last \in 0..clock /\ clock \in Nat
BY DEF TypeOK

-----------------------------------------------------------------------------
\* Opening a bucket, with the pruning it may cause, changes no level.
LEMMA OpenedKeepsLevels ==
  ASSUME TypeOK, NEW b \in Bucket
  PROVE  LET opened == Opened(b, clock) IN
         /\ b \in DOMAIN opened /\ DOMAIN opened \subseteq Bucket
         /\ opened \in [DOMAIN opened -> [tokens : Nat, last : 0..clock]]
         /\ \A d \in DOMAIN opened : opened[d].tokens <= Burst[d]
         /\ \A d \in DOMAIN opened : Refilled(d, opened[d], clock) = Level[d]
         /\ \A d \in Bucket \ DOMAIN opened : Level[d] = Burst[d]
<1> DEFINE kept == IF Cardinality(DOMAIN buckets) >= PruneThreshold
                        /\ b \notin DOMAIN buckets
                   THEN {d \in DOMAIN buckets : ~IsRefilled(d, buckets[d], clock)}
                   ELSE DOMAIN buckets
           fresh == [tokens |-> Burst[b], last |-> clock]
           opened == [d \in kept \union {b} |-> IF d \in kept THEN buckets[d] ELSE fresh]
<1>1. Opened(b, clock) = opened
  BY DEF Opened
<1>2. kept \subseteq DOMAIN buckets /\ DOMAIN buckets \subseteq Bucket
  BY DEF TypeOK
<1>3. \A d \in DOMAIN buckets \ kept : IsRefilled(d, buckets[d], clock)
  OBVIOUS
<1>4. b \in DOMAIN buckets => b \in kept
  OBVIOUS
<1>5. clock \in Nat /\ Burst[b] \in Nat
  BY LimitTypes DEF TypeOK
<1>6. Refilled(b, fresh, clock) = Burst[b]
  BY <1>5, RefilledNow
<1>7. \A d \in DOMAIN buckets \ kept : Level[d] = Burst[d]
  <2> TAKE d \in DOMAIN buckets \ kept
  <2>1. Refilled(d, buckets[d], clock) = Burst[d]
    BY <1>3, BucketRecord, RefilledType
  <2> QED BY <1>2, <2>1 DEF Level
<1>8. \A d \in Bucket \ DOMAIN buckets : Level[d] = Burst[d]
  BY DEF Level
<1>9. \A d \in kept : Refilled(d, buckets[d], clock) = Level[d]
  BY <1>2 DEF Level
<1> HIDE DEF kept
<1>10. \A d \in DOMAIN opened : /\ opened[d] \in [tokens : Nat, last : 0..clock]
                                /\ opened[d].tokens <= Burst[d]
  <2> TAKE d \in DOMAIN opened
  <2>1. CASE d \in kept
    BY <1>2, <2>1 DEF TypeOK
  <2>2. CASE d \notin kept
    <3>1. d = b /\ opened[d] = fresh BY <2>2
    <3>2. fresh \in [tokens : Nat, last : 0..clock] BY <1>5
    <3>3. fresh.tokens <= Burst[b] BY <1>5
    <3> QED BY <3>1, <3>2, <3>3
  <2> QED BY <2>1, <2>2
<1>11. \A d \in DOMAIN opened : Refilled(d, opened[d], clock) = Level[d]
  <2> TAKE d \in DOMAIN opened
  <2>1. CASE d \in kept BY <1>9, <2>1
  <2>2. CASE d \notin kept
    <3>1. d = b /\ opened[d] = fresh BY <2>2
    <3>2. b \notin DOMAIN buckets BY <1>4, <2>2, <3>1
    <3> QED BY <1>6, <1>8, <3>1, <3>2
  <2> QED BY <2>1, <2>2
<1>12. \A d \in Bucket \ DOMAIN opened : Level[d] = Burst[d]
  BY <1>7, <1>8
<1>13. b \in DOMAIN opened /\ DOMAIN opened \subseteq Bucket
  BY <1>2
<1>14. opened \in [DOMAIN opened -> [tokens : Nat, last : 0..clock]]
  BY <1>10
<1> HIDE DEF opened
<1> QED BY <1>1, <1>10, <1>11, <1>12, <1>13, <1>14

\* The state after a charge of bucket b at the present time.
LEMMA ChargeKeepsTypes ==
  ASSUME TypeOK, NEW b \in Bucket, NEW left \in Nat, left <= Level[b],
         buckets' = [Opened(b, clock) EXCEPT ![b] = [tokens |-> left, last |-> clock]],
         UNCHANGED clock
  PROVE  /\ DOMAIN buckets' \subseteq Bucket
         /\ buckets' \in [DOMAIN buckets' -> [tokens : Nat, last : 0..clock]]
         /\ \A d \in DOMAIN buckets' : buckets'[d].tokens <= Burst[d]
         /\ Level' = [Level EXCEPT ![b] = left]
<1> DEFINE opened == Opened(b, clock)
           new == [tokens |-> left, last |-> clock]
<1>1. /\ b \in DOMAIN opened /\ DOMAIN opened \subseteq Bucket
      /\ opened \in [DOMAIN opened -> [tokens : Nat, last : 0..clock]]
      /\ \A d \in DOMAIN opened : opened[d].tokens <= Burst[d]
      /\ \A d \in DOMAIN opened : Refilled(d, opened[d], clock) = Level[d]
      /\ \A d \in Bucket \ DOMAIN opened : Level[d] = Burst[d]
  BY OpenedKeepsLevels
<1>2. buckets' = [opened EXCEPT ![b] = new]
  OBVIOUS
<1>3. clock \in Nat /\ Burst[b] \in Nat /\ Level[b] \in Nat /\ Level[b] <= Burst[b]
  <2>1. clock \in Nat /\ Burst[b] \in Nat BY LimitTypes DEF TypeOK
  <2>2. CASE b \in DOMAIN buckets
    <3>1. /\ Refilled(b, buckets[b], clock) \in Nat
          /\ Refilled(b, buckets[b], clock) <= Burst[b]
      BY <2>1, <2>2, BucketRecord, RefilledType
    <3> QED BY <2>1, <2>2, <3>1 DEF Level
  <2>3. CASE b \notin DOMAIN buckets BY <2>1, <2>3 DEF Level
  <2> QED BY <2>1, <2>2, <2>3
<1>4. new \in [tokens : Nat, last : 0..clock] /\ new.tokens <= Burst[b]
  BY <1>3
<1>5. Refilled(b, new, clock) = left
  BY <1>3, RefilledNow
<1> HIDE DEF opened, new
<1>6. DOMAIN buckets' = DOMAIN opened /\ buckets'[b] = new
      /\ \A d \in DOMAIN opened \ {b} : buckets'[d] = opened[d]
  BY <1>1, <1>2
<1>7. buckets' \in [DOMAIN buckets' -> [tokens : Nat, last : 0..clock]]
  BY <1>1, <1>2, <1>4, <1>6
<1>8. \A d \in DOMAIN buckets' : buckets'[d].tokens <= Burst[d]
  BY <1>1, <1>4, <1>6
<1>9. \A d \in Bucket : Level'[d] = IF d = b THEN left ELSE Level[d]
  <2> TAKE d \in Bucket
  <2>1. Level'[d] = IF d \in DOMAIN buckets' THEN Refilled(d, buckets'[d], clock) ELSE Burst[d]
    BY DEF Level
  <2>2. CASE d = b BY <1>1, <1>5, <1>6, <2>1, <2>2
  <2>3. CASE d # b /\ d \in DOMAIN opened BY <1>1, <1>6, <2>1, <2>3
  <2>4. CASE d # b /\ d \notin DOMAIN opened BY <1>1, <1>6, <2>1, <2>4
  <2> QED BY <2>2, <2>3, <2>4
<1>10. Level' = [Level EXCEPT ![b] = left]
  BY <1>9 DEF Level
<1> QED BY <1>1, <1>6, <1>7, <1>8, <1>10

-----------------------------------------------------------------------------
\* A reading of the clock is a time or not there.
LEMMA RequestRecord ==
  ASSUME TypeOK, NEW c \in Client
  PROVE  /\ request[c].todo \in Seq(Bucket)
         /\ request[c].now \in {Unread} \union 0..clock
         /\ request[c].verdict \in {"none", "accepted", "refused"}
         /\ request \in [Client -> [todo : Seq(Bucket), now : {Unread} \union 0..clock,
                                    verdict : {"none", "accepted", "refused"}]]
BY DEF TypeOK

\* What a charge at the present time does: it finds the level of its bucket,
\* and takes a token from it or not.
LEMMA ConsumeIsAtomic ==
  ASSUME Inv, NEW c \in Client, Consume(c)
  PROVE  LET b == Head(request[c].todo)
             rest == Tail(request[c].todo)
         IN  /\ b \in Bucket /\ rest \in Seq(Bucket) /\ TypeOK'
             /\ request[c].todo # <<>>
             /\ \/ /\ Level[b] >= Token
                   /\ Level' = [Level EXCEPT ![b] = @ - Token]
                   /\ request' = [request EXCEPT ![c] =
                        [todo |-> rest, now |-> Unread,
                         verdict |-> IF rest = <<>> THEN "accepted" ELSE "none"]]
                \/ /\ Level[b] < Token
                   /\ Level' = Level
                   /\ request' = [request EXCEPT ![c] =
                        [todo |-> <<>>, now |-> Unread, verdict |-> "refused"]]
<1> DEFINE b == Head(request[c].todo)
           rest == Tail(request[c].todo)
           opened == Opened(b, clock)
           tokens == Refilled(b, opened[b], clock)
<1>1. /\ TypeOK /\ request[c].todo # <<>> /\ request[c].now = clock
      /\ clock' = clock
  BY DEF Inv, Consume
<1>2. b \in Bucket /\ rest \in Seq(Bucket)
  BY <1>1, RequestRecord
<1>3. /\ b \in DOMAIN opened
      /\ tokens = Level[b]
  BY <1>1, <1>2, OpenedKeepsLevels
<1>4. Level[b] \in Nat /\ Token \in Nat \ {0} /\ clock \in Nat /\ Burst[b] \in Nat
  <2>1. clock \in Nat /\ Burst[b] \in Nat BY <1>1, <1>2, LimitTypes DEF TypeOK
  <2>2. CASE b \in DOMAIN buckets
    <3>1. Refilled(b, buckets[b], clock) \in Nat BY <1>1, <2>1, <2>2, BucketRecord, RefilledType
    <3>2. Level[b] \in Nat BY <1>2, <2>2, <3>1 DEF Level
    <3> QED BY <2>1, <3>2, RateLimiterAssumption
  <2>3. CASE b \notin DOMAIN buckets
    <3>1. Level[b] \in Nat BY <1>2, <2>1, <2>3 DEF Level
    <3> QED BY <2>1, <3>1, RateLimiterAssumption
  <2> QED BY <2>2, <2>3
<1>5. Level \in [Bucket -> Level[b] .. Level[b]] \/ Level = [d \in Bucket |-> Level[d]]
  BY DEF Level
<1>6. Unread \in {Unread} \union 0..clock
  OBVIOUS
<1>7. CASE tokens >= Token
  <2> DEFINE left == tokens - Token
             answer == [todo |-> rest, now |-> Unread,
                        verdict |-> IF rest = <<>> THEN "accepted" ELSE "none"]
  <2>1. /\ buckets' = [opened EXCEPT ![b] = [tokens |-> left, last |-> clock]]
        /\ request' = [request EXCEPT ![c] = answer]
    BY <1>1, <1>7 DEF Consume
  <2>2. left \in Nat /\ left <= Level[b] /\ left = Level[b] - Token
    BY <1>3, <1>4, <1>7, SMT
  <2>3. answer \in [todo : Seq(Bucket), now : {Unread} \union 0..clock,
                    verdict : {"none", "accepted", "refused"}]
    BY <1>2
  <2> HIDE DEF left, answer, b, rest, opened, tokens
  <2>4. /\ DOMAIN buckets' \subseteq Bucket
        /\ buckets' \in [DOMAIN buckets' -> [tokens : Nat, last : 0..clock]]
        /\ \A d \in DOMAIN buckets' : buckets'[d].tokens <= Burst[d]
        /\ Level' = [Level EXCEPT ![b] = left]
    BY <1>1, <1>2, <2>1, <2>2, ChargeKeepsTypes DEF opened
  <2>5. request' \in [Client -> [todo : Seq(Bucket), now : {Unread} \union 0..clock,
                                 verdict : {"none", "accepted", "refused"}]]
    BY <1>1, <2>1, <2>3, RequestRecord
  <2>6. TypeOK'
    BY <1>1, <2>4, <2>5 DEF TypeOK
  <2>7. Level[b] >= Token
    BY <1>3, <1>7
  <2>8. Level' = [Level EXCEPT ![b] = @ - Token]
    BY <2>2, <2>4
  <2> QED BY <1>1, <1>2, <2>1, <2>6, <2>7, <2>8 DEF b, rest, answer
<1>8. CASE ~(tokens >= Token)
  <2> DEFINE answer == [todo |-> <<>>, now |-> Unread, verdict |-> "refused"]
  <2>1. /\ buckets' = [opened EXCEPT ![b] = [tokens |-> tokens, last |-> clock]]
        /\ request' = [request EXCEPT ![c] = answer]
    BY <1>1, <1>8 DEF Consume
  <2>2. tokens \in Nat /\ tokens <= Level[b] /\ tokens < Token
    BY <1>3, <1>4, <1>8, SMT
  <2>3. answer \in [todo : Seq(Bucket), now : {Unread} \union 0..clock,
                    verdict : {"none", "accepted", "refused"}]
    OBVIOUS
  <2> HIDE DEF answer, b, rest, opened, tokens
  <2>4. /\ DOMAIN buckets' \subseteq Bucket
        /\ buckets' \in [DOMAIN buckets' -> [tokens : Nat, last : 0..clock]]
        /\ \A d \in DOMAIN buckets' : buckets'[d].tokens <= Burst[d]
        /\ Level' = [Level EXCEPT ![b] = tokens]
    BY <1>1, <1>2, <2>1, <2>2, ChargeKeepsTypes DEF opened
  <2>5. request' \in [Client -> [todo : Seq(Bucket), now : {Unread} \union 0..clock,
                                 verdict : {"none", "accepted", "refused"}]]
    BY <1>1, <2>1, <2>3, RequestRecord
  <2>6. TypeOK'
    BY <1>1, <2>4, <2>5 DEF TypeOK
  <2>7. Level[b] < Token /\ Level' = Level
    BY <1>3, <2>2, <2>4 DEF Level
  <2> QED BY <1>1, <1>2, <2>1, <2>6, <2>7 DEF b, rest, answer
<1> QED BY <1>7, <1>8

\* Every tick moves every level as if it were refilled all the time.
LEMMA TickRefills ==
  ASSUME TypeOK, Tick
  PROVE  TypeOK' /\ Level' = [b \in Bucket |-> Least(Burst[b], Level[b] + Rate[b])]
<1>1. clock \in 0..MaxClock /\ clock' = clock + 1 /\ buckets' = buckets /\ request' = request
      /\ clock < MaxClock /\ MaxClock \in Nat
  BY RateLimiterAssumption DEF Tick, TypeOK
<1>2. clock' \in 0..MaxClock /\ 0..clock \subseteq 0..clock' /\ clock \in Nat
  BY <1>1, SMT
<1>3. TypeOK'
  <2>1. DOMAIN buckets' \subseteq Bucket BY <1>1 DEF TypeOK
  <2>2. buckets' \in [DOMAIN buckets' -> [tokens : Nat, last : 0..clock']]
    BY <1>1, <1>2 DEF TypeOK
  <2>3. \A b \in DOMAIN buckets' : buckets'[b].tokens <= Burst[b] BY <1>1 DEF TypeOK
  <2>4. request' \in [Client -> [todo : Seq(Bucket), now : {Unread} \union 0..clock',
                                 verdict : {"none", "accepted", "refused"}]]
    <3>1. request \in [Client -> [todo : Seq(Bucket), now : {Unread} \union 0..clock,
                                  verdict : {"none", "accepted", "refused"}]]
      BY DEF TypeOK
    <3> QED BY <1>1, <1>2, <3>1
  <2> QED BY <1>2, <2>1, <2>2, <2>3, <2>4 DEF TypeOK
<1>4. \A b \in Bucket : Level'[b] = Least(Burst[b], Level[b] + Rate[b])
  <2> TAKE b \in Bucket
  <2>1. CASE b \in DOMAIN buckets
    <3>1. Refilled(b, buckets[b], clock + 1)
            = Least(Burst[b], Refilled(b, buckets[b], clock) + Rate[b])
      BY <2>1, BucketRecord, RefillIsGradual
    <3> QED BY <1>1, <2>1, <3>1 DEF Level
  <2>2. CASE b \notin DOMAIN buckets
    <3>1. Level'[b] = Burst[b] /\ Level[b] = Burst[b] BY <1>1, <2>2 DEF Level
    <3>2. Burst[b] \in Nat /\ Rate[b] \in Nat BY LimitTypes
    <3> QED BY <3>1, <3>2, SMT DEF Least
  <2> QED BY <2>1, <2>2
<1>5. Level' = [b \in Bucket |-> Least(Burst[b], Level[b] + Rate[b])]
  BY <1>4 DEF Level
<1> QED BY <1>3, <1>5

-----------------------------------------------------------------------------
LEMMA InitInv == Init => Inv
<1> SUFFICES ASSUME Init PROVE Inv
  OBVIOUS
<1>1. buckets \in [DOMAIN buckets -> [tokens : Nat, last : 0..clock]] /\ DOMAIN buckets = {}
  BY DEF Init
<1>2. request \in [Client -> [todo : Seq(Bucket), now : {Unread} \union 0..clock,
                              verdict : {"none", "accepted", "refused"}]]
  BY DEF Init
<1>3. clock \in 0..MaxClock
  BY RateLimiterAssumption DEF Init
<1>4. \A c \in Client : request[c].now = Unread
  BY DEF Init
<1> QED BY <1>1, <1>2, <1>3, <1>4 DEF Inv, TypeOK

LEMMA NextInv == ASSUME ~MayWait, Inv, [Next]_vars PROVE Inv'
<1> DEFINE Records(t) == [todo : Seq(Bucket), now : {Unread} \union 0..t,
                          verdict : {"none", "accepted", "refused"}]
<1>0. TypeOK /\ clock \in Nat
  BY DEF Inv, TypeOK
<1>1. CASE UNCHANGED vars
  BY <1>1 DEF Inv, TypeOK, vars
<1>2. ASSUME NEW c \in Client, NEW r \in Requests, Arrive(c, r) PROVE Inv'
  <2>1. ChargesOf(r) \in Seq(Bucket) BY ChargesTypes
  <2> DEFINE new == [todo |-> ChargesOf(r), now |-> Unread,
                     verdict |-> IF ChargesOf(r) = <<>> THEN "accepted" ELSE "none"]
  <2>2. new \in Records(clock) /\ new.now = Unread BY <2>1
  <2>3. request' = [request EXCEPT ![c] = new] /\ buckets' = buckets /\ clock' = clock
    BY <1>2 DEF Arrive
  <2> HIDE DEF new
  <2>4. request' \in [Client -> Records(clock)] BY <1>0, <2>2, <2>3, RequestRecord
  <2>5. \A d \in Client : request'[d].now \in {Unread, clock}
    BY <2>2, <2>3, RequestRecord DEF Inv
  <2> QED BY <2>3, <2>4, <2>5 DEF Inv, TypeOK
<1>3. ASSUME NEW c \in Client, ReadClock(c) PROVE Inv'
  <2>1. request' = [request EXCEPT ![c].now = clock] /\ buckets' = buckets /\ clock' = clock
    BY <1>3 DEF ReadClock
  <2>2. request' \in [Client -> Records(clock)] BY <1>0, <2>1, RequestRecord, SMTT(30)
  <2>3. \A d \in Client : request'[d].now \in {Unread, clock}
    BY <1>0, <2>1, RequestRecord DEF Inv
  <2> QED BY <2>1, <2>2, <2>3 DEF Inv, TypeOK
<1>4. ASSUME NEW c \in Client, Consume(c) PROVE Inv'
  <2>1. TypeOK' BY <1>4, ConsumeIsAtomic
  <2>2. clock' = clock BY <1>4 DEF Consume
  <2>3. \E new : new.now = Unread /\ request' = [request EXCEPT ![c] = new]
    <3>1. \/ request' = [request EXCEPT ![c] =
               [todo |-> Tail(request[c].todo), now |-> Unread,
                verdict |-> IF Tail(request[c].todo) = <<>> THEN "accepted" ELSE "none"]]
          \/ request' = [request EXCEPT ![c] =
               [todo |-> <<>>, now |-> Unread, verdict |-> "refused"]]
      BY <1>4, ConsumeIsAtomic
    <3>2. \A t, v : [todo |-> t, now |-> Unread, verdict |-> v].now = Unread
      OBVIOUS
    <3> QED BY <3>1, <3>2
  <2>4. \A d \in Client : request'[d].now \in {Unread, clock}
    BY <1>0, <2>3, RequestRecord DEF Inv
  <2> QED BY <2>1, <2>2, <2>4 DEF Inv
<1>5. ASSUME Tick PROVE Inv'
  <2>1. TypeOK' BY <1>0, <1>5, TickRefills
  <2>2. \A c \in Client : request'[c].now = Unread BY <1>5 DEF Tick
  <2> QED BY <2>1, <2>2 DEF Inv
<1> QED BY <1>1, <1>2, <1>3, <1>4, <1>5 DEF Next

\* The buckets stay within their burst and every clock reading in the past,
\* whatever is sent to the handlers of the rate-limited routes.
THEOREM TypeCorrect == ~MayWait => (Spec => []TypeOK)
<1> SUFFICES ASSUME ~MayWait PROVE Spec => []TypeOK
  OBVIOUS
<1>1. Inv /\ [Next]_vars => Inv'
  BY NextInv
<1>2. Inv => TypeOK
  BY DEF Inv
<1> QED BY <1>1, <1>2, InitInv, PTL DEF Spec

-----------------------------------------------------------------------------
LEMMA InitRefines == Init => Abstract!Init
<1> SUFFICES ASSUME Init PROVE Abstract!Init
  OBVIOUS
<1>1. Level = Burst
  BY LimitTypes DEF Init, Level
<1>2. Seen = [c \in Client |-> [todo |-> <<>>, verdict |-> "none"]]
  BY DEF Init, Seen
<1> QED BY <1>1, <1>2 DEF Abstract!Init, Abstract!Idle, Seen

LEMMA StepRefines ==
  ASSUME ~MayWait, Inv, [Next]_vars
  PROVE  [Abstract!Next]_<<Level, Seen>>
<1>0. TypeOK
  BY DEF Inv
<1>1. CASE UNCHANGED vars
  BY <1>1 DEF vars, Level, Seen
<1>2. ASSUME NEW c \in Client, NEW r \in Requests, Arrive(c, r)
      PROVE  Abstract!Ask(c, ChargesOf(r)) /\ ChargesOf(r) \in Charges
  <2>1. Level' = Level BY <1>2 DEF Arrive, Level
  <2>2. Seen' = [Seen EXCEPT ![c] =
          [todo |-> ChargesOf(r), verdict |-> IF ChargesOf(r) = <<>> THEN "accepted" ELSE "none"]]
    BY <1>0, <1>2, RequestRecord DEF Arrive, Seen
  <2>3. Seen[c].todo = <<>> BY <1>2 DEF Arrive, Seen
  <2> QED BY <2>1, <2>2, <2>3 DEF Abstract!Ask, Charges, Seen
<1>3. ASSUME NEW c \in Client, ReadClock(c) PROVE UNCHANGED <<Level, Seen>>
  <2>1. Level' = Level BY <1>3 DEF ReadClock, Level
  <2>2. Seen' = Seen BY <1>0, <1>3, RequestRecord DEF ReadClock, Seen
  <2> QED BY <2>1, <2>2
<1>4. ASSUME NEW c \in Client, Consume(c) PROVE Abstract!Take(c) \/ Abstract!Refuse(c)
  <2> DEFINE b == Head(request[c].todo)
             rest == Tail(request[c].todo)
  <2>1. Seen[c].todo = request[c].todo /\ request[c].todo # <<>>
    BY <1>4 DEF Consume, Seen
  <2>2. CASE /\ Level[b] >= Token
             /\ Level' = [Level EXCEPT ![b] = @ - Token]
             /\ request' = [request EXCEPT ![c] =
                  [todo |-> rest, now |-> Unread,
                   verdict |-> IF rest = <<>> THEN "accepted" ELSE "none"]]
    <3>1. Seen' = [Seen EXCEPT ![c] =
            [todo |-> rest, verdict |-> IF rest = <<>> THEN "accepted" ELSE "none"]]
      BY <1>0, <2>2, RequestRecord DEF Seen
    <3> QED BY <2>1, <2>2, <3>1 DEF Abstract!Take, Seen
  <2>3. CASE /\ Level[b] < Token
             /\ Level' = Level
             /\ request' = [request EXCEPT ![c] =
                  [todo |-> <<>>, now |-> Unread, verdict |-> "refused"]]
    <3>1. Seen' = [Seen EXCEPT ![c] = [todo |-> <<>>, verdict |-> "refused"]]
      BY <1>0, <2>3, RequestRecord DEF Seen
    <3> QED BY <2>1, <2>3, <3>1 DEF Abstract!Refuse, Seen
  <2> QED BY <1>4, <2>2, <2>3, ConsumeIsAtomic
<1>5. ASSUME Tick PROVE Abstract!Refill
  <2>1. Level' = [b \in Bucket |-> Least(Burst[b], Level[b] + Rate[b])]
    BY <1>0, <1>5, TickRefills
  <2>2. Seen' = Seen BY <1>5 DEF Tick, Seen
  <2> QED BY <2>1, <2>2 DEF Abstract!Refill, Abstract!Least, Least, Seen
<1> QED BY <1>1, <1>2, <1>3, <1>4, <1>5 DEF Next, Abstract!Next

\* Creating buckets on use, refilling them lazily and pruning the full ones
\* (allow_with) is not observable: every behaviour is one of buckets that are
\* all there from the start and refill all the time.
THEOREM LimiterImplementsBuckets == ~MayWait => (Spec => ImplementsTokenBuckets)
<1> SUFFICES ASSUME ~MayWait PROVE Spec => ImplementsTokenBuckets
  OBVIOUS
<1>1. Inv /\ [Next]_vars => Inv'
  BY NextInv
<1>2. Inv /\ [Next]_vars => [Abstract!Next]_<<Level, Seen>>
  BY StepRefines
<1>3. Spec => Abstract!Init /\ [][Abstract!Next]_<<Level, Seen>>
  BY <1>1, <1>2, InitInv, InitRefines, PTL DEF Spec
<1> QED BY <1>3, PTL DEF ImplementsTokenBuckets, Abstract!Spec

-----------------------------------------------------------------------------
(* The size of the map, for addresses that clients do not choose.          *)

\* The requests an address can have let pass in the last e ticks, when this is
\* the level of its bucket now: of the tokens it held and was refilled, they
\* took what is missing.
Passed(level, e) == (AddrBurst + AddrRate * e - level) \div Token

\* One slot for each of them.
Slots(levels, e) == {s \in Peers \X Nat : s[2] \in 1..Passed(levels[<<"addr", s[1]>>], e)}

KeysSince(t) == {b \in DOMAIN buckets : b[1] = "key" /\ buckets[b].last >= t}

PastAddress == {c \in Client : request[c].todo # <<>> /\ Head(request[c].todo)[1] = "key"}

\* A key used since t was used by a request that passed its address since, or
\* by one that was past it at t already: as many as there are clients.
Accounted ==
  \A t \in 0..clock :
    Cardinality(KeysSince(t)) + Cardinality(PastAddress)
      <= Cardinality(Client) + Cardinality(Slots(Level, clock - t))

\* A key is charged after an address, and addresses are those of connections.
TodoFits ==
  \A c \in Client : \A i \in 1..Len(request[c].todo) :
    /\ request[c].todo[i][1] # "key" => request[c].todo[i][2] \in Peers
    /\ request[c].todo[i][1] = "key" /\ i > 1 => request[c].todo[i - 1][1] = "addr"

MapFits ==
  /\ IsFiniteSet(DOMAIN buckets)
  /\ \A b \in DOMAIN buckets : b[1] # "key" => b[2] \in Peers

BoundInv == Inv /\ TodoFits /\ MapFits /\ Accounted /\ BucketsBounded

LEMMA NoMore ==
  ASSUME NEW S, IsFiniteSet(S), NEW T, T \subseteq S
  PROVE  /\ IsFiniteSet(T) /\ Cardinality(T) \in Nat /\ Cardinality(S) \in Nat
         /\ Cardinality(T) <= Cardinality(S)
BY FS_Subset, FS_CardinalityType

LEMMA OneMore ==
  ASSUME NEW S, IsFiniteSet(S), NEW T, NEW x, T \subseteq S \cup {x}
  PROVE  /\ IsFiniteSet(T) /\ Cardinality(T) \in Nat /\ Cardinality(S) \in Nat
         /\ Cardinality(T) <= Cardinality(S) + 1
<1>1. /\ IsFiniteSet(S \cup {x})
      /\ Cardinality(S \cup {x}) = IF x \in S THEN Cardinality(S) ELSE Cardinality(S) + 1
  BY FS_AddElement
<1>2. Cardinality(S) \in Nat
  BY FS_CardinalityType
<1>3. /\ IsFiniteSet(T) /\ Cardinality(T) \in Nat
      /\ Cardinality(T) <= Cardinality(S \cup {x})
  BY <1>1, NoMore
<1> QED BY <1>1, <1>2, <1>3, SMT

LEMMA OneLess ==
  ASSUME NEW S, IsFiniteSet(S), NEW x \in S, NEW T, T \subseteq S \ {x}
  PROVE  /\ IsFiniteSet(T) /\ Cardinality(T) \in Nat /\ Cardinality(S) \in Nat
         /\ Cardinality(T) + 1 <= Cardinality(S)
<1>1. IsFiniteSet(S \ {x}) /\ Cardinality(S \ {x}) = Cardinality(S) - 1
  BY FS_RemoveElement
<1>2. Cardinality(S) \in Nat
  BY FS_CardinalityType
<1>3. /\ IsFiniteSet(T) /\ Cardinality(T) \in Nat
      /\ Cardinality(T) <= Cardinality(S \ {x})
  BY <1>1, NoMore
<1> QED BY <1>1, <1>2, <1>3, SMT

LEMMA Quotient ==
  ASSUME NEW x \in Nat, NEW y \in Nat, NEW d \in Nat \ {0}, d * x <= y
  PROVE  y \div d \in Nat /\ x <= y \div d
<1> DEFINE q == y \div d
<1>1. q \in Nat /\ d * q <= y /\ y < d * q + d
  BY SMT
<1> HIDE DEF q
<1>2. d * q + d = d * (q + 1)
  BY <1>1, SMT
<1>3. d * x < d * (q + 1)
  BY <1>1, <1>2, SMT
<1>4. x < q + 1
  <2> SUFFICES ASSUME x >= q + 1 PROVE FALSE
    BY <1>1, SMT
  <2>1. \E k \in Nat : x = (q + 1) + k
    <3>1. x - (q + 1) \in Nat /\ x = (q + 1) + (x - (q + 1))
      BY <1>1, SMT
    <3> QED BY <3>1
  <2>2. PICK k \in Nat : x = (q + 1) + k
    BY <2>1
  <2>3. d * x = d * (q + 1) + d * k /\ d * k >= 0
    BY <1>1, <2>2, SMT
  <2> QED BY <1>1, <1>3, <2>3, SMT
<1> QED BY <1>1, <1>4, SMT DEF q

LEMMA QuotientGrows ==
  ASSUME NEW x \in Nat, NEW y \in Nat, NEW d \in Nat \ {0}, x <= y
  PROVE  x \div d <= y \div d
<1> DEFINE q == x \div d
<1>1. q \in Nat /\ d * q <= x
  BY SMT
<1> HIDE DEF q
<1>2. d * q <= y
  BY <1>1, SMT
<1>3. q <= y \div d
  BY <1>1, <1>2, Quotient
<1> QED BY <1>3 DEF q

LEMMA QuotientOneMore ==
  ASSUME NEW x \in Nat, NEW y \in Nat, NEW d \in Nat \ {0}, x + d <= y
  PROVE  (x \div d) + 1 <= y \div d
<1> DEFINE q == x \div d
<1>1. q \in Nat /\ d * q <= x
  BY SMT
<1> HIDE DEF q
<1>2. d * (q + 1) <= y /\ q + 1 \in Nat
  <2>1. d * (q + 1) = d * q + d /\ d * q \in Nat BY <1>1, SMT
  <2> QED BY <1>1, <2>1, SMT
<1>3. q + 1 <= y \div d
  BY <1>2, Quotient
<1> QED BY <1>3 DEF q

\* Levels of addresses, as they can be.
LevelsFit(levels) == \A a \in Peers : levels[<<"addr", a>>] \in 0..AddrBurst

\* What an address has left to pay for, before it is divided into tokens.
LEMMA Spent ==
  ASSUME NEW level \in 0..AddrBurst, NEW e \in Nat
  PROVE  /\ AddrRate * e \in Nat /\ AddrBurst \in Nat /\ Token \in Nat \ {0}
         /\ AddrBurst + AddrRate * e - level \in Nat
         /\ AddrBurst + AddrRate * e - level <= AddrBurst + AddrRate * e
         /\ AddrBurst + AddrRate * e \in Nat
<1>1. AddrBurst \in Nat /\ AddrRate \in Nat /\ Token \in Nat \ {0}
  BY RateLimiterAssumption
<1>2. AddrRate * e \in Nat
  BY <1>1, SMT
<1> QED BY <1>1, <1>2, SMT

LEMMA PassedType ==
  ASSUME NEW level \in 0..AddrBurst, NEW e \in Nat
  PROVE  /\ Passed(level, e) \in Nat
         /\ Passed(level, e) <= (AddrBurst + AddrRate * e) \div Token
         /\ (AddrBurst + AddrRate * e) \div Token \in Nat
<1> DEFINE x == AddrBurst + AddrRate * e - level
           y == AddrBurst + AddrRate * e
<1>1. x \in Nat /\ y \in Nat /\ x <= y /\ Token \in Nat \ {0}
  BY Spent
<1>2. Passed(level, e) = x \div Token
  BY DEF Passed
<1> HIDE DEF x, y
<1>3. x \div Token \in Nat /\ y \div Token \in Nat
  BY <1>1, SMT
<1>4. x \div Token <= y \div Token
  BY <1>1, QuotientGrows
<1> QED BY <1>2, <1>3, <1>4 DEF y

LEMMA SlotsType ==
  ASSUME NEW levels, LevelsFit(levels), NEW e \in Nat
  PROVE  /\ IsFiniteSet(Slots(levels, e)) /\ Cardinality(Slots(levels, e)) \in Nat
         /\ (AddrBurst + AddrRate * e) \div Token \in Nat
         /\ Cardinality(Slots(levels, e))
              <= Cardinality(Peers) * ((AddrBurst + AddrRate * e) \div Token)
<1> DEFINE Y == (AddrBurst + AddrRate * e) \div Token
<1>1. Y \in Nat
  <2>1. 0 \in 0..AddrBurst BY RateLimiterAssumption
  <2> QED BY <2>1, PassedType
<1>2. ASSUME NEW a \in Peers
      PROVE  Passed(levels[<<"addr", a>>], e) \in Nat /\ Passed(levels[<<"addr", a>>], e) <= Y
  BY PassedType DEF LevelsFit
<1> HIDE DEF Y
<1>3. Slots(levels, e) \subseteq Peers \X (1..Y)
  <2> SUFFICES ASSUME NEW s \in Slots(levels, e) PROVE s \in Peers \X (1..Y)
    OBVIOUS
  <2>1. s \in Peers \X Nat /\ s[2] \in 1..Passed(levels[<<"addr", s[1]>>], e)
    BY DEF Slots
  <2>2. s[1] \in Peers /\ s[2] \in Nat BY <2>1
  <2>3. s[2] \in 1..Y
    <3> DEFINE q == Passed(levels[<<"addr", s[1]>>], e)
    <3>1. q \in Nat /\ q <= Y /\ s[2] \in 1..q BY <1>2, <2>1, <2>2
    <3> HIDE DEF q
    <3> QED BY <1>1, <3>1, SMT
  <2> QED BY <2>1, <2>3
<1>4. /\ IsFiniteSet(1..Y) /\ Cardinality(1..Y) = Y
  <2>1. IsFiniteSet(1..Y) /\ Cardinality(1..Y) = IF 1 > Y THEN 0 ELSE Y - 1 + 1
    BY <1>1, FS_Interval
  <2> QED BY <1>1, <2>1, SMT
<1>5. /\ IsFiniteSet(Peers \X (1..Y))
      /\ Cardinality(Peers \X (1..Y)) = Cardinality(Peers) * Y
  BY <1>4, FinitelyMany, FS_Product
<1>6. /\ IsFiniteSet(Slots(levels, e)) /\ Cardinality(Slots(levels, e)) \in Nat
      /\ Cardinality(Slots(levels, e)) <= Cardinality(Peers) * Y
  BY <1>3, <1>5, FS_Subset, FS_CardinalityType
<1> QED BY <1>1, <1>6 DEF Y

\* Address by address, no less has been spent: no fewer slots.
LEMMA SlotsGrow ==
  ASSUME NEW levels, LevelsFit(levels), NEW e \in Nat,
         NEW later, LevelsFit(later), NEW f \in Nat,
         \A a \in Peers : AddrRate * e - levels[<<"addr", a>>] <= AddrRate * f - later[<<"addr", a>>]
  PROVE  /\ Slots(levels, e) \subseteq Slots(later, f)
         /\ Cardinality(Slots(levels, e)) <= Cardinality(Slots(later, f))
<1>1. ASSUME NEW a \in Peers
      PROVE  /\ Passed(levels[<<"addr", a>>], e) \in Nat /\ Passed(later[<<"addr", a>>], f) \in Nat
             /\ Passed(levels[<<"addr", a>>], e) <= Passed(later[<<"addr", a>>], f)
  <2> DEFINE x == AddrBurst + AddrRate * e - levels[<<"addr", a>>]
             y == AddrBurst + AddrRate * f - later[<<"addr", a>>]
  <2>1. levels[<<"addr", a>>] \in 0..AddrBurst /\ later[<<"addr", a>>] \in 0..AddrBurst
    BY DEF LevelsFit
  <2>2. x \in Nat /\ y \in Nat /\ Token \in Nat \ {0}
    BY <2>1, Spent
  <2>3. x <= y
    <3> DEFINE u == AddrRate * e
               v == AddrRate * f
    <3>1. u \in Nat /\ v \in Nat /\ AddrBurst \in Nat BY <2>1, Spent
    <3>2. u - levels[<<"addr", a>>] <= v - later[<<"addr", a>>] OBVIOUS
    <3>3. x = AddrBurst + u - levels[<<"addr", a>>] /\ y = AddrBurst + v - later[<<"addr", a>>]
      OBVIOUS
    <3> HIDE DEF u, v, x, y
    <3> QED BY <2>1, <3>1, <3>2, <3>3, SMT
  <2>4. Passed(levels[<<"addr", a>>], e) = x \div Token /\ Passed(later[<<"addr", a>>], f) = y \div Token
    BY DEF Passed
  <2>5. Passed(levels[<<"addr", a>>], e) \in Nat /\ Passed(later[<<"addr", a>>], f) \in Nat
    BY <2>1, PassedType
  <2> HIDE DEF x, y
  <2> QED BY <2>2, <2>3, <2>4, <2>5, QuotientGrows
<1>2. Slots(levels, e) \subseteq Slots(later, f)
  <2> SUFFICES ASSUME NEW s \in Slots(levels, e) PROVE s \in Slots(later, f)
    OBVIOUS
  <2> DEFINE q == Passed(levels[<<"addr", s[1]>>], e)
             r == Passed(later[<<"addr", s[1]>>], f)
  <2>1. s \in Peers \X Nat /\ s[2] \in 1..q BY DEF Slots
  <2>2. s[1] \in Peers BY <2>1
  <2>3. q \in Nat /\ r \in Nat /\ q <= r BY <1>1, <2>2
  <2>4. s[2] \in 1..r
    <3> HIDE DEF q, r
    <3> QED BY <2>1, <2>3, SMT
  <2> QED BY <2>1, <2>4 DEF Slots
<1>3. IsFiniteSet(Slots(later, f))
  BY SlotsType
<1> QED BY <1>2, <1>3, NoMore

\* A request that passes its address makes one slot more.
LEMMA SlotsPass ==
  ASSUME NEW levels, LevelsFit(levels), NEW e \in Nat, NEW later, LevelsFit(later),
         NEW a \in Peers, later[<<"addr", a>>] = levels[<<"addr", a>>] - Token,
         \A p \in Peers \ {a} : later[<<"addr", p>>] = levels[<<"addr", p>>]
  PROVE  Cardinality(Slots(levels, e)) + 1 <= Cardinality(Slots(later, e))
<1> DEFINE q == Passed(levels[<<"addr", a>>], e)
           new == <<a, q + 1>>
<1>1. /\ levels[<<"addr", a>>] \in 0..AddrBurst /\ later[<<"addr", a>>] \in 0..AddrBurst
      /\ Token \in Nat \ {0} /\ AddrBurst \in Nat /\ AddrRate * e \in Nat
  BY Spent DEF LevelsFit
<1>2. \A p \in Peers : AddrRate * e - levels[<<"addr", p>>] <= AddrRate * e - later[<<"addr", p>>]
  <2> SUFFICES ASSUME NEW p \in Peers
               PROVE  AddrRate * e - levels[<<"addr", p>>] <= AddrRate * e - later[<<"addr", p>>]
    OBVIOUS
  <2>1. levels[<<"addr", p>>] \in 0..AddrBurst /\ later[<<"addr", p>>] \in 0..AddrBurst
    BY DEF LevelsFit
  <2>2. later[<<"addr", p>>] <= levels[<<"addr", p>>]
    <3>1. CASE p = a BY <1>1, <3>1, SMT
    <3>2. CASE p # a
      <4>1. later[<<"addr", p>>] = levels[<<"addr", p>>] BY <3>2
      <4> QED BY <1>1, <2>1, <4>1, SMT
    <3> QED BY <3>1, <3>2
  <2> DEFINE u == AddrRate * e
  <2>3. u \in Nat BY <1>1
  <2> HIDE DEF u
  <2>4. u - levels[<<"addr", p>>] <= u - later[<<"addr", p>>] BY <1>1, <2>1, <2>2, <2>3, SMT
  <2> QED BY <2>4 DEF u
<1>3. Slots(levels, e) \subseteq Slots(later, e)
  BY <1>2, SlotsGrow
<1>4. q \in Nat /\ Passed(later[<<"addr", a>>], e) \in Nat /\ q + 1 <= Passed(later[<<"addr", a>>], e)
  <2> DEFINE x == AddrBurst + AddrRate * e - levels[<<"addr", a>>]
             y == AddrBurst + AddrRate * e - later[<<"addr", a>>]
  <2>1. x \in Nat /\ y \in Nat /\ q = x \div Token /\ Passed(later[<<"addr", a>>], e) = y \div Token
    BY <1>1, Spent DEF Passed
  <2>2. x + Token <= y
    <3> DEFINE u == AddrRate * e
    <3>1. u \in Nat /\ x = AddrBurst + u - levels[<<"addr", a>>] /\ y = AddrBurst + u - later[<<"addr", a>>]
      BY <1>1
    <3> HIDE DEF u, x, y
    <3> QED BY <1>1, <3>1, SMT
  <2>3. q \in Nat /\ Passed(later[<<"addr", a>>], e) \in Nat BY <1>1, PassedType
  <2> HIDE DEF x, y, q
  <2> QED BY <1>1, <2>1, <2>2, <2>3, QuotientOneMore
<1> HIDE DEF q
<1>5. new \in Slots(later, e) /\ new \notin Slots(levels, e)
  <2>1. new \in Peers \X Nat /\ new[1] = a /\ new[2] = q + 1 BY <1>4
  <2>2. q + 1 \in 1..Passed(later[<<"addr", a>>], e) /\ q + 1 \notin 1..q BY <1>4, SMT
  <2> HIDE DEF new
  <2> QED BY <2>1, <2>2 DEF Slots, q
<1> HIDE DEF new
<1>6. IsFiniteSet(Slots(later, e))
  BY SlotsType
<1>7. Slots(levels, e) \subseteq Slots(later, e) \ {new}
  BY <1>3, <1>5
<1> QED BY <1>5, <1>6, <1>7, OneLess

\* The levels of the addresses are numbers.
LEMMA LevelTypes ==
  ASSUME TypeOK, NEW b \in Bucket
  PROVE  Level[b] \in Nat /\ Level[b] <= Burst[b]
<1>1. clock \in Nat /\ Burst[b] \in Nat
  BY LimitTypes DEF TypeOK
<1>2. CASE b \in DOMAIN buckets
  <2>1. /\ Refilled(b, buckets[b], clock) \in Nat
        /\ Refilled(b, buckets[b], clock) <= Burst[b]
    BY <1>1, <1>2, BucketRecord, RefilledType
  <2> QED BY <1>2, <2>1 DEF Level
<1>3. CASE b \notin DOMAIN buckets
  BY <1>1, <1>3 DEF Level
<1> QED BY <1>2, <1>3

LEMMA AddrLimits ==
  ASSUME NEW a \in Peers
  PROVE  /\ <<"addr", a>> \in Bucket
         /\ Burst[<<"addr", a>>] = AddrBurst /\ Rate[<<"addr", a>>] = AddrRate
BY RateLimiterAssumption DEF Bucket, Burst, Rate

LEMMA LevelsAlwaysFit == TypeOK => LevelsFit(Level)
<1> SUFFICES ASSUME TypeOK, NEW a \in Peers PROVE Level[<<"addr", a>>] \in 0..AddrBurst
  BY DEF LevelsFit
<1>1. Level[<<"addr", a>>] \in Nat /\ Level[<<"addr", a>>] <= AddrBurst
  BY AddrLimits, LevelTypes
<1> QED BY <1>1, RateLimiterAssumption, SMT

LEMMA KeyLimits ==
  ASSUME NEW b \in Bucket, b[1] = "key"
  PROVE  Burst[b] = KeyBurst /\ Rate[b] = KeyRate
BY DEF Burst, Rate

-----------------------------------------------------------------------------
\* What a charge does to the map.
LEMMA ConsumedMap ==
  ASSUME Inv, IsFiniteSet(DOMAIN buckets), NEW c \in Client, Consume(c),
         NEW b, b = Head(request[c].todo)
  PROVE  /\ b \in DOMAIN buckets' /\ buckets'[b].last = clock
         /\ \A d \in DOMAIN buckets' \ {b} : d \in DOMAIN buckets /\ buckets'[d] = buckets[d]
         /\ \/ DOMAIN buckets' = DOMAIN buckets
            \/ /\ Cardinality(DOMAIN buckets) < PruneThreshold
               /\ DOMAIN buckets' = DOMAIN buckets \cup {b}
            \/ DOMAIN buckets' =
                 {d \in DOMAIN buckets : ~IsRefilled(d, buckets[d], clock)} \cup {b}
<1> DEFINE late == {d \in DOMAIN buckets : ~IsRefilled(d, buckets[d], clock)}
           kept == IF Cardinality(DOMAIN buckets) >= PruneThreshold /\ b \notin DOMAIN buckets
                   THEN late ELSE DOMAIN buckets
           opened == Opened(b, clock)
<1>1. /\ DOMAIN opened = kept \cup {b}
      /\ \A d \in kept : opened[d] = buckets[d]
  BY DEF Opened
<1>2. request[c].now = clock
  BY DEF Inv, Consume
<1>3. \E left : buckets' = [opened EXCEPT ![b] = [tokens |-> left, last |-> clock]]
  BY <1>2 DEF Consume
<1> HIDE DEF opened
<1>4. /\ DOMAIN buckets' = kept \cup {b} /\ buckets'[b].last = clock
      /\ \A d \in kept \ {b} : buckets'[d] = buckets[d]
  BY <1>1, <1>3
<1>5. \/ kept = late
      \/ kept = DOMAIN buckets /\ b \in DOMAIN buckets
      \/ kept = DOMAIN buckets /\ ~(Cardinality(DOMAIN buckets) >= PruneThreshold)
  OBVIOUS
<1>6. Cardinality(DOMAIN buckets) \in Nat /\ PruneThreshold \in Nat
  BY FS_CardinalityType, RateLimiterAssumption
<1>7. late \subseteq DOMAIN buckets
  OBVIOUS
<1> HIDE DEF kept
<1>8. \/ DOMAIN buckets' = DOMAIN buckets
      \/ /\ Cardinality(DOMAIN buckets) < PruneThreshold
         /\ DOMAIN buckets' = DOMAIN buckets \cup {b}
      \/ DOMAIN buckets' = late \cup {b}
  <2>1. CASE kept = late BY <1>4, <2>1
  <2>2. CASE kept = DOMAIN buckets /\ b \in DOMAIN buckets BY <1>4, <2>2
  <2>3. CASE kept = DOMAIN buckets /\ ~(Cardinality(DOMAIN buckets) >= PruneThreshold)
    <3>1. Cardinality(DOMAIN buckets) < PruneThreshold BY <1>6, <2>3, SMT
    <3> QED BY <1>4, <2>3, <3>1
  <2> QED BY <1>5, <2>1, <2>2, <2>3
<1> QED BY <1>4, <1>5, <1>7, <1>8

\* What a charge does to the requests.
LEMMA ConsumedTodo ==
  ASSUME Inv, NEW c \in Client, Consume(c)
  PROVE  /\ \A d \in Client \ {c} : request'[d].todo = request[d].todo
         /\ request'[c].todo \in {<<>>, Tail(request[c].todo)}
<1>1. request \in [Client -> [todo : Seq(Bucket), now : {Unread} \union 0..clock,
                              verdict : {"none", "accepted", "refused"}]]
  BY DEF Inv, TypeOK
<1>2. \/ request' = [request EXCEPT ![c] =
           [todo |-> Tail(request[c].todo), now |-> Unread,
            verdict |-> IF Tail(request[c].todo) = <<>> THEN "accepted" ELSE "none"]]
      \/ request' = [request EXCEPT ![c] =
           [todo |-> <<>>, now |-> Unread, verdict |-> "refused"]]
  BY ConsumeIsAtomic
<1> QED BY <1>1, <1>2

\* What appending one charge to one, and to two, gives.
LEMMA OneThenOne ==
  ASSUME NEW x, NEW y
  PROVE  <<x>> \o <<y>> = <<x, y>>
<1> DEFINE S == {x, y}
           s == <<x>> \o <<y>>
<1>1. <<x>> \in Seq(S) /\ <<y>> \in Seq(S) /\ <<x, y>> \in Seq(S) OBVIOUS
<1>2. Len(<<x>>) = 1 /\ Len(<<y>>) = 1 /\ Len(<<x, y>>) = 2 OBVIOUS
<1> HIDE DEF S
<1>3. s \in Seq(S) /\ Len(s) = 2 /\ s[1] = x /\ s[2] = y
  BY <1>1, <1>2, ConcatProperties
<1>4. <<x, y>>[1] = x /\ <<x, y>>[2] = y OBVIOUS
<1> HIDE DEF s
<1>5. \A i \in 1..Len(s) : s[i] = <<x, y>>[i] BY <1>3, <1>4
<1>6. s = <<x, y>> BY <1>1, <1>2, <1>3, <1>5, SeqEqual
<1> QED BY <1>6 DEF s

LEMMA TwoThenOne ==
  ASSUME NEW x, NEW y, NEW z
  PROVE  <<x, y>> \o <<z>> = <<x, y, z>>
<1> DEFINE S == {x, y, z}
           s == <<x, y>> \o <<z>>
           t == <<x, y, z>>
<1>1. <<x, y>> \in Seq(S) /\ <<z>> \in Seq(S) /\ t \in Seq(S) OBVIOUS
<1>2. Len(<<x, y>>) = 2 /\ Len(<<z>>) = 1 /\ Len(t) = 3 OBVIOUS
<1> HIDE DEF S
<1>3. s \in Seq(S) /\ Len(s) = 3 /\ s[1] = x /\ s[2] = y /\ s[3] = z
  BY <1>1, <1>2, ConcatProperties
<1>4. t[1] = x /\ t[2] = y /\ t[3] = z OBVIOUS
<1> HIDE DEF s, t
<1>5. \A i \in 1..Len(s) : s[i] = t[i] BY <1>3, <1>4
<1>6. s = t BY <1>1, <1>2, <1>3, <1>5, SeqEqual
<1> QED BY <1>6 DEF s, t

\* The charges of a request that does not choose its address.
LEMMA ChargesFit ==
  ASSUME ~TrustProxy, NEW r \in Requests
  PROVE  /\ \A i \in 1..Len(ChargesOf(r)) :
              /\ ChargesOf(r)[i][1] # "key" => ChargesOf(r)[i][2] \in Peers
              /\ ChargesOf(r)[i][1] = "key" => i > 1 /\ ChargesOf(r)[i - 1][1] = "addr"
         /\ ChargesOf(r) # <<>> => Head(ChargesOf(r))[1] # "key"
<1> DEFINE Ad == <<"addr", r.peer>>
           K == <<"key", r.key>>
           U == <<"auth", r.peer>>
<1>1. ClientAddress(r) = r.peer /\ r.peer \in Peers
  BY DEF ClientAddress, Requests
<1>2. ChargesOf(r) \in {<<>>, <<Ad>>, <<Ad, K>>, <<Ad, K, U>>, <<Ad, U>>, <<U>>}
  <2>1. ChargesOf(r) =
          (IF r.key = Global THEN <<>> ELSE <<Ad>> \o (IF r.key = NoKey THEN <<>> ELSE <<K>>))
            \o (IF r.auth THEN <<U>> ELSE <<>>)
    BY <1>1 DEF ChargesOf
  <2> HIDE DEF Ad, K, U
  <2>2. <<>> \o <<>> = <<>>
    OBVIOUS
  <2>3. ASSUME NEW x PROVE <<x>> \o <<>> = <<x>> /\ <<>> \o <<x>> = <<x>>
    <3>1. <<x>> \in Seq({x}) OBVIOUS
    <3> QED BY <3>1, ConcatEmptySeq
  <2>4. ASSUME NEW x, NEW y PROVE <<x>> \o <<y>> = <<x, y>>
    BY OneThenOne
  <2>5. ASSUME NEW x, NEW y PROVE <<x, y>> \o <<>> = <<x, y>>
    <3>1. <<x, y>> \in Seq({x, y}) OBVIOUS
    <3> QED BY <3>1, ConcatEmptySeq
  <2>6. ASSUME NEW x, NEW y, NEW z PROVE <<x, y>> \o <<z>> = <<x, y, z>>
    BY TwoThenOne
  <2>7. CASE r.key = Global BY <2>1, <2>2, <2>3, <2>7
  <2>8. CASE r.key # Global /\ r.key = NoKey
    <3>1. ChargesOf(r) = <<Ad>> \o (IF r.auth THEN <<U>> ELSE <<>>)
      BY <2>1, <2>3, <2>8
    <3> QED BY <2>3, <2>4, <3>1
  <2>9. CASE r.key # Global /\ r.key # NoKey
    <3>1. ChargesOf(r) = <<Ad, K>> \o (IF r.auth THEN <<U>> ELSE <<>>)
      BY <2>1, <2>4, <2>9
    <3> QED BY <2>5, <2>6, <3>1
  <2> QED BY <2>7, <2>8, <2>9
<1>3. /\ Ad[1] = "addr" /\ Ad[2] \in Peers
      /\ K[1] = "key"
      /\ U[1] = "auth" /\ U[2] \in Peers
  BY <1>1
<1> HIDE DEF Ad, K, U
<1>4. ASSUME NEW s, s \in {<<>>, <<Ad>>, <<Ad, K>>, <<Ad, K, U>>, <<Ad, U>>, <<U>>}
      PROVE  /\ \A i \in 1..Len(s) :
                  /\ s[i][1] # "key" => s[i][2] \in Peers
                  /\ s[i][1] = "key" => i > 1 /\ s[i - 1][1] = "addr"
             /\ s # <<>> => Head(s)[1] # "key"
  <2>1. CASE s = <<>> BY <2>1
  <2>2. CASE s = <<Ad>> BY <1>3, <2>2
  <2>3. CASE s = <<Ad, K>> BY <1>3, <2>3
  <2>4. CASE s = <<Ad, K, U>> BY <1>3, <2>4
  <2>5. CASE s = <<Ad, U>> BY <1>3, <2>5
  <2>6. CASE s = <<U>> BY <1>3, <2>6
  <2> QED BY <1>4, <2>1, <2>2, <2>3, <2>4, <2>5, <2>6
<1> QED BY <1>2, <1>4

-----------------------------------------------------------------------------
\* The keys whose buckets are short of their burst, with the requests that are
\* about to use one.
LEMMA ShortKeys ==
  ASSUME Inv, IsFiniteSet(DOMAIN buckets), Accounted,
         NEW S, S = {d \in DOMAIN buckets : d[1] = "key" /\ ~IsRefilled(d, buckets[d], clock)}
  PROVE  /\ IsFiniteSet(S) /\ Short \in Nat
         /\ Cardinality(S) + Cardinality(PastAddress)
              <= Cardinality(Client) + Cardinality(Peers) * Short
<1> DEFINE Span == (KeyBurst - 1) \div KeyRate
           X == AddrBurst + AddrRate * Span
           t == IF clock >= Span THEN clock - Span ELSE 0
<1>1. /\ clock \in Nat /\ Token \in Nat \ {0} /\ AddrBurst \in Nat /\ AddrRate \in Nat
      /\ KeyBurst \in Nat \ {0} /\ KeyRate \in Nat \ {0}
  BY RateLimiterAssumption DEF Inv, TypeOK
<1>2. Span \in Nat
  <2>1. KeyBurst - 1 \in Nat /\ KeyRate * 0 <= KeyBurst - 1 BY <1>1, SMT
  <2> QED BY <1>1, <2>1, Quotient
<1>3. X \in Nat /\ Short = X \div Token
  <2> DEFINE w == Span
  <2>1. w \in Nat BY <1>2
  <2>2. X = AddrBurst + AddrRate * w OBVIOUS
  <2>3. Short = (AddrBurst + AddrRate * w) \div Token BY DEF Short
  <2> HIDE DEF w
  <2>4. AddrBurst + AddrRate * w \in Nat BY <1>1, <2>1, SMT
  <2> QED BY <2>2, <2>3, <2>4
<1>4. Short \in Nat
  <2>1. Token * 0 <= X BY <1>1, <1>3, SMT
  <2> QED BY <1>1, <1>3, <2>1, Quotient
<1>5. S \subseteq KeysSince(t)
  <2> SUFFICES ASSUME NEW d \in S PROVE buckets[d].last >= t
    BY DEF KeysSince
  <2>1. d \in DOMAIN buckets /\ d[1] = "key" /\ ~IsRefilled(d, buckets[d], clock)
    OBVIOUS
  <2>2. /\ d \in Bucket /\ buckets[d].tokens \in Nat
        /\ buckets[d].last \in 0..clock
    BY <2>1, BucketRecord DEF Inv
  <2>3. Burst[d] = KeyBurst /\ Rate[d] = KeyRate
    BY <2>1, <2>2, KeyLimits
  <2> DEFINE e == clock - buckets[d].last
             tokens == buckets[d].tokens
  <2>4. e \in Nat /\ Since(clock, buckets[d].last) = e
    BY <1>1, <2>2, SMT DEF Since
  <2>5. ~(tokens + e * KeyRate >= KeyBurst)
    BY <2>1, <2>3, <2>4 DEF IsRefilled
  <2>6. e <= Span
    <3> HIDE DEF e, tokens
    <3>1. tokens \in Nat BY <2>2 DEF tokens
    <3>2. KeyRate * e <= KeyBurst - 1 /\ KeyBurst - 1 \in Nat
      BY <1>1, <2>4, <2>5, <3>1, SMT
    <3> QED BY <1>1, <2>4, <3>2, Quotient
  <2> HIDE DEF Span
  <2> QED BY <1>1, <1>2, <2>2, <2>6, SMT
<1>6. t \in 0..clock /\ clock - t \in Nat /\ clock - t <= Span
  <2> HIDE DEF Span
  <2> QED BY <1>1, <1>2, SMT
<1> HIDE DEF Span, t, X
<1>7. LevelsFit(Level)
  BY LevelsAlwaysFit DEF Inv
<1> DEFINE e == clock - t
           Y == (AddrBurst + AddrRate * e) \div Token
<1>8. e \in Nat /\ Y \in Nat /\ Y <= Short
  <2>1. e \in Nat /\ e <= Span BY <1>6
  <2>2. Y \in Nat BY <1>7, <2>1, SlotsType
  <2> HIDE DEF e
  <2>3. PICK f \in Nat : Span = e + f
    <3>1. Span - e \in Nat /\ Span = e + (Span - e) BY <1>2, <2>1, SMT
    <3> QED BY <3>1
  <2>4. AddrRate * e \in Nat /\ AddrRate * f \in Nat /\ AddrRate * Span = AddrRate * e + AddrRate * f
    BY <1>1, <2>1, <2>3, SMT
  <2>5. AddrBurst + AddrRate * e \in Nat /\ AddrBurst + AddrRate * e <= X
    BY <1>1, <2>4, SMT DEF X
  <2>6. Y <= X \div Token BY <1>1, <1>3, <2>5, QuotientGrows
  <2> QED BY <1>3, <2>1, <2>2, <2>6
<1>9. Cardinality(Peers) \in Nat
  BY FinitelyMany, FS_CardinalityType
<1>10. /\ Cardinality(Slots(Level, e)) \in Nat
       /\ Cardinality(Slots(Level, e)) <= Cardinality(Peers) * Short
  <2>1. /\ Cardinality(Slots(Level, e)) \in Nat
        /\ Cardinality(Slots(Level, e)) <= Cardinality(Peers) * Y
    BY <1>7, <1>8, SlotsType
  <2> HIDE DEF Y, e
  <2>2. PICK f \in Nat : Short = Y + f
    <3>1. Short - Y \in Nat /\ Short = Y + (Short - Y) BY <1>4, <1>8, SMT
    <3> QED BY <3>1
  <2> DEFINE P == Cardinality(Peers)
  <2>3. P \in Nat BY <1>9
  <2> HIDE DEF P
  <2>4. P * Y \in Nat /\ P * f \in Nat /\ P * Short = P * Y + P * f
    BY <1>8, <2>2, <2>3, SMT
  <2>5. P * Y <= P * Short BY <2>4, SMT
  <2>6. Cardinality(Slots(Level, e)) <= P * Y BY <2>1 DEF P
  <2>7. Cardinality(Slots(Level, e)) <= P * Short BY <2>1, <2>4, <2>5, <2>6, SMT
  <2> QED BY <2>1, <2>7 DEF P
<1> HIDE DEF Y
<1>11. /\ IsFiniteSet(S) /\ Cardinality(S) <= Cardinality(KeysSince(t))
       /\ Cardinality(S) \in Nat /\ Cardinality(KeysSince(t)) \in Nat
  <2>1. IsFiniteSet(KeysSince(t)) BY FS_Subset DEF KeysSince
  <2> QED BY <1>5, <2>1, FS_Subset, FS_CardinalityType
<1>12. /\ Cardinality(PastAddress) \in Nat /\ Cardinality(Client) \in Nat
       /\ Cardinality(Peers) \in Nat
  <2>1. IsFiniteSet(PastAddress) BY FinitelyMany, FS_Subset DEF PastAddress
  <2> QED BY <2>1, FinitelyMany, FS_CardinalityType
<1>13. Cardinality(KeysSince(t)) + Cardinality(PastAddress)
         <= Cardinality(Client) + Cardinality(Slots(Level, e))
  BY <1>6 DEF Accounted
<1>14. Cardinality(Peers) * Short \in Nat
  BY <1>4, <1>12, SMT
<1> QED BY <1>4, <1>10, <1>11, <1>12, <1>13, <1>14, SMT

-----------------------------------------------------------------------------
(* The steps.                                                              *)

LEMMA FiniteSets ==
  ASSUME IsFiniteSet(DOMAIN buckets)
  PROVE  /\ IsFiniteSet(PastAddress) /\ IsFiniteSet(Client)
         /\ \A t : IsFiniteSet(KeysSince(t))
<1>1. IsFiniteSet(PastAddress)
  BY FinitelyMany, FS_Subset DEF PastAddress
<1>2. ASSUME NEW t PROVE IsFiniteSet(KeysSince(t))
  BY FS_Subset DEF KeysSince
<1> QED BY <1>1, <1>2, FinitelyMany

LEMMA AccountedInit == Init => Accounted
<1> SUFFICES ASSUME Init, NEW t \in 0..clock
             PROVE  Cardinality(KeysSince(t)) + Cardinality(PastAddress)
                      <= Cardinality(Client) + Cardinality(Slots(Level, clock - t))
  BY DEF Accounted
<1>1. clock = 0 /\ DOMAIN buckets = {} /\ \A c \in Client : request[c].todo = <<>>
  BY DEF Init
<1>2. KeysSince(t) = {} /\ PastAddress = {}
  BY <1>1 DEF KeysSince, PastAddress
<1>3. Cardinality(Client) \in Nat
  BY FinitelyMany, FS_CardinalityType
<1>4. Cardinality(Slots(Level, clock - t)) \in Nat
  <2>1. LevelsFit(Level) BY InitInv, LevelsAlwaysFit DEF Inv
  <2>2. clock - t \in Nat BY <1>1, SMT
  <2> QED BY <2>1, <2>2, SlotsType
<1> QED BY <1>2, <1>3, <1>4, FS_EmptySet, SMT

\* Nothing is charged, and as many are about to be.
LEMMA AccountedStays ==
  ASSUME Accounted, UNCHANGED <<buckets, clock>>, PastAddress' = PastAddress
  PROVE  Accounted'
<1>1. Level' = Level
  BY DEF Level
<1> QED BY <1>1 DEF Accounted, KeysSince

LEMMA AccountedTick ==
  ASSUME Inv, IsFiniteSet(DOMAIN buckets), Accounted, Tick
  PROVE  Accounted'
<1>1. /\ clock \in Nat /\ clock' = clock + 1 /\ UNCHANGED <<buckets, request>>
  BY DEF Inv, TypeOK, Tick
<1>2. KeysSince(0)' = KeysSince(0) /\ PastAddress' = PastAddress
  BY <1>1 DEF KeysSince, PastAddress
<1>3. AddrBurst \in Nat /\ AddrRate \in Nat
  BY RateLimiterAssumption
<1>4. LevelsFit(Level)
  BY LevelsAlwaysFit DEF Inv
<1>5. ASSUME NEW a \in Peers
      PROVE  /\ Level[<<"addr", a>>] \in 0..AddrBurst /\ Level'[<<"addr", a>>] \in 0..AddrBurst
             /\ Level'[<<"addr", a>>] <= Level[<<"addr", a>>] + AddrRate
  <2>1. <<"addr", a>> \in Bucket /\ Burst[<<"addr", a>>] = AddrBurst /\ Rate[<<"addr", a>>] = AddrRate
    BY AddrLimits
  <2>2. Level[<<"addr", a>>] \in 0..AddrBurst BY <1>4 DEF LevelsFit
  <2>3. Level'[<<"addr", a>>] = Least(AddrBurst, Level[<<"addr", a>>] + AddrRate)
    BY <2>1, TickRefills DEF Inv
  <2> QED BY <1>3, <2>2, <2>3, SMT DEF Least
<1>6. LevelsFit(Level')
  BY <1>5 DEF LevelsFit
<1>7. Cardinality(PastAddress) \in Nat /\ Cardinality(Client) \in Nat
      /\ Cardinality(PastAddress) <= Cardinality(Client)
  BY FinitelyMany, NoMore DEF PastAddress
<1> SUFFICES ASSUME NEW t \in 0..(clock + 1)
             PROVE  Cardinality(KeysSince(t)) + Cardinality(PastAddress)
                      <= Cardinality(Client) + Cardinality(Slots(Level', (clock + 1) - t))
  BY <1>1 DEF Accounted, KeysSince, PastAddress
<1>8. CASE t = clock + 1
  <2>1. KeysSince(t) = {}
    <3>1. \A b \in DOMAIN buckets : buckets[b].last \in 0..clock BY BucketRecord DEF Inv
    <3>2. \A i \in 0..clock : ~(i >= t) BY <1>1, <1>8, SMT
    <3> QED BY <3>1, <3>2 DEF KeysSince
  <2>2. Cardinality(KeysSince(t)) = 0 BY <2>1, FS_EmptySet
  <2>3. (clock + 1) - t \in Nat BY <1>1, SMT
  <2>4. Cardinality(Slots(Level', (clock + 1) - t)) \in Nat BY <1>6, <2>3, SlotsType
  <2> QED BY <1>7, <2>2, <2>4, SMT
<1>9. CASE t # clock + 1
  <2> DEFINE e == clock - t
             f == (clock + 1) - t
  <2>1. t \in 0..clock /\ e \in Nat /\ f \in Nat /\ f = e + 1
    BY <1>1, <1>9, SMT
  <2>2. Cardinality(KeysSince(t)) + Cardinality(PastAddress)
          <= Cardinality(Client) + Cardinality(Slots(Level, e))
    BY <2>1 DEF Accounted
  <2> HIDE DEF e, f
  <2>3. ASSUME NEW a \in Peers
        PROVE  AddrRate * e - Level[<<"addr", a>>] <= AddrRate * f - Level'[<<"addr", a>>]
    <3>1. AddrRate * e \in Nat /\ AddrRate * f = AddrRate * e + AddrRate BY <1>3, <2>1, SMT
    <3>2. /\ Level[<<"addr", a>>] \in 0..AddrBurst /\ Level'[<<"addr", a>>] \in 0..AddrBurst
          /\ Level'[<<"addr", a>>] <= Level[<<"addr", a>>] + AddrRate
      BY <1>5
    <3> QED BY <1>3, <3>1, <3>2, SMT
  <2>4. Cardinality(Slots(Level, e)) <= Cardinality(Slots(Level', f))
    BY <1>4, <1>6, <2>1, <2>3, SlotsGrow
  <2>5. Cardinality(Slots(Level, e)) \in Nat /\ Cardinality(Slots(Level', f)) \in Nat
    BY <1>4, <1>6, <2>1, SlotsType
  <2>6. Cardinality(KeysSince(t)) \in Nat
    BY FiniteSets, FS_CardinalityType
  <2>7. Cardinality(KeysSince(t)) + Cardinality(PastAddress)
          <= Cardinality(Client) + Cardinality(Slots(Level', f))
    BY <1>7, <2>2, <2>4, <2>5, <2>6, SMT
  <2> QED BY <2>7 DEF f
<1> QED BY <1>8, <1>9

\* The bucket at the head of a request's charges.
LEMMA HeadFits ==
  ASSUME Inv, TodoFits, NEW c \in Client, request[c].todo # <<>>
  PROVE  LET b == Head(request[c].todo) IN
         /\ b \in Bucket /\ b[1] \in {"addr", "auth", "key"}
         /\ b[1] # "key" => b[2] \in Peers
         /\ b[1] = "addr" => b = <<"addr", b[2]>>
         /\ b[1] # "addr" => Tail(request[c].todo) = <<>> \/ Head(Tail(request[c].todo))[1] # "key"
<1> DEFINE todo == request[c].todo
           b == Head(todo)
<1>1. todo \in Seq(Bucket) /\ todo # <<>>
  BY RequestRecord DEF Inv
<1>2. /\ \A i \in 1..Len(todo) :
           /\ todo[i][1] # "key" => todo[i][2] \in Peers
           /\ todo[i][1] = "key" /\ i > 1 => todo[i - 1][1] = "addr"
  BY DEF TodoFits
<1> HIDE DEF todo
<1>3. b = todo[1] /\ b \in Bucket /\ 1 \in 1..Len(todo) /\ Len(todo) \in Nat
  BY <1>1
<1>4. b[1] \in {"addr", "auth", "key"} /\ (b[1] = "addr" => b = <<"addr", b[2]>>)
  BY <1>3 DEF Bucket
<1>5. ASSUME Tail(todo) # <<>>, Head(Tail(todo))[1] = "key"
      PROVE  b[1] = "addr"
  <2>1. 2 \in 1..Len(todo) /\ Head(Tail(todo)) = todo[2]
    BY <1>1, <1>5
  <2> QED BY <1>2, <1>3, <1>5, <2>1
<1> QED BY <1>2, <1>3, <1>4, <1>5 DEF todo

LEMMA TodoStep ==
  ASSUME ~MayWait, ~TrustProxy, Inv, TodoFits, [Next]_vars
  PROVE  TodoFits'
<1>1. CASE UNCHANGED vars \/ Tick
  BY <1>1 DEF TodoFits, vars, Tick
<1>2. ASSUME NEW c \in Client, NEW r \in Requests, Arrive(c, r) PROVE TodoFits'
  <2>1. /\ request'[c].todo = ChargesOf(r)
        /\ \A d \in Client \ {c} : request'[d] = request[d]
    BY <1>2 DEF Arrive, Inv, TypeOK
  <2>2. ASSUME NEW d \in Client, NEW i \in 1..Len(request'[d].todo)
        PROVE  /\ request'[d].todo[i][1] # "key" => request'[d].todo[i][2] \in Peers
               /\ request'[d].todo[i][1] = "key" /\ i > 1 => request'[d].todo[i - 1][1] = "addr"
    <3>1. CASE d = c
      <4>1. i \in 1..Len(ChargesOf(r)) /\ request'[d].todo = ChargesOf(r)
        BY <2>1, <3>1
      <4>2. /\ ChargesOf(r)[i][1] # "key" => ChargesOf(r)[i][2] \in Peers
            /\ ChargesOf(r)[i][1] = "key" => i > 1 /\ ChargesOf(r)[i - 1][1] = "addr"
        BY <4>1, ChargesFit
      <4> QED BY <4>1, <4>2
    <3>2. CASE d # c
      <4>1. request'[d].todo = request[d].todo
        BY <2>1, <3>2
      <4> QED BY <4>1 DEF TodoFits
    <3> QED BY <3>1, <3>2
  <2> QED BY <2>2 DEF TodoFits
<1>3. ASSUME NEW c \in Client, ReadClock(c) PROVE TodoFits'
  <2>1. \A d \in Client : request'[d].todo = request[d].todo
    BY <1>3 DEF ReadClock, Inv, TypeOK
  <2> QED BY <2>1 DEF TodoFits
<1>4. ASSUME NEW c \in Client, Consume(c) PROVE TodoFits'
  <2> DEFINE todo == request[c].todo
  <2>1. todo \in Seq(Bucket) /\ todo # <<>>
    BY <1>4, RequestRecord DEF Inv, Consume
  <2>2. /\ \A d \in Client \ {c} : request'[d].todo = request[d].todo
        /\ request'[c].todo \in {<<>>, Tail(todo)}
    BY <1>4, ConsumedTodo
  <2>3. \A i \in 1..Len(todo) :
          /\ todo[i][1] # "key" => todo[i][2] \in Peers
          /\ todo[i][1] = "key" /\ i > 1 => todo[i - 1][1] = "addr"
    BY DEF TodoFits
  <2> HIDE DEF todo
  <2>4. ASSUME NEW i \in 1..Len(Tail(todo))
        PROVE  /\ Tail(todo)[i] = todo[i + 1] /\ i + 1 \in 1..Len(todo)
               /\ i > 1 => Tail(todo)[i - 1] = todo[i] /\ i + 1 > 1 /\ (i + 1) - 1 = i
    BY <2>1
  <2>5. \A i \in 1..Len(Tail(todo)) :
          /\ Tail(todo)[i][1] # "key" => Tail(todo)[i][2] \in Peers
          /\ Tail(todo)[i][1] = "key" /\ i > 1 => Tail(todo)[i - 1][1] = "addr"
    BY <2>3, <2>4
  <2>6. \A i \in 1..Len(request'[c].todo) :
          /\ request'[c].todo[i][1] # "key" => request'[c].todo[i][2] \in Peers
          /\ request'[c].todo[i][1] = "key" /\ i > 1 => request'[c].todo[i - 1][1] = "addr"
    <3>1. CASE request'[c].todo = <<>> BY <3>1
    <3>2. CASE request'[c].todo = Tail(todo) BY <2>5, <3>2
    <3> QED BY <2>2, <3>1, <3>2
  <2> QED BY <2>2, <2>6 DEF TodoFits
<1> QED BY <1>1, <1>2, <1>3, <1>4 DEF Next

\* A charge of an address pays for the one of a key that may follow, and that
\* one leaves the others their slots.
LEMMA AccountedConsume ==
  ASSUME Inv, TodoFits, IsFiniteSet(DOMAIN buckets), Accounted, NEW c \in Client, Consume(c)
  PROVE  Accounted'
<1> DEFINE b == Head(request[c].todo)
           rest == Tail(request[c].todo)
<1>1. /\ clock' = clock /\ clock \in Nat /\ request[c].todo # <<>>
      /\ Token \in Nat \ {0} /\ AddrRate \in Nat /\ AddrBurst \in Nat
  BY RateLimiterAssumption DEF Inv, TypeOK, Consume
<1>2. /\ b \in Bucket /\ b[1] \in {"addr", "auth", "key"}
      /\ b[1] # "key" => b[2] \in Peers
      /\ b[1] = "addr" => b = <<"addr", b[2]>>
      /\ b[1] # "addr" => rest = <<>> \/ Head(rest)[1] # "key"
  BY <1>1, HeadFits
<1>3. LevelsFit(Level)
  BY LevelsAlwaysFit DEF Inv
<1>4. /\ \A d \in Client \ {c} : request'[d].todo = request[d].todo
      /\ request'[c].todo \in {<<>>, rest}
  BY ConsumedTodo
<1>5. ASSUME NEW t
      PROVE  /\ KeysSince(t)' \subseteq KeysSince(t) \cup {b}
             /\ b[1] # "key" => KeysSince(t)' \subseteq KeysSince(t)
  BY ConsumedMap, ZenonT(60) DEF KeysSince
<1>6. PastAddress' \subseteq PastAddress \cup {c}
  BY <1>4 DEF PastAddress
<1>7. b[1] # "addr" \/ request'[c].todo = <<>> => PastAddress' \subseteq PastAddress \ {c}
  BY <1>2, <1>4 DEF PastAddress
<1>8. b[1] = "key" => c \in PastAddress
  BY <1>1 DEF PastAddress
<1>9. IsFiniteSet(PastAddress) /\ \A t : IsFiniteSet(KeysSince(t))
  BY FiniteSets
<1>10. Cardinality(Client) \in Nat
  BY FinitelyMany, FS_CardinalityType
<1>11. Level[b] \in Nat /\ Level \in [Bucket -> Nat]
  BY <1>2, LevelTypes DEF Inv, Level
<1>12. \/ /\ Level[b] >= Token /\ Level' = [Level EXCEPT ![b] = @ - Token]
          /\ request'[c].todo = rest
       \/ Level' = Level /\ request'[c].todo = <<>>
  <2>1. \/ /\ Level[b] >= Token /\ Level' = [Level EXCEPT ![b] = @ - Token]
           /\ request' = [request EXCEPT ![c] =
                [todo |-> rest, now |-> Unread,
                 verdict |-> IF rest = <<>> THEN "accepted" ELSE "none"]]
        \/ /\ Level' = Level
           /\ request' = [request EXCEPT ![c] =
                [todo |-> <<>>, now |-> Unread, verdict |-> "refused"]]
    BY ConsumeIsAtomic
  <2> HIDE DEF b, rest
  <2>2. request \in [Client -> [todo : Seq(Bucket), now : {Unread} \union 0..clock,
                                verdict : {"none", "accepted", "refused"}]]
    BY DEF Inv, TypeOK
  <2> QED BY <2>1, <2>2
<1>13. LevelsFit(Level')
  <2> SUFFICES ASSUME NEW a \in Peers PROVE Level'[<<"addr", a>>] \in 0..AddrBurst
    BY DEF LevelsFit
  <2>1. <<"addr", a>> \in Bucket /\ Level[<<"addr", a>>] \in 0..AddrBurst
    BY <1>3, AddrLimits DEF LevelsFit
  <2> HIDE DEF b
  <2>2. CASE <<"addr", a>> = b
    <3>1. \/ Level'[b] = Level[b] - Token /\ Level[b] >= Token
          \/ Level'[b] = Level[b]
      BY <1>2, <1>11, <1>12
    <3> QED BY <1>1, <1>11, <2>1, <2>2, <3>1, SMT
  <2>3. CASE <<"addr", a>> # b
    BY <1>11, <1>12, <2>1, <2>3
  <2> QED BY <2>2, <2>3
<1> HIDE DEF b, rest
<1> SUFFICES ASSUME NEW t \in 0..clock
             PROVE  Cardinality(KeysSince(t)') + Cardinality(PastAddress')
                      <= Cardinality(Client) + Cardinality(Slots(Level', clock - t))
  BY <1>1 DEF Accounted
<1> DEFINE e == clock - t
<1>14. /\ e \in Nat
       /\ Cardinality(KeysSince(t)) + Cardinality(PastAddress)
            <= Cardinality(Client) + Cardinality(Slots(Level, e))
  BY <1>1, SMT DEF Accounted
<1> HIDE DEF e
<1>15. Cardinality(Slots(Level, e)) \in Nat /\ Cardinality(Slots(Level', e)) \in Nat
  BY <1>3, <1>13, <1>14, SlotsType
<1>16. CASE b[1] # "addr" \/ request'[c].todo = <<>>
  <2>1. Cardinality(Slots(Level, e)) <= Cardinality(Slots(Level', e))
    <3>1. ASSUME NEW a \in Peers
          PROVE  AddrRate * e - Level[<<"addr", a>>] <= AddrRate * e - Level'[<<"addr", a>>]
      <4>1. /\ <<"addr", a>> \in Bucket
            /\ Level[<<"addr", a>>] \in 0..AddrBurst /\ Level'[<<"addr", a>>] \in 0..AddrBurst
        BY <1>3, <1>13, AddrLimits DEF LevelsFit
      <4>2. Level'[<<"addr", a>>] <= Level[<<"addr", a>>]
        <5>1. CASE <<"addr", a>> = b
          <6>1. \/ Level'[b] = Level[b] - Token \/ Level'[b] = Level[b]
            BY <1>2, <1>11, <1>12
          <6> QED BY <1>1, <1>11, <5>1, <6>1, SMT
        <5>2. CASE <<"addr", a>> # b
          <6>1. Level'[<<"addr", a>>] = Level[<<"addr", a>>] BY <1>11, <1>12, <4>1, <5>2
          <6> QED BY <1>1, <4>1, <6>1, SMT
        <5> QED BY <5>1, <5>2
      <4>3. AddrRate * e \in Nat BY <1>1, <1>14, SMT
      <4> QED BY <1>1, <4>1, <4>2, <4>3, SMT
    <3> QED BY <1>3, <1>13, <1>14, <3>1, SlotsGrow
  <2>2. CASE b[1] = "key"
    <3>1. /\ Cardinality(PastAddress') \in Nat /\ Cardinality(PastAddress) \in Nat
          /\ Cardinality(PastAddress') + 1 <= Cardinality(PastAddress)
      <4>1. PastAddress' \subseteq PastAddress \ {c} BY <1>7, <1>16
      <4>2. c \in PastAddress BY <1>8, <2>2
      <4> QED BY <1>9, <4>1, <4>2, OneLess
    <3>2. /\ Cardinality(KeysSince(t)') \in Nat /\ Cardinality(KeysSince(t)) \in Nat
          /\ Cardinality(KeysSince(t)') <= Cardinality(KeysSince(t)) + 1
      <4>1. KeysSince(t)' \subseteq KeysSince(t) \cup {b} BY <1>5
      <4> QED BY <1>9, <4>1, OneMore
    <3>3. Cardinality(KeysSince(t)') + Cardinality(PastAddress')
            <= Cardinality(Client) + Cardinality(Slots(Level', e))
      BY <1>10, <1>14, <1>15, <2>1, <3>1, <3>2, SMT
    <3> QED BY <3>3 DEF e
  <2>3. CASE b[1] # "key"
    <3>1. /\ Cardinality(PastAddress') \in Nat /\ Cardinality(PastAddress) \in Nat
          /\ Cardinality(PastAddress') <= Cardinality(PastAddress)
      <4>1. PastAddress' \subseteq PastAddress BY <1>7, <1>16
      <4> QED BY <1>9, <4>1, NoMore
    <3>2. /\ Cardinality(KeysSince(t)') \in Nat /\ Cardinality(KeysSince(t)) \in Nat
          /\ Cardinality(KeysSince(t)') <= Cardinality(KeysSince(t))
      <4>1. KeysSince(t)' \subseteq KeysSince(t) BY <1>5, <2>3
      <4> QED BY <1>9, <4>1, NoMore
    <3>3. Cardinality(KeysSince(t)') + Cardinality(PastAddress')
            <= Cardinality(Client) + Cardinality(Slots(Level', e))
      BY <1>10, <1>14, <1>15, <2>1, <3>1, <3>2, SMT
    <3> QED BY <3>3 DEF e
  <2> QED BY <2>2, <2>3
<1>17. CASE b[1] = "addr" /\ request'[c].todo # <<>>
  <2>1. PICK a \in Peers : b = <<"addr", a>>
    BY <1>2, <1>17
  <2>2. /\ Level'[<<"addr", a>>] = Level[<<"addr", a>>] - Token
        /\ \A p \in Peers \ {a} : Level'[<<"addr", p>>] = Level[<<"addr", p>>]
    <3>1. Level' = [Level EXCEPT ![b] = @ - Token] BY <1>12, <1>17
    <3>2. \A p \in Peers : <<"addr", p>> \in Bucket BY AddrLimits
    <3> QED BY <1>11, <2>1, <3>1, <3>2
  <2>3. Cardinality(Slots(Level, e)) + 1 <= Cardinality(Slots(Level', e))
    BY <1>3, <1>13, <1>14, <2>2, SlotsPass
  <2>4. /\ Cardinality(PastAddress') \in Nat /\ Cardinality(PastAddress) \in Nat
        /\ Cardinality(PastAddress') <= Cardinality(PastAddress) + 1
    BY <1>6, <1>9, OneMore
  <2>5. /\ Cardinality(KeysSince(t)') \in Nat /\ Cardinality(KeysSince(t)) \in Nat
        /\ Cardinality(KeysSince(t)') <= Cardinality(KeysSince(t))
    <3>1. KeysSince(t)' \subseteq KeysSince(t) BY <1>5, <1>17
    <3> QED BY <1>9, <3>1, NoMore
  <2>6. Cardinality(KeysSince(t)') + Cardinality(PastAddress')
          <= Cardinality(Client) + Cardinality(Slots(Level', e))
    BY <1>10, <1>14, <1>15, <2>3, <2>4, <2>5, SMT
  <2> QED BY <2>6 DEF e
<1> QED BY <1>16, <1>17

\* A bucket that is added finds the map below the threshold, or pruned down to
\* the addresses and the keys that are short.
LEMMA BoundedConsume ==
  ASSUME Inv, TodoFits, MapFits, Accounted, BucketsBounded, NEW c \in Client, Consume(c)
  PROVE  MapFits' /\ BucketsBounded'
<1> DEFINE b == Head(request[c].todo)
           Late == {d \in DOMAIN buckets : ~IsRefilled(d, buckets[d], clock)}
           S == {d \in DOMAIN buckets : d[1] = "key" /\ ~IsRefilled(d, buckets[d], clock)}
           held == Cardinality(Peers) * (2 + Short) + Cardinality(Client)
           bound == IF PruneThreshold > held THEN PruneThreshold ELSE held
<1>1. request[c].todo # <<>>
  BY DEF Consume
<1>2. /\ b \in Bucket /\ b[1] \in {"addr", "auth", "key"}
      /\ b[1] # "key" => b[2] \in Peers
      /\ b[1] = "addr" => b = <<"addr", b[2]>>
  BY <1>1, HeadFits
<1>3. IsFiniteSet(DOMAIN buckets) /\ \A d \in DOMAIN buckets : d[1] # "key" => d[2] \in Peers
  BY DEF MapFits
<1>4. /\ b \in DOMAIN buckets' /\ \A d \in DOMAIN buckets' \ {b} : d \in DOMAIN buckets
      /\ \/ DOMAIN buckets' = DOMAIN buckets
         \/ /\ Cardinality(DOMAIN buckets) < PruneThreshold
            /\ DOMAIN buckets' = DOMAIN buckets \cup {b}
         \/ DOMAIN buckets' = Late \cup {b}
  BY <1>3, ConsumedMap
<1>5. /\ IsFiniteSet(S) /\ Short \in Nat
      /\ Cardinality(S) + Cardinality(PastAddress)
           <= Cardinality(Client) + Cardinality(Peers) * Short
  BY <1>3, ShortKeys
<1>6. /\ Cardinality(Client) \in Nat /\ Cardinality(Peers) \in Nat /\ PruneThreshold \in Nat
      /\ IsFiniteSet(PastAddress) /\ Cardinality(PastAddress) \in Nat
      /\ Cardinality(S) \in Nat /\ Cardinality(DOMAIN buckets) \in Nat
  BY <1>3, <1>5, FinitelyMany, FiniteSets, FS_CardinalityType, RateLimiterAssumption
<1>7. b[1] = "key" => c \in PastAddress
  BY <1>1 DEF PastAddress
<1>8. held = 2 * Cardinality(Peers) + Cardinality(Peers) * Short + Cardinality(Client)
      /\ held \in Nat /\ Cardinality(Peers) * Short \in Nat
  BY <1>5, <1>6, SMT
<1>9. BucketsBounded = (Cardinality(DOMAIN buckets) <= bound)
  BY DEF BucketsBounded
<1>10. BucketsBounded' = (Cardinality(DOMAIN buckets') <= bound)
  BY DEF BucketsBounded, Short
<1>11. \A d \in Bucket : d[1] # "key" => d \in {"addr", "auth"} \X {d[2]}
  BY DEF Bucket
<1> HIDE DEF b, held, Late, S
<1>12. MapFits'
  <2>1. IsFiniteSet(DOMAIN buckets')
    <3>1. DOMAIN buckets' \subseteq DOMAIN buckets \cup {b} BY <1>4
    <3> QED BY <1>3, <3>1, OneMore
  <2> QED BY <1>2, <1>3, <1>4, <2>1 DEF MapFits
<1>13. Cardinality(DOMAIN buckets') <= bound
  <2>1. CASE DOMAIN buckets' = DOMAIN buckets
    BY <1>9, <2>1
  <2>2. CASE /\ Cardinality(DOMAIN buckets) < PruneThreshold
             /\ DOMAIN buckets' = DOMAIN buckets \cup {b}
    <3>1. /\ Cardinality(DOMAIN buckets') \in Nat
          /\ Cardinality(DOMAIN buckets') <= Cardinality(DOMAIN buckets) + 1
      BY <1>3, <2>2, OneMore
    <3> QED BY <1>6, <1>8, <2>2, <3>1, SMT
  <2>3. CASE DOMAIN buckets' = Late \cup {b}
    <3> DEFINE keys == IF b[1] = "key" THEN S \cup {b} ELSE S
               addresses == {"addr", "auth"} \X Peers
    <3>1. DOMAIN buckets' \subseteq keys \cup addresses
      <4>1. ASSUME NEW d \in Late PROVE d \in keys \cup addresses
        <5>1. d \in DOMAIN buckets /\ ~IsRefilled(d, buckets[d], clock) BY DEF Late
        <5>2. CASE d[1] = "key" BY <5>1, <5>2 DEF S
        <5>3. CASE d[1] # "key"
          <6>1. d \in Bucket /\ d[2] \in Peers BY <1>3, <5>1, <5>3 DEF Inv, TypeOK
          <6> QED BY <1>11, <5>3, <6>1
        <5> QED BY <5>2, <5>3
      <4>2. b \in keys \cup addresses
        BY <1>2, <1>11
      <4> HIDE DEF keys, addresses
      <4> QED BY <2>3, <4>1, <4>2
    <3>2. /\ IsFiniteSet(keys) /\ Cardinality(keys) \in Nat
          /\ Cardinality(keys) <= Cardinality(Client) + Cardinality(Peers) * Short
      <4>1. CASE b[1] = "key"
        <5>1. 1 <= Cardinality(PastAddress)
          <6>1. PastAddress # {} BY <1>7, <4>1
          <6> QED BY <1>6, <6>1, FS_EmptySet, SMT
        <5>2. /\ IsFiniteSet(S \cup {b}) /\ Cardinality(S \cup {b}) \in Nat
              /\ Cardinality(S \cup {b}) <= Cardinality(S) + 1
          BY <1>5, OneMore
        <5>3. Cardinality(S \cup {b}) <= Cardinality(Client) + Cardinality(Peers) * Short
          BY <1>5, <1>6, <1>8, <5>1, <5>2, SMT
        <5> QED BY <4>1, <5>2, <5>3
      <4>2. CASE b[1] # "key"
        <5>1. Cardinality(S) <= Cardinality(Client) + Cardinality(Peers) * Short
          BY <1>5, <1>6, <1>8, SMT
        <5> QED BY <1>5, <1>6, <4>2, <5>1
      <4> QED BY <4>1, <4>2
    <3>3. IsFiniteSet(addresses) /\ Cardinality(addresses) = 2 * Cardinality(Peers)
      <4>1. IsFiniteSet({"addr"}) /\ Cardinality({"addr"}) = 1 BY FS_Singleton
      <4>2. {"addr", "auth"} = {"addr"} \cup {"auth"} /\ "auth" \notin {"addr"} OBVIOUS
      <4>3. /\ IsFiniteSet({"addr"} \cup {"auth"})
            /\ Cardinality({"addr"} \cup {"auth"}) = 1 + 1
        BY <4>1, <4>2, FS_AddElement
      <4>4. IsFiniteSet({"addr", "auth"}) /\ Cardinality({"addr", "auth"}) = 2
        BY <4>2, <4>3
      <4> QED BY <4>4, FinitelyMany, FS_Product
    <3> HIDE DEF keys, addresses
    <3>4. /\ IsFiniteSet(keys \cup addresses) /\ Cardinality(keys \cup addresses) \in Nat
          /\ Cardinality(keys \cup addresses) <= Cardinality(keys) + Cardinality(addresses)
      <4>1. /\ IsFiniteSet(keys \cup addresses)
            /\ Cardinality(keys \cup addresses)
                 = Cardinality(keys) + Cardinality(addresses) - Cardinality(keys \cap addresses)
        BY <3>2, <3>3, FS_Union
      <4>2. Cardinality(keys \cap addresses) \in Nat
        BY <3>2, FS_Intersection, FS_CardinalityType
      <4>3. Cardinality(keys \cup addresses) \in Nat /\ Cardinality(addresses) \in Nat
        BY <3>3, <4>1, FS_CardinalityType
      <4> QED BY <3>2, <4>1, <4>2, <4>3, SMT
    <3>5. /\ Cardinality(DOMAIN buckets') \in Nat
          /\ Cardinality(DOMAIN buckets') <= Cardinality(keys \cup addresses)
      BY <3>1, <3>4, NoMore
    <3>6. Cardinality(DOMAIN buckets') <= held
      BY <1>6, <1>8, <3>2, <3>3, <3>4, <3>5, SMT
    <3> QED BY <1>6, <1>8, <3>5, <3>6, SMT
  <2> QED BY <1>4, <2>1, <2>2, <2>3
<1> QED BY <1>10, <1>12, <1>13

LEMMA BoundInit == Init => BoundInv
<1> SUFFICES ASSUME Init PROVE BoundInv
  OBVIOUS
<1>1. Inv /\ Accounted
  BY InitInv, AccountedInit
<1>2. DOMAIN buckets = {} /\ \A c \in Client : request[c].todo = <<>>
  BY DEF Init
<1>3. TodoFits
  BY <1>2 DEF TodoFits
<1>4. MapFits
  BY <1>2, FS_EmptySet DEF MapFits
<1>5. BucketsBounded
  <2> DEFINE held == Cardinality(Peers) * (2 + Short) + Cardinality(Client)
  <2>1. Cardinality(DOMAIN buckets) = 0 BY <1>2, FS_EmptySet
  <2>2. PruneThreshold \in Nat BY RateLimiterAssumption
  <2>3. Short \in Nat BY <1>1, <1>4, ShortKeys DEF MapFits
  <2>4. Cardinality(Peers) \in Nat /\ Cardinality(Client) \in Nat
    BY FinitelyMany, FS_CardinalityType
  <2>5. held \in Nat BY <2>3, <2>4, SMT
  <2> HIDE DEF held
  <2>6. 0 <= IF PruneThreshold > held THEN PruneThreshold ELSE held BY <2>2, <2>5, SMT
  <2> QED BY <2>1, <2>6 DEF BucketsBounded, held
<1> QED BY <1>1, <1>3, <1>4, <1>5 DEF BoundInv

LEMMA BoundStep == ASSUME ~MayWait, ~TrustProxy, BoundInv, [Next]_vars PROVE BoundInv'
<1>1. Inv' /\ TodoFits'
  BY NextInv, TodoStep DEF BoundInv
<1>2. IsFiniteSet(DOMAIN buckets)
  BY DEF BoundInv, MapFits
<1>3. ASSUME UNCHANGED buckets PROVE MapFits' /\ BucketsBounded'
  BY <1>3 DEF BoundInv, MapFits, BucketsBounded, Short
<1>4. CASE UNCHANGED vars
  <2>1. PastAddress' = PastAddress /\ UNCHANGED <<buckets, clock>>
    BY <1>4 DEF vars, PastAddress
  <2> QED BY <1>1, <1>3, <2>1, AccountedStays DEF BoundInv
<1>5. ASSUME NEW c \in Client, NEW r \in Requests, Arrive(c, r) PROVE BoundInv'
  <2>1. /\ request'[c].todo = ChargesOf(r) /\ request[c].todo = <<>>
        /\ \A d \in Client \ {c} : request'[d] = request[d]
        /\ UNCHANGED <<buckets, clock>>
    BY <1>5 DEF Arrive, BoundInv, Inv, TypeOK
  <2>2. PastAddress' = PastAddress
    BY <2>1, ChargesFit DEF PastAddress
  <2> QED BY <1>1, <1>3, <2>1, <2>2, AccountedStays DEF BoundInv
<1>6. ASSUME NEW c \in Client, ReadClock(c) PROVE BoundInv'
  <2>1. /\ \A d \in Client : request'[d].todo = request[d].todo
        /\ UNCHANGED <<buckets, clock>>
    BY <1>6 DEF ReadClock, BoundInv, Inv, TypeOK
  <2>2. PastAddress' = PastAddress
    BY <2>1 DEF PastAddress
  <2> QED BY <1>1, <1>3, <2>1, <2>2, AccountedStays DEF BoundInv
<1>7. ASSUME NEW c \in Client, Consume(c) PROVE BoundInv'
  BY <1>1, <1>2, <1>7, AccountedConsume, BoundedConsume DEF BoundInv
<1>8. CASE Tick
  <2>1. UNCHANGED buckets BY <1>8 DEF Tick
  <2> QED BY <1>1, <1>2, <1>3, <1>8, <2>1, AccountedTick DEF BoundInv
<1> QED BY <1>4, <1>5, <1>6, <1>7, <1>8 DEF Next

\* The map of allow_with never outgrows its threshold or what the addresses can
\* keep short of full, whatever keys clients make up, as long as x-forwarded-for
\* is not trusted.
THEOREM BoundedAlways == ~MayWait /\ ~TrustProxy => (Spec => []BucketsBounded)
<1> SUFFICES ASSUME ~MayWait, ~TrustProxy PROVE Spec => []BucketsBounded
  OBVIOUS
<1>1. BoundInv /\ [Next]_vars => BoundInv'
  BY BoundStep
<1>2. BoundInv => BucketsBounded
  BY DEF BoundInv
<1> QED BY <1>1, <1>2, BoundInit, PTL DEF Spec

-----------------------------------------------------------------------------
(* Accounts: the inductive invariant.                                      *)

KeyRecord ==
  [user : Nat, raw : Nat \cup AdminKey, created : Nat, lastUsed : Nat \cup {-1},
   disabled : BOOLEAN, cluster : BOOLEAN]

\* What the handlers carry from one statement to the next.
CarriedFits ==
  /\ DOMAIN proc = Request
  /\ \A p \in Request :
       /\ "pc" \in DOMAIN proc[p]
       /\ proc[p].pc \in {"session", "create", "revoke"} => proc[p].user \in DOMAIN users

Shapes ==
  /\ time \in Nat
  /\ users \in Seq(Name)
  /\ minted \in [session : Nat, key : Nat]
  /\ CarriedFits
  /\ apiKeys \in [DOMAIN apiKeys -> KeyRecord]

\* The table has what was granted, but for what has expired and been purged.
SessionsFit ==
  /\ \A t \in DOMAIN granted :
       granted[t].user \in DOMAIN users /\ granted[t].expires \in Nat
  /\ DOMAIN sessions \subseteq DOMAIN granted
  /\ \A t \in DOMAIN sessions : sessions[t] = granted[t]
  /\ \A t \in DOMAIN granted \ DOMAIN sessions : granted[t].expires <= time

\* No two rows have one secret, and none has one that is still to be minted.
SecretsFit ==
  /\ \A k \in DOMAIN apiKeys : apiKeys[k].raw \in A!Known
  /\ A!OneKeyPerSecret

\* A request that came with a revoked secret has still to look for its row, and
\* will find none that is not disabled.
RevokedFit ==
  \A p \in revoked :
    /\ p \in Request /\ proc[p].pc = "present" /\ proc[p].raw \in A!Known
    /\ \A k \in DOMAIN apiKeys : apiKeys[k].raw = proc[p].raw => apiKeys[k].disabled

AccountsInv == Shapes /\ SessionsFit /\ SecretsFit /\ RevokedFit

-----------------------------------------------------------------------------
(* Operators.                                                              *)

LEMMA PutFacts ==
  ASSUME NEW f, NEW x, NEW v
  PROVE  /\ DOMAIN A!Put(f, x, v) = DOMAIN f \cup {x}
         /\ A!Put(f, x, v)[x] = v
         /\ \A y \in DOMAIN f \ {x} : A!Put(f, x, v)[y] = f[y]
BY DEF A!Put

LEMMA WithoutFacts ==
  ASSUME NEW f, NEW S
  PROVE  /\ DOMAIN A!Without(f, S) = DOMAIN f \ S
         /\ \A y \in DOMAIN f \ S : A!Without(f, S)[y] = f[y]
BY DEF A!Without, A!Restrict

\* What a handler does to its own place, the others' stay.
LEMMA Moves ==
  ASSUME AccountsInv, NEW p \in Request, NEW state,
         A!Begin(p, state) \/ A!Goto(p, state)
  PROVE  /\ DOMAIN proc' = Request /\ proc'[p] = state
         /\ \A q \in Request \ {p} : proc'[q] = proc[q]
<1>1. proc' = [proc EXCEPT ![p] = state] /\ DOMAIN proc = Request
  BY DEF A!Begin, A!Goto, AccountsInv, Shapes, CarriedFits
<1>. QED  BY <1>1

\* resolve_session answers with a user, or with none.
LEMMA ResolvedUser ==
  ASSUME AccountsInv, NEW t, A!Resolved(t) # A!NoUser
  PROVE  A!Resolved(t) \in DOMAIN users
BY DEF A!Resolved

LEMMA UserIds ==
  ASSUME AccountsInv
  PROVE  DOMAIN users = 1..Len(users) /\ Len(users) \in Nat
BY DEF AccountsInv, Shapes

-----------------------------------------------------------------------------
(* Which step changes what.                                                *)

LEMMA SessionTables ==
  ASSUME A!Next
  PROVE  \/ \E p \in Request, n \in Name : A!Signup(p, n)
         \/ \E p \in Request : A!CreateSession(p)
         \/ \E p \in Request, t \in A!TokenId : A!Logout(p, t)
         \/ A!Purge
         \/ A!Tick
         \/ UNCHANGED <<time, users, sessions, granted>>
<1>1. CASE A!Restart
  BY <1>1 DEF A!Restart
<1>2. ASSUME NEW p \in Request, A!SessionStep(p)
      PROVE  \/ \E n \in Name : A!Signup(p, n)
             \/ A!CreateSession(p)
             \/ \E t \in A!TokenId : A!Logout(p, t)
             \/ UNCHANGED <<time, users, sessions, granted>>
  BY <1>2 DEF A!SessionStep, A!Login, A!SessionRequest, A!CreateKey, A!RevokeKey
<1>3. ASSUME NEW p \in Request, A!KeyStep(p)
      PROVE  UNCHANGED <<time, users, sessions, granted>>
  BY <1>3 DEF A!KeyStep, A!AdminRevoke, A!Present, A!Inject, A!Authenticate, A!Touch,
              A!UpdateLastUsed, A!UpdateFails, A!Answer
<1>. QED  BY <1>1, <1>2, <1>3 DEF A!Next

-----------------------------------------------------------------------------
(* Sessions.                                                               *)

LEMMA SessionsInit == A!Init => SessionsFit
BY DEF A!Init, A!NoRows, SessionsFit

\* Grants and rows come and go together, but for what is purged, which is over.
LEMMA SessionsStep ==
  ASSUME AccountsInv, A!Next
  PROVE  SessionsFit'
<1>1. /\ SessionsFit /\ time \in Nat /\ users \in Seq(Name)
      /\ DOMAIN users = 1..Len(users) /\ Len(users) \in Nat
  BY UserIds DEF AccountsInv, Shapes
<1>2. ASSUME NEW p \in Request, NEW n \in Name, A!Signup(p, n)
      PROVE  SessionsFit'
  <2>1. users' = Append(users, n) /\ UNCHANGED <<time, sessions, granted>>
    BY <1>2 DEF A!Signup
  <2>2. DOMAIN users \subseteq DOMAIN users'
    BY <1>1, <2>1
  <2>. QED  BY <1>1, <2>1, <2>2 DEF SessionsFit
<1>3. ASSUME NEW p \in Request, A!CreateSession(p)
      PROVE  SessionsFit'
  <2> DEFINE token == minted.session + 1
             row == [user |-> proc[p].user, expires |-> time + TTL]
  <2>1. /\ sessions' = A!Put(sessions, token, row) /\ granted' = A!Put(granted, token, row)
        /\ UNCHANGED <<time, users>> /\ proc[p].pc = "session"
    BY <1>3 DEF A!CreateSession
  <2>2. row.user \in DOMAIN users /\ row.expires \in Nat
    BY <1>1, <2>1, AccessAssumption DEF AccountsInv, Shapes, CarriedFits
  <2> HIDE DEF token, row
  <2>3. /\ DOMAIN sessions' = DOMAIN sessions \cup {token}
        /\ DOMAIN granted' = DOMAIN granted \cup {token}
        /\ sessions'[token] = row /\ granted'[token] = row
        /\ \A t \in DOMAIN sessions \ {token} : sessions'[t] = sessions[t]
        /\ \A t \in DOMAIN granted \ {token} : granted'[t] = granted[t]
    <3>1. /\ DOMAIN sessions' = DOMAIN sessions \cup {token} /\ sessions'[token] = row
          /\ \A t \in DOMAIN sessions \ {token} : sessions'[t] = sessions[t]
      BY <2>1 DEF A!Put
    <3>2. /\ DOMAIN granted' = DOMAIN granted \cup {token} /\ granted'[token] = row
          /\ \A t \in DOMAIN granted \ {token} : granted'[t] = granted[t]
      BY <2>1 DEF A!Put
    <3>. QED  BY <3>1, <3>2
  <2>. QED  BY <1>1, <2>1, <2>2, <2>3 DEF SessionsFit
<1>4. ASSUME NEW p \in Request, NEW t \in A!TokenId, A!Logout(p, t)
      PROVE  SessionsFit'
  <2>1. /\ sessions' = A!Without(sessions, {t}) /\ granted' = A!Without(granted, {t})
        /\ UNCHANGED <<time, users>>
    BY <1>4 DEF A!Logout
  <2>2. /\ DOMAIN sessions' = DOMAIN sessions \ {t}
        /\ DOMAIN granted' = DOMAIN granted \ {t}
        /\ \A k \in DOMAIN sessions \ {t} : sessions'[k] = sessions[k]
        /\ \A k \in DOMAIN granted \ {t} : granted'[k] = granted[k]
    BY <2>1, WithoutFacts
  <2>. QED  BY <1>1, <2>1, <2>2 DEF SessionsFit
<1>5. CASE A!Purge
  <2>1. sessions' = A!Without(sessions, A!Expired(time)) /\ UNCHANGED <<time, users, granted>>
    BY <1>5 DEF A!Purge
  <2>2. /\ DOMAIN sessions' = DOMAIN sessions \ A!Expired(time)
        /\ \A k \in DOMAIN sessions \ A!Expired(time) : sessions'[k] = sessions[k]
    BY <2>1, WithoutFacts
  <2>3. \A k \in A!Expired(time) : k \in DOMAIN sessions /\ sessions[k].expires <= time
    BY DEF A!Expired
  <2>4. \A k \in DOMAIN granted \ DOMAIN sessions' : granted[k].expires <= time
    BY <1>1, <2>2, <2>3 DEF SessionsFit
  <2>. QED  BY <1>1, <2>1, <2>2, <2>4 DEF SessionsFit
<1>6. CASE A!Tick
  <2>1. time' = time + 1 /\ UNCHANGED <<users, sessions, granted>>
    BY <1>6 DEF A!Tick
  <2>. QED  BY <1>1, <2>1 DEF SessionsFit
<1>7. CASE UNCHANGED <<time, users, sessions, granted>>
  BY <1>1, <1>7 DEF SessionsFit
<1>. QED  BY <1>2, <1>3, <1>4, <1>5, <1>6, <1>7, SessionTables

\* What a request is told of a session, from what the tables have in common.
LEMMA SessionsAnswer == AccountsInv => A!SessionsUntilExpiry
<1> SUFFICES ASSUME AccountsInv, NEW t \in A!TokenId
             PROVE  A!Resolved(t) = IF t \in DOMAIN granted /\ time < granted[t].expires
                                    THEN granted[t].user ELSE A!NoUser
  BY DEF A!SessionsUntilExpiry
<1>1. SessionsFit /\ time \in Nat
  BY DEF AccountsInv, Shapes
<1>2. CASE t \in DOMAIN sessions
  BY <1>1, <1>2 DEF SessionsFit, A!Resolved
<1>3. CASE t \notin DOMAIN sessions
  <2>1. t \in DOMAIN granted => ~(time < granted[t].expires)
    BY <1>1, <1>3 DEF SessionsFit
  <2>. QED  BY <1>3, <2>1 DEF A!Resolved
<1>. QED  BY <1>2, <1>3

-----------------------------------------------------------------------------
(* Shapes.                                                                 *)

LEMMA ShapesInit == A!Init => Shapes
BY DEF A!Init, A!NoRows, A!Idle, Shapes, CarriedFits

\* The rows statements write are rows.
LEMMA RowShapes ==
  ASSUME AccountsInv
  PROVE  /\ \A u \in DOMAIN users, raw \in A!Known, c \in BOOLEAN :
              A!KeyRow(u, raw, c) \in KeyRecord
         /\ \A k \in DOMAIN apiKeys :
              /\ [apiKeys EXCEPT ![k].disabled = TRUE] \in [DOMAIN apiKeys -> KeyRecord]
              /\ [apiKeys EXCEPT ![k].lastUsed = time] \in [DOMAIN apiKeys -> KeyRecord]
<1>1. /\ time \in Nat /\ apiKeys \in [DOMAIN apiKeys -> KeyRecord] /\ minted.key \in Nat
      /\ DOMAIN users \subseteq Nat
  BY UserIds DEF AccountsInv, Shapes
<1>2. \A u \in DOMAIN users, raw \in A!Known, c \in BOOLEAN :
        A!KeyRow(u, raw, c) \in KeyRecord
  BY <1>1 DEF A!KeyRow, A!Known, A!Never, KeyRecord
<1>3. ASSUME NEW k \in DOMAIN apiKeys
      PROVE  /\ [apiKeys EXCEPT ![k].disabled = TRUE] \in [DOMAIN apiKeys -> KeyRecord]
             /\ [apiKeys EXCEPT ![k].lastUsed = time] \in [DOMAIN apiKeys -> KeyRecord]
  <2>1. apiKeys[k] \in KeyRecord
    BY <1>1
  <2>2. [apiKeys[k] EXCEPT !.disabled = TRUE] \in KeyRecord
    BY <2>1 DEF KeyRecord
  <2>3. [apiKeys[k] EXCEPT !.lastUsed = time] \in KeyRecord
    BY <1>1, <2>1 DEF KeyRecord
  <2>. QED  BY <1>1, <2>2, <2>3
<1>. QED  BY <1>2, <1>3

LEMMA KeyTables ==
  ASSUME A!Next
  PROVE  \/ \E p \in Request : A!CreateKey(p)
         \/ \E p \in Request, k \in A!KeyId : A!RevokeKey(p, k)
         \/ \E p \in Request, k \in A!KeyId, u \in DOMAIN users, raw \in A!Known :
              k \in A!Known /\ A!Inject(p, k, u, raw)
         \/ \E p \in Request, k \in A!KeyId : A!AdminRevoke(p, k)
         \/ \E p \in Request : A!UpdateLastUsed(p)
         \/ /\ UNCHANGED apiKeys
            /\ minted' = minted \/ minted' = [minted EXCEPT !.session = minted.session + 1]
<1>1. CASE A!Restart \/ A!Purge \/ A!Tick
  BY <1>1 DEF A!Restart, A!Purge, A!Tick
<1>2. ASSUME NEW p \in Request, A!SessionStep(p)
      PROVE  \/ A!CreateKey(p)
             \/ \E k \in A!KeyId : A!RevokeKey(p, k)
             \/ /\ UNCHANGED apiKeys
                /\ minted' = minted \/ minted' = [minted EXCEPT !.session = minted.session + 1]
  BY <1>2 DEF A!SessionStep, A!Login, A!SessionRequest, A!Signup, A!Logout, A!CreateSession
<1>3. ASSUME NEW p \in Request, A!KeyStep(p)
      PROVE  \/ \E k \in A!KeyId, u \in DOMAIN users, raw \in A!Known :
                  k \in A!Known /\ A!Inject(p, k, u, raw)
             \/ \E k \in A!KeyId : A!AdminRevoke(p, k)
             \/ A!UpdateLastUsed(p)
             \/ UNCHANGED <<apiKeys, minted>>
  BY <1>3 DEF A!KeyStep, A!Present, A!Authenticate, A!Touch, A!UpdateFails, A!Answer
<1>. QED  BY <1>1, <1>2, <1>3 DEF A!Next

\* The rows after a statement, and what the statements before it carry.
LEMMA KeysStep ==
  ASSUME AccountsInv, A!Next
  PROVE  /\ apiKeys' \in [DOMAIN apiKeys' -> KeyRecord]
         /\ minted' \in [session : Nat, key : Nat]
<1>1. /\ apiKeys \in [DOMAIN apiKeys -> KeyRecord] /\ minted \in [session : Nat, key : Nat]
      /\ CarriedFits
  BY DEF AccountsInv, Shapes
<1>2. ASSUME NEW f, f \in [DOMAIN f -> KeyRecord], NEW k, NEW row \in KeyRecord
      PROVE  A!Put(f, k, row) \in [DOMAIN A!Put(f, k, row) -> KeyRecord]
  <2> DEFINE g == A!Put(f, k, row)
  <2>1. g = [y \in DOMAIN f \cup {k} |-> IF y = k THEN row ELSE f[y]]
    BY DEF A!Put
  <2>2. \A y \in DOMAIN f \cup {k} : (IF y = k THEN row ELSE f[y]) \in KeyRecord
    BY <1>2
  <2> HIDE DEF g
  <2>3. g \in [DOMAIN f \cup {k} -> KeyRecord] /\ DOMAIN g = DOMAIN f \cup {k}
    BY <2>1, <2>2
  <2>. QED  BY <2>3 DEF g
<1>3. ASSUME NEW p \in Request, A!CreateKey(p)
      PROVE  /\ apiKeys' \in [DOMAIN apiKeys' -> KeyRecord]
             /\ minted' \in [session : Nat, key : Nat]
  <2> DEFINE id == minted.key + 1
             row == A!KeyRow(proc[p].user, id, FALSE)
  <2>1. apiKeys' = A!Put(apiKeys, id, row) /\ minted' = [minted EXCEPT !.key = id]
    BY <1>3 DEF A!CreateKey
  <2>2. proc[p].user \in DOMAIN users /\ time \in Nat /\ DOMAIN users \subseteq Nat
    BY <1>1, <1>3, UserIds DEF A!CreateKey, CarriedFits, AccountsInv, Shapes
  <2>3. row \in KeyRecord /\ id \in Nat
    BY <1>1, <2>2 DEF A!KeyRow, A!Never, KeyRecord
  <2> HIDE DEF row, id
  <2>. QED  BY <1>1, <1>2, <2>1, <2>3
<1>4. ASSUME NEW p \in Request, NEW k \in A!KeyId, A!RevokeKey(p, k) \/ A!AdminRevoke(p, k)
      PROVE  apiKeys' \in [DOMAIN apiKeys' -> KeyRecord] /\ minted' = minted
  <2>1. /\ \/ apiKeys' = apiKeys
           \/ k \in DOMAIN apiKeys /\ apiKeys' = [apiKeys EXCEPT ![k].disabled = TRUE]
        /\ minted' = minted
    <3>1. CASE A!RevokeKey(p, k)
      <4>1. apiKeys' = A!RevokedBy(proc[p].user, k) /\ minted' = minted
        BY <3>1 DEF A!RevokeKey
      <4>2. \/ A!RevokedBy(proc[p].user, k) = apiKeys
            \/ /\ k \in DOMAIN apiKeys
               /\ A!RevokedBy(proc[p].user, k) = [apiKeys EXCEPT ![k].disabled = TRUE]
        BY DEF A!RevokedBy
      <4>. QED  BY <4>1, <4>2
    <3>2. CASE A!AdminRevoke(p, k)
      BY <3>2 DEF A!AdminRevoke
    <3>. QED  BY <1>4, <3>1, <3>2
  <2>. QED  BY <1>1, <2>1, RowShapes
<1>5. ASSUME NEW p \in Request, NEW k \in A!KeyId, NEW u \in DOMAIN users,
             NEW raw \in A!Known, A!Inject(p, k, u, raw)
      PROVE  apiKeys' \in [DOMAIN apiKeys' -> KeyRecord] /\ minted' = minted
  <2> DEFINE rest == A!Without(apiKeys, {j \in DOMAIN apiKeys : apiKeys[j].raw = raw})
             row == A!KeyRow(u, raw, TRUE)
  <2>1. apiKeys' = A!Put(rest, k, row) /\ minted' = minted
    BY <1>5 DEF A!Inject, A!Injected
  <2>2. rest \in [DOMAIN rest -> KeyRecord]
    BY <1>1 DEF A!Without, A!Restrict
  <2>3. row \in KeyRecord
    BY RowShapes
  <2> HIDE DEF rest, row
  <2>. QED  BY <1>2, <2>1, <2>2, <2>3
<1>6. ASSUME NEW p \in Request, A!UpdateLastUsed(p)
      PROVE  apiKeys' \in [DOMAIN apiKeys' -> KeyRecord] /\ minted' = minted
  <2>1. /\ \/ apiKeys' = apiKeys
           \/ /\ proc[p].key \in DOMAIN apiKeys
              /\ apiKeys' = [apiKeys EXCEPT ![proc[p].key].lastUsed = time]
        /\ minted' = minted
    <3>1. /\ apiKeys' = IF proc[p].key \in DOMAIN apiKeys THEN A!LastUsedNow(p) ELSE apiKeys
          /\ minted' = minted
      BY <1>6 DEF A!UpdateLastUsed
    <3>2. A!LastUsedNow(p) = [apiKeys EXCEPT ![proc[p].key].lastUsed = time]
      BY DEF A!LastUsedNow
    <3>. QED  BY <3>1, <3>2
  <2>. QED  BY <1>1, <2>1, RowShapes, ZenonT(60)
<1>7. CASE /\ UNCHANGED apiKeys
           /\ minted' = minted \/ minted' = [minted EXCEPT !.session = minted.session + 1]
  BY <1>1, <1>7
<1>. QED  BY <1>1, <1>3, <1>4, <1>5, <1>6, <1>7, KeyTables

\* One request moves, with a user who is there when it goes on as a user.
Moved(p) ==
  /\ DOMAIN proc' = Request /\ \A q \in Request \ {p} : proc'[q] = proc[q]
  /\ "pc" \in DOMAIN proc'[p]
  /\ proc'[p].pc \in {"session", "create", "revoke"} => proc'[p].user \in DOMAIN users'

LEMMA SessionPlaces ==
  ASSUME AccountsInv, NEW p \in Request, A!SessionStep(p)
  PROVE  Moved(p)
<1>1. DOMAIN users = 1..Len(users) /\ Len(users) \in Nat /\ users \in Seq(Name)
  BY UserIds DEF AccountsInv, Shapes
<1>2. ASSUME NEW state, A!Begin(p, state) \/ A!Goto(p, state), "pc" \in DOMAIN state,
             state.pc \in {"session", "create", "revoke"} => state.user \in DOMAIN users'
      PROVE  Moved(p)
  BY <1>2, Moves DEF Moved
<1>3. "pc" \in DOMAIN A!Idle /\ A!Idle.pc = "idle"
  BY DEF A!Idle
<1>4. ASSUME NEW n \in Name, A!Signup(p, n)
      PROVE  Moved(p)
  <2>1. A!Begin(p, [pc |-> "session", user |-> Len(users) + 1]) /\ users' = Append(users, n)
    BY <1>4 DEF A!Signup
  <2>2. Len(users) + 1 \in DOMAIN users'
    BY <1>1, <2>1
  <2>. QED  BY <1>2, <2>1, <2>2
<1>5. ASSUME NEW u, A!Login(p, u)
      PROVE  Moved(p)
  <2>1. /\ A!Begin(p, [pc |-> "session", user |-> u])
        /\ u \in DOMAIN users /\ users' = users
    BY <1>5 DEF A!Login
  <2>. QED  BY <1>2, <2>1
<1>6. ASSUME NEW t, NEW next \in {"create", "revoke"}, A!SessionRequest(p, t, next)
      PROVE  Moved(p)
  <2>1. /\ A!Begin(p, [pc |-> next, user |-> A!Resolved(t)])
        /\ A!Resolved(t) # A!NoUser /\ users' = users
    BY <1>6 DEF A!SessionRequest
  <2>2. A!Resolved(t) \in DOMAIN users'
    BY <2>1, ResolvedUser
  <2>. QED  BY <1>2, <2>1, <2>2
<1>7. ASSUME A!Begin(p, A!Idle) \/ A!Goto(p, A!Idle)
      PROVE  Moved(p)
  BY <1>2, <1>3, <1>7
<1>8. ASSUME \/ A!CreateSession(p) \/ A!CreateKey(p)
             \/ \E t \in A!TokenId : A!Logout(p, t)
             \/ \E k \in A!KeyId : A!RevokeKey(p, k)
      PROVE  Moved(p)
  BY <1>7, <1>8 DEF A!CreateSession, A!CreateKey, A!Logout, A!RevokeKey
<1>. QED  BY <1>4, <1>5, <1>6, <1>8 DEF A!SessionStep

LEMMA KeyPlaces ==
  ASSUME AccountsInv, NEW p \in Request, A!KeyStep(p)
  PROVE  Moved(p)
<1>1. ASSUME NEW state, A!Begin(p, state) \/ A!Goto(p, state), "pc" \in DOMAIN state,
             state.pc \notin {"session", "create", "revoke"}
      PROVE  Moved(p)
  BY <1>1, Moves DEF Moved
<1>2. ASSUME A!Begin(p, A!Idle) \/ A!Goto(p, A!Idle)
      PROVE  Moved(p)
  BY <1>1, <1>2 DEF A!Idle
<1>3. ASSUME NEW r, A!Goto(p, A!Answered(r))
      PROVE  Moved(p)
  <2>1. \/ A!Answered(r) = A!Idle
        \/ A!Answered(r) = [pc |-> "accepted", raw |-> r.raw, user |-> r.user, key |-> r.key]
    BY DEF A!Answered
  <2>. QED  BY <1>1, <1>2, <1>3, <2>1
<1>4. ASSUME NEW k \in A!KeyId, A!Present(p, k)
      PROVE  Moved(p)
  BY <1>1, <1>4 DEF A!Present
<1>5. CASE A!Authenticate(p)
  <2>1. ASSUME NEW k,
               A!Goto(p, [pc |-> "touch", raw |-> proc[p].raw, key |-> k,
                          user |-> apiKeys[k].user, cluster |-> apiKeys[k].cluster])
        PROVE  Moved(p)
    BY <1>1, <2>1
  <2>. QED  BY <1>2, <1>5, <2>1 DEF A!Authenticate
<1>6. CASE A!Touch(p)
  <2>1. CASE A!Goto(p, [proc[p] EXCEPT !.pc = "update"])
    <3>1. "pc" \in DOMAIN proc[p]
      BY DEF AccountsInv, Shapes, CarriedFits
    <3>2. /\ "pc" \in DOMAIN [proc[p] EXCEPT !.pc = "update"]
          /\ [proc[p] EXCEPT !.pc = "update"].pc = "update"
      BY <3>1
    <3>. QED  BY <1>1, <2>1, <3>2
  <2>. QED  BY <1>3, <1>6, <2>1 DEF A!Touch
<1>7. CASE A!UpdateLastUsed(p)
  BY <1>3, <1>7 DEF A!UpdateLastUsed
<1>8. CASE A!UpdateFails(p) \/ A!Answer(p)
  BY <1>2, <1>8 DEF A!UpdateFails, A!Answer
<1>9. ASSUME NEW k \in A!KeyId, NEW u \in DOMAIN users, NEW raw \in A!Known,
             A!Inject(p, k, u, raw)
      PROVE  Moved(p)
  BY <1>2, <1>9 DEF A!Inject
<1>10. ASSUME NEW k \in A!KeyId, A!AdminRevoke(p, k)
       PROVE  Moved(p)
  BY <1>2, <1>10 DEF A!AdminRevoke
<1>. QED  BY <1>4, <1>5, <1>6, <1>7, <1>8, <1>9, <1>10 DEF A!KeyStep

LEMMA ShapesStep ==
  ASSUME AccountsInv, A!Next
  PROVE  Shapes'
<1>1. /\ time \in Nat /\ users \in Seq(Name) /\ CarriedFits
      /\ DOMAIN users = 1..Len(users) /\ Len(users) \in Nat
  BY UserIds DEF AccountsInv, Shapes
<1>2. \/ \E n \in Name : users' = Append(users, n) /\ time' = time
      \/ users' = users /\ time' \in {time, time + 1}
  BY SessionTables DEF A!Signup, A!CreateSession, A!Logout, A!Purge, A!Tick
<1>3. users' \in Seq(Name) /\ time' \in Nat /\ DOMAIN users \subseteq DOMAIN users'
  BY <1>1, <1>2
<1>4. CarriedFits'
  <2>1. CASE A!Restart
    BY <2>1 DEF A!Restart, A!Idle, CarriedFits
  <2>2. CASE A!Purge \/ A!Tick
    BY <1>1, <2>2 DEF A!Purge, A!Tick, CarriedFits
  <2>3. ASSUME NEW p \in Request, Moved(p)
        PROVE  CarriedFits'
    BY <1>1, <1>3, <2>3 DEF Moved, CarriedFits
  <2>. QED  BY <2>1, <2>2, <2>3, SessionPlaces, KeyPlaces DEF A!Next
<1>. QED  BY <1>3, <1>4, KeysStep DEF Shapes

-----------------------------------------------------------------------------
(* Secrets.                                                                *)

\* Disabling a key, or noting its use, leaves every row its secret, and no
\* disabled row enabled.
LEMMA RowsKeep ==
  ASSUME AccountsInv, NEW k \in DOMAIN apiKeys,
         \/ apiKeys' = [apiKeys EXCEPT ![k].disabled = TRUE]
         \/ apiKeys' = [apiKeys EXCEPT ![k].lastUsed = time]
  PROVE  /\ DOMAIN apiKeys' = DOMAIN apiKeys
         /\ \A j \in DOMAIN apiKeys : /\ apiKeys'[j].raw = apiKeys[j].raw
                                      /\ apiKeys[j].disabled => apiKeys'[j].disabled
<1>1. apiKeys[k] \in KeyRecord
  BY DEF AccountsInv, Shapes
<1>2. /\ [apiKeys[k] EXCEPT !.disabled = TRUE].raw = apiKeys[k].raw
      /\ [apiKeys[k] EXCEPT !.disabled = TRUE].disabled = TRUE
      /\ [apiKeys[k] EXCEPT !.lastUsed = time].raw = apiKeys[k].raw
      /\ [apiKeys[k] EXCEPT !.lastUsed = time].disabled = apiKeys[k].disabled
  BY <1>1 DEF KeyRecord
<1>3. /\ DOMAIN apiKeys' = DOMAIN apiKeys
      /\ \A j \in DOMAIN apiKeys \ {k} : apiKeys'[j] = apiKeys[j]
      /\ \/ apiKeys'[k] = [apiKeys[k] EXCEPT !.disabled = TRUE]
         \/ apiKeys'[k] = [apiKeys[k] EXCEPT !.lastUsed = time]
  OBVIOUS
<1>. QED  BY <1>2, <1>3

\* A secret is minted once, and who came with it stays revoked.
RowsStayRevoked ==
  \A q \in revoked \cap revoked', k \in DOMAIN apiKeys' :
    apiKeys'[k].raw = proc[q].raw => apiKeys'[k].disabled

LEMMA SecretsStep ==
  ASSUME AccountsInv, A!Next
  PROVE  A!Known \subseteq A!Known' /\ SecretsFit' /\ RowsStayRevoked
<1>1. /\ SecretsFit /\ RevokedFit /\ minted \in [session : Nat, key : Nat]
      /\ AdminKey \cap 1..MaxKey = {} /\ MaxKey \in Nat
  BY AccessAssumption DEF AccountsInv, Shapes
<1>2. ASSUME minted'.key = minted.key
      PROVE  A!Known' = A!Known
  BY <1>2 DEF A!Known
<1>3. ASSUME NEW p \in Request, A!CreateKey(p)
      PROVE  A!Known \subseteq A!Known' /\ SecretsFit' /\ RowsStayRevoked
  <2> DEFINE id == minted.key + 1
             row == A!KeyRow(proc[p].user, id, FALSE)
  <2>1. /\ apiKeys' = A!Put(apiKeys, id, row) /\ minted' = [minted EXCEPT !.key = id]
        /\ minted.key < MaxKey
    BY <1>3 DEF A!CreateKey
  <2>2. A!Known \subseteq A!Known' /\ id \in A!Known' /\ id \notin A!Known
    BY <1>1, <2>1 DEF A!Known
  <2>3. row.raw = id
    BY DEF A!KeyRow
  <2> HIDE DEF row, id
  <2>4. /\ DOMAIN apiKeys' = DOMAIN apiKeys \cup {id} /\ apiKeys'[id] = row
        /\ \A y \in DOMAIN apiKeys \ {id} : apiKeys'[y] = apiKeys[y]
    BY <2>1 DEF A!Put
  <2>5. SecretsFit'
    BY <1>1, <2>2, <2>3, <2>4 DEF SecretsFit, A!OneKeyPerSecret
  <2>6. RowsStayRevoked
    BY <1>1, <2>2, <2>3, <2>4 DEF RevokedFit, RowsStayRevoked
  <2>. QED  BY <2>2, <2>5, <2>6
<1>4. ASSUME UNCHANGED minted,
             \/ apiKeys' = apiKeys
             \/ \E k \in DOMAIN apiKeys : \/ apiKeys' = [apiKeys EXCEPT ![k].disabled = TRUE]
                                          \/ apiKeys' = [apiKeys EXCEPT ![k].lastUsed = time]
      PROVE  A!Known \subseteq A!Known' /\ SecretsFit' /\ RowsStayRevoked
  <2>1. A!Known' = A!Known
    BY <1>2, <1>4
  <2>2. /\ DOMAIN apiKeys' = DOMAIN apiKeys
        /\ \A j \in DOMAIN apiKeys : /\ apiKeys'[j].raw = apiKeys[j].raw
                                     /\ apiKeys[j].disabled => apiKeys'[j].disabled
    BY <1>4, RowsKeep
  <2>3. SecretsFit'
    BY <1>1, <2>1, <2>2 DEF SecretsFit, A!OneKeyPerSecret
  <2>. QED  BY <1>1, <2>1, <2>2, <2>3 DEF RevokedFit, RowsStayRevoked
<1>5. ASSUME NEW p \in Request, NEW k \in A!KeyId, A!RevokeKey(p, k) \/ A!AdminRevoke(p, k)
      PROVE  A!Known \subseteq A!Known' /\ SecretsFit' /\ RowsStayRevoked
  <2>1. CASE A!RevokeKey(p, k)
    <3>1. apiKeys' = A!RevokedBy(proc[p].user, k) /\ minted' = minted
      BY <2>1 DEF A!RevokeKey
    <3>. QED  BY <1>4, <3>1 DEF A!RevokedBy
  <2>2. CASE A!AdminRevoke(p, k)
    BY <1>4, <2>2 DEF A!AdminRevoke
  <2>. QED  BY <1>5, <2>1, <2>2
<1>6. ASSUME NEW p \in Request, A!UpdateLastUsed(p)
      PROVE  A!Known \subseteq A!Known' /\ SecretsFit' /\ RowsStayRevoked
  <2>1. /\ apiKeys' = IF proc[p].key \in DOMAIN apiKeys THEN A!LastUsedNow(p) ELSE apiKeys
        /\ minted' = minted
    BY <1>6 DEF A!UpdateLastUsed
  <2>. QED  BY <1>4, <2>1 DEF A!LastUsedNow
<1>7. ASSUME NEW p \in Request, NEW k \in A!KeyId, NEW u \in DOMAIN users,
             NEW raw \in A!Known, A!Inject(p, k, u, raw)
      PROVE  A!Known \subseteq A!Known' /\ SecretsFit' /\ RowsStayRevoked
  <2> DEFINE S == {j \in DOMAIN apiKeys : apiKeys[j].raw = raw}
             rest == A!Without(apiKeys, S)
             row == A!KeyRow(u, raw, TRUE)
  <2>1. /\ apiKeys' = A!Put(rest, k, row) /\ minted' = minted
        /\ revoked' = {q \in revoked : proc[q].raw # raw}
    BY <1>7 DEF A!Inject, A!Injected
  <2>2. A!Known' = A!Known
    BY <1>2, <2>1
  <2>3. /\ DOMAIN rest = DOMAIN apiKeys \ S
        /\ \A y \in DOMAIN rest : rest[y] = apiKeys[y]
    BY DEF A!Without, A!Restrict
  <2>4. \A y \in DOMAIN rest : apiKeys[y].raw # raw /\ y \in DOMAIN apiKeys
    BY <2>3
  <2>5. row.raw = raw
    BY DEF A!KeyRow
  <2> HIDE DEF rest, row, S
  <2>6. /\ DOMAIN apiKeys' = DOMAIN rest \cup {k} /\ apiKeys'[k] = row
        /\ \A y \in DOMAIN rest \ {k} : apiKeys'[y] = rest[y]
    BY <2>1 DEF A!Put
  <2>7. SecretsFit'
    BY <1>1, <2>2, <2>3, <2>4, <2>5, <2>6 DEF SecretsFit, A!OneKeyPerSecret
  <2>8. RowsStayRevoked
    BY <1>1, <2>1, <2>3, <2>4, <2>5, <2>6 DEF RevokedFit, RowsStayRevoked
  <2>. QED  BY <2>2, <2>7, <2>8
<1>8. CASE /\ UNCHANGED apiKeys
           /\ minted' = minted \/ minted' = [minted EXCEPT !.session = minted.session + 1]
  <2>1. A!Known' = A!Known
    BY <1>1, <1>2, <1>8
  <2>. QED  BY <1>1, <1>8, <2>1 DEF SecretsFit, RevokedFit, RowsStayRevoked, A!OneKeyPerSecret
<1>. QED  BY <1>3, <1>5, <1>6, <1>7, <1>8, KeyTables

-----------------------------------------------------------------------------
(* Revoked secrets.                                                        *)

\* Who came with a revoked secret leaves with nothing; nobody else becomes one
\* who did, but by coming with one.
LEMMA RevokedMoves ==
  ASSUME AccountsInv, NEW p \in Request, A!SessionStep(p) \/ A!KeyStep(p)
  PROVE  \/ revoked' \subseteq revoked \ {p}
         \/ \E k \in A!KeyId : A!Present(p, k)
<1>1. p \in revoked => proc[p].pc = "present" /\ A!Match(proc[p].raw) = {}
  BY DEF AccountsInv, RevokedFit, A!Match
<1>2. ASSUME NEW state, A!Begin(p, state), revoked' \subseteq revoked
      PROVE  revoked' \subseteq revoked \ {p}
  BY <1>1, <1>2 DEF A!Begin
<1>3. ASSUME NEW state, A!Goto(p, state), proc[p].pc # "present"
      PROVE  revoked' \subseteq revoked \ {p}
  BY <1>1, <1>3 DEF A!Goto
<1>4. CASE A!SessionStep(p)
  <2>1. ASSUME \/ \E n \in Name : A!Signup(p, n)
               \/ \E u \in A!UserId : A!Login(p, u)
               \/ \E t \in A!TokenId : A!Logout(p, t)
        PROVE  revoked' \subseteq revoked \ {p}
    BY <1>2, <2>1 DEF A!Signup, A!Login, A!Logout
  <2>2. ASSUME NEW t \in A!TokenId, NEW next \in {"create", "revoke"},
               A!SessionRequest(p, t, next)
        PROVE  revoked' \subseteq revoked \ {p}
    BY <1>2, <2>2 DEF A!SessionRequest
  <2>3. ASSUME \/ A!CreateSession(p) \/ A!CreateKey(p)
               \/ \E k \in A!KeyId : A!RevokeKey(p, k)
        PROVE  revoked' \subseteq revoked \ {p}
    BY <1>3, <2>3 DEF A!CreateSession, A!CreateKey, A!RevokeKey
  <2>. QED  BY <1>4, <2>1, <2>2, <2>3 DEF A!SessionStep
<1>5. CASE A!KeyStep(p)
  <2>1. ASSUME NEW k \in A!KeyId, A!AdminRevoke(p, k)
        PROVE  revoked' \subseteq revoked \ {p}
    BY <1>2, <2>1 DEF A!AdminRevoke
  <2>2. ASSUME NEW k \in A!KeyId, NEW u, NEW raw, A!Inject(p, k, u, raw)
        PROVE  revoked' \subseteq revoked \ {p}
    BY <1>2, <2>2 DEF A!Inject
  <2>3. CASE A!Authenticate(p)
    <3>1. CASE p \in revoked
      BY <1>1, <2>3, <3>1 DEF A!Authenticate, A!Goto, A!Idle
    <3>2. CASE p \notin revoked
      BY <2>3, <3>2 DEF A!Authenticate, A!Goto
    <3>. QED  BY <3>1, <3>2
  <2>4. CASE A!Touch(p) \/ A!UpdateLastUsed(p) \/ A!UpdateFails(p) \/ A!Answer(p)
    BY <1>3, <2>4 DEF A!Touch, A!UpdateLastUsed, A!UpdateFails, A!Answer
  <2>. QED  BY <1>5, <2>1, <2>2, <2>3, <2>4 DEF A!KeyStep
<1>. QED  BY <1>4, <1>5

LEMMA RevokedStep ==
  ASSUME AccountsInv, A!Next
  PROVE  RevokedFit'
<1>1. RevokedFit /\ SecretsFit /\ A!Known \subseteq A!Known' /\ RowsStayRevoked
  BY SecretsStep DEF AccountsInv
<1>2. CASE A!Restart
  BY <1>2 DEF A!Restart, RevokedFit
<1>3. CASE A!Purge \/ A!Tick
  <2>1. UNCHANGED <<revoked, proc, apiKeys>>
    BY <1>3 DEF A!Purge, A!Tick
  <2>. QED  BY <1>1, <2>1 DEF RevokedFit
<1>4. ASSUME NEW p \in Request, A!SessionStep(p) \/ A!KeyStep(p)
      PROVE  RevokedFit'
  <2>1. \A q \in Request \ {p} : proc'[q] = proc[q]
    BY <1>4, SessionPlaces, KeyPlaces DEF Moved
  <2>2. CASE revoked' \subseteq revoked \ {p}
    BY <1>1, <2>1, <2>2 DEF RevokedFit, RowsStayRevoked
  <2>3. ASSUME NEW k \in A!KeyId, A!Present(p, k)
        PROVE  RevokedFit'
    <3>1. /\ proc'[p] = [pc |-> "present", raw |-> k] /\ apiKeys' = apiKeys
          /\ \/ revoked' = revoked
             \/ /\ revoked' = revoked \cup {p}
                /\ \E j \in DOMAIN apiKeys : apiKeys[j].raw = k /\ apiKeys[j].disabled
      BY <2>3, Moves DEF A!Present
    <3>2. proc[p].pc = "idle"
      BY <2>3 DEF A!Present, A!Begin
    <3>3. p \notin revoked
      BY <1>1, <3>2 DEF RevokedFit
    <3>4. p \in revoked' =>
            /\ proc'[p].pc = "present" /\ proc'[p].raw = k /\ k \in A!Known
            /\ \A j \in DOMAIN apiKeys : apiKeys[j].raw = k => apiKeys[j].disabled
      BY <1>1, <3>1, <3>3 DEF SecretsFit, A!OneKeyPerSecret
    <3>. QED  BY <1>1, <2>1, <3>1, <3>4 DEF RevokedFit, RowsStayRevoked
  <2>. QED  BY <1>4, <2>2, <2>3, RevokedMoves
<1>. QED  BY <1>2, <1>3, <1>4 DEF A!Next

-----------------------------------------------------------------------------
(* Last uses.                                                              *)

\* What touch_key remembers of a key is in the table, or is on its way there.
TouchedFit ==
  /\ \A k \in DOMAIN touched : touched[k] \in Nat /\ touched[k] <= time
  /\ \A p \in Request : proc[p].pc = "touch" => "key" \in DOMAIN proc[p]
  /\ A!TouchedIsWritten

LEMMA TouchedInit == A!Init => TouchedFit
BY DEF A!Init, A!NoRows, A!Idle, TouchedFit, A!TouchedIsWritten

\* A step that leaves the map and every pending update alone, and whose new rows
\* are created now.
RowsNewer ==
  \A k \in DOMAIN apiKeys' :
    \/ /\ k \in DOMAIN apiKeys
       /\ apiKeys'[k].created = apiKeys[k].created /\ apiKeys'[k].lastUsed = apiKeys[k].lastUsed
    \/ apiKeys'[k].created = time

LEMMA TouchedKept ==
  ASSUME TouchedFit, UNCHANGED <<touched, failed>>, RowsNewer,
         NEW p \in Request, proc[p].pc # "update",
         \A q \in Request \ {p} : proc'[q] = proc[q]
  PROVE  A!TouchedIsWritten'
<1>1. A!TouchedIsWritten /\ \A k \in DOMAIN touched : touched[k] <= time
  BY DEF TouchedFit
<1>2. SUFFICES ASSUME NEW k \in DOMAIN touched, k \in DOMAIN apiKeys'
               PROVE  \/ apiKeys'[k].lastUsed >= touched[k] \/ apiKeys'[k].created >= touched[k]
                      \/ k \in failed
                      \/ \E q \in Request : proc'[q].pc = "update" /\ proc'[q].key = k
  BY DEF A!TouchedIsWritten
<1>3. CASE apiKeys'[k].created = time
  BY <1>1, <1>3
<1>4. CASE /\ k \in DOMAIN apiKeys
           /\ apiKeys'[k].created = apiKeys[k].created
           /\ apiKeys'[k].lastUsed = apiKeys[k].lastUsed
  <2>1. CASE \E q \in Request : proc[q].pc = "update" /\ proc[q].key = k
    <3>1. PICK q \in Request : proc[q].pc = "update" /\ proc[q].key = k
      BY <2>1
    <3>2. proc'[q] = proc[q]
      BY <3>1
    <3>. QED  BY <3>1, <3>2
  <2>2. CASE ~\E q \in Request : proc[q].pc = "update" /\ proc[q].key = k
    BY <1>1, <1>2, <1>4, <2>2 DEF A!TouchedIsWritten
  <2>. QED  BY <2>1, <2>2
<1>. QED  BY <1>2, <1>3, <1>4 DEF RowsNewer

\* A disabled row says as much of its key's uses as before.
LEMMA DisabledNewer ==
  ASSUME AccountsInv, NEW k \in DOMAIN apiKeys, apiKeys' = [apiKeys EXCEPT ![k].disabled = TRUE]
  PROVE  RowsNewer
<1>1. apiKeys[k] \in KeyRecord
  BY DEF AccountsInv, Shapes
<1>2. /\ [apiKeys[k] EXCEPT !.disabled = TRUE].created = apiKeys[k].created
      /\ [apiKeys[k] EXCEPT !.disabled = TRUE].lastUsed = apiKeys[k].lastUsed
  BY <1>1 DEF KeyRecord
<1>3. /\ DOMAIN apiKeys' = DOMAIN apiKeys
      /\ \A j \in DOMAIN apiKeys \ {k} : apiKeys'[j] = apiKeys[j]
      /\ apiKeys'[k] = [apiKeys[k] EXCEPT !.disabled = TRUE]
  OBVIOUS
<1>. QED  BY <1>2, <1>3 DEF RowsNewer

\* The statements that insert, replace and disable rows.
LEMMA InsertedNewer ==
  ASSUME AccountsInv, NEW p \in Request
  PROVE  /\ A!CreateKey(p) => RowsNewer
         /\ \A k \in A!KeyId : A!RevokeKey(p, k) \/ A!AdminRevoke(p, k) => RowsNewer
         /\ \A k, u, raw : A!Inject(p, k, u, raw) => RowsNewer
         /\ UNCHANGED apiKeys => RowsNewer
<1>1. ASSUME A!CreateKey(p)
      PROVE  RowsNewer
  <2> DEFINE id == minted.key + 1
             row == A!KeyRow(proc[p].user, id, FALSE)
  <2>1. apiKeys' = A!Put(apiKeys, id, row)
    BY <1>1 DEF A!CreateKey
  <2>2. row.created = time
    BY DEF A!KeyRow
  <2> HIDE DEF row, id
  <2>3. /\ DOMAIN apiKeys' = DOMAIN apiKeys \cup {id} /\ apiKeys'[id] = row
        /\ \A y \in DOMAIN apiKeys \ {id} : apiKeys'[y] = apiKeys[y]
    BY <2>1 DEF A!Put
  <2>. QED  BY <2>2, <2>3 DEF RowsNewer
<1>2. ASSUME NEW k \in A!KeyId, A!RevokeKey(p, k) \/ A!AdminRevoke(p, k)
      PROVE  RowsNewer
  <2>1. apiKeys' = apiKeys => RowsNewer
    BY DEF RowsNewer
  <2>2. \/ apiKeys' = apiKeys
        \/ k \in DOMAIN apiKeys /\ apiKeys' = [apiKeys EXCEPT ![k].disabled = TRUE]
    <3>1. CASE A!RevokeKey(p, k)
      BY <3>1 DEF A!RevokeKey, A!RevokedBy
    <3>2. CASE A!AdminRevoke(p, k)
      BY <3>2 DEF A!AdminRevoke
    <3>. QED  BY <1>2, <3>1, <3>2
  <2>. QED  BY <2>1, <2>2, DisabledNewer
<1>3. ASSUME NEW k, NEW u, NEW raw, A!Inject(p, k, u, raw)
      PROVE  RowsNewer
  <2> DEFINE rest == A!Without(apiKeys, {j \in DOMAIN apiKeys : apiKeys[j].raw = raw})
             row == A!KeyRow(u, raw, TRUE)
  <2>1. apiKeys' = A!Put(rest, k, row)
    BY <1>3 DEF A!Inject, A!Injected
  <2>2. row.created = time
    BY DEF A!KeyRow
  <2>3. DOMAIN rest \subseteq DOMAIN apiKeys /\ \A y \in DOMAIN rest : rest[y] = apiKeys[y]
    BY DEF A!Without, A!Restrict
  <2> HIDE DEF row, rest
  <2>4. /\ DOMAIN apiKeys' = DOMAIN rest \cup {k} /\ apiKeys'[k] = row
        /\ \A y \in DOMAIN rest \ {k} : apiKeys'[y] = rest[y]
    BY <2>1 DEF A!Put
  <2>. QED  BY <2>2, <2>3, <2>4 DEF RowsNewer
<1>4. UNCHANGED apiKeys => RowsNewer
  BY DEF RowsNewer
<1>. QED  BY <1>1, <1>2, <1>3, <1>4

\* Which requests have a key to touch, and which step leaves the map alone.
LEMMA TouchedOthers ==
  ASSUME AccountsInv, TouchedFit, NEW p \in Request, A!SessionStep(p) \/ A!KeyStep(p)
  PROVE  \/ A!Touch(p) \/ A!UpdateLastUsed(p) \/ A!UpdateFails(p)
         \/ /\ UNCHANGED <<time, touched, failed>> /\ RowsNewer
            /\ proc[p].pc # "update"
            /\ proc'[p].pc = "touch" => "key" \in DOMAIN proc'[p]
<1> DEFINE Kept ==
      /\ UNCHANGED <<time, touched, failed>> /\ RowsNewer
      /\ proc[p].pc # "update"
      /\ proc'[p].pc = "touch" => "key" \in DOMAIN proc'[p]
<1>1. ASSUME NEW state, A!Begin(p, state) \/ A!Goto(p, state)
      PROVE  proc'[p] = state
  BY <1>1, Moves
<1>2. A!Idle.pc = "idle"
  BY DEF A!Idle
<1>3. CASE A!SessionStep(p)
  <2>1. /\ UNCHANGED <<time, touched, failed>>
        /\ proc[p].pc \in {"idle", "session", "create", "revoke"}
    BY <1>3 DEF A!SessionStep, A!Signup, A!Login, A!CreateSession, A!Logout, A!SessionRequest,
                A!CreateKey, A!RevokeKey, A!Begin
  <2>2. RowsNewer
    BY <1>3, InsertedNewer
       DEF A!SessionStep, A!Signup, A!Login, A!CreateSession, A!Logout, A!SessionRequest
  <2>3. proc'[p].pc # "touch"
    <3>1. ASSUME NEW n, A!Signup(p, n)
          PROVE  proc'[p].pc # "touch"
      BY <1>1, <3>1 DEF A!Signup
    <3>2. ASSUME NEW u, A!Login(p, u)
          PROVE  proc'[p].pc # "touch"
      BY <1>1, <3>2 DEF A!Login
    <3>3. ASSUME NEW t, NEW next \in {"create", "revoke"}, A!SessionRequest(p, t, next)
          PROVE  proc'[p].pc # "touch"
      BY <1>1, <3>3 DEF A!SessionRequest
    <3>4. ASSUME \/ A!CreateSession(p) \/ A!CreateKey(p)
                 \/ \E t \in A!TokenId : A!Logout(p, t)
                 \/ \E k \in A!KeyId : A!RevokeKey(p, k)
          PROVE  proc'[p].pc # "touch"
      BY <1>1, <1>2, <3>4 DEF A!CreateSession, A!CreateKey, A!Logout, A!RevokeKey
    <3>. QED  BY <1>3, <3>1, <3>2, <3>3, <3>4 DEF A!SessionStep
  <2>. QED  BY <2>1, <2>2, <2>3
<1>4. CASE A!KeyStep(p)
  <2>1. ASSUME NEW k \in A!KeyId, A!AdminRevoke(p, k)
        PROVE  Kept
    BY <1>1, <1>2, <2>1, InsertedNewer DEF A!AdminRevoke, A!Begin
  <2>2. ASSUME NEW k, A!Present(p, k)
        PROVE  Kept
    BY <1>1, <2>2, InsertedNewer DEF A!Present, A!Begin
  <2>3. ASSUME NEW k, NEW u, NEW raw, A!Inject(p, k, u, raw)
        PROVE  Kept
    <3>1. RowsNewer
      BY <2>3, InsertedNewer
    <3>. QED  BY <1>1, <1>2, <2>3, <3>1 DEF A!Inject, A!Begin
  <2>4. CASE A!Authenticate(p)
    <3>1. \/ proc'[p] = A!Idle
          \/ \E k : proc'[p] = [pc |-> "touch", raw |-> proc[p].raw, key |-> k,
                                user |-> apiKeys[k].user, cluster |-> apiKeys[k].cluster]
      BY <1>1, <2>4 DEF A!Authenticate
    <3>2. ASSUME NEW k,
                 proc'[p] = [pc |-> "touch", raw |-> proc[p].raw, key |-> k,
                             user |-> apiKeys[k].user, cluster |-> apiKeys[k].cluster]
          PROVE  "key" \in DOMAIN proc'[p]
      BY <3>2
    <3>3. proc'[p].pc = "touch" => "key" \in DOMAIN proc'[p]
      BY <1>2, <3>1, <3>2
    <3>. QED  BY <2>4, <3>3, InsertedNewer DEF A!Authenticate
  <2>5. CASE A!Answer(p)
    BY <1>1, <1>2, <2>5, InsertedNewer DEF A!Answer
  <2>. QED  BY <1>4, <2>1, <2>2, <2>3, <2>4, <2>5 DEF A!KeyStep
<1>. QED  BY <1>3, <1>4

LEMMA TouchedStep ==
  ASSUME AccountsInv, TouchedFit, A!Next
  PROVE  TouchedFit'
<1>1. /\ time \in Nat /\ apiKeys \in [DOMAIN apiKeys -> KeyRecord]
      /\ \A k \in DOMAIN touched : touched[k] \in Nat /\ touched[k] <= time
      /\ \A p \in Request : proc[p].pc = "touch" => "key" \in DOMAIN proc[p]
      /\ A!TouchedIsWritten
      /\ \A p \in Request : "pc" \in DOMAIN proc[p]
  BY DEF AccountsInv, Shapes, CarriedFits, TouchedFit
<1>2. CASE A!Restart
  BY <1>1, <1>2 DEF A!Restart, A!NoRows, A!Idle, TouchedFit, A!TouchedIsWritten
<1>3. CASE A!Purge \/ A!Tick
  <2>1. UNCHANGED <<apiKeys, touched, proc, failed>> /\ time' \in {time, time + 1}
    BY <1>3 DEF A!Purge, A!Tick
  <2>2. A!TouchedIsWritten'
    BY <1>1, <2>1 DEF A!TouchedIsWritten
  <2>3. \A k \in DOMAIN touched' : touched'[k] \in Nat /\ touched'[k] <= time'
    BY <1>1, <2>1
  <2>. QED  BY <1>1, <2>1, <2>2, <2>3 DEF TouchedFit
<1>4. ASSUME NEW p \in Request, A!SessionStep(p) \/ A!KeyStep(p)
      PROVE  TouchedFit'
  <2>1. \A q \in Request \ {p} : proc'[q] = proc[q]
    BY <1>4, SessionPlaces, KeyPlaces DEF Moved
  <2>2. CASE /\ UNCHANGED <<time, touched, failed>> /\ RowsNewer
             /\ proc[p].pc # "update"
             /\ proc'[p].pc = "touch" => "key" \in DOMAIN proc'[p]
    BY <1>1, <2>1, <2>2, TouchedKept DEF TouchedFit
  <2>3. CASE A!Touch(p)
    <3> DEFINE k == proc[p].key
    <3>1. "key" \in DOMAIN proc[p] /\ proc[p].pc = "touch" /\ UNCHANGED <<time, apiKeys, failed>>
      BY <1>1, <2>3 DEF A!Touch
    <3>2. CASE A!Goto(p, A!Answered(proc[p])) /\ UNCHANGED touched
      <4>1. proc'[p].pc # "touch"
        BY <3>2, Moves DEF A!Answered, A!Idle
      <4>2. RowsNewer
        BY <3>1 DEF RowsNewer
      <4>. QED  BY <1>1, <2>1, <3>1, <3>2, <4>1, <4>2, TouchedKept DEF TouchedFit
    <3>3. CASE touched' = A!Put(touched, k, time) /\ A!Goto(p, [proc[p] EXCEPT !.pc = "update"])
      <4>1. proc'[p].pc = "update" /\ proc'[p].key = k
        BY <1>1, <3>1, <3>3, Moves
      <4>2. /\ DOMAIN touched' = DOMAIN touched \cup {k} /\ touched'[k] = time
            /\ \A j \in DOMAIN touched \ {k} : touched'[j] = touched[j]
        BY <3>3 DEF A!Put
      <4>3. ASSUME NEW j \in DOMAIN touched' \cap DOMAIN apiKeys', j # k
            PROVE  \/ apiKeys'[j].lastUsed >= touched'[j] \/ apiKeys'[j].created >= touched'[j]
                   \/ j \in failed'
                   \/ \E q \in Request : proc'[q].pc = "update" /\ proc'[q].key = j
        <5>1. j \in DOMAIN touched \cap DOMAIN apiKeys /\ touched'[j] = touched[j]
          BY <3>1, <4>2, <4>3
        <5>2. CASE \E q \in Request : proc[q].pc = "update" /\ proc[q].key = j
          <6>1. PICK q \in Request : proc[q].pc = "update" /\ proc[q].key = j
            BY <5>2
          <6>2. q # p
            BY <3>1, <6>1
          <6>. QED  BY <2>1, <6>1, <6>2
        <5>. QED  BY <1>1, <3>1, <5>1, <5>2 DEF A!TouchedIsWritten
      <4>4. A!TouchedIsWritten'
        BY <4>1, <4>3 DEF A!TouchedIsWritten
      <4>5. \A j \in DOMAIN touched' : touched'[j] \in Nat /\ touched'[j] <= time'
        BY <1>1, <3>1, <4>2
      <4>6. \A q \in Request : proc'[q].pc = "touch" => "key" \in DOMAIN proc'[q]
        BY <1>1, <2>1, <4>1
      <4>. QED  BY <4>4, <4>5, <4>6 DEF TouchedFit
    <3>. QED  BY <2>3, <3>2, <3>3 DEF A!Touch
  <2>4. CASE A!UpdateLastUsed(p) \/ A!UpdateFails(p)
    <3> DEFINE k == proc[p].key
    <3>1. proc[p].pc = "update" /\ UNCHANGED <<time, touched>>
      BY <2>4 DEF A!UpdateLastUsed, A!UpdateFails
    <3>2. proc'[p].pc # "touch"
      <4>1. CASE A!UpdateLastUsed(p)
        BY <4>1, Moves DEF A!UpdateLastUsed, A!Answered, A!Idle
      <4>2. CASE A!UpdateFails(p)
        BY <4>2, Moves DEF A!UpdateFails, A!Idle
      <4>. QED  BY <2>4, <4>1, <4>2
    <3>3. /\ DOMAIN apiKeys' = DOMAIN apiKeys /\ failed \ {k} \subseteq failed'
          /\ \A j \in DOMAIN apiKeys \ {k} : apiKeys'[j] = apiKeys[j]
          /\ k \in DOMAIN apiKeys => k \in failed' \/ apiKeys'[k].lastUsed = time
      <4>1. CASE A!UpdateLastUsed(p)
        <5>1. /\ apiKeys' = IF k \in DOMAIN apiKeys THEN [apiKeys EXCEPT ![k].lastUsed = time]
                            ELSE apiKeys
              /\ failed' = failed \ {k}
          BY <4>1 DEF A!UpdateLastUsed, A!LastUsedNow
        <5>2. k \in DOMAIN apiKeys => [apiKeys[k] EXCEPT !.lastUsed = time].lastUsed = time
          BY <1>1 DEF KeyRecord
        <5> HIDE DEF k
        <5>. QED  BY <5>1, <5>2
      <4>2. CASE A!UpdateFails(p)
        BY <4>2 DEF A!UpdateFails
      <4>. QED  BY <2>4, <4>1, <4>2
    <3>4. ASSUME NEW j \in DOMAIN touched \cap DOMAIN apiKeys
          PROVE  \/ apiKeys'[j].lastUsed >= touched[j] \/ apiKeys'[j].created >= touched[j]
                 \/ j \in failed'
                 \/ \E q \in Request : proc'[q].pc = "update" /\ proc'[q].key = j
      <4>1. CASE j = k
        <5>1. k \in failed' \/ apiKeys'[k].lastUsed = time
          BY <3>3, <4>1
        <5>2. touched[k] <= time /\ touched[k] \in Nat
          BY <1>1, <4>1
        <5>. QED  BY <1>1, <4>1, <5>1, <5>2
      <4>2. CASE j # k /\ \E q \in Request : proc[q].pc = "update" /\ proc[q].key = j
        <5>1. PICK q \in Request : proc[q].pc = "update" /\ proc[q].key = j
          BY <4>2
        <5>2. q # p
          BY <4>2, <5>1
        <5>. QED  BY <2>1, <5>1, <5>2
      <4>3. CASE j # k /\ ~\E q \in Request : proc[q].pc = "update" /\ proc[q].key = j
        <5>1. apiKeys'[j] = apiKeys[j] /\ (j \in failed => j \in failed')
          BY <3>3, <4>3
        <5>. QED  BY <1>1, <4>3, <5>1 DEF A!TouchedIsWritten
      <4>. QED  BY <4>1, <4>2, <4>3
    <3>5. A!TouchedIsWritten'
      BY <3>1, <3>3, <3>4 DEF A!TouchedIsWritten
    <3>. QED  BY <1>1, <2>1, <3>1, <3>2, <3>5 DEF TouchedFit
  <2>. QED  BY <1>4, <2>2, <2>3, <2>4, TouchedOthers
<1>. QED  BY <1>2, <1>3, <1>4 DEF A!Next

-----------------------------------------------------------------------------
(* Usage on its way to the platform database.                              *)

ProfileOps == [op : {"profile"}, of : User, text : {<<s1>>, <<s2, s3>>, <<s3, s1>>}]
Operations == [op : {"usage"}, of : W!Counter] \cup ProfileOps
Counts == [W!Counter -> Nat]
Batches == [usage : Counts, profiles : Seq(ProfileOps)]

UsageShapes ==
  /\ channel \in Seq(Operations)
  /\ pending \in Batches /\ flushing \in Batches
  /\ usage \in Counts /\ sent \in Counts /\ lost \in Counts

UsageFit == UsageShapes /\ W!UsageConserved

\* Where the operations that count for c stand, and how many an operation is.
Places(queue, c) == {i \in DOMAIN queue : queue[i].op = "usage" /\ queue[i].of = c}
Counting(op, c) == IF op.op = "usage" /\ op.of = c THEN 1 ELSE 0

LEMMA PlacesFinite ==
  ASSUME NEW queue \in Seq(Operations), NEW c
  PROVE  IsFiniteSet(Places(queue, c)) /\ Cardinality(Places(queue, c)) \in Nat
<1>1. IsFiniteSet(1..Len(queue))
  BY FS_Interval
<1>2. Places(queue, c) \in SUBSET (1..Len(queue))
  BY DEF Places
<1>. QED  BY <1>1, <1>2, FS_Subset, FS_CardinalityType

\* The instance counts as this module does.
LEMMA SameCardinality == \A S : W!Cardinality(S) = Cardinality(S)
BY DEF W!Cardinality, Cardinality

LEMMA UsageCounts ==
  ASSUME NEW queue \in Seq(Operations)
  PROVE  /\ W!UsageIn(queue) \in Counts
         /\ \A c \in W!Counter : W!UsageIn(queue)[c] = Cardinality(Places(queue, c))
<1>1. W!UsageIn(queue) = [c \in W!Counter |-> Cardinality(Places(queue, c))]
  BY SameCardinality DEF W!UsageIn, Places
<1>2. \A c \in W!Counter : Cardinality(Places(queue, c)) \in Nat
  BY PlacesFinite
<1>. QED  BY <1>1, <1>2 DEF Counts

\* Sending one operation.
LEMMA UsageAppended ==
  ASSUME NEW queue \in Seq(Operations), NEW op \in Operations, NEW c \in W!Counter
  PROVE  W!UsageIn(Append(queue, op))[c] = W!UsageIn(queue)[c] + Counting(op, c)
<1> DEFINE all == Append(queue, op)
           n == Len(queue) + 1
<1>1. /\ all \in Seq(Operations) /\ n \in DOMAIN all /\ n \notin DOMAIN queue /\ all[n] = op
      /\ DOMAIN queue = 1..Len(queue) /\ Len(queue) \in Nat
      /\ \A i \in DOMAIN queue : i \in DOMAIN all /\ all[i] = queue[i]
      /\ \A i \in DOMAIN all : i = n \/ i \in DOMAIN queue
  OBVIOUS
<1> HIDE DEF all, n
<1>2. CASE op.op = "usage" /\ op.of = c
  <2>1. n \in Places(all, c) /\ n \notin Places(queue, c)
    BY <1>1, <1>2 DEF Places
  <2>2. \A i : i # n => (i \in Places(all, c) <=> i \in Places(queue, c))
    BY <1>1 DEF Places
  <2>3. Places(all, c) = Places(queue, c) \cup {n}
    BY <2>1, <2>2
  <2>4. Cardinality(Places(all, c)) = Cardinality(Places(queue, c)) + 1
    BY <2>1, <2>3, PlacesFinite, FS_AddElement
  <2>. QED  BY <1>1, <1>2, <2>4, UsageCounts DEF Counting, all
<1>3. CASE ~(op.op = "usage" /\ op.of = c)
  <2>1. Places(all, c) = Places(queue, c)
    BY <1>1, <1>3, ZenonT(30) DEF Places
  <2>2. /\ W!UsageIn(queue)[c] = Cardinality(Places(queue, c))
        /\ W!UsageIn(Append(queue, op))[c] = Cardinality(Places(all, c))
    BY <1>1, UsageCounts DEF all
  <2>3. Cardinality(Places(queue, c)) \in Nat /\ Counting(op, c) = 0
    BY <1>3, PlacesFinite DEF Counting
  <2>. QED  BY <2>1, <2>2, <2>3
<1>. QED  BY <1>2, <1>3

\* Receiving one operation.
LEMMA UsageReceived ==
  ASSUME NEW queue \in Seq(Operations), queue # <<>>, NEW c \in W!Counter
  PROVE  W!UsageIn(queue)[c] = W!UsageIn(Tail(queue))[c] + Counting(Head(queue), c)
<1> DEFINE rest == Tail(queue)
           shift == [i \in Places(rest, c) |-> i + 1]
           moved == Places(queue, c) \ {1}
<1>1. /\ rest \in Seq(Operations) /\ DOMAIN rest = 1..(Len(queue) - 1)
      /\ DOMAIN queue = 1..Len(queue) /\ Len(queue) \in Nat /\ Len(queue) >= 1
      /\ \A i \in DOMAIN rest : rest[i] = queue[i + 1]
      /\ Head(queue) = queue[1]
  OBVIOUS
<1> HIDE DEF rest
<1>2. \A i \in Places(rest, c) : i \in Nat /\ i >= 1 /\ i + 1 \in moved
  BY <1>1 DEF Places
<1>3. \A j \in moved : j - 1 \in Places(rest, c) /\ (j - 1) + 1 = j
  BY <1>1 DEF Places
<1>4. shift \in Bijection(Places(rest, c), moved)
  <2>1. shift \in [Places(rest, c) -> moved]
    BY <1>2
  <2>2. \A i, j \in Places(rest, c) : shift[i] = shift[j] => i = j
    BY <1>2
  <2>3. \A j \in moved : \E i \in Places(rest, c) : shift[i] = j
    BY <1>3
  <2> HIDE DEF shift, moved
  <2>. QED  BY <2>1, <2>2, <2>3 DEF Bijection, Injection, Surjection, IsInjective
<1>5. Cardinality(moved) = Cardinality(Places(rest, c)) /\ IsFiniteSet(moved)
  BY <1>1, <1>4, PlacesFinite, FS_Bijection DEF ExistsBijection
<1>6. CASE Head(queue).op = "usage" /\ Head(queue).of = c
  <2>1. Places(queue, c) = moved \cup {1} /\ 1 \notin moved
    BY <1>1, <1>6 DEF Places
  <2>2. Cardinality(Places(queue, c)) = Cardinality(moved) + 1
    BY <1>5, <2>1, FS_AddElement
  <2>. QED  BY <1>1, <1>5, <1>6, <2>2, UsageCounts DEF Counting, rest
<1>7. CASE ~(Head(queue).op = "usage" /\ Head(queue).of = c)
  <2>1. Places(queue, c) = moved
    BY <1>1, <1>7 DEF Places
  <2>2. /\ W!UsageIn(queue)[c] = Cardinality(Places(queue, c))
        /\ W!UsageIn(Tail(queue))[c] = Cardinality(Places(rest, c))
    BY <1>1, UsageCounts DEF rest
  <2>3. Cardinality(Places(rest, c)) \in Nat /\ Counting(Head(queue), c) = 0
    BY <1>1, <1>7, PlacesFinite DEF Counting
  <2>4. Cardinality(Places(queue, c)) = Cardinality(Places(rest, c))
    BY <1>5, <2>1
  <2>. QED  BY <2>2, <2>3, <2>4
<1>. QED  BY <1>6, <1>7

LEMMA PlusFacts ==
  ASSUME NEW f \in Counts, NEW g \in Counts
  PROVE  W!Plus(f, g) \in Counts /\ \A c \in W!Counter : W!Plus(f, g)[c] = f[c] + g[c]
BY DEF W!Plus, Counts

LEMMA OneFacts ==
  ASSUME NEW d \in W!Counter
  PROVE  /\ W!One(d) \in Counts /\ W!None \in Counts
         /\ \A c \in W!Counter : W!One(d)[c] = (IF c = d THEN 1 ELSE 0) /\ W!None[c] = 0
BY DEF W!One, W!None, Counts

LEMMA NothingFacts ==
  /\ W!Nothing \in Batches /\ <<>> \in Seq(Operations)
  /\ \A c \in W!Counter : W!Nothing.usage[c] = 0 /\ W!UsageIn(<<>>)[c] = 0
<1>1. /\ W!None \in Counts /\ <<>> \in Seq(ProfileOps)
      /\ \A c \in W!Counter : W!None[c] = 0
  BY DEF W!None, Counts
<1>2. <<>> \in Seq(Operations) /\ \A c : Places(<<>>, c) = {}
  BY DEF Places
<1>. QED  BY <1>1, <1>2, FS_EmptySet, UsageCounts DEF W!Nothing, Batches

\* What the writer keeps of an operation it receives.
LEMMA CollectedFacts ==
  ASSUME UsageShapes, NEW op \in Operations
  PROVE  /\ W!Collected(op) \in Batches
         /\ \A c \in W!Counter : W!Collected(op).usage[c] = pending.usage[c] + Counting(op, c)
<1>1. pending \in Batches /\ pending.usage \in Counts
  BY DEF UsageShapes, Batches
<1>2. CASE op.op = "usage"
  <2>1. op.of \in W!Counter
    BY <1>2 DEF Operations, ProfileOps
  <2>2. W!Collected(op) = [pending EXCEPT !.usage = W!Plus(pending.usage, W!One(op.of))]
    BY <1>1, <1>2 DEF W!Collected, Batches
  <2>3. /\ W!Plus(pending.usage, W!One(op.of)) \in Counts
        /\ \A c \in W!Counter : W!Plus(pending.usage, W!One(op.of))[c]
                                  = pending.usage[c] + Counting(op, c)
    BY <1>1, <1>2, <2>1, OneFacts, PlusFacts DEF Counting
  <2>. QED  BY <1>1, <2>2, <2>3 DEF Batches
<1>3. CASE op.op # "usage"
  <2>1. op \in ProfileOps
    BY <1>3 DEF Operations
  <2>2. W!Collected(op) = [pending EXCEPT !.profiles = Append(pending.profiles, op)]
    BY <1>1, <1>3 DEF W!Collected, Batches
  <2>3. Append(pending.profiles, op) \in Seq(ProfileOps)
    BY <1>1, <2>1 DEF Batches
  <2>4. W!Collected(op) \in Batches /\ W!Collected(op).usage = pending.usage
    BY <1>1, <2>2, <2>3 DEF Batches
  <2>5. \A c \in W!Counter : pending.usage[c] \in Nat /\ Counting(op, c) = 0
    BY <1>1, <1>3 DEF Counts, Counting
  <2>. QED  BY <2>4, <2>5
<1>. QED  BY <1>2, <1>3

LEMMA UsageInit == W!Init => UsageFit
<1> SUFFICES ASSUME W!Init PROVE UsageFit
  OBVIOUS
<1>1. /\ channel = <<>> /\ pending = W!Nothing /\ flushing = W!Nothing
      /\ usage = W!None /\ sent = W!None /\ lost = W!None
  BY DEF W!Init
<1>2. W!None \in Counts /\ \A c \in W!Counter : W!None[c] = 0
  BY DEF W!None, Counts
<1>3. UsageShapes
  BY <1>1, <1>2, NothingFacts DEF UsageShapes
<1>4. W!UsageConserved
  BY <1>1, <1>2, NothingFacts DEF W!UsageConserved
<1>. QED  BY <1>3, <1>4 DEF UsageFit

\* Every step moves a count from one place to the next, all of it.
LEMMA UsageStep ==
  ASSUME UsageFit, W!Next
  PROVE  UsageFit'
<1>1. /\ UsageShapes /\ W!UsageConserved
      /\ channel \in Seq(Operations) /\ pending \in Batches /\ flushing \in Batches
      /\ usage \in Counts /\ sent \in Counts /\ lost \in Counts
      /\ pending.usage \in Counts /\ flushing.usage \in Counts /\ W!UsageIn(channel) \in Counts
      /\ pending.profiles \in Seq(ProfileOps) /\ flushing.profiles \in Seq(ProfileOps)
  BY UsageCounts DEF UsageFit, UsageShapes, Batches
<1>2. \A c \in W!Counter :
        /\ sent[c] \in Nat /\ W!UsageIn(channel)[c] \in Nat /\ pending.usage[c] \in Nat
        /\ flushing.usage[c] \in Nat /\ usage[c] \in Nat /\ lost[c] \in Nat
        /\ sent[c] = W!UsageIn(channel)[c] + pending.usage[c] + flushing.usage[c]
                       + usage[c] + lost[c]
  BY <1>1 DEF Counts, W!UsageConserved
<1>3. ASSUME NEW op \in Operations, W!Sent(op)
      PROVE  /\ channel' \in Seq(Operations)
             /\ \/ /\ channel' # channel
                   /\ \A c \in W!Counter :
                        W!UsageIn(channel')[c] = W!UsageIn(channel)[c] + Counting(op, c)
                \/ channel' = channel
  <2>1. CASE channel' = Append(channel, op)
    <3>1. channel' # channel /\ channel' \in Seq(Operations)
      BY <1>1, <2>1
    <3>. QED  BY <1>1, <2>1, <3>1, UsageAppended
  <2>2. CASE channel' = channel
    BY <1>1, <2>2
  <2>. QED  BY <1>3, <2>1, <2>2 DEF W!Sent
<1>4. ASSUME NEW d \in W!Counter, W!SendUsage(d)
      PROVE  UsageFit'
  <2> DEFINE op == [op |-> "usage", of |-> d]
  <2>1. /\ W!Sent(op) /\ sent' = W!Plus(sent, W!One(d))
        /\ lost' = IF channel' = channel THEN W!Plus(lost, W!One(d)) ELSE lost
        /\ UNCHANGED <<pending, flushing, usage>>
    BY <1>4 DEF W!SendUsage
  <2>2. op \in Operations /\ \A c \in W!Counter : Counting(op, c) = W!One(d)[c]
    BY OneFacts DEF Operations, Counting
  <2> HIDE DEF op
  <2>3. /\ sent' \in Counts /\ \A c \in W!Counter : sent'[c] = sent[c] + W!One(d)[c]
        /\ W!Plus(lost, W!One(d)) \in Counts
        /\ \A c \in W!Counter : W!Plus(lost, W!One(d))[c] = lost[c] + W!One(d)[c]
        /\ \A c \in W!Counter : W!One(d)[c] \in Nat
    BY <1>1, <2>1, PlusFacts, OneFacts
  <2>4. CASE channel' = channel
    <3>1. UsageShapes'
      BY <1>1, <2>1, <2>3, <2>4 DEF UsageShapes
    <3>2. W!UsageConserved'
      BY <1>2, <2>1, <2>3, <2>4, SMTT(30) DEF W!UsageConserved
    <3>. QED  BY <3>1, <3>2 DEF UsageFit
  <2>5. CASE channel' # channel
    <3>1. channel' \in Seq(Operations)
      BY <1>3, <2>1, <2>2
    <3>2. UsageShapes'
      BY <1>1, <2>1, <2>3, <2>5, <3>1 DEF UsageShapes
    <3>3. \A c \in W!Counter : W!UsageIn(channel')[c] = W!UsageIn(channel)[c] + W!One(d)[c]
      BY <1>3, <2>1, <2>2, <2>5
    <3>4. W!UsageConserved'
      BY <1>2, <2>1, <2>3, <2>5, <3>3 DEF W!UsageConserved
    <3>. QED  BY <3>2, <3>4 DEF UsageFit
  <2>. QED  BY <2>4, <2>5
<1>5. ASSUME NEW user \in User, NEW text \in {<<s1>>, <<s2, s3>>, <<s3, s1>>},
             W!SendProfile(user, text)
      PROVE  UsageFit'
  <2> DEFINE op == [op |-> "profile", of |-> user, text |-> text]
  <2>1. W!Sent(op) /\ UNCHANGED <<pending, flushing, usage, sent, lost>>
    BY <1>5 DEF W!SendProfile
  <2>2. op \in Operations /\ \A c \in W!Counter : Counting(op, c) = 0
    BY DEF Operations, ProfileOps, Counting
  <2> HIDE DEF op
  <2>3. /\ channel' \in Seq(Operations)
        /\ \A c \in W!Counter : W!UsageIn(channel')[c] = W!UsageIn(channel)[c]
    BY <1>2, <1>3, <2>1, <2>2
  <2>4. UsageShapes'
    BY <1>1, <2>1, <2>3 DEF UsageShapes
  <2>5. W!UsageConserved'
    BY <1>2, <2>1, <2>3 DEF W!UsageConserved
  <2>. QED  BY <2>4, <2>5 DEF UsageFit
<1>6. ASSUME NEW batch \in Batches, W!Taken(batch), \A c \in W!Counter : flushing.usage[c] = 0
      PROVE  /\ pending' \in Batches /\ flushing' \in Batches
             /\ \A c \in W!Counter : pending'.usage[c] + flushing'.usage[c] = batch.usage[c]
  <2>1. flushing' = batch /\ pending' = W!Nothing
    BY <1>6 DEF W!Taken
  <2>2. \A c \in W!Counter : batch.usage[c] \in Nat
    BY DEF Batches, Counts
  <2>. QED  BY <2>1, <2>2, NothingFacts
<1>7. ASSUME W!IsEmpty(flushing)
      PROVE  \A c \in W!Counter : flushing.usage[c] = 0
  BY <1>2, <1>7 DEF W!IsEmpty, W!Used
<1>8. CASE W!Receive
  <2> DEFINE batch == W!Collected(Head(channel))
  <2>1. /\ W!IsEmpty(flushing) /\ channel # <<>> /\ channel' = Tail(channel)
        /\ \/ W!Taken(batch)
           \/ pending' = batch /\ UNCHANGED flushing
        /\ UNCHANGED <<usage, sent, lost>>
    BY <1>8 DEF W!Receive
  <2>2. Head(channel) \in Operations /\ channel' \in Seq(Operations)
    BY <1>1, <2>1
  <2>3. /\ batch \in Batches
        /\ \A c \in W!Counter : batch.usage[c] = pending.usage[c] + Counting(Head(channel), c)
    BY <1>1, <2>2, CollectedFacts
  <2>4. \A c \in W!Counter :
          W!UsageIn(channel)[c] = W!UsageIn(channel')[c] + Counting(Head(channel), c)
    BY <1>1, <2>1, UsageReceived
  <2>5. \A c \in W!Counter : W!UsageIn(channel')[c] \in Nat /\ Counting(Head(channel), c) \in Nat
    BY <2>2, UsageCounts DEF Counts, Counting
  <2> HIDE DEF batch
  <2>6. /\ pending' \in Batches /\ flushing' \in Batches
        /\ \A c \in W!Counter : pending'.usage[c] + flushing'.usage[c] = batch.usage[c]
    <3>1. CASE W!Taken(batch)
      BY <1>6, <1>7, <2>1, <2>3, <3>1
    <3>2. CASE pending' = batch /\ UNCHANGED flushing
      <4>1. \A c \in W!Counter : batch.usage[c] \in Nat
        BY <2>3 DEF Batches, Counts
      <4>. QED  BY <1>1, <1>7, <2>1, <2>3, <3>2, <4>1
    <3>. QED  BY <2>1, <3>1, <3>2
  <2>7. \A c \in W!Counter : pending'.usage[c] \in Nat /\ flushing'.usage[c] \in Nat
    BY <2>6 DEF Batches, Counts
  <2>8. UsageShapes'
    BY <1>1, <2>1, <2>2, <2>6 DEF UsageShapes
  <2>9. ASSUME NEW c \in W!Counter
        PROVE  sent'[c] = W!UsageIn(channel')[c] + pending'.usage[c] + flushing'.usage[c]
                            + usage'[c] + lost'[c]
    <3>1. flushing.usage[c] = 0
      BY <1>7, <2>1
    <3>2. pending'.usage[c] + flushing'.usage[c] = pending.usage[c] + Counting(Head(channel), c)
      BY <2>3, <2>6
    <3>3. sent'[c] = sent[c] /\ usage'[c] = usage[c] /\ lost'[c] = lost[c]
      BY <2>1
    <3>. QED  BY <1>2, <2>4, <2>5, <2>7, <3>1, <3>2, <3>3
  <2>. QED  BY <2>8, <2>9 DEF UsageFit, W!UsageConserved
<1>9. CASE W!Flush
  <2>1. W!IsEmpty(flushing) /\ W!Taken(pending) /\ UNCHANGED <<channel, usage, sent, lost>>
    BY <1>9 DEF W!Flush
  <2>2. /\ pending' \in Batches /\ flushing' \in Batches
        /\ \A c \in W!Counter : pending'.usage[c] + flushing'.usage[c] = pending.usage[c]
    BY <1>1, <1>6, <1>7, <2>1
  <2>3. \A c \in W!Counter : pending'.usage[c] \in Nat /\ flushing'.usage[c] \in Nat
    BY <2>2 DEF Batches, Counts
  <2>4. UsageShapes'
    BY <1>1, <2>1, <2>2 DEF UsageShapes
  <2>5. ASSUME NEW c \in W!Counter
        PROVE  sent'[c] = W!UsageIn(channel')[c] + pending'.usage[c] + flushing'.usage[c]
                            + usage'[c] + lost'[c]
    <3>1. flushing.usage[c] = 0 /\ pending'.usage[c] + flushing'.usage[c] = pending.usage[c]
      BY <1>7, <2>1, <2>2
    <3>. QED  BY <1>2, <2>1, <2>3, <3>1
  <2>. QED  BY <2>4, <2>5 DEF UsageFit, W!UsageConserved
<1>10. ASSUME NEW d \in W!Counter, W!WriteUsage(d)
       PROVE  UsageFit'
  <2> DEFINE n == flushing.usage[d]
             more(f) == [f EXCEPT ![d] = @ + n]
  <2>1. /\ flushing' = [flushing EXCEPT !.usage[d] = 0]
        /\ \/ usage' = more(usage) /\ lost' = lost
           \/ lost' = more(lost) /\ usage' = usage
        /\ UNCHANGED <<channel, pending, sent>>
    BY <1>10 DEF W!WriteUsage
  <2>2. /\ flushing' \in Batches /\ flushing'.usage[d] = 0
        /\ \A c \in W!Counter \ {d} : flushing'.usage[c] = flushing.usage[c]
    BY <1>1, <2>1 DEF Batches, Counts
  <2>3. ASSUME NEW f \in Counts
        PROVE  /\ more(f) \in Counts /\ more(f)[d] = f[d] + n
               /\ \A c \in W!Counter \ {d} : more(f)[c] = f[c]
    BY <1>2 DEF Counts
  <2> HIDE DEF more, n
  <2>4. UsageShapes'
    BY <1>1, <2>1, <2>2, <2>3 DEF UsageShapes
  <2>5. ASSUME NEW c \in W!Counter
        PROVE  sent'[c] = W!UsageIn(channel')[c] + pending'.usage[c] + flushing'.usage[c]
                            + usage'[c] + lost'[c]
    <3>1. CASE c = d
      <4>1. /\ flushing'.usage[c] = 0 /\ n = flushing.usage[c]
            /\ \/ usage'[c] = usage[c] + n /\ lost'[c] = lost[c]
               \/ lost'[c] = lost[c] + n /\ usage'[c] = usage[c]
        BY <1>1, <2>1, <2>2, <2>3, <3>1 DEF n
      <4>. QED  BY <1>2, <2>1, <4>1
    <3>2. CASE c # d
      <4>1. flushing'.usage[c] = flushing.usage[c] /\ usage'[c] = usage[c] /\ lost'[c] = lost[c]
        BY <1>1, <2>1, <2>2, <2>3, <3>2
      <4>. QED  BY <1>2, <2>1, <4>1
    <3>. QED  BY <3>1, <3>2
  <2>. QED  BY <2>4, <2>5 DEF UsageFit, W!UsageConserved
<1>11. CASE W!WriteProfile
  <2>1. /\ flushing.profiles # <<>>
        /\ flushing' = [flushing EXCEPT !.profiles = Tail(flushing.profiles)]
        /\ UNCHANGED <<channel, pending, usage, sent, lost>>
    BY <1>1, <1>11 DEF W!WriteProfile, Batches
  <2>2. Tail(flushing.profiles) \in Seq(ProfileOps)
    BY <1>1, <2>1
  <2>3. flushing' \in Batches /\ flushing'.usage = flushing.usage
    BY <1>1, <2>1, <2>2 DEF Batches
  <2>4. UsageShapes' /\ W!UsageConserved'
    BY <1>1, <1>2, <2>1, <2>3 DEF UsageShapes, W!UsageConserved
  <2>. QED  BY <2>4 DEF UsageFit
<1>12. CASE W!Close
  <2>1. UNCHANGED <<channel, pending, flushing, usage, sent, lost>>
    BY <1>12 DEF W!Close
  <2>. QED  BY <1>1, <2>1 DEF UsageFit, UsageShapes, W!UsageConserved
<1>13. CASE W!Exit
  <2> DEFINE inside == W!Plus(pending.usage, flushing.usage)
             waiting == W!Plus(W!UsageIn(channel), inside)
  <2>1. /\ lost' = W!Plus(lost, waiting)
        /\ channel' = <<>> /\ pending' = W!Nothing /\ flushing' = W!Nothing
        /\ UNCHANGED <<usage, sent>>
    BY <1>13 DEF W!Exit
  <2>2. /\ inside \in Counts
        /\ \A c \in W!Counter : inside[c] = pending.usage[c] + flushing.usage[c]
    BY <1>1, PlusFacts
  <2> HIDE DEF inside
  <2>3. /\ waiting \in Counts
        /\ \A c \in W!Counter : waiting[c] = W!UsageIn(channel)[c] + inside[c]
    BY <1>1, <2>2, PlusFacts
  <2> HIDE DEF waiting
  <2>4. lost' \in Counts /\ \A c \in W!Counter : lost'[c] = lost[c] + waiting[c]
    BY <1>1, <2>1, <2>3, PlusFacts
  <2>5. UsageShapes'
    BY <1>1, <2>1, <2>4, NothingFacts DEF UsageShapes
  <2>6. W!UsageConserved'
    BY <1>2, <2>1, <2>2, <2>3, <2>4, NothingFacts DEF W!UsageConserved
  <2>. QED  BY <2>5, <2>6 DEF UsageFit
<1>. QED  BY <1>4, <1>5, <1>8, <1>9, <1>10, <1>11, <1>12, <1>13 DEF W!Next, W!Writer

-----------------------------------------------------------------------------
(* Folds.  A fold is a recursive function of the initial segments of its     *)
(* sequence; here is what it goes through.                                   *)

\* Induction up to n, of membership in a set.
LEMMA UpTo ==
  ASSUME NEW n \in Nat, NEW S, 0 \in S, \A k \in 1..n : k - 1 \in S => k \in S
  PROVE  \A k \in 0..n : k \in S
<1> DEFINE T == (0..n) \ S
<1>1. SUFFICES ASSUME T # {} PROVE FALSE
  OBVIOUS
<1>2. T \subseteq Nat
  OBVIOUS
<1>3. PICK k \in T : \A j \in T : ~(<<j, k>> \in OpToRel(<, Nat))
  <2> HIDE DEF T
  <2>. QED  BY <1>1, <1>2, WFMin, NatLessThanWellFounded
<1>4. \A j \in T : ~(j < k)
  BY <1>2, <1>3 DEF OpToRel
<1>5. k # 0 /\ k \in 1..n
  OBVIOUS
<1>6. k - 1 \in S
  BY <1>4, <1>5
<1>. QED  BY <1>5, <1>6

\* The last of an initial segment, and the maximum of a set, that folds take first.
LEMMA MaxTop ==
  ASSUME NEW k \in Nat, NEW s \in SUBSET (1..k), k \in s
  PROVE  W!Max(s) = k
<1> DEFINE Top(x) == x \in s /\ \A y \in s : x >= y
<1>1. W!Max(s) = CHOOSE x : Top(x)
  BY DEF W!Max
<1>2. \A x \in s : x \in Nat /\ k >= x
  OBVIOUS
<1>3. Top(k)
  BY <1>2
<1>4. ASSUME NEW x, Top(x) PROVE x = k
  <2>1. x \in Nat /\ k >= x /\ x >= k
    BY <1>2, <1>4
  <2>. QED  BY <2>1
<1> HIDE DEF Top
<1>. QED  BY <1>1, <1>3, <1>4

LEMMA Initial ==
  ASSUME NEW n \in Nat, NEW k \in 1..n
  PROVE  /\ W!Max(1..k) = k /\ (1..k) \ {k} = 1..(k - 1)
         /\ 1..k \in SUBSET (1..n) /\ 1..k # {}
<1>1. (1..k) \ {k} = 1..(k - 1)
  OBVIOUS
<1>2. 1..k \in SUBSET (1..n) /\ 1..k # {}
  OBVIOUS
<1>3. k \in Nat /\ 1..k \in SUBSET (1..k) /\ k \in 1..k
  OBVIOUS
<1>4. W!Max(1..k) = k
  BY <1>3, MaxTop
<1>. QED  BY <1>1, <1>2, <1>4

LEMMA MaxIn ==
  ASSUME NEW n \in Nat, NEW s \in SUBSET (1..n), s # {}
  PROVE  W!Max(s) \in s
<1> DEFINE Good == {k \in 0..n : \A t \in SUBSET (1..k) : t # {} => \E x \in t : \A y \in t : x >= y}
<1>1. 0 \in Good
  <2>1. 1..0 = {}
    OBVIOUS
  <2>2. \A t \in SUBSET (1..0) : t # {} => \E x \in t : \A y \in t : x >= y
    BY <2>1
  <2>. QED  BY <2>2
<1>2. ASSUME NEW k \in 1..n, k - 1 \in Good PROVE k \in Good
  <2>1. ASSUME NEW t \in SUBSET (1..k), t # {} PROVE \E x \in t : \A y \in t : x >= y
    <3>1. CASE k \in t
      BY <3>1
    <3>2. CASE k \notin t
      <4>1. t \in SUBSET (1..(k - 1))
        BY <3>2
      <4>. QED  BY <1>2, <2>1, <4>1
    <3>. QED  BY <3>1, <3>2
  <2>. QED  BY <2>1
<1> HIDE DEF Good
<1>3. n \in Good
  BY <1>1, <1>2, UpTo
<1>4. \E x \in s : \A y \in s : x >= y
  BY <1>3 DEF Good
<1>. QED  BY <1>4 DEF W!Max

\* The function that a fold of n elements is defined by, step[i][v] being what
\* the element at i makes of v.
IsFold(n, base, step, g) ==
  g = [s \in SUBSET (1..n) |-> IF s = {} THEN base ELSE step[W!Max(s)][g[s \ {W!Max(s)}]]]

LEMMA FoldExists ==
  ASSUME NEW n \in Nat, NEW X, NEW base \in X, NEW step \in [1..n -> [X -> X]]
  PROVE  \E g \in [SUBSET (1..n) -> X] : IsFold(n, base, step, g)
<1> DEFINE Good == {k \in 0..n : \E g \in [SUBSET (1..k) -> X] : IsFold(k, base, step, g)}
<1>1. 0 \in Good
  <2> DEFINE g == [s \in SUBSET (1..0) |-> base]
  <2>1. 1..0 = {}
    OBVIOUS
  <2>2. IsFold(0, base, step, g)
    BY <2>1 DEF IsFold
  <2>3. g \in [SUBSET (1..0) -> X]
    OBVIOUS
  <2>. QED  BY <2>2, <2>3
<1>2. ASSUME NEW k \in 1..n, k - 1 \in Good PROVE k \in Good
  <2>1. PICK g \in [SUBSET (1..(k - 1)) -> X] : IsFold(k - 1, base, step, g)
    BY <1>2
  <2> DEFINE h == [s \in SUBSET (1..k) |-> IF k \in s THEN step[k][g[s \ {k}]] ELSE g[s]]
  <2>2. ASSUME NEW s \in SUBSET (1..k)
        PROVE  h[s] = IF s = {} THEN base ELSE step[W!Max(s)][h[s \ {W!Max(s)}]]
    <3>1. CASE k \in s
      <4>1. W!Max(s) = k
        BY <3>1, MaxTop
      <4>2. s \ {k} \in SUBSET (1..k) /\ k \notin s \ {k}
        OBVIOUS
      <4>3. h[s \ {k}] = g[s \ {k}]
        BY <4>2
      <4>. QED  BY <3>1, <4>1, <4>3
    <3>2. CASE k \notin s
      <4>1. s \in SUBSET (1..(k - 1)) /\ h[s] = g[s]
        BY <3>2
      <4>2. g[s] = IF s = {} THEN base ELSE step[W!Max(s)][g[s \ {W!Max(s)}]]
        BY <2>1, <4>1 DEF IsFold
      <4>3. s \ {W!Max(s)} \in SUBSET (1..k) /\ k \notin s \ {W!Max(s)}
        BY <3>2
      <4>4. h[s \ {W!Max(s)}] = g[s \ {W!Max(s)}]
        BY <4>3
      <4>. QED  BY <4>1, <4>2, <4>4
    <3>. QED  BY <3>1, <3>2
  <2>3. IsFold(k, base, step, h)
    <3> HIDE DEF h
    <3>1. h = [s \in SUBSET (1..k) |-> h[s]]
      BY DEF h
    <3>. QED  BY <2>2, <3>1 DEF IsFold
  <2>4. ASSUME NEW s \in SUBSET (1..k) PROVE h[s] \in X
    <3>1. CASE k \in s
      <4>1. s \ {k} \in SUBSET (1..(k - 1))
        OBVIOUS
      <4>. QED  BY <2>1, <3>1, <4>1
    <3>2. CASE k \notin s
      <4>1. s \in SUBSET (1..(k - 1))
        BY <3>2
      <4>. QED  BY <2>1, <3>2, <4>1
    <3>. QED  BY <3>1, <3>2
  <2>5. h \in [SUBSET (1..k) -> X]
    BY <2>4
  <2> HIDE DEF h
  <2>. QED  BY <2>3, <2>5
<1> HIDE DEF Good
<1>3. \A k \in 0..n : k \in Good
  BY <1>1, <1>2, UpTo
<1>4. n \in Good
  BY <1>3
<1>. QED  BY <1>4 DEF Good

\* What inserting facts into a profile goes through, fact by fact.
Inserting(h, base, facts) ==
  /\ h[0] = base
  /\ \A k \in 1..Len(facts) : h[k] = W!InsertUniqueFront(h[k - 1], facts[k])
  /\ W!Inserted(base, facts) = h[Len(facts)]

\* What position and remove leave: the list without the fact, which is there once
\* or not at all.
LEMMA RemovedFacts ==
  ASSUME NEW S, NEW items \in Seq(S), NEW fact
  PROVE  LET r == W!RemoveFirst(items, fact)
         IN  \/ r = items /\ \A i \in 1..Len(items) : items[i] # fact
             \/ \E q \in 1..Len(items) :
                  /\ items[q] = fact /\ Len(r) = Len(items) - 1 /\ r \in Seq(S)
                  /\ \A i \in 1..(q - 1) : r[i] = items[i] /\ items[i] # fact
                  /\ \A i \in q..(Len(items) - 1) : r[i] = items[i + 1]
<1> DEFINE I == {i \in 1..Len(items) : items[i] = fact}
           r == W!RemoveFirst(items, fact)
<1>1. CASE I = {}
  BY <1>1 DEF W!RemoveFirst
<1>2. CASE I # {}
  <2>1. PICK q \in I : \A i \in I : q <= i
    <3>1. I \subseteq Nat
      OBVIOUS
    <3>2. PICK q \in I : \A j \in I : ~(<<j, q>> \in OpToRel(<, Nat))
      <4> HIDE DEF I
      <4>. QED  BY <1>2, <3>1, WFMin, NatLessThanWellFounded
    <3>3. \A j \in I : ~(j < q)
      <4> HIDE DEF I
      <4>. QED  BY <3>1, <3>2 DEF OpToRel
    <3>4. \A j \in I : j \in Nat
      BY <3>1
    <3>. QED  BY <3>3, <3>4
  <2>2. W!Min(I) = q
    <3> DEFINE Smallest(x) == x \in I /\ \A y \in I : x <= y
    <3>1. W!Min(I) = CHOOSE x : Smallest(x)
      BY DEF W!Min
    <3>2. Smallest(q)
      BY <2>1
    <3>3. ASSUME NEW x, Smallest(x) PROVE x = q
      <4>1. x \in Nat /\ q \in Nat /\ x <= q /\ q <= x
        BY <2>1, <3>3
      <4>. QED  BY <4>1
    <3> HIDE DEF Smallest
    <3>. QED  BY <3>1, <3>2, <3>3
  <2>3. W!SelectInSeq(items, LAMBDA v : v = fact) = q
    BY <1>2, <2>2 DEF W!SelectInSeq
  <2>4. r = W!RemoveAt(items, q)
    BY <1>2, <2>3 DEF W!RemoveFirst
  <2>5. r = SubSeq(items, 1, q - 1) \o SubSeq(items, q + 1, Len(items))
    BY <2>4 DEF W!RemoveAt
  <2>6. q \in 1..Len(items) /\ items[q] = fact
    OBVIOUS
  <2> DEFINE f == SubSeq(items, 1, q - 1)
             g == SubSeq(items, q + 1, Len(items))
  <2>7. /\ f \in Seq(S) /\ Len(f) = q - 1 /\ \A i \in 1..(q - 1) : f[i] = items[i]
        /\ g \in Seq(S) /\ Len(g) = Len(items) - q
        /\ \A i \in 1..(Len(items) - q) : g[i] = items[q + i]
    BY <2>6
  <2> HIDE DEF f, g, r
  <2>8. /\ r \in Seq(S) /\ Len(r) = Len(items) - 1
        /\ \A i \in 1..(q - 1) : r[i] = items[i]
        /\ \A i \in q..(Len(items) - 1) : r[i] = items[i + 1]
    <3>1. r = f \o g
      BY <2>5 DEF f, g
    <3>2. r \in Seq(S) /\ Len(r) = Len(items) - 1
      BY <2>6, <2>7, <3>1
    <3>3. \A i \in 1..Len(r) : r[i] = IF i <= Len(f) THEN f[i] ELSE g[i - Len(f)]
      BY <2>7, <3>1
    <3>4. \A i \in 1..(q - 1) : r[i] = items[i]
      <4>1. \A i \in 1..(q - 1) : i \in 1..Len(r) /\ i <= Len(f) /\ f[i] = items[i]
        BY <2>6, <2>7, <3>2
      <4>. QED  BY <3>3, <4>1
    <3>5. ASSUME NEW i \in q..(Len(items) - 1) PROVE r[i] = items[i + 1]
      <4>1. i \in 1..Len(r) /\ ~(i <= Len(f)) /\ i - Len(f) = i - q + 1
        BY <2>6, <2>7, <3>2
      <4>2. i - q + 1 \in 1..(Len(items) - q) /\ q + (i - q + 1) = i + 1
        BY <2>6
      <4>3. g[i - q + 1] = items[q + (i - q + 1)]
        BY <2>7, <4>2
      <4>. QED  BY <3>3, <4>1, <4>2, <4>3
    <3>. QED  BY <3>2, <3>4, <3>5
  <2>9. \A i \in 1..(q - 1) : items[i] # fact
    BY <2>1, <2>6
  <2>. QED  BY <2>6, <2>8, <2>9 DEF r
<1>. QED  BY <1>1, <1>2

\* How many facts there are when one is put in front.
Shown(r) == IF Len(r) < MaxFacts THEN Len(r) + 1 ELSE MaxFacts

\* The list with the fact in front, cut to what fits: what is at each place.
LEMMA InsertedFacts ==
  ASSUME NEW S, NEW items \in Seq(S), NEW fact \in S
  PROVE  LET r == W!RemoveFirst(items, fact)
             p == W!InsertUniqueFront(items, fact)
             n == Shown(r)
         IN  /\ p \in Seq(S) /\ Len(p) = n /\ p[1] = fact
             /\ \A i \in 2..n : p[i] = r[i - 1]
<1> DEFINE r == W!RemoveFirst(items, fact)
           p == W!InsertUniqueFront(items, fact)
           n == Shown(r)
           all == <<fact>> \o r
<1>1. r \in Seq(S)
  BY RemovedFacts
<1>2. p = SubSeq(all, 1, n)
  BY DEF W!InsertUniqueFront, Shown
<1> HIDE DEF r, p
<1>3. /\ all \in Seq(S) /\ Len(all) = Len(r) + 1 /\ all[1] = fact
      /\ \A i \in 2..(Len(r) + 1) : all[i] = r[i - 1]
  BY <1>1
<1>4. n \in Nat /\ 1 <= n /\ n <= Len(r) + 1
  BY <1>1, AccessAssumption DEF Shown
<1> HIDE DEF all, n
<1>5. p \in Seq(S) /\ Len(p) = n /\ \A i \in 1..n : p[i] = all[i]
  BY <1>2, <1>3, <1>4
<1>. QED  BY <1>3, <1>4, <1>5 DEF r, p, n

\* A list that shows the facts told does so with one more.
LEMMA ShowsOneMore ==
  ASSUME NEW S, NEW items \in Seq(S), NEW facts \in Seq(S), NEW fact \in S,
         W!ShowsLatest(items, facts)
  PROVE  W!ShowsLatest(W!InsertUniqueFront(items, fact), Append(facts, fact))
<1> DEFINE r == W!RemoveFirst(items, fact)
           p == W!InsertUniqueFront(items, fact)
           n == Shown(r)
           all == Append(facts, fact)
           m == Len(facts)
           Before(list, i) == {list[j] : j \in 1..(i - 1)}
           After(k) == {facts[j] : j \in (k + 1)..m}
           AfterAll(k) == {all[j] : j \in (k + 1)..(m + 1)}
<1>1. /\ r = items /\ \A i \in 1..Len(items) : items[i] # fact
      \/ \E q \in 1..Len(items) :
           /\ items[q] = fact /\ Len(r) = Len(items) - 1 /\ r \in Seq(S)
           /\ \A i \in 1..(q - 1) : r[i] = items[i] /\ items[i] # fact
           /\ \A i \in q..(Len(items) - 1) : r[i] = items[i + 1]
  BY RemovedFacts
<1>2. /\ p \in Seq(S) /\ Len(p) = n /\ p[1] = fact
      /\ \A i \in 2..n : p[i] = r[i - 1]
  BY InsertedFacts
<1> HIDE DEF r, p
<1>3. /\ all \in Seq(S) /\ m \in Nat /\ Len(all) = m + 1 /\ DOMAIN all = 1..(m + 1)
      /\ DOMAIN facts = 1..m /\ all[m + 1] = fact /\ \A k \in 1..m : all[k] = facts[k]
      /\ DOMAIN p = 1..Len(p) /\ DOMAIN items = 1..Len(items)
      /\ Len(items) \in Nat /\ Len(p) \in Nat
  BY <1>2
<1>4. /\ Len(items) <= MaxFacts
      /\ Len(items) < MaxFacts => W!ToSet(facts) \subseteq W!ToSet(items)
      /\ \A i \in 1..Len(items) :
           /\ items[i] \notin Before(items, i)
           /\ \E k \in 1..m : facts[k] = items[i] /\ After(k) = Before(items, i)
  BY <1>3 DEF W!ShowsLatest, W!InItsPlace
<1>5. /\ r \in Seq(S) /\ Len(r) \in Nat /\ Len(r) <= MaxFacts
      /\ n \in Nat /\ 1 <= n /\ n <= MaxFacts /\ n <= Len(r) + 1
      /\ n < MaxFacts => n = Len(r) + 1
  BY <1>1, <1>4, AccessAssumption DEF Shown
<1> HIDE DEF n
<1>6. ASSUME NEW k \in 1..m PROVE AfterAll(k) = After(k) \cup {fact}
  BY <1>3
<1> HIDE DEF all
\* Each place of the new list is one of the old, whose fact is not the new one.
<1>7. ASSUME NEW i \in 2..n
      PROVE  \E o \in 1..Len(items) :
               /\ p[i] = items[o] /\ items[o] # fact
               /\ Before(p, i) = Before(items, o) \cup {fact}
  <2>1. CASE r = items /\ \A k \in 1..Len(items) : items[k] # fact
    <3>1. i - 1 \in 1..Len(items) /\ p[i] = items[i - 1] /\ items[i - 1] # fact
      BY <1>2, <1>5, <2>1
    <3>2. \A j \in 2..(i - 1) : p[j] = items[j - 1]
      BY <1>2, <1>5, <2>1
    <3>3. Before(p, i) = Before(items, i - 1) \cup {fact}
      <4>1. 1..(i - 1) = {1} \cup 2..(i - 1) /\ \A j \in 1..(i - 2) : j + 1 \in 2..(i - 1)
        OBVIOUS
      <4>2. \A j \in 2..(i - 1) : j - 1 \in 1..(i - 1 - 1)
        OBVIOUS
      <4>3. \A j \in 1..(i - 1 - 1) : p[j + 1] = items[j] /\ j + 1 \in 1..(i - 1)
        BY <3>2
      <4>4. Before(p, i) \subseteq Before(items, i - 1) \cup {fact}
        <5>1. ASSUME NEW j \in 1..(i - 1) PROVE p[j] \in Before(items, i - 1) \cup {fact}
          <6>1. j = 1 \/ j \in 2..(i - 1)
            OBVIOUS
          <6>. QED  BY <1>2, <3>2, <4>2, <6>1
        <5>. QED  BY <5>1
      <4>5. Before(items, i - 1) \subseteq Before(p, i)
        BY <4>3
      <4>6. fact \in Before(p, i)
        BY <1>2, <4>1
      <4>. QED  BY <4>4, <4>5, <4>6
    <3>. QED  BY <3>1, <3>3
  <2>2. CASE ~(r = items /\ \A k \in 1..Len(items) : items[k] # fact)
    <3>1. PICK q \in 1..Len(items) :
             /\ items[q] = fact /\ Len(r) = Len(items) - 1 /\ r \in Seq(S)
             /\ \A k \in 1..(q - 1) : r[k] = items[k] /\ items[k] # fact
             /\ \A k \in q..(Len(items) - 1) : r[k] = items[k + 1]
      BY <1>1, <2>2
    <3> DEFINE o == IF i - 1 < q THEN i - 1 ELSE i
    <3>2. o \in 1..Len(items) /\ p[i] = items[o]
      <4>1. i - 1 \in 1..(Len(items) - 1) /\ i \in Nat /\ Len(items) \in Nat
        BY <1>5, <3>1
      <4>2. p[i] = r[i - 1]
        BY <1>2
      <4>3. CASE i - 1 < q
        BY <3>1, <4>1, <4>2, <4>3
      <4>4. CASE ~(i - 1 < q)
        <5>1. i - 1 \in q..(Len(items) - 1) /\ i - 1 + 1 = i /\ i \in 1..Len(items)
          BY <4>1, <4>4
        <5>. QED  BY <3>1, <4>2, <4>4, <5>1
      <4>. QED  BY <4>3, <4>4
    <3>3. items[o] # fact
      <4>1. CASE i - 1 < q
        BY <3>1, <4>1
      <4>2. CASE ~(i - 1 < q)
        <5>1. fact \in Before(items, o)
          BY <3>1, <4>2
        <5>. QED  BY <1>4, <3>2, <5>1
      <4>. QED  BY <4>1, <4>2
    <3>4. ASSUME NEW x \in Before(p, i) PROVE x \in Before(items, o) \cup {fact}
      <4>1. PICK j \in 1..(i - 1) : x = p[j]
        OBVIOUS
      <4>2. CASE j = 1
        BY <1>2, <4>1, <4>2
      <4>3. CASE j # 1
        <5>1. j \in 2..n /\ p[j] = r[j - 1]
          BY <1>2, <1>5, <4>3
        <5>2. CASE j - 1 < q
          <6>1. r[j - 1] = items[j - 1] /\ j - 1 \in 1..(o - 1)
            BY <1>5, <3>1, <4>3, <5>2
          <6>. QED  BY <4>1, <5>1, <6>1
        <5>3. CASE ~(j - 1 < q)
          <6>1. r[j - 1] = items[j] /\ j \in 1..(o - 1)
            BY <1>5, <3>1, <5>1, <5>3
          <6>. QED  BY <4>1, <5>1, <6>1
        <5>. QED  BY <5>2, <5>3
      <4>. QED  BY <4>2, <4>3
    <3>5. ASSUME NEW x \in Before(items, o) PROVE x \in Before(p, i) \cup {fact}
      <4>1. PICK j \in 1..(o - 1) : x = items[j]
        OBVIOUS
      <4>2. CASE j < q
        <5>1. j + 1 \in 2..n /\ j + 1 \in 1..(i - 1)
          BY <1>5, <3>1, <4>2
        <5>2. p[j + 1] = r[j] /\ r[j] = items[j]
          BY <1>2, <3>1, <4>2, <5>1
        <5>. QED  BY <4>1, <5>1, <5>2
      <4>3. CASE j = q
        BY <3>1, <4>1, <4>3
      <4>4. CASE j > q
        <5>1. j \in 2..n /\ j \in 1..(i - 1) /\ j - 1 \in q..(Len(items) - 1)
          BY <1>5, <3>1, <4>4
        <5>2. p[j] = r[j - 1] /\ r[j - 1] = items[j]
          BY <1>2, <3>1, <5>1
        <5>. QED  BY <4>1, <5>1, <5>2
      <4>. QED  BY <4>2, <4>3, <4>4
    <3>6. fact \in Before(p, i)
      BY <1>2
    <3>7. Before(p, i) = Before(items, o) \cup {fact}
      <4> HIDE DEF Before
      <4>. QED  BY <3>4, <3>5, <3>6
    <3> HIDE DEF o, Before
    <3>. QED  BY <3>2, <3>3, <3>7
  <2>. QED  BY <2>1, <2>2
<1>8. ASSUME NEW i \in 1..n
      PROVE  /\ p[i] \notin Before(p, i)
             /\ \E k \in 1..(m + 1) : all[k] = p[i] /\ AfterAll(k) = Before(p, i)
  <2>1. CASE i = 1
    <3>1. Before(p, i) = {} /\ AfterAll(m + 1) = {}
      BY <1>3, <2>1
    <3>. QED  BY <1>2, <1>3, <2>1, <3>1
  <2>2. CASE i # 1
    <3>1. PICK o \in 1..Len(items) :
             /\ p[i] = items[o] /\ items[o] # fact
             /\ Before(p, i) = Before(items, o) \cup {fact}
      <4>1. i \in 2..n
        BY <1>5, <2>2
      <4>. QED  BY <1>7, <4>1
    <3>2. PICK k \in 1..m : facts[k] = items[o] /\ After(k) = Before(items, o)
      BY <1>4
    <3>3. k \in 1..(m + 1) /\ all[k] = p[i] /\ AfterAll(k) = Before(p, i)
      <4>1. k \in 1..(m + 1) /\ all[k] = p[i]
        BY <1>3, <3>1, <3>2
      <4>2. AfterAll(k) = After(k) \cup {fact}
        BY <1>6
      <4>. QED  BY <3>1, <3>2, <4>1, <4>2
    <3>4. p[i] \notin Before(p, i)
      BY <1>4, <3>1
    <3>. QED  BY <3>3, <3>4
  <2>. QED  BY <2>1, <2>2
<1>9. ASSUME Len(p) < MaxFacts PROVE W!ToSet(all) \subseteq W!ToSet(p)
  <2>1. n = Len(r) + 1 /\ n \in Nat /\ Len(r) \in Nat /\ Len(items) \in Nat
    BY <1>2, <1>3, <1>5, <1>9
  <2>2. Len(items) <= Len(r) + 1
    BY <1>1, <2>1
  <2>3. ASSUME NEW o \in 1..Len(items) PROVE \E i \in 1..n : p[i] = items[o]
    <3>1. CASE r = items /\ \A i \in 1..Len(items) : items[i] # fact
      <4>1. o + 1 \in 2..n /\ o + 1 \in 1..n /\ o + 1 - 1 = o
        BY <2>1, <3>1
      <4>. QED  BY <1>2, <3>1, <4>1
    <3>2. CASE ~(r = items /\ \A i \in 1..Len(items) : items[i] # fact)
      <4>1. PICK q \in 1..Len(items) :
               /\ items[q] = fact /\ Len(r) = Len(items) - 1 /\ r \in Seq(S)
               /\ \A k \in 1..(q - 1) : r[k] = items[k] /\ items[k] # fact
               /\ \A k \in q..(Len(items) - 1) : r[k] = items[k + 1]
        BY <1>1, <3>2
      <4>2. CASE o < q
        <5>1. o + 1 \in 2..n /\ o + 1 \in 1..n /\ o + 1 - 1 = o /\ o \in 1..(q - 1)
          BY <2>1, <4>1, <4>2
        <5>. QED  BY <1>2, <4>1, <5>1
      <4>3. CASE o = q
        <5>1. 1 \in 1..n
          BY <2>1
        <5>. QED  BY <1>2, <4>1, <4>3, <5>1
      <4>4. CASE o > q
        <5>1. o \in 2..n /\ o \in 1..n /\ o - 1 \in q..(Len(items) - 1) /\ o - 1 + 1 = o
          BY <2>1, <4>1, <4>4
        <5>. QED  BY <1>2, <4>1, <5>1
      <4>. QED  BY <4>2, <4>3, <4>4
    <3>. QED  BY <3>1, <3>2
  <2>4. ASSUME NEW k \in 1..m PROVE \E o \in 1..Len(items) : facts[k] = items[o]
    <3>1. W!ToSet(facts) \subseteq W!ToSet(items)
      BY <1>2, <1>4, <1>9, <2>1, <2>2, AccessAssumption
    <3>. QED  BY <1>3, <3>1 DEF W!ToSet
  <2>5. ASSUME NEW k \in 1..(m + 1) PROVE \E i \in 1..n : all[k] = p[i]
    <3>1. CASE k \in 1..m
      BY <1>3, <2>3, <2>4, <3>1
    <3>2. CASE k = m + 1
      <4>1. 1 \in 1..n
        BY <2>1
      <4>. QED  BY <1>2, <1>3, <3>2, <4>1
    <3>. QED  BY <1>3, <3>1, <3>2
  <2>6. DOMAIN p = 1..n /\ DOMAIN all = 1..(m + 1)
    BY <1>2, <1>3
  <2>. QED  BY <2>5, <2>6 DEF W!ToSet
<1>10. \A i \in DOMAIN p : W!InItsPlace(p, all, i)
  <2>1. DOMAIN p = 1..n /\ DOMAIN all = 1..(m + 1) /\ Len(all) = m + 1
    BY <1>2, <1>3
  <2>. QED  BY <1>8, <2>1 DEF W!InItsPlace
<1>11. Len(p) <= MaxFacts
  BY <1>2, <1>5
<1>. QED  BY <1>9, <1>10, <1>11 DEF W!ShowsLatest, p, all

LEMMA InsertingSteps ==
  ASSUME NEW S, NEW base \in Seq(S), NEW facts \in Seq(S)
  PROVE  \E h \in [0..Len(facts) -> Seq(S)] : Inserting(h, base, facts)
<1> DEFINE n == Len(facts)
           X == Seq(S)
           step == [i \in 1..n |-> [v \in X |-> W!InsertUniqueFront(v, facts[i])]]
           Is(g) == g = [s \in SUBSET (1..n) |->
                           IF s = {} THEN base
                           ELSE W!InsertUniqueFront(g[s \ {W!Max(s)}], facts[W!Max(s)])]
           f == CHOOSE g : Is(g)
           h == [k \in 0..n |-> f[1..k]]
<1>1. n \in Nat /\ DOMAIN facts = 1..n
  OBVIOUS
<1>2. W!Inserted(base, facts) = f[1..n]
  BY <1>1 DEF W!Inserted, W!FoldLeft, W!MapThenFoldSet
<1>3. \A v \in X, e \in S : W!InsertUniqueFront(v, e) \in X
  BY InsertedFacts
<1>4. \E g : Is(g)
  <2>1. \A i \in 1..n : facts[i] \in S
    OBVIOUS
  <2>2. step \in [1..n -> [X -> X]]
    <3> HIDE DEF X
    <3>. QED  BY <1>3, <2>1
  <2>3. PICK g \in [SUBSET (1..n) -> X] : IsFold(n, base, step, g)
    <3> HIDE DEF step, n
    <3>. QED  BY <1>1, <2>2, FoldExists
  <2>4. ASSUME NEW s \in SUBSET (1..n), s # {}
        PROVE  step[W!Max(s)][g[s \ {W!Max(s)}]]
                 = W!InsertUniqueFront(g[s \ {W!Max(s)}], facts[W!Max(s)])
    <3>1. W!Max(s) \in s
      BY <1>1, <2>4, MaxIn
    <3>2. W!Max(s) \in 1..n /\ s \ {W!Max(s)} \in SUBSET (1..n)
      BY <3>1
    <3> HIDE DEF X
    <3>. QED  BY <2>3, <3>2
  <2>5. Is(g)
    <3> HIDE DEF step, n
    <3>. QED  BY <2>3, <2>4 DEF IsFold
  <2> HIDE DEF Is
  <2>. QED  BY <2>5
<1>5. Is(f)
  <2> HIDE DEF Is
  <2>. QED  BY <1>4
<1> HIDE DEF f
<1>6. h[0] = base
  <2>1. 1..0 = {}
    OBVIOUS
  <2>. QED  BY <1>1, <1>5, <2>1
<1>7. ASSUME NEW k \in 1..n PROVE h[k] = W!InsertUniqueFront(h[k - 1], facts[k])
  <2>1. /\ W!Max(1..k) = k /\ (1..k) \ {k} = 1..(k - 1)
        /\ 1..k \in SUBSET (1..n) /\ 1..k # {}
    BY <1>1, Initial
  <2>2. f[1..k] = W!InsertUniqueFront(f[1..(k - 1)], facts[k])
    BY <1>5, <2>1
  <2>3. k \in 0..n /\ k - 1 \in 0..n
    BY <1>1
  <2>. QED  BY <2>2, <2>3
<1>8. \A k \in 0..n : h[k] \in X
  <2> DEFINE Good == {k \in 0..n : h[k] \in X}
  <2> HIDE DEF h
  <2>1. 0 \in Good
    BY <1>1, <1>6
  <2>2. ASSUME NEW k \in 1..n, k - 1 \in Good PROVE k \in Good
    <3>1. facts[k] \in S /\ h[k - 1] \in X
      BY <2>2
    <3> HIDE DEF X
    <3>. QED  BY <1>3, <1>7, <3>1
  <2> HIDE DEF Good
  <2>3. \A k \in 0..n : k \in Good
    BY <1>1, <2>1, <2>2, UpTo
  <2>. QED  BY <2>3 DEF Good
<1>9. h \in [0..n -> X]
  BY <1>8
<1>10. W!Inserted(base, facts) = h[n]
  BY <1>1, <1>2
<1> HIDE DEF h
<1>. QED  BY <1>6, <1>7, <1>9, <1>10 DEF Inserting

\* A list that shows the facts told does so when more are inserted one by one.
LEMMA ShowsAll ==
  ASSUME NEW S, NEW items \in Seq(S), NEW said \in Seq(S), NEW facts \in Seq(S)
  PROVE  /\ W!Inserted(items, facts) \in Seq(S)
         /\ W!ShowsLatest(items, said) => W!ShowsLatest(W!Inserted(items, facts), said \o facts)
<1> DEFINE n == Len(facts)
           Upto(k) == said \o SubSeq(facts, 1, k)
<1>1. PICK h \in [0..n -> Seq(S)] : Inserting(h, items, facts)
  BY InsertingSteps
<1>2. n \in Nat /\ 0 \in 0..n /\ n \in 0..n
  OBVIOUS
<1>3. W!Inserted(items, facts) \in Seq(S)
  BY <1>1, <1>2 DEF Inserting
<1>4. ASSUME W!ShowsLatest(items, said)
      PROVE  W!ShowsLatest(W!Inserted(items, facts), said \o facts)
  <2> DEFINE Good == {k \in 0..n : W!ShowsLatest(h[k], Upto(k))}
  <2>1. 0 \in Good
    <3>1. Upto(0) = said
      OBVIOUS
    <3>2. h[0] = items
      BY <1>1 DEF Inserting
    <3>. QED  BY <1>2, <1>4, <3>1, <3>2
  <2>2. ASSUME NEW k \in 1..n, k - 1 \in Good PROVE k \in Good
    <3>1. k - 1 \in 0..n /\ k \in 0..n
      BY <1>2
    <3>2. facts[k] \in S /\ Upto(k - 1) \in Seq(S) /\ h[k - 1] \in Seq(S)
      BY <1>1, <3>1
    <3>3. Upto(k) = Append(Upto(k - 1), facts[k])
      <4>1. SubSeq(facts, 1, k) = Append(SubSeq(facts, 1, k - 1), facts[k])
        BY <1>2
      <4>. QED  BY <1>2, <4>1
    <3>4. h[k] = W!InsertUniqueFront(h[k - 1], facts[k])
      BY <1>1 DEF Inserting
    <3>5. W!ShowsLatest(h[k - 1], Upto(k - 1))
      BY <2>2
    <3> HIDE DEF Upto
    <3>. QED  BY <3>1, <3>2, <3>3, <3>4, <3>5, ShowsOneMore
  <2>3. n \in Good
    <3> HIDE DEF Good
    <3>. QED  BY <1>2, <2>1, <2>2, UpTo
  <2>4. Upto(n) = said \o facts
    <3>1. SubSeq(facts, 1, n) = facts
      BY <1>2
    <3>. QED  BY <3>1
  <2>. QED  BY <1>1, <2>3, <2>4 DEF Inserting
<1>. QED  BY <1>3, <1>4

\* The facts of queries; the profiles hold those that were told last.
Sayings == {s1, s2, s3}

ProfilesFit ==
  /\ profile \in [User -> Seq(Sayings)] /\ told \in [User -> Seq(Sayings)]
  /\ W!ProfileIsLatest

LEMMA ProfilesInit == W!Init => ProfilesFit
<1> SUFFICES ASSUME W!Init PROVE ProfilesFit
  OBVIOUS
<1>1. profile = [u \in User |-> <<>>] /\ told = [u \in User |-> <<>>]
  BY DEF W!Init
<1>2. <<>> \in Seq(Sayings)
  OBVIOUS
<1>3. W!ShowsLatest(<<>>, <<>>)
  BY AccessAssumption DEF W!ShowsLatest, W!InItsPlace, W!ToSet
<1>. QED  BY <1>1, <1>2, <1>3 DEF ProfilesFit, W!ProfileIsLatest

\* Only WriteProfile writes profiles, those of the facts it extracts of a text.
LEMMA ProfilesStep ==
  ASSUME UsageShapes, ProfilesFit, W!Next
  PROVE  ProfilesFit'
<1>1. CASE W!WriteProfile
  <2> DEFINE op == Head(flushing.profiles)
             facts == W!Extracted(op.text)
  <2>1. op.of \in User /\ op.text \in Seq(Sayings)
    <3>1. flushing.profiles \in Seq(ProfileOps) /\ flushing.profiles # <<>>
      BY <1>1 DEF W!WriteProfile, UsageShapes, Batches
    <3>2. op \in ProfileOps
      BY <3>1
    <3>3. <<s1>> \in Seq(Sayings) /\ <<s2, s3>> \in Seq(Sayings) /\ <<s3, s1>> \in Seq(Sayings)
      BY DEF Sayings
    <3>. QED  BY <3>2, <3>3 DEF ProfileOps
  <2>2. facts \in Seq(Sayings)
    <3> HIDE DEF op
    <3>1. <<>> \in Seq(Sayings)
      OBVIOUS
    <3>. QED  BY <2>1, <3>1, ShowsAll DEF W!Extracted
  <2>3. \/ /\ profile' = [profile EXCEPT ![op.of] = W!Inserted(profile[op.of], facts)]
           /\ told' = [told EXCEPT ![op.of] = told[op.of] \o facts]
        \/ UNCHANGED <<profile, told>>
    BY <1>1 DEF W!WriteProfile
  <2> HIDE DEF op, facts
  <2>4. profile[op.of] \in Seq(Sayings) /\ told[op.of] \in Seq(Sayings)
    BY <2>1 DEF ProfilesFit
  <2>5. /\ W!Inserted(profile[op.of], facts) \in Seq(Sayings)
        /\ told[op.of] \o facts \in Seq(Sayings)
        /\ W!ShowsLatest(W!Inserted(profile[op.of], facts), told[op.of] \o facts)
    BY <2>1, <2>2, <2>4, ShowsAll DEF ProfilesFit, W!ProfileIsLatest
  <2>. QED  BY <2>1, <2>3, <2>5 DEF ProfilesFit, W!ProfileIsLatest
<1>2. CASE UNCHANGED <<profile, told>>
  BY <1>2 DEF ProfilesFit, W!ProfileIsLatest
<1>3. W!WriteProfile \/ UNCHANGED <<profile, told>>
  BY DEF W!Next, W!Writer, W!SendUsage, W!SendProfile, W!Receive, W!Flush, W!WriteUsage,
         W!Close, W!Exit
<1>. QED  BY <1>1, <1>2, <1>3

-----------------------------------------------------------------------------
(* Theorems about the accounts and the writer.                             *)

LEMMA AccountsInit == A!Init => AccountsInv
BY SessionsInit, ShapesInit
   DEF A!Init, A!NoRows, AccountsInv, SecretsFit, RevokedFit, A!OneKeyPerSecret

LEMMA AccountsStep == AccountsInv /\ [MCNext]_allvars => AccountsInv'
<1> SUFFICES ASSUME AccountsInv, [MCNext]_allvars
             PROVE  AccountsInv'
  OBVIOUS
<1>1. A!Next \/ UNCHANGED accounts
  BY DEF MCNext, allvars
<1>2. CASE A!Next
  BY <1>2, ShapesStep, SessionsStep, SecretsStep, RevokedStep DEF AccountsInv
<1>3. CASE UNCHANGED accounts
  BY <1>3 DEF accounts, AccountsInv, Shapes, CarriedFits, SessionsFit, SecretsFit,
              RevokedFit, A!Known, A!OneKeyPerSecret
<1>. QED  BY <1>1, <1>2, <1>3

\* What the handlers of users, sessions and keys keep between their statements,
\* whichever of them run between two of one: the inductive invariant.
THEOREM AccountsInvariant == MCSpec => []AccountsInv
<1>1. MCInit => AccountsInv
  BY AccountsInit DEF MCInit
<1>. QED  BY <1>1, AccountsStep, PTL DEF MCSpec

\* resolve_session opens the account of the user who logged in, from create_session
\* until the logout or the expiry, whenever purge_expired_sessions runs.
THEOREM SessionsAlways == MCSpec => []SessionsUntilExpiry
<1>1. AccountsInv => SessionsUntilExpiry
  BY SessionsAnswer DEF SessionsUntilExpiry
<1>. QED  BY <1>1, AccountsInvariant, PTL

\* authenticate_api_key lets nobody in with a secret that was revoked when the
\* request came, and a secret is one row's, which inject_api_key's replacement of
\* the row with the same hash keeps true.
THEOREM RevokedAlways == MCSpec => []RevokedStaysOut
<1>1. AccountsInv => RevokedStaysOut
  BY DEF AccountsInv, RevokedFit, SecretsFit, RevokedStaysOut, A!RevokedStaysOut
<1>. QED  BY <1>1, AccountsInvariant, PTL

\* A key that touch_key's map takes for used is used in the table, or will be: the
\* map is marked before the table is, by requests that overlap.
THEOREM TouchedAlways == MCSpec => []A!TouchedIsWritten
<1>1. MCInit => AccountsInv /\ TouchedFit
  BY AccountsInit, TouchedInit DEF MCInit
<1>2. AccountsInv /\ TouchedFit /\ [MCNext]_allvars => (AccountsInv /\ TouchedFit)'
  <2>1. SUFFICES ASSUME AccountsInv, TouchedFit, [MCNext]_allvars
                 PROVE  TouchedFit'
    BY AccountsStep
  <2>2. CASE A!Next
    BY <2>1, <2>2, TouchedStep
  <2>3. CASE UNCHANGED accounts
    BY <2>1, <2>3 DEF accounts, TouchedFit, A!TouchedIsWritten
  <2>. QED  BY <2>1, <2>2, <2>3 DEF MCNext, allvars
<1>3. TouchedFit => A!TouchedIsWritten
  BY DEF TouchedFit
<1>. QED  BY <1>1, <1>2, <1>3, PTL DEF MCSpec

\* Usage a handler sends is counted once: it is in the channel, pending, in the
\* flush, in the table, or was refused or dropped, whatever fails and whenever the
\* process ends.
THEOREM UsageAlways == MCSpec => []W!UsageConserved
<1>1. MCInit => UsageFit
  BY UsageInit DEF MCInit
<1>2. UsageFit /\ [MCNext]_allvars => UsageFit'
  <2>1. SUFFICES ASSUME UsageFit, [MCNext]_allvars
                 PROVE  UsageFit'
    OBVIOUS
  <2>2. CASE W!Next
    BY <2>1, <2>2, UsageStep
  <2>3. CASE UNCHANGED writer
    BY <2>1, <2>3 DEF writer, UsageFit, UsageShapes, W!UsageConserved
  <2>. QED  BY <2>1, <2>2, <2>3 DEF MCNext, allvars
<1>3. UsageFit => W!UsageConserved
  BY DEF UsageFit
<1>. QED  BY <1>1, <1>2, <1>3, PTL DEF MCSpec

\* A profile shows the distinct facts that were told last, the latest first: what
\* insert_unique_front cuts off at every fact is never one of the latest.
THEOREM ProfileAlwaysLatest == MCSpec => []W!ProfileIsLatest
<1>1. MCInit => UsageFit /\ ProfilesFit
  BY UsageInit, ProfilesInit DEF MCInit
<1>2. UsageFit /\ ProfilesFit /\ [MCNext]_allvars => (UsageFit /\ ProfilesFit)'
  <2>1. SUFFICES ASSUME UsageFit, ProfilesFit, [MCNext]_allvars
                 PROVE  (UsageFit /\ ProfilesFit)'
    OBVIOUS
  <2>2. CASE W!Next
    BY <2>1, <2>2, UsageStep, ProfilesStep DEF UsageFit
  <2>3. CASE UNCHANGED writer
    BY <2>1, <2>3 DEF writer, UsageFit, UsageShapes, W!UsageConserved, ProfilesFit,
                      W!ProfileIsLatest
  <2>. QED  BY <2>1, <2>2, <2>3 DEF MCNext, allvars
<1>3. ProfilesFit => W!ProfileIsLatest
  BY DEF ProfilesFit
<1>. QED  BY <1>1, <1>2, <1>3, PTL DEF MCSpec

\* What handlers leave to be written is written, once and in order: the last use of
\* a key, usage, and the facts of a profile.
THEOREM UseAlways == MCSpec => []UseIsWritten
<1>1. A!TouchedIsWritten /\ W!UsageConserved /\ W!ProfileIsLatest => UseIsWritten
  BY DEF UseIsWritten
<1>. QED  BY <1>1, TouchedAlways, UsageAlways, ProfileAlwaysLatest, PTL
=============================================================================
