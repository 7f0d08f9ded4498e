----------------------------- MODULE Retention -----------------------------
(***************************************************************************)
(* The expiry of memories, composed with the session router that quotes    *)
(* them.  An ingest stores a memory with those derived from it, each with  *)
(* the expiry that the policy of Lifecycle gives its text.  The            *)
(* maintenance tick lists what has expired and then deletes it one id      *)
(* after the other, by the deletion that clients use.                      *)
(***************************************************************************)
EXTENDS SessionRouter, Lifecycle

CONSTANTS
  Source,     \* the memories that clients send; the others are derived
  Says,       \* Says[m]: the payloads m may have, signals and fragment
  Day,        \* readings of the clock, in days
  Limit,      \* the LIMIT of the purge
  MaxStore, MaxFail,  \* bounds on ingests and on errors
  RepairsOverlap,     \* the router changes while a repair holds a text
  RestoresOverlap     \* a listed memory is stored anew before it is purged

ASSUME RetentionAssumption ==
  /\ Source \subseteq Memory
  /\ \A m \in Memory : Derived[m] \cap Source = {}
  /\ Day \subseteq Nat /\ 0 \in Day
  /\ \A m \in Memory : Says[m] # {} /\ \A p \in Says[m] : p.quote \in Quote
  /\ Limit \in Nat \ {0} /\ MaxStore \in Nat /\ MaxFail \in Nat
  /\ {RepairsOverlap, RestoresOverlap} \subseteq BOOLEAN

VARIABLES
  clock,    \* the wall clock
  expires,  \* memories.expires_at_ms: a day or NoExpiry; NoRow without a row
  purge,    \* the tick: the time it started, the ids it has listed
  stores, fails

vars == <<routerVars, clock, expires, purge, stores, fails>>

NoRow == -1
Stored == {m \in Memory : expires[m] # NoRow}
WithDerived(m) == {m} \cup Derived[m]

IdleTick == [stage |-> "idle", now |-> 0, todo |-> {}]

Init ==
  /\ RouterInit
  /\ clock = 0
  /\ expires = [m \in Memory |-> NoRow]
  /\ purge = IdleTick
  /\ stores = 0 /\ fails = 0

\* The router may change now.
RouterFree == RepairsOverlap \/ repair.stage \notin {"router", "write"}

-----------------------------------------------------------------------------
(* Clients and time.                                                       *)

Advance ==
  /\ \E d \in Day :
       /\ d > clock
       /\ \A e \in Day : e <= clock \/ d <= e
       /\ clock' = d
  /\ UNCHANGED <<routerVars, expires, purge, stores, fails>>

\* The filter lets m through when it is not stored or not indexed yet.  A
\* stored memory is only sent again with what it says.
Sendable(m, p) ==
  \/ fragments[m] = NoRecord
  \/ m \in unindexed /\ fragments[m] = Fragment(m, p.quote)

\* Retention runs from the time of storage, not from an event time in the past.
Expiry(p) == ExpiresAt(p.signals, clock)

\* commit_ingest of a memory and, behind it, those derived from it.
Store ==
  /\ stores < MaxStore
  /\ RouterFree
  /\ \E s \in Source :
       LET ids == WithDerived(s)
       IN  \E p \in [ids -> UNION {Says[m] : m \in ids}] :
             /\ \A m \in ids : p[m] \in Says[m] /\ Sendable(m, p[m])
             /\ RestoresOverlap \/ ids \cap purge.todo = {}
             /\ MergeBatch(<<s>> \o Ascending(Derived[s]),
                           [m \in ids |-> Fragment(m, p[m].quote)])
             /\ expires' = [m \in Memory |-> IF m \in ids THEN Expiry(p[m])
                                             ELSE expires[m]]
  /\ stores' = stores + 1
  /\ UNCHANGED <<clock, purge, fails>>

\* Slips: a deletion by a prefix without the separator, which takes the ids
\* that begin alike; a comparison that leaves out the instant of expiry.
ErasedByPrefix(m) == [n \in Memory |-> IF n >= m THEN NoRow ELSE expires[n]]
ExpiredBefore(now) == {m \in Stored : expires[m] < now}

\* delete_observation, of the rows and the router.
Erased(m) == [n \in Memory |-> IF n \in WithDerived(m) THEN NoRow ELSE expires[n]]
Erase(m) ==
  /\ RouterFree
  /\ expires' = Erased(m)
  /\ DeleteFromRouter(WithDerived(m))

Delete ==
  /\ \E m \in Stored : Erase(m)
  /\ UNCHANGED <<clock, purge, stores, fails>>

-----------------------------------------------------------------------------
(* The maintenance tick.                                                   *)

StartTick ==
  /\ purge.stage = "idle"
  /\ purge' = [IdleTick EXCEPT !.stage = "list", !.now = clock]
  /\ UNCHANGED <<routerVars, clock, expires, stores, fails>>

Expired(now) == {m \in Stored : expires[m] <= now}

\* The first Limit ids by expiry.
PurgeList ==
  /\ purge.stage = "list"
  /\ \E S \in SUBSET Expired(purge.now) :
       /\ Cardinality(S) = AtMost(Cardinality(Expired(purge.now)), Limit)
       /\ \A m \in S, n \in Expired(purge.now) \ S : expires[m] <= expires[n]
       /\ purge' = IF S = {} THEN IdleTick
                   ELSE [purge EXCEPT !.stage = "purge", !.todo = S]
  /\ UNCHANGED <<routerVars, clock, expires, stores, fails>>

\* One listed id, stored or not by now, in a transaction of its own.
PurgeOne ==
  /\ purge.stage = "purge"
  /\ \E m \in purge.todo :
       /\ Erase(m)
       /\ purge' = IF purge.todo = {m} THEN IdleTick
                   ELSE [purge EXCEPT !.todo = @ \ {m}]
  /\ UNCHANGED <<clock, stores, fails>>

\* An error or a crash ends the tick, or the repair; the next one starts over.
Fail ==
  /\ fails < MaxFail
  /\ fails' = fails + 1
  /\ \/ purge.stage # "idle" /\ purge' = IdleTick /\ UNCHANGED routerVars
     \/ RepairStops /\ UNCHANGED purge
  /\ UNCHANGED <<clock, expires, stores>>

Index ==
  /\ RepairRows \/ \E m \in Memory : MarkIndexed(m)
  /\ UNCHANGED <<clock, expires, purge, stores, fails>>

Repair ==
  /\ RepairGoesOn
  /\ UNCHANGED <<clock, expires, purge, stores, fails>>

Next ==
  \/ Advance \/ Store \/ Delete
  \/ StartTick \/ PurgeList \/ PurgeOne \/ Fail
  \/ Index \/ Repair

Spec == Init /\ [][Next]_vars

\* The interval timer starts the tick again and again and its task runs on, as
\* does a repair.  Clients and the clock may stop at any time.
FairSpec ==
  /\ Spec
  /\ WF_vars(StartTick \/ PurgeList \/ PurgeOne)
  /\ WF_vars(Repair)

-----------------------------------------------------------------------------
(* Properties.                                                             *)

TypeOK ==
  /\ RouterTypeOK
  /\ clock \in Day
  /\ expires \in [Memory -> Nat \cup {NoRow}]
  /\ purge \in [stage: {"idle", "list", "purge"}, now: Day, todo: SUBSET Memory]
  /\ stores \in 0..MaxStore /\ fails \in 0..MaxFail

\* deleted_memory_leaves_no_text_anywhere, by clients or by the purge: the
\* router quotes the stored memories, all of them and no others.
RouterOfStored == RouterOfFragments /\ Fragmented(fragments) = Stored

\* The purge erases nothing before its time: what it erases has expired, or is
\* derived from a memory that has, counted from the time it was stored and
\* also if a client deletes and stores other memories in between.
KeptUntilDue ==
  [][purge' # purge =>
       \A m \in Stored \ Stored' :
         \E p \in Stored : m \in WithDerived(p) /\ expires[p] <= clock]_vars

\* What has expired is erased at last, whatever the limit, errors and crashes.
ErasedAtLast == \A m \in Memory :
  expires[m] \in 0..clock ~> expires[m] \notin 0..clock

=============================================================================
