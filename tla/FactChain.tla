----------------------------- MODULE FactChain -----------------------------
(***************************************************************************)
(* The version history of one fact slot of one entity, for example where a *)
(* user lives: the rows of fact_versions and fact_evidence that share a    *)
(* (fact_key, entity_id), with the memory rows that state the values, the  *)
(* memory cards and the graph edges that mirror each version's standing.   *)
(*                                                                         *)
(* An ingest commits a batch of registrations in one immediate SQLite      *)
(* transaction.  The module takes one step per registration inside the     *)
(* transaction; readers see `store`, the writer sees `work`.  SQLite lets  *)
(* one write transaction in at a time, so Begin and Delete wait for the    *)
(* open one to end.                                                        *)
(***************************************************************************)
EXTENDS Integers, FiniteSets, Sequences

CONSTANTS
  Memory,      \* memory ids that state a value of this fact
  Derived,     \* Derived[m]: the ids that extend "m::", deleted along with m
  Object,      \* the values, up to the normalisation of same_fact_object
  Blank,       \* the empty object, which same_fact_object never matches
  NoMem,       \* SQL NULL in a column that holds a memory id
  MaxTime,     \* event times are 0..MaxTime
  MaxClock,    \* wall-clock readings (recorded_at_ms) are 0..MaxClock
  MaxRow,      \* bound on the rowids the run hands out
  MaxBatch,    \* bound on the registrations of one batch
  MayCorrect   \* whether a stored memory may be ingested with other content

ASSUME FactChainAssumption ==
  /\ NoMem \notin Memory
  /\ IsFiniteSet(Memory)
  /\ Derived \in [Memory -> SUBSET Memory]
  /\ MaxTime \in Nat /\ MaxClock \in Nat /\ MaxRow \in Nat /\ MaxBatch \in Nat
  /\ MayCorrect \in BOOLEAN

VARIABLES
  store,     \* the committed tables
  work,      \* the tables as the open transaction sees them
  batch,     \* registrations of the open transaction still to be processed
  recorded,  \* its recorded_at_ms, read once per batch
  deferred,  \* memories whose reported `current` is resolved after the loop
  open       \* whether a write transaction is open

vars == <<store, work, batch, recorded, deferred, open>>

Time == 0..MaxTime
Clock == 0..MaxClock
NoTime == -1
OrNone(S) == S \cup {NoMem}

Statement == [ts: Time, obj: Object]
Unsaid == [ts |-> NoTime, obj |-> Blank]

\* A row of fact_versions; valid_from_ms, valid_to_ms, superseded_by and
\* supersedes are from, to, by and prev.
Version ==
  [ts: Time, rec: Clock, row: 1..MaxRow, obj: Object,
   status: {"current", "stale"}, from: Time, to: Time \cup {NoTime},
   by: OrNone(Memory), prev: OrNone(Memory)]
NoVersion ==
  [ts |-> NoTime, rec |-> 0, row |-> 0, obj |-> Blank, status |-> "none",
   from |-> NoTime, to |-> NoTime, by |-> NoMem, prev |-> NoMem]

Registration == [mem: Memory, ts: Time, obj: Object]

Edge == [status: {"current", "stale"}, obj: Object \ {Blank}]
NoEdge == [status |-> "none", obj |-> Blank]

\* said: the memory rows; ver: fact_versions; evidence: <<version, memory>>
\* pairs of fact_evidence; card: is_latest of the memory's card; edge: status
\* and target object of the memory's graph edge.
Tables ==
  [said: [Memory -> Statement \cup {Unsaid}],
   ver: [Memory -> Version \cup {NoVersion}],
   evidence: SUBSET (Memory \X Memory),
   card: [Memory -> {"none", "latest", "old"}],
   edge: [Memory -> Edge \cup {NoEdge}]]

EmptyTables ==
  [said |-> [m \in Memory |-> Unsaid], ver |-> [m \in Memory |-> NoVersion],
   evidence |-> {}, card |-> [m \in Memory |-> "none"],
   edge |-> [m \in Memory |-> NoEdge]]

-----------------------------------------------------------------------------
(* Queries on the version table.                                           *)

Stored(v) == {m \in Memory : v[m] # NoVersion}

\* ORDER BY timestamp_ms, recorded_at_ms, rowid
KeyBefore(t1, c1, r1, t2, c2, r2) ==
  \/ t1 < t2
  \/ t1 = t2 /\ c1 < c2
  \/ t1 = t2 /\ c1 = c2 /\ r1 < r2

Before(v, m, n) ==
  KeyBefore(v[m].ts, v[m].rec, v[m].row, v[n].ts, v[n].rec, v[n].row)

\* The row(s) an ORDER BY ... DESC (ASC) LIMIT 1 over S returns: at most one.
Newest(v, S) == {m \in S : \A n \in S \ {m} : Before(v, n, m)}
Oldest(v, S) == {m \in S : \A n \in S \ {m} : Before(v, m, n)}

\* NoMem when the query finds no row.
FirstOf(S) == IF S = {} THEN {NoMem} ELSE S

\* The version whose validity covers t, or the oldest one when t precedes all.
Covering(v, t) ==
  LET upTo == {m \in Stored(v) : v[m].ts <= t}
  IN  IF upTo # {} THEN Newest(v, upTo) ELSE Oldest(v, Stored(v))

\* Slip (a definition with a plausible mistake, which a property must notice):
\* ties broken by the rowid alone.
LowerByRow(v, t, c, r) ==
  {n \in Stored(v) : v[n].ts < t \/ (v[n].ts = t /\ v[n].row < r)}

\* The rows strictly before and after the position <<t, c, r>>.
Lower(v, t, c, r) ==
  {n \in Stored(v) : KeyBefore(v[n].ts, v[n].rec, v[n].row, t, c, r)}
Upper(v, t, c, r) ==
  {n \in Stored(v) : KeyBefore(t, c, r, v[n].ts, v[n].rec, v[n].row)}

CurrentRows(v) == {m \in Memory : v[m].status = "current"}
CurrentVersion(v) == FirstOf(Newest(v, CurrentRows(v)))

EdgeOf(status, obj) ==
  IF obj = Blank THEN NoEdge ELSE [status |-> status, obj |-> obj]

SameObject(a, b) == a # Blank /\ a = b

\* The rowid SQLite gives a new row: one more than the largest in use.
FreshRow(v, r) ==
  /\ \A n \in Stored(v) : v[n].row < r
  /\ r = 1 \/ \E n \in Stored(v) : v[n].row = r - 1

-----------------------------------------------------------------------------
(* One registration.                                                       *)

\* Slips: a predecessor that stays current, or whose end is the new start plus
\* or minus one; a demoted version whose card or edge is forgotten.
LinkPredecessorCurrent(v, reg, p) ==
  IF p = NoMem THEN v
  ELSE [v EXCEPT ![p].to = reg.ts, ![p].by = reg.mem]
LinkPredecessorLate(v, reg, p) ==
  IF p = NoMem THEN v
  ELSE [v EXCEPT ![p].status = "stale", ![p].to = reg.ts + 1, ![p].by = reg.mem]
LinkPredecessorEarly(v, reg, p) ==
  IF p = NoMem THEN v
  ELSE [v EXCEPT ![p].status = "stale", ![p].to = reg.ts - 1, ![p].by = reg.mem]
CardsAfterNoDemotion(reg, old, s) ==
  [m \in Memory |-> IF m = reg.mem THEN IF s = NoMem THEN "latest" ELSE "old"
                    ELSE work.card[m]]
EdgesAfterNoDemotion(reg, old, s) ==
  [m \in Memory |->
     IF m = reg.mem /\ reg.obj # Blank
     THEN EdgeOf(IF s = NoMem THEN "current" ELSE "stale", reg.obj)
     ELSE work.edge[m]]

\* ON CONFLICT(fact_key, memory_id) DO NOTHING: a stored row keeps its
\* timestamp, recorded time, rowid and object.
WithRow(v, reg, c, r) ==
  IF v[reg.mem] # NoVersion THEN v
  ELSE [v EXCEPT ![reg.mem] =
         [ts |-> reg.ts, rec |-> c, row |-> r, obj |-> reg.obj,
          status |-> "current", from |-> reg.ts, to |-> NoTime,
          by |-> NoMem, prev |-> NoMem]]

\* The three UPDATEs, in the code's order: the registered row, then its
\* predecessor p, then its successor s.
PlaceSelf(v, reg, p, s) ==
  [v EXCEPT ![reg.mem].status = IF s = NoMem THEN "current" ELSE "stale",
            ![reg.mem].from = reg.ts,
            ![reg.mem].to = IF s = NoMem THEN NoTime ELSE v[s].ts,
            ![reg.mem].by = s,
            ![reg.mem].prev = p]
LinkPredecessor(v, reg, p) ==
  IF p = NoMem THEN v
  ELSE [v EXCEPT ![p].status = "stale", ![p].to = reg.ts, ![p].by = reg.mem]
LinkSuccessor(v, reg, s) ==
  IF s = NoMem THEN v ELSE [v EXCEPT ![s].prev = reg.mem]

Linked(v, reg, p, s) ==
  LinkSuccessor(LinkPredecessor(PlaceSelf(v, reg, p, s), reg, p), reg, s)

Confirmed(reg) ==
  \E c \in Covering(work.ver, reg.ts) :
    c # reg.mem /\ SameObject(work.ver[c].obj, reg.obj)

Confirm(reg) ==
  /\ Confirmed(reg)
  /\ \E c \in Covering(work.ver, reg.ts) :
       work' = [work EXCEPT
         !.evidence = @ \cup {<<c, reg.mem>>},
         !.edge[reg.mem] = IF @ = NoEdge THEN EdgeOf("current", reg.obj) ELSE @]
  /\ UNCHANGED deferred

\* Cards and edges follow the status the registration reports: the version
\* that was current before is demoted only when this one becomes current.
CardsAfter(reg, old, s) ==
  [m \in Memory |->
     IF m = reg.mem THEN IF s = NoMem THEN "latest" ELSE "old"
     ELSE IF m = old /\ s = NoMem /\ work.card[m] # "none" THEN "old"
     ELSE work.card[m]]
\* The edge written for the demoted version carries the new fact's object.
EdgesAfter(reg, old, s) ==
  [m \in Memory |->
     IF reg.obj = Blank THEN work.edge[m]
     ELSE IF m = reg.mem
          THEN EdgeOf(IF s = NoMem THEN "current" ELSE "stale", reg.obj)
     ELSE IF m = old /\ s = NoMem THEN EdgeOf("stale", reg.obj)
     ELSE work.edge[m]]

Insert(reg) ==
  /\ ~Confirmed(reg)
  /\ \E old \in CurrentVersion(work.ver), r \in 1..MaxRow :
       /\ FreshRow(work.ver, r)
       /\ LET v == WithRow(work.ver, reg, recorded, r)
              c == v[reg.mem].rec
              k == v[reg.mem].row
          IN  \E p \in FirstOf(Newest(v, Lower(v, reg.ts, c, k))),
                 s \in FirstOf(Oldest(v, Upper(v, reg.ts, c, k))) :
                /\ work' = [work EXCEPT
                     !.ver = Linked(v, reg, p, s),
                     !.evidence = @ \cup {<<reg.mem, reg.mem>>},
                     !.card = CardsAfter(reg, old, s),
                     !.edge = EdgesAfter(reg, old, s)]
                /\ deferred' = IF s = NoMem THEN deferred
                               ELSE deferred \cup {reg.mem}

Register ==
  /\ open /\ batch # <<>>
  /\ Confirm(Head(batch)) \/ Insert(Head(batch))
  /\ batch' = Tail(batch)
  /\ UNCHANGED <<store, recorded, open>>

-----------------------------------------------------------------------------
(* Transactions.                                                           *)

Init ==
  /\ store = EmptyTables
  /\ work = EmptyTables
  /\ batch = <<>>
  /\ recorded = 0
  /\ deferred = {}
  /\ open = FALSE

\* What an ingest may state: a memory that is not stored, one that a client
\* retries unchanged while its row is not indexed yet, or (MayCorrect) one
\* whose timestamp or text has changed.
Statable(said, reg) ==
  \/ said[reg.mem] = Unsaid
  \/ said[reg.mem] = [ts |-> reg.ts, obj |-> reg.obj]
  \/ MayCorrect

\* commit_ingest up to the facts: memory rows and cards are upserted first.
Begin ==
  /\ ~open
  /\ \E n \in 1..MaxBatch :
       \E regs \in [1..n -> Registration] :
         /\ \A i, j \in 1..n : regs[i].mem = regs[j].mem => i = j
         /\ \A i \in 1..n : Statable(store.said, regs[i])
         /\ LET ids == {regs[i].mem : i \in 1..n}
                regOf(m) == regs[CHOOSE i \in 1..n : regs[i].mem = m]
            IN  work' = [store EXCEPT
                  !.said = [m \in Memory |->
                     IF m \in ids THEN [ts |-> regOf(m).ts, obj |-> regOf(m).obj]
                     ELSE store.said[m]],
                  !.card = [m \in Memory |->
                     IF m \in ids THEN "latest" ELSE store.card[m]]]
         /\ batch' = regs
  /\ recorded' \in Clock
  /\ deferred' = {}
  /\ open' = TRUE
  /\ UNCHANGED store

\* Repair of a chain that a batch left without a current row.
Promoted(v, n) ==
  [v EXCEPT ![n].status = "current", ![n].to = NoTime, ![n].by = NoMem]

\* The end of register_fact_versions_tx and the commit.
Commit ==
  /\ open /\ batch = <<>>
  /\ \E n \in FirstOf(Newest(work.ver, Stored(work.ver))) :
       LET settled == IF deferred # {} /\ CurrentRows(work.ver) = {}
                      THEN [work EXCEPT !.ver = Promoted(@, n)] ELSE work
       IN  work' = settled /\ store' = settled
  /\ open' = FALSE
  /\ deferred' = {}
  /\ recorded' = 0
  /\ UNCHANGED batch

\* Any error inside the transaction rolls it back.
Abort ==
  /\ open
  /\ work' = store
  /\ open' = FALSE
  /\ batch' = <<>>
  /\ deferred' = {}
  /\ recorded' = 0
  /\ UNCHANGED store

\* The rebuilt chain: positions in the sorted remaining rows decide all links.
Next1(v, S, m) == FirstOf(Oldest(v, {n \in S : Before(v, m, n)}))
Prev1(v, S, m) == FirstOf(Newest(v, {n \in S : Before(v, n, m)}))
The(S) == CHOOSE x \in S : TRUE

\* Slips: a rebuild that keeps the old end of validity, a deletion that keeps
\* the evidence its memory gave to other versions.
RebuiltOldEnd(v, keep) ==
  [m \in Memory |->
     IF m \notin keep THEN NoVersion
     ELSE LET s == The(Next1(v, keep, m))
          IN [v[m] EXCEPT !.status = IF s = NoMem THEN "current" ELSE "stale",
                          !.by = s, !.prev = The(Prev1(v, keep, m))]]
EvidenceOfOthers(evidence, D) == {e \in evidence : e[1] \notin D}

Rebuilt(v, keep) ==
  [m \in Memory |->
     IF m \notin keep THEN NoVersion
     ELSE LET s == The(Next1(v, keep, m))
          IN [v[m] EXCEPT !.status = IF s = NoMem THEN "current" ELSE "stale",
                          !.from = v[m].ts,
                          !.to = IF s = NoMem THEN NoTime ELSE v[s].ts,
                          !.by = s,
                          !.prev = The(Prev1(v, keep, m))]]

EvidenceWithout(evidence, D) == {e \in evidence : e[1] \notin D /\ e[2] \notin D}

\* delete_observation of a memory, with the memories derived from it.
Delete(m) ==
  /\ ~open
  /\ store.said[m] # Unsaid
  /\ LET D == {m} \cup Derived[m]
         touched == Stored(store.ver) \cap D # {}
         v == IF touched THEN Rebuilt(store.ver, Stored(store.ver) \ D)
                         ELSE store.ver
         edgeOf(n) == IF n \in D THEN NoEdge
                      ELSE IF touched /\ v[n] # NoVersion /\ v[n].obj # Blank
                           THEN EdgeOf(v[n].status, v[n].obj)
                      ELSE store.edge[n]
         t == [said |-> [n \in Memory |->
                  IF n \in D THEN Unsaid ELSE store.said[n]],
               ver |-> v,
               evidence |-> EvidenceWithout(store.evidence, D),
               card |-> [n \in Memory |->
                  IF n \in D THEN "none" ELSE store.card[n]],
               edge |-> [n \in Memory |-> edgeOf(n)]]
     IN  store' = t /\ work' = t
  /\ UNCHANGED <<batch, recorded, deferred, open>>

Next ==
  \/ Begin
  \/ Register
  \/ Commit
  \/ Abort
  \/ \E m \in Memory : Delete(m)

Spec == Init /\ [][Next]_vars

-----------------------------------------------------------------------------
(* Properties of the committed tables.                                     *)

\* The tables and the transaction's variables have their types.
TypeOK ==
  /\ store \in Tables
  /\ work \in Tables
  /\ batch \in Seq(Registration)
  /\ recorded \in Clock
  /\ deferred \in SUBSET Memory
  /\ open \in BOOLEAN

\* A chain with a version has exactly one current version, the newest by
\* (timestamp_ms, recorded_at_ms, rowid), whatever order they arrived in.
HeadIsCurrent(v) ==
  Stored(v) # {} => CurrentRows(v) = Newest(v, Stored(v)) /\ CurrentRows(v) # {}
OneCurrent == HeadIsCurrent(store.ver)

\* Pointers and validity describe the same sorted chain: a version points to
\* the very next one, is pointed back to by it, and ends where it begins.
Adjacent(v, m, n) ==
  /\ Before(v, m, n)
  /\ \A k \in Stored(v) : ~(Before(v, m, k) /\ Before(v, k, n))
LinksAreAdjacent(v) ==
  \A m, n \in Stored(v) :
    LET next == Adjacent(v, m, n)
    IN  (v[m].by = n <=> next) /\ (v[n].prev = m <=> next) /\ (next => v[m].to = v[n].from)
ChainLinked == LinksAreAdjacent(store.ver)

\* invalidated_set_at_time: the versions it leaves valid at time t.
ValidAt(v, t) ==
  {m \in Stored(v) : v[m].from <= t /\ ~(v[m].to # NoTime /\ v[m].to <= t)}

\* A query as of any time sees the one version that was newest at that time,
\* and none before the first: intervals neither overlap nor leave gaps.
OneValueAtEveryTime ==
  \A t \in Time :
    ValidAt(store.ver, t) =
      Newest(store.ver, {m \in Stored(store.ver) : store.ver[m].ts <= t})

\* Evidence joins live rows: it supports a stored version, comes from a stored
\* memory that states the version's value, and every version has its own.
EvidenceSupports ==
  /\ \A e \in store.evidence :
       /\ e[1] \in Stored(store.ver)
       /\ store.said[e[2]] # Unsaid
       /\ store.said[e[2]].obj = store.ver[e[1]].obj
  /\ \A m \in Stored(store.ver) : <<m, m>> \in store.evidence

\* The graph shows each version with the standing the chain gives it, as long
\* as every version has an object: one without is given no edges, and leaves
\* those of the version it supersedes as they were.
EdgeFollowsVersion ==
  (\A m \in Stored(store.ver) : store.ver[m].obj # Blank) =>
    \A m \in Stored(store.ver) :
      store.edge[m] # NoEdge => store.edge[m].status = store.ver[m].status

\* A commit leaves what was known about the past alone: what is valid at t
\* changes only when a version that starts no later than t is added.
PastIsStable ==
  [][~open' /\ open =>
       \A t \in Time :
         ValidAt(store'.ver, t) # ValidAt(store.ver, t) =>
           \E m \in Stored(store'.ver) \ Stored(store.ver) :
             store'.ver[m].ts <= t]_vars

\* The commit that supersedes a version also takes the mark of the latest one
\* from its card, wherever in the batch the two registrations stand.
SupersessionDemotesCard ==
  [][open /\ ~open' =>
       \A m \in CurrentRows(store.ver) :
         store'.ver[m].status = "stale" /\ store'.card[m] # "none"
           => store'.card[m] = "old"]_vars

-----------------------------------------------------------------------------
(* What the documentation says and the code does not keep.                 *)

\* The graph keeps what each version said: superseding a version does not
\* overwrite the value its edge records.
EdgeKeepsObject ==
  \A m \in Stored(store.ver) :
    store.edge[m] # NoEdge => store.edge[m].obj = store.ver[m].obj

\* Event time decides what holds now: the current value is the one stated by
\* the memory with the latest event time.
LatestStatementHolds ==
  \A m \in Memory :
    /\ store.said[m] # Unsaid
    /\ \A n \in Memory \ {m} : store.said[n].ts < store.said[m].ts
    => \A c \in CurrentRows(store.ver) :
         store.ver[c].obj = store.said[m].obj

\* The version that holds now is not marked superseded on its card, which is
\* what a result's conflict_flag and the ranking read.
CurrentCardIsLatest ==
  \A m \in CurrentRows(store.ver) : store.card[m] # "old"

=============================================================================
