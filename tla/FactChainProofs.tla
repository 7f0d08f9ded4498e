--------------------------- MODULE FactChainProofs ---------------------------
(***************************************************************************)
(* Theorems about FactChain and FactReads for every set of memories, every *)
(* range of event times and clock readings and every batch size: the chain *)
(* is the sorted history, and, where stored memories are only retried      *)
(* unchanged (MayCorrect = FALSE), evidence, edges and cards stand with    *)
(* the versions they are about, a commit leaves the past alone, and all    *)
(* reads of the chain tell one story.                                      *)
(***************************************************************************)
EXTENDS FactReads, FiniteSetTheorems, WellFoundedInduction, TLAPS

-----------------------------------------------------------------------------
(* Types.                                                                  *)

Rows == Version \cup {NoVersion}
VerType == [Memory -> Rows]

\* The columns each UPDATE sets keep a row a row.
LEMMA RowUpdates ==
  ASSUME NEW r \in Version, NEW st \in {"current", "stale"}, NEW f \in Time,
         NEW t \in Time \cup {NoTime}, NEW b \in OrNone(Memory),
         NEW q \in OrNone(Memory)
  PROVE  /\ [r EXCEPT !.status = st, !.from = f, !.to = t, !.by = b,
                       !.prev = q] \in Version
         /\ [r EXCEPT !.status = st, !.to = t, !.by = b] \in Version
         /\ [r EXCEPT !.prev = q] \in Version
BY DEF Version

\* What the three UPDATEs write into a typed table is a typed table, when the
\* neighbours they are given are stored versions (the query results of Insert).
LEMMA LinkedType ==
  ASSUME NEW v \in VerType, NEW reg \in Registration,
         NEW p \in OrNone(Stored(v)), NEW s \in OrNone(Stored(v)),
         reg.mem \in Stored(v)
  PROVE  Linked(v, reg, p, s) \in VerType
<1> DEFINE w == PlaceSelf(v, reg, p, s)
           u == LinkPredecessor(w, reg, p)
<1> USE FactChainAssumption
<1>1. /\ reg.mem \in Memory /\ reg.ts \in Time
      /\ p \in OrNone(Memory) /\ s \in OrNone(Memory)
  BY DEF Registration, OrNone, Stored
<1>2. \A m \in Stored(v) : v[m] \in Version
  BY DEF Stored, VerType, Rows
<1>3. s # NoMem => v[s].ts \in Time
  BY <1>2 DEF OrNone, Version
<1>4. w \in VerType /\ w[reg.mem] \in Version
      /\ \A m \in Memory \ {reg.mem} : w[m] = v[m]
  <2>1. w = [v EXCEPT ![reg.mem] =
              [v[reg.mem] EXCEPT
                 !.status = IF s = NoMem THEN "current" ELSE "stale",
                 !.from = reg.ts,
                 !.to = IF s = NoMem THEN NoTime ELSE v[s].ts,
                 !.by = s, !.prev = p]]
    BY <1>1 DEF PlaceSelf, VerType
  <2>2. w[reg.mem] \in Version
    <3>1. w[reg.mem] = [v[reg.mem] EXCEPT
              !.status = IF s = NoMem THEN "current" ELSE "stale",
              !.from = reg.ts, !.to = IF s = NoMem THEN NoTime ELSE v[s].ts,
              !.by = s, !.prev = p]
      BY <1>1, <2>1 DEF VerType
    <3> DEFINE st == IF s = NoMem THEN "current" ELSE "stale"
               t == IF s = NoMem THEN NoTime ELSE v[s].ts
    <3>2. st \in {"current", "stale"} /\ t \in Time \cup {NoTime}
      BY <1>3
    <3>3. v[reg.mem] \in Version
      BY <1>2
    <3> HIDE DEF st, t
    <3>4. [v[reg.mem] EXCEPT !.status = st, !.from = reg.ts, !.to = t, !.by = s,
                             !.prev = p] \in Version
      BY <3>2, <3>3, <1>1 DEF Version
    <3>. QED  BY <3>1, <3>4 DEF st, t
  <2>. QED  BY <1>1, <2>1, <2>2 DEF VerType, Rows
<1>5. u \in VerType /\ \A m \in Stored(v) : u[m] \in Version
  <2>1. CASE p = NoMem
    BY <2>1, <1>2, <1>4 DEF LinkPredecessor, Stored
  <2>2. CASE p # NoMem
    <3>1. p \in Memory /\ w[p] \in Version
      BY <2>2, <1>2, <1>4 DEF OrNone, Stored
    <3>2. u = [w EXCEPT ![p] = [w[p] EXCEPT !.status = "stale", !.to = reg.ts,
                                            !.by = reg.mem]]
      BY <2>2, <3>1, <1>4 DEF LinkPredecessor, VerType
    <3>3. u[p] \in Version
      <4>1. u[p] = [w[p] EXCEPT !.status = "stale", !.to = reg.ts, !.by = reg.mem]
        BY <3>1, <3>2, <1>4 DEF VerType
      <4>. QED  BY <4>1, <3>1, <1>1, ZenonT(60) DEF Version, OrNone
    <3>. QED  BY <3>1, <3>2, <3>3, <1>2, <1>4 DEF VerType, Rows, Stored
  <2>. QED  BY <2>1, <2>2
<1>6. CASE s = NoMem
  BY <1>6, <1>5 DEF Linked, LinkSuccessor
<1>7. CASE s # NoMem
  <2>1. s \in Memory /\ u[s] \in Version
    BY <1>7, <1>5 DEF OrNone, Stored
  <2>2. Linked(v, reg, p, s) = [u EXCEPT ![s] = [u[s] EXCEPT !.prev = reg.mem]]
    BY <1>7, <2>1, <1>5 DEF Linked, LinkSuccessor, VerType
  <2>3. [u[s] EXCEPT !.prev = reg.mem] \in Version
    BY <2>1, <1>1, RowUpdates DEF OrNone
  <2>. QED  BY <2>1, <2>2, <2>3, <1>5 DEF VerType, Rows
<1>. QED  BY <1>6, <1>7

\* A query answers with rows of the set it ranges over, or with NULL.
LEMMA QueryType ==
  ASSUME NEW v, NEW S, S \subseteq Stored(v)
  PROVE  /\ FirstOf(Newest(v, S)) \subseteq OrNone(Stored(v))
         /\ FirstOf(Oldest(v, S)) \subseteq OrNone(Stored(v))
BY DEF FirstOf, Newest, Oldest, OrNone

\* FirstOf always answers, so The of it is one of the answers.
LEMMA TheType ==
  ASSUME NEW S
  PROVE  The(FirstOf(S)) \in OrNone(S)
BY DEF The, FirstOf, OrNone

\* The inserted row: the table stays typed and the registered memory has one.
LEMMA WithRowType ==
  ASSUME NEW v \in VerType, NEW reg \in Registration,
         NEW c \in Clock, NEW r \in 1..MaxRow
  PROVE  WithRow(v, reg, c, r) \in VerType /\ reg.mem \in Stored(WithRow(v, reg, c, r))
<1> DEFINE new == [ts |-> reg.ts, rec |-> c, row |-> r, obj |-> reg.obj,
                   status |-> "current", from |-> reg.ts, to |-> NoTime,
                   by |-> NoMem, prev |-> NoMem]
<1>1. new \in Version
  BY DEF Version, Registration, OrNone
<1>2. new # NoVersion
  BY DEF NoVersion, Registration, Time, NoTime
<1>3. reg.mem \in Memory
  BY DEF Registration
<1>4. CASE v[reg.mem] # NoVersion
  BY <1>4, <1>3 DEF WithRow, Stored
<1>5. CASE v[reg.mem] = NoVersion
  <2>1. WithRow(v, reg, c, r) = [v EXCEPT ![reg.mem] = new]
    BY <1>5 DEF WithRow
  <2> HIDE DEF new
  <2>. QED  BY <2>1, <1>1, <1>2, <1>3 DEF VerType, Rows, Stored
<1>. QED  BY <1>4, <1>5

\* The evidence branch of register_fact_versions_tx adds a pair and at most one
\* edge, and leaves the tables typed.
LEMMA ConfirmType ==
  ASSUME TypeOK, NEW reg \in Registration, Confirm(reg)
  PROVE  work' \in Tables /\ deferred' \in SUBSET Memory
<1>1. PICK c \in Covering(work.ver, reg.ts) :
        work' = [work EXCEPT
          !.evidence = @ \cup {<<c, reg.mem>>},
          !.edge[reg.mem] = IF @ = NoEdge THEN EdgeOf("current", reg.obj) ELSE @]
  BY DEF Confirm
<1>2. c \in Memory /\ reg.mem \in Memory /\ reg.obj \in Object
  BY DEF Covering, Newest, Oldest, Stored, Registration
<1>3. EdgeOf("current", reg.obj) \in Edge \cup {NoEdge}
  BY <1>2 DEF EdgeOf, Edge
<1>4. work \in Tables
  BY DEF TypeOK
<1>5. work' = [said |-> work.said, ver |-> work.ver,
               evidence |-> work.evidence \cup {<<c, reg.mem>>}, card |-> work.card,
               edge |-> [work.edge EXCEPT ![reg.mem] =
                 IF @ = NoEdge THEN EdgeOf("current", reg.obj) ELSE @]]
  BY <1>1, <1>4 DEF Tables
<1>6. [work.edge EXCEPT ![reg.mem] =
         IF @ = NoEdge THEN EdgeOf("current", reg.obj) ELSE @]
        \in [Memory -> Edge \cup {NoEdge}]
  BY <1>2, <1>3, <1>4 DEF Tables
<1>7. work.evidence \cup {<<c, reg.mem>>} \in SUBSET (Memory \X Memory)
  BY <1>2, <1>4 DEF Tables
<1>8. deferred' \in SUBSET Memory
  BY DEF Confirm, TypeOK
<1> DEFINE e == [work.edge EXCEPT ![reg.mem] =
                  IF @ = NoEdge THEN EdgeOf("current", reg.obj) ELSE @]
<1> HIDE DEF e
<1>9. work' = [said |-> work.said, ver |-> work.ver,
               evidence |-> work.evidence \cup {<<c, reg.mem>>}, card |-> work.card,
               edge |-> e] /\ e \in [Memory -> Edge \cup {NoEdge}]
  BY <1>5, <1>6 DEF e
<1>. QED  BY <1>4, <1>7, <1>8, <1>9 DEF Tables

\* The INSERT branch, with the three UPDATEs and the card and edge updates that
\* follow from its status, leaves the tables typed.
LEMMA InsertType ==
  ASSUME TypeOK, NEW reg \in Registration, Insert(reg)
  PROVE  work' \in Tables /\ deferred' \in SUBSET Memory
<1>1. PICK old \in CurrentVersion(work.ver), r \in 1..MaxRow :
        LET v == WithRow(work.ver, reg, recorded, r)
            c == v[reg.mem].rec
            k == v[reg.mem].row
        IN  \E p \in FirstOf(Newest(v, Lower(v, reg.ts, c, k))),
               s \in FirstOf(Oldest(v, Upper(v, reg.ts, c, k))) :
              /\ work' = [work EXCEPT
                   !.ver = Linked(v, reg, p, s),
                   !.evidence = @ \cup {<<reg.mem, reg.mem>>},
                   !.card = CardsAfter(reg, old, s),
                   !.edge = EdgesAfter(reg, old, s)]
              /\ deferred' = IF s = NoMem THEN deferred
                             ELSE deferred \cup {reg.mem}
  BY DEF Insert
<1> DEFINE v == WithRow(work.ver, reg, recorded, r)
           c == v[reg.mem].rec
           k == v[reg.mem].row
<1>2. PICK p \in FirstOf(Newest(v, Lower(v, reg.ts, c, k))),
           s \in FirstOf(Oldest(v, Upper(v, reg.ts, c, k))) :
        /\ work' = [work EXCEPT
             !.ver = Linked(v, reg, p, s),
             !.evidence = @ \cup {<<reg.mem, reg.mem>>},
             !.card = CardsAfter(reg, old, s),
             !.edge = EdgesAfter(reg, old, s)]
        /\ deferred' = IF s = NoMem THEN deferred ELSE deferred \cup {reg.mem}
  BY <1>1
<1>3. work \in Tables /\ work.ver \in VerType /\ recorded \in Clock
  BY DEF TypeOK, Tables, VerType, Rows
<1>4. v \in VerType /\ reg.mem \in Stored(v)
  BY <1>3, WithRowType
<1> HIDE DEF v, c, k
<1>5. p \in OrNone(Stored(v)) /\ s \in OrNone(Stored(v))
  <2>1. Lower(v, reg.ts, c, k) \subseteq Stored(v) /\ Upper(v, reg.ts, c, k) \subseteq Stored(v)
    BY DEF Lower, Upper
  <2>. QED  BY <2>1, QueryType
<1>6. Linked(v, reg, p, s) \in VerType
  BY <1>4, <1>5, LinkedType
<1>7. reg.mem \in Memory /\ reg.obj \in Object
  BY DEF Registration
<1>8. CardsAfter(reg, old, s) \in [Memory -> {"none", "latest", "old"}]
  BY <1>3 DEF CardsAfter, Tables
<1>9. EdgesAfter(reg, old, s) \in [Memory -> Edge \cup {NoEdge}]
  BY <1>3, <1>7 DEF EdgesAfter, EdgeOf, Edge, Tables
<1>10. work' = [said |-> work.said, ver |-> Linked(v, reg, p, s),
                evidence |-> work.evidence \cup {<<reg.mem, reg.mem>>},
                card |-> CardsAfter(reg, old, s), edge |-> EdgesAfter(reg, old, s)]
  BY <1>2, <1>3 DEF Tables
<1>. QED  BY <1>2, <1>3, <1>6, <1>7, <1>8, <1>9, <1>10 DEF Tables, VerType, Rows, TypeOK

\* The rebuilt chain of a deletion is typed.
LEMMA RebuiltType ==
  ASSUME NEW v \in VerType, NEW keep \in SUBSET Stored(v)
  PROVE  Rebuilt(v, keep) \in VerType
<1>1. ASSUME NEW m \in keep
      PROVE  LET s == The(Next1(v, keep, m))
             IN [v[m] EXCEPT !.status = IF s = NoMem THEN "current" ELSE "stale",
                             !.from = v[m].ts,
                             !.to = IF s = NoMem THEN NoTime ELSE v[s].ts,
                             !.by = s,
                             !.prev = The(Prev1(v, keep, m))] \in Version
  <2> DEFINE s == The(Next1(v, keep, m))
             q == The(Prev1(v, keep, m))
             st == IF s = NoMem THEN "current" ELSE "stale"
             t == IF s = NoMem THEN NoTime ELSE v[s].ts
  <2>1. s \in OrNone(keep)
    <3>1. s \in OrNone(Oldest(v, {n \in keep : Before(v, m, n)}))
      BY TheType DEF Next1
    <3>. QED  BY <3>1 DEF OrNone, Oldest
  <2>2. q \in OrNone(keep)
    <3>1. q \in OrNone(Newest(v, {n \in keep : Before(v, n, m)}))
      BY TheType DEF Prev1
    <3>. QED  BY <3>1 DEF OrNone, Newest
  <2>3. \A n \in keep : n \in Memory /\ v[n] \in Version
    BY DEF Stored, VerType, Rows
  <2> HIDE DEF s, q
  <2>4. s \in OrNone(Memory) /\ q \in OrNone(Memory)
    BY <2>1, <2>2, <2>3 DEF OrNone
  <2>5. st \in {"current", "stale"} /\ t \in Time \cup {NoTime}
    BY <2>1, <2>3 DEF OrNone, Version
  <2>6. v[m] \in Version /\ v[m].ts \in Time
    BY <2>3 DEF Version
  <2> HIDE DEF st, t
  <2>7. [v[m] EXCEPT !.status = st, !.from = v[m].ts, !.to = t, !.by = s,
                     !.prev = q] \in Version
    BY <2>4, <2>5, <2>6 DEF Version
  <2>. QED  BY <2>7 DEF s, q, st, t
<1>. QED  BY <1>1 DEF Rebuilt, VerType, Rows

\* The start of commit_ingest, memories and cards first, is typed.
LEMMA BeginType ==
  ASSUME TypeOK, Begin
  PROVE  TypeOK'
<1>1. PICK n \in 1..MaxBatch, c \in Clock : \E regs \in [1..n -> Registration] :
        /\ LET ids == {regs[i].mem : i \in 1..n}
               regOf(m) == regs[CHOOSE i \in 1..n : regs[i].mem = m]
           IN  work' = [store EXCEPT
                 !.said = [m \in Memory |->
                    IF m \in ids THEN [ts |-> regOf(m).ts, obj |-> regOf(m).obj]
                    ELSE store.said[m]],
                 !.card = [m \in Memory |->
                    IF m \in ids THEN "latest" ELSE store.card[m]]]
        /\ batch' = regs
        /\ recorded' = c
  BY Zenon DEF Begin
<1>2. PICK regs \in [1..n -> Registration] :
        /\ LET ids == {regs[i].mem : i \in 1..n}
               regOf(m) == regs[CHOOSE i \in 1..n : regs[i].mem = m]
           IN  work' = [store EXCEPT
                 !.said = [m \in Memory |->
                    IF m \in ids THEN [ts |-> regOf(m).ts, obj |-> regOf(m).obj]
                    ELSE store.said[m]],
                 !.card = [m \in Memory |->
                    IF m \in ids THEN "latest" ELSE store.card[m]]]
        /\ batch' = regs
        /\ recorded' = c
  BY <1>1, Zenon
<1> DEFINE ids == {regs[i].mem : i \in 1..n}
           regOf(m) == regs[CHOOSE i \in 1..n : regs[i].mem = m]
           said == [m \in Memory |->
                      IF m \in ids THEN [ts |-> regOf(m).ts, obj |-> regOf(m).obj]
                      ELSE store.said[m]]
           card == [m \in Memory |-> IF m \in ids THEN "latest" ELSE store.card[m]]
<1>3. store \in Tables
  BY DEF TypeOK
<1>4. work' = [said |-> said, ver |-> store.ver, evidence |-> store.evidence,
               card |-> card, edge |-> store.edge]
  BY <1>2, <1>3 DEF Tables
<1>5. said \in [Memory -> Statement \cup {Unsaid}]
  <2>1. ASSUME NEW m \in ids
        PROVE  [ts |-> regOf(m).ts, obj |-> regOf(m).obj] \in Statement
    <3>1. regOf(m) \in Registration
      OBVIOUS
    <3> HIDE DEF regOf
    <3>. QED  BY <3>1 DEF Registration, Statement
  <2> HIDE DEF ids, regOf
  <2>. QED  BY <2>1, <1>3 DEF Tables
<1>6. card \in [Memory -> {"none", "latest", "old"}]
  BY <1>3 DEF Tables
<1> HIDE DEF said, card
<1>7. work' \in Tables
  BY <1>3, <1>4, <1>5, <1>6 DEF Tables
<1>8. batch' \in Seq(Registration) /\ recorded' \in Clock
  BY <1>2
<1>9. store' \in Tables /\ deferred' \in SUBSET Memory /\ open' \in BOOLEAN
  BY <1>3 DEF Begin
<1>. QED  BY <1>7, <1>8, <1>9 DEF TypeOK

\* The end of a batch is typed, whether or not promote_newest_to_current runs.
LEMMA CommitType ==
  ASSUME TypeOK, Commit
  PROVE  TypeOK'
<1>1. PICK n \in FirstOf(Newest(work.ver, Stored(work.ver))) :
        LET settled == IF deferred # {} /\ CurrentRows(work.ver) = {}
                       THEN [work EXCEPT !.ver = Promoted(@, n)] ELSE work
        IN  work' = settled /\ store' = settled
  BY DEF Commit
<1>2. work \in Tables /\ work.ver \in VerType
  BY DEF TypeOK, Tables, VerType, Rows
<1>3. Promoted(work.ver, n) \in VerType
  <2>1. n \in OrNone(Stored(work.ver))
    BY QueryType
  <2>2. CASE n \in Stored(work.ver)
    <3>1. n \in Memory /\ work.ver[n] \in Version
      BY <2>2, <1>2 DEF Stored, VerType, Rows
    <3>2. [work.ver[n] EXCEPT !.status = "current", !.to = NoTime, !.by = NoMem]
            \in Version
      BY <3>1 DEF Version, OrNone
    <3>3. Promoted(work.ver, n) = [work.ver EXCEPT ![n] =
            [work.ver[n] EXCEPT !.status = "current", !.to = NoTime, !.by = NoMem]]
      BY <3>1, <1>2 DEF Promoted, VerType
    <3>. QED  BY <3>1, <3>2, <3>3, <1>2 DEF VerType, Rows
  <2>3. CASE n = NoMem
    BY <2>3, <1>2, FactChainAssumption DEF Promoted, VerType
  <2>. QED  BY <2>1, <2>2, <2>3 DEF OrNone
<1>4. [work EXCEPT !.ver = Promoted(@, n)] \in Tables
  BY <1>2, <1>3 DEF Tables, VerType, Rows
<1>5. work' \in Tables /\ store' \in Tables
  BY <1>1, <1>2, <1>4
<1>6. recorded' \in Clock
  BY FactChainAssumption DEF Commit, Clock
<1>. QED  BY <1>5, <1>6 DEF TypeOK, Commit

\* delete_observation with its rebuild of the chain is typed.
LEMMA DeleteType ==
  ASSUME TypeOK, NEW m \in Memory, Delete(m)
  PROVE  TypeOK'
<1> DEFINE D == {m} \cup Derived[m]
           touched == Stored(store.ver) \cap D # {}
           v == IF touched THEN Rebuilt(store.ver, Stored(store.ver) \ D)
                           ELSE store.ver
           edgeOf(n) == IF n \in D THEN NoEdge
                        ELSE IF touched /\ v[n] # NoVersion /\ v[n].obj # Blank
                             THEN EdgeOf(v[n].status, v[n].obj)
                        ELSE store.edge[n]
           said == [n \in Memory |-> IF n \in D THEN Unsaid ELSE store.said[n]]
           evidence == EvidenceWithout(store.evidence, D)
           card == [n \in Memory |-> IF n \in D THEN "none" ELSE store.card[n]]
           edge == [n \in Memory |-> edgeOf(n)]
           t == [said |-> said, ver |-> v, evidence |-> evidence, card |-> card,
                 edge |-> edge]
<1>1. store \in Tables /\ store.ver \in VerType
  BY DEF TypeOK, Tables, VerType, Rows
<1>2. v \in VerType
  BY <1>1, RebuiltType
<1>3. said \in [Memory -> Statement \cup {Unsaid}]
  BY <1>1 DEF Tables
<1>4. evidence \in SUBSET (Memory \X Memory)
  BY <1>1 DEF Tables, EvidenceWithout
<1>5. card \in [Memory -> {"none", "latest", "old"}]
  BY <1>1 DEF Tables
<1>6. edge \in [Memory -> Edge \cup {NoEdge}]
  <2> HIDE DEF v, touched, D
  <2>1. ASSUME NEW n \in Memory PROVE edgeOf(n) \in Edge \cup {NoEdge}
    <3>1. store.edge[n] \in Edge \cup {NoEdge}
      BY <1>1 DEF Tables
    <3>2. v[n] # NoVersion => v[n].status \in {"current", "stale"} /\ v[n].obj \in Object
      BY <1>2 DEF VerType, Rows, Version
    <3>. QED  BY <3>1, <3>2 DEF EdgeOf, Edge
  <2> HIDE DEF edgeOf
  <2>. QED  BY <2>1
<1>7. t \in Tables
  <2> HIDE DEF v, said, evidence, card, edge
  <2>. QED  BY <1>2, <1>3, <1>4, <1>5, <1>6 DEF Tables, VerType, Rows
<1>8. store' = t /\ work' = t
  BY DEF Delete
<1>. QED  BY <1>7, <1>8 DEF TypeOK, Delete

\* The empty tables of a new database are typed.
LEMMA TypeInit == Init => TypeOK
<1> SUFFICES ASSUME Init PROVE TypeOK
  OBVIOUS
<1>1. EmptyTables \in Tables
  BY DEF EmptyTables, Tables
<1>2. batch \in Seq(Registration) /\ recorded \in Clock /\ deferred \in SUBSET Memory
  BY FactChainAssumption DEF Init, Clock
<1>. QED  BY <1>1, <1>2 DEF Init, TypeOK

\* Every step, of a registration, a transaction or a deletion, keeps the types.
LEMMA TypeStep == TypeOK /\ [Next]_vars => TypeOK'
<1> SUFFICES ASSUME TypeOK, [Next]_vars PROVE TypeOK'
  OBVIOUS
<1>1. CASE Begin
  BY <1>1, BeginType
<1>2. CASE Register
  <2>1. Head(batch) \in Registration /\ batch' \in Seq(Registration)
    BY <1>2 DEF Register, TypeOK
  <2>2. work' \in Tables /\ deferred' \in SUBSET Memory
    BY <1>2, <2>1, ConfirmType, InsertType DEF Register
  <2>. QED  BY <1>2, <2>1, <2>2 DEF Register, TypeOK
<1>3. CASE Commit
  BY <1>3, CommitType
<1>4. CASE Abort
  <2>1. batch' \in Seq(Registration) /\ recorded' \in Clock
    BY <1>4, FactChainAssumption DEF Abort, Clock
  <2>. QED  BY <1>4, <2>1 DEF Abort, TypeOK
<1>5. CASE \E m \in Memory : Delete(m)
  BY <1>5, DeleteType
<1>6. CASE UNCHANGED vars
  BY <1>6 DEF vars, TypeOK
<1>. QED  BY <1>1, <1>2, <1>3, <1>4, <1>5, <1>6 DEF Next

\* The tables, committed and in an open transaction, keep their types.
THEOREM TypeCorrect == Spec => []TypeOK
BY TypeInit, TypeStep, PTL DEF Spec


-----------------------------------------------------------------------------
(* The order of the chain, in every instance in which stored memories are  *)
(* only retried unchanged (MayCorrect = FALSE): the inductive invariant.   *)

\* s is the first of S after m, or NULL when nothing of S is after m; p is
\* the last of S before m, or NULL.
IsNext(v, S, m, s) ==
  \/ s = NoMem /\ \A n \in S : ~Before(v, m, n)
  \/ /\ s \in S /\ Before(v, m, s)
     /\ \A n \in S : Before(v, m, n) => n = s \/ Before(v, s, n)
IsPrev(v, S, m, p) ==
  \/ p = NoMem /\ \A n \in S : ~Before(v, n, m)
  \/ /\ p \in S /\ Before(v, p, m)
     /\ \A n \in S : Before(v, n, m) => n = p \/ Before(v, n, p)

\* rowids are unique, so the order is total.
Distinct(v) == \A m, n \in Stored(v) : m # n => v[m].row # v[n].row

\* What a row says about its place follows from its successor.
Standing(v, m) ==
  /\ v[m].status = IF v[m].by = NoMem THEN "current" ELSE "stale"
  /\ v[m].to = IF v[m].by = NoMem THEN NoTime ELSE v[v[m].by].ts
  /\ v[m].from = v[m].ts

Placed(v, S, m) == IsNext(v, S, m, v[m].by) /\ IsPrev(v, S, m, v[m].prev)

Chain(v) ==
  /\ Distinct(v)
  /\ \A m \in Stored(v) : Placed(v, Stored(v), m) /\ Standing(v, m)

\* A version row still says what its memory row says.
Faithful(t) ==
  \A m \in Stored(t.ver) :
    t.said[m] = [ts |-> t.ver[m].ts, obj |-> t.ver[m].obj]

\* The memory rows of the batch were written before its registrations run.
BatchSaid ==
  \A i \in 1..Len(batch) :
    work.said[batch[i].mem] = [ts |-> batch[i].ts, obj |-> batch[i].obj]

ChainInv ==
  /\ TypeOK
  /\ Chain(store.ver) /\ Faithful(store)
  /\ Chain(work.ver) /\ Faithful(work)
  /\ BatchSaid
  /\ ~open => batch = <<>>

-----------------------------------------------------------------------------
(* Finite total orders have a least element.                               *)

\* Minimality by well-foundedness of strict inclusion among the sets of
\* predecessors, which are subsets of a finite set.
LEMMA Least ==
  ASSUME NEW S, IsFiniteSet(S), S # {}, NEW R,
         \A x \in S : <<x, x>> \notin R,
         \A x, y \in S : x # y => <<x, y>> \in R \/ <<y, x>> \in R,
         \A x, y, z \in S : <<x, y>> \in R /\ <<y, z>> \in R => <<x, z>> \in R
  PROVE  \E x \in S : \A y \in S \ {x} : <<x, y>> \in R
<1> DEFINE below == [x \in S |-> {y \in S : <<y, x>> \in R}]
           sets == {below[x] : x \in S}
<1>1. sets \subseteq FiniteSubsetsOf(S)
  <2>1. \A x \in S : below[x] \in SUBSET S
    OBVIOUS
  <2>2. FiniteSubsetsOf(S) = SUBSET S
    BY FS_FiniteSubsetsOfFinite
  <2>3. ASSUME NEW b \in sets
        PROVE  b \in SUBSET S
    <3>1. PICK x \in S : b = below[x]
      BY <2>3
    <3>. HIDE DEF below
    <3>. QED  BY <2>1, <3>1
  <2>. HIDE DEF sets
  <2>4. sets \subseteq SUBSET S
    BY <2>3
  <2>. QED  BY <2>2, <2>4
<1>0. sets # {}
  <2>1. PICK x \in S : TRUE
    OBVIOUS
  <2>2. below[x] \in sets
    BY <2>1
  <2>. QED  BY <2>2
<1>2. IsWellFoundedOn(StrictSubsetOrdering(S), FiniteSubsetsOf(S))
  BY FS_StrictSubsetOrderingWellFounded
<1>3. PICK b \in sets : \A c \in sets : <<c, b>> \notin StrictSubsetOrdering(S)
  <2> DEFINE R0 == StrictSubsetOrdering(S)
             S0 == FiniteSubsetsOf(S)
  <2> HIDE DEF sets, R0, S0
  <2>1. IsWellFoundedOn(R0, S0) /\ sets \subseteq S0 /\ sets # {}
    BY <1>0, <1>1, <1>2 DEF R0, S0
  <2>2. \E b \in sets : \A c \in sets : <<c, b>> \notin R0
    BY <2>1, WFMin
  <2>. QED  BY <2>2 DEF R0
<1>4. PICK x \in S : b = below[x]
  OBVIOUS
<1>5. ASSUME NEW y \in S \ {x}, <<x, y>> \notin R
      PROVE  FALSE
  <2>1. <<y, x>> \in R
    BY <1>5
  <2>2. below[y] \subseteq below[x] /\ y \in below[x] /\ y \notin below[y]
    BY <2>1
  <2>3. <<below[y], below[x]>> \in StrictSubsetOrdering(S)
    BY <2>2 DEF StrictSubsetOrdering
  <2>. QED  BY <2>3, <1>3, <1>4
<1>. QED  BY <1>5

-----------------------------------------------------------------------------
(* ORDER BY timestamp_ms, recorded_at_ms, rowid.                           *)

\* The key is a strict total order of the rows, as rowids are distinct.
LEMMA OrderFacts ==
  ASSUME NEW v \in VerType, Distinct(v)
  PROVE  /\ \A m \in Stored(v) : ~Before(v, m, m)
         /\ \A m, n \in Stored(v) : m # n => Before(v, m, n) \/ Before(v, n, m)
         /\ \A m, n, k \in Stored(v) :
              Before(v, m, n) /\ Before(v, n, k) => Before(v, m, k)
<1>1. \A m \in Stored(v) :
        v[m].ts \in Int /\ v[m].rec \in Int /\ v[m].row \in Int
  BY DEF VerType, Rows, Version, Stored, Time, Clock
<1>2. \A m, n \in Stored(v) : m # n => v[m].row # v[n].row
  BY DEF Distinct
<1> HIDE DEF Stored
<1>3. \A m \in Stored(v) : ~Before(v, m, m)
  BY <1>1 DEF Before, KeyBefore
<1>4. \A m, n \in Stored(v) : m # n => Before(v, m, n) \/ Before(v, n, m)
  BY <1>1, <1>2 DEF Before, KeyBefore
<1>5. \A m, n, k \in Stored(v) :
        Before(v, m, n) /\ Before(v, n, k) => Before(v, m, k)
  BY <1>1 DEF Before, KeyBefore
<1>. QED  BY <1>3, <1>4, <1>5

\* A query over rows that exist finds one.
LEMMA QueriesAnswer ==
  ASSUME NEW v \in VerType, Distinct(v), NEW S \in SUBSET Stored(v), S # {}
  PROVE  Newest(v, S) # {} /\ Oldest(v, S) # {}
<1>1. IsFiniteSet(S)
  BY FS_Subset, FactChainAssumption DEF Stored
<1>2. Oldest(v, S) # {}
  <2> DEFINE R == {e \in S \X S : Before(v, e[1], e[2])}
  <2>1. \A x, y \in S : <<x, y>> \in R <=> Before(v, x, y)
    OBVIOUS
  <2> HIDE DEF R
  <2>2. /\ \A x \in S : <<x, x>> \notin R
        /\ \A x, y \in S : x # y => <<x, y>> \in R \/ <<y, x>> \in R
        /\ \A x, y, z \in S : <<x, y>> \in R /\ <<y, z>> \in R => <<x, z>> \in R
    BY <2>1, OrderFacts
  <2>3. \E x \in S : \A y \in S \ {x} : <<x, y>> \in R
    BY <1>1, <2>2, Least
  <2>. QED  BY <2>1, <2>3 DEF Oldest
<1>3. Newest(v, S) # {}
  <2> DEFINE R == {e \in S \X S : Before(v, e[2], e[1])}
  <2>1. \A x, y \in S : <<x, y>> \in R <=> Before(v, y, x)
    OBVIOUS
  <2> HIDE DEF R
  <2>2. /\ \A x \in S : <<x, x>> \notin R
        /\ \A x, y \in S : x # y => <<x, y>> \in R \/ <<y, x>> \in R
        /\ \A x, y, z \in S : <<x, y>> \in R /\ <<y, z>> \in R => <<x, z>> \in R
    BY <2>1, OrderFacts
  <2>3. \E x \in S : \A y \in S \ {x} : <<x, y>> \in R
    BY <1>1, <2>2, Least
  <2>. QED  BY <2>1, <2>3 DEF Newest
<1>. QED  BY <1>2, <1>3

\* The neighbour queries return the adjacent rows.
LEMMA NextQuery ==
  ASSUME NEW v \in VerType, Distinct(v), NEW S \in SUBSET Stored(v),
         NEW m \in Stored(v),
         NEW s \in FirstOf(Oldest(v, {n \in S : Before(v, m, n)}))
  PROVE  IsNext(v, S, m, s)
<1> DEFINE U == {n \in S : Before(v, m, n)}
<1>1. CASE U = {}
  BY <1>1 DEF FirstOf, Oldest, IsNext
<1>2. CASE U # {}
  <2>1. U \in SUBSET Stored(v)
    OBVIOUS
  <2>2. Oldest(v, U) # {}
    BY <1>2, <2>1, QueriesAnswer
  <2>3. s \in Oldest(v, U)
    BY <2>2 DEF FirstOf
  <2>. QED  BY <2>3 DEF Oldest, IsNext
<1>. QED  BY <1>1, <1>2

\* ordered_fact_neighbour with predecessor = true: the row right before, or none.
LEMMA PrevQuery ==
  ASSUME NEW v \in VerType, Distinct(v), NEW S \in SUBSET Stored(v),
         NEW m \in Stored(v),
         NEW p \in FirstOf(Newest(v, {n \in S : Before(v, n, m)}))
  PROVE  IsPrev(v, S, m, p)
<1> DEFINE L == {n \in S : Before(v, n, m)}
<1>1. CASE L = {}
  BY <1>1 DEF FirstOf, Newest, IsPrev
<1>2. CASE L # {}
  <2>1. L \in SUBSET Stored(v)
    OBVIOUS
  <2>2. Newest(v, L) # {}
    BY <1>2, <2>1, QueriesAnswer
  <2>3. p \in Newest(v, L)
    BY <2>2 DEF FirstOf
  <2>. QED  BY <2>3 DEF Newest, IsPrev
<1>. QED  BY <1>1, <1>2
-----------------------------------------------------------------------------
(* One registration keeps the chain.                                       *)

\* What the three UPDATEs write, row by row.
LEMMA LinkedRows ==
  ASSUME NEW v \in VerType, NEW reg \in Registration, reg.mem \in Stored(v),
         NEW p \in OrNone(Stored(v)), NEW s \in OrNone(Stored(v)),
         p # reg.mem, s # reg.mem, p = NoMem \/ p # s,
         NEW u, u = Linked(v, reg, p, s)
  PROVE  /\ Stored(u) = Stored(v)
         /\ \A m \in Stored(v) :
              u[m].ts = v[m].ts /\ u[m].rec = v[m].rec /\ u[m].row = v[m].row
              /\ u[m].obj = v[m].obj
         /\ u[reg.mem].status = IF s = NoMem THEN "current" ELSE "stale"
         /\ u[reg.mem].from = reg.ts
         /\ u[reg.mem].to = IF s = NoMem THEN NoTime ELSE v[s].ts
         /\ u[reg.mem].by = s
         /\ u[reg.mem].prev = p
         /\ \A m \in Stored(v) \ {reg.mem} :
              /\ u[m].from = v[m].from
              /\ u[m].status = IF m = p THEN "stale" ELSE v[m].status
              /\ u[m].to = IF m = p THEN reg.ts ELSE v[m].to
              /\ u[m].by = IF m = p THEN reg.mem ELSE v[m].by
              /\ u[m].prev = IF m = s THEN reg.mem ELSE v[m].prev
<1> DEFINE x == reg.mem
           a == PlaceSelf(v, reg, p, s)
           b == LinkPredecessor(a, reg, p)
<1>1. x \in Memory /\ NoMem \notin Memory /\ p \in OrNone(Memory) /\ s \in OrNone(Memory)
  BY FactChainAssumption DEF Registration, OrNone, Stored
<1>2. \A m \in Stored(v) : m \in Memory /\ v[m] \in Version
  BY DEF Stored, VerType, Rows
<1>3. u \in VerType
  BY LinkedType
<1>4. /\ DOMAIN a = Memory /\ \A m \in Memory \ {x} : a[m] = v[m]
      /\ a[x].ts = v[x].ts /\ a[x].rec = v[x].rec /\ a[x].row = v[x].row
      /\ a[x].obj = v[x].obj
      /\ a[x].status = IF s = NoMem THEN "current" ELSE "stale"
      /\ a[x].from = reg.ts
      /\ a[x].to = IF s = NoMem THEN NoTime ELSE v[s].ts
      /\ a[x].by = s /\ a[x].prev = p
  <2> DEFINE st == IF s = NoMem THEN "current" ELSE "stale"
             t == IF s = NoMem THEN NoTime ELSE v[s].ts
             row == [v[x] EXCEPT !.status = st, !.from = reg.ts, !.to = t,
                                 !.by = s, !.prev = p]
  <2>1. a = [v EXCEPT ![x] = row]
    BY <1>1 DEF PlaceSelf, VerType
  <2>2. v[x] \in Version /\ x \in Memory /\ DOMAIN v = Memory
    BY <1>2 DEF VerType
  <2> HIDE DEF st, t, a
  <2>3. /\ row.ts = v[x].ts /\ row.rec = v[x].rec /\ row.row = v[x].row
        /\ row.obj = v[x].obj /\ row.status = st /\ row.from = reg.ts
        /\ row.to = t /\ row.by = s /\ row.prev = p
    BY <2>2 DEF Version
  <2> HIDE DEF row
  <2>4. a[x] = row /\ DOMAIN a = Memory /\ \A m \in Memory \ {x} : a[m] = v[m]
    BY <2>1, <2>2
  <2>. QED  BY <2>3, <2>4 DEF st, t
<1>5. /\ DOMAIN b = Memory /\ \A m \in Memory \ {p} : b[m] = a[m]
      /\ p # NoMem =>
           /\ b[p].ts = v[p].ts /\ b[p].rec = v[p].rec /\ b[p].row = v[p].row
           /\ b[p].obj = v[p].obj /\ b[p].status = "stale"
           /\ b[p].from = v[p].from /\ b[p].to = reg.ts
           /\ b[p].by = x /\ b[p].prev = v[p].prev
  <2> HIDE DEF a
  <2>1. CASE p = NoMem
    BY <2>1, <1>4 DEF LinkPredecessor
  <2>2. CASE p # NoMem
    <3>1. p \in Memory \ {x} /\ a[p] = v[p] /\ v[p] \in Version
      BY <2>2, <1>1, <1>2, <1>4 DEF OrNone
    <3> DEFINE row == [v[p] EXCEPT !.status = "stale", !.to = reg.ts, !.by = x]
    <3>2. /\ row.ts = v[p].ts /\ row.rec = v[p].rec /\ row.row = v[p].row
          /\ row.obj = v[p].obj /\ row.status = "stale" /\ row.from = v[p].from
          /\ row.to = reg.ts /\ row.by = x /\ row.prev = v[p].prev
      BY <3>1 DEF Version
    <3>3. b = [a EXCEPT ![p] = row]
      BY <2>2, <3>1, <1>4 DEF LinkPredecessor
    <3> HIDE DEF row, b
    <3>. QED  BY <3>1, <3>2, <3>3, <1>4
  <2>. QED  BY <2>1, <2>2
<1>6. /\ DOMAIN u = Memory /\ \A m \in Memory \ {s} : u[m] = b[m]
      /\ s # NoMem =>
           /\ u[s].ts = v[s].ts /\ u[s].rec = v[s].rec /\ u[s].row = v[s].row
           /\ u[s].obj = v[s].obj /\ u[s].status = v[s].status
           /\ u[s].from = v[s].from /\ u[s].to = v[s].to
           /\ u[s].by = v[s].by /\ u[s].prev = x
  <2>0. u = LinkSuccessor(b, reg, s)
    BY DEF Linked
  <2> HIDE DEF a, b
  <2>1. CASE s = NoMem
    BY <2>0, <2>1, <1>1, <1>5 DEF LinkSuccessor
  <2>2. CASE s # NoMem
    <3>1. s \in Memory \ {x, p} /\ b[s] = v[s] /\ v[s] \in Version
      BY <2>2, <1>1, <1>2, <1>4, <1>5 DEF OrNone
    <3> DEFINE row == [v[s] EXCEPT !.prev = x]
    <3>2. /\ row.ts = v[s].ts /\ row.rec = v[s].rec /\ row.row = v[s].row
          /\ row.obj = v[s].obj /\ row.status = v[s].status /\ row.from = v[s].from
          /\ row.to = v[s].to /\ row.by = v[s].by /\ row.prev = x
      BY <3>1 DEF Version
    <3>3. u = [b EXCEPT ![s] = row]
      BY <2>0, <2>2, <3>1, <1>5 DEF LinkSuccessor
    <3> HIDE DEF row
    <3>. QED  BY <3>1, <3>2, <3>3, <1>5
  <2>. QED  BY <2>1, <2>2
<1> HIDE DEF a, b
<1>7. u[x] = a[x]
  BY <1>1, <1>5, <1>6
<1>8. \A m \in Stored(v) \ {x, p, s} : u[m] = v[m]
  BY <1>2, <1>4, <1>5, <1>6
<1>9. p # NoMem => p \in Memory \ {x, s} /\ u[p] = b[p]
  BY <1>1, <1>6 DEF OrNone
<1>10. ASSUME NEW m \in Stored(v)
       PROVE  u[m].ts = v[m].ts /\ u[m].rec = v[m].rec /\ u[m].row = v[m].row
              /\ u[m].obj = v[m].obj
  <2>1. CASE m = x
    BY <2>1, <1>4, <1>7
  <2>2. CASE m = p /\ p # NoMem
    BY <2>2, <1>5, <1>9
  <2>3. CASE m = s /\ s # NoMem
    BY <2>3, <1>6
  <2>4. CASE m \notin {x, p, s}
    BY <2>4, <1>8
  <2>. QED  BY <2>1, <2>2, <2>3, <2>4, <1>1, <1>2
<1>11. Stored(u) = Stored(v)
  <2>1. \A m \in Stored(v) : u[m].row = v[m].row /\ v[m].row \in 1..MaxRow
    BY <1>2, <1>10 DEF Version
  <2>4. \A m \in Stored(v) : m \in Memory /\ u[m] # NoVersion
    BY <2>1, <1>2 DEF NoVersion
  <2>2. \A m \in Memory \ Stored(v) : m \notin {x, p, s}
    BY <1>1 DEF OrNone
  <2>3. \A m \in Memory \ Stored(v) : u[m] = v[m]
    BY <2>2, <1>4, <1>5, <1>6
  <2>. QED  BY <2>3, <2>4 DEF Stored
<1>12. \A m \in Stored(v) \ {x} :
         /\ u[m].from = v[m].from
         /\ u[m].status = IF m = p THEN "stale" ELSE v[m].status
         /\ u[m].to = IF m = p THEN reg.ts ELSE v[m].to
         /\ u[m].by = IF m = p THEN x ELSE v[m].by
         /\ u[m].prev = IF m = s THEN x ELSE v[m].prev
  BY <1>1, <1>2, <1>5, <1>6, <1>8, <1>9
<1>. QED  BY <1>4, <1>7, <1>10, <1>11, <1>12

\* Keys alone decide the order, so UPDATEs that keep them keep the order.
LEMMA SameOrder ==
  ASSUME NEW v, NEW u, NEW S,
         \A m \in S : u[m].ts = v[m].ts /\ u[m].rec = v[m].rec /\ u[m].row = v[m].row
  PROVE  \A m, n \in S : Before(u, m, n) <=> Before(v, m, n)
BY DEF Before

\* Linking a row x between its neighbours p and s, when every other row is
\* placed in the chain with x or in the chain without it.
LEMMA LinkedChain ==
  ASSUME NEW v \in VerType, NEW reg \in Registration, reg.mem \in Stored(v),
         Distinct(v), v[reg.mem].ts = reg.ts,
         NEW p, IsPrev(v, Stored(v), reg.mem, p),
         NEW s, IsNext(v, Stored(v), reg.mem, s),
         \A m \in Stored(v) \ {reg.mem} :
           /\ Placed(v, Stored(v), m) \/ Placed(v, Stored(v) \ {reg.mem}, m)
           /\ Standing(v, m)
  PROVE  Chain(Linked(v, reg, p, s))
<1> DEFINE x == reg.mem
           S == Stored(v)
           u == Linked(v, reg, p, s)
<1>1. /\ \A m \in S : ~Before(v, m, m)
      /\ \A m, n \in S : m # n => Before(v, m, n) \/ Before(v, n, m)
      /\ \A m, n, k \in S : Before(v, m, n) /\ Before(v, n, k) => Before(v, m, k)
  BY OrderFacts
<1>2. x \in S /\ NoMem \notin S
  BY FactChainAssumption DEF Stored
<1>3. /\ p \in OrNone(S) /\ s \in OrNone(S)
      /\ p # x /\ s # x /\ (p = NoMem \/ p # s)
  <2> HIDE DEF S
  <2>. QED  BY <1>1, <1>2 DEF IsPrev, IsNext, OrNone, S
<1>4. /\ Stored(u) = S
      /\ \A m \in S : u[m].ts = v[m].ts /\ u[m].rec = v[m].rec /\ u[m].row = v[m].row
      /\ u[x].status = IF s = NoMem THEN "current" ELSE "stale"
      /\ u[x].from = reg.ts
      /\ u[x].to = IF s = NoMem THEN NoTime ELSE v[s].ts
      /\ u[x].by = s
      /\ u[x].prev = p
      /\ \A m \in S \ {x} :
           /\ u[m].from = v[m].from
           /\ u[m].status = IF m = p THEN "stale" ELSE v[m].status
           /\ u[m].to = IF m = p THEN reg.ts ELSE v[m].to
           /\ u[m].by = IF m = p THEN x ELSE v[m].by
           /\ u[m].prev = IF m = s THEN x ELSE v[m].prev
  BY <1>3, LinkedRows
<1>5. \A m, n \in S : Before(u, m, n) <=> Before(v, m, n)
  BY <1>4, SameOrder
<1>6. Distinct(u)
  BY <1>4 DEF Distinct
<1> HIDE DEF u, S
<1>7. ASSUME NEW m \in S
      PROVE  IsNext(v, S, m, u[m].by) /\ IsPrev(v, S, m, u[m].prev)
  <2>1. CASE m = x
    BY <2>1, <1>4 DEF S
  <2>2. CASE m # x
    <3>1. IsNext(v, S, m, v[m].by) \/ IsNext(v, S \ {x}, m, v[m].by)
      BY <2>2 DEF Placed, S
    <3>2. IsPrev(v, S, m, v[m].prev) \/ IsPrev(v, S \ {x}, m, v[m].prev)
      BY <2>2 DEF Placed, S
    <3>3. IsNext(v, S, m, u[m].by)
      <4>1. IsPrev(v, S, x, p)
        BY DEF S
      <4>2. CASE m = p
        BY <4>1, <4>2, <2>2, <1>1, <1>2, <1>4 DEF IsPrev, IsNext
      <4>3. CASE m # p
        BY <4>1, <4>3, <3>1, <2>2, <1>1, <1>2, <1>4 DEF IsPrev, IsNext
      <4>. QED  BY <4>2, <4>3
    <3>4. IsPrev(v, S, m, u[m].prev)
      <4>1. IsNext(v, S, x, s)
        BY DEF S
      <4>2. CASE m = s
        BY <4>1, <4>2, <2>2, <1>1, <1>2, <1>4 DEF IsPrev, IsNext
      <4>3. CASE m # s
        BY <4>1, <4>3, <3>2, <2>2, <1>1, <1>2, <1>4 DEF IsPrev, IsNext
      <4>. QED  BY <4>2, <4>3
    <3>. QED  BY <3>3, <3>4
  <2>. QED  BY <2>1, <2>2
<1>8. ASSUME NEW m \in S
      PROVE  Placed(u, Stored(u), m)
  <2>1. IsNext(u, S, m, u[m].by)
    BY <1>7, <1>5 DEF IsNext
  <2>2. IsPrev(u, S, m, u[m].prev)
    BY <1>7, <1>5 DEF IsPrev
  <2>. QED  BY <2>1, <2>2, <1>4 DEF Placed
<1>9. ASSUME NEW m \in S
      PROVE  Standing(u, m)
  <2>1. u[m].by \in OrNone(S)
    BY <1>7 DEF IsNext, OrNone
  <2>2. CASE m = x
    BY <2>1, <2>2, <1>2, <1>3, <1>4 DEF Standing, OrNone, S
  <2>3. CASE m = p
    BY <2>1, <2>3, <1>2, <1>3, <1>4 DEF Standing, OrNone, S
  <2>4. CASE m # x /\ m # p
    BY <2>1, <2>4, <1>2, <1>3, <1>4 DEF Standing, OrNone, S
  <2>. QED  BY <2>2, <2>3, <2>4
<1>. QED  BY <1>4, <1>6, <1>8, <1>9 DEF Chain, u

\* The row an INSERT adds (or finds) before it is linked.
LEMMA WithRowChain ==
  ASSUME NEW w \in VerType, Chain(w), NEW reg \in Registration, NEW c \in Clock,
         NEW r \in 1..MaxRow, FreshRow(w, r),
         w[reg.mem] # NoVersion => w[reg.mem].ts = reg.ts,
         NEW v, v = WithRow(w, reg, c, r)
  PROVE  /\ Stored(v) = Stored(w) \cup {reg.mem}
         /\ \A m \in Stored(v) \ {reg.mem} : v[m] = w[m]
         /\ Distinct(v) /\ v[reg.mem].ts = reg.ts
         /\ w[reg.mem] = NoVersion => v[reg.mem].obj = reg.obj
         /\ w[reg.mem] # NoVersion => v = w
         /\ \A m \in Stored(v) \ {reg.mem} :
              /\ Placed(v, Stored(v), m) \/ Placed(v, Stored(v) \ {reg.mem}, m)
              /\ Standing(v, m)
<1> DEFINE x == reg.mem
<1>1. x \in Memory /\ NoMem \notin Memory
  BY FactChainAssumption DEF Registration
<1>2. CASE w[x] # NoVersion
  <2>1. v = w
    BY <1>2 DEF WithRow
  <2>. QED  BY <1>1, <1>2, <2>1 DEF Stored, Chain
<1>3. CASE w[x] = NoVersion
  <2> DEFINE new == [ts |-> reg.ts, rec |-> c, row |-> r, obj |-> reg.obj,
                     status |-> "current", from |-> reg.ts, to |-> NoTime,
                     by |-> NoMem, prev |-> NoMem]
  <2>1. v = [w EXCEPT ![x] = new]
    BY <1>3 DEF WithRow
  <2>2. new # NoVersion /\ new.ts = reg.ts /\ new.obj = reg.obj /\ new.row = r
    BY DEF NoVersion, Registration, Time, NoTime
  <2> HIDE DEF new
  <2>3. v[x] = new /\ \A m \in Memory \ {x} : v[m] = w[m]
    BY <1>1, <2>1 DEF VerType
  <2>4. Stored(v) = Stored(w) \cup {x} /\ x \notin Stored(w)
    BY <1>1, <1>3, <2>2, <2>3 DEF Stored
  <2>5. \A m \in Stored(w) : v[m] = w[m]
    BY <2>3, <2>4 DEF Stored
  <2>6. Distinct(v)
    <3>1. \A m \in Stored(w) : w[m].row \in Int /\ w[m].row < r
      BY DEF FreshRow, VerType, Rows, Version, Stored
    <3>2. \A m, n \in Stored(w) : m # n => w[m].row # w[n].row
      BY DEF Chain, Distinct
    <3> HIDE DEF x
    <3>. QED  BY <3>1, <3>2, <2>2, <2>3, <2>4, <2>5 DEF Distinct
  <2>7. ASSUME NEW m \in Stored(w)
        PROVE  Placed(v, Stored(w), m) /\ Standing(v, m)
    <3>1. Placed(w, Stored(w), m) /\ Standing(w, m)
      BY DEF Chain
    <3>2. \A k, n \in Stored(w) : Before(v, k, n) <=> Before(w, k, n)
      BY <2>5, SameOrder
    <3>3. w[m].by \in OrNone(Stored(w)) /\ v[m] = w[m] /\ NoMem \notin Stored(w)
      BY <3>1, <2>5, <1>1 DEF Placed, IsNext, OrNone, Stored
    <3> HIDE DEF x
    <3>4. Placed(v, Stored(w), m)
      BY <3>1, <3>2, <3>3 DEF Placed, IsNext, IsPrev
    <3>5. Standing(v, m)
      BY <3>1, <3>3, <2>5 DEF Standing, OrNone
    <3>. QED  BY <3>4, <3>5
  <2>8. Stored(v) \ {x} = Stored(w)
    BY <2>4
  <2>. QED  BY <1>3, <2>2, <2>3, <2>4, <2>5, <2>6, <2>7, <2>8
<1>. QED  BY <1>2, <1>3

\* The INSERT branch of register_fact_versions_tx turns a sorted chain into a
\* sorted chain with the registered memory in its place.
LEMMA InsertChain ==
  ASSUME ChainInv, NEW reg \in Registration, Insert(reg),
         work.said[reg.mem] = [ts |-> reg.ts, obj |-> reg.obj]
  PROVE  /\ Chain(work'.ver) /\ Faithful(work')
         /\ work'.said = work.said
<1>1. PICK old \in CurrentVersion(work.ver), r \in 1..MaxRow :
        /\ FreshRow(work.ver, r)
        /\ LET v == WithRow(work.ver, reg, recorded, r)
               c == v[reg.mem].rec
               k == v[reg.mem].row
           IN  \E p \in FirstOf(Newest(v, Lower(v, reg.ts, c, k))),
                  s \in FirstOf(Oldest(v, Upper(v, reg.ts, c, k))) :
                 work' = [work EXCEPT
                      !.ver = Linked(v, reg, p, s),
                      !.evidence = @ \cup {<<reg.mem, reg.mem>>},
                      !.card = CardsAfter(reg, old, s),
                      !.edge = EdgesAfter(reg, old, s)]
  BY ZenonT(60) DEF Insert
<1> DEFINE w == work.ver
           x == reg.mem
           v == WithRow(w, reg, recorded, r)
           c == v[x].rec
           k == v[x].row
<1>2. PICK p \in FirstOf(Newest(v, Lower(v, reg.ts, c, k))),
           s \in FirstOf(Oldest(v, Upper(v, reg.ts, c, k))) :
        work' = [work EXCEPT
             !.ver = Linked(v, reg, p, s),
             !.evidence = @ \cup {<<x, x>>},
             !.card = CardsAfter(reg, old, s),
             !.edge = EdgesAfter(reg, old, s)]
  BY <1>1
<1>3. work \in Tables /\ w \in VerType /\ recorded \in Clock /\ Chain(w) /\ Faithful(work)
  BY DEF ChainInv, TypeOK, Tables, VerType, Rows
<1>4. w[x] # NoVersion => w[x].ts = reg.ts /\ w[x].obj = reg.obj
  <2>1. x \in Memory
    BY DEF Registration
  <2>2. ASSUME w[x] # NoVersion
        PROVE  [ts |-> w[x].ts, obj |-> w[x].obj] = [ts |-> reg.ts, obj |-> reg.obj]
    BY <1>3, <2>1, <2>2 DEF Faithful, Stored
  <2> HIDE DEF w, x
  <2>. QED  BY <2>2
<1>5. FreshRow(w, r)
  BY <1>1
<1>6. /\ Stored(v) = Stored(w) \cup {x}
      /\ \A m \in Stored(v) \ {x} : v[m] = w[m]
      /\ Distinct(v) /\ v[x].ts = reg.ts
      /\ w[x] = NoVersion => v[x].obj = reg.obj
      /\ w[x] # NoVersion => v = w
      /\ \A m \in Stored(v) \ {x} :
           /\ Placed(v, Stored(v), m) \/ Placed(v, Stored(v) \ {x}, m)
           /\ Standing(v, m)
  <2> HIDE DEF w, v
  <2>1. v = WithRow(w, reg, recorded, r)
    BY DEF v
  <2>. QED  BY <1>3, <1>4, <1>5, <2>1, WithRowChain, SMTT(30)
<1>7. v \in VerType /\ x \in Stored(v)
  BY <1>3, WithRowType
<1>8. work'.ver = Linked(v, reg, p, s) /\ work'.said = work.said
  BY <1>2, <1>3 DEF Tables
<1> HIDE DEF v, w
<1>9. /\ Lower(v, reg.ts, c, k) = {n \in Stored(v) : Before(v, n, x)}
      /\ Upper(v, reg.ts, c, k) = {n \in Stored(v) : Before(v, x, n)}
  BY <1>6 DEF Lower, Upper, Before
<1>10. IsPrev(v, Stored(v), x, p) /\ IsNext(v, Stored(v), x, s)
  BY <1>2, <1>6, <1>7, <1>9, NextQuery, PrevQuery
<1>11. Chain(work'.ver)
  BY <1>6, <1>7, <1>8, <1>10, LinkedChain
<1>12. Faithful(work')
  <2>1. \A m \in Stored(v) : work.said[m] = [ts |-> v[m].ts, obj |-> v[m].obj]
    <3>1. work.said[x] = [ts |-> v[x].ts, obj |-> v[x].obj]
      BY <1>4, <1>6
    <3>2. \A m \in Stored(w) : work.said[m] = [ts |-> w[m].ts, obj |-> w[m].obj]
      BY <1>3 DEF Faithful, w
    <3>. QED  BY <3>1, <3>2, <1>6
  <2>2. /\ x \in Stored(v) /\ NoMem \notin Stored(v)
        /\ \A m \in Stored(v) : ~Before(v, m, m)
        /\ \A m, n \in Stored(v) : Before(v, m, n) => ~Before(v, n, m)
    BY <1>6, <1>7, OrderFacts, FactChainAssumption DEF Stored
  <2>3. /\ p \in OrNone(Stored(v)) /\ s \in OrNone(Stored(v))
        /\ p # x /\ s # x /\ (p = NoMem \/ p # s)
    BY <1>10, <2>2 DEF IsPrev, IsNext, OrNone
  <2>4. LET u == Linked(v, reg, p, s)
        IN  /\ Stored(u) = Stored(v)
            /\ \A m \in Stored(v) : u[m].ts = v[m].ts /\ u[m].obj = v[m].obj
    BY <1>7, <2>3, LinkedRows
  <2>. QED  BY <1>8, <2>1, <2>4 DEF Faithful
<1>. QED  BY <1>8, <1>11, <1>12

-----------------------------------------------------------------------------
(* The other steps.                                                        *)

\* The start of commit_ingest does not touch the versions, and what the batch
\* states of stored memories is what they already say.
LEMMA BeginChain ==
  ASSUME ChainInv, MayCorrect = FALSE, Begin
  PROVE  Faithful(work') /\ work'.ver = store.ver /\ BatchSaid' /\ open'
<1>1. PICK n \in 1..MaxBatch, c \in Clock : \E regs \in [1..n -> Registration] :
        /\ \A i, j \in 1..n : regs[i].mem = regs[j].mem => i = j
        /\ \A i \in 1..n : Statable(store.said, regs[i])
        /\ LET ids == {regs[i].mem : i \in 1..n}
               regOf(m) == regs[CHOOSE i \in 1..n : regs[i].mem = m]
           IN  work' = [store EXCEPT
                 !.said = [m \in Memory |->
                    IF m \in ids THEN [ts |-> regOf(m).ts, obj |-> regOf(m).obj]
                    ELSE store.said[m]],
                 !.card = [m \in Memory |->
                    IF m \in ids THEN "latest" ELSE store.card[m]]]
        /\ batch' = regs
  BY Zenon DEF Begin
<1>2. PICK regs \in [1..n -> Registration] :
        /\ \A i, j \in 1..n : regs[i].mem = regs[j].mem => i = j
        /\ \A i \in 1..n : Statable(store.said, regs[i])
        /\ LET ids == {regs[i].mem : i \in 1..n}
               regOf(m) == regs[CHOOSE i \in 1..n : regs[i].mem = m]
           IN  work' = [store EXCEPT
                 !.said = [m \in Memory |->
                    IF m \in ids THEN [ts |-> regOf(m).ts, obj |-> regOf(m).obj]
                    ELSE store.said[m]],
                 !.card = [m \in Memory |->
                    IF m \in ids THEN "latest" ELSE store.card[m]]]
        /\ batch' = regs
  BY <1>1, Zenon
<1> DEFINE ids == {regs[i].mem : i \in 1..n}
           regOf(m) == regs[CHOOSE i \in 1..n : regs[i].mem = m]
<1>3. store \in Tables /\ store.ver \in VerType /\ Faithful(store)
  BY DEF ChainInv, TypeOK, Tables, VerType, Rows
<1>4. work'.ver = store.ver
  BY <1>2, <1>3 DEF Tables
<1>5. \A m \in Memory :
        work'.said[m] = IF m \in ids THEN [ts |-> regOf(m).ts, obj |-> regOf(m).obj]
                                      ELSE store.said[m]
  BY <1>2, <1>3 DEF Tables
<1>6. \A i \in 1..n : regOf(regs[i].mem) = regs[i]
  BY <1>2
<1>7. \A i \in 1..n : regs[i].mem \in Memory /\ regs[i].mem \in ids
  BY DEF Registration
<1> HIDE DEF regOf
<1>8. \A i \in 1..n :
        work'.said[regs[i].mem] = [ts |-> regs[i].ts, obj |-> regs[i].obj]
  BY <1>5, <1>6, <1>7
<1>9. BatchSaid'
  <2>1. batch' = regs /\ Len(batch') = n
    BY <1>2
  <2>. QED  BY <1>8, <2>1 DEF BatchSaid
<1>10. ASSUME NEW m \in Stored(store.ver)
       PROVE  work'.said[m] = store.said[m]
  <2>1. CASE m \notin ids
    BY <2>1, <1>5 DEF Stored
  <2>2. CASE m \in ids
    <3>1. PICK i \in 1..n : m = regs[i].mem
      BY <2>2
    <3>2. store.said[m] # Unsaid
      <4>1. store.said[m] = [ts |-> store.ver[m].ts, obj |-> store.ver[m].obj]
        BY <1>3 DEF Faithful
      <4>2. store.ver[m].ts \in Time
        BY <1>3 DEF VerType, Rows, Version, Stored
      <4>. QED  BY <4>1, <4>2 DEF Unsaid, Time, NoTime
    <3>3. store.said[m] = [ts |-> regs[i].ts, obj |-> regs[i].obj]
      BY <1>2, <3>1, <3>2 DEF Statable
    <3>. QED  BY <3>1, <3>3, <1>8
  <2>. QED  BY <2>1, <2>2
<1>. QED  BY <1>3, <1>4, <1>9, <1>10 DEF Faithful, Begin

\* promote_newest_to_current finds nothing to repair: a chain with a version
\* has a current one, so the commit stores the chain the registrations built.
LEMMA CurrentExists ==
  ASSUME NEW v \in VerType, Chain(v), Stored(v) # {}
  PROVE  CurrentRows(v) = Newest(v, Stored(v)) /\ CurrentRows(v) # {}
<1>1. /\ \A m \in Stored(v) : ~Before(v, m, m)
      /\ \A m, n \in Stored(v) : m # n => Before(v, m, n) \/ Before(v, n, m)
      /\ \A m, n, k \in Stored(v) : Before(v, m, n) /\ Before(v, n, k) => Before(v, m, k)
  BY OrderFacts DEF Chain
<1>2. NoMem \notin Stored(v)
  BY FactChainAssumption DEF Stored
<1>3. CurrentRows(v) = {m \in Stored(v) : v[m].status = "current"}
  BY DEF CurrentRows, Stored, NoVersion
<1>4. \A m \in Stored(v) :
        v[m].status = "current" <=> \A n \in Stored(v) : ~Before(v, m, n)
  BY <1>2 DEF Chain, Standing, Placed, IsNext
<1>5. CurrentRows(v) = Newest(v, Stored(v))
  BY <1>1, <1>3, <1>4 DEF Newest
<1>6. Newest(v, Stored(v)) # {}
  BY QueriesAnswer DEF Chain
<1>. QED  BY <1>5, <1>6

\* The end of register_fact_versions_tx stores the chain as it stands: the
\* promote repair has no effect.
LEMMA CommitChain ==
  ASSUME ChainInv, Commit
  PROVE  work' = work /\ store' = work
<1>1. PICK n \in FirstOf(Newest(work.ver, Stored(work.ver))) :
        LET settled == IF deferred # {} /\ CurrentRows(work.ver) = {}
                       THEN [work EXCEPT !.ver = Promoted(@, n)] ELSE work
        IN  work' = settled /\ store' = settled
  BY DEF Commit
<1>2. work \in Tables /\ work.ver \in VerType /\ Chain(work.ver)
  BY DEF ChainInv, TypeOK, Tables, VerType, Rows
<1>3. CASE Stored(work.ver) # {}
  BY <1>1, <1>2, <1>3, CurrentExists
<1>4. CASE Stored(work.ver) = {}
  <2>1. n = NoMem
    BY <1>1, <1>4 DEF FirstOf, Newest
  <2>2. Promoted(work.ver, n) = work.ver
    BY <2>1, <1>2, FactChainAssumption DEF Promoted, VerType
  <2>3. [work EXCEPT !.ver = Promoted(@, n)] = work
    BY <2>2, <1>2 DEF Tables
  <2>. QED  BY <1>1, <2>3
<1>. QED  BY <1>3, <1>4

\* The sweep of rebuild_fact_chain_after_delete over the remaining rows.
LEMMA RebuiltChain ==
  ASSUME NEW v \in VerType, Distinct(v), NEW keep \in SUBSET Stored(v),
         NEW u, u = Rebuilt(v, keep)
  PROVE  /\ Chain(u) /\ Stored(u) = keep
         /\ \A m \in keep : u[m].ts = v[m].ts /\ u[m].obj = v[m].obj
<1> DEFINE next(m) == The(Next1(v, keep, m))
           prev(m) == The(Prev1(v, keep, m))
<1>1. \A m \in keep : m \in Memory /\ v[m] \in Version
  BY DEF Stored, VerType, Rows
<1>2. ASSUME NEW m \in keep
      PROVE  IsNext(v, keep, m, next(m)) /\ IsPrev(v, keep, m, prev(m))
  <2>1. next(m) \in Next1(v, keep, m) /\ prev(m) \in Prev1(v, keep, m)
    BY DEF The, Next1, Prev1, FirstOf
  <2>. QED  BY <2>1, NextQuery, PrevQuery DEF Next1, Prev1
<1> HIDE DEF next, prev
<1>3. ASSUME NEW m \in keep
      PROVE  /\ u[m].ts = v[m].ts /\ u[m].rec = v[m].rec /\ u[m].row = v[m].row
             /\ u[m].obj = v[m].obj
             /\ u[m].by = next(m) /\ u[m].prev = prev(m) /\ u[m].from = v[m].ts
             /\ u[m].status = IF next(m) = NoMem THEN "current" ELSE "stale"
             /\ u[m].to = IF next(m) = NoMem THEN NoTime ELSE v[next(m)].ts
  <2> DEFINE st == IF next(m) = NoMem THEN "current" ELSE "stale"
             t == IF next(m) = NoMem THEN NoTime ELSE v[next(m)].ts
  <2>1. u[m] = [v[m] EXCEPT !.status = st, !.from = v[m].ts, !.to = t,
                            !.by = next(m), !.prev = prev(m)]
    BY <1>1 DEF Rebuilt, next, prev
  <2> HIDE DEF st, t
  <2>2. /\ u[m].ts = v[m].ts /\ u[m].rec = v[m].rec /\ u[m].row = v[m].row
        /\ u[m].obj = v[m].obj /\ u[m].by = next(m) /\ u[m].prev = prev(m)
        /\ u[m].from = v[m].ts /\ u[m].status = st /\ u[m].to = t
    BY <1>1, <2>1 DEF Version
  <2>. QED  BY <2>2 DEF st, t
<1>4. Stored(u) = keep
  <2>1. \A m \in keep : u[m].row \in 1..MaxRow
    BY <1>1, <1>3 DEF Version
  <2>2. \A m \in keep : m \in Memory /\ u[m] # NoVersion
    BY <1>1, <2>1 DEF NoVersion
  <2>3. \A m \in Memory \ keep : u[m] = NoVersion
    BY DEF Rebuilt
  <2>. QED  BY <2>2, <2>3 DEF Stored
<1>5. \A m, n \in keep : Before(u, m, n) <=> Before(v, m, n)
  BY <1>3, SameOrder
<1>6. Distinct(u)
  BY <1>3, <1>4 DEF Distinct
<1>7. ASSUME NEW m \in keep
      PROVE  Placed(u, keep, m) /\ Standing(u, m)
  <2>1. IsNext(u, keep, m, u[m].by) /\ IsPrev(u, keep, m, u[m].prev)
    BY <1>2, <1>3, <1>5 DEF IsNext, IsPrev
  <2>2. next(m) = NoMem \/ next(m) \in keep
    BY <1>2 DEF IsNext
  <2>. QED  BY <2>1, <2>2, <1>3 DEF Placed, Standing
<1>. QED  BY <1>3, <1>4, <1>6, <1>7 DEF Chain

\* delete_observation leaves a sorted chain of the versions that remain.
LEMMA DeleteChain ==
  ASSUME ChainInv, NEW m \in Memory, Delete(m)
  PROVE  /\ Chain(store'.ver) /\ Faithful(store') /\ work' = store'
         /\ batch' = batch /\ ~open
<1> DEFINE D == {m} \cup Derived[m]
           touched == Stored(store.ver) \cap D # {}
           v == IF touched THEN Rebuilt(store.ver, Stored(store.ver) \ D)
                           ELSE store.ver
<1>1. store.ver \in VerType /\ Chain(store.ver) /\ Faithful(store)
  BY DEF ChainInv, TypeOK, Tables, VerType, Rows
<1>2. /\ store'.ver = v
      /\ store'.said = [n \in Memory |-> IF n \in D THEN Unsaid ELSE store.said[n]]
      /\ work' = store' /\ batch' = batch /\ ~open
  BY DEF Delete
<1>3. /\ Chain(v) /\ Stored(v) \subseteq Stored(store.ver) \ D
      /\ \A n \in Stored(v) : v[n].ts = store.ver[n].ts /\ v[n].obj = store.ver[n].obj
  <2>1. CASE touched
    <3> DEFINE keep == Stored(store.ver) \ D
    <3>1. keep \in SUBSET Stored(store.ver) /\ Distinct(store.ver)
      BY <1>1 DEF Chain
    <3>2. v = Rebuilt(store.ver, keep)
      BY <2>1
    <3> HIDE DEF v, keep
    <3>3. Chain(v) /\ Stored(v) = keep
          /\ \A n \in keep : v[n].ts = store.ver[n].ts /\ v[n].obj = store.ver[n].obj
      BY <1>1, <3>1, <3>2, RebuiltChain
    <3>. QED  BY <3>3 DEF keep
  <2>2. CASE ~touched
    BY <1>1, <2>2
  <2>. QED  BY <2>1, <2>2
<1> HIDE DEF v
<1>4. Faithful(store')
  <2>1. \A n \in Stored(v) : n \in Memory /\ store'.said[n] = store.said[n]
    BY <1>2, <1>3 DEF Stored
  <2>. QED  BY <1>1, <1>2, <1>3, <2>1 DEF Faithful
<1>. QED  BY <1>2, <1>3, <1>4

\* An empty table is a sorted chain.
LEMMA ChainInit == Init => ChainInv
<1> SUFFICES ASSUME Init PROVE ChainInv
  OBVIOUS
<1>1. TypeOK
  BY TypeInit
<1>2. Stored(store.ver) = {} /\ Stored(work.ver) = {}
  BY DEF Init, EmptyTables, Stored
<1>3. BatchSaid
  BY DEF Init, BatchSaid
<1>4. batch = <<>>
  BY DEF Init
<1>. QED  BY <1>1, <1>2, <1>3, <1>4 DEF ChainInv, Chain, Distinct, Faithful

\* Every step of the batch, the transaction or a deletion keeps the chain.
LEMMA ChainStep ==
  ASSUME MayCorrect = FALSE
  PROVE  ChainInv /\ [Next]_vars => ChainInv'
<1> SUFFICES ASSUME ChainInv, [Next]_vars PROVE ChainInv'
  OBVIOUS
<1>1. TypeOK'
  BY TypeStep DEF ChainInv
<1>2. CASE Begin
  <2>1. Faithful(work') /\ work'.ver = store.ver /\ BatchSaid' /\ store' = store /\ open'
    BY <1>2, BeginChain, Zenon DEF Begin
  <2>. QED  BY <1>1, <2>1 DEF ChainInv
<1>3. CASE Register
  <2>1. batch \in Seq(Registration) /\ batch # <<>> /\ batch' = Tail(batch)
        /\ store' = store /\ open'
    BY <1>3 DEF Register, ChainInv, TypeOK
  <2>2. /\ Head(batch) \in Registration
        /\ work.said[Head(batch).mem] = [ts |-> Head(batch).ts, obj |-> Head(batch).obj]
    BY <2>1 DEF ChainInv, BatchSaid
  <2>3. CASE Confirm(Head(batch))
    <3>1. work'.ver = work.ver /\ work'.said = work.said
      BY <2>3 DEF Confirm, ChainInv, TypeOK, Tables
    <3>2. BatchSaid'
      <4>1. \A i \in 1..Len(batch') : i + 1 \in 1..Len(batch) /\ batch'[i] = batch[i + 1]
        BY <2>1
      <4>. QED  BY <3>1, <4>1 DEF ChainInv, BatchSaid
    <3>. QED  BY <1>1, <2>1, <3>1, <3>2 DEF ChainInv, Faithful
  <2>4. CASE Insert(Head(batch))
    <3>1. Chain(work'.ver) /\ Faithful(work') /\ work'.said = work.said
      BY <2>2, <2>4, InsertChain
    <3>2. BatchSaid'
      <4>1. \A i \in 1..Len(batch') : i + 1 \in 1..Len(batch) /\ batch'[i] = batch[i + 1]
        BY <2>1
      <4>. QED  BY <3>1, <4>1 DEF ChainInv, BatchSaid
    <3>. QED  BY <1>1, <2>1, <3>1, <3>2 DEF ChainInv
  <2>. QED  BY <1>3, <2>3, <2>4 DEF Register
<1>4. CASE Commit
  <2>1. work' = work /\ store' = work /\ batch' = batch /\ batch = <<>>
    BY <1>4, CommitChain DEF Commit
  <2>. QED  BY <1>1, <2>1 DEF ChainInv, BatchSaid
<1>5. CASE Abort
  <2>1. work' = store /\ store' = store /\ batch' = <<>>
    BY <1>5 DEF Abort
  <2>2. BatchSaid'
    BY <2>1 DEF BatchSaid
  <2>. QED  BY <1>1, <2>1, <2>2 DEF ChainInv
<1>6. CASE \E m \in Memory : Delete(m)
  <2>1. Chain(store'.ver) /\ Faithful(store') /\ work' = store' /\ batch' = batch /\ ~open
    BY <1>6, DeleteChain
  <2>2. batch' = <<>>
    <3>1. ~open => batch = <<>>
      BY DEF ChainInv
    <3>2. ~open /\ batch' = batch
      BY <2>1
    <3>. QED  BY <3>1, <3>2
  <2>3. BatchSaid'
    BY <2>2 DEF BatchSaid
  <2>. QED  BY <1>1, <2>1, <2>2, <2>3 DEF ChainInv
<1>7. CASE UNCHANGED vars
  BY <1>7 DEF vars, ChainInv, TypeOK, BatchSaid
<1>. QED  BY <1>2, <1>3, <1>4, <1>5, <1>6, <1>7 DEF Next

\* Every committed and every open state of the tables holds a sound chain.
THEOREM ChainInvariant ==
  ASSUME MayCorrect = FALSE
  PROVE  Spec => []ChainInv
BY ChainInit, ChainStep, PTL DEF Spec

-----------------------------------------------------------------------------
(* What the invariant says of the committed tables.                        *)

\* A chain with a version has one current version, the newest one: whatever
\* the order of registrations, retries, equal timestamps and deletions.
THEOREM OneCurrentAlways ==
  ASSUME MayCorrect = FALSE
  PROVE  Spec => []OneCurrent
<1>1. ChainInv => OneCurrent
  BY CurrentExists DEF ChainInv, TypeOK, Tables, VerType, Rows, OneCurrent, HeadIsCurrent
<1>. QED  BY <1>1, ChainInvariant, PTL

\* superseded_by and supersedes link exactly the neighbours of the order, and
\* a version ends where the next begins.
LEMMA ChainLinks ==
  ASSUME NEW v \in VerType, Chain(v)
  PROVE  LinksAreAdjacent(v)
<1>1. /\ \A m \in Stored(v) : ~Before(v, m, m)
      /\ \A m, n \in Stored(v) : m # n => Before(v, m, n) \/ Before(v, n, m)
      /\ \A m, n, k \in Stored(v) : Before(v, m, n) /\ Before(v, n, k) => Before(v, m, k)
  BY OrderFacts DEF Chain
<1>2. NoMem \notin Stored(v)
  BY FactChainAssumption DEF Stored
<1>3. \A m, n \in Stored(v) : v[m].by = n <=> Adjacent(v, m, n)
  BY <1>1, <1>2 DEF Chain, Placed, IsNext, Adjacent
<1>4. \A m, n \in Stored(v) : v[n].prev = m <=> Adjacent(v, m, n)
  BY <1>1, <1>2 DEF Chain, Placed, IsPrev, Adjacent
<1>5. \A m, n \in Stored(v) : v[m].by = n => v[m].to = v[n].from
  BY <1>2 DEF Chain, Standing
<1>. QED  BY <1>3, <1>4, <1>5 DEF LinksAreAdjacent

\* The pointers and intervals of the committed fact_versions rows always agree
\* with the order of the chain.
THEOREM ChainLinkedAlways ==
  ASSUME MayCorrect = FALSE
  PROVE  Spec => []ChainLinked
<1>1. ChainInv => ChainLinked
  BY ChainLinks DEF ChainInv, TypeOK, Tables, VerType, Rows, ChainLinked
<1>. QED  BY <1>1, ChainInvariant, PTL

\* A lookup as of time t sees the version that was newest at t and no other.
LEMMA ChainValid ==
  ASSUME NEW v \in VerType, Chain(v), NEW t \in Time
  PROVE  ValidAt(v, t) = Newest(v, {m \in Stored(v) : v[m].ts <= t})
<1>1. /\ \A m \in Stored(v) : ~Before(v, m, m)
      /\ \A m, n \in Stored(v) : m # n => Before(v, m, n) \/ Before(v, n, m)
      /\ \A m, n, k \in Stored(v) : Before(v, m, n) /\ Before(v, n, k) => Before(v, m, k)
  BY OrderFacts DEF Chain
<1>2. NoMem \notin Stored(v)
  BY FactChainAssumption DEF Stored
<1>3. \A m \in Stored(v) : v[m].ts \in Int /\ v[m].ts >= 0 /\ v[m].from = v[m].ts
  <2>1. \A m \in Stored(v) : v[m].ts \in Time
    BY DEF VerType, Rows, Version, Stored
  <2>2. \A m \in Stored(v) : v[m].from = v[m].ts
    BY DEF Chain, Standing
  <2>. QED  BY <2>1, <2>2 DEF Time
<1>4. \A m, n \in Stored(v) : Before(v, m, n) => v[m].ts <= v[n].ts
  BY <1>3 DEF Before, KeyBefore
<1>5. t \in Int
  BY DEF Time
<1> DEFINE U == {m \in Stored(v) : v[m].ts <= t}
<1>6. ASSUME NEW m \in Stored(v)
      PROVE  m \in ValidAt(v, t) <=> m \in Newest(v, U)
  <2>1. CASE v[m].by = NoMem
    <3>1. v[m].to = NoTime /\ \A n \in Stored(v) : ~Before(v, m, n)
      BY <2>1, <1>2 DEF Chain, Standing, Placed, IsNext
    <3>2. m \in ValidAt(v, t) <=> m \in U
      BY <3>1, <1>3 DEF ValidAt
    <3>. QED  BY <3>1, <3>2, <1>1 DEF Newest
  <2>2. CASE v[m].by # NoMem
    <3> DEFINE n == v[m].by
    <3>1. /\ n \in Stored(v) /\ Before(v, m, n) /\ v[m].to = v[n].ts
          /\ \A k \in Stored(v) : Before(v, m, k) => k = n \/ Before(v, n, k)
      BY <2>2 DEF Chain, Standing, Placed, IsNext
    <3> HIDE DEF n
    <3>2. v[m].to # NoTime
      BY <3>1, <1>3 DEF NoTime
    <3>3. m \in ValidAt(v, t) <=> m \in U /\ ~(v[n].ts <= t)
      BY <3>1, <3>2, <1>3 DEF ValidAt
    <3>4. CASE v[n].ts <= t
      <4>1. n \in U /\ n # m /\ ~Before(v, n, m)
        BY <3>1, <3>4, <1>1
      <4>. QED  BY <4>1, <3>3, <3>4 DEF Newest
    <3>5. CASE ~(v[n].ts <= t)
      <4>1. \A k \in Stored(v) : Before(v, m, k) => k \notin U
        BY <3>1, <3>5, <1>3, <1>4, <1>5
      <4>. QED  BY <4>1, <3>3, <3>5, <1>1 DEF Newest
    <3>. QED  BY <3>4, <3>5
  <2>. QED  BY <2>1, <2>2
<1>. QED  BY <1>6 DEF ValidAt, Newest

\* invalidated_set_at_time always leaves exactly the version that was newest at
\* the time asked about.
THEOREM OneValueAlways ==
  ASSUME MayCorrect = FALSE
  PROVE  Spec => []OneValueAtEveryTime
<1>1. ChainInv => OneValueAtEveryTime
  BY ChainValid DEF ChainInv, TypeOK, Tables, VerType, Rows, OneValueAtEveryTime
<1>. QED  BY <1>1, ChainInvariant, PTL

-----------------------------------------------------------------------------
(* What the rest of the tables says of a chain: the inductive invariant.   *)

\* Evidence joins live rows that state the same value (EvidenceSupports).
EvidenceFits(t) ==
  /\ \A e \in t.evidence :
       /\ e[1] \in Stored(t.ver)
       /\ t.said[e[2]] # Unsaid
       /\ t.said[e[2]].obj = t.ver[e[1]].obj
  /\ \A m \in Stored(t.ver) : <<m, m>> \in t.evidence

\* Every version has an edge, with its standing.  That it has one is what keeps
\* a later restatement, which adds missing edges as current, away from it.
EdgesFit(t) ==
  (\A m \in Stored(t.ver) : t.ver[m].obj # Blank) =>
    \A m \in Stored(t.ver) :
      t.edge[m] # NoEdge /\ t.edge[m].status = t.ver[m].status

\* A row that is stored keeps its place in the order.
KeyKept(v, u, m) ==
  u[m].ts = v[m].ts /\ u[m].rec = v[m].rec /\ u[m].row = v[m].row

\* A transaction loses no version, and moves none.
OnlyGrows ==
  \A m \in Stored(store.ver) : m \in Stored(work.ver) /\ KeyKept(store.ver, work.ver, m)

\* The version that was current is demoted together with its card.
DemotedCards ==
  \A m \in CurrentRows(store.ver) :
    work.ver[m].status = "stale" => work.card[m] # "latest"

StandingInv ==
  /\ ChainInv
  /\ EvidenceFits(store) /\ EvidenceFits(work)
  /\ EdgesFit(store) /\ EdgesFit(work)
  /\ OnlyGrows
  /\ DemotedCards
  /\ ~open => work = store

-----------------------------------------------------------------------------
(* One registration.                                                       *)

\* What the INSERT branch of register_fact_versions_tx does to the tables: the
\* only version whose standing changes, other than the registered one, is the
\* one that was current, and only when the registered one becomes current.
InsertEffect(reg, old, s) ==
  /\ Stored(work'.ver) = Stored(work.ver) \cup {reg.mem}
  /\ \A m \in Stored(work.ver) :
       KeyKept(work.ver, work'.ver, m) /\ work'.ver[m].obj = work.ver[m].obj
  /\ work'.ver[reg.mem].obj = reg.obj
  /\ work'.ver[reg.mem].status = IF s = NoMem THEN "current" ELSE "stale"
  /\ \A m \in Stored(work.ver) \ {reg.mem} :
       work'.ver[m].status = IF s = NoMem /\ m = old THEN "stale" ELSE work.ver[m].status
  /\ work'.said = work.said
  /\ work'.evidence = work.evidence \cup {<<reg.mem, reg.mem>>}
  /\ work'.card = CardsAfter(reg, old, s)
  /\ work'.edge = EdgesAfter(reg, old, s)

\* m is the last row of S, or NULL when there is none.
IsLast(v, S, m) ==
  \/ m = NoMem /\ S = {}
  \/ m # NoMem /\ m \in S /\ \A n \in S \ {m} : Before(v, n, m)

\* The version asked for as the current one is the last of the chain, if any.
LEMMA CurrentIsLast ==
  ASSUME NEW v \in VerType, Chain(v), NEW old \in CurrentVersion(v)
  PROVE  IsLast(v, Stored(v), old)
<1>1. CASE Stored(v) = {}
  <2>1. CurrentRows(v) = {}
    BY <1>1 DEF CurrentRows, Stored, NoVersion
  <2>. QED  BY <1>1, <2>1 DEF CurrentVersion, Newest, FirstOf, IsLast
<1>2. CASE Stored(v) # {}
  <2> DEFINE last == Newest(v, Stored(v))
  <2>1. CurrentRows(v) = last /\ last # {}
    BY <1>2, CurrentExists
  <2>2. last \subseteq Stored(v)
        /\ \A m \in last : \A n \in Stored(v) \ {m} : Before(v, n, m)
    BY DEF Newest
  <2>3. /\ \A m \in Stored(v) : ~Before(v, m, m)
        /\ \A m, n, k \in Stored(v) : Before(v, m, n) /\ Before(v, n, k) => Before(v, m, k)
    BY OrderFacts DEF Chain
  <2> HIDE DEF last
  <2>4. Newest(v, last) \subseteq last /\ Newest(v, last) # {}
    BY <2>1, <2>2, QueriesAnswer DEF Newest, Chain
  <2>5. old \in last
    BY <2>1, <2>4 DEF CurrentVersion, FirstOf
  <2>6. NoMem \notin Stored(v)
    BY FactChainAssumption DEF Stored
  <2>. QED  BY <1>2, <2>2, <2>5, <2>6 DEF IsLast
<1>. QED  BY <1>1, <1>2

\* The neighbours found for the registered row x of a table v that was a chain
\* before x was added: a predecessor that is demoted was the last version.
LEMMA OnlyLastIsDemoted ==
  ASSUME NEW v \in VerType, Distinct(v), NEW x \in Stored(v),
         NEW W \in SUBSET Stored(v), Stored(v) = W \cup {x},
         NEW old, IsLast(v, W, old),
         NEW p, IsPrev(v, Stored(v), x, p),
         NEW s, IsNext(v, Stored(v), x, s),
         NEW m \in W, m # x
  PROVE  /\ s = NoMem /\ m = old => m = p
         /\ m = p /\ m = old => s = NoMem
<1>1. /\ \A k \in Stored(v) : ~Before(v, k, k)
      /\ \A k, n \in Stored(v) : k # n => Before(v, k, n) \/ Before(v, n, k)
      /\ \A k, n, l \in Stored(v) : Before(v, k, n) /\ Before(v, n, l) => Before(v, k, l)
  BY OrderFacts
<1>2. NoMem \notin Stored(v)
  BY FactChainAssumption DEF Stored
<1>3. ASSUME s = NoMem, m = old
      PROVE  m = p
  <2>1. Before(v, m, x)
    BY <1>1, <1>2, <1>3 DEF IsNext
  <2>2. p \in Stored(v) /\ Before(v, p, x) /\ (m = p \/ Before(v, m, p))
    BY <2>1 DEF IsPrev
  <2>. QED  BY <1>1, <1>2, <1>3, <2>2 DEF IsLast
<1>4. ASSUME m = p, m = old
      PROVE  s = NoMem
  <2>1. Before(v, m, x)
    BY <1>2, <1>4 DEF IsPrev
  <2>2. s # NoMem => s \in W \ {x} /\ Before(v, x, s)
    BY <1>1 DEF IsNext
  <2>. QED  BY <1>1, <1>2, <1>4, <2>1, <2>2 DEF IsLast
<1>. QED  BY <1>3, <1>4

\* The INSERT branch has the effect described, whatever neighbours it finds.
LEMMA InsertEffects ==
  ASSUME ChainInv, NEW reg \in Registration, Insert(reg),
         work.said[reg.mem] = [ts |-> reg.ts, obj |-> reg.obj]
  PROVE  \E old \in CurrentVersion(work.ver), s \in OrNone(Memory) :
           InsertEffect(reg, old, s)
<1>1. PICK old \in CurrentVersion(work.ver), r \in 1..MaxRow :
        /\ FreshRow(work.ver, r)
        /\ LET v == WithRow(work.ver, reg, recorded, r)
               c == v[reg.mem].rec
               k == v[reg.mem].row
           IN  \E p \in FirstOf(Newest(v, Lower(v, reg.ts, c, k))),
                  s \in FirstOf(Oldest(v, Upper(v, reg.ts, c, k))) :
                 work' = [work EXCEPT
                      !.ver = Linked(v, reg, p, s),
                      !.evidence = @ \cup {<<reg.mem, reg.mem>>},
                      !.card = CardsAfter(reg, old, s),
                      !.edge = EdgesAfter(reg, old, s)]
  BY DEF Insert
<1> DEFINE w == work.ver
           x == reg.mem
           v == WithRow(w, reg, recorded, r)
           c == v[x].rec
           k == v[x].row
<1>2. PICK p \in FirstOf(Newest(v, Lower(v, reg.ts, c, k))),
           s \in FirstOf(Oldest(v, Upper(v, reg.ts, c, k))) :
        work' = [work EXCEPT
             !.ver = Linked(v, reg, p, s),
             !.evidence = @ \cup {<<x, x>>},
             !.card = CardsAfter(reg, old, s),
             !.edge = EdgesAfter(reg, old, s)]
  BY <1>1
<1>3. work \in Tables /\ w \in VerType /\ recorded \in Clock /\ Chain(w) /\ Faithful(work)
  BY DEF ChainInv, TypeOK, Tables, VerType, Rows
<1>4. w[x] # NoVersion => w[x].ts = reg.ts /\ w[x].obj = reg.obj
  <2>1. x \in Memory
    BY DEF Registration
  <2>2. ASSUME w[x] # NoVersion
        PROVE  [ts |-> w[x].ts, obj |-> w[x].obj] = [ts |-> reg.ts, obj |-> reg.obj]
    BY <1>3, <2>1, <2>2 DEF Faithful, Stored
  <2> HIDE DEF w, x
  <2>. QED  BY <2>2
<1>5. FreshRow(w, r)
  BY <1>1
<1>6. /\ Stored(v) = Stored(w) \cup {x}
      /\ \A m \in Stored(v) \ {x} : v[m] = w[m]
      /\ Distinct(v) /\ v[x].ts = reg.ts
      /\ w[x] = NoVersion => v[x].obj = reg.obj
      /\ w[x] # NoVersion => v = w
      /\ \A m \in Stored(v) \ {x} :
           /\ Placed(v, Stored(v), m) \/ Placed(v, Stored(v) \ {x}, m)
           /\ Standing(v, m)
  <2> HIDE DEF w, v
  <2>1. v = WithRow(w, reg, recorded, r)
    BY DEF v
  <2>. QED  BY <1>3, <1>4, <1>5, <2>1, WithRowChain
<1>7. v \in VerType /\ x \in Stored(v)
  BY <1>3, WithRowType
<1>8. /\ work'.ver = Linked(v, reg, p, s) /\ work'.said = work.said
      /\ work'.evidence = work.evidence \cup {<<x, x>>}
      /\ work'.card = CardsAfter(reg, old, s) /\ work'.edge = EdgesAfter(reg, old, s)
  BY <1>2, <1>3 DEF Tables
<1>9. old \in CurrentVersion(w)
  OBVIOUS
<1> HIDE DEF v, w
<1>10. /\ Lower(v, reg.ts, c, k) = {n \in Stored(v) : Before(v, n, x)}
       /\ Upper(v, reg.ts, c, k) = {n \in Stored(v) : Before(v, x, n)}
  BY <1>6 DEF Lower, Upper, Before
<1>11. IsPrev(v, Stored(v), x, p) /\ IsNext(v, Stored(v), x, s)
  BY <1>2, <1>6, <1>7, <1>10, NextQuery, PrevQuery
<1>12. /\ x \in Stored(v) /\ NoMem \notin Stored(v) /\ Stored(v) \subseteq Memory
       /\ \A m \in Stored(v) : ~Before(v, m, m)
       /\ \A m, n \in Stored(v) : Before(v, m, n) => ~Before(v, n, m)
  BY <1>6, <1>7, OrderFacts, FactChainAssumption DEF Stored
<1>13. /\ p \in OrNone(Stored(v)) /\ s \in OrNone(Stored(v))
       /\ p # x /\ s # x /\ (p = NoMem \/ p # s)
  BY <1>11, <1>12 DEF IsPrev, IsNext, OrNone
<1> DEFINE u == Linked(v, reg, p, s)
<1>14. /\ Stored(u) = Stored(v)
       /\ \A m \in Stored(v) :
            u[m].ts = v[m].ts /\ u[m].rec = v[m].rec /\ u[m].row = v[m].row
            /\ u[m].obj = v[m].obj
       /\ u[x].status = IF s = NoMem THEN "current" ELSE "stale"
       /\ \A m \in Stored(v) \ {x} :
            u[m].status = IF m = p THEN "stale" ELSE v[m].status
  BY <1>7, <1>13, LinkedRows
<1>15. work'.ver = u
  BY <1>8
<1> HIDE DEF u
<1>16. \A m \in Stored(w) : v[m] = w[m]
  <2>1. x \in Stored(w) => w[x] # NoVersion
    BY DEF Stored
  <2>. QED  BY <1>6, <2>1
<1>17. u[x].obj = reg.obj
  BY <1>4, <1>6, <1>14, <1>12
<1>18. ASSUME NEW m \in Stored(w) \ {x}
       PROVE  u[m].status = IF s = NoMem /\ m = old THEN "stale" ELSE w[m].status
  <2>1. IsLast(w, Stored(w), old)
    BY <1>3, <1>9, CurrentIsLast
  <2>2. IsLast(v, Stored(w), old)
    BY <2>1, <1>16 DEF IsLast, Before
  <2>3. /\ s = NoMem /\ m = old => m = p
        /\ m = p /\ m = old => s = NoMem
    <3> DEFINE W == Stored(w)
    <3>1. W \in SUBSET Stored(v) /\ Stored(v) = W \cup {x} /\ m \in W /\ m # x
      BY <1>6
    <3>2. Distinct(v)
      BY <1>6
    <3>3. IsLast(v, W, old)
      BY <2>2
    <3> HIDE DEF W, x
    <3>. QED  BY <3>1, <3>2, <3>3, <1>7, <1>11, OnlyLastIsDemoted, SMTT(30)
  <2>4. u[m].status = IF m = p THEN "stale" ELSE w[m].status
    BY <1>6, <1>14, <1>16
  <2>5. CASE m = p /\ ~(s = NoMem /\ m = old)
    <3>1. \E n \in Stored(w) : Before(w, m, n)
      <4>1. CASE m # old
        BY <2>1, <4>1 DEF IsLast
      <4>2. CASE m = old
        BY <2>3, <2>5, <4>2
      <4>. QED  BY <4>1, <4>2
    <3>2. w[m].status = "stale"
      BY <3>1, <1>3, <1>6, <1>12 DEF Chain, Placed, IsNext, Standing
    <3>. QED  BY <2>4, <2>5, <3>2
  <2>6. CASE m # p
    BY <2>3, <2>4, <2>6
  <2>7. CASE m = p /\ s = NoMem /\ m = old
    BY <2>4, <2>7
  <2>. QED  BY <2>5, <2>6, <2>7
<1>19. InsertEffect(reg, old, s)
  BY <1>6, <1>8, <1>14, <1>15, <1>16, <1>17, <1>18 DEF InsertEffect, KeyKept, w
<1>. QED  BY <1>13, <1>19, <1>12 DEF OrNone

\* Types of the parts of the tables the following lemmas read.
LEMMA TableTypes ==
  ASSUME NEW t \in Tables
  PROVE  /\ t.said \in [Memory -> Statement \cup {Unsaid}] /\ t.ver \in VerType
         /\ t.evidence \in SUBSET (Memory \X Memory)
         /\ t.card \in [Memory -> {"none", "latest", "old"}]
         /\ t.edge \in [Memory -> Edge \cup {NoEdge}]
         /\ Stored(t.ver) \subseteq Memory
         /\ \A m \in Stored(t.ver) :
              /\ t.ver[m] \in Version /\ t.ver[m].status \in {"current", "stale"}
              /\ t.ver[m].obj \in Object
         /\ CurrentRows(t.ver) \subseteq Stored(t.ver)
<1>1. t.ver \in VerType
  BY DEF Tables, VerType, Rows
<1>2. \A m \in Stored(t.ver) : m \in Memory /\ t.ver[m] \in Version
  BY <1>1 DEF VerType, Rows, Stored
<1>3. CurrentRows(t.ver) \subseteq Stored(t.ver)
  BY DEF CurrentRows, Stored, NoVersion
<1>4. \A m \in Stored(t.ver) :
        t.ver[m].status \in {"current", "stale"} /\ t.ver[m].obj \in Object
  BY <1>2 DEF Version
<1>. QED  BY <1>1, <1>2, <1>3, <1>4 DEF Tables

\* The edge of a version with an object: the standing it is given, never none.
LEMMA EdgeOfVersion ==
  ASSUME NEW obj, obj # Blank, NEW status
  PROVE  EdgeOf(status, obj) # NoEdge /\ EdgeOf(status, obj).status = status
<1>1. EdgeOf(status, obj) = [status |-> status, obj |-> obj]
  BY DEF EdgeOf
<1>. QED  BY <1>1 DEF NoEdge

\* The version that covers a time is one.
LEMMA OneCovers ==
  ASSUME NEW v \in VerType, Distinct(v), NEW t,
         NEW m \in Covering(v, t), NEW n \in Covering(v, t)
  PROVE  m = n /\ m \in Stored(v)
<1>1. /\ \A k \in Stored(v) : ~Before(v, k, k)
      /\ \A k, l, q \in Stored(v) : Before(v, k, l) /\ Before(v, l, q) => Before(v, k, q)
  BY OrderFacts
<1>2. PICK S \in SUBSET Stored(v) :
        Covering(v, t) = Newest(v, S) \/ Covering(v, t) = Oldest(v, S)
  BY DEF Covering
<1>3. m \in S /\ n \in S /\ (m # n => Before(v, m, n) /\ Before(v, n, m))
  BY <1>2 DEF Newest, Oldest
<1>. QED  BY <1>1, <1>3

\* A restatement adds evidence for a version of its value, and an edge only to
\* a memory that has none.
LEMMA ConfirmStanding ==
  ASSUME StandingInv, NEW reg \in Registration, Confirm(reg),
         work.said[reg.mem] = [ts |-> reg.ts, obj |-> reg.obj]
  PROVE  /\ EvidenceFits(work') /\ EdgesFit(work')
         /\ work'.ver = work.ver /\ work'.card = work.card
<1>1. work \in Tables /\ work.ver \in VerType /\ Chain(work.ver) /\ Faithful(work)
  BY DEF StandingInv, ChainInv, TypeOK, Tables, VerType, Rows
<1>2. PICK c \in Covering(work.ver, reg.ts) :
        work' = [work EXCEPT
          !.evidence = @ \cup {<<c, reg.mem>>},
          !.edge[reg.mem] = IF @ = NoEdge THEN EdgeOf("current", reg.obj) ELSE @]
  BY DEF Confirm
<1>3. c \in Stored(work.ver) /\ work.ver[c].obj = reg.obj
  <2>1. PICK d \in Covering(work.ver, reg.ts) : SameObject(work.ver[d].obj, reg.obj)
    BY DEF Confirm, Confirmed
  <2>2. c = d /\ c \in Stored(work.ver)
    BY <1>1, OneCovers DEF Chain
  <2>. QED  BY <2>1, <2>2 DEF SameObject
<1>4. /\ work'.said = work.said /\ work'.ver = work.ver /\ work'.card = work.card
      /\ work'.evidence = work.evidence \cup {<<c, reg.mem>>}
      /\ \A m \in Memory : work.edge[m] # NoEdge => work'.edge[m] = work.edge[m]
  <2> DEFINE e == [work.edge EXCEPT ![reg.mem] =
                     IF @ = NoEdge THEN EdgeOf("current", reg.obj) ELSE @]
  <2>1. \A m \in Memory : work.edge[m] # NoEdge => e[m] = work.edge[m]
    BY <1>1, TableTypes
  <2>2. work' = [work EXCEPT !.evidence = @ \cup {<<c, reg.mem>>}, !.edge = e]
    BY <1>1, <1>2 DEF Tables
  <2> HIDE DEF e
  <2>. QED  BY <1>1, <2>1, <2>2 DEF Tables
<1>5. work.said[reg.mem] # Unsaid /\ work.said[reg.mem].obj = reg.obj
  BY DEF Unsaid, Registration, Time, NoTime
<1>6. EvidenceFits(work')
  <2>1. EvidenceFits(work)
    BY DEF StandingInv
  <2>2. ASSUME NEW e \in work'.evidence
        PROVE  /\ e[1] \in Stored(work.ver) /\ work.said[e[2]] # Unsaid
               /\ work.said[e[2]].obj = work.ver[e[1]].obj
    <3>1. CASE e \in work.evidence
      BY <2>1, <3>1 DEF EvidenceFits
    <3>2. CASE e = <<c, reg.mem>>
      BY <3>2, <1>3, <1>5
    <3>. QED  BY <3>1, <3>2, <1>4
  <2>. QED  BY <2>1, <2>2, <1>4 DEF EvidenceFits
<1>7. EdgesFit(work')
  BY <1>1, <1>4, TableTypes DEF StandingInv, EdgesFit
<1>. QED  BY <1>4, <1>6, <1>7

\* A new version comes with its own evidence and edge, and takes the standing
\* of the one that was current everywhere.
LEMMA InsertStanding ==
  ASSUME StandingInv, NEW reg \in Registration, store' = store,
         work.said[reg.mem] = [ts |-> reg.ts, obj |-> reg.obj],
         NEW old \in CurrentVersion(work.ver), NEW s \in OrNone(Memory),
         InsertEffect(reg, old, s)
  PROVE  /\ EvidenceFits(work') /\ EdgesFit(work')
         /\ OnlyGrows' /\ DemotedCards'
<1> DEFINE x == reg.mem
           w == work.ver
           u == work'.ver
<1>1. /\ work \in Tables /\ store \in Tables /\ w \in VerType
      /\ Chain(w) /\ Faithful(work) /\ x \in Memory
  BY DEF StandingInv, ChainInv, TypeOK, Tables, VerType, Rows, Registration
<1>2. /\ Stored(u) = Stored(w) \cup {x}
      /\ \A m \in Stored(w) : KeyKept(w, u, m) /\ u[m].obj = w[m].obj
      /\ u[x].obj = reg.obj
      /\ u[x].status = IF s = NoMem THEN "current" ELSE "stale"
      /\ \A m \in Stored(w) \ {x} :
           u[m].status = IF s = NoMem /\ m = old THEN "stale" ELSE w[m].status
      /\ work'.said = work.said
      /\ work'.evidence = work.evidence \cup {<<x, x>>}
  BY DEF InsertEffect
<1>3. \A m \in Memory :
        work'.card[m] = IF m = x THEN IF s = NoMem THEN "latest" ELSE "old"
                        ELSE IF m = old /\ s = NoMem /\ work.card[m] # "none" THEN "old"
                        ELSE work.card[m]
  BY DEF InsertEffect, CardsAfter
<1>4. \A m \in Memory :
        work'.edge[m] =
          IF reg.obj = Blank THEN work.edge[m]
          ELSE IF m = x THEN EdgeOf(IF s = NoMem THEN "current" ELSE "stale", reg.obj)
          ELSE IF m = old /\ s = NoMem THEN EdgeOf("stale", reg.obj)
          ELSE work.edge[m]
  BY DEF InsertEffect, EdgesAfter
<1>5. work.said[x] # Unsaid /\ work.said[x].obj = reg.obj
  BY DEF Unsaid, Registration, Time, NoTime
<1>6. Stored(w) \subseteq Memory /\ CurrentRows(store.ver) \subseteq Memory
  BY DEF Stored, CurrentRows
<1> HIDE DEF u, w, x
<1>7. EvidenceFits(work')
  <2>1. EvidenceFits(work)
    BY DEF StandingInv
  <2>2. ASSUME NEW e \in work'.evidence
        PROVE  /\ e[1] \in Stored(u) /\ work.said[e[2]] # Unsaid
               /\ work.said[e[2]].obj = u[e[1]].obj
    <3>1. CASE e \in work.evidence
      <4>1. /\ e[1] \in Stored(w) /\ work.said[e[2]] # Unsaid
            /\ work.said[e[2]].obj = w[e[1]].obj
        BY <2>1, <3>1 DEF EvidenceFits, w
      <4>. QED  BY <4>1, <1>2
    <3>2. CASE e = <<x, x>>
      BY <3>2, <1>2, <1>5
    <3>. QED  BY <3>1, <3>2, <1>2
  <2>3. \A m \in Stored(u) : <<m, m>> \in work'.evidence
    BY <2>1, <1>2 DEF EvidenceFits, w
  <2>. QED  BY <2>2, <2>3, <1>2 DEF EvidenceFits, u
<1>8. EdgesFit(work')
  <2>1. SUFFICES ASSUME \A m \in Stored(u) : u[m].obj # Blank, NEW m \in Stored(u)
                 PROVE  work'.edge[m] # NoEdge /\ work'.edge[m].status = u[m].status
    BY DEF EdgesFit, u
  <2>2. reg.obj # Blank
    BY <2>1, <1>2
  <2>3. \A n \in Stored(w) : work.edge[n] # NoEdge /\ work.edge[n].status = w[n].status
    BY <2>1, <1>2 DEF StandingInv, EdgesFit, w
  <2>4. CASE m = x
    BY <2>2, <2>4, <1>1, <1>2, <1>4, EdgeOfVersion DEF x
  <2>5. CASE m # x /\ m = old /\ s = NoMem
    BY <2>2, <2>5, <1>2, <1>4, <1>6, EdgeOfVersion
  <2>6. CASE m # x /\ ~(m = old /\ s = NoMem)
    BY <2>2, <2>3, <2>6, <1>2, <1>4, <1>6
  <2>. QED  BY <2>4, <2>5, <2>6
<1>9. OnlyGrows'
  BY <1>2 DEF StandingInv, OnlyGrows, KeyKept, u, w
<1>10. DemotedCards'
  <2>1. SUFFICES ASSUME NEW m \in CurrentRows(store.ver), u[m].status = "stale"
                 PROVE  work'.card[m] # "latest"
    BY DEF DemotedCards, u
  <2>2. m \in Memory /\ m \in Stored(w)
    BY <1>1, <1>6, TableTypes DEF StandingInv, OnlyGrows, w
  <2>3. w[m].status = "stale" => work.card[m] # "latest"
    BY DEF StandingInv, DemotedCards, w
  <2>4. work.card[m] \in {"none", "latest", "old"}
    BY <1>1, <2>2, TableTypes
  <2>. QED  BY <2>1, <2>2, <2>3, <2>4, <1>2, <1>3
<1>. QED  BY <1>7, <1>8, <1>9, <1>10

-----------------------------------------------------------------------------
(* The other steps.                                                        *)

\* Tables that no transaction has changed yet.
LEMMA Unchanged ==
  ASSUME work' = store'
  PROVE  OnlyGrows' /\ DemotedCards'
<1>1. OnlyGrows'
  BY DEF OnlyGrows, KeyKept
<1>2. DemotedCards'
  BY DEF DemotedCards, CurrentRows
<1>. QED  BY <1>1, <1>2

\* The memory rows a batch upserts first are new or say what they said.
LEMMA BeginSays ==
  ASSUME StandingInv, MayCorrect = FALSE, Begin
  PROVE  /\ work'.ver = store.ver /\ work'.evidence = store.evidence
         /\ work'.edge = store.edge
         /\ \A m \in Memory : store.said[m] # Unsaid => work'.said[m] = store.said[m]
<1>1. PICK n \in 1..MaxBatch, c \in Clock : \E regs \in [1..n -> Registration] :
        /\ \A i, j \in 1..n : regs[i].mem = regs[j].mem => i = j
        /\ \A i \in 1..n : Statable(store.said, regs[i])
        /\ LET ids == {regs[i].mem : i \in 1..n}
               regOf(m) == regs[CHOOSE i \in 1..n : regs[i].mem = m]
           IN  work' = [store EXCEPT
                 !.said = [m \in Memory |->
                    IF m \in ids THEN [ts |-> regOf(m).ts, obj |-> regOf(m).obj]
                    ELSE store.said[m]],
                 !.card = [m \in Memory |->
                    IF m \in ids THEN "latest" ELSE store.card[m]]]
  BY Zenon DEF Begin
<1>2. PICK regs \in [1..n -> Registration] :
        /\ \A i, j \in 1..n : regs[i].mem = regs[j].mem => i = j
        /\ \A i \in 1..n : Statable(store.said, regs[i])
        /\ LET ids == {regs[i].mem : i \in 1..n}
               regOf(m) == regs[CHOOSE i \in 1..n : regs[i].mem = m]
           IN  work' = [store EXCEPT
                 !.said = [m \in Memory |->
                    IF m \in ids THEN [ts |-> regOf(m).ts, obj |-> regOf(m).obj]
                    ELSE store.said[m]],
                 !.card = [m \in Memory |->
                    IF m \in ids THEN "latest" ELSE store.card[m]]]
  BY <1>1, Zenon
<1> DEFINE ids == {regs[i].mem : i \in 1..n}
           regOf(m) == regs[CHOOSE i \in 1..n : regs[i].mem = m]
<1>3. store \in Tables
  BY DEF StandingInv, ChainInv, TypeOK
<1>4. /\ work'.ver = store.ver /\ work'.evidence = store.evidence
      /\ work'.edge = store.edge
      /\ \A m \in Memory :
           work'.said[m] = IF m \in ids THEN [ts |-> regOf(m).ts, obj |-> regOf(m).obj]
                                        ELSE store.said[m]
  BY <1>2, <1>3 DEF Tables
<1>5. \A i \in 1..n : regOf(regs[i].mem) = regs[i]
  BY <1>2
<1> HIDE DEF regOf
<1>6. ASSUME NEW m \in Memory, store.said[m] # Unsaid
      PROVE  work'.said[m] = store.said[m]
  <2>1. CASE m \in ids
    <3>1. PICK i \in 1..n : m = regs[i].mem
      BY <2>1
    <3>2. store.said[m] = [ts |-> regs[i].ts, obj |-> regs[i].obj]
      BY <1>2, <1>6, <3>1 DEF Statable
    <3>. QED  BY <2>1, <3>1, <3>2, <1>4, <1>5
  <2>2. CASE m \notin ids
    BY <2>2, <1>4
  <2>. QED  BY <2>1, <2>2
<1>. QED  BY <1>4, <1>6

\* The start of commit_ingest leaves versions, evidence and edges as they are.
LEMMA BeginStanding ==
  ASSUME StandingInv, MayCorrect = FALSE, Begin
  PROVE  EvidenceFits(work') /\ EdgesFit(work') /\ OnlyGrows' /\ DemotedCards'
<1>1. /\ work'.ver = store.ver /\ work'.evidence = store.evidence
      /\ work'.edge = store.edge /\ store' = store
      /\ \A m \in Memory : store.said[m] # Unsaid => work'.said[m] = store.said[m]
  BY BeginSays, Zenon DEF Begin
<1>2. /\ store \in Tables /\ EvidenceFits(store) /\ EdgesFit(store)
  BY DEF StandingInv, ChainInv, TypeOK
<1>3. EvidenceFits(work')
  <2>1. \A e \in store.evidence : e[2] \in Memory
    BY <1>2, TableTypes
  <2>. QED  BY <1>1, <1>2, <2>1 DEF EvidenceFits
<1>4. EdgesFit(work')
  BY <1>1, <1>2 DEF EdgesFit
<1>5. OnlyGrows' /\ DemotedCards'
  BY <1>1 DEF OnlyGrows, KeyKept, DemotedCards, CurrentRows
<1>. QED  BY <1>3, <1>4, <1>5

\* A deletion takes the evidence and edges of what it deletes along, and writes
\* the edges of the versions that remain anew.
LEMMA DeleteStanding ==
  ASSUME StandingInv, NEW d \in Memory, Delete(d)
  PROVE  EvidenceFits(store') /\ EdgesFit(store') /\ work' = store'
<1> DEFINE D == {d} \cup Derived[d]
           touched == Stored(store.ver) \cap D # {}
           v == IF touched THEN Rebuilt(store.ver, Stored(store.ver) \ D)
                           ELSE store.ver
<1>1. /\ store \in Tables /\ store.ver \in VerType /\ Chain(store.ver)
      /\ EvidenceFits(store) /\ EdgesFit(store)
  BY DEF StandingInv, ChainInv, TypeOK, Tables, VerType, Rows
<1>2. /\ work' = store' /\ store'.ver = v
      /\ store'.evidence = EvidenceWithout(store.evidence, D)
      /\ \A n \in Memory : n \notin D => store'.said[n] = store.said[n]
      /\ \A n \in Memory :
           store'.edge[n] =
             IF n \in D THEN NoEdge
             ELSE IF touched /\ v[n] # NoVersion /\ v[n].obj # Blank
                  THEN EdgeOf(v[n].status, v[n].obj)
             ELSE store.edge[n]
  BY DEF Delete
<1>3. /\ Stored(v) = Stored(store.ver) \ D
      /\ \A n \in Stored(v) : v[n].obj = store.ver[n].obj
      /\ ~touched => v = store.ver
  <2>1. CASE touched
    <3> DEFINE keep == Stored(store.ver) \ D
    <3>1. keep \in SUBSET Stored(store.ver) /\ Distinct(store.ver)
      BY <1>1 DEF Chain
    <3>2. v = Rebuilt(store.ver, keep)
      BY <2>1
    <3> HIDE DEF v, keep
    <3>3. Stored(v) = keep /\ \A n \in keep : v[n].obj = store.ver[n].obj
      BY <1>1, <3>1, <3>2, RebuiltChain
    <3>. QED  BY <2>1, <3>3 DEF keep
  <2>2. CASE ~touched
    BY <1>1, <2>2
  <2>. QED  BY <2>1, <2>2
<1>4. \A n \in Stored(v) : n \in Memory /\ v[n] # NoVersion
  BY DEF Stored
<1> HIDE DEF v, D, touched
<1>5. EvidenceFits(store')
  <2>1. \A e \in store.evidence : e[2] \in Memory
    BY <1>1, TableTypes
  <2>2. ASSUME NEW e \in store'.evidence
        PROVE  /\ e[1] \in Stored(v) /\ store'.said[e[2]] # Unsaid
               /\ store'.said[e[2]].obj = v[e[1]].obj
    <3>1. e \in store.evidence /\ e[1] \notin D /\ e[2] \notin D
      BY <1>2 DEF EvidenceWithout
    <3>. QED  BY <3>1, <2>1, <1>1, <1>2, <1>3 DEF EvidenceFits
  <2>3. ASSUME NEW m \in Stored(v)
        PROVE  <<m, m>> \in store'.evidence
    BY <1>1, <1>2, <1>3 DEF EvidenceFits, EvidenceWithout
  <2>. QED  BY <2>2, <2>3, <1>2 DEF EvidenceFits
<1>6. EdgesFit(store')
  <2>1. SUFFICES ASSUME \A m \in Stored(v) : v[m].obj # Blank, NEW m \in Stored(v)
                 PROVE  store'.edge[m] # NoEdge /\ store'.edge[m].status = v[m].status
    BY <1>2 DEF EdgesFit
  <2>2. m \in Memory /\ m \notin D /\ v[m] # NoVersion /\ v[m].obj # Blank
    BY <2>1, <1>3, <1>4
  <2>3. CASE touched
    BY <2>2, <2>3, <1>2, EdgeOfVersion
  <2>4. CASE ~touched
    BY <2>1, <2>2, <2>4, <1>1, <1>2, <1>3 DEF EdgesFit
  <2>. QED  BY <2>3, <2>4
<1>. QED  BY <1>2, <1>5, <1>6

\* Empty tables.
LEMMA StandingInit == Init => StandingInv
<1> SUFFICES ASSUME Init PROVE StandingInv
  OBVIOUS
<1>1. ChainInv
  BY ChainInit
<1>2. /\ Stored(store.ver) = {} /\ store.evidence = {} /\ work = store
      /\ CurrentRows(store.ver) = {}
  BY DEF Init, EmptyTables, Stored, CurrentRows, NoVersion
<1>3. /\ EvidenceFits(store) /\ EdgesFit(store) /\ OnlyGrows /\ DemotedCards
  BY <1>2 DEF EvidenceFits, EdgesFit, OnlyGrows, DemotedCards
<1>. QED  BY <1>1, <1>2, <1>3 DEF StandingInv

\* Every step keeps the tables standing together.
LEMMA StandingStep ==
  ASSUME MayCorrect = FALSE
  PROVE  StandingInv /\ [Next]_vars => StandingInv'
<1> SUFFICES ASSUME StandingInv, [Next]_vars PROVE StandingInv'
  OBVIOUS
<1>1. ChainInv'
  BY ChainStep DEF StandingInv
<1>2. EvidenceFits(store) /\ EdgesFit(store) /\ ChainInv
  BY DEF StandingInv
<1>3. CASE Begin
  <2>1. store' = store /\ open'
    BY <1>3 DEF Begin
  <2>. QED  BY <1>1, <1>2, <1>3, <2>1, BeginStanding DEF StandingInv
<1>4. CASE Register
  <2>1. batch \in Seq(Registration) /\ batch # <<>> /\ store' = store /\ open'
    BY <1>2, <1>4 DEF Register, ChainInv, TypeOK
  <2>2. /\ Head(batch) \in Registration
        /\ work.said[Head(batch).mem] = [ts |-> Head(batch).ts, obj |-> Head(batch).obj]
    BY <1>2, <2>1 DEF ChainInv, BatchSaid
  <2>3. EvidenceFits(work') /\ EdgesFit(work') /\ OnlyGrows' /\ DemotedCards'
    <3>1. CASE Confirm(Head(batch))
      <4>1. /\ EvidenceFits(work') /\ EdgesFit(work')
            /\ work'.ver = work.ver /\ work'.card = work.card
        BY <2>2, <3>1, ConfirmStanding
      <4>. QED  BY <2>1, <4>1 DEF StandingInv, OnlyGrows, DemotedCards
    <3>2. CASE Insert(Head(batch))
      <4>1. PICK old \in CurrentVersion(work.ver), s \in OrNone(Memory) :
              InsertEffect(Head(batch), old, s)
        BY <1>2, <2>2, <3>2, InsertEffects
      <4>. QED  BY <2>1, <2>2, <4>1, InsertStanding
    <3>. QED  BY <1>4, <3>1, <3>2 DEF Register
  <2>. QED  BY <1>1, <1>2, <2>1, <2>3 DEF StandingInv
<1>5. CASE Commit
  <2>1. work' = work /\ store' = work
    BY <1>2, <1>5, CommitChain
  <2>. QED  BY <1>1, <2>1, Unchanged DEF StandingInv
<1>6. CASE Abort
  <2>1. work' = store /\ store' = store
    BY <1>6 DEF Abort
  <2>. QED  BY <1>1, <1>2, <2>1, Unchanged DEF StandingInv
<1>7. CASE \E d \in Memory : Delete(d)
  <2>1. EvidenceFits(store') /\ EdgesFit(store') /\ work' = store'
    BY <1>7, DeleteStanding
  <2>. QED  BY <1>1, <2>1, Unchanged DEF StandingInv
<1>8. CASE UNCHANGED vars
  BY <1>1, <1>8 DEF vars, StandingInv, OnlyGrows, DemotedCards
<1>. QED  BY <1>3, <1>4, <1>5, <1>6, <1>7, <1>8 DEF Next

\* Every committed and every open state of the tables: the rows, evidence,
\* edges and cards of a fact stand together.
THEOREM StandingInvariant ==
  ASSUME MayCorrect = FALSE
  PROVE  Spec => []StandingInv
BY StandingInit, StandingStep, PTL DEF Spec

-----------------------------------------------------------------------------
(* What the invariant says of the committed tables.                        *)

\* fact_evidence always joins live rows that state one value, and the graph
\* always shows a version with the standing the chain gives it.
THEOREM StandingsAgreeAlways ==
  ASSUME MayCorrect = FALSE
  PROVE  Spec => []StandingsAgree
<1>1. StandingInv => StandingsAgree
  BY DEF StandingInv, EvidenceFits, EdgesFit, StandingsAgree, EvidenceSupports,
         EdgeFollowsVersion
<1>. QED  BY <1>1, StandingInvariant, PTL

\* What a transaction leaves in the tables when it ends.
LEMMA TransactionEnds ==
  ASSUME StandingInv, [Next]_vars, open, ~open'
  PROVE  store' = work \/ store' = store
<1>1. CASE Commit
  BY <1>1, CommitChain DEF StandingInv
<1>2. CASE Abort
  BY <1>2 DEF Abort
<1>3. CASE UNCHANGED vars
  BY <1>3 DEF vars
<1>. QED  BY <1>1, <1>2, <1>3 DEF Next, Begin, Register, Delete

\* A chain that gains no version up to t answers as before at t.
LEMMA PastKept ==
  ASSUME NEW v \in VerType, Chain(v), NEW u \in VerType, Chain(u), NEW t \in Time,
         \A m \in Stored(v) : m \in Stored(u) /\ KeyKept(v, u, m),
         \A m \in Stored(u) \ Stored(v) : ~(u[m].ts <= t)
  PROVE  ValidAt(u, t) = ValidAt(v, t)
<1> DEFINE V == {m \in Stored(v) : v[m].ts <= t}
           U == {m \in Stored(u) : u[m].ts <= t}
<1>1. ValidAt(v, t) = Newest(v, V) /\ ValidAt(u, t) = Newest(u, U)
  BY ChainValid
<1>2. U = V
  BY DEF KeyKept
<1>3. \A m, n \in V : Before(u, m, n) <=> Before(v, m, n)
  BY DEF KeyKept, Before
<1> HIDE DEF U, V
<1>4. Newest(v, V) = Newest(u, V)
  BY <1>3 DEF Newest
<1>. QED  BY <1>1, <1>2, <1>4

\* A commit leaves the answers about the past alone: what invalidated_set_at_time
\* leaves valid at t changes only with a new version that starts by then.
THEOREM PastIsStableAlways ==
  ASSUME MayCorrect = FALSE
  PROVE  Spec => PastIsStable
<1>1. ASSUME StandingInv, StandingInv', [Next]_vars
      PROVE  [~open' /\ open =>
                \A t \in Time :
                  ValidAt(store'.ver, t) # ValidAt(store.ver, t) =>
                    \E m \in Stored(store'.ver) \ Stored(store.ver) :
                      store'.ver[m].ts <= t]_vars
  <2>1. SUFFICES ASSUME open, ~open', NEW t \in Time,
                        \A m \in Stored(store'.ver) \ Stored(store.ver) :
                          ~(store'.ver[m].ts <= t)
                 PROVE  ValidAt(store'.ver, t) = ValidAt(store.ver, t)
    OBVIOUS
  <2>2. /\ store.ver \in VerType /\ Chain(store.ver)
        /\ work.ver \in VerType /\ Chain(work.ver)
    BY <1>1 DEF StandingInv, ChainInv, TypeOK, Tables, VerType, Rows
  <2>3. CASE store' = store
    BY <2>3
  <2>4. CASE store' = work
    <3>1. \A m \in Stored(store.ver) :
            m \in Stored(work.ver) /\ KeyKept(store.ver, work.ver, m)
      BY <1>1 DEF StandingInv, OnlyGrows
    <3>2. \A m \in Stored(work.ver) \ Stored(store.ver) : ~(work.ver[m].ts <= t)
      BY <2>1, <2>4
    <3>3. ValidAt(work.ver, t) = ValidAt(store.ver, t)
      BY <2>2, <3>1, <3>2, PastKept
    <3>. QED  BY <2>4, <3>3
  <2>. QED  BY <1>1, <2>1, <2>3, <2>4, TransactionEnds
<1>. QED  BY <1>1, StandingInvariant, PTL DEF Spec, PastIsStable

\* The commit that supersedes the version that was current takes the mark of
\* the latest one from its card, wherever the two stand in the batch.
THEOREM SupersessionAlways ==
  ASSUME MayCorrect = FALSE
  PROVE  Spec => SupersessionDemotesCard
<1>1. ASSUME StandingInv, StandingInv', [Next]_vars
      PROVE  [open /\ ~open' =>
                \A m \in CurrentRows(store.ver) :
                  store'.ver[m].status = "stale" /\ store'.card[m] # "none"
                    => store'.card[m] = "old"]_vars
  <2>1. SUFFICES ASSUME open, ~open', NEW m \in CurrentRows(store.ver),
                        store'.ver[m].status = "stale", store'.card[m] # "none"
                 PROVE  store'.card[m] = "old"
    OBVIOUS
  <2>2. CASE store' = store
    BY <2>1, <2>2 DEF CurrentRows
  <2>3. CASE store' = work
    <3>1. m \in Memory /\ work \in Tables
      BY <1>1 DEF CurrentRows, StandingInv, ChainInv, TypeOK
    <3>2. work.card[m] \in {"none", "latest", "old"}
      BY <3>1, TableTypes
    <3>3. work.card[m] # "latest"
      BY <1>1, <2>1, <2>3 DEF StandingInv, DemotedCards
    <3>. QED  BY <2>1, <2>3, <3>2, <3>3
  <2>. QED  BY <1>1, <2>1, <2>2, <2>3, TransactionEnds
<1>. QED  BY <1>1, StandingInvariant, PTL DEF Spec, SupersessionDemotesCard

-----------------------------------------------------------------------------
(* What the reads make of a chain.  They sort rows with ORDER BY; here is    *)
(* that every finite set has its rows in order, each once.                   *)

\* Induction up to n, of membership in a set.
LEMMA UpTo ==
  ASSUME NEW n \in Nat, NEW S, 0 \in S, \A k \in 1..n : k - 1 \in S => k \in S
  PROVE  n \in S
<1> DEFINE T == (0..n) \ S
<1>1. SUFFICES ASSUME T # {} PROVE FALSE
  OBVIOUS
<1>2. T \subseteq Nat
  OBVIOUS
<1>3. PICK k \in T : \A j \in T : ~(<<j, k>> \in OpToRel(<, Nat))
  <2> HIDE DEF T
  <2>. QED  BY <1>1, <1>2, WFMin, NatLessThanWellFounded
<1>4. \A j \in T : ~(j < k)
  BY <1>2, <1>3 DEF OpToRel
<1>5. k # 0 /\ k \in 1..n
  OBVIOUS
<1>6. k - 1 \in S
  BY <1>4, <1>5
<1>. QED  BY <1>5, <1>6

\* The premises of Least.
TotalOrder(R, S) ==
  /\ \A x \in S : <<x, x>> \notin R
  /\ \A x, y \in S : x # y => <<x, y>> \in R \/ <<y, x>> \in R
  /\ \A x, y, z \in S : <<x, y>> \in R /\ <<y, z>> \in R => <<x, z>> \in R
InOrder(q, R) == \A i, j \in DOMAIN q : i < j => <<q[i], q[j]>> \in R

LEMMA CanBeOrdered ==
  ASSUME NEW S, IsFiniteSet(S), NEW R, TotalOrder(R, S)
  PROVE  \E q \in [1..Cardinality(S) -> S] : InOrder(q, R)
<1> DEFINE N == Cardinality(S)
           Good == {k \in 0..N : \A t \in SUBSET S : Cardinality(t) = k =>
                                    \E q \in [1..k -> t] : InOrder(q, R)}
<1>1. N \in Nat
  BY FS_CardinalityType
<1>2. 0 \in Good
  <2>1. ASSUME NEW t \in SUBSET S PROVE \E q \in [1..0 -> t] : InOrder(q, R)
    <3>1. 1..0 = {}
      OBVIOUS
    <3>2. [i \in 1..0 |-> 0] \in [1..0 -> t] /\ InOrder([i \in 1..0 |-> 0], R)
      BY <3>1 DEF InOrder
    <3>. QED  BY <3>2
  <2>. QED  BY <1>1, <2>1
<1>3. ASSUME NEW k \in 1..N, k - 1 \in Good PROVE k \in Good
  <2>1. ASSUME NEW t \in SUBSET S, Cardinality(t) = k PROVE \E q \in [1..k -> t] : InOrder(q, R)
    <3>1. IsFiniteSet(t) /\ t # {}
      <4>1. IsFiniteSet(t)
        BY FS_Subset
      <4>2. Cardinality(t) # 0
        BY <2>1
      <4>. QED  BY <4>1, <4>2, FS_EmptySet
    <3>2. PICK x \in t : \A y \in t \ {x} : <<x, y>> \in R
      <4>1. /\ \A y \in t : <<y, y>> \notin R
            /\ \A y, z \in t : y # z => <<y, z>> \in R \/ <<z, y>> \in R
            /\ \A y, z, w \in t : <<y, z>> \in R /\ <<z, w>> \in R => <<y, w>> \in R
        BY DEF TotalOrder
      <4>. QED  BY <3>1, <4>1, Least
    <3> DEFINE u == t \ {x}
    <3>3. u \in SUBSET S /\ Cardinality(u) = k - 1
      BY <2>1, <3>1, <3>2, FS_RemoveElement
    <3>4. PICK r \in [1..(k - 1) -> u] : InOrder(r, R)
      BY <1>3, <3>3
    <3> DEFINE q == [i \in 1..k |-> IF i = 1 THEN x ELSE r[i - 1]]
    <3>5. q \in [1..k -> t]
      <4>1. \A i \in 1..k : i # 1 => i - 1 \in 1..(k - 1)
        OBVIOUS
      <4>. QED  BY <4>1
    <3>6. ASSUME NEW i \in 1..k, NEW j \in 1..k, i < j PROVE <<q[i], q[j]>> \in R
      <4>1. j - 1 \in 1..(k - 1) /\ q[j] = r[j - 1] /\ r[j - 1] \in u
        BY <3>6
      <4>2. CASE i = 1
        BY <3>2, <4>1, <4>2
      <4>3. CASE i # 1
        <5>1. i - 1 \in 1..(k - 1) /\ i - 1 < j - 1 /\ q[i] = r[i - 1]
          BY <3>6, <4>3
        <5>. QED  BY <3>4, <4>1, <5>1 DEF InOrder
      <4>. QED  BY <4>2, <4>3
    <3> HIDE DEF q
    <3>7. InOrder(q, R)
      BY <3>5, <3>6 DEF InOrder
    <3>. QED  BY <3>5, <3>7
  <2>. QED  BY <2>1
<1> HIDE DEF Good
<1>4. N \in Good
  <2> HIDE DEF N
  <2>. QED  BY <1>1, <1>2, <1>3, UpTo
<1>. QED  BY <1>4 DEF Good

\* An ORDER BY lists every row, once.
LEMMA OrderedLists ==
  ASSUME NEW S, IsFiniteSet(S), NEW R, TotalOrder(R, S), NEW q, q = Ordered(S, R)
  PROVE  /\ DOMAIN q = 1..Cardinality(S)
         /\ \A i \in DOMAIN q : q[i] \in S
         /\ \A x \in S : \E i \in DOMAIN q : q[i] = x
         /\ \A i, j \in DOMAIN q : q[i] = q[j] => i = j
         /\ InOrder(q, R)
<1> DEFINE n == Cardinality(S)
<1>1. n \in Nat /\ q \in [1..n -> S] /\ InOrder(q, R)
  <2>1. q = CHOOSE r \in [1..n -> S] : InOrder(r, R)
    BY DEF Ordered, InOrder
  <2>2. \E r \in [1..n -> S] : InOrder(r, R)
    BY CanBeOrdered
  <2>. QED  BY <2>1, <2>2, FS_CardinalityType
<1>2. IsFiniteSet(1..n) /\ Cardinality(1..n) = n
  BY <1>1, FS_Interval
<1>3. ASSUME NEW i \in 1..n, NEW j \in 1..n, q[i] = q[j] PROVE i = j
  <2>1. q[i] \in S /\ i \in Int /\ j \in Int
    BY <1>1
  <2>2. ~(i < j) /\ ~(j < i)
    BY <1>1, <1>3, <2>1 DEF InOrder, TotalOrder
  <2>. QED  BY <2>1, <2>2
<1>4. q \in Injection(1..n, S)
  BY <1>1, <1>3 DEF Injection, IsInjective
<1>5. q \in Surjection(1..n, S)
  BY <1>2, <1>4, FS_Injection
<1>. QED  BY <1>1, <1>3, <1>5 DEF Surjection

\* The last of some places.
LEMMA LastOfSome ==
  ASSUME NEW n \in Nat, NEW s \in SUBSET (1..n), s # {}
  PROVE  Max(s) \in s
<1> DEFINE R == {e \in s \X s : e[1] > e[2]}
<1>1. IsFiniteSet(s)
  <2>1. IsFiniteSet(1..n)
    BY FS_Interval
  <2>. QED  BY <2>1, FS_Subset
<1>2. \A x, y \in s : <<x, y>> \in R <=> x > y
  OBVIOUS
<1> HIDE DEF R
<1>3. /\ \A x \in s : <<x, x>> \notin R
      /\ \A x, y \in s : x # y => <<x, y>> \in R \/ <<y, x>> \in R
      /\ \A x, y, z \in s : <<x, y>> \in R /\ <<y, z>> \in R => <<x, z>> \in R
  BY <1>2
<1>4. PICK x \in s : \A y \in s \ {x} : <<x, y>> \in R
  BY <1>1, <1>3, Least
<1>5. \A y \in s : x >= y
  <2>1. ASSUME NEW y \in s, y # x PROVE x > y
    BY <1>2, <1>4, <2>1
  <2>2. x \in Int
    OBVIOUS
  <2>. QED  BY <2>1, <2>2
<1>. QED  BY <1>5 DEF Max

\* The ids are in the order of their text, which is total.
LEMMA IdsInOrder ==
  ASSUME NEW S \in SUBSET Memory
  PROVE  /\ \A m \in S : ~IdBefore(m, m)
         /\ \A m, n \in S : m # n => IdBefore(m, n) \/ IdBefore(n, m)
         /\ \A m, n, k \in S : IdBefore(m, n) /\ IdBefore(n, k) => IdBefore(m, k)
<1>1. /\ \A i \in DOMAIN Ids : i \in Int
      /\ \A m \in Memory : \E i \in DOMAIN Ids : Ids[i] = m
      /\ \A i, j \in DOMAIN Ids : Ids[i] = Ids[j] => i = j
  BY FactReadsAssumption DEF ToSet, IsInjective
<1>2. \A i, j \in DOMAIN Ids : i # j => i < j \/ j < i
  BY <1>1
<1>3. \A m \in S : ~IdBefore(m, m)
  BY <1>1 DEF IdBefore
<1>4. \A m, n \in S : m # n => IdBefore(m, n) \/ IdBefore(n, m)
  BY <1>1, <1>2 DEF IdBefore
<1>5. ASSUME NEW m \in S, NEW n \in S, NEW k \in S, IdBefore(m, n), IdBefore(n, k)
      PROVE  IdBefore(m, k)
  <2>1. PICK i \in DOMAIN Ids, j \in DOMAIN Ids : i < j /\ Ids[i] = m /\ Ids[j] = n
    BY <1>5 DEF IdBefore
  <2>2. PICK i2 \in DOMAIN Ids, j2 \in DOMAIN Ids : i2 < j2 /\ Ids[i2] = n /\ Ids[j2] = k
    BY <1>5 DEF IdBefore
  <2>3. j = i2
    BY <1>1, <2>1, <2>2
  <2>4. i < j2
    BY <1>1, <2>1, <2>2, <2>3
  <2>. QED  BY <2>1, <2>2, <2>4 DEF IdBefore
<1>. QED  BY <1>3, <1>4, <1>5

LEMMA SortKeys ==
  ASSUME NEW S \in SUBSET Memory, NEW at, \A m \in S : at[m] \in Int
  PROVE  TotalOrder(Earlier(S, at), S) /\ TotalOrder(Newer(S, at), S)
<1>1. /\ \A m \in S : ~IdBefore(m, m)
      /\ \A m, n \in S : m # n => IdBefore(m, n) \/ IdBefore(n, m)
      /\ \A m, n, k \in S : IdBefore(m, n) /\ IdBefore(n, k) => IdBefore(m, k)
  BY IdsInOrder
<1>2. TotalOrder(Earlier(S, at), S)
  <2> DEFINE R == Earlier(S, at)
  <2>1. \A m, n \in S : <<m, n>> \in R <=> at[m] < at[n] \/ (at[m] = at[n] /\ IdBefore(m, n))
    BY DEF Earlier
  <2> HIDE DEF R
  <2>2. \A x \in S : <<x, x>> \notin R
    BY <1>1, <2>1
  <2>3. \A x, y \in S : x # y => <<x, y>> \in R \/ <<y, x>> \in R
    BY <1>1, <2>1
  <2>4. ASSUME NEW x \in S, NEW y \in S, NEW z \in S, <<x, y>> \in R, <<y, z>> \in R
        PROVE  <<x, z>> \in R
    <3>1. at[x] \in Int /\ at[y] \in Int /\ at[z] \in Int
      OBVIOUS
    <3>. QED  BY <1>1, <2>1, <2>4, <3>1
  <2>. QED  BY <2>2, <2>3, <2>4 DEF R, TotalOrder
<1>3. TotalOrder(Newer(S, at), S)
  <2> DEFINE R == Newer(S, at)
  <2>1. \A m, n \in S : <<m, n>> \in R <=> at[m] > at[n] \/ (at[m] = at[n] /\ IdBefore(m, n))
    BY DEF Newer
  <2> HIDE DEF R
  <2>2. \A x \in S : <<x, x>> \notin R
    BY <1>1, <2>1
  <2>3. \A x, y \in S : x # y => <<x, y>> \in R \/ <<y, x>> \in R
    BY <1>1, <2>1
  <2>4. ASSUME NEW x \in S, NEW y \in S, NEW z \in S, <<x, y>> \in R, <<y, z>> \in R
        PROVE  <<x, z>> \in R
    <3>1. at[x] \in Int /\ at[y] \in Int /\ at[z] \in Int
      OBVIOUS
    <3>. QED  BY <1>1, <2>1, <2>4, <3>1
  <2>. QED  BY <2>2, <2>3, <2>4 DEF R, TotalOrder
<1>. QED  BY <1>2, <1>3

-----------------------------------------------------------------------------
(* One story: at an instant, now, of a memory.                             *)

\* What the committed tables are between transactions.
Settled == StandingInv /\ ~open

LEMMA SettledTypes ==
  ASSUME Settled
  PROVE  /\ store.ver \in VerType /\ Chain(store.ver)
         /\ \A m \in Stored(store.ver) :
              /\ m \in Memory /\ store.ver[m] \in Version
              /\ store.ver[m].from \in Time /\ store.ver[m].ts \in Time
         /\ \A m \in Memory : store.said[m].ts \in Int
         /\ IsFiniteSet(Stored(store.ver)) /\ NoMem \notin Memory
<1>1. store \in Tables
  BY DEF Settled, StandingInv, ChainInv, TypeOK
<1>2. store.ver \in VerType /\ store.said \in [Memory -> Statement \cup {Unsaid}]
  BY <1>1 DEF Tables, VerType, Rows
<1>3. \A m \in Stored(store.ver) : m \in Memory /\ store.ver[m] \in Version
  BY <1>2 DEF Stored, VerType, Rows
<1>4. \A m \in Memory : store.said[m].ts \in Int
  BY <1>2 DEF Statement, Unsaid, Time, NoTime
<1>5. IsFiniteSet(Stored(store.ver))
  BY FactChainAssumption, FS_Subset DEF Stored
<1>6. \A m \in Stored(store.ver) : store.ver[m].from \in Time /\ store.ver[m].ts \in Time
  BY <1>3 DEF Version
<1>. QED  BY <1>2, <1>3, <1>4, <1>5, <1>6, FactChainAssumption DEF Settled, StandingInv, ChainInv

\* ORDER BY valid_from_ms, memory_id, of some stored versions.
LEMMA ByValidityLists ==
  ASSUME Settled, NEW S \in SUBSET Stored(store.ver), NEW q, q = ByValidity(S)
  PROVE  /\ DOMAIN q = 1..Cardinality(S) /\ Cardinality(S) \in Nat
         /\ \A i \in DOMAIN q : q[i] \in S
         /\ \A x \in S : \E i \in DOMAIN q : q[i] = x
         /\ \A i, j \in DOMAIN q : q[i] = q[j] => i = j
<1> DEFINE at == [m \in S |-> store.ver[m].from]
<1>1. S \in SUBSET Memory /\ IsFiniteSet(S)
  BY SettledTypes, FS_Subset DEF Stored
<1>2. \A m \in S : at[m] \in Int
  BY SettledTypes DEF Time
<1>3. TotalOrder(Earlier(S, at), S)
  <2> HIDE DEF at
  <2>. QED  BY <1>1, <1>2, SortKeys
<1>4. q = Ordered(S, Earlier(S, at))
  BY DEF ByValidity
<1> HIDE DEF at
<1>. QED  BY <1>1, <1>3, <1>4, OrderedLists, FS_CardinalityType

\* The evidence of a version has its own memory.
LEMMA OwnEvidence ==
  ASSUME Settled, NEW m \in Stored(store.ver)
  PROVE  Reported(m) \in ToSet(EvidenceFor(m))
<1> DEFINE of == {n \in Memory : <<m, n>> \in store.evidence}
           at == [n \in of |-> store.said[n].ts]
           q == Ordered(of, Newer(of, at))
<1>1. of \in SUBSET Memory /\ IsFiniteSet(of) /\ m \in of
  <2>1. <<m, m>> \in store.evidence /\ m \in Memory
    BY SettledTypes DEF Settled, StandingInv, EvidenceFits
  <2>2. IsFiniteSet(of)
    BY FactChainAssumption, FS_Subset
  <2>. QED  BY <2>1, <2>2
<1>2. \A n \in of : at[n] \in Int
  BY SettledTypes
<1>3. TotalOrder(Newer(of, at), of)
  <2> HIDE DEF at, of
  <2>. QED  BY <1>1, <1>2, SortKeys
<1>4. EvidenceFor(m) = [i \in DOMAIN q |-> Reported(q[i])]
  BY DEF EvidenceFor
<1>5. \E i \in DOMAIN q : q[i] = m
  <2> HIDE DEF at, of
  <2>. QED  BY <1>1, <1>3, OrderedLists
<1> HIDE DEF q
<1>. QED  BY <1>4, <1>5 DEF ToSet

LEMMA Covers ==
  ASSUME Settled, NEW t \in Time, NEW m \in Stored(store.ver)
  PROVE  LET v == store.ver[m]
         IN  /\ m \in ValidAt(store.ver, t) <=> v.from <= t /\ (v.to = NoTime \/ t < v.to)
             /\ m \in ValidAt(store.ver, t) <=> m \notin InvalidatedSetAtTime(t, Memory)
<1>1. /\ store.ver[m] \in Version /\ m \in Memory
      /\ store.ver[m].from \in Time /\ store.ver[m].to \in Time \cup {NoTime}
  BY SettledTypes DEF Version
<1>2. store.ver[m].from \in Int /\ store.ver[m].to \in Int /\ t \in Int
  BY <1>1 DEF Time, NoTime
<1>. QED  BY <1>1, <1>2 DEF ValidAt, InvalidatedSetAtTime

LEMMA OneValid ==
  ASSUME Settled, NEW t \in Time,
         NEW m \in ValidAt(store.ver, t), NEW n \in ValidAt(store.ver, t)
  PROVE  m = n
<1> DEFINE v == store.ver  U == {k \in Stored(v) : v[k].ts <= t}
<1>1. v \in VerType /\ Chain(v)
  BY SettledTypes
<1>2. m \in Newest(v, U) /\ n \in Newest(v, U)
  <2> HIDE DEF v
  <2>1. ValidAt(v, t) = Newest(v, U)
    BY <1>1, ChainValid
  <2>. QED  BY <2>1 DEF v
<1>3. m \in Stored(v) /\ n \in Stored(v)
  BY <1>2 DEF Newest
<1>4. ~Before(v, m, m) /\ (Before(v, m, n) /\ Before(v, n, m) => Before(v, m, m))
  <2> HIDE DEF v
  <2>. QED  BY <1>1, <1>3, OrderFacts DEF Chain
<1>. QED  BY <1>2, <1>4 DEF Newest

\* fact_history with current_fact_handler: the entry that covers an instant.
LEMMA AsOf ==
  ASSUME Settled, NEW t \in Time
  PROVE  /\ \A m \in ValidAt(store.ver, t) : FactAsOf(t) = HistoryEntry(m)
         /\ ValidAt(store.ver, t) = {} => FactAsOf(t) = NoEntry
<1> DEFINE S == Stored(store.ver)
           q == ByValidity(S)
           covers(e) == e.from <= t /\ (e.to = NoTime \/ t < e.to)
           found == {i \in DOMAIN FactHistory : covers(FactHistory[i])}
<1>1. /\ DOMAIN q = 1..Cardinality(S) /\ Cardinality(S) \in Nat
      /\ \A i \in DOMAIN q : q[i] \in S
      /\ \A x \in S : \E i \in DOMAIN q : q[i] = x
      /\ \A i, j \in DOMAIN q : q[i] = q[j] => i = j
  BY ByValidityLists
<1>2. FactHistory = [i \in DOMAIN q |-> HistoryEntry(q[i])]
  BY DEF FactHistory
<1>3. FactAsOf(t) = IF found = {} THEN NoEntry ELSE FactHistory[Max(found)]
  BY DEF FactAsOf
<1> HIDE DEF q
<1>4. \A i \in DOMAIN q : FactHistory[i] = HistoryEntry(q[i])
  BY <1>2
<1>5. found = {i \in DOMAIN q : q[i] \in ValidAt(store.ver, t)}
  <2>1. \A i \in DOMAIN q : covers(FactHistory[i]) <=> q[i] \in ValidAt(store.ver, t)
    <3>1. ASSUME NEW m \in S PROVE covers(HistoryEntry(m)) <=> m \in ValidAt(store.ver, t)
      BY Covers DEF HistoryEntry
    <3>. QED  BY <1>1, <1>4, <3>1
  <2>2. DOMAIN FactHistory = DOMAIN q
    BY <1>2
  <2> HIDE DEF covers
  <2>. QED  BY <2>1, <2>2
<1> HIDE DEF found
<1>6. \A m \in ValidAt(store.ver, t) : m \in S
  BY DEF ValidAt
<1>7. ASSUME NEW m \in ValidAt(store.ver, t) PROVE FactAsOf(t) = HistoryEntry(m)
  <2>1. PICK i \in DOMAIN q : q[i] = m
    BY <1>1, <1>6
  <2>2. found # {} /\ found \in SUBSET (1..Cardinality(S))
    BY <1>1, <1>5, <2>1
  <2>3. Max(found) \in found
    BY <1>1, <2>2, LastOfSome
  <2>4. q[Max(found)] = m
    BY <1>5, <2>3, OneValid
  <2>. QED  BY <1>3, <1>4, <1>5, <2>2, <2>3, <2>4
<1>8. ASSUME ValidAt(store.ver, t) = {} PROVE FactAsOf(t) = NoEntry
  BY <1>3, <1>5, <1>8
<1>. QED  BY <1>7, <1>8

\* What is valid at the last instant is what is marked current, and there is
\* such a version if there is any.
LEMMA CurrentIsValid ==
  ASSUME Settled
  PROVE  /\ CurrentRows(store.ver) = ValidAt(store.ver, MaxTime)
         /\ Stored(store.ver) # {} => \E m \in Stored(store.ver) : CurrentRows(store.ver) = {m}
         /\ Stored(store.ver) = {} => CurrentRows(store.ver) = {}
<1> DEFINE v == store.ver
<1>1. v \in VerType /\ Chain(v) /\ NoMem \notin Memory
  BY SettledTypes
<1>2. MaxTime \in Time /\ MaxTime \in Nat
  BY FactChainAssumption DEF Time
<1>3. ASSUME NEW m \in Stored(v) PROVE m \in ValidAt(v, MaxTime) <=> v[m].status = "current"
  <2>1. /\ v[m].status = IF v[m].by = NoMem THEN "current" ELSE "stale"
        /\ v[m].to = IF v[m].by = NoMem THEN NoTime ELSE v[v[m].by].ts
        /\ v[m].by = NoMem \/ v[m].by \in Stored(v)
    BY <1>1 DEF Chain, Standing, Placed, IsNext
  <2>2. v[m].from \in Time /\ \A n \in Stored(v) : v[n].ts \in Time
    BY SettledTypes
  <2>3. v[m].from <= MaxTime
    BY <1>2, <2>2 DEF Time
  <2>4. \A n \in Stored(v) : ~(MaxTime < v[n].ts) /\ v[n].ts # NoTime
    BY <1>2, <2>2 DEF Time, NoTime
  <2>5. m \in ValidAt(v, MaxTime) <=> v[m].from <= MaxTime /\ (v[m].to = NoTime \/ MaxTime < v[m].to)
    BY <1>2, Covers
  <2>. QED  BY <2>1, <2>3, <2>4, <2>5
<1>4. \A m \in CurrentRows(v) : m \in Stored(v)
  BY DEF CurrentRows, Stored, NoVersion
<1>5. CurrentRows(v) = ValidAt(v, MaxTime)
  BY <1>3, <1>4 DEF CurrentRows, ValidAt, Stored
<1>6. ASSUME Stored(v) # {} PROVE \E m \in Stored(v) : CurrentRows(v) = {m}
  <2>1. ValidAt(v, MaxTime) # {}
    <3>1. {m \in Stored(v) : v[m].ts <= MaxTime} = Stored(v)
      <4>1. \A m \in Stored(v) : v[m].ts \in Time
        BY SettledTypes
      <4>. QED  BY <1>2, <4>1 DEF Time
    <3> HIDE DEF v
    <3>2. ValidAt(v, MaxTime) = Newest(v, Stored(v))
      BY <1>1, <1>2, <3>1, ChainValid
    <3>3. Newest(v, Stored(v)) # {}
      BY <1>1, <1>6, QueriesAnswer DEF Chain
    <3>. QED  BY <3>2, <3>3
  <2>2. PICK m : m \in ValidAt(v, MaxTime)
    BY <2>1
  <2>3. \A n \in ValidAt(v, MaxTime) : n = m
    BY <1>2, <2>2, OneValid
  <2>. QED  BY <1>4, <1>5, <2>2, <2>3
<1>. QED  BY <1>4, <1>5, <1>6

LEMMA CurrentRead ==
  ASSUME Settled
  PROVE  /\ \A m \in CurrentRows(store.ver) : CurrentFact = HistoryEntry(m)
         /\ CurrentRows(store.ver) = {} => CurrentFact = NoEntry
<1> DEFINE S == Stored(store.ver)
           q == ByValidity(S)
           found == {i \in DOMAIN FactHistory : FactHistory[i].current}
<1>1. /\ DOMAIN q = 1..Cardinality(S)
      /\ \A i \in DOMAIN q : q[i] \in S
      /\ \A x \in S : \E i \in DOMAIN q : q[i] = x
      /\ \A i, j \in DOMAIN q : q[i] = q[j] => i = j
  BY ByValidityLists
<1>2. FactHistory = [i \in DOMAIN q |-> HistoryEntry(q[i])]
  BY DEF FactHistory
<1>3. CurrentFact = IF found = {} THEN NoEntry ELSE FactHistory[Min(found)]
  BY DEF CurrentFact
<1> HIDE DEF q
<1>4. \A i \in DOMAIN q : FactHistory[i] = HistoryEntry(q[i])
  BY <1>2
<1>5. \A i \in DOMAIN q : FactHistory[i].current <=> q[i] \in CurrentRows(store.ver)
  <2>1. \A m \in S : HistoryEntry(m).current <=> m \in CurrentRows(store.ver)
    BY DEF HistoryEntry, CurrentRows, Stored
  <2>. QED  BY <1>1, <1>4, <2>1
<1>6. found = {i \in DOMAIN q : q[i] \in CurrentRows(store.ver)}
  <2>1. DOMAIN FactHistory = DOMAIN q
    BY <1>2
  <2>. QED  BY <1>5, <2>1
<1> HIDE DEF found
<1>7. ASSUME NEW m \in CurrentRows(store.ver) PROVE CurrentFact = HistoryEntry(m)
  <2>1. CurrentRows(store.ver) = {m} /\ m \in S
    BY CurrentIsValid
  <2>2. PICK i \in DOMAIN q : q[i] = m
    BY <1>1, <2>1
  <2>3. found = {i}
    BY <1>1, <1>6, <2>1, <2>2
  <2>4. Min(found) = i
    <3>1. i \in Int
      BY <1>1
    <3>. QED  BY <2>3, <3>1 DEF Min
  <2>. QED  BY <1>3, <1>4, <2>2, <2>3, <2>4
<1>8. ASSUME CurrentRows(store.ver) = {} PROVE CurrentFact = NoEntry
  BY <1>3, <1>6, <1>8
<1>. QED  BY <1>7, <1>8

\* What a row of an answer says of the version m.
LEMMA RowTells ==
  ASSUME Settled, NEW m \in Stored(store.ver)
  PROVE  LET r == VersionRow(m)
         IN  /\ r.version = m /\ Reported(m) \in ToSet(r.evidence)
             /\ r.current <=> r.by = NoMem
             /\ ~r.current => r.at = r.to /\ r.now = {CurrentFact.object}
<1> DEFINE v == store.ver  r == VersionRow(m)
<1>1. v \in VerType /\ Chain(v) /\ NoMem \notin Memory
  BY SettledTypes
<1>2. /\ v[m].status = IF v[m].by = NoMem THEN "current" ELSE "stale"
      /\ v[m].to = IF v[m].by = NoMem THEN NoTime ELSE v[v[m].by].ts
      /\ v[m].by = NoMem \/ v[m].by \in Stored(v)
  BY <1>1 DEF Chain, Standing, Placed, IsNext
<1>3. /\ r.version = m /\ r.evidence = EvidenceFor(m)
      /\ r.current = (v[m].status = "current") /\ r.to = v[m].to /\ r.by = Reported(v[m].by)
      /\ r.at = IF v[m].by \in Stored(v) THEN v[v[m].by].ts ELSE NoTime
      /\ r.now = {v[c].obj : c \in CurrentRows(v)}
  BY DEF VersionRow
<1> HIDE DEF r
<1>4. Reported(v[m].by) = NoMem <=> v[m].by = NoMem
  <2>1. v[m].by = NoMem => Reported(v[m].by) = NoMem
    BY DEF Reported
  <2>2. ASSUME v[m].by # NoMem PROVE Reported(v[m].by) \in Memory
    <3> DEFINE s == v[m].by
    <3>1. s \in Memory
      BY <1>2, <2>2 DEF Stored
    <3> HIDE DEF s
    <3>2. (\E p \in Memory : s \in Derived[p]) => (CHOOSE p \in Memory : s \in Derived[p]) \in Memory
      OBVIOUS
    <3>3. Reported(s) \in Memory
      BY <3>1, <3>2 DEF Reported
    <3>. QED  BY <3>3 DEF s
  <2>. QED  BY <1>1, <2>1, <2>2
<1>5. r.now = {CurrentFact.object}
  <2>1. PICK c \in Stored(v) : CurrentRows(v) = {c}
    BY CurrentIsValid
  <2>2. CurrentFact = HistoryEntry(c)
    BY <2>1, CurrentRead
  <2>3. CurrentFact.object = v[c].obj
    BY <2>2 DEF HistoryEntry
  <2>. QED  BY <1>3, <2>1, <2>3
<1>6. r.current <=> v[m].by = NoMem
  BY <1>2, <1>3
<1>7. v[m].by # NoMem => r.at = r.to
  BY <1>2, <1>3
<1>8. Reported(m) \in ToSet(r.evidence)
  BY <1>3, OwnEvidence
<1>. QED  BY <1>3, <1>4, <1>5, <1>6, <1>7, <1>8 DEF r

\* fact_versions_for_memories.
LEMMA VersionsRead ==
  ASSUME Settled, NEW asked \in SUBSET Memory
  PROVE  LET found == FactVersionsFor(asked)
         IN  /\ asked \cap Stored(store.ver) \subseteq DOMAIN found /\ DOMAIN found \subseteq asked
             /\ \A k \in DOMAIN found :
                  \E m \in Stored(store.ver) : found[k] = VersionRow(m) /\ k \in {m, Reported(m)}
<1> DEFINE S == {m \in Stored(store.ver) : m \in asked \/ Reported(m) \in asked}
           rows == ByValidity(S)
           key(m) == IF m \in asked THEN m ELSE Reported(m)
           of(k) == {i \in DOMAIN rows : key(rows[i]) = k}
           found == FactVersionsFor(asked)
<1>1. /\ DOMAIN rows = 1..Cardinality(S) /\ Cardinality(S) \in Nat
      /\ \A i \in DOMAIN rows : rows[i] \in S
      /\ \A x \in S : \E i \in DOMAIN rows : rows[i] = x
  <2>1. S \in SUBSET Stored(store.ver)
    OBVIOUS
  <2> HIDE DEF S
  <2>. QED  BY <2>1, ByValidityLists
<1>2. found = [k \in {key(rows[i]) : i \in DOMAIN rows} |-> VersionRow(rows[Max(of(k))])]
  BY DEF FactVersionsFor
<1>3. \A m \in S : key(m) \in asked /\ key(m) \in {m, Reported(m)} /\ m \in Stored(store.ver)
  OBVIOUS
<1>4. \A m \in asked \cap Stored(store.ver) : m \in S /\ key(m) = m
  OBVIOUS
<1> HIDE DEF rows, S, key, found
<1>5. DOMAIN found = {key(rows[i]) : i \in DOMAIN rows}
  BY <1>2
<1>6. asked \cap Stored(store.ver) \subseteq DOMAIN found
  <2>1. ASSUME NEW m \in asked \cap Stored(store.ver) PROVE m \in DOMAIN found
    <3>1. PICK i \in DOMAIN rows : rows[i] = m
      BY <1>1, <1>4
    <3>. QED  BY <1>4, <1>5, <3>1
  <2>. QED  BY <2>1
<1>7. DOMAIN found \subseteq asked
  BY <1>1, <1>3, <1>5
<1>8. ASSUME NEW k \in DOMAIN found
      PROVE  \E m \in Stored(store.ver) : found[k] = VersionRow(m) /\ k \in {m, Reported(m)}
  <2>1. of(k) # {} /\ of(k) \in SUBSET (1..Cardinality(S))
    BY <1>1, <1>5, <1>8
  <2>2. Max(of(k)) \in of(k)
    <3> HIDE DEF of
    <3>. QED  BY <1>1, <2>1, LastOfSome
  <2>3. rows[Max(of(k))] \in S /\ key(rows[Max(of(k))]) = k
    BY <1>1, <2>2
  <2>4. found[k] = VersionRow(rows[Max(of(k))])
    BY <1>2, <1>5
  <2>. QED  BY <1>3, <2>3, <2>4
<1>. QED  BY <1>6, <1>7, <1>8 DEF found

LEMMA ReadsTellOneStory ==
  ASSUME Settled
  PROVE  ReadsAgree
<1> DEFINE v == store.ver  S == Stored(store.ver)
<1>1. S \subseteq Memory /\ \A m \in S : HistoryEntry(m).version = m /\ HistoryEntry(m).object = v[m].obj
  BY DEF HistoryEntry, Stored
<1>2. ASSUME NEW t \in Time
      PROVE  /\ ValidAt(v, t) = S \ InvalidatedSetAtTime(t, Memory)
             /\ \A m \in ValidAt(v, t) : FactAsOf(t) = HistoryEntry(m)
             /\ ValidAt(v, t) = {} => FactAsOf(t) = NoEntry
  <2>1. ValidAt(v, t) = S \ InvalidatedSetAtTime(t, Memory)
    <3>1. \A m \in S : m \in ValidAt(v, t) <=> m \notin InvalidatedSetAtTime(t, Memory)
      BY Covers
    <3>2. ValidAt(v, t) \subseteq S
      BY DEF ValidAt
    <3>. QED  BY <3>1, <3>2
  <2>. QED  BY <2>1, AsOf
<1>3. CurrentFact = FactAsOf(MaxTime)
  <2>1. MaxTime \in Time
    BY FactChainAssumption DEF Time
  <2>. QED  BY <2>1, AsOf, CurrentIsValid, CurrentRead
<1>4. CASE S = {}
  <2>1. CurrentRows(v) = {} /\ CurrentFact = NoEntry
    BY <1>4, CurrentIsValid, CurrentRead
  <2>2. CurrentValues = {}
    BY <2>1 DEF CurrentValues
  <2>3. \A asked \in SUBSET Memory :
          /\ asked \cap S \subseteq DOMAIN FactVersionsFor(asked)
          /\ DOMAIN FactVersionsFor(asked) \subseteq asked
          /\ DOMAIN FactVersionsFor(asked) = {}
    BY <1>4, VersionsRead
  <2>4. \A m \in Memory : {m} \in SUBSET Memory
    OBVIOUS
  <2>. QED  BY <1>2, <1>3, <1>4, <2>1, <2>2, <2>3, <2>4 DEF ReadsAgree
<1>5. CASE S # {}
  <2>1. PICK c \in S : CurrentRows(v) = {c}
    BY <1>5, CurrentIsValid
  <2>2. CurrentFact = HistoryEntry(c) /\ CurrentFact.version = c /\ CurrentFact.object = v[c].obj
    BY <1>1, <2>1, CurrentRead
  <2>3. CurrentFact # NoEntry
    BY <2>2 DEF NoEntry, HistoryEntry
  <2>4. CurrentValues = {CurrentFact.object}
    <3>1. v[c].ts <= v[c].ts
      BY SettledTypes DEF Time
    <3>. QED  BY <2>1, <2>2, <3>1 DEF CurrentValues
  <2>5. S \ InvalidatedSet(Memory) = {CurrentFact.version}
    <3>1. \A m \in S : v[m].status \in {"current", "stale"}
      BY SettledTypes DEF Version
    <3>2. \A m \in S : v[m].status = "current" <=> m = c
      BY <1>1, <2>1 DEF CurrentRows
    <3>. QED  BY <1>1, <2>2, <3>1, <3>2 DEF InvalidatedSet
  <2>6. ASSUME NEW asked \in SUBSET Memory
        PROVE  LET found == FactVersionsFor(asked)
               IN  /\ asked \cap S \subseteq DOMAIN found /\ DOMAIN found \subseteq asked
                   /\ \A k \in DOMAIN found :
                        /\ k \in {found[k].version, Reported(found[k].version)}
                        /\ Reported(found[k].version) \in ToSet(found[k].evidence)
                        /\ found[k].current <=> found[k].by = NoMem
                        /\ ~found[k].current => found[k].at = found[k].to /\ found[k].now = {CurrentFact.object}
    BY VersionsRead, RowTells
  <2>7. \A m \in Memory : {m} \in SUBSET Memory
    OBVIOUS
  <2>. QED  BY <1>2, <1>3, <2>3, <2>4, <2>5, <2>6, <2>7 DEF ReadsAgree
<1>. QED  BY <1>4, <1>5

\* fact_history, current_fact_handler, get_current_fact_value, invalidated_set,
\* invalidated_set_at_time and fact_versions_for_memories tell one story: what a
\* query leaves out, the value now and at any instant, and who superseded whom.
THEOREM ReadsAlways ==
  ASSUME MayCorrect = FALSE
  PROVE  Spec => []ReadsAgree
<1>1. StandingInv => ReadsAgree
  BY ReadsTellOneStory DEF Settled, ReadsAgree
<1>. QED  BY <1>1, StandingInvariant, PTL

=============================================================================
