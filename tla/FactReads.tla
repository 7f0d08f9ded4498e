------------------------------ MODULE FactReads ------------------------------
(* What is read of a fact: its history, its value now and at an instant, the  *)
(* memories whose fact has been superseded, and the versions reported with    *)
(* the memories of an answer.  Reads see the committed tables of FactChain.   *)
EXTENDS FactChain, SequencesExt

CONSTANT Ids  \* the memory ids in the order of their text

ASSUME FactReadsAssumption == Ids \in Seq(Memory) /\ ToSet(Ids) = Memory /\ IsInjective(Ids)

NoEntry == [memory |-> NoMem]

IdBefore(m, n) == \E i, j \in DOMAIN Ids : i < j /\ Ids[i] = m /\ Ids[j] = n

\* ORDER BY time, memory_id: the time being at[m] for m of S.
Earlier(S, at) ==
  {e \in S \X S : at[e[1]] < at[e[2]] \/ (at[e[1]] = at[e[2]] /\ IdBefore(e[1], e[2]))}
Newer(S, at) ==
  {e \in S \X S : at[e[1]] > at[e[2]] \/ (at[e[1]] = at[e[2]] /\ IdBefore(e[1], e[2]))}
Ordered(S, before) ==
  CHOOSE q \in [1..Cardinality(S) -> S] : \A i, j \in DOMAIN q : i < j => <<q[i], q[j]>> \in before

\* ORDER BY valid_from_ms, memory_id
ByValidity(S) == Ordered(S, Earlier(S, [m \in S |-> store.ver[m].from]))

\* COALESCE(parent_memory_id, memory_id): the turn that the client sent.
Reported(m) ==
  IF m # NoMem /\ store.said[m] # Unsaid /\ \E p \in Memory : m \in Derived[p]
  THEN CHOOSE p \in Memory : m \in Derived[p] ELSE m

\* What states a version, newest first.
EvidenceFor(version) ==
  LET of == {m \in Memory : <<version, m>> \in store.evidence}
      sorted == Ordered(of, Newer(of, [m \in of |-> store.said[m].ts]))
  IN  [i \in DOMAIN sorted |-> Reported(sorted[i])]

HistoryEntry(m) ==
  LET v == store.ver[m]
  IN  [version |-> m, memory |-> Reported(m), object |-> v.obj, current |-> v.status = "current",
       from |-> v.from, to |-> v.to, evidence |-> EvidenceFor(m)]

FactHistory ==
  LET sorted == ByValidity(Stored(store.ver)) IN [i \in DOMAIN sorted |-> HistoryEntry(sorted[i])]

\* current_fact_handler with as_of_ms: the last entry that covers the instant.
FactAsOf(t) ==
  LET history == FactHistory
      covers(e) == e.from <= t /\ (e.to = NoTime \/ t < e.to)
      found == {i \in DOMAIN history : covers(history[i])}
  IN  IF found = {} THEN NoEntry ELSE history[Max(found)]

\* Without: the first entry that is current.
CurrentFact ==
  LET history == FactHistory
      found == {i \in DOMAIN history : history[i].current}
  IN  IF found = {} THEN NoEntry ELSE history[Min(found)]

\* get_current_fact_value: the latest of the current versions.
CurrentValues ==
  {store.ver[m].obj : m \in {m \in CurrentRows(store.ver) :
     \A n \in CurrentRows(store.ver) : store.ver[n].ts <= store.ver[m].ts}}

InvalidatedSet(asked) == {m \in asked \cap Stored(store.ver) : store.ver[m].status = "stale"}

\* Slip: a version is left in at the instant it ends.
InvalidatedPastEnd(t, asked) ==
  {m \in asked \cap Stored(store.ver) :
     (store.ver[m].to # NoTime /\ store.ver[m].to < t) \/ store.ver[m].from > t}

InvalidatedSetAtTime(t, asked) ==
  {m \in asked \cap Stored(store.ver) :
     (store.ver[m].to # NoTime /\ store.ver[m].to <= t) \/ store.ver[m].from > t}

VersionRow(m) ==
  LET v == store.ver[m]
  IN  [version |-> m, object |-> v.obj, current |-> v.status = "current", from |-> v.from, to |-> v.to,
       by |-> Reported(v.by),
       now |-> {store.ver[c].obj : c \in CurrentRows(store.ver)},
       at |-> IF v.by \in Stored(store.ver) THEN store.ver[v.by].ts ELSE NoTime,
       evidence |-> EvidenceFor(m)]

\* The rows of the memories asked for and of the records derived from them.  A
\* memory that is asked for has its own row, a derived one that is not has that
\* of its turn; the last row of a memory stays.
FactVersionsFor(asked) ==
  LET rows == ByValidity({m \in Stored(store.ver) : m \in asked \/ Reported(m) \in asked})
      key(m) == IF m \in asked THEN m ELSE Reported(m)
      row(k) == rows[Max({i \in DOMAIN rows : key(rows[i]) = k})]
  IN  [k \in {key(rows[i]) : i \in DOMAIN rows} |-> VersionRow(row(k))]

-----------------------------------------------------------------------------

\* Evidence and edges stand with the versions they are about.
StandingsAgree == EvidenceSupports /\ EdgeFollowsVersion

\* At every instant the history, the filter of queries and the chain name one
\* version; the value now is that of every instant since the newest version;
\* and a version reported as superseded names a successor that took over at
\* the moment it ended, and the value that holds now.  The tables change only
\* when a transaction ends, so reads within one see what is seen before it.
ReadsAgree ==
  ~open =>
    /\ \A t \in Time :
         /\ ValidAt(store.ver, t) = Stored(store.ver) \ InvalidatedSetAtTime(t, Memory)
         /\ \A m \in ValidAt(store.ver, t) : FactAsOf(t) = HistoryEntry(m)
         /\ ValidAt(store.ver, t) = {} => FactAsOf(t) = NoEntry
    /\ CurrentFact = FactAsOf(MaxTime)
    /\ CurrentValues = IF CurrentFact = NoEntry THEN {} ELSE {CurrentFact.object}
    /\ Stored(store.ver) # {} => Stored(store.ver) \ InvalidatedSet(Memory) = {CurrentFact.version}
    /\ \A asked \in {Memory} \cup {{m} : m \in Memory} :
         LET found == FactVersionsFor(asked)
         IN  /\ asked \cap Stored(store.ver) \subseteq DOMAIN found /\ DOMAIN found \subseteq asked
             /\ \A k \in DOMAIN found :
                  /\ k \in {found[k].version, Reported(found[k].version)}
                  /\ Reported(found[k].version) \in ToSet(found[k].evidence)
                  /\ found[k].current <=> found[k].by = NoMem
                  /\ ~found[k].current => found[k].at = found[k].to /\ found[k].now = {CurrentFact.object}

-----------------------------------------------------------------------------
(* Said of the code, and not kept by it.                                     *)

\* "Direct matches win over a turn's derived records": a memory that has a
\* version of its own is answered with it.  The row of a derived record whose
\* version is valid from a later time replaces it, being read last.
DirectMatchesWin ==
  \A m \in Stored(store.ver) : FactVersionsFor({m})[m].version = m

========================================
