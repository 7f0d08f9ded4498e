---------------------------- MODULE QueryPipeline ----------------------------
(* One query of the HTTP handler against a store that changes under it.  The *)
(* pipeline of src/query reads the database a statement at a time, without a *)
(* transaction: the lanes that find candidates, the graph around them, three *)
(* reads that hydrate them, the current fact, the texts again, and the card  *)
(* of the first result.  Between any two of them memories are written,       *)
(* rewritten and deleted.  Scores are left open: they decide which of the    *)
(* candidates are kept and in which order, and any choice is taken here.     *)
EXTENDS Naturals, FiniteSets, Sequences

CONSTANTS
  Memory, Entity, Owner,
  Source,        \* [Memory -> Memory]: what the card of a memory restates
  Linked,        \* [Memory -> SUBSET Memory]: what the graph reaches from it
  Confident,     \* memories whose card is latest, with confidence 0.70 or more
  Limit,         \* results asked for
  HydrationCap,  \* fused candidates that are hydrated
  Bound,         \* times a question may name, and None
  MaxTime, MaxChanges,
  None, Never

ASSUME QueryAssumption ==
  /\ IsFiniteSet(Memory)
  /\ Owner \in [Memory -> Entity] /\ Source \in [Memory -> Memory]
  /\ \A m \in Memory : Source[Source[m]] = Source[m] /\ Owner[Source[m]] = Owner[m]
  /\ Linked \in [Memory -> SUBSET Memory] /\ Confident \subseteq Memory
  /\ Limit \in Nat \ {0} /\ HydrationCap \in Nat \ {0} /\ MaxTime \in Nat /\ MaxChanges \in Nat
  /\ Bound \subseteq Nat \cup {None} /\ None \notin Entity \cup Nat /\ Never \notin Nat

Time == 0 .. MaxTime
Least(a, b) == IF a <= b THEN a ELSE b

\* The bounds of a question: point_in_time_ms, known_as_of_ms, reference_time_ms.
Question ==
  [scope : Entity \cup {None}, pit : Bound, known : Bound, reference : Bound, factKey : BOOLEAN]

Row == [created : Time, recorded : Time, expires : Time \cup {Never}, text : 0 .. MaxChanges]

ASSUME NoneIsNoQuestion == None \notin Question

VARIABLES
  store,     \* [Memory -> Row \cup {None}]
  clock,
  changes,   \* writes and deletions so far
  question,  \* None between queries
  phase,
  now,       \* the time expiry is measured against
  found,     \* candidates of the lanes, then of the graph
  reads,     \* hydrating reads still under way
  hydrated,  \* [memory -> row]: the observations that were read
  carded,    \* memories whose cards were read
  results,   \* the rows of the response
  seen,      \* history: the rows stored at some moment since the question
  answer     \* the stored memories of the last response, with their texts

world == <<store, clock, changes>>
query == <<question, phase, now, found, reads, hydrated, carded, results, answer>>
vars == <<world, query, seen>>

R == INSTANCE Recall

HydrateReads == {"observations", "cards", "invalidated"}

Exists(m) == store[m] # None
InScope(m) == question.scope # None => Owner[m] = question.scope

\* The bounds as the lanes put them into SQL, and score_loop once more.
InBounds(row) ==
  /\ question.pit # None => row.created <= question.pit
  /\ question.known # None => row.recorded <= question.known

Visible == {m \in Memory : Exists(m) /\ InScope(m) /\ InBounds(store[m])}
Expired(row, t) == row.expires # Never /\ row.expires <= t

Init ==
  /\ store \in [Memory -> {None} \cup [created : Time, recorded : {0}, expires : {Never}, text : {0}]]
  /\ \A m \in Memory : Exists(m) => Exists(Source[m]) /\ store[m] = store[Source[m]]
  /\ clock = 0 /\ changes = 0
  /\ question = None /\ phase = "idle" /\ now = 0
  /\ found = {} /\ reads = {} /\ hydrated = <<>> /\ carded = {} /\ results = <<>>
  /\ seen = {} /\ answer = {}

-----------------------------------------------------------------------------
(* The store under the query.                                               *)

Changed(rows) ==
  /\ changes < MaxChanges
  /\ changes' = changes + 1
  /\ store' = rows
  /\ seen' = IF question = None THEN seen ELSE seen \cup R!Stored(rows)
  /\ UNCHANGED <<clock, query>>

\* An ingest commits a memory and some of what is derived from it.
Write(m) ==
  /\ Source[m] = m
  /\ \E ds \in SUBSET {d \in Memory : Source[d] = m}, t \in Time, e \in {Never, MaxTime} :
       LET row == [created |-> t, recorded |-> clock, expires |-> e, text |-> changes + 1]
       IN  Changed([x \in Memory |-> IF x \in ds \cup {m} THEN row ELSE store[x]])

\* A deletion takes what is derived with it.
Delete(m) ==
  /\ Exists(m)
  /\ Changed([x \in Memory |-> IF x = m \/ Source[x] = m THEN None ELSE store[x]])

Tick == clock < MaxTime /\ clock' = clock + 1 /\ UNCHANGED <<store, changes, query, seen>>

-----------------------------------------------------------------------------
(* The query.                                                               *)

QueryPipelineState(q) ==
  IF q.pit # None THEN q.pit ELSE IF q.reference # None THEN q.reference ELSE clock

Ask(q) ==
  /\ phase = "idle"
  /\ question' = q
  /\ now' = QueryPipelineState(q)
  /\ phase' = "vectors"
  /\ results' = <<>> /\ answer' = {}
  /\ seen' = R!Stored(store)
  /\ UNCHANGED <<world, found, reads, hydrated, carded>>

Step(from, to) == phase = from /\ phase' = to /\ UNCHANGED <<world, seen, question, answer>>

\* The search returns ids of the segment or of the whole index; the lookup
\* that follows keeps those that are stored within the bounds.
RetrievalAnn ==
  /\ Step("vectors", "texts")
  /\ \E hits \in SUBSET Visible : found' = hits
  /\ UNCHANGED <<now, reads, hydrated, carded, results>>

RetrievalFts ==
  /\ Step("texts", "cards")
  /\ \E hits \in SUBSET Visible : found' = found \cup hits
  /\ UNCHANGED <<now, reads, hydrated, carded, results>>

\* Cards are searched within an entity only, and not those that have expired.
CardHits ==
  IF question.scope = None THEN {} ELSE {m \in Visible : ~Expired(store[m], now)}

RetrievalCards ==
  /\ Step("cards", "graph")
  /\ \E hits \in SUBSET CardHits : found' = found \cup hits
  /\ UNCHANGED <<now, reads, hydrated, carded, results>>

\* What the links and edges of the tenant reach from the candidates, of
\* whatever entity and time: they come in with score 0, so the cap on what is
\* hydrated cuts them first.  The clock is read again unless the question
\* brings its own reference time.
Expanded ==
  LET linked == {m \in UNION {Linked[s] : s \in found} : Exists(m)}
      all == found \cup linked
  IN  {kept \in SUBSET all :
         /\ Cardinality(kept) = Least(HydrationCap, Cardinality(all))
         /\ kept \subseteq found \/ found \subseteq kept}

FusionPhase ==
  /\ Step("graph", "hydrate")
  /\ found' \in Expanded
  /\ now' = IF question.reference = None THEN clock ELSE now
  /\ reads' = HydrateReads
  /\ UNCHANGED <<hydrated, carded, results>>

\* score_hydrate: three reads on threads of their own.
Hydrate(read) ==
  /\ read \in reads
  /\ Step("hydrate", "hydrate")
  /\ reads' = reads \ {read}
  /\ hydrated' = IF read = "observations" THEN [m \in {x \in found : Exists(x)} |-> store[m]] ELSE hydrated
  /\ carded' = IF read = "cards" THEN {m \in found : Exists(m)} ELSE carded
  /\ UNCHANGED <<now, found, results>>

\* One of them failing fails the query, whatever the others return.
HydrateFails ==
  /\ reads # {}
  /\ Step("hydrate", "failed")
  /\ reads' = {}
  /\ UNCHANGED <<now, found, hydrated, carded, results>>

\* A slip: the scope is left to the lanes, which know nothing of the graph.
OwnedByLane(m) == m \in DOMAIN hydrated \/ m \in carded

Owned(m) == (m \in DOMAIN hydrated \/ m \in carded) /\ InScope(m)

\* score_hydrate's scope filter, then score_loop's filters.
Scored ==
  {m \in found : Owned(m) /\ m \in DOMAIN hydrated
                 /\ InBounds(hydrated[m]) /\ ~Expired(hydrated[m], now)}

ScoreLoop ==
  /\ reads = {}
  /\ Step("hydrate", "fact")
  /\ found' = Scored
  /\ UNCHANGED <<now, reads, hydrated, carded, results>>

SynthesizedFact == [origin |-> "fact", memory |-> None, text |-> 0]
SynthesizedCard(m, t) == [origin |-> "card", memory |-> m, text |-> t]
StoredRow(m, t) == [origin |-> "stored", memory |-> m, text |-> t]

\* get_current_fact_value, when the planner inferred a fact key: the fact as
\* it is now, whatever the bounds of the question.
CurrentFact ==
  /\ Step("fact", "select")
  /\ LET known == question.factKey /\ question.scope # None
                  /\ \E m \in Memory : Source[m] # m /\ Exists(m) /\ Owner[m] = question.scope
     IN  \E read \in BOOLEAN : results' = IF known /\ read THEN <<SynthesizedFact>> ELSE <<>>
  /\ UNCHANGED <<now, found, reads, hydrated, carded>>

\* select_candidates_with_session_head: one candidate for a source, Limit of
\* them in any order; the fact takes no slot.
Selections ==
  LET sources == {Source[m] : m \in found}
      size == Least(Limit, Cardinality(sources))
  IN  {picked \in [1 .. size -> found] :
         \A i, j \in 1 .. size : i # j => Source[picked[i]] # Source[picked[j]]}

\* The texts are read again by the id of the source; one that is gone by now
\* is answered with the text that was hydrated.
TextOf(m) == IF Exists(Source[m]) THEN store[Source[m]].text ELSE hydrated[m].text

Respond ==
  /\ Step("select", "card")
  /\ \E picked \in Selections :
       results' = results \o [i \in DOMAIN picked |-> StoredRow(Source[picked[i]], TextOf(picked[i]))]
  /\ UNCHANGED <<now, found, reads, hydrated, carded>>

\* One of these reads failing fails the query as well.
RespondFails ==
  /\ Step("select", "failed")
  /\ UNCHANGED <<now, found, reads, hydrated, carded, results>>

\* A slip: the card comes on top, like the fact.
WithCardOnTop(rows, top) == <<SynthesizedCard(top, store[top].text)>> \o rows

WithCard(rows, top) ==
  LET facts == Cardinality({i \in DOMAIN rows : rows[i].origin = "fact"})
      kept == IF Len(rows) >= Limit + facts THEN SubSeq(rows, 1, Len(rows) - 1) ELSE rows
  IN  <<SynthesizedCard(top, store[top].text)>> \o kept

\* The latest confident card of the first result becomes a row of its own;
\* at the limit the last row makes room for it.
CardAsAnswer ==
  /\ Step("card", "block")
  /\ \E read \in BOOLEAN : results' =
       IF read /\ results # <<>> /\ results[1].origin = "stored" /\ results[1].memory \in Confident
            /\ Exists(results[1].memory)
       THEN WithCard(results, results[1].memory)
       ELSE results
  /\ UNCHANGED <<now, found, reads, hydrated, carded>>

Block == [origin |-> "block", memory |-> None, text |-> 0]

\* The pipeline's own state goes with the request.
Dropped == now' = 0 /\ found' = {} /\ reads' = {} /\ hydrated' = <<>> /\ carded' = {}

\* The handler puts the observation block of the entity before the results.
Answer ==
  /\ phase = "block"
  /\ results' = IF question.scope # None THEN <<Block>> \o results ELSE results
  /\ answer' = {<<results[i].memory, results[i].text>> : i \in {j \in DOMAIN results : results[j].origin = "stored"}}
  /\ phase' = "idle"
  /\ question' = None
  /\ Dropped
  /\ UNCHANGED <<world, seen>>

\* The block reads the profile, what has been superseded of it and the graph.
BlockFails ==
  /\ Step("block", "failed")
  /\ question.scope # None
  /\ UNCHANGED <<now, found, reads, hydrated, carded, results>>

\* The error is answered; there are no results.
Fail ==
  /\ phase = "failed"
  /\ results' = <<>> /\ answer' = {}
  /\ phase' = "idle"
  /\ question' = None
  /\ Dropped
  /\ UNCHANGED <<world, seen>>

QueryStep ==
  \/ RetrievalAnn \/ RetrievalFts \/ RetrievalCards \/ FusionPhase
  \/ \E read \in HydrateReads : Hydrate(read)
  \/ HydrateFails \/ ScoreLoop \/ CurrentFact \/ Respond \/ RespondFails
  \/ CardAsAnswer \/ Answer \/ BlockFails \/ Fail

Next ==
  \/ \E m \in Memory : Write(m) \/ Delete(m)
  \/ Tick
  \/ \E q \in Question : Ask(q)
  \/ QueryStep

Spec == Init /\ [][Next]_vars /\ WF_vars(QueryStep)

-----------------------------------------------------------------------------

\* The response stays within what was asked for: the memories and the card
\* count against the limit, the fact of the entity and the observation block
\* come on top, and no memory is listed twice, though turns and the records
\* derived from them are found, scored and selected apart.
WithinLimit ==
  phase = "idle" =>
    LET of(origins) == {i \in DOMAIN results : results[i].origin \in origins}
    IN  /\ Cardinality(of({"stored", "card"})) <= Limit
        /\ Len(results) <= Limit + 2
        /\ \A i, j \in of({"stored"}) : results[i].memory = results[j].memory => i = j

\* Reading the store a statement at a time is no worse than one read at some
\* moment of the query, memory by memory: nothing deleted before the
\* question, out of its scope or out of its bounds is answered, though the
\* graph brings in memories of any entity and time.
AnswersOfTheStore == R!Spec

=============================================================================
