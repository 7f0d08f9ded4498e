# tellodb in TLA+

tellodb is a local-first temporal memory engine for agents. A client stores
*memories* (short texts with an event time) and asks for those that matter to a
query. The engine derives more from each memory: facts with a validity history,
cards, graph edges, links, a full-text row, a vector, a line of a core profile, a
session document. This directory models how that derived state is kept in step
with the memories and how questions are answered from it, checks the models with
TLC on small instances, and proves the results that matter most with TLAPS for
every instance.

Run everything from this directory:

    tlc -workers 2 -config MCFactChain.cfg MCFactChain.tla   # one run
    tlapm FactChainProofs.tla                                # one set of proofs

`PROJECT.json` lists the runs, the source lines each definition translates, the
hazards of the code with the properties that cover them, and for each property a
plausible slip (an operator such as `LinkPredecessorCurrent`, defined next to the
real `LinkPredecessor`) under which the run finds the property violated.

## 1. The system and its parts

One process serves many *tenants*. A tenant has one SQLite database
(write-ahead log, foreign keys on, every write in an immediate transaction), and one in-memory
vector index. A *platform* database beside them has users, web sessions, API keys
and usage. Requests arrive over HTTP, through the MCP bridge, or by calls of the
embedded `Db`; all end in the same handlers. Blocking work runs on tokio's
blocking threads. A maintenance task ticks every 300 seconds.

| Component | Source (under `src/src/`) | State | Modelled in |
|---|---|---|---|
| Fact version chains | `storage/repo/facts.rs`, `ingest.rs`, `memories.rs` | `fact_versions`, `fact_evidence`, the status of cards and edges | `FactChain`, `FactReads` |
| Predicate groups | `storage/repo/facts.rs`, `api/handlers/ingest.rs` | `predicate_canon` | `PredicateCanon` |
| Ingest commit, indexing, repair | `api/handlers/ingest.rs`, `storage/repo/ingest.rs`, `fts.rs` | `memories.indexed`, `fts_memories`, `vector_lookup`, the segment | `IngestIndex` |
| Text extraction at ingest | `api/handlers/ingest.rs`, `api/ingest/*` | the batch on its way | `BatchPreparation` |
| Context windows | `api/ingest/embed_text.rs` | the vectors of a session's turns | `ContextWindow` |
| Links between memories | `api/handlers/ingest.rs`, `storage/repo/ingest.rs` | `memory_links` | `MemoryLinks` |
| Core profile consolidation | `api/handlers/ingest.rs`, `storage/repo/admin.rs` | `consolidation_queue`, `core_profiles` | `Consolidation` |
| Flat vector segments | `vector_index.rs` | ids, codes, positions | `FlatSegment`, `VectorMap` |
| Vector index, tenant manager | `vector_index.rs`, `storage/manager.rs` | segments behind slots, open stores | `VectorCache` |
| Session router | `storage/tenant.rs`, `storage/repo/sessions.rs` | `session_router`, its sources, two full-text rows | `SessionRouter` |
| Retention | `lifecycle.rs`, `storage/repo/admin.rs` | `memories.expires_at_ms` | `Lifecycle`, `Retention` |
| Embedding and scoring models | `semantic.rs` | two caches, permits, executors | `Models` |
| Schema and migrations | `storage/repo/schema.rs` | the file, `user_version` | `SchemaMigration` |
| Rate limiter | `api/auth.rs` | token buckets | `RateLimiter`, `TokenBuckets` |
| Accounts, sessions, API keys | `platform.rs`, `api/auth.rs`, `api/handlers/platform.rs` | the platform tables, the map of last uses | `Accounts` |
| Usage and profile writer | `api/mod.rs`, `platform.rs` | a bounded channel, what is pending | `UsageWriter` |
| Query pipeline | `query/`, `api/handlers/query.rs` | one query under way | `Recall`, `QueryPipeline`, `WidenedSearch` |
| Scoring, selection, fusion, graph, planning | `api/plan/`, `query/`, `retrieval/`, `storage/repo/{graph,sessions}.rs` | none | `CandidateScoring`, `Selection`, `RankFusion`, `GraphWalk`, `QueryPlanning` |
| Calendar | `core/calendar.rs`, `api/ingest/datetime.rs`, `storage/repo/sessions.rs` | none | `Calendar` |
| HTTP surface, configuration, metrics, MCP bridge, embedded facade, entity resolver, text normalisation, benchmarks | the other files | none that others depend on | not modelled (section 6) |

The "components" of `PROJECT.json` name the files of each part exactly and say
what of it is left out.

### How they interact

*An ingest* splits its memories into chunks and derives records (facts,
companions, cards), drops those whose stored row has the same content and is
indexed, embeds the rest with the stored turns around them, drops facts the
entity has already, searches what the rest recalls, and calls `commit_ingest`: one
immediate transaction that writes the memories with their expiry, the vector
rows, cards, links, the session router, the consolidation queue, the groups of
new predicates, and last the facts with their edges and evidence. Then two
blocking tasks write the full-text rows and the vectors of the segment. If one
of them fails the handler tries an inline repair. `mark_indexed` sets the flag of
the rows. The answer is sent, and a last blocking task folds the batch into the
core profile. Between any two of these the process may die and the handler may be
dropped by a client that hangs up.

*A deletion* (`delete_observation`) erases, in one transaction, the memory and
the ids that extend `id::`, rebuilds the fact chains and the session router, and
takes its line out of the profile; after the transaction it removes the vectors
from the segment.

*A query* plans from its words, searches by vector (widening within an entity), by
text and among cards, fuses, walks the graph, reads the candidates, scores and
selects them, and adds the current fact and a card. No transaction spans its reads.

*Before a handler* runs, its address and key are charged in the rate limiter and
its key or session is looked up in the platform database; *after* it, usage is sent
to the background writer without waiting.

*The tick* (`main.rs`) purges web sessions and then, per tenant: repairs rows
left unindexed (`reindex_unindexed`, 500 at a time), runs the queued
consolidations (500), checkpoints the log, expires cards, and purges expired memories
(500, each by `delete_observation`). An error ends the step for that tenant
until the next tick.

*The tenant manager* keeps an LRU cache of opened stores. A store owns its
vector index, so what the manager forgets and opens again has another index. A
file of an older version is migrated when it is opened.

### What is hard, and what must hold

* The order of events: versions come in any order of event time. The chain must
  always be *the* sorted history: one current version, validity intervals that
  meet, right links, and cards, edges, evidence and every read that agree. The turns of
  a session come in any cut of batches, and their vectors must not show it.
* Several actors on one memory: two requests, the tick, blocking tasks of a
  request that is gone. A row flagged as indexed must be found by a search; what
  was acknowledged must be found; what was deleted must leave nothing behind, nor
  be answered by a query that began later.
* Failure between two steps: everything stored becomes searchable, every queued
  fact reaches the profile, everything expired is erased, an upgrade that is cut
  off goes on where it was.
* Caches of tables: a segment loaded while writers commit must not lose a write;
  a cached score belongs to its text; a key taken for written is.
* Limits: buckets are bounded by addresses, not by keys; the writer's channel
  refuses rather than waits; permits of the models come back.
* Text derived from several memories (profile, router) quotes exactly those
  that are stored.

## 2. The modules

Each module says at its head what it is about; its CONSTANTS bound everything
that grows. An `MC*` module instantiates several components that share no state
and lets one of them move (`part`), so that one run asks the questions of a theme;
it names model values, data and symmetry, and joins properties of one theme
(`UseIsWritten == A!TouchedIsWritten /\ W!UsageConserved /\ W!ProfileIsLatest`).

**FactChain.** `store` is the committed tables, `work` what the open transaction
sees: SQLite admits one writer, so `Begin` and `Delete` wait for it. `Begin` is
`commit_ingest` up to the facts; `Register` is one turn of the loop in
`register_fact_versions_tx`, which is `Confirm` (the value is the one already
valid at that time: evidence only) or `Insert` (a row, with both neighbours
looked up by `(timestamp, recorded_at, rowid)` and linked, the card and edge of what
it supersedes demoted); `Commit` includes the repair `promote_newest_to_current`;
`Abort` is any error; `Delete` is `delete_observation` with
`rebuild_fact_chain_after_delete`. A new rowid is one more than the largest in
use, so one freed by a deletion is given again; the wall clock is any reading, so
it may step back. **FactReads** extends it with what is read: the history, the
current value, the value at an instant, and which memories a query leaves out.

**PredicateCanon.** `Embed` fixes the predicates of a batch and the model,
`Commit` files the facts under the groups that `Canonicalized` finds or founds: each
predicate in the table that those before it have left (`Before`), without recursion; `SwitchModel` is a restart with other dimensions.

**IngestIndex.** One entity. A request goes through `Check`, `Commit`, the two
tasks `IndexFts` and `IndexVector` that run side by side, `MarkIndexed` or the
inline repair; the tick's repair has the same four steps (`RepairRead`,
`RepairFts`, `RepairVector`, `RepairFinish`). `HangUp` drops the handler at any
await while its blocking tasks go on. `Load` reads the segment on first use;
`Crash` loses the segment and all tasks. Deletion is `LookUp`, `Erase`, `Forget`.

**BatchPreparation.** A request as a function of its texts: `Expanded` (chunks
and derived records), `KeepPayload`, `Embeddings` for some records, `Taken` (they
are handed out in order), semantic duplicates, and the rows of every table that
result; `DeleteObservation` erases by the prefix of the id. Which text yields what is
data of the instance. **ContextWindow.** `Build` reads the stored turns around the
batch, `Filter` drops re-sends, `Commit` writes the turns and the neighbours'
vectors. **MemoryLinks.** `Prepare`, two searches with their lookups, `Name`, and
`Commit`, with `Delete` between any two.

**Consolidation.** `Ingest` queues the fact with its memory; a worker (the
blocking task) and the tick take facts from their lists, `UpdateProfile` and then
`CompleteTask` as two transactions. `Folded` is `update_core_profile_heuristic`:
ignore a memory that is there, else put the fact behind all that is as recent (`Placed`:
what a stable sort does to a fact pushed at the end of a sorted list) and cut after `MaxFacts`.

**VectorMap, FlatSegment.** A map from ids to vectors, and the rows, ids and
positions of `FlatSegment`, where a removal moves the last row into the hole.
`FlatSegment` implements `VectorMap` with `held <- Held`. **VectorCache.** Stores
opened by the manager, one slot per store, a segment per slot with its lock. A write
commits to the table (`Commit`), fetches the slot (`TakeSlot`), then changes the
segment (`Insert`, `Remove`). A search or a write that finds nothing loaded reads
the table under the lock (`StartLoad`, `FinishLoad`). Past the threshold the flat
segment is dropped and the next load builds a graph. `Clear` forgets the slots,
`Evict` the store.

**SessionRouter.** An open module: fragments, record and the two documents of a
session, with `MergeBatch` (inside an ingest's transaction), `DeleteFromRouter`
(inside a deletion's) and the steps of a repair. **Lifecycle** holds the
retention policy as operators on integers (thousandths and hundredths for the
code's decimals). **Retention** extends both: the clock, the expiry stored with each
memory, `StartTick`, `PurgeList`, `PurgeOne`, errors.

**Models.** Calls of `embed_texts` (`EmbedTexts`, `Acquire`, `Lock`, `Infer`,
`JoinEmbeddings`, each write of the cache) and of `predict_scores_batch` on threads
that wait for permits and locks. **SchemaMigration.** A file of an older version,
`Open`, one action per statement of `migrate`, `Crash` anywhere, then the open
database.

**TokenBuckets, RateLimiter.** The abstract limiter has a bucket for everyone,
refilled all the time; the code's has a map with lazy refill and pruning.
**Accounts.** The statements of signup, login, authentication, key creation,
injection, revocation and purge, interleaved. **UsageWriter.** `select` over the
bounded channel and the ticker, flushes that fail, the end of the process.

**Recall, QueryPipeline, WidenedSearch.** `Recall` is what a query promises while
the store changes: each memory it answers with was stored, in scope and in
bounds, at some moment of the query. `QueryPipeline` reads lane by lane and
implements it. `WidenedSearch` is the loop of `retrieval_ann`: an attempt searches,
looks up and decides, and either call may fail; rows come and go in between; history
variables keep what was stored all along and what a failed lookup was the first to meet.
**CandidateScoring, Selection, RankFusion, GraphWalk, QueryPlanning, Calendar**
are operators; **QueryFunctions** ranges over their inputs and compares them with
reference definitions.

## 3. What the runs check

| Run | Bounds | What it shows |
|---|---|---|
| `fact_chain` | 3 memories (one derived from another), 2 objects, 3 event times, 2 clock readings, batches of 2 | `OneCurrent`, `ChainLinked`, `OneValueAtEveryTime` at every commit; `StandingsAgree`: evidence, edges and cards follow the versions; `ReadsAgree`: the value now, the value at an instant, the history and the filter of queries tell one story; `PastIsStable`: later statements leave what was valid earlier alone; `SupersessionDemotesCard` |
| `ingest_retry` | 2 memories, 2 requests (ingests or deletions) that overlap, one text without a vector, 1 failure, 1 crash, hang-ups | `OneContentIsSearchable`: a memory that is only ever sent with one content is found by it once it is marked indexed; `AckedIsSearchable`; and, under fairness, `Recovered` |
| `index` | life of a memory: 2 texts, 3 requests one after another, 1 failure, 1 crash; segment: 4 ids, any number of operations; cache: 2 vectors, 3 processes, threshold 1, 5 operations, resets; windows: 4 turns, 2 texts, window 1; models: 3 texts, 2 executors and permits, batches of 1, 3 calls, 1 failure; file: versions 0, 3, 4, 6, 7, 8, 2 memories, 2 crashes, 3 openings; predicates: 3, where the middle one is like both others, 2 models, 2 requests; links: 4 memories, 2 deletions | `RowsAligned`, `ImplementsMap`; `IndexesMirrorTables`, also after an upgrade; `CacheCoherent`; `PreparedFitsStored`: windows, links and groups; `ModelsAnswerRight`: every text its own vector and score, permits come back, no call stays blocked |
| `maintenance` | profile: 3 memories, 2 times, 2 places, a worker and the tick; expiry: a conversation with a derived memory and an inferred one, 3 days at the policy's periods, 1 purge per tick; batch: 3 memories of up to 2 pieces; 1 error, 1 crash | `ProfileOfStored`, `NoFactLost`, `RouterOfTheStored`, `BatchIsSound`, `SaidIsKept`, `KeptUntilDue`, and under fairness `WorkIsDone` |
| `access` | 2 addresses, 4 keys, 2 clients, small bursts, 3 ticks of the clock; 2 names, 2 sessions, 2 requests, 4 operations; 3 texts, a channel of 2, flushes of 2, profiles of 2 facts | `BucketsBounded`, `ImplementsTokenBuckets`, `SessionsUntilExpiry`, `RevokedStaysOut`, `UseIsWritten` |
| `query` | a turn, its derived record and a memory of another entity, 1 result, 1 change of the store; 6 vectors, 3 attempts, 2 rows that come or go; questions of up to 3 cues and 3 subjects; kinds, intents, links, edges, hits and years as listed in the cfg | `AnswersOfTheStore` (the refinement of `Recall`), `WithinLimit`, `WidenedFindsAsOne`, `RankingIsFair`, `QuestionIsCovered`, `MoreIsNoLess`, `PolicyAgrees`, `CalendarsAgree` |

Why the bounds are enough: a registration looks at two neighbours, so three
versions cover before, between, after and equal; two requests on one memory reach
every overlap of two handlers, and what a third adds is either covered by the proofs
of *IngestIndexProofs*, which are for any number of requests, or is told below
(ingest, delete, ingest again); a profile of two of three facts truncates;
two vectors with a threshold of one cross it; a question's intent is decided by at most two of its
cues, so that with three every change of the intent by one more cue is met, within the
rows of each profile; of two rows one may come and one go between any two
attempts; two executors with batches of one let results return out of order; a text of two pieces shifts what follows it; one
failure and one crash at *every* place reach each partial state, and nothing in
the code counts failures; three linked memories give the graph a cycle; years
span every case of the leap rule; thresholds of the policy, and the counts it caps,
are crossed on both sides.

Restrictions that keep a run within what holds, each a named constant:
`MayCorrect = FALSE` in `fact_chain` (a stored memory is sent again only
unchanged); `MayUpdate = FALSE` in `ingest_retry`, whose deletions may overlap
anything, and `RequestsOverlap` and `TickOverlaps` `FALSE` in the life of `index`,
which also says what is left of what is deleted; `DeletesOverlap`, `RepairsOverlap`, `RestoresOverlap`, `MayEvict`,
`SharedVectors`, `MayWait` (a caller that waits for the limiter's mutex with an
old reading of the clock), `MayOverlap` and `MayResend` of the windows, `MayUpdate` and
`MayDeleteSplit` of the batch, `Permuted` of the models, all `FALSE`; `From` of the
migrations without 1 and 2; and `MayDisagree = FALSE` in `query`, whose texts name dates
in the forms that both calendars read alike (a date in dashes or in words, a month and
its year, a relative word). Lifting them is the subject of what follows.

Runs without `CHECK_DEADLOCK`: all but `fact_chain` and `fact_corrected`, because
bounded counts of requests, operations or ingests run out, and a server without
requests does stand still. Where standing still would be wrong, a property says
so (`CallsCanProceed` of `Models`).

### Where code and documentation disagree

Six runs state what a test, a comment or a document says and find it violated.

* `fact_corrected`: `promote_newest_to_current` is documented to repair a chain
  left without a current row. A stored memory ingested again with a later
  timestamp keeps its row, finds itself as its own predecessor, and is marked
  superseded by itself; nothing was deferred, so the repair is not reached.
* `ingest_update`: `stale_repair_cannot_mark_newer_content_complete` tests that
  a repair of older content leaves the row unmarked. When the update's own
  `mark_indexed` comes after the repair's last step, the row ends marked complete with
  the old text in `fts_memories`.
* `consolidation_delete`: `deleted_memory_leaves_no_text_anywhere` consolidates
  before it deletes. A deletion between an ingest's commit and its blocking task
  leaves the deleted text in `core_profiles`.
* `context_resend`: the head of `embed_text.rs` says the result does not depend on
  batch size or order. A stored turn sent again beside a new one is skipped as a
  neighbour and then dropped as a re-send, so its vector misses the new turn.
* `delete_split`: `DELETE` is said to delete a memory with every record derived
  from it. A text that was split is stored under the ids of its chunks only; its
  own id is not found and nothing is deleted.
* `rerank_reordered`: scores are documented to come back in the order of the
  texts. The cache's key forgets the order and its value does not.

Met while modelling, without a run of their own (the constants and definitions
are there to reproduce them):

* `RestoresOverlap = TRUE`: the purge lists ids, then deletes by id, so a memory
  stored anew in between is erased (`KeptUntilDue`). A memory sent again after it has
  expired and before it is purged is answered as already stored, then erased.
* `RepairsOverlap = TRUE`: a repair writes a router text it read before an ingest
  or deletion (`RouterDocsAgree`). A comment in `merge_router_records_tx` says the
  repair can never rebuild a router document; `reindex_rows` writes one. The router's
  text is built before the merged `session_focus` is written.
* Three requests on one memory: an ingest that has written its indexes and is about
  to mark the row, a deletion of the memory, and an ingest of it again. `mark_indexed`
  goes by the id alone, so the first one marks the third one's row before that one's
  vector is in the segment, and the row is marked indexed without being found
  (`IndexedIsSearchable` of `IngestIndex`). Two requests cannot show it.
  `OneContentIsSearchable` therefore speaks of memories that no request deletes or
  sends with another content.
* `MayEvict = TRUE`: a store evicted while an ingest holds it and opened again is a
  second index that never sees the ingest's vectors (`SegmentCoherent`).
* `SharedVectors = TRUE`: of two writers of one id, the one that committed first may get
  the slot's lock last, and the segment keeps its older vector (`SegmentCoherent`).
* `MayWait = TRUE`: a bucket charged with an old reading is set back in time and
  refills twice. `MayOverlap = TRUE`: two requests of a session do not see each
  other's turns. `MayUpdate = TRUE` (batch): a corrected text close to its old vector is
  dropped as its duplicate (`SaidIsKept`).
* `From` with 1: versions below 3 have their full-text index dropped with a warning
  to ingest again; the rows stay marked indexed with their hashes, so ingesting
  again is filtered as already stored and the text is never searchable.
* `LatestStatementHolds`: a value restated later is only evidence for the older
  version, so a value stated between the two becomes current. `EdgeKeepsObject`,
  `CurrentCardIsLatest` do not hold either. `DirectMatchesWin` (`FactReads`): the
  row of a derived record overrides the turn's own. `db.rs:342` promises a history
  "oldest first"; the order is by `valid_from`, then by memory id.
* `KeepsMostRecent`: with updates or deletions the profile need not hold the most
  recent facts. `SmallIsFlat`: a graph that shrinks below the threshold stays a graph.
* A link whose end is deleted between the search and the commit stays (`LinksHold`
  allows exactly that); chunks are linked to the sent id, which nothing is stored under.
* Of two memories that say the same, the second fact is not stored; deleting the
  first erases the only record of it. Numbers of a split memory are kept by the sent id.
* `MayDisagree = TRUE` (`AskedAsSaid`, over the texts of `ReadDifferently`): ingest reads dashes only, so the header `[Session Date: 2023/05/20]` of a
  comment is read as 1 January; "last week of October 2023", "summer 2022" and a
  year before its month give other times at ingest than at a question. Beside these, ingest rolls
  30 February into March, queries clamp it; the ranges of years differ; windows of
  sessions include their end.
* A failed lookup within a widening search: `retrieval_ann` puts an id into
  `seen_vector_ids` before it looks at what the lookup gave, so the vectors that a
  failed lookup was the first to meet are skipped by every wider attempt, although
  their ids are looked up again (`lost` of `WidenedSearch`). The query answers without
  them; `WidenedFindsAsOne` states that nothing else is missed.
* A question that asks for more may be searched less for, when a cue changes its
  intent: "in total" added to a question with "called" or "would" makes it a count
  and lowers its tops (of full text from 96 to 90 in the balanced profile, from 160
  in research; of vectors, without an entity, from 200 to 100); added to a question for
  a time it lowers the full-text top and, where nothing else decomposes the question,
  the sessions routed to; "called" lowers the latter only.
  `SetByIntent` lists these; `DemandsOnlyWiden` states that no other limit falls, and
  `NeverBelowBare` that none falls below that of a question without cues.
* Queries: words such as "how many" are stripped before they are looked for; the
  numeric row of the budget is out of reach; the plain lane of the route does not run
  when there are subjects; a rerank batch that fails scores 0; a name of two letters
  is never searched; the first phase's fact ignores the point in time; decay raises a
  negative score.
* The resolver's documentation says a higher-priority tier wins; `resolve_name` tries
  the phonetic tier (1) before embeddings (2). Nothing calls it.
* `expire_records` looks at cards with `expires_at`, which ingest never sets.
  `docs/AUDIT-2026-09-21.md:177` says retention never erases anything; the tick does.

## 4. Fairness

Weak fairness is assumed only of what the code itself schedules: the tick (an
interval timer), the steps of its blocking work, in `Retention` the steps of
a repair under way, and in the query modules the next step of a query that began,
whose future is polled until it ends. Nothing is assumed of clients, of the
blocking tasks of their requests, of searches beside them or of the clock, any of
which may stop for good: what a lost task has left is for the tick to do. Errors
and crashes are bounded (`MaxFail`, `MaxCrash`), which states that they are
transient: a row that fails for ever does stop the tick at that row, and is listed
as a hazard without a property. The fairness of `MCMaintenance` is that of its
parts, each while its part moves.

## 5. What is proved

Eight modules hold theorems, each for every value of the constants that meets the
assumptions its component's module states.

*FactChainProofs* proves `TypeCorrect`, for any finite set of memories and any
bounds, and then that the chain is always the sorted history. It has one lemma per
action and per helper. The three
properties of the order are about the committed tables and none is inductive: whether an
insertion keeps the links depends on the open transaction's chain, on rows being
told apart by their key, and on the memory rows agreeing with the version rows.
The inductive invariant `ChainInv` therefore says:

* `TypeOK`;
* of `store` and of `work`: keys are distinct, every version's `supersedes`,
  `superseded_by` and validity are exactly those its neighbours in the order dictate, and the
  timestamps and values agree with what the memories say (`Chain`, `Faithful`);
* a registration still in the batch is what its memory row says (`BatchSaid`);
  with no open transaction the batch is empty.

The argument: `Least` gives a finite total order its least element, so the
neighbour queries answer (`QueriesAnswer`, `NextQuery`, `PrevQuery`). `LinkedRows` and `LinkedChain`
show that linking a row between its neighbours yields a chain again,
`RebuiltChain` the same of the rebuild after a deletion. `CommitChain` shows a
by-product: under the premise, `promote_newest_to_current` changes nothing, as
its comment hopes. `OneCurrentAlways`, `ChainLinkedAlways` and `OneValueAlways`
follow from the invariant. Their premise is `MayCorrect = FALSE`; the run
`fact_corrected` shows that it is needed. The theorems also cover objects whose
normal form is empty, which the run leaves out.

It goes on from there, under the same premise, to the tables around the chain. `StandingInv` adds to `ChainInv`, for the committed tables and the open transaction:
evidence joins rows that are there and state one value, and every version has its own
(`EvidenceFits`); every version has an edge with its standing (`EdgesFit`), which
is what keeps a later restatement, whose statement adds missing edges as current, away from a
superseded one; the transaction drops no version and moves none (`OnlyGrows`); and
a version the transaction has demoted has lost the mark on its card
(`DemotedCards`). From it follow `StandingsAgreeAlways`, and the two action
properties: `PastIsStableAlways`, where the newest version stated by an instant can only
be replaced by one the commit brings, and `SupersessionAlways`.

The reads follow in `ReadsAlways`. A statement's ORDER BY is the operator `Ordered` of
*FactReads*, the list in which earlier rows come first; `CanBeOrdered` and
`OrderedLists` show that there is such a list of any finite set whose rows the order tells
apart, and that it holds every row once. Because the chain is sorted, an entry of
the history covers an instant exactly when its version is valid then, and at most one is
(`Covers`, `OneValid`); the current version is the one valid at the last instant
(`CurrentIsValid`), hence the two reads of the value now agree (`CurrentRead`). Rows
reported with an answer name the successor that the links of `Chain` give them (`RowTells`),
each memory asked for gets the last of its rows (`VersionsRead`), and `OwnEvidence` has the turn
itself among the evidence. All of it is said of the committed tables outside a transaction.

*IngestIndexProofs* proves `OneContentAlways` and `AckedAlways`: any number of
overlapping ingests and deletions, failures, crashes, hang-ups and ticks never leave a
memory that is only sent with one content marked as indexed, or acknowledged,
without being found by it. Being marked depends on what the request or the repair has done
before, and that on nobody having replaced the row since; so `IndexInv` says what
every request's and every repair's progress means for the indexes (`RequestFits`,
`RepairFits`), that a vector id in use belongs to one memory and is older than those to
come (`VidsFit`: without it another memory's write could replace the vector), and which
fields the stages fill (`StagesFit`). That `IndexedIsSearchable` was not provable
is how the finding about three requests above was met.

Where requests and the tick follow each other (`Sequential`: the assumption of the
run `index`, under which clients update, delete, hang up and index writes fail and
the process crashes all the same), it is: `SequentialIndexAlways` is
`IndexedIsSearchable` and `NoOrphanText`, and `SegmentMirrorsAlways` is
`SegmentMirrorsLookup` where every text has its vector (`Unembedded = {}`, as in that
run: where a text with a vector is replaced by one without, `commit_ingest` removes the row of
`vector_lookup` only, so the segment keeps the older vector and no deletion finds it). `WorkInv` adds to
`IndexInv` that one request works at a time, or the tick (`OneWorks`), that what it
has done so far is in the indexes (`WorkFits`, `SawFits`), and that the flags of all
rows tell the truth (`TablesFit`); `SegmentFits` says that only the vector of a
row, or of one whose deletion is about to forget it, is in the segment.

*QueryPipelineProofs* proves `LimitAlways` and `PipelineImplementsRecall`, the refinement of
`Recall`, for any finite set of memories, any questions (`None` is not one), lanes,
limits and failed reads. Each stage reads the store at its own moment, so the
invariant `Inv` relates what it holds to the history `seen` of the abstract
specification: the store as it is, and every hydrated row, were seen
(`SeenFits`); what was scored is hydrated and in scope (`ScoredFits`); rows of the response
may be answered (`AnswerFits`); and only the fact and the observation block, at the top,
come on top of the limit (`RowsFit`).

*AccessProofs* proves `SessionsAlways` and `RevokedAlways` for the accounts, for any
users, requests, keys and bounds, where the operator does not choose the ids and secrets
of keys still to be minted (`AccessAssumption`). Sessions: the history of grants and
the table agree but for rows that are over (`SessionsFit`). Revocation: that a
revoked secret stays out depends on no other row having it, hence on secrets being
minted once and on `inject_api_key` replacing the row with the same hash (`SecretsFit`); a
request that came with a revoked one has not looked yet and will find no enabled row
(`RevokedFit`).
`TouchedAlways` is the part of `UseIsWritten` about keys: what `touch_key` remembers
is never ahead of the clock, and a request that has marked the map goes on to write the
row it has read (`TouchedFit`).

Of the writer's usage it proves `UsageAlways`, the part of `UseIsWritten` about
counters, for any sizes of channel and batch: what is in the channel is a sum over its
places (`UsageCounts`), which an appended operation raises by one and a received one
lowers by one, and every other move passes whole counters on (`UsageFit`).

`ProfileAlwaysLatest` is its part about profiles, for any positive length of the list and any
texts of the instance's shape. `ProfileIsLatest` says of every fact of the list that those
told since are just the ones before it, and that nothing is missing while there is
room; this is kept by one insertion (`ShowsOneMore`), hence by a fold of them (`InsertingSteps`,
`ShowsAll`): a fact that the cut drops has as many later ones as fit. With it, `UseAlways` states all of `UseIsWritten`.

Of the rate limiter it proves `TypeCorrect` and `LimiterImplementsBuckets`: the
pruned, lazily refilled map cannot be told from buckets that are all there and
refill all the time, for all addresses, keys, bursts and rates, under `MayWait =
FALSE`. The argument is that a bucket is pruned only when a refill would fill it, and
that refilling in two steps is refilling in one. It also proves `BoundedAlways`, that
the map stays bounded whatever keys clients make up, when moreover `TrustProxy =
FALSE` (the code's default) and addresses of connections and clients are finitely
many (`FinitelyMany`). A key short of its burst was used within the ticks that
refill it from empty, and a request reaches its key only after its address paid. So the
invariant (`Accounted`) says of every past tick: the keys used since, with the
requests between their address and their key, are at most the clients plus the
requests the addresses have paid for since (`Passed`, which refilling cannot shrink:
a token taken is missing or was refilled). The `+ Cardinality(Client)` are the
requests that had paid before that tick. Pruning leaves the short keys and at most two
buckets per address, hence `BucketsBounded`.

*VectorCacheProofs* proves both halves of `CacheCoherent`, for any finite set of ids, any
processes and bounds (`Sizes`). `FlatAlwaysBounded` needs no premise. `CoherentAlways`
has those of the run, `MayEvict = FALSE` and `SharedVectors = FALSE`; section 3 says
what happens without them. A segment may lack what a committed writer still
brings; `CacheInv` says why nothing else can be missing or left over: writers at once have
ids of their own (`Disjoint`), so what one has committed is still in the table when its turn
at the lock comes (`Committed`); it holds the slot that searches use, because a reset
writes every id and so runs alone among writers (`SlotFits`); everybody works on the open
store (`OneStore`); and the rows a load has read differ from the table only where a
writer waits for its lock (`LoadFits`).

*MemoryLinksProofs* proves `LinksAlwaysHold` under `Families` (what is derived is
derived from a memory of its request, at its time, which the run checks of its
instance). The invariant adds what the request knows: a memory with hits is stored
or was deleted since the request began (`Seen`), and so are the ends of its links,
unless they are of its own batch.

*IndexProofs* is about `MCIndex`: it proves what is left of the parts and puts all of
them together, with the run's premises and any other constants. Of a flat segment it
proves `RowsAlwaysAligned` and `SegmentIsMap`, the refinement of `VectorMap`;
`RemoveStep` splits on whether the removed row is the last. Each of the other parts
has an invariant of its own:

* an older file (`MigrationInv`): every row has what `init_schema` and `migrate` give it
  from its version on, or the step at `at` is still to come. A file of versions 1 and 2
  is left out (`OlderFiles`), as in the run: its rows lose their index (section 3);
* context windows (`WindowsInv`): a request carries exactly the turns whose window
  it changes, with the texts that the session will hold after its commit (`Carries`);
  `FirstTurn` and `LastTurn` find the ends of a stretch of turns, which may have gaps.
  Requests of a session are one at a time and batches are new or all sent again, as in the
  run;
* predicates (`GroupsInv`): `TableAfter` shows that a transaction keeps what was known,
  and that what it adds founds a group or joins one that was founded before, in whatever
  order, for any similarities and models.

`MCIndex` takes the other parts from the modules with their proofs, so `PartsInv` is the
conjunction of all these invariants, and `OneMoves` says that a step is one
part's and leaves the others. It gives `TypesAlways`, `MirrorsAlways`, `CacheAlways`
and `PreparedAlways`, the properties of the run under its specification.

*MaintenanceProofs* is about the profile, the router and the retention of
`MCMaintenance`. `RouterAlways`, `NothingPurgedEarly`, `TypesStay`, `ProfileAlways` and
`NobodyForgotten` are the properties `RouterOfTheStored`, `KeptUntilDue`, `Types`,
`ProfileOfStored` and `NoFactLost` of the run under its specification, for any
memories, families, quotes, times, workers, sizes and bounds, under the premises of the
run that each needs: `RepairsOverlap` and `RestoresOverlap` `FALSE` for the
first two, `DeletesOverlap = FALSE` for the last two, all three for the types. That the
premises are needed is told in section 3.

What an ingest merges and what a deletion folds anew are results of folds, over
sequences of any length. The library's induction theorems take an operator, but the
induction for one fold does not need them: the set of the lengths at which a claim
holds contains 0 and with k - 1 also k, hence every length (`UpTo`, from the
well-foundedness of `<`), and `FoldExists` says that the fold of the community
module has that shape. On this rest `MergedSteps`, for the router, and `RetainedSteps`, for
what a deletion leaves of a profile. `CanBeOrdered` shows that ids have an
ascending order to fold in.

* *The router* (`RouterFits`): the record *tells* the fragments of its
  sources (`Tells`), that is, it has their quotes, all of them, and a focus one of them
  has, or none; both documents, and a repair that is about to write one, have its
  text. Folding in two different orders need not give the same record; what `Tells`
  says does not depend on the order, and that is all the property needs.
* *The retention* (`ExpiryFits`): what has a row has a fragment; what is
  derived from a memory is not stored without it, so a deletion finds whole families
  (`Derived` extends ids, so it is transitive, and families of two ids are nested
  or disjoint: `SessionRouterAssumption`; a source is derived from nothing:
  `RetentionAssumption`); and what the tick has listed and is still stored
  had expired when the tick began.
* *The profile* (`ProfileFits`): what is queued, listed or at work is stored; the
  profile is ranked; and a fact whose queue row may go has its place in the profile,
  or there is none for it (`Kept`). This last conjunct is why no step loses a fact
  though a task is done twice, fails, or is cut off between its two transactions.

The batch of `MCMaintenance` shares no state with these and has no proof.

### What stays with TLC

* Liveness under fairness and ENABLED, which are out of the prover's reach: `Recovered`,
  `WorkIsDone`, and the half of `ModelsAnswerRight` that says calls can proceed.
* Results of sorting and selecting: the other half of `ModelsAnswerRight`. The prover
  does not see into `SelectSeq` and `SortSeq`, which the standard modules define
  recursively.
* `BatchIsSound` and `SaidIsKept`: what a request stores is composed of flattened and
  filtered sequences of its texts, over data of the instance.
* The operators of `QueryFunctions` and the widening search, which are checked over
  bounded inputs: rankings, dates, plans and the policy's thresholds; the search, whose hits
are filtered and counted over a function that grows with each attempt.

No module uses a RECURSIVE operator; folds come from the community modules.

## 6. Not modelled

Which words, names, facts and dates a text holds (keyword tables, lexicons, regular
grammars, local models) is data of the instances: an abstraction of text would only
repeat the tables. Embeddings, cosines and decay are floating point; scores are
integers in the models. Routing, settings, metrics, the MCP bridge, the embedded
facade and the C interface have no state others depend on. Nothing in the program
calls the entity resolver. Full-text rowids are taken to be one to one with ids
(`fts_rowid` is a hash). The connection pool, the precision of stored vectors, the
choice and loading of models, preferences, tombstones, switching features between
restarts, the reset handler outside the vector index, and several entities or tenants
at once are left out of the modules above; the notes in `PROJECT.json` say so per
component.

## 7. What could follow

1. *MemoryStore*, an abstract store (memories that are stored, visible, gone)
   which `IngestIndex` and `Retention` implement.
2. Several memories in a request of `IngestIndex`; a row that always fails.
3. Proofs: `VectorsOfOwnText` of `BatchPreparation`, by an induction like those of
   *MaintenanceProofs*.
