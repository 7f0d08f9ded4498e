------------------------------ MODULE MCIndex ------------------------------
(* Parts of the index on small instances: the life of one memory's row, the  *)
(* rows of a flat segment, the segments that cache the vectors of an entity, *)
(* the calls of the models that embed and score, the opening of an older     *)
(* file, and what a batch brings into the tables: the windows of a session,  *)
(* the links between memories, the groups of predicates.  They share no      *)
(* state here: one of them moves.                                            *)
EXTENDS FlatSegment, FiniteSets, TLC

CONSTANTS
  i1, i2, i3, i4, x, y,
  \* the life of a memory
  Memory, Words, None, Sender, Tick, r1, r2, r3,
  MaxRowid, MaxFail, MaxCrash, MayHangUp,
  \* the cache
  Vector, Worker, v1, v2, p1, p2, p3,
  MaxVersion, FlatThreshold, MaxStore, MaxSlot, MaxOps,
  \* windows
  Turn, Said, Window, Client, MaxDelete,
  \* models
  ta, tb, tc, Query, Call,
  Permuted,  \* whether the same texts are scored in another order
  \* an older file
  OldMemory, Session, Absent, From, MaxCut, MaxOpen,
  \* predicates
  pa, pb, pc, Predicates, Similarity, Tau, Model, Filer, MaxFacts, MaxSwitch,
  Parts      \* the parts that are checked

VARIABLES
  rows, fts, cached, loaded, nextVid, req, repair, fails, crashes,
  table, current, stores, slotOf, slots, segment, proc, ops, refused,
  content, vector, pending, request, deletes,
  vectors, scores, calls, embedPermits, rerankPermits, next, started, failed,
  version, columns, others, oldRows, oldFts, router, routerFts, at, cut, opened,
  canon, dimension, facts, model, batch, filed, switched,
  stored, links, recalling, erasures, meanwhile, excused,
  part  \* the part that moves

life == <<rows, fts, cached, loaded, nextVid, req, repair, fails, crashes>>
cache == <<table, current, stores, slotOf, slots, segment, proc, ops, refused>>
windows == <<content, vector, pending, request, deletes>>
models == <<vectors, scores, calls, embedPermits, rerankPermits, next, started, failed>>
file == <<version, columns, others, oldRows, oldFts, router, routerFts, at, cut, opened>>
predicates == <<canon, dimension, facts, model, batch, filed, switched>>
linked == <<stored, links, recalling, erasures, meanwhile, excused>>
allvars == <<vars, life, cache, windows, models, file, predicates, linked, part>>

\* Three parts with the proofs about them, which IndexProofs puts together.
\* Requests that follow each other, the tick between them.
L == INSTANCE IngestIndexProofs WITH
  Text <- Words, Unembedded <- {}, Request <- Sender, MaxVid <- MaxRowid,
  MayUpdate <- TRUE, MayDelete <- TRUE, RequestsOverlap <- FALSE, TickOverlaps <- FALSE,
  segment <- cached

C == INSTANCE VectorCacheProofs WITH
  Vid <- Vector, Proc <- Worker, Threshold <- FlatThreshold, MayReset <- TRUE, MayEvict <- FALSE,
  SharedVectors <- FALSE, fails <- refused

\* Requests of one session follow each other.
W == INSTANCE ContextWindow WITH
  Text <- Said, Request <- Client, MayOverlap <- FALSE, MayResend <- FALSE

\* Two executors and two rerankers, one text to a batch.
M == INSTANCE Models WITH
  Text <- {ta, tb, tc}, Length <- [t \in {ta, tb, tc} |-> IF t = tb THEN 1 ELSE IF t = tc THEN 2 ELSE 3],
  Embeddable <- {<<ta, tb, tc>>, <<tb, ta>>, <<tc, tc>>},
  Rankable <- {<<ta, tb, tc>>, <<ta, tb>>} \cup (IF Permuted THEN {<<tb, ta>>} ELSE {}),
  Executors <- 2, Permits <- 2, BatchSize <- 1, Rerankers <- 2, RerankPermits <- 1, MinSplit <- 2,
  Capacity <- 1, MaxCalls <- 3, cache <- vectors, fails <- failed

S == INSTANCE SchemaMigration WITH
  Id <- OldMemory, MaxCrash <- MaxCut, rows <- oldRows, fts <- oldFts, crashes <- cut

\* pb is close to pa and to pc, which are not close to each other.
ThreePredicates == <<pa, pb, pc>>
CloseInTheMiddle ==
  [p \in {pa, pb, pc} |-> [q \in {pa, pb, pc} |->
     IF p = q THEN 100 ELSE IF {p, q} = {pa, pc} THEN 50 ELSE 90]]

P == INSTANCE PredicateCanon WITH Request <- Filer

\* 3 is derived from 2; 3 and 4 recall something earlier.
K == INSTANCE MemoryLinksProofs WITH
  Memory <- 1..4, Time <- <<1, 2, 2, 3>>, Parent <- <<1, 2, 2, 4>>, Recalls <- {3, 4},
  Lexical <- <<<<>>, <<>>, <<4, 1>>, <<2, 3, 1>>>>, Nearby <- <<<<>>, <<>>, <<1>>, <<3, 1>>>>,
  Score <- [text |-> <<50, 48, 46>>, vector |-> <<30, 28, 26>>], Threshold <- 55,
  Kind <- [a \in 1..4 |-> [b \in 1..4 |-> IF a = 4 /\ b = 1 THEN "contradicts" ELSE "clarifies"]],
  Lost <- "extends", MaxDelete <- 2, request <- recalling, deletes <- erasures

ASSUME FamiliesAssumption == K!Families
ASSUME SizesAssumption == C!Sizes
ASSUME LifeAssumption == L!Parameters
ASSUME TurnsAssumption == Turn \subseteq Nat /\ IsFiniteSet(Turn) /\ Window \in Nat /\ MaxDelete \in Nat
ASSUME PredicatesAssumption == None \notin Model \cup {Predicates[i] : i \in DOMAIN Predicates}
\* The files of versions 1 and 2 lose their index when they are opened.
ASSUME OlderFiles == From \subseteq {0} \cup 3..8

Symmetry == Permutations(Vector) \cup Permutations(Worker)

MCInit ==
  /\ part \in Parts
  /\ Init /\ L!Init /\ C!Init /\ W!Init /\ M!Init /\ S!Init /\ P!Init /\ K!Init
  /\ part # "file" => version = 0
  /\ part # "predicates" => model = CHOOSE m \in Model : TRUE

MCNext ==
  \/ part = "segment" /\ Next /\ UNCHANGED <<life, cache, windows, models, file, predicates, linked, part>>
  \/ part = "life" /\ L!Next /\ UNCHANGED <<vars, cache, windows, models, file, predicates, linked, part>>
  \/ part = "cache" /\ C!Next /\ UNCHANGED <<vars, life, windows, models, file, predicates, linked, part>>
  \/ part = "windows" /\ W!Next /\ UNCHANGED <<vars, life, cache, models, file, predicates, linked, part>>
  \/ part = "models" /\ M!Next /\ UNCHANGED <<vars, life, cache, windows, file, predicates, linked, part>>
  \/ part = "file" /\ S!Next /\ UNCHANGED <<vars, life, cache, windows, models, predicates, linked, part>>
  \/ part = "predicates" /\ P!Next /\ UNCHANGED <<vars, life, cache, windows, models, file, linked, part>>
  \/ part = "links" /\ K!Next /\ UNCHANGED <<vars, life, cache, windows, models, file, predicates, part>>

MCSpec == MCInit /\ [][MCNext]_allvars

-----------------------------------------------------------------------------

\* The variables of these parts have their types.
Types == TypeOK /\ L!TypeOK /\ C!TypeOK /\ W!TypeOK

\* Between requests and ticks the indexes hold what the tables hold: a row
\* marked indexed has its text and its vector there, no text is left of a
\* memory that is gone, and a loaded segment has the vectors of vector_lookup,
\* whichever of the writes, repairs, deletions and the crash came before; and
\* so does a file that was written by an older version, once it is open.
IndexesMirrorTables == L!IndexedIsSearchable /\ L!NoOrphanText /\ L!SegmentMirrorsLookup /\ S!Migrated

\* A cached segment differs from vector_lookup only where a writer is on its
\* way to it, and a flat one has at most as many rows as the threshold.
CacheCoherent == C!SegmentCoherent /\ C!FlatIsBounded

\* What a batch works out before its commit fits what the store holds after
\* it: every stored turn is embedded with the present texts around it, in
\* whatever batches they came; both ends of a link are stored, unless one was
\* deleted in between; and the facts of one predicate are in one chain.
PreparedFitsStored == W!WindowsComplete /\ K!LinksHold /\ P!OneChainPerPredicate

\* Each text gets its own vector and its own score, and a call that waits for
\* a permit or a model is not left waiting.
ModelsAnswerRight == M!VectorsOfTexts /\ M!ScoresOfTexts /\ M!CallsCanProceed

\* Every text gets the score of its own, in the order the texts were sent in.
ScoresOfTexts == M!ScoresOfTexts

=============================================================================
