---------------------------- MODULE WidenedSearch ----------------------------
(* The loop of retrieval_ann for a query within an entity: search the        *)
(* segment for a few neighbours, resolve their ids in the database, and      *)
(* widen the search until the hits are enough, strong, and hardly gain.      *)
(* Vectors are numbered by their distance from the query.  Rows come and go  *)
(* between two attempts, and the search and the lookup of an attempt may     *)
(* each fail; the segment stays as it is while the loop runs.                *)
EXTENDS Naturals, FiniteSets

CONSTANTS
  Vectors,       \* vectors in the segment: 1 is the nearest
  Similarity,    \* [1 .. Vectors -> Nat], falling with distance
  MinSimilarity, \* MIN_HIT_SIMILARITY
  Strong,        \* scoped_stop_min_similarity
  SimilarityGain,\* scoped_stop_min_similarity_gain
  MaxHitGain,    \* scoped_stop_max_hit_gain
  SemanticStart, SemanticStep, MaxTop,
  MinHits, MaxAttempts,
  MaxRowChanges, \* vectors whose row comes or goes during the search
  Unresolved     \* resolved to no row

VARIABLES
  rows,       \* vectors whose row is stored within the bounds of the query
  top,        \* current_top
  attempts,
  resolved,   \* local_cache: [vector -> BOOLEAN]
  skipped,    \* seen_vector_ids
  hits,       \* cumulative_hnsw_hits
  previous,   \* hits and best similarity of the attempt before, if any
  done,
  \* History.
  kept,       \* vectors whose row was there all along
  ever,       \* and whose row was there at some time
  reach,      \* the widest search that worked
  lost        \* vectors first met by an attempt whose lookup failed

vars == <<rows, top, attempts, resolved, skipped, hits, previous, done, kept, ever, reach, lost>>

Smaller(a, b) == IF a <= b THEN a ELSE b
Apart(a, b) == IF a <= b THEN b - a ELSE a - b

ScopedStart == Smaller(SemanticStart, MaxTop)
ScopedMinHits == Smaller(MinHits, MaxTop)

NoAttempt == [hits |-> Unresolved, best |-> Unresolved]

Init ==
  /\ rows \in SUBSET (1 .. Vectors)
  /\ top = ScopedStart /\ attempts = 0
  /\ resolved = <<>> /\ skipped = {} /\ hits = {}
  /\ previous = NoAttempt /\ done = FALSE
  /\ kept = rows /\ ever = rows /\ reach = 0 /\ lost = {}

\* should_stop_scoped_ann, after an attempt with `count` hits in all, the best
\* of the new ones at `best`.
ShouldStop(count, best, attempt) ==
  \/ top >= MaxTop
  \/ attempt >= MaxAttempts
  \/ /\ count >= ScopedMinHits
     /\ best # Unresolved /\ best >= Strong
     /\ previous.hits # Unresolved
     /\ \/ count - previous.hits <= MaxHitGain
        \/ previous.best # Unresolved /\ Apart(best, previous.best) <= SimilarityGain

\* A slip: an attempt starts its hits afresh, though it skips what it has seen.
LatestOnly(found, fresh) == fresh
Gathered(found, fresh) == found \cup fresh

\* The ids of a first or a wider search, none if it fails; those not yet
\* resolved are looked up in one batch; then the loop's decision.  An id counts
\* as seen whether or not its lookup worked.
Attempt(searchWorks, lookupWorks) ==
  /\ ~done
  /\ LET raw == IF searchWorks THEN 1 .. Smaller(top, Vectors) ELSE {}
         asked == raw \ DOMAIN resolved
         cache == IF lookupWorks
                  THEN [v \in DOMAIN resolved \cup asked |-> IF v \in asked THEN v \in rows ELSE resolved[v]]
                  ELSE resolved
         fresh == {v \in raw \ skipped : v \in DOMAIN cache /\ cache[v] /\ Similarity[v] >= MinSimilarity}
         best == IF fresh = {} THEN Unresolved
                 ELSE Similarity[CHOOSE v \in fresh : \A w \in fresh : v <= w]
         count == Cardinality(Gathered(hits, fresh))
         stop == \/ ShouldStop(count, best, attempts + 1)
                 \/ attempts + 1 >= 2 /\ count >= ScopedMinHits /\ fresh = {}
         next == Smaller(top + SemanticStep, MaxTop)
     IN  /\ attempts' = attempts + 1
         /\ resolved' = cache
         /\ skipped' = skipped \cup raw
         /\ hits' = Gathered(hits, fresh)
         /\ done' = (stop \/ next = top)
         /\ top' = IF done' THEN top ELSE next
         /\ previous' = IF done' THEN previous ELSE [hits |-> count, best |-> best]
         /\ reach' = IF searchWorks THEN top ELSE reach
         /\ lost' = IF lookupWorks THEN lost ELSE lost \cup (raw \ skipped)
  /\ UNCHANGED <<rows, kept, ever>>

\* An ingest or a deletion between two attempts.
RowChanges(v) ==
  /\ ~done
  /\ Cardinality((ever \ kept) \cup {v}) <= MaxRowChanges
  /\ rows' = IF v \in rows THEN rows \ {v} ELSE rows \cup {v}
  /\ kept' = kept \ {v}
  /\ ever' = ever \cup {v}
  /\ UNCHANGED <<top, attempts, resolved, skipped, hits, previous, done, reach, lost>>

Search == \E searchWorks, lookupWorks \in BOOLEAN : Attempt(searchWorks, lookupWorks)
Next == Search \/ \E v \in 1 .. Vectors : RowChanges(v)

Spec == Init /\ [][Next]_vars /\ WF_vars(Search)

-----------------------------------------------------------------------------

\* Widening step by step, each attempt skipping what an earlier one has seen,
\* finds what is similar enough and was stored all along, out to the widest
\* search that worked, and nothing that was never stored: neither rows that
\* come and go between two attempts nor failed searches cost a hit.  A failed
\* lookup costs the vectors that its attempt was the first to meet, for good:
\* they count as seen, and no wider attempt takes them up again.  It costs no
\* other.
WidenedFindsAsOne ==
  done =>
    LET near == {v \in 1 .. Vectors : v <= reach /\ Similarity[v] >= MinSimilarity}
    IN  /\ hits \subseteq near \cap ever
        /\ (near \cap kept) \ lost \subseteq hits

=============================================================================
