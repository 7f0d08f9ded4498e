------------------------------ MODULE MCQuery ------------------------------
(* QueryPipeline on a turn, a record derived from it and a memory of another *)
(* entity that the graph links to both; and, as parts of their own that      *)
(* share no state with it, the search for vectors within an entity and the   *)
(* functions that plan, score and date.                                      *)
EXTENDS QueryPipeline

CONSTANTS
  said, derived, other, e1, e2,
  Vectors, MinSimilarity, Strong, SimilarityGain, MaxHitGain,
  SemanticStart, SemanticStep, MaxTop, MinHits, MaxAttempts, MaxRowChanges, Unresolved,
  Kinds, Intents, MaxSubjects, MaxCues, LatestScores, MaxLinks, MaxEdges, MaxHits, Years, MayDisagree

VARIABLES rows, top, attempts, resolved, skipped, hits, previous, done, kept, ever, reach, lost,
          topic, case,
          part  \* the part that moves

MCOwner == [m \in Memory |-> IF m = other THEN e2 ELSE e1]
MCSource == [m \in Memory |-> IF m = derived THEN said ELSE m]
MCLinked == [m \in Memory |-> Memory \ {m}]
MCSimilarity == [v \in 1 .. Vectors |-> 90 - 10 * v]

W == INSTANCE WidenedSearch WITH Similarity <- MCSimilarity

U == INSTANCE QueryFunctions

search == <<rows, top, attempts, resolved, skipped, hits, previous, done, kept, ever, reach, lost>>
functions == <<topic, case>>

-----------------------------------------------------------------------------

\* A part that does not move stays in one of its first states.
MCInit ==
  /\ part \in {"query", "search", "functions"}
  /\ Init /\ W!Init
  /\ part # "query" => phase = "idle" /\ store = [m \in Memory |-> None]
  /\ part # "search" => rows = {}
  /\ IF part = "functions" THEN U!Init ELSE topic = None /\ case = None

MCNext ==
  \/ part = "query" /\ Next /\ UNCHANGED <<search, functions, part>>
  \/ part = "search" /\ W!Next /\ UNCHANGED <<vars, functions, part>>
  \/ part = "functions" /\ U!Next /\ UNCHANGED <<vars, search, part>>

MCSpec == MCInit /\ [][MCNext]_<<vars, search, functions, part>>

-----------------------------------------------------------------------------

\* Widening the search step by step finds what was there all along, but for
\* what a failed lookup was the first to meet.
WidenedFindsAsOne == W!WidenedFindsAsOne

\* What ranks and selects candidates treats them alike.
RankingIsFair == U!RankingIsFair

\* A question reaches the sessions that no other beats, what its answer must
\* cover is kept, it is searched for no less than a bare one, and the graph
\* counts each link once.
QuestionIsCovered == U!QuestionIsCovered /\ U!GraphCountsOnce

\* Promotion, retention, vectors and rank agree with each other.
PolicyAgrees == U!PolicyAgrees

\* The calendars of ingest and of queries agree, on the forms both read alike.
CalendarsAgree == U!CalendarsAgree

\* What shows one thing more is not worth less.
MoreIsNoLess == U!MoreIsNoLess

=============================================================================
