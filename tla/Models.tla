------------------------------- MODULE Models -------------------------------
(* The calls of SemanticInference: texts to be embedded, from the cache or in *)
(* batches that wait for a permit and an executor, and texts to be scored     *)
(* against a question, from an LRU cache or in chunks on several rerankers.   *)
(* A call is one thread, or as many as it has pieces.  The vector of a text   *)
(* is the text, and its score for a question the pair of both.                *)
EXTENDS Integers, FiniteSets, SequencesExt

CONSTANTS
  Text, Length,             \* the texts and their lengths
  Query,
  Embeddable, Rankable,     \* the sequences of texts that are asked for
  Call,                     \* the callers
  None,
  Executors, Permits, BatchSize,
  Rerankers, RerankPermits,
  MinSplit,                 \* up to so many texts are not split (8 in the code)
  Capacity,                 \* of the cache of scores
  MaxCalls, MaxFail         \* bounds

VARIABLES
  cache,                    \* the vector stored under the hash of each text
  scores,                   \* the LRU cache of scores, the latest used first
  calls,                    \* what each caller waits for
  embedPermits, rerankPermits, next, started, fails

mvars == <<cache, scores, calls, embedPermits, rerankPermits, next, started, fails>>

Idle == [kind |-> "idle"]
Answered(kind, q, texts, out) == [kind |-> "answered", of |-> kind, q |-> q, texts |-> texts, out |-> out]

VectorOf(t) == t
ScoreOf(q, t) == <<q, t>>

\* slice.chunks(n)
Chunks(s, n) ==
  [k \in 1 .. (Len(s) + n - 1) \div n |-> SubSeq(s, (k - 1) * n + 1, IF k * n < Len(s) THEN k * n ELSE Len(s))]

Init ==
  /\ cache = [t \in Text |-> None] /\ scores = <<>> /\ calls = [c \in Call |-> Idle]
  /\ embedPermits = Permits /\ rerankPermits = RerankPermits
  /\ next = 0 /\ started = 0 /\ fails = 0

-----------------------------------------------------------------------------
(* Texts to be embedded.                                                     *)

\* The positions without a vector, shortest text first.
Missing(texts, found) ==
  SetToSortSeq({i \in DOMAIN texts : found[i] = None},
    LAMBDA i, j : \/ Length[texts[i]] < Length[texts[j]]
                  \/ Length[texts[i]] = Length[texts[j]] /\ i < j)

Working(kind, q, texts, found, pieces) ==
  [kind |-> kind, q |-> q, texts |-> texts, found |-> found, pieces |-> pieces,
   stage |-> [k \in DOMAIN pieces |-> "waiting"], on |-> [k \in DOMAIN pieces |-> 0]]

\* A lookup that fails finds nothing.
EmbedTexts(c, texts) ==
  /\ calls[c].kind \in {"idle", "answered"} /\ started < MaxCalls
  /\ \E fail \in 0 .. 1 :
       LET found == [i \in DOMAIN texts |-> IF fail = 1 THEN None ELSE cache[texts[i]]]
           missing == Missing(texts, found)
       IN  /\ fails + fail <= MaxFail /\ fails' = fails + fail
           /\ calls' = [calls EXCEPT ![c] =
                IF missing = <<>> THEN Answered("embed", None, texts, found)
                ELSE Working("embed", None, texts, found, Chunks(missing, BatchSize))]
  /\ started' = started + 1
  /\ UNCHANGED <<cache, scores, embedPermits, rerankPermits, next>>

\* One executor, or one piece: the pieces follow each other, up to the first
\* that fails.
InTurn(w) == Len(w.pieces) = 1 \/ (w.kind = "embed" /\ Executors = 1)
MayStart(w, k) == w.stage[k] = "waiting" /\ (InTurn(w) => \A j \in 1 .. k - 1 : w.stage[j] = "done")
Ended(w) ==
  \A k \in DOMAIN w.stage :
    \/ w.stage[k] \in {"done", "failed"}
    \/ InTurn(w) /\ \E j \in 1 .. k - 1 : w.stage[j] = "failed"

Busy(c, kind) == calls[c].kind = kind
At(c, k, stage, on) == [calls EXCEPT ![c].stage[k] = stage, ![c].on[k] = on]

\* The lock of an executor is held by at most one piece.
Free(kind, e) ==
  ~\E c \in Call : Busy(c, kind) /\ \E k \in DOMAIN calls[c].on : calls[c].stage[k] = "locked" /\ calls[c].on[k] = e

\* A permit, and then the next executor's turn.
Acquire(c, k) ==
  /\ Busy(c, "embed") /\ MayStart(calls[c], k) /\ embedPermits > 0
  /\ calls' = At(c, k, "permitted", next % Executors)
  /\ embedPermits' = embedPermits - 1 /\ next' = next + 1
  /\ UNCHANGED <<cache, scores, rerankPermits, started, fails>>

Lock(c, k) ==
  /\ Busy(c, "embed") /\ calls[c].stage[k] = "permitted" /\ Free("embed", calls[c].on[k])
  /\ calls' = At(c, k, "locked", calls[c].on[k])
  /\ UNCHANGED <<cache, scores, embedPermits, rerankPermits, next, started, fails>>

\* Both locks are let go of, whether the model fails or not.
Infer(c, k) ==
  /\ Busy(c, "embed") /\ calls[c].stage[k] = "locked"
  /\ \E ok \in BOOLEAN :
       /\ calls' = At(c, k, IF ok THEN "done" ELSE "failed", 0)
       /\ fails' = fails + (IF ok THEN 0 ELSE 1) /\ fails' <= MaxFail
       /\ embedPermits' = embedPermits + 1
  /\ UNCHANGED <<cache, scores, rerankPermits, next, started>>

\* Slip: the vectors are taken for those of the positions in their order.
AssembledUnsorted(w) ==
  LET flat == FlattenSeq(w.pieces)
      before(i) == Cardinality({j \in 1 .. i : w.found[j] = None})
  IN  [i \in DOMAIN w.texts |->
         IF w.found[i] # None THEN w.found[i] ELSE VectorOf(w.texts[flat[before(i)]])]

\* Each batch's vectors go back to its positions.
Assembled(w) ==
  [i \in DOMAIN w.texts |->
     IF w.found[i] # None THEN w.found[i]
     ELSE LET p == CHOOSE p \in UNION {{k} \X DOMAIN w.pieces[k] : k \in DOMAIN w.pieces} :
                     w.pieces[p[1]][p[2]] = i
              vectors == [j \in DOMAIN w.pieces[p[1]] |-> VectorOf(w.texts[w.pieces[p[1]][j]])]
          IN  vectors[p[2]]]

\* When all threads are joined the new vectors are cached, unless that fails,
\* and the call answers; it fails when one of them has.
JoinEmbeddings(c) ==
  /\ Busy(c, "embed") /\ Ended(calls[c])
  /\ LET w == calls[c]
         out == Assembled(w)
         computed == {i \in DOMAIN w.texts : w.found[i] = None}
     IN  IF "failed" \in ToSet(w.stage)
         THEN calls' = [calls EXCEPT ![c] = Idle] /\ UNCHANGED <<cache, fails>>
         ELSE /\ calls' = [calls EXCEPT ![c] = Answered("embed", None, w.texts, out)]
              /\ \/ /\ cache' = [t \in Text |->
                                   IF \E i \in computed : w.texts[i] = t
                                   THEN out[CHOOSE i \in computed : w.texts[i] = t] ELSE cache[t]]
                    /\ UNCHANGED fails
                 \/ fails < MaxFail /\ fails' = fails + 1 /\ UNCHANGED cache
  /\ UNCHANGED <<scores, embedPermits, rerankPermits, next, started>>

ClearCache ==
  /\ cache # [t \in Text |-> None] /\ cache' = [t \in Text |-> None]
  /\ UNCHANGED <<scores, calls, embedPermits, rerankPermits, next, started, fails>>

-----------------------------------------------------------------------------
(* Texts to be scored.                                                       *)

\* The question and its texts, sorted.
RerankCacheKey(q, texts) == <<q, [t \in Text |-> Cardinality({i \in DOMAIN texts : texts[i] = t})]>>

Kept(key, entries) == SelectSeq(entries, LAMBDA e : e.key # key)
Used(entry) ==
  LET all == <<entry>> \o Kept(entry.key, scores)
  IN  SubSeq(all, 1, IF Len(all) < Capacity THEN Len(all) ELSE Capacity)

SplitForRerank(texts) ==
  LET n == IF Rerankers < Len(texts) THEN Rerankers ELSE Len(texts)
      at == [i \in DOMAIN texts |-> i]
  IN  IF Rerankers <= 1 \/ Len(texts) <= MinSplit THEN <<at>>
      ELSE Chunks(at, (Len(texts) + n - 1) \div n)

PredictScores(c, q, texts) ==
  /\ calls[c].kind \in {"idle", "answered"} /\ started < MaxCalls
  /\ LET key == RerankCacheKey(q, texts)
         cached == {e \in ToSet(scores) : e.key = key}
     IN  IF cached # {}
         THEN /\ scores' = Used(CHOOSE e \in cached : TRUE)
              /\ calls' = [calls EXCEPT ![c] = Answered("rerank", q, texts, (CHOOSE e \in cached : TRUE).scores)]
         ELSE /\ calls' = [calls EXCEPT ![c] = Working("queued", q, texts, <<>>, SplitForRerank(texts))]
              /\ UNCHANGED scores
  /\ started' = started + 1
  /\ UNCHANGED <<cache, embedPermits, rerankPermits, next, fails>>

\* One permit for all the chunks of a call.
AcquireRerank(c) ==
  /\ Busy(c, "queued") /\ rerankPermits > 0
  /\ rerankPermits' = rerankPermits - 1
  /\ calls' = [calls EXCEPT ![c].kind = "rerank"]
  /\ UNCHANGED <<cache, scores, embedPermits, next, started, fails>>

LockReranker(c, k) ==
  LET e == (k - 1) % Rerankers
  IN  /\ Busy(c, "rerank") /\ MayStart(calls[c], k) /\ Free("rerank", e)
      /\ calls' = At(c, k, "locked", e)
      /\ UNCHANGED <<cache, scores, embedPermits, rerankPermits, next, started, fails>>

Rerank(c, k) ==
  /\ Busy(c, "rerank") /\ calls[c].stage[k] = "locked"
  /\ \E ok \in BOOLEAN :
       /\ calls' = At(c, k, IF ok THEN "done" ELSE "failed", 0)
       /\ fails' = fails + (IF ok THEN 0 ELSE 1) /\ fails' <= MaxFail
  /\ UNCHANGED <<cache, scores, embedPermits, rerankPermits, next, started>>

\* Each chunk's scores go to its offset.
Stitched(w) ==
  LET offset(k) == w.pieces[k][1] - 1
      of(k) == [j \in DOMAIN w.pieces[k] |-> ScoreOf(w.q, w.texts[w.pieces[k][j]])]
  IN  [i \in DOMAIN w.texts |->
         LET k == CHOOSE k \in DOMAIN w.pieces : i - offset(k) \in DOMAIN w.pieces[k] IN of(k)[i - offset(k)]]

JoinScores(c) ==
  /\ Busy(c, "rerank") /\ Ended(calls[c])
  /\ rerankPermits' = rerankPermits + 1
  /\ LET w == calls[c]
     IN  IF "failed" \in ToSet(w.stage)
         THEN calls' = [calls EXCEPT ![c] = Idle] /\ UNCHANGED scores
         ELSE /\ scores' = Used([key |-> RerankCacheKey(w.q, w.texts), scores |-> Stitched(w)])
              /\ calls' = [calls EXCEPT ![c] = Answered("rerank", w.q, w.texts, Stitched(w))]
  /\ UNCHANGED <<cache, embedPermits, next, started, fails>>

-----------------------------------------------------------------------------

Step(c) ==
  \/ JoinEmbeddings(c) \/ AcquireRerank(c) \/ JoinScores(c)
  \/ calls[c].kind \in {"embed", "rerank"} /\
       \E k \in DOMAIN calls[c].pieces : Acquire(c, k) \/ Lock(c, k) \/ Infer(c, k) \/ LockReranker(c, k) \/ Rerank(c, k)

Next ==
  \/ ClearCache
  \/ \E c \in Call :
       \/ \E texts \in Embeddable : EmbedTexts(c, texts)
       \/ \E q \in Query, texts \in Rankable : PredictScores(c, q, texts)
       \/ Step(c)

Spec == Init /\ [][Next]_mvars

-----------------------------------------------------------------------------

AnsweredCalls(kind) == {c \in Call : calls[c].kind = "answered" /\ calls[c].of = kind}

\* Every text gets its own vector, in the order of the input, whichever came
\* from the cache and however the rest was sorted and cut, and the cache holds
\* no other.
VectorsOfTexts ==
  /\ \A c \in AnsweredCalls("embed") : calls[c].out = [i \in DOMAIN calls[c].texts |-> VectorOf(calls[c].texts[i])]
  /\ \A t \in Text : cache[t] \in {None, VectorOf(t)}

\* "stitch results back into the original order": every text gets the score
\* of its own, from the rerankers or from the cache.
ScoresOfTexts ==
  \A c \in AnsweredCalls("rerank") :
    calls[c].out = [i \in DOMAIN calls[c].texts |-> ScoreOf(calls[c].q, calls[c].texts[i])]

\* A call that waits is not the last to move: permits and executors never all
\* belong to calls that wait, or to those that have failed.
CallsCanProceed ==
  (\E c \in Call : calls[c].kind \notin {"idle", "answered"}) => ENABLED \E c \in Call : Step(c)

=============================================================================
