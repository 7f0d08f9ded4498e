--------------------------- MODULE ContextWindow ---------------------------
(* The texts the turns of one session are embedded with in the mode         *)
(* `context`: a turn's own text and those of the turns around it.  A request *)
(* reads the stored turns, builds the texts of its batch and of the stored   *)
(* neighbours, drops what was stored before, embeds, and commits; the        *)
(* stored neighbours' vectors are rewritten with it.                         *)
(*                                                                           *)
(* A vector is represented by the text it embeds: the turns it shows, each   *)
(* with what it said.                                                        *)
EXTENDS Integers, FiniteSets, FiniteSetsExt

CONSTANTS
  Turn,         \* turn indexes of the session
  Text,
  Window,       \* TELLODB_CONTEXT_WINDOW
  Request,
  MayOverlap,   \* requests of this session run at the same time
  MayResend,    \* a batch may hold stored turns beside new ones
  MaxDelete

VARIABLES
  content,   \* memories: the text of each stored turn
  vector,    \* vector_lookup: what each stored turn's vector was made of
  pending,   \* turns with indexed = 0
  request,
  deletes

vars == <<content, vector, pending, request, deletes>>

Stored == DOMAIN content

Lines == UNION {[s -> Text] : s \in SUBSET Turn}
Batch == {b \in Lines : DOMAIN b # {}}

Idle == [at |-> "idle"]

TypeOK ==
  /\ content \in Lines
  /\ DOMAIN vector = Stored /\ \A t \in Stored : vector[t] \in Lines
  /\ pending \subseteq Stored
  /\ \A r \in Request : request[r].at \in {"idle", "built", "embedding", "indexing"}
  /\ deletes \in 0 .. MaxDelete

Init ==
  /\ content = [t \in {} |-> 0] /\ vector = [t \in {} |-> 0] /\ pending = {}
  /\ request = [r \in Request |-> Idle] /\ deletes = 0

-----------------------------------------------------------------------------
(* Texts.                                                                    *)

Within(t, n, d) == n - t \in -d .. d

\* `over` where it has a line, `lines` elsewhere.
Overlaid(lines, over) ==
  [t \in DOMAIN lines \cup DOMAIN over |-> IF t \in DOMAIN over THEN over[t] ELSE lines[t]]

WindowText(lines, t) ==
  [n \in {m \in DOMAIN lines : Within(t, m, Window)} |-> lines[n]]

SessionTurns(lo, hi) ==
  [t \in {s \in Stored : lo <= s /\ s <= hi} |-> content[t]]

\* As if only the windows of the batch's own turns mattered.
StoredAroundOnce(batch) ==
  SessionTurns(Min(DOMAIN batch) - Window, Max(DOMAIN batch) + Window)

\* What build_embed_texts reads for a batch: the turns whose window can reach
\* into the batch, and those in the windows of these.
StoredAround(batch) ==
  SessionTurns(Min(DOMAIN batch) - 2 * Window, Max(DOMAIN batch) + 2 * Window)

BatchTexts(lines, batch) == [t \in DOMAIN batch |-> WindowText(lines, t)]

NeighbourUpdates(stored, lines, batch) ==
  [t \in {s \in DOMAIN stored \ DOMAIN batch : \E b \in DOMAIN batch : Within(s, b, Window)} |->
     WindowText(lines, t)]

-----------------------------------------------------------------------------
(* A request.                                                                *)

\* A turn that the filter takes for a re-send.
Unchanged(t, text) == t \in Stored /\ content[t] = text /\ t \notin pending

MaySend(batch) ==
  /\ MayOverlap \/ \A r \in Request : request[r] = Idle
  /\ \/ MayResend
     \/ \A t, u \in DOMAIN batch : Unchanged(t, batch[t]) <=> Unchanged(u, batch[u])

Build(r, batch) ==
  /\ request[r] = Idle /\ MaySend(batch)
  /\ LET stored == StoredAround(batch)
         lines == Overlaid(stored, batch)
     IN  request' = [request EXCEPT ![r] =
           [at |-> "built", batch |-> batch, texts |-> BatchTexts(lines, batch),
            neighbours |-> NeighbourUpdates(stored, lines, batch)]]
  /\ UNCHANGED <<content, vector, pending, deletes>>

\* The neighbour updates stay even when the batch is dropped.
Filter(r) ==
  LET q == request[r]
      kept == {t \in DOMAIN q.batch : ~Unchanged(t, q.batch[t])}
  IN  /\ q.at = "built"
      /\ request' = [request EXCEPT ![r] =
           [q EXCEPT !.at = "embedding", !.batch = [t \in kept |-> @[t]],
                     !.texts = [t \in kept |-> @[t]]]]
      /\ UNCHANGED <<content, vector, pending, deletes>>

\* One transaction: the rows and vectors of the batch, then the vectors of the
\* neighbours that still have one.
Commit(r) ==
  LET q == request[r]
      updated == DOMAIN q.neighbours \cap Stored
  IN  /\ q.at = "embedding"
      /\ content' = Overlaid(content, q.batch)
      /\ vector' = Overlaid(Overlaid(vector, q.texts), [t \in updated |-> q.neighbours[t]])
      /\ pending' = pending \cup DOMAIN q.batch \cup updated
      /\ request' = [request EXCEPT ![r] = [at |-> "indexing", turns |-> DOMAIN q.batch \cup updated]]
      /\ UNCHANGED deletes

\* Embedding or the transaction fails: nothing is stored.
Fail(r) ==
  /\ request[r].at \in {"built", "embedding"}
  /\ request' = [request EXCEPT ![r] = Idle]
  /\ UNCHANGED <<content, vector, pending, deletes>>

Indexed(r) ==
  /\ request[r].at = "indexing"
  /\ pending' = pending \ request[r].turns
  /\ request' = [request EXCEPT ![r] = Idle]
  /\ UNCHANGED <<content, vector, deletes>>

\* The indexes stay behind until the maintenance tick, or a re-send.
IndexFails(r) ==
  /\ request[r].at = "indexing"
  /\ request' = [request EXCEPT ![r] = Idle]
  /\ UNCHANGED <<content, vector, pending, deletes>>

Reindex ==
  /\ pending # {} /\ \A r \in Request : request[r] = Idle
  /\ pending' = {}
  /\ UNCHANGED <<content, vector, request, deletes>>

\* A deletion does not look at the turns around.
Delete(t) ==
  /\ t \in Stored /\ deletes < MaxDelete
  /\ MayOverlap \/ \A r \in Request : request[r] = Idle
  /\ content' = [s \in Stored \ {t} |-> content[s]]
  /\ vector' = [s \in Stored \ {t} |-> vector[s]]
  /\ pending' = pending \ {t}
  /\ deletes' = deletes + 1
  /\ UNCHANGED request

Next ==
  \/ \E r \in Request :
       \/ \E batch \in Batch : Build(r, batch)
       \/ Filter(r) \/ Commit(r) \/ Fail(r) \/ Indexed(r) \/ IndexFails(r)
  \/ Reindex
  \/ \E t \in Turn : Delete(t)

Spec == Init /\ [][Next]_vars

-----------------------------------------------------------------------------

\* Whatever batches the turns came in and in which order, each stored turn is
\* embedded with every stored turn around it as it now reads: what the head of
\* embed_text.rs promises, through build_embed_texts' neighbour updates and
\* the two times window it reads.
WindowsComplete ==
  \A t, n \in Stored :
    Within(t, n, Window) => n \in DOMAIN vector[t] /\ vector[t][n] = content[n]

=============================================================================
