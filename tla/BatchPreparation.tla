-------------------------- MODULE BatchPreparation --------------------------
(* What becomes of a batch of memories on its way to the tables: long ones   *)
(* are split into chunks, records are derived from each piece, what is       *)
(* stored already is dropped, the rest is embedded, facts that say again     *)
(* what the entity's index or the batch says are dropped, and the records    *)
(* that are left are committed with their cards, links and versions.  A      *)
(* deletion finds the derived records by the prefix of their ids.  Requests  *)
(* of the entity follow each other.                                          *)
EXTENDS Integers, FiniteSets, SequencesExt

CONSTANTS
  Source,      \* ids of memories as sent, numbered by turn
  Sayable,    \* what can be sent: [text, kind]
  Pieces,      \* [text -> sequence of texts]: the chunks of a text
  Mined,       \* [text -> sequence of [tag, text]]: what is derived from a piece
  InSession, FirstTurn,  \* sources of a session, and of its first turn
  Similar,     \* pairs of texts whose vectors have a cosine of 0.94 or more
  Slight,      \* texts that evaluate_lifecycle gives no vector
  Keyed,       \* texts with a fact key, given or inferred
  Numbers,     \* texts with a number and its unit
  Disabled,    \* TELLODB_DISABLE
  MayUpdate,   \* a memory is sent again with another text
  MayDeleteSplit \* clients delete memories that were split

None == "none"

VARIABLES
  memories,    \* with vector_lookup: id -> [text, kind, parent, vector]
  fts, cards, facts, metrics,  \* the ids with a row in these tables
  links,
  known,       \* what clients have sent and not deleted
  last         \* the batch of the last step

tables == <<memories, fts, cards, facts, metrics, links>>
vars == <<tables, known, last>>

-----------------------------------------------------------------------------
(* Memory ids: what was sent, and the tags of derivations.                   *)

Id(source) == [source |-> source, tags |-> <<>>]
NoId == Id(-1)
DerivedFrom(id, tag) == [id EXCEPT !.tags = Append(@, tag)]
Under(id, of) == id.source = of.source /\ IsPrefix(of.tags, id.tags)

\* As chunks were numbered once: as further turns.
ChunkIdNumbered(id, k) == [id EXCEPT !.source = @ + k]

BuildChunkMemoryId(id, k) == DerivedFrom(id, <<"c", k>>)

-----------------------------------------------------------------------------
(* Expansion.                                                                *)

Sent(source, said) ==
  [id |-> Id(source), text |-> said.text, kind |-> said.kind, parent |-> NoId, index |-> TRUE,
   dedup |-> TRUE, turn |-> source]

\* A text of one piece is stored as it is.
Units(p) ==
  LET pieces == Pieces[p.text]
  IN  IF Len(pieces) <= 1 \/ "chunks" \in Disabled THEN <<p>>
      ELSE [k \in 1 .. Len(pieces) |->
              [p EXCEPT !.id = BuildChunkMemoryId(p.id, k - 1), !.text = pieces[k], !.parent = p.id]]

\* The kind of a derivation, whether it gets a vector, and whether it is
\* compared with what is known.
Kind == [gist |-> "session_summary", kw |-> "session_summary", event |-> "session_summary",
         fact |-> "fact", rel |-> "fact", card |-> "fact", liking |-> "preference"]
IndexedTags == {"gist", "event", "fact", "card", "liking"}
DedupTags == {"fact", "card", "liking"}
Tag(family) == IF family = "liking" THEN "card" ELSE family
Feature == [gist |-> "gist", kw |-> "keywords", event |-> "event_companions", fact |-> "fact_companions",
            rel |-> "relation_companions", card |-> "atomic_cards", liking |-> "atomic_cards"]

Companions(u) ==
  LET made(m) == /\ m.of \in {"gist", "kw"} => u.turn \in FirstTurn
                 /\ Feature[m.of] \notin Disabled
      found == SelectSeq(Mined[u.text], made)
  IN  IF u.turn \notin InSession THEN <<>>
      ELSE [k \in DOMAIN found |->
              [id |-> DerivedFrom(u.id, <<Tag(found[k].of), found[k].n>>), text |-> found[k].text,
               kind |-> Kind[found[k].of], parent |-> u.id, index |-> found[k].of \in IndexedTags,
               dedup |-> found[k].of \in DedupTags, turn |-> u.turn]]

Expanded(payloads) ==
  LET units == FlattenSeq([k \in DOMAIN payloads |-> Units(payloads[k])])
  IN  FlattenSeq([k \in DOMAIN units |-> <<units[k]>> \o Companions(units[k])])

-----------------------------------------------------------------------------
(* The filter, embedding and deduplication.                                  *)

KeepPayload(r) ==
  \/ r.id \notin DOMAIN memories
  \/ memories[r.id].text # r.text
  \/ memories[r.id].kind # r.kind

\* One vector for each record that asks for one, in the records' order.
Embeddings(records) ==
  LET indexed == SelectSeq(records, LAMBDA r : r.index)
  IN  [k \in DOMAIN indexed |-> indexed[k].text]

Compared(r) ==
  /\ r.index /\ r.text \notin Slight /\ r.dedup /\ r.kind = "fact"
  /\ "semantic_dedup" \notin Disabled

IsSemanticDuplicate(vector) ==
  \E id \in DOMAIN memories : memories[id].vector # None /\ <<memories[id].vector, vector>> \in Similar

\* As if a record without a vector of its own left the next one alone.
TakenIfKept(r, embeddings) ==
  IF r.index /\ r.text \notin Slight THEN Tail(embeddings) ELSE embeddings

\* The vectors left for the records after this one, dropped or not.
Taken(r, embeddings) == IF r.index THEN Tail(embeddings) ELSE embeddings

\* One record of build_observations' loop.
Prepared1(acc, r) ==
  LET vector == IF r.index /\ r.text \notin Slight THEN Head(acc.embeddings) ELSE None
      again == IsSemanticDuplicate(vector) \/ \E v \in acc.seen : <<v, vector>> \in Similar
      rest == [acc EXCEPT !.embeddings = Taken(r, @)]
  IN  IF Compared(r) /\ again THEN rest
      ELSE [rest EXCEPT !.records = Append(@, [r EXCEPT !.index = vector]),
                        !.seen = IF Compared(r) THEN @ \cup {vector} ELSE @]

\* The records to store; index is now the vector.
Observations(records) ==
  FoldLeft(Prepared1, [records |-> <<>>, seen |-> {}, embeddings |-> Embeddings(records)], records).records

-----------------------------------------------------------------------------
(* Storing and deleting.                                                     *)

Ids(records) == {records[k].id : k \in DOMAIN records}

\* Of two records with one id the later one stays.
Stored(records) ==
  [id \in DOMAIN memories \cup Ids(records) |->
     LET same == {k \in DOMAIN records : records[k].id = id}
     IN  IF same = {} THEN memories[id]
         ELSE LET r == records[Max(same)]
              IN  [text |-> r.text, kind |-> r.kind, parent |-> r.parent, vector |-> r.index]]

LinksOf(records) ==
  IF "derived_links" \in Disabled THEN {}
  ELSE UNION {LET r == records[k]
              IN  IF r.parent = NoId THEN {}
                  ELSE {<<r.id, r.parent, "derived_from">>, <<r.parent, r.id, "derived_variant">>}
                : k \in DOMAIN records}

\* Relations are keyed by their predicate.
IsRelation(id) == id.tags # <<>> /\ Last(id.tags)[1] = "rel"
IsVersion(r) == r.kind \in {"fact", "preference"} /\ (r.text \in Keyed \/ IsRelation(r.id))

Init ==
  /\ memories = [id \in {} |-> None] /\ fts = {} /\ cards = {} /\ facts = {} /\ metrics = {} /\ links = {}
  /\ known = [m \in {} |-> None] /\ last = <<>>

\* batch: a sequence of sources with what is said, each source once.
Ingest(batch) ==
  LET payloads == [k \in DOMAIN batch |-> Sent(batch[k].source, batch[k].said)]
      records == Observations(SelectSeq(Expanded(payloads), KeepPayload))
      told == {k \in DOMAIN batch : batch[k].said.text \in Numbers /\ "metrics" \notin Disabled}
  IN  /\ memories' = Stored(records)
      /\ fts' = fts \cup Ids(records)
      /\ cards' = IF "memory_cards" \in Disabled THEN cards ELSE cards \cup Ids(records)
      /\ facts' = facts \cup (IF "facts" \in Disabled THEN {} ELSE Ids(SelectSeq(records, IsVersion)))
      /\ metrics' = (metrics \ {Id(batch[k].source) : k \in DOMAIN batch})
                      \cup {Id(batch[k].source) : k \in told}
      /\ links' = links \cup LinksOf(records)
      /\ known' = [m \in DOMAIN known \cup {batch[k].source : k \in DOMAIN batch} |->
                     IF \E k \in DOMAIN batch : batch[k].source = m
                     THEN batch[CHOOSE k \in DOMAIN batch : batch[k].source = m].said ELSE known[m]]
      /\ last' = batch

Send ==
  \E sources \in (SUBSET Source) \ {{}} : \E order \in SetToSeqs(sources), said \in [sources -> Sayable] :
    /\ MayUpdate \/ \A m \in sources \cap DOMAIN known : said[m] = known[m]
    /\ Ingest([k \in DOMAIN order |-> [source |-> order[k], said |-> said[order[k]]]])

\* As if only the memory itself and what it has a row for went.
ErasedAlone(ids, id) == ids \ {id}

\* The rows of an id and of the ids that extend it.
Erased(ids, id) == {i \in ids : ~Under(i, id)}

DeleteObservation(id) ==
  /\ memories' = [i \in Erased(DOMAIN memories, id) |-> memories[i]]
  /\ fts' = Erased(fts, id) /\ facts' = Erased(facts, id) /\ metrics' = Erased(metrics, id)
  /\ cards' = {c \in Erased(cards, id) : memories[c].parent # id}
  /\ links' = {l \in links : ~Under(l[1], id) /\ ~Under(l[2], id)}

\* A client deletes a memory by the id it sent; an id without a row of its own
\* is not found.
Delete(m) ==
  LET id == Id(m)
  IN  /\ m \in DOMAIN known /\ (MayDeleteSplit \/ id \in DOMAIN memories)
      /\ IF id \in DOMAIN memories THEN DeleteObservation(id) ELSE UNCHANGED tables
      /\ known' = [k \in DOMAIN known \ {m} |-> known[k]]
      /\ last' = <<>>

Next == Send \/ \E m \in Source : Delete(m)

Spec == Init /\ [][Next]_vars

-----------------------------------------------------------------------------

\* A vector in the index is that of the record's own text: the embeddings are
\* made for some of the records and handed out in order, while others have
\* none or are dropped on the way.
VectorsOfOwnText ==
  \A id \in DOMAIN memories : memories[id].vector \in {None, memories[id].text}

\* A memory that its client has deleted is nowhere: no chunk, no derived
\* record, no card, no link, no version and no number of it.
DeletedIsGone ==
  /\ \A id \in DOMAIN memories \cup fts \cup cards \cup facts \cup metrics : id.source \in DOMAIN known
  /\ \A l \in links : l[1].source \in DOMAIN known

\* A request answered with success has stored everything it said: each record
\* is there with its text, unless it is a fact and the entity has a record
\* that says as much.  Nothing else is changed.
SaidIsKept ==
  [][last' # <<>> =>
       LET payloads == [k \in DOMAIN last' |-> Sent(last'[k].source, last'[k].said)]
           expanded == Expanded(payloads)
           sources == {last'[k].source : k \in DOMAIN last'}
       IN  /\ \A k \in DOMAIN expanded :
                LET r == expanded[k]
                IN  \/ r.id \in DOMAIN memories' /\ memories'[r.id].text = r.text
                    \/ /\ r.kind = "fact"
                       /\ \E id \in DOMAIN memories' : <<memories'[id].vector, r.text>> \in Similar
           /\ \A id \in DOMAIN memories :
                id.source \notin sources => id \in DOMAIN memories' /\ memories'[id] = memories[id]]_vars

=============================================================================
