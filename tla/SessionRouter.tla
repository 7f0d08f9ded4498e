--------------------------- MODULE SessionRouter ---------------------------
(***************************************************************************)
(* The router document of one session of one entity: what its memories     *)
(* say, folded into one text that a query matches before it looks at the   *)
(* memories themselves.  The text is derived data in four tables.  An      *)
(* ingest merges its memories into it, a deletion folds it anew from the   *)
(* fragments that remain, each in the transaction of the memories, and a   *)
(* repair of unindexed rows writes once more the text it has read before.  *)
(*                                                                         *)
(* The module is open: Retention composes it with the expiry of the        *)
(* memories, and has the actions that send ingests and deletions.          *)
(***************************************************************************)
EXTENDS Integers, FiniteSets, FiniteSetsExt, Sequences, SequencesExt

CONSTANTS
  Memory,    \* memory ids: numbers, in the order of memory_id
  Derived,   \* Derived[m]: the ids that extend "m::", deleted along with m
  Part,      \* what a memory contributes: facts, events, terms, speakers
  Focus,     \* values of session_focus; session_date is merged like it
  NoFocus    \* the empty one

ASSUME SessionRouterAssumption ==
  /\ Memory \subseteq Nat /\ IsFiniteSet(Memory)
  /\ Derived \in [Memory -> SUBSET Memory]
  \* being a prefix is transitive, and of two prefixes of an id one is the other's
  /\ \A m \in Memory : \A n \in Derived[m] : Derived[n] \subseteq Derived[m]
  /\ \A m, n \in Memory :
       Derived[m] \cap Derived[n] # {} => m = n \/ m \in Derived[n] \/ n \in Derived[m]
  /\ NoFocus \in Focus

VARIABLES
  fragments, \* session_router_sources: what each memory said
  record,    \* session_router: record_json
  lane,      \* the router's text in fts_session_router
  doc,       \* the router's text in fts_memories
  unindexed, \* memories of the session whose indexed flag is not set
  repair     \* a run of reindex_rows

routerVars == <<fragments, record, lane, doc, unindexed, repair>>

\* A text quotes parts and a focus.  The session's own id is in every text, so
\* none is empty.
Quote == [parts: SUBSET Part, focus: Focus]
NoText == [parts |-> {}, focus |-> "no text"]

\* A fragment is a record of one source, its text complete.
Record == [parts: SUBSET Part, focus: Focus, sources: (SUBSET Memory) \ {{}},
           text: Quote]
NoRecord == [parts |-> {}, focus |-> NoFocus, sources |-> {}, text |-> NoText]

TextOf(rec) == [parts |-> rec.parts, focus |-> rec.focus]
Fragment(m, quote) ==
  [parts |-> quote.parts, focus |-> quote.focus, sources |-> {m}, text |-> quote]

Fragmented(f) == {m \in Memory : f[m] # NoRecord}

NotRepairing == [stage |-> "idle", rows |-> {}, text |-> NoText]

RouterInit ==
  /\ fragments = [m \in Memory |-> NoRecord]
  /\ record = NoRecord
  /\ lane = NoText /\ doc = NoText
  /\ unindexed = {}
  /\ repair = NotRepairing

-----------------------------------------------------------------------------
(* Merging.                                                                *)

\* merge_router_records: the text is built before the focus is replaced, so it
\* shows the focus of the merge before.
Merged(old, new) ==
  [parts |-> old.parts \cup new.parts,
   focus |-> IF new.focus = NoFocus THEN old.focus ELSE new.focus,
   sources |-> old.sources \cup new.sources,
   text |-> [parts |-> old.parts \cup new.parts, focus |-> old.focus]]

MergedOnto(old, new) == IF old = NoRecord THEN new ELSE Merged(old, new)

\* The fragments of a batch merged onto a record, one after the other.
MergedAll(base, said, batch) ==
  FoldLeft(LAMBDA rec, m : MergedOnto(rec, said[m]), base, batch)

\* ORDER BY memory_id.
Ascending(S) ==
  CHOOSE q \in [1..Cardinality(S) -> S] : \A i, j \in DOMAIN q : i < j => q[i] < q[j]

\* Slips (definitions with a plausible mistake, which a property must notice):
\* a rebuild that starts from the record, or writes one without a source; a
\* text that only the router's own table gets.
RebuiltOnto(f) == MergedAll(record, f, Ascending(Fragmented(f)))
RebuiltEmpty(f) ==
  LET rec == MergedAll(NoRecord, f, Ascending(Fragmented(f)))
  IN  [rec EXCEPT !.text = TextOf(rec)]
WriteLaneOnly(rec) == record' = rec /\ lane' = rec.text /\ UNCHANGED doc

\* rebuild_router_after_delete: from nothing, then the text once more.
Rebuilt(f) ==
  LET rec == MergedAll(NoRecord, f, Ascending(Fragmented(f)))
  IN  IF rec = NoRecord THEN rec ELSE [rec EXCEPT !.text = TextOf(rec)]

\* The three router rows as the record has it.
WriteRouter(rec) ==
  /\ record' = rec
  /\ lane' = record'.text
  /\ doc' = record'.text

\* merge_router_records_tx for the memories of a batch in its order, said[m]
\* being the fragment of m.
MergeBatch(batch, said) ==
  /\ fragments' = [m \in Memory |-> IF m \in ToSet(batch) THEN said[m]
                                    ELSE fragments[m]]
  /\ WriteRouter(MergedAll(record, said, batch))
  /\ unindexed' = unindexed \cup ToSet(batch)
  /\ UNCHANGED repair

\* What a deletion of the ids D leaves of the fragments.
Remaining(D) ==
  [m \in Memory |-> IF m \in D THEN NoRecord ELSE fragments[m]]

\* The router's part of delete_observation: rebuilt if a deleted memory is
\* among its sources or has a fragment.
DeleteFromRouter(D) ==
  /\ fragments' = Remaining(D)
  /\ IF (record.sources \cup Fragmented(fragments)) \cap D = {}
     THEN UNCHANGED <<record, lane, doc>>
     ELSE WriteRouter(Rebuilt(fragments'))
  /\ unindexed' = unindexed \ D
  /\ UNCHANGED repair

-----------------------------------------------------------------------------
(* Indexing and repair.                                                    *)

\* The request that stored m has indexed it; routers are none of its business.
MarkIndexed(m) ==
  /\ m \in unindexed
  /\ unindexed' = unindexed \ {m}
  /\ UNCHANGED <<fragments, record, lane, doc, repair>>

\* reindex_unindexed, reindex_memory_ids: the rows, then, by another query, the
\* router text of their sessions.
RepairRows ==
  /\ repair.stage = "idle"
  /\ unindexed # {}
  /\ repair' = [NotRepairing EXCEPT !.stage = "router", !.rows = unindexed]
  /\ UNCHANGED <<fragments, record, lane, doc, unindexed>>

RepairRouter ==
  /\ repair.stage = "router"
  /\ repair' = [repair EXCEPT !.stage = "write", !.text = record.text]
  /\ UNCHANGED <<fragments, record, lane, doc, unindexed>>

\* fts_index_batch: no document for a session without a router row.
RepairWrite ==
  /\ repair.stage = "write"
  /\ doc' = IF repair.text = NoText THEN doc ELSE repair.text
  /\ repair' = [repair EXCEPT !.stage = "finish"]
  /\ UNCHANGED <<fragments, record, lane, unindexed>>

RepairFinish ==
  /\ repair.stage = "finish"
  /\ unindexed' = unindexed \ repair.rows
  /\ repair' = NotRepairing
  /\ UNCHANGED <<fragments, record, lane, doc>>

\* An error, or a crash, ends the repair where it is.
RepairStops ==
  /\ repair.stage # "idle"
  /\ repair' = NotRepairing
  /\ UNCHANGED <<fragments, record, lane, doc, unindexed>>

RepairGoesOn == RepairRouter \/ RepairWrite \/ RepairFinish

-----------------------------------------------------------------------------
(* Properties.                                                             *)

RouterTypeOK ==
  /\ fragments \in [Memory -> Record \cup {NoRecord}]
  /\ record \in Record \cup {NoRecord}
  /\ lane \in Quote \cup {NoText} /\ doc \in Quote \cup {NoText}
  /\ unindexed \subseteq Memory
  /\ repair \in [stage: {"idle", "router", "write", "finish"},
                 rows: SUBSET Memory, text: Quote \cup {NoText}]

\* What a query finds in either full-text table is the text of the record it
\* then scores, and is gone with it, however ingests, deletions, purges and
\* repairs follow each other.
RouterDocsAgree == lane = record.text /\ doc = record.text

\* The record is exactly what its fragments say: every source still has one,
\* nothing that a stored memory said is missing, and nothing is quoted that no
\* stored memory said, the focus, which may be an older one, included.
RouterOfFragments ==
  /\ record.sources = Fragmented(fragments)
  /\ record.parts = UNION {fragments[m].parts : m \in Memory}
  /\ record # NoRecord =>
       /\ record.text.parts = record.parts
       /\ record.text.focus \in {fragments[m].focus : m \in Memory} \cup {NoFocus}

=============================================================================
