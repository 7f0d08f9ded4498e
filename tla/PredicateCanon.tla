---------------------------- MODULE PredicateCanon ----------------------------
(* The predicates of an entity's facts in groups: a fact is filed under the   *)
(* canonical predicate of its own, which decides the chain its versions are   *)
(* in.  A request embeds the predicates of its batch and later commits: the   *)
(* groups are read and extended, and the facts filed, in one transaction.     *)
EXTENDS Integers, FiniteSets, SequencesExt

CONSTANTS
  Predicates,          \* the predicates, in the order of their names
  Similarity,          \* [predicate -> [predicate -> similarity]]
  Tau,                 \* predicate_canon_tau
  Model,               \* the embedding models, each with a dimension of its own
  Request, None,
  MaxFacts, MaxSwitch  \* bounds

VARIABLES
  canon,     \* predicate_canon: [predicate -> canonical predicate or None]
  dimension, \* the model of the vector stored with a canonical predicate
  facts,     \* filed: [raw, key]
  model,     \* of the running process
  batch,     \* what each request has embedded: [raw, model]
  filed, switched

cvars == <<canon, dimension, facts, model, batch, filed, switched>>

Predicate == ToSet(Predicates)
Idle == [raw |-> {}, model |-> None]

Init ==
  /\ canon = [p \in Predicate |-> None] /\ dimension = [p \in Predicate |-> None]
  /\ facts = {} /\ model \in Model /\ batch = [r \in Request |-> Idle]
  /\ filed = 0 /\ switched = 0

\* The predicates of the batch, once each.
Embed(r) ==
  /\ batch[r] = Idle
  /\ \E raw \in (SUBSET Predicate) \ {{}} :
       /\ filed + Cardinality(raw) <= MaxFacts /\ filed' = filed + Cardinality(raw)
       /\ batch' = [batch EXCEPT ![r] = [raw |-> raw, model |-> model]]
  /\ UNCHANGED <<canon, dimension, facts, model, switched>>

\* The most similar of the canonical predicates with a vector of as many
\* dimensions, if it is similar enough; the first of equals, in the order of
\* the table, which is any.
Nearest(table, p, m) ==
  LET alike == {c \in Predicate :
        table.canon[c] = c /\ table.dimension[c] = m /\ Similarity[p][c] >= Tau}
  IN  IF alike = {} THEN {p}
      ELSE {c \in alike : \A d \in alike : Similarity[p][d] <= Similarity[p][c]}

\* Only a group's founder has its vector stored.
Founded(table, canon1, p, m) ==
  IF canon1[p] = table.canon[p] THEN table.dimension[p] ELSE IF canon1[p] = p THEN m ELSE None

\* The table that the i-th predicate is looked up in.
Before(table, canon1, i, m) ==
  LET earlier == {Predicates[j] : j \in 1 .. i - 1}
  IN  [canon |-> [p \in Predicate |-> IF p \in earlier THEN canon1[p] ELSE table.canon[p]],
       dimension |-> [p \in Predicate |-> IF p \in earlier THEN Founded(table, canon1, p, m) ELSE table.dimension[p]]]

\* canonicalize_predicates_tx: what is known keeps its group, the rest are
\* assigned one after the other, so that one may found the next one's group.
Canonicalized(table, raw, m) ==
  {[canon |-> canon1, dimension |-> [p \in Predicate |-> Founded(table, canon1, p, m)]] :
     canon1 \in {c \in [Predicate -> Predicate \cup {None}] :
       \A i \in DOMAIN Predicates :
         LET p == Predicates[i]
         IN  IF p \notin raw \/ table.canon[p] # None THEN c[p] = table.canon[p]
             ELSE c[p] \in Nearest(Before(table, c, i, m), p, m)}}

Commit(r) ==
  /\ batch[r] # Idle
  /\ \E t \in Canonicalized([canon |-> canon, dimension |-> dimension], batch[r].raw, batch[r].model) :
       /\ canon' = t.canon /\ dimension' = t.dimension
       /\ facts' = facts \cup {[raw |-> p, key |-> t.canon[p]] : p \in batch[r].raw}
  /\ batch' = [batch EXCEPT ![r] = Idle]
  /\ UNCHANGED <<model, filed, switched>>

\* A statement of the transaction fails, and all of it is undone.
Fail(r) ==
  /\ batch[r] # Idle
  /\ batch' = [batch EXCEPT ![r] = Idle]
  /\ UNCHANGED <<canon, dimension, facts, model, filed, switched>>

\* The process is started again with another model.
SwitchModel ==
  /\ switched < MaxSwitch /\ switched' = switched + 1
  /\ model' \in Model \ {model}
  /\ batch' = [r \in Request |-> Idle]
  /\ UNCHANGED <<canon, dimension, facts, filed>>

Next ==
  \/ SwitchModel
  \/ \E r \in Request : Embed(r) \/ Commit(r) \/ Fail(r)

Spec == Init /\ [][Next]_cvars

-----------------------------------------------------------------------------

\* The facts of one predicate are in one chain, whatever was committed between
\* their requests: a predicate once grouped stays in its group, the groups are
\* one level deep, and what is in one is similar to the predicate it is named
\* for.
OneChainPerPredicate ==
  /\ \A f \in facts : f.key = canon[f.raw]
  /\ \A p \in Predicate : canon[p] # None =>
       /\ canon[canon[p]] = canon[p]
       /\ canon[p] # p => Similarity[p][canon[p]] >= Tau
       /\ dimension[p] # None <=> canon[p] = p

=============================================================================
