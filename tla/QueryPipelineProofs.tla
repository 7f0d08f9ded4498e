------------------------- MODULE QueryPipelineProofs -------------------------
(***************************************************************************)
(* A query that reads the store a statement at a time answers as Recall    *)
(* promises and within its limit: for any memories, links and bounds, and  *)
(* whatever is written and deleted between two of its reads.               *)
(***************************************************************************)
EXTENDS QueryPipeline, FiniteSetTheorems, SequenceTheorems, TLAPS

Phase == {"idle", "vectors", "texts", "cards", "graph", "hydrate", "fact", "select", "card", "block",
          "failed"}
Result == [origin : {"fact", "card", "stored", "block"}, memory : Memory \cup {None},
           text : 0 .. MaxChanges]

TypeOK ==
  /\ store \in [Memory -> Row \cup {None}]
  /\ clock \in Time /\ changes \in 0 .. MaxChanges
  /\ question \in Question \cup {None}
  /\ phase \in Phase
  /\ found \subseteq Memory
  /\ DOMAIN hydrated \subseteq Memory /\ hydrated \in [DOMAIN hydrated -> Row]
  /\ results \in Seq(Result)

\* Between queries nothing is asked and nothing is left of the last one.
QuestionFits ==
  /\ phase = "idle" <=> question = None
  /\ phase = "idle" => hydrated = <<>>

\* The history covers the store, and what was hydrated from it.
SeenFits ==
  question # None =>
    /\ R!Stored(store) \subseteq seen
    /\ \A m \in DOMAIN hydrated : <<m, hydrated[m]>> \in seen

\* What score_loop leaves is in scope and was in bounds when it was hydrated.
ScoredFits ==
  phase \in {"fact", "select"} =>
    \A m \in found : m \in DOMAIN hydrated /\ InScope(m) /\ InBounds(hydrated[m])

\* The rows of the response may be answered.
AnswerFits ==
  phase \in {"card", "block"} =>
    \A i \in DOMAIN results :
      results[i].origin = "stored" => R!Answerable(results[i].memory, results[i].text, question)

\* The first top rows are put on top, and the others count against the limit.
OnTop(top) ==
  /\ Len(results) <= Limit + top
  /\ \A i \in 1 .. Len(results) :
       IF i <= top THEN results[i].origin \in {"fact", "block"} ELSE results[i].origin \in {"stored", "card"}

ListedOnce ==
  \A i, j \in 1 .. Len(results) :
    /\ results[i].origin = "stored" /\ results[j].origin = "stored"
    /\ results[i].memory = results[j].memory
    => i = j

RowsFit ==
  /\ phase \in {"select"} => results \in {<<>>, <<SynthesizedFact>>}
  /\ phase \in {"card", "block"} => \E top \in 0 .. 1 : OnTop(top)
  /\ phase = "card" => \A i \in 1 .. Len(results) : results[i].origin # "card"
  /\ phase = "idle" => \E top \in 0 .. 2 : OnTop(top)
  /\ phase \in {"card", "block", "idle"} => ListedOnce

Inv == TypeOK /\ QuestionFits /\ SeenFits /\ ScoredFits /\ AnswerFits /\ RowsFit

-----------------------------------------------------------------------------
(* Types.                                                                  *)

LEMMA Constants ==
  /\ Limit \in Nat \ {0} /\ MaxTime \in Nat /\ MaxChanges \in Nat
  /\ Source \in [Memory -> Memory] /\ None \notin Question
BY QueryAssumption, NoneIsNoQuestion

LEMMA TypeInit == Init => TypeOK
<1> SUFFICES ASSUME Init PROVE TypeOK
  OBVIOUS
<1>1. store \in [Memory -> Row \cup {None}]
  BY Constants DEF Init, Row, Time
<1>2. /\ hydrated \in [DOMAIN hydrated -> Row] /\ DOMAIN hydrated \subseteq Memory
      /\ results \in Seq(Result)
  BY DEF Init
<1>3. clock \in Time /\ changes \in 0 .. MaxChanges
  BY Constants DEF Init, Time
<1> QED
  BY <1>1, <1>2, <1>3 DEF Init, TypeOK, Phase

\* The store under the query stays a store.
LEMMA WorldTypes ==
  ASSUME TypeOK, NEW m \in Memory, Write(m) \/ Delete(m)
  PROVE  store' \in [Memory -> Row \cup {None}] /\ changes' \in 0 .. MaxChanges /\ UNCHANGED <<clock, query>>
<1>1. CASE Write(m)
  <2>1. PICK ds \in SUBSET {d \in Memory : Source[d] = m}, t \in Time, e \in {Never, MaxTime} :
          LET row == [created |-> t, recorded |-> clock, expires |-> e, text |-> changes + 1]
          IN  Changed([x \in Memory |-> IF x \in ds \cup {m} THEN row ELSE store[x]])
    BY <1>1 DEF Write
  <2> DEFINE row == [created |-> t, recorded |-> clock, expires |-> e, text |-> changes + 1]
  <2>2. changes + 1 \in 0 .. MaxChanges
    <3>1. changes < MaxChanges /\ changes \in 0 .. MaxChanges
      BY <2>1 DEF Changed, TypeOK
    <3> QED
      BY <3>1, Constants
  <2>3. e \in Time \cup {Never}
    BY Constants DEF Time
  <2>4. row \in Row
    BY <2>2, <2>3 DEF Row, TypeOK
  <2> HIDE DEF row
  <2> QED
    BY <2>1, <2>2, <2>4 DEF Changed, TypeOK, row
<1>2. CASE Delete(m)
  <2>1. changes' \in 0 .. MaxChanges
    <3>1. changes < MaxChanges /\ changes \in 0 .. MaxChanges /\ changes' = changes + 1
      BY <1>2 DEF Delete, Changed, TypeOK
    <3> QED
      BY <3>1, Constants
  <2> QED
    BY <1>2, <2>1 DEF Delete, Changed, TypeOK
<1> QED
  BY <1>1, <1>2

\* What a query selects: at most Limit candidates, no two of one source.
LEMMA SelectionIsBounded ==
  ASSUME TypeOK, NEW picked \in Selections
  PROVE  \E n \in 0 .. Limit :
           /\ picked \in [1 .. n -> found]
           /\ \A i, j \in 1 .. n : i # j => Source[picked[i]] # Source[picked[j]]
<1> DEFINE sources == {Source[m] : m \in found}
           size == Least(Limit, Cardinality(sources))
<1>1. sources \subseteq Memory /\ IsFiniteSet(Memory)
  BY QueryAssumption DEF TypeOK
<1>2. Cardinality(sources) \in Nat
  BY <1>1, FS_Subset, FS_CardinalityType
<1> HIDE DEF sources
<1>3. size \in 0 .. Limit
  BY <1>2, Constants DEF Least
<1>4. /\ picked \in [1 .. size -> found]
      /\ \A i, j \in 1 .. size : i # j => Source[picked[i]] # Source[picked[j]]
  BY DEF Selections, sources
<1> QED
  BY <1>3, <1>4

\* The rows a selection is answered with.
LEMMA RespondRows ==
  ASSUME TypeOK, ScoredFits, phase = "select", NEW picked \in Selections
  PROVE  \E n \in 0 .. Limit :
           /\ picked \in [1 .. n -> found]
           /\ [i \in DOMAIN picked |-> StoredRow(Source[picked[i]], TextOf(picked[i]))] \in [1 .. n -> Result]
           /\ \A i, j \in 1 .. n : i # j => Source[picked[i]] # Source[picked[j]]
<1>1. PICK n \in 0 .. Limit :
        /\ picked \in [1 .. n -> found]
        /\ \A i, j \in 1 .. n : i # j => Source[picked[i]] # Source[picked[j]]
  BY SelectionIsBounded
<1>2. ASSUME NEW i \in 1 .. n PROVE StoredRow(Source[picked[i]], TextOf(picked[i])) \in Result
  <2>1. picked[i] \in found /\ picked[i] \in Memory /\ Source[picked[i]] \in Memory
    BY <1>1, Constants DEF TypeOK
  <2>2. hydrated[picked[i]] \in Row
    BY <2>1 DEF ScoredFits, TypeOK
  <2>3. TextOf(picked[i]) \in 0 .. MaxChanges
    BY <2>1, <2>2 DEF TextOf, Exists, TypeOK, Row
  <2> QED
    BY <2>1, <2>3 DEF StoredRow, Result
<1> QED
  BY <1>1, <1>2

LEMMA FactIsResult == SynthesizedFact \in Result /\ Block \in Result
BY Constants DEF SynthesizedFact, Block, Result

LEMMA ButLast ==
  ASSUME NEW S, NEW s \in Seq(S), Len(s) >= 1
  PROVE  /\ SubSeq(s, 1, Len(s) - 1) \in Seq(S) /\ Len(SubSeq(s, 1, Len(s) - 1)) = Len(s) - 1
         /\ \A i \in 1 .. Len(s) - 1 : SubSeq(s, 1, Len(s) - 1)[i] = s[i]
<1> DEFINE n == Len(s) - 1
<1>1. n \in Nat /\ \A i \in 1 .. n : s[i] \in S
  OBVIOUS
<1> HIDE DEF n
<1>2. /\ SubSeq(s, 1, n) \in Seq(S) /\ Len(SubSeq(s, 1, n)) = IF 1 <= n THEN n - 1 + 1 ELSE 0
      /\ \A i \in 1 .. n - 1 + 1 : SubSeq(s, 1, n)[i] = s[1 + i - 1]
  BY <1>1, SubSeqProperties
<1>3. /\ SubSeq(s, 1, n) \in Seq(S) /\ Len(SubSeq(s, 1, n)) = n
      /\ \A i \in 1 .. n : SubSeq(s, 1, n)[i] = s[i]
  <2>1. n - 1 + 1 = n /\ (~(1 <= n) => n = 0) /\ \A i \in 1 .. n : 1 + i - 1 = i
    BY <1>1
  <2> QED
    BY <1>2, <2>1, Zenon
<1> QED
  BY <1>3 DEF n

\* The card and what it leaves of the rows under it.
LEMMA CardRows ==
  ASSUME TypeOK, OnTop(0), \A i \in 1 .. Len(results) : results[i].origin = "stored",
         results # <<>>, NEW top \in Memory, Exists(top)
  PROVE  \E n \in 0 .. Limit - 1 :
           LET rows == WithCard(results, top)
           IN  /\ n <= Len(results)
               /\ rows \in Seq(Result) /\ Len(rows) = n + 1
               /\ rows[1].origin = "card"
               /\ \A i \in 2 .. n + 1 : rows[i] = results[i - 1]
<1>1. results \in Seq(Result) /\ Len(results) \in 1 .. Limit /\ Limit \in Nat
  BY Constants DEF TypeOK, OnTop
<1>2. {i \in DOMAIN results : results[i].origin = "fact"} = {}
  BY <1>1
<1> DEFINE facts == Cardinality({i \in DOMAIN results : results[i].origin = "fact"})
<1>3. facts = 0
  BY <1>2, FS_EmptySet
<1>4. SynthesizedCard(top, store[top].text) \in Result
  BY DEF SynthesizedCard, Result, TypeOK, Exists, Row
<1> DEFINE card == SynthesizedCard(top, store[top].text)
           kept == IF Len(results) >= Limit THEN SubSeq(results, 1, Len(results) - 1) ELSE results
<1>5. WithCard(results, top) = <<card>> \o kept
  <2>1. WithCard(results, top) =
          <<card>> \o (IF Len(results) >= Limit + facts THEN SubSeq(results, 1, Len(results) - 1) ELSE results)
    BY DEF WithCard
  <2> HIDE DEF facts
  <2>2. Limit + facts = Limit
    BY <1>1, <1>3
  <2> QED
    BY <2>1, <2>2
<1>6. card.origin = "card"
  BY DEF SynthesizedCard
<1> HIDE DEF card
<1>7. CASE Len(results) >= Limit
  <2>1. kept \in Seq(Result) /\ Len(kept) = Len(results) - 1
        /\ \A i \in 1 .. Len(results) - 1 : kept[i] = results[i]
    <3>1. kept = SubSeq(results, 1, Len(results) - 1)
      BY <1>7
    <3> HIDE DEF kept
    <3> QED
      BY <1>1, <3>1, ButLast
  <2> HIDE DEF kept
  <2> QED
    BY <1>1, <1>4, <1>5, <1>6, <2>1, SMTT(30) DEF card
<1>8. CASE Len(results) < Limit
  <2>1. kept = results
    BY <1>1, <1>8
  <2> HIDE DEF kept
  <2> QED
    BY <1>1, <1>4, <1>5, <1>6, <1>8, <2>1 DEF card
<1>9. Len(results) >= Limit \/ Len(results) < Limit
  BY <1>1
<1> QED
  BY <1>7, <1>8, <1>9

-----------------------------------------------------------------------------
(* Each step keeps the invariant.                                          *)

LEMMA InitInv == Init => Inv
<1> SUFFICES ASSUME Init PROVE Inv
  OBVIOUS
<1>1. OnTop(0) /\ ListedOnce
  BY Constants DEF Init, OnTop, ListedOnce
<1> QED
  BY <1>1, TypeInit DEF Init, Inv, QuestionFits, SeenFits, ScoredFits, AnswerFits, RowsFit

\* More that was seen makes no less answerable.
LEMMA AnswerableMore ==
  ASSUME NEW m, NEW t, UNCHANGED question, seen \subseteq seen', R!Answerable(m, t, question)
  PROVE  R!Answerable(m, t, question)'
BY DEF R!Answerable

LEMMA RowsFitKept ==
  ASSUME RowsFit, UNCHANGED <<phase, results>> PROVE RowsFit'
BY DEF RowsFit, OnTop, ListedOnce

LEMMA ChangeStep ==
  ASSUME Inv, NEW m \in Memory, Write(m) \/ Delete(m) PROVE Inv'
<1>1. /\ store' \in [Memory -> Row \cup {None}] /\ changes' \in 0 .. MaxChanges
      /\ UNCHANGED <<clock, query>>
  BY WorldTypes DEF Inv
<1>2. seen' = IF question = None THEN seen ELSE seen \cup R!Stored(store')
  BY DEF Write, Delete, Changed
<1>3. TypeOK' /\ QuestionFits'
  BY <1>1 DEF Inv, TypeOK, QuestionFits, query
<1>4. SeenFits'
  BY <1>1, <1>2 DEF Inv, SeenFits, query, R!Stored
<1>5. ScoredFits'
  BY <1>1 DEF Inv, ScoredFits, InScope, InBounds, query
<1>6. AnswerFits'
  <2>1. seen \subseteq seen' /\ UNCHANGED <<question, phase, results>>
    BY <1>1, <1>2 DEF query
  <2> QED
    BY <2>1, AnswerableMore DEF Inv, AnswerFits
<1>7. RowsFit'
  BY <1>1, RowsFitKept DEF Inv, query
<1> QED
  BY <1>3, <1>4, <1>5, <1>6, <1>7 DEF Inv

\* Steps of a query that read what is in the store and answer nothing yet.
LEMMA ReadStep ==
  ASSUME Inv, UNCHANGED <<world, seen, question, results>>,
         phase' \in Phase \ {"idle", "select", "card", "block"}, phase # "idle",
         found' \subseteq Memory,
         hydrated' = hydrated \/ hydrated' = [m \in {x \in found : Exists(x)} |-> store[m]],
         phase' = "fact" => ScoredFits'
  PROVE  Inv'
<1>1. TypeOK'
  BY DEF Inv, TypeOK, world, Exists
<1>2. SeenFits'
  <2>1. ASSUME NEW m \in found, Exists(m) PROVE <<m, store[m]>> \in R!Stored(store)
    BY <2>1 DEF Inv, TypeOK, Exists, R!Stored
  <2> QED
    BY <2>1 DEF Inv, SeenFits, world
<1>3. QuestionFits' /\ ScoredFits' /\ AnswerFits' /\ RowsFit'
  BY DEF Inv, QuestionFits, ScoredFits, AnswerFits, RowsFit
<1> QED
  BY <1>1, <1>2, <1>3 DEF Inv

\* Steps that leave what was found and hydrated alone.
LEMMA RowStep ==
  ASSUME Inv, UNCHANGED <<world, seen, question, found, hydrated>>, phase \notin {"idle"},
         phase' \in {"select", "card", "block", "failed"},
         phase' = "select" => phase = "fact",
         results' \in Seq(Result), AnswerFits', RowsFit'
  PROVE  Inv'
<1>1. TypeOK'
  BY DEF Inv, TypeOK, world, Phase
<1>2. SeenFits' /\ QuestionFits' /\ ScoredFits'
  BY DEF Inv, SeenFits, QuestionFits, ScoredFits, InScope, InBounds, world
<1> QED
  BY <1>1, <1>2 DEF Inv

LEMMA LaneStep ==
  ASSUME Inv, RetrievalAnn \/ RetrievalFts \/ RetrievalCards \/ FusionPhase PROVE Inv'
<1>1. UNCHANGED <<world, seen, question, results, hydrated>>
      /\ phase' \in {"texts", "cards", "graph", "hydrate"} /\ phase # "idle"
  BY DEF RetrievalAnn, RetrievalFts, RetrievalCards, FusionPhase, Step
<1>2. found \subseteq Memory
  BY DEF Inv, TypeOK
<1>3. found' \subseteq Memory
  <2>1. CASE RetrievalAnn \/ RetrievalFts
    BY <1>2, <2>1 DEF RetrievalAnn, RetrievalFts, Visible
  <2>2. CASE RetrievalCards
    BY <1>2, <2>2 DEF RetrievalCards, CardHits, Visible
  <2>3. CASE FusionPhase
    <3>1. found' \subseteq found \cup {m \in UNION {Linked[x] : x \in found} : Exists(m)}
      BY <2>3 DEF FusionPhase, Expanded
    <3>2. \A x \in found : Linked[x] \subseteq Memory
      BY <1>2, QueryAssumption
    <3> QED
      BY <1>2, <3>1, <3>2
  <2> QED
    BY <2>1, <2>2, <2>3
<1> QED
  BY <1>1, <1>3, ReadStep DEF Phase

LEMMA HydrateStep ==
  ASSUME Inv, (\E read \in HydrateReads : Hydrate(read)) \/ HydrateFails \/ ScoreLoop PROVE Inv'
<1>1. UNCHANGED <<world, seen, question, results>> /\ phase # "idle"
      /\ phase' \in {"hydrate", "failed", "fact"}
  BY DEF Hydrate, HydrateFails, ScoreLoop, Step
<1>2. found' \subseteq Memory
  BY DEF Inv, TypeOK, Hydrate, HydrateFails, ScoreLoop, Scored
<1>3. hydrated' = hydrated \/ hydrated' = [m \in {x \in found : Exists(x)} |-> store[m]]
  BY DEF Hydrate, HydrateFails, ScoreLoop
<1>4. phase' = "fact" => ScoredFits'
  <2> SUFFICES ASSUME phase' = "fact" PROVE ScoredFits'
    OBVIOUS
  <2>1. ScoreLoop
    BY DEF Hydrate, HydrateFails, Step
  <2> QED
    BY <2>1 DEF ScoreLoop, Step, Scored, Owned, ScoredFits, InScope, InBounds
<1> QED
  BY <1>1, <1>2, <1>3, <1>4, ReadStep DEF Phase

LEMMA FactStep == ASSUME Inv, CurrentFact PROVE Inv'
<1>1. UNCHANGED <<world, seen, question, found, hydrated>> /\ phase = "fact" /\ phase' = "select"
  BY DEF CurrentFact, Step
<1>2. results' \in {<<>>, <<SynthesizedFact>>}
  BY DEF CurrentFact
<1>3. results' \in Seq(Result)
  <2>1. <<>> \in Seq(Result) /\ <<SynthesizedFact>> \in Seq(Result)
    BY FactIsResult
  <2> QED
    BY <1>2, <2>1
<1>4. AnswerFits' /\ RowsFit'
  BY <1>1, <1>2 DEF AnswerFits, RowsFit
<1> QED
  BY <1>1, <1>3, <1>4, RowStep

LEMMA RespondStep == ASSUME Inv, Respond PROVE Inv'
<1>1. UNCHANGED <<world, seen, question, found, hydrated>> /\ phase = "select" /\ phase' = "card"
  BY DEF Respond, Step
<1>2. PICK picked \in Selections :
        results' = results \o [i \in DOMAIN picked |-> StoredRow(Source[picked[i]], TextOf(picked[i]))]
  BY DEF Respond
<1> DEFINE row == [i \in DOMAIN picked |-> StoredRow(Source[picked[i]], TextOf(picked[i]))]
<1>3. PICK n \in 0 .. Limit :
        /\ picked \in [1 .. n -> found] /\ row \in [1 .. n -> Result]
        /\ \A i, j \in 1 .. n : i # j => Source[picked[i]] # Source[picked[j]]
  BY <1>1, RespondRows DEF Inv
<1>4. PICK top \in 0 .. 1 : results \in Seq(Result) /\ Len(results) = top
                         /\ \A i \in 1 .. top : results[i].origin = "fact"
  BY <1>1 DEF Inv, TypeOK, RowsFit, SynthesizedFact
<1>5. \A i \in 1 .. n : row[i] = StoredRow(Source[picked[i]], TextOf(picked[i]))
  BY <1>3
<1> HIDE DEF row
<1>6. row \in Seq(Result) /\ Len(row) = n /\ n \in Nat
  BY <1>3, Constants
<1>7. /\ results' \in Seq(Result) /\ Len(results') = top + n
      /\ \A i \in 1 .. top : results'[i].origin = "fact"
      /\ \A i \in top + 1 .. top + n : results'[i] = row[i - top]
  BY <1>2, <1>4, <1>6, SMTT(30) DEF row
<1>8. ASSUME NEW i \in 1 .. n
      PROVE  row[i].origin = "stored" /\ row[i].memory = Source[picked[i]] /\ row[i].text = TextOf(picked[i])
  <2>1. row[i] = [origin |-> "stored", memory |-> Source[picked[i]], text |-> TextOf(picked[i])]
    BY <1>5 DEF StoredRow
  <2> QED
    BY <2>1
<1>9. ASSUME NEW i \in 1 .. n PROVE R!Answerable(row[i].memory, row[i].text, question)
  <2> DEFINE d == picked[i]
  <2>1. d \in found /\ d \in Memory /\ Source[d] \in Memory /\ d \in DOMAIN hydrated
        /\ InScope(d) /\ InBounds(hydrated[d])
    BY <1>1, <1>3, Constants DEF Inv, ScoredFits, TypeOK
  <2>2. question # None
    BY <1>1 DEF Inv, QuestionFits
  <2>3. <<d, hydrated[d]>> \in seen /\ R!Stored(store) \subseteq seen
    BY <2>1, <2>2 DEF Inv, SeenFits
  <2>4. R!InScope(d, question) /\ R!InBounds(hydrated[d], question)
    BY <2>1 DEF InScope, InBounds, R!InScope, R!InBounds
  <2>5. \E s \in seen : s[1] \in {Source[d], d} /\ s[2].text = TextOf(d)
    <3>1. CASE Exists(Source[d])
      <4>1. <<Source[d], store[Source[d]]>> \in seen
        BY <2>1, <2>3, <3>1 DEF R!Stored, Exists
      <4> QED
        BY <3>1, <4>1 DEF TextOf
    <3>2. CASE ~Exists(Source[d])
      BY <2>3, <3>2 DEF TextOf
    <3> QED
      BY <3>1, <3>2
  <2>6. \E s \in seen : s[1] = d /\ R!InBounds(s[2], question)
    BY <2>3, <2>4
  <2> HIDE DEF d
  <2>7. R!Answerable(Source[d], TextOf(d), question)
    BY <2>1, <2>4, <2>5, <2>6 DEF R!Answerable
  <2> QED
    BY <1>8, <2>7 DEF d
<1>10. AnswerFits'
  <2> SUFFICES ASSUME NEW i \in 1 .. top + n, results'[i].origin = "stored"
               PROVE  R!Answerable(results[i].memory, results[i].text, question)'
    <3>1. DOMAIN results' = 1 .. top + n
      BY <1>6, <1>7
    <3> QED
      BY <3>1 DEF AnswerFits
  <2>1. i \in top + 1 .. top + n /\ i - top \in 1 .. n
    BY <1>6, <1>7
  <2>2. R!Answerable(row[i - top].memory, row[i - top].text, question)
    BY <1>9, <2>1
  <2>3. results'[i] = row[i - top]
    BY <1>7, <2>1
  <2> QED
    BY <1>1, <2>2, <2>3 DEF R!Answerable
<1>11. OnTop(top)'
  <2>1. Len(results') <= Limit + top
    BY <1>3, <1>6, <1>7, Constants
  <2>2. ASSUME NEW i \in 1 .. Len(results')
        PROVE  IF i <= top THEN results'[i].origin = "fact" ELSE results'[i].origin = "stored"
    <3>1. CASE i <= top
      BY <1>7, <3>1
    <3>2. CASE ~(i <= top)
      <4>1. i \in top + 1 .. top + n /\ i - top \in 1 .. n
        BY <1>6, <1>7, <3>2
      <4> QED
        BY <1>7, <1>8, <3>2, <4>1, SMTT(30)
    <3> QED
      BY <3>1, <3>2
  <2> QED
    BY <2>1, <2>2 DEF OnTop
<1>12. ListedOnce'
  <2> SUFFICES ASSUME NEW i \in 1 .. Len(results'), NEW j \in 1 .. Len(results'),
                      results'[i].origin = "stored", results'[j].origin = "stored",
                      results'[i].memory = results'[j].memory
               PROVE  i = j
    BY DEF ListedOnce
  <2>1. /\ i \in top + 1 .. top + n /\ i - top \in 1 .. n
        /\ j \in top + 1 .. top + n /\ j - top \in 1 .. n
    BY <1>6, <1>7
  <2>2. Source[picked[i - top]] = Source[picked[j - top]]
    BY <1>7, <1>8, <2>1
  <2>3. i - top = j - top
    BY <1>3, <2>1, <2>2
  <2> QED
    BY <1>6, <2>1, <2>3
<1>13. \A i \in 1 .. Len(results') : results'[i].origin # "card"
  <2> TAKE i \in 1 .. Len(results')
  <2>1. i \in 1 .. top \/ (i \in top + 1 .. top + n /\ i - top \in 1 .. n)
    BY <1>6, <1>7
  <2> QED
    BY <1>7, <1>8, <2>1
<1>14. RowsFit'
  BY <1>1, <1>11, <1>12, <1>13 DEF RowsFit
<1> QED
  BY <1>1, <1>7, <1>10, <1>14, RowStep

LEMMA CardStep == ASSUME Inv, CardAsAnswer PROVE Inv'
<1>1. UNCHANGED <<world, seen, question, found, hydrated>> /\ phase = "card" /\ phase' = "block"
  BY DEF CardAsAnswer, Step
<1>2. CASE results' = results
  <2>1. AnswerFits'
    BY <1>1, <1>2 DEF Inv, AnswerFits, R!Answerable
  <2>2. RowsFit'
    BY <1>1, <1>2 DEF Inv, RowsFit, OnTop, ListedOnce
  <2> QED
    BY <1>1, <1>2, <2>1, <2>2, RowStep DEF Inv, TypeOK
<1>3. CASE results' # results
  <2> DEFINE top == results[1].memory
  <2>1. /\ results # <<>> /\ results[1].origin = "stored" /\ top \in Memory /\ Exists(top)
        /\ results' = WithCard(results, top)
    BY <1>3, QueryAssumption DEF CardAsAnswer
  <2>2. results \in Seq(Result) /\ Len(results) \in Nat /\ Len(results) >= 1
    BY <2>1 DEF Inv, TypeOK
  <2>3. OnTop(0)
    <3>1. PICK n \in 0 .. 1 : OnTop(n)
      BY <1>1 DEF Inv, RowsFit
    <3>2. 1 \in 1 .. Len(results)
      BY <2>2
    <3>3. n # 1
      BY <2>1, <3>1, <3>2 DEF OnTop
    <3> QED
      BY <3>1, <3>3
  <2>4. \A i \in 1 .. Len(results) : results[i].origin = "stored"
    <3> TAKE i \in 1 .. Len(results)
    <3>1. results[i].origin \in {"stored", "card"}
      BY <2>2, <2>3 DEF OnTop
    <3> QED
      BY <1>1, <3>1 DEF Inv, RowsFit
  <2>5. PICK n \in 0 .. Limit - 1 :
          /\ n <= Len(results) /\ results' \in Seq(Result) /\ Len(results') = n + 1
          /\ results'[1].origin = "card" /\ \A i \in 2 .. n + 1 : results'[i] = results[i - 1]
    <3> HIDE DEF top
    <3> QED
      BY <2>1, <2>3, <2>4, CardRows DEF Inv
  <2>6. /\ n \in Nat /\ n + 1 <= Limit
        /\ \A i \in 1 .. n + 1 : i = 1 \/ (i \in 2 .. n + 1 /\ i - 1 \in 1 .. Len(results))
    BY <2>2, <2>5, Constants
  <2>7. AnswerFits'
    <3> SUFFICES ASSUME NEW i \in 1 .. n + 1, results'[i].origin = "stored"
                 PROVE  R!Answerable(results[i].memory, results[i].text, question)'
      <4>1. DOMAIN results' = 1 .. n + 1
        BY <2>5, <2>6
      <4> QED
        BY <4>1 DEF AnswerFits
    <3>1. i \in 2 .. n + 1 /\ i - 1 \in 1 .. Len(results) /\ results'[i] = results[i - 1]
      BY <2>5, <2>6
    <3>2. i - 1 \in DOMAIN results /\ results[i - 1].origin = "stored"
      BY <2>2, <2>4, <3>1
    <3>3. R!Answerable(results[i - 1].memory, results[i - 1].text, question)
      BY <1>1, <3>2 DEF Inv, AnswerFits
    <3> QED
      BY <1>1, <3>1, <3>3 DEF R!Answerable
  <2>8. OnTop(0)'
    <3>1. Len(results') <= Limit + 0
      BY <2>5, <2>6, Constants
    <3>2. \A i \in 1 .. Len(results') : results'[i].origin \in {"stored", "card"} /\ ~(i <= 0)
      BY <2>4, <2>5, <2>6
    <3> QED
      BY <3>1, <3>2 DEF OnTop
  <2>9. ListedOnce'
    <3>1. ListedOnce
      BY <1>1 DEF Inv, RowsFit
    <3> SUFFICES ASSUME NEW i \in 1 .. n + 1, NEW j \in 1 .. n + 1,
                        results'[i].origin = "stored", results'[j].origin = "stored",
                        results'[i].memory = results'[j].memory
                 PROVE  i = j
      BY <2>5 DEF ListedOnce
    <3>2. /\ i \in 2 .. n + 1 /\ i - 1 \in 1 .. Len(results) /\ results'[i] = results[i - 1]
          /\ j \in 2 .. n + 1 /\ j - 1 \in 1 .. Len(results) /\ results'[j] = results[j - 1]
      BY <2>5, <2>6
    <3>3. i - 1 = j - 1
      BY <3>1, <3>2 DEF ListedOnce
    <3> QED
      BY <3>2, <3>3
  <2>10. RowsFit'
    BY <1>1, <2>8, <2>9 DEF RowsFit
  <2> QED
    BY <1>1, <2>5, <2>7, <2>10, RowStep
<1> QED
  BY <1>2, <1>3

LEMMA FailingStep == ASSUME Inv, RespondFails \/ BlockFails PROVE Inv'
<1>1. UNCHANGED <<world, seen, question, found, hydrated, results>> /\ phase # "idle" /\ phase' = "failed"
  BY DEF RespondFails, BlockFails, Step
<1>2. AnswerFits' /\ RowsFit' /\ results' \in Seq(Result)
  BY <1>1 DEF Inv, TypeOK, AnswerFits, RowsFit
<1> QED
  BY <1>1, <1>2, RowStep

LEMMA AskStep == ASSUME Inv, NEW q \in Question, Ask(q) PROVE Inv'
<1>1. /\ phase = "idle" /\ phase' = "vectors" /\ question' = q /\ question' # None
      /\ UNCHANGED <<world, found, hydrated>> /\ results' = <<>> /\ seen' = R!Stored(store)
  BY Constants DEF Ask
<1>2. hydrated = <<>>
  BY <1>1 DEF Inv, QuestionFits
<1>3. TypeOK' /\ QuestionFits'
  BY <1>1 DEF Inv, TypeOK, QuestionFits, Phase, world
<1>4. SeenFits'
  BY <1>1, <1>2 DEF SeenFits, R!Stored, world
<1> QED
  BY <1>1, <1>3, <1>4 DEF Inv, ScoredFits, AnswerFits, RowsFit

\* Once the question is answered or has failed nothing is left of it.
LEMMA EndStep ==
  ASSUME Inv, UNCHANGED <<world, seen>>, phase' = "idle", question' = None, Dropped,
         results' \in Seq(Result), NEW top \in 0 .. 2, OnTop(top)', ListedOnce'
  PROVE  Inv'
<1>1. TypeOK' /\ QuestionFits'
  BY DEF Inv, TypeOK, QuestionFits, Phase, world, Dropped
<1> QED
  BY <1>1 DEF Inv, SeenFits, ScoredFits, AnswerFits, RowsFit

LEMMA AnswerStep == ASSUME Inv, Answer \/ Fail PROVE Inv'
<1>1. CASE Fail
  <2>1. UNCHANGED <<world, seen>> /\ phase' = "idle" /\ question' = None /\ Dropped /\ results' = <<>>
    BY <1>1 DEF Fail
  <2>2. OnTop(0)' /\ ListedOnce' /\ results' \in Seq(Result)
    BY <2>1, Constants DEF OnTop, ListedOnce
  <2> QED
    BY <2>1, <2>2, EndStep
<1>2. CASE Answer
  <2>1. /\ UNCHANGED <<world, seen>> /\ phase = "block" /\ phase' = "idle" /\ question' = None /\ Dropped
        /\ results' \in {results, <<Block>> \o results}
    BY <1>2 DEF Answer
  <2>2. ListedOnce /\ results \in Seq(Result) /\ Len(results) \in Nat
    BY <2>1 DEF Inv, RowsFit, TypeOK
  <2>3. PICK top \in 0 .. 1 : OnTop(top)
    BY <2>1 DEF Inv, RowsFit
  <2>4. CASE results' = results
    BY <2>1, <2>2, <2>3, <2>4, EndStep DEF OnTop, ListedOnce
  <2>5. CASE results' = <<Block>> \o results
    <3>1. /\ results' \in Seq(Result) /\ Len(results') = Len(results) + 1
          /\ results'[1] = Block /\ \A i \in 2 .. Len(results) + 1 : results'[i] = results[i - 1]
      BY <2>2, <2>5, FactIsResult
    <3>2. \A i \in 1 .. Len(results') :
            i = 1 \/ (i \in 2 .. Len(results) + 1 /\ i - 1 \in 1 .. Len(results))
      BY <2>2, <3>1
    <3>3. Block.origin = "block"
      BY DEF Block
    <3>4. OnTop(top + 1)'
      <4>1. Len(results') <= Limit + (top + 1)
        BY <2>2, <2>3, <3>1, Constants DEF OnTop
      <4>2. ASSUME NEW i \in 1 .. Len(results')
            PROVE  IF i <= top + 1 THEN results'[i].origin \in {"fact", "block"}
                   ELSE results'[i].origin \in {"stored", "card"}
        <5>1. CASE i = 1
          BY <3>1, <3>3, <5>1
        <5>2. CASE i # 1
          <6>1. i - 1 \in 1 .. Len(results) /\ results'[i] = results[i - 1]
            BY <3>1, <3>2, <5>2
          <6>2. i <= top + 1 <=> i - 1 <= top
            OBVIOUS
          <6> QED
            BY <2>3, <6>1, <6>2 DEF OnTop
        <5> QED
          BY <5>1, <5>2
      <4> QED
        BY <4>1, <4>2 DEF OnTop
    <3>5. ListedOnce'
      <4> SUFFICES ASSUME NEW i \in 1 .. Len(results'), NEW j \in 1 .. Len(results'),
                          results'[i].origin = "stored", results'[j].origin = "stored",
                          results'[i].memory = results'[j].memory
                   PROVE  i = j
        BY DEF ListedOnce
      <4>1. /\ i \in 2 .. Len(results) + 1 /\ i - 1 \in 1 .. Len(results) /\ results'[i] = results[i - 1]
            /\ j \in 2 .. Len(results) + 1 /\ j - 1 \in 1 .. Len(results) /\ results'[j] = results[j - 1]
        BY <3>1, <3>2, <3>3
      <4>2. i - 1 = j - 1
        BY <2>2, <4>1 DEF ListedOnce
      <4> QED
        BY <4>1, <4>2
    <3>6. top + 1 \in 0 .. 2
      OBVIOUS
    <3> QED
      BY <2>1, <3>1, <3>4, <3>5, <3>6, EndStep
  <2> QED
    BY <2>1, <2>4, <2>5
<1> QED
  BY <1>1, <1>2

LEMMA NextInv == Inv /\ [Next]_vars => Inv'
<1> SUFFICES ASSUME Inv, [Next]_vars PROVE Inv'
  OBVIOUS
<1>1. ASSUME NEW m \in Memory, Write(m) \/ Delete(m) PROVE Inv'
  BY <1>1, ChangeStep
<1>2. CASE Tick \/ UNCHANGED vars
  <2>1. UNCHANGED <<store, changes, query, seen>> /\ clock' \in Time
    BY <1>2, Constants DEF Tick, vars, world, Inv, TypeOK, Time
  <2>2. TypeOK' /\ QuestionFits' /\ SeenFits' /\ ScoredFits'
    BY <2>1 DEF Inv, TypeOK, QuestionFits, SeenFits, ScoredFits, InScope, InBounds, query
  <2>3. AnswerFits' /\ RowsFit'
    BY <2>1, RowsFitKept DEF Inv, AnswerFits, query, R!Answerable
  <2> QED
    BY <2>2, <2>3 DEF Inv
<1>3. ASSUME NEW q \in Question, Ask(q) PROVE Inv'
  BY <1>3, AskStep
<1>4. CASE QueryStep
  BY <1>4, LaneStep, HydrateStep, FactStep, RespondStep, CardStep, FailingStep, AnswerStep DEF QueryStep
<1> QED
  BY <1>1, <1>2, <1>3, <1>4 DEF Next

\* Inv is inductive.
THEOREM QueryInvariant == Spec => []Inv
<1>1. Init => Inv
  BY InitInv
<1>2. Inv /\ [Next]_vars => Inv'
  BY NextInv
<1> QED
  BY <1>1, <1>2, PTL DEF Spec

-----------------------------------------------------------------------------
(* What follows from it.                                                   *)

\* The rows that count against the limit are within it.
LEMMA WithinTheLimit ==
  ASSUME results \in Seq(Result), NEW top \in Nat, OnTop(top),
         NEW S, S \subseteq {i \in DOMAIN results : results[i].origin \in {"stored", "card"}}
  PROVE  IsFiniteSet(S) /\ Cardinality(S) <= Limit
<1>1. S \subseteq top + 1 .. top + Limit
  BY Constants DEF OnTop
<1>2. IsFiniteSet(top + 1 .. top + Limit) /\ Cardinality(top + 1 .. top + Limit) = Limit
  <2> DEFINE a == top + 1
             b == top + Limit
  <2>1. a \in Int /\ b \in Int /\ ~(a > b) /\ b - a + 1 = Limit
    BY Constants
  <2> HIDE DEF a, b
  <2>2. IsFiniteSet(a .. b) /\ Cardinality(a .. b) = b - a + 1
    BY <2>1, FS_Interval
  <2> QED
    BY <2>1, <2>2 DEF a, b
<1> QED
  BY <1>1, <1>2, FS_Subset

\* No response is longer than was asked for, whatever the selection, the fact,
\* the card and the observation block add, and none lists a memory twice.
THEOREM LimitAlways == Spec => []WithinLimit
<1>1. Inv => WithinLimit
  <2> SUFFICES ASSUME Inv, phase = "idle" PROVE WithinLimit
    BY DEF WithinLimit
  <2>1. PICK top \in 0 .. 2 : OnTop(top)
    BY DEF Inv, RowsFit
  <2>2. ListedOnce /\ results \in Seq(Result) /\ DOMAIN results = 1 .. Len(results) /\ top \in Nat
    BY DEF Inv, RowsFit, TypeOK
  <2> DEFINE of(origins) == {i \in DOMAIN results : results[i].origin \in origins}
  <2>3. Cardinality(of({"stored", "card"})) <= Limit
    BY <2>1, <2>2, WithinTheLimit
  <2>4. Len(results) <= Limit + 2
    BY <2>1, <2>2, Constants DEF OnTop
  <2>5. \A i, j \in of({"stored"}) : results[i].memory = results[j].memory => i = j
    BY <2>2 DEF ListedOnce
  <2> QED
    BY <2>3, <2>4, <2>5 DEF WithinLimit
<1> QED
  BY <1>1, QueryInvariant, PTL

\* The cardinality of Recall is the one of the pipeline.
LEMMA SameCardinality == ASSUME NEW S PROVE R!Cardinality(S) = Cardinality(S)
BY DEF R!Cardinality, Cardinality

\* The last step of a query answers as Recall does.
LEMMA AnswerImplements == ASSUME Inv, Answer \/ Fail PROVE R!Answer
<1>1. question # None /\ question' = None /\ UNCHANGED <<store, seen>>
  BY DEF Answer, Fail, Inv, QuestionFits, world
<1>2. CASE Fail
  <2>1. answer' = {}
    BY <1>2 DEF Fail
  <2> QED
    <3>1. R!Cardinality({}) <= Limit
      BY SameCardinality, FS_EmptySet, Constants
    <3> QED
      BY <1>1, <2>1, <3>1 DEF R!Answer
<1>3. CASE Answer
  <2> DEFINE S == {j \in DOMAIN results : results[j].origin = "stored"}
             f == [i \in S |-> <<results[i].memory, results[i].text>>]
  <2>1. phase = "block" /\ answer' = {<<results[i].memory, results[i].text>> : i \in S}
    BY <1>3 DEF Answer
  <2>2. PICK top \in 0 .. 1 : OnTop(top)
    BY <2>1 DEF Inv, RowsFit
  <2>3. IsFiniteSet(S) /\ Cardinality(S) <= Limit
    <3>1. S \subseteq {i \in DOMAIN results : results[i].origin \in {"stored", "card"}}
      OBVIOUS
    <3>2. results \in Seq(Result) /\ top \in Nat
      BY DEF Inv, TypeOK
    <3> HIDE DEF S
    <3> QED
      BY <2>2, <3>1, <3>2, WithinTheLimit
  <2>4. f \in Surjection(S, answer')
    BY <2>1 DEF Surjection
  <2>5. Cardinality(answer') <= Cardinality(S) /\ IsFiniteSet(answer')
    <3> HIDE DEF S, f
    <3> QED
      BY <2>3, <2>4, FS_Surjection
  <2>6. Cardinality(answer') <= Limit
    <3>1. Cardinality(answer') \in Nat /\ Cardinality(S) \in Nat
      BY <2>3, <2>5, FS_CardinalityType
    <3> HIDE DEF S
    <3> QED
      BY <2>3, <2>5, <3>1, Constants
  <2>7. \A a \in answer' : R!Answerable(a[1], a[2], question)
    BY <2>1 DEF Inv, AnswerFits
  <2> QED
    BY <1>1, <2>6, <2>7, SameCardinality DEF R!Answer
<1> QED
  BY <1>2, <1>3

\* Every step of the query, and of the store under it, is a step that Recall
\* allows, or none of its own.
LEMMA StepImplements == Inv /\ [Next]_vars => [R!Next]_(R!vars)
<1> SUFFICES ASSUME Inv, [Next]_vars PROVE [R!Next]_(R!vars)
  OBVIOUS
<1>1. ASSUME NEW m \in Memory, Write(m) \/ Delete(m) PROVE R!Change
  <2>1. /\ seen' = IF question = None THEN seen ELSE seen \cup R!Stored(store')
        /\ UNCHANGED query
    BY <1>1 DEF Write, Delete, Changed
  <2> QED
    BY <2>1 DEF R!Change, query
<1>2. ASSUME NEW q \in Question, Ask(q) PROVE R!Ask
  BY <1>2, Constants DEF Ask, R!Ask, Inv, QuestionFits, world
<1>3. CASE Tick \/ UNCHANGED vars
  BY <1>3 DEF Tick, vars, world, query, R!vars
<1>4. CASE QueryStep
  <2>1. CASE Answer \/ Fail
    BY <2>1, AnswerImplements DEF R!Next
  <2>2. CASE ~(Answer \/ Fail)
    <3>1. UNCHANGED <<world, seen, question, answer>>
      BY <1>4, <2>2 DEF QueryStep, RetrievalAnn, RetrievalFts, RetrievalCards, FusionPhase, Hydrate,
         HydrateFails, ScoreLoop, CurrentFact, Respond, RespondFails, CardAsAnswer, BlockFails, Step
    <3> QED
      BY <3>1 DEF world, R!vars
  <2> QED
    BY <2>1, <2>2
<1> QED
  BY <1>1, <1>2, <1>3, <1>4 DEF Next, R!Next

\* The pipeline implements Recall: nothing deleted before the question, out of
\* its scope or out of its bounds is answered, though every lane, the graph, the
\* hydrating reads and the texts see the store at moments of their own.
THEOREM PipelineImplementsRecall == Spec => AnswersOfTheStore
<1>1. Init => R!Init
  BY DEF Init, R!Init
<1>2. Inv /\ [Next]_vars => [R!Next]_(R!vars)
  BY StepImplements
<1> QED
  BY <1>1, <1>2, QueryInvariant, PTL DEF Spec, AnswersOfTheStore, R!Spec

=============================================================================
