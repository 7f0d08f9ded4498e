--------------------------- MODULE QueryPlanning ---------------------------
(* From a question to what the search spends on it: the rewriting, the       *)
(* intent, the plan, the budget of its shape and profile.  A question is the *)
(* cues its text shows: how it opens, the words it has, how many subjects it *)
(* names.                                                                    *)
EXTENDS Naturals, FiniteSetsExt, SequencesExt

Opening == {"how many", "how long", "when", "what", "advice", "other"}
Cue == {"total", "month", "before", "after", "past", "recommend", "would", "called",
        "and", "why", "list"}
Profile == <<"fast", "balanced", "research">>

\* rewrite_query_for_retrieval takes off the words a search does not need, and
\* with them what the plan would have read from them.
Rewritten(q) ==
  CASE q.opens \in {"how many", "advice"} -> [q EXCEPT !.opens = "other"]
    [] q.opens = "how long" -> [q EXCEPT !.opens = "other", !.cues = @ \ {"after", "month"}]
    [] OTHER -> q

ClassifyQueryIntent(q) ==
  CASE "total" \in q.cues /\ q.cues \cap {"month", "before", "after"} # {} -> "temporal"
    [] "total" \in q.cues /\ q.cues \cap {"month", "before", "after"} = {} -> "numeric"
    [] "total" \notin q.cues /\ "called" \in q.cues -> "peripheral"
    [] q.cues \cap {"total", "called"} = {} /\ "would" \in q.cues -> "inference"
    [] /\ q.cues \cap {"total", "called", "would"} = {}
       /\ q.opens = "when" \/ q.cues \cap {"month", "before", "after", "past"} # {} -> "temporal"
    [] /\ q.cues \cap {"total", "called", "would", "month", "before", "after", "past"} = {}
       /\ q.opens # "when" /\ "recommend" \in q.cues -> "recommendation"
    [] OTHER -> "general"

\* A phrase that asks for all of something, is_coverage_style_query.
CoverageStyle(q) == "list" \in q.cues

CrossEntity(q) == q.subjects >= 2 /\ "and" \in q.cues

BuildQueryPlan(q) ==
  LET intent == ClassifyQueryIntent(q)
  IN  [intent |-> intent,
       cross |-> CrossEntity(q),
       decomposed |-> CrossEntity(q) \/ intent \in {"inference", "temporal"} \/ q.cues \cap {"would", "why"} # {},
       coverage |-> CoverageStyle(q) \/ CrossEntity(q) \/ intent \in {"numeric", "temporal"},
       ordinal |-> q.ordinal,
       timed |-> q.timed,
       subjects |-> q.subjects,
       slot |-> q.slot,
       expanded |-> q.expanded]

-----------------------------------------------------------------------------
(* The variants of the question that are searched for.                       *)

Two(n) == Min({n, 2})
Given(condition, n) == IF condition THEN n ELSE 0

\* build_hyde_query: a sentence the answer might be.
Hyde(q, p) == p.subjects > 0 /\ (q.opens \in {"what", "when"} \/ "would" \in q.cues)

Subqueries(q, p) == Given(p.decomposed /\ "and" \in q.cues, 2)

\* The question, its keywords, its expansion, the slot's, the snippet's...
SemanticVariants(q, p) ==
  2 + Given(p.expanded, 1) + Given(p.slot, 2 + Two(p.subjects))
    + 1 + Given(p.cross, 1) + Given(p.intent \in {"inference", "peripheral", "temporal", "numeric"}, 1)
    + Given(p.ordinal, 1) + Given(p.cross, p.subjects + 1)
    + Given(p.intent = "inference", 1 + p.subjects)
    + Given(Hyde(q, p), 1) + Subqueries(q, p)

FtsVariants(q, p) ==
  2 + Given(p.expanded, 1) + Given(p.slot, 2 + Two(p.subjects))
    + Given(p.ordinal, 2) + Given(p.cross, p.subjects + 1)
    + Given(p.intent = "peripheral", 1)
    + Given(Hyde(q, p), 1) + Subqueries(q, p)

-----------------------------------------------------------------------------
(* The budget.                                                               *)

QueryShape(p) ==
  CASE p.decomposed \/ p.cross \/ p.coverage \/ p.intent \in {"inference", "recommendation", "peripheral"} -> "hard"
    [] /\ ~(p.decomposed \/ p.cross \/ p.coverage \/ p.intent \in {"inference", "recommendation", "peripheral"})
       /\ p.intent = "temporal" \/ p.timed \/ p.ordinal -> "temporal"
    [] OTHER -> IF p.intent = "numeric" THEN "numeric" ELSE "simple"

RetrievalBudget(semantic, fts, semanticQueries, ftsQueries, router, probes, probeHits, takeSimple, takeHard, cards) ==
  [semantic |-> semantic, fts |-> fts, semanticQueries |-> semanticQueries, ftsQueries |-> ftsQueries,
   router |-> router, probes |-> probes, probeHits |-> probeHits,
   takeSimple |-> takeSimple, takeHard |-> takeHard, cards |-> cards]

Budgets ==
  [fast |->
     [hard     |-> RetrievalBudget(320,  80, 3, 3, 12, 1, 10,  6, 10,  84),
      temporal |-> RetrievalBudget(280,  72, 1, 1,  8, 1,  8,  6,  8,  64),
      numeric  |-> RetrievalBudget(260,  64, 1, 1,  8, 0,  0,  6,  8,  56),
      simple   |-> RetrievalBudget(240,  64, 1, 1,  6, 0,  0,  5,  7,  48)],
   balanced |->
     [hard     |-> RetrievalBudget(420,  96, 3, 3, 14, 1, 12,  8, 12, 120),
      temporal |-> RetrievalBudget(320,  80, 2, 2, 10, 1, 10,  8, 10,  88),
      numeric  |-> RetrievalBudget(300,  72, 2, 2, 10, 1, 10,  7,  9,  72),
      simple   |-> RetrievalBudget(240,  64, 1, 1,  8, 0,  0,  6,  8,  56)],
   research |->
     [hard     |-> RetrievalBudget(640, 160, 5, 5, 24, 4, 20, 10, 16, 180),
      temporal |-> RetrievalBudget(420, 100, 3, 3, 16, 2, 16, 10, 14, 120),
      numeric  |-> RetrievalBudget(360,  84, 3, 3, 14, 2, 14,  9, 12,  96),
      simple   |-> RetrievalBudget(240,  64, 2, 2, 10, 1, 12,  8, 10,  72)]]

\* retrieval_budget_for_plan.  A slip: the ordinal is looked at first.
BudgetByOrdinal(p, profile) == Budgets[profile][IF p.ordinal THEN "temporal" ELSE QueryShape(p)]
BudgetForPlan(p, profile) == Budgets[profile][QueryShape(p)]

FtsTop ==
  [inference |-> 180, peripheral |-> 180, temporal |-> 120, numeric |-> 90, recommendation |-> 72, general |-> 72]

ScopedSemanticTop == 3000
SemanticTopDefault == 100
HydrationFloor == 200

SemanticTop(q, p) ==
  LET top == IF q.scoped THEN ScopedSemanticTop ELSE SemanticTopDefault
  IN  CASE p.cross \/ p.ordinal -> Min({2 * top, 1200})
        [] ~(p.cross \/ p.ordinal) /\ p.intent = "inference" -> Min({2 * top, 1000})
        [] ~(p.cross \/ p.ordinal) /\ p.intent = "peripheral" -> Min({2 * top, 900})
        [] OTHER -> top

-----------------------------------------------------------------------------
(* Facets and requirements: texts with the subjects they are about, each     *)
(* kept once.                                                                *)

Whole(text, q, joint) == [text |-> text, about |-> 1 .. q.subjects, joint |-> joint]

\* A slip: what is listed already is listed again.
PushAlways(list, facet) == Append(list, facet)
Push(list, facet) == IF facet \in ToSet(list) THEN list ELSE Append(list, facet)

MaxRequirements == 8
PushedAll(facets) == FoldLeft(LAMBDA list, f : Push(list, f), <<>>, facets)
Kept(list) == SubSeq(list, 1, Min({MaxRequirements, Len(list)}))

OfEach(q) == [s \in 1 .. Min({q.subjects, 3}) |-> [text |-> "focus", about |-> {s}, joint |-> FALSE]]
When(condition, list) == IF condition THEN list ELSE <<>>

\* build_query_requirements.  The expansion needs terms of its own.
Requirements(q) ==
  LET p == BuildQueryPlan(q)
      joint == p.cross
  IN  PushedAll(<<Whole("question", q, joint), Whole("keywords", q, joint)>>
                \o When(p.slot, <<Whole("slot", q, FALSE)>>)
                \o When(p.expanded, <<Whole("expansion", q, FALSE)>>)
                \o When(p.cross, <<Whole("question", q, TRUE)>> \o OfEach(q))
                \o When(p.ordinal, <<Whole("stripped", q, FALSE)>>))

\* build_coverage_facets.
Facets(q) ==
  LET p == BuildQueryPlan(q)
  IN  PushedAll(<<Whole("question", q, FALSE), Whole("keywords", q, FALSE)>>
                \o When(p.slot, <<Whole("slot", q, FALSE)>>)
                \o When(p.expanded, <<Whole("expansion", q, FALSE)>>)
                \o When(p.cross, OfEach(q))
                \o When(p.ordinal, <<Whole("stripped", q, FALSE)>>))

-----------------------------------------------------------------------------

\* plan_phase and route_phase: what is spent on a question as it is asked.
Demands(asked, profile) ==
  LET q == Rewritten(asked)
      p == BuildQueryPlan(q)
      b == BudgetForPlan(p, profile)
  IN  [semantic |-> Min({SemanticTop(q, p), b.semantic}),
       fts |-> Min({FtsTop[p.intent], b.fts}),
       semanticQueries |-> Min({SemanticVariants(q, p), b.semanticQueries}),
       ftsQueries |-> Min({FtsVariants(q, p), b.ftsQueries}),
       router |-> b.router,
       probes |-> Min({Len(Kept(Facets(q))), b.probes}),
       probeHits |-> b.probeHits,
       routed |-> IF p.decomposed \/ p.cross THEN b.takeHard ELSE b.takeSimple,
       cards |-> b.cards,
       hydrated |-> Max({2 * b.cards, HydrationFloor})]

=============================================================================
