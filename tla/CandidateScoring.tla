-------------------------- MODULE CandidateScoring --------------------------
(* The score of one candidate of a query: score_loop and the bonuses it adds *)
(* up, from what the plan asks for and what the text of the candidate shows. *)
(* Scores are millionths.                                                    *)
EXTENDS Integers, FiniteSetsExt

Intent == {"numeric", "temporal", "recommendation", "inference", "peripheral", "general"}
Distilled == {"fact", "summary", "lesson"}
Stable == {"fact", "preference", "decision"}
Kind == Distilled \cup Stable \cup {"conversational"}

NoRank == 0

\* QueryPlan: terms and entities by their numbers, ordinal_rank by its number.
Plan(terms, subjects) ==
  [intent : Intent, prefers : {"distilled", "episodic", "none"}, terms : {terms}, subjects : {subjects},
   temporal : BOOLEAN, cross : BOOLEAN, decomposed : BOOLEAN, coverage : BOOLEAN, latest : BOOLEAN,
   ordinal : {NoRank, 2}]

\* A candidate as it is before anything of it matches.
Unmatched(kind, age) ==
  [kind |-> kind, age |-> age, base |-> 16000, graph |-> 0, lifecycle |-> 0, sure |-> "no",
   stale |-> FALSE, superseded |-> FALSE, routed |-> "unknown",
   entities |-> 0, terms |-> 0, temporal |-> FALSE, facets |-> 0,
   numbers |-> "none", ordinals |-> {}, attractors |-> 0]

AtMost(x, hi) == Min({x, hi})
Clamp(x, lo, hi) == Max({lo, Min({x, hi})})

-----------------------------------------------------------------------------
(* Bonuses.                                                                  *)

KindBonus(p, c) ==
  LET distilled == [fact |-> 120000, summary |-> 80000, lesson |-> 40000,
                    decision |-> 0, preference |-> 0, conversational |-> 0]
      episodic == [conversational |-> 80000, fact |-> -60000, summary |-> -140000,
                   lesson |-> -50000, decision |-> -20000, preference |-> -20000]
      inference == [fact |-> 70000, summary |-> 50000, conversational |-> 20000,
                    lesson |-> 30000, decision |-> 30000, preference |-> 30000]
  IN    (CASE p.prefers = "distilled" -> distilled[c.kind]
           [] p.prefers = "episodic" -> episodic[c.kind]
           [] OTHER -> 0)
      + (IF p.intent = "inference" THEN inference[c.kind] ELSE 0)
      + (IF p.temporal /\ c.temporal THEN 50000 ELSE 0)

LexicalBonus(p, c) == IF p.terms = 0 THEN 0 ELSE (80000 * AtMost(c.terms, p.terms)) \div p.terms

\* A slip: one of two entities asked for is taken for both.
EntityBonusOfOne(p, c) ==
  LET coverage == (100 * AtMost(c.entities, p.subjects)) \div p.subjects
  IN  CASE p.subjects = 0 -> 0
        [] p.subjects > 0 /\ p.cross /\ c.entities = 1 -> 100000 + 400 * coverage
        [] p.subjects > 0 /\ p.cross /\ c.entities # 1 -> -50000
        [] OTHER -> coverage * (IF p.intent \in {"inference", "peripheral"} THEN 600 ELSE 300)

EntityBonus(p, c) ==
  LET coverage == (100 * AtMost(c.entities, p.subjects)) \div p.subjects
  IN  CASE p.subjects = 0 -> 0
        [] p.subjects > 0 /\ p.cross /\ c.entities >= 2 -> 100000 + 400 * coverage
        [] p.subjects > 0 /\ p.cross /\ c.entities = 1 -> -20000
        [] p.subjects > 0 /\ p.cross /\ c.entities = 0 -> -50000
        [] OTHER -> coverage * (IF p.intent \in {"inference", "peripheral"} THEN 600 ELSE 300)

NumericBonus(p, c) ==
  IF p.intent \notin {"numeric", "temporal"} THEN 0
  ELSE [none |-> -10000, some |-> 30000, total |-> 50000, money |-> 60000][c.numbers]

\* The ordinal as a word, with its suffix, and as a number of the text.
OrdinalBonus(p, c) ==
  LET bonus == (IF "word" \in c.ordinals THEN 60000 ELSE 0)
             + (IF "suffix" \in c.ordinals THEN 50000 ELSE 0)
             + (IF "number" \in c.ordinals THEN 20000 ELSE 0)
             + (IF c.kind = "fact" THEN 80000 ELSE 0)
  IN  IF p.ordinal = NoRank THEN 0 ELSE IF bonus = 0 THEN -10000 ELSE bonus

\* attractor_negative_penalty: a text of the same everyday words as the
\* question, without what the question is about.
Penalty(p, c) ==
  LET deficit == AtMost(p.subjects - AtMost(c.entities, p.subjects), 3)
      facetless == p.coverage /\ c.facets = 0
      timeless == p.temporal /\ ~c.temporal
      weak == deficit > 0 \/ facetless \/ timeless \/ (p.decomposed /\ c.terms < 2)
  IN  IF c.attractors = 0 \/ ~weak THEN 0
      ELSE AtMost(18000 * AtMost(c.attractors, 3)
                    + deficit * (IF p.cross THEN 55000 ELSE 30000)
                    + (IF facetless THEN 45000 ELSE 0)
                    + (IF timeless THEN 35000 ELSE 0)
                    + (IF p.decomposed /\ c.terms = 0 THEN 35000 ELSE 0), 180000)

-----------------------------------------------------------------------------
(* Time.                                                                     *)

HalfLife == [conversational |-> 30, lesson |-> 90, fact |-> 180, summary |-> 14,
             decision |-> 365, preference |-> 365]
Exempt == {"decision", "preference"}

\* apply_decay_with_policy, in steps of a half-life; a percentage.
Decay(c) ==
  IF c.kind \in Exempt THEN 100
  ELSE Max({35, 100 \div (2 ^ AtMost(c.age \div HalfLife[c.kind], 2))})

TemporalSignal(p, c) ==
    (IF p.intent # "temporal" THEN 0
     ELSE IF c.age <= 45 THEN 25000 ELSE IF c.age > 365 THEN -30000 ELSE 0)
  + (IF p.intent # "numeric" \/ c.kind # "fact" THEN 0
     ELSE IF c.age <= 180 THEN 20000 ELSE IF c.age > 730 THEN -25000 ELSE 0)

-----------------------------------------------------------------------------
(* The score.                                                                *)

\* Slips: only facts are looked up among the invalidated; decisions are not.
IsStaleFactOnly(c) == c.stale /\ c.kind = "fact"
IsStale(c) == c.stale /\ c.kind \in Stable

ConfidenceSignal(c) ==
  CASE IsStale(c) -> -150000
    [] ~IsStale(c) /\ c.sure = "stable" -> 50000
    [] ~IsStale(c) /\ c.sure = "confident" -> 30000
    [] OTHER -> 0

\* FourSignalWeights, in hundredths: semantic, temporal, confidence, graph.
Weights ==
  [numeric |-> <<35, 30, 20, 15>>, temporal |-> <<20, 50, 15, 15>>, recommendation |-> <<40, 10, 30, 20>>,
   inference |-> <<30, 15, 30, 25>>, peripheral |-> <<25, 20, 25, 30>>, general |-> <<50, 20, 15, 15>>]

FuseFourSignals(p, c) ==
  LET w == Weights[p.intent]
  IN  (Max({c.base, 0}) * w[1] + TemporalSignal(p, c) * w[2]
         + ConfidenceSignal(c) * w[3] + c.graph * w[4]) \div 100

Composite(p, c) ==
  ((c.base * Decay(c)) \div 100) + c.lifecycle - Penalty(p, c) + KindBonus(p, c)
    + LexicalBonus(p, c) + EntityBonus(p, c) + NumericBonus(p, c) + OrdinalBonus(p, c)

Blend(p, c) == (Composite(p, c) * 30 + FuseFourSignals(p, c) * 70) \div 100

\* stale_fact_decay, at full weight after the blend.
Decayed(p, c) ==
  IF IsStale(c) \/ (p.latest /\ c.superseded) THEN (Blend(p, c) * 70) \div 100 ELSE Blend(p, c)

\* The routed sessions of the query; the route's own score is left out.
RouteBoost(p, c) ==
  LET hard == p.decomposed \/ p.cross
  IN  CASE c.routed = "in" -> (IF hard THEN 75000 ELSE 35000)
        [] c.routed = "out" /\ ~hard -> -8000
        [] OTHER -> 0

Score(p, c) == Decayed(p, c) + RouteBoost(p, c)

-----------------------------------------------------------------------------
(* apply_latest_preference over the scored candidates, for a question about  *)
(* the present value: [score, created] by name.                              *)

LatestWeight == 35

\* A slip: recency counts whatever the relevance.
GainUngated(spread, recency, relevance) == (LatestWeight * spread * recency) \div 10000

\* recency and relevance in hundredths of the range of the candidates.
Gain(spread, recency, relevance) ==
  (((LatestWeight * spread * recency) \div 10000) * relevance * relevance) \div 10000

LatestPreferred(scored) ==
  LET times == {scored[i].created : i \in DOMAIN scored}
      scores == {scored[i].score : i \in DOMAIN scored}
      lo == Min(scores)
      spread == Max({Max(scores) - lo, 1})
  IN  IF Cardinality(times) <= 1 THEN scored
      ELSE [i \in DOMAIN scored |->
              LET recency == (100 * (scored[i].created - Min(times))) \div (Max(times) - Min(times))
                  relevance == (100 * (scored[i].score - lo)) \div spread
              IN  [scored[i] EXCEPT !.score = @ + Gain(spread, recency, relevance)]]

=============================================================================
