----------------------------- MODULE RankFusion -----------------------------
(* Reciprocal rank fusion, and the sessions a query is routed to with it:    *)
(* the router's rows, the window of time, the sessions that name the         *)
(* subjects and the votes of probing searches are each a lane.  A lane is a  *)
(* sequence of [item, score]; items are numbers.  Fused scores are           *)
(* millionths, others hundredths.                                            *)
EXTENDS Integers, FiniteSetsExt, SequencesExt

Ahead(a, b) == a.score > b.score \/ (a.score = b.score /\ a.item < b.item)

\* A slip: the lane is taken in the order it comes in.
AsItComes(lane) == lane
Ranked(lane) == SortSeq(lane, Ahead)

Entries(f) == SetToSortSeq({[item |-> i, score |-> f[i]] : i \in DOMAIN f}, LAMBDA a, b : a.item > b.item)
Credited(f, item, gain) ==
  [i \in DOMAIN f \cup {item} |-> (IF i \in DOMAIN f THEN f[i] ELSE 0) + (IF i = item THEN gain ELSE 0)]

RrfFuse(lanes, c) ==
  LET credit(f, ranked, k) == Credited(f, ranked[k].item, 1000000 \div (c + k))
      lane(f, l) == LET ranked == Ranked(l)
                    IN  FoldLeft(LAMBDA g, k : credit(g, ranked, k), f, [k \in DOMAIN ranked |-> k])
  IN  Ranked(Entries(FoldLeft(lane, <<>>, lanes)))

-----------------------------------------------------------------------------
(* The fusion of the candidates: lists in the order they were ranked in,     *)
(* each with its weight.                                                     *)

RrfK(plan) ==
  CASE plan.cross \/ plan.ordinal -> 45
    [] ~(plan.cross \/ plan.ordinal) /\ plan.intent = "peripheral" -> 40
    [] ~(plan.cross \/ plan.ordinal) /\ plan.intent = "inference" -> 50
    [] ~(plan.cross \/ plan.ordinal) /\ plan.intent \in {"temporal", "numeric"} -> 55
    [] OTHER -> 60

WeightedReciprocalRankFusion(lists, k) ==
  LET credit(f, l, i) == Credited(f, l.items[i], (10000 * l.weight) \div (k + i))
      list(f, l) == IF l.weight <= 0 THEN f
                    ELSE FoldLeft(LAMBDA g, i : credit(g, l, i), f, [i \in DOMAIN l.items |-> i])
  IN  Ranked(Entries(FoldLeft(list, <<>>, lists)))

\* calibrate_graph_scores: bounded whatever the query.
Calibrated(raw) == (1000 * raw) \div (raw + 200)

-----------------------------------------------------------------------------
(* The lanes of the route.                                                   *)

\* A row of the router's table, for what the question names of it.
RouterScore(row, asked) ==
  LET part(hits, all) == IF all = 0 THEN 0 ELSE (100 * Min({hits, all})) \div all
  IN  (48 * part(row.lexical, asked.lexical) + 18 * part(row.temporal, asked.temporal)
         + 24 * part(row.entities, asked.entities) + 4 * part(row.sources, 8)) \div 100
        + (IF row.focus THEN 6 ELSE 0)

\* search_session_router: rows that match something, or a bare word of the
\* question; the first of them.
RouterHits(rows, asked, limit) ==
  LET kept == {r \in rows : r.lexical + r.temporal + r.entities > 0 \/ r.focus \/ r.word}
      ranked == Ranked(SetToSeq({[item |-> r.session, score |-> RouterScore(r, asked), row |-> r] : r \in kept}))
  IN  SubSeq(ranked, 1, Min({limit, Len(ranked)}))

\* entity_pivot_sessions: how many of the subjects a session names.  A subject
\* that the full-text index finds nowhere is looked for in the text itself.
\* One of two letters is left to that second search, which passes it over.
PivotHits(subjects) ==
  LET named(s) == IF s.short THEN {} ELSE IF s.found # {} THEN s.found ELSE s.contained
      of(session) == {i \in DOMAIN subjects : session \in named(subjects[i])}
  IN  [session \in UNION {named(subjects[i]) : i \in DOMAIN subjects} |-> Cardinality(of(session))]

\* plan_phase: the router's hits with their matches weighed again, the window
\* of time, and the sessions of the subjects.
SessionScores(hits, window, pivot, subjects) ==
  LET matched == FoldLeft(LAMBDA f, h : Credited(f, h.item, h.score + 5 * (h.row.lexical + h.row.temporal + h.row.entities)),
                          <<>>, hits)
      timely == FoldSet(LAMBDA s, f : Credited(f, s, 55), matched, window)
      bonus(s) == CASE subjects >= 2 /\ pivot[s] >= 2 -> 25
                    [] ~(subjects >= 2 /\ pivot[s] >= 2) /\ Cardinality(DOMAIN pivot) <= 12 -> 8
                    [] OTHER -> 0
  IN  FoldSet(LAMBDA s, f : IF bonus(s) = 0 THEN f ELSE Credited(f, s, bonus(s)), timely, DOMAIN pivot)

\* A vote of a probe for each session it hits, the first probe's weighing most.
ProbeLane(probes) ==
  LET vote(i) == IF i = 1 THEN 300 ELSE IF i = 2 THEN 200 ELSE 100
      votes(i) == SetToSeq({[item |-> s, score |-> vote(i)] : s \in ToSet(probes[i])})
  IN  FoldLeft(LAMBDA lane, i : lane \o votes(i), <<>>, [i \in DOMAIN probes |-> i])

\* route_phase.  The lane of the subjects counts as one even if it is empty,
\* so the plain search comes in only for a question without subjects.
Lanes(pivot, scores, probes, subjects, plain) ==
  LET found == (IF subjects > 0 THEN <<Entries(pivot)>> ELSE <<>>)
               \o (IF scores # <<>> THEN <<Entries(scores)>> ELSE <<>>)
               \o (IF ProbeLane(probes) # <<>> THEN <<ProbeLane(probes)>> ELSE <<>>)
  IN  IF found # <<>> \/ plain = <<>> THEN found ELSE <<plain>>

RoutedSessions(lanes, take) ==
  LET fused == RrfFuse(lanes, 60) IN {fused[i].item : i \in 1 .. Min({take, Len(fused)})}

=============================================================================
