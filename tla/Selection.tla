------------------------------ MODULE Selection ------------------------------
(* Which of the scored candidates of a query become its results:             *)
(* select_candidates_with_session_head.  Candidates are grouped by session,  *)
(* the sessions are put in an order, by score or so that each covers what    *)
(* the ones before it do not, and take turns.  A candidate is a record       *)
(* [source, session, score, facets]; several candidates, a turn and what was *)
(* derived from it, may have one source.  Scores are thousandths.            *)
EXTENDS Integers, FiniteSetsExt, SequencesExt

\* An order on candidates: by score, then by the name of the source.
Before(a, b) == a.score > b.score \/ (a.score = b.score /\ a.source < b.source)
ByScore(cs) == SortSeq(cs, Before)

Grouped(cs) ==
  [s \in {cs[i].session : i \in DOMAIN cs} |-> ByScore(SelectSeq(cs, LAMBDA c : c.session = s))]

-----------------------------------------------------------------------------
(* Within a session.                                                         *)

\* A slip: what is covered already counts again.
NewFacetsOfAll(c, covered) == Cardinality(c.facets)
NewFacets(c, covered) == Cardinality(c.facets \ covered)

\* reorder_session_items_for_requirements: next is the first of the items
\* that add most to what is covered, the best of those that add as much.
Reordered(items) ==
  LET best(rest, covered) ==
        CHOOSE i \in DOMAIN rest :
          \A j \in DOMAIN rest \ {i} :
            LET gi == NewFacets(rest[i], covered)
                gj == NewFacets(rest[j], covered)
            IN  \/ gi > gj
                \/ gi = gj /\ rest[i].score > rest[j].score
                \/ gi = gj /\ rest[i].score = rest[j].score /\ i < j
      next(state, k) ==
        LET i == best(state.rest, state.covered)
        IN  [rest |-> RemoveAt(state.rest, i),
             covered |-> state.covered \cup state.rest[i].facets,
             out |-> Append(state.out, state.rest[i])]
  IN  FoldLeft(next, [rest |-> items, covered |-> {}, out |-> <<>>], items).out

-----------------------------------------------------------------------------
(* Between sessions.                                                         *)

Top(items, n) == IF Len(items) >= n THEN items[n].score ELSE 0

\* The session's score; its bonuses for matches are left out.
SessionScore(items, coverageMode) ==
  LET facets == UNION {items[i].facets : i \in DOMAIN items}
  IN  IF coverageMode
      THEN (46 * Top(items, 1) + 31 * Top(items, 2) + 23 * Top(items, 3)) \div 100
             + 20 * Min({Len(items) - 1, 3}) + 38 * Min({Cardinality(facets), 5}) + 14 * Min({Len(items), 4})
      ELSE (68 * Top(items, 1) + 22 * Top(items, 2) + 10 * Top(items, 3)) \div 100
             + 20 * Min({Len(items) - 1, 3})

\* The score of a session as the next one, given the facets still uncovered.
SelectionScore(facets, score, uncovered) ==
  LET gain == Cardinality(facets \cap uncovered)
  IN  (62 * score) \div 100 + 180 * gain
        - (IF uncovered # {} /\ gain = 0 THEN 80 + 60 ELSE 0)

\* Sessions by score, or, in coverage mode, greedily by what they add.
SessionOrder(groups, facets, coverageMode) ==
  LET names == SetToSortSeq(DOMAIN groups, LAMBDA a, b : a < b)
      score(s) == SessionScore(groups[s], coverageMode)
      of(s) == UNION {groups[s][i].facets : i \in DOMAIN groups[s]}
      add(state, k) ==
        LET rest == DOMAIN groups \ Range(state.out)
            value(s) == SelectionScore(of(s), score(s), state.uncovered)
            best == CHOOSE s \in rest :
                      \A t \in rest \ {s} : value(s) > value(t) \/ (value(s) = value(t) /\ s < t)
        IN  [out |-> Append(state.out, best), uncovered |-> state.uncovered \ of(best)]
  IN  IF coverageMode
      THEN FoldLeft(add, [out |-> <<>>, uncovered |-> facets], names).out
      ELSE SortSeq(names, LAMBDA s, t : score(s) > score(t) \/ (score(s) = score(t) /\ s < t))

-----------------------------------------------------------------------------
(* Taking turns.                                                             *)

Sources(cs) == {cs[i].source : i \in DOMAIN cs}

\* One of each session in a round, unless its source is taken already.
Round(order, items, round, limit, selected) ==
  FoldLeft(LAMBDA out, s :
             IF /\ Len(out) < limit /\ round <= Len(items[s])
                /\ items[s][round].source \notin Sources(out)
             THEN Append(out, items[s][round]) ELSE out,
           selected, order)

\* The rounds end at the limit or with a round that selects nothing.
Rounds(order, items, limit, longest) ==
  LET turn(state, round) ==
        LET after == Round(order, items, round, limit, state.out)
        IN  IF state.stopped THEN state ELSE [out |-> after, stopped |-> after = state.out]
  IN  FoldLeft(turn, [out |-> <<>>, stopped |-> FALSE], [r \in 1 .. longest |-> r]).out

\* Slips: the rounds are all there is; sources are told apart by session.
OnlyRounds(selected, leftovers, limit) == selected

\* What the rounds have not reached fills up, best first.
FilledUp(selected, leftovers, limit) ==
  FoldLeft(LAMBDA out, c :
             IF Len(out) < limit /\ c.source \notin Sources(out) THEN Append(out, c) ELSE out,
           selected, leftovers)

Selected(cs, limit, facets, coverageMode) ==
  LET groups == Grouped(cs)
      items == [s \in DOMAIN groups |-> IF facets = {} THEN groups[s] ELSE Reordered(groups[s])]
      order == SessionOrder(groups, facets, coverageMode)
      turns == Rounds(order, items, limit, Len(cs))
  IN  IF limit = 0 \/ cs = <<>> THEN <<>> ELSE ByScore(FilledUp(turns, ByScore(cs), limit))

=============================================================================
