------------------------------ MODULE GraphWalk ------------------------------
(* The graph around the best candidates of a query: memories linked to them, *)
(* by a recursive statement of the database, and memories that share a node  *)
(* of the edges table with them, walked breadth first for all seeds at once. *)
(* A link is a pair of memories, an edge a record [source, target, memory,   *)
(* weight, type].  Nodes are numbers, NoNode is the empty one.  Weights and  *)
(* scores are hundredths.                                                    *)
EXTENDS Integers, FiniteSetsExt, SequencesExt

NoNode == 0

\* 0.6 to the power of the depth.
PathWeight == <<100, 60, 36>>
SumOver(S, op(_)) == FoldSet(LAMBDA x, total : op(x) + total, 0, S)

-----------------------------------------------------------------------------
(* Links: get_link_cluster_scores.                                           *)

Step(l, from) == IF l[1] = from THEN l[2] ELSE l[1]

\* A slip: UNION ALL keeps a row for each link it came by.
RowAll(row, l) == [node |-> Step(l, row.node), path |-> Append(row.path, l)]
Row(row, l) == [node |-> Step(l, row.node), path |-> <<>>]

LinkClusterScores(links, seed, depth) ==
  LET joined(rows) == UNION {{Row(r, l) : l \in {k \in links : r.node \in {k[1], k[2]}}} : r \in rows}
      levels == FoldLeft(LAMBDA out, d : Append(out, joined(Last(out))),
                         <<{[node |-> seed, path |-> <<>>]}>>, [d \in 1 .. depth |-> d])
      reached == {r.node : r \in UNION {levels[d + 1] : d \in 1 .. depth}}
  IN  [n \in reached |->
         SumOver(1 .. depth, LAMBDA d :
           PathWeight[d + 1] * Cardinality({r \in levels[d + 1] : r.node = n}))]

-----------------------------------------------------------------------------
(* Edges: get_edge_cluster_neighbors_batch and                               *)
(* collect_edge_cluster_scores_for_seeds.                                    *)

Side == {"source", "target"}

\* intent_weight_for_edge, in tenths.
IntentWeight(type, intent) ==
  IF \/ intent \in {"inference", "recommendation"} /\ type = "causal"
     \/ intent = "peripheral" /\ type = "support"
  THEN 15 ELSE 10

\* Slips: only edges out of a node make it a hub.
DegreeOut(edges, n) == Cardinality({e \in edges : e.source = n})
Degree(edges, n) == Cardinality({e \in edges : e.source = n}) + Cardinality({e \in edges : e.target = n})

\* The neighbours of a memory, a row for each way to one: an edge of its own,
\* a node of that edge that is no hub, and an edge of another memory there.
\* The heaviest rows are kept.
Neighbours(edges, m, maxDegree, limit) ==
  LET ways == {w \in [own : edges, at : Side, edge : edges, side : Side] :
                 /\ w.own.memory = m /\ w.own[w.at] # NoNode
                 /\ w.edge[w.side] = w.own[w.at] /\ w.edge.memory # m
                 /\ Degree(edges, w.own[w.at]) <= maxDegree}
      ordered == SetToSortSeq(ways, LAMBDA v, w :
                   \/ v.edge.weight > w.edge.weight
                   \/ v.edge.weight = w.edge.weight /\ v.edge.memory < w.edge.memory)
  IN  SubSeq(ordered, 1, Min({limit, Len(ordered)}))

\* The neighbours of all seeds' frontiers that are not known yet are read
\* together; a seed's next frontier is what it reaches, once each.
EdgeClusterScores(edges, seeds, depth, maxDegree, limit, intent) ==
  LET start == [cache |-> <<>>, frontiers |-> [i \in DOMAIN seeds |-> {seeds[i]}],
                scores |-> [i \in DOMAIN seeds |-> <<>>]]
      known(state) ==
        LET missing == UNION Range(state.frontiers) \ DOMAIN state.cache
        IN  [m \in DOMAIN state.cache \cup missing |->
               IF m \in missing THEN Neighbours(edges, m, maxDegree, limit) ELSE state.cache[m]]
      expand(state, d) ==
        LET cache == known(state)
            ways(i) == {<<m, k>> \in state.frontiers[i] \X (1 .. limit) : k \in DOMAIN cache[m]}
            ends(i) == {cache[w[1]][w[2]].edge.memory : w \in ways(i)}
            gain(i, n) ==
              SumOver({w \in ways(i) : cache[w[1]][w[2]].edge.memory = n}, LAMBDA w :
                LET e == cache[w[1]][w[2]].edge
                IN  PathWeight[d] * e.weight * IntentWeight(e.type, intent))
        IN  [cache |-> cache,
             frontiers |-> [i \in DOMAIN seeds |-> ends(i)],
             scores |-> [i \in DOMAIN seeds |->
                           [n \in DOMAIN state.scores[i] \cup ends(i) |->
                              (IF n \in DOMAIN state.scores[i] THEN state.scores[i][n] ELSE 0) + gain(i, n)]]]
  IN  FoldLeft(expand, start, [d \in 1 .. depth |-> d]).scores

=============================================================================
