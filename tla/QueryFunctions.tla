--------------------------- MODULE QueryFunctions ---------------------------
(* The functions without state, over bounded inputs: those a query is        *)
(* planned, scored and selected with, the retention policy and the calendar. *)
(* A behaviour starts with an input of one of them, its topic, and where a   *)
(* property compares two inputs it goes on to the next.                      *)
EXTENDS Integers, FiniteSets, Sequences

C == INSTANCE CandidateScoring
S == INSTANCE Selection
G == INSTANCE GraphWalk
F == INSTANCE RankFusion
Q == INSTANCE QueryPlanning
L == INSTANCE Lifecycle
D == INSTANCE Calendar WITH PerDay <- 2

CONSTANTS
  Kinds, Intents,  \* of the scored candidates and plans
  MaxSubjects,
  MaxCues,         \* of a question, its rank and its time included
  LatestScores,
  MaxLinks, MaxEdges,
  MaxHits,         \* keywords of one sort in a text
  Years,           \* of the dates
  MayDisagree      \* whether texts are of a form that the calendars read differently

VARIABLES topic, case

vars == <<topic, case>>

-----------------------------------------------------------------------------
(* Scores.                                                                   *)

Plans ==
  {p \in C!Plan(2, MaxSubjects) \cup C!Plan(2, 1) :
     /\ p.cross => p.subjects >= 2 /\ p.decomposed /\ p.coverage
     /\ p.intent \in {"inference", "temporal"} => p.decomposed
     /\ p.intent \in {"numeric", "temporal"} => p.coverage
     /\ p.intent \in Intents /\ p.ordinal = C!NoRank /\ ~p.latest}

ScoreCases ==
  {[plan |-> p, of |-> [C!Unmatched(k, 0) EXCEPT !.stale = s, !.attractors = a]] :
     p \in Plans, k \in Kinds, s \in BOOLEAN, a \in {0, 2}}

\* The text shows one thing more of what is asked for.
Matched ==
  LET c == case.of
      more(d) == case' = [case EXCEPT !.of = d]
  IN  /\ topic = "score" /\ UNCHANGED topic
      /\ \/ c.entities < case.plan.subjects /\ more([c EXCEPT !.entities = @ + 1])
         \/ c.terms < case.plan.terms /\ more([c EXCEPT !.terms = @ + 1])
         \/ case.plan.temporal /\ ~c.temporal /\ more([c EXCEPT !.temporal = TRUE])
         \/ case.plan.coverage /\ c.facets = 0 /\ more([c EXCEPT !.facets = 1])

LatestCases ==
  [1 .. 3 -> [score : LatestScores, created : {0, 1, 4}]]

-----------------------------------------------------------------------------
(* Selection: four records of three sources in two sessions.  The facets     *)
(* differ in their names only: the first source has the first one or none.   *)

SelectionCases ==
  {s \in [picks : [1 .. 4 -> [source : 1 .. 3, score : {100, 300}]],
          facets : [1 .. 3 -> {{}, {1}, {2}}], limit : {2, 3}, coverage : BOOLEAN] :
     2 \notin s.facets[1]}

Candidate(s, k) ==
  LET x == s.picks[k]
  IN  [source |-> x.source, session |-> IF x.source = 3 THEN 2 ELSE 1,
       score |-> x.score, facets |-> s.facets[x.source]]

Candidates(s) == [k \in DOMAIN s.picks |-> Candidate(s, k)]
AllFacets == {1, 2}
SelectedOf(s) == S!Selected(Candidates(s), s.limit, AllFacets, s.coverage)

-----------------------------------------------------------------------------
(* Graphs.                                                                   *)

Upto(all, n) == {s \in SUBSET all : Cardinality(s) <= n}
LinkCases == Upto({l \in (1 .. 4) \X (1 .. 4) : l[1] # l[2]}, MaxLinks)

Edges == {e \in [source : 0 .. 2, target : 0 .. 2, memory : 1 .. 3, weight : {50}, type : {"causal"}] :
            e.source # e.target}
EdgeCases == Upto(Edges, MaxEdges)
Walk(edges, seeds) == G!EdgeClusterScores(edges, seeds, 2, 3, 4, "inference")

-----------------------------------------------------------------------------
(* Routes: three sessions.                                                   *)

RouteCases ==
  [lexical : [1 .. 3 -> 0 .. 1], window : {{}, {2}},
   first : SUBSET (1 .. 3), second : SUBSET {2, 3}, short : BOOLEAN,
   probe1 : SUBSET (1 .. 3), probe2 : SUBSET {1, 3}, take : 1 .. 2]

Subjects(r) ==
  <<[short |-> FALSE, found |-> r.first, contained |-> r.first],
    [short |-> r.short, found |-> {}, contained |-> r.second]>>
Pivot(r) == F!PivotHits(Subjects(r))
Row(r, s) == [session |-> s, lexical |-> r.lexical[s], temporal |-> 0, entities |-> 0,
              focus |-> FALSE, word |-> FALSE, sources |-> 1]
Hits(r) == F!RouterHits({Row(r, s) : s \in 1 .. 3}, [lexical |-> 1, temporal |-> 0, entities |-> 2], 2)
Scores(r) == F!SessionScores(Hits(r), r.window, Pivot(r), 2)
Probe(set) == LET seq == [i \in 1 .. 3 |-> 4 - i] IN SelectSeq(seq, LAMBDA s : s \in set)
Routed(r) ==
  F!RoutedSessions(F!Lanes(Pivot(r), Scores(r), <<Probe(r.probe1), Probe(r.probe2)>>, 2, <<>>), r.take)

-----------------------------------------------------------------------------
(* Plans.                                                                    *)

\* Questions with no cue and no subject yet.  "How many" and a request for
\* advice are rewritten to what "other" stands for, so they add nothing.  Some
\* are asked within an entity, some of the whole tenant.
PlanCases ==
  {q \in [opens : {"how long", "when", "what", "other"}, cues : {{}}, subjects : {0},
          ordinal : {FALSE}, timed : {FALSE}, slot : {TRUE}, expanded : {TRUE},
          scoped : BOOLEAN, profile : {1}] :
     q.scoped <=> q.opens \in {"how long", "what"}}

Cues(q) == Cardinality(q.cues) + (IF q.ordinal THEN 1 ELSE 0) + (IF q.timed THEN 1 ELSE 0)

\* One cue, rank, time or subject more, or the next richer profile.
Asked ==
  LET q == case
  IN  /\ topic = "plan" /\ UNCHANGED topic
      /\ \/ \E c \in Q!Cue \ q.cues : case' = [q EXCEPT !.cues = @ \cup {c}]
         \/ q.subjects < MaxSubjects /\ case' = [q EXCEPT !.subjects = @ + 1]
         \/ ~q.ordinal /\ case' = [q EXCEPT !.ordinal = TRUE]
         \/ ~q.timed /\ case' = [q EXCEPT !.timed = TRUE]
         \/ q.profile < 3 /\ case' = [q EXCEPT !.profile = @ + 1]
      /\ Cues(case') <= MaxCues

DemandsOf(q) == Q!Demands(q, Q!Profile[q.profile])

-----------------------------------------------------------------------------
(* Texts for the retention policy: they start with none of the signals.      *)

PolicyCases ==
  {[L!Plain EXCEPT !.kind = k, !.inferred = i, !.hint = h, !.sensitivity = s] :
     k \in L!Kind, i \in BOOLEAN, h \in {L!NoHint, 700, 1000}, s \in L!Sensitivity}

Signalled ==
  LET more(t) == case' = t
  IN  /\ topic = "policy" /\ UNCHANGED topic
      /\ \/ case.salient < MaxHits /\ more([case EXCEPT !.salient = @ + 1])
         \/ case.useful < MaxHits - 1 /\ more([case EXCEPT !.useful = @ + 1])
         \/ case.specific < MaxHits - 1 /\ more([case EXCEPT !.specific = @ + 1])
         \/ ~case.digit /\ more([case EXCEPT !.digit = TRUE, !.temporal = TRUE])
         \/ ~case.long /\ more([case EXCEPT !.long = TRUE])
         \/ ~case.temporary /\ more([case EXCEPT !.temporary = TRUE])

-----------------------------------------------------------------------------
(* Dates, and texts that name a date or a time in a way both calendars read  *)
(* alike: a date in dashes or words, a month with its year, a relative word. *)

DateCases ==
  {d \in [year : Years, month : 1 .. 12, day : 1 .. 31] : d.day <= D!DaysInMonth(d.year, d.month)}

Tokens(y, m, d) ==
  {<<D!Month(m), D!Number(d), D!Number(y)>>, <<D!Number(d), D!Month(m), D!Number(y)>>}
Texts ==
  UNION {{[D!Silent EXCEPT !.tokens = t] : t \in Tokens(d.year, d.month, d.day)}
           \cup {[D!Silent EXCEPT !.date = [year |-> d.year, month |-> d.month, day |-> d.day, slashed |-> FALSE]],
                 [D!Silent EXCEPT !.tokens = <<D!Month(d.month), D!Number(d.year)>>]} :
         d \in {d \in DateCases : d.year \in {1969, 2000, 2001} /\ d.day \in {1, 28, 29, 31}}}
  \cup {[D!Silent EXCEPT !.cues = {c}] :
          c \in {"yesterday", "today", "tomorrow", "last week", "this week", "next week",
                 "last month", "this month", "next month", "last year"}}

\* A date with slashes, a season and a week of a month, which only the query
\* reads as such, and a year before its month.
ReadDifferently ==
  {[D!Silent EXCEPT !.date = [year |-> 2001, month |-> 3, day |-> 28, slashed |-> TRUE]],
   [D!Silent EXCEPT !.season = "summer", !.tokens = <<D!Number(2001)>>],
   [D!Silent EXCEPT !.week = "last", !.tokens = <<D!Month(3), D!Number(2001)>>],
   [D!Silent EXCEPT !.tokens = <<D!Number(2001), D!Month(3)>>]}

SaidCases == [text : Texts \cup (IF MayDisagree THEN ReadDifferently ELSE {}), now : {0, 1, 21, 22000, 22001}]

-----------------------------------------------------------------------------

Init ==
  \/ topic = "score" /\ case \in ScoreCases
  \/ topic = "latest" /\ case \in LatestCases
  \/ topic = "select" /\ case \in SelectionCases
  \/ topic = "links" /\ case \in LinkCases
  \/ topic = "edges" /\ case \in EdgeCases
  \/ topic = "route" /\ case \in RouteCases
  \/ topic = "plan" /\ case \in PlanCases
  \/ topic = "policy" /\ case \in PolicyCases
  \/ topic = "date" /\ case \in DateCases
  \/ topic = "said" /\ case \in SaidCases

Next == Matched \/ Asked \/ Signalled

Spec == Init /\ [][Next]_vars

-----------------------------------------------------------------------------

\* Showing more of what is asked for never costs a candidate: one entity,
\* term, date or facet more does not lower its score, through the bonuses of
\* opposite signs, the penalty for everyday words and the decay of what is
\* stale.
MatchesScoreNoLess ==
  [][topic = "score" => C!Score(case.plan, case.of) <= C!Score(case.plan, case'.of)]_vars

Stale(c) == [c EXCEPT !.stale = TRUE]
Fresh(c) == [c EXCEPT !.stale = FALSE]

\* Of two equal candidates the one whose fact has been superseded comes
\* second, whatever its kind.  This holds where the other scores above zero: of
\* a score below zero the decay keeps less than all, which is more.
StaleIsDemoted ==
  topic = "score" /\ case.of.kind \in C!Stable /\ C!Score(case.plan, Fresh(case.of)) > 0 =>
    C!Score(case.plan, Stale(case.of)) < C!Score(case.plan, Fresh(case.of))

\* In a question for the present value a newer candidate overtakes a better
\* one only if it is newer, and about as relevant: recency alone does not
\* bring a candidate to the top.
RecencyAmongRelevant ==
  topic = "latest" =>
    LET after == C!LatestPreferred(case)
        least == CHOOSE m \in {case[k].score : k \in DOMAIN case} : \A k \in DOMAIN case : m <= case[k].score
    IN  \A i, j \in DOMAIN case :
          case[j].score < case[i].score /\ after[j].score >= after[i].score =>
            /\ case[j].created > case[i].created
            /\ 4 * (case[j].score - least) >= 3 * (case[i].score - least)

\* The selection is as large as the limit and the sources allow, names no
\* source twice, lists it by score, and is as wide as it can be: no session
\* has a second result while another has none.
SelectionIsFullAndWide ==
  topic = "select" =>
    LET out == SelectedOf(case)
        cs == Candidates(case)
        sources == {cs[k].source : k \in DOMAIN cs}
        sessions == {cs[k].session : k \in DOMAIN cs}
        of(s) == {k \in DOMAIN out : out[k].session = s}
    IN  /\ Len(out) = IF case.limit <= Cardinality(sources) THEN case.limit ELSE Cardinality(sources)
        /\ \A j, k \in DOMAIN out : j < k => out[j].source # out[k].source /\ out[j].score >= out[k].score
        /\ \A s, t \in sessions : of(t) = {} => Cardinality(of(s)) <= 1

\* The first of a session's candidates, as many as there are facets, cover
\* every facet the session covers.
FacetsLead ==
  topic = "select" =>
    LET groups == S!Grouped(Candidates(case))
    IN  \A s \in DOMAIN groups :
          LET items == S!Reordered(groups[s])
              lead == 1 .. (IF Len(items) <= 2 THEN Len(items) ELSE 2)
          IN  UNION {items[k].facets : k \in DOMAIN items} = UNION {items[k].facets : k \in lead}

\* A link counts once from either end: memories linked both ways, as an
\* ingest that links back writes them, score as memories linked once.
LinksCountOnce ==
  topic = "links" =>
    LET back == {<<l[2], l[1]>> : l \in case}
    IN  G!LinkClusterScores(case \cup back, 1, 2) = G!LinkClusterScores(case, 1, 2)

\* The walk of all seeds at once, which shares what it has read, scores for
\* each seed what its own walk would.
SeedsDoNotInterfere ==
  topic = "edges" => \A a, b \in 1 .. 3 : a # b => Walk(case, <<a, b>>) = Walk(case, <<a>>) \o Walk(case, <<b>>)

\* Whatever lanes a session is found by, one that the evidence of each lane
\* puts no lower, and whose name comes first, is routed to if the other is.
DominantIsRouted ==
  topic = "route" =>
    LET hits(s) == IF s \in DOMAIN Pivot(case) THEN Pivot(case)[s] ELSE 0
        nolower(s, t) ==
          /\ case.lexical[s] >= case.lexical[t] /\ hits(s) >= hits(t)
          /\ \A set \in {case.window, case.probe1, case.probe2} : t \in set => s \in set
    IN  \A s, t \in 1 .. 3 : s < t /\ nolower(s, t) /\ t \in Routed(case) => s \in Routed(case)

\* What an intent sets: its own full-text top, the doubled vector top and the
\* decomposition that sends the question to more sessions.
SetByIntent(from, to) ==
  CASE from \in {"inference", "peripheral"} /\ to \in {"numeric", "temporal"} -> {"semantic", "fts"}
    [] from = "temporal" /\ to = "numeric" -> {"fts", "routed"}
    [] from = "temporal" /\ to = "peripheral" -> {"routed"}
    [] OTHER -> {}

IntentOf(q) == Q!ClassifyQueryIntent(Q!Rewritten(q))
Decomposed(q) == Q!BuildQueryPlan(Q!Rewritten(q)).decomposed

\* A question that asks for more, of more subjects, or with a richer profile,
\* is not searched less for.  While its intent stays, another cue may change
\* the shape and the row of the budget, and no limit falls.  A cue that changes
\* the intent takes away only what the old one had set higher: the tops when
\* an inference or a mention turns into a count or a time, the full-text top
\* when a time turns into a count, and, when a time turns into a count or a
\* mention that is not decomposed, sessions routed to.
DemandsOnlyWiden ==
  [][topic = "plan" =>
       LET before == DemandsOf(case)
           after == DemandsOf(case')
           may == SetByIntent(IntentOf(case), IntentOf(case'))
       IN  \A d \in DOMAIN before \ (IF Decomposed(case') THEN may \ {"routed"} ELSE may) :
             before[d] <= after[d]]_vars

\* However the cues add up, no limit is below that of the bare question, the
\* one with no cue in the same scope and with the same profile.
NeverBelowBare ==
  topic = "plan" =>
    LET bare == DemandsOf([case EXCEPT !.opens = "other", !.cues = {}, !.subjects = 0,
                                       !.ordinal = FALSE, !.timed = FALSE])
        asked == DemandsOf(case)
    IN  \A d \in DOMAIN bare : bare[d] <= asked[d]

\* What the answer must cover is not cut short: the requirements and facets
\* that are told apart fit the eight that are kept.
RequirementsAllKept ==
  topic = "plan" =>
    \A list \in {Q!Requirements(Q!Rewritten(case)), Q!Facets(Q!Rewritten(case))} : Q!Kept(list) = list

\* What is promoted to the profile is kept: no promoted memory expires from
\* under it, though promote_to_profile and retention_class test different
\* thresholds of different scores.
PromotedIsKept ==
  topic = "policy" => (L!Promoted(case) => L!ExpiresAt(case, 0) = L!NoExpiry)

\* What is inferred never has the better of the same words said outright: it
\* is kept no longer and ranked no higher, it gets no vector that those words
\* would not get, and unless it is restricted it expires.
StatedBeatsInferred ==
  topic = "policy" =>
    LET stated == [case EXCEPT !.inferred = FALSE]
        inferred == [case EXCEPT !.inferred = TRUE]
    IN  /\ L!ExpiresAt(inferred, 0) <= L!ExpiresAt(stated, 0)
        /\ L!RankAdjustment(inferred) <= L!RankAdjustment(stated)
        /\ L!IndexVector(inferred) => L!IndexVector(stated)
        /\ case.sensitivity # "restricted" => L!ExpiresAt(inferred, 0) < L!NoExpiry

\* A text that shows more is not worth less to evaluate_lifecycle: another
\* signal, unless it says that this is only so for now, costs neither time to
\* live nor a vector nor rank, through all the caps and thresholds.
SignalsWorthNoLess ==
  [][topic = "policy" /\ case'.temporary = case.temporary =>
       /\ L!ExpiresAt(case, 0) <= L!ExpiresAt(case', 0)
       /\ L!IndexVector(case) => L!IndexVector(case')
       /\ L!RankAdjustment(case) <= L!RankAdjustment(case')]_vars

-----------------------------------------------------------------------------

NextDate(d) ==
  CASE d.day < D!DaysInMonth(d.year, d.month) -> [d EXCEPT !.day = @ + 1]
    [] d.day = D!DaysInMonth(d.year, d.month) /\ d.month < 12 -> [d EXCEPT !.day = 1, !.month = @ + 1]
    [] OTHER -> [year |-> d.year + 1, month |-> 1, day |-> 1]

\* Both calendars count the same days: the formulas of the query and of ingest
\* give a date one number, from which ingest gets the date back, and the next
\* date, by the lengths of the months, has the next number.
OneCalendar ==
  topic = "date" =>
    LET n == D!DaysSinceEpoch(case.year, case.month, case.day)
        next == NextDate(case)
    IN  /\ D!DaysFromCivil(case.year, case.month, case.day) = n
        /\ D!CivilFromDays(n) = case
        /\ D!DaysSinceEpoch(next.year, next.month, next.day) = n + 1
        /\ case = [year |-> 1970, month |-> 1, day |-> 1] => n = 0

\* A day of the years that a query may name lies in the window of its own
\* date, month and season, and in that of no other month: at most the last
\* instant of a window, which is let in, is the first of the next month.
Within(text, n) ==
  LET w == D!ParseTemporalWindow(text, 0) IN w.start <= n /\ n < w.end
WindowsFit ==
  topic = "date" /\ D!InQueryYears(case.year) =>
    LET n == D!MonthToMs(case.year, case.month, case.day) + 1
        named(m) == [D!Silent EXCEPT !.tokens = <<D!Month(m), D!Number(case.year)>>]
        inweek(week) == [named(case.month) EXCEPT !.week = week]
        season(s) == [D!Silent EXCEPT !.season = s, !.tokens = <<D!Number(case.year)>>]
        left == D!DaysInMonth(case.year, case.month) - case.day
    IN  /\ \A m \in 1 .. 12 : Within(named(m), n) <=> m = case.month
        /\ Within([D!Silent EXCEPT !.date = [year |-> case.year, month |-> case.month, day |-> case.day, slashed |-> TRUE]], n)
        /\ Within(inweek("first"), n) <=> case.day <= 7
        /\ Within(inweek("last"), n) <=> left < 7
        /\ \A s \in DOMAIN D!SeasonFrom :
             Within(season(s), n) <=> D!SeasonFrom[s] + 2 >= case.month /\ D!SeasonFrom[s] <= case.month

\* Who asks with the words they used finds what they said: the time of the
\* event that ingest takes from a text lies in the window that the query takes
\* from it at the same time, where both find one.  This is of the forms in
\* Texts; those of ReadDifferently do not meet it.
AskedAsSaid ==
  topic = "said" =>
    LET event == D!ExtractEventTimeMs(case.text, case.now)
        window == D!ParseTemporalWindow(case.text, case.now)
    IN  event # D!Undated /\ window # D!NoWindow => D!InTimeWindow(event, window)

-----------------------------------------------------------------------------

\* A superseded fact ranks below the same fact still current, recency brings a
\* candidate to the top only among the relevant ones, and the selection is
\* full, ordered, as wide as it can be and led by what covers the facets.
RankingIsFair == StaleIsDemoted /\ RecencyAmongRelevant /\ SelectionIsFullAndWide /\ FacetsLead

\* The graph counts a link once from either end, and the walks that share what
\* they read do not take from each other.
GraphCountsOnce == LinksCountOnce /\ SeedsDoNotInterfere

\* A question reaches the sessions that no other beats, and all that its answer
\* must cover is kept, and it is searched for no less than the bare question.
QuestionIsCovered == DominantIsRouted /\ RequirementsAllKept /\ NeverBelowBare

\* Promotion, retention, vectors and rank agree with each other, for what is
\* stated and for what is inferred.
PolicyAgrees == PromotedIsKept /\ StatedBeatsInferred

\* The calendars of ingest and of queries agree on every date, and on what a
\* text names in one of the forms that both read alike.
CalendarsAgree == OneCalendar /\ WindowsFit /\ AskedAsSaid

\* A candidate, a question or a memory that shows one thing more is not worth
\* less: not to the score, not to the budget, not to the retention policy.
MoreIsNoLess == MatchesScoreNoLess /\ DemandsOnlyWiden /\ SignalsWorthNoLess

=============================================================================
