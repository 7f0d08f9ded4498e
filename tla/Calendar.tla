------------------------------ MODULE Calendar ------------------------------
(* Dates, and the time that words stand for.  There are two calendars: that  *)
(* of queries (core/calendar.rs), which turns a question into a window of    *)
(* time, and that of ingest (api/ingest/datetime.rs), which turns a text and *)
(* the time of its document into the time of its event.                      *)
EXTENDS Integers, SequencesExt

CONSTANT PerDay  \* instants in a day

Undated == -1

AtLeastZero(n) == IF n > 0 THEN n ELSE 0

-----------------------------------------------------------------------------
(* The calendar of queries.                                                  *)

Leap(year) == (year % 4 = 0 /\ year % 100 # 0) \/ year % 400 = 0

DaysInMonth(year, month) ==
  CASE month \in {1, 3, 5, 7, 8, 10, 12} -> 31
    [] month = 2 -> IF Leap(year) THEN 29 ELSE 28
    [] OTHER -> 30

DaysSinceEpoch(year, month, day) ==
  LET a == (14 - month) \div 12
      y == year + 4800 - a
      m == month + 12 * a - 3
  IN  day + (153 * m + 2) \div 5 + 365 * y + y \div 4 - y \div 100 + y \div 400 - 32045 - 2440588

MonthToMs(year, month, day) == DaysSinceEpoch(year, month, day) * PerDay

-----------------------------------------------------------------------------
(* The calendar of ingest.                                                   *)

DaysFromCivil(year, month, day) ==
  LET y == IF month <= 2 THEN year - 1 ELSE year
      era == y \div 400
      yoe == y - era * 400
      mp == IF month > 2 THEN month - 3 ELSE month + 9
      doy == (153 * mp + 2) \div 5 + day - 1
  IN  era * 146097 + yoe * 365 + yoe \div 4 - yoe \div 100 + doy - 719468

CivilFromDays(days) ==
  LET z == days + 719468
      era == z \div 146097
      doe == z - era * 146097
      yoe == (doe - doe \div 1460 + doe \div 36524 - doe \div 146096) \div 365
      doy == doe - (365 * yoe + yoe \div 4 - yoe \div 100)
      mp == (5 * doy + 2) \div 153
      m == IF mp < 10 THEN mp + 3 ELSE mp - 9
  IN  [year |-> yoe + era * 400 + (IF m <= 2 THEN 1 ELSE 0), month |-> m,
       day |-> doy - (153 * mp + 2) \div 5 + 1]

\* A day beyond its month runs on into the next; before 1970 there is no time.
EpochMsFromYmd(year, month, day) ==
  LET days == DaysFromCivil(year, month, day) IN IF days < 0 THEN Undated ELSE days * PerDay

-----------------------------------------------------------------------------
(* A text: a date in digits, with dashes or slashes, or none; its words that *)
(* name a month and its numbers, in their order; a season; a week of the     *)
(* month; the days of a "last n days"; and its relative words.               *)

Month(n) == [is |-> "month", n |-> n]
Number(n) == [is |-> "number", n |-> n]

NoDate == [year |-> 0, month |-> 0, day |-> 0, slashed |-> FALSE]
Silent == [date |-> NoDate, tokens |-> <<>>, season |-> "none", week |-> "none", past |-> Undated, cues |-> {}]

\* The words of a list in the order they are looked for.
Cue(order, cues) ==
  LET k == SelectInSeq(order, LAMBDA c : c \in cues) IN IF k = 0 THEN "none" ELSE order[k]

Sought(tokens, Test(_)) ==
  LET k == SelectInSeq(tokens, Test) IN IF k = 0 THEN Undated ELSE tokens[k].n

-----------------------------------------------------------------------------
(* parse_temporal_window: [start, end) of what is asked for, or NoWindow.    *)

NoWindow == [start |-> Undated, end |-> Undated]

\* From the first day to the last, which is left out when the window ends
\* where that day begins.
DaysUntil(year1, month1, day1, year2, month2, day2) ==
  [start |-> MonthToMs(year1, month1, day1), end |-> MonthToMs(year2, month2, day2)]
Days(year1, month1, day1, year2, month2, day2) ==
  [start |-> MonthToMs(year1, month1, day1), end |-> MonthToMs(year2, month2, day2) + PerDay]

InQueryYears(year) == year \in 1990 .. 2100

SeasonFrom == [spring |-> 3, summer |-> 6, fall |-> 9, winter |-> 12]
SeasonWindow(year, season) ==
  LET from == SeasonFrom[season]
      last == IF season = "winter" THEN [year |-> year + 1, month |-> 2] ELSE [year |-> year, month |-> from + 2]
  IN  Days(year, from, 1, last.year, last.month, DaysInMonth(last.year, last.month))

MonthWindow(year, month, week, day) ==
  LET dom == DaysInMonth(year, month)
      between(a, b) == Days(year, month, a, year, month, b)
      within == IF day < dom THEN day ELSE dom
  IN  CASE week = "last" -> between(dom - 6, dom)
        [] week = "first" -> between(1, 7)
        [] week = "none" /\ day # Undated -> between(within, within)
        [] OTHER -> between(1, dom)

RelativeWindow(text, now) ==
  LET today == (now \div PerDay) * PerDay
      back(from, days) == AtLeastZero(from - days * PerDay)
      window(from, until) == [start |-> from, end |-> until]
      cue == Cue(<<"yesterday", "today", "last week", "this week", "last month", "this month", "last year">>, text.cues)
  IN  CASE cue = "yesterday" -> window(back(today, 1), today)
        [] cue = "today" -> window(today, today + PerDay)
        [] cue = "last week" -> window(back(now, 7), now)
        [] cue = "this week" -> window(back(today, 6), today + PerDay)
        [] cue = "last month" -> window(back(now, 30), now)
        [] cue = "this month" -> window(back(now, 30), now + PerDay)
        [] cue = "last year" -> window(back(now, 365), now)
        [] cue = "none" /\ text.past # Undated -> window(back(now, text.past), now)
        [] OTHER -> NoWindow

ParseTemporalWindow(text, now) ==
  LET year == Sought(text.tokens, LAMBDA t : t.is = "number" /\ InQueryYears(t.n))
      month == Sought(text.tokens, LAMBDA t : t.is = "month")
      day == Sought(text.tokens, LAMBDA t : t.is = "number" /\ t.n \in 1 .. 31)
      d == text.date
  IN  CASE InQueryYears(d.year) -> MonthWindow(d.year, d.month, "none", d.day)
        [] ~InQueryYears(d.year) /\ year # Undated /\ text.season # "none" -> SeasonWindow(year, text.season)
        [] ~InQueryYears(d.year) /\ year # Undated /\ text.season = "none" /\ month # Undated ->
             MonthWindow(year, month, text.week, day)
        [] OTHER -> RelativeWindow(text, now)

\* sessions_in_time_window takes the end with it.
InTimeWindow(created, window) == created >= window.start /\ created <= window.end

-----------------------------------------------------------------------------
(* parse_date_to_epoch_ms and extract_event_time_ms.                         *)

InIngestYears(year) == year \in 1900 .. 2200

\* A date with slashes is three numbers to ingest.
IngestTokens(text) ==
  LET d == text.date
  IN  (IF d.slashed THEN <<Number(d.year), Number(d.month), Number(d.day)>> ELSE <<>>) \o text.tokens

NumberAt(tokens, k) ==
  IF k \in DOMAIN tokens /\ tokens[k].is = "number" THEN tokens[k].n ELSE Undated

\* "may" is a month when a number goes with it.
NamesMonth(tokens, k) ==
  /\ tokens[k].is = "month"
  /\ \/ tokens[k].n # 5
     \/ NumberAt(tokens, k + 1) \in 1 .. 31 \/ InIngestYears(NumberAt(tokens, k + 1))
     \/ NumberAt(tokens, k - 1) \in 1 .. 31

\* The day before the month goes before the day after it.
MonthDate(tokens, k, reference) ==
  LET before == NumberAt(tokens, k - 1)
      after == NumberAt(tokens, k + 1)
      later == NumberAt(tokens, k + 2)
      year == CASE after \in 1 .. 31 /\ InIngestYears(later) -> later
                [] InIngestYears(after) -> after
                [] OTHER -> CivilFromDays(reference \div PerDay).year
      day == CASE before \in 1 .. 31 -> before
               [] before \notin 1 .. 31 /\ after \in 1 .. 31 -> after
               [] OTHER -> 1
  IN  EpochMsFromYmd(year, tokens[k].n, day)

ParseDateToEpochMs(text, reference) ==
  LET d == text.date
      tokens == IngestTokens(text)
      k == SelectInSeq([i \in DOMAIN tokens |-> i], LAMBDA i : NamesMonth(tokens, i))
      year == Sought(tokens, LAMBDA t : t.is = "number" /\ InIngestYears(t.n))
  IN  CASE d # NoDate /\ ~d.slashed -> EpochMsFromYmd(d.year, d.month, d.day)
        [] (d = NoDate \/ d.slashed) /\ k # 0 -> MonthDate(tokens, k, reference)
        [] (d = NoDate \/ d.slashed) /\ k = 0 /\ year # Undated -> EpochMsFromYmd(year, 1, 1)
        [] OTHER -> Undated

Shift(cue) == CASE cue = "tomorrow" -> 1 [] cue = "yesterday" -> -1 [] cue = "next week" -> 7
                [] cue = "last week" -> -7 [] cue = "next month" -> 30 [] cue = "last month" -> -30 [] OTHER -> 0

ExtractEventTimeMs(text, document) ==
  LET date == ParseDateToEpochMs(text, document)
      cue == Cue(<<"tomorrow", "yesterday", "next week", "last week", "next month", "last month", "today">>, text.cues)
  IN  CASE date # Undated -> date
        [] date = Undated /\ cue # "none" -> AtLeastZero(document + Shift(cue) * PerDay)
        [] OTHER -> Undated

\* The time of a document is that of its header, or of its arrival.
ExtractDocumentTimeMs(header, fallback) ==
  LET date == ParseDateToEpochMs(header, fallback) IN IF date = Undated THEN fallback ELSE date
=============================================================================
