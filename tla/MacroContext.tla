---------------------------- MODULE MacroContext ----------------------------
(***************************************************************************)
(* services/macro_context.py and services/ecos_context.py: what a fetch of *)
(* the official macro sources makes of their answers.  A fetch that starts *)
(* at a time stamps everything it finds with that time.  A value is        *)
(* reduced to the date it was observed on.                                 *)
(***************************************************************************)
EXTENDS ResearchContracts

CONSTANTS
    Lookback,   \* how far back the baseline of a series' change lies
    Lag,        \* how much older than that the baseline may be
    MaxAge      \* the oldest the newest value of a series may be

TreasurySeries == {"2y", "3y", "10y", "10y2y"}
BlsSeries == {"cpi", "unemployment"}
EcosSeries == {"base_rate", "usd_krw"}

\* An answer to one request: rows of a date and the columns filled in on it,
\* an error, or a document that cannot be read.
Answer(outcome, rows) == [outcome |-> outcome, rows |-> rows]

\* The spread of two rates is known on the days both of them are; days
\* after the fetch are ignored.
Carries(row, series) ==
    IF series = "10y2y" THEN {"10y", "2y"} \subseteq row.columns ELSE series \in row.columns
Dates(rows, series, at) ==
    {row.date : row \in {r \in rows : Carries(r, series) /\ r.date <= at}}

\* _find_baseline, _find_monthly_baseline
Baseline(dates, series) ==
    {d \in dates : LET target == Max(dates) - Lookback[series]
                   IN  target - Lag[series] <= d /\ d <= target}

\* _build_official_series: the newest value, its change if a baseline is
\* known, and whether both are stale.
SeriesOf(series, source, dates, at) ==
    LET change == IF Baseline(dates, series) = {} THEN {} ELSE {"change"}
    IN  IF dates = {} THEN [facts |-> {}, gap |-> TRUE, stale |-> FALSE]
        ELSE [facts |-> {Fact(<<series, kind>>, source, Max(dates), at, at)
                           : kind \in {"level"} \cup change},
              gap |-> change = {},
              stale |-> at - Max(dates) > MaxAge[series]]

\* _build_section
Built(id, facts, gaps, blocked) ==
    CASE blocked -> Section(id, "blocked", TRUE, facts, gaps, TRUE)
      [] ~blocked /\ gaps /\ facts # {} -> Section(id, "partial", TRUE, facts, TRUE, FALSE)
      [] ~blocked /\ gaps /\ facts = {} -> Section(id, "blocked", TRUE, {}, TRUE, TRUE)
      [] OTHER -> Section(id, "complete", TRUE, facts, FALSE, FALSE)

\* One official source: the years of treasury rates, or the one answer of
\* the labour statistics.  A failed year blocks the section and keeps the
\* other year's rows; an unreadable one loses them all.
Official(id, source, series, answers, at) ==
    LET answered == {a \in answers : a.outcome # "failed"}
        usable == answered # {} /\ \A a \in answered : a.outcome = "answered"
        rows == IF usable THEN UNION {a.rows : a \in answered} ELSE {}
        found == {SeriesOf(s, source, Dates(rows, s, at), at) : s \in series}
        facts == UNION {r.facts : r \in found}
    IN  [facts |-> facts,
         sources |-> IF usable THEN {Source(source, at)} ELSE {},
         sections |-> {Built(id, Ids(facts), \E r \in found : r.gap,
                             \/ \E r \in found : r.stale
                             \/ \E a \in answers : a.outcome # "answered")},
         stale |-> UNION {Ids(r.facts) : r \in {x \in found : x.stale}}]

Together(A) ==
    [facts |-> UNION {a.facts : a \in A}, sources |-> UNION {a.sources : a \in A},
     sections |-> UNION {a.sections : a \in A}, stale |-> UNION {a.stale : a \in A}]

\* OfficialMacroContextClient.fetch: two sources; four sections have none.
CommonSections == {"macro.rates", "macro.currency", "macro.volatility",
                   "macro.commodities", "macro.liquidity", "macro.growth_inflation"}
FetchMacro(feed, at) ==
    LET rates == Official("macro.rates", "treasury", TreasurySeries, feed.treasury, at)
        growth == Official("macro.growth_inflation", "bls", BlsSeries, {feed.bls}, at)
    IN  [Together({rates, growth}) EXCEPT !.sections = @ \cup
            {Unavailable(id, TRUE) : id \in CommonSections
                                            \ {"macro.rates", "macro.growth_inflation"}}]

\* EcosMacroContextClient.fetch: feed[s] holds the dates of the readable
\* values in the answer for series s, and none if its request failed.
FetchEcos(feed, at) ==
    LET past(s) == {d \in feed[s] : d <= at}
        found == {s \in EcosSeries : past(s) # {}}
        facts == {Fact(<<s, "level">>, "ecos", Max(past(s)), at, at) : s \in found}
        stale == {<<s, "level">> : s \in {x \in found : at - Max(past(x)) > MaxAge[x]}}
        blocked == found # EcosSeries \/ stale # {}
    IN  [facts |-> facts,
         sources |-> IF facts = {} THEN {} ELSE {Source("ecos", at)},
         sections |-> {Section("macro.kr.ecos", IF blocked THEN "blocked" ELSE "complete",
                               TRUE, Ids(facts), blocked, blocked)},
         stale |-> stale]
=============================================================================
