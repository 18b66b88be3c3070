----------------------------- MODULE Screening -----------------------------
(***************************************************************************)
(* How a scan judges and ranks companies: the hard gate on annual          *)
(* fundamentals (services/fundamental_screening.py), the chart score and   *)
(* verdict of daily prices (services/candidate_discovery.py), and the      *)
(* sector evidence and final ranking (services/full_market_discovery.py).  *)
(*                                                                         *)
(* The evidence changes one datum at a time, as filings are corrected,     *)
(* quotes move and reports age, and a scan follows each change: `outcome'  *)
(* is what the last scan found.                                            *)
(*                                                                         *)
(* A score counts hundredths of a point, cut off where the code keeps a    *)
(* float; a ratio counts hundredths of a percent; a volume is the exponent *)
(* of a power of ten; a company is a number, by which ties are broken.     *)
(***************************************************************************)
EXTENDS Integers, FiniteSets, Sequences, SequencesExt

CONSTANTS
    Markets0,    \* what the filings and quotes may be at first
    Figures,     \* per figure of a filing, the values a correction may give
    Quotes,      \* per figure of a quote, the values a day may give
    MaxChanges,  \* bound: the changes of the evidence
    PriceLimit,  \* companies of a scan whose prices are asked for
    Limit,       \* candidates asked for
    Profiles, Strategies,
    None

VARIABLES
    filings,   \* per company, its sector and annual figures
    quotes,    \* per company, its end-of-day metrics
    request,   \* the profile and strategy of the scans
    changes,   \* changes so far
    outcome    \* the last scan

evidence == <<filings, quotes, changes>>
vars == <<filings, quotes, request, changes, outcome>>

Yearly == {"revenue", "operating", "net", "cash"}
Years  == 1 .. 3
Point  == 100
Full   == 100 * Point
Half   == 50 * Point
Least(m, n) == IF m < n THEN m ELSE n

Clamp(v) == IF v < 0 THEN 0 ELSE Least(v, Full)

\* _scale: where v lies between low and high.
Scale(v, low, high) ==
    CASE v <= low  -> 0
      [] v >= high -> Full
      [] OTHER     -> ((v - low) * Full) \div (high - low)

\* f; to compare it, TLC evaluates it at once rather than at each use.
Table(f) == CHOOSE g \in {f} : g = f

Ratio(a, b) == (a * 10000) \div b

\* c comes before d: v is larger, or equal and the number is less.
Above(v, c, d) == v[c] > v[d] \/ (v[c] = v[d] /\ c < d)

\* The companies S, those with the larger v first.
Ordered(S, v) ==
    [n \in 1 .. Cardinality(S) |->
        CHOOSE c \in S : Cardinality({d \in S : Above(v, d, c)}) = n - 1]

First(S, n, v) == SubSeq(Ordered(S, v), 1, Least(n, Cardinality(S)))

\* The middle value of v over S, or the mean of the two in the middle.
Median(S, v) ==
    LET s == Ordered(S, v)
        n == Cardinality(S)
    IN  (v[s[(n + 1) \div 2]] + v[s[(n + 2) \div 2]]) \div 2

----------------------------------------------------------------------------
(* The gate on fundamentals *)

\* Tenths of the equity that the liabilities may be.
DebtLimit(p) ==
    CASE p = "defensive" -> 15 [] p = "balanced" -> 25 [] p = "aggressive" -> 35

MinimumGrowth(p) == IF p = "aggressive" THEN 5 ELSE -2

MaxReportAge == 550

\* A figure that some year or the last balance sheet lacks, or a report that
\* is too old or of the future.
Missing(f) ==
    \/ \E k \in Yearly, y \in Years : f[k][y] = None
    \/ None \in {f.equity, f.assets, f.liabilities}
    \/ f.age < 0 \/ f.age > MaxReportAge

Growth_Inverted(first, last) ==
    IF first <= 0 \/ last <= 0 THEN -100
    ELSE CHOOSE g \in -3 .. 25 :
            /\ (100 + g) * (100 + g) * last <= first * 10000 \/ g = -3
            /\ (101 + g) * (101 + g) * last > first * 10000 \/ g = 25

\* _compound_growth over two years in whole percent; no rule tells values
\* above 25 or below -2 apart.
Growth(first, last) ==
    IF first <= 0 \/ last <= 0 THEN -100
    ELSE CHOOSE g \in -3 .. 25 :
            /\ (100 + g) * (100 + g) * first <= last * 10000 \/ g = -3
            /\ (101 + g) * (101 + g) * first > last * 10000 \/ g = 25

RevenueGrowth(f) == Growth(f.revenue[1], f.revenue[3])
Positive(figures) == Cardinality({y \in Years : figures[y] > 0})

Failing(f, p) ==
    \/ f.equity <= 0
    \/ f.operating[3] <= 0
    \/ f.net[3] <= 0 \/ Positive(f.net) < 2
    \/ Positive(f.cash) < 2
    \/ 10 * f.liabilities > DebtLimit(p) * f.equity
    \/ RevenueGrowth(f) < MinimumGrowth(p)

Quality(f) ==
    (Positive(f.net) * 25 * Point + Positive(f.cash) * 25 * Point) \div 3
    + (Scale(Ratio(f.net[3], f.equity), 0, 2500) * 30
       + (Full - Scale(Ratio(f.liabilities, f.equity), 5000, 35000)) * 20) \div 100

GrowthScore(f) == Clamp((Scale(RevenueGrowth(f), -2, 25) * 65) \div 100 + 35 * Point)

\* The mean of what is known of the price-earnings ratio (in units) and the
\* price-to-book ratio (in tenths).
Valuation(f) ==
    LET pe == Full - Scale(f.pe, 8, 45)
        pb == Full - Scale(f.pb, 8, 80)
    IN  CASE f.pe # None /\ f.pb # None -> (pe + pb) \div 2
          [] f.pe # None /\ f.pb = None -> pe
          [] f.pe = None /\ f.pb # None -> pb
          [] f.pe = None /\ f.pb = None -> None

Weighted_OverAll(sum, weight, valuation) ==
    IF valuation = None THEN (sum * 10) \div 10 ELSE ((sum + valuation * 10) * 10) \div 10

\* A score with the known valuation, which weighs 10, or reweighted without.
\* The result counts ten-thousandths of a point.
Weighted(sum, weight, valuation) ==
    IF valuation = None THEN (sum * 100) \div weight
    ELSE ((sum + valuation * 10) * 100) \div (weight + 10)

\* FundamentalGate.evaluate
Judge(f, p) ==
    CASE Missing(f) -> [status |-> "insufficient_data"]
      [] ~Missing(f) /\ f.special -> [status |-> "special_review"]
      [] ~Missing(f) /\ ~f.special /\ Failing(f, p) -> [status |-> "excluded"]
      [] OTHER ->
            [status |-> "passed", quality |-> Clamp(Quality(f)), growth |-> GrowthScore(f),
             valuation |-> Valuation(f),
             total |-> Weighted(Clamp(Quality(f)) * 65 + GrowthScore(f) * 25, 90,
                                Valuation(f)) \div 100]

----------------------------------------------------------------------------
(* The chart score of a quote *)

\* Less than 200 bars, or a metric that cannot be computed.
MissingScoringData(q) == q.observations < 200 \/ q.volatility = None

\* In ten-thousandths: trend, momentum, stability, liquidity.
Weights(s) ==
    CASE s = "balanced"  -> <<35, 30, 20, 15>>
      [] s = "momentum"  -> <<25, 50, 10, 15>>
      [] s = "defensive" -> <<30, 15, 40, 15>>

RangePosition(q) ==
    IF q.high <= q.low THEN Half
    ELSE Clamp(((q.close - q.low) * Full) \div (q.high - q.low))

Trend(q) ==
    (Scale(Ratio(q.close, q.sma20) - 10000, -1000, 1000)
     + Scale(Ratio(q.close, q.sma50) - 10000, -2000, 2000)
     + Scale(Ratio(q.close, q.sma200) - 10000, -3000, 3000)
     + RangePosition(q)) \div 4

Momentum(q) ==
    (Scale(q.return5, -8, 8) + Scale(q.return20, -20, 20) + Scale(q.return60, -30, 40)
     + Scale(q.rsi, 30, 70)) \div 4

ChartScore(q, s) ==
    LET w == Weights(s)
    IN  Clamp((Trend(q) * w[1] + Momentum(q) * w[2]
               + (Full - Scale(q.volatility, 15, 60)) * w[3] + Scale(q.volume, 6, 8) * w[4])
              \div 100)

\* _verdict: a million shares a day and 50 points are required.
StarterVerdict(q, s) ==
    CASE q.volume < 6 \/ ChartScore(q, s) < Half -> "exclude"
      [] q.volume >= 6 /\ ChartScore(q, s) >= 70 * Point -> "review_first"
      [] OTHER -> "watch"

\* CandidateDiscoveryService.screen: every company of a fixed list is ranked
\* that has data; those without are excluded after those the verdict excludes.
StarterScreen(qs, s) ==
    LET scored  == {c \in DOMAIN qs : ~MissingScoringData(qs[c])}
        score   == Table([c \in scored |-> ChartScore(qs[c], s)])
        wanted  == {c \in scored : StarterVerdict(qs[c], s) # "exclude"}
        unknown == DOMAIN qs \ scored
    IN  [candidates |-> First(wanted, Limit, score),
         omitted    |-> Cardinality(wanted) - Least(Limit, Cardinality(wanted)),
         excluded   |-> Ordered(scored \ wanted, score)
                        \o Ordered(unknown, [c \in unknown |-> 0])]

----------------------------------------------------------------------------
(* Sectors and the final ranking *)

\* US dollars of a day's trading, in hundreds of thousands.
MinAverageValue(p) == CASE p = "defensive" -> 100 [] p = "balanced" -> 50 [] p = "aggressive" -> 20

Liquid(q, p) == q.close * 10 ^ q.volume >= MinAverageValue(p) * 10 ^ 5

\* _company_outlook_score: growth and its acceleration, the change of the
\* margin and the cash earned, for a company that passed the gate.
Outlook(f) ==
    IF \E y \in Years : f.revenue[y] <= 0 THEN 0
    ELSE LET prior    == Ratio(f.revenue[2], f.revenue[1]) - 10000
             latest   == Ratio(f.revenue[3], f.revenue[2]) - 10000
             margin(y) == Ratio(f.operating[y], f.revenue[y])
         IN  Clamp((Scale(latest, -500, 3000) * 35 + Scale(latest - prior, -1500, 1500) * 25
                    + Scale(margin(3) - margin(2), -500, 500) * 20
                    + Scale(Ratio(f.cash[3], f.revenue[3]), 0, 2500) * 20) \div 100)

\* Companies that a sector needs before it is compared.
SampleSize == 3

\* The evidence of a sector from its companies that passed the gate and those
\* that were priced; an unknown sector and a thin sample are neutral.
SectorScore(sector, passed, priced, gate, fs, qs) ==
    LET inSector(S) == {c \in S : fs[c].sector = sector}
        judged == inSector(passed)
        traded == inSector(priced)
        financial ==
            IF Cardinality(judged) >= SampleSize
            THEN Median(judged, Table([c \in judged |-> Outlook(fs[c])])) * 40
                 + Median(judged, [c \in judged |-> gate[c].quality]) * 20
            ELSE Half * 60
        rising == {c \in traded : qs[c].return60 > 0}
        price ==
            IF Cardinality(traded) >= SampleSize
            THEN Scale(Median(traded, [c \in traded |-> qs[c].return60]), -20, 35) * 25
                 + ((Cardinality(rising) * Full) \div Cardinality(traded)) * 15
            ELSE Half * 40
    IN  IF sector = None THEN Half ELSE Clamp((financial + price) \div 100)

\* _rank
RankTotal(g, sector, chart) ==
    Weighted(g.quality * 35 + g.growth * 20 + sector * 20 + chart * 15, 90, g.valuation)

\* _candidate computes the score that is shown once more.
CandidateScore(g, sector, chart) ==
    Weighted(g.quality * 35 + g.growth * 20 + sector * 20 + chart * 15, 90, g.valuation) \div 100

Screen(fs, qs, r) ==
    LET gate   == Table([c \in DOMAIN fs |-> Judge(fs[c], r.profile)])
        passed == {c \in DOMAIN fs : gate[c].status = "passed"}
        marks  == Table([c \in passed |-> gate[c].total])
        asked  == ToSet(First(passed, PriceLimit, marks))
        priced == {c \in asked : ~MissingScoringData(qs[c]) /\ Liquid(qs[c], r.profile)}
        sector == Table([c \in priced |-> SectorScore(fs[c].sector, passed, priced, gate, fs, qs)])
        chart  == Table([c \in priced |-> ChartScore(qs[c], r.strategy)])
        total  == Table([c \in priced |-> RankTotal(gate[c], sector[c], chart[c])])
        score  == Table([c \in priced |-> CandidateScore(gate[c], sector[c], chart[c])])
    IN  [gate |-> gate, priced |-> priced, score |-> score,
         candidates |-> First(priced, Limit, total),
         first |-> {c \in priced : score[c] >= 72 * Point}]

----------------------------------------------------------------------------
(* The evidence changes, and the next scan follows *)

Scan == outcome' = Screen(filings', quotes', request)

Change == changes < MaxChanges /\ changes' = changes + 1

\* An annual figure is corrected, found or lost.
CorrectYear(c, k, y, v) ==
    /\ Change
    /\ filings' = [filings EXCEPT ![c][k][y] = v]
    /\ UNCHANGED <<quotes, request>>
    /\ Scan

\* The balance sheet, a valuation ratio, the age of the report, the sector or
\* the business model.
Correct(c, k, v) ==
    /\ Change
    /\ filings' = [filings EXCEPT ![c][k] = v]
    /\ UNCHANGED <<quotes, request>>
    /\ Scan

Trade(c, k, v) ==
    /\ Change
    /\ quotes' = [quotes EXCEPT ![c][k] = v]
    /\ UNCHANGED <<filings, request>>
    /\ Scan

Init ==
    /\ \E m \in Markets0 : filings = m.filings /\ quotes = m.quotes
    /\ request \in [profile : Profiles, strategy : Strategies]
    /\ changes = 0
    /\ outcome = Screen(filings, quotes, request)

Next ==
    \E c \in DOMAIN filings :
        \/ \E k \in Yearly, y \in Years : \E v \in Figures[k] : CorrectYear(c, k, y, v)
        \/ \E k \in DOMAIN Figures \ Yearly : \E v \in Figures[k] : Correct(c, k, v)
        \/ \E k \in DOMAIN Quotes : \E v \in Quotes[k] : Trade(c, k, v)

Spec == Init /\ [][Next]_vars

----------------------------------------------------------------------------
(* Properties *)

\* The figures of g are those of f or better, and none is missing from either.
Better(f, g) ==
    /\ ~Missing(f) /\ ~Missing(g) /\ f.special = g.special /\ f.sector = g.sector
    /\ 0 < g.revenue[1] /\ g.revenue[1] <= f.revenue[1] /\ g.revenue[3] >= f.revenue[3]
    /\ \A k \in {"operating", "net", "cash"}, y \in Years : g[k][y] >= f[k][y]
    /\ g.equity >= f.equity /\ g.liabilities <= f.liabilities

\* A correction for the better never costs a company the gate, nor any of its
\* fundamental score unless the return on equity has a larger base.
BetterNeverLoses ==
    [][\A c \in DOMAIN filings :
          LET g == outcome.gate[c]  h == outcome'.gate[c]
          IN  Better(filings[c], filings'[c]) /\ g.status = "passed" =>
                /\ h.status = "passed"
                /\ filings'[c].equity = filings[c].equity /\ g.valuation = h.valuation
                     => h.total >= g.total]_vars

\* An unknown valuation is neither good nor bad: the shown score is higher
\* than with the worst known valuation, as a zero would not be, and no higher
\* than with the best, among the same companies.  The starter list, which has no
\* neutral score, keeps the companies without data apart and loses none.
GapsAreNeutral ==
    /\ \A c \in outcome.priced :
        outcome.gate[c].valuation = None =>
            LET with(v) == Screen([filings EXCEPT ![c].pe = v], quotes, request)
                worst == with(45)
                best  == with(8)
            IN  /\ worst.priced = outcome.priced => outcome.score[c] > worst.score[c]
                /\ best.priced = outcome.priced  => outcome.score[c] <= best.score[c]
    /\ LET starter == StarterScreen(quotes, request.strategy)
           listed  == starter.candidates \o starter.excluded
       IN  /\ IsInjective(listed)
           /\ Len(listed) + starter.omitted = Cardinality(DOMAIN quotes)
           /\ \A c \in ToSet(starter.candidates) : ~MissingScoringData(quotes[c])

=============================================================================
