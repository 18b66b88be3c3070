------------------------------- MODULE Rules -------------------------------
(***************************************************************************)
(* The rules of the office: the judgement of a market (MarketRegime), the  *)
(* reading of source documents (Filings) and the screening of companies    *)
(* (Screening).  They share no state.  A behaviour exercises one of them;  *)
(* the others are at rest, with nothing to judge.                          *)
(***************************************************************************)
EXTENDS Integers, FiniteSets

CONSTANTS
    Markets0, Figures, Quotes, MaxChanges, PriceLimit, Limit, Profiles, Strategies,  \* Screening
    Kinds, Tickers, KeyOf, Ciks, TagsOf, Units, YearSet, Dates, MaxRows,             \* Filings
    Signals, Readings, Calm, MaxTime, MaxSteps,                                      \* MarketRegime
    None

VARIABLES
    filings, quotes, request, changes, outcome,           \* Screening
    kind, market, listing, ciks, facts, accounts,         \* Filings
    assessed, evidence, steps                             \* MarketRegime

Screens   == INSTANCE Screening
Documents == INSTANCE Filings
Regime    == INSTANCE MarketRegime WITH market <- assessed, facts <- evidence

\* Days are counted from some first day.  What is missing is neither a number nor
\* a kind of document.
ASSUME DocumentsAssumption ==
    Dates \subseteq Nat /\ None \notin Int \cup {"listing", "facts", "accounts"}

\* Readings are finite numbers, as _finite_number lets them through.
ASSUME ReadingsAssumption ==
    /\ \A s \in Signals : Readings[s] \subseteq Int
    /\ \A s \in DOMAIN Calm : Calm[s] \in Int

\* What the parsers make of a filing, and the price service of a chart: numbers, or
\* None for those that are missing.  An average of prices is positive.
Amount == Int \cup {None}

Annuals == {"revenue", "operating", "net", "cash"}

Datum(k, v) ==
    CASE k \in {"equity", "assets", "liabilities", "pe", "pb"} -> v \in Amount
      [] k = "age"     -> v \in Int
      [] k = "special" -> v \in BOOLEAN
      [] OTHER         -> TRUE

IsFiling(f) ==
    /\ f = [k \in {"sector", "special", "age", "revenue", "operating", "net", "cash",
                   "equity", "assets", "liabilities", "pe", "pb"} |-> f[k]]
    /\ \A k \in DOMAIN f : IF k \in Annuals THEN f[k] \in [1 .. 3 -> Amount] ELSE Datum(k, f[k])

Metric(k, v) ==
    CASE k = "volatility"                    -> v \in Amount
      [] k \in {"sma20", "sma50", "sma200"} -> v \in Nat \ {0}
      [] OTHER                              -> v \in Int

IsQuote(q) ==
    /\ q = [k \in {"close", "sma20", "sma50", "sma200", "high", "low", "return5", "return20",
                   "return60", "rsi", "volatility", "volume", "observations"} |-> q[k]]
    /\ \A k \in DOMAIN q : Metric(k, q[k])

\* Companies are numbers; each has a filing and a quote.
AreCompanies(fs, qs) ==
    /\ IsFiniteSet(DOMAIN fs) /\ DOMAIN fs \subseteq Int /\ DOMAIN qs = DOMAIN fs
    /\ fs = [c \in DOMAIN fs |-> fs[c]] /\ \A c \in DOMAIN fs : IsFiling(fs[c])
    /\ qs = [c \in DOMAIN qs |-> qs[c]] /\ \A c \in DOMAIN qs : IsQuote(qs[c])

ASSUME CompaniesAssumption ==
    /\ \A m \in Markets0 : AreCompanies(m.filings, m.quotes)
    /\ Annuals \subseteq DOMAIN Figures
    /\ \A k \in DOMAIN Figures : \A v \in Figures[k] :
          IF k \in Annuals THEN v \in Amount ELSE Datum(k, v)
    /\ \A k \in DOMAIN Quotes : \A v \in Quotes[k] : Metric(k, v)
    /\ Profiles \subseteq {"defensive", "balanced", "aggressive"}
    /\ Strategies \subseteq {"balanced", "momentum", "defensive"}
    /\ PriceLimit \in Nat /\ Limit \in Nat

----------------------------------------------------------------------------
(* One of them at work *)

NoRequest == [profile |-> "balanced", strategy |-> "balanced"]
NoScan    == Screens!Screen(<<>>, <<>>, NoRequest)

NoCompanies ==
    /\ filings = <<>> /\ quotes = <<>> /\ changes = 0
    /\ request = NoRequest /\ outcome = NoScan
NoDocument  ==
    /\ kind = None /\ market = None /\ listing = <<>>
    /\ ciks = <<>> /\ facts = <<>> /\ accounts = <<>>
NoEvidence  == assessed = "us" /\ evidence = {} /\ steps = MaxSteps

RulesInit ==
    \/ Screens!Init /\ NoDocument /\ NoEvidence
    \/ Documents!Init /\ NoCompanies /\ NoEvidence
    \/ Regime!Init /\ NoCompanies /\ NoDocument

companies == <<filings, quotes, request, changes, outcome>>
documents == <<kind, market, listing, ciks, facts, accounts>>
readings  == <<assessed, evidence, steps>>

RulesNext ==
    \/ Screens!Next /\ UNCHANGED <<documents, readings>>
    \/ Documents!Next /\ UNCHANGED <<companies, readings>>
    \/ Regime!Next /\ UNCHANGED <<companies, documents>>

RulesSpec == RulesInit /\ [][RulesNext]_<<companies, documents, readings>>

----------------------------------------------------------------------------
(* The properties, under the names of their modules *)

\* A better report never costs a company the gate or its fundamental score
\* (Screening: FundamentalGate.evaluate).
BetterNeverLoses == Screens!BetterNeverLoses

\* An unknown valuation is neither good nor bad (Screening: _scores, _rank).
GapsAreNeutral == Screens!GapsAreNeutral

\* A listing accounts for every row and has each security once (Filings:
\* _fetch_with_client).
ListingIsWhole == Documents!ListingIsWhole

\* In whatever order they are listed, the entry filed last prevails, in one
\* currency (Filings: _sec_annual_values, _find_dart_account).
LatestFilingPrevails == Documents!LatestFilingPrevails

\* A worse reading allows no larger position (MarketRegime: evaluate).
WorseNeverLoosens == Regime!WorseNeverLoosens

\* Late news changes nothing (MarketRegime: _FactIndex).
LateNewsChangesNothing == Regime!LateNewsChangesNothing
=============================================================================
