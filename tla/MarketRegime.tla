---------------------------- MODULE MarketRegime ----------------------------
(***************************************************************************)
(* services/market_regime.py: the five axes of a market and the cap on     *)
(* every position, judged from the macro facts in force.  Facts come and   *)
(* go one at a time: a newer reading, a revision, a late or unreadable     *)
(* one, or the loss of a fact that turned out stale or of the future.      *)
(* Rates and prices are in hundredths of the code's units, caps in         *)
(* hundredths.                                                             *)
(***************************************************************************)
EXTENDS Integers, FiniteSets, FiniteSetsExt

CONSTANTS
    Signals,    \* the signals whose facts may change
    Readings,   \* Readings[s]: the values a new fact of signal s may have
    Calm,       \* Calm[s]: the reading of signal s at the beginning
    MaxTime,    \* bound: a fact is observed at a time in 1..MaxTime
    MaxSteps    \* bound: the changes of the facts in force

VARIABLES
    market,     \* the market that is assessed, "us" or "kr"
    facts,      \* the facts in force
    steps       \* changes so far
vars == <<market, facts, steps>>

-----------------------------------------------------------------------------
(* The newest fact of a signal, and what of it can be used.                *)

Newer_ByRevision(f, g) ==
    \/ f.revision > g.revision
    \/ f.revision = g.revision /\ f.observed >= g.observed

\* A later observation first; `revision' ranks the facts of one observation by their
\* publication, collection, revision and name.
Newer(f, g) ==
    \/ f.observed > g.observed
    \/ f.observed = g.observed /\ f.revision >= g.revision

Newest(F, s) ==
    LET of == {f \in F : f.signal = s}
    IN  {f \in of : \A g \in of : Newer(f, g)}

\* The newest fact alone counts: one in another unit, or whose value is no
\* finite number, hides the older ones.
Resolved(F, s) == {f \in Newest(F, s) : f.readable}
Known(F, S) == \A s \in S : Resolved(F, s) # {}
Any(S) == CHOOSE x \in S : TRUE
ValueOf(F, s) == Any(Resolved(F, s)).value
Reads(F, s, Test(_)) == Known(F, {s}) /\ Test(ValueOf(F, s))

-----------------------------------------------------------------------------
(* An axis: its state, and the stresses that lower the cap.                *)

Axis(state, flags) == [state |-> state, flags |-> flags]
Unknown == Axis("unknown", {})
Raised(flag, test) == IF test THEN {flag} ELSE {}
Judged(flags, good) ==
    Axis(CASE flags # {} -> "adverse"
           [] flags = {} /\ good -> "favorable"
           [] OTHER -> "neutral", flags)

RatesUS(F) ==
    LET ten == ValueOf(F, "treasury_10y")
        curve == IF Known(F, {"curve_10y2y"}) THEN ValueOf(F, "curve_10y2y")
                 ELSE ten - ValueOf(F, "treasury_2y")
        tenThree == ten - ValueOf(F, "treasury_3y")
        rise(Test(_)) == Reads(F, "treasury_10y_change", Test)
        flags == Raised("curve_inverted", curve <= 0 \/ tenThree <= 0)
                 \cup Raised("rates_stress",
                             ten >= 500 \/ rise(LAMBDA v : v >= 35))
    IN  IF Known(F, {"treasury_2y", "treasury_3y", "treasury_10y"})
        THEN Judged(flags, curve >= 50 /\ ~rise(LAMBDA v : v > 20))
        ELSE Unknown

RatesKR(F) ==
    LET base == ValueOf(F, "kr_base_rate")
        ten == ValueOf(F, "kr_treasury_10y")
        curve == ten - ValueOf(F, "kr_treasury_3y")
        flags == Raised("curve_inverted", curve <= 0)
                 \cup Raised("rates_stress", base >= 400 \/ ten >= 450)
    IN  IF Known(F, {"kr_base_rate", "kr_treasury_3y", "kr_treasury_10y"})
        THEN Judged(flags, curve >= 50) ELSE Unknown

Currency(F, m) ==
    LET dollar == ValueOf(F, "broad_dollar_change")
        won == ValueOf(F, "usdk_rw_change")
        stress == Raised("broad_dollar_stress", dollar >= 200)
        strong == stress \cup Raised("krw_stress",
                                     ValueOf(F, "usdk_rw_level") >= 145000 \/ won >= 200)
        needed == {"broad_dollar_level", "broad_dollar_change"}
                  \cup IF m = "kr" THEN {"usdk_rw_level", "usdk_rw_change"} ELSE {}
    IN  IF ~Known(F, needed) THEN Unknown
        ELSE IF m = "us" THEN Judged(stress, dollar <= -100)
        ELSE Judged(strong, dollar <= 0 /\ won <= -100)

Volatility_BandOnly(F) ==
    LET level == ValueOf(F, "vix_level")
        change == ValueOf(F, "vix_change")
        flags == Raised("vix_stress", level >= 2500 /\ level < 4000)
                 \cup Raised("vix_surge", change >= 3000)
    IN  IF Known(F, {"vix_level", "vix_change"})
        THEN Judged(flags, level <= 1800 /\ change <= 0) ELSE Unknown
Volatility(F) ==
    LET level == ValueOf(F, "vix_level")
        change == ValueOf(F, "vix_change")
        flags == Raised("vix_stress", level >= 2500)
                 \cup Raised("vix_crisis", level >= 4000)
                 \cup Raised("vix_surge", change >= 3000)
    IN  IF Known(F, {"vix_level", "vix_change"})
        THEN Judged(flags, level <= 1800 /\ change <= 0) ELSE Unknown

Magnitude(n) == IF n < 0 THEN -n ELSE n
Commodities(F) ==
    LET stressed(level, change) ==
            ValueOf(F, level) >= 10000 \/ ValueOf(F, change) >= 1500 \/ ValueOf(F, change) <= -2000
        stable(level, change) ==
            /\ 5000 <= ValueOf(F, level) /\ ValueOf(F, level) <= 9000
            /\ Magnitude(ValueOf(F, change)) <= 500
        flags == Raised("oil_stress", \/ stressed("wti_level", "wti_change")
                                      \/ stressed("brent_level", "brent_change"))
    IN  IF Known(F, {"wti_level", "wti_change", "brent_level", "brent_change"})
        THEN Judged(flags, stable("wti_level", "wti_change") /\ stable("brent_level", "brent_change"))
        ELSE Unknown

Liquidity(F) ==
    LET change == ValueOf(F, "bitcoin_change")
    IN  IF Known(F, {"bitcoin_level", "bitcoin_change"})
        THEN Judged(Raised("liquidity_stress", change <= -1500), change >= 1000)
        ELSE Unknown

\* MarketRegimeEvaluator.evaluate: the axes are judged apart from each other.
Axes == {"rates", "currency", "volatility", "commodities", "liquidity"}
Evaluate(F, m) == [x \in Axes |->
    CASE x = "rates" -> IF m = "kr" THEN RatesKR(F) ELSE RatesUS(F)
      [] x = "currency" -> Currency(F, m)
      [] x = "volatility" -> Volatility(F)
      [] x = "commodities" -> Commodities(F)
      [] x = "liquidity" -> Liquidity(F)]

UnknownAxes(axes) == {x \in Axes : axes[x].state = "unknown"}
FlagCap(flag) ==
    CASE flag \in {"curve_inverted", "rates_stress"} -> 65
      [] flag \in {"broad_dollar_stress", "oil_stress", "liquidity_stress"} -> 75
      [] flag \in {"krw_stress", "vix_stress", "vix_surge"} -> 50
      [] flag = "vix_crisis" -> 25
PositionCap(axes) ==
    LET missing == Cardinality(UnknownAxes(axes))
        gaps == CASE missing = 0 -> {} [] missing = 1 -> {50} [] OTHER -> {25}
        stresses == {FlagCap(f) : f \in UNION {axes[x].flags : x \in Axes}}
    IN  Min({100} \cup gaps \cup stresses)

-----------------------------------------------------------------------------
FactOf(s, t, r, v, ok) ==
    [signal |-> s, observed |-> t, revision |-> r, value |-> v, readable |-> ok]

Init ==
    /\ market \in {"us", "kr"}
    /\ facts = {FactOf(s, 1, 0, Calm[s], TRUE) : s \in DOMAIN Calm}
    /\ steps = 0

Step == steps < MaxSteps /\ steps' = steps + 1 /\ UNCHANGED market

\* A fact arrives: an observation of any age, in order or late, or the
\* revision of one; it may be in another unit or no number at all.
Arrive(s, t, r, v, ok) ==
    /\ Step
    /\ ~\E f \in facts : f.signal = s /\ f.observed = t /\ f.revision = r
    /\ facts' = facts \cup {FactOf(s, t, r, v, ok)}

\* A fact is no longer in force: it is stale, or later than the cutoff of
\* the research it is used for, so the pipeline keeps it from the evaluator.
Withdraw(f) ==
    /\ Step
    /\ facts' = facts \ {f}

\* Another reading of the same observation takes the place of a fact.
Replace(f, v) ==
    /\ Step
    /\ f.readable /\ v # f.value
    /\ facts' = (facts \ {f}) \cup {FactOf(f.signal, f.observed, f.revision, v, TRUE)}

Next ==
    \/ \E s \in Signals : \E t \in 1..MaxTime, r \in 0..1, v \in Readings[s], ok \in BOOLEAN :
          Arrive(s, t, r, v, ok)
    \/ \E f \in facts : f.signal \in Signals /\ Withdraw(f)
    \/ \E f \in facts : f.signal \in Signals /\ \E v \in Readings[f.signal] : Replace(f, v)

Spec == Init /\ [][Next]_vars

-----------------------------------------------------------------------------
Assessed == Evaluate(facts, market)
Cap == PositionCap(Assessed)

\* Signals of which more is worse, or less, whatever the others say.
MoreIsWorse == {"vix_level", "vix_change", "broad_dollar_change", "usdk_rw_level",
                "usdk_rw_change", "kr_base_rate", "treasury_10y_change"}
LessIsWorse == {"bitcoin_change", "curve_10y2y"}
Rank == [favorable |-> 3, neutral |-> 2, adverse |-> 1, unknown |-> 0]

\* A reading that gets worse never makes an axis look better and never
\* allows larger positions.
WorseNeverLoosens ==
    [][\A f \in facts \ facts', g \in facts' \ facts :
         (/\ Cardinality(facts) = Cardinality(facts')
          /\ f.signal = g.signal /\ f.observed = g.observed /\ f.revision = g.revision
          /\ \/ f.signal \in MoreIsWorse /\ g.value > f.value
             \/ f.signal \in LessIsWorse /\ g.value < f.value)
         => /\ Cap' <= Cap
            /\ \A x \in Axes : Rank[Assessed[x].state]' <= Rank[Assessed[x].state]]_vars

\* News that arrives late, older than what is already known of its signal,
\* changes nothing; the order in which facts arrive does not matter.
LateNewsChangesNothing ==
    [][\A g \in facts' \ facts :
         (\E f \in facts \cap facts' : f.signal = g.signal /\ f.observed > g.observed)
         => Assessed' = Assessed]_vars
=============================================================================
