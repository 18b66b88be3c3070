-------------------------- MODULE RiskGate_proofs --------------------------
(***************************************************************************)
(* Proofs about RiskGate for every policy and every set of inputs: the     *)
(* gates only tighten, no position is opened without the evidence it       *)
(* needs, what a position loses at its stop is bounded, and a worse        *)
(* situation sizes no larger a position.                                   *)
(***************************************************************************)
EXTENDS RiskGate, TLAPS

\* The fractions a cap is computed from are never negative.
IsFraction(f) == f.n \in Nat /\ f.d \in Nat \ {0} /\ f = Fraction(f.n, f.d)

LEMMA Products ==
    ASSUME NEW m \in Nat, NEW n \in Nat
    PROVE  m * n \in Nat /\ (m > 0 /\ n > 0 => m * n > 0)
    OBVIOUS

LEMMA FractionOf ==
    ASSUME NEW n \in Nat, NEW d \in Nat \ {0}
    PROVE  IsFraction(Fraction(n, d))
    BY DEF IsFraction, Fraction

LEMMA TimesIsFraction ==
    ASSUME NEW f, IsFraction(f), NEW n \in Nat, NEW d \in Nat \ {0}
    PROVE  IsFraction(Times(f, n, d))
<1>1. f.n * n \in Nat /\ f.d * d \in Nat \ {0}
    BY Products DEF IsFraction
<1> QED BY <1>1 DEF IsFraction, Times, Fraction

LEMMA AtMostIsFraction ==
    ASSUME NEW f, IsFraction(f), NEW bound \in Nat
    PROVE  IsFraction(AtMost(f, bound))
    BY FractionOf DEF AtMost

\* Rounding a fraction that is not negative gives a natural number.
LEMMA RoundedIsNat ==
    ASSUME NEW f, IsFraction(f)
    PROVE  Rounded(f) \in Nat
<1>1. 2 * f.n + f.d \in Nat /\ 2 * f.d \in Nat \ {0}
    BY DEF IsFraction
<1>2. \A a \in Nat, b \in Nat \ {0} : a \div b \in Nat
    OBVIOUS
<1> QED BY <1>1, <1>2 DEF Rounded

\* Multiplying a cap with a regime's multiplier never raises it.
LEMMA ReductionLowers ==
    ASSUME NEW cap \in Nat, NEW multiplier \in 0..100
    PROVE  /\ Rounded(Fraction(cap * multiplier, 100)) \in Nat
           /\ Rounded(Fraction(cap * multiplier, 100)) <= cap
<1> DEFINE x == cap * multiplier
<1>1. x \in Nat /\ x <= cap * 100
  <2>1. 100 - multiplier \in Nat
    OBVIOUS
  <2>2. cap * (100 - multiplier) \in Nat
    BY <2>1, Products
  <2>3. cap * (100 - multiplier) = cap * 100 - x
    OBVIOUS
  <2> QED BY <2>2, <2>3, Products
<1>2. Rounded(Fraction(x, 100)) = (2 * x + 100) \div 200
    BY DEF Rounded, Fraction
<1> HIDE DEF x
<1>3. (2 * x + 100) \div 200 \in Nat /\ (2 * x + 100) \div 200 <= cap
    BY <1>1
<1> QED BY <1>2, <1>3 DEF x

----------------------------------------------------------------------------
(* The arithmetic of fractions *)

LEMMA ScaledUp ==
    ASSUME NEW a \in Int, NEW b \in Int, NEW d \in Nat, a <= b
    PROVE  a * d <= b * d
<1>1. b - a \in Nat
    OBVIOUS
<1>2. (b - a) * d \in Nat
    BY <1>1, Products
<1>3. (b - a) * d = b * d - a * d
    OBVIOUS
<1> QED BY <1>2, <1>3

LEMMA ScaledDown ==
    ASSUME NEW a \in Int, NEW b \in Int, NEW d \in Nat \ {0}, a * d <= b * d
    PROVE  a <= b
<1>1. SUFFICES ASSUME b + 1 <= a
               PROVE  FALSE
    OBVIOUS
<1>2. (b + 1) * d <= a * d
    BY <1>1, ScaledUp
<1>3. (b + 1) * d = b * d + d
    OBVIOUS
<1> QED BY <1>2, <1>3

LEMMA ProductsOrdered ==
    ASSUME NEW a \in Nat, NEW b \in Nat, NEW c \in Nat, NEW d \in Nat, a <= b, c <= d
    PROVE  a * c <= b * d
<1>1. a * c <= b * c
    BY ScaledUp
<1>2. c * b <= d * b
    BY ScaledUp
<1> QED BY <1>1, <1>2

\* The quotient is the largest number that goes into a as often as b.
LEMMA Quotient ==
    ASSUME NEW a \in Nat, NEW b \in Nat \ {0}
    PROVE  /\ a \div b \in Nat /\ (a \div b) * b <= a
           /\ \A c \in Int : c * b <= a => c <= a \div b
<1>1. /\ a \div b \in Nat /\ (a \div b) * b <= a
      /\ a < (a \div b) * b + b
    OBVIOUS
<1> DEFINE q == a \div b
<1>2. ASSUME NEW c \in Int, c * b <= a
      PROVE  c <= q
  <2>1. q \in Nat /\ a < q * b + b
      BY <1>1
  <2> HIDE DEF q
  <2>2. SUFFICES ASSUME q + 1 <= c
                 PROVE  FALSE
      BY <2>1
  <2>3. (q + 1) * b <= c * b
      BY <2>1, <2>2, ScaledUp
  <2>4. (q + 1) * b = q * b + b
      BY <2>1
  <2> QED BY <1>2, <2>1, <2>3, <2>4
<1> QED BY <1>1, <1>2

\* The fraction f is at most p / q, and at most the fraction g.
Below(f, p, q) == f.n * q <= p * f.d
NoMore(f, g)   == Below(f, g.n, g.d)

LEMMA Transitive ==
    ASSUME NEW f, IsFraction(f), NEW g, IsFraction(g), NEW p \in Nat, NEW q \in Nat \ {0},
           NoMore(f, g), Below(g, p, q)
    PROVE  Below(f, p, q)
<1> DEFINE a == f.n  b == f.d  c == g.n  d == g.d
<1>1. a \in Nat /\ b \in Nat \ {0} /\ c \in Nat /\ d \in Nat \ {0}
    BY DEF IsFraction
<1>2. a * d <= c * b /\ c * q <= p * d
    BY DEF NoMore, Below
<1> HIDE DEF a, b, c, d
<1>3. /\ a * d \in Nat /\ c * b \in Nat /\ c * q \in Nat /\ p * d \in Nat
      /\ a * q \in Nat /\ p * b \in Nat
    BY <1>1, Products
<1>4. (a * d) * q <= (c * b) * q
    BY <1>2, <1>3, ScaledUp
<1>5. (c * q) * b <= (p * d) * b
    BY <1>1, <1>2, <1>3, ScaledUp
<1>6. (a * q) * d <= (p * b) * d
  <2>1. (a * q) * d = (a * d) * q /\ (c * b) * q = (c * q) * b /\ (p * d) * b = (p * b) * d
      BY <1>1
  <2> QED BY <1>1, <1>3, <1>4, <1>5, <2>1
<1>7. a * q <= p * b
    BY <1>1, <1>3, <1>6, ScaledDown
<1> QED BY <1>7 DEF Below, a, b

\* A cut of a smaller fraction by a smaller part.
LEMMA TimesOrdered ==
    ASSUME NEW f, IsFraction(f), NEW g, IsFraction(g), NoMore(f, g),
           NEW n \in Nat, NEW d \in Nat \ {0}, NEW m \in Nat, NEW e \in Nat \ {0},
           n * e <= m * d
    PROVE  NoMore(Times(f, n, d), Times(g, m, e))
<1> DEFINE a == f.n  b == f.d  u == g.n  v == g.d
<1>1. a \in Nat /\ b \in Nat /\ u \in Nat /\ v \in Nat
    BY DEF IsFraction
<1>2. a * v <= u * b
    BY DEF NoMore, Below
<1>3. Times(f, n, d).n = a * n /\ Times(f, n, d).d = b * d
      /\ Times(g, m, e).n = u * m /\ Times(g, m, e).d = v * e
    BY DEF Times
<1> HIDE DEF a, b, u, v
<1>4. a * v \in Nat /\ u * b \in Nat /\ n * e \in Nat /\ m * d \in Nat
    BY <1>1, Products
<1>5. (a * v) * (n * e) <= (u * b) * (m * d)
    BY <1>2, <1>4, ProductsOrdered
<1>6. (a * v) * (n * e) = (a * n) * (v * e) /\ (u * b) * (m * d) = (u * m) * (b * d)
    BY <1>1
<1> QED BY <1>3, <1>5, <1>6 DEF NoMore, Below

LEMMA NoMoreThanItself ==
    ASSUME NEW f, IsFraction(f)
    PROVE  NoMore(f, f) /\ Times(f, 1, 1) = f
<1>1. f.n \in Nat /\ f.d \in Nat /\ f = Fraction(f.n, f.d)
    BY DEF IsFraction
<1>2. f.n * f.d <= f.n * f.d /\ f.n * 1 = f.n /\ f.d * 1 = f.d
    BY <1>1
<1>3. Times(f, 1, 1) = Fraction(f.n, f.d)
    BY <1>2 DEF Times, Fraction
<1> QED BY <1>1, <1>2, <1>3 DEF NoMore, Below

\* A bound lowers a fraction, keeps the order, and holds.
LEMMA AtMostOrdered ==
    ASSUME NEW f, IsFraction(f), NEW bound \in Nat
    PROVE  /\ NoMore(AtMost(f, bound), f) /\ Below(AtMost(f, bound), bound, 1)
           /\ \A g : IsFraction(g) /\ NoMore(f, g)
                        => NoMore(AtMost(f, bound), AtMost(g, bound))
<1>1. f.n \in Nat /\ f.d \in Nat /\ bound * f.d \in Nat
    BY Products DEF IsFraction
<1>2. NoMore(AtMost(f, bound), f) /\ Below(AtMost(f, bound), bound, 1)
  <2>1. CASE f.n > bound * f.d
    <3>1. AtMost(f, bound) = Fraction(bound, 1)
        BY <2>1 DEF AtMost
    <3>2. Fraction(bound, 1).n = bound /\ Fraction(bound, 1).d = 1
        BY DEF Fraction
    <3>3. bound * f.d <= f.n * 1 /\ bound * 1 <= bound * 1
        BY <1>1, <2>1
    <3> QED BY <3>1, <3>2, <3>3 DEF NoMore, Below
  <2>2. CASE ~(f.n > bound * f.d)
    <3>1. AtMost(f, bound) = f
        BY <2>2 DEF AtMost
    <3>2. f.n * 1 <= bound * f.d
        BY <1>1, <2>2
    <3> QED BY <3>1, <3>2, NoMoreThanItself DEF Below
  <2> QED BY <2>1, <2>2
<1>3. ASSUME NEW g, IsFraction(g), NoMore(f, g)
      PROVE  NoMore(AtMost(f, bound), AtMost(g, bound))
  <2>1. IsFraction(AtMost(f, bound)) /\ g.n \in Nat /\ g.d \in Nat \ {0}
      BY <1>3, AtMostIsFraction DEF IsFraction
  <2>2. CASE g.n > bound * g.d
    <3>1. AtMost(g, bound) = Fraction(bound, 1)
        BY <2>2 DEF AtMost
    <3>2. Fraction(bound, 1).n = bound /\ Fraction(bound, 1).d = 1
        BY DEF Fraction
    <3> QED BY <1>2, <3>1, <3>2 DEF NoMore
  <2>3. CASE ~(g.n > bound * g.d)
    <3>1. AtMost(g, bound) = g
        BY <2>3 DEF AtMost
    <3>2. Below(f, g.n, g.d)
        BY <1>3 DEF NoMore
    <3>3. Below(AtMost(f, bound), g.n, g.d)
        BY <1>2, <2>1, <3>2, Transitive
    <3> QED BY <3>1, <3>3 DEF NoMore
  <2> QED BY <2>2, <2>3
<1> QED BY <1>2, <1>3

\* Rounding exceeds a fraction by no more than a half, and keeps the order.
LEMMA RoundedBelow ==
    ASSUME NEW f, IsFraction(f), NEW p \in Nat, NEW q \in Nat \ {0}, Below(f, p, q)
    PROVE  (2 * Rounded(f) - 1) * q <= 2 * p
<1> DEFINE n == f.n  d == f.d  c == Rounded(f)
<1>1. n \in Nat /\ d \in Nat \ {0} /\ n * q <= p * d
    BY DEF IsFraction, Below
<1>2. 2 * n + d \in Nat /\ 2 * d \in Nat \ {0}
    BY <1>1
<1>3. c \in Nat /\ c * (2 * d) <= 2 * n + d
    BY <1>2, Quotient DEF Rounded
<1> HIDE DEF n, d, c
<1>4. (2 * c - 1) * d <= 2 * n
  <2>1. (2 * c - 1) * d = c * (2 * d) - d
      BY <1>1, <1>3
  <2> QED BY <1>1, <1>3, <2>1
<1>5. ((2 * c - 1) * d) * q <= (2 * n) * q
    BY <1>1, <1>3, <1>4, ScaledUp
<1>6. ((2 * c - 1) * q) * d <= (2 * p) * d
  <2>1. ((2 * c - 1) * d) * q = ((2 * c - 1) * q) * d /\ (2 * n) * q = 2 * (n * q)
        /\ (2 * p) * d = 2 * (p * d)
      BY <1>1, <1>3
  <2>2. n * q \in Nat /\ p * d \in Nat
      BY <1>1, Products
  <2> DEFINE x == n * q  y == p * d  z == ((2 * c - 1) * q) * d
  <2>3. z <= 2 * x /\ (2 * p) * d = 2 * y
      BY <1>5, <2>1
  <2>4. x \in Nat /\ y \in Nat /\ x <= y /\ z \in Int
      BY <1>1, <1>3, <2>2
  <2> HIDE DEF x, y, z
  <2>5. z <= 2 * y
      BY <2>3, <2>4
  <2> QED BY <2>3, <2>5 DEF z
<1>7. (2 * c - 1) * q \in Int /\ 2 * p \in Int
    BY <1>3
<1>8. (2 * c - 1) * q <= 2 * p
    BY <1>1, <1>6, <1>7, ScaledDown
<1> QED BY <1>8 DEF c

LEMMA RoundedAtMost ==
    ASSUME NEW f, IsFraction(f), NEW bound \in Nat, Below(f, bound, 1)
    PROVE  Rounded(f) <= bound
<1> DEFINE c == Rounded(f)
<1>1. c \in Nat
    BY RoundedIsNat
<1>2. (2 * c - 1) * 1 <= 2 * bound
    BY RoundedBelow
<1> HIDE DEF c
<1>3. c <= bound
    BY <1>1, <1>2
<1> QED BY <1>3 DEF c

LEMMA RoundedOrdered ==
    ASSUME NEW f, IsFraction(f), NEW g, IsFraction(g), NoMore(f, g)
    PROVE  Rounded(f) <= Rounded(g)
<1> DEFINE c == Rounded(f)  n == g.n  d == g.d
<1>1. n \in Nat /\ d \in Nat \ {0} /\ c \in Nat
    BY RoundedIsNat DEF IsFraction
<1>2. (2 * c - 1) * d <= 2 * n
    BY <1>1, RoundedBelow DEF NoMore
<1>3. Rounded(g) = (2 * n + d) \div (2 * d)
    BY DEF Rounded
<1> HIDE DEF c, n, d
<1>4. c * (2 * d) = (2 * c - 1) * d + d
    BY <1>1
<1>5. c * (2 * d) <= 2 * n + d
    BY <1>1, <1>2, <1>4
<1>6. 2 * n + d \in Nat /\ 2 * d \in Nat \ {0}
    BY <1>1
<1>7. c <= (2 * n + d) \div (2 * d)
    BY <1>1, <1>5, <1>6, Quotient
<1> QED BY <1>3, <1>7 DEF c

----------------------------------------------------------------------------
(* The cuts of a position *)

LEMMA IndicatorTypes ==
    ASSUME NEW i \in Inputs
    PROVE  /\ i.close \in Nat \ {0} /\ i.confidence \in Int
           /\ i.atr \in Nat \cup {Unknown} /\ i.volatility \in Nat \cup {Unknown}
           /\ i.sma200 \in Nat \cup {Unknown} /\ i.rsi \in Nat \cup {Unknown}
           /\ i.multiplier \in (0..100) \cup {Unknown}
<1>1. /\ i.close \in Closes /\ i.confidence \in Confidences
      /\ i.atr \in ATRs /\ i.volatility \in Volatilities
      /\ i.sma200 \in Averages /\ i.rsi \in RSIs /\ i.multiplier \in Multipliers
    BY DEF Inputs
<1>2. /\ Confidences \subseteq Int /\ Closes \subseteq Nat \ {0}
      /\ ATRs \subseteq Nat \cup {Unknown} /\ Volatilities \subseteq Nat \cup {Unknown}
      /\ Averages \subseteq Nat \cup {Unknown} /\ RSIs \subseteq Nat \cup {Unknown}
      /\ Multipliers \subseteq (0..100) \cup {Unknown}
    BY RiskGateAssumption
<1> QED BY <1>1, <1>2

\* The cuts keep a fraction a fraction.
LEMMA CutsAreFractions ==
    ASSUME NEW i, NEW f, IsFraction(f)
    PROVE  /\ IsFraction(CutByVolatility(i, f)) /\ IsFraction(CutByTrend(i, f))
           /\ IsFraction(CutByHeat(i, f)) /\ IsFraction(CutByGaps(i, f))
<1>1. IsFraction(Times(f, 1, 2)) /\ IsFraction(Times(f, 3, 4))
    BY TimesIsFraction
<1>2. IsFraction(AtMost(f, GapCap))
    BY AtMostIsFraction, RiskGateAssumption
<1>3. IsFraction(CutByVolatility(i, f))
    BY <1>1, Zenon DEF CutByVolatility
<1>4. IsFraction(CutByTrend(i, f))
    BY <1>1, Zenon DEF CutByTrend
<1>5. IsFraction(CutByHeat(i, f))
    BY <1>1, Zenon DEF CutByHeat
<1>6. IsFraction(CutByGaps(i, f))
    BY <1>2, Zenon DEF CutByGaps
<1> QED BY <1>3, <1>4, <1>5, <1>6

\* With a positive ATR the entry lies above the stop and the risk is a fraction.
LEMMA EntryFacts ==
    ASSUME NEW i \in Inputs, i.atr \in Nat \ {0}, EntryLow(i) > 0
    PROVE  /\ Entry2(i) \in Nat \ {0} /\ Distance2(i) \in Nat \ {0}
           /\ Stop(i) \in Int /\ EntryLow(i) \in Int /\ EntryHigh(i) \in Int
           /\ Stop(i) < EntryLow(i) /\ EntryLow(i) <= EntryHigh(i)
           /\ RiskShare(i.confidence) \in 0..10 /\ RiskUnits(i.confidence) \in Nat
           /\ IsFraction(RiskBased(i))
<1>0. i.close \in Nat \ {0}
    BY IndicatorTypes
<1> DEFINE b == EntryBelow * i.atr  a == EntryAbove * i.atr  m == StopMultiple * i.atr
           c == 100 * i.close
<1>1. c \in Nat /\ a \in Nat /\ b \in Nat /\ m \in Nat \ {0}
    BY <1>0, Products, RiskGateAssumption
<1>2. EntryLow(i) = c - b /\ EntryHigh(i) = c + a /\ Stop(i) = c - b - m
    BY DEF EntryLow, EntryHigh, Stop
<1> HIDE DEF a, b, c, m
<1>3. /\ Entry2(i) \in Nat \ {0} /\ Distance2(i) \in Nat \ {0}
      /\ Stop(i) \in Int /\ EntryLow(i) \in Int /\ EntryHigh(i) \in Int
      /\ Stop(i) < EntryLow(i) /\ EntryLow(i) <= EntryHigh(i)
    BY <1>1, <1>2 DEF Entry2, Distance2
<1>4. RiskShare(i.confidence) \in 0..10
    BY DEF RiskShare
<1>5. RiskUnit \in Nat /\ RiskUnits(i.confidence) \in Nat
    BY <1>4, Products, RiskGateAssumption DEF RiskUnits
<1>6. /\ RiskUnit * RiskUnits(i.confidence) * Entry2(i) \in Nat
      /\ 100 * Distance2(i) \in Nat \ {0}
    BY <1>3, <1>5, Products
<1>7. IsFraction(RiskBased(i))
    BY <1>6, FractionOf DEF RiskBased
<1> QED BY <1>3, <1>4, <1>5, <1>7

LEMMA BudgetIsNat == Budget \in Nat
    BY Products, RiskGateAssumption DEF Budget

\* The position that risks all the units at the stop is never exceeded.
LEMMA RiskIsBounded ==
    ASSUME NEW i \in Inputs, i.atr \in Nat \ {0}, EntryLow(i) > 0
    PROVE  Below(RiskBased(i), Budget * Entry2(i), 10 * Distance2(i))
<1> DEFINE e == Entry2(i)  d == Distance2(i)  u == RiskShare(i.confidence)
           p == (Budget * e) * (10 * d)
<1>1. /\ e \in Nat /\ d \in Nat /\ u \in 0..10
      /\ RiskUnit \in Nat /\ MaxRiskUnits \in Nat /\ Budget \in Nat
    BY EntryFacts, BudgetIsNat, RiskGateAssumption
<1>2. RiskBased(i).n = RiskUnit * (MaxRiskUnits * u) * e /\ RiskBased(i).d = 100 * d
    BY DEF RiskBased, RiskUnits, Fraction
<1> HIDE DEF e, d, u
<1>3. p \in Nat
    BY <1>1, Products
<1>4. u * p <= 10 * p
  <2> HIDE DEF p
  <2> QED BY <1>1, <1>3, ScaledUp
<1>5. (RiskUnit * (MaxRiskUnits * u) * e) * (10 * d) = u * p
    BY <1>1 DEF Budget
<1>6. (Budget * e) * (100 * d) = 10 * p
    BY <1>1
<1> HIDE DEF p
<1> QED BY <1>2, <1>4, <1>5, <1>6 DEF Below, e, d

\* The cuts lower a fraction, and with gaps it is at most the cap for gaps.
LEMMA CutsLower ==
    ASSUME NEW i, NEW f, IsFraction(f)
    PROVE  /\ NoMore(CutByVolatility(i, f), f) /\ NoMore(CutByTrend(i, f), f)
           /\ NoMore(CutByHeat(i, f), f) /\ NoMore(CutByGaps(i, f), f)
           /\ HasGaps(i) => Below(CutByGaps(i, f), GapCap, 1)
<1>1. NoMore(f, f) /\ Times(f, 1, 1) = f
    BY NoMoreThanItself
<1>2. NoMore(Times(f, 1, 2), Times(f, 1, 1)) /\ NoMore(Times(f, 3, 4), Times(f, 1, 1))
    BY <1>1, TimesOrdered
<1>3. NoMore(Times(f, 1, 2), f) /\ NoMore(Times(f, 3, 4), f)
    BY <1>1, <1>2
<1>4. NoMore(AtMost(f, GapCap), f) /\ Below(AtMost(f, GapCap), GapCap, 1)
    BY AtMostOrdered, RiskGateAssumption
<1>5. NoMore(CutByVolatility(i, f), f)
    BY <1>1, <1>3, Zenon DEF CutByVolatility
<1>6. NoMore(CutByTrend(i, f), f)
    BY <1>1, <1>3, Zenon DEF CutByTrend
<1>7. NoMore(CutByHeat(i, f), f)
    BY <1>1, <1>3, Zenon DEF CutByHeat
<1>8. NoMore(CutByGaps(i, f), f) /\ (HasGaps(i) => Below(CutByGaps(i, f), GapCap, 1))
    BY <1>1, <1>4, Zenon DEF CutByGaps
<1> QED BY <1>5, <1>6, <1>7, <1>8

\* The input j is in no better situation than i; then every cut of j leaves no more.
WorseOff(j, i) ==
    /\ i.close = j.close /\ j.confidence <= i.confidence
    /\ i.atr <= j.atr /\ i.volatility <= j.volatility
    /\ i.sma200 # Unknown /\ i.close < i.sma200 => j.sma200 # Unknown /\ j.close < j.sma200
    /\ i.rsi # Unknown /\ i.rsi > 70 => j.rsi # Unknown /\ j.rsi > 70
    /\ HasGaps(i) => HasGaps(j)

LEMMA CutsOrdered ==
    ASSUME NEW i \in Inputs, NEW j \in Inputs, WorseOff(j, i),
           i.volatility \in Nat, j.volatility \in Nat,
           NEW f, IsFraction(f), NEW g, IsFraction(g), NoMore(f, g)
    PROVE  /\ NoMore(CutByVolatility(j, f), CutByVolatility(i, g))
           /\ NoMore(CutByTrend(j, f), CutByTrend(i, g))
           /\ NoMore(CutByHeat(j, f), CutByHeat(i, g))
           /\ NoMore(CutByGaps(j, f), CutByGaps(i, g))
<1>1. Times(f, 1, 1) = f /\ Times(g, 1, 1) = g
    BY NoMoreThanItself
<1>2. /\ NoMore(Times(f, 1, 2), Times(g, 1, 2)) /\ NoMore(Times(f, 1, 2), Times(g, 3, 4))
      /\ NoMore(Times(f, 1, 2), Times(g, 1, 1)) /\ NoMore(Times(f, 3, 4), Times(g, 3, 4))
      /\ NoMore(Times(f, 3, 4), Times(g, 1, 1))
    BY TimesOrdered
<1>3. /\ NoMore(Times(f, 1, 2), g) /\ NoMore(Times(f, 3, 4), g)
    BY <1>1, <1>2
<1>4. NoMore(CutByVolatility(j, f), CutByVolatility(i, g))
  <2>1. i.volatility >= High => j.volatility >= High
    BY RiskGateAssumption DEF WorseOff
  <2>2. i.volatility >= Elevated => j.volatility >= Elevated
    BY RiskGateAssumption DEF WorseOff
  <2> QED BY <1>2, <1>3, <2>1, <2>2, Zenon DEF CutByVolatility
<1>5. NoMore(CutByTrend(j, f), CutByTrend(i, g))
    BY <1>2, <1>3, Zenon DEF CutByTrend, WorseOff
<1>6. NoMore(CutByHeat(j, f), CutByHeat(i, g))
    BY <1>2, <1>3, Zenon DEF CutByHeat, WorseOff
<1>7. NoMore(CutByGaps(j, f), CutByGaps(i, g))
  <2>1. /\ NoMore(AtMost(f, GapCap), f) /\ NoMore(AtMost(f, GapCap), AtMost(g, GapCap))
        /\ IsFraction(AtMost(f, GapCap)) /\ g.n \in Nat /\ g.d \in Nat \ {0}
    BY AtMostOrdered, AtMostIsFraction, RiskGateAssumption DEF IsFraction
  <2>2. NoMore(AtMost(f, GapCap), g)
    BY <2>1, Transitive DEF NoMore
  <2> QED BY <2>1, <2>2, Zenon DEF CutByGaps, WorseOff
<1> QED BY <1>4, <1>5, <1>6, <1>7

\* The reference entry and its distance from the stop are linear in the ATR.
LEMMA LinearInATR ==
    ASSUME NEW i, i.close \in Nat, i.atr \in Nat
    PROVE  /\ Entry2(i) = 200 * i.close + (EntryAbove - EntryBelow) * i.atr
           /\ Distance2(i) = (EntryAbove + EntryBelow + 2 * StopMultiple) * i.atr
<1> DEFINE a == i.atr
           d == EntryBelow * a  u == EntryAbove * a  m == StopMultiple * a
           c == 100 * i.close
<1>1. EntryBelow \in Nat /\ EntryAbove \in Nat /\ StopMultiple \in Nat /\ a \in Nat
    BY RiskGateAssumption
<1>2. /\ (EntryAbove - EntryBelow) * a = u - d
      /\ (EntryAbove + EntryBelow + 2 * StopMultiple) * a = u + d + 2 * m
    BY <1>1
<1>3. d \in Nat /\ u \in Nat /\ m \in Nat /\ c \in Nat /\ 200 * i.close = 2 * c
    BY <1>1, Products
<1>4. EntryLow(i) = c - d /\ EntryHigh(i) = c + u /\ Stop(i) = c - d - m
    BY DEF EntryLow, EntryHigh, Stop
<1> HIDE DEF d, u, m, c
<1>5. Entry2(i) = 2 * c + (u - d) /\ Distance2(i) = u + d + 2 * m
    BY <1>3, <1>4 DEF Entry2, Distance2
<1> QED BY <1>2, <1>3, <1>5

\* Less confidence or a wider range of prices allows no larger position.
LEMMA RiskOrdered ==
    ASSUME NEW i \in Inputs, i.atr \in Nat \ {0}, EntryLow(i) > 0,
           NEW j \in Inputs, j.atr \in Nat \ {0}, EntryLow(j) > 0, WorseOff(j, i)
    PROVE  NoMore(RiskBased(j), RiskBased(i))
<1> DEFINE a == i.atr  b == j.atr  c == 200 * i.close
           x == EntryAbove - EntryBelow
           w == EntryAbove + EntryBelow + 2 * StopMultiple
           u == RiskUnits(i.confidence)  v == RiskUnits(j.confidence)
           k == Entry2(i)  l == Entry2(j)  m == Distance2(i)  n == Distance2(j)
<1>1. /\ i.close \in Nat /\ j.close = i.close
      /\ i.confidence \in Int /\ j.confidence \in Int
      /\ a \in Nat /\ b \in Nat /\ a <= b
    BY IndicatorTypes DEF WorseOff
<1>2. c \in Nat /\ x \in Int /\ w \in Nat /\ RiskUnit \in Nat
    BY <1>1, RiskGateAssumption
<1>3. k = c + x * a /\ l = c + x * b /\ m = w * a /\ n = w * b
    BY <1>1, LinearInATR
<1>4. k \in Nat /\ l \in Nat /\ m \in Nat /\ n \in Nat
    BY EntryFacts
<1>5. v <= u /\ u \in Nat /\ v \in Nat
  <2>1. j.confidence <= i.confidence
      BY DEF WorseOff
  <2>2. RiskShare(j.confidence) <= RiskShare(i.confidence)
      BY <1>1, <2>1, RiskGateAssumption DEF RiskShare
  <2>3. /\ RiskShare(i.confidence) \in Nat /\ RiskShare(j.confidence) \in Nat
        /\ MaxRiskUnits \in Nat
      BY EntryFacts, RiskGateAssumption
  <2>4. RiskShare(j.confidence) * MaxRiskUnits <= RiskShare(i.confidence) * MaxRiskUnits
      BY <2>2, <2>3, ScaledUp
  <2> QED BY <2>3, <2>4, EntryFacts DEF RiskUnits
<1> HIDE DEF a, b, c, x, w, u, v, k, l, m, n
<1>6. l * m <= k * n
  <2>1. (c * w) * a <= (c * w) * b
    <3>1. c * w \in Nat
        BY <1>2, Products
    <3>2. a * (c * w) <= b * (c * w)
        BY <1>1, <3>1, ScaledUp
    <3> QED BY <1>1, <3>1, <3>2
  <2>2. l * m = (c * w) * a + x * w * a * b
      BY <1>1, <1>2, <1>3
  <2>3. k * n = (c * w) * b + x * w * a * b
      BY <1>1, <1>2, <1>3
  <2> DEFINE p == (c * w) * a  q == (c * w) * b  r == x * w * a * b
  <2>4. p \in Int /\ q \in Int /\ r \in Int
      BY <1>1, <1>2
  <2> HIDE DEF p, q, r
  <2>5. p + r <= q + r
    <3>1. p <= q
        BY <2>1 DEF p, q
    <3> QED BY <2>4, <3>1
  <2> QED BY <2>2, <2>3, <2>5 DEF p, q, r
<1>7. v * (l * m) <= u * (k * n)
    BY <1>4, <1>5, <1>6, Products, ProductsOrdered
<1>8. (RiskUnit * v * l) * (100 * m) <= (RiskUnit * u * k) * (100 * n)
  <2> DEFINE p == v * (l * m)  q == u * (k * n)
  <2>1. p \in Nat /\ q \in Nat /\ p <= q /\ 100 * RiskUnit \in Nat
      BY <1>2, <1>4, <1>5, <1>7, Products
  <2>2. p * (100 * RiskUnit) <= q * (100 * RiskUnit)
      BY <2>1, ScaledUp
  <2>3. (RiskUnit * v * l) * (100 * m) = p * (100 * RiskUnit)
      BY <1>2, <1>4, <1>5
  <2>4. (RiskUnit * u * k) * (100 * n) = q * (100 * RiskUnit)
      BY <1>2, <1>4, <1>5
  <2> HIDE DEF p, q
  <2> QED BY <2>2, <2>3, <2>4
<1>9. /\ RiskBased(j).n = RiskUnit * v * l /\ RiskBased(j).d = 100 * n
      /\ RiskBased(i).n = RiskUnit * u * k /\ RiskBased(i).d = 100 * m
    BY DEF RiskBased, Fraction, u, v, k, l, m, n
<1> QED BY <1>8, <1>9 DEF NoMore, Below

\* The fraction that is rounded to the cap.
Cut1(i) == AtMost(RiskBased(i), MaxPosition)
Cut2(i) == CutByVolatility(i, Cut1(i))
Cut3(i) == CutByTrend(i, Cut2(i))
Cut4(i) == CutByHeat(i, Cut3(i))
Cut5(i) == CutByGaps(i, Cut4(i))

LEMMA CutFacts ==
    ASSUME NEW i \in Inputs, i.atr \in Nat \ {0}, EntryLow(i) > 0
    PROVE  /\ PositionCap(i) = Rounded(Cut5(i))
           /\ IsFraction(RiskBased(i)) /\ IsFraction(Cut1(i)) /\ IsFraction(Cut2(i))
           /\ IsFraction(Cut3(i)) /\ IsFraction(Cut4(i)) /\ IsFraction(Cut5(i))
<1>1. PositionCap(i) = Rounded(Cut5(i))
    BY DEF PositionCap, Cut1, Cut2, Cut3, Cut4, Cut5
<1>2. IsFraction(RiskBased(i))
    BY EntryFacts
<1>3. IsFraction(Cut1(i))
    BY <1>2, AtMostIsFraction, RiskGateAssumption DEF Cut1
<1>4. IsFraction(Cut2(i))
    BY <1>3, CutsAreFractions DEF Cut2
<1>5. IsFraction(Cut3(i))
    BY <1>4, CutsAreFractions DEF Cut3
<1>6. IsFraction(Cut4(i))
    BY <1>5, CutsAreFractions DEF Cut4
<1>7. IsFraction(Cut5(i))
    BY <1>6, CutsAreFractions DEF Cut5
<1> QED BY <1>1, <1>2, <1>3, <1>4, <1>5, <1>6, <1>7

\* The cap keeps to the policy and to the budget of risk.
LEMMA CapIsBounded ==
    ASSUME NEW i \in Inputs, i.atr \in Nat \ {0}, EntryLow(i) > 0
    PROVE  /\ PositionCap(i) <= MaxPosition /\ (HasGaps(i) => PositionCap(i) <= GapCap)
           /\ (2 * PositionCap(i) - 1) * (10 * Distance2(i)) <= 2 * (Budget * Entry2(i))
<1> DEFINE p == Budget * Entry2(i)  q == 10 * Distance2(i)
<1>1. /\ p \in Nat /\ q \in Nat \ {0} /\ 1 \in Nat \ {0}
      /\ MaxPosition \in Nat /\ GapCap \in Nat
    BY EntryFacts, BudgetIsNat, Products, RiskGateAssumption
<1>2. /\ PositionCap(i) = Rounded(Cut5(i)) /\ IsFraction(RiskBased(i))
      /\ IsFraction(Cut1(i)) /\ IsFraction(Cut2(i))
      /\ IsFraction(Cut3(i)) /\ IsFraction(Cut4(i)) /\ IsFraction(Cut5(i))
    BY CutFacts
<1>3. Below(RiskBased(i), p, q)
    BY RiskIsBounded
<1>4. NoMore(Cut1(i), RiskBased(i)) /\ Below(Cut1(i), MaxPosition, 1)
    BY <1>1, <1>2, AtMostOrdered DEF Cut1
<1>5. /\ NoMore(Cut2(i), Cut1(i)) /\ NoMore(Cut3(i), Cut2(i)) /\ NoMore(Cut4(i), Cut3(i))
      /\ NoMore(Cut5(i), Cut4(i)) /\ (HasGaps(i) => Below(Cut5(i), GapCap, 1))
    BY <1>2, CutsLower DEF Cut2, Cut3, Cut4, Cut5
<1>6. ASSUME NEW r \in Nat, NEW s \in Nat \ {0}, Below(Cut1(i), r, s)
      PROVE  Below(Cut5(i), r, s)
  <2>1. Below(Cut2(i), r, s)
      BY <1>2, <1>5, <1>6, Transitive
  <2>2. Below(Cut3(i), r, s)
      BY <1>2, <1>5, <2>1, Transitive
  <2>3. Below(Cut4(i), r, s)
      BY <1>2, <1>5, <2>2, Transitive
  <2> QED BY <1>2, <1>5, <2>3, Transitive
<1>7. Below(Cut5(i), MaxPosition, 1)
    BY <1>1, <1>4, <1>6
<1> HIDE DEF p, q
<1>8. Below(Cut5(i), p, q)
  <2>1. Below(Cut1(i), p, q)
      BY <1>1, <1>2, <1>3, <1>4, Transitive
  <2> QED BY <1>1, <1>6, <2>1
<1>9. PositionCap(i) <= MaxPosition /\ (HasGaps(i) => PositionCap(i) <= GapCap)
    BY <1>1, <1>2, <1>5, <1>7, RoundedAtMost
<1>10. (2 * PositionCap(i) - 1) * q <= 2 * p
    BY <1>1, <1>2, <1>8, RoundedBelow
<1> QED BY <1>9, <1>10 DEF p, q

\* In a worse situation the cap is no larger.
LEMMA CapOrdered ==
    ASSUME NEW i \in Inputs, i.atr \in Nat \ {0}, EntryLow(i) > 0, i.volatility \in Nat,
           NEW j \in Inputs, j.atr \in Nat \ {0}, EntryLow(j) > 0, j.volatility \in Nat,
           WorseOff(j, i)
    PROVE  PositionCap(j) <= PositionCap(i)
<1>1. /\ PositionCap(i) = Rounded(Cut5(i)) /\ IsFraction(RiskBased(i))
      /\ IsFraction(Cut1(i)) /\ IsFraction(Cut2(i))
      /\ IsFraction(Cut3(i)) /\ IsFraction(Cut4(i)) /\ IsFraction(Cut5(i))
    BY CutFacts
<1>2. /\ PositionCap(j) = Rounded(Cut5(j)) /\ IsFraction(RiskBased(j))
      /\ IsFraction(Cut1(j)) /\ IsFraction(Cut2(j))
      /\ IsFraction(Cut3(j)) /\ IsFraction(Cut4(j)) /\ IsFraction(Cut5(j))
    BY CutFacts
<1>3. NoMore(RiskBased(j), RiskBased(i))
    BY RiskOrdered
<1>4. NoMore(Cut1(j), Cut1(i))
    BY <1>1, <1>2, <1>3, AtMostOrdered, RiskGateAssumption DEF Cut1
<1>5. NoMore(Cut2(j), Cut2(i))
    BY <1>1, <1>2, <1>4, CutsOrdered DEF Cut2
<1>6. NoMore(Cut3(j), Cut3(i))
    BY <1>1, <1>2, <1>5, CutsOrdered DEF Cut3
<1>7. NoMore(Cut4(j), Cut4(i))
    BY <1>1, <1>2, <1>6, CutsOrdered DEF Cut4
<1>8. NoMore(Cut5(j), Cut5(i))
    BY <1>1, <1>2, <1>7, CutsOrdered DEF Cut5
<1> QED BY <1>1, <1>2, <1>8, RoundedOrdered

----------------------------------------------------------------------------
(* The assessment *)

SizedPlan(i) ==
    [action |-> "size_position", eligible |-> TRUE, cap |-> PositionCap(i),
     low |-> EntryLow(i), high |-> EntryHigh(i), stop |-> Stop(i), target |-> Target(i)]

\* A plan without prices, or one whose ATR, entry and stop are positive.
IsSized(i) ==
    /\ i.atr \in Nat \ {0} /\ i.volatility \in Nat
    /\ EntryLow(i) > 0 /\ Stop(i) > 0
    /\ AssessRisk(i) = SizedPlan(i)
IsBlocked(i) == \E action \in Actions : AssessRisk(i) = Blocked(action)

LEMMA Assessments ==
    ASSUME NEW i \in Inputs, ~Raises(i)
    PROVE  IsBlocked(i) \/ IsSized(i)
<1>0. /\ i.close \in Nat \ {0} /\ i.confidence \in Int
      /\ i.atr \in Nat \cup {Unknown} /\ i.volatility \in Nat \cup {Unknown}
    BY IndicatorTypes
<1> USE <1>0, RiskGateAssumption
<1>1. CASE \/ i.stance # "bullish" \/ i.confidence < MinimumConfidence
           \/ Unknown \in {i.atr, i.volatility}
           \/ i.volatility >= Maximum \/ EntryLow(i) <= 0 \/ Stop(i) <= 0
    BY <1>1 DEF AssessRisk, Actions, IsBlocked
<1>2. CASE ~(\/ i.stance # "bullish" \/ i.confidence < MinimumConfidence
             \/ Unknown \in {i.atr, i.volatility}
             \/ i.volatility >= Maximum \/ EntryLow(i) <= 0 \/ Stop(i) <= 0)
  <2>1. i.atr \in Nat \ {0} /\ i.volatility \in Nat
      BY <1>2 DEF Raises
  <2>2. EntryLow(i) \in Int /\ Stop(i) \in Int
    <3>1. EntryLow(i) \in Int
        BY <2>1, Products DEF EntryLow
    <3>2. StopMultiple * i.atr \in Int
        BY <2>1, Products
    <3> QED BY <3>1, <3>2 DEF Stop
  <2>3. EntryLow(i) > 0 /\ Stop(i) > 0
      BY <1>2, <2>2
  <2>4. AssessRisk(i) = SizedPlan(i)
      BY <1>2 DEF AssessRisk, SizedPlan
  <2> QED BY <2>1, <2>3, <2>4 DEF IsSized
<1> QED BY <1>1, <1>2

LEMMA BlockedFields ==
    ASSUME NEW action
    PROVE  Blocked(action).cap = 0 /\ ~Blocked(action).eligible
    BY DEF Blocked, NoPlan

LEMMA SizedFields ==
    ASSUME NEW i
    PROVE  /\ SizedPlan(i).cap = PositionCap(i) /\ SizedPlan(i).low = EntryLow(i)
           /\ SizedPlan(i).high = EntryHigh(i) /\ SizedPlan(i).stop = Stop(i)
           /\ SizedPlan(i).target = Target(i)
    BY DEF SizedPlan

\* A plan as the code builds one: its cap is not negative.
IsPlan(p) == p \in Plan /\ p.cap \in Nat

LEMMA BlockedIsPlan ==
    ASSUME NEW action \in Actions
    PROVE  IsPlan(Blocked(action))
<1>1. NoPlan \in Plan /\ NoPlan.cap = 0
    BY DEF NoPlan, Plan, Actions
<1>2. [NoPlan EXCEPT !.action = action] \in Plan
    BY <1>1 DEF Plan
<1>3. [NoPlan EXCEPT !.action = action].cap = 0
    BY <1>1 DEF Plan
<1> QED BY <1>2, <1>3 DEF IsPlan, Blocked

LEMMA AssessmentIsPlan ==
    ASSUME NEW i \in Inputs, ~Raises(i)
    PROVE  IsPlan(AssessRisk(i))
<1>1. CASE IsBlocked(i)
    BY <1>1, BlockedIsPlan DEF IsBlocked
<1>2. CASE IsSized(i)
  <2>1. i.atr \in Nat \ {0} /\ EntryLow(i) > 0 /\ AssessRisk(i) = SizedPlan(i)
      BY <1>2 DEF IsSized
  <2>2. /\ Entry2(i) \in Nat /\ Distance2(i) \in Nat
        /\ EntryLow(i) \in Int /\ EntryHigh(i) \in Int /\ Stop(i) \in Int
      BY <2>1, EntryFacts
  <2>3. Target(i) \in Int
    <3>1. Entry2(i) + RewardRisk * Distance2(i) \in Int
        BY <2>2, RiskGateAssumption
    <3> QED BY <3>1 DEF Target
  <2>4. PositionCap(i) \in Nat
      BY <2>1, CutFacts, RoundedIsNat
  <2>5. IsPlan(SizedPlan(i))
      BY <2>2, <2>3, <2>4 DEF IsPlan, Plan, Actions, SizedPlan
  <2> QED BY <2>1, <2>5
<1> QED BY <1>1, <1>2, Assessments

----------------------------------------------------------------------------
(* The gates *)

LEMMA BlockOpensNothing ==
    ASSUME NEW p, IsPlan(p)
    PROVE  /\ IsPlan(Block(p))
           /\ ~Block(p).eligible /\ Block(p).cap = 0 /\ Block(p).action # "size_position"
           /\ p.action = "avoid" => Block(p).action = "avoid"
<1>1. p \in Plan /\ p.action \in Actions
    BY DEF IsPlan, Plan
<1> DEFINE a == IF p.action = "size_position" THEN "watch" ELSE p.action
           q == [p EXCEPT !.eligible = FALSE, !.cap = 0, !.action = a]
<1>2. a \in Actions /\ a # "size_position" /\ (p.action = "avoid" => a = "avoid")
    BY <1>1 DEF Actions
<1>3. Block(p) = q
    BY DEF Block
<1> HIDE DEF a
<1>4. q \in [action : Actions, eligible : BOOLEAN, cap : Int,
            low : Int, high : Int, stop : Int, target : Int]
  <2>1. FALSE \in BOOLEAN /\ 0 \in Int /\ a \in Actions
      BY <1>2
  <2> QED BY <1>1, <2>1 DEF Plan
<1>5. q.cap = 0 /\ q.action = a
    BY <1>1 DEF Plan
<1>6. q.eligible = FALSE
    BY <1>1, Zenon DEF Plan
<1> QED BY <1>2, <1>3, <1>4, <1>5, <1>6 DEF IsPlan, Plan

LEMMA ReducedTightens ==
    ASSUME NEW p, IsPlan(p), NEW multiplier \in (0..100) \cup {Unknown}
    PROVE  /\ IsPlan(Reduced(p, multiplier)) /\ Reduced(p, multiplier).cap <= p.cap
           /\ Reduced(p, multiplier).eligible = p.eligible
           /\ Reduced(p, multiplier).action = p.action
<1> DEFINE cap == Rounded(Fraction(p.cap * multiplier, 100))
<1>1. CASE p.eligible /\ multiplier # Unknown
  <2>1. cap \in Nat /\ cap <= p.cap
      BY <1>1, ReductionLowers DEF IsPlan
  <2>2. Reduced(p, multiplier) = [p EXCEPT !.cap = cap]
      BY <1>1 DEF Reduced
  <2> HIDE DEF cap
  <2>3. /\ [p EXCEPT !.cap = cap] \in Plan /\ [p EXCEPT !.cap = cap].cap = cap
        /\ [p EXCEPT !.cap = cap].eligible = p.eligible
        /\ [p EXCEPT !.cap = cap].action = p.action
      BY <2>1 DEF IsPlan, Plan
  <2> QED BY <2>1, <2>2, <2>3 DEF IsPlan
<1>2. CASE ~(p.eligible /\ multiplier # Unknown)
  <2>1. Reduced(p, multiplier) = p
      BY <1>2 DEF Reduced
  <2> QED BY <2>1 DEF IsPlan
<1> QED BY <1>1, <1>2

\* What a plan may become in a gate.
Tightens(q, p) ==
    /\ IsPlan(q) /\ q.cap <= p.cap /\ (q.eligible => p.eligible)
    /\ p.action = "avoid" => q.action = "avoid"

LEMMA BlockTightens ==
    ASSUME NEW p, IsPlan(p)
    PROVE  Tightens(Block(p), p) /\ Tightens(p, p)
    BY BlockOpensNothing DEF Tightens, IsPlan

LEMMA ResearchGatesTighten ==
    ASSUME NEW i \in Inputs, NEW p, IsPlan(p)
    PROVE  Tightens(ResearchGates(i, p), p)
<1>1. i.multiplier \in (0..100) \cup {Unknown}
    BY IndicatorTypes
<1>2. Tightens(Reduced(p, i.multiplier), p)
    BY <1>1, ReducedTightens DEF Tightens
<1> QED BY <1>2, BlockTightens DEF ResearchGates

----------------------------------------------------------------------------
(* Type correctness *)

TypeInv == TypeOK /\ IsPlan(plan)

LEMMA TypeInvariant == Spec => []TypeInv
<1>1. Init => TypeInv
  <2> SUFFICES ASSUME Init PROVE TypeInv
      OBVIOUS
  <2>1. IsPlan(NoPlan) /\ NoDecision \in Decision
      BY DEF IsPlan, NoPlan, Plan, Actions, NoDecision, Decision, Recommendations
  <2> QED BY <2>1 DEF Init, TypeInv, TypeOK, IsPlan, Stages
<1>2. TypeInv /\ [Next]_vars => TypeInv'
  <2> SUFFICES ASSUME TypeInv, [Next]_vars PROVE TypeInv'
      OBVIOUS
  <2> USE DEF TypeInv
  <2>1. CASE Assess
    <3>1. IsPlan(plan')
        BY <2>1, AssessmentIsPlan DEF Assess, TypeOK
    <3>2. input' \in Inputs /\ stage' \in Stages /\ decision' \in Decision
        BY <2>1 DEF Assess, TypeOK, Stages
    <3> QED BY <3>1, <3>2 DEF TypeOK, IsPlan
  <2>2. CASE Gate
    <3>1. IsPlan(plan')
        BY <2>2, ResearchGatesTighten DEF Gate, TypeOK, Tightens
    <3>2. input' \in Inputs /\ stage' \in Stages /\ decision' \in Decision
        BY <2>2 DEF Gate, TypeOK, Stages
    <3> QED BY <3>1, <3>2 DEF TypeOK, IsPlan
  <2>3. CASE Check
    <3>1. IsPlan(plan')
        BY <2>3, BlockTightens DEF Check, Tightens
    <3>2. input' \in Inputs /\ stage' \in Stages /\ decision' \in Decision
        BY <2>3 DEF Check, TypeOK, Stages
    <3> QED BY <3>1, <3>2 DEF TypeOK, IsPlan
  <2>4. CASE Decide
    <3>1. Recommended(input.stance, plan) \in Recommendations
        BY DEF Recommended, Recommendations
    <3>2. Opens(plan) \in BOOLEAN
      <4>1. plan.eligible \in BOOLEAN
          BY DEF TypeOK, Plan
      <4> QED BY <4>1, Zenon DEF Opens
    <3>3. plan.cap \in Int
        BY DEF IsPlan
    <3>4. decision' \in Decision
        BY <2>4, <3>1, <3>2, <3>3 DEF Decide, Decision
    <3>5. input' = input /\ plan' = plan /\ stage' \in Stages
        BY <2>4 DEF Decide, Stages
    <3> QED BY <3>4, <3>5 DEF TypeOK
  <2>5. CASE UNCHANGED vars
      BY <2>5 DEF vars, TypeOK
  <2> QED BY <2>1, <2>2, <2>3, <2>4, <2>5 DEF Next
<1> QED BY <1>1, <1>2, PTL DEF Spec

\* The assessment and the gates always leave a well-formed plan, and the draft is well
\* formed.
THEOREM TypeCorrect == Spec => []TypeOK
    BY TypeInvariant, PTL DEF TypeInv

\* No gate raises a cap, allows what was blocked, or softens "avoid".
THEOREM GatesTighten == Spec => GatesOnlyTighten
<1> DEFINE Tighter == stage # "judged" =>
              /\ plan'.cap <= plan.cap
              /\ plan'.eligible => plan.eligible
              /\ plan.action = "avoid" => plan'.action = "avoid"
<1>1. TypeInv /\ [Next]_vars => [Tighter]_vars
  <2> SUFFICES ASSUME TypeInv, Next, stage # "judged"
               PROVE  Tightens(plan', plan)
      BY DEF Tightens
  <2> USE DEF TypeInv
  <2>1. CASE Assess
      BY <2>1 DEF Assess
  <2>2. CASE Gate
      BY <2>2, ResearchGatesTighten DEF Gate, TypeOK
  <2>3. CASE Check
      BY <2>3, BlockTightens DEF Check
  <2>4. CASE Decide
      BY <2>4, BlockTightens DEF Decide
  <2> QED BY <2>1, <2>2, <2>3, <2>4 DEF Next
<1> QED BY <1>1, TypeInvariant, PTL DEF Spec, GatesOnlyTighten

----------------------------------------------------------------------------
(* No position without evidence *)

Closed(p) == ~p.eligible /\ p.cap = 0 /\ p.action # "size_position"

\* Each step closes the plan for the evidence it looks at, and no later step reopens it.
EvidenceInv ==
    /\ stage \in {"assessed", "gated", "checked", "decided"}
       /\ Unknown \in {input.atr, input.volatility} => Closed(plan)
    /\ stage \in {"gated", "checked", "decided"} /\ input.quality = "ineligible"
          => Closed(plan)
    /\ stage \in {"checked", "decided"} /\ ~(input.fundamentals /\ input.news)
          => Closed(plan)
    /\ stage = "decided" /\ Closed(plan) =>
          /\ ~decision.eligible /\ decision.cap = 0
          /\ decision.recommendation # "conditional buy"

LEMMA BlockCloses ==
    ASSUME NEW p, IsPlan(p)
    PROVE  Closed(Block(p))
    BY BlockOpensNothing DEF Closed

LEMMA GatesKeepClosed ==
    ASSUME NEW i \in Inputs, NEW p, IsPlan(p), Closed(p)
    PROVE  Closed(ResearchGates(i, p))
<1>1. Reduced(p, i.multiplier) = p
    BY DEF Closed, Reduced
<1> QED BY <1>1, BlockCloses DEF ResearchGates

LEMMA NothingUnmeasured ==
    ASSUME NEW i \in Inputs, Unknown \in {i.atr, i.volatility}
    PROVE  Closed(AssessRisk(i))
<1>1. \A action \in {"avoid", "watch"} : Closed(Blocked(action))
    BY DEF Closed, Blocked, NoPlan
<1> QED BY <1>1 DEF AssessRisk

\* Whatever the chairman says: missing indicators, a research report that is not
\* eligible, missing statements or missing news keep the plan and the draft from
\* opening a position.
THEOREM EvidenceIsNeeded == Spec => []NoPositionWithoutEvidence
<1>1. Init => EvidenceInv
    BY DEF Init, EvidenceInv
<1>2. TypeInv /\ EvidenceInv /\ [Next]_vars => EvidenceInv'
  <2> SUFFICES ASSUME TypeInv, EvidenceInv, [Next]_vars PROVE EvidenceInv'
      OBVIOUS
  <2>0. IsPlan(plan) /\ input \in Inputs
      BY DEF TypeInv, TypeOK
  <2>1. CASE Assess
      BY <2>0, <2>1, NothingUnmeasured DEF Assess, EvidenceInv
  <2>2. CASE Gate
    <3>1. stage = "assessed" /\ stage' = "gated" /\ input' = input
          /\ plan' = ResearchGates(input, plan)
        BY <2>2 DEF Gate
    <3>2. input.quality = "ineligible" => Closed(plan')
        BY <2>0, <3>1, BlockCloses DEF ResearchGates
    <3>3. Closed(plan) => Closed(plan')
        BY <2>0, <3>1, GatesKeepClosed
    <3> QED BY <3>1, <3>2, <3>3 DEF EvidenceInv
  <2>3. CASE Check
    <3>1. stage = "gated" /\ stage' = "checked" /\ input' = input
        BY <2>3 DEF Check
    <3>2. ~(input.fundamentals /\ input.news) => Closed(plan')
        BY <2>0, <2>3, BlockCloses DEF Check
    <3>3. Closed(plan) => Closed(plan')
        BY <2>0, <2>3, BlockCloses DEF Check
    <3> QED BY <3>1, <3>2, <3>3 DEF EvidenceInv
  <2>4. CASE Decide
    <3>1. stage = "checked" /\ stage' = "decided" /\ input' = input /\ plan' = plan
        BY <2>4 DEF Decide
    <3>2. Closed(plan) =>
            /\ ~decision'.eligible /\ decision'.cap = 0
            /\ decision'.recommendation # "conditional buy"
        BY <2>4 DEF Decide, Recommended, Opens, Closed
    <3> QED BY <3>1, <3>2 DEF EvidenceInv
  <2>5. CASE UNCHANGED vars
      BY <2>5 DEF vars, EvidenceInv
  <2> QED BY <2>1, <2>2, <2>3, <2>4, <2>5 DEF Next
<1>3. EvidenceInv => NoPositionWithoutEvidence
    BY DEF EvidenceInv, NoPositionWithoutEvidence, Sufficient, Closed
<1> QED BY <1>1, <1>2, <1>3, TypeInvariant, PTL DEF Spec

----------------------------------------------------------------------------
(* The loss is bounded *)

\* The target pays for the risk that the stop leaves, despite its rounding.
LEMMA TargetPays ==
    ASSUME NEW i \in Inputs, Entry2(i) \in Nat, Stop(i) \in Int
    PROVE  Target(i) - Entry2(i) \div 2 >= RewardRisk * (Entry2(i) \div 2 - Stop(i))
<1> DEFINE e == Entry2(i)  s == Stop(i)  t == Target(i)  q == e \div 2  r == e - 2 * q
           g == RewardRisk * (q - s)
<1>1. e \in Nat /\ s \in Int /\ RewardRisk \in Nat
    BY RiskGateAssumption
<1>2. t = (e + RewardRisk * (e - 2 * s)) \div 2
    BY DEF Target, Distance2
<1> HIDE DEF e, s, t
<1>3. q \in Nat /\ r \in {0, 1} /\ e = 2 * q + r
    BY <1>1
<1> HIDE DEF q, r
<1>4. RewardRisk * (e - 2 * s) = 2 * g + RewardRisk * r /\ g \in Int
  <2>1. RewardRisk * (e - 2 * s) = RewardRisk * (2 * (q - s) + r)
      BY <1>1, <1>3
  <2>2. RewardRisk * (2 * (q - s) + r) = 2 * (RewardRisk * (q - s)) + RewardRisk * r
      BY <1>1, <1>3
  <2>3. RewardRisk * (q - s) \in Int
      BY <1>1, <1>3
  <2> QED BY <2>1, <2>2, <2>3
<1> HIDE DEF g
<1>5. RewardRisk * r \in Nat
    BY <1>1, <1>3, Products
<1> DEFINE k == r + RewardRisk * r
<1>6. t = (2 * (q + g) + k) \div 2 /\ k \in Nat
    BY <1>1, <1>2, <1>3, <1>4, <1>5
<1> HIDE DEF k
<1>7. t - q >= g
    BY <1>3, <1>4, <1>6
<1> QED BY <1>7 DEF e, s, t, q, g

\* LossIsBounded for a plan of the input, with the facts its arithmetic needs.
Bounded(i, p) ==
    /\ p.cap <= MaxPosition
    /\ HasGaps(i) => p.cap <= GapCap
    /\ p.eligible =>
          /\ Distance2(i) \in Nat /\ Entry2(i) \in Nat
          /\ 0 < p.stop /\ p.stop < p.low /\ p.low <= p.high
          /\ (2 * p.cap - 1) * (10 * Distance2(i)) <= 2 * (Budget * Entry2(i))
          /\ p.target - Entry2(i) \div 2 >= RewardRisk * (Entry2(i) \div 2 - p.stop)

LEMMA AssessmentIsBounded ==
    ASSUME NEW i \in Inputs, ~Raises(i)
    PROVE  Bounded(i, AssessRisk(i))
<1>1. CASE IsBlocked(i)
    BY <1>1, BlockedFields, RiskGateAssumption DEF IsBlocked, Bounded
<1>2. CASE IsSized(i)
  <2>1. /\ i.atr \in Nat \ {0} /\ EntryLow(i) > 0 /\ Stop(i) > 0
        /\ AssessRisk(i) = SizedPlan(i)
      BY <1>2 DEF IsSized
  <2>2. /\ Entry2(i) \in Nat /\ Distance2(i) \in Nat
        /\ Stop(i) \in Int /\ Stop(i) < EntryLow(i) /\ EntryLow(i) <= EntryHigh(i)
      BY <2>1, EntryFacts
  <2>3. /\ PositionCap(i) <= MaxPosition /\ (HasGaps(i) => PositionCap(i) <= GapCap)
        /\ (2 * PositionCap(i) - 1) * (10 * Distance2(i)) <= 2 * (Budget * Entry2(i))
      BY <2>1, CapIsBounded
  <2>4. Target(i) - Entry2(i) \div 2 >= RewardRisk * (Entry2(i) \div 2 - Stop(i))
      BY <2>2, TargetPays
  <2>5. 0 < Stop(i)
      BY <2>1, <2>2
  <2>6. Bounded(i, SizedPlan(i))
      BY <2>2, <2>3, <2>4, <2>5, SizedFields, Zenon DEF Bounded
  <2> QED BY <2>1, <2>6
<1> QED BY <1>1, <1>2, Assessments

\* The plan q has the prices of p; at most its cap is lower and it is blocked.
Lowers(q, p) ==
    /\ q.cap <= p.cap /\ (q.eligible => p.eligible)
    /\ q.low = p.low /\ q.high = p.high /\ q.stop = p.stop /\ q.target = p.target

LEMMA LoweredIsBounded ==
    ASSUME NEW i, NEW p, IsPlan(p), NEW q, IsPlan(q), Lowers(q, p), Bounded(i, p)
    PROVE  Bounded(i, q)
<1>1. p.cap \in Nat /\ q.cap \in Nat /\ q.cap <= p.cap
    BY DEF IsPlan, Lowers
<1>2. MaxPosition \in Nat /\ GapCap \in Nat /\ Budget \in Nat
    BY BudgetIsNat, RiskGateAssumption
<1>3. q.cap <= MaxPosition /\ (HasGaps(i) => q.cap <= GapCap)
    BY <1>1, <1>2 DEF Bounded
<1>4. ASSUME q.eligible
      PROVE  (2 * q.cap - 1) * (10 * Distance2(i)) <= 2 * (Budget * Entry2(i))
  <2> DEFINE d == 10 * Distance2(i)  b == Budget * Entry2(i)
             m == 2 * p.cap - 1  n == 2 * q.cap - 1
  <2>1. d \in Nat /\ Entry2(i) \in Nat /\ m * d <= 2 * b
      BY <1>4 DEF Bounded, Lowers
  <2>2. b \in Nat /\ m \in Int /\ n \in Int /\ n <= m
      BY <1>1, <1>2, <2>1, Products
  <2> HIDE DEF d, b, m, n
  <2>3. n * d <= m * d /\ n * d \in Int /\ m * d \in Int
      BY <2>1, <2>2, ScaledUp
  <2>4. n * d <= 2 * b
    <3> DEFINE x == n * d  y == m * d
    <3>1. x <= y /\ y <= 2 * b /\ x \in Int /\ y \in Int
        BY <2>1, <2>3
    <3> HIDE DEF x, y
    <3>2. x <= 2 * b
        BY <2>2, <3>1
    <3> QED BY <3>2 DEF x
  <2> QED BY <2>4 DEF d, b, n
<1> QED BY <1>3, <1>4 DEF Bounded, Lowers

LEMMA BlockLowers ==
    ASSUME NEW p, IsPlan(p)
    PROVE  Lowers(Block(p), p) /\ Lowers(p, p)
<1>1. Block(p).cap <= p.cap /\ ~Block(p).eligible
    BY BlockOpensNothing DEF IsPlan
<1>2. /\ Block(p).low = p.low /\ Block(p).high = p.high
      /\ Block(p).stop = p.stop /\ Block(p).target = p.target
    BY DEF Block, IsPlan, Plan
<1>3. p.cap <= p.cap
    BY DEF IsPlan
<1> QED BY <1>1, <1>2, <1>3 DEF Lowers

LEMMA ResearchGatesLower ==
    ASSUME NEW i \in Inputs, NEW p, IsPlan(p)
    PROVE  Lowers(ResearchGates(i, p), p)
<1>1. i.multiplier \in (0..100) \cup {Unknown}
    BY IndicatorTypes
<1>2. /\ Reduced(p, i.multiplier).cap <= p.cap
      /\ Reduced(p, i.multiplier).eligible = p.eligible
    BY <1>1, ReducedTightens
<1>3. /\ Reduced(p, i.multiplier).low = p.low /\ Reduced(p, i.multiplier).high = p.high
      /\ Reduced(p, i.multiplier).stop = p.stop
      /\ Reduced(p, i.multiplier).target = p.target
    BY DEF Reduced, IsPlan, Plan
<1>4. Lowers(Reduced(p, i.multiplier), p)
    BY <1>2, <1>3 DEF Lowers
<1> QED BY <1>4, BlockLowers DEF ResearchGates

\* A position that falls to the stop loses no more than the risk units that the policy
\* allows, its target pays for that risk, and its cap keeps to the policy, at every stage
\* of the gates.
THEOREM LossStaysBounded == Spec => []LossIsBounded
<1> DEFINE LossInv == Bounded(input, plan)
<1>1. Init => LossInv
  <2>1. NoPlan.cap = 0 /\ ~NoPlan.eligible
      BY DEF NoPlan
  <2> QED BY <2>1, RiskGateAssumption DEF Init, Bounded
<1>2. TypeInv /\ TypeInv' /\ LossInv /\ [Next]_vars => LossInv'
  <2> SUFFICES ASSUME TypeInv, TypeInv', LossInv, [Next]_vars
               PROVE  Bounded(input', plan')
      OBVIOUS
  <2>1. IsPlan(plan) /\ IsPlan(plan') /\ input \in Inputs
      BY DEF TypeInv, TypeOK
  <2>2. CASE Assess
      BY <2>1, <2>2, AssessmentIsBounded DEF Assess
  <2>3. CASE Gate
    <3>1. Lowers(plan', plan) /\ input' = input
        BY <2>1, <2>3, ResearchGatesLower DEF Gate
    <3> QED BY <2>1, <3>1, LoweredIsBounded
  <2>4. CASE Check
    <3>1. Lowers(plan', plan) /\ input' = input
        BY <2>1, <2>4, BlockLowers DEF Check
    <3> QED BY <2>1, <3>1, LoweredIsBounded
  <2>5. CASE Decide
      BY <2>5 DEF Decide
  <2>6. CASE UNCHANGED vars
      BY <2>6 DEF vars
  <2> QED BY <2>2, <2>3, <2>4, <2>5, <2>6 DEF Next
<1>3. LossInv => LossIsBounded
  <2> SUFFICES ASSUME Bounded(input, plan) PROVE LossIsBounded
      OBVIOUS
  <2> QED BY DEF Bounded, LossIsBounded
<1> QED BY <1>1, <1>2, <1>3, TypeInvariant, PTL DEF Spec

----------------------------------------------------------------------------
(* A worse situation sizes no larger *)

LEMMA WorseIsWorseOff ==
    ASSUME NEW i \in Inputs, i.atr \in Nat, i.volatility \in Nat, NEW j \in Worse(i)
    PROVE  /\ j \in Inputs /\ WorseOff(j, i)
           /\ j.atr \in Nat /\ j.volatility \in Nat
<1>0. /\ i.close \in Nat \ {0} /\ i.confidence \in Int
      /\ i.sma200 \in Nat \cup {Unknown} /\ i.rsi \in Nat \cup {Unknown}
      /\ Confidences \subseteq Int
      /\ ATRs \subseteq Nat \cup {Unknown} /\ Volatilities \subseteq Nat \cup {Unknown}
      /\ Averages \subseteq Nat \cup {Unknown} /\ RSIs \subseteq Nat \cup {Unknown}
      /\ Unknown \notin Int
    BY IndicatorTypes, RiskGateAssumption
<1>1. CASE \E c \in Confidences : c <= i.confidence /\ j = [i EXCEPT !.confidence = c]
    BY <1>0, <1>1 DEF Inputs, WorseOff, HasGaps
<1>2. CASE \E v \in Volatilities \ {Unknown} :
              v >= i.volatility /\ j = [i EXCEPT !.volatility = v]
    BY <1>0, <1>2 DEF Inputs, WorseOff, HasGaps
<1>3. CASE \E a \in ATRs \ {Unknown} : a >= i.atr /\ j = [i EXCEPT !.atr = a]
    BY <1>0, <1>3 DEF Inputs, WorseOff, HasGaps
<1>4. CASE \E a \in Averages : /\ i.sma200 # Unknown /\ a # Unknown /\ a >= i.sma200
                               /\ j = [i EXCEPT !.sma200 = a]
    BY <1>0, <1>4 DEF Inputs, WorseOff, HasGaps
<1>5. CASE \E r \in RSIs : /\ i.rsi # Unknown /\ r # Unknown /\ r >= i.rsi
                           /\ j = [i EXCEPT !.rsi = r]
    BY <1>0, <1>5 DEF Inputs, WorseOff, HasGaps
<1>6. CASE j = [i EXCEPT !.gaps = TRUE]
  <2>1. j \in Inputs
      BY <1>6, Zenon DEF Inputs
  <2>2. j.gaps
    <3>1. j.gaps = TRUE
        BY <1>6, Zenon DEF Inputs
    <3> QED BY <3>1
  <2>3. /\ j.close = i.close /\ j.confidence = i.confidence /\ j.atr = i.atr
        /\ j.volatility = i.volatility /\ j.sma200 = i.sma200 /\ j.rsi = i.rsi
      BY <1>6 DEF Inputs
  <2>4. HasGaps(j)
      BY <2>2, Zenon DEF HasGaps
  <2> QED BY <1>0, <2>1, <2>3, <2>4 DEF WorseOff
<1> QED BY <1>1, <1>2, <1>3, <1>4, <1>5, <1>6 DEF Worse

\* Until the gates run, the plan is the assessment of the input.
SizeInv == stage = "assessed" => ~Raises(input) /\ plan = AssessRisk(input)

\* Less confidence, more volatility, a wider range of prices, a weaker trend, an
\* overheated price or a gap never makes the assessed position larger.
THEOREM WorseIsNoLarger == Spec => []NoLargerWhenWorse
<1>1. Init => SizeInv
    BY DEF Init, SizeInv
<1>2. SizeInv /\ [Next]_vars => SizeInv'
  <2> SUFFICES ASSUME SizeInv, [Next]_vars PROVE SizeInv'
      OBVIOUS
  <2>1. CASE Assess
    <3>1. /\ input' = input
          /\ stage' = "assessed" => ~Raises(input) /\ plan' = AssessRisk(input)
        BY <2>1 DEF Assess
    <3> QED BY <3>1 DEF SizeInv
  <2>2. CASE Gate \/ Check \/ Decide
      BY <2>2 DEF Gate, Check, Decide, SizeInv
  <2>3. CASE UNCHANGED vars
      BY <2>3 DEF vars, SizeInv
  <2> QED BY <2>1, <2>2, <2>3 DEF Next
<1>3. TypeInv /\ SizeInv => NoLargerWhenWorse
  <2> SUFFICES ASSUME TypeInv, SizeInv, stage = "assessed", plan.eligible,
                      NEW j \in Worse(input), ~Raises(j)
               PROVE  AssessRisk(j).cap <= plan.cap
      BY DEF NoLargerWhenWorse
  <2>1. input \in Inputs /\ plan = AssessRisk(input) /\ ~Raises(input) /\ plan.cap \in Nat
      BY DEF TypeInv, TypeOK, SizeInv, IsPlan
  <2>2. ~IsBlocked(input)
      BY <2>1, BlockedFields DEF IsBlocked
  <2>3. IsSized(input)
      BY <2>1, <2>2, Assessments
  <2>4. /\ input.atr \in Nat \ {0} /\ input.volatility \in Nat
        /\ EntryLow(input) > 0 /\ plan = SizedPlan(input)
      BY <2>1, <2>3 DEF IsSized
  <2>5. j \in Inputs /\ WorseOff(j, input)
      BY <2>1, <2>4, WorseIsWorseOff
  <2>6. CASE IsBlocked(j)
      BY <2>1, <2>6, BlockedFields DEF IsBlocked
  <2>7. CASE IsSized(j)
    <3>1. /\ j.atr \in Nat \ {0} /\ j.volatility \in Nat
          /\ EntryLow(j) > 0 /\ AssessRisk(j) = SizedPlan(j)
        BY <2>7 DEF IsSized
    <3>2. PositionCap(j) <= PositionCap(input)
        BY <2>1, <2>4, <2>5, <3>1, CapOrdered
    <3> QED BY <2>4, <3>1, <3>2, SizedFields
  <2> QED BY <2>5, <2>6, <2>7, Assessments
<1> QED BY <1>1, <1>2, <1>3, TypeInvariant, PTL DEF Spec

=============================================================================
