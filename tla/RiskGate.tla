------------------------------ MODULE RiskGate ------------------------------
(***************************************************************************)
(* From the chairman's verdict to the draft a human reviews: assess_risk   *)
(* of services/risk.py, then the gates and the decision at the end of      *)
(* _run_analysis_once in services/orchestrator.py.                         *)
(*                                                                         *)
(* The code runs these four steps one after the other without suspending.  *)
(* Texts (warnings, gaps) are kept only as whether there are gaps.         *)
(* Numbers are integers: a position in hundredths of a percent of the      *)
(* portfolio, a price or ATR in whole units, a price of the plan in        *)
(* hundredths of a unit, an ATR multiple, a confidence or the multiplier   *)
(* of a market regime in hundredths.  The code's rounding to six decimals  *)
(* is rounding to the nearest hundredth of a percent here.                 *)
(***************************************************************************)
EXTENDS Integers, FiniteSets

CONSTANTS
    Unknown,    \* an indicator or a report that is missing
    Confidences, Closes, ATRs, Volatilities, Averages, RSIs, Qualities, Multipliers,
    RiskUnit, MaxPosition, GapCap,                        \* hundredths of a percent
    MaxRiskUnits,                                         \* tenths of a unit
    MinimumConfidence, MediumConfidence, FullConfidence,  \* hundredths
    EntryBelow, EntryAbove, StopMultiple,                 \* hundredths of an ATR
    RewardRisk,
    Elevated, High, Maximum                               \* volatility, percent

\* RiskPolicy.validate_policy_relationships and the ranges of the fields.
ASSUME RiskGateAssumption ==
    /\ Confidences \subseteq 0..100 /\ Closes \subseteq Nat \ {0}
    /\ ATRs \cup Volatilities \cup Averages \cup RSIs \subseteq Nat \cup {Unknown}
    /\ Qualities \subseteq {"eligible", "ineligible", Unknown}
    /\ Multipliers \subseteq (0..100) \cup {Unknown}
    /\ Unknown \notin Int \cup {"eligible", "ineligible"}
    /\ {RiskUnit, StopMultiple, RewardRisk} \subseteq Nat \ {0}
    /\ MaxRiskUnits \in 1..100
    /\ {EntryBelow, EntryAbove, MaxPosition, GapCap} \subseteq Nat
    /\ GapCap <= MaxPosition
    /\ {MinimumConfidence, MediumConfidence, FullConfidence} \subseteq 0..100
    /\ MinimumConfidence <= MediumConfidence /\ MediumConfidence <= FullConfidence
    /\ {Elevated, High, Maximum} \subseteq Nat
    /\ Elevated < High /\ High < Maximum

Stances == {"bullish", "neutral", "bearish"}
Actions == {"size_position", "watch", "avoid"}

\* What is known once the chairman has answered.
Inputs == [stance : Stances, confidence : Confidences,
           sameTicker : BOOLEAN,      \* the chairman answered about this ticker
           gaps : BOOLEAN,            \* an agent names a data gap of its own
           close : Closes, atr : ATRs, volatility : Volatilities,
           sma200 : Averages, rsi : RSIs,
           quality : Qualities, multiplier : Multipliers,
           fundamentals : BOOLEAN, news : BOOLEAN]

VARIABLES
    input,     \* the chairman's verdict and the market data
    stage,     \* how far the code has come
    plan,      \* the risk assessment as the gates leave it
    decision   \* the draft

vars == <<input, stage, plan, decision>>

Stages == {"judged", "assessed", "gated", "checked", "decided", "raised"}
Recommendations == {"conditional buy", "hold and watch", "avoid"}

\* "low", "high", "stop" and "target" are 0 in a plan without prices.
Plan == [action : Actions, eligible : BOOLEAN, cap : Int,
         low : Int, high : Int, stop : Int, target : Int]
NoPlan == [action |-> "avoid", eligible |-> FALSE, cap |-> 0,
           low |-> 0, high |-> 0, stop |-> 0, target |-> 0]
Decision == [recommendation : Recommendations, eligible : BOOLEAN, cap : Int]
NoDecision == [recommendation |-> "avoid", eligible |-> FALSE, cap |-> 0]

TypeOK ==
    /\ input \in Inputs /\ stage \in Stages
    /\ plan \in Plan /\ decision \in Decision

----------------------------------------------------------------------------
(* assess_risk: a positive fraction of the portfolio, cut step by step *)

Fraction(n, d)   == [n |-> n, d |-> d]
Times(f, n, d)   == [n |-> f.n * n, d |-> f.d * d]
AtMost(f, bound) == IF f.n > bound * f.d THEN Fraction(bound, 1) ELSE f
Rounded(f)       == (2 * f.n + f.d) \div (2 * f.d)

EntryLow(i)  == 100 * i.close - EntryBelow * i.atr
EntryHigh(i) == 100 * i.close + EntryAbove * i.atr
Stop(i)      == EntryLow(i) - StopMultiple * i.atr

\* Twice the reference entry, and twice its distance from the stop.
Entry2(i)    == EntryLow(i) + EntryHigh(i)
Distance2(i) == Entry2(i) - 2 * Stop(i)
Target(i)    == (Entry2(i) + RewardRisk * Distance2(i)) \div 2

\* _risk_units: the share of the units allowed, in tenths, and the units that it makes,
\* in hundredths.
RiskShare(confidence) ==
    IF confidence >= FullConfidence THEN 10
    ELSE IF confidence >= MediumConfidence THEN 7 ELSE 4

RiskUnits(confidence) == MaxRiskUnits * RiskShare(confidence)

\* The position that loses these units when the price falls to the stop.
RiskBased(i) == Fraction(RiskUnit * RiskUnits(i.confidence) * Entry2(i), 100 * Distance2(i))

\* Variant: the two cuts are swapped.
CutByVolatility_Swapped(i, f) ==
    IF i.volatility >= High THEN Times(f, 3, 4)
    ELSE IF i.volatility >= Elevated THEN Times(f, 1, 2) ELSE f

CutByVolatility(i, f) ==
    IF i.volatility >= High THEN Times(f, 1, 2)
    ELSE IF i.volatility >= Elevated THEN Times(f, 3, 4) ELSE f

CutByTrend(i, f) ==
    IF i.sma200 # Unknown /\ i.close < i.sma200 THEN Times(f, 1, 2) ELSE f

CutByHeat(i, f) ==
    IF i.rsi # Unknown /\ i.rsi > 70 THEN Times(f, 3, 4) ELSE f

\* Every missing indicator is a gap of the snapshot, every missing source is one of the
\* agent that needs it, and the gaps of all agents come with the chairman's verdict.
HasGaps(i) ==
    \/ i.gaps \/ ~i.fundamentals \/ ~i.news
    \/ Unknown \in {i.atr, i.volatility, i.sma200, i.rsi}

CutByGaps(i, f) == IF HasGaps(i) THEN AtMost(f, GapCap) ELSE f

PositionCap(i) ==
    Rounded(CutByGaps(i, CutByHeat(i, CutByTrend(i, CutByVolatility(i,
        AtMost(RiskBased(i), MaxPosition))))))

\* RiskInputError: nothing is stored and the run fails.
Raises(i) ==
    \/ ~i.sameTicker
    \/ /\ i.stance = "bullish" /\ i.confidence >= MinimumConfidence
       /\ i.atr = 0 /\ i.volatility # Unknown /\ i.volatility < Maximum

\* Why no position may be opened, with the action advised instead.
Blocked(action) == [NoPlan EXCEPT !.action = action]

\* Variant: the stop may lie below zero.
AssessRisk_Floorless(i) ==
    IF i.stance # "bullish"
    THEN Blocked(IF i.stance = "bearish" THEN "avoid" ELSE "watch")
    ELSE IF i.confidence < MinimumConfidence \/ Unknown \in {i.atr, i.volatility}
    THEN Blocked("watch")
    ELSE IF i.volatility >= Maximum \/ EntryLow(i) <= 0
    THEN Blocked("avoid")
    ELSE [action |-> "size_position", eligible |-> TRUE, cap |-> PositionCap(i),
          low |-> EntryLow(i), high |-> EntryHigh(i), stop |-> Stop(i), target |-> Target(i)]

AssessRisk(i) ==
    IF i.stance # "bullish"
    THEN Blocked(IF i.stance = "bearish" THEN "avoid" ELSE "watch")
    ELSE IF i.confidence < MinimumConfidence \/ Unknown \in {i.atr, i.volatility}
    THEN Blocked("watch")
    ELSE IF i.volatility >= Maximum \/ EntryLow(i) <= 0 \/ Stop(i) <= 0
    THEN Blocked("avoid")
    ELSE [action |-> "size_position", eligible |-> TRUE, cap |-> PositionCap(i),
          low |-> EntryLow(i), high |-> EntryHigh(i), stop |-> Stop(i), target |-> Target(i)]

Assess ==
    /\ stage = "judged"
    /\ \/ /\ Raises(input)
          /\ stage' = "raised" /\ UNCHANGED plan
       \/ /\ ~Raises(input)
          /\ stage' = "assessed" /\ plan' = AssessRisk(input)
    /\ UNCHANGED <<input, decision>>

----------------------------------------------------------------------------
(* The gates *)

\* Variant: the action becomes "watch" whatever it was.
Block_Watch(p) == [p EXCEPT !.eligible = FALSE, !.cap = 0, !.action = "watch"]

Block(p) == [p EXCEPT !.eligible = FALSE, !.cap = 0,
                      !.action = IF p.action = "size_position" THEN "watch" ELSE p.action]

\* The regime's multiplier, if there is one, lowers the cap of an eligible plan.
Reduced(p, multiplier) ==
    IF p.eligible /\ multiplier # Unknown
    THEN [p EXCEPT !.cap = Rounded(Fraction(p.cap * multiplier, 100))]
    ELSE p

UsedUp(p, multiplier) == p.eligible /\ multiplier # Unknown /\ Reduced(p, multiplier).cap <= 0

\* Variant: the quality report only adds its warnings.
ResearchGates_Lenient(i, p) ==
    IF UsedUp(p, i.multiplier) THEN Block(p) ELSE Reduced(p, i.multiplier)

\* _apply_research_risk_gates: a report without analysis_eligible, or a cap that the
\* regime uses up, blocks the plan.
ResearchGates(i, p) ==
    IF i.quality = "ineligible" \/ UsedUp(p, i.multiplier) THEN Block(p)
                                                           ELSE Reduced(p, i.multiplier)

Gate ==
    /\ stage = "assessed" /\ stage' = "gated"
    /\ plan' = ResearchGates(input, plan)
    /\ UNCHANGED <<input, decision>>

\* missing_required_roles: financial statements and news must both be there.
Check ==
    /\ stage = "gated" /\ stage' = "checked"
    /\ plan' = IF input.fundamentals /\ input.news THEN plan ELSE Block(plan)
    /\ UNCHANGED <<input, decision>>

----------------------------------------------------------------------------
(* _build_decision *)

Opens(p) == p.eligible /\ p.action = "size_position" /\ p.cap > 0

Recommended(stance, p) ==
    CASE Opens(p) /\ stance = "bullish"              -> "conditional buy"
      [] stance = "bearish"                          -> "avoid"
      [] ~Opens(p) /\ p.action = "avoid"             -> "avoid"
      [] OTHER                                       -> "hold and watch"

Decide ==
    /\ stage = "checked" /\ stage' = "decided"
    /\ decision' = [recommendation |-> Recommended(input.stance, plan),
                    eligible |-> Opens(plan), cap |-> plan.cap]
    /\ UNCHANGED <<input, plan>>

Init ==
    /\ input \in Inputs /\ stage = "judged"
    /\ plan = NoPlan /\ decision = NoDecision

Next == Assess \/ Gate \/ Check \/ Decide

Spec == Init /\ [][Next]_vars

----------------------------------------------------------------------------
(* Properties *)

\* The evidence that a new position needs, whatever the agents think of it.
Sufficient(i) ==
    /\ i.quality # "ineligible" /\ i.fundamentals /\ i.news
    /\ i.atr # Unknown /\ i.volatility # Unknown

\* When the data are insufficient, however positive the verdict, the draft does not
\* open a position, and neither does the stored plan.
NoPositionWithoutEvidence ==
    stage = "decided" /\ ~Sufficient(input) =>
        /\ ~decision.eligible /\ decision.cap = 0 /\ decision.recommendation # "conditional buy"
        /\ ~plan.eligible /\ plan.cap = 0 /\ plan.action # "size_position"

\* All the units that the policy allows, in thousandths of a percent of the portfolio.
Budget == RiskUnit * MaxRiskUnits

\* A position that falls from the reference entry to the stop, a price above zero,
\* loses no more than the units that the policy allows (up to the rounding of the cap),
\* its target pays for that risk, and it stays within the caps of the policy.
LossIsBounded ==
    /\ plan.cap <= MaxPosition
    /\ HasGaps(input) => plan.cap <= GapCap
    /\ plan.eligible =>
          /\ 0 < plan.stop /\ plan.stop < plan.low /\ plan.low <= plan.high
          /\ (2 * plan.cap - 1) * (10 * Distance2(input)) <= 2 * (Budget * Entry2(input))
          /\ plan.target - Entry2(input) \div 2 >= RewardRisk * (Entry2(input) \div 2 - plan.stop)

\* What must not make the position larger: less confidence, more volatility, a wider
\* range, a falling or an overheated price, gaps.
Worse(i) ==
    {[i EXCEPT !.confidence = c] : c \in {c \in Confidences : c <= i.confidence}}
    \cup {[i EXCEPT !.volatility = v] : v \in {v \in Volatilities \ {Unknown} : v >= i.volatility}}
    \cup {[i EXCEPT !.atr = a] : a \in {a \in ATRs \ {Unknown} : a >= i.atr}}
    \cup {[i EXCEPT !.sma200 = a] : a \in {a \in Averages : i.sma200 # Unknown /\ a # Unknown
                                                          /\ a >= i.sma200}}
    \cup {[i EXCEPT !.rsi = r] : r \in {r \in RSIs : i.rsi # Unknown /\ r # Unknown /\ r >= i.rsi}}
    \cup {[i EXCEPT !.gaps = TRUE]}

\* In a worse situation the assessed position is no larger.
NoLargerWhenWorse ==
    stage = "assessed" /\ plan.eligible =>
        \A j \in Worse(input) : ~Raises(j) => AssessRisk(j).cap <= plan.cap

\* After the assessment the gates only tighten: no step raises the cap, allows what
\* was blocked, or softens "avoid".
GatesOnlyTighten ==
    [][stage # "judged" =>
          /\ plan'.cap <= plan.cap
          /\ plan'.eligible => plan.eligible
          /\ plan.action = "avoid" => plan'.action = "avoid"]_vars

=============================================================================
