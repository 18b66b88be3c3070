----------------------------- MODULE Rules_proofs -----------------------------
(***************************************************************************)
(* Theorems about the rules, for every set of readings, documents and      *)
(* companies that the office may have to judge.                            *)
(***************************************************************************)
EXTENDS Rules, Sequences, FiniteSetTheorems, SequenceTheorems, WellFoundedInduction, TLAPS

----------------------------------------------------------------------------
(* The judgement of a market: facts in force *)

\* One market is assessed; facts have a time and a reading, and none is given twice.
EvidenceInv ==
    /\ assessed \in {"us", "kr"}
    /\ \A f \in evidence : f.observed \in Int /\ f.revision \in Int /\ f.value \in Int
    /\ \A f, g \in evidence :
          f.signal = g.signal /\ f.observed = g.observed /\ f.revision = g.revision => f = g

\* A step leaves the facts as they are, adds one that was not there, withdraws one or
\* replaces one by another reading.
LEMMA EvidenceSteps ==
    ASSUME [RulesNext]_<<companies, documents, readings>>
    PROVE  \/ assessed' = assessed /\ evidence' = evidence
           \/ \E s \in Signals : \E t \in Int, r \in Int, v \in Readings[s], ok \in BOOLEAN :
                 Regime!Arrive(s, t, r, v, ok)
           \/ \E f \in evidence : Regime!Withdraw(f)
           \/ \E f \in evidence : \E v \in Readings[f.signal] : f.signal \in Signals /\ Regime!Replace(f, v)
<1>1. CASE UNCHANGED readings
    BY <1>1 DEF readings
<1>2. CASE Regime!Next
  <2>1. \A t \in 1..MaxTime : t \in Int
      OBVIOUS
  <2>2. \A r \in 0..1 : r \in Int
      OBVIOUS
  <2> QED BY <1>2, <2>1, <2>2, Zenon DEF Regime!Next
<1> QED BY <1>1, <1>2 DEF RulesNext, readings

LEMMA EvidenceInvariant == RulesSpec => []EvidenceInv
<1>1. RulesInit => EvidenceInv
  <2> SUFFICES ASSUME RulesInit PROVE EvidenceInv
      OBVIOUS
  <2>1. CASE NoEvidence
      BY <2>1 DEF EvidenceInv, NoEvidence
  <2>2. CASE Regime!Init
    <3>1. \A f \in evidence : \E s \in DOMAIN Calm :
              f = [signal |-> s, observed |-> 1, revision |-> 0, value |-> Calm[s], readable |-> TRUE]
        BY <2>2 DEF Regime!Init, Regime!FactOf
    <3>2. \A f \in evidence : /\ f.observed = 1 /\ f.revision = 0 /\ f.signal \in DOMAIN Calm
                              /\ f.value = Calm[f.signal] /\ f.readable = TRUE
        BY <3>1
    <3>3. ASSUME NEW f \in evidence, NEW g \in evidence, f.signal = g.signal PROVE f = g
      <4>1. PICK s : f = [signal |-> s, observed |-> 1, revision |-> 0, value |-> Calm[s], readable |-> TRUE]
          BY <3>1
      <4>2. PICK t : g = [signal |-> t, observed |-> 1, revision |-> 0, value |-> Calm[t], readable |-> TRUE]
          BY <3>1
      <4>3. f.signal = s /\ g.signal = t
          BY <4>1, <4>2
      <4>4. s = t
          BY <3>3, <4>3
      <4> QED BY <4>1, <4>2, <4>4
    <3>4. assessed \in {"us", "kr"}
        BY <2>2 DEF Regime!Init
    <3> QED BY <3>2, <3>3, <3>4, ReadingsAssumption DEF EvidenceInv
  <2> QED BY <2>1, <2>2 DEF RulesInit
<1>2. EvidenceInv /\ [RulesNext]_<<companies, documents, readings>> => EvidenceInv'
  <2> SUFFICES ASSUME EvidenceInv, [RulesNext]_<<companies, documents, readings>> PROVE EvidenceInv'
      OBVIOUS
  <2>0. assessed' = assessed
      BY EvidenceSteps DEF Regime!Arrive, Regime!Withdraw, Regime!Replace, Regime!Step
  <2>1. CASE evidence' = evidence
      BY <2>0, <2>1 DEF EvidenceInv
  <2>2. ASSUME NEW s \in Signals, NEW t \in Int, NEW r \in Int, NEW v \in Readings[s],
               NEW ok \in BOOLEAN, Regime!Arrive(s, t, r, v, ok)
        PROVE  EvidenceInv'
    <3> DEFINE g == Regime!FactOf(s, t, r, v, ok)
    <3>1. /\ evidence' = evidence \cup {g}
          /\ g.signal = s /\ g.observed = t /\ g.revision = r /\ g.value = v
          /\ ~\E f \in evidence : f.signal = s /\ f.observed = t /\ f.revision = r
        BY <2>2 DEF Regime!Arrive, Regime!FactOf
    <3> HIDE DEF g
    <3>2. v \in Int
        BY ReadingsAssumption
    <3> QED BY <2>0, <3>1, <3>2 DEF EvidenceInv
  <2>3. ASSUME NEW f \in evidence, Regime!Withdraw(f) PROVE EvidenceInv'
      BY <2>0, <2>3 DEF Regime!Withdraw, EvidenceInv
  <2>4. ASSUME NEW f \in evidence, f.signal \in Signals, NEW v \in Readings[f.signal],
               Regime!Replace(f, v)
        PROVE  EvidenceInv'
    <3> DEFINE g == Regime!FactOf(f.signal, f.observed, f.revision, v, TRUE)
    <3>1. /\ evidence' = (evidence \ {f}) \cup {g}
          /\ g.signal = f.signal /\ g.observed = f.observed /\ g.revision = f.revision
          /\ g.value = v
        BY <2>4 DEF Regime!Replace, Regime!FactOf
    <3>2. v \in Int
        BY <2>4, ReadingsAssumption
    <3> HIDE DEF g
    <3> QED BY <2>0, <3>1, <3>2 DEF EvidenceInv
  <2> QED BY <2>1, <2>2, <2>3, <2>4, EvidenceSteps
<1> QED BY <1>1, <1>2, PTL DEF RulesSpec

----------------------------------------------------------------------------
(* Two sets of facts of which the same ones are in force *)

Alike(F, G) == \A s : Regime!Resolved(F, s) = Regime!Resolved(G, s)

LEMMA JudgedAlike ==
    ASSUME NEW F, NEW G, Alike(F, G), NEW m
    PROVE  Regime!Evaluate(F, m) = Regime!Evaluate(G, m)
<1>1. \A s : Regime!ValueOf(F, s) = Regime!ValueOf(G, s)
    BY DEF Alike, Regime!ValueOf
<1>2. \A S : Regime!Known(F, S) <=> Regime!Known(G, S)
    BY DEF Alike, Regime!Known
<1>3. Regime!RatesUS(F) = Regime!RatesUS(G)
    BY <1>1, <1>2 DEF Regime!RatesUS, Regime!Reads
<1>4. Regime!RatesKR(F) = Regime!RatesKR(G)
    BY <1>1, <1>2 DEF Regime!RatesKR
<1>5. Regime!Currency(F, m) = Regime!Currency(G, m)
    BY <1>1, <1>2 DEF Regime!Currency
<1>6. Regime!Volatility(F) = Regime!Volatility(G)
    BY <1>1, <1>2 DEF Regime!Volatility
<1>7. Regime!Commodities(F) = Regime!Commodities(G)
  <2>1. /\ Regime!ValueOf(F, "wti_level") = Regime!ValueOf(G, "wti_level")
        /\ Regime!ValueOf(F, "brent_level") = Regime!ValueOf(G, "brent_level")
        /\ Regime!ValueOf(F, "wti_change") = Regime!ValueOf(G, "wti_change")
        /\ Regime!ValueOf(F, "brent_change") = Regime!ValueOf(G, "brent_change")
      BY <1>1
  <2>2. Regime!Known(F, {"wti_level", "wti_change", "brent_level", "brent_change"})
          <=> Regime!Known(G, {"wti_level", "wti_change", "brent_level", "brent_change"})
      BY <1>2
  <2> QED BY <2>1, <2>2 DEF Regime!Commodities, Regime!Magnitude, Regime!Raised, Regime!Judged, Regime!Axis
<1>8. Regime!Liquidity(F) = Regime!Liquidity(G)
    BY <1>1, <1>2 DEF Regime!Liquidity
<1> QED BY <1>3, <1>4, <1>5, <1>6, <1>7, <1>8 DEF Regime!Evaluate

\* News of a signal g that is older than a fact f that stays is not in force, and
\* neither is what it replaces.
LEMMA LateIsNotInForce ==
    ASSUME NEW F, NEW G, NEW late, NEW f \in F,
           \A x \in F \cup G : x.observed \in Int,
           f \in G, \A x \in F \cup G : (x \in F /\ x \in G) \/ x \in late,
           \A x \in late : x.signal = f.signal /\ x.observed < f.observed
    PROVE  Alike(F, G)
<1> SUFFICES ASSUME NEW s PROVE Regime!Newest(F, s) = Regime!Newest(G, s)
    BY DEF Alike, Regime!Resolved
<1>1. \A x \in late \cap (F \cup G) : ~Regime!Newer(x, f) /\ Regime!Newer(f, x)
    BY DEF Regime!Newer
<1>2. ASSUME NEW x \in F \cup G, x \in late
      PROVE  x \notin Regime!Newest(F, s) /\ x \notin Regime!Newest(G, s)
    BY <1>1, <1>2 DEF Regime!Newest
<1>3. ASSUME NEW x, x \in F, x \in G, x \notin late
      PROVE  x \in Regime!Newest(F, s) <=> x \in Regime!Newest(G, s)
  <2>1. SUFFICES ASSUME x.signal = s,
                        NEW H \in {F, G}, \A g \in H : g.signal = s => Regime!Newer(x, g),
                        NEW g \in F \cup G, g.signal = s
                 PROVE  Regime!Newer(x, g)
      BY <1>3 DEF Regime!Newest
  <2>2. CASE g \in late
    <3>1. Regime!Newer(x, f) /\ Regime!Newer(f, g) /\ ~Regime!Newer(g, f)
        BY <1>1, <2>1, <2>2
    <3>2. x.observed \in Int /\ f.observed \in Int /\ g.observed \in Int /\ g.observed < f.observed
        BY <1>3, <2>2
    <3> QED BY <3>1, <3>2 DEF Regime!Newer
  <2> QED BY <2>1, <2>2
<1>4. \A H : Regime!Newest(H, s) \subseteq H
    BY DEF Regime!Newest
<1> QED BY <1>2, <1>3, <1>4

\* News that comes after newer news changes nothing, in either market (_FactIndex).
THEOREM LateNewsIsIgnored == RulesSpec => LateNewsChangesNothing
<1>1. EvidenceInv /\ EvidenceInv' /\ [RulesNext]_<<companies, documents, readings>>
        => [\A g \in evidence' \ evidence :
              (\E f \in evidence \cap evidence' : f.signal = g.signal /\ f.observed > g.observed)
              => Regime!Assessed' = Regime!Assessed]_(Regime!vars)
  <2> SUFFICES ASSUME EvidenceInv, EvidenceInv', [RulesNext]_<<companies, documents, readings>>,
                      NEW g \in evidence' \ evidence, NEW f \in evidence \cap evidence',
                      f.signal = g.signal, f.observed > g.observed
               PROVE  Regime!Assessed' = Regime!Assessed
      OBVIOUS
  <2>1. PICK late : /\ \A x \in evidence \cup evidence' : (x \in evidence /\ x \in evidence') \/ x \in late
                    /\ \A x \in late : x.signal = g.signal /\ x.observed = g.observed
                    /\ assessed' = assessed
    <3>1. CASE evidence' = evidence
        BY <3>1
    <3>2. ASSUME NEW s \in Signals, NEW t \in Int, NEW r \in Int, NEW v \in Readings[s],
                 NEW ok \in BOOLEAN, Regime!Arrive(s, t, r, v, ok)
          PROVE  \A x \in evidence \cup evidence' : (x \in evidence /\ x \in evidence') \/ x \in {g}
        BY <3>2 DEF Regime!Arrive
    <3>3. ASSUME NEW h \in evidence, Regime!Withdraw(h) PROVE FALSE
        BY <3>3 DEF Regime!Withdraw
    <3>4. ASSUME NEW h \in evidence, NEW v, Regime!Replace(h, v)
          PROVE  /\ \A x \in evidence \cup evidence' : (x \in evidence /\ x \in evidence') \/ x \in {g, h}
                 /\ h.signal = g.signal /\ h.observed = g.observed
      <4> DEFINE k == Regime!FactOf(h.signal, h.observed, h.revision, v, TRUE)
      <4>1. evidence' = (evidence \ {h}) \cup {k} /\ k.signal = h.signal /\ k.observed = h.observed
          BY <3>4 DEF Regime!Replace, Regime!FactOf
      <4> HIDE DEF k
      <4>2. g = k
          BY <4>1
      <4> QED BY <4>1, <4>2
    <3>5. assessed' = assessed
        BY EvidenceSteps DEF Regime!Arrive, Regime!Withdraw, Regime!Replace, Regime!Step
    <3>6. CASE \E h \in evidence : \E v \in Readings[h.signal] : h.signal \in Signals /\ Regime!Replace(h, v)
      <4>1. PICK h \in evidence : \E v : Regime!Replace(h, v)
          BY <3>6
      <4>2. \A x \in {g, h} : x.signal = g.signal /\ x.observed = g.observed
          BY <3>4, <4>1
      <4>3. \A x \in evidence \cup evidence' : (x \in evidence /\ x \in evidence') \/ x \in {g, h}
          BY <3>4, <4>1
      <4> QED BY <3>5, <4>2, <4>3
    <3>7. CASE \E s \in Signals : \E t \in Int, r \in Int, v \in Readings[s], ok \in BOOLEAN :
                  Regime!Arrive(s, t, r, v, ok)
      <4>1. \A x \in evidence \cup evidence' : (x \in evidence /\ x \in evidence') \/ x \in {g}
          BY <3>2, <3>7
      <4>2. \A x \in {g} : x.signal = g.signal /\ x.observed = g.observed
          OBVIOUS
      <4> QED BY <3>5, <4>1, <4>2
    <3> QED BY <3>1, <3>3, <3>6, <3>7, EvidenceSteps
  <2>2. Alike(evidence, evidence')
    <3>1. \A x \in evidence \cup evidence' : x.observed \in Int
        BY DEF EvidenceInv
    <3>2. \A x \in late \cap (evidence \cup evidence') : x.signal = f.signal /\ x.observed < f.observed
        BY <2>1, <3>1
    <3>3. \A x \in evidence \cup evidence' :
              (x \in evidence /\ x \in evidence') \/ x \in late \cap (evidence \cup evidence')
        BY <2>1
    <3> QED BY <3>1, <3>2, <3>3, LateIsNotInForce
  <2> QED BY <2>1, <2>2, JudgedAlike DEF Regime!Assessed
<1> QED BY <1>1, EvidenceInvariant, PTL DEF RulesSpec, LateNewsChangesNothing, Regime!LateNewsChangesNothing

----------------------------------------------------------------------------
(* A worse reading *)

\* Of the facts F, f gives way to g, another reading of the same observation.
GivesWay(F, G, f, g) ==
    /\ \A x \in F : x.observed \in Int /\ x.revision \in Int
    /\ \A x, y \in F :
          x.signal = y.signal /\ x.observed = y.observed /\ x.revision = y.revision => x = y
    /\ f \in F /\ g \notin F /\ G = (F \ {f}) \cup {g}
    /\ g.signal = f.signal /\ g.observed = f.observed /\ g.revision = f.revision
    /\ f.readable /\ g.readable

\* Where f is in force g comes into force, and elsewhere nothing changes.
LEMMA ReplacedInForce ==
    ASSUME NEW F, NEW G, NEW f, NEW g, GivesWay(F, G, f, g), NEW s
    PROVE  \/ Regime!Resolved(G, s) = Regime!Resolved(F, s)
           \/ s = f.signal /\ Regime!Resolved(F, s) = {f} /\ Regime!Resolved(G, s) = {g}
<1> USE DEF GivesWay
<1>1. \A x : Regime!Newer(x, g) <=> Regime!Newer(x, f)
    BY DEF Regime!Newer
<1>2. \A x : Regime!Newer(g, x) <=> Regime!Newer(f, x)
    BY DEF Regime!Newer
<1>3. Regime!Newer(f, f) /\ Regime!Newer(g, g)
    BY <1>1, <1>2 DEF Regime!Newer
<1>4. \A x \in F : x # f => (x \in Regime!Newest(G, s) <=> x \in Regime!Newest(F, s))
    BY <1>1 DEF Regime!Newest
<1>5. g \in Regime!Newest(G, s) <=> f \in Regime!Newest(F, s)
    BY <1>2, <1>3 DEF Regime!Newest
<1>6. f \in Regime!Newest(F, s) => s = f.signal /\ \A x \in Regime!Newest(F, s) : x = f
  <2>1. SUFFICES ASSUME f \in Regime!Newest(F, s), NEW x \in Regime!Newest(F, s) PROVE x = f
      BY DEF Regime!Newest
  <2>2. x \in F /\ x.signal = f.signal /\ Regime!Newer(x, f) /\ Regime!Newer(f, x)
      BY <2>1 DEF Regime!Newest
  <2>3. x.observed = f.observed /\ x.revision = f.revision
      BY <2>2 DEF Regime!Newer
  <2> QED BY <2>2, <2>3
<1>7. Regime!Newest(F, s) \subseteq F /\ Regime!Newest(G, s) \subseteq G
    BY DEF Regime!Newest
<1>8. CASE f \in Regime!Newest(F, s)
  <2>1. Regime!Newest(F, s) = {f} /\ Regime!Newest(G, s) = {g}
      BY <1>4, <1>5, <1>6, <1>7, <1>8
  <2> QED BY <2>1, <1>6, <1>8 DEF Regime!Resolved
<1>9. CASE f \notin Regime!Newest(F, s)
  <2>1. Regime!Newest(F, s) = Regime!Newest(G, s)
    <3>1. \A x : x \in G <=> (x \in F /\ x # f) \/ x = g
        OBVIOUS
    <3>2. \A x : x \in Regime!Newest(F, s) => x \in Regime!Newest(G, s)
        BY <1>4, <1>7, <1>9
    <3>3. \A x : x \in Regime!Newest(G, s) => x \in Regime!Newest(F, s)
        BY <1>4, <1>5, <1>7, <1>9, <3>1
    <3> QED BY <3>2, <3>3
  <2> QED BY <2>1 DEF Regime!Resolved
<1> QED BY <1>8, <1>9

\* The facts G differ from F in the reading of sigma at most, which is no better.
Worse(F, G, sigma) ==
    /\ \A S : Regime!Known(F, S) <=> Regime!Known(G, S)
    /\ \A s : s # sigma => Regime!ValueOf(F, s) = Regime!ValueOf(G, s)
    /\ \A s : Regime!Known(F, {s}) => Regime!ValueOf(F, s) \in Int /\ Regime!ValueOf(G, s) \in Int
    /\ Regime!Known(F, {sigma}) =>
          \/ sigma \in Regime!MoreIsWorse /\ Regime!ValueOf(G, sigma) >= Regime!ValueOf(F, sigma)
          \/ sigma \in Regime!LessIsWorse /\ Regime!ValueOf(G, sigma) <= Regime!ValueOf(F, sigma)

\* The axis b looks no better than a.
NoBetter(a, b) ==
    /\ a.state \in DOMAIN Regime!Rank /\ b.state \in DOMAIN Regime!Rank
    /\ Regime!Rank[b.state] <= Regime!Rank[a.state]
    /\ a.flags \subseteq b.flags
    /\ a.state = "unknown" <=> b.state = "unknown"

LEMMA UnknownIsNoBetter == NoBetter(Regime!Unknown, Regime!Unknown)
BY DEF NoBetter, Regime!Unknown, Regime!Axis, Regime!Rank

LEMMA JudgedNoBetter ==
    ASSUME NEW A, NEW B, A \subseteq B, NEW well \in BOOLEAN, NEW good \in BOOLEAN, good => well
    PROVE  NoBetter(Regime!Judged(A, well), Regime!Judged(B, good))
<1>1. ASSUME NEW flags, NEW ok \in BOOLEAN
      PROVE  /\ Regime!Judged(flags, ok).flags = flags
             /\ Regime!Judged(flags, ok).state
                  = IF flags # {} THEN "adverse" ELSE IF ok THEN "favorable" ELSE "neutral"
    BY DEF Regime!Judged, Regime!Axis
<1> QED BY <1>1 DEF NoBetter, Regime!Rank

\* What the axes ask of a reading that may get worse.
LEMMA ReadWorse ==
    ASSUME NEW F, NEW G, NEW sigma, Worse(F, G, sigma), NEW s, Regime!Known(F, {s})
    PROVE  /\ Regime!ValueOf(F, s) \in Int /\ Regime!ValueOf(G, s) \in Int
           /\ s \notin Regime!MoreIsWorse \cup Regime!LessIsWorse
                => Regime!ValueOf(G, s) = Regime!ValueOf(F, s)
           /\ s \in Regime!MoreIsWorse => Regime!ValueOf(G, s) >= Regime!ValueOf(F, s)
           /\ s \in Regime!LessIsWorse => Regime!ValueOf(G, s) <= Regime!ValueOf(F, s)
<1>1. Regime!ValueOf(F, s) \in Int /\ Regime!ValueOf(G, s) \in Int
    BY DEF Worse
<1>2. CASE s # sigma
  <2>1. Regime!ValueOf(G, s) = Regime!ValueOf(F, s)
      BY <1>2 DEF Worse
  <2> QED BY <1>1, <2>1
<1>3. CASE s = sigma
  <2>1. ~(s \in Regime!MoreIsWorse /\ s \in Regime!LessIsWorse)
      BY DEF Regime!MoreIsWorse, Regime!LessIsWorse
  <2>2. \/ s \in Regime!MoreIsWorse /\ Regime!ValueOf(G, s) >= Regime!ValueOf(F, s)
        \/ s \in Regime!LessIsWorse /\ Regime!ValueOf(G, s) <= Regime!ValueOf(F, s)
      BY <1>3 DEF Worse
  <2> QED BY <1>1, <2>1, <2>2
<1> QED BY <1>2, <1>3

LEMMA KnownEach ==
    ASSUME NEW F, NEW S, Regime!Known(F, S), NEW s \in S
    PROVE  Regime!Known(F, {s})
BY DEF Regime!Known

LEMMA VolatilityWorse ==
    ASSUME NEW F, NEW G, NEW sigma, Worse(F, G, sigma)
    PROVE  NoBetter(Regime!Volatility(F), Regime!Volatility(G))
<1> DEFINE S == {"vix_level", "vix_change"}
           l == Regime!ValueOf(F, "vix_level")   k == Regime!ValueOf(G, "vix_level")
           c == Regime!ValueOf(F, "vix_change")  d == Regime!ValueOf(G, "vix_change")
           flags(level, change) == Regime!Raised("vix_stress", level >= 2500)
                                   \cup Regime!Raised("vix_crisis", level >= 4000)
                                   \cup Regime!Raised("vix_surge", change >= 3000)
           calm(level, change) == level <= 1800 /\ change <= 0
<1>1. Regime!Known(F, S) <=> Regime!Known(G, S)
    BY DEF Worse
<1>2. CASE ~Regime!Known(F, S)
    BY <1>1, <1>2, UnknownIsNoBetter DEF Regime!Volatility
<1>3. CASE Regime!Known(F, S)
  <2>1. Regime!Known(F, {"vix_level"}) /\ Regime!Known(F, {"vix_change"})
      BY <1>3, KnownEach
  <2>2. "vix_level" \in Regime!MoreIsWorse /\ "vix_change" \in Regime!MoreIsWorse
      BY DEF Regime!MoreIsWorse
  <2>3. /\ l \in Int /\ k \in Int /\ c \in Int /\ d \in Int
        /\ k >= l /\ d >= c
      BY <2>1, <2>2, ReadWorse
  <2>4. /\ Regime!Volatility(F) = Regime!Judged(flags(l, c), calm(l, c))
        /\ Regime!Volatility(G) = Regime!Judged(flags(k, d), calm(k, d))
      BY <1>1, <1>3 DEF Regime!Volatility
  <2> HIDE DEF l, k, c, d
  <2>5. flags(l, c) \subseteq flags(k, d) /\ (calm(k, d) => calm(l, c))
      BY <2>3 DEF Regime!Raised
  <2>6. calm(l, c) \in BOOLEAN /\ calm(k, d) \in BOOLEAN
      OBVIOUS
  <2> HIDE DEF flags, calm
  <2> QED BY <2>4, <2>5, <2>6, JudgedNoBetter
<1> QED BY <1>2, <1>3

LEMMA LiquidityWorse ==
    ASSUME NEW F, NEW G, NEW sigma, Worse(F, G, sigma)
    PROVE  NoBetter(Regime!Liquidity(F), Regime!Liquidity(G))
<1> DEFINE S == {"bitcoin_level", "bitcoin_change"}
           c == Regime!ValueOf(F, "bitcoin_change")  d == Regime!ValueOf(G, "bitcoin_change")
           flags(change) == Regime!Raised("liquidity_stress", change <= -1500)
           ample(change) == change >= 1000
<1>1. Regime!Known(F, S) <=> Regime!Known(G, S)
    BY DEF Worse
<1>2. CASE ~Regime!Known(F, S)
    BY <1>1, <1>2, UnknownIsNoBetter DEF Regime!Liquidity
<1>3. CASE Regime!Known(F, S)
  <2>1. Regime!Known(F, {"bitcoin_change"})
      BY <1>3, KnownEach
  <2>2. "bitcoin_change" \in Regime!LessIsWorse
      BY DEF Regime!LessIsWorse
  <2>3. c \in Int /\ d \in Int /\ d <= c
      BY <2>1, <2>2, ReadWorse
  <2>4. /\ Regime!Liquidity(F) = Regime!Judged(flags(c), ample(c))
        /\ Regime!Liquidity(G) = Regime!Judged(flags(d), ample(d))
      BY <1>1, <1>3 DEF Regime!Liquidity
  <2> HIDE DEF c, d
  <2>5. flags(c) \subseteq flags(d) /\ (ample(d) => ample(c))
      BY <2>3 DEF Regime!Raised
  <2>6. ample(c) \in BOOLEAN /\ ample(d) \in BOOLEAN
      OBVIOUS
  <2> HIDE DEF flags, ample
  <2> QED BY <2>4, <2>5, <2>6, JudgedNoBetter
<1> QED BY <1>2, <1>3

\* Oil prices are worse when they are high or low, so none of them is sigma.
LEMMA CommoditiesWorse ==
    ASSUME NEW F, NEW G, NEW sigma, Worse(F, G, sigma)
    PROVE  NoBetter(Regime!Commodities(F), Regime!Commodities(G))
<1> DEFINE S == {"wti_level", "wti_change", "brent_level", "brent_change"}
           strained(H, level, change) ==
               \/ Regime!ValueOf(H, level) >= 10000
               \/ Regime!ValueOf(H, change) >= 1500 \/ Regime!ValueOf(H, change) <= -2000
           steady(H, level, change) ==
               /\ 5000 <= Regime!ValueOf(H, level) /\ Regime!ValueOf(H, level) <= 9000
               /\ Regime!Magnitude(Regime!ValueOf(H, change)) <= 500
           flags(H) == Regime!Raised("oil_stress", \/ strained(H, "wti_level", "wti_change")
                                                   \/ strained(H, "brent_level", "brent_change"))
           good(H) == steady(H, "wti_level", "wti_change") /\ steady(H, "brent_level", "brent_change")
<1>1. Regime!Known(F, S) <=> Regime!Known(G, S)
    BY DEF Worse
<1>2. CASE ~Regime!Known(F, S)
  <2>1. \A H : ~Regime!Known(H, S) => Regime!Commodities(H) = Regime!Unknown
      BY DEF Regime!Commodities, Regime!Magnitude, Regime!Raised, Regime!Judged, Regime!Axis
  <2> QED BY <1>1, <1>2, <2>1, UnknownIsNoBetter
<1>3. CASE Regime!Known(F, S)
  <2>1. \A s \in S : Regime!Known(F, {s}) /\ s \notin Regime!MoreIsWorse \cup Regime!LessIsWorse
      BY <1>3, KnownEach DEF Regime!MoreIsWorse, Regime!LessIsWorse
  <2>2. \A s \in S : Regime!ValueOf(G, s) = Regime!ValueOf(F, s)
      BY <2>1, ReadWorse
  <2>3. /\ Regime!ValueOf(F, "wti_level") = Regime!ValueOf(G, "wti_level")
        /\ Regime!ValueOf(F, "brent_level") = Regime!ValueOf(G, "brent_level")
        /\ Regime!ValueOf(F, "wti_change") = Regime!ValueOf(G, "wti_change")
        /\ Regime!ValueOf(F, "brent_change") = Regime!ValueOf(G, "brent_change")
      BY <2>2
  <2>4. /\ Regime!Commodities(F) = Regime!Judged(flags(F), good(F))
        /\ Regime!Commodities(G) = Regime!Judged(flags(G), good(G))
      BY <1>1, <1>3 DEF Regime!Commodities, Regime!Magnitude, Regime!Raised, Regime!Judged, Regime!Axis
  <2>5. flags(F) \subseteq flags(G) /\ (good(G) => good(F))
      BY <2>3 DEF Regime!Raised
  <2>6. good(F) \in BOOLEAN /\ good(G) \in BOOLEAN
      OBVIOUS
  <2> HIDE DEF flags, good
  <2> QED BY <2>4, <2>5, <2>6, JudgedNoBetter
<1> QED BY <1>2, <1>3

LEMMA CurrencyWorse ==
    ASSUME NEW F, NEW G, NEW sigma, Worse(F, G, sigma), NEW m \in {"us", "kr"}
    PROVE  NoBetter(Regime!Currency(F, m), Regime!Currency(G, m))
<1> DEFINE dollar(H) == Regime!ValueOf(H, "broad_dollar_change")
           won(H) == Regime!ValueOf(H, "usdk_rw_change")
           level(H) == Regime!ValueOf(H, "usdk_rw_level")
           needed == {"broad_dollar_level", "broad_dollar_change"}
                     \cup IF m = "kr" THEN {"usdk_rw_level", "usdk_rw_change"} ELSE {}
           stress(H) == Regime!Raised("broad_dollar_stress", dollar(H) >= 200)
           both(H) == stress(H) \cup Regime!Raised("krw_stress", level(H) >= 145000 \/ won(H) >= 200)
           weak(H) == dollar(H) <= -100
           calm(H) == dollar(H) <= 0 /\ won(H) <= -100
<1>1. Regime!Known(F, needed) <=> Regime!Known(G, needed)
    BY DEF Worse
<1>2. {"broad_dollar_change", "usdk_rw_change", "usdk_rw_level"} \subseteq Regime!MoreIsWorse
    BY DEF Regime!MoreIsWorse
<1>3. \A H : Regime!Currency(H, m) =
                IF ~Regime!Known(H, needed) THEN Regime!Unknown
                ELSE IF m = "us" THEN Regime!Judged(stress(H), weak(H))
                ELSE Regime!Judged(both(H), calm(H))
    BY DEF Regime!Currency
<1>4. CASE ~Regime!Known(F, needed)
  <2> HIDE DEF needed, stress, both, weak, calm
  <2>1. Regime!Currency(F, m) = Regime!Unknown /\ Regime!Currency(G, m) = Regime!Unknown
      BY <1>1, <1>3, <1>4
  <2> QED BY <2>1, UnknownIsNoBetter
<1>5. CASE Regime!Known(F, needed)
  <2>1. dollar(F) \in Int /\ dollar(G) \in Int /\ dollar(G) >= dollar(F)
    <3>1. Regime!Known(F, {"broad_dollar_change"})
        BY <1>5, KnownEach
    <3> QED BY <1>2, <3>1, ReadWorse
  <2>2. CASE m = "us"
    <3>1. /\ Regime!Currency(F, m) = Regime!Judged(stress(F), weak(F))
          /\ Regime!Currency(G, m) = Regime!Judged(stress(G), weak(G))
        BY <1>1, <1>3, <1>5, <2>2
    <3> HIDE DEF dollar
    <3>2. stress(F) \subseteq stress(G) /\ (weak(G) => weak(F))
        BY <2>1 DEF Regime!Raised
    <3>3. weak(F) \in BOOLEAN /\ weak(G) \in BOOLEAN
        OBVIOUS
    <3> HIDE DEF stress, weak
    <3> QED BY <3>1, <3>2, <3>3, JudgedNoBetter
  <2>3. CASE m = "kr"
    <3>1. Regime!Known(F, {"usdk_rw_level"}) /\ Regime!Known(F, {"usdk_rw_change"})
        BY <1>5, <2>3, KnownEach
    <3>2. /\ won(F) \in Int /\ won(G) \in Int /\ won(G) >= won(F)
          /\ level(F) \in Int /\ level(G) \in Int /\ level(G) >= level(F)
        BY <1>2, <3>1, ReadWorse
    <3>3. /\ Regime!Currency(F, m) = Regime!Judged(both(F), calm(F))
          /\ Regime!Currency(G, m) = Regime!Judged(both(G), calm(G))
        BY <1>1, <1>3, <1>5, <2>3
    <3> HIDE DEF dollar, won, level
    <3>4. both(F) \subseteq both(G) /\ (calm(G) => calm(F))
        BY <2>1, <3>2 DEF Regime!Raised
    <3>5. calm(F) \in BOOLEAN /\ calm(G) \in BOOLEAN
        OBVIOUS
    <3> HIDE DEF both, calm
    <3> QED BY <3>3, <3>4, <3>5, JudgedNoBetter
  <2> QED BY <2>2, <2>3
<1> QED BY <1>4, <1>5

LEMMA RatesKRWorse ==
    ASSUME NEW F, NEW G, NEW sigma, Worse(F, G, sigma)
    PROVE  NoBetter(Regime!RatesKR(F), Regime!RatesKR(G))
<1> DEFINE S == {"kr_base_rate", "kr_treasury_3y", "kr_treasury_10y"}
           base(H) == Regime!ValueOf(H, "kr_base_rate")
           ten(H) == Regime!ValueOf(H, "kr_treasury_10y")
           curve(H) == ten(H) - Regime!ValueOf(H, "kr_treasury_3y")
           flags(H) == Regime!Raised("curve_inverted", curve(H) <= 0)
                       \cup Regime!Raised("rates_stress", base(H) >= 400 \/ ten(H) >= 450)
           good(H) == curve(H) >= 50
<1>1. Regime!Known(F, S) <=> Regime!Known(G, S)
    BY DEF Worse
<1>2. CASE ~Regime!Known(F, S)
    BY <1>1, <1>2, UnknownIsNoBetter DEF Regime!RatesKR
<1>3. CASE Regime!Known(F, S)
  <2>1. /\ Regime!Known(F, {"kr_base_rate"}) /\ Regime!Known(F, {"kr_treasury_3y"})
        /\ Regime!Known(F, {"kr_treasury_10y"})
      BY <1>3, KnownEach
  <2>2. /\ "kr_base_rate" \in Regime!MoreIsWorse
        /\ {"kr_treasury_3y", "kr_treasury_10y"} \cap (Regime!MoreIsWorse \cup Regime!LessIsWorse) = {}
      BY DEF Regime!MoreIsWorse, Regime!LessIsWorse
  <2>3. base(F) \in Int /\ base(G) \in Int /\ base(G) >= base(F)
      BY <2>1, <2>2, ReadWorse
  <2>4. /\ Regime!ValueOf(G, "kr_treasury_3y") = Regime!ValueOf(F, "kr_treasury_3y")
        /\ ten(G) = ten(F)
      BY <2>1, <2>2, ReadWorse
  <2>5. /\ Regime!RatesKR(F) = Regime!Judged(flags(F), good(F))
        /\ Regime!RatesKR(G) = Regime!Judged(flags(G), good(G))
      BY <1>1, <1>3 DEF Regime!RatesKR
  <2>6. curve(G) = curve(F)
      BY <2>4
  <2>7. good(F) \in BOOLEAN /\ good(G) \in BOOLEAN
      OBVIOUS
  <2> HIDE DEF base, ten, curve
  <2>8. flags(F) \subseteq flags(G) /\ (good(G) => good(F))
      BY <2>3, <2>4, <2>6 DEF Regime!Raised
  <2> HIDE DEF flags, good
  <2> QED BY <2>5, <2>7, <2>8, JudgedNoBetter
<1> QED BY <1>2, <1>3

LEMMA RatesUSWorse ==
    ASSUME NEW F, NEW G, NEW sigma, Worse(F, G, sigma)
    PROVE  NoBetter(Regime!RatesUS(F), Regime!RatesUS(G))
<1> DEFINE S == {"treasury_2y", "treasury_3y", "treasury_10y"}
           two(H) == Regime!ValueOf(H, "treasury_2y")
           three(H) == Regime!ValueOf(H, "treasury_3y")
           ten(H) == Regime!ValueOf(H, "treasury_10y")
           known(H, s) == Regime!Known(H, {s})
           change(H) == Regime!ValueOf(H, "treasury_10y_change")
           curve(H) == IF known(H, "curve_10y2y") THEN Regime!ValueOf(H, "curve_10y2y") ELSE ten(H) - two(H)
           steep(H) == known(H, "treasury_10y_change") /\ change(H) >= 35
           rising(H) == known(H, "treasury_10y_change") /\ change(H) > 20
           flags(H) == Regime!Raised("curve_inverted", curve(H) <= 0 \/ ten(H) - three(H) <= 0)
                       \cup Regime!Raised("rates_stress", ten(H) >= 500 \/ steep(H))
           good(H) == curve(H) >= 50 /\ ~rising(H)
<1>1. /\ Regime!Known(F, S) <=> Regime!Known(G, S)
      /\ \A s : known(F, s) <=> known(G, s)
    BY DEF Worse
<1>2. CASE ~Regime!Known(F, S)
    BY <1>1, <1>2, UnknownIsNoBetter DEF Regime!RatesUS
<1>3. CASE Regime!Known(F, S)
  <2>1. known(F, "treasury_2y") /\ known(F, "treasury_3y") /\ known(F, "treasury_10y")
      BY <1>3, KnownEach
  <2>2. /\ "treasury_10y_change" \in Regime!MoreIsWorse /\ "curve_10y2y" \in Regime!LessIsWorse
        /\ S \cap (Regime!MoreIsWorse \cup Regime!LessIsWorse) = {}
      BY DEF Regime!MoreIsWorse, Regime!LessIsWorse
  <2>3. /\ ten(F) \in Int /\ ten(G) = ten(F) /\ two(F) \in Int /\ two(G) = two(F)
        /\ three(F) \in Int /\ three(G) = three(F)
      BY <2>1, <2>2, ReadWorse
  <2>4. known(F, "treasury_10y_change") => /\ change(F) \in Int /\ change(G) \in Int
                                           /\ change(G) >= change(F)
      BY <2>2, ReadWorse
  <2>5. curve(F) \in Int /\ curve(G) \in Int /\ curve(G) <= curve(F)
    <3>1. CASE known(F, "curve_10y2y")
      <4>1. /\ Regime!ValueOf(F, "curve_10y2y") \in Int /\ Regime!ValueOf(G, "curve_10y2y") \in Int
            /\ Regime!ValueOf(G, "curve_10y2y") <= Regime!ValueOf(F, "curve_10y2y")
          BY <2>2, <3>1, ReadWorse
      <4>2. known(G, "curve_10y2y")
          BY <1>1, <3>1
      <4> QED BY <3>1, <4>1, <4>2
    <3>2. CASE ~known(F, "curve_10y2y")
      <4>1. ~known(G, "curve_10y2y")
          BY <1>1, <3>2
      <4> QED BY <2>3, <3>2, <4>1
    <3> QED BY <3>1, <3>2
  <2>6. /\ Regime!RatesUS(F) = Regime!Judged(flags(F), good(F))
        /\ Regime!RatesUS(G) = Regime!Judged(flags(G), good(G))
      BY <1>1, <1>3 DEF Regime!RatesUS, Regime!Reads
  <2>7. good(F) \in BOOLEAN /\ good(G) \in BOOLEAN
      OBVIOUS
  <2>8. known(F, "treasury_10y_change") <=> known(G, "treasury_10y_change")
      BY <1>1
  <2>9. (steep(F) => steep(G)) /\ (rising(F) => rising(G))
    <3> HIDE DEF change, known
    <3> QED BY <2>4, <2>8
  <2> HIDE DEF ten, two, three, curve, steep, rising, known
  <2>10. flags(F) \subseteq flags(G) /\ (good(G) => good(F))
      BY <2>3, <2>5, <2>9 DEF Regime!Raised
  <2> HIDE DEF flags, good
  <2> QED BY <2>6, <2>7, <2>10, JudgedNoBetter
<1> QED BY <1>2, <1>3

LEMMA AxesWorse ==
    ASSUME NEW F, NEW G, NEW sigma, Worse(F, G, sigma),
           NEW m \in {"us", "kr"}, NEW x \in Regime!Axes
    PROVE  NoBetter(Regime!Evaluate(F, m)[x], Regime!Evaluate(G, m)[x])
<1>1. \A H : /\ Regime!Evaluate(H, m)["rates"] = IF m = "kr" THEN Regime!RatesKR(H) ELSE Regime!RatesUS(H)
             /\ Regime!Evaluate(H, m)["currency"] = Regime!Currency(H, m)
             /\ Regime!Evaluate(H, m)["volatility"] = Regime!Volatility(H)
             /\ Regime!Evaluate(H, m)["commodities"] = Regime!Commodities(H)
             /\ Regime!Evaluate(H, m)["liquidity"] = Regime!Liquidity(H)
    BY DEF Regime!Evaluate, Regime!Axes
<1>2. CASE x = "rates"
  <2>1. CASE m = "kr"
      BY <1>1, <1>2, <2>1, RatesKRWorse
  <2>2. CASE m # "kr"
      BY <1>1, <1>2, <2>2, RatesUSWorse
  <2> QED BY <2>1, <2>2
<1>3. CASE x = "currency"
    BY <1>1, <1>3, CurrencyWorse
<1>4. CASE x = "volatility"
    BY <1>1, <1>4, VolatilityWorse
<1>5. CASE x = "commodities"
    BY <1>1, <1>5, CommoditiesWorse
<1>6. CASE x = "liquidity"
    BY <1>1, <1>6, LiquidityWorse
<1> QED BY <1>2, <1>3, <1>4, <1>5, <1>6 DEF Regime!Axes

----------------------------------------------------------------------------
(* The cap on positions *)

Flags == {"curve_inverted", "rates_stress", "broad_dollar_stress", "oil_stress",
          "liquidity_stress", "krw_stress", "vix_stress", "vix_surge", "vix_crisis"}
Caps  == {25, 50, 65, 75, 100}

LEMMA AxisFlags ==
    ASSUME NEW F, NEW m, NEW x \in Regime!Axes
    PROVE  Regime!Evaluate(F, m)[x].flags \subseteq Flags
<1>1. \A A, good : Regime!Judged(A, good).flags = A
    BY DEF Regime!Judged, Regime!Axis
<1>2. Regime!Unknown.flags = {}
    BY DEF Regime!Unknown, Regime!Axis
<1>3. Regime!RatesUS(F).flags \subseteq Flags
    BY <1>1, <1>2 DEF Regime!RatesUS, Regime!Reads, Regime!Raised, Flags
<1>4. Regime!RatesKR(F).flags \subseteq Flags
    BY <1>1, <1>2 DEF Regime!RatesKR, Regime!Raised, Flags
<1>5. Regime!Currency(F, m).flags \subseteq Flags
    BY <1>1, <1>2 DEF Regime!Currency, Regime!Raised, Flags
<1>6. Regime!Volatility(F).flags \subseteq Flags
    BY <1>1, <1>2 DEF Regime!Volatility, Regime!Raised, Flags
<1>7. Regime!Commodities(F).flags \subseteq Flags
    BY <1>1, <1>2 DEF Regime!Commodities, Regime!Magnitude, Regime!Raised, Flags
<1>8. Regime!Liquidity(F).flags \subseteq Flags
    BY <1>1, <1>2 DEF Regime!Liquidity, Regime!Raised, Flags
<1> QED BY <1>3, <1>4, <1>5, <1>6, <1>7, <1>8 DEF Regime!Evaluate, Regime!Axes

LEMMA FlagCaps == \A f \in Flags : Regime!FlagCap(f) \in Caps
BY DEF Flags, Caps, Regime!FlagCap

\* The least of more caps is no greater.
LEMMA LeastCap ==
    ASSUME NEW A, NEW B \in SUBSET Caps, A \subseteq B, 100 \in A
    PROVE  Regime!Min(A) \in Caps /\ Regime!Min(B) \in Caps /\ Regime!Min(B) <= Regime!Min(A)
<1>1. ASSUME NEW S \in SUBSET Caps, 100 \in S
      PROVE  Regime!Min(S) \in S /\ \A y \in S : Regime!Min(S) <= y
  <2>1. \E x \in S : \A y \in S : x <= y
    <3>1. CASE 25 \in S
        BY <1>1, <3>1 DEF Caps
    <3>2. CASE 25 \notin S /\ 50 \in S
        BY <1>1, <3>2 DEF Caps
    <3>3. CASE 25 \notin S /\ 50 \notin S /\ 65 \in S
        BY <1>1, <3>3 DEF Caps
    <3>4. CASE 25 \notin S /\ 50 \notin S /\ 65 \notin S /\ 75 \in S
        BY <1>1, <3>4 DEF Caps
    <3>5. CASE 25 \notin S /\ 50 \notin S /\ 65 \notin S /\ 75 \notin S
        BY <1>1, <3>5 DEF Caps
    <3> QED BY <3>1, <3>2, <3>3, <3>4, <3>5
  <2> QED BY <2>1 DEF Regime!Min
<1>2. A \in SUBSET Caps /\ 100 \in B
    OBVIOUS
<1>3. Regime!Min(A) \in A /\ Regime!Min(B) \in B /\ Regime!Min(B) <= Regime!Min(A)
    BY <1>1, <1>2
<1> QED BY <1>2, <1>3

LEMMA CapWorse ==
    ASSUME NEW F, NEW G, NEW sigma, Worse(F, G, sigma), NEW m \in {"us", "kr"}
    PROVE  Regime!PositionCap(Regime!Evaluate(G, m)) <= Regime!PositionCap(Regime!Evaluate(F, m))
<1> DEFINE a == Regime!Evaluate(F, m)
           b == Regime!Evaluate(G, m)
           missing(axes) == Regime!Cardinality(Regime!UnknownAxes(axes))
           gaps(n) == CASE n = 0 -> {} [] n = 1 -> {50} [] OTHER -> {25}
           raised(axes) == UNION {axes[x].flags : x \in Regime!Axes}
           caps(flags) == {Regime!FlagCap(f) : f \in flags}
<1>1. \A x \in Regime!Axes : /\ a[x].state = "unknown" <=> b[x].state = "unknown"
                            /\ a[x].flags \subseteq b[x].flags /\ b[x].flags \subseteq Flags
    BY AxesWorse, AxisFlags DEF NoBetter
<1> HIDE DEF a, b
<1>2. Regime!UnknownAxes(a) = Regime!UnknownAxes(b)
    BY <1>1 DEF Regime!UnknownAxes
<1>3. raised(a) \subseteq raised(b) /\ raised(b) \subseteq Flags
    BY <1>1
<1>4. \A axes : Regime!PositionCap(axes) = Regime!Min({100} \cup gaps(missing(axes)) \cup caps(raised(axes)))
    BY DEF Regime!PositionCap
<1>5. gaps(missing(a)) = gaps(missing(b))
    BY <1>2
<1>6. \A n : gaps(n) \subseteq Caps
    BY DEF Caps
<1> HIDE DEF raised, gaps, missing
<1>7. caps(raised(a)) \subseteq caps(raised(b)) /\ caps(raised(b)) \subseteq Caps
    BY <1>3, FlagCaps
<1> HIDE DEF caps
<1>8. {100} \cup gaps(missing(b)) \cup caps(raised(b)) \in SUBSET Caps
    BY <1>6, <1>7 DEF Caps
<1>9. {100} \cup gaps(missing(a)) \cup caps(raised(a)) \subseteq {100} \cup gaps(missing(b)) \cup caps(raised(b))
    BY <1>5, <1>7
<1> QED BY <1>4, <1>8, <1>9, LeastCap DEF a, b

\* A worse reading allows no larger position and betters no axis, in either market
\* (MarketRegimeEvaluator.evaluate).
THEOREM WorseIsNeverLooser == RulesSpec => WorseNeverLoosens
<1>1. EvidenceInv /\ [RulesNext]_<<companies, documents, readings>>
        => [\A f \in evidence \ evidence', g \in evidence' \ evidence :
              (/\ Regime!Cardinality(evidence) = Regime!Cardinality(evidence')
               /\ f.signal = g.signal /\ f.observed = g.observed /\ f.revision = g.revision
               /\ \/ f.signal \in Regime!MoreIsWorse /\ g.value > f.value
                  \/ f.signal \in Regime!LessIsWorse /\ g.value < f.value)
              => /\ Regime!Cap' <= Regime!Cap
                 /\ \A x \in Regime!Axes :
                       Regime!Rank[Regime!Assessed[x].state]' <= Regime!Rank[Regime!Assessed[x].state]]_(Regime!vars)
  <2> SUFFICES ASSUME EvidenceInv, [RulesNext]_<<companies, documents, readings>>,
                      NEW f \in evidence \ evidence', NEW g \in evidence' \ evidence,
                      f.signal = g.signal, f.observed = g.observed, f.revision = g.revision,
                      \/ f.signal \in Regime!MoreIsWorse /\ g.value > f.value
                      \/ f.signal \in Regime!LessIsWorse /\ g.value < f.value
               PROVE  /\ Regime!Cap' <= Regime!Cap
                      /\ \A x \in Regime!Axes :
                            Regime!Rank[Regime!Assessed[x].state]' <= Regime!Rank[Regime!Assessed[x].state]
      OBVIOUS
  <2>1. /\ assessed' = assessed /\ assessed \in {"us", "kr"}
        /\ evidence' = (evidence \ {f}) \cup {g} /\ f.readable /\ g.readable /\ g.value \in Int
    <3>1. ASSUME NEW h \in evidence, h.signal \in Signals, NEW v \in Readings[h.signal], Regime!Replace(h, v)
          PROVE  evidence' = (evidence \ {f}) \cup {g} /\ f.readable /\ g.readable /\ g.value \in Int
      <4> DEFINE k == Regime!FactOf(h.signal, h.observed, h.revision, v, TRUE)
      <4>1. /\ evidence' = (evidence \ {h}) \cup {k}
            /\ h.readable /\ k.readable /\ k.value = v /\ v \in Int
          BY <3>1, ReadingsAssumption DEF Regime!Replace, Regime!FactOf
      <4> HIDE DEF k
      <4>2. f = h /\ g = k
          BY <4>1
      <4> QED BY <4>1, <4>2
    <3>2. assessed' = assessed /\ assessed \in {"us", "kr"}
        BY EvidenceSteps DEF Regime!Arrive, Regime!Withdraw, Regime!Replace, Regime!Step, EvidenceInv
    <3>3. \A s, t, r, v, ok : ~Regime!Arrive(s, t, r, v, ok)
        BY DEF Regime!Arrive
    <3>4. \A h : ~Regime!Withdraw(h)
        BY DEF Regime!Withdraw
    <3> QED BY <3>1, <3>2, <3>3, <3>4, EvidenceSteps
  <2>2. \A s : \/ Regime!Resolved(evidence', s) = Regime!Resolved(evidence, s)
               \/ s = f.signal /\ Regime!Resolved(evidence, s) = {f} /\ Regime!Resolved(evidence', s) = {g}
    <3>1. /\ \A x \in evidence : x.observed \in Int /\ x.revision \in Int
          /\ \A x, y \in evidence :
                x.signal = y.signal /\ x.observed = y.observed /\ x.revision = y.revision => x = y
        BY DEF EvidenceInv
    <3>2. g.signal = f.signal /\ g.observed = f.observed /\ g.revision = f.revision
        OBVIOUS
    <3>3. f \in evidence /\ g \notin evidence
        OBVIOUS
    <3>4. f.readable /\ g.readable /\ evidence' = (evidence \ {f}) \cup {g}
        BY <2>1
    <3>5. GivesWay(evidence, evidence', f, g)
        BY <3>1, <3>2, <3>3, <3>4 DEF GivesWay
    <3> QED BY <3>5, ReplacedInForce
  <2>3. Worse(evidence, evidence', f.signal)
    <3>1. \A S : Regime!Known(evidence, S) <=> Regime!Known(evidence', S)
        BY <2>2 DEF Regime!Known
    <3>2. \A s : s # f.signal => Regime!ValueOf(evidence, s) = Regime!ValueOf(evidence', s)
        BY <2>2 DEF Regime!ValueOf
    <3>3. \A F, s : Regime!Resolved(F, s) \subseteq F
        BY DEF Regime!Resolved, Regime!Newest
    <3>4. \A F, s : Regime!Known(F, {s}) => \E x \in F : Regime!ValueOf(F, s) = x.value
        BY <3>3 DEF Regime!Known, Regime!ValueOf, Regime!Any
    <3>5. /\ \A x \in evidence : x.value \in Int
          /\ \A x \in evidence' : x.value \in Int
        BY <2>1 DEF EvidenceInv
    <3>6. \A s : Regime!Known(evidence, {s})
                => Regime!ValueOf(evidence, s) \in Int /\ Regime!ValueOf(evidence', s) \in Int
        BY <3>1, <3>4, <3>5
    <3>7. \A x : Regime!Any({x}) = x
        BY DEF Regime!Any
    <3>8. \/ Regime!ValueOf(evidence', f.signal) = Regime!ValueOf(evidence, f.signal)
          \/ /\ Regime!ValueOf(evidence', f.signal) = g.value
             /\ Regime!ValueOf(evidence, f.signal) = f.value
        BY <2>2, <3>7 DEF Regime!ValueOf
    <3>9. Regime!Known(evidence, {f.signal}) =>
            \/ /\ f.signal \in Regime!MoreIsWorse
               /\ Regime!ValueOf(evidence', f.signal) >= Regime!ValueOf(evidence, f.signal)
            \/ /\ f.signal \in Regime!LessIsWorse
               /\ Regime!ValueOf(evidence', f.signal) <= Regime!ValueOf(evidence, f.signal)
        BY <2>1, <3>5, <3>6, <3>8
    <3> QED BY <3>1, <3>2, <3>6, <3>9 DEF Worse
  <2>4. Regime!Cap' <= Regime!Cap
      BY <2>1, <2>3, CapWorse DEF Regime!Cap, Regime!Assessed
  <2>5. ASSUME NEW x \in Regime!Axes
        PROVE  Regime!Rank[Regime!Assessed[x].state]' <= Regime!Rank[Regime!Assessed[x].state]
    <3>1. NoBetter(Regime!Evaluate(evidence, assessed)[x], Regime!Evaluate(evidence', assessed)[x])
        BY <2>1, <2>3, AxesWorse
    <3> QED BY <2>1, <3>1 DEF NoBetter, Regime!Assessed, Regime!Rank
  <2> QED BY <2>4, <2>5
<1> QED BY <1>1, EvidenceInvariant, PTL DEF RulesSpec, WorseNeverLoosens, Regime!WorseNeverLoosens

----------------------------------------------------------------------------
(* Source documents *)

Lines == [ticker : Tickers, class : {"common", "other", "short"}]
Facts == [tag : Documents!Tags, unit : Documents!ToSet(Units), year : YearSet, filed : Dates,
          annual : BOOLEAN]
Accounts == [field : DOMAIN TagsOf, consolidated : BOOLEAN]

\* Each document is a sequence of rows, or missing.
DocumentsInv ==
    /\ kind = "listing" => /\ DOMAIN listing = 1 .. 2
                           /\ \A i \in 1 .. 2 : listing[i] # None => listing[i] \in Seq(Lines)
    /\ facts \in Seq(Facts)
    /\ accounts \in Seq(Accounts)

LEMMA DocumentsInvariant == RulesSpec => []DocumentsInv
<1>1. RulesInit => DocumentsInv
  <2>1. Documents!Init => DocumentsInv
    <3> SUFFICES ASSUME Documents!Init PROVE DocumentsInv
        OBVIOUS
    <3>1. \E a, b \in IF kind = "listing" THEN {None, <<>>} ELSE {<<>>} : listing = <<a, b>>
        BY DEF Documents!Init
    <3>2. ASSUME kind = "listing"
          PROVE  /\ DOMAIN listing = 1 .. 2
                 /\ \A i \in 1 .. 2 : listing[i] # None => listing[i] \in Seq(Lines)
      <4>1. PICK a \in {None, <<>>}, b \in {None, <<>>} : listing = <<a, b>>
          BY <3>1, <3>2
      <4>2. <<>> \in Seq(Lines)
          OBVIOUS
      <4>3. DOMAIN listing = 1 .. 2 /\ listing[1] = a /\ listing[2] = b
          BY <4>1
      <4>4. \A i \in 1 .. 2 : listing[i] = None \/ listing[i] = <<>>
          BY <4>3
      <4> QED BY <4>2, <4>3, <4>4
    <3>3. facts \in Seq(Facts) /\ accounts \in Seq(Accounts)
        BY DEF Documents!Init
    <3> QED BY <3>2, <3>3 DEF DocumentsInv
  <2>2. NoDocument => DocumentsInv
    <3> SUFFICES ASSUME NoDocument PROVE DocumentsInv
        OBVIOUS
    <3>0. kind = None
        BY DEF NoDocument
    <3>1. kind # "listing"
        BY <3>0, DocumentsAssumption
    <3>2. facts = <<>> /\ accounts = <<>>
        BY DEF NoDocument
    <3> QED BY <3>1, <3>2 DEF DocumentsInv
  <2> QED BY <2>1, <2>2 DEF RulesInit
<1>2. DocumentsInv /\ [RulesNext]_<<companies, documents, readings>> => DocumentsInv'
  <2> SUFFICES ASSUME DocumentsInv, [RulesNext]_<<companies, documents, readings>> PROVE DocumentsInv'
      OBVIOUS
  <2>1. CASE UNCHANGED documents
      BY <2>1 DEF documents, DocumentsInv
  <2>2. ASSUME NEW n \in 1 .. 2, NEW t \in Tickers, NEW c \in {"common", "other", "short"},
               Documents!ListSecurity(n, t, c)
        PROVE  DocumentsInv'
    <3> DEFINE row == [ticker |-> t, class |-> c]
    <3>1. /\ kind' = kind /\ facts' = facts /\ accounts' = accounts
          /\ kind = "listing" /\ listing[n] # None
          /\ listing' = [listing EXCEPT ![n] = Append(listing[n], row)]
        BY <2>2 DEF Documents!ListSecurity
    <3>2. row \in Lines
        BY DEF Lines
    <3> HIDE DEF row
    <3>3. /\ DOMAIN listing' = 1 .. 2
          /\ \A i \in 1 .. 2 : listing'[i] # None => listing'[i] \in Seq(Lines)
        BY <3>1, <3>2 DEF DocumentsInv
    <3> QED BY <3>1, <3>3 DEF DocumentsInv
  <2>3. ASSUME NEW t \in Tickers, NEW c \in Ciks, Documents!ListCik(t, c) PROVE DocumentsInv'
      BY <2>3 DEF Documents!ListCik, DocumentsInv
  <2>4. ASSUME NEW t \in Documents!Tags, NEW u \in Documents!ToSet(Units), NEW y \in YearSet,
               NEW d \in Dates, NEW a \in BOOLEAN, Documents!File(t, u, y, d, a)
        PROVE  DocumentsInv'
    <3> DEFINE row == [tag |-> t, unit |-> u, year |-> y, filed |-> d, annual |-> a]
    <3>1. /\ facts' = Append(facts, row)
          /\ kind' = kind /\ listing' = listing /\ accounts' = accounts
        BY <2>4 DEF Documents!File
    <3>2. row \in Facts
        BY DEF Facts
    <3> HIDE DEF row
    <3> QED BY <3>1, <3>2 DEF DocumentsInv
  <2>5. ASSUME NEW f \in DOMAIN TagsOf, NEW c \in BOOLEAN, Documents!Account(f, c)
        PROVE  DocumentsInv'
    <3> DEFINE row == [field |-> f, consolidated |-> c]
    <3>1. /\ accounts' = Append(accounts, row)
          /\ kind' = kind /\ listing' = listing /\ facts' = facts
        BY <2>5 DEF Documents!Account
    <3>2. row \in Accounts
        BY DEF Accounts
    <3> HIDE DEF row
    <3> QED BY <3>1, <3>2 DEF DocumentsInv
  <2>6. CASE Documents!Next
      BY <2>2, <2>3, <2>4, <2>5, <2>6 DEF Documents!Next
  <2> QED BY <2>1, <2>6 DEF RulesNext, documents
<1> QED BY <1>1, <1>2, PTL DEF RulesSpec

LEMMA LeastNumber ==
    ASSUME NEW T \in SUBSET Nat, T # {}
    PROVE  \E x \in T : \A y \in T : x <= y
<1> DEFINE R == OpToRel(LAMBDA x, y : x < y, Nat)
<1>1. \A x, y \in Nat : <<x, y>> \in R <=> x < y
    BY DEF OpToRel
<1>2. IsWellFoundedOn(R, Nat)
    BY NatLessThanWellFounded
<1> HIDE DEF R
<1>3. PICK x \in T : \A y \in T : ~ (<<y, x>> \in R)
    BY <1>2, WFMin
<1>4. \A y \in T : ~(y < x)
    BY <1>1, <1>3
<1> QED BY <1>4

----------------------------------------------------------------------------
(* Listings *)

LEMMA SameCount == \A S : Documents!Cardinality(S) = Cardinality(S)
BY Zenon DEF Documents!Cardinality, Cardinality

\* What identifies the security of a record.
KeyAt(p) == Documents!Key(Documents!Row(p))

\* The records are those of the first listing and of the second.
RecordsOf(i) == {<<i, n>> : n \in Documents!Common(listing[i])}

LEMMA RecordsOfBoth == Documents!Records = RecordsOf(1) \cup RecordsOf(2)
<1>1. \A p : p \in Documents!Records <=> \E i \in 1 .. 2 : p \in RecordsOf(i)
    BY DEF Documents!Records, RecordsOf
<1>2. \A i : i \in 1 .. 2 <=> i = 1 \/ i = 2
    OBVIOUS
<1> QED BY <1>1, <1>2

\* The records of a listing are numbered, and no more than the rows that count.
LEMMA RecordsCounted ==
    ASSUME DocumentsInv, kind = "listing", NEW i \in 1 .. 2, listing[i] # None
    PROVE  /\ \A p \in RecordsOf(i) : p[1] = i /\ p[2] \in Nat
           /\ IsFiniteSet(RecordsOf(i))
           /\ Cardinality(Documents!Counted(listing[i])) \in Nat
           /\ Cardinality(RecordsOf(i)) <= Cardinality(Documents!Counted(listing[i]))
<1> DEFINE rows == 1 .. Len(listing[i])
           C == Documents!Common(listing[i])
           f == [n \in C |-> <<i, n>>]
<1>1. Len(listing[i]) \in Nat
    BY DEF DocumentsInv
<1>2. IsFiniteSet(rows)
    BY <1>1, FS_Interval
<1>3. C \subseteq Documents!Counted(listing[i]) /\ Documents!Counted(listing[i]) \subseteq rows
    BY DEF Documents!Common, Documents!Counted
<1>4. /\ IsFiniteSet(Documents!Counted(listing[i])) /\ IsFiniteSet(C)
      /\ Cardinality(C) <= Cardinality(Documents!Counted(listing[i]))
    BY <1>2, <1>3, FS_Subset
<1>5. f \in Surjection(C, RecordsOf(i))
    BY DEF Surjection, RecordsOf
<1>6. IsFiniteSet(RecordsOf(i)) /\ Cardinality(RecordsOf(i)) <= Cardinality(C)
    BY <1>4, <1>5, FS_Surjection
<1>7. /\ Cardinality(C) \in Nat /\ Cardinality(RecordsOf(i)) \in Nat
      /\ Cardinality(Documents!Counted(listing[i])) \in Nat
    BY <1>4, <1>6, FS_CardinalityType
<1>8. \A p \in RecordsOf(i) : p[1] = i /\ p[2] \in Nat
    BY <1>1, <1>3 DEF RecordsOf
<1> HIDE DEF C
<1> QED BY <1>4, <1>6, <1>7, <1>8

\* Two records of one security: of those with its key one is the first.
LEMMA FirstIsTaken ==
    ASSUME NEW P, Documents!Records = P, \A p \in P : p[1] \in 1 .. 2 /\ p[2] \in Nat,
           \A p, q \in P : p[1] = q[1] /\ p[2] = q[2] => p = q
    PROVE  /\ Documents!Taken \subseteq P
           /\ \A p \in P : \E q \in Documents!Taken : KeyAt(q) = KeyAt(p)
           /\ \A p, q \in Documents!Taken : KeyAt(p) = KeyAt(q) => p = q
<1>1. \A p : p \in Documents!Taken <=>
              p \in P /\ \A q \in P : Documents!Before(q, p) => KeyAt(q) # KeyAt(p)
    BY DEF Documents!Taken, KeyAt
<1>2. ASSUME NEW p \in P PROVE \E q \in Documents!Taken : KeyAt(q) = KeyAt(p)
  <2> DEFINE alike == {q \in P : KeyAt(q) = KeyAt(p)}
             firsts == {q[1] : q \in alike}
  <2>1. p \in alike /\ firsts \in SUBSET Nat /\ firsts # {}
      OBVIOUS
  <2>2. PICK i \in firsts : \A j \in firsts : i <= j
      BY <2>1, LeastNumber
  <2> DEFINE seconds == {q[2] : q \in {r \in alike : r[1] = i}}
  <2>3. seconds \in SUBSET Nat /\ seconds # {}
      BY <2>2
  <2>4. PICK n \in seconds : \A k \in seconds : n <= k
      BY <2>3, LeastNumber
  <2>5. PICK q \in alike : q[1] = i /\ q[2] = n
      BY <2>4
  <2>6. ASSUME NEW r \in alike PROVE ~Documents!Before(r, q)
    <3>1. i <= r[1] /\ (r[1] = i => n <= r[2])
        BY <2>2, <2>4
    <3>2. i \in Nat /\ n \in Nat /\ r[1] \in Nat /\ r[2] \in Nat
        BY <2>1, <2>3
    <3> HIDE DEF alike, firsts, seconds
    <3> QED BY <2>5, <3>1, <3>2 DEF Documents!Before
  <2> QED BY <1>1, <2>5, <2>6
<1>3. ASSUME NEW p \in Documents!Taken, NEW q \in Documents!Taken, KeyAt(p) = KeyAt(q) PROVE p = q
  <2>1. ~Documents!Before(p, q) /\ ~Documents!Before(q, p)
      BY <1>1, <1>3
  <2>2. /\ p[1] \in Nat /\ p[2] \in Nat /\ q[1] \in Nat /\ q[2] \in Nat
      BY <1>1
  <2>3. p[1] = q[1] /\ p[2] = q[2]
      BY <2>1, <2>2 DEF Documents!Before
  <2> QED BY <1>1, <2>3
<1> QED BY <1>1, <1>2, <1>3

\* A snapshot counts the rows of both listings, and has one member for every record taken.
LEMMA SnapshotCounts ==
    ASSUME DocumentsInv, kind = "listing", Documents!Snapshot # None
    PROVE  /\ \A p \in Documents!Records : p[1] \in 1 .. 2 /\ p[2] \in Nat
           /\ \A p, q \in Documents!Records : p[1] = q[1] /\ p[2] = q[2] => p = q
           /\ IsFiniteSet(Documents!Records)
           /\ Cardinality(Documents!Records) <= Cardinality(Documents!Counted(listing[1]))
                                               + Cardinality(Documents!Counted(listing[2]))
           /\ Cardinality(Documents!Counted(listing[1])) \in Nat
           /\ Cardinality(Documents!Counted(listing[2])) \in Nat
<1>1. listing[1] # None /\ listing[2] # None
    BY DEF Documents!Snapshot, Documents!Usable
<1>2. ASSUME NEW i \in 1 .. 2
      PROVE  /\ \A p \in RecordsOf(i) : p[1] = i /\ p[2] \in Nat
             /\ IsFiniteSet(RecordsOf(i))
             /\ Cardinality(Documents!Counted(listing[i])) \in Nat
             /\ Cardinality(RecordsOf(i)) <= Cardinality(Documents!Counted(listing[i]))
    BY <1>1, RecordsCounted
<1>3. 1 \in 1 .. 2 /\ 2 \in 1 .. 2
    OBVIOUS
<1>4. \A p \in Documents!Records : p[1] \in 1 .. 2 /\ p[2] \in Nat
    BY <1>2, <1>3, RecordsOfBoth
<1>5. \A p, q \in Documents!Records : p[1] = q[1] /\ p[2] = q[2] => p = q
    BY RecordsOfBoth DEF RecordsOf
<1>6. /\ IsFiniteSet(RecordsOf(1) \cup RecordsOf(2))
      /\ Cardinality(RecordsOf(1) \cup RecordsOf(2))
           = Cardinality(RecordsOf(1)) + Cardinality(RecordsOf(2)) - Cardinality(RecordsOf(1) \cap RecordsOf(2))
    BY <1>2, <1>3, FS_Union
<1>7. /\ Cardinality(RecordsOf(1) \cap RecordsOf(2)) \in Nat
      /\ Cardinality(RecordsOf(1)) \in Nat /\ Cardinality(RecordsOf(2)) \in Nat
    BY <1>2, <1>3, FS_Intersection, FS_CardinalityType
<1>8. /\ Cardinality(RecordsOf(1)) <= Cardinality(Documents!Counted(listing[1]))
      /\ Cardinality(RecordsOf(2)) <= Cardinality(Documents!Counted(listing[2]))
      /\ Cardinality(Documents!Counted(listing[1])) \in Nat
      /\ Cardinality(Documents!Counted(listing[2])) \in Nat
    BY <1>2, <1>3
<1>9. Cardinality(RecordsOf(1) \cup RecordsOf(2))
        <= Cardinality(Documents!Counted(listing[1])) + Cardinality(Documents!Counted(listing[2]))
    BY <1>6, <1>7, <1>8
<1> QED BY <1>4, <1>5, <1>6, <1>8, <1>9, RecordsOfBoth

\* Every row of the listings is a member's, excluded or a duplicate; a security is a
\* member once, under whatever spelling, and none is lost (_fetch_with_client).
THEOREM ListingsAreWhole == RulesSpec => []ListingIsWhole
<1>1. DocumentsInv => ListingIsWhole
  <2> SUFFICES ASSUME DocumentsInv, kind = "listing", Documents!Snapshot # None
               PROVE  LET s == Documents!Snapshot
                      IN  /\ s.raw = Documents!Cardinality(s.members) + s.excluded + s.duplicates
                          /\ s.excluded >= 0
                          /\ \A p \in Documents!Records : \E m \in s.members :
                                Documents!SameSecurity(Documents!Row(p), m)
                          /\ \A l, m \in s.members : Documents!SameSecurity(l, m) => l = m
      BY DEF ListingIsWhole, Documents!ListingIsWhole
  <2> DEFINE s == Documents!Snapshot
             P == Documents!Records
             T == Documents!Taken
             counted == Cardinality(Documents!Counted(listing[1])) + Cardinality(Documents!Counted(listing[2]))
             number(p) == IF market = "US" THEN Documents!CikOf(Documents!Key(Documents!Row(p))) ELSE None
             member(p) == [ticker |-> Documents!Row(p).ticker, file |-> p[1], cik |-> number(p)]
             M == {member(p) : p \in T}
  <2>1. /\ \A p \in P : p[1] \in 1 .. 2 /\ p[2] \in Nat
        /\ \A p, q \in P : p[1] = q[1] /\ p[2] = q[2] => p = q
        /\ IsFiniteSet(P) /\ Cardinality(P) <= counted /\ counted \in Nat
      BY SnapshotCounts
  <2>2. /\ T \subseteq P
        /\ \A p \in P : \E q \in T : KeyAt(q) = KeyAt(p)
        /\ \A p, q \in T : KeyAt(p) = KeyAt(q) => p = q
      BY <2>1, FirstIsTaken
  <2>3. s = [members |-> M, raw |-> counted, excluded |-> counted - Cardinality(P),
             duplicates |-> Cardinality(P) - Cardinality(T)]
      BY SameCount DEF Documents!Snapshot
  <2> HIDE DEF s, P, T, counted, number
  <2>4. \A p : member(p).ticker = Documents!Row(p).ticker
      OBVIOUS
  <2> HIDE DEF member
  <2>5. \A p, q \in T : member(p).ticker = member(q).ticker => KeyAt(p) = KeyAt(q)
      BY <2>4 DEF KeyAt, Documents!Key
  <2>6. \A p, q : Documents!SameSecurity(member(p), member(q)) <=> KeyAt(p) = KeyAt(q)
      BY <2>4 DEF KeyAt, Documents!Key, Documents!SameSecurity
  <2>7. \A p, q : Documents!SameSecurity(Documents!Row(p), member(q)) <=> KeyAt(p) = KeyAt(q)
      BY <2>4 DEF KeyAt, Documents!Key, Documents!SameSecurity
  <2>8. Cardinality(M) = Cardinality(T)
    <3> DEFINE f == [p \in T |-> member(p)]
    <3>1. f \in Surjection(T, M)
        BY DEF Surjection
    <3>2. f \in Injection(T, M)
      <4>1. \A p, q \in T : member(p) = member(q) => p = q
          BY <2>2, <2>5
      <4> QED BY <4>1 DEF Injection, IsInjective
    <3>3. IsFiniteSet(T)
        BY <2>1, <2>2, FS_Subset
    <3> HIDE DEF f, M
    <3> QED BY <3>1, <3>2, <3>3, FS_Surjection
  <2>9. /\ Cardinality(P) \in Nat /\ Cardinality(T) \in Nat
      BY <2>1, <2>2, FS_Subset, FS_CardinalityType
  <2>10. s.raw = Documents!Cardinality(s.members) + s.excluded + s.duplicates
    <3>1. Documents!Cardinality(s.members) = Cardinality(T)
        BY <2>3, <2>8, SameCount
    <3> QED BY <2>1, <2>3, <2>9, <3>1
  <2>11. s.excluded >= 0
      BY <2>1, <2>3, <2>9
  <2>12. \A p \in P : \E m \in s.members : Documents!SameSecurity(Documents!Row(p), m)
      BY <2>2, <2>3, <2>7
  <2>13. \A l, m \in s.members : Documents!SameSecurity(l, m) => l = m
      BY <2>2, <2>3, <2>6
  <2> QED BY <2>10, <2>11, <2>12, <2>13 DEF s, P
<1> QED BY <1>1, DocumentsInvariant, PTL

----------------------------------------------------------------------------
(* Facts and accounts *)

\* An entry that reports the year y.
Reports(tag, unit, y, n) == Documents!Entry(tag, unit, n) /\ facts[n].year = y

\* One turn of the loop over the entries.
Turn(tag, unit, y, n, was) ==
    IF Documents!Entry(tag, unit, n) /\ facts[n].year = y /\ Documents!Newer(facts[n].filed, was)
    THEN n ELSE was

\* What the loop holds after each of n turns.
Loop(tag, unit, y, k, g) ==
    g = [n \in 0 .. k |-> IF n = 0 THEN None ELSE Turn(tag, unit, y, n, g[n - 1])]

\* The loop has a value after every turn: the first turn without one would follow a
\* turn with one.
LEMMA LoopIsDefined ==
    ASSUME NEW tag, NEW unit, NEW y, NEW N \in Nat
    PROVE  \E g : Loop(tag, unit, y, N, g)
<1> DEFINE Loops(g, k) == Loop(tag, unit, y, k, g)
           bad == {k \in Nat : ~\E g : Loops(g, k)}
<1>1. SUFFICES ASSUME bad # {} PROVE FALSE
    OBVIOUS
<1>2. PICK k \in bad : \A j \in bad : k <= j
    BY <1>1, LeastNumber
<1>3. k # 0
  <2> DEFINE g == [n \in 0 .. 0 |-> None]
  <2>1. Loops(g, 0)
      BY DEF Loop
  <2> HIDE DEF Loops
  <2> QED BY <1>2, <2>1
<1>4. k - 1 \in Nat /\ k - 1 \notin bad /\ k \in Nat
    BY <1>2, <1>3
<1>5. PICK g : Loops(g, k - 1)
    BY <1>4
<1> DEFINE h == [n \in 0 .. k |-> IF n = k THEN Turn(tag, unit, y, k, g[k - 1]) ELSE g[n]]
<1>6. Loops(h, k)
  <2>1. ASSUME NEW n \in 0 .. k
        PROVE  h[n] = IF n = 0 THEN None ELSE Turn(tag, unit, y, n, h[n - 1])
    <3>1. CASE n = 0
        BY <1>3, <1>4, <1>5, <3>1 DEF Loop
    <3>2. CASE n # 0 /\ n # k
      <4>1. n \in 0 .. (k - 1) /\ n - 1 \in 0 .. k /\ n - 1 # k
          BY <1>4, <3>2
      <4>2. h[n] = g[n] /\ h[n - 1] = g[n - 1]
          BY <3>2, <4>1
      <4>3. g[n] = Turn(tag, unit, y, n, g[n - 1])
          BY <1>5, <3>2, <4>1 DEF Loop
      <4> QED BY <3>2, <4>2, <4>3
    <3>3. CASE n = k
      <4>1. k - 1 \in 0 .. k /\ k - 1 # k
          BY <1>4
      <4>2. h[k - 1] = g[k - 1]
          BY <4>1
      <4> QED BY <1>3, <3>3, <4>2
    <3> QED BY <3>1, <3>2, <3>3
  <2> DEFINE e(n) == IF n = 0 THEN None ELSE Turn(tag, unit, y, n, h[n - 1])
  <2>2. h = [n \in 0 .. k |-> e(n)]
    <3> HIDE DEF e
    <3>1. \A n \in 0 .. k : h[n] = e(n)
        BY <2>1 DEF e
    <3>2. h = [n \in 0 .. k |-> h[n]]
        OBVIOUS
    <3> HIDE DEF h
    <3> QED BY <3>1, <3>2
  <2> QED BY <2>2 DEF Loop
<1> HIDE DEF Loops, h
<1> QED BY <1>2, <1>6

\* After the turn n the loop holds m, the entry of the year that was filed last.
Held(tag, unit, y, n, m) ==
    /\ m = None \/ (m \in 1 .. n /\ Reports(tag, unit, y, m))
    /\ \A k \in 1 .. n : Reports(tag, unit, y, k) => m # None /\ facts[k].filed <= facts[m].filed

LEMMA FactsAreFiled ==
    ASSUME DocumentsInv
    PROVE  Len(facts) \in Nat /\ \A n \in 1 .. Len(facts) : facts[n].filed \in Nat
<1>1. Dates \subseteq Nat
    BY DocumentsAssumption
<1>2. facts \in Seq(Facts)
    BY DEF DocumentsInv
<1>3. \A x \in Facts : x.filed \in Dates
    BY DEF Facts
<1>4. Len(facts) \in Nat /\ \A n \in 1 .. Len(facts) : facts[n] \in Facts
    BY <1>2
<1> QED BY <1>1, <1>3, <1>4

LEMMA LatestIsHeld ==
    ASSUME DocumentsInv, NEW tag, NEW unit, NEW y
    PROVE  Held(tag, unit, y, Len(facts), Documents!Latest(tag, unit, y))
<1> DEFINE N == Len(facts)
           last == CHOOSE g : Loop(tag, unit, y, N, g)
<1>1. N \in Nat /\ \A n \in 1 .. N : facts[n].filed \in Nat
    BY FactsAreFiled
<1>2. Documents!Latest(tag, unit, y) = last[N]
    BY DEF Documents!Latest, Turn, Loop
<1>3. Loop(tag, unit, y, N, last)
    BY <1>1, LoopIsDefined
<1>4. /\ last[0] = None
      /\ \A n \in 1 .. N : last[n] = Turn(tag, unit, y, n, last[n - 1])
  <2> HIDE DEF last
  <2>1. \A n \in 0 .. N : last[n] = IF n = 0 THEN None ELSE Turn(tag, unit, y, n, last[n - 1])
      BY <1>3 DEF Loop
  <2> QED BY <1>1, <2>1
<1> HIDE DEF last
<1> DEFINE bad == {k \in 0 .. N : ~Held(tag, unit, y, k, last[k])}
<1>5. SUFFICES ASSUME bad # {} PROVE FALSE
    BY <1>1, <1>2
<1>6. PICK k \in bad : \A j \in bad : k <= j
  <2>1. bad \in SUBSET Nat
      BY <1>1
  <2> HIDE DEF bad
  <2> QED BY <1>5, <2>1, LeastNumber
<1>7. k # 0
  <2>1. Held(tag, unit, y, 0, last[0])
      BY <1>4 DEF Held
  <2> QED BY <1>6, <2>1
<1>8. k \in 1 .. N /\ k - 1 \in 0 .. N /\ k - 1 < k
    BY <1>1, <1>6, <1>7
<1>9. Held(tag, unit, y, k - 1, last[k - 1])
    BY <1>6, <1>8
<1>10. last[k] = Turn(tag, unit, y, k, last[k - 1])
    BY <1>4, <1>8
<1> DEFINE m == last[k - 1]
<1> HIDE DEF bad, m
<1>11. None \notin Int
    BY DocumentsAssumption
<1>12. Held(tag, unit, y, k, Turn(tag, unit, y, k, m))
  <2>1. CASE Reports(tag, unit, y, k) /\ Documents!Newer(facts[k].filed, m)
    <3>1. Turn(tag, unit, y, k, m) = k
        BY <2>1 DEF Turn, Reports
    <3>2. m = None \/ facts[k].filed > facts[m].filed
        BY <2>1 DEF Documents!Newer
    <3>3. ASSUME NEW i \in 1 .. k, Reports(tag, unit, y, i) PROVE k # None /\ facts[i].filed <= facts[k].filed
      <4>1. CASE i = k
          BY <1>1, <1>8, <1>11, <4>1
      <4>2. CASE i # k
        <5>1. i \in 1 .. (k - 1) /\ i \in 1 .. N
            BY <1>8, <4>2
        <5>2. m # None /\ facts[i].filed <= facts[m].filed
            BY <1>9, <3>3, <5>1 DEF Held, m
        <5>3. m \in 1 .. N
            BY <1>8, <1>9, <5>2 DEF Held, m
        <5> QED BY <1>1, <1>8, <1>11, <3>2, <5>1, <5>2, <5>3
      <4> QED BY <4>1, <4>2
    <3> QED BY <1>8, <2>1, <3>1, <3>3 DEF Held
  <2>2. CASE ~(Reports(tag, unit, y, k) /\ Documents!Newer(facts[k].filed, m))
    <3>1. Turn(tag, unit, y, k, m) = m
        BY <2>2 DEF Turn, Reports
    <3>2. m = None \/ (m \in 1 .. k /\ Reports(tag, unit, y, m))
        BY <1>8, <1>9 DEF Held, m
    <3>3. ASSUME NEW i \in 1 .. k, Reports(tag, unit, y, i) PROVE m # None /\ facts[i].filed <= facts[m].filed
      <4>1. CASE i = k
        <5>1. m # None /\ ~(facts[k].filed > facts[m].filed)
            BY <2>2, <3>3, <4>1 DEF Documents!Newer
        <5>2. m \in 1 .. N
            BY <1>8, <3>2, <5>1
        <5> QED BY <1>1, <1>8, <4>1, <5>1, <5>2
      <4>2. CASE i # k
        <5>1. i \in 1 .. (k - 1)
            BY <1>8, <4>2
        <5> QED BY <1>9, <3>3, <5>1 DEF Held, m
      <4> QED BY <4>1, <4>2
    <3> QED BY <3>1, <3>2, <3>3 DEF Held
  <2> QED BY <2>1, <2>2
<1> QED BY <1>6, <1>10, <1>12 DEF bad, m

\* Finitely many natural numbers have a bound: the first of them without one would
\* follow others with one.
LEMMA HasBound ==
    ASSUME NEW N \in Nat, NEW v \in [1 .. N -> Nat]
    PROVE  \E b \in Nat : \A n \in 1 .. N : v[n] <= b
<1> DEFINE bounded(k) == \E b \in Nat : \A n \in 1 .. k : v[n] <= b
           bad == {k \in Nat : k <= N /\ ~bounded(k)}
<1>1. SUFFICES ASSUME bad # {} PROVE FALSE
  <2>1. N \in bad \/ bounded(N)
      BY DEF bad
  <2> QED BY <2>1
<1>2. PICK k \in bad : \A j \in bad : k <= j
    BY <1>1, LeastNumber
<1>3. bounded(0)
  <2>1. \A n \in 1 .. 0 : v[n] <= 0
      OBVIOUS
  <2> QED BY <2>1
<1>4. k - 1 \in Nat /\ k \in 1 .. N /\ k - 1 <= N /\ bounded(k - 1) /\ ~bounded(k)
  <2> HIDE DEF bounded
  <2>1. k \in Nat /\ k <= N /\ ~bounded(k) /\ k # 0
      BY <1>3
  <2>2. k - 1 \in Nat /\ k \in 1 .. N /\ k - 1 <= N /\ ~(k <= k - 1)
      BY <2>1
  <2> QED BY <1>2, <2>1, <2>2
<1>5. PICK b \in Nat : \A n \in 1 .. (k - 1) : v[n] <= b
    BY <1>4
<1>6. v[k] \in Nat /\ \A n \in 1 .. (k - 1) : v[n] \in Nat
    BY <1>4
<1>7. \A n \in 1 .. k : v[n] <= b + v[k]
  <2>1. \A n \in 1 .. k : n = k \/ n \in 1 .. (k - 1)
      BY <1>4
  <2> QED BY <1>5, <1>6, <2>1
<1>8. b + v[k] \in Nat
    BY <1>6
<1> QED BY <1>4, <1>7, <1>8

\* Of some entries one was filed last.
LEMMA LatestDay ==
    ASSUME DocumentsInv, NEW D, D # {},
           \A d \in D : \E n \in 1 .. Len(facts) : d = facts[n].filed
    PROVE  \E d \in D : \A e \in D : e <= d
<1> DEFINE v == [n \in 1 .. Len(facts) |-> facts[n].filed]
<1>1. Len(facts) \in Nat /\ v \in [1 .. Len(facts) -> Nat]
    BY FactsAreFiled
<1>2. \A d \in D : \E n \in 1 .. Len(facts) : d = v[n]
    OBVIOUS
<1> HIDE DEF v
<1>3. PICK b \in Nat : \A n \in 1 .. Len(facts) : v[n] <= b
    BY <1>1, HasBound
<1>4. \A d \in D : d \in Nat /\ d <= b
    BY <1>1, <1>2, <1>3
<1> DEFINE T == {b - d : d \in D}
<1>5. T \in SUBSET Nat /\ T # {}
  <2>1. \A d \in D : b - d \in Nat
      BY <1>4
  <2> QED BY <2>1
<1>6. PICK t \in T : \A u \in T : t <= u
    BY <1>5, LeastNumber
<1>7. PICK d \in D : t = b - d
    OBVIOUS
<1>8. \A e \in D : t <= b - e
    BY <1>6
<1> HIDE DEF T
<1> QED BY <1>4, <1>7, <1>8

\* Every figure of a company is in the currency of its report and the one filed last for
\* its year, and a consolidated account is not passed over (_sec_annual_values,
\* _parse_sec_company_facts, _find_dart_account).
THEOREM LatestFilingsPrevail == RulesSpec => []LatestFilingPrevails
<1>1. DocumentsInv => LatestFilingPrevails
  <2> SUFFICES ASSUME DocumentsInv PROVE LatestFilingPrevails
      OBVIOUS
  <2> DEFINE c == Documents!Company
             unit == Documents!Currency
             figure(f, y) == Documents!Annual(f, unit)[y]
  <2>1. ASSUME c # None, NEW f \in DOMAIN TagsOf, NEW y \in c.years, c.figures[f][y] # None
        PROVE  LET n == c.figures[f][y]
               IN  /\ facts[n].unit = c.currency
                   /\ \A k \in 1 .. Len(facts) :
                         facts[k].annual /\ facts[k].tag = facts[n].tag /\ facts[k].year = y
                         /\ facts[k].unit = facts[n].unit
                         => facts[k].filed <= facts[n].filed
                   /\ facts[n].filed <= c.reported
    <3> DEFINE n == c.figures[f][y]
    <3>1. PICK years, days :
            /\ years \subseteq YearSet
            /\ days = UNION {{facts[figure(g, z)].filed : z \in {x \in years : figure(g, x) # None}} :
                                g \in DOMAIN TagsOf}
            /\ c = [currency |-> unit, years |-> years,
                    figures |-> [g \in DOMAIN TagsOf |-> [z \in years |-> figure(g, z)]],
                    reported |-> CHOOSE d \in days : \A e \in days : e <= d]
      <4> DEFINE series == [g \in DOMAIN TagsOf |-> Documents!Annual(g, unit)]
                 known  == {x \in YearSet : unit # None /\ series["revenue"][x] # None}
                 years  == {x \in known : Documents!Cardinality({z \in known : z > x}) < 3}
                 days   == UNION {{facts[series[g][z]].filed : z \in {x \in years : series[g][x] # None}} :
                                     g \in DOMAIN TagsOf}
      <4>1. c = IF years = {} THEN None
                ELSE [currency |-> unit, years |-> years,
                      figures |-> [g \in DOMAIN TagsOf |-> [z \in years |-> series[g][z]]],
                      reported |-> CHOOSE d \in days : \A e \in days : e <= d]
          BY DEF Documents!Company
      <4>2. years \subseteq YearSet
          OBVIOUS
      <4>3. \A g \in DOMAIN TagsOf : \A z : series[g][z] = figure(g, z)
          OBVIOUS
      <4> HIDE DEF series, years, c, figure
      <4>4. days = UNION {{facts[figure(g, z)].filed : z \in {x \in years : figure(g, x) # None}} :
                             g \in DOMAIN TagsOf}
          BY <4>3
      <4>5. [g \in DOMAIN TagsOf |-> [z \in years |-> series[g][z]]]
              = [g \in DOMAIN TagsOf |-> [z \in years |-> figure(g, z)]]
          BY <4>3
      <4> HIDE DEF days
      <4>6. years # {}
          BY <2>1, <4>1
      <4>7. c = [currency |-> unit, years |-> years,
                 figures |-> [g \in DOMAIN TagsOf |-> [z \in years |-> figure(g, z)]],
                 reported |-> CHOOSE d \in days : \A e \in days : e <= d]
          BY <4>1, <4>5, <4>6
      <4> HIDE DEF unit
      <4> QED BY <4>2, <4>4, <4>7
    <3>2. /\ c.currency = unit /\ c.years = years /\ y \in years
          /\ c.reported = CHOOSE d \in days : \A e \in days : e <= d
          /\ n = figure(f, y) /\ n # None
      <4>1. /\ c.currency = unit /\ c.years = years
            /\ c.figures = [g \in DOMAIN TagsOf |-> [z \in years |-> figure(g, z)]]
            /\ c.reported = CHOOSE d \in days : \A e \in days : e <= d
          BY <3>1
      <4> HIDE DEF c, figure
      <4> QED BY <2>1, <4>1
    <3> HIDE DEF c, n
    <3>3. ASSUME NEW g \in DOMAIN TagsOf, NEW z \in years, figure(g, z) # None
          PROVE  \E tag : /\ figure(g, z) = Documents!Latest(tag, unit, z)
                          /\ Held(tag, unit, z, Len(facts), figure(g, z))
      <4>1. z \in YearSet
          BY <3>1
      <4>2. \E tag : figure(g, z) = Documents!Latest(tag, unit, z)
          BY <3>3, <4>1 DEF Documents!Annual
      <4> QED BY <4>2, LatestIsHeld
    <3>4. PICK tag : Held(tag, unit, y, Len(facts), n)
        BY <3>2, <3>3
    <3>5. n \in 1 .. Len(facts) /\ facts[n].tag = tag /\ facts[n].unit = unit
        BY <3>2, <3>4 DEF Held, Reports, Documents!Entry
    <3>6. ASSUME NEW k \in 1 .. Len(facts), facts[k].annual, facts[k].tag = facts[n].tag,
                 facts[k].year = y, facts[k].unit = facts[n].unit
          PROVE  facts[k].filed <= facts[n].filed
        BY <3>4, <3>5, <3>6 DEF Held, Reports, Documents!Entry
    <3>7. facts[n].filed \in days
        BY <3>1, <3>2
    <3>8. \A d \in days : \E k \in 1 .. Len(facts) : d = facts[k].filed
      <4>1. \A d \in days : \E g \in DOMAIN TagsOf : \E z \in years :
              figure(g, z) # None /\ d = facts[figure(g, z)].filed
          BY <3>1
      <4>2. \A g \in DOMAIN TagsOf : \A z \in years :
              figure(g, z) # None => figure(g, z) \in 1 .. Len(facts)
          BY <3>3 DEF Held
      <4> QED BY <4>1, <4>2
    <3>9. \E d \in days : \A e \in days : e <= d
        BY <3>7, <3>8, LatestDay
    <3>10. facts[n].filed <= c.reported
        BY <3>2, <3>7, <3>9
    <3> QED BY <3>2, <3>5, <3>6, <3>10 DEF n
  <2>2. ASSUME NEW n \in 1 .. Len(accounts), accounts[n].consolidated
        PROVE  LET m == Documents!Statement[accounts[n].field]
               IN  accounts[m].consolidated /\ m <= n
    <3> DEFINE f == accounts[n].field
               rows == {k \in 1 .. Len(accounts) : accounts[k].field = f}
               T == {k \in rows : accounts[k].consolidated}
    <3>1. accounts[n] \in Accounts /\ f \in DOMAIN TagsOf
      <4>1. accounts[n] \in Accounts
          BY DEF DocumentsInv
      <4> QED BY <4>1 DEF Accounts
    <3>2. n \in T /\ T \in SUBSET Nat
        BY <2>2
    <3>3. Documents!Statement[f] = CHOOSE k \in T : \A j \in T : k <= j
        BY <3>1, <3>2 DEF Documents!Statement, Documents!AccountRow
    <3>4. \E k \in T : \A j \in T : k <= j
        BY <3>2, LeastNumber
    <3>5. Documents!Statement[f] \in T /\ \A j \in T : Documents!Statement[f] <= j
        BY <3>3, <3>4
    <3> QED BY <3>2, <3>5
  <2> QED BY <2>1, <2>2 DEF LatestFilingPrevails, Documents!LatestFilingPrevails
<1> QED BY <1>1, DocumentsInvariant, PTL

----------------------------------------------------------------------------
(* Companies and their screening *)

\* The last scan saw the present evidence, which is well formed.
CompaniesInv ==
    /\ request.profile \in {"defensive", "balanced", "aggressive"}
    /\ request.strategy \in {"balanced", "momentum", "defensive"}
    /\ AreCompanies(filings, quotes)
    /\ outcome = Screens!Screen(filings, quotes, request)

\* A filing with one figure replaced, as CorrectYear and Correct replace it.
LEMMA FiguresCorrected ==
    ASSUME NEW f, IsFiling(f)
    PROVE  /\ \A k, y, v : k \in Annuals /\ v \in Amount => IsFiling([f EXCEPT ![k][y] = v])
           /\ \A k, v : k \notin Annuals /\ Datum(k, v) => IsFiling([f EXCEPT ![k] = v])
<1>1. ASSUME NEW k, NEW y, NEW v, k \in Annuals, v \in Amount
      PROVE  IsFiling([f EXCEPT ![k][y] = v])
    BY <1>1, Zenon DEF IsFiling
<1>2. ASSUME NEW k, NEW v, k \notin Annuals, Datum(k, v)
      PROVE  IsFiling([f EXCEPT ![k] = v])
    BY <1>2 DEF IsFiling
<1> QED BY <1>1, <1>2

\* A quote with one metric replaced, as Trade replaces it.
LEMMA MetricsTraded ==
    ASSUME NEW q, IsQuote(q), NEW k, NEW v, Metric(k, v)
    PROVE  IsQuote([q EXCEPT ![k] = v])
BY DEF IsQuote

\* Every scan follows the evidence it judged, and corrections keep it well formed.
LEMMA CompaniesInvariant == RulesSpec => []CompaniesInv
<1>1. RulesInit => CompaniesInv
  <2> SUFFICES ASSUME RulesInit PROVE CompaniesInv
      OBVIOUS
  <2>1. CASE NoCompanies
    <3>1. AreCompanies(<<>>, <<>>)
        BY FS_EmptySet DEF AreCompanies
    <3> QED BY <2>1, <3>1 DEF CompaniesInv, NoCompanies, NoRequest, NoScan
  <2>2. CASE Screens!Init
    <3>1. request.profile \in Profiles /\ request.strategy \in Strategies
        BY <2>2 DEF Screens!Init
    <3>2. PICK m \in Markets0 : filings = m.filings /\ quotes = m.quotes
        BY <2>2 DEF Screens!Init
    <3> QED BY <2>2, <3>1, <3>2, CompaniesAssumption DEF CompaniesInv, Screens!Init
  <2> QED BY <2>1, <2>2 DEF RulesInit
<1>2. CompaniesInv /\ [RulesNext]_<<companies, documents, readings>> => CompaniesInv'
  <2> SUFFICES ASSUME CompaniesInv, [RulesNext]_<<companies, documents, readings>> PROVE CompaniesInv'
      OBVIOUS
  <2>1. CASE UNCHANGED companies
      BY <2>1 DEF CompaniesInv, companies
  <2>2. CASE Screens!Next
    <3>0. PICK c \in DOMAIN filings :
            \/ \E k \in Screens!Yearly, y \in Screens!Years : \E v \in Figures[k] : Screens!CorrectYear(c, k, y, v)
            \/ \E k \in DOMAIN Figures \ Screens!Yearly : \E v \in Figures[k] : Screens!Correct(c, k, v)
            \/ \E k \in DOMAIN Quotes : \E v \in Quotes[k] : Screens!Trade(c, k, v)
        BY <2>2, Zenon DEF Screens!Next
    <3>1. request' = request /\ outcome' = Screens!Screen(filings', quotes', request')
      <4>1. Screens!Scan /\ request' = request
          BY <3>0 DEF Screens!CorrectYear, Screens!Correct, Screens!Trade
      <4> QED BY <4>1 DEF Screens!Scan
    <3>2. ASSUME NEW f, IsFiling(f), filings' = [filings EXCEPT ![c] = f], quotes' = quotes
          PROVE  AreCompanies(filings', quotes')
        BY <3>2 DEF CompaniesInv, AreCompanies
    <3>3. ASSUME NEW q, IsQuote(q), quotes' = [quotes EXCEPT ![c] = q], filings' = filings
          PROVE  AreCompanies(filings', quotes')
        BY <3>3 DEF CompaniesInv, AreCompanies
    <3>4. IsFiling(filings[c]) /\ IsQuote(quotes[c])
        BY DEF CompaniesInv, AreCompanies
    <3>5. AreCompanies(filings', quotes')
      <4>1. CASE \E k \in Screens!Yearly, y \in Screens!Years : \E v \in Figures[k] : Screens!CorrectYear(c, k, y, v)
        <5>1. PICK k \in Screens!Yearly, y \in Screens!Years : \E v \in Figures[k] : Screens!CorrectYear(c, k, y, v)
            BY <4>1
        <5>2. PICK v \in Figures[k] : Screens!CorrectYear(c, k, y, v)
            BY <5>1
        <5>3. k \in Annuals /\ v \in Amount
            BY CompaniesAssumption DEF Annuals, Screens!Yearly
        <5>4. IsFiling([filings[c] EXCEPT ![k][y] = v])
            BY <3>4, <5>3, FiguresCorrected
        <5>5. filings' = [filings EXCEPT ![c] = [filings[c] EXCEPT ![k][y] = v]] /\ quotes' = quotes
            BY <5>2, Zenon DEF Screens!CorrectYear
        <5> QED BY <5>4, <5>5, <3>2
      <4>2. CASE \E k \in DOMAIN Figures \ Screens!Yearly : \E v \in Figures[k] : Screens!Correct(c, k, v)
        <5>1. PICK k \in DOMAIN Figures \ Screens!Yearly : \E v \in Figures[k] : Screens!Correct(c, k, v)
            BY <4>2
        <5>2. PICK v \in Figures[k] : Screens!Correct(c, k, v)
            BY <5>1
        <5>3. k \notin Annuals /\ Datum(k, v)
            BY CompaniesAssumption DEF Annuals, Screens!Yearly
        <5>4. IsFiling([filings[c] EXCEPT ![k] = v])
            BY <3>4, <5>3, FiguresCorrected
        <5>5. filings' = [filings EXCEPT ![c] = [filings[c] EXCEPT ![k] = v]] /\ quotes' = quotes
            BY <5>2, Zenon DEF Screens!Correct
        <5> QED BY <5>4, <5>5, <3>2
      <4>3. CASE \E k \in DOMAIN Quotes : \E v \in Quotes[k] : Screens!Trade(c, k, v)
        <5>1. PICK k \in DOMAIN Quotes : \E v \in Quotes[k] : Screens!Trade(c, k, v)
            BY <4>3
        <5>2. PICK v \in Quotes[k] : Screens!Trade(c, k, v)
            BY <5>1
        <5>4. IsQuote([quotes[c] EXCEPT ![k] = v])
            BY <3>4, CompaniesAssumption, MetricsTraded
        <5>5. quotes' = [quotes EXCEPT ![c] = [quotes[c] EXCEPT ![k] = v]] /\ filings' = filings
            BY <5>2, Zenon DEF Screens!Trade
        <5> QED BY <5>4, <5>5, <3>3
      <4> QED BY <3>0, <4>1, <4>2, <4>3
    <3> QED BY <3>1, <3>5 DEF CompaniesInv
  <2> QED BY <2>1, <2>2 DEF RulesNext
<1> QED BY <1>1, <1>2, PTL DEF RulesSpec

----------------------------------------------------------------------------
(* Scores *)

\* Quotients grow with their numerators.
LEMMA Division ==
    ASSUME NEW d \in Nat \ {0}
    PROVE  /\ \A a \in Int : a \div d \in Int /\ (a \div d) * d <= a /\ a < (a \div d) * d + d
           /\ \A a, b \in Int : a <= b => a \div d <= b \div d
<1>1. ASSUME NEW a \in Int PROVE a \div d \in Int /\ (a \div d) * d <= a /\ a < (a \div d) * d + d
    OBVIOUS
<1>2. ASSUME NEW a \in Int, NEW b \in Int, a <= b PROVE a \div d <= b \div d
  <2> DEFINE m == a \div d  n == b \div d
  <2>1. m \in Int /\ n \in Int /\ m * d <= a /\ b < n * d + d
      BY <1>1
  <2> HIDE DEF m, n
  <2>2. ASSUME n + 1 <= m PROVE FALSE
    <3>1. \E k \in Nat : m = n + 1 + k
        BY <2>1, <2>2
    <3>2. PICK k \in Nat : m = n + 1 + k
        BY <3>1
    <3>3. m * d = n * d + d + k * d
        BY <2>1, <3>2
    <3>4. k * d >= 0
        OBVIOUS
    <3>5. m * d \in Int /\ n * d \in Int /\ k * d \in Int
        BY <2>1
    <3> QED BY <1>2, <2>1, <3>3, <3>4, <3>5
  <2> QED BY <2>1, <2>2 DEF m, n
<1> QED BY <1>1, <1>2

Score == 0 .. 10000

\* The bounds of a score, as inequalities.
LEMMA Scores ==
    /\ \A x \in Score : x \in Int /\ 0 <= x /\ x <= 10000
    /\ \A x \in Int : 0 <= x /\ x <= 10000 => x \in Score
BY DEF Score

\* _clamp keeps a score between 0 and 100 points, and the order of scores.
LEMMA ClampIsScore ==
    /\ \A v \in Int : Screens!Clamp(v) \in Score
    /\ \A v, w \in Int : v <= w => Screens!Clamp(v) <= Screens!Clamp(w)
<1>1. \A v \in Int : Screens!Clamp(v) = IF v < 0 THEN 0 ELSE IF v < 10000 THEN v ELSE 10000
    BY DEF Screens!Clamp, Screens!Least, Screens!Full, Screens!Point
<1>2. \A v \in Int : Screens!Clamp(v) \in Score
    BY <1>1, Scores
<1>3. \A v, w \in Int : v <= w => Screens!Clamp(v) <= Screens!Clamp(w)
    BY <1>1
<1> QED BY <1>2, <1>3

\* _scale yields a score, and keeps the order of what it measures.
LEMMA ScaleIsScore ==
    ASSUME NEW low \in Int, NEW high \in Int, low < high
    PROVE  /\ \A v \in Int : Screens!Scale(v, low, high) \in Score
           /\ \A v, w \in Int : v <= w => Screens!Scale(v, low, high) <= Screens!Scale(w, low, high)
<1> DEFINE d == high - low
           within(v) == ((v - low) * 10000) \div d
<1>1. d \in Nat \ {0}
    OBVIOUS
<1>2. \A v \in Int : Screens!Scale(v, low, high)
                      = IF v <= low THEN 0 ELSE IF v >= high THEN 10000 ELSE within(v)
    BY DEF Screens!Scale, Screens!Full, Screens!Point
<1> HIDE DEF d
<1>3. \A v \in Int : low < v /\ v < high => within(v) \in Score
  <2> TAKE v \in Int
  <2> HAVE low < v /\ v < high
  <2> DEFINE n == (v - low) * 10000  q == n \div d
  <2>1. n \in Int /\ 0 <= n /\ n <= d * 10000
      BY DEF d
  <2> HIDE DEF n
  <2>2. q \in Int /\ 0 \div d <= q /\ q <= (d * 10000) \div d
      BY <1>1, <2>1, Division
  <2>3. 0 \div d = 0 /\ (d * 10000) \div d = 10000
      BY <1>1
  <2>4. 0 <= q /\ q <= 10000
      BY <2>2, <2>3
  <2> HIDE DEF q
  <2>5. q \in Score
      BY <2>2, <2>4, Scores
  <2> QED BY <2>5 DEF q, n
<1>4. \A v, w \in Int : v <= w => within(v) <= within(w)
  <2> TAKE v, w \in Int
  <2> HAVE v <= w
  <2>1. (v - low) * 10000 \in Int /\ (w - low) * 10000 \in Int /\ (v - low) * 10000 <= (w - low) * 10000
      OBVIOUS
  <2> QED BY <1>1, <2>1, Division
<1> HIDE DEF within
<1>5. 0 \in Score /\ 10000 \in Score /\ \A x \in Score : 0 <= x /\ x <= 10000
    BY Scores
<1>6. \A v \in Int : Screens!Scale(v, low, high) \in Score
    BY <1>2, <1>3, <1>5
<1>7. ASSUME NEW v \in Int, NEW w \in Int, v <= w
      PROVE  Screens!Scale(v, low, high) <= Screens!Scale(w, low, high)
  <2>1. CASE v <= low
      BY <1>2, <1>5, <1>6, <2>1
  <2>2. CASE w >= high
      BY <1>2, <1>5, <1>6, <2>2
  <2>3. CASE low < v /\ w < high
      BY <1>2, <1>4, <1>7, <2>3
  <2> QED BY <1>7, <2>1, <2>2, <2>3
<1> QED BY <1>6, <1>7

----------------------------------------------------------------------------
(* Better figures *)

\* The module that is instantiated counts as this one does.
LEMMA ScreensCount == \A S : Screens!Cardinality(S) = Cardinality(S)
BY Zenon DEF Screens!Cardinality, Cardinality

\* Multiples keep order.
LEMMA Multiples ==
    ASSUME NEW k \in Nat, NEW a \in Int, NEW b \in Int, a <= b
    PROVE  k * a <= k * b
<1>1. b - a \in Nat
    OBVIOUS
<1>2. k * (b - a) \in Nat
    BY <1>1
<1>3. k * (b - a) = k * b - k * a
    OBVIOUS
<1> QED BY <1>2, <1>3

\* g percent a year leads from first to last at most, and g + 1 percent further.
Grows(first, last, g) ==
    /\ (100 + g) * (100 + g) * first <= last * 10000 \/ g = -3
    /\ (101 + g) * (101 + g) * first > last * 10000 \/ g = 25

\* _compound_growth is defined.
LEMMA GrowthIsDefined ==
    ASSUME NEW first \in Int, NEW last \in Int, 0 < first, 0 < last
    PROVE  Screens!Growth(first, last) \in -3 .. 25 /\ Grows(first, last, Screens!Growth(first, last))
<1> DEFINE over(g) == (101 + g) * (101 + g) * first > last * 10000 \/ g = 25
           T == {n \in 0 .. 28 : over(n - 3)}
<1>1. 28 \in T /\ T \in SUBSET Nat
    OBVIOUS
<1> HIDE DEF T
<1>2. PICK n \in T : \A m \in T : n <= m
    BY <1>1, LeastNumber
<1>3. n \in 0 .. 28 /\ over(n - 3)
    BY <1>2 DEF T
<1>4. CASE n = 0
    BY <1>3, <1>4 DEF Grows, Screens!Growth
<1>5. CASE n # 0
  <2>1. n - 1 \in 0 .. 28 /\ n - 1 \notin T
      BY <1>2, <1>3, <1>5
  <2>2. ~over(n - 1 - 3)
      BY <2>1 DEF T
  <2>3. 101 + (n - 1 - 3) = 100 + (n - 3)
      BY <1>3
  <2>4. (100 + (n - 3)) * (100 + (n - 3)) * first <= last * 10000
      BY <1>3, <2>2, <2>3
  <2>5. n - 3 \in -3 .. 25 /\ Grows(first, last, n - 3)
      BY <1>3, <2>4 DEF Grows
  <2> QED BY <2>5 DEF Screens!Growth, Grows
<1> QED BY <1>4, <1>5

\* From less to more the growth is no smaller.
LEMMA GrowthOrdered ==
    ASSUME NEW a \in Int, NEW b \in Int, NEW first \in Int, NEW last \in Int,
           0 < first, first <= a, b <= last
    PROVE  /\ Screens!Growth(a, b) \in Int /\ Screens!Growth(first, last) \in Int
           /\ Screens!Growth(a, b) <= Screens!Growth(first, last)
<1> DEFINE g == Screens!Growth(a, b)
           h == Screens!Growth(first, last)
<1>1. CASE b <= 0
  <2>1. g = -100
      BY <1>1 DEF Screens!Growth
  <2>2. h = -100 \/ h \in -3 .. 25
      BY GrowthIsDefined DEF Screens!Growth
  <2> QED BY <2>1, <2>2
<1>2. CASE 0 < b
  <2>1. /\ g \in -3 .. 25 /\ Grows(a, b, g)
        /\ h \in -3 .. 25 /\ Grows(first, last, h)
      BY <1>2, GrowthIsDefined
  <2> HIDE DEF g, h
  <2>2. ASSUME h + 1 <= g PROVE FALSE
    <3> DEFINE x == 100 + g  y == 101 + h
    <3>1. x \in Nat /\ y \in Nat /\ y <= x
        BY <2>1, <2>2
    <3>2. x * x * a <= b * 10000 /\ y * y * first > last * 10000
        BY <2>1, <2>2 DEF Grows
    <3> HIDE DEF x, y
    <3>3. y * y <= x * y /\ x * y <= x * x
        BY <3>1, Multiples
    <3>4. x * x \in Nat /\ y * y \in Nat /\ y * y <= x * x
        BY <3>1, <3>3
    <3>5. \A m, n \in Nat : m <= n => m * first <= n * first /\ n * first <= n * a
      <4> TAKE m, n \in Nat
      <4> HAVE m <= n
      <4>1. first * m <= first * n /\ n * first <= n * a
          BY Multiples
      <4> QED BY <4>1
    <3>6. y * y * first <= x * x * a
      <4> DEFINE m == y * y  n == x * x
      <4>1. m \in Nat /\ n \in Nat /\ m <= n
          BY <3>4
      <4> HIDE DEF m, n
      <4>2. m * first <= n * first /\ n * first <= n * a
          BY <3>5, <4>1
      <4>3. m * first <= n * a
          BY <4>1, <4>2
      <4> QED BY <4>3 DEF m, n
    <3>7. b * 10000 <= last * 10000
        OBVIOUS
    <3>8. x * x * a \in Int /\ y * y * first \in Int
        BY <3>4
    <3> QED BY <3>2, <3>6, <3>7, <3>8
  <2>3. g \in Int /\ h \in Int
      BY <2>1
  <2> QED BY <2>2, <2>3 DEF g, h
<1> QED BY <1>1, <1>2

\* The figures of a filing that lacks nothing.
LEMMA CompleteFiling ==
    ASSUME NEW f, IsFiling(f), ~Screens!Missing(f)
    PROVE  /\ \A y \in 1 .. 3 : /\ f.revenue[y] \in Int /\ f.operating[y] \in Int
                                /\ f.net[y] \in Int /\ f.cash[y] \in Int
           /\ f.equity \in Int /\ f.assets \in Int /\ f.liabilities \in Int
<1> DEFINE F == {"sector", "special", "age", "revenue", "operating", "net", "cash",
                 "equity", "assets", "liabilities", "pe", "pb"}
<1>1. DOMAIN f = F
    BY DEF IsFiling
<1>2. \A k \in Annuals : f[k] \in [1 .. 3 -> Amount] /\ \A y \in 1 .. 3 : f[k][y] # None
    BY <1>1 DEF IsFiling, Annuals, Screens!Missing, Screens!Yearly, Screens!Years
<1>3. \A k \in Annuals : \A y \in 1 .. 3 : f[k][y] \in Int
    BY <1>2 DEF Amount
<1>4. f.equity \in Amount /\ f.assets \in Amount /\ f.liabilities \in Amount
    BY <1>1 DEF IsFiling, Annuals, Datum
<1>5. f.equity # None /\ f.assets # None /\ f.liabilities # None
    BY DEF Screens!Missing
<1> QED BY <1>3, <1>4, <1>5 DEF Annuals, Amount

\* Of three better figures no fewer are positive.
LEMMA PositiveCounts ==
    ASSUME NEW a, NEW b, \A y \in 1 .. 3 : a[y] \in Int /\ b[y] \in Int /\ a[y] <= b[y]
    PROVE  /\ Screens!Positive(a) \in Nat /\ Screens!Positive(b) \in Nat
           /\ Screens!Positive(a) <= Screens!Positive(b) /\ Screens!Positive(b) <= 3
<1> DEFINE A == {y \in 1 .. 3 : a[y] > 0}
           B == {y \in 1 .. 3 : b[y] > 0}
<1>1. A \in SUBSET B /\ B \in SUBSET (1 .. 3)
    OBVIOUS
<1>2. IsFiniteSet(1 .. 3) /\ Cardinality(1 .. 3) = 3
  <2>1. IsFiniteSet(1 .. 3) /\ Cardinality(1 .. 3) = IF 1 > 3 THEN 0 ELSE 3 - 1 + 1
      BY FS_Interval, 1 \in Int, 3 \in Int, Zenon
  <2> QED BY <2>1
<1>3. Screens!Positive(a) = Cardinality(A) /\ Screens!Positive(b) = Cardinality(B)
    BY ScreensCount DEF Screens!Positive, Screens!Years
<1> HIDE DEF A, B
<1>4. /\ IsFiniteSet(B) /\ Cardinality(B) <= 3
    BY <1>1, <1>2, FS_Subset
<1>5. /\ IsFiniteSet(A) /\ Cardinality(A) <= Cardinality(B)
    BY <1>1, <1>4, FS_Subset
<1> QED BY <1>3, <1>4, <1>5, FS_CardinalityType

Profile == {"defensive", "balanced", "aggressive"}

\* Better figures pass the gate that the others passed.
LEMMA BetterPasses ==
    ASSUME NEW f, NEW g, IsFiling(f), IsFiling(g), Screens!Better(f, g), NEW p \in Profile,
           ~Screens!Failing(f, p)
    PROVE  ~Screens!Failing(g, p)
<1>1. ~Screens!Missing(f) /\ ~Screens!Missing(g)
    BY DEF Screens!Better
<1>2. /\ \A y \in 1 .. 3 : /\ f.net[y] \in Int /\ g.net[y] \in Int /\ f.net[y] <= g.net[y]
                           /\ f.cash[y] \in Int /\ g.cash[y] \in Int /\ f.cash[y] <= g.cash[y]
                           /\ f.operating[y] \in Int /\ g.operating[y] \in Int
                           /\ f.operating[y] <= g.operating[y]
                           /\ f.revenue[y] \in Int /\ g.revenue[y] \in Int
      /\ f.equity \in Int /\ g.equity \in Int /\ f.liabilities \in Int /\ g.liabilities \in Int
  <2>1. \A k \in {"operating", "net", "cash"}, y \in 1 .. 3 : g[k][y] >= f[k][y]
      BY DEF Screens!Better, Screens!Years
  <2>2. \A y \in 1 .. 3 : g.operating[y] >= f.operating[y] /\ g.net[y] >= f.net[y] /\ g.cash[y] >= f.cash[y]
      BY <2>1
  <2> QED BY <1>1, <2>2, CompleteFiling
<1>3. /\ Screens!Positive(f.net) \in Nat /\ Screens!Positive(g.net) \in Nat
      /\ Screens!Positive(f.net) <= Screens!Positive(g.net)
      /\ Screens!Positive(f.cash) \in Nat /\ Screens!Positive(g.cash) \in Nat
      /\ Screens!Positive(f.cash) <= Screens!Positive(g.cash)
    BY <1>2, PositiveCounts
<1>4. f.equity <= g.equity /\ g.liabilities <= f.liabilities
    BY <1>2 DEF Screens!Better
<1>5. /\ Screens!RevenueGrowth(f) \in Int /\ Screens!RevenueGrowth(g) \in Int
      /\ Screens!RevenueGrowth(f) <= Screens!RevenueGrowth(g)
  <2>1. 0 < g.revenue[1] /\ g.revenue[1] <= f.revenue[1] /\ f.revenue[3] <= g.revenue[3]
      BY <1>2 DEF Screens!Better
  <2>2. 1 \in 1 .. 3 /\ 3 \in 1 .. 3
      OBVIOUS
  <2>3. /\ f.revenue[1] \in Int /\ f.revenue[3] \in Int
        /\ g.revenue[1] \in Int /\ g.revenue[3] \in Int
      BY <1>2, <2>2
  <2> QED BY <2>1, <2>3, GrowthOrdered DEF Screens!RevenueGrowth
<1>6. Screens!DebtLimit(p) \in {15, 25, 35} /\ Screens!MinimumGrowth(p) \in {5, -2}
    BY DEF Screens!DebtLimit, Screens!MinimumGrowth, Profile
<1>7. /\ f.equity > 0 /\ f.operating[3] > 0 /\ f.net[3] > 0
      /\ Screens!Positive(f.net) >= 2 /\ Screens!Positive(f.cash) >= 2
      /\ ~(10 * f.liabilities > Screens!DebtLimit(p) * f.equity)
      /\ ~(Screens!RevenueGrowth(f) < Screens!MinimumGrowth(p))
    BY <1>2, <1>3 DEF Screens!Failing
<1>8. ~(10 * g.liabilities > Screens!DebtLimit(p) * g.equity)
    BY <1>2, <1>4, <1>6, <1>7
<1>9. ~(Screens!RevenueGrowth(g) < Screens!MinimumGrowth(p))
    BY <1>5, <1>6, <1>7
<1>10. g.equity > 0 /\ g.operating[3] > 0 /\ g.net[3] > 0
    BY <1>2, <1>4, <1>7
<1>11. ~(g.equity <= 0) /\ ~(g.operating[3] <= 0) /\ ~(g.net[3] <= 0)
    BY <1>2, <1>10
<1>12. ~(Screens!Positive(g.net) < 2) /\ ~(Screens!Positive(g.cash) < 2)
    BY <1>3, <1>7
<1> QED BY <1>8, <1>9, <1>11, <1>12 DEF Screens!Failing

\* Ratios to a positive base grow with what is measured.
LEMMA RatioOrdered ==
    ASSUME NEW d \in Int, 0 < d
    PROVE  /\ \A a \in Int : Screens!Ratio(a, d) \in Int
           /\ \A a, b \in Int : a <= b => Screens!Ratio(a, d) <= Screens!Ratio(b, d)
<1>1. d \in Nat \ {0} /\ \A a \in Int : a * 10000 \in Int
    OBVIOUS
<1>2. \A a, b \in Int : a <= b => a * 10000 <= b * 10000
    OBVIOUS
<1> QED BY <1>1, <1>2, Division DEF Screens!Ratio

\* The terms of the quality score: years in profit, years with cash, the return on
\* equity and the debt.
Points(n, k, s, u) ==
    (n * 25 * Screens!Point + k * 25 * Screens!Point) \div 3
    + (s * 30 + (Screens!Full - u) * 20) \div 100

LEMMA QualityOrdered ==
    ASSUME NEW n \in Nat, NEW m \in Nat, NEW k \in Nat, NEW j \in Nat, n <= m, k <= j,
           NEW s \in Score, NEW t \in Score, NEW u \in Score, NEW v \in Score, s <= t, v <= u
    PROVE  /\ Points(n, k, s, u) \in Int
           /\ Points(m, j, t, v) \in Int
           /\ Points(n, k, s, u)
              <= Points(m, j, t, v)
           /\ 4 <= n + k => 3333 <= Points(n, k, s, u)
BY Scores, SMT DEF Points, Screens!Full, Screens!Point

\* The figures of a filing that passes.
Passes(f, p) == ~Screens!Missing(f) /\ ~f.special /\ ~Screens!Failing(f, p)

LEMMA PassingFigures ==
    ASSUME NEW f, IsFiling(f), NEW p \in Profile, Passes(f, p)
    PROVE  /\ f.equity \in Int /\ 0 < f.equity /\ f.liabilities \in Int
           /\ f.net[3] \in Int
           /\ Screens!Positive(f.net) \in Nat /\ 2 <= Screens!Positive(f.net)
           /\ Screens!Positive(f.cash) \in Nat /\ 2 <= Screens!Positive(f.cash)
<1>1. /\ \A y \in 1 .. 3 : f.net[y] \in Int /\ f.cash[y] \in Int
      /\ f.equity \in Int /\ f.liabilities \in Int
    BY CompleteFiling DEF Passes
<1>2. Screens!Positive(f.net) \in Nat /\ Screens!Positive(f.cash) \in Nat
  <2>1. \A y \in 1 .. 3 : f.net[y] <= f.net[y] /\ f.cash[y] <= f.cash[y]
      BY <1>1
  <2> QED BY <1>1, <2>1, PositiveCounts
<1>3. /\ ~(f.equity <= 0) /\ ~(Screens!Positive(f.net) < 2) /\ ~(Screens!Positive(f.cash) < 2)
    BY DEF Passes, Screens!Failing
<1>4. 3 \in 1 .. 3
    OBVIOUS
<1>5. f.net[3] \in Int
    BY <1>1, <1>4
<1> QED BY <1>1, <1>2, <1>3, <1>5

\* The quality of a filing that passes, by its terms.
LEMMA QualityTerms ==
    ASSUME NEW f, IsFiling(f), NEW p \in Profile, Passes(f, p)
    PROVE  /\ Screens!Scale(Screens!Ratio(f.net[3], f.equity), 0, 2500) \in Score
           /\ Screens!Scale(Screens!Ratio(f.liabilities, f.equity), 5000, 35000) \in Score
           /\ Screens!Quality(f) =
                Points(Screens!Positive(f.net), Screens!Positive(f.cash),
                       Screens!Scale(Screens!Ratio(f.net[3], f.equity), 0, 2500),
                       Screens!Scale(Screens!Ratio(f.liabilities, f.equity), 5000, 35000))
<1>1. /\ Screens!Ratio(f.net[3], f.equity) \in Int
      /\ Screens!Ratio(f.liabilities, f.equity) \in Int
    BY PassingFigures, RatioOrdered
<1>3. /\ Screens!Scale(Screens!Ratio(f.net[3], f.equity), 0, 2500) \in Score
      /\ Screens!Scale(Screens!Ratio(f.liabilities, f.equity), 5000, 35000) \in Score
  <2> DEFINE r == Screens!Ratio(f.net[3], f.equity)
             b == Screens!Ratio(f.liabilities, f.equity)
  <2> HIDE DEF r, b
  <2>1. r \in Int /\ b \in Int
      BY <1>1 DEF r, b
  <2>2. Screens!Scale(r, 0, 2500) \in Score /\ Screens!Scale(b, 5000, 35000) \in Score
      BY <2>1, ScaleIsScore
  <2> QED BY <2>2 DEF r, b
<1>5. Screens!Quality(f) =
                Points(Screens!Positive(f.net), Screens!Positive(f.cash),
                       Screens!Scale(Screens!Ratio(f.net[3], f.equity), 0, 2500),
                       Screens!Scale(Screens!Ratio(f.liabilities, f.equity), 5000, 35000))
    BY DEF Screens!Quality, Points
<1> QED BY <1>3, <1>5

\* Two years of three in profit and with cash are worth 33 points.
LEMMA QualityBounds ==
    ASSUME NEW f, IsFiling(f), NEW p \in Profile, Passes(f, p)
    PROVE  /\ Screens!Quality(f) \in Int /\ 3333 <= Screens!Quality(f)
           /\ Screens!Clamp(Screens!Quality(f)) \in Score /\ 3333 <= Screens!Clamp(Screens!Quality(f))
<1> DEFINE n == Screens!Positive(f.net)
           k == Screens!Positive(f.cash)
           s == Screens!Scale(Screens!Ratio(f.net[3], f.equity), 0, 2500)
           u == Screens!Scale(Screens!Ratio(f.liabilities, f.equity), 5000, 35000)
<1>1. n \in Nat /\ k \in Nat /\ 4 <= n + k /\ n <= n /\ k <= k
    BY PassingFigures
<1>2. s \in Score /\ u \in Score /\ s <= s /\ u <= u
    BY QualityTerms, Scores
<1>3. Screens!Quality(f) = Points(n, k, s, u)
    BY QualityTerms
<1> HIDE DEF n, k, s, u
<1>4. Screens!Quality(f) \in Int /\ 3333 <= Screens!Quality(f)
    BY <1>1, <1>2, <1>3, QualityOrdered
<1>5. Screens!Clamp(3333) = 3333
    BY DEF Screens!Clamp, Screens!Least, Screens!Full, Screens!Point
<1>6. Screens!Clamp(3333) <= Screens!Clamp(Screens!Quality(f))
    BY <1>4, ClampIsScore
<1> QED BY <1>4, <1>5, <1>6, ClampIsScore

\* Better figures on the same equity have no lower quality.
LEMMA BetterQuality ==
    ASSUME NEW f, NEW g, IsFiling(f), IsFiling(g), Screens!Better(f, g), NEW p \in Profile,
           Passes(f, p), Passes(g, p), f.equity = g.equity
    PROVE  Screens!Quality(f) <= Screens!Quality(g)
<1> DEFINE n == Screens!Positive(f.net)
           k == Screens!Positive(f.cash)
           s == Screens!Scale(Screens!Ratio(f.net[3], f.equity), 0, 2500)
           u == Screens!Scale(Screens!Ratio(f.liabilities, f.equity), 5000, 35000)
           m == Screens!Positive(g.net)
           j == Screens!Positive(g.cash)
           t == Screens!Scale(Screens!Ratio(g.net[3], g.equity), 0, 2500)
           v == Screens!Scale(Screens!Ratio(g.liabilities, g.equity), 5000, 35000)
<1>1. /\ \A y \in 1 .. 3 : /\ f.net[y] \in Int /\ g.net[y] \in Int /\ f.net[y] <= g.net[y]
                           /\ f.cash[y] \in Int /\ g.cash[y] \in Int /\ f.cash[y] <= g.cash[y]
  <2>1. \A h \in {"operating", "net", "cash"}, y \in 1 .. 3 : g[h][y] >= f[h][y]
      BY DEF Screens!Better, Screens!Years
  <2>2. \A y \in 1 .. 3 : g.net[y] >= f.net[y] /\ g.cash[y] >= f.cash[y]
      BY <2>1
  <2> QED BY <2>2, CompleteFiling DEF Passes
<1>2. n \in Nat /\ m \in Nat /\ n <= m /\ k \in Nat /\ j \in Nat /\ k <= j
    BY <1>1, PositiveCounts
<1>3. s \in Score /\ u \in Score /\ t \in Score /\ v \in Score
    BY QualityTerms
<1>4. s <= t /\ v <= u
  <2>1. /\ f.net[3] \in Int /\ g.net[3] \in Int /\ f.net[3] <= g.net[3]
        /\ f.liabilities \in Int /\ g.liabilities \in Int /\ g.liabilities <= f.liabilities
        /\ f.equity \in Int /\ 0 < f.equity
      BY <1>1, PassingFigures DEF Screens!Better
  <2> DEFINE a == Screens!Ratio(f.net[3], f.equity)
             b == Screens!Ratio(g.net[3], f.equity)
             c == Screens!Ratio(f.liabilities, f.equity)
             d == Screens!Ratio(g.liabilities, f.equity)
  <2>2. a \in Int /\ b \in Int /\ a <= b /\ c \in Int /\ d \in Int /\ d <= c
      BY <2>1, RatioOrdered
  <2> HIDE DEF a, b, c, d
  <2>3. Screens!Scale(a, 0, 2500) <= Screens!Scale(b, 0, 2500)
      BY <2>2, ScaleIsScore
  <2>4. Screens!Scale(d, 5000, 35000) <= Screens!Scale(c, 5000, 35000)
      BY <2>2, ScaleIsScore
  <2> QED BY <2>3, <2>4 DEF a, b, c, d
<1>5. /\ Screens!Quality(f) = Points(n, k, s, u)
      /\ Screens!Quality(g) = Points(m, j, t, v)
    BY QualityTerms
<1> HIDE DEF n, k, s, u, m, j, t, v
<1> QED BY <1>2, <1>3, <1>4, <1>5, QualityOrdered

\* The score of growth is a score and keeps the order of growth.
LEMMA GrowthIsScore ==
    /\ \A f : Screens!RevenueGrowth(f) \in Int => Screens!GrowthScore(f) \in Score
    /\ \A f, g : /\ Screens!RevenueGrowth(f) \in Int /\ Screens!RevenueGrowth(g) \in Int
                 /\ Screens!RevenueGrowth(f) <= Screens!RevenueGrowth(g)
                 => Screens!GrowthScore(f) <= Screens!GrowthScore(g)
<1> DEFINE share(s) == (s * 65) \div 100 + 3500
           part(x) == share(Screens!Scale(x, -2, 25))
<1>1. \A f : Screens!GrowthScore(f) = Screens!Clamp(part(Screens!RevenueGrowth(f)))
    BY DEF Screens!GrowthScore, Screens!Point
<1>2. /\ \A x \in Int : Screens!Scale(x, -2, 25) \in Int
      /\ \A x, y \in Int : x <= y => Screens!Scale(x, -2, 25) <= Screens!Scale(y, -2, 25)
  <2> DEFINE low == -2  high == 25
  <2>1. low \in Int /\ high \in Int /\ low < high
      OBVIOUS
  <2> HIDE DEF low, high
  <2>2. /\ \A x \in Int : Screens!Scale(x, low, high) \in Int
        /\ \A x, y \in Int : x <= y => Screens!Scale(x, low, high) <= Screens!Scale(y, low, high)
    <3>1. /\ \A x \in Int : Screens!Scale(x, low, high) \in Score
          /\ \A x, y \in Int : x <= y => Screens!Scale(x, low, high) <= Screens!Scale(y, low, high)
        BY <2>1, ScaleIsScore, Zenon
    <3> QED BY <3>1, Scores
  <2> QED BY <2>2 DEF low, high
<1>6. /\ \A s \in Int : share(s) \in Int
      /\ \A s, z \in Int : s <= z => share(s) <= share(z)
    OBVIOUS
<1> HIDE DEF share
<1>3. /\ \A x \in Int : part(x) \in Int
      /\ \A x, y \in Int : x <= y => part(x) <= part(y)
    BY <1>2, <1>6
<1> HIDE DEF part
<1>4. ASSUME NEW f, Screens!RevenueGrowth(f) \in Int PROVE Screens!GrowthScore(f) \in Score
    BY <1>1, <1>3, <1>4, ClampIsScore
<1>5. ASSUME NEW f, NEW g, Screens!RevenueGrowth(f) \in Int, Screens!RevenueGrowth(g) \in Int,
             Screens!RevenueGrowth(f) <= Screens!RevenueGrowth(g)
      PROVE  Screens!GrowthScore(f) <= Screens!GrowthScore(g)
  <2>1. /\ part(Screens!RevenueGrowth(f)) \in Int /\ part(Screens!RevenueGrowth(g)) \in Int
        /\ part(Screens!RevenueGrowth(f)) <= part(Screens!RevenueGrowth(g))
      BY <1>3, <1>5
  <2> QED BY <1>1, <2>1, ClampIsScore
<1> QED BY <1>4, <1>5


\* What is evaluated at once is what was to be evaluated.
LEMMA TableIsIdentity == \A f : Screens!Table(f) = f
BY DEF Screens!Table

\* A price ratio that is known has a score.
LEMMA ValuationIsAmount ==
    ASSUME NEW f, IsFiling(f)
    PROVE  Screens!Valuation(f) \in Amount
<1>1. f.pe \in Amount /\ f.pb \in Amount
    BY DEF IsFiling, Annuals, Datum
<1> DEFINE pe == Screens!Full - Screens!Scale(f.pe, 8, 45)
           pb == Screens!Full - Screens!Scale(f.pb, 8, 80)
<1>2. /\ f.pe # None => pe \in Int
      /\ f.pb # None => pb \in Int
  <2>1. Screens!Full \in Int
      BY DEF Screens!Full, Screens!Point
  <2>2. \A x \in Int : Screens!Scale(x, 8, 45) \in Int /\ Screens!Scale(x, 8, 80) \in Int
      BY ScaleIsScore, Scores
  <2> QED BY <1>1, <2>1, <2>2 DEF Amount
<1>3. Screens!Valuation(f) = CASE f.pe # None /\ f.pb # None -> (pe + pb) \div 2
                               [] f.pe # None /\ f.pb = None -> pe
                               [] f.pe = None /\ f.pb # None -> pb
                               [] f.pe = None /\ f.pb = None -> None
    BY DEF Screens!Valuation
<1> HIDE DEF pe, pb
<1>4. CASE f.pe # None /\ f.pb # None
    BY <1>2, <1>3, <1>4 DEF Amount
<1>5. CASE f.pe # None /\ f.pb = None
    BY <1>2, <1>3, <1>5 DEF Amount
<1>6. CASE f.pe = None /\ f.pb # None
    BY <1>2, <1>3, <1>6 DEF Amount
<1>7. CASE f.pe = None /\ f.pb = None
    BY <1>3, <1>7 DEF Amount
<1> QED BY <1>4, <1>5, <1>6, <1>7

\* A total with the same valuation grows with the rest.
LEMMA WeightedOrdered ==
    ASSUME NEW a \in Int, NEW b \in Int, a <= b, NEW v \in Amount
    PROVE  /\ Screens!Weighted(a, 90, v) \in Int /\ Screens!Weighted(b, 90, v) \in Int
           /\ Screens!Weighted(a, 90, v) <= Screens!Weighted(b, 90, v)
           /\ Screens!Weighted(a, 90, v) \div 100 \in Int /\ Screens!Weighted(b, 90, v) \div 100 \in Int
           /\ Screens!Weighted(a, 90, v) \div 100 <= Screens!Weighted(b, 90, v) \div 100
<1> DEFINE m == Screens!Weighted(a, 90, v)
           n == Screens!Weighted(b, 90, v)
<1>1. m \in Int /\ n \in Int /\ m <= n
  <2>1. CASE v = None
    <3>1. m = (a * 100) \div 90 /\ n = (b * 100) \div 90
        BY <2>1 DEF Screens!Weighted
    <3> QED BY <3>1
  <2>2. CASE v # None
    <3>1. m = ((a + v * 10) * 100) \div (90 + 10) /\ n = ((b + v * 10) * 100) \div (90 + 10)
        BY <2>2 DEF Screens!Weighted
    <3>2. v \in Int
        BY <2>2 DEF Amount
    <3> HIDE DEF m, n
    <3> QED BY <3>1, <3>2
  <2> QED BY <2>1, <2>2
<1> HIDE DEF m, n
<1>2. m \div 100 \in Int /\ n \div 100 \in Int /\ m \div 100 <= n \div 100
    BY <1>1
<1> QED BY <1>1, <1>2 DEF m, n

Fundamentals(f) ==
    Screens!Clamp(Screens!Quality(f)) * 65 + Screens!GrowthScore(f) * 25

\* The ruling of the gate.
LEMMA Judged ==
    ASSUME NEW f, IsFiling(f), NEW p \in Profile
    PROVE  /\ Screens!Judge(f, p).status = "passed" <=> Passes(f, p)
           /\ Passes(f, p) =>
                /\ Screens!Judge(f, p).quality = Screens!Clamp(Screens!Quality(f))
                /\ Screens!Judge(f, p).growth = Screens!GrowthScore(f)
                /\ Screens!Judge(f, p).valuation = Screens!Valuation(f)
                /\ Screens!Judge(f, p).total
                     = Screens!Weighted(Fundamentals(f), 90, Screens!Valuation(f)) \div 100
<1>1. f.special \in BOOLEAN
    BY DEF IsFiling, Annuals, Datum
<1>2. CASE Screens!Missing(f)
    BY <1>2 DEF Screens!Judge, Passes
<1>3. CASE ~Screens!Missing(f) /\ f.special
    BY <1>3 DEF Screens!Judge, Passes
<1>4. CASE ~Screens!Missing(f) /\ ~f.special /\ Screens!Failing(f, p)
    BY <1>4 DEF Screens!Judge, Passes
<1>5. CASE Passes(f, p)
  <2>1. Screens!Judge(f, p) =
            [status |-> "passed", quality |-> Screens!Clamp(Screens!Quality(f)),
             growth |-> Screens!GrowthScore(f), valuation |-> Screens!Valuation(f),
             total |-> Screens!Weighted(Fundamentals(f), 90, Screens!Valuation(f)) \div 100]
      BY <1>5 DEF Screens!Judge, Passes, Fundamentals
  <2> QED BY <1>5, <2>1
<1> QED BY <1>1, <1>2, <1>3, <1>4, <1>5 DEF Passes

\* The fundamental scores of what passes.
LEMMA PassingScores ==
    ASSUME NEW f, IsFiling(f), NEW p \in Profile, Passes(f, p)
    PROVE  /\ Screens!Clamp(Screens!Quality(f)) \in Score
           /\ 3333 <= Screens!Clamp(Screens!Quality(f))
           /\ Screens!RevenueGrowth(f) \in Int
           /\ Screens!GrowthScore(f) \in Score
<1>1. f.revenue[1] \in Int /\ f.revenue[3] \in Int
    BY CompleteFiling, 1 \in 1 .. 3, 3 \in 1 .. 3 DEF Passes
<1>2. Screens!RevenueGrowth(f) \in Int
  <2>1. CASE f.revenue[1] <= 0 \/ f.revenue[3] <= 0
      BY <2>1 DEF Screens!RevenueGrowth, Screens!Growth
  <2>2. CASE 0 < f.revenue[1] /\ 0 < f.revenue[3]
      BY <1>1, <2>2, GrowthIsDefined DEF Screens!RevenueGrowth
  <2> QED BY <1>1, <2>1, <2>2
<1> QED BY <1>2, QualityBounds, GrowthIsScore

\* The gate of a scan.
LEMMA GateJudges ==
    ASSUME NEW fs, NEW qs, NEW r
    PROVE  Screens!Screen(fs, qs, r).gate = [c \in DOMAIN fs |-> Screens!Judge(fs[c], r.profile)]
BY TableIsIdentity DEF Screens!Screen

\* Better figures on the same equity have no lower fundamental score.
LEMMA BetterScores ==
    ASSUME NEW f, NEW g, IsFiling(f), IsFiling(g), Screens!Better(f, g), NEW p \in Profile,
           Passes(f, p), Passes(g, p), f.equity = g.equity
    PROVE  /\ Fundamentals(f) \in Int /\ Fundamentals(g) \in Int
           /\ Fundamentals(f) <= Fundamentals(g)
<1> DEFINE q == Screens!Clamp(Screens!Quality(f))
           r == Screens!Clamp(Screens!Quality(g))
           u == Screens!GrowthScore(f)
           v == Screens!GrowthScore(g)
<1>1. q \in Int /\ r \in Int /\ u \in Int /\ v \in Int
    BY PassingScores, Scores
<1>2. q <= r
    BY QualityBounds, BetterQuality, ClampIsScore
<1>3. u <= v
  <2>1. 0 < f.revenue[1] /\ g.revenue[1] <= f.revenue[1] /\ f.revenue[3] <= g.revenue[3]
        /\ 0 < g.revenue[1]
      BY CompleteFiling, 1 \in 1 .. 3, 3 \in 1 .. 3 DEF Screens!Better, Passes
  <2>2. /\ f.revenue[1] \in Int /\ f.revenue[3] \in Int
        /\ g.revenue[1] \in Int /\ g.revenue[3] \in Int
      BY CompleteFiling, 1 \in 1 .. 3, 3 \in 1 .. 3 DEF Passes
  <2>3. /\ Screens!RevenueGrowth(f) \in Int /\ Screens!RevenueGrowth(g) \in Int
        /\ Screens!RevenueGrowth(f) <= Screens!RevenueGrowth(g)
      BY <2>1, <2>2, GrowthOrdered DEF Screens!RevenueGrowth
  <2> QED BY <2>3, GrowthIsScore
<1>4. Fundamentals(f) = q * 65 + u * 25 /\ Fundamentals(g) = r * 65 + v * 25
    BY DEF Fundamentals
<1> HIDE DEF q, r, u, v
<1> QED BY <1>1, <1>2, <1>3, <1>4

\* A correction for the better costs a company neither the gate of
\* FundamentalGate.evaluate nor, the equity being the same, any of its score.
THEOREM BetterIsNeverWorse == RulesSpec => BetterNeverLoses
<1>1. CompaniesInv /\ CompaniesInv' /\ [RulesNext]_<<companies, documents, readings>>
      => [\A c \in DOMAIN filings :
            LET g == outcome.gate[c]  h == outcome'.gate[c]
            IN  Screens!Better(filings[c], filings'[c]) /\ g.status = "passed" =>
                  /\ h.status = "passed"
                  /\ filings'[c].equity = filings[c].equity /\ g.valuation = h.valuation
                       => h.total >= g.total]_companies
  <2> SUFFICES ASSUME CompaniesInv, CompaniesInv', Screens!Next, NEW c \in DOMAIN filings,
                      Screens!Better(filings[c], filings'[c]),
                      outcome.gate[c].status = "passed"
               PROVE  /\ outcome'.gate[c].status = "passed"
                      /\ /\ filings'[c].equity = filings[c].equity
                         /\ outcome.gate[c].valuation = outcome'.gate[c].valuation
                         => outcome'.gate[c].total >= outcome.gate[c].total
      BY Zenon DEF RulesNext, companies
  <2> DEFINE p == request.profile
             f == filings[c]
             g == filings'[c]
  <2>1. request' = request /\ DOMAIN filings' = DOMAIN filings
    <3>1. PICK d \in DOMAIN filings :
            \/ \E k \in Screens!Yearly, y \in Screens!Years : \E v \in Figures[k] : Screens!CorrectYear(d, k, y, v)
            \/ \E k \in DOMAIN Figures \ Screens!Yearly : \E v \in Figures[k] : Screens!Correct(d, k, v)
            \/ \E k \in DOMAIN Quotes : \E v \in Quotes[k] : Screens!Trade(d, k, v)
        BY Zenon DEF Screens!Next
    <3>2. CASE \E k \in Screens!Yearly, y \in Screens!Years : \E v \in Figures[k] : Screens!CorrectYear(d, k, y, v)
        BY <3>2 DEF Screens!CorrectYear
    <3>3. CASE \E k \in DOMAIN Figures \ Screens!Yearly : \E v \in Figures[k] : Screens!Correct(d, k, v)
        BY <3>3 DEF Screens!Correct
    <3>4. CASE \E k \in DOMAIN Quotes : \E v \in Quotes[k] : Screens!Trade(d, k, v)
        BY <3>4 DEF Screens!Trade
    <3> QED BY <3>1, <3>2, <3>3, <3>4
  <2>2. p \in Profile /\ IsFiling(f) /\ IsFiling(g)
      BY <2>1 DEF CompaniesInv, AreCompanies, Profile
  <2>3. outcome.gate[c] = Screens!Judge(f, p) /\ outcome'.gate[c] = Screens!Judge(g, p)
    <3>1. outcome.gate = [d \in DOMAIN filings |-> Screens!Judge(filings[d], request.profile)]
        BY GateJudges DEF CompaniesInv
    <3>2. outcome'.gate = [d \in DOMAIN filings' |-> Screens!Judge(filings'[d], request.profile)]
      <4>1. outcome' = Screens!Screen(filings', quotes', request)
          BY <2>1 DEF CompaniesInv
      <4> QED BY <4>1, GateJudges
    <3> QED BY <2>1, <3>1, <3>2
  <2> HIDE DEF f, g, p
  <2>4. Screens!Better(f, g)
      BY DEF f, g
  <2>5. Passes(f, p)
      BY <2>2, <2>3, Judged
  <2>6. Passes(g, p)
    <3>1. ~Screens!Failing(g, p)
        BY <2>2, <2>4, <2>5, BetterPasses DEF Passes
    <3>2. ~Screens!Missing(g) /\ f.special = g.special
        BY <2>4 DEF Screens!Better
    <3> QED BY <2>5, <3>1, <3>2 DEF Passes
  <2>7. outcome'.gate[c].status = "passed"
      BY <2>2, <2>3, <2>6, Judged
  <2>8. ASSUME f.equity = g.equity, Screens!Judge(f, p).valuation = Screens!Judge(g, p).valuation
        PROVE  Screens!Judge(g, p).total >= Screens!Judge(f, p).total
    <3> DEFINE v == Screens!Valuation(f)
    <3>1. /\ Screens!Judge(f, p).total = Screens!Weighted(Fundamentals(f), 90, v) \div 100
          /\ Screens!Judge(g, p).total = Screens!Weighted(Fundamentals(g), 90, v) \div 100
        BY <2>2, <2>5, <2>6, <2>8, Judged
    <3>2. v \in Amount
        BY <2>2, ValuationIsAmount
    <3> HIDE DEF v
    <3>3. /\ Fundamentals(f) \in Int /\ Fundamentals(g) \in Int
          /\ Fundamentals(f) <= Fundamentals(g)
        BY <2>2, <2>4, <2>5, <2>6, <2>8, BetterScores
    <3>4. /\ Screens!Weighted(Fundamentals(f), 90, v) \div 100 \in Int
          /\ Screens!Weighted(Fundamentals(g), 90, v) \div 100 \in Int
          /\ Screens!Weighted(Fundamentals(f), 90, v) \div 100
             <= Screens!Weighted(Fundamentals(g), 90, v) \div 100
        BY <3>2, <3>3, WeightedOrdered
    <3> QED BY <3>1, <3>4
  <2> QED BY <2>3, <2>7, <2>8 DEF f, g
<1> QED BY <1>1, CompaniesInvariant, PTL
        DEF RulesSpec, BetterNeverLoses, Screens!BetterNeverLoses, companies, Screens!vars

----------------------------------------------------------------------------
(* Rankings *)

\* The order of a ranking lists each company once.
LEMMA OrderedListsOnce ==
    ASSUME NEW S, IsFiniteSet(S), S \subseteq Int, NEW v, \A c \in S : v[c] \in Int
    PROVE  /\ Cardinality(S) \in Nat
           /\ Screens!Ordered(S, v) \in [1 .. Cardinality(S) -> S]
           /\ \A i, j \in 1 .. Cardinality(S) :
                Screens!Ordered(S, v)[i] = Screens!Ordered(S, v)[j] => i = j
<1> DEFINE n == Cardinality(S)
           over(d, c) == Screens!Above(v, d, c)
           A(c) == {d \in S : over(d, c)}
           rank(c) == Cardinality(A(c))
           R == [c \in S |-> rank(c)]
<1>1. /\ \A c \in S : ~over(c, c)
      /\ \A c, d \in S : c # d => over(c, d) \/ over(d, c)
      /\ \A b, c, d \in S : over(b, c) /\ over(c, d) => over(b, d)
    BY DEF Screens!Above
<1> HIDE DEF over
<1>2. n \in Nat
    BY FS_CardinalityType
<1>3. ASSUME NEW c \in S
      PROVE  /\ IsFiniteSet(A(c)) /\ rank(c) \in 0 .. n - 1
  <2>1. IsFiniteSet(S \ {c}) /\ Cardinality(S \ {c}) = n - 1
      BY FS_RemoveElement
  <2>2. A(c) \in SUBSET (S \ {c})
      BY <1>1
  <2>3. IsFiniteSet(A(c)) /\ Cardinality(A(c)) <= Cardinality(S \ {c})
      BY <2>1, <2>2, FS_Subset
  <2> QED BY <2>1, <2>3, FS_CardinalityType, <1>2
<1>4. ASSUME NEW c \in S, NEW d \in S, over(c, d) PROVE rank(c) < rank(d)
  <2>1. IsFiniteSet(A(c) \cup {c}) /\ Cardinality(A(c) \cup {c}) = rank(c) + 1
    <3>1. c \notin A(c)
        BY <1>1
    <3> QED BY <1>3, <3>1, FS_AddElement
  <2>2. A(c) \cup {c} \in SUBSET A(d)
      BY <1>1, <1>4
  <2>3. Cardinality(A(c) \cup {c}) <= rank(d)
      BY <1>3, <2>2, FS_Subset
  <2> QED BY <1>3, <2>1, <2>3
<1> HIDE DEF A
<1>5. \A c, d \in S : rank(c) = rank(d) => c = d
  <2> SUFFICES ASSUME NEW c \in S, NEW d \in S, rank(c) = rank(d), c # d PROVE FALSE
      OBVIOUS
  <2>1. rank(c) < rank(d) \/ rank(d) < rank(c)
      BY <1>1, <1>4
  <2>2. rank(c) \in Int /\ rank(d) \in Int
      BY <1>3
  <2> QED BY <2>1, <2>2
<1>6. R \in Injection(S, 0 .. n - 1)
  <2>1. R \in [S -> 0 .. n - 1]
      BY <1>3
  <2> QED BY <1>5, <2>1 DEF Injection, IsInjective
<1>7. IsFiniteSet(0 .. n - 1) /\ Cardinality(0 .. n - 1) = n
  <2>1. 0 \in Int /\ n - 1 \in Int
      BY <1>2
  <2>2. IsFiniteSet(0 .. n - 1) /\ Cardinality(0 .. n - 1) = IF 0 > n - 1 THEN 0 ELSE n - 1 - 0 + 1
      BY <2>1, FS_Interval, Zenon
  <2> QED BY <1>2, <2>2
<1>8. R \in Surjection(S, 0 .. n - 1)
    BY <1>6, <1>7, FS_Injection
<1>9. \A m \in 1 .. n : \E c \in S : rank(c) = m - 1
  <2> TAKE m \in 1 .. n
  <2>1. m - 1 \in 0 .. n - 1
      BY <1>2
  <2> HIDE DEF rank
  <2> QED BY <1>8, <2>1 DEF Surjection
<1>10. Screens!Ordered(S, v) = [m \in 1 .. n |-> CHOOSE c \in S : rank(c) = m - 1]
    BY Zenon DEF Screens!Ordered, Screens!Cardinality, Cardinality, A, over
<1> HIDE DEF rank
<1>11. \A m \in 1 .. n : Screens!Ordered(S, v)[m] \in S /\ rank(Screens!Ordered(S, v)[m]) = m - 1
    BY <1>9, <1>10
<1>12. Screens!Ordered(S, v) \in [1 .. n -> S]
    BY <1>10, <1>11
<1>13. \A i, j \in 1 .. n : Screens!Ordered(S, v)[i] = Screens!Ordered(S, v)[j] => i = j
  <2> TAKE i, j \in 1 .. n
  <2> HAVE Screens!Ordered(S, v)[i] = Screens!Ordered(S, v)[j]
  <2>1. i - 1 = j - 1
      BY <1>11
  <2> QED BY <2>1, <1>2
<1> QED BY <1>2, <1>12, <1>13


\* The first of a ranking are among the ranked, once each.
LEMMA FirstListsOnce ==
    ASSUME NEW S, IsFiniteSet(S), S \subseteq Int, NEW v, \A c \in S : v[c] \in Int, NEW n \in Nat
    PROVE  LET m == Screens!Least(n, Cardinality(S))
           IN  /\ m \in Nat /\ m <= Cardinality(S)
               /\ Screens!First(S, n, v) \in [1 .. m -> S]
               /\ \A i, j \in 1 .. m : Screens!First(S, n, v)[i] = Screens!First(S, n, v)[j] => i = j
<1> DEFINE k == Cardinality(S)
           m == Screens!Least(n, k)
           s == Screens!Ordered(S, v)
<1>1. /\ k \in Nat /\ s \in [1 .. k -> S]
      /\ \A i, j \in 1 .. k : s[i] = s[j] => i = j
    BY OrderedListsOnce
<1>2. m \in Nat /\ m <= k
    BY <1>1 DEF Screens!Least
<1>3. Screens!First(S, n, v) = SubSeq(s, 1, m)
    BY ScreensCount DEF Screens!First
<1> HIDE DEF k, m, s
<1>4. s \in Seq(S)
    BY <1>1
<1>5. SubSeq(s, 1, m) = [i \in 1 .. m |-> s[i]]
    BY <1>1, <1>2, <1>4
<1>6. SubSeq(s, 1, m) \in [1 .. m -> S] /\ \A i, j \in 1 .. m : SubSeq(s, 1, m)[i] = SubSeq(s, 1, m)[j] => i = j
  <2> DEFINE r == SubSeq(s, 1, m)
  <2>1. r = [i \in 1 .. m |-> s[i]]
      BY <1>5
  <2> HIDE DEF r
  <2>2. \A i \in 1 .. m : i \in 1 .. k
      BY <1>1, <1>2
  <2>3. r \in [1 .. m -> S] /\ \A i, j \in 1 .. m : r[i] = r[j] => i = j
      BY <1>1, <2>1, <2>2
  <2> QED BY <2>3 DEF r
<1> QED BY <1>1, <1>2, <1>3, <1>6 DEF k, m, s

\* The middle of numbers is a number.
LEMMA MedianIsNumber ==
    ASSUME NEW S, IsFiniteSet(S), S \subseteq Int, NEW v, \A c \in S : v[c] \in Int,
           0 < Cardinality(S)
    PROVE  Screens!Median(S, v) \in Int
<1> DEFINE n == Cardinality(S)
           s == Screens!Ordered(S, v)
<1>1. n \in Nat /\ s \in [1 .. n -> S] /\ 0 < n
    BY OrderedListsOnce
<1>2. Screens!Median(S, v) = (v[s[(n + 1) \div 2]] + v[s[(n + 2) \div 2]]) \div 2
    BY ScreensCount DEF Screens!Median
<1> HIDE DEF n, s
<1>3. (n + 1) \div 2 \in 1 .. n /\ (n + 2) \div 2 \in 1 .. n
    BY <1>1
<1>4. v[s[(n + 1) \div 2]] \in Int /\ v[s[(n + 2) \div 2]] \in Int
    BY <1>1, <1>3
<1> QED BY <1>2, <1>4

----------------------------------------------------------------------------
(* The scores of sectors and charts *)

\* The outlook of a company is a number, whatever its figures.
LEMMA OutlookIsNumber ==
    ASSUME NEW f, IsFiling(f), ~Screens!Missing(f)
    PROVE  Screens!Outlook(f) \in Int
<1>1. \A y \in 1 .. 3 : f.revenue[y] \in Int /\ f.operating[y] \in Int /\ f.cash[y] \in Int
    BY CompleteFiling
<1>2. CASE \E y \in Screens!Years : f.revenue[y] <= 0
    BY <1>2 DEF Screens!Outlook
<1>3. CASE ~ \E y \in Screens!Years : f.revenue[y] <= 0
  <2> DEFINE prior  == Screens!Ratio(f.revenue[2], f.revenue[1]) - 10000
             latest == Screens!Ratio(f.revenue[3], f.revenue[2]) - 10000
             margin(y) == Screens!Ratio(f.operating[y], f.revenue[y])
             cash   == Screens!Ratio(f.cash[3], f.revenue[3])
  <2>0. \A y \in 1 .. 3 : 0 < f.revenue[y]
      BY <1>1, <1>3 DEF Screens!Years
  <2>1. \A x, y \in 1 .. 3 : /\ Screens!Ratio(f.revenue[x], f.revenue[y]) \in Int
                             /\ Screens!Ratio(f.operating[x], f.revenue[y]) \in Int
                             /\ Screens!Ratio(f.cash[x], f.revenue[y]) \in Int
      BY <1>1, <2>0, RatioOrdered
  <2>2. 1 \in 1 .. 3 /\ 2 \in 1 .. 3 /\ 3 \in 1 .. 3
      OBVIOUS
  <2>3. prior \in Int /\ latest \in Int /\ margin(2) \in Int /\ margin(3) \in Int /\ cash \in Int
      BY <2>1, <2>2
  <2>4. Screens!Outlook(f) = Screens!Clamp((Screens!Scale(latest, -500, 3000) * 35
                + Screens!Scale(latest - prior, -1500, 1500) * 25
                + Screens!Scale(margin(3) - margin(2), -500, 500) * 20
                + Screens!Scale(cash, 0, 2500) * 20) \div 100)
      BY <1>3 DEF Screens!Outlook
  <2> DEFINE change == latest - prior
             widening == margin(3) - margin(2)
  <2>5. change \in Int /\ widening \in Int
      BY <2>3
  <2>6. Screens!Outlook(f) = Screens!Clamp((Screens!Scale(latest, -500, 3000) * 35
                + Screens!Scale(change, -1500, 1500) * 25
                + Screens!Scale(widening, -500, 500) * 20
                + Screens!Scale(cash, 0, 2500) * 20) \div 100)
      BY <2>4
  <2> HIDE DEF prior, latest, margin, cash, change, widening
  <2>7. /\ Screens!Scale(latest, -500, 3000) \in Int /\ Screens!Scale(change, -1500, 1500) \in Int
        /\ Screens!Scale(widening, -500, 500) \in Int /\ Screens!Scale(cash, 0, 2500) \in Int
      BY <2>3, <2>5 DEF Screens!Scale, Screens!Full, Screens!Point
  <2>8. (Screens!Scale(latest, -500, 3000) * 35 + Screens!Scale(change, -1500, 1500) * 25
         + Screens!Scale(widening, -500, 500) * 20 + Screens!Scale(cash, 0, 2500) * 20) \div 100 \in Int
      BY <2>7
  <2> QED BY <2>6, <2>8, ClampIsScore, Scores
<1> QED BY <1>2, <1>3


Strategy == {"balanced", "momentum", "defensive"}

\* The metrics of a quote are numbers.
LEMMA QuoteFigures ==
    ASSUME NEW q, IsQuote(q)
    PROVE  /\ q.close \in Int /\ q.high \in Int /\ q.low \in Int /\ q.return5 \in Int
           /\ q.return20 \in Int /\ q.return60 \in Int /\ q.rsi \in Int /\ q.volume \in Int
           /\ q.sma20 \in Nat \ {0} /\ q.sma50 \in Nat \ {0} /\ q.sma200 \in Nat \ {0}
           /\ q.volatility \in Amount
BY DEF IsQuote, Metric

\* ChartScore is a score for every quote that is complete.
LEMMA ChartIsScore ==
    ASSUME NEW q, IsQuote(q), ~Screens!MissingScoringData(q), NEW s \in Strategy
    PROVE  Screens!ChartScore(q, s) \in Score
<1>1. q.volatility \in Int
    BY QuoteFigures DEF Screens!MissingScoringData, Amount
<1>2. Screens!Full = 10000
    BY DEF Screens!Full, Screens!Point
<1>3. Screens!RangePosition(q) \in Int
  <2>1. CASE q.high <= q.low
      BY <2>1 DEF Screens!RangePosition, Screens!Half, Screens!Point
  <2>2. CASE ~(q.high <= q.low)
    <3> DEFINE n == (q.close - q.low) * 10000
               d == q.high - q.low
    <3>1. n \in Int /\ d \in Nat \ {0}
        BY <2>2, QuoteFigures
    <3>2. Screens!RangePosition(q) = Screens!Clamp(n \div d)
        BY <1>2, <2>2 DEF Screens!RangePosition
    <3> HIDE DEF n, d
    <3>3. n \div d \in Int
        BY <3>1, Division
    <3> QED BY <3>2, <3>3, ClampIsScore, Scores
  <2> QED BY <2>1, <2>2
<1>4. Screens!Trend(q) \in Int
  <2> DEFINE a == Screens!Scale(Screens!Ratio(q.close, q.sma20) - 10000, -1000, 1000)
             b == Screens!Scale(Screens!Ratio(q.close, q.sma50) - 10000, -2000, 2000)
             c == Screens!Scale(Screens!Ratio(q.close, q.sma200) - 10000, -3000, 3000)
  <2>1. a \in Int /\ b \in Int /\ c \in Int
    <3>1. /\ Screens!Ratio(q.close, q.sma20) \in Int
          /\ Screens!Ratio(q.close, q.sma50) \in Int
          /\ Screens!Ratio(q.close, q.sma200) \in Int
      <4>1. /\ q.close \in Int /\ q.sma20 \in Int /\ q.sma50 \in Int /\ q.sma200 \in Int
            /\ 0 < q.sma20 /\ 0 < q.sma50 /\ 0 < q.sma200
          BY QuoteFigures
      <4> QED BY <4>1, RatioOrdered
    <3> QED BY <3>1 DEF Screens!Scale, Screens!Full, Screens!Point
  <2>2. Screens!Trend(q) = (a + b + c + Screens!RangePosition(q)) \div 4
      BY DEF Screens!Trend
  <2> HIDE DEF a, b, c
  <2> QED BY <1>3, <2>1, <2>2
<1>5. Screens!Momentum(q) \in Int
  <2> DEFINE a == Screens!Scale(q.return5, -8, 8)
             b == Screens!Scale(q.return20, -20, 20)
             c == Screens!Scale(q.return60, -30, 40)
             d == Screens!Scale(q.rsi, 30, 70)
  <2>1. a \in Int /\ b \in Int /\ c \in Int /\ d \in Int
      BY QuoteFigures DEF Screens!Scale, Screens!Full, Screens!Point
  <2>2. Screens!Momentum(q) = (a + b + c + d) \div 4
      BY DEF Screens!Momentum
  <2> HIDE DEF a, b, c, d
  <2> QED BY <2>1, <2>2
<1>6. \A i \in 1 .. 4 : Screens!Weights(s)[i] \in Int
    BY DEF Screens!Weights, Strategy
<1> DEFINE w == Screens!Weights(s)
           calm   == Screens!Scale(q.volatility, 15, 60)
           traded == Screens!Scale(q.volume, 6, 8)
           sum    == Screens!Trend(q) * w[1] + Screens!Momentum(q) * w[2]
                     + (Screens!Full - calm) * w[3] + traded * w[4]
<1>7. calm \in Int /\ traded \in Int
    BY <1>1, QuoteFigures DEF Screens!Scale, Screens!Full, Screens!Point
<1>8. Screens!ChartScore(q, s) = Screens!Clamp(sum \div 100)
    BY DEF Screens!ChartScore
<1>9. w[1] \in Int /\ w[2] \in Int /\ w[3] \in Int /\ w[4] \in Int
    BY <1>6
<1> HIDE DEF w, calm, traded
<1>10. sum \in Int
  <2>1. Screens!Trend(q) * w[1] \in Int /\ Screens!Momentum(q) * w[2] \in Int
        /\ (Screens!Full - calm) * w[3] \in Int /\ traded * w[4] \in Int
      BY <1>2, <1>4, <1>5, <1>7, <1>9
  <2> QED BY <2>1
<1> HIDE DEF sum
<1>11. sum \div 100 \in Int
    BY <1>10
<1> QED BY <1>8, <1>11, ClampIsScore

\* What a sector's score is computed from: companies that passed, those among them
\* that were priced, and the qualities the gate found.
IsEvidence(passed, priced, gate, fs, qs) ==
    /\ IsFiniteSet(passed) /\ passed \subseteq Int /\ priced \subseteq passed
    /\ \A c \in passed : IsFiling(fs[c]) /\ ~Screens!Missing(fs[c]) /\ gate[c].quality \in Int
    /\ \A c \in priced : IsQuote(qs[c])

\* SectorScore is a score, whatever the sample.
LEMMA SectorIsScore ==
    ASSUME NEW sector, NEW passed, NEW priced, NEW gate, NEW fs, NEW qs,
           IsEvidence(passed, priced, gate, fs, qs)
    PROVE  Screens!SectorScore(sector, passed, priced, gate, fs, qs) \in Score
<1> DEFINE judged == {c \in passed : fs[c].sector = sector}
           traded == {c \in priced : fs[c].sector = sector}
           rising == {c \in traded : qs[c].return60 > 0}
           outlook == [c \in judged |-> Screens!Outlook(fs[c])]
           quality == [c \in judged |-> gate[c].quality]
           return  == [c \in traded |-> qs[c].return60]
           financial == IF Cardinality(judged) >= 3
                        THEN Screens!Median(judged, outlook) * 40 + Screens!Median(judged, quality) * 20
                        ELSE 5000 * 60
           price == IF Cardinality(traded) >= 3
                    THEN Screens!Scale(Screens!Median(traded, return), -20, 35) * 25
                         + ((Cardinality(rising) * 10000) \div Cardinality(traded)) * 15
                    ELSE 5000 * 40
<1>1. /\ IsFiniteSet(judged) /\ judged \subseteq Int /\ Cardinality(judged) \in Nat
      /\ IsFiniteSet(traded) /\ traded \subseteq Int /\ Cardinality(traded) \in Nat
      /\ IsFiniteSet(rising) /\ Cardinality(rising) \in Nat
  <2>1. judged \in SUBSET passed /\ traded \in SUBSET passed /\ rising \in SUBSET passed
      BY DEF IsEvidence
  <2>2. \A T \in SUBSET passed : IsFiniteSet(T) /\ Cardinality(T) \in Nat
      BY FS_Subset, FS_CardinalityType DEF IsEvidence
  <2> HIDE DEF judged, traded, rising
  <2> QED BY <2>1, <2>2 DEF IsEvidence
<1>2. /\ \A c \in judged : outlook[c] \in Int /\ quality[c] \in Int
      /\ \A c \in traded : return[c] \in Int
    BY OutlookIsNumber, QuoteFigures DEF IsEvidence
<1> HIDE DEF judged, traded, rising, outlook, quality, return
<1>3. financial \in Int
  <2>1. CASE Cardinality(judged) >= 3
    <3>0. 0 < Cardinality(judged)
        BY <1>1, <2>1
    <3>1. Screens!Median(judged, outlook) \in Int
        BY <1>1, <1>2, <3>0, MedianIsNumber, Zenon
    <3>2. Screens!Median(judged, quality) \in Int
        BY <1>1, <1>2, <3>0, MedianIsNumber, Zenon
    <3> QED BY <2>1, <3>1, <3>2
  <2>2. CASE ~(Cardinality(judged) >= 3)
      BY <2>2
  <2> QED BY <2>1, <2>2
<1>4. price \in Int
  <2>1. CASE Cardinality(traded) >= 3
    <3>0. 0 < Cardinality(traded)
        BY <1>1, <2>1
    <3>1. Screens!Median(traded, return) \in Int
        BY <1>1, <1>2, <3>0, MedianIsNumber, Zenon
    <3>2. Screens!Scale(Screens!Median(traded, return), -20, 35) \in Int
        BY <3>1 DEF Screens!Scale, Screens!Full, Screens!Point
    <3>3. (Cardinality(rising) * 10000) \div Cardinality(traded) \in Int
        BY <1>1, <2>1, Division
    <3> QED BY <2>1, <3>2, <3>3
  <2>2. CASE ~(Cardinality(traded) >= 3)
      BY <2>2
  <2> QED BY <2>1, <2>2
<1>5. Screens!SectorScore(sector, passed, priced, gate, fs, qs)
        = IF sector = None THEN 5000 ELSE Screens!Clamp((financial + price) \div 100)
  <2>1. Screens!Half = 5000 /\ Screens!Full = 10000 /\ Screens!SampleSize = 3
      BY DEF Screens!Half, Screens!Full, Screens!Point, Screens!SampleSize
  <2> QED BY <2>1, ScreensCount, TableIsIdentity
          DEF Screens!SectorScore, judged, traded, rising, outlook, quality, return
<1> HIDE DEF financial, price
<1>6. (financial + price) \div 100 \in Int
    BY <1>3, <1>4
<1>7. 5000 \in Score
    BY Scores
<1> QED BY <1>5, <1>6, <1>7, ClampIsScore

\* The score asks of a filing only its sector and outlook, and of the gate only
\* the qualities of those that passed.
LEMMA SectorAsksLittle ==
    ASSUME NEW sector, NEW passed, NEW priced, NEW gate, NEW hate, NEW fs, NEW gs, NEW qs,
           priced \subseteq passed,
           \A c \in passed : /\ fs[c].sector = gs[c].sector
                             /\ Screens!Outlook(fs[c]) = Screens!Outlook(gs[c])
                             /\ gate[c].quality = hate[c].quality
    PROVE  Screens!SectorScore(sector, passed, priced, gate, fs, qs)
           = Screens!SectorScore(sector, passed, priced, hate, gs, qs)
<1> DEFINE J(x) == {c \in passed : x[c].sector = sector}
           T(x) == {c \in priced : x[c].sector = sector}
           O(x) == [c \in J(x) |-> Screens!Outlook(x[c])]
           Q(x, g) == [c \in J(x) |-> g[c].quality]
<1>1. J(fs) = J(gs) /\ T(fs) = T(gs)
    OBVIOUS
<1>2. O(fs) = O(gs) /\ Q(fs, gate) = Q(gs, hate)
    OBVIOUS
<1> QED BY <1>1, <1>2, Zenon DEF Screens!SectorScore


----------------------------------------------------------------------------
(* Gaps *)

Passing(fs, p) == {c \in DOMAIN fs : Passes(fs[c], p)}
GateOf(fs, p)  == [c \in DOMAIN fs |-> Screens!Judge(fs[c], p)]

\* What a scan finds of the companies it priced.
LEMMA PricedCompanies ==
    ASSUME NEW fs, NEW qs, AreCompanies(fs, qs), NEW r, r.profile \in Profile
    PROVE  LET s    == Screens!Screen(fs, qs, r)
               gate == GateOf(fs, r.profile)
               passed == Passing(fs, r.profile)
           IN  /\ s.gate = gate
               /\ s.priced \subseteq passed
               /\ \A c \in s.priced :
                    /\ ~Screens!MissingScoringData(qs[c])
                    /\ s.score[c] = Screens!CandidateScore(gate[c],
                          Screens!SectorScore(fs[c].sector, passed, s.priced, gate, fs, qs),
                          Screens!ChartScore(qs[c], r.strategy))
<1> DEFINE gate   == GateOf(fs, r.profile)
           passed == Passing(fs, r.profile)
           marks  == [c \in passed |-> gate[c].total]
           asked  == Screens!ToSet(Screens!First(passed, PriceLimit, marks))
           priced == {c \in asked : ~Screens!MissingScoringData(qs[c]) /\ Screens!Liquid(qs[c], r.profile)}
           sector == [c \in priced |-> Screens!SectorScore(fs[c].sector, passed, priced, gate, fs, qs)]
           chart  == [c \in priced |-> Screens!ChartScore(qs[c], r.strategy)]
           score  == [c \in priced |-> Screens!CandidateScore(gate[c], sector[c], chart[c])]
<1>1. passed = {c \in DOMAIN fs : gate[c].status = "passed"}
    BY Judged DEF Passing, GateOf, AreCompanies
<1>2. /\ Screens!Screen(fs, qs, r).gate = gate
      /\ Screens!Screen(fs, qs, r).priced = priced
      /\ Screens!Screen(fs, qs, r).score = score
  <2> DEFINE gate0   == Screens!Table([c \in DOMAIN fs |-> Screens!Judge(fs[c], r.profile)])
             passed0 == {c \in DOMAIN fs : gate0[c].status = "passed"}
             marks0  == Screens!Table([c \in passed0 |-> gate0[c].total])
             asked0  == Screens!ToSet(Screens!First(passed0, PriceLimit, marks0))
             priced0 == {c \in asked0 : ~Screens!MissingScoringData(qs[c]) /\ Screens!Liquid(qs[c], r.profile)}
             sector0 == Screens!Table([c \in priced0 |-> Screens!SectorScore(fs[c].sector, passed0, priced0, gate0, fs, qs)])
             chart0  == Screens!Table([c \in priced0 |-> Screens!ChartScore(qs[c], r.strategy)])
             score0  == Screens!Table([c \in priced0 |-> Screens!CandidateScore(gate0[c], sector0[c], chart0[c])])
  <2>1. /\ Screens!Screen(fs, qs, r).gate = gate0
        /\ Screens!Screen(fs, qs, r).priced = priced0
        /\ Screens!Screen(fs, qs, r).score = score0
      BY DEF Screens!Screen
  <2>2. gate0 = gate
      BY TableIsIdentity DEF GateOf
  <2>3. passed0 = passed
      BY <1>1, <2>2
  <2> HIDE DEF gate0, passed0, gate, passed
  <2>4. marks0 = marks
      BY <2>2, <2>3, TableIsIdentity
  <2> HIDE DEF marks0, marks
  <2>5. priced0 = priced
      BY <2>3, <2>4
  <2> HIDE DEF priced0, priced
  <2>6. sector0 = sector /\ chart0 = chart
      BY <2>2, <2>3, <2>5, TableIsIdentity
  <2> HIDE DEF sector0, sector, chart0, chart
  <2>7. score0 = score
      BY <2>2, <2>5, <2>6, TableIsIdentity
  <2> QED BY <2>1, <2>2, <2>5, <2>7
<1>3. asked \subseteq passed
  <2>1. IsFiniteSet(passed) /\ passed \subseteq Int
      BY FS_Subset DEF AreCompanies, Passing
  <2>2. \A c \in passed : marks[c] \in Int
    <3> TAKE c \in passed
    <3> DEFINE f == fs[c]  p == r.profile
    <3>1. IsFiling(f) /\ Passes(f, p) /\ p \in Profile
        BY DEF AreCompanies, Passing
    <3>2. marks[c] = Screens!Judge(f, p).total
        BY DEF Passing, GateOf
    <3> HIDE DEF f, p
    <3>3. Screens!Judge(f, p).total = Screens!Weighted(Fundamentals(f), 90, Screens!Valuation(f)) \div 100
        BY <3>1, Judged
    <3>4. Fundamentals(f) \in Int /\ Fundamentals(f) <= Fundamentals(f)
      <4> DEFINE q == Screens!Clamp(Screens!Quality(f))  g == Screens!GrowthScore(f)
      <4>1. q \in Int /\ g \in Int
          BY <3>1, PassingScores, Scores
      <4>2. Fundamentals(f) = q * 65 + g * 25
          BY DEF Fundamentals
      <4> HIDE DEF q, g
      <4> QED BY <4>1, <4>2
    <3> HIDE DEF marks
    <3>5. Screens!Judge(f, p).total \in Int
        BY <3>1, <3>3, <3>4, ValuationIsAmount, WeightedOrdered
    <3> QED BY <3>2, <3>5
  <2> HIDE DEF passed, marks
  <2>3. Screens!First(passed, PriceLimit, marks)
          \in [1 .. Screens!Least(PriceLimit, Cardinality(passed)) -> passed]
      BY <2>1, <2>2, FirstListsOnce, CompaniesAssumption
  <2> QED BY <2>3 DEF Screens!ToSet
<1> HIDE DEF gate, passed, asked
<1>4. priced \subseteq passed
    BY <1>3
<1>5. ASSUME NEW c \in priced
      PROVE  /\ ~Screens!MissingScoringData(qs[c])
             /\ score[c] = Screens!CandidateScore(gate[c],
                  Screens!SectorScore(fs[c].sector, passed, priced, gate, fs, qs),
                  Screens!ChartScore(qs[c], r.strategy))
    BY <1>5
<1> HIDE DEF priced, score
<1> QED BY <1>2, <1>4, <1>5 DEF gate, passed

\* Without a valuation the rest is weighted by 90 rather than 100.
LEMMA GapBetweenScores ==
    ASSUME NEW g, NEW h, g.quality \in Score, 3333 <= g.quality, g.growth \in Score,
           g.valuation = None, h.quality = g.quality, h.growth = g.growth,
           NEW sector \in Score, NEW chart \in Score, h.valuation \in Int
    PROVE  /\ h.valuation = 0
              => Screens!CandidateScore(g, sector, chart) > Screens!CandidateScore(h, sector, chart)
           /\ h.valuation = 10000
              => Screens!CandidateScore(g, sector, chart) <= Screens!CandidateScore(h, sector, chart)
<1> DEFINE sum == g.quality * 35 + g.growth * 20 + sector * 20 + chart * 15
<1>1. sum \in Int /\ 116655 <= sum /\ sum <= 900000
    BY Scores
<1> HIDE DEF sum
<1>2. Screens!CandidateScore(g, sector, chart) = ((sum * 100) \div 90) \div 100
    BY DEF Screens!CandidateScore, Screens!Weighted, sum
<1>3. Screens!CandidateScore(h, sector, chart)
        = (((sum + h.valuation * 10) * 100) \div (90 + 10)) \div 100
  <2>1. h.valuation # None
      BY DocumentsAssumption
  <2> QED BY <2>1 DEF Screens!CandidateScore, Screens!Weighted, sum
<1>4. ASSUME h.valuation = 0
      PROVE  Screens!CandidateScore(g, sector, chart) > Screens!CandidateScore(h, sector, chart)
    BY <1>1, <1>2, <1>3, <1>4
<1>5. ASSUME h.valuation = 10000
      PROVE  Screens!CandidateScore(g, sector, chart) <= Screens!CandidateScore(h, sector, chart)
    BY <1>1, <1>2, <1>3, <1>5
<1> QED BY <1>4, <1>5


\* A company without a valuation, given one: all else the rules find stays.
LEMMA OnlyTheValuation ==
    ASSUME NEW f, IsFiling(f), f.pe = None, f.pb = None, NEW v \in Int
    PROVE  LET g == [f EXCEPT !.pe = v]
           IN  /\ IsFiling(g) /\ g.sector = f.sector
               /\ \A p \in Profile : Passes(g, p) <=> Passes(f, p)
               /\ Screens!Quality(g) = Screens!Quality(f)
               /\ Screens!GrowthScore(g) = Screens!GrowthScore(f)
               /\ Screens!Outlook(g) = Screens!Outlook(f)
               /\ Screens!Valuation(g) = 10000 - Screens!Scale(v, 8, 45)
<1> DEFINE g == [f EXCEPT !.pe = v]
<1>1. IsFiling(g)
    BY FiguresCorrected DEF Datum, Amount, Annuals
<1>2. /\ \A k \in Annuals : g[k] = f[k]
      /\ g.revenue = f.revenue /\ g.operating = f.operating /\ g.net = f.net /\ g.cash = f.cash
      /\ g.equity = f.equity /\ g.assets = f.assets /\ g.liabilities = f.liabilities
      /\ g.age = f.age /\ g.special = f.special /\ g.sector = f.sector
      /\ g.pe = v /\ g.pb = None
    BY DEF IsFiling, Annuals
<1> HIDE DEF g
<1>3. Screens!Missing(g) <=> Screens!Missing(f)
    BY <1>2 DEF Screens!Missing, Screens!Yearly, Annuals
<1>4. Screens!RevenueGrowth(g) = Screens!RevenueGrowth(f)
    BY <1>2, Zenon DEF Screens!RevenueGrowth
<1>5. \A p \in Profile : Screens!Failing(g, p) <=> Screens!Failing(f, p)
    BY <1>2, <1>4 DEF Screens!Failing
<1>6. Screens!Quality(g) = Screens!Quality(f)
    BY <1>2 DEF Screens!Quality
<1>7. Screens!GrowthScore(g) = Screens!GrowthScore(f)
    BY <1>4 DEF Screens!GrowthScore
<1>8. Screens!Outlook(g) = Screens!Outlook(f)
    BY <1>2 DEF Screens!Outlook
<1>9. Screens!Valuation(g) = 10000 - Screens!Scale(v, 8, 45)
  <2>1. v # None
      BY DocumentsAssumption
  <2> QED BY <1>2, <2>1 DEF Screens!Valuation, Screens!Full, Screens!Point
<1> QED BY <1>1, <1>2, <1>3, <1>5, <1>6, <1>7, <1>8, <1>9 DEF Passes, g

\* The valuation is unknown only if both ratios are.
LEMMA NoValuation ==
    ASSUME NEW f, IsFiling(f), Screens!Valuation(f) = None
    PROVE  f.pe = None /\ f.pb = None
<1>1. f.pe \in Amount /\ f.pb \in Amount
    BY DEF IsFiling, Annuals, Datum
<1> DEFINE pe == Screens!Full - Screens!Scale(f.pe, 8, 45)
           pb == Screens!Full - Screens!Scale(f.pb, 8, 80)
<1>2. (f.pe # None => pe \in Int) /\ (f.pb # None => pb \in Int)
    BY <1>1 DEF Amount, Screens!Scale, Screens!Full, Screens!Point
<1>3. Screens!Valuation(f) = CASE f.pe # None /\ f.pb # None -> (pe + pb) \div 2
                               [] f.pe # None /\ f.pb = None -> pe
                               [] f.pe = None /\ f.pb # None -> pb
                               [] f.pe = None /\ f.pb = None -> None
    BY DEF Screens!Valuation
<1> HIDE DEF pe, pb
<1>4. None \notin Int
    BY DocumentsAssumption
<1>5. (f.pe # None /\ f.pb # None) => (pe + pb) \div 2 \in Int
    BY <1>2
<1> QED BY <1>2, <1>3, <1>4, <1>5

\* The shown score of a company without a valuation, against the score it would
\* have with one.
LEMMA GapAndValuation ==
    ASSUME CompaniesInv, NEW c \in outcome.priced, outcome.gate[c].valuation = None,
           NEW v \in Int,
           Screens!Screen([filings EXCEPT ![c].pe = v], quotes, request).priced = outcome.priced
    PROVE  LET with == Screens!Screen([filings EXCEPT ![c].pe = v], quotes, request)
           IN  /\ v = 45 => outcome.score[c] > with.score[c]
               /\ v = 8  => outcome.score[c] <= with.score[c]
<1> DEFINE p  == request.profile
           fs == [filings EXCEPT ![c].pe = v]
           f  == filings[c]
           g  == [f EXCEPT !.pe = v]
           with   == Screens!Screen(fs, quotes, request)
           gate   == GateOf(filings, p)
           hate   == GateOf(fs, p)
           passed == Passing(filings, p)
           priced == outcome.priced
           s == request.strategy
<1>1. /\ AreCompanies(filings, quotes) /\ p \in Profile /\ s \in Strategy
      /\ outcome = Screens!Screen(filings, quotes, request)
    BY DEF CompaniesInv, Profile, Strategy
<1>2. /\ outcome.gate = gate /\ priced \subseteq passed
      /\ \A d \in priced :
            /\ ~Screens!MissingScoringData(quotes[d])
            /\ outcome.score[d] = Screens!CandidateScore(gate[d],
                  Screens!SectorScore(filings[d].sector, passed, priced, gate, filings, quotes),
                  Screens!ChartScore(quotes[d], s))
    BY <1>1, PricedCompanies
<1>3. c \in DOMAIN filings /\ IsFiling(f) /\ Passes(f, p) /\ gate[c] = Screens!Judge(f, p)
    BY <1>1, <1>2 DEF AreCompanies, Passing, GateOf
<1>4. f.pe = None /\ f.pb = None /\ Screens!Valuation(f) = None
  <2>1. Screens!Judge(f, p).valuation = Screens!Valuation(f)
      BY <1>1, <1>3, Judged
  <2>2. Screens!Valuation(f) = None
      BY <1>2, <1>3, <2>1
  <2> QED BY <1>3, <2>2, NoValuation
<1>5. /\ IsFiling(g) /\ g.sector = f.sector /\ (Passes(g, p) <=> Passes(f, p))
      /\ Screens!Quality(g) = Screens!Quality(f)
      /\ Screens!GrowthScore(g) = Screens!GrowthScore(f)
      /\ Screens!Outlook(g) = Screens!Outlook(f)
      /\ Screens!Valuation(g) = 10000 - Screens!Scale(v, 8, 45)
    BY <1>1, <1>3, <1>4, OnlyTheValuation
<1>6. fs = [filings EXCEPT ![c] = g]
    BY Zenon
<1> HIDE DEF fs, g
<1>7. DOMAIN fs = DOMAIN filings /\ fs[c] = g /\ \A d \in DOMAIN filings : d # c => fs[d] = filings[d]
    BY <1>3, <1>6
<1>8. AreCompanies(fs, quotes)
  <2>1. fs = [d \in DOMAIN fs |-> fs[d]]
      BY <1>1, <1>6 DEF AreCompanies
  <2>2. \A d \in DOMAIN fs : IsFiling(fs[d])
      BY <1>1, <1>5, <1>7 DEF AreCompanies
  <2> QED BY <1>1, <1>7, <2>1, <2>2 DEF AreCompanies
<1>9. Passing(fs, p) = passed
  <2>1. \A d \in DOMAIN filings : Passes(fs[d], p) <=> Passes(filings[d], p)
      BY <1>5, <1>7 DEF f
  <2> QED BY <1>7, <2>1 DEF Passing
<1>10. \A d \in passed : /\ filings[d].sector = fs[d].sector
                         /\ Screens!Outlook(filings[d]) = Screens!Outlook(fs[d])
                         /\ gate[d].quality = hate[d].quality
  <2> TAKE d \in passed
  <2>1. d \in DOMAIN filings /\ IsFiling(filings[d]) /\ Passes(filings[d], p)
      BY <1>1 DEF Passing, AreCompanies
  <2>2. CASE d # c
      BY <1>7, <2>1, <2>2 DEF GateOf
  <2>3. CASE d = c
    <3>1. gate[d].quality = Screens!Clamp(Screens!Quality(f))
        BY <1>1, <1>3, <2>3, Judged
    <3>2. hate[d] = Screens!Judge(g, p)
        BY <1>3, <1>7, <2>3 DEF GateOf
    <3>3. hate[d].quality = Screens!Clamp(Screens!Quality(g))
        BY <1>1, <1>3, <1>5, <3>2, Judged
    <3> QED BY <1>5, <1>7, <2>3, <3>1, <3>3 DEF f
  <2> QED BY <2>2, <2>3
<1> DEFINE sector == Screens!SectorScore(f.sector, passed, priced, gate, filings, quotes)
           chart  == Screens!ChartScore(quotes[c], s)
<1>11. sector = Screens!SectorScore(f.sector, passed, priced, hate, fs, quotes)
    BY <1>2, <1>10, SectorAsksLittle
<1>12. /\ outcome.score[c] = Screens!CandidateScore(gate[c], sector, chart)
       /\ with.score[c] = Screens!CandidateScore(hate[c], sector, chart)
  <2>1. with.priced = priced
      BY DEF fs
  <2>2. /\ \A d \in with.priced : with.score[d] = Screens!CandidateScore(hate[d],
                  Screens!SectorScore(fs[d].sector, Passing(fs, p), with.priced, hate, fs, quotes),
                  Screens!ChartScore(quotes[d], s))
      BY <1>1, <1>8, PricedCompanies
  <2>3. with.score[c] = Screens!CandidateScore(hate[c],
                  Screens!SectorScore(fs[c].sector, passed, priced, hate, fs, quotes), chart)
      BY <1>9, <2>1, <2>2
  <2>4. fs[c].sector = f.sector
      BY <1>5, <1>7
  <2> QED BY <1>2, <1>11, <2>3, <2>4
<1>13. sector \in Score
  <2>1. IsEvidence(passed, priced, gate, filings, quotes)
    <3>1. IsFiniteSet(passed) /\ passed \subseteq Int
        BY <1>1, FS_Subset DEF AreCompanies, Passing
    <3>2. \A d \in passed : IsFiling(filings[d]) /\ ~Screens!Missing(filings[d]) /\ gate[d].quality \in Int
      <4> TAKE d \in passed
      <4>1. d \in DOMAIN filings /\ IsFiling(filings[d]) /\ Passes(filings[d], p)
          BY <1>1 DEF Passing, AreCompanies
      <4>2. gate[d].quality = Screens!Clamp(Screens!Quality(filings[d]))
          BY <1>1, <4>1, Judged DEF GateOf
      <4> QED BY <1>1, <4>1, <4>2, PassingScores, Scores DEF Passes
    <3>3. \A d \in priced : IsQuote(quotes[d])
        BY <1>1, <1>2 DEF AreCompanies, Passing
    <3> QED BY <1>2, <3>1, <3>2, <3>3 DEF IsEvidence
  <2> QED BY <2>1, SectorIsScore
<1>14. chart \in Score
  <2>1. IsQuote(quotes[c])
      BY <1>1, <1>3 DEF AreCompanies
  <2> QED BY <1>1, <1>2, <2>1, ChartIsScore
<1>15. hate[c] = Screens!Judge(g, p)
    BY <1>3, <1>7 DEF GateOf
<1> HIDE DEF sector, chart, gate, hate, f, p, with
<1>16. /\ gate[c].quality \in Score /\ 3333 <= gate[c].quality /\ gate[c].growth \in Score
       /\ gate[c].valuation = None
       /\ hate[c].quality = gate[c].quality /\ hate[c].growth = gate[c].growth
       /\ hate[c].valuation = 10000 - Screens!Scale(v, 8, 45)
  <2>1. /\ gate[c].quality = Screens!Clamp(Screens!Quality(f))
        /\ gate[c].growth = Screens!GrowthScore(f) /\ gate[c].valuation = Screens!Valuation(f)
      BY <1>1, <1>3, Judged
  <2>2. /\ hate[c].quality = Screens!Clamp(Screens!Quality(g))
        /\ hate[c].growth = Screens!GrowthScore(g) /\ hate[c].valuation = Screens!Valuation(g)
      BY <1>1, <1>3, <1>5, <1>15, Judged
  <2> QED BY <1>1, <1>3, <1>4, <1>5, <2>1, <2>2, PassingScores
<1>17. /\ hate[c].valuation \in Int
       /\ v = 45 => hate[c].valuation = 0
       /\ v = 8  => hate[c].valuation = 10000
  <2>1. /\ Screens!Scale(v, 8, 45) \in Int
        /\ v = 45 => Screens!Scale(v, 8, 45) = 10000
        /\ v = 8  => Screens!Scale(v, 8, 45) = 0
      BY DEF Screens!Scale, Screens!Full, Screens!Point
  <2> QED BY <1>16, <2>1
<1>18. /\ v = 45 => outcome.score[c] > with.score[c]
       /\ v = 8  => outcome.score[c] <= with.score[c]
    BY <1>12, <1>13, <1>14, <1>16, <1>17, GapBetweenScores
<1> QED BY <1>18 DEF with, fs


\* s lists m elements of A, each once.
ListsOnce(s, m, A) == s \in [1 .. m -> A] /\ \A i, j \in 1 .. m : s[i] = s[j] => i = j

\* A ranking followed by another that shares no company with it lists each
\* company once.
LEMMA OnceAfterAnother ==
    ASSUME NEW A, NEW B, NEW m \in Nat, NEW n \in Nat, NEW s, NEW t,
           ListsOnce(s, m, A), ListsOnce(t, n, B), A \cap B = {}
    PROVE  ListsOnce(s \o t, m + n, A \cup B)
<1> DEFINE u == s \o t
<1>0. s \in [1 .. m -> A] /\ t \in [1 .. n -> B]
    BY DEF ListsOnce
<1>1. s \in Seq(A \cup B) /\ t \in Seq(A \cup B) /\ Len(s) = m /\ Len(t) = n
  <2>2. s \in [1 .. m -> A \cup B] /\ t \in [1 .. n -> A \cup B]
      BY <1>0
  <2>3. Len(s) = m /\ Len(t) = n
      BY <2>2
  <2> QED BY <2>2, <2>3
<1>2. u = [i \in 1 .. m + n |-> IF i <= m THEN s[i] ELSE t[i - m]]
  <2>1. /\ u \in Seq(A \cup B) /\ Len(u) = m + n
        /\ \A i \in 1 .. m + n : u[i] = IF i <= m THEN s[i] ELSE t[i - m]
    <3>1. /\ u \in Seq(A \cup B) /\ Len(u) = Len(s) + Len(t)
          /\ \A i \in 1 .. Len(s) + Len(t) : u[i] = IF i <= Len(s) THEN s[i] ELSE t[i - Len(s)]
        BY <1>1, ConcatProperties, Zenon
    <3> QED BY <1>1, <3>1
  <2> HIDE DEF u
  <2>2. DOMAIN u = 1 .. m + n /\ u = [i \in DOMAIN u |-> u[i]]
      BY <2>1
  <2> QED BY <2>1, <2>2
<1> HIDE DEF u
<1>3. \A i \in 1 .. m + n : i <= m => i \in 1 .. m /\ u[i] = s[i] /\ u[i] \in A
    BY <1>0, <1>2
<1>4. \A i \in 1 .. m + n : ~(i <= m) => i - m \in 1 .. n /\ u[i] = t[i - m] /\ u[i] \in B
    BY <1>0, <1>2
<1>5. u \in [1 .. m + n -> A \cup B]
    BY <1>2, <1>3, <1>4
<1>6. ASSUME NEW i \in 1 .. m + n, NEW j \in 1 .. m + n, u[i] = u[j] PROVE i = j
  <2>1. CASE i <= m /\ j <= m
      BY <1>3, <1>6, <2>1 DEF ListsOnce
  <2>2. CASE ~(i <= m) /\ ~(j <= m)
    <3>1. i - m = j - m
        BY <1>4, <1>6, <2>2 DEF ListsOnce
    <3> QED BY <3>1
  <2>3. CASE (i <= m /\ ~(j <= m)) \/ (~(i <= m) /\ j <= m)
      BY <1>3, <1>4, <1>6, <2>3
  <2> QED BY <2>1, <2>2, <2>3
<1> QED BY <1>5, <1>6 DEF u, ListsOnce

\* The starter list, whatever the verdicts are.
LEMMA StarterListsAll ==
    ASSUME NEW qs, IsFiniteSet(DOMAIN qs), DOMAIN qs \subseteq Int,
           \A c \in DOMAIN qs : IsQuote(qs[c]), NEW s \in Strategy
    PROVE  LET starter == Screens!StarterScreen(qs, s)
               listed  == starter.candidates \o starter.excluded
           IN  /\ Screens!IsInjective(listed)
               /\ Len(listed) + starter.omitted = Cardinality(DOMAIN qs)
               /\ \A c \in Screens!ToSet(starter.candidates) : ~Screens!MissingScoringData(qs[c])
<1> DEFINE D       == DOMAIN qs
           scored  == {c \in D : ~Screens!MissingScoringData(qs[c])}
           score   == [c \in scored |-> Screens!ChartScore(qs[c], s)]
           wanted  == {c \in scored : Screens!StarterVerdict(qs[c], s) # "exclude"}
           unknown == D \ scored
           zero    == [c \in unknown |-> 0]
           k       == Screens!Least(Limit, Cardinality(wanted))
           first   == Screens!First(wanted, Limit, score)
           rest    == Screens!Ordered(scored \ wanted, score)
           last    == Screens!Ordered(unknown, zero)
<1>1. /\ Screens!StarterScreen(qs, s).candidates = first
      /\ Screens!StarterScreen(qs, s).omitted = Cardinality(wanted) - k
      /\ Screens!StarterScreen(qs, s).excluded = rest \o last
    BY TableIsIdentity, ScreensCount DEF Screens!StarterScreen
<1>2. wanted \in SUBSET scored /\ scored \in SUBSET D
    OBVIOUS
<1>3. \A c \in scored : score[c] \in Int
    BY ChartIsScore, Scores
<1>4. \A c \in unknown : zero[c] \in Int
    OBVIOUS
<1>5. \A c \in scored : ~Screens!MissingScoringData(qs[c])
    OBVIOUS
<1> HIDE DEF scored, score, wanted, zero
<1>6. /\ IsFiniteSet(D) /\ IsFiniteSet(scored) /\ IsFiniteSet(wanted)
      /\ IsFiniteSet(scored \ wanted) /\ IsFiniteSet(unknown)
  <2>1. IsFiniteSet(D) /\ wanted \in SUBSET D /\ scored \ wanted \in SUBSET D /\ unknown \in SUBSET D
      BY <1>2
  <2> QED BY <1>2, <2>1, FS_Subset
<1>7. /\ Cardinality(D) = Cardinality(wanted) + Cardinality(scored \ wanted) + Cardinality(unknown)
      /\ Cardinality(wanted) \in Nat /\ Cardinality(scored \ wanted) \in Nat
      /\ Cardinality(unknown) \in Nat
  <2>1. scored \cap wanted = wanted /\ D \cap scored = scored
      BY <1>2
  <2>2. Cardinality(scored \ wanted) = Cardinality(scored) - Cardinality(wanted)
    <3>1. Cardinality(scored \ wanted) = Cardinality(scored) - Cardinality(scored \cap wanted)
        BY <1>6, FS_Difference, Zenon
    <3> QED BY <2>1, <3>1
  <2>4. Cardinality(unknown) = Cardinality(D) - Cardinality(scored)
    <3>1. Cardinality(D \ scored) = Cardinality(D) - Cardinality(D \cap scored)
        BY <1>6, FS_Difference, Zenon
    <3> QED BY <2>1, <3>1
  <2>3. /\ Cardinality(D) \in Nat /\ Cardinality(scored) \in Nat /\ Cardinality(wanted) \in Nat
        /\ Cardinality(scored \ wanted) \in Nat /\ Cardinality(unknown) \in Nat
      BY <1>6, FS_CardinalityType
  <2> QED BY <2>2, <2>3, <2>4
<1>8. /\ k \in Nat /\ k <= Cardinality(wanted)
      /\ ListsOnce(first, k, wanted)
  <2>1. \A c \in wanted : score[c] \in Int
      BY <1>2, <1>3
  <2>2. wanted \subseteq Int /\ Limit \in Nat
      BY <1>2, CompaniesAssumption
  <2> QED BY <1>6, <2>1, <2>2, FirstListsOnce DEF ListsOnce
<1> DEFINE other  == scored \ wanted
           m == Cardinality(other)
           n == Cardinality(unknown)
<1>9. ListsOnce(rest, m, other)
  <2>1. other \subseteq Int /\ \A c \in other : score[c] \in Int
      BY <1>2, <1>3
  <2> QED BY <1>6, <2>1, OrderedListsOnce DEF ListsOnce
<1>10. ListsOnce(last, n, unknown)
  <2>1. unknown \subseteq Int
      OBVIOUS
  <2> HIDE DEF unknown
  <2> QED BY <1>4, <1>6, <2>1, OrderedListsOnce DEF ListsOnce
<1>11. m \in Nat /\ n \in Nat
    BY <1>7
<1>12. other \cap unknown = {} /\ wanted \cap (other \cup unknown) = {}
    BY <1>2
<1>19. Cardinality(D) = Cardinality(wanted) + m + n
    BY <1>7
<1> DEFINE others == rest \o last
           listed == first \o others
<1> HIDE DEF k, first, rest, last, m, n, unknown, other
<1>13. ListsOnce(others, m + n, other \cup unknown)
    BY <1>9, <1>10, <1>11, <1>12, OnceAfterAnother, Zenon
<1>14. m + n \in Nat
    BY <1>11
<1> HIDE DEF others
<1>15. ListsOnce(listed, k + (m + n), wanted \cup (other \cup unknown))
    BY <1>8, <1>12, <1>13, <1>14, OnceAfterAnother, Zenon
<1> HIDE DEF listed
<1>16. Screens!IsInjective(listed)
    BY <1>15 DEF Screens!IsInjective, ListsOnce
<1>17. Len(listed) + (Cardinality(wanted) - k) = Cardinality(D)
  <2>1. Len(listed) = k + (m + n)
      BY <1>8, <1>14, <1>15 DEF ListsOnce
  <2> QED BY <1>7, <1>8, <1>11, <1>19, <2>1
<1>18. \A c \in Screens!ToSet(first) : ~Screens!MissingScoringData(qs[c])
    BY <1>2, <1>5, <1>8 DEF Screens!ToSet, ListsOnce
<1> QED BY <1>1, <1>16, <1>17, <1>18 DEF listed, others

\* An unknown valuation is neither good nor bad, and the starter list loses no
\* company (_scores, _rank, CandidateDiscoveryService.screen).
THEOREM GapsStayNeutral == RulesSpec => []GapsAreNeutral
<1>1. CompaniesInv => GapsAreNeutral
  <2> SUFFICES ASSUME CompaniesInv PROVE GapsAreNeutral
      OBVIOUS
  <2>1. ASSUME NEW c \in outcome.priced, outcome.gate[c].valuation = None
        PROVE  LET with(v) == Screens!Screen([filings EXCEPT ![c].pe = v], quotes, request)
                   worst == with(45)
                   best  == with(8)
               IN  /\ worst.priced = outcome.priced => outcome.score[c] > worst.score[c]
                   /\ best.priced = outcome.priced  => outcome.score[c] <= best.score[c]
    <3>1. 45 \in Int /\ 8 \in Int
        OBVIOUS
    <3>2. Screens!Screen([filings EXCEPT ![c].pe = 45], quotes, request).priced = outcome.priced
          => outcome.score[c] > Screens!Screen([filings EXCEPT ![c].pe = 45], quotes, request).score[c]
        BY <2>1, <3>1, GapAndValuation, Zenon
    <3>3. Screens!Screen([filings EXCEPT ![c].pe = 8], quotes, request).priced = outcome.priced
          => outcome.score[c] <= Screens!Screen([filings EXCEPT ![c].pe = 8], quotes, request).score[c]
        BY <2>1, <3>1, GapAndValuation, Zenon
    <3> QED BY <3>2, <3>3
  <2>2. LET starter == Screens!StarterScreen(quotes, request.strategy)
            listed  == starter.candidates \o starter.excluded
        IN  /\ Screens!IsInjective(listed)
            /\ Len(listed) + starter.omitted = Cardinality(DOMAIN quotes)
            /\ \A c \in Screens!ToSet(starter.candidates) : ~Screens!MissingScoringData(quotes[c])
    <3>1. /\ IsFiniteSet(DOMAIN quotes) /\ DOMAIN quotes \subseteq Int
          /\ \A c \in DOMAIN quotes : IsQuote(quotes[c]) /\ request.strategy \in Strategy
        BY DEF CompaniesInv, AreCompanies, Strategy
    <3>2. request.strategy \in Strategy
        BY DEF CompaniesInv, Strategy
    <3> QED BY <3>1, <3>2, StarterListsAll
  <2> QED BY <2>1, <2>2, ScreensCount DEF GapsAreNeutral, Screens!GapsAreNeutral
<1> QED BY <1>1, CompaniesInvariant, PTL

=============================================================================
