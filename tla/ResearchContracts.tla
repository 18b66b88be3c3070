------------------------- MODULE ResearchContracts -------------------------
(***************************************************************************)
(* services/research_contracts.py: facts, sources, sections and the bundle *)
(* that an analysis is made from, and the checks each of them must pass.   *)
(* Times are points of one clock; texts are reduced to whether there are   *)
(* any.                                                                    *)
(***************************************************************************)
EXTENDS Integers, FiniteSets, FiniteSetsExt

Fact(id, source, observed, published, collected) ==
    [id |-> id, source |-> source, observed |-> observed,
     published |-> published, collected |-> collected]
FactAccepted(f) == f.observed <= f.published /\ f.published <= f.collected

Source(id, retrieved) == [id |-> id, retrieved |-> retrieved]

\* facts: the ids a section refers to; gaps, reasons: whether it names data
\* gaps and reasons why it is blocked.
Section(id, status, required, facts, gaps, reasons) ==
    [id |-> id, status |-> status, required |-> required,
     facts |-> facts, gaps |-> gaps, reasons |-> reasons]
SectionAccepted(s) ==
    /\ s.status = "complete" => s.facts # {} /\ ~s.reasons
    /\ s.status = "partial" => s.facts # {} /\ s.gaps
    /\ s.status = "unavailable" => s.facts = {} /\ s.reasons
    /\ s.status = "blocked" => s.reasons

Unavailable(id, required) == Section(id, "unavailable", required, {}, FALSE, TRUE)

\* The sections a source builds from the facts it found.
Evidence(id, facts, gaps, required) ==
    CASE facts = {} -> Unavailable(id, required)
      [] facts # {} /\ gaps -> Section(id, "partial", required, facts, TRUE, FALSE)
      [] OTHER -> Section(id, "complete", required, facts, FALSE, FALSE)

Ids(S) == {x.id : x \in S}
UniqueIds(S) == \A x, y \in S : x.id = y.id => x = y
Incomplete(sections) == {s \in sections : s.required /\ s.status # "complete"}

\* DataQualityReport and AnalysisInputBundle: what their validators accept.
QualityAccepted(q) ==
    IF q.eligible THEN ~q.reasons /\ q.stale = {} /\ q.blocked = {} /\ q.missing = {}
    ELSE q.reasons
BundleAccepted(b) ==
    /\ b.session <= b.cutoff
    /\ UniqueIds(b.sources) /\ UniqueIds(b.facts) /\ UniqueIds(b.sections)
    /\ \A s \in b.sources : s.retrieved <= b.cutoff
    /\ \A f \in b.facts :
          /\ FactAccepted(f) /\ f.collected <= b.cutoff
          /\ \E s \in b.sources : s.id = f.source /\ s.retrieved <= f.collected
    /\ \A s \in b.sections : SectionAccepted(s) /\ s.facts \subseteq Ids(b.facts)
    /\ QualityAccepted(b.quality)
    /\ b.quality.stale \subseteq Ids(b.facts)
    /\ b.quality.blocked \subseteq Ids(b.sections)
    /\ b.quality.missing \cap Ids(b.sections) = {}
    /\ Ids(Incomplete(b.sections)) \subseteq b.quality.blocked
=============================================================================
