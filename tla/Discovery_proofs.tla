-------------------------- MODULE Discovery_proofs --------------------------
(***************************************************************************)
(* Theorems about Discovery, for any number of scans, any finite set of    *)
(* companies, any listings, archives and limits, and whatever the caches   *)
(* hold when the server begins.                                            *)
(***************************************************************************)
EXTENDS Discovery, FiniteSetTheorems, TLAPS

----------------------------------------------------------------------------
(* The inductive invariant *)

\* A job with status, stages and result J, and its coroutine K: who carries whom.
Carries(J, K, serving) ==
    /\ J.status = "running" => K.at # "none"
    /\ J.status = "queued" => K.at = "created" \/ (K.at = "none" /\ ~serving)
    /\ K.at = "created" => J.status = "queued"
    /\ K.at \notin {"none", "created"} => J.status = "running"
    /\ J.result # None <=> J.status \in {"complete", "partial"}

\* No stage begins before the one before it is done, nor, from the liquidity on, with
\* more than that one let pass.
Chained(stage) ==
    /\ stage["fundamentals"].begun => stage["universe"].done
    /\ stage["liquidity"].begun => stage["fundamentals"].done
                                   /\ stage["liquidity"].total <= stage["fundamentals"].passed
    /\ stage["sector"].begun => stage["liquidity"].done
                                /\ stage["sector"].total <= stage["liquidity"].passed
    /\ stage["ranking"].begun => stage["sector"].done
                                 /\ stage["ranking"].total <= stage["sector"].passed

\* A result went through all stages, to members with fundamentals.
Sound(stage, result) ==
    /\ \A s \in StageSet : stage[s].done
    /\ result.candidates \subseteq result.members \cap result.items
    /\ Size(result.items) <= Size(result.members)

\* The places of a scan that has reported its listing and no gate.
Middle == {"financials", "requesting", "streaming", "industries", "parsing", "dart", "items"}

NoneBegun(stage)  == \A s \in StageSet : ~stage[s].begun
NoneRanked(stage) == ~stage["sector"].begun /\ ~stage["ranking"].begun

\* How far the stages are, by the place of the scan.
Reached(J, K) ==
    /\ J.status = "none" \/ K.at \in {"created", "listing", "listed"} => NoneBegun(J.stage)
    /\ K.at \in Middle =>
          J.stage["universe"].done /\ ~J.stage["liquidity"].begun /\ NoneRanked(J.stage)
    /\ K.at = "items" => K.hit \/ K.items \subseteq K.members
    /\ K.at = "prices" =>
          /\ J.stage["universe"].done /\ J.stage["fundamentals"].done /\ NoneRanked(J.stage)
          /\ K.inputs \subseteq K.items /\ Size(K.items) <= Size(K.members)
          /\ Size(K.inputs) <= J.stage["fundamentals"].passed
          /\ K.pending \subseteq K.inputs /\ K.good \subseteq K.inputs \cap K.members
          /\ J.stage["liquidity"].begun =>
                /\ J.stage["liquidity"].total = Size(K.inputs)
                /\ J.stage["liquidity"].passed = Size(K.good)
                /\ K.pending = {} => J.stage["liquidity"].done
          /\ K.good # {} => J.stage["liquidity"].begun

\* What holds of a job and its coroutine.
Fits(J, K, serving) ==
    /\ J \in Job /\ K \in Coroutine
    /\ Carries(J, K, serving) /\ Chained(J.stage) /\ Reached(J, K)
    /\ J.result # None => Sound(J.stage, J.result)

IInv ==
    /\ TypeOK
    /\ \A j \in Scans : Fits(job[j], scan[j], up)
    /\ CachedBatchIsWhole
----------------------------------------------------------------------------
(* Stages, sets of companies and places *)

LEMMA StageFacts ==
    /\ Stages[1] = "universe" /\ Stages[2] = "fundamentals" /\ Stages[3] = "liquidity"
    /\ Stages[4] = "sector" /\ Stages[5] = "ranking"
    /\ StageSet = {"universe", "fundamentals", "liquidity", "sector", "ranking"}
<1>1. /\ Stages[1] = "universe" /\ Stages[2] = "fundamentals" /\ Stages[3] = "liquidity"
      /\ Stages[4] = "sector" /\ Stages[5] = "ranking"
  BY DEF Stages
<1>2. \A n \in 1 .. 5 : n = 1 \/ n = 2 \/ n = 3 \/ n = 4 \/ n = 5
  BY SMT
<1>3. 1 \in 1 .. 5 /\ 2 \in 1 .. 5 /\ 3 \in 1 .. 5 /\ 4 \in 1 .. 5 /\ 5 \in 1 .. 5
  BY SMT
<1>4. ASSUME NEW s \in StageSet
      PROVE  s \in {"universe", "fundamentals", "liquidity", "sector", "ranking"}
  <2>1. PICK n \in 1 .. 5 : s = Stages[n]
    BY <1>4 DEF StageSet
  <2> QED BY <2>1, <1>1, <1>2
<1>5. \A n \in 1 .. 5 : Stages[n] \in StageSet
  BY DEF StageSet
<1>6. {"universe", "fundamentals", "liquidity", "sector", "ranking"} \subseteq StageSet
  BY <1>1, <1>3, <1>5
<1> QED BY <1>1, <1>4, <1>6

LEMMA SizeFacts ==
    /\ \A S \in SUBSET Tickers : IsFiniteSet(S) /\ Size(S) \in Nat
    /\ \A T \in SUBSET Tickers : \A S \in SUBSET T : Size(S) <= Size(T)
<1>1. \A S \in SUBSET Tickers : IsFiniteSet(S)
  BY DiscoveryAssumption, FS_Subset
<1> QED BY <1>1, FS_Subset, FS_CardinalityType DEF Size

LEMMA MembersFacts ==
    \A u \in Universes : u \in SUBSET Tickers /\ u # {} /\ Size(u) \in Nat
BY DiscoveryAssumption, SizeFacts

\* What a scan keeps at each place.
LEMMA PlaceFacts ==
    ASSUME NEW K \in Coroutine
    PROVE  /\ K.at = "none" => K = NoScan
           /\ K.at \in {"created", "listing"} => K \in Unlisted
           /\ K.at = "listed" => K \in Listed
           /\ K.at = "financials" => K \in Financials
           /\ K.at = "requesting" => K \in Requesting
           /\ K.at = "streaming" => K \in Streaming
           /\ K.at \in {"industries", "parsing"} => K \in Reading
           /\ K.at = "dart" => K \in Searching \cup Bundles
           /\ K.at = "items" => K \in Gated
           /\ K.at = "prices" => K \in Priced
<1>1. /\ K \in Idle => K.at = "none"
      /\ K \in Unlisted => K.at \in {"created", "listing"}
      /\ K \in Listed => K.at = "listed"
      /\ K \in Financials => K.at = "financials"
      /\ K \in Requesting => K.at = "requesting"
  BY DEF Idle, Unlisted, Listed, Financials, Requesting
<1>3. /\ K \in Streaming => K.at = "streaming"
      /\ K \in Reading => K.at \in {"industries", "parsing"}
      /\ K \in Searching \cup Bundles => K.at = "dart"
  BY DEF Streaming, Reading, Searching, Bundles
<1>4. /\ K \in Gated => K.at = "items"
      /\ K \in Priced => K.at = "prices"
  BY DEF Gated, Priced
<1>2. K \in Idle => K = NoScan
  BY DEF Idle, NoScan
<1> QED BY <1>1, <1>2, <1>3, <1>4 DEF Coroutine

LEMMA PlacesAreCoroutines ==
    /\ NoScan \in Coroutine /\ NoScan.at = "none"
    /\ Unlisted \subseteq Coroutine /\ Listed \subseteq Coroutine /\ Financials \subseteq Coroutine
    /\ Requesting \subseteq Coroutine /\ Streaming \subseteq Coroutine /\ Reading \subseteq Coroutine
    /\ Searching \subseteq Coroutine /\ Bundles \subseteq Coroutine /\ Gated \subseteq Coroutine /\ Priced \subseteq Coroutine
<1>1. NoScan \in Idle /\ NoScan.at = "none"
  BY DEF Idle, NoScan
<1> QED BY <1>1 DEF Coroutine

----------------------------------------------------------------------------
(* Reports and failures *)

\* A count as a runner reports it.
Told == [total : Int, processed : Int, passed : Int, failed : Int, cached : Int]

\* The stage that has taken the count c.
Taken(c, completed) ==
    [total |-> c.total, processed |-> c.processed, passed |-> c.passed, failed |-> c.failed,
     cached |-> c.cached, begun |-> TRUE,
     done |-> completed \/ (c.total > 0 /\ c.processed = c.total)]

\* The job J after a report on stage s, and after a failure.
Advanced(J, s, c, completed) ==
    [status |-> "running", stage |-> [J.stage EXCEPT ![s] = Taken(c, completed)],
     result |-> J.result]
Failed(J) == [status |-> "failed", stage |-> J.stage, result |-> J.result]

\* The job and the coroutine of j become J and K.
Becomes(j, J, K) ==
    /\ job' = [job EXCEPT ![j] = J]
    /\ scan' = [scan EXCEPT ![j] = K]

LEMMA CountFacts ==
    ASSUME NEW total, NEW processed, NEW passed, NEW failed, NEW cached
    PROVE  LET c == Count(total, processed, passed, failed, cached) IN
           /\ c.total = total /\ c.processed = processed /\ c.passed = passed
           /\ c.failed = failed /\ c.cached = cached
           /\ total \in Int /\ processed \in Int /\ passed \in Int /\ failed \in Int
              /\ cached \in Int => c \in Told
BY DEF Count, Told

\* A count that is not refused has no negative part.
LEMMA ValidFacts ==
    ASSUME NEW c \in Told, Valid(c)
    PROVE  /\ c.total \in Nat /\ c.processed \in Nat /\ c.passed \in Nat /\ c.failed \in Nat
           /\ c.cached \in Nat /\ c.cached <= c.processed /\ c.processed <= c.total
<1>1. /\ c.total \in Int /\ c.processed \in Int /\ c.passed \in Int /\ c.failed \in Int
      /\ c.cached \in Int /\ DOMAIN c = {"total", "processed", "passed", "failed", "cached"}
  BY DEF Told
<1>2. /\ c["total"] >= 0 /\ c["processed"] >= 0 /\ c["passed"] >= 0 /\ c["failed"] >= 0
      /\ c["cached"] >= 0 /\ c.cached <= c.processed /\ c.processed <= c.total
  BY <1>1 DEF Valid
<1> QED BY <1>1, <1>2, SMT

LEMMA TakenFacts ==
    ASSUME NEW c \in Told, Valid(c), NEW completed \in BOOLEAN
    PROVE  /\ Taken(c, completed) \in Counts /\ Taken(c, completed).begun
           /\ Taken(c, completed).total = c.total /\ Taken(c, completed).passed = c.passed
           /\ completed => Taken(c, completed).done
<1>1. (c.total > 0 /\ c.processed = c.total) \in BOOLEAN
  OBVIOUS
<1> QED BY <1>1, ValidFacts DEF Taken, Counts

LEMMA JobFacts ==
    ASSUME NEW J \in Job
    PROVE  /\ J.stage \in [StageSet -> Counts] /\ J.result \in Outcome \cup {None}
           /\ J.status \in {"none", "queued", "running"} \cup Ended
           /\ J = [status |-> J.status, stage |-> J.stage, result |-> J.result]
BY DEF Job

LEMMA AdvancedFacts ==
    ASSUME NEW J \in Job, NEW s \in StageSet, NEW c \in Told, Valid(c), NEW completed \in BOOLEAN
    PROVE  LET A == Advanced(J, s, c, completed) IN
           /\ A \in Job /\ A.status = "running" /\ A.result = J.result
           /\ A.stage[s] = Taken(c, completed)
           /\ \A t \in StageSet : t # s => A.stage[t] = J.stage[t]
<1> DEFINE stage == [J.stage EXCEPT ![s] = Taken(c, completed)]
<1>1. stage \in [StageSet -> Counts] /\ stage[s] = Taken(c, completed)
      /\ \A t \in StageSet : t # s => stage[t] = J.stage[t]
  BY JobFacts, TakenFacts
<1>2. Advanced(J, s, c, completed) = [status |-> "running", stage |-> stage, result |-> J.result]
  BY DEF Advanced
<1> HIDE DEF stage
<1> QED BY <1>1, <1>2, JobFacts DEF Job

LEMMA RecordedFacts ==
    ASSUME TypeOK, NEW j \in Scans, NEW s \in StageSet, NEW c, NEW completed \in BOOLEAN
    PROVE  Recorded(j, s, c, completed) = [job EXCEPT ![j] = Advanced(job[j], s, c, completed)]
<1>1. job \in [Scans -> Job] /\ job[j] \in Job
  BY DEF TypeOK
<1>2. Recorded(j, s, c, completed) = [job EXCEPT ![j] = Advanced(job[j], s, c, completed)]
  <2> DEFINE taken == Taken(c, completed)
             first == [job[j] EXCEPT !.status = "running"]
  <2>1. first = [status |-> "running", stage |-> job[j].stage, result |-> job[j].result]
    BY <1>1, JobFacts
  <2>2. [first EXCEPT !.stage[s] = taken] = Advanced(job[j], s, c, completed)
    <3>1. first.stage = job[j].stage
      BY <2>1
    <3>2. [first EXCEPT !.stage = [first.stage EXCEPT ![s] = taken]]
            = [status |-> "running", stage |-> [job[j].stage EXCEPT ![s] = taken],
               result |-> job[j].result]
      <4> DEFINE more == [job[j].stage EXCEPT ![s] = taken]
      <4>1. [first.stage EXCEPT ![s] = taken] = more
        BY <3>1
      <4> HIDE DEF more, first
      <4>2. [first EXCEPT !.stage = more]
              = [status |-> "running", stage |-> more, result |-> job[j].result]
        BY <2>1
      <4> QED BY <4>1, <4>2 DEF more
    <3> QED BY <3>2 DEF Advanced
  <2>3. Recorded(j, s, c, completed)
          = [[job EXCEPT ![j] = first] EXCEPT ![j] = [first EXCEPT !.stage[s] = taken]]
    BY <1>1 DEF Recorded, Taken
  <2> HIDE DEF first, taken
  <2> QED BY <2>2, <2>3, <1>1
<1> QED BY <1>2

\* A report is taken, or the runner fails.
LEMMA ReportCases ==
    ASSUME TypeOK, NEW j \in Scans, NEW s \in StageSet, NEW c, NEW completed \in BOOLEAN,
           NEW next,
           Report(j, s, c, completed, next)
    PROVE  \/ Valid(c) /\ Becomes(j, Advanced(job[j], s, c, completed), next)
           \/ Fail(j)
BY RecordedFacts DEF Report, Becomes

LEMMA FailBecomes ==
    ASSUME TypeOK, NEW j \in Scans, Fail(j)
    PROVE  Becomes(j, Failed(job[j]), NoScan)
<1>1. job \in [Scans -> Job] /\ job[j] \in Job
  BY DEF TypeOK
<1>2. [job[j] EXCEPT !.status = "failed"] = Failed(job[j])
  BY <1>1, JobFacts DEF Failed
<1> QED BY <1>1, <1>2 DEF Fail, Becomes
----------------------------------------------------------------------------
(* What a step of one scan keeps *)

\* All jobs and coroutines after a step.
AllFit ==
    /\ job' \in [Scans -> Job] /\ scan' \in [Scans -> Coroutine]
    /\ \A i \in Scans : Fits(job'[i], scan'[i], up')

LEMMA OthersFit ==
    ASSUME IInv, NEW j \in Scans, NEW J, NEW K, Becomes(j, J, K), Fits(J, K, up), up' = up
    PROVE  AllFit
<1>1. job \in [Scans -> Job] /\ scan \in [Scans -> Coroutine] /\ J \in Job /\ K \in Coroutine
  BY DEF IInv, TypeOK, Fits
<1>2. job' \in [Scans -> Job] /\ scan' \in [Scans -> Coroutine]
  BY <1>1 DEF Becomes
<1>3. ASSUME NEW i \in Scans
      PROVE  Fits(job'[i], scan'[i], up')
  <2>1. CASE i = j
    BY <1>1, <2>1 DEF Becomes
  <2>2. CASE i # j
    <3>1. job'[i] = job[i] /\ scan'[i] = scan[i]
      BY <1>1, <2>2 DEF Becomes
    <3> QED BY <3>1 DEF IInv
  <2> QED BY <2>1, <2>2
<1> QED BY <1>2, <1>3 DEF AllFit

\* A running job fails, and its scan is over.
LEMMA FailureFits ==
    ASSUME NEW J, NEW K, NEW serving, Fits(J, K, serving), K.at \notin {"none", "created"},
           NEW later
    PROVE  Fits(Failed(J), NoScan, later)
<1>1. /\ Failed(J).status = "failed" /\ Failed(J).stage = J.stage /\ Failed(J).result = J.result
      /\ Failed(J) \in Job /\ J.status = "running"
  BY JobFacts DEF Fits, Carries, Failed, Job, Ended
<1>2. J.result = None
  BY <1>1 DEF Fits, Carries
<1>3. NoScan \in Coroutine /\ NoScan.at = "none"
  BY PlacesAreCoroutines
<1> QED BY <1>1, <1>2, <1>3 DEF Fits, Carries, Reached, Middle

LEMMA FailKeeps ==
    ASSUME IInv, NEW j \in Scans, scan[j].at \notin {"none", "created"}, Fail(j), up' = up
    PROVE  AllFit
<1>1. Becomes(j, Failed(job[j]), NoScan)
  BY FailBecomes DEF IInv
<1>2. Fits(job[j], scan[j], up)
  BY DEF IInv
<1>3. Fits(Failed(job[j]), NoScan, up)
  BY <1>2, FailureFits
<1> QED BY <1>1, <1>3, OthersFit

\* A report is taken, with which the next place of the scan fits, or the scan fails.
LEMMA ReportKeeps ==
    ASSUME IInv, NEW j \in Scans, scan[j].at \notin {"none", "created"}, up' = up,
           NEW s \in StageSet, NEW c, NEW completed \in BOOLEAN, NEW next,
           Report(j, s, c, completed, next),
           Valid(c) => Fits(Advanced(job[j], s, c, completed), next, up)
    PROVE  AllFit
<1>1. \/ Valid(c) /\ Becomes(j, Advanced(job[j], s, c, completed), next)
      \/ Fail(j)
  BY ReportCases DEF IInv
<1> QED BY <1>1, FailKeeps, OthersFit

\* From one of the middle places to another, with or without a report.
LEMMA MovesOn ==
    ASSUME NEW J, NEW K, NEW serving, Fits(J, K, serving), K.at \in Middle,
           NEW next \in Coroutine, next.at \in Middle,
           next.at = "items" => next.hit \/ next.items \subseteq next.members
    PROVE  Fits(J, next, serving)
<1>1. /\ next.at \notin {"none", "created", "listing", "listed", "prices"}
      /\ K.at \notin {"none", "created"}
  BY DEF Middle
<1>2. J.status = "running"
  BY <1>1 DEF Fits, Carries
<1>3. Carries(J, next, serving) /\ Reached(J, next)
  BY <1>1, <1>2 DEF Fits, Carries, Reached
<1> QED BY <1>3 DEF Fits

LEMMA ReportsOn ==
    ASSUME NEW J, NEW K, NEW serving, Fits(J, K, serving), K.at \in Middle,
           NEW c \in Told, Valid(c), NEW completed \in BOOLEAN,
           NEW next \in Coroutine, next.at \in Middle,
           next.at = "items" => next.hit \/ next.items \subseteq next.members
    PROVE  Fits(Advanced(J, "fundamentals", c, completed), next, serving)
<1> DEFINE A == Advanced(J, "fundamentals", c, completed)
<1>1. J \in Job /\ J.status = "running" /\ J.result = None
  BY DEF Fits, Carries, Middle
<1>2. "fundamentals" \in StageSet /\ \A t \in {"universe", "liquidity", "sector", "ranking"} :
          t \in StageSet /\ t # "fundamentals"
  BY StageFacts
<1>3. /\ A \in Job /\ A.status = "running" /\ A.result = J.result
      /\ \A t \in StageSet : t # "fundamentals" => A.stage[t] = J.stage[t]
  BY <1>1, <1>2, AdvancedFacts
<1> HIDE DEF A
<1>4. /\ A.stage["universe"] = J.stage["universe"] /\ A.stage["liquidity"] = J.stage["liquidity"]
      /\ A.stage["sector"] = J.stage["sector"] /\ A.stage["ranking"] = J.stage["ranking"]
  BY <1>2, <1>3
<1>5. J.stage["universe"].done /\ ~J.stage["liquidity"].begun /\ NoneRanked(J.stage)
  BY DEF Fits, Reached
<1>6. Chained(A.stage)
  BY <1>4, <1>5 DEF Chained, NoneRanked
<1>7. Carries(A, next, serving)
  BY <1>1, <1>3 DEF Carries, Middle
<1>8. Reached(A, next)
  BY <1>3, <1>4, <1>5 DEF Reached, Middle, NoneRanked
<1>9. Fits(A, next, serving)
  BY <1>1, <1>3, <1>6, <1>7, <1>8 DEF Fits
<1> QED BY <1>9 DEF A
----------------------------------------------------------------------------
(* The listing and the beginning of the fundamentals *)

\* The ledger stays and the scan is at K.
LEMMA ScanBecomes ==
    ASSUME TypeOK, NEW j \in Scans, NEW K, scan' = [scan EXCEPT ![j] = K], job' = job
    PROVE  Becomes(j, job[j], K)
BY DEF TypeOK, Becomes

LEMMA AtFacts ==
    ASSUME IInv, NEW j \in Scans
    PROVE  scan[j] \in Coroutine /\ job[j] \in Job /\ Fits(job[j], scan[j], up)
BY DEF IInv, TypeOK

LEMMA BeginFits ==
    ASSUME IInv, NEW j \in Scans, Begin(j)
    PROVE  AllFit
<1> DEFINE K == scan[j]
           J == job[j]
           m == K.market
           next == IF ~K.force /\ universe[m] # None
                   THEN [at |-> "listed", market |-> m, force |-> FALSE,
                         members |-> universe[m].members, ciks |-> universe[m].ciks, hit |-> TRUE]
                   ELSE [K EXCEPT !.at = "listing"]
           begun == [status |-> "running", stage |-> J.stage, result |-> J.result]
<1>1. TypeOK /\ K.at = "created" /\ up' = up
  BY DEF IInv, Begin, At
<1>2. K \in Unlisted /\ J \in Job /\ Fits(J, K, up)
  BY <1>1, AtFacts, PlaceFacts
<1>3. Becomes(j, begun, next)
  <2>1. [J EXCEPT !.status = "running"] = begun
    BY <1>2, JobFacts
  <2> QED BY <2>1, <1>1 DEF Begin, Becomes, TypeOK
<1>4. next \in Coroutine /\ next.at \in {"listed", "listing"}
  <2>1. CASE ~K.force /\ universe[m] # None
    <3>1. m \in Markets /\ universe[m] \in Listing
      BY <1>1, <1>2, <2>1 DEF Unlisted, TypeOK
    <3>2. universe[m].members \in Universes /\ universe[m].ciks \in BOOLEAN
      BY <3>1 DEF Listing
    <3>3. next \in Listed /\ next.at = "listed"
      BY <2>1, <3>1, <3>2 DEF Listed
    <3> QED BY <3>3, PlacesAreCoroutines
  <2>2. CASE ~(~K.force /\ universe[m] # None)
    <3>1. next \in Unlisted /\ next.at = "listing"
      BY <1>2, <2>2 DEF Unlisted
    <3> QED BY <3>1, PlacesAreCoroutines
  <2> QED BY <2>1, <2>2
<1>5. /\ begun \in Job /\ begun.status = "running" /\ begun.stage = J.stage
      /\ begun.result = J.result
  BY <1>2, JobFacts DEF Job
<1> HIDE DEF next, begun, J, K
<1>6. J.result = None /\ NoneBegun(J.stage) /\ Chained(J.stage)
  BY <1>1, <1>2 DEF Fits, Carries, Reached
<1>7. Fits(begun, next, up)
  BY <1>4, <1>5, <1>6 DEF Fits, Carries, Reached, Middle
<1> QED BY <1>1, <1>3, <1>7, OthersFit

LEMMA ListingArrivesFits ==
    ASSUME IInv, NEW j \in Scans, ListingArrives(j)
    PROVE  AllFit /\ universe' \in [Markets -> Listing \cup {None}]
<1>1. TypeOK /\ scan[j].at = "listing" /\ up' = up /\ job' = job
  BY DEF IInv, ListingArrives, At
<1>2. scan[j] \in Unlisted /\ Fits(job[j], scan[j], up) /\ scan[j].market \in Markets
  BY <1>1, AtFacts, PlaceFacts DEF Unlisted
<1>3. PICK u \in Universes, c \in BOOLEAN :
          /\ universe' = [universe EXCEPT ![scan[j].market] = [members |-> u, ciks |-> c]]
          /\ scan' = [scan EXCEPT ![j] =
                 [at |-> "listed", market |-> @.market, force |-> @.force,
                  members |-> u, ciks |-> c, hit |-> FALSE]]
  BY DEF ListingArrives
<1> DEFINE next == [at |-> "listed", market |-> scan[j].market, force |-> scan[j].force,
                    members |-> u, ciks |-> c, hit |-> FALSE]
<1>4. next \in Listed /\ next.at = "listed"
  BY <1>2 DEF Unlisted, Listed
<1>5. scan' = [scan EXCEPT ![j] = next]
  BY <1>3
<1> HIDE DEF next
<1>6. Fits(job[j], next, up)
  BY <1>1, <1>2, <1>4, PlacesAreCoroutines DEF Fits, Carries, Reached, Middle
<1>7. AllFit
  BY <1>1, <1>5, <1>6, ScanBecomes, OthersFit
<1>8. [members |-> u, ciks |-> c] \in Listing
  BY DEF Listing
<1> QED BY <1>1, <1>3, <1>7, <1>8 DEF TypeOK

LEMMA ReportListingFits ==
    ASSUME IInv, NEW j \in Scans, ReportListing(j)
    PROVE  AllFit
<1> DEFINE K == scan[j]
           J == job[j]
           n == Size(K.members)
           c == Count(n + Excluded, n + Excluded, n, Excluded, IF K.hit THEN n ELSE 0)
           next == [at |-> "financials", market |-> K.market, force |-> K.force,
                    members |-> K.members, ciks |-> K.ciks]
<1>1. K.at = "listed" /\ up' = up /\ Report(j, "universe", c, TRUE, next)
  BY DEF ReportListing, At
<1>2. K \in Listed /\ J \in Job /\ Fits(J, K, up)
  BY <1>1, AtFacts, PlaceFacts
<1>3. c \in Told
  <2>1. n \in Nat /\ Excluded \in Nat
    BY <1>2, MembersFacts, DiscoveryAssumption DEF Listed
  <2> HIDE DEF n
  <2>2. n \in Int /\ n + Excluded \in Int /\ Excluded \in Int /\ 0 \in Int
    BY <2>1, SMT
  <2> QED BY <2>2, CountFacts
<1>4. next \in Coroutine /\ next.at = "financials"
  <2>1. next \in Financials /\ next.at = "financials"
    BY <1>2 DEF Listed, Financials
  <2> QED BY <2>1, PlacesAreCoroutines
<1> HIDE DEF c, next, J, K
<1>5. ASSUME Valid(c)
      PROVE  Fits(Advanced(J, "universe", c, TRUE), next, up)
  <2> DEFINE A == Advanced(J, "universe", c, TRUE)
  <2>1. "universe" \in StageSet /\ \A t \in {"fundamentals", "liquidity", "sector", "ranking"} :
            t \in StageSet /\ t # "universe"
    BY StageFacts
  <2>2. /\ A \in Job /\ A.status = "running" /\ A.result = J.result
        /\ A.stage["universe"] = Taken(c, TRUE)
        /\ \A t \in StageSet : t # "universe" => A.stage[t] = J.stage[t]
    BY <1>2, <1>3, <1>5, <2>1, AdvancedFacts
  <2> HIDE DEF A
  <2>3. J.result = None /\ NoneBegun(J.stage) /\ Chained(J.stage)
    BY <1>1, <1>2 DEF Fits, Carries, Reached
  <2>4. /\ ~A.stage["fundamentals"].begun /\ ~A.stage["liquidity"].begun
        /\ ~A.stage["sector"].begun /\ ~A.stage["ranking"].begun
    BY <2>1, <2>2, <2>3 DEF NoneBegun
  <2>5. A.stage["universe"].done
    BY <1>3, <1>5, <2>2, TakenFacts
  <2>6. Fits(A, next, up)
    BY <1>4, <2>2, <2>3, <2>4, <2>5 DEF Fits, Carries, Chained, Reached, NoneRanked
  <2> QED BY <2>6 DEF A
<1>6. "universe" \in StageSet /\ K.at \notin {"none", "created"}
  BY <1>1, StageFacts
<1>7. AllFit
  BY <1>1, <1>5, <1>6, ReportKeeps DEF J, K
<1> QED BY <1>7

LEMMA BeginFundamentalsFits ==
    ASSUME IInv, NEW j \in Scans, BeginFundamentals(j)
    PROVE  AllFit
<1> DEFINE K == scan[j]
           J == job[j]
           n == Size(K.members)
           b == batch[K.market]
           found == Size(b.items)
           asked == Size(b.requested)
           most  == Largest(asked, n)
           cUS == Count(most, Least(found, most), 0, 0, found)
           cKR == Count(most, asked, 0, 0, asked)
           c0 == Count(n, 0, 0, 0, 0)
           items == WithItems(K, b.items, TRUE)
           request == [at |-> "requesting", file |-> "facts", members |-> K.members, ciks |-> K.ciks]
           dart == [at |-> "dart", step |-> "main", years |-> 0, errors |-> FALSE,
                    members |-> K.members]
<1>1. K.at = "financials" /\ up' = up /\ TypeOK
  BY DEF BeginFundamentals, At, IInv
<1>2. K \in Financials /\ J \in Job /\ Fits(J, K, up) /\ K.at \in Middle
  BY <1>1, AtFacts, PlaceFacts DEF Middle
<1>3. n \in Nat /\ K.members \in Universes /\ K.market \in Markets /\ K.ciks \in BOOLEAN
  BY <1>2, MembersFacts DEF Financials
<1>4. \/ b # None /\ \/ Report(j, "fundamentals", cUS, FALSE, items)
                     \/ Report(j, "fundamentals", cKR, FALSE, items)
      \/ Report(j, "fundamentals", c0, FALSE, request)
      \/ Report(j, "fundamentals", c0, FALSE, dart)
  <2>1. K.market = "US" \/ K.market = "KR"
    BY <1>3 DEF Markets
  <2> QED BY <2>1 DEF BeginFundamentals
<1>5. c0 \in Told
  <2> HIDE DEF n
  <2>1. n \in Int /\ 0 \in Int
    BY <1>3, SMT
  <2> QED BY <2>1, CountFacts
<1>6. b # None => /\ b.items \in SUBSET Tickers /\ found \in Nat /\ asked \in Nat
  <2>1. b # None => b \in Batch
    BY <1>1, <1>3 DEF TypeOK
  <2> QED BY <2>1, SizeFacts DEF Batch
<1>7. b # None => cUS \in Told /\ cKR \in Told
  <2> HIDE DEF n, found, asked, b
  <2>1. b # None => most \in Int /\ found \in Int /\ asked \in Int
    BY <1>3, <1>6, SMT DEF Largest
  <2> HIDE DEF most
  <2>2. b # None => Least(found, most) \in Int /\ 0 \in Int
    BY <2>1, SMT DEF Least
  <2> QED BY <2>1, <2>2, CountFacts
<1>8. b # None => items \in Coroutine /\ items.at = "items" /\ items.hit
  <2>1. b # None => items \in Gated /\ items.at = "items" /\ items.hit
    BY <1>3, <1>6 DEF WithItems, Gated
  <2> QED BY <2>1, PlacesAreCoroutines
<1>9. request \in Coroutine /\ request.at = "requesting" /\ dart \in Coroutine /\ dart.at = "dart"
  <2>1. request \in Requesting /\ request.at = "requesting" /\ dart \in Searching /\ dart.at = "dart"
    BY <1>3 DEF Requesting, Searching, Archives
  <2> QED BY <2>1, PlacesAreCoroutines
<1>10. "fundamentals" \in StageSet /\ K.at \notin {"none", "created"}
  BY <1>1, StageFacts
<1>11. items.at = "items" /\ {"items", "requesting", "dart"} \subseteq Middle
       /\ request.at # "items" /\ dart.at # "items"
  BY <1>9 DEF Middle, WithItems
<1> HIDE DEF cUS, cKR, c0, items, request, dart, b, n, J, K
<1>12. CASE b # None /\ Report(j, "fundamentals", cUS, FALSE, items)
  <2>1. Valid(cUS) => Fits(Advanced(J, "fundamentals", cUS, FALSE), items, up)
    BY <1>2, <1>7, <1>8, <1>11, <1>12, ReportsOn
  <2> QED BY <1>1, <1>10, <1>12, <2>1, ReportKeeps DEF J, K
<1>13. CASE b # None /\ Report(j, "fundamentals", cKR, FALSE, items)
  <2>1. Valid(cKR) => Fits(Advanced(J, "fundamentals", cKR, FALSE), items, up)
    BY <1>2, <1>7, <1>8, <1>11, <1>13, ReportsOn
  <2> QED BY <1>1, <1>10, <1>13, <2>1, ReportKeeps DEF J, K
<1>14. CASE Report(j, "fundamentals", c0, FALSE, request)
  <2>1. Valid(c0) => Fits(Advanced(J, "fundamentals", c0, FALSE), request, up)
    BY <1>2, <1>5, <1>9, <1>11, ReportsOn
  <2> QED BY <1>1, <1>10, <1>14, <2>1, ReportKeeps DEF J, K
<1>15. CASE Report(j, "fundamentals", c0, FALSE, dart)
  <2>1. Valid(c0) => Fits(Advanced(J, "fundamentals", c0, FALSE), dart, up)
    BY <1>2, <1>5, <1>9, <1>11, ReportsOn
  <2> QED BY <1>1, <1>10, <1>15, <2>1, ReportKeeps DEF J, K
<1> QED BY <1>4, <1>12, <1>13, <1>14, <1>15
----------------------------------------------------------------------------
(* The archives of the SEC *)

\* A scan moves on among the middle places, without a report or with one.
LEMMA MoveKeeps ==
    ASSUME IInv, NEW j \in Scans, scan[j].at \in Middle, up' = up, job' = job,
           NEW next \in Coroutine, next.at \in Middle, next.at # "items",
           scan' = [scan EXCEPT ![j] = next]
    PROVE  AllFit
<1>1. TypeOK /\ Fits(job[j], scan[j], up)
  BY DEF IInv
<1>2. Fits(job[j], next, up)
  BY <1>1, MovesOn
<1>3. Becomes(j, job[j], next)
  BY <1>1, ScanBecomes
<1> QED BY <1>2, <1>3, OthersFit

LEMMA ReportOnKeeps ==
    ASSUME IInv, NEW j \in Scans, scan[j].at \in Middle, up' = up,
           NEW c \in Told, NEW completed \in BOOLEAN,
           NEW next \in Coroutine, next.at \in Middle,
           next.at = "items" => next.hit \/ next.items \subseteq next.members,
           Report(j, "fundamentals", c, completed, next)
    PROVE  AllFit
<1>1. Fits(job[j], scan[j], up) /\ scan[j].at \notin {"none", "created"}
  BY DEF IInv, Middle
<1>2. Valid(c) => Fits(Advanced(job[j], "fundamentals", c, completed), next, up)
  BY <1>1, ReportsOn
<1>3. "fundamentals" \in StageSet
  BY StageFacts
<1> QED BY <1>1, <1>2, <1>3, ReportKeeps

LEMMA ArchiveFacts ==
    /\ {"requesting", "streaming", "industries", "parsing", "dart", "items"} \subseteq Middle
    /\ "facts" \in Archives /\ "submissions" \in Archives /\ None \notin Scans
BY DiscoveryAssumption DEF Middle, Archives

LEMMA OpenFits ==
    ASSUME IInv, NEW j \in Scans, Open(j)
    PROVE  /\ AllFit
           /\ temp' \in [Archives -> Scans \cup {None}]
           /\ content' \in [Archives -> [Scans -> SUBSET (1 .. Chunks)]]
<1> DEFINE K == scan[j]
           f == K.file
           inode == IF temp[f] = None THEN j ELSE temp[f]
           next == [at |-> "streaming", file |-> f, inode |-> inode, chunk |-> 1,
                    members |-> K.members, ciks |-> K.ciks]
<1>1. TypeOK /\ K.at = "requesting" /\ up' = up /\ job' = job
  BY DEF IInv, Open, At
<1>2. K \in Requesting /\ f \in Archives
  BY <1>1, AtFacts, PlaceFacts DEF Requesting
<1>3. temp[f] \in Scans \cup {None} /\ inode \in Scans
  BY <1>1, <1>2 DEF TypeOK
<1>4. /\ temp' = [temp EXCEPT ![f] = inode]
      /\ content' = [content EXCEPT ![f] = [content[f] EXCEPT ![inode] = {}]]
      /\ scan' = [scan EXCEPT ![j] = next]
  BY DEF Open
<1>5. next \in Coroutine /\ next.at = "streaming"
  <2>1. 1 \in 1 .. Chunks + 1
    BY DiscoveryAssumption, SMT
  <2> HIDE DEF inode
  <2>2. next \in Streaming /\ next.at = "streaming"
    BY <1>2, <1>3, <2>1 DEF Requesting, Streaming
  <2> QED BY <2>2, PlacesAreCoroutines
<1>6. temp' \in [Archives -> Scans \cup {None}]
  <2> HIDE DEF inode, f
  <2> QED BY <1>1, <1>2, <1>3, <1>4 DEF TypeOK
<1>7. content' \in [Archives -> [Scans -> SUBSET (1 .. Chunks)]]
  <2> HIDE DEF inode, f
  <2>1. content[f] \in [Scans -> SUBSET (1 .. Chunks)]
    BY <1>1, <1>2 DEF TypeOK
  <2>2. [content[f] EXCEPT ![inode] = {}] \in [Scans -> SUBSET (1 .. Chunks)]
    BY <2>1, <1>3
  <2> QED BY <1>1, <1>2, <1>4, <2>2 DEF TypeOK
<1> HIDE DEF next
<1>8. AllFit
  BY <1>1, <1>4, <1>5, ArchiveFacts, MoveKeeps
<1> QED BY <1>6, <1>7, <1>8

LEMMA WriteChunkFits ==
    ASSUME IInv, NEW j \in Scans, WriteChunk(j)
    PROVE  /\ AllFit
           /\ content' \in [Archives -> [Scans -> SUBSET (1 .. Chunks)]]
<1> DEFINE K == scan[j]
           next == [K EXCEPT !.chunk = K.chunk + 1]
<1>1. TypeOK /\ K.at = "streaming" /\ up' = up /\ job' = job /\ K.chunk <= Chunks
  BY DEF IInv, WriteChunk, At
<1>2. K \in Streaming /\ K.file \in Archives /\ K.inode \in Scans /\ K.chunk \in 1 .. Chunks + 1
  BY <1>1, AtFacts, PlaceFacts DEF Streaming
<1>3. K.chunk \in 1 .. Chunks /\ K.chunk + 1 \in 1 .. Chunks + 1
  BY <1>1, <1>2, DiscoveryAssumption, SMT
<1>4. /\ content' = [content EXCEPT ![K.file] =
             [content[K.file] EXCEPT ![K.inode] = content[K.file][K.inode] \cup {K.chunk}]]
      /\ scan' = [scan EXCEPT ![j] = next]
  BY DEF WriteChunk
<1>5. next \in Coroutine /\ next.at = "streaming"
  <2>1. next \in Streaming /\ next.at = "streaming"
    BY <1>2, <1>3 DEF Streaming
  <2> QED BY <2>1, PlacesAreCoroutines
<1>6. content' \in [Archives -> [Scans -> SUBSET (1 .. Chunks)]]
  <2> HIDE DEF K
  <2>1. content[K.file] \in [Scans -> SUBSET (1 .. Chunks)]
        /\ content[K.file][K.inode] \cup {K.chunk} \in SUBSET (1 .. Chunks)
    BY <1>1, <1>2, <1>3 DEF TypeOK
  <2>2. [content[K.file] EXCEPT ![K.inode] = content[K.file][K.inode] \cup {K.chunk}]
          \in [Scans -> SUBSET (1 .. Chunks)]
    BY <2>1, <1>2
  <2> QED BY <1>1, <1>2, <1>4, <2>2 DEF TypeOK
<1> HIDE DEF next
<1>7. AllFit
  BY <1>1, <1>4, <1>5, ArchiveFacts, MoveKeeps
<1> QED BY <1>6, <1>7

LEMMA PublishFits ==
    ASSUME IInv, NEW j \in Scans, Publish(j)
    PROVE  /\ AllFit
           /\ temp' \in [Archives -> Scans \cup {None}]
           /\ archive' \in [Archives -> Scans \cup {None}]
<1> DEFINE K == scan[j]
           next == NextFile(K)
<1>1. TypeOK /\ K.at = "streaming" /\ up' = up /\ job' = job
  BY DEF IInv, Publish, Streamed, At
<1>2. K \in Streaming /\ K.file \in Archives
  BY <1>1, AtFacts, PlaceFacts DEF Streaming
<1>3. /\ archive' = [archive EXCEPT ![K.file] = temp[K.file]]
      /\ temp' = [temp EXCEPT ![K.file] = None]
      /\ scan' = [scan EXCEPT ![j] = next]
  BY DEF Publish
<1>4. next \in Coroutine /\ next.at \in {"requesting", "industries"}
  <2>1. \/ next \in Requesting /\ next.at = "requesting"
        \/ next \in Reading /\ next.at = "industries"
    BY <1>2, ArchiveFacts DEF Streaming, Requesting, Reading, NextFile
  <2> QED BY <2>1, PlacesAreCoroutines
<1>5. /\ temp' \in [Archives -> Scans \cup {None}]
      /\ archive' \in [Archives -> Scans \cup {None}]
  <2> HIDE DEF K
  <2> QED BY <1>1, <1>2, <1>3 DEF TypeOK
<1> HIDE DEF next
<1>6. AllFit
  BY <1>1, <1>3, <1>4, ArchiveFacts, MoveKeeps
<1> QED BY <1>5, <1>6

LEMMA DownloadFailsFits ==
    ASSUME IInv, NEW j \in Scans, DownloadFails(j)
    PROVE  AllFit /\ temp' \in [Archives -> Scans \cup {None}]
<1> DEFINE K == scan[j]
           next == [at |-> "parsing", members |-> K.members, ciks |-> K.ciks]
<1>1. TypeOK /\ K.at \in {"requesting", "streaming"} /\ up' = up
  BY DEF IInv, DownloadFails, GiveUpDownload, At
<1>2. K \in Requesting \cup Streaming /\ K.file \in Archives
      /\ K.members \in Universes /\ K.ciks \in BOOLEAN
  BY <1>1, AtFacts, PlaceFacts DEF Streaming, Requesting
<1>3. /\ temp' = [temp EXCEPT ![K.file] = None]
      /\ Fail(j) \/ (scan' = [scan EXCEPT ![j] = next] /\ job' = job)
  BY DEF DownloadFails, GiveUpDownload
<1>4. next \in Coroutine /\ next.at = "parsing"
  <2>1. next \in Reading /\ next.at = "parsing"
    BY <1>2 DEF Reading
  <2> QED BY <2>1, PlacesAreCoroutines
<1>5. temp' \in [Archives -> Scans \cup {None}]
  BY <1>1, <1>2, <1>3 DEF TypeOK
<1> HIDE DEF next
<1>6. CASE Fail(j)
  <2>1. AllFit
    BY <1>1, <1>6, FailKeeps
  <2> QED BY <1>5, <2>1
<1>7. CASE scan' = [scan EXCEPT ![j] = next] /\ job' = job
  <2>1. AllFit
    BY <1>1, <1>4, <1>7, ArchiveFacts, MoveKeeps
  <2> QED BY <1>5, <2>1
<1> QED BY <1>3, <1>6, <1>7

\* The failures that touch no file.
LEMMA FailuresFit ==
    ASSUME IInv, NEW j \in Scans,
           \/ ListingFails(j) \/ RemovalRefused(j) \/ BatchCacheFails(j)
           \/ DartFails(j) \/ NothingLeft(j)
    PROVE  AllFit
<1>1. Fail(j) /\ up' = up
  BY DEF ListingFails, RemovalRefused, BatchCacheFails, DartFails, NothingLeft
<1>2. scan[j].at \in {"listing", "requesting", "streaming", "parsing", "dart", "prices"}
  BY DEF ListingFails, RemovalRefused, BatchCacheFails, DartFails, NothingLeft, Streamed, At
<1> QED BY <1>1, <1>2, FailKeeps

LEMMA ParseIndustriesFits ==
    ASSUME IInv, NEW j \in Scans, ParseIndustries(j)
    PROVE  AllFit
<1> DEFINE K == scan[j]
           next == [K EXCEPT !.at = "parsing"]
<1>1. TypeOK /\ K.at = "industries" /\ up' = up
  BY DEF IInv, ParseIndustries, At
<1>2. K \in Reading
  BY <1>1, AtFacts, PlaceFacts
<1>3. next \in Coroutine /\ next.at = "parsing"
  <2>1. next \in Reading /\ next.at = "parsing"
    BY <1>2 DEF Reading
  <2> QED BY <2>1, PlacesAreCoroutines
<1>4. Fail(j) \/ (scan' = [scan EXCEPT ![j] = next] /\ job' = job)
  BY DEF ParseIndustries
<1> HIDE DEF next
<1>5. CASE Fail(j)
  BY <1>1, <1>5, FailKeeps
<1>6. CASE scan' = [scan EXCEPT ![j] = next] /\ job' = job
  BY <1>1, <1>3, <1>6, ArchiveFacts, MoveKeeps
<1> QED BY <1>4, <1>5, <1>6

\* The last ticker of a company is one of its tickers, and the same for all of them.
LEMMA HolderFacts ==
    ASSUME NEW members \in SUBSET Tickers
    PROVE  /\ \A t \in members : Holder(t, members) \in members /\ CikOf[Holder(t, members)] = CikOf[t]
           /\ \A t, u \in members : CikOf[t] = CikOf[u] => Holder(t, members) = Holder(u, members)
<1>1. ASSUME NEW t \in members
      PROVE  Holder(t, members) \in members /\ CikOf[Holder(t, members)] = CikOf[t]
  <2>1. Classes(t, members) \in (SUBSET Tickers) \ {{}}
    BY <1>1 DEF Classes
  <2>2. Holder(t, members) \in Classes(t, members)
    BY <2>1, DiscoveryAssumption DEF Holder
  <2> QED BY <2>2 DEF Classes
<1>2. ASSUME NEW t \in members, NEW u \in members, CikOf[t] = CikOf[u]
      PROVE  Holder(t, members) = Holder(u, members)
  BY <1>2 DEF Holder, Classes
<1> QED BY <1>1, <1>2

\* What is parsed of the members of a listing is whole.
LEMMA FilersAreWhole ==
    ASSUME NEW members \in SUBSET Tickers, NEW mapped, NEW items,
           mapped = {Holder(t, members) : t \in members},
           items = {t \in mapped : CikOf[t] \in Filers}
    PROVE  Whole([items |-> items, requested |-> members])
<1> DEFINE b == [items |-> items, requested |-> members]
<1>1. ASSUME NEW t \in items
      PROVE  t \in members /\ CikOf[t] \in Filers /\ t = Holder(t, members)
  <2>1. PICK u \in members : t = Holder(u, members)
    OBVIOUS
  <2>2. t \in members /\ CikOf[t] = CikOf[u]
    BY <2>1, HolderFacts
  <2>3. t = Holder(t, members)
    BY <2>1, <2>2, HolderFacts
  <2> QED BY <2>2, <2>3
<1>2. ASSUME NEW t \in members, CikOf[t] \in Filers
      PROVE  \E u \in items : CikOf[u] = CikOf[t]
  BY <1>2, HolderFacts
<1>3. Numbers(items) = Numbers(members) \cap Filers
  BY <1>1, <1>2 DEF Numbers
<1> QED BY <1>1, <1>3 DEF Whole

\* The cache takes the reports of all the companies that file, or the scan fails and it stays.
LEMMA ParseFactsFits ==
    ASSUME IInv, NEW j \in Scans, ParseFacts(j)
    PROVE  /\ AllFit
           /\ batch' \in [Markets -> Batch \cup {None}]
           /\ CachedBatchIsWhole'
<1> DEFINE K == scan[j]
           items == {t \in Mapped(K) : CikOf[t] \in Filers}
           n == Size(K.members)
           c == Count(n, Size(items), 0, 0, 0)
           next == WithItems(K, items, FALSE)
           b == [items |-> items, requested |-> K.members]
<1>1. TypeOK /\ CachedBatchIsWhole /\ K.at = "parsing" /\ up' = up
  BY DEF IInv, ParseFacts, At
<1>2. K \in Reading /\ K.members \in Universes /\ K.members \in SUBSET Tickers
  BY <1>1, AtFacts, PlaceFacts, MembersFacts DEF Reading
<1>3. \/ /\ Mapped(K) # {} /\ batch' = [batch EXCEPT !["US"] = b]
         /\ Report(j, "fundamentals", c, FALSE, next)
      \/ Fail(j) /\ batch' = batch
  BY DEF ParseFacts
<1>4. /\ Mapped(K) \subseteq K.members
      /\ Mapped(K) # {} => Mapped(K) = {Holder(t, K.members) : t \in K.members}
  BY <1>2, HolderFacts DEF Mapped
<1>5. items \in SUBSET Tickers /\ items \subseteq K.members
  BY <1>2, <1>4
<1>6. CASE Fail(j) /\ batch' = batch
  <2>1. AllFit
    BY <1>1, <1>6, FailKeeps
  <2> QED BY <1>1, <1>6, <2>1 DEF TypeOK, CachedBatchIsWhole
<1>7. CASE /\ Mapped(K) # {} /\ batch' = [batch EXCEPT !["US"] = b]
           /\ Report(j, "fundamentals", c, FALSE, next)
  <2>1. Whole(b)
    BY <1>2, <1>4, <1>7, FilersAreWhole
  <2>2. b \in Batch
    BY <1>2, <1>5 DEF Batch
  <2>3. c \in Told
    <3>1. n \in Nat /\ Size(items) \in Nat
      BY <1>2, <1>5, MembersFacts, SizeFacts
    <3> HIDE DEF n, items
    <3>2. n \in Int /\ Size(items) \in Int /\ 0 \in Int
      BY <3>1, SMT
    <3> QED BY <3>2, CountFacts
  <2>4. next \in Coroutine /\ next.at = "items" /\ next.items \subseteq next.members
    <3>1. next \in Gated /\ next.at = "items" /\ next.items = items /\ next.members = K.members
      BY <1>2, <1>5 DEF WithItems, Gated
    <3> QED BY <1>5, <3>1, PlacesAreCoroutines
  <2> HIDE DEF c, next, b
  <2>5. AllFit
    BY <1>1, <1>7, <2>3, <2>4, ArchiveFacts, ReportOnKeeps
  <2>6. "US" \in Markets
    BY DEF Markets
  <2>7. batch' \in [Markets -> Batch \cup {None}] /\ batch'["US"] = b
    BY <1>1, <1>7, <2>2, <2>6 DEF TypeOK
  <2> QED BY <2>1, <2>5, <2>7 DEF CachedBatchIsWhole
<1> QED BY <1>3, <1>6, <1>7

----------------------------------------------------------------------------
(* The bundles of DART *)

LEMMA WorkedFacts ==
    ASSUME TypeOK, NEW j \in Scans, NEW more \in Int, NEW units \in Int
    PROVE  Worked(j, more, units) \in Told
<1> DEFINE c == job[j].stage["fundamentals"]
<1>1. c \in Counts
  BY StageFacts, JobFacts DEF TypeOK
<1>2. c.total \in Nat /\ c.processed \in Nat
  BY <1>1 DEF Counts
<1> HIDE DEF c
<1>3. c.total + more \in Int /\ c.processed + units \in Int /\ 0 \in Int
  BY <1>2, SMT
<1>4. Count(c.total + more, c.processed + units, 0, 0, 0) \in Told
  BY <1>3, CountFacts
<1> QED BY <1>4 DEF Worked, c

\* The steps that a scan of DART may be at.
MaySearch(step, years, errors) == step \in {"main", "list"} /\ years = 0 /\ errors = FALSE
MayFetch(step, years, errors)  == step \in {"BS", "PL", "CF", "year", "parse"}
                                  /\ years \in 1 .. MaxYears /\ errors \in BOOLEAN

LEMMA StepFacts ==
    ASSUME NEW K \in Searching \cup Bundles, NEW step, NEW years, NEW errors,
           MaySearch(step, years, errors) \/ MayFetch(step, years, errors)
    PROVE  Step(K, step, years, errors) \in Coroutine /\ Step(K, step, years, errors).at = "dart"
<1> DEFINE next == [at |-> "dart", step |-> step, years |-> years, errors |-> errors,
                    members |-> K.members]
<1>1. Step(K, step, years, errors) = next /\ K.members \in Universes
  <2>1. /\ K = [at |-> "dart", step |-> K.step, years |-> K.years, errors |-> K.errors,
                members |-> K.members]
        /\ K.members \in Universes
    BY DEF Searching, Bundles
  <2> DEFINE stepped == [at |-> "dart", step |-> step, years |-> K.years, errors |-> K.errors,
                         members |-> K.members]
             dated == [stepped EXCEPT !.years = years]
  <2>2. [K EXCEPT !.step = step] = stepped
    BY <2>1
  <2>3. dated = [at |-> "dart", step |-> step, years |-> years, errors |-> K.errors,
                 members |-> K.members]
    OBVIOUS
  <2>4. Step(K, step, years, errors) = [dated EXCEPT !.errors = errors]
    BY <2>2 DEF Step
  <2> HIDE DEF stepped, dated
  <2> QED BY <2>1, <2>3, <2>4
<1>2. next \in Searching \/ next \in Bundles
  BY <1>1 DEF MaySearch, MayFetch, Searching, Bundles
<1>3. next.at = "dart"
  OBVIOUS
<1> HIDE DEF next
<1> QED BY <1>1, <1>2, <1>3, PlacesAreCoroutines

\* A unit of work is reported and the scan goes on to its next step.
LEMMA WorkKeeps ==
    ASSUME IInv, NEW j \in Scans, scan[j].at = "dart", up' = up,
           NEW more \in Int, NEW units \in Int, NEW step, NEW years, NEW errors,
           MaySearch(step, years, errors) \/ MayFetch(step, years, errors),
           Report(j, "fundamentals", Worked(j, more, units), FALSE,
                  Step(scan[j], step, years, errors))
    PROVE  AllFit
<1>1. TypeOK /\ scan[j] \in Searching \cup Bundles
  BY AtFacts, PlaceFacts DEF IInv
<1> DEFINE next == Step(scan[j], step, years, errors)
           c == Worked(j, more, units)
<1>2. next \in Coroutine /\ next.at = "dart"
  BY <1>1, StepFacts
<1>3. c \in Told
  BY <1>1, WorkedFacts
<1>4. Report(j, "fundamentals", c, FALSE, next)
  OBVIOUS
<1> HIDE DEF next, c
<1> QED BY <1>2, <1>3, <1>4, ArchiveFacts, ReportOnKeeps

LEMMA DartFits ==
    ASSUME IInv, NEW j \in Scans,
           DartMain(j) \/ DartList(j) \/ DartStatement(j) \/ DartYear(j)
    PROVE  AllFit
<1> DEFINE K == scan[j]
<1>1. TypeOK /\ K.at = "dart" /\ up' = up
  BY DEF IInv, DartMain, DartList, DartStatement, DartYear, At
<1>2. K \in Searching \cup Bundles
  BY <1>1, AtFacts, PlaceFacts
<1>3. 0 \in Int /\ 1 \in Int /\ 3 \in Int /\ 5 \in Int
  BY SMT
<1>4. CASE DartMain(j)
  <2>1. Report(j, "fundamentals", Worked(j, 5, 1), FALSE, Step(K, "list", 0, FALSE))
    BY <1>4 DEF DartMain
  <2>2. MaySearch("list", 0, FALSE)
    BY DEF MaySearch
  <2> QED BY <1>1, <1>3, <2>1, <2>2, WorkKeeps
<1>5. CASE DartList(j)
  <2>1. PICK n \in 1 .. MaxYears :
            Report(j, "fundamentals", Worked(j, 0, 1), FALSE, Step(K, "BS", n, FALSE))
    BY <1>5 DEF DartList
  <2>2. MayFetch("BS", n, FALSE)
    BY DEF MayFetch
  <2> QED BY <1>1, <1>3, <2>1, <2>2, WorkKeeps
<1>6. CASE DartStatement(j)
  <2>1. PICK ok \in BOOLEAN :
            Report(j, "fundamentals", Worked(j, 0, 1), FALSE,
                   Step(K, After(K.step), K.years, K.errors \/ ~ok))
    BY <1>6 DEF DartStatement
  <2>2. K.step \in {"BS", "PL", "CF"} /\ K \in Bundles
    BY <1>2, <1>6 DEF DartStatement, Searching
  <2>3. After(K.step) \in {"PL", "CF", "year"}
    BY <2>2 DEF After
  <2>4. (K.errors \/ ~ok) \in BOOLEAN
    OBVIOUS
  <2>5. MayFetch(After(K.step), K.years, K.errors \/ ~ok)
    BY <2>2, <2>3, <2>4 DEF MayFetch, Bundles
  <2> QED BY <1>1, <1>3, <2>1, <2>5, WorkKeeps
<1>7. CASE DartYear(j)
  <2> DEFINE next == [K EXCEPT !.step = "parse"]
  <2>1. K.step = "year" /\ K \in Bundles
    BY <1>2, <1>7 DEF DartYear, Searching
  <2>2. K.years \in 1 .. MaxYears /\ K.errors \in BOOLEAN
    BY <2>1 DEF Bundles
  <2>3. /\ K.years > 1 \/ K.years = 1
        /\ K.years > 1 => K.years - 1 \in 1 .. MaxYears
    BY <2>2, DiscoveryAssumption, SMT
  <2>4. CASE ~K.errors
    <3>1. scan' = [scan EXCEPT ![j] = next] /\ job' = job
      BY <1>7, <2>2, <2>4 DEF DartYear
    <3>2. next \in Bundles /\ next.at = "dart"
      BY <2>1 DEF Bundles
    <3> HIDE DEF next
    <3> QED BY <1>1, <3>1, <3>2, ArchiveFacts, PlacesAreCoroutines, MoveKeeps
  <2>5. CASE K.errors /\ K.years > 1
    <3> DEFINE report == Report(j, "fundamentals", Worked(j, 3, 0), FALSE,
                                Step(K, "BS", K.years - 1, FALSE))
               last == K.years = 1
               more == K.years > 1
    <3>1. report
      <4>1. (CASE ~K.errors -> scan' = [scan EXCEPT ![j].step = "parse"] /\ UNCHANGED job
               [] K.errors /\ more -> report
               [] K.errors /\ last -> Fail(j))
        BY <1>7 DEF DartYear
      <4>2. K.errors /\ more /\ ~last
        BY <2>2, <2>5, SMT
      <4> HIDE DEF report, last, more
      <4> QED BY <4>1, <4>2
    <3>2. MayFetch("BS", K.years - 1, FALSE)
      BY <2>3, <2>5 DEF MayFetch
    <3> QED BY <1>1, <1>3, <3>1, <3>2, WorkKeeps
  <2>6. CASE K.errors /\ K.years = 1
    <3>1. Fail(j)
      BY <1>7, <2>6, SMT DEF DartYear
    <3> QED BY <1>1, <3>1, FailKeeps
  <2> QED BY <2>2, <2>3, <2>4, <2>5, <2>6
<1> QED BY <1>4, <1>5, <1>6, <1>7

LEMMA DartParseFits ==
    ASSUME IInv, NEW j \in Scans, DartParse(j)
    PROVE  /\ AllFit
           /\ batch' \in [Markets -> Batch \cup {None}]
           /\ CachedBatchIsWhole'
<1> DEFINE K == scan[j]
<1>1. TypeOK /\ CachedBatchIsWhole /\ K.at = "dart" /\ up' = up
  BY DEF IInv, DartParse, At
<1>2. K.members \in Universes /\ K.members \in SUBSET Tickers
      /\ Size(K.members) \in Nat
  BY <1>1, AtFacts, PlaceFacts, MembersFacts DEF Searching, Bundles
<1>3. PICK items \in SUBSET K.members :
          /\ Report(j, "fundamentals", Worked(j, 0, Size(K.members)), FALSE,
                    WithItems(K, items, FALSE))
          /\ batch' = [batch EXCEPT !["KR"] = [items |-> items, requested |-> K.members]]
  BY DEF DartParse
<1> DEFINE next == WithItems(K, items, FALSE)
           c == Worked(j, 0, Size(K.members))
           b == [items |-> items, requested |-> K.members]
<1>4. next \in Coroutine /\ next.at = "items" /\ next.items \subseteq next.members
  <2>1. next \in Gated /\ next.at = "items" /\ next.items = items /\ next.members = K.members
    BY <1>2 DEF WithItems, Gated
  <2> QED BY <2>1, PlacesAreCoroutines
<1>5. c \in Told
  <2>1. Size(K.members) \in Int /\ 0 \in Int
    BY <1>2, SMT
  <2> QED BY <1>1, <2>1, WorkedFacts
<1>6. b \in Batch
  BY <1>2 DEF Batch
<1>7. /\ Report(j, "fundamentals", c, FALSE, next)
      /\ batch' = [batch EXCEPT !["KR"] = b]
  BY <1>3
<1> HIDE DEF next, c, b
<1>8. AllFit
  BY <1>1, <1>4, <1>5, <1>7, ArchiveFacts, ReportOnKeeps
<1>9. "US" \in Markets /\ "KR" \in Markets /\ "US" # "KR"
  BY DEF Markets
<1>10. batch' \in [Markets -> Batch \cup {None}] /\ batch'["US"] = batch["US"]
  BY <1>1, <1>6, <1>7, <1>9 DEF TypeOK
<1> QED BY <1>1, <1>8, <1>10 DEF CachedBatchIsWhole
----------------------------------------------------------------------------
(* The funnel *)

\* What is left of J and its scan when a report on the gate makes it fit to be priced.
LEMMA PricedFits ==
    ASSUME NEW J, NEW K, NEW serving, Fits(J, K, serving), K.at = "items",
           NEW c \in Told, Valid(c),
           NEW next \in Priced, next.at = "prices", next.items = K.items,
           next.inputs \subseteq K.items, next.pending \subseteq next.inputs, next.good = {},
           Size(K.items) <= Size(next.members), Size(next.inputs) <= c.passed
    PROVE  Fits(Advanced(J, "fundamentals", c, TRUE), next, serving)
<1> DEFINE A == Advanced(J, "fundamentals", c, TRUE)
<1>1. J \in Job /\ J.status = "running" /\ J.result = None
  BY DEF Fits, Carries
<1>2. "fundamentals" \in StageSet /\ \A t \in {"universe", "liquidity", "sector", "ranking"} :
          t \in StageSet /\ t # "fundamentals"
  BY StageFacts
<1>3. /\ A \in Job /\ A.status = "running" /\ A.result = J.result
      /\ A.stage["fundamentals"] = Taken(c, TRUE)
      /\ \A t \in StageSet : t # "fundamentals" => A.stage[t] = J.stage[t]
  BY <1>1, <1>2, AdvancedFacts
<1>4. Taken(c, TRUE).done /\ Taken(c, TRUE).passed = c.passed
  BY TakenFacts
<1> HIDE DEF A
<1>5. /\ A.stage["universe"] = J.stage["universe"] /\ A.stage["liquidity"] = J.stage["liquidity"]
      /\ A.stage["sector"] = J.stage["sector"] /\ A.stage["ranking"] = J.stage["ranking"]
  BY <1>2, <1>3
<1>6. J.stage["universe"].done /\ ~J.stage["liquidity"].begun /\ NoneRanked(J.stage)
  BY DEF Fits, Reached, Middle
<1>7. Chained(A.stage)
  BY <1>5, <1>6 DEF Chained, NoneRanked
<1>8. Carries(A, next, serving)
  BY <1>1, <1>3 DEF Carries
<1>9. Reached(A, next)
  BY <1>3, <1>4, <1>5, <1>6 DEF Reached, Middle, NoneRanked
<1>10. next \in Coroutine
  BY PlacesAreCoroutines
<1>11. Fits(A, next, serving)
  BY <1>1, <1>3, <1>7, <1>8, <1>9, <1>10 DEF Fits
<1> QED BY <1>11 DEF A

\* The candidates taken are so many of those there are.
LEMMA ChosenFacts ==
    ASSUME NEW S \in SUBSET Tickers, NEW k \in Nat, NEW T \in kSubset(Least(k, Size(S)), S)
    PROVE  T \in SUBSET S /\ Size(T) \in Nat /\ Size(T) <= Size(S)
<1>1. T \in SUBSET S
  BY DEF kSubset
<1> QED BY <1>1, SizeFacts

LEMMA GateFits ==
    ASSUME IInv, NEW j \in Scans, Gate(j)
    PROVE  AllFit
<1> DEFINE K == scan[j]
           J == job[j]
           n == Size(K.members)
<1>1. TypeOK /\ K.at = "items" /\ up' = up /\ K.at \in Middle
  BY DEF IInv, Gate, At, Middle
<1>2. K \in Gated /\ J \in Job /\ Fits(J, K, up)
  BY <1>1, AtFacts, PlaceFacts
<1>3. /\ K.members \in Universes /\ K.items \in SUBSET Tickers /\ K.members \in SUBSET Tickers
      /\ n \in Nat /\ Size(K.items) \in Nat
  BY <1>2, MembersFacts, SizeFacts DEF Gated
<1>4. PICK passed \in SUBSET K.items : \E unclear \in SUBSET (K.items \ passed) :
          LET c == Count(n, n, Size(passed), n - Size(passed),
                         IF K.hit THEN Size(K.items) ELSE 0)
          IN  \/ /\ Valid(c) /\ passed = {}
                 /\ job' = [Recorded(j, "fundamentals", c, TRUE) EXCEPT ![j].status = "failed"]
                 /\ scan' = [scan EXCEPT ![j] = NoScan]
              \/ \E inputs \in kSubset(Least(PriceLimit, Size(passed)), passed) :
                    Report(j, "fundamentals", c, TRUE,
                          [at |-> "prices", members |-> K.members, items |-> K.items,
                           short |-> Size(unclear) + n - Size(K.items),
                           inputs |-> inputs, pending |-> inputs, good |-> {},
                           bad |-> 0, dry |-> 0])
  BY DEF Gate
<1> DEFINE c == Count(n, n, Size(passed), n - Size(passed), IF K.hit THEN Size(K.items) ELSE 0)
           next(unclear, inputs) ==
               [at |-> "prices", members |-> K.members, items |-> K.items,
                short |-> Size(unclear) + n - Size(K.items),
                inputs |-> inputs, pending |-> inputs, good |-> {}, bad |-> 0, dry |-> 0]
<1>5. PICK unclear \in SUBSET (K.items \ passed) :
          \/ /\ Valid(c) /\ passed = {}
             /\ job' = [Recorded(j, "fundamentals", c, TRUE) EXCEPT ![j].status = "failed"]
             /\ scan' = [scan EXCEPT ![j] = NoScan]
          \/ \E inputs \in kSubset(Least(PriceLimit, Size(passed)), passed) :
                Report(j, "fundamentals", c, TRUE, next(unclear, inputs))
  BY <1>4
<1>6. passed \in SUBSET Tickers /\ Size(passed) \in Nat /\ unclear \in SUBSET Tickers
      /\ Size(unclear) \in Nat
  BY <1>3, SizeFacts
<1>7. c \in Told /\ c.passed = Size(passed) /\ c.processed = n
      /\ (K.hit => c.cached = Size(K.items))
  <2> HIDE DEF n, K
  <2>1. n \in Int /\ Size(passed) \in Int /\ n - Size(passed) \in Int /\ Size(K.items) \in Int
        /\ 0 \in Int
    BY <1>3, <1>6, SMT
  <2>2. (IF K.hit THEN Size(K.items) ELSE 0) \in Int
    BY <2>1
  <2> QED BY <2>1, <2>2, CountFacts
<1>8. Valid(c) => Size(K.items) <= n
  <2>1. CASE K.hit
    BY <1>7, <2>1, ValidFacts
  <2>2. CASE ~K.hit
    <3>1. K.items \subseteq K.members
      BY <1>1, <1>2, <2>2 DEF Fits, Reached
    <3> QED BY <1>3, <3>1, SizeFacts
  <2> QED BY <2>1, <2>2
<1> HIDE DEF c
<1>9. CASE /\ Valid(c)
           /\ job' = [Recorded(j, "fundamentals", c, TRUE) EXCEPT ![j].status = "failed"]
           /\ scan' = [scan EXCEPT ![j] = NoScan]
  <2> DEFINE A == Advanced(J, "fundamentals", c, TRUE)
  <2>1. "fundamentals" \in StageSet /\ K.at \notin {"none", "created"}
    BY <1>1, StageFacts
  <2>2. Recorded(j, "fundamentals", c, TRUE) = [job EXCEPT ![j] = A]
    <3>1. Recorded(j, "fundamentals", c, TRUE)
            = [job EXCEPT ![j] = Advanced(job[j], "fundamentals", c, TRUE)]
      <4> HIDE DEF K, J, A, n
      <4> QED BY <1>1, <2>1, RecordedFacts
    <3> QED BY <3>1
  <2>3. K \in Coroutine /\ (K.hit \/ K.items \subseteq K.members)
    BY <1>1, <1>2 DEF Fits, Reached
  <2>4. Fits(A, K, up)
    BY <1>1, <1>2, <1>7, <1>9, <2>3, ReportsOn
  <2>5. Fits(Failed(A), NoScan, up)
    BY <2>1, <2>4, FailureFits
  <2>6. A \in Job /\ job \in [Scans -> Job]
    BY <1>1, <2>4 DEF Fits, TypeOK
  <2> HIDE DEF A
  <2>7. [A EXCEPT !.status = "failed"] = Failed(A)
    BY <2>6, JobFacts DEF Failed
  <2>8. Becomes(j, Failed(A), NoScan)
    BY <1>9, <2>2, <2>6, <2>7 DEF Becomes
  <2> QED BY <1>1, <2>5, <2>8, OthersFit
<1>10. CASE \E inputs \in kSubset(Least(PriceLimit, Size(passed)), passed) :
                Report(j, "fundamentals", c, TRUE, next(unclear, inputs))
  <2>1. PICK inputs \in kSubset(Least(PriceLimit, Size(passed)), passed) :
            Report(j, "fundamentals", c, TRUE, next(unclear, inputs))
    BY <1>10
  <2>2. PriceLimit \in Nat
    BY DiscoveryAssumption
  <2>3. inputs \in SUBSET passed /\ Size(inputs) <= Size(passed)
    BY <1>6, <2>2, ChosenFacts
  <2> DEFINE priced == next(unclear, inputs)
  <2>4. Size(unclear) + n - Size(K.items) \in Int
    <3> HIDE DEF n, K
    <3> QED BY <1>3, <1>6, SMT
  <2>5. /\ priced \in Priced /\ priced.at = "prices" /\ priced.items = K.items
        /\ priced.members = K.members /\ priced.inputs = inputs /\ priced.pending = inputs
        /\ priced.good = {}
    <3>1. inputs \in SUBSET Tickers /\ 0 \in Nat
      BY <1>6, <2>3
    <3> HIDE DEF n
    <3> QED BY <1>3, <2>4, <3>1 DEF Priced
  <2>6. Report(j, "fundamentals", c, TRUE, priced)
    BY <2>1
  <2>7. inputs \subseteq K.items /\ inputs \subseteq inputs
    BY <2>3
  <2> HIDE DEF priced
  <2>8. Valid(c) => Fits(Advanced(J, "fundamentals", c, TRUE), priced, up)
    BY <1>1, <1>2, <1>7, <1>8, <2>3, <2>5, <2>7, PricedFits
  <2>9. "fundamentals" \in StageSet /\ K.at \notin {"none", "created"}
    BY <1>1, StageFacts
  <2> QED BY <1>1, <2>6, <2>8, <2>9, ReportKeeps
<1> QED BY <1>5, <1>9, <1>10
LEMMA PriceArrivesFits ==
    ASSUME IInv, NEW j \in Scans, NEW t, PriceArrives(j, t)
    PROVE  AllFit
<1> DEFINE K == scan[j]
           J == job[j]
           n == Size(K.inputs)
<1>1. TypeOK /\ K.at = "prices" /\ up' = up /\ t \in K.pending
  BY DEF IInv, PriceArrives, At
<1>2. K \in Priced /\ J \in Job /\ Fits(J, K, up)
  BY <1>1, AtFacts, PlaceFacts
<1>3. PICK outcome \in {"good", "dry", "bad"} :
          /\ outcome = "bad" \/ Priceable(t, K)
          /\ LET k == [K EXCEPT !.pending = @ \ {t},
                           !.good = IF outcome = "good" THEN @ \cup {t} ELSE @,
                           !.bad = IF outcome = "bad" THEN @ + 1 ELSE @,
                           !.dry = IF outcome = "dry" THEN @ + 1 ELSE @]
                 m == Size(k.inputs)
             IN  Report(j, "liquidity",
                        Count(m, m - Size(k.pending), Size(k.good), k.bad, 0),
                        k.pending = {}, k)
  BY DEF PriceArrives
<1> DEFINE pending == K.pending \ {t}
           good == IF outcome = "good" THEN K.good \cup {t} ELSE K.good
           bad == IF outcome = "bad" THEN K.bad + 1 ELSE K.bad
           dry == IF outcome = "dry" THEN K.dry + 1 ELSE K.dry
           next == [at |-> "prices", members |-> K.members, items |-> K.items,
                    short |-> K.short, inputs |-> K.inputs, pending |-> pending,
                    good |-> good, bad |-> bad, dry |-> dry]
           c == Count(n, n - Size(pending), Size(good), bad, 0)
<1>4. /\ K = [at |-> "prices", members |-> K.members, items |-> K.items, short |-> K.short,
              inputs |-> K.inputs, pending |-> K.pending, good |-> K.good, bad |-> K.bad,
              dry |-> K.dry]
      /\ K.members \in Universes /\ K.items \in SUBSET Tickers /\ K.short \in Int
      /\ K.inputs \in SUBSET Tickers /\ K.pending \in SUBSET Tickers /\ K.good \in SUBSET Tickers
      /\ K.bad \in Nat /\ K.dry \in Nat
  BY <1>2 DEF Priced
<1>5. [K EXCEPT !.pending = K.pending \ {t},
           !.good = IF outcome = "good" THEN K.good \cup {t} ELSE K.good,
           !.bad = IF outcome = "bad" THEN K.bad + 1 ELSE K.bad,
           !.dry = IF outcome = "dry" THEN K.dry + 1 ELSE K.dry] = next
  <2> DEFINE parted == [at |-> "prices", members |-> K.members, items |-> K.items,
                        short |-> K.short, inputs |-> K.inputs, pending |-> pending,
                        good |-> K.good, bad |-> K.bad, dry |-> K.dry]
             judged == [at |-> "prices", members |-> K.members, items |-> K.items,
                        short |-> K.short, inputs |-> K.inputs, pending |-> pending,
                        good |-> good, bad |-> K.bad, dry |-> K.dry]
             failed == [at |-> "prices", members |-> K.members, items |-> K.items,
                        short |-> K.short, inputs |-> K.inputs, pending |-> pending,
                        good |-> good, bad |-> bad, dry |-> K.dry]
  <2>1. [K EXCEPT !.pending = pending, !.good = good, !.bad = bad, !.dry = dry] = next
    <3> HIDE DEF pending, good, bad, dry
    <3>1. [K EXCEPT !.pending = pending] = parted
      BY <1>4
    <3>2. [parted EXCEPT !.good = good] = judged
      OBVIOUS
    <3>3. [judged EXCEPT !.bad = bad] = failed
      OBVIOUS
    <3>4. [failed EXCEPT !.dry = dry] = next
      OBVIOUS
    <3> HIDE DEF next, parted, judged, failed
    <3>5. [K EXCEPT !.pending = pending, !.good = good, !.bad = bad, !.dry = dry]
            = [[[[K EXCEPT !.pending = pending] EXCEPT !.good = good] EXCEPT !.bad = bad]
                  EXCEPT !.dry = dry]
      OBVIOUS
    <3> QED BY <3>1, <3>2, <3>3, <3>4, <3>5
  <2> QED BY <2>1
<1>6. next.inputs = K.inputs /\ next.pending = pending /\ next.good = good /\ next.bad = bad
      /\ next.at = "prices" /\ next.items = K.items /\ next.members = K.members
  OBVIOUS
<1>7. Report(j, "liquidity", c, pending = {}, next)
  <2>1. LET k == next
            m == Size(k.inputs)
        IN  Report(j, "liquidity",
                   Count(m, m - Size(k.pending), Size(k.good), k.bad, 0), k.pending = {}, k)
    BY <1>3, <1>5
  <2> QED BY <2>1, <1>6
<1>8. pending \in SUBSET Tickers /\ good \in SUBSET Tickers /\ bad \in Nat /\ dry \in Nat
  BY <1>1, <1>4
<1>9. next \in Priced
  <2> HIDE DEF pending, good, bad, dry
  <2> QED BY <1>4, <1>8 DEF Priced
<1>10. n \in Nat /\ Size(pending) \in Nat /\ Size(good) \in Nat
  BY <1>4, <1>8, SizeFacts
<1>11. c \in Told /\ c.total = n /\ c.passed = Size(good)
  <2> HIDE DEF n, pending, good, bad
  <2>1. n \in Int /\ n - Size(pending) \in Int /\ Size(good) \in Int /\ bad \in Int /\ 0 \in Int
    BY <1>8, <1>10, SMT
  <2> QED BY <2>1, CountFacts
<1>12. /\ J.stage["universe"].done /\ J.stage["fundamentals"].done /\ NoneRanked(J.stage)
       /\ K.inputs \subseteq K.items /\ Size(K.items) <= Size(K.members)
       /\ Size(K.inputs) <= J.stage["fundamentals"].passed
       /\ K.pending \subseteq K.inputs /\ K.good \subseteq K.inputs \cap K.members
  BY <1>1, <1>2 DEF Fits, Reached
<1>13. pending \subseteq K.inputs /\ good \subseteq K.inputs \cap K.members
  <2>1. outcome = "good" => t \in K.members
    BY <1>3 DEF Priceable
  <2> QED BY <1>1, <1>12, <2>1
<1> DEFINE A == Advanced(J, "liquidity", c, pending = {})
<1>14. ASSUME Valid(c)
       PROVE  Fits(A, next, up)
  <2>1. "liquidity" \in StageSet /\ \A s \in {"universe", "fundamentals", "sector", "ranking"} :
            s \in StageSet /\ s # "liquidity"
    BY StageFacts
  <2>2. J.status = "running" /\ J.result = None
    BY <1>1, <1>2 DEF Fits, Carries
  <2> DEFINE last == pending = {}
  <2>3. last \in BOOLEAN
    OBVIOUS
  <2>4. /\ A \in Job /\ A.status = "running" /\ A.result = J.result
        /\ A.stage["liquidity"] = Taken(c, last)
        /\ \A s \in StageSet : s # "liquidity" => A.stage[s] = J.stage[s]
    <3> HIDE DEF last, c, J
    <3>1. LET B == Advanced(J, "liquidity", c, last) IN
          /\ B \in Job /\ B.status = "running" /\ B.result = J.result
          /\ B.stage["liquidity"] = Taken(c, last)
          /\ \A s \in StageSet : s # "liquidity" => B.stage[s] = J.stage[s]
      BY <1>2, <1>11, <1>14, <2>1, <2>3, AdvancedFacts
    <3> QED BY <3>1 DEF last
  <2>5. /\ Taken(c, last).begun /\ Taken(c, last).total = n /\ Taken(c, last).passed = Size(good)
        /\ last => Taken(c, last).done
    <3> HIDE DEF last, c
    <3> QED BY <1>11, <1>14, <2>3, TakenFacts
  <2> HIDE DEF A, c, next
  <2>6. /\ A.stage["universe"] = J.stage["universe"]
        /\ A.stage["fundamentals"] = J.stage["fundamentals"]
        /\ A.stage["sector"] = J.stage["sector"] /\ A.stage["ranking"] = J.stage["ranking"]
    BY <2>1, <2>4
  <2>7. Chained(A.stage)
    <3>1. Chained(J.stage)
      BY <1>2 DEF Fits
    <3> QED BY <1>12, <2>4, <2>5, <2>6, <3>1 DEF Chained, NoneRanked
  <2>8. Carries(A, next, up)
    BY <1>6, <2>2, <2>4 DEF Carries
  <2>9. Reached(A, next)
    <3> HIDE DEF pending, good, n
    <3>1. n = Size(K.inputs) /\ (last => pending = {}) /\ (pending = {} => last)
      BY DEF n
    <3> HIDE DEF last, K, J
    <3>2. NoneRanked(A.stage)
      BY <1>12, <2>6 DEF NoneRanked
    <3> QED BY <1>6, <1>12, <1>13, <2>4, <2>5, <2>6, <3>1, <3>2 DEF Reached, Middle
  <2>10. next \in Coroutine
    BY <1>9, PlacesAreCoroutines
  <2> QED BY <2>2, <2>4, <2>7, <2>8, <2>9, <2>10 DEF Fits
<1> DEFINE last == pending = {}
<1>15. Report(j, "liquidity", c, last, next) /\ last \in BOOLEAN
       /\ (Valid(c) => Fits(Advanced(job[j], "liquidity", c, last), next, up))
  BY <1>7, <1>14
<1>16. "liquidity" \in StageSet /\ K.at \notin {"none", "created"}
  BY <1>1, StageFacts
<1> HIDE DEF last, c, next
<1> QED BY <1>1, <1>15, <1>16, ReportKeeps
LEMMA RankFits ==
    ASSUME IInv, NEW j \in Scans, Rank(j)
    PROVE  AllFit
<1> DEFINE K == scan[j]
           J == job[j]
           n == Size(K.good)
           c == Count(n, n, n, 0, 0)
           A == Advanced(J, "sector", c, TRUE)
<1>1. TypeOK /\ K.at = "prices" /\ up' = up /\ K.pending = {} /\ K.good # {}
  BY DEF IInv, Rank, At
<1>2. K \in Priced /\ J \in Job /\ Fits(J, K, up)
  BY <1>1, AtFacts, PlaceFacts
<1>3. /\ K.members \in SUBSET Tickers /\ K.items \in SUBSET Tickers /\ K.short \in Int
      /\ K.good \in SUBSET Tickers /\ n \in Nat
  BY <1>2, MembersFacts, SizeFacts DEF Priced
<1>4. /\ J.stage["universe"].done /\ J.stage["fundamentals"].done /\ NoneRanked(J.stage)
      /\ K.inputs \subseteq K.items /\ Size(K.items) <= Size(K.members)
      /\ K.good \subseteq K.inputs \cap K.members
      /\ J.stage["liquidity"].done /\ J.stage["liquidity"].passed = n
      /\ Chained(J.stage)
  <2> HIDE DEF K, J
  <2> QED BY <1>1, <1>2 DEF Fits, Reached
<1>5. c \in Told /\ c.total = n /\ c.passed = n /\ Valid(c)
  <2> HIDE DEF n
  <2>1. n \in Int /\ 0 \in Int
    BY <1>3, SMT
  <2>2. /\ c \in Told /\ c.total = n /\ c.processed = n /\ c.passed = n /\ c.failed = 0
        /\ c.cached = 0
    BY <2>1, CountFacts
  <2>3. DOMAIN c = {"total", "processed", "passed", "failed", "cached"}
    BY DEF Count
  <2> HIDE DEF c
  <2>4. \A f \in DOMAIN c : c[f] >= 0
    BY <1>3, <2>2, <2>3, SMT
  <2>5. c.processed <= c.total /\ c.passed + c.failed <= c.processed /\ c.cached <= c.processed
    BY <1>3, <2>2, SMT
  <2> QED BY <2>2, <2>4, <2>5 DEF Valid
<1>6. \A s \in {"universe", "fundamentals", "liquidity", "sector", "ranking"} : s \in StageSet
  BY StageFacts
<1> HIDE DEF c
<1>7. /\ A \in Job /\ A.stage["sector"] = Taken(c, TRUE)
      /\ \A s \in StageSet : s # "sector" => A.stage[s] = J.stage[s]
  <2>1. J \in Job /\ "sector" \in StageSet /\ c \in Told /\ Valid(c) /\ TRUE \in BOOLEAN
    BY <1>2, <1>5, <1>6
  <2> HIDE DEF J, K, n
  <2> QED BY <2>1, AdvancedFacts
<1>8. Recorded(j, "sector", c, TRUE)[j].stage = A.stage
  <2>1. Recorded(j, "sector", c, TRUE) = [job EXCEPT ![j] = Advanced(job[j], "sector", c, TRUE)]
    <3> HIDE DEF K, J, n
    <3> QED BY <1>1, <1>6, RecordedFacts
  <2>2. job \in [Scans -> Job]
    BY <1>1 DEF TypeOK
  <2> QED BY <2>1, <2>2
<1>9. PICK chosen \in kSubset(Least(Limit, n), K.good), unknownSector \in BOOLEAN :
          /\ job' = [job EXCEPT ![j] =
                [status |-> IF HasGaps(K, unknownSector) THEN "partial" ELSE "complete",
                 stage |-> [Recorded(j, "sector", c, TRUE)[j].stage EXCEPT !["ranking"] =
                     [total |-> n, processed |-> n, passed |-> Size(chosen), failed |-> 0,
                      cached |-> 0, begun |-> TRUE, done |-> TRUE]],
                 result |-> [members |-> K.members, items |-> K.items, short |-> K.short,
                             candidates |-> chosen]]]
          /\ scan' = [scan EXCEPT ![j] = NoScan]
  BY DEF Rank, c
<1>10. chosen \in SUBSET K.good /\ Size(chosen) \in Nat
  <2>1. Limit \in Nat
    BY DiscoveryAssumption
  <2> QED BY <1>3, <2>1, ChosenFacts
<1> DEFINE ranked == [total |-> n, processed |-> n, passed |-> Size(chosen), failed |-> 0,
                      cached |-> 0, begun |-> TRUE, done |-> TRUE]
           stage == [A.stage EXCEPT !["ranking"] = ranked]
           result == [members |-> K.members, items |-> K.items, short |-> K.short,
                      candidates |-> chosen]
           status == IF HasGaps(K, unknownSector) THEN "partial" ELSE "complete"
           next == [status |-> status, stage |-> stage, result |-> result]
<1>11. Becomes(j, next, NoScan)
  BY <1>8, <1>9 DEF Becomes
<1>12. ranked \in Counts /\ ranked.total = n /\ ranked.done /\ ranked.begun
  <2> HIDE DEF n
  <2>1. 0 \in Nat
    BY SMT
  <2> QED BY <1>3, <1>10, <2>1 DEF Counts
<1>13. result \in Outcome /\ result # None
  <2>1. chosen \in SUBSET Tickers
    BY <1>3, <1>10
  <2>2. result \in Outcome
    BY <1>3, <2>1 DEF Outcome
  <2> QED BY <2>2, DiscoveryAssumption
<1>14. result.members = K.members /\ result.items = K.items /\ result.candidates = chosen
  OBVIOUS
<1>15. status \in {"complete", "partial"}
  OBVIOUS
<1> HIDE DEF ranked, A, result, status
<1>16. /\ stage \in [StageSet -> Counts] /\ stage["ranking"] = ranked
       /\ stage["sector"] = Taken(c, TRUE) /\ stage["universe"] = J.stage["universe"]
       /\ stage["fundamentals"] = J.stage["fundamentals"]
       /\ stage["liquidity"] = J.stage["liquidity"]
  BY <1>6, <1>7, <1>12, JobFacts
<1> HIDE DEF stage
<1>17. next \in Job /\ next.status = status /\ next.stage = stage /\ next.result = result
  BY <1>13, <1>15, <1>16 DEF Job, Ended
<1> HIDE DEF next
<1>18. Taken(c, TRUE).done /\ Taken(c, TRUE).total = n /\ Taken(c, TRUE).passed = n
  BY <1>5, TakenFacts
<1>19. Chained(stage)
  <2> HIDE DEF K, J
  <2>1. n <= n
    BY <1>3, SMT
  <2> HIDE DEF n
  <2> QED BY <1>4, <1>12, <1>16, <1>18, <2>1 DEF Chained
<1>20. Sound(stage, result)
  <2>1. \A s \in StageSet : stage[s].done
    BY <1>4, <1>12, <1>16, <1>18, StageFacts
  <2>2. result.candidates \subseteq result.members \cap result.items
    BY <1>4, <1>10, <1>14
  <2> QED BY <1>4, <1>14, <2>1, <2>2 DEF Sound
<1>21. NoScan \in Coroutine /\ NoScan.at = "none"
  BY PlacesAreCoroutines
<1>22. Carries(next, NoScan, up) /\ Reached(next, NoScan)
  BY <1>13, <1>15, <1>17, <1>21 DEF Carries, Reached, Middle
<1>23. Fits(next, NoScan, up)
  BY <1>17, <1>19, <1>20, <1>21, <1>22 DEF Fits
<1> QED BY <1>1, <1>11, <1>23, OthersFit

----------------------------------------------------------------------------
(* Requests, time and shutdown *)

LEMMA CreateFits ==
    ASSUME IInv, NEW j \in Scans, NEW m \in Markets, NEW force \in BOOLEAN, Create(j, m, force)
    PROVE  AllFit
<1> DEFINE J == job[j]
           queued == [status |-> "queued", stage |-> J.stage, result |-> J.result]
           next == [at |-> "created", market |-> m, force |-> force]
<1>1. TypeOK /\ J.status = "none" /\ up' = up
  BY DEF IInv, Create
<1>2. J \in Job /\ Fits(J, scan[j], up)
  BY <1>1, AtFacts
<1>3. Becomes(j, queued, next)
  <2>1. [J EXCEPT !.status = "queued"] = queued
    BY <1>2, JobFacts
  <2> QED BY <1>1, <2>1 DEF Create, Becomes, TypeOK
<1>4. next \in Coroutine /\ next.at = "created"
  <2>1. next \in Unlisted /\ next.at = "created"
    BY DEF Unlisted
  <2> QED BY <2>1, PlacesAreCoroutines
<1>5. /\ queued \in Job /\ queued.status = "queued" /\ queued.stage = J.stage
      /\ queued.result = J.result
  BY <1>2, JobFacts DEF Job
<1> HIDE DEF next, queued, J
<1>6. J.result = None /\ NoneBegun(J.stage) /\ Chained(J.stage)
  BY <1>1, <1>2 DEF Fits, Carries, Reached
<1>7. Fits(queued, next, up)
  BY <1>4, <1>5, <1>6 DEF Fits, Carries, Reached, Middle
<1> QED BY <1>1, <1>3, <1>7, OthersFit

LEMMA CloseFits ==
    ASSUME IInv, Close
    PROVE  AllFit
<1>1. ASSUME NEW i \in Scans
      PROVE  Fits(job'[i], scan'[i], up')
  <2>1. Fits(job[i], scan[i], up) /\ up' = FALSE /\ scan'[i] = NoScan
        /\ job[i] \in Job /\ NoScan \in Coroutine /\ NoScan.at = "none"
    BY AtFacts, PlacesAreCoroutines DEF Close
  <2>2. CASE scan[i].at \in {"none", "created"}
    <3>1. job'[i] = job[i]
      BY <2>2 DEF Close
    <3>2. Carries(job[i], NoScan, FALSE)
      BY <2>1, <2>2 DEF Fits, Carries
    <3>3. Reached(job[i], NoScan)
      BY <2>1 DEF Fits, Reached, Middle
    <3>4. Fits(job[i], NoScan, FALSE)
      BY <2>1, <3>2, <3>3 DEF Fits
    <3> QED BY <2>1, <3>1, <3>4
  <2>3. CASE scan[i].at \notin {"none", "created"}
    <3>1. job'[i] = [job[i] EXCEPT !.status = "failed"]
      BY <2>3 DEF Close
    <3>2. job'[i] = Failed(job[i])
      BY <2>1, <3>1, JobFacts DEF Failed
    <3>3. Fits(Failed(job[i]), NoScan, FALSE)
      BY <2>1, <2>3, FailureFits
    <3> QED BY <2>1, <3>2, <3>3
  <2> QED BY <2>2, <2>3
<1>2. \A i \in Scans : job'[i] \in Job /\ scan'[i] \in Coroutine
  BY <1>1 DEF Fits
<1>3. /\ job' = [i \in Scans |-> job'[i]]
      /\ scan' = [i \in Scans |-> scan'[i]]
  BY DEF Close
<1>4. job' \in [Scans -> Job] /\ scan' \in [Scans -> Coroutine]
  BY <1>2, <1>3
<1> QED BY <1>1, <1>4 DEF AllFit

\* No scan has begun, and what earlier ones cached is whole.
LEMMA InitFits == Init => IInv
<1> SUFFICES ASSUME Init
             PROVE  IInv
  OBVIOUS
<1>1. PICK start \in Starts : session = start.requests /\ batch = start.batch
  BY DEF Init
<1>2. /\ session \subseteq Scans \X Markets \X BOOLEAN
      /\ batch \in [Markets -> Batch \cup {None}]
      /\ batch["US"] # None => Whole(batch["US"])
  BY <1>1, DiscoveryAssumption
<1>3. Untouched \in Counts /\ ~Untouched.begun
  <2>1. 0 \in Nat
    BY SMT
  <2> QED BY <2>1 DEF Untouched, Counts
<1>4. NoJob \in Job /\ NoJob.status = "none" /\ NoJob.result = None
      /\ \A s \in StageSet : NoJob.stage[s] = Untouched
  BY <1>3 DEF NoJob, Job
<1>5. \A s \in {"universe", "fundamentals", "liquidity", "sector", "ranking"} : s \in StageSet
  BY StageFacts
<1>6. NoScan \in Coroutine /\ NoScan.at = "none"
  BY PlacesAreCoroutines
<1>7. NoneBegun(NoJob.stage)
  BY <1>3, <1>4 DEF NoneBegun
<1>8. Chained(NoJob.stage)
  BY <1>5, <1>7 DEF Chained, NoneBegun
<1>9. Carries(NoJob, NoScan, TRUE) /\ Reached(NoJob, NoScan)
  BY <1>4, <1>6, <1>7 DEF Carries, Reached, Middle
<1>10. Fits(NoJob, NoScan, TRUE)
  BY <1>4, <1>6, <1>8, <1>9 DEF Fits
<1>11. \A j \in Scans : Fits(job[j], scan[j], up)
  BY <1>10 DEF Init
<1>12. /\ job \in [Scans -> Job] /\ scan \in [Scans -> Coroutine]
       /\ universe \in [Markets -> Listing \cup {None}]
       /\ temp \in [Archives -> Scans \cup {None}] /\ archive \in [Archives -> Scans \cup {None}]
       /\ up \in BOOLEAN
  BY <1>4, <1>6 DEF Init
<1>13. content \in [Archives -> [Scans -> SUBSET (1 .. Chunks)]]
  BY DEF Init
<1>14. TypeOK
  BY <1>2, <1>12, <1>13 DEF TypeOK
<1>15. CachedBatchIsWhole
  BY <1>2 DEF CachedBatchIsWhole
<1> QED BY <1>11, <1>14, <1>15 DEF IInv

\* Every step keeps the invariant, first the steps of a scan.
LEMMA WorkFits ==
    ASSUME IInv, NEW j \in Scans, Work(j), UNCHANGED session
    PROVE  IInv'
<1>1. TypeOK /\ CachedBatchIsWhole
  BY DEF IInv
<1>2. ASSUME AllFit, UNCHANGED <<disk, up>>
      PROVE  IInv'
  BY <1>1, <1>2 DEF IInv, TypeOK, AllFit, CachedBatchIsWhole, disk, files
<1>3. CASE Begin(j)
  BY <1>2, <1>3, BeginFits DEF Begin
<1>4. CASE ListingArrives(j)
  <2>1. AllFit /\ universe' \in [Markets -> Listing \cup {None}]
    BY <1>4, ListingArrivesFits
  <2>2. UNCHANGED <<batch, temp, archive, content, up>>
    BY <1>4 DEF ListingArrives, files
  <2> QED BY <1>1, <2>1, <2>2 DEF IInv, TypeOK, AllFit, CachedBatchIsWhole
<1>5. CASE \/ ListingFails(j) \/ RemovalRefused(j) \/ BatchCacheFails(j)
           \/ DartFails(j) \/ NothingLeft(j)
  <2>1. AllFit
    BY <1>5, FailuresFit
  <2>2. UNCHANGED <<disk, up>>
    BY <1>5 DEF ListingFails, RemovalRefused, BatchCacheFails, DartFails, NothingLeft
  <2> QED BY <1>2, <2>1, <2>2
<1>6. CASE ReportListing(j)
  BY <1>2, <1>6, ReportListingFits DEF ReportListing
<1>7. CASE BeginFundamentals(j)
  BY <1>2, <1>7, BeginFundamentalsFits DEF BeginFundamentals
<1>8. CASE Open(j)
  <2>1. /\ AllFit /\ temp' \in [Archives -> Scans \cup {None}]
        /\ content' \in [Archives -> [Scans -> SUBSET (1 .. Chunks)]]
    BY <1>8, OpenFits
  <2>2. UNCHANGED <<universe, batch, archive, up>>
    BY <1>8 DEF Open
  <2> QED BY <1>1, <2>1, <2>2 DEF IInv, TypeOK, AllFit, CachedBatchIsWhole
<1>9. CASE WriteChunk(j)
  <2>1. AllFit /\ content' \in [Archives -> [Scans -> SUBSET (1 .. Chunks)]]
    BY <1>9, WriteChunkFits
  <2>2. UNCHANGED <<universe, batch, temp, archive, up>>
    BY <1>9 DEF WriteChunk
  <2> QED BY <1>1, <2>1, <2>2 DEF IInv, TypeOK, AllFit, CachedBatchIsWhole
<1>10. CASE Publish(j)
  <2>1. /\ AllFit /\ temp' \in [Archives -> Scans \cup {None}]
        /\ archive' \in [Archives -> Scans \cup {None}]
    BY <1>10, PublishFits
  <2>2. UNCHANGED <<universe, batch, content, up>>
    BY <1>10 DEF Publish
  <2> QED BY <1>1, <2>1, <2>2 DEF IInv, TypeOK, AllFit, CachedBatchIsWhole
<1>11. CASE DownloadFails(j)
  <2>1. AllFit /\ temp' \in [Archives -> Scans \cup {None}]
    BY <1>11, DownloadFailsFits
  <2>2. UNCHANGED <<universe, batch, archive, content, up>>
    BY <1>11 DEF DownloadFails, GiveUpDownload
  <2> QED BY <1>1, <2>1, <2>2 DEF IInv, TypeOK, AllFit, CachedBatchIsWhole
<1>12. CASE ParseIndustries(j)
  BY <1>2, <1>12, ParseIndustriesFits DEF ParseIndustries
<1>13. CASE ParseFacts(j) \/ DartParse(j)
  <2>1. AllFit /\ batch' \in [Markets -> Batch \cup {None}] /\ CachedBatchIsWhole'
    BY <1>13, ParseFactsFits, DartParseFits
  <2>2. UNCHANGED <<universe, temp, archive, content, up>>
    BY <1>13 DEF ParseFacts, DartParse, files
  <2> QED BY <1>1, <2>1, <2>2 DEF IInv, TypeOK, AllFit
<1>14. CASE DartMain(j) \/ DartList(j) \/ DartStatement(j) \/ DartYear(j)
  <2>1. AllFit
    BY <1>14, DartFits
  <2>2. UNCHANGED <<disk, up>>
    BY <1>14 DEF DartMain, DartList, DartStatement, DartYear
  <2> QED BY <1>2, <2>1, <2>2
<1>15. CASE Gate(j)
  BY <1>2, <1>15, GateFits DEF Gate
<1>16. CASE \E t \in Tickers : PriceArrives(j, t)
  BY <1>2, <1>16, PriceArrivesFits DEF PriceArrives
<1>17. CASE Rank(j)
  BY <1>2, <1>17, RankFits DEF Rank
<1> QED BY <1>3, <1>4, <1>5, <1>6, <1>7, <1>8, <1>9, <1>10, <1>11, <1>12, <1>13, <1>14, <1>15,
           <1>16, <1>17 DEF Work

LEMMA InvariantKept == IInv /\ [Next]_vars => IInv'
<1> SUFFICES ASSUME IInv, [Next]_vars
             PROVE  IInv'
  OBVIOUS
<1>1. TypeOK /\ CachedBatchIsWhole /\ \A i \in Scans : Fits(job[i], scan[i], up)
  BY DEF IInv
<1>2. CASE UNCHANGED vars
  BY <1>1, <1>2 DEF vars, disk, files, IInv, TypeOK, CachedBatchIsWhole, Whole
<1>3. CASE Next
  <2>1. UNCHANGED session
    BY <1>3 DEF Next
  <2>2. ASSUME NEW j \in Scans, NEW m \in Markets, NEW force \in BOOLEAN, Create(j, m, force)
        PROVE  IInv'
    <3>1. AllFit
      BY <2>2, CreateFits
    <3>2. UNCHANGED <<universe, batch, temp, archive, content, up>>
      BY <2>2 DEF Create, disk, files
    <3> QED BY <1>1, <2>1, <3>1, <3>2 DEF IInv, TypeOK, AllFit, CachedBatchIsWhole
  <2>3. ASSUME NEW j \in Scans, Work(j)
        PROVE  IInv'
    BY <2>1, <2>3, WorkFits
  <2>4. ASSUME NEW m \in Markets, ExpireUniverse(m)
        PROVE  IInv'
    <3>1. universe' \in [Markets -> Listing \cup {None}]
      BY <1>1, <2>4 DEF ExpireUniverse, TypeOK
    <3>2. UNCHANGED <<job, scan, batch, temp, archive, content, up>>
      BY <2>4 DEF ExpireUniverse, files
    <3> QED BY <1>1, <2>1, <3>1, <3>2 DEF IInv, TypeOK, CachedBatchIsWhole
  <2>5. ASSUME NEW m \in Markets, ExpireBatch(m)
        PROVE  IInv'
    <3>1. batch' = [batch EXCEPT ![m] = None] /\ "US" \in Markets
      BY <2>5 DEF ExpireBatch, Markets
    <3>2. batch' \in [Markets -> Batch \cup {None}]
      BY <1>1, <3>1 DEF TypeOK
    <3>3. UNCHANGED <<job, scan, universe, temp, archive, content, up>>
      BY <2>5 DEF ExpireBatch, files
    <3>4. CachedBatchIsWhole'
      <4>1. batch'["US"] = None \/ batch'["US"] = batch["US"]
        BY <1>1, <3>1 DEF TypeOK
      <4> QED BY <1>1, <4>1 DEF CachedBatchIsWhole
    <3> QED BY <1>1, <2>1, <3>2, <3>3, <3>4 DEF IInv, TypeOK
  <2>6. CASE Close
    <3>1. AllFit
      BY <2>6, CloseFits
    <3>2. UNCHANGED <<universe, batch, temp, archive, content>> /\ up' \in BOOLEAN
      BY <2>6 DEF Close, disk, files
    <3> QED BY <1>1, <2>1, <3>1, <3>2 DEF IInv, TypeOK, AllFit, CachedBatchIsWhole
  <2> QED BY <1>3, <2>2, <2>3, <2>4, <2>5, <2>6 DEF Next
<1> QED BY <1>2, <1>3

----------------------------------------------------------------------------
(* The theorems *)

\* The invariant holds: each job, its stages and the coroutine that carries it fit
\* together whatever the other scans do (discovery_jobs.py, full_market_discovery.py).
THEOREM InvariantHolds == Spec => []IInv
<1>1. Init => IInv
  BY InitFits
<1>2. IInv /\ [Next]_vars => IInv'
  BY InvariantKept
<1> QED BY <1>1, <1>2, PTL DEF Spec

\* The ledger, the coroutines, the caches and the files keep their types.
THEOREM TypeCorrect == Spec => []TypeOK
<1>1. IInv => TypeOK
  BY DEF IInv
<1> QED BY <1>1, InvariantHolds, PTL

\* The ledger shows a job as running just as long as a task carries it, also when the
\* task fails, is cancelled, or is closed before its first step, and a result just
\* for a success (_run, _mark_failed, close).
THEOREM LedgerAndTasksAgree == Spec => []LedgerMatchesTasks
<1>1. IInv => LedgerMatchesTasks
  <2> SUFFICES ASSUME IInv, NEW j \in Scans
               PROVE  /\ job[j].status = "running" => Carried(j)
                      /\ job[j].status = "queued" => Carried(j) \/ ~up
                      /\ Carried(j) => job[j].status \in {"queued", "running"}
                      /\ job[j].result # None <=> job[j].status \in {"complete", "partial"}
    BY DEF LedgerMatchesTasks
  <2>1. Carries(job[j], scan[j], up)
    BY DEF IInv, Fits
  <2> QED BY <2>1 DEF Carries, Carried
<1> QED BY <1>1, InvariantHolds, PTL

\* Scans that write into one another's archive never leave fundamentals in the cache
\* that lack a filer of the companies asked for, or hold it under another ticker than the
\* last of its classes of shares (_download_archive, _parse_sec_archive).
THEOREM CacheIsNeverTorn == Spec => []CachedBatchIsWhole
<1>1. IInv => CachedBatchIsWhole
  BY DEF IInv
<1> QED BY <1>1, InvariantHolds, PTL

\* No stage of the funnel begins before the one before it is done or with more than
\* that one let pass, and what a scan finds are members of its universe with
\* fundamentals, also those cached for another one (_apply_progress, scan).
THEOREM FunnelOnlyNarrows == Spec => []FunnelNarrows
<1>1. IInv => FunnelNarrows
  <2> SUFFICES ASSUME IInv, NEW j \in Scans
               PROVE  /\ \A n \in 2 .. 5 :
                           LET before == job[j].stage[Stages[n - 1]]
                               stage  == job[j].stage[Stages[n]]
                           IN  stage.begun => before.done /\ (n >= 3 => stage.total <= before.passed)
                      /\ job[j].result # None =>
                           /\ \A s \in StageSet : job[j].stage[s].done
                           /\ job[j].result.candidates
                                \subseteq job[j].result.members \cap job[j].result.items
                           /\ Size(job[j].result.items) <= Size(job[j].result.members)
    BY DEF FunnelNarrows
  <2>1. Chained(job[j].stage) /\ (job[j].result # None => Sound(job[j].stage, job[j].result))
    BY DEF IInv, Fits
  <2>2. ASSUME NEW n \in 2 .. 5
        PROVE  job[j].stage[Stages[n]].begun =>
                  /\ job[j].stage[Stages[n - 1]].done
                  /\ n >= 3 => job[j].stage[Stages[n]].total <= job[j].stage[Stages[n - 1]].passed
    <3>1. \/ n = 2 /\ n - 1 = 1 /\ ~(n >= 3)
          \/ n = 3 /\ n - 1 = 2
          \/ n = 4 /\ n - 1 = 3
          \/ n = 5 /\ n - 1 = 4
      BY <2>2, SMT
    <3>2. /\ Stages[1] = "universe" /\ Stages[2] = "fundamentals" /\ Stages[3] = "liquidity"
          /\ Stages[4] = "sector" /\ Stages[5] = "ranking"
      BY StageFacts
    <3>3. CASE n = 2 /\ n - 1 = 1 /\ ~(n >= 3)
      BY <2>1, <3>2, <3>3 DEF Chained
    <3>4. CASE n = 3 /\ n - 1 = 2
      BY <2>1, <3>2, <3>4 DEF Chained
    <3>5. CASE n = 4 /\ n - 1 = 3
      BY <2>1, <3>2, <3>5 DEF Chained
    <3>6. CASE n = 5 /\ n - 1 = 4
      BY <2>1, <3>2, <3>6 DEF Chained
    <3> QED BY <3>1, <3>3, <3>4, <3>5, <3>6
  <2> QED BY <2>1, <2>2 DEF Sound
<1> QED BY <1>1, InvariantHolds, PTL

=============================================================================
