------------------------------ MODULE Research ------------------------------
(***************************************************************************)
(* services/research_pipeline.py: requests for research collect the macro  *)
(* context, the Korean supplement and the company's filings at the same    *)
(* time, sharing one cache and one lock per macro source, and merge what   *)
(* they got into the bundle an analysis is made from.                      *)
(***************************************************************************)
EXTENDS MacroContext

CONSTANTS
    Requests,       \* requests for research
    MacroFeeds,     \* answers the common macro sources may give
    EcosFeeds,      \* answers of ECOS
    Filings,        \* per request: what the company's sources may hold
    Wishes,         \* per request: the markets, cutoffs and prices it may ask for
    Ttl,            \* how long a cached macro result is used
    PriceMaxAge, FundamentalMaxAge, DisclosureMaxAge,
    None,
    Start, MaxTime, \* bound: the clock shows Start..MaxTime
    MaxSetBacks     \* bound: times the clock is set back

\* A lock that nobody holds has no request for its holder.
ASSUME ResearchAssumption == None \notin Requests

\* What the company's sources hold: figures and filings, each under an id of its own
\* (a metric, an accession or a receipt number), none published before it was observed.
\* Income and equity are figures.
ASSUME FilingsAssumption ==
    \A r \in Requests : \A filings \in Filings[r] :
        /\ \A f \in filings :
              /\ f.section \in {"company.fundamentals", "company.news"}
              /\ f.observed \in Int /\ f.published \in Int /\ f.observed <= f.published
              /\ f.id \in {"income", "equity"} => f.section = "company.fundamentals"
        /\ \A f, g \in filings : f.id = g.id => f = g

\* The dates of what macro sources answer, and of what requests are about, are points
\* of the clock's time.  A request that names a cutoff names a time that has passed.
ASSUME TimesAssumption ==
    /\ Start \in Int /\ MaxTime \in Int /\ Start <= MaxTime
    /\ \A feed \in MacroFeeds : \A a \in feed.treasury \cup {feed.bls} :
          \A row \in a.rows : row.date \in Int
    /\ \A feed \in EcosFeeds : \A s \in EcosSeries : feed[s] \subseteq Int
    /\ \A r \in Requests : \A w \in Wishes[r] :
          /\ w.cutoff # None => w.cutoff \in Int /\ w.cutoff <= Start
          /\ w.snapshot # None => w.snapshot.observed \in Int /\ w.snapshot.fetched \in Int

VARIABLES
    now,        \* the clock
    setBacks,
    cache,      \* per macro source: the last result and when it was stored
    holder,     \* per macro source: the request that holds its lock
    task,       \* per request and source: what its collecting task does
    request,    \* per request: what was asked for
    outcome     \* per request: how it ended
vars == <<now, setBacks, cache, holder, task, request, outcome>>

Shared == {"macro", "ecos"}
Parts == Shared \cup {"company"}

\* A task is not needed, about to look at the cache, waiting for the lock,
\* fetching since "at", or done with what was delivered: the answer, or
\* None if the fetch failed, and the time the fetch began.
Task(state, at, delivered) == [state |-> state, at |-> at, delivered |-> delivered]
Idle == Task("idle", None, None)

-----------------------------------------------------------------------------
(* Failures and the parts of a bundle.                                     *)

\* _fetch_macro_uncached, _fetch_ecos_uncached, _collect_company: a failed
\* fetch becomes sections that say so.
Nothing(sections) == [facts |-> {}, sources |-> {}, stale |-> {},
                      sections |-> {Unavailable(id, TRUE) : id \in sections}]
Failed(part) == Nothing(CASE part = "macro" -> CommonSections
                          [] part = "ecos" -> {"macro.kr.ecos"}
                          [] part = "company" -> {"company.fundamentals", "company.news"})

\* OfficialCompanyResearchClient.fetch: facts published by the cutoff; the
\* official news are metadata of filings and therefore always have a gap.
FetchCompany(filings, cutoff, at) ==
    LET of(section) == {f \in filings : f.section = section /\ f.published <= cutoff}
        facts(section) == {Fact(<<"company", f.id>>, section, f.observed, f.published, at)
                              : f \in of(section)}
        gaps == Ids(of("company.fundamentals")) # {"income", "equity"}
    IN  [facts |-> facts("company.fundamentals") \cup facts("company.news"),
         sources |-> {Source("company.fundamentals", at), Source("company.news", at)},
         sections |-> {Evidence("company.fundamentals", Ids(facts("company.fundamentals")), gaps, TRUE),
                       Evidence("company.news", Ids(facts("company.news")), TRUE, TRUE)},
         stale |-> {}]

\* The result of a fetch, from the answer it got.
Fetched(part, delivered, req) ==
    LET answer == delivered.answer
    IN  CASE answer = None -> Failed(part)
          [] answer # None /\ part = "macro" -> FetchMacro(answer, delivered.at)
          [] answer # None /\ part = "ecos" -> FetchEcos(answer, delivered.at)
          [] answer # None /\ part = "company" ->
               FetchCompany(answer, IF req.cutoff = None THEN req.at ELSE req.cutoff,
                            delivered.at)

\* _restrict_macro_to_observation_cutoff and its twin for the company: no
\* fact observed or published later than the cutoff.  A macro section that
\* keeps some facts is partial, a company section is blocked either way.
Past_Observed(f, cutoff) == f.observed <= cutoff
Past(f, cutoff) == f.observed <= cutoff /\ f.published <= cutoff
Cut(s, kept, rest) ==
    LET left == s.facts \cap Ids(kept)
        status == IF left = {} \/ s.status = "blocked" THEN "blocked" ELSE rest
    IN  IF s.facts \subseteq Ids(kept) THEN s
        ELSE Section(s.id, status, s.required, left, TRUE, s.reasons \/ status = "blocked")
Restricted(result, cutoff, rest) ==
    LET kept == {f \in result.facts : Past(f, cutoff)}
    IN  [facts |-> kept, sources |-> result.sources, stale |-> result.stale \cap Ids(kept),
         sections |-> {Cut(s, kept, rest) : s \in result.sections}]
MacroRestricted(result, cutoff) == Restricted(result, cutoff, "partial")
CompanyRestricted(result, cutoff) == Restricted(result, cutoff, "blocked")

\* _collection_cutoff: the latest time anything was collected.
BundleCutoff_AsRequested(req, finished, macro, company) == req.at
BundleCutoff(req, finished, macro, company) ==
    Max({req.at, finished, req.snapshot.fetched}
        \cup {s.retrieved : s \in macro.sources \cup company.sources}
        \cup {f.collected : f \in macro.facts \cup company.facts})

\* _build_price_part: a price that is not the instrument's, or from the
\* future of its own fetch, is no evidence; an old one is stale evidence.
PricePart(snapshot, cutoff) ==
    LET facts == {Fact(<<"price", id>>, "price", snapshot.observed, snapshot.fetched,
                       snapshot.fetched)
                    : id \in {"close"} \cup (IF snapshot.complete THEN {"atr"} ELSE {})}
        core == Evidence("price.core", Ids(facts), ~snapshot.complete, TRUE)
        old == Section(core.id, "blocked", TRUE, core.facts, core.gaps, TRUE)
        stale == cutoff - snapshot.observed > PriceMaxAge
    IN  IF snapshot.mismatch \/ snapshot.observed > snapshot.fetched
        THEN [Nothing({}) EXCEPT !.sections =
                  {Section("price.core", "blocked", TRUE, {}, FALSE, TRUE),
                   Unavailable("price.technical", FALSE)}]
        ELSE [facts |-> facts, sources |-> {Source("price", snapshot.fetched)},
              sections |-> {IF stale THEN old ELSE core, Unavailable("price.technical", FALSE)},
              stale |-> IF stale THEN Ids(facts) ELSE {}]

\* _company_part: old fundamentals and filings are stale and block their
\* section; filings' metadata alone never completes the news.
StaleFacts(result, section, cutoff) ==
    LET age == IF section = "company.fundamentals" THEN FundamentalMaxAge ELSE DisclosureMaxAge
    IN  {f \in result.facts : /\ f.source = section
                              /\ cutoff - f.observed > age \/ cutoff - f.published > age}
CompanyPart_KeepsStatus(result, cutoff) ==
    [result EXCEPT !.stale = UNION {Ids(StaleFacts(result, s.id, cutoff)) : s \in result.sections}]
Aged(s, old) ==
    LET status == IF s.status = "complete" THEN "partial" ELSE s.status
    IN  CASE old # {} -> Section(s.id, "blocked", s.required, s.facts, s.gaps, TRUE)
          [] old = {} /\ s.id = "company.news" /\ s.facts # {} ->
                Section(s.id, status, s.required, s.facts, TRUE, TRUE)
          [] OTHER -> s
CompanyPart(result, cutoff) ==
    LET old(s) == Ids(StaleFacts(result, s.id, cutoff))
    IN  [facts |-> result.facts, sources |-> result.sources,
         stale |-> UNION {old(s) : s \in result.sections},
         sections |-> {Aged(s, old(s)) : s \in result.sections}]

\* _build_valuation_part: a ratio of two fundamentals that are not stale.
RoeIds == {<<"company", "income">>, <<"company", "equity">>}
Roe(inputs) ==
    Fact(<<"company.valuation", "roe">>, "company.fundamentals",
         Max({f.observed : f \in inputs}), Max({f.published : f \in inputs}),
         Max({f.collected : f \in inputs}))
ValuationPart(company) ==
    LET inputs == {f \in company.facts : f.id \in RoeIds \ company.stale}
        facts == IF Ids(inputs) = RoeIds THEN {Roe(inputs)} ELSE {}
    IN  [facts |-> facts, sources |-> {}, stale |-> {},
         sections |-> {Evidence("company.valuation", Ids(facts), TRUE, FALSE)}]

\* _merge_research: facts without a source, or collected at a time that
\* does not fit, are dropped; the sections that refer to them are blocked
\* and so is the bundle's integrity.
Fits(f, sources, cutoff) ==
    /\ f.collected <= cutoff
    /\ \E s \in sources : s.id = f.source /\ s.retrieved <= f.collected
Mended(s, kept) ==
    IF s.facts \subseteq Ids(kept) THEN s
    ELSE Section(s.id, "blocked", s.required, s.facts \cap Ids(kept), s.gaps, TRUE)
Integrity(whole) ==
    IF whole THEN {} ELSE {Section("integrity", "blocked", TRUE, {}, FALSE, TRUE)}
Merged(parts, cutoff) ==
    LET all == Together(parts)
        kept == {f \in all.facts : Fits(f, all.sources, cutoff)}
        whole == kept = all.facts /\ \A s \in all.sections : s.facts \subseteq Ids(kept)
    IN  [facts |-> kept, sources |-> all.sources, stale |-> all.stale \cap Ids(kept),
         sections |-> {Mended(s, kept) : s \in all.sections} \cup Integrity(whole)]

\* _macro_part, _company_part: required sections nothing was delivered for.
MissingSections(market, sections) ==
    (CommonSections \cup (IF market = "kr" THEN {"macro.kr.ecos"} ELSE {})
        \cup {"company.fundamentals", "company.news"}) \ Ids(sections)

\* _build_quality
Quality(merged, missing) ==
    LET blocked == Ids(Incomplete(merged.sections))
        eligible == blocked = {} /\ merged.stale = {} /\ missing = {}
    IN  [eligible |-> eligible, reasons |-> ~eligible, stale |-> merged.stale,
         blocked |-> blocked, missing |-> missing]

\* collect, once everything has arrived: the parts, merged and judged, and
\* what the analysts and the judgement of the market are given of them.
Collected(req, results, finished) ==
    LET observed == IF req.cutoff = None THEN finished ELSE req.cutoff
        macro == MacroRestricted(Together({results["macro"], results["ecos"]}), observed)
        filings == CompanyRestricted(results["company"], observed)
        cutoff == BundleCutoff(req, finished, macro, filings)
        company == CompanyPart(filings, observed)
        merged == Merged({PricePart(req.snapshot, cutoff), macro, company,
                          ValuationPart(company), Nothing({"independent.news"})}, cutoff)
        missing == MissingSections(req.market, merged.sections)
        quality == Quality(merged, missing)
        told(ids) == UNION {s.facts : s \in {x \in merged.sections : x.id \in ids}}
    IN  [session |-> req.snapshot.observed, cutoff |-> cutoff, observed |-> observed,
         sources |-> merged.sources, facts |-> merged.facts, sections |-> merged.sections,
         quality |-> quality,
         evidence |-> Ids(merged.facts) \ quality.stale,
         analysts |-> told(CommonSections \cup {"macro.kr.ecos", "company.fundamentals",
                                                "company.valuation"})]

-----------------------------------------------------------------------------
Init ==
    /\ now = Start /\ setBacks = 0
    /\ cache = [s \in Shared |-> None]
    /\ holder = [s \in Shared |-> None]
    /\ task = [r \in Requests |-> [p \in Parts |-> Idle]]
    /\ request = [r \in Requests |-> None]
    /\ outcome = [r \in Requests |-> "open"]

\* ResearchPipeline.collect: a snapshot of the future is refused; the tasks
\* start together.  The company's sources are asked for facts up to the
\* cutoff, which is the time of the request unless one is given.
\* The market overview asks for the macro context alone, with no snapshot.
OverviewOnly(wish) == wish.snapshot = None

\* The price was fetched before; the clock may have been set back since.
HasBeen(time) == time <= MaxTime /\ time <= now + setBacks

Begin(r, wish) ==
    /\ outcome[r] = "open" /\ request[r] = None
    /\ IF OverviewOnly(wish) THEN TRUE ELSE HasBeen(wish.snapshot.fetched)
    /\ IF ~OverviewOnly(wish) /\ wish.snapshot.observed > (IF wish.cutoff = None THEN now ELSE wish.cutoff)
       THEN /\ outcome' = [outcome EXCEPT ![r] = "refused"]
            /\ UNCHANGED <<task, request>>
       ELSE /\ request' = [request EXCEPT ![r] =
                   [at |-> now, market |-> wish.market, cutoff |-> wish.cutoff,
                    snapshot |-> wish.snapshot]]
            /\ task' = [task EXCEPT ![r] = [p \in Parts |->
                    CASE p = "macro" -> Task("looking", None, None)
                      [] p = "ecos" /\ wish.market = "kr" -> Task("looking", None, None)
                      [] p = "company" /\ ~OverviewOnly(wish) -> Task("fetching", now, None)
                      [] OTHER -> Idle]]
            /\ UNCHANGED outcome
    /\ UNCHANGED <<now, setBacks, cache, holder>>

\* _valid_macro_cache, _valid_ecos_cache: neither too old nor of the future.
Valid(s) == /\ cache[s] # None
            /\ 0 <= now - cache[s].at /\ now - cache[s].at < Ttl

Set(r, p, t) == task' = [task EXCEPT ![r][p] = t]
Waiting(s) == {r \in Requests : task[r][s].state = "waiting"}
Rest == UNCHANGED <<now, setBacks, request, outcome>>

\* The first look at the cache; the lock is taken at once if it is free and
\* nobody waits for it.
Look(r, s) ==
    /\ task[r][s].state = "looking"
    /\ CASE Valid(s) -> /\ Set(r, s, Task("done", None, cache[s].delivered))
                        /\ UNCHANGED holder
         [] ~Valid(s) /\ holder[s] = None /\ Waiting(s) = {} ->
               /\ Set(r, s, Task("fetching", now, None))
               /\ holder' = [holder EXCEPT ![s] = r]
         [] OTHER -> Set(r, s, Task("waiting", None, None)) /\ UNCHANGED holder
    /\ UNCHANGED cache /\ Rest

\* The lock is obtained after a wait: the cache is looked at again, and the
\* source is asked only if nobody has filled it in the meantime.
Enter_Unchecked(r, s) ==
    /\ task[r][s].state = "waiting" /\ holder[s] = None
    /\ Set(r, s, Task("fetching", now, None))
    /\ holder' = [holder EXCEPT ![s] = r]
    /\ UNCHANGED cache /\ Rest
Enter(r, s) ==
    /\ task[r][s].state = "waiting" /\ holder[s] = None
    /\ IF Valid(s)
       THEN Set(r, s, Task("done", None, cache[s].delivered)) /\ UNCHANGED holder
       ELSE /\ Set(r, s, Task("fetching", now, None))
            /\ holder' = [holder EXCEPT ![s] = r]
    /\ UNCHANGED cache /\ Rest

\* The source has answered, or its fetch failed; either way the result is
\* cached and the lock is released.
Store(r, s, answer) ==
    LET delivered == [answer |-> answer, at |-> task[r][s].at] IN
    /\ task[r][s].state = "fetching"
    /\ Set(r, s, Task("done", None, delivered))
    /\ cache' = [cache EXCEPT ![s] = [at |-> now, delivered |-> delivered]]
    /\ holder' = [holder EXCEPT ![s] = None]
    /\ Rest
MacroArrives(r) == \E feed \in MacroFeeds : Store(r, "macro", feed)
EcosArrives(r) == \E feed \in EcosFeeds : Store(r, "ecos", feed)
SourceFails(r, s) == Store(r, s, None)

\* The company's sources answer, or fail.
CompanyDone(r, answer) ==
    /\ task[r]["company"].state = "fetching"
    /\ Set(r, "company", Task("done", None, [answer |-> answer, at |-> task[r]["company"].at]))
    /\ UNCHANGED <<cache, holder>> /\ Rest
CompanyArrives(r) ==
    \E filings \in Filings[r] :
        CompanyDone(r, {f \in filings : f.published <= task[r]["company"].at})
CompanyFails(r) == CompanyDone(r, None)

\* Everything has arrived: the bundle is built and returned.
Ready(r) == /\ request[r] # None
            /\ \A p \in Parts : task[r][p].state \in {"idle", "done"}
Results(r) == [p \in Parts |-> IF task[r][p].state = "idle" THEN Nothing({})
                               ELSE Fetched(p, task[r][p].delivered, request[r])]
Bundle(r) == Collected(request[r], Results(r), now)
Ended(r, how) ==
    /\ outcome' = [outcome EXCEPT ![r] = how]
    /\ request' = [request EXCEPT ![r] = None]
    /\ task' = [task EXCEPT ![r] = [p \in Parts |-> Idle]]
    /\ UNCHANGED <<now, setBacks, cache>>
Return(r) == Ready(r) /\ Ended(r, "returned") /\ UNCHANGED holder

\* The analysis that asked is cancelled: its tasks end, a lock it holds is
\* released and nothing is cached.
Cancel_KeepingLock(r) ==
    /\ request[r] # None
    /\ Ended(r, "cancelled")
    /\ UNCHANGED holder
Cancel(r) ==
    /\ request[r] # None
    /\ Ended(r, "cancelled")
    /\ holder' = [s \in Shared |-> IF holder[s] = r THEN None ELSE holder[s]]

Tick == /\ now < MaxTime
        /\ now' = now + 1
        /\ UNCHANGED <<setBacks, cache, holder, task, request, outcome>>
SetBack == /\ setBacks < MaxSetBacks /\ now > Start
           /\ now' = now - 1 /\ setBacks' = setBacks + 1
           /\ UNCHANGED <<cache, holder, task, request, outcome>>

Asks(r) == \E w \in Wishes[r] : Begin(r, w)
Serve(r) == \/ \E s \in Shared : Look(r, s) \/ Enter(r, s) \/ SourceFails(r, s)
            \/ MacroArrives(r) \/ EcosArrives(r)
            \/ CompanyArrives(r) \/ CompanyFails(r) \/ Return(r)
Next == \/ \E r \in Requests : Asks(r) \/ Serve(r) \/ Cancel(r)
        \/ Tick \/ SetBack

Spec == Init /\ [][Next]_vars

\* The event loop runs every task that can run and every request to a
\* source has a timeout, so each is answered or fails.
FairSpec == Spec /\ \A r \in Requests : WF_vars(Serve(r))

-----------------------------------------------------------------------------
\* The bundles that can be returned now.
Bundles == {r \in Requests : Ready(r) /\ ~OverviewOnly(request[r])}

\* A source is asked by one request at a time, and never while the cache
\* still holds an answer that may be used: those who waited share it.
NoNeedlessFetch ==
    [][\A r \in Requests, s \in Shared :
         (task[r][s].state # "fetching" /\ task'[r][s].state = "fetching")
         => /\ ~Valid(s)
            /\ \A q \in Requests : task[q][s].state # "fetching"]_vars

\* Whatever the sources delivered and however the clock went, collect never
\* stumbles over its own bundle: the contract accepts what was merged from
\* results of different ages.
BundlesAreAccepted == \A r \in Bundles : BundleAccepted(Bundle(r))

\* No fact that was observed or published after the observation cutoff
\* reaches the analysts of macro and company facts.
NoHindsight ==
    \A r \in Bundles : LET b == Bundle(r) IN
        \A f \in b.facts : f.id \in b.analysts
            => f.observed <= b.observed /\ f.published <= b.observed

\* Evidence that was delivered and is not used is never lost silently: the
\* section it was for is reported as blocked, and so is a section with
\* facts too old to count, which the judgement of the market never sees.
LostEvidenceIsReported ==
    \A r \in Bundles : LET b == Bundle(r) IN
        /\ \A p \in Parts : task[r][p].state = "done" =>
              \A s \in Results(r)[p].sections :
                 (\E i \in s.facts : i \notin b.evidence) => s.id \in b.quality.blocked
        /\ \A f \in b.facts : (f.source = "company.fundamentals"
                               /\ b.observed - f.observed > FundamentalMaxAge)
              => /\ f.id \notin b.evidence
                 /\ "company.fundamentals" \in b.quality.blocked

\* Every request gets its bundle, even when every source fails, unless it
\* is cancelled or refused.
RequestsEnd == \A r \in Requests : request[r] # None ~> outcome[r] # "open"
=============================================================================
