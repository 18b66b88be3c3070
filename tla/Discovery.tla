----------------------------- MODULE Discovery -----------------------------
(***************************************************************************)
(* A scan of the whole market for candidates: the job ledger of            *)
(* services/discovery_jobs.py, the funnel of                               *)
(* services/full_market_discovery.py, and the two disk caches and the SEC  *)
(* archives it reads (universe_catalog.py, bulk_fundamentals.py).          *)
(*                                                                         *)
(* Nothing limits the scans that run at once, and all scans of a market    *)
(* share its files.  `job' is the ledger, `scan' the local variables of    *)
(* the coroutine that carries a job, and the files outlive both.  A file   *)
(* opened under a temporary name is an inode, called after the scan that   *)
(* created it: a scan that opens the same name later truncates that inode  *)
(* and both write into it.                                                 *)
(*                                                                         *)
(* What happens between two suspensions of a scan is one action, or a few  *)
(* where the code reports its progress in between.                         *)
(***************************************************************************)
EXTENDS Integers, FiniteSets, FiniteSetsExt

CONSTANTS
    Scans,       \* the jobs that may be created
    Starts,      \* how a server may begin: the requests that will come (scan,
                 \* market, force_refresh) and the fundamentals it has cached
    Tickers,     \* the listed shares
    CikOf,       \* the number of a ticker's company at the SEC, one for all its classes of
                 \* shares
    Last,        \* the last ticker of a set in the order of a listing
    Universes,   \* the member sets that a listing may have
    Filers,      \* numbers of the companies whose report is in the SEC archive
    Chunks,      \* an archive arrives in chunks 1 .. Chunks, its directory last
    ChunkOf,     \* the chunk with the report of a company's number
    Excluded,    \* securities of a listing that are not common shares
    MaxYears,    \* complete annual bundles that DART may list
    PriceLimit,  \* price requests of one scan (_PRICE_CANDIDATE_LIMIT)
    Limit,       \* candidates asked for
    None

Markets  == {"US", "KR"}
Archives == {"facts", "submissions"}

\* What the caches keep: the listing of a market, and its fundamentals.
Listing == [members : Universes, ciks : BOOLEAN]
Batch   == [items : SUBSET Tickers, requested : SUBSET Tickers]

\* The shares of a ticker's company among the members, and the one listed last.
Classes(t, members) == {u \in members : CikOf[u] = CikOf[t]}
Holder(t, members)  == Last[Classes(t, members)]

Numbers(members) == {CikOf[t] : t \in members}

\* Fundamentals of the SEC hold every filer that they were asked for, under the last of
\* its tickers.
Whole(b) ==
    /\ Numbers(b.items) = Numbers(b.requested) \cap Filers
    /\ \A t \in b.items : t = Holder(t, b.requested)

\* What a scan found.
Outcome == [members : SUBSET Tickers, items : SUBSET Tickers, short : Int,
            candidates : SUBSET Tickers]

\* A server begins with what an earlier one left in its caches.
ASSUME DiscoveryAssumption ==
    /\ IsFiniteSet(Tickers) /\ CikOf \in [Tickers -> Nat]
    /\ \A T \in (SUBSET Tickers) \ {{}} : Last[T] \in T
    /\ Filers \subseteq Nat /\ Universes \subseteq (SUBSET Tickers) \ {{}}
    /\ \A s \in Starts :
          /\ s.requests \subseteq Scans \X Markets \X BOOLEAN
          /\ s.batch \in [Markets -> Batch \cup {None}]
          /\ s.batch["US"] # None => Whole(s.batch["US"])
    /\ Chunks \in Nat \ {0} /\ ChunkOf \in [Filers -> 1 .. Chunks]
    /\ Excluded \in Nat /\ MaxYears \in Nat \ {0} /\ PriceLimit \in Nat \ {0} /\ Limit \in Nat \ {0}
    /\ None \notin Scans /\ None \notin Listing /\ None \notin Batch /\ None \notin Outcome

VARIABLES
    job,       \* the ledger: what GET /api/discoveries/scans/{id} shows
    scan,      \* the coroutine of a job
    universe,  \* per market, the unexpired universe cache
    batch,     \* per market, the unexpired cache of fundamentals
    temp,      \* per archive, the inode under the temporary name
    archive,   \* per archive, the inode under the final name
    content,   \* per archive and inode, the chunks written
    up,        \* whether the server is serving
    session    \* the requests that come, fixed at the start

files == <<temp, archive, content>>
disk  == <<universe, batch, files>>
vars  == <<job, scan, disk, up, session>>

Stages   == <<"universe", "fundamentals", "liquidity", "sector", "ranking">>
StageSet == {Stages[n] : n \in 1 .. 5}

Ended == {"complete", "partial", "failed"}

Untouched == [total |-> 0, processed |-> 0, passed |-> 0, failed |-> 0, cached |-> 0,
              begun |-> FALSE, done |-> FALSE]

NoJob  == [status |-> "none", stage |-> [s \in StageSet |-> Untouched], result |-> None]
NoScan == [at |-> "none"]

\* The local variables of a scan, by the place where it is.
Idle       == [at : {"none"}]
Unlisted   == [at : {"created", "listing"}, market : Markets, force : BOOLEAN]
Listed     == [at : {"listed"}, market : Markets, force : BOOLEAN, members : Universes,
               ciks : BOOLEAN, hit : BOOLEAN]
Financials == [at : {"financials"}, market : Markets, force : BOOLEAN, members : Universes,
               ciks : BOOLEAN]
Requesting == [at : {"requesting"}, file : Archives, members : Universes, ciks : BOOLEAN]
Streaming  == [at : {"streaming"}, file : Archives, inode : Scans, chunk : 1 .. Chunks + 1,
               members : Universes, ciks : BOOLEAN]
Reading    == [at : {"industries", "parsing"}, members : Universes, ciks : BOOLEAN]
Searching  == [at : {"dart"}, step : {"main", "list"}, years : {0}, errors : {FALSE},
               members : Universes]
Bundles    == [at : {"dart"}, step : {"BS", "PL", "CF", "year", "parse"},
               years : 1 .. MaxYears, errors : BOOLEAN, members : Universes]
Gated      == [at : {"items"}, members : Universes, items : SUBSET Tickers, hit : BOOLEAN]
Priced     == [at : {"prices"}, members : Universes, items : SUBSET Tickers, short : Int,
               inputs : SUBSET Tickers, pending : SUBSET Tickers, good : SUBSET Tickers,
               bad : Nat, dry : Nat]
Coroutine  == Idle \cup Unlisted \cup Listed \cup Financials \cup Requesting \cup Streaming
              \cup Reading \cup Searching \cup Bundles \cup Gated \cup Priced

Counts == [total : Nat, processed : Nat, passed : Nat, failed : Nat, cached : Nat,
           begun : BOOLEAN, done : BOOLEAN]
Job    == [status : {"none", "queued", "running"} \cup Ended, stage : [StageSet -> Counts],
           result : Outcome \cup {None}]

TypeOK ==
    /\ job \in [Scans -> Job] /\ scan \in [Scans -> Coroutine]
    /\ universe \in [Markets -> Listing \cup {None}] /\ batch \in [Markets -> Batch \cup {None}]
    /\ temp \in [Archives -> Scans \cup {None}] /\ archive \in [Archives -> Scans \cup {None}]
    /\ content \in [Archives -> [Scans -> SUBSET (1 .. Chunks)]]
    /\ up \in BOOLEAN /\ session \subseteq Scans \X Markets \X BOOLEAN

Least(m, n)   == IF m < n THEN m ELSE n
Largest(m, n) == IF m < n THEN n ELSE m
Size(S)       == Cardinality(S)

----------------------------------------------------------------------------
(* The ledger *)

\* The counts that a stage accepts.
Valid(c) ==
    /\ \A f \in DOMAIN c : c[f] >= 0
    /\ c.processed <= c.total
    /\ c.passed + c.failed <= c.processed
    /\ c.cached <= c.processed

\* _apply_progress: the stage takes the reported counts.
Recorded(j, s, c, completed) ==
    LET done == completed \/ (c.total > 0 /\ c.processed = c.total)
    IN  [job EXCEPT ![j].status = "running",
                    ![j].stage[s] = [total |-> c.total, processed |-> c.processed,
                                     passed |-> c.passed, failed |-> c.failed,
                                     cached |-> c.cached, begun |-> TRUE, done |-> done]]

Count(total, processed, passed, failed, cached) ==
    [total |-> total, processed |-> processed, passed |-> passed, failed |-> failed,
     cached |-> cached]

\* The runner raised: _mark_failed, and the task is over.
Fail(j) ==
    /\ job' = [job EXCEPT ![j].status = "failed"]
    /\ scan' = [scan EXCEPT ![j] = NoScan]

\* A report; a refused one is an exception in the runner.
Report(j, s, c, completed, next) ==
    IF Valid(c)
    THEN /\ job' = Recorded(j, s, c, completed)
         /\ scan' = [scan EXCEPT ![j] = next]
    ELSE Fail(j)

\* POST /api/discoveries/scans: the job is stored, its task has not begun.
Create(j, m, force) ==
    /\ up /\ job[j].status = "none" /\ <<j, m, force>> \in session
    /\ job' = [job EXCEPT ![j].status = "queued"]
    /\ scan' = [scan EXCEPT ![j] = [at |-> "created", market |-> m, force |-> force]]
    /\ UNCHANGED <<disk, up>>

----------------------------------------------------------------------------
(* The listing of the market: load_snapshot *)

At(j, place) == up /\ scan[j].at = place

\* _run begins the job; a fresh cache answers at once.
Begin(j) ==
    /\ At(j, "created")
    /\ LET m == scan[j].market
       IN  /\ job' = [job EXCEPT ![j].status = "running"]
           /\ scan' = [scan EXCEPT ![j] =
                  IF ~scan[j].force /\ universe[m] # None
                  THEN [at |-> "listed", market |-> m, force |-> FALSE,
                        members |-> universe[m].members, ciks |-> universe[m].ciks,
                        hit |-> TRUE]
                  ELSE [@ EXCEPT !.at = "listing"]]
    /\ UNCHANGED <<disk, up>>

\* The sources answered and the cache is replaced.  The SEC's table of CIKs
\* is optional: without it the US members have none.
ListingArrives(j) ==
    /\ At(j, "listing")
    /\ \E u \in Universes, c \in BOOLEAN :
          /\ scan[j].market = "KR" => c
          /\ universe' = [universe EXCEPT ![scan[j].market] = [members |-> u, ciks |-> c]]
          /\ scan' = [scan EXCEPT ![j] =
                 [at |-> "listed", market |-> @.market, force |-> @.force,
                  members |-> u, ciks |-> c, hit |-> FALSE]]
    /\ UNCHANGED <<job, batch, files, up>>

\* A required source failed, or the cache could not be written: an expired
\* cache is no substitute.
ListingFails(j) ==
    /\ At(j, "listing")
    /\ Fail(j)
    /\ UNCHANGED <<disk, up>>

\* The listing is reported, with the securities it excluded.
ReportListing(j) ==
    /\ At(j, "listed")
    /\ LET k == scan[j]
           n == Size(k.members)
       IN  Report(j, "universe",
                  Count(n + Excluded, n + Excluded, n, Excluded, IF k.hit THEN n ELSE 0), TRUE,
                  [at |-> "financials", market |-> k.market, force |-> k.force,
                   members |-> k.members, ciks |-> k.ciks])
    /\ UNCHANGED <<disk, up>>

----------------------------------------------------------------------------
(* The fundamentals: fetch_many *)

\* What the later stages need of a scan whose fundamentals are there.
WithItems(k, items, hit) ==
    [at |-> "items", members |-> k.members, items |-> items, hit |-> hit]

\* A cached batch is taken whatever universe it was made for; otherwise the
\* market's own source is asked.
BeginFundamentals(j) ==
    /\ At(j, "financials")
    /\ LET k == scan[j]
           n == Size(k.members)
           b == batch[k.market]
           found == Size(b.items)
           asked == Size(b.requested)
       IN  CASE ~k.force /\ b # None ->
                  Report(j, "fundamentals",
                         IF k.market = "US"
                         THEN Count(Largest(asked, n), Least(found, Largest(asked, n)),
                                    0, 0, found)
                         ELSE Count(Largest(asked, n), asked, 0, 0, asked),
                         FALSE, WithItems(k, b.items, TRUE))
             [] (k.force \/ b = None) /\ k.market = "US" ->
                  Report(j, "fundamentals", Count(n, 0, 0, 0, 0), FALSE,
                         [at |-> "requesting", file |-> "facts", members |-> k.members,
                          ciks |-> k.ciks])
             [] (k.force \/ b = None) /\ k.market = "KR" ->
                  Report(j, "fundamentals", Count(n, 0, 0, 0, 0), FALSE,
                         [at |-> "dart", step |-> "main", years |-> 0, errors |-> FALSE,
                          members |-> k.members])
    /\ UNCHANGED <<disk, up>>

----------------------------------------------------------------------------
(* The SEC archives: _download_archive, for the facts and then for the     *)
(* submissions.  The temporary name is the same for every scan.            *)

\* The scan goes on to its next file, or to reading them.
NextFile(k) ==
    IF k.file = "facts"
    THEN [at |-> "requesting", file |-> "submissions", members |-> k.members, ciks |-> k.ciks]
    ELSE [at |-> "industries", members |-> k.members, ciks |-> k.ciks]

\* The response began: the temporary file is opened, and emptied if it exists.
Open(j) ==
    /\ At(j, "requesting")
    /\ LET f == scan[j].file
           inode == IF temp[f] = None THEN j ELSE temp[f]
       IN  /\ temp' = [temp EXCEPT ![f] = inode]
           /\ content' = [content EXCEPT ![f][inode] = {}]
           /\ scan' = [scan EXCEPT ![j] =
                  [at |-> "streaming", file |-> f, inode |-> inode, chunk |-> 1,
                   members |-> @.members, ciks |-> @.ciks]]
    /\ UNCHANGED <<job, universe, batch, archive, up>>

WriteChunk(j) ==
    /\ At(j, "streaming") /\ scan[j].chunk <= Chunks
    /\ content' = [content EXCEPT ![scan[j].file][scan[j].inode] = @ \cup {scan[j].chunk}]
    /\ scan' = [scan EXCEPT ![j].chunk = @ + 1]
    /\ UNCHANGED <<job, universe, batch, temp, archive, up>>

\* The download failed and its temporary file, or the one of another scan,
\* is removed.  The submissions are optional.
GiveUpDownload(j) ==
    LET k == scan[j]
    IN  /\ temp' = [temp EXCEPT ![k.file] = None]
        /\ IF k.file = "facts"
           THEN Fail(j)
           ELSE /\ scan' = [scan EXCEPT ![j] =
                       [at |-> "parsing", members |-> k.members, ciks |-> k.ciks]]
                /\ UNCHANGED job
        /\ UNCHANGED <<universe, batch, archive, content, up>>

Streamed(j) == At(j, "streaming") /\ scan[j].chunk > Chunks

\* The directory at the end of the file under the temporary name is there.
IsZip(f) == temp[f] # None /\ Chunks \in content[f][temp[f]]

Publish(j) ==
    /\ Streamed(j) /\ IsZip(scan[j].file)
    /\ LET f == scan[j].file
       IN  /\ archive' = [archive EXCEPT ![f] = temp[f]]
           /\ temp' = [temp EXCEPT ![f] = None]
           /\ scan' = [scan EXCEPT ![j] = NextFile(@)]
    /\ UNCHANGED <<job, universe, batch, content, up>>

\* Variant: the download is tried again, without end.
DownloadFails_Retry(j) ==
    /\ \/ At(j, "requesting") \/ At(j, "streaming")
    /\ Streamed(j) => ~IsZip(scan[j].file)
    /\ scan' = [scan EXCEPT ![j] = [at |-> "requesting", file |-> @.file,
                                    members |-> @.members, ciks |-> @.ciks]]
    /\ UNCHANGED <<job, disk, up>>

\* The request, the stream or the check failed.
DownloadFails(j) ==
    /\ \/ At(j, "requesting") \/ At(j, "streaming")
    /\ Streamed(j) => ~IsZip(scan[j].file)
    /\ GiveUpDownload(j)

\* Where a file that another scan holds open can neither be renamed nor removed: the
\* error of the removal, after a failed download or a refused renaming, is not caught.
RemovalRefused(j) ==
    /\ At(j, "requesting") \/ At(j, "streaming")
    /\ \E i \in Scans \ {j} :
          /\ scan[i].at = "streaming" /\ scan[i].file = scan[j].file
          /\ scan[i].inode = temp[scan[j].file]
    /\ Fail(j)
    /\ UNCHANGED <<disk, up>>

\* A zip is read through its directory and then report by report; a missing
\* part of it is an error of the whole file.
Readable(f, members) ==
    /\ archive[f] # None
    /\ Chunks \in content[f][archive[f]]
    /\ \A c \in Numbers(members) \cap Filers : ChunkOf[c] \in content[f][archive[f]]

\* The members that stand for a number: of those with the same one the last, as the
\* others are overwritten.  The numbers are those of the listing.
Mapped(k) == IF k.ciks THEN {Holder(t, k.members) : t \in k.members} ELSE {}

\* _parse_sec_industries runs in a thread, after the check for CIKs.
ParseIndustries(j) ==
    /\ At(j, "industries")
    /\ IF Mapped(scan[j]) # {} /\ Readable("submissions", Mapped(scan[j]))
       THEN scan' = [scan EXCEPT ![j].at = "parsing"] /\ UNCHANGED job
       ELSE Fail(j)
    /\ UNCHANGED <<disk, up>>

\* Variant: what a torn archive lacks is skipped.
ParseFacts_SkippingTorn(j) ==
    /\ At(j, "parsing")
    /\ LET k == scan[j]
           items == {t \in Mapped(k) : /\ CikOf[t] \in Filers
                                       /\ ChunkOf[CikOf[t]] \in content["facts"][archive["facts"]]}
           n == Size(k.members)
       IN  IF Mapped(k) # {}
           THEN /\ Report(j, "fundamentals", Count(n, Size(items), 0, 0, 0), FALSE,
                          WithItems(k, items, FALSE))
                /\ batch' = [batch EXCEPT !["US"] =
                       [items |-> items, requested |-> k.members]]
           ELSE Fail(j) /\ UNCHANGED batch
    /\ UNCHANGED <<universe, files, up>>

\* _parse_sec_archive in a thread, then the new cache.
ParseFacts(j) ==
    /\ At(j, "parsing")
    /\ LET k == scan[j]
           items == {t \in Mapped(k) : CikOf[t] \in Filers}
           n == Size(k.members)
       IN  IF Mapped(k) # {} /\ Readable("facts", Mapped(k))
           THEN /\ Report(j, "fundamentals", Count(n, Size(items), 0, 0, 0), FALSE,
                          WithItems(k, items, FALSE))
                /\ batch' = [batch EXCEPT !["US"] =
                       [items |-> items, requested |-> k.members]]
           ELSE Fail(j) /\ UNCHANGED batch
    /\ UNCHANGED <<universe, files, up>>

\* The cache of fundamentals cannot be written.
BatchCacheFails(j) ==
    /\ \/ At(j, "parsing")
       \/ At(j, "dart") /\ scan[j].step = "parse"
    /\ Fail(j)
    /\ UNCHANGED <<disk, up>>

----------------------------------------------------------------------------
(* The DART bundles: _fetch_bulk_archives *)

\* One more unit of work, reported against the total.
Worked(j, more, units) ==
    LET c == job[j].stage["fundamentals"]
    IN  Count(c.total + more, c.processed + units, 0, 0, 0)

Step(k, step, years, errors) == [k EXCEPT !.step = step, !.years = years, !.errors = errors]

\* The main page and the list of bundles are required.
DartMain(j) ==
    /\ At(j, "dart") /\ scan[j].step = "main"
    /\ Report(j, "fundamentals", Worked(j, 5, 1), FALSE, Step(scan[j], "list", 0, FALSE))
    /\ UNCHANGED <<disk, up>>

\* The complete annual bundles that are recent enough, newest first.
DartList(j) ==
    /\ At(j, "dart") /\ scan[j].step = "list"
    /\ \E n \in 1 .. MaxYears :
          Report(j, "fundamentals", Worked(j, 0, 1), FALSE, Step(scan[j], "BS", n, FALSE))
    /\ UNCHANGED <<disk, up>>

DartFails(j) ==
    /\ At(j, "dart") /\ scan[j].step \in {"main", "list"}
    /\ Fail(j)
    /\ UNCHANGED <<disk, up>>

After(step) == CASE step = "BS" -> "PL" [] step = "PL" -> "CF" [] step = "CF" -> "year"

\* One statement of the year; a failure condemns the year, and the other
\* statements are still asked for.
DartStatement(j) ==
    /\ At(j, "dart") /\ scan[j].step \in {"BS", "PL", "CF"}
    /\ \E ok \in BOOLEAN :
          Report(j, "fundamentals", Worked(j, 0, 1), FALSE,
                 Step(scan[j], After(scan[j].step), scan[j].years, scan[j].errors \/ ~ok))
    /\ UNCHANGED <<disk, up>>

\* A year with an error gives way to the one before it, with three more
\* downloads to come; the last one is an error of the scan.
DartYear(j) ==
    /\ At(j, "dart") /\ scan[j].step = "year"
    /\ CASE ~scan[j].errors ->
              /\ scan' = [scan EXCEPT ![j].step = "parse"]
              /\ UNCHANGED job
         [] scan[j].errors /\ scan[j].years > 1 ->
              Report(j, "fundamentals", Worked(j, 3, 0), FALSE,
                     Step(scan[j], "BS", scan[j].years - 1, FALSE))
         [] scan[j].errors /\ scan[j].years = 1 -> Fail(j)
    /\ UNCHANGED <<disk, up>>

\* The rows of the three statements, for the members they mention.
DartParse(j) ==
    /\ At(j, "dart") /\ scan[j].step = "parse"
    /\ \E items \in SUBSET scan[j].members :
          /\ Report(j, "fundamentals", Worked(j, 0, Size(scan[j].members)), FALSE,
                    WithItems(scan[j], items, FALSE))
          /\ batch' = [batch EXCEPT !["KR"] =
                 [items |-> items, requested |-> scan[j].members]]
    /\ UNCHANGED <<universe, files, up>>

----------------------------------------------------------------------------
(* The funnel: gate, prices, ranking *)

\* Every batch item is judged; `passed' goes on and `unclear' lacks data.  The
\* best of the passed are priced.  A scan with none ends after its report.
Gate(j) ==
    /\ At(j, "items")
    /\ LET k == scan[j]
           n == Size(k.members)
       IN  \E passed \in SUBSET k.items : \E unclear \in SUBSET (k.items \ passed) :
             LET c == Count(n, n, Size(passed), n - Size(passed),
                            IF k.hit THEN Size(k.items) ELSE 0)
             IN  \/ /\ Valid(c) /\ passed = {}
                    /\ job' = [Recorded(j, "fundamentals", c, TRUE) EXCEPT ![j].status = "failed"]
                    /\ scan' = [scan EXCEPT ![j] = NoScan]
                 \/ \E inputs \in kSubset(Least(PriceLimit, Size(passed)), passed) :
                       /\ Valid(c) => passed # {}
                       /\ Report(j, "fundamentals", c, TRUE,
                             [at |-> "prices", members |-> k.members, items |-> k.items,
                              short |-> Size(unclear) + n - Size(k.items),
                              inputs |-> inputs, pending |-> inputs, good |-> {},
                              bad |-> 0, dry |-> 0])
    /\ UNCHANGED <<disk, up>>

\* Variant: every company with fundamentals is priced.
Priceable_Unchecked(t, k) == TRUE

\* A company outside the universe is not priced.
Priceable(t, k) == t \in k.members

\* The price tasks end in any order: a candidate, too little traded, or no
\* usable data.
PriceArrives(j, t) ==
    /\ At(j, "prices") /\ t \in scan[j].pending
    /\ \E outcome \in {"good", "dry", "bad"} :
         /\ outcome = "bad" \/ Priceable(t, scan[j])
         /\ LET k == [scan[j] EXCEPT !.pending = @ \ {t},
                          !.good = IF outcome = "good" THEN @ \cup {t} ELSE @,
                          !.bad = IF outcome = "bad" THEN @ + 1 ELSE @,
                          !.dry = IF outcome = "dry" THEN @ + 1 ELSE @]
                n == Size(k.inputs)
            IN  Report(j, "liquidity",
                       Count(n, n - Size(k.pending), Size(k.good), k.bad, 0),
                       k.pending = {}, k)
    /\ UNCHANGED <<disk, up>>

\* No candidate is left: RuntimeError.
NothingLeft(j) ==
    /\ At(j, "prices") /\ scan[j].pending = {} /\ scan[j].good = {}
    /\ Fail(j)
    /\ UNCHANGED <<disk, up>>

\* Less than 80 % of the universe, more than 20 % of the prices, or a sector
\* is missing.
HasGaps(k, unknownSector) ==
    \/ 5 * Size(k.items) < 4 * Size(k.members)
    \/ 5 * k.bad > Size(k.inputs)
    \/ unknownSector

\* The sectors are compared, the candidates ranked and the outcome stored.
Rank(j) ==
    /\ At(j, "prices") /\ scan[j].pending = {} /\ scan[j].good # {}
    /\ LET k == scan[j]
           n == Size(k.good)
           compared == Recorded(j, "sector", Count(n, n, n, 0, 0), TRUE)[j].stage
       IN  \E chosen \in kSubset(Least(Limit, n), k.good), unknownSector \in BOOLEAN :
             /\ job' = [job EXCEPT ![j] =
                   [status |-> IF HasGaps(k, unknownSector) THEN "partial" ELSE "complete",
                    stage |-> [compared EXCEPT !["ranking"] =
                        [total |-> n, processed |-> n, passed |-> Size(chosen), failed |-> 0,
                         cached |-> 0, begun |-> TRUE, done |-> TRUE]],
                    result |-> [members |-> k.members, items |-> k.items, short |-> k.short,
                                candidates |-> chosen]]]
             /\ scan' = [scan EXCEPT ![j] = NoScan]
    /\ UNCHANGED <<disk, up>>

----------------------------------------------------------------------------
(* Time and shutdown *)

ExpireUniverse(m) ==
    /\ universe[m] # None
    /\ universe' = [universe EXCEPT ![m] = None]
    /\ UNCHANGED <<job, scan, batch, files, up>>

ExpireBatch(m) ==
    /\ batch[m] # None
    /\ batch' = [batch EXCEPT ![m] = None]
    /\ UNCHANGED <<job, scan, universe, files, up>>

\* Variant: the jobs of the cancelled tasks are left as they are.
Close_KeepingRunning ==
    /\ up /\ up' = FALSE
    /\ scan' = [j \in Scans |-> NoScan]
    /\ UNCHANGED <<job, disk>>

\* close() cancels every task and waits for it: the CancelledError marks the
\* job failed, unless its task had not begun.
Close ==
    /\ up /\ up' = FALSE
    /\ job' = [j \in Scans |->
           IF scan[j].at \in {"none", "created"} THEN job[j]
           ELSE [job[j] EXCEPT !.status = "failed"]]
    /\ scan' = [j \in Scans |-> NoScan]
    /\ UNCHANGED disk

----------------------------------------------------------------------------

Init ==
    /\ \E s \in Starts : session = s.requests /\ batch = s.batch
    /\ job = [j \in Scans |-> NoJob] /\ scan = [j \in Scans |-> NoScan]
    /\ universe = [m \in Markets |-> None]
    /\ temp = [f \in Archives |-> None] /\ archive = [f \in Archives |-> None]
    /\ content = [f \in Archives |-> [j \in Scans |-> {}]]
    /\ up = TRUE

\* The steps of a scan that the event loop, the network with its timeouts and
\* the threads bring about.
Work(j) ==
    \/ Begin(j) \/ ListingArrives(j) \/ ListingFails(j)
    \/ ReportListing(j)
    \/ BeginFundamentals(j)
    \/ Open(j) \/ WriteChunk(j) \/ Publish(j) \/ DownloadFails(j) \/ RemovalRefused(j)
    \/ ParseIndustries(j) \/ ParseFacts(j) \/ BatchCacheFails(j)
    \/ DartMain(j) \/ DartList(j) \/ DartFails(j)
    \/ DartStatement(j) \/ DartYear(j) \/ DartParse(j)
    \/ Gate(j) \/ (\E t \in Tickers : PriceArrives(j, t)) \/ NothingLeft(j) \/ Rank(j)

Next ==
    /\ UNCHANGED session
    /\ \/ \E j \in Scans :
             \/ \E m \in Markets, force \in BOOLEAN : Create(j, m, force)
             \/ Work(j)
       \/ \E m \in Markets : ExpireUniverse(m) \/ ExpireBatch(m)
       \/ Close

Spec == Init /\ [][Next]_vars /\ \A j \in Scans : WF_<<job, scan, disk>>(Work(j))

----------------------------------------------------------------------------
(* Properties *)

Carried(j) == scan[j].at # "none"

\* The ledger and the tasks tell the same story: a job that has not ended is
\* carried by a task while the server serves, a job that has ended is not, and
\* only a success has a result.  A job whose task was cancelled before its
\* first step stays queued.
LedgerMatchesTasks ==
    \A j \in Scans :
        /\ job[j].status = "running" => Carried(j)
        /\ job[j].status = "queued" => Carried(j) \/ ~up
        /\ Carried(j) => job[j].status \in {"queued", "running"}
        /\ job[j].result # None <=> job[j].status \in {"complete", "partial"}

\* Two scans may tear each other's archive, but no scan makes a cache of it
\* that silently lacks a company: it fails instead.  Of a company with several classes of
\* shares the last one listed has the fundamentals.
CachedBatchIsWhole ==
    batch["US"] # None => Whole(batch["US"])

\* The funnel as the page shows it: no stage begins before the one before it
\* is done, nor with more than it let pass, and a success went through all.  What
\* comes out are members of the scanned universe with fundamentals, also when the
\* fundamentals were cached for another universe.
FunnelNarrows ==
    \A j \in Scans :
        /\ \A n \in 2 .. 5 :
              LET before == job[j].stage[Stages[n - 1]]
                  stage  == job[j].stage[Stages[n]]
              IN  stage.begun => before.done /\ (n >= 3 => stage.total <= before.passed)
        /\ job[j].result # None =>
              /\ \A s \in StageSet : job[j].stage[s].done
              /\ job[j].result.candidates \subseteq job[j].result.members \cap job[j].result.items
              /\ Size(job[j].result.items) <= Size(job[j].result.members)

\* Every scan that was accepted ends, or the server stops first.
ScansEnd == \A j \in Scans : job[j].status = "queued" ~> job[j].status \in Ended \/ ~up

\* A company without fundamentals shows: it is counted as a gap, or the
\* outcome is only partial.
GapsAreShown ==
    \A j \in Scans : job[j].result # None =>
        LET r == job[j].result
        IN  r.members \subseteq r.items \/ r.short > 0 \/ job[j].status = "partial"
=============================================================================
