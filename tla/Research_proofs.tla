--------------------------- MODULE Research_proofs ---------------------------
(***************************************************************************)
(* Theorems about Research, for every set of requests, all answers of the  *)
(* sources and every course of the clock: whoever fetches macro data holds *)
(* the lock of its cache, so no fetch is needless.                         *)
(***************************************************************************)
EXTENDS Research, WellFoundedInduction, TLAPS

\* The variables that locking is about are functions as Init makes them.
ShapeInv ==
    /\ DOMAIN task = Requests /\ DOMAIN holder = Shared
    /\ \A r \in Requests : DOMAIN task[r] = Parts

\* Whoever fetches holds the lock.
LockInv ==
    \A r \in Requests, s \in Shared : task[r][s].state = "fetching" => holder[s] = r

IInv == ShapeInv /\ LockInv

----------------------------------------------------------------------------
\* A step of one task that does not begin a fetch under a lock.
LEMMA QuietStep ==
    ASSUME NEW r \in Requests, NEW p \in Parts, NEW t, IInv, Set(r, p, t),
           p \in Shared => t.state # "fetching", holder' = holder
    PROVE  IInv'
<1>1. \A q \in Requests, o \in Parts :
          task'[q][o] = IF q = r /\ o = p THEN t ELSE task[q][o]
  BY DEF IInv, ShapeInv, Set
<1>2. ShapeInv'
  BY DEF IInv, ShapeInv, Set
<1>3. LockInv'
  BY <1>1 DEF IInv, LockInv, Parts
<1> QED BY <1>2, <1>3 DEF IInv

\* A free lock is taken, to fetch.
LEMMA AcquireStep ==
    ASSUME NEW r \in Requests, NEW s \in Shared, NEW t, IInv, Set(r, s, t),
           holder[s] = None, holder' = [holder EXCEPT ![s] = r]
    PROVE  IInv'
<1>1. \A q \in Requests, o \in Parts :
          task'[q][o] = IF q = r /\ o = s THEN t ELSE task[q][o]
  BY DEF IInv, ShapeInv, Set, Parts
<1>2. \A o \in Shared : holder'[o] = IF o = s THEN r ELSE holder[o]
  BY DEF IInv, ShapeInv
<1>3. ShapeInv'
  BY DEF IInv, ShapeInv, Set
<1>4. LockInv'
  BY <1>1, <1>2, ResearchAssumption DEF IInv, LockInv, Parts
<1> QED BY <1>3, <1>4 DEF IInv

\* The answer, or the failure, of a fetch is cached and its lock released.
LEMMA StoreStep ==
    ASSUME NEW r \in Requests, NEW s \in Shared, NEW answer, IInv, Store(r, s, answer)
    PROVE  IInv'
<1> DEFINE t == Task("done", None, [answer |-> answer, at |-> task[r][s].at])
<1>1. /\ task[r][s].state = "fetching"
      /\ task' = [task EXCEPT ![r][s] = t]
      /\ holder' = [holder EXCEPT ![s] = None]
  BY DEF Store, Set, Rest
<1>2. t.state = "done"
  BY DEF Task
<1> HIDE DEF t
<1>3. \A q \in Requests, o \in Parts :
          task'[q][o] = IF q = r /\ o = s THEN t ELSE task[q][o]
  BY <1>1 DEF IInv, ShapeInv, Parts
<1>4. \A o \in Shared : holder'[o] = IF o = s THEN None ELSE holder[o]
  BY <1>1 DEF IInv, ShapeInv
<1>5. ShapeInv'
  BY <1>1 DEF IInv, ShapeInv
<1>6. LockInv'
  BY <1>1, <1>2, <1>3, <1>4, ResearchAssumption DEF IInv, LockInv, Parts
<1> QED BY <1>5, <1>6 DEF IInv

\* A request ends; the locks it holds, if any, are released.
LEMMA EndStep ==
    ASSUME NEW r \in Requests, NEW how, IInv, Ended(r, how),
           \A s \in Shared : holder[s] # r => holder'[s] = holder[s],
           DOMAIN holder' = Shared
    PROVE  IInv'
<1>1. task' = [task EXCEPT ![r] = [p \in Parts |-> Idle]]
  BY DEF Ended
<1>2. Idle.state = "idle"
  BY DEF Idle, Task
<1>3. \A q \in Requests, p \in Parts :
          task'[q][p] = IF q = r THEN Idle ELSE task[q][p]
  BY <1>1 DEF IInv, ShapeInv
<1>4. ShapeInv'
  BY <1>1 DEF IInv, ShapeInv
<1>5. LockInv'
  BY <1>2, <1>3, ResearchAssumption DEF IInv, LockInv, Parts
<1> QED BY <1>4, <1>5 DEF IInv

----------------------------------------------------------------------------
LEMMA InitInv == Init => IInv
<1> SUFFICES ASSUME Init PROVE IInv
  OBVIOUS
<1>1. Idle.state = "idle"
  BY DEF Idle, Task
<1>2. \A r \in Requests, p \in Parts : task[r][p].state = "idle"
  BY <1>1 DEF Init
<1>3. ShapeInv
  BY DEF Init, ShapeInv
<1>4. LockInv
  BY <1>2 DEF LockInv, Parts
<1> QED BY <1>3, <1>4 DEF IInv

\* A request begins: its tasks are all new, and none of them fetches macro data yet.
LEMMA BeginStep ==
    ASSUME NEW r \in Requests, NEW wish, IInv, Begin(r, wish)
    PROVE  IInv'
<1> DEFINE new == [p \in Parts |->
                     CASE p = "macro" -> Task("looking", None, None)
                       [] p = "ecos" /\ wish.market = "kr" -> Task("looking", None, None)
                       [] p = "company" /\ ~OverviewOnly(wish) -> Task("fetching", now, None)
                       [] OTHER -> Idle]
<1>1. holder' = holder /\ (task' = task \/ task' = [task EXCEPT ![r] = new])
  BY DEF Begin
<1>2. CASE task' = task
  BY <1>1, <1>2 DEF IInv, ShapeInv, LockInv
<1>3. CASE task' = [task EXCEPT ![r] = new]
  <2>1. DOMAIN new = Parts
    OBVIOUS
  <2>2. \A s \in Shared : new[s].state # "fetching"
    BY DEF Shared, Parts, Task, Idle
  <2> HIDE DEF new
  <2>3. ShapeInv'
    BY <1>1, <1>3, <2>1 DEF IInv, ShapeInv
  <2>4. LockInv'
    BY <1>1, <1>3, <2>2 DEF IInv, ShapeInv, LockInv
  <2> QED BY <2>3, <2>4 DEF IInv
<1> QED BY <1>1, <1>2, <1>3

\* The first look at a cache: it is used, its lock is taken, or the task waits.
LEMMA LookStep ==
    ASSUME NEW r \in Requests, NEW s \in Shared, IInv, Look(r, s)
    PROVE  IInv'
<1>1. CASE Valid(s)
  <2>1. Set(r, s, Task("done", None, cache[s].delivered)) /\ holder' = holder
    BY <1>1 DEF Look
  <2> QED BY <2>1, QuietStep DEF Parts, Task
<1>2. CASE ~Valid(s) /\ holder[s] = None /\ Waiting(s) = {}
  <2>1. Set(r, s, Task("fetching", now, None)) /\ holder' = [holder EXCEPT ![s] = r]
    BY <1>2 DEF Look
  <2> QED BY <1>2, <2>1, AcquireStep
<1>3. CASE ~Valid(s) /\ ~(holder[s] = None /\ Waiting(s) = {})
  <2>1. Set(r, s, Task("waiting", None, None)) /\ holder' = holder
    BY <1>3 DEF Look
  <2> QED BY <2>1, QuietStep DEF Parts, Task
<1> QED BY <1>1, <1>2, <1>3

\* The second look, with the lock free.
LEMMA EnterStep ==
    ASSUME NEW r \in Requests, NEW s \in Shared, IInv, Enter(r, s)
    PROVE  IInv'
<1>1. CASE Valid(s)
  <2>1. Set(r, s, Task("done", None, cache[s].delivered)) /\ holder' = holder
    BY <1>1 DEF Enter
  <2> QED BY <2>1, QuietStep DEF Parts, Task
<1>2. CASE ~Valid(s)
  <2>1. /\ Set(r, s, Task("fetching", now, None)) /\ holder[s] = None
        /\ holder' = [holder EXCEPT ![s] = r]
    BY <1>2 DEF Enter
  <2> QED BY <2>1, AcquireStep
<1> QED BY <1>1, <1>2

----------------------------------------------------------------------------
\* Every step preserves the invariant.
LEMMA NextInv == IInv /\ [Next]_vars => IInv'
<1> SUFFICES ASSUME IInv, [Next]_vars PROVE IInv'
  OBVIOUS
<1>1. ASSUME NEW r \in Requests, Asks(r) PROVE IInv'
  BY <1>1, BeginStep DEF Asks
<1>2. ASSUME NEW r \in Requests, NEW s \in Shared, Look(r, s) PROVE IInv'
  BY <1>2, LookStep
<1>3. ASSUME NEW r \in Requests, NEW s \in Shared, Enter(r, s) PROVE IInv'
  BY <1>3, EnterStep
<1>4. ASSUME NEW r \in Requests, NEW s \in Shared, SourceFails(r, s) PROVE IInv'
  BY <1>4, StoreStep DEF SourceFails
<1>5. ASSUME NEW r \in Requests, MacroArrives(r) \/ EcosArrives(r) PROVE IInv'
  BY <1>5, StoreStep DEF MacroArrives, EcosArrives, Shared
<1>6. ASSUME NEW r \in Requests, NEW answer, CompanyDone(r, answer) PROVE IInv'
  <2> DEFINE t == Task("done", None, [answer |-> answer, at |-> task[r]["company"].at])
  <2>1. Set(r, "company", t) /\ holder' = holder
    BY <1>6 DEF CompanyDone
  <2>2. "company" \in Parts /\ "company" \notin Shared
    BY DEF Parts, Shared
  <2> HIDE DEF t
  <2> QED BY <2>1, <2>2, QuietStep
<1>7. ASSUME NEW r \in Requests, CompanyArrives(r) \/ CompanyFails(r) PROVE IInv'
  BY <1>6, <1>7 DEF CompanyArrives, CompanyFails
<1>8. ASSUME NEW r \in Requests, Return(r) PROVE IInv'
  BY <1>8, EndStep DEF Return, IInv, ShapeInv
<1>9. ASSUME NEW r \in Requests, Cancel(r) PROVE IInv'
  <2>1. /\ Ended(r, "cancelled")
        /\ holder' = [s \in Shared |-> IF holder[s] = r THEN None ELSE holder[s]]
    BY <1>9 DEF Cancel
  <2>2. \A s \in Shared : holder[s] # r => holder'[s] = holder[s]
    BY <2>1
  <2>3. DOMAIN holder' = Shared
    BY <2>1
  <2> QED BY <2>1, <2>2, <2>3, EndStep
<1>10. CASE Tick \/ SetBack \/ UNCHANGED vars
  BY <1>10 DEF IInv, ShapeInv, LockInv, Tick, SetBack, vars
<1> QED
  BY <1>1, <1>2, <1>3, <1>4, <1>5, <1>7, <1>8, <1>9, <1>10 DEF Next, Serve

\* Whoever fetches macro data holds the lock of its cache, whatever is cancelled.
THEOREM FetchersHoldTheLock == Spec => []IInv
  BY InitInv, NextInv, PTL DEF Spec

----------------------------------------------------------------------------
\* What NoNeedlessFetch asks of a step.
Begun(r, s) == task[r][s].state # "fetching" /\ task'[r][s].state = "fetching"
Needed(s)   == ~Valid(s) /\ \A q \in Requests : task[q][s].state # "fetching"
Sparing     == \A r \in Requests, s \in Shared : Begun(r, s) => Needed(s)

\* A step of one task is sparing if it does not fetch, or finds cache and lock unused.
LEMMA TaskStep ==
    ASSUME NEW r \in Requests, NEW p \in Parts, NEW t, IInv, Set(r, p, t),
           p \in Shared /\ t.state = "fetching" => ~Valid(p) /\ holder[p] = None
    PROVE  Sparing
<1> SUFFICES ASSUME NEW q \in Requests, NEW s \in Shared, Begun(q, s)
             PROVE  Needed(s)
  BY DEF Sparing
<1>1. \A x \in Requests, o \in Parts :
          task'[x][o] = IF x = r /\ o = p THEN t ELSE task[x][o]
  BY DEF IInv, ShapeInv, Set
<1>2. q = r /\ s = p /\ t.state = "fetching"
  BY <1>1 DEF Begun, Parts
<1>3. ~Valid(s) /\ holder[s] = None
  BY <1>2
<1>4. \A x \in Requests : task[x][s].state # "fetching"
  BY <1>3, ResearchAssumption DEF IInv, LockInv
<1> QED BY <1>3, <1>4 DEF Needed

\* A step that gives a request other tasks, none of which fetches macro data, is sparing.
LEMMA AnewStep ==
    ASSUME NEW r \in Requests, NEW new, IInv, task' = [task EXCEPT ![r] = new],
           \A s \in Shared : new[s].state # "fetching"
    PROVE  Sparing
  BY DEF IInv, ShapeInv, Sparing, Begun

LEMMA NextIsSparing == IInv /\ Next => Sparing
<1> SUFFICES ASSUME IInv, Next PROVE Sparing
  OBVIOUS
<1> USE DEF Parts
<1>1. ASSUME NEW r \in Requests, Asks(r) PROVE Sparing
  <2>1. PICK wish \in Wishes[r] : Begin(r, wish)
    BY <1>1 DEF Asks
  <2> DEFINE new == [p \in Parts |->
                       CASE p = "macro" -> Task("looking", None, None)
                         [] p = "ecos" /\ wish.market = "kr" -> Task("looking", None, None)
                         [] p = "company" /\ ~OverviewOnly(wish) -> Task("fetching", now, None)
                         [] OTHER -> Idle]
  <2>2. task' = task \/ task' = [task EXCEPT ![r] = new]
    BY <2>1 DEF Begin
  <2>3. \A s \in Shared : new[s].state # "fetching"
    BY DEF Shared, Task, Idle
  <2> HIDE DEF new
  <2>4. CASE task' = task
    BY <2>4 DEF Sparing, Begun
  <2> QED BY <2>2, <2>3, <2>4, AnewStep
<1>2. ASSUME NEW r \in Requests, NEW s \in Shared, Look(r, s) PROVE Sparing
  <2>1. CASE Valid(s)
    <3>1. Set(r, s, Task("done", None, cache[s].delivered))
      BY <1>2, <2>1 DEF Look
    <3> QED BY <3>1, TaskStep DEF Task
  <2>2. CASE ~Valid(s) /\ holder[s] = None /\ Waiting(s) = {}
    <3>1. Set(r, s, Task("fetching", now, None))
      BY <1>2, <2>2 DEF Look
    <3> QED BY <2>2, <3>1, TaskStep
  <2>3. CASE ~Valid(s) /\ ~(holder[s] = None /\ Waiting(s) = {})
    <3>1. Set(r, s, Task("waiting", None, None))
      BY <1>2, <2>3 DEF Look
    <3> QED BY <3>1, TaskStep DEF Task
  <2> QED BY <2>1, <2>2, <2>3
<1>3. ASSUME NEW r \in Requests, NEW s \in Shared, Enter(r, s) PROVE Sparing
  <2>1. CASE Valid(s)
    <3>1. Set(r, s, Task("done", None, cache[s].delivered))
      BY <1>3, <2>1 DEF Enter
    <3> QED BY <3>1, TaskStep DEF Task
  <2>2. CASE ~Valid(s)
    <3>1. Set(r, s, Task("fetching", now, None)) /\ holder[s] = None
      BY <1>3, <2>2 DEF Enter
    <3> QED BY <2>2, <3>1, TaskStep
  <2> QED BY <2>1, <2>2
<1>4. ASSUME NEW r \in Requests, NEW s \in Shared, NEW answer, Store(r, s, answer) PROVE Sparing
  <2>1. Set(r, s, Task("done", None, [answer |-> answer, at |-> task[r][s].at]))
    BY <1>4 DEF Store
  <2> QED BY <2>1, TaskStep DEF Task
<1>5. ASSUME NEW r \in Requests, NEW answer, CompanyDone(r, answer) PROVE Sparing
  <2>1. Set(r, "company", Task("done", None, [answer |-> answer, at |-> task[r]["company"].at]))
    BY <1>5 DEF CompanyDone
  <2> QED BY <2>1, TaskStep DEF Task
<1>6. ASSUME NEW r \in Requests, NEW how, Ended(r, how) PROVE Sparing
  <2>1. task' = [task EXCEPT ![r] = [p \in Parts |-> Idle]]
    BY <1>6 DEF Ended
  <2>2. \A s \in Shared : [p \in Parts |-> Idle][s].state # "fetching"
    BY DEF Idle, Task
  <2> QED BY <2>1, <2>2, AnewStep
<1>7. CASE Tick \/ SetBack
  BY <1>7 DEF Tick, SetBack, Sparing, Begun
<1>8. ASSUME NEW r \in Requests, Serve(r) PROVE Sparing
  BY <1>2, <1>3, <1>4, <1>5, <1>6, <1>8
  DEF Serve, SourceFails, MacroArrives, EcosArrives, CompanyArrives, CompanyFails, Return, Shared
<1>9. ASSUME NEW r \in Requests, Cancel(r) PROVE Sparing
  BY <1>6, <1>9 DEF Cancel
<1> QED BY <1>1, <1>7, <1>8, <1>9 DEF Next

\* A macro source is asked only when its cache cannot be used and by one request at
\* a time, for any number of requests, whatever fails or is cancelled and however
\* the clock goes (_get_common_macro_context, _get_ecos_context).
THEOREM FetchesAreNeeded == Spec => NoNeedlessFetch
<1>1. IInv /\ [Next]_vars =>
        [\A r \in Requests, s \in Shared :
            (task[r][s].state # "fetching" /\ task'[r][s].state = "fetching")
            => /\ ~Valid(s)
               /\ \A q \in Requests : task[q][s].state # "fetching"]_vars
  BY NextIsSparing DEF Sparing, Begun, Needed
<1> QED BY <1>1, FetchersHoldTheLock, PTL DEF Spec, NoNeedlessFetch

----------------------------------------------------------------------------
(* Facts, sections and results *)

IsSection(s) == s = Section(s.id, s.status, s.required, s.facts, s.gaps, s.reasons)
IsResult(x) ==
    /\ x = [facts |-> x.facts, sources |-> x.sources, sections |-> x.sections, stale |-> x.stale]
    /\ \A s \in x.sections : IsSection(s)

\* Where a fact comes from: a series of macro data, the price, the company.
Origin(i) == i[1]
From(x, O) ==
    /\ \A f \in x.facts : Origin(f.id) \in O
    /\ \A s \in x.sections : \A i \in s.facts : Origin(i) \in O
    /\ \A i \in x.stale : Origin(i) \in O

MacroSeries == TreasurySeries \cup BlsSeries \cup EcosSeries

\* The fact i counts for the section "id", or the section says that it is incomplete.
Reports(x, id, i) ==
    \E t \in x.sections :
        /\ t.id = id /\ t.required = TRUE
        /\ t.status # "complete" \/ (i \in t.facts /\ i \notin x.stale)

\* Every fact of a section is used or reported.
Candid(x) == \A s \in x.sections : \A i \in s.facts : Reports(x, s.id, i)

LEMMA Sections ==
    ASSUME NEW id, NEW status, NEW required, NEW facts, NEW gaps, NEW reasons
    PROVE  /\ IsSection(Section(id, status, required, facts, gaps, reasons))
           /\ Section(id, status, required, facts, gaps, reasons).id = id
           /\ Section(id, status, required, facts, gaps, reasons).status = status
           /\ Section(id, status, required, facts, gaps, reasons).required = required
           /\ Section(id, status, required, facts, gaps, reasons).facts = facts
    BY DEF IsSection, Section

LEMMA EvidenceSection ==
    ASSUME NEW id, NEW facts, NEW gaps \in BOOLEAN, NEW required
    PROVE  /\ IsSection(Evidence(id, facts, gaps, required))
           /\ Evidence(id, facts, gaps, required).id = id
           /\ Evidence(id, facts, gaps, required).required = required
           /\ Evidence(id, facts, gaps, required).facts = facts
    BY DEF Evidence, Unavailable, IsSection, Section

LEMMA FactFields ==
    ASSUME NEW id, NEW source, NEW observed, NEW published, NEW collected
    PROVE  /\ Fact(id, source, observed, published, collected).id = id
           /\ Fact(id, source, observed, published, collected).source = source
           /\ Fact(id, source, observed, published, collected).observed = observed
           /\ Fact(id, source, observed, published, collected).published = published
           /\ Fact(id, source, observed, published, collected).collected = collected
    BY DEF Fact

\* The facts that belong to a section of a result, found or not.
LEMMA NothingIsEmpty ==
    ASSUME NEW sections
    PROVE  /\ IsResult(Nothing(sections)) /\ Nothing(sections).facts = {}
           /\ Nothing(sections).stale = {} /\ Nothing(sections).sources = {}
           /\ \A s \in Nothing(sections).sections : s.facts = {}
<1>1. /\ Nothing(sections).facts = {} /\ Nothing(sections).stale = {}
      /\ Nothing(sections).sources = {}
      /\ Nothing(sections).sections = {Unavailable(id, TRUE) : id \in sections}
    BY DEF Nothing
<1>2. Nothing(sections) = [facts |-> Nothing(sections).facts,
          sources |-> Nothing(sections).sources,
          sections |-> Nothing(sections).sections, stale |-> Nothing(sections).stale]
    BY DEF Nothing
<1>3. \A s \in Nothing(sections).sections : IsSection(s) /\ s.facts = {}
    BY <1>1 DEF Unavailable, Section, IsSection
<1> QED BY <1>1, <1>2, <1>3 DEF IsResult

LEMMA TogetherFields ==
    ASSUME NEW A, \A a \in A : IsResult(a)
    PROVE  /\ IsResult(Together(A))
           /\ Together(A).facts = UNION {a.facts : a \in A}
           /\ Together(A).sources = UNION {a.sources : a \in A}
           /\ Together(A).sections = UNION {a.sections : a \in A}
           /\ Together(A).stale = UNION {a.stale : a \in A}
    BY DEF Together, IsResult

LEMMA TogetherFrom ==
    ASSUME NEW A, \A a \in A : IsResult(a), NEW O, \A a \in A : From(a, O)
    PROVE  From(Together(A), O)
    BY TogetherFields DEF From

\* Results whose facts come from different places do not make each other's stale.
LEMMA TogetherReports ==
    ASSUME NEW A, \A a \in A : IsResult(a), NEW x \in A, NEW id, NEW i, Reports(x, id, i),
           \A a \in A : a # x => i \notin a.stale
    PROVE  Reports(Together(A), id, i)
<1>1. PICK t \in x.sections :
          /\ t.id = id /\ t.required = TRUE
          /\ t.status # "complete" \/ (i \in t.facts /\ i \notin x.stale)
    BY DEF Reports
<1>2. t \in Together(A).sections
    BY TogetherFields
<1>3. i \notin x.stale => i \notin Together(A).stale
    BY TogetherFields
<1> QED BY <1>1, <1>2, <1>3 DEF Reports

----------------------------------------------------------------------------
(* What a fetch delivers *)

LEMMA SeriesFacts ==
    ASSUME NEW series, NEW source, NEW dates, NEW at
    PROVE  \A f \in SeriesOf(series, source, dates, at).facts :
               Origin(f.id) = series /\ f.source = source
<1> DEFINE change == IF Baseline(dates, series) = {} THEN {} ELSE {"change"}
           facts == {Fact(<<series, kind>>, source, Max(dates), at, at)
                        : kind \in {"level"} \cup change}
<1>1. SeriesOf(series, source, dates, at).facts = IF dates = {} THEN {} ELSE facts
    BY DEF SeriesOf
<1>2. \A f \in facts : \E kind : f.id = <<series, kind>> /\ f.source = source
    BY DEF Fact
<1> HIDE DEF facts
<1>3. \A kind : Origin(<<series, kind>>) = series
    BY DEF Origin
<1> QED BY <1>1, <1>2, <1>3

\* The facts of a result are not about the company.
Sourced(x) == \A f \in x.facts : f.source \in {"treasury", "bls", "ecos"}

\* A section of macro data is blocked when one of its series is stale.
LEMMA OfficialIsCandid ==
    ASSUME NEW id, NEW source, NEW series, NEW answers, NEW at
    PROVE  /\ IsResult(Official(id, source, series, answers, at))
           /\ From(Official(id, source, series, answers, at), series)
           /\ Candid(Official(id, source, series, answers, at))
           /\ \A f \in Official(id, source, series, answers, at).facts : f.source = source
<1> DEFINE answered == {a \in answers : a.outcome # "failed"}
           usable == answered # {} /\ \A a \in answered : a.outcome = "answered"
           rows == IF usable THEN UNION {a.rows : a \in answered} ELSE {}
           found == {SeriesOf(s, source, Dates(rows, s, at), at) : s \in series}
           facts == UNION {r.facts : r \in found}
           gaps == \E r \in found : r.gap
           blocked == \/ \E r \in found : r.stale
                      \/ \E a \in answers : a.outcome # "answered"
           section == Built(id, Ids(facts), gaps, blocked)
           sources == IF usable THEN {Source(source, at)} ELSE {}
           stale == UNION {Ids(r.facts) : r \in {x \in found : x.stale}}
           x == Official(id, source, series, answers, at)
<1>1. x = [facts |-> facts, sources |-> sources, sections |-> {section}, stale |-> stale]
    BY DEF Official
<1>2. \A f \in facts : Origin(f.id) \in series /\ f.source = source
  <2> SUFFICES ASSUME NEW s \in series,
                      NEW f \in SeriesOf(s, source, Dates(rows, s, at), at).facts
               PROVE  Origin(f.id) \in series /\ f.source = source
      OBVIOUS
  <2> QED BY SeriesFacts
<1>3. stale \subseteq Ids(facts)
    BY DEF Ids
<1>4. stale # {} => blocked
    BY DEF Ids
<1>5. gaps \in BOOLEAN /\ blocked \in BOOLEAN
    OBVIOUS
<1> HIDE DEF gaps, blocked, facts, sources, stale
<1>6. /\ IsSection(section) /\ section.id = id /\ section.required = TRUE
      /\ section.facts = Ids(facts) /\ (blocked => section.status # "complete")
    BY <1>5 DEF Built, IsSection, Section
<1> HIDE DEF section, x
<1>7. \A i \in Ids(facts) : Origin(i) \in series
    BY <1>2 DEF Ids
<1>8. IsResult(x)
    BY <1>1, <1>6 DEF IsResult
<1>9. From(x, series)
    BY <1>1, <1>2, <1>3, <1>6, <1>7 DEF From
<1>10. Candid(x)
  <2> SUFFICES ASSUME NEW i \in section.facts PROVE Reports(x, id, i)
      BY <1>1, <1>6 DEF Candid
  <2>1. section \in x.sections /\ x.stale = stale
      BY <1>1
  <2>2. section.status # "complete" \/ i \notin stale
      BY <1>4, <1>6
  <2> QED BY <1>6, <2>1, <2>2 DEF Reports
<1>11. \A f \in x.facts : f.source = source
    BY <1>1, <1>2
<1> QED BY <1>8, <1>9, <1>10, <1>11 DEF x

\* A result with other sections, and one with other facts as well.
LEMMA NewSections ==
    ASSUME NEW x, IsResult(x), NEW S, \A s \in S : IsSection(s)
    PROVE  /\ IsResult([x EXCEPT !.sections = S])
           /\ [x EXCEPT !.sections = S].facts = x.facts
           /\ [x EXCEPT !.sections = S].sources = x.sources
           /\ [x EXCEPT !.sections = S].sections = S
           /\ [x EXCEPT !.sections = S].stale = x.stale
<1> DEFINE y == [x EXCEPT !.sections = S]
<1>1. x = [facts |-> x.facts, sources |-> x.sources, sections |-> x.sections, stale |-> x.stale]
    BY DEF IsResult
<1>2. y = [facts |-> x.facts, sources |-> x.sources, sections |-> S, stale |-> x.stale]
    BY <1>1
<1> HIDE DEF y
<1>3. /\ y.facts = x.facts /\ y.sources = x.sources /\ y.sections = S /\ y.stale = x.stale
    BY <1>2
<1>4. IsResult(y)
    BY <1>2, <1>3 DEF IsResult
<1> QED BY <1>3, <1>4 DEF y

\* No section of the one refers to what is stale in the other.
Apart(a, b) == \A s \in a.sections : \A i \in s.facts : i \notin b.stale

LEMMA OriginsApart ==
    ASSUME NEW a, NEW b, NEW O, NEW P, From(a, O), From(b, P), O \cap P = {}
    PROVE  Apart(a, b) /\ Apart(b, a)
    BY DEF From, Apart

LEMMA TogetherCandid ==
    ASSUME NEW a, IsResult(a), Candid(a), NEW b, IsResult(b), Candid(b), Apart(a, b), Apart(b, a)
    PROVE  Candid(Together({a, b}))
<1> SUFFICES ASSUME NEW s \in Together({a, b}).sections, NEW i \in s.facts
             PROVE  Reports(Together({a, b}), s.id, i)
    BY DEF Candid
<1>1. s \in a.sections \/ s \in b.sections
    BY TogetherFields
<1>2. CASE s \in a.sections
    BY <1>2, TogetherReports DEF Candid, Apart
<1>3. CASE s \in b.sections
    BY <1>3, TogetherReports DEF Candid, Apart
<1> QED BY <1>1, <1>2, <1>3

LEMMA MacroFetch ==
    ASSUME NEW feed, NEW at
    PROVE  /\ IsResult(FetchMacro(feed, at)) /\ Candid(FetchMacro(feed, at))
           /\ From(FetchMacro(feed, at), TreasurySeries \cup BlsSeries)
           /\ Sourced(FetchMacro(feed, at))
<1> DEFINE a == Official("macro.rates", "treasury", TreasurySeries, feed.treasury, at)
           b == Official("macro.growth_inflation", "bls", BlsSeries, {feed.bls}, at)
           t == Together({a, b})
           rest == {Unavailable(id, TRUE) : id \in CommonSections
                                                   \ {"macro.rates", "macro.growth_inflation"}}
           x == [t EXCEPT !.sections = @ \cup rest]
<1>1. FetchMacro(feed, at) = x
    BY DEF FetchMacro
<1>2. /\ IsResult(a) /\ From(a, TreasurySeries) /\ Candid(a)
      /\ IsResult(b) /\ From(b, BlsSeries) /\ Candid(b)
      /\ \A f \in a.facts \cup b.facts : f.source \in {"treasury", "bls"}
    BY OfficialIsCandid
<1>3. \A s \in rest : IsSection(s) /\ s.facts = {}
    BY DEF Unavailable, Section, IsSection
<1> HIDE DEF a, b, rest
<1>4. TreasurySeries \cap BlsSeries = {}
    BY DEF TreasurySeries, BlsSeries
<1>5. Candid(t) /\ IsResult(t)
    BY <1>2, <1>4, OriginsApart, TogetherCandid, TogetherFields
<1>6. From(t, TreasurySeries \cup BlsSeries)
  <2>1. From(a, TreasurySeries \cup BlsSeries) /\ From(b, TreasurySeries \cup BlsSeries)
      BY <1>2 DEF From
  <2> QED BY <1>2, <2>1, TogetherFrom
<1>0. Sourced(t)
    BY <1>2, TogetherFields DEF Sourced
<1> HIDE DEF t
<1>7. /\ IsResult(x) /\ x.facts = t.facts /\ x.stale = t.stale
      /\ x.sections = t.sections \cup rest
  <2> DEFINE S == t.sections \cup rest
  <2>1. \A s \in S : IsSection(s)
      BY <1>3, <1>5 DEF IsResult
  <2> HIDE DEF S
  <2>2. x = [t EXCEPT !.sections = S]
      BY DEF S
  <2> HIDE DEF x
  <2> QED BY <1>5, <2>1, <2>2, NewSections DEF S
<1> HIDE DEF x
<1>8. From(x, TreasurySeries \cup BlsSeries)
    BY <1>3, <1>6, <1>7 DEF From
<1>9. Candid(x)
    BY <1>3, <1>5, <1>7 DEF Candid, Reports
<1>10. Sourced(x)
    BY <1>0, <1>7 DEF Sourced
<1> QED BY <1>1, <1>7, <1>8, <1>9, <1>10

LEMMA EcosFetch ==
    ASSUME NEW feed, NEW at
    PROVE  /\ IsResult(FetchEcos(feed, at)) /\ Candid(FetchEcos(feed, at))
           /\ From(FetchEcos(feed, at), EcosSeries) /\ Sourced(FetchEcos(feed, at))
<1> DEFINE past(s) == {d \in feed[s] : d <= at}
           found == {s \in EcosSeries : past(s) # {}}
           facts == {Fact(<<s, "level">>, "ecos", Max(past(s)), at, at) : s \in found}
           stale == {<<s, "level">> : s \in {x \in found : at - Max(past(x)) > MaxAge[x]}}
           blocked == found # EcosSeries \/ stale # {}
           sources == IF facts = {} THEN {} ELSE {Source("ecos", at)}
           section == Section("macro.kr.ecos", IF blocked THEN "blocked" ELSE "complete",
                              TRUE, Ids(facts), blocked, blocked)
           x == FetchEcos(feed, at)
<1>1. x = [facts |-> facts, sources |-> sources, sections |-> {section}, stale |-> stale]
    BY DEF FetchEcos
<1>2. \A s : Origin(<<s, "level">>) = s
    BY DEF Origin
<1>3. \A f \in facts : Origin(f.id) \in EcosSeries /\ f.source = "ecos"
  <2> SUFFICES ASSUME NEW s \in found
               PROVE  /\ Origin(Fact(<<s, "level">>, "ecos", Max(past(s)), at, at).id) \in EcosSeries
                      /\ Fact(<<s, "level">>, "ecos", Max(past(s)), at, at).source = "ecos"
      OBVIOUS
  <2> QED BY <1>2 DEF Fact
<1>4. \A i \in stale : Origin(i) \in EcosSeries
    BY <1>2
<1>5. /\ section.id = "macro.kr.ecos" /\ section.required = TRUE /\ section.facts = Ids(facts)
      /\ (stale # {} => section.status # "complete")
    BY DEF Section
<1>6. IsSection(section)
    BY DEF Section, IsSection
<1> HIDE DEF facts, stale, sources, section, x
<1>7. \A i \in Ids(facts) : Origin(i) \in EcosSeries
    BY <1>3 DEF Ids
<1>8. IsResult(x)
    BY <1>1, <1>6 DEF IsResult
<1>9. From(x, EcosSeries)
    BY <1>1, <1>3, <1>4, <1>5, <1>7 DEF From
<1>10. Candid(x)
    BY <1>1, <1>5 DEF Candid, Reports
<1>11. Sourced(x)
    BY <1>1, <1>3 DEF Sourced
<1> QED BY <1>8, <1>9, <1>10, <1>11 DEF x

\* What the company's sources deliver: each fact has an id and a section of its own.
Dated(f) == f.observed \in Int /\ f.published \in Int
Filed(x) ==
    /\ \A f \in x.facts : Dated(f)
    /\ \A f, g \in x.facts : f.id = g.id => f = g
    /\ \A f \in x.facts : \E s \in x.sections : s.id = f.source /\ s.required = TRUE
    /\ \A s \in x.sections, f \in x.facts : f.id \in s.facts => f.source = s.id
    /\ \A f \in x.facts : f.id \in RoeIds => f.source = "company.fundamentals"

LEMMA CompanyFetch ==
    ASSUME NEW r \in Requests, NEW held \in Filings[r], NEW filings \in SUBSET held,
           NEW cutoff, NEW at
    PROVE  /\ IsResult(FetchCompany(filings, cutoff, at))
           /\ From(FetchCompany(filings, cutoff, at), {"company"})
           /\ Candid(FetchCompany(filings, cutoff, at))
           /\ Filed(FetchCompany(filings, cutoff, at))
<1> DEFINE F == "company.fundamentals"  N == "company.news"
           of(section) == {f \in filings : f.section = section /\ f.published <= cutoff}
           fact(section, f) == Fact(<<"company", f.id>>, section, f.observed, f.published, at)
           facts(section) == {fact(section, f) : f \in of(section)}
           gaps == Ids(of(F)) # {"income", "equity"}
           a == Evidence(F, Ids(facts(F)), gaps, TRUE)
           b == Evidence(N, Ids(facts(N)), TRUE, TRUE)
           sources == {Source(F, at), Source(N, at)}
           x == FetchCompany(filings, cutoff, at)
<1>1. x = [facts |-> facts(F) \cup facts(N), sources |-> sources,
           sections |-> {a, b}, stale |-> {}]
    BY DEF FetchCompany
<1>2. /\ IsSection(a) /\ a.id = F /\ a.facts = Ids(facts(F)) /\ a.required = TRUE
      /\ IsSection(b) /\ b.id = N /\ b.facts = Ids(facts(N)) /\ b.required = TRUE
    BY DEF Evidence, Unavailable, IsSection, Section
<1> HIDE DEF a, b, sources, x
<1>3. \A section, f : /\ Origin(fact(section, f).id) = "company"
                      /\ fact(section, f).source = section
                      /\ fact(section, f).observed = f.observed
                      /\ fact(section, f).published = f.published
    BY DEF Fact, Origin
<1>4. /\ \A section, other, f, g : fact(section, f).id = fact(other, g).id => f.id = g.id
      /\ \A section, f : fact(section, f).id \in RoeIds => f.id \in {"income", "equity"}
    BY DEF Fact, RoeIds
<1> HIDE DEF fact
<1>5. \A f \in filings : Dated(f)
    BY FilingsAssumption DEF Dated
<1>6. /\ \A f, g \in filings : f.id = g.id => f = g
      /\ \A f \in filings : f.id \in {"income", "equity"} => f.section = F
    BY FilingsAssumption
<1>7. \A section : \A f \in facts(section) : \E g \in filings :
          f = fact(section, g) /\ g.section = section
    OBVIOUS
<1> HIDE DEF facts
<1>8. x.facts = facts(F) \cup facts(N) /\ x.sections = {a, b} /\ x.stale = {}
    BY <1>1
<1>9. \A section : \A f \in facts(section) : Origin(f.id) = "company" /\ f.source = section
    BY <1>3, <1>7
<1>10. \A section, other : \A f \in facts(section), g \in facts(other) :
          f.id = g.id => f = g /\ section = other
  <2> SUFFICES ASSUME NEW section, NEW other, NEW f \in facts(section), NEW g \in facts(other),
                      f.id = g.id
               PROVE  f = g /\ section = other
      OBVIOUS
  <2>1. PICK u \in filings : f = fact(section, u) /\ u.section = section
      BY <1>7
  <2>2. PICK v \in filings : g = fact(other, v) /\ v.section = other
      BY <1>7
  <2>3. u = v
      BY <1>4, <1>6, <2>1, <2>2
  <2> QED BY <2>1, <2>2, <2>3
<1>11. IsResult(x)
    BY <1>1, <1>2, <1>8 DEF IsResult
<1>12. From(x, {"company"})
    BY <1>2, <1>8, <1>9 DEF From, Ids
<1>13. Candid(x)
    BY <1>2, <1>8 DEF Candid, Reports
<1>14. Filed(x)
  <2>1. \A f \in x.facts : Dated(f)
      BY <1>3, <1>5, <1>7, <1>8 DEF Dated
  <2>2. \A f, g \in x.facts : f.id = g.id => f = g
      BY <1>8, <1>10
  <2>3. \A f \in x.facts : \E s \in x.sections : s.id = f.source /\ s.required = TRUE
      BY <1>2, <1>8, <1>9
  <2>4. \A s \in x.sections, f \in x.facts : f.id \in s.facts => f.source = s.id
    <3>1. \A section : \A f \in x.facts : f.id \in Ids(facts(section)) => f.source = section
        BY <1>8, <1>9, <1>10 DEF Ids
    <3> QED BY <1>2, <1>8, <3>1
  <2>5. \A f \in x.facts : f.id \in RoeIds => f.source = F
      BY <1>3, <1>4, <1>6, <1>7, <1>8
  <2> QED BY <2>1, <2>2, <2>3, <2>4, <2>5 DEF Filed
<1> QED BY <1>11, <1>12, <1>13, <1>14 DEF x

----------------------------------------------------------------------------
(* The observation cutoff *)

\* A section keeps its name and what it is required for; it refers to fewer facts only
\* if it says that it is incomplete.
Follows(t, s) ==
    /\ IsSection(t) /\ t.id = s.id /\ t.required = s.required /\ t.facts \subseteq s.facts
    /\ t.status # "complete" \/ (t.facts = s.facts /\ s.status = "complete")

LEMMA CutFollows ==
    ASSUME NEW s, IsSection(s), NEW kept, NEW rest, rest # "complete"
    PROVE  Follows(Cut(s, kept, rest), s) /\ Cut(s, kept, rest).facts = s.facts \cap Ids(kept)
<1> DEFINE left == s.facts \cap Ids(kept)
           status == IF left = {} \/ s.status = "blocked" THEN "blocked" ELSE rest
           reasons == s.reasons \/ status = "blocked"
           t == Section(s.id, status, s.required, left, TRUE, reasons)
<1>1. Cut(s, kept, rest) = IF s.facts \subseteq Ids(kept) THEN s ELSE t
    BY Zenon DEF Cut
<1>2. status # "complete"
    OBVIOUS
<1> HIDE DEF status, reasons
<1>3. IsSection(t) /\ t.id = s.id /\ t.required = s.required /\ t.facts = left
      /\ t.status = status
    BY DEF IsSection, Section
<1> HIDE DEF t
<1> QED BY <1>1, <1>2, <1>3 DEF Follows

LEMMA MendedFollows ==
    ASSUME NEW s, IsSection(s), NEW kept
    PROVE  Follows(Mended(s, kept), s) /\ Mended(s, kept).facts = s.facts \cap Ids(kept)
<1> DEFINE left == s.facts \cap Ids(kept)
           t == Section(s.id, "blocked", s.required, left, s.gaps, TRUE)
<1>1. Mended(s, kept) = IF s.facts \subseteq Ids(kept) THEN s ELSE t
    BY DEF Mended
<1>2. IsSection(t) /\ t.id = s.id /\ t.required = s.required /\ t.facts = left
      /\ t.status = "blocked"
    BY DEF IsSection, Section
<1> HIDE DEF t
<1> QED BY <1>1, <1>2 DEF Follows

LEMMA AgedFollows ==
    ASSUME NEW s, IsSection(s), NEW old
    PROVE  /\ Follows(Aged(s, old), s) /\ Aged(s, old).facts = s.facts
           /\ old # {} => Aged(s, old).status # "complete"
<1> DEFINE status == IF s.status = "complete" THEN "partial" ELSE s.status
           t == Section(s.id, "blocked", s.required, s.facts, s.gaps, TRUE)
           u == Section(s.id, status, s.required, s.facts, TRUE, TRUE)
<1>1. Aged(s, old) = IF old # {} THEN t
                     ELSE IF s.id = "company.news" /\ s.facts # {} THEN u ELSE s
    BY DEF Aged
<1>2. status # "complete"
    OBVIOUS
<1> HIDE DEF status
<1>3. IsSection(t) /\ t.id = s.id /\ t.required = s.required /\ t.facts = s.facts
      /\ t.status = "blocked"
    BY DEF IsSection, Section
<1>4. IsSection(u) /\ u.id = s.id /\ u.required = s.required /\ u.facts = s.facts
      /\ u.status = status
    BY DEF IsSection, Section
<1> HIDE DEF t, u
<1> QED BY <1>1, <1>2, <1>3, <1>4 DEF Follows

\* The result y has the sections of x, and no facts but its facts.
Derived(y, x) ==
    /\ IsResult(y) /\ y.facts \subseteq x.facts
    /\ \A t \in y.sections : \E s \in x.sections : Follows(t, s)
    /\ \A s \in x.sections : \E t \in y.sections : Follows(t, s)

LEMMA DerivedFrom ==
    ASSUME NEW x, NEW y, Derived(y, x), NEW O, From(x, O), \A i \in y.stale : Origin(i) \in O
    PROVE  From(y, O)
<1>1. \A f \in y.facts : Origin(f.id) \in O
    BY DEF Derived, From
<1>2. \A t \in y.sections : \A i \in t.facts : Origin(i) \in O
    BY DEF Derived, From, Follows
<1> QED BY <1>1, <1>2 DEF From

LEMMA DerivedReports ==
    ASSUME NEW x, NEW y, Derived(y, x), y.stale \subseteq x.stale, NEW id, NEW i, Reports(x, id, i)
    PROVE  Reports(y, id, i)
<1>1. PICK s \in x.sections :
          /\ s.id = id /\ s.required = TRUE
          /\ s.status # "complete" \/ (i \in s.facts /\ i \notin x.stale)
    BY DEF Reports
<1>2. PICK t \in y.sections : Follows(t, s)
    BY DEF Derived
<1> QED BY <1>1, <1>2 DEF Reports, Follows

LEMMA DerivedFiled ==
    ASSUME NEW x, NEW y, Derived(y, x), Filed(x)
    PROVE  Filed(y)
<1>1. \A f \in y.facts : \E t \in y.sections : t.id = f.source /\ t.required = TRUE
    BY DEF Derived, Filed, Follows
<1>2. \A t \in y.sections, f \in y.facts : f.id \in t.facts => f.source = t.id
    BY DEF Derived, Filed, Follows
<1> QED BY <1>1, <1>2 DEF Filed, Derived

LEMMA RestrictedDerives ==
    ASSUME NEW x, IsResult(x), NEW cutoff, NEW rest, rest # "complete"
    PROVE  /\ Derived(Restricted(x, cutoff, rest), x)
           /\ Restricted(x, cutoff, rest).facts = {f \in x.facts : Past(f, cutoff)}
           /\ Restricted(x, cutoff, rest).stale \subseteq x.stale
<1> DEFINE kept == {f \in x.facts : Past(f, cutoff)}
           cut(s) == Cut(s, kept, rest)
           y == Restricted(x, cutoff, rest)
<1>1. y = [facts |-> kept, sources |-> x.sources, stale |-> x.stale \cap Ids(kept),
           sections |-> {cut(s) : s \in x.sections}]
    BY DEF Restricted
<1>2. \A s \in x.sections : Follows(cut(s), s)
    BY CutFollows DEF IsResult
<1> HIDE DEF y, cut
<1>3. y.facts = kept /\ y.stale = x.stale \cap Ids(kept) /\ y.sections = {cut(s) : s \in x.sections}
    BY <1>1
<1>4. IsResult(y)
    BY <1>1, <1>2, <1>3 DEF IsResult, Follows
<1>5. Derived(y, x)
    BY <1>2, <1>3, <1>4 DEF Derived
<1> QED BY <1>3, <1>5 DEF y

LEMMA CompanyDerives ==
    ASSUME NEW x, IsResult(x), NEW cutoff
    PROVE  /\ Derived(CompanyPart(x, cutoff), x)
           /\ CompanyPart(x, cutoff).facts = x.facts
           /\ CompanyPart(x, cutoff).stale
                = UNION {Ids(StaleFacts(x, s.id, cutoff)) : s \in x.sections}
           /\ \A s \in x.sections : \E t \in CompanyPart(x, cutoff).sections :
                 /\ Follows(t, s) /\ t.facts = s.facts
                 /\ Ids(StaleFacts(x, s.id, cutoff)) # {} => t.status # "complete"
<1> DEFINE old(s) == Ids(StaleFacts(x, s.id, cutoff))
           aged(s) == Aged(s, old(s))
           y == CompanyPart(x, cutoff)
<1>1. y = [facts |-> x.facts, sources |-> x.sources,
           stale |-> UNION {old(s) : s \in x.sections},
           sections |-> {aged(s) : s \in x.sections}]
    BY DEF CompanyPart
<1>2. \A s \in x.sections : /\ Follows(aged(s), s) /\ aged(s).facts = s.facts
                            /\ old(s) # {} => aged(s).status # "complete"
    BY AgedFollows DEF IsResult
<1> HIDE DEF y, aged, old
<1>3. /\ y.facts = x.facts /\ y.stale = UNION {old(s) : s \in x.sections}
      /\ y.sections = {aged(s) : s \in x.sections}
    BY <1>1
<1>4. IsResult(y)
    BY <1>1, <1>2, <1>3 DEF IsResult, Follows
<1>5. Derived(y, x)
    BY <1>2, <1>3, <1>4 DEF Derived
<1>6. \A s \in x.sections : \E t \in y.sections :
          Follows(t, s) /\ t.facts = s.facts /\ (old(s) # {} => t.status # "complete")
    BY <1>2, <1>3
<1> QED BY <1>3, <1>5, <1>6 DEF y, old

\* A section of the company with a fact too old to count is not complete.
LEMMA CompanyReports ==
    ASSUME NEW x, IsResult(x), Filed(x), NEW cutoff, NEW id, NEW i, Reports(x, id, i)
    PROVE  Reports(CompanyPart(x, cutoff), id, i)
<1> DEFINE y == CompanyPart(x, cutoff)
<1>1. PICK s \in x.sections :
          /\ s.id = id /\ s.required = TRUE
          /\ s.status # "complete" \/ (i \in s.facts /\ i \notin x.stale)
    BY DEF Reports
<1>2. PICK t \in y.sections :
          /\ Follows(t, s) /\ t.facts = s.facts
          /\ Ids(StaleFacts(x, s.id, cutoff)) # {} => t.status # "complete"
    BY CompanyDerives
<1>3. y.stale = UNION {Ids(StaleFacts(x, u.id, cutoff)) : u \in x.sections}
    BY CompanyDerives
<1> HIDE DEF y
<1>4. ASSUME t.status = "complete"
      PROVE  i \in t.facts /\ i \notin y.stale
  <2>1. i \in s.facts /\ i \in t.facts
      BY <1>1, <1>2, <1>4 DEF Follows
  <2>2. SUFFICES ASSUME i \in y.stale PROVE FALSE
      BY <2>1
  <2>3. PICK u \in x.sections : i \in Ids(StaleFacts(x, u.id, cutoff))
      BY <1>3, <2>2
  <2>4. PICK f \in StaleFacts(x, u.id, cutoff) : f.id = i
      BY <2>3 DEF Ids
  <2>5. f.source = s.id /\ f.source = u.id
      BY <2>1, <2>4 DEF Filed, StaleFacts
  <2>6. Ids(StaleFacts(x, s.id, cutoff)) # {}
      BY <2>4, <2>5 DEF Ids
  <2> QED BY <1>2, <1>4, <2>6
<1>5. t.id = id /\ t.required = TRUE
    BY <1>1, <1>2 DEF Follows
<1>6. Reports(y, id, i)
    BY <1>2, <1>4, <1>5 DEF Reports
<1> QED BY <1>6 DEF y

----------------------------------------------------------------------------
(* The parts of a bundle *)

LEMMA PriceFrom ==
    ASSUME NEW snapshot, NEW cutoff
    PROVE  /\ IsResult(PricePart(snapshot, cutoff)) /\ From(PricePart(snapshot, cutoff), {"price"})
           /\ \A f \in PricePart(snapshot, cutoff).facts : f.source = "price"
           /\ \A s \in PricePart(snapshot, cutoff).sections :
                 s.id \in {"price.core", "price.technical"}
<1> DEFINE fact(id) == Fact(<<"price", id>>, "price", snapshot.observed, snapshot.fetched,
                            snapshot.fetched)
           facts == {fact(id) : id \in {"close"} \cup (IF snapshot.complete THEN {"atr"} ELSE {})}
           core == Evidence("price.core", Ids(facts), ~snapshot.complete, TRUE)
           old == Section(core.id, "blocked", TRUE, core.facts, core.gaps, TRUE)
           late == cutoff - snapshot.observed > PriceMaxAge
           technical == Unavailable("price.technical", FALSE)
           refused == Section("price.core", "blocked", TRUE, {}, FALSE, TRUE)
           x == [Nothing({}) EXCEPT !.sections = {refused, technical}]
           sources == {Source("price", snapshot.fetched)}
           sections == {IF late THEN old ELSE core, technical}
           stale == IF late THEN Ids(facts) ELSE {}
           y == [facts |-> facts, sources |-> sources, sections |-> sections, stale |-> stale]
           z == PricePart(snapshot, cutoff)
<1>1. z = x \/ z = y
    BY DEF PricePart
<1>2. \A f \in facts : Origin(f.id) = "price" /\ f.source = "price"
    BY DEF Fact, Origin
<1>3. /\ IsSection(core) /\ core.id = "price.core" /\ core.facts = Ids(facts)
      /\ IsSection(old) /\ old.id = core.id /\ old.facts = core.facts
    BY DEF Evidence, Unavailable, IsSection, Section
<1>4. /\ IsSection(technical) /\ technical.id = "price.technical" /\ technical.facts = {}
      /\ IsSection(refused) /\ refused.id = "price.core" /\ refused.facts = {}
    BY DEF Unavailable, IsSection, Section
<1> HIDE DEF facts, core, old, late, technical, refused, z, sources
<1>5. \A i \in Ids(facts) : Origin(i) = "price"
    BY <1>2 DEF Ids
<1>6. CASE z = x
  <2>1. IsResult(x) /\ x.facts = {} /\ x.stale = {} /\ x.sections = {refused, technical}
      BY <1>4, NothingIsEmpty, NewSections
  <2> HIDE DEF x
  <2> QED BY <1>4, <1>6, <2>1 DEF From, z
<1>7. CASE z = y
  <2>1. y.facts = facts /\ y.sections = sections /\ y.stale = stale
      OBVIOUS
  <2>2. \A s \in sections : IsSection(s) /\ s.id \in {"price.core", "price.technical"}
                            /\ s.facts \subseteq Ids(facts)
      BY <1>3, <1>4
  <2>3. \A i \in stale : i \in Ids(facts)
      OBVIOUS
  <2> HIDE DEF sections, stale
  <2>4. IsResult(y)
      BY <2>2 DEF IsResult
  <2>5. From(y, {"price"})
      BY <1>2, <1>5, <2>1, <2>2, <2>3 DEF From
  <2> HIDE DEF y
  <2> QED BY <1>2, <1>7, <2>1, <2>2, <2>4, <2>5 DEF z
<1> QED BY <1>1, <1>6, <1>7

LEMMA MaxOfTwo ==
    ASSUME NEW m \in Int, NEW n \in Int
    PROVE  Max({m, n}) \in {m, n}
<1>1. \E k \in {m, n} : \A l \in {m, n} : k >= l
    OBVIOUS
<1> QED BY <1>1 DEF Max

\* The ratio is as old as one of the two figures it is computed from, both of which count.
Inherits(f, x) ==
    \E a \in x.facts, b \in x.facts :
        /\ \A e \in {a, b} : e.id \notin x.stale /\ e.source = "company.fundamentals"
        /\ f.observed \in {a.observed, b.observed}
        /\ f.published \in {a.published, b.published}

LEMMA ValuationFrom ==
    ASSUME NEW x, Filed(x)
    PROVE  /\ IsResult(ValuationPart(x)) /\ From(ValuationPart(x), {"company.valuation"})
           /\ ValuationPart(x).stale = {}
           /\ \A s \in ValuationPart(x).sections : s.id = "company.valuation"
           /\ \A f \in ValuationPart(x).facts : f.source = "company.fundamentals" /\ Inherits(f, x)
<1> DEFINE inputs == {f \in x.facts : f.id \in RoeIds \ x.stale}
           facts == IF Ids(inputs) = RoeIds THEN {Roe(inputs)} ELSE {}
           section == Evidence("company.valuation", Ids(facts), TRUE, FALSE)
           y == ValuationPart(x)
<1>1. y = [facts |-> facts, sources |-> {}, stale |-> {}, sections |-> {section}]
    BY DEF ValuationPart
<1>2. IsSection(section) /\ section.id = "company.valuation" /\ section.facts = Ids(facts)
    BY DEF Evidence, Unavailable, IsSection, Section
<1>3. Origin(Roe(inputs).id) = "company.valuation" /\ Roe(inputs).source = "company.fundamentals"
    BY DEF Roe, Fact, Origin
<1>4. ASSUME Ids(inputs) = RoeIds
      PROVE  Inherits(Roe(inputs), x)
  <2>0. <<"company", "income">> \in Ids(inputs) /\ <<"company", "equity">> \in Ids(inputs)
      BY <1>4 DEF RoeIds
  <2>1. PICK a \in inputs : a.id = <<"company", "income">>
      BY <2>0 DEF Ids
  <2>2. PICK b \in inputs : b.id = <<"company", "equity">>
      BY <2>0 DEF Ids
  <2>3. inputs = {a, b}
    <3>1. \A f \in inputs : f = a \/ f = b
        BY <2>1, <2>2 DEF RoeIds, Filed
    <3> QED BY <3>1
  <2>4. /\ {f.observed : f \in inputs} = {a.observed, b.observed}
        /\ {f.published : f \in inputs} = {a.published, b.published}
      BY <2>3
  <2>5. \A e \in {a, b} :
            Dated(e) /\ e.id \notin x.stale /\ e.source = "company.fundamentals"
      BY DEF Filed
  <2> HIDE DEF inputs
  <2>6. Roe(inputs).observed \in {a.observed, b.observed}
      BY <2>4, <2>5, MaxOfTwo DEF Dated, Roe, Fact
  <2>7. Roe(inputs).published \in {a.published, b.published}
      BY <2>4, <2>5, MaxOfTwo DEF Dated, Roe, Fact
  <2>8. a \in x.facts /\ b \in x.facts
      BY DEF inputs
  <2> QED BY <2>5, <2>6, <2>7, <2>8 DEF Inherits
<1>5. \A f \in facts : f = Roe(inputs) /\ Ids(inputs) = RoeIds
    OBVIOUS
<1> HIDE DEF inputs, facts, section, y
<1>6. y.facts = facts /\ y.stale = {} /\ y.sections = {section}
    BY <1>1
<1>7. IsResult(y)
    BY <1>1, <1>2, <1>6 DEF IsResult
<1>8. From(y, {"company.valuation"})
    BY <1>2, <1>3, <1>5, <1>6 DEF From, Ids
<1> QED BY <1>2, <1>3, <1>4, <1>5, <1>6, <1>7, <1>8 DEF y

----------------------------------------------------------------------------
(* The bundle *)

\* The merge keeps a part of the facts and every section, and refers to what it keeps.
LEMMA MergedKeeps ==
    ASSUME NEW A, \A a \in A : IsResult(a), NEW cutoff
    PROVE  /\ \A f \in Merged(A, cutoff).facts : \E a \in A : f \in a.facts
           /\ Merged(A, cutoff).stale = Together(A).stale \cap Ids(Merged(A, cutoff).facts)
           /\ \A t \in Merged(A, cutoff).sections :
                 /\ t.facts \subseteq Ids(Merged(A, cutoff).facts)
                 /\ \/ t.id = "integrity"
                    \/ \E s \in Together(A).sections : Follows(t, s)
           /\ \A s \in Together(A).sections :
                 \E t \in Merged(A, cutoff).sections : Follows(t, s)
<1> DEFINE all == Together(A)
           kept == {f \in all.facts : Fits(f, all.sources, cutoff)}
           whole == kept = all.facts /\ \A s \in all.sections : s.facts \subseteq Ids(kept)
           mended(s) == Mended(s, kept)
           x == Merged(A, cutoff)
<1>1. x = [facts |-> kept, sources |-> all.sources, stale |-> all.stale \cap Ids(kept),
           sections |-> {mended(s) : s \in all.sections} \cup Integrity(whole)]
    BY DEF Merged
<1>2. IsResult(all) /\ all.facts = UNION {a.facts : a \in A}
    BY TogetherFields
<1>3. \A s \in all.sections : Follows(mended(s), s) /\ mended(s).facts \subseteq Ids(kept)
    BY <1>2, MendedFollows DEF IsResult
<1>4. \A t \in Integrity(whole) : t.id = "integrity" /\ t.facts = {}
    BY DEF Integrity, Section
<1>5. \A f \in kept : \E a \in A : f \in a.facts
    BY <1>2
<1> HIDE DEF whole, mended, kept, x, all
<1>6. /\ x.facts = kept /\ x.stale = all.stale \cap Ids(kept)
      /\ x.sections = {mended(s) : s \in all.sections} \cup Integrity(whole)
    BY <1>1
<1>7. \A t \in x.sections : /\ t.facts \subseteq Ids(kept)
                            /\ t.id = "integrity" \/ \E s \in all.sections : Follows(t, s)
    BY <1>3, <1>4, <1>6
<1>8. \A s \in all.sections : \E t \in x.sections : Follows(t, s)
    BY <1>3, <1>6
<1> QED BY <1>5, <1>6, <1>7, <1>8 DEF x, all

LEMMA MergedReports ==
    ASSUME NEW A, \A a \in A : IsResult(a), NEW cutoff, NEW id, NEW i,
           Reports(Together(A), id, i), i \notin Ids(Merged(A, cutoff).facts) \ Merged(A, cutoff).stale
    PROVE  id \in Ids(Incomplete(Merged(A, cutoff).sections))
<1> DEFINE all == Together(A)  x == Merged(A, cutoff)
<1>1. PICK s \in all.sections :
          /\ s.id = id /\ s.required = TRUE
          /\ s.status # "complete" \/ (i \in s.facts /\ i \notin all.stale)
    BY DEF Reports
<1>2. PICK t \in x.sections : Follows(t, s)
    BY MergedKeeps
<1>3. x.stale \subseteq all.stale /\ t.facts \subseteq Ids(x.facts)
    BY MergedKeeps
<1> HIDE DEF x, all
<1>4. t.id = id /\ t.required = TRUE
    BY <1>1, <1>2 DEF Follows
<1>5. t.status # "complete"
  <2>1. SUFFICES ASSUME t.status = "complete" PROVE FALSE
      OBVIOUS
  <2>2. i \in t.facts /\ i \notin all.stale
      BY <1>1, <1>2, <2>1 DEF Follows
  <2> QED BY <1>3, <2>2 DEF x
<1>6. t \in Incomplete(x.sections)
    BY <1>4, <1>5 DEF Incomplete
<1> QED BY <1>4, <1>6 DEF Ids, x

\* The intermediate results of collect.
ObservedBy(req, finished) == IF req.cutoff = None THEN finished ELSE req.cutoff
MacroOf(req, results, finished) ==
    MacroRestricted(Together({results["macro"], results["ecos"]}), ObservedBy(req, finished))
FilingsOf(req, results, finished) ==
    CompanyRestricted(results["company"], ObservedBy(req, finished))
CompanyOf(req, results, finished) ==
    CompanyPart(FilingsOf(req, results, finished), ObservedBy(req, finished))
CutoffOf(req, results, finished) ==
    BundleCutoff(req, finished, MacroOf(req, results, finished), FilingsOf(req, results, finished))
PartsOf(req, results, finished) ==
    {PricePart(req.snapshot, CutoffOf(req, results, finished)), MacroOf(req, results, finished),
     CompanyOf(req, results, finished), ValuationPart(CompanyOf(req, results, finished)),
     Nothing({"independent.news"})}
MergedOf(req, results, finished) ==
    Merged(PartsOf(req, results, finished), CutoffOf(req, results, finished))
Told == CommonSections \cup {"macro.kr.ecos", "company.fundamentals", "company.valuation"}

LEMMA CollectedFields ==
    ASSUME NEW req, NEW results, NEW finished
    PROVE  /\ Collected(req, results, finished).observed = ObservedBy(req, finished)
           /\ Collected(req, results, finished).session = req.snapshot.observed
           /\ Collected(req, results, finished).cutoff = CutoffOf(req, results, finished)
           /\ Collected(req, results, finished).sources = MergedOf(req, results, finished).sources
           /\ Collected(req, results, finished).sections = MergedOf(req, results, finished).sections
           /\ Collected(req, results, finished).quality
                = Quality(MergedOf(req, results, finished),
                          MissingSections(req.market, MergedOf(req, results, finished).sections))
           /\ Collected(req, results, finished).facts = MergedOf(req, results, finished).facts
           /\ Collected(req, results, finished).evidence
                = Ids(MergedOf(req, results, finished).facts) \ MergedOf(req, results, finished).stale
           /\ Collected(req, results, finished).quality.blocked
                = Ids(Incomplete(MergedOf(req, results, finished).sections))
           /\ Collected(req, results, finished).analysts
                = UNION {s.facts : s \in {x \in MergedOf(req, results, finished).sections :
                                            x.id \in Told}}
<1> DEFINE m == MergedOf(req, results, finished)
           missing == MissingSections(req.market, m.sections)
           quality == Quality(m, missing)
           told(ids) == UNION {s.facts : s \in {x \in m.sections : x.id \in ids}}
<1>1. Collected(req, results, finished)
        = [session |-> req.snapshot.observed, cutoff |-> CutoffOf(req, results, finished),
           observed |-> ObservedBy(req, finished),
           sources |-> m.sources, facts |-> m.facts, sections |-> m.sections,
           quality |-> quality, evidence |-> Ids(m.facts) \ quality.stale,
           analysts |-> told(Told)]
    BY DEF Collected, ObservedBy, MacroOf, FilingsOf, CompanyOf, CutoffOf, PartsOf, MergedOf, Told
<1>2. quality.stale = m.stale /\ quality.blocked = Ids(Incomplete(m.sections))
    BY DEF Quality
<1>3. told(Told) = UNION {s.facts : s \in {x \in m.sections : x.id \in Told}}
    OBVIOUS
<1>4. quality = Quality(m, missing)
    OBVIOUS
<1> DEFINE c == Collected(req, results, finished)
<1> HIDE DEF quality, m, missing, told, c
<1>5. /\ c.session = req.snapshot.observed /\ c.cutoff = CutoffOf(req, results, finished)
      /\ c.observed = ObservedBy(req, finished) /\ c.sources = m.sources
      /\ c.facts = m.facts /\ c.sections = m.sections /\ c.quality = quality
      /\ c.evidence = Ids(m.facts) \ quality.stale /\ c.analysts = told(Told)
    BY <1>1 DEF c
<1>6. /\ c.evidence = Ids(m.facts) \ m.stale
      /\ c.quality.blocked = Ids(Incomplete(m.sections))
    BY <1>2, <1>5
<1>7. c.quality = Quality(m, missing)
    BY <1>4, <1>5
<1>8. c.analysts = UNION {s.facts : s \in {x \in m.sections : x.id \in Told}}
    BY <1>3, <1>5
<1> QED BY <1>5, <1>6, <1>7, <1>8 DEF c, m, missing

\* What the three sources delivered, as collect gets it.
Delivered(results) ==
    /\ \A p \in Parts : IsResult(results[p]) /\ Candid(results[p])
    /\ From(results["macro"], TreasurySeries \cup BlsSeries)
    /\ From(results["ecos"], EcosSeries)
    /\ Sourced(results["macro"]) /\ Sourced(results["ecos"])
    /\ From(results["company"], {"company"}) /\ Filed(results["company"])

LEMMA PartsAreResults ==
    ASSUME NEW req, NEW results, NEW finished, Delivered(results)
    PROVE  /\ Derived(MacroOf(req, results, finished), Together({results["macro"], results["ecos"]}))
           /\ MacroOf(req, results, finished).stale
                \subseteq Together({results["macro"], results["ecos"]}).stale
           /\ From(MacroOf(req, results, finished), MacroSeries)
           /\ \A f \in MacroOf(req, results, finished).facts : Past(f, ObservedBy(req, finished))
           /\ Sourced(MacroOf(req, results, finished))
           /\ Derived(FilingsOf(req, results, finished), results["company"])
           /\ FilingsOf(req, results, finished).stale \subseteq results["company"].stale
           /\ Filed(FilingsOf(req, results, finished))
           /\ Derived(CompanyOf(req, results, finished), FilingsOf(req, results, finished))
           /\ Filed(CompanyOf(req, results, finished))
           /\ From(CompanyOf(req, results, finished), {"company"})
           /\ \A f \in CompanyOf(req, results, finished).facts : Past(f, ObservedBy(req, finished))
           /\ \A a \in PartsOf(req, results, finished) : IsResult(a)
<1> DEFINE o == ObservedBy(req, finished)
           m == MacroOf(req, results, finished)  u == FilingsOf(req, results, finished)
           c == CompanyOf(req, results, finished)
           t == Together({results["macro"], results["ecos"]})
<1>1. {"macro", "ecos", "company"} \subseteq Parts
    BY DEF Parts, Shared
<1>2. IsResult(t) /\ From(t, MacroSeries) /\ Sourced(t)
  <2>1. \A a \in {results["macro"], results["ecos"]} : IsResult(a)
      BY <1>1 DEF Delivered
  <2>2. \A a \in {results["macro"], results["ecos"]} : From(a, MacroSeries)
      BY DEF Delivered, From, MacroSeries
  <2>3. Sourced(t)
      BY <2>1, TogetherFields DEF Delivered, Sourced
  <2> QED BY <2>1, <2>2, <2>3, TogetherFields, TogetherFrom
<1>3. IsResult(results["company"])
    BY <1>1 DEF Delivered
<1> HIDE DEF t
<1>4. /\ Derived(m, t) /\ m.facts = {f \in t.facts : Past(f, o)} /\ m.stale \subseteq t.stale
    BY <1>2, RestrictedDerives DEF MacroOf, MacroRestricted, t
<1>5. /\ Derived(u, results["company"]) /\ u.stale \subseteq results["company"].stale
      /\ u.facts = {f \in results["company"].facts : Past(f, o)}
    BY <1>3, RestrictedDerives DEF FilingsOf, CompanyRestricted
<1> HIDE DEF o
<1>6. From(m, MacroSeries) /\ Sourced(m)
  <2>1. \A i \in m.stale : Origin(i) \in MacroSeries
      BY <1>2, <1>4 DEF From
  <2>2. Sourced(m)
      BY <1>2, <1>4 DEF Sourced
  <2> QED BY <1>2, <1>4, <2>1, <2>2, DerivedFrom
<1>7. From(u, {"company"}) /\ Filed(u) /\ IsResult(u)
  <2>1. \A i \in u.stale : Origin(i) \in {"company"}
      BY <1>5 DEF From, Delivered
  <2> QED BY <1>5, <2>1, DerivedFrom, DerivedFiled DEF Delivered, Derived
<1>8. /\ Derived(c, u) /\ c.facts = u.facts
      /\ c.stale = UNION {Ids(StaleFacts(u, s.id, o)) : s \in u.sections}
    BY <1>7, CompanyDerives DEF CompanyOf, u, o
<1>9. From(c, {"company"}) /\ Filed(c) /\ IsResult(c)
  <2>1. \A i \in c.stale : Origin(i) \in {"company"}
    <3> SUFFICES ASSUME NEW s \in u.sections, NEW f \in StaleFacts(u, s.id, o)
                 PROVE  Origin(f.id) \in {"company"}
        BY <1>8 DEF Ids
    <3>1. f \in u.facts
        BY DEF StaleFacts
    <3> QED BY <1>7, <3>1 DEF From
  <2> QED BY <1>7, <1>8, <2>1, DerivedFrom, DerivedFiled DEF Derived
<1>10. IsResult(m) /\ IsResult(c)
    BY <1>4, <1>9 DEF Derived
<1> HIDE DEF m, u, c
<1>11. \A a \in PartsOf(req, results, finished) : IsResult(a)
    BY <1>9, <1>10, PriceFrom, ValuationFrom, NothingIsEmpty DEF PartsOf, m, c
<1> QED BY <1>4, <1>5, <1>6, <1>7, <1>8, <1>9, <1>11 DEF m, u, c, t, o

----------------------------------------------------------------------------
(* What a bundle can be built from *)

Times == Start..MaxTime

\* A task got an answer of its source at some time, or none; a company's answer is a
\* part of what its sources held, and holds nothing that was published later.
Arrived(r, p, delivered) ==
    /\ delivered.at \in Times
    /\ \/ delivered.answer = None
       \/ p = "macro" /\ delivered.answer \in MacroFeeds
       \/ p = "ecos" /\ delivered.answer \in EcosFeeds
       \/ /\ p = "company"
          /\ \E held \in Filings[r] : delivered.answer \subseteq held
          /\ \A f \in delivered.answer : f.published <= delivered.at
Sane(r, p, t) == /\ t.state = "fetching" => t.at \in Times
                 /\ t.state = "done" => Arrived(r, p, t.delivered)

TaskInv == \A r \in Requests, p \in Parts : Sane(r, p, task[r][p])

\* What is cached has arrived; it may be used for every request.
CacheInv ==
    /\ DOMAIN cache = Shared
    /\ \A s \in Shared, r \in Requests : cache[s] # None => Arrived(r, s, cache[s].delivered)

\* A request that goes on was not made for a session after it, nor with a price of later.
AskedInv ==
    /\ DOMAIN request = Requests
    /\ \A r \in Requests : request[r] # None =>
          /\ request[r].at \in Times
          /\ request[r].snapshot # None =>
                /\ request[r].snapshot.observed \in Int /\ request[r].snapshot.fetched \in Int
                /\ request[r].snapshot.observed <= request[r].at
                /\ request[r].snapshot.fetched <= MaxTime

DataInv == IInv /\ now \in Times /\ TaskInv /\ CacheInv /\ AskedInv

\* A step of one task, and one that gives a request other tasks.
LEMMA TaskIsSane ==
    ASSUME NEW r \in Requests, NEW p \in Parts, NEW t, DataInv, Set(r, p, t), Sane(r, p, t)
    PROVE  TaskInv'
<1>1. \A q \in Requests, o \in Parts :
          task'[q][o] = IF q = r /\ o = p THEN t ELSE task[q][o]
  BY DEF DataInv, IInv, ShapeInv, Set
<1> QED BY <1>1 DEF DataInv, TaskInv

LEMMA AnewIsSane ==
    ASSUME NEW r \in Requests, NEW new, DataInv, task' = [task EXCEPT ![r] = new],
           \A p \in Parts : Sane(r, p, new[p])
    PROVE  TaskInv'
<1>1. \A q \in Requests : task'[q] = IF q = r THEN new ELSE task[q]
  BY DEF DataInv, IInv, ShapeInv
<1> QED BY <1>1 DEF DataInv, TaskInv

LEMMA BeginData ==
    ASSUME NEW r \in Requests, NEW wish \in Wishes[r], DataInv, Begin(r, wish)
    PROVE  TaskInv' /\ CacheInv' /\ AskedInv' /\ now' \in Times
<1> DEFINE new == [p \in Parts |->
                     CASE p = "macro" -> Task("looking", None, None)
                       [] p = "ecos" /\ wish.market = "kr" -> Task("looking", None, None)
                       [] p = "company" /\ ~OverviewOnly(wish) -> Task("fetching", now, None)
                       [] OTHER -> Idle]
           asked == [at |-> now, market |-> wish.market, cutoff |-> wish.cutoff,
                     snapshot |-> wish.snapshot]
           late == /\ ~OverviewOnly(wish)
                   /\ wish.snapshot.observed > (IF wish.cutoff = None THEN now ELSE wish.cutoff)
<1>1. now' = now /\ cache' = cache
  BY DEF Begin
<1>2. IF late THEN UNCHANGED <<task, request>>
      ELSE request' = [request EXCEPT ![r] = asked] /\ task' = [task EXCEPT ![r] = new]
  BY DEF Begin
<1>3. wish.snapshot # None => wish.snapshot.fetched <= MaxTime
  BY DEF Begin, OverviewOnly, HasBeen
<1>4. CacheInv' /\ now' \in Times
  BY <1>1 DEF DataInv, CacheInv
<1>5. CASE late
  BY <1>2, <1>4, <1>5 DEF DataInv, TaskInv, AskedInv
<1>6. CASE ~late
  <2>1. request' = [request EXCEPT ![r] = asked] /\ task' = [task EXCEPT ![r] = new]
    BY <1>2, <1>6
  <2>2. \A p \in Parts : new[p] \in {Task("looking", None, None), Task("fetching", now, None), Idle}
    OBVIOUS
  <2>3. \A p \in Parts : Sane(r, p, new[p])
    <3> HIDE DEF new
    <3> QED BY <2>2 DEF Sane, Task, Idle, DataInv
  <2> HIDE DEF new
  <2>4. TaskInv'
    BY <2>1, <2>3, AnewIsSane
  <2>5. /\ asked.at = now
        /\ asked.snapshot # None =>
              /\ asked.snapshot.observed \in Int /\ asked.snapshot.fetched \in Int
              /\ asked.snapshot.observed <= now /\ asked.snapshot.fetched <= MaxTime
    <3>1. asked.at = now /\ asked.snapshot = wish.snapshot
      OBVIOUS
    <3>2. ASSUME wish.snapshot # None
          PROVE  /\ wish.snapshot.observed \in Int /\ wish.snapshot.fetched \in Int
                 /\ wish.snapshot.observed <= now
      <4>1. ~(wish.snapshot.observed > (IF wish.cutoff = None THEN now ELSE wish.cutoff))
        BY <1>6, <3>2 DEF OverviewOnly
      <4>2. wish.cutoff # None => wish.cutoff \in Int /\ wish.cutoff <= Start
        BY TimesAssumption
      <4>3. wish.snapshot.observed \in Int /\ wish.snapshot.fetched \in Int
        BY <3>2, TimesAssumption
      <4> QED BY <4>1, <4>2, <4>3, TimesAssumption DEF DataInv, Times
    <3> HIDE DEF asked
    <3> QED BY <1>3, <3>1, <3>2
  <2> HIDE DEF asked
  <2>6. \A q \in Requests : request'[q] = IF q = r THEN asked ELSE request[q]
    BY <2>1 DEF DataInv, AskedInv
  <2>7. AskedInv'
    <3>1. DOMAIN request' = Requests
      BY <2>1 DEF DataInv, AskedInv
    <3>2. now \in Int /\ now <= MaxTime /\ now \in Times /\ MaxTime \in Int
      BY TimesAssumption DEF DataInv, Times
    <3>3. asked.snapshot # None => asked.snapshot.fetched <= MaxTime
      BY <2>5
    <3> QED BY <2>5, <2>6, <3>1, <3>2, <3>3 DEF DataInv, AskedInv
  <2> QED BY <1>4, <2>4, <2>7
<1> QED BY <1>5, <1>6

\* A task looks at the cache, or a source answers it.
LEMMA TaskData ==
    ASSUME NEW r \in Requests, NEW s \in Shared, DataInv, Look(r, s) \/ Enter(r, s)
    PROVE  TaskInv' /\ CacheInv' /\ AskedInv' /\ now' \in Times
<1>1. cache' = cache /\ now' = now /\ request' = request
  BY DEF Look, Enter, Rest
<1>2. Shared \subseteq Parts
  BY DEF Parts
<1>3. TaskInv'
  <2>1. \/ Valid(s) /\ Set(r, s, Task("done", None, cache[s].delivered))
        \/ Set(r, s, Task("fetching", now, None))
        \/ Set(r, s, Task("waiting", None, None))
    <3>1. CASE Look(r, s) /\ Valid(s)
      BY <3>1 DEF Look
    <3>2. CASE Look(r, s) /\ ~Valid(s)
      BY <3>2 DEF Look
    <3>3. CASE Enter(r, s)
      BY <3>3 DEF Enter
    <3> QED BY <3>1, <3>2, <3>3
  <2>2. Valid(s) => Sane(r, s, Task("done", None, cache[s].delivered))
    BY DEF Valid, Sane, Task, DataInv, CacheInv
  <2>3. Sane(r, s, Task("fetching", now, None)) /\ Sane(r, s, Task("waiting", None, None))
    BY DEF Sane, Task, DataInv
  <2> QED BY <1>2, <2>1, <2>2, <2>3, TaskIsSane
<1> QED BY <1>1, <1>3 DEF DataInv, CacheInv, AskedInv

LEMMA StoreData ==
    ASSUME NEW r \in Requests, NEW s \in Shared, NEW answer, DataInv, Store(r, s, answer),
           \/ answer = None
           \/ s = "macro" /\ answer \in MacroFeeds
           \/ s = "ecos" /\ answer \in EcosFeeds
    PROVE  TaskInv' /\ CacheInv' /\ AskedInv' /\ now' \in Times
<1> DEFINE delivered == [answer |-> answer, at |-> task[r][s].at]
           entry == [at |-> now, delivered |-> delivered]
<1>1. /\ now' = now /\ request' = request /\ task[r][s].state = "fetching"
      /\ Set(r, s, Task("done", None, delivered))
      /\ cache' = [cache EXCEPT ![s] = entry]
  BY DEF Store, Rest
<1>2. s \in Parts
  BY DEF Parts
<1>3. delivered.answer = answer /\ delivered.at \in Times
  BY <1>1, <1>2 DEF DataInv, TaskInv, Sane
<1>4. entry.delivered = delivered
  OBVIOUS
<1> HIDE DEF delivered, entry
<1>5. \A q \in Requests : Arrived(q, s, delivered)
  BY <1>3 DEF Arrived
<1>6. TaskInv'
  BY <1>1, <1>2, <1>5, TaskIsSane DEF Sane, Task
<1>7. CacheInv'
  <2>1. \A o \in Shared : cache'[o] = IF o = s THEN entry ELSE cache[o]
    BY <1>1 DEF DataInv, CacheInv
  <2>2. DOMAIN cache' = Shared
    BY <1>1 DEF DataInv, CacheInv
  <2> QED BY <1>4, <1>5, <2>1, <2>2 DEF DataInv, CacheInv
<1> QED BY <1>1, <1>6, <1>7 DEF DataInv, AskedInv

LEMMA CompanyData ==
    ASSUME NEW r \in Requests, DataInv, CompanyArrives(r) \/ CompanyFails(r)
    PROVE  TaskInv' /\ CacheInv' /\ AskedInv' /\ now' \in Times
<1>1. PICK answer :
          /\ CompanyDone(r, answer)
          /\ \/ answer = None
             \/ /\ \E held \in Filings[r] : answer \subseteq held
                /\ \A f \in answer : f.published <= task[r]["company"].at
  <2>1. CASE CompanyFails(r)
    BY <2>1 DEF CompanyFails
  <2>2. CASE CompanyArrives(r)
    <3>1. PICK held \in Filings[r] :
              CompanyDone(r, {f \in held : f.published <= task[r]["company"].at})
      BY <2>2 DEF CompanyArrives
    <3> DEFINE answer == {f \in held : f.published <= task[r]["company"].at}
    <3>2. answer \subseteq held /\ \A f \in answer : f.published <= task[r]["company"].at
      OBVIOUS
    <3> HIDE DEF answer
    <3> QED BY <3>1, <3>2 DEF answer
  <2> QED BY <2>1, <2>2
<1> DEFINE delivered == [answer |-> answer, at |-> task[r]["company"].at]
<1>2. /\ now' = now /\ request' = request /\ cache' = cache
      /\ task[r]["company"].state = "fetching"
      /\ Set(r, "company", Task("done", None, delivered))
  BY <1>1 DEF CompanyDone, Rest
<1>3. "company" \in Parts
  BY DEF Parts
<1>4. /\ delivered.answer = answer /\ delivered.at = task[r]["company"].at
      /\ delivered.at \in Times
  BY <1>2, <1>3 DEF DataInv, TaskInv, Sane
<1> HIDE DEF delivered
<1>5. Arrived(r, "company", delivered)
  BY <1>1, <1>4 DEF Arrived
<1>6. TaskInv'
  BY <1>2, <1>3, <1>5, TaskIsSane DEF Sane, Task
<1> QED BY <1>2, <1>6 DEF DataInv, CacheInv, AskedInv

LEMMA EndData ==
    ASSUME NEW r \in Requests, NEW how, DataInv, Ended(r, how)
    PROVE  TaskInv' /\ CacheInv' /\ AskedInv' /\ now' \in Times
<1>1. /\ now' = now /\ cache' = cache /\ request' = [request EXCEPT ![r] = None]
      /\ task' = [task EXCEPT ![r] = [p \in Parts |-> Idle]]
  BY DEF Ended
<1>2. \A p \in Parts : Sane(r, p, [q \in Parts |-> Idle][p])
  BY DEF Sane, Idle, Task
<1>3. TaskInv'
  BY <1>1, <1>2, AnewIsSane
<1> QED BY <1>1, <1>3 DEF DataInv, CacheInv, AskedInv

LEMMA NextData == DataInv /\ [Next]_vars => DataInv'
<1> SUFFICES ASSUME DataInv, [Next]_vars PROVE DataInv'
  OBVIOUS
<1> DEFINE Kept == TaskInv' /\ CacheInv' /\ AskedInv' /\ now' \in Times
<1>1. ASSUME NEW r \in Requests, Asks(r) PROVE Kept
  BY <1>1, BeginData DEF Asks
<1>2. ASSUME NEW r \in Requests, NEW s \in Shared, Look(r, s) \/ Enter(r, s) PROVE Kept
  BY <1>2, TaskData
<1>3. ASSUME NEW r \in Requests, NEW s \in Shared, SourceFails(r, s) PROVE Kept
  BY <1>3, StoreData DEF SourceFails
<1>4. ASSUME NEW r \in Requests, MacroArrives(r) \/ EcosArrives(r) PROVE Kept
  BY <1>4, StoreData DEF MacroArrives, EcosArrives, Shared
<1>5. ASSUME NEW r \in Requests, CompanyArrives(r) \/ CompanyFails(r) PROVE Kept
  BY <1>5, CompanyData
<1>6. ASSUME NEW r \in Requests, Return(r) \/ Cancel(r) PROVE Kept
  BY <1>6, EndData DEF Return, Cancel
<1>7. ASSUME Tick \/ SetBack PROVE Kept
  <2>1. UNCHANGED <<cache, task, request>>
    BY <1>7 DEF Tick, SetBack
  <2>2. now' \in Times
    BY <1>7, TimesAssumption DEF Tick, SetBack, DataInv, Times
  <2> QED BY <2>1, <2>2 DEF DataInv, TaskInv, CacheInv, AskedInv
<1>8. ASSUME UNCHANGED vars PROVE Kept
  BY <1>8 DEF DataInv, TaskInv, CacheInv, AskedInv, vars
<1>9. ASSUME NEW r \in Requests, Serve(r) PROVE Kept
  BY <1>2, <1>3, <1>4, <1>5, <1>6, <1>9 DEF Serve
<1>10. Kept
  <2> HIDE DEF Kept
  <2> QED BY <1>1, <1>6, <1>7, <1>8, <1>9 DEF Next
<1>11. IInv'
  BY NextInv DEF DataInv
<1> QED BY <1>10, <1>11 DEF DataInv

\* Every answer was given by a source between the start and now, and every request is
\* about a time that had come: what collect can find when everything has arrived.
THEOREM AnswersHaveArrived == Spec => []DataInv
<1>1. Init => DataInv
  <2> SUFFICES ASSUME Init PROVE DataInv
    OBVIOUS
  <2>1. IInv /\ now \in Times
    BY InitInv, TimesAssumption DEF Init, Times
  <2>2. TaskInv
    BY DEF Init, TaskInv, Sane, Idle, Task
  <2>3. CacheInv /\ AskedInv
    BY DEF Init, CacheInv, AskedInv
  <2> QED BY <2>1, <2>2, <2>3 DEF DataInv
<1> QED BY <1>1, NextData, PTL DEF Spec

LEMMA ArrivedIsDelivered ==
    ASSUME NEW r \in Requests, DataInv, Ready(r)
    PROVE  Delivered(Results(r))
<1> DEFINE x(p) == Results(r)[p]
           answer(p) == task[r][p].delivered.answer
           cutoff == IF request[r].cutoff = None THEN request[r].at ELSE request[r].cutoff
<1>1. Parts = {"macro", "ecos", "company"}
    BY DEF Parts, Shared
<1>2. \A p \in Parts : \/ task[r][p].state = "idle" /\ x(p) = Nothing({})
                       \/ /\ task[r][p].state = "done"
                          /\ x(p) = Fetched(p, task[r][p].delivered, request[r])
    BY DEF Ready, Results
<1> HIDE DEF x
<1>3. ASSUME NEW p \in Parts, task[r][p].state = "idle" \/ answer(p) = None
      PROVE  \E sections : x(p) = Nothing(sections)
  <2>1. CASE x(p) = Nothing({})
      BY <2>1
  <2>2. CASE x(p) = Fetched(p, task[r][p].delivered, request[r]) /\ answer(p) = None
    <3>1. x(p) = Failed(p)
        BY <2>2 DEF Fetched
    <3> QED BY <3>1 DEF Failed
  <2> QED BY <1>2, <1>3, <2>1, <2>2
<1>4. ASSUME NEW p \in Parts, NEW sections, x(p) = Nothing(sections)
      PROVE  /\ IsResult(x(p)) /\ Candid(x(p)) /\ Sourced(x(p)) /\ Filed(x(p))
             /\ \A O : From(x(p), O)
    BY <1>4, NothingIsEmpty DEF Candid, Sourced, Filed, From
<1>5. IsResult(x("macro")) /\ Candid(x("macro")) /\ Sourced(x("macro"))
      /\ From(x("macro"), TreasurySeries \cup BlsSeries)
  <2>1. CASE task[r]["macro"].state = "done" /\ answer("macro") # None
    <3>1. x("macro") = FetchMacro(answer("macro"), task[r]["macro"].delivered.at)
        BY <1>1, <1>2, <2>1 DEF Fetched
    <3> QED BY <3>1, MacroFetch
  <2> QED BY <1>1, <1>2, <1>3, <1>4, <2>1
<1>6. IsResult(x("ecos")) /\ Candid(x("ecos")) /\ Sourced(x("ecos")) /\ From(x("ecos"), EcosSeries)
  <2>1. CASE task[r]["ecos"].state = "done" /\ answer("ecos") # None
    <3>1. x("ecos") = FetchEcos(answer("ecos"), task[r]["ecos"].delivered.at)
        BY <1>1, <1>2, <2>1 DEF Fetched
    <3> QED BY <3>1, EcosFetch
  <2> QED BY <1>1, <1>2, <1>3, <1>4, <2>1
<1>7. IsResult(x("company")) /\ Candid(x("company")) /\ From(x("company"), {"company"})
      /\ Filed(x("company"))
  <2>1. CASE task[r]["company"].state = "done" /\ answer("company") # None
    <3>1. x("company") = FetchCompany(answer("company"), cutoff, task[r]["company"].delivered.at)
        BY <1>1, <1>2, <2>1 DEF Fetched
    <3>2. PICK held \in Filings[r] : answer("company") \in SUBSET held
        BY <1>1, <2>1 DEF DataInv, TaskInv, Sane, Arrived
    <3> HIDE DEF cutoff
    <3> QED BY <3>1, <3>2, CompanyFetch
  <2> QED BY <1>1, <1>2, <1>3, <1>4, <2>1
<1> QED BY <1>1, <1>5, <1>6, <1>7 DEF Delivered, x

----------------------------------------------------------------------------
\* A fact that reaches the analysts of macro and company facts is no price.
LEMMA AnalystsSeeNoPrice ==
    ASSUME NEW req, NEW results, NEW finished, Delivered(results),
           NEW i \in Collected(req, results, finished).analysts
    PROVE  Origin(i) # "price"
<1> DEFINE A == PartsOf(req, results, finished)
           m == MacroOf(req, results, finished)  c == CompanyOf(req, results, finished)
           p == PricePart(req.snapshot, CutoffOf(req, results, finished))
           v == ValuationPart(c)  n == Nothing({"independent.news"})
<1>1. PICK t \in MergedOf(req, results, finished).sections : t.id \in Told /\ i \in t.facts
    BY CollectedFields
<1>2. \A a \in A : IsResult(a)
    BY PartsAreResults
<1>3. t.id # "integrity"
    BY <1>1 DEF Told, CommonSections
<1>4. PICK s \in Together(A).sections : Follows(t, s)
    BY <1>1, <1>2, <1>3, MergedKeeps DEF MergedOf
<1>5. s.id \in Told /\ i \in s.facts
    BY <1>1, <1>4 DEF Follows
<1>6. PICK a \in A : s \in a.sections
    BY <1>2, <1>4, TogetherFields
<1>7. A = {p, m, c, v, n}
    BY DEF PartsOf
<1>8. /\ \A u \in p.sections : u.id \in {"price.core", "price.technical"}
      /\ From(m, MacroSeries) /\ From(c, {"company"}) /\ From(v, {"company.valuation"})
      /\ \A u \in n.sections : u.facts = {}
    BY PartsAreResults, PriceFrom, ValuationFrom, NothingIsEmpty
<1> HIDE DEF A, p, m, c, v, n
<1>9. a # p
    BY <1>5, <1>6, <1>8 DEF Told, CommonSections
<1>10. a # n
    BY <1>5, <1>6, <1>8
<1>11. Origin(i) \in MacroSeries \cup {"company", "company.valuation"}
    BY <1>5, <1>6, <1>7, <1>8, <1>9, <1>10 DEF From
<1> QED BY <1>11 DEF MacroSeries, TreasurySeries, BlsSeries, EcosSeries

\* No fact but a price is newer than the observation cutoff.
LEMMA OnlyPricesAreNewer ==
    ASSUME NEW req, NEW results, NEW finished, Delivered(results),
           NEW f \in Collected(req, results, finished).facts, Origin(f.id) # "price"
    PROVE  Past(f, Collected(req, results, finished).observed)
<1> DEFINE A == PartsOf(req, results, finished)  o == ObservedBy(req, finished)
           m == MacroOf(req, results, finished)  c == CompanyOf(req, results, finished)
           p == PricePart(req.snapshot, CutoffOf(req, results, finished))
           v == ValuationPart(c)  n == Nothing({"independent.news"})
<1>1. PICK a \in A : f \in a.facts
  <2>1. f \in MergedOf(req, results, finished).facts
      BY CollectedFields
  <2>2. \A a \in A : IsResult(a)
      BY PartsAreResults
  <2> HIDE DEF A
  <2> QED BY <2>1, <2>2, MergedKeeps DEF MergedOf, A
<1>2. A = {p, m, c, v, n}
    BY DEF PartsOf
<1>3. /\ From(p, {"price"}) /\ n.facts = {}
      /\ \A g \in m.facts \cup c.facts : Past(g, o)
      /\ \A g \in v.facts : Inherits(g, c)
    BY PartsAreResults, PriceFrom, ValuationFrom, NothingIsEmpty
<1>4. Collected(req, results, finished).observed = o
    BY CollectedFields
<1> HIDE DEF A, o, p, m, c, v, n
<1>5. a \in {m, c, v}
    BY <1>1, <1>2, <1>3 DEF From
<1>6. ASSUME a = v PROVE Past(f, o)
  <2>1. PICK g \in c.facts, h \in c.facts :
            f.observed \in {g.observed, h.observed} /\ f.published \in {g.published, h.published}
      BY <1>1, <1>3, <1>6 DEF Inherits
  <2>2. Past(g, o) /\ Past(h, o)
      BY <1>3
  <2> QED BY <2>1, <2>2 DEF Past
<1>7. Past(f, o)
    BY <1>1, <1>3, <1>5, <1>6
<1> QED BY <1>4, <1>7

\* No fact that was observed or published after the observation cutoff reaches the
\* analysts of macro and company facts, whatever the sources deliver and whenever it
\* was cached (_restrict_macro_to_observation_cutoff and its twin for the company).
THEOREM AnalystsLackHindsight == Spec => []NoHindsight
<1>1. DataInv => NoHindsight
  <2> SUFFICES ASSUME DataInv, NEW r \in Requests, Ready(r), NEW f \in Bundle(r).facts,
                      f.id \in Bundle(r).analysts
               PROVE  f.observed <= Bundle(r).observed /\ f.published <= Bundle(r).observed
      BY DEF NoHindsight, Bundles
  <2>1. Delivered(Results(r))
      BY ArrivedIsDelivered
  <2>2. Origin(f.id) # "price"
      BY <2>1, AnalystsSeeNoPrice DEF Bundle
  <2>3. Past(f, Bundle(r).observed)
      BY <2>1, <2>2, OnlyPricesAreNewer DEF Bundle
  <2> QED BY <2>3 DEF Past
<1> QED BY <1>1, AnswersHaveArrived, PTL

----------------------------------------------------------------------------
\* What was delivered counts in the bundle's parts, or its section says that it is incomplete.
LEMMA PartsReport ==
    ASSUME NEW req, NEW results, NEW finished, Delivered(results),
           NEW q \in Parts, NEW s \in results[q].sections, NEW i \in s.facts
    PROVE  Reports(Together(PartsOf(req, results, finished)), s.id, i)
<1> DEFINE A == PartsOf(req, results, finished)
           m == MacroOf(req, results, finished)  u == FilingsOf(req, results, finished)
           c == CompanyOf(req, results, finished)
           p == PricePart(req.snapshot, CutoffOf(req, results, finished))
           v == ValuationPart(c)  n == Nothing({"independent.news"})
           M == {results["macro"], results["ecos"]}
<1>1. Parts = {"macro", "ecos", "company"}
    BY DEF Parts, Shared
<1>2. Reports(results[q], s.id, i)
    BY DEF Delivered, Candid
<1>3. A = {p, m, c, v, n}
    BY DEF PartsOf
<1>4. \A a \in A : IsResult(a)
    BY PartsAreResults
<1>5. /\ From(p, {"price"}) /\ From(m, MacroSeries) /\ From(c, {"company"})
      /\ v.stale = {} /\ n.stale = {}
    BY PartsAreResults, PriceFrom, ValuationFrom, NothingIsEmpty
<1>6. Derived(m, Together(M)) /\ m.stale \subseteq Together(M).stale
    BY PartsAreResults
<1>7. /\ Derived(u, results["company"]) /\ u.stale \subseteq results["company"].stale
      /\ Filed(u) /\ IsResult(u)
    BY PartsAreResults DEF Derived
<1>8. Reports(u, s.id, i) => Reports(c, s.id, i)
  <2> HIDE DEF u
  <2> QED BY <1>7, CompanyReports DEF CompanyOf, u
<1> HIDE DEF A, m, u, c, p, v, n
<1>9. CASE q \in {"macro", "ecos"}
  <2>1. Origin(i) \in MacroSeries
      BY <1>9 DEF Delivered, From, MacroSeries
  <2>2. \A a \in M : IsResult(a)
      BY <1>1 DEF Delivered
  <2>3. \A a \in M : a # results[q] => i \notin a.stale
      BY <1>9 DEF Delivered, From, TreasurySeries, BlsSeries, EcosSeries
  <2>4. Reports(Together(M), s.id, i)
      BY <1>2, <1>9, <2>2, <2>3, TogetherReports
  <2>5. Reports(m, s.id, i)
    <3> HIDE DEF M
    <3> QED BY <1>6, <2>4, DerivedReports
  <2>6. \A a \in A : a # m => i \notin a.stale
      BY <1>3, <1>5, <2>1 DEF From, MacroSeries, TreasurySeries, BlsSeries, EcosSeries
  <2> QED BY <1>3, <1>4, <2>5, <2>6, TogetherReports DEF A
<1>10. CASE q = "company"
  <2>1. Origin(i) = "company"
      BY <1>10 DEF Delivered, From
  <2>2. Reports(u, s.id, i)
      BY <1>2, <1>7, <1>10, DerivedReports
  <2>3. \A a \in A : a # c => i \notin a.stale
      BY <1>3, <1>5, <2>1 DEF From, MacroSeries, TreasurySeries, BlsSeries, EcosSeries
  <2> QED BY <1>3, <1>4, <1>8, <2>2, <2>3, TogetherReports DEF A
<1> QED BY <1>1, <1>9, <1>10

\* A figure too old to count is stale in the bundle's part for the company, and a
\* section of its kind says that it is incomplete.
LEMMA OldFiguresAreStale ==
    ASSUME NEW req, NEW results, NEW finished, Delivered(results),
           NEW f \in Collected(req, results, finished).facts, f.source = "company.fundamentals",
           Collected(req, results, finished).observed - f.observed > FundamentalMaxAge
    PROVE  /\ f.id \in CompanyOf(req, results, finished).stale
           /\ \E t \in CompanyOf(req, results, finished).sections :
                 t.id = "company.fundamentals" /\ t.required = TRUE /\ t.status # "complete"
<1> DEFINE A == PartsOf(req, results, finished)  o == ObservedBy(req, finished)
           m == MacroOf(req, results, finished)  u == FilingsOf(req, results, finished)
           c == CompanyOf(req, results, finished)
           p == PricePart(req.snapshot, CutoffOf(req, results, finished))
           v == ValuationPart(c)  n == Nothing({"independent.news"})
           old(g) == g.source = "company.fundamentals" /\ o - g.observed > FundamentalMaxAge
<1>1. PICK a \in A : f \in a.facts
  <2>1. f \in MergedOf(req, results, finished).facts
      BY CollectedFields
  <2>2. \A a \in A : IsResult(a)
      BY PartsAreResults
  <2> HIDE DEF A
  <2> QED BY <2>1, <2>2, MergedKeeps DEF MergedOf, A
<1>2. A = {p, m, c, v, n}
    BY DEF PartsOf
<1>3. /\ \A g \in p.facts : g.source = "price"
      /\ Sourced(m) /\ n.facts = {}
      /\ \A g \in v.facts : Inherits(g, c)
    BY PartsAreResults, PriceFrom, ValuationFrom, NothingIsEmpty
<1>4. Filed(u) /\ IsResult(u)
    BY PartsAreResults DEF Derived
<1>5. /\ c.facts = u.facts /\ c.stale = UNION {Ids(StaleFacts(u, s.id, o)) : s \in u.sections}
      /\ \A s \in u.sections : \E t \in c.sections :
            Follows(t, s) /\ (Ids(StaleFacts(u, s.id, o)) # {} => t.status # "complete")
  <2>1. c = CompanyPart(u, o)
      BY DEF CompanyOf
  <2> HIDE DEF u, o, c
  <2>2. c.facts = u.facts
      BY <1>4, <2>1, CompanyDerives
  <2>3. c.stale = UNION {Ids(StaleFacts(u, s.id, o)) : s \in u.sections}
      BY <1>4, <2>1, CompanyDerives
  <2>4. \A s \in u.sections : \E t \in c.sections :
            Follows(t, s) /\ (Ids(StaleFacts(u, s.id, o)) # {} => t.status # "complete")
      BY <1>4, <2>1, CompanyDerives
  <2> QED BY <2>2, <2>3, <2>4
<1>6. old(f)
    BY CollectedFields
<1> HIDE DEF A, o, p, m, u, c, v, n
<1>7. ASSUME NEW g \in c.facts, old(g)
      PROVE  /\ g.id \in c.stale
             /\ \E t \in c.sections :
                   t.id = "company.fundamentals" /\ t.required = TRUE /\ t.status # "complete"
  <2>1. PICK s \in u.sections : s.id = "company.fundamentals" /\ s.required = TRUE
      BY <1>4, <1>5, <1>7 DEF Filed
  <2>2. g.id \in Ids(StaleFacts(u, s.id, o))
      BY <1>5, <1>7, <2>1 DEF StaleFacts, Ids
  <2>3. PICK t \in c.sections : Follows(t, s) /\ t.status # "complete"
      BY <1>5, <2>1, <2>2
  <2> QED BY <1>5, <2>1, <2>2, <2>3 DEF Follows
<1>8. a \in {c, v}
    BY <1>1, <1>2, <1>3 DEF Sourced
<1>9. a # v
  <2> SUFFICES ASSUME a = v PROVE FALSE
      OBVIOUS
  <2>1. PICK g \in c.facts, h \in c.facts :
            /\ \A e \in {g, h} : e.id \notin c.stale /\ e.source = "company.fundamentals"
            /\ f.observed \in {g.observed, h.observed}
      BY <1>1, <1>3 DEF Inherits
  <2>2. PICK e \in {g, h} : e.observed = f.observed
      BY <2>1
  <2>3. e \in c.facts /\ old(e) /\ e.id \notin c.stale
      BY <1>6, <2>1, <2>2
  <2> QED BY <1>7, <2>3
<1> QED BY <1>1, <1>6, <1>7, <1>8, <1>9 DEF c

\* A figure that is stale in a part is no evidence, and its section is reported.
LEMMA OldFiguresAreReported ==
    ASSUME NEW req, NEW results, NEW finished, Delivered(results),
           NEW f \in Collected(req, results, finished).facts, f.source = "company.fundamentals",
           Collected(req, results, finished).observed - f.observed > FundamentalMaxAge
    PROVE  /\ f.id \notin Collected(req, results, finished).evidence
           /\ "company.fundamentals" \in Collected(req, results, finished).quality.blocked
<1> DEFINE A == PartsOf(req, results, finished)  c == CompanyOf(req, results, finished)
           x == MergedOf(req, results, finished)
<1>1. PICK t \in c.sections :
          t.id = "company.fundamentals" /\ t.required = TRUE /\ t.status # "complete"
    BY OldFiguresAreStale
<1>2. f.id \in c.stale
    BY OldFiguresAreStale
<1>3. \A a \in A : IsResult(a)
    BY PartsAreResults
<1>4. c \in A
    BY DEF PartsOf
<1>5. /\ Collected(req, results, finished).facts = x.facts
      /\ Collected(req, results, finished).evidence = Ids(x.facts) \ x.stale
      /\ Collected(req, results, finished).quality.blocked = Ids(Incomplete(x.sections))
    BY CollectedFields
<1> HIDE DEF A, c
<1>6. f.id \in Together(A).stale /\ t \in Together(A).sections
    BY <1>1, <1>2, <1>3, <1>4, TogetherFields
<1>7. x.stale = Together(A).stale \cap Ids(x.facts)
    BY <1>3, MergedKeeps DEF MergedOf, A
<1>8. PICK w \in x.sections : Follows(w, t)
    BY <1>3, <1>6, MergedKeeps DEF MergedOf, A
<1> HIDE DEF x
<1>9. w \in Incomplete(x.sections) /\ w.id = "company.fundamentals"
    BY <1>1, <1>8 DEF Follows, Incomplete
<1>10. f.id \in Ids(x.facts)
    BY <1>5 DEF Ids
<1> QED BY <1>5, <1>6, <1>7, <1>9, <1>10 DEF Ids

\* Evidence that was delivered and does not count, because of the cutoff, its age or its
\* source, is reported: the section it was for is blocked, whatever the sources deliver.
THEOREM NothingIsLostSilently == Spec => []LostEvidenceIsReported
<1>1. DataInv => LostEvidenceIsReported
  <2> SUFFICES ASSUME DataInv, NEW r \in Requests, Ready(r)
               PROVE  LET b == Bundle(r) IN
                      /\ \A p \in Parts : task[r][p].state = "done" =>
                            \A s \in Results(r)[p].sections :
                               (\E i \in s.facts : i \notin b.evidence) => s.id \in b.quality.blocked
                      /\ \A f \in b.facts : (f.source = "company.fundamentals"
                                             /\ b.observed - f.observed > FundamentalMaxAge)
                            => /\ f.id \notin b.evidence
                               /\ "company.fundamentals" \in b.quality.blocked
      BY DEF LostEvidenceIsReported, Bundles
  <2>1. Delivered(Results(r))
      BY ArrivedIsDelivered
  <2>2. ASSUME NEW p \in Parts, NEW s \in Results(r)[p].sections, NEW i \in s.facts,
               i \notin Bundle(r).evidence
        PROVE  s.id \in Bundle(r).quality.blocked
    <3> DEFINE A == PartsOf(request[r], Results(r), now)
               x == MergedOf(request[r], Results(r), now)
    <3>1. Reports(Together(A), s.id, i)
        BY <2>1, PartsReport
    <3>2. \A a \in A : IsResult(a)
        BY <2>1, PartsAreResults
    <3>3. /\ Bundle(r).evidence = Ids(x.facts) \ x.stale
          /\ Bundle(r).quality.blocked = Ids(Incomplete(x.sections))
        BY CollectedFields DEF Bundle
    <3>4. i \notin Ids(x.facts) \ x.stale
        BY <2>2, <3>3
    <3> HIDE DEF A
    <3>5. s.id \in Ids(Incomplete(x.sections))
        BY <3>1, <3>2, <3>4, MergedReports DEF MergedOf, A
    <3> QED BY <3>3, <3>5
  <2>3. ASSUME NEW f \in Bundle(r).facts, f.source = "company.fundamentals",
               Bundle(r).observed - f.observed > FundamentalMaxAge
        PROVE  f.id \notin Bundle(r).evidence /\ "company.fundamentals" \in Bundle(r).quality.blocked
      BY <2>1, <2>3, OldFiguresAreReported DEF Bundle
  <2> QED BY <2>2, <2>3
<1> QED BY <1>1, AnswersHaveArrived, PTL

----------------------------------------------------------------------------
(* What the contract of a bundle asks of its parts *)

Stamp(t) == t \in Int /\ t <= MaxTime
Timed(f) == /\ f.observed \in Int /\ f.published \in Int /\ Stamp(f.collected)
            /\ FactAccepted(f)
Proper(x) ==
    /\ UniqueIds(x.sources) /\ UniqueIds(x.facts) /\ UniqueIds(x.sections)
    /\ \A s \in x.sources : Stamp(s.retrieved)
    /\ \A f \in x.facts : Timed(f)
    /\ \A s \in x.sections : SectionAccepted(s)

\* The names that the sources and the sections of a result may have.
Named(x, K, L) == /\ \A s \in x.sources : s.id \in K
                  /\ \A s \in x.sections : s.id \in L

\* The latest of some times none of which is after another: the numbers above it are
\* natural ones, and those have a least.
Before == {p \in Nat \X Nat : p[1] < p[2]}
LEMMA LeastOfNaturals ==
    ASSUME NEW T \in SUBSET Nat, T # {}
    PROVE  \E x \in T : \A y \in T : x <= y
<1>1. IsWellFoundedOn(Before, Nat)
    BY NatLessThanWellFounded DEF OpToRel, Before
<1>2. PICK x \in T : \A y \in T : ~ (<<y, x>> \in Before)
    BY <1>1, WFMin
<1>3. \A y \in T : ~(y < x)
    BY <1>2 DEF Before
<1> QED BY <1>3

LEMMA LatestOfTimes ==
    ASSUME NEW S \in SUBSET Int, S # {}, NEW b \in Int, \A t \in S : t <= b
    PROVE  Max(S) \in S /\ \A t \in S : t <= Max(S)
<1> DEFINE T == {b - t : t \in S}
<1>1. T \in SUBSET Nat
  <2> SUFFICES ASSUME NEW t \in S PROVE b - t \in Nat
      OBVIOUS
  <2> QED OBVIOUS
<1>2. T # {}
    OBVIOUS
<1>3. PICK n \in T : \A m \in T : n <= m
    BY <1>1, <1>2, LeastOfNaturals
<1>4. PICK k \in S : n = b - k
    OBVIOUS
<1>5. \A t \in S : k >= t
  <2> TAKE t \in S
  <2>1. n <= b - t
      BY <1>3
  <2> HIDE DEF T
  <2> QED BY <1>4, <2>1
<1>6. Max(S) \in S /\ \A t \in S : Max(S) >= t
    BY <1>5 DEF Max
<1> QED BY <1>6

LEMMA SeriesAreTimed ==
    ASSUME NEW series, NEW source, NEW dates \in SUBSET Int, NEW at, Stamp(at),
           \A d \in dates : d <= at
    PROVE  /\ \A f \in SeriesOf(series, source, dates, at).facts :
                 Timed(f) /\ f = Fact(f.id, source, Max(dates), at, at)
           /\ SeriesOf(series, source, dates, at).facts = {}
                 => SeriesOf(series, source, dates, at).gap = TRUE
<1> DEFINE change == IF Baseline(dates, series) = {} THEN {} ELSE {"change"}
           facts == {Fact(<<series, kind>>, source, Max(dates), at, at)
                        : kind \in {"level"} \cup change}
           x == SeriesOf(series, source, dates, at)
<1>1. x.facts = (IF dates = {} THEN {} ELSE facts) /\ (dates = {} => x.gap = TRUE)
    BY DEF SeriesOf
<1>2. \A f \in facts : f = Fact(f.id, source, Max(dates), at, at)
    BY DEF Fact
<1>3. facts # {}
    OBVIOUS
<1>4. dates # {} => Max(dates) \in Int /\ Max(dates) <= at
    BY LatestOfTimes DEF Stamp
<1> HIDE DEF facts, x
<1>5. ASSUME dates # {}, NEW f \in facts PROVE Timed(f)
  <2>1. f = Fact(f.id, source, Max(dates), at, at)
      BY <1>2
  <2>2. f.observed = Max(dates) /\ f.published = at /\ f.collected = at
      BY <2>1, FactFields
  <2> QED BY <1>4, <1>5, <2>2 DEF Timed, FactAccepted, Stamp
<1> QED BY <1>1, <1>2, <1>3, <1>5 DEF x

\* A source of macro data that answered with dates delivers facts the contract accepts,
\* and its section refers to them all.
LEMMA OfficialIsProper ==
    ASSUME NEW id, NEW source, NEW series, series # {}, NEW answers, NEW at, Stamp(at),
           \A a \in answers : \A row \in a.rows : row.date \in Int
    PROVE  /\ Proper(Official(id, source, series, answers, at))
           /\ Named(Official(id, source, series, answers, at), {source}, {id})
<1> DEFINE answered == {a \in answers : a.outcome # "failed"}
           usable == answered # {} /\ \A a \in answered : a.outcome = "answered"
           rows == IF usable THEN UNION {a.rows : a \in answered} ELSE {}
           dates(s) == Dates(rows, s, at)
           of(s) == SeriesOf(s, source, dates(s), at)
           found == {of(s) : s \in series}
           facts == UNION {r.facts : r \in found}
           gaps == \E r \in found : r.gap
           blocked == \/ \E r \in found : r.stale
                      \/ \E a \in answers : a.outcome # "answered"
           section == Built(id, Ids(facts), gaps, blocked)
           sources == IF usable THEN {Source(source, at)} ELSE {}
           stale == UNION {Ids(r.facts) : r \in {x \in found : x.stale}}
           x == Official(id, source, series, answers, at)
<1>1. x = [facts |-> facts, sources |-> sources, sections |-> {section}, stale |-> stale]
    BY DEF Official
<1>2. \A row \in rows : row.date \in Int
    OBVIOUS
<1> HIDE DEF rows
<1>3. \A s : dates(s) \in SUBSET Int /\ \A d \in dates(s) : d <= at
    BY <1>2 DEF Dates
<1> HIDE DEF dates
<1>4. \A s : /\ \A f \in of(s).facts : /\ Timed(f) /\ f = Fact(f.id, source, Max(dates(s)), at, at)
                                       /\ Origin(f.id) = s
             /\ of(s).facts = {} => of(s).gap = TRUE
  <2> TAKE s
  <2> DEFINE D == dates(s)
  <2>1. D \in SUBSET Int /\ \A d \in D : d <= at
      BY <1>3
  <2>2. of(s) = SeriesOf(s, source, D, at)
      OBVIOUS
  <2> HIDE DEF D, of
  <2>3. /\ \A f \in SeriesOf(s, source, D, at).facts :
              Timed(f) /\ f = Fact(f.id, source, Max(D), at, at)
        /\ SeriesOf(s, source, D, at).facts = {} => SeriesOf(s, source, D, at).gap = TRUE
      BY <2>1, SeriesAreTimed
  <2>4. \A f \in of(s).facts : Origin(f.id) = s
      BY <2>2, SeriesFacts
  <2> QED BY <2>2, <2>3, <2>4 DEF D
<1> HIDE DEF of
<1>5. \A f \in facts : \E s \in series : f \in of(s).facts
    OBVIOUS
<1>6. \A f \in facts : Timed(f)
    BY <1>4, <1>5
<1>7. UniqueIds(facts)
  <2> SUFFICES ASSUME NEW f \in facts, NEW g \in facts, f.id = g.id PROVE f = g
      BY DEF UniqueIds
  <2>1. PICK s \in series : f \in of(s).facts
      BY <1>5
  <2>2. PICK t \in series : g \in of(t).facts
      BY <1>5
  <2>3. s = t
      BY <1>4, <2>1, <2>2
  <2> QED BY <1>4, <2>1, <2>2, <2>3
<1>8. gaps = FALSE => Ids(facts) # {}
  <2>1. SUFFICES ASSUME facts = {} PROVE gaps
      BY DEF Ids
  <2>2. PICK s \in series : TRUE
      OBVIOUS
  <2>3. of(s).facts = {}
      BY <2>1
  <2>4. of(s).gap = TRUE
      BY <1>4, <2>3
  <2>5. of(s) \in found
      OBVIOUS
  <2> HIDE DEF found
  <2> QED BY <2>4, <2>5
<1>9. gaps \in BOOLEAN /\ blocked \in BOOLEAN
    OBVIOUS
<1>10. \A s \in sources : Stamp(s.retrieved) /\ s.id = source
    BY DEF Source
<1>11. UniqueIds(sources)
    BY DEF UniqueIds
<1> HIDE DEF gaps, blocked, facts, sources, stale
<1>12. SectionAccepted(section) /\ section.id = id
    BY <1>8, <1>9 DEF Built, Section, SectionAccepted
<1> HIDE DEF section, x
<1>13. x.facts = facts /\ x.sources = sources /\ x.sections = {section}
    BY <1>1
<1>14. UniqueIds({section})
    BY DEF UniqueIds
<1> QED BY <1>6, <1>7, <1>10, <1>11, <1>12, <1>13, <1>14 DEF Proper, Named, x

\* Results that have no name in common.
Strangers(a, b) ==
    /\ \A s \in a.sources, t \in b.sources : s.id # t.id
    /\ \A f \in a.facts, g \in b.facts : f.id # g.id
    /\ \A s \in a.sections, t \in b.sections : s.id # t.id

LEMMA NamesApart ==
    ASSUME NEW a, NEW b, NEW O, NEW P, From(a, O), From(b, P), O \cap P = {},
           NEW K, NEW L, NEW M, NEW N, Named(a, K, L), Named(b, M, N), K \cap M = {}, L \cap N = {}
    PROVE  Strangers(a, b) /\ Strangers(b, a)
<1>1. \A f \in a.facts, g \in b.facts : f.id # g.id
    BY DEF From
<1> QED BY <1>1 DEF Named, Strangers

LEMMA TogetherProper ==
    ASSUME NEW A, \A a \in A : IsResult(a) /\ Proper(a),
           \A a, b \in A : a = b \/ Strangers(a, b)
    PROVE  Proper(Together(A))
<1> DEFINE x == Together(A)
<1>1. /\ x.facts = UNION {a.facts : a \in A} /\ x.sources = UNION {a.sources : a \in A}
      /\ x.sections = UNION {a.sections : a \in A}
    BY TogetherFields
<1> HIDE DEF x
<1>2. /\ \A s \in x.sources : Stamp(s.retrieved)
      /\ \A f \in x.facts : Timed(f)
      /\ \A s \in x.sections : SectionAccepted(s)
    BY <1>1 DEF Proper
<1>3. UniqueIds(x.sources)
  <2> SUFFICES ASSUME NEW a \in A, NEW s \in a.sources, NEW b \in A, NEW t \in b.sources, s.id = t.id
               PROVE  s = t
      BY <1>1 DEF UniqueIds
  <2>1. a = b
      BY DEF Strangers
  <2> QED BY <2>1 DEF Proper, UniqueIds
<1>4. UniqueIds(x.facts)
  <2> SUFFICES ASSUME NEW a \in A, NEW s \in a.facts, NEW b \in A, NEW t \in b.facts, s.id = t.id
               PROVE  s = t
      BY <1>1 DEF UniqueIds
  <2>1. a = b
      BY DEF Strangers
  <2> QED BY <2>1 DEF Proper, UniqueIds
<1>5. UniqueIds(x.sections)
  <2> SUFFICES ASSUME NEW a \in A, NEW s \in a.sections, NEW b \in A, NEW t \in b.sections, s.id = t.id
               PROVE  s = t
      BY <1>1 DEF UniqueIds
  <2>1. a = b
      BY DEF Strangers
  <2> QED BY <2>1 DEF Proper, UniqueIds
<1> QED BY <1>2, <1>3, <1>4, <1>5 DEF Proper, x

LEMMA TogetherNamed ==
    ASSUME NEW A, \A a \in A : IsResult(a), NEW K, NEW L, \A a \in A : Named(a, K, L)
    PROVE  Named(Together(A), K, L)
    BY TogetherFields DEF Named

LEMMA UnavailableSection ==
    ASSUME NEW id, NEW required
    PROVE  Unavailable(id, required).id = id /\ SectionAccepted(Unavailable(id, required))
    BY DEF Unavailable, Section, SectionAccepted

LEMMA NothingIsProper ==
    ASSUME NEW sections
    PROVE  Proper(Nothing(sections)) /\ \A K : Named(Nothing(sections), K, sections)
<1>1. Nothing(sections).sections = {Unavailable(id, TRUE) : id \in sections}
    BY DEF Nothing
<1>2. Nothing(sections).facts = {} /\ Nothing(sections).sources = {}
    BY NothingIsEmpty
<1>3. \A s \in Nothing(sections).sections :
          s = Unavailable(s.id, TRUE) /\ s.id \in sections /\ SectionAccepted(s)
    BY <1>1 DEF Unavailable, Section, SectionAccepted
<1> QED BY <1>2, <1>3 DEF Proper, Named, UniqueIds

\* The Korean supplement does not count among the sections of every market.
MacroSources == {"treasury", "bls"}
EcosSection == {"macro.kr.ecos"}

LEMMA MacroFetchIsProper ==
    ASSUME NEW feed \in MacroFeeds, NEW at, Stamp(at)
    PROVE  /\ Proper(FetchMacro(feed, at))
           /\ Named(FetchMacro(feed, at), MacroSources, CommonSections)
<1> DEFINE R == "macro.rates"  G == "macro.growth_inflation"
           a == Official(R, "treasury", TreasurySeries, feed.treasury, at)
           b == Official(G, "bls", BlsSeries, {feed.bls}, at)
           t == Together({a, b})
           rest == {Unavailable(id, TRUE) : id \in CommonSections \ {R, G}}
           x == [t EXCEPT !.sections = @ \cup rest]
<1>1. FetchMacro(feed, at) = x
    BY DEF FetchMacro
<1>2. TreasurySeries # {} /\ BlsSeries # {} /\ TreasurySeries \cap BlsSeries = {}
    BY DEF TreasurySeries, BlsSeries
<1>3. /\ IsResult(a) /\ From(a, TreasurySeries) /\ IsResult(b) /\ From(b, BlsSeries)
    BY OfficialIsCandid
<1>4. Proper(a) /\ Named(a, {"treasury"}, {R})
  <2>1. \A y \in feed.treasury : \A row \in y.rows : row.date \in Int
      BY TimesAssumption
  <2> QED BY <1>2, <2>1, OfficialIsProper
<1>5. Proper(b) /\ Named(b, {"bls"}, {G})
  <2>1. \A y \in {feed.bls} : \A row \in y.rows : row.date \in Int
      BY TimesAssumption
  <2> QED BY <1>2, <2>1, OfficialIsProper
<1>6. \A s \in rest : /\ s = Unavailable(s.id, TRUE) /\ s.id \in CommonSections \ {R, G}
                      /\ SectionAccepted(s) /\ IsSection(s)
    BY DEF Unavailable, Section, SectionAccepted, IsSection
<1> HIDE DEF a, b, rest
<1>7. Strangers(a, b) /\ Strangers(b, a)
    BY <1>2, <1>3, <1>4, <1>5, NamesApart
<1>8. Proper(t) /\ IsResult(t)
    BY <1>3, <1>4, <1>5, <1>7, TogetherProper, TogetherFields
<1>9. Named(t, MacroSources, {R, G})
  <2>1. Named(a, MacroSources, {R, G}) /\ Named(b, MacroSources, {R, G})
      BY <1>4, <1>5 DEF Named, MacroSources
  <2> QED BY <1>3, <2>1, TogetherNamed
<1> HIDE DEF t
<1>10. x.facts = t.facts /\ x.sources = t.sources /\ x.sections = t.sections \cup rest
  <2> DEFINE S == t.sections \cup rest
  <2>1. \A s \in S : IsSection(s)
      BY <1>6, <1>8 DEF IsResult
  <2> HIDE DEF S
  <2>2. x = [t EXCEPT !.sections = S]
      BY DEF S
  <2> HIDE DEF x
  <2> QED BY <1>8, <2>1, <2>2, NewSections DEF S
<1> HIDE DEF x
<1>11. UniqueIds(x.sections)
    BY <1>6, <1>8, <1>9, <1>10 DEF UniqueIds, Proper, Named
<1>12. Proper(x)
    BY <1>6, <1>8, <1>10, <1>11 DEF Proper
<1>13. Named(x, MacroSources, CommonSections)
  <2>1. {R, G} \subseteq CommonSections
      BY DEF CommonSections
  <2> QED BY <1>6, <1>9, <1>10, <2>1 DEF Named
<1> QED BY <1>1, <1>12, <1>13

LEMMA EcosFetchIsProper ==
    ASSUME NEW feed \in EcosFeeds, NEW at, Stamp(at)
    PROVE  Proper(FetchEcos(feed, at)) /\ Named(FetchEcos(feed, at), {"ecos"}, EcosSection)
<1> DEFINE past(s) == {d \in feed[s] : d <= at}
           found == {s \in EcosSeries : past(s) # {}}
           fact(s) == Fact(<<s, "level">>, "ecos", Max(past(s)), at, at)
           facts == {fact(s) : s \in found}
           stale == {<<s, "level">> : s \in {x \in found : at - Max(past(x)) > MaxAge[x]}}
           blocked == found # EcosSeries \/ stale # {}
           sources == IF facts = {} THEN {} ELSE {Source("ecos", at)}
           section == Section("macro.kr.ecos", IF blocked THEN "blocked" ELSE "complete",
                              TRUE, Ids(facts), blocked, blocked)
           x == FetchEcos(feed, at)
<1>1. x = [facts |-> facts, sources |-> sources, sections |-> {section}, stale |-> stale]
    BY DEF FetchEcos
<1>2. \A s \in found : Max(past(s)) \in Int /\ Max(past(s)) <= at
  <2> TAKE s \in found
  <2> DEFINE D == past(s)
  <2>1. D \in SUBSET Int /\ D # {} /\ \A d \in D : d <= at
      BY TimesAssumption
  <2> HIDE DEF D
  <2> QED BY <2>1, LatestOfTimes DEF Stamp, D
<1> HIDE DEF past
<1>3. \A s \in found : Timed(fact(s)) /\ fact(s).id = <<s, "level">>
    BY <1>2 DEF Fact, Timed, FactAccepted, Stamp
<1>4. ~blocked => facts # {}
    BY DEF EcosSeries
<1>5. \A s \in sources : Stamp(s.retrieved) /\ s.id = "ecos"
    BY DEF Source
<1>6. UniqueIds(sources)
    BY DEF UniqueIds
<1> HIDE DEF fact, found
<1>7. \A f \in facts : Timed(f)
    BY <1>3
<1>8. UniqueIds(facts)
    BY <1>3 DEF UniqueIds
<1>9. blocked \in BOOLEAN
    OBVIOUS
<1>10. ~blocked => Ids(facts) # {}
    BY <1>4 DEF Ids
<1> HIDE DEF facts, sources, blocked, stale
<1>11. SectionAccepted(section) /\ section.id = "macro.kr.ecos"
    BY <1>9, <1>10 DEF Section, SectionAccepted
<1> HIDE DEF section, x
<1>12. x.facts = facts /\ x.sources = sources /\ x.sections = {section}
    BY <1>1
<1>13. UniqueIds({section})
    BY DEF UniqueIds
<1> QED BY <1>5, <1>6, <1>7, <1>8, <1>11, <1>12, <1>13 DEF Proper, Named, EcosSection, x

CompanySections == {"company.fundamentals", "company.news"}

LEMMA CompanyFetchIsProper ==
    ASSUME NEW r \in Requests, NEW held \in Filings[r], NEW filings \in SUBSET held,
           NEW cutoff, NEW at, Stamp(at), \A f \in filings : f.published <= at
    PROVE  /\ Proper(FetchCompany(filings, cutoff, at))
           /\ Named(FetchCompany(filings, cutoff, at), CompanySections, CompanySections)
<1> DEFINE F == "company.fundamentals"  N == "company.news"
           of(section) == {f \in filings : f.section = section /\ f.published <= cutoff}
           fact(section, f) == Fact(<<"company", f.id>>, section, f.observed, f.published, at)
           facts(section) == {fact(section, f) : f \in of(section)}
           gaps == Ids(of(F)) # {"income", "equity"}
           a == Evidence(F, Ids(facts(F)), gaps, TRUE)
           b == Evidence(N, Ids(facts(N)), TRUE, TRUE)
           sources == {Source(F, at), Source(N, at)}
           x == FetchCompany(filings, cutoff, at)
<1>1. x = [facts |-> facts(F) \cup facts(N), sources |-> sources,
           sections |-> {a, b}, stale |-> {}]
    BY DEF FetchCompany
<1>2. /\ a.id = F /\ SectionAccepted(a) /\ b.id = N /\ SectionAccepted(b)
    BY DEF Evidence, Unavailable, Section, SectionAccepted
<1> HIDE DEF a, b
<1>3. UniqueIds({a, b})
    BY <1>2 DEF UniqueIds
<1>4. UniqueIds(sources) /\ \A s \in sources : Stamp(s.retrieved) /\ s.id \in {F, N}
    BY DEF UniqueIds, Source
<1>5. \A section : \A f \in filings : Timed(fact(section, f))
  <2>1. \A f \in filings : f.observed \in Int /\ f.published \in Int /\ f.observed <= f.published
      BY FilingsAssumption
  <2> QED BY <2>1 DEF Fact, Timed, FactAccepted
<1>6. \A section : \A f \in facts(section) : \E g \in filings : f = fact(section, g)
    OBVIOUS
<1> HIDE DEF fact, facts, sources, x
<1>7. x.facts = facts(F) \cup facts(N) /\ x.sources = sources /\ x.sections = {a, b}
    BY <1>1
<1>8. \A f \in x.facts : Timed(f)
    BY <1>5, <1>6, <1>7
<1>9. UniqueIds(x.facts)
    BY CompanyFetch DEF Filed, UniqueIds, x
<1> QED BY <1>2, <1>3, <1>4, <1>7, <1>8, <1>9 DEF Proper, Named, CompanySections, x

LEMMA CutIsAccepted ==
    ASSUME NEW s, SectionAccepted(s), NEW kept, NEW rest \in {"partial", "blocked"}
    PROVE  SectionAccepted(Cut(s, kept, rest))
<1> DEFINE left == s.facts \cap Ids(kept)
           status == IF left = {} \/ s.status = "blocked" THEN "blocked" ELSE rest
           t == Section(s.id, status, s.required, left, TRUE, s.reasons \/ status = "blocked")
<1>1. Cut(s, kept, rest) = IF s.facts \subseteq Ids(kept) THEN s ELSE t
    BY Zenon DEF Cut
<1>2. status \in {"partial", "blocked"} /\ (status = "partial" => left # {})
    OBVIOUS
<1> HIDE DEF status, left
<1>3. SectionAccepted(t)
    BY <1>2 DEF Section, SectionAccepted
<1> HIDE DEF t
<1> QED BY <1>1, <1>3

LEMMA MendedIsAccepted ==
    ASSUME NEW s, SectionAccepted(s), NEW kept
    PROVE  SectionAccepted(Mended(s, kept))
<1> DEFINE t == Section(s.id, "blocked", s.required, s.facts \cap Ids(kept), s.gaps, TRUE)
<1>1. Mended(s, kept) = IF s.facts \subseteq Ids(kept) THEN s ELSE t
    BY DEF Mended
<1>2. SectionAccepted(t)
    BY DEF Section, SectionAccepted
<1> HIDE DEF t
<1> QED BY <1>1, <1>2

LEMMA AgedIsAccepted ==
    ASSUME NEW s, SectionAccepted(s), NEW old
    PROVE  SectionAccepted(Aged(s, old))
<1> DEFINE status == IF s.status = "complete" THEN "partial" ELSE s.status
           t == Section(s.id, "blocked", s.required, s.facts, s.gaps, TRUE)
           u == Section(s.id, status, s.required, s.facts, TRUE, TRUE)
<1>1. Aged(s, old) = IF old # {} THEN t
                     ELSE IF s.id = "company.news" /\ s.facts # {} THEN u ELSE s
    BY DEF Aged
<1>2. status # "complete" /\ (status = "unavailable" => s.facts = {})
    BY DEF SectionAccepted
<1> HIDE DEF status
<1>3. SectionAccepted(t)
    BY DEF Section, SectionAccepted
<1>4. s.facts # {} => SectionAccepted(u)
    BY <1>2 DEF Section, SectionAccepted
<1> HIDE DEF t, u
<1> QED BY <1>1, <1>3, <1>4

LEMMA RestrictedProper ==
    ASSUME NEW x, IsResult(x), Proper(x), NEW cutoff, NEW rest \in {"partial", "blocked"}
    PROVE  /\ Proper(Restricted(x, cutoff, rest))
           /\ Restricted(x, cutoff, rest).sources = x.sources
           /\ \A K, L : Named(x, K, L) => Named(Restricted(x, cutoff, rest), K, L)
<1> DEFINE kept == {f \in x.facts : Past(f, cutoff)}
           cut(s) == Cut(s, kept, rest)
           y == Restricted(x, cutoff, rest)
<1>1. y = [facts |-> kept, sources |-> x.sources, stale |-> x.stale \cap Ids(kept),
           sections |-> {cut(s) : s \in x.sections}]
    BY DEF Restricted
<1>2. \A s \in x.sections : cut(s).id = s.id /\ SectionAccepted(cut(s))
    BY CutFollows, CutIsAccepted DEF IsResult, Proper, Follows
<1> HIDE DEF y, cut
<1>3. y.facts = kept /\ y.sources = x.sources /\ y.sections = {cut(s) : s \in x.sections}
    BY <1>1
<1>4. UniqueIds(y.sections) /\ UniqueIds(y.facts)
    BY <1>2, <1>3 DEF UniqueIds, Proper
<1>5. Proper(y)
    BY <1>2, <1>3, <1>4 DEF Proper
<1>6. \A K, L : Named(x, K, L) => Named(y, K, L)
    BY <1>2, <1>3 DEF Named
<1> QED BY <1>3, <1>5, <1>6 DEF y

LEMMA CompanyProper ==
    ASSUME NEW x, IsResult(x), Proper(x), NEW cutoff
    PROVE  /\ Proper(CompanyPart(x, cutoff)) /\ CompanyPart(x, cutoff).sources = x.sources
           /\ \A K, L : Named(x, K, L) => Named(CompanyPart(x, cutoff), K, L)
<1> DEFINE old(s) == Ids(StaleFacts(x, s.id, cutoff))
           aged(s) == Aged(s, old(s))
           y == CompanyPart(x, cutoff)
<1>1. y = [facts |-> x.facts, sources |-> x.sources,
           stale |-> UNION {old(s) : s \in x.sections},
           sections |-> {aged(s) : s \in x.sections}]
    BY DEF CompanyPart
<1>2. \A s \in x.sections : aged(s).id = s.id /\ SectionAccepted(aged(s))
    BY AgedFollows, AgedIsAccepted DEF IsResult, Proper, Follows
<1> HIDE DEF y, aged, old
<1>3. y.facts = x.facts /\ y.sources = x.sources /\ y.sections = {aged(s) : s \in x.sections}
    BY <1>1
<1>4. UniqueIds(y.sections)
    BY <1>2, <1>3 DEF UniqueIds, Proper
<1>5. Proper(y)
    BY <1>2, <1>3, <1>4 DEF Proper
<1>6. \A K, L : Named(x, K, L) => Named(y, K, L)
    BY <1>2, <1>3 DEF Named
<1> QED BY <1>3, <1>5, <1>6 DEF y

PriceSections == {"price.core", "price.technical"}

LEMMA PriceProper ==
    ASSUME NEW snapshot, NEW cutoff, snapshot.observed \in Int, Stamp(snapshot.fetched)
    PROVE  /\ Proper(PricePart(snapshot, cutoff))
           /\ Named(PricePart(snapshot, cutoff), {"price"}, PriceSections)
<1> DEFINE fact(id) == Fact(<<"price", id>>, "price", snapshot.observed, snapshot.fetched,
                            snapshot.fetched)
           facts == {fact(id) : id \in {"close"} \cup (IF snapshot.complete THEN {"atr"} ELSE {})}
           core == Evidence("price.core", Ids(facts), ~snapshot.complete, TRUE)
           old == Section(core.id, "blocked", TRUE, core.facts, core.gaps, TRUE)
           late == cutoff - snapshot.observed > PriceMaxAge
           technical == Unavailable("price.technical", FALSE)
           refused == Section("price.core", "blocked", TRUE, {}, FALSE, TRUE)
           x == [Nothing({}) EXCEPT !.sections = {refused, technical}]
           sources == {Source("price", snapshot.fetched)}
           first == IF late THEN old ELSE core
           stale == IF late THEN Ids(facts) ELSE {}
           y == [facts |-> facts, sources |-> sources, sections |-> {first, technical},
                 stale |-> stale]
           z == PricePart(snapshot, cutoff)
<1>1. z = x \/ (z = y /\ snapshot.observed <= snapshot.fetched)
    BY DEF PricePart, Stamp
<1>2. \A f \in facts : \E id : f = fact(id)
    OBVIOUS
<1>3. \A f \in facts, g \in facts : f.id = g.id => f = g
    BY DEF Fact
<1>4. snapshot.observed <= snapshot.fetched => \A f \in facts : Timed(f)
  <2> SUFFICES ASSUME snapshot.observed <= snapshot.fetched, NEW id PROVE Timed(fact(id))
      BY <1>2
  <2> QED BY DEF Fact, Timed, FactAccepted, Stamp
<1>5. /\ core.id = "price.core" /\ SectionAccepted(core)
      /\ old.id = core.id /\ SectionAccepted(old)
    BY DEF Evidence, Unavailable, Section, SectionAccepted
<1>6. /\ IsSection(technical) /\ technical.id = "price.technical" /\ SectionAccepted(technical)
      /\ IsSection(refused) /\ refused.id = "price.core" /\ SectionAccepted(refused)
    BY DEF Unavailable, IsSection, Section, SectionAccepted
<1>7. \A s \in sources : Stamp(s.retrieved) /\ s.id = "price"
    BY DEF Source
<1>8. UniqueIds(sources)
    BY DEF UniqueIds
<1> HIDE DEF facts, core, old, late, technical, refused, z, sources
<1>9. first.id = "price.core" /\ SectionAccepted(first)
    BY <1>5
<1> HIDE DEF first, stale
<1>10. CASE z = x
  <2>1. x.facts = {} /\ x.sources = {} /\ x.sections = {refused, technical}
      BY <1>6, NothingIsEmpty, NewSections
  <2> HIDE DEF x
  <2>2. UniqueIds({refused, technical})
      BY <1>6 DEF UniqueIds
  <2>3. UniqueIds({})
      BY DEF UniqueIds
  <2> QED BY <1>6, <1>10, <2>1, <2>2, <2>3 DEF Proper, Named, PriceSections, z
<1>11. CASE z = y /\ snapshot.observed <= snapshot.fetched
  <2>1. y.facts = facts /\ y.sources = sources /\ y.sections = {first, technical}
      OBVIOUS
  <2> HIDE DEF y
  <2>2. UniqueIds({first, technical})
      BY <1>6, <1>9 DEF UniqueIds
  <2>3. UniqueIds(facts)
      BY <1>3 DEF UniqueIds
  <2> QED BY <1>4, <1>6, <1>7, <1>8, <1>9, <1>11, <2>1, <2>2, <2>3 DEF Proper, Named, PriceSections, z
<1> QED BY <1>1, <1>10, <1>11

LEMMA ValuationProper ==
    ASSUME NEW x, Filed(x), Proper(x)
    PROVE  /\ Proper(ValuationPart(x)) /\ Named(ValuationPart(x), {}, {"company.valuation"})
<1> DEFINE inputs == {f \in x.facts : f.id \in RoeIds \ x.stale}
           facts == IF Ids(inputs) = RoeIds THEN {Roe(inputs)} ELSE {}
           section == Evidence("company.valuation", Ids(facts), TRUE, FALSE)
           y == ValuationPart(x)
<1>1. y = [facts |-> facts, sources |-> {}, stale |-> {}, sections |-> {section}]
    BY DEF ValuationPart
<1>2. section.id = "company.valuation" /\ SectionAccepted(section)
    BY DEF Evidence, Unavailable, Section, SectionAccepted
<1>3. ASSUME Ids(inputs) = RoeIds
      PROVE  Timed(Roe(inputs))
  <2>0. <<"company", "income">> \in Ids(inputs) /\ <<"company", "equity">> \in Ids(inputs)
      BY <1>3 DEF RoeIds
  <2>1. PICK a \in inputs : a.id = <<"company", "income">>
      BY <2>0 DEF Ids
  <2>2. PICK b \in inputs : b.id = <<"company", "equity">>
      BY <2>0 DEF Ids
  <2>3. inputs = {a, b}
    <3>1. \A f \in inputs : f = a \/ f = b
        BY <2>1, <2>2 DEF RoeIds, Filed
    <3> QED BY <3>1
  <2>4. /\ {f.observed : f \in inputs} = {a.observed, b.observed}
        /\ {f.published : f \in inputs} = {a.published, b.published}
        /\ {f.collected : f \in inputs} = {a.collected, b.collected}
      BY <2>3
  <2>5. Timed(a) /\ Timed(b)
      BY DEF Proper
  <2> HIDE DEF inputs
  <2>6. \A m, n \in Int : LET k == Max({m, n}) IN k \in {m, n} /\ k >= m /\ k >= n
    <3> SUFFICES ASSUME NEW m \in Int, NEW n \in Int
                 PROVE  Max({m, n}) \in {m, n} /\ Max({m, n}) >= m /\ Max({m, n}) >= n
        OBVIOUS
    <3>1. \E k \in {m, n} : \A l \in {m, n} : k >= l
        OBVIOUS
    <3> QED BY <3>1 DEF Max
  <2>7. /\ Roe(inputs).observed = Max({a.observed, b.observed})
        /\ Roe(inputs).published = Max({a.published, b.published})
        /\ Roe(inputs).collected = Max({a.collected, b.collected})
      BY <2>4 DEF Roe, Fact
  <2>8. /\ a.observed \in Int /\ a.published \in Int /\ a.collected \in Int
        /\ b.observed \in Int /\ b.published \in Int /\ b.collected \in Int
        /\ a.observed <= a.published /\ a.published <= a.collected
        /\ b.observed <= b.published /\ b.published <= b.collected
        /\ a.collected <= MaxTime /\ b.collected <= MaxTime
      BY <2>5 DEF Timed, Stamp, FactAccepted
  <2>9. LET o == Max({a.observed, b.observed})  p == Max({a.published, b.published})
            c == Max({a.collected, b.collected})
        IN  /\ o \in Int /\ p \in Int /\ c \in Int /\ o <= p /\ p <= c /\ c <= MaxTime
    <3> DEFINE o == Max({a.observed, b.observed})  p == Max({a.published, b.published})
               c == Max({a.collected, b.collected})
    <3>1. /\ o \in {a.observed, b.observed}
          /\ p \in {a.published, b.published} /\ p >= a.published /\ p >= b.published
          /\ c \in {a.collected, b.collected} /\ c >= a.collected /\ c >= b.collected
        BY <2>6, <2>8
    <3> HIDE DEF o, p, c
    <3>2. o \in Int /\ p \in Int /\ c \in Int /\ o <= p /\ p <= c /\ c <= MaxTime
        BY <2>8, <3>1, TimesAssumption
    <3> QED BY <3>2 DEF o, p, c
  <2> QED BY <2>7, <2>9 DEF Timed, Stamp, FactAccepted
<1>4. \A f \in facts : Timed(f)
    BY <1>3
<1>5. UniqueIds(facts) /\ UniqueIds({section}) /\ UniqueIds({})
    BY DEF UniqueIds
<1> HIDE DEF inputs, facts, section, y
<1>6. y.facts = facts /\ y.sources = {} /\ y.sections = {section}
    BY <1>1
<1> QED BY <1>2, <1>4, <1>5, <1>6 DEF Proper, Named, y

\* What the three sources delivered has the names and times that the contract asks for.
Lawful(results) ==
    /\ \A p \in Parts : Proper(results[p])
    /\ Named(results["macro"], MacroSources, CommonSections)
    /\ Named(results["ecos"], {"ecos"}, EcosSection)
    /\ Named(results["company"], CompanySections, CompanySections)

LEMMA ArrivedIsLawful ==
    ASSUME NEW r \in Requests, DataInv, Ready(r)
    PROVE  Lawful(Results(r))
<1> DEFINE x(p) == Results(r)[p]
           answer(p) == task[r][p].delivered.answer
           at(p) == task[r][p].delivered.at
           cutoff == IF request[r].cutoff = None THEN request[r].at ELSE request[r].cutoff
<1>1. Parts = {"macro", "ecos", "company"}
    BY DEF Parts, Shared
<1>2. \A p \in Parts :
          \/ task[r][p].state = "idle" /\ x(p) = Nothing({})
          \/ /\ task[r][p].state = "done" /\ Arrived(r, p, task[r][p].delivered)
             /\ x(p) = Fetched(p, task[r][p].delivered, request[r])
    BY DEF Ready, Results, DataInv, TaskInv, Sane
<1> HIDE DEF x
<1>3. \A p \in Parts : task[r][p].state = "done" =>
          /\ Stamp(at(p))
          /\ \/ answer(p) = None
             \/ p = "macro" /\ answer(p) \in MacroFeeds
             \/ p = "ecos" /\ answer(p) \in EcosFeeds
             \/ /\ p = "company"
                /\ \E held \in Filings[r] : answer(p) \subseteq held
                /\ \A f \in answer(p) : f.published <= at(p)
    BY <1>2, TimesAssumption DEF Arrived, Times, Stamp
<1> DEFINE Fine(p, K, L) == Proper(x(p)) /\ Named(x(p), K, L)
<1>4. ASSUME NEW K, NEW L, NEW sections \in SUBSET L, NEW p, x(p) = Nothing(sections)
      PROVE  Fine(p, K, L)
    BY <1>4, NothingIsProper DEF Named
<1>5. Fine("macro", MacroSources, CommonSections)
  <2>1. CASE x("macro") = Nothing({})
      BY <1>4, <2>1
  <2>2. CASE task[r]["macro"].state = "done" /\ answer("macro") = None
    <3>1. x("macro") = Nothing(CommonSections)
        BY <1>1, <1>2, <2>2 DEF Fetched, Failed
    <3> QED BY <1>4, <3>1
  <2>3. CASE task[r]["macro"].state = "done" /\ answer("macro") # None
    <3>1. x("macro") = FetchMacro(answer("macro"), at("macro"))
        BY <1>1, <1>2, <2>3 DEF Fetched
    <3>2. answer("macro") \in MacroFeeds /\ Stamp(at("macro"))
        BY <1>1, <1>3, <2>3
    <3> QED BY <3>1, <3>2, MacroFetchIsProper
  <2> QED BY <1>1, <1>2, <2>1, <2>2, <2>3
<1>6. Fine("ecos", {"ecos"}, EcosSection)
  <2>1. CASE x("ecos") = Nothing({})
      BY <1>4, <2>1
  <2>2. CASE task[r]["ecos"].state = "done" /\ answer("ecos") = None
    <3>1. x("ecos") = Nothing(EcosSection)
        BY <1>1, <1>2, <2>2 DEF Fetched, Failed, EcosSection
    <3> QED BY <1>4, <3>1
  <2>3. CASE task[r]["ecos"].state = "done" /\ answer("ecos") # None
    <3>1. x("ecos") = FetchEcos(answer("ecos"), at("ecos"))
        BY <1>1, <1>2, <2>3 DEF Fetched
    <3>2. answer("ecos") \in EcosFeeds /\ Stamp(at("ecos"))
        BY <1>1, <1>3, <2>3
    <3> QED BY <3>1, <3>2, EcosFetchIsProper
  <2> QED BY <1>1, <1>2, <2>1, <2>2, <2>3
<1>7. Fine("company", CompanySections, CompanySections)
  <2>1. CASE x("company") = Nothing({})
      BY <1>4, <2>1
  <2>2. CASE task[r]["company"].state = "done" /\ answer("company") = None
    <3>1. x("company") = Nothing(CompanySections)
        BY <1>1, <1>2, <2>2 DEF Fetched, Failed, CompanySections
    <3> QED BY <1>4, <3>1
  <2>3. CASE task[r]["company"].state = "done" /\ answer("company") # None
    <3>1. x("company") = FetchCompany(answer("company"), cutoff, at("company"))
        BY <1>1, <1>2, <2>3 DEF Fetched
    <3>2. /\ Stamp(at("company")) /\ \A f \in answer("company") : f.published <= at("company")
          /\ \E held \in Filings[r] : answer("company") \subseteq held
        BY <1>1, <1>3, <2>3
    <3>3. PICK held \in Filings[r] : answer("company") \in SUBSET held
        BY <3>2
    <3> HIDE DEF cutoff
    <3> QED BY <3>1, <3>2, <3>3, CompanyFetchIsProper
  <2> QED BY <1>1, <1>2, <2>1, <2>2, <2>3
<1> QED BY <1>1, <1>5, <1>6, <1>7 DEF Lawful, x

\* The bundle's cutoff is not before any time in its parts.
LEMMA CutoffIsLast ==
    ASSUME NEW req, NEW finished, NEW macro, NEW company, Proper(macro), Proper(company),
           Stamp(req.at), Stamp(finished), Stamp(req.snapshot.fetched)
    PROVE  LET cutoff == BundleCutoff(req, finished, macro, company) IN
           /\ cutoff \in Int /\ req.at <= cutoff /\ req.snapshot.fetched <= cutoff
           /\ \A s \in macro.sources \cup company.sources : s.retrieved <= cutoff
<1> DEFINE S == {req.at, finished, req.snapshot.fetched}
                \cup {s.retrieved : s \in macro.sources \cup company.sources}
                \cup {f.collected : f \in macro.facts \cup company.facts}
<1>1. \A t \in S : t \in Int /\ t <= MaxTime
    BY DEF Proper, Timed, Stamp
<1>2. /\ req.at \in S /\ req.snapshot.fetched \in S
      /\ \A s \in macro.sources \cup company.sources : s.retrieved \in S
    OBVIOUS
<1>3. BundleCutoff(req, finished, macro, company) = Max(S)
    BY DEF BundleCutoff
<1> HIDE DEF S
<1>4. Max(S) \in S /\ \A t \in S : t <= Max(S)
    BY <1>1, <1>2, TimesAssumption, LatestOfTimes
<1> QED BY <1>1, <1>2, <1>3, <1>4

LEMMA MergedIsAccepted ==
    ASSUME NEW A, \A a \in A : IsResult(a), Proper(Together(A)), NEW cutoff,
           \A s \in Together(A).sections : s.id # "integrity"
    PROVE  /\ Merged(A, cutoff).sources = Together(A).sources
           /\ UniqueIds(Merged(A, cutoff).sources) /\ UniqueIds(Merged(A, cutoff).facts)
           /\ UniqueIds(Merged(A, cutoff).sections)
           /\ \A f \in Merged(A, cutoff).facts :
                 FactAccepted(f) /\ Fits(f, Merged(A, cutoff).sources, cutoff)
           /\ \A s \in Merged(A, cutoff).sections :
                 SectionAccepted(s) /\ s.facts \subseteq Ids(Merged(A, cutoff).facts)
           /\ Merged(A, cutoff).stale \subseteq Ids(Merged(A, cutoff).facts)
<1> DEFINE all == Together(A)
           kept == {f \in all.facts : Fits(f, all.sources, cutoff)}
           whole == kept = all.facts /\ \A s \in all.sections : s.facts \subseteq Ids(kept)
           mended(s) == Mended(s, kept)
           x == Merged(A, cutoff)
<1>1. x = [facts |-> kept, sources |-> all.sources, stale |-> all.stale \cap Ids(kept),
           sections |-> {mended(s) : s \in all.sections} \cup Integrity(whole)]
    BY DEF Merged
<1>2. IsResult(all)
    BY TogetherFields
<1>3. \A s \in all.sections : mended(s).id = s.id /\ SectionAccepted(mended(s))
    BY <1>2, MendedFollows, MendedIsAccepted DEF IsResult, Follows, Proper
<1>4. \A t \in Integrity(whole) : t.id = "integrity" /\ SectionAccepted(t)
    BY DEF Integrity, Section, SectionAccepted
<1>5. UniqueIds(Integrity(whole))
    BY DEF Integrity, UniqueIds
<1>6. \A f \in kept : FactAccepted(f) /\ Fits(f, all.sources, cutoff)
    BY DEF Proper, Timed
<1>7. UniqueIds(kept)
    BY DEF UniqueIds, Proper
<1>8. \A t \in x.sections : t.facts \subseteq Ids(x.facts)
    BY MergedKeeps
<1> HIDE DEF whole, mended, kept, x, all
<1>9. /\ x.facts = kept /\ x.sources = all.sources /\ x.stale = all.stale \cap Ids(kept)
      /\ x.sections = {mended(s) : s \in all.sections} \cup Integrity(whole)
    BY <1>1
<1>10. UniqueIds(x.sections)
  <2>1. \A s \in all.sections : s.id # "integrity"
      BY DEF all
  <2>2. UniqueIds(all.sections)
      BY DEF Proper, all
  <2> QED BY <1>3, <1>4, <1>5, <1>9, <2>1, <2>2 DEF UniqueIds
<1>11. \A s \in x.sections : SectionAccepted(s)
    BY <1>3, <1>4, <1>9
<1>12. UniqueIds(x.sources)
    BY <1>9 DEF Proper, all
<1> QED BY <1>6, <1>7, <1>8, <1>9, <1>10, <1>11, <1>12 DEF x, all

LEMMA PriceSource ==
    ASSUME NEW snapshot, NEW cutoff
    PROVE  \A s \in PricePart(snapshot, cutoff).sources : s.retrieved = snapshot.fetched
<1> DEFINE facts == {Fact(<<"price", id>>, "price", snapshot.observed, snapshot.fetched,
                          snapshot.fetched)
                       : id \in {"close"} \cup (IF snapshot.complete THEN {"atr"} ELSE {})}
           core == Evidence("price.core", Ids(facts), ~snapshot.complete, TRUE)
           old == Section(core.id, "blocked", TRUE, core.facts, core.gaps, TRUE)
           late == cutoff - snapshot.observed > PriceMaxAge
           technical == Unavailable("price.technical", FALSE)
           refused == Section("price.core", "blocked", TRUE, {}, FALSE, TRUE)
           x == [Nothing({}) EXCEPT !.sections = {refused, technical}]
           sources == {Source("price", snapshot.fetched)}
           y == [facts |-> facts, sources |-> sources,
                 sections |-> {IF late THEN old ELSE core, technical},
                 stale |-> IF late THEN Ids(facts) ELSE {}]
           z == PricePart(snapshot, cutoff)
<1>1. z = x \/ z = y
    BY DEF PricePart
<1>2. \A s \in sources : s.retrieved = snapshot.fetched
    BY DEF Source
<1>3. IsSection(technical) /\ IsSection(refused)
    BY DEF Unavailable, IsSection, Section
<1> HIDE DEF facts, core, old, late, technical, refused, z, sources
<1>4. x.sources = {}
    BY <1>3, NothingIsEmpty, NewSections
<1>5. y.sources = sources
    OBVIOUS
<1> HIDE DEF x, y
<1> QED BY <1>1, <1>2, <1>4, <1>5 DEF z

\* No two parts of a bundle share a name, and their sources were read by its cutoff.
LEMMA PartsAreProper ==
    ASSUME NEW req, NEW results, NEW finished, Delivered(results), Lawful(results),
           Stamp(req.at), Stamp(finished), req.snapshot.observed \in Int,
           Stamp(req.snapshot.fetched)
    PROVE  /\ Proper(Together(PartsOf(req, results, finished)))
           /\ \A s \in Together(PartsOf(req, results, finished)).sections : s.id # "integrity"
           /\ \A s \in Together(PartsOf(req, results, finished)).sources :
                 s.retrieved <= CutoffOf(req, results, finished)
           /\ req.at <= CutoffOf(req, results, finished) /\ CutoffOf(req, results, finished) \in Int
<1> DEFINE A == PartsOf(req, results, finished)  k == CutoffOf(req, results, finished)
           o == ObservedBy(req, finished)
           M == {results["macro"], results["ecos"]}  t == Together(M)
           m == MacroOf(req, results, finished)  u == FilingsOf(req, results, finished)
           c == CompanyOf(req, results, finished)
           p == PricePart(req.snapshot, k)
           v == ValuationPart(c)  n == Nothing({"independent.news"})
           MK == MacroSources \cup {"ecos"}  ML == CommonSections \cup EcosSection
<1>1. {"macro", "ecos", "company"} \subseteq Parts
    BY DEF Parts, Shared
<1>2. Proper(t) /\ Named(t, MK, ML) /\ IsResult(t)
  <2> DEFINE a == results["macro"]  b == results["ecos"]
  <2>1. /\ IsResult(a) /\ Proper(a) /\ Named(a, MacroSources, CommonSections)
        /\ IsResult(b) /\ Proper(b) /\ Named(b, {"ecos"}, EcosSection)
        /\ From(a, TreasurySeries \cup BlsSeries) /\ From(b, EcosSeries)
      BY <1>1 DEF Delivered, Lawful
  <2>2. Named(a, MK, ML) /\ Named(b, MK, ML)
      BY <2>1 DEF Named
  <2> HIDE DEF a, b
  <2>3. Strangers(a, b) /\ Strangers(b, a)
    <3>1. /\ (TreasurySeries \cup BlsSeries) \cap EcosSeries = {}
          /\ MacroSources \cap {"ecos"} = {} /\ CommonSections \cap EcosSection = {}
        BY DEF TreasurySeries, BlsSeries, EcosSeries, MacroSources, CommonSections, EcosSection
    <3> QED BY <2>1, <3>1, NamesApart
  <2>4. t = Together({a, b})
      BY DEF a, b
  <2> HIDE DEF t
  <2> QED BY <2>1, <2>2, <2>3, <2>4, TogetherProper, TogetherNamed, TogetherFields
<1>3. IsResult(results["company"]) /\ Proper(results["company"])
      /\ Named(results["company"], CompanySections, CompanySections)
    BY <1>1 DEF Delivered, Lawful
<1> HIDE DEF t
<1>4. Proper(m) /\ Named(m, MK, ML)
  <2> HIDE DEF MK, ML, o
  <2>1. m = Restricted(t, o, "partial")
      BY DEF MacroOf, MacroRestricted, t, o
  <2> HIDE DEF m
  <2> QED BY <1>2, <2>1, RestrictedProper
<1>5. Proper(u) /\ Named(u, CompanySections, CompanySections)
  <2> HIDE DEF o
  <2>1. u = Restricted(results["company"], o, "blocked")
      BY DEF FilingsOf, CompanyRestricted, o
  <2> HIDE DEF u
  <2> QED BY <1>3, <2>1, RestrictedProper
<1>6. Proper(c) /\ Named(c, CompanySections, CompanySections) /\ c.sources = u.sources
  <2> HIDE DEF o
  <2>1. c = CompanyPart(u, o)
      BY DEF CompanyOf, o
  <2>2. IsResult(u)
      BY PartsAreResults DEF Derived
  <2> HIDE DEF u, c
  <2> QED BY <1>5, <2>1, <2>2, CompanyProper
<1>7. k = BundleCutoff(req, finished, m, u)
    BY DEF CutoffOf
<1> HIDE DEF k, m, u
<1>8. /\ k \in Int /\ req.at <= k /\ req.snapshot.fetched <= k
      /\ \A s \in m.sources \cup u.sources : s.retrieved <= k
    BY <1>4, <1>5, <1>7, CutoffIsLast
<1>9. Proper(p) /\ Named(p, {"price"}, PriceSections)
    BY PriceProper
<1>10. Filed(c) /\ From(c, {"company"}) /\ From(m, MacroSeries)
    BY PartsAreResults DEF m
<1> HIDE DEF c
<1>11. Proper(v) /\ Named(v, {}, {"company.valuation"}) /\ From(v, {"company.valuation"})
    BY <1>6, <1>10, ValuationProper, ValuationFrom
<1>12. Proper(n) /\ Named(n, {}, {"independent.news"}) /\ From(n, {})
    BY NothingIsProper, NothingIsEmpty DEF From
<1>13. From(p, {"price"})
    BY PriceFrom
<1>14. A = {p, m, c, v, n}
    BY DEF PartsOf, m, c, k
<1>15. \A a \in A : IsResult(a)
    BY PartsAreResults
<1>16. \A s \in p.sources : s.retrieved = req.snapshot.fetched
  <2> HIDE DEF k
  <2> QED BY PriceSource
<1> HIDE DEF A, p, v, n, MK, ML
<1>17. \A a, b \in A : a = b \/ Strangers(a, b)
  <2>1. MacroSeries \cap {"price", "company", "company.valuation"} = {}
      BY DEF MacroSeries, TreasurySeries, BlsSeries, EcosSeries
  <2>2. MK \cap ({"price"} \cup CompanySections) = {} /\ "price" \notin CompanySections
      BY DEF MK, MacroSources, CompanySections
  <2>3. /\ ML \cap (PriceSections \cup CompanySections \cup {"company.valuation", "independent.news"}) = {}
        /\ PriceSections \cap (CompanySections \cup {"company.valuation", "independent.news"}) = {}
        /\ CompanySections \cap {"company.valuation", "independent.news"} = {}
      BY DEF ML, PriceSections, CommonSections, EcosSection, CompanySections
  <2>4. Strangers(p, m) /\ Strangers(m, p)
    <3>1. {"price"} \cap MacroSeries = {} /\ {"price"} \cap MK = {} /\ PriceSections \cap ML = {}
        BY <2>1, <2>2, <2>3
    <3> QED BY <1>4, <1>9, <1>10, <1>13, <3>1, NamesApart
  <2>5. Strangers(p, c) /\ Strangers(c, p)
    <3>1. /\ {"price"} \cap {"company"} = {} /\ {"price"} \cap CompanySections = {}
          /\ PriceSections \cap CompanySections = {}
        BY <2>2, <2>3
    <3> QED BY <1>6, <1>9, <1>10, <1>13, <3>1, NamesApart
  <2>6. Strangers(p, v) /\ Strangers(v, p)
    <3>1. /\ {"price"} \cap {"company.valuation"} = {} /\ {"price"} \cap {} = {}
          /\ PriceSections \cap {"company.valuation"} = {}
        BY <2>3
    <3> QED BY <1>9, <1>11, <1>13, <3>1, NamesApart
  <2>7. Strangers(p, n) /\ Strangers(n, p)
    <3>1. {"price"} \cap {} = {} /\ PriceSections \cap {"independent.news"} = {}
        BY <2>3
    <3> QED BY <1>9, <1>12, <1>13, <3>1, NamesApart
  <2>8. Strangers(m, c) /\ Strangers(c, m)
    <3>1. MacroSeries \cap {"company"} = {} /\ MK \cap CompanySections = {} /\ ML \cap CompanySections = {}
        BY <2>1, <2>2, <2>3
    <3> QED BY <1>4, <1>6, <1>10, <3>1, NamesApart
  <2>9. Strangers(m, v) /\ Strangers(v, m)
    <3>1. /\ MacroSeries \cap {"company.valuation"} = {} /\ MK \cap {} = {}
          /\ ML \cap {"company.valuation"} = {}
        BY <2>1, <2>3
    <3> QED BY <1>4, <1>10, <1>11, <3>1, NamesApart
  <2>10. Strangers(m, n) /\ Strangers(n, m)
    <3>1. MacroSeries \cap {} = {} /\ MK \cap {} = {} /\ ML \cap {"independent.news"} = {}
        BY <2>3
    <3> QED BY <1>4, <1>10, <1>12, <3>1, NamesApart
  <2>11. Strangers(c, v) /\ Strangers(v, c)
    <3>1. /\ {"company"} \cap {"company.valuation"} = {} /\ CompanySections \cap {} = {}
          /\ CompanySections \cap {"company.valuation"} = {}
        BY <2>3
    <3> QED BY <1>6, <1>10, <1>11, <3>1, NamesApart
  <2>12. Strangers(c, n) /\ Strangers(n, c)
    <3>1. /\ {"company"} \cap {} = {} /\ CompanySections \cap {} = {}
          /\ CompanySections \cap {"independent.news"} = {}
        BY <2>3
    <3> QED BY <1>6, <1>10, <1>12, <3>1, NamesApart
  <2>13. Strangers(v, n) /\ Strangers(n, v)
    <3>1. /\ {"company.valuation"} \cap {} = {} /\ {} \cap {} = {}
          /\ {"company.valuation"} \cap {"independent.news"} = {}
        OBVIOUS
    <3> QED BY <1>11, <1>12, <3>1, NamesApart
  <2> QED BY <1>14, <2>4, <2>5, <2>6, <2>7, <2>8, <2>9, <2>10, <2>11, <2>12, <2>13
<1>18. Proper(Together(A))
    BY <1>4, <1>6, <1>9, <1>11, <1>12, <1>14, <1>15, <1>17, TogetherProper
<1>19. /\ Together(A).sources = UNION {a.sources : a \in A}
       /\ Together(A).sections = UNION {a.sections : a \in A}
    BY <1>15, TogetherFields
<1>20. \A s \in Together(A).sections : s.id # "integrity"
  <2>1. "integrity" \notin ML \cup PriceSections \cup CompanySections
      BY DEF ML, PriceSections, CommonSections, EcosSection, CompanySections
  <2>2. SUFFICES ASSUME NEW a \in A, NEW s \in a.sections PROVE s.id # "integrity"
      BY <1>19
  <2>3. CASE a = p
      BY <1>9, <2>1, <2>3 DEF Named
  <2>4. CASE a = m
      BY <1>4, <2>1, <2>4 DEF Named
  <2>5. CASE a = c
      BY <1>6, <2>1, <2>5 DEF Named
  <2>6. CASE a = v
      BY <1>11, <2>6 DEF Named
  <2>7. CASE a = n
      BY <1>12, <2>7 DEF Named
  <2> QED BY <1>14, <2>3, <2>4, <2>5, <2>6, <2>7
<1>21. \A s \in Together(A).sources : s.retrieved <= k
  <2>1. \A s \in v.sources \cup n.sources : FALSE
      BY <1>11, <1>12 DEF Named
  <2> QED BY <1>6, <1>8, <1>14, <1>16, <1>19, <2>1
<1> QED BY <1>8, <1>18, <1>20, <1>21 DEF A, k

\* The contract accepts the bundle that collect builds from what has arrived.
LEMMA CollectedIsAccepted ==
    ASSUME NEW req, NEW results, NEW finished, Delivered(results), Lawful(results),
           Stamp(req.at), Stamp(finished), req.snapshot.observed \in Int,
           Stamp(req.snapshot.fetched), req.snapshot.observed <= req.at
    PROVE  BundleAccepted(Collected(req, results, finished))
<1> DEFINE b == Collected(req, results, finished)  A == PartsOf(req, results, finished)
           k == CutoffOf(req, results, finished)  x == MergedOf(req, results, finished)
           missing == MissingSections(req.market, x.sections)
           q == Quality(x, missing)
<1>1. /\ b.session = req.snapshot.observed /\ b.cutoff = k /\ b.facts = x.facts
      /\ b.sources = x.sources /\ b.sections = x.sections /\ b.quality = q
    BY CollectedFields
<1>2. /\ Proper(Together(A)) /\ \A s \in Together(A).sections : s.id # "integrity"
      /\ \A s \in Together(A).sources : s.retrieved <= k
      /\ req.at <= k /\ k \in Int
    BY PartsAreProper
<1>3. \A a \in A : IsResult(a)
    BY PartsAreResults
<1> HIDE DEF A, k
<1>4. x = Merged(A, k)
    BY DEF MergedOf, A, k
<1> HIDE DEF x
<1>5. /\ x.sources = Together(A).sources
      /\ UniqueIds(x.sources) /\ UniqueIds(x.facts) /\ UniqueIds(x.sections)
      /\ \A f \in x.facts : FactAccepted(f) /\ Fits(f, x.sources, k)
      /\ \A s \in x.sections : SectionAccepted(s) /\ s.facts \subseteq Ids(x.facts)
      /\ x.stale \subseteq Ids(x.facts)
    BY <1>2, <1>3, <1>4, MergedIsAccepted
<1>6. req.snapshot.observed <= k
    BY <1>2 DEF Stamp
<1>7. /\ q.stale = x.stale /\ q.missing = missing
      /\ q.blocked = Ids(Incomplete(x.sections)) /\ QualityAccepted(q)
    BY DEF Quality, QualityAccepted
<1>8. missing \cap Ids(x.sections) = {}
    BY DEF MissingSections
<1>9. Ids(Incomplete(x.sections)) \subseteq Ids(x.sections)
    BY DEF Ids, Incomplete
<1> HIDE DEF b, q, missing
<1> QED BY <1>1, <1>2, <1>5, <1>6, <1>7, <1>8, <1>9 DEF BundleAccepted, Fits, b

\* Whatever the sources delivered, whenever it was cached and however the clock went,
\* collect never stumbles over its own bundle: AnalysisInputBundle accepts what was
\* merged from results of different ages.
THEOREM CollectNeverStumbles == Spec => []BundlesAreAccepted
<1>1. DataInv => BundlesAreAccepted
  <2> SUFFICES ASSUME DataInv, NEW r \in Requests, Ready(r), request[r].snapshot # None
               PROVE  BundleAccepted(Bundle(r))
      BY DEF BundlesAreAccepted, Bundles, OverviewOnly
  <2>1. Delivered(Results(r)) /\ Lawful(Results(r))
      BY ArrivedIsDelivered, ArrivedIsLawful
  <2>2. /\ request[r].at \in Times /\ request[r].snapshot.observed \in Int
        /\ request[r].snapshot.fetched \in Int
        /\ request[r].snapshot.observed <= request[r].at
        /\ request[r].snapshot.fetched <= MaxTime
      BY DEF Ready, DataInv, AskedInv
  <2>3. Stamp(request[r].at) /\ Stamp(now) /\ Stamp(request[r].snapshot.fetched)
      BY <2>2, TimesAssumption DEF DataInv, Times, Stamp
  <2> QED BY <2>1, <2>2, <2>3, CollectedIsAccepted DEF Bundle
<1> QED BY <1>1, AnswersHaveArrived, PTL

=============================================================================
