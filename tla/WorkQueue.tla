----------------------------- MODULE WorkQueue -----------------------------
(***************************************************************************)
(* Manual work items of one analysis run: services/work_items.py together  *)
(* with the drain tasks that main.py starts for it.                        *)
(*                                                                         *)
(* A work item belongs to a lane (the run and one agent role).  Every      *)
(* state of an item is a new version in storage and the newest version     *)
(* wins, so `item' is what storage answers.  Drain tasks live in memory:   *)
(* each one takes the lane's next queued item, calls the provider, stores  *)
(* the outcome and loops until the lane has nothing for it.                *)
(*                                                                         *)
(* All storage calls are synchronous and publishing an event never waits,  *)
(* so the service's locks are never contended: a drain suspends only in    *)
(* the provider call and in the one second sleep.  What lies between two   *)
(* suspensions is one action.  (The loop's return to run_next does not     *)
(* suspend either; leaving the drain "ready" there only adds               *)
(* interleavings.)                                                         *)
(***************************************************************************)
EXTENDS Naturals, FiniteSets, FiniteSetsExt

CONSTANTS
    Items,        \* the work items that may be created
    Roles,        \* the agent roles, one lane each
    GapRoles,     \* roles whose missing input is answered without a provider call
    Drains,       \* the drain tasks that may exist at once
    None,         \* no role, no item
    MaxAttempts,  \* bound: attempts of one item
    MaxStops,     \* bound: crashes, shutdowns and interrupted recoveries
    MaxFaults     \* bound: storage failures that strike a drain

ASSUME WorkQueueAssumption ==
    /\ GapRoles \subseteq Roles
    /\ None \notin Items \cup Roles
    /\ MaxAttempts \in Nat \ {0} /\ MaxStops \in Nat /\ MaxFaults \in Nat

VARIABLES
    item,      \* newest stored version of each item
    run,       \* stored status of the analysis run
    market,    \* whether the run's MARKET_DATA snapshot is stored
    analysis,  \* whether a task of this process carries the run
    drain,     \* the drain tasks of this process
    up,        \* whether the server is serving
    clock,     \* history: entries into each lane's queue so far
    calls,     \* history: provider calls started for each attempt of an item
    stops, faults

stored  == <<item, run, market>>
history == <<clock, calls>>
budget  == <<stops, faults>>
vars    == <<item, run, market, analysis, drain, up, clock, calls, stops, faults>>

Statuses    == {"absent", "queued", "running", "completed", "failed", "cancelled"}
RunStatuses == {"queued", "running", "completed", "failed"}
Phases      == {"idle", "ready", "sleeping", "calling"}

Attempts == 1..MaxAttempts

Item  == [status : Statuses, role : Roles \cup {None}, seq : Nat, attempt : Nat,
          progress : BOOLEAN, ticket : Nat]
Drain == [phase : Phases, role : Roles \cup {None}, item : Items \cup {None}]

TypeOK ==
    /\ item \in [Items -> Item]
    /\ run \in RunStatuses
    /\ market \in BOOLEAN /\ analysis \in BOOLEAN /\ up \in BOOLEAN
    /\ drain \in [Drains -> Drain]
    /\ clock \in [Roles -> Nat]
    /\ calls \in [Items -> [Attempts -> Nat]]
    /\ stops \in Nat /\ faults \in Nat

----------------------------------------------------------------------------
(* What the service reads from storage *)

Lane(r)   == {i \in Items : item[i].status # "absent" /\ item[i].role = r}
Queued(r) == {i \in Lane(r) : item[i].status = "queued"}

\* Variant: a running item does not keep the lane from starting another.
Busy_Unchecked(r) == FALSE

Busy(r)   == \E i \in Lane(r) : item[i].status = "running"

\* The queued item that run_next takes: the least (queue_sequence, ...).
IsNext(i, r) ==
    /\ i \in Queued(r)
    /\ \A j \in Queued(r) : item[i].seq <= item[j].seq

\* Variant: only the waiting items are counted.
NextQueueSequence_OfWaiting(r) == Cardinality(Queued(r)) + 1

NextQueueSequence(r) == Max({0} \cup {item[i].seq : i \in Lane(r)}) + 1

RunEnded == run \in {"completed", "failed"}

\* A lane's oldest item cannot run: the analysis ended without market data.
Hopeless == ~market /\ RunEnded

Idle       == [phase |-> "idle", role |-> None, item |-> None]
Ready(r)   == [phase |-> "ready", role |-> r, item |-> None]
IdleDrains == {d \in Drains : drain[d].phase = "idle"}

\* schedule_work_items: a new drain task for the lane.
Spawn(r) == \E d \in IdleDrains : drain' = [drain EXCEPT ![d] = Ready(r)]

\* An item enters its lane's queue for the given attempt.
Enqueued(i, r, attempt) ==
    [status |-> "queued", role |-> r, seq |-> NextQueueSequence(r),
     attempt |-> attempt, progress |-> FALSE, ticket |-> clock[r] + 1]

----------------------------------------------------------------------------
(* Requests *)

\* POST /api/runs/{run}/tasks: store the item, then start a drain.
Create(i, r) ==
    /\ up /\ item[i].status = "absent"
    /\ item' = [item EXCEPT ![i] = Enqueued(i, r, 1)]
    /\ clock' = [clock EXCEPT ![r] = @ + 1]
    /\ Spawn(r)
    /\ UNCHANGED <<run, market, analysis, up, calls, budget>>

\* Variant: a running item may be cancelled.
Cancel_Unfinished(i) ==
    /\ up /\ item[i].status \in {"queued", "running"}
    /\ item' = [item EXCEPT ![i].status = "cancelled"]
    /\ UNCHANGED <<run, market, analysis, drain, up, history, budget>>

Cancel(i) ==
    /\ up /\ item[i].status = "queued"
    /\ item' = [item EXCEPT ![i].status = "cancelled"]
    /\ UNCHANGED <<run, market, analysis, drain, up, history, budget>>

\* Variant: no drain is started for the resumed item.
Resume_WithoutDrain(i) ==
    /\ up /\ item[i].status \in {"failed", "cancelled"}
    /\ item[i].attempt < MaxAttempts
    /\ item' = [item EXCEPT ![i] = Enqueued(i, @.role, @.attempt + 1)]
    /\ clock' = [clock EXCEPT ![item[i].role] = @ + 1]
    /\ UNCHANGED <<run, market, analysis, drain, up, calls, budget>>

\* A failed or cancelled item goes to the back of its lane as a new attempt.
Resume(i) ==
    /\ up /\ item[i].status \in {"failed", "cancelled"}
    /\ item[i].attempt < MaxAttempts
    /\ item' = [item EXCEPT ![i] = Enqueued(i, @.role, @.attempt + 1)]
    /\ clock' = [clock EXCEPT ![item[i].role] = @ + 1]
    /\ Spawn(item[i].role)
    /\ UNCHANGED <<run, market, analysis, up, calls, budget>>

RecordProgress(i) ==
    /\ up /\ item[i].status = "running"
    /\ item' = [item EXCEPT ![i].progress = TRUE]
    /\ UNCHANGED <<run, market, analysis, drain, up, history, budget>>

----------------------------------------------------------------------------
(* The drain loop.  A drain takes its turn when it starts, when it loops   *)
(* and when its sleep ends.                                                *)

AtTurn(d) == up /\ drain[d].phase \in {"ready", "sleeping"}

\* run_next returned None: the lane is busy or empty.
Leave(d) ==
    /\ AtTurn(d)
    /\ Busy(drain[d].role) \/ Queued(drain[d].role) = {}
    /\ drain' = [drain EXCEPT ![d] = Idle]
    /\ UNCHANGED <<stored, analysis, up, history, budget>>

\* The item that run_next of drain d takes.
Takes(d, i) == AtTurn(d) /\ ~Busy(drain[d].role) /\ IsNext(i, drain[d].role)

\* No market data yet, but the analysis may still store it: try again later.
Sleep(d) ==
    /\ \E i \in Items : Takes(d, i)
    /\ ~market /\ ~RunEnded
    /\ drain' = [drain EXCEPT ![d].phase = "sleeping"]
    /\ UNCHANGED <<stored, analysis, up, history, budget>>

Discard(d, i) ==
    /\ Takes(d, i) /\ Hopeless
    /\ item' = [item EXCEPT ![i].status = "failed"]
    /\ drain' = [drain EXCEPT ![d].phase = "ready"]
    /\ UNCHANGED <<run, market, analysis, up, history, budget>>

Begin(d, i) ==
    /\ Takes(d, i) /\ market
    /\ item' = [item EXCEPT ![i].status = "running"]
    /\ drain' = [drain EXCEPT ![d].phase = "calling", ![d].item = i]
    /\ calls' = [calls EXCEPT ![i][item[i].attempt] = @ + 1]
    /\ UNCHANGED <<run, market, analysis, up, clock, budget>>

\* The technical role with no technical input is answered in the same step.
BeginWithGap(d, i) ==
    /\ Takes(d, i) /\ market /\ drain[d].role \in GapRoles
    /\ item' = [item EXCEPT ![i].status = "completed"]
    /\ drain' = [drain EXCEPT ![d].phase = "ready"]
    /\ UNCHANGED <<run, market, analysis, up, history, budget>>

\* The provider answered or raised; the outcome is stored only over a
\* version that is still running.
Return(d, outcome) ==
    LET i == drain[d].item
    IN  /\ up /\ drain[d].phase = "calling"
        /\ item[i].status = "running"
        /\ item' = [item EXCEPT ![i].status = outcome]
        /\ drain' = [drain EXCEPT ![d] = Ready(@.role)]
        /\ UNCHANGED <<run, market, analysis, up, history, budget>>

\* Storage fails while a drain stores a version: the drain task dies and the
\* item keeps the version it had.
DrainDies(d) ==
    /\ faults < MaxFaults
    /\ up
    /\ \/ drain[d].phase = "calling"
       \/ /\ \E i \in Items : Takes(d, i)
          /\ market \/ RunEnded
    /\ drain' = [drain EXCEPT ![d] = Idle]
    /\ faults' = faults + 1
    /\ UNCHANGED <<stored, analysis, up, history, stops>>

----------------------------------------------------------------------------
(* The analysis run, as far as work items depend on it (orchestrator.py) *)

StartAnalysis ==
    /\ up /\ analysis /\ run = "queued"
    /\ run' = "running"
    /\ UNCHANGED <<item, market, analysis, drain, up, history, budget>>

StoreMarketData ==
    /\ up /\ analysis /\ run = "running" /\ ~market
    /\ market' = TRUE
    /\ UNCHANGED <<item, run, analysis, drain, up, history, budget>>

EndAnalysis ==
    /\ up /\ analysis /\ run = "running"
    /\ \/ run' = "failed"
       \/ market /\ run' = "completed"
    /\ analysis' = FALSE
    /\ UNCHANGED <<item, market, drain, up, history, budget>>

----------------------------------------------------------------------------
(* Stops and restarts *)

NoDrains == [d \in Drains |-> Idle]

\* The process dies: what is stored stays as it is.
Crash ==
    /\ up /\ stops < MaxStops
    /\ up' = FALSE /\ analysis' = FALSE
    /\ drain' = NoDrains
    /\ stops' = stops + 1
    /\ UNCHANGED <<stored, history, faults>>

\* The lifespan cancels every task; a drain in the provider stores its item
\* as cancelled on the way out.
Shutdown ==
    /\ up /\ stops < MaxStops
    /\ up' = FALSE /\ analysis' = FALSE
    /\ item' = [i \in Items |->
          IF item[i].status = "running" /\ \E d \in Drains : drain[d].item = i
          THEN [item[i] EXCEPT !.status = "cancelled"] ELSE item[i]]
    /\ drain' = NoDrains
    /\ stops' = stops + 1
    /\ UNCHANGED <<run, market, history, faults>>

\* recover_interrupted_runs, which the lifespan calls before recover.
RecoveredRun == IF run = "running" THEN "failed" ELSE run

\* Variant: an interrupted item is queued again.
Recovered_Requeue(i) ==
    IF item[i].status = "running"
    THEN [item[i] EXCEPT !.status = "queued"] ELSE item[i]

\* recover: an interrupted item has failed, and so has a queued item whose
\* run ended without market data.
Recovered(i) ==
    IF \/ item[i].status = "running"
       \/ item[i].status = "queued" /\ ~market /\ RecoveredRun \in {"completed", "failed"}
    THEN [item[i] EXCEPT !.status = "failed"] ELSE item[i]

\* The items recover returns, one drain task each.
Requeued == {i \in Items : Recovered(i).status = "queued"}

Restart ==
    /\ ~up /\ up' = TRUE
    /\ run' = RecoveredRun
    /\ item' = [i \in Items |-> Recovered(i)]
    /\ \E f \in [Requeued -> Drains] :
          /\ \A i, j \in Requeued : f[i] = f[j] => i = j
          /\ drain' = [d \in Drains |->
                IF \E i \in Requeued : f[i] = d
                THEN Ready(item[CHOOSE i \in Requeued : f[i] = d].role) ELSE Idle]
    /\ UNCHANGED <<market, analysis, history, budget>>

\* Recovery itself is cut short after some of the items.
RestartCutShort(S) ==
    /\ ~up /\ stops < MaxStops
    /\ run' = RecoveredRun
    /\ item' = [i \in Items |-> IF i \in S THEN Recovered(i) ELSE item[i]]
    /\ stops' = stops + 1
    /\ UNCHANGED <<market, analysis, drain, up, history, faults>>

----------------------------------------------------------------------------
NoItem == [status |-> "absent", role |-> None, seq |-> 0, attempt |-> 0,
           progress |-> FALSE, ticket |-> 0]

Init ==
    /\ item = [i \in Items |-> NoItem]
    /\ drain = NoDrains
    /\ run = "queued" /\ market = FALSE /\ analysis = TRUE /\ up = TRUE
    /\ clock = [r \in Roles |-> 0] /\ calls = [i \in Items |-> [a \in Attempts |-> 0]]
    /\ stops = 0 /\ faults = 0

Request ==
    \E i \in Items :
        \/ \E r \in Roles : Create(i, r)
        \/ Cancel(i)
        \/ Resume(i)
        \/ RecordProgress(i)

Turn(d) ==
    \/ Leave(d)
    \/ Sleep(d)
    \/ \E i \in Items : Discard(d, i) \/ Begin(d, i) \/ BeginWithGap(d, i)

Answer(d) == \E outcome \in {"completed", "failed"} : Return(d, outcome)

Analysis == StartAnalysis \/ StoreMarketData \/ EndAnalysis

Stop == Crash \/ Shutdown \/ \E S \in SUBSET Items : RestartCutShort(S)

Next ==
    \/ Request
    \/ \E d \in Drains : Turn(d) \/ Answer(d) \/ DrainDies(d)
    \/ Analysis
    \/ Stop
    \/ Restart

Spec == Init /\ [][Next]_vars

\* The event loop runs every task that is ready, the provider answers or
\* times out, and the analysis task ends.
Fairness ==
    /\ \A d \in Drains : WF_vars(Turn(d)) /\ WF_vars(Answer(d))
    /\ WF_vars(StartAnalysis \/ EndAnalysis)

FairSpec == Spec /\ Fairness

----------------------------------------------------------------------------
(* Properties *)

\* run_next starts nothing while the lane has a running item: at most one
\* item of a lane runs, across restarts and storage failures as well.
OneRunningPerLane ==
    \A r \in Roles : \A i, j \in Lane(r) :
        item[i].status = "running" /\ item[j].status = "running" => i = j

\* When the provider answers, the drain finds its item still running and
\* nobody else executing it: the stale-state errors after the provider call
\* are unreachable.
CallOwnsItem ==
    \A d \in Drains : drain[d].phase = "calling" =>
        /\ item[drain[d].item].status = "running"
        /\ item[drain[d].item].role = drain[d].role
        /\ \A e \in Drains \ {d} : drain[e].phase = "calling" => drain[e].role # drain[d].role

\* Each attempt of an item reaches the provider at most once: a crash never
\* leads to a second call for the attempt it interrupted.
OneCallPerAttempt == \A i \in Items, a \in Attempts : calls[i][a] <= 1

\* queue_sequence orders a lane's waiting items as they entered the queue, a
\* resumed item behind everything that was already waiting.
QueueOrder ==
    \A r \in Roles : \A i, j \in Queued(r) :
        item[i].ticket < item[j].ticket => item[i].seq < item[j].seq

\* Every waiting item eventually leaves the queue, unless the process that
\* carries the analysis is stopped or storage refuses a write.
QueuedItemsServed ==
    \A i \in Items : item[i].status = "queued" ~>
        item[i].status # "queued" \/ stops > 0 \/ faults > 0
=============================================================================
