---------------------------- MODULE AnalysisRun ----------------------------
(***************************************************************************)
(* The life of an analysis run: InvestmentCommittee in                     *)
(* services/orchestrator.py, from create_analysis to record_review, with   *)
(* the startup recovery of recover_interrupted_runs.                       *)
(*                                                                         *)
(* `store' is what storage holds of each run and of its candidate (every   *)
(* run has a candidate of its own).  The other variables are the tasks of  *)
(* the running process: tasks waiting for a run slot, the task that        *)
(* carries a run through its stages, and the agent tasks of the stage.     *)
(*                                                                         *)
(* A handler suspends only in the market data and provider calls, on the   *)
(* run slot and in gather; what it writes in between is one action.  Those *)
(* writes are separate transactions, so a process that stops may leave     *)
(* any prefix of them behind, and a write that storage refuses raises in   *)
(* the middle of them.  Event writes are left out: _record_event swallows  *)
(* their failures and nothing reads them back.                             *)
(***************************************************************************)
EXTENDS Naturals, Sequences, FiniteSets

CONSTANTS
    Runs,           \* the runs that may be created
    Scheduled,      \* the runs that the scheduler launches, the others launch at once
    Analysts,       \* fundamental, technical and news: the first stage
    Debaters,       \* bull and bear: the second stage
    Chairman,       \* head_trader: the last stage
    Slots,          \* max_parallel_agents: runs that may be in progress
    MaxDispatches,  \* bound: dispatches of one scheduled run
    MaxStops,       \* bound: crashes, shutdowns and interrupted recoveries
    MaxFaults       \* bound: writes that storage refuses

Roles == Analysts \cup Debaters \cup {Chairman}

ASSUME AnalysisRunAssumption ==
    /\ Scheduled \subseteq Runs
    /\ Analysts \cap Debaters = {} /\ Chairman \notin Analysts \cup Debaters
    /\ Analysts # {} /\ Debaters # {}
    /\ Slots \in Nat \ {0} /\ MaxDispatches \in Nat
    /\ MaxStops \in Nat /\ MaxFaults \in Nat

VARIABLES
    store,       \* what storage holds of each run
    waiting,     \* tasks of each run waiting for a run slot
    phase,       \* where the task that carries the run is
    agent,       \* the agents of the run in this process
    up,          \* whether the server is serving
    dispatches,  \* bound: dispatches of each scheduled run
    stops, faults

tasks  == <<waiting, phase, agent>>
budget == <<stops, faults>>
vars   == <<store, waiting, phase, agent, up, dispatches, stops, faults>>

RunStatuses       == {"absent", "queued", "running", "completed", "failed", "cancelled"}
CandidateStatuses == {"absent", "queued", "analyzing", "ready_for_review",
                      "approved", "rejected", "archived"}
OutputStatuses    == {"absent", "running", "completed", "failed"}
Verdicts          == {"approved", "rejected", "hold"}
Phases            == {"idle", "collecting", "analysis", "debate", "chair", "unwinding"}
AgentPhases       == {"idle", "created", "calling", "done", "raised", "cancelling"}

Terminal == {"completed", "failed", "cancelled"}

Record == [status : RunStatuses, candidate : CandidateStatuses, market : BOOLEAN,
           output : [Roles -> OutputStatuses], risk : BOOLEAN, decision : BOOLEAN,
           reviews : Seq(Verdicts)]

TypeOK ==
    /\ store \in [Runs -> Record]
    /\ waiting \in [Runs -> Nat]
    /\ phase \in [Runs -> Phases]
    /\ agent \in [Runs -> [Roles -> AgentPhases]]
    /\ up \in BOOLEAN
    /\ dispatches \in [Runs -> Nat]
    /\ stops \in Nat /\ faults \in Nat

----------------------------------------------------------------------------
(* Stretches of writes *)

\* A stretch that leaves `done', or, when the process stops in it, one of `partly'.
Commit(r, done, partly) ==
    \/ /\ store' = [store EXCEPT ![r] = done]
       /\ UNCHANGED <<up, budget>>
    \/ /\ stops < MaxStops /\ stops' = stops + 1
       /\ up' = FALSE
       /\ \E s \in partly : store' = [store EXCEPT ![r] = s]
       /\ UNCHANGED faults

\* Storage refuses a write and the exception leaves the handler: the writes
\* before it stay.
Escape(r, partly) ==
    /\ faults < MaxFaults /\ faults' = faults + 1
    /\ \E s \in partly : store' = [store EXCEPT ![r] = s]
    /\ UNCHANGED <<up, stops>>

\* Storage refuses a write and an except block then stores `done'.  (That storage
\* refuses a write of the except block as well is left out.)
Refused(r, done, partly) ==
    /\ faults < MaxFaults /\ faults' = faults + 1
    /\ \/ /\ store' = [store EXCEPT ![r] = done]
          /\ UNCHANGED <<up, stops>>
       \/ /\ stops < MaxStops /\ stops' = stops + 1
          /\ up' = FALSE
          /\ \E s \in partly : store' = [store EXCEPT ![r] = s]

NoTask(r) == [a \in Roles |-> "idle"]

AtWork == {"calling", "cancelling"}

\* Variant: the slot is kept.
Release_KeepsSlot(r) ==
    /\ phase' = [phase EXCEPT ![r] = "ended"]
    /\ agent' = [agent EXCEPT ![r] = NoTask(r)]

\* The task that carried the run ends and gives its slot back.  Agent tasks of
\* their own would outlive it.
Release(r) ==
    /\ phase' = [phase EXCEPT ![r] = "idle"]
    /\ agent' = [agent EXCEPT ![r] =
                    [a \in Roles |-> IF a # Chairman /\ @[a] \in AtWork THEN @[a] ELSE "idle"]]

Failed(s)       == [s EXCEPT !.status = "failed", !.candidate = "queued"]
FailedPartly(s) == {s, [s EXCEPT !.status = "failed"]}

\* The except block of _run_analysis_once, storing a failed run.
FailRun(r, s) ==
    /\ \/ Commit(r, Failed(s), FailedPartly(s))
       \/ Escape(r, FailedPartly(s))
    /\ Release(r)

----------------------------------------------------------------------------
(* Requests: create, launch, cancel and review *)

Created(s) == [s EXCEPT !.status = "queued", !.candidate = "queued"]

\* create_analysis; a run that is not left to the scheduler is launched by the
\* same request handler, before it suspends.
Create(r) ==
    LET s == store[r]
        partly == {s, [s EXCEPT !.candidate = "queued"], Created(s)}
    IN
    /\ up /\ s.candidate = "absent"
    /\ \/ /\ Commit(r, Created(s), partly)
          /\ waiting' = IF r \in Scheduled THEN waiting ELSE [waiting EXCEPT ![r] = @ + 1]
       \/ /\ Escape(r, partly)
          /\ UNCHANGED waiting
    /\ UNCHANGED <<phase, agent, dispatches>>

\* dispatch_scheduled_analysis calls run_analysis: again after a recovery too.
Dispatch(r) ==
    /\ up /\ r \in Scheduled /\ store[r].status # "absent"
    /\ dispatches[r] < MaxDispatches
    /\ dispatches' = [dispatches EXCEPT ![r] = @ + 1]
    /\ waiting' = [waiting EXCEPT ![r] = @ + 1]
    /\ UNCHANGED <<store, phase, agent, up, budget>>

CancelledPartly(s) == {s, [s EXCEPT !.status = "cancelled"]}

\* cancel_queued_analysis: the run could not be registered with the scheduler,
\* so nothing was dispatched yet.
CancelQueued(r) ==
    LET s == store[r] IN
    /\ up /\ r \in Scheduled /\ dispatches[r] = 0 /\ s.status = "queued"
    /\ \/ Commit(r, [s EXCEPT !.status = "cancelled", !.candidate = "archived"],
                 CancelledPartly(s))
       \/ Escape(r, CancelledPartly(s))
    /\ UNCHANGED <<tasks, dispatches>>

Reviewed(s, ruling) ==
    [s EXCEPT !.reviews = Append(@, ruling),
              !.candidate = IF ruling = "hold" THEN "ready_for_review" ELSE ruling]

\* record_review stores the review, then the candidate.
Review(r, ruling) ==
    LET s == store[r]
        partly == {s, [s EXCEPT !.reviews = Append(@, ruling)]}
    IN
    /\ up /\ s.status = "completed" /\ s.reviews = <<>>
    /\ Commit(r, Reviewed(s, ruling), partly) \/ Escape(r, partly)
    /\ UNCHANGED <<tasks, dispatches>>

----------------------------------------------------------------------------
(* The task that carries a run *)

SlotFree == Cardinality({r \in Runs : phase[r] # "idle"}) < Slots

StartedPartly(s) == {s, [s EXCEPT !.status = "running"]}

\* Variant: whatever the run's status.
Begin_AnyStatus(r) ==
    LET s == store[r] IN
    /\ up /\ waiting[r] > 0 /\ SlotFree /\ phase[r] = "idle"
    /\ waiting' = [waiting EXCEPT ![r] = @ - 1]
    /\ Commit(r, [s EXCEPT !.status = "running", !.candidate = "analyzing"], StartedPartly(s))
    /\ phase' = [phase EXCEPT ![r] = "collecting"]
    /\ UNCHANGED <<agent, dispatches>>

\* The task has its slot and finds the run queued.  A refused write leaves
\* through the top of _run_analysis_once: its try block has not begun.
Begin(r) ==
    LET s == store[r] IN
    /\ up /\ waiting[r] > 0 /\ SlotFree /\ s.status = "queued"
    /\ waiting' = [waiting EXCEPT ![r] = @ - 1]
    /\ \/ /\ Commit(r, [s EXCEPT !.status = "running", !.candidate = "analyzing"],
                    StartedPartly(s))
          /\ phase' = [phase EXCEPT ![r] = "collecting"]
       \/ /\ Escape(r, StartedPartly(s))
          /\ UNCHANGED phase
    /\ UNCHANGED <<agent, dispatches>>

\* The run is no longer queued: AnalysisRunConflictError ends the task.
Conflict(r) ==
    /\ up /\ waiting[r] > 0 /\ SlotFree /\ store[r].status # "queued"
    /\ waiting' = [waiting EXCEPT ![r] = @ - 1]
    /\ UNCHANGED <<store, phase, agent, up, dispatches, budget>>

\* _run_agent_stage creates the tasks of a stage.
Assemble(r, stage, name) ==
    /\ phase' = [phase EXCEPT ![r] = name]
    /\ agent' = [agent EXCEPT ![r] =
                    [a \in Roles |-> IF a \in stage THEN "created" ELSE @[a]]]

\* Market data and research arrived: the snapshot is stored and the analysts start.
Collect(r) ==
    LET s == store[r] IN
    /\ up /\ phase[r] = "collecting"
    /\ Commit(r, [s EXCEPT !.market = TRUE], {s})
    /\ Assemble(r, Analysts, "analysis")
    /\ UNCHANGED <<waiting, dispatches>>

\* The data sources fail, the data is unusable, or the snapshot is refused.
CollectFails(r) ==
    /\ up /\ phase[r] = "collecting"
    /\ \/ FailRun(r, store[r])
       \/ /\ Refused(r, Failed(store[r]), FailedPartly(store[r]))
          /\ Release(r)
    /\ UNCHANGED <<waiting, dispatches>>

\* Variant: one answer is enough.
BeginDebate_OnFirst(r) ==
    /\ up /\ phase[r] = "analysis"
    /\ \E a \in Analysts : agent[r][a] = "done"
    /\ Assemble(r, Debaters, "debate")
    /\ UNCHANGED <<store, waiting, up, dispatches, budget>>

\* Every analyst has answered: the debaters start.
BeginDebate(r) ==
    /\ up /\ phase[r] = "analysis"
    /\ \A a \in Analysts : agent[r][a] = "done"
    /\ Assemble(r, Debaters, "debate")
    /\ UNCHANGED <<store, waiting, up, dispatches, budget>>

\* Every debater has answered: the chairman is called in the same task.
CallChairman(r) ==
    LET s == store[r] IN
    /\ up /\ phase[r] = "debate"
    /\ \A a \in Debaters : agent[r][a] = "done"
    /\ \/ /\ Commit(r, [s EXCEPT !.output[Chairman] = "running"], {s})
          /\ phase' = [phase EXCEPT ![r] = "chair"]
          /\ agent' = [agent EXCEPT ![r][Chairman] = "calling"]
       \/ /\ Refused(r, Failed(s), FailedPartly(s))
          /\ Release(r)
    /\ UNCHANGED <<waiting, dispatches>>

\* What the chairman's answer leaves in storage, write by write.
Spoken(s)    == [s EXCEPT !.output[Chairman] = "completed"]
Judged(s)    == [Spoken(s) EXCEPT !.risk = TRUE]
Decided(s)   == [Judged(s) EXCEPT !.decision = TRUE]
Completed(s) == [Decided(s) EXCEPT !.status = "completed"]
Finished(s)  == [Completed(s) EXCEPT !.candidate = "ready_for_review"]

\* Variant: the candidate is offered before the run is completed.
Drafts_CandidateFirst(s) == {Spoken(s), Judged(s), Decided(s),
                             [Decided(s) EXCEPT !.candidate = "ready_for_review"]}

Drafts(s)    == {Spoken(s), Judged(s), Decided(s), Completed(s)}
Silenced(s)  == [s EXCEPT !.output[Chairman] = "failed"]

\* The chairman answers and the draft decision is stored for human review.
Finish(r) ==
    LET s == store[r] IN
    /\ up /\ phase[r] = "chair"
    /\ Commit(r, Finished(s), {s} \cup Drafts(s))
    /\ Release(r)
    /\ UNCHANGED <<waiting, dispatches>>

\* The chairman fails, or storage refuses one of the writes: the run fails.
FinishFails(r) ==
    LET s == store[r] IN
    /\ up /\ phase[r] = "chair"
    /\ \/ FailRun(r, Silenced(s))
       \/ /\ \E p \in Drafts(s) : Refused(r, Failed(p), Drafts(s) \cup FailedPartly(p))
          /\ Release(r)
    /\ UNCHANGED <<waiting, dispatches>>

----------------------------------------------------------------------------
(* The agents of a stage *)

\* An agent task starts: it announces itself and calls the provider.
Speak(r, a) ==
    LET s == store[r] IN
    /\ up /\ agent[r][a] = "created"
    /\ \/ /\ Commit(r, [s EXCEPT !.output[a] = "running"], {s})
          /\ agent' = [agent EXCEPT ![r][a] = "calling"]
       \/ /\ Escape(r, {s})
          /\ agent' = [agent EXCEPT ![r][a] = "raised"]
    /\ UNCHANGED <<waiting, phase, dispatches>>

\* An analyst whose input is missing answers at once, without the provider.
SpeakOfGap(r, a) ==
    LET s == store[r]
        announced == [s EXCEPT !.output[a] = "running"]
        answered  == [s EXCEPT !.output[a] = "completed"]
        broken    == [s EXCEPT !.output[a] = "failed"]
    IN
    /\ up /\ a \in Analysts /\ agent[r][a] = "created"
    /\ \/ /\ Commit(r, answered, {s, announced})
          /\ agent' = [agent EXCEPT ![r][a] = "done"]
       \/ /\ Refused(r, broken, {announced})
          /\ agent' = [agent EXCEPT ![r][a] = "raised"]
    /\ UNCHANGED <<waiting, phase, dispatches>>

\* The provider answers.
Answer(r, a) ==
    LET s == store[r] IN
    /\ up /\ a # Chairman /\ agent[r][a] = "calling"
    /\ Commit(r, [s EXCEPT !.output[a] = "completed"], {s})
    /\ agent' = [agent EXCEPT ![r][a] = "done"]
    /\ UNCHANGED <<waiting, phase, dispatches>>

\* The provider fails, its answer is invalid or storage refuses the answer: the
\* output is stored as failed, unless storage refuses that too.  The same block
\* of _run_agent runs when the task is cancelled.
Break(r, a) ==
    LET s == store[r] IN
    /\ up /\ a # Chairman /\ agent[r][a] \in AtWork
    /\ Commit(r, [s EXCEPT !.output[a] = "failed"], {s}) \/ Escape(r, {s})
    /\ agent' = [agent EXCEPT ![r][a] = "raised"]
    /\ UNCHANGED <<waiting, phase, dispatches>>

\* Variant: the siblings are left at work.
CancelSiblings_Forgotten(r) ==
    /\ up /\ phase[r] \in {"analysis", "debate"}
    /\ \E a \in Roles : agent[r][a] = "raised"
    /\ \A a \in Roles : agent[r][a] # "created"
    /\ phase' = [phase EXCEPT ![r] = "unwinding"]
    /\ UNCHANGED <<store, waiting, agent, up, dispatches, budget>>

\* _run_agent_stage sees the first failure and cancels the agents still at work.
\* The tasks of a stage all start before it can see one.
CancelSiblings(r) ==
    /\ up /\ phase[r] \in {"analysis", "debate"}
    /\ \E a \in Roles : agent[r][a] = "raised"
    /\ \A a \in Roles : agent[r][a] # "created"
    /\ phase' = [phase EXCEPT ![r] = "unwinding"]
    /\ agent' = [agent EXCEPT ![r] =
                    [a \in Roles |-> IF @[a] = "calling" THEN "cancelling" ELSE @[a]]]
    /\ UNCHANGED <<store, waiting, up, dispatches, budget>>

\* The cancelled siblings have ended: the run fails.
Unwind(r) ==
    /\ up /\ phase[r] = "unwinding"
    /\ \A a \in Roles : agent[r][a] # "cancelling"
    /\ FailRun(r, store[r])
    /\ UNCHANGED <<waiting, dispatches>>

----------------------------------------------------------------------------
(* Stops and recovery *)

\* The process ends between two stretches, losing its tasks.
Crash ==
    /\ up /\ stops < MaxStops
    /\ stops' = stops + 1 /\ up' = FALSE
    /\ UNCHANGED <<store, tasks, dispatches, faults>>

\* The lifespan cancels every task: an agent at work stores its output as failed,
\* and neither the run nor its candidate is touched.
Shutdown ==
    /\ up /\ stops < MaxStops
    /\ stops' = stops + 1 /\ up' = FALSE
    /\ store' = [r \in Runs |-> [store[r] EXCEPT !.output =
                    [a \in Roles |-> IF agent[r][a] \in AtWork
                                     THEN "failed" ELSE @[a]]]]
    /\ UNCHANGED <<tasks, dispatches, faults>>

\* recover_interrupted_runs on one run: its running outputs, itself, its candidate.
OutputsClosed(s, closed) ==
    [s EXCEPT !.output = [a \in Roles |-> IF a \in closed THEN "failed" ELSE @[a]]]
RunningOutputs(s) == {a \in Roles : s.output[a] = "running"}
Recovered(s)       == Failed(OutputsClosed(s, RunningOutputs(s)))

\* Variant: the run is closed before its outputs.
RecoveredPartly_RunFirst(s) == FailedPartly(s) \cup {Failed(s)}

RecoveredPartly(s) ==
    {OutputsClosed(s, closed) : closed \in SUBSET RunningOutputs(s)}
      \cup FailedPartly(OutputsClosed(s, RunningOutputs(s)))

Interrupted == {r \in Runs : store[r].status = "running"}

NoTasks ==
    /\ waiting' = [r \in Runs |-> 0]
    /\ phase' = [r \in Runs |-> "idle"]
    /\ agent' = [r \in Runs |-> NoTask(r)]

Restart ==
    /\ ~up /\ up' = TRUE
    /\ store' = [r \in Runs |-> IF r \in Interrupted THEN Recovered(store[r]) ELSE store[r]]
    /\ NoTasks
    /\ UNCHANGED <<dispatches, budget>>

\* The recovery stops after some runs and in the middle of another.
RestartCutShort ==
    /\ ~up /\ stops < MaxStops /\ stops' = stops + 1
    /\ \E done \in SUBSET Interrupted, r \in Interrupted : \E s \in RecoveredPartly(store[r]) :
          /\ r \notin done
          /\ store' = [[q \in Runs |-> IF q \in done THEN Recovered(store[q]) ELSE store[q]]
                          EXCEPT ![r] = s]
    /\ UNCHANGED <<tasks, up, dispatches, faults>>

----------------------------------------------------------------------------
Absent == [status |-> "absent", candidate |-> "absent", market |-> FALSE,
           output |-> [a \in Roles |-> "absent"], risk |-> FALSE, decision |-> FALSE,
           reviews |-> <<>>]

Init ==
    /\ store = [r \in Runs |-> Absent]
    /\ waiting = [r \in Runs |-> 0]
    /\ phase = [r \in Runs |-> "idle"]
    /\ agent = [r \in Runs |-> NoTask(r)]
    /\ up = TRUE
    /\ dispatches = [r \in Runs |-> 0]
    /\ stops = 0 /\ faults = 0

\* What the event loop runs without anyone asking.
Progress(r) ==
    \/ Begin(r) \/ Conflict(r)
    \/ Collect(r) \/ CollectFails(r)
    \/ BeginDebate(r) \/ CallChairman(r)
    \/ Finish(r) \/ FinishFails(r)
    \/ \E a \in Roles : Speak(r, a) \/ SpeakOfGap(r, a) \/ Answer(r, a) \/ Break(r, a)
    \/ CancelSiblings(r) \/ Unwind(r)

Request(r) ==
    \/ Create(r) \/ Dispatch(r) \/ CancelQueued(r)
    \/ \E ruling \in Verdicts : Review(r, ruling)

Next ==
    \/ \E r \in Runs : Request(r) \/ Progress(r)
    \/ Crash \/ Shutdown \/ Restart \/ RestartCutShort

Spec == Init /\ [][Next]_vars

\* The event loop runs every ready task, and a provider or data call answers or
\* fails: both have timeouts.
Fairness == \A r \in Runs : WF_vars(Progress(r))
FairSpec == Spec /\ Fairness

\* A server that stops is started again.
RestartedSpec == FairSpec /\ WF_vars(Restart)

----------------------------------------------------------------------------
(* Safety *)

\* No debater is heard before every analyst has answered, nor the chairman
\* before every debater; and a stored decision rests on market data, on the
\* answers of all six roles and on the risk policy's output, wherever the
\* process stopped or a write failed.
DecisionIsGrounded ==
    \A r \in Runs : LET heard(a) == store[r].output[a] # "absent"
                        answered(stage) == \A a \in stage : store[r].output[a] = "completed"
                    IN /\ (\E a \in Debaters : heard(a)) => answered(Analysts)
                       /\ heard(Chairman) => answered(Debaters)
                       /\ store[r].decision => /\ store[r].market /\ store[r].risk
                                               /\ answered(Roles)

\* A candidate is offered for review, approved or rejected only on a completed
\* run that has a decision, and a verdict on it is the one a human recorded.
HumanGate ==
    \A r \in Runs : LET s == store[r] IN
        /\ s.candidate \in {"ready_for_review", "approved", "rejected"} =>
              s.status = "completed" /\ s.decision
        /\ s.candidate \in {"approved", "rejected"} => s.reviews = <<s.candidate>>

\* No agent of this process works for a run that is not running: a failing agent
\* takes its siblings down before the run is stored as failed.
NoAgentOutlivesRun ==
    up => \A r \in Runs : (\E a \in Roles : agent[r][a] \in AtWork) => store[r].status = "running"

\* Each run that is stored as running has a task of this process that carries it.
RunsAreCarried ==
    up => \A r \in Runs : store[r].status = "running" => phase[r] # "idle"

\* While storage accepts every write, nothing is left running by a stop, however
\* often the recovery itself is cut short: a serving process carries each run that
\* is stored as running, and no output of a run that ended is running.
NothingStranded ==
    faults = 0 =>
        /\ RunsAreCarried
        /\ \A r \in Runs : store[r].status \in Terminal => RunningOutputs(store[r]) = {}

----------------------------------------------------------------------------
(* The promise *)

\* The status that build_run_payload shows.
View(r) ==
    LET s == store[r] IN
    CASE s.status = "absent" -> "none"
      [] s.status = "completed" -> IF s.reviews = <<>> THEN "review" ELSE s.reviews[1]
      [] OTHER -> s.status

Promise == INSTANCE RunPromise WITH view <- [r \in Runs |-> View(r)]

\* Through crashes, interrupted recoveries, repeated dispatches and refused writes
\* a run keeps the promise: no restart of a run that ended, no withdrawn run
\* executed, no verdict changed.
KeepsPromise == Promise!Spec

----------------------------------------------------------------------------
(* Liveness *)

\* A run whose task was started is completed or failed ("한 분석 실행을 완료하거나
\* 실패 상태로 확정한다", run_analysis), or was withdrawn before.
LaunchedRunsEnd == \A r \in Runs : up /\ waiting[r] > 0 ~> store[r].status \in Terminal

\* The same for a run that no stop and no refused write disturbs, whatever its agents
\* and the other runs do.
UndisturbedRunsEnd ==
    \A r \in Runs : up /\ waiting[r] > 0 ~> store[r].status \in Terminal \/ stops > 0 \/ faults > 0

=============================================================================
