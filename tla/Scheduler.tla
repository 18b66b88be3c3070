----------------------------- MODULE Scheduler -----------------------------
(***************************************************************************)
(* Analyses scheduled for a later time: services/scheduled_analysis.py     *)
(* with the poll loop, the dispatch tasks and the requests of main.py.     *)
(*                                                                         *)
(* A request creates an analysis run and one schedule for it, so a         *)
(* schedule is named by its run.  Every change of a schedule is a new      *)
(* version in storage and the service's cache follows each stored version, *)
(* so `schedule' is both.  Of the run only the status is kept; AnalysisRun *)
(* describes what happens in it.                                           *)
(*                                                                         *)
(* The service never suspends under its lock, so a poll, with the dispatch *)
(* tasks it creates, is one action, and so is each stretch of a dispatch   *)
(* task up to the run's own suspensions.                                   *)
(***************************************************************************)
EXTENDS Naturals, FiniteSets, FiniteSetsExt

CONSTANTS
    Runs,       \* the runs, and their schedules, that may be created
    Subjects,   \* what is asked for: market, ticker and thesis
    NoSubject,  \* of a run without a schedule
    Limit,      \* claim_due(limit=8)
    MaxTime,    \* bound: the clock, and the times asked for
    MaxStops,   \* bound: crashes, shutdowns and interrupted recoveries
    MaxFaults   \* bound: writes that storage refuses

ASSUME SchedulerAssumption ==
    /\ IsFiniteSet(Runs) /\ NoSubject \notin Subjects
    /\ Limit \in Nat \ {0} /\ MaxTime \in Nat \ {0}
    /\ MaxStops \in Nat /\ MaxFaults \in Nat

VARIABLES
    schedule,  \* the newest version of each schedule
    run,       \* the stored status of each run
    created,   \* dispatch tasks of each schedule that have not started
    waiting,   \* dispatch tasks of each schedule waiting for a run slot
    carried,   \* the runs that a dispatch task is carrying out
    now,       \* the clock
    up,        \* whether the server is serving
    starts,    \* history: how often each run began
    stops, faults

tasks  == <<created, waiting, carried>>
budget == <<stops, faults>>
vars   == <<schedule, run, created, waiting, carried, now, up, starts, stops, faults>>

Times       == 1..MaxTime
Statuses    == {"absent", "scheduled", "claimed", "dispatched", "completed", "failed", "cancelled"}
RunStatuses == {"absent", "queued", "running", "completed", "failed", "cancelled"}
Active      == {"scheduled", "claimed", "dispatched"}
Dispatching == {"claimed", "dispatched"}
Ended       == {"completed", "failed", "cancelled"}

Schedule == [status : Statuses, time : 0..MaxTime, subject : Subjects \cup {NoSubject}, sequence : Nat]

TypeOK ==
    /\ schedule \in [Runs -> Schedule]
    /\ run \in [Runs -> RunStatuses]
    /\ created \in [Runs -> Nat] /\ waiting \in [Runs -> Nat]
    /\ carried \in SUBSET Runs
    /\ now \in 0..MaxTime /\ up \in BOOLEAN
    /\ starts \in [Runs -> Nat]
    /\ stops \in Nat /\ faults \in Nat

----------------------------------------------------------------------------
Become(r, status) == schedule' = [schedule EXCEPT ![r].status = status]

\* The process ends in the middle of a stretch; its tasks are gone.
Interrupt ==
    /\ stops < MaxStops /\ stops' = stops + 1
    /\ up' = FALSE
    /\ created' = [r \in Runs |-> 0] /\ waiting' = [r \in Runs |-> 0] /\ carried' = {}
    /\ UNCHANGED faults

Refusal ==
    /\ faults < MaxFaults /\ faults' = faults + 1
    /\ UNCHANGED <<up, stops>>

Smooth == UNCHANGED <<up, stops, faults>>

----------------------------------------------------------------------------
(* Requests *)

NextSequence == Max({0} \cup {schedule[r].sequence : r \in Runs}) + 1

Matches(subject, time) ==
    {r \in Runs : schedule[r].status \in Active /\ schedule[r].subject = subject
                                                /\ schedule[r].time = time}

\* POST /api/schedules: unless an active schedule asks for the same at the same
\* time, the run is created, then its schedule.  When storage refuses the schedule,
\* the run is cancelled.
Ask(r, subject, time) ==
    /\ up /\ run[r] = "absent" /\ time > now
    /\ Matches(subject, time) = {}
    /\ \/ /\ run' = [run EXCEPT ![r] = "queued"]
          /\ schedule' = [schedule EXCEPT ![r] = [status |-> "scheduled", time |-> time,
                                                  subject |-> subject, sequence |-> NextSequence]]
          /\ Smooth /\ UNCHANGED tasks
       \/ /\ run' = [run EXCEPT ![r] = "queued"]
          /\ Interrupt /\ UNCHANGED schedule
       \/ /\ run' = [run EXCEPT ![r] = "cancelled"]
          /\ Refusal /\ UNCHANGED <<schedule, tasks>>
    /\ UNCHANGED <<now, starts>>

\* POST /api/schedules/{schedule}/cancel
Cancel(r) ==
    /\ up /\ schedule[r].status = "scheduled"
    /\ Become(r, "cancelled")
    /\ UNCHANGED <<run, tasks, now, up, starts, budget>>

Tick ==
    /\ now < MaxTime /\ now' = now + 1
    /\ UNCHANGED <<schedule, run, tasks, up, starts, budget>>

----------------------------------------------------------------------------
(* The poll *)

\* Variant: a time that has gone by is missed.
Due_OnTheDot == {r \in Runs : schedule[r].status = "scheduled" /\ schedule[r].time = now}

Due == {r \in Runs : schedule[r].status = "scheduled" /\ schedule[r].time <= now}

\* _fifo_key: the time asked for, then the order of the requests.
Before(q, r) ==
    \/ schedule[q].time < schedule[r].time
    \/ schedule[q].time = schedule[r].time /\ schedule[q].sequence < schedule[r].sequence

\* _reconcile_nonqueued_run: what becomes of a due schedule.
Verdict(r) ==
    CASE run[r] = "queued" -> "claimed"
      [] run[r] = "completed" -> "completed"
      [] OTHER -> "failed"

Claims(seen) == {r \in seen : Verdict(r) = "claimed"}

\* The schedules seen come first among the due ones.
IsPrefix(seen) == \A r \in seen, q \in Due : Before(q, r) => q \in seen

\* The schedules that a poll goes through: the first due ones, up to the one that
\* fills the limit of claims.
IsBatch(seen) ==
    /\ seen \subseteq Due /\ IsPrefix(seen)
    /\ Cardinality(Claims(seen)) <= Limit
    /\ seen # Due => /\ Cardinality(Claims(seen)) = Limit
                     /\ \A r \in seen : (\A q \in seen : ~Before(r, q)) => r \in Claims(seen)

Claimed(seen) ==
    [r \in Runs |-> IF r \in seen THEN [schedule[r] EXCEPT !.status = Verdict(r)] ELSE schedule[r]]

\* schedule_poll_loop: claim what is due and create a dispatch task for each claim.
\* The claims are stored one after the other; when the process stops or storage
\* refuses one, those before it are stored and no task is created.
Poll ==
    /\ up /\ Due # {}
    /\ \E batch \in SUBSET Due :
          /\ IsBatch(batch)
          /\ \/ /\ schedule' = Claimed(batch)
                /\ created' = [r \in Runs |-> IF r \in Claims(batch) THEN created[r] + 1
                                                                     ELSE created[r]]
                /\ Smooth /\ UNCHANGED <<waiting, carried>>
             \/ \E part \in SUBSET batch :
                   /\ part # batch /\ IsPrefix(part)
                   /\ schedule' = Claimed(part)
                   /\ Interrupt \/ (Refusal /\ UNCHANGED tasks)
    /\ UNCHANGED <<run, now, starts>>

----------------------------------------------------------------------------
(* A dispatch task *)

\* Variant: a task that stays queued for its start when the mark is stored.
Dispatch_Again(r) ==
    /\ up /\ created[r] > 0 /\ schedule[r].status = "claimed"
    /\ Become(r, "dispatched")
    /\ waiting' = [waiting EXCEPT ![r] = @ + 1]
    /\ UNCHANGED <<created, run, carried, now, up, starts, budget>>

\* The task starts: the schedule is marked and the task asks for a run slot.  If
\* storage refuses the mark, the schedule is stored as failed.  (The conflicts that
\* end a dispatch silently, here and in Start, cannot occur: TasksMatchRecords.)
Dispatch(r) ==
    /\ up /\ created[r] > 0 /\ schedule[r].status = "claimed"
    /\ created' = [created EXCEPT ![r] = @ - 1]
    /\ \/ /\ Become(r, "dispatched")
          /\ waiting' = [waiting EXCEPT ![r] = @ + 1]
          /\ Smooth
       \/ /\ Become(r, "failed")
          /\ Refusal /\ UNCHANGED waiting
    /\ UNCHANGED <<run, carried, now, starts>>

\* run_analysis has its slot and finds the run queued.  If storage refuses one of
\* the two writes, the exception makes the schedule fail.
Start(r) ==
    /\ up /\ waiting[r] > 0 /\ run[r] = "queued"
    /\ waiting' = [waiting EXCEPT ![r] = @ - 1]
    /\ \/ /\ run' = [run EXCEPT ![r] = "running"]
          /\ carried' = carried \cup {r}
          /\ starts' = [starts EXCEPT ![r] = @ + 1]
          /\ Smooth /\ UNCHANGED schedule
       \/ /\ run' \in {run, [run EXCEPT ![r] = "running"]}
          /\ schedule[r].status \in Dispatching
          /\ Become(r, "failed")
          /\ Refusal /\ UNCHANGED <<carried, starts>>
    /\ UNCHANGED <<created, now>>

\* Variant: whatever became of the run.
Outcome_Completed(status) == "completed"

\* What a dispatch task writes when its run has ended: mark_completed or mark_failed.
Outcome(status) == IF status = "completed" THEN "completed" ELSE "failed"

\* The run ends and, without a suspension in between, so does its schedule.  If
\* storage refuses the schedule's outcome, it is stored as failed; if it refuses
\* the run's, the run stays running and the schedule fails.
End(r, status) ==
    /\ up /\ r \in carried /\ schedule[r].status \in Dispatching
    /\ \/ /\ run' = [run EXCEPT ![r] = status]
          /\ Become(r, Outcome(status))
          /\ carried' = carried \ {r}
          /\ Smooth /\ UNCHANGED <<created, waiting>>
       \/ /\ run' = [run EXCEPT ![r] = status]
          /\ Interrupt /\ UNCHANGED schedule
       \/ /\ run' \in {run, [run EXCEPT ![r] = status]}
          /\ Become(r, "failed")
          /\ carried' = carried \ {r}
          /\ Refusal /\ UNCHANGED <<created, waiting>>
    /\ UNCHANGED <<now, starts>>

----------------------------------------------------------------------------
(* Stops and recovery *)

\* A crash, or a shutdown that cancels the tasks: neither writes anything here.
Crash ==
    /\ up /\ Interrupt
    /\ UNCHANGED <<schedule, run, now, starts>>

\* Variant: an interrupted run is queued again.
RecoveredRun_Queued == [r \in Runs |-> IF run[r] = "running" THEN "queued" ELSE run[r]]

RecoveredRun == [r \in Runs |-> IF run[r] = "running" THEN "failed" ELSE run[r]]

\* recover: a claimed or dispatched schedule against its run.
Reconciled(status) ==
    CASE status = "completed" -> "completed"
      [] status = "queued" -> "scheduled"
      [] OTHER -> "failed"

\* Variant: only the schedules that were marked as dispatched.
Interrupted_Dispatched == {r \in Runs : schedule[r].status = "dispatched"}

Interrupted == {r \in Runs : schedule[r].status \in Dispatching}

Recovered(some) ==
    [r \in Runs |-> IF r \in some
                    THEN [schedule[r] EXCEPT !.status = Reconciled(RecoveredRun[r])]
                    ELSE schedule[r]]

\* The lifespan recovers the runs first, then the schedules, and starts the poll.
Restart ==
    /\ ~up /\ up' = TRUE
    /\ run' = RecoveredRun
    /\ schedule' = Recovered(Interrupted)
    /\ UNCHANGED <<tasks, now, starts, budget>>

RestartCutShort ==
    /\ ~up /\ stops < MaxStops /\ stops' = stops + 1
    /\ \/ /\ \E some \in SUBSET Runs :
                run' = [r \in Runs |-> IF r \in some THEN RecoveredRun[r] ELSE run[r]]
          /\ UNCHANGED schedule
       \/ /\ run' = RecoveredRun
          /\ \E some \in SUBSET Interrupted : schedule' = Recovered(some)
    /\ UNCHANGED <<tasks, now, up, starts, faults>>

----------------------------------------------------------------------------
Init ==
    /\ schedule = [r \in Runs |-> [status |-> "absent", time |-> 0, subject |-> NoSubject,
                                   sequence |-> 0]]
    /\ run = [r \in Runs |-> "absent"]
    /\ created = [r \in Runs |-> 0] /\ waiting = [r \in Runs |-> 0] /\ carried = {}
    /\ now = 0 /\ up = TRUE
    /\ starts = [r \in Runs |-> 0]
    /\ stops = 0 /\ faults = 0

Carry(r) ==
    \/ Dispatch(r) \/ Start(r)
    \/ \E status \in {"completed", "failed"} : End(r, status)

Next ==
    \/ \E r \in Runs, subject \in Subjects, time \in Times : Ask(r, subject, time)
    \/ \E r \in Runs : Cancel(r) \/ Carry(r)
    \/ Tick \/ Poll
    \/ Crash \/ Restart \/ RestartCutShort

Spec == Init /\ [][Next]_vars

\* Time passes, the loop polls, tasks run and a stopped server is started again.
FairSpec ==
    /\ Spec
    /\ WF_vars(Tick) /\ WF_vars(Poll) /\ WF_vars(Restart)
    /\ \A r \in Runs : WF_vars(Carry(r))

----------------------------------------------------------------------------
(* Safety *)

\* However often a dispatch is interrupted and recovered, its run begins once at
\* most, never before its time, and never once the schedule was cancelled.
RunsOnceInTime ==
    \A r \in Runs :
        /\ starts[r] <= 1
        /\ starts[r] > 0 => schedule[r].time <= now /\ schedule[r].status # "cancelled"

\* A schedule has at most one dispatch task, and what is stored of the schedule and
\* of its run fits the place where that task is: the conflicts that would end it
\* silently (AnalysisRunConflictError, _require_dispatching) cannot occur.  And while
\* storage accepts every write, a serving process has a task for every schedule it
\* has claimed, whatever was recovered before.
TasksMatchRecords ==
    \A r \in Runs :
        /\ up /\ faults = 0 /\ schedule[r].status \in Dispatching =>
              created[r] + waiting[r] > 0 \/ r \in carried
        /\ created[r] + waiting[r] + (IF r \in carried THEN 1 ELSE 0) <= 1
        /\ created[r] > 0 => schedule[r].status = "claimed" /\ run[r] = "queued"
        /\ waiting[r] > 0 => schedule[r].status = "dispatched" /\ run[r] = "queued"
        /\ r \in carried => schedule[r].status = "dispatched" /\ run[r] = "running"

\* A schedule is stored as completed only when its run is; and, while storage
\* accepts every write, as failed only when its run failed or was cancelled.
OutcomeIsTheRuns ==
    \A r \in Runs :
        /\ schedule[r].status = "completed" => run[r] = "completed"
        /\ schedule[r].status = "failed" /\ faults = 0 => run[r] \in {"failed", "cancelled"}

----------------------------------------------------------------------------
(* Liveness *)

\* A schedule comes to an end, even when the server stops on the way, unless storage
\* refuses a write.
SchedulesEnd ==
    \A r \in Runs : schedule[r].status = "scheduled" ~>
                        schedule[r].status \in Ended \/ faults > 0

=============================================================================
